----------------------------- MODULE JoinRegion -----------------------------
(***************************************************************************)
(* Join regions: which joins of a logical plan may be re-associated, where *)
(* each of their conjuncts goes in a given association, and how its column *)
(* numbers are translated (src/src/join_order.cpp), with the splits the    *)
(* interval DP enumerates and the estimate of a join (lowering.cpp, cost.  *)
(* cpp).                                                                   *)
(*                                                                         *)
(* A logical plan is a sequence of nodes, inputs before their consumer,    *)
(* the root last.  Columns and leaves are numbered from 0, as in the       *)
(* source; a conjunct is its column references and the test it makes.      *)
(***************************************************************************)
EXTENDS PhysicalProperties, Selections

CONSTANT Narrowing   \* 1 / join_selectivity: what one further conjunct divides by

ASSUME NarrowingAssumption == Narrowing \in Nat \ {0}

Reorderable(t, n) == t[n].op = "Join" /\ t[n].payload.joinKind \in {"Inner", "Cross"}

Width(t, n) == Len(t[n].output)

RegionLeaves(t, n) ==
  LET leaves[k \in 1..n] ==
        IF Reorderable(t, k) THEN leaves[t[k].kids[1]] \o leaves[t[k].kids[2]]
        ELSE <<k>>
  IN  leaves[n]

(* Region column where each leaf starts and, last, where the region ends.  *)
LeafOffsets(t, leaves) ==
  LET offset[i \in 0..Len(leaves)] ==
        IF i = 0 THEN 0 ELSE offset[i - 1] + Width(t, leaves[i])
  IN  offset

TotalWidth(t, leaves) == LeafOffsets(t, leaves)[Len(leaves)]

(* The conjuncts of the joins below n, children's first, each with the     *)
(* region column at which the inputs of its own join begin.                *)
RegionPredicates(t, n) ==
  LET width(k) == TotalWidth(t, RegionLeaves(t, k))
      moved(cs, by) == [i \in DOMAIN cs |-> [cs[i] EXCEPT !.base = @ + by]]
      collected[k \in 1..n] ==
        IF ~Reorderable(t, k) THEN <<>>
        ELSE LET l == t[k].kids[1] r == t[k].kids[2] IN
             collected[l] \o moved(collected[r], width(l))
               \o [i \in DOMAIN t[k].predicate |->
                     [conjunct |-> t[k].predicate[i], base |-> 0]]
  IN  collected[n]

LeafOf(offset, column) ==
  CHOOSE i \in DOMAIN offset \ {0} : column \in offset[i - 1]..(offset[i] - 1)

LeafMask(offset, p) ==
  {LeafOf(offset, p.base + p.conjunct.cols[k]) - 1 : k \in DOMAIN p.conjunct.cols}

JoinRegionOf(t, n) ==
  LET leaves == RegionLeaves(t, n)
      offset == LeafOffsets(t, leaves)
      ps     == RegionPredicates(t, n)
  IN  [leaves    |-> leaves,
       offset    |-> offset,
       conjuncts |-> [i \in DOMAIN ps |->
                        [conjunct |-> ps[i].conjunct, base |-> ps[i].base,
                         mask |-> LeafMask(offset, ps[i])]]]

(* collect_join_region() accepts: there is something to re-associate, all  *)
(* of it can be renumbered, and the columns are the leaves' concatenated.  *)
Collectable(t, n) ==
  /\ Reorderable(t, n)
  /\ LET leaves == RegionLeaves(t, n) IN
     /\ Len(leaves) >= 3
     /\ TotalWidth(t, leaves) = Width(t, n)
     /\ \A i \in DOMAIN RegionPredicates(t, n) :
          RegionPredicates(t, n)[i].conjunct.translatable
-----------------------------------------------------------------------------
(* The join over the leaves [first, split) and [split, last).              *)

RangeMask(first, last) == first..(last - 1)

(* Seeded defect: a conjunct also stays where a child could carry it.      *)
PlacedHereToo(c, first, split, last) ==
  /\ c.mask \subseteq RangeMask(first, last)
  /\ split - first >= 2 => ~(c.mask \subseteq RangeMask(first, split))

PlacedHere(c, first, split, last) ==
  /\ c.mask \subseteq RangeMask(first, last)
  /\ split - first >= 2 => ~(c.mask \subseteq RangeMask(first, split))
  /\ last - split >= 2  => ~(c.mask \subseteq RangeMask(split, last))

Placed(r, first, split, last) ==
  Passing(r.conjuncts, LAMBDA c : PlacedHere(c, first, split, last))

SplitConnects(r, first, split, last) ==
  \E i \in DOMAIN r.conjuncts :
    LET c == r.conjuncts[i] IN
    /\ PlacedHere(c, first, split, last)
    /\ c.mask \cap RangeMask(first, split) # {}
    /\ c.mask \cap RangeMask(split, last) # {}

TranslateConjunct(c, r, first) ==
  [c.conjunct EXCEPT !.cols = [k \in DOMAIN @ |-> @[k] + c.base - r.offset[first]]]

(* Pass one: the ranges with a connected tree, by increasing width.        *)
ViableRanges(r) ==
  LET n == Len(r.leaves)
      upTo[w \in 1..n] ==
        IF w = 1 THEN {<<i, i + 1>> : i \in 0..(n - 1)}
        ELSE LET shorter == upTo[w - 1] IN
             shorter \cup
               {<<f, f + w>> : f \in {g \in 0..(n - w) :
                  \E s \in (g + 1)..(g + w - 1) :
                    /\ <<g, s>> \in shorter /\ <<s, g + w>> \in shorter
                    /\ SplitConnects(r, g, s, g + w)}}
  IN  upTo[n]

Covered(r, viable) == <<0, Len(r.leaves)>> \in viable

(* Pass two builds the groups of the ranges of more than one leaf, the     *)
(* narrowest first, so that inputs always exist.                           *)
JoinRanges(viable) == {v \in viable : v[2] - v[1] >= 2}

Narrower(a, b) ==
  LET w(range) == range[2] - range[1]
  IN  \/ w(a) < w(b)
      \/ w(a) = w(b) /\ a[1] < b[1]

(* Seeded defect: the first split that connects ends the loop, as it does  *)
(* in pass one.                                                            *)
OfferedSplitsFirst(r, viable, first, last) ==
  LET connecting == Passing([i \in 1..(last - first - 1) |-> first + i],
                      LAMBDA s : /\ {<<first, s>>, <<s, last>>} \subseteq viable
                                 /\ SplitConnects(r, first, s, last))
  IN  IF connecting = <<>> THEN <<>> ELSE <<Head(connecting)>>

OfferedSplits(r, viable, first, last) ==
  Passing([i \in 1..(last - first - 1) |-> first + i],
          LAMBDA s : /\ {<<first, s>>, <<s, last>>} \subseteq viable
                     /\ SplitConnects(r, first, s, last))
-----------------------------------------------------------------------------
(* split_join_predicate(): equi-join keys, and the residual conjuncts.     *)

IsKey(c, leftWidth) ==
  /\ c.test = "="
  /\ Len(c.cols) = 2
  /\ (c.cols[1] < leftWidth) # (c.cols[2] < leftWidth)

KeyOf(c, leftWidth) ==
  IF c.cols[1] < leftWidth
  THEN [left |-> c.cols[1], right |-> c.cols[2] - leftWidth]
  ELSE [left |-> c.cols[2], right |-> c.cols[1] - leftWidth]

SplitJoinPredicate(cs, leftWidth) ==
  LET equalities == Passing(cs, LAMBDA c : IsKey(c, leftWidth))
  IN  [keys     |-> [i \in DOMAIN equalities |-> KeyOf(equalities[i], leftWidth)],
       residual |-> Passing(cs, LAMBDA c : ~IsKey(c, leftWidth))]

(* What the join over a split tests.                                       *)
SplitPredicate(r, first, split, last) ==
  LET here == Placed(r, first, split, last)
  IN  SplitJoinPredicate([i \in DOMAIN here |-> TranslateConjunct(here[i], r, first)],
                         r.offset[split] - r.offset[first])

(* Seeded defect: the equality that contains a join narrows it as well.    *)
JoinRowsNarrowed(left, right, predicate) ==
  LET larger == IF left < right THEN right ELSE left
  IN  larger \div Narrowing^(Len(predicate.residual) + Len(predicate.keys))

(* operator_rows() of a join, without column statistics: an equality       *)
(* contains it, every further conjunct narrows it.                         *)
JoinRows(left, right, predicate) ==
  LET equal    == Len(predicate.keys)
      further  == Len(predicate.residual) + (IF equal = 0 THEN 0 ELSE equal - 1)
      larger   == IF left < right THEN right ELSE left
      start    == IF equal = 0 THEN left * right ELSE larger
      narrowed[k \in 0..further] ==
        IF k = 0 THEN start ELSE narrowed[k - 1] \div Narrowing
  IN  IF narrowed[further] < left * right THEN narrowed[further] ELSE left * right
=============================================================================
