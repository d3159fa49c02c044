------------------------- MODULE Exploration_proofs -------------------------
(***************************************************************************)
(* Proofs about exploration, for every plan the binder can hand over.      *)
(*                                                                         *)
(* That every choice between associations of a join yields the same        *)
(* columns, and every node's group its node's, is not inductive: a group   *)
(* is built over the groups an activation has collected so far, and is     *)
(* right only if those are what the activation takes them for.  So the     *)
(* invariant says, of every activation on the stack, that its inputs are   *)
(* groups of the schemas of the leaves they stand for, that its ranges     *)
(* were built from the narrowest up, each with the schema of its leaves,   *)
(* and, of the index, that an entry's group has the schema of its key.     *)
(* That the root's group is the last needs more: the newest group belongs  *)
(* to an activation, and to the innermost that builds ranges, so sharing   *)
(* never hands an older group to the outermost call.                       *)
(*                                                                         *)
(* The lemmas before it say what the helpers return: of a region, that its *)
(* leaves and conjuncts are those of the plan, and its columns the join's. *)
(***************************************************************************)
EXTENDS Exploration, Recursions

-----------------------------------------------------------------------------
(* Estimates.                                                              *)

LEMMA JoinRowsType ==
  ASSUME NEW left \in Nat, NEW right \in Nat, NEW predicate,
         Len(predicate.keys) \in Nat, Len(predicate.residual) \in Nat
  PROVE  JoinRows(left, right, predicate) \in Nat
  <1> DEFINE equal    == Len(predicate.keys)
             further  == Len(predicate.residual) + (IF equal = 0 THEN 0 ELSE equal - 1)
             larger   == IF left < right THEN right ELSE left
             start    == IF equal = 0 THEN left * right ELSE larger
             Is(g)    == g = [k \in 0..further |->
                                IF k = 0 THEN start ELSE g[k - 1] \div Narrowing]
             narrowed == CHOOSE g : Is(g)
             Step     == [k \in 0..further |-> [x \in Nat |-> x \div Narrowing]]
  <1>1. further \in Nat /\ start \in Nat /\ left * right \in Nat
    <2>1. left * right \in Nat
      OBVIOUS
    <2>2. larger \in Nat
      OBVIOUS
    <2>3. further \in Nat
      <3> DEFINE others == Len(predicate.residual)
      <3>1. equal \in Nat /\ others \in Nat
        OBVIOUS
      <3>2. further = others + (IF equal = 0 THEN 0 ELSE equal - 1)
        OBVIOUS
      <3> HIDE DEF equal, others, further
      <3> QED
        BY <3>1, <3>2
    <2> HIDE DEF further, larger
    <2> QED
      BY <2>1, <2>2, <2>3
  <1>2. \A x \in Nat : x \div Narrowing \in Nat
    BY NarrowingAssumption
  <1>3. ASSUME NEW k \in 0..further, NEW x \in Nat
        PROVE  Step[k][x] = x \div Narrowing /\ Step[k][x] \in Nat
    <2> HIDE DEF further
    <2> QED
      BY <1>2
  <1>4. PICK p : Iterates(p, Step, 0, further, start, Nat)
    <2> HIDE DEF Step, further, start
    <2>1. Within(Step, 0..further, Nat)
      BY <1>3 DEF Within
    <2> QED
      BY <1>1, <2>1, Iteration
  <1>5. Is(p)
    <2>1. /\ p \in [0..further -> Nat]
          /\ \A k \in 0..further : p[k] = IF k = 0 THEN start ELSE Step[k][p[k - 1]]
      BY <1>4 DEF Iterates
    <2>2. ASSUME NEW k \in 0..further, k # 0 PROVE Step[k][p[k - 1]] = p[k - 1] \div Narrowing
      <3> HIDE DEF Step, further
      <3>1. k - 1 \in 0..further
        BY <1>1, <2>2
      <3> QED
        BY <1>3, <2>1, <3>1
    <2> HIDE DEF Step, further, start
    <2> QED
      BY <2>2, <2>1
  <1>6. Is(narrowed)
    <2> HIDE DEF Is
    <2> QED
      BY <1>5
  <1> HIDE DEF narrowed
  <1> DEFINE T == {k \in 0..further : narrowed[k] \in Nat}
  <1>7. ASSUME NEW k \in 0..further, \A j \in 0..(k - 1) : j \in T PROVE k \in T
    <2>1. narrowed[k] = IF k = 0 THEN start ELSE narrowed[k - 1] \div Narrowing
      <3> HIDE DEF further, start
      <3> QED
        BY <1>6
    <2> HIDE DEF further, start
    <2>2. k # 0 => narrowed[k - 1] \in Nat
      BY <1>1, <1>7
    <2> QED
      BY <1>1, <1>2, <2>1, <2>2
  <1>8. \A k \in 0..further : k \in T
    <2> HIDE DEF T, further
    <2> QED
      BY <1>1, <1>7, StrongInduction
  <1>9. narrowed[further] \in Nat
    <2> HIDE DEF further
    <2> QED
      BY <1>1, <1>8
  <1>10. JoinRows(left, right, predicate) =
           IF narrowed[further] < left * right THEN narrowed[further] ELSE left * right
    BY DEF JoinRows, narrowed
  <1> HIDE DEF further
  <1> QED
    BY <1>1, <1>9, <1>10

-----------------------------------------------------------------------------
(* Predicates.                                                             *)

(* Every equality that becomes a key tests a column of each side.          *)
LEMMA KeyOfType ==
  ASSUME NEW c \in Conjuncts, NEW leftWidth \in Nat, IsKey(c, leftWidth)
  PROVE  KeyOf(c, leftWidth) \in JoinKeys
  <1>1. c.cols \in Seq(Nat) /\ Len(c.cols) = 2
    BY DEF Conjuncts, IsKey
  <1>2. c.cols[1] \in Nat /\ c.cols[2] \in Nat
    BY <1>1
  <1>3. (c.cols[1] < leftWidth) # (c.cols[2] < leftWidth)
    BY DEF IsKey
  <1> DEFINE x == c.cols[1]
             y == c.cols[2]
  <1>4. KeyOf(c, leftWidth) = IF x < leftWidth THEN [left |-> x, right |-> y - leftWidth]
                              ELSE [left |-> y, right |-> x - leftWidth]
    BY DEF KeyOf
  <1> HIDE DEF x, y
  <1>5. x \in Nat /\ y \in Nat
    BY <1>2 DEF x, y
  <1>6. x < leftWidth => y - leftWidth \in Nat
    BY <1>3, <1>5 DEF x, y
  <1>7. ~(x < leftWidth) => x - leftWidth \in Nat
    BY <1>5
  <1> QED
    BY <1>4, <1>5, <1>6, <1>7 DEF JoinKeys

LEMMA SplitJoinPredicateType ==
  ASSUME NEW cs \in Seq(Conjuncts), NEW leftWidth \in Nat
  PROVE  /\ SplitJoinPredicate(cs, leftWidth).keys \in Seq(JoinKeys)
         /\ SplitJoinPredicate(cs, leftWidth).residual \in Seq(Conjuncts)
  <1> DEFINE n == Len(cs)
             Keys == {c \in Conjuncts : IsKey(c, leftWidth)}
             equal == [i \in DOMAIN cs |-> IsKey(cs[i], leftWidth)]
             other == [i \in DOMAIN cs |-> ~IsKey(cs[i], leftWidth)]
             equalities == Passing(cs, LAMBDA c : IsKey(c, leftWidth))
             residual   == Passing(cs, LAMBDA c : ~IsKey(c, leftWidth))
  <1>1. n \in Nat /\ DOMAIN cs = 1..n /\ \A i \in 1..n : cs[i] \in Conjuncts
    BY LenProperties
  <1>2. equalities = Kept(cs, equal) /\ residual = Kept(cs, other)
    BY DEF Passing
  <1>3. \A i \in 1..n : equal[i] => cs[i] \in Keys
    BY <1>1
  <1>4. equalities \in Seq(Keys) /\ residual \in Seq(Conjuncts)
    <2> HIDE DEF equal, other, Keys, equalities, residual
    <2> QED
      BY <1>1, <1>2, <1>3, KeptType
  <1>5. \A c \in Keys : KeyOf(c, leftWidth) \in JoinKeys
    BY KeyOfType
  <1>6. SplitJoinPredicate(cs, leftWidth) =
          [keys |-> [i \in DOMAIN equalities |-> KeyOf(equalities[i], leftWidth)],
           residual |-> residual]
    BY DEF SplitJoinPredicate
  <1> HIDE DEF equalities, residual, Keys
  <1>7. [i \in DOMAIN equalities |-> KeyOf(equalities[i], leftWidth)] \in Seq(JoinKeys)
    <2>1. Len(equalities) \in Nat /\ DOMAIN equalities = 1..Len(equalities)
      BY <1>4, LenProperties
    <2>2. \A i \in 1..Len(equalities) : equalities[i] \in Keys
      BY <1>4, <2>1
    <2> QED
      BY <1>5, <2>1, <2>2
  <1> QED
    BY <1>4, <1>6, <1>7

-----------------------------------------------------------------------------
(* Candidates.                                                             *)

StoredCopies == [format : Formats, freshness : Freshnesses]

(* The operators of so many inputs, and the candidates over given ones.    *)
OperatorsOf(n)     == {op \in Operators : Arity(op) = n}
CandidatesOn(inputs) ==
  {e \in GroupExprs : e.inputs = inputs /\ Arity(e.op) = Len(inputs)}

LEMMA CandidatesOfType ==
  ASSUME NEW g, NEW inputs \in Seq(Nat), NEW ops \in Seq(OperatorsOf(Len(inputs))),
         NEW formats \in Seq(StoredCopies), NEW keys \in Seq(JoinKeys), NEW residuals \in Nat
  PROVE  CandidatesOf(g, ops, formats, inputs, keys, residuals) \in Seq(CandidatesOn(inputs))
  <1> DEFINE Ops == OperatorsOf(Len(inputs))
             E   == CandidatesOn(inputs)
             passes == [i \in DOMAIN ops |-> IsApplicable(ops[i], keys, g)]
             applicable == Passing(ops, LAMBDA op : IsApplicable(op, keys, g))
             candidate(op, f, side) ==
               [op |-> op, inputs |-> inputs, keys |-> keys, residuals |-> residuals,
                format |-> f.format, freshness |-> f.freshness, buildRight |-> side]
             ofFormat(op, f) ==
               [s \in DOMAIN BuildSides(op, g) |-> candidate(op, f, BuildSides(op, g)[s])]
             ofOp(op) == FlattenSeq([k \in DOMAIN formats |-> ofFormat(op, formats[k])])
  <1>1. Len(ops) \in Nat /\ DOMAIN ops = 1..Len(ops) /\ \A i \in 1..Len(ops) : ops[i] \in Ops
    BY LenProperties
  <1>2. applicable = Kept(ops, passes)
    BY DEF Passing
  <1>3. applicable \in Seq(Ops)
    <2> HIDE DEF Ops, passes, applicable
    <2> QED
      BY <1>1, <1>2, KeptType
  <1>4. ASSUME NEW op \in Ops, NEW f \in StoredCopies, NEW side \in BOOLEAN
        PROVE  candidate(op, f, side) \in E
    BY DEF OperatorsOf, StoredCopies, CandidatesOn, GroupExprs
  <1>5. ASSUME NEW op \in Ops, NEW f \in StoredCopies
        PROVE  ofFormat(op, f) \in Seq(E)
    <2>1. BuildSides(op, g) \in Seq(BOOLEAN)
      <3>1. \A x, y \in BOOLEAN : <<x, y>> \in Seq(BOOLEAN) /\ <<x>> \in Seq(BOOLEAN)
        OBVIOUS
      <3>2. <<TRUE, FALSE>> \in Seq(BOOLEAN) /\ <<TRUE>> \in Seq(BOOLEAN)
        BY <3>1, Zenon
      <3>3. BuildSides(op, g) = <<TRUE, FALSE>> \/ BuildSides(op, g) = <<TRUE>>
        BY Zenon DEF BuildSides
      <3> QED
        BY <3>2, <3>3, Zenon
    <2>2. /\ Len(BuildSides(op, g)) \in Nat
          /\ DOMAIN BuildSides(op, g) = 1..Len(BuildSides(op, g))
          /\ \A s \in 1..Len(BuildSides(op, g)) : BuildSides(op, g)[s] \in BOOLEAN
      BY <2>1, LenProperties
    <2> HIDE DEF candidate, E, Ops
    <2>3. \A s \in 1..Len(BuildSides(op, g)) : candidate(op, f, BuildSides(op, g)[s]) \in E
      BY <1>4, <2>2
    <2> QED
      BY <2>2, <2>3
  <1>6. ASSUME NEW op \in Ops PROVE ofOp(op) \in Seq(E)
    <2> DEFINE lists == [k \in DOMAIN formats |-> ofFormat(op, formats[k])]
    <2>1. /\ Len(formats) \in Nat /\ DOMAIN formats = 1..Len(formats)
          /\ \A k \in 1..Len(formats) : formats[k] \in StoredCopies
      BY LenProperties
    <2>2. lists \in [1..Len(formats) -> Seq(E)]
      <3> HIDE DEF ofFormat, E, Ops
      <3> QED
        BY <1>5, <2>1
    <2> HIDE DEF lists, E
    <2>3. FlattenSeq(lists) \in Seq(E)
      BY <2>1, <2>2, FlattenFun
    <2> QED
      BY <2>3 DEF lists
  <1> DEFINE all == [i \in DOMAIN applicable |-> ofOp(applicable[i])]
  <1>7. CandidatesOf(g, ops, formats, inputs, keys, residuals) = FlattenSeq(all)
    BY DEF CandidatesOf
  <1> HIDE DEF applicable, ofOp, E, Ops
  <1>8. /\ Len(applicable) \in Nat /\ DOMAIN applicable = 1..Len(applicable)
        /\ \A i \in 1..Len(applicable) : applicable[i] \in Ops
    BY <1>3, LenProperties
  <1>9. all \in [1..Len(applicable) -> Seq(E)]
    BY <1>6, <1>8
  <1> HIDE DEF all
  <1>10. FlattenSeq(all) \in Seq(E)
    BY <1>8, <1>9, FlattenFun
  <1> QED
    BY <1>7, <1>10 DEF E

-----------------------------------------------------------------------------
(* Join regions.                                                           *)

LEMMA NodeType ==
  ASSUME NEW t, LogicalPlan(t), NEW n \in DOMAIN t
  PROVE  /\ DOMAIN t = 1..Len(t) /\ Len(t) \in Nat /\ n \in 1..Len(t)
         /\ t[n] \in LogicalNodes /\ Width(t, n) \in Nat
         /\ \A k \in DOMAIN t[n].kids : t[n].kids[k] \in DOMAIN t /\ t[n].kids[k] \in 1..(n - 1)
  <1>1. t \in Seq(LogicalNodes)
    BY DEF LogicalPlan
  <1>2. DOMAIN t = 1..Len(t) /\ Len(t) \in Nat
    BY <1>1, LenProperties
  <1>3. t[n] \in LogicalNodes
    BY <1>1, <1>2
  <1>4. t[n].output \in Seq(ColumnIds)
    BY <1>3 DEF LogicalNodes
  <1>5. Width(t, n) \in Nat
    BY <1>4, LenProperties DEF Width
  <1>6. \A k \in DOMAIN t[n].kids : t[n].kids[k] \in 1..(n - 1)
    BY DEF LogicalPlan
  <1> QED
    BY <1>2, <1>3, <1>5, <1>6

LEMMA ReorderableKids ==
  ASSUME NEW t, LogicalPlan(t), NEW n \in DOMAIN t, Reorderable(t, n)
  PROVE  /\ t[n].kids[1] \in DOMAIN t /\ t[n].kids[1] \in 1..(n - 1)
         /\ t[n].kids[2] \in DOMAIN t /\ t[n].kids[2] \in 1..(n - 1)
         /\ Width(t, n) <= Width(t, t[n].kids[1]) + Width(t, t[n].kids[2])
  <1>1. t[n].kids \in Seq(Nat)
    BY NodeType DEF LogicalNodes
  <1>2. Len(t[n].kids) = 2 /\ Width(t, n) <= Width(t, t[n].kids[1]) + Width(t, t[n].kids[2])
    BY DEF LogicalPlan, Reorderable
  <1>3. 1 \in DOMAIN t[n].kids /\ 2 \in DOMAIN t[n].kids
    BY <1>1, <1>2, LenProperties
  <1> QED
    BY <1>2, <1>3, NodeType

(* Each leaf starts where the one before it ends.                          *)
Offsets(f, t, leaves) ==
  /\ f \in [0..Len(leaves) -> Nat]
  /\ f[0] = 0
  /\ \A k \in 1..Len(leaves) : f[k] = f[k - 1] + Width(t, leaves[k])

LEMMA LeafOffsetsRun ==
  ASSUME NEW t, LogicalPlan(t), NEW leaves \in Seq(DOMAIN t)
  PROVE  Offsets(LeafOffsets(t, leaves), t, leaves)
  <1> DEFINE n == Len(leaves)
             w(k) == Width(t, leaves[k])
             Is(g) == g = [i \in 0..n |-> IF i = 0 THEN 0 ELSE g[i - 1] + w(i)]
             Step == [k \in 0..n |-> [x \in Nat |-> IF k = 0 THEN 0 ELSE x + w(k)]]
             F == CHOOSE g : Is(g)
  <1>1. n \in Nat
    BY LenProperties
  <1>2. ASSUME NEW k \in 1..n PROVE w(k) \in Nat
    <2>1. leaves[k] \in DOMAIN t
      BY LenProperties
    <2> QED
      BY <2>1, NodeType
  <1>3. ASSUME NEW k \in 0..n, NEW x \in Nat
        PROVE  Step[k][x] = (IF k = 0 THEN 0 ELSE x + w(k)) /\ Step[k][x] \in Nat
    <2>1. Step[k][x] = IF k = 0 THEN 0 ELSE x + w(k)
      <3> HIDE DEF w, n
      <3> QED
        OBVIOUS
    <2> HIDE DEF Step, w, n
    <2>2. k # 0 => k \in 1..n
      BY <1>1
    <2> QED
      BY <1>2, <2>1, <2>2
  <1> HIDE DEF w, n
  <1>4. PICK p : Iterates(p, Step, 0, n, 0, Nat)
    <2> HIDE DEF Step
    <2>1. Within(Step, 0..n, Nat)
      BY <1>3 DEF Within
    <2> QED
      BY <1>1, <2>1, Iteration
  <1>5. Is(p)
    <2> HIDE DEF Step
    <2>1. /\ p \in [0..n -> Nat]
          /\ \A k \in 0..n : p[k] = IF k = 0 THEN 0 ELSE Step[k][p[k - 1]]
      BY <1>4 DEF Iterates
    <2>2. ASSUME NEW k \in 0..n, k # 0 PROVE Step[k][p[k - 1]] = p[k - 1] + w(k)
      <3>1. k - 1 \in 0..n
        BY <1>1, <2>2
      <3> QED
        BY <1>3, <2>1, <2>2, <3>1
    <2> QED
      BY <2>1, <2>2
  <1>6. Is(F)
    <2> HIDE DEF Is
    <2> QED
      BY <1>5
  <1>7. LeafOffsets(t, leaves) = F
    BY DEF LeafOffsets, F, w, n
  <1> HIDE DEF F, Step
  <1> DEFINE T == {k \in 0..n : F[k] \in Nat}
  <1>8. ASSUME NEW k \in 0..n PROVE F[k] = IF k = 0 THEN 0 ELSE F[k - 1] + w(k)
    BY <1>6
  <1>9. ASSUME NEW k \in 0..n, \A j \in 0..(k - 1) : j \in T PROVE k \in T
    <2>1. k # 0 => F[k - 1] \in Nat /\ k \in 1..n
      BY <1>1, <1>9
    <2> QED
      BY <1>2, <1>8, <2>1
  <1>10. \A k \in 0..n : k \in T
    <2> HIDE DEF T
    <2> QED
      BY <1>1, <1>9, StrongInduction
  <1>11. \A k \in 0..n : F[k] \in Nat
    BY <1>10
  <1>12. F \in [0..n -> Nat]
    BY <1>6, <1>11
  <1>13. F[0] = 0 /\ \A k \in 1..n : F[k] = F[k - 1] + w(k)
    <2>1. 0 \in 0..n /\ \A k \in 1..n : k \in 0..n /\ k # 0
      BY <1>1
    <2> QED
      BY <1>8, <2>1
  <1> QED
    BY <1>7, <1>12, <1>13 DEF Offsets, n, w

LEMMA OffsetsGrow ==
  ASSUME NEW t, LogicalPlan(t), NEW leaves \in Seq(DOMAIN t), NEW f, Offsets(f, t, leaves),
         NEW i \in 0..Len(leaves), NEW j \in 0..Len(leaves), i <= j
  PROVE  f[i] <= f[j]
  <1> DEFINE n == Len(leaves)
             T == {k \in i..n : f[i] <= f[k]}
  <1>1. n \in Nat /\ i \in Nat /\ \A k \in 1..n : Width(t, leaves[k]) \in Nat
    BY NodeType, LenProperties
  <1>2. ASSUME NEW k \in i..n, \A m \in i..(k - 1) : m \in T PROVE k \in T
    <2>1. k \in 0..n /\ f[k] \in Nat /\ f[i] \in Nat
      BY <1>1 DEF Offsets
    <2>2. k # i => k - 1 \in T /\ k \in 1..n /\ k - 1 \in 0..n
      BY <1>1, <1>2
    <2>3. k # i => f[k] = f[k - 1] + Width(t, leaves[k]) /\ f[i] <= f[k - 1] /\ f[k - 1] \in Nat
      BY <2>2 DEF Offsets
    <2> HIDE DEF n
    <2> QED
      BY <1>1, <2>1, <2>2, <2>3
  <1>3. \A k \in i..n : k \in T
    <2> HIDE DEF T, n
    <2> QED
      BY <1>1, <1>2, StrongInduction
  <1>4. j \in T
    <2> HIDE DEF T
    <2> QED
      BY <1>3
  <1> QED
    BY <1>4

LEMMA TotalWidthOfTwo ==
  ASSUME NEW t, LogicalPlan(t), NEW a \in Seq(DOMAIN t), NEW b \in Seq(DOMAIN t)
  PROVE  TotalWidth(t, a \o b) = TotalWidth(t, a) + TotalWidth(t, b)
  <1> DEFINE m == Len(a)
             n == Len(b)
             f == LeafOffsets(t, a)
             g == LeafOffsets(t, b)
             h == LeafOffsets(t, a \o b)
  <1>1. /\ m \in Nat /\ n \in Nat /\ a \o b \in Seq(DOMAIN t) /\ Len(a \o b) = m + n
        /\ \A k \in 1..m : (a \o b)[k] = a[k]
        /\ \A k \in 1..n : (a \o b)[m + k] = b[k]
    BY LenProperties, ConcatProperties
  <1>2. Offsets(f, t, a) /\ Offsets(g, t, b) /\ Offsets(h, t, a \o b)
    BY <1>1, LeafOffsetsRun
  <1>3. TotalWidth(t, a) = f[m] /\ TotalWidth(t, b) = g[n] /\ TotalWidth(t, a \o b) = h[m + n]
    BY <1>1 DEF TotalWidth
  <1>4. /\ f[0] = 0 /\ g[0] = 0 /\ h[0] = 0
        /\ \A k \in 0..m : f[k] \in Nat
        /\ \A k \in 0..n : g[k] \in Nat
        /\ \A k \in 1..m : f[k] = f[k - 1] + Width(t, a[k])
        /\ \A k \in 1..n : g[k] = g[k - 1] + Width(t, b[k])
        /\ \A k \in 1..(m + n) : h[k] = h[k - 1] + Width(t, (a \o b)[k])
    BY <1>1, <1>2 DEF Offsets
  <1> HIDE DEF m, n, f, g, h
  <1> DEFINE T == {k \in 0..m : h[k] = f[k]}
             U == {k \in 0..n : h[m + k] = h[m] + g[k]}
  <1>5. \A k \in 0..m : k \in T
    <2>1. ASSUME NEW k \in 0..m, \A j \in 0..(k - 1) : j \in T PROVE k \in T
      <3>1. CASE k = 0
        BY <1>4, <3>1
      <3>2. CASE k # 0
        <4>1. h[k - 1] = f[k - 1]
          BY <1>1, <2>1, <3>2
        <4>2. k \in 1..m /\ k \in 1..(m + n)
          BY <1>1, <3>2
        <4> QED
          BY <1>1, <1>4, <4>1, <4>2
      <3> QED
        BY <3>1, <3>2
    <2> HIDE DEF T
    <2> QED
      BY <1>1, <2>1, StrongInduction
  <1>6. h[m] = f[m]
    BY <1>1, <1>5
  <1>7. \A k \in 0..n : k \in U
    <2>1. ASSUME NEW k \in 0..n, \A j \in 0..(k - 1) : j \in U PROVE k \in U
      <3>1. h[m] \in Nat
        BY <1>1, <1>4, <1>6
      <3>2. CASE k = 0
        BY <1>1, <1>4, <3>1, <3>2
      <3>3. CASE k # 0
        <4>1. h[m + (k - 1)] = h[m] + g[k - 1]
          BY <1>1, <2>1, <3>3
        <4>2. k \in 1..n /\ m + k \in 1..(m + n) /\ k - 1 \in 0..n
          BY <1>1, <3>3
        <4>3. /\ h[m + k] = h[(m + k) - 1] + Width(t, (a \o b)[m + k])
              /\ g[k] = g[k - 1] + Width(t, b[k])
              /\ (a \o b)[m + k] = b[k]
          BY <1>1, <1>4, <4>2
        <4>4. (m + k) - 1 = m + (k - 1) /\ g[k - 1] \in Nat
          BY <1>1, <1>4, <4>2
        <4>5. Width(t, b[k]) \in Nat
          <5>1. b[k] \in DOMAIN t
            BY <4>2, LenProperties DEF n
          <5> QED
            BY <5>1, NodeType
        <4>6. h[m + k] = h[m] + g[k]
          BY <3>1, <4>1, <4>3, <4>4, <4>5
        <4> QED
          BY <4>6
      <3> QED
        BY <3>2, <3>3
    <2> HIDE DEF U
    <2> QED
      BY <1>1, <2>1, StrongInduction
  <1>8. n \in U
    <2> HIDE DEF U
    <2> QED
      BY <1>1, <1>7
  <1>9. h[m + n] = h[m] + g[n]
    BY <1>8
  <1> QED
    BY <1>3, <1>6, <1>9

(* The leaves of every node of a plan, as RegionLeaves() goes about it.    *)
LeavesUpTo(t, n) ==
  CHOOSE g : g = [k \in 1..n |-> IF Reorderable(t, k)
                                 THEN g[t[k].kids[1]] \o g[t[k].kids[2]] ELSE <<k>>]

LEMMA LeavesUpToRun ==
  ASSUME NEW t, LogicalPlan(t), NEW n \in DOMAIN t
  PROVE  /\ LeavesUpTo(t, n) \in [1..n -> Seq(1..n)]
         /\ \A k \in 1..n : LeavesUpTo(t, n)[k] =
              IF Reorderable(t, k)
              THEN LeavesUpTo(t, n)[t[k].kids[1]] \o LeavesUpTo(t, n)[t[k].kids[2]] ELSE <<k>>
  <1> DEFINE V == Seq(1..n)
             D == 1..n
             l(k) == t[k].kids[1]
             r(k) == t[k].kids[2]
             Value(k, g) == IF Reorderable(t, k) THEN g[l(k)] \o g[r(k)] ELSE <<k>>
             Is(g) == g = [k \in D |-> Value(k, g)]
             F == CHOOSE g : Is(g)
             Step == [k \in D |-> [g \in [D -> V] |-> Value(k, g)]]
  <1>1. n \in Nat /\ D \subseteq DOMAIN t
    BY NodeType
  <1>2. ASSUME NEW k \in D, Reorderable(t, k)
        PROVE  l(k) \in D /\ r(k) \in D /\ l(k) < k /\ r(k) < k
    BY <1>1, <1>2, ReorderableKids
  <1> HIDE DEF l, r
  <1>3. ASSUME NEW k \in D, NEW g, \A j \in D : j < k => g[j] \in V
        PROVE  Value(k, g) \in V
    <2>1. CASE Reorderable(t, k)
      <3>1. g[l(k)] \in V /\ g[r(k)] \in V
        <4> HIDE DEF V, D
        <4> QED
          BY <1>2, <1>3, <2>1
      <3>2. g[l(k)] \o g[r(k)] \in V
        BY <3>1, ConcatProperties
      <3> QED
        BY <2>1, <3>2
    <2>2. CASE ~Reorderable(t, k)
      BY <2>2
    <2> QED
      BY <2>1, <2>2
  <1>4. \A k \in D : \A g \in [D -> V] : Step[k][g] = Value(k, g)
    <2> HIDE DEF Value, D, V
    <2> QED
      OBVIOUS
  <1>5. GivenByEarlier(Step, D, V)
    <2>1. ASSUME NEW k \in D, NEW g \in [D -> V] PROVE Step[k][g] \in V
      <3> HIDE DEF Step, Value, V, D
      <3> QED
        BY <1>3, <1>4
    <2>2. ASSUME NEW k \in D, NEW g \in [D -> V], NEW h \in [D -> V],
                 \A j \in D : j < k => g[j] = h[j]
          PROVE  Step[k][g] = Step[k][h]
      <3>1. Value(k, g) = Value(k, h)
        <4> HIDE DEF D
        <4> QED
          BY <1>2, <2>2
      <3> HIDE DEF Step, Value, V, D
      <3> QED
        BY <1>4, <3>1
    <2> HIDE DEF Step, V, D
    <2> QED
      BY <2>1, <2>2 DEF GivenByEarlier
  <1>6. PICK p : Solves(p, Step, D, V)
    <2>1. <<>> \in V
      BY EmptySeq
    <2> HIDE DEF Step, V
    <2> QED
      BY <1>1, <1>5, <2>1, Recursion
  <1>7. Is(p)
    <2> HIDE DEF Step, Value, V, D
    <2> QED
      BY <1>4, <1>6 DEF Solves
  <1>8. Is(F)
    <2> HIDE DEF Is
    <2> QED
      BY <1>7
  <1>9. LeavesUpTo(t, n) = F
    BY DEF LeavesUpTo, l, r
  <1> HIDE DEF F, Step
  <1>10. \A k \in D : F[k] = Value(k, F)
    <2> HIDE DEF Value
    <2> QED
      BY <1>8
  <1> DEFINE T == {k \in D : F[k] \in V}
  <1>11. ASSUME NEW k \in D, \A j \in 1..(k - 1) : j \in T PROVE k \in T
    <2>1. \A j \in D : j < k => F[j] \in V
      BY <1>1, <1>11
    <2> HIDE DEF Value, V, D
    <2> QED
      BY <1>3, <1>10, <2>1
  <1>12. \A k \in D : k \in T
    <2> HIDE DEF T
    <2> QED
      BY <1>1, <1>11, StrongInduction
  <1>13. \A k \in D : F[k] \in V
    BY <1>12
  <1>14. F \in [D -> V]
    <2> HIDE DEF Value, V, D
    <2> QED
      BY <1>8, <1>13
  <1> QED
    BY <1>9, <1>10, <1>14 DEF l, r

LEMMA LeavesAgree ==
  ASSUME NEW t, LogicalPlan(t), NEW n \in DOMAIN t, NEW m \in DOMAIN t, m <= n
  PROVE  \A k \in 1..m : LeavesUpTo(t, n)[k] = LeavesUpTo(t, m)[k]
  <1> DEFINE f == LeavesUpTo(t, n)
             g == LeavesUpTo(t, m)
             T == {k \in 1..m : f[k] = g[k]}
  <1>1. m \in Nat /\ 1..m \subseteq 1..n /\ 1..m \subseteq DOMAIN t
    BY NodeType
  <1>2. /\ \A k \in 1..n : f[k] = IF Reorderable(t, k)
                                  THEN f[t[k].kids[1]] \o f[t[k].kids[2]] ELSE <<k>>
        /\ \A k \in 1..m : g[k] = IF Reorderable(t, k)
                                  THEN g[t[k].kids[1]] \o g[t[k].kids[2]] ELSE <<k>>
    BY LeavesUpToRun
  <1> HIDE DEF f, g
  <1>3. ASSUME NEW k \in 1..m, \A j \in 1..(k - 1) : j \in T PROVE k \in T
    <2>1. CASE Reorderable(t, k)
      <3>1. t[k].kids[1] \in 1..(k - 1) /\ t[k].kids[2] \in 1..(k - 1)
        BY <1>1, <2>1, ReorderableKids
      <3>2. f[t[k].kids[1]] = g[t[k].kids[1]] /\ f[t[k].kids[2]] = g[t[k].kids[2]]
        BY <1>3, <3>1
      <3>3. f[k] = f[t[k].kids[1]] \o f[t[k].kids[2]] /\ g[k] = g[t[k].kids[1]] \o g[t[k].kids[2]]
        BY <1>1, <1>2, <2>1
      <3> QED
        BY <3>2, <3>3
    <2>2. CASE ~Reorderable(t, k)
      BY <1>1, <1>2, <2>2
    <2> QED
      BY <2>1, <2>2
  <1>4. \A k \in 1..m : k \in T
    <2> HIDE DEF T
    <2> QED
      BY <1>1, <1>3, StrongInduction
  <1> QED
    BY <1>4 DEF f, g

(* A join's leaves are those of its inputs, the left one's first.          *)
LEMMA RegionLeavesOf ==
  ASSUME NEW t, LogicalPlan(t), NEW n \in DOMAIN t
  PROVE  /\ RegionLeaves(t, n) \in Seq(DOMAIN t)
         /\ RegionLeaves(t, n) =
              IF Reorderable(t, n)
              THEN RegionLeaves(t, t[n].kids[1]) \o RegionLeaves(t, t[n].kids[2]) ELSE <<n>>
  <1>1. n \in 1..n /\ 1..n \subseteq DOMAIN t
    BY NodeType
  <1>2. \A k \in DOMAIN t : RegionLeaves(t, k) = LeavesUpTo(t, k)[k]
    BY DEF RegionLeaves, LeavesUpTo
  <1>3. RegionLeaves(t, n) \in Seq(DOMAIN t)
    <2>1. LeavesUpTo(t, n)[n] \in Seq(1..n)
      BY <1>1, LeavesUpToRun
    <2>2. Seq(1..n) \subseteq Seq(DOMAIN t)
      BY <1>1
    <2> QED
      BY <1>2, <2>1, <2>2
  <1>4. CASE Reorderable(t, n)
    <2> DEFINE l == t[n].kids[1]
               r == t[n].kids[2]
    <2>1. l \in DOMAIN t /\ l \in 1..l /\ l <= n /\ r \in DOMAIN t /\ r \in 1..r /\ r <= n
      BY <1>1, <1>4, ReorderableKids, NodeType
    <2>2. LeavesUpTo(t, n)[l] = LeavesUpTo(t, l)[l] /\ LeavesUpTo(t, n)[r] = LeavesUpTo(t, r)[r]
      BY <2>1, LeavesAgree
    <2>3. LeavesUpTo(t, n)[n] = LeavesUpTo(t, n)[l] \o LeavesUpTo(t, n)[r]
      BY <1>1, <1>4, LeavesUpToRun
    <2> QED
      BY <1>2, <1>3, <1>4, <2>1, <2>2, <2>3
  <1>5. CASE ~Reorderable(t, n)
    BY <1>1, <1>2, <1>3, <1>5, LeavesUpToRun
  <1> QED
    BY <1>4, <1>5

LEMMA TotalWidthOfOne ==
  ASSUME NEW t, LogicalPlan(t), NEW n \in DOMAIN t
  PROVE  TotalWidth(t, <<n>>) = Width(t, n)
  <1>1. <<n>> \in Seq(DOMAIN t) /\ Len(<<n>>) = 1 /\ <<n>>[1] = n
    OBVIOUS
  <1>2. Offsets(LeafOffsets(t, <<n>>), t, <<n>>)
    BY <1>1, LeafOffsetsRun
  <1>3. LeafOffsets(t, <<n>>)[1] = Width(t, n)
    BY <1>1, <1>2, NodeType DEF Offsets
  <1> QED
    BY <1>1, <1>3 DEF TotalWidth

LEMMA TotalWidthType ==
  ASSUME NEW t, LogicalPlan(t), NEW leaves \in Seq(DOMAIN t)
  PROVE  TotalWidth(t, leaves) \in Nat
  BY LeafOffsetsRun, LenProperties DEF TotalWidth, Offsets

(* No leaf is a join that might have been part of the region, and the      *)
(* leaves have all the columns of their join, and those it hides.          *)
RegionLeaf(t) == {k \in DOMAIN t : ~Reorderable(t, k)}

LEMMA RegionLeavesType ==
  ASSUME NEW t, LogicalPlan(t)
  PROVE  \A n \in DOMAIN t : /\ RegionLeaves(t, n) \in Seq(RegionLeaf(t))
                             /\ Width(t, n) <= TotalWidth(t, RegionLeaves(t, n))
  <1> DEFINE N == Len(t)
             T == {n \in 1..N : /\ RegionLeaves(t, n) \in Seq(RegionLeaf(t))
                                /\ Width(t, n) <= TotalWidth(t, RegionLeaves(t, n))}
  <1>1. N \in Nat /\ DOMAIN t = 1..N
    BY LenProperties DEF LogicalPlan
  <1>2. ASSUME NEW n \in 1..N, \A k \in 1..(n - 1) : k \in T PROVE n \in T
    <2>1. n \in DOMAIN t
      BY <1>1
    <2>2. CASE Reorderable(t, n)
      <3> DEFINE l == t[n].kids[1]
                 r == t[n].kids[2]
      <3>1. /\ l \in DOMAIN t /\ r \in DOMAIN t /\ l \in 1..(n - 1) /\ r \in 1..(n - 1)
            /\ Width(t, n) <= Width(t, l) + Width(t, r)
        BY <2>1, <2>2, ReorderableKids
      <3>2. l \in T /\ r \in T
        <4> HIDE DEF T, l, r
        <4> QED
          BY <1>2, <3>1
      <3> HIDE DEF l, r
      <3>3. /\ RegionLeaves(t, l) \in Seq(RegionLeaf(t))
            /\ RegionLeaves(t, r) \in Seq(RegionLeaf(t))
            /\ Width(t, l) <= TotalWidth(t, RegionLeaves(t, l))
            /\ Width(t, r) <= TotalWidth(t, RegionLeaves(t, r))
        BY <3>2
      <3>4. RegionLeaves(t, n) = RegionLeaves(t, l) \o RegionLeaves(t, r)
        BY <2>1, <2>2, RegionLeavesOf DEF l, r
      <3>5. RegionLeaves(t, n) \in Seq(RegionLeaf(t))
        BY <3>3, <3>4, ConcatProperties
      <3>6. RegionLeaves(t, l) \in Seq(DOMAIN t) /\ RegionLeaves(t, r) \in Seq(DOMAIN t)
        BY <3>1, RegionLeavesOf
      <3>7. /\ TotalWidth(t, RegionLeaves(t, n)) =
                 TotalWidth(t, RegionLeaves(t, l)) + TotalWidth(t, RegionLeaves(t, r))
            /\ TotalWidth(t, RegionLeaves(t, l)) \in Nat
            /\ TotalWidth(t, RegionLeaves(t, r)) \in Nat
        BY <3>4, <3>6, TotalWidthOfTwo, TotalWidthType
      <3>8. Width(t, n) \in Nat /\ Width(t, l) \in Nat /\ Width(t, r) \in Nat
        BY <2>1, <3>1, NodeType
      <3>9. Width(t, n) <= TotalWidth(t, RegionLeaves(t, n))
        BY <3>1, <3>3, <3>7, <3>8
      <3> QED
        BY <3>5, <3>9
    <2>3. CASE ~Reorderable(t, n)
      <3>1. RegionLeaves(t, n) = <<n>> /\ n \in RegionLeaf(t)
        BY <2>1, <2>3, RegionLeavesOf DEF RegionLeaf
      <3>2. TotalWidth(t, <<n>>) = Width(t, n) /\ Width(t, n) \in Nat
        BY <2>1, TotalWidthOfOne, NodeType
      <3>3. RegionLeaves(t, n) \in Seq(RegionLeaf(t))
        BY <3>1
      <3>4. Width(t, n) <= TotalWidth(t, RegionLeaves(t, n))
        BY <3>1, <3>2
      <3> QED
        BY <3>3, <3>4
    <2> QED
      BY <2>2, <2>3
  <1>3. \A n \in 1..N : n \in T
    <2> HIDE DEF T, N
    <2> QED
      BY <1>1, <1>2, StrongInduction
  <1> QED
    BY <1>1, <1>3

(* The conjuncts of a region, and those that test columns below a width.   *)
PlacedConjuncts == [conjunct : Conjuncts, base : Nat]

TestsBelow(w) ==
  {p \in PlacedConjuncts : \A k \in DOMAIN p.conjunct.cols : p.base + p.conjunct.cols[k] < w}

RegionWidth(t, n) == TotalWidth(t, RegionLeaves(t, n))

Shifted(cs, by) == [i \in DOMAIN cs |-> [cs[i] EXCEPT !.base = @ + by]]
OwnTests(t, n)  == [i \in DOMAIN t[n].predicate |->
                      [conjunct |-> t[n].predicate[i], base |-> 0]]

LEMMA ShiftedType ==
  ASSUME NEW v \in Nat, NEW w \in Nat, NEW cs \in Seq(TestsBelow(w))
  PROVE  Shifted(cs, v) \in Seq(TestsBelow(v + w))
  <1>1. Len(cs) \in Nat /\ DOMAIN cs = 1..Len(cs) /\ \A i \in 1..Len(cs) : cs[i] \in TestsBelow(w)
    BY LenProperties
  <1>2. ASSUME NEW c \in TestsBelow(w) PROVE [c EXCEPT !.base = @ + v] \in TestsBelow(v + w)
    <2> DEFINE d == [c EXCEPT !.base = @ + v]
    <2>1. /\ c \in PlacedConjuncts
          /\ \A k \in DOMAIN c.conjunct.cols : c.base + c.conjunct.cols[k] < w
      BY DEF TestsBelow
    <2>2. /\ d \in PlacedConjuncts /\ d.conjunct = c.conjunct /\ d.base = c.base + v
          /\ c.base \in Nat /\ c.conjunct \in Conjuncts
      BY <2>1 DEF PlacedConjuncts
    <2>3. c.conjunct.cols \in Seq(Nat)
      BY <2>2 DEF Conjuncts
    <2>4. \A k \in DOMAIN c.conjunct.cols : c.conjunct.cols[k] \in Nat
      BY <2>3
    <2> HIDE DEF d
    <2>5. \A k \in DOMAIN d.conjunct.cols : d.base + d.conjunct.cols[k] < v + w
      BY <2>1, <2>2, <2>4
    <2>6. d \in TestsBelow(v + w)
      BY <2>2, <2>5 DEF TestsBelow
    <2> QED
      BY <2>6 DEF d
  <1>3. \A i \in 1..Len(cs) : [cs[i] EXCEPT !.base = @ + v] \in TestsBelow(v + w)
    BY <1>1, <1>2
  <1> QED
    BY <1>1, <1>3 DEF Shifted

LEMMA BelowGrows ==
  ASSUME NEW v \in Nat, NEW w \in Nat, v <= w
  PROVE  Seq(TestsBelow(v)) \subseteq Seq(TestsBelow(w))
  <1>1. ASSUME NEW c \in TestsBelow(v) PROVE c \in TestsBelow(w)
    <2>1. /\ c \in PlacedConjuncts
          /\ \A k \in DOMAIN c.conjunct.cols : c.base + c.conjunct.cols[k] < v
      BY DEF TestsBelow
    <2>2. c.base \in Nat /\ c.conjunct.cols \in Seq(Nat)
      BY <2>1 DEF PlacedConjuncts, Conjuncts
    <2>3. \A k \in DOMAIN c.conjunct.cols : c.conjunct.cols[k] \in Nat
      BY <2>2
    <2>4. \A k \in DOMAIN c.conjunct.cols : c.base + c.conjunct.cols[k] < w
      BY <2>1, <2>2, <2>3
    <2> QED
      BY <2>1, <2>4 DEF TestsBelow
  <1> QED
    BY <1>1

LEMMA OwnTestsType ==
  ASSUME NEW t, LogicalPlan(t), NEW n \in DOMAIN t, Reorderable(t, n)
  PROVE  OwnTests(t, n) \in Seq(TestsBelow(Width(t, t[n].kids[1]) + Width(t, t[n].kids[2])))
  <1> DEFINE cs == t[n].predicate
             w  == Width(t, t[n].kids[1]) + Width(t, t[n].kids[2])
  <1>1. cs \in Seq(Conjuncts)
    BY NodeType DEF LogicalNodes
  <1>2. Len(cs) \in Nat /\ DOMAIN cs = 1..Len(cs) /\ \A i \in 1..Len(cs) : cs[i] \in Conjuncts
    BY <1>1, LenProperties
  <1>3. \A i \in DOMAIN cs : \A k \in DOMAIN cs[i].cols : cs[i].cols[k] < w
    BY DEF LogicalPlan
  <1>4. ASSUME NEW i \in 1..Len(cs) PROVE [conjunct |-> cs[i], base |-> 0] \in TestsBelow(w)
    <2> DEFINE d == [conjunct |-> cs[i], base |-> 0]
    <2>1. d \in PlacedConjuncts /\ d.conjunct = cs[i] /\ d.base = 0
      BY <1>2 DEF PlacedConjuncts
    <2>2. cs[i].cols \in Seq(Nat)
      BY <1>2 DEF Conjuncts
    <2>3. \A k \in DOMAIN cs[i].cols : cs[i].cols[k] \in Nat /\ cs[i].cols[k] < w
      BY <1>2, <1>3, <2>2
    <2> HIDE DEF d, w, cs
    <2>4. \A k \in DOMAIN d.conjunct.cols : d.base + d.conjunct.cols[k] < w
      BY <2>1, <2>3
    <2>5. d \in TestsBelow(w)
      BY <2>1, <2>4 DEF TestsBelow
    <2> QED
      BY <2>5 DEF d
  <1>5. OwnTests(t, n) = [i \in DOMAIN cs |-> [conjunct |-> cs[i], base |-> 0]]
    BY DEF OwnTests
  <1> HIDE DEF w, cs
  <1>6. OwnTests(t, n) \in Seq(TestsBelow(w))
    BY <1>2, <1>4, <1>5
  <1> QED
    BY <1>6 DEF w

(* Every conjunct of a region tests columns that its leaves have.          *)
LEMMA RegionPredicatesType ==
  ASSUME NEW t, LogicalPlan(t), NEW n \in DOMAIN t
  PROVE  RegionPredicates(t, n) \in Seq(TestsBelow(RegionWidth(t, n)))
  <1> DEFINE P == PlacedConjuncts
             V == Seq(P)
             D == 1..n
             l(k) == t[k].kids[1]
             r(k) == t[k].kids[2]
             Value(k, g) == IF ~Reorderable(t, k) THEN <<>>
                            ELSE g[l(k)] \o Shifted(g[r(k)], RegionWidth(t, l(k)))
                                   \o OwnTests(t, k)
             Is(g) == g = [k \in D |-> Value(k, g)]
             F == CHOOSE g : Is(g)
             Step == [k \in D |-> [g \in [D -> V] |-> Value(k, g)]]
             T == {k \in D : F[k] \in Seq(TestsBelow(RegionWidth(t, k)))}
  <1>1. n \in Nat /\ D \subseteq DOMAIN t /\ n \in D
    BY NodeType
  <1>2. ASSUME NEW k \in D, Reorderable(t, k)
        PROVE  l(k) \in D /\ r(k) \in D /\ l(k) < k /\ r(k) < k
    BY <1>1, <1>2, ReorderableKids
  <1>3. ASSUME NEW k \in D PROVE RegionWidth(t, k) \in Nat
    BY <1>1, RegionLeavesOf, TotalWidthType DEF RegionWidth
  <1>4. \A w : Seq(TestsBelow(w)) \subseteq V
    BY DEF TestsBelow
  <1>5. ASSUME NEW k \in D, Reorderable(t, k) PROVE OwnTests(t, k) \in V
    BY <1>1, <1>4, <1>5, OwnTestsType
  <1>6. ASSUME NEW cs \in V, NEW v \in Nat PROVE Shifted(cs, v) \in V
    <2>1. Len(cs) \in Nat /\ DOMAIN cs = 1..Len(cs) /\ \A i \in 1..Len(cs) : cs[i] \in P
      BY LenProperties
    <2>2. \A i \in 1..Len(cs) : [cs[i] EXCEPT !.base = @ + v] \in P
      BY <2>1 DEF PlacedConjuncts
    <2> HIDE DEF P
    <2> QED
      BY <2>1, <2>2 DEF Shifted
  <1> HIDE DEF l, r
  <1>7. ASSUME NEW k \in D, NEW g \in [D -> V] PROVE Value(k, g) \in V
    <2>1. CASE Reorderable(t, k)
      <3>1. g[l(k)] \in V /\ g[r(k)] \in V
        <4> HIDE DEF V, D
        <4> QED
          BY <1>2, <2>1
      <3>2. Shifted(g[r(k)], RegionWidth(t, l(k))) \in V /\ OwnTests(t, k) \in V
        <4> HIDE DEF V, D
        <4> QED
          BY <1>2, <1>3, <1>5, <1>6, <2>1, <3>1
      <3>3. g[l(k)] \o Shifted(g[r(k)], RegionWidth(t, l(k))) \in V
        BY <3>1, <3>2, ConcatProperties
      <3>4. g[l(k)] \o Shifted(g[r(k)], RegionWidth(t, l(k))) \o OwnTests(t, k) \in V
        BY <3>2, <3>3, ConcatProperties
      <3> QED
        BY <2>1, <3>4
    <2>2. CASE ~Reorderable(t, k)
      BY <2>2, EmptySeq
    <2> QED
      BY <2>1, <2>2
  <1>8. \A k \in D : \A g \in [D -> V] : Step[k][g] = Value(k, g)
    <2> HIDE DEF Value, D, V
    <2> QED
      OBVIOUS
  <1>9. GivenByEarlier(Step, D, V)
    <2>1. ASSUME NEW k \in D, NEW g \in [D -> V] PROVE Step[k][g] \in V
      <3> HIDE DEF Step, Value, V, D
      <3> QED
        BY <1>7, <1>8
    <2>2. ASSUME NEW k \in D, NEW g \in [D -> V], NEW h \in [D -> V],
                 \A j \in D : j < k => g[j] = h[j]
          PROVE  Step[k][g] = Step[k][h]
      <3>1. Value(k, g) = Value(k, h)
        <4> HIDE DEF D
        <4> QED
          BY <1>2, <2>2
      <3> HIDE DEF Step, Value, V, D
      <3> QED
        BY <1>8, <3>1
    <2> HIDE DEF Step, V, D
    <2> QED
      BY <2>1, <2>2 DEF GivenByEarlier
  <1>10. PICK p : Solves(p, Step, D, V)
    <2>1. <<>> \in V
      BY EmptySeq
    <2> HIDE DEF Step, V
    <2> QED
      BY <1>1, <1>9, <2>1, Recursion
  <1>11. Is(p)
    <2> HIDE DEF Step, Value, V, D
    <2> QED
      BY <1>8, <1>10 DEF Solves
  <1>12. Is(F)
    <2> HIDE DEF Is
    <2> QED
      BY <1>11
  <1>13. RegionPredicates(t, n) = F[n]
    BY DEF RegionPredicates, RegionWidth, Shifted, OwnTests, l, r
  <1> HIDE DEF F, Step
  <1>14. \A k \in D : F[k] = Value(k, F)
    <2> HIDE DEF Value
    <2> QED
      BY <1>12
  <1>15. ASSUME NEW k \in D, \A j \in 1..(k - 1) : j \in T PROVE k \in T
    <2>1. CASE Reorderable(t, k)
      <3> DEFINE a == l(k)
                 b == r(k)
                 v == RegionWidth(t, a)
                 w == RegionWidth(t, b)
                 own == Width(t, a) + Width(t, b)
      <3>1. a \in D /\ b \in D /\ a < k /\ b < k
        BY <1>2, <2>1
      <3>2. a \in T /\ b \in T
        <4> HIDE DEF T, a, b
        <4> QED
          BY <1>1, <1>15, <3>1
      <3>3. v \in Nat /\ w \in Nat
        BY <1>3, <3>1
      <3>4. RegionWidth(t, k) = v + w
        <4>1. RegionLeaves(t, k) = RegionLeaves(t, a) \o RegionLeaves(t, b)
          BY <1>1, <2>1, RegionLeavesOf DEF l, r
        <4>2. RegionLeaves(t, a) \in Seq(DOMAIN t) /\ RegionLeaves(t, b) \in Seq(DOMAIN t)
          BY <1>1, <3>1, RegionLeavesOf
        <4> QED
          BY <4>1, <4>2, TotalWidthOfTwo DEF RegionWidth
      <3>5. Width(t, a) <= v /\ Width(t, b) <= w /\ Width(t, a) \in Nat /\ Width(t, b) \in Nat
        BY <1>1, <3>1, RegionLeavesType, NodeType DEF RegionWidth
      <3>6. own \in Nat /\ own <= v + w /\ v <= v + w /\ v + w \in Nat
        BY <3>3, <3>5
      <3>7. OwnTests(t, k) \in Seq(TestsBelow(own))
        BY <1>1, <2>1, OwnTestsType DEF l, r
      <3>8. F[a] \in Seq(TestsBelow(v)) /\ F[b] \in Seq(TestsBelow(w))
        BY <3>2
      <3> HIDE DEF a, b, v, w, own
      <3>9. OwnTests(t, k) \in Seq(TestsBelow(v + w)) /\ F[a] \in Seq(TestsBelow(v + w))
        BY <3>3, <3>6, <3>7, <3>8, BelowGrows
      <3>10. Shifted(F[b], v) \in Seq(TestsBelow(v + w))
        BY <3>3, <3>8, ShiftedType
      <3>11. F[a] \o Shifted(F[b], v) \in Seq(TestsBelow(v + w))
        BY <3>9, <3>10, ConcatProperties
      <3>12. F[a] \o Shifted(F[b], v) \o OwnTests(t, k) \in Seq(TestsBelow(v + w))
        BY <3>9, <3>11, ConcatProperties
      <3>13. F[k] = F[a] \o Shifted(F[b], v) \o OwnTests(t, k)
        BY <1>14, <2>1 DEF a, b, v
      <3>14. F[k] \in Seq(TestsBelow(RegionWidth(t, k)))
        BY <3>4, <3>12, <3>13
      <3> QED
        BY <3>14
    <2>2. CASE ~Reorderable(t, k)
      <3>1. F[k] = <<>>
        BY <1>14, <2>2
      <3>2. F[k] \in Seq(TestsBelow(RegionWidth(t, k)))
        BY <3>1, EmptySeq
      <3> QED
        BY <3>2
    <2> QED
      BY <2>1, <2>2
  <1>16. \A k \in D : k \in T
    <2> HIDE DEF T
    <2> QED
      BY <1>1, <1>15, StrongInduction
  <1>17. F[n] \in Seq(TestsBelow(RegionWidth(t, n)))
    BY <1>1, <1>16
  <1> QED
    BY <1>13, <1>17

(* Every column of a region is one of one of its leaves.                   *)
LEMMA LeafOfColumn ==
  ASSUME NEW t, LogicalPlan(t), NEW leaves \in Seq(DOMAIN t), NEW f, Offsets(f, t, leaves),
         NEW column \in Nat, column < f[Len(leaves)]
  PROVE  /\ LeafOf(f, column) \in 1..Len(leaves)
         /\ f[LeafOf(f, column) - 1] <= column
  <1> DEFINE n == Len(leaves)
             T == {i \in 0..n : column < f[i]}
             Has(i) == i \in DOMAIN f \ {0} /\ column \in f[i - 1]..(f[i] - 1)
  <1>1. n \in Nat /\ DOMAIN f = 0..n /\ f[0] = 0 /\ \A i \in 0..n : f[i] \in Nat
    BY LenProperties DEF Offsets
  <1>2. n \in T
    BY <1>1
  <1>3. T \in SUBSET Nat
    BY <1>1
  <1>4. PICK i \in T : \A j \in T : i <= j
    <2> HIDE DEF T
    <2> QED
      BY <1>2, <1>3, LeastNatural
  <1>5. i \in 0..n /\ column < f[i]
    BY <1>4
  <1>6. i \in 1..n
    BY <1>1, <1>5
  <1>7. f[i - 1] <= column
    <2>1. i - 1 \in 0..n /\ ~(i <= i - 1)
      BY <1>1, <1>6
    <2>2. i - 1 \notin T
      <3> HIDE DEF T
      <3> QED
        BY <1>4, <2>1
    <2>3. ~(column < f[i - 1])
      BY <2>1, <2>2
    <2> QED
      BY <1>1, <2>1, <2>3
  <1>8. Has(i)
    BY <1>1, <1>5, <1>6, <1>7
  <1>9. LeafOf(f, column) = CHOOSE k \in DOMAIN f \ {0} : column \in f[k - 1]..(f[k] - 1)
    BY DEF LeafOf
  <1>10. Has(LeafOf(f, column))
    <2> HIDE DEF n
    <2> QED
      BY <1>8, <1>9
  <1> QED
    BY <1>1, <1>10

(* What collect_join_region() yields.                                      *)
RegionType(t, r) ==
  /\ r.leaves \in Seq(RegionLeaf(t))
  /\ Offsets(r.offset, t, r.leaves)
  /\ \E ps \in Seq(TestsBelow(r.offset[Len(r.leaves)])) :
       r.conjuncts = [i \in DOMAIN ps |->
                        [conjunct |-> ps[i].conjunct, base |-> ps[i].base,
                         mask |-> LeafMask(r.offset, ps[i])]]

LEMMA JoinRegionType ==
  ASSUME NEW t, LogicalPlan(t), NEW n \in DOMAIN t
  PROVE  RegionType(t, JoinRegionOf(t, n))
  <1> DEFINE leaves == RegionLeaves(t, n)
             offset == LeafOffsets(t, leaves)
             ps     == RegionPredicates(t, n)
             r      == JoinRegionOf(t, n)
  <1>1. /\ r.leaves = leaves /\ r.offset = offset
        /\ r.conjuncts = [i \in DOMAIN ps |->
                            [conjunct |-> ps[i].conjunct, base |-> ps[i].base,
                             mask |-> LeafMask(offset, ps[i])]]
    BY DEF JoinRegionOf
  <1>2. leaves \in Seq(RegionLeaf(t)) /\ leaves \in Seq(DOMAIN t)
    BY RegionLeavesType, RegionLeavesOf
  <1>3. Offsets(offset, t, leaves)
    BY <1>2, LeafOffsetsRun
  <1>4. ps \in Seq(TestsBelow(offset[Len(leaves)]))
    BY RegionPredicatesType DEF RegionWidth, TotalWidth
  <1> HIDE DEF leaves, offset, ps, r
  <1>5. RegionType(t, r)
    BY <1>1, <1>2, <1>3, <1>4 DEF RegionType
  <1> QED
    BY <1>5 DEF r

(* Translated to a join over leaves that have all its columns, a conjunct  *)
(* numbers them from the first of them.                                    *)
LEMMA TranslatedType ==
  ASSUME NEW t, LogicalPlan(t), NEW r, RegionType(t, r), NEW i \in DOMAIN r.conjuncts,
         NEW first \in 0..Len(r.leaves), NEW last \in 0..Len(r.leaves),
         r.conjuncts[i].mask \subseteq RangeMask(first, last)
  PROVE  TranslateConjunct(r.conjuncts[i], r, first) \in Conjuncts
  <1> DEFINE n == Len(r.leaves)
             f == r.offset
             c == r.conjuncts[i]
             cols == c.conjunct.cols
             new == [k \in DOMAIN cols |-> cols[k] + c.base - f[first]]
  <1>1. r.leaves \in Seq(DOMAIN t)
    BY DEF RegionType, RegionLeaf
  <1>2. Offsets(f, t, r.leaves) /\ n \in Nat /\ f[first] \in Nat
    BY <1>1, LenProperties DEF RegionType, Offsets
  <1>3. PICK ps \in Seq(TestsBelow(f[n])) :
          r.conjuncts = [j \in DOMAIN ps |->
                           [conjunct |-> ps[j].conjunct, base |-> ps[j].base,
                            mask |-> LeafMask(f, ps[j])]]
    BY DEF RegionType
  <1>4. i \in DOMAIN ps /\ ps[i] \in TestsBelow(f[n])
    BY <1>3, LenProperties
  <1> DEFINE p == ps[i]
  <1>5. /\ c.conjunct = p.conjunct /\ c.base = p.base /\ c.mask = LeafMask(f, p)
        /\ p \in PlacedConjuncts
        /\ \A k \in DOMAIN p.conjunct.cols : p.base + p.conjunct.cols[k] < f[n]
    BY <1>3, <1>4 DEF TestsBelow
  <1>6. c.conjunct \in Conjuncts /\ cols \in Seq(Nat) /\ c.base \in Nat
    BY <1>5 DEF PlacedConjuncts, Conjuncts
  <1>7. DOMAIN cols = 1..Len(cols) /\ Len(cols) \in Nat /\ \A k \in 1..Len(cols) : cols[k] \in Nat
    BY <1>6, LenProperties
  <1>8. ASSUME NEW k \in DOMAIN cols PROVE cols[k] + c.base - f[first] \in Nat
    <2> DEFINE column == p.base + p.conjunct.cols[k]
               leaf   == LeafOf(f, column)
    <2>1. column \in Nat /\ column < f[n] /\ column = cols[k] + c.base
      <3>1. k \in 1..Len(cols) /\ cols[k] \in Nat
        BY <1>7
      <3>2. p.conjunct.cols = cols /\ p.base = c.base
        BY <1>5
      <3>3. p.base + p.conjunct.cols[k] < f[n]
        BY <1>5, <3>2
      <3> HIDE DEF c, cols, f, p, n
      <3> QED
        BY <1>6, <3>1, <3>2, <3>3
    <2>2. leaf \in 1..n /\ f[leaf - 1] <= column
      <3> HIDE DEF column
      <3> QED
        BY <1>1, <1>2, <2>1, LeafOfColumn
    <2>3. leaf - 1 \in c.mask
      <3>1. k \in DOMAIN p.conjunct.cols
        BY <1>5
      <3> QED
        BY <1>5, <3>1 DEF LeafMask
    <2>4. first <= leaf - 1
      <3> HIDE DEF leaf
      <3>1. leaf - 1 \in first..(last - 1)
        BY <2>3 DEF RangeMask
      <3> QED
        BY <2>2, <3>1
    <2>5. f[first] <= f[leaf - 1]
      <3> HIDE DEF leaf, f, n
      <3>1. leaf - 1 \in 0..n
        BY <1>2, <2>2
      <3> QED
        BY <1>1, <1>2, <2>4, <3>1, OffsetsGrow DEF n
    <2>6. f[leaf - 1] \in Nat
      <3>1. leaf - 1 \in 0..n
        BY <1>2, <2>2
      <3> HIDE DEF leaf
      <3> QED
        BY <1>2, <3>1 DEF Offsets
    <2> HIDE DEF column, leaf, c, cols, f, p, n
    <2>7. f[first] <= column
      BY <1>2, <2>1, <2>2, <2>5, <2>6
    <2>8. column - f[first] \in Nat
      BY <1>2, <2>1, <2>7
    <2>9. cols[k] \in Nat /\ c.base \in Nat /\ f[first] \in Nat
      BY <1>2, <1>6, <1>7
    <2>10. f[first] <= cols[k] + c.base
      BY <2>1, <2>7
    <2> QED
      BY <2>9, <2>10
  <1>9. new \in Seq(Nat)
    <2> HIDE DEF cols, c, f
    <2> QED
      BY <1>7, <1>8
  <1>10. TranslateConjunct(c, r, first) = [c.conjunct EXCEPT !.cols = new]
    BY DEF TranslateConjunct
  <1> HIDE DEF new
  <1>11. [c.conjunct EXCEPT !.cols = new] \in Conjuncts
    BY <1>6, <1>9 DEF Conjuncts
  <1> QED
    BY <1>10, <1>11

(* What a region's join over a split tests: columns of its two inputs.     *)
LEMMA SplitPredicateType ==
  ASSUME NEW t, LogicalPlan(t), NEW r, RegionType(t, r),
         NEW first \in 0..Len(r.leaves), NEW split \in 0..Len(r.leaves),
         NEW last \in 0..Len(r.leaves), first <= split
  PROVE  /\ SplitPredicate(r, first, split, last).keys \in Seq(JoinKeys)
         /\ SplitPredicate(r, first, split, last).residual \in Seq(Conjuncts)
  <1> DEFINE f == r.offset
             cs == r.conjuncts
             m == Len(cs)
             Here == {c \in {cs[i] : i \in 1..m} : c.mask \subseteq RangeMask(first, last)}
             here == Placed(r, first, split, last)
             placed == [i \in DOMAIN cs |-> PlacedHere(cs[i], first, split, last)]
  <1>1. r.leaves \in Seq(DOMAIN t)
    BY DEF RegionType, RegionLeaf
  <1>2. Offsets(f, t, r.leaves)
    BY DEF RegionType
  <1>3. f[split] - f[first] \in Nat
    <2>1. f[split] \in Nat /\ f[first] \in Nat
      BY <1>1, <1>2, LenProperties DEF Offsets
    <2>2. f[first] <= f[split]
      <3> HIDE DEF f
      <3> QED
        BY <1>1, <1>2, OffsetsGrow
    <2> HIDE DEF f
    <2> QED
      BY <2>1, <2>2
  <1>4. m \in Nat /\ DOMAIN cs = 1..m
    <2>1. PICK ps \in Seq(TestsBelow(r.offset[Len(r.leaves)])) :
            cs = [i \in DOMAIN ps |->
                    [conjunct |-> ps[i].conjunct, base |-> ps[i].base,
                     mask |-> LeafMask(r.offset, ps[i])]]
      BY DEF RegionType
    <2>2. DOMAIN ps = 1..Len(ps) /\ Len(ps) \in Nat
      BY LenProperties
    <2>3. DOMAIN cs = 1..Len(ps)
      BY <2>1, <2>2
    <2> HIDE DEF cs
    <2> QED
      BY <2>2, <2>3 DEF m
  <1>5. here = Kept(cs, placed)
    BY DEF Placed, Passing
  <1>6. \A i \in 1..m : placed[i] => cs[i] \in Here
    BY <1>4 DEF PlacedHere
  <1>7. here \in Seq(Here)
    <2> HIDE DEF cs, m, Here, here, placed
    <2> QED
      BY <1>4, <1>5, <1>6, KeptType DEF m
  <1>8. ASSUME NEW c \in Here PROVE TranslateConjunct(c, r, first) \in Conjuncts
    <2>1. PICK i \in 1..m : c = cs[i]
      OBVIOUS
    <2>2. i \in DOMAIN cs /\ cs[i].mask \subseteq RangeMask(first, last)
      BY <1>4, <2>1
    <2> HIDE DEF m, Here
    <2> QED
      BY <2>1, <2>2, TranslatedType
  <1> DEFINE new == [i \in DOMAIN here |-> TranslateConjunct(here[i], r, first)]
  <1>9. new \in Seq(Conjuncts)
    <2> HIDE DEF here, Here
    <2>1. /\ Len(here) \in Nat /\ DOMAIN here = 1..Len(here)
          /\ \A i \in 1..Len(here) : here[i] \in Here
      BY <1>7, LenProperties
    <2> QED
      BY <1>8, <2>1
  <1>10. SplitPredicate(r, first, split, last) = SplitJoinPredicate(new, f[split] - f[first])
    BY DEF SplitPredicate
  <1> HIDE DEF new, f
  <1> QED
    BY <1>3, <1>9, <1>10, SplitJoinPredicateType
-----------------------------------------------------------------------------
(* Ranges and their splits.                                                *)

Ranges(n) == {v \in (0..n) \X (0..n) : v[1] < v[2]}

(* Pass one yields ranges of leaves.                                       *)
LEMMA ViableRangesType ==
  ASSUME NEW r, Len(r.leaves) \in Nat \ {0}
  PROVE  ViableRanges(r) \subseteq Ranges(Len(r.leaves))
  <1> DEFINE n == Len(r.leaves)
             V == SUBSET Ranges(n)
             One == {<<i, i + 1>> : i \in 0..(n - 1)}
             Wider(w, shorter) ==
               shorter \cup
                 {<<f, f + w>> : f \in {g \in 0..(n - w) :
                    \E s \in (g + 1)..(g + w - 1) :
                      /\ <<g, s>> \in shorter /\ <<s, g + w>> \in shorter
                      /\ SplitConnects(r, g, s, g + w)}}
             Step == [w \in 1..n |-> [shorter \in V |-> Wider(w, shorter)]]
             Is(h) == h = [w \in 1..n |-> IF w = 1 THEN One
                                          ELSE LET shorter == h[w - 1] IN Wider(w, shorter)]
             F == CHOOSE h : Is(h)
  <1>1. One \in V
    BY DEF Ranges
  <1>2. ASSUME NEW w \in 1..n, NEW shorter \in V
        PROVE  Wider(w, shorter) \in V /\ Step[w][shorter] = Wider(w, shorter)
    <2>1. \A f \in 0..(n - w) : <<f, f + w>> \in Ranges(n)
      BY DEF Ranges
    <2>2. Wider(w, shorter) \in V
      BY <2>1
    <2>3. Step[w][shorter] = Wider(w, shorter)
      <3> HIDE DEF Wider, V
      <3> QED
        OBVIOUS
    <2> QED
      BY <2>2, <2>3
  <1> HIDE DEF Step, One, Wider
  <1>3. PICK p : Iterates(p, Step, 1, n, One, V)
    <2>1. Within(Step, 1..n, V)
      BY <1>2 DEF Within
    <2> HIDE DEF V, n
    <2> QED
      BY <1>1, <2>1, Iteration DEF n
  <1>4. p \in [1..n -> V] /\ \A w \in 1..n : p[w] = IF w = 1 THEN One ELSE Step[w][p[w - 1]]
    BY <1>3 DEF Iterates
  <1>5. Is(p)
    <2>1. ASSUME NEW w \in 1..n, w # 1 PROVE Step[w][p[w - 1]] = Wider(w, p[w - 1])
      <3>1. w - 1 \in 1..n
        BY <2>1
      <3> HIDE DEF V, n
      <3>2. p[w - 1] \in V
        BY <1>4, <3>1
      <3> QED
        BY <1>2, <3>2
    <2> HIDE DEF V, n
    <2> QED
      BY <1>4, <2>1
  <1>6. Is(F)
    <2> HIDE DEF Is
    <2> QED
      BY <1>5
  <1>7. ViableRanges(r) = F[n]
    BY DEF ViableRanges, One, Wider
  <1>8. \A w \in 1..n : F[w] = IF w = 1 THEN One ELSE Wider(w, F[w - 1])
    <2> HIDE DEF F
    <2> QED
      BY <1>6
  <1> HIDE DEF F
  <1> DEFINE T == {w \in 1..n : F[w] \in V}
  <1>9. ASSUME NEW w \in 1..n, \A j \in 1..(w - 1) : j \in T PROVE w \in T
    <2>1. w # 1 => F[w - 1] \in V
      <3>1. w # 1 => w - 1 \in 1..(w - 1)
        OBVIOUS
      <3> HIDE DEF V, n
      <3> QED
        BY <1>9, <3>1
    <2>2. F[w] \in V
      <3> HIDE DEF V, n
      <3> QED
        BY <1>1, <1>2, <1>8, <2>1
    <2> QED
      BY <2>2
  <1>10. \A w \in 1..n : w \in T
    <2> HIDE DEF T
    <2> QED
      BY <1>9, StrongInduction
  <1>11. n \in T
    BY <1>10
  <1> QED
    BY <1>7, <1>11

(* Every split that is offered leaves two ranges that are viable.          *)
ViableSplits(viable, first, last) ==
  {s \in (first + 1)..(last - 1) : {<<first, s>>, <<s, last>>} \subseteq viable}

LEMMA OfferedSplitsType ==
  ASSUME NEW r, NEW viable, NEW first \in Nat, NEW last \in Nat, first < last
  PROVE  OfferedSplits(r, viable, first, last) \in Seq(ViableSplits(viable, first, last))
  <1> DEFINE m == last - first - 1
             all == [i \in 1..m |-> first + i]
             S == ViableSplits(viable, first, last)
             Test(s) == /\ {<<first, s>>, <<s, last>>} \subseteq viable
                        /\ SplitConnects(r, first, s, last)
             passes == [i \in DOMAIN all |-> Test(all[i])]
  <1>1. m \in Nat /\ DOMAIN all = 1..m
    OBVIOUS
  <1>2. \A i \in 1..m : all[i] \in (first + 1)..(last - 1)
    OBVIOUS
  <1>3. OfferedSplits(r, viable, first, last) = Kept(all, passes)
    BY DEF OfferedSplits, Passing
  <1>4. \A i \in 1..m : passes[i] => all[i] \in S
    <2>1. \A i \in 1..m : Test(all[i]) => all[i] \in S
      <3> HIDE DEF all, m
      <3> QED
        BY <1>2 DEF ViableSplits
    <2>2. \A i \in 1..m : passes[i] <=> Test(all[i])
      BY <1>1
    <2> HIDE DEF passes, all, m, S, Test
    <2> QED
      BY <2>1, <2>2
  <1>5. Len(all) = m
    BY <1>1
  <1> HIDE DEF passes, all, m, S
  <1>6. Kept(all, passes) \in Seq(S)
    BY <1>1, <1>4, <1>5, KeptType
  <1> QED
    BY <1>3, <1>6 DEF S
-----------------------------------------------------------------------------
(* Schemas.                                                                *)

(* Lists flatten one after the other.                                      *)
LEMMA FlattenConcat ==
  ASSUME NEW S, NEW a \in Seq(Seq(S)), NEW b \in Seq(Seq(S))
  PROVE  FlattenSeq(a \o b) = FlattenSeq(a) \o FlattenSeq(b)
  <1>1. ASSUME NEW x \in Seq(S), NEW y \in Seq(S), NEW z \in Seq(S)
        PROVE  (x \o y) \o z = x \o (y \o z)
    BY ConcatAssociative
  <1> DEFINE m == Len(a)
             n == Len(b)
             ab == a \o b
  <1>2. /\ m \in Nat /\ n \in Nat /\ ab \in Seq(Seq(S)) /\ Len(ab) = m + n
        /\ \A k \in 1..m : ab[k] = a[k]
        /\ \A k \in 1..n : ab[m + k] = b[k] /\ b[k] \in Seq(S)
    BY LenProperties, ConcatProperties
  <1>3. PICK f \in [0..m -> Seq(S)] : FlattensTo(f, a)
    BY FlattenRun
  <1>4. PICK g \in [0..n -> Seq(S)] : FlattensTo(g, b)
    BY FlattenRun
  <1>5. PICK h \in [0..(m + n) -> Seq(S)] : FlattensTo(h, ab)
    <2> HIDE DEF ab, m, n
    <2>1. PICK h \in [0..Len(ab) -> Seq(S)] : FlattensTo(h, ab)
      BY <1>2, FlattenRun
    <2> QED
      BY <1>2, <2>1
  <1> DEFINE Left  == {k \in 0..m : h[k] = f[k]}
             Right == {k \in 0..n : h[m + k] = f[m] \o g[k]}
  <1>6. ASSUME NEW k \in 0..m, \A j \in 0..(k - 1) : j \in Left PROVE k \in Left
    <2>1. k # 0 => h[k - 1] = f[k - 1]
      <3>1. k # 0 => k - 1 \in 0..(k - 1)
        OBVIOUS
      <3> QED
        BY <1>6, <3>1
    <2>2. h[k] = f[k]
      <3>1. CASE k = 0
        BY <1>3, <1>5, <3>1 DEF FlattensTo
      <3>2. CASE k # 0
        <4>1. k \in 1..m /\ k \in 1..(m + n)
          BY <1>2, <3>2
        <4>2. h[k] = h[k - 1] \o ab[k] /\ f[k] = f[k - 1] \o a[k]
          <5> HIDE DEF ab, m, n
          <5> QED
            BY <1>2, <1>3, <1>5, <4>1 DEF FlattensTo, m
        <4> HIDE DEF ab
        <4> QED
          BY <1>2, <2>1, <3>2, <4>1, <4>2
      <3> QED
        BY <3>1, <3>2
    <2> QED
      BY <2>2
  <1>7. \A k \in 0..m : k \in Left
    <2> HIDE DEF Left, m
    <2> QED
      BY <1>2, <1>6, StrongInduction
  <1>8. h[m] = f[m] /\ f[m] \in Seq(S)
    <2>1. m \in 0..m
      BY <1>2
    <2> QED
      BY <1>7, <2>1
  <1>9. ASSUME NEW k \in 0..n, \A j \in 0..(k - 1) : j \in Right PROVE k \in Right
    <2>1. k # 0 => h[m + (k - 1)] = f[m] \o g[k - 1]
      <3>1. k # 0 => k - 1 \in 0..(k - 1)
        OBVIOUS
      <3> QED
        BY <1>9, <3>1
    <2>2. h[m + k] = f[m] \o g[k]
      <3>1. CASE k = 0
        <4>1. g[k] = <<>> /\ m + k = m
          BY <1>2, <1>4, <3>1 DEF FlattensTo
        <4>2. f[m] \o <<>> = f[m]
          BY <1>8, ConcatEmptySeq
        <4> QED
          BY <1>8, <4>1, <4>2
      <3>2. CASE k # 0
        <4>1. k \in 1..n /\ m + k \in 1..(m + n) /\ (m + k) - 1 = m + (k - 1) /\ k - 1 \in 0..n
          BY <1>2, <3>2
        <4>2. h[m + k] = h[m + (k - 1)] \o ab[m + k] /\ g[k] = g[k - 1] \o b[k]
          <5>1. h[m + k] = h[(m + k) - 1] \o ab[m + k]
            <6> HIDE DEF ab, m, n
            <6> QED
              BY <1>2, <1>5, <4>1 DEF FlattensTo
          <5>2. g[k] = g[k - 1] \o b[k]
            BY <1>4, <4>1 DEF FlattensTo
          <5> HIDE DEF ab, m, n
          <5> QED
            BY <4>1, <5>1, <5>2
        <4>3. g[k - 1] \in Seq(S) /\ b[k] \in Seq(S)
          BY <1>2, <1>4, <4>1
        <4>4. (f[m] \o g[k - 1]) \o b[k] = f[m] \o (g[k - 1] \o b[k])
          <5> HIDE DEF m
          <5> QED
            BY <1>1, <1>8, <4>3
        <4>5. ab[m + k] = b[k]
          BY <1>2, <4>1
        <4> HIDE DEF ab, m
        <4> QED
          BY <2>1, <3>2, <4>2, <4>4, <4>5
      <3> QED
        BY <3>1, <3>2
    <2> HIDE DEF m
    <2> QED
      BY <2>2
  <1>10. \A k \in 0..n : k \in Right
    <2> HIDE DEF Right, n
    <2> QED
      BY <1>2, <1>9, StrongInduction
  <1>11. h[m + n] = f[m] \o g[n]
    <2>1. n \in 0..n
      BY <1>2
    <2> HIDE DEF m, n
    <2> QED
      BY <1>10, <2>1
  <1>12. f[m] = FlattenSeq(a) /\ g[n] = FlattenSeq(b)
    BY <1>3, <1>4 DEF FlattensTo
  <1>13. h[m + n] = FlattenSeq(ab)
    <2> HIDE DEF ab, m, n
    <2> QED
      BY <1>2, <1>5 DEF FlattensTo
  <1> QED
    BY <1>11, <1>12, <1>13

LEMMA FlattenOne ==
  ASSUME NEW S, NEW x \in Seq(S)
  PROVE  FlattenSeq(<<x>>) = x
  <1> DEFINE ss == <<x>>
  <1>1. ss \in Seq(Seq(S)) /\ Len(ss) = 1 /\ ss[1] = x
    OBVIOUS
  <1> HIDE DEF ss
  <1>2. PICK f \in [0..Len(ss) -> Seq(S)] : FlattensTo(f, ss)
    BY <1>1, FlattenRun
  <1>3. f[0] = <<>> /\ f[1] = f[0] \o ss[1] /\ f[1] = FlattenSeq(ss)
    BY <1>1, <1>2 DEF FlattensTo
  <1>4. <<>> \o x = x
    BY ConcatEmptySeq
  <1> QED
    BY <1>1, <1>3, <1>4 DEF ss

(* Where no join of a region hides a column, its leaves' columns are those *)
(* of the join at its top.                                                 *)
LeafColumns(t, leaves) == [i \in DOMAIN leaves |-> t[leaves[i]].output]

LEMMA LeafColumnsType ==
  ASSUME NEW t, LogicalPlan(t), NEW leaves \in Seq(DOMAIN t)
  PROVE  /\ LeafColumns(t, leaves) \in Seq(Seq(ColumnIds))
         /\ Len(LeafColumns(t, leaves)) = Len(leaves)
         /\ \A k \in 1..Len(leaves) : LeafColumns(t, leaves)[k] = t[leaves[k]].output
  <1> DEFINE n == Len(leaves)
  <1>1. n \in Nat /\ DOMAIN leaves = 1..n
    BY LenProperties
  <1>2. ASSUME NEW k \in 1..n PROVE t[leaves[k]].output \in Seq(ColumnIds)
    <2>1. leaves[k] \in DOMAIN t
      BY ElementOfSeq
    <2>2. t[leaves[k]] \in LogicalNodes
      BY <2>1, NodeType
    <2> QED
      BY <2>2 DEF LogicalNodes
  <1> HIDE DEF n
  <1>3. LeafColumns(t, leaves) \in [1..n -> Seq(ColumnIds)]
    BY <1>1, <1>2 DEF LeafColumns
  <1>4. \A k \in 1..n : LeafColumns(t, leaves)[k] = t[leaves[k]].output
    BY <1>1 DEF LeafColumns
  <1> QED
    BY <1>1, <1>3, <1>4, SeqDef DEF n

(* One sequence, then the other.                                           *)
InTurn(ab, a, b) ==
  /\ Len(ab) = Len(a) + Len(b)
  /\ \A i \in 1..Len(a) : ab[i] = a[i]
  /\ \A i \in 1..Len(b) : ab[Len(a) + i] = b[i]

LEMMA ConcatInTurn ==
  ASSUME NEW S, NEW a \in Seq(S), NEW b \in Seq(S)
  PROVE  a \o b \in Seq(S) /\ InTurn(a \o b, a, b)
  <1> DEFINE ab == a \o b
  <1>1. Len(a) \in Nat /\ Len(b) \in Nat
    BY LenProperties
  <1>2. ab \in Seq(S) /\ Len(ab) = Len(a) + Len(b)
    BY ConcatProperties
  <1>3. \A i \in 1..(Len(a) + Len(b)) : ab[i] = IF i <= Len(a) THEN a[i] ELSE b[i - Len(a)]
    BY ConcatProperties
  <1> HIDE DEF ab
  <1>4. \A i \in 1..Len(a) : ab[i] = a[i]
    BY <1>1, <1>3
  <1>5. ASSUME NEW i \in 1..Len(b) PROVE ab[Len(a) + i] = b[i]
    <2>1. /\ Len(a) + i \in 1..(Len(a) + Len(b)) /\ ~(Len(a) + i <= Len(a))
          /\ (Len(a) + i) - Len(a) = i
      BY <1>1
    <2> QED
      BY <1>3, <2>1
  <1> QED
    BY <1>2, <1>4, <1>5 DEF ab, InTurn

LEMMA LeafColumnsConcat ==
  ASSUME NEW t, LogicalPlan(t), NEW a \in Seq(DOMAIN t), NEW b \in Seq(DOMAIN t)
  PROVE  LeafColumns(t, a \o b) = LeafColumns(t, a) \o LeafColumns(t, b)
  <1> DEFINE S == Seq(ColumnIds)
             ab == a \o b
             x == LeafColumns(t, a)
             y == LeafColumns(t, b)
             z == LeafColumns(t, ab)
             xy == x \o y
             m == Len(a)
             n == Len(b)
  <1>1. m \in Nat /\ n \in Nat
    BY LenProperties
  <1>2. /\ ab \in Seq(DOMAIN t) /\ Len(ab) = m + n
        /\ \A i \in 1..m : ab[i] = a[i]
        /\ \A i \in 1..n : ab[m + i] = b[i]
    BY ConcatInTurn DEF InTurn
  <1> HIDE DEF ab, S
  <1>3. /\ x \in Seq(S) /\ Len(x) = m /\ \A k \in 1..m : x[k] = t[a[k]].output
        /\ y \in Seq(S) /\ Len(y) = n /\ \A k \in 1..n : y[k] = t[b[k]].output
        /\ z \in Seq(S) /\ Len(z) = Len(ab) /\ \A k \in 1..Len(ab) : z[k] = t[ab[k]].output
    BY <1>2, LeafColumnsType DEF S
  <1> HIDE DEF x, y, z, m, n
  <1>4. /\ xy \in Seq(S) /\ Len(xy) = m + n
        /\ \A i \in 1..m : xy[i] = x[i]
        /\ \A i \in 1..n : xy[m + i] = y[i]
    <2>1. x \in Seq(S) /\ y \in Seq(S) /\ Len(x) = m /\ Len(y) = n
      BY <1>3
    <2>2. xy \in Seq(S) /\ InTurn(xy, x, y)
      BY <2>1, ConcatInTurn
    <2> HIDE DEF xy
    <2> QED
      BY <2>1, <2>2 DEF InTurn
  <1> HIDE DEF xy
  <1>5. ASSUME NEW i \in 1..Len(z) PROVE z[i] = xy[i]
    <2>1. i \in 1..(m + n) /\ z[i] = t[ab[i]].output
      BY <1>2, <1>3
    <2>2. CASE i <= m
      <3>1. i \in 1..m
        BY <1>1, <2>1, <2>2
      <3> QED
        BY <1>2, <1>3, <1>4, <2>1, <3>1
    <2>3. CASE ~(i <= m)
      <3> DEFINE j == i - m
      <3>1. i \in Int /\ m < i /\ i <= m + n
        BY <1>1, <2>1, <2>3
      <3>2. j \in 1..n /\ i = m + j
        BY <1>1, <3>1
      <3> HIDE DEF j
      <3>3. ab[i] = b[j] /\ xy[i] = y[j] /\ y[j] = t[b[j]].output
        BY <1>2, <1>3, <1>4, <3>2
      <3> QED
        BY <2>1, <3>3
    <2> QED
      BY <2>2, <2>3
  <1>6. z = xy
    <2>1. Len(z) = Len(xy)
      BY <1>2, <1>3, <1>4
    <2> QED
      BY <1>3, <1>4, <1>5, <2>1, SeqEqual
  <1> QED
    BY <1>6 DEF z, xy, x, y, ab

LEMMA RegionColumns ==
  ASSUME NEW t, LogicalPlan(t)
  PROVE  \A n \in DOMAIN t :
           TotalWidth(t, RegionLeaves(t, n)) = Width(t, n) =>
             FlattenSeq(LeafColumns(t, RegionLeaves(t, n))) = t[n].output
  <1> DEFINE N == Len(t)
             Whole(n) == TotalWidth(t, RegionLeaves(t, n)) = Width(t, n)
             Schema(n) == FlattenSeq(LeafColumns(t, RegionLeaves(t, n)))
             T == {n \in 1..N : Whole(n) => Schema(n) = t[n].output}
  <1>1. N \in Nat /\ DOMAIN t = 1..N
    BY LenProperties DEF LogicalPlan
  <1>2. ASSUME NEW n \in 1..N, \A k \in 1..(n - 1) : k \in T PROVE n \in T
    <2>1. n \in DOMAIN t
      BY <1>1
    <2>2. CASE ~Reorderable(t, n)
      <3>1. RegionLeaves(t, n) = <<n>>
        BY <2>1, <2>2, RegionLeavesOf
      <3>2. t[n].output \in Seq(ColumnIds)
        BY <2>1, NodeType DEF LogicalNodes
      <3>3. LeafColumns(t, <<n>>) = <<t[n].output>>
        BY DEF LeafColumns
      <3>4. Schema(n) = t[n].output
        BY <3>1, <3>2, <3>3, FlattenOne
      <3> HIDE DEF Schema
      <3> QED
        BY <3>4
    <2>3. CASE Reorderable(t, n) /\ Whole(n)
      <3> DEFINE l == t[n].kids[1]
                 r == t[n].kids[2]
                 L == RegionLeaves(t, l)
                 R == RegionLeaves(t, r)
      <3>1. /\ l \in DOMAIN t /\ r \in DOMAIN t /\ l \in 1..(n - 1) /\ r \in 1..(n - 1)
            /\ Width(t, n) <= Width(t, l) + Width(t, r)
        BY <2>1, <2>3, ReorderableKids
      <3>2. Width(t, n) = Width(t, l) + Width(t, r) => t[n].output = t[l].output \o t[r].output
        BY <2>1, <2>3 DEF LogicalPlan
      <3>3. l \in T /\ r \in T
        <4> HIDE DEF T, l, r
        <4> QED
          BY <1>2, <3>1
      <3> HIDE DEF l, r
      <3>4. L \in Seq(DOMAIN t) /\ R \in Seq(DOMAIN t) /\ RegionLeaves(t, n) = L \o R
        BY <2>1, <2>3, <3>1, RegionLeavesOf DEF l, r
      <3>5. Width(t, l) <= TotalWidth(t, L) /\ Width(t, r) <= TotalWidth(t, R)
        BY <3>1, RegionLeavesType
      <3>6. /\ TotalWidth(t, RegionLeaves(t, n)) = TotalWidth(t, L) + TotalWidth(t, R)
            /\ TotalWidth(t, L) \in Nat /\ TotalWidth(t, R) \in Nat
        BY <3>4, TotalWidthOfTwo, TotalWidthType
      <3>7. Width(t, n) \in Nat /\ Width(t, l) \in Nat /\ Width(t, r) \in Nat
        BY <2>1, <3>1, NodeType
      <3>8. /\ TotalWidth(t, L) = Width(t, l) /\ TotalWidth(t, R) = Width(t, r)
            /\ Width(t, n) = Width(t, l) + Width(t, r)
        BY <2>3, <3>1, <3>5, <3>6, <3>7
      <3>9. Schema(l) = t[l].output /\ Schema(r) = t[r].output
        BY <3>3, <3>8
      <3>10. Schema(n) = Schema(l) \o Schema(r)
        <4>1. LeafColumns(t, L \o R) = LeafColumns(t, L) \o LeafColumns(t, R)
          BY <3>4, LeafColumnsConcat
        <4>2. /\ LeafColumns(t, L) \in Seq(Seq(ColumnIds))
              /\ LeafColumns(t, R) \in Seq(Seq(ColumnIds))
          BY <3>4, LeafColumnsType
        <4>3. FlattenSeq(LeafColumns(t, L) \o LeafColumns(t, R))
                = FlattenSeq(LeafColumns(t, L)) \o FlattenSeq(LeafColumns(t, R))
          BY <4>2, FlattenConcat
        <4> QED
          BY <3>4, <4>1, <4>3
      <3>11. Schema(n) = t[n].output
        BY <3>2, <3>8, <3>9, <3>10
      <3> HIDE DEF Schema
      <3> QED
        BY <3>11
    <2>4. CASE ~Whole(n)
      <3> HIDE DEF Whole, Schema
      <3> QED
        BY <2>4
    <2> QED
      BY <2>2, <2>3, <2>4
  <1>3. \A n \in 1..N : n \in T
    <2> HIDE DEF T, N
    <2> QED
      BY <1>1, <1>2, StrongInduction
  <1> QED
    BY <1>1, <1>3

(* The schema of a range is that of its halves, one after the other, and   *)
(* that of a leaf is the leaf's.                                           *)
LeafSchemas(r, first, last) ==
  [i \in 1..(last - first) |-> logical[r.leaves[first + i]].output]

LEMMA LeafSchemasType ==
  ASSUME LogicalPlan(logical), NEW r, r.leaves \in Seq(DOMAIN logical),
         NEW first \in 0..Len(r.leaves), NEW last \in 0..Len(r.leaves), first <= last
  PROVE  /\ LeafSchemas(r, first, last) \in Seq(Seq(ColumnIds))
         /\ Len(LeafSchemas(r, first, last)) = last - first
         /\ \A k \in 1..(last - first) :
              LeafSchemas(r, first, last)[k] = logical[r.leaves[first + k]].output
  <1> DEFINE n == Len(r.leaves)
             size == last - first
             list == LeafSchemas(r, first, last)
             Schema(k) == logical[r.leaves[first + k]].output
  <1>1. n \in Nat /\ \A k \in 1..n : r.leaves[k] \in DOMAIN logical
    BY LenProperties
  <1>2. \A k \in 1..n : logical[r.leaves[k]].output \in Seq(ColumnIds)
    BY <1>1, NodeType DEF LogicalNodes
  <1>3. size \in Nat /\ \A i \in 1..size : first + i \in 1..n
    OBVIOUS
  <1>4. \A k \in 1..size : Schema(k) \in Seq(ColumnIds)
    BY <1>2, <1>3
  <1>5. list = [k \in 1..size |-> Schema(k)]
    BY DEF LeafSchemas
  <1> HIDE DEF n, size, Schema, list
  <1>6. list \in [1..size -> Seq(ColumnIds)] /\ \A k \in 1..size : list[k] = Schema(k)
    BY <1>4, <1>5
  <1>7. list \in Seq(Seq(ColumnIds)) /\ Len(list) = size
    BY <1>3, <1>6
  <1> QED
    BY <1>6, <1>7 DEF list, size, Schema

LEMMA RangeSchemaSplits ==
  ASSUME LogicalPlan(logical), NEW r, r.leaves \in Seq(DOMAIN logical),
         NEW first \in 0..Len(r.leaves), NEW split \in 0..Len(r.leaves),
         NEW last \in 0..Len(r.leaves), first < split, split < last
  PROVE  RangeSchema(r, first, last) = RangeSchema(r, first, split) \o RangeSchema(r, split, last)
  <1> DEFINE a == LeafSchemas(r, first, split)
             b == LeafSchemas(r, split, last)
             ab == LeafSchemas(r, first, last)
  <1>1. /\ a \in Seq(Seq(ColumnIds)) /\ Len(a) = split - first
        /\ b \in Seq(Seq(ColumnIds)) /\ Len(b) = last - split
        /\ ab \in Seq(Seq(ColumnIds)) /\ Len(ab) = last - first
    BY LeafSchemasType
  <1>2. /\ \A k \in 1..(split - first) : ab[k] = a[k]
        /\ \A k \in 1..(last - split) : ab[(split - first) + k] = b[k]
    <2>1. ASSUME NEW k \in 1..(split - first) PROVE ab[k] = a[k]
      <3>1. k \in 1..(last - first)
        OBVIOUS
      <3> QED
        BY <3>1 DEF LeafSchemas
    <2>2. ASSUME NEW k \in 1..(last - split) PROVE ab[(split - first) + k] = b[k]
      <3>1. (split - first) + k \in 1..(last - first) /\ first + ((split - first) + k) = split + k
        OBVIOUS
      <3> QED
        BY <3>1 DEF LeafSchemas
    <2> QED
      BY <2>1, <2>2
  <1>3. ab = a \o b
    <2> HIDE DEF a, b, ab
    <2>1. /\ a \o b \in Seq(Seq(ColumnIds)) /\ Len(a \o b) = Len(a) + Len(b)
          /\ \A k \in 1..(Len(a) + Len(b)) : (a \o b)[k] =
               IF k <= Len(a) THEN a[k] ELSE b[k - Len(a)]
      BY <1>1, ConcatProperties
    <2>2. /\ a \o b \in Seq(Seq(ColumnIds)) /\ Len(a \o b) = last - first
          /\ \A k \in 1..(last - first) : (a \o b)[k] =
               IF k <= split - first THEN a[k] ELSE b[k - (split - first)]
      <3>1. (split - first) + (last - split) = last - first
        OBVIOUS
      <3> QED
        BY <1>1, <2>1, <3>1
    <2>3. ASSUME NEW k \in 1..(last - first) PROVE ab[k] = (a \o b)[k]
      <3>1. CASE k <= split - first
        BY <1>2, <2>2, <3>1
      <3>2. CASE ~(k <= split - first)
        <4>1. k - (split - first) \in 1..(last - split)
          BY <3>2
        <4>2. ab[(split - first) + (k - (split - first))] = b[k - (split - first)]
          BY <1>2, <4>1
        <4>3. (split - first) + (k - (split - first)) = k
          OBVIOUS
        <4> QED
          BY <2>2, <3>2, <4>2, <4>3
      <3> QED
        BY <3>1, <3>2
    <2> DEFINE joined == a \o b
    <2>4. joined \in Seq(Seq(ColumnIds)) /\ Len(joined) = Len(ab)
      BY <1>1, <2>2
    <2>5. \A k \in 1..Len(ab) : ab[k] = joined[k]
      BY <1>1, <2>3
    <2> HIDE DEF joined
    <2>6. ab = joined
      BY <1>1, <2>4, <2>5, SeqEqual
    <2> QED
      BY <2>6 DEF joined
  <1>4. FlattenSeq(ab) = FlattenSeq(a) \o FlattenSeq(b)
    <2> HIDE DEF a, b, ab
    <2> QED
      BY <1>1, <1>3, FlattenConcat
  <1> QED
    BY <1>4 DEF RangeSchema, LeafSchemas

LEMMA RangeSchemaOfOne ==
  ASSUME LogicalPlan(logical), NEW r, r.leaves \in Seq(DOMAIN logical),
         NEW i \in 1..Len(r.leaves)
  PROVE  RangeSchema(r, i - 1, i) = logical[r.leaves[i]].output
  <1> DEFINE x == logical[r.leaves[i]].output
  <1>1. r.leaves[i] \in DOMAIN logical
    BY LenProperties
  <1>2. x \in Seq(ColumnIds)
    BY <1>1, NodeType DEF LogicalNodes
  <1>3. LeafSchemas(r, i - 1, i) = <<x>>
    <2>1. /\ Len(r.leaves) \in Nat /\ i - (i - 1) = 1 /\ (i - 1) + 1 = i
          /\ i - 1 \in 0..Len(r.leaves) /\ i \in 0..Len(r.leaves) /\ i - 1 <= i
      BY LenProperties
    <2> DEFINE list == LeafSchemas(r, i - 1, i)
    <2> DEFINE h == i - 1
    <2>2. /\ LeafSchemas(r, h, i) \in Seq(Seq(ColumnIds)) /\ Len(LeafSchemas(r, h, i)) = i - h
          /\ \A k \in 1..(i - h) : LeafSchemas(r, h, i)[k] = logical[r.leaves[h + k]].output
      <3>1. h \in 0..Len(r.leaves) /\ i \in 0..Len(r.leaves) /\ h <= i
        BY <2>1
      <3> HIDE DEF h
      <3> QED
        BY <3>1, LeafSchemasType
    <2>3. i - h = 1 /\ h + 1 = i
      BY <2>1
    <2>4. list \in Seq(Seq(ColumnIds)) /\ Len(list) = 1 /\ list[1] = x
      <3>1. LeafSchemas(r, h, i) = list
        OBVIOUS
      <3> HIDE DEF h, list
      <3> QED
        BY <2>2, <2>3, <3>1
    <2>5. <<x>> \in Seq(Seq(ColumnIds)) /\ Len(<<x>>) = 1 /\ <<x>>[1] = x
      BY <1>2
    <2> DEFINE one == <<x>>
    <2> HIDE DEF list, one
    <2>6. \A k \in 1..Len(list) : list[k] = one[k]
      BY <2>4, <2>5 DEF one
    <2>7. one \in Seq(Seq(ColumnIds)) /\ Len(one) = 1
      BY <2>5 DEF one
    <2>8. list = one
      BY <2>4, <2>6, <2>7, SeqEqual
    <2> QED
      BY <2>8 DEF list, one
  <1>4. FlattenSeq(<<x>>) = x
    <2> HIDE DEF x
    <2> QED
      BY <1>2, FlattenOne
  <1> QED
    BY <1>3, <1>4 DEF RangeSchema, LeafSchemas
-----------------------------------------------------------------------------
(* The inductive invariant.                                                *)

(* The plan and the switches are those of a call lower() accepts.          *)
PlanOK == LogicalPlan(logical) /\ RulesFit(logical, context.rules)

(* Candidates, and associations, over groups added before number m.        *)
Predicates == [keys : Seq(JoinKeys), residual : Seq(Conjuncts)]

ReadsBelow(m) ==
  {e \in GroupExprs : Len(e.inputs) = Arity(e.op) /\ e.inputs \in Seq(1..(m - 1))}
JoinsBelow(m) ==
  {a \in [inputs : Seq(Nat), predicate : Predicates] : a.inputs \in Seq(1..(m - 1))}

Payloads ==
  [output : Seq(ColumnIds), associations : Seq([inputs : Seq(Nat), predicate : Predicates])]

(* Every group reads groups added before it; if it offers a choice of      *)
(* associations, they are joins.                                           *)
MemoOK ==
  /\ memo \in Seq(Groups) /\ payloads \in Seq(Payloads) /\ Len(payloads) = Len(memo)
  /\ \A g \in 1..Len(memo) : memo[g].exprs \in Seq(ReadsBelow(g))
  /\ \A g \in 1..Len(memo) : payloads[g].associations \in Seq(JoinsBelow(g))
  /\ \A g \in 1..Len(memo) : Len(payloads[g].associations) > 1 =>
       \A i \in DOMAIN payloads[g].associations : Len(payloads[g].associations[i].inputs) = 2

GroupKeys ==
  [op : STRING, text : STRING, payload : Groups, output : Seq(ColumnIds),
   inputs : Seq(Nat), predicate : Predicates]

(* A group that may be shared has the schema its key says, and was added   *)
(* after the groups the key says it is over.                               *)
IndexOK ==
  /\ index \in Seq([key : GroupKeys, group : 1..Len(memo)])
  /\ \A i \in 1..Len(index) :
       /\ payloads[index[i].group].output = index[i].key.output
       /\ index[i].key.inputs \in Seq(1..(index[i].group - 1))

CountersOK ==
  /\ counters \in [candidates : Nat, shared : Nat, joins : Nat, regions : Nat]
  /\ groupOf \in [DOMAIN logical -> 0..Len(memo)]
  /\ ColumnsKept

(* An activation's region is its node's; its inputs are groups, of the     *)
(* leaves' schemas, no more than it awaits.                                *)
Stages == {"enter", "collected", "node", "region", "ranges"}

RegionOK(c) ==
  c.stage \in {"collected", "region", "ranges"} =>
    MayCollect(c) /\ c.region = JoinRegionOf(logical, c.node)

InputsOK(c) ==
  /\ c.stage \in {"enter", "collected"} => Len(c.inputs) = 0
  /\ c.stage = "node"   => Len(c.inputs) <= Len(NodeOf(c).kids)
  /\ c.stage = "region" => Len(c.inputs) <= Len(c.region.leaves)
  /\ c.stage = "ranges" => Len(c.inputs) = Len(c.region.leaves)

LeavesOK(c, ps) ==
  c.stage \in {"region", "ranges"} =>
    /\ c.viable = ViableRanges(c.region) /\ Covered(c.region, c.viable)
    /\ \A k \in 1..Len(c.inputs) :
         ps[c.inputs[k]].output = logical[c.region.leaves[k]].output

(* The ranges built are the narrowest, in their order, of their schemas.   *)
BuiltOK(c, ps) ==
  /\ c.stage # "ranges" => DOMAIN c.built = {}
  /\ DOMAIN c.built \subseteq JoinRanges(c.viable)
  /\ \A v \in DOMAIN c.built : c.built[v] \in 1..Len(ps)
  /\ \A v \in DOMAIN c.built : \A u \in JoinRanges(c.viable) :
       Narrower(u, v) => u \in DOMAIN c.built /\ c.built[u] < c.built[v]
  /\ \A v \in DOMAIN c.built : ps[c.built[v]].output = RangeSchema(c.region, v[1], v[2])

CallOK(c, ps) ==
  /\ c.node \in DOMAIN logical /\ c.stage \in Stages /\ c.inputs \in Seq(1..Len(ps))
  /\ RegionOK(c) /\ InputsOK(c) /\ LeavesOK(c, ps) /\ BuiltOK(c, ps)

RangeGroups == UNION {[D -> Nat] : D \in SUBSET (Nat \X Nat)}

Activations ==
  [node : Nat, stage : Stages, inputs : Seq(Nat),
   region : {NoRegion} \cup {JoinRegionOf(logical, n) : n \in DOMAIN logical},
   viable : SUBSET (Nat \X Nat), built : RangeGroups]

(* Every activation but the innermost awaits the next one's group.         *)
StackOK ==
  /\ calls \in Seq(Activations) /\ (outcome = "exploring" <=> calls # <<>>)
  /\ \A i \in 1..Len(calls) : CallOK(calls[i], payloads)
  /\ calls # <<>> => calls[1].node = RootNode
  /\ \A i \in 1..(Len(calls) - 1) :
       /\ Awaits(calls[i])
       /\ calls[i + 1].node = Awaited(calls[i])[Len(calls[i].inputs) + 1]

(* The group added last is an input, or a range, of an active activation,  *)
(* and of the innermost if that has begun to build ranges.                 *)
Holds(c, g) ==
  \/ \E k \in 1..Len(c.inputs) : c.inputs[k] = g
  \/ \E v \in DOMAIN c.built : c.built[v] = g

NewestOK ==
  /\ Exploring /\ memo # <<>> => \E i \in 1..Len(calls) : Holds(calls[i], Len(memo))
  /\ Exploring /\ DOMAIN Top.built # {} => \E v \in DOMAIN Top.built : Top.built[v] = Len(memo)
  /\ outcome = "explored" => memo # <<>> /\ groupOf[RootNode] = Len(memo)

IInv ==
  /\ PlanOK /\ MemoOK /\ IndexOK /\ CountersOK /\ StackOK /\ NewestOK /\ SplitsAgree
-----------------------------------------------------------------------------
(* Steps.                                                                  *)

(* The plan and the switches never change.                                 *)
LEMMA CallStays ==
  ASSUME logical' = logical, context' = context, NEW c, NEW ps
  PROVE  CallOK(c, ps)' <=> CallOK(c, ps)
  <1>1. ASSUME NEW first, NEW last
        PROVE  RangeSchema(c.region, first, last)' = RangeSchema(c.region, first, last)
    BY DEF RangeSchema
  <1>2. RegionOK(c)' <=> RegionOK(c)
    BY DEF RegionOK, MayCollect
  <1>3. InputsOK(c)' <=> InputsOK(c)
    BY DEF InputsOK, NodeOf
  <1>4. LeavesOK(c, ps)' <=> LeavesOK(c, ps)
    BY DEF LeavesOK
  <1>5. BuiltOK(c, ps)' <=> BuiltOK(c, ps)
    BY <1>1 DEF BuiltOK
  <1> QED
    BY <1>2, <1>3, <1>4, <1>5 DEF CallOK

(* What an activation relies on stays true as groups are added.            *)
LEMMA CallGrows ==
  ASSUME NEW c, NEW ps, NEW qs, CallOK(c, ps),
         Len(ps) \in Nat, Len(qs) \in Nat, Len(ps) <= Len(qs),
         \A g \in 1..Len(ps) : qs[g] = ps[g]
  PROVE  CallOK(c, qs)
  <1>1. Len(c.inputs) \in Nat /\ \A k \in 1..Len(c.inputs) : c.inputs[k] \in 1..Len(ps)
    BY LenProperties DEF CallOK
  <1>2. c.inputs \in Seq(1..Len(qs))
    <2>1. Seq(1..Len(ps)) \subseteq Seq(1..Len(qs))
      <3>1. 1..Len(ps) \subseteq 1..Len(qs)
        OBVIOUS
      <3> QED
        BY <3>1
    <2> QED
      BY <2>1 DEF CallOK
  <1>3. LeavesOK(c, qs)
    BY <1>1 DEF CallOK, LeavesOK
  <1>4. BuiltOK(c, qs)
    <2>1. \A v \in DOMAIN c.built : c.built[v] \in 1..Len(ps)
      BY DEF CallOK, BuiltOK
    <2>2. \A v \in DOMAIN c.built : c.built[v] \in 1..Len(qs) /\ qs[c.built[v]] = ps[c.built[v]]
      BY <2>1
    <2> QED
      BY <2>2 DEF CallOK, BuiltOK
  <1> QED
    BY <1>2, <1>3, <1>4 DEF CallOK

(* The innermost activation.                                               *)
LEMMA TopFacts ==
  ASSUME IInv, Exploring
  PROVE  /\ calls \in Seq(Activations) /\ Len(calls) \in Nat \ {0} /\ Len(calls) \in 1..Len(calls)
         /\ DOMAIN calls = 1..Len(calls)
         /\ Top = calls[Len(calls)] /\ Top \in Activations /\ CallOK(Top, payloads)
         /\ Len(payloads) = Len(memo) /\ Len(memo) \in Nat
         /\ LogicalPlan(logical) /\ RulesFit(logical, context.rules)
         /\ Top.node \in DOMAIN logical
  <1>1. calls \in Seq(Activations) /\ calls # <<>>
    BY DEF IInv, StackOK, Exploring
  <1>2. Len(calls) \in Nat \ {0} /\ DOMAIN calls = 1..Len(calls)
    BY <1>1, LenProperties, EmptySeq
  <1>3. Len(calls) \in 1..Len(calls) /\ Top = calls[Len(calls)]
    BY <1>2 DEF Top
  <1>4. CallOK(Top, payloads)
    BY <1>3 DEF IInv, StackOK
  <1>5. Top \in Activations
    BY <1>1, <1>3
  <1>6. Len(payloads) = Len(memo) /\ Len(memo) \in Nat
    BY LenProperties DEF IInv, MemoOK
  <1>7. Top.node \in DOMAIN logical
    BY <1>4 DEF CallOK
  <1> QED
    BY <1>1, <1>2, <1>3, <1>4, <1>5, <1>6, <1>7 DEF IInv, PlanOK

(* A step that replaces the innermost activation, whatever it adds.        *)
LEMMA TopStep ==
  ASSUME IInv, Exploring, NEW c \in Activations, CallOK(c, payloads'),
         c.node = Top.node, calls' = SetTop(c),
         logical' = logical, context' = context, outcome' = outcome,
         Len(payloads') \in Nat, Len(payloads) <= Len(payloads'),
         \A g \in 1..Len(payloads) : payloads'[g] = payloads[g],
         MemoOK', IndexOK', SplitsAgree', CountersOK', NewestOK'
  PROVE  IInv'
  <1> DEFINE n == Len(calls)
  <1>1. /\ n \in Nat \ {0} /\ DOMAIN calls = 1..n /\ Top = calls[n] /\ calls \in Seq(Activations)
        /\ Len(payloads) \in Nat
    BY TopFacts
  <1>2. /\ calls' \in Seq(Activations) /\ Len(calls') = n /\ calls'[n] = c
        /\ \A i \in 1..n : i # n => calls'[i] = calls[i]
    <2>1. calls' = [calls EXCEPT ![n] = c] /\ n \in 1..n
      BY <1>1 DEF SetTop
    <2>2. calls' \in Seq(Activations) /\ Len(calls') = n
      BY <1>1, <2>1, ExceptSeq
    <2> HIDE DEF n
    <2>3. calls'[n] = c /\ \A i \in 1..n : i # n => calls'[i] = calls[i]
      BY <1>1, <2>1
    <2> QED
      BY <2>2, <2>3
  <1>3. \A i \in 1..n : calls'[i].node = calls[i].node
    BY <1>1, <1>2
  <1>4. \A i \in 1..n : CallOK(calls[i], payloads)
    BY DEF IInv, StackOK
  <1> HIDE DEF n
  <1>5. \A i \in 1..Len(calls') : CallOK(calls[i], payloads)'
    <2>1. ASSUME NEW i \in 1..n, i # n PROVE CallOK(calls[i], payloads')
      BY <1>1, <1>4, CallGrows
    <2>2. \A i \in 1..n : CallOK(calls'[i], payloads')
      BY <1>1, <1>2, <2>1
    <2> QED
      BY <1>2, <2>2, CallStays
  <1>6. calls' # <<>> /\ calls # <<>>
    BY <1>1, <1>2, EmptySeq DEF n
  <1>7. calls'[1].node = RootNode'
    BY <1>1, <1>2, <1>3, <1>6 DEF IInv, StackOK, RootNode
  <1>8. \A i \in 1..(Len(calls') - 1) :
          /\ Awaits(calls[i])'
          /\ calls'[i + 1].node = Awaited(calls[i])'[Len(calls'[i].inputs) + 1]
    <2> TAKE i \in 1..(Len(calls') - 1)
    <2>1. i \in 1..n /\ i + 1 \in 1..n /\ i # n /\ i \in 1..(Len(calls) - 1)
      <3>1. n \in Nat \ {0} /\ i \in 1..(n - 1)
        BY <1>1, <1>2
      <3>2. n = Len(calls)
        BY DEF n
      <3> QED
        BY <3>1, <3>2
    <2>2. calls'[i] = calls[i] /\ calls'[i + 1].node = calls[i + 1].node
      BY <1>2, <1>3, <2>1
    <2>3. Awaits(calls[i]) /\ calls[i + 1].node = Awaited(calls[i])[Len(calls[i].inputs) + 1]
      BY <2>1 DEF IInv, StackOK
    <2> QED
      BY <2>2, <2>3 DEF Awaits, Awaited, NodeOf
  <1>9. Activations' = Activations
    BY DEF Activations
  <1>10. StackOK'
    BY <1>2, <1>5, <1>6, <1>7, <1>8, <1>9 DEF IInv, StackOK, Exploring
  <1>11. PlanOK'
    BY DEF IInv, PlanOK
  <1> QED
    BY <1>10, <1>11 DEF IInv

(* A step that only moves the innermost activation on to its next stage.   *)
LEMMA StageStep ==
  ASSUME IInv, Exploring, NEW c \in Activations, CallOK(c, payloads),
         c.node = Top.node, c.inputs = Top.inputs, c.built = Top.built,
         calls' = SetTop(c),
         counters' \in [candidates : Nat, shared : Nat, joins : Nat, regions : Nat],
         UNCHANGED <<logical, context, memo, payloads, index, groupOf, outcome>>
  PROVE  IInv'
  <1> DEFINE n == Len(calls)
  <1>1. /\ n \in Nat \ {0} /\ DOMAIN calls = 1..n /\ Top = calls[n] /\ calls \in Seq(Activations)
        /\ Len(payloads) = Len(memo) /\ Len(memo) \in Nat
    BY TopFacts
  <1> HIDE DEF n
  <1>2. calls' = [calls EXCEPT ![n] = c] /\ Len(calls') = n
    BY <1>1, ExceptSeq DEF SetTop, n
  <1>3. \A i \in 1..n : /\ calls'[i].inputs = calls[i].inputs
                        /\ calls'[i].built = calls[i].built
    BY <1>1, <1>2
  <1>4. NewestOK'
    <2>1. memo # <<>> => \E i \in 1..n : Holds(calls[i], Len(memo))
      BY DEF IInv, NewestOK, n
    <2>2. \A i \in 1..n : Holds(calls[i], Len(memo)) => Holds(calls'[i], Len(memo))
      BY <1>3 DEF Holds
    <2>3. memo' # <<>> => \E i \in 1..Len(calls') : Holds(calls'[i], Len(memo'))
      BY <1>2, <2>1, <2>2
    <2>4. Top'.built = Top.built
      BY <1>1, <1>2 DEF Top
    <2>5. DOMAIN Top'.built # {} => \E v \in DOMAIN Top'.built : Top'.built[v] = Len(memo')
      BY <2>4 DEF IInv, NewestOK
    <2>6. outcome' # "explored"
      BY DEF Exploring
    <2> QED
      BY <2>3, <2>5, <2>6 DEF NewestOK, Holds
  <1>5. MemoOK' /\ IndexOK' /\ SplitsAgree'
    BY DEF IInv, MemoOK, IndexOK, SplitsAgree
  <1>6. CountersOK'
    BY DEF IInv, CountersOK, ColumnsKept
  <1> QED
    BY <1>1, <1>4, <1>5, <1>6, TopStep

(* Nodes keep their groups, and the groups their schemas, as more come.    *)
LEMMA KeptOn ==
  ASSUME ColumnsKept, groupOf \in [DOMAIN logical -> 0..Len(memo)], Len(memo) \in Nat,
         logical' = logical, groupOf' = groupOf,
         \A g \in 1..Len(memo) : payloads'[g] = payloads[g]
  PROVE  ColumnsKept'
  <1> SUFFICES ASSUME NEW n \in DOMAIN groupOf, groupOf[n] # 0
               PROVE  payloads'[groupOf[n]].output = logical[n].output
    BY DEF ColumnsKept
  <1>1. groupOf[n] \in 1..Len(memo)
    OBVIOUS
  <1> QED
    BY <1>1 DEF ColumnsKept

(* A step that ends exploration with an error.                             *)
LEMMA FailStep ==
  ASSUME IInv, NEW reason, reason \notin {"exploring", "explored"}, Fail(reason),
         counters' \in [candidates : Nat, shared : Nat, joins : Nat, regions : Nat]
  PROVE  IInv'
  <1> USE DEF Fail
  <1>1. StackOK'
    <2>1. calls' \in Seq(Activations)' /\ Len(calls') = 0
      OBVIOUS
    <2> QED
      BY <2>1 DEF StackOK
  <1>2. NewestOK'
    BY DEF NewestOK, Exploring
  <1>3. PlanOK' /\ MemoOK' /\ IndexOK' /\ SplitsAgree'
    BY DEF IInv, PlanOK, MemoOK, IndexOK, SplitsAgree
  <1>4. CountersOK'
    BY DEF IInv, CountersOK, ColumnsKept
  <1> QED
    BY <1>1, <1>2, <1>3, <1>4 DEF IInv

(* The region of an activation that has one.                               *)
LEMMA RegionFacts ==
  ASSUME LogicalPlan(logical), NEW c, c.node \in DOMAIN logical, RegionOK(c),
         c.stage \in {"collected", "region", "ranges"}
  PROVE  /\ Reorderable(logical, c.node)
         /\ RegionType(logical, c.region) /\ c.region = JoinRegionOf(logical, c.node)
         /\ c.region.leaves \in Seq(RegionLeaf(logical))
         /\ c.region.leaves \in Seq(DOMAIN logical)
         /\ Len(c.region.leaves) \in Nat /\ Len(c.region.leaves) >= 3
         /\ ViableRanges(c.region) \subseteq Ranges(Len(c.region.leaves))
  <1>1. Collectable(logical, c.node) /\ c.region = JoinRegionOf(logical, c.node)
    BY DEF RegionOK, MayCollect
  <1>2. Reorderable(logical, c.node) /\ Len(RegionLeaves(logical, c.node)) >= 3
    BY <1>1 DEF Collectable
  <1>3. c.region.leaves = RegionLeaves(logical, c.node)
    BY <1>1 DEF JoinRegionOf
  <1>4. RegionType(logical, c.region)
    BY <1>1, JoinRegionType
  <1>5. c.region.leaves \in Seq(RegionLeaf(logical)) /\ c.region.leaves \in Seq(DOMAIN logical)
    BY <1>4 DEF RegionType, RegionLeaf
  <1>6. Len(c.region.leaves) \in Nat /\ Len(c.region.leaves) >= 3
    BY <1>2, <1>3, <1>5, LenProperties
  <1>7. ViableRanges(c.region) \subseteq Ranges(Len(c.region.leaves))
    BY <1>6, ViableRangesType
  <1> QED
    BY <1>1, <1>2, <1>4, <1>5, <1>6, <1>7

LEMMA RegionSchema ==
  ASSUME LogicalPlan(logical), NEW c, c.node \in DOMAIN logical, RegionOK(c),
         c.stage \in {"collected", "region", "ranges"}
  PROVE  RangeSchema(c.region, 0, Len(c.region.leaves)) = NodeOf(c).output
  <1> DEFINE leaves == RegionLeaves(logical, c.node)
             n == Len(leaves)
             x == LeafSchemas(c.region, 0, n)
             y == LeafColumns(logical, leaves)
  <1>1. /\ c.region.leaves = leaves /\ leaves \in Seq(DOMAIN logical) /\ n \in Nat
        /\ TotalWidth(logical, leaves) = Width(logical, c.node)
    <2>1. c.region.leaves = leaves /\ TotalWidth(logical, leaves) = Width(logical, c.node)
      BY DEF RegionOK, MayCollect, JoinRegionOf, Collectable
    <2> QED
      BY <2>1, RegionFacts
  <1>2. 0 \in 0..n /\ n \in 0..n /\ 0 <= n /\ n - 0 = n
    BY <1>1
  <1> HIDE DEF leaves, n
  <1>3. /\ x \in Seq(Seq(ColumnIds)) /\ Len(x) = n
        /\ \A k \in 1..n : x[k] = logical[leaves[0 + k]].output
    <2>1. Len(c.region.leaves) = n /\ c.region.leaves \in Seq(DOMAIN logical)
      BY <1>1 DEF n
    <2>2. /\ x \in Seq(Seq(ColumnIds)) /\ Len(x) = n - 0
          /\ \A k \in 1..(n - 0) : x[k] = logical[c.region.leaves[0 + k]].output
      <3> HIDE DEF x
      <3> QED
        BY <1>2, <2>1, LeafSchemasType DEF x
    <2> HIDE DEF x
    <2> QED
      BY <1>1, <1>2, <2>2
  <1>4. /\ y \in Seq(Seq(ColumnIds)) /\ Len(y) = n
        /\ \A k \in 1..n : y[k] = logical[leaves[k]].output
    BY <1>1, LeafColumnsType DEF n
  <1>5. FlattenSeq(y) = logical[c.node].output
    BY <1>1, RegionColumns DEF leaves
  <1> HIDE DEF x, y
  <1>6. \A k \in 1..n : x[k] = y[k]
    <2>1. \A k \in 1..n : 0 + k = k
      BY <1>1
    <2> QED
      BY <1>3, <1>4, <2>1
  <1>7. x = y
    BY <1>3, <1>4, <1>6, SeqEqual
  <1>8. RangeSchema(c.region, 0, n) = FlattenSeq(x)
    BY DEF RangeSchema, x, LeafSchemas
  <1> QED
    BY <1>1, <1>5, <1>7, <1>8 DEF n, NodeOf

(* The group of the whole region has the join's schema, which is as much   *)
(* as that of the range of all leaves.                                     *)
LEMMA RangeOutputIs ==
  ASSUME LogicalPlan(logical), NEW c, c.node \in DOMAIN logical, RegionOK(c),
         c.stage \in {"collected", "region", "ranges"},
         NEW first \in 0..Len(c.region.leaves), NEW last \in 0..Len(c.region.leaves)
  PROVE  RangeOutput(c, first, last) = RangeSchema(c.region, first, last)
  <1>1. Len(c.region.leaves) \in Nat
    BY RegionFacts
  <1>2. CASE last - first = Len(c.region.leaves)
    <2>1. first = 0 /\ last = Len(c.region.leaves)
      BY <1>1, <1>2
    <2> QED
      BY <1>2, <2>1, RegionSchema DEF RangeOutput
  <1>3. CASE last - first # Len(c.region.leaves)
    BY <1>3 DEF RangeOutput
  <1> QED
    BY <1>2, <1>3

LEMMA CollectKeeps == IInv /\ Collect => IInv'
  <1> SUFFICES ASSUME IInv, Collect PROVE IInv'
    OBVIOUS
  <1> DEFINE c == [Top EXCEPT !.stage = "collected", !.region = JoinRegionOf(logical, Top.node)]
  <1>1. Exploring /\ Top.stage = "enter" /\ MayCollect(Top)
    BY DEF Collect, In
  <1>2. Top \in Activations /\ CallOK(Top, payloads) /\ Top.node \in DOMAIN logical
    BY <1>1, TopFacts
  <1>3. /\ c.node = Top.node /\ c.inputs = Top.inputs /\ c.built = Top.built
        /\ c.stage = "collected" /\ c.region = JoinRegionOf(logical, Top.node)
        /\ c.viable = Top.viable
    BY <1>2 DEF Activations
  <1>4. c \in Activations
    BY <1>2 DEF Activations, Stages
  <1> HIDE DEF c
  <1>5. CallOK(c, payloads)
    <2>1. RegionOK(c)
      BY <1>1, <1>3 DEF RegionOK, MayCollect
    <2>2. InputsOK(c) /\ LeavesOK(c, payloads)
      BY <1>1, <1>2, <1>3 DEF CallOK, InputsOK, LeavesOK
    <2>3. BuiltOK(c, payloads)
      BY <1>1, <1>2, <1>3 DEF CallOK, BuiltOK
    <2> QED
      BY <1>2, <1>3, <2>1, <2>2, <2>3 DEF CallOK, Stages
  <1>6. calls' = SetTop(c) /\ UNCHANGED <<logical, context, memo, payloads, index, counters,
                                          groupOf, outcome>>
    BY DEF Collect, c
  <1>7. counters' \in [candidates : Nat, shared : Nat, joins : Nat, regions : Nat]
    BY <1>6 DEF IInv, CountersOK
  <1> QED
    BY <1>1, <1>3, <1>4, <1>5, <1>6, <1>7, StageStep

LEMMA EnterRegionKeeps == IInv /\ EnterRegion => IInv'
  <1> SUFFICES ASSUME IInv, EnterRegion PROVE IInv'
    OBVIOUS
  <1> DEFINE c == [Top EXCEPT !.stage = "region", !.viable = ViableRanges(Top.region)]
  <1>1. Exploring /\ Top.stage = "collected" /\ Associable(Top)
    BY DEF EnterRegion, In
  <1>2. /\ Top \in Activations /\ CallOK(Top, payloads) /\ Top.node \in DOMAIN logical
        /\ LogicalPlan(logical)
    BY <1>1, TopFacts
  <1>3. /\ ViableRanges(Top.region) \subseteq Ranges(Len(Top.region.leaves))
        /\ Len(Top.region.leaves) \in Nat
    BY <1>1, <1>2, RegionFacts DEF CallOK
  <1>4. ViableRanges(Top.region) \in SUBSET (Nat \X Nat)
    BY <1>3 DEF Ranges
  <1>5. /\ c.node = Top.node /\ c.inputs = Top.inputs /\ c.built = Top.built
        /\ c.stage = "region" /\ c.region = Top.region /\ c.viable = ViableRanges(Top.region)
    BY <1>2 DEF Activations
  <1>6. c \in Activations
    BY <1>2, <1>4 DEF Activations, Stages
  <1> HIDE DEF c
  <1>7. CallOK(c, payloads)
    <2>1. Len(Top.inputs) = 0
      BY <1>1, <1>2 DEF CallOK, InputsOK
    <2>2. RegionOK(c)
      BY <1>1, <1>2, <1>5 DEF CallOK, RegionOK, MayCollect
    <2>3. InputsOK(c)
      BY <1>3, <1>5, <2>1 DEF InputsOK
    <2>4. LeavesOK(c, payloads)
      BY <1>1, <1>5, <2>1 DEF LeavesOK, Associable
    <2>5. BuiltOK(c, payloads)
      BY <1>1, <1>2, <1>5 DEF CallOK, BuiltOK
    <2> QED
      BY <1>2, <1>5, <2>2, <2>3, <2>4, <2>5 DEF CallOK, Stages
  <1>8. calls' = SetTop(c) /\ UNCHANGED <<logical, context, memo, payloads, index, counters,
                                          groupOf, outcome>>
    BY DEF EnterRegion, c
  <1>9. counters' \in [candidates : Nat, shared : Nat, joins : Nat, regions : Nat]
    BY <1>8 DEF IInv, CountersOK
  <1> QED
    BY <1>1, <1>5, <1>6, <1>7, <1>8, <1>9, StageStep

LEMMA EnterNodeKeeps == IInv /\ EnterNode => IInv'
  <1> SUFFICES ASSUME IInv, EnterNode PROVE IInv'
    OBVIOUS
  <1> DEFINE c == [Top EXCEPT !.stage = "node"]
  <1>1. Exploring /\ Top.stage \in {"enter", "collected"}
    BY DEF EnterNode, AsWritten
  <1>2. /\ Top \in Activations /\ CallOK(Top, payloads) /\ Top.node \in DOMAIN logical
        /\ LogicalPlan(logical)
    BY <1>1, TopFacts
  <1>3. /\ c.node = Top.node /\ c.inputs = Top.inputs /\ c.built = Top.built
        /\ c.stage = "node" /\ c.viable = Top.viable
    BY <1>2 DEF Activations
  <1>4. c \in Activations
    BY <1>2 DEF Activations, Stages
  <1> HIDE DEF c
  <1>5. CallOK(c, payloads)
    <2>1. Len(Top.inputs) = 0
      BY <1>1, <1>2 DEF CallOK, InputsOK
    <2>2. NodeOf(c).kids \in Seq(Nat)
      BY <1>2, <1>3, NodeType DEF NodeOf, LogicalNodes
    <2>3. RegionOK(c) /\ LeavesOK(c, payloads)
      BY <1>3 DEF RegionOK, LeavesOK
    <2>4. InputsOK(c)
      BY <1>3, <2>1, <2>2, LenProperties DEF InputsOK
    <2>5. BuiltOK(c, payloads)
      BY <1>1, <1>2, <1>3 DEF CallOK, BuiltOK
    <2> QED
      BY <1>2, <1>3, <2>3, <2>4, <2>5 DEF CallOK, Stages
  <1>6. counters' \in [candidates : Nat, shared : Nat, joins : Nat, regions : Nat]
    <2> DEFINE one == IF NodeOf(Top).op = "Join" THEN 1 ELSE 0
    <2>1. counters' = [counters EXCEPT !.joins = @ + one]
      BY DEF EnterNode
    <2>2. one \in Nat
      OBVIOUS
    <2> HIDE DEF one
    <2> QED
      BY <2>1, <2>2 DEF IInv, CountersOK
  <1>7. CASE ResolveCandidates(NodeOf(Top).op) = <<>>
    <2>1. Fail("no implementation rule")
      BY <1>7 DEF EnterNode
    <2> QED
      BY <1>6, <2>1, FailStep
  <1>8. CASE ResolveCandidates(NodeOf(Top).op) # <<>>
    <2>1. calls' = SetTop(c) /\ UNCHANGED <<logical, context, memo, payloads, index,
                                            groupOf, outcome>>
      BY <1>8 DEF EnterNode, c
    <2> QED
      BY <1>1, <1>3, <1>4, <1>5, <1>6, <2>1, StageStep
  <1> QED
    BY <1>7, <1>8

LEMMA AssociateKeeps == IInv /\ Associate => IInv'
  <1> SUFFICES ASSUME IInv, Associate PROVE IInv'
    OBVIOUS
  <1> DEFINE c == [Top EXCEPT !.stage = "ranges"]
  <1>1. Exploring /\ Top.stage = "region" /\ ~Awaits(Top)
    BY DEF Associate, In
  <1>2. /\ Top \in Activations /\ CallOK(Top, payloads) /\ Top.node \in DOMAIN logical
        /\ LogicalPlan(logical)
    BY <1>1, TopFacts
  <1>3. Len(Top.region.leaves) \in Nat /\ Len(Top.region.leaves) >= 3
    BY <1>1, <1>2, RegionFacts DEF CallOK
  <1>4. Len(Top.inputs) = Len(Top.region.leaves)
    <2>1. Len(Top.inputs) \in Nat
      BY <1>2, LenProperties DEF Activations
    <2>2. Len(Top.inputs) <= Len(Top.region.leaves)
      BY <1>1, <1>2 DEF CallOK, InputsOK
    <2> QED
      BY <1>1, <1>3, <2>1, <2>2 DEF Awaits, Awaited
  <1>5. /\ c.node = Top.node /\ c.inputs = Top.inputs /\ c.built = Top.built
        /\ c.stage = "ranges" /\ c.viable = Top.viable /\ c.region = Top.region
    BY <1>2 DEF Activations
  <1>6. c \in Activations
    BY <1>2 DEF Activations, Stages
  <1> HIDE DEF c
  <1>7. CallOK(c, payloads)
    <2>1. RegionOK(c) /\ LeavesOK(c, payloads)
      BY <1>1, <1>2, <1>5 DEF CallOK, RegionOK, LeavesOK, MayCollect
    <2>2. InputsOK(c)
      BY <1>4, <1>5 DEF InputsOK
    <2>3. BuiltOK(c, payloads)
      BY <1>1, <1>2, <1>5 DEF CallOK, BuiltOK
    <2> QED
      BY <1>2, <1>5, <2>1, <2>2, <2>3 DEF CallOK, Stages
  <1>8. counters' \in [candidates : Nat, shared : Nat, joins : Nat, regions : Nat]
    <2> DEFINE size == Len(Top.inputs)
    <2>1. counters' = [counters EXCEPT !.joins = @ + size - 1, !.regions = @ + 1]
      BY DEF Associate
    <2>2. size \in Nat /\ size >= 3
      BY <1>3, <1>4
    <2>3. counters \in [candidates : Nat, shared : Nat, joins : Nat, regions : Nat]
      BY DEF IInv, CountersOK
    <2> HIDE DEF size
    <2>4. counters.joins + size - 1 \in Nat /\ counters.regions + 1 \in Nat
      BY <2>2, <2>3
    <2> QED
      BY <2>1, <2>3, <2>4
  <1>9. CASE ResolveCandidates("Join") = <<>>
    <2>1. Fail("no implementation rule")
      BY <1>9 DEF Associate
    <2> QED
      BY <1>8, <2>1, FailStep
  <1>10. CASE ResolveCandidates("Join") # <<>>
    <2>1. calls' = SetTop(c) /\ UNCHANGED <<logical, context, memo, payloads, index,
                                            groupOf, outcome>>
      BY <1>10 DEF Associate, c
    <2> QED
      BY <1>1, <1>5, <1>6, <1>7, <1>8, <2>1, StageStep
  <1> QED
    BY <1>9, <1>10

LEMMA NewCallType ==
  ASSUME LogicalPlan(logical), NEW n \in DOMAIN logical, NEW ps
  PROVE  NewCall(n) \in Activations /\ CallOK(NewCall(n), ps) /\ DOMAIN NewCall(n).built = {}
  <1> DEFINE c == NewCall(n)
  <1>1. /\ c.node = n /\ c.stage = "enter" /\ c.inputs = <<>> /\ c.region = NoRegion
        /\ c.viable = {} /\ c.built = <<>>
    BY DEF NewCall
  <1>2. DOMAIN c.built = {} /\ Len(c.inputs) = 0 /\ c.inputs \in Seq(1..Len(ps))
    BY <1>1
  <1>3. n \in Nat
    BY NodeType
  <1>4. c \in Activations
    <2>1. c.built \in [{} -> Nat] /\ {} \in SUBSET (Nat \X Nat)
      BY <1>1
    <2>2. c.built \in RangeGroups
      BY <2>1 DEF RangeGroups
    <2>3. c.viable \in SUBSET (Nat \X Nat) /\ c.inputs \in Seq(Nat) /\ c.stage \in Stages
      BY <1>1 DEF Stages
    <2>4. c = [node |-> c.node, stage |-> c.stage, inputs |-> c.inputs, region |-> c.region,
               viable |-> c.viable, built |-> c.built]
      BY DEF NewCall
    <2> HIDE DEF c
    <2> QED
      BY <1>1, <1>3, <2>2, <2>3, <2>4 DEF Activations
  <1> HIDE DEF c
  <1>5. RegionOK(c) /\ InputsOK(c) /\ LeavesOK(c, ps)
    BY <1>1, <1>2 DEF RegionOK, InputsOK, LeavesOK
  <1>6. BuiltOK(c, ps)
    BY <1>1, <1>2 DEF BuiltOK
  <1>7. CallOK(c, ps)
    BY <1>1, <1>2, <1>5, <1>6 DEF CallOK, Stages
  <1> QED
    BY <1>2, <1>4, <1>7 DEF c

(* The node that is explored next.                                         *)
LEMMA AwaitedType ==
  ASSUME LogicalPlan(logical), NEW c, NEW ps, CallOK(c, ps), Awaits(c)
  PROVE  /\ Awaited(c)[Len(c.inputs) + 1] \in DOMAIN logical
         /\ c.stage = "region" => ~Reorderable(logical, Awaited(c)[Len(c.inputs) + 1])
  <1>1. Len(c.inputs) \in Nat /\ c.node \in DOMAIN logical
    BY LenProperties DEF CallOK
  <1>2. CASE c.stage = "region"
    <2>1. c.region.leaves \in Seq(RegionLeaf(logical)) /\ Len(c.region.leaves) \in Nat
      BY <1>1, <1>2, RegionFacts DEF CallOK
    <2>2. Awaited(c) = c.region.leaves /\ Len(c.inputs) < Len(c.region.leaves)
      BY <1>2 DEF Awaits, Awaited
    <2>3. c.region.leaves[Len(c.inputs) + 1] \in RegionLeaf(logical)
      BY <1>1, <2>1, <2>2, LenProperties
    <2> QED
      BY <2>2, <2>3 DEF RegionLeaf
  <1>3. CASE c.stage = "node"
    <2>1. Awaited(c) = logical[c.node].kids /\ Len(c.inputs) < Len(logical[c.node].kids)
      BY <1>3 DEF Awaits, Awaited, NodeOf
    <2>2. /\ logical[c.node].kids \in Seq(Nat)
          /\ \A k \in DOMAIN logical[c.node].kids : logical[c.node].kids[k] \in DOMAIN logical
      BY <1>1, NodeType DEF LogicalNodes
    <2>3. Len(c.inputs) + 1 \in DOMAIN logical[c.node].kids
      BY <1>1, <2>1, <2>2, LenProperties
    <2> QED
      BY <1>3, <2>1, <2>2, <2>3
  <1> QED
    BY <1>2, <1>3 DEF Awaits

LEMMA ExploreInputKeeps == IInv /\ ExploreInput => IInv'
  <1> SUFFICES ASSUME IInv, ExploreInput PROVE IInv'
    OBVIOUS
  <1> DEFINE n == Len(calls)
             k == Awaited(Top)[Len(Top.inputs) + 1]
             c == NewCall(k)
  <1>1. Exploring /\ Awaits(Top) /\ calls' = Append(calls, c)
        /\ UNCHANGED <<logical, context, memo, payloads, index, counters, groupOf, outcome>>
    BY DEF ExploreInput
  <1>2. /\ n \in Nat \ {0} /\ DOMAIN calls = 1..n /\ Top = calls[n] /\ calls \in Seq(Activations)
        /\ CallOK(Top, payloads) /\ LogicalPlan(logical)
    BY <1>1, TopFacts
  <1>3. k \in DOMAIN logical
    BY <1>1, <1>2, AwaitedType
  <1>4. c \in Activations /\ CallOK(c, payloads) /\ DOMAIN c.built = {} /\ c.node = k
    <2> HIDE DEF k
    <2> QED
      BY <1>2, <1>3, NewCallType DEF NewCall
  <1> HIDE DEF c
  <1>5. /\ calls' \in Seq(Activations) /\ Len(calls') = n + 1 /\ calls'[n + 1] = c
        /\ \A i \in 1..n : calls'[i] = calls[i]
    BY <1>1, <1>2, <1>4, AppendProperties
  <1>6. \A i \in 1..Len(calls') : CallOK(calls[i], payloads)'
    <2>1. \A i \in 1..n : CallOK(calls[i], payloads)
      BY DEF IInv, StackOK
    <2>2. \A i \in 1..(n + 1) : i \in 1..n \/ i = n + 1
      BY <1>2
    <2> HIDE DEF n, k
    <2>3. \A i \in 1..(n + 1) : CallOK(calls'[i], payloads')
      BY <1>1, <1>4, <1>5, <2>1, <2>2
    <2> QED
      BY <1>1, <1>5, <2>3, CallStays
  <1>7. calls' # <<>> /\ calls # <<>>
    BY <1>2, <1>5, EmptySeq
  <1>8. calls'[1].node = RootNode'
    <2>1. 1 \in 1..n
      BY <1>2
    <2> QED
      BY <1>1, <1>5, <1>7, <2>1 DEF IInv, StackOK, RootNode
  <1>9. \A i \in 1..(Len(calls') - 1) :
          /\ Awaits(calls[i])'
          /\ calls'[i + 1].node = Awaited(calls[i])'[Len(calls'[i].inputs) + 1]
    <2> TAKE i \in 1..(Len(calls') - 1)
    <2>1. i \in 1..n
      BY <1>2, <1>5
    <2>2. calls'[i] = calls[i]
      BY <1>5, <2>1
    <2>3. Awaits(calls[i]) /\ calls'[i + 1].node = Awaited(calls[i])[Len(calls[i].inputs) + 1]
      <3>1. CASE i = n
        BY <1>1, <1>2, <1>4, <1>5, <3>1
      <3>2. CASE i # n
        <4>1. i \in 1..(n - 1) /\ i + 1 \in 1..n
          <5>1. \A x \in Nat \ {0} : \A y \in 1..x : y # x => y \in 1..(x - 1) /\ y + 1 \in 1..x
            OBVIOUS
          <5> HIDE DEF n
          <5> QED
            BY <1>2, <2>1, <3>2, <5>1
        <4>2. Awaits(calls[i]) /\ calls[i + 1].node = Awaited(calls[i])[Len(calls[i].inputs) + 1]
          BY <4>1 DEF IInv, StackOK
        <4> HIDE DEF n
        <4> QED
          BY <1>5, <4>1, <4>2
      <3> QED
        BY <3>1, <3>2
    <2> QED
      BY <1>1, <2>2, <2>3 DEF Awaits, Awaited, NodeOf
  <1>10. StackOK'
    <2>1. Activations' = Activations
      BY <1>1 DEF Activations
    <2> QED
      BY <1>1, <1>5, <1>6, <1>7, <1>8, <1>9, <2>1 DEF StackOK, Exploring
  <1>11. NewestOK'
    <2>1. memo # <<>> => \E i \in 1..n : Holds(calls[i], Len(memo))
      BY <1>1 DEF IInv, NewestOK
    <2>2. \A i \in 1..n : Holds(calls[i], Len(memo)) => Holds(calls'[i], Len(memo))
      BY <1>5
    <2>3. \A i \in 1..n : i \in 1..(n + 1)
      BY <1>2
    <2>4. memo' # <<>> => \E i \in 1..Len(calls') : Holds(calls'[i], Len(memo'))
      BY <1>1, <1>5, <2>1, <2>2, <2>3
    <2>5. Top' = c
      BY <1>5 DEF Top
    <2>6. outcome' # "explored"
      BY <1>1 DEF Exploring
    <2> QED
      BY <1>4, <2>4, <2>5, <2>6 DEF NewestOK, Holds
  <1>12. PlanOK' /\ MemoOK' /\ IndexOK' /\ SplitsAgree' /\ CountersOK'
    BY <1>1 DEF IInv, PlanOK, MemoOK, IndexOK, SplitsAgree, CountersOK, ColumnsKept
  <1> QED
    BY <1>10, <1>11, <1>12 DEF IInv

LEMMA RefuseKeeps == IInv /\ Refuse => IInv'
  <1> SUFFICES ASSUME IInv, Refuse PROVE IInv'
    OBVIOUS
  <1>1. \E reason \in {"unsupported in lowering", "no copy fresh enough for this query",
                       "no applicable physical operator"} : Fail(reason)
    BY DEF Refuse
  <1>2. counters' \in [candidates : Nat, shared : Nat, joins : Nat, regions : Nat]
    BY DEF Refuse, IInv, CountersOK
  <1> QED
    BY <1>1, <1>2, FailStep
-----------------------------------------------------------------------------
(* Adding a group, and returning one.                                      *)

LEMMA UpToNext ==
  ASSUME NEW n \in Nat
  PROVE  /\ \A g \in 1..(n + 1) : g \in 1..n \/ g = n + 1
         /\ \A g \in 1..n : g \in 1..(n + 1)
         /\ \A g \in 1..(n + 1) : \A k \in 1..(g - 1) : k \in 1..n
         /\ n + 1 \in 1..(n + 1)
  OBVIOUS

LEMMA Appended ==
  ASSUME NEW S, NEW s \in Seq(S), NEW e \in S, NEW t, t = Append(s, e), NEW n, Len(s) = n
  PROVE  /\ t \in Seq(S) /\ n \in Nat /\ Len(t) = n + 1 /\ t[n + 1] = e
         /\ \A g \in 1..n : t[g] = s[g]
  BY AppendProperties, LenProperties

LEMMA PairIn ==
  ASSUME NEW S, NEW s \in Seq(S), Len(s) = 2
  PROVE  s[1] \in S /\ s[2] \in S
  <1>1. 1 \in 1..Len(s) /\ 2 \in 1..Len(s)
    OBVIOUS
  <1>2. \A k \in 1..Len(s) : s[k] \in S
    BY ElementOfSeq
  <1> QED
    BY <1>1, <1>2, Zenon

(* Each of a choice of associations yields the group's columns.            *)
Joined(inputs, ps) == ps[inputs[1]].output \o ps[inputs[2]].output

InOrder(p, ps) ==
  Len(p.associations) > 1 =>
    \A i \in DOMAIN p.associations :
      /\ Len(p.associations[i].inputs) = 2
      /\ Joined(p.associations[i].inputs, ps) = p.output

LEMMA AddGroup ==
  ASSUME MemoOK, SplitsAgree,
         NEW group \in Groups, group.exprs \in Seq(ReadsBelow(Len(memo) + 1)),
         NEW p \in Payloads, p.associations \in Seq(JoinsBelow(Len(memo) + 1)),
         InOrder(p, payloads),
         memo' = Append(memo, group), payloads' = Append(payloads, p)
  PROVE  /\ MemoOK' /\ SplitsAgree'
         /\ Len(memo') = Len(memo) + 1 /\ Len(memo) \in Nat
         /\ Len(payloads') = Len(memo) + 1 /\ Len(payloads) = Len(memo)
         /\ \A g \in 1..Len(memo) : payloads'[g] = payloads[g]
         /\ payloads'[Len(memo) + 1] = p
  <1> DEFINE n == Len(memo)
  <1>1. n \in Nat /\ memo \in Seq(Groups) /\ payloads \in Seq(Payloads) /\ Len(payloads) = n
    BY LenProperties DEF MemoOK
  <1>2. n = Len(memo)
    OBVIOUS
  <1> HIDE DEF n
  <1>3. /\ memo' \in Seq(Groups) /\ Len(memo') = n + 1 /\ memo'[n + 1] = group
        /\ \A g \in 1..n : memo'[g] = memo[g]
    BY <1>1, <1>2, Appended
  <1>4. /\ payloads' \in Seq(Payloads) /\ Len(payloads') = n + 1 /\ payloads'[n + 1] = p
        /\ \A g \in 1..n : payloads'[g] = payloads[g]
    BY <1>1, Appended
  <1>5. \A g \in 1..(n + 1) : g \in 1..n \/ g = n + 1
    BY <1>1, UpToNext
  <1>6. \A g \in 1..n : /\ memo[g].exprs \in Seq(ReadsBelow(g))
                        /\ payloads[g].associations \in Seq(JoinsBelow(g))
                        /\ Len(payloads[g].associations) > 1 =>
                             \A i \in DOMAIN payloads[g].associations :
                               Len(payloads[g].associations[i].inputs) = 2
    BY DEF MemoOK, n
  <1>7. \A g \in 1..(n + 1) : /\ memo'[g].exprs \in Seq(ReadsBelow(g))
                              /\ payloads'[g].associations \in Seq(JoinsBelow(g))
    <2>1. /\ memo'[n + 1].exprs \in Seq(ReadsBelow(n + 1))
          /\ payloads'[n + 1].associations \in Seq(JoinsBelow(n + 1))
      BY <1>3, <1>4, <1>2
    <2> QED
      BY <1>3, <1>4, <1>5, <1>6, <2>1
  <1>8. \A g \in 1..(n + 1) : Len(payloads'[g].associations) > 1 =>
          \A i \in DOMAIN payloads'[g].associations :
            Len(payloads'[g].associations[i].inputs) = 2
    <2>1. Len(p.associations) > 1 =>
            \A i \in DOMAIN p.associations : Len(p.associations[i].inputs) = 2
      BY DEF InOrder
    <2> QED
      BY <1>4, <1>5, <1>6, <2>1
  <1>9. MemoOK'
    BY <1>3, <1>4, <1>7, <1>8 DEF MemoOK
  <1>10. SplitsAgree'
    <2> SUFFICES ASSUME NEW g \in 1..(n + 1), Len(payloads'[g].associations) > 1,
                        NEW i \in DOMAIN payloads'[g].associations
                 PROVE  payloads'[payloads'[g].associations[i].inputs[1]].output
                          \o payloads'[payloads'[g].associations[i].inputs[2]].output
                          = payloads'[g].output
      <3>1. DOMAIN payloads' = 1..(n + 1)
        BY <1>4, LenProperties
      <3> QED
        BY <3>1 DEF SplitsAgree
    <2> DEFINE inputs == payloads'[g].associations[i].inputs
    <2>1. inputs \in Seq(1..(g - 1)) /\ Len(inputs) = 2
      <3>1. payloads'[g].associations \in Seq(JoinsBelow(g))
        BY <1>7
      <3>2. payloads'[g].associations[i] \in JoinsBelow(g)
        BY <3>1, LenProperties
      <3> QED
        BY <1>8, <3>2 DEF JoinsBelow
    <2>2. inputs[1] \in 1..(g - 1) /\ inputs[2] \in 1..(g - 1)
      <3> HIDE DEF inputs
      <3> QED
        BY <2>1, PairIn
    <2>3. inputs[1] \in 1..n /\ inputs[2] \in 1..n
      <3> HIDE DEF inputs
      <3> QED
        BY <1>1, <2>2, UpToNext
    <2>4. /\ payloads'[inputs[1]] = payloads[inputs[1]]
          /\ payloads'[inputs[2]] = payloads[inputs[2]]
      BY <1>4, <2>3
    <2>5. payloads[inputs[1]].output \o payloads[inputs[2]].output = payloads'[g].output
      <3>1. CASE g \in 1..n
        <4>1. payloads'[g] = payloads[g] /\ g \in DOMAIN payloads
          BY <1>1, <1>4, <3>1, LenProperties
        <4> QED
          BY <4>1 DEF SplitsAgree
      <3>2. CASE g = n + 1
        BY <1>4, <3>2 DEF InOrder, Joined
      <3> QED
        BY <1>5, <3>1, <3>2
    <2> HIDE DEF inputs
    <2>6. payloads'[inputs[1]].output \o payloads'[inputs[2]].output = payloads'[g].output
      BY <2>4, <2>5
    <2> QED
      BY <2>6 DEF inputs
  <1> QED
    BY <1>1, <1>3, <1>4, <1>9, <1>10 DEF n

LEMMA ReturnStep ==
  ASSUME IInv, Exploring, NEW g, g \in 1..Len(memo'), Return(g),
         logical' = logical, context' = context,
         MemoOK', IndexOK', SplitsAgree',
         Len(memo) <= Len(memo'), \A h \in 1..Len(memo) : payloads'[h] = payloads[h],
         payloads'[g].output = logical[Top.node].output,
         \/ g = Len(memo')
         \/ Len(calls) # 1 /\ memo' = memo /\ memo # <<>> /\ ~Holds(Top, Len(memo)),
         counters' \in [candidates : Nat, shared : Nat, joins : Nat, regions : Nat]
  PROVE  IInv'
  <1> DEFINE n == Len(calls)
             m == n - 1
             parent == calls[m]
             c == [parent EXCEPT !.inputs = Append(@, g)]
  <1>1. /\ n \in Nat \ {0} /\ DOMAIN calls = 1..n /\ Top = calls[n] /\ calls \in Seq(Activations)
        /\ CallOK(Top, payloads) /\ LogicalPlan(logical) /\ Top.node \in DOMAIN logical
        /\ Len(payloads) = Len(memo) /\ Len(memo) \in Nat
    BY TopFacts
  <1>2. Len(memo') \in Nat /\ Len(payloads') = Len(memo') /\ memo' # <<>>
    <2>1. memo' \in Seq(Groups') /\ payloads' \in Seq(Payloads') /\ Len(payloads') = Len(memo')
      BY DEF MemoOK
    <2>2. Len(memo') \in Nat
      BY <2>1, LenProperties
    <2> QED
      BY <2>1, <2>2, EmptySeq
  <1>3. groupOf' = [groupOf EXCEPT ![Top.node] = g]
    BY DEF Return
  <1>4. CountersOK'
    <2>1. groupOf \in [DOMAIN logical -> 0..Len(memo)]
      BY DEF IInv, CountersOK
    <2>2. 0..Len(memo) \subseteq 0..Len(memo') /\ g \in 0..Len(memo')
      BY <1>1, <1>2
    <2>3. groupOf' \in [DOMAIN logical -> 0..Len(memo')]
      BY <1>3, <2>1, <2>2
    <2>4. ColumnsKept'
      <3> SUFFICES ASSUME NEW k \in DOMAIN groupOf', groupOf'[k] # 0
                   PROVE  payloads'[groupOf'[k]].output = logical[k].output
        BY DEF ColumnsKept
      <3>1. k \in DOMAIN groupOf
        BY <1>3
      <3>2. CASE k = Top.node
        BY <1>3, <3>1, <3>2
      <3>3. CASE k # Top.node
        <4>1. groupOf'[k] = groupOf[k] /\ groupOf[k] \in 1..Len(memo)
          BY <1>1, <1>3, <2>1, <3>1, <3>3
        <4> QED
          BY <3>1, <4>1 DEF IInv, CountersOK, ColumnsKept
      <3> QED
        BY <3>2, <3>3
    <2> QED
      BY <2>3, <2>4 DEF CountersOK
  <1>5. PlanOK'
    BY DEF IInv, PlanOK
  <1>6. CASE n = 1
    <2>1. calls' = <<>> /\ outcome' = "explored"
      BY <1>6 DEF Return
    <2>2. Top.node = RootNode
      BY <1>1, <1>6, EmptySeq DEF IInv, StackOK
    <2>3. StackOK'
      BY <2>1 DEF StackOK
    <2>4. groupOf'[RootNode'] = Len(memo')
      <3>1. RootNode' = Top.node /\ g = Len(memo')
        BY <1>6, <2>2 DEF RootNode
      <3>2. groupOf \in [DOMAIN logical -> 0..Len(memo)]
        BY DEF IInv, CountersOK
      <3> QED
        BY <1>1, <1>3, <3>1, <3>2
    <2>5. NewestOK'
      BY <1>2, <2>1, <2>4 DEF NewestOK, Exploring
    <2> QED
      BY <1>4, <1>5, <2>3, <2>5 DEF IInv
  <1>7. CASE n # 1
    <2>1. /\ calls' = [SubSeq(calls, 1, m) EXCEPT ![m].inputs = Append(@, g)]
          /\ outcome' = "exploring"
      BY <1>7 DEF Return, Exploring
    <2>2. m \in 1..n /\ m \in 1..m /\ m \in Nat /\ n = m + 1
      BY <1>1, <1>7
    <2>3. parent \in Activations /\ CallOK(parent, payloads)
      <3> HIDE DEF m
      <3> QED
        BY <1>1, <2>2 DEF IInv, StackOK
    <2>4. /\ Awaits(parent)
          /\ Top.node = Awaited(parent)[Len(parent.inputs) + 1]
      <3>1. m \in 1..(Len(calls) - 1)
        BY <1>1, <1>7
      <3> HIDE DEF m, n
      <3> QED
        BY <1>1, <2>2, <3>1 DEF IInv, StackOK
    <2>5. /\ c.node = parent.node /\ c.stage = parent.stage /\ c.region = parent.region
          /\ c.viable = parent.viable /\ c.built = parent.built
          /\ c.inputs = Append(parent.inputs, g)
      <3> HIDE DEF parent
      <3> QED
        BY <2>3 DEF Activations
    <2>6. CallOK(parent, payloads')
      <3> HIDE DEF parent
      <3> QED
        BY <1>1, <1>2, <2>3, CallGrows
    <2> DEFINE size == Len(parent.inputs)
    <2>7. /\ parent.inputs \in Seq(1..Len(memo')) /\ size \in Nat
          /\ c.inputs \in Seq(1..Len(memo')) /\ Len(c.inputs) = size + 1
          /\ c.inputs[size + 1] = g /\ \A k \in 1..size : c.inputs[k] = parent.inputs[k]
      <3>1. parent.inputs \in Seq(1..Len(memo'))
        BY <1>2, <2>6 DEF CallOK
      <3> HIDE DEF parent, c
      <3> QED
        BY <2>5, <3>1, LenProperties, AppendProperties
    <2>8. c \in Activations
      <3>1. parent.inputs \in Seq(Nat) /\ g \in Nat
        BY <1>2, <2>3 DEF Activations
      <3>2. Append(parent.inputs, g) \in Seq(Nat)
        BY <3>1, AppendProperties
      <3> HIDE DEF parent
      <3> QED
        BY <2>3, <3>2 DEF Activations
    <2>9. /\ calls' \in Seq(Activations) /\ Len(calls') = m /\ calls'[m] = c
          /\ \A i \in 1..m : i # m => calls'[i] = calls[i]
      <3> DEFINE rest == SubSeq(calls, 1, m)
      <3>1. rest \in Seq(Activations) /\ Len(rest) = m /\ \A i \in 1..m : rest[i] = calls[i]
        BY <1>1, <2>2, SubSeqProperties
      <3>2. calls' = [rest EXCEPT ![m] = c]
        <4>1. rest[m] = parent
          BY <2>2, <3>1
        <4>2. calls' = [rest EXCEPT ![m] = [rest[m] EXCEPT !.inputs = Append(@, g)]]
          BY <2>1
        <4> HIDE DEF rest, m, parent
        <4> QED
          BY <4>1, <4>2 DEF c
      <3> HIDE DEF rest, c, m
      <3>3. [rest EXCEPT ![m] = c] \in Seq(Activations) /\ Len([rest EXCEPT ![m] = c]) = Len(rest)
        BY <2>2, <2>8, <3>1, ExceptSeq
      <3>4. DOMAIN rest = 1..m
        BY <3>1, LenProperties
      <3> QED
        BY <2>2, <3>1, <3>2, <3>3, <3>4
    <2> HIDE DEF c
    <2>10. CallOK(c, payloads')
      <3>1. parent.stage \in {"region", "node"} /\ size < Len(Awaited(parent))
        BY <2>4 DEF Awaits
      <3>2. RegionOK(c)
        BY <2>3, <2>5 DEF CallOK, RegionOK, MayCollect
      <3>3. InputsOK(c)
        <4>1. parent.stage = "node" => Awaited(parent) = NodeOf(c).kids
          BY <2>5 DEF Awaited, NodeOf
        <4>2. parent.stage = "region" => Awaited(parent) = c.region.leaves
          BY <2>5 DEF Awaited
        <4>3. Len(Awaited(parent)) \in Nat
          <5>1. parent.stage = "node" => NodeOf(parent).kids \in Seq(Nat)
            BY <1>1, <2>3, NodeType DEF NodeOf, LogicalNodes, CallOK
          <5>2. parent.stage = "region" => Len(parent.region.leaves) \in Nat
            BY <1>1, <2>3, RegionFacts DEF CallOK
          <5> QED
            BY <3>1, <5>1, <5>2, LenProperties DEF Awaited
        <4> HIDE DEF parent, size
        <4>4. Len(c.inputs) <= Len(Awaited(parent))
          BY <2>7, <3>1, <4>3
        <4> QED
          BY <2>5, <3>1, <4>1, <4>2, <4>4 DEF InputsOK
      <3>4. LeavesOK(c, payloads')
        <4> SUFFICES ASSUME parent.stage = "region" PROVE LeavesOK(c, payloads')
          BY <2>5, <3>1 DEF LeavesOK
        <4>1. /\ parent.viable = ViableRanges(parent.region)
              /\ Covered(parent.region, parent.viable)
              /\ \A k \in 1..size :
                   payloads'[parent.inputs[k]].output = logical[parent.region.leaves[k]].output
          BY <2>6 DEF CallOK, LeavesOK
        <4>2. payloads'[g].output = logical[parent.region.leaves[size + 1]].output
          <5>1. Top.node = parent.region.leaves[size + 1]
            BY <2>4 DEF Awaited
          <5>2. ~Reorderable(logical, Top.node)
            <6> HIDE DEF parent
            <6> QED
              BY <1>1, <2>3, <2>4, AwaitedType
          <5> QED
            BY <5>1, <5>2
        <4>3. \A k \in 1..(size + 1) : k \in 1..size \/ k = size + 1
          <5> HIDE DEF size
          <5> QED
            BY <2>7, UpToNext
        <4> HIDE DEF parent, size
        <4>4. \A k \in 1..(size + 1) :
                payloads'[c.inputs[k]].output = logical[c.region.leaves[k]].output
          BY <2>5, <2>7, <4>1, <4>2, <4>3
        <4> QED
          BY <2>5, <2>7, <4>1, <4>4 DEF LeavesOK
      <3>5. BuiltOK(c, payloads')
        BY <2>5, <2>6 DEF CallOK, BuiltOK
      <3> QED
        BY <1>2, <2>3, <2>5, <2>7, <3>2, <3>3, <3>4, <3>5 DEF CallOK
    <2>11. \A i \in 1..Len(calls') : CallOK(calls[i], payloads)'
      <3>1. ASSUME NEW i \in 1..m, i # m PROVE CallOK(calls[i], payloads')
        <4>1. i \in 1..n
          <5> HIDE DEF n, m
          <5> QED
            BY <2>2, UpToNext
        <4>2. CallOK(calls[i], payloads)
          BY <4>1 DEF IInv, StackOK
        <4> QED
          BY <1>1, <1>2, <4>2, CallGrows
      <3> HIDE DEF m
      <3>2. \A i \in 1..m : CallOK(calls'[i], payloads')
        BY <2>9, <2>10, <3>1
      <3> QED
        BY <2>9, <3>2, CallStays
    <2>12. calls' # <<>> /\ calls # <<>>
      <3>1. Len(calls') # 0
        <4> HIDE DEF m
        <4> QED
          BY <2>2, <2>9
      <3>2. calls # <<>>
        BY DEF IInv, StackOK, Exploring
      <3> QED
        BY <3>1, <3>2, EmptySeq
    <2>13. \A i \in 1..m : calls'[i].node = calls[i].node
      <3> HIDE DEF m
      <3> QED
        BY <2>5, <2>9 DEF parent
    <2>14. calls'[1].node = RootNode'
      <3>1. 1 \in 1..m
        BY <2>2
      <3> QED
        BY <2>12, <2>13, <3>1 DEF IInv, StackOK, RootNode
    <2>15. \A i \in 1..(Len(calls') - 1) :
             /\ Awaits(calls[i])'
             /\ calls'[i + 1].node = Awaited(calls[i])'[Len(calls'[i].inputs) + 1]
      <3> TAKE i \in 1..(Len(calls') - 1)
      <3>1. i \in 1..m /\ i # m /\ i + 1 \in 1..m /\ i \in 1..(n - 1)
        <4>1. i \in 1..(m - 1)
          BY <2>9
        <4>2. \A x \in Nat : \A y \in 1..(x - 1) : y \in 1..x /\ y # x /\ y + 1 \in 1..x
          OBVIOUS
        <4> HIDE DEF n, m
        <4>3. i \in 1..m /\ i # m /\ i + 1 \in 1..m
          BY <2>2, <4>1, <4>2
        <4> QED
          BY <4>3 DEF m
      <3>2. calls'[i] = calls[i] /\ calls'[i + 1].node = calls[i + 1].node
        <4> HIDE DEF m
        <4> QED
          BY <2>9, <2>13, <3>1
      <3>3. Awaits(calls[i]) /\ calls[i + 1].node = Awaited(calls[i])[Len(calls[i].inputs) + 1]
        BY <3>1 DEF IInv, StackOK
      <3> QED
        BY <3>2, <3>3 DEF Awaits, Awaited, NodeOf
    <2>16. StackOK'
      <3>1. Activations' = Activations
        BY DEF Activations
      <3> QED
        BY <2>1, <2>9, <2>11, <2>12, <2>14, <2>15, <3>1 DEF StackOK
    <2>17. NewestOK'
      <3>1. \E i \in 1..m : Holds(calls'[i], Len(memo'))
        <4>1. CASE g = Len(memo')
          <5>1. Holds(c, g)
            <6>1. size + 1 \in 1..Len(c.inputs)
              BY <2>7
            <6> QED
              BY <2>7, <6>1 DEF Holds
          <5> HIDE DEF m
          <5> QED
            BY <2>2, <2>9, <4>1, <5>1
        <4>2. CASE g # Len(memo')
          <5>1. memo' = memo /\ memo # <<>> /\ ~Holds(Top, Len(memo))
            BY <4>2
          <5>2. PICK i \in 1..n : Holds(calls[i], Len(memo))
            BY <5>1 DEF IInv, NewestOK
          <5>3. i # n /\ i \in 1..m
            <6>1. i # n
              BY <1>1, <5>1, <5>2
            <6> HIDE DEF m, n
            <6> QED
              BY <2>2, <5>2, <6>1
          <5>4. i # m => calls'[i] = calls[i]
            BY <2>9, <5>3
          <5>5. i = m => Holds(c, Len(memo))
            <6> SUFFICES ASSUME i = m PROVE Holds(c, Len(memo))
              OBVIOUS
            <6>1. Holds(parent, Len(memo))
              BY <5>2
            <6>2. \A k \in 1..size : k \in 1..(size + 1)
              BY <2>7
            <6> HIDE DEF parent, size
            <6> QED
              BY <2>5, <2>7, <6>1, <6>2 DEF Holds, size
          <5> HIDE DEF m, n
          <5> QED
            BY <2>9, <5>1, <5>2, <5>3, <5>4, <5>5
        <4> QED
          BY <4>1, <4>2
      <3>2. Top' = c
        BY <2>9 DEF Top
      <3>3. DOMAIN c.built = {}
        BY <2>3, <2>4, <2>5 DEF Awaits, CallOK, BuiltOK
      <3> QED
        BY <2>1, <2>9, <3>1, <3>2, <3>3 DEF NewestOK, Holds
    <2> QED
      BY <1>4, <1>5, <2>16, <2>17 DEF IInv
  <1> QED
    BY <1>6, <1>7
-----------------------------------------------------------------------------
(* The group of a node.                                                    *)

LEMMA SplitJoinPredicateIn ==
  ASSUME NEW cs \in Seq(Conjuncts), NEW leftWidth \in Nat
  PROVE  SplitJoinPredicate(cs, leftWidth) \in Predicates
  <1> DEFINE s == SplitJoinPredicate(cs, leftWidth)
  <1>1. s = [keys |-> s.keys, residual |-> s.residual]
    BY DEF SplitJoinPredicate
  <1>2. s.keys \in Seq(JoinKeys) /\ s.residual \in Seq(Conjuncts)
    BY SplitJoinPredicateType
  <1> HIDE DEF s
  <1>3. s \in Predicates
    BY <1>1, <1>2 DEF Predicates
  <1> QED
    BY <1>3 DEF s

(* Candidates over groups of the memo may be those of the next one.        *)
LEMMA CandidatesBelow ==
  ASSUME NEW m \in Nat, NEW inputs \in Seq(1..m)
  PROVE  Seq(CandidatesOn(inputs)) \subseteq Seq(ReadsBelow(m + 1))
  <1>1. (m + 1) - 1 = m
    OBVIOUS
  <1>2. CandidatesOn(inputs) \subseteq ReadsBelow(m + 1)
    BY <1>1 DEF CandidatesOn, ReadsBelow
  <1> DEFINE A == CandidatesOn(inputs)
             B == ReadsBelow(m + 1)
  <1> HIDE DEF A, B
  <1>3. Seq(A) \subseteq Seq(B)
    BY <1>2 DEF A, B
  <1> QED
    BY <1>3 DEF A, B

LEMMA ExploredFacts ==
  ASSUME IInv, Explored
  PROVE  /\ Top.inputs \in Seq(1..Len(memo)) /\ Len(Top.inputs) \in Nat
         /\ NodeOf(Top) \in LogicalNodes /\ NodeOf(Top) = logical[Top.node]
         /\ Len(Top.inputs) = Len(NodeOf(Top).kids)
         /\ NodePredicate(Top) \in Predicates
         /\ \A g : Holds(Top, g) =>
              g \in 1..Len(memo) /\ \E k \in 1..Len(Top.inputs) : Top.inputs[k] = g
  <1>1. Exploring /\ Top.stage = "node" /\ ~Awaits(Top)
    BY DEF Explored, In
  <1>2. /\ CallOK(Top, payloads) /\ LogicalPlan(logical) /\ Top.node \in DOMAIN logical
        /\ Len(payloads) = Len(memo)
    BY <1>1, TopFacts
  <1>3. Top.inputs \in Seq(1..Len(memo)) /\ Len(Top.inputs) \in Nat
    BY <1>2, LenProperties DEF CallOK
  <1>4. NodeOf(Top) \in LogicalNodes
    BY <1>2, NodeType DEF NodeOf
  <1>5. NodeOf(Top).kids \in Seq(Nat) /\ Len(NodeOf(Top).kids) \in Nat
    BY <1>4, LenProperties DEF LogicalNodes
  <1>6. Len(Top.inputs) = Len(NodeOf(Top).kids)
    <2>1. Len(Top.inputs) <= Len(NodeOf(Top).kids)
      BY <1>1, <1>2 DEF CallOK, InputsOK
    <2>2. ~(Len(Top.inputs) < Len(NodeOf(Top).kids))
      BY <1>1 DEF Awaits, Awaited
    <2> QED
      BY <1>3, <1>5, <2>1, <2>2
  <1>7. NodePredicate(Top) \in Predicates
    <2> DEFINE w == IF NodeOf(Top).kids = <<>> THEN 0 ELSE Width(logical, NodeOf(Top).kids[1])
    <2>1. NodeOf(Top).kids # <<>> => Width(logical, NodeOf(Top).kids[1]) \in Nat
      <3>1. NodeOf(Top).kids # <<>> => 1 \in DOMAIN NodeOf(Top).kids
        BY <1>5, LenProperties, EmptySeq
      <3>2. \A k \in DOMAIN NodeOf(Top).kids : NodeOf(Top).kids[k] \in DOMAIN logical
        BY <1>2, NodeType DEF NodeOf
      <3>3. \A n \in DOMAIN logical : Width(logical, n) \in Nat
        BY <1>2, NodeType
      <3> QED
        BY <3>1, <3>2, <3>3
    <2>2. w \in Nat
      BY <2>1
    <2>3. NodeOf(Top).predicate \in Seq(Conjuncts)
      BY <1>4 DEF LogicalNodes
    <2>4. NodePredicate(Top) = SplitJoinPredicate(NodeOf(Top).predicate, w)
      BY DEF NodePredicate
    <2> HIDE DEF w
    <2> QED
      BY <2>2, <2>3, <2>4, SplitJoinPredicateIn
  <1>8. \A g : Holds(Top, g) =>
          g \in 1..Len(memo) /\ \E k \in 1..Len(Top.inputs) : Top.inputs[k] = g
    <2>1. DOMAIN Top.built = {}
      BY <1>1, <1>2 DEF CallOK, BuiltOK
    <2>2. \A k \in 1..Len(Top.inputs) : Top.inputs[k] \in 1..Len(memo)
      BY <1>3, ElementOfSeq
    <2> QED
      BY <2>1, <2>2 DEF Holds
  <1> QED
    BY <1>3, <1>4, <1>6, <1>7, <1>8 DEF NodeOf

LEMMA GroupKeyType ==
  ASSUME IInv, Explored
  PROVE  /\ GroupKey(Top) \in GroupKeys
         /\ GroupKey(Top).inputs = Top.inputs /\ GroupKey(Top).output = logical[Top.node].output
  <1>1. /\ Top.inputs \in Seq(1..Len(memo)) /\ NodeOf(Top) \in LogicalNodes
        /\ NodeOf(Top) = logical[Top.node] /\ NodePredicate(Top) \in Predicates
    BY ExploredFacts
  <1>2. Len(memo) \in Nat
    BY LenProperties DEF IInv, MemoOK
  <1>3. Top.inputs \in Seq(Nat)
    BY <1>1, <1>2
  <1>4. /\ NodeOf(Top).op \in STRING /\ NodeOf(Top).text \in STRING
        /\ NodeOf(Top).payload \in Groups
        /\ NodeOf(Top).output \in Seq(ColumnIds)
    BY <1>1 DEF LogicalNodes
  <1>5. GroupKey(Top) \in GroupKeys
    BY <1>1, <1>3, <1>4 DEF GroupKey, GroupKeys
  <1> QED
    BY <1>1, <1>5 DEF GroupKey

LEMMA NodePayloadType ==
  ASSUME IInv, Explored
  PROVE  /\ NodePayload(Top) \in Payloads
         /\ NodePayload(Top).associations \in Seq(JoinsBelow(Len(memo) + 1))
         /\ Len(NodePayload(Top).associations) = 1
         /\ NodePayload(Top).output = logical[Top.node].output
  <1> DEFINE a == [inputs |-> Top.inputs, predicate |-> NodePredicate(Top)]
             All == [inputs : Seq(Nat), predicate : Predicates]
  <1>1. /\ Top.inputs \in Seq(1..Len(memo)) /\ NodeOf(Top) \in LogicalNodes
        /\ NodeOf(Top) = logical[Top.node] /\ NodePredicate(Top) \in Predicates
    BY ExploredFacts
  <1>2. Len(memo) \in Nat /\ (Len(memo) + 1) - 1 = Len(memo)
    BY LenProperties DEF IInv, MemoOK
  <1>3. a \in All /\ a \in JoinsBelow(Len(memo) + 1)
    <2>1. a.inputs \in Seq(Nat) /\ a.inputs \in Seq(1..((Len(memo) + 1) - 1))
      BY <1>1, <1>2
    <2> QED
      BY <1>1, <2>1 DEF JoinsBelow
  <1>4. NodePayload(Top) = [output |-> NodeOf(Top).output, associations |-> <<a>>]
    BY DEF NodePayload
  <1>5. NodeOf(Top).output \in Seq(ColumnIds)
    BY <1>1 DEF LogicalNodes
  <1> HIDE DEF a, All
  <1>6. <<a>> \in Seq(All) /\ <<a>> \in Seq(JoinsBelow(Len(memo) + 1)) /\ Len(<<a>>) = 1
    BY <1>3
  <1> QED
    BY <1>1, <1>4, <1>5, <1>6 DEF Payloads, All

LEMMA NodeGroupType ==
  ASSUME IInv, Explored
  PROVE  /\ NodeGroup(Top) \in Groups
         /\ NodeGroup(Top).exprs \in Seq(ReadsBelow(Len(memo) + 1))
  <1>1. /\ Top.inputs \in Seq(1..Len(memo)) /\ NodeOf(Top) \in LogicalNodes
        /\ Len(Top.inputs) = Len(NodeOf(Top).kids)
        /\ NodeOf(Top) = logical[Top.node] /\ NodePredicate(Top) \in Predicates
    BY ExploredFacts
  <1>2. Exploring
    BY DEF Explored, In
  <1>3. /\ LogicalPlan(logical) /\ RulesFit(logical, context.rules) /\ Top.node \in DOMAIN logical
        /\ Len(memo) \in Nat /\ memo \in Seq(Groups)
    BY <1>2, TopFacts DEF IInv, MemoOK
  <1> DEFINE ops == ResolveCandidates(NodeOf(Top).op)
             formats == ScanFormats(NodeOf(Top))
             keys == NodePredicate(Top).keys
             g == NodeOf(Top).payload
             rows == NodeRows(Top)
             residuals == Len(NodePredicate(Top).residual)
             list == CandidatesOf(g, ops, formats, Top.inputs, keys, residuals)
  <1>4. keys \in Seq(JoinKeys) /\ residuals \in Nat
    BY <1>1, LenProperties DEF Predicates
  <1>5. ops \in Seq(OperatorsOf(Len(Top.inputs)))
    <2>1. context.rules[logical[Top.node].op]
            \in Seq({op \in Operators : Arity(op) = Len(logical[Top.node].kids)})
      BY <1>3 DEF RulesFit
    <2> QED
      BY <1>1, <2>1 DEF OperatorsOf, ResolveCandidates
  <1>6. formats \in Seq(StoredCopies)
    <2> DEFINE stores == NodeOf(Top).stores
               Test(s) == context.freshness = "Fresh" => s.freshness = "Fresh"
               passes == [i \in DOMAIN stores |-> Test(stores[i])]
    <2>1. stores \in Seq(StoredCopies)
      BY <1>1 DEF LogicalNodes, StoredCopies
    <2>2. /\ Len(stores) \in Nat /\ DOMAIN stores = 1..Len(stores)
          /\ \A i \in 1..Len(stores) : stores[i] \in StoredCopies
      BY <2>1, LenProperties, ElementOfSeq
    <2>3. NoFormats \in Seq(StoredCopies)
      BY DEF NoFormats, StoredCopies, Formats, Freshnesses
    <2>4. Kept(stores, passes) \in Seq(StoredCopies)
      <3> HIDE DEF passes, stores
      <3> QED
        BY <2>2, KeptType
    <2>5. NodeOf(Top).op = "Scan" => formats = Kept(stores, passes)
      BY DEF ScanFormats, Passing
    <2>6. NodeOf(Top).op # "Scan" => formats = NoFormats
      BY DEF ScanFormats
    <2> HIDE DEF passes, stores, formats
    <2> QED
      BY <2>3, <2>4, <2>5, <2>6
  <1>7. Top.inputs \in Seq(Nat)
    BY <1>1, <1>3
  <1>8. NodeRows(Top) \in Nat
    <2>1. CASE NodeOf(Top).op = "Join"
      <3> DEFINE left == memo[Top.inputs[1]].rows
                 right == memo[Top.inputs[2]].rows
      <3>1. Len(Top.inputs) = 2
        <4>1. Len(logical[Top.node].kids) = 2
          BY <1>1, <1>3, <2>1 DEF LogicalPlan
        <4> QED
          BY <1>1, <4>1
      <3>2. Top.inputs[1] \in 1..Len(memo) /\ Top.inputs[2] \in 1..Len(memo)
        BY <1>1, <3>1, PairIn
      <3>3. memo[Top.inputs[1]] \in Groups /\ memo[Top.inputs[2]] \in Groups
        BY <1>3, <3>2, ElementOfSeq
      <3>4. left \in Nat /\ right \in Nat
        BY <3>3 DEF Groups
      <3>5. NodeRows(Top) = JoinRows(left, right, NodePredicate(Top))
        BY <2>1 DEF NodeRows
      <3>6. Len(NodePredicate(Top).keys) \in Nat /\ Len(NodePredicate(Top).residual) \in Nat
        BY <1>1, LenProperties DEF Predicates
      <3> HIDE DEF left, right
      <3> QED
        BY <3>4, <3>5, <3>6, JoinRowsType
    <2>2. CASE NodeOf(Top).op # "Join"
      BY <1>1, <2>2 DEF NodeRows, LogicalNodes
    <2> QED
      BY <2>1, <2>2
  <1>9. g \in Groups /\ g.exprs = <<>>
    BY <1>1 DEF LogicalNodes
  <1> HIDE DEF g, rows, ops, formats, keys, residuals
  <1>10. list \in Seq(CandidatesOn(Top.inputs))
    BY <1>4, <1>5, <1>6, <1>7, CandidatesOfType
  <1>11. list \in Seq(ReadsBelow(Len(memo) + 1))
    BY <1>1, <1>3, <1>10, CandidatesBelow
  <1>12. list \in Seq(GroupExprs)
    <2>1. Seq(ReadsBelow(Len(memo) + 1)) \subseteq Seq(GroupExprs)
      <3> DEFINE B == ReadsBelow(Len(memo) + 1)
      <3>1. B \subseteq GroupExprs
        BY DEF ReadsBelow
      <3> HIDE DEF B
      <3>2. Seq(B) \subseteq Seq(GroupExprs)
        BY <3>1
      <3> QED
        BY <3>2 DEF B
    <2> QED
      BY <1>11, <2>1
  <1>13. NodeGroup(Top) = [[g EXCEPT !.exprs = @ \o list] EXCEPT !.rows = rows]
    BY DEF NodeGroup, AddCandidates, g, rows, ops, formats, keys, residuals
  <1> HIDE DEF list
  <1>14. g.exprs \o list = list
    BY <1>9, <1>12, ConcatEmptySeq
  <1>15. NodeGroup(Top) = [[g EXCEPT !.exprs = list] EXCEPT !.rows = rows]
    BY <1>13, <1>14
  <1>16. rows \in Nat
    BY <1>8 DEF rows
  <1>17. NodeGroup(Top) \in Groups /\ NodeGroup(Top).exprs = list
    BY <1>9, <1>12, <1>15, <1>16 DEF Groups
  <1> QED
    BY <1>11, <1>17

(* A shared group is older than the newest that its node is over: so the   *)
(* newest is awaited by some other activation, and the root never shares.  *)
LEMMA ShareGroupKeeps == IInv /\ ShareGroup => IInv'
  <1> SUFFICES ASSUME IInv, ShareGroup PROVE IInv'
    OBVIOUS
  <1> DEFINE g == FindGroup(Top)
             i == Min(Equivalent(Top))
  <1>1. /\ Explored /\ Exploring /\ Equivalent(Top) # {} /\ Return(g)
        /\ counters' = [counters EXCEPT !.shared = @ + 1]
        /\ UNCHANGED <<logical, context, memo, payloads, index>>
    BY DEF ShareGroup, Explored, In, Repeated
  <1>2. /\ Top = calls[Len(calls)] /\ Len(payloads) = Len(memo) /\ Len(memo) \in Nat
        /\ Len(calls) \in Nat \ {0}
    BY <1>1, TopFacts
  <1>3. /\ index \in Seq([key : GroupKeys, group : 1..Len(memo)])
        /\ Len(index) \in Nat /\ DOMAIN index = 1..Len(index)
    BY LenProperties DEF IInv, IndexOK
  <1>4. i \in Equivalent(Top)
    <2>1. Equivalent(Top) \in SUBSET Nat
      BY <1>3 DEF Equivalent
    <2>2. \E x \in Equivalent(Top) : \A y \in Equivalent(Top) : x <= y
      BY <1>1, <2>1, LeastNatural
    <2> QED
      BY <2>2 DEF Min
  <1>5. i \in 1..Len(index) /\ index[i].key = GroupKey(Top) /\ g = index[i].group
    BY <1>3, <1>4 DEF Equivalent, FindGroup
  <1> HIDE DEF i, g
  <1>6. /\ g \in 1..Len(memo) /\ payloads[g].output = GroupKey(Top).output
        /\ GroupKey(Top).inputs \in Seq(1..(g - 1))
    <2>1. index[i] \in [key : GroupKeys, group : 1..Len(memo)]
      BY <1>3, <1>5, ElementOfSeq
    <2> QED
      BY <1>5, <2>1 DEF IInv, IndexOK
  <1>7. GroupKey(Top).inputs = Top.inputs /\ GroupKey(Top).output = logical[Top.node].output
    BY <1>1, GroupKeyType
  <1>8. ~Holds(Top, Len(memo))
    <2>1. \A k \in 1..Len(Top.inputs) : Top.inputs[k] \in 1..(g - 1)
      BY <1>6, <1>7, ElementOfSeq
    <2>2. Len(memo) \notin 1..(g - 1)
      BY <1>2, <1>6
    <2> QED
      BY <1>1, <2>1, <2>2, ExploredFacts
  <1>9. memo # <<>>
    BY <1>2, <1>6, EmptySeq
  <1>10. Len(calls) # 1
    <2>1. \E k \in 1..Len(calls) : Holds(calls[k], Len(memo))
      BY <1>1, <1>9 DEF IInv, NewestOK
    <2>2. ASSUME Len(calls) = 1 PROVE \A k \in 1..Len(calls) : calls[k] = Top
      BY <1>2, <2>2
    <2> QED
      BY <1>8, <2>1, <2>2
  <1>11. MemoOK' /\ IndexOK' /\ SplitsAgree'
    BY <1>1 DEF IInv, MemoOK, IndexOK, SplitsAgree
  <1>12. counters' \in [candidates : Nat, shared : Nat, joins : Nat, regions : Nat]
    BY <1>1 DEF IInv, CountersOK
  <1>13. payloads'[g].output = logical[Top.node].output
    BY <1>1, <1>6, <1>7
  <1>14. /\ Len(memo) <= Len(memo') /\ g \in 1..Len(memo')
         /\ \A h \in 1..Len(memo) : payloads'[h] = payloads[h]
    BY <1>1, <1>2, <1>6
  <1> QED
    BY <1>1, <1>8, <1>9, <1>10, <1>11, <1>12, <1>13, <1>14, ReturnStep

(* What may be shared stays so as a group is added.                        *)
LEMMA IndexGrows ==
  ASSUME IndexOK, Len(memo) \in Nat, Len(memo') = Len(memo) + 1,
         \A h \in 1..Len(memo) : payloads'[h] = payloads[h],
         index' = index
  PROVE  IndexOK'
  <1> DEFINE Entries(m) == [key : GroupKeys, group : 1..m]
  <1>1. index \in Seq(Entries(Len(memo))) /\ Len(index) \in Nat
    BY LenProperties DEF IndexOK
  <1>2. Entries(Len(memo)) \subseteq Entries(Len(memo) + 1)
    OBVIOUS
  <1>3. \A i \in 1..Len(index) : index[i] \in Entries(Len(memo))
    <2> HIDE DEF Entries
    <2> QED
      BY <1>1, ElementOfSeq
  <1>4. \A i \in 1..Len(index) : index[i].group \in 1..Len(memo)
    BY <1>3
  <1>5. index \in Seq(Entries(Len(memo) + 1))
    <2> HIDE DEF Entries
    <2> QED
      BY <1>1, <1>2
  <1> QED
    BY <1>4, <1>5 DEF IndexOK

LEMMA BuildGroupKeeps == IInv /\ BuildGroup => IInv'
  <1> SUFFICES ASSUME IInv, BuildGroup PROVE IInv'
    OBVIOUS
  <1> DEFINE n == Len(memo)
             g == n + 1
             group == NodeGroup(Top)
             p == NodePayload(Top)
             key == GroupKey(Top)
  <1>1. /\ Explored /\ Exploring /\ memo' = Append(memo, group) /\ payloads' = Append(payloads, p)
        /\ index' = Indexed(Top, g) /\ Return(g)
        /\ counters' = [counters EXCEPT !.candidates = @ + Len(group.exprs)]
        /\ UNCHANGED <<logical, context>>
    BY DEF BuildGroup, Explored, In
  <1>2. /\ group \in Groups /\ group.exprs \in Seq(ReadsBelow(n + 1))
        /\ p \in Payloads /\ p.associations \in Seq(JoinsBelow(n + 1)) /\ Len(p.associations) = 1
        /\ p.output = logical[Top.node].output
    BY <1>1, NodeGroupType, NodePayloadType
  <1>3. /\ key \in GroupKeys /\ key.inputs = Top.inputs /\ key.output = logical[Top.node].output
        /\ Top.inputs \in Seq(1..n)
    BY <1>1, GroupKeyType, ExploredFacts
  <1> HIDE DEF group, p, key
  <1>4. InOrder(p, payloads)
    BY <1>2 DEF InOrder
  <1>5. /\ MemoOK' /\ SplitsAgree' /\ Len(memo') = n + 1 /\ n \in Nat
        /\ \A h \in 1..n : payloads'[h] = payloads[h]
        /\ payloads'[g] = p
    BY <1>1, <1>2, <1>4, AddGroup DEF IInv
  <1>6. IndexOK'
    <2>1. CASE ~Sharable(Top)
      BY <1>1, <1>5, <2>1, IndexGrows DEF Indexed, IInv
    <2>2. CASE Sharable(Top)
      <3> DEFINE Entries(m) == [key : GroupKeys, group : 1..m]
                 e == [key |-> key, group |-> g]
                 k == Len(index)
      <3>1. index' = Append(index, e)
        BY <1>1, <2>2 DEF Indexed, key
      <3>2. g \in 1..(n + 1) /\ g - 1 = n
        BY <1>5
      <3>3. index \in Seq(Entries(n)) /\ \A i \in 1..k : index[i] \in Entries(n)
        <4>1. index \in Seq(Entries(n))
          BY DEF IInv, IndexOK
        <4> HIDE DEF Entries, n
        <4> QED
          BY <4>1, ElementOfSeq
      <3>4. Entries(n) \subseteq Entries(n + 1)
        BY <1>5
      <3>5. e \in Entries(n + 1)
        BY <1>3, <3>2
      <3>6. /\ index' \in Seq(Entries(n + 1)) /\ k \in Nat
            /\ Len(index') = k + 1 /\ index'[k + 1] = e
            /\ \A i \in 1..k : index'[i] = index[i]
        <4> HIDE DEF Entries, e, n
        <4>1. index \in Seq(Entries(n + 1))
          BY <3>3, <3>4
        <4> QED
          BY <3>1, <3>5, <4>1, Appended
      <3>7. \A i \in 1..k : /\ payloads'[index'[i].group].output = index'[i].key.output
                            /\ index'[i].key.inputs \in Seq(1..(index'[i].group - 1))
        <4>1. \A i \in 1..k : index[i].group \in 1..n
          BY <3>3
        <4>2. \A i \in 1..k : /\ payloads[index[i].group].output = index[i].key.output
                              /\ index[i].key.inputs \in Seq(1..(index[i].group - 1))
          BY DEF IInv, IndexOK
        <4> HIDE DEF n, k
        <4> QED
          BY <1>5, <3>6, <4>1, <4>2
      <3>8. /\ payloads'[e.group].output = e.key.output
            /\ e.key.inputs \in Seq(1..(e.group - 1))
        BY <1>2, <1>3, <1>5, <3>2
      <3>9. \A i \in 1..(k + 1) : i \in 1..k \/ i = k + 1
        <4> HIDE DEF k
        <4> QED
          BY <3>6, UpToNext
      <3> HIDE DEF e, k, n, g
      <3> QED
        BY <1>5, <3>6, <3>7, <3>8, <3>9 DEF IndexOK
    <2> QED
      BY <2>1, <2>2
  <1>7. counters' \in [candidates : Nat, shared : Nat, joins : Nat, regions : Nat]
    <2> DEFINE size == Len(group.exprs)
    <2>1. size \in Nat
      BY <1>2, LenProperties
    <2>2. counters' = [counters EXCEPT !.candidates = @ + size]
      BY <1>1
    <2> HIDE DEF size
    <2> QED
      BY <2>1, <2>2 DEF IInv, CountersOK
  <1>8. g \in 1..Len(memo') /\ g = Len(memo') /\ Len(memo) <= Len(memo')
    BY <1>5
  <1>9. payloads'[g].output = logical[Top.node].output
    BY <1>2, <1>5
  <1>10. \A h \in 1..Len(memo) : payloads'[h] = payloads[h]
    BY <1>5
  <1>11. logical' = logical /\ context' = context
    BY <1>1
  <1> HIDE DEF g, n
  <1> QED
    BY <1>1, <1>5, <1>6, <1>7, <1>8, <1>9, <1>10, <1>11, ReturnStep
-----------------------------------------------------------------------------
(* The groups of a region.                                                 *)

(* Of some ranges there is one narrower than the others.                   *)
LEMMA Narrowest ==
  ASSUME NEW n \in Nat, NEW D \in SUBSET Ranges(n), D # {}
  PROVE  \E v \in D : \A u \in D \ {v} : Narrower(v, u)
  <1> DEFINE Wide == {v[2] - v[1] : v \in D}
  <1>1. \A v \in D : v \in (0..n) \X (0..n) /\ v[1] \in Nat /\ v[2] \in Nat /\ v[2] - v[1] \in Nat
    BY DEF Ranges
  <1>2. Wide \in SUBSET Nat /\ Wide # {}
    BY <1>1
  <1>3. PICK w \in Wide : \A x \in Wide : w <= x
    <2> HIDE DEF Wide
    <2> QED
      BY <1>2, LeastNatural
  <1> DEFINE Narrow == {v \in D : v[2] - v[1] = w}
             Firsts == {v[1] : v \in Narrow}
  <1>4. Firsts \in SUBSET Nat /\ Firsts # {}
    BY <1>1
  <1>5. PICK x \in Firsts : \A y \in Firsts : x <= y
    <2> HIDE DEF Firsts
    <2> QED
      BY <1>4, LeastNatural
  <1>6. PICK v \in Narrow : v[1] = x
    OBVIOUS
  <1>7. v \in D /\ v[2] - v[1] = w /\ v[1] = x
    BY <1>6
  <1>8. ASSUME NEW u \in D \ {v} PROVE Narrower(v, u)
    <2>1. u[2] - u[1] \in Wide
      OBVIOUS
    <2>2. w <= u[2] - u[1]
      BY <1>3, <2>1
    <2>3. CASE u[2] - u[1] = w
      <3>1. u[1] \in Firsts
        BY <2>3
      <3>2. x <= u[1]
        BY <1>5, <3>1
      <3>3. u[1] # x
        <4>1. ASSUME u[1] = x PROVE FALSE
          <5>1. u[2] = v[2]
            BY <1>1, <1>7, <2>3, <4>1
          <5>2. u = <<u[1], u[2]>> /\ v = <<v[1], v[2]>>
            BY <1>1, <1>7
          <5>3. u = v
            BY <1>7, <4>1, <5>1, <5>2
          <5> QED
            BY <5>3
        <4> QED
          BY <4>1
      <3> HIDE DEF Wide, Narrow, Firsts
      <3> QED
        BY <1>1, <1>7, <2>3, <3>2, <3>3 DEF Narrower
    <2>4. CASE u[2] - u[1] # w
      <3> HIDE DEF Wide, Narrow, Firsts
      <3>1. w < u[2] - u[1]
        BY <1>1, <1>7, <2>2, <2>4
      <3> QED
        BY <1>7, <3>1 DEF Narrower
    <2> QED
      BY <2>3, <2>4
  <1> HIDE DEF Narrow
  <1> QED
    BY <1>7, <1>8

LEMMA NarrowerOrders ==
  ASSUME NEW n \in Nat, NEW u \in Ranges(n), NEW v \in Ranges(n), Narrower(u, v)
  PROVE  u # v /\ ~Narrower(v, u)
  BY DEF Ranges, Narrower

(* The ranges of an activation that builds their groups.                   *)
LEMMA RangesFacts ==
  ASSUME IInv, In("ranges")
  PROVE  /\ Exploring /\ Top.stage = "ranges"
         /\ RegionType(logical, Top.region) /\ Reorderable(logical, Top.node)
         /\ Top.region.leaves \in Seq(DOMAIN logical)
         /\ Len(Top.inputs) = Len(Top.region.leaves)
         /\ Len(Top.inputs) \in Nat /\ Len(Top.inputs) >= 3
         /\ Top.inputs \in Seq(1..Len(memo))
         /\ Top.viable \subseteq Ranges(Len(Top.inputs))
         /\ <<0, Len(Top.inputs)>> \in Top.viable
         /\ \A k \in 1..Len(Top.inputs) :
              payloads[Top.inputs[k]].output = logical[Top.region.leaves[k]].output
         /\ BuiltOK(Top, payloads) /\ Len(payloads) = Len(memo) /\ Len(memo) \in Nat
         /\ Top.node \in DOMAIN logical /\ Top \in Activations /\ LogicalPlan(logical)
  <1>1. Exploring /\ Top.stage = "ranges"
    BY DEF In
  <1>2. /\ Top \in Activations /\ CallOK(Top, payloads) /\ Top.node \in DOMAIN logical
        /\ LogicalPlan(logical) /\ Len(payloads) = Len(memo) /\ Len(memo) \in Nat
    BY <1>1, TopFacts
  <1>3. /\ RegionOK(Top) /\ InputsOK(Top) /\ LeavesOK(Top, payloads) /\ BuiltOK(Top, payloads)
        /\ Top.inputs \in Seq(1..Len(payloads))
    BY <1>2 DEF CallOK
  <1>4. /\ RegionType(logical, Top.region) /\ Reorderable(logical, Top.node)
        /\ Top.region.leaves \in Seq(DOMAIN logical)
        /\ Len(Top.region.leaves) \in Nat /\ Len(Top.region.leaves) >= 3
        /\ ViableRanges(Top.region) \subseteq Ranges(Len(Top.region.leaves))
    BY <1>1, <1>2, <1>3, RegionFacts
  <1>5. Len(Top.inputs) = Len(Top.region.leaves)
    BY <1>1, <1>3 DEF InputsOK
  <1>6. /\ Top.viable = ViableRanges(Top.region)
        /\ <<0, Len(Top.region.leaves)>> \in Top.viable
        /\ \A k \in 1..Len(Top.inputs) :
             payloads[Top.inputs[k]].output = logical[Top.region.leaves[k]].output
    BY <1>1, <1>3 DEF LeavesOK, Covered
  <1> QED
    BY <1>1, <1>2, <1>3, <1>4, <1>5, <1>6

(* The range whose group is built next: all narrower ones have theirs.     *)
LEMMA NextRangeFacts ==
  ASSUME IInv, In("ranges"), RangesLeft
  PROVE  /\ NextRange(Top) \in Top.viable /\ NextRange(Top) \in JoinRanges(Top.viable)
         /\ NextRange(Top) \notin DOMAIN Top.built
         /\ NextRange(Top) = <<NextRange(Top)[1], NextRange(Top)[2]>>
         /\ NextRange(Top)[1] \in 0..Len(Top.inputs) /\ NextRange(Top)[2] \in 0..Len(Top.inputs)
         /\ NextRange(Top)[1] < NextRange(Top)[2]
         /\ \A u \in JoinRanges(Top.viable) :
              Narrower(u, NextRange(Top)) => u \in DOMAIN Top.built
         /\ \A u \in DOMAIN Top.built : ~Narrower(NextRange(Top), u)
  <1> DEFINE n == Len(Top.inputs)
             D == Unbuilt(Top)
  <1>1. n \in Nat /\ Top.viable \subseteq Ranges(n) /\ BuiltOK(Top, payloads)
    BY RangesFacts
  <1>2. /\ D # {} /\ D \subseteq JoinRanges(Top.viable)
        /\ JoinRanges(Top.viable) \subseteq Top.viable
    BY DEF RangesLeft, Unbuilt, JoinRanges
  <1>3. \E v \in D : \A u \in D \ {v} : Narrower(v, u)
    <2> HIDE DEF D, n
    <2> QED
      BY <1>1, <1>2, Narrowest
  <1>4. NextRange(Top) \in D /\ \A u \in D \ {NextRange(Top)} : Narrower(NextRange(Top), u)
    BY <1>3 DEF NextRange
  <1> DEFINE v == NextRange(Top)
  <1>5. v \in JoinRanges(Top.viable) /\ v \notin DOMAIN Top.built /\ v \in Top.viable
    BY <1>2, <1>4 DEF Unbuilt
  <1>6. v \in Ranges(n)
    BY <1>1, <1>5
  <1> HIDE DEF v, n
  <1>7. v = <<v[1], v[2]>> /\ v[1] \in 0..n /\ v[2] \in 0..n /\ v[1] < v[2]
    BY <1>6 DEF Ranges
  <1>8. ASSUME NEW u \in JoinRanges(Top.viable), Narrower(u, v) PROVE u \in DOMAIN Top.built
    <2>1. u \in Ranges(n)
      BY <1>1, <1>2
    <2>2. u # v /\ ~Narrower(v, u)
      BY <1>1, <1>6, <1>8, <2>1, NarrowerOrders
    <2>3. u \notin D
      BY <1>4, <2>2 DEF v
    <2> QED
      BY <1>8, <2>3 DEF Unbuilt
  <1>9. \A u \in DOMAIN Top.built : ~Narrower(v, u)
    BY <1>1, <1>5 DEF BuiltOK
  <1> QED
    BY <1>5, <1>7, <1>8, <1>9 DEF v, n

(* The two sides of a split are leaves, or ranges that have their group.   *)
LEMMA SideGroup ==
  ASSUME IInv, In("ranges"), RangesLeft, NEW f \in Nat, NEW l \in Nat, <<f, l>> \in Top.viable,
         l - f < NextRange(Top)[2] - NextRange(Top)[1]
  PROVE  /\ RangeGroup(Top, f, l) \in 1..Len(memo)
         /\ payloads[RangeGroup(Top, f, l)].output = RangeSchema(Top.region, f, l)
  <1> DEFINE n == Len(Top.inputs)
             v == NextRange(Top)
  <1>1. /\ n \in Nat /\ Top.viable \subseteq Ranges(n) /\ BuiltOK(Top, payloads)
        /\ Top.inputs \in Seq(1..Len(memo)) /\ Top.region.leaves \in Seq(DOMAIN logical)
        /\ n = Len(Top.region.leaves) /\ LogicalPlan(logical) /\ Len(payloads) = Len(memo)
        /\ \A k \in 1..n : payloads[Top.inputs[k]].output = logical[Top.region.leaves[k]].output
    BY RangesFacts
  <1>2. /\ v[1] \in 0..n /\ v[2] \in 0..n
        /\ \A u \in JoinRanges(Top.viable) : Narrower(u, v) => u \in DOMAIN Top.built
    BY NextRangeFacts
  <1> HIDE DEF n, v
  <1>3. <<f, l>> \in Ranges(n)
    BY <1>1
  <1>4. f \in 0..n /\ l \in 0..n /\ f < l
    BY <1>3 DEF Ranges
  <1>5. CASE l = f + 1
    <2>1. RangeGroup(Top, f, l) = Top.inputs[l] /\ l \in 1..n /\ f = l - 1
      BY <1>1, <1>4, <1>5 DEF RangeGroup
    <2>2. Top.inputs[l] \in 1..Len(memo)
      <3> DEFINE G == 1..Len(memo)
      <3>1. Top.inputs \in Seq(G) /\ l \in 1..Len(Top.inputs)
        BY <1>1, <2>1 DEF n
      <3> HIDE DEF G
      <3>2. Top.inputs[l] \in G
        BY <3>1, ElementOfSeq
      <3> QED
        BY <3>2 DEF G
    <2>3. RangeSchema(Top.region, l - 1, l) = logical[Top.region.leaves[l]].output
      BY <1>1, <2>1, RangeSchemaOfOne
    <2> QED
      BY <1>1, <2>1, <2>2, <2>3
  <1>6. CASE l # f + 1
    <2>1. <<f, l>>[2] - <<f, l>>[1] >= 2
      BY <1>4, <1>6
    <2>2. <<f, l>> \in JoinRanges(Top.viable)
      BY <2>1 DEF JoinRanges
    <2>3. Narrower(<<f, l>>, v)
      BY DEF Narrower, v
    <2>4. <<f, l>> \in DOMAIN Top.built
      BY <1>2, <2>2, <2>3
    <2>5. RangeGroup(Top, f, l) = Top.built[<<f, l>>]
      BY <1>6 DEF RangeGroup
    <2>6. /\ Top.built[<<f, l>>] \in 1..Len(payloads)
          /\ payloads[Top.built[<<f, l>>]].output
               = RangeSchema(Top.region, <<f, l>>[1], <<f, l>>[2])
      BY <1>1, <2>4 DEF BuiltOK
    <2> QED
      BY <1>1, <2>5, <2>6
  <1> QED
    BY <1>5, <1>6

LEMMA SplitPredicateIn ==
  ASSUME NEW t, LogicalPlan(t), NEW r, RegionType(t, r),
         NEW first \in 0..Len(r.leaves), NEW split \in 0..Len(r.leaves),
         NEW last \in 0..Len(r.leaves), first <= split
  PROVE  SplitPredicate(r, first, split, last) \in Predicates
  <1> DEFINE s == SplitPredicate(r, first, split, last)
  <1>1. \E cs, leftWidth : s = SplitJoinPredicate(cs, leftWidth)
    BY DEF SplitPredicate
  <1>2. s = [keys |-> s.keys, residual |-> s.residual]
    <2>1. PICK cs, leftWidth : s = SplitJoinPredicate(cs, leftWidth)
      BY <1>1
    <2> HIDE DEF s
    <2>2. \E keys, residual : s = [keys |-> keys, residual |-> residual]
      BY <2>1 DEF SplitJoinPredicate
    <2> QED
      BY <2>2
  <1>3. s.keys \in Seq(JoinKeys) /\ s.residual \in Seq(Conjuncts)
    BY SplitPredicateType
  <1> HIDE DEF s
  <1>4. s \in Predicates
    BY <1>2, <1>3 DEF Predicates
  <1> QED
    BY <1>4 DEF s

LEMMA PairSeq ==
  ASSUME NEW S, NEW a \in S, NEW b \in S
  PROVE  <<a, b>> \in Seq(S) /\ Len(<<a, b>>) = 2
  OBVIOUS

(* Every association of a range joins two groups added before, whose       *)
(* columns are, one after the other, the range's.                          *)
LEMMA AssociationsType ==
  ASSUME IInv, In("ranges"), RangesLeft, NEW first, NEW last,
         first = NextRange(Top)[1], last = NextRange(Top)[2]
  PROVE  /\ Associations(Top, first, last) \in Seq(JoinsBelow(Len(memo) + 1))
         /\ \A i \in DOMAIN Associations(Top, first, last) :
              /\ Len(Associations(Top, first, last)[i].inputs) = 2
              /\ Joined(Associations(Top, first, last)[i].inputs, payloads)
                   = RangeSchema(Top.region, first, last)
  <1> DEFINE n == Len(Top.inputs)
             m == Len(memo)
             splits == OfferedSplits(Top.region, Top.viable, first, last)
             as == Associations(Top, first, last)
             S == ViableSplits(Top.viable, first, last)
             Of(s) == [inputs    |-> <<RangeGroup(Top, first, s), RangeGroup(Top, s, last)>>,
                       predicate |-> SplitPredicate(Top.region, first, s, last)]
  <1>1. /\ n \in Nat /\ m \in Nat /\ n = Len(Top.region.leaves) /\ LogicalPlan(logical)
        /\ RegionType(logical, Top.region) /\ Top.region.leaves \in Seq(DOMAIN logical)
    BY RangesFacts
  <1>2. first \in 0..n /\ last \in 0..n /\ first < last /\ first \in Nat /\ last \in Nat
    <2>1. first \in 0..n /\ last \in 0..n /\ first < last
      BY NextRangeFacts
    <2> HIDE DEF n
    <2> QED
      BY <1>1, <2>1
  <1> HIDE DEF n, m
  <1>3. splits \in Seq(S)
    BY <1>2, OfferedSplitsType
  <1>4. ASSUME NEW s \in S
        PROVE  /\ s \in 0..n /\ first < s /\ s < last /\ s \in Nat
               /\ <<first, s>> \in Top.viable /\ <<s, last>> \in Top.viable
    BY <1>1, <1>2 DEF ViableSplits
  <1> HIDE DEF S
  <1>5. ASSUME NEW s \in S
        PROVE  /\ RangeGroup(Top, first, s) \in 1..m /\ RangeGroup(Top, s, last) \in 1..m
               /\ payloads[RangeGroup(Top, first, s)].output = RangeSchema(Top.region, first, s)
               /\ payloads[RangeGroup(Top, s, last)].output = RangeSchema(Top.region, s, last)
    <2>1. first < s /\ s < last /\ s \in Nat
      BY <1>4
    <2>2. s - first < last - first /\ last - s < last - first
      BY <1>2, <2>1
    <2>3. /\ RangeGroup(Top, first, s) \in 1..m
          /\ payloads[RangeGroup(Top, first, s)].output = RangeSchema(Top.region, first, s)
      BY <1>2, <1>4, <2>2, SideGroup DEF m
    <2>4. /\ RangeGroup(Top, s, last) \in 1..m
          /\ payloads[RangeGroup(Top, s, last)].output = RangeSchema(Top.region, s, last)
      BY <1>2, <1>4, <2>2, SideGroup DEF m
    <2> QED
      BY <2>3, <2>4
  <1>6. ASSUME NEW s \in S
        PROVE  Of(s) \in JoinsBelow(m + 1) /\ Len(Of(s).inputs) = 2
    <2> DEFINE pair == <<RangeGroup(Top, first, s), RangeGroup(Top, s, last)>>
               pred == SplitPredicate(Top.region, first, s, last)
    <2>1. pair \in Seq(1..m) /\ Len(pair) = 2
      BY <1>5, PairSeq
    <2>2. pair \in Seq(Nat)
      BY <1>1, <2>1
    <2>3. pred \in Predicates
      <3>1. s \in 0..n /\ first < s /\ s \in Nat
        BY <1>4
      <3>2. first <= s
        BY <1>2, <3>1
      <3> QED
        BY <1>1, <1>2, <3>1, <3>2, SplitPredicateIn
    <2>4. (m + 1) - 1 = m
      BY <1>1
    <2>5. Of(s) = [inputs |-> pair, predicate |-> pred]
      OBVIOUS
    <2> HIDE DEF pair, pred, Of
    <2> QED
      BY <2>1, <2>2, <2>3, <2>4, <2>5 DEF JoinsBelow
  <1>7. ASSUME NEW s \in S
        PROVE  Joined(Of(s).inputs, payloads) = RangeSchema(Top.region, first, last)
    <2>1. RangeSchema(Top.region, first, last)
            = RangeSchema(Top.region, first, s) \o RangeSchema(Top.region, s, last)
      BY <1>1, <1>2, <1>4, RangeSchemaSplits
    <2>2. /\ Of(s).inputs[1] = RangeGroup(Top, first, s)
          /\ Of(s).inputs[2] = RangeGroup(Top, s, last)
      OBVIOUS
    <2> QED
      BY <1>5, <2>1, <2>2 DEF Joined
  <1>8. as = [i \in DOMAIN splits |-> Of(splits[i])]
    BY DEF Associations
  <1> HIDE DEF splits, Of, as
  <1>9. /\ Len(splits) \in Nat /\ DOMAIN splits = 1..Len(splits)
        /\ \A i \in 1..Len(splits) : splits[i] \in S
    BY <1>3, LenProperties, ElementOfSeq
  <1> DEFINE k == Len(splits)
  <1> HIDE DEF k
  <1>10. as \in [1..k -> JoinsBelow(m + 1)] /\ k \in Nat
    BY <1>6, <1>8, <1>9 DEF k
  <1>11. as \in Seq(JoinsBelow(m + 1)) /\ DOMAIN as = 1..k
    <2> DEFINE J == JoinsBelow(m + 1)
    <2>1. as \in [1..k -> J] /\ k \in Nat
      BY <1>10
    <2> HIDE DEF J
    <2>2. as \in Seq(J)
      BY <2>1, SeqDef
    <2>3. DOMAIN as = 1..k
      BY <2>1
    <2> QED
      BY <2>2, <2>3 DEF J
  <1>12. \A i \in 1..k : as[i] = Of(splits[i]) /\ splits[i] \in S
    BY <1>8, <1>9 DEF k
  <1> QED
    BY <1>6, <1>7, <1>11, <1>12 DEF as, m

LEMMA EmptyGroupType == EmptyGroup \in Groups /\ EmptyGroup.exprs = <<>>
  <1>1. Single \in Distributions
    BY DEF Single, Distributions
  <1>2. <<>> \in Seq(GroupExprs) /\ <<>> \in Seq(SortKeys) /\ <<>> \in Seq(Nat)
    OBVIOUS
  <1>3. 0 \in Nat /\ "Inner" \in JoinKinds /\ "Union" \in SetOps
    BY DEF JoinKinds, SetOps
  <1>4. ASSUME NEW exprs \in Seq(GroupExprs), NEW keys \in Seq(SortKeys),
               NEW projects \in Seq(Nat), NEW dist \in Distributions
        PROVE  [exprs |-> exprs, rows |-> 0, sortKeys |-> keys, split |-> 0, sets |-> 0,
                projects |-> projects, joinKind |-> "Inner", setOp |-> "Union",
                scanDist |-> dist] \in Groups
    BY <1>3 DEF Groups
  <1>5. EmptyGroup \in Groups
    BY <1>1, <1>2, <1>4 DEF EmptyGroup
  <1>6. EmptyGroup.exprs = <<>>
    BY DEF EmptyGroup
  <1> QED
    BY <1>5, <1>6

(* The candidates of a range's group: those of every association, over     *)
(* groups added before; its rows are the first's.                          *)
LEMMA AssociatedGroupType ==
  ASSUME IInv, In("ranges"), NEW as \in Seq(JoinsBelow(Len(memo) + 1)),
         \A i \in DOMAIN as : Len(as[i].inputs) = 2,
         AssociatedGroup(as).exprs # <<>>
  PROVE  /\ AssociatedGroup(as) \in Groups
         /\ AssociatedGroup(as).exprs \in Seq(ReadsBelow(Len(memo) + 1))
  <1> DEFINE m == Len(memo)
             n == Len(as)
             ops == ResolveCandidates("Join")
             Of(a) == CandidatesOf(EmptyGroup, ops, NoFormats, a.inputs, a.predicate.keys,
                                   Len(a.predicate.residual))
             lists == [i \in DOMAIN as |-> Of(as[i])]
             R == ReadsBelow(m + 1)
             rows == AssociationRows(as[1])
  <1>1. /\ m \in Nat /\ memo \in Seq(Groups) /\ Exploring
        /\ LogicalPlan(logical) /\ RulesFit(logical, context.rules)
    BY RangesFacts, TopFacts DEF IInv, MemoOK
  <1>2. n \in Nat /\ DOMAIN as = 1..n /\ \A i \in 1..n : as[i] \in JoinsBelow(m + 1)
    BY LenProperties, ElementOfSeq
  <1>3. ASSUME NEW i \in 1..n
        PROVE  /\ as[i].inputs \in Seq(1..m) /\ as[i].inputs \in Seq(Nat) /\ Len(as[i].inputs) = 2
               /\ as[i].predicate \in Predicates
    <2>1. (m + 1) - 1 = m
      BY <1>1
    <2>2. as[i] \in JoinsBelow(m + 1) /\ Len(as[i].inputs) = 2
      BY <1>2
    <2> HIDE DEF m
    <2> QED
      BY <2>1, <2>2 DEF JoinsBelow
  <1>4. ops \in Seq(OperatorsOf(2))
    BY <1>1 DEF RulesFit, ResolveCandidates, OperatorsOf
  <1>5. NoFormats \in Seq(StoredCopies)
    BY DEF NoFormats, StoredCopies, Formats, Freshnesses
  <1> HIDE DEF m, n, ops
  <1>6. ASSUME NEW i \in 1..n PROVE Of(as[i]) \in Seq(R)
    <2>1. as[i].predicate.keys \in Seq(JoinKeys) /\ Len(as[i].predicate.residual) \in Nat
      BY <1>3, LenProperties DEF Predicates
    <2>2. ops \in Seq(OperatorsOf(Len(as[i].inputs)))
      BY <1>3, <1>4
    <2>3. CandidatesOf(EmptyGroup, ops, NoFormats, as[i].inputs, as[i].predicate.keys,
                       Len(as[i].predicate.residual))
            \in Seq(CandidatesOn(as[i].inputs))
      BY <1>3, <1>5, <2>1, <2>2, CandidatesOfType
    <2>4. Seq(CandidatesOn(as[i].inputs)) \subseteq Seq(ReadsBelow(m + 1))
      BY <1>1, <1>3, CandidatesBelow
    <2> QED
      BY <2>3, <2>4
  <1>7. AssociatedGroup(as) = [EmptyGroup EXCEPT !.rows = rows, !.exprs = FlattenSeq(lists)]
    BY DEF AssociatedGroup, ops
  <1> HIDE DEF Of
  <1>8. lists \in [1..n -> Seq(R)]
    <2> HIDE DEF R
    <2> QED
      BY <1>2, <1>6
  <1>9. FlattenSeq(lists) \in Seq(R)
    <2> HIDE DEF R, lists
    <2> QED
      BY <1>2, <1>8, FlattenFun
  <1>10. FlattenSeq(lists) \in Seq(GroupExprs)
    <2>1. R \subseteq GroupExprs
      BY DEF ReadsBelow
    <2> HIDE DEF R, lists
    <2> QED
      BY <1>9, <2>1
  <1>11. AssociatedGroup(as).exprs = FlattenSeq(lists)
    <2> HIDE DEF lists, rows
    <2> QED
      BY <1>7, EmptyGroupType DEF Groups
  <1>12. n # 0
    <2>1. ASSUME n = 0 PROVE FALSE
      <3>1. lists = <<>>
        <4>1. lists \in Seq(Seq(R)) /\ Len(lists) = 0
          BY <1>2, <1>8, <2>1
        <4> HIDE DEF lists, R
        <4> QED
          BY <4>1, EmptySeq
      <3>2. FlattenSeq(<<>>) = <<>>
        BY DEF FlattenSeq
      <3> HIDE DEF lists
      <3> QED
        BY <1>11, <3>1, <3>2
    <2> QED
      BY <2>1
  <1>13. rows \in Nat
    <2> DEFINE a == as[1]
               left == memo[a.inputs[1]].rows
               right == memo[a.inputs[2]].rows
    <2>1. 1 \in 1..n
      BY <1>2, <1>12
    <2>2. a.inputs \in Seq(1..m) /\ Len(a.inputs) = 2 /\ a.predicate \in Predicates
      BY <1>3, <2>1
    <2> HIDE DEF a
    <2>3. a.inputs[1] \in 1..m /\ a.inputs[2] \in 1..m
      BY <2>2, PairIn
    <2>4. memo[a.inputs[1]] \in Groups /\ memo[a.inputs[2]] \in Groups
      BY <1>1, <2>3, ElementOfSeq DEF m
    <2>5. left \in Nat /\ right \in Nat
      BY <2>4 DEF Groups
    <2>6. Len(a.predicate.keys) \in Nat /\ Len(a.predicate.residual) \in Nat
      BY <2>2, LenProperties DEF Predicates
    <2>7. rows = JoinRows(left, right, a.predicate)
      BY DEF AssociationRows, a
    <2> HIDE DEF left, right, rows
    <2> QED
      BY <2>5, <2>6, <2>7, JoinRowsType
  <1> HIDE DEF lists, rows
  <1>14. AssociatedGroup(as) \in Groups
    BY <1>7, <1>10, <1>13, EmptyGroupType DEF Groups
  <1> QED
    BY <1>9, <1>11, <1>14 DEF R, m

LEMMA ExtendedType ==
  ASSUME NEW f \in RangeGroups, NEW x \in Nat \X Nat, NEW y \in Nat
  PROVE  WithRange(f, x, y) \in RangeGroups
  <1>1. PICK D \in SUBSET (Nat \X Nat) : f \in [D -> Nat]
    BY DEF RangeGroups
  <1>2. WithRange(f, x, y) \in [D \cup {x} -> Nat]
    BY <1>1 DEF WithRange
  <1>3. D \cup {x} \in SUBSET (Nat \X Nat)
    BY <1>1
  <1> QED
    BY <1>2, <1>3 DEF RangeGroups

LEMMA BuiltGrows ==
  ASSUME IInv, In("ranges"), RangesLeft, NEW v, v = NextRange(Top), NEW c,
         c.stage = "ranges", c.viable = Top.viable, c.region = Top.region,
         c.built = WithRange(Top.built, v, Len(memo) + 1),
         NEW ps, Len(ps) = Len(memo) + 1, \A g \in 1..Len(memo) : ps[g] = payloads[g],
         ps[Len(memo) + 1].output = RangeSchema(Top.region, v[1], v[2])
  PROVE  BuiltOK(c, ps)
  <1> DEFINE m == Len(memo)
             B == Top.built
             J == JoinRanges(Top.viable)
  <1>1. BuiltOK(Top, payloads) /\ Len(payloads) = m /\ m \in Nat
    BY RangesFacts
  <1>2. /\ v \in J /\ v \notin DOMAIN B
        /\ \A u \in J : Narrower(u, v) => u \in DOMAIN B
    BY NextRangeFacts
  <1>3. /\ DOMAIN c.built = DOMAIN B \cup {v} /\ c.built[v] = m + 1
        /\ \A u \in DOMAIN B : c.built[u] = B[u]
    <2> DEFINE next == m + 1
    <2>1. c.built = WithRange(B, v, next)
      OBVIOUS
    <2> HIDE DEF B, next
    <2>2. /\ DOMAIN WithRange(B, v, next) = DOMAIN B \cup {v} /\ WithRange(B, v, next)[v] = next
          /\ \A u \in DOMAIN B : WithRange(B, v, next)[u] = B[u]
      BY <1>2 DEF WithRange
    <2> QED
      BY <2>1, <2>2 DEF next
  <1>4. /\ DOMAIN B \subseteq J
        /\ \A u \in DOMAIN B : B[u] \in 1..m
        /\ \A w \in DOMAIN B : \A u \in J : Narrower(u, w) => u \in DOMAIN B /\ B[u] < B[w]
        /\ \A u \in DOMAIN B : payloads[B[u]].output = RangeSchema(Top.region, u[1], u[2])
    BY <1>1 DEF BuiltOK
  <1> HIDE DEF m, B, J
  <1>5. DOMAIN c.built \subseteq J
    BY <1>2, <1>3, <1>4
  <1>6. \A u \in DOMAIN c.built : c.built[u] \in 1..(m + 1)
    BY <1>1, <1>3, <1>4
  <1>7. ASSUME NEW w \in DOMAIN c.built, NEW u \in J, Narrower(u, w)
        PROVE  u \in DOMAIN c.built /\ c.built[u] < c.built[w]
    <2>1. CASE w = v
      <3>1. u \in DOMAIN B
        BY <1>2, <1>7, <2>1
      <3>2. B[u] \in 1..m /\ c.built[u] = B[u] /\ c.built[w] = m + 1
        BY <1>3, <1>4, <2>1, <3>1
      <3> QED
        BY <1>1, <1>3, <3>1, <3>2
    <2>2. CASE w # v
      <3>1. w \in DOMAIN B
        BY <1>3, <2>2
      <3>2. u \in DOMAIN B /\ B[u] < B[w]
        BY <1>4, <1>7, <3>1
      <3> QED
        BY <1>3, <3>1, <3>2
    <2> QED
      BY <2>1, <2>2
  <1>8. ASSUME NEW w \in DOMAIN c.built
        PROVE  ps[c.built[w]].output = RangeSchema(Top.region, w[1], w[2])
    <2>1. CASE w = v
      BY <1>3, <2>1 DEF m
    <2>2. CASE w # v
      <3>1. w \in DOMAIN B /\ c.built[w] = B[w] /\ B[w] \in 1..m
        BY <1>3, <1>4, <2>2
      <3> QED
        BY <1>4, <3>1 DEF m
    <2> QED
      BY <2>1, <2>2
  <1> QED
    BY <1>5, <1>6, <1>7, <1>8 DEF BuiltOK, m, J

(* A range is added to the memo, over the groups of narrower ones.         *)
LEMMA RangeAdded ==
  ASSUME IInv, In("ranges"), RangesLeft, NEW first, NEW last, NEW as, NEW group,
         first = NextRange(Top)[1], last = NextRange(Top)[2],
         as = Associations(Top, first, last), group = AssociatedGroup(as), group.exprs # <<>>,
         memo' = Append(memo, group),
         payloads' = Append(payloads, [output |-> RangeOutput(Top, first, last),
                                       associations |-> as]),
         counters' = [counters EXCEPT !.candidates = @ + Len(group.exprs)],
         calls' = SetTop([Top EXCEPT !.built = WithRange(@, <<first, last>>, Len(memo) + 1)]),
         UNCHANGED <<logical, context, index, groupOf, outcome>>
  PROVE  IInv'
  <1> DEFINE m == Len(memo)
             v == <<first, last>>
             c == [Top EXCEPT !.built = WithRange(Top.built, v, m + 1)]
             p == [output |-> RangeSchema(Top.region, first, last), associations |-> as]
  <1>1. /\ Exploring /\ Top.stage = "ranges" /\ Top \in Activations /\ Top.node \in DOMAIN logical
        /\ LogicalPlan(logical) /\ m \in Nat /\ Len(payloads) = m
        /\ Len(Top.inputs) \in Nat /\ Len(Top.inputs) = Len(Top.region.leaves)
        /\ Top.region.leaves \in Seq(DOMAIN logical)
    BY RangesFacts
  <1>2. /\ v = NextRange(Top) /\ first \in 0..Len(Top.inputs) /\ last \in 0..Len(Top.inputs)
        /\ first < last
    BY NextRangeFacts
  <1>3. /\ as \in Seq(JoinsBelow(m + 1))
        /\ \A i \in DOMAIN as : /\ Len(as[i].inputs) = 2
                                /\ Joined(as[i].inputs, payloads)
                                     = RangeSchema(Top.region, first, last)
    BY AssociationsType
  <1>4. group \in Groups /\ group.exprs \in Seq(ReadsBelow(m + 1))
    BY <1>3, AssociatedGroupType
  <1>5. RangeSchema(Top.region, first, last) \in Seq(ColumnIds)
    <2>1. first <= last
      BY <1>1, <1>2
    <2>2. LeafSchemas(Top.region, first, last) \in Seq(Seq(ColumnIds))
      BY <1>1, <1>2, <2>1, LeafSchemasType
    <2>3. FlattenSeq(LeafSchemas(Top.region, first, last)) \in Seq(ColumnIds)
      BY <2>2, FlattenType
    <2> QED
      BY <2>3 DEF RangeSchema, LeafSchemas
  <1>6. p \in Payloads /\ p.associations \in Seq(JoinsBelow(m + 1)) /\ InOrder(p, payloads)
    <2>1. as \in Seq([inputs : Seq(Nat), predicate : Predicates])
      <3> DEFINE All == [inputs : Seq(Nat), predicate : Predicates]
                 Some == JoinsBelow(m + 1)
      <3>1. Some \subseteq All
        BY DEF JoinsBelow
      <3> HIDE DEF All, Some
      <3>2. as \in Seq(All)
        BY <1>3, <3>1 DEF Some
      <3> QED
        BY <3>2 DEF All
    <2>2. InOrder(p, payloads)
      BY <1>3 DEF InOrder
    <2> QED
      BY <1>3, <1>5, <2>1, <2>2 DEF Payloads
  <1>7. /\ MemoOK' /\ SplitsAgree' /\ Len(memo') = m + 1 /\ Len(payloads') = m + 1
        /\ \A g \in 1..m : payloads'[g] = payloads[g]
        /\ payloads'[m + 1] = p
    <2>1. RangeOutput(Top, first, last) = RangeSchema(Top.region, first, last)
      <3>1. CallOK(Top, payloads)
        BY <1>1, TopFacts
      <3> QED
        BY <1>1, <1>2, <3>1, RangeOutputIs DEF CallOK
    <2>2. payloads' = Append(payloads, p)
      BY <2>1
    <2> HIDE DEF p, m
    <2> QED
      BY <1>4, <1>6, <2>2, AddGroup DEF IInv, m
  <1>8. IndexOK'
    BY <1>1, <1>7, IndexGrows DEF IInv
  <1>9. CountersOK'
    <2> DEFINE size == Len(group.exprs)
    <2>1. size \in Nat
      BY <1>4, LenProperties
    <2>2. counters' = [counters EXCEPT !.candidates = @ + size]
      OBVIOUS
    <2> HIDE DEF size
    <2>3. counters \in [candidates : Nat, shared : Nat, joins : Nat, regions : Nat]
      BY DEF IInv, CountersOK
    <2>4. counters.candidates + size \in Nat
      BY <2>1, <2>3
    <2>5. counters' \in [candidates : Nat, shared : Nat, joins : Nat, regions : Nat]
      BY <2>2, <2>3, <2>4
    <2>6. groupOf' \in [DOMAIN logical' -> 0..Len(memo')]
      BY <1>1, <1>7 DEF IInv, CountersOK
    <2>7. ColumnsKept'
      BY <1>1, <1>7, KeptOn DEF IInv, CountersOK
    <2> QED
      BY <2>5, <2>6, <2>7 DEF CountersOK
  <1>10. calls' = SetTop(c)
    OBVIOUS
  <1>11. /\ c.node = Top.node /\ c.stage = "ranges" /\ c.viable = Top.viable
         /\ c.region = Top.region /\ c.inputs = Top.inputs
         /\ c.built = WithRange(Top.built, v, m + 1)
    BY <1>1 DEF Activations
  <1>12. c \in Activations
    <2>1. v \in Nat \X Nat
      BY <1>1, <1>2
    <2>2. Top.built \in RangeGroups
      BY <1>1 DEF Activations
    <2>3. m + 1 \in Nat
      BY <1>1
    <2>4. WithRange(Top.built, v, m + 1) \in RangeGroups
      <3> HIDE DEF v, m
      <3> QED
        BY <2>1, <2>2, <2>3, ExtendedType
    <2> HIDE DEF v, m
    <2> QED
      BY <1>1, <2>4 DEF Activations
  <1> HIDE DEF c, p, v, m
  <1>13. CallOK(c, payloads')
    <2>1. CallOK(Top, payloads)
      BY <1>1, TopFacts
    <2>2. Len(payloads') \in Nat /\ m <= m + 1
      BY <1>1, <1>7
    <2>3. CallOK(Top, payloads')
      BY <1>1, <1>7, <2>1, <2>2, CallGrows
    <2>4. BuiltOK(c, payloads')
      <3>1. payloads'[m + 1].output = RangeSchema(Top.region, v[1], v[2])
        BY <1>7 DEF p, v
      <3> QED
        BY <1>2, <1>7, <1>11, <3>1, BuiltGrows DEF m
    <2>5. RegionOK(c) /\ InputsOK(c) /\ LeavesOK(c, payloads')
      BY <1>1, <1>11, <2>3 DEF CallOK, RegionOK, InputsOK, LeavesOK, MayCollect
    <2> QED
      BY <1>1, <1>11, <2>3, <2>4, <2>5 DEF CallOK
  <1>14. NewestOK'
    <2> DEFINE k == Len(calls)
    <2>1. k \in 1..k /\ k \in Nat /\ calls \in Seq(Activations) /\ DOMAIN calls = 1..k
      BY <1>1, TopFacts
    <2> HIDE DEF k
    <2>2. Len(calls') = k /\ calls'[k] = c
      BY <1>10, <2>1, ExceptSeq DEF SetTop, k
    <2>3. Top' = c
      BY <2>2 DEF Top
    <2>4. v \in DOMAIN c.built /\ c.built[v] = m + 1
      <3> DEFINE B == Top.built
                 next == m + 1
      <3>1. v \notin DOMAIN B
        BY <1>2, NextRangeFacts
      <3>2. c.built = WithRange(B, v, next)
        BY <1>11
      <3> HIDE DEF B, next
      <3>3. DOMAIN WithRange(B, v, next) = DOMAIN B \cup {v} /\ WithRange(B, v, next)[v] = next
        BY DEF WithRange
      <3> QED
        BY <3>2, <3>3 DEF next
    <2>5. Holds(calls'[k], Len(memo')) /\ k \in 1..Len(calls')
      BY <1>7, <2>1, <2>2, <2>4 DEF Holds
    <2>6. \E u \in DOMAIN Top'.built : Top'.built[u] = Len(memo')
      BY <1>7, <2>3, <2>4
    <2>7. outcome' # "explored"
      BY <1>1 DEF Exploring
    <2> QED
      BY <2>5, <2>6, <2>7 DEF NewestOK, Holds
  <1>15. Len(payloads') \in Nat /\ Len(payloads) <= Len(payloads')
    BY <1>1, <1>7
  <1> QED
    BY <1>1, <1>7, <1>8, <1>9, <1>10, <1>11, <1>12, <1>13, <1>14, <1>15, TopStep

LEMMA BuildRangeKeeps == IInv /\ BuildRange => IInv'
  <1> SUFFICES ASSUME IInv, BuildRange PROVE IInv'
    OBVIOUS
  <1>1. In("ranges") /\ RangesLeft
    BY DEF BuildRange
  <1>2. PICK first, last, as, group :
          /\ first = NextRange(Top)[1] /\ last = NextRange(Top)[2]
          /\ as = Associations(Top, first, last) /\ group = AssociatedGroup(as)
          /\ IF group.exprs = <<>>
             THEN Fail("no applicable physical operator for a reordered join")
                    /\ UNCHANGED counters
             ELSE /\ memo' = Append(memo, group)
                  /\ payloads' = Append(payloads,
                       [output |-> RangeOutput(Top, first, last), associations |-> as])
                  /\ counters' = [counters EXCEPT !.candidates = @ + Len(group.exprs)]
                  /\ calls' = SetTop([Top EXCEPT !.built =
                                        WithRange(@, <<first, last>>, Len(memo) + 1)])
                  /\ UNCHANGED <<logical, context, index, groupOf, outcome>>
    BY DEF BuildRange
  <1>3. CASE group.exprs = <<>>
    <2>1. Fail("no applicable physical operator for a reordered join") /\ UNCHANGED counters
      BY <1>2, <1>3
    <2>2. counters' \in [candidates : Nat, shared : Nat, joins : Nat, regions : Nat]
      BY <2>1 DEF IInv, CountersOK
    <2> QED
      BY <2>1, <2>2, FailStep
  <1>4. CASE group.exprs # <<>>
    <2>1. /\ memo' = Append(memo, group)
          /\ payloads' = Append(payloads,
               [output |-> RangeOutput(Top, first, last), associations |-> as])
          /\ counters' = [counters EXCEPT !.candidates = @ + Len(group.exprs)]
          /\ calls' = SetTop([Top EXCEPT !.built =
                                WithRange(@, <<first, last>>, Len(memo) + 1)])
          /\ UNCHANGED <<logical, context, index, groupOf, outcome>>
      BY <1>2, <1>4
    <2> QED
      BY <1>1, <1>2, <1>4, <2>1, RangeAdded
  <1> QED
    BY <1>3, <1>4

(* Of all ranges the region itself is the widest, and so the last whose    *)
(* group was built: the one the region's activation returns.               *)
LEMMA ReturnRegionKeeps == IInv /\ ReturnRegion => IInv'
  <1> SUFFICES ASSUME IInv, ReturnRegion PROVE IInv'
    OBVIOUS
  <1> DEFINE n == Len(Top.inputs)
             m == Len(memo)
             B == Top.built
             J == JoinRanges(Top.viable)
             all == <<0, n>>
             g == B[all]
  <1>1. /\ In("ranges") /\ ~RangesLeft
        /\ UNCHANGED <<logical, context, memo, payloads, index, counters>>
    BY DEF ReturnRegion
  <1>2. /\ Exploring /\ Reorderable(logical, Top.node) /\ n \in Nat /\ n >= 3
        /\ n = Len(Top.region.leaves) /\ Top.viable \subseteq Ranges(n) /\ all \in Top.viable
        /\ BuiltOK(Top, payloads) /\ Len(payloads) = m /\ m \in Nat
    BY <1>1, RangesFacts
  <1>3. Return(g)
    BY <1>2 DEF ReturnRegion
  <1>4. J \subseteq DOMAIN B
    BY <1>1 DEF RangesLeft, Unbuilt
  <1>5. all \in J
    <2>1. all[2] - all[1] >= 2
      BY <1>2
    <2> HIDE DEF all
    <2> QED
      BY <1>2, <2>1 DEF JoinRanges
  <1>6. /\ DOMAIN B \subseteq J
        /\ \A u \in DOMAIN B : B[u] \in 1..m
        /\ \A w \in DOMAIN B : \A u \in J : Narrower(u, w) => u \in DOMAIN B /\ B[u] < B[w]
    BY <1>2 DEF BuiltOK
  <1>7. ASSUME NEW u \in DOMAIN B, u # all PROVE Narrower(u, all)
    <2>1. u \in Ranges(n)
      BY <1>2, <1>6 DEF JoinRanges
    <2>2. /\ u = <<u[1], u[2]>> /\ u[1] \in 0..n /\ u[2] \in 0..n /\ u[1] < u[2]
      <3> HIDE DEF n, B, J
      <3> QED
        BY <2>1 DEF Ranges
    <2>3. all[1] = 0 /\ all[2] = n /\ ~(u[1] = 0 /\ u[2] = n)
      BY <1>7, <2>2
    <2> HIDE DEF n, B, all
    <2>4. u[2] - u[1] < n - 0
      BY <1>2, <2>2, <2>3
    <2> QED
      BY <2>3, <2>4 DEF Narrower
  <1>8. g = m
    <2>1. DOMAIN B # {}
      BY <1>4, <1>5
    <2>2. PICK u \in DOMAIN B : B[u] = m
      BY <1>2, <2>1 DEF IInv, NewestOK
    <2>3. CASE u = all
      BY <2>2, <2>3
    <2>4. CASE u # all
      <3>1. B[u] < B[all]
        BY <1>4, <1>5, <1>6, <1>7, <2>4
      <3>2. B[all] \in 1..m
        BY <1>4, <1>5, <1>6
      <3> HIDE DEF B, m, all
      <3> QED
        BY <1>2, <2>2, <3>1, <3>2
    <2> QED
      BY <2>3, <2>4
  <1>9. g \in 1..Len(memo') /\ g = Len(memo')
    <2>1. g \in 1..m
      BY <1>4, <1>5, <1>6
    <2> QED
      BY <1>1, <1>8, <2>1
  <1>10. MemoOK' /\ IndexOK' /\ SplitsAgree'
    BY <1>1 DEF IInv, MemoOK, IndexOK, SplitsAgree
  <1>11. /\ Len(memo) <= Len(memo') /\ \A h \in 1..Len(memo) : payloads'[h] = payloads[h]
         /\ logical' = logical /\ context' = context
    BY <1>1, <1>2
  <1>12. counters' \in [candidates : Nat, shared : Nat, joins : Nat, regions : Nat]
    BY <1>1 DEF IInv, CountersOK
  <1>13. payloads'[g].output = logical[Top.node].output
    <2>1. payloads[B[all]].output = RangeSchema(Top.region, all[1], all[2])
      BY <1>2, <1>4, <1>5 DEF BuiltOK
    <2>2. all[1] = 0 /\ all[2] = Len(Top.region.leaves)
      BY <1>2
    <2>3. RangeSchema(Top.region, 0, Len(Top.region.leaves)) = NodeOf(Top).output
      <3>1. LogicalPlan(logical) /\ Top.node \in DOMAIN logical /\ CallOK(Top, payloads)
        BY <1>2, TopFacts
      <3>2. Top.stage \in {"collected", "region", "ranges"} /\ RegionOK(Top)
        BY <1>1, <3>1 DEF In, CallOK
      <3> QED
        BY <3>1, <3>2, RegionSchema
    <2> QED
      BY <1>1, <2>1, <2>2, <2>3 DEF NodeOf
  <1> HIDE DEF g
  <1> QED
    BY <1>2, <1>3, <1>9, <1>10, <1>11, <1>12, <1>13, ReturnStep
-----------------------------------------------------------------------------
(* The inductive invariant holds throughout.                               *)

LEMMA InitIInv == Init => IInv
  <1> SUFFICES ASSUME Init PROVE IInv
    OBVIOUS
  <1>1. LogicalPlan(logical) /\ RulesFit(logical, context.rules)
    BY CallsAssumption DEF Init
  <1>2. /\ Len(logical) \in DOMAIN logical /\ DOMAIN logical = 1..Len(logical)
    <2>1. logical \in Seq(LogicalNodes) /\ logical # <<>>
      BY <1>1 DEF LogicalPlan
    <2>2. Len(logical) \in Nat /\ DOMAIN logical = 1..Len(logical) /\ Len(logical) # 0
      BY <2>1, LenProperties, EmptySeq
    <2> QED
      BY <2>2
  <1>3. /\ memo = <<>> /\ payloads = <<>> /\ index = <<>> /\ calls = <<NewCall(RootNode)>>
        /\ outcome = "exploring"
    BY DEF Init, RootNode
  <1>4. /\ NewCall(RootNode) \in Activations /\ CallOK(NewCall(RootNode), payloads)
        /\ DOMAIN NewCall(RootNode).built = {}
    BY <1>1, <1>2, NewCallType DEF RootNode
  <1>5. /\ memo \in Seq(Groups) /\ payloads \in Seq(Payloads)
        /\ Len(memo) = 0 /\ Len(payloads) = 0
        /\ Len(index) = 0
    BY <1>3
  <1>6. MemoOK
    BY <1>5 DEF MemoOK
  <1>7. IndexOK
    <2>1. index \in Seq([key : GroupKeys, group : 1..Len(memo)])
      <3> DEFINE E == [key : GroupKeys, group : 1..Len(memo)]
      <3> HIDE DEF E
      <3>1. index \in Seq(E)
        BY <1>3
      <3> QED
        BY <3>1 DEF E
    <2> QED
      BY <1>5, <2>1 DEF IndexOK
  <1>8. CountersOK
    BY <1>5 DEF Init, CountersOK, ColumnsKept
  <1>9. StackOK
    <2> DEFINE c == NewCall(RootNode)
    <2>1. c.node = RootNode
      BY DEF NewCall
    <2> HIDE DEF c
    <2>2. /\ calls \in Seq(Activations) /\ Len(calls) = 1 /\ calls[1] = c /\ calls # <<>>
      BY <1>3, <1>4 DEF c
    <2> QED
      BY <1>3, <1>4, <2>1, <2>2 DEF StackOK, c
  <1>10. NewestOK
    <2>1. Top = NewCall(RootNode)
      BY <1>3 DEF Top
    <2> QED
      BY <1>3, <1>4, <2>1 DEF NewestOK
  <1>11. SplitsAgree
    BY <1>3 DEF SplitsAgree
  <1> QED
    BY <1>1, <1>6, <1>7, <1>8, <1>9, <1>10, <1>11 DEF IInv, PlanOK

LEMMA StutterKeeps == IInv /\ UNCHANGED vars => IInv'
  <1> SUFFICES ASSUME IInv, UNCHANGED vars PROVE IInv'
    OBVIOUS
  <1>1. UNCHANGED <<logical, context, memo, payloads, index, calls, counters, groupOf, outcome>>
    BY DEF vars
  <1>2. PlanOK' /\ MemoOK' /\ IndexOK' /\ CountersOK' /\ SplitsAgree'
    BY <1>1 DEF IInv, PlanOK, MemoOK, IndexOK, CountersOK, ColumnsKept, SplitsAgree
  <1>3. NewestOK'
    BY <1>1 DEF IInv, NewestOK, Exploring, Top, RootNode, Holds
  <1>4. StackOK'
    <2>1. StackOK
      BY DEF IInv
    <2>2. \A i \in 1..Len(calls) : CallOK(calls[i], payloads)
      BY <2>1 DEF StackOK
    <2>3. \A i \in 1..Len(calls') : CallOK(calls[i], payloads)'
      BY <1>1, <2>2, CallStays
    <2>4. Activations' = Activations
      BY <1>1 DEF Activations
    <2>5. \A i \in 1..(Len(calls') - 1) :
            /\ Awaits(calls[i])'
            /\ calls'[i + 1].node = Awaited(calls[i])'[Len(calls'[i].inputs) + 1]
      BY <1>1, <2>1 DEF StackOK, Awaits, Awaited, NodeOf
    <2> QED
      BY <1>1, <2>1, <2>3, <2>4, <2>5 DEF StackOK, RootNode
  <1> QED
    BY <1>2, <1>3, <1>4 DEF IInv

LEMMA NextKeeps == IInv /\ [Next]_vars => IInv'
  BY CollectKeeps, EnterRegionKeeps, EnterNodeKeeps, ExploreInputKeeps, AssociateKeeps,
     BuildRangeKeeps, ReturnRegionKeeps, ShareGroupKeeps, BuildGroupKeeps, RefuseKeeps,
     StutterKeeps DEF Next

LEMMA Invariance == Spec => []IInv
  BY InitIInv, NextKeeps, PTL DEF Spec
-----------------------------------------------------------------------------
(* The theorems.                                                           *)

(* Whatever the query: exploration's state is what its type says, at every *)
(* step; in particular every group an activation, a range or the index     *)
(* names is in the memo by then (explore(), lowering.cpp).                 *)
THEOREM ExplorationTyped == Spec => []TypeOK
  <1>1. IInv => TypeOK
    <2> SUFFICES ASSUME IInv PROVE TypeOK
      OBVIOUS
    <2>1. /\ LogicalPlan(logical) /\ MemoOK /\ IndexOK /\ CountersOK /\ StackOK
      BY DEF IInv, PlanOK
    <2>2. Len(payloads) = Len(memo) /\ Len(memo) \in Nat /\ DOMAIN memo = 1..Len(memo)
      BY <2>1, LenProperties DEF MemoOK
    <2>3. \A n \in DOMAIN logical : \A k \in DOMAIN logical[n].kids :
            logical[n].kids[k] \in 1..(n - 1)
      BY <2>1 DEF LogicalPlan
    <2>4. ASSUME NEW i \in DOMAIN index PROVE index[i].group \in DOMAIN memo
      <3> DEFINE E == [key : GroupKeys, group : 1..Len(memo)]
      <3>1. index \in Seq(E)
        BY <2>1 DEF IndexOK
      <3> HIDE DEF E
      <3>2. index[i] \in E
        BY <3>1, ElementOfSeq, LenProperties
      <3> QED
        BY <2>2, <3>2 DEF E
    <2>5. ASSUME NEW i \in DOMAIN calls
          PROVE  /\ calls[i].node \in DOMAIN logical
                 /\ calls[i].stage \in {"enter", "collected", "node", "region", "ranges"}
                 /\ calls[i].inputs \in Seq(DOMAIN memo)
                 /\ calls[i].built \in [DOMAIN calls[i].built -> DOMAIN memo]
      <3>1. calls \in Seq(Activations) /\ i \in 1..Len(calls)
        BY <2>1, LenProperties DEF StackOK
      <3>2. calls[i] \in Activations
        BY <3>1, ElementOfSeq
      <3>3. CallOK(calls[i], payloads)
        BY <2>1, <3>1 DEF StackOK
      <3>4. calls[i].built \in [DOMAIN calls[i].built -> Nat]
        BY <3>2 DEF Activations, RangeGroups
      <3>5. \A v \in DOMAIN calls[i].built : calls[i].built[v] \in DOMAIN memo
        BY <2>2, <3>3 DEF CallOK, BuiltOK
      <3>6. calls[i].built \in [DOMAIN calls[i].built -> DOMAIN memo]
        BY <3>4, <3>5
      <3> QED
        BY <2>2, <3>3, <3>6 DEF CallOK, Stages
    <2> QED
      BY <2>1, <2>2, <2>3, <2>4, <2>5 DEF TypeOK, MemoOK, CountersOK
  <1> QED
    BY <1>1, Invariance, PTL

(* Whatever the query, with regions re-associated and subtrees shared or   *)
(* not: the memo exploration hands to the search is one it can search.     *)
(* Every candidate has the inputs its operator takes, each a group added   *)
(* before its own, and the query's own group was added last (explore() and *)
(* lower(), lowering.cpp).                                                 *)
THEOREM ExploredIsSearchable == Spec => []ExploredMemo
  <1>1. IInv => ExploredMemo
    <2> SUFFICES ASSUME IInv, outcome = "explored"
                 PROVE  WellFormed(memo) /\ groupOf[RootNode] = Len(memo)
      BY DEF ExploredMemo
    <2>1. memo # <<>> /\ groupOf[RootNode] = Len(memo) /\ memo \in Seq(Groups)
      BY DEF IInv, NewestOK, MemoOK
    <2>2. Len(memo) \in Nat /\ DOMAIN memo = 1..Len(memo)
      BY <2>1, LenProperties
    <2>3. ASSUME NEW g \in 1..Len(memo), NEW x \in 1..Len(memo[g].exprs)
          PROVE  /\ Len(memo[g].exprs[x].inputs) = Arity(memo[g].exprs[x].op)
                 /\ \A k \in 1..Len(memo[g].exprs[x].inputs) :
                      memo[g].exprs[x].inputs[k] \in 1..(g - 1)
      <3> DEFINE R == ReadsBelow(g)
                 e == memo[g].exprs[x]
      <3>1. memo[g].exprs \in Seq(R)
        BY DEF IInv, MemoOK
      <3> HIDE DEF R
      <3>2. e \in R
        BY <3>1, ElementOfSeq
      <3> HIDE DEF e
      <3>3. Len(e.inputs) = Arity(e.op) /\ e.inputs \in Seq(1..(g - 1))
        BY <3>2 DEF R, ReadsBelow
      <3>4. \A k \in 1..Len(e.inputs) : e.inputs[k] \in 1..(g - 1)
        BY <3>3, ElementOfSeq
      <3> QED
        BY <3>3, <3>4 DEF e
    <2> QED
      BY <2>1, <2>2, <2>3 DEF WellFormed
  <1> QED
    BY <1>1, Invariance, PTL

(* Whatever the query: all ways a region's range may be joined yield the   *)
(* same columns in the same order, and the group of every node, a region   *)
(* re-associated or a subtree shared though it may be, has the node's own  *)
(* columns, by whose places its consumers name them (explore_join_region() *)
(* and explore(), lowering.cpp).                                           *)
THEOREM AssociationsInterchangeable == Spec => []AssociationsAgree
  <1>1. IInv => AssociationsAgree
    BY DEF IInv, CountersOK, AssociationsAgree
  <1> QED
    BY <1>1, Invariance, PTL
=============================================================================
