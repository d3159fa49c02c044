---------------------------- MODULE Exploration ----------------------------
(***************************************************************************)
(* Phase one of lower(): explore() (src/src/lowering.cpp), which walks the *)
(* logical plan, inputs first, and gives every node a memo group; a tree   *)
(* of inner joins is handed to the interval DP as a whole, and with dedup  *)
(* on an equivalent subtree shares the group of the first.                 *)
(*                                                                         *)
(* The recursion is an explicit stack of calls, as in PlanSearch.          *)
(***************************************************************************)
EXTENDS Candidates, JoinRegion

CONSTANTS
  Calls,              \* what lower() is called with: <<logical plan, switches>>
  MaxReorderLeaves    \* kMaxReorderLeaves

(* A logical plan as the binder hands it over: inputs come first; a join   *)
(* has two and tests columns of theirs, and if an inner or cross join      *)
(* hides none of them it yields the left's, then the right's.              *)
ColumnIds == STRING \X Nat

Conjuncts ==
  [test : STRING, cols : Seq(Nat), translatable : BOOLEAN, comparable : BOOLEAN]

LogicalNodes ==
  [op : STRING, text : STRING, payload : {g \in Groups : g.exprs = <<>>}, rows : Nat,
   output : Seq(ColumnIds), kids : Seq(Nat), predicate : Seq(Conjuncts),
   stores : Seq([format : Formats, freshness : Freshnesses]),
   comparable : BOOLEAN, supported : BOOLEAN]

LogicalPlan(t) ==
  /\ t \in Seq(LogicalNodes) /\ t # <<>>
  /\ \A n \in DOMAIN t :
       LET node == t[n] below == Width(t, node.kids[1]) + Width(t, node.kids[2]) IN
       /\ \A k \in DOMAIN node.kids : node.kids[k] \in 1..(n - 1)
       /\ node.op = "Join" => Len(node.kids) = 2
       /\ Reorderable(t, n) =>
            /\ Width(t, n) <= below
            /\ Width(t, n) = below =>
                 node.output = t[node.kids[1]].output \o t[node.kids[2]].output
       /\ node.predicate # <<>> => Len(node.kids) = 2
       /\ \A i \in DOMAIN node.predicate : \A k \in DOMAIN node.predicate[i].cols :
            node.predicate[i].cols[k] < below

(* Rules implement an operator by ones with as many inputs.                *)
RulesFit(t, rules) ==
  /\ rules["Join"] \in Seq({op \in Operators : Arity(op) = 2})
  /\ \A n \in DOMAIN t :
       rules[t[n].op] \in Seq({op \in Operators : Arity(op) = Len(t[n].kids)})

ASSUME CallsAssumption ==
  \A call \in Calls : LogicalPlan(call[1]) /\ RulesFit(call[1], call[2].rules)

VARIABLES
  logical,   \* the logical plan
  context,   \* the switches of this call: [reorder, dedup, freshness, rules]
  memo,      \* the groups, in the order they were added
  payloads,  \* per group, its schema and what its candidates read and test
  index,     \* the groups that may be shared, under their structural keys
  calls,     \* the activations of explore(), outermost first
  counters,  \* what exploration reports
  groupOf,   \* history: the group each finished call returned, 0 before
  outcome    \* "exploring", "explored" or the error

vars == <<logical, context, memo, payloads, index, calls, counters, groupOf, outcome>>

Top       == calls[Len(calls)]
SetTop(c) == [calls EXCEPT ![Len(calls)] = c]
NodeOf(c) == logical[c.node]
RootNode  == Len(logical)

ResolveCandidates(op) == context.rules[op]

(* An activation; once it has taken on a region, that region, its viable   *)
(* ranges, and the group of each range built so far.                       *)
NoRegion   == [leaves |-> <<>>, offset |-> <<>>, conjuncts |-> <<>>]
NewCall(n) ==
  [node |-> n, stage |-> "enter", inputs |-> <<>>,
   region |-> NoRegion, viable |-> {}, built |-> <<>>]
-----------------------------------------------------------------------------
(* A plan node on its own.                                                 *)

NodePredicate(c) ==
  SplitJoinPredicate(NodeOf(c).predicate,
                     IF NodeOf(c).kids = <<>> THEN 0
                     ELSE Width(logical, NodeOf(c).kids[1]))

NodeRows(c) ==
  IF NodeOf(c).op = "Join"
  THEN JoinRows(memo[c.inputs[1]].rows, memo[c.inputs[2]].rows, NodePredicate(c))
  ELSE NodeOf(c).rows

(* The copies of a table that may answer this query.                       *)
ScanFormats(n) ==
  IF n.op # "Scan" THEN NoFormats
  ELSE Passing(n.stores, LAMBDA s : context.freshness = "Fresh" => s.freshness = "Fresh")

NodeGroup(c) ==
  [AddCandidates(NodeOf(c).payload, ResolveCandidates(NodeOf(c).op), ScanFormats(NodeOf(c)),
                 c.inputs, NodePredicate(c).keys, Len(NodePredicate(c).residual))
     EXCEPT !.rows = NodeRows(c)]

NodePayload(c) ==
  [output       |-> NodeOf(c).output,
   associations |-> <<[inputs |-> c.inputs, predicate |-> NodePredicate(c)]>>]

(* Seeded defect: the schema, and so the alias, is not part of the key.    *)
GroupKeyUnaliased(c) ==
  [op |-> NodeOf(c).op, text |-> NodeOf(c).text, payload |-> NodeOf(c).payload,
   inputs |-> c.inputs, predicate |-> NodePredicate(c)]

(* Seeded defect: the tests of a join are not part of the key.             *)
GroupKeyUntested(c) ==
  [op |-> NodeOf(c).op, text |-> NodeOf(c).text, payload |-> NodeOf(c).payload,
   output |-> NodeOf(c).output, inputs |-> c.inputs]

(* The structural key of a node whose inputs are explored: what the        *)
(* operator is, over which groups.                                         *)
GroupKey(c) ==
  [op |-> NodeOf(c).op, text |-> NodeOf(c).text, payload |-> NodeOf(c).payload,
   output |-> NodeOf(c).output, inputs |-> c.inputs, predicate |-> NodePredicate(c)]

(* An expression of a kind the key does not compare is never shared.       *)
Comparable(c) ==
  /\ NodeOf(c).comparable
  /\ \A i \in DOMAIN NodePredicate(c).residual : NodePredicate(c).residual[i].comparable

Sharable(c) == context.dedup /\ Comparable(c)

(* Seeded defect: only the entry made last is compared.                    *)
EquivalentToLast(c) == {i \in DOMAIN index : i = Len(index) /\ index[i].key = GroupKey(c)}

Equivalent(c) == {i \in DOMAIN index : index[i].key = GroupKey(c)}
FindGroup(c)  == index[Min(Equivalent(c))].group

(* Seeded defect: the group is named before it is added.                   *)
IndexedEarly(c, g) ==
  IF Sharable(c) THEN Append(index, [key |-> GroupKey(c), group |-> g - 1]) ELSE index

(* index_group().                                                          *)
Indexed(c, g) ==
  IF Sharable(c) THEN Append(index, [key |-> GroupKey(c), group |-> g]) ELSE index
-----------------------------------------------------------------------------
(* A join region.                                                          *)

MayCollect(c) == context.reorder /\ Collectable(logical, c.node)
Associable(c) == /\ Len(c.region.leaves) <= MaxReorderLeaves
                 /\ Covered(c.region, ViableRanges(c.region))

Unbuilt(c)   == JoinRanges(c.viable) \ DOMAIN c.built
NextRange(c) ==
  CHOOSE v \in Unbuilt(c) : \A other \in Unbuilt(c) \ {v} : Narrower(v, other)

RangeGroup(c, first, last) ==
  IF last = first + 1 THEN c.inputs[last] ELSE c.built[<<first, last>>]

WithRange(built, range, group) ==
  [v \in DOMAIN built \cup {range} |-> IF v = range THEN group ELSE built[v]]

(* Seeded defect: the smaller input is put on the left, by group number.   *)
AssociationsSwapped(c, first, last) ==
  LET splits == OfferedSplits(c.region, c.viable, first, last)
      groups(s) == <<RangeGroup(c, first, s), RangeGroup(c, s, last)>>
  IN  [i \in DOMAIN splits |->
         [inputs    |-> SortSeq(groups(splits[i]), <),
          predicate |-> SplitPredicate(c.region, first, splits[i], last)]]

(* One association per offered split of a range.                           *)
Associations(c, first, last) ==
  LET splits == OfferedSplits(c.region, c.viable, first, last)
  IN  [i \in DOMAIN splits |->
         [inputs    |-> <<RangeGroup(c, first, splits[i]), RangeGroup(c, splits[i], last)>>,
          predicate |-> SplitPredicate(c.region, first, splits[i], last)]]

AssociationRows(a) ==
  JoinRows(memo[a.inputs[1]].rows, memo[a.inputs[2]].rows, a.predicate)

(* The group of a range: the candidates of every split, the rows of the    *)
(* first.                                                                  *)
AssociatedGroup(as) ==
  [EmptyGroup EXCEPT
     !.rows  = AssociationRows(as[1]),
     !.exprs = FlattenSeq([i \in DOMAIN as |->
                 CandidatesOf(EmptyGroup, ResolveCandidates("Join"), NoFormats,
                              as[i].inputs, as[i].predicate.keys,
                              Len(as[i].predicate.residual))])]

RangeSchema(r, first, last) ==
  FlattenSeq([i \in 1..(last - first) |-> logical[r.leaves[first + i]].output])

(* The schema of a range's group: the whole region's is the join's own.    *)
RangeOutput(c, first, last) ==
  IF last - first = Len(c.region.leaves) THEN NodeOf(c).output
  ELSE RangeSchema(c.region, first, last)
-----------------------------------------------------------------------------
Init ==
  /\ \E call \in Calls : logical = call[1] /\ context = call[2]
  /\ memo = <<>> /\ payloads = <<>> /\ index = <<>>
  /\ calls = <<NewCall(Len(logical))>>
  /\ counters = [candidates |-> 0, shared |-> 0, joins |-> 0, regions |-> 0]
  /\ groupOf = [n \in DOMAIN logical |-> 0]
  /\ outcome = "exploring"

Exploring == outcome = "exploring"
In(stage) == Exploring /\ Top.stage = stage

(* The node, or region leaf, that an activation explores next.             *)
Awaited(c) == IF c.stage = "region" THEN c.region.leaves ELSE NodeOf(c).kids
Awaits(c)  == c.stage \in {"region", "node"} /\ Len(c.inputs) < Len(Awaited(c))

Fail(reason) ==
  /\ outcome' = reason
  /\ calls' = <<>>
  /\ UNCHANGED <<logical, context, memo, payloads, index, groupOf>>

Return(g) ==
  /\ groupOf' = [groupOf EXCEPT ![Top.node] = g]
  /\ IF Len(calls) = 1
     THEN calls' = <<>> /\ outcome' = "explored"
     ELSE /\ calls' = [SubSeq(calls, 1, Len(calls) - 1)
                         EXCEPT ![Len(calls) - 1].inputs = Append(@, g)]
          /\ UNCHANGED outcome

(* collect_join_region().                                                  *)
Collect ==
  /\ In("enter") /\ MayCollect(Top)
  /\ calls' = SetTop([Top EXCEPT !.stage = "collected",
                                 !.region = JoinRegionOf(logical, Top.node)])
  /\ UNCHANGED <<logical, context, memo, payloads, index, counters, groupOf, outcome>>

EnterRegion ==
  /\ In("collected") /\ Associable(Top)
  /\ calls' = SetTop([Top EXCEPT !.stage = "region", !.viable = ViableRanges(Top.region)])
  /\ UNCHANGED <<logical, context, memo, payloads, index, counters, groupOf, outcome>>

(* Seeded defect: a region that is not covered is not lowered at all.      *)
AsWrittenUnlessRegion(c) == c.stage = "enter" /\ ~MayCollect(c)

AsWritten(c) ==
  \/ c.stage = "enter" /\ ~MayCollect(c)
  \/ c.stage = "collected" /\ ~Associable(c)

(* Any other node, and a join whose region has no connected tree, is       *)
(* lowered as it is written.                                               *)
EnterNode ==
  /\ Exploring /\ AsWritten(Top)
  /\ counters' = [counters EXCEPT !.joins = @ + (IF NodeOf(Top).op = "Join" THEN 1 ELSE 0)]
  /\ IF ResolveCandidates(NodeOf(Top).op) = <<>>
     THEN Fail("no implementation rule")
     ELSE /\ calls' = SetTop([Top EXCEPT !.stage = "node"])
          /\ UNCHANGED <<logical, context, memo, payloads, index, groupOf, outcome>>

ExploreInput ==
  /\ Exploring /\ Awaits(Top)
  /\ calls' = Append(calls, NewCall(Awaited(Top)[Len(Top.inputs) + 1]))
  /\ UNCHANGED <<logical, context, memo, payloads, index, counters, groupOf, outcome>>

(* The leaves are explored; the region's joins are counted, whichever      *)
(* association wins.                                                       *)
Associate ==
  /\ In("region") /\ ~Awaits(Top)
  /\ counters' = [counters EXCEPT !.joins = @ + Len(Top.inputs) - 1, !.regions = @ + 1]
  /\ IF ResolveCandidates("Join") = <<>>
     THEN Fail("no implementation rule")
     ELSE /\ calls' = SetTop([Top EXCEPT !.stage = "ranges"])
          /\ UNCHANGED <<logical, context, memo, payloads, index, groupOf, outcome>>

RangesLeft == Unbuilt(Top) # {}

BuildRange ==
  /\ In("ranges") /\ RangesLeft
  /\ \E first \in {NextRange(Top)[1]}, last \in {NextRange(Top)[2]} :
     \E as \in {Associations(Top, first, last)} :
     \E group \in {AssociatedGroup(as)} :
       IF group.exprs = <<>>
       THEN Fail("no applicable physical operator for a reordered join")
              /\ UNCHANGED counters
       ELSE /\ memo' = Append(memo, group)
            /\ payloads' = Append(payloads,
                 [output |-> RangeOutput(Top, first, last), associations |-> as])
            /\ counters' = [counters EXCEPT !.candidates = @ + Len(group.exprs)]
            /\ calls' = SetTop([Top EXCEPT !.built = WithRange(@, <<first, last>>, Len(memo) + 1)])
            /\ UNCHANGED <<logical, context, index, groupOf, outcome>>

(* Seeded defect: the narrowest range stands for the region.               *)
ReturnRegionFirst ==
  /\ In("ranges") /\ ~RangesLeft
  /\ Return(Top.built[CHOOSE v \in DOMAIN Top.built :
                        \A other \in DOMAIN Top.built \ {v} : Narrower(v, other)])
  /\ UNCHANGED <<logical, context, memo, payloads, index, counters>>

ReturnRegion ==
  /\ In("ranges") /\ ~RangesLeft
  /\ Return(Top.built[<<0, Len(Top.region.leaves)>>])
  /\ UNCHANGED <<logical, context, memo, payloads, index, counters>>

Explored == In("node") /\ ~Awaits(Top)
Repeated == Sharable(Top) /\ Equivalent(Top) # {}

(* Seeded defect: what is shared is not counted.                           *)
ShareGroupUncounted ==
  /\ Explored /\ NodeOf(Top).supported /\ Repeated
  /\ Return(FindGroup(Top))
  /\ UNCHANGED <<logical, context, memo, payloads, index, counters>>

ShareGroup ==
  /\ Explored /\ NodeOf(Top).supported /\ Repeated
  /\ Return(FindGroup(Top))
  /\ counters' = [counters EXCEPT !.shared = @ + 1]
  /\ UNCHANGED <<logical, context, memo, payloads, index>>

BuildGroup ==
  /\ Explored /\ NodeOf(Top).supported /\ ~Repeated
  /\ NodeGroup(Top).exprs # <<>>
  /\ memo' = Append(memo, NodeGroup(Top))
  /\ payloads' = Append(payloads, NodePayload(Top))
  /\ index' = Indexed(Top, Len(memo) + 1)
  /\ counters' = [counters EXCEPT !.candidates = @ + Len(NodeGroup(Top).exprs)]
  /\ Return(Len(memo) + 1)
  /\ UNCHANGED <<logical, context>>

(* A payload lowering has no form for, a table without a copy fresh        *)
(* enough, or no operator whose precondition holds.  The memo is dropped:  *)
(* the group it may already hold for this node is left out.                *)
Refuse ==
  /\ Explored
  /\ \/ ~NodeOf(Top).supported /\ Fail("unsupported in lowering")
     \/ /\ NodeOf(Top).supported /\ ~Repeated
        /\ ScanFormats(NodeOf(Top)) = <<>>
        /\ Fail("no copy fresh enough for this query")
     \/ /\ NodeOf(Top).supported /\ ~Repeated
        /\ ScanFormats(NodeOf(Top)) # <<>> /\ NodeGroup(Top).exprs = <<>>
        /\ Fail("no applicable physical operator")
  /\ UNCHANGED counters

Next ==
  \/ Collect \/ EnterRegion \/ EnterNode \/ ExploreInput
  \/ Associate \/ BuildRange \/ ReturnRegion
  \/ ShareGroup \/ BuildGroup \/ Refuse

(* A plain recursive function: it runs until it returns.                   *)
Spec == Init /\ [][Next]_vars
-----------------------------------------------------------------------------
(* Properties.                                                             *)

TypeOK ==
  /\ \A n \in DOMAIN logical : \A k \in DOMAIN logical[n].kids : logical[n].kids[k] \in 1..(n - 1)
  /\ memo \in Seq(Groups) /\ Len(payloads) = Len(memo)
  /\ \A i \in DOMAIN index : index[i].group \in DOMAIN memo
  /\ counters \in [candidates : Nat, shared : Nat, joins : Nat, regions : Nat]
  /\ groupOf \in [DOMAIN logical -> 0..Len(memo)]
  /\ \A i \in DOMAIN calls :
       /\ calls[i].node \in DOMAIN logical
       /\ calls[i].stage \in {"enter", "collected", "node", "region", "ranges"}
       /\ calls[i].inputs \in Seq(DOMAIN memo)
       /\ calls[i].built \in [DOMAIN calls[i].built -> DOMAIN memo]

(* The memo handed to the search is one it can search: every candidate     *)
(* reads groups added before its own, and the plan's root is the last.     *)
ExploredMemo ==
  outcome = "explored" => WellFormed(memo) /\ groupOf[RootNode] = Len(memo)

(* What a conjunct, or a join key, says: a test of columns named by their  *)
(* place in the inputs' schemas, whatever number they have there.          *)
Said(c, columns) ==
  [test |-> c.test, on |-> {columns[c.cols[k] + 1] : k \in DOMAIN c.cols}]

SaidByKey(k, left, right) ==
  [test |-> "=", on |-> {left[k.left + 1], right[k.right + 1]}]

SaidBy(a) ==
  IF Len(a.inputs) # 2 THEN <<>>
  ELSE LET left == payloads[a.inputs[1]].output right == payloads[a.inputs[2]].output IN
       [i \in DOMAIN a.predicate.keys |-> SaidByKey(a.predicate.keys[i], left, right)]
         \o [i \in DOMAIN a.predicate.residual |->
               Said(a.predicate.residual[i], left \o right)]

(* Only joins have conjuncts, and two inputs to test.                      *)
InputColumns(n) ==
  logical[logical[n].kids[1]].output \o logical[logical[n].kids[2]].output

SaidAt(n) == [i \in DOMAIN logical[n].predicate |->
                Said(logical[n].predicate[i], InputColumns(n))]

Occurrences(m, said) == Cardinality({i \in DOMAIN said : said[i] = m})

(* How often each node's subplan asks for the test m; how often a join     *)
(* associated as in a makes it, given how often its inputs' groups do; and *)
(* how often each group's plans make it, along their first associations.   *)
OverInputs(f, inputs) ==
  CASE Len(inputs) = 0 -> 0
    [] Len(inputs) = 1 -> f[inputs[1]]
    [] OTHER           -> f[inputs[1]] + f[inputs[2]]

Asked(m) ==
  FoldLeft(LAMBDA asked, n :
             Append(asked, Occurrences(m, SaidAt(n)) + OverInputs(asked, logical[n].kids)),
           <<>>, [n \in DOMAIN logical |-> n])

MadeBy(m, a, made) ==
  Occurrences(m, SaidBy(a)) + OverInputs(made, a.inputs)

Made(m) ==
  FoldLeft(LAMBDA made, p : Append(made, MadeBy(m, p.associations[1], made)), <<>>, payloads)

Tests == UNION {{SaidAt(n)[i] : i \in DOMAIN SaidAt(n)} : n \in DOMAIN logical}

(* However the joins are associated, a plan makes every test of columns    *)
(* the query asks for, exactly as often, and on the very columns named.    *)
ConjunctsAppliedOnce ==
  outcome = "explored" =>
    \A m \in {test \in Tests : test.on # {}} : \E made \in {Made(m)} :
      /\ made[groupOf[RootNode]] = Asked(m)[RootNode]
      /\ \A g \in DOMAIN payloads : \A i \in DOMAIN payloads[g].associations :
           MadeBy(m, payloads[g].associations[i], made) = made[g]

(* Every association of a join yields the group's columns, in its order;   *)
(* and a node's group has the columns that the node's consumers number.    *)
SplitsAgree ==
  \A g \in DOMAIN payloads :
    Len(payloads[g].associations) > 1 =>
      \A i \in DOMAIN payloads[g].associations :
        LET inputs == payloads[g].associations[i].inputs IN
        payloads[inputs[1]].output \o payloads[inputs[2]].output = payloads[g].output

ColumnsKept ==
  \A n \in DOMAIN groupOf :
    groupOf[n] # 0 => payloads[groupOf[n]].output = logical[n].output

AssociationsAgree == SplitsAgree /\ ColumnsKept

(* Two nodes that say the same, each of an operator and of expressions the *)
(* structural key compares; they may spell their equalities differently.   *)
Alike(a, b) ==
  /\ <<logical[a].op, logical[a].text, logical[a].output, logical[a].payload>> =
       <<logical[b].op, logical[b].text, logical[b].output, logical[b].payload>>
  /\ \A m \in Tests : Occurrences(m, SaidAt(a)) = Occurrences(m, SaidAt(b))
  /\ \A n \in {a, b} :
       /\ logical[n].comparable
       /\ \A i \in DOMAIN logical[n].predicate : logical[n].predicate[i].comparable

Identical(a, b) == Alike(a, b) /\ logical[a].predicate = logical[b].predicate

Pairs == {p \in (DOMAIN logical) \X (DOMAIN logical) : p[1] < p[2]}

(* The same down to the leaves.                                            *)
SameSubtrees(related(_, _)) ==
  LET same[p \in (DOMAIN logical) \X (DOMAIN logical)] ==
        LET a == logical[p[1]].kids
            b == logical[p[2]].kids
        IN  /\ related(p[1], p[2])
            /\ Len(a) = Len(b)
            /\ \A i \in DOMAIN a : same[<<a[i], b[i]>>]
  IN  {p \in Pairs : same[p]}

(* Only equivalent subtrees share a group; and with dedup on and no join   *)
(* re-associated, identical ones do.                                       *)
SharedIfSame ==
  outcome = "explored" =>
    /\ {p \in Pairs : groupOf[p[1]] = groupOf[p[2]] /\ groupOf[p[1]] # 0}
         \subseteq SameSubtrees(Alike)
    /\ context.dedup /\ counters.regions = 0 =>
         \A p \in SameSubtrees(Identical) : groupOf[p[1]] = groupOf[p[2]]

(* Every logical join is counted once, whether its region was associated,  *)
(* declined or shared: the count decides about the budget guard.           *)
CountersAgree ==
  outcome = "explored" =>
    /\ counters.joins = Cardinality({n \in DOMAIN logical : logical[n].op = "Join"})
    /\ counters.candidates = FoldLeft(LAMBDA sum, g : sum + Len(g.exprs), 0, memo)
    /\ counters.regions = 0 => Len(memo) + counters.shared = Len(logical)

(* Where every join tests one equality and nothing else, all associations  *)
(* of a range are estimated to yield the same rows, those of its group.    *)
(* With two equalities between two tables they are not, although           *)
(* lowering.cpp:412 says so: a range is then estimated by its first split. *)
SingleEquiJoins ==
  \A g \in DOMAIN payloads : \A i \in DOMAIN payloads[g].associations :
    LET join == payloads[g].associations[i] IN
    Len(join.inputs) = 2 => Len(join.predicate.keys) = 1 /\ join.predicate.residual = <<>>

RowsAgree ==
  SingleEquiJoins =>
    \A g \in DOMAIN payloads : \A i \in DOMAIN payloads[g].associations :
      Len(payloads[g].associations) > 1 =>
        AssociationRows(payloads[g].associations[i]) = memo[g].rows

(* The tree as the query wrote it is among those a region's group offers,  *)
(* unless one of its joins does not relate its two sides.                  *)
Relates(n) ==
  \E i \in DOMAIN logical[n].predicate :
    LET cols  == {logical[n].predicate[i].cols[k] : k \in DOMAIN logical[n].predicate[i].cols}
        width == Width(logical, logical[n].kids[1])
    IN  (\E x \in cols : x < width) /\ (\E x \in cols : x >= width)

WrittenTreeOffered ==
  LET offered[n \in DOMAIN logical] ==
        [g \in DOMAIN memo |->
           IF groupOf[n] # 0 THEN groupOf[n] = g
           ELSE \E i \in DOMAIN payloads[g].associations :
                  LET inputs == payloads[g].associations[i].inputs IN
                  /\ Len(inputs) = Len(logical[n].kids)
                  /\ \A k \in DOMAIN inputs : offered[logical[n].kids[k]][inputs[k]]]
      written(n) ==
        \E i \in DOMAIN payloads[groupOf[n]].associations :
          LET inputs == payloads[groupOf[n]].associations[i].inputs IN
          \A k \in DOMAIN inputs : offered[logical[n].kids[k]][inputs[k]]
  IN  /\ outcome = "explored"
      /\ \A n \in DOMAIN logical : Reorderable(logical, n) => Relates(n)
      => \A n \in DOMAIN logical : groupOf[n] # 0 => written(n)
=============================================================================
