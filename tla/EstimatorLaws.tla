---------------------------- MODULE EstimatorLaws ----------------------------
(***************************************************************************)
(* What the estimates of different queries have to do with each other, for *)
(* the queries the sessions of PlanCache ask: estimates are numbers nobody *)
(* can call wrong one at a time, but a plan is chosen by comparing them.   *)
(***************************************************************************)
EXTENDS PlanCache

Predicates   == {query.nodes[i].predicate : <<query, i>> \in
                   {<<q, i>> \in workload.queries \X (1..8) : i \in DOMAIN q.nodes}}
Models       == {context.card : context \in workload.contexts}
Fraction(pred, card) == SelectivityOf(pred, card.stats)

(* The predicate's last node, and the predicate each of its operands is.   *)
TopOf(pred) == pred[Len(pred)]
Operand(pred, k) == SubSeq(pred, 1, TopOf(pred).kids[k])
-----------------------------------------------------------------------------
FromTheRight ==
  [Equal |-> "Equal", NotEqual |-> "NotEqual", LessThan |-> "GreaterThan",
   GreaterThan |-> "LessThan", LessEqual |-> "GreaterEqual", GreaterEqual |-> "LessEqual"]

TurnedRound(pred) ==
  [i \in DOMAIN pred |->
     IF pred[i].kind # "compare" THEN pred[i]
     ELSE [pred[i] EXCEPT !.op = FromTheRight[@], !.left = pred[i].right, !.right = pred[i].left]]

Sides(n) == {n.left.kind, n.right.kind}

Constant(n) == n.kind = "compare" /\ "column" \in Sides(n) /\ Sides(n) # {"column"}

(* `1000 < salary' and `salary > 1000' are the same predicate, and keep    *)
(* the same fraction, wherever in a larger predicate they stand.           *)
SpellingIrrelevant ==
  \A pred \in Predicates, card \in Models :
    pred # <<>> /\ (\A i \in DOMAIN pred : pred[i].kind = "compare" => Constant(pred[i])) =>
      Fraction(TurnedRound(pred), card) = Fraction(pred, card)

(* An AND keeps no more than any of its operands, an OR no less than any   *)
(* and no more than all of them together.                                  *)
FractionsCompose ==
  \A pred \in Predicates, card \in Models :
    pred # <<>> /\ TopOf(pred).kind \in {"and", "or"} =>
      LET whole   == Fraction(pred, card)
          part(k) == Fraction(Operand(pred, k), card)
      IN  /\ \A k \in 1..2 : IF TopOf(pred).kind = "and" THEN whole <= part(k)
                                                         ELSE whole >= part(k)
          /\ TopOf(pred).kind = "or" => whole <= part(1) + part(2)

(* The comparisons that exclude each other and leave nothing out.          *)
Opposite(op) ==
  CASE op = "LessThan" -> "GreaterEqual" [] op = "GreaterThan" -> "LessEqual"
    [] op = "Equal" -> "NotEqual" [] OTHER -> op

Estimable(n, card) ==
  /\ Constant(n)
  /\ LET column == IF n.left.kind = "column" THEN n.left ELSE n.right
         other  == IF n.left.kind = "column" THEN n.right ELSE n.left
     IN  /\ Known(column, card.stats)
         /\ IF n.op \in Equalities
            THEN StatsFor(column, card.stats).ndv > 0 /\ other.kind # "null"
            ELSE StatsFor(column, card.stats).range # <<>> /\ other.kind = "number"

NonNullOf(n, card) ==
  NonNull(StatsFor(IF n.left.kind = "column" THEN n.left ELSE n.right, card.stats))

(* A comparison with a constant and its opposite share out the rows that   *)
(* are not NULL, no row to both and none to neither; up to the sliver the  *)
(* estimator never goes below.                                             *)
ComparisonsPartition ==
  \A pred \in Predicates, card \in Models :
    \A i \in DOMAIN pred :
      LET n == pred[i]
          keeps(op) == Fraction(<<[n EXCEPT !.op = op]>>, card)
      IN  n.kind = "compare" /\ Opposite(n.op) # n.op /\ Estimable(n, card) =>
            keeps(n.op) + keeps(Opposite(n.op)) - NonNullOf(n, card) \in 0..MinSel
-----------------------------------------------------------------------------
KeysOf(n, card) == JoinSpec(n, card)
Turned(join)    == [join EXCEPT !.left = join.right, !.right = join.left]

SomeRows == {0, 1, 16, 64}

Estimate(n, op, in, card) ==
  NodeRows([n EXCEPT !.op = op], in, card)

(* A join returns no more than every pair, the same number whichever of    *)
(* its inputs is called left; the rows a semi join keeps and those the     *)
(* anti join keeps are the left input, each row once.                      *)
JoinsBounded ==
  \A query \in workload.queries, card \in Models : \A i \in DOMAIN query.nodes :
    LET n == query.nodes[i] IN
    n.op \in Joins =>
      \A l, r \in SomeRows :
        /\ JoinRows(l, r, KeysOf(n, card), card) <= l * r
        /\ JoinRows(l, r, KeysOf(n, card), card) = JoinRows(r, l, Turned(KeysOf(n, card)), card)
        /\ Estimate(n, "HashSemiJoin", <<l, r>>, card)
             + Estimate(n, "HashAntiJoin", <<l, r>>, card) - l \in {0, -1}
        /\ Estimate(n, "HashSemiJoin", <<l, r>>, card) >= 0
        /\ Estimate(n, "HashAntiJoin", <<l, r>>, card) >= 0

(* More rows in never means fewer rows out, and nothing means less than no *)
(* rows: an operator over a larger input is never priced as the smaller.   *)
EstimatesMonotone ==
  \A query \in workload.queries, card \in Models : \A i \in DOMAIN query.nodes :
    LET n == query.nodes[i]
        rows(in) == NodeRows(n, in, card)
    IN  \A l, r, more \in SomeRows :
          /\ rows(<<l, r>>) >= 0
          /\ l <= more => rows(<<l, r>>) <= rows(<<more, r>>)
          /\ r <= more => rows(<<l, r>>) <= rows(<<l, more>>)
=============================================================================
