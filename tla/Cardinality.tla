----------------------------- MODULE Cardinality -----------------------------
(***************************************************************************)
(* The cardinality model of src/src/cost.cpp: how many rows an operator    *)
(* emits, from its inputs' row counts and its own payload, and the rows of *)
(* a whole query, bottom up.                                               *)
(*                                                                         *)
(* A query is a sequence of nodes, inputs before the operators over them.  *)
(* `card' is the source's CardinalityModel: row counts of base tables, the *)
(* flat fractions, and a catalog of statistics, which may be empty.        *)
(***************************************************************************)
EXTENDS Selectivity, PhysicalProperties

NoStatistics == [rows |-> <<>>, columns |-> <<>>]

FractionOf(rows, fraction) == (rows * fraction) \div Whole

HasStatistics(card) == card.stats # NoStatistics

Narrowed(rows, n, card) ==
  FoldFunction(LAMBDA x, r : FractionOf(r, x), rows, [i \in 1..n |-> card.joinSelectivity])
-----------------------------------------------------------------------------
(* Seeded defect: an empty side does not empty the join.                   *)
JoinRowsUncapped(l, r, join, card) ==
  LET denom == Most(join.left, join.right)
      contained == IF join.keys = 0 THEN l * r
                   ELSE IF denom > 0 THEN (l * r) \div denom ELSE Most(l, r)
  IN  Narrowed(contained, Most(join.keys - 1, 0) + join.residuals, card)

(* An equi-join is contained by its first key, by its distinct values if   *)
(* they are known; every further conjunct narrows it.                      *)
JoinRows(l, r, join, card) ==
  LET denom == Most(join.left, join.right)
      contained == IF join.keys = 0 THEN l * r
                   ELSE IF denom > 0 THEN (l * r) \div denom ELSE Most(l, r)
  IN  Least(Narrowed(contained, Most(join.keys - 1, 0) + join.residuals, card), l * r)

(* Seeded defect: the fraction may exceed one.                             *)
SemiJoinFractionOver(join, card) ==
  IF join.keys = 0 \/ join.left = 0 \/ join.right = 0 THEN card.joinSelectivity
  ELSE Narrowed((join.right * Whole) \div join.left, join.keys - 1 + join.residuals, card)

(* What fraction of its left input a semi join keeps.                      *)
SemiJoinFraction(join, card) ==
  IF join.keys = 0 \/ join.left = 0 \/ join.right = 0 THEN card.joinSelectivity
  ELSE Clip(Narrowed((join.right * Whole) \div join.left,
                     join.keys - 1 + join.residuals, card), 0, Whole)

(* Seeded defect: an OFFSET beyond the end leaves fewer rows than none.    *)
RowsOutBelowZero(limits, n) ==
  LET rest == n - Most(limits.offset, 0)
  IN  IF limits.limit >= 0 THEN Least(rest, limits.limit) ELSE rest

(* OFFSET drops rows first, then LIMIT caps what is left; -1: not given.   *)
RowsOut(limits, n) ==
  LET rest == Most(n - Most(limits.offset, 0), 0)
  IN  IF limits.limit >= 0 THEN Least(rest, limits.limit) ELSE rest

SetRows(setOp, l, r, card) ==
  CASE setOp = "Union"        -> FractionOf(l + r, card.distinctSelectivity)
    [] setOp = "UnionAll"     -> l + r
    [] setOp = "Intersect"    -> FractionOf(Least(l, r), card.distinctSelectivity)
    [] setOp = "IntersectAll" -> Least(l, r)
    [] setOp = "Except"       -> FractionOf(l, card.distinctSelectivity)
    [] OTHER                  -> l

(* The one row of a scalar aggregate; as many as there are groups; or a    *)
(* flat fraction.  Every grouping set, the empty one too, is a fraction.   *)
AggregateRows(op, in, spec, card) ==
  IF op = "HashGroupingSets"
  THEN IF spec.sets = 0 THEN 1 ELSE FractionOf(in, card.groupSelectivity) * spec.sets
  ELSE IF spec.keyCount = 0 THEN 1
  ELSE IF spec.groups > 0 THEN Least(spec.groups, in)
  ELSE FractionOf(in, card.groupSelectivity)

OperatorRows(op, in, spec, card) ==
  CASE op = "SeqScan" ->
         IF spec.table \in DOMAIN card.baseRows THEN card.baseRows[spec.table]
         ELSE card.defaultBase
    [] op = "Filter"  -> FractionOf(in[1], IF spec.selectivity >= 0 THEN spec.selectivity
                                           ELSE card.filterSelectivity)
    [] op \in Joins   -> JoinRows(in[1], in[2], spec.join, card)
    [] op \in {"HashSemiJoin", "NestedLoopSemiJoin"} ->
         FractionOf(in[1], SemiJoinFraction(spec.join, card))
    [] op \in {"HashAntiJoin", "NestedLoopAntiJoin"} ->
         FractionOf(in[1], Whole - SemiJoinFraction(spec.join, card))
    [] op \in Aggregates          -> AggregateRows(op, in[1], spec, card)
    [] op \in Distincts           -> FractionOf(in[1], card.distinctSelectivity)
    [] op = "UnionAll"            -> in[1] + in[2]
    [] op = "HashSetOp"           -> SetRows(spec.setOp, in[1], in[2], card)
    [] op = "ValuesScan"          -> spec.values
    [] op = "Limit"               -> RowsOut(spec.limits, in[1])
    [] op = "WorkingTableScan"    -> card.workingTableRows
    [] op = "RecursiveFixpoint"   ->
         LET all == in[1] + card.recursiveIterations * in[2]
         IN  IF spec.setOp \in {"Union", "Intersect", "Except"}
             THEN FractionOf(all, card.distinctSelectivity) ELSE all
    [] OTHER                      -> in[1]
-----------------------------------------------------------------------------
(* What the estimators make of a node's payload, if there are statistics.  *)
FilterSpec(n, card, in) ==
  [selectivity |-> IF HasStatistics(card) /\ n.op = "Filter"
                   THEN SelectivityOf(n.predicate, card.stats) ELSE -1,
   groups      |-> IF HasStatistics(card) /\ n.op \in Aggregates
                   THEN DistinctGroups(n.groupKeys, in[1], card.stats) ELSE 0]

JoinSpec(n, card) ==
  LET ndv == IF HasStatistics(card) THEN JoinKeyNdv(n.keys, card.stats)
             ELSE [left |-> 0, right |-> 0]
  IN  [keys |-> Len(n.keys), residuals |-> n.residuals, left |-> ndv.left, right |-> ndv.right]

NodeRows(n, in, card) ==
  LET filter == FilterSpec(n, card, in) IN
  OperatorRows(n.op, in,
    [table |-> n.table, selectivity |-> filter.selectivity, groups |-> filter.groups,
     keyCount |-> Len(n.groupKeys), sets |-> n.sets, setOp |-> n.setOp,
     values |-> n.values, limits |-> n.limits, join |-> JoinSpec(n, card)], card)

(* CardinalityModel::rows(), of every node.                                *)
EstimatedRows(query, card) ==
  LET rows[i \in DOMAIN query] ==
        NodeRows(query[i], [k \in DOMAIN query[i].kids |-> rows[query[i].kids[k]]], card)
  IN  rows
=============================================================================
