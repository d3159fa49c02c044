------------------------------ MODULE MCMemos -------------------------------
(***************************************************************************)
(* The explored memos the model checker plans, one per query shape, and    *)
(* the default calibration in twentieths of the source's unit.             *)
(***************************************************************************)
EXTENDS Candidates

Sizes == INSTANCE Cardinality WITH
  Whole <- 4, MinSel <- 1, Defaults <- [equality |-> 1, inequality |-> 1, unknown |-> 1]

MCCalibration ==
  [scan |-> 20, columnScan |-> 7, filter |-> 10, project |-> 6, hashBuild |-> 24,
   hashProbe |-> 16, merge |-> 8, nestedLoop |-> 6, sort |-> 20, convert |-> 12,
   limit |-> 2, hashAggregate |-> 22, groupingSet |-> 24, streamingAggregate |-> 10,
   window |-> 14, hashDistinct |-> 20, streamingDistinct |-> 8, unionAll |-> 3,
   setOp |-> 20, values |-> 1, recursive |-> 12, workingTable |-> 10,
   tableWrite |-> 40, exchange |-> 240, clusterNodes |-> 1]

RowStore    == [format |-> "Row", freshness |-> "Fresh"]
ColumnStore == [format |-> "Column", freshness |-> "Fresh"]
StaleColumn == [format |-> "Column", freshness |-> "Stale"]

Key(l, r) == [left |-> l, right |-> r]
By(c)     == <<Ascending(c)>>

(* What a call without statistics estimates.  Scans, VALUES lists and      *)
(* working tables have the rows they are given here, a LIMIT is its count. *)
FlatModel ==
  [baseRows |-> <<>>, defaultBase |-> 0, stats |-> Sizes!NoStatistics,
   filterSelectivity |-> 1, joinSelectivity |-> 2, groupSelectivity |-> 4,
   distinctSelectivity |-> 2, recursiveIterations |-> 3, workingTableRows |-> 4]

MCRowsOf(e, g, in) ==
  IF e.inputs = <<>> THEN g.rows
  ELSE Sizes!OperatorRows(e.op, in,
         [selectivity |-> -1, groups |-> 0, keyCount |-> g.split, sets |-> g.sets,
          setOp |-> g.setOp, limits |-> [limit |-> g.rows, offset |-> 0],
          join |-> [keys |-> Len(e.keys), residuals |-> e.residuals, left |-> 0, right |-> 0]],
         FlatModel)

(* explore() estimates a group by the first operator that implements it,   *)
(* applicable or not.                                                      *)
FrontOf(e) ==
  [e EXCEPT !.op = CASE @ = "HashGroupingSets" -> "HashAggregate"
                     [] @ = "HashSetOp"        -> "UnionAll"
                     [] OTHER                  -> @]

Estimated(m) ==
  LET rows[g \in DOMAIN m] ==
        LET front == FrontOf(m[g].exprs[1])
        IN  MCRowsOf(front, m[g], [k \in DOMAIN front.inputs |-> rows[front.inputs[k]]])
  IN  [g \in DOMAIN m |-> [m[g] EXCEPT !.rows = rows[g]]]

(* One group per logical node.                                             *)
Scan(rows, stores, dist) ==
  AddCandidates([EmptyGroup EXCEPT !.rows = rows, !.scanDist = dist],
                BuiltinPhysical("Scan"), stores, <<>>, <<>>, 0)

LogicalNode(logicalOp, payload, inputs, keys) ==
  AddCandidates(payload, BuiltinPhysical(logicalOp), NoFormats, inputs, keys, 0)

Plain(logicalOp, inputs) == LogicalNode(logicalOp, EmptyGroup, inputs, <<>>)

Counted(logicalOp, rows, inputs) ==
  LogicalNode(logicalOp, [EmptyGroup EXCEPT !.rows = rows], inputs, <<>>)

Combined(setOp, inputs) ==
  LogicalNode("SetOp", [EmptyGroup EXCEPT !.setOp = setOp], inputs, <<>>)

Ordered(logicalOp, sortKeys, split, inputs) ==
  LogicalNode(logicalOp, [EmptyGroup EXCEPT !.sortKeys = sortKeys, !.split = split], inputs, <<>>)

GroupingSets(sortKeys, sets, inputs) ==
  LogicalNode("Aggregate",
    [EmptyGroup EXCEPT !.sortKeys = sortKeys, !.split = Len(sortKeys), !.sets = sets],
    inputs, <<>>)

Projecting(columns, inputs) ==
  LogicalNode("Project", [EmptyGroup EXCEPT !.projects = columns], inputs, <<>>)

(* A join group with several associations, as the reordering DP builds.    *)
JoinOf(splits, ops) ==
  FoldLeft(LAMBDA g, s : AddCandidates(g, ops, NoFormats, s.inputs, s.keys, 0),
           EmptyGroup, splits)

Split(l, r, k) == [inputs |-> <<l, r>>, keys |-> <<k>>]

Join(l, r, k) == JoinOf(<<Split(l, r, k)>>, BuiltinPhysical("Join"))

SemiJoin(l, r, k) == LogicalNode("SemiJoin", EmptyGroup, <<l, r>>, <<k>>)
-----------------------------------------------------------------------------
(* Query shapes.                                                           *)

(* SELECT .. FROM t WHERE ..: the smallest push-down choice, over a table  *)
(* kept in two formats of which the columnar one lags.                     *)
FilteredScan(stores, dist) ==
  Estimated(<<Scan(8, stores, dist), Plain("Filter", <<1>>), Projecting(<<0, 1>>, <<2>>)>>)

(* a JOIN b ON a.0 = b.0 JOIN c ON b.1 = c.0, of two columns each, in the  *)
(* order in which the reordering DP explores the ranges.                   *)
JoinChainOf(ops, dist, a, b, c) ==
  Estimated(
  << Scan(a, <<RowStore, ColumnStore>>, dist), Scan(b, <<RowStore>>, dist),
     Scan(c, <<RowStore>>, dist),
     JoinOf(<<Split(1, 2, Key(0, 0))>>, ops),
     JoinOf(<<Split(2, 3, Key(1, 0))>>, ops),
     JoinOf(<<Split(1, 5, Key(0, 0)), Split(4, 3, Key(3, 0))>>, ops) >>)

JoinChain(ops, dist) == JoinChainOf(ops, dist, 16, 2, 4)

BuiltinJoins == BuiltinPhysical("Join")
MergingJoins == <<"HashJoin", "MergeJoin", "NestedLoopJoin">>

(* WITH g AS (SELECT k, count( * ) FROM t GROUP BY k) used twice: grouped  *)
(* again, and under a window partitioned by k; dedup shares the group.     *)
SharedAggregate(dist) ==
  Estimated(
  << Scan(8, <<RowStore>>, dist),
     Ordered("Aggregate", By(0), 1, <<1>>),
     Ordered("Aggregate", By(0), 1, <<2>>),
     Ordered("Window", By(0), 0, <<2>>),
     Join(3, 4, Key(0, 0)) >>)

(* SELECT DISTINCT .. FROM a UNION ALL SELECT .. LIMIT n ORDER BY k.       *)
Union(dist) ==
  Estimated(
  << Scan(4, <<RowStore, StaleColumn>>, dist), Scan(2, <<ColumnStore>>, dist),
     Combined("UnionAll", <<1, 2>>),
     Ordered("Distinct", <<Ascending(0), Ascending(1)>>, 0, <<3>>),
     Counted("Limit", 2, <<4>>),
     Ordered("Sort", By(1), 0, <<5>>) >>)

(* SELECT .. FROM a INTERSECT VALUES .. GROUP BY GROUPING SETS ((0), ()).  *)
Intersection ==
  Estimated(
  << Scan(16, <<RowStore, StaleColumn>>, Single), Counted("Values", 8, <<>>),
     Combined("Intersect", <<1, 2>>), GroupingSets(By(0), 2, <<3>>) >>)

(* SELECT .. FROM t GROUP BY CUBE (0, 1) ORDER BY 0.                       *)
SortOverCube ==
  Estimated(
  << Scan(8, <<RowStore>>, Single),
     GroupingSets(<<Ascending(0), Ascending(1)>>, 4, <<1>>),
     Ordered("Sort", By(0), 0, <<2>>) >>)

(* WITH RECURSIVE r AS (SELECT .. FROM t UNION SELECT .. FROM r JOIN t).   *)
Recursive ==
  Estimated(
  << Scan(4, <<RowStore, ColumnStore>>, Single),
     Counted("WorkingTableScan", 4, <<>>),
     Join(2, 1, Key(0, 0)),
     Plain("RecursiveCTE", <<1, 3>>),
     Plain("Filter", <<4>>) >>)

(* WITH RECURSIVE r AS (SELECT .. FROM t UNION SELECT .. FROM r WHERE ..): *)
(* nothing here wants its rows anywhere else.                              *)
RecursiveFilter ==
  Estimated(
  << Scan(4, <<RowStore, ColumnStore>>, Single),
     Counted("WorkingTableScan", 8, <<>>),
     Plain("Filter", <<2>>),
     Plain("RecursiveCTE", <<1, 3>>) >>)

(* UPDATE / DELETE / CREATE TABLE AS over a filtered scan.                 *)
Write(logicalOp, stores, dist) ==
  Estimated(<<Scan(8, stores, dist), Plain("Filter", <<1>>), Plain(logicalOp, <<2>>)>>)

(* UPDATE t .. FROM u: the rows to modify come from a join.                *)
UpdateJoin(stores) ==
  Estimated(
  << Scan(4, stores, Single), Scan(2, <<RowStore>>, Single),
     Join(1, 2, Key(0, 0)), Plain("Update", <<3>>) >>)

(* SELECT .. FROM a WHERE EXISTS (..) GROUP BY k ORDER BY k.               *)
SemiAggregate(rows) ==
  Estimated(
  << Scan(8, <<RowStore, StaleColumn>>, Single), Counted("Values", rows, <<>>),
     SemiJoin(1, 2, Key(0, 0)),
     Ordered("Aggregate", By(0), 1, <<3>>),
     Ordered("Sort", By(0), 0, <<4>>) >>)

(* SELECT DISTINCT .. OVER (PARTITION BY 0) FROM (SELECT .. ORDER BY 0, 1),*)
(* over a table kept in columns only.                                      *)
WindowOverSort ==
  Estimated(
  << Scan(4, <<ColumnStore>>, Single),
     Ordered("Sort", <<Ascending(0), Ascending(1)>>, 0, <<1>>),
     Ordered("Window", By(0), 0, <<2>>),
     Ordered("Distinct", <<Ascending(0), Ascending(1)>>, 0, <<3>>) >>)

(* SELECT .. OVER (PARTITION BY 0) FROM (SELECT .. LIMIT 0): groups of no  *)
(* rows, on which every enforcer is free.                                  *)
WindowOverNothing ==
  Estimated(
  << Scan(4, <<ColumnStore>>, Single), Counted("Limit", 0, <<1>>), Plain("Filter", <<2>>),
     Ordered("Window", By(0), 0, <<3>>) >>)
-----------------------------------------------------------------------------
(* What a consumer may require.                                            *)
Require(sort, format, freshness, dist) ==
  [sort |-> sort, format |-> format, freshness |-> freshness, dist |-> dist]

LocalRequirements ==
  { Require(s, f, r, AnyDist) :
      s \in {<<>>, By(0), <<Ascending(0), Ascending(1)>>}, f \in {"Any", "Row", "Column"}, r \in {"Any", "Fresh"} }

(* On a cluster the consumer may also ask for the rows to be somewhere.    *)
PlacedRequirements ==
  { Require(s, f, "Any", d) : s \in {<<>>, By(0)}, f \in {"Any", "Row"},
      d \in {AnyDist, Single, HashedOn({0})} }

AllModes == [prune : BOOLEAN, greedy : BOOLEAN]
=============================================================================
