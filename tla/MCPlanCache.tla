----------------------------- MODULE MCPlanCache -----------------------------
(* Sessions that share a plan cache, and the estimates of what they ask.   *)
EXTENDS EstimatorLaws

Unit == 4096   \* the fraction one: a power of two, so that halves are exact

MCDefaults == [equality |-> 32, inequality |-> 1024, unknown |-> 512]

ColumnStats(ndv, nulls, range, unique) ==
  [ndv |-> ndv, nulls |-> nulls, range |-> range, unique |-> unique]

(* A table of two columns, the second of one value only, and a table whose *)
(* only column is known to be unique and nothing else.                     *)
Measured ==
  [rows    |-> (1 :> 64) @@ (2 :> 16),
   columns |-> (<<1, 1>> :> ColumnStats(4, 1024, <<0, 8>>, FALSE))
            @@ (<<1, 2>> :> ColumnStats(1, 0, <<3, 3>>, FALSE))
            @@ (<<2, 1>> :> ColumnStats(0, 0, <<>>, TRUE))]

Remeasured == [Measured EXCEPT !.columns[<<1, 1>>].ndv = 2]

CardOf(stats) ==
  [baseRows |-> ("t" :> 64) @@ ("u" :> 16), defaultBase |-> 32, filterSelectivity |-> 512,
   joinSelectivity |-> 1024, groupSelectivity |-> 512, distinctSelectivity |-> 2048,
   recursiveIterations |-> 3, workingTableRows |-> 8, stats |-> stats]

BaseContext ==
  [calibration |-> "default", card |-> CardOf(NoStatistics), storage |-> {"row"},
   distribution |-> "none", freshness |-> "Any", required |-> Unconstrained, prune |-> TRUE,
   dedup |-> FALSE, reorder |-> TRUE, maxJoins |-> 0, rules |-> [version |-> 1]]
-----------------------------------------------------------------------------
(* Queries.                                                                *)
Node(op, kids) ==
  [op |-> op, kids |-> kids, table |-> "", predicate |-> <<>>, keys |-> <<>>,
   residuals |-> 0, groupKeys |-> <<>>, sets |-> 0, setOp |-> "Union", values |-> 0,
   limits |-> [limit |-> -1, offset |-> -1]]

TableScan(t) == [Node("SeqScan", <<>>) EXCEPT !.table = t]

Asking(nodes, spelling) == [nodes |-> nodes, spelling |-> spelling]

Column(t, c) == [kind |-> "column", column |-> <<t, c>>]
Expression   == [kind |-> "column", column |-> Computed]
Number(v)    == [kind |-> "number", value |-> v]
Text         == [kind |-> "text"]
Null         == [kind |-> "null"]

Compare(op, l, r) == [kind |-> "compare", op |-> op, left |-> l, right |-> r, kids |-> <<>>]
IsNull(l, neg)    == [kind |-> "isNull", left |-> l, negated |-> neg, kids |-> <<>>]
Between(l, a, b, neg) ==
  [kind |-> "between", left |-> l, low |-> a, high |-> b, negated |-> neg, kids |-> <<>>]
InList(l, n, neg) == [kind |-> "inList", left |-> l, count |-> n, negated |-> neg, kids |-> <<>>]
Like              == [kind |-> "like", kids |-> <<>>]

TwoOf(kind, a, b) == <<a, b, [kind |-> kind, kids |-> <<1, 2>>]>>
NotOf(a)          == <<a, [kind |-> "not", kids |-> <<1>>]>>

AllColumns == {Column(1, 1), Column(1, 2), Column(2, 1), Expression}
Constants  == {Number(-1), Number(0), Number(3), Number(4), Number(8), Text, Null}

Comparisons ==
  {Compare(op, l, r) : op \in Equalities \cup Inequalities, l \in AllColumns, r \in Constants}
    \cup {Compare(op, r, l) : op \in {"LessThan", "GreaterEqual", "Equal"},
                              l \in {Column(1, 1), Column(1, 2)}, r \in {Number(3), Null}}
    \cup {Compare("Equal", Column(1, 1), Column(2, 1))}

OtherTests ==
  {IsNull(l, neg) : l \in AllColumns, neg \in BOOLEAN}
    \cup {Between(l, Number(a), Number(4), neg) :
            l \in AllColumns, a \in {0, 3, 8}, neg \in BOOLEAN}
    \cup {Between(Column(1, 1), Text, Number(4), FALSE), Like}
    \cup {InList(l, n, neg) : l \in AllColumns, n \in {0, 1, 5}, neg \in BOOLEAN}

(* Those that make the operands of larger ones.                            *)
Operands ==
  { Compare("LessThan", Column(1, 1), Number(4)), Compare("Equal", Column(1, 1), Number(3)),
    Compare("GreaterThan", Number(3), Column(1, 2)), Compare("NotEqual", Column(1, 1), Text),
    IsNull(Column(1, 1), FALSE), InList(Column(1, 1), 5, TRUE), Like }

Tests ==
  {<<t>> : t \in Comparisons \cup OtherTests}
    \cup {TwoOf(kind, a, b) : kind \in {"and", "or"}, a \in Operands, b \in Operands}
    \cup {NotOf(a) : a \in Operands}

Where(pred) ==
  <<TableScan("t"), [Node("Filter", <<1>>) EXCEPT !.predicate = pred]>>

JoinKey(l, r) == [left |-> l, right |-> r]

JoinsOn ==
  { <<>>, <<JoinKey(Column(1, 1), Column(2, 1))>>, <<JoinKey(Column(2, 1), Column(1, 1))>>,
    <<JoinKey(Expression, Column(2, 1))>>,
    <<JoinKey(Column(1, 1), Column(2, 1)), JoinKey(Column(1, 2), Column(2, 1))>> }

JoinedOn(op, keys, residuals) ==
  <<TableScan("t"), TableScan("u"),
    [Node(op, <<1, 2>>) EXCEPT !.keys = keys, !.residuals = residuals]>>

Limited(limit, offset) ==
  <<TableScan("t"), [Node("Limit", <<1>>) EXCEPT !.limits = [limit |-> limit, offset |-> offset]]>>

Grouped(op, keys, sets) ==
  <<TableScan("t"), [Node(op, <<1>>) EXCEPT !.groupKeys = keys, !.sets = sets]>>

Combined(op, setOp) ==
  <<TableScan("t"), TableScan("w"), [Node(op, <<1, 2>>) EXCEPT !.setOp = setOp]>>

Shapes ==
  {JoinedOn(op, keys, n) : op \in {"HashJoin", "HashSemiJoin", "NestedLoopAntiJoin"},
                           keys \in JoinsOn, n \in 0..1}
    \cup {Limited(l, o) : l \in {-1, 0, 8}, o \in {-1, 0, 8}}
    \cup {Grouped(op, keys, 0) : op \in {"HashAggregate", "StreamingAggregate"},
             keys \in {<<>>, <<Column(1, 1)>>, <<Column(1, 1), Column(1, 2)>>,
                       <<Column(1, 1), Expression>>}}
    \cup {Grouped("HashGroupingSets", <<Column(1, 1)>>, n) : n \in {1, 2}}
    \cup {Combined(op, s) : op \in {"HashSetOp", "RecursiveFixpoint"},
             s \in {"Union", "UnionAll", "Intersect", "IntersectAll", "Except", "ExceptAll"}}
    \cup {Combined("UnionAll", "UnionAll"),
          <<TableScan("t"), Node("HashDistinct", <<1>>)>>,
          <<TableScan("t"), Node("Sort", <<1>>)>>,
          <<[Node("ValuesScan", <<>>) EXCEPT !.values = 3]>>,
          <<Node("WorkingTableScan", <<>>)>>}
-----------------------------------------------------------------------------
(* Workloads: one query to estimate, with and without statistics ...       *)
MeasuredContext == [BaseContext EXCEPT !.card = CardOf(Measured)]

Estimated ==
  {[queries |-> {Asking(nodes, "a")}, contexts |-> {c}, asks |-> 0, lowerings |-> 0] :
     nodes \in {Where(pred) : pred \in Tests} \cup Shapes,
     c \in {BaseContext, MeasuredContext}}

(* ... and several to be cached, in contexts that differ in one input.     *)
Small(v) == Where(<<Compare("LessThan", Column(1, 1), Number(v))>>)

OtherContexts ==
  { [BaseContext EXCEPT !.calibration = "measured"],
    [BaseContext EXCEPT !.card.baseRows["t"] = 16],
    [BaseContext EXCEPT !.card.filterSelectivity = 1024],
    [BaseContext EXCEPT !.storage = {"row", "column"}],
    [BaseContext EXCEPT !.distribution = "hashed"],
    [BaseContext EXCEPT !.freshness = "Fresh"],
    [BaseContext EXCEPT !.required.sort = <<Ascending(0)>>],
    [BaseContext EXCEPT !.prune = FALSE],
    [BaseContext EXCEPT !.dedup = TRUE],
    [BaseContext EXCEPT !.reorder = FALSE],
    [BaseContext EXCEPT !.maxJoins = 1],
    [BaseContext EXCEPT !.rules.version = 2] }

Shared ==
  {[queries |-> {Asking(Small(4), "a"), Asking(Small(4), "b"), Asking(Small(8), "a")},
    contexts |-> {BaseContext}, asks |-> 4, lowerings |-> 3]}
  \cup {[queries |-> {Asking(Small(4), "a")}, contexts |-> {BaseContext, c},
          asks |-> 4, lowerings |-> 3] : c \in OtherContexts}
  \cup {[queries |-> {Asking(Small(4), "a"), Asking(Small(8), "a")},
          contexts |-> {BaseContext, [BaseContext EXCEPT !.prune = FALSE]},
          asks |-> 4, lowerings |-> 3]}

SessionWorkloads == Estimated \cup Shared

(* The statistics of a column are taken again between two sessions, and    *)
(* the filtered side of a join turns out to be the larger one.             *)
FilteredJoin ==
  <<TableScan("t"),
    [Node("Filter", <<1>>) EXCEPT !.predicate = <<Compare("Equal", Column(1, 1), Number(4))>>],
    TableScan("u"),
    [Node("HashJoin", <<2, 3>>) EXCEPT !.keys = <<JoinKey(Column(1, 1), Column(2, 1))>>]>>

AnalyzedBetween ==
  {[queries  |-> {Asking(FilteredJoin, "a")},
    contexts |-> {[BaseContext EXCEPT !.card = CardOf(s)] : s \in {Measured, Remeasured}},
    asks |-> 3, lowerings |-> 2]}

(* The sessions of the first kind meet what the key leaves to the clients; *)
(* those of the second do not.                                             *)
ASSUME StatisticsAssumption ==
  StatisticsUnmoved(SessionWorkloads) /\ ~StatisticsUnmoved(AnalyzedBetween)
=============================================================================
