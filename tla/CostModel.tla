----------------------------- MODULE CostModel ------------------------------
(***************************************************************************)
(* The cost model of src/src/cost.cpp: what an operator costs from its     *)
(* inputs' and its own row counts, what enforcing a requirement costs, and *)
(* how often an operator evaluates an input.                               *)
(*                                                                         *)
(* Costs are naturals or Infinity.  The source computes in doubles; here   *)
(* every coefficient is a natural, in units of a common denominator, so    *)
(* that a sum is exact, and log2 of a row count is its integer part.       *)
(***************************************************************************)
EXTENDS PhysicalProperties

CONSTANTS
  Calibration,          \* the calibration profile: one coefficient per name
  RecursiveIterations   \* how often a fixpoint evaluates its recursive term

CoefficientNames ==
  {"scan", "columnScan", "filter", "project", "hashBuild", "hashProbe", "merge",
   "nestedLoop", "sort", "convert", "limit", "hashAggregate", "groupingSet",
   "streamingAggregate", "window", "hashDistinct", "streamingDistinct",
   "unionAll", "setOp", "values", "recursive", "workingTable", "tableWrite",
   "exchange", "clusterNodes"}

ASSUME CalibrationAssumption == Calibration \in [CoefficientNames -> Nat]
ASSUME IterationsAssumption  == RecursiveIterations \in Nat \ {0}
-----------------------------------------------------------------------------
(* Costs, ordered with Infinity on top.                                    *)

Infinity == -1
Costs    == Nat \cup {Infinity}

Less(a, b)    == a # Infinity /\ (b = Infinity \/ a < b)
Cheaper(a, b) == IF Less(b, a) THEN b ELSE a
Plus(a, b)    == IF Infinity \in {a, b} THEN Infinity ELSE a + b
Minus(a, b)   == IF a = Infinity THEN Infinity ELSE a - b

(* A budget shared by n evaluations.  The source divides doubles; a cost,  *)
(* being whole, is below b / n exactly when it is below the ceiling.       *)
Share(b, n) == IF b = Infinity THEN Infinity ELSE (b + n - 1) \div n
-----------------------------------------------------------------------------
MaxLog  == 30        \* of the rows of a group, which TLC's integers bound
Log2(n) == Cardinality({k \in 1..MaxLog : 2^k <= n})

SortCost(rows) == rows * Log2(IF rows < 2 THEN 2 ELSE rows) * Calibration["sort"]

(* The coefficient of a unary operator that touches every input row once.  *)
PerInputRow(op) ==
  CASE op = "Filter"             -> "filter"
    [] op = "Project"            -> "project"
    [] op = "HashAggregate"      -> "hashAggregate"
    [] op = "HashGroupingSets"   -> "groupingSet"
    [] op = "StreamingAggregate" -> "streamingAggregate"
    [] op = "Window"             -> "window"
    [] op = "HashDistinct"       -> "hashDistinct"
    [] OTHER                     -> "streamingDistinct"

(* The coefficient of an operator priced on the rows it emits. CreateTable-*)
(* As, Insert and Update share the case of an exchange: the source falls   *)
(* through to it.                                                          *)
PerOutputRow(op) ==
  CASE op = "ValuesScan"        -> "values"
    [] op = "Limit"             -> "limit"
    [] op = "RecursiveFixpoint" -> "recursive"
    [] op = "WorkingTableScan"  -> "workingTable"
    [] op = "Delete"            -> "tableWrite"
    [] OTHER                    -> "exchange"

(* The cost of group-expression e of group g itself, its inputs' rows being*)
(* `in': nothing below it is included.                                     *)
OperatorCost(e, g, in) ==
  CASE e.op = "SeqScan" ->
         g.rows * Calibration[IF e.format = "Column" THEN "columnScan" ELSE "scan"]
    [] e.op = "HashJoin" ->
         IF e.buildRight
         THEN in[2] * Calibration["hashBuild"] + in[1] * Calibration["hashProbe"]
         ELSE in[1] * Calibration["hashBuild"] + in[2] * Calibration["hashProbe"]
    [] e.op \in {"HashSemiJoin", "HashAntiJoin"} ->
         in[2] * Calibration["hashBuild"] + in[1] * Calibration["hashProbe"]
    [] e.op = "MergeJoin"       -> (in[1] + in[2]) * Calibration["merge"]
    [] e.op \in NestedLoops     -> in[1] * in[2] * Calibration["nestedLoop"]
    [] e.op = "UnionAll"        -> (in[1] + in[2]) * Calibration["unionAll"]
    [] e.op = "HashSetOp"       -> (in[1] + in[2]) * Calibration["setOp"]
    [] e.op = "Sort"            -> SortCost(in[1])
    [] e.op \in {"ValuesScan", "Limit", "RecursiveFixpoint", "WorkingTableScan"}
                 \cup Writes    -> g.rows * Calibration[PerOutputRow(e.op)]
    [] OTHER                    ->
         in[1] * Calibration[PerInputRow(e.op)] *
           (IF e.op = "HashGroupingSets" /\ g.sets > 0 THEN g.sets ELSE 1)

(* How many times an operator evaluates its i-th input.                    *)
InputEvaluations(op, i) ==
  IF op = "RecursiveFixpoint" /\ i = 2 THEN RecursiveIterations ELSE 1

ExchangeCost(required, rows) ==
  rows * Calibration["exchange"] *
    (IF required.dist.kind = "Broadcast" THEN Calibration["clusterNodes"] ELSE 1)

(* The price of the enforcers that make `provided' meet `required'.        *)
EnforcementCost(provided, required, rows) ==
  IF ~FreshEnough(provided, required) THEN Infinity
  ELSE (IF NeedsExchange(provided, required) THEN ExchangeCost(required, rows) ELSE 0)
     + (IF NeedsConvert(provided, required) THEN rows * Calibration["convert"] ELSE 0)
     + (IF NeedsSort(provided, required) THEN SortCost(rows) ELSE 0)

(* A profile in which neither converting a row nor sorting one is free, so *)
(* that an enforcement that costs nothing changes no format and no order.  *)
EnforcersCost == Calibration["convert"] # 0 /\ Calibration["sort"] # 0
=============================================================================
