-------------------------- MODULE PropertyTheorems --------------------------
(***************************************************************************)
(* Facts about the property algebra and the cost model, for every column,  *)
(* calibration and row count: what enforcement achieves, how requirements  *)
(* compose, and the types the search relies on.                            *)
(***************************************************************************)
EXTENDS CostModel, SequenceTheorems, FiniteSetTheorems, Recursions, TLAPS

(* A key satisfies itself, and satisfaction of keys composes. *)
LEMMA SatisfiesKeyOrder ==
  ASSUME NEW a \in SortKeys, NEW b \in SortKeys, NEW c \in SortKeys
  PROVE  /\ SatisfiesKey(a, a)
         /\ SatisfiesKey(a, b) /\ SatisfiesKey(b, c) => SatisfiesKey(a, c)
  BY DEF SatisfiesKey, SortKeys

(* An order satisfies itself. *)
LEMMA SortPrefixReflexive ==
  ASSUME NEW s \in Seq(SortKeys)
  PROVE  SortPrefix(s, s)
  BY SatisfiesKeyOrder DEF SortPrefix

(* An order that satisfies a longer one satisfies what that one satisfies. *)
LEMMA SortPrefixTransitive ==
  ASSUME NEW a \in Seq(SortKeys), NEW b \in Seq(SortKeys), NEW c \in Seq(SortKeys),
         SortPrefix(a, b), SortPrefix(b, c)
  PROVE  SortPrefix(a, c)
  <1>1. Len(c) <= Len(a)
    BY DEF SortPrefix
  <1>2. ASSUME NEW i \in 1..Len(c)
        PROVE  SatisfiesKey(a[i], c[i])
    <2>1. i \in 1..Len(a) /\ i \in 1..Len(b)
      BY DEF SortPrefix
    <2>2. a[i] \in SortKeys /\ b[i] \in SortKeys /\ c[i] \in SortKeys
      BY <2>1
    <2>3. SatisfiesKey(a[i], b[i]) /\ SatisfiesKey(b[i], c[i])
      BY <2>1 DEF SortPrefix
    <2> QED
      BY <2>2, <2>3, SatisfiesKeyOrder
  <1> QED
    BY <1>1, <1>2 DEF SortPrefix

(* Distributions: whatever meets a required placement meets everything the *)
(* required placement itself would meet.                                   *)
LEMMA DistributionOrder ==
  ASSUME NEW a \in Distributions, NEW b \in Distributions, NEW c \in Distributions
  PROVE  /\ DistributionSatisfies(a, a)
         /\ DistributionSatisfies(a, b) /\ DistributionSatisfies(b, c)
              => DistributionSatisfies(a, c)
  BY DEF DistributionSatisfies, Distributions

(* Requirements compose: a plan that satisfies what was asked of it also   *)
(* satisfies anything that request would have satisfied.  Pushing a        *)
(* requirement down and memoizing under it are sound because of this.      *)
THEOREM SatisfiesTransitive ==
  ASSUME NEW a \in Properties, NEW b \in Properties, NEW c \in Properties,
         Satisfies(a, b), Satisfies(b, c)
  PROVE  Satisfies(a, c)
  <1>1. FreshEnough(a, c)
    BY DEF Satisfies, FreshEnough, Properties
  <1>2. FormatSatisfies(a, c)
    BY DEF Satisfies, FormatSatisfies, Properties
  <1>3. DistributionSatisfies(a.dist, c.dist)
    BY DistributionOrder DEF Satisfies, Properties
  <1>4. SortPrefix(a.sort, c.sort)
    BY SortPrefixTransitive DEF Satisfies, Properties
  <1> QED
    BY <1>1, <1>2, <1>3, <1>4 DEF Satisfies

(* enforce() fails for freshness only: whatever the input provides, the    *)
(* exchange, conversion and sort it inserts establish the requirement,     *)
(* although the exchange destroys an order that was already there.         *)
THEOREM EnforceEstablishes ==
  ASSUME NEW have \in Properties, NEW required \in Properties
  PROVE  Enforceable(have, required) <=> FreshEnough(have, required)
  <1> DEFINE moved     == AfterExchange(have, required)
             converted == IF NeedsConvert(have, required)
                          THEN [moved EXCEPT !.format = required.format] ELSE moved
             final     == Enforced(have, required)
  <1>1. /\ moved \in Properties
        /\ moved.freshness = have.freshness /\ moved.format = have.format
        /\ DistributionSatisfies(moved.dist, required.dist)
    <2>1. DistributionSatisfies(required.dist, required.dist)
      BY DistributionOrder DEF Properties
    <2>2. CASE NeedsExchange(have, required)
      <3>1. moved = [have EXCEPT !.dist = required.dist, !.sort = <<>>]
        BY <2>2 DEF AfterExchange
      <3>2. <<>> \in Seq(SortKeys)
        OBVIOUS
      <3> QED
        BY <2>1, <3>1, <3>2 DEF Properties
    <2>3. CASE ~NeedsExchange(have, required)
      BY <2>3 DEF AfterExchange, NeedsExchange
    <2> QED
      BY <2>2, <2>3
  <1>2. /\ converted \in Properties
        /\ converted.freshness = have.freshness /\ converted.dist = moved.dist
        /\ converted.sort = moved.sort
        /\ FormatSatisfies(converted, required)
    <2> HIDE DEF moved
    <2>1. CASE NeedsConvert(have, required)
      BY <1>1, <2>1 DEF FormatSatisfies, Properties
    <2>2. CASE ~NeedsConvert(have, required)
      BY <1>1, <2>2 DEF NeedsConvert, FormatSatisfies
    <2> QED
      BY <2>1, <2>2
  <1>3. final = IF NeedsSort(have, required)
                THEN [converted EXCEPT !.sort = required.sort] ELSE converted
    BY DEF Enforced
  <1>4. /\ final.freshness = have.freshness /\ final.dist = moved.dist
        /\ FormatSatisfies(final, required)
    <2> HIDE DEF moved, converted, final
    <2> QED
      BY <1>2, <1>3 DEF FormatSatisfies, Properties
  <1>5. SortPrefix(final.sort, required.sort)
    <2> HIDE DEF converted, final
    <2>1. CASE NeedsSort(have, required)
      <3>1. final.sort = required.sort
        BY <1>2, <1>3, <2>1 DEF Properties
      <3> QED
        BY <3>1, SortPrefixReflexive DEF Properties
    <2>2. CASE ~NeedsSort(have, required)
      BY <1>2, <1>3, <2>2 DEF NeedsSort
    <2> QED
      BY <2>1, <2>2
  <1> QED
    BY <1>1, <1>4, <1>5 DEF Enforceable, Satisfies, FreshEnough

(* What enforcement makes of a plan's properties, one by one.              *)
LEMMA EnforcedType ==
  ASSUME NEW have \in Properties, NEW required \in Properties
  PROVE  /\ Enforced(have, required) \in Properties
         /\ Enforced(have, required).freshness = have.freshness
         /\ Enforced(have, required).format
              = IF NeedsConvert(have, required) THEN required.format ELSE have.format
         /\ Enforced(have, required).sort
              = IF NeedsSort(have, required) THEN required.sort
                ELSE AfterExchange(have, required).sort
  <1> DEFINE moved     == AfterExchange(have, required)
             converted == IF NeedsConvert(have, required)
                          THEN [moved EXCEPT !.format = required.format] ELSE moved
  <1>1. /\ moved \in Properties
        /\ moved.freshness = have.freshness /\ moved.format = have.format
    <2>1. <<>> \in Seq(SortKeys)
      OBVIOUS
    <2> QED
      BY <2>1 DEF AfterExchange, Properties
  <1> HIDE DEF moved
  <1>2. /\ converted \in Properties
        /\ converted.freshness = have.freshness /\ converted.sort = moved.sort
        /\ converted.format
             = IF NeedsConvert(have, required) THEN required.format ELSE have.format
    BY <1>1 DEF Properties
  <1>3. Enforced(have, required)
          = IF NeedsSort(have, required)
            THEN [converted EXCEPT !.sort = required.sort] ELSE converted
    BY DEF Enforced, moved
  <1> HIDE DEF converted
  <1> QED
    BY <1>2, <1>3 DEF Properties, moved
-----------------------------------------------------------------------------
(* Types: what an operator provides, needs and costs.                      *)

LEMMA NatTimes == \A a, b \in Nat : a * b \in Nat
  OBVIOUS

(* The integer part of a logarithm is a natural. *)
LEMMA Log2Type ==
  ASSUME NEW n \in Nat
  PROVE  Log2(n) \in Nat
  <1>1. 1 \in Int /\ MaxLog \in Int
    BY DEF MaxLog
  <1>2. IsFiniteSet(1..MaxLog)
    BY <1>1, FS_Interval
  <1>3. IsFiniteSet({k \in 1..MaxLog : 2^k <= n})
    BY <1>2, FS_Subset
  <1> QED
    BY <1>3, FS_CardinalityType DEF Log2

(* Coefficients are naturals. *)
LEMMA CoefficientType ==
  ASSUME NEW c \in CoefficientNames
  PROVE  Calibration[c] \in Nat
  BY CalibrationAssumption

LEMMA SortCostType ==
  ASSUME NEW rows \in Nat
  PROVE  SortCost(rows) \in Nat
  <1>1. Log2(IF rows < 2 THEN 2 ELSE rows) \in Nat
    BY Log2Type
  <1>2. Calibration["sort"] \in Nat
    BY CoefficientType DEF CoefficientNames
  <1> QED
    BY <1>1, <1>2, NatTimes DEF SortCost

(* The arity of an operator is 0, 1 or 2. *)
LEMMA ArityType ==
  ASSUME NEW op
  PROVE  /\ Arity(op) \in Nat
         /\ op \in Binary => Arity(op) = 2
         /\ op \in Operators \ (Leaves \cup Binary) => Arity(op) = 1
  BY DEF Arity, Binary, Leaves, Joins, SemiJoins, SetOperators, Operators,
         Aggregates, Distincts, Writes

(* An operator's own cost is a natural, so a plan's cost never decreases   *)
(* as inputs are added to it: what branch-and-bound rests on.              *)
LEMMA OperatorCostType ==
  ASSUME NEW e \in GroupExprs, NEW g \in Groups, NEW in,
         \A i \in 1..Arity(e.op) : in[i] \in Nat
  PROVE  OperatorCost(e, g, in) \in Nat
  <1>1. e.op \in Operators /\ g.rows \in Nat /\ g.sets \in Nat
    BY DEF GroupExprs, Groups
  <1>2. e.op \in Binary => in[1] \in Nat /\ in[2] \in Nat
    BY ArityType
  <1>3. e.op \notin Leaves => in[1] \in Nat
    BY <1>1, ArityType
  <1>4. \A c \in CoefficientNames : g.rows * Calibration[c] \in Nat
    BY <1>1, NatTimes, CoefficientType
  <1>5. CASE e.op = "SeqScan"
    <2>1. OperatorCost(e, g, in) =
            g.rows * Calibration[IF e.format = "Column" THEN "columnScan" ELSE "scan"]
      BY <1>5 DEF OperatorCost, NestedLoops, Writes
    <2>2. (IF e.format = "Column" THEN "columnScan" ELSE "scan") \in CoefficientNames
      BY DEF CoefficientNames
    <2> QED
      BY <1>4, <2>1, <2>2
  <1>6. CASE e.op \in Binary \ {"RecursiveFixpoint"}
    <2>1. /\ in[1] \in Nat /\ in[2] \in Nat
          /\ in[1] + in[2] \in Nat /\ in[1] * in[2] \in Nat
          /\ \A a \in Nat, c \in CoefficientNames : a * Calibration[c] \in Nat
      BY <1>2, <1>6, NatTimes, CoefficientType
    <2>2. {"hashBuild", "hashProbe", "merge", "nestedLoop", "unionAll", "setOp"}
            \subseteq CoefficientNames
      BY DEF CoefficientNames
    <2>3. e.op \in Joins \cup SemiJoins \cup SetOperators
      BY <1>6 DEF Binary
    <2>4. CASE e.op \in {"HashJoin", "HashSemiJoin", "HashAntiJoin"}
      <3>1. \/ OperatorCost(e, g, in) = in[2] * Calibration["hashBuild"]
                                          + in[1] * Calibration["hashProbe"]
            \/ OperatorCost(e, g, in) = in[1] * Calibration["hashBuild"]
                                          + in[2] * Calibration["hashProbe"]
        BY <2>4 DEF OperatorCost, NestedLoops, Writes
      <3>2. \A i, j \in {1, 2} : in[i] * Calibration["hashBuild"]
                                   + in[j] * Calibration["hashProbe"] \in Nat
        BY <2>1, <2>2
      <3> QED
        BY <3>1, <3>2
    <2>5. CASE e.op \in {"MergeJoin", "UnionAll", "HashSetOp"}
      <3>1. \E c \in CoefficientNames :
              OperatorCost(e, g, in) = (in[1] + in[2]) * Calibration[c]
        BY <2>2, <2>5 DEF OperatorCost, NestedLoops, Writes
      <3> QED
        BY <2>1, <3>1
    <2>6. CASE e.op \in NestedLoops
      <3>1. OperatorCost(e, g, in) = in[1] * in[2] * Calibration["nestedLoop"]
        BY <2>6 DEF OperatorCost, NestedLoops, Writes
      <3> QED
        BY <2>1, <2>2, <3>1
    <2> QED
      BY <2>3, <2>4, <2>5, <2>6 DEF Joins, SemiJoins, SetOperators, NestedLoops
  <1>7. CASE e.op = "Sort"
    <2>1. OperatorCost(e, g, in) = SortCost(in[1])
      BY <1>7 DEF OperatorCost, NestedLoops, Writes
    <2> QED
      BY <1>3, <1>7, <2>1, SortCostType DEF Leaves
  <1>8. CASE e.op \in {"ValuesScan", "Limit", "RecursiveFixpoint", "WorkingTableScan"}
                        \cup Writes
    <2>1. PerOutputRow(e.op) \in CoefficientNames
      BY DEF PerOutputRow, CoefficientNames
    <2> QED
      BY <1>4, <1>8, <2>1 DEF OperatorCost, Writes, NestedLoops
  <1>9. CASE e.op \in Aggregates \cup Distincts \cup {"Filter", "Project", "Window"}
    <2>1. PerInputRow(e.op) \in CoefficientNames
      BY DEF PerInputRow, CoefficientNames
    <2>2. in[1] \in Nat
      BY <1>3, <1>9 DEF Leaves, Aggregates, Distincts
    <2>3. in[1] * Calibration[PerInputRow(e.op)] \in Nat
      BY <2>1, <2>2, NatTimes, CoefficientType
    <2>4. in[1] * Calibration[PerInputRow(e.op)] *
            (IF e.op = "HashGroupingSets" /\ g.sets > 0 THEN g.sets ELSE 1) \in Nat
      BY <1>1, <2>3, NatTimes
    <2> QED
      BY <1>9, <2>4 DEF OperatorCost, Aggregates, Distincts, NestedLoops, Writes
  <1> QED
    BY <1>1, <1>5, <1>6, <1>7, <1>8, <1>9 DEF Operators, Leaves

(* Enforcing costs a natural, or Infinity for a missed freshness.          *)
LEMMA EnforcementCostType ==
  ASSUME NEW provided \in Properties, NEW required \in Properties, NEW rows \in Nat
  PROVE  /\ EnforcementCost(provided, required, rows) \in Costs
         /\ FreshEnough(provided, required) => EnforcementCost(provided, required, rows) \in Nat
  <1>1. ExchangeCost(required, rows) \in Nat
    <2>1. Calibration["exchange"] \in Nat /\ Calibration["clusterNodes"] \in Nat
      BY CoefficientType DEF CoefficientNames
    <2> QED
      BY <2>1, NatTimes DEF ExchangeCost
  <1>2. rows * Calibration["convert"] \in Nat
    BY CoefficientType, NatTimes DEF CoefficientNames
  <1>3. SortCost(rows) \in Nat
    BY SortCostType
  <1> QED
    BY <1>1, <1>2, <1>3 DEF EnforcementCost, Costs, Infinity

LEMMA AscendingType ==
  ASSUME NEW c \in Nat
  PROVE  Ascending(c) \in SortKeys
  BY DEF Ascending, SortKeys, NullsOrders

LEMMA KeyColumn ==
  ASSUME NEW key \in JoinKeys, NEW side \in {"left", "right"}
  PROVE  key[side] \in Nat
  BY DEF JoinKeys

LEMMA ColumnsType ==
  ASSUME NEW keys \in Seq(JoinKeys), NEW side \in {"left", "right"}
  PROVE  Columns(keys, side) \subseteq Nat
  BY KeyColumn DEF Columns

LEMMA HashedOnType ==
  ASSUME NEW ks \in SUBSET Nat
  PROVE  HashedOn(ks) \in Distributions
  BY DEF HashedOn, Distributions

LEMMA FixedDistributions == AnyDist \in Distributions /\ Single \in Distributions
  BY DEF AnyDist, Single, Distributions

LEMMA OrderOnColumns ==
  ASSUME NEW keys \in Seq(JoinKeys), NEW side \in {"left", "right"}
  PROVE  [k \in 1..Len(keys) |-> Ascending(keys[k][side])] \in Seq(SortKeys)
  <1>1. \A k \in 1..Len(keys) : Ascending(keys[k][side]) \in SortKeys
    BY KeyColumn, AscendingType
  <1>2. Len(keys) \in Nat
    OBVIOUS
  <1> QED
    BY <1>1, <1>2

(* What an operator requires of an input is a requirement. *)
LEMMA InputRequirementType ==
  ASSUME NEW e \in GroupExprs, NEW g \in Groups, NEW i \in Nat
  PROVE  InputRequirement(e, g, i) \in Properties
  <1>1. /\ e.keys \in Seq(JoinKeys) /\ g.sortKeys \in Seq(SortKeys)
        /\ g.split \in Nat
    BY DEF GroupExprs, Groups
  <1>2. (IF i = 1 THEN "left" ELSE "right") \in {"left", "right"}
    OBVIOUS
  <1>3. \A j \in DOMAIN g.sortKeys : g.sortKeys[j].column \in Nat
    <2>1. \A j \in DOMAIN g.sortKeys : g.sortKeys[j] \in SortKeys
      BY <1>1
    <2>2. \A k \in SortKeys : k.column \in Nat
      BY DEF SortKeys
    <2> QED
      BY <2>1, <2>2
  <1>4. InputDistribution(e, g, i) \in Distributions
    <2>1. Columns(e.keys, IF i = 1 THEN "left" ELSE "right") \in SUBSET Nat
      BY <1>1, <1>2, ColumnsType
    <2>2. {g.sortKeys[j].column : j \in DOMAIN g.sortKeys} \in SUBSET Nat
      BY <1>3
    <2>3. ASSUME ~(Len(g.sortKeys) < g.split)
          PROVE  {g.sortKeys[j].column : j \in 1..g.split} \in SUBSET Nat
      <3>1. \A j \in 1..g.split : j \in DOMAIN g.sortKeys
        BY <1>1, <2>3
      <3> QED
        BY <1>3, <3>1
    <2> QED
      BY <2>1, <2>2, <2>3, HashedOnType, FixedDistributions
      DEF InputDistribution, Joins, SemiJoins, Aggregates, Distincts,
          SetOperators, Writes
  <1>5. InputOrder(e, g, i) \in Seq(SortKeys)
    <2>1. [k \in 1..Len(e.keys) |->
             Ascending(e.keys[k][IF i = 1 THEN "left" ELSE "right"])] \in Seq(SortKeys)
      BY <1>1, <1>2, OrderOnColumns
    <2>2. <<>> \in Seq(SortKeys)
      OBVIOUS
    <2> QED
      BY <1>1, <2>1, <2>2 DEF InputOrder
  <1> QED
    BY <1>4, <1>5 DEF InputRequirement, Properties, Formats, Freshnesses

(* An operator states one requirement per input. *)
LEMMA RequiredInputsType ==
  ASSUME NEW e \in GroupExprs, NEW g \in Groups
  PROVE  /\ RequiredInputProperties(e, g) \in Seq(Properties)
         /\ Len(RequiredInputProperties(e, g)) = Arity(e.op)
  <1>1. Arity(e.op) \in Nat
    BY ArityType
  <1>2. \A i \in 1..Arity(e.op) : InputRequirement(e, g, i) \in Properties
    BY <1>1, InputRequirementType
  <1> QED
    BY <1>1, <1>2 DEF RequiredInputProperties

(* Pushing a requirement down rewrites what is required of input 1 only.   *)
LEMMA PushedRequirementsType ==
  ASSUME NEW reqs \in Seq(Properties), NEW required \in Properties, Len(reqs) > 0
  PROVE  /\ PushedRequirements(reqs, required) \in Seq(Properties)
         /\ Len(PushedRequirements(reqs, required)) = Len(reqs)
  <1>1. reqs[1] \in Properties
    OBVIOUS
  <1>2. [required EXCEPT
           !.format = IF reqs[1].format # "Any" THEN reqs[1].format ELSE @,
           !.sort   = IF @ = <<>> THEN reqs[1].sort ELSE @] \in Properties
    BY <1>1 DEF Properties
  <1> QED
    BY <1>2 DEF PushedRequirements

(* What an operator provides over any inputs is a property record. *)
LEMMA DeriveOpType ==
  ASSUME NEW e \in GroupExprs, NEW g \in Groups, NEW ins \in Seq(Properties),
         Len(ins) = Arity(e.op)
  PROVE  DeriveOp(e, g, ins) \in Properties
  <1>1. /\ e.op \in Operators /\ e.keys \in Seq(JoinKeys) /\ e.format \in Formats
        /\ e.freshness \in Freshnesses /\ g.sortKeys \in Seq(SortKeys)
        /\ g.split \in Nat /\ g.scanDist \in Distributions
    BY DEF GroupExprs, Groups
  <1>2. e.op \notin Leaves =>
          /\ ins[1].sort \in Seq(SortKeys) /\ ins[1].format \in Formats
          /\ ins[1].freshness \in Freshnesses /\ ins[1].dist \in Distributions
    <2>1. e.op \notin Leaves => ins[1] \in Properties
      BY <1>1, ArityType
    <2> QED
      BY <2>1 DEF Properties
  <1>3. OutputDistribution(e, g, ins) \in Distributions
    <2>1. Columns(e.keys, "left") \in SUBSET Nat
      BY <1>1, ColumnsType
    <2>2. \A n \in Nat : 0..(n - 1) \in SUBSET Nat
      OBVIOUS
    <2>3. e.op \notin Leaves => 0..(Len(ins[1].sort) - 1) \in SUBSET Nat
      BY <1>2, <2>2
    <2> QED
      BY <1>1, <1>2, <2>1, <2>2, <2>3, HashedOnType, FixedDistributions
      DEF OutputDistribution, Leaves, Joins, SemiJoins, Aggregates, Distincts
  <1>4. OutputOrder(e, g, ins) \in Seq(SortKeys)
    <2>1. [i \in 1..Len(e.keys) |-> Ascending(e.keys[i].left)] \in Seq(SortKeys)
      BY <1>1, OrderOnColumns
    <2>2. <<>> \in Seq(SortKeys)
      OBVIOUS
    <2> QED
      BY <1>1, <1>2, <2>1, <2>2 DEF OutputOrder, Leaves
  <1>5. OutputFormat(e, ins) \in Formats
    BY <1>1, <1>2 DEF OutputFormat, Formats, Leaves
  <1>6. OutputFreshness(e, ins) \in Freshnesses
    BY <1>1, <1>2 DEF OutputFreshness, Freshnesses, Leaves, Binary, Joins, SemiJoins,
                      SetOperators
  <1> QED
    BY <1>3, <1>4, <1>5, <1>6 DEF DeriveOp, Properties
=============================================================================
