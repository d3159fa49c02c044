------------------------- MODULE PhysicalProperties -------------------------
(***************************************************************************)
(* The property algebra of the planner: what a physical operator's output  *)
(* looks like (its order, storage format, freshness and distribution),     *)
(* what it needs of its inputs, and which enforcers bridge the difference. *)
(* Translated from src/src/properties.cpp and the distribution lattice of  *)
(* src/src/physical_plan.cpp.  Everything here is a pure function; the     *)
(* modules that extend this one supply the behaviour.                      *)
(*                                                                         *)
(* A property record is [sort, format, freshness, dist].  Columns are      *)
(* naturals; `dist.keys' is the SET of partitioning columns, because the   *)
(* source only ever asks whether one key list is contained in another.     *)
(***************************************************************************)
EXTENDS Integers, Sequences, FiniteSets

Joins        == {"HashJoin", "MergeJoin", "NestedLoopJoin"}
SemiJoins    == {"HashSemiJoin", "HashAntiJoin",
                 "NestedLoopSemiJoin", "NestedLoopAntiJoin"}
NestedLoops  == {"NestedLoopJoin", "NestedLoopSemiJoin", "NestedLoopAntiJoin"}
Aggregates   == {"HashAggregate", "StreamingAggregate", "HashGroupingSets"}
Distincts    == {"HashDistinct", "StreamingDistinct"}
SetOperators == {"UnionAll", "HashSetOp"}
Writes       == {"CreateTableAs", "Insert", "Update", "Delete"}
Leaves       == {"SeqScan", "ValuesScan", "WorkingTableScan"}
Binary       == Joins \cup SemiJoins \cup SetOperators \cup {"RecursiveFixpoint"}

(* Operators that can be a memo group's candidate.  FormatConvert and      *)
(* Exchange are absent: only enforce() ever builds those.                  *)
Operators == Leaves \cup Binary \cup Aggregates \cup Distincts \cup Writes
               \cup {"Filter", "Project", "Sort", "Limit", "Window"}

Arity(op) == IF op \in Leaves THEN 0 ELSE IF op \in Binary THEN 2 ELSE 1

Formats     == {"Any", "Row", "Column"}
Freshnesses == {"Any", "Fresh", "Stale"}
NullsOrders == {"Unspecified", "First", "Last"}

SortKeys      == [column : Nat, descending : BOOLEAN, nulls : NullsOrders]
Distributions == [kind : {"Any", "Single", "Hashed", "Broadcast"}, keys : SUBSET Nat]
Properties    == [sort : Seq(SortKeys), format : Formats,
                  freshness : Freshnesses, dist : Distributions]
JoinKeys      == [left : Nat, right : Nat]

AnyDist      == [kind |-> "Any", keys |-> {}]
Single       == [kind |-> "Single", keys |-> {}]
HashedOn(ks) == [kind |-> "Hashed", keys |-> ks]

Unconstrained ==
  [sort |-> <<>>, format |-> "Any", freshness |-> "Any", dist |-> AnyDist]

Ascending(c) == [column |-> c, descending |-> FALSE, nulls |-> "Unspecified"]

JoinKinds == {"Inner", "Left", "Right", "Full", "Cross", "Lateral", "LeftLateral"}
SetOps    == {"Union", "UnionAll", "Intersect", "Except", "IntersectAll", "ExceptAll"}

(* The memo's structures (memo.hpp): a group-expression is an operator over*)
(* input groups; a group is a set of equivalent ones, with the payload     *)
(* they share.  `residuals' counts the conjuncts of a join that are no     *)
(* keys, `split' a grouping's leading keys and `sets' its grouping sets;   *)
(* `projects' tells which input column each output column of a projection  *)
(* is.                                                                     *)
GroupExprs ==
  [op : Operators, inputs : Seq(Nat), keys : Seq(JoinKeys), residuals : Nat,
   format : Formats, freshness : Freshnesses, buildRight : BOOLEAN]

Groups ==
  [exprs : Seq(GroupExprs), rows : Nat, sortKeys : Seq(SortKeys), split : Nat,
   sets : Nat, projects : Seq(Nat), joinKind : JoinKinds, setOp : SetOps,
   scanDist : Distributions]

(* What exploration delivers: every candidate has an input per operand,    *)
(* each of them a group that was added before its own.                     *)
WellFormed(m) ==
  /\ m \in Seq(Groups)
  /\ m # <<>>
  /\ \A g \in 1..Len(m) : \A i \in 1..Len(m[g].exprs) :
       LET e == m[g].exprs[i] IN
       /\ Len(e.inputs) = Arity(e.op)
       /\ \A k \in 1..Len(e.inputs) : e.inputs[k] \in 1..(g - 1)
-----------------------------------------------------------------------------
(* Comparing properties.                                                   *)

(* The key a group's winners are stored under.  As in the source, the      *)
(* distribution takes no part in the comparison.                           *)
SameRequirement(a, b) ==
  /\ a.format = b.format
  /\ a.freshness = b.freshness
  /\ a.sort = b.sort

SatisfiesKey(provided, required) ==
  /\ provided.column = required.column
  /\ provided.descending = required.descending
  /\ required.nulls = "Unspecified" \/ provided.nulls = required.nulls

SortPrefix(provided, required) ==
  /\ Len(required) <= Len(provided)
  /\ \A i \in 1..Len(required) : SatisfiesKey(provided[i], required[i])

DistributionSatisfies(provided, required) ==
  \/ required.kind = "Any"
  \/ required.kind \in {"Single", "Broadcast"} /\ provided.kind = required.kind
  \/ /\ required.kind = "Hashed"
     /\ \/ provided.kind \in {"Single", "Broadcast"}
        \/ provided.kind = "Hashed" /\ provided.keys \subseteq required.keys

FreshEnough(provided, required) ==
  required.freshness = "Fresh" => provided.freshness = "Fresh"

FormatSatisfies(provided, required) ==
  required.format \in {"Any", provided.format}

Satisfies(provided, required) ==
  /\ FreshEnough(provided, required)
  /\ FormatSatisfies(provided, required)
  /\ DistributionSatisfies(provided.dist, required.dist)
  /\ SortPrefix(provided.sort, required.sort)
-----------------------------------------------------------------------------
(* What an operator provides.  `e' is a group-expression, `g' its group    *)
(* and `ins' what each input provides, in operand order.                   *)

Columns(keys, side) == {keys[i][side] : i \in DOMAIN keys}

OutputDistribution(e, g, ins) ==
  CASE e.op = "SeqScan"        -> g.scanDist
    [] e.op \in Joins          -> IF e.keys = <<>> THEN Single
                                  ELSE HashedOn(Columns(e.keys, "left"))
    [] e.op \in Aggregates     -> IF g.split = 0 THEN Single
                                  ELSE HashedOn(0..(g.split - 1))
    [] e.op \in Distincts      -> IF ins[1].sort = <<>> THEN ins[1].dist
                                  ELSE HashedOn(0..(Len(ins[1].sort) - 1))
    [] e.op \in {"Filter", "Project", "Sort", "Limit", "Window"} \cup SemiJoins
                               -> ins[1].dist
    [] OTHER                   -> Single

OutputOrder(e, g, ins) ==
  CASE e.op \in {"Filter", "Project", "Window", "Limit", "StreamingDistinct",
                 "CreateTableAs"}               -> ins[1].sort
    [] e.op = "MergeJoin"                       -> [i \in 1..Len(e.keys) |->
                                                      Ascending(e.keys[i].left)]
    [] e.op \in {"Sort", "StreamingAggregate"}  -> g.sortKeys
    [] OTHER                                    -> <<>>

OutputFormat(e, ins) ==
  CASE e.op = "SeqScan" -> e.format
    [] e.op \in {"Filter", "Project", "Window", "Limit", "StreamingDistinct",
                 "Sort"} -> ins[1].format
    [] OTHER            -> "Row"

(* Seeded defect: a binary operator is as fresh as its second input.       *)
OutputFreshnessOfLast(e, ins) ==
  CASE e.op = "SeqScan" -> e.freshness
    [] e.op \in {"ValuesScan", "WorkingTableScan", "Insert", "Update", "Delete"}
                        -> "Fresh"
    [] OTHER            -> ins[Len(ins)].freshness

(* Staleness propagates upward and never washes out, except through a      *)
(* write, whose output is the rows it has just written.                    *)
OutputFreshness(e, ins) ==
  CASE e.op = "SeqScan" -> e.freshness
    [] e.op \in {"ValuesScan", "WorkingTableScan", "Insert", "Update", "Delete"}
                        -> "Fresh"
    [] e.op \in Binary  -> IF \E i \in DOMAIN ins : ins[i].freshness = "Stale"
                           THEN "Stale" ELSE "Fresh"
    [] OTHER            -> ins[1].freshness

DeriveOp(e, g, ins) ==
  [sort      |-> OutputOrder(e, g, ins),
   format    |-> OutputFormat(e, ins),
   freshness |-> OutputFreshness(e, ins),
   dist      |-> OutputDistribution(e, g, ins)]
-----------------------------------------------------------------------------
(* What an operator needs of its inputs.                                   *)

(* The distribution needed of input i. A merge join states only an order   *)
(* and a format: the source overwrites the co-location requirement it had  *)
(* built for it a few lines above.                                         *)
InputDistribution(e, g, i) ==
  CASE e.op = "MergeJoin"             -> AnyDist
    [] e.op \in (Joins \ {"MergeJoin"}) \cup SemiJoins ->
         IF e.keys = <<>> THEN Single
         ELSE HashedOn(Columns(e.keys, IF i = 1 THEN "left" ELSE "right"))
    [] e.op \in Aggregates            ->
         IF g.split = 0 \/ Len(g.sortKeys) < g.split THEN Single
         ELSE HashedOn({g.sortKeys[j].column : j \in 1..g.split})
    [] e.op \in Distincts             ->
         IF g.sortKeys = <<>> THEN Single
         ELSE HashedOn({g.sortKeys[j].column : j \in DOMAIN g.sortKeys})
    [] e.op \in SetOperators \cup Writes \cup {"RecursiveFixpoint"} -> Single
    [] OTHER                          -> AnyDist

InputOrder(e, g, i) ==
  CASE e.op \in {"StreamingAggregate", "Window", "StreamingDistinct"} -> g.sortKeys
    [] e.op = "MergeJoin" ->
         [k \in 1..Len(e.keys) |->
            Ascending(e.keys[k][IF i = 1 THEN "left" ELSE "right"])]
    [] OTHER -> <<>>

(* Seeded defect: UPDATE and DELETE accept rows of a lagging copy.         *)
InputRequirementLax(e, g, i) ==
  [sort      |-> InputOrder(e, g, i),
   format    |-> IF e.op \in {"Filter", "Project", "Sort", "Limit"} THEN "Any" ELSE "Row",
   freshness |-> "Any",
   dist      |-> InputDistribution(e, g, i)]

InputRequirement(e, g, i) ==
  [sort      |-> InputOrder(e, g, i),
   format    |-> IF e.op \in {"Filter", "Project", "Sort", "Limit"} THEN "Any" ELSE "Row",
   freshness |-> IF e.op \in {"Update", "Delete"} THEN "Fresh" ELSE "Any",
   dist      |-> InputDistribution(e, g, i)]

RequiredInputProperties(e, g) ==
  [i \in 1..Arity(e.op) |-> InputRequirement(e, g, i)]

(* Operators that may require a consumer's properties of their own input.  *)
CanPushDown(op) == op \in {"Filter", "Project"}

(* The operator's own need and the consumer's, joined on input 1.          *)
PushedRequirements(reqs, required) ==
  [reqs EXCEPT ![1] =
     [required EXCEPT
        !.format = IF reqs[1].format # "Any" THEN reqs[1].format ELSE @,
        !.sort   = IF @ = <<>> THEN reqs[1].sort ELSE @]]
-----------------------------------------------------------------------------
(* Which operators are legal at all for a group, whatever they would cost. *)

IsApplicable(op, keys, g) ==
  /\ g.joinKind \in {"Lateral", "LeftLateral"} => op \in NestedLoops
  /\ op = "StreamingAggregate" => g.split = Len(g.sortKeys)
  /\ op \in Aggregates => (op = "HashGroupingSets") = (g.sets > 0)
  /\ op = "UnionAll"  => g.setOp = "UnionAll"
  /\ op = "HashSetOp" => g.setOp # "UnionAll"
  /\ op \in {"MergeJoin", "HashJoin", "HashSemiJoin", "HashAntiJoin"} => keys # <<>>
-----------------------------------------------------------------------------
(* Enforcement: an exchange first, which destroys the order; then a format *)
(* conversion; then a sort.  Nothing enforces freshness.                   *)

NeedsExchange(have, required) == ~DistributionSatisfies(have.dist, required.dist)

(* Seeded defect: the exchange does not record where it moved the rows.    *)
AfterExchangeUnplaced(have, required) ==
  IF NeedsExchange(have, required) THEN [have EXCEPT !.sort = <<>>] ELSE have

(* Seeded defect: rows keep their order across an exchange.                *)
AfterExchangeInOrder(have, required) ==
  IF NeedsExchange(have, required) THEN [have EXCEPT !.dist = required.dist] ELSE have

AfterExchange(have, required) ==
  IF NeedsExchange(have, required)
  THEN [have EXCEPT !.dist = required.dist, !.sort = <<>>] ELSE have

NeedsConvert(have, required) == ~FormatSatisfies(have, required)

NeedsSort(have, required) ==
  ~SortPrefix(AfterExchange(have, required).sort, required.sort)

(* The properties of the enforced plan.                                    *)
Enforced(have, required) ==
  LET moved     == AfterExchange(have, required)
      converted == IF NeedsConvert(have, required)
                   THEN [moved EXCEPT !.format = required.format] ELSE moved
  IN  IF NeedsSort(have, required)
      THEN [converted EXCEPT !.sort = required.sort] ELSE converted

Enforceable(have, required) == Satisfies(Enforced(have, required), required)

(* Seeded defect: the order an enforcer establishes is forgotten.          *)
UpgradedFormat(provided, required) ==
  [provided EXCEPT !.format = IF required.format # "Any" THEN required.format ELSE @]

(* What the winner is recorded to provide once enforcers sit above it.     *)
Upgraded(provided, required) ==
  [provided EXCEPT
     !.format = IF required.format # "Any" THEN required.format ELSE @,
     !.sort   = IF required.sort # <<>> THEN required.sort ELSE @]
=============================================================================
