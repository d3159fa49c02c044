------------------------------ MODULE Lowering ------------------------------
(***************************************************************************)
(* lower() as a whole (src/src/lowering.cpp): exploration of the logical   *)
(* plan into a memo, the search of that memo with the budget guard decided *)
(* by how many joins exploration counted, and the extraction of the plan.  *)
(*                                                                         *)
(* The same query is lowered under one context after the other, because    *)
(* what the switches of a context promise is about a pair of calls.  A     *)
(* context is the source's LoweringContext: the switches of exploration,   *)
(* the required output, `prune' and the override of the search budget.     *)
(***************************************************************************)
EXTENDS CostModel, Candidates

CONSTANTS
  Queries,            \* records [plan, contexts]: a logical plan, and the
                      \* contexts it is lowered under, in this order
  Narrowing, MaxReorderLeaves,
  MaxJoinCount        \* SearchBudget::max_join_count

VARIABLES
  query,       \* what is lowered
  results,     \* what the calls have returned
  logical, context, memo, payloads, index, calls, counters, groupOf,
  request, winners, stack, stats, nodes, plan,
  outcome      \* the phase of the call, or what it reports

Exploring == INSTANCE Exploration WITH Calls <- {}

(* The rows a plan is priced with: a join's are estimated from its own     *)
(* inputs, those of any other operator are given with the query.           *)
EstimateOf(e, g, in) ==
  IF e.op \in Joins
  THEN Exploring!JoinRows(in[1], in[2],
         [keys |-> e.keys, residual |-> [i \in 1..e.residuals |-> i]])
  ELSE g.rows

Planning ==
  INSTANCE Planner WITH
    Memos <- {}, Requirements <- {}, Modes <- {}, RowsOf <- EstimateOf

exploring   == <<logical, context, payloads, index, calls, counters, groupOf>>
planning    == <<request, winners, stack, stats, nodes, plan>>
callVars    == <<exploring, memo, planning, outcome>>
loweringVars == <<query, results, callVars>>

NothingCounted == [candidates |-> 0, shared |-> 0, joins |-> 0, regions |-> 0]
NothingDone    == [goals |-> 0, pruned |-> 0, skipped |-> 0, explored |-> 0]
NoRequest      == [required |-> Unconstrained, mode |-> [prune |-> FALSE, greedy |-> FALSE]]

LowerInit ==
  /\ query \in Queries
  /\ results = <<>>
  /\ logical = query.plan /\ context = query.contexts[1]
  /\ memo = <<>> /\ payloads = <<>> /\ index = <<>> /\ calls = <<>>
  /\ counters = NothingCounted /\ groupOf = <<>>
  /\ request = NoRequest /\ winners = <<>> /\ stack = <<>> /\ stats = NothingDone
  /\ nodes = <<>> /\ plan = Planning!NoPlan
  /\ outcome = "idle"

(* The next call, with a memo of its own.                                  *)
Call ==
  /\ outcome = "idle" /\ Len(results) < Len(query.contexts)
  /\ context' = query.contexts[Len(results) + 1]
  /\ memo' = <<>> /\ payloads' = <<>> /\ index' = <<>>
  /\ calls' = <<Exploring!NewCall(Len(logical))>>
  /\ counters' = NothingCounted
  /\ groupOf' = [n \in DOMAIN logical |-> 0]
  /\ request' = NoRequest /\ winners' = <<>> /\ stack' = <<>> /\ stats' = NothingDone
  /\ nodes' = <<>> /\ plan' = Planning!NoPlan
  /\ outcome' = "exploring"
  /\ UNCHANGED <<query, results, logical>>

Explore == Exploring!Next /\ UNCHANGED <<query, results, planning>>

Budget == IF context.maxJoins # 0 THEN context.maxJoins ELSE MaxJoinCount

GuardEngaged == counters.joins > Budget

(* The memo is handed to the search.                                       *)
StartSearch ==
  /\ outcome = "explored"
  /\ request' = [required |-> context.required,
                 mode |-> [prune |-> context.prune, greedy |-> GuardEngaged]]
  /\ winners' = [g \in DOMAIN memo |-> <<>>]
  /\ stack' = <<Planning!NewGoal(groupOf[Len(logical)], context.required, Infinity)>>
  /\ outcome' = "searching"
  /\ UNCHANGED <<query, results, exploring, memo, stats, nodes, plan>>

Plan ==
  /\ outcome \in {"searching", "extracting"}
  /\ Planning!PlannerNext
  /\ UNCHANGED <<query, results, exploring>>

Returning ==
  outcome \notin {"idle", "exploring", "explored", "searching", "extracting"}

(* The call returns its plan, or its reason.                               *)
Answer ==
  /\ Returning
  /\ results' = Append(results,
       [context |-> context, outcome |-> outcome, cost |-> plan.cost,
        guarded |-> request.mode.greedy])
  /\ outcome' = "idle"
  /\ UNCHANGED <<query, exploring, memo, planning>>

LowerNext == Call \/ Explore \/ StartSearch \/ Plan \/ Answer

LowerSpec == LowerInit /\ [][LowerNext]_loweringVars /\ WF_loweringVars(LowerNext)
-----------------------------------------------------------------------------
(* Properties.                                                             *)

(* A plan does what its query says, no less and no more: for every logical *)
(* operator there are as many physical ones that implement it as the query *)
(* has of it, however its joins were associated and its subtrees shared.   *)
(* Sorts are left out, which enforce as well as implement.                 *)
PlanIsTheQuery ==
  outcome = "ok" =>
    \A op \in {logical[n].op : n \in DOMAIN logical} \ {"Sort"} :
      Cardinality({n \in DOMAIN plan.tree : plan.tree[n].op \in Range(BuiltinPhysical(op))})
        = Cardinality({n \in DOMAIN logical : logical[n].op = op})

(* Two calls that returned, whose contexts are the same but for this.      *)
Differ(i, j, ignored) ==
  LET a == results[i].context b == results[j].context IN
  \A field \in DOMAIN a \ ignored : a[field] = b[field]

BothPlanned(i, j) == results[i].outcome = "ok" /\ results[j].outcome = "ok"

Full(i) == ~results[i].context.prune /\ ~results[i].guarded

(* Each join of the query relates its two sides by one equality, and tests *)
(* nothing else: then all splits of a range are estimated alike, and the   *)
(* written tree is among those associated.                                 *)
WrittenAsAChain ==
  \A n \in DOMAIN logical :
    Exploring!Reorderable(logical, n) =>
      /\ Exploring!Relates(n)
      /\ Len(logical[n].predicate) = 1 /\ logical[n].predicate[1].test = "="

(* Re-associating such joins never makes a plan dearer than the tree the   *)
(* query wrote.                                                            *)
ReorderingChainsNeverDearer ==
  WrittenAsAChain =>
  \A i, j \in DOMAIN results :
    Differ(i, j, {"reorder"}) /\ results[i].context.reorder /\ BothPlanned(i, j) /\ Full(i) =>
      results[i].cost <= results[j].cost

(* Sharing the groups of equal subtrees saves work and changes nothing: a  *)
(* plan is found for the same queries, at the same cost.                   *)
SharingChangesNothing ==
  \A i, j \in DOMAIN results :
    Differ(i, j, {"dedup"}) /\ Full(i) =>
      /\ results[i].outcome = results[j].outcome
      /\ results[i].cost = results[j].cost

(* The i-th call forbids scans of lagging copies, where the j-th requires  *)
(* a fresh result.                                                         *)
ForbidAndRequire(i, j) ==
  /\ Differ(i, j, {"freshness", "required"}) /\ Full(i) /\ Full(j)
  /\ results[i].context.freshness = "Fresh" /\ results[j].context.freshness = "Any"
  /\ results[j].context.required = [results[i].context.required EXCEPT !.freshness = "Fresh"]

(* To forbid lagging scans loses nothing that to require a fresh result    *)
(* would find: there is a plan, and not a dearer one.  INSERT is left out, *)
(* whose own rows are fresh wherever it read from.                         *)
Inserts == \E n \in DOMAIN logical : logical[n].op = "Insert"

ForbiddingLosesNothing ==
  ~Inserts =>
    \A i, j \in DOMAIN results :
      ForbidAndRequire(i, j) /\ results[j].outcome = "ok" =>
        results[i].outcome = "ok" /\ results[i].cost <= results[j].cost

(* The two are the same: a query that has a plan of fresh scans is planned *)
(* when a fresh result is required.                                        *)
FreshEitherWay ==
  \A i, j \in DOMAIN results :
    ForbidAndRequire(i, j) =>
      (results[i].outcome = "ok" <=> results[j].outcome = "ok")

(* Every call returns.                                                     *)
LowersEvery == <>(Len(results) = Len(query.contexts))
=============================================================================
