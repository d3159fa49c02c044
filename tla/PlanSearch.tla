----------------------------- MODULE PlanSearch -----------------------------
(***************************************************************************)
(* The property-directed search of src/src/lowering.cpp (struct Optimizer):*)
(* "the cheapest plan of a group that satisfies a requirement", memoized   *)
(* under that requirement, with branch-and-bound and the budget guard.     *)
(*                                                                         *)
(* The source is two mutually recursive functions, optimize() and          *)
(* optimize_inputs().  Here their activations are an explicit stack of     *)
(* open goals, so that every point at which the shared memo is read or     *)
(* written between two recursive calls is a state of its own.              *)
(*                                                                         *)
(* Exploration is over before the search starts, so a memo is an input:    *)
(* a sequence of groups, each reading only groups before it, root last.    *)
(***************************************************************************)
EXTENDS CostModel

CONSTANTS
  Memos,          \* the explored memos a run may start from
  Requirements,   \* what the root's consumer may require
  Modes           \* the switches: records [prune, greedy] of Booleans

ASSUME MemosAssumption        == \A m \in Memos : WellFormed(m)
ASSUME RequirementsAssumption == Requirements \subseteq Properties
ASSUME ModesAssumption        == Modes \subseteq [prune : BOOLEAN, greedy : BOOLEAN]

VARIABLES
  memo,      \* the explored groups; the search never changes them
  request,   \* the required output and the switches of this search
  winners,   \* per group, its winner entries in the order they were settled
  stack,     \* the open goals, outermost first
  stats      \* the counters the search reports

vars == <<memo, request, winners, stack, stats>>

Root   == Len(memo)
prune  == request.mode.prune
greedy == request.mode.greedy
-----------------------------------------------------------------------------
(* The winner table.                                                       *)

(* winner_index_for(): is one of these entries filed under `required'?     *)
Answered(entries, required) ==
  \E i \in DOMAIN entries : SameRequirement(entries[i].required, required)

Settled(g, required) == Answered(winners[g], required)

WinnerFor(g, required) ==
  winners[g][CHOOSE i \in DOMAIN winners[g] :
               SameRequirement(winners[g][i].required, required)]

(* Seeded defect: one winner per required order, whatever else is asked.   *)
RecordedPerOrder(entries, w) ==
  IF \E i \in DOMAIN entries : entries[i].required.sort = w.required.sort
  THEN [i \in DOMAIN entries |->
          IF entries[i].required.sort = w.required.sort THEN w ELSE entries[i]]
  ELSE Append(entries, w)

(* set_winner(): one entry per requirement, replaced in place if there.    *)
Recorded(entries, w) ==
  IF Answered(entries, w.required)
  THEN [i \in DOMAIN entries |->
          IF SameRequirement(entries[i].required, w.required)
          THEN [w EXCEPT !.required = entries[i].required] ELSE entries[i]]
  ELSE Append(entries, w)
-----------------------------------------------------------------------------
(* An open goal: the activation record of optimize().  `stage' is where    *)
(* its loop over the candidates stands: choosing one, or optimizing the    *)
(* inputs of candidate `cand' for the enforce or the push-down route.      *)

NoBest == [expr |-> 0, cost |-> Infinity,
           provided |-> Unconstrained, inputRequired |-> <<>>]

NewGoal(g, required, budget) ==
  [group |-> g, required |-> required, budget |-> budget, cand |-> 1,
   stage |-> "choose", bound |-> Infinity, next |-> 1, spent |-> 0,
   ins |-> <<>>, best |-> NoBest]

Top       == stack[Len(stack)]
SetTop(f) == [stack EXCEPT ![Len(stack)] = f]
Popped    == SubSeq(stack, 1, Len(stack) - 1)

GroupOf(f) == memo[f.group]
ExprOf(f)  == memo[f.group].exprs[f.cand]

OwnCost(e, g) ==
  OperatorCost(e, g, [i \in DOMAIN e.inputs |-> memo[e.inputs[i]].rows])

(* What the route in progress requires of each input of its candidate.     *)
DemandsOf(e, g, required, stage) ==
  LET needs == RequiredInputProperties(e, g)
  IN  IF stage = "pushdown" THEN PushedRequirements(needs, required) ELSE needs

Demands(f) == DemandsOf(ExprOf(f), GroupOf(f), f.required, f.stage)

InRoute(f)   == f.stage \in {"enforce", "pushdown"}
MoreInputs(f) == f.next <= Len(ExprOf(f).inputs)
Input(f)     == ExprOf(f).inputs[f.next]
Runs(f)      == InputEvaluations(ExprOf(f).op, f.next)

Demand(f)    == Demands(f)[f.next]

(* The strict upper bound a candidate has to stay under, and what is left  *)
(* of it for the candidate's inputs.                                       *)
BoundOf(f)     == IF prune THEN Cheaper(f.budget, f.best.cost) ELSE Infinity

(* Seeded defect: the candidate's own work is held against it twice.       *)
RouteBudgetTwice(f) == Minus(f.bound, 2 * OwnCost(ExprOf(f), GroupOf(f)))
RouteBudget(f) == Minus(f.bound, OwnCost(ExprOf(f), GroupOf(f)))

(* Seeded defect: an input gets what was spent, not what is left.          *)
InputBudgetSpent(f) == IF prune THEN Share(f.spent, Runs(f)) ELSE Infinity
InputBudget(f) == IF prune THEN Share(Minus(RouteBudget(f), f.spent), Runs(f))
                  ELSE Infinity

EnterRoute(f, stage) ==
  [f EXCEPT !.stage = stage, !.next = 1, !.spent = 0, !.ins = <<>>]

NextCandidate(f) == [EnterRoute(f, "choose") EXCEPT !.cand = @ + 1]

(* Where a goal goes, and what is counted, when one of its routes is over. *)
AfterRoute(f) ==
  IF f.stage = "enforce" /\ ~greedy /\ CanPushDown(ExprOf(f).op)
  THEN EnterRoute(f, "pushdown") ELSE NextCandidate(f)

CountRoute(f, s) ==
  CASE f.stage = "enforce" /\ greedy  -> [s EXCEPT !.skipped = @ + 1]
    [] f.stage = "enforce" /\ ~greedy -> [s EXCEPT !.explored = @ + 1]
    [] OTHER                          -> s

(* The plan a finished route has found.                                    *)
RouteProvides(f) == DeriveOp(ExprOf(f), GroupOf(f), f.ins)
RouteTop(f)  == EnforcementCost(RouteProvides(f), f.required, GroupOf(f).rows)

(* Seeded defect: the enforcers on top are not charged.                    *)
RouteCostBare(f) == f.spent + OwnCost(ExprOf(f), GroupOf(f))
RouteCost(f) == Plus(f.spent + OwnCost(ExprOf(f), GroupOf(f)), RouteTop(f))

RouteResult(f) ==
  [expr |-> f.cand, cost |-> RouteCost(f),
   provided |-> IF f.stage = "enforce" /\ RouteTop(f) # 0
                THEN Upgraded(RouteProvides(f), f.required) ELSE RouteProvides(f),
   inputRequired |-> Demands(f)]
-----------------------------------------------------------------------------
(* Of the estimates an explored memo carries: an operator that passes on   *)
(* its input's order or format makes no rows of none.                      *)
EmptyStaysEmpty(m) ==
  \A g \in 1..Len(m) : \A i \in 1..Len(m[g].exprs) :
    LET e == m[g].exprs[i] IN
    /\ e.op \in {"Filter", "Project", "Sort", "Limit", "Window", "StreamingDistinct",
                 "CreateTableAs"}
    /\ m[e.inputs[1]].rows = 0
    => m[g].rows = 0

Init ==
  /\ memo \in Memos
  /\ request \in [required : Requirements, mode : Modes]
  /\ winners = [g \in 1..Len(memo) |-> <<>>]
  /\ stack = <<NewGoal(Len(memo), request.required, Infinity)>>
  /\ stats = [goals |-> 1, pruned |-> 0, skipped |-> 0, explored |-> 0]

Searching == stack # <<>>
Choosing  == Searching /\ Top.stage = "choose"
Candidate == Choosing /\ Top.cand <= Len(GroupOf(Top).exprs)

(* The candidate's own work already costs at least the bound.              *)
PruneCandidate ==
  /\ Candidate
  /\ ~Less(OwnCost(ExprOf(Top), GroupOf(Top)), BoundOf(Top))
  /\ stack' = SetTop(NextCandidate(Top))
  /\ stats' = [stats EXCEPT !.pruned = @ + 1]
  /\ UNCHANGED <<memo, request, winners>>

StartCandidate ==
  /\ Candidate
  /\ Less(OwnCost(ExprOf(Top), GroupOf(Top)), BoundOf(Top))
  /\ stack' = SetTop(EnterRoute([Top EXCEPT !.bound = BoundOf(Top)], "enforce"))
  /\ UNCHANGED <<memo, request, winners, stats>>

AwaitsInput == Searching /\ InRoute(Top) /\ MoreInputs(Top)

(* Seeded defect: the memo is not consulted.                               *)
OpenGoalAgain ==
  /\ AwaitsInput
  /\ stack' = Append(stack, NewGoal(Input(Top), Demand(Top), InputBudget(Top)))
  /\ stats' = [stats EXCEPT !.goals = @ + 1]
  /\ UNCHANGED <<memo, request, winners>>

(* The input was never solved for this requirement: recurse.               *)
OpenGoal ==
  /\ AwaitsInput
  /\ ~Settled(Input(Top), Demand(Top))
  /\ stack' = Append(stack, NewGoal(Input(Top), Demand(Top), InputBudget(Top)))
  /\ stats' = [stats EXCEPT !.goals = @ + 1]
  /\ UNCHANGED <<memo, request, winners>>

Answer       == WinnerFor(Input(Top), Demand(Top))

(* Seeded defect: a repeated input is charged once.                        *)
SpentWithOne == Top.spent + Answer.cost
SpentWithIt  == Top.spent + Answer.cost * Runs(Top)

(* Seeded defect: a route goes on when its inputs have cost its budget.    *)
OverBudgetMissed == FALSE
OverBudget   == prune /\ ~Less(SpentWithIt, RouteBudget(Top))

AcceptInput ==
  /\ AwaitsInput
  /\ Settled(Input(Top), Demand(Top))
  /\ ~OverBudget
  /\ stack' = SetTop([Top EXCEPT !.spent = SpentWithIt, !.next = @ + 1,
                                 !.ins = Append(@, Answer.provided)])
  /\ UNCHANGED <<memo, request, winners, stats>>

(* The inputs so far already cost the whole budget: the route is over.     *)
RejectInput ==
  /\ AwaitsInput
  /\ Settled(Input(Top), Demand(Top))
  /\ OverBudget
  /\ stack' = SetTop(AfterRoute(Top))
  /\ stats' = CountRoute(Top, stats)
  /\ UNCHANGED <<memo, request, winners>>

(* Seeded defect: the last route wins, not the cheapest.                   *)
FinishRouteLast ==
  /\ Searching /\ InRoute(Top) /\ ~MoreInputs(Top)
  /\ stack' = SetTop(AfterRoute(
                IF RouteCost(Top) # Infinity
                THEN [Top EXCEPT !.best = RouteResult(Top)] ELSE Top))
  /\ stats' = CountRoute(Top, stats)
  /\ UNCHANGED <<memo, request, winners>>

FinishRoute ==
  /\ Searching /\ InRoute(Top) /\ ~MoreInputs(Top)
  /\ stack' = SetTop(AfterRoute(
                IF Less(RouteCost(Top), Top.best.cost)
                THEN [Top EXCEPT !.best = RouteResult(Top)] ELSE Top))
  /\ stats' = CountRoute(Top, stats)
  /\ UNCHANGED <<memo, request, winners>>

Exhausted == Choosing /\ Top.cand > Len(GroupOf(Top).exprs)

SettleGoal ==
  /\ Exhausted
  /\ Top.best.expr # 0
  /\ winners' = [winners EXCEPT ![Top.group] =
                   Recorded(@, [required |-> Top.required, expr |-> Top.best.expr,
                                cost |-> Top.best.cost, provided |-> Top.best.provided,
                                inputRequired |-> Top.best.inputRequired])]
  /\ stack' = Popped
  /\ UNCHANGED <<memo, request, stats>>

(* Seeded defect: a failed input is taken for one that costs nothing.      *)
FailGoalIgnored ==
  /\ Exhausted
  /\ Top.best.expr = 0
  /\ IF Len(stack) = 1
     THEN stack' = <<>>
     ELSE LET asker == stack[Len(stack) - 1]
          IN  stack' = [Popped EXCEPT ![Len(stack) - 1] =
                          [asker EXCEPT !.next = @ + 1,
                                        !.ins = Append(@, Unconstrained)]]
  /\ UNCHANGED <<memo, request, winners, stats>>

(* Nothing serves the goal, or nothing within its budget: nothing is       *)
(* recorded, and the route that asked for it is over.                      *)
FailGoal ==
  /\ Exhausted
  /\ Top.best.expr = 0
  /\ IF Len(stack) = 1
     THEN stack' = <<>> /\ UNCHANGED stats
     ELSE LET asker == stack[Len(stack) - 1]
          IN  /\ stack' = [Popped EXCEPT ![Len(stack) - 1] = AfterRoute(asker)]
              /\ stats' = CountRoute(asker, stats)
  /\ UNCHANGED <<memo, request, winners>>

Next ==
  \/ PruneCandidate \/ StartCandidate
  \/ OpenGoal \/ AcceptInput \/ RejectInput
  \/ FinishRoute
  \/ SettleGoal \/ FailGoal

(* The search is a plain function call: it runs until it returns.          *)
Spec == Init /\ [][Next]_vars /\ WF_vars(Next)

Done      == stack = <<>>
Succeeded == Done /\ Settled(Root, request.required)
-----------------------------------------------------------------------------
(* Properties.                                                             *)

Bests   == [expr : Nat, cost : Costs, provided : Properties,
            inputRequired : Seq(Properties)]
Entries == [required : Properties, expr : Nat, cost : Nat, provided : Properties,
            inputRequired : Seq(Properties)]
Goals   == [group : Nat, required : Properties, budget : Costs, cand : Nat,
            stage : {"choose", "enforce", "pushdown"}, bound : Costs, next : Nat,
            spent : Nat, ins : Seq(Properties), best : Bests]

(* The types of the variables. *)
TypeOK ==
  /\ memo \in Memos
  /\ request \in [required : Requirements, mode : Modes]
  /\ winners \in [1..Len(memo) -> Seq(Entries)]
  /\ stack \in Seq(Goals)
  /\ stats \in [goals : Nat, pruned : Nat, skipped : Nat, explored : Nat]

(* No goal is solved while an outer activation is still solving it: when   *)
(* optimize() reaches set_winner(), the entry it is about to write does    *)
(* not exist yet.                                                          *)
OpenGoalsUnsettled ==
  \A j \in DOMAIN stack : ~Settled(stack[j].group, stack[j].required)

(* A winner's child goals are all settled, under the very requirements the *)
(* winner recorded: extraction, which follows them, cannot meet a group    *)
(* without a winner.                                                       *)
ChildGoalsSettled ==
  \A g \in DOMAIN winners : \A i \in DOMAIN winners[g] :
    LET w == winners[g][i] e == memo[g].exprs[w.expr] IN
    \A k \in DOMAIN e.inputs : Settled(e.inputs[k], w.inputRequired[k])

(* What it costs to run every input of e as often as e runs it.            *)
InputsCost(e, reqs) ==
  LET cost(k) == WinnerFor(e.inputs[k], reqs[k]).cost * InputEvaluations(e.op, k)
  IN  CASE Len(e.inputs) = 0 -> 0
        [] Len(e.inputs) = 1 -> cost(1)
        [] OTHER             -> cost(1) + cost(2)

(* A recorded cost can be re-derived at any later time from the table as   *)
(* it then is: the operator's own work, its inputs' recorded costs, and    *)
(* the enforcers between what those inputs are recorded to provide and     *)
(* what the goal required.  No entry settled later may disturb it.         *)
CostsReproducible ==
  \A g \in DOMAIN winners : \A i \in DOMAIN winners[g] :
    LET w   == winners[g][i]
        e   == memo[g].exprs[w.expr]
        ins == [k \in DOMAIN e.inputs |->
                  WinnerFor(e.inputs[k], w.inputRequired[k]).provided]
    IN  w.cost = InputsCost(e, w.inputRequired) + OwnCost(e, memo[g])
                   + EnforcementCost(DeriveOp(e, memo[g], ins), w.required, memo[g].rows)

(* What a winner is recorded to provide serves the goal it is recorded     *)
(* under, wherever its rows are: the order, format and freshness that were *)
(* asked for are there, from its own operator, its inputs or the enforcers *)
(* it was charged for.  In a group without rows the source cannot tell a   *)
(* free enforcer from none, and records no order it establishes.           *)
WinnersServeTheirGoal ==
  \A g \in DOMAIN winners : \A i \in DOMAIN winners[g] :
    LET w == winners[g][i] IN
    memo[g].rows # 0 => Satisfies([w.provided EXCEPT !.dist = w.required.dist], w.required)

(* Indices into a group's winners stay valid across a recursive call:      *)
(* entries are appended, and none is moved, replaced or dropped.           *)
WinnersOnlyAppended ==
  [][\A g \in DOMAIN winners :
       /\ Len(winners[g]) <= Len(winners'[g])
       /\ \A i \in DOMAIN winners[g] : winners'[g][i] = winners[g][i]]_vars
=============================================================================
