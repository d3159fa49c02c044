------------------------- MODULE PlanSearch_proofs --------------------------
(***************************************************************************)
(* Proofs about the search, for every memo, requirement, calibration and   *)
(* switch setting.                                                         *)
(*                                                                         *)
(* The invariants that matter are not inductive by themselves.  IInv adds  *)
(* what the activations of the recursion know of each other: an open goal  *)
(* waits on a lower group than its own, the inputs a route has consumed are*)
(* settled under exactly what the route demanded, and what is left of a    *)
(* route's budget is a cost.                                               *)
(***************************************************************************)
EXTENDS PlanSearch, PropertyTheorems

(* A plan chosen for group g: its candidate exists, and each of its inputs *)
(* is answered under the requirement the plan recorded for it.             *)
PlanOK(m, ws, g, p) ==
  /\ p.expr \in 1..Len(m[g].exprs)
  /\ p.cost \in Nat
  /\ Len(p.inputRequired) = Arity(m[g].exprs[p.expr].op)
  /\ \A k \in 1..Len(p.inputRequired) :
       Answered(ws[m[g].exprs[p.expr].inputs[k]], p.inputRequired[k])

OwnIn(m, e, g) == OperatorCost(e, g, [i \in DOMAIN e.inputs |-> m[e.inputs[i]].rows])

(* A route in progress: its candidate exists, it has consumed the inputs   *)
(* before `next' and each is answered as demanded, and what it has spent is*)
(* within what its bound leaves beside the candidate's own work.           *)
RouteOK(m, pruning, ws, f) ==
  LET g == m[f.group]
      e == g.exprs[f.cand]
  IN  /\ f.cand <= Len(g.exprs)
      /\ f.next \in 1..(Len(e.inputs) + 1)
      /\ Len(f.ins) = f.next - 1
      /\ f.stage = "pushdown" => CanPushDown(e.op)
      /\ ~pruning => f.bound = Infinity
      /\ Minus(f.bound, OwnIn(m, e, g)) \in Costs
      /\ Less(f.spent, Minus(f.bound, OwnIn(m, e, g)))
      /\ \A k \in 1..(f.next - 1) :
           Answered(ws[e.inputs[k]], DemandsOf(e, g, f.required, f.stage)[k])

GoalOK(m, pruning, ws, f) ==
  /\ f.group \in 1..Len(m)
  /\ f.cand \in 1..(Len(m[f.group].exprs) + 1)
  /\ f.best.expr # 0 => PlanOK(m, ws, f.group, f.best)
  /\ f.stage # "choose" => RouteOK(m, pruning, ws, f)

Waits(m, f) ==
  f.stage # "choose" /\ f.next <= Len(m[f.group].exprs[f.cand].inputs)

GoalsOK ==
  \A j \in 1..Len(stack) :
    /\ GoalOK(memo, prune, winners, stack[j])
    /\ ~Answered(winners[stack[j].group], stack[j].required)

(* Every goal but the innermost waits for an input, and the goals go down  *)
(* the memo: no group is asked while it is still being solved.             *)
GoalsDescend ==
  \A j, k \in 1..Len(stack) :
    j < k => Waits(memo, stack[j]) /\ stack[k].group < stack[j].group

WinnersOK ==
  \A g \in 1..Len(memo) : \A i \in 1..Len(winners[g]) :
    PlanOK(memo, winners, g, winners[g][i])

IInv == TypeOK /\ GoalsOK /\ GoalsDescend /\ WinnersOK

Counters == [goals : Nat, pruned : Nat, skipped : Nat, explored : Nat]
-----------------------------------------------------------------------------
(* The memo's well-formedness, in the form the proofs use it.              *)
LEMMA MemoType ==
  ASSUME NEW m \in Memos
  PROVE  /\ m \in Seq(Groups) /\ Len(m) \in Nat \ {0}
         /\ \A g \in 1..Len(m) :
              /\ m[g] \in Groups /\ m[g].rows \in Nat /\ Len(m[g].exprs) \in Nat
              /\ \A i \in 1..Len(m[g].exprs) :
                   /\ m[g].exprs[i] \in GroupExprs
                   /\ Len(m[g].exprs[i].inputs) = Arity(m[g].exprs[i].op)
                   /\ m[g].exprs[i].inputs \in Seq(Nat)
                   /\ Len(m[g].exprs[i].inputs) \in Nat
                   /\ DOMAIN m[g].exprs[i].inputs = 1..Len(m[g].exprs[i].inputs)
                   /\ \A k \in 1..Len(m[g].exprs[i].inputs) :
                        m[g].exprs[i].inputs[k] \in 1..(g - 1)
  <1>1. WellFormed(m)
    BY MemosAssumption
  <1>2. m \in Seq(Groups) /\ m # <<>>
    BY <1>1 DEF WellFormed
  <1>3. ASSUME NEW g \in 1..Len(m)
        PROVE  m[g] \in Groups /\ m[g].rows \in Nat /\ m[g].exprs \in Seq(GroupExprs)
    <2>1. m[g] \in Groups
      BY <1>2
    <2> QED
      BY <2>1 DEF Groups
  <1>4. ASSUME NEW g \in 1..Len(m), NEW i \in 1..Len(m[g].exprs)
        PROVE  /\ m[g].exprs[i] \in GroupExprs
               /\ m[g].exprs[i].inputs \in Seq(Nat)
    <2>1. m[g].exprs[i] \in GroupExprs
      BY <1>3
    <2> QED
      BY <2>1 DEF GroupExprs
  <1>5. ASSUME NEW g \in 1..Len(m), NEW i \in 1..Len(m[g].exprs)
        PROVE  /\ Len(m[g].exprs[i].inputs) = Arity(m[g].exprs[i].op)
               /\ \A k \in 1..Len(m[g].exprs[i].inputs) :
                    m[g].exprs[i].inputs[k] \in 1..(g - 1)
    BY <1>1 DEF WellFormed
  <1>6. Len(m) \in Nat \ {0}
    BY <1>2
  <1>7. \A g \in 1..Len(m) : Len(m[g].exprs) \in Nat
    BY <1>3
  <1>8. \A g \in 1..Len(m) : \A i \in 1..Len(m[g].exprs) :
          /\ Len(m[g].exprs[i].inputs) \in Nat
          /\ DOMAIN m[g].exprs[i].inputs = 1..Len(m[g].exprs[i].inputs)
    BY <1>4
  <1> QED
    BY <1>2, <1>3, <1>4, <1>5, <1>6, <1>7, <1>8

(* A candidate's own cost is a natural. *)
LEMMA OwnCostType ==
  ASSUME NEW m \in Memos, NEW g \in 1..Len(m), NEW i \in 1..Len(m[g].exprs)
  PROVE  OwnIn(m, m[g].exprs[i], m[g]) \in Nat
  <1> DEFINE e == m[g].exprs[i]
             in == [k \in DOMAIN e.inputs |-> m[e.inputs[k]].rows]
  <1>1. e \in GroupExprs /\ m[g] \in Groups
    BY MemoType
  <1>2. \A k \in 1..Arity(e.op) : in[k] \in Nat
    <2>1. \A k \in 1..Arity(e.op) : k \in DOMAIN e.inputs /\ e.inputs[k] \in 1..(g - 1)
      BY MemoType
    <2>2. \A h \in 1..(g - 1) : m[h].rows \in Nat
      BY MemoType
    <2> HIDE DEF e
    <2> QED
      BY <2>1, <2>2
  <1>3. OperatorCost(e, m[g], in) \in Nat
    <2> HIDE DEF e, in
    <2> QED
      BY <1>1, <1>2, OperatorCostType
  <1> QED
    BY <1>3 DEF OwnIn

(* A route demands one requirement of each input of its candidate.         *)
LEMMA DemandsType ==
  ASSUME NEW e \in GroupExprs, NEW g \in Groups, NEW required \in Properties,
         NEW stage, stage = "pushdown" => CanPushDown(e.op)
  PROVE  /\ DemandsOf(e, g, required, stage) \in Seq(Properties)
         /\ Len(DemandsOf(e, g, required, stage)) = Arity(e.op)
  <1>1. stage = "pushdown" => Len(RequiredInputProperties(e, g)) > 0
    <2>1. CanPushDown(e.op) => Arity(e.op) = 1
      BY DEF CanPushDown, Arity, Leaves, Binary, Joins, SemiJoins, SetOperators
    <2> QED
      BY <2>1, RequiredInputsType
  <1> QED
    BY <1>1, RequiredInputsType, PushedRequirementsType DEF DemandsOf
-----------------------------------------------------------------------------
(* Steps that touch only the stack.                                        *)

(* Replacing the innermost goal by another step of the same goal, or       *)
(* dropping it and doing so with its asker, preserves the invariant.       *)
LEMMA StackStep ==
  ASSUME IInv, NEW n \in 1..Len(stack),
         stack' \in Seq(Goals), Len(stack') = n,
         \A j \in 1..(n - 1) : stack'[j] = stack[j],
         stack'[n].group = stack[n].group,
         stack'[n].required = stack[n].required,
         GoalOK(memo, prune, winners, stack'[n]),
         stats' \in Counters,
         UNCHANGED <<memo, request, winners>>
  PROVE  IInv'
  <1>1. TypeOK'
    BY DEF IInv, TypeOK, Counters
  <1>2. prune' = prune
    BY DEF prune
  <1>3. Len(stack) \in Nat /\ \A j \in 1..n : j \in 1..Len(stack)
    BY DEF IInv, TypeOK
  <1>4. \A j \in 1..n : stack'[j].group = stack[j].group
                        /\ stack'[j].required = stack[j].required
    BY <1>3
  <1>5. GoalsOK'
    <2> SUFFICES ASSUME NEW j \in 1..n
                 PROVE  /\ GoalOK(memo, prune, winners, stack'[j])
                        /\ ~Answered(winners[stack'[j].group], stack'[j].required)
      BY <1>2 DEF GoalsOK
    <2>1. GoalOK(memo, prune, winners, stack[j])
            /\ ~Answered(winners[stack[j].group], stack[j].required)
      BY <1>3 DEF IInv, GoalsOK
    <2>2. j = n \/ stack'[j] = stack[j]
      BY <1>3
    <2> QED
      BY <2>1, <2>2, <1>4
  <1>6. GoalsDescend'
    <2> SUFFICES ASSUME NEW j \in 1..n, NEW k \in 1..n, j < k
                 PROVE  Waits(memo, stack'[j]) /\ stack'[k].group < stack'[j].group
      BY DEF GoalsDescend
    <2>1. stack'[j] = stack[j]
      BY <1>3
    <2>2. Waits(memo, stack[j]) /\ stack[k].group < stack[j].group
      BY <1>3 DEF IInv, GoalsDescend
    <2> QED
      BY <2>1, <2>2, <1>4
  <1>7. WinnersOK'
    BY DEF IInv, WinnersOK
  <1> QED
    BY <1>1, <1>5, <1>6, <1>7 DEF IInv

(* An open goal is well-formed, as is its candidate if it has one.         *)
LEMMA GoalFacts ==
  ASSUME IInv, NEW j \in 1..Len(stack)
  PROVE  /\ stack[j] \in Goals
         /\ GoalOK(memo, prune, winners, stack[j])
         /\ memo \in Memos /\ memo[stack[j].group] \in Groups
         /\ stack[j].group \in 1..Len(memo)
         /\ Len(memo[stack[j].group].exprs) \in Nat
  BY MemoType DEF IInv, TypeOK, GoalsOK, GoalOK

(* Giving a candidate up leaves the goal well-formed. *)
LEMMA NextCandidateOK ==
  ASSUME NEW f \in Goals, memo \in Memos, GoalOK(memo, prune, winners, f),
         f.cand <= Len(memo[f.group].exprs)
  PROVE  /\ NextCandidate(f) \in Goals
         /\ NextCandidate(f).group = f.group
         /\ NextCandidate(f).required = f.required
         /\ GoalOK(memo, prune, winners, NextCandidate(f))
  <1> DEFINE h == EnterRoute(f, "choose")
  <1>1. <<>> \in Seq(Properties)
    OBVIOUS
  <1>2. /\ h \in Goals /\ h.group = f.group /\ h.required = f.required
        /\ h.best = f.best /\ h.cand = f.cand /\ h.stage = "choose"
    BY <1>1 DEF EnterRoute, Goals
  <1>3. /\ NextCandidate(f) \in Goals
        /\ NextCandidate(f).group = f.group
        /\ NextCandidate(f).required = f.required
        /\ NextCandidate(f).best = f.best
        /\ NextCandidate(f).cand = f.cand + 1
        /\ NextCandidate(f).stage = "choose"
    <2>1. NextCandidate(f) = [h EXCEPT !.cand = h.cand + 1]
      BY DEF NextCandidate
    <2>2. h.cand + 1 \in Nat
      BY <1>2 DEF Goals
    <2> HIDE DEF h
    <2>3. /\ NextCandidate(f).group = h.group /\ NextCandidate(f).best = h.best
          /\ NextCandidate(f).required = h.required
          /\ NextCandidate(f).cand = h.cand + 1 /\ NextCandidate(f).stage = h.stage
      BY <1>2, <2>1 DEF Goals
    <2>4. NextCandidate(f) \in Goals
      BY <1>2, <2>1, <2>2 DEF Goals
    <2> QED
      BY <1>2, <2>3, <2>4
  <1>4. f.cand \in 1..Len(memo[f.group].exprs)
    BY MemoType DEF GoalOK
  <1>5. f.cand + 1 \in 1..(Len(memo[f.group].exprs) + 1)
    BY <1>4, MemoType DEF GoalOK
  <1> QED
    BY <1>3, <1>5 DEF GoalOK

(* A route may be entered with an allowance that is not used up yet.       *)
LEMMA EnterRouteOK ==
  ASSUME NEW f \in Goals, memo \in Memos, GoalOK(memo, prune, winners, f),
         f.cand <= Len(memo[f.group].exprs),
         NEW stage \in {"enforce", "pushdown"},
         stage = "pushdown" => CanPushDown(ExprOf(f).op),
         ~prune => f.bound = Infinity,
         RouteBudget(f) \in Costs, Less(0, RouteBudget(f))
  PROVE  /\ EnterRoute(f, stage) \in Goals
         /\ EnterRoute(f, stage).group = f.group
         /\ EnterRoute(f, stage).required = f.required
         /\ GoalOK(memo, prune, winners, EnterRoute(f, stage))
  <1> DEFINE h == EnterRoute(f, stage)
  <1>1. <<>> \in Seq(Properties) /\ Len(<<>>) = 0
    OBVIOUS
  <1>2. /\ h \in Goals
        /\ h.group = f.group /\ h.required = f.required /\ h.best = f.best
        /\ h.cand = f.cand /\ h.bound = f.bound /\ h.stage = stage
        /\ h.next = 1 /\ h.spent = 0 /\ h.ins = <<>>
    BY <1>1 DEF EnterRoute, Goals
  <1>3. f.group \in 1..Len(memo) /\ f.cand \in 1..Len(memo[f.group].exprs)
    BY MemoType DEF GoalOK
  <1>4. Len(memo[f.group].exprs[f.cand].inputs) \in Nat
    BY <1>3, MemoType
  <1>5. RouteOK(memo, prune, winners, h)
    <2> HIDE DEF h
    <2>1. 1 \in 1..(Len(memo[f.group].exprs[f.cand].inputs) + 1)
      <3>1. \A n \in Nat : 1 \in 1..(n + 1)
        OBVIOUS
      <3> QED
        BY <1>4, <3>1
    <2>2. /\ Minus(f.bound, OwnIn(memo, ExprOf(f), GroupOf(f))) \in Costs
          /\ Less(0, Minus(f.bound, OwnIn(memo, ExprOf(f), GroupOf(f))))
      BY DEF RouteBudget, OwnCost, OwnIn
    <2> QED
      BY <1>1, <1>2, <1>3, <2>1, <2>2 DEF RouteOK, ExprOf, GroupOf
  <1> QED
    <2> HIDE DEF h
    <2>1. GoalOK(memo, prune, winners, h)
      BY <1>2, <1>5 DEF GoalOK
    <2> QED
      BY <1>2, <2>1 DEF h

(* The candidate a goal is at. *)
LEMMA CandidateFacts ==
  ASSUME NEW f \in Goals, memo \in Memos, GoalOK(memo, prune, winners, f),
         f.cand <= Len(memo[f.group].exprs)
  PROVE  /\ f.group \in 1..Len(memo) /\ f.cand \in 1..Len(memo[f.group].exprs)
         /\ GroupOf(f) \in Groups /\ GroupOf(f).rows \in Nat
         /\ ExprOf(f) \in GroupExprs
         /\ Len(ExprOf(f).inputs) = Arity(ExprOf(f).op)
         /\ Len(ExprOf(f).inputs) \in Nat
         /\ \A k \in 1..Len(ExprOf(f).inputs) : ExprOf(f).inputs[k] \in 1..(f.group - 1)
         /\ OwnCost(ExprOf(f), GroupOf(f)) \in Nat
         /\ OwnIn(memo, ExprOf(f), GroupOf(f)) = OwnCost(ExprOf(f), GroupOf(f))
  <1>1. f.group \in 1..Len(memo) /\ f.cand \in 1..Len(memo[f.group].exprs)
    BY MemoType DEF GoalOK
  <1>2. OwnIn(memo, ExprOf(f), GroupOf(f)) = OwnCost(ExprOf(f), GroupOf(f))
    BY DEF OwnCost, OwnIn
  <1>3. OwnIn(memo, ExprOf(f), GroupOf(f)) \in Nat
    BY <1>1, OwnCostType DEF ExprOf, GroupOf
  <1> QED
    BY <1>1, <1>2, <1>3, MemoType DEF ExprOf, GroupOf

(* A route in progress, in the terms of the specification. *)
LEMMA RouteFacts ==
  ASSUME NEW f \in Goals, memo \in Memos, GoalOK(memo, prune, winners, f), InRoute(f)
  PROVE  /\ f.cand <= Len(memo[f.group].exprs)
         /\ f.next \in 1..(Len(ExprOf(f).inputs) + 1)
         /\ Len(f.ins) = f.next - 1
         /\ f.stage = "pushdown" => CanPushDown(ExprOf(f).op)
         /\ ~prune => f.bound = Infinity
         /\ RouteBudget(f) \in Costs
         /\ Less(f.spent, RouteBudget(f))
         /\ Demands(f) \in Seq(Properties)
         /\ Len(Demands(f)) = Arity(ExprOf(f).op)
         /\ \A k \in 1..(f.next - 1) : Settled(ExprOf(f).inputs[k], Demands(f)[k])
  <1>1. RouteOK(memo, prune, winners, f) /\ f.cand <= Len(memo[f.group].exprs)
    BY DEF GoalOK, InRoute, RouteOK
  <1>2. RouteBudget(f) = Minus(f.bound, OwnIn(memo, ExprOf(f), GroupOf(f)))
    BY DEF RouteBudget, OwnCost, OwnIn
  <1>3. f.required \in Properties
    BY DEF Goals
  <1>4. f.stage = "pushdown" => CanPushDown(ExprOf(f).op)
    BY <1>1 DEF RouteOK, ExprOf
  <1>5. Demands(f) \in Seq(Properties) /\ Len(Demands(f)) = Arity(ExprOf(f).op)
    BY <1>1, <1>3, <1>4, CandidateFacts, DemandsType DEF Demands
  <1> QED
    BY <1>1, <1>2, <1>4, <1>5 DEF RouteOK, ExprOf, GroupOf, Demands, Settled

(* A route that is over leads to the push-down route or the next candidate.*)
LEMMA AfterRouteOK ==
  ASSUME NEW f \in Goals, memo \in Memos, GoalOK(memo, prune, winners, f), InRoute(f)
  PROVE  /\ AfterRoute(f) \in Goals
         /\ AfterRoute(f).group = f.group
         /\ AfterRoute(f).required = f.required
         /\ GoalOK(memo, prune, winners, AfterRoute(f))
  <1>1. Less(0, RouteBudget(f))
    BY RouteFacts DEF Less, Costs, Infinity, Goals
  <1>2. AfterRoute(f) = NextCandidate(f)
          \/ (AfterRoute(f) = EnterRoute(f, "pushdown") /\ CanPushDown(ExprOf(f).op))
    BY DEF AfterRoute
  <1>3. /\ NextCandidate(f) \in Goals
        /\ NextCandidate(f).group = f.group
        /\ NextCandidate(f).required = f.required
        /\ GoalOK(memo, prune, winners, NextCandidate(f))
    BY RouteFacts, NextCandidateOK
  <1>4. ASSUME CanPushDown(ExprOf(f).op)
        PROVE  /\ EnterRoute(f, "pushdown") \in Goals
               /\ EnterRoute(f, "pushdown").group = f.group
               /\ EnterRoute(f, "pushdown").required = f.required
               /\ GoalOK(memo, prune, winners, EnterRoute(f, "pushdown"))
    BY <1>1, <1>4, RouteFacts, EnterRouteOK
  <1> QED
    BY <1>2, <1>3, <1>4

(* The counters stay naturals. *)
LEMMA CountRouteType ==
  ASSUME NEW f, NEW s \in Counters
  PROVE  CountRoute(f, s) \in Counters
  BY DEF CountRoute, Counters

(* The innermost goal. *)
LEMMA TopFacts ==
  ASSUME IInv, Searching
  PROVE  /\ Len(stack) \in Nat \ {0} /\ Len(stack) \in 1..Len(stack)
         /\ stack \in Seq(Goals) /\ Top = stack[Len(stack)] /\ Top \in Goals
         /\ GoalOK(memo, prune, winners, Top)
         /\ memo \in Memos /\ stats \in Counters
  BY GoalFacts DEF IInv, TypeOK, Searching, Top, Counters

(* A step that replaces the innermost goal by a later state of itself.     *)
LEMMA TopStep ==
  ASSUME IInv, Searching, NEW f \in Goals,
         f.group = Top.group, f.required = Top.required,
         GoalOK(memo, prune, winners, f),
         stack' = SetTop(f), stats' \in Counters,
         UNCHANGED <<memo, request, winners>>
  PROVE  IInv'
  <1> DEFINE n == Len(stack)
  <1>1. n \in Nat \ {0} /\ n \in 1..n /\ stack \in Seq(Goals) /\ Top = stack[n]
    BY TopFacts
  <1>2. /\ stack' \in Seq(Goals) /\ Len(stack') = n
        /\ \A j \in 1..(n - 1) : stack'[j] = stack[j]
        /\ stack'[n] = f
    BY <1>1 DEF SetTop
  <1> QED
    BY <1>1, <1>2, StackStep
-----------------------------------------------------------------------------
(* The invariant holds initially and is preserved by each action.          *)

LEMMA BestType == NoBest \in Bests /\ Unconstrained \in Properties
  <1>1. <<>> \in Seq(Properties) /\ <<>> \in Seq(SortKeys)
    OBVIOUS
  <1>2. Unconstrained \in Properties
    BY <1>1, FixedDistributions DEF Unconstrained, Properties, Formats, Freshnesses
  <1> QED
    BY <1>1, <1>2 DEF NoBest, Bests, Costs, Infinity

(* A goal that has just been asked for. *)
LEMMA NewGoalOK ==
  ASSUME memo \in Memos, NEW g \in 1..Len(memo), NEW required \in Properties,
         NEW budget \in Costs
  PROVE  /\ NewGoal(g, required, budget) \in Goals
         /\ NewGoal(g, required, budget).group = g
         /\ NewGoal(g, required, budget).required = required
         /\ GoalOK(memo, prune, winners, NewGoal(g, required, budget))
  <1>1. <<>> \in Seq(Properties) /\ Infinity \in Costs /\ g \in Nat
    BY MemoType DEF Costs
  <1>2. NewGoal(g, required, budget) \in Goals
    BY <1>1, BestType DEF NewGoal, Goals
  <1>3. 1 \in 1..(Len(memo[g].exprs) + 1)
    BY MemoType
  <1> QED
    BY <1>2, <1>3 DEF NewGoal, GoalOK, NoBest

LEMMA InitIInv == Init => IInv
  <1> SUFFICES ASSUME Init PROVE IInv
    OBVIOUS
  <1> DEFINE root == NewGoal(Len(memo), request.required, Infinity)
  <1>1. memo \in Memos /\ Len(memo) \in 1..Len(memo) /\ Infinity \in Costs
    BY MemoType DEF Init, Costs
  <1>2. request.required \in Properties
    BY RequirementsAssumption DEF Init
  <1>3. /\ root \in Goals /\ root.group = Len(memo)
        /\ GoalOK(memo, prune, winners, root)
    BY <1>1, <1>2, NewGoalOK
  <1>4. stack = <<root>> /\ winners = [g \in 1..Len(memo) |-> <<>>]
    BY DEF Init
  <1> HIDE DEF root
  <1>5. stack \in Seq(Goals) /\ Len(stack) = 1 /\ stack[1] = root
    BY <1>3, <1>4
  <1>6. winners \in [1..Len(memo) -> Seq(Entries)]
    BY <1>4
  <1>7. TypeOK
    BY <1>5, <1>6 DEF Init, TypeOK
  <1>8. GoalsOK
    BY <1>1, <1>3, <1>4, <1>5 DEF GoalsOK, Answered
  <1>9. GoalsDescend
    BY <1>5 DEF GoalsDescend
  <1>10. WinnersOK
    BY <1>4 DEF WinnersOK
  <1> QED
    BY <1>7, <1>8, <1>9, <1>10 DEF IInv

(* The bound a candidate starts under is a cost. *)
LEMMA BoundType ==
  ASSUME NEW f \in Goals
  PROVE  BoundOf(f) \in Costs /\ (~prune => BoundOf(f) = Infinity)
  BY DEF BoundOf, Cheaper, Goals, Bests, Costs

LEMMA PrunePreserves == IInv /\ PruneCandidate => IInv'
  <1> SUFFICES ASSUME IInv, PruneCandidate PROVE IInv'
    OBVIOUS
  <1>1. /\ Searching /\ Top.cand <= Len(memo[Top.group].exprs)
        /\ stack' = SetTop(NextCandidate(Top)) /\ UNCHANGED <<memo, request, winners>>
    BY DEF PruneCandidate, Candidate, Choosing, GroupOf
  <1>2. stats' \in Counters
    BY <1>1, TopFacts DEF PruneCandidate, Counters
  <1>3. /\ NextCandidate(Top) \in Goals
        /\ NextCandidate(Top).group = Top.group
        /\ NextCandidate(Top).required = Top.required
        /\ GoalOK(memo, prune, winners, NextCandidate(Top))
    BY <1>1, TopFacts, NextCandidateOK
  <1> QED
    BY <1>1, <1>2, <1>3, TopStep

LEMMA StartPreserves == IInv /\ StartCandidate => IInv'
  <1> SUFFICES ASSUME IInv, StartCandidate PROVE IInv'
    OBVIOUS
  <1> DEFINE f == [Top EXCEPT !.bound = BoundOf(Top)]
             own == OwnCost(ExprOf(Top), GroupOf(Top))
  <1>1. /\ Searching /\ Top.cand <= Len(memo[Top.group].exprs)
        /\ Top.stage = "choose" /\ Less(own, BoundOf(Top))
        /\ stack' = SetTop(EnterRoute(f, "enforce"))
        /\ UNCHANGED <<memo, request, winners, stats>>
    BY DEF StartCandidate, Candidate, Choosing, GroupOf
  <1>2. Top \in Goals /\ memo \in Memos /\ GoalOK(memo, prune, winners, Top)
    BY <1>1, TopFacts
  <1>3. BoundOf(Top) \in Costs /\ (~prune => BoundOf(Top) = Infinity)
    BY <1>2, BoundType
  <1>4. /\ f \in Goals /\ f.group = Top.group /\ f.required = Top.required
        /\ f.cand = Top.cand /\ f.best = Top.best /\ f.stage = Top.stage
        /\ f.bound = BoundOf(Top)
    BY <1>2, <1>3 DEF Goals
  <1>5. own \in Nat
    BY <1>1, <1>2, CandidateFacts
  <1> HIDE DEF f
  <1>6. GoalOK(memo, prune, winners, f)
    BY <1>1, <1>2, <1>4 DEF GoalOK
  <1>7. RouteBudget(f) = Minus(BoundOf(Top), own)
    BY <1>4 DEF RouteBudget, ExprOf, GroupOf
  <1>8. RouteBudget(f) \in Costs /\ Less(0, RouteBudget(f))
    <2> HIDE DEF own
    <2> QED
      BY <1>1, <1>3, <1>5, <1>7 DEF Minus, Less, Costs, Infinity
  <1>9. /\ EnterRoute(f, "enforce") \in Goals
        /\ EnterRoute(f, "enforce").group = f.group
        /\ EnterRoute(f, "enforce").required = f.required
        /\ GoalOK(memo, prune, winners, EnterRoute(f, "enforce"))
    BY <1>1, <1>2, <1>3, <1>4, <1>6, <1>8, EnterRouteOK
  <1>10. stats' \in Counters
    BY <1>1, TopFacts
  <1> QED
    BY <1>1, <1>4, <1>9, <1>10, TopStep

LEMMA RejectPreserves == IInv /\ RejectInput => IInv'
  <1> SUFFICES ASSUME IInv, RejectInput PROVE IInv'
    OBVIOUS
  <1>1. /\ Searching /\ InRoute(Top) /\ stack' = SetTop(AfterRoute(Top))
        /\ stats' = CountRoute(Top, stats) /\ UNCHANGED <<memo, request, winners>>
    BY DEF RejectInput, AwaitsInput
  <1>2. stats' \in Counters
    BY <1>1, TopFacts, CountRouteType
  <1>3. /\ AfterRoute(Top) \in Goals
        /\ AfterRoute(Top).group = Top.group
        /\ AfterRoute(Top).required = Top.required
        /\ GoalOK(memo, prune, winners, AfterRoute(Top))
    BY <1>1, TopFacts, AfterRouteOK
  <1> QED
    BY <1>1, <1>2, <1>3, TopStep

(* The input a route waits for, and what it asks of it. *)
LEMMA InputFacts ==
  ASSUME IInv, AwaitsInput
  PROVE  /\ Input(Top) \in 1..(Top.group - 1) /\ Input(Top) \in 1..Len(memo)
         /\ Demand(Top) \in Properties
         /\ Runs(Top) \in Nat \ {0}
         /\ Top.next \in 1..Len(ExprOf(Top).inputs)
  <1>1. Searching /\ InRoute(Top) /\ MoreInputs(Top)
    BY DEF AwaitsInput
  <1>2. Top \in Goals /\ memo \in Memos /\ GoalOK(memo, prune, winners, Top)
    BY <1>1, TopFacts
  <1>3. /\ Top.cand <= Len(memo[Top.group].exprs)
        /\ Top.next \in 1..(Len(ExprOf(Top).inputs) + 1)
        /\ Demands(Top) \in Seq(Properties)
        /\ Len(Demands(Top)) = Arity(ExprOf(Top).op)
    BY <1>1, <1>2, RouteFacts
  <1>4. /\ Top.group \in 1..Len(memo) /\ Len(memo) \in Nat
        /\ Len(ExprOf(Top).inputs) = Arity(ExprOf(Top).op)
        /\ Len(ExprOf(Top).inputs) \in Nat
        /\ \A k \in 1..Len(ExprOf(Top).inputs) :
             ExprOf(Top).inputs[k] \in 1..(Top.group - 1)
    BY <1>2, <1>3, CandidateFacts, MemoType
  <1>5. Top.next \in 1..Len(ExprOf(Top).inputs)
    BY <1>1, <1>3, <1>4 DEF MoreInputs
  <1>6. Input(Top) \in 1..(Top.group - 1) /\ Input(Top) \in 1..Len(memo)
    BY <1>4, <1>5 DEF Input
  <1>7. Demand(Top) \in Properties
    <2>1. Top.next \in 1..Len(Demands(Top))
      BY <1>3, <1>4, <1>5
    <2> QED
      BY <1>3, <2>1 DEF Demand
  <1>8. Runs(Top) \in Nat \ {0}
    BY IterationsAssumption DEF Runs, InputEvaluations
  <1> QED
    BY <1>5, <1>6, <1>7, <1>8

(* The entry found for a settled goal is an entry of the table. *)
LEMMA WinnerForFacts ==
  ASSUME TypeOK, NEW g \in 1..Len(memo), NEW required, Settled(g, required)
  PROVE  WinnerFor(g, required) \in Entries
  <1>1. winners[g] \in Seq(Entries)
    BY DEF TypeOK
  <1>2. \E i \in DOMAIN winners[g] : SameRequirement(winners[g][i].required, required)
    BY DEF Settled, Answered
  <1>3. (CHOOSE i \in DOMAIN winners[g] : SameRequirement(winners[g][i].required, required))
          \in DOMAIN winners[g]
    BY <1>2
  <1>4. \A i \in DOMAIN winners[g] : winners[g][i] \in Entries
    BY <1>1
  <1> QED
    BY <1>3, <1>4 DEF WinnerFor

LEMMA AcceptPreserves == IInv /\ AcceptInput => IInv'
  <1> SUFFICES ASSUME IInv, AcceptInput PROVE IInv'
    OBVIOUS
  <1> DEFINE f == [Top EXCEPT !.spent = SpentWithIt, !.next = Top.next + 1,
                              !.ins = Append(Top.ins, Answer.provided)]
  <1>1. /\ AwaitsInput /\ Searching /\ InRoute(Top)
        /\ Settled(Input(Top), Demand(Top)) /\ ~OverBudget
        /\ stack' = SetTop(f) /\ UNCHANGED <<memo, request, winners, stats>>
    BY DEF AcceptInput, AwaitsInput
  <1>2. /\ Top \in Goals /\ memo \in Memos /\ GoalOK(memo, prune, winners, Top)
        /\ stats' \in Counters
    BY <1>1, TopFacts
  <1>3. /\ Input(Top) \in 1..Len(memo) /\ Runs(Top) \in Nat
        /\ Top.next \in 1..Len(ExprOf(Top).inputs)
    BY <1>1, InputFacts
  <1>4. Answer \in Entries
    BY <1>1, <1>3, WinnerForFacts DEF IInv, Answer
  <1>5. SpentWithIt \in Nat
    <2>1. Answer.cost \in Nat /\ Top.spent \in Nat
      BY <1>2, <1>4 DEF Entries, Goals
    <2>2. Answer.cost * Runs(Top) \in Nat
      BY <1>3, <2>1, NatTimes
    <2> QED
      BY <2>1, <2>2 DEF SpentWithIt
  <1>6. /\ Top.next + 1 \in Nat
        /\ Append(Top.ins, Answer.provided) \in Seq(Properties)
        /\ Len(Append(Top.ins, Answer.provided)) = Len(Top.ins) + 1
    BY <1>2, <1>4 DEF Entries, Goals
  <1>7. /\ f \in Goals /\ f.group = Top.group /\ f.required = Top.required
        /\ f.cand = Top.cand /\ f.best = Top.best /\ f.stage = Top.stage
        /\ f.bound = Top.bound /\ f.spent = SpentWithIt /\ f.next = Top.next + 1
        /\ f.ins = Append(Top.ins, Answer.provided)
    BY <1>2, <1>5, <1>6 DEF Goals
  <1> HIDE DEF f
  <1>8. Less(f.spent, RouteBudget(Top))
    <2>1. CASE prune
      BY <1>1, <1>7, <2>1 DEF OverBudget
    <2>2. CASE ~prune
      <3>1. RouteBudget(Top) = Infinity
        BY <1>1, <1>2, <2>2, RouteFacts DEF RouteBudget, Minus
      <3> QED
        BY <1>5, <1>7, <3>1 DEF Less, Infinity
    <2> QED
      BY <2>1, <2>2
  <1>9. RouteOK(memo, prune, winners, f)
    <2>1. RouteOK(memo, prune, winners, Top)
      BY <1>1, <1>2 DEF GoalOK, InRoute
    <2>2. f.next \in 1..(Len(ExprOf(Top).inputs) + 1)
      <3>1. \A m \in Nat : \A x \in 1..m : x + 1 \in 1..(m + 1)
        OBVIOUS
      <3>2. Len(ExprOf(Top).inputs) \in Nat
        BY <1>1, <1>2, RouteFacts, CandidateFacts
      <3> QED
        BY <1>3, <1>7, <3>1, <3>2
    <2>3. Len(f.ins) = f.next - 1
      <3>1. Len(Top.ins) = Top.next - 1
        BY <2>1 DEF RouteOK
      <3>2. Top.next \in Nat
        BY <1>2 DEF Goals
      <3> QED
        BY <1>6, <1>7, <3>1, <3>2
    <2>4. \A k \in 1..(f.next - 1) :
            Answered(winners[ExprOf(Top).inputs[k]], Demands(Top)[k])
      <3>1. \A k \in 1..(f.next - 1) : k = Top.next \/ k \in 1..(Top.next - 1)
        BY <1>3, <1>7
      <3> QED
        BY <1>1, <1>2, <3>1, RouteFacts DEF Settled, Input, Demand
    <2>5. RouteBudget(Top) = Minus(f.bound, OwnIn(memo, ExprOf(Top), GroupOf(Top)))
      BY <1>7 DEF RouteBudget, OwnCost, OwnIn
    <2> QED
      BY <1>7, <1>8, <2>1, <2>2, <2>3, <2>4, <2>5
      DEF RouteOK, ExprOf, GroupOf, Demands
  <1>10. GoalOK(memo, prune, winners, f)
    BY <1>2, <1>7, <1>9 DEF GoalOK
  <1> QED
    BY <1>1, <1>2, <1>7, <1>10, TopStep

(* What is left of a route's allowance for its next input is a cost.       *)
LEMMA InputBudgetType ==
  ASSUME IInv, AwaitsInput
  PROVE  InputBudget(Top) \in Costs
  <1>1. /\ Top \in Goals /\ Top.spent \in Nat
        /\ RouteBudget(Top) \in Costs /\ Less(Top.spent, RouteBudget(Top))
    BY TopFacts, RouteFacts DEF AwaitsInput, Goals
  <1>2. Runs(Top) \in Nat \ {0}
    BY InputFacts
  <1>3. \A b \in Nat, n \in Nat \ {0} : (b + n - 1) \div n \in Nat
    OBVIOUS
  <1>4. \/ Minus(RouteBudget(Top), Top.spent) = Infinity
        \/ Minus(RouteBudget(Top), Top.spent) \in Nat
    BY <1>1 DEF Minus, Less, Costs, Infinity
  <1> QED
    BY <1>2, <1>3, <1>4 DEF InputBudget, Share, Costs

LEMMA OpenPreserves == IInv /\ OpenGoal => IInv'
  <1> SUFFICES ASSUME IInv, OpenGoal PROVE IInv'
    OBVIOUS
  <1> DEFINE n == Len(stack)
             f == NewGoal(Input(Top), Demand(Top), InputBudget(Top))
  <1>1. /\ AwaitsInput /\ Searching /\ ~Settled(Input(Top), Demand(Top))
        /\ stack' = Append(stack, f) /\ UNCHANGED <<memo, request, winners>>
    BY DEF OpenGoal, AwaitsInput
  <1>2. /\ n \in Nat \ {0} /\ stack \in Seq(Goals) /\ Top = stack[n]
        /\ Top \in Goals /\ memo \in Memos
        /\ stats \in Counters
    BY <1>1, TopFacts
  <1>3. /\ Input(Top) \in 1..(Top.group - 1) /\ Input(Top) \in 1..Len(memo)
        /\ Demand(Top) \in Properties
    BY <1>1, InputFacts
  <1>4. /\ f \in Goals /\ f.group = Input(Top) /\ f.required = Demand(Top)
        /\ GoalOK(memo, prune, winners, f)
    BY <1>1, <1>2, <1>3, InputBudgetType, NewGoalOK
  <1> HIDE DEF f
  <1>5. /\ stack' \in Seq(Goals) /\ Len(stack') = n + 1 /\ stack'[n + 1] = f
        /\ \A j \in 1..n : stack'[j] = stack[j]
    BY <1>1, <1>2, <1>4
  <1>6. prune' = prune /\ stats' \in Counters
    BY <1>1, <1>2 DEF prune, OpenGoal, Counters
  <1>7. TypeOK'
    BY <1>1, <1>5, <1>6 DEF IInv, TypeOK, Counters
  <1>8. GoalsOK'
    <2> SUFFICES ASSUME NEW j \in 1..(n + 1)
                 PROVE  /\ GoalOK(memo, prune, winners, stack'[j])
                        /\ ~Answered(winners[stack'[j].group], stack'[j].required)
      BY <1>1, <1>5, <1>6 DEF GoalsOK
    <2>1. CASE j = n + 1
      BY <1>1, <1>4, <1>5, <2>1 DEF Settled
    <2>2. CASE j \in 1..n
      BY <1>5, <2>2 DEF IInv, GoalsOK
    <2> QED
      BY <1>2, <2>1, <2>2
  <1>9. GoalsDescend'
    <2> SUFFICES ASSUME NEW j \in 1..(n + 1), NEW k \in 1..(n + 1), j < k
                 PROVE  Waits(memo, stack'[j]) /\ stack'[k].group < stack'[j].group
      BY <1>1, <1>5 DEF GoalsDescend
    <2>1. j \in 1..n /\ stack'[j] = stack[j]
      BY <1>2, <1>5
    <2>2. CASE k \in 1..n
      BY <1>5, <2>1, <2>2 DEF IInv, GoalsDescend
    <2>3. CASE k = n + 1
      <3>1. Waits(memo, Top) /\ f.group < Top.group
        <4>1. Top.stage # "choose" /\ MoreInputs(Top)
          BY <1>1 DEF AwaitsInput, InRoute
        <4>2. Top.group \in Nat
          BY <1>2 DEF Goals
        <4> QED
          BY <1>3, <1>4, <4>1, <4>2 DEF Waits, MoreInputs, ExprOf
      <3>2. j = n \/ (Waits(memo, stack[j]) /\ Top.group < stack[j].group)
        BY <1>2, <2>1 DEF IInv, GoalsDescend
      <3>3. stack[j].group \in Nat /\ Top.group \in Nat /\ f.group \in Nat
        <4>1. stack[j] \in Goals
          BY <2>1, GoalFacts
        <4> QED
          BY <1>2, <1>4, <4>1 DEF Goals
      <3> QED
        BY <1>2, <1>5, <2>1, <2>3, <3>1, <3>2, <3>3
    <2> QED
      BY <1>2, <2>2, <2>3
  <1>10. WinnersOK'
    BY <1>1 DEF IInv, WinnersOK
  <1> QED
    BY <1>7, <1>8, <1>9, <1>10 DEF IInv

(* The plan a finished route has found is well-formed, and its inputs are  *)
(* all answered.                                                           *)
LEMMA RouteResultOK ==
  ASSUME NEW f \in Goals, TypeOK, GoalOK(memo, prune, winners, f), InRoute(f),
         ~MoreInputs(f), RouteCost(f) # Infinity
  PROVE  /\ RouteResult(f) \in Bests
         /\ PlanOK(memo, winners, f.group, RouteResult(f))
  <1>1. memo \in Memos /\ f.required \in Properties /\ f.ins \in Seq(Properties)
        /\ f.spent \in Nat /\ f.cand \in Nat
    BY DEF TypeOK, Goals
  <1>2. /\ f.cand <= Len(memo[f.group].exprs)
        /\ f.next \in 1..(Len(ExprOf(f).inputs) + 1) /\ Len(f.ins) = f.next - 1
        /\ Demands(f) \in Seq(Properties)
        /\ Len(Demands(f)) = Arity(ExprOf(f).op)
        /\ \A k \in 1..(f.next - 1) : Settled(ExprOf(f).inputs[k], Demands(f)[k])
    BY <1>1, RouteFacts
  <1>3. /\ f.cand \in 1..Len(memo[f.group].exprs)
        /\ GroupOf(f) \in Groups /\ GroupOf(f).rows \in Nat /\ ExprOf(f) \in GroupExprs
        /\ Len(ExprOf(f).inputs) = Arity(ExprOf(f).op)
        /\ Len(ExprOf(f).inputs) \in Nat
        /\ OwnCost(ExprOf(f), GroupOf(f)) \in Nat
    BY <1>1, <1>2, CandidateFacts
  <1>4. f.next - 1 = Len(ExprOf(f).inputs)
    BY <1>2, <1>3 DEF MoreInputs
  <1>5. RouteProvides(f) \in Properties
    BY <1>1, <1>2, <1>3, <1>4, DeriveOpType DEF RouteProvides
  <1>6. RouteTop(f) \in Costs
    BY <1>1, <1>3, <1>5, EnforcementCostType DEF RouteTop
  <1>7. RouteCost(f) \in Nat
    BY <1>1, <1>3, <1>6 DEF RouteCost, Plus, Costs
  <1>8. Upgraded(RouteProvides(f), f.required) \in Properties
    BY <1>1, <1>5 DEF Upgraded, Properties
  <1>9. /\ RouteResult(f).expr = f.cand /\ RouteResult(f).cost = RouteCost(f)
        /\ RouteResult(f).inputRequired = Demands(f)
    BY DEF RouteResult
  <1>10. RouteResult(f) \in Bests
    BY <1>1, <1>2, <1>5, <1>7, <1>8 DEF RouteResult, Bests, Costs
  <1>11. PlanOK(memo, winners, f.group, RouteResult(f))
    <2>1. memo[f.group].exprs[f.cand] = ExprOf(f)
      BY DEF ExprOf
    <2> QED
      BY <1>2, <1>3, <1>4, <1>7, <1>9, <2>1 DEF PlanOK, Settled
  <1> QED
    BY <1>10, <1>11

LEMMA FinishPreserves == IInv /\ FinishRoute => IInv'
  <1> SUFFICES ASSUME IInv, FinishRoute PROVE IInv'
    OBVIOUS
  <1> DEFINE better == [Top EXCEPT !.best = RouteResult(Top)]
             f == IF Less(RouteCost(Top), Top.best.cost) THEN better ELSE Top
  <1>1. /\ Searching /\ InRoute(Top) /\ ~MoreInputs(Top)
        /\ stack' = SetTop(AfterRoute(f)) /\ stats' = CountRoute(Top, stats)
        /\ UNCHANGED <<memo, request, winners>>
    BY DEF FinishRoute
  <1>2. /\ Top \in Goals /\ memo \in Memos /\ GoalOK(memo, prune, winners, Top)
        /\ stats' \in Counters
    BY <1>1, TopFacts, CountRouteType
  <1>3. /\ f \in Goals /\ f.group = Top.group /\ f.required = Top.required
        /\ GoalOK(memo, prune, winners, f) /\ InRoute(f)
    <2>1. CASE Less(RouteCost(Top), Top.best.cost)
      <3>1. RouteCost(Top) # Infinity
        BY <2>1 DEF Less
      <3>2. /\ RouteResult(Top) \in Bests
            /\ PlanOK(memo, winners, Top.group, RouteResult(Top))
        BY <1>1, <1>2, <3>1, RouteResultOK DEF IInv
      <3>3. /\ better \in Goals /\ better.group = Top.group
            /\ better.required = Top.required /\ better.cand = Top.cand
            /\ better.stage = Top.stage /\ better.next = Top.next
            /\ better.spent = Top.spent /\ better.ins = Top.ins
            /\ better.bound = Top.bound /\ better.best = RouteResult(Top)
        BY <1>2, <3>2 DEF Goals
      <3> HIDE DEF better
      <3>4. GoalOK(memo, prune, winners, better)
        BY <1>2, <3>2, <3>3 DEF GoalOK, RouteOK
      <3>5. InRoute(better)
        BY <1>1, <3>3 DEF InRoute
      <3> QED
        BY <2>1, <3>3, <3>4, <3>5
    <2>2. CASE ~Less(RouteCost(Top), Top.best.cost)
      BY <1>1, <1>2, <2>2
    <2> QED
      BY <2>1, <2>2
  <1> HIDE DEF f
  <1>4. /\ AfterRoute(f) \in Goals
        /\ AfterRoute(f).group = f.group
        /\ AfterRoute(f).required = f.required
        /\ GoalOK(memo, prune, winners, AfterRoute(f))
    BY <1>2, <1>3, AfterRouteOK
  <1> QED
    BY <1>1, <1>2, <1>3, <1>4, TopStep

LEMMA FailPreserves == IInv /\ FailGoal => IInv'
  <1> SUFFICES ASSUME IInv, FailGoal PROVE IInv'
    OBVIOUS
  <1> DEFINE n == Len(stack)
             asker == stack[n - 1]
  <1>1. Searching /\ UNCHANGED <<memo, request, winners>>
    BY DEF FailGoal, Exhausted, Choosing
  <1>2. n \in Nat \ {0} /\ stack \in Seq(Goals) /\ stats \in Counters
    BY <1>1, TopFacts
  <1>3. CASE n = 1
    <2>1. stack' = <<>> /\ stats' = stats
      BY <1>3 DEF FailGoal
    <2>2. stack' \in Seq(Goals) /\ Len(stack') = 0
      BY <2>1
    <2>3. TypeOK'
      <3>1. stats' \in Counters
        BY <1>2, <2>1
      <3> QED
        BY <1>1, <2>2, <3>1 DEF IInv, TypeOK, Counters
    <2>5. WinnersOK'
      BY <1>1 DEF IInv, WinnersOK
    <2>4. GoalsOK' /\ GoalsDescend'
      BY <2>2 DEF GoalsOK, GoalsDescend
    <2> QED
      BY <2>3, <2>4, <2>5 DEF IInv
  <1>4. CASE n # 1
    <2>1. /\ stack' = [Popped EXCEPT ![n - 1] = AfterRoute(asker)]
          /\ stats' = CountRoute(asker, stats)
      BY <1>4 DEF FailGoal
    <2>2. n - 1 \in 1..n /\ n - 1 \in 1..(n - 1) /\ n - 1 < n
          /\ n \in 1..n
      <3>1. \A i \in Nat \ {0, 1} : /\ i - 1 \in 1..i /\ i - 1 \in 1..(i - 1)
                                   /\ i - 1 < i /\ i \in 1..i
        OBVIOUS
      <3> HIDE DEF n
      <3> QED
        BY <1>2, <1>4, <3>1
    <2>3. /\ asker \in Goals /\ memo \in Memos
          /\ GoalOK(memo, prune, winners, asker)
      BY <2>2, GoalFacts
    <2>4. InRoute(asker)
      <3>1. Waits(memo, asker)
        BY <2>2 DEF IInv, GoalsDescend
      <3> QED
        BY <2>3, <3>1 DEF Waits, InRoute, Goals
    <2>5. /\ AfterRoute(asker) \in Goals
          /\ AfterRoute(asker).group = asker.group
          /\ AfterRoute(asker).required = asker.required
          /\ GoalOK(memo, prune, winners, AfterRoute(asker))
      BY <2>3, <2>4, AfterRouteOK
    <2>6. /\ Popped \in Seq(Goals) /\ Len(Popped) = n - 1
          /\ \A j \in 1..(n - 1) : Popped[j] = stack[j]
      BY <1>2, <2>2 DEF Popped
    <2>7. /\ stack' \in Seq(Goals) /\ Len(stack') = n - 1
          /\ \A j \in 1..(n - 1 - 1) : stack'[j] = stack[j]
          /\ stack'[n - 1] = AfterRoute(asker)
      <3> HIDE DEF asker
      <3> QED
        BY <1>2, <2>1, <2>2, <2>5, <2>6
    <2>8. stats' \in Counters
      BY <1>2, <2>1, CountRouteType
    <2> QED
      BY <1>1, <2>2, <2>5, <2>7, <2>8, StackStep
  <1> QED
    BY <1>3, <1>4

(* The entry a settled goal adds to the table. *)
SettledEntry ==
  [required |-> Top.required, expr |-> Top.best.expr, cost |-> Top.best.cost,
   provided |-> Top.best.provided, inputRequired |-> Top.best.inputRequired]

(* Settling a goal appends one well-formed entry to its group's winners:   *)
(* there was none to replace.                                              *)
LEMMA SettleAppends ==
  ASSUME IInv, SettleGoal
  PROVE  /\ SettledEntry \in Entries
         /\ PlanOK(memo, winners, Top.group, SettledEntry)
         /\ SettledEntry.required = Top.required
         /\ Top.group \in 1..Len(memo)
         /\ winners[Top.group] \in Seq(Entries)
         /\ winners' = [winners EXCEPT
                          ![Top.group] = Append(winners[Top.group], SettledEntry)]
  <1>1. Searching /\ Top.best.expr # 0
    BY DEF SettleGoal, Exhausted, Choosing
  <1>2. /\ Top \in Goals /\ memo \in Memos /\ GoalOK(memo, prune, winners, Top)
        /\ Len(stack) \in 1..Len(stack) /\ Top = stack[Len(stack)]
    BY <1>1, TopFacts
  <1>3. PlanOK(memo, winners, Top.group, Top.best) /\ Top.group \in 1..Len(memo)
    BY <1>1, <1>2 DEF GoalOK
  <1>4. SettledEntry \in Entries
    <2>1. Top.best \in Bests /\ Top.required \in Properties
      BY <1>2 DEF Goals
    <2> QED
      BY <1>3, <2>1 DEF SettledEntry, Entries, Bests, PlanOK
  <1>5. PlanOK(memo, winners, Top.group, SettledEntry)
    BY <1>3 DEF PlanOK, SettledEntry
  <1>6. ~Answered(winners[Top.group], Top.required)
    BY <1>2 DEF IInv, GoalsOK
  <1>7. SettledEntry.required = Top.required
    BY DEF SettledEntry
  <1>8. winners' = [winners EXCEPT
                      ![Top.group] = Recorded(winners[Top.group], SettledEntry)]
    BY DEF SettleGoal, SettledEntry
  <1>9. Recorded(winners[Top.group], SettledEntry)
          = Append(winners[Top.group], SettledEntry)
    BY <1>6, <1>7 DEF Recorded
  <1> QED
    BY <1>3, <1>4, <1>5, <1>7, <1>8, <1>9 DEF IInv, TypeOK

(* What was answered before stays answered, with the same entry. *)
LEMMA SettleKeepsAnswers ==
  ASSUME IInv, SettleGoal
  PROVE  /\ winners' \in [1..Len(memo) -> Seq(Entries)]
         /\ \A h \in 1..Len(memo) :
              /\ h # Top.group => winners'[h] = winners[h]
              /\ Len(winners[h]) <= Len(winners'[h])
              /\ \A i \in 1..Len(winners[h]) : winners'[h][i] = winners[h][i]
              /\ \A r : Answered(winners[h], r) => Answered(winners'[h], r)
  <1>1. /\ winners \in [1..Len(memo) -> Seq(Entries)]
        /\ SettledEntry \in Entries /\ Top.group \in 1..Len(memo)
        /\ winners' = [winners EXCEPT
                         ![Top.group] = Append(winners[Top.group], SettledEntry)]
    BY SettleAppends DEF IInv, TypeOK
  <1>2. winners' \in [1..Len(memo) -> Seq(Entries)]
    BY <1>1
  <1>3. ASSUME NEW h \in 1..Len(memo)
        PROVE  /\ h # Top.group => winners'[h] = winners[h]
               /\ Len(winners[h]) <= Len(winners'[h])
               /\ \A i \in 1..Len(winners[h]) : winners'[h][i] = winners[h][i]
               /\ DOMAIN winners[h] = 1..Len(winners[h])
               /\ DOMAIN winners'[h] = 1..Len(winners'[h])
               /\ Len(winners[h]) \in Nat /\ Len(winners'[h]) \in Nat
    <2>1. CASE h = Top.group
      <3>1. winners'[h] = Append(winners[h], SettledEntry) /\ winners[h] \in Seq(Entries)
        BY <1>1, <2>1
      <3> QED
        BY <1>1, <2>1, <3>1
    <2>2. CASE h # Top.group
      <3>1. winners'[h] = winners[h] /\ winners[h] \in Seq(Entries)
        BY <1>1, <2>2
      <3> QED
        BY <2>2, <3>1
    <2> QED
      BY <2>1, <2>2
  <1>4. ASSUME NEW h \in 1..Len(memo), NEW r, Answered(winners[h], r)
        PROVE  Answered(winners'[h], r)
    <2>1. PICK i \in 1..Len(winners[h]) : SameRequirement(winners[h][i].required, r)
      BY <1>3, <1>4 DEF Answered
    <2>2. i \in 1..Len(winners'[h]) /\ winners'[h][i] = winners[h][i]
      BY <1>3
    <2>3. SameRequirement(winners'[h][i].required, r)
      BY <2>1, <2>2
    <2> QED
      BY <1>3, <2>2, <2>3 DEF Answered
  <1> QED
    BY <1>2, <1>3, <1>4

(* So plans and routes that rested on the table still do. *)
LEMMA SettleKeepsPlans ==
  ASSUME IInv, SettleGoal, NEW h \in 1..Len(memo), NEW p,
         PlanOK(memo, winners, h, p)
  PROVE  PlanOK(memo, winners', h, p)
  <1> DEFINE e == memo[h].exprs[p.expr]
  <1>1. \A k \in 1..Len(p.inputRequired) : e.inputs[k] \in 1..Len(memo)
    <2>1. /\ memo \in Memos /\ p.expr \in 1..Len(memo[h].exprs)
          /\ Len(p.inputRequired) = Arity(e.op)
      BY DEF PlanOK, IInv, TypeOK
    <2>2. /\ Len(e.inputs) = Arity(e.op) /\ Len(memo) \in Nat
          /\ \A k \in 1..Len(e.inputs) : e.inputs[k] \in 1..(h - 1)
      BY <2>1, MemoType
    <2> HIDE DEF e
    <2> QED
      BY <2>1, <2>2
  <1> QED
    BY <1>1, SettleKeepsAnswers DEF PlanOK

LEMMA SettleKeepsGoals ==
  ASSUME IInv, SettleGoal, NEW f \in Goals, GoalOK(memo, prune, winners, f)
  PROVE  GoalOK(memo, prune, winners', f)
  <1>1. f.group \in 1..Len(memo) /\ memo \in Memos
    BY DEF GoalOK, IInv, TypeOK
  <1>2. f.best.expr # 0 => PlanOK(memo, winners', f.group, f.best)
    BY <1>1, SettleKeepsPlans DEF GoalOK
  <1>3. ASSUME f.stage # "choose"
        PROVE  RouteOK(memo, prune, winners', f)
    <2>1. RouteOK(memo, prune, winners, f)
      BY <1>3 DEF GoalOK
    <2>2. InRoute(f)
      BY <1>3 DEF InRoute, Goals
    <2>3. \A k \in 1..(f.next - 1) : ExprOf(f).inputs[k] \in 1..Len(memo)
      <3>1. /\ f.next \in 1..(Len(ExprOf(f).inputs) + 1)
            /\ f.cand <= Len(memo[f.group].exprs)
        BY <1>1, <2>2, RouteFacts
      <3>2. /\ Len(ExprOf(f).inputs) \in Nat /\ Len(memo) \in Nat
            /\ \A k \in 1..Len(ExprOf(f).inputs) : ExprOf(f).inputs[k] \in 1..(f.group - 1)
        BY <1>1, <3>1, CandidateFacts, MemoType
      <3> QED
        BY <1>1, <3>1, <3>2
    <2> QED
      <3> DEFINE e == memo[f.group].exprs[f.cand]
                 demands == DemandsOf(e, memo[f.group], f.required, f.stage)
      <3>1. \A k \in 1..(f.next - 1) : Answered(winners[e.inputs[k]], demands[k])
        BY <2>1 DEF RouteOK
      <3>2. \A k \in 1..(f.next - 1) : e.inputs[k] \in 1..Len(memo)
        BY <2>3 DEF ExprOf
      <3> HIDE DEF e, demands
      <3>3. \A k \in 1..(f.next - 1) : Answered(winners'[e.inputs[k]], demands[k])
        BY <3>1, <3>2, SettleKeepsAnswers
      <3> QED
        BY <2>1, <3>3 DEF RouteOK, e, demands
  <1> QED
    BY <1>2, <1>3 DEF GoalOK

LEMMA SettlePreserves == IInv /\ SettleGoal => IInv'
  <1> SUFFICES ASSUME IInv, SettleGoal PROVE IInv'
    OBVIOUS
  <1> DEFINE n == Len(stack)
  <1>1. Searching /\ stack' = Popped /\ UNCHANGED <<memo, request, stats>>
    BY DEF SettleGoal, Exhausted, Choosing
  <1>2. /\ n \in Nat \ {0} /\ n \in 1..n /\ stack \in Seq(Goals)
        /\ Top = stack[n] /\ memo \in Memos
    BY <1>1, TopFacts
  <1>3. /\ stack' \in Seq(Goals) /\ Len(stack') = n - 1
        /\ \A j \in 1..(n - 1) : stack'[j] = stack[j] /\ j \in 1..n /\ j < n
    <2>1. n - 1 \in 0..n /\ \A j \in 1..(n - 1) : j \in 1..n /\ j < n
      BY <1>2
    <2>2. \A j \in 1..(n - 1) : stack[j] \in Goals
      BY <1>2, <2>1
    <2>3. /\ stack' \in Seq(Goals) /\ Len(stack') = n - 1
          /\ \A j \in 1..(n - 1) : stack'[j] = stack[j]
      <3>1. stack' = SubSeq(stack, 1, n - 1) /\ n - 1 \in Int
        BY <1>1, <1>2 DEF Popped
      <3> HIDE DEF n
      <3>2. /\ SubSeq(stack, 1, n - 1) \in Seq(Goals)
            /\ Len(SubSeq(stack, 1, n - 1)) = IF 1 <= n - 1 THEN (n - 1) - 1 + 1 ELSE 0
            /\ \A i \in 1..((n - 1) - 1 + 1) : SubSeq(stack, 1, n - 1)[i] = stack[1 + i - 1]
        BY <2>2, <3>1, SubSeqProperties
      <3> QED
        BY <1>2, <3>1, <3>2
    <2> QED
      BY <2>1, <2>3
  <1>4. prune' = prune /\ winners' \in [1..Len(memo) -> Seq(Entries)]
    BY <1>1, SettleKeepsAnswers DEF prune
  <1>5. TypeOK'
    BY <1>1, <1>3, <1>4 DEF IInv, TypeOK
  <1>6. GoalsOK'
    <2> SUFFICES ASSUME NEW j \in 1..(n - 1)
                 PROVE  /\ GoalOK(memo, prune, winners', stack[j])
                        /\ ~Answered(winners'[stack[j].group], stack[j].required)
      BY <1>1, <1>3, <1>4 DEF GoalsOK
    <2>1. /\ stack[j] \in Goals /\ GoalOK(memo, prune, winners, stack[j])
          /\ stack[j].group \in 1..Len(memo)
          /\ ~Answered(winners[stack[j].group], stack[j].required)
      BY <1>3, GoalFacts DEF IInv, GoalsOK
    <2>2. Top.group < stack[j].group
      BY <1>2, <1>3 DEF IInv, GoalsDescend
    <2>3. Top.group \in Nat /\ stack[j].group \in Nat
      BY <2>1, SettleAppends
    <2>4. winners'[stack[j].group] = winners[stack[j].group]
      BY <2>1, <2>2, <2>3, SettleKeepsAnswers
    <2> QED
      BY <2>1, <2>4, SettleKeepsGoals
  <1>7. GoalsDescend'
    <2> SUFFICES ASSUME NEW j \in 1..(n - 1), NEW k \in 1..(n - 1), j < k
                 PROVE  Waits(memo, stack[j]) /\ stack[k].group < stack[j].group
      BY <1>1, <1>3 DEF GoalsDescend
    <2> QED
      BY <1>3 DEF IInv, GoalsDescend
  <1>8. WinnersOK'
    <2> SUFFICES ASSUME NEW g \in 1..Len(memo), NEW i \in 1..Len(winners'[g])
                 PROVE  PlanOK(memo, winners', g, winners'[g][i])
      BY <1>1 DEF WinnersOK
    <2>1. CASE i \in 1..Len(winners[g])
      <3>1. winners'[g][i] = winners[g][i]
        BY <2>1, SettleKeepsAnswers
      <3>2. PlanOK(memo, winners, g, winners[g][i])
        BY <2>1 DEF IInv, WinnersOK
      <3> QED
        BY <3>1, <3>2, SettleKeepsPlans
    <2>2. CASE i \notin 1..Len(winners[g])
      <3>1. g = Top.group
        BY <2>2, SettleKeepsAnswers
      <3>2. winners'[g] = Append(winners[g], SettledEntry) /\ winners[g] \in Seq(Entries)
        BY <3>1, SettleAppends DEF IInv, TypeOK
      <3>3. winners'[g][i] = SettledEntry
        BY <2>2, <3>2
      <3>4. PlanOK(memo, winners, g, SettledEntry)
        BY <3>1, SettleAppends
      <3> QED
        BY <3>3, <3>4, SettleKeepsPlans
    <2> QED
      BY <2>1, <2>2
  <1> QED
    BY <1>5, <1>6, <1>7, <1>8 DEF IInv
-----------------------------------------------------------------------------
(* The theorems.                                                           *)

LEMMA SearchStep == IInv /\ [Next]_vars => IInv'
  <1> SUFFICES ASSUME IInv, [Next]_vars PROVE IInv'
    OBVIOUS
  <1>1. CASE PruneCandidate
    BY <1>1, PrunePreserves
  <1>2. CASE StartCandidate
    BY <1>2, StartPreserves
  <1>3. CASE OpenGoal
    BY <1>3, OpenPreserves
  <1>4. CASE AcceptInput
    BY <1>4, AcceptPreserves
  <1>5. CASE RejectInput
    BY <1>5, RejectPreserves
  <1>6. CASE FinishRoute
    BY <1>6, FinishPreserves
  <1>7. CASE SettleGoal
    BY <1>7, SettlePreserves
  <1>8. CASE FailGoal
    BY <1>8, FailPreserves
  <1>9. CASE UNCHANGED vars
    BY <1>9 DEF vars, IInv, TypeOK, GoalsOK, GoalsDescend, WinnersOK, prune
  <1> QED
    BY <1>1, <1>2, <1>3, <1>4, <1>5, <1>6, <1>7, <1>8, <1>9 DEF Next

(* The strengthened invariant holds in every reachable state. *)
THEOREM Invariance == Spec => []IInv
  BY InitIInv, SearchStep, PTL DEF Spec

(* Every variable keeps its type.  In particular no budget the recursion   *)
(* passes down is ever negative, however often a fixpoint divides it: a    *)
(* route that has spent its allowance is over before it can ask again.     *)
THEOREM TypeCorrect == Spec => []TypeOK
  <1>1. IInv => TypeOK
    BY DEF IInv
  <1> QED
    BY <1>1, Invariance, PTL

(* No goal is settled while an activation is still solving it, whatever    *)
(* groups the memo shares: set_winner() never overwrites an answer that    *)
(* another activation holds.                                               *)
THEOREM NoGoalSettledTwice == Spec => []OpenGoalsUnsettled
  <1>1. IInv => OpenGoalsUnsettled
    <2> SUFFICES ASSUME IInv, NEW j \in DOMAIN stack
                 PROVE  ~Settled(stack[j].group, stack[j].required)
      BY DEF OpenGoalsUnsettled
    <2>1. j \in 1..Len(stack)
      BY DEF IInv, TypeOK
    <2> QED
      BY <2>1 DEF IInv, GoalsOK, Settled
  <1> QED
    BY <1>1, Invariance, PTL

(* Extraction never meets a group without a winner: each child goal a      *)
(* winner recorded is itself settled, before and whenever it is read.      *)
THEOREM WinnersExtractable == Spec => []ChildGoalsSettled
  <1>1. IInv => ChildGoalsSettled
    <2> SUFFICES ASSUME IInv,
                        NEW g \in DOMAIN winners, NEW i \in DOMAIN winners[g],
                        NEW k \in DOMAIN memo[g].exprs[winners[g][i].expr].inputs
                 PROVE  Settled(memo[g].exprs[winners[g][i].expr].inputs[k],
                                winners[g][i].inputRequired[k])
      BY DEF ChildGoalsSettled
    <2>1. g \in 1..Len(memo) /\ i \in 1..Len(winners[g]) /\ memo \in Memos
      <3>1. winners \in [1..Len(memo) -> Seq(Entries)] /\ memo \in Memos
        BY DEF IInv, TypeOK
      <3> QED
        BY <3>1
    <2>2. PlanOK(memo, winners, g, winners[g][i])
      BY <2>1 DEF IInv, WinnersOK
    <2>3. k \in 1..Len(winners[g][i].inputRequired)
      BY <2>1, <2>2, MemoType DEF PlanOK
    <2> QED
      BY <2>2, <2>3 DEF PlanOK, Settled
  <1> QED
    BY <1>1, Invariance, PTL

(* The winner table only grows, and only at its end: an index into a       *)
(* group's winners survives any recursive call.                            *)
THEOREM TableOnlyGrows == Spec => WinnersOnlyAppended
  <1> DEFINE Grows == \A g \in DOMAIN winners :
                        /\ Len(winners[g]) <= Len(winners'[g])
                        /\ \A i \in DOMAIN winners[g] : winners'[g][i] = winners[g][i]
  <1>1. IInv /\ [Next]_vars => [Grows]_vars
    <2> SUFFICES ASSUME IInv, [Next]_vars PROVE [Grows]_vars
      OBVIOUS
    <2>1. /\ winners \in [1..Len(memo) -> Seq(Entries)]
          /\ \A g \in 1..Len(memo) : /\ Len(winners[g]) \in Nat
                                     /\ DOMAIN winners[g] = 1..Len(winners[g])
      BY DEF IInv, TypeOK
    <2>2. CASE SettleGoal
      BY <2>1, <2>2, SettleKeepsAnswers
    <2>3. CASE UNCHANGED winners
      BY <2>1, <2>3
    <2>4. SettleGoal \/ UNCHANGED winners
      BY DEF Next, PruneCandidate, StartCandidate, OpenGoal, AcceptInput, RejectInput,
             FinishRoute, FailGoal, vars
    <2> QED
      BY <2>2, <2>3, <2>4
  <1> QED
    BY <1>1, Invariance, PTL DEF Spec, WinnersOnlyAppended
-----------------------------------------------------------------------------
(* What the winner table says: that a recorded cost can be re-derived, and *)
(* that a winner serves the goal it is filed under.                        *)
(*                                                                         *)
(* IInv knows that what a plan rests on is answered, but not by what.      *)
(* CostsInv adds it: no question has two answers, so that the entry found  *)
(* for one is always the same; the inputs and the spending of a route in   *)
(* progress are those of the entries it found; and a plan, settled or so   *)
(* far the best of an open goal, is the result of one of the two routes    *)
(* over the answers the table has now.                                     *)

(* The answer to a question in a table, as WinnerFor() finds it.           *)
WinnerIn(ws, g, required) ==
  ws[g][CHOOSE i \in DOMAIN ws[g] : SameRequirement(ws[g][i].required, required)]

(* What the inputs of e are recorded to provide, and what running the      *)
(* first n of them costs.                                                  *)
InsIn(ws, e, reqs) == [k \in DOMAIN e.inputs |-> WinnerIn(ws, e.inputs[k], reqs[k]).provided]

SpentIn(ws, e, reqs, n) ==
  LET cost(k) == WinnerIn(ws, e.inputs[k], reqs[k]).cost * InputEvaluations(e.op, k)
  IN  CASE n = 0 -> 0
        [] n = 1 -> cost(1)
        [] OTHER -> cost(1) + cost(2)

GivenIn(m, ws, g, p) ==
  DeriveOp(m[g].exprs[p.expr], m[g], InsIn(ws, m[g].exprs[p.expr], p.inputRequired))

TopIn(m, ws, g, required, p) == EnforcementCost(GivenIn(m, ws, g, p), required, m[g].rows)

(* Plan p for a goal is what one of the goal's routes finds in table ws.   *)
Found(m, ws, g, required, p, stage) ==
  LET e == m[g].exprs[p.expr]
  IN  /\ stage = "pushdown" => CanPushDown(e.op)
      /\ p.inputRequired = DemandsOf(e, m[g], required, stage)
      /\ TopIn(m, ws, g, required, p) # Infinity
      /\ p.cost = SpentIn(ws, e, p.inputRequired, Len(e.inputs)) + OwnIn(m, e, m[g])
                    + TopIn(m, ws, g, required, p)
      /\ p.provided = IF stage = "enforce" /\ TopIn(m, ws, g, required, p) # 0
                      THEN Upgraded(GivenIn(m, ws, g, p), required)
                      ELSE GivenIn(m, ws, g, p)

Priced(m, ws, g, required, p) ==
  \E stage \in {"enforce", "pushdown"} : Found(m, ws, g, required, p, stage)

(* A route in progress has consumed the answers to what it demanded.       *)
Charged(m, ws, f) ==
  LET e       == m[f.group].exprs[f.cand]
      demands == DemandsOf(e, m[f.group], f.required, f.stage)
  IN  /\ \A k \in 1..(f.next - 1) : f.ins[k] = WinnerIn(ws, e.inputs[k], demands[k]).provided
      /\ f.spent = SpentIn(ws, e, demands, f.next - 1)

GoalPriced(m, ws, f) ==
  /\ f.best.expr # 0 => Priced(m, ws, f.group, f.required, f.best)
  /\ f.stage # "choose" => Charged(m, ws, f)

OneAnswerEach ==
  \A g \in 1..Len(memo) : \A i, j \in 1..Len(winners[g]) :
    SameRequirement(winners[g][i].required, winners[g][j].required) => i = j

WinnersPriced ==
  \A g \in 1..Len(memo) : \A i \in 1..Len(winners[g]) :
    Priced(memo, winners, g, winners[g][i].required, winners[g][i])

GoalsPriced == \A j \in 1..Len(stack) : GoalPriced(memo, winners, stack[j])

CostsInv == OneAnswerEach /\ WinnersPriced /\ GoalsPriced
-----------------------------------------------------------------------------
(* Answers, and plans and routes that rest on them, under a growing table. *)

LEMMA SameRequirementIsEquivalence ==
  ASSUME NEW a, NEW b, NEW c
  PROVE  /\ SameRequirement(a, a)
         /\ SameRequirement(a, b) => SameRequirement(b, a)
         /\ SameRequirement(a, b) /\ SameRequirement(b, c) => SameRequirement(a, c)
  BY DEF SameRequirement

(* Where no question has two answers, the one that is there is found.      *)
LEMMA AnswerFound ==
  ASSUME NEW ws, NEW g, NEW r, NEW i \in DOMAIN ws[g],
         SameRequirement(ws[g][i].required, r),
         \A j, k \in DOMAIN ws[g] :
           SameRequirement(ws[g][j].required, ws[g][k].required) => j = k
  PROVE  WinnerIn(ws, g, r) = ws[g][i]
  <1> DEFINE j == CHOOSE k \in DOMAIN ws[g] : SameRequirement(ws[g][k].required, r)
  <1>1. j \in DOMAIN ws[g] /\ SameRequirement(ws[g][j].required, r)
    OBVIOUS
  <1>2. SameRequirement(ws[g][j].required, ws[g][i].required)
    BY <1>1, SameRequirementIsEquivalence
  <1>3. j = i
    BY <1>1, <1>2
  <1> QED
    BY <1>3 DEF WinnerIn

(* What inputs cost and provide depends on the answers to their questions. *)
LEMMA SpentSame ==
  ASSUME NEW vs, NEW ws, NEW e, NEW reqs, NEW n \in Nat,
         \A k \in 1..n : WinnerIn(vs, e.inputs[k], reqs[k]) = WinnerIn(ws, e.inputs[k], reqs[k])
  PROVE  SpentIn(vs, e, reqs, n) = SpentIn(ws, e, reqs, n)
  <1>1. CASE n = 0
    BY <1>1 DEF SpentIn
  <1>2. CASE n = 1
    <2>1. 1 \in 1..n
      BY <1>2
    <2> QED
      BY <1>2, <2>1 DEF SpentIn
  <1>3. CASE n \notin {0, 1}
    <2>1. 1 \in 1..n /\ 2 \in 1..n
      BY <1>3
    <2> QED
      BY <1>3, <2>1 DEF SpentIn
  <1> QED
    BY <1>1, <1>2, <1>3

(* One input more costs its answer's cost as often as it is run.           *)
LEMMA SpentMore ==
  ASSUME NEW ws, NEW e, NEW reqs, NEW n \in {0, 1},
         WinnerIn(ws, e.inputs[n + 1], reqs[n + 1]).cost
           * InputEvaluations(e.op, n + 1) \in Nat
  PROVE  SpentIn(ws, e, reqs, n + 1)
           = SpentIn(ws, e, reqs, n)
               + WinnerIn(ws, e.inputs[n + 1], reqs[n + 1]).cost
                   * InputEvaluations(e.op, n + 1)
  <1>1. CASE n = 0
    BY <1>1 DEF SpentIn
  <1>2. CASE n = 1
    BY <1>2 DEF SpentIn
  <1> QED
    BY <1>1, <1>2

LEMMA PricedSame ==
  ASSUME NEW m \in Memos, NEW vs, NEW ws, NEW g \in 1..Len(m), NEW required, NEW p,
         p.expr \in 1..Len(m[g].exprs),
         \A k \in 1..Len(m[g].exprs[p.expr].inputs) :
           WinnerIn(vs, m[g].exprs[p.expr].inputs[k], p.inputRequired[k])
             = WinnerIn(ws, m[g].exprs[p.expr].inputs[k], p.inputRequired[k]),
         Priced(m, ws, g, required, p)
  PROVE  Priced(m, vs, g, required, p)
  <1> DEFINE e == m[g].exprs[p.expr]
  <1>1. Len(e.inputs) \in Nat /\ DOMAIN e.inputs = 1..Len(e.inputs)
    BY MemoType
  <1>2. InsIn(vs, e, p.inputRequired) = InsIn(ws, e, p.inputRequired)
    BY <1>1 DEF InsIn
  <1>3. SpentIn(vs, e, p.inputRequired, Len(e.inputs))
          = SpentIn(ws, e, p.inputRequired, Len(e.inputs))
    <2>1. \A k \in 1..Len(e.inputs) :
            WinnerIn(vs, e.inputs[k], p.inputRequired[k])
              = WinnerIn(ws, e.inputs[k], p.inputRequired[k])
      OBVIOUS
    <2> DEFINE n    == Len(e.inputs)
               reqs == p.inputRequired
    <2>2. n \in Nat /\ \A k \in 1..n : WinnerIn(vs, e.inputs[k], reqs[k])
                                         = WinnerIn(ws, e.inputs[k], reqs[k])
      BY <1>1, <2>1
    <2> HIDE DEF e, n, reqs
    <2>3. SpentIn(vs, e, reqs, n) = SpentIn(ws, e, reqs, n)
      BY <2>2, SpentSame
    <2> QED
      BY <2>3 DEF n, reqs
  <1>4. GivenIn(m, vs, g, p) = GivenIn(m, ws, g, p)
    BY <1>2 DEF GivenIn
  <1>5. TopIn(m, vs, g, required, p) = TopIn(m, ws, g, required, p)
    BY <1>4 DEF TopIn
  <1>6. ASSUME NEW stage, Found(m, ws, g, required, p, stage)
        PROVE  Found(m, vs, g, required, p, stage)
    BY <1>3, <1>4, <1>5, <1>6 DEF Found
  <1> QED
    BY <1>6 DEF Priced
-----------------------------------------------------------------------------
(* Steps that leave the table alone.                                       *)

LEMMA GoalsStep ==
  ASSUME CostsInv, UNCHANGED <<memo, winners>>,
         \A j \in 1..Len(stack') : GoalPriced(memo, winners, stack'[j])
  PROVE  CostsInv'
  BY DEF CostsInv, OneAnswerEach, WinnersPriced, GoalsPriced

LEMMA EnterRoutePriced ==
  ASSUME NEW f \in Goals, NEW stage, GoalPriced(memo, winners, f)
  PROVE  GoalPriced(memo, winners, EnterRoute(f, stage))
  <1> DEFINE h == EnterRoute(f, stage)
  <1>1. /\ h.group = f.group /\ h.required = f.required /\ h.best = f.best
        /\ h.cand = f.cand /\ h.next = 1 /\ h.spent = 0
    BY DEF EnterRoute, Goals
  <1> HIDE DEF h
  <1>2. Charged(memo, winners, h)
    BY <1>1 DEF Charged, SpentIn
  <1> QED
    BY <1>1, <1>2 DEF GoalPriced, h

LEMMA NextCandidatePriced ==
  ASSUME NEW f \in Goals, GoalPriced(memo, winners, f)
  PROVE  GoalPriced(memo, winners, NextCandidate(f))
  <1> DEFINE h == EnterRoute(f, "choose")
  <1>1. /\ h \in Goals /\ h.group = f.group /\ h.required = f.required
        /\ h.best = f.best /\ h.stage = "choose"
    <2>1. <<>> \in Seq(Properties)
      OBVIOUS
    <2> QED
      BY <2>1 DEF EnterRoute, Goals
  <1> HIDE DEF h
  <1>2. NextCandidate(f) = [h EXCEPT !.cand = h.cand + 1]
    BY DEF NextCandidate, h
  <1>3. /\ NextCandidate(f).group = f.group /\ NextCandidate(f).required = f.required
        /\ NextCandidate(f).best = f.best /\ NextCandidate(f).stage = "choose"
    BY <1>1, <1>2 DEF Goals
  <1> QED
    BY <1>3 DEF GoalPriced

LEMMA AfterRoutePriced ==
  ASSUME NEW f \in Goals, GoalPriced(memo, winners, f)
  PROVE  GoalPriced(memo, winners, AfterRoute(f))
  BY EnterRoutePriced, NextCandidatePriced DEF AfterRoute

(* A step of the innermost goal. *)
LEMMA TopPriced ==
  ASSUME IInv, CostsInv, Searching, NEW f, GoalPriced(memo, winners, f),
         stack' = SetTop(f), UNCHANGED <<memo, winners>>
  PROVE  CostsInv'
  <1>1. Len(stack) \in Nat \ {0} /\ stack \in Seq(Goals)
    BY TopFacts
  <1>2. /\ Len(stack') = Len(stack) /\ stack'[Len(stack)] = f
        /\ \A j \in 1..Len(stack) : j # Len(stack) => stack'[j] = stack[j]
    BY <1>1 DEF SetTop
  <1>3. ASSUME NEW j \in 1..Len(stack')
        PROVE  GoalPriced(memo, winners, stack'[j])
    BY <1>2 DEF CostsInv, GoalsPriced
  <1> QED
    BY <1>3, GoalsStep

LEMMA InitCosts == Init => CostsInv
  <1> SUFFICES ASSUME Init PROVE CostsInv
    OBVIOUS
  <1>1. /\ stack = <<NewGoal(Len(memo), request.required, Infinity)>>
        /\ winners = [g \in 1..Len(memo) |-> <<>>]
    BY DEF Init
  <1>2. \A g \in 1..Len(memo) : Len(winners[g]) = 0
    BY <1>1
  <1>3. /\ Len(stack) = 1
        /\ stack[1] = NewGoal(Len(memo), request.required, Infinity)
    BY <1>1
  <1>4. GoalPriced(memo, winners, stack[1])
    BY <1>3 DEF NewGoal, NoBest, GoalPriced
  <1>5. OneAnswerEach /\ WinnersPriced
    BY <1>2 DEF OneAnswerEach, WinnersPriced
  <1>6. GoalsPriced
    BY <1>3, <1>4 DEF GoalsPriced
  <1> QED
    BY <1>5, <1>6 DEF CostsInv

(* The innermost goal, as the costs know it. *)
LEMMA TopIsPriced ==
  ASSUME IInv, CostsInv, Searching
  PROVE  /\ Top \in Goals /\ memo \in Memos
         /\ GoalOK(memo, prune, winners, Top) /\ GoalPriced(memo, winners, Top)
  BY TopFacts DEF CostsInv, GoalsPriced

LEMMA PruneCosts == IInv /\ CostsInv /\ PruneCandidate => CostsInv'
  <1> SUFFICES ASSUME IInv, CostsInv, PruneCandidate PROVE CostsInv'
    OBVIOUS
  <1>1. /\ Searching /\ stack' = SetTop(NextCandidate(Top))
        /\ UNCHANGED <<memo, winners>>
    BY DEF PruneCandidate, Candidate, Choosing
  <1> QED
    BY <1>1, TopIsPriced, NextCandidatePriced, TopPriced

LEMMA StartCosts == IInv /\ CostsInv /\ StartCandidate => CostsInv'
  <1> SUFFICES ASSUME IInv, CostsInv, StartCandidate PROVE CostsInv'
    OBVIOUS
  <1> DEFINE f == [Top EXCEPT !.bound = BoundOf(Top)]
  <1>1. /\ Searching /\ Top.stage = "choose" /\ stack' = SetTop(EnterRoute(f, "enforce"))
        /\ UNCHANGED <<memo, winners>>
    BY DEF StartCandidate, Candidate, Choosing
  <1>2. Top \in Goals /\ GoalPriced(memo, winners, Top) /\ BoundOf(Top) \in Costs
    BY <1>1, TopIsPriced, BoundType
  <1>3. /\ f \in Goals /\ f.group = Top.group /\ f.required = Top.required
        /\ f.best = Top.best /\ f.stage = Top.stage
    BY <1>2 DEF Goals
  <1> HIDE DEF f
  <1>4. GoalPriced(memo, winners, f)
    BY <1>1, <1>2, <1>3 DEF GoalPriced
  <1> QED
    BY <1>1, <1>3, <1>4, EnterRoutePriced, TopPriced

LEMMA RejectCosts == IInv /\ CostsInv /\ RejectInput => CostsInv'
  <1> SUFFICES ASSUME IInv, CostsInv, RejectInput PROVE CostsInv'
    OBVIOUS
  <1>1. /\ Searching /\ stack' = SetTop(AfterRoute(Top)) /\ UNCHANGED <<memo, winners>>
    BY DEF RejectInput, AwaitsInput
  <1> QED
    BY <1>1, TopIsPriced, AfterRoutePriced, TopPriced

LEMMA OpenCosts == IInv /\ CostsInv /\ OpenGoal => CostsInv'
  <1> SUFFICES ASSUME IInv, CostsInv, OpenGoal PROVE CostsInv'
    OBVIOUS
  <1> DEFINE f == NewGoal(Input(Top), Demand(Top), InputBudget(Top))
  <1>1. Searching /\ stack' = Append(stack, f) /\ UNCHANGED <<memo, winners>>
    BY DEF OpenGoal, AwaitsInput
  <1>2. GoalPriced(memo, winners, f)
    BY DEF GoalPriced, NewGoal, NoBest
  <1> HIDE DEF f
  <1>3. stack \in Seq(Goals)
    BY <1>1, TopFacts
  <1>4. ASSUME NEW j \in 1..Len(stack')
        PROVE  GoalPriced(memo, winners, stack'[j])
    <2>1. stack'[j] = f \/ (j \in 1..Len(stack) /\ stack'[j] = stack[j])
      BY <1>1, <1>3
    <2> QED
      BY <1>2, <2>1 DEF CostsInv, GoalsPriced
  <1> QED
    BY <1>1, <1>4, GoalsStep

LEMMA AcceptCosts == IInv /\ CostsInv /\ AcceptInput => CostsInv'
  <1> SUFFICES ASSUME IInv, CostsInv, AcceptInput PROVE CostsInv'
    OBVIOUS
  <1> DEFINE f == [Top EXCEPT !.spent = SpentWithIt, !.next = Top.next + 1,
                              !.ins = Append(Top.ins, Answer.provided)]
  <1>1. /\ AwaitsInput /\ Searching /\ InRoute(Top) /\ Settled(Input(Top), Demand(Top))
        /\ stack' = SetTop(f) /\ UNCHANGED <<memo, winners>>
    BY DEF AcceptInput, AwaitsInput
  <1>2. /\ Top \in Goals /\ memo \in Memos /\ GoalOK(memo, prune, winners, Top)
        /\ GoalPriced(memo, winners, Top) /\ Charged(memo, winners, Top)
    BY <1>1, TopIsPriced DEF GoalPriced, InRoute
  <1>3. /\ Input(Top) \in 1..Len(memo) /\ Runs(Top) \in Nat
        /\ Top.next \in 1..Len(ExprOf(Top).inputs)
    BY <1>1, InputFacts
  <1>4. Answer = WinnerIn(winners, Input(Top), Demand(Top)) /\ Answer \in Entries
    BY <1>1, <1>3, WinnerForFacts DEF IInv, Answer, WinnerFor, WinnerIn
  <1>5. Answer.cost * Runs(Top) \in Nat
    <2>1. Answer.cost \in Nat
      BY <1>4 DEF Entries
    <2> QED
      BY <1>3, <2>1, NatTimes
  <1>6. Top.ins \in Seq(Properties) /\ Len(Top.ins) = Top.next - 1 /\ Top.next \in Nat
    BY <1>1, <1>2, RouteFacts DEF Goals
  <1>7. /\ f.group = Top.group /\ f.required = Top.required /\ f.cand = Top.cand
        /\ f.best = Top.best /\ f.stage = Top.stage /\ f.next = Top.next + 1
        /\ f.spent = SpentWithIt /\ f.ins = Append(Top.ins, Answer.provided)
    BY <1>2 DEF Goals
  <1> HIDE DEF f
  <1> DEFINE e == memo[Top.group].exprs[Top.cand]
             demands == DemandsOf(e, memo[Top.group], Top.required, Top.stage)
             n == Top.next - 1
  <1>8. /\ Input(Top) = e.inputs[n + 1] /\ Demand(Top) = demands[n + 1]
        /\ Runs(Top) = InputEvaluations(e.op, n + 1)
        /\ Demands(Top) = demands /\ ExprOf(Top) = e
    <2>1. n + 1 = Top.next
      BY <1>6
    <2> HIDE DEF n
    <2> QED
      BY <2>1 DEF Input, Demand, Demands, Runs, ExprOf, GroupOf
  <1>9. n \in {0, 1}
    <2>1. /\ Top.cand <= Len(memo[Top.group].exprs)
          /\ Len(ExprOf(Top).inputs) = Arity(ExprOf(Top).op)
      BY <1>1, <1>2, RouteFacts, CandidateFacts
    <2>2. Arity(ExprOf(Top).op) \in {0, 1, 2}
      BY DEF Arity
    <2> QED
      BY <1>3, <2>1, <2>2
  <1> HIDE DEF e, demands, n
  <1>10. /\ Top.spent = SpentIn(winners, e, demands, n)
         /\ \A k \in 1..n : Top.ins[k] = WinnerIn(winners, e.inputs[k], demands[k]).provided
    BY <1>2 DEF Charged, e, demands, n
  <1>11. f.spent = SpentIn(winners, e, demands, n + 1)
    <2>1. f.spent = Top.spent + Answer.cost * Runs(Top)
      BY <1>7 DEF SpentWithIt
    <2>2. WinnerIn(winners, e.inputs[n + 1], demands[n + 1]).cost
            * InputEvaluations(e.op, n + 1) = Answer.cost * Runs(Top)
      BY <1>4, <1>8
    <2> QED
      BY <1>5, <1>9, <1>10, <2>1, <2>2, SpentMore
  <1>12. ASSUME NEW k \in 1..(n + 1)
         PROVE  f.ins[k] = WinnerIn(winners, e.inputs[k], demands[k]).provided
    <2>1. CASE k = n + 1
      BY <1>4, <1>6, <1>7, <1>8, <2>1 DEF n
    <2>2. CASE k # n + 1
      <3>1. k \in 1..n /\ k \in 1..Len(Top.ins)
        BY <1>6, <1>9, <2>2 DEF n
      <3>2. f.ins[k] = Top.ins[k]
        BY <1>6, <1>7, <3>1
      <3> QED
        BY <1>10, <3>1, <3>2
    <2> QED
      BY <2>1, <2>2
  <1>13. Charged(memo, winners, f)
    <2>1. f.next - 1 = n + 1
      BY <1>6, <1>7 DEF n
    <2> QED
      BY <1>7, <1>11, <1>12, <2>1 DEF Charged, e, demands
  <1>14. GoalPriced(memo, winners, f)
    BY <1>2, <1>7, <1>13 DEF GoalPriced
  <1> QED
    BY <1>1, <1>14, TopPriced

(* A finished route over the answers the table has. *)
LEMMA RouteFound ==
  ASSUME NEW f \in Goals, TypeOK, GoalOK(memo, prune, winners, f), InRoute(f),
         ~MoreInputs(f), RouteCost(f) # Infinity, Charged(memo, winners, f)
  PROVE  Found(memo, winners, f.group, f.required, RouteResult(f), f.stage)
  <1> DEFINE p == RouteResult(f)
             e == ExprOf(f)
  <1>1. memo \in Memos /\ f.ins \in Seq(Properties) /\ f.spent \in Nat
    BY DEF TypeOK, Goals
  <1>2. /\ f.cand <= Len(memo[f.group].exprs)
        /\ f.next \in 1..(Len(e.inputs) + 1) /\ Len(f.ins) = f.next - 1
        /\ f.stage = "pushdown" => CanPushDown(e.op)
    BY <1>1, RouteFacts
  <1>3. /\ f.group \in 1..Len(memo) /\ f.cand \in 1..Len(memo[f.group].exprs)
        /\ Len(e.inputs) \in Nat /\ OwnCost(e, GroupOf(f)) \in Nat
        /\ OwnIn(memo, e, GroupOf(f)) = OwnCost(e, GroupOf(f))
    BY <1>1, <1>2, CandidateFacts
  <1>4. f.next - 1 = Len(e.inputs) /\ DOMAIN e.inputs = 1..Len(e.inputs)
    <2>1. ~(f.next <= Len(e.inputs))
      BY DEF MoreInputs
    <2>2. DOMAIN e.inputs = 1..Len(e.inputs)
      BY <1>1, <1>3, MemoType DEF ExprOf
    <2> HIDE DEF e
    <2> QED
      BY <1>2, <1>3, <2>1, <2>2
  <1>5. /\ p.expr = f.cand /\ p.cost = RouteCost(f) /\ p.inputRequired = Demands(f)
        /\ p.provided = IF f.stage = "enforce" /\ RouteTop(f) # 0
                        THEN Upgraded(RouteProvides(f), f.required) ELSE RouteProvides(f)
    BY DEF RouteResult
  <1> HIDE DEF p
  <1>6. /\ memo[f.group].exprs[p.expr] = e /\ memo[f.group] = GroupOf(f)
        /\ p.inputRequired = DemandsOf(e, memo[f.group], f.required, f.stage)
    BY <1>5 DEF ExprOf, GroupOf, Demands
  <1>7. InsIn(winners, e, p.inputRequired) = f.ins
    <2>1. \A k \in 1..Len(e.inputs) :
            f.ins[k] = WinnerIn(winners, e.inputs[k], p.inputRequired[k]).provided
      BY <1>4, <1>6 DEF Charged, ExprOf, GroupOf
    <2> HIDE DEF e
    <2>2. f.ins = [k \in 1..Len(f.ins) |-> f.ins[k]]
      BY <1>1
    <2>3. Len(f.ins) = Len(e.inputs)
      BY <1>2, <1>4
    <2> QED
      BY <1>4, <2>1, <2>2, <2>3 DEF InsIn
  <1>8. f.spent = SpentIn(winners, e, p.inputRequired, Len(e.inputs))
    BY <1>4, <1>6 DEF Charged, ExprOf, GroupOf
  <1>9. /\ GivenIn(memo, winners, f.group, p) = RouteProvides(f)
        /\ TopIn(memo, winners, f.group, f.required, p) = RouteTop(f)
    BY <1>6, <1>7 DEF GivenIn, TopIn, RouteProvides, RouteTop
  <1>10. RouteTop(f) # Infinity /\ RouteCost(f) = f.spent + OwnCost(e, GroupOf(f)) + RouteTop(f)
    BY <1>1, <1>3 DEF RouteCost, Plus, Infinity
  <1> HIDE DEF e
  <1>11. p.cost = SpentIn(winners, e, p.inputRequired, Len(e.inputs))
                    + OwnIn(memo, e, memo[f.group])
                    + TopIn(memo, winners, f.group, f.required, p)
    BY <1>3, <1>5, <1>6, <1>8, <1>9, <1>10
  <1>12. p.provided = IF f.stage = "enforce"
                           /\ TopIn(memo, winners, f.group, f.required, p) # 0
                      THEN Upgraded(GivenIn(memo, winners, f.group, p), f.required)
                      ELSE GivenIn(memo, winners, f.group, p)
    BY <1>5, <1>9
  <1>13. Found(memo, winners, f.group, f.required, p, f.stage)
    BY <1>2, <1>6, <1>9, <1>10, <1>11, <1>12 DEF Found
  <1> QED
    BY <1>13 DEF p

LEMMA FinishCosts == IInv /\ CostsInv /\ FinishRoute => CostsInv'
  <1> SUFFICES ASSUME IInv, CostsInv, FinishRoute PROVE CostsInv'
    OBVIOUS
  <1> DEFINE better == [Top EXCEPT !.best = RouteResult(Top)]
             f == IF Less(RouteCost(Top), Top.best.cost) THEN better ELSE Top
  <1>1. /\ Searching /\ InRoute(Top) /\ ~MoreInputs(Top)
        /\ stack' = SetTop(AfterRoute(f)) /\ UNCHANGED <<memo, winners>>
    BY DEF FinishRoute
  <1>2. /\ Top \in Goals /\ memo \in Memos /\ GoalOK(memo, prune, winners, Top)
        /\ GoalPriced(memo, winners, Top) /\ Charged(memo, winners, Top)
    BY <1>1, TopIsPriced DEF GoalPriced, InRoute
  <1>3. f \in Goals /\ GoalPriced(memo, winners, f)
    <2>1. CASE Less(RouteCost(Top), Top.best.cost)
      <3>1. RouteCost(Top) # Infinity
        BY <2>1 DEF Less
      <3>2. Found(memo, winners, Top.group, Top.required, RouteResult(Top), Top.stage)
        BY <1>1, <1>2, <3>1, RouteFound DEF IInv
      <3>3. Priced(memo, winners, Top.group, Top.required, RouteResult(Top))
        BY <1>1, <3>2 DEF Priced, InRoute
      <3>4. RouteResult(Top) \in Bests
        BY <1>1, <1>2, <3>1, RouteResultOK DEF IInv
      <3>5. /\ better \in Goals /\ better.group = Top.group
            /\ better.required = Top.required /\ better.cand = Top.cand
            /\ better.stage = Top.stage /\ better.next = Top.next
            /\ better.spent = Top.spent /\ better.ins = Top.ins
            /\ better.best = RouteResult(Top)
        BY <1>2, <3>4 DEF Goals
      <3> HIDE DEF better
      <3>6. GoalPriced(memo, winners, better)
        BY <1>2, <3>3, <3>5 DEF GoalPriced, Charged
      <3> QED
        BY <2>1, <3>5, <3>6
    <2>2. CASE ~Less(RouteCost(Top), Top.best.cost)
      BY <1>2, <2>2
    <2> QED
      BY <2>1, <2>2
  <1> HIDE DEF f
  <1> QED
    BY <1>1, <1>3, AfterRoutePriced, TopPriced

LEMMA FailCosts == IInv /\ CostsInv /\ FailGoal => CostsInv'
  <1> SUFFICES ASSUME IInv, CostsInv, FailGoal PROVE CostsInv'
    OBVIOUS
  <1> DEFINE n == Len(stack)
             asker == stack[n - 1]
  <1>1. Searching /\ UNCHANGED <<memo, winners>>
    BY DEF FailGoal, Exhausted, Choosing
  <1>2. n \in Nat \ {0} /\ stack \in Seq(Goals)
    BY <1>1, TopFacts
  <1>3. CASE n = 1
    <2>1. stack' = <<>>
      BY <1>3 DEF FailGoal
    <2> QED
      BY <1>1, <2>1, GoalsStep
  <1>4. CASE n # 1
    <2>1. stack' = [Popped EXCEPT ![n - 1] = AfterRoute(asker)]
      BY <1>4 DEF FailGoal
    <2>2. n - 1 \in 1..n
      <3>1. \A i \in Nat \ {0, 1} : i - 1 \in 1..i
        OBVIOUS
      <3> HIDE DEF n
      <3> QED
        BY <1>2, <1>4, <3>1
    <2>3. asker \in Goals /\ GoalPriced(memo, winners, asker)
      BY <1>2, <2>2 DEF CostsInv, GoalsPriced
    <2>4. GoalPriced(memo, winners, AfterRoute(asker))
      BY <2>3, AfterRoutePriced
    <2>5. /\ Popped \in Seq(Goals) /\ Len(Popped) = n - 1
          /\ \A j \in 1..(n - 1) : Popped[j] = stack[j] /\ j \in 1..n
      BY <1>2, <2>2 DEF Popped
    <2>6. ASSUME NEW j \in 1..Len(stack')
          PROVE  GoalPriced(memo, winners, stack'[j])
      <3>1. Len(stack') = n - 1
        BY <2>1, <2>5
      <3>2. stack'[j] = AfterRoute(asker) \/ (stack'[j] = stack[j] /\ j \in 1..n)
        BY <2>1, <2>5, <3>1
      <3> QED
        BY <2>4, <3>2 DEF CostsInv, GoalsPriced
    <2> QED
      BY <1>1, <2>6, GoalsStep
  <1> QED
    BY <1>3, <1>4
-----------------------------------------------------------------------------
(* The step that adds to the table.                                        *)

(* The question was not answered before, so it still has one answer.       *)
LEMMA SettleKeepsOneAnswer ==
  ASSUME IInv, OneAnswerEach, SettleGoal, NEW g \in 1..Len(memo)
  PROVE  /\ DOMAIN winners[g] = 1..Len(winners[g])
         /\ DOMAIN winners'[g] = 1..Len(winners'[g])
         /\ \A i, j \in 1..Len(winners'[g]) :
              SameRequirement(winners'[g][i].required, winners'[g][j].required) => i = j
  <1>1. /\ winners \in [1..Len(memo) -> Seq(Entries)]
        /\ winners' \in [1..Len(memo) -> Seq(Entries)]
    BY SettleKeepsAnswers DEF IInv, TypeOK
  <1>2. /\ winners[g] \in Seq(Entries) /\ winners'[g] \in Seq(Entries)
        /\ DOMAIN winners[g] = 1..Len(winners[g])
        /\ DOMAIN winners'[g] = 1..Len(winners'[g])
    BY <1>1
  <1>3. CASE g # Top.group
    <2>1. winners'[g] = winners[g]
      BY <1>3, SettleKeepsAnswers
    <2> QED
      BY <1>2, <2>1 DEF OneAnswerEach
  <1>4. CASE g = Top.group
    <2> DEFINE n == Len(winners[g])
    <2>1. /\ winners'[g] = Append(winners[g], SettledEntry)
          /\ SettledEntry.required = Top.required
      BY <1>1, <1>4, SettleAppends
    <2>2. /\ n \in Nat /\ Len(winners'[g]) = n + 1
          /\ winners'[g][n + 1].required = Top.required
          /\ \A i \in 1..n : winners'[g][i] = winners[g][i]
      BY <1>2, <2>1
    <2>3. \A i \in 1..n : /\ ~SameRequirement(winners[g][i].required, Top.required)
                          /\ ~SameRequirement(Top.required, winners[g][i].required)
      <3>1. Searching
        BY DEF SettleGoal, Exhausted, Choosing
      <3>2. ~Answered(winners[g], Top.required)
        BY <1>4, <3>1, TopFacts DEF IInv, GoalsOK
      <3> QED
        BY <1>2, <3>2, SameRequirementIsEquivalence DEF Answered
    <2> SUFFICES ASSUME NEW i \in 1..(n + 1), NEW j \in 1..(n + 1),
                        SameRequirement(winners'[g][i].required, winners'[g][j].required)
                 PROVE  i = j
      BY <1>2, <2>2
    <2>4. \A k \in 1..(n + 1) : k = n + 1 \/ k \in 1..n
      BY <2>2
    <2>5. CASE i \in 1..n /\ j \in 1..n
      BY <2>2, <2>5 DEF OneAnswerEach
    <2>6. CASE ~(i \in 1..n /\ j \in 1..n)
      BY <2>2, <2>3, <2>4, <2>6
    <2> QED
      BY <2>5, <2>6
  <1> QED
    BY <1>2, <1>3, <1>4

(* An answer is found where it was found before. *)
LEMMA SettleKeepsFinding ==
  ASSUME IInv, OneAnswerEach, SettleGoal, NEW g \in 1..Len(memo), NEW r,
         Answered(winners[g], r)
  PROVE  WinnerIn(winners', g, r) = WinnerIn(winners, g, r)
  <1>1. DOMAIN winners[g] = 1..Len(winners[g]) /\ DOMAIN winners'[g] = 1..Len(winners'[g])
    BY SettleKeepsOneAnswer
  <1>2. PICK i \in 1..Len(winners[g]) : SameRequirement(winners[g][i].required, r)
    BY <1>1 DEF Answered
  <1>3. WinnerIn(winners, g, r) = winners[g][i]
    <2> DEFINE ws == winners
    <2>1. \A j, k \in 1..Len(ws[g]) :
            SameRequirement(ws[g][j].required, ws[g][k].required) => j = k
      BY DEF OneAnswerEach
    <2>2. /\ i \in DOMAIN ws[g] /\ DOMAIN ws[g] = 1..Len(ws[g])
          /\ SameRequirement(ws[g][i].required, r)
      BY <1>1, <1>2
    <2> HIDE DEF ws
    <2>3. \A j, k \in DOMAIN ws[g] :
            SameRequirement(ws[g][j].required, ws[g][k].required) => j = k
      BY <2>1, <2>2
    <2>4. i \in DOMAIN ws[g] /\ SameRequirement(ws[g][i].required, r)
      BY <2>2
    <2>5. WinnerIn(ws, g, r) = ws[g][i]
      BY <2>3, <2>4, AnswerFound
    <2> QED
      BY <2>5 DEF ws
  <1>4. i \in DOMAIN winners'[g] /\ winners'[g][i] = winners[g][i]
    <2>1. winners[g] \in Seq(Entries) /\ winners'[g] \in Seq(Entries)
      BY SettleKeepsAnswers DEF IInv, TypeOK
    <2>2. Len(winners[g]) \in Nat /\ Len(winners'[g]) \in Nat
      BY <2>1
    <2> QED
      BY <1>1, <2>2, SettleKeepsAnswers
  <1>5. \A j, k \in DOMAIN winners'[g] :
          SameRequirement(winners'[g][j].required, winners'[g][k].required) => j = k
    BY <1>1, SettleKeepsOneAnswer
  <1>6. WinnerIn(winners', g, r) = winners'[g][i]
    <2> DEFINE ws == winners'
    <2>1. /\ i \in DOMAIN ws[g] /\ SameRequirement(ws[g][i].required, r)
          /\ \A j, k \in DOMAIN ws[g] :
               SameRequirement(ws[g][j].required, ws[g][k].required) => j = k
      BY <1>2, <1>4, <1>5
    <2> HIDE DEF ws
    <2>2. WinnerIn(ws, g, r) = ws[g][i]
      BY <2>1, AnswerFound
    <2> QED
      BY <2>2 DEF ws
  <1> QED
    BY <1>3, <1>4, <1>6

LEMMA SettleKeepsPrices ==
  ASSUME IInv, OneAnswerEach, SettleGoal, NEW g \in 1..Len(memo), NEW required, NEW p,
         PlanOK(memo, winners, g, p), Priced(memo, winners, g, required, p)
  PROVE  Priced(memo, winners', g, required, p)
  <1> DEFINE e == memo[g].exprs[p.expr]
  <1>1. /\ memo \in Memos /\ p.expr \in 1..Len(memo[g].exprs)
        /\ Len(p.inputRequired) = Arity(e.op)
        /\ \A k \in 1..Len(p.inputRequired) :
             Answered(winners[e.inputs[k]], p.inputRequired[k])
    BY DEF PlanOK, IInv, TypeOK
  <1>2. /\ Len(e.inputs) = Arity(e.op) /\ Len(memo) \in Nat
        /\ \A k \in 1..Len(e.inputs) : e.inputs[k] \in 1..(g - 1)
    BY <1>1, MemoType
  <1>3. \A k \in 1..Len(e.inputs) :
          WinnerIn(winners', e.inputs[k], p.inputRequired[k])
            = WinnerIn(winners, e.inputs[k], p.inputRequired[k])
    <2> HIDE DEF e
    <2>1. \A k \in 1..Len(e.inputs) : e.inputs[k] \in 1..Len(memo)
      BY <1>2
    <2> QED
      BY <1>1, <1>2, <2>1, SettleKeepsFinding
  <1> DEFINE vs == winners'
  <1>4. \A k \in 1..Len(memo[g].exprs[p.expr].inputs) :
          WinnerIn(vs, memo[g].exprs[p.expr].inputs[k], p.inputRequired[k])
            = WinnerIn(winners, memo[g].exprs[p.expr].inputs[k], p.inputRequired[k])
    BY <1>3
  <1> HIDE DEF vs
  <1>5. Priced(memo, vs, g, required, p)
    BY <1>1, <1>4, PricedSame
  <1> QED
    BY <1>5 DEF vs

LEMMA SettleKeepsGoalPrices ==
  ASSUME IInv, OneAnswerEach, SettleGoal, NEW f \in Goals,
         GoalOK(memo, prune, winners, f), GoalPriced(memo, winners, f)
  PROVE  GoalPriced(memo, winners', f)
  <1>1. f.group \in 1..Len(memo) /\ memo \in Memos
    BY DEF GoalOK, IInv, TypeOK
  <1>2. f.best.expr # 0 => Priced(memo, winners', f.group, f.required, f.best)
    BY <1>1, SettleKeepsPrices DEF GoalOK, GoalPriced
  <1>3. ASSUME f.stage # "choose"
        PROVE  Charged(memo, winners', f)
    <2> DEFINE e == memo[f.group].exprs[f.cand]
               demands == DemandsOf(e, memo[f.group], f.required, f.stage)
    <2>1. Charged(memo, winners, f) /\ InRoute(f)
      BY <1>3 DEF GoalPriced, InRoute, Goals
    <2>2. /\ f.cand <= Len(memo[f.group].exprs)
          /\ f.next \in 1..(Len(e.inputs) + 1)
          /\ \A k \in 1..(f.next - 1) : Answered(winners[e.inputs[k]], demands[k])
      BY <1>1, <2>1, RouteFacts DEF ExprOf, GroupOf, Demands, Settled
    <2>3. /\ Len(e.inputs) \in Nat /\ Len(memo) \in Nat
          /\ \A k \in 1..Len(e.inputs) : e.inputs[k] \in 1..(f.group - 1)
      BY <1>1, <2>2, CandidateFacts, MemoType DEF ExprOf
    <2> HIDE DEF e, demands
    <2>4. f.next - 1 \in Nat /\ \A k \in 1..(f.next - 1) : e.inputs[k] \in 1..Len(memo)
      BY <1>1, <2>2, <2>3
    <2>5. \A k \in 1..(f.next - 1) :
            WinnerIn(winners', e.inputs[k], demands[k]) = WinnerIn(winners, e.inputs[k], demands[k])
      BY <2>2, <2>4, SettleKeepsFinding
    <2>6. SpentIn(winners', e, demands, f.next - 1) = SpentIn(winners, e, demands, f.next - 1)
      BY <2>4, <2>5, SpentSame
    <2> QED
      BY <2>1, <2>5, <2>6 DEF Charged, e, demands
  <1> QED
    BY <1>2, <1>3 DEF GoalPriced

LEMMA SettleCosts == IInv /\ CostsInv /\ SettleGoal => CostsInv'
  <1> SUFFICES ASSUME IInv, CostsInv, SettleGoal PROVE CostsInv'
    OBVIOUS
  <1> DEFINE n == Len(stack)
  <1>1. Searching /\ stack' = Popped /\ UNCHANGED memo /\ Top.best.expr # 0
    BY DEF SettleGoal, Exhausted, Choosing
  <1>2. OneAnswerEach /\ OneAnswerEach'
    BY <1>1, SettleKeepsOneAnswer DEF CostsInv, OneAnswerEach
  <1>3. /\ n \in Nat \ {0} /\ stack \in Seq(Goals) /\ memo \in Memos
        /\ Top \in Goals /\ GoalOK(memo, prune, winners, Top)
        /\ GoalPriced(memo, winners, Top)
    BY <1>1, TopFacts, TopIsPriced
  <1>4. GoalsPriced'
    <2>1. /\ Len(stack') = n - 1
          /\ \A j \in 1..(n - 1) : stack'[j] = stack[j] /\ j \in 1..n
      <3>1. stack' = SubSeq(stack, 1, n - 1)
        BY <1>1 DEF Popped
      <3>2. \A j \in 1..n : stack[j] \in Goals
        BY <1>3
      <3> HIDE DEF n
      <3>3. n - 1 \in Nat /\ \A j \in 1..(n - 1) : j \in 1..n
        BY <1>3
      <3>4. /\ Len(SubSeq(stack, 1, n - 1)) = IF 1 <= n - 1 THEN (n - 1) - 1 + 1 ELSE 0
            /\ \A i \in 1..((n - 1) - 1 + 1) : SubSeq(stack, 1, n - 1)[i] = stack[1 + i - 1]
        BY <1>3, <3>2, <3>3, SubSeqProperties
      <3> QED
        BY <1>3, <3>1, <3>3, <3>4
    <2> SUFFICES ASSUME NEW j \in 1..(n - 1)
                 PROVE  GoalPriced(memo, winners', stack[j])
      BY <1>1, <2>1 DEF GoalsPriced
    <2>2. /\ stack[j] \in Goals /\ GoalOK(memo, prune, winners, stack[j])
          /\ GoalPriced(memo, winners, stack[j])
      BY <2>1, GoalFacts DEF CostsInv, GoalsPriced
    <2> QED
      BY <1>2, <2>2, SettleKeepsGoalPrices
  <1>5. WinnersPriced'
    <2> SUFFICES ASSUME NEW g \in 1..Len(memo), NEW i \in 1..Len(winners'[g])
                 PROVE  Priced(memo, winners', g, winners'[g][i].required, winners'[g][i])
      BY <1>1 DEF WinnersPriced
    <2>1. CASE i \in 1..Len(winners[g])
      <3>1. winners'[g][i] = winners[g][i]
        BY <2>1, SettleKeepsAnswers
      <3>2. /\ PlanOK(memo, winners, g, winners[g][i])
            /\ Priced(memo, winners, g, winners[g][i].required, winners[g][i])
        BY <2>1 DEF IInv, WinnersOK, CostsInv, WinnersPriced
      <3> QED
        BY <1>2, <3>1, <3>2, SettleKeepsPrices
    <2>2. CASE i \notin 1..Len(winners[g])
      <3>1. g = Top.group
        BY <2>2, SettleKeepsAnswers
      <3>2. winners'[g] = Append(winners[g], SettledEntry) /\ winners[g] \in Seq(Entries)
        BY <3>1, SettleAppends DEF IInv, TypeOK
      <3>3. winners'[g][i] = SettledEntry
        BY <2>2, <3>2
      <3>4. PlanOK(memo, winners, g, SettledEntry)
        BY <3>1, SettleAppends
      <3>5. Priced(memo, winners, g, Top.required, SettledEntry)
        <4>1. Priced(memo, winners, g, Top.required, Top.best)
          BY <1>1, <1>3, <3>1 DEF GoalPriced
        <4>2. /\ SettledEntry.expr = Top.best.expr /\ SettledEntry.cost = Top.best.cost
              /\ SettledEntry.provided = Top.best.provided
              /\ SettledEntry.inputRequired = Top.best.inputRequired
          BY DEF SettledEntry
        <4> QED
          BY <4>1, <4>2 DEF Priced, Found, TopIn, GivenIn
      <3>6. SettledEntry.required = Top.required
        BY SettleAppends
      <3> QED
        BY <1>2, <3>3, <3>4, <3>5, <3>6, SettleKeepsPrices
    <2> QED
      BY <2>1, <2>2
  <1> QED
    BY <1>2, <1>4, <1>5 DEF CostsInv
-----------------------------------------------------------------------------
(* The theorems.                                                           *)

LEMMA CostsStep == IInv /\ CostsInv /\ [Next]_vars => CostsInv'
  <1> SUFFICES ASSUME IInv, CostsInv, [Next]_vars PROVE CostsInv'
    OBVIOUS
  <1>1. CASE UNCHANGED vars
    BY <1>1 DEF vars, CostsInv, OneAnswerEach, WinnersPriced, GoalsPriced
  <1> QED
    BY <1>1, PruneCosts, StartCosts, OpenCosts, AcceptCosts, RejectCosts, FinishCosts,
       SettleCosts, FailCosts DEF Next

(* The table and the open goals agree about every answer and its price.    *)
THEOREM CostsInvariance == Spec => [](IInv /\ CostsInv)
  BY Invariance, InitCosts, CostsStep, PTL DEF Spec

(* A recorded cost can be re-derived, at any later time, from the table as *)
(* it then is: no entry settled later changes what an input was found to   *)
(* cost or to provide.                                                     *)
THEOREM CostsCanBeRederived == Spec => []CostsReproducible
  <1>1. IInv /\ CostsInv => CostsReproducible
    <2> SUFFICES ASSUME IInv, CostsInv, NEW g \in DOMAIN winners, NEW i \in DOMAIN winners[g]
                 PROVE  LET w   == winners[g][i]
                            e   == memo[g].exprs[w.expr]
                            ins == [k \in DOMAIN e.inputs |->
                                      WinnerFor(e.inputs[k], w.inputRequired[k]).provided]
                        IN  w.cost = InputsCost(e, w.inputRequired) + OwnCost(e, memo[g])
                              + EnforcementCost(DeriveOp(e, memo[g], ins), w.required,
                                                memo[g].rows)
      BY DEF CostsReproducible
    <2> DEFINE w == winners[g][i]
               e == memo[g].exprs[w.expr]
    <2>1. g \in 1..Len(memo) /\ i \in 1..Len(winners[g]) /\ memo \in Memos
      <3>1. winners \in [1..Len(memo) -> Seq(Entries)] /\ memo \in Memos
        BY DEF IInv, TypeOK
      <3> QED
        BY <3>1
    <2>2. PICK stage \in {"enforce", "pushdown"} : Found(memo, winners, g, w.required, w, stage)
      BY <2>1 DEF CostsInv, WinnersPriced, Priced
    <2>3. InputsCost(e, w.inputRequired)
            = SpentIn(winners, e, w.inputRequired, Len(e.inputs))
      BY DEF InputsCost, SpentIn, WinnerFor, WinnerIn
    <2>4. OwnCost(e, memo[g]) = OwnIn(memo, e, memo[g])
      BY DEF OwnCost, OwnIn
    <2>5. EnforcementCost(DeriveOp(e, memo[g],
                            [k \in DOMAIN e.inputs |->
                               WinnerFor(e.inputs[k], w.inputRequired[k]).provided]),
                          w.required, memo[g].rows)
            = TopIn(memo, winners, g, w.required, w)
      BY DEF TopIn, GivenIn, InsIn, WinnerFor, WinnerIn
    <2>6. w.cost = SpentIn(winners, e, w.inputRequired, Len(e.inputs))
                     + OwnIn(memo, e, memo[g]) + TopIn(memo, winners, g, w.required, w)
      BY <2>2 DEF Found
    <2> QED
      BY <2>3, <2>4, <2>5, <2>6
  <1> QED
    BY <1>1, CostsInvariance, PTL
-----------------------------------------------------------------------------
(* What a winner is recorded to provide.                                   *)

(* Sorting rows there are is never free. *)
LEMMA SortingCosts ==
  ASSUME EnforcersCost, NEW rows \in Nat \ {0}
  PROVE  SortCost(rows) # 0
  <1> DEFINE n == IF rows < 2 THEN 2 ELSE rows
             S == {k \in 1..MaxLog : 2^k <= n}
  <1>1. n \in Nat /\ 2 <= n
    OBVIOUS
  <1>2. 1 \in S
    <2>1. 2^1 = 2 /\ 1 \in 1..MaxLog
      BY SMT DEF MaxLog
    <2> HIDE DEF n
    <2> QED
      BY <1>1, <2>1
  <1>3. IsFiniteSet(S)
    <2>1. 1 \in Int /\ MaxLog \in Int
      BY DEF MaxLog
    <2>2. IsFiniteSet(1..MaxLog)
      BY <2>1, FS_Interval
    <2>3. S \subseteq 1..MaxLog
      OBVIOUS
    <2> QED
      BY <2>2, <2>3, FS_Subset
  <1>4. Cardinality(S) \in Nat \ {0}
    <2> HIDE DEF S
    <2>1. S # {} /\ Cardinality(S) \in Nat
      BY <1>2, <1>3, FS_CardinalityType
    <2> QED
      BY <1>3, <2>1, FS_EmptySet
  <1>5. Log2(n) \in Nat \ {0}
    BY <1>4 DEF Log2
  <1>6. Calibration["sort"] \in Nat \ {0}
    BY CoefficientType DEF EnforcersCost, CoefficientNames
  <1>7. \A a, b, c \in Nat \ {0} : a * b * c # 0
    BY SMT
  <1> HIDE DEF n
  <1>8. SortCost(rows) = rows * Log2(n) * Calibration["sort"]
    BY DEF SortCost, n
  <1> QED
    BY <1>5, <1>6, <1>7, <1>8

(* Where rows are, a free enforcement converts nothing and sorts nothing.  *)
LEMMA FreeEnforcement ==
  ASSUME EnforcersCost, NEW provided \in Properties, NEW required \in Properties,
         NEW rows \in Nat \ {0}, EnforcementCost(provided, required, rows) = 0
  PROVE  /\ FreshEnough(provided, required)
         /\ FormatSatisfies(provided, required)
         /\ SortPrefix(provided.sort, required.sort)
  <1> DEFINE x == IF NeedsExchange(provided, required) THEN ExchangeCost(required, rows) ELSE 0
             c == IF NeedsConvert(provided, required) THEN rows * Calibration["convert"] ELSE 0
             s == IF NeedsSort(provided, required) THEN SortCost(rows) ELSE 0
  <1>1. /\ FreshEnough(provided, required)
        /\ EnforcementCost(provided, required, rows) = x + c + s
    BY DEF EnforcementCost, Infinity
  <1>2. x \in Nat
    <2>1. Calibration["exchange"] \in Nat /\ Calibration["clusterNodes"] \in Nat
      BY CoefficientType DEF CoefficientNames
    <2>2. ExchangeCost(required, rows) \in Nat
      BY <2>1, NatTimes DEF ExchangeCost
    <2> QED
      BY <2>2
  <1>3. rows * Calibration["convert"] \in Nat \ {0}
    <2>1. Calibration["convert"] \in Nat \ {0}
      BY CoefficientType DEF EnforcersCost, CoefficientNames
    <2>2. \A a, b \in Nat \ {0} : a * b \in Nat \ {0}
      BY SMT
    <2> QED
      BY <2>1, <2>2
  <1>4. SortCost(rows) \in Nat \ {0}
    BY SortCostType, SortingCosts
  <1>5. c \in Nat /\ s \in Nat
    BY <1>3, <1>4
  <1>6. c = 0 /\ s = 0
    <2> HIDE DEF x, c, s
    <2> QED
      BY <1>1, <1>2, <1>5
  <1>7. ~NeedsConvert(provided, required) /\ ~NeedsSort(provided, required)
    BY <1>3, <1>4, <1>6
  <1>8. SortPrefix(provided.sort, required.sort)
    <2>1. provided.sort \in Seq(SortKeys) /\ required.sort \in Seq(SortKeys)
      BY DEF Properties
    <2>2. CASE ~NeedsExchange(provided, required)
      BY <1>7, <2>2 DEF NeedsSort, AfterExchange
    <2>3. CASE NeedsExchange(provided, required)
      <3>1. SortPrefix(<<>>, required.sort)
        BY <1>7, <2>3 DEF NeedsSort, AfterExchange, Properties
      <3>2. Len(required.sort) = 0
        BY <2>1, <3>1 DEF SortPrefix
      <3> QED
        BY <2>1, <3>2 DEF SortPrefix
    <2> QED
      BY <2>2, <2>3
  <1> QED
    BY <1>1, <1>7, <1>8 DEF NeedsConvert

(* What is asked of a winner beside its place.                             *)
Serves(provided, required) ==
  /\ FreshEnough(provided, required)
  /\ FormatSatisfies(provided, required)
  /\ SortPrefix(provided.sort, required.sort)

LEMMA ServesIsSatisfies ==
  ASSUME NEW provided \in Properties, NEW required \in Properties,
         Serves(provided, required)
  PROVE  Satisfies([provided EXCEPT !.dist = required.dist], required)
  <1>1. required.dist \in Distributions
    BY DEF Properties
  <1>2. DistributionSatisfies(required.dist, required.dist)
    BY <1>1, DistributionOrder
  <1> QED
    BY <1>2 DEF Serves, Satisfies, FreshEnough, FormatSatisfies, Properties

(* A finite charge upgrades what is provided to what is required. *)
LEMMA UpgradedServes ==
  ASSUME NEW provided \in Properties, NEW required \in Properties, NEW rows \in Nat,
         EnforcementCost(provided, required, rows) # Infinity
  PROVE  Serves(Upgraded(provided, required), required)
  <1>1. FreshEnough(provided, required)
    BY DEF EnforcementCost
  <1>2. required.sort \in Seq(SortKeys) /\ provided.sort \in Seq(SortKeys)
    BY DEF Properties
  <1>3. SortPrefix(required.sort, required.sort)
    BY <1>2, SortPrefixReflexive
  <1>4. SortPrefix(provided.sort, <<>>)
    BY <1>2 DEF SortPrefix
  <1>5. Upgraded(provided, required)
          = [provided EXCEPT
               !.format = IF required.format # "Any" THEN required.format ELSE provided.format,
               !.sort   = IF required.sort # <<>> THEN required.sort ELSE provided.sort]
    BY DEF Upgraded, Properties
  <1> QED
    BY <1>1, <1>3, <1>4, <1>5 DEF Serves, FreshEnough, FormatSatisfies, Properties

(* A pushed requirement is the consumer's: what passes it down needs       *)
(* nothing of its own, and provides what its input does.                   *)
LEMMA PushedDown ==
  ASSUME NEW e \in GroupExprs, NEW g \in Groups, NEW required \in Properties,
         NEW ins \in Seq(Properties), Len(ins) = Arity(e.op), CanPushDown(e.op)
  PROVE  /\ DemandsOf(e, g, required, "pushdown")[1] = required
         /\ DeriveOp(e, g, ins).sort = ins[1].sort
         /\ DeriveOp(e, g, ins).format = ins[1].format
         /\ DeriveOp(e, g, ins).freshness = ins[1].freshness
  <1>1. e.op \in {"Filter", "Project"} /\ Arity(e.op) = 1
    BY DEF CanPushDown, Arity, Leaves, Binary, Joins, SemiJoins, SetOperators
  <1>2. /\ DeriveOp(e, g, ins).sort = ins[1].sort
        /\ DeriveOp(e, g, ins).format = ins[1].format
        /\ DeriveOp(e, g, ins).freshness = ins[1].freshness
    BY <1>1 DEF DeriveOp, OutputOrder, OutputFormat, OutputFreshness,
                Binary, Joins, SemiJoins, SetOperators
  <1>3. DemandsOf(e, g, required, "pushdown")[1] = required
    <2>1. /\ InputRequirement(e, g, 1).format = "Any"
          /\ InputRequirement(e, g, 1).sort = <<>>
      BY <1>1 DEF InputRequirement, InputOrder
    <2>2. /\ RequiredInputProperties(e, g)[1] = InputRequirement(e, g, 1)
          /\ 1 \in DOMAIN RequiredInputProperties(e, g)
      BY <1>1 DEF RequiredInputProperties
    <2>3. DemandsOf(e, g, required, "pushdown")[1]
            = [required EXCEPT !.format = required.format, !.sort = required.sort]
      BY <2>1, <2>2 DEF DemandsOf, PushedRequirements, Properties
    <2> QED
      BY <2>3 DEF Properties
  <1> QED
    BY <1>2, <1>3

-----------------------------------------------------------------------------
(* A table whose entries serve what they are filed under, but where a      *)
(* group has no rows: there, a free enforcement may be one that was needed.*)
TableServes(m, ws) ==
  \A g \in 1..Len(m) : \A i \in 1..Len(ws[g]) :
    m[g].rows # 0 => Serves(ws[g][i].provided, ws[g][i].required)

(* What an answered question's answer is. *)
LEMMA WinnerFound ==
  ASSUME NEW ws, NEW g, ws[g] \in Seq(Entries), NEW r, Answered(ws[g], r)
  PROVE  \E i \in 1..Len(ws[g]) : /\ WinnerIn(ws, g, r) = ws[g][i]
                                  /\ SameRequirement(ws[g][i].required, r)
                                  /\ ws[g][i] \in Entries
  <1> DEFINE i == CHOOSE k \in DOMAIN ws[g] : SameRequirement(ws[g][k].required, r)
  <1>1. i \in DOMAIN ws[g] /\ SameRequirement(ws[g][i].required, r)
    BY DEF Answered
  <1>2. i \in 1..Len(ws[g]) /\ ws[g][i] \in Entries
    <2> HIDE DEF i
    <2>1. DOMAIN ws[g] = 1..Len(ws[g])
      OBVIOUS
    <2> QED
      BY <1>1, <2>1
  <1>3. WinnerIn(ws, g, r) = ws[g][i]
    BY DEF WinnerIn
  <1> HIDE DEF i
  <1> QED
    BY <1>1, <1>2, <1>3

(* An answer that was found, the answers it rests on, and their types.     *)
Typed(m, ws, g, p) ==
  LET e   == m[g].exprs[p.expr]
      ins == InsIn(ws, e, p.inputRequired)
  IN  /\ m[g] \in Groups /\ m[g].rows \in Nat /\ e \in GroupExprs
      /\ Len(e.inputs) = Arity(e.op) /\ Len(p.inputRequired) = Arity(e.op)
      /\ \A k \in 1..Len(e.inputs) :
           /\ e.inputs[k] \in 1..Len(m)
           /\ Answered(ws[e.inputs[k]], p.inputRequired[k])
           /\ WinnerIn(ws, e.inputs[k], p.inputRequired[k]) \in Entries
           /\ ins[k] = WinnerIn(ws, e.inputs[k], p.inputRequired[k]).provided
      /\ ins \in Seq(Properties) /\ Len(ins) = Arity(e.op)
      /\ GivenIn(m, ws, g, p) = DeriveOp(e, m[g], ins)
      /\ GivenIn(m, ws, g, p) \in Properties

(* What a plan's inputs were recorded to provide, and it over them. *)
LEMMA GivenType ==
  ASSUME NEW m \in Memos, NEW ws \in [1..Len(m) -> Seq(Entries)],
         NEW g \in 1..Len(m), NEW p, PlanOK(m, ws, g, p)
  PROVE  Typed(m, ws, g, p)
  <1> DEFINE e   == m[g].exprs[p.expr]
             ins == InsIn(ws, e, p.inputRequired)
  <1>1. /\ m[g] \in Groups /\ m[g].rows \in Nat /\ e \in GroupExprs
        /\ Len(e.inputs) = Arity(e.op) /\ Len(m) \in Nat
        /\ DOMAIN e.inputs = 1..Len(e.inputs) /\ Len(e.inputs) \in Nat
        /\ \A k \in 1..Len(e.inputs) : e.inputs[k] \in 1..(g - 1)
        /\ Len(p.inputRequired) = Arity(e.op)
        /\ \A k \in 1..Len(e.inputs) : Answered(ws[e.inputs[k]], p.inputRequired[k])
    BY MemoType DEF PlanOK
  <1>2. \A k \in 1..Len(e.inputs) : e.inputs[k] \in 1..Len(m)
    <2> HIDE DEF e
    <2> QED
      BY <1>1
  <1>3. \A k \in 1..Len(e.inputs) : WinnerIn(ws, e.inputs[k], p.inputRequired[k]) \in Entries
    <2> HIDE DEF e
    <2> TAKE k \in 1..Len(e.inputs)
    <2>1. /\ ws[e.inputs[k]] \in Seq(Entries)
          /\ Answered(ws[e.inputs[k]], p.inputRequired[k])
      BY <1>1, <1>2
    <2> DEFINE h == e.inputs[k]
               q == p.inputRequired[k]
    <2> HIDE DEF h, q
    <2>2. PICK i \in 1..Len(ws[h]) : WinnerIn(ws, h, q) = ws[h][i] /\ ws[h][i] \in Entries
      BY <2>1, WinnerFound DEF h, q
    <2> QED
      BY <2>2 DEF h, q
  <1>4. ins = [k \in 1..Len(e.inputs) |->
                 WinnerIn(ws, e.inputs[k], p.inputRequired[k]).provided]
    BY <1>1 DEF InsIn
  <1>5. GivenIn(m, ws, g, p) = DeriveOp(e, m[g], ins)
    BY DEF GivenIn
  <1> HIDE DEF e, ins
  <1>6. ins \in Seq(Properties) /\ Len(ins) = Arity(e.op)
    <2>1. \A w \in Entries : w.provided \in Properties
      BY DEF Entries
    <2>2. \A k \in 1..Len(e.inputs) :
            WinnerIn(ws, e.inputs[k], p.inputRequired[k]).provided \in Properties
      BY <1>3, <2>1
    <2> QED
      BY <1>1, <1>4, <2>2
  <1>7. GivenIn(m, ws, g, p) \in Properties
    BY <1>1, <1>5, <1>6, DeriveOpType
  <1> QED
    BY <1>1, <1>2, <1>3, <1>4, <1>5, <1>6, <1>7 DEF Typed, e, ins

(* A plan found over a table that serves, serves. *)
LEMMA PricedServes ==
  ASSUME EnforcersCost, NEW m \in Memos, EmptyStaysEmpty(m),
         NEW ws \in [1..Len(m) -> Seq(Entries)], TableServes(m, ws),
         NEW g \in 1..Len(m), NEW required \in Properties, NEW p,
         PlanOK(m, ws, g, p), Priced(m, ws, g, required, p), m[g].rows # 0
  PROVE  Serves(p.provided, required)
  <1> DEFINE e   == m[g].exprs[p.expr]
             ins == InsIn(ws, e, p.inputRequired)
  <1>1. PICK stage \in {"enforce", "pushdown"} : Found(m, ws, g, required, p, stage)
    BY DEF Priced
  <1>0. Typed(m, ws, g, p)
    BY GivenType
  <1>2. /\ m[g] \in Groups /\ m[g].rows \in Nat \ {0} /\ e \in GroupExprs
        /\ Len(e.inputs) = Arity(e.op)
        /\ \A k \in 1..Len(e.inputs) : /\ e.inputs[k] \in 1..Len(m)
                                       /\ Answered(ws[e.inputs[k]], p.inputRequired[k])
    BY <1>0 DEF Typed
  <1>3. \A k \in 1..Len(e.inputs) : e.inputs[k] \in 1..Len(m)
    BY <1>2
  <1>4. /\ ins \in Seq(Properties) /\ Len(ins) = Arity(e.op)
        /\ \A k \in 1..Len(e.inputs) :
             ins[k] = WinnerIn(ws, e.inputs[k], p.inputRequired[k]).provided
    BY <1>0 DEF Typed
  <1>5. GivenIn(m, ws, g, p) = DeriveOp(e, m[g], ins)
    BY DEF GivenIn
  <1> HIDE DEF e, ins
  <1>6. GivenIn(m, ws, g, p) \in Properties
    BY <1>0 DEF Typed
  <1> DEFINE given == GivenIn(m, ws, g, p)
             top   == EnforcementCost(given, required, m[g].rows)
  <1>7. top # Infinity
    BY <1>1 DEF Found, TopIn
  <1>8. CASE stage = "enforce"
    <2>1. p.provided = IF top # 0 THEN Upgraded(given, required) ELSE given
      BY <1>1, <1>8 DEF Found, TopIn
    <2>2. CASE top # 0
      BY <1>2, <1>6, <1>7, <2>1, <2>2, UpgradedServes
    <2>3. CASE top = 0
      BY <1>2, <1>6, <2>1, <2>3, FreeEnforcement DEF Serves
    <2> QED
      BY <2>2, <2>3
  <1>9. CASE stage = "pushdown"
    <2>1. /\ p.provided = given /\ CanPushDown(e.op)
          /\ p.inputRequired = DemandsOf(e, m[g], required, "pushdown")
      BY <1>1, <1>9 DEF Found, e
    <2>2. /\ p.inputRequired[1] = required
          /\ given.sort = ins[1].sort /\ given.format = ins[1].format
          /\ given.freshness = ins[1].freshness
      BY <1>2, <1>4, <1>5, <2>1, PushedDown
    <2>3. 1 \in 1..Len(e.inputs)
      BY <1>2, <2>1 DEF CanPushDown, Arity, Leaves, Binary, Joins, SemiJoins, SetOperators
    <2>4. PICK i \in 1..Len(ws[e.inputs[1]]) :
            /\ WinnerIn(ws, e.inputs[1], required) = ws[e.inputs[1]][i]
            /\ SameRequirement(ws[e.inputs[1]][i].required, required)
      BY <1>2, <1>3, <2>2, <2>3, WinnerFound
    <2>5. ins[1] = ws[e.inputs[1]][i].provided
      BY <1>4, <2>2, <2>3, <2>4
    <2>6. m[e.inputs[1]].rows # 0
      BY <1>2, <2>1 DEF EmptyStaysEmpty, PlanOK, CanPushDown, e
    <2>7. Serves(ins[1], ws[e.inputs[1]][i].required)
      BY <1>3, <2>3, <2>5, <2>6 DEF TableServes
    <2> QED
      BY <2>1, <2>2, <2>4, <2>7
      DEF Serves, SameRequirement, FreshEnough, FormatSatisfies
  <1> QED
    BY <1>8, <1>9

LEMMA EmptyServes == Init => TableServes(memo, winners)
  <1> SUFFICES ASSUME Init PROVE TableServes(memo, winners)
    OBVIOUS
  <1>1. \A g \in 1..Len(memo) : 1..Len(winners[g]) = {}
    BY DEF Init
  <1> QED
    BY <1>1 DEF TableServes

LEMMA ServesStep ==
  ASSUME EnforcersCost, \A m \in Memos : EmptyStaysEmpty(m)
  PROVE  IInv /\ CostsInv /\ TableServes(memo, winners) /\ [Next]_vars
           => TableServes(memo, winners)'
  <1> SUFFICES ASSUME IInv, CostsInv, TableServes(memo, winners), [Next]_vars
               PROVE  TableServes(memo, winners)'
    OBVIOUS
  <1>1. CASE UNCHANGED <<memo, winners>>
    BY <1>1 DEF TableServes
  <1>2. CASE SettleGoal
    <2>1. Searching /\ memo' = memo /\ Top.best.expr # 0 /\ memo \in Memos
      BY <1>2 DEF SettleGoal, Exhausted, Choosing, IInv, TypeOK
    <2>2. /\ Top \in Goals /\ GoalOK(memo, prune, winners, Top)
          /\ GoalPriced(memo, winners, Top)
      BY <2>1, TopFacts, TopIsPriced
    <2>3. Top.group \in 1..Len(memo) /\ Top.required \in Properties
      BY <2>2 DEF GoalOK, Goals
    <2>4. memo[Top.group].rows # 0 => Serves(SettledEntry.provided, Top.required)
      <3>1. /\ PlanOK(memo, winners, Top.group, Top.best)
            /\ Priced(memo, winners, Top.group, Top.required, Top.best)
        BY <2>1, <2>2 DEF GoalOK, GoalPriced
      <3>2. SettledEntry.provided = Top.best.provided
        BY DEF SettledEntry
      <3>3. winners \in [1..Len(memo) -> Seq(Entries)]
        BY DEF IInv, TypeOK
      <3> QED
        BY <2>1, <2>3, <3>1, <3>2, <3>3, PricedServes
    <2>5. winners' \in [1..Len(memo) -> Seq(Entries)]
      BY <1>2, SettleKeepsAnswers
    <2> SUFFICES ASSUME NEW g \in 1..Len(memo), NEW i \in 1..Len(winners'[g]),
                        memo[g].rows # 0
                 PROVE  Serves(winners'[g][i].provided, winners'[g][i].required)
      BY <2>1 DEF TableServes
    <2>6. CASE i \in 1..Len(winners[g])
      BY <1>2, <2>6, SettleKeepsAnswers DEF TableServes
    <2>7. CASE i \notin 1..Len(winners[g])
      <3>1. g = Top.group
        BY <1>2, <2>7, SettleKeepsAnswers
      <3>2. /\ winners'[g] = Append(winners[g], SettledEntry) /\ winners[g] \in Seq(Entries)
            /\ SettledEntry.required = Top.required
        BY <1>2, <3>1, SettleAppends DEF IInv, TypeOK
      <3>3. winners'[g][i] = SettledEntry
        BY <2>7, <3>2
      <3> QED
        BY <2>4, <3>1, <3>2, <3>3
    <2> QED
      BY <2>6, <2>7
  <1> QED
    BY <1>1, <1>2 DEF Next, vars, PruneCandidate, StartCandidate, OpenGoal, AcceptInput,
                      RejectInput, FinishRoute, FailGoal

(* Every winner serves the goal it is filed under, wherever its group has  *)
(* rows: whatever route found it, its order, format and freshness are      *)
(* those of its operator, of an input that was asked for them, or of the   *)
(* enforcers it was charged for.  It takes a profile in which no enforcer  *)
(* is free, and estimates that make no rows of none.                       *)
THEOREM WinnersServe ==
  ASSUME EnforcersCost, \A m \in Memos : EmptyStaysEmpty(m)
  PROVE  Spec => []WinnersServeTheirGoal
  <1>1. Init => TableServes(memo, winners)
    BY EmptyServes
  <1>2. IInv /\ CostsInv /\ TableServes(memo, winners) /\ [Next]_vars
          => TableServes(memo, winners)'
    BY ServesStep
  <1>3. IInv /\ TableServes(memo, winners) => WinnersServeTheirGoal
    <2> SUFFICES ASSUME IInv, TableServes(memo, winners),
                        NEW g \in DOMAIN winners, NEW i \in DOMAIN winners[g],
                        memo[g].rows # 0
                 PROVE  Satisfies([winners[g][i].provided EXCEPT
                                     !.dist = winners[g][i].required.dist],
                                  winners[g][i].required)
      BY DEF WinnersServeTheirGoal
    <2>1. /\ g \in 1..Len(memo) /\ winners[g] \in Seq(Entries)
      BY DEF IInv, TypeOK
    <2>2. i \in 1..Len(winners[g]) /\ winners[g][i] \in Entries
      BY <2>1
    <2>3. winners[g][i].provided \in Properties /\ winners[g][i].required \in Properties
      BY <2>2 DEF Entries
    <2> QED
      BY <2>1, <2>2, <2>3, ServesIsSatisfies DEF TableServes
  <1> QED
    BY <1>1, <1>2, <1>3, CostsInvariance, PTL DEF Spec

=============================================================================
