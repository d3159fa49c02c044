-------------------------- MODULE AnswerTable_proofs ---------------------------
(***************************************************************************)
(* The search implements the table of answers, for every memo, requirement,*)
(* calibration and switch setting: whatever the recursion does, each of its*)
(* steps adds one acceptable answer to the table, gives the root's question*)
(* up, or changes nothing the table shows.                                 *)
(*                                                                         *)
(* What takes an invariant is that an exhaustive search never settles for a*)
(* dearer answer than the table has the inputs for.  A route is tried once,*)
(* against the table of that moment, and the table goes on growing until   *)
(* the goal is settled: a route that was given up for want of an answer    *)
(* might by then have it.  It never does: a question that was given up     *)
(* belongs to a set of hopeless ones, each of which could be answered only *)
(* over an answer to another.                                              *)
(***************************************************************************)
EXTENDS Planner, PlanSearch_proofs

Exhaustive == ~prune /\ ~greedy

(* What a goal that waits is waiting for.                                  *)
QuestionOf(m, f) ==
  LET e == m[f.group].exprs[f.cand]
  IN  <<e.inputs[f.next], DemandsOf(e, m[f.group], f.required, f.stage)[f.next]>>

(* Goals know where they come from: the first is the root's, and each of   *)

(* the others is the question the one before it waits for.                 *)
GoalsLinked ==
  /\ stack # <<>> => stack[1].group = Root /\ stack[1].required = request.required
  /\ \A j \in 1..Len(stack) :
       j > 1 => <<stack[j].group, stack[j].required>> = QuestionOf(memo, stack[j - 1])
-----------------------------------------------------------------------------
(* Routes, weighed against what has been found.                            *)

StagesOf(e) == {stage \in {"enforce", "pushdown"} : stage = "pushdown" => CanPushDown(e.op)}

AllAnswered(ws, e, reqs) ==
  \A k \in 1..Len(e.inputs) : Answered(ws[e.inputs[k]], reqs[k])

PriceIn(m, ws, g, r, e, reqs) ==
  Plus(SpentIn(ws, e, reqs, Len(e.inputs)) + OwnIn(m, e, m[g]),
       EnforcementCost(DeriveOp(e, m[g], InsIn(ws, e, reqs)), r, m[g].rows))

(* It asks for something hopeless, or it has been answered and costs no    *)

(* less than `cost'.  What costs no less than Infinity is no answer at all.*)
Weighed(m, ws, hopeless, g, r, e, reqs, cost) ==
  \/ \E k \in 1..Len(e.inputs) : <<e.inputs[k], reqs[k]>> \in hopeless
  \/ AllAnswered(ws, e, reqs) /\ ~Less(PriceIn(m, ws, g, r, e, reqs), cost)

WeighedAt(m, ws, hopeless, g, r, i, stage, cost) ==
  Weighed(m, ws, hopeless, g, r, m[g].exprs[i],
          DemandsOf(m[g].exprs[i], m[g], r, stage), cost)

(* Questions, as groups with requirements, that have no answers and will   *)

(* not get any: every route to an answer of one asks another of them, or   *)
(* is answered and of no use.                                              *)
HopelessIn(m, ws, hopeless) ==
  /\ hopeless \subseteq (1..Len(m)) \X Properties
  /\ \A g \in 1..Len(m), r \in Properties : <<g, r>> \in hopeless =>
       /\ ~Answered(ws[g], r)
       /\ \A q \in Properties : SameRequirement(r, q) => <<g, q>> \in hopeless
       /\ \A i \in 1..Len(m[g].exprs) : \A stage \in StagesOf(m[g].exprs[i]) :
            WeighedAt(m, ws, hopeless, g, r, i, stage, Infinity)

(* An open goal is past this route.                                        *)
Tried(f, i, stage) ==
  i < f.cand \/ (i = f.cand /\ stage = "enforce" /\ f.stage = "pushdown")

(* Its best plan so far is the best of all it has tried.                   *)
GoalWeighed(m, ws, hopeless, f) ==
  /\ f.best.expr = 0 => f.best.cost = Infinity
  /\ \A i \in 1..Len(m[f.group].exprs) : \A stage \in StagesOf(m[f.group].exprs[i]) :
       Tried(f, i, stage)
         => WeighedAt(m, ws, hopeless, f.group, f.required, i, stage, f.best.cost)

(* Of what an exhaustive search has given up, nothing will be answered.    *)
NothingMissed(hopeless) ==
  /\ HopelessIn(memo, winners, hopeless)
  /\ \A j \in 1..Len(stack) : GoalWeighed(memo, winners, hopeless, stack[j])

SearchWeighed == Exhaustive => \E hopeless : NothingMissed(hopeless)

SimInv == IInv /\ CostsInv /\ GoalsLinked /\ SearchWeighed
-----------------------------------------------------------------------------
(* The questions of open goals.                                            *)

LEMMA InitLinked == Init => GoalsLinked
  <1> SUFFICES ASSUME Init PROVE GoalsLinked
    OBVIOUS
  <1>1. Len(stack) = 1 /\ stack[1] = NewGoal(Len(memo), request.required, Infinity)
    BY DEF Init
  <1>2. stack[1].group = Root /\ stack[1].required = request.required
    BY <1>1 DEF NewGoal, Root
  <1> QED
    BY <1>1, <1>2 DEF GoalsLinked

LEMMA AsksItsQuestion ==
  ASSUME NEW f
  PROVE  QuestionOf(memo, f) = <<Input(f), Demand(f)>>
  BY DEF QuestionOf, Input, Demand, Demands, ExprOf, GroupOf

(* A step of the innermost goals that keeps the question of each. *)
ContinuesTo(n) ==
  /\ n \in Nat /\ n <= Len(stack) /\ Len(stack) \in Nat /\ Len(stack') = n
  /\ stack' \in Seq(Goals) /\ stack \in Seq(Goals)
  /\ \A j \in 1..n : /\ stack'[j].group = stack[j].group
                     /\ stack'[j].required = stack[j].required
                     /\ j < n => stack'[j] = stack[j]

LEMMA LinkedStep ==
  ASSUME GoalsLinked, NEW n, ContinuesTo(n), UNCHANGED <<memo, request>>
  PROVE  GoalsLinked'
  <1>1. /\ n \in Nat /\ n <= Len(stack) /\ Len(stack) \in Nat /\ Len(stack') = n
        /\ stack' \in Seq(Goals) /\ stack \in Seq(Goals)
        /\ \A j \in 1..n : /\ stack'[j].group = stack[j].group
                           /\ stack'[j].required = stack[j].required
                           /\ j < n => stack'[j] = stack[j]
    BY DEF ContinuesTo
  <1>2. ASSUME stack' # <<>>
        PROVE  stack'[1].group = Root' /\ stack'[1].required = request'.required
    <2>1. n # 0
      BY <1>1, <1>2
    <2>2. 1 \in 1..n /\ stack # <<>>
      BY <1>1, <2>1
    <2> QED
      BY <1>1, <2>2 DEF GoalsLinked, Root
  <1>3. ASSUME NEW j \in 1..n, j > 1
        PROVE  <<stack'[j].group, stack'[j].required>> = QuestionOf(memo, stack'[j - 1])
    <2>1. j - 1 \in 1..n /\ j - 1 < n /\ j \in 1..Len(stack)
      BY <1>1, <1>3
    <2>2. stack'[j - 1] = stack[j - 1]
      BY <1>1, <2>1
    <2>3. stack'[j].group = stack[j].group /\ stack'[j].required = stack[j].required
      BY <1>1
    <2> QED
      BY <1>3, <2>1, <2>2, <2>3 DEF GoalsLinked
  <1>4. 1..Len(stack') = 1..n /\ memo' = memo
    BY <1>1
  <1> QED
    BY <1>2, <1>3, <1>4 DEF GoalsLinked

(* Where a goal goes, and what it keeps. *)

LEMMA EnteredRoute ==
  ASSUME NEW f \in Goals, NEW stage
  PROVE  LET h == EnterRoute(f, stage)
         IN  /\ h.group = f.group /\ h.required = f.required /\ h.best = f.best
             /\ h.cand = f.cand /\ h.stage = stage /\ h.bound = f.bound
  BY DEF EnterRoute, Goals

LEMMA NextedCandidate ==
  ASSUME NEW f \in Goals
  PROVE  LET h == NextCandidate(f)
         IN  /\ h.group = f.group /\ h.required = f.required /\ h.best = f.best
             /\ h.cand = f.cand + 1 /\ h.stage = "choose"
  <1> DEFINE h == EnterRoute(f, "choose")
  <1>1. /\ h \in Goals /\ h.group = f.group /\ h.required = f.required
        /\ h.best = f.best /\ h.cand = f.cand /\ h.stage = "choose"
    <2>1. <<>> \in Seq(Properties)
      OBVIOUS
    <2> QED
      BY <2>1 DEF EnterRoute, Goals
  <1> HIDE DEF h
  <1>2. NextCandidate(f) = [h EXCEPT !.cand = h.cand + 1]
    BY DEF NextCandidate, h
  <1> QED
    BY <1>1, <1>2 DEF Goals

LEMMA LeftRoute ==
  ASSUME NEW f \in Goals
  PROVE  LET h == AfterRoute(f)
         IN  /\ h.group = f.group /\ h.required = f.required /\ h.best = f.best
             /\ \/ /\ f.stage = "enforce" /\ h.stage = "pushdown" /\ h.cand = f.cand
                \/ /\ h.stage = "choose" /\ h.cand = f.cand + 1
                   /\ f.stage = "enforce" => greedy \/ ~CanPushDown(ExprOf(f).op)
  <1>1. CASE f.stage = "enforce" /\ ~greedy /\ CanPushDown(ExprOf(f).op)
    <2>1. AfterRoute(f) = EnterRoute(f, "pushdown")
      BY <1>1 DEF AfterRoute
    <2> QED
      BY <1>1, <2>1, EnteredRoute
  <1>2. CASE ~(f.stage = "enforce" /\ ~greedy /\ CanPushDown(ExprOf(f).op))
    <2>1. AfterRoute(f) = NextCandidate(f)
      BY <1>2 DEF AfterRoute
    <2> QED
      BY <1>2, <2>1, NextedCandidate
  <1> QED
    BY <1>1, <1>2

(* What each action makes of the innermost goal. *)

LEMMA TopBecomes ==
  ASSUME IInv, Next, ~OpenGoal, ~SettleGoal, ~FailGoal
  PROVE  \E f : /\ Searching /\ stack' = SetTop(f)
               /\ f.group = Top.group /\ f.required = Top.required
               /\ UNCHANGED <<memo, request, winners>>
  <1>1. CASE PruneCandidate
    <2>1. Searching /\ stack' = SetTop(NextCandidate(Top))
          /\ UNCHANGED <<memo, request, winners>>
      BY <1>1 DEF PruneCandidate, Candidate, Choosing
    <2> QED
      BY <2>1, TopFacts, NextedCandidate
  <1>2. CASE StartCandidate
    <2> DEFINE f == [Top EXCEPT !.bound = BoundOf(Top)]
    <2>1. Searching /\ stack' = SetTop(EnterRoute(f, "enforce"))
          /\ UNCHANGED <<memo, request, winners>>
      BY <1>2 DEF StartCandidate, Candidate, Choosing
    <2>2. Top \in Goals /\ BoundOf(Top) \in Costs
      BY <2>1, TopFacts, BoundType
    <2>3. f \in Goals /\ f.group = Top.group /\ f.required = Top.required
      BY <2>2 DEF Goals
    <2> HIDE DEF f
    <2> QED
      BY <2>1, <2>3, EnteredRoute
  <1>3. CASE AcceptInput
    <2> DEFINE f == [Top EXCEPT !.spent = SpentWithIt, !.next = @ + 1,
                                !.ins = Append(@, Answer.provided)]
    <2>1. Searching /\ stack' = SetTop(f) /\ UNCHANGED <<memo, request, winners>>
      BY <1>3 DEF AcceptInput, AwaitsInput
    <2>2. f.group = Top.group /\ f.required = Top.required
      BY <2>1, TopFacts DEF Goals
    <2> QED
      BY <2>1, <2>2
  <1>4. CASE RejectInput
    <2>1. Searching /\ stack' = SetTop(AfterRoute(Top)) /\ UNCHANGED <<memo, request, winners>>
      BY <1>4 DEF RejectInput, AwaitsInput
    <2> QED
      BY <2>1, TopFacts, LeftRoute
  <1>5. CASE FinishRoute
    <2> DEFINE better == [Top EXCEPT !.best = RouteResult(Top)]
               f == IF Less(RouteCost(Top), Top.best.cost) THEN better ELSE Top
    <2>1. /\ Searching /\ InRoute(Top) /\ ~MoreInputs(Top)
          /\ stack' = SetTop(AfterRoute(f)) /\ UNCHANGED <<memo, request, winners>>
      BY <1>5 DEF FinishRoute
    <2>2. Top \in Goals /\ GoalOK(memo, prune, winners, Top)
      BY <2>1, TopFacts
    <2>3. Less(RouteCost(Top), Top.best.cost) => RouteResult(Top) \in Bests
      BY <2>1, <2>2, RouteResultOK DEF IInv, Less
    <2>4. f \in Goals /\ f.group = Top.group /\ f.required = Top.required
      BY <2>2, <2>3 DEF Goals
    <2> HIDE DEF f
    <2> QED
      BY <2>1, <2>4, LeftRoute
  <1> QED
    BY <1>1, <1>2, <1>3, <1>4, <1>5 DEF Next

(* What is left of the stack when its innermost goal is gone. *)

LEMMA PoppedGoals ==
  ASSUME IInv, Searching
  PROVE  /\ Popped \in Seq(Goals) /\ Len(Popped) = Len(stack) - 1
         /\ Len(stack) - 1 \in Nat
         /\ \A j \in 1..(Len(stack) - 1) : Popped[j] = stack[j] /\ j \in 1..Len(stack)
  <1> DEFINE n == Len(stack)
  <1>1. n \in Nat \ {0} /\ stack \in Seq(Goals)
    BY TopFacts
  <1>2. \A j \in 1..n : stack[j] \in Goals
    BY <1>1
  <1> HIDE DEF n
  <1>3. n - 1 \in Nat /\ \A j \in 1..(n - 1) : j \in 1..n /\ stack[j] \in Goals
    BY <1>1, <1>2
  <1>4. /\ SubSeq(stack, 1, n - 1) \in Seq(Goals)
        /\ Len(SubSeq(stack, 1, n - 1)) = IF 1 <= n - 1 THEN (n - 1) - 1 + 1 ELSE 0
        /\ \A i \in 1..((n - 1) - 1 + 1) : SubSeq(stack, 1, n - 1)[i] = stack[1 + i - 1]
    BY <1>1, <1>3, SubSeqProperties
  <1>5. Len(SubSeq(stack, 1, n - 1)) = n - 1
        /\ \A j \in 1..(n - 1) : SubSeq(stack, 1, n - 1)[j] = stack[j]
    BY <1>1, <1>3, <1>4
  <1> QED
    BY <1>3, <1>4, <1>5 DEF Popped, n

LEMMA LinkedSearch == IInv /\ IInv' /\ GoalsLinked /\ [Next]_vars => GoalsLinked'
  <1> SUFFICES ASSUME IInv, IInv', GoalsLinked, [Next]_vars PROVE GoalsLinked'
    OBVIOUS
  <1> DEFINE n == Len(stack)
  <1>1. stack' \in Seq(Goals) /\ stack \in Seq(Goals) /\ n \in Nat
    BY DEF IInv, TypeOK
  <1>2. CASE OpenGoal
    <2> DEFINE f == NewGoal(Input(Top), Demand(Top), InputBudget(Top))
    <2>1. Searching /\ stack' = Append(stack, f) /\ UNCHANGED <<memo, request>>
      BY <1>2 DEF OpenGoal, AwaitsInput
    <2>2. f.group = Input(Top) /\ f.required = Demand(Top)
      BY DEF NewGoal
    <2> HIDE DEF f
    <2>3. n # 0 /\ Top = stack[n]
      BY <2>1, TopFacts
    <2>4. /\ Len(stack') = n + 1 /\ stack'[n + 1] = f
          /\ \A j \in 1..n : stack'[j] = stack[j]
      BY <1>1, <2>1
    <2> HIDE DEF n
    <2>5. stack # <<>> /\ 1 \in 1..n
      BY <1>1, <2>3 DEF n
    <2>6. stack'[1].group = Root /\ stack'[1].required = request.required
      BY <2>4, <2>5 DEF GoalsLinked
    <2>7. ASSUME NEW j \in 1..(n + 1), j > 1
          PROVE  <<stack'[j].group, stack'[j].required>> = QuestionOf(memo, stack'[j - 1])
      <3>1. j - 1 \in 1..n /\ stack'[j - 1] = stack[j - 1]
        BY <1>1, <2>4, <2>7
      <3>2. CASE j = n + 1
        <4>1. stack[j - 1] = Top
          BY <1>1, <2>3, <3>2
        <4> QED
          BY <2>2, <2>4, <3>1, <3>2, <4>1, AsksItsQuestion
      <3>3. CASE j # n + 1
        <4>1. j \in 1..n
          BY <1>1, <3>3
        <4> QED
          BY <2>4, <2>7, <3>1, <4>1 DEF GoalsLinked, n
      <3> QED
        BY <3>2, <3>3
    <2> QED
      BY <2>1, <2>4, <2>6, <2>7 DEF GoalsLinked, Root
  <1>3. CASE SettleGoal
    <2>1. Searching /\ stack' = Popped /\ UNCHANGED <<memo, request>>
      BY <1>3 DEF SettleGoal, Exhausted, Choosing
    <2> QED
      <3> DEFINE k == n - 1
      <3>1. ContinuesTo(k)
        BY <1>1, <2>1, PoppedGoals DEF ContinuesTo
      <3> HIDE DEF k
      <3> QED
        BY <2>1, <3>1, LinkedStep
  <1>4. CASE FailGoal
    <2>1. Searching /\ UNCHANGED <<memo, request>>
      BY <1>4 DEF FailGoal, Exhausted, Choosing
    <2>2. CASE n = 1
      <3>1. stack' = <<>>
        BY <1>4, <2>2 DEF FailGoal
      <3> QED
        BY <3>1 DEF GoalsLinked
    <2>3. CASE n # 1
      <3> DEFINE asker == stack[n - 1]
      <3>1. stack' = [Popped EXCEPT ![n - 1] = AfterRoute(asker)]
        BY <1>4, <2>3 DEF FailGoal
      <3>2. n \in Nat \ {0, 1}
        BY <2>1, <2>3, TopFacts
      <3>3. n - 1 \in 1..n /\ n - 1 \in 1..(n - 1) /\ n - 1 \in Nat /\ n - 1 <= n
        <4> HIDE DEF n
        <4> QED
          BY <3>2
      <3>4. /\ AfterRoute(asker).group = asker.group
            /\ AfterRoute(asker).required = asker.required
        <4>1. asker \in Goals
          BY <1>1, <3>3
        <4> HIDE DEF asker
        <4> QED
          BY <4>1, LeftRoute
      <3>5. /\ Popped \in Seq(Goals) /\ Len(Popped) = n - 1
            /\ \A j \in 1..(n - 1) : Popped[j] = stack[j]
        BY <2>1, PoppedGoals
      <3>6. /\ Len(stack') = n - 1
            /\ \A j \in 1..(n - 1) : /\ stack'[j].group = stack[j].group
                                     /\ stack'[j].required = stack[j].required
                                     /\ j < n - 1 => stack'[j] = stack[j]
        <4> DEFINE k == n - 1
        <4>1. /\ stack' = [Popped EXCEPT ![k] = AfterRoute(asker)]
              /\ Popped \in Seq(Goals) /\ Len(Popped) = k /\ k \in 1..k
          BY <3>1, <3>3, <3>5
        <4> HIDE DEF n, asker, k
        <4>2. /\ Len(stack') = k /\ stack'[k] = AfterRoute(asker)
              /\ \A j \in 1..k : j # k => stack'[j] = Popped[j]
          BY <4>1
        <4>3. \A j \in 1..k : j < k => j # k
          BY <4>1
        <4> QED
          BY <3>4, <3>5, <4>2, <4>3 DEF k, asker
      <3> DEFINE k == n - 1
                 kept(j) == /\ stack'[j].group = stack[j].group
                            /\ stack'[j].required = stack[j].required
                            /\ j < k => stack'[j] = stack[j]
      <3>7. k \in Nat /\ k <= Len(stack) /\ Len(stack') = k /\ \A j \in 1..k : kept(j)
        BY <3>3, <3>6
      <3> HIDE DEF n, asker, k
      <3>8. ContinuesTo(k)
        BY <1>1, <3>7 DEF ContinuesTo, n
      <3>9. UNCHANGED <<memo, request>>
        BY <2>1
      <3> QED
        BY <3>8, <3>9, LinkedStep
    <2> QED
      BY <2>2, <2>3
  <1>5. CASE Next /\ ~OpenGoal /\ ~SettleGoal /\ ~FailGoal
    <2>1. PICK f : /\ Searching /\ stack' = SetTop(f)
                   /\ f.group = Top.group /\ f.required = Top.required
                   /\ UNCHANGED <<memo, request, winners>>
      BY <1>5, TopBecomes
    <2>2. n # 0 /\ Top = stack[n]
      BY <2>1, TopFacts
    <2>3. /\ Len(stack') = n
          /\ \A j \in 1..n : /\ stack'[j].group = stack[j].group
                             /\ stack'[j].required = stack[j].required
                             /\ j < n => stack'[j] = stack[j]
      <3>1. /\ Len(stack') = n /\ stack'[n] = f
            /\ \A j \in 1..n : j # n => stack'[j] = stack[j]
        BY <1>1, <2>1, <2>2 DEF SetTop
      <3>2. \A j \in 1..n : j < n => j # n
        BY <1>1
      <3> QED
        BY <2>1, <2>2, <3>1, <3>2
    <2>4. UNCHANGED <<memo, request>>
      BY <2>1
    <2>5. n <= Len(stack)
      BY <1>1
    <2>6. Len(stack) \in Nat
      BY <1>1
    <2> HIDE DEF n
    <2>7. ContinuesTo(n)
      BY <1>1, <2>3, <2>5, <2>6 DEF ContinuesTo
    <2> QED
      BY <2>7, <2>4, LinkedStep
  <1>6. CASE UNCHANGED vars
    BY <1>6 DEF vars, GoalsLinked, Root
  <1> QED
    BY <1>2, <1>3, <1>4, <1>5, <1>6
-----------------------------------------------------------------------------
(* Routes over a table.                                                    *)

(* A route whose inputs are all answered is a plan with a price, which is  *)

(* infinite just if the route comes to lagging rows and must not.          *)
LEMMA RouteTypes ==
  ASSUME NEW m \in Memos, NEW ws \in [1..Len(m) -> Seq(Entries)], NEW g \in 1..Len(m),
         NEW i \in 1..Len(m[g].exprs), NEW r \in Properties,
         NEW stage \in StagesOf(m[g].exprs[i]), NEW reqs,
         reqs = DemandsOf(m[g].exprs[i], m[g], r, stage),
         AllAnswered(ws, m[g].exprs[i], reqs)
  PROVE  LET e     == m[g].exprs[i]
             given == DeriveOp(e, m[g], InsIn(ws, e, reqs))
         IN  /\ given \in Properties
             /\ SpentIn(ws, e, reqs, Len(e.inputs)) + OwnIn(m, e, m[g]) \in Nat
             /\ PriceIn(m, ws, g, r, e, reqs) \in Costs
             /\ PriceIn(m, ws, g, r, e, reqs) = Infinity <=> ~FreshEnough(given, r)
  <1> DEFINE e     == m[g].exprs[i]
             given == DeriveOp(e, m[g], InsIn(ws, e, reqs))
             p     == [expr |-> i, cost |-> 0, inputRequired |-> reqs]
             spent == SpentIn(ws, e, reqs, Len(e.inputs))
             own   == OwnIn(m, e, m[g])
             top   == EnforcementCost(given, r, m[g].rows)
  <1>1. /\ m[g] \in Groups /\ m[g].rows \in Nat /\ e \in GroupExprs
        /\ Len(e.inputs) = Arity(e.op) /\ own \in Nat
    BY MemoType, OwnCostType
  <1>2. Len(reqs) = Arity(e.op)
    BY <1>1, DemandsType DEF StagesOf
  <1>3. p.expr = i /\ p.cost = 0 /\ p.inputRequired = reqs
    OBVIOUS
  <1> HIDE DEF p
  <1>4. PlanOK(m, ws, g, p)
    BY <1>1, <1>2, <1>3 DEF PlanOK, AllAnswered
  <1>5. Typed(m, ws, g, p)
    BY <1>4, GivenType
  <1>6. given \in Properties
    BY <1>3, <1>5 DEF Typed, GivenIn
  <1>7. \A k \in 1..Len(e.inputs) : WinnerIn(ws, e.inputs[k], reqs[k]) \in Entries
    BY <1>3, <1>5 DEF Typed
  <1>8. spent \in Nat
    <2> DEFINE cost(k) == WinnerIn(ws, e.inputs[k], reqs[k]).cost * InputEvaluations(e.op, k)
    <2>1. ASSUME NEW k \in 1..Len(e.inputs) PROVE cost(k) \in Nat
      <3>1. WinnerIn(ws, e.inputs[k], reqs[k]).cost \in Nat
        BY <1>7 DEF Entries
      <3>2. InputEvaluations(e.op, k) \in Nat
        BY IterationsAssumption DEF InputEvaluations
      <3> QED
        BY <3>1, <3>2, NatTimes
    <2>2. Len(e.inputs) \in {0, 1, 2}
      BY <1>1, ArityType DEF Arity
    <2>3. spent = CASE Len(e.inputs) = 0 -> 0
                    [] Len(e.inputs) = 1 -> cost(1)
                    [] OTHER -> cost(1) + cost(2)
      BY DEF SpentIn
    <2> HIDE DEF spent, cost, e
    <2>4. CASE Len(e.inputs) = 0
      BY <2>3, <2>4
    <2>5. CASE Len(e.inputs) = 1
      <3>1. 1 \in 1..Len(e.inputs)
        BY <2>5
      <3> QED
        BY <2>1, <2>3, <2>5, <3>1
    <2>6. CASE Len(e.inputs) = 2
      <3>1. 1 \in 1..Len(e.inputs) /\ 2 \in 1..Len(e.inputs)
        BY <2>6
      <3>2. cost(1) \in Nat /\ cost(2) \in Nat /\ spent = cost(1) + cost(2)
        BY <2>1, <2>3, <2>6, <3>1
      <3> QED
        BY <3>2
    <2> QED
      BY <2>2, <2>4, <2>5, <2>6
  <1>9. top \in Costs /\ (FreshEnough(given, r) => top \in Nat)
        /\ (~FreshEnough(given, r) => top = Infinity)
    BY <1>1, <1>6, EnforcementCostType DEF EnforcementCost
  <1>10. PriceIn(m, ws, g, r, e, reqs) = Plus(spent + own, top)
    BY DEF PriceIn
  <1> HIDE DEF spent, own, top, given, e
  <1>11. /\ spent + own \in Nat /\ Plus(spent + own, top) \in Costs
         /\ Plus(spent + own, top) = Infinity <=> ~FreshEnough(given, r)
    BY <1>1, <1>8, <1>9 DEF Plus, Costs, Infinity
  <1> QED
    BY <1>6, <1>10, <1>11 DEF spent, own, top, given, e

(* What a table answers, a later one answers alike.                        *)
Keeps(m, ws, vs) ==
  \A h \in 1..Len(m) : \A q :
    Answered(ws[h], q) => Answered(vs[h], q) /\ WinnerIn(vs, h, q) = WinnerIn(ws, h, q)

Agree(ws, vs, e, ps, qs) ==
  \A k \in 1..Len(e.inputs) :
    WinnerIn(ws, e.inputs[k], ps[k]) = WinnerIn(vs, e.inputs[k], qs[k])

LEMMA SameInputs ==
  ASSUME NEW ws, NEW vs, NEW e \in GroupExprs, Len(e.inputs) = Arity(e.op),
         NEW ps, NEW qs, Agree(ws, vs, e, ps, qs)
  PROVE  /\ InsIn(ws, e, ps) = InsIn(vs, e, qs)
         /\ SpentIn(ws, e, ps, Len(e.inputs)) = SpentIn(vs, e, qs, Len(e.inputs))
  <1>1. Len(e.inputs) \in {0, 1, 2} /\ DOMAIN e.inputs = 1..Len(e.inputs)
    <2>1. e.inputs \in Seq(Nat)
      BY DEF GroupExprs
    <2>2. Arity(e.op) \in {0, 1, 2}
      BY DEF Arity
    <2> QED
      BY <2>1, <2>2
  <1>2. InsIn(ws, e, ps) = InsIn(vs, e, qs)
    BY <1>1 DEF InsIn, Agree
  <1>3. SpentIn(ws, e, ps, Len(e.inputs)) = SpentIn(vs, e, qs, Len(e.inputs))
    <2>1. \A k \in 1..Len(e.inputs) :
            WinnerIn(ws, e.inputs[k], ps[k]) = WinnerIn(vs, e.inputs[k], qs[k])
      BY DEF Agree
    <2>2. CASE Len(e.inputs) = 0
      BY <2>2 DEF SpentIn
    <2>3. CASE Len(e.inputs) = 1
      <3>1. 1 \in 1..Len(e.inputs)
        BY <2>3
      <3> QED
        BY <2>1, <2>3, <3>1 DEF SpentIn
    <2>4. CASE Len(e.inputs) = 2
      <3>1. 1 \in 1..Len(e.inputs) /\ 2 \in 1..Len(e.inputs)
        BY <2>4
      <3> QED
        BY <2>1, <2>4, <3>1 DEF SpentIn
    <2> QED
      BY <1>1, <2>2, <2>3, <2>4
  <1> QED
    BY <1>2, <1>3

(* A route that has been weighed stays so while the table grows, ...       *)

LEMMA WeighedKept ==
  ASSUME NEW m \in Memos, NEW ws, NEW vs, Keeps(m, ws, vs),
         NEW hopeless, NEW g \in 1..Len(m), NEW r, NEW i \in 1..Len(m[g].exprs),
         NEW stage, NEW cost, WeighedAt(m, ws, hopeless, g, r, i, stage, cost)
  PROVE  WeighedAt(m, vs, hopeless, g, r, i, stage, cost)
  <1> DEFINE e    == m[g].exprs[i]
             reqs == DemandsOf(e, m[g], r, stage)
  <1>1. \A k \in 1..Len(e.inputs) : e.inputs[k] \in 1..Len(m)
    <2>1. \A k \in 1..Len(e.inputs) : e.inputs[k] \in 1..(g - 1)
      BY MemoType
    <2>2. Len(m) \in Nat
      BY MemoType
    <2> HIDE DEF e
    <2> QED
      BY <2>1, <2>2
  <1>2. CASE \E k \in 1..Len(e.inputs) : <<e.inputs[k], reqs[k]>> \in hopeless
    BY <1>2 DEF WeighedAt, Weighed
  <1>3. CASE AllAnswered(ws, e, reqs) /\ ~Less(PriceIn(m, ws, g, r, e, reqs), cost)
    <2>1. \A k \in 1..Len(e.inputs) :
            /\ Answered(vs[e.inputs[k]], reqs[k])
            /\ WinnerIn(ws, e.inputs[k], reqs[k]) = WinnerIn(vs, e.inputs[k], reqs[k])
      BY <1>1, <1>3 DEF AllAnswered, Keeps
    <2>2. PriceIn(m, ws, g, r, e, reqs) = PriceIn(m, vs, g, r, e, reqs)
      <3>1. e \in GroupExprs /\ Len(e.inputs) = Arity(e.op)
        BY MemoType
      <3> HIDE DEF reqs, e
      <3>2. Agree(ws, vs, e, reqs, reqs)
        BY <2>1 DEF Agree
      <3>3. /\ InsIn(ws, e, reqs) = InsIn(vs, e, reqs)
            /\ SpentIn(ws, e, reqs, Len(e.inputs)) = SpentIn(vs, e, reqs, Len(e.inputs))
        BY <3>1, <3>2, SameInputs
      <3> QED
        BY <3>3 DEF PriceIn
    <2>3. AllAnswered(vs, e, reqs)
      BY <2>1 DEF AllAnswered
    <2> QED
      BY <1>3, <2>2, <2>3 DEF WeighedAt, Weighed
  <1>4. Weighed(m, ws, hopeless, g, r, e, reqs, cost)
    BY DEF WeighedAt
  <1> QED
    BY <1>2, <1>3, <1>4 DEF Weighed

(* ... while more is given up, and while the goal finds better.            *)

LEMMA WeighedMore ==
  ASSUME NEW m, NEW ws, NEW hopeless, NEW g, NEW r, NEW i, NEW stage, NEW cost, NEW more,
         hopeless \subseteq more, WeighedAt(m, ws, hopeless, g, r, i, stage, cost)
  PROVE  WeighedAt(m, ws, more, g, r, i, stage, cost)
  BY DEF WeighedAt, Weighed

LEMMA WeighedBetter ==
  ASSUME NEW m \in Memos, NEW ws \in [1..Len(m) -> Seq(Entries)], NEW hopeless,
         NEW g \in 1..Len(m), NEW r \in Properties, NEW i \in 1..Len(m[g].exprs),
         NEW stage \in StagesOf(m[g].exprs[i]), NEW cost \in Costs, NEW better \in Costs,
         Less(better, cost), WeighedAt(m, ws, hopeless, g, r, i, stage, cost)
  PROVE  WeighedAt(m, ws, hopeless, g, r, i, stage, better)
  <1> DEFINE e     == m[g].exprs[i]
             reqs  == DemandsOf(e, m[g], r, stage)
             price == PriceIn(m, ws, g, r, e, reqs)
  <1>1. CASE AllAnswered(ws, e, reqs) /\ ~Less(price, cost)
    <2>1. price \in Costs
      BY <1>1, RouteTypes
    <2> HIDE DEF price
    <2>2. ~Less(price, better)
      BY <1>1, <2>1 DEF Less, Costs, Infinity
    <2> QED
      BY <1>1, <2>2 DEF WeighedAt, Weighed, price
  <1> QED
    BY <1>1 DEF WeighedAt, Weighed
-----------------------------------------------------------------------------
(* Steps that give nothing up and settle nothing.                          *)

(* Where a goal has tried no more than before, it has missed no more.      *)

LEMMA TriedNoMore ==
  ASSUME NEW m, NEW ws, NEW hopeless, NEW f, NEW h, GoalWeighed(m, ws, hopeless, f),
         h.group = f.group, h.required = f.required, h.best = f.best,
         \A i \in 1..Len(m[f.group].exprs), stage \in {"enforce", "pushdown"} :
           Tried(h, i, stage) => Tried(f, i, stage)
  PROVE  GoalWeighed(m, ws, hopeless, h)
  BY DEF GoalWeighed, StagesOf

(* A goal leaves a route that has been weighed. *)

LEMMA LeavesWeighed ==
  ASSUME NEW ws, NEW hopeless, NEW f \in Goals, ~greedy, InRoute(f),
         GoalWeighed(memo, ws, hopeless, f),
         WeighedAt(memo, ws, hopeless, f.group, f.required, f.cand, f.stage, f.best.cost)
  PROVE  GoalWeighed(memo, ws, hopeless, AfterRoute(f))
  <1> DEFINE h == AfterRoute(f)
  <1>1. /\ h.group = f.group /\ h.required = f.required /\ h.best = f.best
        /\ \/ f.stage = "enforce" /\ h.stage = "pushdown" /\ h.cand = f.cand
           \/ /\ h.stage = "choose" /\ h.cand = f.cand + 1
              /\ f.stage = "enforce" => ~CanPushDown(ExprOf(f).op)
    BY LeftRoute
  <1> HIDE DEF h
  <1>2. ASSUME NEW i \in 1..Len(memo[f.group].exprs),
               NEW stage \in StagesOf(memo[f.group].exprs[i]), Tried(h, i, stage)
        PROVE  Tried(f, i, stage) \/ (i = f.cand /\ stage = f.stage)
    <2>1. stage \in {"enforce", "pushdown"} /\ f.cand \in Nat /\ f.stage \in {"enforce", "pushdown"}
          /\ i \in Nat
      BY DEF StagesOf, Goals, InRoute
    <2>2. CASE h.cand = f.cand
      BY <1>1, <1>2, <2>1, <2>2 DEF Tried
    <2>3. CASE h.cand = f.cand + 1 /\ h.stage = "choose"
      <3>1. i < f.cand \/ i = f.cand
        BY <1>2, <2>1, <2>3 DEF Tried
      <3>2. CASE i = f.cand /\ stage = "pushdown" /\ f.stage = "enforce"
        BY <1>1, <2>1, <2>3, <3>2 DEF StagesOf, ExprOf
      <3> QED
        BY <2>1, <3>1, <3>2 DEF Tried
    <2> QED
      BY <1>1, <2>2, <2>3
  <1>3. ASSUME NEW i \in 1..Len(memo[h.group].exprs),
               NEW stage \in StagesOf(memo[h.group].exprs[i]), Tried(h, i, stage)
        PROVE  WeighedAt(memo, ws, hopeless, h.group, h.required, i, stage, h.best.cost)
    <2>1. i \in 1..Len(memo[f.group].exprs) /\ stage \in StagesOf(memo[f.group].exprs[i])
      BY <1>1
    <2>2. CASE Tried(f, i, stage)
      BY <1>1, <2>1, <2>2 DEF GoalWeighed
    <2> QED
      BY <1>1, <1>2, <1>3, <2>1, <2>2
  <1>4. h.best.expr = 0 => h.best.cost = Infinity
    BY <1>1 DEF GoalWeighed
  <1> QED
    BY <1>3, <1>4 DEF GoalWeighed, h

(* Only the innermost goal has moved. *)

LEMMA TopWeighed ==
  ASSUME IInv, Searching, NEW hopeless, NothingMissed(hopeless),
         NEW f, GoalWeighed(memo, winners, hopeless, f),
         stack' = SetTop(f), UNCHANGED <<memo, winners>>
  PROVE  NothingMissed(hopeless)'
  <1> DEFINE n == Len(stack)
  <1>1. n \in Nat \ {0} /\ stack \in Seq(Goals)
    BY TopFacts
  <1>2. /\ Len(stack') = n /\ stack'[n] = f
        /\ \A j \in 1..n : j # n => stack'[j] = stack[j]
    BY <1>1 DEF SetTop
  <1>3. \A j \in 1..Len(stack') : GoalWeighed(memo, winners, hopeless, stack'[j])
    <2> TAKE j \in 1..Len(stack')
    <2>1. CASE j = n
      BY <1>2, <2>1
    <2>2. CASE j # n
      <3>1. stack'[j] = stack[j] /\ j \in 1..n
        BY <1>2, <2>2
      <3>2. GoalWeighed(memo, winners, hopeless, stack[j])
        BY <3>1 DEF NothingMissed
      <3> QED
        BY <3>1, <3>2
    <2> QED
      BY <2>1, <2>2
  <1> QED
    BY <1>3 DEF NothingMissed

(* An exhaustive search bounds nothing: no candidate is pruned, and no     *)

(* input is too dear.                                                      *)
LEMMA ExhaustivePrunesNothing ==
  ASSUME IInv, Exhaustive
  PROVE  ~PruneCandidate /\ ~RejectInput
  <1>1. ASSUME PruneCandidate PROVE FALSE
    <2>1. /\ Candidate /\ Searching
          /\ ~Less(OwnCost(ExprOf(Top), GroupOf(Top)), BoundOf(Top))
      BY <1>1 DEF PruneCandidate, Candidate, Choosing
    <2>2. OwnCost(ExprOf(Top), GroupOf(Top)) \in Nat
      <3>1. Top \in Goals /\ memo \in Memos /\ GoalOK(memo, prune, winners, Top)
        BY <2>1, TopFacts
      <3>2. Top.cand <= Len(memo[Top.group].exprs)
        BY <2>1 DEF Candidate, GroupOf
      <3> QED
        BY <3>1, <3>2, CandidateFacts
    <2>3. BoundOf(Top) = Infinity
      BY DEF BoundOf, Exhaustive
    <2> QED
      BY <2>1, <2>2, <2>3 DEF Less, Infinity
  <1> QED
    BY <1>1 DEF RejectInput, OverBudget, Exhaustive

LEMMA StartWeighed ==
  ASSUME IInv, NEW hopeless, NothingMissed(hopeless), StartCandidate
  PROVE  NothingMissed(hopeless)'
  <1> DEFINE f == [Top EXCEPT !.bound = BoundOf(Top)]
             h == EnterRoute(f, "enforce")
  <1>1. /\ Searching /\ Top.stage = "choose"
        /\ stack' = SetTop(h) /\ UNCHANGED <<memo, winners>>
    BY DEF StartCandidate, Candidate, Choosing
  <1>2. Top \in Goals /\ BoundOf(Top) \in Costs
    BY <1>1, TopFacts, BoundType
  <1>3. f \in Goals /\ f.group = Top.group /\ f.required = Top.required
        /\ f.best = Top.best /\ f.cand = Top.cand
    BY <1>2 DEF Goals
  <1> HIDE DEF f
  <1>4. /\ h.group = Top.group /\ h.required = Top.required /\ h.best = Top.best
        /\ h.cand = Top.cand /\ h.stage = "enforce"
    BY <1>3, EnteredRoute
  <1> HIDE DEF h
  <1>5. GoalWeighed(memo, winners, hopeless, Top)
    BY <1>1, TopFacts DEF NothingMissed
  <1>6. GoalWeighed(memo, winners, hopeless, h)
    BY <1>4, <1>5, TriedNoMore DEF Tried
  <1> QED
    BY <1>1, <1>6, TopWeighed

LEMMA AcceptWeighed ==
  ASSUME IInv, NEW hopeless, NothingMissed(hopeless), AcceptInput
  PROVE  NothingMissed(hopeless)'
  <1> DEFINE h == [Top EXCEPT !.spent = SpentWithIt, !.next = @ + 1,
                              !.ins = Append(@, Answer.provided)]
  <1>1. Searching /\ stack' = SetTop(h) /\ UNCHANGED <<memo, winners>>
    BY DEF AcceptInput, AwaitsInput
  <1>2. Top \in Goals
    BY <1>1, TopFacts
  <1>3. /\ h.group = Top.group /\ h.required = Top.required /\ h.best = Top.best
        /\ h.cand = Top.cand /\ h.stage = Top.stage
    BY <1>2 DEF Goals
  <1> HIDE DEF h
  <1>4. GoalWeighed(memo, winners, hopeless, Top)
    BY <1>1, TopFacts DEF NothingMissed
  <1>5. GoalWeighed(memo, winners, hopeless, h)
    BY <1>3, <1>4, TriedNoMore DEF Tried
  <1> QED
    BY <1>1, <1>5, TopWeighed

(* A goal that is new has tried nothing. *)

LEMMA NewGoalWeighed ==
  ASSUME NEW m \in Memos, NEW ws, NEW hopeless, NEW g \in 1..Len(m), NEW r, NEW budget
  PROVE  GoalWeighed(m, ws, hopeless, NewGoal(g, r, budget))
  <1> DEFINE f == NewGoal(g, r, budget)
  <1>1. f.group = g /\ f.cand = 1 /\ f.stage = "choose" /\ f.best = NoBest
    BY DEF NewGoal
  <1> HIDE DEF f
  <1>2. f.best.cost = Infinity
    BY <1>1 DEF NoBest
  <1>3. \A i \in 1..Len(m[f.group].exprs) : i \in Nat /\ i >= 1
    BY <1>1, MemoType
  <1>4. \A i \in 1..Len(m[f.group].exprs) : \A stage : ~Tried(f, i, stage)
    BY <1>1, <1>3 DEF Tried
  <1> QED
    BY <1>2, <1>4 DEF GoalWeighed, f

LEMMA OpenWeighed ==
  ASSUME IInv, NEW hopeless, NothingMissed(hopeless), OpenGoal
  PROVE  NothingMissed(hopeless)'
  <1> DEFINE n == Len(stack)
             f == NewGoal(Input(Top), Demand(Top), InputBudget(Top))
  <1>1. Searching /\ AwaitsInput /\ stack' = Append(stack, f) /\ UNCHANGED <<memo, winners>>
    BY DEF OpenGoal, AwaitsInput
  <1>2. n \in Nat \ {0} /\ stack \in Seq(Goals) /\ memo \in Memos
    BY <1>1, TopFacts
  <1>3. GoalWeighed(memo, winners, hopeless, f)
    BY <1>1, <1>2, InputFacts, NewGoalWeighed
  <1> HIDE DEF f
  <1>4. /\ Len(stack') = n + 1 /\ stack'[n + 1] = f
        /\ \A j \in 1..n : stack'[j] = stack[j]
    BY <1>1, <1>2
  <1>5. \A j \in 1..Len(stack') : GoalWeighed(memo, winners, hopeless, stack'[j])
    <2> TAKE j \in 1..Len(stack')
    <2>1. CASE j = n + 1
      BY <1>3, <1>4, <2>1
    <2>2. CASE j # n + 1
      <3>1. j \in 1..n
        BY <1>2, <1>4, <2>2
      <3>2. GoalWeighed(memo, winners, hopeless, stack[j])
        BY <3>1 DEF NothingMissed
      <3> QED
        BY <1>4, <3>1, <3>2
    <2> QED
      BY <2>1, <2>2
  <1> QED
    BY <1>1, <1>5 DEF NothingMissed

(* A finished route is worth what its inputs' answers make it.             *)

LEMMA RoutePrice ==
  ASSUME NEW f \in Goals, TypeOK, GoalOK(memo, prune, winners, f), InRoute(f),
         ~MoreInputs(f), Charged(memo, winners, f)
  PROVE  /\ AllAnswered(winners, ExprOf(f), Demands(f))
         /\ f.stage \in StagesOf(ExprOf(f))
         /\ RouteCost(f) = PriceIn(memo, winners, f.group, f.required, ExprOf(f), Demands(f))
  <1> DEFINE e    == ExprOf(f)
             reqs == Demands(f)
  <1>1. memo \in Memos /\ f.ins \in Seq(Properties)
    BY DEF TypeOK, Goals
  <1>2. /\ f.cand <= Len(memo[f.group].exprs)
        /\ f.next \in 1..(Len(e.inputs) + 1) /\ Len(f.ins) = f.next - 1
        /\ f.stage = "pushdown" => CanPushDown(e.op)
        /\ \A k \in 1..(f.next - 1) : Settled(e.inputs[k], reqs[k])
    BY <1>1, RouteFacts
  <1>3. /\ f.group \in 1..Len(memo) /\ f.cand \in 1..Len(memo[f.group].exprs)
        /\ Len(e.inputs) \in Nat
        /\ OwnIn(memo, e, GroupOf(f)) = OwnCost(e, GroupOf(f))
    BY <1>1, <1>2, CandidateFacts
  <1>4. f.next - 1 = Len(e.inputs) /\ DOMAIN e.inputs = 1..Len(e.inputs)
    <2>1. ~(f.next <= Len(e.inputs))
      BY DEF MoreInputs
    <2>2. DOMAIN e.inputs = 1..Len(e.inputs)
      BY <1>1, <1>3, MemoType DEF ExprOf
    <2> HIDE DEF e
    <2> QED
      BY <1>2, <1>3, <2>1, <2>2
  <1>5. reqs = DemandsOf(e, memo[f.group], f.required, f.stage) /\ memo[f.group] = GroupOf(f)
    BY DEF Demands, GroupOf
  <1>6. /\ \A k \in 1..Len(e.inputs) :
             f.ins[k] = WinnerIn(winners, e.inputs[k], reqs[k]).provided
        /\ f.spent = SpentIn(winners, e, reqs, Len(e.inputs))
    BY <1>4, <1>5 DEF Charged, ExprOf, GroupOf
  <1>7. AllAnswered(winners, e, reqs)
    BY <1>2, <1>4 DEF AllAnswered, Settled
  <1>8. f.stage \in StagesOf(e)
    BY <1>2 DEF StagesOf, InRoute
  <1> HIDE DEF e, reqs
  <1>9. InsIn(winners, e, reqs) = f.ins
    <2>1. f.ins = [k \in 1..Len(f.ins) |-> f.ins[k]] /\ Len(f.ins) = Len(e.inputs)
      BY <1>1, <1>2, <1>4
    <2> QED
      BY <1>4, <1>6, <2>1 DEF InsIn
  <1>10. RouteCost(f) = PriceIn(memo, winners, f.group, f.required, e, reqs)
    BY <1>3, <1>5, <1>6, <1>9 DEF RouteCost, PriceIn, RouteTop, RouteProvides, e
  <1> QED
    BY <1>7, <1>8, <1>10 DEF e, reqs

(* What a goal keeps is no dearer than what it has tried. *)

LEMMA FinishWeighed ==
  ASSUME IInv, CostsInv, ~greedy, NEW hopeless, NothingMissed(hopeless), FinishRoute
  PROVE  NothingMissed(hopeless)'
  <1> DEFINE better == [Top EXCEPT !.best = RouteResult(Top)]
             f == IF Less(RouteCost(Top), Top.best.cost) THEN better ELSE Top
  <1>1. /\ Searching /\ InRoute(Top) /\ ~MoreInputs(Top)
        /\ stack' = SetTop(AfterRoute(f)) /\ UNCHANGED <<memo, winners>>
    BY DEF FinishRoute
  <1>2. /\ Top \in Goals /\ memo \in Memos /\ GoalOK(memo, prune, winners, Top)
        /\ Charged(memo, winners, Top)
    BY <1>1, TopIsPriced DEF GoalPriced, InRoute
  <1>3. GoalWeighed(memo, winners, hopeless, Top)
    BY <1>1, TopFacts DEF NothingMissed
  <1>4. /\ Top.group \in 1..Len(memo) /\ Top.required \in Properties /\ Top.best.cost \in Costs
        /\ winners \in [1..Len(memo) -> Seq(Entries)] /\ TypeOK
        /\ Top.cand \in 1..Len(memo[Top.group].exprs)
    <2>1. Top.cand <= Len(memo[Top.group].exprs)
      BY <1>1, <1>2, RouteFacts
    <2> QED
      BY <1>2, <2>1, CandidateFacts DEF Goals, Bests, IInv, TypeOK
  <1>5. /\ AllAnswered(winners, ExprOf(Top), Demands(Top))
        /\ Top.stage \in StagesOf(ExprOf(Top))
        /\ RouteCost(Top)
             = PriceIn(memo, winners, Top.group, Top.required, ExprOf(Top), Demands(Top))
    BY <1>1, <1>2, <1>4, RoutePrice
  <1>6. RouteCost(Top) \in Costs
    <2> DEFINE reqs == Demands(Top)
    <2>1. reqs = DemandsOf(memo[Top.group].exprs[Top.cand], memo[Top.group], Top.required,
                           Top.stage)
      BY DEF Demands, ExprOf, GroupOf
    <2>2. /\ AllAnswered(winners, memo[Top.group].exprs[Top.cand], reqs)
          /\ Top.stage \in StagesOf(memo[Top.group].exprs[Top.cand])
          /\ RouteCost(Top) = PriceIn(memo, winners, Top.group, Top.required,
                                      memo[Top.group].exprs[Top.cand], reqs)
      BY <1>5 DEF ExprOf
    <2> DEFINE g == Top.group
               i == Top.cand
               r == Top.required
               stage == Top.stage
    <2>3. /\ g \in 1..Len(memo) /\ i \in 1..Len(memo[g].exprs) /\ r \in Properties
          /\ stage \in StagesOf(memo[g].exprs[i])
          /\ reqs = DemandsOf(memo[g].exprs[i], memo[g], r, stage)
          /\ AllAnswered(winners, memo[g].exprs[i], reqs)
          /\ RouteCost(Top) = PriceIn(memo, winners, g, r, memo[g].exprs[i], reqs)
      BY <1>4, <2>1, <2>2
    <2> HIDE DEF reqs, g, i, r, stage
    <2>4. PriceIn(memo, winners, g, r, memo[g].exprs[i], reqs) \in Costs
      BY <1>2, <1>4, <2>3, RouteTypes
    <2> QED
      BY <2>3, <2>4
  <1>7. \A cost : ~Less(RouteCost(Top), cost) =>
          WeighedAt(memo, winners, hopeless, Top.group, Top.required, Top.cand, Top.stage, cost)
    BY <1>5 DEF WeighedAt, Weighed, ExprOf, Demands, GroupOf
  <1>8. CASE Less(RouteCost(Top), Top.best.cost)
    <2>1. RouteResult(Top) \in Bests /\ RouteResult(Top).expr = Top.cand
          /\ RouteResult(Top).cost = RouteCost(Top)
      <3>1. RouteCost(Top) # Infinity
        BY <1>8 DEF Less
      <3> QED
        BY <1>1, <1>2, <1>4, <3>1, RouteResultOK DEF RouteResult
    <2>2. /\ better \in Goals /\ better.group = Top.group /\ better.required = Top.required
          /\ better.cand = Top.cand /\ better.stage = Top.stage
          /\ better.best.expr = Top.cand /\ better.best.cost = RouteCost(Top)
      BY <1>2, <2>1 DEF Goals
    <2> HIDE DEF better
    <2>3. ASSUME NEW i \in 1..Len(memo[Top.group].exprs),
                 NEW stage \in StagesOf(memo[Top.group].exprs[i]), Tried(better, i, stage)
          PROVE  WeighedAt(memo, winners, hopeless, Top.group, Top.required, i, stage,
                           RouteCost(Top))
      <3>1. Tried(Top, i, stage)
        BY <2>2, <2>3 DEF Tried
      <3>2. WeighedAt(memo, winners, hopeless, Top.group, Top.required, i, stage,
                      Top.best.cost)
        BY <1>3, <3>1 DEF GoalWeighed
      <3> QED
        BY <1>2, <1>4, <1>6, <1>8, <3>2, WeighedBetter
    <2>4. GoalWeighed(memo, winners, hopeless, better)
      <3>1. better.best.expr # 0
        BY <1>4, <2>2
      <3> QED
        BY <2>2, <2>3, <3>1 DEF GoalWeighed
    <2>5. WeighedAt(memo, winners, hopeless, better.group, better.required, better.cand,
                    better.stage, better.best.cost)
      <3>1. ~Less(RouteCost(Top), RouteCost(Top))
        BY <1>6 DEF Less, Costs, Infinity
      <3> QED
        BY <1>7, <2>2, <3>1
    <2>6. InRoute(better)
      BY <1>1, <2>2 DEF InRoute
    <2>7. GoalWeighed(memo, winners, hopeless, AfterRoute(better))
      BY <2>2, <2>4, <2>5, <2>6, LeavesWeighed
    <2> QED
      BY <1>1, <1>8, <2>7, TopWeighed
  <1>9. CASE ~Less(RouteCost(Top), Top.best.cost)
    <2>1. GoalWeighed(memo, winners, hopeless, AfterRoute(Top))
      BY <1>1, <1>2, <1>3, <1>7, <1>9, LeavesWeighed
    <2> QED
      BY <1>1, <1>9, <2>1, TopWeighed
  <1> QED
    BY <1>8, <1>9
-----------------------------------------------------------------------------
(* The step that adds to the table.                                        *)

LEMMA SettleKeeps ==
  ASSUME IInv, OneAnswerEach, SettleGoal
  PROVE  Keeps(memo, winners, winners')
  <1> DEFINE vs == winners'
  <1> SUFFICES ASSUME NEW h \in 1..Len(memo), NEW q, Answered(winners[h], q)
               PROVE  Answered(vs[h], q) /\ WinnerIn(vs, h, q) = WinnerIn(winners, h, q)
    BY DEF Keeps
  <1> QED
    BY SettleKeepsAnswers, SettleKeepsFinding

(* A question that was given up is never answered after all. *)

LEMMA SettledWasNotHopeless ==
  ASSUME IInv, CostsInv, NEW hopeless, NothingMissed(hopeless), SettleGoal
  PROVE  <<Top.group, Top.required>> \notin hopeless
  <1> SUFFICES ASSUME <<Top.group, Top.required>> \in hopeless PROVE FALSE
    OBVIOUS
  <1> DEFINE g == Top.group
             p == Top.best
             e == memo[g].exprs[p.expr]
  <1>1. Searching /\ p.expr # 0
    BY DEF SettleGoal, Exhausted, Choosing
  <1>2. /\ Top \in Goals /\ memo \in Memos /\ GoalOK(memo, prune, winners, Top)
        /\ GoalPriced(memo, winners, Top)
    BY <1>1, TopIsPriced
  <1>3. /\ g \in 1..Len(memo) /\ Top.required \in Properties
        /\ PlanOK(memo, winners, g, p) /\ Priced(memo, winners, g, Top.required, p)
        /\ winners \in [1..Len(memo) -> Seq(Entries)]
    BY <1>1, <1>2 DEF GoalOK, GoalPriced, Goals, IInv, TypeOK
  <1> HIDE DEF p, g
  <1>4. PICK stage \in {"enforce", "pushdown"} :
          Found(memo, winners, g, Top.required, p, stage)
    BY <1>3 DEF Priced
  <1>5. /\ p.expr \in 1..Len(memo[g].exprs) /\ stage \in StagesOf(e)
        /\ p.inputRequired = DemandsOf(e, memo[g], Top.required, stage)
        /\ Len(e.inputs) = Len(p.inputRequired)
    BY <1>2, <1>3, <1>4, MemoType DEF PlanOK, Found, StagesOf
  <1>6. AllAnswered(winners, e, p.inputRequired)
    BY <1>3, <1>5 DEF PlanOK, AllAnswered
  <1>7. ~ \E k \in 1..Len(e.inputs) : <<e.inputs[k], p.inputRequired[k]>> \in hopeless
    <2> SUFFICES ASSUME NEW k \in 1..Len(e.inputs),
                        <<e.inputs[k], p.inputRequired[k]>> \in hopeless
                 PROVE  FALSE
      OBVIOUS
    <2>1. e.inputs[k] \in 1..Len(memo) /\ p.inputRequired[k] \in Properties
      BY DEF NothingMissed, HopelessIn
    <2>2. ~Answered(winners[e.inputs[k]], p.inputRequired[k])
      BY <2>1 DEF NothingMissed, HopelessIn
    <2> QED
      BY <1>6, <2>2 DEF AllAnswered
  <1>8. WeighedAt(memo, winners, hopeless, g, Top.required, p.expr, stage, Infinity)
    BY <1>3, <1>5 DEF NothingMissed, HopelessIn, g
  <1>9. ~Less(PriceIn(memo, winners, g, Top.required, e, p.inputRequired), Infinity)
    BY <1>5, <1>7, <1>8 DEF WeighedAt, Weighed
  <1>10. /\ TopIn(memo, winners, g, Top.required, p)
              = EnforcementCost(DeriveOp(e, memo[g], InsIn(winners, e, p.inputRequired)),
                                Top.required, memo[g].rows)
         /\ TopIn(memo, winners, g, Top.required, p) # Infinity
    BY <1>4 DEF Found, TopIn, GivenIn
  <1>11. FreshEnough(DeriveOp(e, memo[g], InsIn(winners, e, p.inputRequired)), Top.required)
    BY <1>10 DEF EnforcementCost
  <1>12. /\ PriceIn(memo, winners, g, Top.required, e, p.inputRequired) \in Costs
         /\ PriceIn(memo, winners, g, Top.required, e, p.inputRequired) # Infinity
    BY <1>2, <1>3, <1>5, <1>6, <1>11, RouteTypes
  <1> QED
    BY <1>9, <1>12 DEF Less

LEMMA SettleWeighed ==
  ASSUME IInv, CostsInv, NEW hopeless, NothingMissed(hopeless), SettleGoal
  PROVE  NothingMissed(hopeless)'
  <1> DEFINE vs == winners'
             n  == Len(stack)
  <1>1. /\ Searching /\ stack' = Popped /\ memo' = memo
    BY DEF SettleGoal, Exhausted, Choosing
  <1>2. memo \in Memos /\ Keeps(memo, winners, vs)
    BY <1>1, TopFacts, SettleKeeps DEF CostsInv
  <1>3. <<Top.group, Top.required>> \notin hopeless
    BY SettledWasNotHopeless
  <1>4. /\ Top.group \in 1..Len(memo) /\ Top.required \in Properties
        /\ SettledEntry.required = Top.required
        /\ winners[Top.group] \in Seq(Entries)
        /\ vs = [winners EXCEPT ![Top.group] = Append(winners[Top.group], SettledEntry)]
        /\ winners \in [1..Len(memo) -> Seq(Entries)]
    BY <1>1, TopFacts, SettleAppends DEF Goals, IInv, TypeOK
  <1>5. ASSUME NEW g \in 1..Len(memo), NEW r \in Properties, <<g, r>> \in hopeless
        PROVE  /\ ~Answered(vs[g], r)
               /\ \A q \in Properties : SameRequirement(r, q) => <<g, q>> \in hopeless
               /\ \A i \in 1..Len(memo[g].exprs) : \A stage \in StagesOf(memo[g].exprs[i]) :
                    WeighedAt(memo, vs, hopeless, g, r, i, stage, Infinity)
    <2>1. /\ ~Answered(winners[g], r)
          /\ \A q \in Properties : SameRequirement(r, q) => <<g, q>> \in hopeless
          /\ \A i \in 1..Len(memo[g].exprs) : \A stage \in StagesOf(memo[g].exprs[i]) :
               WeighedAt(memo, winners, hopeless, g, r, i, stage, Infinity)
      BY <1>5 DEF NothingMissed, HopelessIn
    <2>2. CASE g # Top.group
      BY <1>2, <1>4, <2>1, <2>2, WeighedKept
    <2>3. CASE g = Top.group
      <3>1. ~SameRequirement(Top.required, r)
        BY <1>3, <1>4, <2>1, <2>3, SameRequirementIsEquivalence
      <3>2. vs[g] = Append(winners[g], SettledEntry)
        BY <1>4, <2>3
      <3>3. ~Answered(vs[g], r)
        <4> DEFINE old == winners[g]
        <4>1. old \in Seq(Entries) /\ SettledEntry \in Entries
          BY <1>4, SettleAppends
        <4>2. ~Answered(old, r) /\ ~SameRequirement(SettledEntry.required, r)
          BY <1>4, <2>1, <3>1
        <4> HIDE DEF old
        <4>3. \A i \in DOMAIN Append(old, SettledEntry) :
                \/ i \in DOMAIN old /\ Append(old, SettledEntry)[i] = old[i]
                \/ Append(old, SettledEntry)[i] = SettledEntry
          BY <4>1
        <4>4. ~Answered(Append(old, SettledEntry), r)
          BY <4>2, <4>3 DEF Answered
        <4> QED
          BY <3>2, <4>4 DEF old
      <3> QED
        BY <1>2, <2>1, <3>3, WeighedKept
    <2> QED
      BY <2>2, <2>3
  <1>6. HopelessIn(memo, vs, hopeless)
    BY <1>5 DEF NothingMissed, HopelessIn
  <1>7. \A j \in 1..Len(stack') : GoalWeighed(memo, vs, hopeless, stack'[j])
    <2> TAKE j \in 1..Len(stack')
    <2>1. stack'[j] = stack[j] /\ j \in 1..n
      BY <1>1, PoppedGoals
    <2>2. GoalWeighed(memo, winners, hopeless, stack[j])
      BY <2>1 DEF NothingMissed
    <2>3. stack[j].group \in 1..Len(memo)
      BY <2>1, GoalFacts
    <2> HIDE DEF vs
    <2> QED
      BY <1>2, <2>1, <2>2, <2>3, WeighedKept DEF GoalWeighed
  <1> QED
    BY <1>1, <1>6, <1>7 DEF NothingMissed
-----------------------------------------------------------------------------
(* The step that gives a question up.                                      *)

(* Requirements that are the same demand the same of the inputs. *)

LEMMA SameDemands ==
  ASSUME NEW e \in GroupExprs, NEW g \in Groups, NEW r \in Properties, NEW q \in Properties,
         SameRequirement(r, q), NEW stage \in StagesOf(e), NEW k \in 1..Arity(e.op)
  PROVE  /\ DemandsOf(e, g, r, stage)[k] \in Properties
         /\ DemandsOf(e, g, q, stage)[k] \in Properties
         /\ SameRequirement(DemandsOf(e, g, r, stage)[k], DemandsOf(e, g, q, stage)[k])
  <1> DEFINE needs == RequiredInputProperties(e, g)
  <1>1. stage \in {"enforce", "pushdown"} /\ (stage = "pushdown" => CanPushDown(e.op))
    BY DEF StagesOf
  <1>2. /\ needs \in Seq(Properties) /\ Len(needs) = Arity(e.op)
    BY RequiredInputsType
  <1>3. /\ DemandsOf(e, g, r, stage)[k] \in Properties
        /\ DemandsOf(e, g, q, stage)[k] \in Properties
    <2>1. /\ DemandsOf(e, g, r, stage) \in Seq(Properties)
          /\ Len(DemandsOf(e, g, r, stage)) = Arity(e.op)
          /\ DemandsOf(e, g, q, stage) \in Seq(Properties)
          /\ Len(DemandsOf(e, g, q, stage)) = Arity(e.op)
      BY <1>1, DemandsType
    <2> QED
      BY <2>1
  <1>4. CASE stage # "pushdown"
    <2>1. DemandsOf(e, g, r, stage) = needs /\ DemandsOf(e, g, q, stage) = needs
      BY <1>4 DEF DemandsOf
    <2> QED
      BY <1>3, <2>1 DEF SameRequirement
  <1>5. CASE stage = "pushdown"
    <2> DEFINE pushed(x) == [x EXCEPT
                               !.format = IF needs[1].format # "Any" THEN needs[1].format ELSE @,
                               !.sort   = IF @ = <<>> THEN needs[1].sort ELSE @]
    <2>1. /\ DemandsOf(e, g, r, stage) = [needs EXCEPT ![1] = pushed(r)]
          /\ DemandsOf(e, g, q, stage) = [needs EXCEPT ![1] = pushed(q)]
      BY <1>5 DEF DemandsOf, PushedRequirements
    <2>2. SameRequirement(pushed(r), pushed(q))
      BY DEF SameRequirement, Properties
    <2> HIDE DEF pushed, needs
    <2>3. k \in DOMAIN needs
      BY <1>2
    <2> QED
      BY <1>3, <2>1, <2>2, <2>3, SameRequirementIsEquivalence
  <1> QED
    BY <1>3, <1>4, <1>5

OneEach(ws, m) ==
  \A g \in 1..Len(m) :
    /\ DOMAIN ws[g] = 1..Len(ws[g])
    /\ \A i, j \in DOMAIN ws[g] :
         SameRequirement(ws[g][i].required, ws[g][j].required) => i = j

Closed(hopeless) ==
  \A g : \A r, q \in Properties :
    SameRequirement(r, q) /\ <<g, r>> \in hopeless => <<g, q>> \in hopeless

(* The same question has the same answer. *)

LEMMA SameAnswer ==
  ASSUME NEW m, NEW ws, OneEach(ws, m), NEW g \in 1..Len(m), NEW r, NEW q,
         SameRequirement(r, q), Answered(ws[g], r)
  PROVE  Answered(ws[g], q) /\ WinnerIn(ws, g, r) = WinnerIn(ws, g, q)
  <1>1. PICK i \in DOMAIN ws[g] : SameRequirement(ws[g][i].required, r)
    BY DEF Answered
  <1>2. SameRequirement(ws[g][i].required, q)
    BY <1>1, SameRequirementIsEquivalence
  <1>3. \A j, k \in DOMAIN ws[g] :
          SameRequirement(ws[g][j].required, ws[g][k].required) => j = k
    BY DEF OneEach
  <1>4. WinnerIn(ws, g, r) = ws[g][i]
    BY <1>1, <1>3, AnswerFound
  <1>5. WinnerIn(ws, g, q) = ws[g][i]
    BY <1>2, <1>3, AnswerFound
  <1> QED
    BY <1>2, <1>4, <1>5 DEF Answered

(* What one requirement has no use for, the same one has none for.         *)

LEMMA WeighedAlike ==
  ASSUME NEW m \in Memos, NEW ws \in [1..Len(m) -> Seq(Entries)], OneEach(ws, m),
         NEW hopeless, Closed(hopeless), NEW g \in 1..Len(m), NEW r \in Properties,
         NEW q \in Properties, SameRequirement(r, q), NEW i \in 1..Len(m[g].exprs),
         NEW stage \in StagesOf(m[g].exprs[i]),
         WeighedAt(m, ws, hopeless, g, r, i, stage, Infinity)
  PROVE  WeighedAt(m, ws, hopeless, g, q, i, stage, Infinity)
  <1> DEFINE e  == m[g].exprs[i]
             ps == DemandsOf(e, m[g], r, stage)
             qs == DemandsOf(e, m[g], q, stage)
  <1>1. /\ m[g] \in Groups /\ e \in GroupExprs /\ Len(e.inputs) = Arity(e.op)
        /\ \A k \in 1..Len(e.inputs) : e.inputs[k] \in 1..Len(m)
    <2>1. /\ m[g] \in Groups /\ e \in GroupExprs /\ Len(e.inputs) = Arity(e.op)
          /\ \A k \in 1..Len(e.inputs) : e.inputs[k] \in 1..(g - 1)
          /\ Len(m) \in Nat
      BY MemoType
    <2> HIDE DEF e
    <2> QED
      BY <2>1
  <1>2. \A k \in 1..Len(e.inputs) :
          ps[k] \in Properties /\ qs[k] \in Properties /\ SameRequirement(ps[k], qs[k])
    <2>1. stage \in StagesOf(e)
      OBVIOUS
    <2> HIDE DEF e
    <2> QED
      BY <1>1, <2>1, SameDemands
  <1>3. Weighed(m, ws, hopeless, g, r, e, ps, Infinity)
    BY DEF WeighedAt
  <1>4. CASE \E k \in 1..Len(e.inputs) : <<e.inputs[k], ps[k]>> \in hopeless
    <2>1. \E k \in 1..Len(e.inputs) : <<e.inputs[k], qs[k]>> \in hopeless
      BY <1>2, <1>4 DEF Closed
    <2> QED
      BY <2>1 DEF WeighedAt, Weighed
  <1>5. CASE AllAnswered(ws, e, ps) /\ ~Less(PriceIn(m, ws, g, r, e, ps), Infinity)
    <2> DEFINE given == DeriveOp(e, m[g], InsIn(ws, e, ps))
    <2>1. ASSUME NEW k \in 1..Len(e.inputs)
          PROVE  /\ Answered(ws[e.inputs[k]], qs[k])
                 /\ WinnerIn(ws, e.inputs[k], ps[k]) = WinnerIn(ws, e.inputs[k], qs[k])
      <3> DEFINE h == e.inputs[k]
                 a == ps[k]
                 b == qs[k]
      <3>1. Answered(ws[h], a) /\ h \in 1..Len(m) /\ SameRequirement(a, b)
        BY <1>1, <1>2, <1>5 DEF AllAnswered
      <3> HIDE DEF h, a, b
      <3>2. Answered(ws[h], b) /\ WinnerIn(ws, h, a) = WinnerIn(ws, h, b)
        BY <3>1, SameAnswer
      <3> QED
        BY <3>2 DEF h, a, b
    <2>2. AllAnswered(ws, e, qs)
      BY <2>1 DEF AllAnswered
    <2>3. InsIn(ws, e, ps) = InsIn(ws, e, qs)
      <3>1. Agree(ws, ws, e, ps, qs)
        BY <2>1 DEF Agree
      <3> HIDE DEF e, ps, qs
      <3> QED
        BY <1>1, <3>1, SameInputs
    <2>4. /\ PriceIn(m, ws, g, r, e, ps) \in Costs
          /\ PriceIn(m, ws, g, r, e, ps) = Infinity <=> ~FreshEnough(given, r)
      BY <1>5, RouteTypes
    <2>5. PriceIn(m, ws, g, q, e, qs) = Infinity <=> ~FreshEnough(given, q)
      BY <2>2, <2>3, RouteTypes
    <2>6. ~FreshEnough(given, r)
      BY <1>5, <2>4 DEF Less
    <2>7. ~FreshEnough(given, q)
      BY <2>6 DEF FreshEnough, SameRequirement
    <2>8. ~Less(PriceIn(m, ws, g, q, e, qs), Infinity)
      BY <2>5, <2>7 DEF Less
    <2> QED
      BY <2>2, <2>8 DEF WeighedAt, Weighed
  <1> QED
    BY <1>3, <1>4, <1>5 DEF Weighed

(* The questions that are the same as this one. *)
Same(g, r) == {<<g, q>> : q \in {p \in Properties : SameRequirement(r, p)}}

(* A goal that has tried everything for nothing joins the hopeless ones.   *)

LEMMA GivenUp ==
  ASSUME IInv, CostsInv, NEW hopeless, NothingMissed(hopeless), FailGoal
  PROVE  /\ HopelessIn(memo, winners, hopeless \cup Same(Top.group, Top.required))
         /\ <<Top.group, Top.required>> \in Same(Top.group, Top.required)
  <1> DEFINE t    == Top.group
             r    == Top.required
             more == hopeless \cup Same(t, r)
  <1>1. Searching /\ Top.cand > Len(memo[t].exprs) /\ Top.best.expr = 0
    BY DEF FailGoal, Exhausted, Choosing, GroupOf
  <1>2. /\ Top \in Goals /\ memo \in Memos /\ t \in 1..Len(memo) /\ r \in Properties
        /\ winners \in [1..Len(memo) -> Seq(Entries)] /\ Top.cand \in Nat
        /\ Len(memo) \in Nat
    BY <1>1, TopFacts, MemoType DEF GoalOK, Goals, IInv, TypeOK
  <1>3. ~Answered(winners[t], r)
    BY <1>1, TopFacts DEF IInv, GoalsOK
  <1>4. GoalWeighed(memo, winners, hopeless, Top)
    BY <1>1, TopFacts DEF NothingMissed
  <1>5. HopelessIn(memo, winners, hopeless)
    BY DEF NothingMissed
  <1>6. OneEach(winners, memo)
    BY <1>2 DEF CostsInv, OneAnswerEach, OneEach
  <1>7. Closed(hopeless)
    <2> SUFFICES ASSUME NEW g, NEW a \in Properties, NEW b \in Properties,
                        SameRequirement(a, b), <<g, a>> \in hopeless
                 PROVE  <<g, b>> \in hopeless
      BY DEF Closed
    <2>1. g \in 1..Len(memo)
      BY <1>5 DEF HopelessIn
    <2> QED
      BY <1>5, <2>1 DEF HopelessIn
  <1> HIDE DEF t, r
  <1>8. ASSUME NEW i \in 1..Len(memo[t].exprs), NEW stage \in StagesOf(memo[t].exprs[i])
        PROVE  WeighedAt(memo, winners, hopeless, t, r, i, stage, Infinity)
    <2>1. Tried(Top, i, stage)
      <3>1. Len(memo[t].exprs) \in Nat
        BY <1>2, MemoType
      <3>2. i < Top.cand
        BY <1>1, <1>2, <3>1
      <3> QED
        BY <3>2 DEF Tried
    <2> QED
      BY <1>1, <1>4, <2>1 DEF GoalWeighed, t, r
  <1>9. more \subseteq (1..Len(memo)) \X Properties
    BY <1>2, <1>5 DEF HopelessIn, Same
  <1>10. ASSUME NEW g \in 1..Len(memo), NEW p \in Properties, <<g, p>> \in more
         PROVE  /\ ~Answered(winners[g], p)
                /\ \A q \in Properties : SameRequirement(p, q) => <<g, q>> \in more
                /\ \A i \in 1..Len(memo[g].exprs) : \A stage \in StagesOf(memo[g].exprs[i]) :
                     WeighedAt(memo, winners, more, g, p, i, stage, Infinity)
    <2>1. hopeless \subseteq more
      OBVIOUS
    <2> HIDE DEF more
    <2>2. CASE <<g, p>> \in hopeless
      BY <1>5, <2>1, <2>2, WeighedMore DEF HopelessIn
    <2>3. CASE <<g, p>> \notin hopeless
      <3>1. g = t /\ SameRequirement(r, p)
        BY <1>10, <2>3 DEF more, Same
      <3>2. ~Answered(winners[g], p)
        <4> SUFFICES ASSUME Answered(winners[g], p) PROVE FALSE
          OBVIOUS
        <4>1. SameRequirement(p, r)
          BY <3>1, SameRequirementIsEquivalence
        <4>2. Answered(winners[g], r)
          BY <1>6, <4>1, SameAnswer
        <4> QED
          BY <1>3, <3>1, <4>2
      <3>3. \A q \in Properties : SameRequirement(p, q) => <<g, q>> \in more
        BY <3>1, SameRequirementIsEquivalence DEF more, Same
      <3>4. ASSUME NEW i \in 1..Len(memo[g].exprs), NEW stage \in StagesOf(memo[g].exprs[i])
            PROVE  WeighedAt(memo, winners, more, g, p, i, stage, Infinity)
        <4>1. WeighedAt(memo, winners, hopeless, g, r, i, stage, Infinity)
          BY <1>8, <3>1
        <4>2. WeighedAt(memo, winners, hopeless, g, p, i, stage, Infinity)
          BY <1>2, <1>6, <1>7, <3>1, <4>1, WeighedAlike
        <4> QED
          BY <2>1, <4>2, WeighedMore
      <3> QED
        BY <3>2, <3>3, <3>4
    <2> QED
      BY <2>2, <2>3
  <1>11. HopelessIn(memo, winners, more)
    BY <1>9, <1>10 DEF HopelessIn
  <1>12. <<t, r>> \in Same(t, r)
    BY <1>2, SameRequirementIsEquivalence DEF Same
  <1> QED
    BY <1>11, <1>12 DEF t, r

(* The goal that asked for it leaves the route that did.                   *)

LEMMA FailWeighed ==
  ASSUME IInv, CostsInv, GoalsLinked, ~greedy, NEW hopeless, NothingMissed(hopeless), FailGoal
  PROVE  \E more : NothingMissed(more)'
  <1> DEFINE n == Len(stack)
  <1>1. PICK more : more = hopeless \cup Same(Top.group, Top.required)
    OBVIOUS
  <1>2. /\ Searching /\ UNCHANGED <<memo, winners>>
        /\ n # 1 => stack' = [Popped EXCEPT ![n - 1] = AfterRoute(stack[n - 1])]
        /\ n = 1 => stack' = <<>>
    BY DEF FailGoal, Exhausted, Choosing
  <1>3. /\ HopelessIn(memo, winners, more) /\ <<Top.group, Top.required>> \in more
        /\ hopeless \subseteq more
    BY <1>1, GivenUp
  <1>4. n \in Nat \ {0} /\ stack \in Seq(Goals) /\ Top = stack[n]
    BY <1>2, TopFacts
  <1>5. ASSUME NEW j \in 1..(n - 1)
        PROVE  /\ GoalWeighed(memo, winners, more, stack[j])
               /\ j = n - 1 => GoalWeighed(memo, winners, more, AfterRoute(stack[j]))
    <2> DEFINE f == stack[j]
    <2>1. j \in 1..n /\ j < n /\ j + 1 \in 1..n /\ j \in Nat
      BY <1>4
    <2>2. GoalWeighed(memo, winners, hopeless, f)
      BY <2>1 DEF NothingMissed
    <2>3. GoalWeighed(memo, winners, more, f)
      BY <1>3, <2>2, WeighedMore DEF GoalWeighed
    <2>4. ASSUME j = n - 1 PROVE GoalWeighed(memo, winners, more, AfterRoute(f))
      <3>1. stack[j + 1] = Top /\ j + 1 > 1 /\ (j + 1) - 1 = j
        BY <1>4, <2>1, <2>4
      <3>2. <<Top.group, Top.required>> = QuestionOf(memo, f)
        <4> DEFINE k == j + 1
        <4>1. k \in 1..Len(stack) /\ k > 1 /\ stack[k] = Top /\ stack[k - 1] = f
          BY <2>1, <3>1
        <4> HIDE DEF k, f
        <4> QED
          BY <4>1 DEF GoalsLinked
      <3>3. Waits(memo, f) /\ f \in Goals /\ GoalOK(memo, prune, winners, f) /\ memo \in Memos
        <4>1. Waits(memo, f)
          BY <1>4, <2>1 DEF IInv, GoalsDescend
        <4> QED
          BY <2>1, <4>1, GoalFacts
      <3> HIDE DEF f
      <3>4. InRoute(f) /\ f.next \in 1..Len(ExprOf(f).inputs)
        <4>1. InRoute(f) /\ f.next <= Len(ExprOf(f).inputs)
          BY <3>3 DEF Waits, InRoute, Goals, ExprOf
        <4>2. f.next \in 1..(Len(ExprOf(f).inputs) + 1)
          BY <3>3, <4>1, RouteFacts
        <4>3. Len(ExprOf(f).inputs) \in Nat
          BY <3>3, <4>1, RouteFacts, CandidateFacts
        <4> QED
          BY <4>1, <4>2, <4>3
      <3>5. \E k \in 1..Len(ExprOf(f).inputs) : <<ExprOf(f).inputs[k], Demands(f)[k]>> \in more
        BY <1>3, <3>2, <3>4 DEF QuestionOf, ExprOf, Demands, GroupOf
      <3>6. WeighedAt(memo, winners, more, f.group, f.required, f.cand, f.stage, f.best.cost)
        BY <3>5 DEF WeighedAt, Weighed, ExprOf, Demands, GroupOf
      <3> QED
        BY <2>3, <3>3, <3>4, <3>6, LeavesWeighed DEF f
    <2> QED
      BY <2>3, <2>4
  <1>6. \A j \in 1..Len(stack') : GoalWeighed(memo, winners, more, stack'[j])
    <2>1. CASE n = 1
      <3>1. Len(stack') = 0
        BY <1>2, <2>1
      <3> QED
        BY <3>1
    <2>2. CASE n # 1
      <3> DEFINE k == n - 1
                 h == AfterRoute(stack[k])
      <3>1. Popped \in Seq(Goals) /\ Len(Popped) = k /\ \A j \in 1..k : Popped[j] = stack[j]
        BY <1>2, PoppedGoals
      <3>2. k \in 1..k /\ stack' = [Popped EXCEPT ![k] = h]
        <4>1. stack' = [Popped EXCEPT ![k] = h]
          BY <1>2, <2>2
        <4>2. k \in Nat \ {0}
          BY <1>4, <2>2
        <4> HIDE DEF k
        <4> QED
          BY <4>1, <4>2
      <3>3. /\ \A j \in 1..k : GoalWeighed(memo, winners, more, stack[j])
            /\ GoalWeighed(memo, winners, more, h)
        BY <1>5, <3>2
      <3> HIDE DEF k, h, n
      <3>4. /\ Len(stack') = k /\ stack'[k] = h
            /\ \A j \in 1..k : j # k => stack'[j] = stack[j]
        BY <3>1, <3>2
      <3> QED
        BY <3>3, <3>4
    <2> QED
      BY <2>1, <2>2
  <1>7. NothingMissed(more)'
    BY <1>2, <1>3, <1>6 DEF NothingMissed
  <1> QED
    BY <1>7

LEMMA InitWeighed == Init => SearchWeighed
  <1> SUFFICES ASSUME Init PROVE NothingMissed({})
    BY DEF SearchWeighed
  <1>1. memo \in Memos /\ Len(stack) = 1
        /\ stack[1] = NewGoal(Len(memo), request.required, Infinity)
    BY DEF Init
  <1>2. Len(memo) \in 1..Len(memo)
    <2>1. Len(memo) \in Nat \ {0}
      BY <1>1, MemoType
    <2> QED
      BY <2>1
  <1>3. GoalWeighed(memo, winners, {}, stack[1])
    BY <1>1, <1>2, NewGoalWeighed
  <1>4. HopelessIn(memo, winners, {})
    BY DEF HopelessIn
  <1> QED
    BY <1>1, <1>3, <1>4 DEF NothingMissed

LEMMA WeighedSearch ==
  IInv /\ CostsInv /\ GoalsLinked /\ SearchWeighed /\ [Next]_vars => SearchWeighed'
  <1> SUFFICES ASSUME IInv, CostsInv, GoalsLinked, SearchWeighed, [Next]_vars, Exhaustive'
               PROVE  \E hopeless : NothingMissed(hopeless)'
    BY DEF SearchWeighed
  <1>1. request' = request
    BY DEF Next, vars, PruneCandidate, StartCandidate, OpenGoal, AcceptInput, RejectInput,
           FinishRoute, SettleGoal, FailGoal
  <1>2. Exhaustive /\ ~greedy
    BY <1>1 DEF Exhaustive, prune, greedy
  <1>3. PICK hopeless : NothingMissed(hopeless)
    BY <1>2 DEF SearchWeighed
  <1>4. CASE StartCandidate
    BY <1>3, <1>4, StartWeighed
  <1>5. CASE OpenGoal
    BY <1>3, <1>5, OpenWeighed
  <1>6. CASE AcceptInput
    BY <1>3, <1>6, AcceptWeighed
  <1>7. CASE FinishRoute
    BY <1>2, <1>3, <1>7, FinishWeighed
  <1>8. CASE SettleGoal
    BY <1>3, <1>8, SettleWeighed
  <1>9. CASE FailGoal
    BY <1>2, <1>3, <1>9, FailWeighed
  <1>10. CASE UNCHANGED vars
    <2>1. UNCHANGED <<memo, winners, stack>>
      BY <1>10 DEF vars
    <2>2. NothingMissed(hopeless)'
      BY <1>3, <2>1 DEF NothingMissed
    <2> QED
      BY <2>2
  <1> QED
    BY <1>2, <1>4, <1>5, <1>6, <1>7, <1>8, <1>9, <1>10, ExhaustivePrunesNothing DEF Next

LEMMA SimStep == SimInv /\ [Next]_vars => SimInv'
  <1>1. IInv /\ [Next]_vars => IInv'
    BY SearchStep
  <1> QED
    BY <1>1, CostsStep, LinkedSearch, WeighedSearch DEF SimInv
-----------------------------------------------------------------------------
(* The table of answers, as the winners show it.                           *)

RouteOver(g, r, i, stage) ==
  [expr |-> i, demands |-> DemandsOf(memo[g].exprs[i], memo[g], r, stage)]

(* The operators of the cost model and of the properties are the same      *)

(* ones, read through the table or not.                                    *)
LEMMA SameBounds ==
  /\ Table!Infinity = Infinity
  /\ \A a, b : Table!Plus(a, b) = Plus(a, b) /\ (Table!Less(a, b) <=> Less(a, b))
  BY DEF Table!Infinity, Infinity, Table!Plus, Plus, Table!Less, Less

LEMMA SameRequirements ==
  /\ \A a, b : Table!SameRequirement(a, b) <=> SameRequirement(a, b)
  /\ \A a, b : Table!Upgraded(a, b) = Upgraded(a, b)
  /\ \A op, k : Table!InputEvaluations(op, k) = InputEvaluations(op, k)
  /\ \A op : Table!CanPushDown(op) = CanPushDown(op)
  /\ \A a, b : Table!PushedRequirements(a, b) = PushedRequirements(a, b)
  <1>1. \A a, b : Table!SameRequirement(a, b) <=> SameRequirement(a, b)
    BY DEF Table!SameRequirement, SameRequirement
  <1>2. \A a, b : Table!Upgraded(a, b) = Upgraded(a, b)
    BY DEF Table!Upgraded, Upgraded
  <1>3. \A op, k : Table!InputEvaluations(op, k) = InputEvaluations(op, k)
    BY DEF Table!InputEvaluations, InputEvaluations
  <1>4. \A op : Table!CanPushDown(op) = CanPushDown(op)
    BY DEF Table!CanPushDown, CanPushDown
  <1>5. \A a, b : Table!PushedRequirements(a, b) = PushedRequirements(a, b)
    BY DEF Table!PushedRequirements, PushedRequirements
  <1> QED
    BY <1>1, <1>2, <1>3, <1>4, <1>5

LEMMA SameKinds ==
  /\ Table!Joins = Joins /\ Table!SemiJoins = SemiJoins /\ Table!SetOperators = SetOperators
  /\ Table!Aggregates = Aggregates /\ Table!Distincts = Distincts /\ Table!Binary = Binary
  /\ Table!Leaves = Leaves /\ Table!Writes = Writes
  BY DEF Table!Joins, Joins, Table!SemiJoins, SemiJoins, Table!Aggregates, Aggregates,
         Table!Distincts, Distincts, Table!SetOperators, SetOperators, Table!Binary, Binary,
         Table!Leaves, Leaves, Table!Writes, Writes

LEMMA SamePlaces ==
  /\ Table!Single = Single /\ Table!AnyDist = AnyDist
  /\ \A ks : Table!HashedOn(ks) = HashedOn(ks)
  /\ \A keys, side : Table!Columns(keys, side) = Columns(keys, side)
  BY DEF Table!Single, Single, Table!AnyDist, AnyDist, Table!HashedOn, HashedOn,
         Table!Columns, Columns

LEMMA SameNeeds ==
  \A e, g : Table!RequiredInputProperties(e, g) = RequiredInputProperties(e, g)
  <1>1. \A e, g, i : Table!InputDistribution(e, g, i) = InputDistribution(e, g, i)
    BY SameKinds, SamePlaces DEF Table!InputDistribution, InputDistribution
  <1>2. \A e, g, i : Table!InputOrder(e, g, i) = InputOrder(e, g, i)
    BY DEF Table!InputOrder, InputOrder, Table!Ascending, Ascending
  <1>3. \A e, g, i : Table!InputRequirement(e, g, i) = InputRequirement(e, g, i)
    BY <1>1, <1>2 DEF Table!InputRequirement, InputRequirement
  <1>4. \A op : Table!Arity(op) = Arity(op)
    BY SameKinds DEF Table!Arity, Arity
  <1> QED
    BY <1>3, <1>4 DEF Table!RequiredInputProperties, RequiredInputProperties

LEMMA SameDerived ==
  \A e, g, ins : Table!DeriveOp(e, g, ins) = DeriveOp(e, g, ins)
  <1>1. \A e, g, ins : Table!OutputOrder(e, g, ins) = OutputOrder(e, g, ins)
    BY DEF Table!OutputOrder, OutputOrder, Table!Ascending, Ascending
  <1>2. \A e, ins : Table!OutputFormat(e, ins) = OutputFormat(e, ins)
    BY DEF Table!OutputFormat, OutputFormat
  <1>3. \A e, ins : Table!OutputFreshness(e, ins) = OutputFreshness(e, ins)
    BY SameKinds DEF Table!OutputFreshness, OutputFreshness
  <1>4. \A e, g, ins : Table!OutputDistribution(e, g, ins) = OutputDistribution(e, g, ins)
    BY SameKinds, SamePlaces DEF Table!OutputDistribution, OutputDistribution
  <1> QED
    BY <1>1, <1>2, <1>3, <1>4 DEF Table!DeriveOp, DeriveOp

LEMMA SameSortCost == \A n : Table!SortCost(n) = SortCost(n)
  <1>1. \A X : Table!Cardinality(X) = Cardinality(X)
    BY DEF Table!Cardinality, Cardinality
  <1>2. \A n : Table!Log2(n) = Log2(n)
    BY <1>1 DEF Table!Log2, Log2, Table!MaxLog, MaxLog
  <1> QED
    BY <1>2 DEF Table!SortCost, SortCost

LEMMA SameCosts ==
  \A e, g, in : Table!OperatorCost(e, g, in) = OperatorCost(e, g, in)
  <1> TAKE e, g, in
  <1>1. Table!SortCost(in[1]) = SortCost(in[1])
    BY SameSortCost
  <1> QED
    BY <1>1 DEF Table!OperatorCost, OperatorCost, Table!NestedLoops, NestedLoops,
                Table!Writes, Writes, Table!PerInputRow, PerInputRow,
                Table!PerOutputRow, PerOutputRow

LEMMA SameEnforcers ==
  \A have, r, n : Table!EnforcementCost(have, r, n) = EnforcementCost(have, r, n)
  <1> TAKE have, r, n
  <1>1. Table!FreshEnough(have, r) <=> FreshEnough(have, r)
    BY DEF Table!FreshEnough, FreshEnough
  <1>2. Table!NeedsExchange(have, r) <=> NeedsExchange(have, r)
    BY DEF Table!NeedsExchange, NeedsExchange,
           Table!DistributionSatisfies, DistributionSatisfies
  <1>3. Table!NeedsConvert(have, r) <=> NeedsConvert(have, r)
    BY DEF Table!NeedsConvert, NeedsConvert, Table!FormatSatisfies, FormatSatisfies
  <1>4. Table!AfterExchange(have, r) = AfterExchange(have, r)
    BY <1>2 DEF Table!AfterExchange, AfterExchange
  <1>5. \A p, q : Table!SortPrefix(p, q) <=> SortPrefix(p, q)
    BY DEF Table!SortPrefix, SortPrefix, Table!SatisfiesKey, SatisfiesKey
  <1>6. Table!NeedsSort(have, r) <=> NeedsSort(have, r)
    BY <1>4, <1>5 DEF Table!NeedsSort, NeedsSort
  <1>7. Table!ExchangeCost(r, n) = ExchangeCost(r, n) /\ Table!SortCost(n) = SortCost(n)
    BY SameSortCost DEF Table!ExchangeCost, ExchangeCost
  <1> QED
    BY <1>1, <1>2, <1>3, <1>6, <1>7, SameBounds DEF Table!EnforcementCost, EnforcementCost

LEMMA OneAnswer ==
  ASSUME TypeOK, OneAnswerEach
  PROVE  OneEach(winners, memo)
  <1>1. winners \in [1..Len(memo) -> Seq(Entries)]
    BY DEF TypeOK
  <1>2. \A g \in 1..Len(memo) : DOMAIN winners[g] = 1..Len(winners[g])
    BY <1>1
  <1> QED
    BY <1>2 DEF OneAnswerEach, OneEach

LEMMA TableAnswers ==
  ASSUME TypeOK, OneAnswerEach, NEW g \in 1..Len(memo), NEW r
  PROVE  /\ Table!Answering(g, r) = {} <=> ~Answered(winners[g], r)
         /\ Answered(winners[g], r) => Table!AnswerTo(g, r) = WinnerIn(winners, g, r)
  <1> DEFINE ws == winners[g]
  <1>1. memo \in Memos /\ g \in DOMAIN memo
    BY MemoType DEF TypeOK
  <1>2. Table!Answering(g, r)
          = {a \in {ws[i] : i \in DOMAIN ws} : SameRequirement(a.required, r)}
    BY <1>1, SameRequirements DEF Table!Answering
  <1>3. \A j, k \in DOMAIN ws : SameRequirement(ws[j].required, ws[k].required) => j = k
    BY OneAnswer DEF OneEach
  <1>4. Table!Answering(g, r) = {} <=> ~Answered(ws, r)
    BY <1>2 DEF Answered
  <1>5. ASSUME Answered(ws, r)
        PROVE  Table!AnswerTo(g, r) = WinnerIn(winners, g, r)
    <2>1. PICK i \in DOMAIN ws : SameRequirement(ws[i].required, r)
      BY <1>5 DEF Answered
    <2>2. WinnerIn(winners, g, r) = ws[i]
      BY <1>3, <2>1, AnswerFound
    <2>3. \A k \in DOMAIN ws : SameRequirement(ws[k].required, r) => k = i
      BY <1>3, <2>1, SameRequirementIsEquivalence
    <2>4. Table!Answering(g, r) = {ws[i]}
      <3> HIDE DEF ws
      <3> QED
        BY <1>2, <2>1, <2>3
    <2>5. Table!AnswerTo(g, r) = ws[i]
      BY <2>4 DEF Table!AnswerTo
    <2> QED
      BY <2>2, <2>5
  <1> QED
    BY <1>4, <1>5

(* Its routes are those of the search.                                     *)

LEMMA TableRoutes ==
  ASSUME memo \in Memos, NEW g \in 1..Len(memo), NEW r, NEW route
  PROVE  route \in Table!Routes(g, r) <=>
           \E i \in 1..Len(memo[g].exprs) : \E stage \in StagesOf(memo[g].exprs[i]) :
             route = RouteOver(g, r, i, stage)
  <1> DEFINE needs(i) == RequiredInputProperties(memo[g].exprs[i], memo[g])
             es       == memo[g].exprs
  <1>1. DOMAIN es = 1..Len(es)
    <2>1. memo[g] \in Groups
      BY MemoType, ElementOfSeq
    <2> QED
      BY <2>1 DEF Groups
  <1>2. Table!Routes(g, r) =
          {[expr |-> i, demands |-> needs(i)] : i \in 1..Len(es)}
            \cup {[expr |-> i, demands |-> PushedRequirements(needs(i), r)] :
                    i \in {j \in 1..Len(es) : CanPushDown(es[j].op)}}
    BY <1>1, SameNeeds, SameRequirements DEF Table!Routes
  <1>3. \A i : /\ RouteOver(g, r, i, "enforce") = [expr |-> i, demands |-> needs(i)]
               /\ RouteOver(g, r, i, "pushdown")
                    = [expr |-> i, demands |-> PushedRequirements(needs(i), r)]
    BY DEF RouteOver, DemandsOf
  <1>4. \A i : /\ "enforce" \in StagesOf(es[i])
               /\ "pushdown" \in StagesOf(es[i]) <=> CanPushDown(es[i].op)
               /\ \A stage \in StagesOf(es[i]) : stage \in {"enforce", "pushdown"}
    BY DEF StagesOf
  <1> HIDE DEF needs, es
  <1>5. route \in Table!Routes(g, r) <=>
          \/ \E i \in 1..Len(es) : route = RouteOver(g, r, i, "enforce")
          \/ \E i \in 1..Len(es) : CanPushDown(es[i].op)
                                   /\ route = RouteOver(g, r, i, "pushdown")
    BY <1>2, <1>3
  <1>6. route \in Table!Routes(g, r) <=>
          \E i \in 1..Len(es) : \E stage \in StagesOf(es[i]) : route = RouteOver(g, r, i, stage)
    BY <1>4, <1>5
  <1> QED
    BY <1>6 DEF es

(* And they come at the same price.                                        *)

LEMMA TablePrices ==
  ASSUME TypeOK, OneAnswerEach, NEW g \in 1..Len(memo), NEW r,
         NEW i \in 1..Len(memo[g].exprs), NEW reqs, NEW route,
         route = [expr |-> i, demands |-> reqs]
  PROVE  LET e == memo[g].exprs[i]
         IN  /\ Table!Answered(g, route) <=> AllAnswered(winners, e, reqs)
             /\ AllAnswered(winners, e, reqs) =>
                  /\ Table!Gives(g, route) = DeriveOp(e, memo[g], InsIn(winners, e, reqs))
                  /\ Table!PriceOf(g, r, route) = PriceIn(memo, winners, g, r, e, reqs)
  <1> DEFINE e == memo[g].exprs[i]
  <1>1. /\ memo \in Memos /\ DOMAIN e.inputs = 1..Len(e.inputs)
        /\ Len(e.inputs) \in {0, 1, 2}
        /\ \A k \in 1..Len(e.inputs) : e.inputs[k] \in 1..Len(memo)
    <2>1. /\ memo \in Memos /\ DOMAIN e.inputs = 1..Len(e.inputs)
          /\ Len(e.inputs) = Arity(e.op) /\ Len(memo) \in Nat
          /\ \A k \in 1..Len(e.inputs) : e.inputs[k] \in 1..(g - 1)
      BY MemoType DEF TypeOK
    <2> HIDE DEF e
    <2>2. Arity(e.op) \in {0, 1, 2}
      BY DEF Arity
    <2> QED
      BY <2>1, <2>2
  <1>2. route.expr = i /\ route.demands = reqs /\ memo[g].exprs[route.expr] = e
    OBVIOUS
  <1> HIDE DEF e
  <1>3. \A k \in 1..Len(e.inputs) :
          /\ Table!Answering(e.inputs[k], reqs[k]) = {}
               <=> ~Answered(winners[e.inputs[k]], reqs[k])
          /\ Answered(winners[e.inputs[k]], reqs[k])
               => Table!AnswerTo(e.inputs[k], reqs[k]) = WinnerIn(winners, e.inputs[k], reqs[k])
    BY <1>1, TableAnswers
  <1>4. Table!InputsOf(g, route)
          = [k \in 1..Len(e.inputs) |-> Table!Answering(e.inputs[k], reqs[k])]
    BY <1>1, <1>2 DEF Table!InputsOf
  <1>5. Table!Answered(g, route) <=> AllAnswered(winners, e, reqs)
    BY <1>3, <1>4 DEF Table!Answered, AllAnswered
  <1>6. ASSUME AllAnswered(winners, e, reqs)
        PROVE  /\ Table!Gives(g, route) = DeriveOp(e, memo[g], InsIn(winners, e, reqs))
               /\ Table!PriceOf(g, r, route) = PriceIn(memo, winners, g, r, e, reqs)
    <2> DEFINE found == [k \in 1..Len(e.inputs) |-> WinnerIn(winners, e.inputs[k], reqs[k])]
    <2>1. Table!AnswersOf(g, route) = found
      BY <1>1, <1>2, <1>3, <1>6 DEF Table!AnswersOf, AllAnswered
    <2>2. [k \in DOMAIN e.inputs |-> found[k].provided] = InsIn(winners, e, reqs)
      BY <1>1 DEF InsIn
    <2>3. Table!Gives(g, route) = DeriveOp(e, memo[g], InsIn(winners, e, reqs))
      BY <1>2, <2>1, <2>2, SameDerived DEF Table!Gives
    <2>4. Table!InputsPrice(e, found) = SpentIn(winners, e, reqs, Len(e.inputs))
      <3>1. CASE Len(e.inputs) = 0
        BY <3>1 DEF Table!InputsPrice, SpentIn
      <3>2. CASE Len(e.inputs) = 1
        <4>1. 1 \in 1..Len(e.inputs)
          BY <3>2
        <4>2. found[1] = WinnerIn(winners, e.inputs[1], reqs[1])
          BY <4>1
        <4> HIDE DEF found
        <4> QED
          BY <3>2, <4>2, SameRequirements DEF Table!InputsPrice, SpentIn
      <3>3. CASE Len(e.inputs) = 2
        <4>1. 1 \in 1..Len(e.inputs) /\ 2 \in 1..Len(e.inputs)
          BY <3>3
        <4>2. /\ found[1] = WinnerIn(winners, e.inputs[1], reqs[1])
              /\ found[2] = WinnerIn(winners, e.inputs[2], reqs[2])
          BY <4>1
        <4> HIDE DEF found
        <4> QED
          BY <3>3, <4>2, SameRequirements DEF Table!InputsPrice, SpentIn
      <3> QED
        BY <1>1, <3>1, <3>2, <3>3
    <2>5. OperatorCost(e, memo[g], [k \in DOMAIN e.inputs |-> memo[e.inputs[k]].rows])
            = OwnIn(memo, e, memo[g])
      BY DEF OwnIn
    <2> HIDE DEF found
    <2>6. Table!PriceOf(g, r, route) = PriceIn(memo, winners, g, r, e, reqs)
      BY <1>2, <2>1, <2>3, <2>4, <2>5, SameBounds, SameCosts, SameEnforcers
         DEF Table!PriceOf, PriceIn
    <2> QED
      BY <2>3, <2>6
  <1> QED
    BY <1>5, <1>6 DEF e
-----------------------------------------------------------------------------
(* A goal that is settled adds an acceptable answer.                       *)

LEMMA AnswerAcceptable ==
  ASSUME IInv, CostsInv, SearchWeighed, SettleGoal
  PROVE  Table!Acceptable(Top.group, SettledEntry)
  <1> DEFINE g    == Top.group
             r    == Top.required
             b    == Top.best
             i    == b.expr
             e    == memo[g].exprs[i]
             reqs == b.inputRequired
             a    == SettledEntry
  <1>1. /\ Searching /\ Exhausted /\ i # 0
        /\ a.required = r /\ a.expr = i /\ a.cost = b.cost
        /\ a.provided = b.provided /\ a.inputRequired = reqs
    BY DEF SettleGoal, Exhausted, Choosing, SettledEntry
  <1>2. /\ TypeOK /\ OneAnswerEach /\ memo \in Memos
        /\ winners \in [1..Len(memo) -> Seq(Entries)]
    BY DEF IInv, TypeOK, CostsInv
  <1>3. /\ g \in 1..Len(memo) /\ r \in Properties
        /\ PlanOK(memo, winners, g, b)
        /\ Len(stack) \in 1..Len(stack) /\ Top = stack[Len(stack)]
    BY <1>1, TopFacts DEF GoalOK, Goals
  <1>4. PICK stage \in {"enforce", "pushdown"} : Found(memo, winners, g, r, b, stage)
    BY <1>1, <1>3, TopIsPriced DEF CostsInv, GoalPriced, Priced
  <1>5. /\ stage \in StagesOf(e) /\ reqs = DemandsOf(e, memo[g], r, stage)
        /\ i \in 1..Len(memo[g].exprs) /\ b.cost \in Nat
    BY <1>3, <1>4 DEF Found, StagesOf, PlanOK
  <1>6. AllAnswered(winners, e, reqs)
    <2>1. Len(e.inputs) = Arity(e.op)
      BY <1>2, <1>3, <1>5, MemoType
    <2> QED
      BY <1>3, <2>1 DEF PlanOK, AllAnswered
  <1>7. /\ TopIn(memo, winners, g, r, b) = EnforcementCost(GivenIn(memo, winners, g, b), r, memo[g].rows)
        /\ GivenIn(memo, winners, g, b) = DeriveOp(e, memo[g], InsIn(winners, e, reqs))
    BY DEF TopIn, GivenIn
  <1>8. /\ TopIn(memo, winners, g, r, b) # Infinity
        /\ b.cost = SpentIn(winners, e, reqs, Len(e.inputs)) + OwnIn(memo, e, memo[g])
                      + TopIn(memo, winners, g, r, b)
        /\ b.provided \in {GivenIn(memo, winners, g, b),
                           Upgraded(GivenIn(memo, winners, g, b), r)}
    BY <1>4 DEF Found
  <1> HIDE DEF g, r, b, i, reqs, a
  <1>9. SpentIn(winners, e, reqs, Len(e.inputs)) + OwnIn(memo, e, memo[g]) \in Nat
    BY <1>2, <1>3, <1>5, <1>6, RouteTypes
  <1> HIDE DEF e
  <1>10. PriceIn(memo, winners, g, r, e, reqs) = b.cost
    BY <1>7, <1>8, <1>9 DEF PriceIn, Plus, Infinity
  <1>11. Table!RouteOf(a) = RouteOver(g, r, i, stage)
    BY <1>1, <1>5 DEF Table!RouteOf, RouteOver, e
  <1>12. Table!RouteOf(a) \in Table!Routes(g, a.required)
    BY <1>1, <1>2, <1>3, <1>5, <1>11, TableRoutes DEF e
  <1>13. Table!RouteOf(a) = [expr |-> i, demands |-> reqs]
    BY <1>1 DEF Table!RouteOf
  <1>14. /\ Table!Answered(g, Table!RouteOf(a))
         /\ Table!Gives(g, Table!RouteOf(a)) = GivenIn(memo, winners, g, b)
         /\ Table!PriceOf(g, r, Table!RouteOf(a)) = b.cost
    <2> DEFINE route == Table!RouteOf(a)
    <2>1. /\ route = [expr |-> i, demands |-> reqs] /\ i \in 1..Len(memo[g].exprs)
          /\ g \in 1..Len(memo) /\ TypeOK /\ OneAnswerEach
      BY <1>2, <1>3, <1>5, <1>13
    <2> HIDE DEF route
    <2>2. /\ Table!Answered(g, route) <=> AllAnswered(winners, e, reqs)
          /\ AllAnswered(winners, e, reqs) =>
               /\ Table!Gives(g, route) = DeriveOp(e, memo[g], InsIn(winners, e, reqs))
               /\ Table!PriceOf(g, r, route) = PriceIn(memo, winners, g, r, e, reqs)
      BY <2>1, TablePrices DEF e
    <2> QED
      BY <1>6, <1>7, <1>10, <2>2 DEF route
  <1>15. ASSUME Exhaustive, NEW route \in Table!Routes(g, r), Table!Answered(g, route)
         PROVE  ~Table!Less(Table!PriceOf(g, r, route), b.cost)
    <2>1. PICK j \in 1..Len(memo[g].exprs) : \E other \in StagesOf(memo[g].exprs[j]) :
            route = RouteOver(g, r, j, other)
      BY <1>2, <1>3, <1>15, TableRoutes
    <2>2. PICK other \in StagesOf(memo[g].exprs[j]) : route = RouteOver(g, r, j, other)
      BY <2>1
    <2> DEFINE d  == memo[g].exprs[j]
               ds == DemandsOf(d, memo[g], r, other)
    <2>3. route = [expr |-> j, demands |-> ds]
      BY <2>2 DEF RouteOver
    <2>4. /\ AllAnswered(winners, d, ds)
          /\ Table!PriceOf(g, r, route) = PriceIn(memo, winners, g, r, d, ds)
      BY <1>2, <1>3, <1>15, <2>2, <2>3, TablePrices
    <2>5. PICK hopeless : NothingMissed(hopeless)
      BY <1>15 DEF SearchWeighed
    <2>6. Tried(Top, j, other)
      <3>1. Top.cand > Len(memo[g].exprs) /\ Top.cand \in Nat /\ Len(memo[g].exprs) \in Nat
        BY <1>1, <1>2, <1>3, TopFacts, MemoType DEF Exhausted, GroupOf, g, Goals
      <3> QED
        BY <2>2, <3>1 DEF Tried
    <2>7. WeighedAt(memo, winners, hopeless, g, r, j, other, b.cost)
      BY <1>3, <2>2, <2>5, <2>6 DEF NothingMissed, GoalWeighed, g, r, b
    <2>8. Weighed(memo, winners, hopeless, g, r, d, ds, b.cost)
      BY <2>7 DEF WeighedAt
    <2> HIDE DEF d, ds
    <2>9. ASSUME NEW k \in 1..Len(d.inputs), <<d.inputs[k], ds[k]>> \in hopeless
          PROVE  FALSE
      <3>1. Answered(winners[d.inputs[k]], ds[k])
        BY <2>4 DEF AllAnswered
      <3>2. d.inputs[k] \in 1..Len(memo) /\ ds[k] \in Properties
        BY <2>5, <2>9 DEF NothingMissed, HopelessIn
      <3>3. ~Answered(winners[d.inputs[k]], ds[k])
        BY <2>5, <2>9, <3>2 DEF NothingMissed, HopelessIn
      <3> QED
        BY <3>1, <3>3
    <2>10. ~Less(PriceIn(memo, winners, g, r, d, ds), b.cost)
      BY <2>8, <2>9 DEF Weighed
    <2> QED
      BY <2>4, <2>10, SameBounds
  <1>16. /\ a.cost = Table!PriceOf(g, a.required, Table!RouteOf(a)) /\ a.cost # Table!Infinity
         /\ a.provided \in {Table!Gives(g, Table!RouteOf(a)),
                            Table!Upgraded(Table!Gives(g, Table!RouteOf(a)), a.required)}
    BY <1>1, <1>5, <1>8, <1>14, SameBounds, SameRequirements DEF Infinity
  <1>17. Exhaustive =>
           \A route \in Table!Routes(g, a.required) :
             Table!Answered(g, route) => ~Table!Less(Table!PriceOf(g, a.required, route), a.cost)
    BY <1>1, <1>15
  <1> QED
    BY <1>12, <1>14, <1>16, <1>17 DEF Table!Acceptable, Exhaustive, g, a

TableNow == [g \in DOMAIN memo |-> {winners[g][i] : i \in DOMAIN winners[g]}]

VerdictNow == CASE ~Done     -> "open"
                [] Succeeded -> "found"
                [] OTHER     -> "none"

LEMMA AnswerAdded ==
  ASSUME IInv, CostsInv, SettleGoal
  PROVE  /\ Top.group \in DOMAIN memo
         /\ Table!Answering(Top.group, SettledEntry.required) = {}
         /\ SettledEntry \in TableNow'[Top.group] \ TableNow[Top.group]
         /\ TableNow' = [TableNow EXCEPT ![Top.group] = @ \cup {SettledEntry}]
  <1> DEFINE g == Top.group
             a == SettledEntry
  <1>1. /\ memo' = memo /\ memo \in Memos /\ TypeOK /\ OneAnswerEach
        /\ winners \in [1..Len(memo) -> Seq(Entries)]
        /\ a \in Entries /\ a.required = Top.required /\ g \in 1..Len(memo)
        /\ winners' = [winners EXCEPT ![g] = Append(winners[g], a)]
    BY SettleAppends DEF SettleGoal, IInv, TypeOK, CostsInv
  <1>2. ~Answered(winners[g], a.required)
    BY <1>1, TopFacts DEF IInv, GoalsOK, SettleGoal, Exhausted, Choosing
  <1>3. Table!Answering(g, a.required) = {}
    BY <1>1, <1>2, TableAnswers
  <1>4. DOMAIN memo = 1..Len(memo)
    BY <1>1, MemoType
  <1> HIDE DEF g, a
  <1>5. ASSUME NEW h \in 1..Len(memo)
        PROVE  /\ h # g => winners'[h] = winners[h]
               /\ h = g => {winners'[h][i] : i \in DOMAIN winners'[h]}
                              = {winners[h][i] : i \in DOMAIN winners[h]} \cup {a}
    <2>1. CASE h # g
      BY <1>1, <2>1
    <2>2. CASE h = g
      <3> DEFINE old == winners[g]
      <3>1. old \in Seq(Entries) /\ winners'[h] = Append(old, a)
        BY <1>1, <2>2
      <3> HIDE DEF old
      <3>2. /\ DOMAIN old = 1..Len(old) /\ Len(old) \in Nat
            /\ DOMAIN Append(old, a) = 1..(Len(old) + 1)
            /\ \A i \in 1..Len(old) : Append(old, a)[i] = old[i]
            /\ Append(old, a)[Len(old) + 1] = a
        BY <1>1, <3>1
      <3>3. \A i : i \in 1..(Len(old) + 1) <=> i \in 1..Len(old) \/ i = Len(old) + 1
        BY <3>2
      <3>4. {Append(old, a)[i] : i \in DOMAIN Append(old, a)} = {old[i] : i \in DOMAIN old} \cup {a}
        BY <3>2, <3>3
      <3> QED
        BY <2>2, <3>1, <3>4 DEF old
    <2> QED
      BY <2>1, <2>2
  <1>6. TableNow' = [TableNow EXCEPT ![g] = @ \cup {a}]
    <2>1. TableNow' = [h \in 1..Len(memo) |-> {winners'[h][i] : i \in DOMAIN winners'[h]}]
      BY <1>1, <1>4 DEF TableNow
    <2>2. TableNow = [h \in 1..Len(memo) |-> {winners[h][i] : i \in DOMAIN winners[h]}]
      BY <1>4 DEF TableNow
    <2>3. ASSUME NEW h \in 1..Len(memo)
          PROVE  TableNow'[h] = IF h = g THEN TableNow[g] \cup {a} ELSE TableNow[h]
      <3>1. /\ TableNow'[h] = {winners'[h][i] : i \in DOMAIN winners'[h]}
            /\ TableNow[h] = {winners[h][i] : i \in DOMAIN winners[h]}
        BY <2>1, <2>2
      <3> HIDE DEF TableNow
      <3>2. CASE h # g
        BY <1>5, <3>1, <3>2
      <3>3. CASE h = g
        BY <1>5, <3>1, <3>3
      <3> QED
        BY <3>2, <3>3
    <2> HIDE DEF TableNow
    <2>4. DOMAIN TableNow' = 1..Len(memo) /\ DOMAIN TableNow = 1..Len(memo)
      BY <2>1, <2>2
    <2>5. TableNow' = [h \in 1..Len(memo) |-> TableNow'[h]]
      BY <2>1
    <2> DEFINE t == TableNow
               x == TableNow[g] \cup {a}
               D == 1..Len(memo)
    <2>6. t = [h \in D |-> t[h]] /\ TableNow' = [h \in D |-> TableNow'[h]]
      BY <2>2, <2>5
    <2>7. \A h \in D : TableNow'[h] = IF h = g THEN x ELSE t[h]
      BY <2>3
    <2> HIDE DEF t, x, D
    <2>8. [t EXCEPT ![g] = x] = [h \in D |-> IF h = g THEN x ELSE t[h]]
      BY <2>6
    <2>9. TableNow' = [h \in D |-> IF h = g THEN x ELSE t[h]]
      BY <2>6, <2>7
    <2>10. TableNow' = [t EXCEPT ![g] = x]
      BY <2>8, <2>9
    <2> QED
      BY <2>10 DEF t, x
  <1>7. a \notin TableNow[g]
    <2>1. \A i \in DOMAIN winners[g] : winners[g][i] # a
      BY <1>2, SameRequirementIsEquivalence DEF Answered
    <2> QED
      BY <1>1, <1>4, <2>1 DEF TableNow
  <1>8. a \in TableNow'[g]
    BY <1>1, <1>4, <1>6 DEF TableNow
  <1> QED
    BY <1>1, <1>3, <1>4, <1>6, <1>7, <1>8 DEF g, a

LEMMA SettleAnswers ==
  ASSUME IInv, SettleGoal
  PROVE  Answered(winners'[Top.group], Top.required)
  <1> DEFINE g   == Top.group
             old == winners[g]
             a   == SettledEntry
  <1>1. /\ old \in Seq(Entries) /\ a \in Entries /\ a.required = Top.required
        /\ winners'[g] = Append(old, a)
    BY SettleAppends DEF IInv, TypeOK
  <1> HIDE DEF g, old, a
  <1>2. /\ Len(old) + 1 \in DOMAIN Append(old, a) /\ Append(old, a)[Len(old) + 1] = a
    BY <1>1
  <1>3. Answered(Append(old, a), Top.required)
    BY <1>1, <1>2, SameRequirementIsEquivalence DEF Answered
  <1> QED
    BY <1>1, <1>3 DEF g

LEMMA AnswerVerdict ==
  ASSUME IInv, CostsInv, GoalsLinked, SettleGoal
  PROVE  /\ VerdictNow = "open"
         /\ VerdictNow' = IF Table!Asks(Top.group, SettledEntry) THEN "found" ELSE "open"
  <1> DEFINE n == Len(stack)
             a == SettledEntry
  <1>1. /\ Searching /\ stack' = Popped /\ UNCHANGED <<memo, request>>
        /\ a.required = Top.required
    BY SettleAppends DEF SettleGoal, Exhausted, Choosing
  <1>2. VerdictNow = "open"
    BY <1>1 DEF VerdictNow, Done, Succeeded, Searching
  <1>3. /\ n \in Nat \ {0} /\ Top = stack[n]
        /\ Len(stack') = n - 1 /\ stack' \in Seq(Goals)
    BY <1>1, TopFacts, PoppedGoals
  <1>4. Table!Asks(Top.group, a) <=> Top.group = Root /\ SameRequirement(Top.required, request.required)
    BY <1>1, SameRequirements DEF Table!Asks, Root
  <1>5. CASE n = 1
    <2>1. Top.group = Root /\ Top.required = request.required
      BY <1>1, <1>3, <1>5 DEF GoalsLinked, Searching
    <2>2. stack' = <<>>
      BY <1>3, <1>5
    <2>3. Settled(Root, request.required)'
      <3>1. Answered(winners'[Top.group], Top.required)
        BY SettleAnswers
      <3> QED
        BY <1>1, <2>1, <3>1 DEF Settled, Root
    <2>4. VerdictNow' = "found"
      BY <2>2, <2>3 DEF VerdictNow, Done, Succeeded
    <2> QED
      BY <1>2, <1>4, <2>1, <2>4, SameRequirementIsEquivalence
  <1>6. CASE n # 1
    <2>1. 1 \in 1..n /\ n \in 1..n /\ 1 < n
      BY <1>3, <1>6
    <2>2. stack[1].group \in 1..Len(memo) /\ stack[n].group \in 1..Len(memo) /\ Len(memo) \in Nat
      BY <2>1, GoalFacts, MemoType
    <2>3. Top.group < stack[1].group
      BY <1>3, <2>1 DEF IInv, GoalsDescend
    <2>4. Top.group # Root
      BY <1>3, <2>2, <2>3 DEF Root
    <2>5. stack' # <<>>
      BY <1>3, <1>6
    <2>6. VerdictNow' = "open"
      BY <2>5 DEF VerdictNow, Done, Succeeded
    <2> QED
      BY <1>2, <1>4, <2>4, <2>6
  <1> QED
    BY <1>5, <1>6
-----------------------------------------------------------------------------
(* Steps.                                                                  *)

(* A step that leaves goals open and settles none is none of the table's.  *)

LEMMA NothingShows ==
  ASSUME UNCHANGED <<memo, request, winners>>, Done' <=> Done
  PROVE  UNCHANGED Table!tableVars
  <1>1. VerdictNow' = VerdictNow
    BY DEF VerdictNow, Succeeded, Settled, Root
  <1>2. TableNow' = TableNow
    BY DEF TableNow
  <1>3. (~prune /\ ~greedy)' = (~prune /\ ~greedy)
    BY DEF prune, greedy
  <1> QED
    BY <1>1, <1>2, <1>3 DEF Table!tableVars, VerdictNow, TableNow

LEMMA StillOpen ==
  ASSUME IInv, Searching, NEW k, NEW f, stack' = [stack EXCEPT ![k] = f]
  PROVE  Done' <=> Done
  <1>1. stack # <<>> /\ stack \in Seq(Goals)
    BY DEF Searching, IInv, TypeOK
  <1>2. DOMAIN stack' = DOMAIN stack /\ DOMAIN stack # {}
    BY <1>1
  <1>3. stack' # <<>>
    BY <1>2
  <1> QED
    BY <1>1, <1>3 DEF Done

LEMMA SettlingAnswers ==
  ASSUME SimInv, SettleGoal
  PROVE  Table!Answer
  <1> DEFINE g == Top.group
             a == SettledEntry
  <1>1. /\ g \in DOMAIN memo /\ Table!Answering(g, a.required) = {}
        /\ a \in TableNow'[g] \ TableNow[g]
        /\ TableNow' = [TableNow EXCEPT ![g] = @ \cup {a}]
    BY AnswerAdded DEF SimInv
  <1>2. Table!Acceptable(g, a)
    BY AnswerAcceptable DEF SimInv
  <1>3. /\ VerdictNow = "open"
        /\ VerdictNow' = IF Table!Asks(g, a) THEN "found" ELSE "open"
    BY AnswerVerdict DEF SimInv
  <1>4. UNCHANGED <<memo, request.required, ~prune /\ ~greedy>>
    BY DEF SettleGoal, prune, greedy
  <1> HIDE DEF g, a
  <1> QED
    BY <1>1, <1>2, <1>3, <1>4 DEF Table!Answer, TableNow, VerdictNow

LEMMA FailingGivesUp ==
  ASSUME SimInv, FailGoal, Len(stack) = 1
  PROVE  Table!GiveUp
  <1>1. /\ Searching /\ stack' = <<>> /\ UNCHANGED <<memo, request, winners>>
        /\ TypeOK /\ OneAnswerEach /\ memo \in Memos
    BY DEF FailGoal, Exhausted, Choosing, SimInv, IInv, TypeOK, CostsInv
  <1>2. stack[1].group = Root /\ stack[1].required = request.required
    BY <1>1 DEF SimInv, GoalsLinked, Searching
  <1>3. ~Answered(winners[Root], request.required)
    BY <1>2 DEF SimInv, IInv, GoalsOK
  <1>4. Root = Len(memo) /\ Root \in 1..Len(memo)
    BY <1>1, MemoType DEF Root
  <1>5. Table!Answering(Len(memo), request.required) = {}
    BY <1>1, <1>3, <1>4, TableAnswers
  <1>6. VerdictNow = "open"
    BY <1>1 DEF VerdictNow, Done, Succeeded, Searching
  <1>7. VerdictNow' = "none"
    <2>1. ~Settled(Root, request.required)'
      BY <1>1, <1>3 DEF Settled, Root
    <2> QED
      BY <1>1, <2>1 DEF VerdictNow, Done, Succeeded
  <1>8. TableNow' = TableNow /\ UNCHANGED <<memo, request.required, ~prune /\ ~greedy>>
    BY <1>1 DEF TableNow, prune, greedy
  <1> QED
    BY <1>5, <1>6, <1>7, <1>8 DEF Table!GiveUp, TableNow, VerdictNow

LEMMA SearchSimulates ==
  SimInv /\ [Next]_vars => [Table!Answer \/ Table!GiveUp]_Table!tableVars
  <1> SUFFICES ASSUME SimInv, [Next]_vars
               PROVE  [Table!Answer \/ Table!GiveUp]_Table!tableVars
    OBVIOUS
  <1>1. IInv
    BY DEF SimInv
  <1>2. CASE SettleGoal
    BY <1>2, SettlingAnswers
  <1>3. CASE FailGoal
    <2>1. CASE Len(stack) = 1
      BY <1>3, <2>1, FailingGivesUp
    <2>2. CASE Len(stack) # 1
      <3>1. /\ Searching /\ UNCHANGED <<memo, request, winners>>
            /\ stack' = [Popped EXCEPT ![Len(stack) - 1] = AfterRoute(stack[Len(stack) - 1])]
        BY <1>3, <2>2 DEF FailGoal, Exhausted, Choosing
      <3>2. Popped # <<>> /\ Popped \in Seq(Goals)
        BY <1>1, <2>2, <3>1, PoppedGoals, TopFacts
      <3>3. DOMAIN stack' = DOMAIN Popped /\ DOMAIN Popped # {}
        BY <3>1, <3>2
      <3>4. stack' # <<>>
        BY <3>3
      <3> QED
        BY <3>1, <3>4, NothingShows DEF Done, Searching
    <2> QED
      BY <2>1, <2>2
  <1>4. CASE PruneCandidate \/ StartCandidate \/ AcceptInput \/ RejectInput \/ FinishRoute
    <2>1. /\ Searching /\ UNCHANGED <<memo, request, winners>>
          /\ \E f : stack' = [stack EXCEPT ![Len(stack)] = f]
      BY <1>4 DEF PruneCandidate, StartCandidate, AcceptInput, RejectInput, FinishRoute,
                  Candidate, Choosing, AwaitsInput, SetTop
    <2> QED
      BY <1>1, <2>1, StillOpen, NothingShows
  <1>5. CASE OpenGoal
    <2>1. /\ Searching /\ UNCHANGED <<memo, request, winners>>
          /\ stack' = Append(stack, NewGoal(Input(Top), Demand(Top), InputBudget(Top)))
          /\ stack \in Seq(Goals)
      BY <1>1, <1>5 DEF OpenGoal, AwaitsInput, IInv, TypeOK
    <2>2. Len(stack') = Len(stack) + 1 /\ Len(stack) \in Nat
      BY <2>1
    <2>3. stack' # <<>>
      BY <2>2
    <2> QED
      BY <2>1, <2>3, NothingShows DEF Done, Searching
  <1>6. CASE UNCHANGED vars
    BY <1>6, NothingShows DEF vars, Done
  <1> QED
    BY <1>2, <1>3, <1>4, <1>5, <1>6 DEF Next

LEMMA InitSimulates == PlannerInit => SimInv /\ Table!TableInit
  <1> SUFFICES ASSUME PlannerInit PROVE SimInv /\ Table!TableInit
    OBVIOUS
  <1>1. Init
    BY DEF PlannerInit
  <1>2. SimInv
    BY <1>1, InitIInv, InitCosts, InitLinked, InitWeighed DEF SimInv
  <1>3. VerdictNow = "open"
    <2>1. stack # <<>>
      BY <1>1 DEF Init
    <2> QED
      BY <2>1 DEF VerdictNow, Done, Succeeded
  <1>4. TableNow = [g \in DOMAIN memo |-> {}]
    <2>1. memo \in Memos /\ winners = [g \in 1..Len(memo) |-> <<>>]
      BY <1>1 DEF Init
    <2>2. DOMAIN memo = 1..Len(memo)
      BY <2>1, MemoType
    <2>3. \A g \in DOMAIN memo : DOMAIN winners[g] = {}
      BY <2>1, <2>2
    <2> QED
      BY <2>3 DEF TableNow
  <1> QED
    BY <1>2, <1>3, <1>4 DEF Table!TableInit, VerdictNow, TableNow

(* Every answer the search records is a candidate of its group over the    *)

(* answers recorded for its inputs, at their price and with what they      *)
(* provide; no question is answered twice; an exhaustive search settles no *)
(* question for more than the answers it has allow; and the search says    *)
(* that there is no plan only when the root's question has no answer.      *)
THEOREM SearchKeepsItsPromise == PlannerSpec => KeepsAnswerTable
  <1>1. [PlannerNext]_plannerVars => [Next]_vars
    BY DEF PlannerNext, plannerVars, Search, Refuse, Extract, ExtractInput, AttachInput, Deliver
  <1>2. SimInv /\ [PlannerNext]_plannerVars => SimInv'
    BY <1>1, SimStep
  <1>3. SimInv /\ [PlannerNext]_plannerVars => [Table!Answer \/ Table!GiveUp]_Table!tableVars
    BY <1>1, SearchSimulates
  <1> QED
    BY <1>2, <1>3, InitSimulates, PTL DEF PlannerSpec, KeepsAnswerTable, Table!TableSpec
=============================================================================
