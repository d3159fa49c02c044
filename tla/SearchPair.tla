----------------------------- MODULE SearchPair -----------------------------
(***************************************************************************)
(* Two searches of the same memo for the same required output, one after   *)
(* the other, that differ only in their switches.  lowering.hpp promises   *)
(* that pruning is a pure speedup, and lowering.cpp says what the budget   *)
(* guard trades away; both are statements about a PAIR of runs.            *)
(***************************************************************************)
EXTENDS CostModel, FiniteSets

CONSTANTS
  Memos, Requirements,
  FirstModes, SecondModes   \* the switches of either search

VARIABLES memo, request1, winners1, stack1, stats1,
                request2, winners2, stack2, stats2

First  == INSTANCE PlanSearch
            WITH Modes <- FirstModes, request <- request1, winners <- winners1,
                 stack <- stack1, stats <- stats1
Second == INSTANCE PlanSearch
            WITH Modes <- SecondModes, request <- request2, winners <- winners2,
                 stack <- stack2, stats <- stats2

firstVars  == <<request1, winners1, stack1, stats1>>
secondVars == <<request2, winners2, stack2, stats2>>
pairVars   == <<memo, firstVars, secondVars>>

PairInit ==
  /\ First!Init
  /\ Second!Init
  /\ request1.required = request2.required

PairNext ==
  \/ First!Next /\ UNCHANGED secondVars
  \/ First!Done /\ Second!Next /\ UNCHANGED firstVars

PairSpec == PairInit /\ [][PairNext]_pairVars /\ WF_pairVars(PairNext)
-----------------------------------------------------------------------------
BothDone  == First!Done /\ Second!Done
BothFound == First!Succeeded /\ Second!Succeeded

FirstBest  == First!WinnerFor(First!Root, request1.required)
SecondBest == Second!WinnerFor(Second!Root, request2.required)

(* The first search never finds a cheaper plan than the second, and finds  *)
(* none where the second finds none, under either switch.                  *)
FirstNeverBetter ==
  BothDone => /\ First!Succeeded => Second!Succeeded
              /\ BothFound => SecondBest.cost <= FirstBest.cost

(* Whether a request can be served does not depend on the switches.        *)
SamePlannability == BothDone => (First!Succeeded <=> Second!Succeeded)

(* Pruning never loses the only plans there are.  Nor does the guard,      *)
(* whose shortcut is not to ask inputs for what only they can provide,     *)
(* unless somebody asks for fresh rows: nothing else is beyond an enforcer.*)
AsksForFresh ==
  \/ request1.required.freshness = "Fresh"
  \/ \E g \in DOMAIN memo : \E e \in DOMAIN memo[g].exprs :
       memo[g].exprs[e].op \in {"Update", "Delete"}

ShorteningFindsAPlan == ~(request1.mode.greedy /\ AsksForFresh) => SamePlannability

(* The root's winner is the same candidate, at the same cost, built on the *)
(* same child goals.                                                       *)
SamePlan ==
  BothFound => /\ FirstBest.cost = SecondBest.cost
               /\ FirstBest.expr = SecondBest.expr
               /\ FirstBest.inputRequired = SecondBest.inputRequired

ReadersOf(g) ==
  {h \in DOMAIN memo : \E e \in DOMAIN memo[h].exprs :
     \E i \in DOMAIN memo[h].exprs[e].inputs : memo[h].exprs[e].inputs[i] = g}

TreeShaped == \A g \in DOMAIN memo : Cardinality(ReadersOf(g)) <= 1

(* Where no group is read by two others, whose budgets could differ,       *)
(* pruning does not change the plan: it is a pure speedup.                 *)
PruningKeepsThePlan == ~request1.mode.greedy /\ TreeShaped => SamePlan
=============================================================================
