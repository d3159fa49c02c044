----------------------------- MODULE AnswerTable -----------------------------
(***************************************************************************)
(* What the search promises, with none of how it goes about it: a table of *)
(* answers per group grows, one answer at a time and never two to one      *)
(* question, each answer a candidate whose inputs' questions have answers  *)
(* in the table already; until the root's question is answered, or is      *)
(* given up.  Unless the search is told to take shortcuts, an answer is    *)
(* the cheapest that the table it is added to has the inputs for.          *)
(***************************************************************************)
EXTENDS CostModel

VARIABLES
  memo,        \* the groups
  wanted,      \* what is required of the root
  exhaustive,  \* whether no shortcut is allowed
  table,       \* per group, the set of its answers
  verdict      \* "open", "found" or "none"

tableVars == <<memo, wanted, exhaustive, table, verdict>>

Answering(g, r) == {a \in table[g] : SameRequirement(a.required, r)}
AnswerTo(g, r)  == CHOOSE a \in Answering(g, r) : TRUE

(* The ways to serve requirement r of group g: every candidate, asking of  *)
(* its inputs what it needs itself or, where it hands rows on unchanged,   *)
(* what its consumer wants.                                                *)
Routes(g, r) ==
  LET needs(i)  == RequiredInputProperties(memo[g].exprs[i], memo[g])
      passesOn(i) == CanPushDown(memo[g].exprs[i].op)
  IN  {[expr |-> i, demands |-> needs(i)] : i \in DOMAIN memo[g].exprs}
        \cup {[expr |-> i, demands |-> PushedRequirements(needs(i), r)] :
                i \in {j \in DOMAIN memo[g].exprs : passesOn(j)}}

InputsOf(g, route) ==
  LET e == memo[g].exprs[route.expr] IN
  [k \in DOMAIN e.inputs |-> Answering(e.inputs[k], route.demands[k])]

Answered(g, route) == \A k \in DOMAIN InputsOf(g, route) : InputsOf(g, route)[k] # {}

(* What running the inputs of e costs, `ins' being the answers for them.    *)
InputsPrice(e, ins) ==
  LET price(k) == ins[k].cost * InputEvaluations(e.op, k)
  IN  CASE Len(e.inputs) = 0 -> 0
        [] Len(e.inputs) = 1 -> price(1)
        [] OTHER             -> price(1) + price(2)

AnswersOf(g, route) ==
  LET e == memo[g].exprs[route.expr] IN
  [k \in DOMAIN e.inputs |-> AnswerTo(e.inputs[k], route.demands[k])]

(* What a route provides by itself, over the answers for its inputs.       *)
Gives(g, route) ==
  LET e == memo[g].exprs[route.expr] IN
  DeriveOp(e, memo[g], [k \in DOMAIN e.inputs |-> AnswersOf(g, route)[k].provided])

(* What a route costs: its inputs, itself and the enforcers on top.        *)
PriceOf(g, r, route) ==
  LET e == memo[g].exprs[route.expr]
  IN  Plus(InputsPrice(e, AnswersOf(g, route))
             + OperatorCost(e, memo[g], [k \in DOMAIN e.inputs |-> memo[e.inputs[k]].rows]),
           EnforcementCost(Gives(g, route), r, memo[g].rows))

RouteOf(a) == [expr |-> a.expr, demands |-> a.inputRequired]

Acceptable(g, a) ==
  /\ RouteOf(a) \in Routes(g, a.required)
  /\ Answered(g, RouteOf(a))
  /\ a.cost = PriceOf(g, a.required, RouteOf(a)) /\ a.cost # Infinity
  /\ a.provided \in {Gives(g, RouteOf(a)), Upgraded(Gives(g, RouteOf(a)), a.required)}
  /\ exhaustive =>
       \A route \in Routes(g, a.required) :
         Answered(g, route) => ~Less(PriceOf(g, a.required, route), a.cost)
-----------------------------------------------------------------------------
TableInit ==
  /\ table = [g \in DOMAIN memo |-> {}]
  /\ verdict = "open"

Asks(g, a) == g = Len(memo) /\ SameRequirement(a.required, wanted)

Answer ==
  /\ verdict = "open"
  /\ \E g \in DOMAIN memo : \E a \in table'[g] \ table[g] :
       /\ Answering(g, a.required) = {}
       /\ Acceptable(g, a)
       /\ table' = [table EXCEPT ![g] = @ \cup {a}]
       /\ verdict' = IF Asks(g, a) THEN "found" ELSE "open"
  /\ UNCHANGED <<memo, wanted, exhaustive>>

GiveUp ==
  /\ verdict = "open"
  /\ Answering(Len(memo), wanted) = {}
  /\ verdict' = "none"
  /\ UNCHANGED <<memo, wanted, exhaustive, table>>

TableSpec ==
  TableInit /\ [][Answer \/ GiveUp]_tableVars
=============================================================================
