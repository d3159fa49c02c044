------------------------------ MODULE Planner -------------------------------
(***************************************************************************)
(* lower() after exploration: the search, then the extraction of the       *)
(* winner's plan with its enforcers (Memo::extract_winner_for, enforce),   *)
(* the root's own enforcer and the checked postcondition.                  *)
(*                                                                         *)
(* As with the search, the recursion of extract_winner_for() is an         *)
(* explicit stack, here of the nodes under construction.  A finished       *)
(* subplan is a tree and what the properties ask about it: what derive()   *)
(* says of it, what cost_of() says of it, whether rows of a lagging copy   *)
(* reach its output or the rows a write modifies, what order its rows are  *)
(* really in, and whether an operator in it got rows in an order it cannot *)
(* work with.                                                              *)
(*                                                                         *)
(* The search prices operators on the rows of the memo's groups, which are *)
(* data of the memo.  cost_of() estimates the rows of the tree it is given *)
(* anew, bottom up, from the operators that were chosen.                   *)
(***************************************************************************)
EXTENDS PlanSearch, Pipelines

CONSTANT RowsOf(_, _, _)   \* the cardinality model of the call: the rows of an
                           \* operator, from its payload and its inputs' rows

VARIABLES
  nodes,     \* the nodes under construction, outermost first
  outcome,   \* what lower() reports, or the phase it is in
  plan       \* the finished plan

plannerVars == <<vars, nodes, outcome, plan>>

(* The enforcers above a plan, in the order they are put there.            *)
EnforcedTree(tree, have, required) ==
  LET dist      == Enforced(have, required).dist
      moved     == Topped(tree, "Exchange", NeedsExchange(have, required), dist)
      converted == Topped(moved, "FormatConvert", NeedsConvert(have, required), dist)
  IN  Topped(converted, "Sort", NeedsSort(have, required), dist)

(* enforce(), for a requirement that can be established.  No enforcer      *)
(* adds or drops a row.                                                    *)
Enforce(p, required) ==
  [p EXCEPT !.props = Enforced(@, required),
            !.cost  = @ + EnforcementCost(p.props, required, p.rows),
            !.order = IF NeedsSort(p.props, required) THEN required.sort
                      ELSE IF NeedsExchange(p.props, required) THEN <<>> ELSE @,
            !.tree  = EnforcedTree(@, p.props, required)]

NoPlan == [cost |-> 0, rows |-> 0, props |-> Unconstrained, stale |-> FALSE,
           staleWrite |-> FALSE, order |-> <<>>, misordered |-> FALSE, tree |-> <<>>]
-----------------------------------------------------------------------------
(* A node under construction: its group, its winner, its finished inputs.  *)
NewNode(g, required) ==
  [group |-> g, winner |-> WinnerFor(g, required), kids |-> <<>>]

Node       == nodes[Len(nodes)]
NodeExpr   == memo[Node.group].exprs[Node.winner.expr]
NextKid    == Len(Node.kids) + 1
KidGroup   == NodeExpr.inputs[NextKid]

(* Seeded defect: the operator's own requirements, not its winner's goals. *)
NextDemandOwn(n) ==
  RequiredInputProperties(memo[n.group].exprs[n.winner.expr], memo[n.group])
    [Len(n.kids) + 1]
NextDemand(n) == n.winner.inputRequired[Len(n.kids) + 1]
Complete   == NextKid > Len(NodeExpr.inputs)

KidsCost(e, kids) ==
  LET cost(k) == kids[k].cost * InputEvaluations(e.op, k)
  IN  CASE Len(kids) = 0 -> 0
        [] Len(kids) = 1 -> cost(1)
        [] OTHER         -> cost(1) + cost(2)

(* Rows sorted by these keys, once projected: sorted by the columns the    *)
(* keys became, up to the first key that is projected away.                *)
Renumbered(order, projects) ==
  LET kept == {k \in DOMAIN order : \A j \in 1..k : order[j].column \in Range(projects)}
      became(key) == CHOOSE i \in DOMAIN projects : projects[i] = key.column
  IN  [k \in kept |-> [order[k] EXCEPT !.column = became(order[k]) - 1]]

(* The order rows really leave an operator in, given that of its input.    *)
RowOrder(e, g, in) ==
  CASE e.op = "Project"            -> Renumbered(in, g.projects)
    [] e.op = "StreamingAggregate" -> [k \in DOMAIN g.sortKeys |->
                                         [g.sortKeys[k] EXCEPT !.column = k - 1]]
    [] OTHER                       -> OutputOrder(e, g, <<[sort |-> in]>>)

InOrder(e, g, kids) ==
  \A k \in DOMAIN kids : SortPrefix(kids[k].order, InputOrder(e, g, k))

Assembled(g, e, kids) ==
  LET fromStale == \E k \in DOMAIN kids : kids[k].stale
      props     == DeriveOp(e, memo[g], [k \in DOMAIN kids |-> kids[k].props])
      in        == [k \in DOMAIN kids |-> kids[k].rows]
      rows      == RowsOf(e, memo[g], in)
  IN  [cost       |-> KidsCost(e, kids) + OperatorCost(e, [memo[g] EXCEPT !.rows = rows], in),
       rows       |-> rows,
       props      |-> props,
       stale      |-> \/ e.op = "SeqScan" /\ e.freshness = "Stale"
                      \/ fromStale /\ e.op \notin {"Insert", "Update", "Delete"},
       staleWrite |-> \/ fromStale /\ e.op \in {"Update", "Delete"}
                      \/ \E k \in DOMAIN kids : kids[k].staleWrite,
       order      |-> RowOrder(e, memo[g], IF kids = <<>> THEN <<>> ELSE kids[1].order),
       misordered |-> \/ ~InOrder(e, memo[g], kids)
                      \/ \E k \in DOMAIN kids : kids[k].misordered,
       tree       |-> Planted([k \in DOMAIN kids |-> kids[k].tree],
                              e.op, e.buildRight, e.keys, props.dist)]

Subplan == Assembled(Node.group, NodeExpr, Node.kids)

ExtractionFailed == "winner extraction failed"
-----------------------------------------------------------------------------
PlannerInit == Init /\ nodes = <<>> /\ outcome = "searching" /\ plan = NoPlan

Search == Next /\ UNCHANGED <<nodes, outcome, plan>>

Refuse ==
  /\ Done /\ outcome = "searching" /\ ~Succeeded
  /\ outcome' = "no plan satisfies the required output properties"
  /\ UNCHANGED <<vars, nodes, plan>>

Extract ==
  /\ Done /\ outcome = "searching" /\ Succeeded
  /\ outcome' = "extracting"
  /\ nodes' = <<NewNode(Root, request.required)>>
  /\ UNCHANGED <<vars, plan>>

Extracting == outcome = "extracting" /\ nodes # <<>>

(* Recurse into the next input, under the goal the winner recorded.        *)
ExtractInput ==
  /\ Extracting /\ ~Complete
  /\ IF Settled(KidGroup, NextDemand(Node))
     THEN nodes' = Append(nodes, NewNode(KidGroup, NextDemand(Node))) /\ UNCHANGED outcome
     ELSE nodes' = <<>> /\ outcome' = ExtractionFailed
  /\ UNCHANGED <<vars, plan>>

(* Seeded defect: the finished input is not handed to its parent.          *)
AttachInputLost ==
  /\ Extracting /\ Complete /\ Len(nodes) > 1
  /\ nodes' = SubSeq(nodes, 1, Len(nodes) - 1)
  /\ UNCHANGED <<vars, outcome, plan>>

(* A node is complete: its parent enforces on it the goal it was asked     *)
(* for and takes it as its next input.                                     *)
AttachInput ==
  /\ Extracting /\ Complete /\ Len(nodes) > 1
  /\ LET parent == nodes[Len(nodes) - 1]
         demand == NextDemand(parent)
         kid    == Enforce(Subplan, demand)
     IN  IF Enforceable(Subplan.props, demand)
         THEN /\ nodes' = Append(SubSeq(nodes, 1, Len(nodes) - 2),
                                 [parent EXCEPT !.kids = Append(@, kid)])
              /\ UNCHANGED outcome
         ELSE nodes' = <<>> /\ outcome' = ExtractionFailed
  /\ UNCHANGED <<vars, plan>>

(* The root has no parent, so lower() places its enforcer, then checks the *)
(* finished plan against what was asked.                                   *)
Deliver ==
  /\ Extracting /\ Complete /\ Len(nodes) = 1
  /\ LET required == request.required
         final    == Enforce(Subplan, required)
     IN  /\ outcome' = IF ~Enforceable(Subplan.props, required)
                       THEN "the required output properties cannot be enforced"
                       ELSE IF Satisfies(final.props, required) THEN "ok" ELSE "internal"
         /\ plan' = final
  /\ nodes' = <<>>
  /\ UNCHANGED vars

PlannerNext ==
  Search \/ Refuse \/ Extract \/ ExtractInput \/ AttachInput \/ Deliver

PlannerSpec ==
  PlannerInit /\ [][PlannerNext]_plannerVars /\ WF_plannerVars(PlannerNext)

Returned == Done /\ outcome \notin {"searching", "extracting"}
-----------------------------------------------------------------------------
(* A search that finds a winner is always followed by a plan: none of the  *)
(* failures lower() reports after a successful search can occur.           *)
SuccessBuildsAPlan ==
  outcome \in {"searching", "extracting", "ok",
               "no plan satisfies the required output properties"}

(* A plan that must see the latest writes never shows rows of a lagging    *)
(* copy, and no UPDATE or DELETE picks its rows from one.                  *)
FreshnessHonoured ==
  outcome = "ok" =>
    /\ request.required.freshness = "Fresh" => ~plan.stale
    /\ ~plan.staleWrite

(* What the plan says of the order of its rows is so: every operator that  *)
(* reads its input in an order gets it in that order, and the rows arrive  *)
(* in the order that was asked for.                                        *)
RowsInOrder ==
  outcome = "ok" => ~plan.misordered /\ SortPrefix(plan.order, request.required.sort)

(* The columns by which the operators of a memo, or a consumer, may have   *)
(* rows ordered.                                                           *)
ColumnsOf(order) == {order[k].column : k \in DOMAIN order}

OrderedBy(e, g) ==
  ColumnsOf(InputOrder(e, g, 1)) \cup ColumnsOf(InputOrder(e, g, 2))
    \cup (IF e.op = "Sort" THEN ColumnsOf(g.sortKeys) ELSE {})

OrderedIn(g) == UNION {OrderedBy(g.exprs[i], g) : i \in 1..Len(g.exprs)}

RequiredColumns == UNION {ColumnsOf(r.sort) : r \in Requirements}

OrderColumns(m) == RequiredColumns \cup UNION {OrderedIn(m[g]) : g \in 1..Len(m)}

(* Of a memo: no projection moves, drops or repeats a column that rows may *)
(* be ordered by, and grouping keys are already numbered as the output     *)
(* numbers them, so that derive(), which renumbers neither, is right.      *)
OrdersStayInPlace(m) ==
  \A g \in 1..Len(m) : \A i \in 1..Len(m[g].exprs) :
    /\ m[g].exprs[i].op = "Project" =>
         \A c \in OrderColumns(m) :
           {j \in DOMAIN m[g].projects : m[g].projects[j] = c} = {c + 1}
    /\ m[g].exprs[i].op = "StreamingAggregate" =>
         \A k \in DOMAIN m[g].sortKeys : m[g].sortKeys[k].column = k - 1

(* Of a memo: every candidate of a group is estimated to make the rows of  *)
(* its group out of those of its input groups, whichever candidate they    *)
(* were estimated by when the group was added.                             *)
EstimatesAgree(m) ==
  \A g \in 1..Len(m) : \A i \in 1..Len(m[g].exprs) :
    LET e == m[g].exprs[i] IN
    RowsOf(e, m[g], [k \in DOMAIN e.inputs |-> m[e.inputs[k]].rows]) = m[g].rows

(* The winner's cost is no underestimate: the plan that is built never     *)
(* costs more, by cost_of(), than the search was told, so the comparison   *)
(* that chose it was not won by work left out of the price.                *)
BuiltCostsAtMost ==
  outcome = "ok" => plan.cost <= WinnerFor(Root, request.required).cost

(* It is none where the candidates of a group are estimated alike and the  *)
(* plan moves no rows: only another estimate can make the tree larger than *)
(* its groups, and only an exchange can cost the plan an order, or a       *)
(* place, that its inputs were recorded to provide.                        *)
UnmovedCostsAtMost ==
  /\ EstimatesAgree(memo)
  /\ \A n \in DOMAIN plan.tree : plan.tree[n].op # "Exchange"
  => BuiltCostsAtMost

(* No table is partitioned and nobody asks where the rows are.             *)
OneNode ==
  /\ request.required.dist = AnyDist
  /\ \A g \in DOMAIN memo : memo[g].scanDist = Single

(* The pipelines of a finished plan are a partition of its nodes and a     *)
(* schedule: whatever a loop reads from an input that is not part of it    *)
(* comes out of a pipeline that ran before it.                             *)
PipelinesScheduled ==
  outcome = "ok" =>
    LET tree == plan.tree
        runs == PipelinesOf(tree)
    IN  /\ \A n \in DOMAIN tree :
             Cardinality({at \in (DOMAIN runs) \X (DOMAIN tree) :
                            /\ at[2] \in DOMAIN runs[at[1]].members
                            /\ runs[at[1]].members[at[2]] = n}) = 1
        /\ \A p \in DOMAIN runs : \A i \in DOMAIN runs[p].members :
             LET node == tree[runs[p].members[i]] IN
             \A k \in StoppedInputs(node) : \E q \in 1..(p - 1) : runs[q].sink = node.kids[k]

(* The side of a hash join the executor holds in memory is the side the    *)
(* search paid for building: a row more on a held side costs a build, a    *)
(* row more on a streamed side costs a probe.                              *)
BuildSidesPriced ==
  outcome = "ok" =>
    \A n \in DOMAIN plan.tree :
      LET node == plan.tree[n]
          price(in) == OperatorCost(node, memo[Root], in)
      IN  node.op \in {"HashJoin", "HashSemiJoin", "HashAntiJoin"} =>
            \A k \in 1..2 :
              price([i \in 1..2 |-> IF i = k THEN 2 ELSE 1]) - price(<<1, 1>>)
                = Calibration[IF k \in StoppedInputs(node) THEN "hashBuild" ELSE "hashProbe"]

(* Rows that a join must match are on one node: both inputs are in one     *)
(* place, one of them is everywhere, or both are partitioned on the same   *)
(* part of the join's keys.                                                *)
Colocated(node, left, right) ==
  \/ "Broadcast" \in {left.kind, right.kind}
  \/ left.kind = "Single" /\ right.kind = "Single"
  \/ /\ left.kind = "Hashed" /\ right.kind = "Hashed"
     /\ \E used \in SUBSET DOMAIN node.keys :
          /\ left.keys  = {node.keys[i].left : i \in used}
          /\ right.keys = {node.keys[i].right : i \in used}

(* Every join of a finished plan finds its matching rows on one node.      *)
JoinsColocated ==
  outcome = "ok" =>
    \A n \in DOMAIN plan.tree :
      LET node == plan.tree[n] IN
      node.op \in Joins \cup SemiJoins =>
        Colocated(node, plan.tree[node.kids[1]].dist, plan.tree[node.kids[2]].dist)

(* Where every table is in one place no plan moves rows.                   *)
NothingMovesOnOneNode ==
  OneNode /\ outcome = "ok" => \A n \in DOMAIN plan.tree : plan.tree[n].op # "Exchange"

Table ==
  INSTANCE AnswerTable WITH
    wanted     <- request.required,
    exhaustive <- ~prune /\ ~greedy,
    table      <- [g \in DOMAIN memo |-> {winners[g][i] : i \in DOMAIN winners[g]}],
    verdict    <- CASE ~Done     -> "open"
                    [] Succeeded -> "found"
                    [] OTHER     -> "none"

(* The search keeps what it promises: one answer per question, built on    *)
(* answers that were there before it and, of an exhaustive search, never   *)
(* dearer than what those would have allowed.                              *)
KeepsAnswerTable == Table!TableSpec

(* Every call of lower() returns, with a plan or with a reason.            *)
Answers == <>Returned
=============================================================================
