------------------------------ MODULE Pipelines ------------------------------
(***************************************************************************)
(* Plans as trees, and the pipelines an executor cuts them into            *)
(* (src/src/pipeline.cpp): the runs of operators a row flows through       *)
(* without being stopped.                                                  *)
(*                                                                         *)
(* A plan is the sequence of its nodes in post-order, the root last: every *)
(* node has `kids', the positions of its inputs, `op', `buildRight', the   *)
(* join `keys' and `dist', where derive() says its rows are.               *)
(***************************************************************************)
EXTENDS PhysicalProperties, Selections

Shifted(tree, by) ==
  [i \in DOMAIN tree |-> [tree[i] EXCEPT !.kids = [k \in DOMAIN @ |-> @[k] + by]]]

(* The trees of up to two inputs, one after the other.                     *)
Forest(trees) ==
  CASE Len(trees) = 0 -> <<>>
    [] Len(trees) = 1 -> trees[1]
    [] OTHER          -> trees[1] \o Shifted(trees[2], Len(trees[1]))

RootsOf(trees) ==
  [k \in DOMAIN trees |-> IF k = 1 THEN Len(trees[1]) ELSE Len(Forest(trees))]

(* A node over these trees.                                                *)
Planted(trees, op, buildRight, keys, dist) ==
  Append(Forest(trees),
         [op |-> op, buildRight |-> buildRight, keys |-> keys, dist |-> dist,
          kids |-> RootsOf(trees)])

(* An enforcer over a tree, where one is needed.                           *)
Topped(tree, op, needed, dist) ==
  IF needed THEN Planted(<<tree>>, op, FALSE, <<>>, dist) ELSE tree
-----------------------------------------------------------------------------
(* Seeded defect: a hash join's probe side is the one that is stopped.     *)
EdgeKindProbe(op, i, buildRight) ==
  CASE op = "HashJoin" -> IF (i = 2) = buildRight THEN "Streaming" ELSE "Materialized"
    [] op \in {"HashSemiJoin", "HashAntiJoin", "HashSetOp"}
                       -> IF i = 2 THEN "Materialized" ELSE "Streaming"
    [] op \in {"Sort", "HashAggregate", "HashGroupingSets", "HashDistinct"}
                       -> "Materialized"
    [] op \in NestedLoops \cup {"RecursiveFixpoint"}
                       -> IF i = 2 THEN "Rescanned" ELSE "Streaming"
    [] op = "MergeJoin" -> IF i = 2 THEN "Separate" ELSE "Streaming"
    [] op \in {"UnionAll", "Exchange"} -> "Separate"
    [] OTHER           -> "Streaming"

(* How an operator consumes its i-th input: row by row, held in memory     *)
(* before it emits anything, executed again and again, or as a loop of its *)
(* own.                                                                    *)
EdgeKind(op, i, buildRight) ==
  CASE op = "HashJoin" -> IF (i = 2) = buildRight THEN "Materialized" ELSE "Streaming"
    [] op \in {"HashSemiJoin", "HashAntiJoin", "HashSetOp"}
                       -> IF i = 2 THEN "Materialized" ELSE "Streaming"
    [] op \in {"Sort", "HashAggregate", "HashGroupingSets", "HashDistinct"}
                       -> "Materialized"
    [] op \in NestedLoops \cup {"RecursiveFixpoint"}
                       -> IF i = 2 THEN "Rescanned" ELSE "Streaming"
    [] op = "MergeJoin" -> IF i = 2 THEN "Separate" ELSE "Streaming"
    [] op \in {"UnionAll", "Exchange"} -> "Separate"
    [] OTHER           -> "Streaming"

InputKinds(node) ==
  [k \in DOMAIN node.kids |-> EdgeKind(node.op, k, node.buildRight)]

StreamedInputs(node) == {k \in DOMAIN node.kids : InputKinds(node)[k] = "Streaming"}
StoppedInputs(node)  == DOMAIN node.kids \ StreamedInputs(node)

(* Where rows stop: below each edge that does not stream, and at the root. *)
Stops(tree) ==
  {Len(tree)}
    \cup UNION {{tree[n].kids[k] : k \in StoppedInputs(tree[n])} : n \in DOMAIN tree}

(* Seeded defect: the pipelines come out from the root downward.           *)
SinksDownward(tree) ==
  Reverse(Passing([n \in DOMAIN tree |-> n], LAMBDA n : n \in Stops(tree)))

(* collect_sinks() walks in post-order, which is the order of the nodes.   *)
Sinks(tree) == Passing([n \in DOMAIN tree |-> n], LAMBDA n : n \in Stops(tree))

(* The nodes a row passes on its way to node s, s last.                    *)
Members(tree, s) ==
  LET upTo[n \in DOMAIN tree] ==
        Append(FlattenSeq([k \in DOMAIN tree[n].kids |->
                 IF k \in StreamedInputs(tree[n]) THEN upTo[tree[n].kids[k]] ELSE <<>>]),
               n)
  IN  upTo[s]

PipelinesOf(tree) ==
  [p \in DOMAIN Sinks(tree) |->
     [sink |-> Sinks(tree)[p], members |-> Members(tree, Sinks(tree)[p])]]
=============================================================================
