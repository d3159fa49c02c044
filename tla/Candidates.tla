----------------------------- MODULE Candidates -----------------------------
(***************************************************************************)
(* Which physical candidates exploration gives a memo group: the built-in  *)
(* implementation rules (builtin_physical) times the storage formats of a  *)
(* scan times the build sides of a hash join, less the inapplicable ones   *)
(* (add_candidates, src/src/lowering.cpp).  A memo is the sequence of its  *)
(* groups, children first; its last group is the root.                     *)
(***************************************************************************)
EXTENDS PhysicalProperties, Selections

EmptyGroup ==
  [exprs |-> <<>>, rows |-> 0, sortKeys |-> <<>>, split |-> 0, sets |-> 0,
   projects |-> <<>>, joinKind |-> "Inner", setOp |-> "Union", scanDist |-> Single]

BuiltinPhysical(logicalOp) ==
  CASE logicalOp = "Scan"         -> <<"SeqScan">>
    [] logicalOp = "Returning"    -> <<"Project">>
    [] logicalOp = "Join"         -> <<"HashJoin", "NestedLoopJoin">>
    [] logicalOp = "SemiJoin"     -> <<"HashSemiJoin", "NestedLoopSemiJoin">>
    [] logicalOp = "AntiJoin"     -> <<"HashAntiJoin", "NestedLoopAntiJoin">>
    [] logicalOp = "Aggregate"    -> <<"HashAggregate", "StreamingAggregate",
                                       "HashGroupingSets">>
    [] logicalOp = "Distinct"     -> <<"HashDistinct", "StreamingDistinct">>
    [] logicalOp = "SetOp"        -> <<"UnionAll", "HashSetOp">>
    [] logicalOp = "Values"       -> <<"ValuesScan">>
    [] logicalOp = "RecursiveCTE" -> <<"RecursiveFixpoint">>
    [] OTHER                      -> <<logicalOp>>

BuildSides(op, g) ==
  IF op = "HashJoin" /\ g.joinKind \in {"Inner", "Cross"}
  THEN <<TRUE, FALSE>> ELSE <<TRUE>>

(* One candidate per applicable operator, format and build side, in the    *)
(* order in which the search will meet them.                               *)
CandidatesOf(g, ops, formats, inputs, keys, residuals) ==
  LET applicable == Passing(ops, LAMBDA op : IsApplicable(op, keys, g))
      candidate(op, f, side) ==
        [op |-> op, inputs |-> inputs, keys |-> keys, residuals |-> residuals,
         format |-> f.format, freshness |-> f.freshness, buildRight |-> side]
      ofFormat(op, f) ==
        [s \in DOMAIN BuildSides(op, g) |-> candidate(op, f, BuildSides(op, g)[s])]
      ofOp(op) == FlattenSeq([k \in DOMAIN formats |-> ofFormat(op, formats[k])])
  IN  FlattenSeq([i \in DOMAIN applicable |-> ofOp(applicable[i])])

(* What a non-scan's single, irrelevant format slot holds.                 *)
NoFormats == <<[format |-> "Row", freshness |-> "Fresh"]>>

AddCandidates(g, ops, formats, inputs, keys, residuals) ==
  [g EXCEPT !.exprs = @ \o CandidatesOf(g, ops, formats, inputs, keys, residuals)]
=============================================================================
