----------------------------- MODULE MCLowering -----------------------------
(* Whole calls of lower(), in pairs that differ in a switch.               *)
EXTENDS Lowering, MCQueries, MCMemos

Plainly ==
  [reorder |-> TRUE, dedup |-> FALSE, freshness |-> "Any", rules |-> BuiltinRules,
   required |-> Unconstrained, prune |-> FALSE, maxJoins |-> 0]

Sorted(ctx) == [ctx EXCEPT !.required.sort = By(0)]

Asking(plans, contexts) == {[plan |-> p, contexts |-> cs] : p \in plans, cs \in contexts}

Reordered(ctx) == <<ctx, [ctx EXCEPT !.reorder = FALSE]>>
Deduped(ctx) == <<ctx, [ctx EXCEPT !.dedup = TRUE]>>
Guarded(ctx) == <<[ctx EXCEPT !.maxJoins = 1], [ctx EXCEPT !.maxJoins = 1, !.dedup = TRUE, !.reorder = FALSE]>>
Freshly(ctx) == <<[ctx EXCEPT !.freshness = "Fresh"], [ctx EXCEPT !.required.freshness = "Fresh"]>>

Lags(t)     == [t EXCEPT !.stores = <<LaggingCopy, RowCopy>>]
LagsOnly(t) == [t EXCEPT !.stores = <<LaggingCopy>>]

LaggingPlans ==
  {Nodes(t) : t \in
    { Where("p", Lags(a)), UnionOf(Lags(a), b), Exists(Lags(a), LagsOnly(b), <<AB>>),
      Inner(LagsOnly(a), b, <<AB>>), Inner(Lags(a), Inner(Lags(b), c, <<BC>>), <<AB>>),
      Updating("w", Where("p", Lags(a))), Updating("w", Inner(LagsOnly(a), b, <<AB>>)),
      Inserting("w", LagsOnly(a)), Inserting("w", Inner(Lags(a), b, <<AB>>)) }}

(* Chains of keyed joins, with the larger tables to the left or the right. *)
Chains ==
  {Nodes(t) : t \in Written(<<a, b, c>>, <<AB, BC>>) \cup Written(<<d, c, b, a>>, <<CD, BC, AB>>)}

LoweredQueries ==
  Asking(RegionPlans, {Reordered(Plainly)})
    \cup Asking(Chains, {Reordered(Plainly), Reordered(Sorted(Plainly)), Guarded(Plainly)})
    \cup Asking(RepeatingPlans, {Deduped(Plainly), Guarded(Plainly)})
    \cup Asking(RefusedPlans \cup LaggingPlans, {Freshly(Plainly), Freshly(Sorted(Plainly))})

(* Both rows of a UNION ALL are fresh only if both inputs are.             *)
FreshUnions == Asking({Nodes(UnionOf(Lags(a), b))}, {Freshly(Plainly)})
=============================================================================
