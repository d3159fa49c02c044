--------------------------- MODULE MCExploration ----------------------------
(* Explorations of every logical plan, under the switches that matter.     *)
EXTENDS Exploration, MCQueries

ContextsOf(rules, freshnesses) ==
  [reorder : BOOLEAN, dedup : BOOLEAN, freshness : freshnesses, rules : rules]

AllContexts    == ContextsOf({BuiltinRules, HashOnlyRules, NoJoinRules}, {"Any", "Fresh"})
PlainContexts  == ContextsOf({BuiltinRules}, {"Any"})

RegionCalls == RegionPlans \X PlainContexts
AllCalls    == RegionCalls \cup (RepeatingPlans \cup RefusedPlans) \X AllContexts
=============================================================================
