# A verification model of the DB25 physical planner

The planner turns a bound logical plan into the cheapest physical plan that
satisfies what its consumer requires. It is a single-threaded library: one call
of `lower()` explores the logical plan into a *memo* of groups, searches the memo
goal by goal, and extracts the winner. This directory models that call in TLA+, and
what stands beside it: the cardinality estimates it feeds on, the cache of its plans,
the pipelines an executor cuts a plan into and the container its records are made of.
It model-checks all of them on small instances with TLC. With TLAPS it proves five of
them for every value of their parameters: exploration; the search, with the abstract
specification it implements; extraction and what `lower()` returns; the plan cache in
use; and the vectors, with theirs.

Line numbers below and in `PROJECT.json` refer to the sources under `src/`.

## 1. Inventory

| component | source | state | operations |
|---|---|---|---|
| property framework | `properties.cpp/hpp`, `physical_plan.cpp/hpp` | none (pure) | `satisfies`, `derive_op`, `required_input_properties`, `pushdown_requirement`, `is_applicable`, `enforce` |
| cost model | `cost.cpp/hpp` 331-538 | calibration | `operator_cost`, `input_evaluations`, `enforcement_cost`, `cost_of` |
| candidate enumeration | `lowering.cpp` 205-263, 1069-1135 | appends to a group's `exprs` | `builtin_physical`, `add_candidates` |
| join regions | `join_order.cpp/hpp`, `lowering.cpp` 277-443 | the DP's `viable` and `gid` tables, the memo it appends to | `collect_join_region`, `placed_here`, `split_connects`, `explore_join_region`, `translate_conjunct` |
| exploration, structural dedup | `lowering.cpp` 445-834, `memo.cpp` 19-133, `structural_key.cpp` | the memo, its index by structural key, four counters | `explore`, `find_group`, `index_group` |
| memo | `memo.cpp/hpp` | groups, candidates, winner entries | `add_group`, `add_expr`, `set_rows`, `set_winner`, `winner_for`, `select_cheapest`, `extract_winner_for` |
| search (`Optimizer`) | `lowering.cpp` 851-1058 | the activation records of two mutually recursive functions; the winner tables; counters | `optimize`, `optimize_inputs` |
| extraction and `lower()` | `memo.cpp` 201-277, `lowering.cpp` 1137-1207 | the plan under construction | `extract_winner_for`, `enforce` at each input and at the root, the postcondition |
| plan cache | `plan_cache.cpp/hpp` | the entries (owning logical and physical plan), hit and miss counters | `plan_cache_key`, `get`, `put`, `clear` |
| cardinality | `cost.cpp` 96-330 and 480-512, `selectivity.cpp` | none (pure) | `operator_rows`, `CardinalityModel::rows`, `selectivity_of`, `distinct_groups`, `join_key_ndv` |
| statistics | `statistics.cpp/hpp` | per-column statistics | lookups, `load_statistics` |
| pipelines | `pipeline.cpp/hpp` | none (pure) | `edge_kind`, `pipelines` |
| containers | `small_vec.hpp`, `arity_vec.hpp` | elements inline, or in a buffer on the heap | construction, copy, move, `push_back`, `reserve`, `clear`, destruction |
| specification, S-expressions | `spec.cpp`, `sexpr_read.cpp`, `sexpr.cpp` | parsed rules | load, conform, print |

**How they interact.** All calls, no messages, no threads, no persistence.
`explore` walks the logical plan bottom-up, hands a maximal tree of inner joins to
the join-region DP, and appends groups to the memo; from then on the memo's groups
do not change. `Optimizer::optimize` reads groups and writes *winner entries*
into them; its recursion makes these entries shared state: an activation looks an
input's goal up, recurses if it is missing, and reads the entry that the recursion
appended. `extract_winner_for` later follows the recorded goals from the root.
Around a call, a client may ask the plan cache first and hand it the plan afterwards;
the plan borrows expressions from the logical plan, so the cache owns both. An
executor cuts the plan into pipelines, reading how each operator consumes its inputs
off the nodes the search chose.

**What is hard here.** Nothing is concurrent, so the hazards are those of shared
memoized state under recursion and of bookkeeping kept in two places:

* an index into a winner table is held across a recursive call that appends;
* a goal reopened while it is being solved would recurse for ever: nothing marks
  a goal as in progress;
* a winner found under one caller's *budget* is reused by another caller;
* the cost charged during the search, the cost of the plan that is built
  (`cost_of`) and the properties recorded for a winner are three computations that
  must agree;
* a failed goal is not memoized: the search must end all the same;
* the *requirement* is a key, so its equality must not identify different things;
* placement of a join conjunct must be unique however a region is associated;
* the plan cache's key must name every input that can change the plan;
* a cached plan is handed out by pointer: storing under a key that is present frees it,
  and nobody is asked whether somebody holds it;
* where rows are, and in which order, is claimed operator by operator, each claim
  in its own numbering of the columns;
* estimates are numbers nobody can call wrong one at a time, but they are compared:
  what counts is that related queries get related estimates.

**What makes each component correct.**

* *Property framework*: satisfaction is a preorder; enforcement establishes what
  it claims to establish, and refuses the rest.
* *Search*: no open goal is settled; a winner's child goals are settled; recorded
  costs are re-derivable from the table for ever; a winner serves its goal;
  pruning never changes the plan; the guard only loses quality.
* *Extraction*: a found winner is always built, where estimates agree and no rows move
  at no more than its cost, and no lagging row gets through.
* *Join regions*: each conjunct is applied exactly once in every association, at
  a join that sees all its columns; a range's candidates read ranges already built.
* *Exploration*: a shared group stands for structurally identical subtrees.
* *Plan cache*: a hit is the plan a fresh `lower()` would have returned, and a plan
  that is handed out is lost to its replacement or to `clear()` and to nothing else.
* *Cardinality*: however a predicate is written it keeps the same rows; a conjunction
  keeps no more than its parts; a comparison and its opposite share out the rows that
  are not NULL; a join has no more rows than pairs; more input is never less output.
* *Pipelines*: each operator runs in one pipeline, after those it reads from, and
  what is held in memory is what the search paid for building.
* *Containers*: lists are values, and a buffer has one owner.

`PROJECT.json` lists each hazard at its line with the property that covers it.

## 2. Modules

| module | models | kind |
|---|---|---|
| `PhysicalProperties` | properties, satisfaction, derivation, requirements, enforcement; `WellFormed` memos | operators |
| `CostModel` | calibration, operator and enforcement cost, `Infinity` as "no bound" | operators |
| `PlanSearch` | `Optimizer`: `optimize` / `optimize_inputs` as an explicit stack of open goals | state machine |
| `AnswerTable` | what the search promises: a table of answers that only grows | abstract specification |
| `Pipelines` | plan trees, and their split at the operators that stop rows | operators |
| `Planner` | `lower()` after exploration: search, extraction, root enforcement; EXTENDS `PlanSearch`, `Pipelines` | state machine |
| `Lowering` | `lower()` as a whole, called for one query under one context after the other; INSTANCEs of `Exploration` and `Planner` | composition |
| `SearchPair` | two searches of one memo under different switches; two INSTANCEs of `PlanSearch` | composition |
| `Candidates` | rules x formats x build sides, less the inapplicable | operators |
| `JoinRegion` | which joins re-associate, where a conjunct goes and how it is renumbered, which splits are offered, the estimate of a join | operators |
| `Exploration` | `explore()` and `explore_join_region()` as an explicit stack of calls, the structural index, the counters | state machine |
| `Selectivity` | the fraction of rows a predicate keeps, distinct groups, distinct join keys | operators |
| `Cardinality` | the rows an operator emits, and of every node of a query | operators |
| `PlanCache` | `get`, `put`, `clear` and the key, in use by several sessions; EXTENDS `Cardinality` | state machine |
| `EstimatorLaws` | what the estimates of the sessions' queries have to do with each other | properties |
| `ValueLists` | lists that are values | abstract specification |
| `SmallVec` | inline-first vectors over a heap, an implementation of `ValueLists` | state machine |
| `MCMemos`, `MCQueries`, `MCPlanner`, `MCSearchPair`, `MCExploration`, `MCLowering`, `MCPlanCache` | the memos, logical plans, requirements, switches and workloads TLC uses | instances |
| `Selections` | the elements of a sequence that pass a test, in a form that proofs can expand | operators |
| `PropertyTheorems` | what the operators of properties and costs yield, for all their arguments | proofs |
| `Exploration_proofs` | the recursion of `explore()`: types, the memo it owes the search, the schemas of associations | proofs |
| `PlanSearch_proofs` | the search: types, goals, a table that only grows, its costs and provided properties | proofs |
| `AnswerTable_proofs` | the search implements `AnswerTable` | proofs |
| `Planner_proofs` | extraction, and what `lower()` returns | proofs |
| `PlanCache_proofs` | the cache in use by any number of sessions | proofs |
| `SmallVec_proofs` | the vectors implement `ValueLists` | proofs |
| `Recursions` | recursive functions exist, on naturals and along lists: descent to the least failing number, what flattening and selecting yield | proofs |

**State and actions.** The source recurses; the models keep the activation records
on a stack, so that each point where an activation reads or writes shared state
between two of its calls is a state of its own.

* `PlanSearch`: `winners` is `Group::winners`, one sequence per group in the order
  of `push_back`; a record of `stack` is an activation of `optimize` with its loop
  position (`cand`, `stage`, `next`), its locals (`bound`, `spent`, `ins`) and its
  best candidate so far. `PruneCandidate` .. `FinishRoute` are the body of the
  candidate loop, `OpenGoal` the recursive call, `SettleGoal` and `FailGoal` the two
  returns.
* `AnswerTable` has none of that: its one growing step, `Answer`, adds an answer to a
  question that has none, over inputs whose questions have one; unless shortcuts are
  allowed, the cheapest such answer. `Planner` maps the winner table to it
  (`KeepsAnswerTable`); every step of the stack that settles nothing is a stutter.
* `Planner` adds `nodes`, the activations of `extract_winner_for`, and `outcome`. A
  finished subplan is its tree and, beside what `derive` and `cost_of` say of it, what
  is *really* so: whether lagging rows reach it, what order its rows are in (`order`)
  and whether an operator in it was given rows in an order it cannot work with. The
  search prices on the rows of the memo's groups, which `explore` took from the first
  candidate of each (`lowering.cpp:788`); `cost_of` estimates the tree anew, bottom up,
  from the operators that were chosen (`cost.cpp:497`). So does the model: `Assembled`
  asks `RowsOf`, the cardinality model of the call, for the rows of every node it puts
  on its inputs, and enforcers are priced on the rows they get. `MCRowsOf` is that of
  `Cardinality`, without statistics; `Estimated` gives the memos of `MCMemos` the rows
  that `explore` would give them by it.
* `Exploration`: `memo`, `index` and `counters` are the source's; a record of `calls`
  is an activation of `explore` together with the region it has taken on.
  `payloads` keeps, beside each group, the schema and the predicates of its
  candidates, which the search does not look at. `groupOf` is a history variable.
* `Exploration` produces the memos that `PlanSearch` takes as its parameter
  `Memos`, and `MemosAssumption` is what it owes: the property `ExploredMemo` is that
  very assumption, of the memo exploration ends with.
* `Lowering` joins the two: its `Explore` is a step of `Exploration`, its `Plan` one of
  `Planner`, over the same `memo` and `outcome`; `StartSearch` hands the memo over and
  decides the budget guard by the joins exploration counted. `results` keeps what each
  call returned: the switches of a context promise something about a pair of calls, and
  `Differ` names the switches in which two of them differ. Its plans are priced with the
  estimate of `JoinRegion` for joins; the rows of other operators are given with the
  query (`EstimateOf`).
* `PlanCache`: `entries` are the cached plans by key, each with the logical plan it
  borrows from; `logicals` are the logical plans that are alive. The source is not
  concurrent and has no callers of its own yet: the sessions, which ask, lower on a
  miss, store, hold the pointer a hit returns and let go of it, are external. They are
  not made to keep out of each other's way: `Put` replaces and frees whatever is under
  its key, `Clear` frees all, whoever holds a pointer, as the code does. What is lowered
  is the plan's structure and the build sides of its hash joins, the choice that depends
  on the estimates.
* `SmallVec`: an object is where its elements are, its size, its capacity and its
  inline cells; `heap` is what the allocator has given out. Cells that were never
  written, and those left behind, are there to be read by mistake.

Data is abstracted to what the properties tell apart. A column of a logical plan is
a table and a number, a test is a name with its columns, an operator's expressions
are one model value; costs are whole multiples of a twentieth of the source's unit,
so that the default calibration is exact; a `double` that means "no bound" is
`Infinity`. A selectivity is a number of 4096ths, rounded down where the source's
double is not; the laws that are checked hold of the rounded numbers too. A digest
of the plan cache is the record that is digested, so that two keys are equal when
nothing that goes into them differs: a collision is out of the picture.

## 3. Runs

`vectors` checks for deadlock; the other runs use `CHECK_DEADLOCK FALSE`: each
modelled call ends, as do the sessions, and the last state has no successor. That a
call does end is checked by `Answers` and `LowersEvery`.

| run | question | bounds |
|---|---|---|
| `planner` | does the winner table stay coherent, and an implementation of the table of answers, while the recursion fills it; does every call of `lower()` answer, build what it found, keep lagging rows out, have its rows in the order it says, cost no more than its winner where no rows move and estimates agree, and split into pipelines that can be run? | 35 memos, 19 of them on one node; 26 requirements; the 4 combinations of switches: 191,416 states |
| `lowering` | does the plan do what the query says, however it is explored; what may reordering, sharing, the guard and the two ways to ask for fresh rows change? | 254 pairs of calls on plans of up to five tables, under contexts that differ in one switch: 46,527 states |
| `shortened` | what may pruning and the budget guard change? | 14 memos, 18 requirements, pruned and guarded against exhaustive: 40,129 states |
| `explore` | does exploration keep the query's meaning? | 171 plans over up to five tables under 4 contexts, 25 plans under 24: 22,194 states |
| `session` | is a hit what `lower()` would return, is a plan handed out lost to its replacement or to `clear()` alone, do the estimates agree with each other? | 2 clients, up to 4 requests and 3 lowerings per workload, of up to 3 queries or 2 queries in 2 contexts, a table of two columns and one of one, with and without statistics: 49,705 states |
| `vectors` | are two vectors two values, whatever is done with them? | inline capacity 1, lists up to 3, two names, two elements, three buffers: 450,216 states |
| `placement`, `one_node`, `renamed_order`, `prune_shared`, `stale_hit`, `fresh_either_way` | one each of the disagreements of section 4 | the smallest of the above that shows it |

*Why the bounds are enough.* A memo shape is there for each way two activations can
meet: an input read by both splits of a region (`JoinChain`), by two consumers
(`SharedAggregate`), by a fixpoint and its body (`Recursive`, whose rows move, and
`RecursiveFilter`, where none do); a choice of copies that
differ in freshness and format (`FilteredScan`, `Write`, `UpdateJoin`); orders that an
operator keeps, makes or destroys (`WindowOverSort`, `Union`, `SemiAggregate`); groups
of no rows, on which every enforcer is free (`WindowOverNothing`); an operator that
wants rows in one place above a join (`UnionOfJoin`); inputs of which one is
partitioned (`HalfPartitioned`); a group whose rows were estimated by an operator that
does not apply (`Intersection`, `SortOverCube`).
Row counts are small powers of two, chosen so that no candidate dominates: each of
the operators wins somewhere. `RecursiveIterations = 3` makes a repeated input cost
more than twice. For exploration, three leaves are the least that re-associate, four
the least with a bushy association, and five exceed `MaxReorderLeaves = 4` (10 in
the source) so that a region is declined for its size. Every way to bracket three or
four tables is enumerated, with each conjunct at the lowest join that sees it or all
of them at the top; the tests include equalities written either way round, within
one table, over three tables, over none, and one that cannot be renumbered.
`Narrowing = 2` is the reciprocal of `join_selectivity`. Whole calls are made of the
same plans, of chains of joins with the larger tables to the left or to the right, and
of plans over tables with a lagging copy; the guard engages at two joins
(`max_join_count_override`), so that queries on either side of it occur. Two sessions are the least
between which a miss and its `put` can be interleaved with a hit; three lowerings let
an entry be replaced and asked for again. A table of the estimates has a column with a
range, NULLs and several values, one of a single value, and one of which nothing is
known but that it is unique. Inline capacity 1 and size 3 let a list spill, grow on
the heap, shrink there and be moved; three buffers are one more than the objects can
own, so that growing never waits.

*What a run shows besides passing.* For each property, `PROJECT.json` names a mutant
of a modelled definition, marked "Seeded defect" in the modules, under which TLC
finds that property violated.

*Fairness.* `WF_vars(Next)` on each machine with a liveness property: the code is a
plain function call on one thread, which runs until it returns. Nothing stronger is
assumed, and no choice is left open in a step that fairness would have to resolve: a
call is deterministic once its arguments are chosen. Sessions and vectors have no
liveness property, since nothing obliges a client to go on.

## 4. Where the code and its comments disagree

Each is a run that TLC ends with a counterexample; `PROJECT.json` quotes the lines.

| run | the code | says otherwise |
|---|---|---|
| `prune_shared` | a winner found under one caller's budget is reused under a looser one, so pruning changes the plan | `lowering.cpp:1041`, `lowering.hpp:74` |
| `fresh_either_way` | a required freshness is asked of the inputs of Filter and Project only; below anything else the cheaper lagging copy wins, and a query that has a plan is refused | `lowering.hpp:65` |
| `placement` | each input of a join is checked for its own partitioning, so that matching rows may be on different nodes | `properties.cpp:106` |
| `one_node` | a join of unpartitioned tables claims to be partitioned, and an exchange is paid for above it | `distribution_catalog.hpp:11`, `lowering.hpp:57` |
| `renamed_order` | an order passes a projection under the column numbers below it, so a window may read rows in the wrong order | `properties.cpp:201`, `:409` |
| `stale_hit` | statistics of columns and selectivity defaults are no part of a plan's key | `plan_cache.cpp:229` |

The passing properties say how far the promises do hold: `PruningKeepsThePlan` where no
group has two readers, `ShorteningFindsAPlan` unless the guard meets a demand for fresh
rows, `FirstNeverBetter` under the guard too, `ForbiddingLosesNothing` in one direction,
`ReorderingChainsNeverDearer` where each join has one equality and nothing else,
`UnmovedCostsAtMost` where no rows move and the candidates of each group are
estimated alike, `RowsInOrder` where a projection keeps the columns it orders by in
place, `UsableUntilReplaced` until a `put` under the same key or a `clear`,
`HitsAreFresh` while the statistics stay,
`ConjunctsAppliedOnce` for every conjunct with a column, `RowsAgree` for joins of one
equality each. `WrittenTreeOffered` holds where each written join relates its two sides;
a tree with a cross product in it may be left out when another association of its region
is connected, although `lowering.cpp:451` says that it is one of those enumerated.

Met while reading and modelling, and modelled as the code has it, without a run:

* Requirements that differ in distribution are one key (`properties.cpp:53`, against
  `:12`), so on a cluster a winner without an exchange answers for a goal that needs
  one, and the plan may cost more than its winner: `BuiltCostsAtMost` fails there. It
  fails without a partitioned table too: an exchange above an operator does not change
  where the winner is recorded to have its rows (`lowering.cpp:986`), although a
  winner's cost is said to include its enforcement (`memo.hpp:80`).
* Under the budget guard a required freshness is not pushed down at all, and a plannable
  query is refused (`lowering.cpp:996`, against `:997`): `SamePlannability` fails there.
* The rows of a group are those its first candidate would make, applicable or not:
  HashAggregate for grouping sets, UNION ALL for every set operation, the first split
  for a reordered range (`lowering.cpp:795`). `cost_of` estimates by the operator that
  was chosen, so a plan may cost more than its winner with no exchange in it: a Sort
  over GROUP BY CUBE sorts, by `cost_of`, the rows of all four sets, and its winner was
  priced on those of one. `lowering.cpp:788` says "the candidates are equivalent, so any
  of them yields the same estimate", `cost.cpp:134` that "a plan is costed identically
  however it is currently represented". `BuiltCostsAtMost` fails on `SortOverCube`;
  `PricesAssumption` of `MCPlanner` says that it and `Intersection` are the memos of the
  run with such a group, and `UnmovedCostsAtMost` is about the others.
* An entry of the plan cache lives until it is put again or the cache is cleared, not as
  long as the cache does (`plan_cache.cpp:287`, against `plan_cache.hpp:16`): when
  two sessions have missed the same key, and one has stored its plan and holds what it
  got on asking again, the other's `put` frees it. `plan_cache.hpp` does not tell callers
  of `put` to look first. `UsableUntilReplaced` is what is left of the promise.
* Where a region's tests on single tables are charged to its joins, the rows of a range
  are those of its first split, and the reordered plan may be costed above the written
  one (`lowering.cpp:411`, against `lowering.hpp:95`): hence the premise
  `WrittenAsAChain`.
* A fresh result that must be sorted as well is planned with the sort at the bottom: the
  route that sorts above loses the freshness on the way, so its cost is not compared
  (`lowering.cpp:996`, against `properties.cpp:414`). Forbidding lagging scans finds the
  cheaper plan.
* The rows of an INSERT are fresh wherever it read from: an INSERT over a lagging copy is
  planned when a fresh result is required, and refused when lagging scans are forbidden.
* CREATE TABLE AS, INSERT and UPDATE are priced as exchanges, for want of a `return`
  (`cost.cpp:412`, against `:427`).
* The plan that is built may be cheaper than its winner was said to be: a format
  enforcer cuts the recorded order down to the required one (`lowering.cpp:986`,
  against `memo.hpp:357`).
* Two splits of a range joined by several equalities are estimated differently: a join
  narrows the larger side before the next takes its maximum, and the two do not commute
  (`lowering.cpp:411`, against `:412`).
* A conjunct without columns is placed at every join of two leaves, and at none other,
  though a placement is said to be unique (`join_order.cpp:208`, against `:213`).
* The empty set among grouping sets is estimated as a fraction of the rows
  (`cost.cpp:230`, where its comment has exactly one row).
* A comparison of two columns falls back to the default of its class, not to the one
  for what is unknown; without statistics `<>` is estimated as `=` is.
* The pipeline of a recursive term comes out before the anchor's, whose rows its
  working table holds (`pipeline.hpp:74`).
* A streaming aggregate claims its order in its input's column numbers, and its
  partitioning in its output's (`properties.cpp:236`, `:131`).
* The key of a plan names the specification by version alone (`plan_cache.cpp:265`).

## 5. Proofs

Every theorem below holds for every value of the constants that meets the named
assumptions; where a run checks the same property, TLC has it on a small instance.

**Exploration** (`Exploration_proofs`): every logical plan a binder hands over, every
combination of switches, every set of rules that fits the plan, every cap on the leaves
of a region.

| theorem | states |
|---|---|
| `ExplorationTyped` | `Spec => []TypeOK` |
| `ExploredIsSearchable` | `Spec => []ExploredMemo`: the memo is well-formed, and the root's group is its last |
| `AssociationsInterchangeable` | `Spec => []AssociationsAgree`: each association of a range yields the columns of its group, and each node's group those of its node |

`ExploredIsSearchable` is the assumption that the theorems about the search start from
(`MemosAssumption`): what they say holds of every memo `explore()` can produce.

No property is inductive, because a group is built over the groups an activation has
collected and is right only if those are what the activation takes them for. `IInv` says,
besides types:

* of each activation (`CallOK`), that its region is its node's, that the groups it has
  collected have the schemas of the leaves they stand for, and that the ranges it has
  built are the narrowest ones, each with the schema of its leaves and each added after
  the narrower ones, so that both halves of a split are there when the split is;
* of the stack (`StackOK`), that each activation awaits the group of the node the next
  one is at, so that what returns lands where it is meant to;
* of the index (`IndexOK`), that an entry's group has the schema of its key, and was
  added after the inputs the key names: a shared group is as good as a new one;
* of the newest group (`NewestOK`), that an active activation holds it, the innermost one
  if that has begun to build ranges. A call that ends by sharing hands back an older
  group; since the newest group is then somebody else's input, the outermost call can
  only end with the last group of the memo.

A key holds the numbers of its inputs' groups (`GroupKey`): an entry over the
newest group would have to be newer still. That is what the last step of `NewestOK`
takes from `IndexOK`.

The lemmas before it are about join regions: the leaves and conjuncts that
`walk_region` collects are those of the plan, by descent to the least node for which
they are not; flattening appends; a range's schema is those of its two halves one after
the other (`RangeSchema`); and the range that is the whole region has the schema of its
join (`RangeOutput`), as `collect_join_region` checks and `explore_join_region` relies on.
What is assumed of a plan (`CallsAssumption`) is what the binder gives the code to rely
on: inputs precede the nodes that read them; a join has two; conjuncts test columns of
the inputs; an inner or cross join that hides no column yields its left input's, then its
right's, and one that hides some is declined at run time (`join_order.cpp:195`). Rules
implement an operator by ones of the same number of inputs, which `check_conformance`
(`spec.cpp:146`) asks of a specification.

**The search** (`PlanSearch_proofs`, `AnswerTable_proofs`): every
set of well-formed memos, every requirement, every calibration of naturals, every
positive number of iterations, both switches.

| theorem | states |
|---|---|
| `TypeCorrect` | `Spec => []TypeOK`; in particular every recorded cost is finite |
| `NoGoalSettledTwice` | `Spec => []OpenGoalsUnsettled` |
| `WinnersExtractable` | `Spec => []ChildGoalsSettled` |
| `TableOnlyGrows` | `Spec => WinnersOnlyAppended` |
| `CostsInvariance` | one answer per question, and every plan in the table or in an open goal is what one of the two routes finds in the table as it now is |
| `CostsCanBeRederived` | `Spec => []CostsReproducible` |
| `WinnersServe` | `Spec => []WinnersServeTheirGoal`, if `EnforcersCost` and `EmptyStaysEmpty` |
| `SearchKeepsItsPromise` | `PlannerSpec => KeepsAnswerTable`: the refinement of `AnswerTable` |

None of the properties is inductive. `IInv` adds to `TypeOK`:

* `GoalsOK`: each open goal's record fits its candidate (as many inputs accepted as
  its position says, each of them settled), and the goal itself is not settled;
* `GoalsDescend`: a goal that waits does so for an input of its own candidate, so
  the groups of the open goals strictly descend. This is what keeps a goal from being
  reopened while it is open, since no flag does: when a goal is settled, every
  other open goal belongs to a higher group, whose table is not touched;
* `WinnersOK`: each entry names a candidate of its group and the child goals it was
  built on, all of which are settled.

`SettleGoal` is the only action that writes the table; because its goal is unsettled
`Recorded` appends (`SettleAppends`), and an appended table answers all it answered
before (`SettleKeepsAnswers`). `CostsInv` then says of each winner, each best plan so
far and each route in progress what it costs and provides in terms of the table. It
survives a growing table because the answer to a question stays the same entry, which
takes `OneAnswerEach`; from it a cost can be re-derived, and `TableServes` follows,
where a group has rows, by cases over the route and over the enforcers a plan was
charged for.

For the refinement the hard clause is the last of `Acceptable`: an exhaustive search
never settles a question for more than the table of that moment allows. The search
tries a route once, against the table as it is then; by the time the goal is settled the
table has grown, and a route that failed for want of an answer might have it now. It
never does. `SearchWeighed` keeps a set of *hopeless* questions: each is unanswered, and
each route to an answer of it asks another hopeless question or comes to rows that are
not fresh enough. A goal that fails adds its question to the set (`GivenUp`); a goal
that is settled is not in it (`SettledWasNotHopeless`), so the set stays
hopeless under the larger table; and the best plan of an open goal is the best of all
the routes it is past, each weighed or hopeless (`GoalWeighed`). `GoalsLinked` says that
each open goal is the question the one before it waits for, so that the last step of
the stack is the one that answers, or gives up, the root.

**Extraction and `lower()`** (`Planner_proofs`), under the same assumptions and, of the
cardinality model, that it makes a row count of row counts (`EstimatesAreRows`).

| theorem | states |
|---|---|
| `PlannerInvariance` | `PlannerSpec => [](TableInv /\ ExtractionInv)` |
| `SuccessIsAPlan` | `PlannerSpec => []SuccessBuildsAPlan` |
| `FreshnessIsHonoured` | `PlannerSpec => []FreshnessHonoured` |
| `UnmovedCosts` | `PlannerSpec => []UnmovedCostsAtMost`, if `EnforcersCost` and `EmptyStaysEmpty` |
| `BuildSidesArePriced` | `PlannerSpec => []BuildSidesPriced` |
| `PlansAreScheduled` | `PlannerSpec => []PipelinesScheduled` |
| `RowsArriveInOrder` | `PlannerSpec => []RowsInOrder`, if every memo `OrdersStayInPlace` |

`ExtractionInv` says that each activation follows the question its parent's winner
recorded, and of each finished subplan (`BuiltOK`) how it compares with its winner: the
freshness it was recorded to have, which stale rows may be in it, a tree of the right
shape and, unless rows move in it, at least its order and format and, where estimates
agree, no more than its cost. There the rows of each subplan are those of its group, so
that `cost_of` and the search price the same operators over the same rows
(`EstimatedAlike`). That a child goal is found at all is `ChildGoalsSettled`, which the
search left.

That pipelines can be run in the order they come out in is a fact about trees
(`TreeScheduled`), and `BuiltOK` that every tree extraction makes is one of those: in
post-order, every node but the root read by exactly one other, which comes later
(`PostOrder`). It survives shifting and joining the trees of two inputs and putting a
node on top (`GroveOfTwo`, `GroveTopped`). In such a tree a row on its way passes only
nodes further on, in a way of its own: two ways that meet could only have met where one
streams into the other (`FlowsApart`), and ways end where rows stop (`StopsApart`), so
each node is in one place of one pipeline. What stops below a node of a pipeline is a
smaller node than its end, and the ends come out in the order of the nodes.

`RowsInOrder` needs more: `derive()` and the winners say by column number how rows are
ordered, and an exchange that extraction puts in may cost an order that the search
counted on. `OrderInv` says of each finished subplan that it is not misordered and that
what it records of its order is so in the columns somebody can ask for
(`OrderedAs`): those of `OrderColumns`, which the operators above and the consumer use.
Every operator is then a case of `NodeOrdered`. Its input arrives in the demanded order
(`DemandedOrders`: an exchange that loses the order is followed by a sort when the order
was demanded), and renumbering the columns changes nothing there (`RenumberedInPlace`).
The premise is about the memo alone, and is what the code relies on without saying so:
`renamed_order` shows a memo without it, and the failure.

**The plan cache** (`PlanCache_proofs`): every number of sessions, every workload.

| theorem | states |
|---|---|
| `CacheInvariance` | `CacheSpec => []CacheInv` |
| `HeldUntilReplaced` | `CacheSpec => []UsableUntilReplaced` |
| `FreshHits` | `CacheSpec => []HitsAreFresh`, if `StatisticsUnmoved(Workloads)` |

`HeldInv` is inductive: beside the two, it says of what a session holds that it answers
its key (`HeldAnswers`), which outlasts the entry. A `put` numbers its entry higher than
all before, so under the same key it replaces what was held, and under another it leaves
both the entry and its query where they were; a `clear` leaves nothing as old. `FreshHits`
follows since a key decides the query, the digested inputs and the rules' version
(`KeyDecidesThePlan`). The premise is what the key leaves out; `stale_hit` shows that it
cannot be dropped.

**The vectors** (`SmallVec_proofs`): every inline capacity, element type, number of
objects and length.

| theorem | states |
|---|---|
| `VecInvariance` | `Spec => []VecInv` |
| `VectorsAreValues` | `Spec => KeepsValues`: the refinement of `ValueLists` |

Each operation takes an object and the memory to an object and the memory. It is
*local* if it leaves every buffer alone but the object's own (`Only`) and the object fits
the memory (`Fit`); local operations compose. Pushing a whole list is a recursive function, and an
induction over it is a descent to the least failing length (`LeastNatural`), because the
library's induction theorems take an operator.

**Facts about operators** (`PropertyTheorems`): `SatisfiesTransitive`;
`EnforceEstablishes` (enforcement establishes every requirement whose freshness is
already met, and no other); the types of what derivation and the cost formulas yield.

**Assumptions.** TLC evaluates each of them on the runs.

* `MemosAssumption`: each candidate reads earlier groups, as many as its operator has
  inputs, with columns and rows of the right type; `ExploredMemo` checks it of
  exploration. `RequirementsAssumption`, `ModesAssumption`, `CalibrationAssumption`,
  `IterationsAssumption`: types.
* `EnforcersCost`: converting and sorting a row are not free, as the default calibration
  has it (`cost.hpp:48`). `EmptyStaysEmpty`: a Filter, Project, Sort, Limit, Window,
  StreamingDistinct or CREATE TABLE AS over no rows is estimated at none, as
  `operator_rows` (`cost.cpp:146-330`) computes it. Both are premises of `WinnersServe`
  and `UnmovedCosts` alone, and `PricesAssumption` of `MCPlanner`: the source cannot
  tell an enforcer that is free from one that is not needed.
* `EstimatesAreRows`: the parameter `RowsOf` of `Planner` yields naturals, the premise of
  the theorems of `Planner_proofs`; `MCRowsOf` is made of additions, products and floors
  of naturals. `EstimatesAgree` is no assumption but a premise within
  `UnmovedCostsAtMost`.
* `OrdersStayInPlace`: projections leave each column that rows may be ordered by at its
  place, and a grouping's sorted keys are its first output columns; the premise of
  `RowsArriveInOrder` alone, and `OrdersAssumption` of `MCPlanner`.
* `ContextsAssumption`, `BoundAssumption`: contexts are records, the bounds of a workload
  naturals. `StatisticsUnmoved`: contexts that the key cannot tell apart have the same
  statistics and rules (`StatisticsAssumption` of `MCPlanCache`).
* `SizesAssumption`, and `MemoryAssumption`: there are more buffers than objects, so an
  allocation never fails; `operator new` that throws is not modelled.

**What proving changed in the model.** The invariant of exploration did not hold at
first, for reasons that TLC's plans had hidden: two `CASE` guards that overlap left the
value of a helper open, and so did the order of two early returns; a join's kind was any
string; and the schema of a whole region was put together from its leaves where the
source takes the join's own. All four now follow the source, on every plan.

**Only model-checked.**

* Liveness (`Answers`, `LowersEvery`), which rests on fairness.
* Of exploration, what is said of whole subtrees or counted over them: `SharedIfSame`,
  `CountersAgree`, `ConjunctsAppliedOnce`, `WrittenTreeOffered` and `RowsAgree`. They
  compare recursions over the plan with folds over the memo, each an induction over data
  of its own; and `CountersAgree` holds of trees only, where `CallsAssumption` allows a
  node to have two readers.
* `EstimatorLaws`: what a recursion over a predicate, with its rounding, computes.
* `SearchPair` and the properties of `Lowering`, which compare two calls.

## 6. Not modelled

Copying expressions onto plan nodes, rendering and S-expressions (no decision depends
on them); reading calibration, statistics and specification files, each a walk over one
parsed tree that fills a record; conformance, which compares a constant file with
constant tables; the hash of a structural key, which is verified after every match; a
collision of the plan cache's digests. `ArityVec` is an array of capacity two with a
length. `select_cheapest` and `extract`, a chooser of one level, are called by tests only.
A `push_back` of a vector's own element while it grows is undefined behaviour that no
caller meets, and is left out; so is the second branch of `grow`'s minimum, which no
capacity reaches, and copying or moving an object onto itself, which does nothing.
Which payloads `explore()` refuses (sort keys that are no columns, more than
64 grouping keys, ragged VALUES and the like) is a flag of a logical node. In
`Exploration` the estimates of operators other than joins are data of the plans; the
estimators themselves are checked over the queries of the sessions. Rows have a
place and an order in the model but no values: that LIMIT, Sort and Window ask for no
placement of their input (`properties.cpp:441`) is listed as a hazard without a property.
`PROJECT.json` lists every component with its status.

## 7. Plan

1. `SharedIfSame`: an entry's key determines the node up to the spelling of its
   equalities; by descent along the plan, so do the subtrees. `IndexOK` is its base.
2. `ConjunctsAppliedOnce`: `placed_here` holds at one split of each association
   (`JoinRegion`), then as above.
3. Laws of the estimator that need no induction (`SpellingIrrelevant`,
   `ComparisonsPartition`) as lemmas about `Selectivity`.
4. `SpecRules`: the rules of a loaded specification as the candidates of a memo.
