------------------------------ MODULE PlanCache ------------------------------
(***************************************************************************)
(* The plan cache of src/src/plan_cache.cpp in use: clients ask get() for  *)
(* a query, lower it when there is no plan, hand plan and query over to    *)
(* put(), and go on holding the reference a later get() returns.           *)
(*                                                                         *)
(* The cache itself is not concurrent; the clients are sessions of one     *)
(* thread, so that between a session's miss and its put() another session  *)
(* may be served.  Digests are taken not to collide: a key is the record   *)
(* of what is digested, never the digest.                                  *)
(*                                                                         *)
(* A query is a logical plan with a `spelling' that no part of the planner *)
(* reads (Expr::source); a context is the source's LoweringContext, its    *)
(* cardinality model, required output and rules spelled out.  Plans borrow *)
(* expressions from the logical plan they were lowered from, so every      *)
(* logical plan has an identity.                                           *)
(***************************************************************************)
EXTENDS Cardinality, TLC

CONSTANTS
  Clients,
  Workloads    \* records [queries, contexts, asks, lowerings]: what the clients
               \* of a run may ask; and, bounds, how often they ask with the
               \* counters as they are, and how often a query is lowered

ASSUME BoundAssumption ==
  \A w \in Workloads : w.asks \in Nat /\ w.lowerings \in Nat

(* A context is a record, and so is its cardinality model.                 *)
IsRecordWith(r, fields) == r = [f \in DOMAIN r |-> r[f]] /\ fields \subseteq DOMAIN r

ASSUME ContextsAssumption ==
  \A w \in Workloads : \A c \in w.contexts :
    IsRecordWith(c, {"card", "rules"}) /\ IsRecordWith(c.card, {"stats"})

VARIABLES
  workload,    \* the queries, contexts and bounds of this run
  entries,     \* the cached plans by key: records [logical, plan]
  counters,    \* hits and misses
  logicals,    \* the logical plans that are alive
  lowered,     \* how many were ever lowered; also names the next one
  session      \* per client, what it is doing

cacheVars == <<workload, entries, counters, logicals, lowered, session>>
-----------------------------------------------------------------------------
(* The key.                                                                *)

(* Seeded defect: a constant of a predicate takes no part in the key.      *)
StructureUpToConstants(query) ==
  [i \in DOMAIN query.nodes |-> [query.nodes[i] EXCEPT !.predicate = Len(@)]]

Structure(query) == query.nodes

(* hash_cardinality(): the base rows and the flat fractions.  The catalog  *)
(* of statistics the model also carries is not among them.                 *)
CardinalityKey(card) == [card EXCEPT !.stats = NoStatistics]

(* Seeded defect: the consumer's requirement takes no part in the key.     *)
InputsUnrequired(context) ==
  [context EXCEPT !.card = CardinalityKey(@), !.required = Unconstrained, !.rules = @.version]

(* Every declared input of the planner; a rule set is its version.         *)
Inputs(context) ==
  [context EXCEPT !.card = CardinalityKey(@), !.rules = @.version]

PlanCacheKey(query, context) ==
  [structure |-> Structure(query), inputs |-> Inputs(context)]
-----------------------------------------------------------------------------
(* lower(), as far as a cache can tell: the plan is decided by the query   *)
(* and by all the context says.  Of what the statistics decide, the plan   *)
(* shows which side of each hash join it builds its table of: the smaller, *)
(* and of equals the right one, which is the first to be tried.            *)
BuildSidesFor(nodes, card) ==
  LET rows == EstimatedRows(nodes, card)
      in(n, k) == rows[nodes[n].kids[k]]
  IN  [n \in {j \in DOMAIN nodes : nodes[j].op = "HashJoin"} |->
         IF in(n, 2) <= in(n, 1) THEN "right" ELSE "left"]

Lowered(query, context, logical) ==
  [of |-> query.nodes, builds |-> BuildSidesFor(query.nodes, context.card),
   chosenFor |-> [context EXCEPT !.card = CardinalityKey(@)], borrows |-> logical]

Idle == [state |-> "idle"]

Asked(q, c) == [state |-> "missed", query |-> q, context |-> c]

CacheInit ==
  /\ workload \in Workloads
  /\ entries = <<>>
  /\ counters = [hits |-> 0, misses |-> 0]
  /\ logicals = {}
  /\ lowered = 0
  /\ session = [p \in Clients |-> Idle]

MayAsk == counters.hits + counters.misses < workload.asks

Cached(q, c) == PlanCacheKey(q, c) \in DOMAIN entries

Holding(q, c) ==
  [state |-> "holding", query |-> q, context |-> c, entry |-> entries[PlanCacheKey(q, c)]]

(* Seeded defect: a query's plan displaces those for other contexts.       *)
StoredPerQuery(key, entry) ==
  [k \in {j \in DOMAIN entries : j.structure # key.structure} \cup {key} |->
     IF k = key THEN entry ELSE entries[k]]

(* The map of entries once this one is in it.                              *)
Stored(key, entry) ==
  [k \in DOMAIN entries \cup {key} |-> IF k = key THEN entry ELSE entries[k]]

(* get() finds an entry: the client holds a reference into the cache.      *)
Hit(p) ==
  /\ session[p].state = "idle" /\ MayAsk
  /\ \E q \in workload.queries, c \in workload.contexts :
       /\ Cached(q, c)
       /\ session' = [session EXCEPT ![p] = Holding(q, c)]
  /\ counters' = [counters EXCEPT !.hits = @ + 1]
  /\ UNCHANGED <<workload, entries, logicals, lowered>>

(* Seeded defect: looking an entry up creates it, empty.                   *)
MissInserts(p) ==
  /\ session[p].state = "idle" /\ MayAsk
  /\ \E q \in workload.queries, c \in workload.contexts :
       /\ ~Cached(q, c)
       /\ session' = [session EXCEPT ![p] = Asked(q, c)]
       /\ entries' = Stored(PlanCacheKey(q, c), [logical |-> 0, plan |-> <<>>])
  /\ counters' = [counters EXCEPT !.misses = @ + 1]
  /\ UNCHANGED <<workload, logicals, lowered>>

(* get() finds none: the client will have to lower the query itself.       *)
Miss(p) ==
  /\ session[p].state = "idle" /\ MayAsk
  /\ \E q \in workload.queries, c \in workload.contexts :
       /\ ~Cached(q, c)
       /\ session' = [session EXCEPT ![p] = Asked(q, c)]
  /\ counters' = [counters EXCEPT !.misses = @ + 1]
  /\ UNCHANGED <<workload, entries, logicals, lowered>>

(* What storing under a key frees: an entry that was there before.         *)
Overwritten(key) ==
  IF key \in DOMAIN entries THEN {entries[key].logical} ELSE {}

NewEntry(p) ==
  [logical |-> lowered + 1,
   plan    |-> Lowered(session[p].query, session[p].context, lowered + 1)]

KeyOf(p) == PlanCacheKey(session[p].query, session[p].context)

(* Seeded defect: the entry keeps the plan and not the query.              *)
StorePlanOnly(p) ==
  /\ entries' = Stored(KeyOf(p), NewEntry(p))
  /\ logicals' = logicals \ Overwritten(KeyOf(p))

Store(p) ==
  /\ entries' = Stored(KeyOf(p), NewEntry(p))
  /\ logicals' = (logicals \ Overwritten(KeyOf(p))) \cup {lowered + 1}

(* The client lowers and calls put(): query and plan go to the cache       *)
(* together.  An entry already there is replaced and freed, with both, and *)
(* nobody is asked whether somebody holds a reference to it.               *)
Put(p) ==
  /\ session[p].state = "missed" /\ lowered < workload.lowerings
  /\ Store(p)
  /\ lowered' = lowered + 1
  /\ session' = [session EXCEPT ![p] = Idle]
  /\ UNCHANGED <<workload, counters>>

(* By the time it would lower, another session has: the client asks again. *)
AskAgain(p) ==
  /\ session[p].state = "missed"
  /\ Cached(session[p].query, session[p].context)
  /\ session' = [session EXCEPT ![p] = Holding(session[p].query, session[p].context)]
  /\ counters' = [counters EXCEPT !.hits = @ + 1]
  /\ UNCHANGED <<workload, entries, logicals, lowered>>

Release(p) ==
  /\ session[p].state = "holding"
  /\ session' = [session EXCEPT ![p] = Idle]
  /\ UNCHANGED <<workload, entries, counters, logicals, lowered>>

(* clear(), which does not ask either.                                     *)
Clear ==
  /\ DOMAIN entries # {}
  /\ entries' = <<>>
  /\ counters' = [hits |-> 0, misses |-> 0]
  /\ logicals' = {}
  /\ UNCHANGED <<workload, lowered, session>>

CacheNext ==
  \/ \E p \in Clients : Hit(p) \/ Miss(p) \/ Put(p) \/ AskAgain(p) \/ Release(p)
  \/ Clear

CacheSpec == CacheInit /\ [][CacheNext]_cacheVars
-----------------------------------------------------------------------------
(* A plan for what this key digests.                                       *)
Answers(entry, key) ==
  \E q \in workload.queries, c \in workload.contexts :
    /\ key = PlanCacheKey(q, c)
    /\ entry.plan = Lowered(q, c, entry.logical)

(* The types of the variables. *)
CacheTypeOK ==
  /\ workload \in Workloads
  /\ \A key \in DOMAIN entries :
       /\ entries[key].logical \in 1..lowered
       /\ Answers(entries[key], key)
  /\ counters \in [hits : Nat, misses : Nat]
  /\ lowered \in 0..workload.lowerings
  /\ DOMAIN session = Clients
  /\ \A p \in Clients :
       /\ session[p].state \in {"idle", "missed", "holding"}
       /\ session[p].state # "idle" =>
            session[p].query \in workload.queries /\ session[p].context \in workload.contexts

(* A plan and the query it borrows from live and die together: the cache   *)
(* owns the query of every plan it keeps, and of no other.                 *)
EntriesOwnTheirQueries ==
  /\ logicals = {entries[key].logical : key \in DOMAIN entries}
  /\ \A key \in DOMAIN entries :
       /\ entries[key].plan.borrows = entries[key].logical
       /\ \A other \in DOMAIN entries \ {key} : entries[other].logical # entries[key].logical

(* What holds of the entries between any two calls: each answers its key,  *)
(* and owns the query its plan borrows from.                               *)
CacheInv == CacheTypeOK /\ EntriesOwnTheirQueries

(* The reference a session holds is good: the cache still has that very    *)
(* entry under the key that was asked for, and the query its plan borrows  *)
(* from.                                                                   *)
Usable(p) ==
  /\ KeyOf(p) \in DOMAIN entries
  /\ entries[KeyOf(p)] = session[p].entry
  /\ session[p].entry.plan.borrows \in logicals

(* Entries are numbered in the order of their put().                       *)
Replaced(p) ==
  KeyOf(p) \in DOMAIN entries /\ entries[KeyOf(p)].logical > session[p].entry.logical

Cleared(p) ==
  \A key \in DOMAIN entries : entries[key].logical > session[p].entry.logical

(* A reference handed out by get() goes bad in two ways only: a put() of   *)
(* another session under the very same key, or clear().  Nothing that is   *)
(* looked up, missed, lowered or stored under any other key, of the same   *)
(* query or in the same context, takes the plan or its query away.         *)
UsableUntilReplaced ==
  \A p \in Clients : session[p].state = "holding" => Usable(p) \/ Replaced(p) \/ Cleared(p)

(* What the key leaves to the clients: while a cache is in use, contexts   *)
(* that differ neither in a digested input nor in the version of the rules *)
(* have the same statistics and the same rules.                            *)
StatisticsUnmoved(ws) ==
  \A w \in ws : \A c, d \in w.contexts :
    Inputs(c) = Inputs(d) => c.card.stats = d.card.stats /\ c.rules = d.rules

(* A hit is the plan that lowering the query afresh would have returned,   *)
(* in the context of the session that asks and not in that of the session  *)
(* the plan was lowered for.                                               *)
HitsAreFresh ==
  \A p \in Clients : session[p].state = "holding" =>
    session[p].entry.plan
      = Lowered(session[p].query, session[p].context, session[p].entry.logical)
=============================================================================
