--------------------------- MODULE PlanCache_proofs ---------------------------
(***************************************************************************)
(* The plan cache in use, for every number of sessions and every workload: *)
(* the entries answer their keys and own their queries, a plan that is     *)
(* held is lost to nothing but its replacement, and a hit is what lowering *)
(* afresh would return.                                                    *)
(***************************************************************************)
EXTENDS PlanCache, TLAPS

(* What a session holds was an entry of the cache, and may be one no more. *)
HeldAnswers ==
  \A p \in Clients : session[p].state = "holding" =>
    /\ session[p].entry.logical \in 1..lowered
    /\ session[p].entry.plan.borrows = session[p].entry.logical
    /\ Answers(session[p].entry, KeyOf(p))

HeldInv == CacheInv /\ HeldAnswers /\ UsableUntilReplaced
-----------------------------------------------------------------------------
(* What a key decides.                                                     *)

(* A record with one field replaced has all its other fields unchanged: of *)
(* two that agree after the replacement, only that field can differ.       *)
LEMMA SameButOneField ==
  ASSUME NEW r, NEW s, NEW f, NEW x, NEW y,
         r = [g \in DOMAIN r |-> r[g]], s = [g \in DOMAIN s |-> s[g]],
         [r EXCEPT ![f] = x] = [s EXCEPT ![f] = y],
         r[f] = s[f]
  PROVE  r = s
<1> DEFINE a == [r EXCEPT ![f] = x]
<1> DEFINE b == [s EXCEPT ![f] = y]
<1>1. DOMAIN a = DOMAIN r /\ DOMAIN b = DOMAIN s /\ a = b
  OBVIOUS
<1>2. \A g \in DOMAIN r : g # f => a[g] = r[g] /\ b[g] = s[g]
  BY <1>1
<1>3. \A g \in DOMAIN r : r[g] = s[g]
  BY <1>1, <1>2
<1> QED
  BY <1>1, <1>3

(* The key of the cache digests all of a context but its statistics and    *)
(* its rules: contexts alike in these two and in the key are the same.     *)
LEMMA InputsDecide ==
  ASSUME NEW w \in Workloads, NEW c \in w.contexts, NEW d \in w.contexts,
         Inputs(c) = Inputs(d), c.card.stats = d.card.stats, c.rules = d.rules
  PROVE  c = d
<1>1. /\ c = [f \in DOMAIN c |-> c[f]] /\ d = [f \in DOMAIN d |-> d[f]]
      /\ c.card = [f \in DOMAIN c.card |-> c.card[f]]
      /\ d.card = [f \in DOMAIN d.card |-> d.card[f]]
      /\ "card" \in DOMAIN c /\ "card" \in DOMAIN d
  BY ContextsAssumption DEF IsRecordWith
<1> DEFINE a == Inputs(c)
<1> DEFINE b == Inputs(d)
<1>2. /\ DOMAIN a = DOMAIN c /\ DOMAIN b = DOMAIN d
      /\ \A f \in DOMAIN c : f \notin {"card", "rules"} => a[f] = c[f]
      /\ \A f \in DOMAIN d : f \notin {"card", "rules"} => b[f] = d[f]
      /\ a["card"] = CardinalityKey(c.card) /\ b["card"] = CardinalityKey(d.card)
  BY <1>1 DEF Inputs
<1>3. CardinalityKey(c.card) = CardinalityKey(d.card)
  BY <1>2
<1>4. c.card = d.card
  BY <1>1, <1>3, SameButOneField DEF CardinalityKey
<1>5. \A f \in DOMAIN c : f \in DOMAIN d /\ c[f] = d[f]
  BY <1>2, <1>4
<1> QED
  BY <1>1, <1>2, <1>5

(* Where the statistics stay what they were, two requests with one key are *)
(* lowered to the same plan: the spelling of a query does not matter, and  *)
(* nothing the planner reads is missing from the key.                      *)
LEMMA KeyDecidesThePlan ==
  ASSUME StatisticsUnmoved(Workloads), NEW w \in Workloads, NEW n,
         NEW q \in w.queries, NEW r \in w.queries,
         NEW c \in w.contexts, NEW d \in w.contexts,
         PlanCacheKey(q, c) = PlanCacheKey(r, d)
  PROVE  Lowered(q, c, n) = Lowered(r, d, n)
<1>1. q.nodes = r.nodes /\ Inputs(c) = Inputs(d)
  BY DEF PlanCacheKey, Structure
<1>2. c = d
  BY <1>1, InputsDecide DEF StatisticsUnmoved
<1>3. BuildSidesFor(q.nodes, c.card) = BuildSidesFor(r.nodes, d.card)
  BY <1>1, <1>2
<1> QED
  BY <1>1, <1>2, <1>3 DEF Lowered
-----------------------------------------------------------------------------
(* The invariant.                                                          *)

(* An empty cache, and sessions that have asked for nothing.               *)
LEMMA CacheInitInv == CacheInit => HeldInv
<1> SUFFICES ASSUME CacheInit PROVE HeldInv
  OBVIOUS
<1>1. DOMAIN entries = {} /\ \A p \in Clients : session[p].state = "idle"
  BY DEF CacheInit, Idle
<1>2. CacheTypeOK
  BY <1>1, BoundAssumption DEF CacheInit, CacheTypeOK
<1> QED
  BY <1>1, <1>2 DEF CacheInit, HeldInv, CacheInv, HeldAnswers, EntriesOwnTheirQueries,
                        UsableUntilReplaced

(* What putting an entry away does to the entries.                         *)
LEMMA StoredEntries ==
  ASSUME NEW p \in Clients, Store(p)
  PROVE  /\ DOMAIN entries' = DOMAIN entries \cup {KeyOf(p)}
         /\ entries'[KeyOf(p)] = NewEntry(p)
         /\ \A key \in DOMAIN entries \ {KeyOf(p)} : entries'[key] = entries[key]
  BY DEF Store, Stored

(* A session that comes by a plan of the cache is one that may hold it.    *)
LEMMA HoldingUsable ==
  ASSUME HeldInv, NEW p \in Clients, NEW q \in workload.queries,
         NEW c \in workload.contexts, Cached(q, c),
         session' = [session EXCEPT ![p] = Holding(q, c)],
         UNCHANGED <<workload, entries, logicals, lowered>>,
         counters' \in [hits : Nat, misses : Nat]
  PROVE  HeldInv'
<1>1. CacheTypeOK /\ EntriesOwnTheirQueries /\ HeldAnswers /\ UsableUntilReplaced
  BY DEF HeldInv, CacheInv
<1>2. /\ DOMAIN session' = Clients
      /\ session'[p] = Holding(q, c)
      /\ \A o \in Clients \ {p} : session'[o] = session[o]
  BY <1>1 DEF CacheTypeOK
<1>3. CacheTypeOK'
  <2>1. \A key \in DOMAIN entries : Answers(entries[key], key)'
    BY <1>1 DEF CacheTypeOK, Answers
  <2> QED
    BY <1>1, <1>2, <2>1 DEF CacheTypeOK, Holding
<1>4. EntriesOwnTheirQueries'
  BY <1>1 DEF EntriesOwnTheirQueries
<1>5. ASSUME NEW o \in Clients \ {p}
      PROVE  /\ KeyOf(o)' = KeyOf(o)
             /\ Usable(o)' = Usable(o) /\ Replaced(o)' = Replaced(o) /\ Cleared(o)' = Cleared(o)
             /\ Answers(session[o].entry, KeyOf(o))' = Answers(session[o].entry, KeyOf(o))
  BY <1>2 DEF KeyOf, Usable, Replaced, Cleared, Answers
<1>6. Usable(p)'
  BY <1>1, <1>2 DEF Usable, Holding, Cached, KeyOf, EntriesOwnTheirQueries
<1>7. /\ session'[p].entry.logical \in 1..lowered
      /\ session'[p].entry.plan.borrows = session'[p].entry.logical
      /\ Answers(session[p].entry, KeyOf(p))'
  <2> DEFINE key == PlanCacheKey(q, c)
  <2>1. key \in DOMAIN entries /\ session'[p].entry = entries[key] /\ KeyOf(p)' = key
    BY <1>2 DEF Holding, Cached, KeyOf
  <2>2. entries[key].logical \in 1..lowered /\ Answers(entries[key], key)
    BY <1>1, <2>1 DEF CacheTypeOK
  <2> QED
    BY <1>1, <2>1, <2>2 DEF Answers, EntriesOwnTheirQueries
<1>8. UsableUntilReplaced'
  BY <1>1, <1>2, <1>5, <1>6 DEF UsableUntilReplaced
<1>9. HeldAnswers'
  BY <1>1, <1>2, <1>5, <1>7 DEF HeldAnswers
<1> QED
  BY <1>3, <1>4, <1>8, <1>9 DEF HeldInv, CacheInv

(* A session that holds nothing afterwards disturbs nobody.                *)
LEMMA NotHolding ==
  ASSUME HeldInv, NEW p \in Clients, NEW next,
         session' = [session EXCEPT ![p] = next],
         next.state \in {"idle", "missed"},
         next.state # "idle" =>
           next.query \in workload.queries /\ next.context \in workload.contexts,
         UNCHANGED <<workload, entries, logicals, lowered>>,
         counters' \in [hits : Nat, misses : Nat]
  PROVE  HeldInv'
<1>1. CacheTypeOK /\ EntriesOwnTheirQueries /\ HeldAnswers /\ UsableUntilReplaced
  BY DEF HeldInv, CacheInv
<1>2. /\ DOMAIN session' = Clients
      /\ session'[p] = next
      /\ \A o \in Clients \ {p} : session'[o] = session[o]
  BY <1>1 DEF CacheTypeOK
<1>3. CacheTypeOK'
  <2>1. \A key \in DOMAIN entries : Answers(entries[key], key)'
    BY <1>1 DEF CacheTypeOK, Answers
  <2> QED
    BY <1>1, <1>2, <2>1 DEF CacheTypeOK
<1>4. EntriesOwnTheirQueries'
  BY <1>1 DEF EntriesOwnTheirQueries
<1>5. ASSUME NEW o \in Clients, session'[o].state = "holding"
      PROVE  /\ o # p /\ session'[o] = session[o]
             /\ Usable(o)' = Usable(o) /\ Replaced(o)' = Replaced(o) /\ Cleared(o)' = Cleared(o)
             /\ Answers(session[o].entry, KeyOf(o))' = Answers(session[o].entry, KeyOf(o))
  BY <1>2, <1>5 DEF KeyOf, Usable, Replaced, Cleared, Answers
<1>6. UsableUntilReplaced'
  BY <1>1, <1>5 DEF UsableUntilReplaced
<1>7. HeldAnswers'
  BY <1>1, <1>5 DEF HeldAnswers
<1> QED
  BY <1>3, <1>4, <1>6, <1>7 DEF HeldInv, CacheInv

(* put() frees what was there under the key, and only that, and what it    *)
(* puts there is newer than anything that was.                             *)
LEMMA PutHeld == ASSUME HeldInv, NEW p \in Clients, Put(p) PROVE HeldInv'
<1> DEFINE key == KeyOf(p)
<1> DEFINE own == lowered + 1
<1>1. CacheTypeOK /\ EntriesOwnTheirQueries /\ HeldAnswers /\ UsableUntilReplaced
  BY DEF HeldInv, CacheInv
<1>2. /\ session[p].state = "missed" /\ lowered < workload.lowerings
      /\ lowered' = own /\ workload' = workload /\ counters' = counters
      /\ logicals' = (logicals \ Overwritten(key)) \cup {own}
      /\ session' = [session EXCEPT ![p] = Idle]
  BY DEF Put, Store
<1>3. /\ DOMAIN entries' = DOMAIN entries \cup {key}
      /\ entries'[key] = NewEntry(p)
      /\ \A k \in DOMAIN entries \ {key} : entries'[k] = entries[k]
  BY StoredEntries DEF Put
<1>4. /\ DOMAIN session' = Clients /\ session'[p] = Idle
      /\ \A o \in Clients \ {p} : session'[o] = session[o]
  BY <1>1, <1>2 DEF CacheTypeOK
<1>5. /\ lowered \in Nat /\ workload.lowerings \in Nat
      /\ own \in 1..own /\ own \in 0..workload.lowerings
      /\ \A n \in 1..lowered : n \in 1..own /\ n # own
  BY <1>1, <1>2, BoundAssumption DEF CacheTypeOK
<1>6. \A k \in DOMAIN entries : entries[k].logical \in 1..lowered
  BY <1>1 DEF CacheTypeOK
<1>7. NewEntry(p).logical = own /\ NewEntry(p).plan.borrows = own
  BY DEF NewEntry, Lowered
<1>8. CacheTypeOK'
  <2>1. session[p].query \in workload.queries /\ session[p].context \in workload.contexts
    BY <1>1, <1>2 DEF CacheTypeOK
  <2>2. \E q \in workload.queries, c \in workload.contexts :
          key = PlanCacheKey(q, c) /\ NewEntry(p).plan = Lowered(q, c, own)
    BY <2>1 DEF NewEntry, KeyOf
  <2>3. ASSUME NEW k \in DOMAIN entries'
        PROVE  entries'[k].logical \in 1..own /\ Answers(entries[k], k)'
    <3>1. CASE k = key
      BY <1>2, <1>3, <1>5, <1>7, <2>2, <3>1 DEF Answers
    <3>2. CASE k # key
      <4>1. k \in DOMAIN entries /\ entries'[k] = entries[k]
        BY <1>3, <3>2
      <4>2. Answers(entries[k], k) /\ entries[k].logical \in 1..own
        BY <1>1, <1>5, <4>1 DEF CacheTypeOK
      <4> QED
        BY <1>2, <4>1, <4>2 DEF Answers
    <3> QED
      BY <3>1, <3>2
  <2> QED
    BY <1>1, <1>2, <1>4, <1>5, <2>3 DEF CacheTypeOK, Idle
<1>9. EntriesOwnTheirQueries'
  <2>1. \A k \in DOMAIN entries \ {key} :
          entries'[k].logical \in logicals \ Overwritten(key) /\ entries'[k].logical # own
    BY <1>1, <1>3, <1>5, <1>6 DEF EntriesOwnTheirQueries, Overwritten
  <2>2. \A l \in logicals \ Overwritten(key) :
          \E k \in DOMAIN entries \ {key} : entries'[k].logical = l
    BY <1>1, <1>3 DEF EntriesOwnTheirQueries, Overwritten
  <2>3. logicals' = {entries'[k].logical : k \in DOMAIN entries'}
    BY <1>2, <1>3, <1>7, <2>1, <2>2
  <2>4. ASSUME NEW k \in DOMAIN entries'
        PROVE  /\ entries'[k].plan.borrows = entries'[k].logical
               /\ \A other \in DOMAIN entries' \ {k} : entries'[other].logical # entries'[k].logical
    <3>1. entries'[k].plan.borrows = entries'[k].logical
      BY <1>1, <1>3, <1>7 DEF EntriesOwnTheirQueries
    <3>2. ASSUME NEW other \in DOMAIN entries' \ {k}
          PROVE  entries'[other].logical # entries'[k].logical
      BY <1>1, <1>3, <1>7, <2>1 DEF EntriesOwnTheirQueries
    <3> QED
      BY <3>1, <3>2
  <2> QED
    BY <2>3, <2>4 DEF EntriesOwnTheirQueries
<1>10. ASSUME NEW o \in Clients, session'[o].state = "holding"
       PROVE  /\ o # p /\ session'[o] = session[o] /\ KeyOf(o)' = KeyOf(o)
              /\ session[o].entry.logical \in 1..lowered
              /\ session[o].entry.plan.borrows = session[o].entry.logical
              /\ Answers(session[o].entry, KeyOf(o))'
  <2>1. o # p /\ session'[o] = session[o] /\ KeyOf(o)' = KeyOf(o)
    BY <1>4, <1>10 DEF Idle, KeyOf
  <2> QED
    BY <1>1, <1>2, <1>10, <2>1 DEF HeldAnswers, Answers
<1>11. ASSUME NEW o \in Clients, session'[o].state = "holding"
       PROVE  (Usable(o) \/ Replaced(o) \/ Cleared(o))'
  <2> DEFINE e == session[o].entry
  <2>1. /\ session'[o] = session[o] /\ KeyOf(o)' = KeyOf(o) /\ session[o].state = "holding"
        /\ e.logical \in 1..lowered /\ e.plan.borrows = e.logical
    BY <1>10, <1>11
  <2>2. own > e.logical
    BY <1>5, <2>1
  <2>3. CASE KeyOf(o) = key
    BY <1>3, <1>7, <2>1, <2>2, <2>3 DEF Replaced
  <2>4. CASE KeyOf(o) # key /\ Usable(o)
    <3>1. KeyOf(o) \in DOMAIN entries \ {key} /\ entries[KeyOf(o)] = e /\ e.plan.borrows \in logicals
      BY <2>4 DEF Usable
    <3>2. e.plan.borrows \notin Overwritten(key)
      BY <1>1, <3>1 DEF EntriesOwnTheirQueries, Overwritten
    <3> QED
      BY <1>2, <1>3, <2>1, <3>1, <3>2 DEF Usable
  <2>5. CASE KeyOf(o) # key /\ Replaced(o)
    BY <1>3, <2>1, <2>5 DEF Replaced
  <2>6. CASE Cleared(o)
    BY <1>3, <1>7, <2>1, <2>2, <2>6 DEF Cleared
  <2> QED
    BY <1>1, <2>1, <2>3, <2>4, <2>5, <2>6 DEF UsableUntilReplaced
<1>12. HeldAnswers'
  <2>1. ASSUME NEW o \in Clients, session'[o].state = "holding"
        PROVE  session[o].entry.logical \in 1..own
    BY <1>5, <1>10, <2>1
  <2> QED
    BY <1>2, <1>10, <2>1 DEF HeldAnswers
<1>13. UsableUntilReplaced'
  BY <1>11 DEF UsableUntilReplaced
<1> QED
  BY <1>8, <1>9, <1>12, <1>13 DEF HeldInv, CacheInv

(* clear() frees everything: no entry that is left is older than what a    *)
(* session still refers to.                                                *)
LEMMA ClearHeld == ASSUME HeldInv, Clear PROVE HeldInv'
<1>1. CacheTypeOK /\ HeldAnswers
  BY DEF HeldInv, CacheInv
<1>2. /\ DOMAIN entries' = {} /\ logicals' = {} /\ counters' \in [hits : Nat, misses : Nat]
      /\ UNCHANGED <<workload, lowered, session>>
  BY DEF Clear
<1>3. CacheTypeOK'
  BY <1>1, <1>2 DEF CacheTypeOK
<1>4. EntriesOwnTheirQueries'
  BY <1>2 DEF EntriesOwnTheirQueries
<1>5. UsableUntilReplaced'
  BY <1>2 DEF UsableUntilReplaced, Cleared
<1>6. HeldAnswers'
  BY <1>1, <1>2 DEF HeldAnswers, Answers, KeyOf
<1> QED
  BY <1>3, <1>4, <1>5, <1>6 DEF HeldInv, CacheInv

(* Every step of a session, and clear(), preserves it.                     *)
LEMMA CacheNextInv == HeldInv /\ [CacheNext]_cacheVars => HeldInv'
<1> SUFFICES ASSUME HeldInv, [CacheNext]_cacheVars PROVE HeldInv'
  OBVIOUS
<1>1. CacheTypeOK
  BY DEF HeldInv, CacheInv
<1>2. counters.hits + 1 \in Nat /\ counters.misses + 1 \in Nat
  BY <1>1 DEF CacheTypeOK
<1>3. /\ [counters EXCEPT !.hits = @ + 1] \in [hits : Nat, misses : Nat]
      /\ [counters EXCEPT !.misses = @ + 1] \in [hits : Nat, misses : Nat]
  BY <1>1, <1>2 DEF CacheTypeOK
<1>4. ASSUME NEW p \in Clients, Hit(p) PROVE HeldInv'
  <2>1. PICK q \in workload.queries, c \in workload.contexts :
          Cached(q, c) /\ session' = [session EXCEPT ![p] = Holding(q, c)]
    BY <1>4 DEF Hit
  <2> QED
    BY <1>3, <1>4, <2>1, HoldingUsable DEF Hit
<1>5. ASSUME NEW p \in Clients, Miss(p) PROVE HeldInv'
  <2>1. PICK q \in workload.queries, c \in workload.contexts :
          session' = [session EXCEPT ![p] = Asked(q, c)]
    BY <1>5 DEF Miss
  <2>2. /\ Asked(q, c).state = "missed"
        /\ Asked(q, c).query = q /\ Asked(q, c).context = c
    BY DEF Asked
  <2>3. UNCHANGED <<workload, entries, logicals, lowered>>
    BY <1>5 DEF Miss
  <2>4. counters' \in [hits : Nat, misses : Nat]
    BY <1>3, <1>5 DEF Miss
  <2> QED
    BY <2>1, <2>2, <2>3, <2>4, NotHolding
<1>6. ASSUME NEW p \in Clients, AskAgain(p) PROVE HeldInv'
  <2>1. session[p].query \in workload.queries /\ session[p].context \in workload.contexts
    BY <1>1, <1>6 DEF AskAgain, CacheTypeOK
  <2> QED
    BY <1>3, <1>6, <2>1, HoldingUsable DEF AskAgain
<1>7. ASSUME NEW p \in Clients, Release(p) PROVE HeldInv'
  <2>1. Idle.state = "idle"
    BY DEF Idle
  <2>2. counters' \in [hits : Nat, misses : Nat]
    BY <1>1, <1>7 DEF Release, CacheTypeOK
  <2> QED
    BY <1>7, <2>1, <2>2, NotHolding DEF Release
<1>8. CASE UNCHANGED cacheVars
  <2>1. \A key \in DOMAIN entries : Answers(entries[key], key)'
    BY <1>1, <1>8 DEF CacheTypeOK, Answers, cacheVars
  <2> QED
    BY <1>8, <2>1 DEF cacheVars, HeldInv, CacheInv, CacheTypeOK, EntriesOwnTheirQueries,
                      HeldAnswers, UsableUntilReplaced, Usable, Replaced, Cleared, KeyOf, Answers
<1> QED
  BY <1>4, <1>5, <1>6, <1>7, <1>8, PutHeld, ClearHeld DEF CacheNext
-----------------------------------------------------------------------------
(* Every entry answers its key with a plan of that very request, and owns  *)
(* the query this plan borrows from, alone (get(), put() and clear() of    *)
(* plan_cache.cpp, in any order).                                          *)
THEOREM CacheInvariance == CacheSpec => []CacheInv
<1>1. CacheSpec => []HeldInv
  BY CacheInitInv, CacheNextInv, PTL DEF CacheSpec
<1>2. HeldInv => CacheInv
  BY DEF HeldInv
<1> QED
  BY <1>1, <1>2, PTL

(* The plan a session holds can be used, with the query it borrows from,   *)
(* until there is a newer one under its own key or everything has been     *)
(* cleared away: put() under any other key frees neither.                  *)
THEOREM HeldUntilReplaced == CacheSpec => []UsableUntilReplaced
<1>1. CacheSpec => []HeldInv
  BY CacheInitInv, CacheNextInv, PTL DEF CacheSpec
<1>2. HeldInv => UsableUntilReplaced
  BY DEF HeldInv
<1> QED
  BY <1>1, <1>2, PTL

(* What is held under a key was lowered for a request with that key.       *)
LEMMA AnsweredFresh ==
  ASSUME StatisticsUnmoved(Workloads), HeldInv PROVE HitsAreFresh
<1>1. CacheTypeOK /\ HeldAnswers
  BY DEF HeldInv, CacheInv
<1>2. ASSUME NEW p \in Clients, session[p].state = "holding"
      PROVE  session[p].entry.plan
               = Lowered(session[p].query, session[p].context, session[p].entry.logical)
  <2> DEFINE e == session[p].entry
  <2>1. /\ session[p].query \in workload.queries /\ session[p].context \in workload.contexts
        /\ workload \in Workloads
    BY <1>1, <1>2 DEF CacheTypeOK
  <2>2. Answers(e, KeyOf(p))
    BY <1>1, <1>2 DEF HeldAnswers
  <2>3. PICK q \in workload.queries, c \in workload.contexts :
          KeyOf(p) = PlanCacheKey(q, c) /\ e.plan = Lowered(q, c, e.logical)
    BY <2>2 DEF Answers
  <2>4. PlanCacheKey(q, c) = PlanCacheKey(session[p].query, session[p].context)
    BY <2>3 DEF KeyOf
  <2>5. Lowered(q, c, e.logical) = Lowered(session[p].query, session[p].context, e.logical)
    BY <2>1, <2>3, <2>4, KeyDecidesThePlan
  <2> QED
    BY <2>3, <2>5
<1> QED
  BY <1>2 DEF HitsAreFresh

(* Where no statistics are taken anew under a cache, a hit is the plan     *)
(* that lowering afresh would have returned: plan_cache_key() leaves out   *)
(* nothing else that the planner reads.                                    *)
THEOREM FreshHits ==
  ASSUME StatisticsUnmoved(Workloads) PROVE CacheSpec => []HitsAreFresh
<1>1. CacheSpec => []HeldInv
  BY CacheInitInv, CacheNextInv, PTL DEF CacheSpec
<1>2. HeldInv => HitsAreFresh
  BY AnsweredFresh
<1> QED
  BY <1>1, <1>2, PTL
=============================================================================
