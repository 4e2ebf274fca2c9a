----------------------- MODULE AssistantSearch_proofs -----------------------
(***************************************************************************)
(* Proofs about AssistantSearch, for any number of threads, queries,       *)
(* interpretations and versions and any capacity and lifetime of the       *)
(* cache.  SharedInv is what makes them inductive: an entry is made for    *)
(* its key's version and justified by a query of its key's wording, and a  *)
(* thread past the judgement holds an interpretation its own query         *)
(* justifies.  TypeInv adds the cache's order, and FoundInv what a search  *)
(* was asked for; what the search returns is EstablishmentSearch_proofs'.  *)
(***************************************************************************)
EXTENDS AssistantSearch, EstablishmentSearch_proofs

\* What the provers need to know of the threads' variables.
ThreadsTyped ==
  /\ DOMAIN pc = Threads /\ DOMAIN query = Threads /\ DOMAIN snap = Threads
  /\ DOMAIN intent = Threads /\ DOMAIN hit = Threads /\ DOMAIN made = Threads
  /\ DOMAIN entries = CacheKeys
  /\ store \in Versions
  /\ \A t \in Threads : made[t] \in Versions \cup {NoVersion}

AtWork == {"get", "interpret"}

\* A thread that may use the cache holds a real query and has read a version.
KeysAreReal ==
  \A t \in Threads :
    /\ pc[t] \notin {"idle"} => query[t] \in Queries
    /\ pc[t] = "version" => ~IsPlain(query[t]) /\ made[t] = NoVersion
    /\ pc[t] \in AtWork => ~IsPlain(query[t]) /\ snap[t] \in Versions
    /\ pc[t] = "judge" /\ ~IsPlain(query[t]) =>
         snap[t] \in Versions /\ made[t] = snap[t]

EntriesMatchTheirKeys ==
  \A k \in CacheKeys : entries[k] # NoEntry => entries[k].value.made = k[2]

UsedIntentsAreAcceptable ==
  \A t \in Threads : pc[t] \in SearchedPcs \cup {"resolve"} =>
    Acceptable(intent[t], query[t])

SharedInv ==
  /\ ThreadsTyped
  /\ KeysAreReal
  /\ EntriesMatchTheirKeys
  /\ OnlyAcceptedIntentsAreCached
  /\ IntentsMatchTheirData
  /\ UsedIntentsAreAcceptable
-----------------------------------------------------------------------------

\* Nothing is cached and no thread is at work at the start.
LEMMA InitShared == AssistantInit => SharedInv
  BY AssistantAssumption
  DEF AssistantInit, CacheInit, SharedInv, ThreadsTyped, KeysAreReal, AtWork,
      EntriesMatchTheirKeys, OnlyAcceptedIntentsAreCached, Cached,
      IntentsMatchTheirData, UsedIntentsAreAcceptable, SearchedPcs

\* The key of a thread at work is a key of the cache.
LEMMA KeyInCache ==
  ASSUME SharedInv, NEW t \in Threads, query[t] \in Queries, snap[t] \in Versions
  PROVE  /\ Key(t) \in CacheKeys
         /\ Key(t)[1] = query[t].wording /\ Key(t)[2] = snap[t]
  BY AssistantAssumption DEF Key, CacheKey

\* What the three parts about the cache say of an entry, in one predicate.
Justified(k, value) ==
  /\ value.made = k[2]
  /\ \E q \in Queries :
       k[1] = q.wording /\ ~IsPlain(q) /\ Acceptable(value.intent, q)

\* The cache operations keep every entry justified, given that the value put is.
LEMMA CacheKeepsJustified ==
  ASSUME DOMAIN entries = CacheKeys,
         \A k \in CacheKeys : entries[k] # NoEntry => Justified(k, entries[k].value),
         NEW k0 \in CacheKeys,
         \/ UNCHANGED cacheVars \/ Hit(k0) \/ Miss(k0) \/ Tick
         \/ \E v : Justified(k0, v) /\ Put(k0, v)
  PROVE  /\ DOMAIN entries' = CacheKeys
         /\ \A k \in CacheKeys :
              entries'[k] # NoEntry => Justified(k, entries'[k].value)
<1>1. CASE UNCHANGED cacheVars \/ Hit(k0) \/ Tick
  BY <1>1 DEF cacheVars, Hit, Tick
<1>2. CASE Miss(k0)
  BY <1>2 DEF Miss
<1>3. CASE \E v : Justified(k0, v) /\ Put(k0, v)
  <2>1. PICK v : Justified(k0, v) /\ Put(k0, v)
    BY <1>3
  <2>2. DOMAIN entries' = CacheKeys
    BY <2>1 DEF Put
  <2>3. ASSUME NEW k \in CacheKeys
        PROVE  \/ entries'[k] = NoEntry \/ entries'[k] = entries[k]
               \/ k = k0 /\ entries'[k].value = v
    BY <2>1 DEF Put
  <2> QED
    BY <2>1, <2>2, <2>3
<1> QED
  BY <1>1, <1>2, <1>3
\* The cache's half of the step: every entry stays justified.
LEMMA StepKeepsEntries ==
  ASSUME SharedInv, AssistantNext
  PROVE  /\ DOMAIN entries' = CacheKeys
         /\ \A k \in CacheKeys :
              entries'[k] # NoEntry => Justified(k, entries'[k].value)
<1>1. /\ DOMAIN entries = CacheKeys
      /\ \A k \in CacheKeys : entries[k] # NoEntry => Justified(k, entries[k].value)
  BY DEF SharedInv, ThreadsTyped, EntriesMatchTheirKeys,
         OnlyAcceptedIntentsAreCached, Cached, Justified
<1>2. CASE UNCHANGED cacheVars \/ Tick
  BY <1>1, <1>2 DEF cacheVars, Tick
<1>3. ASSUME NEW t \in Threads, GetCached(t) \/ GetNothing(t)
      PROVE  Key(t) \in CacheKeys /\ (Hit(Key(t)) \/ Miss(Key(t)))
  <2>1. query[t] \in Queries /\ snap[t] \in Versions
    BY <1>3 DEF GetCached, GetNothing, SharedInv, KeysAreReal, AtWork
  <2> QED
    BY <1>3, <2>1, KeyInCache DEF GetCached, GetNothing
<1>4. ASSUME NEW t \in Threads, Accept(t), ~UNCHANGED cacheVars
      PROVE  /\ Key(t) \in CacheKeys
             /\ \E v : Justified(Key(t), v) /\ Put(Key(t), v)
  <2> DEFINE v == [intent |-> intent[t], made |-> made[t]]
  <2>1. /\ pc[t] = "judge" /\ ~IsPlain(query[t]) /\ Put(Key(t), v)
        /\ Acceptable(intent[t], query[t])
    BY <1>4 DEF Accept, Passes
  <2>2. query[t] \in Queries /\ snap[t] \in Versions /\ made[t] = snap[t]
    BY <2>1 DEF SharedInv, KeysAreReal
  <2>3. Key(t) \in CacheKeys /\ Key(t)[1] = query[t].wording /\ Key(t)[2] = snap[t]
    BY <2>2, KeyInCache
  <2>4. v.intent = intent[t] /\ v.made = made[t]
    OBVIOUS
  <2>5. Justified(Key(t), v)
    BY <2>1, <2>2, <2>3, <2>4 DEF Justified
  <2> QED
    BY <2>1, <2>3, <2>5
<1>5. \/ UNCHANGED cacheVars \/ Tick
      \/ \E t \in Threads : GetCached(t) \/ GetNothing(t) \/ Accept(t)
  BY DEF AssistantNext, Serve, TimePasses, ChangeData, Receive, ReadVersion,
         Interpret, InterpreterFails, Reject, AskForPlace, PlaceUnknown,
         PlaceAmbiguous, PlaceHasNoCentre, CommunesMissing, DirectoryMissing, Find,
         Conclude, RequestFails
<1> QED
  BY <1>1, <1>2, <1>3, <1>4, <1>5, CacheKeepsJustified
\* What SharedInv says of one thread.
ThreadInv(t) ==
  /\ made[t] \in Versions \cup {NoVersion}
  /\ pc[t] \notin {"idle"} => query[t] \in Queries
  /\ pc[t] = "version" => ~IsPlain(query[t]) /\ made[t] = NoVersion
  /\ pc[t] \in AtWork => ~IsPlain(query[t]) /\ snap[t] \in Versions
  /\ pc[t] = "judge" /\ ~IsPlain(query[t]) =>
       snap[t] \in Versions /\ made[t] = snap[t]
  /\ made[t] # NoVersion => made[t] = snap[t]
  /\ pc[t] \in SearchedPcs \cup {"resolve"} => Acceptable(intent[t], query[t])

ThreadDomains ==
  /\ DOMAIN pc = Threads /\ DOMAIN query = Threads /\ DOMAIN snap = Threads
  /\ DOMAIN intent = Threads /\ DOMAIN hit = Threads /\ DOMAIN made = Threads
  /\ store \in Versions

\* A step of one thread leaves every other thread as it was.
LEMMA ServeTouchesOneThread ==
  ASSUME ThreadDomains, NEW t \in Threads, Serve(t), NEW u \in Threads, u # t
  PROVE  /\ pc'[u] = pc[u] /\ query'[u] = query[u] /\ snap'[u] = snap[u]
         /\ intent'[u] = intent[u] /\ made'[u] = made[u]
  BY DEF ThreadDomains, Serve, Receive, ReadVersion, GetCached, GetNothing,
         Interpret, InterpreterFails, Reject, Accept, AskForPlace, PlaceUnknown,
         PlaceAmbiguous, PlaceHasNoCentre, CommunesMissing, DirectoryMissing, Find,
         Conclude, RequestFails, Become, requestVars

\* A step of a thread keeps what SharedInv says of that thread.
LEMMA ServeKeepsThread ==
  ASSUME SharedInv, ThreadDomains, NEW t \in Threads, ThreadInv(t), Serve(t)
  PROVE  ThreadDomains' /\ ThreadInv(t)'
<1> USE AssistantAssumption
    DEF ThreadDomains, ThreadInv, AtWork, SearchedPcs, OutcomePcs, Become
<1>1. CASE Receive(t)
  BY <1>1 DEF Receive
<1>2. CASE ReadVersion(t)
  BY <1>2 DEF ReadVersion
<1>3. CASE GetCached(t)
  <2>1. query[t] \in Queries /\ snap[t] \in Versions /\ Key(t) \in Cached
    BY <1>3 DEF GetCached, Hit, Live
  <2>2. entries[Key(t)].value.made = snap[t]
    BY <2>1, KeyInCache DEF SharedInv, EntriesMatchTheirKeys, Cached
  <2> QED
    BY <1>3, <2>1, <2>2 DEF GetCached
<1>4. CASE GetNothing(t) \/ InterpreterFails(t) \/ Reject(t)
  BY <1>4 DEF GetNothing, InterpreterFails, Reject, requestVars
<1>5. CASE Interpret(t)
  BY <1>5 DEF Interpret
<1>6. CASE Accept(t)
  BY <1>6 DEF Accept, Passes, requestVars
<1>7. ASSUME NEW outcome \in OutcomePcs, outcome # "idle", Conclude(t, outcome)
      PROVE  ThreadDomains' /\ ThreadInv(t)'
  BY <1>7 DEF Conclude, Seen
<1>8. CASE \/ AskForPlace(t) \/ PlaceUnknown(t) \/ PlaceAmbiguous(t)
           \/ PlaceHasNoCentre(t) \/ CommunesMissing(t)
           \/ DirectoryMissing(t) \/ Find(t)
  BY <1>7, <1>8 DEF AskForPlace, PlaceUnknown, PlaceAmbiguous, PlaceHasNoCentre,
                    CommunesMissing, DirectoryMissing, Find
<1>9. CASE RequestFails(t)
  BY <1>9 DEF RequestFails
<1> QED
  BY <1>1, <1>2, <1>3, <1>4, <1>5, <1>6, <1>8, <1>9 DEF Serve

\* Every step of a request, a load, a tick or an eviction keeps the shared
\* invariant.
LEMMA NextKeepsShared == SharedInv /\ [AssistantNext]_assistantVars => SharedInv'
<1> SUFFICES ASSUME SharedInv, [AssistantNext]_assistantVars PROVE SharedInv'
  OBVIOUS
<1>1. CASE UNCHANGED assistantVars
  BY <1>1 DEF assistantVars, cacheVars, requestVars, SharedInv, ThreadsTyped,
     KeysAreReal, EntriesMatchTheirKeys, OnlyAcceptedIntentsAreCached, Cached,
     IntentsMatchTheirData, UsedIntentsAreAcceptable
<1>2. CASE AssistantNext
  <2>1. ThreadDomains /\ \A u \in Threads : ThreadInv(u)
    BY DEF SharedInv, ThreadsTyped, ThreadDomains, ThreadInv, KeysAreReal,
           IntentsMatchTheirData, UsedIntentsAreAcceptable
  <2>2. ThreadDomains' /\ \A u \in Threads : ThreadInv(u)'
    <3>1. ASSUME NEW t \in Threads, Serve(t)
          PROVE  ThreadDomains' /\ \A u \in Threads : ThreadInv(u)'
      <4>1. ThreadDomains' /\ ThreadInv(t)'
        BY <2>1, <3>1, ServeKeepsThread
      <4>2. ASSUME NEW u \in Threads, u # t PROVE ThreadInv(u)'
        BY <2>1, <3>1, <4>2, ServeTouchesOneThread DEF ThreadInv
      <4> QED
        BY <4>1, <4>2
    <3>2. CASE ChangeData \/ TimePasses
      BY <2>1, <3>2
      DEF ChangeData, TimePasses, requestVars, ThreadDomains, ThreadInv
    <3> QED
      BY <1>2, <3>1, <3>2 DEF AssistantNext
  <2>3. /\ DOMAIN entries' = CacheKeys
        /\ \A k \in CacheKeys :
             entries'[k] # NoEntry => Justified(k, entries'[k].value)
    BY <1>2, StepKeepsEntries
  <2> QED
    BY <2>2, <2>3
    DEF SharedInv, ThreadsTyped, ThreadDomains, ThreadInv, KeysAreReal,
        EntriesMatchTheirKeys, OnlyAcceptedIntentsAreCached, Cached, Justified,
        IntentsMatchTheirData, UsedIntentsAreAcceptable
<1> QED
  BY <1>1, <1>2

\* The inductive invariant holds of every behaviour of the assistant.
THEOREM SharedAlways == AssistantSpec => []SharedInv
  BY InitShared, NextKeepsShared, PTL DEF AssistantSpec

\* Whatever entries the cache evicts, expires or shares between queries of one
\* wording, a search or clarification rests on the request's own words alone
\* (assistant_search.py:318-331).
THEOREM NoCriterionIsInvented == AssistantSpec => []NothingIsInvented
<1>1. SharedInv => NothingIsInvented
  BY DEF SharedInv, UsedIntentsAreAcceptable, NothingIsInvented, Acceptable
<1> QED
  BY <1>1, SharedAlways, PTL

\* Nothing but accepted interpretations ever enters the cache
\* (assistant_search.py:332-338).
THEOREM CacheHoldsAcceptedIntents == AssistantSpec => []OnlyAcceptedIntentsAreCached
<1>1. SharedInv => OnlyAcceptedIntentsAreCached
  BY DEF SharedInv
<1> QED
  BY <1>1, SharedAlways, PTL

\* An interpretation is only used on the data version it was made under
\* (assistant_search.py:302-307).
THEOREM NoIntentOutlivesItsData == AssistantSpec => []IntentsMatchTheirData
<1>1. SharedInv => IntentsMatchTheirData
  BY DEF SharedInv
<1> QED
  BY <1>1, SharedAlways, PTL
-----------------------------------------------------------------------------
\* What a step may do to the cache.
LEMMA CacheSteps ==
  ASSUME AssistantNext
  PROVE  \/ UNCHANGED cacheVars \/ Tick
         \/ \E t \in Threads : Hit(Key(t)) \/ Miss(Key(t))
         \/ \E t \in Threads : /\ pc[t] = "judge"
                               /\ Put(Key(t), [intent |-> intent[t], made |-> made[t]])
  BY DEF AssistantNext, Serve, TimePasses, ChangeData, Receive, ReadVersion,
         GetCached, GetNothing, Interpret, InterpreterFails, Reject, Accept,
         AskForPlace, PlaceUnknown, PlaceAmbiguous, PlaceHasNoCentre,
         CommunesMissing, DirectoryMissing, Find, Conclude, RequestFails

\* An entry lives for Ttl from when it was stored, not from when it was hit.
EntriesAreDated ==
  /\ DOMAIN entries = CacheKeys
  /\ \A k \in CacheKeys :
       entries[k] # NoEntry => entries[k].expires_at = entries[k].stored_at + Ttl

\* A clock that advances and a hit that moves an entry keep its date.
LEMMA NextKeepsDates ==
  EntriesAreDated /\ [AssistantNext]_assistantVars => EntriesAreDated'
<1> SUFFICES ASSUME EntriesAreDated, [AssistantNext]_assistantVars
             PROVE  EntriesAreDated'
  OBVIOUS
<1>1. CASE UNCHANGED cacheVars \/ Tick \/ UNCHANGED assistantVars
  BY <1>1 DEF EntriesAreDated, cacheVars, assistantVars, Tick
<1>2. ASSUME NEW k \in CacheKeys \cup {Key(t) : t \in Threads}, Hit(k) \/ Miss(k)
      PROVE  EntriesAreDated'
  <2>1. /\ DOMAIN entries' = CacheKeys
        /\ \A j \in CacheKeys : entries'[j] = entries[j] \/ entries'[j] = NoEntry
    BY <1>2 DEF Hit, Miss, EntriesAreDated
  <2> QED
    BY <2>1 DEF EntriesAreDated
<1>3. ASSUME NEW k, NEW v, Put(k, v) PROVE EntriesAreDated'
  <2>1. ASSUME NEW j \in CacheKeys
        PROVE  \/ entries'[j] = entries[j] \/ entries'[j] = NoEntry
               \/ entries'[j] = [value |-> v, stored_at |-> clock,
                                 expires_at |-> clock + Ttl]
    BY <1>3 DEF Put
  <2>2. DOMAIN entries' = CacheKeys
    BY <1>3 DEF Put
  <2> QED
    BY <2>1, <2>2 DEF EntriesAreDated
<1> QED
  BY <1>1, <1>2, <1>3, CacheSteps

\* However often it was hit in between, an entry is served for its lifetime
\* and no longer (interpretation_cache.py:40-50).
THEOREM NothingOldIsServed == AssistantSpec => []ServedIntentsAreYoung
<1>1. AssistantInit => EntriesAreDated
  BY DEF AssistantInit, CacheInit, EntriesAreDated
<1>2. EntriesAreDated => ServedIntentsAreYoung
  BY DEF EntriesAreDated, ServedIntentsAreYoung, Live, Cached
<1> QED
  BY <1>1, <1>2, NextKeepsDates, PTL DEF AssistantSpec
-----------------------------------------------------------------------------
\* A request has an interpretation from when it is judged to its outcome, and
\* none before; no failure is ever in the cache.
HasIntentPcs == {"judge", "resolve", "rejected", "source_missing"} \cup SearchedPcs
NoIntentPcs == {"version", "get", "interpret", "provider_unavailable"}

IntentOf(t) ==
  /\ pc[t] \in HasIntentPcs => intent[t] # NoIntent
  /\ pc[t] \in NoIntentPcs => intent[t] = NoIntent

CachedIntents ==
  /\ DOMAIN entries = CacheKeys
  /\ \A k \in CacheKeys : entries[k] # NoEntry => entries[k].value.intent # NoIntent

IntentInv ==
  /\ DOMAIN pc = Threads /\ DOMAIN intent = Threads
  /\ CachedIntents
  /\ \A t \in Threads : IntentOf(t)

\* What a step puts into the cache or takes out of it leaves real intents there.
LEMMA NextKeepsCachedIntents ==
  ASSUME IntentInv, AssistantNext PROVE CachedIntents'
<1>1. CASE UNCHANGED cacheVars \/ Tick
  BY <1>1 DEF IntentInv, CachedIntents, cacheVars, Tick
<1>2. ASSUME NEW k, Hit(k) \/ Miss(k) PROVE CachedIntents'
  <2>1. /\ DOMAIN entries' = CacheKeys
        /\ \A j \in CacheKeys : entries'[j] = entries[j] \/ entries'[j] = NoEntry
    BY <1>2 DEF Hit, Miss, IntentInv, CachedIntents
  <2> QED
    BY <2>1 DEF IntentInv, CachedIntents
<1>3. ASSUME NEW t \in Threads, pc[t] = "judge",
             Put(Key(t), [intent |-> intent[t], made |-> made[t]])
      PROVE  CachedIntents'
  <2> DEFINE v == [intent |-> intent[t], made |-> made[t]]
  <2>1. v.intent # NoIntent
    BY <1>3 DEF IntentInv, IntentOf, HasIntentPcs
  <2>2. ASSUME NEW j \in CacheKeys
        PROVE  \/ entries'[j] = entries[j] \/ entries'[j] = NoEntry
               \/ entries'[j].value = v
    BY <1>3 DEF Put
  <2>3. DOMAIN entries' = CacheKeys
    BY <1>3 DEF Put
  <2> HIDE DEF v
  <2> QED
    BY <2>1, <2>2, <2>3 DEF IntentInv, CachedIntents
<1> QED
  BY <1>1, <1>2, <1>3, CacheSteps

\* A step of one thread keeps what is said of its own interpretation.
LEMMA ServeKeepsIntent ==
  ASSUME IntentInv, NEW t \in Threads, Serve(t)
  PROVE  DOMAIN pc' = Threads /\ DOMAIN intent' = Threads /\ IntentOf(t)'
<1> USE DEF IntentInv, IntentOf, HasIntentPcs, NoIntentPcs, SearchedPcs, Become
<1>1. CASE Receive(t)
  BY <1>1, NoIntentAssumption DEF Receive
<1>2. CASE GetCached(t)
  <2>1. Key(t) \in CacheKeys /\ entries[Key(t)] # NoEntry
    BY <1>2 DEF GetCached, Hit, Live, Cached
  <2> QED
    BY <1>2, <2>1 DEF GetCached, CachedIntents
<1>3. CASE Interpret(t)
  BY <1>3, AssistantAssumption DEF Interpret
<1>4. CASE ReadVersion(t) \/ GetNothing(t) \/ InterpreterFails(t) \/ Reject(t) \/ Accept(t)
  BY <1>4 DEF ReadVersion, GetNothing, InterpreterFails, Reject, Accept, requestVars
<1>5. CASE \/ AskForPlace(t) \/ PlaceUnknown(t) \/ PlaceAmbiguous(t)
           \/ PlaceHasNoCentre(t) \/ CommunesMissing(t)
           \/ DirectoryMissing(t) \/ Find(t)
  BY <1>5 DEF AskForPlace, PlaceUnknown, PlaceAmbiguous, PlaceHasNoCentre,
              CommunesMissing, DirectoryMissing, Find, Conclude
<1>6. CASE RequestFails(t)
  BY <1>6 DEF RequestFails
<1> QED
  BY <1>1, <1>2, <1>3, <1>4, <1>5, <1>6 DEF Serve

\* Every step keeps the invariant about interpretations.
LEMMA NextKeepsIntents == IntentInv /\ SharedInv /\ [AssistantNext]_assistantVars => IntentInv'
<1> SUFFICES ASSUME IntentInv, SharedInv, [AssistantNext]_assistantVars PROVE IntentInv'
  OBVIOUS
<1>1. CASE UNCHANGED assistantVars
  BY <1>1 DEF assistantVars, cacheVars, requestVars, IntentInv, CachedIntents, IntentOf
<1>2. CASE ChangeData \/ TimePasses
  BY <1>2, NextKeepsCachedIntents
  DEF AssistantNext, ChangeData, TimePasses, requestVars, IntentInv, IntentOf
<1>3. ASSUME NEW t \in Threads, Serve(t) PROVE IntentInv'
  <2>1. DOMAIN pc' = Threads /\ DOMAIN intent' = Threads /\ IntentOf(t)'
    BY <1>3, ServeKeepsIntent
  <2>2. ASSUME NEW u \in Threads, u # t PROVE IntentOf(u)'
    BY <1>3, <2>2, ServeTouchesOneThread
    DEF IntentInv, IntentOf, SharedInv, ThreadsTyped, ThreadDomains
  <2>3. CachedIntents'
    BY <1>3, NextKeepsCachedIntents DEF AssistantNext
  <2> QED
    BY <2>1, <2>2, <2>3 DEF IntentInv
<1> QED
  BY <1>1, <1>2, <1>3 DEF AssistantNext

\* A request for a ranking that gets an answer is told that there is none, and
\* is told that the interpreter is unavailable exactly if no interpretation of
\* it was had, from the model or the cache (assistant_search.py:172-199).
THEOREM RankingIsAlwaysDeclined == AssistantSpec => []RankingRequestsAreAnswered
<1>1. AssistantInit => IntentInv
  BY DEF AssistantInit, CacheInit, IntentInv, CachedIntents, IntentOf,
         HasIntentPcs, NoIntentPcs, SearchedPcs
<1>2. ASSUME IntentInv, NEW t \in Threads, pc[t] \in AnsweredPcs, query[t].subjective
      PROVE  /\ "no_ranking" \in {Response(t).message, Response(t).reframe}
             /\ Response(t).message = "interpreter_unavailable" <=> intent[t] = NoIntent
  <2>1. IntentOf(t)
    BY <1>2 DEF IntentInv
  <2>2. CASE pc[t] = "rejected"
    BY <1>2, <2>1, <2>2 DEF Response, IntentOf, HasIntentPcs
  <2>3. CASE pc[t] = "provider_unavailable"
    BY <1>2, <2>1, <2>3 DEF Response, IntentOf, NoIntentPcs
  <2>4. CASE pc[t] \in SearchedPcs
    BY <1>2, <2>1, <2>4 DEF Response, IntentOf, HasIntentPcs, SearchedPcs
  <2> QED
    BY <1>2, <2>2, <2>3, <2>4 DEF AnsweredPcs
<1>3. IntentInv => RankingRequestsAreAnswered
  BY <1>2 DEF RankingRequestsAreAnswered
<1> QED
  BY <1>1, <1>3, NextKeepsIntents, SharedAlways, PTL DEF AssistantSpec
-----------------------------------------------------------------------------
(* The cache's own bookkeeping: its mapping and its order.                 *)

CacheTyped ==
  /\ entries \in [CacheKeys -> {NoEntry} \cup Entry]
  /\ recency \in Seq(CacheKeys)
  /\ clock \in Nat

CacheInv == CacheTyped /\ CacheIsBounded

\* Taking a key out of the order leaves the others, once each.
LEMMA WithoutKey ==
  ASSUME CacheInv, NEW k
  PROVE  /\ Without(k) \in Seq(CacheKeys)
         /\ Len(Without(k)) <= Len(recency)
         /\ k \in Cached => Len(Without(k)) <= Len(recency) - 1
         /\ \A i, j \in DOMAIN Without(k) : Without(k)[i] = Without(k)[j] => i = j
         /\ {Without(k)[i] : i \in DOMAIN Without(k)} = Cached \ {k}
<1> DEFINE I == {i \in DOMAIN recency : recency[i] # k}
<1>1. /\ recency \in Seq(CacheKeys)
      /\ \A i, j \in DOMAIN recency : recency[i] = recency[j] => i = j
      /\ {recency[i] : i \in DOMAIN recency} = Cached
  BY DEF CacheInv, CacheTyped, CacheIsBounded
<1>2. I \in SUBSET (DOMAIN recency)
  OBVIOUS
<1>3. Without(k) = Selected(recency, I)
  BY DEF Without
<1>4. /\ Without(k) \in Seq(CacheKeys)
      /\ Len(Without(k)) = Cardinality(I)
      /\ \A i, j \in DOMAIN Without(k) : Without(k)[i] = Without(k)[j] => i = j
      /\ \A j \in DOMAIN Without(k) : \E i \in I : Without(k)[j] = recency[i]
      /\ \A i \in I : \E j \in DOMAIN Without(k) : Without(k)[j] = recency[i]
  <2> HIDE DEF I
  <2> QED
    BY <1>1, <1>2, <1>3, SelectedKeepsDistinct
<1>5. {Without(k)[i] : i \in DOMAIN Without(k)} = Cached \ {k}
  <2>1. ASSUME NEW j \in DOMAIN Without(k) PROVE Without(k)[j] \in Cached \ {k}
    BY <1>1, <1>4
  <2>2. ASSUME NEW c \in Cached \ {k} PROVE \E j \in DOMAIN Without(k) : Without(k)[j] = c
    BY <1>1, <1>4
  <2> QED
    BY <2>1, <2>2
<1>6. Cardinality(I) <= Len(recency)
  BY <1>1, <1>2, PositionsAreFinite
<1>7. ASSUME k \in Cached PROVE Cardinality(I) <= Len(recency) - 1
  <2>1. PICK p \in DOMAIN recency : recency[p] = k
    BY <1>1, <1>7
  <2>2. I = (1..Len(recency)) \ {p}
    BY <1>1, <2>1
  <2>3. Len(recency) \in Nat /\ p \in 1..Len(recency)
    BY <1>1, <2>1
  <2>4. Cardinality((1..Len(recency)) \ {p}) = Len(recency) - 1
    BY <2>3, CountAllButOne
  <2> HIDE DEF I
  <2> QED
    BY <2>2, <2>3, <2>4
<1> QED
  BY <1>4, <1>5, <1>6, <1>7

\* A key put at the end is there once, after all the others.
LEMMA MovedKey ==
  ASSUME CacheInv, NEW k \in CacheKeys
  PROVE  LET m == MoveToEnd(k)
         IN /\ m \in Seq(CacheKeys)
            /\ Len(m) <= MaxEntries + 1
            /\ k \in Cached => Len(m) <= MaxEntries
            /\ \A i, j \in DOMAIN m : m[i] = m[j] => i = j
            /\ {m[i] : i \in DOMAIN m} = Cached \cup {k}
<1> DEFINE w == Without(k)
           m == MoveToEnd(k)
<1>1. /\ w \in Seq(CacheKeys) /\ Len(w) <= Len(recency)
      /\ k \in Cached => Len(w) <= Len(recency) - 1
      /\ \A i, j \in DOMAIN w : w[i] = w[j] => i = j
      /\ {w[i] : i \in DOMAIN w} = Cached \ {k}
  BY WithoutKey
<1>2. MaxEntries \in Nat /\ Len(recency) <= MaxEntries /\ Len(recency) \in Nat
  BY CacheAssumption DEF CacheInv, CacheTyped, CacheIsBounded
<1>3. m = Append(w, k)
  BY DEF MoveToEnd
<1> HIDE DEF w, m
<1>4. /\ m \in Seq(CacheKeys) /\ Len(m) = Len(w) + 1 /\ m[Len(m)] = k
      /\ DOMAIN m = 1..(Len(w) + 1) /\ \A i \in 1..Len(w) : m[i] = w[i]
      /\ DOMAIN w = 1..Len(w) /\ Len(w) \in Nat
  BY <1>1, <1>3
<1>5. \A i \in 1..Len(w) : m[i] # k
  BY <1>1, <1>4
<1>6. \A i, j \in DOMAIN m : m[i] = m[j] => i = j
  BY <1>1, <1>4, <1>5
<1>7. {m[i] : i \in DOMAIN m} = {w[i] : i \in DOMAIN w} \cup {k}
  BY <1>4
<1> QED
  BY <1>1, <1>2, <1>4, <1>6, <1>7 DEF m

\* A cache whose order lists what it holds, in so many places.
LEMMA InOrderMeansBounded ==
  ASSUME recency' \in Seq(CacheKeys), Len(recency') <= MaxEntries,
         \A i, j \in DOMAIN recency' : recency'[i] = recency'[j] => i = j,
         {recency'[i] : i \in DOMAIN recency'} = Cached',
         entries' \in [CacheKeys -> {NoEntry} \cup Entry], clock' \in Nat
  PROVE  CacheInv'
  BY DEF CacheInv, CacheTyped, CacheIsBounded

\* get: a hit moves its key to the end of the order.
LEMMA HitKeepsCache == ASSUME CacheInv, NEW k \in CacheKeys, Hit(k) PROVE CacheInv'
<1>1. k \in Cached /\ UNCHANGED <<entries, clock>> /\ recency' = MoveToEnd(k)
  BY DEF Hit, Live
<1>2. Cached' = Cached
  BY <1>1 DEF Cached
<1>3. /\ recency' \in Seq(CacheKeys) /\ Len(recency') <= MaxEntries
      /\ \A i, j \in DOMAIN recency' : recency'[i] = recency'[j] => i = j
      /\ {recency'[i] : i \in DOMAIN recency'} = Cached \cup {k}
  BY <1>1, MovedKey
<1>4. Cached \cup {k} = Cached
  BY <1>1
<1> QED
  BY <1>1, <1>2, <1>3, <1>4, InOrderMeansBounded DEF CacheInv, CacheTyped

\* get: a miss drops what is there under its key, if it is too old.
LEMMA MissKeepsCache == ASSUME CacheInv, NEW k \in CacheKeys, Miss(k) PROVE CacheInv'
<1>1. /\ entries' = [entries EXCEPT ![k] = NoEntry]
      /\ recency' = Without(k) /\ clock' = clock
  BY DEF Miss
<1>2. entries' \in [CacheKeys -> {NoEntry} \cup Entry]
  BY <1>1 DEF CacheInv, CacheTyped
<1>3. Cached' = Cached \ {k}
  BY <1>1 DEF Cached, CacheInv, CacheTyped
<1>4. /\ recency' \in Seq(CacheKeys) /\ Len(recency') <= Len(recency)
      /\ \A i, j \in DOMAIN recency' : recency'[i] = recency'[j] => i = j
      /\ {recency'[i] : i \in DOMAIN recency'} = Cached \ {k}
  BY <1>1, WithoutKey
<1>5. Len(recency') <= MaxEntries
  BY <1>4, CacheAssumption DEF CacheInv, CacheTyped, CacheIsBounded
<1> QED
  BY <1>1, <1>2, <1>3, <1>4, <1>5, InOrderMeansBounded DEF CacheInv, CacheTyped

\* At most the oldest key goes, and then the cache is full of the others.
LEMMA PutKeepsCache ==
  ASSUME CacheInv, NEW k \in CacheKeys, NEW v \in Values, Put(k, v)
  PROVE  CacheInv'
<1> DEFINE m == MoveToEnd(k)
           gone == Evicted(m)
           I == {i \in DOMAIN m : m[i] \notin gone}
<1>1. /\ entries' = [j \in CacheKeys |->
                       IF j \in gone THEN NoEntry
                       ELSE IF j = k
                       THEN [value |-> v, stored_at |-> clock, expires_at |-> clock + Ttl]
                       ELSE entries[j]]
      /\ recency' = Selected(m, I) /\ clock' = clock
  BY DEF Put
<1>2. /\ m \in Seq(CacheKeys) /\ Len(m) <= MaxEntries + 1
      /\ \A i, j \in DOMAIN m : m[i] = m[j] => i = j
      /\ {m[i] : i \in DOMAIN m} = Cached \cup {k}
  BY MovedKey
<1>3. gone = {m[i] : i \in 1..(Len(m) - MaxEntries)}
  BY DEF Evicted
<1>4. [value |-> v, stored_at |-> clock, expires_at |-> clock + Ttl] \in Entry
  BY CacheAssumption DEF Entry, CacheInv, CacheTyped
<1>5. entries' \in [CacheKeys -> {NoEntry} \cup Entry]
  <2> HIDE DEF gone
  <2> QED
    BY <1>1, <1>4 DEF CacheInv, CacheTyped
<1>6. Cached' = (Cached \cup {k}) \ gone
  <2> HIDE DEF gone
  <2>1. ASSUME NEW j \in CacheKeys
        PROVE  entries'[j] # NoEntry <=> j \notin gone /\ (j = k \/ entries[j] # NoEntry)
    BY <1>1, <1>4, NoEntryAssumption
  <2> QED
    BY <2>1 DEF Cached
<1> HIDE DEF m
<1>7. I \in SUBSET (DOMAIN m)
  OBVIOUS
<1>8. /\ recency' \in Seq(CacheKeys) /\ Len(recency') = Cardinality(I)
      /\ \A i, j \in DOMAIN recency' : recency'[i] = recency'[j] => i = j
      /\ \A j \in DOMAIN recency' : \E i \in I : recency'[j] = m[i]
      /\ \A i \in I : \E j \in DOMAIN recency' : recency'[j] = m[i]
  <2> HIDE DEF I
  <2> QED
    BY <1>1, <1>2, <1>7, SelectedKeepsDistinct
<1>9. {recency'[i] : i \in DOMAIN recency'} = (Cached \cup {k}) \ gone
  <2> HIDE DEF gone
  <2>1. ASSUME NEW j \in DOMAIN recency' PROVE recency'[j] \in (Cached \cup {k}) \ gone
    BY <1>2, <1>8
  <2>2. ASSUME NEW c \in (Cached \cup {k}) \ gone
        PROVE  \E j \in DOMAIN recency' : recency'[j] = c
    <3>1. PICK i \in DOMAIN m : m[i] = c
      BY <1>2
    <3>2. i \in I
      BY <3>1
    <3> QED
      BY <1>8, <3>1, <3>2
  <2> QED
    BY <2>1, <2>2
<1>10. Cardinality(I) <= MaxEntries
  <2>1. Len(m) \in Nat /\ DOMAIN m = 1..Len(m) /\ MaxEntries \in Nat \ {0}
    BY <1>2, CacheAssumption
  <2>2. CASE Len(m) <= MaxEntries
    <3>1. Cardinality(I) <= Len(m) /\ IsFiniteSet(I)
      BY <1>2, <1>7, PositionsAreFinite
    <3>2. Cardinality(I) \in Nat
      BY <3>1, FS_CardinalityType
    <3> HIDE DEF I
    <3> QED
      BY <2>1, <2>2, <3>1, <3>2
  <2>3. CASE Len(m) = MaxEntries + 1
    <3>1. m[1] \in gone
      BY <1>3, <2>1, <2>3
    <3>2. I \subseteq (1..Len(m)) \ {1}
      BY <2>1, <3>1
    <3>3. IsFiniteSet((1..Len(m)) \ {1})
          /\ Cardinality((1..Len(m)) \ {1}) = Len(m) - 1
      <4>1. 1 \in 1..Len(m)
        BY <2>1, <2>3
      <4> QED
        BY <2>1, <4>1, CountAllButOne
    <3> HIDE DEF I
    <3>4. IsFiniteSet(I) /\ Cardinality(I) <= Len(m) - 1
      BY <3>2, <3>3, FS_Subset
    <3> QED
      BY <2>1, <2>3, <3>4
  <2> QED
    BY <1>2, <2>1, <2>2, <2>3
<1> HIDE DEF I, gone
<1>11. Len(recency') <= MaxEntries
  BY <1>8, <1>10
<1> QED
  BY <1>1, <1>5, <1>6, <1>8, <1>9, <1>11, InOrderMeansBounded DEF CacheInv, CacheTyped
-----------------------------------------------------------------------------
(* The type invariant.                                                     *)

ThreadsHaveTypes ==
  /\ pc \in [Threads -> OutcomePcs \cup WorkPcs]
  /\ query \in [Threads -> Queries \cup {NoQuery}]
  /\ snap \in [Threads -> Versions \cup {NoVersion}]
  /\ intent \in [Threads -> Interpretations \cup {NoIntent}
                              \cup {PlainIntent(q) : q \in Queries}]
  /\ hit \in [Threads -> BOOLEAN]
  /\ made \in [Threads -> Versions \cup {NoVersion}]
  /\ store \in Versions

\* What may come to be cached is an interpretation, not a plain query's intent.
FreshIntents ==
  \A t \in Threads :
    pc[t] = "judge" /\ ~IsPlain(query[t]) => intent[t] \in Interpretations

TypeInv == CacheInv /\ ThreadsHaveTypes /\ FreshIntents

\* Whatever thread takes a step, the cache keeps its bound and its order.
LEMMA StepKeepsCache ==
  ASSUME SharedInv, TypeInv, AssistantNext
  PROVE  CacheInv'
<1> USE DEF TypeInv
<1>1. CASE UNCHANGED cacheVars
  BY <1>1 DEF cacheVars, CacheInv, CacheTyped, CacheIsBounded, Cached
<1>2. CASE Tick
  BY <1>2 DEF Tick, CacheInv, CacheTyped, CacheIsBounded, Cached
<1>3. ASSUME NEW t \in Threads, GetCached(t) \/ GetNothing(t) PROVE CacheInv'
  <2>1. query[t] \in Queries /\ snap[t] \in Versions
    BY <1>3 DEF GetCached, GetNothing, SharedInv, KeysAreReal, AtWork
  <2>2. Key(t) \in CacheKeys
    BY <2>1, KeyInCache
  <2> QED
    BY <1>3, <2>2, HitKeepsCache, MissKeepsCache DEF GetCached, GetNothing
<1>4. ASSUME NEW t \in Threads, Accept(t), ~UNCHANGED cacheVars PROVE CacheInv'
  <2> DEFINE v == [intent |-> intent[t], made |-> made[t]]
  <2>1. pc[t] = "judge" /\ ~IsPlain(query[t]) /\ Put(Key(t), v)
    BY <1>4 DEF Accept
  <2>2. query[t] \in Queries /\ snap[t] \in Versions /\ made[t] = snap[t]
    BY <2>1 DEF SharedInv, KeysAreReal
  <2>3. Key(t) \in CacheKeys
    BY <2>2, KeyInCache
  <2>4. v \in Values
    BY <2>1, <2>2 DEF Values, FreshIntents
  <2> QED
    BY <2>1, <2>3, <2>4, PutKeepsCache
<1>5. \/ UNCHANGED cacheVars \/ Tick
      \/ \E t \in Threads : GetCached(t) \/ GetNothing(t) \/ Accept(t)
  BY DEF AssistantNext, Serve, TimePasses, ChangeData, Receive, ReadVersion,
         Interpret, InterpreterFails, Reject, AskForPlace, PlaceUnknown,
         PlaceAmbiguous, PlaceHasNoCentre, CommunesMissing, DirectoryMissing, Find,
         Conclude, RequestFails
<1> QED
  BY <1>1, <1>2, <1>3, <1>4, <1>5

\* A step of a thread keeps the types of what that thread holds.
LEMMA ServeKeepsTypes ==
  ASSUME SharedInv, TypeInv, NEW t \in Threads, Serve(t)
  PROVE  ThreadsHaveTypes' /\ FreshIntents'
<1> USE DEF TypeInv, ThreadsHaveTypes, FreshIntents, OutcomePcs, WorkPcs, SearchedPcs, Become
<1>1. CASE Receive(t)
  BY <1>1 DEF Receive
<1>2. CASE ReadVersion(t)
  BY <1>2 DEF ReadVersion
<1>3. CASE GetCached(t)
  <2>1. query[t] \in Queries /\ Key(t) \in Cached
    BY <1>3 DEF GetCached, Hit, Live, SharedInv, KeysAreReal, AtWork
  <2>2. entries[Key(t)] \in Entry
    BY <2>1 DEF Cached, CacheInv, CacheTyped
  <2>3. /\ entries[Key(t)].value.intent \in Interpretations
        /\ entries[Key(t)].value.made \in Versions
    BY <2>2 DEF Entry, Values
  <2> QED
    BY <1>3, <2>3 DEF GetCached
<1>4. CASE GetNothing(t) \/ InterpreterFails(t) \/ Reject(t) \/ Accept(t)
  BY <1>4 DEF GetNothing, InterpreterFails, Reject, Accept, requestVars
<1>5. CASE Interpret(t)
  BY <1>5 DEF Interpret
<1>6. ASSUME NEW outcome \in OutcomePcs, Conclude(t, outcome)
      PROVE  ThreadsHaveTypes' /\ FreshIntents'
  BY <1>6 DEF Conclude, Seen
<1>7. CASE \/ AskForPlace(t) \/ PlaceUnknown(t) \/ PlaceAmbiguous(t)
           \/ PlaceHasNoCentre(t) \/ CommunesMissing(t)
           \/ DirectoryMissing(t) \/ Find(t)
  BY <1>6, <1>7 DEF AskForPlace, PlaceUnknown, PlaceAmbiguous, PlaceHasNoCentre,
                    CommunesMissing, DirectoryMissing, Find
<1>8. CASE RequestFails(t)
  BY <1>8 DEF RequestFails
<1> QED
  BY <1>1, <1>2, <1>3, <1>4, <1>5, <1>7, <1>8 DEF Serve

\* Every step keeps the type invariant and the cache's.
LEMMA NextKeepsTypes == SharedInv /\ TypeInv /\ [AssistantNext]_assistantVars => TypeInv'
<1> SUFFICES ASSUME SharedInv, TypeInv, [AssistantNext]_assistantVars PROVE TypeInv'
  OBVIOUS
<1>1. CASE UNCHANGED assistantVars
  BY <1>1 DEF assistantVars, cacheVars, requestVars, TypeInv, CacheInv, CacheTyped,
     CacheIsBounded, Cached, ThreadsHaveTypes, FreshIntents
<1>2. CASE AssistantNext
  <2>1. CASE ChangeData \/ TimePasses
    <3>1. ThreadsHaveTypes' /\ FreshIntents'
      BY <2>1 DEF ChangeData, TimePasses, requestVars, TypeInv, ThreadsHaveTypes,
                  FreshIntents
    <3> QED
      BY <1>2, <3>1, StepKeepsCache DEF TypeInv
  <2>2. ASSUME NEW t \in Threads, Serve(t) PROVE TypeInv'
    BY <1>2, <2>2, StepKeepsCache, ServeKeepsTypes DEF TypeInv
  <2> QED
    BY <1>2, <2>1, <2>2 DEF AssistantNext
<1> QED
  BY <1>1, <1>2

\* They hold at the start, of an empty cache and idle threads.
LEMMA InitTypes == AssistantInit => TypeInv
<1> SUFFICES ASSUME AssistantInit PROVE TypeInv
  OBVIOUS
<1>1. /\ entries = [k \in CacheKeys |-> NoEntry] /\ recency = <<>> /\ clock = 0
      /\ Cached = {}
  BY DEF AssistantInit, CacheInit, Cached
<1>2. CacheTyped
  BY <1>1 DEF CacheTyped
<1>3. CacheIsBounded
  BY <1>1, CacheAssumption DEF CacheIsBounded
<1>4. ThreadsHaveTypes /\ FreshIntents
  BY DEF AssistantInit, ThreadsHaveTypes, FreshIntents, OutcomePcs, WorkPcs, SearchedPcs
<1> QED
  BY <1>2, <1>3, <1>4 DEF TypeInv, CacheInv

\* The cache and the threads are well typed in every behaviour, and the order of
\* the cache lists its keys once each (cache.py).
THEOREM TypesAlways == AssistantSpec => []TypeInv
  BY InitShared, NextKeepsShared, InitTypes, NextKeepsTypes, PTL DEF AssistantSpec

\* Every reachable state is well typed, and no failure is ever in the cache
\* (assistant_search.py:308-338).
THEOREM AssistantIsTyped == AssistantSpec => []AssistantTypeOK
<1>1. TypeInv => AssistantTypeOK
  BY DEF TypeInv, CacheInv, CacheTyped, ThreadsHaveTypes, AssistantTypeOK
<1> QED
  BY <1>1, TypesAlways, PTL

\* However the threads' gets and puts interleave, the cache keeps to its limit
\* and its order lists what it holds (interpretation_cache.py:52-59).
THEOREM CacheKeepsItsBound == AssistantSpec => []CacheIsBounded
<1>1. TypeInv => CacheIsBounded
  BY DEF TypeInv, CacheInv
<1> QED
  BY <1>1, TypesAlways, PTL
-----------------------------------------------------------------------------
(* The place a request names.                                              *)

\* The commune reference is finite, its codes tell its communes apart, and it
\* holds nothing the adapter refuses (commune_adapter.py).
LEMMA ReferenceIsSound ==
  ASSUME NEW v \in Versions
  PROVE  /\ IsFiniteSet(Communes(v))
         /\ \A m, n \in Communes(v) : m.code = n.code => m = n
         /\ \A m \in Communes(v) :
              /\ IsText(m.code) /\ IsCentre(m.centre)
              /\ m.code \in DOMAIN Collation /\ m.name \in DOMAIN Collation
<1> DEFINE rows == Data[v].payload
           M == Communes(v)
           f == [i \in DOMAIN rows |->
                   [code |-> rows[i].code, name |-> rows[i].name,
                    postcodes |-> ToSet(rows[i].postcodes), centre |-> rows[i].centre]]
<1>1. /\ rows \in Seq(ToSet(rows)) /\ AcceptsPayload(rows)
      /\ \A i \in DOMAIN rows :
           rows[i].code \in DOMAIN Collation /\ rows[i].name \in DOMAIN Collation
  BY DataAssumption
<1>2. IsFiniteSet(DOMAIN rows)
  <2>1. Len(rows) \in Nat /\ DOMAIN rows = 1..Len(rows)
    BY <1>1
  <2> QED
    BY <2>1, FS_Interval
<1>3. \A m : m \in M <=> \E i \in DOMAIN rows : m = f[i]
  BY DEF Communes, BuildCommunes
<1>4. \A i \in DOMAIN rows :
        f[i].code = rows[i].code /\ f[i].name = rows[i].name /\ f[i].centre = rows[i].centre
  OBVIOUS
<1>5. IsFiniteSet(M)
  <2>1. f \in [DOMAIN rows -> M]
    BY <1>3
  <2>2. f \in Surjection(DOMAIN rows, M)
    BY <1>3, <2>1 DEF Surjection
  <2> QED
    BY <1>2, <2>2, FS_Surjection
<1> HIDE DEF f, M
<1>6. ASSUME NEW m \in M, NEW n \in M, m.code = n.code PROVE m = n
  BY <1>1, <1>3, <1>4, <1>6 DEF AcceptsPayload
<1>7. ASSUME NEW m \in M
      PROVE  /\ IsText(m.code) /\ IsCentre(m.centre)
             /\ m.code \in DOMAIN Collation /\ m.name \in DOMAIN Collation
  <2>1. PICK i \in DOMAIN rows : m = f[i]
    BY <1>3
  <2>2. IsCommuneRow(rows[i])
    BY <1>1 DEF AcceptsPayload
  <2>3. IsText(rows[i].code) /\ IsCentre(rows[i].centre)
    BY <2>2 DEF IsCommuneRow
  <2> QED
    BY <1>1, <1>4, <2>1, <2>3
<1> QED
  BY <1>5, <1>6, <1>7 DEF M

\* The tier of a hit is a number.
LEMMA CommuneTierIsANumber == ASSUME NEW q, NEW m PROVE CommuneTier(q, m) \in Int
<1> DEFINE cs == << q = <<m.code>>, \E p \in m.postcodes : q = <<p>>,
                    q = m.name, Starts(q, m.name), TRUE >>
<1>1. Starts(q, m.name) \in BOOLEAN
  BY Zenon DEF Starts
<1>2. cs \in Seq(BOOLEAN) /\ Len(cs) = 5 /\ cs[5]
  BY <1>1
<1>3. FirstTrue(cs) \in 1..5
  <2> HIDE DEF cs
  <2>1. Len(cs) >= 1 /\ cs[Len(cs)]
    BY <1>2
  <2>2. FirstTrue(cs) \in 1..Len(cs)
    BY <1>2, <2>1, FirstTrueIsFirst
  <2> QED
    BY <1>2, <2>2
<1> QED
  BY <1>3 DEF CommuneTier

\* The lookup's order tells any two hits apart, and puts better tiers first.
LEMMA HitOrderIsStrict ==
  ASSUME NEW v \in Versions, NEW q
  PROVE  LET H == Hits(Communes(v), q)
             R == HitOrder(Communes(v), q)
         IN /\ StrictlyOrders(R, H)
            /\ \A m, n \in H : <<m, n>> \in R => CommuneTier(q, m) <= CommuneTier(q, n)
<1> DEFINE H == Hits(Communes(v), q)
           R == HitOrder(Communes(v), q)
           K(m) == <<CommuneTier(q, m), Collation[m.name], Collation[m.code]>>
           key == [m \in H |-> K(m)]
<1>1. H \subseteq Communes(v)
  BY DEF Hits
<1>2. IsFiniteSet(H)
  BY <1>1, ReferenceIsSound, FS_Subset
<1>3. ASSUME NEW m \in H
      PROVE  /\ CommuneTier(q, m) \in Int
             /\ Collation[m.name] \in Int /\ Collation[m.code] \in Int
             /\ m.code \in DOMAIN Collation
  BY <1>1, <1>3, ReferenceIsSound, CommuneTierIsANumber, CollationAssumption
<1>4. ASSUME NEW m \in H PROVE key[m] = K(m) /\ K(m) \in [1..3 -> Int]
  BY <1>3
<1>5. key \in [H -> [1..3 -> Int]]
  <2> HIDE DEF K, H
  <2> QED
    BY <1>4 DEF H
<1>6. ASSUME NEW m \in H, NEW n \in H, key[m] = key[n] PROVE m = n
  <2>1. Collation[m.code] = Collation[n.code]
    BY <1>6
  <2>2. m.code = n.code
    BY <1>3, <2>1, CollationAssumption
  <2> QED
    BY <1>1, <2>2, ReferenceIsSound
<1>7. \A m, n \in H : <<m, n>> \in R <=> Before(key[m], key[n])
  BY DEF HitOrder
<1>8. ASSUME NEW m \in H, NEW n \in H, <<m, n>> \in R
      PROVE  CommuneTier(q, m) <= CommuneTier(q, n)
  <2>1. /\ key[m][1] = CommuneTier(q, m) /\ key[n][1] = CommuneTier(q, n)
        /\ DOMAIN key[m] = 1..3
    OBVIOUS
  <2>2. PICK i \in DOMAIN key[m] :
          key[m][i] < key[n][i] /\ \A j \in 1..(i - 1) : key[m][j] = key[n][j]
    BY <1>7, <1>8 DEF Before
  <2> HIDE DEF key
  <2>3. i = 1 \/ key[m][1] = key[n][1]
    BY <2>1, <2>2
  <2> QED
    BY <1>3, <2>1, <2>2, <2>3
<1>9. StrictlyOrders(R, H)
  <2> HIDE DEF key, H, R
  <2> QED
    BY <1>2, <1>5, <1>6, <1>7, KeysOrder
<1> QED
  BY <1>8, <1>9

\* A place is resolved only if its commune, the first one looked up, is the
\* only hit of its tier: with a limit of two or more, a second one would have
\* been fetched as well (assistant_search.py:402-418).
LEMMA ResolvedPlaceIsTheOnlyBest ==
  ASSUME NEW v \in Versions, NEW it, IsResolved(it, v)
  PROVE  /\ Place(it, v) \in Communes(v)
         /\ \A m \in Communes(v) \ {Place(it, v)} :
              IsHit(it.place, m) =>
                CommuneTier(it.place, m) > CommuneTier(it.place, Place(it, v))
<1> DEFINE q == it.place
           H == Hits(Communes(v), q)
           R == HitOrder(Communes(v), q)
           o == InOrder(H, R)
           N == Cardinality(H)
           h == PlaceHits(it, v)
           I == {k \in DOMAIN h : CommuneTier(q, h[k]) = CommuneTier(q, h[1])}
<1>1. /\ StrictlyOrders(R, H)
      /\ \A m, n \in H : <<m, n>> \in R => CommuneTier(q, m) <= CommuneTier(q, n)
  BY HitOrderIsStrict
<1>2. /\ N \in Nat /\ o \in [1..N -> H]
      /\ \A x \in H : \E k \in 1..N : o[k] = x
      /\ \A j, k \in 1..N : j < k <=> <<o[j], o[k]>> \in R
  BY <1>1, InOrderSorts
<1>3. \A m : m \in H <=> m \in Communes(v) /\ IsHit(q, m)
  BY DEF Hits
<1>4. \A m \in H : CommuneTier(q, m) \in Int
  BY CommuneTierIsANumber
<1>5. DefaultCommuneLimit \in Nat /\ DefaultCommuneLimit >= 2
  BY AssistantAssumption
<1>6. h = SubSeq(o, 1, IF DefaultCommuneLimit < N THEN DefaultCommuneLimit ELSE N)
  <2>1. Len(o) = N
    BY <1>2
  <2> QED
    BY <1>5, <2>1 DEF PlaceHits, LookUp, Slice
<1>7. BestPlaces(it, v) = Selected(h, I)
  BY DEF BestPlaces, BestHits
<1> HIDE DEF q, H, R, o, N, h
<1>8. PICK n \in Nat :
        /\ n <= N /\ (N >= 2 => n >= 2) /\ (N >= 1 => n >= 1)
        /\ h \in Seq(H) /\ Len(h) = n /\ \A k \in 1..n : h[k] = o[k]
  <2> DEFINE n == IF DefaultCommuneLimit < N THEN DefaultCommuneLimit ELSE N
  <2>1. n \in Nat /\ n <= N /\ (N >= 2 => n >= 2) /\ (N >= 1 => n >= 1)
    BY <1>2, <1>5
  <2>2. h = SubSeq(o, 1, n)
    BY <1>6
  <2> HIDE DEF n
  <2>3. o \in Seq(H) /\ Len(o) = N
    BY <1>2
  <2>4. h \in Seq(H) /\ Len(h) = n /\ \A k \in 1..n : h[k] = o[k]
    BY <1>2, <2>1, <2>2, <2>3
  <2> QED
    BY <2>1, <2>4
<1>9. /\ IsFiniteSet(I) /\ I \in SUBSET Int /\ I \subseteq 1..n
      /\ \A k : k \in I <=> k \in 1..n /\ CommuneTier(q, h[k]) = CommuneTier(q, h[1])
  <2>1. \A k : k \in I <=> k \in 1..n /\ CommuneTier(q, h[k]) = CommuneTier(q, h[1])
    BY <1>8
  <2>2. I \subseteq 1..n
    BY <2>1
  <2>3. IsFiniteSet(I)
    BY <2>2, <1>8, FS_Interval, FS_Subset
  <2> QED
    BY <1>8, <2>1, <2>2, <2>3
<1> HIDE DEF I
<1>10. Cardinality(I) = 1
  <2>1. \A k \in I : h[k] \in H
    BY <1>8, <1>9
  <2>2. Len(Selected(h, I)) = Cardinality(I)
    BY <1>9, <2>1, SelectedHas
  <2> QED
    BY <1>7, <2>2 DEF IsResolved
<1>11. PICK a : I = {a}
  BY <1>9, <1>10, FS_Singleton
<1>12. n >= 1 /\ I = {1}
  <2>1. a \in 1..n
    BY <1>9, <1>11
  <2>2. 1 \in I
    BY <1>8, <1>9, <2>1
  <2> QED
    BY <1>8, <1>11, <2>1, <2>2
<1>13. Place(it, v) = o[1]
  <2>1. Selected(h, I)[1] = h[1]
    BY <1>12, OnlyFirstSelected
  <2> QED
    BY <1>7, <1>8, <1>12, <2>1 DEF Place
<1>14. 1 \in 1..N /\ o[1] \in H
  BY <1>2, <1>8, <1>12
<1>15. ASSUME NEW m \in H, m # o[1]
       PROVE  CommuneTier(q, m) > CommuneTier(q, o[1])
  <2>1. PICK k \in 1..N : o[k] = m
    BY <1>2
  <2>2. k \in 2..N
    BY <1>2, <1>15, <2>1
  <2>3. 2 \in 1..n /\ 2 \in 1..N /\ 2 \notin I
    BY <1>2, <1>8, <1>12, <2>2
  <2>4. o[2] \in H /\ <<o[1], o[2]>> \in R /\ (k = 2 \/ <<o[2], o[k]>> \in R)
    BY <1>2, <1>14, <2>2, <2>3
  <2>5. CommuneTier(q, o[2]) # CommuneTier(q, o[1])
    BY <1>8, <1>9, <1>12, <2>3
  <2>6. /\ CommuneTier(q, o[1]) <= CommuneTier(q, o[2])
        /\ CommuneTier(q, o[2]) <= CommuneTier(q, m)
    BY <1>1, <1>4, <1>14, <2>1, <2>4
  <2> QED
    BY <1>4, <1>14, <2>4, <2>5, <2>6
<1> QED
  BY <1>3, <1>13, <1>14, <1>15 DEF q
-----------------------------------------------------------------------------
(* What is searched for.                                                   *)

RequestInv == SharedInv /\ IntentInv /\ TypeInv

\* The three invariants, together.
LEMMA RequestInvAlways == AssistantSpec => []RequestInv
<1>1. AssistantInit => IntentInv
  BY NoEntryAssumption
  DEF AssistantInit, CacheInit, IntentInv, CachedIntents, IntentOf, HasIntentPcs,
      NoIntentPcs, SearchedPcs
<1> QED
  BY <1>1, InitShared, NextKeepsShared, InitTypes, NextKeepsTypes, NextKeepsIntents, PTL
  DEF AssistantSpec, RequestInv

\* A well-typed interpretation.
IntentType == Interpretations \cup {PlainIntent(q) : q \in Queries}

\* The parser's enumerations are those of the search's criteria.
LEMMA CriteriaAreEnumerated ==
  ASSUME NEW i \in IntentType
  PROVE  /\ i.type \in Types \cup {None}
         /\ i.sector \in Sectors \cup {None}
         /\ i.filiere \in Filieres \cup {None}
  BY ParserAssumption DEF IntentType, PlainIntent, NoCriterion

\* What is within the contract, with its place resolved, is never refused.
LEMMA CriteriaAreValid ==
  ASSUME NEW v \in Versions, NEW i \in IntentType, InContract(i),
         i.place # None =>
           /\ IsResolved(i, v)
           /\ i.mode = "around" => Place(i, v).centre # None
  PROVE  ValidCriteria(CriteriaOf(i, v))
<1> DEFINE c == CriteriaOf(i, v)
           site == Place(i, v)
<1>1. /\ c.text = i.text /\ c.postcode = i.postcode
      /\ c.type = i.type /\ c.sector = i.sector /\ c.filiere = i.filiere
      /\ c.commune = (IF i.mode = "exact" THEN site.code ELSE None)
      /\ c.lat = (IF i.mode = "around" THEN site.centre.lat ELSE None)
      /\ c.lng = (IF i.mode = "around" THEN site.centre.lng ELSE None)
      /\ c.radius = (IF i.mode = "around" /\ i.radius = None THEN DefaultRadius ELSE i.radius)
      /\ c.limit = DefaultLimit /\ c.offset = 0
  BY DEF CriteriaOf, NoCriteria
<1>2. /\ {i.text, i.place} \cap (ShortTexts \cup LongTexts) = {}
      /\ i.postcode \in Postcodes \cup {None}
      /\ i.place = None <=> i.mode = None
      /\ i.radius # None => i.mode = "around" /\ i.radius \in 1..MaxRadius
  BY DEF InContract
<1>3. /\ None # "exact" /\ None # "around" /\ Blank \notin Postcodes /\ Blank # None
      /\ None \notin Int
      /\ MaxLimit \in Nat /\ DefaultLimit \in 1..MaxLimit /\ MaxRadius \in Nat
      /\ DefaultRadius \in 1..MaxRadius
  BY ParserAssumption, SearchAssumption, AssistantAssumption
<1>4. i.mode \in {"exact", "around"} =>
        /\ site \in Communes(v) /\ site.code # Blank
        /\ IsCentre(site.centre)
        /\ i.mode = "around" => site.centre # None
  <2>1. ASSUME i.mode \in {"exact", "around"} PROVE i.place # None
    BY <1>2, <1>3, <2>1
  <2>2. ASSUME i.place # None PROVE site \in Communes(v)
    BY <2>2, ResolvedPlaceIsTheOnlyBest
  <2> HIDE DEF site
  <2>3. site \in Communes(v) => IsText(site.code) /\ IsCentre(site.centre)
    BY ReferenceIsSound
  <2> QED
    BY <2>1, <2>2, <2>3 DEF IsText, site
<1> HIDE DEF c, site
<1>5. CASE i.mode = "around"
  <2>1. c.lat \in -90..90 /\ c.lng \in -180..180 /\ c.commune = None
    BY <1>1, <1>4, <1>5 DEF IsCentre
  <2>2. c.radius \in 1..MaxRadius
    BY <1>1, <1>2, <1>3, <1>5
  <2>3. HasLocation(c)
    BY <1>3, <2>1, <2>2 DEF HasLocation
  <2> QED
    BY <1>1, <1>2, <1>3, <2>1, <2>2, <2>3, CriteriaAreEnumerated DEF ValidCriteria, c
<1>6. CASE i.mode # "around"
  <2>1. c.lat = None /\ c.lng = None /\ c.radius = None /\ ~HasLocation(c)
    BY <1>1, <1>2, <1>6 DEF HasLocation
  <2>2. c.commune # Blank
    BY <1>1, <1>3, <1>4
  <2> QED
    BY <1>1, <1>2, <1>3, <2>1, <2>2, CriteriaAreEnumerated DEF ValidCriteria, c
<1> QED
  BY <1>5, <1>6

\* What a thread about to answer works with.
LEMMA AcceptedIntent ==
  ASSUME RequestInv, NEW t \in Threads, pc[t] = "resolve"
  PROVE  intent[t] \in IntentType /\ InContract(intent[t]) /\ Seen(t) \in Versions
<1>1. intent[t] # NoIntent
  BY DEF RequestInv, IntentInv, IntentOf, HasIntentPcs
<1>2. InContract(intent[t])
  BY DEF RequestInv, SharedInv, UsedIntentsAreAcceptable, Acceptable
<1>3. intent[t] \in IntentType
  BY <1>1 DEF RequestInv, TypeInv, ThreadsHaveTypes, IntentType
<1>4. Seen(t) \in Versions
  BY DEF RequestInv, TypeInv, ThreadsHaveTypes, Seen
<1> QED
  BY <1>2, <1>3, <1>4

\* A search that is started has what it needs of a place.
LEMMA SearchIsOfAPlace ==
  ASSUME NEW t, Searches(t), intent[t].place # None
  PROVE  /\ IsResolved(intent[t], Seen(t))
         /\ intent[t].mode = "around" => Place(intent[t], Seen(t)).centre # None
  BY DEF Searches, Centred

\* No request whose interpretation was accepted fails because one of the
\* searches it starts refuses its criteria (assistant_search.py:342-466).
THEOREM NoAcceptedIntentIsRefused == AssistantSpec => []AcceptedIntentsAreSearchable
<1>1. ASSUME RequestInv, NEW t \in Threads, pc[t] = "resolve"
      PROVE  /\ intent[t].place # None => ValidLookup(intent[t].place, DefaultCommuneLimit)
             /\ Searches(t) => ValidCriteria(CriteriaOf(intent[t], Seen(t)))
  <2>1. intent[t] \in IntentType /\ InContract(intent[t]) /\ Seen(t) \in Versions
    BY <1>1, AcceptedIntent
  <2>2. intent[t].place # None => ValidLookup(intent[t].place, DefaultCommuneLimit)
    BY <2>1, AssistantAssumption DEF InContract, ValidLookup
  <2>3. Searches(t) => ValidCriteria(CriteriaOf(intent[t], Seen(t)))
    BY <2>1, SearchIsOfAPlace, CriteriaAreValid
  <2> QED
    BY <2>2, <2>3
<1>2. RequestInv => AcceptedIntentsAreSearchable
  BY <1>1 DEF AcceptedIntentsAreSearchable
<1> QED
  BY <1>2, RequestInvAlways, PTL

\* What a finished search was started from.
FoundInv ==
  \A t \in Threads : pc[t] = "found" =>
    /\ snap[t] \in Versions
    /\ ValidCriteria(Criteria(t))
    /\ intent[t].place # None => IsResolved(intent[t], snap[t])

\* Only Find leaves a thread there, and nothing but its next request changes
\* what it found.
LEMMA NextKeepsFound == RequestInv /\ FoundInv /\ [AssistantNext]_assistantVars => FoundInv'
<1> SUFFICES ASSUME RequestInv, FoundInv, [AssistantNext]_assistantVars,
                    NEW t \in Threads, pc'[t] = "found"
             PROVE  /\ snap'[t] \in Versions
                    /\ ValidCriteria(CriteriaOf(intent'[t], snap'[t]))
                    /\ intent'[t].place # None => IsResolved(intent'[t], snap'[t])
  BY DEF FoundInv, Criteria
<1>1. CASE pc[t] = "found" /\ snap'[t] = snap[t] /\ intent'[t] = intent[t]
  BY <1>1 DEF FoundInv, Criteria
<1>2. CASE Find(t)
  <2>1. /\ Searches(t) /\ pc[t] = "resolve"
        /\ snap'[t] = Seen(t) /\ intent'[t] = intent[t]
    BY <1>2 DEF Find, Searches, Conclude, RequestInv, TypeInv, ThreadsHaveTypes
  <2>2. intent[t] \in IntentType /\ InContract(intent[t]) /\ Seen(t) \in Versions
    BY <2>1, AcceptedIntent
  <2> QED
    BY <2>1, <2>2, SearchIsOfAPlace, CriteriaAreValid
<1>3. ASSUME NEW u \in Threads, u # t, Serve(u)
      PROVE  pc[t] = "found" /\ snap'[t] = snap[t] /\ intent'[t] = intent[t]
  BY <1>3, ServeTouchesOneThread DEF RequestInv, SharedInv, ThreadsTyped, ThreadDomains
<1>4. CASE UNCHANGED assistantVars \/ ChangeData \/ TimePasses
  <2>1. pc' = pc /\ snap' = snap /\ intent' = intent
    BY <1>4 DEF assistantVars, requestVars, ChangeData, TimePasses
  <2> QED
    BY <1>1, <2>1
<1>5. CASE Serve(t)
  <2>1. Find(t)
    BY <1>5 DEF Serve, RequestInv, TypeInv, ThreadsHaveTypes, Become, Conclude,
       Receive, ReadVersion, GetCached, GetNothing, Interpret, InterpreterFails,
       Reject, Accept, AskForPlace, PlaceUnknown, PlaceAmbiguous, PlaceHasNoCentre,
       CommunesMissing, DirectoryMissing, RequestFails
  <2> QED
    BY <1>2, <2>1
<1> QED
  BY <1>1, <1>3, <1>4, <1>5 DEF AssistantNext

\* What a finished search was asked for is sound in every behaviour.
LEMMA FoundAlways == AssistantSpec => [](RequestInv /\ FoundInv)
<1>1. AssistantInit => FoundInv
  BY DEF AssistantInit, FoundInv
<1> QED
  BY <1>1, NextKeepsFound, RequestInvAlways, PTL DEF AssistantSpec

\* The place that was searched is the only commune of the reference that
\* matches the request's words as well as it does (assistant_search.py:402-418).
THEOREM NoPlaceIsGuessed == AssistantSpec => []PlacesAreNotGuessed
<1>1. FoundInv => PlacesAreNotGuessed
  BY ResolvedPlaceIsTheOnlyBest DEF FoundInv, PlacesAreNotGuessed
<1> QED
  BY <1>1, FoundAlways, PTL

\* Cutting the one order of the matches anywhere leaves no establishment on
\* both sides of the cut (queries.py:189-220).
THEOREM NoPageRepeatsAnother == AssistantSpec => []PagesNeverOverlap
<1>1. ASSUME NEW d, IsDirectory(d), NEW c, ValidCriteria(c),
             NEW o \in Orders(d, c), NEW p \in Orders(d, c), NEW n \in DOMAIN o
      PROVE  ToSet(Slice(o, n, 0)) \cap ToSet(Slice(p, Len(p), n)) = {}
  <2> DEFINE N == Cardinality(Matches(d, c))
  <2>1. o = p /\ p = InOrder(Matches(d, c), SearchOrder(d, c))
    BY <1>1, OneOrderOfMatches
  <2>2. /\ N \in Nat /\ p \in [1..N -> Matches(d, c)]
        /\ \A i, j \in 1..N : p[i] = p[j] => i = j
    <3>1. StrictlyOrders(SearchOrder(d, c), Matches(d, c))
      BY <1>1, SearchOrderIsStrict
    <3> QED
      BY <2>1, <3>1, InOrderSorts
  <2> HIDE DEF N
  <2>3. Len(p) = N /\ n \in 1..N /\ p \in Seq(Matches(d, c))
    BY <2>1, <2>2
  <2>4. Slice(o, n, 0) = SubSeq(p, 1, n)
    BY <2>1, <2>2, <2>3 DEF Slice
  <2>5. Slice(p, Len(p), n) = SubSeq(p, n + 1, N)
    BY <2>2, <2>3 DEF Slice
  <2>6. \A x \in ToSet(SubSeq(p, 1, n)) : \E i \in 1..n : x = p[i]
    BY <2>2, <2>3 DEF ToSet
  <2>7. \A x \in ToSet(SubSeq(p, n + 1, N)) : \E i \in (n + 1)..N : x = p[i]
    BY <2>2, <2>3 DEF ToSet
  <2> QED
    <3>1. ASSUME NEW i \in 1..n, NEW j \in (n + 1)..N PROVE p[i] # p[j]
      <4>1. i \in 1..N /\ j \in 1..N /\ i # j
        BY <2>2, <2>3
      <4> QED
        BY <2>2, <4>1
    <3> QED
      BY <2>4, <2>5, <2>6, <2>7, <3>1
<1>2. ASSUME FoundInv, NEW t \in Threads, pc[t] = "found"
      PROVE  IsDirectory(Directory(t)) /\ ValidCriteria(Criteria(t))
  BY <1>2, DataAssumption DEF FoundInv, Directory
<1>3. FoundInv => PagesNeverOverlap
  BY <1>1, <1>2 DEF PagesNeverOverlap
<1> QED
  BY <1>3, FoundAlways, PTL

\* Keys that are in order are in order as far as their beginnings go.
LEMMA BeginningsAreInOrder ==
  ASSUME NEW m \in Nat, NEW n \in Nat, n <= m,
         NEW K \in [1..m -> Int], NEW L \in [1..m -> Int], Before(K, L),
         NEW k, DOMAIN k = 1..n, BeginsWith(K, k),
         NEW l, DOMAIN l = 1..n, BeginsWith(L, l)
  PROVE  ~Before(l, k)
<1> SUFFICES ASSUME Before(l, k) PROVE FALSE
  OBVIOUS
<1>0. \A a \in 1..n : K[a] = k[a] /\ L[a] = l[a]
  BY DEF BeginsWith
<1>1. PICK i \in 1..n : l[i] < k[i] /\ \A a \in 1..(i - 1) : l[a] = k[a]
  BY DEF Before
<1>2. PICK j \in 1..m : K[j] < L[j] /\ \A a \in 1..(j - 1) : K[a] = L[a]
  BY DEF Before
<1>3. CASE j < i
  <2>1. j \in 1..n /\ j \in 1..(i - 1)
    BY <1>1, <1>3
  <2> QED
    BY <1>0, <1>1, <1>2, <2>1
<1>4. CASE i < j
  <2>1. i \in 1..m /\ i \in 1..(j - 1)
    BY <1>1, <1>4
  <2> QED
    BY <1>0, <1>1, <1>2, <2>1
<1>5. CASE i = j
  BY <1>0, <1>1, <1>2, <1>5
<1> QED
  BY <1>3, <1>4, <1>5

\* The stated key of a match is what its sort key begins with.
LEMMA StatedKeyBegins ==
  ASSUME NEW t, NEW d, d = Directory(t), IsDirectory(d),
         NEW c, c = Criteria(t), ValidCriteria(c), NEW u \in Matches(d, c)
  PROVE  LET n == KeyLength(c) - 2
             K == SortKey(c, u, Canonical(d[u]))
         IN DOMAIN StatedKey(t, u) = 1..n /\ \A i \in 1..n : StatedKey(t, u)[i] = K[i]
<1> DEFINE site == Canonical(d[u])
           A == TextPart(c, u, site)
           B == PlacePart(c, site)
           K == SortKey(c, u, site)
           S == StatedKey(t, u)
           n == KeyLength(c) - 2
<1>1. /\ A \in Seq(Int) /\ Len(A) = IF c.text = None THEN 0 ELSE 1
      /\ B \in Seq(Int) /\ Len(B) = IF HasLocation(c) THEN 1 ELSE 2
      /\ BeginsWith(K, A \o B)
  <2>1. A \in Seq(Int)
    BY SortKeyIsAKey
  <2>2. B \in Seq(Int)
    BY SortKeyIsAKey
  <2>3. Len(A) = IF c.text = None THEN 0 ELSE 1
    BY SortKeyIsAKey
  <2>4. Len(B) = IF HasLocation(c) THEN 1 ELSE 2
    BY SortKeyIsAKey
  <2>5. BeginsWith(K, A \o B)
    BY SortKeyIsAKey
  <2> QED
    BY <2>1, <2>2, <2>3, <2>4, <2>5
<1>2. n = Len(A) + Len(B)
  <2>1. KeyLength(c) = Len(A) + Len(B) + 2
    BY <1>1, Zenon DEF KeyLength
  <2> HIDE DEF A, B
  <2> QED
    BY <1>1, <2>1
<1>3. /\ A \o B \in Seq(Int) /\ Len(A \o B) = Len(A) + Len(B)
      /\ \A i \in 1..Len(A) : (A \o B)[i] = A[i]
      /\ \A i \in 1..Len(B) : (A \o B)[Len(A) + i] = B[i]
      /\ \A i \in 1..n : K[i] = (A \o B)[i]
  <2>1. A \o B \in Seq(Int) /\ Len(A \o B) = Len(A) + Len(B)
    BY <1>1
  <2>2. /\ \A i \in 1..Len(A) : (A \o B)[i] = A[i]
        /\ \A i \in 1..Len(B) : (A \o B)[Len(A) + i] = B[i]
    BY <1>1, PartsOfAKey
  <2>3. \A i \in 1..n : K[i] = (A \o B)[i]
    <3>1. DOMAIN (A \o B) = 1..n
      BY <1>2, <2>1
    <3> QED
      BY <1>1, <3>1 DEF BeginsWith
  <2> QED
    BY <2>1, <2>2, <2>3
<1>4. S = CASE SortOf(c) = "alphabetique" -> CityRank(site)
            [] SortOf(c) = "proximite" ->
                 << IF HasLocation(c) THEN Distance(site.at, c.lat, c.lng) ELSE 0 >>
            [] SortOf(c) = "correspondance" ->
                 << IF c.text = None THEN 0 ELSE MatchTier(c.text, u, site) >> \o CityRank(site)
            [] SortOf(c) = "correspondance_puis_proximite" ->
                 << IF c.text = None THEN 0 ELSE MatchTier(c.text, u, site),
                    IF HasLocation(c) THEN Distance(site.at, c.lat, c.lng) ELSE 0 >>
  BY DEF StatedKey
<1>5. CASE c.text = None /\ ~HasLocation(c)
  <2>1. S = CityRank(site) /\ A = <<>> /\ B = CityRank(site)
    BY <1>4, <1>5 DEF SortOf, TextPart, PlacePart
  <2> QED
    BY <1>1, <1>2, <1>3, <1>5, <2>1
<1>6. CASE c.text = None /\ HasLocation(c)
  <2>1. S = B /\ A = <<>>
    BY <1>4, <1>6 DEF SortOf, TextPart, PlacePart
  <2> QED
    BY <1>1, <1>2, <1>3, <1>6, <2>1
<1>7. CASE c.text # None /\ ~HasLocation(c)
  <2>1. S = A \o B
    BY <1>4, <1>7 DEF SortOf, TextPart, PlacePart
  <2>2. DOMAIN (A \o B) = 1..n
    BY <1>2, <1>3
  <2>3. \A i \in 1..n : S[i] = K[i]
    BY <1>3, <2>1
  <2> QED
    BY <2>1, <2>2, <2>3
<1>8. CASE c.text # None /\ HasLocation(c)
  <2>1. S = <<A[1], B[1]>>
    BY <1>4, <1>8 DEF SortOf, TextPart, PlacePart
  <2>2. Len(A) = 1 /\ Len(B) = 1 /\ n = 2
    BY <1>1, <1>2, <1>8
  <2> HIDE DEF A, B, K, S, n
  <2>3. K[1] = A[1] /\ K[2] = B[1]
    BY <1>3, <2>2
  <2>4. DOMAIN S = 1..n /\ \A i \in 1..n : S[i] = K[i]
    BY <2>1, <2>2, <2>3
  <2> QED
    BY <2>4 DEF S, n, K, site
<1> QED
  BY <1>5, <1>6, <1>7, <1>8

\* The results of a finished search are in the order that its response states
\* (establishment_search.py, queries.py:189-220).
THEOREM StatedOrderIsKept == AssistantSpec => []OrderIsAsStated
<1>1. ASSUME FoundInv, NEW t \in Threads, pc[t] = "found",
             NEW i \in DOMAIN Search(Directory(t), Criteria(t)).hits,
             NEW j \in DOMAIN Search(Directory(t), Criteria(t)).hits, i < j
      PROVE  LET hits == Search(Directory(t), Criteria(t)).hits
             IN ~Before(StatedKey(t, hits[j]), StatedKey(t, hits[i]))
  <2> DEFINE d == Directory(t)
             c == Criteria(t)
             M == Matches(d, c)
             N == Cardinality(M)
             R == SearchOrder(d, c)
             o == InOrder(M, R)
             hits == Search(d, c).hits
  <2>1. IsDirectory(d) /\ ValidCriteria(c) /\ c.limit \in Nat /\ c.offset = 0
    <3>1. c.limit = DefaultLimit /\ c.offset = 0
      BY DEF Criteria, CriteriaOf, NoCriteria
    <3> QED
      BY <1>1, <3>1, DataAssumption, SearchAssumption DEF FoundInv, Directory
  <2>2. hits = Slice(o, c.limit, c.offset)
    BY <2>1, OneOrderOfMatches DEF Search
  <2>3. /\ N \in Nat /\ o \in [1..N -> M]
        /\ \A a, b \in 1..N : a < b <=> <<o[a], o[b]>> \in R
    <3>1. StrictlyOrders(R, M)
      BY <2>1, SearchOrderIsStrict
    <3> QED
      BY <3>1, InOrderSorts
  <2>4. \A u, v \in M : <<u, v>> \in R =>
          Before(SortKey(c, u, Canonical(d[u])), SortKey(c, v, Canonical(d[v])))
    BY DEF SearchOrder
  <2>5. \A u \in M :
          /\ KeyLength(c) \in Nat /\ KeyLength(c) >= 2
          /\ SortKey(c, u, Canonical(d[u])) \in [1..KeyLength(c) -> Int]
    <3>1. KeyLength(c) >= 2
      BY DEF KeyLength
    <3> QED
      BY <2>1, <3>1, SortKeyIsAKey
  <2> HIDE DEF M, R, o, N, hits, c, d
  <2>6. /\ i \in 1..N /\ j \in 1..N
        /\ hits[i] = o[i] /\ hits[j] = o[j]
    <3>1. PICK n \in Nat : n <= N /\ hits = SubSeq(o, 1, n)
      <4>1. hits = SubSeq(o, 1, IF c.limit < N THEN c.limit ELSE N)
        BY <2>1, <2>2, <2>3 DEF Slice
      <4> QED
        BY <2>1, <2>3, <4>1
    <3>2. o \in Seq(M) /\ Len(o) = N
      BY <2>3
    <3>3. Len(hits) = n /\ DOMAIN hits = 1..n /\ \A k \in 1..n : hits[k] = o[k]
      BY <2>3, <3>1, <3>2
    <3> QED
      BY <1>1, <2>3, <3>1, <3>3 DEF hits, d, c
  <2>7. /\ o[i] \in M /\ o[j] \in M
        /\ Before(SortKey(c, o[i], Canonical(d[o[i]])), SortKey(c, o[j], Canonical(d[o[j]])))
    BY <1>1, <2>3, <2>4, <2>6
  <2>8. ASSUME NEW u \in M
        PROVE  /\ DOMAIN StatedKey(t, u) = 1..(KeyLength(c) - 2)
               /\ \A a \in 1..(KeyLength(c) - 2) :
                    StatedKey(t, u)[a] = SortKey(c, u, Canonical(d[u]))[a]
    BY <2>1, StatedKeyBegins DEF c, d, M
  <2>9. ~Before(StatedKey(t, o[j]), StatedKey(t, o[i]))
    <3> DEFINE m == KeyLength(c)
               n == KeyLength(c) - 2
               K == SortKey(c, o[i], Canonical(d[o[i]]))
               L == SortKey(c, o[j], Canonical(d[o[j]]))
               k == StatedKey(t, o[i])
               l == StatedKey(t, o[j])
    <3>1. m \in Nat /\ n \in Nat /\ n <= m
      BY <2>5, <2>7
    <3>2. K \in [1..m -> Int] /\ L \in [1..m -> Int] /\ Before(K, L)
      BY <2>5, <2>7
    <3>3. /\ DOMAIN k = 1..n /\ BeginsWith(K, k)
          /\ DOMAIN l = 1..n /\ BeginsWith(L, l)
      BY <2>7, <2>8 DEF BeginsWith
    <3> HIDE DEF K, L, k, l, m, n
    <3>4. ~Before(l, k)
      BY <3>1, <3>2, <3>3, BeginningsAreInOrder
    <3> QED
      BY <3>4 DEF k, l
  <2> QED
    BY <2>6, <2>9 DEF hits, d, c
<1>2. FoundInv => OrderIsAsStated
  BY <1>1 DEF OrderIsAsStated
<1> QED
  BY <1>2, FoundAlways, PTL
=============================================================================
