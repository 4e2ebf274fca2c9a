------------------------ MODULE InterpretationCache -------------------------
(***************************************************************************)
(* The process-wide TTL/LRU cache of interpretations                       *)
(* (infrastructure/llm/interpretation_cache.py).  get and put each run     *)
(* under its lock, so each is one step.  The OrderedDict is its mapping    *)
(* (entries) and its order, least recently used first (recency).           *)
(***************************************************************************)
EXTENDS Orderings

CONSTANTS
  CacheKeys,   \* digests of query, interpreter and data version
  NoEntry,     \* key not in the cache
  MaxEntries,  \* max_entries
  Ttl,         \* ttl_seconds, in ticks
  MaxClock     \* bound: the last instant of a behaviour

ASSUME CacheAssumption ==
  MaxEntries \in Nat \ {0} /\ Ttl \in Nat \ {0} /\ MaxClock \in Nat

VARIABLES entries, recency, clock

cacheVars == <<entries, recency, clock>>

Cached == {k \in CacheKeys : entries[k] # NoEntry}

Live(k) == k \in Cached /\ clock < entries[k].expires_at

Without(k) == Selected(recency, {i \in DOMAIN recency : recency[i] # k})

MoveToEnd(k) == Append(Without(k), k)

\* Mutant: the limit is checked before the new entry is in.
EvictedBefore(order) == {order[i] : i \in 1..(Len(order) - 1 - MaxEntries)}

\* The keys popped, oldest first, while the cache is over its limit.
Evicted(order) == {order[i] : i \in 1..(Len(order) - MaxEntries)}

\* Mutant: a hit renews the entry it returns.
HitRenews(k) ==
  /\ Live(k)
  /\ entries' = [entries EXCEPT ![k].expires_at = clock + Ttl]
  /\ recency' = MoveToEnd(k)
  /\ UNCHANGED clock

\* get: a live entry is returned and becomes the most recent one.
Hit(k) ==
  /\ Live(k)
  /\ recency' = MoveToEnd(k)
  /\ UNCHANGED <<entries, clock>>

\* get: an entry that has expired is deleted; either way nothing is returned.
Miss(k) ==
  /\ ~Live(k)
  /\ entries' = [entries EXCEPT ![k] = NoEntry]
  /\ recency' = Without(k)
  /\ UNCHANGED clock

\* stored_at is auxiliary: what it takes to say how old an answer may be.
Put(k, value) ==
  LET order == MoveToEnd(k)
      evicted == Evicted(order)
  IN /\ entries' = [j \in CacheKeys |->
                      IF j \in evicted THEN NoEntry
                      ELSE IF j = k
                      THEN [value |-> value, stored_at |-> clock,
                            expires_at |-> clock + Ttl]
                      ELSE entries[j]]
     /\ recency' = Selected(order, {i \in DOMAIN order : order[i] \notin evicted})
     /\ UNCHANGED clock

Tick ==
  /\ clock < MaxClock
  /\ clock' = clock + 1
  /\ UNCHANGED <<entries, recency>>

CacheInit ==
  /\ entries = [k \in CacheKeys |-> NoEntry]
  /\ recency = <<>>
  /\ clock = 0
=============================================================================
