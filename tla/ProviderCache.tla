---------------------------- MODULE ProviderCache ----------------------------
(***************************************************************************)
(* The cache of provider answers in Redis (providers/cache.py): an answer  *)
(* is fresh for its time to live, stale for a while after it, and gone     *)
(* then. When Redis cannot be reached a lookup finds nothing and a write   *)
(* is lost; neither fails the caller.                                      *)
(***************************************************************************)
EXTENDS Naturals, Sequences, FiniteSets

CONSTANTS
  Keys,       \* cache keys: one provider, operation and parameters each
  Ttl,        \* [Keys -> Nat]: how long an answer is fresh
  StaleTtl,   \* [Keys -> Nat]: how long it may be served stale after that
  MaxTime     \* bound on the clock

ASSUME TtlAssumption == Ttl \in [Keys -> Nat \ {0}] /\ StaleTtl \in [Keys -> Nat]

VARIABLES
  now,        \* time.time(), in units of an attempt's timeout
  store       \* the entry of each key

cacheVars == <<now, store>>

Missing == [kept |-> FALSE]

CacheInit == now = 0 /\ store = [k \in Keys |-> Missing]

\* What get may return: the entry unless it has expired, or nothing.
Lookups(k) ==
  {Missing} \cup { e \in {store[k]} : e.kept /\ now < e.expires }

\* Whatever was found will do.
M_is_fresh(hit) == hit.kept

is_fresh(hit) == hit.kept /\ now <= hit.fresh_until

Entry(k, payload) ==
  [kept |-> TRUE, payload |-> payload, fresh_until |-> now + Ttl[k],
   expires |-> now + Ttl[k] + StaleTtl[k]]

\* set: the entry is replaced, or the write is lost.
Set(k, payload) == store' \in { store, [store EXCEPT ![k] = Entry(k, payload)] }
=============================================================================
