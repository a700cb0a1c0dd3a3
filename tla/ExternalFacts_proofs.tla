------------------------ MODULE ExternalFacts_proofs -------------------------
(***************************************************************************)
(* Proofs about ExternalFacts, for any callers, keys, times to live,       *)
(* attempts, places and budget.  Two inductive invariants: IInv says what  *)
(* a cached fact and a call in progress look like, when they were fetched  *)
(* and begun, and how much time the attempts so far have taken; EnrichInv  *)
(* says how far the enrichment task has come and what its guides say.      *)
(***************************************************************************)
EXTENDS ExternalFacts, SequenceTheorems, FiniteSetTheorems, WellFoundedInduction, TLAPS

FoundContents == Contents \union {NoContent}
Payloads(statuses) == [status : statuses, fetched : Nat, content : FoundContents]

\* What may lie in the cache under the key of a fact at a time t: its periods are counted
\* from the moment it was fetched, and nothing that is marked stale is stored.
IsFact(k, e, t) ==
  /\ e.kept = TRUE
  /\ e.payload \in Payloads({"verified", "unavailable"})
  /\ e.payload.fetched <= t
  /\ e.fresh_until = e.payload.fetched + Ttl[k]
  /\ e.expires = e.payload.fetched + Ttl[k] + StaleTtl[k]

StoreInv ==
  /\ now \in Nat
  /\ DOMAIN store = Keys
  /\ \A k \in FactKeys : store[k] = Missing \/ IsFact(k, store[k], now)

\* The time that all attempts of a call may take.
Patience == MaxAttempts * Timeout

\* An attempt is within its timeout, those before it failed for an outage, and
\* together they took no longer than that many timeouts.
IsAttempt(call, t) ==
  /\ DOMAIN call = {"pc", "key", "cached", "seen", "begun", "deadline"}
  /\ call.key \in FactKeys
  /\ call.cached = Missing \/ (IsFact(call.key, call.cached, t)
                               /\ call.begun < call.cached.expires
                               /\ call.cached.payload.fetched <= call.begun)
  /\ call.seen \in Seq(Transient) /\ Len(call.seen) < MaxAttempts
  /\ call.begun \in Nat /\ call.deadline \in Nat
  /\ call.begun <= t /\ t <= call.deadline
  /\ call.deadline <= call.begun + (Len(call.seen) + 1) * Timeout

IsAnswer(call) ==
  /\ call.key \in FactKeys
  /\ call.payload \in Payloads({"verified", "unavailable", "stale"})
  /\ call.seen \in Seq(Transient \union {"ok"}) /\ Len(call.seen) <= MaxAttempts
  /\ call.payload.status = "stale" => Len(call.seen) = MaxAttempts /\ call.seen \in Seq(Transient)
  /\ call.begun \in Nat /\ call.at \in Nat
  /\ call.payload.fetched <= call.at
  /\ call.payload.status # "stale" => call.at - call.payload.fetched <= Ttl[call.key]
  /\ call.at - call.payload.fetched < Ttl[call.key] + StaleTtl[call.key] + Patience
  /\ call.at - call.begun <= Patience

IsCall(call, t) ==
  \/ call.pc = "idle"
  \/ call.pc = "attempting" /\ IsAttempt(call, t)
  \/ call.pc = "answered" /\ IsAnswer(call)

CallsInv == DOMAIN calls = Callers /\ \A c \in Callers : IsCall(calls[c], now)

IInv == StoreInv /\ CallsInv
-----------------------------------------------------------------------------
\* What the constants say of times, attempts and keys.
LEMMA ConstantFacts ==
  /\ \A k \in FactKeys : k \in Keys /\ Ttl[k] \in Nat \ {0} /\ StaleTtl[k] \in Nat
  /\ MaxAttempts \in Nat \ {0} /\ Timeout \in Nat /\ WeatherKeys \subseteq FactKeys
  /\ Patience \in Nat
BY TtlAssumption, CallAssumption DEF Patience

\* The time that attempts take adds up.
LEMMA Attempts ==
  ASSUME NEW n \in Nat, NEW m \in Nat, n <= m, NEW t \in Nat
  PROVE  /\ n * t \in Nat /\ (n + 1) * t = n * t + t /\ n * t <= m * t /\ 1 * t = t
<1>1. n * t \in Nat /\ m * t \in Nat  OBVIOUS
<1>2. (n + 1) * t = n * t + t  OBVIOUS
<1>3. PICK d \in Nat : m = n + d  BY m - n \in Nat, m = n + (m - n)
<1>4. m * t = n * t + d * t /\ d * t \in Nat  BY <1>3
<1> QED  BY <1>1, <1>2, <1>4

LEMMA OneMore ==
  ASSUME NEW n \in Nat, NEW t \in Nat
  PROVE  n * t \in Nat /\ (n + 1) * t = n * t + t
OBVIOUS

\* A fact stays one while time passes.
LEMMA FactsKeep ==
  ASSUME NEW k, NEW e, NEW t \in Nat, NEW u \in Nat, t <= u, IsFact(k, e, t)
  PROVE  IsFact(k, e, u)
BY DEF IsFact, Payloads

\* So does an answer, and an attempt until its deadline.
LEMMA CallsKeep ==
  ASSUME NEW call, NEW t \in Nat, NEW u \in Nat, t <= u, IsCall(call, t),
         call.pc = "attempting" => u <= call.deadline
  PROVE  IsCall(call, u)
BY FactsKeep DEF IsCall, IsAttempt

-----------------------------------------------------------------------------
(* The initial state and the steps that make no call.                      *)

LEMMA InitIInv == Init => IInv
BY ConstantFacts DEF Init, IInv, CacheInit, CallsInit, StoreInv, CallsInv, IsCall, Quiet

LEMMA TickKeeps ==
  ASSUME IInv, Tick
  PROVE  IInv'
<1>1. /\ now \in Nat /\ now' \in Nat /\ now <= now' /\ store' = store /\ calls' = calls
      /\ \A c \in Callers : calls[c].pc = "attempting" => now < calls[c].deadline
  BY DEF IInv, StoreInv, Tick, callVars, CallsInTime
<1>2. StoreInv'  BY <1>1, FactsKeep DEF IInv, StoreInv
<1>3. ASSUME NEW c \in Callers
      PROVE  IsCall(calls[c], now')
  <2>1. IsCall(calls[c], now)  BY DEF IInv, CallsInv
  <2>2. calls[c].pc = "attempting" => now' <= calls[c].deadline
    BY <1>1, <2>1 DEF Tick, IsCall, IsAttempt
  <2> QED  BY <1>1, <2>1, <2>2, CallsKeep
<1>4. CallsInv'  BY <1>1, <1>3 DEF IInv, CallsInv
<1> QED  BY <1>2, <1>4 DEF IInv

\* Enrichment writes no key of a fact.
LEMMA EnrichKeeps ==
  ASSUME IInv, EnrichStep, UNCHANGED callVars
  PROVE  IInv'
<1>1. /\ now' = now /\ DOMAIN store' = Keys
      /\ \A k \in FactKeys : store'[k] = store[k]
  <2>1. CASE Summarise
    <3>1. \A k \in FactKeys : PlacesOf(k) = {} /\ k \in Keys
      BY KeyAssumption, ConstantFacts DEF PlacesOf
    <3>2. now' = now  BY <2>1 DEF Summarise
    <3>3. PICK cached : store' = [k \in Keys |->
                          IF \E g \in cached : g.place \in PlacesOf(k)
                          THEN Entry(k, CHOOSE g \in cached : g.place \in PlacesOf(k)) ELSE store[k]]
      BY <2>1 DEF Summarise
    <3> QED  BY <3>1, <3>2, <3>3
  <2>2. CASE UNCHANGED cacheVars  BY <2>2 DEF cacheVars, IInv, StoreInv
  <2> QED  BY <2>1, <2>2 DEF EnrichStep, StartEnrichment, NextPlace, SearchReturns, SearchFails, SaveGuides
<1>2. calls' = calls  BY DEF callVars
<1>3. StoreInv'  BY <1>1 DEF IInv, StoreInv
<1>4. CallsInv'  BY <1>1, <1>2 DEF IInv, CallsInv
<1> QED  BY <1>3, <1>4 DEF IInv

-----------------------------------------------------------------------------
(* The steps of a call.                                                    *)

\* A step of one caller leaves the calls of the others as they are.
LEMMA OneCall ==
  ASSUME IInv, NEW c \in Callers, NEW v, IsCall(v, now),
         calls' = [calls EXCEPT ![c] = v], now' = now, StoreInv'
  PROVE  IInv'
BY DEF IInv, CallsInv

\* What a lookup of a fact finds is the entry, within its stale period.
LEMMA LookupFacts ==
  ASSUME IInv, NEW k \in FactKeys, NEW hit \in Lookups(k)
  PROVE  /\ now \in Nat
         /\ hit = Missing \/ (hit = store[k] /\ IsFact(k, hit, now) /\ now < hit.expires)
         /\ is_fresh(hit) => IsFact(k, hit, now) /\ now < hit.expires /\ now <= hit.fresh_until
<1>1. hit = Missing \/ (hit = store[k] /\ hit.kept /\ now < hit.expires)  BY DEF Lookups
<1>2. ~Missing.kept  BY DEF Missing
<1>3. hit # Missing => IsFact(k, hit, now)
  BY <1>1 DEF IInv, StoreInv
<1> QED  BY <1>1, <1>2, <1>3 DEF IInv, StoreInv, is_fresh

LEMMA BeginKeeps ==
  ASSUME IInv, NEW c \in Callers, Begin(c)
  PROVE  IInv'
<1>1. /\ now' = now /\ StoreInv'  BY DEF Begin, cacheVars, IInv, StoreInv
<1> PICK k \in FactKeys : \E hit \in Lookups(k) :
        IF is_fresh(hit) THEN Answered(c, k, hit.payload, <<>>, now)
        ELSE calls' = [calls EXCEPT ![c] = [pc |-> "attempting", key |-> k, cached |-> hit, seen |-> <<>>,
                                            begun |-> now, deadline |-> now + Timeout]]
  BY DEF Begin
<1>2. PICK hit \in Lookups(k) :
        IF is_fresh(hit) THEN Answered(c, k, hit.payload, <<>>, now)
        ELSE calls' = [calls EXCEPT ![c] = [pc |-> "attempting", key |-> k, cached |-> hit, seen |-> <<>>,
                                            begun |-> now, deadline |-> now + Timeout]]
  OBVIOUS
<1>3. /\ MaxAttempts \in Nat \ {0} /\ Timeout \in Nat /\ Patience \in Nat
      /\ 1 * Timeout = Timeout /\ now \in Nat /\ Ttl[k] \in Nat \ {0} /\ StaleTtl[k] \in Nat
  BY ConstantFacts, Attempts, LookupFacts
<1>4. CASE is_fresh(hit)
  <2> DEFINE v == [pc |-> "answered", key |-> k, payload |-> hit.payload,
                   seen |-> <<>>, begun |-> now, at |-> now]
  <2>1. calls' = [calls EXCEPT ![c] = v]  BY <1>2, <1>4 DEF Answered
  <2>2. IsFact(k, hit, now) /\ now < hit.expires /\ now <= hit.fresh_until
    BY <1>4, LookupFacts
  <2>3. v.seen \in Seq(Transient \union {"ok"}) /\ Len(v.seen) = 0  OBVIOUS
  <2>4. hit.payload \in Payloads({"verified", "unavailable", "stale"}) /\ hit.payload.status # "stale"
    BY <2>2 DEF IsFact, Payloads
  <2>5. hit.payload.fetched \in Nat /\ hit.payload.fetched <= now /\ now <= hit.payload.fetched + Ttl[k]
       /\ now < hit.payload.fetched + Ttl[k] + StaleTtl[k]
    BY <2>2 DEF IsFact, Payloads
  <2>6. IsAnswer(v)
    <3>1. v.key = k /\ v.payload = hit.payload /\ v.begun = now /\ v.at = now  OBVIOUS
    <3>2. /\ now - hit.payload.fetched <= Ttl[k] /\ now - now <= Patience
          /\ now - hit.payload.fetched < Ttl[k] + StaleTtl[k] + Patience
      BY <1>3, <2>5
    <3> HIDE DEF v
    <3> QED  BY <1>3, <2>3, <2>4, <2>5, <3>1, <3>2 DEF IsAnswer
  <2>7. IsCall(v, now)  BY <2>6 DEF IsCall
  <2> HIDE DEF v
  <2> QED  BY <1>1, <2>1, <2>7, OneCall
<1>5. CASE ~is_fresh(hit)
  <2> DEFINE v == [pc |-> "attempting", key |-> k, cached |-> hit, seen |-> <<>>,
                   begun |-> now, deadline |-> now + Timeout]
  <2>1. calls' = [calls EXCEPT ![c] = v]  BY <1>2, <1>5
  <2>2. hit = Missing \/ (IsFact(k, hit, now) /\ now < hit.expires)  BY LookupFacts
  <2>3. v.seen \in Seq(Transient) /\ Len(v.seen) = 0  OBVIOUS
  <2>4. hit # Missing => hit.payload.fetched <= now  BY <2>2 DEF IsFact
  <2>5. (Len(v.seen) + 1) * Timeout = Timeout  BY <1>3, <2>3
  <2>6. IsAttempt(v, now)  BY <1>3, <2>2, <2>3, <2>4, <2>5 DEF IsAttempt
  <2>7. IsCall(v, now)  BY <2>6 DEF IsCall
  <2> HIDE DEF v
  <2> QED  BY <1>1, <2>1, <2>7, OneCall
<1> QED  BY <1>4, <1>5

LEMMA SucceedKeeps ==
  ASSUME IInv, NEW c \in Callers, Succeed(c)
  PROVE  IInv'
<1> DEFINE call == calls[c]
           k == call.key
<1>1. IsAttempt(call, now) /\ call.pc = "attempting" /\ now \in Nat
  BY DEF Succeed, IInv, CallsInv, IsCall, StoreInv
<1>2. PICK payload \in Payloads({"verified", "unavailable"}) :
        /\ payload.fetched = now /\ now' = now
        /\ Set(k, payload)
        /\ Answered(c, k, payload, Append(call.seen, "ok"), call.begun)
  BY <1>1 DEF Succeed, Payloads, FoundContents, Fact
<1>3. /\ MaxAttempts \in Nat \ {0} /\ Timeout \in Nat /\ k \in FactKeys /\ k \in Keys
      /\ Ttl[k] \in Nat \ {0} /\ StaleTtl[k] \in Nat
  BY <1>1, ConstantFacts DEF IsAttempt
<1>4. StoreInv'
  <2>1. store' = store \/ store' = [store EXCEPT ![k] = Entry(k, payload)]
    BY <1>2 DEF Set
  <2>2. IsFact(k, Entry(k, payload), now)
    BY <1>1, <1>2, <1>3 DEF IsFact, Entry, Payloads
  <2> HIDE DEF k
  <2>3. DOMAIN store = Keys /\ DOMAIN store' = Keys  BY <1>3, <2>1 DEF IInv, StoreInv
  <2>4. ASSUME NEW j \in FactKeys
        PROVE  store'[j] = Missing \/ IsFact(j, store'[j], now)
    <3>1. store[j] = Missing \/ IsFact(j, store[j], now)  BY DEF IInv, StoreInv
    <3>2. store'[j] = store[j] \/ (j = k /\ store'[j] = Entry(k, payload))
      BY <1>3, <2>1, <2>3, ConstantFacts
    <3> QED  BY <3>1, <3>2, <2>2
  <2> QED  BY <1>1, <1>2, <2>3, <2>4 DEF StoreInv
<1> DEFINE v == [pc |-> "answered", key |-> k, payload |-> payload,
                 seen |-> Append(call.seen, "ok"), begun |-> call.begun, at |-> now]
<1>5. calls' = [calls EXCEPT ![c] = v]  BY <1>2 DEF Answered
<1>6. /\ call.seen \in Seq(Transient) /\ Len(call.seen) \in Nat /\ Len(call.seen) + 1 <= MaxAttempts
  BY <1>1, <1>3 DEF IsAttempt
<1>7. call.begun \in Nat /\ now <= call.begun + Patience /\ Patience \in Nat
  <2>1. /\ call.begun \in Nat /\ call.deadline \in Nat /\ now <= call.deadline
        /\ call.deadline <= call.begun + (Len(call.seen) + 1) * Timeout
    BY <1>1 DEF IsAttempt
  <2>2. /\ (Len(call.seen) + 1) * Timeout \in Nat
        /\ (Len(call.seen) + 1) * Timeout <= Patience
    BY <1>3, <1>6, Len(call.seen) + 1 \in Nat, Attempts DEF Patience
  <2>3. Patience \in Nat  BY ConstantFacts
  <2> QED  BY <1>1, <2>1, <2>2, <2>3
<1>8. v.seen \in Seq(Transient \union {"ok"}) /\ Len(v.seen) = Len(call.seen) + 1
  BY <1>6, AppendProperties, SeqMonotonic
<1>9. payload \in Payloads({"verified", "unavailable", "stale"}) /\ payload.status # "stale"
  BY <1>2 DEF Payloads
<1>10. IsAnswer(v)
  <2>1. v.key = k /\ v.payload = payload /\ v.begun = call.begun /\ v.at = now  OBVIOUS
  <2> HIDE DEF v, call, k
  <2>2. /\ now - payload.fetched = 0 /\ now - call.begun <= Patience
        /\ 0 < Ttl[k] + StaleTtl[k] + Patience
    <3>1. /\ now \in Nat /\ call.begun \in Nat /\ Patience \in Nat
          /\ Ttl[k] \in Nat /\ Ttl[k] > 0 /\ StaleTtl[k] \in Nat
      BY <1>1, <1>3, <1>7
    <3> QED  BY <3>1, <1>2, <1>7
  <2>3. Len(v.seen) <= MaxAttempts  BY <1>6, <1>8
  <2> QED  BY <1>1, <1>2, <1>3, <1>7, <1>8, <1>9, <2>1, <2>2, <2>3 DEF IsAnswer
<1>11. IsCall(v, now)  BY <1>10 DEF IsCall
<1> HIDE DEF v
<1> QED  BY <1>2, <1>4, <1>5, <1>11, OneCall

\* A failed attempt is followed by another, by the cached answer, or by none.
LEMMA FailKeeps ==
  ASSUME IInv, NEW c \in Callers, NEW failure \in Failures, Fail(c, failure)
  PROVE  IInv'
<1> DEFINE call == calls[c]
           seen == Append(call.seen, failure)
<1>1. IsAttempt(call, now) /\ call.pc = "attempting" /\ now \in Nat /\ now' = now
  BY DEF Fail, IInv, CallsInv, IsCall, StoreInv, cacheVars
<1>2. StoreInv'  BY DEF Fail, cacheVars, IInv, StoreInv
<1>3. /\ call.key \in FactKeys /\ Ttl[call.key] \in Nat \ {0} /\ StaleTtl[call.key] \in Nat
      /\ MaxAttempts \in Nat \ {0} /\ Timeout \in Nat /\ Patience \in Nat
      /\ call.begun \in Nat /\ call.deadline \in Nat /\ call.begun <= now
      /\ call.seen \in Seq(Transient) /\ Len(call.seen) \in Nat
  BY <1>1, ConstantFacts DEF IsAttempt
<1>4. Retried(failure) => seen \in Seq(Transient) /\ Len(seen) = Len(call.seen) + 1
  BY <1>3, AppendProperties DEF Retried
<1>5. now <= call.begun + (Len(call.seen) + 1) * Timeout /\ (Len(call.seen) + 1) * Timeout \in Nat
  BY <1>1, <1>3 DEF IsAttempt
<1>6. CASE Retried(failure) /\ Len(seen) < MaxAttempts
  <2> DEFINE v == [call EXCEPT !.seen = seen, !.deadline = now + Timeout]
  <2>1. calls' = [calls EXCEPT ![c] = v]  BY <1>3, <1>4, <1>6 DEF Fail
  <2>2. DOMAIN call = {"pc", "key", "cached", "seen", "begun", "deadline"}  BY <1>1 DEF IsAttempt
  <2>3. /\ DOMAIN v = {"pc", "key", "cached", "seen", "begun", "deadline"}
        /\ v.pc = "attempting" /\ v.key = call.key /\ v.cached = call.cached
        /\ v.seen = seen /\ v.begun = call.begun /\ v.deadline = now + Timeout
    <3> HIDE DEF call, seen
    <3> QED  BY <1>1, <2>2
  <2>4. now + Timeout <= call.begun + (Len(seen) + 1) * Timeout
    <3> DEFINE spent == Len(seen) * Timeout
    <3>1. (Len(seen) + 1) * Timeout = spent + Timeout /\ spent \in Nat
      <4>1. Len(seen) \in Nat /\ Timeout \in Nat  BY <1>3, <1>4, <1>6
      <4> HIDE DEF seen
      <4> QED  BY <4>1, OneMore
    <3>2. now <= call.begun + spent  BY <1>4, <1>5, <1>6
    <3> HIDE DEF spent, call
    <3> QED  BY <1>1, <1>3, <3>1, <3>2
  <2>5. IsAttempt(v, now)
    <3> HIDE DEF v, call, seen
    <3>1. call.cached = Missing \/ (/\ IsFact(call.key, call.cached, now)
                                    /\ call.begun < call.cached.expires
                                    /\ call.cached.payload.fetched <= call.begun)
      BY <1>1 DEF IsAttempt
    <3> QED  BY <1>1, <1>3, <1>4, <1>6, <2>3, <2>4, <3>1 DEF IsAttempt
  <2>6. IsCall(v, now)  BY <2>3, <2>5 DEF IsCall
  <2> HIDE DEF v
  <2> QED  BY <1>1, <1>2, <2>1, <2>6, OneCall
<1>7. CASE Retried(failure) /\ Len(seen) >= MaxAttempts /\ call.cached.kept
  <2> DEFINE payload == with_stale_status(call.cached.payload)
             v == [pc |-> "answered", key |-> call.key, payload |-> payload,
                   seen |-> seen, begun |-> call.begun, at |-> now]
  <2>1. calls' = [calls EXCEPT ![c] = v]  BY <1>3, <1>4, <1>7 DEF Fail, Answered
  <2>2. /\ IsFact(call.key, call.cached, now) /\ call.begun < call.cached.expires
        /\ call.cached.payload.fetched <= call.begun
    BY <1>1, <1>7 DEF IsAttempt, Missing
  <2>3. /\ payload \in Payloads({"verified", "unavailable", "stale"}) /\ payload.status = "stale"
        /\ payload.fetched = call.cached.payload.fetched
    BY <2>2 DEF IsFact, Payloads, with_stale_status
  <2>4. Len(seen) = MaxAttempts /\ seen \in Seq(Transient) /\ seen \in Seq(Transient \union {"ok"})
    BY <1>1, <1>3, <1>4, <1>7, SeqMonotonic DEF IsAttempt
  <2>5. now <= call.begun + Patience  BY <1>4, <1>5, <2>4 DEF Patience
  <2>6. /\ payload.fetched \in Nat /\ payload.fetched <= now
        /\ now < payload.fetched + Ttl[call.key] + StaleTtl[call.key] + Patience
    <3>1. /\ payload.fetched \in Nat /\ payload.fetched <= call.begun
          /\ call.begun < payload.fetched + Ttl[call.key] + StaleTtl[call.key]
      BY <2>2, <2>3 DEF IsFact, Payloads
    <3> HIDE DEF call, seen, payload
    <3> QED  BY <1>1, <1>3, <2>5, <3>1
  <2>7. IsAnswer(v)
    <3>1. /\ v.key = call.key /\ v.payload = payload /\ v.seen = seen
          /\ v.begun = call.begun /\ v.at = now
      OBVIOUS
    <3> HIDE DEF v, call, seen, payload
    <3>2. /\ now - payload.fetched < Ttl[call.key] + StaleTtl[call.key] + Patience
          /\ now - call.begun <= Patience
      <4>1. /\ now \in Nat /\ payload.fetched \in Nat /\ call.begun \in Nat /\ Patience \in Nat
            /\ Ttl[call.key] \in Nat /\ StaleTtl[call.key] \in Nat
        BY <1>1, <1>3, <2>6
      <4> QED  BY <4>1, <2>5, <2>6
    <3>3. v.seen \in Seq(Transient \union {"ok"}) /\ Len(v.seen) <= MaxAttempts
      BY <1>3, <2>4, <3>1
    <3>4. v.payload.status = "stale" /\ Len(v.seen) = MaxAttempts /\ v.seen \in Seq(Transient)
      BY <2>3, <2>4, <3>1
    <3> QED  BY <1>1, <1>3, <2>3, <2>6, <3>1, <3>2, <3>3, <3>4 DEF IsAnswer
  <2>8. IsCall(v, now)  BY <2>7 DEF IsCall
  <2> HIDE DEF v
  <2> QED  BY <1>1, <1>2, <2>1, <2>8, OneCall
<1>8. CASE calls' = [calls EXCEPT ![c] = Quiet]
  <2>1. IsCall(Quiet, now)  BY DEF IsCall, Quiet
  <2> QED  BY <1>1, <1>2, <1>8, <2>1, OneCall
<1>9. \/ Retried(failure) /\ Len(seen) < MaxAttempts
      \/ Retried(failure) /\ Len(seen) >= MaxAttempts /\ call.cached.kept
      \/ calls' = [calls EXCEPT ![c] = Quiet]
  BY Zenon DEF Fail
<1> QED  BY <1>6, <1>7, <1>8, <1>9

-----------------------------------------------------------------------------
(* The theorems.                                                           *)

LEMMA StepKeeps == IInv /\ [Next]_vars => IInv'
<1> SUFFICES ASSUME IInv, [Next]_vars PROVE IInv'
  OBVIOUS
<1>1. CASE Tick  BY <1>1, TickKeeps
<1>2. CASE CallStep
  <2>1. ASSUME NEW c \in Callers, Begin(c) PROVE IInv'  BY <2>1, BeginKeeps
  <2>2. ASSUME NEW c \in Callers, Succeed(c) PROVE IInv'  BY <2>2, SucceedKeeps
  <2>3. ASSUME NEW c \in Callers, NEW f \in Failures, Fail(c, f) PROVE IInv'  BY <2>3, FailKeeps
  <2> QED  BY <1>2, <2>1, <2>2, <2>3 DEF CallStep
<1>3. CASE EnrichStep /\ UNCHANGED callVars  BY <1>3, EnrichKeeps
<1>4. CASE UNCHANGED vars
  BY <1>4 DEF vars, cacheVars, callVars, IInv, StoreInv, CallsInv
<1> QED  BY <1>1, <1>2, <1>3, <1>4 DEF Next

\* Every reachable state satisfies the inductive invariant: the cache holds what
\* was fetched, and the calls keep their types and their time (cache.py, http.py).
THEOREM FactsInvariance == Spec => []IInv
BY InitIInv, StepKeeps, PTL DEF Spec

LEMMA AnswersFollow == IInv => AnswersAreAsOldAsTheySay /\ StaleOnlyInAnOutage
<1> SUFFICES ASSUME IInv, NEW c \in AnsweredCalls
             PROVE  IsAnswer(calls[c])
  <2>1. Transient \subseteq Transient \union {"ok"} /\ "ok" \notin Transient  BY DEF Transient
  <2> QED  BY <2>1, ConstantFacts, LenProperties, ElementOfSeq
           DEF AnswersAreAsOldAsTheySay, StaleOnlyInAnOutage, IsAnswer, Last, Patience
<1> QED  BY DEF IInv, CallsInv, AnsweredCalls, IsCall

\* An answer is as old as it says, whatever the times to live, the number of
\* attempts and their timeout, and whoever else writes to the cache (cache.py
\* 86-102, http.py 79-129).
THEOREM AnswersHaveTheirAge == Spec => []AnswersAreAsOldAsTheySay
BY FactsInvariance, AnswersFollow, PTL

\* An old answer is served only when every attempt met an outage (http.py 79-129).
THEOREM StaleCoversOutages == Spec => []StaleOnlyInAnOutage
BY FactsInvariance, AnswersFollow, PTL

-----------------------------------------------------------------------------
(* The place that is adopted. That a best candidate exists is where the     *)
(* proof needs induction: it comes as the least of a set of numbers.        *)

LEMMA LeastNumber ==
  ASSUME NEW T \in SUBSET Nat, T # {}
  PROVE  \E m \in T : \A n \in T : m <= n
<1> DEFINE R == OpToRel(<, Nat)
<1>1. IsWellFoundedOn(R, Nat)  BY NatLessThanWellFounded
<1>2. \A m, n \in Nat : m < n => <<m, n>> \in R  BY DEF OpToRel
<1> HIDE DEF R
<1>3. PICK m \in T : \A n \in T : ~(<<n, m>> \in R)  BY <1>1, WFMin
<1>4. ASSUME NEW n \in T PROVE m <= n
  <2>1. m \in Nat /\ n \in Nat /\ ~(<<n, m>> \in R)  BY <1>3
  <2> QED  BY <1>2, <2>1
<1> QED  BY <1>4

LEMMA ScoresAreBounded ==
  ASSUME NEW x, NEW regional PROVE PlaceScore(x, regional) \in 0..100
<1>1. RawScore(x, regional) \in Int  BY DEF RawScore
<1> QED  BY <1>1 DEF PlaceScore

\* Of some candidates one is the best.
LEMMA BestIsBest ==
  ASSUME NEW candidates \in Seq(Candidates), NEW regional,
         NEW S \in SUBSET DOMAIN candidates, S # {}
  PROVE  LET best == Best(candidates, S, regional)
         IN  /\ best \in S
             /\ \A j \in S : PlaceScore(candidates[j], regional) <= PlaceScore(candidates[best], regional)
<1> DEFINE score(i) == PlaceScore(candidates[i], regional)
           lost     == { 100 - score(i) : i \in S }
           Leads(i) == \A j \in S :
                         LET lead == PlaceScore(candidates[i], regional) - PlaceScore(candidates[j], regional)
                         IN  lead > 0 \/ (lead = 0 /\ i <= j)
<1>1. S \in SUBSET Nat  OBVIOUS
<1>2. \A i : score(i) \in 0..100  BY ScoresAreBounded
<1>3. lost \in SUBSET Nat /\ lost # {}
  <2>1. \A i \in S : 100 - score(i) \in Nat
    <3> TAKE i \in S
    <3> DEFINE s == score(i)
    <3>1. s \in 0..100  BY <1>2
    <3> HIDE DEF s
    <3>2. 100 - s \in Nat  BY <3>1
    <3> QED  BY <3>2 DEF s
  <2> HIDE DEF score
  <2> QED  BY <2>1
<1>4. PICK least \in lost : \A n \in lost : least <= n
  <2> HIDE DEF lost
  <2> QED  BY <1>3, LeastNumber
<1> DEFINE first == { i \in S : 100 - score(i) = least }
<1>5. first # {} /\ first \in SUBSET Nat  BY <1>1, <1>4
<1>6. PICK i \in first : \A j \in first : i <= j
  <2> HIDE DEF first
  <2> QED  BY <1>5, LeastNumber
<1>7. ASSUME NEW j \in S
      PROVE  score(i) - score(j) > 0 \/ (score(i) - score(j) = 0 /\ i <= j)
  <2>1. score(i) \in 0..100 /\ score(j) \in 0..100  BY <1>2
  <2>2. 100 - score(i) <= 100 - score(j)  BY <1>4, <1>6
  <2>3. 100 - score(j) = 100 - score(i) => i <= j  BY <1>6
  <2> DEFINE best == score(i)
             other == score(j)
  <2> SUFFICES best - other > 0 \/ (best - other = 0 /\ i <= j)  OBVIOUS
  <2>4. /\ best \in 0..100 /\ other \in 0..100 /\ 100 - best <= 100 - other
        /\ 100 - other = 100 - best => i <= j
    BY <2>1, <2>2, <2>3
  <2> HIDE DEF best, other
  <2> QED  BY <2>4
<1>8. i \in S /\ Leads(i)
  BY <1>6, <1>7
<1>9. Best(candidates, S, regional) = CHOOSE k \in S : Leads(k)
  BY DEF Best
<1> DEFINE top == Best(candidates, S, regional)
<1> HIDE DEF Leads
<1>10. top \in S /\ Leads(top)
  BY <1>8, <1>9
<1> HIDE DEF top
<1>11. ASSUME NEW j \in S PROVE score(j) <= score(top)
  <2> DEFINE best == score(top)
             other == score(j)
  <2>1. best - other > 0 \/ best - other = 0  BY <1>10 DEF Leads
  <2>2. best \in 0..100 /\ other \in 0..100  BY <1>2
  <2> SUFFICES other <= best  OBVIOUS
  <2> HIDE DEF best, other
  <2> QED  BY <2>1, <2>2
<1> QED  BY <1>10, <1>11 DEF top

\* What the weights come to (config.py 67-74): 90 and more for a place that was
\* meant, 80 for one that was almost meant, 75 at most for every other one that
\* is not filtered out.
LEMMA ScoreOfMeant ==
  ASSUME NEW x \in Candidates, Meant(x)
  PROVE  /\ ~hard_filtered(x) /\ PlaceScore(x, TRUE) \in 90..100
         /\ x.address \/ x.adcode => PlaceScore(x, TRUE) >= 95
         /\ ~(x.address \/ x.adcode) => PlaceScore(x, TRUE) = 90
<1>1. x.address \in BOOLEAN /\ x.adcode \in BOOLEAN /\ ~hard_filtered(x)
  BY DEF Candidates, Meant, hard_filtered, Fragments
<1> DEFINE raw == RawScore(x, TRUE)
<1>2. raw = 90 + (IF x.address THEN 5 ELSE 0) + (IF x.adcode THEN 5 ELSE 0)
  BY <1>1 DEF Meant, RawScore
<1> DEFINE score == PlaceScore(x, TRUE)
<1>3. score = IF raw < 0 THEN 0 ELSE IF raw > 100 THEN 100 ELSE raw
  BY <1>1 DEF PlaceScore
<1> HIDE DEF raw, score
<1>4. /\ raw \in 90..100
      /\ x.address \/ x.adcode => raw >= 95
      /\ ~(x.address \/ x.adcode) => raw = 90
  BY <1>1, <1>2
<1>5. score = raw  BY <1>3, <1>4
<1> QED  BY <1>1, <1>4, <1>5 DEF score

LEMMA ScoreOfOthers ==
  ASSUME NEW x \in Candidates, ~hard_filtered(x), ~Meant(x)
  PROVE  /\ PlaceScore(x, TRUE) \in 0..80
         /\ AlmostMeant(x) => PlaceScore(x, TRUE) = 80
         /\ ~AlmostMeant(x) => PlaceScore(x, TRUE) <= 75
<1>1. /\ x.name \in {"exact", "partial", "no"} /\ x.semantic \in {"attraction", "unknown"}
      /\ x.here \in BOOLEAN /\ x.address \in BOOLEAN /\ x.adcode \in BOOLEAN
  BY DEF Candidates, hard_filtered
<1> DEFINE named  == IF x.name = "exact" THEN 48 ELSE IF x.name = "partial" THEN 28 ELSE 0
           kind   == IF x.semantic = "attraction" THEN 28 ELSE IF x.semantic = "unknown" THEN 8 ELSE 0
           region == IF x.here THEN 14 ELSE -25
           data   == (IF x.address THEN 5 ELSE 0) + (IF x.adcode THEN 5 ELSE 0)
<1>2. data \in {0, 5, 10} /\ (data = 10 <=> x.address /\ x.adcode)  BY <1>1
<1>3. region \in {14, -25} /\ (region = 14 <=> x.here)  BY <1>1
<1>4. /\ named \in {0, 28, 48} /\ kind \in {8, 28}
      /\ named = 48 <=> x.name = "exact"
      /\ named = 28 <=> x.name = "partial"
      /\ kind = 28 <=> x.semantic = "attraction"
      /\ kind = 8 <=> x.semantic = "unknown"
  BY <1>1
<1> DEFINE raw == RawScore(x, TRUE)
<1>5. raw = named + kind + region + data
  BY <1>1 DEF RawScore
<1>6. ~(named = 48 /\ kind = 28 /\ region = 14)
  BY <1>3, <1>4 DEF Meant
<1>7. AlmostMeant(x) <=> /\ region = 14 /\ data = 10
                         /\ (named = 48 /\ kind = 8) \/ (named = 28 /\ kind = 28)
  BY <1>2, <1>3, <1>4 DEF AlmostMeant
<1> DEFINE score == PlaceScore(x, TRUE)
<1>8. score = IF raw < 0 THEN 0 ELSE IF raw > 100 THEN 100 ELSE raw
  BY DEF PlaceScore
<1> HIDE DEF named, kind, region, data, raw, score
<1>9. /\ raw \in Int /\ raw <= 80
      /\ AlmostMeant(x) => raw = 80
      /\ ~AlmostMeant(x) => raw <= 75
  BY <1>2, <1>3, <1>4, <1>5, <1>6, <1>7
<1>10. score = raw \/ (score = 0 /\ raw < 0)  BY <1>8, <1>9
<1>11. score \in 0..80 /\ (AlmostMeant(x) => score = 80) /\ (~AlmostMeant(x) => score <= 75)
  BY <1>8, <1>9, <1>10
<1> QED  BY <1>11 DEF score

LEMMA MeantInList ==
  ASSUME NEW candidates \in Seq(Candidates), NEW j \in DOMAIN candidates, Meant(candidates[j])
  PROVE  /\ ~hard_filtered(candidates[j])
         /\ PlaceScore(candidates[j], TRUE) \in 90..100
         /\ candidates[j].address \/ candidates[j].adcode => PlaceScore(candidates[j], TRUE) >= 95
         /\ ~(candidates[j].address \/ candidates[j].adcode) => PlaceScore(candidates[j], TRUE) = 90
<1> DEFINE x == candidates[j]
<1>1. x \in Candidates /\ Meant(x)  BY ElementOfSeq
<1> HIDE DEF x
<1>2. /\ ~hard_filtered(x) /\ PlaceScore(x, TRUE) \in 90..100
      /\ x.address \/ x.adcode => PlaceScore(x, TRUE) >= 95
      /\ ~(x.address \/ x.adcode) => PlaceScore(x, TRUE) = 90
  BY <1>1, ScoreOfMeant
<1> QED  BY <1>2 DEF x

LEMMA OtherInList ==
  ASSUME NEW candidates \in Seq(Candidates), NEW j \in DOMAIN candidates,
         ~hard_filtered(candidates[j]), ~Meant(candidates[j])
  PROVE  /\ PlaceScore(candidates[j], TRUE) \in 0..80
         /\ AlmostMeant(candidates[j]) => PlaceScore(candidates[j], TRUE) = 80
         /\ ~AlmostMeant(candidates[j]) => PlaceScore(candidates[j], TRUE) <= 75
<1> DEFINE x == candidates[j]
<1>1. x \in Candidates /\ ~hard_filtered(x) /\ ~Meant(x)  BY ElementOfSeq
<1> HIDE DEF x
<1>2. /\ PlaceScore(x, TRUE) \in 0..80
      /\ AlmostMeant(x) => PlaceScore(x, TRUE) = 80
      /\ ~AlmostMeant(x) => PlaceScore(x, TRUE) <= 75
  BY <1>1, ScoreOfOthers
<1> QED  BY <1>2 DEF x

\* A candidate that cannot be mistaken is the top, leads by the margin and is
\* adopted.
LEMMA UnmistakableIsAdopted ==
  ASSUME NEW candidates \in Seq(Candidates), NEW i \in Unmistakable(candidates),
         NEW generic \in BOOLEAN, ~generic
  PROVE  /\ Adoption(candidates, TRUE, generic).action = "auto_adopt"
         /\ Adoption(candidates, TRUE, generic).place = candidates[i]
<1> DEFINE top    == Top(candidates, TRUE)
           others == eligible(candidates) \ {top}
           score(j) == PlaceScore(candidates[j], TRUE)
<1>0. \A j \in DOMAIN candidates : candidates[j] \in Candidates
  BY ElementOfSeq
<1>1. /\ i \in DOMAIN candidates /\ Meant(candidates[i])
      /\ \A j \in DOMAIN candidates : Meant(candidates[j]) => j = i
      /\ \/ candidates[i].address \/ candidates[i].adcode
         \/ \A j \in DOMAIN candidates : ~AlmostMeant(candidates[j])
  BY DEF Unmistakable
<1>2. ~hard_filtered(candidates[i]) /\ score(i) \in 90..100
  <2> DEFINE x == candidates[i]
  <2>1. x \in Candidates /\ Meant(x)  BY <1>0, <1>1
  <2> HIDE DEF x
  <2>2. ~hard_filtered(x) /\ PlaceScore(x, TRUE) \in 90..100  BY <2>1, ScoreOfMeant
  <2> QED  BY <2>2 DEF x
<1>3. i \in eligible(candidates) /\ score(i) \in 90..100
  BY <1>1, <1>2 DEF eligible
<1>4. eligible(candidates) \in SUBSET DOMAIN candidates
  BY DEF eligible
<1>5. top \in eligible(candidates) /\ score(i) <= score(top)
  BY <1>3, <1>4, BestIsBest DEF Top
<1>6. top = i
  <2> SUFFICES ASSUME ~Meant(candidates[top]) PROVE FALSE
    BY <1>1, <1>4, <1>5
  <2> DEFINE best == score(top)
             own  == score(i)
  <2>1. best \in 0..80
    <3>1. top \in DOMAIN candidates /\ ~hard_filtered(candidates[top])  BY <1>5 DEF eligible
    <3> HIDE DEF top
    <3> DEFINE x == candidates[top]
    <3>2. x \in Candidates  BY <1>0, <3>1
    <3>3. ~hard_filtered(x) /\ ~Meant(x)  BY <3>1
    <3> HIDE DEF x
    <3>4. PlaceScore(x, TRUE) \in 0..80  BY <3>2, <3>3, ScoreOfOthers
    <3> QED  BY <3>4 DEF x
  <2>2. own \in 90..100 /\ own <= best  BY <1>3, <1>5
  <2> HIDE DEF best, own
  <2> QED  BY <2>1, <2>2
<1> HIDE DEF top
<1>7. clear(candidates, top, TRUE)
  <2>1. CASE others = {}
    <3>1. RunnerUpScore(candidates, top, TRUE) = 0  BY <2>1 DEF RunnerUpScore
    <3>2. score(top) - 0 >= Margin
      <4> HIDE DEF score
      <4> QED  BY <1>3, <1>6 DEF Margin
    <3> QED  BY <3>1, <3>2 DEF clear
  <2>2. CASE others # {}
    <3> DEFINE next == Best(candidates, others, TRUE)
    <3>1. next \in others  BY <1>4, <2>2, BestIsBest
    <3>2. RunnerUpScore(candidates, top, TRUE) = score(next)  BY <2>2 DEF RunnerUpScore
    <3> HIDE DEF next
    <3>3. next \in DOMAIN candidates /\ ~hard_filtered(candidates[next]) /\ ~Meant(candidates[next])
      BY <1>1, <1>6, <3>1 DEF eligible
    <3>4. /\ score(next) \in 0..80
          /\ ~AlmostMeant(candidates[next]) => score(next) <= 75
      <4> DEFINE x == candidates[next]
      <4>1. x \in Candidates /\ ~hard_filtered(x) /\ ~Meant(x)  BY <1>0, <3>3
      <4> HIDE DEF x
      <4>2. PlaceScore(x, TRUE) \in 0..80 /\ (~AlmostMeant(x) => PlaceScore(x, TRUE) <= 75)
        BY <4>1, ScoreOfOthers
      <4> QED  BY <4>2 DEF x
    <3>5. candidates[i].address \/ candidates[i].adcode => score(top) >= 95
      BY <1>1, <1>6, MeantInList
    <3>6. score(top) >= 95 \/ score(next) <= 75
      BY <1>1, <3>3, <3>4, <3>5
    <3>7. score(top) - score(next) >= Margin
      <4> DEFINE best == score(top)
                 second == score(next)
      <4>1. /\ best \in 90..100 /\ second \in 0..80
            /\ best >= 95 \/ second <= 75
        BY <1>3, <1>6, <3>4, <3>6
      <4> HIDE DEF best, second
      <4>2. best - second >= Margin  BY <4>1 DEF Margin
      <4> QED  BY <4>2 DEF best, second
    <3> QED  BY <3>2, <3>7 DEF clear
  <2> QED  BY <2>1, <2>2
<1>8. score(top) >= AutoAdopt /\ ~(score(top) < Confirm)
  <2> HIDE DEF score
  <2> QED  BY <1>3, <1>6 DEF AutoAdopt, Confirm
<1>9. candidates[top].here /\ eligible(candidates) # {}
  BY <1>1, <1>3, <1>6 DEF Meant
<1> QED  BY <1>6, <1>7, <1>8, <1>9 DEF Adoption, top

\* And nothing else is adopted.
LEMMA AdoptedIsUnmistakable ==
  ASSUME NEW candidates \in Seq(Candidates), NEW generic \in BOOLEAN,
         Adoption(candidates, TRUE, generic).action = "auto_adopt"
  PROVE  ~generic /\ Unmistakable(candidates) # {}
<1> DEFINE top    == Top(candidates, TRUE)
           others == eligible(candidates) \ {top}
           score(j) == PlaceScore(candidates[j], TRUE)
<1>1. /\ eligible(candidates) # {} /\ score(top) >= AutoAdopt
      /\ clear(candidates, top, TRUE) /\ ~generic
  BY DEF Adoption
<1>2. eligible(candidates) \in SUBSET DOMAIN candidates
  BY DEF eligible
<1>3. top \in eligible(candidates)
  BY <1>1, <1>2, BestIsBest DEF Top
<1> HIDE DEF top
<1>4. top \in DOMAIN candidates /\ ~hard_filtered(candidates[top])
  BY <1>3 DEF eligible
<1>5. Meant(candidates[top])
  <2> SUFFICES ASSUME ~Meant(candidates[top]) PROVE FALSE  OBVIOUS
  <2> DEFINE best == score(top)
  <2>1. best \in 0..80 /\ best >= AutoAdopt
    BY <1>1, <1>4, OtherInList
  <2> HIDE DEF best
  <2> QED  BY <2>1 DEF AutoAdopt
<1>6. score(top) \in 90..100 /\ (~(candidates[top].address \/ candidates[top].adcode) => score(top) = 90)
  <2> DEFINE x == candidates[top]
  <2>1. x \in Candidates  BY <1>4, ElementOfSeq
  <2>2. Meant(x)  BY <1>5
  <2> HIDE DEF x
  <2>3. /\ PlaceScore(x, TRUE) \in 90..100
        /\ ~(x.address \/ x.adcode) => PlaceScore(x, TRUE) = 90
    BY <2>1, <2>2, ScoreOfMeant
  <2> QED  BY <2>3 DEF x
<1>7. ASSUME NEW j \in others PROVE score(top) - score(j) >= Margin
  <2> DEFINE next == Best(candidates, others, TRUE)
  <2>1. next \in others /\ score(j) <= score(next)  BY <1>2, BestIsBest
  <2>2. RunnerUpScore(candidates, top, TRUE) = score(next)  BY DEF RunnerUpScore
  <2> HIDE DEF next
  <2>3. score(top) - score(next) >= Margin  BY <1>1, <2>2 DEF clear
  <2>4. score(j) \in 0..100 /\ score(next) \in 0..100  BY ScoresAreBounded
  <2> DEFINE best   == score(top)
             second == score(next)
             own    == score(j)
  <2>5. /\ best \in 90..100 /\ second \in 0..100 /\ own \in 0..100
        /\ own <= second /\ best - second >= Margin
    BY <1>6, <2>1, <2>3, <2>4
  <2> HIDE DEF best, second, own
  <2>6. best - own >= Margin  BY <2>5 DEF Margin
  <2> QED  BY <2>6 DEF best, own
<1>8. ASSUME NEW j \in DOMAIN candidates, Meant(candidates[j]) PROVE j = top
  <2> SUFFICES ASSUME j # top PROVE FALSE  OBVIOUS
  <2> DEFINE best == score(top)
             own  == score(j)
  <2>1. ~hard_filtered(candidates[j]) /\ own \in 90..100
    BY <1>8, MeantInList
  <2>2. j \in others  BY <2>1 DEF eligible
  <2>3. best - own >= Margin /\ best \in 90..100  BY <1>6, <1>7, <2>2
  <2> HIDE DEF best, own
  <2> QED  BY <2>1, <2>3 DEF Margin
<1>9. ASSUME NEW j \in DOMAIN candidates, AlmostMeant(candidates[j])
      PROVE  candidates[top].address \/ candidates[top].adcode
  <2> SUFFICES ASSUME ~(candidates[top].address \/ candidates[top].adcode) PROVE FALSE  OBVIOUS
  <2>1. ~Meant(candidates[j]) /\ ~hard_filtered(candidates[j])
    BY <1>9 DEF AlmostMeant, Meant, hard_filtered, Fragments
  <2> DEFINE best == score(top)
             own  == score(j)
  <2>2. own = 80  BY <1>9, <2>1, OtherInList
  <2>3. j \in others  BY <1>5, <2>1 DEF eligible
  <2>4. best - own >= Margin /\ best = 90  BY <1>6, <1>7, <2>3
  <2> HIDE DEF best, own
  <2> QED  BY <2>2, <2>4 DEF Margin
<1>10. top \in Unmistakable(candidates)
  BY <1>4, <1>5, <1>8, <1>9 DEF Unmistakable
<1> QED  BY <1>1, <1>10

LEMMA AnsweredContents == IInv => AdoptedIsUnambiguous
<1> SUFFICES ASSUME IInv,
                    NEW c \in { a \in AnsweredCalls : calls[a].payload.content # NoContent },
                    NEW generic \in BOOLEAN
             PROVE  LET candidates == calls[c].payload.content
                        decision   == Adoption(candidates, TRUE, generic)
                    IN  IF generic THEN decision.action # "auto_adopt"
                        ELSE /\ decision.action = "auto_adopt" <=> Unmistakable(candidates) # {}
                             /\ \A i \in Unmistakable(candidates) : decision.place = candidates[i]
  BY DEF AdoptedIsUnambiguous
<1> DEFINE candidates == calls[c].payload.content
<1>1. candidates \in Seq(Candidates)
  BY ContentsAssumption DEF IInv, CallsInv, AnsweredCalls, IsCall, IsAnswer, Payloads, FoundContents
<1> HIDE DEF candidates
<1>2. Adoption(candidates, TRUE, generic).action = "auto_adopt"
        => ~generic /\ Unmistakable(candidates) # {}
  BY <1>1, AdoptedIsUnmistakable
<1>3. ASSUME ~generic, NEW i \in Unmistakable(candidates)
      PROVE  /\ Adoption(candidates, TRUE, generic).action = "auto_adopt"
             /\ Adoption(candidates, TRUE, generic).place = candidates[i]
  BY <1>1, <1>3, UnmistakableIsAdopted
<1> QED  BY <1>2, <1>3 DEF candidates

\* Whatever a search returns, a place is adopted without asking exactly when it
\* cannot be mistaken for another one (poi_quality.py 170-273).
THEOREM OnlyClearPlacesAreAdopted == Spec => []AdoptedIsUnambiguous
BY FactsInvariance, AnsweredContents, PTL
-----------------------------------------------------------------------------
(* The places that enrichment wants: sorting assigns each of them a rank,   *)
(* and no two the same.                                                     *)

LEMMA WantedPlaces == Wanted \in Seq(DOMAIN KeyOf) /\ IsInjective(Wanted)
<1> DEFINE worth     == { i \in DOMAIN Visited : Priority[Visited[i]] < 2 }
           Before(i) == { j \in worth : \/ Priority[Visited[j]] < Priority[Visited[i]]
                                        \/ Priority[Visited[j]] = Priority[Visited[i]] /\ j < i }
           total     == Cardinality(worth)
           size      == IF total < MaxPlaces THEN total ELSE MaxPlaces
           rank      == [i \in worth |-> Cardinality(Before(i))]
           at(n)     == CHOOSE i \in worth : Cardinality(Before(i)) = n - 1
<1>1. \A i \in worth : i \in DOMAIN Visited /\ i \in Nat /\ Visited[i] \in DOMAIN KeyOf
                       /\ Priority[Visited[i]] \in Nat
  BY VisitedAssumption
<1>2. IsFiniteSet(worth) /\ total \in Nat
  <2>1. worth \in SUBSET (1..Len(Visited)) /\ Len(Visited) \in Int  BY VisitedAssumption
  <2>2. IsFiniteSet(1..Len(Visited))  BY <2>1, FS_Interval, 1 \in Int
  <2> HIDE DEF worth
  <2> QED  BY <2>1, <2>2, FS_Subset, FS_CardinalityType
<1>3. \A i, j \in worth : i # j => i \in Before(j) \/ j \in Before(i)
  BY <1>1
<1>4. \A i \in worth : Before(i) \in SUBSET worth /\ i \notin Before(i)
  BY <1>1
<1>5. \A i, j \in worth : i \in Before(j) => Before(i) \in SUBSET Before(j)
  BY <1>1
<1> HIDE DEF worth, Before
<1>6. \A i \in worth : IsFiniteSet(Before(i)) /\ Cardinality(Before(i)) \in 0..(total - 1)
  <2> SUFFICES ASSUME NEW i \in worth
               PROVE  IsFiniteSet(Before(i)) /\ Cardinality(Before(i)) \in 0..(total - 1)
    OBVIOUS
  <2>1. Before(i) \in SUBSET worth /\ Before(i) # worth  BY <1>4
  <2>2. IsFiniteSet(Before(i)) /\ Cardinality(Before(i)) <= total /\ Cardinality(Before(i)) # total
    BY <1>2, <2>1, FS_Subset
  <2> QED  BY <1>2, <2>2, FS_CardinalityType
<1>7. \A i, j \in worth : i # j => Cardinality(Before(i)) # Cardinality(Before(j))
  <2>1. ASSUME NEW i \in worth, NEW j \in worth, i \in Before(j)
        PROVE  Cardinality(Before(i)) # Cardinality(Before(j))
    <3>1. Before(i) \in SUBSET Before(j) /\ Before(i) # Before(j)  BY <1>4, <1>5, <2>1
    <3> QED  BY <1>6, <3>1, FS_Subset
  <2> QED  BY <1>3, <2>1
<1>8. rank \in Surjection(worth, 0..(total - 1))
  <2>1. rank \in Injection(worth, 0..(total - 1))
    BY <1>6, <1>7 DEF Injection, IsInjective
  <2>2. IsFiniteSet(0..(total - 1)) /\ Cardinality(0..(total - 1)) = total
    BY <1>2, FS_Interval, 0 \in Int, total - 1 \in Int
  <2> HIDE DEF rank
  <2> QED  BY <2>1, <2>2, FS_Injection
<1>9. size \in Nat /\ size <= total  BY <1>2, VisitedAssumption
<1>10. \A n \in 1..size : at(n) \in worth /\ Cardinality(Before(at(n))) = n - 1
  <2> SUFFICES ASSUME NEW n \in 1..size
               PROVE  \E i \in worth : Cardinality(Before(i)) = n - 1
    OBVIOUS
  <2>1. n - 1 \in 0..(total - 1)  BY <1>2, <1>9
  <2> QED  BY <1>8, <2>1 DEF Surjection
<1>11. Wanted = [n \in 1..size |-> Visited[at(n)]]
  BY DEF Wanted, worth, Before
<1> HIDE DEF size, at, rank
<1>12. \A n \in 1..size : Wanted[n] \in DOMAIN KeyOf  BY <1>1, <1>10, <1>11
<1>13. Wanted \in Seq(DOMAIN KeyOf)
  BY <1>9, <1>11, <1>12
<1>14. ASSUME NEW m \in 1..size, NEW n \in 1..size, Wanted[m] = Wanted[n]
       PROVE  m = n
  <2>1. at(m) \in DOMAIN Visited /\ at(n) \in DOMAIN Visited /\ Visited[at(m)] = Visited[at(n)]
    BY <1>1, <1>10, <1>11, <1>14
  <2>2. at(m) = at(n)  BY <2>1, VisitedAssumption DEF IsInjective
  <2> QED  BY <1>9, <1>10, <2>2
<1> QED  BY <1>11, <1>13, <1>14 DEF IsInjective
-----------------------------------------------------------------------------
(* The enrichment task.  EnrichInv is inductive together with IInv: it says *)
(* how far the places wanted have been dealt with, where the guide of each  *)
(* included place will come from, and what is cached of them.               *)

\* Guides that say something exactly when there is a source to say it from.
HonestGuides ==
  { g \in [place : DOMAIN KeyOf, found : Findings, text : {"model", "snippets", "none"}] :
      /\ g.found = "text" => g.text # "none"
      /\ g.text # "none" => g.found # "nothing" }

GuidesCached ==
  \A p \in DOMAIN KeyOf :
    LET e == store[KeyOf[p]]
    IN  e = Missing \/ (e.kept = TRUE /\ e.payload \in HonestGuides /\ e.payload.place = p)

JobFields == {"pc", "todo", "used", "pending", "output", "included"}

\* The places included are the first of those wanted; the others are still to do,
\* unless the budget is gone.
Progress(j) ==
  /\ j.used \in 0..MaxRequests
  /\ j.included \in Seq(DOMAIN KeyOf) /\ j.todo \in Seq(DOMAIN KeyOf)
  /\ Len(j.included) <= Len(Wanted)
  /\ \A i \in 1..Len(j.included) : j.included[i] = Wanted[i]
  /\ \/ j.todo = <<>> /\ j.used = MaxRequests
     \/ /\ Len(j.todo) = Len(Wanted) - Len(j.included)
        /\ \A i \in 1..Len(j.todo) : j.todo[i] = Wanted[Len(j.included) + i]

\* Each included place was searched for once, or its guide was cached.
Sources(j) ==
  /\ j.output \in Seq(HonestGuides)
  /\ j.pending \in Seq([place : DOMAIN KeyOf, found : Findings])
  /\ \A m, n \in DOMAIN j.pending : j.pending[m].place = j.pending[n].place => m = n
  /\ \A m \in DOMAIN j.pending : \E i \in DOMAIN j.included : j.pending[m].place = j.included[i]
  /\ \A i \in DOMAIN j.included :
       \/ \E n \in DOMAIN j.pending : j.pending[n].place = j.included[i]
       \/ \E n \in DOMAIN j.output : j.output[n].place = j.included[i]

IsJob(j) ==
  \/ j.pc = "off"
  \/ /\ j.pc \in {"looking", "searching"} /\ DOMAIN j = JobFields
     /\ Progress(j) /\ Sources(j)
     /\ j.pc = "searching" => j.todo # <<>>
  \/ /\ j.pc = "saving" /\ DOMAIN j = JobFields
     /\ Progress(j) /\ j.todo = <<>>
     /\ j.output \in Seq(HonestGuides)
     /\ [i \in DOMAIN j.output |-> j.output[i].place] = j.included

EnrichInv == GuidesCached /\ IsJob(job) /\ guides \in Seq(HonestGuides)

LEMMA InitEnrich == Init => EnrichInv
BY KeyAssumption DEF Init, EnrichInit, CacheInit, EnrichInv, GuidesCached, IsJob, Off

\* No call writes a guide.
LEMMA CallsKeepGuides ==
  ASSUME IInv, EnrichInv, CallStep, UNCHANGED enrichVars
  PROVE  EnrichInv'
<1>1. job' = job /\ guides' = guides  BY DEF enrichVars
<1>2. \A p \in DOMAIN KeyOf : store'[KeyOf[p]] = store[KeyOf[p]]
  <2>1. ASSUME NEW c \in Callers, Begin(c) PROVE store' = store
    BY <2>1 DEF Begin, cacheVars
  <2>2. ASSUME NEW c \in Callers, NEW failure \in Failures, Fail(c, failure) PROVE store' = store
    BY <2>2 DEF Fail, cacheVars
  <2>3. ASSUME NEW c \in Callers, Succeed(c), NEW p \in DOMAIN KeyOf
        PROVE  store'[KeyOf[p]] = store[KeyOf[p]]
    <3>1. calls[c].key \in FactKeys
      BY <2>3 DEF Succeed, IInv, CallsInv, IsCall, IsAttempt
    <3>2. PICK payload : Set(calls[c].key, payload)
      <4> DEFINE answers == { Fact("verified", x) : x \in IF calls[c].key \in WeatherKeys
                                                          THEN {NoContent} ELSE Contents }
                            \cup { Fact("unavailable", NoContent) :
                                     x \in {calls[c].key} \cap WeatherKeys }
      <4>1. \E payload \in answers : Set(calls[c].key, payload)  BY <2>3 DEF Succeed
      <4> HIDE DEF answers
      <4> QED  BY <4>1
    <3>3. KeyOf[p] # calls[c].key /\ KeyOf[p] \in DOMAIN store
      BY <3>1, KeyAssumption DEF IInv, StoreInv
    <3>4. store' = store \/ store' = [store EXCEPT ![calls[c].key] = Entry(calls[c].key, payload)]
      BY <3>2 DEF Set
    <3> QED  BY <3>3, <3>4
  <2> QED  BY <2>1, <2>2, <2>3 DEF CallStep
<1>3. GuidesCached'  BY <1>2 DEF EnrichInv, GuidesCached
<1> QED  BY <1>1, <1>3 DEF EnrichInv

LEMMA StartKeepsGuides ==
  ASSUME EnrichInv, StartEnrichment
  PROVE  EnrichInv'
<1>1. store' = store /\ guides' = guides /\ job' = Fresh
  BY DEF StartEnrichment, cacheVars
<1>2. DOMAIN Fresh = JobFields /\ Fresh.pc = "looking" /\ Fresh.todo = Wanted /\ Fresh.used = 0
      /\ Fresh.pending = <<>> /\ Fresh.output = <<>> /\ Fresh.included = <<>>
  BY DEF Fresh, JobFields
<1>3. Progress(Fresh)  BY <1>2, WantedPlaces, VisitedAssumption DEF Progress
<1>4. Sources(Fresh)  BY <1>2 DEF Sources
<1> QED  BY <1>1, <1>2, <1>3, <1>4 DEF EnrichInv, GuidesCached, IsJob

\* The next place is one of the places wanted, and has not been included before.
LEMMA HeadIsNext ==
  ASSUME NEW j, Progress(j), j.todo # <<>>
  PROVE  /\ Head(j.todo) \in DOMAIN KeyOf
         /\ Len(j.included) + 1 <= Len(Wanted)
         /\ Head(j.todo) = Wanted[Len(j.included) + 1]
         /\ \A i \in DOMAIN j.included : j.included[i] # Head(j.todo)
<1>1. /\ j.todo \in Seq(DOMAIN KeyOf) /\ Len(j.todo) \in Nat /\ Len(j.todo) # 0
      /\ Head(j.todo) = j.todo[1] /\ j.todo[1] \in DOMAIN KeyOf
  BY EmptySeq DEF Progress
<1>2. Wanted \in Seq(DOMAIN KeyOf) /\ Len(Wanted) \in Nat /\ DOMAIN Wanted = 1..Len(Wanted)
  BY WantedPlaces
<1>3. /\ Len(j.included) \in Nat /\ DOMAIN j.included = 1..Len(j.included)
      /\ Len(j.todo) = Len(Wanted) - Len(j.included)
      /\ j.todo[1] = Wanted[Len(j.included) + 1]
  <2>1. Len(j.included) \in Nat /\ DOMAIN j.included = 1..Len(j.included)
    BY LenProperties DEF Progress
  <2>2. /\ Len(j.todo) = Len(Wanted) - Len(j.included)
        /\ \A i \in 1..Len(j.todo) : j.todo[i] = Wanted[Len(j.included) + i]
    BY DEF Progress
  <2>3. 1 \in 1..Len(j.todo)  BY <1>1
  <2> QED  BY <2>1, <2>2, <2>3
<1>4. Len(j.included) + 1 \in DOMAIN Wanted  BY <1>1, <1>2, <1>3
<1>5. ASSUME NEW i \in DOMAIN j.included
      PROVE  j.included[i] # Head(j.todo)
  <2>1. j.included[i] = Wanted[i] /\ i \in DOMAIN Wanted /\ i # Len(j.included) + 1
    BY <1>2, <1>3, <1>4 DEF Progress
  <2> QED  BY <1>1, <1>3, <1>4, <2>1, WantedPlaces DEF IsInjective
<1> QED  BY <1>1, <1>2, <1>3, <1>4, <1>5

\* The job k has dealt with one place more than j.
Includes(j, k) ==
  /\ k.used = j.used
  /\ k.included = Append(j.included, Head(j.todo)) /\ k.todo = Tail(j.todo)

LEMMA ProgressGoesOn ==
  ASSUME NEW j, Progress(j), j.todo # <<>>, NEW k, Includes(j, k)
  PROVE  Progress(k)
<1> DEFINE p == Head(j.todo)
<1> PICK n : n = Len(j.included)  OBVIOUS
<1>1. /\ p \in DOMAIN KeyOf /\ n + 1 <= Len(Wanted) /\ p = Wanted[n + 1]
      /\ Len(Wanted) \in Nat /\ n \in Nat /\ j.included \in Seq(DOMAIN KeyOf)
      /\ j.todo \in Seq(DOMAIN KeyOf)
  <2>1. j.included \in Seq(DOMAIN KeyOf) /\ j.todo \in Seq(DOMAIN KeyOf)  BY DEF Progress
  <2>2. n \in Nat /\ Len(Wanted) \in Nat  BY <2>1, WantedPlaces, LenProperties
  <2> QED  BY <2>1, <2>2, HeadIsNext
<1>2. /\ k.included \in Seq(DOMAIN KeyOf) /\ Len(k.included) = n + 1
      /\ \A i \in 1..n : k.included[i] = j.included[i]
      /\ k.included[n + 1] = p
  <2>1. k.included = Append(j.included, p)  BY DEF Includes
  <2> HIDE DEF p
  <2> QED  BY <1>1, <2>1, AppendProperties
<1>3. /\ k.todo \in Seq(DOMAIN KeyOf) /\ Len(k.todo) = Len(j.todo) - 1 /\ Len(j.todo) \in Nat
      /\ \A i \in 1..Len(k.todo) : k.todo[i] = j.todo[i + 1]
  <2>1. Len(j.todo) \in Nat /\ Len(j.todo) # 0  BY <1>1, EmptySeq, LenProperties
  <2>2. /\ Tail(j.todo) \in Seq(DOMAIN KeyOf) /\ Len(Tail(j.todo)) = Len(j.todo) - 1
        /\ \A i \in 1..Len(Tail(j.todo)) : Tail(j.todo)[i] = j.todo[i + 1]
    BY <1>1, HeadTailProperties
  <2>3. k.todo = Tail(j.todo)  BY DEF Includes
  <2> QED  BY <2>1, <2>2, <2>3
<1>4. Len(j.todo) = Len(Wanted) - n /\ \A i \in 1..Len(j.todo) : j.todo[i] = Wanted[n + i]
  BY DEF Progress
<1>5. \A i \in 1..Len(k.included) : k.included[i] = Wanted[i]
  BY <1>1, <1>2 DEF Progress
<1> HIDE DEF p
<1>6. ASSUME NEW i \in 1..Len(k.todo)
      PROVE  k.todo[i] = Wanted[Len(k.included) + i]
  <2>1. i \in Nat /\ i + 1 \in 1..Len(j.todo)  BY <1>3
  <2>2. k.todo[i] = j.todo[i + 1]  BY <1>3
  <2>3. j.todo[i + 1] = Wanted[n + (i + 1)]  BY <1>4, <2>1
  <2>4. n + (i + 1) = (n + 1) + i
    <3>1. n \in Nat /\ i \in Nat  BY <1>1, <2>1
    <3>2. \A x, y \in Nat : x + (y + 1) = (x + 1) + y  OBVIOUS
    <3> QED  BY <3>1, <3>2
  <2> QED  BY <1>2, <2>2, <2>3, <2>4
<1>7. Len(k.todo) = Len(Wanted) - Len(k.included) /\ Len(k.included) <= Len(Wanted)
  BY <1>1, <1>2, <1>3, <1>4
<1>8. k.used \in 0..MaxRequests  BY DEF Includes, Progress
<1> QED  BY <1>2, <1>3, <1>5, <1>6, <1>7, <1>8 DEF Progress

\* The next place got its guide from the cache ...
LEMMA CachedGuidesGoOn ==
  ASSUME NEW j, Progress(j), Sources(j), j.todo # <<>>, NEW k, Includes(j, k),
         NEW g \in HonestGuides, g.place = Head(j.todo),
         k.pending = j.pending, k.output = Append(j.output, g)
  PROVE  Sources(k)
<1> DEFINE n == Len(j.included)
           p == Head(j.todo)
<1>1. j.included \in Seq(DOMAIN KeyOf) /\ n \in Nat /\ DOMAIN j.included = 1..n /\ p \in DOMAIN KeyOf
  BY HeadIsNext, LenProperties DEF Progress
<1>2. k.included = Append(j.included, p)  BY DEF Includes
<1> HIDE DEF p
<1>3. /\ DOMAIN k.included = 1..(n + 1) /\ k.included[n + 1] = p
      /\ \A i \in 1..n : k.included[i] = j.included[i]
  BY <1>1, <1>2, AppendProperties
<1>4. /\ k.output \in Seq(HonestGuides) /\ DOMAIN k.output = 1..(Len(j.output) + 1)
      /\ Len(j.output) \in Nat /\ DOMAIN j.output = 1..Len(j.output)
      /\ k.output[Len(j.output) + 1] = g
      /\ \A i \in 1..Len(j.output) : k.output[i] = j.output[i]
  <2>1. j.output \in Seq(HonestGuides)  BY DEF Sources
  <2> QED  BY <2>1, AppendProperties, LenProperties
<1> HIDE DEF n
<1>5. \A m \in DOMAIN k.pending : \E i \in DOMAIN k.included : k.pending[m].place = k.included[i]
  <2> SUFFICES ASSUME NEW m \in DOMAIN k.pending
               PROVE  \E i \in DOMAIN k.included : k.pending[m].place = k.included[i]
    OBVIOUS
  <2>1. PICK i \in 1..n : j.pending[m].place = j.included[i]  BY <1>1 DEF Sources
  <2>2. i \in 1..(n + 1) /\ k.included[i] = j.included[i]  BY <1>1, <1>3
  <2> QED  BY <1>3, <2>1, <2>2
<1>6. ASSUME NEW i \in DOMAIN k.included
      PROVE  \/ \E m \in DOMAIN k.pending : k.pending[m].place = k.included[i]
             \/ \E m \in DOMAIN k.output : k.output[m].place = k.included[i]
  <2>1. CASE i = n + 1
    <3>1. Len(j.output) + 1 \in DOMAIN k.output /\ k.output[Len(j.output) + 1].place = k.included[i]
      BY <1>3, <1>4, <2>1 DEF p
    <3> QED  BY <3>1
  <2>2. CASE i # n + 1
    <3>1. i \in DOMAIN j.included /\ k.included[i] = j.included[i]  BY <1>1, <1>3, <2>2
    <3>2. CASE \E m \in DOMAIN j.pending : j.pending[m].place = j.included[i]
      BY <3>1, <3>2
    <3>3. CASE \E m \in DOMAIN j.output : j.output[m].place = j.included[i]
      <4>1. PICK m \in DOMAIN j.output : j.output[m].place = j.included[i]  BY <3>3
      <4>2. m \in DOMAIN k.output /\ k.output[m] = j.output[m]  BY <1>4
      <4> QED  BY <3>1, <4>1, <4>2
    <3> QED  BY <3>1, <3>2, <3>3 DEF Sources
  <2> QED  BY <2>1, <2>2
<1>7. /\ k.pending \in Seq([place : DOMAIN KeyOf, found : Findings])
      /\ \A m, o \in DOMAIN k.pending : k.pending[m].place = k.pending[o].place => m = o
  BY DEF Sources
<1> QED  BY <1>4, <1>5, <1>6, <1>7 DEF Sources

\* ... or from a search, its first.
LEMMA SearchesGoOn ==
  ASSUME NEW j, Progress(j), Sources(j), j.todo # <<>>, NEW k, Includes(j, k),
         NEW found \in Findings, k.output = j.output,
         k.pending = Append(j.pending, [place |-> Head(j.todo), found |-> found])
  PROVE  Sources(k)
<1> DEFINE n == Len(j.included)
           p == Head(j.todo)
           result == [place |-> p, found |-> found]
           results == [place : DOMAIN KeyOf, found : Findings]
<1>1. /\ j.included \in Seq(DOMAIN KeyOf) /\ n \in Nat /\ DOMAIN j.included = 1..n /\ p \in DOMAIN KeyOf
      /\ \A i \in DOMAIN j.included : j.included[i] # p
  BY HeadIsNext, LenProperties DEF Progress
<1>2. k.included = Append(j.included, p)  BY DEF Includes
<1>3. result \in results /\ result.place = p  BY <1>1
<1> HIDE DEF p
<1>4. /\ DOMAIN k.included = 1..(n + 1) /\ k.included[n + 1] = p
      /\ \A i \in 1..n : k.included[i] = j.included[i]
  BY <1>1, <1>2, AppendProperties
<1>5. j.pending \in Seq(results) /\ k.pending = Append(j.pending, result)
  BY DEF Sources, p
<1> HIDE DEF result, results
<1> DEFINE l == Len(j.pending)
<1>6. /\ k.pending \in Seq(results) /\ DOMAIN k.pending = 1..(l + 1) /\ l \in Nat
      /\ DOMAIN j.pending = 1..l /\ k.pending[l + 1] = result
      /\ \A i \in 1..l : k.pending[i] = j.pending[i]
  BY <1>3, <1>5, AppendProperties, LenProperties
<1> HIDE DEF n, l
<1>7. \A m \in 1..l : \E i \in 1..n : j.pending[m].place = j.included[i]
  <2>1. \A m \in DOMAIN j.pending : \E i \in DOMAIN j.included : j.pending[m].place = j.included[i]
    BY DEF Sources
  <2> QED  BY <1>1, <1>6, <2>1
<1>8. \A m \in DOMAIN k.pending : \E i \in DOMAIN k.included : k.pending[m].place = k.included[i]
  <2> SUFFICES ASSUME NEW m \in DOMAIN k.pending
               PROVE  \E i \in DOMAIN k.included : k.pending[m].place = k.included[i]
    OBVIOUS
  <2>1. CASE m = l + 1
    <3>1. n + 1 \in DOMAIN k.included  BY <1>1, <1>4
    <3> QED  BY <1>3, <1>4, <1>6, <2>1, <3>1
  <2>2. CASE m # l + 1
    <3>1. m \in 1..l /\ k.pending[m] = j.pending[m]  BY <1>6, <2>2
    <3>2. PICK i \in 1..n : j.pending[m].place = j.included[i]  BY <1>7, <3>1
    <3>3. i \in DOMAIN k.included /\ k.included[i] = j.included[i]  BY <1>1, <1>4
    <3> QED  BY <3>1, <3>2, <3>3
  <2> QED  BY <2>1, <2>2
<1>9. \A m \in 1..l : k.pending[m].place # p
  BY <1>1, <1>6, <1>7
<1>10. \A m, o \in DOMAIN k.pending : k.pending[m].place = k.pending[o].place => m = o
  <2> SUFFICES ASSUME NEW m \in 1..(l + 1), NEW o \in 1..(l + 1),
                      k.pending[m].place = k.pending[o].place
               PROVE  m = o
    BY <1>6
  <2>1. CASE m \in 1..l /\ o \in 1..l
    BY <1>6, <2>1 DEF Sources
  <2>2. CASE m = l + 1 \/ o = l + 1
    <3>1. m = l + 1 => o \notin 1..l  BY <1>3, <1>6, <1>9
    <3>2. o = l + 1 => m \notin 1..l  BY <1>3, <1>6, <1>9
    <3> QED  BY <1>6, <2>2, <3>1, <3>2
  <2> QED  BY <1>6, <2>1, <2>2
<1>11. ASSUME NEW i \in DOMAIN k.included
       PROVE  \/ \E m \in DOMAIN k.pending : k.pending[m].place = k.included[i]
              \/ \E m \in DOMAIN k.output : k.output[m].place = k.included[i]
  <2>1. CASE i = n + 1
    <3>1. l + 1 \in DOMAIN k.pending  BY <1>6
    <3> QED  BY <1>3, <1>4, <1>6, <2>1, <3>1
  <2>2. CASE i # n + 1
    <3>1. i \in DOMAIN j.included /\ k.included[i] = j.included[i]  BY <1>1, <1>4, <2>2
    <3>2. CASE \E m \in DOMAIN j.pending : j.pending[m].place = j.included[i]
      <4>1. PICK m \in DOMAIN j.pending : j.pending[m].place = j.included[i]  BY <3>2
      <4>2. m \in DOMAIN k.pending /\ k.pending[m] = j.pending[m]  BY <1>6
      <4> QED  BY <3>1, <4>1, <4>2
    <3>3. CASE \E m \in DOMAIN j.output : j.output[m].place = j.included[i]
      BY <3>1, <3>3
    <3> QED  BY <3>1, <3>2, <3>3 DEF Sources
  <2> QED  BY <2>1, <2>2
<1>12. k.output \in Seq(HonestGuides)  BY DEF Sources
<1> QED  BY <1>6, <1>8, <1>10, <1>11, <1>12 DEF Sources, results

\* What a lookup finds under the key of a place is the place's guide.
LEMMA LookupGuides ==
  ASSUME EnrichInv, NEW p \in DOMAIN KeyOf, NEW hit \in Lookups(KeyOf[p]), is_fresh(hit)
  PROVE  hit.payload \in HonestGuides /\ hit.payload.place = p
BY DEF Lookups, is_fresh, Missing, EnrichInv, GuidesCached

LEMMA NextKeepsGuides ==
  ASSUME EnrichInv, NextPlace
  PROVE  EnrichInv'
<1>1. /\ store' = store /\ guides' = guides /\ job.pc = "looking" /\ job.todo # <<>>
      /\ DOMAIN job = JobFields /\ Progress(job) /\ Sources(job)
  BY DEF NextPlace, cacheVars, EnrichInv, IsJob
<1>2. Head(job.todo) \in DOMAIN KeyOf  BY <1>1, HeadIsNext
<1> DEFINE p == Head(job.todo)
<1>3. PICK hit \in Lookups(KeyOf[p]) :
        \/ /\ is_fresh(hit)
           /\ job' = [job EXCEPT !.todo = Tail(@), !.included = Append(@, p),
                                 !.output = Append(@, hit.payload)]
        \/ /\ ~is_fresh(hit) /\ ~Affordable
           /\ job' = [job EXCEPT !.todo = <<>>]
        \/ /\ ~is_fresh(hit) /\ Affordable
           /\ job' = [job EXCEPT !.pc = "searching", !.used = @ + 1]
  BY DEF NextPlace
<1>4. IsJob(job')
  <2>1. CASE is_fresh(hit) /\ job' = [job EXCEPT !.todo = Tail(@), !.included = Append(@, p),
                                                 !.output = Append(@, hit.payload)]
    <3>1. /\ DOMAIN job' = JobFields /\ job'.pc = "looking" /\ job'.used = job.used
          /\ job'.todo = Tail(job.todo) /\ job'.included = Append(job.included, p)
          /\ job'.output = Append(job.output, hit.payload) /\ job'.pending = job.pending
      BY <1>1, <2>1 DEF JobFields
    <3>2. Includes(job, job')  BY <3>1 DEF Includes
    <3>3. Progress(job')  BY <1>1, <3>2, ProgressGoesOn
    <3>4. hit.payload \in HonestGuides /\ hit.payload.place = p  BY <1>2, <2>1, LookupGuides
    <3>5. Sources(job')  BY <1>1, <3>1, <3>2, <3>4, CachedGuidesGoOn
    <3> QED  BY <3>1, <3>3, <3>5 DEF IsJob
  <2>2. CASE ~Affordable /\ job' = [job EXCEPT !.todo = <<>>]
    <3>1. /\ DOMAIN job' = JobFields /\ job'.pc = "looking" /\ job'.used = job.used
          /\ job'.todo = <<>> /\ job'.included = job.included
          /\ job'.output = job.output /\ job'.pending = job.pending
      BY <1>1, <2>2 DEF JobFields
    <3>2. job.used \in 0..MaxRequests /\ ~(job.used < MaxRequests)
      BY <1>1, <2>2 DEF Affordable, Progress
    <3>3. job'.used = MaxRequests  BY <3>1, <3>2, VisitedAssumption
    <3>4. Progress(job')  BY <1>1, <3>1, <3>3 DEF Progress
    <3>5. Sources(job')  BY <1>1, <3>1 DEF Sources
    <3> QED  BY <3>1, <3>4, <3>5 DEF IsJob
  <2>3. CASE Affordable /\ job' = [job EXCEPT !.pc = "searching", !.used = @ + 1]
    <3>1. /\ DOMAIN job' = JobFields /\ job'.pc = "searching" /\ job'.used = job.used + 1
          /\ job'.todo = job.todo /\ job'.included = job.included
          /\ job'.output = job.output /\ job'.pending = job.pending
      BY <1>1, <2>3 DEF JobFields
    <3>2. job.used \in 0..MaxRequests /\ job.used < MaxRequests
      BY <1>1, <2>3 DEF Affordable, Progress
    <3>3. job'.used \in 0..MaxRequests  BY <3>1, <3>2, VisitedAssumption
    <3>4. Progress(job')  BY <1>1, <3>1, <3>2, <3>3 DEF Progress
    <3>5. Sources(job')  BY <1>1, <3>1 DEF Sources
    <3> QED  BY <1>1, <3>1, <3>4, <3>5 DEF IsJob
  <2> QED  BY <1>3, <2>1, <2>2, <2>3
<1> QED  BY <1>1, <1>4 DEF EnrichInv, GuidesCached

LEMMA ReturnKeepsGuides ==
  ASSUME EnrichInv, SearchReturns
  PROVE  EnrichInv'
<1>1. /\ store' = store /\ guides' = guides /\ job.pc = "searching" /\ job.todo # <<>>
      /\ DOMAIN job = JobFields /\ Progress(job) /\ Sources(job)
  BY DEF SearchReturns, cacheVars, EnrichInv, IsJob
<1>2. PICK found \in Findings :
        job' = [job EXCEPT !.pc = "looking", !.todo = Tail(@), !.included = Append(@, Head(job.todo)),
                           !.pending = Append(@, [place |-> Head(job.todo), found |-> found])]
  BY DEF SearchReturns
<1>3. /\ DOMAIN job' = JobFields /\ job'.pc = "looking" /\ job'.used = job.used
      /\ job'.todo = Tail(job.todo) /\ job'.included = Append(job.included, Head(job.todo))
      /\ job'.pending = Append(job.pending, [place |-> Head(job.todo), found |-> found])
      /\ job'.output = job.output
  BY <1>1, <1>2 DEF JobFields
<1>4. Includes(job, job')  BY <1>3 DEF Includes
<1>5. Progress(job')  BY <1>1, <1>4, ProgressGoesOn
<1>6. Sources(job')  BY <1>1, <1>3, <1>4, SearchesGoOn
<1>7. IsJob(job')  BY <1>3, <1>5, <1>6 DEF IsJob
<1> QED  BY <1>1, <1>7 DEF EnrichInv, GuidesCached

LEMMA SummariseKeepsGuides ==
  ASSUME EnrichInv, Summarise
  PROVE  EnrichInv'
<1> DEFINE results == ToSet(job.pending)
<1>1. /\ guides' = guides /\ job.pc = "looking" /\ job.todo = <<>>
      /\ DOMAIN job = JobFields /\ Progress(job) /\ Sources(job)
  BY DEF Summarise, EnrichInv, IsJob
<1>2. /\ results \in SUBSET [place : DOMAIN KeyOf, found : Findings]
      /\ \A x, y \in results : x.place = y.place => x = y
  <2>1. job.pending \in Seq([place : DOMAIN KeyOf, found : Findings])  BY <1>1 DEF Sources
  <2> DEFINE type == [place : DOMAIN KeyOf, found : Findings]
  <2>2. \A m \in DOMAIN job.pending : job.pending[m] \in type
    <3> HIDE DEF type
    <3>1. job.pending \in Seq(type)  BY <2>1 DEF type
    <3> QED  BY <3>1, ElementOfSeq, LenProperties
  <2> QED  BY <1>1, <2>2 DEF Sources, ToSet
<1>3. PICK generated \in SUBSET { x.place : x \in { y \in results : y.found # "nothing" } } :
        LET made == { Guide(x.place, x.found, x.place \in generated) : x \in results }
        IN  /\ job' = [job EXCEPT !.pc = "saving",
                                  !.output = InOrder(job.included, ToSet(job.output) \cup made)]
            /\ \E cached \in SUBSET made :
                 store' = [k \in Keys |->
                   IF \E g \in cached : g.place \in PlacesOf(k)
                   THEN Entry(k, CHOOSE g \in cached : g.place \in PlacesOf(k)) ELSE store[k]]
  BY DEF Summarise
<1> DEFINE made == { Guide(x.place, x.found, x.place \in generated) : x \in results }
           all  == ToSet(job.output) \cup made
<1>4. made \in SUBSET HonestGuides
  <2> SUFFICES ASSUME NEW x \in results
               PROVE  Guide(x.place, x.found, x.place \in generated) \in HonestGuides
    OBVIOUS
  <2> DEFINE g == Guide(x.place, x.found, x.place \in generated)
  <2>1. x.place \in DOMAIN KeyOf /\ x.found \in Findings  BY <1>2
  <2>2. x.place \in generated => x.found # "nothing"
    BY <1>2, <1>3
  <2>3. g.place = x.place /\ g.found = x.found /\ g.text = GuideText(x.found, x.place \in generated)
        /\ g \in [place : DOMAIN KeyOf, found : Findings, text : {"model", "snippets", "none"}]
    BY <2>1 DEF Guide, GuideText
  <2>4. /\ x.place \in generated => g.text = "model"
        /\ x.place \notin generated => g.text = IF x.found = "text" THEN "snippets" ELSE "none"
    BY <2>3 DEF GuideText
  <2> HIDE DEF g
  <2>5. (g.found = "text" => g.text # "none") /\ (g.text # "none" => g.found # "nothing")
    BY <2>2, <2>3, <2>4
  <2> QED  BY <2>3, <2>5 DEF HonestGuides, g
<1>5. \A x \in results : \E g \in made : g.place = x.place
  <2> SUFFICES ASSUME NEW x \in results PROVE \E g \in made : g.place = x.place
    OBVIOUS
  <2>1. Guide(x.place, x.found, x.place \in generated).place = x.place  BY DEF Guide
  <2>2. Guide(x.place, x.found, x.place \in generated) \in made  OBVIOUS
  <2> QED  BY <2>1, <2>2
<1>6. ToSet(job.output) \in SUBSET HonestGuides
  <2>1. job.output \in Seq(HonestGuides)  BY <1>1 DEF Sources
  <2> QED  BY <2>1, ElementOfSeq DEF ToSet
<1>7. \A i \in DOMAIN job.included : \E g \in all : g.place = job.included[i]
  <2> SUFFICES ASSUME NEW i \in DOMAIN job.included
               PROVE  \E g \in all : g.place = job.included[i]
    OBVIOUS
  <2>1. CASE \E n \in DOMAIN job.pending : job.pending[n].place = job.included[i]
    <3>1. PICK x \in results : x.place = job.included[i]  BY <2>1 DEF ToSet
    <3> QED  BY <1>5, <3>1
  <2>2. CASE \E n \in DOMAIN job.output : job.output[n].place = job.included[i]
    BY <2>2 DEF ToSet
  <2> QED  BY <1>1, <2>1, <2>2 DEF Sources
<1> HIDE DEF made, all, results
<1>8. /\ DOMAIN job' = JobFields /\ job'.pc = "saving" /\ job'.used = job.used /\ job'.todo = job.todo
      /\ job'.included = job.included /\ job'.output = InOrder(job.included, all)
  <2>1. job' = [job EXCEPT !.pc = "saving", !.output = InOrder(job.included, all)]
    BY <1>3 DEF all, made
  <2> QED  BY <1>1, <2>1 DEF JobFields
<1>9. \A i \in DOMAIN job.included : /\ InOrder(job.included, all)[i] \in HonestGuides
                                    /\ InOrder(job.included, all)[i].place = job.included[i]
  <2>1. all \in SUBSET HonestGuides  BY <1>4, <1>6 DEF all
  <2> QED  BY <1>7, <2>1 DEF InOrder
<1>10. job.included \in Seq(DOMAIN KeyOf) /\ Len(job.included) \in Nat
       /\ DOMAIN job.included = 1..Len(job.included)
       /\ DOMAIN InOrder(job.included, all) = DOMAIN job.included
  BY <1>1, LenProperties DEF Progress, InOrder
<1>11. InOrder(job.included, all) \in Seq(HonestGuides)
  <2> DEFINE guide(i) == CHOOSE g \in all : g.place = job.included[i]
             n == Len(job.included)
  <2>1. InOrder(job.included, all) = [i \in 1..n |-> guide(i)]  BY <1>10 DEF InOrder
  <2> HIDE DEF guide, n
  <2>2. n \in Nat /\ \A i \in 1..n : guide(i) \in HonestGuides  BY <1>9, <1>10, <2>1 DEF n
  <2> QED  BY <2>1, <2>2
<1>12. [i \in DOMAIN job'.output |-> job'.output[i].place] = job'.included
  <2>1. job.included = [i \in DOMAIN job.included |-> job.included[i]]
    BY <1>10
  <2> QED  BY <1>8, <1>9, <1>10, <2>1
<1>13. Progress(job')  BY <1>1, <1>8 DEF Progress
<1>14. IsJob(job')  BY <1>1, <1>8, <1>11, <1>12, <1>13 DEF IsJob
<1>15. GuidesCached'
  <2> SUFFICES ASSUME NEW p \in DOMAIN KeyOf
               PROVE  LET e == store'[KeyOf[p]]
                      IN  \/ e = Missing
                          \/ e.kept = TRUE /\ e.payload \in HonestGuides /\ e.payload.place = p
    BY DEF GuidesCached
  <2> DEFINE k == KeyOf[p]
  <2>1. PICK cached \in SUBSET made :
          store' = [l \in Keys |->
             IF \E g \in cached : g.place \in PlacesOf(l)
             THEN Entry(l, CHOOSE g \in cached : g.place \in PlacesOf(l)) ELSE store[l]]
    BY <1>3 DEF made
  <2>2. k \in Keys  BY KeyAssumption
  <2>3. \A q \in PlacesOf(k) : q = p  BY VisitedAssumption DEF PlacesOf
  <2> HIDE DEF k
  <2>4. CASE \E g \in cached : g.place \in PlacesOf(k)
    <3> DEFINE g == CHOOSE g \in cached : g.place \in PlacesOf(k)
    <3>1. g \in made /\ g.place \in PlacesOf(k)  BY <2>1, <2>4
    <3>2. store'[k] = Entry(k, g)  BY <2>1, <2>2, <2>4
    <3> HIDE DEF g
    <3> QED  BY <1>4, <2>3, <3>1, <3>2 DEF Entry, k
  <2>5. CASE ~\E g \in cached : g.place \in PlacesOf(k)
    <3>1. store'[k] = store[k]  BY <2>1, <2>2, <2>5
    <3> QED  BY <3>1 DEF EnrichInv, GuidesCached, k
  <2> QED  BY <2>4, <2>5
<1> QED  BY <1>1, <1>14, <1>15 DEF EnrichInv

LEMMA SaveKeepsGuides ==
  ASSUME EnrichInv, SaveGuides
  PROVE  EnrichInv'
<1>1. /\ store' = store /\ job.pc = "saving" /\ DOMAIN job = JobFields
      /\ job.output \in Seq(HonestGuides) /\ guides \in Seq(HonestGuides)
  BY DEF SaveGuides, cacheVars, EnrichInv, IsJob
<1>2. guides' \in Seq(HonestGuides)  BY <1>1 DEF SaveGuides
<1>3. job'.pc = "off"  BY <1>1 DEF SaveGuides, JobFields
<1>4. IsJob(job')  BY <1>3 DEF IsJob
<1> QED  BY <1>1, <1>2, <1>4 DEF EnrichInv, GuidesCached

LEMMA NextEnrich == IInv /\ EnrichInv /\ [Next]_vars => EnrichInv'
<1> SUFFICES ASSUME IInv, EnrichInv, [Next]_vars PROVE EnrichInv'
  OBVIOUS
<1>1. CASE UNCHANGED <<store, job, guides>>
  BY <1>1 DEF EnrichInv, GuidesCached
<1>2. CASE Tick \/ UNCHANGED vars
  BY <1>1, <1>2 DEF Tick, vars, cacheVars, enrichVars
<1>3. CASE CallStep /\ UNCHANGED enrichVars  BY <1>3, CallsKeepGuides
<1>4. CASE SearchFails
  <2>1. job'.pc = "off" /\ store' = store /\ guides' = guides
    BY <1>4 DEF SearchFails, Off, cacheVars
  <2> QED  BY <2>1 DEF EnrichInv, GuidesCached, IsJob
<1>5. CASE EnrichStep
  BY <1>4, <1>5, StartKeepsGuides, NextKeepsGuides, ReturnKeepsGuides, SummariseKeepsGuides,
     SaveKeepsGuides DEF EnrichStep
<1> QED  BY <1>2, <1>3, <1>5 DEF Next

\* Every reachable state satisfies the second inductive invariant: a task has dealt
\* with the first of the places wanted, has a source for each, and what is cached
\* under the key of a place is an honest guide to it (service.py 138-218).
THEOREM EnrichmentInvariance == Spec => []EnrichInv
BY InitEnrich, FactsInvariance, NextEnrich, PTL DEF Spec

LEMMA BudgetFollows == EnrichInv => BudgetIsSpentInOrder
<1> SUFFICES ASSUME EnrichInv, job.pc \in {"looking", "searching", "saving"}
             PROVE  /\ job.used <= MaxRequests
                    /\ IsPrefix(job.included, Wanted)
                    /\ job.pc = "saving" =>
                         /\ [i \in DOMAIN job.output |-> job.output[i].place] = job.included
                         /\ job.included = Wanted \/ job.used = MaxRequests
  BY DEF BudgetIsSpentInOrder
<1> DEFINE n == Len(job.included)
           l == Len(Wanted)
<1>1. Progress(job)  BY DEF EnrichInv, IsJob
<1>2. /\ job.included \in Seq(DOMAIN KeyOf) /\ Wanted \in Seq(DOMAIN KeyOf)
      /\ n \in Nat /\ l \in Nat /\ n <= l
      /\ DOMAIN job.included = 1..n /\ DOMAIN Wanted = 1..l
      /\ \A i \in 1..n : job.included[i] = Wanted[i]
  BY <1>1, WantedPlaces, LenProperties DEF Progress
<1>3. IsPrefix(job.included, Wanted)
  <2>1. SubSeq(job.included, 1, n) = [i \in 1..n |-> job.included[i]]
        /\ SubSeq(Wanted, 1, n) = [i \in 1..n |-> Wanted[i]]
    BY <1>2
  <2> QED  BY <1>2, <2>1 DEF IsPrefix
<1>4. ASSUME job.pc = "saving", job.used # MaxRequests
      PROVE  job.included = Wanted
  <2>1. job.todo = <<>>  BY <1>4 DEF EnrichInv, IsJob
  <2>2. Len(job.todo) = l - n  BY <1>1, <1>4 DEF Progress
  <2>3. n = l  BY <1>2, <2>1, <2>2
  <2> QED  BY <1>2, <2>3, SeqEqual
<1>5. job.used <= MaxRequests  BY <1>1, VisitedAssumption DEF Progress
<1>6. job.pc = "saving" => [i \in DOMAIN job.output |-> job.output[i].place] = job.included
  BY DEF EnrichInv, IsJob
<1> QED  BY <1>3, <1>4, <1>5, <1>6

LEMMA GuidesFollow == EnrichInv => ResultsGiveGuides
<1>1. EnrichInv => \A g \in ToSet(guides) : g \in HonestGuides
  BY ElementOfSeq DEF EnrichInv, ToSet
<1> QED  BY <1>1 DEF ResultsGiveGuides, HonestGuides

\* However large the budget and however many places there are, the searches go to
\* the most important ones, in their order, and stop only when all are dealt with or
\* the budget is spent (service.py 28-32, 150-190).
THEOREM BudgetGoesToTheImportant == Spec => []BudgetIsSpentInOrder
BY EnrichmentInvariance, BudgetFollows, PTL

\* A place of which something was found has a guide, and none has an invented one
\* (service.py 192-218, 283-304).
THEOREM GuidesAreHonest == Spec => []ResultsGiveGuides
BY EnrichmentInvariance, GuidesFollow, PTL
=============================================================================
