---------------------------- MODULE ProviderCalls ----------------------------
(***************************************************************************)
(* Asking a map or weather provider for a fact (providers/http.py,         *)
(* amap.py, qweather.py): a fresh cached answer is used as it is; else the *)
(* provider is asked, a transient failure is retried, and when the retries *)
(* are spent a cached answer that was still there at the start is served,  *)
(* marked stale.                                                           *)
(*                                                                         *)
(* An attempt takes some of the clock's units, up to its timeout. A        *)
(* payload is the time it was fetched, its status and, for a place search, *)
(* the candidates.                                                         *)
(***************************************************************************)
EXTENDS ProviderCache, PlaceGate

CONSTANTS
  Callers,        \* threads that need a fact
  FactKeys,       \* the cache keys of the facts
  WeatherKeys,    \* those of weather facts, which may be unavailable for a location
  Contents,       \* what a place search may return
  MaxAttempts,    \* provider_max_attempts
  Timeout,        \* how long an attempt may take, its backoff included
  NoContent

ASSUME CallAssumption ==
  /\ WeatherKeys \subseteq FactKeys /\ FactKeys \subseteq Keys
  /\ MaxAttempts \in Nat \ {0} /\ Timeout \in Nat

ASSUME ContentsAssumption == \A candidates \in Contents : candidates \in Seq(Candidates)

VARIABLES
  calls,          \* the call of each caller
  callsLeft       \* bound: how many calls are still made

callVars == <<calls, callsLeft>>

Quiet == [pc |-> "idle"]
Transient == {"unavailable", "rate_limited"}

\* How an attempt can fail: "refused" stands for authentication and bad responses.
Failures == Transient \cup {"refused", "not_found"}

Fact(status, content) == [status |-> status, fetched |-> now, content |-> content]

\* with_stale_status, with_stale_collection.
with_stale_status(payload) == [payload EXCEPT !.status = "stale"]

CallsInit == calls = [c \in Callers |-> Quiet]

\* "seen" keeps how the attempts went; the properties use it.
Answered(c, key, payload, seen, begun) ==
  calls' = [calls EXCEPT ![c] = [pc |-> "answered", key |-> key, payload |-> payload,
                                 seen |-> seen, begun |-> begun, at |-> now]]

\* The cache is looked up before anything is asked.
Begin(c) ==
  /\ calls[c].pc # "attempting" /\ callsLeft > 0
  /\ callsLeft' = callsLeft - 1
  /\ \E k \in FactKeys : \E hit \in Lookups(k) :
       IF is_fresh(hit) THEN Answered(c, k, hit.payload, <<>>, now)
       ELSE calls' = [calls EXCEPT ![c] = [pc |-> "attempting", key |-> k, cached |-> hit, seen |-> <<>>,
                                           begun |-> now, deadline |-> now + Timeout]]
  /\ UNCHANGED cacheVars

\* The provider answers; a location without weather data is an answer too, and a
\* search that finds nothing is none.
Succeed(c) ==
  /\ calls[c].pc = "attempting"
  /\ LET k == calls[c].key
     IN  \E payload \in { Fact("verified", x) : x \in IF k \in WeatherKeys THEN {NoContent} ELSE Contents }
                     \cup { Fact("unavailable", NoContent) : x \in {k} \cap WeatherKeys } :
           /\ Set(k, payload)
           /\ Answered(c, k, payload, Append(calls[c].seen, "ok"), calls[c].begun)
  /\ UNCHANGED <<now, callsLeft>>

\* Any failure is tried again and then covered up with what was cached.
M_Retried(failure) == TRUE

Retried(failure) == failure \in Transient

\* A failed attempt: authentication, a bad response or nothing found end the call
\* at once; an outage or a rate limit only when the attempts are spent.
Fail(c, failure) ==
  /\ calls[c].pc = "attempting"
  /\ LET call == calls[c]
         seen == Append(call.seen, failure)
     IN  \/ /\ Retried(failure) /\ Len(seen) < MaxAttempts
            /\ calls' = [calls EXCEPT ![c] = [@ EXCEPT !.seen = seen, !.deadline = now + Timeout]]
         \/ /\ Retried(failure) /\ Len(seen) >= MaxAttempts /\ call.cached.kept
            /\ Answered(c, call.key, with_stale_status(call.cached.payload), seen, call.begun)
         \/ /\ ~Retried(failure) \/ (Len(seen) >= MaxAttempts /\ ~call.cached.kept)
            /\ calls' = [calls EXCEPT ![c] = Quiet]
  /\ UNCHANGED <<cacheVars, callsLeft>>

CallStep ==
  \E c \in Callers : Begin(c) \/ Succeed(c) \/ \E f \in Failures : Fail(c, f)

\* No attempt outlasts its timeout.
CallsInTime == \A c \in Callers : calls[c].pc = "attempting" => now < calls[c].deadline

AnsweredCalls == { c \in Callers : calls[c].pc = "answered" }

\* An answer is as old as it says: one that is not marked stale was fetched
\* within its time to live, and a stale one was still within its stale period
\* when the call looked it up, so that it is older by the attempts at most
\* (cache.py 86-102, amap.py 76-80).
AnswersAreAsOldAsTheySay ==
  \A c \in AnsweredCalls :
    LET call == calls[c]
        age  == call.at - call.payload.fetched
    IN  /\ call.payload.status # "stale" => age <= Ttl[call.key]
        /\ age < Ttl[call.key] + StaleTtl[call.key] + MaxAttempts * Timeout
        /\ call.at - call.begun <= MaxAttempts * Timeout

\* An old answer is served for an outage only, after every attempt met one: a
\* refusal, a bad response and an empty search are reported, and nothing is
\* asked more often than it may be (http.py 79-129, amap.py 34).
StaleOnlyInAnOutage ==
  \A c \in AnsweredCalls :
    LET call == calls[c]
    IN  /\ Len(call.seen) <= MaxAttempts
        /\ \A i \in DOMAIN call.seen : call.seen[i] \in Transient \cup {"ok"}
        /\ call.payload.status = "stale" => Len(call.seen) = MaxAttempts /\ Last(call.seen) # "ok"

\* An attraction in the region with exactly the name that was searched for, and
\* one that has all its data and lacks the kind or a part of the name.
Meant(x)      == x.name = "exact" /\ x.semantic = "attraction" /\ x.here
AlmostMeant(x) ==
  /\ x.here /\ x.address /\ x.adcode
  /\ \/ x.name = "exact" /\ x.semantic = "unknown"
     \/ x.name = "partial" /\ x.semantic = "attraction"

\* The candidate that cannot be mistaken: the only one that was meant, and if it
\* has neither an address nor a district, without one that was almost meant.
Unmistakable(candidates) ==
  { i \in DOMAIN candidates :
      /\ { j \in DOMAIN candidates : Meant(candidates[j]) } = {i}
      /\ \/ candidates[i].address \/ candidates[i].adcode
         \/ \A j \in DOMAIN candidates : ~AlmostMeant(candidates[j]) }

\* What weights, threshold and margin add up to: a place named in an edit is
\* adopted without asking exactly when one candidate cannot be mistaken and the
\* name is no generic term.  Entrances, car parks and shops of that name, places
\* elsewhere and the order of the list make no difference (poi_quality.py 170-273).
AdoptedIsUnambiguous ==
  \A c \in { a \in AnsweredCalls : calls[a].payload.content # NoContent }, generic \in BOOLEAN :
    LET candidates == calls[c].payload.content
        decision   == Adoption(candidates, TRUE, generic)
    IN  IF generic THEN decision.action # "auto_adopt"
        ELSE /\ decision.action = "auto_adopt" <=> Unmistakable(candidates) # {}
             /\ \A i \in Unmistakable(candidates) : decision.place = candidates[i]
=============================================================================
