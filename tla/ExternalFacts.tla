---------------------------- MODULE ExternalFacts ----------------------------
(***************************************************************************)
(* Everything that asks the outside world and caches what it hears: calls  *)
(* to the map and weather providers and the enrichment task, on one cache  *)
(* and one clock.                                                          *)
(***************************************************************************)
EXTENDS ProviderCalls, PlaceEnrichment

CONSTANT Work   \* bound: [calls, tasks], how much of each is done

\* Guides and facts have keys of their own.
ASSUME KeyAssumption == \A p \in DOMAIN KeyOf : KeyOf[p] \in Keys \ FactKeys

vars == <<cacheVars, callVars, enrichVars>>

Init ==
  /\ CacheInit /\ CallsInit /\ EnrichInit
  /\ \E w \in Work : callsLeft = w.calls /\ tasksLeft = w.tasks

\* Time passes, but no attempt outlasts its timeout.
Tick ==
  /\ now < MaxTime /\ CallsInTime
  /\ now' = now + 1
  /\ UNCHANGED <<store, callVars, enrichVars>>

Next ==
  \/ Tick
  \/ CallStep /\ UNCHANGED enrichVars
  \/ EnrichStep /\ UNCHANGED callVars

Spec == Init /\ [][Next]_vars

=============================================================================
