------------------------- MODULE RoutebookItinerary -------------------------
(***************************************************************************)
(* Planning and editing the itinerary of one routebook: the planning task  *)
(* and an edit read a version each, work on it outside any transaction,    *)
(* and save on the version they have read.                                 *)
(***************************************************************************)
EXTENDS ItineraryPlanning, ItineraryEditing

CONSTANTS
  Confirmed,      \* the requirements the first version may hold
  Accepted        \* the places that may have been accepted by then

ASSUME ConfirmedAssumption == (\A req \in Confirmed : req \in Wishes) /\ Accepted \subseteq SUBSET Places

vars == <<current, version, planning, editing>>

Init ==
  /\ \E req \in Confirmed : current = Unplanned(req)
  /\ version = 1
  /\ accepted \in Accepted /\ planner = Idle /\ plans = 0
  /\ editor = Nothing /\ proposal = Nothing /\ edits = 0

Next ==
  \/ Plan /\ UNCHANGED editing
  \/ Edit /\ UNCHANGED planning
Spec == Init /\ [][Next]_vars

=============================================================================
