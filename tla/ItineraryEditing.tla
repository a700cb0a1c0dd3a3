-------------------------- MODULE ItineraryEditing --------------------------
(***************************************************************************)
(* Editing a planned routebook (editing/service.py, recompute.py, main.py  *)
(* edit_routebook): an intent is resolved against a snapshot, its impact   *)
(* and a preview are computed, the affected days get new segments and      *)
(* weather, and the result is refused when another day changed; it becomes *)
(* a version at once or, when it is risky, a proposal to decide on.        *)
(*                                                                         *)
(* Place references name one place exactly; the providers' answers only    *)
(* fill in facts and are left out. A retried operation, concurrent edits   *)
(* and the expiry of proposals are in ChangeProposals and VersionCommit.   *)
(***************************************************************************)
EXTENDS Itinerary

CONSTANTS
  Intents,        \* what the clients ask for
  MaxEdits        \* bound: how many edits are executed

ASSUME IntentsAssumption ==
  \A i \in Intents :
    /\ i.op \in {"add_place", "remove_place", "replace_place", "edit_day", "change_days"}
    /\ {i.place, i.new} \subseteq Places \cup {NoPlace}
    /\ {i.day, i.target} \subseteq 0 .. MaxDays

VARIABLES
  editor,         \* the edit that was planned and is not executed yet
  proposal,       \* the proposal that waits for a decision
  edits           \* how many edits were executed

editing == <<editor, proposal, edits>>

Nothing == [pc |-> "none"]

\* EditIntent: day 0, NoPlace and target 0 stand for fields that are not given.
Intent(op, day, place, new, target) ==
  [op |-> op, day |-> day, place |-> place, new |-> new, target |-> target]

\* validate_operation_fields
WellFormed(i) ==
  /\ i.op \in {"remove_place", "replace_place"} => i.place # NoPlace
  /\ i.op \in {"add_place", "replace_place"} => i.new # NoPlace
  /\ i.op = "edit_day" => i.day # 0
  /\ i.op = "change_days" => i.target # 0

Given(p) == {p} \ {NoPlace}
DaysOf(s, p) == { d \in DOMAIN s.days : p \in On(s, d) }

\* resolve_references: a day or a place that cannot be found needs clarification.
IsResolved(s, i) ==
  /\ i.day # 0 => i.day \in DOMAIN s.days
  /\ i.place # NoPlace => /\ i.place \in s.places
                          /\ i.day = 0 \/ DaysOf(s, i.place) = {} \/ i.day \in DaysOf(s, i.place)

ResolvedDays(s, i) ==
  CASE i.op = "change_days" -> DOMAIN s.days
    [] i.op # "change_days" /\ i.day # 0 -> {i.day}
    [] OTHER -> DaysOf(s, i.place)

\* calculate_impact
AffectedDays(s, i) ==
  CASE i.op = "change_days" -> 1 .. Max({Len(s.days), i.target})
    [] i.op = "add_place" /\ ResolvedDays(s, i) = {} -> {Max({Len(s.days), 1})}
    [] OTHER -> ResolvedDays(s, i)

AffectedSegments(s, i) ==
  UNION { ToSet(s.days[d].segments) : d \in AffectedDays(s, i) \cap DOMAIN s.days }
    \cup { id \in DOMAIN s.segments : ToSet(s.segments[id]) \cap Given(i.place) # {} }

Risks(s, i) ==
  { risk \in {"remove_must_visit", "multi_day_change", "change_total_days"} :
      \/ risk = "remove_must_visit" /\ i.op \in {"remove_place", "replace_place"} /\ i.place \in s.req.must
      \/ risk = "multi_day_change" /\ Cardinality(AffectedDays(s, i)) > 1
      \/ risk = "change_total_days" /\ i.op = "change_days" }

TargetDay(s, i) == IF AffectedDays(s, i) = {} THEN 1 ELSE Min(AffectedDays(s, i))

\* _day finds no day: the request ends in an error.
HasTarget(s, i) ==
  i.op \in {"add_place", "replace_place", "edit_day"} => TargetDay(s, i) \in DOMAIN s.days

\* _nearest_place_order: a tour as in the planner, with ties falling by id, and
\* a day of two places stays as it is.
NearestOrder(route) == IF Len(route) < 3 THEN route ELSE nearest_neighbor(route)

\* The places of a day after the intent.
EditedRoute(s, i, d) ==
  LET kept  == Filter(s.days[d].places, Places \ {i.place})
      added == IF d = TargetDay(s, i) THEN <<i.new>> ELSE <<>>
  IN  CASE i.op = "add_place"     -> s.days[d].places \o added
        [] i.op = "remove_place"  -> kept
        [] i.op = "replace_place" -> kept \o added
        [] i.op = "edit_day" /\ d = TargetDay(s, i) -> NearestOrder(s.days[d].places)
        [] OTHER -> s.days[d].places

\* The days after the intent: cut, or filled up with days that have no date.
EditedDays(s, i) ==
  IF i.op = "change_days"
  THEN [d \in 1 .. i.target |-> IF d \in DOMAIN s.days THEN s.days[d] ELSE DayRecord(<<>>, <<>>, {}, FALSE)]
  ELSE [d \in DOMAIN s.days |-> [s.days[d] EXCEPT !.places = EditedRoute(s, i, d)]]

EditedPlaces(s, i) ==
  CASE i.op = "add_place"     -> s.places \cup {i.new}
    [] i.op = "remove_place"  -> s.places \ {i.place}
    [] i.op = "replace_place" -> (s.places \ {i.place}) \cup {i.new}
    [] OTHER -> s.places

\* build_preview: the affected days lose their segments and weather. Facts about
\* places that are on no affected day any more stay.
Preview(s, i) ==
  LET days  == EditedDays(s, i)
      on    == AffectedDays(s, i) \cap DOMAIN days
      there == UNION { ToSet(days[d].places) : d \in on }
  IN  [s EXCEPT
         !.req.days = IF i.op = "change_days" THEN i.target ELSE @,
         !.places   = EditedPlaces(s, i),
         !.days     = [d \in DOMAIN days |->
                         IF d \in on THEN [days[d] EXCEPT !.segments = <<>>, !.weather = {}] ELSE days[d]],
         !.segments = [id \in DOMAIN @ \ AffectedSegments(s, i) |-> @[id]],
         !.weather  = { fact \in @ : fact[1] \notin there }]

\* The preserved segments and the new ones.
Merged(new, old) ==
  [id \in DOMAIN new \cup DOMAIN old |-> IF id \in DOMAIN new THEN new[id] ELSE old[id]]

\* AffectedScopeRecomputer.recompute: routes and weather for the affected days.
\* What an affected day still refers to in the preview would be replaced.
Recomputed(s, affected) ==
  LET on    == affected \cap DOMAIN s.days
      stale == UNION { ToSet(s.days[d].segments) : d \in on }
      old   == UNION { s.days[d].weather : d \in on }
  IN  [s EXCEPT
         !.days     = [d \in DOMAIN @ |->
                         IF d \notin on THEN @[d]
                         ELSE DayRecord(@[d].places, DaySegments(Stamp(s), d, @[d].places),
                                        Anchors(@[d], d), @[d].dated)],
         !.segments = Merged(SegmentFacts(Stamp(s), s.days, on), [id \in DOMAIN @ \ stale |-> @[id]]),
         !.weather  = (@ \ old) \cup UNION { Anchors(s.days[d], d) : d \in on }]

\* The days are compared without the facts they refer to.
M_ComparesOwnFields(base, preview, affected) ==
  \A d \in (DOMAIN base.days \cap DOMAIN preview.days) \ affected : base.days[d] = preview.days[d]

\* validate_unchanged_days
validate_unchanged_days(base, preview, affected) ==
  \A d \in (DOMAIN base.days \cup DOMAIN preview.days) \ affected :
    day_hash(base, d) = day_hash(preview, d)

\* edit_routebook up to the execution: what does not resolve is asked back.
PlanEdit ==
  /\ editor = Nothing /\ edits < MaxEdits
  /\ \E i \in Intents :
       /\ WellFormed(i) /\ IsResolved(current, i) /\ HasTarget(current, i)
       /\ editor' = [pc |-> "planned", base |-> version, snapshot |-> current,
                     affected |-> AffectedDays(current, i), risks |-> Risks(current, i),
                     preview |-> Recomputed(Preview(current, i), AffectedDays(current, i))]
  /\ UNCHANGED <<proposal, edits, current, version>>

InScope == validate_unchanged_days(editor.snapshot, editor.preview, editor.affected)

\* execute: UNEXPECTED_SCOPE_CHANGE, or a direct edit on an outdated base.
RefuseEdit ==
  /\ editor # Nothing
  /\ ~ InScope \/ (editor.risks = {} /\ Outdated(editor.base))
  /\ editor' = Nothing /\ edits' = edits + 1
  /\ UNCHANGED <<proposal, current, version>>

SaveEdit ==
  /\ editor # Nothing /\ InScope /\ editor.risks = {}
  /\ Commit(editor.base, editor.preview)
  /\ editor' = Nothing /\ edits' = edits + 1
  /\ UNCHANGED proposal

ProposeEdit ==
  /\ editor # Nothing /\ InScope /\ editor.risks # {} /\ proposal = Nothing
  /\ proposal' = editor
  /\ editor' = Nothing /\ edits' = edits + 1
  /\ UNCHANGED <<current, version>>

\* resolve_proposal: accepted on its base, or gone.
AcceptProposal ==
  /\ proposal # Nothing
  /\ Commit(proposal.base, proposal.preview)
  /\ proposal' = Nothing
  /\ UNCHANGED <<editor, edits>>

DropProposal ==
  /\ proposal # Nothing /\ proposal' = Nothing
  /\ UNCHANGED <<editor, edits, current, version>>

Edit == PlanEdit \/ RefuseEdit \/ SaveEdit \/ ProposeEdit \/ AcceptProposal \/ DropProposal

\* The days two snapshots differ in, as a reader of the routebook sees them.
ChangedDays(old, new) ==
  { d \in DOMAIN old.days \cup DOMAIN new.days : day_hash(old, d) # day_hash(new, d) }

\* What is shown for a day belongs together: its segments join its places one
\* after the other and are nobody else's, its weather is that of its own first
\* place, everything it refers to is in the snapshot, and no segment is left over.
Connected(s) ==
  LET lists == [d \in DOMAIN s.days |-> s.days[d].segments]
  IN  /\ Planned(s) \subseteq s.places
      /\ NoneTwice(lists) /\ UNION { ToSet(lists[d]) : d \in DOMAIN lists } = DOMAIN s.segments
      /\ \A d \in DOMAIN s.days :
           LET day == s.days[d]
           IN  /\ [i \in DOMAIN day.segments |-> s.segments[day.segments[i]]] = Hops(day.places)
               /\ day.weather = Anchors(day, d) /\ day.weather \subseteq s.weather

\* Every version and every proposal shows days that are connected, whatever was
\* planned, added, removed, replaced, reordered, cut off or appended before.
DaysAreConnected ==
  /\ Connected(current)
  /\ proposal # Nothing => Connected(proposal.preview)

\* A proposal that is accepted changes no day but those it was said to affect.
AcceptedEditsStayInScope ==
  [][proposal # Nothing /\ proposal' = Nothing /\ current' # current =>
       ChangedDays(current, current') \subseteq proposal.affected]_<<current, proposal>>

=============================================================================
