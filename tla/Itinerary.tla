----------------------------- MODULE Itinerary -----------------------------
(***************************************************************************)
(* The part of a routebook snapshot that plans and edits work on           *)
(* (schemas.py RouteBookSnapshotV1), and what the final checks say of it   *)
(* (finalization.py validate_final_snapshot).                              *)
(*                                                                         *)
(* A segment is known by its id <<stamp, day, index>>, where the stamp     *)
(* stands for the fresh UUIDs of one computation; a weather fact by its    *)
(* ref <<place, day>>, the date of a day being the start date and its      *)
(* number. Names, coordinates, facts and wording are left out, and so is   *)
(* excluded_place_ids, which no code ever fills.                           *)
(***************************************************************************)
EXTENDS RouteOptimizer

CONSTANTS
  Texts,      \* the texts under which a traveller asked for a place
  MaxDays     \* the largest number of days (7 in the code)

ASSUME MaxDaysAssumption == MaxDays \in Nat

VARIABLES
  current,    \* the snapshot of the routebook's current version
  version     \* the number of that version

NoPlace == "no place"

\* The members of a set, in the order of a sequence.
Filter(seq, members) ==
  FoldLeft(LAMBDA kept, p : IF p \in members THEN Append(kept, p) ELSE kept, <<>>, seq)

\* Nothing is in two of the lists, or in one of them twice.
NoneTwice(lists) ==
  \A d, e \in DOMAIN lists :
    IsInjective(lists[d]) /\ (d # e => ToSet(lists[d]) \cap ToSet(lists[e]) = {})

Wishes == [must: SUBSET Places, texts: SUBSET Texts, days: 1 .. MaxDays, dated: BOOLEAN]

\* ItineraryDaySnapshot; an undated day has no date.
DayRecord(places, segments, weather, dated) ==
  [places |-> places, segments |-> segments, weather |-> weather, dated |-> dated]

\* The snapshot of confirmed requirements: nothing is planned yet.
Unplanned(req) ==
  [req |-> req, places |-> {}, days |-> <<>>, segments |-> <<>>, weather |-> {}]

\* The places of a day, of a snapshot's days.
On(snapshot, d) == ToSet(snapshot.days[d].places)
Planned(snapshot) == UNION { On(snapshot, d) : d \in DOMAIN snapshot.days }

\* The fresh ids of a computation, against everything the snapshot still holds.
Stamp(snapshot) ==
  LET used == { id[1] : id \in DOMAIN snapshot.segments }
  IN  CHOOSE n \in 1 .. Cardinality(used) + 1 :
        n \notin used /\ \A m \in 1 .. n - 1 : m \in used

\* The ids of a day's new segments, one for each pair of neighbours.
DaySegments(stamp, d, route) == [i \in DOMAIN Hops(route) |-> <<stamp, d, i>>]

\* What those ids stand for.
SegmentFacts(stamp, days, on) ==
  LET new == UNION { { <<stamp, d, i>> : i \in DOMAIN Hops(days[d].places) } : d \in on }
  IN  [id \in new |-> Hops(days[id[2]].places)[id[3]]]

\* The anchor of the day's forecast: its first place, when the day has a date.
Anchors(day, d) == IF day.places # <<>> /\ day.dated THEN { <<Head(day.places), d>> } ELSE {}

\* day_hash: the day with the facts its ids and refs stand for; a day that
\* does not exist has no content.
day_hash(snapshot, d) ==
  IF d \notin DOMAIN snapshot.days THEN {}
  ELSE LET day == snapshot.days[d]
       IN  { [day |-> day, weather |-> day.weather \cap snapshot.weather,
              segments |-> { <<id, snapshot.segments[id]>> :
                               id \in ToSet(day.segments) \cap DOMAIN snapshot.segments }] }

\* validate_final_snapshot, by the codes of its issues.
FinalIssues(snapshot) ==
  { code \in {"EMPTY_ITINERARY", "DAY_COUNT_MISMATCH", "DANGLING_PLACE", "DANGLING_SEGMENT",
              "MUST_VISIT_MISSING"} :
      \/ code = "EMPTY_ITINERARY" /\ snapshot.days = <<>>
      \/ code = "DAY_COUNT_MISMATCH" /\ Len(snapshot.days) # snapshot.req.days
      \/ code = "DANGLING_PLACE" /\ ~ Planned(snapshot) \subseteq snapshot.places
      \/ /\ code = "DANGLING_SEGMENT"
         /\ \E d \in DOMAIN snapshot.days :
              ~ ToSet(snapshot.days[d].segments) \subseteq DOMAIN snapshot.segments
      \/ code = "MUST_VISIT_MISSING" /\ ~ snapshot.req.must \subseteq Planned(snapshot) }

\* VersionService.commit: only on the version the caller has read.
Commit(base, snapshot) == version = base /\ version' = version + 1 /\ current' = snapshot

Outdated(base) == version # base

=============================================================================
