----------------------------- MODULE Requirements -----------------------------
(***************************************************************************)
(* What one message does to the requirements of a trip: the patch that the *)
(* model extracted is merged field by field, ambiguities are marked,       *)
(* defaults and derived fields are filled in, and what still blocks the    *)
(* planning becomes at most three questions.  Values are those that the    *)
(* rules tell apart; lists are sets of items, since no rule looks at their *)
(* order.                                                                  *)
(***************************************************************************)
EXTENDS Naturals, FiniteSets

CONSTANT Items  \* what may be named in a list

\* One field per rule: two places and one other list stand for the lists.
PlaceFields == {"must_visit_place_texts", "excluded_place_texts"}
ListFields  == PlaceFields \union {"themes"}
Scalars     == {"trip_scope", "origin", "destination", "date_precision", "start_date",
                "days", "transport_mode"}
Fields      == Scalars \union ListFields

\* The value None of a scalar; that of a list is the empty set.  A start date is
\* "past" or "coming", days are "in range" or "out of range".
Nothing == "nothing"

\* The flag confirmed is set with the source explicit and with no other.
NoRequirements ==
  [f \in Fields |-> [value  |-> IF f \in ListFields THEN {} ELSE Nothing,
                     source |-> "missing", status |-> "missing"]]

\* A patch has, for some fields, a value, its source and a list operation, and
\* names the fields for which it found several readings.
NoPatch == [fields |-> {}, to |-> [f \in {} |-> {}], ambiguous |-> {}]

\* What the schemas admit: values are enumerated, and what nobody gave is empty.
Values(f) ==
  CASE f \in ListFields       -> SUBSET Items
    [] f = "trip_scope"       -> {Nothing, "door_to_door", "destination_only"}
    [] f = "date_precision"   -> {Nothing, "exact", "month_only", "flexible"}
    [] f = "start_date"       -> {Nothing, "past", "coming"}
    [] f = "days"             -> {Nothing, "in range", "out of range"}
    [] OTHER                  -> {Nothing, "given"}

IsRequirements(req) ==
  /\ req = [f \in Fields |-> req[f]]
  /\ \A f \in Fields :
       /\ req[f] \in [value  : Values(f), source : {"missing", "explicit", "inferred", "default"},
                     status : {"missing", "suggested", "confirmed", "conflicted"}]
       /\ f \in ListFields /\ req[f].source = "missing" => req[f].value = {}

IsPatch(p) ==
  /\ p = [fields |-> p.fields, to |-> p.to, ambiguous |-> p.ambiguous]
  /\ p.fields \subseteq Fields /\ p.ambiguous \subseteq Fields
  /\ p.to = [f \in p.fields |-> p.to[f]]
  /\ \A f \in p.fields : p.to[f] \in [value : Values(f), source : {"explicit", "inferred"},
                                     operation : {"replace", "append", "remove"}]

IsExplicit(p, f) == f \in p.fields /\ p.to[f].source = "explicit"

-----------------------------------------------------------------------------
\* Whether apply takes the value that the patch has for the field.
M_TakesOverGuess(req, p, f) ==
  f \in p.fields /\ (p.to[f].source = "inferred" => req[f].source # "explicit")

Takes(req, p, f) ==
  /\ f \in p.fields
  /\ p.to[f].source = "inferred" => f \notin PlaceFields /\ req[f].source # "explicit"

\* _apply_list_operation
Listed(old, new, operation) ==
  IF operation = "replace" THEN new
  ELSE IF operation = "remove" THEN old \ new ELSE old \union new

Patched(req, p, f) ==
  [value  |-> IF f \in ListFields THEN Listed(req[f].value, p.to[f].value, p.to[f].operation)
              ELSE p.to[f].value,
   source |-> p.to[f].source,
   status |-> IF p.to[f].source = "explicit" THEN "confirmed" ELSE "suggested"]

Merged(req, p) ==
  [f \in Fields |->
    LET taken == IF Takes(req, p, f) THEN Patched(req, p, f) ELSE req[f]
    IN  IF f \in p.ambiguous THEN [taken EXCEPT !.status = "conflicted"] ELSE taken]

Suggested(v, s) == [value |-> v, source |-> s, status |-> "suggested"]

Unset(req, f) == req[f].source = "missing"

\* Defaults for lists, and the scope and precision that an origin and a date imply.
Completed(req) ==
  [f \in Fields |->
    IF Unset(req, f) /\ f \in ListFields THEN Suggested({}, "default")
    ELSE IF Unset(req, f) /\ f = "trip_scope" /\ req["origin"].value # Nothing
         THEN Suggested("door_to_door", "inferred")
    ELSE IF Unset(req, f) /\ f = "date_precision" /\ req["start_date"].value # Nothing
         THEN Suggested("exact", "inferred")
    ELSE req[f]]

Apply(req, p) == Completed(Merged(req, p))

-----------------------------------------------------------------------------
\* _blocking_issues: what the merged requirements, the ambiguities of this
\* message and its failed extraction leave open.
Issue(code, f) == <<code, f>>

M_PastDateIsFine(req) ==
  IF req["date_precision"].value \notin {"month_only", "flexible"} /\ req["start_date"].value = Nothing
  THEN {Issue("missing_start_date", "start_date")} ELSE {}

DateIssues(req) ==
  IF req["date_precision"].value \notin {"month_only", "flexible"} /\ req["start_date"].value = Nothing
  THEN {Issue("missing_start_date", "start_date")}
  ELSE IF req["start_date"].value = "past" THEN {Issue("invalid_start_date", "start_date")} ELSE {}

ScopeIssues(req) ==
  (IF req["trip_scope"].value = Nothing THEN {Issue("missing_trip_scope", "trip_scope")} ELSE {})
  \union
  (IF req["trip_scope"].value = "door_to_door" /\ req["origin"].value = Nothing
   THEN {Issue("missing_origin", "origin")} ELSE {})

DaysIssues(req) ==
  IF req["days"].value = Nothing THEN {Issue("missing_days", "days")}
  ELSE IF req["days"].value = "out of range" THEN {Issue("invalid_days", "days")} ELSE {}

OtherIssues(req) ==
  (IF req["transport_mode"].value = Nothing
   THEN {Issue("missing_transport_mode", "transport_mode")} ELSE {})
  \union
  (IF req["destination"].value = Nothing /\ req["must_visit_place_texts"].value = {}
   THEN {Issue("missing_target", "destination")} ELSE {})

Issues(req, ambiguous, failed) ==
  ScopeIssues(req) \union DateIssues(req) \union DaysIssues(req) \union OtherIssues(req)
  \union {Issue("ambiguous_requirement", f) : f \in ambiguous}
  \union (IF failed THEN {Issue("extraction_failed", "destination")} ELSE {})

Priority(i) ==
  CASE i[1] = "extraction_failed"      -> 100
    [] i[1] = "missing_target"         -> 98
    [] i[1] = "ambiguous_requirement"  -> 95
    [] i[1] = "missing_trip_scope"     -> 90
    [] i[1] \in {"missing_days", "invalid_days"}             -> 82
    [] i[1] \in {"missing_start_date", "invalid_start_date"} -> 72
    [] i[1] = "missing_origin"         -> 68
    [] i[1] = "missing_transport_mode" -> 60

\* The questions of a round: the three most important issues.  Ambiguities are
\* ordered as the model found them, so any of them may come first.
Questions(issues) ==
  {asked \in SUBSET issues :
    /\ Cardinality(asked) = IF Cardinality(issues) < 3 THEN Cardinality(issues) ELSE 3
    /\ \A i \in asked, j \in issues \ asked : Priority(i) >= Priority(j)}
=============================================================================
