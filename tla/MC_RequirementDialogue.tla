----------------------- MODULE MC_RequirementDialogue ------------------------
(***************************************************************************)
(* A small instance of RequirementDialogue: what the model may extract.    *)
(***************************************************************************)
EXTENDS RequirementDialogue, TLC

CONSTANTS a, b  \* two items that lists name

Say(v)     == [value |-> v, source |-> "explicit", operation |-> "replace"]
Guess(v)   == [value |-> v, source |-> "inferred", operation |-> "replace"]
More(v)    == [value |-> v, source |-> "explicit", operation |-> "append"]
Without(v) == [value |-> v, source |-> "explicit", operation |-> "remove"]

Patch(to, ambiguous) == [fields |-> DOMAIN to, to |-> to, ambiguous |-> ambiguous]

MCPatches == {
  \* the trip inside the destination, on the road, without a date
  Patch(("trip_scope" :> Say("destination_only") @@ "destination" :> Say("given")
         @@ "days" :> Say("in range") @@ "date_precision" :> Say("flexible")
         @@ "transport_mode" :> Guess("given")), {"themes"}),
  \* from home, on a date that may be over, too long
  Patch(("origin" :> Guess("given") @@ "start_date" :> Say("past")
         @@ "days" :> Guess("out of range") @@ "transport_mode" :> Say("given")), {}),
  \* places: some more, some less, some guessed
  Patch(("must_visit_place_texts" :> More({a, b}) @@ "excluded_place_texts" :> Guess({b})), {}),
  Patch(("must_visit_place_texts" :> Without({a}) @@ "themes" :> Guess({b})
         @@ "days" :> Guess("in range")), {"days"}),
  \* corrections
  Patch(("start_date" :> Say("coming") @@ "days" :> Say("in range")
         @@ "trip_scope" :> Guess("door_to_door") @@ "themes" :> Say({a})), {}) }

MCItems == {a, b}

MCBefore == NoRequirements
=============================================================================
