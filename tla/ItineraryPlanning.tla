------------------------- MODULE ItineraryPlanning -------------------------
(***************************************************************************)
(* Planning the days of a routebook (planning/persistence.py, service.py): *)
(* the accepted places are spread over the days, ordered and routed,       *)
(* checked, and repaired at most three times by dropping accepted places   *)
(* that nobody asked for; a plan without a conflict is saved as a version. *)
(*                                                                         *)
(* The providers are the environment: any hop takes any of the Legs, or    *)
(* stays unverified and counts nothing, and any forecast may come. Scores, *)
(* names and coordinates are abstracted to the orders they induce; a place *)
(* takes 120 minutes.                                                      *)
(***************************************************************************)
EXTENDS Itinerary

CONSTANTS
  Offered,        \* the places that were recommended, in the order of their proposals
  Named,          \* [Texts -> sequences of places]: best match first
  District,       \* [Places -> districts]
  Category,       \* [Places -> categories]
  Intensity,      \* "relaxed", "moderate" or "compact"
  KeepsToTown,    \* suburban_acceptance is False
  Legs,           \* the answers of the route provider: [minutes, metres]
  Forecasts,      \* what may be known of the weather: [1 .. MaxDays -> sets of preferred places]
  MaxPlans        \* bound: how often an itinerary is asked for

ASSUME IntensityAssumption == Intensity \in {"relaxed", "moderate", "compact"}

\* Proposals are told apart by the place they offer.
ASSUME OfferedAssumption ==
  /\ Offered \in Seq(Places) /\ IsInjective(Offered)
  /\ Named \in [Texts -> Seq(Places)]
  /\ DOMAIN District = Places /\ DOMAIN Category = Places

VARIABLES
  accepted,       \* the places accepted in some proposal, before the plan is asked for
  planner,        \* the planning task
  plans           \* how many were started

planning == <<accepted, planner, plans>>

\* CAPACITY_TEMPLATES
Capacity ==
  CASE Intensity = "relaxed"  -> [places |-> 2, activity |-> 420, transport |-> 120, segment |-> 75]
    [] Intensity = "moderate" -> [places |-> 3, activity |-> 540, transport |-> 180, segment |-> 100]
    [] Intensity = "compact"  -> [places |-> 4, activity |-> 660, transport |-> 240, segment |-> 120]

ActivityMinutes == 120    \* estimated_activity_minutes
MaxRepairs == 3
Unverified == [minutes |-> 0, metres |-> 0]

Idle == [pc |-> "idle"]

\* select_must_visit_match among the accepted places.
Matching(text) == Filter(Named[text], accepted)

\* The requirements with every text resolved that an accepted place matches.
Resolved(req) ==
  [req EXCEPT !.must = @ \cup { Head(Matching(t)) : t \in { u \in req.texts : Matching(u) # <<>> } },
              !.texts = { t \in @ : Matching(t) = <<>> }]

\* load_input, in a transaction of its own.
LoadInput ==
  /\ planner.pc \in {"idle", "saved", "infeasible", "outdated"}
  /\ plans < MaxPlans
  /\ planner' = [pc |-> "loaded", base |-> version, snapshot |-> [current EXCEPT !.req = Resolved(@)],
                 places |-> Filter(Offered, accepted)]
  /\ plans' = plans + 1
  /\ UNCHANGED <<accepted, current, version>>

\* Places that were asked for and not accepted are not missed.
M_PreflightCounts(req, places) ==
  { code \in {"place_count_out_of_range"} : req.days \notin 1 .. 7 \/ Len(places) \notin 3 .. 15 }

\* _preflight, by the codes of its conflicts.
PreflightConflicts(req, places) ==
  { code \in {"unresolved_must_visit", "place_count_out_of_range", "must_visit_missing"} :
      \/ code = "unresolved_must_visit" /\ req.texts # {}
      \/ code = "place_count_out_of_range" /\ (req.days \notin 1 .. 7 \/ Len(places) \notin 3 .. 15)
      \/ code = "must_visit_missing" /\ ~ req.must \subseteq ToSet(places) }

Preflight ==
  /\ planner.pc = "loaded"
  /\ PreflightConflicts(planner.snapshot.req, planner.places) # {}
  /\ planner' = [pc |-> "infeasible"]
  /\ UNCHANGED <<accepted, plans, current, version>>

\* A group is a district; it is added where its first place comes up.
WithGroup(grouped, p, sorted) ==
  IF p \in ToSet(grouped) THEN grouped
  ELSE grouped \o Filter(sorted, { q \in Places : District[q] = District[p] })

\* Must-visits first, then district by district.
Grouped(places, must) ==
  LET sorted == Filter(places, must) \o Filter(places, Places \ must)
  IN  FoldLeft(LAMBDA grouped, p : WithGroup(grouped, p, sorted), <<>>, sorted)

\* day_score: the weather first, then the length of the day, then its number.
Better(days, forecast, p, d, e) ==
  LET penalty(k) == IF forecast[k] # {} /\ p \notin forecast[k] THEN 1 ELSE 0
  IN  \/ penalty(d) < penalty(e)
      \/ penalty(d) = penalty(e) /\ Len(days[d]) < Len(days[e])
      \/ penalty(d) = penalty(e) /\ Len(days[d]) = Len(days[e]) /\ d <= e

\* One place: to the best day with room, in turn when no day has any.
PlaceOne(state, p, forecast) ==
  LET days == state.days
      room == { d \in DOMAIN days : Len(days[d]) < Capacity.places }
      turn == (state.turn % Len(days)) + 1
      best == CHOOSE d \in room : \A e \in room : Better(days, forecast, p, d, e)
  IN  IF room = {} THEN [days |-> [days EXCEPT ![turn] = Append(@, p)], turn |-> state.turn + 1]
      ELSE [state EXCEPT !.days[best] = Append(@, p)]

\* An empty day takes the last place of the fullest one, when that has another.
FillDay(days, d) ==
  LET donor == CHOOSE k \in DOMAIN days : \A j \in DOMAIN days :
                 \/ Len(days[k]) > Len(days[j])
                 \/ Len(days[k]) = Len(days[j]) /\ k <= j
  IN  IF days[d] # <<>> \/ Len(days[donor]) < 2 THEN days
      ELSE [days EXCEPT ![d] = <<Last(days[donor])>>, ![donor] = Front(@)]

\* _arrange
Arranged(places, req, forecast) ==
  LET empty  == [days |-> [d \in 1 .. req.days |-> <<>>], turn |-> 0]
      spread == FoldLeft(LAMBDA s, p : PlaceOne(s, p, forecast), empty, Grouped(places, req.must)).days
  IN  IF Len(places) < req.days THEN spread
      ELSE FoldLeft(LAMBDA days, d : FillDay(days, d), spread, [d \in 1 .. req.days |-> d])

\* A forecast is asked for only when the start date is known.
Arrange ==
  /\ planner.pc = "loaded"
  /\ PreflightConflicts(planner.snapshot.req, planner.places) = {}
  /\ \E forecast \in Forecasts :
       /\ planner.snapshot.req.dated \/ \A d \in DOMAIN forecast : forecast[d] = {}
       /\ planner' = [pc |-> "arranged", base |-> planner.base, snapshot |-> planner.snapshot,
                      days |-> Arranged(planner.places, planner.snapshot.req, forecast), attempts |-> 0]
  /\ UNCHANGED <<accepted, plans, current, version>>

\* _route_day: the order of a day; its segments join the neighbours.
Ordered(day) == limited_two_opt(nearest_neighbor(day))

Minutes(leg) == leg.minutes
Length(leg)  == leg.metres

\* _validate, for one day with its legs, by the codes of its conflicts.
DayConflicts(route, legs) ==
  LET districts == { District[p] : p \in ToSet(route) }
  IN  { code \in {"capacity_exceeded", "route_limit_exceeded", "cross_district_excess",
                  "suburban_mixed", "category_repetition"} :
          \/ /\ code = "capacity_exceeded"
             /\ \/ Len(route) > Capacity.places
                \/ Len(route) * ActivityMinutes > Capacity.activity
          \/ /\ code = "route_limit_exceeded"
             /\ \/ Total(legs, Minutes) > Capacity.transport
                \/ \E i \in DOMAIN legs : legs[i].minutes > Capacity.segment
          \/ /\ code = "cross_district_excess"
             /\ Cardinality(districts) >= 3 /\ Total(legs, Length) > 60000
          \/ /\ code = "suburban_mixed"
             /\ KeepsToTown /\ Cardinality(districts) > 1
             /\ \E i \in DOMAIN legs : legs[i].metres > 30000
          \/ /\ code = "category_repetition"
             /\ Len(route) >= 4 /\ Cardinality({ Category[p] : p \in ToSet(route) }) = 1 }

\* A conflict is repairable when the day has a place nobody asked for.
Repairable(route, must) == ~ ToSet(route) \subseteq must

\* The last place goes, whoever asked for it.
M_DropLast(places, must) == IF places = <<>> THEN places ELSE Front(places)

\* _repair: one place for each conflict of the day, the last accepted one first.
DropAccepted(places, must) ==
  LET extra == { i \in DOMAIN places : places[i] \notin must }
  IN  IF extra = {} THEN places
      ELSE RemoveAt(places, CHOOSE i \in extra : \A j \in extra : j <= i)

Repaired(places, conflicts, must) ==
  FoldLeft(LAMBDA day, n : DropAccepted(day, must), places, [n \in 1 .. Cardinality(conflicts) |-> n])

Repairs(days, conflicts, must) == [d \in DOMAIN days |-> Repaired(days[d], conflicts[d], must)]

\* What comes of a round: the plan fits; or a conflict no repair can lift, or one
\* after the third repair, ends it; or the arranged days are repaired.
Outcome(routes, conflicts) ==
  LET must == planner.snapshot.req.must
      hit  == { d \in DOMAIN routes : conflicts[d] # {} }
      lost == must \ UNION { ToSet(routes[d]) : d \in DOMAIN routes }
  IN  CASE hit = {} /\ lost = {} -> [planner EXCEPT !.pc = "fits", !.days = routes]
        [] lost # {} \/ planner.attempts = MaxRepairs
             \/ \E d \in hit : ~ Repairable(routes[d], must) -> [pc |-> "infeasible"]
        [] OTHER -> [planner EXCEPT !.days = Repairs(@, conflicts, must), !.attempts = @ + 1]

\* The conflicts a day may have, whatever the provider answers for its hops.
Possible(route) ==
  { DayConflicts(route, legs) : legs \in [DOMAIN Hops(route) -> Legs \cup {Unverified}] }

\* One round: the days are routed in parallel, joined and checked.
Round ==
  /\ planner.pc = "arranged"
  /\ LET routes   == [d \in DOMAIN planner.days |-> Ordered(planner.days[d])]
         possible == [d \in DOMAIN routes |-> Possible(routes[d])]
     IN  \E conflicts \in [DOMAIN routes -> UNION { possible[d] : d \in DOMAIN routes }] :
           /\ \A d \in DOMAIN routes : conflicts[d] \in possible[d]
           /\ planner' = Outcome(routes, conflicts)
  /\ UNCHANGED <<accepted, plans, current, version>>

\* The snapshot of a plan: with a weather fact, known or not, for every anchor.
PlannedSnapshot(base, routes) ==
  LET days  == [d \in DOMAIN routes |->
                 DayRecord(routes[d], DaySegments(Stamp(base), d, routes[d]), {}, base.req.dated)]
      facts == UNION { Anchors(days[d], d) : d \in DOMAIN days }
  IN  [base EXCEPT
         !.places   = UNION { ToSet(routes[d]) : d \in DOMAIN routes },
         !.days     = [d \in DOMAIN days |->
                         [days[d] EXCEPT !.weather = { f \in facts : f[1] \in ToSet(routes[d]) }]],
         !.segments = SegmentFacts(Stamp(base), days, DOMAIN days),
         !.weather  = facts]

\* commit: the version, with the must-visits that were resolved on loading.
SavePlan ==
  /\ planner.pc = "fits"
  /\ Commit(planner.base, PlannedSnapshot(planner.snapshot, planner.days))
  /\ planner' = [pc |-> "saved"]
  /\ UNCHANGED <<accepted, plans>>

PlanIsOutdated ==
  /\ planner.pc = "fits" /\ Outdated(planner.base)
  /\ planner' = [pc |-> "outdated"]
  /\ UNCHANGED <<accepted, plans, current, version>>

Plan == LoadInput \/ Preflight \/ Arrange \/ Round \/ SavePlan \/ PlanIsOutdated

\* While a plan is made, its days hold loaded places only, none of them twice,
\* and all that were asked for: arranging, ordering and repairing keep them.
DraftKeepsMustVisits ==
  planner.pc \in {"arranged", "fits"} =>
    LET all == UNION { ToSet(planner.days[d]) : d \in DOMAIN planner.days }
    IN  /\ planner.snapshot.req.must \subseteq all /\ all \subseteq accepted
        /\ NoneTwice(planner.days)
        /\ planner.attempts <= MaxRepairs

\* Ordering a day visits the same places from the same first one, on a way that
\* is no longer than the nearest-neighbour one; another pass would save nothing,
\* unless every pass the code makes has saved more than a metre.
OrderingShortens ==
  planner.pc = "arranged" =>
    \A d \in DOMAIN planner.days :
      LET day == planner.days[d]
          route == Ordered(day)
      IN  /\ ToSet(route) = ToSet(day) /\ Len(route) = Len(day)
          /\ day # <<>> => Head(route) = Head(day)
          /\ route_length(route) <= route_length(nearest_neighbor(day))
          /\ \/ Pass(route) = route
             \/ route_length(route) + 2 * Passes <= route_length(nearest_neighbor(day))

\* A plan that is saved passes the final checks, leaves nothing that was asked
\* for unresolved, and keeps to the number of places of a day.
PlansCanBePublished ==
  [][planner.pc = "fits" /\ planner'.pc = "saved" =>
       /\ FinalIssues(current') = {} /\ current'.req.texts = {}
       /\ \A d \in DOMAIN current'.days : Len(current'.days[d].places) <= Capacity.places]_<<current, planner>>

=============================================================================
