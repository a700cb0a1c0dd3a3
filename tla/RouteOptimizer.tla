--------------------------- MODULE RouteOptimizer ---------------------------
(***************************************************************************)
(* The order of the places within one day (planning/optimizer.py): a       *)
(* nearest-neighbour tour from the first place, improved by at most four   *)
(* passes of two-opt that keep the first place where it is.                *)
(*                                                                         *)
(* A route is a sequence of places; Distance is the straight distance in   *)
(* metres between two places.                                              *)
(***************************************************************************)
EXTENDS Integers, SequencesExt

CONSTANTS
  Places,     \* what a place is identified by (planning_place_id)
  Distance    \* [Places \X Places -> metres]

ASSUME DistanceAssumption == Distance \in [Places \X Places -> Nat]

\* distance_meters
Metres(p, q) == Distance[<<p, q>>]

\* The consecutive pairs of a route.
Hops(route) ==
  IF route = <<>> THEN <<>> ELSE [i \in 1 .. Len(route) - 1 |-> <<route[i], route[i + 1]>>]

\* The sum of Of over a sequence.
Total(seq, Of(_)) == FoldLeft(LAMBDA sum, x : sum + Of(x), 0, seq)

route_length(route) == Total(Hops(route), LAMBDA hop : Metres(hop[1], hop[2]))

\* min(remaining, key=...): the first of the nearest ones.
NearestIndex(p, remaining) ==
  CHOOSE i \in DOMAIN remaining : \A j \in DOMAIN remaining :
    \/ Metres(p, remaining[i]) < Metres(p, remaining[j])
    \/ Metres(p, remaining[i]) = Metres(p, remaining[j]) /\ i <= j

\* while remaining: to the nearest one.
Visit(tour) ==
  LET i == NearestIndex(Last(tour.ordered), tour.remaining)
  IN  IF tour.remaining = <<>> THEN tour
      ELSE [ordered |-> Append(tour.ordered, tour.remaining[i]),
            remaining |-> RemoveAt(tour.remaining, i)]

\* As many visits as there are places after the first one.
nearest_neighbor(places) ==
  IF Len(places) < 2 THEN places
  ELSE FoldLeft(LAMBDA tour, p : Visit(tour),
                [ordered |-> <<Head(places)>>, remaining |-> Tail(places)], Tail(places)).ordered

Passes == 4    \* maximum_passes

\* The first place may move.
M_StartsFromFirst(n) == [k \in 1 .. n - 1 |-> k]

\* The positions the two loops visit: where a stretch starts, where it ends.
Starts(n) == [k \in 1 .. n - 2 |-> k + 1]
Ends(first, n) == [k \in 1 .. n - first |-> first + k]

\* A candidate: the stretch between the two positions is travelled backwards.
Reversed(route, first, last) ==
  SubSeq(route, 1, first - 1) \o Reverse(SubSeq(route, first, last))
    \o SubSeq(route, last + 1, Len(route))

\* It replaces the best one when it saves more than a metre.
Try(best, first, last) ==
  LET candidate == Reversed(best, first, last)
  IN  IF route_length(candidate) + 1 < route_length(best) THEN candidate ELSE best

TryEnds(route, first) ==
  FoldLeft(LAMBDA best, last : Try(best, first, last), route, Ends(first, Len(route)))

Pass(route) == FoldLeft(LAMBDA best, first : TryEnds(best, first), route, Starts(Len(route)))

\* A pass that improves nothing is the last one; another would change nothing.
limited_two_opt(places) == FoldLeft(LAMBDA best, pass : Pass(best), places, [k \in 1 .. Passes |-> k])

=============================================================================
