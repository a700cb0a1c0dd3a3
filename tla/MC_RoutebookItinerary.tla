------------------------ MODULE MC_RoutebookItinerary ------------------------
(***************************************************************************)
(* A small instance of RoutebookItinerary: five places on a line that can  *)
(* be recommended and one more that an edit may bring in.                  *)
(***************************************************************************)
EXTENDS RoutebookItinerary

CONSTANTS a, b, c, d, e, n, t

At == (a :> 0) @@ (b :> 2000) @@ (c :> -2500) @@ (d :> 7000) @@ (e :> -400) @@ (n :> 900)
Apart(x, y) == IF x < y THEN y - x ELSE x - y

MCPlaces   == {a, b, c, d, e, n}
MCDistance == [hop \in MCPlaces \X MCPlaces |-> Apart(At[hop[1]], At[hop[2]])]
MCOffered  == <<e, a, b, c, d>>
MCNamed    == (t :> <<d, c>>)
MCDistrict == [p \in MCPlaces |-> IF p \in {a, e, n} THEN "old town" ELSE IF p = d THEN "hills" ELSE "river"]
MCCategory == [p \in MCPlaces |-> IF p = e THEN "park" ELSE "museum"]
MCAccepted == { {a, b, e}, {a, b, c, d}, {a, b, c, d, e} }
MCForecasts == { [k \in 1 .. 3 |-> {}], [k \in 1 .. 3 |-> IF k = 1 THEN {c, d} ELSE {}] }
\* a hop that is too long a second time, and one over every limit
MCLegs == { [minutes |-> 70, metres |-> 25000], [minutes |-> 130, metres |-> 45000] }

MCConfirmed ==
  { [must |-> {}, texts |-> {t}, days |-> 2, dated |-> TRUE],
    [must |-> {}, texts |-> {}, days |-> 1, dated |-> FALSE] }

MCIntents == {
  Intent("add_place", 0, NoPlace, n, 0), Intent("add_place", 1, NoPlace, n, 0),
  Intent("add_place", 2, NoPlace, b, 0),
  Intent("remove_place", 0, a, NoPlace, 0), Intent("remove_place", 0, b, NoPlace, 0),
  Intent("remove_place", 1, d, NoPlace, 0),
  Intent("replace_place", 0, d, n, 0), Intent("replace_place", 1, b, c, 0),
  Intent("edit_day", 1, NoPlace, NoPlace, 0),
  Intent("change_days", 0, NoPlace, NoPlace, 1), Intent("change_days", 0, NoPlace, NoPlace, 3) }

\* Bound: three plans and edits together, at most two of each.
Budget == plans + edits <= 3

=============================================================================
