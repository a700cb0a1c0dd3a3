-------------------------- MODULE MC_Recommendations --------------------------
(***************************************************************************)
(* A small instance of Recommendations: six places, of which one is no   *)
(* attraction, and four kinds of query, of which three are kept.           *)
(***************************************************************************)
EXTENDS Recommendations

CONSTANTS a, b, c, d, f, g, t, q, named, theme, rain, wish

MCById        == <<a, b, c, d, f, g>>
MCCategory    == [p \in Known |-> IF p = g THEN "park" ELSE "museum"]
MCDistrict    == [p \in Known |-> IF p \in {d, g} THEN "hills" ELSE "old town"]
MCAttractions == Known \ {f}
MCQuality     == [p \in Known |-> IF p \in {c, g} THEN 70 ELSE 60]
MCDescribed   == Known \ {a}
MCCatalogue   == (named :> {d}) @@ (theme :> {a, b, c, f}) @@ (rain :> {b, c}) @@ (wish :> {g})
MCThemeTerms  == <<theme>>
MCWeather     == [w \in {"indoor"} |-> <<rain>>]

MCWishes == {
  [must |-> <<named>>, optional |-> <<wish>>, excluded |-> {c}, suburban |-> TRUE],
  [must |-> <<>>, optional |-> <<wish>>, excluded |-> {a}, suburban |-> FALSE] }

\* Bound: how many proposals are decided, and batches stored.
DecidedCount == Cardinality({ x \in (DOMAIN batches) \X Known :
             x[2] \in DOMAIN batches[x[1]].proposals /\ batches[x[1]].proposals[x[2]].status # "proposed" })
Budget == DecidedCount + Len(batches) <= 3

MCSilences == { {}, {named, wish} }
=============================================================================
