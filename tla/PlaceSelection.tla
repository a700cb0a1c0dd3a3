--------------------------- MODULE PlaceSelection ---------------------------
(***************************************************************************)
(* Which places are recommended (recommendations/strategy.py, service.py): *)
(* what is searched for, what is filtered out whatever it scores, and how  *)
(* the rest is ranked and spread over categories and districts.            *)
(*                                                                         *)
(* Query terms and places are model values; the scores are the code's, in  *)
(* hundredths.                                                             *)
(***************************************************************************)
EXTENDS Naturals, FiniteSets, SequencesExt

CONSTANTS
  ById,             \* the places, in the order of their provider ids
  Category,         \* [places -> categories]
  District,         \* [places -> districts]
  Attractions,      \* the places whose semantic type is ATTRACTION
  Quality,          \* [places -> 0 .. 100]: score_candidates for the place's first query
  Described,        \* the places with an address
  Catalogue,        \* [terms -> sets of places]: what a search for the term recalls
  ThemeTerms,       \* the queries of the confirmed themes
  ThemeCategories,  \* the categories of the confirmed themes
  WeatherTerms,     \* ["indoor", "outdoor" -> sequences of terms]
  MaxTerms          \* how many queries a strategy keeps: 12 in the code

Known == ToSet(ById)

\* Ids are unique, and only these places are ever recalled.
ASSUME PlacesAssumption ==
  /\ ById \in Seq(Known) /\ IsInjective(ById)
  /\ Quality \in [Known -> 0..100]
  /\ \A term \in DOMAIN Catalogue : Catalogue[term] \subseteq Known

IndoorCategories  == {"museum", "dining", "shopping", "religious"}
OutdoorCategories == {"park", "attraction", "landmark"}
NegativeCategories == {"transport", "travel_service", "accommodation"}
PerCategory == 2

WeatherCategories(weather) ==
  CASE weather = "indoor"  -> IndoorCategories
    [] weather = "outdoor" -> OutdoorCategories
    [] OTHER               -> {}

\* The categories that rainy or fair days put in front of the themes' own.
WeatherTargets(weather) ==
  CASE weather = "indoor"  -> {"museum", "dining", "shopping"}
    [] weather = "outdoor" -> {"park", "attraction", "landmark"}
    [] OTHER               -> {}

Distinct(terms) ==
  FoldLeft(LAMBDA kept, t : IF t \in ToSet(kept) THEN kept ELSE Append(kept, t), <<>>, terms)

QueryTerms(wishes, weather) ==
  LET all == Distinct(wishes.must
                      \o (IF weather \in DOMAIN WeatherTerms THEN WeatherTerms[weather] ELSE <<>>)
                      \o ThemeTerms \o wishes.optional)
  IN  SubSeq(all, 1, IF Len(all) < MaxTerms THEN Len(all) ELSE MaxTerms)

\* build_recommendation_strategy: a place refused as too far closes the suburbs.
Strategy(wishes, tooFar, weather) ==
  LET suburban == wishes.suburban /\ ~tooFar
  IN  [terms |-> QueryTerms(wishes, weather),
       targets |-> ThemeCategories \cup WeatherTargets(weather),
       weather |-> weather,
       excluded |-> wishes.excluded,
       suburban |-> suburban,
       perDistrict |-> IF suburban THEN 3 ELSE 2]

\* What the terms that the provider answers recall.
Recalled(strategy, answered) == UNION { Catalogue[t] : t \in ToSet(strategy.terms) \cap answered }

HardFiltered(p, strategy) ==
  \/ p \notin Attractions
  \/ Category[p] \in NegativeCategories
  \/ p \in strategy.excluded

\* _preference_score, at most 100.
Preference(p, strategy) ==
  LET score == 45 + (IF Category[p] \in strategy.targets THEN 35 ELSE 0)
                  + (IF Category[p] \in WeatherCategories(strategy.weather) THEN 15 ELSE 0)
                  + (IF District[p] # "unknown" THEN 10 ELSE 0)
                  + (IF p \in Described THEN 10 ELSE 0)
  IN  IF score > 100 THEN 100 ELSE score

Score(p, strategy) == 6 * Quality[p] + 4 * Preference(p, strategy)

\* The places that may be proposed, best first, equal ones by their ids.
Ranked(recalled, refused, strategy) ==
  LET candidates == { p \in recalled \ refused : ~HardFiltered(p, strategy) }
      position   == [p \in Known |-> CHOOSE i \in DOMAIN ById : ById[i] = p]
      Better(p)  == { q \in candidates :
                        \/ Score(q, strategy) > Score(p, strategy)
                        \/ Score(q, strategy) = Score(p, strategy) /\ position[q] < position[p] }
      rank       == [p \in candidates |-> Cardinality(Better(p))]
  IN  [n \in 1..Cardinality(candidates) |-> CHOOSE p \in candidates : rank[p] = n - 1]

Among(places, F, value) == Cardinality({ p \in ToSet(places) : F[p] = value })

Full(chosen, p, strategy) ==
  \/ Among(chosen, Category, Category[p]) >= PerCategory
  \/ Among(chosen, District, District[p]) >= strategy.perDistrict

\* One pass over the ranked places, after those chosen at the start of it.
Pass(start, ranked, strategy, limit, relaxed) ==
  FoldLeft(LAMBDA chosen, p :
      IF /\ Len(chosen) < limit
         /\ p \notin ToSet(start)
         /\ relaxed \/ ~Full(chosen, p, strategy)
      THEN Append(chosen, p) ELSE chosen,
    start, ranked)

\* The caps are read once, before anything is chosen.
M_Spread(ranked, strategy, limit) == Pass(<<>>, ranked, strategy, limit, TRUE)

\* The first pass: nothing over the caps of its category and its district.
Spread(ranked, strategy, limit) == Pass(<<>>, ranked, strategy, limit, FALSE)

\* The second: diversity is no reason to come back with too few.
Selected(ranked, strategy, limit) ==
  Pass(Spread(ranked, strategy, limit), ranked, strategy, limit, TRUE)

\* What a selection from the ranked places should be: as long as the limit allows,
\* over a cap only when every place left out would be too, and within one category
\* and district never with a worse place for a better one.
Diverse(ranked, chosen, strategy, limit) ==
  LET left    == ToSet(ranked) \ ToSet(chosen)
      over    == \E p \in ToSet(chosen) :
                   \/ Among(chosen, Category, Category[p]) > PerCategory
                   \/ Among(chosen, District, District[p]) > strategy.perDistrict
      rank(p) == CHOOSE k \in DOMAIN ranked : ranked[k] = p
  IN  /\ IsInjective(chosen)
      /\ Len(chosen) = Len(ranked) \/ Len(chosen) = limit
      /\ over => \A p \in left : Full(chosen, p, strategy)
      /\ \A p \in left, q \in ToSet(chosen) :
           Category[p] = Category[q] /\ District[p] = District[q] => rank(q) < rank(p)
=============================================================================
