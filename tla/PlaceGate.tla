------------------------------ MODULE PlaceGate ------------------------------
(***************************************************************************)
(* The quality gate for a place named in an edit (providers/               *)
(* poi_quality.py, place_service.py): of the candidates a search returns,  *)
(* one is adopted only when it is clearly the place that was meant.        *)
(*                                                                         *)
(* A candidate is [name, semantic, here, address, adcode]: how its name    *)
(* matches the keyword ("exact", "partial", "no"), what it is, and whether *)
(* it lies in the region. Scores are the configured weights in hundredths. *)
(***************************************************************************)
EXTENDS Integers, SequencesExt

Fragments == {"entrance", "transit", "service", "merchant"}
Candidates == [name : {"exact", "partial", "no"}, semantic : Fragments \cup {"attraction", "unknown"},
               here : BOOLEAN, address : BOOLEAN, adcode : BOOLEAN]

AutoAdopt == 82
Margin    == 12
Confirm   == 45

hard_filtered(x) == x.semantic \in Fragments

\* _score_candidate.
RawScore(x, regional) ==
    (IF x.name = "exact" THEN 48 ELSE IF x.name = "partial" THEN 28 ELSE 0)
  + (IF x.semantic = "attraction" THEN 28 ELSE IF x.semantic = "unknown" THEN 8 ELSE 0)
  + (IF ~regional THEN 0 ELSE IF x.here THEN 14 ELSE -25)
  + (IF x.address THEN 5 ELSE 0)
  + (IF x.adcode THEN 5 ELSE 0)

PlaceScore(x, regional) ==
  LET raw    == RawScore(x, regional)
      capped == IF hard_filtered(x) /\ raw > 20 THEN 20 ELSE raw
  IN  IF capped < 0 THEN 0 ELSE IF capped > 100 THEN 100 ELSE capped

eligible(candidates) == { i \in DOMAIN candidates : ~hard_filtered(candidates[i]) }

\* The best of some candidates; of equal ones the first that the provider named.
Best(candidates, S, regional) ==
  CHOOSE i \in S : \A j \in S :
    LET lead == PlaceScore(candidates[i], regional) - PlaceScore(candidates[j], regional)
    IN  lead > 0 \/ (lead = 0 /\ i <= j)

Top(candidates, regional) == Best(candidates, eligible(candidates), regional)

\* runner_up_score: that of the next eligible one after the top, 0 if there is none.
RunnerUpScore(candidates, top, regional) ==
  LET others == eligible(candidates) \ {top}
  IN  IF others = {} THEN 0 ELSE PlaceScore(candidates[Best(candidates, others, regional)], regional)

\* The best one is good enough, whatever comes next to it.
M_clear(candidates, top, regional) == TRUE

clear(candidates, top, regional) ==
  PlaceScore(candidates[top], regional) - RunnerUpScore(candidates, top, regional) >= Margin

\* score_candidates: "auto_adopt" with the adopted one, "needs_confirmation" or "no_result".
Adoption(candidates, regional, generic) ==
  LET top   == Top(candidates, regional)
      score == PlaceScore(candidates[top], regional)
  IN  IF eligible(candidates) = {} THEN [action |-> "no_result"]
      ELSE IF score < Confirm THEN [action |-> "no_result"]
      ELSE IF /\ score >= AutoAdopt /\ clear(candidates, top, regional)
              /\ regional /\ candidates[top].here /\ ~generic
           THEN [action |-> "auto_adopt", place |-> candidates[top]]
           ELSE [action |-> "needs_confirmation"]
=============================================================================
