--------------------------- MODULE MC_ExternalFacts ---------------------------
(***************************************************************************)
(* A small instance of ExternalFacts: a place search, a weather fact, two  *)
(* callers, and four places to enrich with a budget of two searches.       *)
(***************************************************************************)
EXTENDS ExternalFacts, TLC

CONSTANTS search, weather, caller1, caller2, a, b, c, d, ka, kb, kc, kd

MCKeys     == {search, weather, ka, kb, kc, kd}
MCTtl      == (search :> 2) @@ [k \in MCKeys \ {search} |-> 1]
MCStaleTtl == [k \in MCKeys |-> IF k \in {search, weather} THEN 2 ELSE 0]

Candidate(name, semantic, here, address, adcode) ==
  [name |-> name, semantic |-> semantic, here |-> here, address |-> address, adcode |-> adcode]

Full(name, semantic) == Candidate(name, semantic, TRUE, TRUE, TRUE)
Bare(name, semantic) == Candidate(name, semantic, TRUE, FALSE, FALSE)

\* On both sides of the threshold 82 and of the margin 12, with the scores that
\* come next to them.
MCContents == {
  <<Bare("exact", "attraction"), Full("exact", "attraction")>>,     \* 90, 100: leads by 10
  <<Bare("exact", "attraction"), Full("exact", "unknown")>>,        \* 90, 80: leads by 10
  <<Candidate("partial", "attraction", TRUE, FALSE, TRUE),          \* 75, capped, 90: leads by 15
    Full("exact", "transit"), Bare("exact", "attraction")>>,
  <<Full("exact", "entrance"), Full("exact", "unknown"),            \* capped, 80, 61: below 82
    Candidate("exact", "attraction", FALSE, TRUE, TRUE)>> }

MCVisited  == <<c, d, a, b>>
MCPriority == (a :> 0) @@ (b :> 0) @@ (c :> 1) @@ (d :> 2)
MCKeyOf    == (a :> ka) @@ (b :> kb) @@ (c :> kc) @@ (d :> kd)
MCWork     == { [calls |-> 3, tasks |-> 0], [calls |-> 0, tasks |-> 2], [calls |-> 1, tasks |-> 1] }

\* The callers do the same things, and no property names one of them.
MCSymmetry == Permutations(Callers)
=============================================================================
