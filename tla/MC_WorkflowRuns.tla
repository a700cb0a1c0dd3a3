--------------------------- MODULE MC_WorkflowRuns --------------------------
(***************************************************************************)
(* Small instances of WorkflowRuns: which task each run belongs to.        *)
(***************************************************************************)
EXTENDS WorkflowRuns, TLC

CONSTANTS c,    \* the creation run of the routebook
          q,    \* a requirement message
          m, l, \* two requests for recommendations
          p,    \* an itinerary
          n     \* an enrichment

MCKindOf == [r \in Runs |->
  CASE r = c -> "create"
    [] r = q -> "requirement"
    [] r \in {m, l} -> "recommend"
    [] r = p -> "plan"
    [] r = n -> "enrich"]

\* Messages are interchangeable.
Interchangeable == Permutations(Deliveries)
=============================================================================
