-------------------------- MODULE MC_VersionCommit --------------------------
(***************************************************************************)
(* Small instances of VersionCommit: which operation each run performs.    *)
(***************************************************************************)
EXTENDS VersionCommit, TLC

CONSTANTS c,    \* the creation task of the routebook
          q,    \* a requirement message
          p,    \* an itinerary task
          n,    \* an enrichment task
          e, f, \* two direct edits
          x,    \* an edit that waits for confirmation, and its acceptance
          u     \* an undo

MCKindOf == [r \in Runs |->
  CASE r = c -> "create"
    [] r = q -> "requirement"
    [] r = p -> "plan"
    [] r = n -> "enrich"
    [] r \in {e, f} -> "edit"
    [] r = x -> "accept"
    [] r = u -> "undo"]

\* Attempts are interchangeable (they are also the version ids).
Interchangeable == Permutations(Attempts)
=============================================================================
