------------------------ MODULE MC_RoutebookDecisions ------------------------
(***************************************************************************)
(* A small instance of RoutebookDecisions.                                 *)
(***************************************************************************)
EXTENDS RoutebookDecisions, TLC

CONSTANTS e,       \* an edit that is saved at once
          x,       \* an edit that needs confirmation
          k,       \* another run's commit, after which the itinerary is not fit to be final
          r, s     \* requests

MCChanges == Edits \union Majors \union Others

\* Pages are interchangeable, and so are requests.
Interchangeable == Permutations(Pages) \union Permutations(Requests)
=============================================================================
