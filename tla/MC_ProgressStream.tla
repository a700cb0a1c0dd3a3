-------------------------- MODULE MC_ProgressStream -------------------------
(***************************************************************************)
(* Small instances of ProgressStream: a requirement message that asks, is  *)
(* answered and completes, and a user who may cancel it.                   *)
(***************************************************************************)
EXTENDS ProgressStream

CONSTANTS worker, user,                 \* the publishers
          run1, asks, run2, done, stop  \* their events

MCScript == [p \in Publishers |->
  IF p = worker THEN <<run1, asks, run2, done>> ELSE <<stop>>]

MCStatusOf == [e \in Events |->
  CASE e \in {run1, run2} -> "active"
    [] e \in {asks, done} -> "ended"
    [] e = stop -> "cancelled"]
=============================================================================
