---------------------------- MODULE VersionChain ----------------------------
(***************************************************************************)
(* What the version store of one routebook promises (ADR-0002, ADR-0003),  *)
(* with no transaction, lock, worker or crash in sight: an append-only     *)
(* history in which every version belongs to one workflow run, every run   *)
(* owns at most one version, and the content of a version is its           *)
(* predecessor's content changed by its run, or, for an undo, the content  *)
(* of the version before its predecessor.                                  *)
(*                                                                         *)
(* The position of a version in the history is its version_number; the     *)
(* last one is routebooks.current_version_id.  The content of a snapshot   *)
(* is abstracted to the set of runs whose change it contains: the empty    *)
(* RouteBookSnapshotV1 is {}.                                              *)
(***************************************************************************)
EXTENDS Naturals, Sequences

CONSTANTS Runs,      \* workflow run identifiers
          Versions   \* version identifiers (uuid4)

VARIABLE history     \* the versions of the routebook, oldest first

Version == [id : Versions, run : Runs, content : SUBSET Runs]

ContentAt(n) == IF n = 0 THEN {} ELSE history[n].content

Fresh(v, r) ==
  \A n \in 1..Len(history) : history[n].id # v /\ history[n].run # r

Record(v, r, c) ==
  /\ Fresh(v, r)
  /\ history' = Append(history, [id |-> v, run |-> r, content |-> c])

-----------------------------------------------------------------------------

ChainInit == history = <<>>

\* The first, empty version of a routebook.
Initialise(v, r) == history = <<>> /\ Record(v, r, {})

\* A run adds its change to the latest version.
Apply(v, r) == Record(v, r, ContentAt(Len(history)) \union {r})

\* A run restores what the latest version replaced, as a new version.
Undo(v, r) == Len(history) >= 2 /\ Record(v, r, ContentAt(Len(history) - 1))

ChainNext ==
  \E v \in Versions, r \in Runs : Initialise(v, r) \/ Apply(v, r) \/ Undo(v, r)

ChainSpec == ChainInit /\ [][ChainNext]_history

\* The same, from the moment the routebook has its first version.
Founded == \E v \in Versions, r \in Runs : history = <<[id |-> v, run |-> r, content |-> {}]>>

FoundedSpec == Founded /\ [][ChainNext]_history

-----------------------------------------------------------------------------

ChainTypeOK == history \in Seq(Version)

\* A run owns one version at most, and a version id is never used twice
\* (ADR-0003: a redelivered task reuses the version it already made).
OneVersionPerRun ==
  \A m, n \in 1..Len(history) :
     history[m].run = history[n].run \/ history[m].id = history[n].id => m = n

\* No step removes, reorders or rewrites a version (ADR-0002: the version
\* repository has no update and no delete).
Immutable ==
  [][ /\ Len(history) <= Len(history')
      /\ \A n \in 1..Len(history) : history'[n] = history[n] ]_history
=============================================================================
