----------------------------- MODULE RoutebookRow -----------------------------
(***************************************************************************)
(* The rows that edits, proposals and final pages share: one routebook and *)
(* its versions.  VersionCommit shows that versions form one line and are  *)
(* saved on the version they were computed from, so a version is its       *)
(* number here, a commit is one step, and a snapshot is the set of changes *)
(* it contains.  Version 1 has no parent, so it cannot be undone.          *)
(***************************************************************************)
EXTENDS Naturals

CONSTANTS Changes,     \* whatever may change a snapshot: the ids of operations
          Harmful,     \* changes that leave an itinerary which must not be final
          MaxVersions  \* bound on the versions ever saved

ASSUME HarmfulAssumption == Harmful \subseteq Changes
ASSUME BoundAssumption   == MaxVersions \in Nat \ {0}

VARIABLES
  current,  \* number of the version current_version_id points to
  content,  \* the snapshot of each version, once saved
  deleted   \* deleted_at is set

bookVars == <<current, content, deleted>>

Versions  == 1..MaxVersions
NoVersion == 0

BookTypeOK ==
  /\ current \in Versions
  /\ content \in [Versions -> SUBSET Changes]
  /\ deleted \in BOOLEAN

BookInit == current = 1 /\ content = [v \in Versions |-> {}] /\ deleted = FALSE

Saved == 1..current

\* VersionService.commit of snapshot c computed from version b.
Commit(b, c) ==
  /\ ~deleted /\ current = b
  /\ current < MaxVersions
  /\ current' = current + 1
  /\ content' = [content EXCEPT ![current + 1] = c]
  /\ UNCHANGED deleted

\* DELETE /api/routebooks/{id} marks the row; it is never removed.
SoftDelete == ~deleted /\ deleted' = TRUE /\ UNCHANGED <<current, content>>
=============================================================================
