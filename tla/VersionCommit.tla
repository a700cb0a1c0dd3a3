---------------------------- MODULE VersionCommit ---------------------------
(***************************************************************************)
(* VersionService.commit and the transactions that call it, for the runs   *)
(* of one routebook, statement by statement on PostgreSQL's default        *)
(* READ COMMITTED isolation.                                               *)
(*                                                                         *)
(* An attempt is one execution of a committing transaction: a delivery of  *)
(* a Celery task, or an HTTP request.  The same run may be attempted       *)
(* several times and concurrently (acks_late redelivery, client retries),  *)
(* an attempt may stop at any statement (crash, lost connection, SIGTERM)  *)
(* and is then rolled back.  The version row an attempt inserts gets a     *)
(* fresh uuid4, so the attempt itself stands for the id of the version.    *)
(*                                                                         *)
(* The status column of a run, its other writers and its guards are left   *)
(* to module WorkflowRuns.                                                 *)
(*                                                                         *)
(* An operator M_X is a plausible mistake in the operator after it; a run  *)
(* with the mistake in place of the operator violates a property below.    *)
(***************************************************************************)
EXTENDS Naturals, FiniteSets

CONSTANTS Runs,        \* workflow run ids (for edit and undo: operation ids)
          Attempts,    \* executions of a committing transaction
          KindOf,      \* [Runs -> Kinds]: which operation a run performs
          NoVersion,   \* NULL in a version id column
          NoAttempt    \* nobody holds the lock

Kinds == {"create", "requirement", "plan", "enrich", "edit", "accept", "undo"}

ASSUME RunsAssumption == Runs # {}
ASSUME KindAssumption == KindOf \in [Runs -> Kinds]
ASSUME NullAssumption == NoVersion \notin Attempts /\ NoAttempt \notin Attempts

VARIABLES
  rows,       \* workflow_runs rows that are committed
  baseOf,     \* base_version_id of each run
  result,     \* result_version_id of each run
  versions,   \* ids of the committed routebook_versions rows
  ver,        \* the row each attempt inserted (visible once in versions)
  current,    \* routebooks.current_version_id
  deleted,    \* routebooks.deleted_at is set
  pc,         \* where each attempt is
  work,       \* the run each attempt executes
  base,       \* base_version_id each attempt passes to commit
  seen,       \* content of the snapshot each attempt computes its own from
  runLock,    \* who holds FOR UPDATE on (or has just inserted) the run row
  bookLock    \* strongest lock each attempt holds on the routebooks row

rowVars  == <<rows, baseOf, result>>
dataVars == <<versions, ver, current, deleted>>
lockVars == <<runLock, bookLock>>
vars == <<rowVars, dataVars, pc, work, base, seen, lockVars>>

VersionIds == Attempts \union {NoVersion}
Row        == [number : Nat, parent : VersionIds, run : Runs, content : SUBSET Runs]

Ended    == {"committed", "reused", "conflict", "aborted"}
InCommit == {"read", "insert", "switch", "finish"}
Active   == InCommit \union {"loaded", "insertrun", "book", "commit"}

-----------------------------------------------------------------------------
\* PostgreSQL's row locks on the routebook: KEY SHARE is taken by the foreign
\* key of an inserted row, NO KEY UPDATE by UPDATE, UPDATE by FOR UPDATE.
\* Two of them conflict when their strengths add up to more than 3.
Modes       == 0..3
None        == 0
KeyShare    == 1
NoKeyUpdate == 2
ForUpdate   == 3

Conflict(m, n) == m + n > 3
Stronger(m, n) == IF m < n THEN n ELSE m

BookBlockers(a, m) == {b \in Attempts \ {a} : Conflict(m, bookLock[b])}
RunBlockers(a)     == {runLock[work[a]]} \ {a, NoAttempt}

LockBookAs(a, m) == bookLock' = [bookLock EXCEPT ![a] = Stronger(@, m)]
LockRun(a)       == runLock' = [runLock EXCEPT ![work[a]] = a]

M_BookLockKept(a) ==
  /\ runLock'  = [r \in Runs |-> IF runLock[r] = a THEN NoAttempt ELSE runLock[r]]
  /\ UNCHANGED bookLock

Release(a) ==
  /\ runLock'  = [r \in Runs |-> IF runLock[r] = a THEN NoAttempt ELSE runLock[r]]
  /\ bookLock' = [bookLock EXCEPT ![a] = None]

Goto(a, l) == pc' = [pc EXCEPT ![a] = l]

\* The transaction ends without effect: rollback, or nothing was written.
End(a, l) == Goto(a, l) /\ Release(a) /\ UNCHANGED <<rowVars, dataVars, work, base, seen>>

-----------------------------------------------------------------------------
Content(v) == IF v = NoVersion THEN {} ELSE ver[v].content
Parent(v)  == IF v = NoVersion THEN NoVersion ELSE ver[v].parent
Depth(v)   == IF v = NoVersion THEN 0 ELSE ver[v].number
Kind(a)    == KindOf[work[a]]
Owners(r)  == {v \in versions : ver[v].run = r}

\* The content of the snapshot the attempt saves.
NewContent(a) == IF Kind(a) \in {"create", "undo"} THEN seen[a] ELSE seen[a] \union {work[a]}

M_UndoBranches(a) ==
  [number |-> Depth(base[a]) + 1,
   parent |-> IF Kind(a) = "undo" THEN Parent(base[a]) ELSE base[a],
   run |-> work[a], content |-> NewContent(a)]

\* The row inserted by VersionService.commit: numbered after its base.
VersionRow(a) ==
  [number |-> Depth(base[a]) + 1, parent |-> base[a], run |-> work[a],
   content |-> NewContent(a)]

NoRow == [number |-> 0, parent |-> NoVersion, run |-> CHOOSE r \in Runs : TRUE, content |-> {}]

Init ==
  /\ rows = {r \in Runs : KindOf[r] = "create"}
  /\ baseOf = [r \in Runs |-> NoVersion]
  /\ result = [r \in Runs |-> NoVersion]
  /\ versions = {}
  /\ ver = [a \in Attempts |-> NoRow]
  /\ current = NoVersion
  /\ deleted = FALSE
  /\ pc = [a \in Attempts |-> "idle"]
  /\ work = [a \in Attempts |-> CHOOSE r \in Runs : TRUE]
  /\ base = [a \in Attempts |-> NoVersion]
  /\ seen = [a \in Attempts |-> {}]
  /\ runLock = [r \in Runs |-> NoAttempt]
  /\ bookLock = [a \in Attempts |-> None]

-----------------------------------------------------------------------------
\* A new run row needs a lock on the routebook, and starts from a version.
StartsFrom(r, m, v) ==
  /\ \A a \in Attempts : ~Conflict(bookLock[a], m)
  /\ baseOf' = [baseOf EXCEPT ![r] = v]

\* A requirement message locks the routebook; a plan inserts its run under the
\* foreign key's lock.  Both start from the current version.
StartRequirement(r) == KindOf[r] = "requirement" /\ StartsFrom(r, ForUpdate, current)
StartPlan(r) == KindOf[r] = "plan" /\ current # NoVersion /\ StartsFrom(r, KeyShare, current)

\* The itinerary task queues an enrichment of the version it has committed, an
\* edit waits for confirmation: current when it was read, perhaps not any more.
QueueEnrichment(r) ==
  KindOf[r] = "enrich" /\ \E v \in versions : StartsFrom(r, KeyShare, v)
ProposeEdit(r) ==
  KindOf[r] = "accept" /\ \E v \in versions : StartsFrom(r, NoKeyUpdate, v)

CreateRow(r) ==
  /\ r \notin rows /\ ~deleted
  /\ StartRequirement(r) \/ StartPlan(r) \/ QueueEnrichment(r) \/ ProposeEdit(r)
  /\ rows' = rows \union {r}
  /\ UNCHANGED <<result, dataVars, pc, work, base, seen, lockVars>>

\* DELETE /api/routebooks/{id}: one transaction that locks the routebook.
SoftDelete ==
  /\ ~deleted
  /\ \A a \in Attempts : bookLock[a] = None
  /\ deleted' = TRUE
  /\ UNCHANGED <<rowVars, versions, ver, current, pc, work, base, seen, lockVars>>

\* What an attempt reads in an earlier transaction, or before it takes a lock.
Reads(a, v) ==
  /\ base' = [base EXCEPT ![a] = v]
  /\ seen' = [seen EXCEPT ![a] = Content(v)]

\* A task, or the acceptance of a proposal, works from the base of its run.
LoadRun(a, r) ==
  /\ KindOf[r] \in {"create", "enrich", "requirement", "accept"} /\ r \in rows
  /\ Reads(a, baseOf[r])
  /\ Goto(a, IF KindOf[r] \in {"create", "enrich"} THEN "commit" ELSE "loaded")

\* The itinerary task and a direct edit work from the current version.
LoadInput(a, r) ==
  /\ KindOf[r] = "plan" /\ r \in rows /\ current # NoVersion /\ ~deleted
  /\ Reads(a, current) /\ Goto(a, "loaded")
LoadCurrent(a, r) ==
  /\ KindOf[r] = "edit" /\ current # NoVersion /\ ~deleted
  /\ Reads(a, current) /\ Goto(a, "loaded")

\* An undo first looks for the run of the same operation.
FindUndo(a, r) ==
  /\ KindOf[r] = "undo"
  /\ Goto(a, IF r \in rows THEN "reused" ELSE "book")
  /\ UNCHANGED <<base, seen>>

Load(a, r) ==
  /\ pc[a] = "idle"
  /\ work' = [work EXCEPT ![a] = r]
  /\ LoadRun(a, r) \/ LoadInput(a, r) \/ LoadCurrent(a, r) \/ FindUndo(a, r)
  /\ UNCHANGED <<rowVars, dataVars, lockVars>>

-----------------------------------------------------------------------------
\* EditingPersistenceService.execute: the operation was already executed, or
\* its run row is to be inserted.
FindOperation(a) ==
  /\ pc[a] = "loaded" /\ Kind(a) = "edit"
  /\ Goto(a, IF work[a] \in rows THEN "reused" ELSE "insertrun")
  /\ UNCHANGED <<rowVars, dataVars, work, base, seen, lockVars>>

InsertRunBlockers(a) == RunBlockers(a) \union BookBlockers(a, KeyShare)

M_RunCommittedFirst(a) ==
  /\ pc[a] = "insertrun" /\ InsertRunBlockers(a) = {} /\ work[a] \notin rows
  /\ rows' = rows \union {work[a]}
  /\ LockRun(a) /\ LockBookAs(a, KeyShare) /\ Goto(a, "commit")
  /\ UNCHANGED <<baseOf, result, dataVars, work, base, seen>>

\* The insert waits for a concurrent insert of the same primary key, and fails
\* if that one committed.
InsertRun(a) ==
  /\ pc[a] = "insertrun" /\ InsertRunBlockers(a) = {}
  /\ \/ /\ work[a] \in rows
        /\ End(a, "aborted")
     \/ /\ work[a] \notin rows
        /\ LockRun(a) /\ LockBookAs(a, KeyShare)
        /\ Goto(a, "commit")
        /\ UNCHANGED <<rowVars, dataVars, work, base, seen>>

\* The itinerary task and resolve_proposal lock the run before the routebook;
\* a proposal that is already accepted hands out its version.
LockRunFirst(a) ==
  /\ pc[a] = "loaded" /\ Kind(a) \in {"plan", "accept"}
  /\ RunBlockers(a) = {}
  /\ \/ Kind(a) = "accept" /\ Owners(work[a]) # {} /\ End(a, "reused")
     \/ /\ Kind(a) = "plan" \/ Owners(work[a]) = {}
        /\ LockRun(a)
        /\ Goto(a, "book")
        /\ UNCHANGED <<rowVars, dataVars, work, base, seen, bookLock>>

LockBook(a) ==
  /\ pc[a] = "book" /\ Kind(a) \in {"plan", "accept"}
  /\ BookBlockers(a, ForUpdate) = {}
  /\ \/ deleted /\ End(a, "aborted")
     \/ ~deleted /\ Kind(a) = "accept" /\ current # base[a] /\ End(a, "conflict")
     \/ /\ ~deleted /\ (Kind(a) = "plan" \/ current = base[a])
        /\ LockBookAs(a, ForUpdate)
        /\ Goto(a, "commit")
        /\ UNCHANGED <<rowVars, dataVars, work, base, seen, runLock>>

M_AdoptAnything(a) == base[a] = NoVersion

\* VersionService.resolve_requirement_base: a run without a base adopts the
\* empty first version that the creation task committed meanwhile.
MayAdopt(a)     == base[a] = NoVersion /\ Content(current) = {}
AdoptCurrent(a) == base' = [base EXCEPT ![a] = current]

ResolveRequirementBase(a) ==
  /\ pc[a] = "loaded" /\ Kind(a) = "requirement"
  /\ BookBlockers(a, ForUpdate) = {}
  /\ \/ deleted /\ End(a, "aborted")
     \/ ~deleted /\ current # base[a] /\ ~MayAdopt(a) /\ End(a, "conflict")
     \/ /\ ~deleted
        /\ current = base[a] \/ MayAdopt(a)
        /\ AdoptCurrent(a)
        /\ LockBookAs(a, ForUpdate)
        /\ Goto(a, "commit")
        /\ UNCHANGED <<rowVars, dataVars, work, seen, runLock>>

\* EditingPersistenceService.undo: lock the routebook, take its current version
\* as base, the content of that version's parent, and insert the run row.
PrepareUndo(a) ==
  /\ pc[a] = "book" /\ Kind(a) = "undo"
  /\ BookBlockers(a, ForUpdate) \union RunBlockers(a) = {}
  /\ \/ /\ deleted \/ Parent(current) = NoVersion \/ work[a] \in rows
        /\ End(a, "aborted")
     \/ /\ ~deleted /\ Parent(current) # NoVersion /\ work[a] \notin rows
        /\ base' = [base EXCEPT ![a] = current]
        /\ seen' = [seen EXCEPT ![a] = Content(Parent(current))]
        /\ LockBookAs(a, ForUpdate) /\ LockRun(a)
        /\ Goto(a, "commit")
        /\ UNCHANGED <<rowVars, dataVars, work>>

-----------------------------------------------------------------------------
\* VersionService.commit: lock the run; reuse the version it already has.
EnterCommit(a) ==
  /\ pc[a] = "commit" /\ RunBlockers(a) = {}
  /\ \/ Owners(work[a]) # {} /\ End(a, "reused")
     \/ /\ Owners(work[a]) = {}
        /\ LockRun(a)
        /\ Goto(a, "read")
        /\ UNCHANGED <<rowVars, dataVars, work, base, seen, bookLock>>

M_ReadForUpdate == ForUpdate

\* commit reads the routebook without FOR UPDATE.
ReadMode == None

M_Rebase(a) ==
  /\ pc[a] = "read" /\ BookBlockers(a, ReadMode) = {}
  /\ \/ deleted /\ End(a, "aborted")
     \/ /\ ~deleted
        /\ base' = [base EXCEPT ![a] = current]
        /\ Goto(a, "insert")
        /\ UNCHANGED <<rowVars, dataVars, work, seen, lockVars>>

\* The pointer read is compared with the base.
ReadBook(a) ==
  /\ pc[a] = "read" /\ BookBlockers(a, ReadMode) = {}
  /\ \/ deleted /\ End(a, "aborted")
     \/ ~deleted /\ current # base[a] /\ End(a, "conflict")
     \/ /\ ~deleted /\ current = base[a]
        /\ LockBookAs(a, ReadMode)
        /\ Goto(a, "insert")
        /\ UNCHANGED <<rowVars, dataVars, work, base, seen, runLock>>

\* Unique indexes: an insert waits for an uncommitted row with its key and
\* fails on a committed one.
SameKey(v, row) == ver[v].number = row.number \/ ver[v].run = row.run

InsertBlockers(a) ==
  BookBlockers(a, KeyShare) \union
  {b \in Attempts \ {a} : pc[b] \in {"switch", "finish"} /\ SameKey(b, VersionRow(a))}

InsertVersion(a) ==
  /\ pc[a] = "insert" /\ InsertBlockers(a) = {}
  /\ \/ (\E v \in versions : SameKey(v, VersionRow(a))) /\ End(a, "conflict")
     \/ /\ \A v \in versions : ~SameKey(v, VersionRow(a))
        /\ ver' = [ver EXCEPT ![a] = VersionRow(a)]
        /\ LockBookAs(a, KeyShare)
        /\ Goto(a, "switch")
        /\ UNCHANGED <<rowVars, versions, current, deleted, work, base, seen, runLock>>

\* UPDATE routebooks ... WHERE current_version_id = base: waits for the row,
\* then evaluates its condition on the latest committed value.
SwitchCurrent(a) ==
  /\ pc[a] = "switch" /\ BookBlockers(a, NoKeyUpdate) = {}
  /\ \/ current # base[a] /\ End(a, "conflict")
     \/ /\ current = base[a]
        /\ LockBookAs(a, NoKeyUpdate)
        /\ Goto(a, "finish")
        /\ UNCHANGED <<rowVars, dataVars, work, base, seen, runLock>>

M_ResultForgotten(a) == UNCHANGED result

\* The run's result_version_id names the version; its status is left to
\* module WorkflowRuns.
CompleteRun(a) == result' = [result EXCEPT ![work[a]] = a]

\* The run is completed and the transaction commits: version, pointer, run
\* row and result become visible together.
FinishCommit(a) ==
  /\ pc[a] = "finish"
  /\ versions' = versions \union {a}
  /\ current' = a
  /\ rows' = rows \union {work[a]}
  /\ baseOf' = IF work[a] \in rows THEN baseOf ELSE [baseOf EXCEPT ![work[a]] = base[a]]
  /\ CompleteRun(a)
  /\ Goto(a, "committed") /\ Release(a)
  /\ UNCHANGED <<ver, deleted, work, base, seen>>

\* Crash, lost connection, revoke, statement error: everything is undone.
Rollback(a) == pc[a] \in Active /\ End(a, "aborted")

Step(a) ==
  \/ FindOperation(a) \/ InsertRun(a) \/ LockRunFirst(a) \/ LockBook(a)
  \/ ResolveRequirementBase(a) \/ PrepareUndo(a)
  \/ EnterCommit(a) \/ ReadBook(a) \/ InsertVersion(a) \/ SwitchCurrent(a)
  \/ FinishCommit(a)

Next ==
  \/ \E r \in Runs : CreateRow(r)
  \/ SoftDelete
  \/ \E a \in Attempts, r \in Runs : Load(a, r)
  \/ \E a \in Attempts : Step(a) \/ Rollback(a)

Spec == Init /\ [][Next]_vars

\* A transaction that has begun runs until it ends: nothing is asked of users,
\* of crashes or of redelivery.
FairSpec == Spec /\ \A a \in Attempts : WF_vars(Step(a))

-----------------------------------------------------------------------------
TypeOK ==
  /\ rows \subseteq Runs
  /\ baseOf \in [Runs -> VersionIds]
  /\ result \in [Runs -> VersionIds]
  /\ versions \subseteq Attempts
  /\ ver \in [Attempts -> Row]
  /\ current \in VersionIds
  /\ deleted \in BOOLEAN
  /\ pc \in [Attempts -> Active \union Ended \union {"idle"}]
  /\ work \in [Attempts -> Runs]
  /\ base \in [Attempts -> VersionIds]
  /\ seen \in [Attempts -> SUBSET Runs]
  /\ runLock \in [Runs -> Attempts \union {NoAttempt}]
  /\ bookLock \in [Attempts -> Modes]

\* One version per run, however often its task is delivered or its request is
\* retried, and the run's result_version_id names it (ADR-0003).
OneVersionPerRun ==
  \A r \in Runs : Owners(r) = IF result[r] = NoVersion THEN {} ELSE {result[r]}

\* The versions form one line without gap or branch: the current one is the
\* last, each parent is numbered just before its child (ADR-0002).
LinearHistory ==
  /\ \A v \in versions :
        /\ ver[v].number = Depth(ver[v].parent) + 1
        /\ ver[v].parent \in versions \union {NoVersion}
        /\ ver[v].number <= Depth(current)
  /\ \A v, w \in versions : ver[v].number = ver[w].number => v = w
  /\ IF versions = {} THEN current = NoVersion ELSE current \in versions

\* A committed version contains its parent's content and its own change, an
\* undo the content its parent replaced: no concurrent change is lost, and
\* adopting a version somebody else created drops nothing.
NoLostUpdate ==
  \A v \in versions :
    LET kind == KindOf[ver[v].run]
    IN  /\ kind = "create" => ver[v].content = {}
        /\ kind = "undo" => ver[v].content = Content(Parent(ver[v].parent))
        /\ kind \notin {"create", "undo"} =>
              ver[v].content = Content(ver[v].parent) \union {ver[v].run}

\* An attempt told "already done" can hand out a result: the run row of an
\* edit or undo is never visible before its version.
ReuseHasResult ==
  \A a \in Attempts : pc[a] = "reused" => result[work[a]] \in versions

\* The inductive strengthening of the four invariants above.

\* Row locks held together are compatible.
LocksCompatible ==
  \A a, b \in Attempts : a # b => ~Conflict(bookLock[a], bookLock[b])

\* From the moment it has seen no version of its run until it ends, an attempt
\* owns the run's row, and no version of the run appears.
RunOwned ==
  \A a \in Attempts : pc[a] \in InCommit =>
     runLock[work[a]] = a /\ Owners(work[a]) = {}

\* Rows point to committed versions, and an attempt's row is committed with it.
PointersValid ==
  /\ \A a \in Attempts : base[a] \in versions \union {NoVersion}
  /\ \A r \in Runs : baseOf[r] \in versions \union {NoVersion}
  /\ \A a \in versions : pc[a] = "committed"

\* What an attempt is about to save was computed from its base.
SavesFromBase(a) ==
  /\ Kind(a) = "create" => base[a] = NoVersion /\ seen[a] = {}
  /\ Kind(a) = "undo" /\ pc[a] # "book" =>
       Parent(base[a]) # NoVersion /\ seen[a] = Content(Parent(base[a]))
  /\ Kind(a) \notin {"create", "undo"} => seen[a] = Content(base[a])

SeenFromBase ==
  /\ \A r \in Runs : KindOf[r] = "create" => r \in rows /\ baseOf[r] = NoVersion
  /\ \A a \in Attempts : pc[a] \in Active => SavesFromBase(a)

\* The uncommitted row follows its base, and once the pointer is switched the
\* base stays current: the routebook row is locked against other updates.
InsertedRow ==
  \A a \in Attempts :
     /\ pc[a] \in {"switch", "finish"} => ver[a] = VersionRow(a)
     /\ pc[a] = "finish" => bookLock[a] >= NoKeyUpdate /\ current = base[a]

\* There is a version of every number up to the current one's.
NoGap == \A k \in 1..Depth(current) : \E v \in versions : ver[v].number = k

\* The row of an edit or undo is committed together with its version.
OperationRows ==
  /\ \A r \in rows : KindOf[r] \in {"edit", "undo"} => Owners(r) # {}
  /\ \A a \in Attempts : pc[a] = "reused" => Owners(work[a]) # {}

\* All of it: what every statement of every attempt preserves.
IInv ==
  /\ TypeOK /\ OneVersionPerRun /\ LinearHistory /\ NoLostUpdate
  /\ LocksCompatible /\ RunOwned /\ PointersValid /\ SeenFromBase
  /\ InsertedRow /\ NoGap /\ OperationRows

\* Whom the next statement of an attempt waits for.
Blockers(a) ==
  CASE pc[a] = "insertrun" -> InsertRunBlockers(a)
    [] pc[a] = "loaded" /\ Kind(a) \in {"plan", "accept"} -> RunBlockers(a)
    [] pc[a] = "loaded" /\ Kind(a) = "requirement" -> BookBlockers(a, ForUpdate)
    [] pc[a] = "book" /\ Kind(a) = "undo" -> BookBlockers(a, ForUpdate) \union RunBlockers(a)
    [] pc[a] = "book" /\ Kind(a) # "undo" -> BookBlockers(a, ForUpdate)
    [] pc[a] = "commit" -> RunBlockers(a)
    [] pc[a] = "read" -> BookBlockers(a, ReadMode)
    [] pc[a] = "insert" -> InsertBlockers(a)
    [] pc[a] = "switch" -> BookBlockers(a, NoKeyUpdate)
    [] OTHER -> {}

\* The committing transactions never wait for one another in a circle, though
\* some lock run before routebook and others routebook before run.
NoLockCycle ==
  ~ \E S \in (SUBSET Attempts) \ {{}} : \A a \in S : Blockers(a) \cap S # {}

\* Every transaction that begins comes to an end.
Terminates == \A a \in Attempts : pc[a] # "idle" ~> pc[a] \in Ended

-----------------------------------------------------------------------------
\* The history the rows stand for: versions in the order of their numbers.
VersionAt(n) == CHOOSE v \in versions : ver[v].number = n
Entry(v)     == [id |-> v, run |-> ver[v].run, content |-> ver[v].content]
History      == [n \in 1..Depth(current) |-> Entry(VersionAt(n))]

Chain == INSTANCE VersionChain WITH Versions <- Attempts, history <- History

\* The transactions implement the append-only history.
ImplementsChain == Chain!ChainSpec
=============================================================================
