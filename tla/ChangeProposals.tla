--------------------------- MODULE ChangeProposals ---------------------------
(***************************************************************************)
(* The life of edits: a request computes a plan from the version it loads, *)
(* a plan that needs confirmation becomes a proposal, others are saved, a  *)
(* proposal is accepted, rejected or found outdated, the last change is    *)
(* undone, and other runs commit in between.  Every transaction locks the  *)
(* rows it decides on, so each is one action; what a request reads in an   *)
(* earlier transaction, and the steps of the requirement task that resume  *)
(* sends for a proposal's run, are apart.                                  *)
(***************************************************************************)
EXTENDS RoutebookRow

CONSTANTS Edits,     \* operation ids of edits that are saved at once
          Majors,    \* operation ids of edits that need confirmation
          Undos,     \* operation ids of undos
          Others,    \* runs of other kinds that commit to the routebook
          Requests,  \* executions of POST .../edits
          Routed,    \* edits whose preview holds facts fetched for the request
          NoRequest  \* the plan of an edit without such facts

Ops == Edits \union Majors \union Undos

ASSUME OpsAssumption ==
  /\ Changes = Edits \union Majors \union Others
  /\ Routed \subseteq Edits \union Majors
  /\ Edits \intersect Majors = {} /\ Undos \intersect Changes = {}
  /\ Others \intersect Ops = {} /\ Edits \union Majors # {}
ASSUME RequestAssumption == NoRequest \notin Requests

VARIABLES
  run,       \* status of each operation's run, "none" before it is inserted
  result,    \* result_version_id of each run
  proposal,  \* status of the proposal of each operation, "none" without one
  base,      \* its base_version_id
  preview,   \* its preview snapshot
  print,     \* fingerprint of the plan an operation was executed with
  refused,   \* proposals whose decision was answered with VERSION_CONFLICT
  at, op, loaded,  \* each request: how far, its operation, the version it loaded
  task,      \* the requirement task that resume sends for a run
  owed       \* cancelled runs whose cancellation is not published yet

proposalVars == <<run, result, proposal, base, preview, print, refused>>
requestVars  == <<at, op, loaded>>
taskVars     == <<task, owed>>
editVars     == <<proposalVars, requestVars, taskVars>>

Prints    == (Versions \union {NoVersion}) \X (Requests \union {NoRequest})
NoPrint   == <<NoVersion, NoRequest>>
RunStates == {"none", "queued", "running", "interrupted", "completed", "failed", "cancelled"}
Executed  == {"saved", "proposed"}
AnyOp     == CHOOSE o \in Edits \union Majors : TRUE

EditTypeOK ==
  /\ run \in [Ops -> RunStates]
  /\ result \in [Ops -> Versions \union {NoVersion}]
  /\ proposal \in [Ops -> {"none", "pending", "accepted", "rejected"}]
  /\ base \in [Ops -> Versions \union {NoVersion}]
  /\ preview \in [Ops -> SUBSET Changes]
  /\ print \in [Ops -> Prints]
  /\ refused \subseteq Majors
  /\ at \in [Requests -> {"idle", "loaded", "saved", "proposed", "reused", "refused"}]
  /\ op \in [Requests -> Edits \union Majors]
  /\ loaded \in [Requests -> Versions \union {NoVersion}]
  /\ task \in [Ops -> {"none", "sent", "marked", "working", "failing"}]
  /\ owed \subseteq Majors

EditInit ==
  /\ run = [o \in Ops |-> "none"]
  /\ result = [o \in Ops |-> NoVersion]
  /\ proposal = [o \in Ops |-> "none"]
  /\ base = [o \in Ops |-> NoVersion]
  /\ preview = [o \in Ops |-> {}]
  /\ print = [o \in Ops |-> NoPrint]
  /\ refused = {}
  /\ at = [r \in Requests |-> "idle"]
  /\ op = [r \in Requests |-> AnyOp]
  /\ loaded = [r \in Requests |-> NoVersion]
  /\ task = [o \in Ops |-> "none"]
  /\ owed = {}

-----------------------------------------------------------------------------
\* The first transaction of a request, and the plan it computes afterwards.
\* Any number of requests may carry one operation id: retries, double clicks.
LoadCurrent(r, o) ==
  /\ at[r] = "idle" /\ o \in Edits \union Majors /\ ~deleted
  /\ at' = [at EXCEPT ![r] = "loaded"]
  /\ op' = [op EXCEPT ![r] = o]
  /\ loaded' = [loaded EXCEPT ![r] = current]
  /\ UNCHANGED <<bookVars, proposalVars, taskVars>>

Answer(r, a) == at' = [at EXCEPT ![r] = a] /\ UNCHANGED <<op, loaded>>

\* The fingerprint hashes the whole plan: the preview, hence the version it was
\* computed from, and the facts fetched for it.
Fingerprint(r) == <<loaded[r], IF op[r] \in Routed THEN r ELSE NoRequest>>

\* The operation has a run already: its outcome is handed out again, if the
\* plan is the same.
FindExecuted(r) ==
  /\ run[op[r]] # "none"
  /\ Answer(r, IF print[op[r]] = Fingerprint(r) THEN "reused" ELSE "refused")
  /\ UNCHANGED <<bookVars, proposalVars, taskVars>>

M_IsNewAlways(o) == TRUE

IsNew(o) == run[o] = "none"

Proposed(r, o, b) ==
  /\ o \in Majors
  /\ run' = [run EXCEPT ![o] = "interrupted"]
  /\ proposal' = [proposal EXCEPT ![o] = "pending"]
  /\ base' = [base EXCEPT ![o] = b]
  /\ preview' = [preview EXCEPT ![o] = content[loaded[r]] \union {o}]
  /\ print' = [print EXCEPT ![o] = Fingerprint(r)]
  /\ Answer(r, "proposed")
  /\ UNCHANGED <<bookVars, result, refused, taskVars>>

\* A plan that needs confirmation is stored.  Nobody compares its base with the
\* current version, and nobody looks whether the routebook is deleted.
Propose(r, o) == Proposed(r, o, loaded[r])

\* Other plans are saved at once.
Saves(r, o) ==
  /\ Commit(loaded[r], content[loaded[r]] \union {o})
  /\ run' = [run EXCEPT ![o] = "completed"]
  /\ result' = [result EXCEPT ![o] = current + 1]
  /\ print' = [print EXCEPT ![o] = Fingerprint(r)]
  /\ Answer(r, "saved")
  /\ UNCHANGED <<proposal, base, preview, refused, taskVars>>

M_SaveUnconfirmed(r, o) == Saves(r, o)

SaveEdit(r, o) == o \in Edits /\ Saves(r, o)

\* A commit on an outdated base rolls the inserted run back too.
EditConflicts(r, o) ==
  /\ o \in Edits /\ (deleted \/ current # loaded[r])
  /\ Answer(r, "refused")
  /\ UNCHANGED <<bookVars, proposalVars, taskVars>>

Execute(r) ==
  /\ at[r] = "loaded"
  /\ \/ FindExecuted(r)
     \/ /\ IsNew(op[r])
        /\ Propose(r, op[r]) \/ SaveEdit(r, op[r]) \/ EditConflicts(r, op[r])

-----------------------------------------------------------------------------
\* resolve_proposal goes on with a pending proposal on the current version.  A
\* resolved one is answered without any change.
MayResolve(o) == proposal[o] = "pending" /\ ~deleted /\ current = base[o]

Accepted(o) ==
  /\ proposal' = [proposal EXCEPT ![o] = "accepted"]
  /\ run' = [run EXCEPT ![o] = "completed"]
  /\ result' = [result EXCEPT ![o] = current + 1]
  /\ UNCHANGED <<base, preview, print, refused, requestVars, taskVars>>

M_AcceptOutdated(o) ==
  proposal[o] = "pending" /\ Commit(current, preview[o]) /\ Accepted(o)

Accept(o) == MayResolve(o) /\ Commit(base[o], preview[o]) /\ Accepted(o)

Reject(o) ==
  /\ MayResolve(o)
  /\ proposal' = [proposal EXCEPT ![o] = "rejected"]
  /\ run' = [run EXCEPT ![o] = "cancelled"]
  /\ UNCHANGED <<bookVars, result, base, preview, print, refused, requestVars, taskVars>>

\* On another version the proposal is marked expired and its run failed, and
\* the exception that answers VERSION_CONFLICT rolls the transaction back.
RefuseOutdated(o) ==
  /\ proposal[o] = "pending" /\ ~deleted /\ current # base[o]
  /\ refused' = refused \union {o}
  /\ UNCHANGED <<bookVars, run, result, proposal, base, preview, print, requestVars, taskVars>>

M_UndoMovesBack ==
  ~deleted /\ current > 1 /\ current' = current - 1 /\ UNCHANGED <<content, deleted>>

\* The content of the current version's parent becomes a new version.
SaveParent == current > 1 /\ Commit(current, content[current - 1])

Undo(o) ==
  /\ o \in Undos /\ run[o] = "none" /\ SaveParent
  /\ run' = [run EXCEPT ![o] = "completed"]
  /\ result' = [result EXCEPT ![o] = current']
  /\ UNCHANGED <<proposal, base, preview, print, refused, requestVars, taskVars>>

\* A requirement, itinerary or enrichment task commits.
OtherCommit(x) ==
  /\ x \in Others /\ \A v \in Saved : x \notin content[v]
  /\ Commit(current, content[current] \union {x})
  /\ UNCHANGED editVars

-----------------------------------------------------------------------------
SetRun(o, s) == run' = [run EXCEPT ![o] = s]
Task(o, s)   == task' = [task EXCEPT ![o] = s]
Elsewhere    == UNCHANGED <<bookVars, result, proposal, base, preview, print, refused, requestVars>>

\* POST .../resume takes any interrupted run, also one that waits for the
\* confirmation of its proposal, and sends a requirement task for it.
Resume(o) ==
  /\ run[o] = "interrupted" /\ task[o] = "none"
  /\ SetRun(o, "queued") /\ Task(o, "sent") /\ UNCHANGED owed

\* mark_requirement_running, and the event that reports it.
MarkRequirementRunning(o) ==
  /\ task[o] = "sent" /\ UNCHANGED owed
  /\ \/ run[o] = "completed" /\ Task(o, "none") /\ UNCHANGED run
     \/ run[o] # "completed" /\ Task(o, "marked") /\ SetRun(o, "running")

ReportRunning(o) ==
  task[o] = "marked" /\ Task(o, "working") /\ SetRun(o, "running") /\ UNCHANGED owed

\* A run that came from an edit has no conversation to resume: the graph raises
\* an error, and the run is marked failed unless it has completed.
NothingToResume(o) ==
  /\ task[o] = "working" /\ Task(o, "failing") /\ UNCHANGED owed
  /\ SetRun(o, IF run[o] = "completed" THEN "completed" ELSE "failed")

ReportFailed(o) ==
  task[o] = "failing" /\ Task(o, "none") /\ SetRun(o, "failed") /\ UNCHANGED owed

\* POST .../cancel, and the event it publishes after its transaction.
Cancel(o) ==
  /\ run[o] \in {"queued", "running"} /\ SetRun(o, "cancelled")
  /\ owed' = owed \union {o} /\ UNCHANGED task

PublishCancelled(o) ==
  o \in owed /\ owed' = owed \ {o} /\ SetRun(o, "cancelled") /\ UNCHANGED task

TaskStep(o) ==
  /\ Resume(o) \/ MarkRequirementRunning(o) \/ ReportRunning(o) \/ NothingToResume(o)
     \/ ReportFailed(o) \/ Cancel(o) \/ PublishCancelled(o)
  /\ Elsewhere

EditNext ==
  \/ \E r \in Requests : Execute(r) \/ \E o \in Edits \union Majors : LoadCurrent(r, o)
  \/ \E o \in Majors : Accept(o) \/ Reject(o) \/ RefuseOutdated(o) \/ TaskStep(o)
  \/ \E o \in Undos : Undo(o)
  \/ \E x \in Others : OtherCommit(x)
=============================================================================
