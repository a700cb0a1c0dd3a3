---------------------------- MODULE WorkflowRuns ----------------------------
(***************************************************************************)
(* The life of the workflow runs of one routebook: who writes a run's      *)
(* status, in which transaction, between which other steps.                *)
(*                                                                         *)
(* A run is started, cancelled and resumed by API handlers, executed by    *)
(* deliveries of Celery tasks, and reported by the progress publisher,     *)
(* which writes the status of the run in a transaction of its own.  Every  *)
(* step below is one transaction, or one call to the publisher, the broker *)
(* or a model; between two steps of one actor any other actor may move.    *)
(* What happens inside a committing transaction is module VersionCommit:   *)
(* a run owns one version at most, so the run stands for its version.      *)
(*                                                                         *)
(* An operator M_X is a plausible mistake in the operator after it; a run  *)
(* with the mistake in place of the operator violates a property below.    *)
(***************************************************************************)
EXTENDS Naturals, FiniteSets

CONSTANTS Runs,        \* workflow run ids
          KindOf,      \* [Runs -> Kinds]
          Deliveries,  \* Celery messages (bound: how many are ever sent)
          NoVersion,   \* NULL in a version id column
          MaxRetries,  \* max_retries of the creation and requirement tasks
          MaxCrashes,  \* bound: how often a worker process may be lost
          Trouble      \* what else may happen: "cancel", "replay", "db", "api", "duplicate"

Kinds      == {"create", "requirement", "recommend", "plan", "enrich"}
Foreground == {"recommend", "plan"}

ASSUME RunsAssumption == Runs # {}
ASSUME RunKindAssumption == KindOf \in [Runs -> Kinds]
ASSUME BoundAssumption == MaxRetries \in Nat /\ MaxCrashes \in Nat
ASSUME NoVersionAssumption == NoVersion \notin Runs

VARIABLES
  status,    \* workflow_runs.status ("none": no row yet)
  base,      \* workflow_runs.base_version_id
  versions,  \* runs whose version is committed
  current,   \* routebooks.current_version_id
  batches,   \* recommendation batches each run has saved
  asked,     \* runs with a recorded clarification question
  checked,   \* requests that have found no active run and will insert theirs
  outbox,    \* rows whose API handler has yet to send the task
  owed,      \* what API handlers have yet to do after their transaction
  revoked,   \* runs whose task id has been revoked at the workers
  pc,        \* where each delivery is
  task,      \* the run each delivery executes
  local,     \* what a delivery has loaded: the version a recommendation or
             \* a plan starts from, then the enrichment run it queues
  retries,   \* Celery's retry counter of each delivery
  crashes    \* workers lost so far

rowVars  == <<status, base, versions, current, batches, asked>>
apiVars  == <<checked, outbox, owed, revoked>>
taskVars == <<task, local, retries, crashes>>
vars     == <<rowVars, apiVars, pc, taskVars>>

Statuses == {"none", "queued", "running", "interrupted", "completed", "failed", "cancelled"}
ActiveStatuses == {"queued", "running", "interrupted"}
Busy   == {"mark", "notify", "work", "validate", "save", "ask", "interrupt", "report",
           "reuse", "reportAsk", "handover", "send", "retry", "fail", "reportFail"}
Places == Busy \union {"unused", "queued", "done"}

Kind(d)      == KindOf[task[d]]
Executing(r) == \E d \in Deliveries : task[d] = r /\ pc[d] \in Busy
Active(K)    == {r \in Runs : KindOf[r] \in K /\ status[r] \in ActiveStatuses}

SetStatus(r, s) == status' = [status EXCEPT ![r] = s]
Goto(d, l)      == pc' = [pc EXCEPT ![d] = l]

Init ==
  /\ status = [r \in Runs |-> IF KindOf[r] = "create" THEN "queued" ELSE "none"]
  /\ base = [r \in Runs |-> NoVersion]
  /\ versions = {} /\ current = NoVersion
  /\ batches = [r \in Runs |-> 0]
  /\ asked = {} /\ checked = {} /\ owed = {} /\ revoked = {}
  /\ outbox = {r \in Runs : KindOf[r] = "create"}
  /\ pc = [d \in Deliveries |-> "unused"]
  /\ task = [d \in Deliveries |-> CHOOSE r \in Runs : TRUE]
  /\ local = [d \in Deliveries |-> NoVersion]
  /\ retries = [d \in Deliveries |-> 0]
  /\ crashes = 0

-----------------------------------------------------------------------------
M_EventsOnly(r, s) == UNCHANGED rowVars

\* ProgressPublisher.publish: the status of the event becomes the status of
\* the run, whatever it was; a failure to persist it is logged and ignored.
Publish(r, s) ==
  /\ \/ SetStatus(r, s)
     \/ "db" \in Trouble /\ UNCHANGED status
  /\ UNCHANGED <<base, versions, current, batches, asked>>

-----------------------------------------------------------------------------
\* API handlers.

Queue(r) ==
  /\ SetStatus(r, "queued")
  /\ outbox' = outbox \union {r}

\* RequirementMessageService.start, under the routebook's lock.
StartMessage(r) ==
  /\ KindOf[r] = "requirement" /\ status[r] = "none"
  /\ Queue(r)
  /\ base' = [base EXCEPT ![r] = current]
  /\ UNCHANGED <<versions, current, batches, asked, checked, owed, revoked, pc, taskVars>>

\* The current version has complete requirements: it is not the empty one.
Confirmed == current # NoVersion /\ KindOf[current] # "create"

\* The handlers of recommendations, itinerary and enrichments look for an
\* active run without any lock ...
CheckFree(r) ==
  /\ status[r] = "none" /\ r \notin checked /\ Confirmed
  /\ \/ KindOf[r] \in Foreground /\ Active(Foreground) = {}
     \/ /\ KindOf[r] = "enrich" /\ Active({"enrich"}) = {}
        /\ \E p \in versions : KindOf[p] = "plan"
  /\ checked' = checked \union {r}
  /\ base' = [base EXCEPT ![r] = current]
  /\ UNCHANGED <<status, versions, current, batches, asked, outbox, owed, revoked, pc, taskVars>>

\* ... and insert their own.
InsertRun(r) ==
  /\ r \in checked
  /\ checked' = checked \ {r}
  /\ Queue(r)
  /\ UNCHANGED <<base, versions, current, batches, asked, owed, revoked, pc, taskVars>>

\* After its transaction the handler sends the task; create_routebook then
\* publishes that the run is queued.
Dispatch(r, d) ==
  /\ r \in outbox /\ pc[d] = "unused"
  /\ outbox' = outbox \ {r}
  /\ task' = [task EXCEPT ![d] = r]
  /\ Goto(d, "queued")
  /\ owed' = IF KindOf[r] = "create" THEN owed \union {<<r, "queued">>} ELSE owed
  /\ UNCHANGED <<rowVars, checked, revoked, local, retries, crashes>>

\* The broker is unreachable or the API process dies first: the row stays.
DispatchFails(r) ==
  /\ "api" \in Trouble /\ r \in outbox
  /\ outbox' = outbox \ {r}
  /\ UNCHANGED <<rowVars, checked, owed, revoked, pc, taskVars>>

\* The client repeats its request: a creation is always sent again, a message
\* while its run is queued.
Replay(r) ==
  /\ "replay" \in Trouble /\ r \notin outbox
  /\ \/ KindOf[r] = "create"
     \/ KindOf[r] = "requirement" /\ status[r] = "queued"
  /\ \E d \in Deliveries : pc[d] = "unused"
  /\ outbox' = outbox \union {r}
  /\ UNCHANGED <<rowVars, checked, owed, revoked, pc, taskVars>>

\* RequirementMessageService.resume: an answer to an interrupted run.
Resume(r) ==
  /\ status[r] = "interrupted"
  /\ \E d \in Deliveries : pc[d] = "unused"
  /\ Queue(r)
  /\ UNCHANGED <<base, versions, current, batches, asked, checked, owed, revoked, pc, taskVars>>

\* cancel_active_workflow: the transaction, the revocation, the event.
Cancel(r) ==
  /\ "cancel" \in Trouble
  /\ status[r] \in {"queued", "running"}
  /\ SetStatus(r, "cancelled")
  /\ owed' = owed \union {<<r, "revoke">>}
  /\ UNCHANGED <<base, versions, current, batches, asked, checked, outbox, revoked, pc, taskVars>>

\* The id under which the task of a run is sent: revoking the run's id finds
\* every task but a requirement's, whose id is "run:message".
Revocable(r) == KindOf[r] # "requirement"

\* Celery kills the worker process of a revoked task.  Its message, not yet
\* acknowledged, comes back and is dropped by a worker that knows of the
\* revocation (Discard), or taken by one that has restarted since.
Revoke(r) ==
  /\ <<r, "revoke">> \in owed
  /\ owed' = (owed \ {<<r, "revoke">>}) \union {<<r, "cancelled">>}
  /\ revoked' = IF Revocable(r) THEN revoked \union {r} ELSE revoked
  /\ pc' = [d \in Deliveries |->
              IF task[d] = r /\ pc[d] \in Busy /\ Revocable(r) THEN "queued" ELSE pc[d]]
  /\ UNCHANGED <<rowVars, checked, outbox, taskVars>>

PublishOwed(r, s) ==
  /\ s \in {"queued", "cancelled"} /\ <<r, s>> \in owed
  /\ owed' = owed \ {<<r, s>>}
  /\ Publish(r, s)
  /\ UNCHANGED <<checked, outbox, revoked, pc, taskVars>>

\* An API process dies between its transaction and what it does next.
ApiDies(o) ==
  /\ "api" \in Trouble /\ o \in owed
  /\ owed' = owed \ {o}
  /\ UNCHANGED <<rowVars, checked, outbox, revoked, pc, taskVars>>

-----------------------------------------------------------------------------
\* Tasks.  A worker drops a message whose id it remembers as revoked.
Discard(d) ==
  /\ pc[d] = "queued" /\ task[d] \in revoked
  /\ Goto(d, "done")
  /\ UNCHANGED <<rowVars, apiVars, taskVars>>

Taken(d) == pc[d] = "queued" /\ task[d] \notin revoked

\* The creation task looks for its version before it marks the run.
LoadFoundation(d) ==
  /\ Taken(d) /\ Kind(d) = "create"
  /\ Goto(d, IF task[d] \in versions /\ status[task[d]] = "completed" THEN "reuse" ELSE "mark")
  /\ UNCHANGED <<rowVars, apiVars, taskVars>>

\* WorkflowService.mark_running.
MarkRunning(d) ==
  /\ pc[d] = "mark"
  /\ IF status[task[d]] = "completed" THEN UNCHANGED status ELSE SetStatus(task[d], "running")
  /\ Goto(d, "notify")
  /\ UNCHANGED <<base, versions, current, batches, asked, apiVars, taskVars>>

\* WorkflowService.mark_requirement_running, and the task's early return.
MarkRequirementRunning(d) ==
  /\ Taken(d) /\ Kind(d) = "requirement"
  /\ \/ status[task[d]] = "completed" /\ Goto(d, "done") /\ UNCHANGED status
     \/ status[task[d]] # "completed" /\ Goto(d, "notify") /\ SetStatus(task[d], "running")
  /\ UNCHANGED <<base, versions, current, batches, asked, apiVars, taskVars>>

M_StopIfCompleted(r) == status[r] = "completed"

\* The recommendation, itinerary and enrichment tasks return at once when
\* their run is cancelled, and only then.
Stopped(r) == status[r] = "cancelled"

Begin(d) ==
  /\ Taken(d) /\ Kind(d) \notin {"create", "requirement"}
  /\ \/ Stopped(task[d]) /\ Goto(d, "done") /\ UNCHANGED <<status, local>>
     \/ /\ ~Stopped(task[d])
        /\ SetStatus(task[d], "running")
        /\ local' = [local EXCEPT ![d] = current]
        /\ Goto(d, "notify")
  /\ UNCHANGED <<base, versions, current, batches, asked, apiVars, task, retries, crashes>>

Notify(d) ==
  /\ pc[d] = "notify"
  /\ Publish(task[d], "running")
  /\ Goto(d, IF Kind(d) = "create" THEN "save" ELSE "work")
  /\ UNCHANGED <<apiVars, taskVars>>

\* Models, providers, the planner: they answer, ask, or fail.
Work(d) ==
  /\ pc[d] = "work"
  /\ \/ Kind(d) = "plan" /\ Goto(d, "validate")
     \/ Kind(d) # "plan" /\ Goto(d, "save")
     \/ Kind(d) = "requirement" /\ Goto(d, "ask")
     \/ Goto(d, "fail")
  /\ UNCHANGED <<rowVars, apiVars, taskVars>>

Validate(d) ==
  /\ pc[d] = "validate"
  /\ Publish(task[d], "running")
  /\ Goto(d, "save")
  /\ UNCHANGED <<apiVars, taskVars>>

-----------------------------------------------------------------------------
\* The committing transactions of the tasks.  The status they read is the one
\* the publisher, a cancellation or another delivery wrote last.

\* VersionService.commit, called with base version b.
SaveVersion(d, b) ==
  \/ /\ task[d] \in versions \/ current # b
     /\ Goto(d, IF task[d] \in versions THEN "report" ELSE "fail")
     /\ UNCHANGED <<status, versions, current>>
  \/ /\ task[d] \notin versions /\ current = b
     /\ versions' = versions \union {task[d]} /\ current' = task[d]
     /\ SetStatus(task[d], "completed")
     /\ Goto(d, "report")

SaveFoundation(d) == Kind(d) = "create" /\ SaveVersion(d, base[task[d]])

\* resolve_requirement_base comes first, so a message whose version is already
\* committed is refused like one whose base was overtaken.
SaveRequirement(d) ==
  LET b == base[task[d]]
      resolved == current = b \/ (b = NoVersion /\ ~Confirmed)
  IN  /\ Kind(d) = "requirement"
      /\ \/ resolved /\ SaveVersion(d, current)
         \/ ~resolved /\ Goto(d, "fail") /\ UNCHANGED <<status, versions, current>>

Stop(d) == Stopped(task[d]) /\ Goto(d, "done") /\ UNCHANGED <<status, versions, current>>

SaveItinerary(d) ==
  /\ Kind(d) = "plan"
  /\ Stop(d) \/ (~Stopped(task[d]) /\ SaveVersion(d, local[d]))

\* Without enrichments the run completes and saves nothing.
SaveEnrichment(d) ==
  /\ Kind(d) = "enrich"
  /\ \/ Stop(d)
     \/ ~Stopped(task[d]) /\ SaveVersion(d, base[task[d]])
     \/ /\ ~Stopped(task[d])
        /\ SetStatus(task[d], "completed") /\ Goto(d, "report")
        /\ UNCHANGED <<versions, current>>

Save(d) ==
  /\ pc[d] = "save"
  /\ SaveFoundation(d) \/ SaveRequirement(d) \/ SaveItinerary(d) \/ SaveEnrichment(d)
  /\ UNCHANGED <<base, batches, asked, apiVars, taskVars>>

\* The recommendation task saves a batch and leaves the status as it is.
SaveRecommendations(d) ==
  /\ pc[d] = "save" /\ Kind(d) = "recommend"
  /\ \/ Stopped(task[d]) /\ Goto(d, "done") /\ UNCHANGED batches
     \/ ~Stopped(task[d]) /\ current # local[d] /\ Goto(d, "fail") /\ UNCHANGED batches
     \/ /\ ~Stopped(task[d]) /\ current = local[d]
        /\ batches' = [batches EXCEPT ![task[d]] = @ + 1]
        /\ Goto(d, "report")
  /\ UNCHANGED <<status, base, versions, current, asked, apiVars, taskVars>>

\* record_clarification reads the run without a lock, so mark_interrupted
\* decides on this reading although it locks the row ...
Ask(d) ==
  /\ pc[d] = "ask"
  /\ Goto(d, IF status[task[d]] \in {"completed", "interrupted"} THEN "reportAsk" ELSE "interrupt")
  /\ asked' = IF pc'[d] = "reportAsk" THEN asked \union {task[d]} ELSE asked
  /\ UNCHANGED <<status, base, versions, current, batches, apiVars, taskVars>>

M_AskUnrecorded(d) ==
  /\ pc[d] = "interrupt"
  /\ SetStatus(task[d], "interrupted")
  /\ Goto(d, "reportAsk")
  /\ UNCHANGED <<base, versions, current, batches, asked, apiVars, taskVars>>

\* ... and writes what the reading asks for.
Interrupt(d) ==
  /\ pc[d] = "interrupt"
  /\ SetStatus(task[d], "interrupted")
  /\ asked' = asked \union {task[d]}
  /\ Goto(d, "reportAsk")
  /\ UNCHANGED <<base, versions, current, batches, apiVars, taskVars>>

-----------------------------------------------------------------------------
\* The end of a task: the last event, after the creation task the checkpoint.
Report(d) ==
  /\ pc[d] \in {"report", "reuse"}
  /\ Publish(task[d], "completed")
  /\ \/ Goto(d, IF Kind(d) = "plan" THEN "handover" ELSE "done")
     \/ "db" \in Trouble /\ Kind(d) = "create" /\ pc[d] = "report" /\ Goto(d, "fail")
  /\ UNCHANGED <<apiVars, taskVars>>

ReportAsk(d) ==
  /\ pc[d] = "reportAsk"
  /\ Publish(task[d], "interrupted")
  /\ Goto(d, "done")
  /\ UNCHANGED <<apiVars, taskVars>>

\* A finished plan queues an enrichment of its version, if that is configured.
Handover(d) ==
  /\ pc[d] = "handover"
  /\ \/ Goto(d, "done") /\ UNCHANGED <<status, base, local>>
     \/ \E r \in Runs \ checked :
          /\ KindOf[r] = "enrich" /\ status[r] = "none"
          /\ SetStatus(r, "queued")
          /\ base' = [base EXCEPT ![r] = task[d]]
          /\ local' = [local EXCEPT ![d] = r]
          /\ Goto(d, "send")
  /\ UNCHANGED <<versions, current, batches, asked, apiVars, task, retries, crashes>>

SendEnrichment(d) ==
  /\ pc[d] = "send"
  /\ \/ \E e \in Deliveries :
          /\ pc[e] = "unused"
          /\ task' = [task EXCEPT ![e] = local[d]]
          /\ pc' = [pc EXCEPT ![d] = "done", ![e] = "queued"]
     \/ "api" \in Trouble /\ Goto(d, "fail") /\ UNCHANGED task
  /\ UNCHANGED <<rowVars, apiVars, local, retries, crashes>>

\* Celery counts the retries in the message.
Counted(d) == [retries EXCEPT ![d] = @ + 1]

MayRetry(d) == retries[d] < MaxRetries

M_RetryAfresh(d) ==
  /\ pc[d] = "retry" /\ Goto(d, "queued")
  /\ UNCHANGED <<rowVars, apiVars, taskVars>>

\* The creation and requirement tasks are sent again after a database error.
Retry(d) ==
  /\ pc[d] = "retry"
  /\ \/ MayRetry(d) /\ Goto(d, "queued") /\ retries' = Counted(d)
     \/ ~MayRetry(d) /\ Goto(d, "fail") /\ UNCHANGED retries
  /\ UNCHANGED <<rowVars, apiVars, task, local, crashes>>

M_DegradeAll(d) == TRUE

\* A failed enrichment is hidden: its run is completed whatever its status.
Degrades(d) == Kind(d) = "enrich"

\* _mark_failed; its own failure is logged and ignored.
Fail(d) ==
  /\ pc[d] = "fail"
  /\ \/ Degrades(d) /\ SetStatus(task[d], "completed") /\ Goto(d, "done")
     \/ /\ ~Degrades(d)
        /\ IF status[task[d]] = "completed" THEN UNCHANGED status ELSE SetStatus(task[d], "failed")
        /\ Goto(d, "reportFail")
     \/ "db" \in Trouble /\ Goto(d, "done") /\ UNCHANGED status
  /\ UNCHANGED <<base, versions, current, batches, asked, apiVars, taskVars>>

ReportFail(d) ==
  /\ pc[d] = "reportFail"
  /\ Publish(task[d], "failed")
  /\ Goto(d, "done")
  /\ UNCHANGED <<apiVars, taskVars>>

-----------------------------------------------------------------------------
\* A database error ends the transaction of a task without effect; only
\* SQLAlchemy's OperationalError is retried, the checkpointer's is not.
Fault(d) ==
  /\ "db" \in Trouble
  /\ pc[d] \in {"queued", "mark", "save", "ask", "interrupt", "handover"}
  /\ \/ Goto(d, "fail")
     \/ Kind(d) \in {"create", "requirement"} /\ Goto(d, "retry")
  /\ UNCHANGED <<rowVars, apiVars, taskVars>>

\* acks_late and reject_on_worker_lost: a lost worker's message is requeued.
Crash(d) ==
  /\ crashes < MaxCrashes /\ pc[d] \in Busy
  /\ Goto(d, "queued")
  /\ crashes' = crashes + 1
  /\ UNCHANGED <<rowVars, apiVars, task, local, retries>>

\* The worker as a whole restarts and forgets what was revoked.
Restart ==
  /\ crashes < MaxCrashes
  /\ pc' = [d \in Deliveries |-> IF pc[d] \in Busy THEN "queued" ELSE pc[d]]
  /\ revoked' = {}
  /\ crashes' = crashes + 1
  /\ UNCHANGED <<rowVars, checked, outbox, owed, task, local, retries>>

\* A message that is not acknowledged yet is delivered a second time.
Duplicate(d, e) ==
  /\ "duplicate" \in Trouble
  /\ pc[d] \in Busy \union {"queued"} /\ pc[e] = "unused"
  /\ Goto(e, "queued")
  /\ task' = [task EXCEPT ![e] = task[d]]
  /\ retries' = [retries EXCEPT ![e] = retries[d]]
  /\ UNCHANGED <<rowVars, apiVars, local, crashes>>

Request(r) ==
  \/ StartMessage(r) \/ CheckFree(r) \/ InsertRun(r) \/ Replay(r) \/ Resume(r) \/ Cancel(r)

Handle(r) ==
  \/ \E d \in Deliveries : Dispatch(r, d)
  \/ DispatchFails(r) \/ Revoke(r)
  \/ PublishOwed(r, "queued") \/ PublishOwed(r, "cancelled")

Execute(d) ==
  \/ Discard(d) \/ LoadFoundation(d) \/ MarkRunning(d) \/ MarkRequirementRunning(d)
  \/ Begin(d) \/ Notify(d) \/ Work(d) \/ Validate(d)
  \/ Save(d) \/ SaveRecommendations(d) \/ Ask(d) \/ Interrupt(d)
  \/ Report(d) \/ ReportAsk(d) \/ Handover(d) \/ SendEnrichment(d)
  \/ Retry(d) \/ Fail(d) \/ ReportFail(d)

Next ==
  \/ \E r \in Runs : Request(r) \/ Handle(r)
  \/ \E o \in owed : ApiDies(o)
  \/ \E d \in Deliveries : Execute(d) \/ Fault(d) \/ Crash(d)
  \/ Restart
  \/ \E d, e \in Deliveries : Duplicate(d, e)

Spec == Init /\ [][Next]_vars

\* Workers go on with the messages they have: nothing is asked of users, of
\* API processes or of faults.
FairSpec == Spec /\ \A d \in Deliveries : WF_vars(Execute(d))

-----------------------------------------------------------------------------
Owed == {"queued", "revoke", "cancelled"}

TypeOK ==
  /\ status \in [Runs -> Statuses]
  /\ base \in [Runs -> Runs \union {NoVersion}]
  /\ versions \subseteq Runs
  /\ current \in versions \union {NoVersion}
  /\ batches \in [Runs -> Nat]
  /\ asked \subseteq Runs /\ checked \subseteq Runs /\ outbox \subseteq Runs
  /\ owed \subseteq Runs \X Owed
  /\ revoked \subseteq Runs
  /\ pc \in [Deliveries -> Places]
  /\ task \in [Deliveries -> Runs]
  /\ local \in [Deliveries -> Runs \union {NoVersion}]
  /\ retries \in [Deliveries -> 0..MaxRetries]
  /\ crashes \in 0..MaxCrashes

\* What a completed run stands for; an enrichment may have found nothing.
HasResult(r) ==
  /\ KindOf[r] = "recommend" => batches[r] > 0
  /\ KindOf[r] \notin {"recommend", "enrich"} => r \in versions

\* A run is shown as completed only if its result is committed, although the
\* publisher writes "completed" in a transaction of its own and does not look,
\* and whatever other deliveries, cancellations and faults come between.
CompletedHasResult == \A r \in Runs : status[r] = "completed" => HasResult(r)

\* A run waits for an answer only if its question is recorded, so the user can
\* see what to answer: the record and the status are written by one
\* transaction, the event that repeats the status by another.
InterruptedWasAsked == \A r \in Runs : status[r] = "interrupted" => r \in asked

\* No message, request or delivery is under way.
Quiescent ==
  /\ \A d \in Deliveries : pc[d] \in {"unused", "done"}
  /\ outbox = {} /\ owed = {} /\ checked = {}

\* When nothing is under way no recommendation or plan is left active: such a
\* run would be executed by nobody and refuse every later recommendation and
\* itinerary of its routebook.
ForegroundEnds == Quiescent => Active(Foreground) = {}

\* A cancelled recommendation, plan or enrichment that no worker executes stays
\* cancelled, whatever messages of it are still delivered.
IdleCancelledStays ==
  [][\A r \in Runs :
       /\ status[r] = "cancelled" /\ ~Executing(r)
       /\ KindOf[r] \notin {"create", "requirement"}
       => status'[r] = "cancelled"]_vars

\* The last event of a task follows the record of what it reports.
ReportsFollowRecords ==
  \A d \in Deliveries :
     /\ pc[d] \in {"report", "reuse"} => HasResult(task[d])
     /\ pc[d] = "reportAsk" => task[d] \in asked

\* A request's run has no row until it inserts it; whatever is sent, executed
\* or owed has one; and only a creation's own event queues a run again.
RequestsAreNew ==
  /\ \A r \in checked : status[r] = "none" /\ KindOf[r] # "requirement"
  /\ \A r \in Runs : r \in outbox \/ KindOf[r] = "create" => status[r] # "none"
  /\ \A o \in owed : status[o[1]] # "none" /\ (o[2] = "queued" => KindOf[o[1]] = "create")
  /\ \A d \in Deliveries :
        /\ pc[d] # "unused" => status[task[d]] # "none"
        /\ pc[d] = "send" => status[local[d]] # "none" /\ local[d] \in Runs

\* What every step preserves, and what the properties above follow from.
IInv ==
  /\ TypeOK /\ CompletedHasResult /\ InterruptedWasAsked
  /\ ReportsFollowRecords /\ RequestsAreNew

\* A message at one of these places has yet to end its run; one on its way to
\* ask is a requirement's, one that hands over has ended its plan.
AskPlaces == {"ask", "interrupt", "reportAsk"}
EndPlaces == {"queued"} \union (Busy \ (AskPlaces \union {"handover", "send"}))

\* A cancellation has yet to kill the task or to publish its event.
BeingCancelled(r) == <<r, "revoke">> \in owed \/ <<r, "cancelled">> \in owed

OnlyRequirementsAsk ==
  \A d \in Deliveries : pc[d] \in AskPlaces => Kind(d) = "requirement"

\* No worker executes a revoked recommendation or plan, and one that an event
\* has revived before its task was killed is cancelled once more.
RevokedRest ==
  \A r \in revoked : KindOf[r] \in Foreground =>
     /\ status[r] # "none" /\ ~Executing(r)
     /\ status[r] \in ActiveStatuses => BeingCancelled(r)

\* Somebody has yet to end an active recommendation or plan.
SomebodyEnds ==
  \A r \in Active(Foreground) :
     \/ r \in outbox \/ BeingCancelled(r)
     \/ \E d \in Deliveries : task[d] = r /\ pc[d] \in EndPlaces

\* What every step preserves when the database and the broker always answer and
\* API processes live, and what ForegroundEnds follows from.
EndsInv == OnlyRequirementsAsk /\ RevokedRest /\ SomebodyEnds

\* Without these two troubles a status that is published is written, and a task
\* that is owed is sent.
Answered == "db" \notin Trouble /\ "api" \notin Trouble

\* Every message a worker has is dealt with: retries and requeues come to an
\* end, and no step of a task waits for ever.
DeliveriesEnd == \A d \in Deliveries : pc[d] = "queued" ~> pc[d] = "done"

-----------------------------------------------------------------------------
\* A statement of the documents that the code does not keep.

\* ADR-0004: events serve the display, they are not business facts.  A run
\* whose version is committed would then stay completed.
EventsAreNotFacts == \A r \in versions : status[r] = "completed"
=============================================================================
