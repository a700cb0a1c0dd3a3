------------------------ MODULE WorkflowRuns_proofs -------------------------
(***************************************************************************)
(* Proofs about WorkflowRuns: what a status says of a run, for any number  *)
(* of runs and messages, any trouble and any number of retries and crashes.*)
(*                                                                         *)
(* The inductive invariant is IInv.  A status is written together with the *)
(* record it stands for, or repeated by an event; IInv adds that a task on *)
(* its way to the event has the record (ReportsFollowRecords).  Records    *)
(* are only ever added, so no other actor can take one away in between     *)
(* (ResultsStay), and every step is checked for four things: records grow, *)
(* statuses and places it writes have their records, requests stay new.    *)
(***************************************************************************)
EXTENDS WorkflowRuns, TLAPS

\* Records are only added.
Grows ==
  /\ versions \subseteq versions' /\ asked \subseteq asked'
  /\ \A r \in Runs : batches[r] <= batches'[r]

\* A status that a step writes has its record after the step.
HonestStatus ==
  \A r \in Runs : status'[r] # status[r] =>
     /\ status'[r] = "completed" => HasResult(r)'
     /\ status'[r] = "interrupted" => r \in asked'

\* So does a report that a step puts before a task.
HonestPlaces ==
  \A d \in Deliveries : pc'[d] # pc[d] \/ task'[d] # task[d] =>
     /\ pc'[d] \in {"report", "reuse"} => HasResult(task[d])'
     /\ pc'[d] = "reportAsk" => task'[d] \in asked'

\* A result stays a result.
LEMMA ResultsStay ==
  ASSUME TypeOK, TypeOK', Grows, NEW r \in Runs, HasResult(r)
  PROVE  HasResult(r)'
<1>1. batches[r] \in Nat /\ batches'[r] \in Nat /\ batches[r] <= batches'[r]
  BY DEF TypeOK, Grows
<1> QED
  BY <1>1 DEF HasResult, Grows

\* A step that adds records, reports only what is recorded and queues only
\* new runs preserves the invariant.
LEMMA HonestStep ==
  ASSUME IInv, TypeOK', Grows, HonestStatus, HonestPlaces, RequestsAreNew'
  PROVE  IInv'
<1>1. CompletedHasResult'
  <2> SUFFICES ASSUME NEW r \in Runs, status'[r] = "completed" PROVE HasResult(r)'
    BY DEF CompletedHasResult
  <2>1. CASE status'[r] = status[r]
    BY <2>1, ResultsStay DEF IInv, CompletedHasResult
  <2> QED
    BY <2>1 DEF HonestStatus
<1>2. InterruptedWasAsked'
  BY DEF InterruptedWasAsked, IInv, HonestStatus, Grows
<1>3. ReportsFollowRecords'
  <2> SUFFICES ASSUME NEW d \in Deliveries
               PROVE  /\ pc'[d] \in {"report", "reuse"} => HasResult(task[d])'
                      /\ pc'[d] = "reportAsk" => task'[d] \in asked'
    BY DEF ReportsFollowRecords
  <2>1. CASE pc'[d] = pc[d] /\ task'[d] = task[d]
    <3>1. PICK r \in Runs : r = task[d]
      BY DEF IInv, TypeOK
    <3>2. HasResult(r) => HasResult(r)'
      BY ResultsStay DEF IInv
    <3>3. HasResult(task[d]) => HasResult(task[d])'
      BY <2>1, <3>1, <3>2 DEF HasResult
    <3> QED
      BY <2>1, <3>3 DEF IInv, ReportsFollowRecords, Grows
  <2> QED
    BY <2>1 DEF HonestPlaces
<1> QED
  BY <1>1, <1>2, <1>3 DEF IInv

\* A message's run is new.
LEMMA StartMessageStep ==
  ASSUME IInv, NEW r \in Runs, StartMessage(r)
  PROVE  IInv'
<1> USE DEF IInv, rowVars, apiVars, taskVars
<1>1. TypeOK'
  BY RunKindAssumption, BoundAssumption
  DEF TypeOK, StartMessage, Queue, SetStatus, Statuses
<1>2. Grows /\ HonestStatus
  BY DEF TypeOK, Grows, HonestStatus, StartMessage, Queue, SetStatus
<1>3. HonestPlaces
  BY DEF TypeOK, HonestPlaces, StartMessage, Queue, SetStatus
<1>4. RequestsAreNew'
  BY DEF TypeOK, RequestsAreNew, StartMessage, Queue, SetStatus, Owed
<1> QED
  BY <1>1, <1>2, <1>3, <1>4, HonestStep

\* A request that has found no active run has no row yet.
LEMMA CheckFreeStep ==
  ASSUME IInv, NEW r \in Runs, CheckFree(r)
  PROVE  IInv'
<1> USE DEF IInv, rowVars, apiVars, taskVars
<1>1. TypeOK'
  BY RunKindAssumption, BoundAssumption DEF TypeOK, CheckFree, Foreground
<1>2. Grows /\ HonestStatus
  BY DEF TypeOK, Grows, HonestStatus, CheckFree, Foreground
<1>3. HonestPlaces
  BY DEF TypeOK, HonestPlaces, CheckFree, Foreground
<1>4. RequestsAreNew'
  BY DEF TypeOK, RequestsAreNew, CheckFree, Foreground, Owed
<1> QED
  BY <1>1, <1>2, <1>3, <1>4, HonestStep

\* Its run starts queued.
LEMMA InsertRunStep ==
  ASSUME IInv, NEW r \in Runs, InsertRun(r)
  PROVE  IInv'
<1> USE DEF IInv, rowVars, apiVars, taskVars
<1>1. TypeOK'
  BY RunKindAssumption, BoundAssumption
  DEF TypeOK, InsertRun, Queue, SetStatus, Statuses
<1>2. Grows /\ HonestStatus
  BY DEF TypeOK, Grows, HonestStatus, InsertRun, Queue, SetStatus
<1>3. HonestPlaces
  BY DEF TypeOK, HonestPlaces, InsertRun, Queue, SetStatus
<1>4. RequestsAreNew'
  BY DEF TypeOK, RequestsAreNew, InsertRun, Queue, SetStatus, Owed
<1> QED
  BY <1>1, <1>2, <1>3, <1>4, HonestStep

\* A repeated request only sends its task again.
LEMMA ReplayStep ==
  ASSUME IInv, NEW r \in Runs, Replay(r)
  PROVE  IInv'
<1> USE DEF IInv, rowVars, apiVars, taskVars
<1>1. TypeOK'
  BY RunKindAssumption, BoundAssumption DEF TypeOK, Replay
<1>2. Grows /\ HonestStatus
  BY DEF TypeOK, Grows, HonestStatus, Replay
<1>3. HonestPlaces
  BY DEF TypeOK, HonestPlaces, Replay
<1>4. RequestsAreNew'
  BY DEF TypeOK, RequestsAreNew, Replay, Owed
<1> QED
  BY <1>1, <1>2, <1>3, <1>4, HonestStep

\* An answered run is queued and keeps its question.
LEMMA ResumeStep ==
  ASSUME IInv, NEW r \in Runs, Resume(r)
  PROVE  IInv'
<1> USE DEF IInv, rowVars, apiVars, taskVars
<1>1. TypeOK'
  BY RunKindAssumption, BoundAssumption DEF TypeOK, Resume, Queue, SetStatus, Statuses
<1>2. Grows /\ HonestStatus
  BY DEF TypeOK, Grows, HonestStatus, Resume, Queue, SetStatus
<1>3. HonestPlaces
  BY DEF TypeOK, HonestPlaces, Resume, Queue, SetStatus
<1>4. RequestsAreNew'
  BY DEF TypeOK, RequestsAreNew, Resume, Queue, SetStatus, Owed
<1> QED
  BY <1>1, <1>2, <1>3, <1>4, HonestStep

\* A cancellation claims no record.
LEMMA CancelStep ==
  ASSUME IInv, NEW r \in Runs, Cancel(r)
  PROVE  IInv'
<1> USE DEF IInv, rowVars, apiVars, taskVars
<1>1. TypeOK'
  BY RunKindAssumption, BoundAssumption DEF TypeOK, Cancel, SetStatus, Statuses, Owed
<1>2. Grows /\ HonestStatus
  BY DEF TypeOK, Grows, HonestStatus, Cancel, SetStatus, Owed
<1>3. HonestPlaces
  BY DEF TypeOK, HonestPlaces, Cancel, SetStatus, Owed
<1>4. RequestsAreNew'
  BY DEF TypeOK, RequestsAreNew, Cancel, SetStatus, Owed
<1> QED
  BY <1>1, <1>2, <1>3, <1>4, HonestStep

\* A message is sent for a run that has a row.
LEMMA DispatchStep ==
  ASSUME IInv, NEW r \in Runs, NEW d \in Deliveries, Dispatch(r, d)
  PROVE  IInv'
<1> USE DEF IInv, rowVars, apiVars, taskVars
<1>1. TypeOK'
  BY RunKindAssumption, BoundAssumption DEF TypeOK, Dispatch, Goto, Places, Busy, Owed
<1>2. Grows /\ HonestStatus
  BY DEF TypeOK, Grows, HonestStatus, Dispatch, Owed
<1>3. HonestPlaces
  BY DEF TypeOK, HonestPlaces, Dispatch, Goto, Busy, Owed
<1>4. RequestsAreNew'
  BY DEF TypeOK, RequestsAreNew, Dispatch, Goto, Busy, Owed
<1> QED
  BY <1>1, <1>2, <1>3, <1>4, HonestStep

\* A task that is not sent changes no record.
LEMMA DispatchFailsStep ==
  ASSUME IInv, NEW r \in Runs, DispatchFails(r)
  PROVE  IInv'
<1> USE DEF IInv, rowVars, apiVars, taskVars
<1>1. TypeOK'
  BY RunKindAssumption, BoundAssumption DEF TypeOK, DispatchFails
<1>2. Grows /\ HonestStatus
  BY DEF TypeOK, Grows, HonestStatus, DispatchFails
<1>3. HonestPlaces
  BY DEF TypeOK, HonestPlaces, DispatchFails
<1>4. RequestsAreNew'
  BY DEF TypeOK, RequestsAreNew, DispatchFails, Owed
<1> QED
  BY <1>1, <1>2, <1>3, <1>4, HonestStep

\* A killed task is back in the queue: it reports nothing.
LEMMA RevokeStep ==
  ASSUME IInv, NEW r \in Runs, Revoke(r)
  PROVE  IInv'
<1> USE DEF IInv, rowVars, apiVars, taskVars
<1>1. TypeOK'
  BY RunKindAssumption, BoundAssumption DEF TypeOK, Revoke, Places, Busy, Owed
<1>2. Grows /\ HonestStatus
  BY DEF TypeOK, Grows, HonestStatus, Revoke, Owed
<1>3. HonestPlaces
  BY DEF TypeOK, HonestPlaces, Revoke, Busy, Owed
<1>4. RequestsAreNew'
  BY DEF TypeOK, RequestsAreNew, Revoke, Busy, Owed
<1> QED
  BY <1>1, <1>2, <1>3, <1>4, HonestStep

\* The events of API handlers claim no record.
LEMMA PublishOwedStep ==
  ASSUME IInv, NEW r \in Runs, NEW s \in Owed, PublishOwed(r, s)
  PROVE  IInv'
<1> USE DEF IInv, rowVars, apiVars, taskVars
<1>1. TypeOK'
  BY RunKindAssumption, BoundAssumption
  DEF TypeOK, PublishOwed, Publish, SetStatus, Statuses, Owed
<1>2. Grows /\ HonestStatus
  BY DEF TypeOK, Grows, HonestStatus, PublishOwed, Publish, SetStatus, Owed
<1>3. HonestPlaces
  BY DEF TypeOK, HonestPlaces, PublishOwed, Publish, SetStatus, Owed
<1>4. RequestsAreNew'
  BY DEF TypeOK, RequestsAreNew, PublishOwed, Publish, SetStatus, Owed
<1> QED
  BY <1>1, <1>2, <1>3, <1>4, HonestStep

\* An event that is never published changes nothing.
LEMMA ApiDiesStep ==
  ASSUME IInv, NEW o \in owed, ApiDies(o)
  PROVE  IInv'
<1> USE DEF IInv, rowVars, apiVars, taskVars
<1>1. TypeOK'
  BY RunKindAssumption, BoundAssumption DEF TypeOK, ApiDies, Owed
<1>2. Grows /\ HonestStatus
  BY DEF TypeOK, Grows, HonestStatus, ApiDies, Owed
<1>3. HonestPlaces
  BY DEF TypeOK, HonestPlaces, ApiDies, Owed
<1>4. RequestsAreNew'
  BY DEF TypeOK, RequestsAreNew, ApiDies, Owed
<1> QED
  BY <1>1, <1>2, <1>3, <1>4, HonestStep

\* A dropped message reports nothing.
LEMMA DiscardStep ==
  ASSUME IInv, NEW d \in Deliveries, Discard(d)
  PROVE  IInv'
<1> USE DEF IInv, rowVars, apiVars, taskVars
<1>1. TypeOK'
  BY RunKindAssumption, BoundAssumption DEF TypeOK, Discard, Kind, Goto, Places, Busy
<1>2. Grows /\ HonestStatus
  BY DEF TypeOK, Grows, HonestStatus, Discard, Kind
<1>3. HonestPlaces
  BY DEF TypeOK, HonestPlaces, Discard, Kind, Goto, Busy
<1>4. RequestsAreNew'
  BY DEF TypeOK, RequestsAreNew, Discard, Kind, Goto, Busy, Owed
<1> QED
  BY <1>1, <1>2, <1>3, <1>4, HonestStep

\* The creation task reports at once only what it has found committed.
LEMMA LoadFoundationStep ==
  ASSUME IInv, NEW d \in Deliveries, LoadFoundation(d)
  PROVE  IInv'
<1> USE DEF IInv, rowVars, apiVars, taskVars
<1>1. TypeOK'
  BY RunKindAssumption, BoundAssumption
  DEF TypeOK, LoadFoundation, Taken, HasResult, Kind, Goto, Places, Busy
<1>2. Grows /\ HonestStatus
  BY DEF TypeOK, Grows, HonestStatus, LoadFoundation, Taken, HasResult, Kind
<1>3. HonestPlaces
  BY DEF TypeOK, HonestPlaces, LoadFoundation, Taken, HasResult, Kind, Goto, Busy
<1>4. RequestsAreNew'
  BY DEF TypeOK, RequestsAreNew, LoadFoundation, Taken, HasResult, Kind, Goto, Busy,
     Owed
<1> QED
  BY <1>1, <1>2, <1>3, <1>4, HonestStep

\* Marking a creation running claims no record.
LEMMA MarkRunningStep ==
  ASSUME IInv, NEW d \in Deliveries, MarkRunning(d)
  PROVE  IInv'
<1> USE DEF IInv, rowVars, apiVars, taskVars
<1>1. TypeOK'
  BY RunKindAssumption, BoundAssumption
  DEF TypeOK, MarkRunning, SetStatus, Statuses, Kind, Goto, Places, Busy
<1>2. Grows /\ HonestStatus
  BY DEF TypeOK, Grows, HonestStatus, MarkRunning, SetStatus, Kind
<1>3. HonestPlaces
  BY DEF TypeOK, HonestPlaces, MarkRunning, SetStatus, Kind, Goto, Busy
<1>4. RequestsAreNew'
  BY DEF TypeOK, RequestsAreNew, MarkRunning, SetStatus, Kind, Goto, Busy, Owed
<1> QED
  BY <1>1, <1>2, <1>3, <1>4, HonestStep

\* Nor does marking a message running.
LEMMA MarkRequirementRunningStep ==
  ASSUME IInv, NEW d \in Deliveries, MarkRequirementRunning(d)
  PROVE  IInv'
<1> USE DEF IInv, rowVars, apiVars, taskVars
<1>1. TypeOK'
  BY RunKindAssumption, BoundAssumption
  DEF TypeOK, MarkRequirementRunning, Taken, SetStatus, Statuses, Kind, Goto, Places,
      Busy
<1>2. Grows /\ HonestStatus
  BY DEF TypeOK, Grows, HonestStatus, MarkRequirementRunning, Taken, SetStatus, Kind
<1>3. HonestPlaces
  BY DEF TypeOK, HonestPlaces, MarkRequirementRunning, Taken, SetStatus, Kind, Goto,
     Busy
<1>4. RequestsAreNew'
  BY DEF TypeOK, RequestsAreNew, MarkRequirementRunning, Taken, SetStatus, Kind, Goto,
     Busy, Owed
<1> QED
  BY <1>1, <1>2, <1>3, <1>4, HonestStep

\* Nor does the start of the other tasks.
LEMMA BeginStep ==
  ASSUME IInv, NEW d \in Deliveries, Begin(d)
  PROVE  IInv'
<1> USE DEF IInv, rowVars, apiVars, taskVars
<1>1. TypeOK'
  BY RunKindAssumption, BoundAssumption
  DEF TypeOK, Begin, Taken, SetStatus, Statuses, Kind, Goto, Places, Busy
<1>2. Grows /\ HonestStatus
  BY DEF TypeOK, Grows, HonestStatus, Begin, Taken, SetStatus, Kind
<1>3. HonestPlaces
  BY DEF TypeOK, HonestPlaces, Begin, Taken, SetStatus, Kind, Goto, Busy
<1>4. RequestsAreNew'
  BY DEF TypeOK, RequestsAreNew, Begin, Taken, SetStatus, Kind, Goto, Busy, Owed
<1> QED
  BY <1>1, <1>2, <1>3, <1>4, HonestStep

\* Nor does the event that says so.
LEMMA NotifyStep ==
  ASSUME IInv, NEW d \in Deliveries, Notify(d)
  PROVE  IInv'
<1> USE DEF IInv, rowVars, apiVars, taskVars
<1>1. TypeOK'
  BY RunKindAssumption, BoundAssumption
  DEF TypeOK, Notify, Publish, SetStatus, Statuses, Kind, Goto, Places, Busy
<1>2. Grows /\ HonestStatus
  BY DEF TypeOK, Grows, HonestStatus, Notify, Publish, SetStatus, Kind
<1>3. HonestPlaces
  BY DEF TypeOK, HonestPlaces, Notify, Publish, SetStatus, Kind, Goto, Busy
<1>4. RequestsAreNew'
  BY DEF TypeOK, RequestsAreNew, Notify, Publish, SetStatus, Kind, Goto, Busy, Owed
<1> QED
  BY <1>1, <1>2, <1>3, <1>4, HonestStep

\* A model's answer is no record.
LEMMA WorkStep ==
  ASSUME IInv, NEW d \in Deliveries, Work(d)
  PROVE  IInv'
<1> USE DEF IInv, rowVars, apiVars, taskVars
<1>1. TypeOK'
  BY RunKindAssumption, BoundAssumption DEF TypeOK, Work, Kind, Goto, Places, Busy
<1>2. Grows /\ HonestStatus
  BY DEF TypeOK, Grows, HonestStatus, Work, Kind
<1>3. HonestPlaces
  BY DEF TypeOK, HonestPlaces, Work, Kind, Goto, Busy
<1>4. RequestsAreNew'
  BY DEF TypeOK, RequestsAreNew, Work, Kind, Goto, Busy, Owed
<1> QED
  BY <1>1, <1>2, <1>3, <1>4, HonestStep

\* Nor is the event before a plan is saved.
LEMMA ValidateStep ==
  ASSUME IInv, NEW d \in Deliveries, Validate(d)
  PROVE  IInv'
<1> USE DEF IInv, rowVars, apiVars, taskVars
<1>1. TypeOK'
  BY RunKindAssumption, BoundAssumption
  DEF TypeOK, Validate, Publish, SetStatus, Statuses, Kind, Goto, Places, Busy
<1>2. Grows /\ HonestStatus
  BY DEF TypeOK, Grows, HonestStatus, Validate, Publish, SetStatus, Kind
<1>3. HonestPlaces
  BY DEF TypeOK, HonestPlaces, Validate, Publish, SetStatus, Kind, Goto, Busy
<1>4. RequestsAreNew'
  BY DEF TypeOK, RequestsAreNew, Validate, Publish, SetStatus, Kind, Goto, Busy, Owed
<1> QED
  BY <1>1, <1>2, <1>3, <1>4, HonestStep

\* The transaction that completes a run adds its version.
LEMMA SaveStep ==
  ASSUME IInv, NEW d \in Deliveries, Save(d)
  PROVE  IInv'
<1> USE DEF IInv, rowVars, apiVars, taskVars
<1>1. TypeOK'
  BY RunKindAssumption, BoundAssumption
  DEF TypeOK, Save, SaveFoundation, SaveRequirement, SaveItinerary, SaveEnrichment,
      SaveVersion, Stop, HasResult, SetStatus, Statuses, Kind, Goto, Places, Busy
<1>2. Grows /\ HonestStatus
  BY DEF TypeOK, Grows, HonestStatus, Save, SaveFoundation, SaveRequirement,
     SaveItinerary, SaveEnrichment, SaveVersion, Stop, HasResult, SetStatus, Kind
<1>3. HonestPlaces
  BY DEF TypeOK, HonestPlaces, Save, SaveFoundation, SaveRequirement, SaveItinerary,
     SaveEnrichment, SaveVersion, Stop, HasResult, SetStatus, Kind, Goto, Busy
<1>4. RequestsAreNew'
  BY DEF TypeOK, RequestsAreNew, Save, SaveFoundation, SaveRequirement, SaveItinerary,
     SaveEnrichment, SaveVersion, Stop, HasResult, SetStatus, Kind, Goto, Busy, Owed
<1> QED
  BY <1>1, <1>2, <1>3, <1>4, HonestStep

\* The report of a recommendation follows its batch.
LEMMA SaveRecommendationsStep ==
  ASSUME IInv, NEW d \in Deliveries, SaveRecommendations(d)
  PROVE  IInv'
<1> USE DEF IInv, rowVars, apiVars, taskVars
<1>1. TypeOK'
  BY RunKindAssumption, BoundAssumption
  DEF TypeOK, SaveRecommendations, HasResult, Kind, Goto, Places, Busy
<1>2. Grows /\ HonestStatus
  BY DEF TypeOK, Grows, HonestStatus, SaveRecommendations, HasResult, Kind
<1>3. HonestPlaces
  BY DEF TypeOK, HonestPlaces, SaveRecommendations, HasResult, Kind, Goto, Busy
<1>4. RequestsAreNew'
  BY DEF TypeOK, RequestsAreNew, SaveRecommendations, HasResult, Kind, Goto, Busy, Owed
<1> QED
  BY <1>1, <1>2, <1>3, <1>4, HonestStep

\* The report of a question follows its record.
LEMMA AskStep ==
  ASSUME IInv, NEW d \in Deliveries, Ask(d)
  PROVE  IInv'
<1> USE DEF IInv, rowVars, apiVars, taskVars
<1>1. TypeOK'
  BY RunKindAssumption, BoundAssumption DEF TypeOK, Ask, Kind, Goto, Places, Busy
<1>2. Grows /\ HonestStatus
  BY DEF TypeOK, Grows, HonestStatus, Ask, Kind
<1>3. HonestPlaces
  BY DEF TypeOK, HonestPlaces, Ask, Kind, Goto, Busy
<1>4. RequestsAreNew'
  BY DEF TypeOK, RequestsAreNew, Ask, Kind, Goto, Busy, Owed
<1> QED
  BY <1>1, <1>2, <1>3, <1>4, HonestStep

\* The status that waits for an answer is written with the question.
LEMMA InterruptStep ==
  ASSUME IInv, NEW d \in Deliveries, Interrupt(d)
  PROVE  IInv'
<1> USE DEF IInv, rowVars, apiVars, taskVars
<1>1. TypeOK'
  BY RunKindAssumption, BoundAssumption
  DEF TypeOK, Interrupt, SetStatus, Statuses, Kind, Goto, Places, Busy
<1>2. Grows /\ HonestStatus
  BY DEF TypeOK, Grows, HonestStatus, Interrupt, SetStatus, Kind
<1>3. HonestPlaces
  BY DEF TypeOK, HonestPlaces, Interrupt, SetStatus, Kind, Goto, Busy
<1>4. RequestsAreNew'
  BY DEF TypeOK, RequestsAreNew, Interrupt, SetStatus, Kind, Goto, Busy, Owed
<1> QED
  BY <1>1, <1>2, <1>3, <1>4, HonestStep

\* The last event of a task that has saved repeats what the rows say.
LEMMA ReportStep ==
  ASSUME IInv, NEW d \in Deliveries, Report(d)
  PROVE  IInv'
<1> USE DEF IInv, rowVars, apiVars, taskVars
<1>1. TypeOK'
  BY RunKindAssumption, BoundAssumption
  DEF TypeOK, Report, Publish, ReportsFollowRecords, HasResult, SetStatus, Statuses,
      Kind, Goto, Places, Busy
<1>2. Grows /\ HonestStatus
  BY DEF TypeOK, Grows, HonestStatus, Report, Publish, ReportsFollowRecords,
     HasResult, SetStatus, Kind
<1>3. HonestPlaces
  BY DEF TypeOK, HonestPlaces, Report, Publish, ReportsFollowRecords, HasResult,
     SetStatus, Kind, Goto, Busy
<1>4. RequestsAreNew'
  BY DEF TypeOK, RequestsAreNew, Report, Publish, ReportsFollowRecords, HasResult,
     SetStatus, Kind, Goto, Busy, Owed
<1> QED
  BY <1>1, <1>2, <1>3, <1>4, HonestStep

\* The last event of a task that has asked repeats what the rows say.
LEMMA ReportAskStep ==
  ASSUME IInv, NEW d \in Deliveries, ReportAsk(d)
  PROVE  IInv'
<1> USE DEF IInv, rowVars, apiVars, taskVars
<1>1. TypeOK'
  BY RunKindAssumption, BoundAssumption
  DEF TypeOK, ReportAsk, Publish, ReportsFollowRecords, SetStatus, Statuses, Kind,
      Goto, Places, Busy
<1>2. Grows /\ HonestStatus
  BY DEF TypeOK, Grows, HonestStatus, ReportAsk, Publish, ReportsFollowRecords,
     SetStatus, Kind
<1>3. HonestPlaces
  BY DEF TypeOK, HonestPlaces, ReportAsk, Publish, ReportsFollowRecords, SetStatus,
     Kind, Goto, Busy
<1>4. RequestsAreNew'
  BY DEF TypeOK, RequestsAreNew, ReportAsk, Publish, ReportsFollowRecords, SetStatus,
     Kind, Goto, Busy, Owed
<1> QED
  BY <1>1, <1>2, <1>3, <1>4, HonestStep

\* A queued enrichment has a row and no result.
LEMMA HandoverStep ==
  ASSUME IInv, NEW d \in Deliveries, Handover(d)
  PROVE  IInv'
<1> USE DEF IInv, rowVars, apiVars, taskVars
<1>1. TypeOK'
  BY RunKindAssumption, BoundAssumption
  DEF TypeOK, Handover, SetStatus, Statuses, Kind, Goto, Places, Busy
<1>2. Grows /\ HonestStatus
  BY DEF TypeOK, Grows, HonestStatus, Handover, SetStatus, Kind
<1>3. HonestPlaces
  BY DEF TypeOK, HonestPlaces, Handover, SetStatus, Kind, Goto, Busy
<1>4. RequestsAreNew'
  BY DEF TypeOK, RequestsAreNew, Handover, SetStatus, Kind, Goto, Busy, Owed
<1> QED
  BY <1>1, <1>2, <1>3, <1>4, HonestStep

\* Its message is sent for that row.
LEMMA SendEnrichmentStep ==
  ASSUME IInv, NEW d \in Deliveries, SendEnrichment(d)
  PROVE  IInv'
<1> USE DEF IInv, rowVars, apiVars, taskVars
<1>1. TypeOK'
  BY RunKindAssumption, BoundAssumption
  DEF TypeOK, SendEnrichment, RequestsAreNew, Kind, Goto, Places, Busy
<1>2. Grows /\ HonestStatus
  BY DEF TypeOK, Grows, HonestStatus, SendEnrichment, RequestsAreNew, Kind
<1>3. HonestPlaces
  BY DEF TypeOK, HonestPlaces, SendEnrichment, RequestsAreNew, Kind, Goto, Busy
<1>4. RequestsAreNew'
  BY DEF TypeOK, RequestsAreNew, SendEnrichment, RequestsAreNew, Kind, Goto, Busy, Owed
<1> QED
  BY <1>1, <1>2, <1>3, <1>4, HonestStep

\* A retried task starts again from the queue.
LEMMA RetryStep ==
  ASSUME IInv, NEW d \in Deliveries, Retry(d)
  PROVE  IInv'
<1> USE DEF IInv, rowVars, apiVars, taskVars
<1>1. TypeOK'
  BY RunKindAssumption, BoundAssumption
  DEF TypeOK, Retry, MayRetry, Counted, Kind, Goto, Places, Busy
<1>2. Grows /\ HonestStatus
  BY DEF TypeOK, Grows, HonestStatus, Retry, MayRetry, Counted, Kind
<1>3. HonestPlaces
  BY DEF TypeOK, HonestPlaces, Retry, MayRetry, Counted, Kind, Goto, Busy
<1>4. RequestsAreNew'
  BY DEF TypeOK, RequestsAreNew, Retry, MayRetry, Counted, Kind, Goto, Busy, Owed
<1> QED
  BY <1>1, <1>2, <1>3, <1>4, HonestStep

\* A failure completes enrichments only, which owe no version.
LEMMA FailStep ==
  ASSUME IInv, NEW d \in Deliveries, Fail(d)
  PROVE  IInv'
<1> USE DEF IInv, rowVars, apiVars, taskVars
<1>1. TypeOK'
  BY RunKindAssumption, BoundAssumption
  DEF TypeOK, Fail, Degrades, HasResult, SetStatus, Statuses, Kind, Goto, Places, Busy
<1>2. Grows /\ HonestStatus
  BY DEF TypeOK, Grows, HonestStatus, Fail, Degrades, HasResult, SetStatus, Kind
<1>3. HonestPlaces
  BY DEF TypeOK, HonestPlaces, Fail, Degrades, HasResult, SetStatus, Kind, Goto, Busy
<1>4. RequestsAreNew'
  BY DEF TypeOK, RequestsAreNew, Fail, Degrades, HasResult, SetStatus, Kind, Goto,
     Busy, Owed
<1> QED
  BY <1>1, <1>2, <1>3, <1>4, HonestStep

\* The event of a failure claims no record.
LEMMA ReportFailStep ==
  ASSUME IInv, NEW d \in Deliveries, ReportFail(d)
  PROVE  IInv'
<1> USE DEF IInv, rowVars, apiVars, taskVars
<1>1. TypeOK'
  BY RunKindAssumption, BoundAssumption
  DEF TypeOK, ReportFail, Publish, SetStatus, Statuses, Kind, Goto, Places, Busy
<1>2. Grows /\ HonestStatus
  BY DEF TypeOK, Grows, HonestStatus, ReportFail, Publish, SetStatus, Kind
<1>3. HonestPlaces
  BY DEF TypeOK, HonestPlaces, ReportFail, Publish, SetStatus, Kind, Goto, Busy
<1>4. RequestsAreNew'
  BY DEF TypeOK, RequestsAreNew, ReportFail, Publish, SetStatus, Kind, Goto, Busy, Owed
<1> QED
  BY <1>1, <1>2, <1>3, <1>4, HonestStep

\* A database error undoes the transaction it hits.
LEMMA FaultStep ==
  ASSUME IInv, NEW d \in Deliveries, Fault(d)
  PROVE  IInv'
<1> USE DEF IInv, rowVars, apiVars, taskVars
<1>1. TypeOK'
  BY RunKindAssumption, BoundAssumption DEF TypeOK, Fault, Kind, Goto, Places, Busy
<1>2. Grows /\ HonestStatus
  BY DEF TypeOK, Grows, HonestStatus, Fault, Kind
<1>3. HonestPlaces
  BY DEF TypeOK, HonestPlaces, Fault, Kind, Goto, Busy
<1>4. RequestsAreNew'
  BY DEF TypeOK, RequestsAreNew, Fault, Kind, Goto, Busy, Owed
<1> QED
  BY <1>1, <1>2, <1>3, <1>4, HonestStep

\* A lost worker process undoes the transaction it was in.
LEMMA CrashStep ==
  ASSUME IInv, NEW d \in Deliveries, Crash(d)
  PROVE  IInv'
<1> USE DEF IInv, rowVars, apiVars, taskVars
<1>1. TypeOK'
  BY RunKindAssumption, BoundAssumption DEF TypeOK, Crash, Kind, Goto, Places, Busy
<1>2. Grows /\ HonestStatus
  BY DEF TypeOK, Grows, HonestStatus, Crash, Kind
<1>3. HonestPlaces
  BY DEF TypeOK, HonestPlaces, Crash, Kind, Goto, Busy
<1>4. RequestsAreNew'
  BY DEF TypeOK, RequestsAreNew, Crash, Kind, Goto, Busy, Owed
<1> QED
  BY <1>1, <1>2, <1>3, <1>4, HonestStep

\* So does a restart of the worker.
LEMMA RestartStep ==
  ASSUME IInv, Restart
  PROVE  IInv'
<1> USE DEF IInv, rowVars, apiVars, taskVars
<1>1. TypeOK'
  BY RunKindAssumption, BoundAssumption DEF TypeOK, Restart, Places, Busy
<1>2. Grows /\ HonestStatus
  BY DEF TypeOK, Grows, HonestStatus, Restart
<1>3. HonestPlaces
  BY DEF TypeOK, HonestPlaces, Restart, Busy
<1>4. RequestsAreNew'
  BY DEF TypeOK, RequestsAreNew, Restart, Busy, Owed
<1> QED
  BY <1>1, <1>2, <1>3, <1>4, HonestStep

\* A second delivery starts from the queue.
LEMMA DuplicateStep ==
  ASSUME IInv, NEW d \in Deliveries, NEW e \in Deliveries, Duplicate(d, e)
  PROVE  IInv'
<1> USE DEF IInv, rowVars, apiVars, taskVars
<1>1. TypeOK'
  BY RunKindAssumption, BoundAssumption DEF TypeOK, Duplicate, Kind, Goto, Places, Busy
<1>2. Grows /\ HonestStatus
  BY DEF TypeOK, Grows, HonestStatus, Duplicate, Kind
<1>3. HonestPlaces
  BY DEF TypeOK, HonestPlaces, Duplicate, Kind, Goto, Busy
<1>4. RequestsAreNew'
  BY DEF TypeOK, RequestsAreNew, Duplicate, Kind, Goto, Busy, Owed
<1> QED
  BY <1>1, <1>2, <1>3, <1>4, HonestStep

\* It holds initially: the creation run is queued and everything else empty.
LEMMA InitInv == Init => IInv
<1> SUFFICES ASSUME Init PROVE IInv
  OBVIOUS
<1>1. TypeOK
  BY RunsAssumption, RunKindAssumption, BoundAssumption
  DEF Init, TypeOK, Statuses, Places, Busy, Owed
<1>2. CompletedHasResult /\ InterruptedWasAsked
  BY DEF Init, CompletedHasResult, InterruptedWasAsked
<1>3. ReportsFollowRecords /\ RequestsAreNew
  BY DEF Init, ReportsFollowRecords, RequestsAreNew
<1> QED
  BY <1>1, <1>2, <1>3 DEF IInv

\* What users ask for.
LEMMA RequestStep ==
  ASSUME IInv, NEW r \in Runs, Request(r)
  PROVE  IInv'
  BY StartMessageStep, CheckFreeStep, InsertRunStep, ReplayStep, ResumeStep, CancelStep
  DEF Request

\* What API handlers do after their transactions.
LEMMA HandleStep ==
  ASSUME IInv, NEW r \in Runs, Handle(r)
  PROVE  IInv'
<1>1. CASE \E d \in Deliveries : Dispatch(r, d)
  BY <1>1, DispatchStep
<1>2. CASE PublishOwed(r, "queued") \/ PublishOwed(r, "cancelled")
  BY <1>2, PublishOwedStep DEF Owed
<1> QED
  BY <1>1, <1>2, DispatchFailsStep, RevokeStep DEF Handle

\* What tasks do.
LEMMA ExecuteStep ==
  ASSUME IInv, NEW d \in Deliveries, Execute(d)
  PROVE  IInv'
  BY DiscardStep, LoadFoundationStep, MarkRunningStep, MarkRequirementRunningStep,
     BeginStep, NotifyStep, WorkStep, ValidateStep, SaveStep, SaveRecommendationsStep,
     AskStep, InterruptStep, ReportStep, ReportAskStep, HandoverStep, SendEnrichmentStep,
     RetryStep, FailStep, ReportFailStep
  DEF Execute

\* The invariant is inductive.
LEMMA NextStep == IInv /\ [Next]_vars => IInv'
<1> SUFFICES ASSUME IInv, [Next]_vars PROVE IInv'
  OBVIOUS
<1>1. CASE UNCHANGED vars
  BY <1>1 DEF vars, rowVars, apiVars, taskVars, IInv, TypeOK, CompletedHasResult,
     InterruptedWasAsked, ReportsFollowRecords, RequestsAreNew, HasResult
<1>2. CASE \E r \in Runs : Request(r) \/ Handle(r)
  BY <1>2, RequestStep, HandleStep
<1>3. CASE \E o \in owed : ApiDies(o)
  BY <1>3, ApiDiesStep
<1>4. CASE \E d \in Deliveries : Execute(d) \/ Fault(d) \/ Crash(d)
  BY <1>4, ExecuteStep, FaultStep, CrashStep
<1>5. CASE Restart
  BY <1>5, RestartStep
<1>6. CASE \E d, e \in Deliveries : Duplicate(d, e)
  BY <1>6, DuplicateStep
<1> QED
  BY <1>1, <1>2, <1>3, <1>4, <1>5, <1>6 DEF Next

\* Every reachable state satisfies the inductive invariant.
THEOREM RunsInvariance == Spec => []IInv
  BY InitInv, NextStep, PTL DEF Spec

\* A completed run has its result, whoever wrote its status last.
THEOREM CompletedRunsHaveResults == Spec => []CompletedHasResult
<1>1. IInv => CompletedHasResult
  BY DEF IInv
<1> QED
  BY <1>1, RunsInvariance, PTL

\* An interrupted run has a question the user can answer.
THEOREM InterruptedRunsWereAsked == Spec => []InterruptedWasAsked
<1>1. IInv => InterruptedWasAsked
  BY DEF IInv
<1> QED
  BY <1>1, RunsInvariance, PTL

\* The step of Next an idle cancelled run has to survive: requests of other
\* runs, the events owed to it, and messages of it that are delivered late.
LEMMA CancelledRunKept ==
  ASSUME IInv, Next, NEW r \in Runs, status[r] = "cancelled", ~Executing(r),
         KindOf[r] \notin {"create", "requirement"}
  PROVE  status'[r] = "cancelled"
<1> USE DEF IInv, rowVars, apiVars, taskVars, SetStatus
<1>1. ASSUME NEW x \in Runs, Request(x) PROVE status'[r] = "cancelled"
  BY <1>1 DEF Request, StartMessage, CheckFree, InsertRun, Replay, Resume, Cancel,
     Queue, TypeOK, RequestsAreNew
<1>2. ASSUME NEW x \in Runs, Handle(x) PROVE status'[r] = "cancelled"
  BY <1>2 DEF Handle, Dispatch, DispatchFails, Revoke, PublishOwed, Publish,
     TypeOK, RequestsAreNew
<1>3. ASSUME NEW d \in Deliveries, Execute(d), task[d] = r PROVE status'[r] = "cancelled"
  <2>1. pc[d] \notin Busy
    BY <1>3 DEF Executing
  <2> QED
    BY <1>3, <2>1
    DEF Execute, Discard, LoadFoundation, MarkRunning, MarkRequirementRunning,
       Begin, Notify, Work, Validate, Save, SaveRecommendations, Ask, Interrupt, Report,
       ReportAsk, Handover, SendEnrichment, Retry, Fail, ReportFail,
       Taken, Stopped, Kind, Busy, TypeOK
<1>4. ASSUME NEW d \in Deliveries, Execute(d), task[d] # r PROVE status'[r] = "cancelled"
  BY <1>4 DEF Execute, Discard, LoadFoundation, MarkRunning, MarkRequirementRunning,
     Begin, Notify, Work, Validate, Save, SaveFoundation, SaveRequirement, SaveItinerary,
     SaveEnrichment, SaveVersion, Stop, SaveRecommendations, Ask, Interrupt, Report,
     ReportAsk, Handover, SendEnrichment, Retry, Fail, ReportFail, Publish, TypeOK
<1>5. ASSUME NEW d \in Deliveries, Fault(d) \/ Crash(d) PROVE status'[r] = "cancelled"
  BY <1>5 DEF Fault, Crash
<1>6. ASSUME NEW d \in Deliveries, NEW e \in Deliveries, Duplicate(d, e)
      PROVE  status'[r] = "cancelled"
  BY <1>6 DEF Duplicate
<1>7. CASE Restart \/ \E o \in owed : ApiDies(o)
  BY <1>7 DEF Restart, ApiDies
<1> QED
  BY <1>1, <1>2, <1>3, <1>4, <1>5, <1>6, <1>7 DEF Next

\* Late messages never revive a cancelled recommendation, plan or enrichment.
THEOREM CancelledRunsStay == Spec => IdleCancelledStays
<1> DEFINE Kept == \A r \in Runs :
      /\ status[r] = "cancelled" /\ ~Executing(r)
      /\ KindOf[r] \notin {"create", "requirement"}
      => status'[r] = "cancelled"
<1>1. IInv /\ [Next]_vars => [Kept]_vars
  BY CancelledRunKept
<1> QED
  BY <1>1, RunsInvariance, PTL DEF Spec, IdleCancelledStays

-----------------------------------------------------------------------------
\* The second invariant, EndsInv: while the database and the broker answer,
\* somebody has yet to end every active recommendation or plan.  Most steps are
\* one task's: TaskMoves says what such a step may do, and TaskStep that this
\* is enough.

\* A step of the task of d: other tasks, and what is sent, owed and revoked, are
\* left alone, and so is every other recommendation or plan.  A revoked task
\* does not start, asks only as a requirement, and leaves its run active only
\* where it goes on to end it.
TaskMoves(d) ==
  /\ UNCHANGED <<outbox, owed, revoked, task>>
  /\ \A e \in Deliveries : e # d => pc'[e] = pc[e]
  /\ \A r \in Runs : r # task[d] /\ KindOf[r] \in Foreground => status'[r] = status[r]
  /\ pc'[d] \in Busy => pc[d] \in Busy \/ task[d] \notin revoked
  /\ pc'[d] \in AskPlaces => Kind(d) = "requirement"
  /\ Kind(d) \in Foreground =>
       /\ status'[task[d]] # status[task[d]] =>
            /\ status'[task[d]] # "none"
            /\ pc[d] \in Busy \/ task[d] \notin revoked
       /\ status'[task[d]] \in ActiveStatuses =>
            \/ pc'[d] \in EndPlaces
            \/ /\ status'[task[d]] = status[task[d]]
               /\ pc[d] \notin EndPlaces \/ task[d] \in revoked

\* Such a step preserves the second invariant.
LEMMA TaskStep ==
  ASSUME TypeOK, TypeOK', EndsInv, NEW d \in Deliveries, TaskMoves(d)
  PROVE  EndsInv'
<1> USE DEF EndsInv, TaskMoves
<1>1. OnlyRequirementsAsk'
  BY DEF OnlyRequirementsAsk, Kind
<1>2. RevokedRest'
  <2> SUFFICES ASSUME NEW r \in revoked, KindOf[r] \in Foreground
               PROVE  /\ status'[r] # "none" /\ ~Executing(r)'
                      /\ status'[r] \in ActiveStatuses => BeingCancelled(r)
    BY DEF RevokedRest, BeingCancelled
  <2>1. r \in Runs
    BY DEF TypeOK
  <2>2. /\ status[r] # "none" /\ ~Executing(r)
        /\ status[r] \in ActiveStatuses => BeingCancelled(r)
    BY DEF RevokedRest
  <2>3. ~Executing(r)'
    BY <2>2 DEF Executing
  <2>4. status'[r] = status[r]
    BY <2>1, <2>2 DEF Executing, Kind
  <2> QED
    BY <2>2, <2>3, <2>4
<1>3. SomebodyEnds'
  <2> SUFFICES ASSUME NEW r \in Runs, KindOf[r] \in Foreground,
                      status'[r] \in ActiveStatuses
               PROVE  \/ r \in outbox \/ BeingCancelled(r)
                      \/ \E e \in Deliveries : task[e] = r /\ pc'[e] \in EndPlaces
    BY DEF SomebodyEnds, BeingCancelled, Active
  <2>1. CASE task[d] = r /\ pc'[d] \in EndPlaces
    BY <2>1
  <2>2. CASE ~(task[d] = r /\ pc'[d] \in EndPlaces)
    <3>1. status'[r] = status[r]
      BY <2>2 DEF Kind
    <3>2. CASE r \in revoked
      BY <3>1, <3>2 DEF RevokedRest
    <3>3. CASE r \notin revoked
      <4>1. task[d] = r => pc[d] \notin EndPlaces
        BY <2>2, <3>3 DEF Kind
      <4>2. \/ r \in outbox \/ BeingCancelled(r)
            \/ \E e \in Deliveries : task[e] = r /\ pc[e] \in EndPlaces
        BY <3>1 DEF SomebodyEnds, Active
      <4> QED
        BY <4>1, <4>2
    <3> QED
      BY <3>2, <3>3
  <2> QED
    BY <2>1, <2>2
<1> QED
  BY <1>1, <1>2, <1>3

\* Every step of a task but the sending of an enrichment is of that form.
LEMMA TasksMove ==
  ASSUME IInv, Answered, EndsInv, NEW d \in Deliveries, Execute(d), ~SendEnrichment(d)
  PROVE  TaskMoves(d)
<1> USE DEF IInv, TypeOK, Answered, TaskMoves, rowVars, apiVars, taskVars, Kind, Goto,
            SetStatus, Busy, EndPlaces, AskPlaces, ActiveStatuses, Foreground
<1>1. pc[d] \in AskPlaces => Kind(d) = "requirement"
  BY DEF EndsInv, OnlyRequirementsAsk
<1>2. CASE Discard(d)
  BY <1>1, <1>2, RunKindAssumption DEF Discard, Taken
<1>3. CASE LoadFoundation(d)
  BY <1>1, <1>3, RunKindAssumption DEF LoadFoundation, Taken
<1>4. CASE MarkRunning(d)
  BY <1>1, <1>4, RunKindAssumption DEF MarkRunning
<1>5. CASE MarkRequirementRunning(d)
  BY <1>1, <1>5, RunKindAssumption DEF MarkRequirementRunning, Taken
<1>6. CASE Begin(d)
  BY <1>1, <1>6, RunKindAssumption DEF Begin, Taken, Stopped
<1>7. CASE Notify(d)
  BY <1>1, <1>7, RunKindAssumption DEF Notify, Publish
<1>8. CASE Work(d)
  BY <1>1, <1>8, RunKindAssumption DEF Work
<1>9. CASE Validate(d)
  BY <1>1, <1>9, RunKindAssumption DEF Validate, Publish
<1>10. CASE Save(d)
  BY <1>1, <1>10, RunKindAssumption DEF Save, SaveFoundation, SaveRequirement,
     SaveItinerary, SaveEnrichment, SaveVersion, Stop, Stopped
<1>11. CASE SaveRecommendations(d)
  BY <1>1, <1>11, RunKindAssumption DEF SaveRecommendations, Stopped
<1>12. CASE Ask(d)
  BY <1>1, <1>12, RunKindAssumption DEF Ask
<1>13. CASE Interrupt(d)
  BY <1>1, <1>13, RunKindAssumption DEF Interrupt
<1>14. CASE Report(d)
  BY <1>1, <1>14, RunKindAssumption DEF Report, Publish
<1>15. CASE ReportAsk(d)
  BY <1>1, <1>15, RunKindAssumption DEF ReportAsk, Publish
<1>16. CASE Handover(d)
  BY <1>1, <1>16, RunKindAssumption DEF Handover
<1>17. CASE Retry(d)
  BY <1>1, <1>17, RunKindAssumption DEF Retry, MayRetry, Counted
<1>18. CASE Fail(d)
  BY <1>1, <1>18, RunKindAssumption DEF Fail, Degrades
<1>19. CASE ReportFail(d)
  BY <1>1, <1>19, RunKindAssumption DEF ReportFail, Publish
<1> QED
  BY <1>2, <1>3, <1>4, <1>5, <1>6, <1>7, <1>8, <1>9, <1>10, <1>11, <1>12, <1>13,
     <1>14, <1>15, <1>16, <1>17, <1>18, <1>19 DEF Execute

\* A step that takes no task from its place, revives no run and sends what it
\* takes out of the outbox leaves somebody to end every active run.
LEMMA SomebodyStays ==
  ASSUME EndsInv, UNCHANGED status, owed \subseteq owed',
         \A d \in Deliveries : pc[d] \in EndPlaces => pc'[d] \in EndPlaces /\ task'[d] = task[d],
         \A r \in outbox : \/ r \in outbox'
                           \/ \E d \in Deliveries : task'[d] = r /\ pc'[d] \in EndPlaces
  PROVE  SomebodyEnds'
<1> SUFFICES ASSUME NEW r \in Runs, KindOf[r] \in Foreground, status[r] \in ActiveStatuses
             PROVE  \/ r \in outbox' \/ BeingCancelled(r)'
                    \/ \E d \in Deliveries : task'[d] = r /\ pc'[d] \in EndPlaces
  BY DEF SomebodyEnds, Active
<1>1. \/ r \in outbox \/ BeingCancelled(r)
      \/ \E d \in Deliveries : task[d] = r /\ pc[d] \in EndPlaces
  BY DEF EndsInv, SomebodyEnds, Active
<1>2. BeingCancelled(r) => BeingCancelled(r)'
  BY DEF BeingCancelled
<1> QED
  BY <1>1, <1>2

\* The message of an enrichment is sent by a plan that has ended.
LEMMA SendKeepsEnds ==
  ASSUME IInv, Answered, EndsInv, NEW d \in Deliveries, SendEnrichment(d)
  PROVE  EndsInv'
<1> USE DEF IInv, TypeOK, Answered, EndsInv, SendEnrichment, rowVars, apiVars
<1>1. PICK e \in Deliveries :
        /\ pc[e] = "unused" /\ pc[d] = "send"
        /\ task' = [task EXCEPT ![e] = local[d]]
        /\ pc' = [pc EXCEPT ![d] = "done", ![e] = "queued"]
  OBVIOUS
<1>2. OnlyRequirementsAsk'
  BY <1>1 DEF OnlyRequirementsAsk, Kind, AskPlaces
<1>3. RevokedRest'
  BY <1>1 DEF RevokedRest, Executing, BeingCancelled, Busy
<1>4. SomebodyEnds'
  <2>1. UNCHANGED status /\ owed \subseteq owed'
    OBVIOUS
  <2>2. \A f \in Deliveries :
          pc[f] \in EndPlaces => pc'[f] \in EndPlaces /\ task'[f] = task[f]
    BY <1>1 DEF EndPlaces, Busy
  <2>3. outbox' = outbox
    OBVIOUS
  <2> HIDE DEF IInv, TypeOK, EndsInv
  <2> QED
    BY <2>1, <2>2, <2>3, SomebodyStays
<1> QED
  BY <1>2, <1>3, <1>4

\* What users ask for: a run that becomes active is to be sent, one that is
\* cancelled is no longer active.
LEMMA RequestKeepsEnds ==
  ASSUME IInv, EndsInv, NEW r \in Runs, Request(r)
  PROVE  EndsInv'
<1> USE DEF IInv, TypeOK, EndsInv, Request, StartMessage, CheckFree, InsertRun, Replay,
            Resume, Cancel, Queue, SetStatus, rowVars, taskVars
<1>1. OnlyRequirementsAsk'
  BY DEF OnlyRequirementsAsk, Kind
<1>2. RevokedRest'
  <2>1. UNCHANGED <<pc, task, revoked>> /\ owed \subseteq owed'
    OBVIOUS
  <2>2. \A x \in Runs : ~Executing(x) => ~Executing(x)'
    BY <2>1 DEF Executing
  <2>3. \A x \in Runs : BeingCancelled(x) => BeingCancelled(x)'
    BY <2>1 DEF BeingCancelled
  <2>4. \A x \in Runs : status'[x] # status[x] =>
          /\ status'[x] # "none"
          /\ \/ status'[x] = "cancelled" \/ status[x] = "interrupted"
             \/ status[x] = "none"
    BY DEF RequestsAreNew
  <2> QED
    BY <2>1, <2>2, <2>3, <2>4 DEF RevokedRest, ActiveStatuses
<1>3. SomebodyEnds'
  <2>1. UNCHANGED <<pc, task>> /\ owed \subseteq owed' /\ outbox \subseteq outbox'
    OBVIOUS
  <2>2. \A x \in Runs : status'[x] # status[x] => x \in outbox' \/ status'[x] = "cancelled"
    OBVIOUS
  <2> QED
    BY <2>1, <2>2 DEF SomebodyEnds, BeingCancelled, Active, ActiveStatuses
<1> QED
  BY <1>1, <1>2, <1>3

\* A task that is sent is queued.
LEMMA DispatchKeepsEnds ==
  ASSUME IInv, EndsInv, NEW r \in Runs, NEW d \in Deliveries, Dispatch(r, d)
  PROVE  EndsInv'
<1> USE DEF IInv, TypeOK, EndsInv, Dispatch, Goto, rowVars
<1>1. OnlyRequirementsAsk'
  BY DEF OnlyRequirementsAsk, Kind, AskPlaces
<1>2. RevokedRest'
  BY DEF RevokedRest, Executing, BeingCancelled, Busy
<1>3. SomebodyEnds'
  <2>1. UNCHANGED status /\ owed \subseteq owed'
    OBVIOUS
  <2>2. \A f \in Deliveries :
          pc[f] \in EndPlaces => pc'[f] \in EndPlaces /\ task'[f] = task[f]
    BY DEF EndPlaces, Busy
  <2>3. task'[d] = r /\ pc'[d] \in EndPlaces /\ outbox' = outbox \ {r}
    BY DEF EndPlaces
  <2> HIDE DEF IInv, TypeOK, EndsInv
  <2> QED
    BY <2>1, <2>2, <2>3, SomebodyStays
<1> QED
  BY <1>1, <1>2, <1>3

\* A killed task waits in the queue, and its run for the event.
LEMMA RevokeKeepsEnds ==
  ASSUME IInv, EndsInv, NEW r \in Runs, Revoke(r)
  PROVE  EndsInv'
<1> USE DEF IInv, TypeOK, EndsInv, Revoke, rowVars, taskVars
<1>1. OnlyRequirementsAsk'
  BY DEF OnlyRequirementsAsk, Kind, AskPlaces
<1>2. \A x \in Runs : BeingCancelled(x) => BeingCancelled(x)'
  BY DEF BeingCancelled
<1>3. BeingCancelled(r)' /\ status[r] # "none"
  BY DEF BeingCancelled, RequestsAreNew
<1>4. RevokedRest'
  <2> SUFFICES ASSUME NEW x \in revoked', KindOf[x] \in Foreground
               PROVE  /\ status[x] # "none" /\ ~Executing(x)'
                      /\ status[x] \in ActiveStatuses => BeingCancelled(x)'
    BY DEF RevokedRest
  <2>1. CASE x = r
    BY <2>1, <1>3 DEF Executing, Revocable, Foreground, Busy
  <2>2. CASE x # r
    BY <2>2, <1>2 DEF RevokedRest, Executing, Busy
  <2> QED
    BY <2>1, <2>2
<1>5. SomebodyEnds'
  BY <1>2, <1>3 DEF SomebodyEnds, Active, EndPlaces
<1> QED
  BY <1>1, <1>4, <1>5

\* The event of a cancellation is written, and ends its run; the event of a
\* creation is none of a recommendation's or a plan's.
LEMMA PublishOwedKeepsEnds ==
  ASSUME IInv, Answered, EndsInv, NEW r \in Runs, NEW s \in Owed, PublishOwed(r, s)
  PROVE  EndsInv'
<1> USE DEF IInv, TypeOK, Answered, EndsInv, PublishOwed, Publish, SetStatus, taskVars
<1>1. OnlyRequirementsAsk'
  BY DEF OnlyRequirementsAsk, Kind
<1>2. KindOf[r] \in Foreground => status'[r] = "cancelled"
  BY DEF RequestsAreNew, Foreground
<1>3. \A x \in Runs : x # r => status'[x] = status[x] /\ (BeingCancelled(x) => BeingCancelled(x)')
  BY DEF BeingCancelled
<1>4. RevokedRest'
  BY <1>2, <1>3 DEF RevokedRest, Executing, ActiveStatuses
<1>5. SomebodyEnds'
  BY <1>2, <1>3 DEF SomebodyEnds, Active, ActiveStatuses
<1> QED
  BY <1>1, <1>4, <1>5

\* A lost worker's messages wait in the queue.
LEMMA CrashKeepsEnds ==
  ASSUME IInv, EndsInv, Restart \/ \E d \in Deliveries : Crash(d)
  PROVE  EndsInv'
<1> USE DEF IInv, TypeOK, EndsInv, Restart, Crash, Goto, rowVars, apiVars
<1>1. UNCHANGED <<status, outbox, owed, task>> /\ revoked' \subseteq revoked
  OBVIOUS
<1>2. \A d \in Deliveries : pc'[d] = pc[d] \/ pc'[d] = "queued"
  OBVIOUS
<1>3. OnlyRequirementsAsk'
  BY <1>1, <1>2 DEF OnlyRequirementsAsk, Kind, AskPlaces
<1>4. RevokedRest'
  BY <1>1, <1>2 DEF RevokedRest, Executing, BeingCancelled, Busy
<1>5. SomebodyEnds'
  <2>1. \A d \in Deliveries :
          pc[d] \in EndPlaces => pc'[d] \in EndPlaces /\ task'[d] = task[d]
    BY <1>1, <1>2 DEF EndPlaces
  <2> HIDE DEF IInv, TypeOK, EndsInv
  <2> QED
    BY <1>1, <2>1, SomebodyStays
<1> QED
  BY <1>3, <1>4, <1>5

\* So does a message that is delivered twice.
LEMMA DuplicateKeepsEnds ==
  ASSUME IInv, EndsInv, NEW d \in Deliveries, NEW e \in Deliveries, Duplicate(d, e)
  PROVE  EndsInv'
<1> USE DEF IInv, TypeOK, EndsInv, Duplicate, Goto, rowVars, apiVars
<1>1. OnlyRequirementsAsk'
  BY DEF OnlyRequirementsAsk, Kind, AskPlaces
<1>2. RevokedRest'
  BY DEF RevokedRest, Executing, BeingCancelled, Busy
<1>3. SomebodyEnds'
  <2>1. UNCHANGED status /\ owed \subseteq owed'
    OBVIOUS
  <2>2. \A f \in Deliveries :
          pc[f] \in EndPlaces => pc'[f] \in EndPlaces /\ task'[f] = task[f]
    BY DEF EndPlaces, Busy
  <2>3. outbox' = outbox
    OBVIOUS
  <2> HIDE DEF IInv, TypeOK, EndsInv
  <2> QED
    BY <2>1, <2>2, <2>3, SomebodyStays
<1> QED
  BY <1>1, <1>2, <1>3

\* Initially only a creation is active.
LEMMA InitEnds == Init => EndsInv
<1> SUFFICES ASSUME Init PROVE EndsInv
  OBVIOUS
<1>1. OnlyRequirementsAsk
  BY DEF Init, OnlyRequirementsAsk, AskPlaces
<1>2. RevokedRest /\ SomebodyEnds
  BY DEF Init, RevokedRest, SomebodyEnds, Active, Foreground, ActiveStatuses
<1> QED
  BY <1>1, <1>2 DEF EndsInv

\* The second invariant is inductive, given the first.
LEMMA NextKeepsEnds ==
  ASSUME Answered, IInv, IInv', EndsInv, [Next]_vars
  PROVE  EndsInv'
<1>1. CASE UNCHANGED vars
  BY <1>1 DEF vars, rowVars, apiVars, taskVars, EndsInv, OnlyRequirementsAsk, Kind,
     RevokedRest, Executing, SomebodyEnds, BeingCancelled, Active
<1>2. ASSUME NEW r \in Runs, Request(r) PROVE EndsInv'
  BY <1>2, RequestKeepsEnds
<1>3. ASSUME NEW r \in Runs, Handle(r) PROVE EndsInv'
  <2>1. ~DispatchFails(r)
    BY DEF Answered, DispatchFails
  <2> QED
    BY <1>3, <2>1, DispatchKeepsEnds, RevokeKeepsEnds, PublishOwedKeepsEnds DEF Handle, Owed
<1>4. ASSUME NEW d \in Deliveries, Execute(d) PROVE EndsInv'
  <2>1. CASE SendEnrichment(d)
    BY <2>1, SendKeepsEnds
  <2>2. CASE ~SendEnrichment(d)
    BY <1>4, <2>2, TasksMove, TaskStep DEF IInv
  <2> QED
    BY <2>1, <2>2
<1>5. ASSUME NEW d \in Deliveries, Crash(d) PROVE EndsInv'
  BY <1>5, CrashKeepsEnds
<1>6. CASE Restart
  BY <1>6, CrashKeepsEnds
<1>7. ASSUME NEW d \in Deliveries, NEW e \in Deliveries, Duplicate(d, e) PROVE EndsInv'
  BY <1>7, DuplicateKeepsEnds
<1>8. ~(\E d \in Deliveries : Fault(d)) /\ ~(\E o \in owed : ApiDies(o))
  BY DEF Answered, Fault, ApiDies
<1> QED
  BY <1>1, <1>2, <1>3, <1>4, <1>5, <1>6, <1>7, <1>8 DEF Next

\* While the database and the broker answer and API processes live, no
\* recommendation or plan is left active with nobody to end it: whatever is
\* cancelled, revoked, repeated or delivered twice, and however often workers
\* are lost.
THEOREM ForegroundRunsEnd ==
  ASSUME Answered
  PROVE  Spec => []ForegroundEnds
<1>1. EndsInv => ForegroundEnds
  BY DEF EndsInv, SomebodyEnds, ForegroundEnds, Quiescent, BeingCancelled, EndPlaces, Busy,
     Active
<1>2. IInv /\ IInv' /\ EndsInv /\ [Next]_vars => EndsInv'
  BY NextKeepsEnds
<1> QED
  BY <1>1, <1>2, InitEnds, RunsInvariance, PTL DEF Spec

====
