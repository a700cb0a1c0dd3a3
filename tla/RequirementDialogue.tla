------------------------- MODULE RequirementDialogue -------------------------
(***************************************************************************)
(* The conversation of one run about the requirements of a trip: the       *)
(* traveller's messages, the tasks they are delivered to, the graph whose  *)
(* checkpoint survives them, the questions it asks and the version it      *)
(* saves.  A worker may be lost between any two steps and a message may be *)
(* delivered again; the tasks of one run are executed one at a time.       *)
(***************************************************************************)
EXTENDS Requirements

CONSTANTS Last,        \* bound: the number of messages the traveller sends
          Patches,     \* what the model may extract from a message
          Before,      \* the requirements of the version the run is based on
          Faults       \* bound on lost workers, failed tasks and repeated messages

ASSUME LastAssumption == Last \in Nat \ {0}
ASSUME FaultsAssumption == Faults \in Nat
ASSUME PatchesAssumption == \A p \in Patches : IsPatch(p)
ASSUME BeforeAssumption == IsRequirements(Before)

Messages == 1..Last  \* message 1 starts the run, the others answer questions
NoMessage == 0

VARIABLES
  status,    \* status of the run
  said,      \* how many messages were recorded
  queue,     \* messages to be delivered
  task,      \* the message whose task is executed
  pc,        \* how far that task is
  thread,    \* the graph's checkpoint
  questions, \* the clarification recorded for each message
  version,   \* the requirements of the saved version
  faults     \* bound: losses of a worker so far

vars == <<status, said, queue, task, pc, thread, questions, version, faults>>

NoThread == [at |-> "none", req |-> NoRequirements, patch |-> NoPatch, message |-> NoMessage,
             processed |-> {}, failed |-> FALSE, issues |-> {}]

Init ==
  /\ status = "queued" /\ said = 1 /\ queue = {1}
  /\ task = NoMessage /\ pc = "idle"
  /\ thread = NoThread
  /\ questions = [m \in Messages |-> {}]
  /\ version = NoRequirements
  /\ faults = 0

-----------------------------------------------------------------------------
\* POST .../resume: the answer to an interrupted run, and its task.
Resume ==
  /\ status = "interrupted" /\ said < Last
  /\ said' = said + 1 /\ queue' = queue \union {said + 1}
  /\ status' = "queued"
  /\ UNCHANGED <<task, pc, thread, questions, version, faults>>

\* mark_requirement_running; a completed run is left alone.
Take(m) ==
  /\ pc = "idle" /\ m \in queue
  /\ queue' = queue \ {m}
  /\ IF status = "completed" THEN UNCHANGED <<status, task, pc>>
     ELSE status' = "running" /\ task' = m /\ pc' = "started"
  /\ UNCHANGED <<said, thread, questions, version, faults>>

\* A first message starts the thread afresh, whatever its checkpoint.  The
\* message of another task answers the question at which the graph stopped; if
\* an earlier task stopped in between, the graph goes on from there without it.
Invoke ==
  /\ pc = "started" /\ pc' = "graph"
  /\ thread' = IF task = 1 THEN [NoThread EXCEPT !.at = "extract", !.req = Before, !.message = 1]
               ELSE IF thread.at = "ask"
               THEN [thread EXCEPT !.at = "extract", !.message = task, !.failed = FALSE]
               ELSE thread
  /\ UNCHANGED <<status, said, queue, task, questions, version, faults>>

At(node) == pc = "graph" /\ thread.at = node
Graph    == UNCHANGED <<status, said, queue, task, questions, version, faults>>

\* The processed messages are not looked at.
M_IsNewMessage == TRUE
IsNewMessage == thread.message \notin thread.processed

\* extract_requirement_patch: a message is given to the model once.
Extract(p) ==
  /\ At("extract") /\ IsNewMessage
  /\ thread' = [thread EXCEPT !.at = "merge", !.patch = p, !.failed = FALSE]
  /\ Graph /\ UNCHANGED pc

ExtractionFails ==
  /\ At("extract") /\ IsNewMessage
  /\ thread' = [thread EXCEPT !.at = "merge", !.patch = NoPatch, !.failed = TRUE]
  /\ Graph /\ UNCHANGED pc

\* A redelivered answer is refused instead of passed over.
M_StopsAtProcessed == FALSE

SkipProcessed ==
  /\ At("extract") /\ ~IsNewMessage
  /\ thread' = [thread EXCEPT !.at = "merge", !.patch = NoPatch]
  /\ Graph /\ UNCHANGED pc

\* merge_requirements and route_after_merge.
Merge ==
  /\ At("merge")
  /\ LET req    == Apply(thread.req, thread.patch)
         issues == Issues(req, thread.patch.ambiguous, thread.failed)
     IN  thread' = [thread EXCEPT !.req = req, !.issues = issues,
                                  !.processed = @ \union {thread.message},
                                  !.at = IF issues = {} THEN "end" ELSE "ask"]
  /\ Graph /\ UNCHANGED pc

\* The graph has come to its end, or to the next question.
Return ==
  /\ At("end") \/ At("ask")
  /\ pc' = "save"
  /\ Graph /\ UNCHANGED thread

-----------------------------------------------------------------------------
Finish(s) ==
  /\ status' = s /\ task' = NoMessage /\ pc' = "idle"
  /\ UNCHANGED <<said, queue, thread>>

\* A question that was recorded is not renewed.
M_RecordOnce(m, asked) == IF questions[m] = {} THEN [questions EXCEPT ![m] = asked] ELSE questions

\* record_clarification: under the message of the task, over an earlier question.
Record(m, asked) == [questions EXCEPT ![m] = asked]

SaveQuestion ==
  /\ pc = "save" /\ thread.issues # {}
  /\ \E asked \in Questions(thread.issues) : questions' = Record(task, asked)
  /\ Finish("interrupted") /\ UNCHANGED <<version, faults>>

SaveVersion ==
  /\ pc = "save" /\ thread.issues = {}
  /\ version' = thread.req
  /\ Finish("completed") /\ UNCHANGED <<questions, faults>>

\* An error that is not retried, like an outdated base: the run fails.
Fail ==
  /\ pc # "idle" /\ faults < Faults
  /\ faults' = faults + 1
  /\ Finish("failed") /\ UNCHANGED <<questions, version>>

\* The worker is lost, or a transaction fails and is retried.
Crash ==
  /\ pc # "idle" /\ faults < Faults
  /\ faults' = faults + 1
  /\ queue' = queue \union {task}
  /\ task' = NoMessage /\ pc' = "idle"
  /\ UNCHANGED <<status, said, thread, questions, version>>

\* A message is delivered again after its task has ended.
Duplicate(m) ==
  /\ m <= said /\ m \notin queue /\ m # task /\ faults < Faults
  /\ faults' = faults + 1
  /\ queue' = queue \union {m}
  /\ UNCHANGED <<status, said, task, pc, thread, questions, version>>

Step ==
  \/ \E m \in Messages : Take(m)
  \/ \E p \in Patches : Extract(p)
  \/ Invoke \/ ExtractionFails \/ SkipProcessed \/ Merge \/ Return
  \/ SaveQuestion \/ SaveVersion

Next == Resume \/ Step \/ Fail \/ Crash \/ \E m \in Messages : Duplicate(m)

Spec == Init /\ [][Next]_vars

\* Workers take messages and go on with what they have taken.
FairSpec == Spec /\ WF_vars(Step)

-----------------------------------------------------------------------------
\* What planning needs to know, stated on its own.
Plannable(req) ==
  /\ \/ req["trip_scope"].value = "destination_only"
     \/ req["trip_scope"].value = "door_to_door" /\ req["origin"].value # Nothing
  /\ \/ req["start_date"].value = "coming"
     \/ req["start_date"].value = Nothing /\ req["date_precision"].value \in {"month_only", "flexible"}
  /\ req["days"].value = "in range"
  /\ req["transport_mode"].value # Nothing
  /\ req["destination"].value # Nothing \/ req["must_visit_place_texts"].value # {}

\* A version is only saved with requirements that can be planned for, however
\* often messages were delivered, lost or not understood.
SavedIsPlannable == status = "completed" => Plannable(version)

\* The first message is delivered, or delivered again: the thread goes back to
\* the requirements the run is based on, and to no message heard.
StartsOver ==
  /\ task = 1 /\ thread'.message = 1
  /\ thread'.req = Before /\ thread'.processed = {}

\* A value changes by what the traveller says; a guess or a default changes only
\* what the traveller has not said, and no list of places.  Lost workers, failed
\* tasks and repeated answers change nothing; a repeated first message does, but
\* takes all of it back at once (worker.py 218-239): see AnswersAreKept.
TravellerDecides ==
  [][\A f \in Fields :
       thread'.req[f].value # thread.req[f].value =>
         \/ IsExplicit(thread.patch, f)
         \/ f \notin PlaceFields /\ thread.req[f].source # "explicit"
         \/ StartsOver]_vars

\* A run that waits has a recorded question about what its thread waits for,
\* with the most important issue in it.
QuestionIsCurrent ==
  status = "interrupted" =>
    /\ thread.at = "ask"
    /\ \E m \in 1..said : questions[m] \in Questions(thread.issues) /\ questions[m] # {}

\* What the conversation comes to: the requirements its thread holds, from the
\* messages it has processed, and the version that was saved from them.
Register == INSTANCE RequirementRegister
            WITH Says <- Patches \union {NoPatch}, Blank <- NoRequirements,
                 Heard <- Apply, Ready <- Plannable,
                 req <- thread.req, heard <- thread.processed,
                 saved <- status = "completed", version <- version

\* Through lost workers, repeated and skipped deliveries and failed tasks a
\* message counts once at most since the conversation last started, and what
\* was heard since then is saved once, complete.
ImplementsRegister == Register!RegisterSpec

\* Every message is dealt with: the run asks, completes or fails.
MessagesAreDealtWith ==
  status = "queued" ~> status \in {"interrupted", "completed", "failed"}

-----------------------------------------------------------------------------
\* A statement of the documents that the code does not keep.

\* The technical design: when a worker restarts, the task is redelivered and the
\* graph recovers from its checkpoint.  The answers that were heard would then
\* stay heard.
AnswersAreKept == [][thread.processed \ {1} \subseteq thread'.processed]_vars
=============================================================================
