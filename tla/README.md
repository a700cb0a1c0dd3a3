# RouteBook Agent: TLA+ models, checks and proofs

RouteBook Agent turns a conversation into a travel itinerary. A FastAPI
service (`services/api/app/main.py`) owns the HTTP interface, a Celery worker
(`worker.py`) runs the long operations, PostgreSQL keeps everything that must
survive, Redis carries progress events, LangGraph keeps one checkpoint thread
per requirement conversation, and a Next.js page shows the result. All paths
below are relative to `src/services/api/app/` unless they start with `src/`.

## 1. Inventory

### 1.1 Parts, state, operations

| Part | State | Operations | Source |
|---|---|---|---|
| Idempotent creation | `idempotency_records` (scope, key) | `POST /api/routebooks`: advisory lock per key, look the key up, insert routebook, run and record; dispatch; publish QUEUED | `services.py` 68-124, `main.py` 355-398 |
| Version store | `routebook_versions`, `routebooks.current_version_id`, `workflow_runs.result_version_id` | `VersionService.commit`, `resolve_requirement_base`, `commit_initial`; callers: creation task, requirement task, itinerary task, enrichment task, edit, accepted proposal, undo | `services.py` 127-236, `planning/persistence.py`, `editing/persistence.py` |
| Workflow runs | `workflow_runs.status`, `current_stage`, `phase`, `latest_event_id` | start, `mark_running`, `mark_requirement_running`, `mark_failed`, `mark_interrupted`, cancel, resume, the progress publisher, `_mark_failed`, redelivery and retry by Celery | `services.py` 239-403, `worker.py`, `progress.py` 52-66, `main.py` |
| Requirement dialogue | `conversation_messages`, `llm_call_records`, LangGraph checkpoint | start, resume, extract, merge, ask, interrupt, record clarification / status / trace | `services.py` 308-518, `requirements/` |
| Place recommendations | `recommendation_batches`, `place_proposals` | strategy, search, rank, spread, save a batch, feedback (accept, reject, replace), feedback history | `recommendations/` |
| Itinerary planning | none of its own | load input, preflight, arrange, route, validate, repair, commit | `planning/` |
| Editing | `change_proposals` | resolve an intent, preview, recompute, execute, resolve a proposal, undo | `editing/` |
| Finalization | `final_pages` | finalize, share, read, revoke | `finalization.py` |
| Progress events | a Redis stream and channel per run | publish, stream with replay, snapshot | `progress.py`, `main.py` 559-600 |
| Content enrichment | provider cache | select places, search under a budget, summarise, degrade | `enrichment/`, `worker.py` 481-594 |
| Provider access | per-process HTTP client, Redis cache | retries with backoff, cache with fresh and stale period, quality gate for places | `providers/` |
| Web client | browser state | start, follow progress, decide | `src/apps/web` |
| Migrations, configuration, scripts, evaluation sets, examples | | | `src/migrations`, `config.py`, `src/scripts`, `src/examples` |

### 1.2 How they interact

* An API request inserts a row of `workflow_runs` in one transaction and sends a
  Celery task afterwards; the task reads the run back. Nothing ties the two: a
  crash in between leaves a queued run without a task.
* A task is a sequence of transactions with unlocked work in between (model
  calls, provider calls). Tasks are acknowledged late and requeued when a worker
  dies, so a task may run twice, also concurrently with its first delivery.
* Every version is saved by `VersionService.commit`, inside a transaction of its
  caller, under the run's row lock and a compare-and-set on the routebook.
* The progress publisher is called between the transactions of a task and by API
  handlers. It does not only send an event: it writes the run's status, stage
  and latest event id in a transaction of its own.
* A task, an edit or a replacement reads versions, batches and decisions in one
  transaction, asks models and providers outside any, and saves in another, which
  compares the version it started from with the current one.
* The dialogue's graph keeps its own checkpoint, apart from the run's row and the
  recorded questions; a task that is delivered again finds any combination.
* Every provider answer goes through one Redis cache, which may be unreachable.
* Requests of several browsers, the worker processes and redelivered tasks meet
  only in PostgreSQL, at its default isolation level, READ COMMITTED.

### 1.3 What is hard here

* **Stale reads under READ COMMITTED.** `VersionService.commit` reads the
  routebook without a lock; `record_clarification` reads the run without a lock
  and `mark_interrupted` then decides on that reading, although it locks the row
  (the session keeps what it has loaded); edits and itineraries are computed from
  a version read in an earlier transaction.
* **Two writers of one column.** `workflow_runs.status` is written by the
  transactions that do the work and, unconditionally and later, by the publisher
  that reports it.
* **At-least-once tasks.** Late acknowledgement, requeue of lost workers, retries
  after database errors, repeated client requests, revocation by task id.
* **Row and message.** A row is committed and a Celery task, an event or a Redis
  entry is sent afterwards; either may fail alone.
* **Check, then act.** Active runs, operation ids and final pages are looked up
  and inserted, some under a lock and some not.
* **Decisions that outlive what they are about.** A proposal waits while others
  commit, a shared page is read after undo and deletion, a batch is decided after
  the requirements changed.
* **Repetition.** A message, an edit or a replacement arrives again with the same
  id, perhaps with other content, perhaps while the first is under way.
* **Old facts.** A cached answer is served in place of one that cannot be had.
* **Sequences of edits.** Days, places, segments and weather facts refer to each
  other; each edit recomputes some of them only.
* **Replay and subscription.** Events are published between the steps of the
  handler that reads the row, subscribes and reads the stream.

The list with the line of each is under "hazards" in `PROJECT.json`.

### 1.4 What makes each part correct

| Part | Properties |
|---|---|
| Version store | one version per run; one line of history; no change lost; a repeated operation finds its version; no deadlock; it implements an append-only history |
| Workflow runs | completed means that the result is committed; interrupted means that a question is recorded; no foreground run is left active; an idle cancelled run stays cancelled; every message is dealt with |
| Progress events | nothing falls between replay and subscription; the last event is what the page ends up showing |
| Editing and proposals | nothing unconfirmed is saved; an accepted proposal is its preview on its base; an operation is executed once; an outdated proposal has no effect; a decision is final |
| Finalization | one active page per version and policy; a shared page is sound, shows what was frozen and never changes |
| Requirement dialogue | what is saved can be planned for; the question is about what is missing; only the traveller changes what the traveller said; repetition changes nothing; every message ends |
| Itinerary planning | a must-visit place is never dropped; ordering keeps the places and never lengthens the route; a saved plan can be published |
| Itinerary editing | segments always fit the days; an accepted edit changes the days it was said to affect and no other |
| Recommendations | what was refused is not offered again; a batch follows its version's requirements; the selection is as varied as it can be; decisions are final |
| Providers | an answer is as old as it says; a stale one only in an outage; a place is adopted only when it is unambiguous |
| Enrichment | the budget bounds the searches and goes to the important places; what was found reaches the traveller, and nothing without a source |
| Idempotent creation (partly modelled) | one routebook per key, also for concurrent requests |

## 2. Plan

Modules in the order of their importance; all of them exist.

1. `VersionChain` (abstract), `VersionCommit` (detailed, refines it), proofs.
2. `WorkflowRuns`, proofs. It takes from 1 that a run owns one version, and so
   lets the run stand for its version.
3. `ProgressStream`, proofs. It takes from 2 that several actors publish events.
4. `RoutebookRow`, `ChangeProposals`, `FinalPages`, composed by
   `RoutebookDecisions`, proofs. They take from 1 that a commit is one step, and
   refine `VersionChain` as well.
5. `Requirements` (a pure function), `RequirementRegister` (abstract),
   `RequirementDialogue` (the graph around the function, refines it), proofs.
6. `RouteOptimizer`, `Itinerary` (pure), `ItineraryPlanning`, `ItineraryEditing`,
   composed by `RoutebookItinerary`, proofs.
7. `PlaceSelection` (pure), `Recommendations`, proofs.
8. `ProviderCache`, `PlaceGate` (pure), `ProviderCalls`, `PlaceEnrichment`,
   composed by `ExternalFacts`, proofs.

Left for later: the idempotency record of a creation.

Each composition gets one checking run with its safety properties and, where
waiting matters, liveness; bounds are two or three actors per kind. No module holds
a recursive operator; functions that recurse are recursive functions or folds.

## 3. Modules

An operator named `M_X` is a plausible mistake in the operator after it. It is
used by no specification; putting it in place of that operator must make a run
fail, which shows that the property looks at the code it is about.

### 3.1 VersionChain

What the version store promises: `history` is a sequence of versions; a step
appends one, as the first (`Initialise`), as the last one's content with the
run's change (`Apply`), or as the content before the last change (`Undo`). `ChainSpec`
begins without a version, `FoundedSpec` with the first one, for a module that leaves the
creation to others.

### 3.2 VersionCommit

The committing transactions, one action per statement that takes a lock, reads,
or writes.

| State | Code |
|---|---|
| `rows`, `baseOf`, `result` | committed `workflow_runs` rows, `base_version_id`, `result_version_id` |
| `versions`, `ver`, `current`, `deleted` | `routebook_versions`, `routebooks.current_version_id`, `deleted_at` |
| `pc`, `work`, `base`, `seen` | an attempt: one execution of a transaction, its run, the base it passes, the content it computed from |
| `runLock`, `bookLock` | row locks of PostgreSQL: owner of a run's row, strength held on the routebook's |

| Actions | Code |
|---|---|
| `CreateRow`, `SoftDelete` | the API handlers that insert a run or delete the routebook |
| `Load` | the transaction that reads the work's input, or the read before a lock |
| `FindOperation`, `InsertRun` | `EditingPersistenceService.execute` |
| `LockRunFirst`, `LockBook` | the itinerary task, `resolve_proposal` |
| `ResolveRequirementBase` | `VersionService.resolve_requirement_base` |
| `PrepareUndo` | `EditingPersistenceService.undo` |
| `EnterCommit`, `ReadBook`, `InsertVersion`, `SwitchCurrent`, `FinishCommit` | `VersionService.commit` |
| `Rollback` | a crash, a lost connection, an error, at any statement |

The content of a snapshot is the set of runs whose change it contains, which is
what the properties tell apart. Three guards of the code are redundant for the
safety properties taken one at a time: the comparison of the pointer, the
compare-and-set, and the unique version number; likewise the run's row lock and
the unique `workflow_run_id`. The model has all of them, and the mistakes chosen
are ones that no other guard makes up for.

### 3.3 WorkflowRuns

The life of the runs of one routebook; one action per transaction or per call to
the publisher, the broker or a model.

| State | Code |
|---|---|
| `status`, `base`, `versions`, `current`, `batches`, `asked` | the rows of runs, versions, batches and clarification messages |
| `checked`, `outbox`, `owed` | API handlers between two of their steps |
| `revoked` | task ids the workers have been told to revoke |
| `pc`, `task`, `local`, `retries`, `crashes` | Celery messages and the tasks that execute them |

Actions of the API: `StartMessage`, `CheckFree` and `InsertRun`, `Dispatch`,
`DispatchFails`, `Replay`, `Resume`, `Cancel`, `Revoke`, `PublishOwed`,
`ApiDies`. Actions of a task: `LoadFoundation`, `MarkRunning`,
`MarkRequirementRunning`, `Begin`, `Notify`, `Work`, `Validate`, `Save`,
`SaveRecommendations`, `Ask`, `Interrupt`, `Report`, `ReportAsk`, `Handover`,
`SendEnrichment`, `Retry`, `Fail`, `ReportFail`. Faults: `Fault`, `Crash`,
`Restart`, `Duplicate`. `Publish` is `ProgressPublisher.publish` as far as the
row is concerned: its event's status replaces the row's, or the write fails and
the failure is ignored. Celery is external: a revoked task is killed and its
message comes back, and is dropped by a worker that knows of the revocation.

### 3.4 ProgressStream

| State | Code |
|---|---|
| `row`, `latest` | `workflow_runs.status` (active, ended, cancelled) and `latest_event_id` |
| `stream`, `pending` | the run's Redis stream; messages the handler's subscription holds |
| `next`, `phase` | the publishers: which event, and whether its row or its Redis write comes next |
| `conn`, `snapshot`, `resume`, `backlog`, `got` | `workflow_events` and `stream_progress`, between two awaits |
| `lastId`, `shows` | the browser's `EventSource` and what the page shows |

`Record` is the business transaction an event reports, `Persist` and `Send` are
the halves of `publish`, `Open`, `Subscribe`, `Replay` and `Deliver` the handler,
`Drop` a lost connection. Events are delivered at least once: one published
between the subscription and the replay is sent twice, and the page goes back to
older events for a moment; `ShowsLatest` says where it ends up.

### 3.5 RoutebookRow, ChangeProposals, FinalPages, RoutebookDecisions

Transactions on one routebook that lock its row are one action each
(`VersionCommit` shows why they may be); what happens outside them is apart.

| State | Code |
|---|---|
| `current`, `content`, `deleted` | the routebook's row and its versions; the content of a version is the set of changes in it |
| `run`, `result`, `proposal`, `base`, `preview`, `print` | runs and `change_proposals` of each operation id, with the fingerprint of its plan |
| `at`, `op`, `loaded` | `edit_routebook` requests between loading and executing |
| `task`, `owed` | the requirement task that `resume` sends for a proposal's run; a cancellation not published yet |
| `page`, `latestFinal` | `final_pages`, `latest_final_version_id` |

`LoadCurrent`, `Execute` (find an executed operation, propose, save or conflict) are
the halves of an edit; `Accept`, `Reject`, `RefuseOutdated` the outcomes of
`resolve_proposal`; `Undo`, `OtherCommit`; `Resume`, `MarkRequirementRunning`,
`ReportRunning`, `NothingToResume`, `ReportFailed`, `Cancel`, `PublishCancelled` what
the API lets a browser do to a run that waits for a decision; `Finalize`, `Revoke`,
`SoftDelete`. `Shared` is what a reader of a page gets. `refused` only remembers which
proposals were answered with a conflict.

The abstract `history` of `VersionChain` is read off `content` and `result`: `Owner(v)` is the
operation that has version `v` as its result, or the other run whose change is first seen
in it; nothing owns the first version. `SaveEdit`, `Accept` and `OtherCommit` are `Apply`, `Undo`
is `Undo`, and everything else leaves the history alone.

### 3.6 Requirements, RequirementRegister, RequirementDialogue

`Requirements` is one message's effect: `Apply` (patch, ambiguities, defaults, derived
fields), `Issues`, `Questions`. A value is one of those the rules tell apart (a number
of days in or out of range, a past or coming date, a set of two items for a list); every
field has its status, source and confirmation. `RequirementDialogue` is the run around it.

| State | Code |
|---|---|
| `status`, `said`, `version` | the run, the recorded messages, the saved requirements |
| `queue`, `task`, `pc` | the messages to be delivered and the task that executes one |
| `thread` | the checkpoint: node, requirements, patch, processed messages, failure |
| `questions` | the clarification recorded for each message |

`Resume`, `Take`, `Invoke` (start, continue or restart the thread), `Extract`,
`ExtractionFails`, `SkipProcessed`, `Merge`, `Return`, `SaveQuestion`, `SaveVersion`, and
the faults `Fail`, `Crash`, `Duplicate`. A checkpoint is written after every node, so
a crash falls between any two. The first message is always invoked from the empty state
(`StartsOver`): delivered again after later messages, it forgets them, see 4.3. What the
traveller said is therefore only safe until then, and `TravellerDecides` names that step.

`RequirementRegister` is what the conversation promises: requirements that each message
changes at most once since the conversation last started (`Hear`), that begin anew only
together with the messages heard, which forgets the answers (`Start`), and that are saved once, when they can be planned for (`Save`). The checkpoint's requirements
and processed messages are the register; `Merge` is `Hear`, `SaveVersion` is `Save`, and
questions, failures and deliveries leave it alone.

### 3.7 RouteOptimizer, Itinerary, ItineraryPlanning, ItineraryEditing

`RouteOptimizer` is nearest neighbour and limited two-opt over a distance table. Each
loop of the code is a fold named for one turn of it: `Visit` takes the nearest place left;
`Try` compares one reversal with the best route so far, `TryEnds` runs over the ends and
`Pass` over the starts, so the nested loops see each other's improvements as they do in
the code. Likewise `WithGroup` (districts in order of their first place), `PlaceOne`,
`FillDay` and `Repaired` in `ItineraryPlanning`. `Itinerary` is the part of a snapshot that plans and edits work on, with the
final checks (`FinalIssues`) and the anchors of a day (`day_hash`).

| Actions | Code |
|---|---|
| `LoadInput`, `Preflight`, `Arrange`, `Round`, `SavePlan`, `PlanIsOutdated` | `load_input`, preflight, `_arrange`, one round of routing and repair, the save |
| `PlanEdit`, `RefuseEdit`, `SaveEdit`, `ProposeEdit`, `AcceptProposal`, `DropProposal` | intent, impact, preview, recomputation and check of an edit, and what becomes of it |

Each hop may take any of the instance's `Legs` or stay unverified, and any forecast of
the instance may come, so that validation and repair meet every mixture. Scores and
names are abstracted to the orders they induce. `Merged` is the list of preserved and new
segments that `recompute` returns, as a function of the segments' ids.

### 3.8 PlaceSelection, Recommendations

`PlaceSelection` is the pure part: `Strategy`, `Recalled`, `HardFiltered`, `Score`,
`Ranked`, `Spread`, `Selected`; the last two are one `Pass` over the ranked places each,
the first with the caps (`Full`), the second without. `Diverse` says what a selection should
be without saying how it is made. In `Recommendations`, `versions` are the requirements of each
version, `batches` the stored proposals, `search` what each task and each replacement
request is doing: `Generate`, `Load`, `Search`, `Save`, `GiveUp`, with `Decide`, `Replace` (its
first transaction; the search and the save follow) and `Revise` (a commit) in between.

### 3.9 ProviderCache, ProviderCalls, PlaceGate, PlaceEnrichment, ExternalFacts

| State | Code |
|---|---|
| `now`, `store` | the clock and the Redis cache |
| `calls` | what each thread that asks a provider has looked up and tried |
| `job`, `guides` | the enrichment task and `place_enrichments` of the current version |

`Begin` looks the cache up, `Succeed` and `Fail` are attempts, `Tick` lets time pass, but no
attempt outlasts its timeout. A lookup may find nothing although there is an entry, and a
write may be lost: that is Redis out of reach. That an attempt ends within its timeout is an
assumption: the client's timeouts are per operation, so a response that trickles in could
take longer. The moment a fact is fetched and the moment it is stored are one.
`Adoption` is the quality gate as a function of the candidates, score by score: the best of
those that are left after the filter, and its lead over the score that comes next.
`Unmistakable` says without scores what the weights, the threshold and the margin add up to.
In `Summarise` the guides are cached one by one, each if Redis is up. `StartEnrichment`, `NextPlace`, `SearchReturns`, `SearchFails`, `Summarise`,
`SaveGuides` are the enrichment task; starting it again is its redelivery.

## 4. Runs

| Run | Checks | Shows |
|---|---|---|
| `commit_editing` | `LinearHistory`, `ReuseHasResult`, `NoLockCycle`, `ImplementsChain` | creation, two edits, an acceptance, an enrichment, an undo; refinement of `VersionChain` |
| `commit_live` | `OneVersionPerRun`, `NoLostUpdate`, `Terminates` | creation, requirement and itinerary interleaved, with redelivery; lock waits end |
| `runs_creation` | `CompletedHasResult`, `InterruptedWasAsked`, `DeliveriesEnd` | retries, requeues, repeated and lost requests, database errors, duplicates and a crash around a creation, a message and recommendations |
| `runs_tasks` | `ForegroundEnds`, `IdleCancelledStays` | cancellation, repeated deliveries and a restart around a message, a plan and an enrichment |
| `stream_replay` | `NothingMissed`, `ShowsLatest` | two publishers, two connections, all failures |
| `decisions` | `NothingUnconfirmed`, `AcceptedIsItsPreview`, `OncePerOperation`, `OutdatedStaysOut`, `OnePagePerVersionAndPolicy`, `SharedIsSound`, `FollowsChain` | edits, a proposal and its run, an undo, another commit, two pages, a deletion, in every order; refinement of `VersionChain` |
| `dialogue` | `SavedIsPlannable`, `QuestionIsCurrent`, `TravellerDecides`, `ImplementsRegister`, `MessagesAreDealtWith` | three messages with any of five patches, failed extractions, two faults; refinement of `RequirementRegister` |
| `itinerary` | `DraftKeepsMustVisits`, `OrderingShortens`, `DaysAreConnected`, `PlansCanBePublished`, `AcceptedEditsStayInScope` | plans and edits of five places over one to three days |
| `recommendations` | `RefusalsBind`, `BatchesFollowTheirVersion`, `SelectionIsDiverse`, `DecisionsAreFinal` | a task and a replacement search at once, decisions, a change of requirements |
| `external_facts` | `AnswersAreAsOldAsTheySay`, `StaleOnlyInAnOutage`, `AdoptedIsUnambiguous`, `BudgetIsSpentInOrder`, `ResultsGiveGuides` | two threads and failing providers; four places and two searches |
| `dialogue_restart` | `AnswersAreKept` | the code does not keep this statement of the documents, see 4.3 |
| `runs_events` | `EventsAreNotFacts` | the code does not keep this statement of the documents, see 4.3 |

Deadlock is not checked: the system may stop when every request is dealt with.

### 4.1 Bounds, and why they are enough

* `Attempts` (4): executions of committing transactions, and so versions. Two
  attempts of one run make a redelivery, three of different runs a race won and
  lost twice; an undo needs two versions before it.
* `Deliveries` (2 or 3): messages ever sent. Two messages of one run are a
  redelivery or a repeated request, a third one leaves room for another run.
* `MaxRetries` (1 or 0; the code has 3): one retry has a first and a last attempt.
* `MaxCrashes` (1 or 0): workers lost. One crash already puts a second execution of
  a task on what the first one left at every point; for the invariants the proofs
  cover any number.
* `MaxOpens` (2): a connection and a reconnection.
* `Trouble` selects the faults of a run, so that one run need not interleave all of
  them: `cancel` users, `replay` repeated requests, `db` failed transactions, `api`
  failed dispatches and lost API processes, `duplicate` double deliveries, `redis`
  failed pipelines, `drop` lost connections. `ForegroundEnds` is checked without
  `db` and `api`: with either the code does leave a run active for ever. No run has
  `cancel` together with `db` or `duplicate`; the theorems do not depend on `Trouble`.
* `decisions`: five versions, so that an edit, an acceptance, another commit and an undo
  fit after the first one; two requests, which may carry one operation id; two pages
  under two policies. The proofs cover any number of each.
* `dialogue`: three messages are the first one, an answer and a correction; five patches
  hold explicit, guessed, appended and removed values, ambiguities, and values out of
  range; two faults put a second trouble on the trace of a first. The two items of a
  list tell append, remove and replace apart.
* `itinerary`: five places do not fit the days of the instance, so repair drops some;
  three plans and edits together (`Budget`), at most two of each, give an edit of an
  edited plan and an edit that races a plan. Eleven intents name each operation and the
  cases of its resolution.
* `recommendations`: two versions of the requirements, two batches, three decisions and
  batches together (`Budget`); six places with which both caps are met. `MaxTerms` is 3
  (the code has 12), so that four kinds of terms overflow it.
* `external_facts`: `MaxTime` 4 covers two fresh periods and a stale one; three calls by two
  threads put a renewal into an outage; `Work` takes either calls, or two tasks, or one of
  each. A search returns one of four lists around the threshold (82) and the margin (12): the
  scores next to the threshold are 80 and 90, the leads next to the margin 10 and 15, and
  filtered candidates stand before and between the others; the proof covers every list.
  Four places, each with a key of its own, and two searches make the budget end early.
* Symmetry over attempts, deliveries, pages, requests or callers is used in runs without liveness
  properties; no definition tells two of them apart.

### 4.2 Fairness

`VersionCommit!FairSpec`: a transaction that has begun executes its next enabled
statement; the database and the process do that unless they fail, and a failure
rolls back. `WorkflowRuns!FairSpec`: a message's task goes on; Celery delivers
what is queued, and every client call in a task has a timeout. Nothing is assumed
of users, API processes, crashes, redelivery or faults. `RequirementDialogue!FairSpec`: a
step of the task that can be taken is taken; the traveller, who may never answer, is
not asked for anything, and `MessagesAreDealtWith` ends at the question.

### 4.3 Where the code departs from its documents

* `runs_events`: ADR-0004 calls events a display matter, but the publisher writes
  them into the run. The event *queued* of a creation request is published after
  its task was sent; a task that has completed by then is queued again for good.

* `dialogue_restart`: the technical design lets a restarted worker resume from the checkpoint
  (`src/docs/design/一期/02-一期技术方案.md` 809). The task of the first message does not: delivered
  again, it invokes the graph with the empty state (`worker.py` 230, `requirements/graph.py`
  31-53). If message 1 ended in a question and message 2 answered it, a second delivery of
  message 1 forgets the answer, explicit values included. `TravellerDecides`,
  `RequirementRegister` and their theorems hold up to that step, which they name.

The following were met while modelling, with counterexamples from the same models or
from reading; they have no run of their own. The first four bound what the passing
properties say.

* A cancelled message runs: the task of a requirement message is sent as `run:message`
  and revoked as `run`, and checks for *completed* only (`worker.py` 70, 96). Hence
  `IdleCancelledStays` leaves requirement runs out.
* Two requests for recommendations or an itinerary that check at the same time both
  insert a run (`main.py` 695-714, 811-828).
* Recommendations saved before a worker is lost are saved again (`worker.py` 371).
* The snapshot of a run without event carries an id of its own. A browser that
  reconnects with it is replayed nothing; if the run ends between the handler's reading
  of the row and its subscription, the browser waits for ever (`main.py` 581).
* An outdated proposal is marked expired and its run failed in a transaction that the
  conflict rolls back: it stays pending and its run interrupted, and it cannot be
  rejected either (`editing/persistence.py` 179).
* An answer whose extraction failed counts as processed. If the worker is lost before the
  question about the failure is recorded, the answer is passed over when it is delivered
  again, and the version is saved without it (`requirements/graph.py` 66, 101, 130).
* `excluded_place_ids` is checked by planning and finalization and filled by no code; the
  dialogue writes `excluded_place_texts`. A place that was accepted before it was excluded
  is planned, although `src/docs/requirements/01-路书Agent一期功能需求.md` 80 forbids it.
* A plan that does not fit ends with a RuntimeError, so the structured conflicts that
  the documents ask for are lost (`worker.py` 424); repair drops one place per conflict
  and may leave a day empty.
* After edits, weather facts and must-visit ids of places that are gone stay in the
  snapshot, days that `change_days` adds have no date, and an edit-added place has an id of
  its own.
* An accepted place may be offered again and rejected in a later batch, and is planned
  all the same; a refusal during a search may be overtaken by its batch; a replacement that
  fails after its first transaction leaves the place `replaced` without a batch, and a
  repeated request goes through; `minimum_categories` is used by no code.
* A must-visit text is searched for, but what the search finds may be filtered, outscored
  or cut by the limit.
* One failing search ends an enrichment task, and the places that were complete are lost,
  uncached (`src/docs/design/二期/01-联网搜索与行程内容增强方案.md` 252 asks for the contrary). A
  redelivered task has a new budget, places after the budget's end are left out even when
  they are cached, and a cached guide keeps the place id it was made for.
* An UNAVAILABLE weather answer that is served stale becomes STALE without items.

## 5. Proofs

All theorems hold for every value of the constants that satisfies the `ASSUME`s of
their module, which the passing runs evaluate. Those say what the code fixes: kinds and
scripts are functions of the right type, null values are not ids, event ids differ;
patches and saved requirements have the fields and ranges of their schemas
(`PatchesAssumption`, `BeforeAssumption`); a search returns a sequence of candidates
(`ContentsAssumption`), the places visited are listed once and the budget is a number
(`VisitedAssumption`); the catalogue finds known places, which have an order by id and a
quality of 0 to 100 (`PlacesAssumption`), a request asks for 1 to 30 (`RequestsAssumption`);
distances are natural numbers, of which neither symmetry nor the triangle inequality is
assumed (`DistanceAssumption`), legs, intents and confirmed requirements have the form of
their models (`OfferedAssumption`, `IntentsAssumption`, `ConfirmedAssumption`,
`IntensityAssumption`, `MaxDaysAssumption`).

* `VersionCommit_proofs` — `Invariance: Spec => []IInv`, and from it `TypeCorrect`,
  `RunsOwnOneVersion`, `HistoryIsLinear`, `NoUpdateIsLost`, `ReuseHandsOutResult`.
  The four properties are not inductive: that a version is saved on the base it was
  computed from needs that an attempt past its check owns the run's row
  (`RunOwned`), that what it saves was computed from its base (`SeenFromBase`),
  that after the switch the base stays current because the routebook's row is
  locked (`InsertedRow`, `LocksCompatible`), and that numbers have no gap (`NoGap`),
  so a version with the new number would show that the base is not current.
  `LocksAreHeld` says which of the two locks every attempt holds at every statement
  (`LocksInv`), and `NoDeadlock` follows: of a circle of waiting attempts, those that lock
  the routebook first wait for none that has not locked it, those in `commit` wait for none
  that has yet to lock its run, so going from the strongest lock to none each is ruled out.
  `Refinement: Spec => ImplementsChain`: `history` is the committed versions in the order
  of their numbers; all statements but `FinishCommit` stutter, and that one appends, as one
  of the three abstract steps. `ChainOneVersionPerRun` and `ChainImmutable` are about the
  abstract history: one version per run, and it only grows; with the refinement, so does
  the implementation's.
* `WorkflowRuns_proofs` — `RunsInvariance: Spec => []IInv`, and from it
  `CompletedRunsHaveResults` and `InterruptedRunsWereAsked`; `CancelledRunsStay` is
  an action property. The argument: versions, batches and questions are never
  removed, so whoever writes *completed* or *interrupted* late still writes the
  truth if the record came first. `ReportsFollowRecords` says that a task is at its
  last event only after the record; `RequestsAreNew` that a run without a row has no
  message, no task and nothing owed. `ForegroundRunsEnd` proves `ForegroundEnds` under the
  hypothesis `Answered`: no trouble with the database or the broker and no API process
  lost, the troubles with which the code does leave runs active; workers may still be
  lost, messages doubled, and users cancel. The invariant `EndsInv` names for every active
  recommendation or plan who has yet to end it (`SomebodyEnds`): the handler that will send
  its task, a message or task of it at a place before its last event, or a cancellation
  that has yet to publish. That a revoked message is dropped is no loss, because a run that
  was revoked is no longer active, or its cancellation is still to be published
  (`RevokedRest`). `TaskMoves` is what all steps inside a task have in common, so one lemma
  serves them all.
* `ProgressStream_proofs` — `StreamInvariance: Spec => []IInv`, and from it
  `NoEventIsMissed` and `LastEventIsShown`. `QueuesEndWithLast` says that the last
  frame still to be sent is the stream's last event; `PublishedOnce` that the
  resumption point is at one place of the stream.
* `RoutebookDecisions_proofs` — `InvariantHolds: Spec => []IInv`, and from it that nothing unconfirmed is
  saved, that an accepted proposal is its preview, that operations are executed once, that
  outdated proposals stay out, that pages are unique and sound; that pages and decisions
  never change are action properties (`SharedStays`, `DecisionsStay`). The invariant adds that a page's version is saved and
  not after the latest final one (`PagesInv`, `LatestInv`), that a pending proposal's preview
  is its base and the change (`ProposalsInv`), that a run has a result only when it was
  executed or accepted (`RunsInv`), and that a refused proposal's base is behind the current
  version, which only grows (`RefusedInv`): that is why it never takes effect.
  `DecisionsFollowChain: Spec => FollowsChain` is the refinement of `VersionChain`: a commit whose
  decision had no result yet and whose change was in no version appends a version that
  belongs to it alone and moves no earlier one to another owner (`OwnersKept`,
  `DecisionAppends`), for which only saved versions may be results (`ResultsSaved`). An edit
  computed on an old version and a proposal accepted late are no `Apply` unless the
  version they were computed from is still the last one, so the proof needs that they are.
* `RequirementDialogue_proofs` — `Invariance: Spec => []IInv`, and from it
  `SavedRequirementsPlannable` and `RunsWaitForCurrentQuestion`; `OnlyTravellerDecides`
  is an action property: only `Merge` and a thread that starts over touch the requirements of a
  thread (`InvokeStartsOver`). `ConversationIsRegister: Spec => ImplementsRegister` needs
  that a message is merged only while it has not been processed, and that what a run
  saves is what its thread holds when nothing blocks. A checkpoint may be resumed at any
  node, so the invariant says what a node may rely on whoever comes back to it (`NodesInv`):
  `ask` follows issues and `end` their absence, a message that was processed brings no patch
  to `merge`, and requirements that were merged once are complete, so merging nothing leaves
  them as they are. The lemmas on `Apply` and `Issues` go field by field; the arithmetic of
  defaults is in `CompletedFacts`.
* `Recommendations_proofs` — `Invariance: Spec => []IInv`, and from it `RefusedStaysAway`,
  `BatchesAreCurrent`, `SelectionsAreDiverse` and `DecidedOnce`. The invariant says what a
  search knows at each step: what it excludes was refused before it began, the requirements it
  read are those of its base, and a found selection is `Diverse` among the ranked places, so
  that a batch inherits all of it. Versions are never rewritten, so a base's requirements stay
  what the search read; refusals are never withdrawn, so a commit or a decision in between
  disturbs nothing. That the two passes make a `Diverse` selection is proved by following the
  fold step by step (`FoldExists` names the sequence of its intermediate values,
  `PassGoesOn` keeps what is true of them: a place is left out only at its limit or when it
  was full, and what is full stays full, `FullStays`).
* `RoutebookItinerary_proofs` — `Invariance: Spec => []IInv`, and from it `DaysStayConnected`,
  `DraftsKeepMustVisits`, `OrderingNeverLengthens`, `PlansPassTheFinalChecks`,
  `EditsStayInScope`. Every loop is a fold; `FoldRule` reduces what a loop keeps to what one
  turn keeps. Nearest neighbour moves places from one list to the other (`VisitMoves`); a
  reversal keeps the places, their number and the first one (`Turned`), and `Try` takes it
  only if it saves more than a metre, so a pass that changes anything does too, and one that
  changes nothing is followed by none that does (`TwoOptImproves`); grouping, spreading and
  filling days keep the places, each once (`GroupsKeep`, `SpreadKeeps`, `FilledKeeps`), and
  repair drops none that must be visited (`DropAcceptedKeeps`). `DaysAreConnected` is not inductive: a recomputed day gets
  segment ids of the new version, and that they collide with none that stays needs that ids
  bear their day (`Sound`). An edit computed on an old snapshot is safe because it is saved
  only if its base is still the current version (`EditOn`), and
  its check suffices (`EditSound`): the days outside its scope have the hash they had, a hash
  covers places, hops and weather (`SameHash`), so they are joined by what is kept; the days
  inside are joined afresh.
* `ExternalFacts_proofs` — `FactsInvariance: Spec => []IInv`, and from it
  `AnswersHaveTheirAge` and `StaleCoversOutages`. The invariant says that the periods of a
  cached fact count from the moment it was fetched, that nothing marked stale is stored
  (`StoreInv`), and that a call in its n-th attempt is at most n timeouts old and holds an
  entry that had not expired when it began (`IsAttempt`). Enrichment writes to the same
  cache; its keys are not those of facts (`KeyAssumption`). The bound
  on the clock may be any. `OnlyClearPlacesAreAdopted` is about the gate as a function, for every
  list: the weights of a candidate that was meant add up to 90 at least, of one that was almost
  meant to 80, of any other that is not filtered to 75 at most (`ScoreOfMeant`, `ScoreOfOthers`);
  the first of the best exists (`BestIsBest`), so an unmistakable candidate is the top, is past
  the threshold and leads by the margin (`UnmistakableIsAdopted`), and whatever is past both is
  unmistakable (`AdoptedIsUnmistakable`). `EnrichmentInvariance: Spec => []EnrichInv` says that the places included
  are the first of those wanted and the rest is still to do unless the budget is gone
  (`Progress`), that each included place is searched for once or was cached (`Sources`), and
  that what is cached of a place is an honest guide to it (`GuidesCached`); from it
  `BudgetGoesToTheImportant` and `GuidesAreHonest`.

The inductive invariants contain the types of the variables; they, `LocksInv`, `EnrichInv`
and `SharedNeverChanges` are stated for every value of the constants. Those of the dialogue, the
recommendations, the itinerary and the enrichment, `EndsInv` and `ResultsSaved` were model-checked
on the instances of their runs before they were proved.

Where a proof needs induction, it takes the least number at which something fails
(`LeastNumber`, from the library's facts on well-founded sets) and shows that the step
before it contradicts that: library theorems that take an operator as a parameter cannot
be used with these provers.

Only model-checked: liveness (`Terminates`, `DeliveriesEnd`, `MessagesAreDealtWith`), which
is out of the prover's reach. Every other property of a passing run is a theorem;
`ForegroundEnds` is one without the troubles named above, as in its run.

## 6. Not modelled

* The advisory lock and the idempotency record of a creation: two statements inside one
  transaction; what repeats around it is in `WorkflowRuns`.
* The text of messages, prompts and events, and the accuracy of language models, whose
  answers are a choice.
* Translating provider answers and names into models, categories and semantic types; the
  sentences and highlights of a guide: formats, without state.
* The stream's retention of 1000 events, far beyond what a run publishes.
* `recommendations/resolution.py`, which only tests use.
* Branches that no code reaches: places of priority `auto_adopted`, which repair would not drop
  (nothing sets that signal), and the findings `EXCLUDED_PLACE_INCLUDED` and `PROPOSED_FACTS` of
  finalization.
* In `VersionCommit`, the comparison of fingerprints when an operation is found again, which only
  refuses more; it is in `ChangeProposals`. In `FinalPages`, the statements of a finalization:
  it holds the routebook's lock throughout, and that lock is what `VersionCommit` checks.
* Authentication, configuration, logging, migrations, scripts, examples, evaluation sets.
* The page, beyond how it follows a run: it shows what the API returns.
