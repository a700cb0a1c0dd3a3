--------------------- MODULE RequirementDialogue_proofs ----------------------
(***************************************************************************)
(* Proofs about RequirementDialogue, for any number of messages, any       *)
(* patches that the schemas admit, any earlier version and any number of   *)
(* lost workers, failed tasks and repeated messages.  IInv is inductive:   *)
(* it says at which node of the graph the checkpoint may be for each state *)
(* of the run, and what that node may rely on.                             *)
(***************************************************************************)
EXTENDS RequirementDialogue, FiniteSetTheorems, TLAPS

IssueCodes == {"missing_trip_scope", "missing_origin", "missing_start_date", "invalid_start_date",
               "missing_days", "invalid_days", "missing_transport_mode", "missing_target",
               "ambiguous_requirement", "extraction_failed"}
PossibleIssues == IssueCodes \X Fields

RunOK ==
  /\ status \in {"queued", "running", "interrupted", "completed", "failed"}
  /\ said \in Messages /\ queue \subseteq 1..said
  /\ questions \in [Messages -> SUBSET PossibleIssues]
  /\ pc \in {"idle", "started", "graph", "save"}

IsThread(t) ==
  /\ DOMAIN t = {"at", "req", "patch", "message", "processed", "failed", "issues"}
  /\ IsRequirements(t.req) /\ IsPatch(t.patch)
  /\ t.failed \in BOOLEAN /\ t.issues \subseteq PossibleIssues

\* A task is executed for a message that was said, and marks the run; what it
\* saves is what the graph stopped with.
TaskInv ==
  /\ pc # "idle" => status = "running" /\ task \in 1..said
  /\ pc = "save" => thread.at \in {"ask", "end"}

\* What the nodes leave behind: the graph asks if there are issues and ends if
\* there are none, in either case after a message that was sent; a message that
\* was processed brings no patch, another one what the model may extract; and
\* what was merged once is complete.
NodesInv(t) ==
  /\ t.patch \in Patches \union {NoPatch}
  /\ t.at # "none" => t.message \in Messages
  /\ t.at \in {"ask", "end"} => t.processed # {}
  /\ t.at = "ask" => t.issues # {}
  /\ t.at = "end" => t.issues = {} /\ Plannable(t.req)
  /\ t.at = "merge" /\ t.message \in t.processed => t.patch = NoPatch
  /\ t.processed # {} => Completed(t.req) = t.req

IInv ==
  /\ RunOK /\ TaskInv /\ IsThread(thread) /\ NodesInv(thread)
  /\ SavedIsPlannable /\ QuestionIsCurrent
-----------------------------------------------------------------------------
(***************************************************************************)
(* The merge.                                                              *)
(***************************************************************************)
LEMMA ListValues == \A f \in ListFields : Values(f) = SUBSET Items
BY DEF Values, ListFields, PlaceFields

LEMMA EmptyIsRequirements == IsRequirements(NoRequirements)
BY DEF IsRequirements, NoRequirements, Values, Fields, Scalars, ListFields, PlaceFields, Nothing

LEMMA NoPatchIsPatch == IsPatch(NoPatch)
BY DEF IsPatch, NoPatch

\* A patch field by field: what it leaves alone stays, what it takes is what it says.
LEMMA MergedField ==
  ASSUME NEW req, IsRequirements(req), NEW p, IsPatch(p), NEW f \in Fields
  PROVE  /\ Merged(req, p)[f].value  = IF Takes(req, p, f) THEN Patched(req, p, f).value ELSE req[f].value
         /\ Merged(req, p)[f].source = IF Takes(req, p, f) THEN p.to[f].source ELSE req[f].source
         /\ Merged(req, p)[f] \in [value  : Values(f),
                                   source : {"missing", "explicit", "inferred", "default"},
                                   status : {"missing", "suggested", "confirmed", "conflicted"}]
         /\ f \in ListFields /\ Merged(req, p)[f].source = "missing" => Merged(req, p)[f].value = {}
<1> DEFINE taken == IF Takes(req, p, f) THEN Patched(req, p, f) ELSE req[f]
<1>1. /\ Merged(req, p)[f] = IF f \in p.ambiguous THEN [taken EXCEPT !.status = "conflicted"] ELSE taken
  BY DEF Merged
<1>2. req[f] \in [value  : Values(f), source : {"missing", "explicit", "inferred", "default"},
                  status : {"missing", "suggested", "confirmed", "conflicted"}]
  BY DEF IsRequirements
<1>3. ASSUME f \in p.fields
      PROVE  Patched(req, p, f) \in [value  : Values(f), source : {"explicit", "inferred"},
                                     status : {"suggested", "confirmed"}]
  <2>1. p.to[f] \in [value : Values(f), source : {"explicit", "inferred"},
                     operation : {"replace", "append", "remove"}]
    BY <1>3 DEF IsPatch
  <2>2. f \in ListFields => Listed(req[f].value, p.to[f].value, p.to[f].operation) \in Values(f)
    <3> SUFFICES ASSUME f \in ListFields
                 PROVE  Listed(req[f].value, p.to[f].value, p.to[f].operation) \in SUBSET Items
      BY ListValues
    <3>1. req[f].value \in SUBSET Items /\ p.to[f].value \in SUBSET Items
      BY <1>2, <2>1, ListValues
    <3> QED  BY <3>1 DEF Listed
  <2> QED  BY <2>1, <2>2 DEF Patched
<1>4. taken \in [value  : Values(f), source : {"missing", "explicit", "inferred", "default"},
                 status : {"missing", "suggested", "confirmed", "conflicted"}]
  BY <1>2, <1>3 DEF Takes
<1>5. /\ taken.value = IF Takes(req, p, f) THEN Patched(req, p, f).value ELSE req[f].value
      /\ taken.source = IF Takes(req, p, f) THEN p.to[f].source ELSE req[f].source
  BY DEF Patched
<1>6. f \in ListFields /\ taken.source = "missing" => taken.value = {}
  BY <1>3, <1>5 DEF IsRequirements, Takes, Patched
<1> HIDE DEF taken
<1> QED  BY <1>1, <1>4, <1>5, <1>6

LEMMA MergedIsRequirements ==
  ASSUME NEW req, IsRequirements(req), NEW p, IsPatch(p)
  PROVE  IsRequirements(Merged(req, p))
<1>1. Merged(req, p) = [f \in Fields |-> Merged(req, p)[f]]
  BY DEF Merged
<1> QED  BY <1>1, MergedField DEF IsRequirements

\* Defaults only fill in what is missing, and are complete after one round.
LEMMA CompletedFacts ==
  ASSUME NEW req, IsRequirements(req)
  PROVE  /\ IsRequirements(Completed(req))
         /\ Completed(Completed(req)) = Completed(req)
         /\ \A f \in Fields : Completed(req)[f].value # req[f].value =>
              f \notin ListFields /\ req[f].source = "missing"
<1>1. \A f \in Fields : Completed(req)[f] =
         IF Unset(req, f) /\ f \in ListFields THEN Suggested({}, "default")
         ELSE IF Unset(req, f) /\ f = "trip_scope" /\ req["origin"].value # Nothing
              THEN Suggested("door_to_door", "inferred")
         ELSE IF Unset(req, f) /\ f = "date_precision" /\ req["start_date"].value # Nothing
              THEN Suggested("exact", "inferred")
         ELSE req[f]
  BY DEF Completed
<1>2. Completed(req) = [f \in Fields |-> Completed(req)[f]]
  BY DEF Completed
<1>3. \A f \in Fields : Completed(req)[f] \in
         [value  : Values(f), source : {"missing", "explicit", "inferred", "default"},
          status : {"missing", "suggested", "confirmed", "conflicted"}]
  <2> SUFFICES ASSUME NEW f \in Fields
               PROVE  Completed(req)[f] \in
                        [value  : Values(f), source : {"missing", "explicit", "inferred", "default"},
                         status : {"missing", "suggested", "confirmed", "conflicted"}]
    OBVIOUS
  <2>1. f \in ListFields => {} \in Values(f)  BY ListValues
  <2>2. f = "trip_scope" => "door_to_door" \in Values(f)
    BY DEF Values, ListFields, PlaceFields
  <2>3. f = "date_precision" => "exact" \in Values(f)
    BY DEF Values, ListFields, PlaceFields
  <2>4. req[f] \in [value  : Values(f), source : {"missing", "explicit", "inferred", "default"},
                    status : {"missing", "suggested", "confirmed", "conflicted"}]
    BY DEF IsRequirements
  <2> QED  BY <1>1, <2>1, <2>2, <2>3, <2>4 DEF Suggested
<1>4. \A f \in ListFields : ~Unset(Completed(req), f)
  BY <1>1 DEF Unset, Suggested, Fields
<1>5. IsRequirements(Completed(req))
  BY <1>2, <1>3, <1>4 DEF IsRequirements, Unset
<1>6. \A f \in Fields : Completed(req)[f].value # req[f].value =>
         f \notin ListFields /\ req[f].source = "missing"
  <2>1. \A f \in Fields : Completed(req)[f].value # req[f].value => Unset(req, f)
    BY <1>1
  <2>2. \A f \in ListFields : Unset(req, f) => Completed(req)[f].value = {} /\ req[f].value = {}
    BY <1>1 DEF IsRequirements, Unset, Suggested, Fields
  <2> QED  BY <2>1, <2>2 DEF Unset
<1>7. Completed(req)["origin"] = req["origin"] /\ Completed(req)["start_date"] = req["start_date"]
  BY <1>1 DEF Fields, Scalars, ListFields, PlaceFields
<1>8. Unset(Completed(req), "trip_scope") => req["origin"].value = Nothing
  BY <1>1 DEF Unset, Suggested, Fields, Scalars, ListFields, PlaceFields
<1>9. Unset(Completed(req), "date_precision") => req["start_date"].value = Nothing
  BY <1>1 DEF Unset, Suggested, Fields, Scalars, ListFields, PlaceFields
<1>10. Completed(Completed(req)) = [f \in Fields |-> Completed(req)[f]]
  BY <1>4, <1>7, <1>8, <1>9 DEF Completed
<1> QED  BY <1>2, <1>5, <1>6, <1>10

LEMMA ApplyIsRequirements ==
  ASSUME NEW req, IsRequirements(req), NEW p, IsPatch(p)
  PROVE  IsRequirements(Apply(req, p)) /\ Completed(Apply(req, p)) = Apply(req, p)
BY MergedIsRequirements, CompletedFacts DEF Apply

\* The empty patch of a message that is not extracted again changes nothing.
LEMMA ApplyNoPatch ==
  ASSUME NEW req, IsRequirements(req), Completed(req) = req
  PROVE  Apply(req, NoPatch) = req
<1>1. Merged(req, NoPatch) = [f \in Fields |-> req[f]]
  BY DEF Merged, Takes, NoPatch
<1>2. Merged(req, NoPatch) = req
  BY <1>1 DEF IsRequirements
<1> QED  BY <1>2 DEF Apply

\* What the merge changes was said, or was no place and had not been said.
LEMMA ApplyDecides ==
  ASSUME NEW req, IsRequirements(req), NEW p, IsPatch(p), NEW f \in Fields,
         Apply(req, p)[f].value # req[f].value
  PROVE  IsExplicit(p, f) \/ (f \notin PlaceFields /\ req[f].source # "explicit")
<1> DEFINE merged == Merged(req, p)
<1>1. IsRequirements(merged)  BY MergedIsRequirements
<1>2. Apply(req, p) = Completed(merged)  BY DEF Apply
<1>3. ASSUME merged[f].value # req[f].value
      PROVE  IsExplicit(p, f) \/ (f \notin PlaceFields /\ req[f].source # "explicit")
  <2>1. Takes(req, p, f)  BY <1>3, MergedField
  <2>2. p.to[f].source \in {"explicit", "inferred"}
    BY <2>1 DEF IsPatch, Takes
  <2> QED  BY <2>1, <2>2 DEF Takes, IsExplicit
<1>4. ASSUME Completed(merged)[f].value # merged[f].value
      PROVE  f \notin PlaceFields /\ (req[f].source # "explicit" \/ IsExplicit(p, f))
  <2>1. f \notin ListFields /\ merged[f].source = "missing"
    BY <1>1, <1>4, CompletedFacts
  <2>2. f \in p.fields => p.to[f].source \in {"explicit", "inferred"}
    BY DEF IsPatch
  <2>3. ~Takes(req, p, f) /\ req[f].source = "missing"
    BY <2>1, <2>2, MergedField DEF Takes
  <2> QED  BY <2>1, <2>3 DEF ListFields
<1>5. merged[f].value # req[f].value \/ Completed(merged)[f].value # merged[f].value
  BY <1>2
<1> QED  BY <1>3, <1>4, <1>5

-----------------------------------------------------------------------------
(***************************************************************************)
(* What is still open.                                                     *)
(***************************************************************************)
LEMMA IssuesArePossible ==
  ASSUME NEW req, NEW p, IsPatch(p), NEW failed \in BOOLEAN
  PROVE  Issues(req, p.ambiguous, failed) \in SUBSET PossibleIssues
<1>1. p.ambiguous \subseteq Fields  BY DEF IsPatch
<1>2. {"trip_scope", "origin", "start_date", "days", "transport_mode", "destination"} \subseteq Fields
  BY DEF Fields, Scalars
<1>3. ScopeIssues(req) \subseteq PossibleIssues
  BY <1>2 DEF ScopeIssues, PossibleIssues, IssueCodes, Issue
<1>4. DateIssues(req) \subseteq PossibleIssues
  BY <1>2 DEF DateIssues, PossibleIssues, IssueCodes, Issue
<1>5. DaysIssues(req) \subseteq PossibleIssues
  <2>1. DaysIssues(req) \subseteq {Issue("missing_days", "days"), Issue("invalid_days", "days")}
    BY DEF DaysIssues
  <2> QED  BY <1>2, <2>1 DEF PossibleIssues, IssueCodes, Issue
<1>6. OtherIssues(req) \subseteq PossibleIssues
  BY <1>2 DEF OtherIssues, PossibleIssues, IssueCodes, Issue
<1>7. {Issue("ambiguous_requirement", f) : f \in p.ambiguous} \subseteq PossibleIssues
  BY <1>1 DEF PossibleIssues, IssueCodes, Issue
<1>8. Issue("extraction_failed", "destination") \in PossibleIssues
  BY <1>2 DEF PossibleIssues, IssueCodes, Issue
<1> QED  BY <1>3, <1>4, <1>5, <1>6, <1>7, <1>8 DEF Issues

\* Requirements without an issue can be planned for.
LEMMA NoIssueIsPlannable ==
  ASSUME NEW req, IsRequirements(req), NEW ambiguous, NEW failed \in BOOLEAN,
         Issues(req, ambiguous, failed) = {}
  PROVE  Plannable(req)
<1>1. ScopeIssues(req) = {} /\ DateIssues(req) = {} /\ DaysIssues(req) = {} /\ OtherIssues(req) = {}
  BY DEF Issues
<1>2. /\ req["trip_scope"].value \in Values("trip_scope")
      /\ req["start_date"].value \in Values("start_date") /\ req["days"].value \in Values("days")
  BY DEF IsRequirements, Fields, Scalars
<1>3. /\ Values("trip_scope") = {Nothing, "door_to_door", "destination_only"}
      /\ Values("start_date") = {Nothing, "past", "coming"}
      /\ Values("days") = {Nothing, "in range", "out of range"}
  BY DEF Values, ListFields, PlaceFields
<1>4. \/ req["trip_scope"].value = "destination_only"
      \/ req["trip_scope"].value = "door_to_door" /\ req["origin"].value # Nothing
  BY <1>1, <1>2, <1>3 DEF ScopeIssues
<1>5. \/ req["start_date"].value = "coming"
      \/ req["start_date"].value = Nothing /\ req["date_precision"].value \in {"month_only", "flexible"}
  BY <1>1, <1>2, <1>3 DEF DateIssues
<1>6. req["days"].value = "in range"
  BY <1>1, <1>2, <1>3 DEF DaysIssues
<1>7. /\ req["transport_mode"].value # Nothing
      /\ req["destination"].value # Nothing \/ req["must_visit_place_texts"].value # {}
  BY <1>1 DEF OtherIssues
<1> QED  BY <1>4, <1>5, <1>6, <1>7 DEF Plannable

LEMMA PossibleIssuesFinite == IsFiniteSet(PossibleIssues)
<1>1. IsFiniteSet(IssueCodes)
  <2> DEFINE c == <<"missing_trip_scope", "missing_origin", "missing_start_date", "invalid_start_date",
                    "missing_days", "invalid_days", "missing_transport_mode", "missing_target",
                    "ambiguous_requirement", "extraction_failed">>
  <2>1. c \in Surjection(1..10, IssueCodes)
    BY DEF IssueCodes, Surjection
  <2> HIDE DEF c
  <2>2. IsFiniteSet(1..10)  BY FS_Interval, 1 \in Int, 10 \in Int
  <2> QED  BY <2>1, <2>2, FS_Surjection
<1>2. IsFiniteSet(Fields)
  <2> DEFINE c == <<"trip_scope", "origin", "destination", "date_precision", "start_date", "days",
                    "transport_mode", "must_visit_place_texts", "excluded_place_texts", "themes">>
  <2>1. c \in Surjection(1..10, Fields)
    BY DEF Fields, Scalars, ListFields, PlaceFields, Surjection
  <2> HIDE DEF c
  <2>2. IsFiniteSet(1..10)  BY FS_Interval, 1 \in Int, 10 \in Int
  <2> QED  BY <2>1, <2>2, FS_Surjection
<1> QED  BY <1>1, <1>2, FS_Product DEF PossibleIssues

\* Where something is open, a round of questions asks for something that is.
LEMMA QuestionsAsk ==
  ASSUME NEW issues \in SUBSET PossibleIssues, issues # {}, NEW asked \in Questions(issues)
  PROVE  asked # {} /\ asked \in SUBSET PossibleIssues
<1>1. IsFiniteSet(issues)  BY PossibleIssuesFinite, FS_Subset
<1>2. Cardinality(issues) \in Nat /\ Cardinality(issues) # 0
  BY <1>1, FS_CardinalityType, FS_EmptySet
<1>3. Cardinality(asked) # 0  BY <1>2 DEF Questions
<1> QED  BY <1>3, FS_EmptySet DEF Questions

-----------------------------------------------------------------------------
(***************************************************************************)
(* The invariant.                                                          *)
(***************************************************************************)
LEMMA Afresh ==
  /\ IsThread(NoThread) /\ NodesInv(NoThread) /\ NoThread.at = "none"
  /\ LET u == [NoThread EXCEPT !.at = "extract", !.req = Before, !.message = 1]
     IN  IsThread(u) /\ NodesInv(u) /\ u.at = "extract"
<1>1. IsThread(NoThread) /\ NodesInv(NoThread) /\ NoThread.at = "none"
  BY EmptyIsRequirements, NoPatchIsPatch DEF IsThread, NodesInv, NoThread
<1> DEFINE u == [NoThread EXCEPT !.at = "extract", !.req = Before, !.message = 1]
<1>2. /\ DOMAIN u = DOMAIN NoThread
      /\ u.at = "extract" /\ u.req = Before /\ u.patch = NoPatch
      /\ u.message = 1 /\ u.processed = {} /\ u.failed = FALSE /\ u.issues = {}
  BY DEF NoThread
<1> HIDE DEF u
<1>3. IsThread(u)
  BY <1>1, <1>2, BeforeAssumption, NoPatchIsPatch DEF IsThread
<1>4. 1 \in Messages
  BY LastAssumption DEF Messages
<1>5. NodesInv(u)
  BY <1>2, <1>4 DEF NodesInv
<1> QED  BY <1>1, <1>2, <1>3, <1>5 DEF u

\* The nodes of the graph.
LEMMA ExtractStep ==
  ASSUME IsThread(thread), NodesInv(thread), NEW p \in Patches, Extract(p)
  PROVE  IsThread(thread') /\ NodesInv(thread')
<1>1. IsPatch(p) /\ thread.message \notin thread.processed /\ thread.at = "extract"
  BY PatchesAssumption DEF Extract, IsNewMessage, At
<1>2. /\ DOMAIN thread' = DOMAIN thread
      /\ thread'.at = "merge" /\ thread'.patch = p /\ thread'.failed = FALSE
      /\ thread'.req = thread.req /\ thread'.message = thread.message
      /\ thread'.processed = thread.processed /\ thread'.issues = thread.issues
  BY DEF Extract, IsThread
<1> QED  BY <1>1, <1>2 DEF IsThread, NodesInv

LEMMA ExtractionFailsStep ==
  ASSUME IsThread(thread), NodesInv(thread), ExtractionFails
  PROVE  IsThread(thread') /\ NodesInv(thread')
<1>1. thread.message \notin thread.processed /\ thread.at = "extract"
  BY DEF ExtractionFails, IsNewMessage, At
<1>2. /\ DOMAIN thread' = DOMAIN thread
      /\ thread'.at = "merge" /\ thread'.patch = NoPatch /\ thread'.failed = TRUE
      /\ thread'.req = thread.req /\ thread'.message = thread.message
      /\ thread'.processed = thread.processed /\ thread'.issues = thread.issues
  BY DEF ExtractionFails, IsThread
<1> QED  BY <1>1, <1>2, NoPatchIsPatch DEF IsThread, NodesInv

LEMMA SkipProcessedStep ==
  ASSUME IsThread(thread), NodesInv(thread), SkipProcessed
  PROVE  IsThread(thread') /\ NodesInv(thread')
<1>1. /\ DOMAIN thread' = DOMAIN thread
      /\ thread'.at = "merge" /\ thread'.patch = NoPatch /\ thread'.failed = thread.failed
      /\ thread'.req = thread.req /\ thread'.message = thread.message
      /\ thread'.processed = thread.processed /\ thread'.issues = thread.issues
      /\ thread.at = "extract"
  BY DEF SkipProcessed, At, IsThread
<1> QED  BY <1>1, NoPatchIsPatch DEF IsThread, NodesInv

LEMMA MergeStep ==
  ASSUME IsThread(thread), NodesInv(thread), Merge
  PROVE  /\ IsThread(thread') /\ NodesInv(thread')
         /\ thread'.req = Apply(thread.req, thread.patch)
<1> DEFINE req == Apply(thread.req, thread.patch)
           issues == Issues(req, thread.patch.ambiguous, thread.failed)
           processed == thread.processed \union {thread.message}
           node == IF issues = {} THEN "end" ELSE "ask"
<1>1. /\ DOMAIN thread' = DOMAIN thread
      /\ thread'.at = node /\ thread'.req = req /\ thread'.issues = issues
      /\ thread'.processed = processed /\ thread'.patch = thread.patch
      /\ thread'.message = thread.message /\ thread'.failed = thread.failed
  <2>1. thread' = [thread EXCEPT !.req = req, !.issues = issues,
                                 !.processed = @ \union {thread.message}, !.at = node]
    BY DEF Merge
  <2> HIDE DEF req, issues, node
  <2> QED  BY <2>1 DEF IsThread
<1>2. IsRequirements(req) /\ Completed(req) = req
  BY ApplyIsRequirements DEF IsThread
<1>3. issues \in SUBSET PossibleIssues
  BY IssuesArePossible DEF IsThread
<1>4. issues = {} => Plannable(req)
  BY <1>2, NoIssueIsPlannable DEF IsThread
<1> HIDE DEF req, issues
<1>5. IsThread(thread')
  BY <1>1, <1>2, <1>3 DEF IsThread
<1>6. NodesInv(thread')
  <2>1. thread.at = "merge"
    BY DEF Merge, At
  <2> QED  BY <1>1, <1>2, <1>4, <2>1 DEF NodesInv
<1> QED  BY <1>1, <1>5, <1>6 DEF req

LEMMA GraphSteps ==
  ASSUME IsThread(thread), NodesInv(thread),
         \/ \E p \in Patches : Extract(p)
         \/ ExtractionFails \/ SkipProcessed \/ Merge
  PROVE  /\ IsThread(thread') /\ NodesInv(thread')
         /\ pc = "graph" /\ UNCHANGED <<status, said, queue, task, pc, questions, version, faults>>
<1>1. IsThread(thread') /\ NodesInv(thread')
  BY ExtractStep, ExtractionFailsStep, SkipProcessedStep, MergeStep
<1>2. pc = "graph" /\ UNCHANGED <<status, said, queue, task, pc, questions, version, faults>>
  BY DEF Extract, ExtractionFails, SkipProcessed, Merge, Graph, At
<1> QED  BY <1>1, <1>2

LEMMA InitInv == Init => IInv
<1> SUFFICES ASSUME Init PROVE IInv
  OBVIOUS
<1>1. RunOK
  BY LastAssumption DEF Init, RunOK, Messages
<1>2. TaskInv /\ SavedIsPlannable /\ QuestionIsCurrent
  BY DEF Init, TaskInv, SavedIsPlannable, QuestionIsCurrent
<1> QED  BY <1>1, <1>2, Afresh DEF Init, IInv

LEMMA StepInv == IInv /\ [Next]_vars => IInv'
<1> SUFFICES ASSUME IInv, [Next]_vars PROVE IInv'
  OBVIOUS
<1> USE DEF IInv
<1>1. CASE Resume
  <2>1. RunOK'
    BY <1>1, LastAssumption DEF Resume, RunOK, Messages
  <2>2. TaskInv' /\ SavedIsPlannable' /\ QuestionIsCurrent'
    BY <1>1 DEF Resume, TaskInv, SavedIsPlannable, QuestionIsCurrent
  <2> QED  BY <1>1, <2>1, <2>2 DEF Resume
<1>2. ASSUME NEW m \in Messages, Take(m)
      PROVE  IInv'
  <2>1. RunOK'
    BY <1>2 DEF Take, RunOK
  <2>2. TaskInv' /\ SavedIsPlannable' /\ QuestionIsCurrent'
    BY <1>2 DEF Take, RunOK, TaskInv, SavedIsPlannable, QuestionIsCurrent
  <2> QED  BY <1>2, <2>1, <2>2 DEF Take
<1>3. CASE Invoke
  <2>1. IsThread(thread') /\ NodesInv(thread')
    <3>1. CASE task = 1
      BY <1>3, <3>1, Afresh DEF Invoke
    <3>2. CASE task # 1 /\ thread.at = "ask"
      <4>1. thread' = [thread EXCEPT !.at = "extract", !.message = task, !.failed = FALSE]
        BY <1>3, <3>2 DEF Invoke
      <4>2. /\ DOMAIN thread' = DOMAIN thread
            /\ thread'.at = "extract" /\ thread'.message = task /\ thread'.failed = FALSE
            /\ thread'.req = thread.req /\ thread'.patch = thread.patch
            /\ thread'.processed = thread.processed /\ thread'.issues = thread.issues
        BY <4>1 DEF IsThread
      <4>3. task \in Messages
        BY <1>3, LastAssumption DEF Invoke, TaskInv, RunOK, Messages
      <4> QED  BY <3>2, <4>2, <4>3 DEF IsThread, NodesInv
    <3>3. CASE task # 1 /\ thread.at # "ask"
      BY <1>3, <3>3 DEF Invoke
    <3> QED  BY <3>1, <3>2, <3>3
  <2>2. RunOK' /\ TaskInv' /\ SavedIsPlannable' /\ QuestionIsCurrent'
    BY <1>3 DEF Invoke, RunOK, TaskInv, SavedIsPlannable, QuestionIsCurrent
  <2> QED  BY <2>1, <2>2
<1>4. CASE \/ \E p \in Patches : Extract(p)
           \/ ExtractionFails \/ SkipProcessed \/ Merge
  <2>1. /\ IsThread(thread') /\ NodesInv(thread')
        /\ pc = "graph" /\ UNCHANGED <<status, said, queue, task, pc, questions, version, faults>>
    BY <1>4, GraphSteps
  <2>2. RunOK' /\ TaskInv' /\ SavedIsPlannable' /\ QuestionIsCurrent'
    BY <2>1 DEF RunOK, TaskInv, SavedIsPlannable, QuestionIsCurrent
  <2> QED  BY <2>1, <2>2
<1>5. CASE Return
  <2>1. RunOK' /\ TaskInv' /\ SavedIsPlannable' /\ QuestionIsCurrent'
    BY <1>5 DEF Return, At, Graph, RunOK, TaskInv, SavedIsPlannable, QuestionIsCurrent
  <2> QED  BY <1>5, <2>1 DEF Return, Graph
<1>6. CASE SaveQuestion
  <2>1. thread.at = "ask" /\ task \in 1..said /\ thread' = thread
    BY <1>6 DEF SaveQuestion, Finish, TaskInv, NodesInv
  <2>2. PICK asked \in Questions(thread.issues) : questions' = Record(task, asked)
    BY <1>6 DEF SaveQuestion
  <2>3. asked # {} /\ asked \in SUBSET PossibleIssues
    BY <1>6, QuestionsAsk DEF SaveQuestion, IsThread
  <2>4. task \in Messages /\ said' = said
    <3>1. said' = said /\ said \in 1..Last  BY <1>6 DEF RunOK, Messages, SaveQuestion, Finish
    <3> QED  BY <2>1, <3>1, LastAssumption DEF Messages
  <2>5. questions'[task] = asked
    BY <2>2, <2>4 DEF Record, RunOK
  <2>6. RunOK'
    BY <1>6, <2>2, <2>3 DEF SaveQuestion, Finish, RunOK, Record
  <2>7. TaskInv' /\ SavedIsPlannable'
    BY <1>6 DEF SaveQuestion, Finish, TaskInv, SavedIsPlannable
  <2>8. QuestionIsCurrent'
    BY <2>1, <2>3, <2>4, <2>5 DEF QuestionIsCurrent
  <2> QED  BY <2>1, <2>6, <2>7, <2>8
<1>7. CASE SaveVersion
  <2>1. RunOK' /\ TaskInv' /\ QuestionIsCurrent'
    BY <1>7 DEF SaveVersion, Finish, RunOK, TaskInv, QuestionIsCurrent
  <2>2. SavedIsPlannable'
    BY <1>7 DEF SaveVersion, Finish, TaskInv, NodesInv, SavedIsPlannable
  <2> QED  BY <1>7, <2>1, <2>2 DEF SaveVersion, Finish
<1>8. CASE Fail
  <2>1. RunOK' /\ TaskInv' /\ QuestionIsCurrent' /\ SavedIsPlannable'
    BY <1>8 DEF Fail, Finish, RunOK, TaskInv, QuestionIsCurrent, SavedIsPlannable
  <2> QED  BY <1>8, <2>1 DEF Fail, Finish
<1>9. CASE Crash
  <2>1. RunOK' /\ TaskInv' /\ QuestionIsCurrent' /\ SavedIsPlannable'
    BY <1>9 DEF Crash, RunOK, TaskInv, QuestionIsCurrent, SavedIsPlannable
  <2> QED  BY <1>9, <2>1 DEF Crash
<1>10. ASSUME NEW m \in Messages, Duplicate(m)
       PROVE  IInv'
  <2>1. RunOK'
    BY <1>10 DEF Duplicate, RunOK, Messages
  <2>2. TaskInv' /\ QuestionIsCurrent' /\ SavedIsPlannable'
    BY <1>10 DEF Duplicate, TaskInv, QuestionIsCurrent, SavedIsPlannable
  <2> QED  BY <1>10, <2>1, <2>2 DEF Duplicate
<1>11. CASE UNCHANGED vars
  BY <1>11 DEF vars, RunOK, TaskInv, QuestionIsCurrent, SavedIsPlannable
<1> QED  BY <1>1, <1>2, <1>3, <1>4, <1>5, <1>6, <1>7, <1>8, <1>9, <1>10, <1>11 DEF Next, Step

THEOREM Invariance == Spec => []IInv
<1> QED  BY InitInv, StepInv, PTL DEF Spec

\* However often messages are delivered again, workers lost or messages not
\* understood, a completed run has saved requirements that can be planned for.
THEOREM SavedRequirementsPlannable == Spec => []SavedIsPlannable
<1>1. IInv => SavedIsPlannable  BY DEF IInv
<1> QED  BY <1>1, Invariance, PTL

\* A run that waits for its traveller has recorded the question its graph
\* stopped at.
THEOREM RunsWaitForCurrentQuestion == Spec => []QuestionIsCurrent
<1>1. IInv => QuestionIsCurrent  BY DEF IInv
<1> QED  BY <1>1, Invariance, PTL

-----------------------------------------------------------------------------
(***************************************************************************)
(* What a step may do to the requirements.                                 *)
(***************************************************************************)
\* Apart from a task that takes up or restarts a thread, only a merge changes
\* the requirements.
LEMMA OnlyMergeChanges ==
  ASSUME IInv, Next, ~Invoke
  PROVE  Merge \/ thread'.req = thread.req
<1> USE DEF IInv
<1>1. ASSUME NEW p \in Patches, Extract(p) PROVE thread'.req = thread.req
  BY <1>1 DEF Extract, IsThread
<1>2. CASE ExtractionFails
  BY <1>2 DEF ExtractionFails, IsThread
<1>3. CASE SkipProcessed
  BY <1>3 DEF SkipProcessed, IsThread
<1>4. CASE \/ Resume \/ \E m \in Messages : Take(m) \/ Duplicate(m)
           \/ Return \/ SaveQuestion \/ SaveVersion \/ Fail \/ Crash
  BY <1>4 DEF Resume, Take, Duplicate, Return, SaveQuestion, SaveVersion, Fail, Crash, Finish, Graph
<1> QED  BY <1>1, <1>2, <1>3, <1>4 DEF Next, Step

\* A task that is invoked leaves the requirements alone, or takes them all back.
LEMMA InvokeStartsOver ==
  ASSUME IInv, Invoke
  PROVE  StartsOver \/ thread'.req = thread.req
<1>1. CASE task = 1
  BY <1>1 DEF Invoke, NoThread, StartsOver
<1>2. CASE task # 1
  BY <1>2 DEF Invoke, IInv, IsThread
<1> QED  BY <1>1, <1>2

\* A value changes by what the traveller says, or because the first message came
\* again and everything starts over (requirements/service.py 64-184, worker.py
\* 218-239).
THEOREM OnlyTravellerDecides == Spec => TravellerDecides
<1> DEFINE Decided == \A f \in Fields :
             thread'.req[f].value # thread.req[f].value =>
               \/ IsExplicit(thread.patch, f)
               \/ f \notin PlaceFields /\ thread.req[f].source # "explicit"
               \/ StartsOver
<1>1. IInv /\ [Next]_vars => [Decided]_vars
  <2> SUFFICES ASSUME IInv, Next, NEW f \in Fields,
                      thread'.req[f].value # thread.req[f].value, ~StartsOver
               PROVE  \/ IsExplicit(thread.patch, f)
                      \/ f \notin PlaceFields /\ thread.req[f].source # "explicit"
    OBVIOUS
  <2>1. Merge  BY OnlyMergeChanges, InvokeStartsOver
  <2>2. thread'.req = Apply(thread.req, thread.patch)
    BY <2>1, MergeStep DEF IInv
  <2> QED  BY <2>2, ApplyDecides DEF IInv, IsThread
<1> QED  BY <1>1, Invariance, PTL DEF Spec, TravellerDecides

-----------------------------------------------------------------------------
(***************************************************************************)
(* The conversation implements the register.                               *)
(***************************************************************************)
\* The register when nothing is said or saved.
LEMMA RegisterStutters ==
  ASSUME thread'.req = thread.req, thread'.processed = thread.processed,
         version' = version, (status' = "completed") <=> (status = "completed")
  PROVE  UNCHANGED Register!register
BY DEF Register!register

\* A task that is invoked starts the conversation over, or takes it up.
LEMMA InvokeRefines ==
  ASSUME IInv, Invoke
  PROVE  Register!Start \/ UNCHANGED Register!register
<1>1. status = "running" /\ UNCHANGED <<status, version>>
  BY DEF IInv, TaskInv, Invoke
<1>2. CASE task = 1
  <2>1. thread'.req = Before /\ thread'.processed = {}
    BY <1>2 DEF Invoke, NoThread
  <2> QED  BY <1>1, <2>1 DEF Register!Start
<1>3. CASE task # 1
  <2>1. thread'.req = thread.req /\ thread'.processed = thread.processed
    BY <1>3 DEF Invoke, IInv, IsThread
  <2> QED  BY <1>1, <2>1, RegisterStutters
<1> QED  BY <1>2, <1>3

\* A merge is what the message says, or nothing when it was heard before.
LEMMA MergeRefines ==
  ASSUME IInv, Merge
  PROVE  (\E m \in Messages, p \in Patches \union {NoPatch} : Register!Hear(m, p))
         \/ UNCHANGED Register!register
<1>1. /\ status = "running" /\ UNCHANGED <<status, version>>
      /\ thread.at = "merge"
  BY DEF IInv, TaskInv, Merge, At, Graph
<1>2. /\ thread'.req = Apply(thread.req, thread.patch)
      /\ thread'.processed = thread.processed \union {thread.message}
  <2>1. thread'.processed = thread.processed \union {thread.message}
    BY DEF Merge, IInv, IsThread
  <2> QED  BY <2>1, MergeStep DEF IInv
<1>3. thread.message \in Messages /\ thread.patch \in Patches \union {NoPatch}
  BY <1>1 DEF IInv, NodesInv
<1>4. CASE thread.message \in thread.processed
  <2>1. thread.patch = NoPatch /\ Completed(thread.req) = thread.req
    BY <1>1, <1>4 DEF IInv, NodesInv
  <2>2. thread'.req = thread.req
    BY <1>2, <2>1, ApplyNoPatch DEF IInv, IsThread
  <2> QED  BY <1>1, <1>2, <1>4, <2>2, RegisterStutters
<1>5. CASE thread.message \notin thread.processed
  <2>1. Register!Hear(thread.message, thread.patch)
    BY <1>1, <1>2, <1>5 DEF Register!Hear
  <2> QED  BY <1>3, <2>1
<1> QED  BY <1>4, <1>5

\* The version is saved when the graph has come to its end.
LEMMA SaveRefines ==
  ASSUME IInv, SaveVersion
  PROVE  Register!Save
<1>1. /\ status = "running" /\ status' = "completed"
      /\ version' = thread.req /\ thread' = thread
      /\ thread.at \in {"ask", "end"} /\ thread.issues = {}
  BY DEF IInv, TaskInv, SaveVersion, Finish
<1>2. thread.at = "end" /\ thread.processed # {} /\ Plannable(thread.req)
  BY <1>1 DEF IInv, NodesInv
<1> QED  BY <1>1, <1>2 DEF Register!Save

\* The other steps neither say nor save anything.
LEMMA OthersStutter ==
  ASSUME IInv, Next, ~Invoke, ~Merge, ~SaveVersion
  PROVE  UNCHANGED Register!register
<1>1. thread'.req = thread.req /\ thread'.processed = thread.processed
  <2>1. ASSUME NEW p \in Patches, Extract(p) PROVE thread'.processed = thread.processed
    BY <2>1 DEF Extract, IInv, IsThread
  <2>2. CASE ExtractionFails \/ SkipProcessed
    BY <2>2 DEF ExtractionFails, SkipProcessed, IInv, IsThread
  <2>3. CASE \/ Resume \/ \E m \in Messages : Take(m) \/ Duplicate(m)
             \/ Return \/ SaveQuestion \/ Fail \/ Crash
    BY <2>3 DEF Resume, Take, Duplicate, Return, SaveQuestion, Fail, Crash, Finish, Graph
  <2> QED  BY <2>1, <2>2, <2>3, OnlyMergeChanges DEF Next, Step
<1>2. version' = version /\ ((status' = "completed") <=> (status = "completed"))
  <2>1. CASE Resume \/ \E m \in Messages : Take(m) \/ Duplicate(m)
    BY <2>1 DEF Resume, Take, Duplicate
  <2>2. CASE \/ \E p \in Patches : Extract(p)
             \/ ExtractionFails \/ SkipProcessed \/ Return
    BY <2>2 DEF Extract, ExtractionFails, SkipProcessed, Return, Graph
  <2>3. CASE SaveQuestion \/ Fail \/ Crash
    BY <2>3 DEF SaveQuestion, Fail, Crash, Finish, IInv, TaskInv
  <2> QED  BY <2>1, <2>2, <2>3 DEF Next, Step
<1> QED  BY <1>1, <1>2, RegisterStutters

\* However the tasks of a conversation are lost, repeated or skipped, it counts
\* every message once, and is saved once, complete.
THEOREM ConversationIsRegister == Spec => ImplementsRegister
<1>1. Init => Register!RegisterInit
  BY DEF Init, NoThread, Register!RegisterInit
<1>2. IInv /\ [Next]_vars => [Register!RegisterNext]_(Register!register)
  <2> SUFFICES ASSUME IInv, [Next]_vars
               PROVE  Register!RegisterNext \/ UNCHANGED Register!register
    OBVIOUS
  <2>1. CASE UNCHANGED vars
    BY <2>1 DEF vars, Register!register
  <2>2. CASE Invoke
    BY <2>2, InvokeRefines DEF Register!RegisterNext
  <2>3. CASE Merge
    BY <2>3, MergeRefines DEF Register!RegisterNext
  <2>4. CASE SaveVersion
    BY <2>4, SaveRefines DEF Register!RegisterNext
  <2>5. CASE Next /\ ~Invoke /\ ~Merge /\ ~SaveVersion
    BY <2>5, OthersStutter
  <2> QED  BY <2>1, <2>2, <2>3, <2>4, <2>5
<1> QED  BY <1>1, <1>2, Invariance, PTL DEF Spec, ImplementsRegister, Register!RegisterSpec
=============================================================================
