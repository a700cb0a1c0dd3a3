--------------------------- MODULE Recommendations ---------------------------
(***************************************************************************)
(* Recommending places and deciding on them (recommendations/              *)
(* persistence.py, main.py, worker.py).                                    *)
(*                                                                         *)
(* A search is made for a recommendation run, by a worker, or for a        *)
(* request to replace a place, by its handler; both load the confirmed     *)
(* requirements and the decisions in one transaction, ask the provider     *)
(* outside any, and save a batch in another. Meanwhile the traveller       *)
(* decides on other places and changes the requirements.                   *)
(*                                                                         *)
(* The life of a run is module WorkflowRuns; here a search that ends       *)
(* without a batch, for whatever reason, is given up.                      *)
(***************************************************************************)
EXTENDS PlaceSelection

CONSTANTS
  Tasks,          \* the recommendation runs
  Requests,       \* the requests that replace a place
  Wishes,         \* confirmed requirements: [must, optional, excluded, suburban], where excluded
                  \* holds the places that an excluded or visited text or an avoided district hits
  Weathers,       \* what the forecasts may say: "none", "indoor", "outdoor", "balanced"
  Silences,       \* the sets of terms the provider may find nothing for
  Limits,         \* how many places a recommendation run may ask for, in 1 .. 30
  MaxVersions,    \* bound on the versions of the requirements
  MaxBatches      \* bound on the batches

ASSUME RequestsAssumption ==
  /\ Limits \subseteq 1..30
  /\ \A w \in Wishes : w.suburban \in BOOLEAN

VARIABLES
  versions,       \* the requirements of each version; the last one is current
  batches,        \* recommendation_batches with their place_proposals
  search          \* what each task and each request is doing

vars == <<versions, batches, search>>

ReplaceLimit == 8
Idle == [pc |-> "idle"]
Current == Len(versions)

Proposed == [status |-> "proposed", far |-> FALSE]
Verdicts == {"rejected", "replaced"}

Init ==
  /\ \E w \in Wishes : versions = <<w>>
  /\ batches = <<>>
  /\ search = [s \in Tasks \cup Requests |-> Idle]

\* What was refused or replaced in any batch, and whether something was too far.
Refused == { p \in Known : \E i \in DOMAIN batches :
               p \in DOMAIN batches[i].proposals /\ batches[i].proposals[p].status \in Verdicts }
TooFar == \E i \in DOMAIN batches : \E p \in DOMAIN batches[i].proposals :
               batches[i].proposals[p].status \in Verdicts /\ batches[i].proposals[p].far

\* A replaced place is a wish for another one, not a refusal.
M_feedback_history ==
  [refused |-> { p \in Known : \E i \in DOMAIN batches :
                   p \in DOMAIN batches[i].proposals /\ batches[i].proposals[p].status = "rejected" },
   tooFar |-> TooFar]

\* feedback_history: rejected_ids and rejected_reasons come from it.
feedback_history == [refused |-> Refused, tooFar |-> TooFar]

\* The dialogue, an edit or undoing one commits a version.
Revise ==
  /\ Len(versions) < MaxVersions
  /\ \E w \in Wishes : versions' = Append(versions, w)
  /\ UNCHANGED <<batches, search>>

\* generate_recommendations: the task is queued. "known" is what the traveller
\* has refused by now; the code does not keep it, the properties do.
Generate(s) ==
  /\ s \in Tasks /\ search[s].pc = "idle"
  /\ Len(batches) < MaxBatches
  /\ \E limit \in Limits :
       search' = [search EXCEPT ![s] =
         [pc |-> "asked", limit |-> limit, known |-> Refused, far |-> TooFar]]
  /\ UNCHANGED <<versions, batches>>

\* The requirements, their version and the decisions, in one transaction.
Load(s) ==
  /\ search[s].pc = "asked"
  /\ search' = [search EXCEPT ![s] =
       [pc |-> "loaded", limit |-> search[s].limit, known |-> search[s].known, far |-> search[s].far,
        base |-> Current, feedback |-> feedback_history]]
  /\ UNCHANGED <<versions, batches>>

\* The provider answers: the weather or nothing of it, and some of the terms.
Search(s) ==
  /\ search[s].pc = "loaded"
  /\ \E weather \in Weathers, silent \in Silences :
       LET job      == search[s]
           strategy == Strategy(versions[job.base], job.feedback.tooFar, weather)
           recalled == Recalled(strategy, DOMAIN Catalogue \ silent)
           ranked   == Ranked(recalled, job.feedback.refused, strategy)
       IN  /\ recalled # {}
           /\ search' = [search EXCEPT ![s] =
                [pc |-> "found", limit |-> job.limit, known |-> job.known, far |-> job.far,
                 base |-> job.base, strategy |-> strategy, ranked |-> ranked,
                 chosen |-> Selected(ranked, strategy, job.limit)]]
  /\ UNCHANGED <<versions, batches>>

\* Nothing is recalled, a provider fails, or the run is cancelled; a worker that
\* is lost begins again.
GiveUp(s) ==
  /\ \/ /\ search[s].pc \in {"asked", "loaded", "found"}
        /\ search' = [search EXCEPT ![s] = Idle]
     \/ /\ s \in Tasks /\ search[s].pc \in {"loaded", "found"}
        /\ search' = [search EXCEPT ![s] =
             [pc |-> "asked", limit |-> search[s].limit, known |-> search[s].known, far |-> search[s].far]]
  /\ UNCHANGED <<versions, batches>>

\* A batch is what was found, whatever version is current by now.
M_Stored(s) ==
  batches' = Append(batches, [base |-> Current, known |-> search[s].known, far |-> search[s].far,
    suburban |-> search[s].strategy.suburban, proposals |-> [p \in ToSet(search[s].chosen) |-> Proposed]])

Stored(s) ==
  IF search[s].base = Current
  THEN batches' = Append(batches, [base |-> search[s].base, known |-> search[s].known, far |-> search[s].far,
         suburban |-> search[s].strategy.suburban,
         proposals |-> [p \in ToSet(search[s].chosen) |-> Proposed]])
  ELSE UNCHANGED batches

\* save, under the routebook's lock: a stale result is refused.
Save(s) ==
  /\ search[s].pc = "found" /\ Len(batches) < MaxBatches
  /\ Stored(s)
  /\ search' = [search EXCEPT ![s] = Idle]
  /\ UNCHANGED versions

\* Whoever comes last decides.
M_Decides(i, p, status, far) ==
  batches' = [batches EXCEPT ![i].proposals[p] = [status |-> status, far |-> far]]

\* apply_feedback under the proposal's lock: the first decision stays, the same
\* one again is answered and another is refused.
Decides(i, p, status, far) ==
  \/ /\ batches[i].proposals[p].status = "proposed"
     /\ batches' = [batches EXCEPT ![i].proposals[p] = [status |-> status, far |-> far]]
  \/ /\ batches[i].proposals[p].status = status
     /\ UNCHANGED batches

\* Accepting or refusing a place of any batch; an older batch answers 404, but
\* the decision is committed by then.
Decide(i, p) ==
  /\ \E status \in {"accepted", "rejected"}, far \in BOOLEAN :
       (far => status = "rejected") /\ Decides(i, p, status, far)
  /\ UNCHANGED <<versions, search>>

\* submit_place_feedback with "replace": the decision is committed first, and
\* the search for a replacement starts after it.
Replace(s, i, p) ==
  /\ s \in Requests /\ search[s].pc = "idle"
  /\ Len(batches) < MaxBatches
  /\ \E far \in BOOLEAN : Decides(i, p, "replaced", far)
  /\ search' = [search EXCEPT ![s] =
       [pc |-> "asked", limit |-> ReplaceLimit, known |-> Refused', far |-> TooFar']]
  /\ UNCHANGED versions

Next ==
  \/ Revise
  \/ \E s \in Tasks \cup Requests : Generate(s) \/ Load(s) \/ Search(s) \/ GiveUp(s) \/ Save(s)
  \/ \E i \in DOMAIN batches : \E p \in DOMAIN batches[i].proposals :
       Decide(i, p) \/ \E s \in Requests : Replace(s, i, p)

Spec == Init /\ [][Next]_vars

-----------------------------------------------------------------------------
\* A place that was refused, or replaced, in any batch before a search was asked
\* for is in no batch that comes of it - neither is the place a replacement was
\* asked for - and once a place was too far, the suburbs stay closed
\* (service.py 53-66, strategy.py 81-82, main.py 762-785).
RefusalsBind ==
  \A i \in DOMAIN batches :
    /\ batches[i].known \cap DOMAIN batches[i].proposals = {}
    /\ batches[i].far => ~batches[i].suburban

\* Every batch follows the requirements of the version it is stored under, and
\* no batch is stored under a version older than the batch before it, however
\* long its search took (persistence.py 32-37: the base is checked under the
\* lock, and was loaded with the requirements).
BatchesFollowTheirVersion ==
  \A i \in DOMAIN batches :
    /\ DOMAIN batches[i].proposals \cap versions[batches[i].base].excluded = {}
    /\ batches[i].suburban => versions[batches[i].base].suburban
    /\ i > 1 => batches[i - 1].base <= batches[i].base

\* A proposal is decided once: whoever asks for something else later, in this or
\* another batch's page, does not change it, and a repeated replacement does not
\* change its reason (persistence.py 71-86).
DecisionsAreFinal ==
  [][\A i \in DOMAIN batches : \A p \in DOMAIN batches[i].proposals :
       batches[i].proposals[p].status # "proposed" =>
         batches'[i].proposals[p] = batches[i].proposals[p]]_vars

\* The selection is as long as it can be, and as varied: a place over a cap is
\* taken only when every place left out would be over a cap too, and within one
\* category and district nothing is passed over for a worse one
\* (service.py 119-145).
SelectionIsDiverse ==
  \A s \in Tasks \cup Requests :
    LET job == search[s]
    IN  job.pc = "found" => Diverse(job.ranked, job.chosen, job.strategy, job.limit)
=============================================================================
