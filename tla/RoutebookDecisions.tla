-------------------------- MODULE RoutebookDecisions --------------------------
(***************************************************************************)
(* What travellers decide about one routebook, together: edits with their  *)
(* proposals and final pages over the same versions, and the deletion of   *)
(* the routebook.                                                          *)
(***************************************************************************)
EXTENDS ChangeProposals, FinalPages

vars == <<bookVars, editVars, pageVars>>

Init == BookInit /\ EditInit /\ PageInit

Next ==
  \/ EditNext /\ UNCHANGED pageVars
  \/ PageNext /\ UNCHANGED <<bookVars, editVars>>
  \/ SoftDelete /\ UNCHANGED <<editVars, pageVars>>

Spec == Init /\ [][Next]_vars

TypeOK == BookTypeOK /\ EditTypeOK /\ PageTypeOK

-----------------------------------------------------------------------------
\* A change that needs confirmation is in no version, hence on no final page,
\* before it is accepted, whatever is based on what.
NothingUnconfirmed ==
  \A v \in Saved, o \in Majors : o \in content[v] => proposal[o] = "accepted"

\* An accepted proposal was saved exactly as it was previewed, on the version
\* it was previewed on, although others committed, and whatever became of its
\* run in between.
AcceptedIsItsPreview ==
  \A o \in Majors : proposal[o] = "accepted" =>
    /\ result[o] = base[o] + 1 /\ result[o] \in Saved
    /\ content[result[o]] = preview[o]
    /\ preview[o] = content[base[o]] \union {o}

\* An operation id is executed by at most one of the requests that carry it,
\* and one that was answered with an earlier outcome got that of the same plan.
OncePerOperation ==
  /\ \A r, s \in Requests :
       at[r] \in Executed /\ at[s] \in Executed /\ op[r] = op[s] => r = s
  /\ \A r \in Requests : at[r] \in Executed \union {"reused"} => print[op[r]] = Fingerprint(r)

\* A proposal that was refused as outdated never has an effect: no sequence of
\* undos and edits makes its base the current version again.
OutdatedStaysOut ==
  \A o \in refused : result[o] = NoVersion /\ \A v \in Saved : o \notin content[v]

\* A decision is final, also for proposals whose runs are resumed or cancelled.
DecisionIsFinal ==
  [][\A o \in Majors : proposal[o] \in {"accepted", "rejected"} => proposal'[o] = proposal[o]]_vars

-----------------------------------------------------------------------------
(* The routebook as an append-only history.                                *)

\* The run a version belongs to, as the set of its operation: an edit, an
\* acceptance or an undo has the version as its result, another run's change is
\* first seen in it.  No decision made the first version.
Owner(v) ==
  {o \in Ops : result[o] = v}
  \union {x \in Others : x \in content[v] /\ \A w \in 1..(v - 1) : x \notin content[w]}

OwnersOf(c) == {{o} : o \in c}

History == [v \in Saved |-> [id |-> v, run |-> Owner(v), content |-> OwnersOf(content[v])]]

Chain == INSTANCE VersionChain
         WITH Runs <- {{}} \union OwnersOf(Ops \union Others), history <- History

\* Whatever travellers decide, in whatever order, and whatever other runs commit,
\* the routebook is the append-only history that its transactions implement:
\* every decision adds its own change to the latest version, or undoes the last.
FollowsChain == Chain!FoundedSpec

-----------------------------------------------------------------------------
(* The inductive invariant.                                                *)

PagesInv ==
  \A p \in Pages : Created(p) =>
    /\ page[p].version \in Saved /\ page[p].version <= latestFinal
    /\ content[page[p].version] \intersect Harmful = {}

LatestInv ==
  /\ latestFinal = NoVersion => \A p \in Pages : ~Created(p)
  /\ latestFinal # NoVersion => \E p \in Pages : page[p].version = latestFinal
  /\ latestFinal <= current

\* A request computes on a saved version, and its plan is the executed one if
\* it was executed or reused.
RequestsInv ==
  /\ \A r \in Requests : at[r] # "idle" => loaded[r] \in Saved
  /\ \A r \in Requests : at[r] \in Executed \union {"reused"} =>
       run[op[r]] # "none" /\ print[op[r]] = Fingerprint(r)

ProposalsInv ==
  \A o \in Ops : proposal[o] # "none" =>
    /\ o \in Majors /\ run[o] # "none" /\ base[o] \in Saved
    /\ preview[o] = content[base[o]] \union {o}

RunsInv ==
  /\ \A o \in Ops : run[o] = "none" => result[o] = NoVersion /\ proposal[o] = "none"
  /\ \A o \in Ops : run[o] = "completed" => result[o] \in Saved
  /\ \A o \in Majors : result[o] # NoVersion => proposal[o] = "accepted"

\* Only saved versions are results.
ResultsSaved == \A o \in Ops : result[o] \in Saved \union {NoVersion}

RefusedInv == \A o \in refused : proposal[o] = "pending" /\ base[o] < current

IInv ==
  /\ TypeOK /\ PagesInv /\ LatestInv /\ RequestsInv /\ ProposalsInv /\ RunsInv /\ RefusedInv
  /\ NothingUnconfirmed /\ AcceptedIsItsPreview /\ OncePerOperation
  /\ OnePagePerVersionAndPolicy
=============================================================================
