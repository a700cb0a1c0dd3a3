---------------------- MODULE RoutebookDecisions_proofs ----------------------
(***************************************************************************)
(* Proofs about RoutebookDecisions, for any operations, requests, pages    *)
(* and bound on the versions.  IInv is inductive; it says, beyond the      *)
(* properties it contains, that previews, pages and requests refer to      *)
(* saved versions, that a run has a result only if its change was decided  *)
(* on, and that a refused proposal is pending on an earlier version.       *)
(***************************************************************************)
EXTENDS RoutebookDecisions, Sequences, SequenceTheorems, TLAPS

USE DEF NoVersion

\* What the constants say of operations, pages and fingerprints.
LEMMA ConstantFacts ==
  /\ Edits \subseteq Changes /\ Majors \subseteq Changes /\ Others \subseteq Changes
  /\ Majors \subseteq Ops /\ Edits \subseteq Ops /\ Undos \subseteq Ops
  /\ Edits \intersect Majors = {} /\ Undos \intersect Majors = {} /\ Others \intersect Majors = {}
  /\ MaxVersions \in Nat /\ 1 \in Versions /\ 0 \notin Versions
BY OpsAssumption, BoundAssumption DEF Ops, Versions

\* Saving a version adds one version and leaves the earlier ones as they are.
LEMMA CommitFacts ==
  ASSUME IInv, NEW b, NEW c \in SUBSET Changes, Commit(b, c)
  PROVE  /\ BookTypeOK' /\ current' = current + 1 /\ current \in Nat /\ b = current /\ ~deleted
         /\ Saved' = Saved \union {current + 1} /\ current + 1 \notin Saved
         /\ Saved \subseteq Versions /\ current + 1 \in Versions
         /\ content'[current + 1] = c
         /\ \A v \in Saved : content'[v] = content[v]
         /\ deleted' = deleted
<1>1. current \in Versions /\ content \in [Versions -> SUBSET Changes] /\ deleted \in BOOLEAN
  BY DEF IInv, TypeOK, BookTypeOK
<1>2. /\ b = current /\ ~deleted /\ current < MaxVersions /\ current' = current + 1
      /\ content' = [content EXCEPT ![current + 1] = c] /\ deleted' = deleted
  BY DEF Commit
<1>3. MaxVersions \in Nat  BY ConstantFacts
<1>4. current + 1 \in Versions /\ current \in Nat  BY <1>1, <1>2, <1>3 DEF Versions
<1>5. Saved \subseteq Versions /\ current + 1 \notin Saved /\ Saved' = Saved \union {current + 1}
  BY <1>1, <1>2, <1>3, <1>4 DEF Versions, Saved
<1> QED  BY <1>1, <1>2, <1>4, <1>5 DEF BookTypeOK

\* The current version is saved; versions are numbers.
LEMMA BookFacts ==
  ASSUME IInv
  PROVE  current \in Nat \ {0} /\ current \in Saved /\ Saved \subseteq Versions
         /\ (\A v \in Versions : v \in Nat \ {0}) /\ (\A v \in Saved : v <= current /\ content[v] \in SUBSET Changes)
BY BoundAssumption DEF IInv, TypeOK, BookTypeOK, Versions, Saved

-----------------------------------------------------------------------------
(* Steps that leave the pages alone.                                       *)

PageParts == PageTypeOK /\ PagesInv /\ LatestInv /\ OnePagePerVersionAndPolicy

LEMMA PagesKept ==
  ASSUME IInv, UNCHANGED pageVars,
         \/ UNCHANGED <<current, content>>
         \/ \E b \in Versions : \E c \in SUBSET Changes : Commit(b, c)
  PROVE  PageParts'
<1>1. page' = page /\ latestFinal' = latestFinal  BY DEF pageVars
<1>2. PageTypeOK'  BY <1>1 DEF IInv, TypeOK, PageTypeOK, Versions
<1>3. OnePagePerVersionAndPolicy'
  BY <1>1 DEF IInv, OnePagePerVersionAndPolicy, Active, Created
<1>4. \A v \in Saved : v \in Saved' /\ content'[v] = content[v]
  <2>1. CASE UNCHANGED <<current, content>>  BY <2>1 DEF Saved
  <2>2. CASE \E b \in Versions : \E c \in SUBSET Changes : Commit(b, c)  BY <2>2, CommitFacts
  <2> QED  BY <2>1, <2>2
<1>5. current <= current' /\ current \in Nat /\ current' \in Nat
  <2>0. current \in Nat  BY BookFacts
  <2>1. CASE UNCHANGED <<current, content>>  BY <2>0, <2>1
  <2>2. CASE \E b \in Versions : \E c \in SUBSET Changes : Commit(b, c)
    BY <2>0, <2>2 DEF Commit
  <2> QED  BY <2>1, <2>2
<1>6. PagesInv'  BY <1>1, <1>4 DEF IInv, PagesInv, Created
<1>7. latestFinal \in Nat
  BY BookFacts DEF IInv, TypeOK, PageTypeOK
<1>8. LatestInv'  BY <1>1, <1>5, <1>7 DEF IInv, LatestInv, Created
<1> QED  BY <1>2, <1>3, <1>6, <1>8 DEF PageParts

(* Steps that leave the edits alone.                                       *)

EditParts ==
  /\ EditTypeOK /\ RequestsInv /\ ProposalsInv /\ RunsInv /\ RefusedInv
  /\ AcceptedIsItsPreview /\ OncePerOperation

LEMMA AllParts ==
  ASSUME BookTypeOK', PageParts', EditParts', NothingUnconfirmed'
  PROVE  IInv'
BY DEF IInv, TypeOK, PageParts, EditParts

LEMMA EditsKept ==
  ASSUME IInv, UNCHANGED editVars, UNCHANGED <<current, content>>
  PROVE  EditParts' /\ NothingUnconfirmed'
BY DEF IInv, TypeOK, EditParts, EditTypeOK, RequestsInv, ProposalsInv, RunsInv, RefusedInv,
   NothingUnconfirmed, AcceptedIsItsPreview, OncePerOperation, editVars, proposalVars,
   requestVars, taskVars, Saved, Fingerprint, Versions, Prints, Ops

LEMMA FinalizeKeeps ==
  ASSUME IInv, NEW p \in Pages, NEW v \in Versions, NEW pol \in Policies,
         Finalize(p, v, pol), UNCHANGED <<bookVars, editVars>>
  PROVE  IInv'
<1>1. UNCHANGED <<current, content, deleted>>  BY DEF bookVars
<1>2. BookTypeOK'  BY <1>1 DEF IInv, TypeOK, BookTypeOK, Versions
<1>3. /\ v = current /\ content[v] \intersect Harmful = {} /\ ActiveFor(v, pol) = {}
      /\ page' = [page EXCEPT ![p] = [version |-> v, policy |-> pol, revoked |-> FALSE]]
      /\ latestFinal' = v /\ ~Created(p)
  BY DEF Finalize, MayFinalize
<1>4. page \in [Pages -> [version : Versions \union {0}, policy : Policies, revoked : BOOLEAN]]
  BY DEF IInv, TypeOK, PageTypeOK
<1>5. /\ page'[p] = [version |-> v, policy |-> pol, revoked |-> FALSE]
      /\ \A q \in Pages \ {p} : page'[q] = page[q]
  BY <1>3, <1>4
<1>6. current \in Nat \ {0} /\ current \in Saved  BY BookFacts
<1>7. PageTypeOK'  BY <1>3, <1>4 DEF PageTypeOK, Versions
<1>8. PagesInv'
  <2>1. ASSUME NEW q \in Pages, q # p, page[q].version # 0
        PROVE  page[q].version \in Saved' /\ page[q].version <= latestFinal'
               /\ content'[page[q].version] \intersect Harmful = {}
    BY <2>1, <1>1, <1>3, BookFacts DEF IInv, PagesInv, Created, Saved
  <2>2. v \in Saved' /\ v <= latestFinal' /\ content'[v] \intersect Harmful = {}
    BY <1>1, <1>3, <1>6 DEF Saved
  <2> QED  BY <2>1, <2>2, <1>5 DEF PagesInv, Created
<1>9. LatestInv'
  BY <1>1, <1>3, <1>5, <1>6 DEF LatestInv, Created
<1>10. OnePagePerVersionAndPolicy'
  <2>1. \A q \in Pages : Active(q) => ~(page[q].version = v /\ page[q].policy = pol)
    BY <1>3 DEF ActiveFor
  <2>2. \A q \in Pages \ {p} : Active(q)' = Active(q)  BY <1>5 DEF Active, Created
  <2> QED  BY <2>1, <2>2, <1>5 DEF IInv, OnePagePerVersionAndPolicy
<1>11. EditParts' /\ NothingUnconfirmed'  BY <1>1, EditsKept
<1> QED  BY <1>2, <1>7, <1>8, <1>9, <1>10, <1>11, AllParts DEF PageParts

LEMMA RevokeKeeps ==
  ASSUME IInv, NEW p \in Pages, Revoke(p), UNCHANGED <<bookVars, editVars>>
  PROVE  IInv'
<1>1. UNCHANGED <<current, content, deleted>>  BY DEF bookVars
<1>2. BookTypeOK'  BY <1>1 DEF IInv, TypeOK, BookTypeOK, Versions
<1>3. page' = [page EXCEPT ![p].revoked = TRUE] /\ latestFinal' = latestFinal  BY DEF Revoke
<1>4. page \in [Pages -> [version : Versions \union {0}, policy : Policies, revoked : BOOLEAN]]
  BY DEF IInv, TypeOK, PageTypeOK
<1>5. \A q \in Pages : /\ page'[q].version = page[q].version /\ page'[q].policy = page[q].policy
                       /\ page[q].revoked => page'[q].revoked
  BY <1>3, <1>4
<1>6. PageTypeOK'  BY <1>3, <1>4 DEF IInv, TypeOK, PageTypeOK, Versions
<1>7. PagesInv' /\ LatestInv'
  BY <1>1, <1>3, <1>5 DEF IInv, PagesInv, LatestInv, Created, Saved
<1>8. OnePagePerVersionAndPolicy'
  BY <1>5 DEF IInv, OnePagePerVersionAndPolicy, Active, Created
<1>9. EditParts' /\ NothingUnconfirmed'  BY <1>1, EditsKept
<1> QED  BY <1>2, <1>6, <1>7, <1>8, <1>9, AllParts DEF PageParts

LEMMA DeleteKeeps ==
  ASSUME IInv, SoftDelete, UNCHANGED <<editVars, pageVars>>
  PROVE  IInv'
<1>1. UNCHANGED <<current, content>> /\ deleted' = TRUE  BY DEF SoftDelete
<1>2. BookTypeOK'  BY <1>1 DEF IInv, TypeOK, BookTypeOK, Versions
<1> QED  BY <1>1, <1>2, EditsKept, PagesKept, AllParts

-----------------------------------------------------------------------------
(* Steps that save no version and change no page.                          *)

Quiet == UNCHANGED <<bookVars, pageVars>>

LEMMA QuietParts ==
  ASSUME IInv, Quiet, EditParts', NothingUnconfirmed'
  PROVE  IInv'
<1>1. UNCHANGED <<current, content, deleted>> /\ UNCHANGED pageVars  BY DEF Quiet, bookVars
<1>2. BookTypeOK'  BY <1>1 DEF IInv, TypeOK, BookTypeOK, Versions
<1>3. PageParts'  BY <1>1, PagesKept
<1> QED  BY <1>2, <1>3, AllParts

\* Proposals and runs are as before, and so is all that is said of them.
LEMMA ProposalsKept ==
  ASSUME IInv, UNCHANGED <<bookVars, proposalVars, taskVars>>
  PROVE  /\ ProposalsInv' /\ RunsInv' /\ RefusedInv' /\ AcceptedIsItsPreview'
         /\ NothingUnconfirmed'
BY DEF IInv, ProposalsInv, RunsInv, RefusedInv, AcceptedIsItsPreview, NothingUnconfirmed,
   bookVars, proposalVars, Saved, Ops

LEMMA LoadKeeps ==
  ASSUME IInv, NEW r \in Requests, NEW o \in Edits \union Majors, LoadCurrent(r, o), Quiet
  PROVE  IInv'
<1>1. /\ at[r] = "idle"
      /\ at' = [at EXCEPT ![r] = "loaded"] /\ op' = [op EXCEPT ![r] = o]
      /\ loaded' = [loaded EXCEPT ![r] = current]
      /\ UNCHANGED <<current, content, run, result, proposal, base, preview, print, refused, task, owed>>
  BY DEF LoadCurrent, bookVars, proposalVars, taskVars
<1>2. EditTypeOK  BY DEF IInv, TypeOK
<1>3. current \in Versions /\ current \in Saved  BY BookFacts DEF IInv, TypeOK, BookTypeOK
<1>4. EditTypeOK'  BY <1>1, <1>2, <1>3 DEF EditTypeOK, Versions, Prints, Ops
<1>5. ASSUME NEW s \in Requests, s # r
      PROVE  at'[s] = at[s] /\ op'[s] = op[s] /\ loaded'[s] = loaded[s]
  BY <1>1, <1>2, <1>5 DEF EditTypeOK
<1>6. at'[r] = "loaded" /\ loaded'[r] = current  BY <1>1, <1>2 DEF EditTypeOK
<1>7. RequestsInv'
  BY <1>1, <1>3, <1>5, <1>6 DEF IInv, RequestsInv, Executed, Saved, Fingerprint
<1>8. OncePerOperation'
  <2>1. ASSUME NEW s \in Requests, at'[s] \in Executed \union {"reused"}
        PROVE  s # r /\ Fingerprint(s)' = Fingerprint(s)
    BY <2>1, <1>5, <1>6 DEF Executed, Fingerprint
  <2> QED  BY <1>1, <1>5, <2>1 DEF IInv, OncePerOperation, Executed
<1>9. UNCHANGED <<bookVars, proposalVars, taskVars>>  BY DEF LoadCurrent
<1> QED  BY <1>4, <1>7, <1>8, <1>9, ProposalsKept, QuietParts DEF EditParts

\* A request that is answered without executing anything.
LEMMA AnswerKeeps ==
  ASSUME IInv, NEW r \in Requests, NEW a \in {"reused", "refused"}, at[r] = "loaded", Answer(r, a),
         a = "reused" => run[op[r]] # "none" /\ print[op[r]] = Fingerprint(r),
         UNCHANGED <<bookVars, proposalVars, taskVars>>, Quiet
  PROVE  IInv'
<1>1. /\ at' = [at EXCEPT ![r] = a] /\ op' = op /\ loaded' = loaded
      /\ UNCHANGED <<current, content, run, result, proposal, base, preview, print, refused, task, owed>>
  BY DEF Answer, bookVars, proposalVars, taskVars
<1>2. EditTypeOK  BY DEF IInv, TypeOK
<1>3. EditTypeOK'  BY <1>1, <1>2 DEF EditTypeOK, Versions, Prints, Ops
<1>4. at'[r] = a /\ \A s \in Requests \ {r} : at'[s] = at[s]
  BY <1>1, <1>2 DEF EditTypeOK
<1>5. \A s \in Requests : Fingerprint(s)' = Fingerprint(s)  BY <1>1 DEF Fingerprint
<1>6. RequestsInv'
  <2>1. \A s \in Requests : at'[s] # "idle" => loaded[s] \in Saved'
    BY <1>1, <1>4 DEF IInv, RequestsInv, Saved
  <2>2. \A s \in Requests : at'[s] \in Executed \union {"reused"} =>
          run[op[s]] # "none" /\ print[op[s]] = Fingerprint(s)
    BY <1>4 DEF IInv, RequestsInv, Executed
  <2> QED  BY <1>1, <1>5, <2>1, <2>2 DEF RequestsInv, Executed
<1>7. OncePerOperation'
  <2>1. ASSUME NEW s \in Requests, at'[s] \in Executed PROVE at[s] \in Executed
    BY <2>1, <1>4 DEF Executed
  <2>2. \A s \in Requests : at'[s] \in Executed \union {"reused"} => print[op[s]] = Fingerprint(s)
    BY <1>4 DEF IInv, OncePerOperation, Executed
  <2> QED  BY <1>1, <1>5, <2>1, <2>2 DEF IInv, OncePerOperation, Executed
<1> QED  BY <1>3, <1>6, <1>7, ProposalsKept, QuietParts DEF EditParts

LEMMA FindExecutedKeeps ==
  ASSUME IInv, NEW r \in Requests, at[r] = "loaded", FindExecuted(r), Quiet
  PROVE  IInv'
<1> DEFINE a == IF print[op[r]] = Fingerprint(r) THEN "reused" ELSE "refused"
<1>1. a \in {"reused", "refused"} /\ (a = "reused" => print[op[r]] = Fingerprint(r))  OBVIOUS
<1>2. run[op[r]] # "none" /\ Answer(r, a) /\ UNCHANGED <<bookVars, proposalVars, taskVars>>
  BY DEF FindExecuted
<1> HIDE DEF a
<1> QED  BY <1>1, <1>2, AnswerKeeps

LEMMA ConflictKeeps ==
  ASSUME IInv, NEW r \in Requests, NEW o, at[r] = "loaded", EditConflicts(r, o), Quiet
  PROVE  IInv'
BY AnswerKeeps DEF EditConflicts

\* A request that executes its operation is the only one, and its plan the
\* executed one.
LEMMA ExecutedKeeps ==
  ASSUME IInv, NEW r \in Requests, NEW a \in Executed, at[r] = "loaded", run[op[r]] = "none",
         Answer(r, a), run'[op[r]] # "none",
         print' = [print EXCEPT ![op[r]] = Fingerprint(r)],
         \A o \in Ops \ {op[r]} : run'[o] = run[o],
         Saved \subseteq Saved'
  PROVE  RequestsInv' /\ OncePerOperation'
<1>1. at' = [at EXCEPT ![r] = a] /\ op' = op /\ loaded' = loaded  BY DEF Answer
<1>2. EditTypeOK  BY DEF IInv, TypeOK
<1>3. at'[r] = a /\ \A s \in Requests \ {r} : at'[s] = at[s]
  BY <1>1, <1>2 DEF EditTypeOK
<1>4. \A s \in Requests : Fingerprint(s)' = Fingerprint(s)  BY <1>1 DEF Fingerprint
<1>5. \A s \in Requests : op[s] \in Ops  BY <1>2 DEF EditTypeOK, Ops
<1>6. /\ print'[op[r]] = Fingerprint(r)
      /\ \A o \in Ops \ {op[r]} : print'[o] = print[o]
  BY <1>2, <1>5 DEF EditTypeOK
<1>7. \A s \in Requests : at[s] \in Executed \union {"reused"} =>
        op[s] # op[r] /\ run[op[s]] # "none" /\ print[op[s]] = Fingerprint(s)
  BY DEF IInv, RequestsInv
<1>8. \A s \in Requests : at'[s] \in Executed \union {"reused"} =>
        run'[op[s]] # "none" /\ print'[op[s]] = Fingerprint(s)
  BY <1>3, <1>5, <1>6, <1>7
<1>9. RequestsInv'
  <2>1. \A s \in Requests : at'[s] # "idle" => loaded[s] \in Saved'
    BY <1>3 DEF IInv, RequestsInv
  <2> QED  BY <1>1, <1>4, <1>8, <2>1 DEF RequestsInv, Executed
<1>10. OncePerOperation'
  <2>1. ASSUME NEW s \in Requests, NEW t \in Requests, at'[s] \in Executed, at'[t] \in Executed,
               op[s] = op[t]
        PROVE  s = t
    BY <2>1, <1>3, <1>7 DEF IInv, OncePerOperation
  <2> QED  BY <1>1, <1>4, <1>8, <2>1 DEF OncePerOperation, Executed
<1> QED  BY <1>9, <1>10

LEMMA FingerprintType ==
  ASSUME IInv, NEW r \in Requests, at[r] = "loaded"
  PROVE  Fingerprint(r) \in Prints /\ loaded[r] \in Saved /\ loaded[r] \in Versions
         /\ content[loaded[r]] \in SUBSET Changes
<1>1. loaded[r] \in Saved  BY DEF IInv, RequestsInv
<1>2. loaded[r] \in Versions  BY <1>1, BookFacts
<1> QED  BY <1>1, <1>2, BookFacts DEF Fingerprint, Prints

LEMMA ProposeKeeps ==
  ASSUME IInv, NEW r \in Requests, at[r] = "loaded", run[op[r]] = "none", Propose(r, op[r]), Quiet
  PROVE  IInv'
<1> DEFINE o == op[r]
<1>1. /\ o \in Majors
      /\ run' = [run EXCEPT ![o] = "interrupted"] /\ proposal' = [proposal EXCEPT ![o] = "pending"]
      /\ base' = [base EXCEPT ![o] = loaded[r]]
      /\ preview' = [preview EXCEPT ![o] = content[loaded[r]] \union {o}]
      /\ print' = [print EXCEPT ![o] = Fingerprint(r)] /\ Answer(r, "proposed")
      /\ UNCHANGED <<current, content, result, refused, task, owed>>
  BY DEF Propose, Proposed, bookVars, taskVars
<1>2. EditTypeOK  BY DEF IInv, TypeOK
<1>3. o \in Ops /\ o \in Changes /\ Majors \subseteq Ops  BY <1>1, ConstantFacts
<1>4. Fingerprint(r) \in Prints /\ loaded[r] \in Saved /\ loaded[r] \in Versions
      /\ content[loaded[r]] \union {o} \in SUBSET Changes
  BY <1>3, FingerprintType
<1>5. at' = [at EXCEPT ![r] = "proposed"] /\ op' = op /\ loaded' = loaded  BY <1>1 DEF Answer
<1>6. EditTypeOK'
  BY <1>1, <1>2, <1>4, <1>5 DEF EditTypeOK, Versions, Prints, Ops, RunStates
<1>7. /\ run'[o] = "interrupted" /\ proposal'[o] = "pending" /\ base'[o] = loaded[r]
      /\ preview'[o] = content[loaded[r]] \union {o}
      /\ \A i \in Ops \ {o} : /\ run'[i] = run[i] /\ proposal'[i] = proposal[i]
                              /\ base'[i] = base[i] /\ preview'[i] = preview[i]
  BY <1>1, <1>2, <1>3 DEF EditTypeOK
<1>8. result[o] = 0 /\ proposal[o] = "none"  BY <1>3 DEF IInv, RunsInv
<1>9. Saved' = Saved  BY <1>1 DEF Saved
<1>10. RequestsInv' /\ OncePerOperation'
  BY <1>1, <1>7, <1>9, ExecutedKeeps DEF Executed
<1>11. ProposalsInv'
  BY <1>1, <1>4, <1>7, <1>9 DEF IInv, ProposalsInv, Ops
<1>12. RunsInv'
  BY <1>1, <1>3, <1>7, <1>8, <1>9 DEF IInv, RunsInv, Ops
<1>13. o \notin refused  BY <1>8 DEF IInv, RefusedInv
<1>14. refused \subseteq Majors  BY <1>2 DEF EditTypeOK
<1>15. RefusedInv'  BY <1>1, <1>3, <1>7, <1>13, <1>14 DEF IInv, RefusedInv
<1>16. AcceptedIsItsPreview'
  BY <1>1, <1>3, <1>7, <1>9 DEF IInv, AcceptedIsItsPreview
<1>17. NothingUnconfirmed'
  BY <1>1, <1>3, <1>7, <1>8, <1>9 DEF IInv, NothingUnconfirmed
<1> QED  BY <1>6, <1>10, <1>11, <1>12, <1>15, <1>16, <1>17, QuietParts DEF EditParts

\* A proposal that is rejected or refused.
LEMMA RejectKeeps ==
  ASSUME IInv, NEW o \in Majors, Reject(o), Quiet
  PROVE  IInv'
<1>1. /\ proposal[o] = "pending" /\ current = base[o]
      /\ proposal' = [proposal EXCEPT ![o] = "rejected"] /\ run' = [run EXCEPT ![o] = "cancelled"]
      /\ UNCHANGED <<current, content, result, base, preview, print, refused, task, owed, at, op, loaded>>
  BY DEF Reject, MayResolve, bookVars, taskVars, requestVars
<1>2. EditTypeOK  BY DEF IInv, TypeOK
<1>3. o \in Ops /\ Majors \subseteq Ops /\ \A r \in Requests : op[r] \in Ops
  BY <1>2, ConstantFacts DEF EditTypeOK, Ops
<1>4. EditTypeOK'  BY <1>1, <1>2 DEF EditTypeOK, Versions, Prints, Ops, RunStates
<1>5. /\ run'[o] = "cancelled" /\ proposal'[o] = "rejected"
      /\ \A i \in Ops \ {o} : run'[i] = run[i] /\ proposal'[i] = proposal[i]
  BY <1>1, <1>2, <1>3 DEF EditTypeOK
<1>6. Saved' = Saved /\ \A r \in Requests : Fingerprint(r)' = Fingerprint(r)
  BY <1>1 DEF Saved, Fingerprint
<1>7. o \notin refused
  <2>1. base[o] \in Nat  BY <1>2, <1>3, BookFacts DEF EditTypeOK
  <2> QED  BY <1>1, <2>1, BookFacts DEF IInv, RefusedInv
<1>8. RequestsInv'  BY <1>1, <1>3, <1>5, <1>6 DEF IInv, RequestsInv, Executed
<1>9. OncePerOperation'  BY <1>1, <1>6 DEF IInv, OncePerOperation, Executed
<1>10. ProposalsInv'  BY <1>1, <1>3, <1>5, <1>6 DEF IInv, ProposalsInv, Ops
<1>11. RunsInv'
  <2>1. result[o] = 0  BY <1>1 DEF IInv, RunsInv
  <2> QED  BY <1>1, <1>3, <1>5, <1>6, <2>1 DEF IInv, RunsInv, Ops
<1>12. refused \subseteq Majors  BY <1>2 DEF EditTypeOK
<1>13. RefusedInv'  BY <1>1, <1>3, <1>5, <1>7, <1>12 DEF IInv, RefusedInv
<1>14. AcceptedIsItsPreview' /\ NothingUnconfirmed'
  <2>1. \A i \in Majors : proposal'[i] = "accepted" <=> proposal[i] = "accepted"
    BY <1>1, <1>3, <1>5
  <2> QED  BY <1>1, <1>6, <2>1 DEF IInv, AcceptedIsItsPreview, NothingUnconfirmed
<1> QED  BY <1>4, <1>8, <1>9, <1>10, <1>11, <1>13, <1>14, QuietParts DEF EditParts

LEMMA RefuseKeeps ==
  ASSUME IInv, NEW o \in Majors, RefuseOutdated(o), Quiet
  PROVE  IInv'
<1>1. /\ proposal[o] = "pending" /\ current # base[o] /\ refused' = refused \union {o}
      /\ UNCHANGED <<current, content, run, result, proposal, base, preview, print, task, owed,
                     at, op, loaded>>
  BY DEF RefuseOutdated, bookVars, taskVars, requestVars
<1>2. o \in Ops  BY ConstantFacts
<1>3. base[o] \in Saved  BY <1>1, <1>2 DEF IInv, ProposalsInv
<1>4. base[o] < current
  BY <1>1, <1>3, BookFacts DEF Saved
<1>5. RefusedInv'  BY <1>1, <1>4 DEF IInv, RefusedInv
<1>6. EditTypeOK'  BY <1>1 DEF IInv, TypeOK, EditTypeOK, Versions, Prints, Ops
<1>7. /\ RequestsInv' /\ ProposalsInv' /\ RunsInv' /\ AcceptedIsItsPreview' /\ OncePerOperation'
      /\ NothingUnconfirmed'
  BY <1>1 DEF IInv, RequestsInv, ProposalsInv, RunsInv, AcceptedIsItsPreview, OncePerOperation,
     NothingUnconfirmed, Fingerprint, Saved, Executed, Ops
<1> QED  BY <1>5, <1>6, <1>7, QuietParts DEF EditParts

\* Whatever the task of a resumed run does, the proposal stays as it is, and a
\* run without a result is not completed by it.
LEMMA TaskKeeps ==
  ASSUME IInv, NEW o \in Majors, TaskStep(o), Quiet
  PROVE  IInv'
<1>1. UNCHANGED <<current, content, result, proposal, base, preview, print, refused, at, op, loaded>>
  BY DEF TaskStep, Elsewhere, bookVars, requestVars
<1>2. EditTypeOK  BY DEF IInv, TypeOK
<1>3. o \in Ops /\ Majors \subseteq Ops /\ \A r \in Requests : op[r] \in Ops
  BY <1>2, ConstantFacts DEF EditTypeOK, Ops
<1>4. PICK s \in RunStates \ {"none"} : run' = [run EXCEPT ![o] = s] /\ (s = "completed" => run[o] = "completed")
  <2>1. run[o] = "completed" => run = [run EXCEPT ![o] = "completed"]
    BY <1>2, <1>3 DEF EditTypeOK
  <2> QED  BY <2>1 DEF TaskStep, Resume, MarkRequirementRunning, ReportRunning, NothingToResume,
              ReportFailed, Cancel, PublishCancelled, SetRun, RunStates
<1>5. EditTypeOK'
  <2>1. /\ task' \in [Ops -> {"none", "sent", "marked", "working", "failing"}]
        /\ owed' \subseteq Majors
    BY <1>2 DEF TaskStep, Resume, MarkRequirementRunning, ReportRunning, NothingToResume,
       ReportFailed, Cancel, PublishCancelled, Task, EditTypeOK
  <2>2. run' \in [Ops -> RunStates]  BY <1>2, <1>4 DEF EditTypeOK
  <2> QED  BY <1>1, <1>2, <2>1, <2>2 DEF EditTypeOK, Versions, Prints, Ops
<1>6. run'[o] = s /\ \A i \in Ops \ {o} : run'[i] = run[i]
  BY <1>2, <1>3, <1>4 DEF EditTypeOK
<1>7. Saved' = Saved /\ \A r \in Requests : Fingerprint(r)' = Fingerprint(r)
  BY <1>1 DEF Saved, Fingerprint
<1>8. RequestsInv'
  BY <1>1, <1>3, <1>4, <1>6, <1>7 DEF IInv, RequestsInv, Executed
<1>9. ProposalsInv'  BY <1>1, <1>4, <1>6, <1>7 DEF IInv, ProposalsInv, Ops
<1>10. RunsInv'  BY <1>1, <1>4, <1>6, <1>7 DEF IInv, RunsInv, Ops
<1>11. RefusedInv' /\ AcceptedIsItsPreview' /\ NothingUnconfirmed' /\ OncePerOperation'
  BY <1>1, <1>7 DEF IInv, RefusedInv, AcceptedIsItsPreview, NothingUnconfirmed, OncePerOperation,
     Executed
<1> QED  BY <1>5, <1>8, <1>9, <1>10, <1>11, QuietParts DEF EditParts

-----------------------------------------------------------------------------
(* Steps that save a version.                                              *)

\* What was accepted, proposed and refused before a commit remains so.
LEMMA SavedKept ==
  ASSUME IInv, NEW b, NEW c \in SUBSET Changes, Commit(b, c)
  PROVE  /\ \A i \in Ops : proposal[i] # "none" =>
              base[i] \in Saved' /\ preview[i] = content'[base[i]] \union {i}
         /\ \A i \in Majors : proposal[i] = "accepted" =>
              /\ result[i] = base[i] + 1 /\ result[i] \in Saved'
              /\ content'[result[i]] = preview[i] /\ preview[i] = content'[base[i]] \union {i}
         /\ \A i \in refused : base[i] < current'
         /\ \A i \in Ops : run[i] = "completed" => result[i] \in Saved'
         /\ \A r \in Requests : at[r] # "idle" => loaded[r] \in Saved'
<1>1. /\ current' = current + 1 /\ current \in Nat /\ Saved' = Saved \union {current + 1}
      /\ \A v \in Saved : content'[v] = content[v]
  BY CommitFacts
<1>2. Majors \subseteq Ops /\ refused \subseteq Majors
  BY ConstantFacts DEF IInv, TypeOK, EditTypeOK
<1>3. \A i \in Ops : proposal[i] # "none" =>
        base[i] \in Saved' /\ preview[i] = content'[base[i]] \union {i}
  BY <1>1 DEF IInv, ProposalsInv
<1>4. \A i \in Majors : proposal[i] = "accepted" =>
        /\ result[i] = base[i] + 1 /\ result[i] \in Saved'
        /\ content'[result[i]] = preview[i] /\ preview[i] = content'[base[i]] \union {i}
  BY <1>1, <1>2, <1>3 DEF IInv, AcceptedIsItsPreview
<1>5. \A i \in refused : base[i] < current'
  <2> SUFFICES ASSUME NEW i \in refused PROVE base[i] < current'  OBVIOUS
  <2>1. base[i] < current /\ base[i] \in Saved
    BY <1>2 DEF IInv, RefusedInv, ProposalsInv
  <2>2. base[i] \in Nat  BY <2>1, BookFacts DEF Versions
  <2> QED  BY <1>1, <2>1, <2>2
<1> QED  BY <1>1, <1>3, <1>4, <1>5 DEF IInv, RunsInv, RequestsInv

LEMMA CommitParts ==
  ASSUME IInv, NEW b \in Versions, NEW c \in SUBSET Changes, Commit(b, c), UNCHANGED pageVars,
         EditParts', NothingUnconfirmed'
  PROVE  IInv'
<1>1. BookTypeOK'  BY CommitFacts
<1>2. PageParts'  BY PagesKept
<1> QED  BY <1>1, <1>2, AllParts

LEMMA OtherKeeps ==
  ASSUME IInv, NEW x \in Others, OtherCommit(x), UNCHANGED pageVars
  PROVE  IInv'
<1> DEFINE c == content[current] \union {x}
<1>1. Commit(current, c)
      /\ UNCHANGED <<run, result, proposal, base, preview, print, refused, task, owed, at, op, loaded>>
  BY DEF OtherCommit, editVars, proposalVars, requestVars, taskVars
<1>2. c \in SUBSET Changes /\ current \in Versions /\ current \in Saved
  BY BookFacts, ConstantFacts DEF OtherCommit
<1> HIDE DEF c
<1>3. EditTypeOK'  BY <1>1 DEF IInv, TypeOK, EditTypeOK, Versions, Prints, Ops
<1>4. \A r \in Requests : Fingerprint(r)' = Fingerprint(r)  BY <1>1 DEF Fingerprint
<1>5. RequestsInv' /\ ProposalsInv' /\ RunsInv' /\ RefusedInv' /\ AcceptedIsItsPreview'
  <2>1. RequestsInv'  BY <1>1, <1>2, <1>4, SavedKept DEF IInv, RequestsInv, Executed
  <2>2. ProposalsInv'  BY <1>1, <1>2, SavedKept DEF IInv, ProposalsInv, Ops
  <2>3. RunsInv'  BY <1>1, <1>2, SavedKept DEF IInv, RunsInv, Ops
  <2>4. RefusedInv'  BY <1>1, <1>2, SavedKept DEF IInv, RefusedInv
  <2>5. AcceptedIsItsPreview'  BY <1>1, <1>2, SavedKept DEF AcceptedIsItsPreview
  <2> QED  BY <2>1, <2>2, <2>3, <2>4, <2>5
<1>6. OncePerOperation'  BY <1>1, <1>4 DEF IInv, OncePerOperation, Executed
<1>7. NothingUnconfirmed'
  <2>1. \A o \in Majors : o \in c => proposal[o] = "accepted"
    BY <1>2, ConstantFacts DEF c, IInv, NothingUnconfirmed
  <2> QED  BY <1>1, <1>2, <2>1, CommitFacts DEF IInv, NothingUnconfirmed
<1> QED  BY <1>1, <1>2, <1>3, <1>5, <1>6, <1>7, CommitParts DEF EditParts

LEMMA UndoKeeps ==
  ASSUME IInv, NEW u \in Undos, Undo(u), UNCHANGED pageVars
  PROVE  IInv'
<1> DEFINE c == content[current - 1]
<1>1. /\ Commit(current, c) /\ current > 1 /\ run[u] = "none"
      /\ run' = [run EXCEPT ![u] = "completed"] /\ result' = [result EXCEPT ![u] = current']
      /\ UNCHANGED <<proposal, base, preview, print, refused, task, owed, at, op, loaded>>
  BY DEF Undo, SaveParent, requestVars, taskVars
<1>2. current - 1 \in Saved /\ current \in Versions /\ current \in Saved
  BY <1>1, BookFacts DEF Saved
<1>3. c \in SUBSET Changes  BY <1>2, BookFacts
<1> HIDE DEF c
<1>4. current' \in Versions /\ current' \in Saved'  BY <1>1, <1>3, CommitFacts
<1>5. u \in Ops /\ u \notin Majors /\ EditTypeOK  BY ConstantFacts DEF IInv, TypeOK
<1>6. EditTypeOK'
  BY <1>1, <1>4, <1>5 DEF EditTypeOK, Versions, Prints, Ops, RunStates
<1>7. /\ run'[u] = "completed" /\ result'[u] = current'
      /\ \A i \in Ops \ {u} : run'[i] = run[i] /\ result'[i] = result[i]
  BY <1>1, <1>5 DEF EditTypeOK
<1>8. \A r \in Requests : Fingerprint(r)' = Fingerprint(r) /\ op[r] \in Ops
  BY <1>1, <1>5 DEF Fingerprint, EditTypeOK, Ops
<1>9. Majors \subseteq Ops \ {u}  BY <1>5, ConstantFacts
<1>10. RequestsInv'  BY <1>1, <1>3, <1>7, <1>8, SavedKept DEF IInv, RequestsInv, Executed
<1>11. ProposalsInv'  BY <1>1, <1>3, <1>7, SavedKept DEF IInv, ProposalsInv, Ops
<1>12. RunsInv'
  <2>1. \A i \in Ops : run'[i] = "completed" => result'[i] \in Saved'
    BY <1>1, <1>3, <1>4, <1>7, SavedKept
  <2> QED  BY <1>1, <1>5, <1>7, <1>9, <2>1 DEF IInv, RunsInv, Ops
<1>13. RefusedInv'  BY <1>1, <1>3, SavedKept DEF IInv, RefusedInv
<1>14. AcceptedIsItsPreview'  BY <1>1, <1>3, <1>7, <1>9, SavedKept DEF AcceptedIsItsPreview
<1>15. OncePerOperation'  BY <1>1, <1>8 DEF IInv, OncePerOperation, Executed
<1>16. NothingUnconfirmed'
  <2>1. \A o \in Majors : o \in c => proposal[o] = "accepted"
    BY <1>2 DEF c, IInv, NothingUnconfirmed
  <2> QED  BY <1>1, <1>3, <2>1, CommitFacts DEF IInv, NothingUnconfirmed
<1> QED  BY <1>1, <1>2, <1>3, <1>6, <1>10, <1>11, <1>12, <1>13, <1>14, <1>15, <1>16, CommitParts
         DEF EditParts

LEMMA SaveEditKeeps ==
  ASSUME IInv, NEW r \in Requests, at[r] = "loaded", run[op[r]] = "none", SaveEdit(r, op[r]),
         UNCHANGED pageVars
  PROVE  IInv'
<1> DEFINE o == op[r]
           c == content[loaded[r]] \union {o}
<1>1. /\ o \in Edits /\ Commit(loaded[r], c)
      /\ run' = [run EXCEPT ![o] = "completed"] /\ result' = [result EXCEPT ![o] = current + 1]
      /\ print' = [print EXCEPT ![o] = Fingerprint(r)] /\ Answer(r, "saved")
      /\ UNCHANGED <<proposal, base, preview, refused, task, owed>>
  BY DEF SaveEdit, Saves, taskVars
<1>2. EditTypeOK  BY DEF IInv, TypeOK
<1>3. o \in Ops /\ o \notin Majors /\ o \in Changes /\ Majors \subseteq Ops  BY <1>1, ConstantFacts
<1>4. Fingerprint(r) \in Prints /\ loaded[r] \in Saved /\ loaded[r] \in Versions
      /\ c \in SUBSET Changes
  BY <1>3, FingerprintType
<1>5. at' = [at EXCEPT ![r] = "saved"] /\ op' = op /\ loaded' = loaded  BY <1>1 DEF Answer
<1>6. /\ current + 1 \in Versions /\ current + 1 \in Saved' /\ Saved \subseteq Saved'
      /\ content'[current + 1] = c /\ Saved' = Saved \union {current + 1}
      /\ \A v \in Saved : content'[v] = content[v]
  BY <1>1, <1>4, CommitFacts
<1>7. EditTypeOK'
  BY <1>1, <1>2, <1>4, <1>5, <1>6 DEF EditTypeOK, Versions, Prints, Ops, RunStates
<1>8. /\ run'[o] = "completed" /\ result'[o] = current + 1
      /\ \A i \in Ops \ {o} : run'[i] = run[i] /\ result'[i] = result[i]
  BY <1>1, <1>2, <1>3 DEF EditTypeOK
<1>9. RequestsInv' /\ OncePerOperation'
  BY <1>1, <1>6, <1>8, ExecutedKeeps DEF Executed
<1>10. ProposalsInv'
  BY <1>1, <1>3, <1>4, <1>8, SavedKept DEF IInv, ProposalsInv, Ops
<1>11. RunsInv'
  <2>1. \A i \in Ops : run'[i] = "completed" => result'[i] \in Saved'
    BY <1>1, <1>4, <1>6, <1>8, SavedKept
  <2> QED  BY <1>1, <1>3, <1>8, <2>1 DEF IInv, RunsInv, Ops
<1>12. RefusedInv'  BY <1>1, <1>4, SavedKept DEF IInv, RefusedInv
<1>13. \A i \in Majors : result'[i] = result[i]  BY <1>3, <1>8
<1>14. AcceptedIsItsPreview'  BY <1>1, <1>4, <1>13, SavedKept DEF AcceptedIsItsPreview
<1>15. NothingUnconfirmed'
  <2>1. \A i \in Majors : i \in c => proposal[i] = "accepted"
    BY <1>3, <1>4 DEF IInv, NothingUnconfirmed
  <2> QED  BY <1>1, <1>6, <2>1 DEF IInv, NothingUnconfirmed
<1> HIDE DEF c
<1> QED  BY <1>1, <1>4, <1>7, <1>9, <1>10, <1>11, <1>12, <1>14, <1>15, CommitParts DEF EditParts

LEMMA AcceptKeeps ==
  ASSUME IInv, NEW o \in Majors, Accept(o), UNCHANGED pageVars
  PROVE  IInv'
<1>1. /\ proposal[o] = "pending" /\ current = base[o] /\ Commit(base[o], preview[o])
      /\ proposal' = [proposal EXCEPT ![o] = "accepted"]
      /\ run' = [run EXCEPT ![o] = "completed"] /\ result' = [result EXCEPT ![o] = current + 1]
      /\ UNCHANGED <<base, preview, print, refused, task, owed, at, op, loaded>>
  BY DEF Accept, Accepted, MayResolve, requestVars, taskVars
<1>2. EditTypeOK  BY DEF IInv, TypeOK
<1>3. o \in Ops /\ Majors \subseteq Ops  BY ConstantFacts
<1>4. base[o] \in Saved /\ base[o] \in Versions /\ preview[o] \in SUBSET Changes
      /\ preview[o] = content[base[o]] \union {o}
  BY <1>1, <1>2, <1>3, BookFacts DEF IInv, ProposalsInv, EditTypeOK
<1>5. /\ current + 1 \in Versions /\ current + 1 \in Saved' /\ Saved \subseteq Saved'
      /\ content'[current + 1] = preview[o] /\ Saved' = Saved \union {current + 1}
      /\ \A v \in Saved : content'[v] = content[v]
  BY <1>1, <1>4, CommitFacts
<1>6. EditTypeOK'
  BY <1>1, <1>2, <1>5 DEF EditTypeOK, Versions, Prints, Ops, RunStates
<1>7. /\ run'[o] = "completed" /\ result'[o] = current + 1 /\ proposal'[o] = "accepted"
      /\ \A i \in Ops \ {o} : run'[i] = run[i] /\ result'[i] = result[i] /\ proposal'[i] = proposal[i]
  BY <1>1, <1>2, <1>3 DEF EditTypeOK
<1>8. \A r \in Requests : Fingerprint(r)' = Fingerprint(r) /\ op[r] \in Ops
  BY <1>1, <1>2 DEF Fingerprint, EditTypeOK, Ops
<1>9. RequestsInv'  BY <1>1, <1>4, <1>7, <1>8, SavedKept DEF IInv, RequestsInv, Executed
<1>10. OncePerOperation'  BY <1>1, <1>8 DEF IInv, OncePerOperation, Executed
<1>11. ProposalsInv'
  BY <1>1, <1>4, <1>7, SavedKept DEF IInv, ProposalsInv, Ops
<1>12. RunsInv'
  <2>1. \A i \in Ops : run'[i] = "completed" => result'[i] \in Saved'
    BY <1>1, <1>4, <1>5, <1>7, SavedKept
  <2>2. \A i \in Majors : result'[i] # 0 => proposal'[i] = "accepted"
    BY <1>3, <1>7 DEF IInv, RunsInv
  <2>3. \A i \in Ops : run'[i] = "none" => result'[i] = 0 /\ proposal'[i] = "none"
    BY <1>7 DEF IInv, RunsInv
  <2> QED  BY <2>1, <2>2, <2>3 DEF RunsInv, Ops
<1>13. RefusedInv'
  <2>1. o \notin refused
    BY <1>1, <1>4, BookFacts DEF IInv, RefusedInv
  <2>2. refused \subseteq Majors  BY <1>2 DEF EditTypeOK
  <2> QED  BY <1>1, <1>3, <1>4, <1>7, <2>1, <2>2, SavedKept DEF IInv, RefusedInv
<1>14. AcceptedIsItsPreview'
  <2>1. ASSUME NEW i \in Majors, i # o, proposal'[i] = "accepted"
        PROVE  /\ result'[i] = base[i] + 1 /\ result'[i] \in Saved'
               /\ content'[result'[i]] = preview[i] /\ preview[i] = content'[base[i]] \union {i}
    BY <2>1, <1>1, <1>3, <1>4, <1>7, SavedKept
  <2>2. /\ result'[o] = base[o] + 1 /\ result'[o] \in Saved'
        /\ content'[result'[o]] = preview[o] /\ preview[o] = content'[base[o]] \union {o}
    BY <1>1, <1>4, <1>5, <1>7
  <2> QED  BY <1>1, <2>1, <2>2 DEF AcceptedIsItsPreview
<1>15. NothingUnconfirmed'
  <2>1. \A i \in Majors : i \in preview[o] => proposal'[i] = "accepted"
    BY <1>3, <1>4, <1>7 DEF IInv, NothingUnconfirmed
  <2>2. \A i \in Majors : proposal[i] = "accepted" => proposal'[i] = "accepted"
    BY <1>3, <1>7
  <2> QED  BY <1>5, <2>1, <2>2 DEF IInv, NothingUnconfirmed
<1> QED  BY <1>1, <1>4, <1>6, <1>9, <1>10, <1>11, <1>12, <1>13, <1>14, <1>15, CommitParts
         DEF EditParts

-----------------------------------------------------------------------------
(* The invariant.                                                          *)

LEMMA Initially == Init => IInv
<1> SUFFICES ASSUME Init PROVE IInv  OBVIOUS
<1>1. /\ current = 1 /\ content = [v \in Versions |-> {}] /\ deleted = FALSE
      /\ 1 \in Versions /\ Saved = {1}
  BY ConstantFacts DEF Init, BookInit, Saved
<1>2. BookTypeOK  BY <1>1 DEF BookTypeOK
<1>3. \E pol \in Policies : TRUE  BY PolicyAssumption
<1>4. PageTypeOK
  BY <1>3 DEF Init, PageInit, PageTypeOK, NoPage
<1>5. AnyOp \in Edits \union Majors  BY OpsAssumption DEF AnyOp
<1>6. EditTypeOK
  BY <1>5 DEF Init, EditInit, EditTypeOK, RunStates, NoPrint, Prints
<1>7. PagesInv /\ LatestInv /\ OnePagePerVersionAndPolicy
  BY <1>1 DEF Init, PageInit, PagesInv, LatestInv, OnePagePerVersionAndPolicy, Created, Active, NoPage
<1>8. /\ run = [o \in Ops |-> "none"] /\ result = [o \in Ops |-> 0]
      /\ proposal = [o \in Ops |-> "none"] /\ refused = {} /\ at = [r \in Requests |-> "idle"]
      /\ Majors \subseteq Ops
  BY ConstantFacts DEF Init, EditInit
<1>9. RequestsInv /\ ProposalsInv /\ RunsInv /\ RefusedInv
  BY <1>8 DEF RequestsInv, ProposalsInv, RunsInv, RefusedInv, Executed
<1>10. AcceptedIsItsPreview /\ OncePerOperation
  BY <1>8 DEF AcceptedIsItsPreview, OncePerOperation, Executed
<1>11. NothingUnconfirmed  BY <1>1 DEF NothingUnconfirmed
<1> QED  BY <1>2, <1>4, <1>6, <1>7, <1>9, <1>10, <1>11 DEF IInv, TypeOK

LEMMA EditKeeps ==
  ASSUME IInv, EditNext, UNCHANGED pageVars
  PROVE  IInv'
<1>1. ASSUME NEW r \in Requests, NEW o \in Edits \union Majors, LoadCurrent(r, o) PROVE IInv'
  <2>1. Quiet  BY <1>1 DEF LoadCurrent, Quiet
  <2> QED  BY <1>1, <2>1, LoadKeeps
<1>2. ASSUME NEW r \in Requests, Execute(r) PROVE IInv'
  <2>1. at[r] = "loaded"  BY <1>2 DEF Execute
  <2>2. CASE FindExecuted(r)
    <3>1. Quiet  BY <2>2 DEF FindExecuted, Quiet
    <3> QED  BY <2>1, <2>2, <3>1, FindExecutedKeeps
  <2>3. CASE IsNew(op[r]) /\ Propose(r, op[r])
    <3>1. Quiet  BY <2>3 DEF Propose, Proposed, Quiet
    <3> QED  BY <2>1, <2>3, <3>1, ProposeKeeps DEF IsNew
  <2>4. CASE IsNew(op[r]) /\ SaveEdit(r, op[r])
    BY <2>1, <2>4, SaveEditKeeps DEF IsNew
  <2>5. CASE IsNew(op[r]) /\ EditConflicts(r, op[r])
    <3>1. Quiet  BY <2>5 DEF EditConflicts, Quiet
    <3> QED  BY <2>1, <2>5, <3>1, ConflictKeeps
  <2> QED  BY <1>2, <2>2, <2>3, <2>4, <2>5 DEF Execute
<1>3. ASSUME NEW o \in Majors, Accept(o) PROVE IInv'  BY <1>3, AcceptKeeps
<1>4. ASSUME NEW o \in Majors, Reject(o) \/ RefuseOutdated(o) PROVE IInv'
  <2>1. Quiet  BY <1>4 DEF Reject, RefuseOutdated, Quiet
  <2> QED  BY <1>4, <2>1, RejectKeeps, RefuseKeeps
<1>5. ASSUME NEW o \in Majors, TaskStep(o) PROVE IInv'
  <2>1. Quiet  BY <1>5 DEF TaskStep, Elsewhere, Quiet
  <2> QED  BY <1>5, <2>1, TaskKeeps
<1>6. ASSUME NEW u \in Undos, Undo(u) PROVE IInv'  BY <1>6, UndoKeeps
<1>7. ASSUME NEW x \in Others, OtherCommit(x) PROVE IInv'  BY <1>7, OtherKeeps
<1> QED  BY <1>1, <1>2, <1>3, <1>4, <1>5, <1>6, <1>7 DEF EditNext

\* Every step keeps the invariant.
LEMMA Inductive == IInv /\ [Next]_vars => IInv'
<1> SUFFICES ASSUME IInv, [Next]_vars PROVE IInv'  OBVIOUS
<1>1. CASE EditNext /\ UNCHANGED pageVars  BY <1>1, EditKeeps
<1>2. CASE PageNext /\ UNCHANGED <<bookVars, editVars>>
  BY <1>2, FinalizeKeeps, RevokeKeeps DEF PageNext
<1>3. CASE SoftDelete /\ UNCHANGED <<editVars, pageVars>>  BY <1>3, DeleteKeeps
<1>4. CASE UNCHANGED vars
  <2>1. Quiet /\ UNCHANGED editVars /\ UNCHANGED <<current, content>>
    BY <1>4 DEF vars, Quiet, bookVars
  <2> QED  BY <2>1, EditsKept, QuietParts
<1> QED  BY <1>1, <1>2, <1>3, <1>4 DEF Next

\* In every reachable state the routebook's edits, proposals and pages are as
\* the invariant says (the transactions of editing/persistence.py and finalization.py).
THEOREM InvariantHolds == Spec => []IInv
BY Initially, Inductive, PTL DEF Spec

\* No version ever contains a change that was not confirmed.
THEOREM OnlyConfirmedIsSaved == Spec => []NothingUnconfirmed
<1>1. IInv => NothingUnconfirmed  BY DEF IInv
<1> QED  BY <1>1, InvariantHolds, PTL

\* What resolve_proposal saves is what was previewed, next to its base.
THEOREM AcceptanceSavesPreview == Spec => []AcceptedIsItsPreview
<1>1. IInv => AcceptedIsItsPreview  BY DEF IInv
<1> QED  BY <1>1, InvariantHolds, PTL

\* However often an operation id is sent, execute does it once.
THEOREM ExecutedOnce == Spec => []OncePerOperation
<1>1. IInv => OncePerOperation  BY DEF IInv
<1> QED  BY <1>1, InvariantHolds, PTL

\* A proposal refused as outdated is never in a version.
THEOREM RefusedIsOut == Spec => []OutdatedStaysOut
<1>1. IInv => OutdatedStaysOut
  <2> SUFFICES ASSUME IInv, NEW o \in refused
               PROVE  result[o] = 0 /\ \A v \in Saved : o \notin content[v]
    BY DEF OutdatedStaysOut
  <2>1. o \in Majors /\ proposal[o] = "pending"
    BY DEF IInv, TypeOK, EditTypeOK, RefusedInv
  <2> QED  BY <2>1 DEF IInv, RunsInv, NothingUnconfirmed
<1> QED  BY <1>1, InvariantHolds, PTL

\* finalize leaves at most one page per version and policy open.
THEOREM OneOpenPage == Spec => []OnePagePerVersionAndPolicy
<1>1. IInv => OnePagePerVersionAndPolicy  BY DEF IInv
<1> QED  BY <1>1, InvariantHolds, PTL

\* What a token opens passed the final check.
THEOREM PagesAreSound == Spec => []SharedIsSound
<1>1. IInv => SharedIsSound
  <2> SUFFICES ASSUME IInv PROVE SharedIsSound  OBVIOUS
  <2>1. \A p \in Pages : Shared(p).snapshot \intersect Harmful = {}
    BY DEF IInv, PagesInv, Shared, NotFound, Active
  <2>2. \A p \in Pages : page[p].version <= latestFinal
    <3>1. latestFinal \in Nat  BY BookFacts DEF IInv, TypeOK, PageTypeOK
    <3> QED  BY <3>1 DEF IInv, PagesInv, Created
  <2>3. \A p \in Pages : Created(p) => page[p].version # 0  BY DEF Created
  <2>4. latestFinal = 0 <=> \A p \in Pages : ~Created(p)
    BY DEF IInv, LatestInv, Created
  <2> QED  BY <2>1, <2>2, <2>4 DEF IInv, LatestInv, SharedIsSound
<1> QED  BY <1>1, InvariantHolds, PTL

\* A step changes a page only by creating or revoking it, and saved versions
\* and existing pages only as far as that.
LEMMA SharedStep ==
  ASSUME IInv, [Next]_vars, NEW p \in Pages, Created(p)
  PROVE  Shared(p)' \in {Shared(p), NotFound}
<1>1. page[p].version \in Saved /\ deleted \in BOOLEAN
  BY DEF IInv, PagesInv, TypeOK, BookTypeOK
<1>2. content'[page[p].version] = content[page[p].version] /\ (deleted => deleted')
  <2>1. CASE UNCHANGED bookVars  BY <2>1 DEF bookVars
  <2>2. CASE SoftDelete  BY <2>2 DEF SoftDelete
  <2>3. CASE \E b \in Versions : \E c \in SUBSET Changes : Commit(b, c)
    BY <1>1, <2>3, CommitFacts
  <2>4. ASSUME EditNext PROVE UNCHANGED bookVars \/ \E b \in Versions : \E c \in SUBSET Changes : Commit(b, c)
    <3>1. ASSUME NEW r \in Requests, Execute(r)
          PROVE UNCHANGED bookVars \/ \E b \in Versions : \E c \in SUBSET Changes : Commit(b, c)
      <4>1. CASE SaveEdit(r, op[r])
        <5>1. loaded[r] \in Versions /\ content[loaded[r]] \union {op[r]} \in SUBSET Changes
          BY <3>1, <4>1, FingerprintType, ConstantFacts DEF Execute, SaveEdit
        <5> QED  BY <4>1, <5>1 DEF SaveEdit, Saves
      <4> QED  BY <3>1, <4>1 DEF Execute, FindExecuted, Propose, Proposed, EditConflicts
    <3>2. ASSUME NEW o \in Majors, Accept(o)
          PROVE \E b \in Versions : \E c \in SUBSET Changes : Commit(b, c)
      <4>1. o \in Ops /\ proposal[o] = "pending"  BY <3>2, ConstantFacts DEF Accept, MayResolve
      <4>2. base[o] \in Versions /\ preview[o] \in SUBSET Changes
        BY <4>1, BookFacts DEF IInv, ProposalsInv, TypeOK, EditTypeOK
      <4> QED  BY <3>2, <4>2 DEF Accept
    <3>3. ASSUME NEW u \in Undos, Undo(u)
          PROVE \E b \in Versions : \E c \in SUBSET Changes : Commit(b, c)
      <4>1. current > 1 /\ current \in Saved /\ current \in Versions  BY <3>3, BookFacts DEF Undo, SaveParent
      <4>2. current - 1 \in Saved  BY <4>1, BookFacts DEF Saved
      <4> QED  BY <3>3, <4>1, <4>2, BookFacts DEF Undo, SaveParent
    <3>4. ASSUME NEW x \in Others, OtherCommit(x)
          PROVE \E b \in Versions : \E c \in SUBSET Changes : Commit(b, c)
      <4>1. current \in Versions /\ content[current] \union {x} \in SUBSET Changes
        BY BookFacts, ConstantFacts
      <4> QED  BY <3>4, <4>1 DEF OtherCommit
    <3>5. ASSUME NEW o \in Majors, Reject(o) \/ RefuseOutdated(o) \/ TaskStep(o) PROVE UNCHANGED bookVars
      BY <3>5 DEF Reject, RefuseOutdated, TaskStep, Elsewhere
    <3>6. ASSUME NEW r \in Requests, NEW o, LoadCurrent(r, o) PROVE UNCHANGED bookVars
      BY <3>6 DEF LoadCurrent
    <3> QED  BY <2>4, <3>1, <3>2, <3>3, <3>4, <3>5, <3>6 DEF EditNext
  <2> QED  BY <2>1, <2>2, <2>3, <2>4 DEF Next, vars
<1>3. /\ page'[p].version = page[p].version /\ page'[p].policy = page[p].policy
      /\ page[p].revoked => page'[p].revoked
  <2>1. page \in [Pages -> [version : Versions \union {0}, policy : Policies, revoked : BOOLEAN]]
    BY DEF IInv, TypeOK, PageTypeOK
  <2>2. CASE UNCHANGED pageVars  BY <2>2 DEF pageVars
  <2>3. CASE PageNext
    <3>1. ASSUME NEW q \in Pages, Revoke(q) PROVE page' = [page EXCEPT ![q].revoked = TRUE]
      BY <3>1 DEF Revoke
    <3>2. ASSUME NEW q \in Pages, NEW v \in Versions, NEW pol \in Policies, Finalize(q, v, pol)
          PROVE q # p /\ page' = [page EXCEPT ![q] = [version |-> v, policy |-> pol, revoked |-> FALSE]]
      BY <3>2 DEF Finalize
    <3> QED  BY <2>1, <2>3, <3>1, <3>2 DEF PageNext
  <2> QED  BY <2>2, <2>3 DEF Next, vars
<1>4. page'[p].revoked \in BOOLEAN /\ deleted' \in BOOLEAN /\ page[p].revoked \in BOOLEAN
  <2>1. IInv'  BY Inductive
  <2> QED  BY <2>1 DEF IInv, TypeOK, PageTypeOK, BookTypeOK
<1> QED  BY <1>2, <1>3, <1>4 DEF Shared, Active, Created, NotFound

\* What load_shared answers for a page never changes, except to not found.
THEOREM SharedStays == Spec => SharedNeverChanges
<1>1. IInv /\ [Next]_vars => [\A p \in Pages : Created(p) => Shared(p)' \in {Shared(p), NotFound}]_<<bookVars, pageVars>>
  BY SharedStep
<1> QED  BY <1>1, InvariantHolds, PTL DEF Spec, SharedNeverChanges

\* resolve_proposal never changes a decision.
THEOREM DecisionsStay == Spec => DecisionIsFinal
<1>1. ASSUME IInv, [Next]_vars, NEW o \in Majors, proposal[o] \in {"accepted", "rejected"}
      PROVE  proposal'[o] = proposal[o]
  <2>1. EditTypeOK /\ o \in Ops
    <3>1. o \in Ops  BY ConstantFacts
    <3>2. EditTypeOK  BY <1>1 DEF IInv, TypeOK
    <3> QED  BY <3>1, <3>2
  <2>2. CASE UNCHANGED proposal  BY <2>2
  <2>3. ASSUME NEW i \in Majors, Accept(i) \/ Reject(i) PROVE proposal'[o] = proposal[o]
    <3>1. i # o  BY <1>1, <2>3 DEF Accept, Reject, MayResolve
    <3> QED  BY <2>1, <2>3, <3>1 DEF Accept, Accepted, Reject, EditTypeOK
  <2>4. ASSUME NEW r \in Requests, Execute(r) PROVE proposal'[o] = proposal[o]
    <3>1. CASE IsNew(op[r]) /\ Propose(r, op[r])
      <4>1. op[r] # o
        BY <1>1, <2>1, <3>1 DEF IsNew, IInv, RunsInv
      <4> QED  BY <2>1, <3>1, <4>1 DEF Propose, Proposed, EditTypeOK
    <3> QED  BY <2>2, <2>4, <3>1 DEF Execute, FindExecuted, EditConflicts, SaveEdit, Saves, proposalVars
  <2>5. ASSUME EditNext PROVE proposal'[o] = proposal[o]
    BY <2>2, <2>3, <2>4, <2>5 DEF EditNext, LoadCurrent, RefuseOutdated, TaskStep, Elsewhere, Undo,
       OtherCommit, editVars, proposalVars
  <2> QED  BY <1>1, <2>2, <2>5 DEF Next, vars, editVars, proposalVars
<1>2. IInv /\ [Next]_vars =>
        [\A o \in Majors : proposal[o] \in {"accepted", "rejected"} => proposal'[o] = proposal[o]]_vars
  BY <1>1
<1> QED  BY <1>2, InvariantHolds, PTL DEF Spec, DecisionIsFinal
-----------------------------------------------------------------------------
(* The routebook is an append-only history.                                *)

\* The history is a sequence as long as the number of the current version.
LEMMA HistoryType ==
  ASSUME IInv
  PROVE  /\ History \in Seq(Range(History)) /\ Len(History) = current
         /\ \A n \in Saved : History[n] = [id |-> n, run |-> Owner(n), content |-> OwnersOf(content[n])]
         /\ \A n \in Saved : /\ History[n].id = n /\ History[n].run = Owner(n)
                             /\ History[n].content = OwnersOf(content[n])
<1>1. current \in Nat  BY BookFacts
<1>2. History \in [1..current -> Range(History)]  BY DEF History, Saved, Range
<1>3. History \in Seq(Range(History))  BY <1>1, <1>2, SeqDef
<1>4. Len(History) \in Nat /\ 1..Len(History) = 1..current  BY <1>2, <1>3, LenProperties
<1>5. \A n \in Saved : History[n] = [id |-> n, run |-> Owner(n), content |-> OwnersOf(content[n])]
  BY DEF History
<1>6. ASSUME NEW n \in Saved
      PROVE  /\ History[n].id = n /\ History[n].run = Owner(n)
             /\ History[n].content = OwnersOf(content[n])
  <2>1. History[n] = [id |-> n, run |-> Owner(n), content |-> OwnersOf(content[n])]  BY <1>5
  <2> QED  BY <2>1
<1> QED  BY <1>1, <1>3, <1>4, <1>5, <1>6

\* What a decision saves with a version, as its own result or its own change.
Decides(y, c) ==
  /\ Commit(current, c)
  /\ \A o \in Ops : result'[o] = IF o = y THEN current + 1 ELSE result[o]
  /\ y \in Ops => result[y] = NoVersion
  /\ y \in Others => y \in c /\ \A v \in Saved : y \notin content[v]
  /\ \A x \in Others : x \in c => x = y \/ \E v \in Saved : x \in content[v]

\* The version m is its own, and earlier versions belong to whom they did.
LEMMA OwnersKept ==
  ASSUME IInv, ResultsSaved, NEW y \in Ops \union Others, NEW c \in SUBSET Changes, Decides(y, c),
         NEW m, m = current + 1
  PROVE  Owner(m)' = {y} /\ ResultsSaved' /\ \A n \in Saved : Owner(n)' = Owner(n) /\ y \notin Owner(n)
<1>1. /\ current' = m /\ current \in Nat /\ Saved' = Saved \union {m}
      /\ content'[m] = c /\ \A v \in Saved : content'[v] = content[v]
  BY CommitFacts DEF Decides
<1>2. Saved = 1..current /\ \A n \in Saved : n \in Nat /\ n <= current /\ n # 0 /\ n # m
  BY <1>1 DEF Saved
<1>3. Ops \intersect Others = {}  BY OpsAssumption
<1>4. \A o \in Ops : result'[o] = IF o = y THEN m ELSE result[o]  BY DEF Decides
<1>5. ASSUME NEW n \in Saved PROVE Owner(n)' = Owner(n) /\ y \notin Owner(n)
  <2>1. \A w \in 1..(n - 1) : w \in Saved  BY <1>1, <1>2
  <2>2. \A x \in Others : /\ x \in content'[n] <=> x \in content[n]
                          /\ \A w \in 1..(n - 1) : x \notin content'[w] <=> x \notin content[w]
    BY <1>1, <2>1
  <2>3. \A o \in Ops : result'[o] = n <=> result[o] = n
    BY <1>2, <1>4 DEF Decides
  <2>4. y \notin Owner(n)
    BY <1>2, <1>3 DEF Owner, Decides
  <2>5. Owner(n)' = Owner(n)
    BY <2>2, <2>3 DEF Owner
  <2> QED  BY <2>4, <2>5
<1>6. Owner(m)' = {y}
  <2>1. \A o \in Ops : result'[o] = m <=> o = y
    BY <1>1, <1>2, <1>4 DEF ResultsSaved
  <2>2. 1..(m - 1) = Saved  BY <1>1, <1>2
  <2>3. ASSUME NEW x \in Others
        PROVE  (x \in content'[m] /\ \A w \in 1..(m - 1) : x \notin content'[w]) <=> x = y
    BY <1>1, <2>2 DEF Decides
  <2> QED  BY <2>1, <2>3 DEF Owner
<1>7. ResultsSaved'
  BY <1>1, <1>4 DEF ResultsSaved
<1> QED  BY <1>5, <1>6, <1>7

\* A decision appends its version to the history, and steps that save no
\* version leave the history alone.
LEMMA DecisionAppends ==
  ASSUME IInv, IInv', ResultsSaved, NEW y \in Ops \union Others, NEW c \in SUBSET Changes, Decides(y, c)
  PROVE  Chain!Record(current + 1, {y}, OwnersOf(c)) /\ ResultsSaved'
<1>0. PICK m : m = current + 1  OBVIOUS
<1> DEFINE e == [id |-> m, run |-> {y}, content |-> OwnersOf(c)]
<1>1. /\ current' = m /\ current \in Nat /\ Saved' = Saved \union {m}
      /\ content'[m] = c /\ \A v \in Saved : content'[v] = content[v]
  BY <1>0, CommitFacts DEF Decides
<1>3. Owner(m)' = {y} /\ ResultsSaved' /\ \A n \in Saved : Owner(n)' = Owner(n) /\ y \notin Owner(n)
  BY <1>0, OwnersKept
<1>4. /\ History \in Seq(Range(History)) /\ Len(History) = current
      /\ \A n \in Saved : History[n] = [id |-> n, run |-> Owner(n), content |-> OwnersOf(content[n])]
  BY HistoryType
<1>5. \A n \in Saved' : History'[n] = [id |-> n, run |-> Owner(n)', content |-> OwnersOf(content'[n])]
  BY DEF History, OwnersOf
<1>6. History' = [n \in 1..m |-> History'[n]] /\ History = [n \in 1..current |-> History[n]]
  BY <1>1 DEF History, Saved
<1>7. Saved = 1..current /\ Saved \subseteq Saved' /\ \A n \in Saved : n # m
  <2>1. Saved = 1..current  BY DEF Saved
  <2> QED  BY <1>1, <1>0, <2>1
<1>8. \A n \in 1..current : History'[n] = History[n]
  BY <1>1, <1>3, <1>4, <1>5, <1>7
<1>9. History'[m] = e  BY <1>1, <1>3, <1>5
<1> HIDE DEF e
<1>10. History' = Append(History, e)
  BY <1>1, <1>0, <1>4, <1>6, <1>8, <1>9
<1>11. Chain!Fresh(m, {y})
  <2> SUFFICES ASSUME NEW n \in 1..current PROVE History[n].id # m /\ History[n].run # {y}
    BY <1>4 DEF Chain!Fresh
  <2>1. n # m /\ y \notin Owner(n) /\ n \in Saved  BY <1>3, <1>7
  <2> QED  BY <2>1, HistoryType
<1> QED  BY <1>0, <1>3, <1>10, <1>11 DEF Chain!Record, e

LEMMA NothingDecided ==
  ASSUME ResultsSaved, UNCHANGED <<current, content, result>>
  PROVE  UNCHANGED History /\ ResultsSaved'
<1>1. Saved' = Saved /\ \A v : Owner(v)' = Owner(v)  BY DEF Saved, Owner
<1>2. UNCHANGED History  BY <1>1 DEF History, OwnersOf
<1> QED  BY <1>1, <1>2 DEF ResultsSaved

\* The chain's names for a saved version, an operation's run and the contents.
LEMMA ChainNames ==
  ASSUME IInv, NEW y \in Ops \union Others
  PROVE  /\ {y} \in {{}} \union OwnersOf(Ops \union Others)
         /\ Chain!ContentAt(Len(History)) = OwnersOf(content[current])
         /\ OwnersOf(content[current] \union {y}) = OwnersOf(content[current]) \union {{y}}
         /\ current > 1 => Chain!ContentAt(Len(History) - 1) = OwnersOf(content[current - 1])
<1>1. current \in Nat \ {0} /\ current \in Saved /\ Len(History) = current
  BY BookFacts, HistoryType
<1>2. current > 1 => current - 1 \in Saved /\ current - 1 # 0 /\ current # 0
  BY <1>1 DEF Saved
<1>3. \A n \in Saved : History[n].content = OwnersOf(content[n])  BY HistoryType
<1>4. {y} \in OwnersOf(Ops \union Others)  BY DEF OwnersOf
<1>5. OwnersOf(content[current] \union {y}) = OwnersOf(content[current]) \union {{y}}  BY DEF OwnersOf
<1> QED  BY <1>1, <1>2, <1>3, <1>4, <1>5 DEF Chain!ContentAt

\* An edit, an acceptance or another run's commit adds its change.
LEMMA DecisionApplies ==
  ASSUME IInv, IInv', ResultsSaved, NEW y \in Ops \union Others,
         y \in Changes, Decides(y, content[current] \union {y})
  PROVE  Chain!ChainNext /\ ResultsSaved'
<1>1. content[current] \union {y} \in SUBSET Changes /\ current + 1 \in Versions
  <2>1. content[current] \union {y} \in SUBSET Changes  BY BookFacts
  <2> QED  BY <2>1, CommitFacts DEF Decides
<1>2. Chain!Record(current + 1, {y}, OwnersOf(content[current] \union {y})) /\ ResultsSaved'
  BY <1>1, DecisionAppends
<1>3. Chain!Apply(current + 1, {y})  BY <1>2, ChainNames DEF Chain!Apply
<1> QED  BY <1>1, <1>2, <1>3, ChainNames DEF Chain!ChainNext

LEMMA DecisionUndoes ==
  ASSUME IInv, IInv', ResultsSaved, NEW y \in Ops, current > 1, Decides(y, content[current - 1])
  PROVE  Chain!ChainNext /\ ResultsSaved'
<1>1. content[current - 1] \in SUBSET Changes /\ current + 1 \in Versions
  <2>1. current - 1 \in Saved  BY BookFacts DEF Saved
  <2>2. content[current - 1] \in SUBSET Changes  BY <2>1, BookFacts
  <2> QED  BY <2>2, CommitFacts DEF Decides
<1>2. Chain!Record(current + 1, {y}, OwnersOf(content[current - 1])) /\ ResultsSaved'
  BY <1>1, DecisionAppends
<1>3. Len(History) >= 2  BY HistoryType, BookFacts
<1>4. Chain!Undo(current + 1, {y})  BY <1>2, <1>3, ChainNames DEF Chain!Undo
<1> QED  BY <1>1, <1>2, <1>4, ChainNames DEF Chain!ChainNext

\* Which step of the history each transaction takes.
LEMMA SaveEditRefines ==
  ASSUME IInv, IInv', ResultsSaved, NEW r \in Requests, at[r] = "loaded", IsNew(op[r]), SaveEdit(r, op[r])
  PROVE  Chain!ChainNext /\ ResultsSaved'
<1> DEFINE o == op[r]
<1>1. /\ o \in Edits /\ loaded[r] = current /\ Commit(current, content[current] \union {o})
      /\ result' = [result EXCEPT ![o] = current + 1] /\ run[o] = "none"
  BY DEF SaveEdit, Saves, Commit, IsNew
<1>2. o \in Ops /\ o \in Changes /\ o \notin Others  BY <1>1, OpsAssumption, ConstantFacts
<1>3. result \in [Ops -> Versions \union {0}] /\ result[o] = 0
  BY <1>1, <1>2 DEF IInv, TypeOK, EditTypeOK, RunsInv
<1>4. \A i \in Ops : result'[i] = IF i = o THEN current + 1 ELSE result[i]  BY <1>1, <1>2, <1>3
<1> HIDE DEF o
<1>5. Decides(o, content[current] \union {o})
  BY <1>1, <1>2, <1>3, <1>4, BookFacts DEF Decides
<1> QED  BY <1>2, <1>5, DecisionApplies

LEMMA AcceptRefines ==
  ASSUME IInv, IInv', ResultsSaved, NEW o \in Majors, Accept(o)
  PROVE  Chain!ChainNext /\ ResultsSaved'
<1>1. /\ proposal[o] = "pending" /\ base[o] = current /\ Commit(current, preview[o])
      /\ result' = [result EXCEPT ![o] = current + 1]
  BY DEF Accept, Accepted, MayResolve
<1>2. o \in Ops /\ o \in Changes /\ o \notin Others  BY ConstantFacts
<1>3. result \in [Ops -> Versions \union {0}] /\ result[o] = 0
  BY <1>1, <1>2 DEF IInv, TypeOK, EditTypeOK, RunsInv
<1>4. preview[o] = content[current] \union {o}  BY <1>1, <1>2 DEF IInv, ProposalsInv
<1>5. \A i \in Ops : result'[i] = IF i = o THEN current + 1 ELSE result[i]  BY <1>1, <1>2, <1>3
<1>6. Decides(o, content[current] \union {o})
  BY <1>1, <1>2, <1>3, <1>4, <1>5, BookFacts DEF Decides
<1> QED  BY <1>2, <1>6, DecisionApplies

LEMMA UndoRefines ==
  ASSUME IInv, IInv', ResultsSaved, NEW o \in Undos, Undo(o)
  PROVE  Chain!ChainNext /\ ResultsSaved'
<1>1. /\ current > 1 /\ Commit(current, content[current - 1]) /\ current' = current + 1
      /\ result' = [result EXCEPT ![o] = current + 1] /\ run[o] = "none"
  BY DEF Undo, SaveParent, Commit
<1>2. o \in Ops /\ o \notin Others  BY OpsAssumption, ConstantFacts
<1>3. result \in [Ops -> Versions \union {0}] /\ result[o] = 0
  BY <1>1, <1>2 DEF IInv, TypeOK, EditTypeOK, RunsInv
<1>4. \A i \in Ops : result'[i] = IF i = o THEN current + 1 ELSE result[i]  BY <1>1, <1>2, <1>3
<1>5. current - 1 \in Saved  BY <1>1, BookFacts DEF Saved
<1>6. Decides(o, content[current - 1])
  BY <1>1, <1>2, <1>3, <1>4, <1>5 DEF Decides
<1> QED  BY <1>1, <1>2, <1>6, DecisionUndoes

LEMMA OtherRefines ==
  ASSUME IInv, IInv', ResultsSaved, NEW x \in Others, OtherCommit(x)
  PROVE  Chain!ChainNext /\ ResultsSaved'
<1>1. /\ \A v \in Saved : x \notin content[v]
      /\ Commit(current, content[current] \union {x}) /\ result' = result
  BY DEF OtherCommit, editVars, proposalVars
<1>2. x \notin Ops /\ x \in Changes  BY OpsAssumption, ConstantFacts
<1>3. Decides(x, content[current] \union {x})
  BY <1>1, <1>2, BookFacts DEF Decides
<1> QED  BY <1>2, <1>3, DecisionApplies

\* The routebook starts with its first version, which no decision made.
LEMMA StartsFounded == Init => Chain!Founded /\ ResultsSaved
<1> SUFFICES ASSUME Init PROVE Chain!Founded /\ ResultsSaved  OBVIOUS
<1>1. /\ current = 1 /\ 1 \in Versions /\ content[1] = {} /\ Saved = {1}
      /\ \A o \in Ops : result[o] = 0
  BY ConstantFacts DEF Init, BookInit, EditInit, Saved
<1>2. Owner(1) = {}  BY <1>1 DEF Owner
<1>3. OwnersOf(content[1]) = {}  BY <1>1 DEF OwnersOf
<1>4. History = [v \in 1..1 |-> [id |-> 1, run |-> {}, content |-> {}]]
  BY <1>1, <1>2, <1>3 DEF History
<1>5. History = <<[id |-> 1, run |-> {}, content |-> {}]>>  BY <1>4
<1>6. Chain!Founded  BY <1>1, <1>5 DEF Chain!Founded
<1> QED  BY <1>1, <1>6 DEF ResultsSaved

LEMMA StepRefines ==
  ASSUME IInv, IInv', ResultsSaved, [Next]_vars
  PROVE  (Chain!ChainNext \/ UNCHANGED History) /\ ResultsSaved'
<1>1. CASE UNCHANGED <<current, content, result>>  BY <1>1, NothingDecided
<1>2. ASSUME NEW r \in Requests, Execute(r)
      PROVE  (Chain!ChainNext /\ ResultsSaved') \/ UNCHANGED <<current, content, result>>
  <2>1. CASE IsNew(op[r]) /\ SaveEdit(r, op[r])  BY <1>2, <2>1, SaveEditRefines DEF Execute
  <2> QED
    BY <1>2, <2>1 DEF Execute, FindExecuted, Propose, Proposed, EditConflicts, bookVars, proposalVars
<1>3. ASSUME NEW r \in Requests, NEW o, LoadCurrent(r, o) PROVE UNCHANGED <<current, content, result>>
  BY <1>3 DEF LoadCurrent, bookVars, proposalVars
<1>4. ASSUME NEW o \in Majors, Reject(o) \/ RefuseOutdated(o) \/ TaskStep(o)
      PROVE  UNCHANGED <<current, content, result>>
  BY <1>4 DEF Reject, RefuseOutdated, TaskStep, Elsewhere, bookVars
<1>5. CASE EditNext
  BY <1>1, <1>2, <1>3, <1>4, <1>5, AcceptRefines, UndoRefines, OtherRefines DEF EditNext
<1>6. ~EditNext => UNCHANGED <<current, content, result>>
  BY DEF Next, SoftDelete, vars, bookVars, editVars, proposalVars
<1> QED  BY <1>1, <1>5, <1>6

\* Whatever resolve_proposal, execute, undo_latest and other runs commit, the
\* versions of the routebook are those of an append-only history to which
\* every decision adds once.
THEOREM DecisionsFollowChain == Spec => FollowsChain
<1>1. IInv /\ IInv' /\ ResultsSaved /\ [Next]_vars => [Chain!ChainNext]_History /\ ResultsSaved'
  BY StepRefines
<1>2. Init => Chain!Founded /\ ResultsSaved  BY StartsFounded
<1> QED  BY <1>1, <1>2, InvariantHolds, PTL DEF Spec, FollowsChain, Chain!FoundedSpec
=============================================================================
