----------------------- MODULE Recommendations_proofs ------------------------
(***************************************************************************)
(* Proofs about Recommendations, for any places, catalogue, requirements,  *)
(* weather, tasks and requests: what was refused stays away, a batch       *)
(* follows the requirements it is stored under, a decision is final, and   *)
(* what is selected is as long and as varied as it can be.                 *)
(*                                                                         *)
(* IInv is inductive: it says what a search knows, at each of its steps,   *)
(* of the decisions and the requirements, and what a batch keeps of it.    *)
(***************************************************************************)
EXTENDS Recommendations, SequenceTheorems, FiniteSetTheorems, WellFoundedInduction, TLAPS

Decisions == [status : {"proposed", "accepted"} \union Verdicts, far : BOOLEAN]

\* What a batch keeps of the search it came from.
IsBatch(batch) ==
  /\ DOMAIN batch = {"base", "known", "far", "suburban", "proposals"}
  /\ batch.far \in BOOLEAN /\ batch.suburban \in BOOLEAN
  /\ DOMAIN batch.proposals \subseteq Known
  /\ batch.proposals \in [DOMAIN batch.proposals -> Decisions]
  /\ batch.known \cap DOMAIN batch.proposals = {}
  /\ batch.far => ~batch.suburban

\* ... and of the requirements it was stored under.
Follows(batch, requirements) ==
  /\ DOMAIN batch.proposals \cap requirements.excluded = {}
  /\ batch.suburban => requirements.suburban

BatchesInv ==
  /\ versions \in Seq(Wishes) /\ Current > 0
  /\ DOMAIN batches = 1..Len(batches) /\ Len(batches) \in Nat
  /\ \A i \in DOMAIN batches :
       /\ IsBatch(batches[i])
       /\ batches[i].base \in 1..Current /\ Follows(batches[i], versions[batches[i].base])
       /\ \A j \in DOMAIN batches : j < i => batches[j].base <= batches[i].base

Asked(job) ==
  /\ DOMAIN job = {"pc", "limit", "known", "far"}
  /\ job.limit \in 1..30
  /\ job.known \subseteq Refused /\ job.far \in BOOLEAN /\ (job.far => TooFar)

Loaded(job) ==
  /\ DOMAIN job = {"pc", "limit", "known", "far", "base", "feedback"}
  /\ job.limit \in 1..30 /\ job.base \in 1..Current
  /\ job.known \subseteq Refused /\ job.far \in BOOLEAN /\ (job.far => TooFar)
  /\ DOMAIN job.feedback = {"refused", "tooFar"}
  /\ job.known \subseteq job.feedback.refused /\ job.feedback.tooFar \in BOOLEAN
  /\ job.far => job.feedback.tooFar

Found(job) ==
  /\ DOMAIN job = {"pc", "limit", "known", "far", "base", "strategy", "ranked", "chosen"}
  /\ job.limit \in 1..30 /\ job.base \in 1..Current
  /\ job.known \subseteq Refused /\ job.far \in BOOLEAN /\ (job.far => TooFar)
  /\ job.strategy.suburban \in BOOLEAN
  /\ job.far => ~job.strategy.suburban
  /\ job.strategy.suburban => versions[job.base].suburban
  /\ job.known \cap ToSet(job.ranked) = {} /\ ToSet(job.ranked) \subseteq Known
  /\ versions[job.base].excluded \cap ToSet(job.ranked) = {}
  /\ ToSet(job.chosen) \subseteq ToSet(job.ranked)
  /\ Diverse(job.ranked, job.chosen, job.strategy, job.limit)

SearchesInv ==
  /\ DOMAIN search = Tasks \union Requests
  /\ \A s \in DOMAIN search :
       \/ search[s] = Idle
       \/ search[s].pc = "asked"  /\ Asked(search[s])
       \/ search[s].pc = "loaded" /\ Loaded(search[s])
       \/ search[s].pc = "found"  /\ Found(search[s])

IInv == BatchesInv /\ SearchesInv
-----------------------------------------------------------------------------
LEMMA InitIInv == Init => IInv
BY DEF Init, IInv, BatchesInv, SearchesInv, Current, Idle

\* More requirements: those of the versions so far stay what they were.
LEMMA VersionsGrow ==
  ASSUME versions \in Seq(Wishes), NEW w \in Wishes, versions' = Append(versions, w)
  PROVE  /\ versions' \in Seq(Wishes) /\ Current' = Current + 1 /\ Current \in Nat
         /\ \A k \in 1..Current : versions'[k] = versions[k]
BY DEF Current

LEMMA ReviseKeeps == IInv /\ Revise => IInv'
<1> SUFFICES ASSUME IInv, Revise PROVE IInv'
  OBVIOUS
<1> USE DEF IInv
<1>1. batches' = batches /\ search' = search /\ Refused' = Refused /\ TooFar' = TooFar
  BY DEF Revise, Refused, TooFar
<1>2. /\ versions' \in Seq(Wishes) /\ Current' = Current + 1 /\ Current \in Nat
      /\ \A k \in 1..Current : versions'[k] = versions[k]
  BY VersionsGrow DEF Revise, BatchesInv
<1>3. BatchesInv'
  BY <1>1, <1>2 DEF BatchesInv
<1>4. SearchesInv'
  <2> SUFFICES ASSUME NEW s \in DOMAIN search
               PROVE  \/ search[s] = Idle
                      \/ search[s].pc = "asked"  /\ Asked(search[s])'
                      \/ search[s].pc = "loaded" /\ Loaded(search[s])'
                      \/ search[s].pc = "found"  /\ Found(search[s])'
    BY <1>1 DEF SearchesInv
  <2>1. CASE search[s].pc = "asked" /\ Asked(search[s])
    BY <1>1, <2>1 DEF Asked
  <2>2. CASE search[s].pc = "loaded" /\ Loaded(search[s])
    BY <1>1, <1>2, <2>2 DEF Loaded
  <2>3. CASE search[s].pc = "found" /\ Found(search[s])
    BY <1>1, <1>2, <2>3 DEF Found
  <2> QED  BY <2>1, <2>2, <2>3 DEF SearchesInv
<1> QED  BY <1>3, <1>4

\* A step of one search, which may ask or find but touches neither the requirements
\* nor a batch.
LEMMA OneSearch ==
  ASSUME IInv, NEW s \in Tasks \union Requests, NEW job,
         search' = [search EXCEPT ![s] = job],
         UNCHANGED <<versions, batches>>,
         \/ job = Idle
         \/ job.pc = "asked" /\ Asked(job)
         \/ job.pc = "loaded" /\ Loaded(job)
         \/ job.pc = "found" /\ Found(job)
  PROVE  IInv'
<1> USE DEF IInv
<1>1. Current' = Current /\ Refused' = Refused /\ TooFar' = TooFar
  BY DEF Current, Refused, TooFar
<1>2. BatchesInv'
  BY <1>1 DEF BatchesInv
<1>3. \A k : (Asked(k) <=> Asked(k)') /\ (Loaded(k) <=> Loaded(k)') /\ (Found(k) <=> Found(k)')
  BY <1>1 DEF Asked, Loaded, Found
<1>4. DOMAIN search' = DOMAIN search /\ \A r \in DOMAIN search' : search'[r] = IF r = s THEN job ELSE search[r]
  BY DEF SearchesInv
<1>5. SearchesInv'
  BY <1>3, <1>4 DEF SearchesInv
<1> QED  BY <1>2, <1>5

LEMMA GenerateKeeps == ASSUME NEW s PROVE IInv /\ Generate(s) => IInv'
<1> SUFFICES ASSUME IInv, Generate(s) PROVE IInv'
  OBVIOUS
<1>1. PICK limit \in Limits :
        search' = [search EXCEPT ![s] =
          [pc |-> "asked", limit |-> limit, known |-> Refused, far |-> TooFar]]
  BY DEF Generate
<1> DEFINE job == [pc |-> "asked", limit |-> limit, known |-> Refused, far |-> TooFar]
<1>2. job.pc = "asked" /\ Asked(job)
  BY RequestsAssumption DEF Asked, TooFar
<1>3. s \in Tasks \union Requests /\ UNCHANGED <<versions, batches>> /\ search' = [search EXCEPT ![s] = job]
  BY <1>1 DEF Generate
<1> HIDE DEF job
<1> QED  BY <1>2, <1>3, OneSearch

LEMMA AskedJob ==
  ASSUME IInv, NEW s \in Tasks \union Requests, search[s].pc = "asked"
  PROVE  Asked(search[s])
BY DEF IInv, SearchesInv, Idle

LEMMA LoadedJob ==
  ASSUME IInv, NEW s \in Tasks \union Requests, search[s].pc = "loaded"
  PROVE  Loaded(search[s])
BY DEF IInv, SearchesInv, Idle

LEMMA FoundJob ==
  ASSUME IInv, NEW s \in Tasks \union Requests, search[s].pc = "found"
  PROVE  Found(search[s])
BY DEF IInv, SearchesInv, Idle

LEMMA LoadKeeps == ASSUME NEW s \in Tasks \union Requests PROVE IInv /\ Load(s) => IInv'
<1> SUFFICES ASSUME IInv, Load(s) PROVE IInv'
  OBVIOUS
<1> DEFINE job == [pc |-> "loaded", limit |-> search[s].limit, known |-> search[s].known,
                   far |-> search[s].far, base |-> Current, feedback |-> feedback_history]
<1>1. Asked(search[s])  BY AskedJob DEF Load
<1>2. Current \in 1..Current  BY DEF IInv, BatchesInv, Current
<1>3. job.pc = "loaded" /\ Loaded(job)
  BY <1>1, <1>2 DEF Asked, Loaded, feedback_history, TooFar
<1>4. UNCHANGED <<versions, batches>> /\ search' = [search EXCEPT ![s] = job]
  BY DEF Load
<1> HIDE DEF job
<1> QED  BY <1>3, <1>4, OneSearch

LEMMA GiveUpKeeps == ASSUME NEW s \in Tasks \union Requests PROVE IInv /\ GiveUp(s) => IInv'
<1> SUFFICES ASSUME IInv, GiveUp(s) PROVE IInv'
  OBVIOUS
<1>1. CASE search' = [search EXCEPT ![s] = Idle]
  BY <1>1, OneSearch DEF GiveUp
<1>2. CASE /\ search[s].pc \in {"loaded", "found"}
           /\ search' = [search EXCEPT ![s] =
                [pc |-> "asked", limit |-> search[s].limit, known |-> search[s].known, far |-> search[s].far]]
  <2> DEFINE job == [pc |-> "asked", limit |-> search[s].limit, known |-> search[s].known, far |-> search[s].far]
  <2>1. Loaded(search[s]) \/ Found(search[s])  BY <1>2, LoadedJob, FoundJob
  <2>2. job.pc = "asked" /\ Asked(job)  BY <2>1 DEF Loaded, Found, Asked
  <2>3. UNCHANGED <<versions, batches>> /\ search' = [search EXCEPT ![s] = job]
    BY <1>2 DEF GiveUp
  <2> HIDE DEF job
  <2> QED  BY <2>2, <2>3, OneSearch
<1> QED  BY <1>1, <1>2 DEF GiveUp

\* Every batch stays, with its places, and a decided one with its decision.
Kept ==
  \A i \in DOMAIN batches :
    /\ i \in DOMAIN batches'
    /\ \A p \in DOMAIN batches[i].proposals :
         /\ p \in DOMAIN batches'[i].proposals
         /\ batches[i].proposals[p].status # "proposed" =>
              batches'[i].proposals[p] = batches[i].proposals[p]

LEMMA RefusalsStay ==
  ASSUME Kept PROVE Refused \subseteq Refused' /\ (TooFar => TooFar')
BY DEF Kept, Refused, TooFar, Verdicts

\* Searches go on whatever is decided or stored, except the one that did it.
LEMMA SearchesGoOn ==
  ASSUME IInv, Kept, versions' = versions,
         NEW s \in Tasks \union Requests, NEW job,
         search' = [search EXCEPT ![s] = job],
         job = Idle \/ (job.pc = "asked" /\ Asked(job)')
  PROVE  SearchesInv'
<1>1. Refused \subseteq Refused' /\ (TooFar => TooFar')  BY RefusalsStay
<1>2. Current' = Current  BY DEF Current
<1>3. \A k : (Asked(k) => Asked(k)') /\ (Loaded(k) => Loaded(k)') /\ (Found(k) => Found(k)')
  BY <1>1, <1>2 DEF Asked, Loaded, Found
<1>4. /\ DOMAIN search = Tasks \union Requests /\ DOMAIN search' = DOMAIN search
      /\ \A r \in DOMAIN search' : search'[r] = IF r = s THEN job ELSE search[r]
  BY DEF IInv, SearchesInv
<1> QED  BY <1>3, <1>4 DEF IInv, SearchesInv

LEMMA SearchesUntouched ==
  ASSUME IInv, Kept, versions' = versions, search' = search
  PROVE  SearchesInv'
<1>1. Refused \subseteq Refused' /\ (TooFar => TooFar')  BY RefusalsStay
<1>2. Current' = Current  BY DEF Current
<1>3. \A k : (Asked(k) => Asked(k)') /\ (Loaded(k) => Loaded(k)') /\ (Found(k) => Found(k)')
  BY <1>1, <1>2 DEF Asked, Loaded, Found
<1> QED  BY <1>3 DEF IInv, SearchesInv

LEMMA StoredBatch ==
  ASSUME IInv, NEW s \in Tasks \union Requests, Save(s)
  PROVE  BatchesInv' /\ Kept
<1>1. CASE batches' = batches
  BY <1>1 DEF Save, IInv, BatchesInv, Kept, Current
<1>2. CASE search[s].base = Current /\ batches' # batches
  <2> DEFINE batch == [base |-> search[s].base, known |-> search[s].known, far |-> search[s].far,
                       suburban |-> search[s].strategy.suburban,
                       proposals |-> [p \in ToSet(search[s].chosen) |-> Proposed]]
             n     == Len(batches)
  <2>1. Found(search[s])  BY FoundJob DEF Save
  <2>2. versions' = versions /\ Current' = Current /\ batches' = Append(batches, batch)
    BY <1>2 DEF Save, Stored, Current
  <2>3. IsBatch(batch)
    <3>1. Proposed \in Decisions  BY DEF Proposed, Decisions
    <3> QED  BY <2>1, <3>1 DEF IsBatch, Found
  <2>4. Follows(batch, versions[batch.base])
    BY <2>1 DEF Follows, Found
  <2>5. batch.base = Current /\ Current \in 1..Current /\ Current \in Nat
    BY <1>2 DEF IInv, BatchesInv, Current
  <2> HIDE DEF batch
  <2>6. /\ DOMAIN batches = 1..n /\ n \in Nat /\ DOMAIN batches' = 1..Len(batches') /\ Len(batches') = n + 1
        /\ batches'[n + 1] = batch /\ \A i \in 1..n : batches'[i] = batches[i]
    BY <2>2 DEF IInv, BatchesInv
  <2> HIDE DEF n
  <2>7. ASSUME NEW i \in 1..n + 1
        PROVE  /\ IsBatch(batches'[i])
               /\ batches'[i].base \in 1..Current /\ Follows(batches'[i], versions[batches'[i].base])
               /\ \A j \in 1..n + 1 : j < i => batches'[j].base <= batches'[i].base
    <3>1. CASE i = n + 1
      <4>1. \A j \in 1..n : batches[j].base \in 1..Current  BY <2>6 DEF IInv, BatchesInv
      <4> QED  BY <2>3, <2>4, <2>5, <2>6, <3>1, <4>1
    <3>2. CASE i \in 1..n
      <4>1. /\ IsBatch(batches[i])
            /\ batches[i].base \in 1..Current /\ Follows(batches[i], versions[batches[i].base])
            /\ \A j \in 1..n : j < i => batches[j].base <= batches[i].base
        BY <2>6, <3>2 DEF IInv, BatchesInv
      <4>2. \A j \in 1..n + 1 : j < i => j \in 1..n  BY <2>6, <3>2
      <4> QED  BY <2>6, <3>2, <4>1, <4>2
    <3> QED  BY <2>6, <3>1, <3>2
  <2>8. BatchesInv'
    BY <2>2, <2>6, <2>7 DEF IInv, BatchesInv
  <2>9. Kept
    BY <2>6 DEF Kept
  <2> QED  BY <2>8, <2>9
<1> QED  BY <1>1, <1>2 DEF Save, Stored

LEMMA SaveKeeps == ASSUME NEW s \in Tasks \union Requests PROVE IInv /\ Save(s) => IInv'
BY StoredBatch, SearchesGoOn DEF Save, IInv

\* A decision changes one proposal of one batch, and only one that was open.
LEMMA DecidedBatch ==
  ASSUME IInv, NEW i \in DOMAIN batches, NEW p \in DOMAIN batches[i].proposals,
         NEW status \in {"accepted"} \union Verdicts, NEW far \in BOOLEAN,
         Decides(i, p, status, far), versions' = versions
  PROVE  BatchesInv' /\ Kept
<1>1. CASE batches' = batches
  BY <1>1 DEF IInv, BatchesInv, Kept, Current
<1>2. CASE /\ batches[i].proposals[p].status = "proposed"
           /\ batches' = [batches EXCEPT ![i].proposals[p] = [status |-> status, far |-> far]]
  <2> DEFINE decision == [status |-> status, far |-> far]
             n        == Len(batches)
  <2>1. decision \in Decisions  BY DEF Decisions
  <2>2. DOMAIN batches = 1..n /\ n \in Nat  BY DEF IInv, BatchesInv
  <2>3. IsBatch(batches[i])  BY DEF IInv, BatchesInv
  <2>4. /\ DOMAIN batches' = 1..n
        /\ \A j \in 1..n : j # i => batches'[j] = batches[j]
        /\ DOMAIN batches'[i] = DOMAIN batches[i]
        /\ batches'[i].base = batches[i].base /\ batches'[i].known = batches[i].known
        /\ batches'[i].far = batches[i].far /\ batches'[i].suburban = batches[i].suburban
        /\ batches'[i].proposals = [batches[i].proposals EXCEPT ![p] = decision]
    BY <1>2, <2>2, <2>3 DEF IsBatch
  <2>5. Len(batches') = n
    BY <1>2, <2>2, <2>4, LenProperties
  <2>6. IsBatch(batches'[i])
    <3> HIDE DEF decision
    <3>1. /\ DOMAIN batches'[i].proposals = DOMAIN batches[i].proposals
          /\ batches'[i].proposals \in [DOMAIN batches[i].proposals -> Decisions]
      BY <2>1, <2>3, <2>4 DEF IsBatch
    <3> QED  BY <2>3, <2>4, <3>1 DEF IsBatch
  <2>7. \A r : Follows(batches[i], r) => Follows(batches'[i], r)
    BY <2>4 DEF Follows
  <2>8. Kept
    <3> HIDE DEF decision
    <3>1. \A q \in DOMAIN batches[i].proposals :
             /\ q \in DOMAIN batches'[i].proposals
             /\ q # p => batches'[i].proposals[q] = batches[i].proposals[q]
      BY <2>4
    <3> QED  BY <1>2, <2>2, <2>4, <3>1 DEF Kept
  <2>9. BatchesInv'
    <3> HIDE DEF decision, n
    <3>1. \A j \in 1..n : batches'[j].base = batches[j].base  BY <2>4
    <3>2. \A j \in 1..n : IsBatch(batches'[j]) /\ \A r : Follows(batches[j], r) => Follows(batches'[j], r)
      BY <2>2, <2>4, <2>6, <2>7 DEF IInv, BatchesInv
    <3> QED  BY <2>2, <2>4, <2>5, <3>1, <3>2 DEF IInv, BatchesInv, Current
  <2> QED  BY <2>8, <2>9
<1> QED  BY <1>1, <1>2 DEF Decides

LEMMA DecideKeeps ==
  ASSUME NEW i \in DOMAIN batches, NEW p \in DOMAIN batches[i].proposals
  PROVE  IInv /\ Decide(i, p) => IInv' /\ Kept
<1> SUFFICES ASSUME IInv, Decide(i, p) PROVE IInv' /\ Kept
  OBVIOUS
<1>1. PICK status \in {"accepted", "rejected"}, far \in BOOLEAN : Decides(i, p, status, far)
  BY DEF Decide
<1>2. BatchesInv' /\ Kept
  BY <1>1, DecidedBatch DEF Decide, Verdicts
<1>3. SearchesInv'
  BY <1>2, SearchesUntouched DEF Decide
<1> QED  BY <1>2, <1>3 DEF IInv

LEMMA ReplaceKeeps ==
  ASSUME NEW i \in DOMAIN batches, NEW p \in DOMAIN batches[i].proposals, NEW s \in Requests
  PROVE  IInv /\ Replace(s, i, p) => IInv' /\ Kept
<1> SUFFICES ASSUME IInv, Replace(s, i, p) PROVE IInv' /\ Kept
  OBVIOUS
<1>1. PICK far \in BOOLEAN : Decides(i, p, "replaced", far)
  BY DEF Replace
<1>2. BatchesInv' /\ Kept
  BY <1>1, DecidedBatch DEF Replace, Verdicts
<1>3. PICK refused, tooFar : refused = Refused' /\ tooFar = TooFar'
  OBVIOUS
<1> DEFINE job == [pc |-> "asked", limit |-> ReplaceLimit, known |-> refused, far |-> tooFar]
<1>4. job.pc = "asked" /\ Asked(job)'
  BY <1>3 DEF Asked, TooFar, ReplaceLimit
<1>5. search' = [search EXCEPT ![s] = job] /\ versions' = versions /\ s \in Tasks \union Requests
  BY <1>3 DEF Replace
<1> HIDE DEF job
<1>6. SearchesInv'
  BY <1>2, <1>4, <1>5, SearchesGoOn
<1> QED  BY <1>2, <1>6 DEF IInv
-----------------------------------------------------------------------------
(* The selection.  A pass over the ranked places is a fold, that is, the    *)
(* last of a chain of sequences, each made from the one before it.          *)

\* Every set of natural numbers that has an element has a least one.
LEMMA LeastNumber ==
  ASSUME NEW T \in SUBSET Nat, T # {}
  PROVE  \E m \in T : \A n \in T : m <= n
<1> DEFINE R == OpToRel(<, Nat)
<1>1. IsWellFoundedOn(R, Nat)  BY NatLessThanWellFounded
<1>2. \A m, n \in Nat : m < n => <<m, n>> \in R  BY DEF OpToRel
<1> HIDE DEF R
<1>3. PICK m \in T : \A n \in T : ~(<<n, m>> \in R)  BY <1>1, WFMin
<1>4. ASSUME NEW n \in T PROVE m <= n
  <2>1. m \in Nat /\ n \in Nat /\ ~(<<n, m>> \in R)  BY <1>3
  <2> QED  BY <1>2, <2>1
<1> QED  BY <1>4

\* ... and so has every set of numbers up to n a greatest one.
LEMMA GreatestNumber ==
  ASSUME NEW n \in Nat, NEW T \in SUBSET (1..n), T # {}
  PROVE  Max(T) \in T /\ \A y \in T : y <= Max(T)
<1> DEFINE below == { n - x : x \in T }
<1>0. \A x \in T : x \in 1..n
  OBVIOUS
<1>1. below \in SUBSET Nat /\ below # {}
  <2>1. \A x \in 1..n : n - x \in Nat  OBVIOUS
  <2> QED  BY <1>0, <2>1
<1>2. PICK least \in below : \A y \in below : least <= y
  <2> HIDE DEF below
  <2> QED  BY <1>1, LeastNumber
<1>3. PICK x \in T : least = n - x
  OBVIOUS
<1>4. ASSUME NEW y \in T PROVE x >= y
  <2>1. n - x <= n - y  BY <1>2, <1>3
  <2>2. x \in 1..n /\ y \in 1..n  BY <1>0
  <2> QED  BY <2>1, <2>2
<1>5. \E z \in T : \A y \in T : z >= y
  BY <1>4
<1>6. Max(T) \in T /\ \A y \in T : Max(T) >= y
  BY <1>5 DEF Max
<1>7. Max(T) \in 1..n  BY <1>0, <1>6
<1> QED  BY <1>0, <1>6, <1>7

\* A function of sets of numbers up to m that folds their elements, the greatest last.
IsFold(iter, S, b, m, F) ==
  /\ iter \in [SUBSET (1..m) -> S]
  /\ \A s \in SUBSET (1..m) :
       iter[s] = IF s = {} THEN b ELSE F[<<iter[s \ {Max(s)}], Max(s)>>]

\* It exists, for one m after the other.
LEMMA FoldExists ==
  ASSUME NEW S, NEW b \in S, NEW n \in Nat, NEW F \in [S \X (1..n) -> S]
  PROVE  \E iter : IsFold(iter, S, b, n, F)
<1> DEFINE Folds(iter, m) ==
             /\ iter \in [SUBSET (1..m) -> S]
             /\ \A s \in SUBSET (1..m) :
                  iter[s] = IF s = {} THEN b ELSE F[<<iter[s \ {Max(s)}], Max(s)>>]
           missing == { m \in 0..n : ~ \E iter : Folds(iter, m) }
<1>1. ASSUME NEW m \in missing, \A k \in missing : m <= k
      PROVE  FALSE
  <2>1. CASE m = 0
    <3> DEFINE none == [s \in SUBSET (1..0) |-> b]
    <3>1. Folds(none, 0)
      <4>1. \A s \in SUBSET (1..0) : s = {}  OBVIOUS
      <4>2. none \in [SUBSET (1..0) -> S]  OBVIOUS
      <4>3. \A s \in SUBSET (1..0) : none[s] = b  OBVIOUS
      <4> HIDE DEF none
      <4> QED  BY <4>1, <4>2, <4>3
    <3> HIDE DEF none, Folds
    <3> QED  BY <1>1, <2>1, <3>1
  <2>2. CASE m > 0
    <3> DEFINE l == m - 1
    <3>1. l \in 0..n /\ l \in Nat /\ m \in 1..n /\ l < m /\ m = l + 1  BY <2>2
    <3>2. PICK iter : Folds(iter, l)
      <4>1. ~(m <= l)  BY <3>1
      <4>2. l \notin missing  BY <1>1, <4>1
      <4> HIDE DEF Folds, l
      <4> QED  BY <3>1, <4>2
    <3> DEFINE more == [s \in SUBSET (1..m) |-> IF m \in s THEN F[<<iter[s \ {m}], m>>] ELSE iter[s]]
    <3>3. \A s \in SUBSET (1..m) : s \ {m} \in SUBSET (1..l)  BY <3>1
    <3>4. \A s \in SUBSET (1..m) : m \notin s => s \in SUBSET (1..l)  BY <3>1
    <3>5. \A s \in SUBSET (1..m) : more[s] \in S
      BY <3>1, <3>2, <3>3, <3>4
    <3>6. ASSUME NEW s \in SUBSET (1..m)
          PROVE  more[s] = IF s = {} THEN b ELSE F[<<more[s \ {Max(s)}], Max(s)>>]
      <4>1. CASE m \in s
        <5>1. m \in Nat /\ s # {}  BY <3>1, <4>1
        <5>2. Max(s) \in s /\ m <= Max(s)  BY <4>1, <5>1, GreatestNumber
        <5>3. Max(s) \in 1..m  BY <5>2
        <5>4. Max(s) = m  BY <3>1, <5>2, <5>3
        <5>5. s \ {m} \in SUBSET (1..m) /\ more[s \ {m}] = iter[s \ {m}]  OBVIOUS
        <5> QED  BY <4>1, <5>1, <5>4, <5>5
      <4>2. CASE m \notin s
        <5>1. s \in SUBSET (1..l) /\ s \ {Max(s)} \in SUBSET (1..m) /\ m \notin s \ {Max(s)}
          BY <3>4, <4>2
        <5>2. more[s] = iter[s] /\ more[s \ {Max(s)}] = iter[s \ {Max(s)}]
          BY <4>2, <5>1
        <5> QED  BY <3>2, <5>1, <5>2
      <4> QED  BY <4>1, <4>2
    <3> HIDE DEF l
    <3>7. more \in [SUBSET (1..m) -> S]  BY <3>5
    <3> HIDE DEF more
    <3>8. Folds(more, m)  BY <3>6, <3>7
    <3> QED  BY <1>1, <3>8
  <2> QED  BY <1>1, <2>1, <2>2
<1>2. missing = {}
  <2>1. missing \in SUBSET Nat  OBVIOUS
  <2> HIDE DEF missing
  <2> QED  BY <1>1, <2>1, LeastNumber
<1>3. \E iter : Folds(iter, n)
  <2> HIDE DEF Folds
  <2>1. n \in 0..n  OBVIOUS
  <2>2. \A m \in 0..n : \E iter : Folds(iter, m)  BY <1>2
  <2> QED  BY <2>1, <2>2
<1> QED  BY <1>3 DEF IsFold

\* A pass goes through the ranked places one by one.
Step(start, chosen, p, strategy, limit, relaxed) ==
  IF Len(chosen) < limit /\ p \notin ToSet(start) /\ (relaxed \/ ~Full(chosen, p, strategy))
  THEN Append(chosen, p) ELSE chosen

IsPass(c, start, ranked, strategy, limit, relaxed) ==
  /\ c \in [0..Len(ranked) -> Seq(Known)]
  /\ c[0] = start /\ c[Len(ranked)] = Pass(start, ranked, strategy, limit, relaxed)
  /\ \A k \in 1..Len(ranked) :
       c[k] = Step(start, c[k - 1], ranked[k], strategy, limit, relaxed)

LEMMA PassSteps ==
  ASSUME NEW ranked \in Seq(Known), NEW start \in Seq(Known), NEW strategy, NEW limit, NEW relaxed
  PROVE  \E c : IsPass(c, start, ranked, strategy, limit, relaxed)
<1> DEFINE n == Len(ranked)
           Folds(iter) == iter = [s \in SUBSET (1..n) |->
                            IF s = {} THEN start
                            ELSE Step(start, iter[s \ {Max(s)}], ranked[Max(s)], strategy, limit, relaxed)]
<1>1. n \in Nat /\ DOMAIN ranked = 1..n /\ \A k \in 1..n : ranked[k] \in Known
  OBVIOUS
<1>2. Pass(start, ranked, strategy, limit, relaxed) = (CHOOSE iter : Folds(iter))[1..n]
  BY <1>1 DEF Pass, FoldLeft, MapThenFoldSet, Step
<1> HIDE DEF n
<1>3. \A chosen \in Seq(Known), k \in 1..n :
        Step(start, chosen, ranked[k], strategy, limit, relaxed) \in Seq(Known)
  BY <1>1 DEF Step
<1>4. \E iter : Folds(iter)
  <2> DEFINE F == [x \in Seq(Known) \X (1..n) |->
                     Step(start, x[1], ranked[x[2]], strategy, limit, relaxed)]
  <2>1. F \in [Seq(Known) \X (1..n) -> Seq(Known)]  BY <1>3
  <2>2. \A chosen \in Seq(Known), k \in 1..n :
          F[<<chosen, k>>] = Step(start, chosen, ranked[k], strategy, limit, relaxed)
    OBVIOUS
  <2> HIDE DEF F
  <2>3. PICK iter \in [SUBSET (1..n) -> Seq(Known)] : \A s \in SUBSET (1..n) :
           iter[s] = IF s = {} THEN start ELSE F[<<iter[s \ {Max(s)}], Max(s)>>]
    <3> DEFINE S == Seq(Known)
    <3>1. n \in Nat /\ start \in S /\ F \in [S \X (1..n) -> S]  BY <1>1, <2>1
    <3> HIDE DEF S
    <3>2. \E iter : IsFold(iter, S, start, n, F)
      BY <3>1, FoldExists
    <3> QED  BY <3>2 DEF S, IsFold
  <2>4. ASSUME NEW s \in SUBSET (1..n), s # {}
        PROVE  iter[s] = Step(start, iter[s \ {Max(s)}], ranked[Max(s)], strategy, limit, relaxed)
    <3>1. Max(s) \in 1..n  BY <1>1, <2>4, GreatestNumber
    <3>2. iter[s \ {Max(s)}] \in Seq(Known)  BY <2>3
    <3> QED  BY <2>2, <2>3, <2>4, <3>1, <3>2
  <2>5. Folds(iter)  BY <2>3, <2>4
  <2> QED  BY <2>5
<1>5. PICK iter : Folds(iter) /\ Pass(start, ranked, strategy, limit, relaxed) = iter[1..n]
  <2> HIDE DEF Folds
  <2> QED  BY <1>2, <1>4
<1> DEFINE c == [k \in 0..n |-> iter[1..k]]
<1>6. c[0] = start
  <2>1. 1..0 = {} /\ {} \in SUBSET (1..n) /\ 0 \in 0..n  BY <1>1
  <2>2. iter[{}] = start  BY <1>5, <2>1
  <2> QED  BY <2>1, <2>2
<1>7. ASSUME NEW k \in 1..n
      PROVE  c[k] = Step(start, c[k - 1], ranked[k], strategy, limit, relaxed)
  <2>1. k \in 0..n /\ k - 1 \in 0..n /\ k \in Nat /\ k \in 1..k  BY <1>1
  <2>2. 1..k \in SUBSET (1..n) /\ 1..k # {} /\ (1..k) \ {k} = 1..(k - 1)
    <3>1. \A j \in Nat : j \in 1..k => j \in 1..n  BY <1>1, <2>1
    <3>2. \A j \in Nat : j \in (1..k) \ {k} <=> j \in 1..(k - 1)  BY <2>1
    <3>3. 1..k \in SUBSET Nat /\ 1..(k - 1) \in SUBSET Nat  BY <2>1
    <3> QED  BY <2>1, <3>1, <3>2, <3>3
  <2>3. Max(1..k) \in 1..k /\ k <= Max(1..k)  BY <1>1, <2>1, <2>2, GreatestNumber
  <2>4. Max(1..k) = k  BY <2>1, <2>3
  <2>5. iter[1..k] = Step(start, iter[1..(k - 1)], ranked[k], strategy, limit, relaxed)
    BY <1>5, <2>2, <2>4
  <2>6. c[k] = iter[1..k] /\ c[k - 1] = iter[1..(k - 1)]  BY <2>1
  <2> HIDE DEF c
  <2> QED  BY <2>5, <2>6
<1>8. c[n] = Pass(start, ranked, strategy, limit, relaxed)
  <2>1. n \in 0..n  BY <1>1
  <2>2. c[n] = iter[1..n]  BY <2>1
  <2> HIDE DEF c
  <2> QED  BY <1>5, <2>2
<1>9. c \in [0..n -> Seq(Known)]
  <2> DEFINE odd == { k \in 0..n : c[k] \notin Seq(Known) }
  <2>1. ASSUME NEW k \in odd, \A j \in odd : k <= j
        PROVE  FALSE
    <3>1. k # 0  BY <1>6
    <3>2. k \in 1..n /\ k - 1 \in 0..n /\ ~(k <= k - 1)  BY <1>1, <3>1
    <3>3. c[k - 1] \in Seq(Known)
      <4> HIDE DEF c
      <4> QED  BY <2>1, <3>2
    <3>4. c[k] \in Seq(Known)
      <4> HIDE DEF c
      <4> QED  BY <1>3, <1>7, <3>2, <3>3
    <3> QED  BY <3>4
  <2>2. odd \in SUBSET Nat  BY <1>1
  <2> HIDE DEF odd
  <2>3. odd = {}  BY <2>1, <2>2, LeastNumber
  <2>4. \A k \in 0..n : c[k] \in Seq(Known)
    <3> HIDE DEF c
    <3> QED  BY <2>3 DEF odd
  <2> QED  BY <2>4
<1> HIDE DEF c
<1> QED  BY <1>6, <1>7, <1>8, <1>9 DEF n, IsPass

LEMMA OneMore ==
  ASSUME NEW s \in Seq(Known), NEW x \in Known
  PROVE  /\ ToSet(Append(s, x)) = ToSet(s) \union {x}
         /\ Append(s, x) \in Seq(Known) /\ Len(Append(s, x)) = Len(s) + 1
         /\ IsInjective(s) /\ x \notin ToSet(s) => IsInjective(Append(s, x))
<1> DEFINE t == Append(s, x)
           n == Len(s)
<1>1. /\ n \in Nat /\ DOMAIN s = 1..n /\ DOMAIN t = 1..n + 1 /\ t[n + 1] = x
      /\ \A i \in 1..n : t[i] = s[i]
      /\ t \in Seq(Known) /\ Len(t) = n + 1
  OBVIOUS
<1> HIDE DEF t, n
<1>2. ToSet(t) = ToSet(s) \union {x}
  <2>1. \A i \in 1..n + 1 : i \in 1..n \/ i = n + 1  BY <1>1
  <2>2. \A i \in 1..n : i \in 1..n + 1  BY <1>1
  <2>3. n + 1 \in 1..n + 1  BY <1>1
  <2>4. ToSet(t) \subseteq ToSet(s) \union {x}  BY <1>1, <2>1 DEF ToSet
  <2>5. ToSet(s) \union {x} \subseteq ToSet(t)  BY <1>1, <2>2, <2>3 DEF ToSet
  <2> QED  BY <2>4, <2>5
<1>3. ASSUME IsInjective(s), x \notin ToSet(s) PROVE IsInjective(t)
  <2>1. \A i \in 1..n : s[i] # x  BY <1>1, <1>3 DEF ToSet
  <2>2. \A i, j \in 1..n : s[i] = s[j] => i = j  BY <1>1, <1>3 DEF IsInjective
  <2>3. \A i \in 1..n + 1 : i \in 1..n \/ i = n + 1  BY <1>1
  <2>4. \A i, j \in 1..n + 1 : t[i] = t[j] => i = j  BY <1>1, <2>1, <2>2, <2>3
  <2> QED  BY <1>1, <2>4 DEF IsInjective
<1> QED  BY <1>1, <1>2, <1>3 DEF t, n

LEMMA Places ==
  ASSUME NEW s \in Seq(Known)
  PROVE  /\ IsFiniteSet(ToSet(s)) /\ ToSet(s) \subseteq Known
         /\ IsInjective(s) => Cardinality(ToSet(s)) = Len(s)
<1> DEFINE n == Len(s)
<1>1. s \in [1..n -> ToSet(s)] /\ n \in Nat /\ DOMAIN s = 1..n /\ ToSet(s) \subseteq Known
  BY DEF ToSet
<1>2. s \in Surjection(1..n, ToSet(s))
  BY <1>1 DEF Surjection, ToSet
<1>3. IsFiniteSet(1..n) /\ Cardinality(1..n) = n
  <2>1. 1 \in Int /\ n \in Int /\ (IF 1 > n THEN 0 ELSE n - 1 + 1) = n  BY <1>1
  <2> HIDE DEF n
  <2> QED  BY <2>1, FS_Interval
<1>4. IsInjective(s) => s \in Injection(1..n, ToSet(s))
  BY <1>1 DEF Injection, IsInjective
<1> HIDE DEF n
<1>5. IsFiniteSet(ToSet(s)) /\ (Cardinality(ToSet(s)) = n <=> s \in Injection(1..n, ToSet(s)))
  BY <1>2, <1>3, FS_Surjection
<1> QED  BY <1>1, <1>4, <1>5 DEF n

\* A place more never makes a category or a district emptier.
LEMMA AmongGrows ==
  ASSUME NEW s \in Seq(Known), NEW x \in Known, NEW F, NEW v
  PROVE  /\ Among(s, F, v) \in Nat
         /\ Among(Append(s, x), F, v) = IF F[x] = v /\ x \notin ToSet(s)
                                        THEN Among(s, F, v) + 1 ELSE Among(s, F, v)
<1> DEFINE before == { p \in ToSet(s) : F[p] = v }
           after  == { p \in ToSet(Append(s, x)) : F[p] = v }
<1>1. IsFiniteSet(before) /\ Cardinality(before) \in Nat
  <2>1. before \in SUBSET ToSet(s)  OBVIOUS
  <2> HIDE DEF before
  <2> QED  BY <2>1, Places, FS_Subset, FS_CardinalityType
<1>2. Among(s, F, v) = Cardinality(before) /\ Among(Append(s, x), F, v) = Cardinality(after)
  BY DEF Among
<1>3. ToSet(Append(s, x)) = ToSet(s) \union {x}  BY OneMore
<1>4. CASE F[x] = v
  <2>1. after = before \union {x} /\ (x \in before <=> x \in ToSet(s))  BY <1>3, <1>4
  <2> HIDE DEF before, after
  <2>2. Cardinality(after) = IF x \in before THEN Cardinality(before) ELSE Cardinality(before) + 1
    BY <1>1, <2>1, FS_AddElement
  <2> QED  BY <1>1, <1>2, <1>4, <2>1, <2>2
<1>5. CASE F[x] # v
  <2>1. after = before  BY <1>3, <1>5
  <2> HIDE DEF before, after
  <2> QED  BY <1>1, <1>2, <1>5, <2>1
<1> QED  BY <1>4, <1>5

LEMMA FullStays ==
  ASSUME NEW s \in Seq(Known), NEW x \in Known, NEW p, NEW strategy, strategy.perDistrict \in Nat,
         Full(s, p, strategy)
  PROVE  Full(Append(s, x), p, strategy)
<1> DEFINE cat  == Among(s, Category, Category[p])
           dis  == Among(s, District, District[p])
           cat2 == Among(Append(s, x), Category, Category[p])
           dis2 == Among(Append(s, x), District, District[p])
<1>1. cat \in Nat /\ dis \in Nat /\ (cat2 = cat \/ cat2 = cat + 1) /\ (dis2 = dis \/ dis2 = dis + 1)
  BY AmongGrows
<1>2. cat >= PerCategory \/ dis >= strategy.perDistrict  BY DEF Full
<1> SUFFICES cat2 >= PerCategory \/ dis2 >= strategy.perDistrict
  BY DEF Full
<1> HIDE DEF cat, dis, cat2, dis2
<1> QED  BY <1>1, <1>2 DEF PerCategory

\* No category and no district over its cap.
Within(chosen, strategy) ==
  \A p \in Known : /\ Among(chosen, Category, Category[p]) <= PerCategory
                   /\ Among(chosen, District, District[p]) <= strategy.perDistrict

SameArea(p, q) == Category[p] = Category[q] /\ District[p] = District[q]

\* What a pass has made of the first k ranked places.
Sofar(start, ranked, k, chosen, strategy, limit, relaxed) ==
  /\ chosen \in Seq(Known) /\ IsInjective(chosen) /\ Len(chosen) <= limit
  /\ ToSet(start) \subseteq ToSet(chosen)
  /\ \A p \in ToSet(chosen) \ ToSet(start) : \E j \in 1..k : p = ranked[j]
  /\ Len(start) >= limit => chosen = start
  /\ \A j \in 1..k : \/ ranked[j] \in ToSet(chosen) \/ Len(chosen) >= limit
                     \/ ~relaxed /\ Full(chosen, ranked[j], strategy)
  /\ \A j, m \in 1..k :
       /\ ranked[m] \in ToSet(chosen) \ ToSet(start) /\ ranked[j] \notin ToSet(chosen)
       /\ relaxed \/ SameArea(ranked[j], ranked[m])
       => m < j
  /\ ~relaxed => Within(chosen, strategy)

LEMMA PassStarts ==
  ASSUME NEW ranked, NEW start \in Seq(Known), NEW strategy, NEW limit, NEW relaxed \in BOOLEAN,
         IsInjective(start), Len(start) <= limit, ~relaxed => Within(start, strategy)
  PROVE  Sofar(start, ranked, 0, start, strategy, limit, relaxed)
BY DEF Sofar

LEMMA PassGoesOn ==
  ASSUME NEW ranked \in Seq(Known), IsInjective(ranked), NEW start \in Seq(Known),
         NEW strategy, strategy.perDistrict \in Nat, NEW limit \in Nat, NEW relaxed \in BOOLEAN,
         NEW k \in 1..Len(ranked), NEW chosen,
         Sofar(start, ranked, k - 1, chosen, strategy, limit, relaxed)
  PROVE  Sofar(start, ranked, k, Step(start, chosen, ranked[k], strategy, limit, relaxed),
               strategy, limit, relaxed)
<1> DEFINE p == ranked[k]
<1>1. /\ p \in Known /\ k \in Nat /\ k - 1 \in Nat /\ k \in 1..k
      /\ \A j \in 1..k : j \in 1..(k - 1) \/ j = k
      /\ \A j \in 1..(k - 1) : j \in 1..k /\ j < k /\ ranked[j] # p
  <2>1. Len(ranked) \in Nat /\ DOMAIN ranked = 1..Len(ranked) /\ ranked[k] \in Known
    OBVIOUS
  <2>2. k \in Nat /\ k \in DOMAIN ranked /\ \A j \in 1..(k - 1) : j \in DOMAIN ranked /\ j < k
    BY <2>1
  <2>3. \A j \in 1..(k - 1) : ranked[j] # p  BY <2>2 DEF IsInjective
  <2>4. \A j \in 1..k : j \in 1..(k - 1) \/ j = k  BY <2>2
  <2>5. \A j \in 1..(k - 1) : j \in 1..k  BY <2>2
  <2> QED  BY <2>1, <2>2, <2>3, <2>4, <2>5
<1>2. chosen \in Seq(Known) /\ Len(chosen) \in Nat /\ Len(chosen) <= limit
  BY DEF Sofar
<1> HIDE DEF p
<1>3. CASE Len(chosen) < limit /\ p \notin ToSet(start) /\ (relaxed \/ ~Full(chosen, p, strategy))
  <2> DEFINE more == Append(chosen, p)
  <2>1. p \notin ToSet(chosen)
    BY <1>1, <1>3 DEF Sofar
  <2>2. /\ ToSet(more) = ToSet(chosen) \union {p} /\ more \in Seq(Known)
        /\ Len(more) = Len(chosen) + 1 /\ IsInjective(more)
    BY <1>1, <1>2, <2>1, OneMore DEF Sofar
  <2>3. \A q : Full(chosen, q, strategy) => Full(more, q, strategy)
    BY <1>1, <1>2, FullStays
  <2>4. ~relaxed => Within(more, strategy)
    <3> SUFFICES ASSUME ~relaxed, NEW q \in Known
                 PROVE  /\ Among(more, Category, Category[q]) <= PerCategory
                        /\ Among(more, District, District[q]) <= strategy.perDistrict
      BY DEF Within
    <3> DEFINE cat == Among(chosen, Category, Category[q])
               dis == Among(chosen, District, District[q])
    <3>1. cat <= PerCategory /\ dis <= strategy.perDistrict /\ cat \in Nat /\ dis \in Nat
      BY <1>1, <1>2, AmongGrows DEF Sofar, Within
    <3>2. /\ Category[p] = Category[q] => cat < PerCategory
          /\ District[p] = District[q] => dis < strategy.perDistrict
      <4>1. ~Full(chosen, p, strategy)  BY <1>3
      <4>2. /\ Category[p] = Category[q] => ~(cat >= PerCategory)
            /\ District[p] = District[q] => ~(dis >= strategy.perDistrict)
        BY <4>1 DEF Full
      <4> HIDE DEF cat, dis
      <4> QED  BY <3>1, <4>2 DEF PerCategory
    <3>3. /\ Among(more, Category, Category[q]) = IF Category[p] = Category[q] THEN cat + 1 ELSE cat
          /\ Among(more, District, District[q]) = IF District[p] = District[q] THEN dis + 1 ELSE dis
      BY <1>1, <1>2, <2>1, AmongGrows
    <3> HIDE DEF cat, dis, more
    <3> QED  BY <3>1, <3>2, <3>3 DEF PerCategory
  <2> HIDE DEF more
  <2>5. \A j, m \in 1..k :
           /\ ranked[m] \in ToSet(more) \ ToSet(start) /\ ranked[j] \notin ToSet(more)
           /\ relaxed \/ SameArea(ranked[j], ranked[m])
           => m < j
    <3> SUFFICES ASSUME NEW j \in 1..k, NEW m \in 1..k,
                        ranked[m] \in ToSet(more) \ ToSet(start), ranked[j] \notin ToSet(more),
                        relaxed \/ SameArea(ranked[j], ranked[m])
                 PROVE  m < j
      OBVIOUS
    <3>1. j \in 1..(k - 1) /\ ranked[j] \notin ToSet(chosen)
      BY <1>1, <2>2 DEF p
    <3>2. CASE m = k
      <4>1. ~relaxed /\ Full(chosen, ranked[j], strategy)
        BY <1>2, <1>3, <3>1 DEF Sofar
      <4>2. SameArea(ranked[j], p)  BY <3>2, <4>1 DEF p
      <4>3. Full(chosen, p, strategy)  BY <4>1, <4>2 DEF Full, SameArea
      <4> QED  BY <1>3, <4>1, <4>3
    <3>3. CASE m \in 1..(k - 1)
      <4>1. ranked[m] \in ToSet(chosen) \ ToSet(start)  BY <1>1, <2>2, <3>3
      <4> QED  BY <3>1, <3>3, <4>1 DEF Sofar
    <3> QED  BY <1>1, <3>2, <3>3
  <2>6. Sofar(start, ranked, k, more, strategy, limit, relaxed)
    <3>1. Len(more) <= limit /\ (Len(start) >= limit => more = start)
      BY <1>2, <1>3, <2>2 DEF Sofar
    <3>2. ToSet(start) \subseteq ToSet(more)
      BY <2>2 DEF Sofar
    <3>3. \A q \in ToSet(more) \ ToSet(start) : \E j \in 1..k : q = ranked[j]
      BY <1>1, <2>2 DEF Sofar, p
    <3>4. \A j \in 1..k : \/ ranked[j] \in ToSet(more) \/ Len(more) >= limit
                          \/ ~relaxed /\ Full(more, ranked[j], strategy)
      <4>1. \A j \in 1..(k - 1) : \/ ranked[j] \in ToSet(chosen) \/ Len(chosen) >= limit
                                  \/ ~relaxed /\ Full(chosen, ranked[j], strategy)
        BY DEF Sofar
      <4> QED  BY <1>1, <1>2, <1>3, <2>2, <2>3, <4>1 DEF p
    <3> QED  BY <2>2, <2>4, <2>5, <3>1, <3>2, <3>3, <3>4 DEF Sofar
  <2> QED  BY <1>3, <2>6 DEF Step, more, p
<1>4. CASE ~(Len(chosen) < limit /\ p \notin ToSet(start) /\ (relaxed \/ ~Full(chosen, p, strategy)))
  <2>1. \/ p \in ToSet(chosen) \/ Len(chosen) >= limit
        \/ ~relaxed /\ Full(chosen, p, strategy)
    BY <1>2, <1>4 DEF Sofar
  <2>2. ASSUME NEW m \in 1..k, ranked[m] \in ToSet(chosen) \ ToSet(start)
        PROVE  m \in 1..(k - 1)
    <3>1. PICK j \in 1..(k - 1) : ranked[m] = ranked[j]  BY <2>2 DEF Sofar
    <3> QED  BY <1>1, <3>1 DEF p
  <2>3. \A m \in 1..(k - 1) : m < k  BY <1>1
  <2>4. Sofar(start, ranked, k, chosen, strategy, limit, relaxed)
    <3>1. \A q \in ToSet(chosen) \ ToSet(start) : \E j \in 1..k : q = ranked[j]
      BY <1>1 DEF Sofar
    <3>2. \A j \in 1..k : \/ ranked[j] \in ToSet(chosen) \/ Len(chosen) >= limit
                          \/ ~relaxed /\ Full(chosen, ranked[j], strategy)
      BY <1>1, <2>1 DEF Sofar, p
    <3>3. \A j, m \in 1..k :
            /\ ranked[m] \in ToSet(chosen) \ ToSet(start) /\ ranked[j] \notin ToSet(chosen)
            /\ relaxed \/ SameArea(ranked[j], ranked[m])
            => m < j
      BY <1>1, <2>2, <2>3 DEF Sofar
    <3> QED  BY <3>1, <3>2, <3>3 DEF Sofar
  <2> QED  BY <1>4, <2>4 DEF Step, p
<1> QED  BY <1>3, <1>4

LEMMA PassResult ==
  ASSUME NEW ranked \in Seq(Known), IsInjective(ranked), NEW start \in Seq(Known),
         NEW strategy, strategy.perDistrict \in Nat, NEW limit \in Nat, NEW relaxed \in BOOLEAN,
         IsInjective(start), Len(start) <= limit, ~relaxed => Within(start, strategy)
  PROVE  Sofar(start, ranked, Len(ranked), Pass(start, ranked, strategy, limit, relaxed),
               strategy, limit, relaxed)
<1> DEFINE n == Len(ranked)
<1>0. PICK c : IsPass(c, start, ranked, strategy, limit, relaxed)
  BY PassSteps
<1>1. /\ c[0] = start /\ c[n] = Pass(start, ranked, strategy, limit, relaxed)
      /\ \A k \in 1..n : c[k] = Step(start, c[k - 1], ranked[k], strategy, limit, relaxed)
  BY <1>0 DEF IsPass
<1>2. n \in Nat  OBVIOUS
<1> DEFINE odd == { k \in 0..n : ~Sofar(start, ranked, k, c[k], strategy, limit, relaxed) }
<1>3. ASSUME NEW k \in odd, \A j \in odd : k <= j
      PROVE  FALSE
  <2>1. k # 0  BY <1>1, PassStarts
  <2>2. k \in 1..n /\ k - 1 \in 0..n /\ ~(k <= k - 1)  BY <1>2, <2>1
  <2>3. Sofar(start, ranked, k - 1, c[k - 1], strategy, limit, relaxed)
    BY <1>3, <2>2
  <2>4. Sofar(start, ranked, k, Step(start, c[k - 1], ranked[k], strategy, limit, relaxed),
              strategy, limit, relaxed)
    BY <2>2, <2>3, PassGoesOn
  <2> QED  BY <1>1, <2>2, <2>4
<1>4. odd \in SUBSET Nat  BY <1>2
<1>5. odd = {}
  <2> HIDE DEF odd
  <2> QED  BY <1>3, <1>4, LeastNumber
<1>6. n \in 0..n  BY <1>2
<1> QED  BY <1>1, <1>5, <1>6

\* What both passes select is diverse: the second goes over a cap only when the first
\* had left no other place, and both take the places in the order of their ranks.
LEMMA SelectedIsDiverse ==
  ASSUME NEW ranked \in Seq(Known), IsInjective(ranked),
         NEW strategy, strategy.perDistrict \in Nat, NEW limit \in Nat
  PROVE  LET chosen == Selected(ranked, strategy, limit)
         IN  ToSet(chosen) \subseteq ToSet(ranked) /\ Diverse(ranked, chosen, strategy, limit)
<1> DEFINE n      == Len(ranked)
           first  == Spread(ranked, strategy, limit)
           chosen == Selected(ranked, strategy, limit)
           left   == ToSet(ranked) \ ToSet(chosen)
           rank(p) == CHOOSE k \in DOMAIN ranked : ranked[k] = p
<1>1. n \in Nat /\ DOMAIN ranked = 1..n /\ ToSet(ranked) = { ranked[j] : j \in 1..n }
  BY DEF ToSet
<1>2. Sofar(<<>>, ranked, n, first, strategy, limit, FALSE)
  <2>1. <<>> \in Seq(Known) /\ IsInjective(<<>>) /\ Len(<<>>) <= limit  BY DEF IsInjective
  <2>2. Within(<<>>, strategy)
    <3>1. \A F, v : { p \in ToSet(<<>>) : F[p] = v } = {}  BY DEF ToSet
    <3>2. \A F, v : Among(<<>>, F, v) = 0  BY <3>1, FS_EmptySet DEF Among
    <3> QED  BY <3>2 DEF Within, PerCategory
  <2> QED  BY <2>1, <2>2, PassResult DEF Spread
<1>3. first \in Seq(Known) /\ IsInjective(first) /\ Len(first) <= limit /\ Within(first, strategy)
  BY <1>2 DEF Sofar
<1> HIDE DEF first
<1>4. Sofar(first, ranked, n, chosen, strategy, limit, TRUE)
  BY <1>3, PassResult DEF Selected, first
<1> HIDE DEF chosen, n
<1>5. chosen \in Seq(Known) /\ IsInjective(chosen) /\ Len(chosen) <= limit /\ ToSet(first) \subseteq ToSet(chosen)
  BY <1>4 DEF Sofar
<1>6. ToSet(<<>>) = {}  BY DEF ToSet
<1>7. ToSet(first) \subseteq ToSet(ranked)
  BY <1>1, <1>2, <1>6 DEF Sofar
<1>8. ToSet(chosen) \subseteq ToSet(ranked)
  BY <1>1, <1>4, <1>7 DEF Sofar
<1>9. Len(chosen) = Len(ranked) \/ Len(chosen) = limit
  <2>1. CASE Len(chosen) >= limit
    BY <1>5, <2>1
  <2>2. CASE ~(Len(chosen) >= limit)
    <3>1. \A j \in 1..n : ranked[j] \in ToSet(chosen)  BY <1>4, <2>2 DEF Sofar
    <3>2. ToSet(chosen) = ToSet(ranked)  BY <1>1, <1>8, <3>1
    <3> QED  BY <1>5, <3>2, Places
  <2> QED  BY <2>1, <2>2
<1>10. ASSUME NEW p \in ToSet(chosen),
              \/ Among(chosen, Category, Category[p]) > PerCategory
              \/ Among(chosen, District, District[p]) > strategy.perDistrict,
              NEW q \in left
       PROVE  Full(chosen, q, strategy)
  <2>1. chosen # first
    <3> SUFFICES ASSUME chosen = first PROVE FALSE  OBVIOUS
    <3>1. p \in Known  BY <1>5, Places
    <3>2. /\ Among(chosen, Category, Category[p]) <= PerCategory
          /\ Among(chosen, District, District[p]) <= strategy.perDistrict
      BY <1>3, <3>1 DEF Within
    <3>3. Among(chosen, Category, Category[p]) \in Nat /\ Among(chosen, District, District[p]) \in Nat
      BY <1>5, <3>1, AmongGrows
    <3> QED  BY <1>10, <3>2, <3>3 DEF PerCategory
  <2>2. ~(Len(first) >= limit)
    BY <1>4, <2>1 DEF Sofar
  <2>3. PICK j \in 1..n : q = ranked[j]  BY <1>1
  <2>4. Full(first, q, strategy)
    BY <1>2, <1>5, <2>2, <2>3 DEF Sofar
  <2> DEFINE cat  == { x \in ToSet(first) : Category[x] = Category[q] }
             dis  == { x \in ToSet(first) : District[x] = District[q] }
             cat2 == { x \in ToSet(chosen) : Category[x] = Category[q] }
             dis2 == { x \in ToSet(chosen) : District[x] = District[q] }
  <2>5. /\ cat \in SUBSET cat2 /\ dis \in SUBSET dis2
        /\ cat2 \in SUBSET ToSet(chosen) /\ dis2 \in SUBSET ToSet(chosen)
    BY <1>5
  <2>6. Cardinality(cat) >= PerCategory \/ Cardinality(dis) >= strategy.perDistrict
    BY <2>4 DEF Full, Among
  <2>7. Full(chosen, q, strategy) <=> Cardinality(cat2) >= PerCategory \/ Cardinality(dis2) >= strategy.perDistrict
    BY DEF Full, Among
  <2> HIDE DEF cat, dis, cat2, dis2
  <2>8. IsFiniteSet(cat2) /\ IsFiniteSet(dis2)
    BY <1>5, <2>5, Places, FS_Subset
  <2>9. Cardinality(cat) <= Cardinality(cat2) /\ Cardinality(dis) <= Cardinality(dis2)
    BY <2>5, <2>8, FS_Subset
  <2>10. IsFiniteSet(cat) /\ IsFiniteSet(dis)
    BY <2>5, <2>8, FS_Subset
  <2>11. /\ Cardinality(cat) \in Nat /\ Cardinality(cat2) \in Nat
         /\ Cardinality(dis) \in Nat /\ Cardinality(dis2) \in Nat
    BY <2>8, <2>10, FS_CardinalityType
  <2> QED  BY <2>6, <2>7, <2>9, <2>11 DEF PerCategory
<1>11. ASSUME NEW p \in left, NEW q \in ToSet(chosen), SameArea(p, q)
       PROVE  rank(q) < rank(p)
  <2>1. rank(p) \in 1..n /\ p = ranked[rank(p)]  BY <1>1
  <2>2. rank(q) \in 1..n /\ q = ranked[rank(q)]  BY <1>1, <1>8
  <2> HIDE DEF rank
  <2>3. CASE q \in ToSet(first)
    <3>1. p \notin ToSet(first)  BY <1>5
    <3> QED  BY <1>2, <1>6, <1>11, <2>1, <2>2, <2>3, <3>1 DEF Sofar
  <2>4. CASE q \notin ToSet(first)
    BY <1>4, <2>1, <2>2, <2>4 DEF Sofar
  <2> QED  BY <2>3, <2>4
<1>12. Diverse(ranked, chosen, strategy, limit)
  BY <1>5, <1>9, <1>10, <1>11 DEF Diverse, SameArea
<1> QED  BY <1>8, <1>12 DEF chosen

\* The ranked places are those that may be proposed, each once: no two of them have
\* the same rank.
LEMMA RankedPlaces ==
  ASSUME NEW recalled \in SUBSET Known, NEW refused, NEW strategy
  PROVE  LET ranked == Ranked(recalled, refused, strategy)
         IN  /\ ranked \in Seq(Known) /\ IsInjective(ranked)
             /\ ToSet(ranked) \subseteq { p \in recalled \ refused : ~HardFiltered(p, strategy) }
<1> DEFINE candidates == { p \in recalled \ refused : ~HardFiltered(p, strategy) }
           position   == [p \in Known |-> CHOOSE i \in DOMAIN ById : ById[i] = p]
           score(p)   == Score(p, strategy)
           Better(p)  == { q \in candidates :
                             \/ score(q) > score(p)
                             \/ score(q) = score(p) /\ position[q] < position[p] }
           rank       == [p \in candidates |-> Cardinality(Better(p))]
           total      == Cardinality(candidates)
           at(n)      == CHOOSE p \in candidates : rank[p] = n - 1
           ranked     == Ranked(recalled, refused, strategy)
<1>1. candidates \in SUBSET Known  OBVIOUS
<1>2. \A p \in Known : position[p] \in Nat /\ position[p] \in DOMAIN ById /\ ById[position[p]] = p
  BY PlacesAssumption DEF Known, ToSet
<1>3. \A p \in Known : score(p) \in Int
  <2> SUFFICES ASSUME NEW p \in Known PROVE score(p) \in Int
    OBVIOUS
  <2>1. Quality[p] \in 0..100  BY PlacesAssumption
  <2>2. Preference(p, strategy) \in Int  BY DEF Preference
  <2> QED  BY <2>1, <2>2 DEF Score
<1>4. ranked = [n \in 1..total |-> at(n)]
  BY DEF Ranked
<1> HIDE DEF position, score
<1>5. \A p, q \in candidates : p # q => p \in Better(q) \/ q \in Better(p)
  <2> SUFFICES ASSUME NEW p \in candidates, NEW q \in candidates, p # q
               PROVE  p \in Better(q) \/ q \in Better(p)
    OBVIOUS
  <2>1. position[p] # position[q]  BY <1>1, <1>2
  <2>2. /\ score(p) \in Int /\ score(q) \in Int
        /\ position[p] \in Nat /\ position[q] \in Nat
    BY <1>1, <1>2, <1>3
  <2>3. \/ score(p) > score(q) \/ score(q) > score(p)
        \/ score(p) = score(q) /\ (position[p] < position[q] \/ position[q] < position[p])
    BY <2>1, <2>2
  <2> QED  BY <2>3
<1>6. \A p \in candidates : Better(p) \in SUBSET candidates /\ p \notin Better(p)
  <2> SUFFICES ASSUME NEW p \in candidates PROVE p \notin Better(p)
    OBVIOUS
  <2>1. score(p) \in Int /\ position[p] \in Nat  BY <1>1, <1>2, <1>3
  <2> QED  BY <2>1
<1>7. \A p, q \in candidates : p \in Better(q) => Better(p) \in SUBSET Better(q)
  <2> SUFFICES ASSUME NEW p \in candidates, NEW q \in candidates, p \in Better(q), NEW r \in Better(p)
               PROVE  r \in Better(q)
    OBVIOUS
  <2>1. /\ score(p) \in Int /\ score(q) \in Int /\ score(r) \in Int
        /\ position[p] \in Nat /\ position[q] \in Nat /\ position[r] \in Nat
    BY <1>1, <1>2, <1>3
  <2>2. /\ score(p) > score(q) \/ (score(p) = score(q) /\ position[p] < position[q])
        /\ score(r) > score(p) \/ (score(r) = score(p) /\ position[r] < position[p])
    OBVIOUS
  <2>3. score(r) > score(q) \/ (score(r) = score(q) /\ position[r] < position[q])
    BY <2>1, <2>2
  <2> QED  BY <2>3
<1>8. IsFiniteSet(candidates) /\ total \in Nat
  <2>1. IsFiniteSet(Known)  BY PlacesAssumption, Places DEF Known
  <2> HIDE DEF candidates
  <2> QED  BY <1>1, <2>1, FS_Subset, FS_CardinalityType
<1> HIDE DEF candidates, Better
<1>9. \A p \in candidates : IsFiniteSet(Better(p)) /\ Cardinality(Better(p)) \in 0..(total - 1)
  <2> SUFFICES ASSUME NEW p \in candidates
               PROVE  IsFiniteSet(Better(p)) /\ Cardinality(Better(p)) \in 0..(total - 1)
    OBVIOUS
  <2>1. Better(p) \in SUBSET candidates /\ Better(p) # candidates  BY <1>6
  <2>2. IsFiniteSet(Better(p)) /\ Cardinality(Better(p)) <= total /\ Cardinality(Better(p)) # total
    BY <1>8, <2>1, FS_Subset
  <2> QED  BY <1>8, <2>2, FS_CardinalityType
<1>10. \A p, q \in candidates : p # q => Cardinality(Better(p)) # Cardinality(Better(q))
  <2>1. ASSUME NEW p \in candidates, NEW q \in candidates, p \in Better(q)
        PROVE  Cardinality(Better(p)) # Cardinality(Better(q))
    <3>1. Better(p) \in SUBSET Better(q) /\ Better(p) # Better(q)  BY <1>6, <1>7, <2>1
    <3> QED  BY <1>9, <3>1, FS_Subset
  <2> QED  BY <1>5, <2>1
<1>11. rank \in Surjection(candidates, 0..(total - 1))
  <2>1. rank \in Injection(candidates, 0..(total - 1))
    BY <1>9, <1>10 DEF Injection, IsInjective
  <2>2. IsFiniteSet(0..(total - 1)) /\ Cardinality(0..(total - 1)) = total
    BY <1>8, FS_Interval, 0 \in Int, total - 1 \in Int
  <2> HIDE DEF rank
  <2> QED  BY <2>1, <2>2, FS_Injection
<1> HIDE DEF rank
<1>12. \A n \in 1..total : at(n) \in candidates /\ rank[at(n)] = n - 1
  <2> SUFFICES ASSUME NEW n \in 1..total
               PROVE  \E p \in candidates : rank[p] = n - 1
    OBVIOUS
  <2>1. n - 1 \in 0..(total - 1)  BY <1>8
  <2> QED  BY <1>11, <2>1 DEF Surjection
<1> HIDE DEF at, total, ranked
<1>13. ranked \in Seq(Known) /\ DOMAIN ranked = 1..total /\ ToSet(ranked) \subseteq candidates
  BY <1>1, <1>4, <1>8, <1>12 DEF ToSet
<1>14. ASSUME NEW m \in 1..total, NEW n \in 1..total, ranked[m] = ranked[n]
       PROVE  m = n
  <2>1. rank[at(m)] = m - 1 /\ rank[at(n)] = n - 1 /\ at(m) = at(n)
    BY <1>4, <1>12, <1>14
  <2> QED  BY <1>8, <2>1
<1>15. IsInjective(ranked)  BY <1>13, <1>14 DEF IsInjective
<1> QED  BY <1>13, <1>15 DEF candidates, ranked

LEMMA SearchKeeps == ASSUME NEW s \in Tasks \union Requests PROVE IInv /\ Search(s) => IInv'
<1> SUFFICES ASSUME IInv, Search(s) PROVE IInv'
  OBVIOUS
<1>1. Loaded(search[s])  BY LoadedJob DEF Search
<1>2. PICK weather \in Weathers, silent \in Silences :
        LET job      == search[s]
            strategy == Strategy(versions[job.base], job.feedback.tooFar, weather)
            recalled == Recalled(strategy, DOMAIN Catalogue \ silent)
            ranked   == Ranked(recalled, job.feedback.refused, strategy)
        IN  search' = [search EXCEPT ![s] =
                [pc |-> "found", limit |-> job.limit, known |-> job.known, far |-> job.far,
                 base |-> job.base, strategy |-> strategy, ranked |-> ranked,
                 chosen |-> Selected(ranked, strategy, job.limit)]]
  BY DEF Search
<1> DEFINE old      == search[s]
           wishes   == versions[old.base]
           strategy == Strategy(wishes, old.feedback.tooFar, weather)
           recalled == Recalled(strategy, DOMAIN Catalogue \ silent)
           ranked   == Ranked(recalled, old.feedback.refused, strategy)
           chosen   == Selected(ranked, strategy, old.limit)
           job      == [pc |-> "found", limit |-> old.limit, known |-> old.known, far |-> old.far,
                        base |-> old.base, strategy |-> strategy, ranked |-> ranked,
                        chosen |-> chosen]
<1>3. wishes \in Wishes /\ wishes.suburban \in BOOLEAN
  <2>1. old.base \in 1..Len(versions)  BY <1>1 DEF Loaded, Current
  <2>2. wishes \in Wishes  BY <2>1 DEF IInv, BatchesInv
  <2> QED  BY <2>2, RequestsAssumption
<1>4. old.limit \in 1..30 /\ old.limit \in Nat /\ old.feedback.tooFar \in BOOLEAN
  BY <1>1 DEF Loaded
<1>5. /\ strategy.suburban = (wishes.suburban /\ ~old.feedback.tooFar)
      /\ strategy.excluded = wishes.excluded
      /\ strategy.perDistrict \in Nat
  BY DEF Strategy
<1>6. recalled \in SUBSET Known
  BY PlacesAssumption DEF Recalled
<1> HIDE DEF strategy
<1>7. /\ ranked \in Seq(Known) /\ IsInjective(ranked)
      /\ ToSet(ranked) \subseteq { p \in recalled \ old.feedback.refused : ~HardFiltered(p, strategy) }
  <2> HIDE DEF recalled
  <2> QED  BY <1>6, RankedPlaces
<1> HIDE DEF recalled, ranked
<1>8. ToSet(chosen) \subseteq ToSet(ranked) /\ Diverse(ranked, chosen, strategy, old.limit)
  BY <1>4, <1>5, <1>7, SelectedIsDiverse
<1> HIDE DEF chosen
<1>9. /\ ToSet(ranked) \subseteq Known /\ ToSet(ranked) \cap old.feedback.refused = {}
      /\ ToSet(ranked) \cap wishes.excluded = {}
  BY <1>5, <1>6, <1>7 DEF HardFiltered
<1>10. strategy.suburban \in BOOLEAN /\ (strategy.suburban => wishes.suburban /\ ~old.feedback.tooFar)
  BY <1>3, <1>4, <1>5
<1>11. job.pc = "found" /\ Found(job)
  BY <1>1, <1>8, <1>9, <1>10 DEF Found, Loaded
<1>12. UNCHANGED <<versions, batches>> /\ search' = [search EXCEPT ![s] = job]
  BY <1>2 DEF Search, strategy, recalled, ranked, chosen
<1> HIDE DEF job
<1> QED  BY <1>11, <1>12, OneSearch
-----------------------------------------------------------------------------
LEMMA StepKeeps == IInv /\ [Next]_vars => IInv' /\ Kept
<1> SUFFICES ASSUME IInv, [Next]_vars PROVE IInv' /\ Kept
  OBVIOUS
<1>1. batches' = batches => Kept  BY DEF Kept
<1>2. CASE Revise
  BY <1>1, <1>2, ReviseKeeps DEF Revise
<1>3. CASE \E s \in Tasks \union Requests : Generate(s) \/ Load(s) \/ Search(s) \/ GiveUp(s) \/ Save(s)
  <2> SUFFICES ASSUME NEW s \in Tasks \union Requests,
                      Generate(s) \/ Load(s) \/ Search(s) \/ GiveUp(s) \/ Save(s)
               PROVE  IInv' /\ Kept
    BY <1>3
  <2>1. CASE Generate(s)  BY <1>1, <2>1, GenerateKeeps DEF Generate
  <2>2. CASE Load(s)      BY <1>1, <2>2, LoadKeeps DEF Load
  <2>3. CASE Search(s)    BY <1>1, <2>3, SearchKeeps DEF Search
  <2>4. CASE GiveUp(s)    BY <1>1, <2>4, GiveUpKeeps DEF GiveUp
  <2>5. CASE Save(s)      BY <2>5, SaveKeeps, StoredBatch
  <2> QED  BY <2>1, <2>2, <2>3, <2>4, <2>5
<1>4. CASE \E i \in DOMAIN batches : \E p \in DOMAIN batches[i].proposals :
             Decide(i, p) \/ \E s \in Requests : Replace(s, i, p)
  BY <1>4, DecideKeeps, ReplaceKeeps
<1>5. CASE UNCHANGED vars
  <2>1. versions' = versions /\ batches' = batches /\ search' = search  BY <1>5 DEF vars
  <2>2. BatchesInv'  BY <2>1 DEF IInv, BatchesInv, Current
  <2> QED  BY <1>1, <2>1, <2>2, SearchesUntouched DEF IInv
<1> QED  BY <1>2, <1>3, <1>4, <1>5 DEF Next

\* What a search knows and a batch keeps, in every state.
THEOREM Invariance == Spec => []IInv
BY InitIInv, StepKeeps, PTL DEF Spec

LEMMA WhatBatchesKeep == IInv => RefusalsBind /\ BatchesFollowTheirVersion
<1> SUFFICES ASSUME IInv PROVE RefusalsBind /\ BatchesFollowTheirVersion
  OBVIOUS
<1>1. RefusalsBind  BY DEF IInv, BatchesInv, IsBatch, RefusalsBind
<1>2. ASSUME NEW i \in DOMAIN batches, i > 1
      PROVE  batches[i - 1].base <= batches[i].base
  <2>1. i \in Nat /\ i - 1 \in DOMAIN batches /\ i - 1 < i  BY <1>2 DEF IInv, BatchesInv
  <2> QED  BY <2>1 DEF IInv, BatchesInv
<1>3. BatchesFollowTheirVersion
  BY <1>2 DEF IInv, BatchesInv, Follows, BatchesFollowTheirVersion
<1> QED  BY <1>1, <1>3

\* No search offers again what was refused before it was asked for, however many
\* searches and decisions go on meanwhile.
THEOREM RefusedStaysAway == Spec => []RefusalsBind
BY Invariance, WhatBatchesKeep, PTL

\* However long a search takes and whatever becomes of the requirements meanwhile, a
\* batch follows those it is stored under.
THEOREM BatchesAreCurrent == Spec => []BatchesFollowTheirVersion
BY Invariance, WhatBatchesKeep, PTL

LEMMA WhatIsFound == IInv => SelectionIsDiverse
BY FoundJob DEF SelectionIsDiverse, Found

\* Every selection is as long as it may be and as varied as the places found allow.
THEOREM SelectionsAreDiverse == Spec => []SelectionIsDiverse
BY Invariance, WhatIsFound, PTL

\* No step changes a decision.
THEOREM DecidedOnce == Spec => DecisionsAreFinal
<1>1. IInv /\ [Next]_vars =>
        [\A i \in DOMAIN batches : \A p \in DOMAIN batches[i].proposals :
           batches[i].proposals[p].status # "proposed" =>
             batches'[i].proposals[p] = batches[i].proposals[p]]_vars
  BY StepKeeps DEF Kept
<1> QED  BY <1>1, Invariance, PTL DEF Spec, DecisionsAreFinal
=============================================================================
