------------------------ MODULE VersionCommit_proofs ------------------------
(***************************************************************************)
(* VersionCommit for any number of runs and attempts: the inductive        *)
(* invariant, the safety properties it implies, and the refinement of      *)
(* VersionChain.                                                           *)
(***************************************************************************)
EXTENDS VersionCommit, Sequences, SequenceTheorems, TLAPS

\* The initial state, with no version yet, satisfies the inductive invariant.
LEMMA InitInv == Init => IInv
<1> SUFFICES ASSUME Init PROVE IInv
  OBVIOUS
<1>1. TypeOK
  <2>1. (CHOOSE r \in Runs : TRUE) \in Runs
    BY RunsAssumption
  <2>2. NoRow \in Row
    BY <2>1 DEF NoRow, Row, VersionIds
  <2>3. ver \in [Attempts -> Row] /\ work \in [Attempts -> Runs]
    BY <2>1, <2>2 DEF Init
  <2>4. bookLock \in [Attempts -> Modes]
    BY DEF Init, Modes, None
  <2> QED BY <2>3, <2>4 DEF Init, TypeOK, VersionIds
<1>2. versions = {} /\ current = NoVersion /\ \A a \in Attempts : pc[a] = "idle"
  BY DEF Init
<1>3. OneVersionPerRun /\ LinearHistory /\ NoLostUpdate /\ NoGap
  BY <1>2 DEF Init, OneVersionPerRun, LinearHistory, NoLostUpdate, NoGap, Owners, Depth
<1>4. LocksCompatible
  BY DEF Init, LocksCompatible, Conflict, None
<1>5. RunOwned /\ PointersValid /\ InsertedRow
  BY <1>2 DEF Init, RunOwned, PointersValid, InsertedRow, InCommit
<1>6. SeenFromBase
  BY <1>2 DEF Init, SeenFromBase, Active, InCommit
<1>7. OperationRows
  BY <1>2 DEF Init, OperationRows
<1> QED BY <1>1, <1>3, <1>4, <1>5, <1>6, <1>7 DEF IInv

-----------------------------------------------------------------------------
\* Taking a routebook lock that nobody blocks keeps the locks compatible.
LEMMA LockBookInv ==
  ASSUME NEW a \in Attempts, NEW m \in Modes,
         bookLock \in [Attempts -> Modes], LocksCompatible,
         BookBlockers(a, m) = {}, LockBookAs(a, m)
  PROVE  LocksCompatible' /\ bookLock' \in [Attempts -> Modes]
<1>1. bookLock' \in [Attempts -> Modes] /\ bookLock'[a] = Stronger(bookLock[a], m)
  BY DEF LockBookAs, Stronger, Modes
<1>2. \A b \in Attempts \ {a} : bookLock'[b] = bookLock[b] /\ ~Conflict(m, bookLock[b])
  BY DEF LockBookAs, BookBlockers
<1> QED BY <1>1, <1>2 DEF LocksCompatible, Conflict, Stronger, Modes

\* An attempt that ends without committing frees its locks and changes nothing.
LEMMA EndInv ==
  ASSUME NEW a \in Attempts, NEW l \in {"reused", "conflict", "aborted"},
         IInv, pc[a] \in Active, End(a, l), l = "reused" => Owners(work[a]) # {}
  PROVE  IInv'
<1> USE DEF End, Goto, Release, rowVars, dataVars
<1>1. TypeOK'
  BY DEF IInv, TypeOK, Ended, Modes, None
<1>2. OneVersionPerRun' /\ LinearHistory' /\ NoGap'
  BY DEF IInv, OneVersionPerRun, LinearHistory, NoGap, Owners, Depth
<1>3. NoLostUpdate'
  BY DEF IInv, NoLostUpdate, Content, Parent
<1>4. LocksCompatible'
  BY DEF IInv, TypeOK, LocksCompatible, Conflict, None, Modes
<1>5. RunOwned'
  BY DEF IInv, TypeOK, RunOwned, Owners, InCommit
<1>6. PointersValid'
  BY DEF IInv, TypeOK, PointersValid, Active, InCommit
<1>7. SeenFromBase'
  BY DEF IInv, TypeOK, SeenFromBase, SavesFromBase, Active, InCommit, Kind, Content, Parent
<1>8. InsertedRow'
  BY DEF IInv, TypeOK, InsertedRow, VersionRow, NewContent, Kind, Depth
<1>9. OperationRows'
  BY DEF IInv, TypeOK, OperationRows, Owners
<1> QED BY <1>1, <1>2, <1>3, <1>4, <1>5, <1>6, <1>7, <1>8, <1>9 DEF IInv

\* A step of an attempt inside its transaction that writes no row: it moves on,
\* possibly with another base, more locks, other content.
LEMMA MoveInv ==
  ASSUME NEW a \in Attempts, NEW l \in Active \union {"reused"}, IInv,
         pc[a] \in Active \union {"idle"}, Goto(a, l),
         UNCHANGED <<rowVars, dataVars>>,
         work' = [work EXCEPT ![a] = work'[a]], work'[a] \in Runs,
         base' = [base EXCEPT ![a] = base'[a]], base'[a] \in versions \union {NoVersion},
         seen' = [seen EXCEPT ![a] = seen'[a]], seen'[a] \in SUBSET Runs,
         bookLock' \in [Attempts -> Modes], LocksCompatible',
         \A b \in Attempts \ {a} : bookLock'[b] = bookLock[b],
         runLock' \in [Runs -> Attempts \union {NoAttempt}],
         \A b \in Attempts \ {a} : runLock[work[b]] = b => runLock'[work[b]] = b,
         l \in InCommit => runLock'[work'[a]] = a /\ Owners(work'[a]) = {},
         l = "reused" => Owners(work'[a]) # {},
         l \in {"switch", "finish"} =>
            /\ pc[a] = "switch" /\ UNCHANGED <<work, base, seen>>
            /\ l = "finish" => bookLock'[a] >= NoKeyUpdate /\ current = base[a],
         l \in Active => SavesFromBase(a)'
  PROVE  IInv'
<1> USE DEF Goto, rowVars, dataVars
<1>1. TypeOK'
  BY DEF IInv, TypeOK, VersionIds, Ended
<1>2. OneVersionPerRun' /\ LinearHistory' /\ NoGap'
  BY DEF IInv, OneVersionPerRun, LinearHistory, NoGap, Owners, Depth
<1>3. NoLostUpdate'
  BY DEF IInv, NoLostUpdate, Content, Parent
<1>4. RunOwned'
  BY DEF IInv, TypeOK, RunOwned, Owners
<1>5. PointersValid'
  BY DEF IInv, TypeOK, PointersValid, Active, InCommit
<1>6. InsertedRow'
  <2>1. ASSUME NEW b \in Attempts, b # a
        PROVE  /\ pc'[b] \in {"switch", "finish"} => ver'[b] = VersionRow(b)'
               /\ pc'[b] = "finish" => bookLock'[b] >= NoKeyUpdate /\ current' = base'[b]
    BY <2>1 DEF IInv, TypeOK, InsertedRow, VersionRow, NewContent, Kind, Depth
  <2>2. /\ pc'[a] \in {"switch", "finish"} => ver'[a] = VersionRow(a)'
        /\ pc'[a] = "finish" => bookLock'[a] >= NoKeyUpdate /\ current' = base'[a]
    BY DEF IInv, TypeOK, InsertedRow, VersionRow, NewContent, Kind, Depth
  <2> QED BY <2>1, <2>2 DEF InsertedRow
<1>7. OperationRows'
  BY DEF IInv, TypeOK, OperationRows, Owners
<1>8. SeenFromBase'
  <2>1. ASSUME NEW b \in Attempts, b # a, pc'[b] \in Active PROVE SavesFromBase(b)'
    BY <2>1 DEF IInv, TypeOK, SeenFromBase, SavesFromBase, Kind, Content, Parent
  <2>2. pc'[a] \in Active => SavesFromBase(a)'
    BY DEF IInv, TypeOK
  <2> QED BY <2>1, <2>2 DEF IInv, SeenFromBase
<1> QED BY <1>1, <1>2, <1>3, <1>4, <1>5, <1>6, <1>7, <1>8 DEF IInv

-----------------------------------------------------------------------------
\* A new run row starts from a committed version.
LEMMA CreateRowInv == ASSUME NEW r \in Runs, IInv, CreateRow(r) PROVE IInv'
<1> USE DEF CreateRow, StartsFrom, StartRequirement, StartPlan, QueueEnrichment, ProposeEdit,
            dataVars, lockVars
<1>1. baseOf' \in [Runs -> VersionIds] /\ \A k \in Runs : baseOf'[k] \in versions \union {NoVersion}
  BY DEF IInv, TypeOK, VersionIds, PointersValid, LinearHistory
<1>2. \A k \in Runs : KindOf[k] = "create" => baseOf'[k] = baseOf[k]
  BY DEF IInv, TypeOK
<1>3. TypeOK'
  BY <1>1 DEF IInv, TypeOK
<1>4. OneVersionPerRun' /\ LinearHistory' /\ NoGap'
  BY DEF IInv, OneVersionPerRun, LinearHistory, NoGap, Owners, Depth
<1>5. NoLostUpdate'
  BY DEF IInv, NoLostUpdate, Content, Parent
<1>6. LocksCompatible' /\ RunOwned' /\ PointersValid'
  BY <1>1 DEF IInv, LocksCompatible, RunOwned, PointersValid, Owners
<1>7. SeenFromBase'
  BY <1>2 DEF IInv, SeenFromBase, SavesFromBase, Kind, Content, Parent
<1>8. InsertedRow'
  BY DEF IInv, InsertedRow, VersionRow, NewContent, Kind, Depth
<1>9. OperationRows'
  BY DEF IInv, OperationRows, Owners
<1> QED BY <1>3, <1>4, <1>5, <1>6, <1>7, <1>8, <1>9 DEF IInv

\* Deleting the routebook leaves its versions alone.
LEMMA SoftDeleteInv == ASSUME IInv, SoftDelete PROVE IInv'
<1> USE DEF SoftDelete, rowVars, lockVars
<1>1. TypeOK'
  BY DEF IInv, TypeOK
<1>2. OneVersionPerRun' /\ LinearHistory' /\ NoGap'
  BY DEF IInv, OneVersionPerRun, LinearHistory, NoGap, Owners, Depth
<1>3. NoLostUpdate'
  BY DEF IInv, NoLostUpdate, Content, Parent
<1>4. LocksCompatible' /\ RunOwned' /\ PointersValid' /\ OperationRows'
  BY DEF IInv, LocksCompatible, RunOwned, PointersValid, OperationRows, Owners
<1>5. SeenFromBase'
  BY DEF IInv, SeenFromBase, SavesFromBase, Kind, Content, Parent
<1>6. InsertedRow'
  BY DEF IInv, InsertedRow, VersionRow, NewContent, Kind, Depth
<1> QED BY <1>1, <1>2, <1>3, <1>4, <1>5, <1>6 DEF IInv

\* An attempt starts from what it reads: a committed version and its content.
LEMMA LoadInv == ASSUME NEW a \in Attempts, NEW r \in Runs, IInv, Load(a, r) PROVE IInv'
<1> USE DEF Load, LoadRun, LoadInput, LoadCurrent, FindUndo, Reads, Goto, rowVars, dataVars, lockVars
<1>1. /\ pc[a] = "idle" /\ work' = [work EXCEPT ![a] = r] /\ work'[a] = r
      /\ UNCHANGED <<rowVars, dataVars, lockVars>>
  BY DEF IInv, TypeOK
<1>2. current \in versions \union {NoVersion} /\ baseOf[r] \in versions \union {NoVersion}
      /\ base[a] \in versions \union {NoVersion}
  BY DEF IInv, LinearHistory, PointersValid
<1>3. /\ base' = [base EXCEPT ![a] = base'[a]] /\ base'[a] \in versions \union {NoVersion}
      /\ seen' = [seen EXCEPT ![a] = seen'[a]]
      /\ seen'[a] = seen[a] \/ \E v \in versions \union {NoVersion} : seen'[a] = Content(v)
  BY <1>2 DEF IInv, TypeOK
<1>4. seen'[a] \in SUBSET Runs
  BY <1>3 DEF IInv, TypeOK, Content, Row
<1>5. /\ bookLock' \in [Attempts -> Modes] /\ runLock' \in [Runs -> Attempts \union {NoAttempt}]
      /\ LocksCompatible'
  BY DEF IInv, TypeOK, LocksCompatible
<1>6. ASSUME NEW l \in {"commit", "loaded", "book", "reused"}, Goto(a, l),
             l = "reused" => Owners(r) # {},
             l \in Active => SavesFromBase(a)'
      PROVE  IInv'
  <2>1. l = "reused" => Owners(work'[a]) # {}
    BY <1>1, <1>6
  <2>2. /\ l \in Active \union {"reused"} /\ l \notin InCommit
        /\ pc[a] \in Active \union {"idle"}
    BY <1>1 DEF Active, InCommit
  <2> QED BY <1>1, <1>3, <1>4, <1>5, <1>6, <2>1, <2>2, MoveInv DEF InCommit
<1>7. CASE KindOf[r] \in {"create", "enrich", "requirement", "accept"}
  <2>1. /\ base'[a] = baseOf[r] /\ seen'[a] = Content(baseOf[r])
        /\ Kind(a)' = KindOf[r] /\ ver' = ver
    BY <1>1, <1>7 DEF IInv, TypeOK, Kind
  <2>2. KindOf[r] = "create" => base'[a] = NoVersion /\ seen'[a] = {}
    BY <2>1 DEF IInv, SeenFromBase, Content
  <2>3. seen'[a] = Content(base[a])'
    BY <2>1 DEF Content
  <2>4. SavesFromBase(a)'
    BY <1>7, <2>1, <2>2, <2>3 DEF SavesFromBase
  <2>5. Goto(a, "commit") \/ Goto(a, "loaded")
    BY <1>7
  <2> QED BY <1>6, <2>4, <2>5
<1>8. CASE KindOf[r] \in {"plan", "edit"}
  <2>1. SavesFromBase(a)'
    BY <1>1, <1>8 DEF IInv, TypeOK, SavesFromBase, Kind, Content
  <2> QED BY <1>6, <1>8, <2>1
<1>9. CASE KindOf[r] = "undo"
  <2>1. CASE r \in rows
    <3>1. Goto(a, "reused") /\ Owners(r) # {}
      BY <1>9, <2>1 DEF IInv, OperationRows
    <3> QED BY <1>6, <3>1 DEF Active, InCommit
  <2>2. CASE r \notin rows
    <3>1. Goto(a, "book") /\ pc'[a] = "book"
      BY <1>9, <2>2 DEF IInv, TypeOK
    <3>2. SavesFromBase(a)'
      BY <1>1, <1>9, <3>1 DEF SavesFromBase, Kind
    <3> QED BY <1>6, <3>1, <3>2
  <2> QED BY <2>1, <2>2
<1> QED BY <1>7, <1>8, <1>9, KindAssumption DEF Kinds

\* The first statements of each transaction.
LEMMA FindOperationInv ==
  ASSUME NEW a \in Attempts, IInv, FindOperation(a) PROVE IInv'
<1> USE DEF FindOperation, rowVars, dataVars, lockVars
<1>1. CASE work[a] \in rows
  <2>1. Goto(a, "reused") /\ Owners(work[a]) # {}
    BY <1>1 DEF IInv, OperationRows, Kind
  <2> QED
    BY <2>1, MoveInv DEF IInv, TypeOK, LocksCompatible, PointersValid, Active, InCommit
<1>2. CASE work[a] \notin rows
  <2>1. Goto(a, "insertrun") /\ pc'[a] = "insertrun"
    BY <1>2 DEF IInv, TypeOK, Goto
  <2>2. SavesFromBase(a)'
    BY DEF IInv, SeenFromBase, SavesFromBase, Kind, Content, Active
  <2> QED
    BY <2>1, <2>2, MoveInv DEF IInv, TypeOK, LocksCompatible, PointersValid, Active, InCommit
<1> QED BY <1>1, <1>2

\* A new run row is locked by the attempt that inserted it.
LEMMA InsertRunInv == ASSUME NEW a \in Attempts, IInv, InsertRun(a) PROVE IInv'
<1> USE DEF InsertRun, rowVars, dataVars
<1>1. CASE End(a, "aborted")
  BY <1>1, EndInv DEF Active
<1>2. CASE LockRun(a) /\ LockBookAs(a, KeyShare) /\ Goto(a, "commit")
           /\ UNCHANGED <<rowVars, dataVars, work, base, seen>>
  <2>1. LocksCompatible' /\ bookLock' \in [Attempts -> Modes]
    BY <1>2, LockBookInv DEF IInv, TypeOK, InsertRunBlockers, Modes, KeyShare
  <2>2. /\ runLock' \in [Runs -> Attempts \union {NoAttempt}]
        /\ \A b \in Attempts \ {a} : bookLock'[b] = bookLock[b]
        /\ \A b \in Attempts \ {a} : runLock[work[b]] = b => runLock'[work[b]] = b
    BY <1>2, NullAssumption DEF IInv, TypeOK, LockRun, LockBookAs, InsertRunBlockers, RunBlockers
  <2>3. SavesFromBase(a)'
    BY <1>2 DEF IInv, TypeOK, SeenFromBase, SavesFromBase, Kind, Content, Parent, Active, Goto
  <2> QED BY <1>2, <2>1, <2>2, <2>3, MoveInv DEF IInv, TypeOK, PointersValid, Active, InCommit
<1> QED BY <1>1, <1>2

\* The itinerary and acceptance transactions take the run row, then ...
LEMMA LockRunFirstInv == ASSUME NEW a \in Attempts, IInv, LockRunFirst(a) PROVE IInv'
<1> USE DEF LockRunFirst, rowVars, dataVars
<1>1. CASE Owners(work[a]) # {} /\ End(a, "reused")
  BY <1>1, EndInv DEF Active
<1>2. CASE LockRun(a) /\ Goto(a, "book") /\ UNCHANGED <<rowVars, dataVars, work, base, seen, bookLock>>
  <2>1. /\ runLock' \in [Runs -> Attempts \union {NoAttempt}]
        /\ \A b \in Attempts \ {a} : runLock[work[b]] = b => runLock'[work[b]] = b
    BY <1>2, NullAssumption DEF IInv, TypeOK, LockRun, RunBlockers
  <2>2. SavesFromBase(a)'
    BY <1>2 DEF IInv, TypeOK, SeenFromBase, SavesFromBase, Kind, Content, Parent, Active, Goto
  <2> QED BY <1>2, <2>1, <2>2, MoveInv
          DEF IInv, TypeOK, LocksCompatible, PointersValid, Active, InCommit
<1> QED BY <1>1, <1>2

\* ... the routebook row, in a mode compatible with every other holder's.
LEMMA LockBookStepInv == ASSUME NEW a \in Attempts, IInv, LockBook(a) PROVE IInv'
<1> USE DEF LockBook, rowVars, dataVars
<1>1. CASE End(a, "aborted") \/ End(a, "conflict")
  BY <1>1, EndInv DEF Active
<1>2. CASE /\ LockBookAs(a, ForUpdate) /\ Goto(a, "commit")
           /\ UNCHANGED <<rowVars, dataVars, work, base, seen, runLock>>
  <2>1. LocksCompatible' /\ bookLock' \in [Attempts -> Modes]
    BY <1>2, LockBookInv DEF IInv, TypeOK, Modes, ForUpdate
  <2>2. \A b \in Attempts \ {a} : bookLock'[b] = bookLock[b]
    BY <1>2 DEF IInv, TypeOK, LockBookAs
  <2>3. SavesFromBase(a)'
    BY <1>2 DEF IInv, TypeOK, SeenFromBase, SavesFromBase, Kind, Content, Parent, Active, Goto
  <2> QED BY <1>2, <2>1, <2>2, <2>3, MoveInv DEF IInv, TypeOK, PointersValid, Active, InCommit
<1> QED BY <1>1, <1>2

\* Adopting the empty first version keeps the content the attempt works from.
LEMMA ResolveInv ==
  ASSUME NEW a \in Attempts, IInv, ResolveRequirementBase(a) PROVE IInv'
<1> USE DEF ResolveRequirementBase, MayAdopt, AdoptCurrent, rowVars, dataVars
<1>1. CASE End(a, "aborted") \/ End(a, "conflict")
  BY <1>1, EndInv DEF Active
<1>2. CASE /\ current = base[a] \/ (base[a] = NoVersion /\ Content(current) = {})
           /\ base' = [base EXCEPT ![a] = current]
           /\ LockBookAs(a, ForUpdate) /\ Goto(a, "commit")
           /\ UNCHANGED <<rowVars, dataVars, work, seen, runLock>>
  <2>1. LocksCompatible' /\ bookLock' \in [Attempts -> Modes]
    BY <1>2, LockBookInv DEF IInv, TypeOK, Modes, ForUpdate
  <2>2. /\ \A b \in Attempts \ {a} : bookLock'[b] = bookLock[b]
        /\ base'[a] = current /\ current \in versions \union {NoVersion}
    BY <1>2 DEF IInv, TypeOK, LockBookAs, LinearHistory
  <2>3. Kind(a) = "requirement" /\ seen[a] = Content(base[a])
    BY DEF IInv, SeenFromBase, SavesFromBase, Active
  <2>4. seen[a] = Content(current)
    BY <1>2, <2>3 DEF Content
  <2>5. SavesFromBase(a)'
    BY <1>2, <2>2, <2>3, <2>4 DEF SavesFromBase, Kind, Content
  <2> QED BY <1>2, <2>1, <2>2, <2>5, MoveInv DEF IInv, TypeOK, Active, InCommit
<1> QED BY <1>1, <1>2

\* An undo computes its content from the parent of the version it locked.
LEMMA PrepareUndoInv == ASSUME NEW a \in Attempts, IInv, PrepareUndo(a) PROVE IInv'
<1> USE DEF PrepareUndo, rowVars, dataVars
<1>1. CASE End(a, "aborted")
  BY <1>1, EndInv DEF Active
<1>2. CASE /\ Parent(current) # NoVersion
           /\ base' = [base EXCEPT ![a] = current]
           /\ seen' = [seen EXCEPT ![a] = Content(Parent(current))]
           /\ LockBookAs(a, ForUpdate) /\ LockRun(a) /\ Goto(a, "commit")
           /\ UNCHANGED <<rowVars, dataVars, work>>
  <2>1. BookBlockers(a, ForUpdate) = {} /\ RunBlockers(a) = {}
    OBVIOUS
  <2>2. LocksCompatible' /\ bookLock' \in [Attempts -> Modes]
    BY <1>2, <2>1, LockBookInv DEF IInv, TypeOK, Modes, ForUpdate
  <2>3. /\ runLock' \in [Runs -> Attempts \union {NoAttempt}]
        /\ \A b \in Attempts \ {a} : bookLock'[b] = bookLock[b]
        /\ \A b \in Attempts \ {a} : runLock[work[b]] = b => runLock'[work[b]] = b
    BY <1>2, <2>1, NullAssumption DEF IInv, TypeOK, LockRun, LockBookAs, RunBlockers
  <2>4. /\ base'[a] = current /\ current \in versions \union {NoVersion}
        /\ seen'[a] = Content(Parent(current)) /\ seen'[a] \in SUBSET Runs
    BY <1>2 DEF IInv, TypeOK, LinearHistory, Content, Parent, Row, VersionIds
  <2>5. SavesFromBase(a)'
    BY <1>2, <2>4 DEF SavesFromBase, Kind, Content, Parent
  <2> QED BY <1>2, <2>2, <2>3, <2>4, <2>5, MoveInv DEF IInv, TypeOK, Active, InCommit
<1> QED BY <1>1, <1>2

-----------------------------------------------------------------------------
\* The statements of VersionService.commit.
\* The run is locked and has no version: it is owned from here on.
LEMMA EnterCommitInv == ASSUME NEW a \in Attempts, IInv, EnterCommit(a) PROVE IInv'
<1> USE DEF EnterCommit, rowVars, dataVars
<1>1. CASE Owners(work[a]) # {} /\ End(a, "reused")
  BY <1>1, EndInv DEF Active
<1>2. CASE /\ Owners(work[a]) = {} /\ LockRun(a) /\ Goto(a, "read")
           /\ UNCHANGED <<rowVars, dataVars, work, base, seen, bookLock>>
  <2>1. /\ runLock' \in [Runs -> Attempts \union {NoAttempt}]
        /\ runLock'[work[a]] = a
        /\ \A b \in Attempts \ {a} : runLock[work[b]] = b => runLock'[work[b]] = b
    BY <1>2, NullAssumption DEF IInv, TypeOK, LockRun, RunBlockers
  <2>2. SavesFromBase(a)' /\ Owners(work'[a]) = {}
    BY <1>2 DEF IInv, TypeOK, SeenFromBase, SavesFromBase, Kind, Content, Parent, Active, Goto
  <2> QED BY <1>2, <2>1, <2>2, MoveInv
          DEF IInv, TypeOK, LocksCompatible, PointersValid, Active, InCommit
<1> QED BY <1>1, <1>2

\* The comparison of the pointer with the base changes nothing that is saved.
LEMMA ReadBookInv == ASSUME NEW a \in Attempts, IInv, ReadBook(a) PROVE IInv'
<1> USE DEF ReadBook, rowVars, dataVars
<1>1. CASE End(a, "aborted") \/ End(a, "conflict")
  BY <1>1, EndInv DEF Active, InCommit
<1>2. CASE /\ LockBookAs(a, ReadMode) /\ Goto(a, "insert")
           /\ UNCHANGED <<rowVars, dataVars, work, base, seen, runLock>>
  <2>1. LocksCompatible' /\ bookLock' \in [Attempts -> Modes]
    BY <1>2, LockBookInv DEF IInv, TypeOK, Modes, ReadMode, None
  <2>2. /\ \A b \in Attempts \ {a} : bookLock'[b] = bookLock[b]
        /\ runLock'[work'[a]] = a /\ Owners(work'[a]) = {}
    BY <1>2 DEF IInv, TypeOK, LockBookAs, RunOwned, InCommit
  <2>3. SavesFromBase(a)'
    BY <1>2 DEF IInv, TypeOK, SeenFromBase, SavesFromBase, Kind, Content, Parent, Active,
                InCommit, Goto
  <2> QED BY <1>2, <2>1, <2>2, <2>3, MoveInv DEF IInv, TypeOK, PointersValid, Active, InCommit
<1> QED BY <1>1, <1>2

\* Once the pointer is switched the row lock keeps the base current.
LEMMA SwitchCurrentInv == ASSUME NEW a \in Attempts, IInv, SwitchCurrent(a) PROVE IInv'
<1> USE DEF SwitchCurrent, rowVars, dataVars
<1>1. CASE End(a, "conflict")
  BY <1>1, EndInv DEF Active, InCommit
<1>2. CASE /\ current = base[a] /\ LockBookAs(a, NoKeyUpdate) /\ Goto(a, "finish")
           /\ UNCHANGED <<rowVars, dataVars, work, base, seen, runLock>>
  <2>1. LocksCompatible' /\ bookLock' \in [Attempts -> Modes]
    BY <1>2, LockBookInv DEF IInv, TypeOK, Modes, NoKeyUpdate
  <2>2. /\ \A b \in Attempts \ {a} : bookLock'[b] = bookLock[b]
        /\ runLock'[work'[a]] = a /\ Owners(work'[a]) = {}
    BY <1>2 DEF IInv, TypeOK, LockBookAs, RunOwned, InCommit
  <2>3. bookLock'[a] >= NoKeyUpdate
    BY <1>2 DEF IInv, TypeOK, LockBookAs, Stronger, NoKeyUpdate, Modes
  <2>4. SavesFromBase(a)'
    BY <1>2 DEF IInv, TypeOK, SeenFromBase, SavesFromBase, Kind, Content, Parent, Active,
                InCommit, Goto
  <2> QED BY <1>2, <2>1, <2>2, <2>3, <2>4, MoveInv
          DEF IInv, TypeOK, PointersValid, Active, InCommit
<1> QED BY <1>1, <1>2

\* Rolling back is an end without effect.
LEMMA RollbackInv == ASSUME NEW a \in Attempts, IInv, Rollback(a) PROVE IInv'
  BY EndInv DEF Rollback

\* Writing the row of a version that is not committed changes no committed one.
LEMMA InsertVersionInv == ASSUME NEW a \in Attempts, IInv, InsertVersion(a) PROVE IInv'
<1> USE DEF InsertVersion
<1>1. CASE End(a, "conflict")
  BY <1>1, EndInv DEF Active, InCommit
<1>2. CASE /\ ver' = [ver EXCEPT ![a] = VersionRow(a)]
           /\ LockBookAs(a, KeyShare) /\ Goto(a, "switch")
           /\ UNCHANGED <<rowVars, versions, current, deleted, work, base, seen, runLock>>
  <2> USE DEF rowVars, Goto
  <2>1. a \notin versions /\ NoVersion \notin versions
    BY NullAssumption DEF IInv, TypeOK, PointersValid
  <2>2. ver' \in [Attempts -> Row] /\ ver'[a] = VersionRow(a)
        /\ \A b \in Attempts \ {a} : ver'[b] = ver[b]
    <3>1. \A v \in Attempts : ver[v] \in Row
      BY DEF IInv, TypeOK
    <3>2. Depth(base[a]) \in Nat /\ base[a] \in VersionIds /\ NewContent(a) \in SUBSET Runs
      BY <3>1 DEF IInv, TypeOK, Depth, NewContent, Row, VersionIds
    <3>3. VersionRow(a) \in Row
      BY <3>2 DEF IInv, TypeOK, VersionRow, Row
    <3> QED BY <1>2, <3>3 DEF IInv, TypeOK
  <2>3. \A v \in versions : v \in Attempts /\ ver'[v] = ver[v]
    BY <2>1, <2>2 DEF IInv, TypeOK
  <2>4. \A v \in versions \union {NoVersion} :
          Depth(v)' = Depth(v) /\ Content(v)' = Content(v) /\ Parent(v)' = Parent(v)
    BY <2>3 DEF Depth, Content, Parent
  <2>5. \A r \in Runs : Owners(r)' = Owners(r)
    BY <1>2, <2>3 DEF Owners
  <2>6. current \in versions \union {NoVersion}
        /\ (\A b \in Attempts : base[b] \in versions \union {NoVersion})
        /\ \A v \in versions : ver[v].parent \in versions \union {NoVersion}
    BY DEF IInv, LinearHistory, PointersValid
  <2>7. LocksCompatible' /\ bookLock' \in [Attempts -> Modes]
    BY <1>2, LockBookInv DEF IInv, TypeOK, InsertBlockers, Modes, KeyShare
  <2>8. TypeOK'
    BY <1>2, <2>2, <2>7 DEF IInv, TypeOK, Active, InCommit
  <2>9. OneVersionPerRun'
    BY <1>2, <2>5 DEF IInv, OneVersionPerRun
  <2>10. LinearHistory'
    <3>1. \A v \in versions :
            /\ (ver[v].number = Depth(ver[v].parent) + 1)'
            /\ ver'[v].parent \in versions \union {NoVersion}
            /\ (ver[v].number <= Depth(current))'
      BY <1>2, <2>3, <2>4, <2>6 DEF IInv, LinearHistory, Depth
    <3>2. \A v, w \in versions : ver'[v].number = ver'[w].number => v = w
      BY <2>3 DEF IInv, LinearHistory
    <3> QED BY <1>2, <3>1, <3>2 DEF IInv, LinearHistory, Depth
  <2>11. NoLostUpdate'
    <3> SUFFICES ASSUME NEW v \in versions
                 PROVE  /\ KindOf[ver'[v].run] = "create" => ver'[v].content = {}
                        /\ KindOf[ver'[v].run] = "undo" =>
                             ver'[v].content = Content(Parent(ver[v].parent))'
                        /\ KindOf[ver'[v].run] \notin {"create", "undo"} =>
                             ver'[v].content = Content(ver[v].parent)' \union {ver'[v].run}
      BY <1>2 DEF NoLostUpdate
    <3>1. ver'[v] = ver[v] /\ ver[v].parent \in versions \union {NoVersion}
      BY <2>3, <2>6
    <3>2. Parent(ver[v].parent) \in versions \union {NoVersion}
      BY <3>1, <2>6 DEF Parent
    <3>3. /\ Content(ver[v].parent)' = Content(ver[v].parent)
          /\ Content(Parent(ver[v].parent))' = Content(Parent(ver[v].parent))
      BY <3>1, <3>2, <2>4 DEF Content, Parent
    <3> QED BY <3>1, <3>3 DEF IInv, NoLostUpdate
  <2>12. RunOwned'
    BY <1>2, <2>5 DEF IInv, TypeOK, RunOwned, InCommit
  <2>13. PointersValid'
    BY <1>2, <2>1 DEF IInv, TypeOK, PointersValid
  <2>14. SeenFromBase'
    <3>1. ASSUME NEW b \in Attempts, pc'[b] \in Active PROVE SavesFromBase(b)'
      <4>1. pc[b] \in Active /\ SavesFromBase(b) /\ (pc'[b] # "book" => pc[b] # "book")
        BY <1>2, <3>1 DEF IInv, TypeOK, SeenFromBase, Active, InCommit
      <4>2. base[b] \in versions \union {NoVersion} /\ Parent(base[b]) \in versions \union {NoVersion}
        BY <2>6 DEF Parent
      <4>3. /\ Content(base[b])' = Content(base[b]) /\ Parent(base[b])' = Parent(base[b])
            /\ Content(Parent(base[b]))' = Content(Parent(base[b]))
        BY <1>2, <4>2, <2>4 DEF Content, Parent
      <4> QED BY <1>2, <4>1, <4>3 DEF SavesFromBase, Kind
    <3> QED BY <1>2, <3>1 DEF IInv, SeenFromBase
  <2>15. InsertedRow'
    <3>1. \A b \in Attempts : VersionRow(b)' = VersionRow(b)
      BY <1>2, <2>4, <2>6 DEF VersionRow, NewContent, Kind, Depth
    <3>2. ASSUME NEW b \in Attempts, b # a
          PROVE  /\ pc'[b] \in {"switch", "finish"} => ver'[b] = VersionRow(b)'
                 /\ pc'[b] = "finish" => bookLock'[b] >= NoKeyUpdate /\ current' = base'[b]
      BY <1>2, <2>2, <3>1, <3>2 DEF IInv, TypeOK, InsertedRow, LockBookAs
    <3>3. /\ ver'[a] = VersionRow(a)' /\ pc'[a] = "switch"
      BY <1>2, <2>2, <3>1 DEF IInv, TypeOK
    <3> QED BY <3>2, <3>3 DEF InsertedRow
  <2>16. NoGap'
    <3>1. Depth(current)' = Depth(current)
      BY <1>2, <2>4, <2>6 DEF Depth
    <3> QED BY <1>2, <2>3, <3>1 DEF IInv, NoGap
  <2>17. OperationRows'
    <3>1. \A b \in Attempts : Owners(work[b])' = Owners(work[b])
      BY <1>2, <2>3 DEF Owners
    <3>2. \A r \in rows : KindOf[r] \in {"edit", "undo"} => Owners(r)' # {}
      BY <1>2, <2>5 DEF IInv, TypeOK, OperationRows
    <3>3. \A b \in Attempts : pc'[b] = "reused" => Owners(work[b])' # {}
      BY <1>2, <3>1 DEF IInv, TypeOK, OperationRows
    <3>4. rows' = rows
      BY <1>2
    <3> QED BY <3>2, <3>3, <3>4 DEF OperationRows
  <2> QED BY <2>7, <2>8, <2>9, <2>10, <2>11, <2>12, <2>13, <2>14, <2>15, <2>16, <2>17 DEF IInv
<1> QED BY <1>1, <1>2

\* Committing appends the attempt's row after the current version: the run
\* has no other version, the base is still current, and no other attempt is
\* past its switch.
LEMMA FinishCommitInv == ASSUME NEW a \in Attempts, IInv, FinishCommit(a) PROVE IInv'
<1> USE DEF FinishCommit, CompleteRun, Goto
<1>1. /\ a \notin versions /\ a # NoVersion /\ NoVersion \notin versions
      /\ pc' = [pc EXCEPT ![a] = "committed"] /\ ver' = ver /\ current' = a
      /\ versions' = versions \union {a}
  BY NullAssumption DEF IInv, TypeOK, PointersValid
<1>2. /\ ver[a] = VersionRow(a) /\ current = base[a] /\ bookLock[a] >= NoKeyUpdate
      /\ runLock[work[a]] = a /\ Owners(work[a]) = {} /\ work[a] \in Runs
      /\ SavesFromBase(a)
  BY DEF IInv, TypeOK, InsertedRow, RunOwned, SeenFromBase, Active, InCommit
<1>3. /\ ver[a].number = Depth(current) + 1 /\ ver[a].parent = current
      /\ ver[a].run = work[a] /\ ver[a].content = NewContent(a)
  BY <1>2 DEF VersionRow
<1>4. Depth(current) \in Nat /\ current \in versions \union {NoVersion}
      /\ \A v \in versions : ver[v].number \in Nat /\ ver[v].number <= Depth(current)
  BY DEF IInv, TypeOK, LinearHistory, Depth, Row
<1>5. \A v : Depth(v)' = Depth(v) /\ Content(v)' = Content(v) /\ Parent(v)' = Parent(v)
  BY <1>1 DEF Depth, Content, Parent
<1>6. \A r \in Runs : Owners(r)' = IF r = work[a] THEN {a} ELSE Owners(r)
  BY <1>1, <1>2, <1>3 DEF Owners
<1>7. \A b \in Attempts \ {a} : pc[b] # "finish"
  BY <1>2 DEF IInv, TypeOK, LocksCompatible, InsertedRow, Conflict, NoKeyUpdate, Modes
<1>8. \A b \in Attempts \ {a} : pc[b] \in InCommit => work[b] # work[a]
  BY <1>2 DEF IInv, RunOwned
<1>9. TypeOK'
  <2>1. baseOf' \in [Runs -> VersionIds] /\ result' \in [Runs -> VersionIds]
    BY <1>2 DEF IInv, TypeOK, VersionIds
  <2>2. /\ runLock' \in [Runs -> Attempts \union {NoAttempt}]
        /\ bookLock' \in [Attempts -> Modes]
    BY DEF IInv, TypeOK, Release, None, Modes
  <2>3. pc' \in [Attempts -> Active \union Ended \union {"idle"}]
    BY DEF IInv, TypeOK, Ended
  <2> QED BY <1>2, <2>1, <2>2, <2>3 DEF IInv, TypeOK, VersionIds
<1>10. OneVersionPerRun'
  <2>1. result'[work[a]] = a /\ \A r \in Runs \ {work[a]} : result'[r] = result[r]
    BY <1>2 DEF IInv, TypeOK
  <2> QED BY <1>1, <1>6, <2>1 DEF IInv, OneVersionPerRun
<1>11. LinearHistory'
  <2>1. \A v \in versions' :
          /\ ver[v].number = Depth(ver[v].parent) + 1
          /\ ver[v].parent \in versions' \union {NoVersion}
          /\ ver[v].number <= ver[a].number
    BY <1>1, <1>3, <1>4 DEF IInv, LinearHistory
  <2>2. \A v, w \in versions' : ver[v].number = ver[w].number => v = w
    BY <1>1, <1>3, <1>4 DEF IInv, LinearHistory
  <2>3. Depth(current)' = ver[a].number
    BY <1>1 DEF Depth
  <2>4. \A v \in versions' : Depth(ver[v].parent)' = Depth(ver[v].parent)
    BY <1>1 DEF Depth
  <2> QED BY <1>1, <2>1, <2>2, <2>3, <2>4 DEF LinearHistory
<1>12. NoLostUpdate'
  <2>1. ASSUME NEW v \in versions \union {a}
        PROVE  /\ KindOf[ver[v].run] = "create" => ver[v].content = {}
               /\ KindOf[ver[v].run] = "undo" =>
                    ver[v].content = Content(Parent(ver[v].parent))
               /\ KindOf[ver[v].run] \notin {"create", "undo"} =>
                    ver[v].content = Content(ver[v].parent) \union {ver[v].run}
    <3>1. CASE v \in versions
      BY <3>1 DEF IInv, NoLostUpdate
    <3>2. CASE v = a
      BY <3>2, <1>2, <1>3 DEF SavesFromBase, NewContent, Kind, Ended
    <3> QED BY <3>1, <3>2
  <2> QED BY <1>1, <2>1 DEF NoLostUpdate, Content, Parent
<1>13. LocksCompatible'
  BY DEF IInv, TypeOK, LocksCompatible, Release, Conflict, None, Modes
<1>14. RunOwned'
  <2> SUFFICES ASSUME NEW b \in Attempts, pc'[b] \in InCommit
               PROVE  runLock'[work[b]] = b /\ {v \in versions' : ver'[v].run = work[b]} = {}
    BY DEF RunOwned, Owners
  <2>1. b # a /\ pc[b] \in InCommit
    BY <1>1 DEF IInv, TypeOK, InCommit
  <2>2. runLock[work[b]] = b /\ Owners(work[b]) = {} /\ work[b] # work[a] /\ work[b] \in Runs
    BY <1>8, <2>1 DEF IInv, TypeOK, RunOwned
  <2> QED BY <1>1, <1>3, <2>1, <2>2 DEF Release, Owners
<1>15. PointersValid'
  BY <1>1, <1>2 DEF IInv, TypeOK, PointersValid
<1>16. SeenFromBase'
  <2>1. \A r \in Runs : KindOf[r] = "create" => r \in rows' /\ baseOf'[r] = NoVersion
    BY <1>2 DEF IInv, TypeOK, SeenFromBase
  <2>2. ASSUME NEW b \in Attempts, pc'[b] \in Active PROVE SavesFromBase(b)'
    <3>1. b # a /\ pc'[b] = pc[b] /\ SavesFromBase(b)
      BY <1>1, <2>2 DEF IInv, TypeOK, SeenFromBase, Active, InCommit
    <3> QED BY <1>1, <3>1 DEF SavesFromBase, Kind, Content, Parent
  <2> QED BY <2>1, <2>2 DEF SeenFromBase
<1>17. InsertedRow'
  <2> SUFFICES ASSUME NEW b \in Attempts, pc'[b] \in {"switch", "finish"}
               PROVE  ver[b] = VersionRow(b)' /\ pc'[b] # "finish"
    BY <1>1 DEF InsertedRow
  <2>1. b # a /\ pc'[b] = pc[b]
    BY <1>1 DEF IInv, TypeOK
  <2>2. VersionRow(b)' = VersionRow(b)
    BY <1>1 DEF VersionRow, NewContent, Kind, Depth
  <2> QED BY <1>7, <2>1, <2>2 DEF IInv, InsertedRow
<1>18. NoGap'
  <2> SUFFICES ASSUME NEW k \in 1..ver[a].number
               PROVE  \E v \in versions \union {a} : ver[v].number = k
    BY <1>1 DEF NoGap, Depth
  <2>1. CASE k = ver[a].number
    BY <2>1
  <2>2. CASE k # ver[a].number
    <3>1. k \in 1..Depth(current)
      BY <1>3, <1>4, <2>2
    <3> QED BY <3>1 DEF IInv, NoGap
  <2> QED BY <2>1, <2>2
<1>19. OperationRows'
  <2>1. \A r \in rows' : KindOf[r] \in {"edit", "undo"} => Owners(r)' # {}
    BY <1>2, <1>6 DEF IInv, TypeOK, OperationRows
  <2>2. ASSUME NEW b \in Attempts, pc'[b] = "reused" PROVE Owners(work[b])' # {}
    <3>1. pc[b] = "reused" /\ Owners(work[b]) # {}
      BY <1>1, <2>2 DEF IInv, TypeOK, OperationRows
    <3> QED BY <1>1, <3>1 DEF Owners
  <2> QED BY <2>1, <2>2 DEF OperationRows
<1> QED BY <1>9, <1>10, <1>11, <1>12, <1>13, <1>14, <1>15, <1>16, <1>17, <1>18, <1>19 DEF IInv

-----------------------------------------------------------------------------
\* Every statement of every attempt, and every other writer, preserves IInv.
LEMMA NextInv == IInv /\ [Next]_vars => IInv'
<1> SUFFICES ASSUME IInv, [Next]_vars PROVE IInv'
  OBVIOUS
<1>1. CASE \E r \in Runs : CreateRow(r)
  BY <1>1, CreateRowInv
<1>2. CASE SoftDelete
  BY <1>2, SoftDeleteInv
<1>3. CASE \E a \in Attempts, r \in Runs : Load(a, r)
  BY <1>3, LoadInv
<1>4. CASE \E a \in Attempts : Step(a)
  BY <1>4, FindOperationInv, InsertRunInv, LockRunFirstInv, LockBookStepInv, ResolveInv,
     PrepareUndoInv, EnterCommitInv, ReadBookInv, InsertVersionInv, SwitchCurrentInv,
     FinishCommitInv DEF Step
<1>5. CASE \E a \in Attempts : Rollback(a)
  BY <1>5, RollbackInv
<1>6. CASE UNCHANGED vars
  <2> USE <1>6 DEF vars, rowVars, dataVars, lockVars
  <2>1. TypeOK' /\ LocksCompatible'
    BY DEF IInv, TypeOK, LocksCompatible
  <2>2. OneVersionPerRun' /\ LinearHistory' /\ NoGap'
    BY DEF IInv, OneVersionPerRun, LinearHistory, NoGap, Owners, Depth
  <2>3. NoLostUpdate' /\ PointersValid'
    BY DEF IInv, NoLostUpdate, PointersValid, Content, Parent
  <2>4. RunOwned' /\ OperationRows'
    BY DEF IInv, RunOwned, OperationRows, Owners
  <2>5. SeenFromBase'
    BY DEF IInv, SeenFromBase, SavesFromBase, Kind, Content, Parent
  <2>6. InsertedRow'
    BY DEF IInv, InsertedRow, VersionRow, NewContent, Kind, Depth
  <2> QED BY <2>1, <2>2, <2>3, <2>4, <2>5, <2>6 DEF IInv
<1> QED BY <1>1, <1>2, <1>3, <1>4, <1>5, <1>6 DEF Next

\* The inductive invariant holds in every reachable state, for any set of runs
\* and any number of deliveries and retries of each.
THEOREM Invariance == Spec => []IInv
  BY InitInv, NextInv, PTL DEF Spec

\* VersionService.commit never gives one run two versions, and the run's
\* result_version_id names the one it has.
THEOREM RunsOwnOneVersion == Spec => []OneVersionPerRun
<1>1. IInv => OneVersionPerRun
  BY DEF IInv
<1> QED BY <1>1, Invariance, PTL

\* The committed versions always form one line that ends in the current one.
THEOREM HistoryIsLinear == Spec => []LinearHistory
<1>1. IInv => LinearHistory
  BY DEF IInv
<1> QED BY <1>1, Invariance, PTL

\* No committed version drops the change of a concurrent one.
THEOREM NoUpdateIsLost == Spec => []NoLostUpdate
<1>1. IInv => NoLostUpdate
  BY DEF IInv
<1> QED BY <1>1, Invariance, PTL

\* Every variable keeps its type.
THEOREM TypeCorrect == Spec => []TypeOK
<1>1. IInv => TypeOK
  BY DEF IInv
<1> QED BY <1>1, Invariance, PTL

\* A caller told that its operation is already done can be given its version.
THEOREM ReuseHandsOutResult == Spec => []ReuseHasResult
<1>1. IInv => ReuseHasResult
  BY DEF IInv, TypeOK, OneVersionPerRun, OperationRows, ReuseHasResult, Owners
<1> QED BY <1>1, Invariance, PTL

-----------------------------------------------------------------------------
(***************************************************************************)
(* Which locks an attempt holds at each of its statements.                 *)
(***************************************************************************)
\* The operations that lock the routebook row before they enter commit.
LocksBookFirst(a) == Kind(a) \in {"requirement", "plan", "accept", "undo"}

BookLockHeld(a) ==
  IF pc[a] \notin InCommit \union {"commit"} THEN None
  ELSE IF LocksBookFirst(a) THEN ForUpdate
  ELSE IF pc[a] = "finish" THEN NoKeyUpdate
  ELSE IF Kind(a) = "edit" \/ pc[a] = "switch" THEN KeyShare ELSE None

\* From where on an attempt owns the row of its run.
RunLockHeld(a) ==
  \/ pc[a] \in InCommit
  \/ pc[a] = "commit" /\ Kind(a) \in {"plan", "accept", "edit", "undo"}
  \/ pc[a] = "book" /\ Kind(a) \in {"plan", "accept"}

LocksInv ==
  /\ \A a \in Attempts : bookLock[a] = BookLockHeld(a)
  /\ \A a \in Attempts : RunLockHeld(a) => runLock[work[a]] = a
  /\ \A a \in Attempts, r \in Runs : runLock[r] = a => work[a] = r /\ RunLockHeld(a)
  /\ \A a \in Attempts :
       /\ pc[a] = "insertrun" => Kind(a) = "edit"
       /\ pc[a] = "book" => Kind(a) \in {"plan", "accept", "undo"}
       /\ pc[a] = "loaded" => Kind(a) \in {"requirement", "plan", "accept", "edit"}

LEMMA InitLocks == Init => LocksInv
BY NullAssumption DEF Init, LocksInv, BookLockHeld, RunLockHeld, InCommit

\* An attempt that ends frees what it held.
LEMMA EndLocks ==
  ASSUME NEW a \in Attempts, NEW l \in Ended, IInv, LocksInv,
         Goto(a, l), Release(a), work' = work
  PROVE  LocksInv'
<1>1. /\ pc' = [pc EXCEPT ![a] = l] /\ work' = work
      /\ runLock' = [r \in Runs |-> IF runLock[r] = a THEN NoAttempt ELSE runLock[r]]
      /\ bookLock' = [bookLock EXCEPT ![a] = None]
  BY DEF Goto, Release
<1>2. /\ pc \in [Attempts -> Active \union Ended \union {"idle"}] /\ work \in [Attempts -> Runs]
      /\ bookLock \in [Attempts -> Modes] /\ runLock \in [Runs -> Attempts \union {NoAttempt}]
  BY DEF IInv, TypeOK
<1>3. pc'[a] = l /\ bookLock'[a] = None /\ l \notin InCommit \union {"commit", "book", "insertrun", "loaded"}
  BY <1>1, <1>2 DEF Ended, InCommit
<1>4. \A b \in Attempts \ {a} : pc'[b] = pc[b] /\ bookLock'[b] = bookLock[b]
  BY <1>1, <1>2
<1>5. \A b \in Attempts \ {a} : /\ BookLockHeld(b)' = BookLockHeld(b)
                                /\ RunLockHeld(b)' = RunLockHeld(b)
  BY <1>1, <1>4 DEF BookLockHeld, RunLockHeld, LocksBookFirst, Kind
<1>6. BookLockHeld(a)' = None /\ ~RunLockHeld(a)'
  BY <1>3 DEF BookLockHeld, RunLockHeld
<1>7. \A b \in Attempts : bookLock'[b] = BookLockHeld(b)'
  BY <1>3, <1>4, <1>5, <1>6 DEF LocksInv
<1>8. \A b \in Attempts : RunLockHeld(b)' => runLock'[work[b]] = b
  BY <1>1, <1>2, <1>5, <1>6 DEF LocksInv
<1>9. \A b \in Attempts, r \in Runs : runLock'[r] = b => b # a /\ runLock[r] = b
  BY <1>1, <1>2, NullAssumption
<1>10. \A b \in Attempts, r \in Runs : runLock'[r] = b => work'[b] = r /\ RunLockHeld(b)'
  BY <1>1, <1>5, <1>9 DEF LocksInv
<1>11. \A b \in Attempts :
         /\ pc'[b] = "insertrun" => Kind(b)' = "edit"
         /\ pc'[b] = "book" => Kind(b)' \in {"plan", "accept", "undo"}
         /\ pc'[b] = "loaded" => Kind(b)' \in {"requirement", "plan", "accept", "edit"}
  BY <1>1, <1>3, <1>4 DEF LocksInv, Kind
<1> QED  BY <1>1, <1>7, <1>8, <1>10, <1>11 DEF LocksInv

\* An attempt that goes on holds what its next statement needs: it keeps its run
\* row, or takes one that is free.
LEMMA MoveLocks ==
  ASSUME NEW a \in Attempts, NEW l, IInv, LocksInv, Goto(a, l), work' = work,
         bookLock' = [bookLock EXCEPT ![a] = BookLockHeld(a)'],
         \/ runLock' = runLock /\ RunLockHeld(a)' = RunLockHeld(a)
         \/ LockRun(a) /\ RunBlockers(a) = {} /\ RunLockHeld(a)',
         l = "insertrun" => Kind(a) = "edit",
         l = "book" => Kind(a) \in {"plan", "accept", "undo"},
         l = "loaded" => Kind(a) \in {"requirement", "plan", "accept", "edit"}
  PROVE  LocksInv'
<1>1. /\ pc \in [Attempts -> Active \union Ended \union {"idle"}] /\ work \in [Attempts -> Runs]
      /\ bookLock \in [Attempts -> Modes] /\ runLock \in [Runs -> Attempts \union {NoAttempt}]
  BY DEF IInv, TypeOK
<1>2. pc'[a] = l /\ \A b \in Attempts \ {a} : pc'[b] = pc[b]
  BY <1>1 DEF Goto
<1>3. \A b \in Attempts \ {a} : /\ BookLockHeld(b)' = BookLockHeld(b)
                                /\ RunLockHeld(b)' = RunLockHeld(b)
  BY <1>2 DEF BookLockHeld, RunLockHeld, LocksBookFirst, Kind
<1>4. \A b \in Attempts : bookLock'[b] = BookLockHeld(b)'
  BY <1>1, <1>3 DEF LocksInv
<1>5. /\ \A b \in Attempts : RunLockHeld(b)' => runLock'[work[b]] = b
      /\ \A b \in Attempts, r \in Runs : runLock'[r] = b => work[b] = r /\ RunLockHeld(b)'
  <2>1. CASE runLock' = runLock /\ RunLockHeld(a)' = RunLockHeld(a)
    <3>1. \A b \in Attempts : RunLockHeld(b)' = RunLockHeld(b)
      BY <1>3, <2>1
    <3> QED  BY <2>1, <3>1 DEF LocksInv
  <2>2. CASE LockRun(a) /\ RunBlockers(a) = {} /\ RunLockHeld(a)'
    <3>1. runLock[work[a]] \in {a, NoAttempt}
      BY <2>2 DEF RunBlockers
    <3>2. /\ runLock'[work[a]] = a
          /\ \A r \in Runs \ {work[a]} : runLock'[r] = runLock[r]
      BY <1>1, <2>2 DEF LockRun
    <3>3. \A b \in Attempts \ {a} : RunLockHeld(b) => work[b] # work[a]
      BY <1>1, <3>1, NullAssumption DEF LocksInv
    <3>4. \A b \in Attempts : RunLockHeld(b)' => runLock'[work[b]] = b
      BY <1>1, <1>3, <3>2, <3>3 DEF LocksInv
    <3>5. \A b \in Attempts, r \in Runs : runLock'[r] = b => work[b] = r /\ RunLockHeld(b)'
      BY <1>1, <1>3, <2>2, <3>2 DEF LocksInv
    <3> QED  BY <3>4, <3>5
  <2> QED  BY <2>1, <2>2
<1>6. \A b \in Attempts :
         /\ pc'[b] = "insertrun" => Kind(b)' = "edit"
         /\ pc'[b] = "book" => Kind(b)' \in {"plan", "accept", "undo"}
         /\ pc'[b] = "loaded" => Kind(b)' \in {"requirement", "plan", "accept", "edit"}
  BY <1>2 DEF LocksInv, Kind
<1> QED  BY <1>4, <1>5, <1>6 DEF LocksInv

\* The statements that go on, by what they lock.
LEMMA StepLocks ==
  ASSUME NEW a \in Attempts, IInv, LocksInv, Step(a)
  PROVE  LocksInv'
<1>1. /\ pc \in [Attempts -> Active \union Ended \union {"idle"}] /\ work \in [Attempts -> Runs]
      /\ bookLock \in [Attempts -> Modes] /\ Kind(a) \in Kinds
      /\ bookLock[a] = BookLockHeld(a)
  BY KindAssumption DEF IInv, TypeOK, Kind, LocksInv
<1>2. ASSUME NEW l \in {"aborted", "conflict", "reused", "committed"}, End(a, l)
      PROVE  LocksInv'
  BY <1>2, EndLocks DEF Ended, End
<1>3. CASE FindOperation(a)
  <2>1. PICK l \in {"reused", "insertrun"} : Goto(a, l)
    BY <1>3 DEF FindOperation
  <2>2. work' = work /\ bookLock' = bookLock /\ runLock' = runLock /\ pc[a] = "loaded" /\ Kind(a) = "edit"
    BY <1>3 DEF FindOperation, lockVars
  <2>3. pc'[a] = l  BY <1>1, <2>1 DEF Goto
  <2>4. BookLockHeld(a) = None /\ BookLockHeld(a)' = None /\ RunLockHeld(a)' = RunLockHeld(a)
    BY <2>2, <2>3 DEF BookLockHeld, RunLockHeld, InCommit
  <2>5. bookLock' = [bookLock EXCEPT ![a] = BookLockHeld(a)']
    BY <1>1, <2>2, <2>4
  <2>6. l # "book" /\ l # "loaded"  OBVIOUS
  <2> QED  BY <2>1, <2>2, <2>4, <2>5, <2>6, MoveLocks
<1>4. CASE InsertRun(a) /\ ~End(a, "aborted")
  <2>1. /\ Goto(a, "commit") /\ LockRun(a) /\ LockBookAs(a, KeyShare) /\ work' = work
        /\ pc[a] = "insertrun" /\ RunBlockers(a) = {} /\ Kind(a) = "edit"
    BY <1>4 DEF InsertRun, InsertRunBlockers, LocksInv
  <2>2. pc'[a] = "commit" /\ Kind(a)' = "edit"  BY <1>1, <2>1 DEF Kind, Goto
  <2>3. BookLockHeld(a) = None /\ BookLockHeld(a)' = KeyShare /\ RunLockHeld(a)'
    BY <2>1, <2>2 DEF BookLockHeld, RunLockHeld, InCommit, LocksBookFirst
  <2>4. bookLock' = [bookLock EXCEPT ![a] = BookLockHeld(a)']
    BY <1>1, <2>1, <2>3 DEF LockBookAs, Stronger, None, KeyShare
  <2> QED  BY <2>1, <2>3, <2>4, MoveLocks
<1>5. CASE LockRunFirst(a) /\ ~End(a, "reused")
  <2>1. /\ Goto(a, "book") /\ LockRun(a) /\ bookLock' = bookLock /\ work' = work
        /\ pc[a] = "loaded" /\ RunBlockers(a) = {} /\ Kind(a) \in {"plan", "accept"}
    BY <1>5 DEF LockRunFirst
  <2>2. pc'[a] = "book" /\ Kind(a)' = Kind(a)  BY <1>1, <2>1 DEF Kind, Goto
  <2>3. BookLockHeld(a) = None /\ BookLockHeld(a)' = None /\ RunLockHeld(a)'
    BY <2>1, <2>2 DEF BookLockHeld, RunLockHeld, InCommit
  <2>4. bookLock' = [bookLock EXCEPT ![a] = BookLockHeld(a)']
    BY <1>1, <2>1, <2>3
  <2> QED  BY <2>1, <2>3, <2>4, MoveLocks
<1>6. CASE LockBook(a) /\ ~End(a, "aborted") /\ ~End(a, "conflict")
  <2>1. /\ Goto(a, "commit") /\ LockBookAs(a, ForUpdate) /\ runLock' = runLock /\ work' = work
        /\ pc[a] = "book" /\ Kind(a) \in {"plan", "accept"}
    BY <1>6 DEF LockBook
  <2>2. pc'[a] = "commit" /\ Kind(a)' = Kind(a)  BY <1>1, <2>1 DEF Kind, Goto
  <2>3. BookLockHeld(a) = None /\ BookLockHeld(a)' = ForUpdate /\ RunLockHeld(a)' = RunLockHeld(a)
    BY <2>1, <2>2 DEF BookLockHeld, RunLockHeld, InCommit, LocksBookFirst
  <2>4. bookLock' = [bookLock EXCEPT ![a] = BookLockHeld(a)']
    BY <1>1, <2>1, <2>3 DEF LockBookAs, Stronger, None, ForUpdate
  <2> QED  BY <2>1, <2>3, <2>4, MoveLocks
<1>7. CASE ResolveRequirementBase(a) /\ ~End(a, "aborted") /\ ~End(a, "conflict")
  <2>1. /\ Goto(a, "commit") /\ LockBookAs(a, ForUpdate) /\ runLock' = runLock /\ work' = work
        /\ pc[a] = "loaded" /\ Kind(a) = "requirement"
    BY <1>7 DEF ResolveRequirementBase
  <2>2. pc'[a] = "commit" /\ Kind(a)' = Kind(a)  BY <1>1, <2>1 DEF Kind, Goto
  <2>3. BookLockHeld(a) = None /\ BookLockHeld(a)' = ForUpdate /\ RunLockHeld(a)' = RunLockHeld(a)
    BY <2>1, <2>2 DEF BookLockHeld, RunLockHeld, InCommit, LocksBookFirst
  <2>4. bookLock' = [bookLock EXCEPT ![a] = BookLockHeld(a)']
    BY <1>1, <2>1, <2>3 DEF LockBookAs, Stronger, None, ForUpdate
  <2> QED  BY <2>1, <2>3, <2>4, MoveLocks
<1>8. CASE PrepareUndo(a) /\ ~End(a, "aborted")
  <2>1. /\ Goto(a, "commit") /\ LockBookAs(a, ForUpdate) /\ LockRun(a) /\ work' = work
        /\ pc[a] = "book" /\ Kind(a) = "undo" /\ RunBlockers(a) = {}
    BY <1>8 DEF PrepareUndo
  <2>2. pc'[a] = "commit" /\ Kind(a)' = Kind(a)  BY <1>1, <2>1 DEF Kind, Goto
  <2>3. BookLockHeld(a) = None /\ BookLockHeld(a)' = ForUpdate /\ RunLockHeld(a)'
    BY <2>1, <2>2 DEF BookLockHeld, RunLockHeld, InCommit, LocksBookFirst
  <2>4. bookLock' = [bookLock EXCEPT ![a] = BookLockHeld(a)']
    BY <1>1, <2>1, <2>3 DEF LockBookAs, Stronger, None, ForUpdate
  <2> QED  BY <2>1, <2>3, <2>4, MoveLocks
<1>9. CASE EnterCommit(a) /\ ~End(a, "reused")
  <2>1. /\ Goto(a, "read") /\ LockRun(a) /\ bookLock' = bookLock /\ work' = work
        /\ pc[a] = "commit" /\ RunBlockers(a) = {}
    BY <1>9 DEF EnterCommit
  <2>2. pc'[a] = "read" /\ Kind(a)' = Kind(a)  BY <1>1, <2>1 DEF Kind, Goto
  <2>3. BookLockHeld(a)' = BookLockHeld(a) /\ RunLockHeld(a)'
    BY <2>1, <2>2 DEF BookLockHeld, RunLockHeld, InCommit, LocksBookFirst
  <2>4. bookLock' = [bookLock EXCEPT ![a] = BookLockHeld(a)']
    BY <1>1, <2>1, <2>3
  <2> QED  BY <2>1, <2>3, <2>4, MoveLocks
<1>10. CASE ReadBook(a) /\ ~End(a, "aborted") /\ ~End(a, "conflict")
  <2>1. /\ Goto(a, "insert") /\ LockBookAs(a, None) /\ runLock' = runLock /\ work' = work
        /\ pc[a] = "read"
    BY <1>10 DEF ReadBook, ReadMode
  <2>2. pc'[a] = "insert" /\ Kind(a)' = Kind(a)  BY <1>1, <2>1 DEF Kind, Goto
  <2>3. BookLockHeld(a)' = BookLockHeld(a) /\ RunLockHeld(a)' /\ RunLockHeld(a)
    BY <2>1, <2>2 DEF BookLockHeld, RunLockHeld, InCommit, LocksBookFirst
  <2>4. bookLock' = [bookLock EXCEPT ![a] = BookLockHeld(a)']
    <3>1. Stronger(bookLock[a], None) = bookLock[a]
      BY <1>1 DEF Stronger, None, Modes
    <3> QED  BY <1>1, <2>1, <2>3, <3>1 DEF LockBookAs
  <2> QED  BY <2>1, <2>3, <2>4, MoveLocks
<1>11. CASE InsertVersion(a) /\ ~End(a, "conflict")
  <2>1. /\ Goto(a, "switch") /\ LockBookAs(a, KeyShare) /\ runLock' = runLock /\ work' = work
        /\ pc[a] = "insert"
    BY <1>11 DEF InsertVersion
  <2>2. pc'[a] = "switch" /\ Kind(a)' = Kind(a)  BY <1>1, <2>1 DEF Kind, Goto
  <2>3. /\ BookLockHeld(a)' = Stronger(BookLockHeld(a), KeyShare)
        /\ RunLockHeld(a)' /\ RunLockHeld(a)
    BY <2>1, <2>2 DEF BookLockHeld, RunLockHeld, InCommit, LocksBookFirst, Stronger,
                      None, KeyShare, NoKeyUpdate, ForUpdate
  <2>4. bookLock' = [bookLock EXCEPT ![a] = BookLockHeld(a)']
    BY <1>1, <2>1, <2>3 DEF LockBookAs
  <2> QED  BY <2>1, <2>3, <2>4, MoveLocks
<1>12. CASE SwitchCurrent(a) /\ ~End(a, "conflict")
  <2>1. /\ Goto(a, "finish") /\ LockBookAs(a, NoKeyUpdate) /\ runLock' = runLock /\ work' = work
        /\ pc[a] = "switch"
    BY <1>12 DEF SwitchCurrent
  <2>2. pc'[a] = "finish" /\ Kind(a)' = Kind(a)  BY <1>1, <2>1 DEF Kind, Goto
  <2>3. /\ BookLockHeld(a)' = Stronger(BookLockHeld(a), NoKeyUpdate)
        /\ RunLockHeld(a)' /\ RunLockHeld(a)
    BY <2>1, <2>2 DEF BookLockHeld, RunLockHeld, InCommit, LocksBookFirst, Stronger,
                      None, KeyShare, NoKeyUpdate, ForUpdate
  <2>4. bookLock' = [bookLock EXCEPT ![a] = BookLockHeld(a)']
    BY <1>1, <2>1, <2>3 DEF LockBookAs
  <2> QED  BY <2>1, <2>3, <2>4, MoveLocks
<1>13. CASE FinishCommit(a)
  BY <1>13, EndLocks DEF FinishCommit, Ended
<1> QED  BY <1>2, <1>3, <1>4, <1>5, <1>6, <1>7, <1>8, <1>9, <1>10, <1>11, <1>12, <1>13
         DEF Step

LEMMA LoadLocks ==
  ASSUME NEW a \in Attempts, NEW r \in Runs, IInv, LocksInv, Load(a, r)
  PROVE  LocksInv'
<1>1. /\ pc \in [Attempts -> Active \union Ended \union {"idle"}] /\ work \in [Attempts -> Runs]
      /\ bookLock \in [Attempts -> Modes] /\ runLock \in [Runs -> Attempts \union {NoAttempt}]
  BY DEF IInv, TypeOK
<1>2. /\ pc[a] = "idle" /\ work' = [work EXCEPT ![a] = r] /\ UNCHANGED <<runLock, bookLock>>
  BY DEF Load, lockVars
<1>3. PICK l : /\ Goto(a, l)
               /\ \/ l = "commit" /\ KindOf[r] \in {"create", "enrich"}
                  \/ l = "loaded" /\ KindOf[r] \in {"requirement", "plan", "accept", "edit"}
                  \/ l = "book" /\ KindOf[r] = "undo"
                  \/ l = "reused"
  BY DEF Load, LoadRun, LoadInput, LoadCurrent, FindUndo
<1>4. /\ pc'[a] = l /\ work'[a] = r
      /\ \A b \in Attempts \ {a} : pc'[b] = pc[b] /\ work'[b] = work[b]
  BY <1>1, <1>2, <1>3 DEF Goto
<1>5. \A b \in Attempts \ {a} : /\ BookLockHeld(b)' = BookLockHeld(b)
                                /\ RunLockHeld(b)' = RunLockHeld(b)
  BY <1>4 DEF BookLockHeld, RunLockHeld, LocksBookFirst, Kind
<1>6. /\ BookLockHeld(a) = None /\ ~RunLockHeld(a)
      /\ BookLockHeld(a)' = None /\ ~RunLockHeld(a)'
  BY <1>2, <1>3, <1>4 DEF BookLockHeld, RunLockHeld, LocksBookFirst, Kind, InCommit
<1>7. \A b \in Attempts : bookLock'[b] = BookLockHeld(b)'
  BY <1>2, <1>5, <1>6 DEF LocksInv
<1>8. /\ \A b \in Attempts : RunLockHeld(b)' => runLock'[work'[b]] = b
      /\ \A b \in Attempts, q \in Runs : runLock'[q] = b => work'[b] = q /\ RunLockHeld(b)'
  BY <1>2, <1>4, <1>5, <1>6 DEF LocksInv
<1>9. \A b \in Attempts :
         /\ pc'[b] = "insertrun" => Kind(b)' = "edit"
         /\ pc'[b] = "book" => Kind(b)' \in {"plan", "accept", "undo"}
         /\ pc'[b] = "loaded" => Kind(b)' \in {"requirement", "plan", "accept", "edit"}
  BY <1>3, <1>4 DEF LocksInv, Kind
<1> QED  BY <1>7, <1>8, <1>9 DEF LocksInv

LEMMA NextLocks == IInv /\ LocksInv /\ [Next]_vars => LocksInv'
<1> SUFFICES ASSUME IInv, LocksInv, [Next]_vars PROVE LocksInv'
  OBVIOUS
<1>1. CASE \E a \in Attempts, r \in Runs : Load(a, r)
  BY <1>1, LoadLocks
<1>2. CASE \E a \in Attempts : Step(a)
  BY <1>2, StepLocks
<1>3. CASE \E a \in Attempts : Rollback(a)
  BY <1>3, EndLocks DEF Rollback, End, Ended
<1>4. CASE UNCHANGED <<pc, work, runLock, bookLock>>
  BY <1>4 DEF LocksInv, BookLockHeld, RunLockHeld, LocksBookFirst, Kind
<1> QED  BY <1>1, <1>2, <1>3, <1>4
         DEF Next, CreateRow, SoftDelete, vars, lockVars

\* In every state an attempt holds exactly the row locks that its place in its
\* transaction says (services.py 161-230, editing/persistence.py 76-260).
THEOREM LocksAreHeld == Spec => []LocksInv
BY InitLocks, NextLocks, Invariance, PTL DEF Spec

-----------------------------------------------------------------------------
\* No set of attempts whose members all wait within it: going from the holders
\* of the strongest lock to those of none, each waits for somebody who has been
\* ruled out before.
LEMMA NobodyWaitsInCircle ==
  ASSUME IInv, LocksInv, NEW S \in SUBSET Attempts,
         \A a \in S : \E b \in S : b \in Blockers(a)
  PROVE  S = {}
<1>1. \A a \in S : /\ bookLock[a] = BookLockHeld(a) /\ bookLock[a] \in Modes
                   /\ work[a] \in Runs /\ Kind(a) \in Kinds
                   /\ pc[a] \in Active \union Ended \union {"idle"}
  BY KindAssumption DEF IInv, TypeOK, LocksInv, Kind
\* Who waits for a book lock waits for a conflicting one of another.
<1>2. \A a \in S, b \in S, m \in Modes : b \in BookBlockers(a, m) => b # a /\ m + bookLock[b] > 3
  BY DEF BookBlockers, Conflict
\* Who waits for a run row waits for the attempt that owns it.
<1>3. \A a \in S, b \in S : b \in RunBlockers(a) =>
         b # a /\ work[b] = work[a] /\ Kind(b) = Kind(a) /\ RunLockHeld(b) /\ ~RunLockHeld(a)
  <2> SUFFICES ASSUME NEW a \in S, NEW b \in S, b \in RunBlockers(a)
               PROVE  b # a /\ work[b] = work[a] /\ Kind(b) = Kind(a) /\ RunLockHeld(b) /\ ~RunLockHeld(a)
    OBVIOUS
  <2>1. b # a /\ runLock[work[a]] = b  BY DEF RunBlockers
  <2> QED  BY <1>1, <2>1 DEF LocksInv, Kind
\* Who waits for a unique key waits for a row that was inserted.
<1>4. \A a \in S, b \in S : b \in InsertBlockers(a) =>
         b # a /\ (b \in BookBlockers(a, KeyShare) \/ pc[b] \in {"switch", "finish"})
  BY DEF InsertBlockers, BookBlockers
<1>5. \A a \in S : pc[a] # "finish"
  BY DEF Blockers
<1>6. \A a \in S : pc[a] # "read"
  BY <1>1, <1>2 DEF Blockers, ReadMode, None, Modes
\* The holder of the strongest lock excludes every other, and its run row is its
\* own or is taken by nobody.
<1>7. \A a \in S : bookLock[a] # ForUpdate
  <2> SUFFICES ASSUME NEW a \in S, bookLock[a] = ForUpdate PROVE FALSE
    OBVIOUS
  <2>1. \A b \in S \ {a} : bookLock[b] = None
    BY <1>1 DEF IInv, LocksCompatible, Conflict, ForUpdate, None, Modes
  <2>2. pc[a] \in {"commit", "insert", "switch"} /\ LocksBookFirst(a)
    BY <1>1, <1>5, <1>6 DEF BookLockHeld, InCommit, None, KeyShare, NoKeyUpdate, ForUpdate
  <2>3. PICK b \in S : b \in Blockers(a)
    OBVIOUS
  <2>4. \A m \in {KeyShare, NoKeyUpdate} : b \notin BookBlockers(a, m)
    <3>1. ASSUME NEW m \in {KeyShare, NoKeyUpdate}, b \in BookBlockers(a, m) PROVE FALSE
      <4>1. b # a /\ m + bookLock[b] > 3
        BY <1>2, <3>1 DEF Modes, KeyShare, NoKeyUpdate
      <4> QED  BY <2>1, <4>1 DEF None, KeyShare, NoKeyUpdate
    <3> QED  BY <3>1
  <2>5. CASE pc[a] = "commit"
    <3>1. b # a /\ Kind(b) = Kind(a) /\ RunLockHeld(b) /\ ~RunLockHeld(a)
      BY <1>3, <2>3, <2>5 DEF Blockers
    <3>2. Kind(b) = "requirement" /\ pc[b] \in InCommit
      BY <2>2, <2>5, <3>1 DEF RunLockHeld, LocksBookFirst
    <3> QED  BY <1>1, <2>1, <3>1, <3>2 DEF BookLockHeld, LocksBookFirst, None, ForUpdate
  <2>6. CASE pc[a] = "insert"
    <3>1. b # a /\ pc[b] \in {"switch", "finish"}
      BY <1>4, <2>3, <2>4, <2>6 DEF Blockers
    <3>2. bookLock[b] = BookLockHeld(b) /\ BookLockHeld(b) # None
      BY <1>1, <3>1 DEF BookLockHeld, InCommit, None, KeyShare, NoKeyUpdate, ForUpdate
    <3> QED  BY <2>1, <3>1, <3>2
  <2>7. CASE pc[a] = "switch"
    BY <2>3, <2>4, <2>7 DEF Blockers
  <2> QED  BY <2>2, <2>5, <2>6, <2>7
<1>8. \A a \in S : bookLock[a] \in {None, KeyShare}
  BY <1>1, <1>5, <1>7 DEF BookLockHeld
<1>9. \A a \in S, b \in S, m \in {None, KeyShare, NoKeyUpdate} : b \notin BookBlockers(a, m)
  <2> SUFFICES ASSUME NEW a \in S, NEW b \in S, NEW m \in {None, KeyShare, NoKeyUpdate},
                      b \in BookBlockers(a, m)
               PROVE  FALSE
    OBVIOUS
  <2>1. m + bookLock[b] > 3
    BY <1>2 DEF Modes, None, KeyShare, NoKeyUpdate
  <2> QED  BY <1>8, <2>1 DEF None, KeyShare, NoKeyUpdate
<1>10. \A a \in S : pc[a] # "switch"
  BY <1>9 DEF Blockers
<1>11. \A a \in S : pc[a] # "insert"
  BY <1>4, <1>5, <1>9, <1>10 DEF Blockers
<1>12. \A a \in S : pc[a] # "commit"
  <2> SUFFICES ASSUME NEW a \in S, pc[a] = "commit" PROVE FALSE
    OBVIOUS
  <2>1. PICK b \in S : b \in RunBlockers(a)
    BY DEF Blockers
  <2>2. Kind(b) = Kind(a) /\ RunLockHeld(b) /\ ~RunLockHeld(a)
    BY <1>3, <2>1
  <2>3. pc[b] \in InCommit
    BY <2>2 DEF RunLockHeld
  <2> QED  BY <1>5, <1>6, <1>10, <1>11, <2>3 DEF InCommit
\* Nobody is left who holds the routebook.
<1>13. \A a \in S : pc[a] \notin InCommit \union {"commit"} /\ bookLock[a] = None
  BY <1>1, <1>5, <1>6, <1>10, <1>11, <1>12 DEF BookLockHeld, InCommit
<1>14. \A a \in S, b \in S : b \notin BookBlockers(a, ForUpdate)
  <2> SUFFICES ASSUME NEW a \in S, NEW b \in S, b \in BookBlockers(a, ForUpdate) PROVE FALSE
    OBVIOUS
  <2>1. ForUpdate + bookLock[b] > 3
    BY <1>2 DEF Modes, ForUpdate
  <2> QED  BY <1>13, <2>1 DEF None, ForUpdate
<1>15. \A b \in S : RunLockHeld(b) => pc[b] = "book" /\ Kind(b) \in {"plan", "accept"}
  BY <1>13 DEF RunLockHeld
<1>16. \A a \in S : pc[a] # "book"
  <2> SUFFICES ASSUME NEW a \in S, pc[a] = "book" PROVE FALSE
    OBVIOUS
  <2>1. PICK b \in S : b \in Blockers(a)
    OBVIOUS
  <2>2. Kind(a) = "undo" /\ b \in RunBlockers(a)
    BY <1>14, <2>1 DEF Blockers
  <2> QED  BY <1>3, <1>15, <2>2
<1>17. \A a \in S, b \in S : b \notin RunBlockers(a)
  BY <1>3, <1>15, <1>16
<1>18. \A a \in S, b \in S : b \notin Blockers(a)
  <2> SUFFICES ASSUME NEW a \in S, NEW b \in S, b \in Blockers(a) PROVE FALSE
    OBVIOUS
  <2>1. \/ b \in InsertRunBlockers(a) \/ b \in RunBlockers(a) \/ b \in BookBlockers(a, ForUpdate)
    BY <1>13, <1>16 DEF Blockers, InCommit
  <2> QED  BY <1>9, <1>14, <1>17, <2>1 DEF InsertRunBlockers
<1> QED  BY <1>18

\* The committing transactions never wait for one another in a circle: PostgreSQL
\* has no deadlock to resolve, whatever runs and however many deliveries there are.
THEOREM NoDeadlock == Spec => []NoLockCycle
<1>1. IInv /\ LocksInv => NoLockCycle
  <2> SUFFICES ASSUME IInv, LocksInv, NEW S \in (SUBSET Attempts) \ {{}},
                      \A a \in S : Blockers(a) \cap S # {}
               PROVE  FALSE
    BY DEF NoLockCycle
  <2>1. \A a \in S : \E b \in S : b \in Blockers(a)
    OBVIOUS
  <2> QED  BY <2>1, NobodyWaitsInCircle
<1> QED  BY <1>1, Invariance, LocksAreHeld, PTL

-----------------------------------------------------------------------------
(* The refinement: the transactions implement the history of VersionChain. *)
(* FinishCommit appends one version, every other statement leaves the      *)
(* history as it is.                                                       *)

\* The committed version of a number is unique, and exists up to the current.
LEMMA NumberedVersion ==
  IInv => \A k \in 1..Depth(current) :
             VersionAt(k) \in versions /\ ver[VersionAt(k)].number = k
<1> SUFFICES ASSUME IInv, NEW k \in 1..Depth(current)
             PROVE  VersionAt(k) \in versions /\ ver[VersionAt(k)].number = k
  OBVIOUS
<1>1. \E v \in versions : ver[v].number = k
  BY DEF IInv, NoGap
<1> QED BY <1>1, Zenon DEF VersionAt

\* What stays committed keeps its place in the history.
LEMMA SameEntries ==
  ASSUME IInv, IInv', versions \subseteq versions', \A v \in versions : ver'[v] = ver[v],
         Depth(current)' \in Nat, Depth(current) <= Depth(current)'
  PROVE  \A k \in 1..Depth(current) : History'[k] = History[k]
<1> SUFFICES ASSUME NEW k \in 1..Depth(current) PROVE History'[k] = History[k]
  OBVIOUS
<1>1. Depth(current) \in Nat
  BY DEF IInv, TypeOK, LinearHistory, Depth, Row
<1>2. k \in 1..Depth(current)'
  BY <1>1
<1>3. VersionAt(k) \in versions /\ ver[VersionAt(k)].number = k
  BY NumberedVersion
<1>4. \E v \in versions' : ver'[v].number = k
  BY <1>2 DEF IInv, NoGap
<1>5. VersionAt(k)' \in versions' /\ ver'[VersionAt(k)'].number = k
  BY <1>4, Zenon DEF VersionAt
<1>6. VersionAt(k)' = VersionAt(k)
  BY <1>3, <1>5 DEF IInv, LinearHistory
<1>7. Entry(VersionAt(k))' = Entry(VersionAt(k))
  BY <1>3, <1>6 DEF Entry
<1>8. History[k] = Entry(VersionAt(k)) /\ History'[k] = Entry(VersionAt(k))'
  BY <1>2 DEF History
<1> QED BY <1>7, <1>8

\* The history is a sequence as long as the current version's number.
LEMMA HistoryType ==
  IInv => /\ Depth(current) \in Nat
          /\ History \in Seq(Chain!Version) /\ Len(History) = Depth(current)
<1> SUFFICES ASSUME IInv
             PROVE  /\ Depth(current) \in Nat
                    /\ History \in Seq(Chain!Version) /\ Len(History) = Depth(current)
  OBVIOUS
<1>1. Depth(current) \in Nat
  BY DEF IInv, TypeOK, LinearHistory, Depth, Row
<1>2. \A k \in 1..Depth(current) : Entry(VersionAt(k)) \in Chain!Version
  BY NumberedVersion DEF IInv, TypeOK, Row, Entry, Chain!Version
<1>3. History \in [1..Depth(current) -> Chain!Version]
  BY <1>2 DEF History
<1>4. History \in Seq(Chain!Version)
  BY <1>1, <1>3, SeqDef
<1>5. Len(History) \in Nat /\ 1..Len(History) = 1..Depth(current)
  BY <1>3, <1>4, LenProperties
<1> QED BY <1>1, <1>4, <1>5

\* A statement that leaves the committed rows and the pointer alone.
LEMMA Stutters ==
  ASSUME IInv, IInv', UNCHANGED <<versions, current>>, \A v \in versions : ver'[v] = ver[v]
  PROVE  UNCHANGED History
<1>1. Depth(current)' = Depth(current) /\ Depth(current) \in Nat
  BY DEF IInv, TypeOK, LinearHistory, Depth, Row
<1>2. \A k \in 1..Depth(current) : History'[k] = History[k]
  BY <1>1, SameEntries
<1>3. /\ History = [k \in 1..Depth(current) |-> History[k]]
      /\ History' = [k \in 1..Depth(current) |-> History'[k]]
  BY <1>1 DEF History
<1> QED BY <1>2, <1>3

-----------------------------------------------------------------------------
\* The commit appends the attempt's row to the history.
LEMMA CommitAppends ==
  ASSUME NEW a \in Attempts, IInv, IInv', FinishCommit(a)
  PROVE  /\ History' = Append(History, [id |-> a, run |-> work[a], content |-> NewContent(a)])
         /\ Chain!Fresh(a, work[a])
<1>1. /\ a \notin versions /\ NoVersion \notin versions /\ a # NoVersion
      /\ ver' = ver /\ current' = a /\ versions' = versions \union {a}
      /\ work[a] \in Runs
  BY NullAssumption DEF IInv, TypeOK, PointersValid, FinishCommit
<1>2. /\ ver[a] = VersionRow(a) /\ current = base[a] /\ Owners(work[a]) = {}
  BY DEF IInv, InsertedRow, RunOwned, InCommit, FinishCommit
<1>3. /\ ver[a].number = Depth(current) + 1
      /\ Entry(a) = [id |-> a, run |-> work[a], content |-> NewContent(a)]
  BY <1>2 DEF VersionRow, Entry
<1>4. Depth(current) \in Nat /\ Depth(current)' = Depth(current) + 1
  BY <1>1, <1>3, HistoryType DEF Depth
<1>5. \A k \in 1..Depth(current) : History'[k] = History[k]
  BY <1>1, <1>4, SameEntries
<1>6. History'[Depth(current)'] = Entry(a)
  <2>1. \E v \in versions' : ver'[v].number = Depth(current)'
    BY <1>1, <1>3, <1>4
  <2>2. Depth(current)' \in 1..Depth(current)'
    BY <1>4
  <2>3. VersionAt(Depth(current))' \in versions'
        /\ ver'[VersionAt(Depth(current))'].number = Depth(current)'
    BY <2>1, Zenon DEF VersionAt
  <2>4. VersionAt(Depth(current))' = a
    BY <1>1, <1>3, <1>4, <2>3 DEF IInv, LinearHistory
  <2>5. Entry(VersionAt(Depth(current)))' = Entry(a)
    BY <1>1, <2>4 DEF Entry
  <2> QED BY <2>2, <2>5 DEF History
<1>7. /\ History \in Seq(Chain!Version) /\ Len(History) = Depth(current)
      /\ History' = [k \in 1..(Depth(current) + 1) |-> History'[k]]
      /\ History = [k \in 1..Depth(current) |-> History[k]]
  BY <1>4, HistoryType DEF History
<1>8. History' = Append(History, Entry(a))
  BY <1>4, <1>5, <1>6, <1>7
<1>9. Chain!Fresh(a, work[a])
  <2> SUFFICES ASSUME NEW k \in 1..Depth(current)
               PROVE  History[k].id # a /\ History[k].run # work[a]
    BY <1>7 DEF Chain!Fresh
  <2>1. VersionAt(k) \in versions /\ History[k] = Entry(VersionAt(k))
    BY NumberedVersion DEF History
  <2>2. ver[VersionAt(k)].run # work[a]
    BY <1>2, <2>1 DEF Owners
  <2> QED BY <1>1, <2>1, <2>2 DEF Entry
<1> QED BY <1>3, <1>8, <1>9

\* The content of the version before the current one.
LEMMA ContentAtDepth ==
  ASSUME IInv
  PROVE  /\ Chain!ContentAt(Len(History)) = Content(current)
         /\ Parent(current) # NoVersion =>
              Len(History) >= 2 /\ Chain!ContentAt(Len(History) - 1) = Content(Parent(current))
<1>1. /\ Depth(current) \in Nat /\ Len(History) = Depth(current)
      /\ NoVersion \notin versions
      /\ \A v \in versions : ver[v].number \in Nat \ {0}
      /\ \A v \in versions : ver[v].parent \in versions \union {NoVersion}
      /\ current \in versions \union {NoVersion}
  <2>1. \A v \in versions \union {NoVersion} : Depth(v) \in Nat
    BY DEF IInv, TypeOK, Depth, Row
  <2>2. \A v \in versions : ver[v].number = Depth(ver[v].parent) + 1
                           /\ ver[v].parent \in versions \union {NoVersion}
    BY DEF IInv, LinearHistory
  <2>3. current \in versions \union {NoVersion} /\ NoVersion \notin versions
    BY NullAssumption DEF IInv, TypeOK, LinearHistory
  <2> QED BY <2>1, <2>2, <2>3, HistoryType
<1>2. ASSUME NEW v \in versions, Depth(v) <= Depth(current)
      PROVE  Chain!ContentAt(Depth(v)) = Content(v)
  <2>1. Depth(v) = ver[v].number /\ Content(v) = ver[v].content /\ Depth(v) \in 1..Depth(current)
    BY <1>1, <1>2 DEF Depth, Content
  <2>2. VersionAt(Depth(v)) = v
    BY <2>1, NumberedVersion DEF IInv, LinearHistory
  <2> QED BY <2>1, <2>2 DEF Chain!ContentAt, History, Entry
<1>3. Chain!ContentAt(Len(History)) = Content(current)
  <2>1. CASE current = NoVersion
    BY <1>1, <2>1 DEF Chain!ContentAt, Depth, Content
  <2>2. CASE current \in versions
    BY <1>1, <1>2, <2>2
  <2> QED BY <1>1, <2>1, <2>2
<1>4. ASSUME Parent(current) # NoVersion
      PROVE  /\ Len(History) >= 2
             /\ Chain!ContentAt(Len(History) - 1) = Content(Parent(current))
  <2>1. current \in versions /\ Parent(current) = ver[current].parent
        /\ Parent(current) \in versions
    BY <1>1, <1>4 DEF Parent
  <2>2. Depth(current) = Depth(Parent(current)) + 1 /\ Depth(Parent(current)) \in Nat \ {0}
    BY <1>1, <2>1 DEF IInv, LinearHistory, Depth
  <2> QED BY <1>1, <1>2, <2>1, <2>2
<1> QED BY <1>3, <1>4

\* Committing is, by the kind of the run, one of the three abstract steps.
LEMMA CommitRefines ==
  ASSUME NEW a \in Attempts, IInv, IInv', FinishCommit(a)
  PROVE  Chain!ChainNext
<1>1. /\ work[a] \in Runs /\ SavesFromBase(a) /\ current = base[a] /\ pc[a] = "finish"
  BY DEF IInv, TypeOK, InsertedRow, SeenFromBase, Active, InCommit, FinishCommit
<1>2. Chain!Record(a, work[a], NewContent(a))
  BY CommitAppends DEF Chain!Record
<1>3. CASE Kind(a) = "create"
  <2>1. NewContent(a) = {} /\ current = NoVersion
    BY <1>1, <1>3 DEF NewContent, SavesFromBase
  <2>2. Depth(current) = 0 /\ History = <<>>
    <3>1. Len(History) = 0 /\ History \in Seq(Chain!Version)
      BY <2>1, HistoryType DEF Depth
    <3> QED BY <3>1, <2>1, EmptySeq DEF Depth
  <2>3. Chain!Initialise(a, work[a])
    BY <1>2, <2>1, <2>2 DEF Chain!Initialise
  <2> QED BY <1>1, <2>3 DEF Chain!ChainNext
<1>4. CASE Kind(a) = "undo"
  <2>1. NewContent(a) = Content(Parent(current)) /\ Parent(current) # NoVersion
    BY <1>1, <1>4 DEF NewContent, SavesFromBase
  <2>2. Chain!Undo(a, work[a])
    BY <1>2, <2>1, ContentAtDepth DEF Chain!Undo
  <2> QED BY <1>1, <2>2 DEF Chain!ChainNext
<1>5. CASE Kind(a) \notin {"create", "undo"}
  <2>1. NewContent(a) = Content(current) \union {work[a]}
    BY <1>1, <1>5 DEF NewContent, SavesFromBase
  <2>2. Chain!Apply(a, work[a])
    BY <1>2, <2>1, ContentAtDepth DEF Chain!Apply
  <2> QED BY <1>1, <2>2 DEF Chain!ChainNext
<1> QED BY <1>3, <1>4, <1>5

\* Every behaviour of the transactions is, through the committed rows, a
\* behaviour of the append-only history.
THEOREM Refinement == Spec => ImplementsChain
<1>1. Init => Chain!ChainInit
  <2> SUFFICES ASSUME Init PROVE History = <<>>
    BY DEF Chain!ChainInit
  <2>1. IInv /\ Depth(current) = 0
    BY InitInv DEF Init, Depth
  <2>2. Len(History) = 0 /\ History \in Seq(Chain!Version)
    BY <2>1, HistoryType
  <2> QED BY <2>2, EmptySeq
<1>2. IInv /\ IInv' /\ [Next]_vars => [Chain!ChainNext]_History
  <2> SUFFICES ASSUME IInv, IInv', [Next]_vars
               PROVE  Chain!ChainNext \/ UNCHANGED History
    OBVIOUS
  <2>1. CASE \E a \in Attempts : FinishCommit(a)
    BY <2>1, CommitRefines
  <2>2. CASE \E a \in Attempts : InsertVersion(a)
    <3> PICK a \in Attempts : InsertVersion(a)
      BY <2>2
    <3>1. a \notin versions
      BY DEF IInv, PointersValid, InsertVersion
    <3>2. UNCHANGED <<versions, current>> /\ \A v \in versions : ver'[v] = ver[v]
      BY <3>1 DEF IInv, TypeOK, InsertVersion, End, dataVars
    <3> QED BY <3>2, Stutters
  <2>3. CASE UNCHANGED <<versions, ver, current>>
    BY <2>3, Stutters
  <2>4. ASSUME NEW a \in Attempts, Step(a) \/ Rollback(a),
               ~FinishCommit(a), ~InsertVersion(a)
        PROVE  UNCHANGED <<versions, ver, current>>
    BY <2>4 DEF Step, Rollback, End, dataVars, FindOperation, InsertRun, LockRunFirst, LockBook,
       ResolveRequirementBase, PrepareUndo, EnterCommit, ReadBook, SwitchCurrent
  <2>5. ASSUME NEW a \in Attempts, Step(a) \/ Rollback(a)
        PROVE  Chain!ChainNext \/ UNCHANGED History
    BY <2>1, <2>2, <2>3, <2>4, <2>5
  <2>6. ASSUME NEW a \in Attempts, NEW r \in Runs, Load(a, r)
        PROVE  UNCHANGED <<versions, ver, current>>
    BY <2>6 DEF Load, dataVars
  <2>7. SoftDelete \/ UNCHANGED vars => UNCHANGED <<versions, ver, current>>
    BY DEF SoftDelete, vars, dataVars
  <2>8. (\E r \in Runs : CreateRow(r)) => UNCHANGED <<versions, ver, current>>
    BY DEF CreateRow, dataVars
  <2> QED BY <2>3, <2>5, <2>6, <2>7, <2>8 DEF Next
<1>3. Spec => Chain!ChainInit /\ [][Chain!ChainNext]_History
  BY <1>1, <1>2, Invariance, PTL DEF Spec
<1> QED BY <1>3 DEF ImplementsChain, Chain!ChainSpec
-----------------------------------------------------------------------------
(* The promises of the append-only history, for any runs and versions, and  *)
(* any history that keeps to VersionChain.                                  *)

CONSTANT Versions
VARIABLE history

Abstract == INSTANCE VersionChain

\* The content of the predecessor is a set of runs.
LEMMA ContentType ==
  ASSUME Abstract!ChainTypeOK, NEW n \in 0..Len(history)
  PROVE  Abstract!ContentAt(n) \in SUBSET Runs
<1>1. CASE n = 0
  BY <1>1 DEF Abstract!ContentAt
<1>2. CASE n # 0
  <2>1. n \in 1..Len(history) /\ history \in Seq(Abstract!Version)
    BY <1>2, LenProperties DEF Abstract!ChainTypeOK
  <2>2. history[n] \in Abstract!Version
    BY <2>1, ElementOfSeq
  <2> QED BY <1>2, <2>2 DEF Abstract!ContentAt, Abstract!Version
<1> QED BY <1>1, <1>2

\* Every abstract step appends one well-formed version of a fresh id and run.
LEMMA AbstractStepAppends ==
  ASSUME Abstract!ChainTypeOK, Abstract!ChainNext
  PROVE  \E v \in Versions, r \in Runs, c \in SUBSET Runs : Abstract!Record(v, r, c)
<1> PICK v \in Versions, r \in Runs : Abstract!Initialise(v, r) \/ Abstract!Apply(v, r) \/ Abstract!Undo(v, r)
  BY DEF Abstract!ChainNext
<1>1. Len(history) \in Nat
  BY LenProperties DEF Abstract!ChainTypeOK
<1>2. Abstract!ContentAt(Len(history)) \in SUBSET Runs
  BY <1>1, ContentType
<1>3. Len(history) >= 2 => Abstract!ContentAt(Len(history) - 1) \in SUBSET Runs
  BY <1>1, ContentType
<1>4. Abstract!ContentAt(Len(history)) \union {r} \in SUBSET Runs
  BY <1>2
<1> QED BY <1>2, <1>3, <1>4 DEF Abstract!Initialise, Abstract!Apply, Abstract!Undo

\* What appending a version does to the history.
LEMMA RecordAppends ==
  ASSUME Abstract!ChainTypeOK, NEW v \in Versions, NEW r \in Runs, NEW c \in SUBSET Runs, Abstract!Record(v, r, c)
  PROVE  /\ Abstract!ChainTypeOK' /\ Len(history) \in Nat /\ Len(history') = Len(history) + 1
         /\ \A n \in 1..Len(history) : history'[n] = history[n]
         /\ history'[Len(history) + 1] = [id |-> v, run |-> r, content |-> c]
<1> DEFINE e == [id |-> v, run |-> r, content |-> c]
<1>1. e \in Abstract!Version /\ history \in Seq(Abstract!Version) /\ history' = Append(history, e)
  BY DEF Abstract!Version, Abstract!ChainTypeOK, Abstract!Record
<1> HIDE DEF e
<1>2. history' \in Seq(Abstract!Version) /\ Len(history) \in Nat /\ Len(history') = Len(history) + 1
      /\ (\A n \in 1..Len(history) : history'[n] = history[n])
      /\ history'[Len(history) + 1] = e
  BY <1>1, LenProperties
<1> QED BY <1>2 DEF Abstract!ChainTypeOK, e

\* In the history a run owns one version at most and no id is used twice.
THEOREM ChainOneVersionPerRun == Abstract!ChainSpec => [](Abstract!ChainTypeOK /\ Abstract!OneVersionPerRun)
<1>1. Abstract!ChainInit => Abstract!ChainTypeOK /\ Abstract!OneVersionPerRun
  <2> SUFFICES ASSUME history = <<>> PROVE Abstract!ChainTypeOK /\ Abstract!OneVersionPerRun
    BY DEF Abstract!ChainInit
  <2>1. history \in Seq(Abstract!Version) /\ Len(history) = 0
    BY EmptySeq
  <2> QED BY <2>1 DEF Abstract!ChainTypeOK, Abstract!OneVersionPerRun
<1>2. Abstract!ChainTypeOK /\ Abstract!OneVersionPerRun /\ [Abstract!ChainNext]_history => (Abstract!ChainTypeOK /\ Abstract!OneVersionPerRun)'
  <2> SUFFICES ASSUME Abstract!ChainTypeOK, Abstract!OneVersionPerRun, [Abstract!ChainNext]_history
               PROVE  (Abstract!ChainTypeOK /\ Abstract!OneVersionPerRun)'
    OBVIOUS
  <2>1. CASE UNCHANGED history
    BY <2>1 DEF Abstract!ChainTypeOK, Abstract!OneVersionPerRun
  <2>2. CASE Abstract!ChainNext
    <3> PICK v \in Versions, r \in Runs, c \in SUBSET Runs : Abstract!Record(v, r, c)
      BY <2>2, AbstractStepAppends
    <3>1. /\ Abstract!ChainTypeOK' /\ Len(history) \in Nat /\ Len(history') = Len(history) + 1
          /\ \A n \in 1..Len(history) : history'[n] = history[n]
          /\ history'[Len(history) + 1] = [id |-> v, run |-> r, content |-> c]
      BY RecordAppends
    <3>2. \A n \in 1..Len(history) : history[n].id # v /\ history[n].run # r
      BY DEF Abstract!Record, Abstract!Fresh
    <3> QED BY <3>1, <3>2 DEF Abstract!OneVersionPerRun
  <2> QED BY <2>1, <2>2
<1> QED BY <1>1, <1>2, PTL DEF Abstract!ChainSpec

\* No step of the history removes, reorders or rewrites a version.
THEOREM ChainImmutable == Abstract!ChainSpec => Abstract!Immutable
<1> DEFINE Kept == /\ Len(history) <= Len(history')
                   /\ \A n \in 1..Len(history) : history'[n] = history[n]
<1>1. Abstract!ChainTypeOK /\ [Abstract!ChainNext]_history => [Kept]_history
  <2> SUFFICES ASSUME Abstract!ChainTypeOK, Abstract!ChainNext PROVE Kept
    OBVIOUS
  <2> PICK v \in Versions, r \in Runs, c \in SUBSET Runs : Abstract!Record(v, r, c)
    BY AbstractStepAppends
  <2>1. /\ Len(history) \in Nat /\ Len(history') = Len(history) + 1
        /\ \A n \in 1..Len(history) : history'[n] = history[n]
    BY RecordAppends
  <2> QED BY <2>1
<1>2. Abstract!ChainSpec => [](Abstract!ChainTypeOK /\ Abstract!OneVersionPerRun)
  BY ChainOneVersionPerRun
<1> QED BY <1>1, <1>2, PTL DEF Abstract!ChainSpec, Abstract!Immutable
=============================================================================
