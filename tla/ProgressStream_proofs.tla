------------------------ MODULE ProgressStream_proofs ------------------------
(***************************************************************************)
(* Proofs about ProgressStream, for any publishers, events, number of      *)
(* connections and trouble.  IInv is inductive; it says, beyond the two    *)
(* properties, that what is still to be sent ends with the stream's last   *)
(* event, and that an event enters the stream once.                        *)
(***************************************************************************)
EXTENDS ProgressStream, TLAPS

\* A sequence and its last element, under Append and Tail.
LEMMA AppendFacts ==
  ASSUME NEW S, NEW s \in Seq(S), NEW e \in S
  PROVE  /\ Append(s, e) \in Seq(S)
         /\ Len(Append(s, e)) = Len(s) + 1
         /\ Append(s, e)[Len(s) + 1] = e
         /\ Append(s, e) # <<>>
         /\ \A i \in DOMAIN s : i \in 1..Len(s) /\ Append(s, e)[i] = s[i]
         /\ DOMAIN Append(s, e) = (DOMAIN s) \union {Len(s) + 1}
         /\ Elements(Append(s, e)) = Elements(s) \union {e}
<1>1. DOMAIN s = 1..Len(s) /\ Len(s) \in Nat  OBVIOUS
<1>2. /\ Append(s, e) \in Seq(S) /\ Len(Append(s, e)) = Len(s) + 1
      /\ Append(s, e)[Len(s) + 1] = e /\ Append(s, e) # <<>>
      /\ \A i \in 1..Len(s) : Append(s, e)[i] = s[i]
  OBVIOUS
<1>3. DOMAIN Append(s, e) = 1..(Len(s) + 1)  BY <1>2
<1>4. DOMAIN Append(s, e) = (DOMAIN s) \union {Len(s) + 1}  BY <1>1, <1>3
<1>5. Elements(Append(s, e)) = Elements(s) \union {e}  BY <1>1, <1>2, <1>4 DEF Elements
<1> QED  BY <1>1, <1>2, <1>4, <1>5

LEMMA TailFacts ==
  ASSUME NEW S, NEW s \in Seq(S), s # <<>>
  PROVE  /\ Head(s) \in S /\ Tail(s) \in Seq(S)
         /\ Elements(s) = {Head(s)} \union Elements(Tail(s))
         /\ Tail(s) # <<>> => Tail(s)[Len(Tail(s))] = s[Len(s)]
         /\ Tail(s) = <<>> => Head(s) = s[Len(s)]
<1>1. /\ Len(s) \in Nat \ {0} /\ DOMAIN s = 1..Len(s)
      /\ Head(s) = s[1] /\ s[1] \in S /\ Tail(s) \in Seq(S) /\ Len(Tail(s)) = Len(s) - 1
  OBVIOUS
<1>2. \A i \in 1..(Len(s) - 1) : Tail(s)[i] = s[i + 1]  BY <1>1
<1>3. DOMAIN Tail(s) = 1..(Len(s) - 1)  BY <1>1
<1>4. Elements(s) = {Head(s)} \union Elements(Tail(s))
  <2>1. ASSUME NEW i \in 1..Len(s) PROVE s[i] = Head(s) \/ \E j \in 1..(Len(s) - 1) : s[i] = Tail(s)[j]
    <3>1. CASE i = 1  BY <3>1, <1>1
    <3>2. CASE i # 1
      <4>1. i - 1 \in 1..(Len(s) - 1) /\ (i - 1) + 1 = i  BY <3>2, <1>1
      <4> QED  BY <4>1, <1>2
    <3> QED  BY <3>1, <3>2
  <2>2. ASSUME NEW j \in 1..(Len(s) - 1) PROVE \E i \in 1..Len(s) : s[i] = Tail(s)[j]
    BY <1>1, <1>2
  <2>3. Elements(s) = {s[i] : i \in 1..Len(s)}  BY <1>1 DEF Elements
  <2>4. Elements(Tail(s)) = {Tail(s)[j] : j \in 1..(Len(s) - 1)}  BY <1>3 DEF Elements
  <2>5. 1 \in 1..Len(s) /\ Head(s) = s[1]  BY <1>1
  <2>6. \A x \in Elements(s) : x \in {Head(s)} \union Elements(Tail(s))  BY <2>1, <2>3, <2>4
  <2>7. \A x \in Elements(Tail(s)) : x \in Elements(s)  BY <2>2, <2>3, <2>4
  <2>8. Head(s) \in Elements(s)  BY <2>3, <2>5
  <2> QED  BY <2>6, <2>7, <2>8
<1>5. Tail(s) # <<>> => Tail(s)[Len(Tail(s))] = s[Len(s)]
  <2> SUFFICES ASSUME Tail(s) # <<>> PROVE Tail(s)[Len(Tail(s))] = s[Len(s)]  OBVIOUS
  <2>1. Len(Tail(s)) # 0  BY <1>1
  <2>2. Len(s) - 1 \in 1..(Len(s) - 1) /\ (Len(s) - 1) + 1 = Len(s)  BY <2>1, <1>1
  <2> QED  BY <2>2, <1>1, <1>2
<1>6. Tail(s) = <<>> => Head(s) = s[Len(s)]
  <2> SUFFICES ASSUME Tail(s) = <<>> PROVE Head(s) = s[Len(s)]  OBVIOUS
  <2>1. Len(<<>>) = 0  OBVIOUS
  <2>2. Len(s) = 1  BY <2>1, <1>1
  <2> QED  BY <2>2, <1>1
<1> QED  BY <1>1, <1>4, <1>5, <1>6

\* The event a publisher is at is an event, and is not in the stream yet.
LEMMA EventIsNew ==
  ASSUME IInv, NEW p \in Publishers, Publishing(p)
  PROVE  /\ next[p] \in DOMAIN Script[p] /\ Event(p) \in Events
         /\ \A i \in DOMAIN stream : stream[i] # Event(p)
<1>1. Script[p] \in Seq(Events)  BY ScriptAssumption
<1>2. next[p] \in Nat \ {0}  BY DEF IInv, TypeOK
<1>3. next[p] \in DOMAIN Script[p]  BY <1>1, <1>2 DEF Publishing
<1>4. Event(p) \in Events  BY <1>1, <1>3 DEF Event
<1>5. ASSUME NEW i \in DOMAIN stream, stream[i] = Event(p) PROVE FALSE
  <2>1. PICK q \in Publishers : \E k \in DOMAIN Script[q] : k < next[q] /\ stream[i] = Script[q][k]
    BY DEF IInv, PublishedOnce
  <2>2. PICK k \in DOMAIN Script[q] : k < next[q] /\ stream[i] = Script[q][k]
    BY <2>1
  <2>3. Script[q][k] = Script[p][next[p]]  BY <2>2, <1>5 DEF Event
  <2>4. q = p /\ k = next[p]  BY <1>3, <2>3, DistinctAssumption
  <2> QED  BY <2>2, <2>4, <1>2
<1> QED  BY <1>3, <1>4, <1>5

LEMMA Initially == Init => IInv
<1> SUFFICES ASSUME Init PROVE IInv  OBVIOUS
<1>1. TypeOK
  BY OpensAssumption DEF Init, TypeOK, Statuses, Ids
<1>2. NothingMissed /\ ShowsLatest /\ QueuesEndWithLast /\ PublishedOnce
  BY DEF Init, NothingMissed, ShowsLatest, QueuesEndWithLast, PublishedOnce, EndsWithLast, Subscribed
<1> QED  BY <1>1, <1>2 DEF IInv

\* Going on to the next event keeps what is published once.
LEMMA AdvanceKeeps ==
  ASSUME IInv, NEW p \in Publishers, Advance(p)
  PROVE  /\ next' \in [Publishers -> Nat \ {0}]
         /\ phase' \in [Publishers -> {"record", "persist", "send"}]
         /\ \A q \in Publishers : next[q] <= next'[q]
         /\ next'[p] = next[p] + 1
BY DEF IInv, TypeOK, Advance, Goto

\* The row and the publishers' places are no part of what is to be sent.
LEMMA QuietSteps ==
  ASSUME IInv, NEW p \in Publishers, Record(p) \/ Persist(p)
  PROVE  IInv'
<1>1. Event(p) \in Events /\ StatusOf[Event(p)] \in Statuses
  BY EventIsNew, StatusAssumption DEF Record, Persist
<1>2. /\ next' \in [Publishers -> Nat \ {0}]
      /\ phase' \in [Publishers -> {"record", "persist", "send"}]
      /\ \A q \in Publishers : next[q] <= next'[q]
  <2>1. CASE Advance(p)  BY <2>1, AdvanceKeeps
  <2>2. CASE UNCHANGED next /\ \E l \in {"persist", "send"} : Goto(p, l)
    <3>1. \A q \in Publishers : next[q] \in Nat  BY DEF IInv, TypeOK
    <3> QED  BY <2>2, <3>1 DEF IInv, TypeOK, Goto
  <2> QED  BY <2>1, <2>2 DEF Record, Persist
<1>3. /\ row' \in Statuses /\ latest' \in Events \union {NoEvent}
      /\ UNCHANGED <<stream, conn, opens, serverVars, pageVars>>
  BY <1>1 DEF IInv, TypeOK, Record, Persist
<1>4. TypeOK'  BY <1>2, <1>3 DEF IInv, TypeOK, serverVars, pageVars
<1>5. NothingMissed' /\ ShowsLatest' /\ QueuesEndWithLast'
  BY <1>3 DEF IInv, NothingMissed, ShowsLatest, QueuesEndWithLast, EndsWithLast, Subscribed,
     After, Elements, serverVars, pageVars
<1>6. PublishedOnce'
  <2>1. stream' = stream  BY <1>3
  <2>2. ASSUME NEW q \in Publishers, NEW k \in DOMAIN Script[q], k < next[q] PROVE k < next'[q]
    <3>1. k \in Nat /\ next[q] \in Nat /\ next'[q] \in Nat  BY <1>2, ScriptAssumption DEF IInv, TypeOK
    <3> QED  BY <3>1, <2>2, <1>2
  <2> QED  BY <2>1, <2>2 DEF IInv, PublishedOnce
<1> QED  BY <1>4, <1>5, <1>6 DEF IInv

LEMMA SendKeeps ==
  ASSUME IInv, NEW p \in Publishers, Send(p)
  PROVE  IInv'
<1> DEFINE e == Event(p)
<1>1. Publishing(p) /\ Advance(p)  BY DEF Send
<1>2. next[p] \in DOMAIN Script[p] /\ e \in Events /\ \A i \in DOMAIN stream : stream[i] # e
  BY <1>1, EventIsNew
<1>3. /\ next' \in [Publishers -> Nat \ {0}]
      /\ phase' \in [Publishers -> {"record", "persist", "send"}]
      /\ \A q \in Publishers : next[q] <= next'[q]
      /\ next'[p] = next[p] + 1
  BY <1>1, AdvanceKeeps
<1>4. UNCHANGED <<row, latest, conn, opens, snapshot, resume, backlog, got, pageVars>>  BY DEF Send
<1>5. stream \in Seq(Events) /\ pending \in Seq(Events)  BY DEF IInv, TypeOK
<1>6. ASSUME NEW q \in Publishers, NEW k \in DOMAIN Script[q], k < next[q] PROVE k < next'[q]
  <2>1. k \in Nat /\ next[q] \in Nat /\ next'[q] \in Nat  BY <1>3, ScriptAssumption DEF IInv, TypeOK
  <2> QED  BY <2>1, <1>6, <1>3
<1>7. CASE UNCHANGED <<stream, pending>>
  <2>1. TypeOK'  BY <1>7, <1>3, <1>4 DEF IInv, TypeOK, pageVars
  <2>2. NothingMissed' /\ ShowsLatest' /\ QueuesEndWithLast'
    BY <1>7, <1>4 DEF IInv, NothingMissed, ShowsLatest, QueuesEndWithLast, EndsWithLast,
       Subscribed, After, Elements, pageVars
  <2>3. PublishedOnce'  BY <1>7, <1>6 DEF IInv, PublishedOnce
  <2> QED  BY <2>1, <2>2, <2>3 DEF IInv
<1>8. CASE /\ stream' = Append(stream, e)
           /\ pending' = IF Subscribed THEN Append(pending, e) ELSE pending
  <2>1. /\ stream' \in Seq(Events) /\ stream' # <<>> /\ Len(stream') = Len(stream) + 1
        /\ stream'[Len(stream')] = e
        /\ \A i \in DOMAIN stream : i \in 1..Len(stream) /\ stream'[i] = stream[i]
        /\ DOMAIN stream' = (DOMAIN stream) \union {Len(stream) + 1}
    BY <1>8, <1>2, <1>5, AppendFacts
  <2>2. Subscribed => /\ pending' \in Seq(Events) /\ pending' # <<>>
                      /\ pending'[Len(pending')] = e
                      /\ Elements(pending') = Elements(pending) \union {e}
    <3>1. /\ Append(pending, e) \in Seq(Events) /\ Append(pending, e) # <<>>
          /\ Append(pending, e)[Len(Append(pending, e))] = e
          /\ Elements(Append(pending, e)) = Elements(pending) \union {e}
      BY <1>2, <1>5, AppendFacts
    <3> QED  BY <3>1, <1>8
  <2>3. ~Subscribed => pending' = pending  BY <1>8
  <2>4. TypeOK'  BY <2>1, <2>2, <2>3, <1>3, <1>4 DEF IInv, TypeOK, pageVars
  <2>5. NothingMissed'
    <3> SUFFICES ASSUME conn' = "live", NEW i \in DOMAIN stream', After(i)'
                 PROVE  stream'[i] \in got' \union Elements(backlog)' \union Elements(pending)'
      BY DEF NothingMissed
    <3>1. conn = "live" /\ Subscribed  BY <1>4 DEF Subscribed
    <3>2. Elements(pending)' = Elements(pending) \union {e}  BY <2>2, <3>1 DEF Elements
    <3>3. CASE i = Len(stream) + 1
      <4>1. stream'[i] = e  BY <3>3, <2>1
      <4> QED  BY <4>1, <3>2
    <3>4. CASE i \in DOMAIN stream
      <4>1. After(i)
        <5>1. i \in 1..Len(stream) /\ Len(stream) \in Nat  BY <3>4, <2>1, <1>5
        <5>2. \A j \in 1..(i - 1) : j \in DOMAIN stream  BY <5>1, <1>5
        <5>3. \A j \in 1..(i - 1) : stream'[j] = stream[j]  BY <5>2, <2>1
        <5> QED  BY <5>3, <1>4 DEF After
      <4>2. stream'[i] = stream[i]  BY <3>4, <2>1
      <4>3. stream[i] \in got \union Elements(backlog) \union Elements(pending)
        BY <4>1, <3>1, <3>4 DEF IInv, NothingMissed
      <4>4. Elements(backlog)' = Elements(backlog) /\ got' = got  BY <1>4 DEF Elements
      <4> QED  BY <4>2, <4>3, <4>4, <3>2
    <3> QED  BY <3>3, <3>4, <2>1
  <2>6. ShowsLatest'
    BY <2>2, <1>4 DEF ShowsLatest, Subscribed
  <2>7. QueuesEndWithLast'
    <3>1. Subscribed' = Subscribed  BY <1>4 DEF Subscribed
    <3>2. Subscribed' => EndsWithLast(pending)'  BY <3>1, <2>1, <2>2 DEF EndsWithLast
    <3>3. conn' = "live" => pending' # <<>>  BY <1>4, <2>2 DEF Subscribed
    <3>4. conn' = "read" => pending' = <<>>  BY <1>4, <2>3 DEF IInv, QueuesEndWithLast, Subscribed
    <3>5. /\ conn' \in {"read", "subscribed"} => backlog' = <<>> /\ got' = {}
          /\ conn' = "live" /\ got' # {} => lastId' \in Events /\ shows' = StatusOf[lastId']
      BY <1>4 DEF IInv, QueuesEndWithLast, pageVars
    <3> QED  BY <3>2, <3>3, <3>4, <3>5 DEF QueuesEndWithLast
  <2>8. PublishedOnce'
    <3>1. ASSUME NEW i \in DOMAIN stream', NEW j \in DOMAIN stream', stream'[i] = stream'[j] PROVE i = j
      <4>1. CASE i \in DOMAIN stream /\ j \in DOMAIN stream
        BY <4>1, <3>1, <2>1 DEF IInv, PublishedOnce
      <4>2. CASE i = Len(stream) + 1 /\ j \in DOMAIN stream  BY <4>2, <3>1, <2>1, <1>2
      <4>3. CASE j = Len(stream) + 1 /\ i \in DOMAIN stream  BY <4>3, <3>1, <2>1, <1>2
      <4> QED  BY <4>1, <4>2, <4>3, <2>1
    <3>2. ASSUME NEW i \in DOMAIN stream'
          PROVE  \E q \in Publishers : \E k \in DOMAIN Script[q] : k < next'[q] /\ stream'[i] = Script[q][k]
      <4>1. CASE i \in DOMAIN stream
        BY <4>1, <2>1, <1>6 DEF IInv, PublishedOnce
      <4>2. CASE i = Len(stream) + 1
        <5>1. stream'[i] = Script[p][next[p]]  BY <4>2, <2>1 DEF Event
        <5>2. next[p] < next'[p]  BY <1>3 DEF IInv, TypeOK
        <5> QED  BY <5>1, <5>2, <1>2
      <4> QED  BY <4>1, <4>2, <2>1
    <3> QED  BY <3>1, <3>2 DEF PublishedOnce
  <2> QED  BY <2>4, <2>5, <2>6, <2>7, <2>8 DEF IInv
<1> QED  BY <1>7, <1>8 DEF Send

\* The handler's own steps move no publisher and no event of the stream.
LEMMA PublishedStays ==
  ASSUME PublishedOnce, UNCHANGED pubVars
  PROVE  PublishedOnce'
BY DEF PublishedOnce, pubVars

LEMMA OpenKeeps ==
  ASSUME IInv, NEW id \in Ids, Open(id)
  PROVE  IInv'
<1>1. TypeOK'
  <2>1. /\ latest \in Events \union {NoEvent} /\ row \in Statuses
        /\ opens \in 0..MaxOpens /\ opens < MaxOpens
    BY DEF IInv, TypeOK, Open
  <2>2. snapshot' \in [id : Ids, status : Statuses] /\ resume' \in Ids
    BY <2>1 DEF Open, Ids
  <2>3. opens' \in 0..MaxOpens  BY <2>1, OpensAssumption DEF Open
  <2>4. /\ conn' = "read" /\ backlog' = <<>> /\ pending' = <<>> /\ got' = {}
        /\ UNCHANGED <<pubVars, pageVars>>
    BY DEF Open
  <2> QED  BY <2>2, <2>3, <2>4 DEF IInv, TypeOK, pubVars, pageVars
<1>2. /\ NothingMissed' /\ ShowsLatest' /\ QueuesEndWithLast'
  BY DEF Open, NothingMissed, ShowsLatest, QueuesEndWithLast, Subscribed
<1>3. PublishedOnce'  BY PublishedStays DEF IInv, Open
<1> QED  BY <1>1, <1>2, <1>3 DEF IInv

LEMMA SubscribeKeeps ==
  ASSUME IInv, Subscribe
  PROVE  IInv'
<1>1. /\ conn = "read" /\ backlog = <<>> /\ got = {} /\ pending = <<>>
  BY DEF IInv, QueuesEndWithLast, Subscribe
<1>2. conn' \in {"off", "lost", "subscribed"}  BY DEF Subscribe, Receive
<1>3. UNCHANGED <<pubVars, opens, serverVars>>  BY DEF Subscribe
<1>4. TypeOK'
  <2>1. lastId' \in Ids /\ shows' \in Statuses  BY DEF IInv, TypeOK, Subscribe, Receive
  <2> QED  BY <2>1, <1>2, <1>3 DEF IInv, TypeOK, pubVars, serverVars
<1>5. /\ NothingMissed' /\ ShowsLatest' /\ QueuesEndWithLast'
  BY <1>1, <1>2, <1>3 DEF NothingMissed, ShowsLatest, QueuesEndWithLast, EndsWithLast, Subscribed, serverVars
<1>6. PublishedOnce'  BY <1>3, PublishedStays DEF IInv
<1> QED  BY <1>4, <1>5, <1>6 DEF IInv

\* The replay holds every event after the one to resume at, and ends with the
\* stream's last event.
LEMMA ReplayedFacts ==
  ASSUME IInv
  PROVE  /\ Replayed \in Seq(Events)
         /\ \A i \in DOMAIN stream : After(i) => stream[i] \in Elements(Replayed)
         /\ EndsWithLast(Replayed)
<1>1. stream \in Seq(Events) /\ Len(stream) \in Nat /\ DOMAIN stream = 1..Len(stream)
  BY DEF IInv, TypeOK
<1>2. CASE resume = NoEvent
  <2>1. Replayed = stream  BY <1>2 DEF Replayed
  <2> QED  BY <2>1, <1>1 DEF Elements, EndsWithLast
<1>3. CASE resume # NoEvent /\ {i \in DOMAIN stream : stream[i] = resume} = {}
  <2>1. Replayed = <<>>  BY <1>3 DEF Replayed
  <2>2. \A i \in DOMAIN stream : ~After(i)
    <3>1. \A i \in DOMAIN stream : \A j \in 1..(i - 1) : j \in DOMAIN stream  BY <1>1
    <3> QED  BY <3>1, <1>3 DEF After
  <2> QED  BY <2>1, <2>2 DEF EndsWithLast
<1>4. CASE resume # NoEvent /\ {i \in DOMAIN stream : stream[i] = resume} # {}
  <2>1. PICK k \in DOMAIN stream : /\ stream[k] = resume
                                  /\ Replayed = SubSeq(stream, k + 1, Len(stream))
    BY <1>4 DEF Replayed
  <2>2. k \in 1..Len(stream)  BY <1>1
  <2>3. /\ Replayed \in Seq(Events) /\ Len(Replayed) = Len(stream) - k
        /\ DOMAIN Replayed = 1..(Len(stream) - k)
        /\ \A j \in 1..(Len(stream) - k) : Replayed[j] = stream[j + k]
    BY <2>1, <2>2, <1>1
  <2>4. ASSUME NEW i \in DOMAIN stream, After(i) PROVE stream[i] \in Elements(Replayed)
    <3>1. PICK j \in 1..(i - 1) : stream[j] = resume  BY <2>4, <1>4 DEF After
    <3>2. i \in 1..Len(stream) /\ j \in DOMAIN stream  BY <1>1
    <3>3. j = k  BY <2>1, <3>1, <3>2 DEF IInv, PublishedOnce
    <3>4. i - k \in 1..(Len(stream) - k) /\ (i - k) + k = i  BY <3>2, <3>3, <2>2, <1>1
    <3>5. stream[i] = Replayed[i - k]  BY <3>4, <2>3
    <3> QED  BY <3>4, <3>5, <2>3 DEF Elements
  <2>5. EndsWithLast(Replayed)
    <3> SUFFICES ASSUME Replayed # <<>>
                 PROVE  stream # <<>> /\ Replayed[Len(Replayed)] = stream[Len(stream)]
      BY DEF EndsWithLast
    <3>1. Len(Replayed) # 0  BY <2>3
    <3>2. Len(stream) - k \in 1..(Len(stream) - k) /\ (Len(stream) - k) + k = Len(stream)
      BY <3>1, <2>2, <2>3, <1>1
    <3>3. stream # <<>>  BY <2>2, <1>1
    <3> QED  BY <3>2, <3>3, <2>3
  <2> QED  BY <2>3, <2>4, <2>5
<1> QED  BY <1>2, <1>3, <1>4

LEMMA ReplayKeeps ==
  ASSUME IInv, Replay
  PROVE  IInv'
<1>1. /\ conn = "subscribed" /\ conn' = "live" /\ backlog' = Replayed
      /\ UNCHANGED <<pubVars, opens, snapshot, resume, pending, got, pageVars>>
  BY DEF Replay
<1>2. got = {} /\ EndsWithLast(pending)  BY <1>1 DEF IInv, QueuesEndWithLast, Subscribed
<1>3. /\ Replayed \in Seq(Events) /\ EndsWithLast(Replayed)
      /\ \A i \in DOMAIN stream : After(i) => stream[i] \in Elements(Replayed)
  BY ReplayedFacts
<1>4. TypeOK'  BY <1>1, <1>3 DEF IInv, TypeOK, pubVars, pageVars
<1>5. NothingMissed'
  BY <1>1, <1>3 DEF NothingMissed, After, Elements, pubVars
<1>6. ShowsLatest'  BY <1>1, <1>2 DEF ShowsLatest
<1>7. QueuesEndWithLast'
  BY <1>1, <1>2, <1>3 DEF QueuesEndWithLast, EndsWithLast, Subscribed, pubVars
<1>8. PublishedOnce'  BY <1>1, PublishedStays DEF IInv
<1> QED  BY <1>4, <1>5, <1>6, <1>7, <1>8 DEF IInv

\* A frame that is taken moves from what is to be sent to what was sent; the
\* last one is the stream's last event.
LEMMA TakenFacts ==
  ASSUME IInv, conn = "live", TakeFrame, NEW e \in Events, Taken(e)
  PROVE  /\ backlog' \in Seq(Events) /\ pending' \in Seq(Events)
         /\ got' = got \union {e}
         /\ got \union Elements(backlog) \union Elements(pending)
              \subseteq got' \union Elements(backlog') \union Elements(pending')
         /\ EndsWithLast(pending')
         /\ pending' = <<>> => EndsWithLast(backlog')
         /\ backlog' = <<>> /\ pending' = <<>> => e = stream[Len(stream)]
<1>1. /\ backlog \in Seq(Events) /\ pending \in Seq(Events)
      /\ EndsWithLast(pending) /\ (pending = <<>> => EndsWithLast(backlog))
  BY DEF IInv, TypeOK, QueuesEndWithLast, Subscribed
<1>2. ASSUME NEW s \in Seq(Events), s # <<>> PROVE Tail(s) # s
  <2>1. Len(Tail(s)) = Len(s) - 1 /\ Len(s) \in Nat  BY <1>2
  <2> QED  BY <2>1, <1>2
<1>3. CASE /\ backlog # <<>> /\ got' = got \union {Head(backlog)}
           /\ backlog' = Tail(backlog) /\ pending' = pending
  <2>1. e = Head(backlog)  BY <1>3 DEF Taken
  <2>2. /\ Tail(backlog) \in Seq(Events)
        /\ Elements(backlog) = {e} \union Elements(Tail(backlog))
        /\ Tail(backlog) # <<>> => Tail(backlog)[Len(Tail(backlog))] = backlog[Len(backlog)]
        /\ Tail(backlog) = <<>> => e = backlog[Len(backlog)]
    BY <1>1, <1>3, <2>1, TailFacts
  <2>3. pending = <<>> => stream # <<>> /\ backlog[Len(backlog)] = stream[Len(stream)]
    BY <1>1, <1>3 DEF EndsWithLast
  <2> QED  BY <1>1, <1>3, <2>1, <2>2, <2>3 DEF EndsWithLast
<1>4. CASE /\ backlog = <<>> /\ pending # <<>> /\ got' = got \union {Head(pending)}
           /\ pending' = Tail(pending) /\ backlog' = backlog
  <2>1. e = Head(pending)  BY <1>4 DEF Taken
  <2>2. /\ Tail(pending) \in Seq(Events)
        /\ Elements(pending) = {e} \union Elements(Tail(pending))
        /\ Tail(pending) # <<>> => Tail(pending)[Len(Tail(pending))] = pending[Len(pending)]
        /\ Tail(pending) = <<>> => e = pending[Len(pending)]
    BY <1>1, <1>4, <2>1, TailFacts
  <2>3. stream # <<>> /\ pending[Len(pending)] = stream[Len(stream)]
    BY <1>1, <1>4 DEF EndsWithLast
  <2> QED  BY <1>1, <1>4, <2>1, <2>2, <2>3 DEF EndsWithLast
<1> QED  BY <1>3, <1>4 DEF TakeFrame

LEMMA DeliverKeeps ==
  ASSUME IInv, Deliver
  PROVE  IInv'
<1>1. PICK e \in Events : Taken(e) /\ Receive(e, StatusOf[e], Terminal(StatusOf[e]), "live")
  BY DEF Deliver
<1>2. /\ conn = "live" /\ TakeFrame /\ UNCHANGED <<pubVars, opens, snapshot, resume>>
  BY DEF Deliver
<1>3. /\ backlog' \in Seq(Events) /\ pending' \in Seq(Events)
      /\ got' = got \union {e}
      /\ got \union Elements(backlog) \union Elements(pending)
           \subseteq got' \union Elements(backlog') \union Elements(pending')
      /\ EndsWithLast(pending')
      /\ pending' = <<>> => EndsWithLast(backlog')
      /\ backlog' = <<>> /\ pending' = <<>> => e = stream[Len(stream)]
  BY <1>1, <1>2, TakenFacts
<1>4. /\ lastId' = e /\ shows' = StatusOf[e] /\ conn' \in {"off", "lost", "live"}
  BY <1>1 DEF Receive
<1>5. TypeOK'
  <2>1. StatusOf[e] \in Statuses /\ e \in Ids  BY StatusAssumption DEF Ids
  <2>2. got' \subseteq Events  BY <1>3 DEF IInv, TypeOK
  <2> QED  BY <2>1, <2>2, <1>2, <1>3, <1>4 DEF IInv, TypeOK, pubVars
<1>6. NothingMissed'
  <2> SUFFICES ASSUME NEW i \in DOMAIN stream', After(i)'
               PROVE  stream'[i] \in got' \union Elements(backlog') \union Elements(pending')
    BY DEF NothingMissed, Elements
  <2>1. stream' = stream /\ resume' = resume  BY <1>2 DEF pubVars
  <2>2. After(i)  BY <2>1 DEF After
  <2>3. stream[i] \in got \union Elements(backlog) \union Elements(pending)
    BY <2>1, <2>2, <1>2 DEF IInv, NothingMissed
  <2> QED  BY <2>1, <2>3, <1>3
<1>7. ShowsLatest'
  BY <1>2, <1>3, <1>4 DEF ShowsLatest, pubVars
<1>8. QueuesEndWithLast'
  <2>1. stream' = stream  BY <1>2 DEF pubVars
  <2>2. EndsWithLast(pending)' /\ (pending' = <<>> => EndsWithLast(backlog)')
    BY <2>1, <1>3 DEF EndsWithLast
  <2> QED  BY <2>2, <1>4 DEF QueuesEndWithLast
<1>9. PublishedOnce'  BY <1>2, PublishedStays DEF IInv
<1> QED  BY <1>5, <1>6, <1>7, <1>8, <1>9 DEF IInv

LEMMA DropKeeps ==
  ASSUME IInv, Drop
  PROVE  IInv'
<1>1. TypeOK'  BY DEF IInv, TypeOK, Drop, pubVars, serverVars, pageVars
<1>2. /\ NothingMissed' /\ ShowsLatest' /\ QueuesEndWithLast'
  BY DEF Drop, NothingMissed, ShowsLatest, QueuesEndWithLast, Subscribed
<1>3. PublishedOnce'  BY PublishedStays DEF IInv, Drop
<1> QED  BY <1>1, <1>2, <1>3 DEF IInv

LEMMA Inductive == IInv /\ [Next]_vars => IInv'
<1> SUFFICES ASSUME IInv, [Next]_vars PROVE IInv'  OBVIOUS
<1>1. ASSUME NEW p \in Publishers, Record(p) \/ Persist(p) PROVE IInv'  BY <1>1, QuietSteps
<1>2. ASSUME NEW p \in Publishers, Send(p) PROVE IInv'  BY <1>2, SendKeeps
<1>3. ASSUME NEW id \in Ids, Open(id) PROVE IInv'  BY <1>3, OpenKeeps
<1>4. CASE Subscribe  BY <1>4, SubscribeKeeps
<1>5. CASE Replay  BY <1>5, ReplayKeeps
<1>6. CASE Deliver  BY <1>6, DeliverKeeps
<1>7. CASE Drop  BY <1>7, DropKeeps
<1>8. CASE UNCHANGED vars
  BY <1>8 DEF IInv, TypeOK, NothingMissed, ShowsLatest, QueuesEndWithLast, PublishedOnce,
     EndsWithLast, Subscribed, After, Elements, vars, pubVars, serverVars, pageVars
<1> QED  BY <1>1, <1>2, <1>3, <1>4, <1>5, <1>6, <1>7, <1>8 DEF Next

\* Every reachable state satisfies the inductive invariant.
THEOREM StreamInvariance == Spec => []IInv
<1>1. Init => IInv  BY Initially
<1>2. IInv /\ [Next]_vars => IInv'  BY Inductive
<1> QED  BY <1>1, <1>2, PTL DEF Spec

\* No event falls between the replay of the stream and the subscription.
THEOREM NoEventIsMissed == Spec => []NothingMissed
<1>1. IInv => NothingMissed  BY DEF IInv
<1> QED  BY <1>1, StreamInvariance, PTL

\* A browser that has received all there is shows the last event.
THEOREM LastEventIsShown == Spec => []ShowsLatest
<1>1. IInv => ShowsLatest  BY DEF IInv
<1> QED  BY <1>1, StreamInvariance, PTL
=============================================================================
