---------------------------- MODULE ProgressStream ----------------------------
(***************************************************************************)
(* How a browser follows the progress of one workflow run.                 *)
(*                                                                         *)
(* A publisher writes an event into the run's row and then, in a second    *)
(* step, appends it to a Redis stream and sends it on a Redis channel.     *)
(* The handler of the event stream reads the row, subscribes to the        *)
(* channel, sends the row as a snapshot, replays the stream, and goes on   *)
(* with what the channel brings.  A browser that loses the connection      *)
(* opens it again with the id of the last frame it has seen.               *)
(*                                                                         *)
(* An operator M_X is a plausible mistake in the operator after it; a run  *)
(* with the mistake in place of the operator violates a property below.    *)
(***************************************************************************)
EXTENDS Naturals, Sequences

CONSTANTS Publishers,  \* processes that publish events of the run
          Events,      \* event ids
          Script,      \* [Publishers -> Seq(Events)]: what each publishes, in order
          StatusOf,    \* [Events -> Statuses]
          NoEvent,     \* no id: a NULL column, a missing Last-Event-ID header
          FreshId,     \* an id made up for a snapshot, unknown to the stream
          MaxOpens,    \* bound: how often the browser opens a connection
          Trouble      \* what may go wrong: "db", "redis", "drop"

\* "active": queued or running.  "ended": completed, failed or interrupted.
Statuses == {"active", "ended", "cancelled"}
Ids      == Events \union {NoEvent, FreshId}

ASSUME ScriptAssumption == Script \in [Publishers -> Seq(Events)]
ASSUME StatusAssumption == StatusOf \in [Events -> Statuses]
ASSUME IdAssumption == NoEvent \notin Events /\ FreshId \notin Events /\ NoEvent # FreshId
ASSUME OpensAssumption == MaxOpens \in Nat

\* build_progress_event gives every event an id of its own.
ASSUME DistinctAssumption ==
  \A p, q \in Publishers : \A i \in DOMAIN Script[p], j \in DOMAIN Script[q] :
     Script[p][i] = Script[q][j] => p = q /\ i = j

VARIABLES
  row,      \* workflow_runs.status
  latest,   \* workflow_runs.latest_event_id
  stream,   \* the run's Redis stream
  next,     \* index of the event each publisher is at
  phase,    \* what each publisher does next with that event
  conn,     \* the connection of the browser and the step its handler is at
  opens,    \* connections opened so far
  snapshot, \* the handler's reading of the row, as a frame
  resume,   \* after which event the handler replays
  backlog,  \* frames read from the stream, not sent yet
  pending,  \* messages the subscription has received, not sent yet
  got,      \* events sent on this connection
  lastId,   \* id of the last frame the browser has received
  shows     \* status the browser shows

pubVars    == <<row, latest, stream, next, phase>>
serverVars == <<snapshot, resume, backlog, pending, got>>
pageVars   == <<lastId, shows>>
vars       == <<pubVars, conn, opens, serverVars, pageVars>>

Elements(s)  == {s[i] : i \in DOMAIN s}
Terminal(st) == st # "active"

Init ==
  /\ row = "active" /\ latest = NoEvent /\ stream = <<>>
  /\ next = [p \in Publishers |-> 1]
  /\ phase = [p \in Publishers |-> "record"]
  /\ conn = "off" /\ opens = 0
  /\ snapshot = [id |-> NoEvent, status |-> "active"]
  /\ resume = NoEvent /\ backlog = <<>> /\ pending = <<>> /\ got = {}
  /\ lastId = NoEvent /\ shows = "active"

-----------------------------------------------------------------------------
\* Publishers.
Publishing(p) == next[p] <= Len(Script[p])
Event(p)      == Script[p][next[p]]

Goto(p, l) == phase' = [phase EXCEPT ![p] = l]

\* publish is called once for an event, and not again if it fails.
Advance(p) == next' = [next EXCEPT ![p] = @ + 1] /\ Goto(p, "record")

\* The transaction an event reports: it may have set the status already, but
\* not the event id.  A cancellation is refused unless the run is active.
Record(p) ==
  /\ Publishing(p) /\ phase[p] = "record"
  /\ \/ StatusOf[Event(p)] = "cancelled" /\ row # "active" /\ Advance(p) /\ UNCHANGED row
     \/ /\ StatusOf[Event(p)] = "cancelled" => row = "active"
        /\ row' = StatusOf[Event(p)] /\ Goto(p, "persist") /\ UNCHANGED next
     \/ StatusOf[Event(p)] # "cancelled" /\ Goto(p, "persist") /\ UNCHANGED <<row, next>>
  /\ UNCHANGED <<latest, stream, conn, opens, serverVars, pageVars>>

\* ProgressPublisher.publish: the row first, and whatever becomes of it ...
Persist(p) ==
  /\ Publishing(p) /\ phase[p] = "persist"
  /\ \/ row' = StatusOf[Event(p)] /\ latest' = Event(p)
     \/ "db" \in Trouble /\ UNCHANGED <<row, latest>>
  /\ Goto(p, "send")
  /\ UNCHANGED <<stream, next, conn, opens, serverVars, pageVars>>

M_SubscribedLate == conn = "live" /\ backlog = <<>>

\* The handler's subscription is open.
Subscribed == conn \in {"subscribed", "live"}

\* ... then Redis, in one transaction of the pipeline; or not.
Send(p) ==
  /\ Publishing(p) /\ phase[p] = "send"
  /\ \/ /\ stream' = Append(stream, Event(p))
        /\ pending' = IF Subscribed THEN Append(pending, Event(p)) ELSE pending
     \/ "redis" \in Trouble /\ UNCHANGED <<stream, pending>>
  /\ Advance(p)
  /\ UNCHANGED <<row, latest, conn, opens, snapshot, resume, backlog, got, pageVars>>

-----------------------------------------------------------------------------
\* workflow_events reads the row.  Without a Last-Event-ID the replay of an
\* active run starts after the event the row names.
Open(id) ==
  /\ conn \in {"off", "lost"} /\ opens < MaxOpens
  /\ id = NoEvent \/ (conn = "lost" /\ id = lastId)
  /\ opens' = opens + 1
  /\ snapshot' = [id |-> IF latest = NoEvent THEN FreshId ELSE latest, status |-> row]
  /\ resume' = IF id = NoEvent /\ ~Terminal(row) THEN latest ELSE id
  /\ conn' = "read"
  /\ backlog' = <<>> /\ pending' = <<>> /\ got' = {}
  /\ UNCHANGED <<pubVars, pageVars>>

\* The page closes its EventSource on these; it does not list cancelled.
PageCloses(st) == st = "ended"

\* A frame is received, and the connection goes on or ends at one side.
Receive(id, st, serverCloses, l) ==
  /\ lastId' = id /\ shows' = st
  /\ conn' = IF PageCloses(st) THEN "off" ELSE IF serverCloses THEN "lost" ELSE l

\* stream_progress: subscribe, then send the snapshot; a terminal one is the
\* only frame of a connection that resumes nothing.
Subscribe ==
  /\ conn = "read"
  /\ Receive(snapshot.id, snapshot.status, Terminal(snapshot.status) /\ resume = NoEvent, "subscribed")
  /\ UNCHANGED <<pubVars, opens, serverVars>>

\* What the stream holds after the event to resume at: nothing, if it does
\* not hold that event.
Replayed ==
  LET found == {i \in DOMAIN stream : stream[i] = resume}
  IN  IF resume = NoEvent THEN stream
      ELSE IF found = {} THEN <<>>
      ELSE SubSeq(stream, (CHOOSE i \in found : TRUE) + 1, Len(stream))

Replay ==
  /\ conn = "subscribed"
  /\ backlog' = Replayed
  /\ conn' = "live"
  /\ UNCHANGED <<pubVars, opens, snapshot, resume, pending, got, pageVars>>

M_LiveFirst ==
  \/ pending # <<>> /\ got' = got \union {Head(pending)}
     /\ pending' = Tail(pending) /\ UNCHANGED backlog
  \/ pending = <<>> /\ backlog # <<>> /\ got' = got \union {Head(backlog)}
     /\ backlog' = Tail(backlog) /\ UNCHANGED pending

\* The replay is sent before what the subscription has received meanwhile.
TakeFrame ==
  \/ backlog # <<>> /\ got' = got \union {Head(backlog)}
     /\ backlog' = Tail(backlog) /\ UNCHANGED pending
  \/ backlog = <<>> /\ pending # <<>> /\ got' = got \union {Head(pending)}
     /\ pending' = Tail(pending) /\ UNCHANGED backlog

\* The frame TakeFrame has taken.
Taken(e) == (backlog # backlog' /\ e = Head(backlog)) \/ (pending # pending' /\ e = Head(pending))

Deliver ==
  /\ conn = "live"
  /\ TakeFrame
  /\ \E e \in Events : Taken(e) /\ Receive(e, StatusOf[e], Terminal(StatusOf[e]), "live")
  /\ UNCHANGED <<pubVars, opens, snapshot, resume>>

\* The network, Redis or the API process ends the connection.
Drop ==
  /\ "drop" \in Trouble /\ conn \in {"read", "subscribed", "live"}
  /\ conn' = "lost"
  /\ UNCHANGED <<pubVars, opens, serverVars, pageVars>>

Next ==
  \/ \E p \in Publishers : Record(p) \/ Persist(p) \/ Send(p)
  \/ \E id \in Ids : Open(id)
  \/ Subscribe \/ Replay \/ Deliver \/ Drop

Spec == Init /\ [][Next]_vars

-----------------------------------------------------------------------------
TypeOK ==
  /\ row \in Statuses /\ latest \in Events \union {NoEvent}
  /\ stream \in Seq(Events)
  /\ next \in [Publishers -> Nat \ {0}]
  /\ phase \in [Publishers -> {"record", "persist", "send"}]
  /\ conn \in {"off", "lost", "read", "subscribed", "live"}
  /\ opens \in 0..MaxOpens
  /\ snapshot \in [id : Ids, status : Statuses]
  /\ resume \in Ids
  /\ backlog \in Seq(Events) /\ pending \in Seq(Events) /\ got \subseteq Events
  /\ lastId \in Ids /\ shows \in Statuses

\* The stream's i-th event comes after the one the handler resumes at.
After(i) == resume = NoEvent \/ \E j \in 1..(i - 1) : stream[j] = resume

\* No event falls between the replay and the subscription: while a connection
\* lives, every event of the stream after the one it resumes at has been sent
\* or waits to be sent, although publishers move between the handler's steps.
NothingMissed ==
  conn = "live" =>
    \A i \in DOMAIN stream :
       After(i) => stream[i] \in got \union Elements(backlog) \union Elements(pending)

\* A browser that has received all there is shows the last event published,
\* although events sent twice, by the replay and by the subscription, have
\* taken it back to earlier ones meanwhile.
ShowsLatest ==
  conn = "live" /\ backlog = <<>> /\ pending = <<>> /\ got # {}
    => lastId = stream[Len(stream)] /\ shows = StatusOf[lastId]

\* What is still to be sent ends with the stream's last event.
EndsWithLast(s) == s # <<>> => stream # <<>> /\ s[Len(s)] = stream[Len(stream)]

QueuesEndWithLast ==
  /\ Subscribed => EndsWithLast(pending)
  /\ conn = "live" /\ pending = <<>> => EndsWithLast(backlog)
  /\ conn \in {"read", "subscribed"} => backlog = <<>> /\ got = {}
  /\ conn = "read" => pending = <<>>
  /\ conn = "live" /\ got # {} => lastId \in Events /\ shows = StatusOf[lastId]

\* An event enters the stream once, when its publisher passes it.
PublishedOnce ==
  /\ \A i, j \in DOMAIN stream : stream[i] = stream[j] => i = j
  /\ \A i \in DOMAIN stream : \E p \in Publishers : \E k \in DOMAIN Script[p] :
        k < next[p] /\ stream[i] = Script[p][k]

\* What every step preserves, and what the properties above follow from.
IInv == TypeOK /\ NothingMissed /\ ShowsLatest /\ QueuesEndWithLast /\ PublishedOnce
=============================================================================
