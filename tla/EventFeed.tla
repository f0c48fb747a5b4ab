----------------------------- MODULE EventFeed ------------------------------
(***************************************************************************)
(* The event log of one session and its live feed.                         *)
(*                                                                         *)
(* Every event is committed to SQLite and then published on the session's  *)
(* broadcast channel, two steps that another writer's two steps can        *)
(* overlap.  A watcher (session.subscribe) registers with the channel,     *)
(* replays the log from where it left off, then follows the channel,       *)
(* dropping what it replayed.  The channel keeps Capacity events per       *)
(* watcher; a watcher that falls behind is told so and its stream ends.    *)
(*                                                                         *)
(* An event is named by its rowid, 1 .. log.                               *)
(***************************************************************************)
EXTENDS Integers, Sequences, SequencesExt

CONSTANTS
  Writers,     \* tasks that log events: turns, detached subagents, joins, ...
  Watchers,    \* clients that call session.subscribe
  Starts,      \* how a new watcher starts: 0, the whole log, or None, from now
  None,
  Capacity,    \* CHANNEL_CAPACITY
  Chunk,       \* REPLAY_CHUNK
  MaxBatch,    \* rows one transaction may commit (a compaction commits three)
  MaxRows,     \* bound on the log
  MaxConnects  \* bound on the subscriptions of a watcher

ASSUME FeedAssumption ==
  /\ Capacity \in Nat \ {0} /\ Chunk \in Nat \ {0} /\ MaxBatch \in Nat \ {0}
  /\ MaxRows \in Nat /\ MaxConnects \in Nat
  /\ None \notin Nat /\ Starts \subseteq {0, None}

VARIABLES
  log,         \* rows of session_events
  unpublished, \* rows each writer has committed and not yet published
  raced,       \* has a step come between another's commit and its publish?
  closing,     \* how far DELETE /sessions/{id} got
  closeRow,    \* the session.close event
  conn,        \* the current subscription of each watcher
  connects,    \* subscriptions so far
  seen         \* events each watcher has received, over all its subscriptions

vars == <<log, unpublished, raced, closing, closeRow, conn, connects, seen>>

\* drive_subscribe's local state.  "live": at work or at the top of its loop;
\* "parked": suspended in select!, where a cancellation can reach it.
Conn == [
  pc: {"off", "replay", "live", "parked", "lagged", "ended"},
  attached: BOOLEAN,     \* the channel it receives from exists
  buf: Seq(1 .. MaxRows),\* what the channel holds for it
  lagged: BOOLEAN,       \* the channel overwrote some of that
  cancelled: BOOLEAN,    \* its Notified future has fired
  base: 0 .. MaxRows,    \* rows up to this one it does not ask for
  cursor: 0 .. MaxRows,  \* the last row replayed
  replayed: SUBSET (1 .. MaxRows),
  dedup: BOOLEAN]

NoConn == [pc |-> "off", attached |-> FALSE, buf |-> <<>>, lagged |-> FALSE,
           cancelled |-> FALSE, base |-> 0, cursor |-> 0, replayed |-> {}, dedup |-> FALSE]

Streaming(s) == conn[s].pc \in {"replay", "live", "parked"}

TypeOK ==
  /\ log \in 0 .. MaxRows
  /\ unpublished \in [Writers -> Seq(1 .. MaxRows)]
  /\ raced \in BOOLEAN
  /\ closing \in {"open", "logged", "published", "removed"}
  /\ closeRow \in 0 .. MaxRows
  /\ conn \in [Watchers -> Conn]
  /\ \A s \in Watchers : Len(conn[s].buf) <= Capacity
  /\ connects \in [Watchers -> 0 .. MaxConnects]
  /\ seen \in [Watchers -> Seq(1 .. MaxRows)]

Init ==
  /\ log = 0
  /\ unpublished = [w \in Writers |-> <<>>]
  /\ raced = FALSE
  /\ closing = "open" /\ closeRow = 0
  /\ conn = [s \in Watchers |-> NoConn]
  /\ connects = [s \in Watchers |-> 0]
  /\ seen = [s \in Watchers |-> <<>>]

-----------------------------------------------------------------------------
(* Committing and publishing.                                              *)

\* Committed and not yet published.
Pending == (UNION {Range(unpublished[w]) : w \in Writers})
             \cup (IF closing = "logged" THEN {closeRow} ELSE {})

Rows(from, to) == [i \in 1 .. (to - from) |-> from + i]

\* insert_event, alone or several in one transaction.
Insert(w) ==
  /\ unpublished[w] = <<>>
  /\ \E n \in 1 .. MaxBatch :
       /\ log + n <= MaxRows
       /\ log' = log + n
       /\ unpublished' = [unpublished EXCEPT ![w] = Rows(log, log + n)]
  /\ raced' = (raced \/ Pending # {})
  /\ UNCHANGED <<closing, closeRow, conn, connects, seen>>

\* Wrong on purpose: what is overwritten is not reported.
BufferSilently(c, row) ==
  [c EXCEPT !.buf = Append(IF Len(c.buf) < Capacity THEN @ ELSE Tail(@), row)]

\* A broadcast send, for one receiver: the oldest event makes room.
Buffer(c, row) ==
  IF Len(c.buf) < Capacity
    THEN [c EXCEPT !.buf = Append(@, row)]
    ELSE [c EXCEPT !.buf = Append(Tail(@), row), !.lagged = TRUE]

\* EventBroadcaster::publish, under the lock of the registry.
Broadcast(row) ==
  conn' = [s \in Watchers |->
             IF Streaming(s) /\ conn[s].attached THEN Buffer(conn[s], row) ELSE conn[s]]

Publish(w) ==
  /\ unpublished[w] # <<>>
  /\ Broadcast(Head(unpublished[w]))
  /\ unpublished' = [unpublished EXCEPT ![w] = Tail(@)]
  /\ UNCHANGED <<log, raced, closing, closeRow, connects, seen>>

-----------------------------------------------------------------------------
(* session.subscribe                                                       *)

\* Register with the channel, then resolve since_event_id: none, no replay; an
\* unknown id, the whole log; else the last event this watcher has received.
Subscribe(s) ==
  /\ ~Streaming(s) /\ connects[s] < MaxConnects
  /\ connects' = [connects EXCEPT ![s] = @ + 1]
  /\ \E since \in IF seen[s] = <<>> THEN Starts ELSE {Last(seen[s])} :
       conn' = [conn EXCEPT ![s] =
         [NoConn EXCEPT !.pc = IF since = None THEN "live" ELSE "replay",
                        !.attached = TRUE,
                        !.base = IF since = None THEN log ELSE since,
                        !.cursor = IF since = None THEN 0 ELSE since,
                        !.dedup = TRUE]]
  /\ raced' = (raced \/ \E i \in Pending : seen[s] # <<>> /\ i <= Last(seen[s]))
  /\ UNCHANGED <<log, unpublished, closing, closeRow, seen>>

PageEnd(s) == IF conn[s].cursor + Chunk < log THEN conn[s].cursor + Chunk ELSE log

\* Wrong on purpose: one page only.
ReplayOnePage(s) ==
  /\ conn[s].pc = "replay"
  /\ seen' = [seen EXCEPT ![s] = @ \o Rows(conn[s].cursor, PageEnd(s))]
  /\ conn' = [conn EXCEPT ![s].pc = "live", ![s].cursor = PageEnd(s),
                          ![s].replayed = @ \cup (conn[s].cursor + 1 .. PageEnd(s))]
  /\ UNCHANGED <<log, unpublished, raced, closing, closeRow, connects>>

\* One page of the log; the watcher may leave in the middle of it.
Replay(s) ==
  /\ conn[s].pc = "replay"
  /\ \E last \in conn[s].cursor .. PageEnd(s) :
       /\ seen' = [seen EXCEPT ![s] = @ \o Rows(conn[s].cursor, last)]
       /\ \/ /\ last < PageEnd(s)
             /\ conn' = [conn EXCEPT ![s] = NoConn]
          \/ /\ last = PageEnd(s)
             /\ conn' = [conn EXCEPT ![s].pc = IF last < log THEN "replay" ELSE "live",
                                     ![s].cursor = last,
                                     ![s].replayed = @ \cup (conn[s].cursor + 1 .. last)]
  /\ UNCHANGED <<log, unpublished, raced, closing, closeRow, connects>>

\* Wrong on purpose: the overlap of replay and channel is not dropped.
ReceiveAll(s) ==
  /\ conn[s].pc \in {"live", "parked"} /\ ~conn[s].lagged /\ conn[s].buf # <<>>
  /\ seen' = [seen EXCEPT ![s] = Append(@, Head(conn[s].buf))]
  /\ conn' = [conn EXCEPT ![s].pc = "live", ![s].buf = Tail(@)]
  /\ UNCHANGED <<log, unpublished, raced, closing, closeRow, connects>>

\* The receive branch of select!, which a pending cancellation precedes.
Receive(s) ==
  LET c == conn[s] IN
  /\ c.pc \in {"live", "parked"} /\ ~c.cancelled
  /\ \/ /\ c.lagged
        /\ conn' = [conn EXCEPT ![s].pc = "lagged"]
        /\ UNCHANGED seen
     \/ /\ ~c.lagged /\ c.buf # <<>> /\ c.dedup /\ Head(c.buf) \in c.replayed
        /\ conn' = [conn EXCEPT ![s].pc = "live", ![s].buf = Tail(@),
                                ![s].replayed = @ \ {Head(c.buf)}]
        /\ UNCHANGED seen
     \/ /\ ~c.lagged /\ c.buf # <<>> /\ ~(c.dedup /\ Head(c.buf) \in c.replayed)
        /\ conn' = [conn EXCEPT ![s].pc = "live", ![s].buf = Tail(@),
                                ![s].replayed = {}, ![s].dedup = FALSE]
        /\ seen' = [seen EXCEPT ![s] = Append(@, Head(c.buf))]
     \/ /\ ~c.lagged /\ c.buf = <<>> /\ ~c.attached
        /\ conn' = [conn EXCEPT ![s].pc = "ended"]
        /\ UNCHANGED seen
  /\ UNCHANGED <<log, unpublished, raced, closing, closeRow, connects>>

\* Nothing to receive: the task is suspended.
Park(s) ==
  /\ conn[s].pc = "live" /\ conn[s].buf = <<>> /\ ~conn[s].lagged /\ conn[s].attached
  /\ conn' = [conn EXCEPT ![s].pc = "parked"]
  /\ UNCHANGED <<log, unpublished, raced, closing, closeRow, connects, seen>>

Stop(s) ==
  /\ conn[s].pc = "parked" /\ conn[s].cancelled
  /\ conn' = [conn EXCEPT ![s].pc = "ended"]
  /\ UNCHANGED <<log, unpublished, raced, closing, closeRow, connects, seen>>

\* The watcher disconnects.
Leave(s) ==
  /\ Streaming(s)
  /\ conn' = [conn EXCEPT ![s] = NoConn]
  /\ UNCHANGED <<log, unpublished, raced, closing, closeRow, connects, seen>>

-----------------------------------------------------------------------------
(* session.unsubscribe and DELETE /sessions/{id}.                          *)

\* Notify::notify_waiters reaches the tasks suspended at this moment.
Notified(c) == IF c.pc = "parked" /\ c.attached THEN [c EXCEPT !.cancelled = TRUE] ELSE c

Unsubscribe ==
  /\ conn' = [s \in Watchers |-> Notified(conn[s])]
  /\ UNCHANGED <<log, unpublished, raced, closing, closeRow, connects, seen>>

LogClose ==
  /\ closing = "open" /\ log < MaxRows
  /\ log' = log + 1 /\ closeRow' = log + 1
  /\ closing' = "logged"
  /\ raced' = (raced \/ Pending # {})
  /\ UNCHANGED <<unpublished, conn, connects, seen>>

PublishClose ==
  /\ closing = "logged"
  /\ Broadcast(closeRow)
  /\ closing' = "published"
  /\ UNCHANGED <<log, unpublished, raced, closeRow, connects, seen>>

\* EventBroadcaster::remove: drop the sender and wake the suspended.
RemoveChannel ==
  /\ closing = "published"
  /\ closing' = "removed"
  /\ conn' = [s \in Watchers |-> [Notified(conn[s]) EXCEPT !.attached = FALSE]]
  /\ UNCHANGED <<log, unpublished, raced, closeRow, connects, seen>>

-----------------------------------------------------------------------------
Close == LogClose \/ PublishClose \/ RemoveChannel

Serve(s) == Replay(s) \/ Receive(s) \/ Park(s) \/ Stop(s)

Next ==
  \/ \E w \in Writers : Insert(w) \/ Publish(w)
  \/ \E s \in Watchers : Subscribe(s) \/ Serve(s) \/ Leave(s)
  \/ Unsubscribe
  \/ Close

(* Writers publish what they committed, the server serves its streams, and  *)
(* watchers read what they are sent.                                        *)
Fairness ==
  /\ \A w \in Writers : WF_vars(Publish(w))
  /\ \A s \in Watchers : WF_vars(Serve(s))
  /\ WF_vars(PublishClose \/ RemoveChannel)

Spec == Init /\ [][Next]_vars /\ Fairness

-----------------------------------------------------------------------------
\* A watcher that reconnects with the last event it received, after a
\* disconnect, a lag or an unsubscribe, receives the log event by event: no
\* gap, no duplicate, no inversion, in replay, at the seam, live and across
\* reconnects - as long as between the commit of a row and its publication no
\* other row is committed and no watcher resumes from that row or a later one
\* (drive_subscribe, insert_and_publish).
ExactlyOnceInOrder ==
  ~raced =>
    \A s \in Watchers : \A i \in 1 .. Len(seen[s]) - 1 : seen[s][i + 1] = seen[s][i] + 1

\* Nothing slips through the seam between replay and live, however writers
\* overlap: what a stream has asked for is received, buffered for it, yet to
\* be replayed or yet to be published, unless it lagged or the channel closed.
SeamHasNoGap ==
  \A s \in Watchers : Streaming(s) /\ conn[s].attached /\ ~conn[s].lagged =>
    \A i \in conn[s].base + 1 .. log :
      \/ i \in Range(seen[s])
      \/ i \in Range(conn[s].buf)
      \/ i \in Pending
      \/ conn[s].pc = "replay" /\ i > conn[s].cursor

\* A stream that stays open delivers every event it asked for in the end: a
\* watcher is never parked behind an event the feed will not give it.
CaughtUp ==
  \A s \in Watchers : \A i \in 1 .. MaxRows :
    (Streaming(s) /\ conn[s].base < i /\ i <= log)
      ~> (i \in Range(seen[s]) \/ ~Streaming(s))
=============================================================================
