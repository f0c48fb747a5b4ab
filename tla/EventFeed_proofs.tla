-------------------------- MODULE EventFeed_proofs --------------------------
(***************************************************************************)
(* What goes through a stream, in order: proofs about EventFeed, for any   *)
(* number of writers, watchers, rows and subscriptions, any capacity, page *)
(* and batch size; and, at the end, about McpConnection.                   *)
(*                                                                         *)
(* No gap at the seam is inductive with little more than types: what a     *)
(* stream will drop as a duplicate it has received (SeamOK).               *)
(***************************************************************************)
EXTENDS EventFeed, McpConnection, SequenceTheorems, TLAPS

\* What TypeOK says of a connection.
Bounded(c) == c \in Conn /\ Len(c.buf) <= Capacity

Open(c) == c.pc \in {"replay", "live", "parked"}

\* One watcher's part of SeamHasNoGap: c is its connection, q what it has
\* received, P the rows that are pending, l the length of the log.
Covered(c, q, P, l) ==
  Open(c) /\ c.attached /\ ~c.lagged =>
    \A i \in c.base + 1 .. l :
      i \in Range(q) \/ i \in Range(c.buf) \/ i \in P \/ (c.pc = "replay" /\ i > c.cursor)

SeamOK(c, q, P, l) == Covered(c, q, P, l) /\ (Open(c) => c.replayed \subseteq Range(q))

CloseSane == closing = "logged" => closeRow # 0

SeamInv == TypeOK /\ CloseSane /\ \A s \in Watchers : SeamOK(conn[s], seen[s], Pending, log)

-----------------------------------------------------------------------------
(* Data: rows, buffers, sequences of successive numbers.                   *)

\* What Rows returns.
LEMMA RowsProperties ==
  ASSUME NEW a \in Nat, NEW b \in Nat, a <= b, b <= MaxRows
  PROVE  /\ Rows(a, b) \in Seq(1 .. MaxRows)
         /\ Len(Rows(a, b)) = b - a
         /\ \A i \in 1 .. b - a : Rows(a, b)[i] = a + i
<1>1. Rows(a, b) \in [1 .. b - a -> 1 .. MaxRows]
  BY FeedAssumption DEF Rows
<1>2. b - a \in Nat
  OBVIOUS
<1>3. Rows(a, b) \in Seq(1 .. MaxRows)
  BY <1>1, <1>2, SeqDef
<1>4. DOMAIN Rows(a, b) = 1 .. b - a /\ DOMAIN Rows(a, b) = 1 .. Len(Rows(a, b))
  BY <1>1, <1>3, LenProperties
<1>5. Len(Rows(a, b)) = b - a
  BY <1>2, <1>3, <1>4
<1>. QED
  BY <1>3, <1>5 DEF Rows

\* A send changes a receiver's buffer and its lag, nothing else.
LEMMA BufferProperties ==
  ASSUME NEW c, Bounded(c), NEW row \in 1 .. MaxRows
  PROVE  /\ Bounded(Buffer(c, row))
         /\ Buffer(c, row).pc = c.pc /\ Buffer(c, row).attached = c.attached
         /\ Buffer(c, row).base = c.base /\ Buffer(c, row).cursor = c.cursor
         /\ Buffer(c, row).replayed = c.replayed /\ Buffer(c, row).dedup = c.dedup
         /\ ~Buffer(c, row).lagged => ~c.lagged /\ Buffer(c, row).buf = Append(c.buf, row)
<1>1. c.buf \in Seq(1 .. MaxRows) /\ Len(c.buf) \in Nat
  BY DEF Bounded, Conn
<1>2. CASE Len(c.buf) < Capacity
  <2>1. Append(c.buf, row) \in Seq(1 .. MaxRows) /\ Len(Append(c.buf, row)) = Len(c.buf) + 1
    BY <1>1
  <2>2. Buffer(c, row) = [c EXCEPT !.buf = Append(c.buf, row)]
    BY <1>2 DEF Buffer
  <2>3. c \in Conn
    BY DEF Bounded
  <2>4. Buffer(c, row) \in Conn /\ Buffer(c, row).buf = Append(c.buf, row)
    BY <2>1, <2>2, <2>3 DEF Conn
  <2>5. Len(Buffer(c, row).buf) <= Capacity
    BY <1>1, <1>2, <2>1, <2>4, FeedAssumption
  <2>6. /\ Buffer(c, row).pc = c.pc /\ Buffer(c, row).attached = c.attached
        /\ Buffer(c, row).base = c.base /\ Buffer(c, row).cursor = c.cursor
        /\ Buffer(c, row).replayed = c.replayed /\ Buffer(c, row).dedup = c.dedup
        /\ Buffer(c, row).lagged = c.lagged
    BY <2>2, <2>3 DEF Conn
  <2>. QED
    BY <2>4, <2>5, <2>6 DEF Bounded
<1>3. CASE ~(Len(c.buf) < Capacity)
  <2>1. c.buf # <<>>
    BY <1>1, <1>3, FeedAssumption
  <2>2. Tail(c.buf) \in Seq(1 .. MaxRows) /\ Len(Tail(c.buf)) = Len(c.buf) - 1
    BY <1>1, <2>1, HeadTailProperties
  <2>3. /\ Append(Tail(c.buf), row) \in Seq(1 .. MaxRows)
        /\ Len(Append(Tail(c.buf), row)) = Len(c.buf)
    BY <1>1, <2>2
  <2>4. Buffer(c, row) = [c EXCEPT !.buf = Append(Tail(c.buf), row), !.lagged = TRUE]
    BY <1>3 DEF Buffer
  <2>. QED
    BY ZenonT(60), <1>1, <1>3, <2>3, <2>4, FeedAssumption DEF Bounded, Conn
<1>. QED
  BY <1>2, <1>3

\* Every connection TypeOK speaks of is Bounded, and the other way round.
LEMMA BoundedConn ==
  ASSUME TypeOK
  PROVE  \A s \in Watchers : Bounded(conn[s])
BY DEF TypeOK, Bounded

\* The connection of a watcher that has none is well typed.
LEMMA NoConnBounded == Bounded(NoConn)
BY FeedAssumption DEF Bounded, NoConn, Conn

\* f is a function of the watchers.
OfWatchers(f) == f = [t \in Watchers |-> f[t]]

\* A publication, for each watcher.
LEMMA BroadcastProperties ==
  ASSUME TypeOK, NEW row \in 1 .. MaxRows, Broadcast(row), NEW s \in Watchers
  PROVE  /\ OfWatchers(conn')
         /\ Bounded(conn'[s])
         /\ conn'[s] = IF Streaming(s) /\ conn[s].attached
                         THEN Buffer(conn[s], row) ELSE conn[s]
BY BoundedConn, BufferProperties DEF Broadcast, OfWatchers

-----------------------------------------------------------------------------
(* What each action on a watcher does to it.                               *)

\* Every other watcher is left alone.
Others(s) ==
  /\ OfWatchers(conn') /\ OfWatchers(seen')
  /\ \A t \in Watchers \ {s} : conn'[t] = conn[t] /\ seen'[t] = seen[t]

\* The log, its writers and the close are left alone.
LogKept == UNCHANGED <<log, unpublished, closing, closeRow>>

\* A page of the log: rows up to last are received, and the stream is closed,
\* or goes on with the next page, or has reached the end and goes live.
Paged(s, last) ==
  LET c == conn[s] IN
  /\ c.pc = "replay"
  /\ last \in c.cursor .. log
  /\ seen'[s] = seen[s] \o Rows(c.cursor, last)
  /\ \/ conn'[s] = NoConn
     \/ \E pc \in {"replay", "live"} :
          /\ pc = "live" => last = log
          /\ conn'[s] = [c EXCEPT !.pc = pc, !.cursor = last,
                                  !.replayed = c.replayed \cup (c.cursor + 1 .. last)]

\* Replay is a page.
LEMMA ReplayProperties ==
  ASSUME TypeOK, NEW s \in Watchers, Replay(s)
  PROVE  Others(s) /\ LogKept /\ \E last \in Nat : Paged(s, last)
<1>1. /\ log \in Nat /\ conn[s].cursor \in Nat /\ conn \in [Watchers -> Conn]
      /\ seen \in [Watchers -> Seq(1 .. MaxRows)]
  BY FeedAssumption DEF TypeOK, Conn
<1>2. PageEnd(s) <= log /\ PageEnd(s) \in Nat
  BY <1>1, FeedAssumption DEF PageEnd
<1>3. PICK last \in conn[s].cursor .. PageEnd(s) :
        /\ seen' = [seen EXCEPT ![s] = @ \o Rows(conn[s].cursor, last)]
        /\ \/ conn' = [conn EXCEPT ![s] = NoConn]
           \/ /\ last = PageEnd(s)
              /\ conn' = [conn EXCEPT ![s].pc = IF last < log THEN "replay" ELSE "live",
                            ![s].cursor = last,
                            ![s].replayed = @ \cup (conn[s].cursor + 1 .. last)]
  BY DEF Replay
<1>4. last \in Nat /\ last \in conn[s].cursor .. log
  BY <1>1, <1>2
<1>5. Paged(s, last)
  <2>1. seen'[s] = seen[s] \o Rows(conn[s].cursor, last)
    BY <1>1, <1>3
  <2>2. CASE conn' = [conn EXCEPT ![s] = NoConn]
    BY <1>1, <1>4, <2>1, <2>2 DEF Paged, Replay
  <2>3. CASE /\ last = PageEnd(s)
             /\ conn' = [conn EXCEPT ![s].pc = IF last < log THEN "replay" ELSE "live",
                           ![s].cursor = last,
                           ![s].replayed = @ \cup (conn[s].cursor + 1 .. last)]
    <3>1. CASE last < log
      <4>1. conn'[s] = [conn[s] EXCEPT !.pc = "replay", !.cursor = last,
                          !.replayed = conn[s].replayed \cup (conn[s].cursor + 1 .. last)]
        BY <1>1, <2>3, <3>1
      <4>. QED
        BY <1>4, <2>1, <4>1 DEF Paged, Replay
    <3>2. CASE ~(last < log)
      <4>1. conn'[s] = [conn[s] EXCEPT !.pc = "live", !.cursor = last,
                          !.replayed = conn[s].replayed \cup (conn[s].cursor + 1 .. last)]
        BY <1>1, <2>3, <3>2
      <4>2. last = log
        BY <1>1, <1>4, <3>2
      <4>. QED
        BY <1>4, <2>1, <4>1, <4>2 DEF Paged, Replay
    <3>. QED
      BY <3>1, <3>2
  <2>. QED
    BY <1>3, <2>2, <2>3
<1>. QED
  BY <1>1, <1>3, <1>4, <1>5 DEF Replay, Others, OfWatchers, LogKept

\* The stream ends, or skips the head of its buffer, or delivers it.
Ended(s) ==
  /\ seen'[s] = seen[s]
  /\ \E pc \in {"lagged", "ended", "off"} :
       conn'[s] = [conn[s] EXCEPT !.pc = pc] \/ conn'[s] = [NoConn EXCEPT !.pc = pc]

Receiving(c) == c.pc \in {"live", "parked"} /\ ~c.lagged /\ c.buf # <<>>

Skipped(s) ==
  LET c == conn[s] IN
  /\ Receiving(c) /\ c.dedup /\ Head(c.buf) \in c.replayed
  /\ seen'[s] = seen[s]
  /\ conn'[s] = [c EXCEPT !.pc = "live", !.buf = Tail(c.buf),
                          !.replayed = c.replayed \ {Head(c.buf)}]

Delivered(s) ==
  LET c == conn[s] IN
  /\ Receiving(c) /\ ~(c.dedup /\ Head(c.buf) \in c.replayed)
  /\ seen'[s] = Append(seen[s], Head(c.buf))
  /\ conn'[s] = [c EXCEPT !.pc = "live", !.buf = Tail(c.buf), !.replayed = {},
                          !.dedup = FALSE]

\* Receive ends the stream, skips a duplicate or delivers.
LEMMA ReceiveProperties ==
  ASSUME TypeOK, NEW s \in Watchers, Receive(s)
  PROVE  Others(s) /\ LogKept /\ (Ended(s) \/ Skipped(s) \/ Delivered(s))
<1>. DEFINE c == conn[s]
<1>1. conn \in [Watchers -> Conn] /\ seen \in [Watchers -> Seq(1 .. MaxRows)]
  BY DEF TypeOK
<1>2. CASE c.lagged /\ conn' = [conn EXCEPT ![s].pc = "lagged"] /\ UNCHANGED seen
  <2>1. Ended(s)
    BY <1>1, <1>2 DEF Ended
  <2>. QED
    BY <1>1, <1>2, <2>1 DEF Receive, Others, OfWatchers, LogKept
<1>3. CASE /\ ~c.lagged /\ c.buf # <<>> /\ c.dedup /\ Head(c.buf) \in c.replayed
           /\ conn' = [conn EXCEPT ![s].pc = "live", ![s].buf = Tail(@),
                                   ![s].replayed = @ \ {Head(c.buf)}]
           /\ UNCHANGED seen
  <2>1. Skipped(s)
    BY <1>1, <1>3 DEF Skipped, Receiving, Receive
  <2>. QED
    BY <1>1, <1>3, <2>1 DEF Receive, Others, OfWatchers, LogKept
<1>4. CASE /\ ~c.lagged /\ c.buf # <<>> /\ ~(c.dedup /\ Head(c.buf) \in c.replayed)
           /\ conn' = [conn EXCEPT ![s].pc = "live", ![s].buf = Tail(@),
                                   ![s].replayed = {}, ![s].dedup = FALSE]
           /\ seen' = [seen EXCEPT ![s] = Append(@, Head(c.buf))]
  <2>1. Delivered(s)
    BY <1>1, <1>4 DEF Delivered, Receiving, Receive
  <2>. QED
    BY <1>1, <1>4, <2>1 DEF Receive, Others, OfWatchers, LogKept
<1>5. CASE /\ ~c.lagged /\ c.buf = <<>> /\ ~c.attached
           /\ conn' = [conn EXCEPT ![s].pc = "ended"] /\ UNCHANGED seen
  <2>1. Ended(s)
    BY <1>1, <1>5 DEF Ended
  <2>. QED
    BY <1>1, <1>5, <2>1 DEF Receive, Others, OfWatchers, LogKept
<1>. QED
  BY <1>2, <1>3, <1>4, <1>5 DEF Receive

\* Stop and Leave end the stream.
LEMMA EndProperties ==
  ASSUME TypeOK, NEW s \in Watchers, Stop(s) \/ Leave(s)
  PROVE  Others(s) /\ LogKept /\ Ended(s)
<1>1. NoConn = [NoConn EXCEPT !.pc = "off"]
  BY DEF NoConn
<1>. QED
  BY <1>1 DEF TypeOK, Stop, Leave, Others, OfWatchers, LogKept, Ended

\* Park suspends the stream.
LEMMA ParkProperties ==
  ASSUME TypeOK, NEW s \in Watchers, Park(s)
  PROVE  /\ Others(s) /\ LogKept /\ seen'[s] = seen[s]
         /\ conn[s].pc = "live" /\ conn'[s] = [conn[s] EXCEPT !.pc = "parked"]
BY DEF TypeOK, Park, Others, OfWatchers, LogKept

\* A new stream: live from now on, or the replay of what follows row from.
Subscribed(s, from) ==
  /\ seen'[s] = seen[s]
  /\ \/ /\ from = None
        /\ conn'[s] = [NoConn EXCEPT !.pc = "live", !.attached = TRUE, !.base = log,
                                     !.cursor = 0, !.dedup = TRUE]
     \/ /\ from # None
        /\ conn'[s] = [NoConn EXCEPT !.pc = "replay", !.attached = TRUE, !.base = from,
                                     !.cursor = from, !.dedup = TRUE]

\* Subscribe starts from now, from the first row or after the last one received.
LEMMA SubscribeProperties ==
  ASSUME TypeOK, NEW s \in Watchers, Subscribe(s)
  PROVE  /\ Others(s) /\ LogKept /\ connects' \in [Watchers -> 0 .. MaxConnects]
         /\ \/ seen[s] = <<>> /\ Subscribed(s, None)
            \/ seen[s] = <<>> /\ Subscribed(s, 0)
            \/ seen[s] # <<>> /\ Subscribed(s, seen[s][Len(seen[s])])
<1>1. PICK since \in IF seen[s] = <<>> THEN Starts ELSE {Last(seen[s])} :
       conn' = [conn EXCEPT ![s] =
         [NoConn EXCEPT !.pc = IF since = None THEN "live" ELSE "replay",
                        !.attached = TRUE,
                        !.base = IF since = None THEN log ELSE since,
                        !.cursor = IF since = None THEN 0 ELSE since,
                        !.dedup = TRUE]]
  BY DEF Subscribe
<1>2. Subscribed(s, since)
  BY <1>1 DEF Subscribe, Subscribed, TypeOK
<1>3. seen[s] = <<>> => since \in {0, None}
  BY <1>1, FeedAssumption
<1>4. seen[s] # <<>> => since = seen[s][Len(seen[s])]
  BY <1>1 DEF Last
<1>5. connects' \in [Watchers -> 0 .. MaxConnects]
  BY FeedAssumption DEF Subscribe, TypeOK
<1>. QED
  BY <1>1, <1>2, <1>3, <1>4, <1>5 DEF Subscribe, Others, OfWatchers, LogKept, TypeOK

-----------------------------------------------------------------------------
(* Types.                                                                  *)

\* Types after a page.
LEMMA PagedTypes ==
  ASSUME TypeOK, NEW s \in Watchers, NEW last \in Nat, Paged(s, last)
  PROVE  Bounded(conn'[s]) /\ seen'[s] \in Seq(1 .. MaxRows)
<1>1. /\ conn[s] \in Conn /\ conn[s].cursor \in Nat /\ log \in Nat /\ log <= MaxRows
      /\ seen[s] \in Seq(1 .. MaxRows) /\ Bounded(conn[s])
  BY FeedAssumption, BoundedConn DEF TypeOK, Conn
<1>2. conn[s].cursor <= last /\ last <= MaxRows
  BY <1>1, FeedAssumption DEF Paged
<1>3. seen'[s] \in Seq(1 .. MaxRows)
  BY <1>1, <1>2, RowsProperties, ConcatProperties DEF Paged
<1>4. CASE conn'[s] = NoConn
  BY <1>3, <1>4, NoConnBounded
<1>5. ASSUME NEW pc \in {"replay", "live"},
             conn'[s] = [conn[s] EXCEPT !.pc = pc, !.cursor = last,
                !.replayed = conn[s].replayed \cup (conn[s].cursor + 1 .. last)]
      PROVE  Bounded(conn'[s])
  <2>1. conn[s].replayed \cup (conn[s].cursor + 1 .. last) \in SUBSET (1 .. MaxRows)
    BY <1>1, <1>2, FeedAssumption DEF Conn
  <2>2. last \in 0 .. MaxRows
    BY <1>2, FeedAssumption
  <2>3. conn'[s] \in Conn /\ conn'[s].buf = conn[s].buf
    BY ZenonT(60), <1>1, <1>5, <2>1, <2>2 DEF Conn
  <2>. QED
    BY <1>1, <2>3 DEF Bounded
<1>. QED
  BY <1>3, <1>4, <1>5 DEF Paged

\* Types after the end of a stream.
LEMMA EndedTypes ==
  ASSUME TypeOK, NEW s \in Watchers, Ended(s)
  PROVE  Bounded(conn'[s]) /\ seen'[s] \in Seq(1 .. MaxRows)
<1>1. PICK pc \in {"lagged", "ended", "off"} :
        conn'[s] = [conn[s] EXCEPT !.pc = pc] \/ conn'[s] = [NoConn EXCEPT !.pc = pc]
  BY DEF Ended
<1>2. Bounded(conn[s]) /\ Bounded(NoConn) /\ seen[s] \in Seq(1 .. MaxRows)
  BY BoundedConn, NoConnBounded DEF TypeOK
<1>3. ASSUME NEW c, Bounded(c)
      PROVE  Bounded([c EXCEPT !.pc = pc])
  BY <1>1, <1>3 DEF Bounded, Conn
<1>. QED
  BY <1>1, <1>2, <1>3 DEF Ended

\* The head and the tail of a buffer.
LEMMA HeadTypes ==
  ASSUME NEW c, Bounded(c), c.buf # <<>>
  PROVE  /\ Head(c.buf) \in 1 .. MaxRows /\ Head(c.buf) = c.buf[1]
         /\ Len(c.buf) \in Nat /\ Len(c.buf) >= 1 /\ Len(c.buf) <= Capacity
         /\ c.buf \in Seq(1 .. MaxRows)
         /\ Tail(c.buf) \in Seq(1 .. MaxRows) /\ Len(Tail(c.buf)) = Len(c.buf) - 1
         /\ \A i \in 1 .. Len(c.buf) - 1 : Tail(c.buf)[i] = c.buf[i + 1]
<1>1. c.buf \in Seq(1 .. MaxRows) /\ Len(c.buf) <= Capacity
  BY DEF Bounded, Conn
<1>2. Len(c.buf) \in Nat /\ Len(c.buf) >= 1
  BY <1>1, EmptySeq
<1>3. /\ Head(c.buf) \in 1 .. MaxRows /\ Tail(c.buf) \in Seq(1 .. MaxRows)
      /\ Len(Tail(c.buf)) = Len(c.buf) - 1
      /\ \A i \in 1 .. Len(c.buf) - 1 : Tail(c.buf)[i] = c.buf[i + 1]
  BY <1>1, HeadTailProperties
<1>. QED
  BY <1>1, <1>2, <1>3

\* Types after an event of the channel.
LEMMA ReceivedTypes ==
  ASSUME TypeOK, NEW s \in Watchers, Skipped(s) \/ Delivered(s)
  PROVE  Bounded(conn'[s]) /\ seen'[s] \in Seq(1 .. MaxRows)
<1>. DEFINE c == conn[s]
<1>1. Bounded(c) /\ c \in Conn /\ c.buf # <<>> /\ seen[s] \in Seq(1 .. MaxRows)
  BY BoundedConn DEF TypeOK, Skipped, Delivered, Receiving
<1>2. /\ Head(c.buf) \in 1 .. MaxRows
      /\ Tail(c.buf) \in Seq(1 .. MaxRows) /\ Len(Tail(c.buf)) <= Capacity
  BY <1>1, HeadTypes, FeedAssumption
<1>3. conn'[s] \in Conn /\ conn'[s].buf = Tail(c.buf)
  <2>1. CASE Skipped(s)
    BY ZenonT(60), <1>1, <1>2, <2>1 DEF Skipped, Conn
  <2>2. CASE Delivered(s)
    BY ZenonT(60), <1>1, <1>2, <2>2 DEF Delivered, Conn
  <2>. QED
    BY <2>1, <2>2
<1>4. Append(seen[s], Head(c.buf)) \in Seq(1 .. MaxRows)
  BY <1>1, <1>2, AppendProperties
<1>5. seen'[s] \in Seq(1 .. MaxRows)
  BY <1>1, <1>4 DEF Skipped, Delivered
<1>. QED
  BY <1>2, <1>3, <1>5 DEF Bounded

\* Types of a new stream.
LEMMA SubscribedTypes ==
  ASSUME TypeOK, NEW s \in Watchers, NEW from \in (0 .. MaxRows) \cup {None}, Subscribed(s, from)
  PROVE  Bounded(conn'[s]) /\ seen'[s] \in Seq(1 .. MaxRows)
<1>1. NoConn \in Conn /\ log \in 0 .. MaxRows /\ 0 \in 0 .. MaxRows
  BY NoConnBounded, FeedAssumption DEF TypeOK, Bounded
<1>2. NoConn.buf = <<>> /\ Len(<<>>) <= Capacity
  BY FeedAssumption DEF NoConn
<1>3. conn'[s] \in Conn /\ conn'[s].buf = NoConn.buf
  BY ZenonT(60), <1>1 DEF Subscribed, Conn
<1>. QED
  BY <1>2, <1>3 DEF Bounded, Subscribed, TypeOK

\* conn and seen have their types when each watcher's part has.
LEMMA WatcherTypes ==
  ASSUME OfWatchers(conn'), OfWatchers(seen'),
         \A s \in Watchers : Bounded(conn'[s]) /\ seen'[s] \in Seq(1 .. MaxRows)
  PROVE  /\ conn' \in [Watchers -> Conn] /\ seen' \in [Watchers -> Seq(1 .. MaxRows)]
         /\ \A s \in Watchers : Len(conn'[s].buf) <= Capacity
<1>1. \A s \in Watchers : conn'[s] \in Conn /\ Len(conn'[s].buf) <= Capacity
  BY DEF Bounded
<1>. QED
  BY <1>1, Zenon DEF OfWatchers

\* One watcher moves.
LEMMA OthersTypes ==
  ASSUME TypeOK, NEW s \in Watchers, Others(s), Bounded(conn'[s]),
         seen'[s] \in Seq(1 .. MaxRows)
  PROVE  /\ conn' \in [Watchers -> Conn] /\ seen' \in [Watchers -> Seq(1 .. MaxRows)]
         /\ \A t \in Watchers : Len(conn'[t].buf) <= Capacity
<1>1. \A t \in Watchers : Bounded(conn'[t]) /\ seen'[t] \in Seq(1 .. MaxRows)
  BY BoundedConn DEF Others, TypeOK
<1>. QED
  BY <1>1, WatcherTypes DEF Others

\* What a writer publishes is a row.
LEMMA HeadRow ==
  ASSUME TypeOK, NEW w \in Writers, unpublished[w] # <<>>
  PROVE  /\ Head(unpublished[w]) \in 1 .. MaxRows
         /\ Head(unpublished[w]) = unpublished[w][1]
         /\ Tail(unpublished[w]) \in Seq(1 .. MaxRows)
<1>1. unpublished[w] \in Seq(1 .. MaxRows)
  BY DEF TypeOK
<1>2. Head(unpublished[w]) = unpublished[w][1]
  BY <1>1
<1>. QED
  BY <1>1, <1>2, HeadTailProperties

\* The last event a watcher received is a row.
LEMMA LastRow ==
  ASSUME TypeOK, NEW s \in Watchers, seen[s] # <<>>
  PROVE  /\ Len(seen[s]) \in Nat /\ Len(seen[s]) >= 1
         /\ seen[s][Len(seen[s])] \in 1 .. MaxRows
<1>1. seen[s] \in Seq(1 .. MaxRows)
  BY DEF TypeOK
<1>2. Len(seen[s]) \in Nat /\ Len(seen[s]) >= 1 /\ Len(seen[s]) \in 1 .. Len(seen[s])
  BY <1>1, EmptySeq
<1>. QED
  BY <1>1, <1>2, ElementOfSeq

\* Connections after a broadcast.
LEMMA BroadcastTypes ==
  ASSUME TypeOK, NEW row \in 1 .. MaxRows, Broadcast(row), UNCHANGED seen
  PROVE  /\ conn' \in [Watchers -> Conn] /\ seen' \in [Watchers -> Seq(1 .. MaxRows)]
         /\ \A s \in Watchers : Len(conn'[s].buf) <= Capacity
<1>1. \A s \in Watchers : Bounded(conn'[s])
  BY BroadcastProperties
<1>2. OfWatchers(conn')
  BY DEF Broadcast, OfWatchers
<1>. QED
  BY <1>1, <1>2 DEF Bounded, OfWatchers, TypeOK

\* A cancellation, and the removal of the channel.
LEMMA NotifiedProperties ==
  ASSUME NEW c, Bounded(c)
  PROVE  /\ Bounded(Notified(c)) /\ Bounded([Notified(c) EXCEPT !.attached = FALSE])
         /\ [Notified(c) EXCEPT !.attached = FALSE].attached = FALSE
         /\ Notified(c).attached = c.attached
         /\ \A d \in {Notified(c), [Notified(c) EXCEPT !.attached = FALSE]} :
              /\ d.pc = c.pc /\ d.buf = c.buf /\ d.lagged = c.lagged /\ d.base = c.base
              /\ d.cursor = c.cursor /\ d.replayed = c.replayed /\ d.dedup = c.dedup
<1>1. c \in Conn
  BY DEF Bounded
<1>2. Notified(c) = c \/ Notified(c) = [c EXCEPT !.cancelled = TRUE]
  BY DEF Notified
<1>3. /\ Notified(c) \in Conn /\ Notified(c).attached = c.attached
      /\ Notified(c).pc = c.pc /\ Notified(c).buf = c.buf /\ Notified(c).lagged = c.lagged
      /\ Notified(c).base = c.base /\ Notified(c).cursor = c.cursor
      /\ Notified(c).replayed = c.replayed /\ Notified(c).dedup = c.dedup
  BY <1>1, <1>2 DEF Conn
<1>4. ASSUME NEW d \in Conn
      PROVE  /\ [d EXCEPT !.attached = FALSE] \in Conn
             /\ [d EXCEPT !.attached = FALSE].attached = FALSE
             /\ [d EXCEPT !.attached = FALSE].pc = d.pc
             /\ [d EXCEPT !.attached = FALSE].buf = d.buf
             /\ [d EXCEPT !.attached = FALSE].lagged = d.lagged
             /\ [d EXCEPT !.attached = FALSE].base = d.base
             /\ [d EXCEPT !.attached = FALSE].cursor = d.cursor
             /\ [d EXCEPT !.attached = FALSE].replayed = d.replayed
             /\ [d EXCEPT !.attached = FALSE].dedup = d.dedup
  BY DEF Conn
<1>. HIDE DEF Notified
<1>. QED
  BY <1>1, <1>3, <1>4 DEF Bounded

\* Every step preserves the types.
LEMMA TypeOKStep ==
  ASSUME TypeOK, CloseSane, [Next]_vars
  PROVE  TypeOK' /\ CloseSane'
<1>1. ASSUME NEW w \in Writers, Insert(w)
      PROVE  TypeOK' /\ CloseSane'
  <2>1. PICK n \in 1 .. MaxBatch :
          /\ log + n <= MaxRows /\ log' = log + n
          /\ unpublished' = [unpublished EXCEPT ![w] = Rows(log, log + n)]
    BY <1>1 DEF Insert
  <2>2. log \in Nat /\ n \in Nat /\ log' \in 0 .. MaxRows /\ log + n \in Nat
    BY <2>1, FeedAssumption DEF TypeOK
  <2>3. Rows(log, log + n) \in Seq(1 .. MaxRows)
    BY <2>1, <2>2, RowsProperties
  <2>4. unpublished' \in [Writers -> Seq(1 .. MaxRows)]
    BY <2>1, <2>3 DEF TypeOK
  <2>. QED
    BY <1>1, <2>2, <2>4 DEF Insert, TypeOK, CloseSane, Conn
<1>2. ASSUME NEW w \in Writers, Publish(w)
      PROVE  TypeOK' /\ CloseSane'
  <2>1. Head(unpublished[w]) \in 1 .. MaxRows /\ Tail(unpublished[w]) \in Seq(1 .. MaxRows)
    BY <1>2, HeadRow DEF Publish
  <2>2. unpublished' \in [Writers -> Seq(1 .. MaxRows)]
    BY <1>2, <2>1 DEF Publish, TypeOK
  <2>. QED
    BY <1>2, <2>1, <2>2, BroadcastTypes DEF Publish, TypeOK, CloseSane
<1>3. ASSUME NEW s \in Watchers, Others(s), LogKept, raced' \in BOOLEAN,
             connects' \in [Watchers -> 0 .. MaxConnects], Bounded(conn'[s]),
             seen'[s] \in Seq(1 .. MaxRows)
      PROVE  TypeOK' /\ CloseSane'
  BY <1>3, OthersTypes DEF LogKept, TypeOK, CloseSane
<1>4. ASSUME NEW s \in Watchers, Subscribe(s)
      PROVE  TypeOK' /\ CloseSane'
  <2>1. raced' \in BOOLEAN
    BY <1>4 DEF Subscribe, TypeOK
  <2>2. ASSUME seen[s] # <<>>
        PROVE  seen[s][Len(seen[s])] \in 1 .. MaxRows
    BY <2>2, LastRow
  <2>3. PICK from \in (0 .. MaxRows) \cup {None} : Subscribed(s, from)
    <3>1. \/ Subscribed(s, None) \/ Subscribed(s, 0)
          \/ seen[s] # <<>> /\ Subscribed(s, seen[s][Len(seen[s])])
      BY <1>4, SubscribeProperties
    <3>2. 0 \in 0 .. MaxRows /\ 1 .. MaxRows \subseteq 0 .. MaxRows
      BY FeedAssumption
    <3>. QED
      BY <2>2, <3>1, <3>2, Zenon
  <2>4. Bounded(conn'[s]) /\ seen'[s] \in Seq(1 .. MaxRows)
    BY <2>3, SubscribedTypes
  <2>. QED
    BY <1>3, <1>4, <2>1, <2>4, SubscribeProperties
<1>5. ASSUME NEW s \in Watchers, Serve(s) \/ Leave(s)
      PROVE  TypeOK' /\ CloseSane'
  <2>1. raced' \in BOOLEAN /\ connects' \in [Watchers -> 0 .. MaxConnects]
    BY ZenonT(60), <1>5 DEF Serve, Replay, Receive, Park, Stop, Leave, TypeOK
  <2>2. CASE Replay(s)
    BY <1>3, <2>1, <2>2, ReplayProperties, PagedTypes
  <2>3. CASE Receive(s)
    BY <1>3, <2>1, <2>3, ReceiveProperties, EndedTypes, ReceivedTypes
  <2>4. CASE Park(s)
    <3>1. Bounded(conn[s]) /\ seen[s] \in Seq(1 .. MaxRows)
      BY BoundedConn DEF TypeOK
    <3>2. Bounded([conn[s] EXCEPT !.pc = "parked"])
      BY <3>1 DEF Bounded, Conn
    <3>. QED
      BY <1>3, <2>1, <2>4, <3>1, <3>2, ParkProperties
  <2>5. CASE Stop(s) \/ Leave(s)
    BY <1>3, <2>1, <2>5, EndProperties, EndedTypes
  <2>. QED
    BY ZenonT(60), <1>5, <2>2, <2>3, <2>4, <2>5 DEF Serve
<1>6. ASSUME Unsubscribe
      PROVE  TypeOK' /\ CloseSane'
  <2>1. OfWatchers(conn') /\ \A s \in Watchers : conn'[s] = Notified(conn[s])
    BY <1>6 DEF Unsubscribe, OfWatchers
  <2>2. \A s \in Watchers : Bounded(conn'[s])
    BY <2>1, BoundedConn, NotifiedProperties
  <2>3. OfWatchers(seen') /\ \A s \in Watchers : seen'[s] \in Seq(1 .. MaxRows)
    BY <1>6 DEF Unsubscribe, OfWatchers, TypeOK
  <2>. QED
    BY <1>6, <2>1, <2>2, <2>3, WatcherTypes DEF Unsubscribe, TypeOK, CloseSane
<1>7. CASE LogClose
  BY <1>7, FeedAssumption DEF LogClose, TypeOK, CloseSane, Conn
<1>8. CASE PublishClose
  <2>1. closeRow \in 1 .. MaxRows
    BY <1>8, FeedAssumption DEF PublishClose, CloseSane, TypeOK
  <2>. QED
    BY <1>8, <2>1, BroadcastTypes DEF PublishClose, TypeOK, CloseSane
<1>9. CASE RemoveChannel
  <2>1. /\ OfWatchers(conn')
        /\ \A s \in Watchers : conn'[s] = [Notified(conn[s]) EXCEPT !.attached = FALSE]
    BY <1>9 DEF RemoveChannel, OfWatchers
  <2>2. ASSUME NEW s \in Watchers
        PROVE  Bounded(conn'[s])
    <3>1. Bounded(conn[s])
      BY BoundedConn
    <3>2. Bounded([Notified(conn[s]) EXCEPT !.attached = FALSE])
      BY <3>1, NotifiedProperties
    <3>. QED
      BY <2>1, <3>2, Zenon
  <2>3. OfWatchers(seen') /\ \A s \in Watchers : seen'[s] \in Seq(1 .. MaxRows)
    BY <1>9 DEF RemoveChannel, OfWatchers, TypeOK
  <2>. QED
    BY <1>9, <2>1, <2>2, <2>3, WatcherTypes DEF RemoveChannel, TypeOK, CloseSane
<1>10. CASE UNCHANGED vars
  BY <1>10 DEF vars, TypeOK, CloseSane, Conn
<1>. QED
  BY <1>1, <1>2, <1>4, <1>5, <1>6, <1>7, <1>8, <1>9, <1>10 DEF Next, Close

-----------------------------------------------------------------------------
(* No gap at the seam.                                                     *)

\* Append adds one row.
LEMMA RangeAppend ==
  ASSUME NEW q \in Seq(1 .. MaxRows), NEW row \in 1 .. MaxRows
  PROVE  Range(Append(q, row)) = Range(q) \cup {row}
<1>1. /\ Append(q, row) \in Seq(1 .. MaxRows) /\ Len(Append(q, row)) = Len(q) + 1
      /\ \A i \in 1 .. Len(q) : Append(q, row)[i] = q[i]
      /\ Append(q, row)[Len(q) + 1] = row
  BY AppendProperties
<1>2. Len(q) \in Nat /\ DOMAIN q = 1 .. Len(q) /\ DOMAIN Append(q, row) = 1 .. Len(q) + 1
  BY <1>1, LenProperties
<1>. QED
  BY <1>1, <1>2 DEF Range

\* What is not the head is in the tail.
LEMMA RangeTail ==
  ASSUME NEW q \in Seq(1 .. MaxRows), q # <<>>
  PROVE  Range(q) \subseteq Range(Tail(q)) \cup {Head(q)}
<1>1. /\ Tail(q) \in Seq(1 .. MaxRows) /\ Len(Tail(q)) = Len(q) - 1
      /\ \A i \in 1 .. Len(Tail(q)) : Tail(q)[i] = q[i + 1]
  BY HeadTailProperties
<1>2. /\ Len(q) \in Nat /\ DOMAIN q = 1 .. Len(q) /\ DOMAIN Tail(q) = 1 .. Len(q) - 1
      /\ Head(q) = q[1]
  BY <1>1, LenProperties
<1>3. ASSUME NEW i \in 1 .. Len(q), i # 1
      PROVE  q[i] \in Range(Tail(q))
  <2>1. i - 1 \in 1 .. Len(q) - 1 /\ Tail(q)[i - 1] = q[i]
    BY <1>1, <1>2, <1>3
  <2>. QED
    BY <1>2, <2>1 DEF Range
<1>. QED
  BY <1>2, <1>3 DEF Range

\* A page adds the rows it holds.
LEMMA RangePage ==
  ASSUME NEW q \in Seq(1 .. MaxRows), NEW a \in Nat, NEW b \in Nat, a <= b, b <= MaxRows
  PROVE  Range(q \o Rows(a, b)) = Range(q) \cup (a + 1 .. b)
<1>. DEFINE r == Rows(a, b)
<1>1. r \in Seq(1 .. MaxRows) /\ Len(r) = b - a /\ \A i \in 1 .. b - a : r[i] = a + i
  BY RowsProperties
<1>. HIDE DEF r
<1>2. /\ q \o r \in Seq(1 .. MaxRows) /\ Len(q \o r) = Len(q) + Len(r)
      /\ \A i \in 1 .. Len(q) + Len(r) :
           (q \o r)[i] = IF i <= Len(q) THEN q[i] ELSE r[i - Len(q)]
  BY <1>1, ConcatProperties
<1>3. /\ Len(q) \in Nat /\ DOMAIN q = 1 .. Len(q)
      /\ DOMAIN (q \o r) = 1 .. Len(q) + (b - a)
  BY <1>1, <1>2, LenProperties
<1>4. ASSUME NEW i \in 1 .. Len(q) + (b - a)
      PROVE  (q \o r)[i] \in Range(q) \cup (a + 1 .. b)
  <2>1. CASE i <= Len(q)
    BY <1>1, <1>2, <1>3, <2>1 DEF Range
  <2>2. CASE ~(i <= Len(q))
    <3>1. i - Len(q) \in 1 .. b - a
      BY <1>3, <2>2
    <3>2. (q \o r)[i] = a + (i - Len(q))
      BY <1>1, <1>2, <1>3, <2>2, <3>1
    <3>. QED
      BY <1>3, <3>1, <3>2
  <2>. QED
    BY <2>1, <2>2
<1>5. ASSUME NEW i \in 1 .. Len(q)
      PROVE  q[i] \in Range(q \o r)
  <2>1. i \in 1 .. Len(q) + (b - a) /\ (q \o r)[i] = q[i]
    BY <1>1, <1>2, <1>3
  <2>. QED
    BY <1>3, <2>1 DEF Range
<1>6. ASSUME NEW k \in a + 1 .. b
      PROVE  k \in Range(q \o r)
  <2>1. k - a \in 1 .. b - a /\ Len(q) + (k - a) \in 1 .. Len(q) + (b - a)
    BY <1>3
  <2>2. (q \o r)[Len(q) + (k - a)] = r[k - a]
    BY <1>1, <1>2, <1>3, <2>1
  <2>3. r[k - a] = k
    BY <1>1, <2>1
  <2>. QED
    BY <1>3, <2>1, <2>2, <2>3 DEF Range
<1>7. Range(q) \subseteq Range(q \o r)
  BY <1>3, <1>5 DEF Range
<1>8. Range(q \o r) \subseteq Range(q) \cup (a + 1 .. b)
  BY <1>3, <1>4 DEF Range
<1>. QED
  BY <1>6, <1>7, <1>8 DEF r

\* The log grows by rows that are pending.
LEMMA SeamMore ==
  ASSUME NEW c, NEW q, NEW P, NEW P2, NEW l \in Nat, NEW l2 \in Nat, l <= l2, Bounded(c),
         SeamOK(c, q, P, l), P \subseteq P2, l + 1 .. l2 \subseteq P2
  PROVE  SeamOK(c, q, P2, l2)
BY DEF SeamOK, Covered, Bounded, Conn

\* A row that is no longer pending is in the buffer.
LEMMA SeamBuffer ==
  ASSUME NEW c, Bounded(c), NEW q, NEW P, NEW P2, NEW l \in Nat, NEW row \in 1 .. MaxRows,
         SeamOK(c, q, P, l), P \subseteq P2 \cup {row}
  PROVE  SeamOK(IF Open(c) /\ c.attached THEN Buffer(c, row) ELSE c, q, P2, l)
<1>1. CASE Open(c) /\ c.attached
  <2>. DEFINE d == Buffer(c, row)
  <2>1. /\ d.pc = c.pc /\ d.attached = c.attached /\ d.base = c.base
        /\ d.cursor = c.cursor /\ d.replayed = c.replayed
        /\ ~d.lagged => ~c.lagged /\ d.buf = Append(c.buf, row)
    BY BufferProperties
  <2>2. c.buf \in Seq(1 .. MaxRows)
    BY DEF Bounded, Conn
  <2>3. ~d.lagged => Range(d.buf) = Range(c.buf) \cup {row}
    BY <2>1, <2>2, RangeAppend
  <2>. HIDE DEF d
  <2>4. SeamOK(d, q, P2, l)
    BY <2>1, <2>3 DEF SeamOK, Covered, Open
  <2>. QED
    BY <1>1, <2>4 DEF d
<1>2. CASE ~(Open(c) /\ c.attached)
  BY <1>2 DEF SeamOK, Covered
<1>. QED
  BY <1>1, <1>2

\* A page covers the rows it passes.
LEMMA SeamPaged ==
  ASSUME TypeOK, NEW s \in Watchers, NEW last \in Nat, Paged(s, last), NEW P,
         SeamOK(conn[s], seen[s], P, log)
  PROVE  SeamOK(conn'[s], seen'[s], P, log)
<1>1. /\ conn[s] \in Conn /\ conn[s].cursor \in Nat /\ log \in Nat /\ log <= MaxRows
      /\ seen[s] \in Seq(1 .. MaxRows) /\ conn[s].base \in Nat
  BY FeedAssumption DEF TypeOK, Conn
<1>2. conn[s].cursor <= last /\ last <= log /\ last <= MaxRows
  BY <1>1, FeedAssumption DEF Paged
<1>3. Range(seen'[s]) = Range(seen[s]) \cup (conn[s].cursor + 1 .. last)
  BY <1>1, <1>2, RangePage DEF Paged
<1>4. CASE conn'[s] = NoConn
  BY <1>4 DEF SeamOK, Covered, Open, NoConn
<1>5. ASSUME NEW pc \in {"replay", "live"}, pc = "live" => last = log,
             conn'[s] = [conn[s] EXCEPT !.pc = pc, !.cursor = last,
                !.replayed = conn[s].replayed \cup (conn[s].cursor + 1 .. last)]
      PROVE  SeamOK(conn'[s], seen'[s], P, log)
  <2>. DEFINE d == conn'[s]
  <2>1. /\ d.pc = pc /\ d.cursor = last /\ d.attached = conn[s].attached
        /\ d.lagged = conn[s].lagged /\ d.base = conn[s].base /\ d.buf = conn[s].buf
        /\ d.replayed = conn[s].replayed \cup (conn[s].cursor + 1 .. last)
    BY <1>1, <1>5 DEF Conn
  <2>. HIDE DEF d
  <2>2. Open(conn[s]) /\ conn[s].pc = "replay"
    BY DEF Paged, Open
  <2>3. d.replayed \subseteq Range(seen'[s])
    BY <1>3, <2>1, <2>2 DEF SeamOK
  <2>4. Covered(d, seen'[s], P, log)
    BY <1>1, <1>2, <1>3, <1>5, <2>1, <2>2 DEF SeamOK, Covered
  <2>. QED
    BY <2>3, <2>4 DEF SeamOK, d
<1>. QED
  BY <1>4, <1>5 DEF Paged

\* A stream that has ended owes nothing.
LEMMA SeamEnded ==
  ASSUME TypeOK, NEW s \in Watchers, Ended(s), NEW P
  PROVE  SeamOK(conn'[s], seen'[s], P, log)
<1>1. PICK pc \in {"lagged", "ended", "off"} :
        conn'[s] = [conn[s] EXCEPT !.pc = pc] \/ conn'[s] = [NoConn EXCEPT !.pc = pc]
  BY DEF Ended
<1>2. conn[s] \in Conn /\ NoConn \in Conn
  BY NoConnBounded DEF TypeOK, Bounded
<1>3. conn'[s].pc = pc
  BY <1>1, <1>2 DEF Conn
<1>. QED
  BY <1>3 DEF SeamOK, Covered, Open

\* An event taken from the channel is received, or was received in the replay.
LEMMA SeamReceived ==
  ASSUME TypeOK, NEW s \in Watchers, Skipped(s) \/ Delivered(s), NEW P,
         SeamOK(conn[s], seen[s], P, log)
  PROVE  SeamOK(conn'[s], seen'[s], P, log)
<1>. DEFINE c == conn[s]
            d == conn'[s]
<1>1. Bounded(c) /\ c \in Conn /\ c.buf # <<>> /\ seen[s] \in Seq(1 .. MaxRows)
  BY BoundedConn DEF TypeOK, Skipped, Delivered, Receiving
<1>2. Head(c.buf) \in 1 .. MaxRows /\ c.buf \in Seq(1 .. MaxRows)
  BY <1>1, HeadTypes
<1>3. Range(c.buf) \subseteq Range(Tail(c.buf)) \cup {Head(c.buf)}
  BY <1>1, <1>2, RangeTail
<1>4. Open(c) /\ c.pc # "replay"
  BY DEF Skipped, Delivered, Receiving, Open
<1>5. CASE Skipped(s)
  <2>1. /\ d.pc = "live" /\ d.attached = c.attached /\ d.base = c.base
        /\ d.buf = Tail(c.buf) /\ d.lagged = c.lagged
        /\ d.replayed = c.replayed \ {Head(c.buf)} /\ seen'[s] = seen[s]
        /\ Head(c.buf) \in c.replayed
    BY <1>1, <1>5 DEF Skipped, Conn
  <2>. HIDE DEF c, d
  <2>2. Head(c.buf) \in Range(seen[s])
    BY <1>4, <2>1 DEF SeamOK, c
  <2>. QED
    BY <1>3, <1>4, <2>1, <2>2 DEF SeamOK, Covered, c, d
<1>6. CASE Delivered(s)
  <2>1. /\ d.pc = "live" /\ d.attached = c.attached /\ d.base = c.base
        /\ d.buf = Tail(c.buf) /\ d.lagged = c.lagged
        /\ d.replayed = {} /\ seen'[s] = Append(seen[s], Head(c.buf))
    BY <1>1, <1>6 DEF Delivered, Conn
  <2>2. Range(seen'[s]) = Range(seen[s]) \cup {Head(c.buf)}
    BY <1>1, <1>2, <2>1, RangeAppend
  <2>. HIDE DEF c, d
  <2>. QED
    BY <1>3, <1>4, <2>1, <2>2 DEF SeamOK, Covered, c, d
<1>. QED
  BY <1>5, <1>6

\* A new stream owes the rows after the one it starts from, all yet to be replayed.
LEMMA SeamSubscribed ==
  ASSUME TypeOK, NEW s \in Watchers, NEW from \in (0 .. MaxRows) \cup {None},
         Subscribed(s, from), NEW P
  PROVE  SeamOK(conn'[s], seen'[s], P, log)
<1>1. NoConn \in Conn /\ NoConn.replayed = {}
  BY NoConnBounded DEF Bounded, NoConn
<1>2. CASE from = None
  <2>1. conn'[s].base = log /\ conn'[s].replayed = {}
    BY <1>1, <1>2 DEF Subscribed, Conn
  <2>. QED
    BY <2>1 DEF SeamOK, Covered, TypeOK
<1>3. CASE from # None
  <2>1. /\ conn'[s].base = from /\ conn'[s].cursor = from /\ conn'[s].pc = "replay"
        /\ conn'[s].replayed = {}
    BY <1>1, <1>3 DEF Subscribed, Conn
  <2>2. \A i \in from + 1 .. log : i > from
    BY <1>3 DEF TypeOK
  <2>. QED
    BY <2>1, <2>2 DEF SeamOK, Covered
<1>. QED
  BY <1>2, <1>3

\* A commit makes its rows pending.
LEMMA PendingInsert ==
  ASSUME TypeOK, NEW w \in Writers, Insert(w)
  PROVE  /\ log <= log' /\ log' \in Nat /\ Pending \subseteq Pending'
         /\ log + 1 .. log' \subseteq Pending'
<1>1. PICK n \in 1 .. MaxBatch :
        /\ log + n <= MaxRows /\ log' = log + n
        /\ unpublished' = [unpublished EXCEPT ![w] = Rows(log, log + n)]
  BY DEF Insert
<1>2. log \in Nat /\ n \in Nat /\ log + n \in Nat /\ (log + n) - log = n
  BY FeedAssumption DEF TypeOK
<1>3. unpublished'[w] = Rows(log, log + n)
  BY <1>1 DEF TypeOK
<1>4. log + 1 .. log' \subseteq Range(unpublished'[w])
  <2>1. DOMAIN Rows(log, log + n) = 1 .. n /\ \A i \in 1 .. n : Rows(log, log + n)[i] = log + i
    BY <1>2 DEF Rows
  <2>2. ASSUME NEW k \in log + 1 .. log'
        PROVE  k - log \in 1 .. n /\ Rows(log, log + n)[k - log] = k
    BY <1>1, <1>2, <2>1
  <2>. QED
    BY <1>3, <2>1, <2>2 DEF Range
<1>5. \A v \in Writers : Range(unpublished[v]) \subseteq Range(unpublished'[v])
  <2>1. Range(unpublished[w]) = {}
    BY DEF Insert, Range
  <2>2. \A v \in Writers \ {w} : unpublished'[v] = unpublished[v]
    BY <1>1 DEF TypeOK
  <2>. QED
    BY <2>1, <2>2
<1>6. UNCHANGED <<closing, closeRow>>
  BY DEF Insert
<1>. QED
  BY <1>1, <1>2, <1>4, <1>5, <1>6 DEF Pending

\* A publication takes one row from the pending ones.
LEMMA PendingPublish ==
  ASSUME TypeOK, NEW w \in Writers, Publish(w)
  PROVE  Pending \subseteq Pending' \cup {Head(unpublished[w])}
<1>1. unpublished[w] \in Seq(1 .. MaxRows) /\ unpublished[w] # <<>>
  BY DEF Publish, TypeOK
<1>2. unpublished'[w] = Tail(unpublished[w])
  BY DEF Publish, TypeOK
<1>3. \A v \in Writers \ {w} : unpublished'[v] = unpublished[v]
  BY DEF Publish, TypeOK
<1>4. Range(unpublished[w]) \subseteq Range(unpublished'[w]) \cup {Head(unpublished[w])}
  BY <1>1, <1>2, RangeTail
<1>5. UNCHANGED <<closing, closeRow>>
  BY DEF Publish
<1>. QED
  BY <1>3, <1>4, <1>5 DEF Pending

\* One watcher moves: the others' part of the invariant is kept.
LEMMA OthersSeam ==
  ASSUME SeamInv, NEW s \in Watchers, Others(s), LogKept,
         SeamOK(conn'[s], seen'[s], Pending, log)
  PROVE  \A t \in Watchers : SeamOK(conn'[t], seen'[t], Pending', log')
<1>1. Pending' = Pending /\ log' = log
  BY DEF LogKept, Pending
<1>2. ASSUME NEW t \in Watchers, t # s
      PROVE  SeamOK(conn'[t], seen'[t], Pending, log)
  BY <1>2 DEF Others, SeamInv
<1>. QED
  BY <1>1, <1>2

\* A broadcast, for all watchers.
LEMMA BroadcastSeam ==
  ASSUME SeamInv, NEW row \in 1 .. MaxRows, Broadcast(row), UNCHANGED <<seen, log>>,
         Pending \subseteq Pending' \cup {row}
  PROVE  \A s \in Watchers : SeamOK(conn'[s], seen'[s], Pending', log')
<1>. SUFFICES ASSUME NEW s \in Watchers
              PROVE  SeamOK(conn'[s], seen'[s], Pending', log')
  OBVIOUS
<1>1. TypeOK /\ Bounded(conn[s]) /\ log \in Nat /\ SeamOK(conn[s], seen[s], Pending, log)
  BY BoundedConn, FeedAssumption DEF SeamInv, TypeOK
<1>2. SeamOK(IF Open(conn[s]) /\ conn[s].attached THEN Buffer(conn[s], row) ELSE conn[s],
             seen[s], Pending', log)
  <2>1. PICK c, q, P, P2 : c = conn[s] /\ q = seen[s] /\ P = Pending /\ P2 = Pending'
    OBVIOUS
  <2>2. Bounded(c) /\ SeamOK(c, q, P, log) /\ P \subseteq P2 \cup {row} /\ log \in Nat
    BY <1>1, <2>1
  <2>3. SeamOK(IF Open(c) /\ c.attached THEN Buffer(c, row) ELSE c, q, P2, log)
    BY <2>2, SeamBuffer
  <2>. QED
    BY <2>1, <2>3
<1>3. Streaming(s) <=> Open(conn[s])
  BY DEF Streaming, Open
<1>4. conn'[s] = IF Open(conn[s]) /\ conn[s].attached THEN Buffer(conn[s], row) ELSE conn[s]
  BY <1>1, <1>3, BroadcastProperties
<1>. QED
  BY <1>2, <1>4

\* Connections that change in ways the invariant does not look at.
LEMMA SameSeam ==
  ASSUME NEW c, NEW d, NEW q, NEW P, NEW l, SeamOK(c, q, P, l),
         d.pc = c.pc, d.buf = c.buf, d.lagged = c.lagged, d.base = c.base,
         d.cursor = c.cursor, d.replayed = c.replayed,
         d.attached = c.attached \/ d.attached = FALSE
  PROVE  SeamOK(d, q, P, l)
BY DEF SeamOK, Covered, Open

\* Every step preserves the seam of every watcher.
LEMMA SeamStep ==
  ASSUME SeamInv, [Next]_vars
  PROVE  \A s \in Watchers : SeamOK(conn'[s], seen'[s], Pending', log')
<1>1. TypeOK /\ CloseSane /\ log \in Nat /\ \A s \in Watchers : Bounded(conn[s])
  BY BoundedConn, FeedAssumption DEF SeamInv, TypeOK
<1>2. ASSUME NEW w \in Writers, Insert(w)
      PROVE  \A s \in Watchers : SeamOK(conn'[s], seen'[s], Pending', log')
  <2>1. UNCHANGED <<conn, seen>>
    BY <1>2 DEF Insert
  <2>. QED
    BY <1>1, <1>2, <2>1, PendingInsert, SeamMore DEF SeamInv
<1>3. ASSUME NEW w \in Writers, Publish(w)
      PROVE  \A s \in Watchers : SeamOK(conn'[s], seen'[s], Pending', log')
  <2>1. Head(unpublished[w]) \in 1 .. MaxRows
    BY <1>1, <1>3, HeadRow DEF Publish
  <2>. QED
    BY <1>1, <1>3, <2>1, PendingPublish, BroadcastSeam DEF Publish
<1>4. ASSUME NEW s \in Watchers, Subscribe(s)
      PROVE  \A t \in Watchers : SeamOK(conn'[t], seen'[t], Pending', log')
  <2>1. ASSUME seen[s] # <<>>
        PROVE  seen[s][Len(seen[s])] \in 1 .. MaxRows
    BY <1>1, <2>1, LastRow
  <2>2. \/ Subscribed(s, None) \/ Subscribed(s, 0)
        \/ seen[s] # <<>> /\ Subscribed(s, seen[s][Len(seen[s])])
    BY <1>1, <1>4, SubscribeProperties
  <2>3. 0 \in 0 .. MaxRows /\ 1 .. MaxRows \subseteq 0 .. MaxRows
    BY FeedAssumption
  <2>4. PICK from \in (0 .. MaxRows) \cup {None} : Subscribed(s, from)
    BY <2>1, <2>2, <2>3, Zenon
  <2>5. SeamOK(conn'[s], seen'[s], Pending, log)
    BY <1>1, <2>4, SeamSubscribed
  <2>. QED
    BY <1>1, <1>4, <2>5, SubscribeProperties, OthersSeam
<1>5. ASSUME NEW s \in Watchers, Replay(s)
      PROVE  \A t \in Watchers : SeamOK(conn'[t], seen'[t], Pending', log')
  <2>1. PICK last \in Nat : Paged(s, last)
    BY <1>1, <1>5, ReplayProperties
  <2>2. SeamOK(conn'[s], seen'[s], Pending, log)
    BY <1>1, <2>1, SeamPaged DEF SeamInv
  <2>. QED
    BY <1>1, <1>5, <2>2, ReplayProperties, OthersSeam
<1>6. ASSUME NEW s \in Watchers, Receive(s)
      PROVE  \A t \in Watchers : SeamOK(conn'[t], seen'[t], Pending', log')
  <2>1. SeamOK(conn[s], seen[s], Pending, log)
    BY DEF SeamInv
  <2>2. SeamOK(conn'[s], seen'[s], Pending, log)
    BY <1>1, <1>6, <2>1, ReceiveProperties, SeamEnded, SeamReceived
  <2>. QED
    BY <1>1, <1>6, <2>2, ReceiveProperties, OthersSeam
<1>7. ASSUME NEW s \in Watchers, Park(s)
      PROVE  \A t \in Watchers : SeamOK(conn'[t], seen'[t], Pending', log')
  <2>1. conn[s] \in Conn /\ SeamOK(conn[s], seen[s], Pending, log)
    BY <1>1 DEF SeamInv, TypeOK
  <2>2. /\ conn[s].pc = "live" /\ conn'[s] = [conn[s] EXCEPT !.pc = "parked"]
        /\ seen'[s] = seen[s]
    BY <1>1, <1>7, ParkProperties
  <2>3. SeamOK(conn'[s], seen'[s], Pending, log)
    BY <2>1, <2>2 DEF SeamOK, Covered, Open, Conn
  <2>. QED
    BY <1>1, <1>7, <2>3, ParkProperties, OthersSeam
<1>8. ASSUME NEW s \in Watchers, Stop(s) \/ Leave(s)
      PROVE  \A t \in Watchers : SeamOK(conn'[t], seen'[t], Pending', log')
  BY <1>1, <1>8, EndProperties, SeamEnded, OthersSeam
<1>9. ASSUME Unsubscribe
      PROVE  \A s \in Watchers : SeamOK(conn'[s], seen'[s], Pending', log')
  <2>1. Pending' = Pending /\ UNCHANGED <<log, seen>>
    BY <1>9 DEF Unsubscribe, Pending
  <2>2. ASSUME NEW s \in Watchers
        PROVE  SeamOK(Notified(conn[s]), seen[s], Pending, log)
    BY <1>1, NotifiedProperties, SameSeam DEF SeamInv
  <2>3. \A s \in Watchers : conn'[s] = Notified(conn[s])
    BY <1>9 DEF Unsubscribe
  <2>. QED
    BY <2>1, <2>2, <2>3
<1>10. CASE LogClose
  <2>. DEFINE U == UNION {Range(unpublished[w]) : w \in Writers}
  <2>1. /\ UNCHANGED <<conn, seen>> /\ log' = log + 1 /\ log' \in Nat
        /\ log + 1 .. log' = {log + 1}
    BY <1>1, <1>10 DEF LogClose
  <2>2. Pending = U /\ Pending' = U \cup {log + 1}
    <3>1. /\ unpublished' = unpublished /\ closing = "open" /\ closing' = "logged"
          /\ closeRow' = log + 1
      BY <1>10 DEF LogClose
    <3>2. Pending = U
      BY <3>1 DEF Pending
    <3>3. Pending' = U \cup {log + 1}
      BY <3>1 DEF Pending
    <3>. QED
      BY <3>2, <3>3
  <2>. HIDE DEF U
  <2>3. Pending \subseteq Pending' /\ log + 1 .. log' \subseteq Pending' /\ log <= log'
    BY <1>1, <2>1, <2>2
  <2>. QED
    BY <1>1, <2>1, <2>3, SeamMore DEF SeamInv
<1>11. CASE PublishClose
  <2>1. closeRow \in 1 .. MaxRows
    BY <1>1, <1>11, FeedAssumption DEF PublishClose, CloseSane, TypeOK
  <2>. DEFINE U == UNION {Range(unpublished[w]) : w \in Writers}
  <2>2. Pending = U \cup {closeRow} /\ Pending' = U
    <3>1. /\ unpublished' = unpublished /\ closing = "logged" /\ closing' = "published"
          /\ closeRow' = closeRow
      BY <1>11 DEF PublishClose
    <3>2. Pending = U \cup {closeRow}
      BY <3>1 DEF Pending
    <3>3. Pending' = U
      BY <3>1 DEF Pending
    <3>. QED
      BY <3>2, <3>3
  <2>. QED
    BY <1>11, <2>1, <2>2, BroadcastSeam DEF PublishClose
<1>12. CASE RemoveChannel
  <2>1. Pending' = Pending /\ UNCHANGED <<log, seen>>
    BY <1>12 DEF RemoveChannel, Pending
  <2>2. ASSUME NEW s \in Watchers
        PROVE  SeamOK([Notified(conn[s]) EXCEPT !.attached = FALSE], seen[s], Pending, log)
    BY <1>1, NotifiedProperties, SameSeam DEF SeamInv
  <2>3. \A s \in Watchers : conn'[s] = [Notified(conn[s]) EXCEPT !.attached = FALSE]
    BY <1>12 DEF RemoveChannel
  <2>. QED
    BY <2>1, <2>2, <2>3
<1>13. CASE UNCHANGED vars
  BY <1>13 DEF vars, SeamInv, Pending
<1>. QED
  BY <1>2, <1>3, <1>4, <1>5, <1>6, <1>7, <1>8, <1>9, <1>10, <1>11, <1>12, <1>13
     DEF Next, Close, Serve

\* Initially nobody watches.
LEMMA InitSeam == Init => SeamInv
<1>. SUFFICES ASSUME Init
              PROVE  SeamInv
  OBVIOUS
<1>1. NoConn \in Conn /\ NoConn.buf = <<>> /\ Len(<<>>) <= Capacity /\ 0 \in 0 .. MaxRows
  BY NoConnBounded, FeedAssumption DEF Bounded, NoConn
<1>2. TypeOK
  <2>1. /\ unpublished \in [Writers -> Seq(1 .. MaxRows)]
        /\ seen \in [Watchers -> Seq(1 .. MaxRows)]
    BY DEF Init
  <2>2. conn \in [Watchers -> Conn] /\ \A s \in Watchers : Len(conn[s].buf) <= Capacity
    BY <1>1 DEF Init
  <2>3. connects \in [Watchers -> 0 .. MaxConnects]
    BY FeedAssumption DEF Init
  <2>. QED
    BY <1>1, <2>1, <2>2, <2>3 DEF Init, TypeOK
<1>3. ASSUME NEW s \in Watchers
      PROVE  SeamOK(conn[s], seen[s], Pending, log)
  BY DEF Init, SeamOK, Covered, Open, NoConn
<1>. QED
  BY <1>2, <1>3 DEF SeamInv, CloseSane, Init

\* SeamInv is inductive.
LEMMA SeamInvariance == Spec => []SeamInv
<1>1. SeamInv /\ [Next]_vars => SeamInv'
  <2>. SUFFICES ASSUME SeamInv, [Next]_vars
                PROVE  SeamInv'
    OBVIOUS
  <2>1. TypeOK' /\ CloseSane'
    BY TypeOKStep DEF SeamInv
  <2>2. \A s \in Watchers : SeamOK(conn'[s], seen'[s], Pending', log')
    BY SeamStep
  <2>. QED
    BY <2>1, <2>2 DEF SeamInv
<1>. QED
  BY <1>1, InitSeam, PTL DEF Spec

\* Every reachable state is well typed, and no buffer exceeds the channel's
\* capacity (EventBroadcaster, drive_subscribe).
THEOREM FeedTypes == Spec => []TypeOK
<1>1. SeamInv => TypeOK
  BY DEF SeamInv
<1>. QED
  BY <1>1, SeamInvariance, PTL

\* Whatever writers do to each other, an open stream that has not lagged misses
\* nothing it asked for (drive_subscribe: subscribe first, then replay).
THEOREM NoGapAtTheSeam == Spec => []SeamHasNoGap
<1>1. SeamInv => SeamHasNoGap
  BY DEF SeamInv, SeamOK, Covered, SeamHasNoGap, Streaming, Open
<1>. QED
  BY <1>1, SeamInvariance, PTL

-----------------------------------------------------------------------------
(***************************************************************************)
(* Every event is delivered once and in order, as long as no step has come *)
(* between a row's commit and its publication.                             *)
(*                                                                         *)
(* The argument follows the border p between the published rows and the    *)
(* others.  While nothing has raced, the rows above p belong to one task   *)
(* that publishes them in order (OneTask); what a watcher has received and *)
(* what its channel holds are successive rows, the second run ends at p,   *)
(* and what the stream will drop as a duplicate is exactly the part of it  *)
(* that the watcher already has (StreamAt).                                *)
(***************************************************************************)
\* The rows up to p are published, and one task publishes the others in order.
OneTask(p) ==
  \/ /\ p = log /\ closing # "logged"
     /\ \A w \in Writers : unpublished[w] = <<>>
  \/ /\ p = log - 1 /\ closing = "logged" /\ closeRow = log
     /\ \A w \in Writers : unpublished[w] = <<>>
  \/ /\ p < log /\ closing # "logged"
     /\ \E w \in Writers :
          unpublished[w] = Rows(p, log) /\ \A v \in Writers \ {w} : unpublished[v] = <<>>

\* A stream that did not lag: its watcher has received rows up to b, and its
\* channel holds those from f + 1 to g, the last published while it is attached.
StreamAt(c, b, f, g, p) ==
  /\ f <= g /\ g <= p /\ c.buf = Rows(f, g)
  /\ c.attached => g = p
  /\ c.pc = "replay" =>
       /\ c.dedup /\ c.base <= b /\ c.base <= f
       /\ c.replayed = c.base + 1 .. b
  /\ c.pc \in {"live", "parked"} =>
       /\ f <= b /\ f + 1 .. b \subseteq c.replayed /\ c.replayed \subseteq 1 .. b
       /\ ~c.dedup => c.replayed = {}

StreamOK(c, b, p) ==
  /\ c.pc = "replay" => c.cursor = b
  /\ Open(c) /\ ~c.lagged => \E f \in Nat, g \in Nat : StreamAt(c, b, f, g, p)

\* A watcher has received successive rows of the log.
WatcherOK(c, q, p, l) ==
  \E a \in 0 .. l, b \in 0 .. l : a <= b /\ q = Rows(a, b) /\ StreamOK(c, b, p)

Ordered(p) == OneTask(p) /\ \A s \in Watchers : WatcherOK(conn[s], seen[s], p, log)

OrderInv == ~raced => \E p \in 0 .. log : Ordered(p)

-----------------------------------------------------------------------------
(* Successive rows.                                                        *)

\* An empty run.
LEMMA RowsNone ==
  ASSUME NEW a \in Nat
  PROVE  Rows(a, a) = <<>>
<1>1. 1 .. a - a = {}
  OBVIOUS
<1>. QED
  BY <1>1 DEF Rows

\* A run grows by its next row.
LEMMA RowsAppend ==
  ASSUME NEW a \in Nat, NEW b \in Nat, a <= b, b + 1 <= MaxRows
  PROVE  Append(Rows(a, b), b + 1) = Rows(a, b + 1)
<1>. DEFINE r == Rows(a, b)
            t == Rows(a, b + 1)
<1>0. b + 1 \in Nat /\ a <= b + 1 /\ b <= MaxRows
  BY FeedAssumption
<1>1. r \in Seq(1 .. MaxRows) /\ Len(r) = b - a /\ \A i \in 1 .. b - a : r[i] = a + i
  BY <1>0, RowsProperties
<1>2. t \in Seq(1 .. MaxRows) /\ Len(t) = (b + 1) - a /\ \A i \in 1 .. (b + 1) - a : t[i] = a + i
  BY <1>0, RowsProperties
<1>. HIDE DEF r, t
<1>3. b + 1 \in 1 .. MaxRows
  BY FeedAssumption
<1>4. /\ Append(r, b + 1) \in Seq(1 .. MaxRows) /\ Len(Append(r, b + 1)) = Len(r) + 1
      /\ \A i \in 1 .. Len(r) : Append(r, b + 1)[i] = r[i]
      /\ Append(r, b + 1)[Len(r) + 1] = b + 1
  BY <1>1, <1>3, AppendProperties
<1>5. Len(Append(r, b + 1)) = Len(t)
  BY <1>1, <1>2, <1>4
<1>6. \A i \in 1 .. Len(Append(r, b + 1)) : Append(r, b + 1)[i] = t[i]
  BY <1>1, <1>2, <1>4
<1>7. Append(r, b + 1) = t
  BY <1>2, <1>4, <1>5, <1>6, SeqEqual
<1>. QED
  BY <1>7 DEF r, t

\* A run loses its first row.
LEMMA RowsTail ==
  ASSUME NEW a \in Nat, NEW b \in Nat, a < b, b <= MaxRows
  PROVE  /\ Rows(a, b) # <<>> /\ Head(Rows(a, b)) = a + 1
         /\ Tail(Rows(a, b)) = Rows(a + 1, b)
<1>. DEFINE r == Rows(a, b)
            t == Rows(a + 1, b)
<1>0. a + 1 \in Nat /\ a + 1 <= b /\ a <= b
  OBVIOUS
<1>1. r \in Seq(1 .. MaxRows) /\ Len(r) = b - a /\ \A i \in 1 .. b - a : r[i] = a + i
  BY <1>0, RowsProperties
<1>2. /\ t \in Seq(1 .. MaxRows) /\ Len(t) = b - (a + 1)
      /\ \A i \in 1 .. b - (a + 1) : t[i] = a + 1 + i
  BY <1>0, RowsProperties
<1>. HIDE DEF r, t
<1>3. Len(r) # 0
  BY <1>1
<1>4. r # <<>>
  BY <1>3, EmptySeq
<1>5. Tail(r) \in Seq(1 .. MaxRows) /\ Len(Tail(r)) = Len(r) - 1
      /\ \A i \in 1 .. Len(Tail(r)) : Tail(r)[i] = r[i + 1]
  BY <1>1, <1>4, HeadTailProperties
<1>6. Len(Tail(r)) = Len(t)
  BY <1>1, <1>2, <1>5
<1>7. \A i \in 1 .. Len(Tail(r)) : Tail(r)[i] = t[i]
  BY <1>1, <1>2, <1>5
<1>8. Tail(r) = t
  BY <1>2, <1>5, <1>6, <1>7, SeqEqual
<1>9. Head(r) = a + 1
  <2>1. Head(r) = r[1]
    BY <1>1
  <2>. QED
    BY <1>1, <2>1
<1>. QED
  BY <1>4, <1>8, <1>9 DEF r, t

\* A run followed by the next run.
LEMMA RowsJoin ==
  ASSUME NEW a \in Nat, NEW b \in Nat, NEW d \in Nat, a <= b, b <= d, d <= MaxRows
  PROVE  Rows(a, b) \o Rows(b, d) = Rows(a, d)
<1>. DEFINE r == Rows(a, b)
            t == Rows(b, d)
            u == Rows(a, d)
<1>0. a <= d /\ b <= MaxRows
  BY FeedAssumption
<1>1. r \in Seq(1 .. MaxRows) /\ Len(r) = b - a /\ \A i \in 1 .. b - a : r[i] = a + i
  BY <1>0, RowsProperties
<1>2. t \in Seq(1 .. MaxRows) /\ Len(t) = d - b /\ \A i \in 1 .. d - b : t[i] = b + i
  BY <1>0, RowsProperties
<1>3. u \in Seq(1 .. MaxRows) /\ Len(u) = d - a /\ \A i \in 1 .. d - a : u[i] = a + i
  BY <1>0, RowsProperties
<1>. HIDE DEF r, t, u
<1>4. /\ r \o t \in Seq(1 .. MaxRows) /\ Len(r \o t) = Len(r) + Len(t)
      /\ \A i \in 1 .. Len(r) + Len(t) :
           (r \o t)[i] = IF i <= Len(r) THEN r[i] ELSE t[i - Len(r)]
  BY <1>1, <1>2, ConcatProperties
<1>5. Len(r \o t) = Len(u)
  BY <1>1, <1>2, <1>3, <1>4
<1>6. ASSUME NEW i \in 1 .. Len(r \o t)
      PROVE  (r \o t)[i] = u[i]
  <2>1. i \in 1 .. d - a /\ u[i] = a + i
    BY <1>3, <1>5
  <2>2. CASE i <= b - a
    BY <1>1, <1>2, <1>4, <2>1, <2>2
  <2>3. CASE ~(i <= b - a)
    <3>1. i - (b - a) \in 1 .. d - b
      BY <2>1, <2>3
    <3>2. (r \o t)[i] = t[i - (b - a)] /\ t[i - (b - a)] = b + (i - (b - a))
      BY <1>1, <1>2, <1>4, <2>1, <2>3, <3>1
    <3>. QED
      BY <2>1, <3>2
  <2>. QED
    BY <2>2, <2>3
<1>7. r \o t = u
  BY <1>3, <1>4, <1>5, <1>6, SeqEqual
<1>. QED
  BY <1>7 DEF r, t, u

\* The last row, and the rows there are.
LEMMA RowsLast ==
  ASSUME NEW a \in Nat, NEW b \in Nat, a <= b, b <= MaxRows
  PROVE  /\ Rows(a, b) = <<>> <=> a = b
         /\ Rows(a, b) # <<>> => Rows(a, b)[Len(Rows(a, b))] = b
         /\ Range(Rows(a, b)) = a + 1 .. b
<1>. DEFINE r == Rows(a, b)
<1>1. r \in Seq(1 .. MaxRows) /\ Len(r) = b - a /\ \A i \in 1 .. b - a : r[i] = a + i
  BY RowsProperties
<1>2. DOMAIN r = 1 .. b - a
  BY <1>1, LenProperties
<1>. HIDE DEF r
<1>3. r = <<>> <=> a = b
  <2>1. a = b => r = <<>>
    BY RowsNone DEF r
  <2>2. r = <<>> => a = b
    BY <1>1, EmptySeq
  <2>. QED
    BY <2>1, <2>2
<1>4. r # <<>> => r[Len(r)] = b
  BY <1>1, <1>3
<1>5. ASSUME NEW k \in a + 1 .. b
      PROVE  k \in Range(r)
  <2>1. k - a \in 1 .. b - a /\ r[k - a] = k
    BY <1>1
  <2>. QED
    BY <1>2, <2>1 DEF Range
<1>6. ASSUME NEW i \in 1 .. b - a
      PROVE  r[i] \in a + 1 .. b
  BY <1>1
<1>7. Range(r) = a + 1 .. b
  BY <1>2, <1>5, <1>6 DEF Range
<1>. QED
  BY <1>3, <1>4, <1>7 DEF r

-----------------------------------------------------------------------------
(* One watcher: c its connection, q what it has received, rows up to p      *)
(* published, l rows in the log.                                           *)

\* Row p + 1 is published.
LEMMA StreamBuffer ==
  ASSUME NEW c, Bounded(c), NEW b, NEW p \in Nat, p + 1 <= MaxRows, StreamOK(c, b, p)
  PROVE  StreamOK(IF Open(c) /\ c.attached THEN Buffer(c, p + 1) ELSE c, b, p + 1)
<1>1. CASE Open(c) /\ c.attached
  <2>. DEFINE d == Buffer(c, p + 1)
  <2>1. /\ d.pc = c.pc /\ d.attached = c.attached /\ d.base = c.base
        /\ d.cursor = c.cursor /\ d.replayed = c.replayed /\ d.dedup = c.dedup
        /\ ~d.lagged => ~c.lagged /\ d.buf = Append(c.buf, p + 1)
    <3>1. p + 1 \in 1 .. MaxRows
      BY FeedAssumption
    <3>. QED
      BY <3>1, BufferProperties
  <2>. HIDE DEF d
  <2>2. ASSUME ~d.lagged
        PROVE  \E f \in Nat, g \in Nat : StreamAt(d, b, f, g, p + 1)
    <3>1. PICK f \in Nat, g \in Nat : StreamAt(c, b, f, g, p)
      BY <1>1, <2>1, <2>2 DEF StreamOK
    <3>2. f <= p /\ g = p /\ c.buf = Rows(f, p)
      BY <1>1, <3>1 DEF StreamAt
    <3>3. d.buf = Rows(f, p + 1)
      BY <2>1, <2>2, <3>2, RowsAppend
    <3>4. p + 1 \in Nat /\ f <= p + 1
      BY <3>2
    <3>5. StreamAt(d, b, f, p + 1, p + 1)
      BY <2>1, <3>1, <3>3, <3>4 DEF StreamAt
    <3>. QED
      BY <3>4, <3>5
  <2>3. StreamOK(d, b, p + 1)
    BY <2>1, <2>2 DEF StreamOK
  <2>. QED
    BY <1>1, <2>3 DEF d
<1>2. CASE ~(Open(c) /\ c.attached)
  BY <1>2 DEF StreamOK, StreamAt
<1>. QED
  BY <1>1, <1>2

\* The same, for the watcher of the stream.
LEMMA WatcherBuffer ==
  ASSUME NEW c, Bounded(c), NEW q, NEW p \in Nat, NEW l \in Nat, p + 1 <= MaxRows,
         WatcherOK(c, q, p, l)
  PROVE  WatcherOK(IF Open(c) /\ c.attached THEN Buffer(c, p + 1) ELSE c, q, p + 1, l)
<1>1. PICK a \in 0 .. l, b \in 0 .. l : a <= b /\ q = Rows(a, b) /\ StreamOK(c, b, p)
  BY DEF WatcherOK
<1>2. StreamOK(IF Open(c) /\ c.attached THEN Buffer(c, p + 1) ELSE c, b, p + 1)
  BY <1>1, StreamBuffer
<1>. QED
  BY <1>1, <1>2 DEF WatcherOK

\* The log grows.
LEMMA WatcherMore ==
  ASSUME NEW c, NEW q, NEW p, NEW l \in Nat, NEW l2 \in Nat, l <= l2, WatcherOK(c, q, p, l)
  PROVE  WatcherOK(c, q, p, l2)
<1>1. 0 .. l \subseteq 0 .. l2
  OBVIOUS
<1>. QED
  BY <1>1 DEF WatcherOK

\* The stream ends.
LEMMA WatcherEnded ==
  ASSUME NEW c, NEW d, NEW q, NEW p, NEW l, WatcherOK(c, q, p, l), ~Open(d)
  PROVE  WatcherOK(d, q, p, l)
BY DEF WatcherOK, StreamOK, Open

\* The stream changes in ways the invariant does not look at.
LEMMA WatcherSame ==
  ASSUME NEW c, NEW d, NEW q, NEW p, NEW l, WatcherOK(c, q, p, l),
         d.pc = c.pc \/ (c.pc = "live" /\ d.pc = "parked"),
         d.attached = c.attached \/ d.attached = FALSE,
         d.buf = c.buf, d.lagged = c.lagged, d.base = c.base, d.cursor = c.cursor,
         d.replayed = c.replayed, d.dedup = c.dedup
  PROVE  WatcherOK(d, q, p, l)
<1>1. PICK a \in 0 .. l, b \in 0 .. l : a <= b /\ q = Rows(a, b) /\ StreamOK(c, b, p)
  BY DEF WatcherOK
<1>2. ASSUME NEW f \in Nat, NEW g \in Nat, StreamAt(c, b, f, g, p)
      PROVE  StreamAt(d, b, f, g, p)
  BY <1>2 DEF StreamAt
<1>3. StreamOK(d, b, p)
  BY <1>1, <1>2 DEF StreamOK, Open
<1>. QED
  BY <1>1, <1>3 DEF WatcherOK

\* The part of the buffer that the replay has reached is dropped.
LEMMA WatcherSkipped ==
  ASSUME SeamInv, NEW s \in Watchers, NEW p \in 0 .. log, Skipped(s),
         WatcherOK(conn[s], seen[s], p, log)
  PROVE  WatcherOK(conn'[s], seen'[s], p, log)
<1>. DEFINE c == conn[s]
            d == conn'[s]
<1>1. PICK a \in 0 .. log, b \in 0 .. log :
        a <= b /\ seen[s] = Rows(a, b) /\ StreamOK(c, b, p)
  BY DEF WatcherOK
<1>2. /\ c \in Conn /\ log \in Nat /\ log <= MaxRows
      /\ Open(c) /\ ~c.lagged /\ c.pc \in {"live", "parked"} /\ c.buf # <<>>
  BY SMTT(30), FeedAssumption DEF SeamInv, TypeOK, Skipped, Receiving, Open
<1>3. PICK f \in Nat, g \in Nat : StreamAt(c, b, f, g, p)
  BY <1>1, <1>2 DEF StreamOK
<1>4. f < g /\ g <= MaxRows /\ c.buf = Rows(f, g)
  <2>1. f <= g /\ g <= p /\ c.buf = Rows(f, g)
    BY <1>3 DEF StreamAt
  <2>2. g <= MaxRows
    BY <1>2, <2>1, FeedAssumption
  <2>3. f # g
    BY <1>2, <2>1, RowsNone
  <2>. QED
    BY <2>1, <2>2, <2>3
<1>5. Head(c.buf) = f + 1 /\ Tail(c.buf) = Rows(f + 1, g)
  BY <1>4, RowsTail
<1>6. /\ d.pc = "live" /\ d.buf = Rows(f + 1, g) /\ d.replayed = c.replayed \ {f + 1}
      /\ d.attached = c.attached /\ d.lagged = c.lagged /\ d.dedup = c.dedup
      /\ c.dedup /\ f + 1 \in c.replayed /\ seen'[s] = seen[s]
  <2>1. /\ d = [c EXCEPT !.pc = "live", !.buf = Tail(c.buf),
                          !.replayed = c.replayed \ {Head(c.buf)}]
        /\ c.dedup /\ Head(c.buf) \in c.replayed /\ seen'[s] = seen[s]
    BY DEF Skipped
  <2>. HIDE DEF c, d
  <2>. QED
    BY <1>2, <1>5, <2>1 DEF Conn
<1>. HIDE DEF c, d
<1>7. StreamAt(d, b, f + 1, g, p)
  BY <1>1, <1>2, <1>3, <1>4, <1>6 DEF StreamAt
<1>8. f + 1 \in Nat
  OBVIOUS
<1>9. StreamOK(d, b, p)
  BY <1>6, <1>7, <1>8 DEF StreamOK
<1>10. WatcherOK(d, seen'[s], p, log)
  BY <1>1, <1>6, <1>9 DEF WatcherOK
<1>. QED
  BY <1>10 DEF d

\* What is delivered from the buffer follows what was received.
LEMMA WatcherDelivered ==
  ASSUME SeamInv, NEW s \in Watchers, NEW p \in 0 .. log, Delivered(s),
         WatcherOK(conn[s], seen[s], p, log)
  PROVE  WatcherOK(conn'[s], seen'[s], p, log)
<1>. DEFINE c == conn[s]
            d == conn'[s]
<1>1. PICK a \in 0 .. log, b \in 0 .. log :
        a <= b /\ seen[s] = Rows(a, b) /\ StreamOK(c, b, p)
  BY DEF WatcherOK
<1>2. /\ c \in Conn /\ log \in Nat /\ log <= MaxRows
      /\ Open(c) /\ ~c.lagged /\ c.pc \in {"live", "parked"} /\ c.buf # <<>>
  BY SMTT(30), FeedAssumption DEF SeamInv, TypeOK, Delivered, Receiving, Open
<1>3. PICK f \in Nat, g \in Nat : StreamAt(c, b, f, g, p)
  BY <1>1, <1>2 DEF StreamOK
<1>4. f < g /\ g <= p /\ g <= MaxRows /\ c.buf = Rows(f, g)
  <2>1. f <= g /\ g <= p /\ c.buf = Rows(f, g)
    BY <1>3 DEF StreamAt
  <2>2. g <= MaxRows
    BY <1>2, <2>1, FeedAssumption
  <2>3. f # g
    BY <1>2, <2>1, RowsNone
  <2>. QED
    BY <2>1, <2>2, <2>3
<1>5. Head(c.buf) = f + 1 /\ Tail(c.buf) = Rows(f + 1, g)
  BY <1>4, RowsTail
<1>6. /\ d.pc = "live" /\ d.buf = Rows(f + 1, g) /\ d.replayed = {}
      /\ d.attached = c.attached /\ ~d.dedup
      /\ ~(c.dedup /\ f + 1 \in c.replayed) /\ seen'[s] = Append(Rows(a, b), f + 1)
  BY <1>1, <1>2, <1>5 DEF Delivered, Conn
<1>. HIDE DEF c, d
<1>7. b = f
  <2>1. f + 1 \notin c.replayed
    BY <1>2, <1>3, <1>6 DEF StreamAt
  <2>. QED
    BY <1>1, <1>2, <1>3, <2>1 DEF StreamAt
<1>8. f + 1 \in 0 .. log /\ f + 1 \in Nat /\ f + 1 <= MaxRows /\ a <= f + 1
  BY <1>1, <1>2, <1>4, <1>7, FeedAssumption
<1>9. seen'[s] = Rows(a, f + 1)
  <2>1. a \in Nat /\ a <= f
    BY <1>1, <1>2, <1>7
  <2>2. Append(Rows(a, f), f + 1) = Rows(a, f + 1)
    BY <1>8, <2>1, RowsAppend
  <2>. QED
    BY <1>6, <1>7, <2>2
<1>10. StreamAt(d, f + 1, f + 1, g, p)
  BY <1>3, <1>4, <1>6, <1>8 DEF StreamAt
<1>11. StreamOK(d, f + 1, p)
  BY <1>6, <1>8, <1>10 DEF StreamOK
<1>12. WatcherOK(d, seen'[s], p, log)
  BY <1>1, <1>8, <1>9, <1>11 DEF WatcherOK
<1>. QED
  BY <1>12 DEF d

\* A page of the log follows what was received.
LEMMA WatcherPaged ==
  ASSUME SeamInv, NEW s \in Watchers, NEW p \in 0 .. log, NEW last \in Nat, Paged(s, last),
         WatcherOK(conn[s], seen[s], p, log)
  PROVE  WatcherOK(conn'[s], seen'[s], p, log)
<1>. DEFINE c == conn[s]
            d == conn'[s]
<1>1. PICK a \in 0 .. log, b \in 0 .. log :
        a <= b /\ seen[s] = Rows(a, b) /\ StreamOK(c, b, p)
  BY DEF WatcherOK
<1>2. c \in Conn /\ log \in Nat /\ log <= MaxRows /\ c.pc = "replay"
  BY FeedAssumption DEF SeamInv, TypeOK, Paged
<1>3. /\ last \in c.cursor .. log
      /\ seen'[s] = Rows(a, b) \o Rows(c.cursor, last)
      /\ \/ d = NoConn
         \/ \E pc \in {"replay", "live"} :
              /\ pc = "live" => last = log
              /\ d = [c EXCEPT !.pc = pc, !.cursor = last,
                               !.replayed = c.replayed \cup (c.cursor + 1 .. last)]
  BY <1>1 DEF Paged
<1>4. /\ c.cursor = b /\ b <= last /\ last \in 0 .. log /\ last <= MaxRows /\ a <= last
      /\ seen'[s] = Rows(a, last)
  <2>1. c.cursor = b
    BY <1>1, <1>2 DEF StreamOK
  <2>2. /\ a \in Nat /\ b \in Nat /\ b <= last /\ last <= MaxRows /\ a <= last
        /\ last \in 0 .. log
    BY <1>1, <1>2, <1>3, <2>1, FeedAssumption
  <2>3. Rows(a, b) \o Rows(b, last) = Rows(a, last)
    BY <1>1, <2>2, RowsJoin
  <2>. QED
    BY <1>3, <2>1, <2>2, <2>3
<1>5. CASE d = NoConn
  <2>1. StreamOK(d, last, p)
    BY <1>5 DEF StreamOK, Open, NoConn
  <2>. QED
    BY <1>1, <1>4, <2>1 DEF WatcherOK
<1>6. ASSUME NEW pc \in {"replay", "live"}, pc = "live" => last = log,
             d = [c EXCEPT !.pc = pc, !.cursor = last,
                           !.replayed = c.replayed \cup (c.cursor + 1 .. last)]
      PROVE  WatcherOK(d, seen'[s], p, log)
  <2>1. /\ d.pc = pc /\ d.cursor = last /\ d.replayed = c.replayed \cup (b + 1 .. last)
        /\ d.attached = c.attached /\ d.buf = c.buf /\ d.lagged = c.lagged
        /\ d.base = c.base /\ d.dedup = c.dedup /\ c.base \in Nat
    <3>. HIDE DEF c, d
    <3>. QED
      BY <1>2, <1>4, <1>6, FeedAssumption DEF Conn
  <2>. HIDE DEF c, d
  <2>2. ASSUME ~d.lagged
        PROVE  \E f \in Nat, g \in Nat : StreamAt(d, last, f, g, p)
    <3>1. PICK f \in Nat, g \in Nat : StreamAt(c, b, f, g, p)
      BY <1>1, <1>2, <2>1, <2>2 DEF StreamOK, Open
    <3>2. /\ f <= g /\ g <= p /\ c.buf = Rows(f, g) /\ (c.attached => g = p)
          /\ c.dedup /\ c.base <= b /\ c.base <= f /\ c.replayed = c.base + 1 .. b
      BY <1>2, <3>1 DEF StreamAt
    <3>3. d.replayed = c.base + 1 .. last
      BY <1>1, <1>2, <1>4, <2>1, <3>2
    <3>4. pc = "live" => f <= last
      BY <1>2, <1>6, <3>2
    <3>5. d.pc = "live" => f + 1 .. last \subseteq d.replayed /\ d.replayed \subseteq 1 .. last
      BY SMTT(30), <1>4, <2>1, <3>2, <3>3
    <3>6. c.base <= last
      BY <1>1, <1>2, <1>4, <2>1, <3>2
    <3>7. StreamAt(d, last, f, g, p)
      BY <1>6, <2>1, <3>2, <3>3, <3>4, <3>5, <3>6 DEF StreamAt
    <3>. QED
      BY <3>7
  <2>3. StreamOK(d, last, p)
    BY <2>1, <2>2 DEF StreamOK
  <2>. QED
    BY <1>1, <1>4, <2>3 DEF WatcherOK
<1>. QED
  BY <1>3, <1>5, <1>6

\* A new stream: what it asks for follows what was received.
LEMMA WatcherSubscribed ==
  ASSUME SeamInv, NEW s \in Watchers, NEW p \in 0 .. log, Subscribe(s),
         WatcherOK(conn[s], seen[s], p, log),
         seen[s] # <<>> => seen[s][Len(seen[s])] <= p
  PROVE  WatcherOK(conn'[s], seen'[s], p, log)
<1>. DEFINE d == conn'[s]
<1>1. PICK a \in 0 .. log, b \in 0 .. log : a <= b /\ seen[s] = Rows(a, b)
  BY DEF WatcherOK
<1>2. TypeOK /\ log \in Nat /\ log <= MaxRows
  BY FeedAssumption DEF SeamInv, TypeOK
<1>3. a \in Nat /\ b \in Nat /\ b <= MaxRows
  BY <1>1, <1>2, FeedAssumption
<1>4. /\ \/ seen[s] = <<>> /\ Subscribed(s, None)
         \/ seen[s] = <<>> /\ Subscribed(s, 0)
         \/ seen[s] # <<>> /\ Subscribed(s, seen[s][Len(seen[s])])
  BY <1>2, SubscribeProperties
<1>5. Rows(p, p) = <<>> /\ Rows(0, 0) = <<>>
  BY <1>2, RowsNone
<1>6. CASE seen[s] = <<>> /\ Subscribed(s, None)
  <2>1. /\ seen'[s] = Rows(p, p)
        /\ d = [NoConn EXCEPT !.pc = "live", !.attached = TRUE, !.base = log,
                              !.cursor = 0, !.dedup = TRUE]
    BY <1>5, <1>6 DEF Subscribed
  <2>2. /\ d.pc = "live" /\ d.attached /\ d.buf = Rows(p, p) /\ d.dedup /\ d.replayed = {}
    BY <1>5, <2>1 DEF NoConn
  <2>. HIDE DEF d
  <2>3. p \in Nat /\ StreamAt(d, p, p, p, p)
    BY <1>2, <2>2 DEF StreamAt
  <2>4. StreamOK(d, p, p)
    BY <2>2, <2>3 DEF StreamOK
  <2>5. WatcherOK(d, seen'[s], p, log)
    BY <2>1, <2>3, <2>4 DEF WatcherOK
  <2>. QED
    BY <2>5 DEF d
<1>7. ASSUME NEW from \in 0 .. log, NEW e \in 0 .. log, Subscribed(s, from),
             e <= from, seen[s] = Rows(e, from), from <= p
      PROVE  WatcherOK(conn'[s], seen'[s], p, log)
  <2>1. from # None /\ from \in Nat
    BY <1>2, FeedAssumption
  <2>2. /\ seen'[s] = Rows(e, from)
        /\ d = [NoConn EXCEPT !.pc = "replay", !.attached = TRUE, !.base = from,
                              !.cursor = from, !.dedup = TRUE]
    BY <1>7, <2>1 DEF Subscribed
  <2>3. /\ d.pc = "replay" /\ d.attached /\ d.buf = Rows(p, p) /\ d.dedup /\ d.replayed = {}
        /\ d.base = from /\ d.cursor = from
    BY <1>5, <2>2 DEF NoConn
  <2>. HIDE DEF d
  <2>4. from + 1 .. from = {}
    BY <2>1
  <2>5. p \in Nat /\ StreamAt(d, from, p, p, p)
    BY <1>2, <1>7, <2>1, <2>3, <2>4 DEF StreamAt
  <2>6. StreamOK(d, from, p)
    BY <2>3, <2>5 DEF StreamOK
  <2>7. WatcherOK(d, seen'[s], p, log)
    BY <1>7, <2>2, <2>6 DEF WatcherOK
  <2>. QED
    BY <2>7 DEF d
<1>8. CASE seen[s] = <<>> /\ Subscribed(s, 0)
  BY <1>2, <1>5, <1>7, <1>8
<1>9. CASE seen[s] # <<>> /\ Subscribed(s, seen[s][Len(seen[s])])
  <2>1. seen[s][Len(seen[s])] = b
    BY <1>1, <1>3, <1>9, RowsLast
  <2>2. b <= p /\ Subscribed(s, b)
    BY <1>9, <2>1
  <2>. QED
    BY <1>1, <1>7, <2>2
<1>. QED
  BY <1>4, <1>6, <1>8, <1>9

-----------------------------------------------------------------------------
(* All watchers.                                                           *)

\* The pending rows are those above the border.
LEMMA OneTaskPending ==
  ASSUME TypeOK, NEW p \in 0 .. log, OneTask(p)
  PROVE  Pending = p + 1 .. log
<1>. DEFINE U == UNION {Range(unpublished[w]) : w \in Writers}
<1>1. log \in Nat /\ log <= MaxRows /\ p \in Nat
  BY FeedAssumption DEF TypeOK
<1>2. Range(<<>>) = {}
  BY DEF Range
<1>3. CASE p = log /\ closing # "logged" /\ \A w \in Writers : unpublished[w] = <<>>
  <2>1. U = {} /\ p + 1 .. log = {}
    BY <1>1, <1>2, <1>3
  <2>. QED
    BY <1>3, <2>1 DEF Pending
<1>4. CASE /\ p = log - 1 /\ closing = "logged" /\ closeRow = log
           /\ \A w \in Writers : unpublished[w] = <<>>
  <2>1. U = {} /\ p + 1 .. log = {closeRow}
    BY <1>1, <1>2, <1>4
  <2>. QED
    BY <1>4, <2>1 DEF Pending
<1>5. ASSUME p < log, closing # "logged", NEW w \in Writers, unpublished[w] = Rows(p, log),
             \A v \in Writers \ {w} : unpublished[v] = <<>>
      PROVE  Pending = p + 1 .. log
  <2>1. Range(unpublished[w]) = p + 1 .. log
    BY <1>1, <1>5, RowsLast
  <2>2. U = p + 1 .. log
    BY <1>2, <1>5, <2>1
  <2>. QED
    BY <1>5, <2>2 DEF Pending
<1>. QED
  BY <1>3, <1>4, <1>5 DEF OneTask

\* Nothing is pending.
LEMMA NothingPending ==
  ASSUME TypeOK, NEW p \in 0 .. log, OneTask(p), Pending = {}
  PROVE  p = log /\ closing # "logged" /\ \A w \in Writers : unpublished[w] = <<>>
<1>1. log \in Nat /\ p \in Nat /\ p <= log
  BY FeedAssumption DEF TypeOK
<1>2. p + 1 .. log = {}
  BY OneTaskPending
<1>3. p = log
  BY <1>1, <1>2
<1>. QED
  BY <1>1, <1>3 DEF OneTask

\* The log keeps its border while one watcher moves.
LEMMA OrderOthers ==
  ASSUME NEW s \in Watchers, NEW p \in 0 .. log, Ordered(p), Others(s), LogKept,
         WatcherOK(conn'[s], seen'[s], p, log)
  PROVE  \E r \in 0 .. log' : Ordered(r)'
<1>1. log' = log /\ OneTask(p)'
  BY DEF LogKept, Ordered, OneTask
<1>2. \A t \in Watchers : WatcherOK(conn'[t], seen'[t], p, log)
  BY DEF Ordered, Others
<1>. QED
  BY <1>1, <1>2 DEF Ordered

\* Row p + 1 is published to all.
LEMMA OrderBroadcast ==
  ASSUME SeamInv, NEW p \in 0 .. log, Ordered(p), p < log, Broadcast(p + 1),
         UNCHANGED <<log, seen>>, OneTask(p + 1)'
  PROVE  \E r \in 0 .. log' : Ordered(r)'
<1>1. TypeOK /\ log \in Nat /\ p \in Nat /\ p + 1 \in 1 .. MaxRows /\ p + 1 <= MaxRows
  BY FeedAssumption DEF SeamInv, TypeOK
<1>2. p + 1 \in 0 .. log'
  BY <1>1
<1>3. ASSUME NEW s \in Watchers
      PROVE  WatcherOK(conn'[s], seen'[s], p + 1, log')
  <2>1. Bounded(conn[s]) /\ WatcherOK(conn[s], seen[s], p, log)
    BY <1>1, BoundedConn DEF Ordered
  <2>2. WatcherOK(IF Open(conn[s]) /\ conn[s].attached THEN Buffer(conn[s], p + 1) ELSE conn[s],
                  seen[s], p + 1, log)
    BY <1>1, <2>1, WatcherBuffer
  <2>3. Streaming(s) <=> Open(conn[s])
    BY DEF Streaming, Open
  <2>4. conn'[s] = IF Open(conn[s]) /\ conn[s].attached THEN Buffer(conn[s], p + 1) ELSE conn[s]
    BY <1>1, <2>3, BroadcastProperties
  <2>. QED
    BY <2>2, <2>4
<1>. QED
  BY <1>2, <1>3 DEF Ordered

\* While nothing has raced, every step keeps or moves the border.
LEMMA OrderStep ==
  ASSUME SeamInv, OrderInv, [Next]_vars, ~raced'
  PROVE  \E r \in 0 .. log' : Ordered(r)'
<1>1. /\ TypeOK /\ CloseSane /\ log \in Nat /\ log <= MaxRows
      /\ \A s \in Watchers : Bounded(conn[s])
  BY SMTT(30), BoundedConn, FeedAssumption DEF SeamInv, TypeOK
<1>2. ~raced
  BY ZenonT(60) DEF Next, Insert, Publish, Subscribe, Serve, Replay, Receive, Park, Stop, Leave,
         Unsubscribe, Close, LogClose, PublishClose, RemoveChannel, vars
<1>3. PICK p \in 0 .. log : Ordered(p)
  BY <1>2 DEF OrderInv
<1>4. p \in Nat /\ p <= log /\ OneTask(p)
  BY <1>1, <1>3 DEF Ordered
<1>5. ASSUME NEW w \in Writers, Insert(w)
      PROVE  \E r \in 0 .. log' : Ordered(r)'
  <2>1. p = log /\ closing # "logged" /\ \A v \in Writers : unpublished[v] = <<>>
    BY <1>1, <1>4, <1>5, NothingPending DEF Insert
  <2>2. PICK n \in 1 .. MaxBatch :
          log' = log + n /\ unpublished' = [unpublished EXCEPT ![w] = Rows(log, log + n)]
    BY <1>5 DEF Insert
  <2>3. log' \in Nat /\ p < log' /\ log <= log'
    BY <1>1, <2>1, <2>2, FeedAssumption
  <2>4. UNCHANGED <<closing, conn, seen>>
    BY <1>5 DEF Insert
  <2>5. /\ unpublished'[w] = Rows(p, log')
        /\ \A v \in Writers \ {w} : unpublished'[v] = <<>>
    BY <1>1, <2>1, <2>2 DEF TypeOK
  <2>6. OneTask(p)'
    BY <2>1, <2>3, <2>4, <2>5 DEF OneTask
  <2>7. \A s \in Watchers : WatcherOK(conn'[s], seen'[s], p, log')
    BY <1>1, <1>3, <2>3, <2>4, WatcherMore DEF Ordered
  <2>. QED
    BY <1>4, <2>3, <2>6, <2>7 DEF Ordered
<1>6. CASE LogClose
  <2>1. p = log /\ closing # "logged" /\ \A v \in Writers : unpublished[v] = <<>>
    BY <1>1, <1>4, <1>6, NothingPending DEF LogClose
  <2>2. /\ log' = log + 1 /\ closeRow' = log' /\ closing' = "logged"
        /\ UNCHANGED <<unpublished, conn, seen>>
    BY <1>6 DEF LogClose
  <2>3. log' \in Nat /\ p = log' - 1 /\ log <= log' /\ p \in 0 .. log'
    BY <1>1, <2>1, <2>2
  <2>4. OneTask(p)'
    BY <2>1, <2>2, <2>3 DEF OneTask
  <2>5. \A s \in Watchers : WatcherOK(conn'[s], seen'[s], p, log')
    BY <1>1, <1>3, <2>2, <2>3, WatcherMore DEF Ordered
  <2>. QED
    BY <1>4, <2>3, <2>4, <2>5 DEF Ordered
<1>7. ASSUME NEW w \in Writers, Publish(w)
      PROVE  \E r \in 0 .. log' : Ordered(r)'
  <2>1. /\ p < log /\ closing # "logged" /\ unpublished[w] = Rows(p, log)
        /\ \A v \in Writers \ {w} : unpublished[v] = <<>>
    BY <1>4, <1>7 DEF OneTask, Publish
  <2>2. /\ Head(unpublished[w]) = p + 1 /\ Tail(unpublished[w]) = Rows(p + 1, log)
    BY <1>1, <1>4, <2>1, RowsTail
  <2>3. /\ Broadcast(p + 1) /\ UNCHANGED <<log, closing, seen>>
        /\ unpublished' = [unpublished EXCEPT ![w] = Rows(p + 1, log)]
    BY <1>7, <2>2 DEF Publish
  <2>4. /\ unpublished'[w] = Rows(p + 1, log)
        /\ \A v \in Writers \ {w} : unpublished'[v] = <<>>
    BY <1>1, <2>1, <2>3 DEF TypeOK
  <2>5. OneTask(p + 1)'
    <3>1. CASE p + 1 = log
      BY <1>1, <2>1, <2>3, <2>4, <3>1, RowsNone DEF OneTask
    <3>2. CASE p + 1 # log
      <4>1. p + 1 < log
        BY <1>1, <1>4, <2>1, <3>2
      <4>. QED
        BY <2>1, <2>3, <2>4, <4>1 DEF OneTask
    <3>. QED
      BY <3>1, <3>2
  <2>. QED
    BY <1>3, <2>1, <2>3, <2>5, OrderBroadcast
<1>8. CASE PublishClose
  <2>1. /\ p = log - 1 /\ closeRow = log /\ \A w \in Writers : unpublished[w] = <<>>
    BY <1>4, <1>8 DEF OneTask, PublishClose
  <2>2. p < log /\ closeRow = p + 1 /\ p + 1 = log
    BY <1>1, <2>1
  <2>3. Broadcast(p + 1) /\ UNCHANGED <<log, seen, unpublished>> /\ closing' = "published"
    BY <1>8, <2>2 DEF PublishClose
  <2>4. OneTask(p + 1)'
    BY <2>1, <2>2, <2>3 DEF OneTask
  <2>. QED
    BY <1>3, <2>2, <2>3, <2>4, OrderBroadcast
<1>9. ASSUME NEW s \in Watchers, Subscribe(s)
      PROVE  \E r \in 0 .. log' : Ordered(r)'
  <2>1. WatcherOK(conn[s], seen[s], p, log)
    BY <1>3 DEF Ordered
  <2>2. ASSUME seen[s] # <<>>
        PROVE  seen[s][Len(seen[s])] <= p
    <3>1. PICK a \in 0 .. log, b \in 0 .. log : a <= b /\ seen[s] = Rows(a, b)
      BY <2>1 DEF WatcherOK
    <3>2. a \in Nat /\ b \in Nat /\ b <= MaxRows
      BY <1>1, <3>1, FeedAssumption
    <3>3. seen[s][Len(seen[s])] = b
      BY <2>2, <3>1, <3>2, RowsLast
    <3>4. b \notin Pending
      <4>1. Last(seen[s]) = b /\ b <= b
        BY <3>2, <3>3 DEF Last
      <4>2. raced' = (raced \/ \E i \in Pending : seen[s] # <<>> /\ i <= Last(seen[s]))
        BY <1>9 DEF Subscribe
      <4>. QED
        BY <2>2, <4>1, <4>2, Zenon
    <3>5. b \notin p + 1 .. log
      BY <1>1, <1>4, <3>4, OneTaskPending
    <3>. QED
      BY <1>1, <1>4, <3>1, <3>2, <3>3, <3>5
  <2>3. WatcherOK(conn'[s], seen'[s], p, log)
    BY <1>9, <2>1, <2>2, WatcherSubscribed
  <2>. QED
    BY <1>1, <1>3, <1>9, <2>3, SubscribeProperties, OrderOthers
<1>10. ASSUME NEW s \in Watchers, Serve(s) \/ Leave(s)
       PROVE  \E r \in 0 .. log' : Ordered(r)'
  <2>1. WatcherOK(conn[s], seen[s], p, log)
    BY <1>3 DEF Ordered
  <2>2. ASSUME Ended(s)
        PROVE  WatcherOK(conn'[s], seen'[s], p, log)
    <3>1. ~Open(conn'[s])
      BY <1>1, <2>2 DEF Ended, Open, Bounded, Conn, NoConn
    <3>. QED
      BY <2>1, <2>2, <3>1, WatcherEnded DEF Ended
  <2>3. CASE Replay(s)
    <3>1. PICK last \in Nat : Paged(s, last)
      BY <1>1, <2>3, ReplayProperties
    <3>2. WatcherOK(conn'[s], seen'[s], p, log)
      BY <2>1, <3>1, WatcherPaged
    <3>. QED
      BY <1>1, <1>3, <2>3, <3>2, ReplayProperties, OrderOthers
  <2>4. CASE Receive(s)
    <3>1. WatcherOK(conn'[s], seen'[s], p, log)
      BY <1>1, <2>1, <2>2, <2>4, ReceiveProperties, WatcherSkipped, WatcherDelivered
    <3>. QED
      BY <1>1, <1>3, <2>4, <3>1, ReceiveProperties, OrderOthers
  <2>5. CASE Park(s)
    <3>1. /\ conn[s].pc = "live" /\ conn'[s] = [conn[s] EXCEPT !.pc = "parked"]
          /\ seen'[s] = seen[s] /\ conn[s] \in Conn
      BY <1>1, <2>5, ParkProperties DEF Bounded
    <3>2. WatcherOK(conn'[s], seen'[s], p, log)
      BY ZenonT(60), <2>1, <3>1, WatcherSame DEF Conn
    <3>. QED
      BY <1>1, <1>3, <2>5, <3>2, ParkProperties, OrderOthers
  <2>6. CASE Stop(s) \/ Leave(s)
    BY <1>1, <1>3, <2>2, <2>6, EndProperties, OrderOthers
  <2>. QED
    BY <1>10, <2>3, <2>4, <2>5, <2>6 DEF Serve
<1>11. ASSUME UNCHANGED <<log, unpublished, closeRow, seen>>,
              closing' = closing \/ (closing # "logged" /\ closing' # "logged"),
              \A s \in Watchers : WatcherOK(conn'[s], seen[s], p, log)
       PROVE  \E r \in 0 .. log' : Ordered(r)'
  <2>1. OneTask(p)'
    BY <1>4, <1>11 DEF OneTask
  <2>. QED
    BY <1>11, <2>1 DEF Ordered
<1>12. CASE Unsubscribe
  <2>1. ASSUME NEW s \in Watchers
        PROVE  WatcherOK(conn'[s], seen[s], p, log)
    <3>1. conn'[s] = Notified(conn[s])
      BY <1>12 DEF Unsubscribe
    <3>2. WatcherOK(Notified(conn[s]), seen[s], p, log)
      BY <1>1, <1>3, NotifiedProperties, WatcherSame DEF Ordered
    <3>. QED
      BY <3>1, <3>2
  <2>. QED
    BY <1>11, <1>12, <2>1 DEF Unsubscribe
<1>13. CASE RemoveChannel
  <2>1. ASSUME NEW s \in Watchers
        PROVE  WatcherOK(conn'[s], seen[s], p, log)
    <3>1. conn'[s] = [Notified(conn[s]) EXCEPT !.attached = FALSE]
      BY <1>13 DEF RemoveChannel
    <3>2. WatcherOK([Notified(conn[s]) EXCEPT !.attached = FALSE], seen[s], p, log)
      BY <1>1, <1>3, NotifiedProperties, WatcherSame DEF Ordered
    <3>. QED
      BY <3>1, <3>2
  <2>. QED
    BY <1>11, <1>13, <2>1 DEF RemoveChannel
<1>14. CASE UNCHANGED vars
  BY <1>3, <1>11, <1>14 DEF vars, Ordered
<1>. QED
  BY <1>5, <1>6, <1>7, <1>8, <1>9, <1>10, <1>12, <1>13, <1>14 DEF Next, Close

\* Nothing is logged: the border is 0.
LEMMA InitOrder == Init => OrderInv
<1>. SUFFICES ASSUME Init
              PROVE  OrderInv
  OBVIOUS
<1>1. Rows(0, 0) = <<>>
  BY RowsNone
<1>2. ASSUME NEW s \in Watchers
      PROVE  WatcherOK(conn[s], seen[s], 0, log)
  <2>1. StreamOK(conn[s], 0, 0)
    BY DEF Init, StreamOK, Open, NoConn
  <2>. QED
    BY <1>1, <2>1 DEF Init, WatcherOK
<1>3. OneTask(0)
  BY DEF Init, OneTask
<1>. QED
  BY <1>2, <1>3 DEF Init, OrderInv, Ordered

\* Order is inductive, together with the seam.
LEMMA OrderInvariance == Spec => [](SeamInv /\ OrderInv)
<1>1. SeamInv /\ OrderInv /\ [Next]_vars => OrderInv'
  BY OrderStep DEF OrderInv
<1>. QED
  BY <1>1, InitOrder, SeamInvariance, PTL DEF Spec

\* A watcher that resumes from its last event receives every event once and in
\* order, while no step comes between a commit and its publication
\* (drive_subscribe, insert_and_publish).
THEOREM ExactlyOnce == Spec => []ExactlyOnceInOrder
<1>1. ASSUME SeamInv, OrderInv
      PROVE  ExactlyOnceInOrder
  <2>. SUFFICES ASSUME ~raced, NEW s \in Watchers, NEW i \in 1 .. Len(seen[s]) - 1
                PROVE  seen[s][i + 1] = seen[s][i] + 1
    BY DEF ExactlyOnceInOrder
  <2>1. PICK p \in 0 .. log : WatcherOK(conn[s], seen[s], p, log)
    BY <1>1 DEF OrderInv, Ordered
  <2>2. PICK a \in 0 .. log, b \in 0 .. log : a <= b /\ seen[s] = Rows(a, b)
    BY <2>1 DEF WatcherOK
  <2>3. a \in Nat /\ b \in Nat /\ b <= MaxRows
    BY <1>1, <2>2, FeedAssumption DEF SeamInv, TypeOK
  <2>4. /\ Len(seen[s]) = b - a /\ \A j \in 1 .. b - a : seen[s][j] = a + j
    BY <2>2, <2>3, RowsProperties
  <2>5. i \in 1 .. b - a /\ i + 1 \in 1 .. b - a
    BY <2>3, <2>4
  <2>6. seen[s][i] = a + i /\ seen[s][i + 1] = a + (i + 1)
    BY <2>4, <2>5
  <2>. QED
    BY <2>3, <2>6
<1>. QED
  BY <1>1, OrderInvariance, PTL

-----------------------------------------------------------------------------
(***************************************************************************)
(* The types of a connection to an MCP server, and that a call gets its    *)
(* own answer, for any number of calls, any capacity of the pipes and any  *)
(* number of requests of the server.                                       *)
(*                                                                         *)
(* The argument: an id is spent with each request, before it is written,   *)
(* so every request and every answer that is on its way, in a pipe, in the *)
(* server or in a line that is half read, bears the id of one call only -  *)
(* also those of calls that were dropped or timed out long ago.            *)
(*                                                                         *)
(* For what a torn line costs, the input of the child is one stream: the   *)
(* pieces of the half-read line, those in the pipe, and those the call has *)
(* yet to write.  A piece that does not end its message is followed by the *)
(* rest of it, unless its writer was dropped there (Stream).               *)
(***************************************************************************)
\* The messages whose id is that of the call they are about.
Sound  == {m \in Messages : m.kind \in {"request", "answer"} => m.id = m.of}
Sounds == [of : Sound, last : BOOLEAN]

\* Nothing else is on its way.
OnlySound ==
  /\ toServer \in Seq(Sounds) /\ toClient \in Seq(Sounds) /\ line \in Seq(Sounds)
  /\ saying \in Sound \cup {Nothing}
  /\ heard \subseteq {m \in Sound : m.kind = "request"}

CallRecords ==
  [pc : {"idle", "write", "read", "posted", "body"}, id : 0 .. MaxCalls, of : 0 .. MaxCalls,
   left : Seq(Sounds), got : Seq(Sounds)]

\* The call under way has the id of its request, and waits for no answer if it
\* has none.
CallSane ==
  /\ call \in CallRecords
  /\ call.id = call.of
  /\ call.pc \in {"read", "body"} => call.id > 0
  /\ call.pc = "write" => call.left # <<>>

Bounds ==
  /\ transport \in {"stdio", "http"} /\ child \in BOOLEAN
  /\ link \in Handshake \cup {"up", "closing", "gone"}
  /\ made \in 0 .. MaxCalls /\ nextId = made + 1 /\ sid \in 0 .. MaxCalls
  /\ Len(toServer) <= Pipe /\ Len(toClient) <= Pipe
  /\ asks \in 0 .. MaxAsks /\ torn \subseteq Calls

Answers == given \in [Calls -> Sound \cup {Error, Nothing}] /\ OwnAnswer

McpInv == OnlySound /\ CallSane /\ Bounds /\ Answers

-----------------------------------------------------------------------------
LEMMA Naturals == MaxCalls \in Nat /\ Pipe \in Nat /\ MaxAsks \in Nat /\ MaxCalls > 2 /\ Pipe > 0
BY McpAssumption

LEMMA McpAtFirst == McpInit => McpInv
<1> SUFFICES ASSUME McpInit PROVE McpInv
  OBVIOUS
<1> USE Naturals DEF McpInit
<1>1. OnlySound BY DEF OnlySound
<1>2. CallSane BY DEF CallSane, CallRecords, Idle
<1>3. Bounds BY DEF Bounds, Handshake
<1>4. Answers BY DEF Answers, OwnAnswer, Nothing, Error, Message
<1> QED BY <1>1, <1>2, <1>3, <1>4 DEF McpInv

\* What the sequences are made of.
LEMMA LineSound ==
  ASSUME NEW m \in Sound
  PROVE  /\ Line(m) \in Seq(Sounds) /\ Len(Line(m)) = 2 /\ Line(m) # <<>>
         /\ Line(m)[1] \in Sounds /\ Line(m)[2] \in Sounds
BY DEF Line, Sounds

LEMMA HeadTail ==
  ASSUME NEW s \in Seq(Sounds), s # <<>>
  PROVE  /\ Head(s) \in Sounds /\ Tail(s) \in Seq(Sounds) /\ Len(Tail(s)) = Len(s) - 1
         /\ s[1] \in Sounds /\ s[1].of \in Sound
         /\ Len(s) # 1 => Tail(s) # <<>>
<1>1. Head(s) \in Sounds /\ Tail(s) \in Seq(Sounds) /\ Len(Tail(s)) = Len(s) - 1
  OBVIOUS
<1>2. s[1] \in Sounds
  OBVIOUS
<1>3. Len(s) # 1 => Tail(s) # <<>>
  <2> DEFINE t == Tail(s)
  <2>1. Len(s) \in Nat /\ Len(t) = Len(s) - 1
    OBVIOUS
  <2> HIDE DEF t
  <2>2. t = <<>> => Len(t) = 0
    OBVIOUS
  <2> QED BY <2>1, <2>2 DEF t
<1> QED BY <1>1, <1>2, <1>3 DEF Sounds

LEMMA TailOfOne ==
  ASSUME NEW s \in Seq(Sounds), Len(s) = 1
  PROVE  Tail(s) = <<>>
<1> DEFINE t == Tail(s)
<1>1. t \in Seq(Sounds) /\ Len(t) = 0
  BY SMTT(30), HeadTail
<1> HIDE DEF t
<1>2. t = <<>>
  BY <1>1
<1> QED BY <1>2 DEF t

\* A read changes this field of the record of its call.
LEMMA CallReads ==
  ASSUME NEW c \in CallRecords, NEW g \in Seq(Sounds), NEW d, d = [c EXCEPT !.got = g]
  PROVE  d \in CallRecords /\ d.id = c.id /\ d.of = c.of /\ d.pc = c.pc /\ d.left = c.left
BY DEF CallRecords

\* What a step leaves of the record of the call.
LEMMA CallTypes ==
  ASSUME NEW r, NEW p \in {"idle", "write", "read", "posted", "body"}, NEW i \in 0 .. MaxCalls,
         NEW l \in Seq(Sounds), NEW g \in Seq(Sounds),
         r = [pc |-> p, id |-> i, of |-> i, left |-> l, got |-> g],
         p \in {"read", "body"} => i > 0, p = "write" => l # <<>>, call' = r
  PROVE  CallSane'
BY DEF CallSane, CallRecords

\* A message that has the call's id is its own.
LEMMA ReturnKeeps ==
  ASSUME McpInv, NEW m, Return(m),
         m \in Sound \cup {Error, Nothing},
         m \in Sound /\ m.kind # "ask" => m.id = call.id
  PROVE  Answers' /\ CallSane' /\ (link' \in Handshake \cup {"up", "closing", "gone"}) /\ child' \in BOOLEAN
<1> USE Naturals
<1>1. CallSane'
  BY DEF Return, McpInv, CallSane, CallRecords, Idle
<1>2. (link' \in Handshake \cup {"up", "closing", "gone"}) /\ child' \in BOOLEAN
  BY DEF Return, McpInv, Bounds, Handshake, After, Gone, Connecting
<1>3. given' \in [Calls -> Sound \cup {Error, Nothing}]
  BY DEF Return, McpInv, Answers
<1>4. OwnAnswer'
  <2> SUFFICES ASSUME NEW n \in Calls, given'[n].kind # "ask", given'[n] \notin {Error, Nothing}
               PROVE  given'[n].of = n
    BY DEF OwnAnswer
  <2>1. CASE given'[n] = given[n]
    BY <2>1 DEF McpInv, Answers, OwnAnswer
  <2>2. CASE given'[n] # given[n]
    <3>1. n = call.of /\ given'[n] = m
      BY <2>2 DEF Return, McpInv, Answers
    <3>2. m \in Sound /\ m.kind # "ask" /\ m.id = call.id
      BY <3>1
    <3>3. call.id = n /\ n > 0
      BY <3>1 DEF McpInv, CallSane, CallRecords, Calls
    <3>4. m.kind \in {"request", "answer"}
      BY <3>2, <3>3 DEF Sound, Messages, Message
    <3> QED BY <3>1, <3>2, <3>3, <3>4 DEF Sound
  <2> QED BY <2>1, <2>2
<1> QED BY <1>1, <1>2, <1>3, <1>4 DEF Answers

-----------------------------------------------------------------------------
(* The steps.                                                              *)

LEMMA StartSane ==
  ASSUME NEW i \in 0 .. MaxCalls, NEW m \in Sound, Start(i, i, m)
  PROVE  CallSane'
<1>1. CASE transport = "stdio"
  <2>1. call' = [pc |-> "write", id |-> i, of |-> i, left |-> Line(m), got |-> <<>>]
    BY <1>1 DEF Start, Idle
  <2>2. Line(m) \in Seq(Sounds) /\ Line(m) # <<>> /\ <<>> \in Seq(Sounds)
    BY LineSound
  <2> QED BY <2>1, <2>2, CallTypes
<1>2. CASE transport # "stdio"
  <2>1. call' = [pc |-> "posted", id |-> i, of |-> i, left |-> <<>>, got |-> <<>>]
    BY <1>2 DEF Start, Idle
  <2>2. <<>> \in Seq(Sounds)
    OBVIOUS
  <2> QED BY <2>1, <2>2, CallTypes
<1> QED BY <1>1, <1>2

LEMMA BeginKeeps == ASSUME McpInv, Begin PROVE McpInv'
<1> USE Naturals DEF McpInv
<1>1. CallSane'
  <2>1. CASE link = "initialized"
    <3>1. Message("note", 0, 0) \in Sound
      BY DEF Sound, Messages, Message
    <3>2. Start(0, 0, Message("note", 0, 0))
      BY <2>1 DEF Begin
    <3>3. 0 \in 0 .. MaxCalls
      OBVIOUS
    <3> QED BY <3>1, <3>2, <3>3, StartSane
  <2>2. CASE link # "initialized"
    <3>1. nextId \in 1 .. MaxCalls /\ made' = nextId
      BY <2>2 DEF Begin, Bounds
    <3>2. Message("request", nextId, made') \in Sound
      BY <3>1 DEF Sound, Messages, Message, Ids, Calls
    <3>3. Start(nextId, nextId, Message("request", nextId, made'))
      BY <2>2, <3>1 DEF Begin
    <3>4. nextId \in 0 .. MaxCalls
      BY <3>1
    <3> QED BY <3>2, <3>3, <3>4, StartSane
  <2> QED BY <2>1, <2>2
<1>2. Bounds'
  BY DEF Begin, Bounds, NextId, pipes, server
<1>3. OnlySound'
  BY DEF Begin, OnlySound, pipes, server
<1>4. Answers'
  BY DEF Begin, Answers, OwnAnswer
<1> QED BY <1>1, <1>2, <1>3, <1>4

LEMMA DropKeeps == ASSUME McpInv, Drop PROVE McpInv'
<1> USE Naturals DEF McpInv
<1>1. CallSane'
  BY DEF Drop, CallSane, CallRecords, Idle
<1>2. Bounds'
  <2>1. call.of \in 0 .. MaxCalls /\ torn \subseteq Calls
    BY DEF Bounds, CallSane, CallRecords
  <2>2. torn' \subseteq Calls
    <3>1. torn' = torn \/ (call.of > 0 /\ torn' = torn \cup {call.of})
      BY DEF Drop
    <3>2. call.of > 0 => call.of \in Calls
      BY <2>1 DEF Calls
    <3> QED BY <2>1, <3>1, <3>2
  <2>3. child' \in BOOLEAN /\ link' \in Handshake \cup {"up", "closing", "gone"}
    BY DEF Drop, Bounds, Gone
  <2> QED BY <2>2, <2>3 DEF Drop, Bounds, pipes, server
<1>3. OnlySound'
  BY DEF Drop, OnlySound, pipes, server
<1>4. Answers'
  BY DEF Drop, Answers, OwnAnswer
<1> QED BY <1>1, <1>2, <1>3, <1>4

LEMMA CloseKeeps == ASSUME McpInv, TakeSession \/ Shutdown PROVE McpInv'
<1> USE DEF McpInv, TakeSession, Shutdown
<1>1. CallSane'
  BY DEF CallSane, CallRecords
<1>2. Bounds'
  BY DEF Bounds, Gone, pipes, server
<1>3. OnlySound'
  BY DEF OnlySound, pipes, server
<1>4. Answers'
  BY DEF Answers, OwnAnswer
<1> QED BY <1>1, <1>2, <1>3, <1>4

\* A step that returns and leaves the pipes and the server, but for its asks.
LEMMA ReturningKeeps ==
  ASSUME McpInv, NEW m, Return(m),
         m \in Sound \cup {Error, Nothing},
         m \in Sound /\ m.kind # "ask" => m.id = call.id,
         UNCHANGED <<transport, nextId, made, torn, pipes, line, saying, heard>>,
         sid' \in 0 .. MaxCalls, asks' \in 0 .. MaxAsks
  PROVE  McpInv'
<1>1. Answers' /\ CallSane' /\ (link' \in Handshake \cup {"up", "closing", "gone"}) /\ child' \in BOOLEAN
  BY ReturnKeeps
<1>2. Bounds'
  BY <1>1 DEF McpInv, Bounds, pipes
<1>3. OnlySound'
  BY DEF McpInv, OnlySound, pipes
<1> QED BY <1>1, <1>2, <1>3 DEF McpInv

LEMMA WriteKeeps == ASSUME McpInv, Write PROVE McpInv'
<1> USE Naturals
<1>1. call.left \in Seq(Sounds) /\ call.left # <<>>
  BY DEF McpInv, CallSane, CallRecords, Write
<1>2. Head(call.left) \in Sounds /\ Tail(call.left) \in Seq(Sounds) /\ Len(Tail(call.left)) = Len(call.left) - 1
  BY <1>1, HeadTail
<1>3. OnlySound' /\ Len(toServer') <= Pipe
  BY SMTT(30), <1>2 DEF McpInv, OnlySound, Bounds, Write, server
<1>4. CASE Len(call.left) = 1 /\ call.id = 0
  <2>1. Return(Nothing)
    BY <1>4 DEF Write
  <2>2. Nothing \notin Sound
    BY DEF Nothing, Sound, Messages, Message
  <2>3. Answers' /\ CallSane' /\ (link' \in Handshake \cup {"up", "closing", "gone"}) /\ child' \in BOOLEAN
    BY <2>1, <2>2, ReturnKeeps
  <2>4. Bounds'
    BY <1>3, <2>3 DEF McpInv, Bounds, Write, server
  <2> QED BY <1>3, <2>3, <2>4 DEF McpInv
<1>5. CASE ~(Len(call.left) = 1 /\ call.id = 0)
  <2>1. call' = [call EXCEPT !.left = Tail(@), !.pc = IF Len(call.left) = 1 THEN "read" ELSE @]
    BY <1>5 DEF Write
  <2>2. Len(call.left) # 1 => Tail(call.left) # <<>>
    BY <1>1, HeadTail
  <2>3. /\ call.id \in 0 .. MaxCalls /\ call.of = call.id /\ call.got \in Seq(Sounds)
        /\ call \in CallRecords /\ call.pc = "write"
    BY DEF McpInv, CallSane, CallRecords, Write
  <2> DEFINE p == IF Len(call.left) = 1 THEN "read" ELSE "write"
  <2>4. p \in {"idle", "write", "read", "posted", "body"} /\ call' = [call EXCEPT !.left = Tail(call.left), !.pc = p]
    BY <2>1, <2>3
  <2>5. CallSane'
    <3>1. call' \in CallRecords /\ call'.id = call.id /\ call'.of = call.of /\ call'.pc = p /\ call'.left = Tail(call.left)
      <4> DEFINE l == Tail(call.left)
      <4>1. l \in Seq(Sounds) /\ call' = [call EXCEPT !.left = l, !.pc = p] /\ call \in CallRecords
        BY <1>2, <2>3, <2>4
      <4>2. p \in {"idle", "write", "read", "posted", "body"}
        OBVIOUS
      <4> HIDE DEF p, l
      <4>3. /\ call' \in CallRecords /\ call'.id = call.id /\ call'.of = call.of /\ call'.pc = p
            /\ call'.left = l
        BY ONLY <4>1, <4>2 DEF CallRecords
      <4> QED BY <4>3 DEF l
    <3>2. p = "read" => call.id > 0
      BY <1>5, <2>3
    <3>3. p = "write" => Tail(call.left) # <<>>
      BY <2>2
    <3>4. p = "read" \/ p = "write"
      OBVIOUS
    <3> HIDE DEF p
    <3>5. call'.id = call'.of /\ (call'.pc = "write" => call'.left # <<>>)
      BY <2>3, <3>1, <3>3
    <3>6. call'.pc \in {"read", "body"} => call'.id > 0
      BY <3>1, <3>2, <3>4
    <3> QED BY <3>1, <3>5, <3>6 DEF CallSane
  <2>6. Bounds'
    BY <1>3, <1>5 DEF McpInv, Bounds, Write, server
  <2>7. Answers'
    BY <1>5 DEF McpInv, Answers, OwnAnswer, Write
  <2> QED BY <1>3, <2>5, <2>6, <2>7 DEF McpInv
<1> QED BY <1>4, <1>5

LEMMA ReadKeeps == ASSUME McpInv, Read PROVE McpInv'
<1> USE Naturals
<1> DEFINE got == Append(call.got, Head(toClient))
<1>1. toClient \in Seq(Sounds) /\ toClient # <<>>
  BY DEF McpInv, OnlySound, Read
<1>2. Head(toClient) \in Sounds /\ Tail(toClient) \in Seq(Sounds) /\ Len(Tail(toClient)) = Len(toClient) - 1
  BY <1>1, HeadTail
<1>3. got \in Seq(Sounds) /\ Len(got) > 0
  BY <1>2 DEF McpInv, CallSane, CallRecords
<1>4. OnlySound' /\ Len(toClient') <= Pipe
  BY SMTT(30), <1>1, <1>2 DEF McpInv, OnlySound, Bounds, Read, server
<1>5. CASE Head(toClient).last /\ Whole(got) /\ Matches(got[1].of, call.id)
  <2>1. Return(got[1].of)
    BY <1>5 DEF Read
  <2>2. got[1].of \in Sound /\ got[1].of.id = call.id
    <3>1. got # <<>>
      BY <1>3
    <3>2. got[1].of \in Sound
      BY <1>3, <3>1, HeadTail
    <3> QED BY <1>5, <3>2 DEF Matches
  <2>3. Answers' /\ CallSane' /\ (link' \in Handshake \cup {"up", "closing", "gone"}) /\ child' \in BOOLEAN
    BY <2>1, <2>2, ReturnKeeps
  <2>4. Bounds'
    BY <1>4, <2>3 DEF McpInv, Bounds, Read, server
  <2> QED BY <1>4, <2>3, <2>4 DEF McpInv
<1>6. CASE ~(Head(toClient).last /\ Whole(got) /\ Matches(got[1].of, call.id))
  <2>1. call' = [call EXCEPT !.got = IF Head(toClient).last THEN <<>> ELSE got] /\ UNCHANGED <<link, given, child>>
    BY <1>6 DEF Read
  <2>2. CallSane'
    <3>1. /\ call.id \in 0 .. MaxCalls /\ call.of = call.id /\ call.left \in Seq(Sounds) /\ call.id > 0
          /\ call \in CallRecords /\ call.pc = "read"
      BY DEF McpInv, CallSane, CallRecords, Read
    <3>2. (IF Head(toClient).last THEN <<>> ELSE got) \in Seq(Sounds)
      BY <1>3
    <3>3. call' \in CallRecords /\ call'.id = call.id /\ call'.of = call.of /\ call'.pc = "read"
      <4> DEFINE g == IF Head(toClient).last THEN <<>> ELSE got
      <4>1. g \in Seq(Sounds) /\ call' = [call EXCEPT !.got = g]
        BY <2>1, <3>2
      <4> HIDE DEF g
      <4>2. call' \in CallRecords /\ call'.id = call.id /\ call'.of = call.of /\ call'.pc = call.pc
        BY <3>1, <4>1, CallReads
      <4> QED BY <3>1, <4>2
    <3> QED BY <3>1, <3>3 DEF CallSane
  <2>3. Bounds'
    BY <1>4, <2>1 DEF McpInv, Bounds, Read, server
  <2>4. Answers'
    BY <2>1 DEF McpInv, Answers, OwnAnswer
  <2> QED BY <1>4, <2>2, <2>3, <2>4 DEF McpInv
<1> QED BY <1>5, <1>6

LEMMA FailKeeps == ASSUME McpInv, Broken \/ Timeout PROVE McpInv'
<1>1. Return(Error) /\ UNCHANGED <<transport, nextId, made, sid, torn, pipes, server>>
  BY DEF Broken, Timeout
<1>2. Error \notin Sound
  BY DEF Error, Sound, Messages, Message
<1>3. sid' \in 0 .. MaxCalls /\ asks' \in 0 .. MaxAsks
  BY <1>1 DEF McpInv, Bounds, server
<1>4. UNCHANGED <<transport, nextId, made, torn, pipes, line, saying, heard>>
  BY <1>1 DEF server
<1> QED BY <1>1, <1>2, <1>3, <1>4, ReturningKeeps

LEMMA HeadersKeep == ASSUME McpInv, HttpHeaders PROVE McpInv'
<1> USE Naturals
<1>1. sid' \in 0 .. MaxCalls /\ asks' \in 0 .. MaxAsks
  BY DEF McpInv, Bounds, CallSane, CallRecords, HttpHeaders, server
<1>2. UNCHANGED <<transport, nextId, made, torn, pipes, line, saying, heard>>
  BY DEF HttpHeaders, server
<1>3. CASE Return(Nothing)
  <2>1. Nothing \notin Sound
    BY DEF Nothing, Sound, Messages, Message
  <2> QED BY <1>1, <1>2, <1>3, <2>1, ReturningKeeps
<1>4. CASE call.id > 0 /\ call' = [call EXCEPT !.pc = "body"] /\ UNCHANGED <<link, given, child>>
  <2>1. CallSane'
    BY <1>4 DEF McpInv, CallSane, CallRecords
  <2>2. Bounds'
    BY <1>1, <1>2, <1>4 DEF McpInv, Bounds, pipes
  <2>3. OnlySound'
    BY <1>2 DEF McpInv, OnlySound, pipes
  <2>4. Answers'
    BY <1>4 DEF McpInv, Answers, OwnAnswer
  <2> QED BY <2>1, <2>2, <2>3, <2>4 DEF McpInv
<1> QED BY <1>3, <1>4 DEF HttpHeaders

LEMMA BodyKeeps == ASSUME McpInv, HttpBody PROVE McpInv'
<1> USE Naturals
<1>1. call.id \in 1 .. MaxCalls /\ call.of = call.id
  BY DEF McpInv, CallSane, CallRecords, HttpBody
<1>2. PICK m \in {Error, Message("answer", call.id, call.of), Message("ask", call.id, 0)} : Return(m)
  BY DEF HttpBody
<1>3. m \in Sound \cup {Error} /\ Error \notin Sound /\ (m \in Sound => m.id = call.id)
  BY <1>1 DEF Sound, Messages, Message, Error, Ids, Calls
<1>4. UNCHANGED <<transport, nextId, made, torn, pipes, line, saying, heard>>
  BY DEF HttpBody
<1>5. sid' \in 0 .. MaxCalls /\ asks' \in 0 .. MaxAsks
  BY DEF McpInv, Bounds, HttpBody
<1> QED BY <1>2, <1>3, <1>4, <1>5, ReturningKeeps

\* The server only says of a request what it has read.
LEMMA SayKeeps ==
  ASSUME McpInv, NEW m \in Sound, Say(m), heard' \subseteq heard, asks' \in 0 .. MaxAsks
  PROVE  McpInv'
<1> USE Naturals
<1>1. Line(m)[1] \in Sounds
  BY LineSound
<1>2. OnlySound'
  BY <1>1 DEF McpInv, OnlySound, Say
<1>3. Bounds'
  BY <1>1 DEF McpInv, Bounds, OnlySound, Say, client
<1>4. CallSane'
  BY DEF McpInv, CallSane, CallRecords, Say, client
<1>5. Answers'
  BY DEF McpInv, Answers, OwnAnswer, Say, client
<1> QED BY <1>2, <1>3, <1>4, <1>5 DEF McpInv

LEMMA ServerKeeps ==
  ASSUME McpInv, Answer \/ Ask \/ Note
  PROVE  McpInv'
<1> USE Naturals
<1>1. CASE Answer
  <2>1. PICK m \in heard : Say([m EXCEPT !.kind = "answer"]) /\ heard' = heard \ {m} /\ UNCHANGED asks
    BY <1>1 DEF Answer
  <2>2. [m EXCEPT !.kind = "answer"] \in Sound
    BY SMTT(30), <2>1 DEF McpInv, OnlySound, Sound, Messages, Message
  <2> QED BY <2>1, <2>2, SayKeeps DEF McpInv, Bounds
<1>2. CASE Ask
  <2>1. PICK i \in Ids : Say(Message("ask", i, 0))
    BY <1>2 DEF Ask
  <2>2. Message("ask", i, 0) \in Sound
    BY DEF Sound, Messages, Message
  <2>3. heard' = heard /\ asks' \in 0 .. MaxAsks
    BY <1>2 DEF Ask, McpInv, Bounds
  <2> QED BY <2>1, <2>2, <2>3, SayKeeps
<1>3. CASE Note
  <2>1. Message("note", 0, 0) \in Sound
    BY DEF Sound, Messages, Message
  <2> QED BY <1>3, <2>1, SayKeeps DEF Note, McpInv, Bounds
<1> QED BY <1>1, <1>2, <1>3

LEMMA HearKeeps == ASSUME McpInv, Hear PROVE McpInv'
<1>1. Head(toServer) \in Sounds /\ Tail(toServer) \in Seq(Sounds) /\ Len(Tail(toServer)) = Len(toServer) - 1
  BY HeadTail DEF McpInv, OnlySound, Hear
<1>2. line' \in Seq(Sounds) /\ line' # <<>>
  BY <1>1 DEF McpInv, OnlySound, Hear
<1>3. line'[1].of \in Sound
  BY <1>2, HeadTail
<1>4. heard' \subseteq {m \in Sound : m.kind = "request"}
  BY <1>3 DEF McpInv, OnlySound, Hear
<1>5. OnlySound'
  BY <1>1, <1>2, <1>4 DEF McpInv, OnlySound, Hear
<1>6. Bounds'
  BY <1>1, Naturals DEF McpInv, Bounds, OnlySound, Hear, client
<1>7. CallSane' /\ Answers'
  BY DEF McpInv, CallSane, CallRecords, Answers, OwnAnswer, Hear, client
<1> QED BY <1>5, <1>6, <1>7 DEF McpInv

LEMMA SayRestKeeps == ASSUME McpInv, SayRest \/ Die PROVE McpInv'
<1> USE Naturals
<1>1. CASE SayRest
  <2>1. saying \in Sound
    BY <1>1 DEF McpInv, OnlySound, SayRest
  <2>2. Line(saying)[2] \in Sounds
    BY <2>1, LineSound
  <2>3. OnlySound'
    BY <1>1, <2>2 DEF McpInv, OnlySound, SayRest
  <2>4. Bounds'
    BY <1>1, <2>2 DEF McpInv, Bounds, OnlySound, SayRest, client
  <2>5. CallSane' /\ Answers'
    BY <1>1 DEF McpInv, CallSane, CallRecords, Answers, OwnAnswer, SayRest, client
  <2> QED BY <2>3, <2>4, <2>5 DEF McpInv
<1>2. CASE Die
  <2>1. OnlySound' /\ CallSane' /\ Answers'
    BY <1>2 DEF McpInv, OnlySound, CallSane, CallRecords, Answers, OwnAnswer, Die, client, pipes, server
  <2>2. Bounds'
    BY <1>2 DEF McpInv, Bounds, Die, client, pipes, server
  <2> QED BY <2>1, <2>2 DEF McpInv
<1> QED BY <1>1, <1>2

LEMMA McpKept == McpInv /\ [McpNext]_mcpVars => McpInv'
<1> SUFFICES ASSUME McpInv, [McpNext]_mcpVars PROVE McpInv'
  OBVIOUS
<1>1. CASE Begin BY <1>1, BeginKeeps
<1>2. CASE Drop BY <1>2, DropKeeps
<1>3. CASE TakeSession \/ Shutdown BY <1>3, CloseKeeps
<1>4. CASE Write BY <1>4, WriteKeeps
<1>5. CASE Read BY <1>5, ReadKeeps
<1>6. CASE Broken \/ Timeout BY <1>6, FailKeeps
<1>7. CASE HttpHeaders BY <1>7, HeadersKeep
<1>8. CASE HttpBody BY <1>8, BodyKeeps
<1>9. CASE Answer \/ Ask \/ Note BY <1>9, ServerKeeps
<1>10. CASE Hear BY <1>10, HearKeeps
<1>11. CASE SayRest \/ Die BY <1>11, SayRestKeeps
<1>12. CASE UNCHANGED mcpVars
  BY <1>12 DEF mcpVars, client, pipes, server, McpInv, OnlySound, CallSane, CallRecords, Bounds, Answers, OwnAnswer
<1> QED BY <1>1, <1>2, <1>3, <1>4, <1>5, <1>6, <1>7, <1>8, <1>9, <1>10, <1>11, <1>12 DEF McpNext

-----------------------------------------------------------------------------
LEMMA SoundsArePieces == Seq(Sounds) \subseteq Seq(Pieces)
<1>1. Sounds \subseteq Pieces
  BY DEF Sounds, Pieces, Sound
<1>2. ASSUME NEW s \in Seq(Sounds) PROVE s \in Seq(Pieces)
  <2>1. \A i \in 1 .. Len(s) : s[i] \in Pieces
    BY <1>1
  <2> QED BY <2>1
<1> QED BY <1>2

LEMMA McpInvTypes == McpInv => McpTypeOK
<1> SUFFICES ASSUME McpInv PROVE McpTypeOK
  OBVIOUS
<1> USE Naturals, SoundsArePieces
<1>1. Sound \subseteq Messages
  BY DEF Sound
<1>2. call \in [pc : {"idle", "write", "read", "posted", "body"}, id : 0 .. MaxCalls,
                of : 0 .. MaxCalls, left : Seq(Pieces), got : Seq(Pieces)]
  BY DEF McpInv, CallSane, CallRecords
<1>3. given \in [Calls -> Messages \cup {Error, Nothing}]
  BY <1>1 DEF McpInv, Answers
<1>4. {nextId, made + 1} \subseteq 1 .. MaxCalls + 1
  BY DEF McpInv, Bounds
<1> QED BY <1>1, <1>2, <1>3, <1>4 DEF McpTypeOK, McpInv, Bounds, OnlySound

\* The types of the connection, for any number of calls and any pipes.
THEOREM McpTypes == McpSpec => []McpTypeOK
<1>1. McpInit => McpInv BY McpAtFirst
<1>2. McpInv /\ [McpNext]_mcpVars => McpInv' BY McpKept
<1>3. McpInv => McpTypeOK BY McpInvTypes
<1> QED BY <1>1, <1>2, <1>3, PTL DEF McpSpec

\* A call gets the answer to its own request (McpSession::request), however late
\* the answers to those before it are, and whatever became of them.
THEOREM OwnAnswers == McpSpec => []OwnAnswer
<1>1. McpInit => McpInv BY McpAtFirst
<1>2. McpInv /\ [McpNext]_mcpVars => McpInv' BY McpKept
<1>3. McpInv => OwnAnswer BY DEF McpInv, Answers
<1> QED BY <1>1, <1>2, <1>3, PTL DEF McpSpec

-----------------------------------------------------------------------------
(***************************************************************************)
(* What a dropped write costs.  The pieces the server has not understood   *)
(* yet, those in its line, those in its pipe and those the call has still  *)
(* to write, are one stream in which every piece either ends a line, or is *)
(* followed by the rest of its own line, or belongs to a request that was  *)
(* dropped in the middle of its write.  The stream is looked at while the  *)
(* child lives; the line of a dead child stays as it is.                   *)
(***************************************************************************)
Closed(p)     == p.last \/ p.of.of \in torn
Follows(p, q) == Closed(p) \/ (p.of = q.of /\ q.last)

\* The last piece that was written.
Wrote == toServer # <<>> \/ line # <<>>
Tip   == IF toServer # <<>> THEN toServer[Len(toServer)] ELSE line[Len(line)]

LineWhole == \A i \in 1 .. Len(line) - 1 : ~line[i].last /\ Follows(line[i], line[i + 1])

\* What the call has still to write.  Only a handshake sends a notification, and
\* when that is dropped its child dies.
LeftWhole ==
  /\ call.pc # "write" => call.left = <<>>
  /\ call.pc = "write" => \/ Len(call.left) = 1 /\ call.left[1].last
                          \/ Len(call.left) = 2 /\ call.left[2].last /\ call.left[1].of = call.left[2].of
  /\ \A i \in 1 .. Len(call.left) : call.left[i].of.of = call.of
  /\ call.pc # "idle" /\ call.of = 0 => link = "initialized"

Seam ==
  /\ \A i \in 1 .. Len(toServer) - 1 : Follows(toServer[i], toServer[i + 1])
  /\ line # <<>> /\ toServer # <<>> => Follows(line[Len(line)], toServer[1])
  /\ Len(call.left) = 1 => Wrote /\ Tip.of = call.left[1].of
  /\ Len(call.left) # 1 /\ Wrote => Closed(Tip)

Stream == LineWhole /\ LeftWhole /\ (child => Seam)

\* The types of the stream, from the invariant above.
Pipes ==
  /\ toServer \in Seq(Sounds) /\ line \in Seq(Sounds)
  /\ call \in CallRecords /\ call.left \in Seq(Sounds) /\ made \in Nat

LEMMA InvPipes == McpInv => Pipes
BY Naturals DEF McpInv, OnlySound, CallSane, CallRecords, Bounds, Pipes

LEMMA StreamAtFirst == McpInit => Stream
BY DEF McpInit, Stream, LineWhole, LeftWhole, Seam, Wrote, Idle

\* A step of the server's output, or of the end of the connection.
LEMMA StreamStays ==
  ASSUME Pipes, Stream, UNCHANGED <<line, toServer, torn>>, child' => child,
         call' = call \/ (call.pc = "posted" /\ call' = [call EXCEPT !.pc = "body"]),
         link' = link \/ link = "up" \/ call = Idle
  PROVE  Stream'
<1>1. call'.left = call.left /\ call'.of = call.of /\ (call'.pc = "write" => call.pc = "write")
  BY DEF Pipes, CallRecords
<1>2. LeftWhole'
  <2>1. CASE call' = call
    BY <2>1 DEF Stream, LeftWhole, Idle
  <2>2. CASE call.pc = "posted" /\ call' = [call EXCEPT !.pc = "body"]
    <3>1. call'.pc = "body" /\ call # Idle
      BY <2>2 DEF Pipes, CallRecords, Idle
    <3> QED BY <1>1, <2>2, <3>1 DEF Stream, LeftWhole
  <2> QED BY <2>1, <2>2
<1>3. LineWhole'
  BY DEF Stream, LineWhole, Follows, Closed
<1>4. (child => Seam)'
  BY <1>1 DEF Stream, Seam, Follows, Closed, Wrote, Tip
<1> QED BY <1>2, <1>3, <1>4 DEF Stream

\* A call ends which has nothing to write, or whose child is dead.
LEMMA StreamReturns ==
  ASSUME Pipes, Stream, NEW m, Return(m), UNCHANGED <<line, toServer, torn>>, child => call.left = <<>>
  PROVE  Stream'
<1>1. call'.left = <<>> /\ call'.pc = "idle" /\ call'.of = 0
  BY DEF Return, Idle
<1>2. child' => child
  BY DEF Return, Gone
<1>3. LeftWhole'
  BY <1>1 DEF LeftWhole
<1>4. LineWhole'
  BY DEF Stream, LineWhole, Follows, Closed
<1>5. (child => Seam)'
  BY <1>1, <1>2 DEF Stream, Seam, Follows, Closed, Wrote, Tip
<1> QED BY <1>3, <1>4, <1>5 DEF Stream

\* What a call begins with.
LEMMA StartLeft ==
  ASSUME NEW i, NEW n, NEW m, m.of = n, Start(i, n, m)
  PROVE  /\ call'.of = n /\ call'.pc # "idle" /\ (call'.pc # "write" => call'.left = <<>>)
         /\ call'.pc = "write" => /\ Len(call'.left) = 2 /\ call'.left[2].last
                                  /\ call'.left[1].of = m /\ call'.left[2].of = m
         /\ Len(call'.left) # 1
<1>1. CASE transport = "stdio"
  <2>1. call' = [pc |-> "write", id |-> i, of |-> n, left |-> Line(m), got |-> <<>>]
    BY <1>1 DEF Start, Idle
  <2> QED BY <2>1 DEF Line
<1>2. CASE transport # "stdio"
  <2>1. call' = [pc |-> "posted", id |-> i, of |-> n, left |-> <<>>, got |-> <<>>]
    BY <1>2 DEF Start, Idle
  <2> QED BY <2>1
<1> QED BY <1>1, <1>2

LEMMA BeginStream == ASSUME Pipes, Stream, Begin PROVE Stream'
<1>1. call.left = <<>> /\ UNCHANGED <<line, toServer, torn, child, link>>
  BY DEF Begin, Free, Idle, pipes, server
<1>2. PICK i, n, m : Start(i, n, m) /\ m.of = n /\ (n = 0 => link = "initialized")
  <2>1. CASE link = "initialized"
    <3>1. Start(0, 0, Message("note", 0, 0))
      BY <2>1 DEF Begin
    <3> QED BY <2>1, <3>1 DEF Message
  <2>2. CASE link # "initialized"
    <3>1. Start(nextId, made', Message("request", nextId, made')) /\ made' = made + 1
      BY <2>2 DEF Begin
    <3>2. made' # 0
      BY <3>1 DEF Pipes
    <3> QED BY <3>1, <3>2 DEF Message
  <2> QED BY <2>1, <2>2
<1>3. /\ call'.of = n /\ call'.pc # "idle" /\ (call'.pc # "write" => call'.left = <<>>)
      /\ call'.pc = "write" => /\ Len(call'.left) = 2 /\ call'.left[2].last
                               /\ call'.left[1].of = m /\ call'.left[2].of = m
      /\ Len(call'.left) # 1
  BY <1>2, StartLeft
<1>4. LeftWhole'
  BY <1>1, <1>2, <1>3 DEF LeftWhole
<1>5. LineWhole'
  BY <1>1 DEF Stream, LineWhole, Follows, Closed
<1>6. (child => Seam)'
  BY <1>1, <1>3 DEF Stream, Seam, Follows, Closed, Wrote, Tip
<1> QED BY <1>4, <1>5, <1>6 DEF Stream

LEMMA DropStream == ASSUME Pipes, Stream, Drop PROVE Stream'
<1>1. call'.left = <<>> /\ call'.pc = "idle" /\ call'.of = 0 /\ UNCHANGED <<line, toServer>>
  BY DEF Drop, Idle, pipes, server
<1>2. torn \subseteq torn' /\ (Len(call.left) = 1 /\ call.of > 0 => call.of \in torn')
  BY DEF Drop
<1>3. child' => child /\ link \notin Handshake
  BY DEF Drop, Gone, Connecting
<1>4. LeftWhole'
  BY <1>1 DEF LeftWhole
<1>5. \A p, q : (Closed(p) => Closed(p)') /\ (Follows(p, q) => Follows(p, q)')
  BY <1>2 DEF Closed, Follows
<1>6. LineWhole'
  BY <1>1, <1>2 DEF Stream, LineWhole, Follows, Closed
<1>7. ASSUME child' PROVE Seam'
  <2>1. Seam /\ child
    BY <1>3, <1>7 DEF Stream
  <2>2. CASE Len(call.left) = 1
    <3>1. call.pc # "idle" /\ call.of # 0 /\ call.of \in 0 .. MaxCalls
      BY <1>3, <1>7, <2>2 DEF Stream, LeftWhole, Pipes, CallRecords, Handshake
    <3>2. call.of \in torn' /\ call.left[1].of.of = call.of
      BY <1>2, <2>2, <3>1, Naturals DEF Stream, LeftWhole
    <3>3. Tip.of.of \in torn'
      BY <2>1, <2>2, <3>2 DEF Seam
    <3>4. Closed(Tip)'
      BY <1>1, <3>3 DEF Closed, Tip
    <3> QED BY <1>1, <1>2, <2>1, <3>4 DEF Seam, Follows, Closed
  <2>3. CASE Len(call.left) # 1
    BY <1>1, <1>2, <2>1, <2>3 DEF Seam, Follows, Closed, Wrote, Tip
  <2> QED BY <2>2, <2>3
<1> QED BY <1>4, <1>6, <1>7 DEF Stream

\* A piece is written that follows the last one.
LEMMA WriteStream == ASSUME Pipes, Stream, Write PROVE Stream'
<1> DEFINE h == Head(call.left)
<1>1. /\ call.pc = "write" /\ child /\ toServer' = Append(toServer, h) /\ UNCHANGED <<line, torn>>
      /\ call.left # <<>> /\ h = call.left[1] /\ h \in Sounds
  BY DEF Write, Pipes, Stream, LeftWhole, server
<1>2. Seam
  BY <1>1 DEF Stream
<1>3. Wrote => Follows(Tip, h)
  <2>1. CASE Len(call.left) = 1
    BY <1>1, <1>2, <2>1 DEF Stream, LeftWhole, Seam, Follows
  <2>2. CASE Len(call.left) # 1
    BY <1>2, <2>2 DEF Seam, Follows
  <2> QED BY <2>1, <2>2
<1>4. /\ toServer' # <<>> /\ Len(toServer') = Len(toServer) + 1 /\ toServer'[Len(toServer')] = h
      /\ \A i \in 1 .. Len(toServer) : toServer'[i] = toServer[i]
      /\ Len(toServer) \in Nat
  BY <1>1 DEF Pipes
<1>5. LineWhole'
  BY <1>1 DEF Stream, LineWhole, Follows, Closed
<1>6. \A i \in 1 .. Len(toServer') - 1 : Follows(toServer'[i], toServer'[i + 1])
  <2> SUFFICES ASSUME NEW i \in 1 .. Len(toServer') - 1 PROVE Follows(toServer'[i], toServer'[i + 1])
    OBVIOUS
  <2>1. CASE i = Len(toServer)
    <3>1. toServer # <<>> /\ Tip = toServer[i]
      BY <1>4, <2>1 DEF Tip
    <3> QED BY <1>3, <1>4, <2>1, <3>1 DEF Wrote
  <2>2. CASE i # Len(toServer)
    BY <1>2, <1>4, <2>2 DEF Seam
  <2> QED BY <2>1, <2>2
<1>7. line # <<>> => Follows(line[Len(line)], toServer'[1])
  <2>1. CASE toServer = <<>>
    BY <1>3, <1>4, <2>1 DEF Wrote, Tip
  <2>2. CASE toServer # <<>>
    BY <1>2, <1>4, <2>2 DEF Seam, Pipes
  <2> QED BY <2>1, <2>2
<1>8. Wrote' /\ Tip' = h
  BY <1>4 DEF Wrote, Tip
<1>9. CASE Len(call.left) = 1
  <2>1. call'.left = <<>> /\ call'.pc # "write"
    <3>1. CASE call.id = 0
      BY <1>9, <3>1 DEF Write, Return, Idle
    <3>2. CASE call.id # 0
      <4>1. call' = [call EXCEPT !.left = Tail(@), !.pc = "read"]
        BY <1>9, <3>2 DEF Write
      <4>2. Tail(call.left) = <<>>
        BY <1>9, TailOfOne DEF Pipes
      <4>3. call'.left = Tail(call.left) /\ call'.pc = "read"
        BY <4>1 DEF Pipes, CallRecords
      <4> QED BY <4>2, <4>3
    <3> QED BY <3>1, <3>2
  <2>2. LeftWhole'
    <3>1. CASE call.id = 0
      BY <1>9, <2>1, <3>1 DEF Write, Return, Idle, LeftWhole
    <3>2. CASE call.id # 0
      <4>1. call' = [call EXCEPT !.left = Tail(@), !.pc = "read"] /\ UNCHANGED link
        BY <1>9, <3>2 DEF Write
      <4>2. call'.of = call.of
        BY <4>1 DEF Pipes, CallRecords
      <4> QED BY <1>1, <2>1, <4>1, <4>2 DEF Stream, LeftWhole
    <3> QED BY <3>1, <3>2
  <2>3. h.last
    BY <1>1, <1>9 DEF Stream, LeftWhole
  <2>4. Seam'
    BY <1>1, <1>4, <1>6, <1>7, <1>8, <2>1, <2>3 DEF Seam, Follows, Closed
  <2> QED BY <1>5, <2>2, <2>4 DEF Stream
<1>10. CASE Len(call.left) # 1
  <2>1. call' = [call EXCEPT !.left = Tail(@), !.pc = "write"] /\ UNCHANGED <<link, child>>
    BY <1>1, <1>10 DEF Write, Pipes, CallRecords
  <2>2. call'.left = Tail(call.left) /\ call'.pc = "write" /\ call'.of = call.of
    BY <2>1 DEF Pipes, CallRecords
  <2>3. Len(call.left) = 2 /\ call.left[2].last /\ call.left[1].of = call.left[2].of
    BY <1>1, <1>10 DEF Stream, LeftWhole
  <2>4. Len(call'.left) = 1 /\ call'.left[1] = call.left[2]
    BY <2>2, <2>3 DEF Pipes
  <2>5. LeftWhole'
    BY <1>1, <2>1, <2>2, <2>3, <2>4 DEF Stream, LeftWhole
  <2>6. Seam'
    BY <1>1, <1>4, <1>6, <1>7, <1>8, <2>3, <2>4 DEF Seam, Follows, Closed
  <2> QED BY <1>5, <2>5, <2>6 DEF Stream
<1> QED BY <1>9, <1>10

\* The first piece of the pipe goes to the line.
LEMMA HearStream == ASSUME Pipes, Stream, Hear PROVE Stream'
<1> DEFINE h == Head(toServer)
<1>1. /\ child /\ toServer # <<>> /\ toServer' = Tail(toServer) /\ h \in Sounds /\ h = toServer[1]
      /\ UNCHANGED <<call, link, torn, child>>
  BY DEF Hear, Pipes, client
<1>2. /\ Len(toServer') = Len(toServer) - 1 /\ Len(toServer) \in Nat \ {0}
      /\ \A i \in 1 .. Len(toServer') : toServer'[i] = toServer[i + 1]
  BY <1>1 DEF Pipes
<1>3. Seam /\ LineWhole
  BY <1>1 DEF Stream
<1>4. LineWhole' /\ line' # <<>> /\ line'[Len(line')] = h
  <2>1. CASE line # <<>> /\ Last(line).last
    <3>1. line' = <<h>>
      BY <2>1 DEF Hear
    <3> QED BY <3>1 DEF LineWhole
  <2>2. CASE ~(line # <<>> /\ Last(line).last)
    <3>1. line' = Append(line, h)
      BY <2>2 DEF Hear
    <3>2. /\ Len(line') = Len(line) + 1 /\ line'[Len(line')] = h /\ Len(line) \in Nat
          /\ \A i \in 1 .. Len(line) : line'[i] = line[i]
      BY <1>1, <3>1 DEF Pipes
    <3>3. ASSUME NEW i \in 1 .. Len(line') - 1
          PROVE  ~line'[i].last /\ Follows(line'[i], line'[i + 1])
      <4>1. CASE i = Len(line)
        <5>1. line # <<>> /\ ~line[i].last
          BY <2>2, <3>2, <3>3, <4>1 DEF Last, Pipes
        <5> QED BY <1>1, <1>3, <3>2, <4>1, <5>1 DEF Seam, Follows, Closed
      <4>2. CASE i # Len(line)
        BY <1>1, <1>3, <3>2, <4>2 DEF LineWhole, Follows, Closed
      <4> QED BY <4>1, <4>2
    <3> QED BY <1>1, <3>2, <3>3 DEF LineWhole, Follows, Closed
  <2> QED BY <2>1, <2>2
<1>5. Wrote' /\ Wrote /\ Tip' = Tip
  <2>1. Wrote' /\ Wrote
    BY <1>1, <1>4 DEF Wrote
  <2>2. CASE Len(toServer) = 1
    <3>1. toServer' = <<>>
      BY <1>1, <2>2, TailOfOne DEF Pipes
    <3> QED BY <1>1, <1>4, <2>1, <2>2, <3>1 DEF Tip
  <2>3. CASE Len(toServer) # 1
    <3>1. toServer' # <<>>
      BY <1>2, <2>3
    <3>2. toServer'[Len(toServer')] = toServer[Len(toServer)]
      BY <1>2, <2>3
    <3> QED BY <1>1, <2>1, <3>1, <3>2 DEF Tip
  <2> QED BY <2>2, <2>3
<1>6. Seam'
  BY <1>1, <1>2, <1>3, <1>4, <1>5 DEF Seam, Follows, Closed
<1>7. LeftWhole'
  BY <1>1 DEF Stream, LeftWhole
<1> QED BY <1>4, <1>6, <1>7 DEF Stream

LEMMA StreamKept == Pipes /\ Stream /\ [McpNext]_mcpVars => Stream'
<1> SUFFICES ASSUME Pipes, Stream, [McpNext]_mcpVars PROVE Stream'
  OBVIOUS
<1>1. CASE Begin BY <1>1, BeginStream
<1>2. CASE Drop BY <1>2, DropStream
<1>3. CASE TakeSession BY <1>3, StreamStays DEF TakeSession, pipes, server
<1>4. CASE Shutdown BY <1>4, StreamStays DEF Shutdown, Gone, pipes, server
<1>5. CASE Write BY <1>5, WriteStream
<1>6. CASE Read
  <2>1. call.left = <<>> /\ UNCHANGED <<line, toServer, torn>>
    BY <1>6 DEF Read, Stream, LeftWhole, server
  <2>2. CASE \E m : Return(m)
    BY <2>1, <2>2, StreamReturns
  <2>3. CASE UNCHANGED <<link, child>> /\ \E g : call' = [call EXCEPT !.got = g]
    <3>1. call'.left = <<>> /\ call'.pc = call.pc /\ call'.of = call.of
      BY <2>1, <2>3 DEF Pipes, CallRecords
    <3>2. LeftWhole'
      BY <2>1, <2>3, <3>1 DEF Stream, LeftWhole
    <3> QED BY <2>1, <2>3, <3>1, <3>2 DEF Stream, LineWhole, Seam, Follows, Closed, Wrote, Tip
  <2> QED BY <1>6, <2>2, <2>3 DEF Read
<1>7. CASE Broken
  BY <1>7, StreamReturns DEF Broken, pipes, server
<1>8. CASE Timeout
  BY <1>8, StreamReturns DEF Timeout, Stream, LeftWhole, pipes, server
<1>9. CASE HttpHeaders
  <2>1. call.pc = "posted" /\ call.left = <<>> /\ UNCHANGED <<line, toServer, torn>>
    BY <1>9 DEF HttpHeaders, Stream, LeftWhole, pipes, server
  <2>2. CASE Return(Nothing)
    BY <2>1, <2>2, StreamReturns
  <2>3. CASE call' = [call EXCEPT !.pc = "body"] /\ UNCHANGED <<link, given, child>>
    BY <2>1, <2>3, StreamStays
  <2> QED BY <1>9, <2>2, <2>3 DEF HttpHeaders
<1>10. CASE HttpBody
  <2>1. call.left = <<>> /\ UNCHANGED <<line, toServer, torn>> /\ \E m : Return(m)
    BY <1>10 DEF HttpBody, Stream, LeftWhole, pipes
  <2> QED BY <2>1, StreamReturns
<1>11. CASE Hear BY <1>11, HearStream
<1>12. CASE Answer \/ Ask \/ Note
  <2>1. PICK m : Say(m)
    BY <1>12 DEF Answer, Ask, Note
  <2> QED BY <2>1, StreamStays DEF Say, client
<1>13. CASE SayRest \/ Die
  BY <1>13, StreamStays DEF SayRest, Die, client, pipes, server
<1>14. CASE UNCHANGED mcpVars
  BY <1>14, StreamStays DEF mcpVars, client, pipes, server
<1> QED BY <1>1, <1>2, <1>3, <1>4, <1>5, <1>6, <1>7, <1>8, <1>9, <1>10, <1>11, <1>12, <1>13, <1>14 DEF McpNext

\* Two pieces of one line that are of different messages: the first is followed
\* by a piece that is not of its line either, or it was the last but one.
LEMMA StreamTears == Pipes /\ Stream => LostOnlyByATear
<1> SUFFICES ASSUME Pipes, Stream, NEW j \in DOMAIN line, NEW k \in DOMAIN line,
                    j < k, line[j].of # line[k].of
             PROVE  line[j].of.of \in torn
  BY DEF LostOnlyByATear
<1>1. j \in 1 .. Len(line) /\ k \in 1 .. Len(line) /\ Len(line) \in Nat
  BY DEF Pipes
<1>2. ~line[j].last /\ Follows(line[j], line[j + 1])
  BY <1>1 DEF Stream, LineWhole
<1>3. CASE line[j].of = line[j + 1].of /\ line[j + 1].last
  <2>1. j + 1 = Len(line)
    BY <1>1, <1>3 DEF Stream, LineWhole
  <2> QED BY <1>1, <1>3, <2>1
<1> QED BY <1>2, <1>3 DEF Follows, Closed

\* A request is lost in another's line only if that one was dropped in the middle
\* of its write (write_message under the mutex of McpSession): a dropped caller
\* costs the next line its meaning, and never a later one.
THEOREM TearsAlone == McpSpec => []LostOnlyByATear
<1>1. McpInit => McpInv /\ Stream BY McpAtFirst, StreamAtFirst
<1>2. McpInv /\ Stream /\ [McpNext]_mcpVars => (McpInv /\ Stream)' BY McpKept, StreamKept, InvPipes
<1>3. McpInv /\ Stream => LostOnlyByATear BY InvPipes, StreamTears
<1> QED BY <1>1, <1>2, <1>3, PTL DEF McpSpec
=============================================================================
