------------------------------- MODULE Bridge -------------------------------
(***************************************************************************)
(* The observer bridge of bae-max: browsers (viewers) watch one session    *)
(* through one stream that the bridge holds to the server.                 *)
(*                                                                         *)
(* A viewer's socket is attached to the session's state object at once;    *)
(* its set-up (initDownstream) then reads the history, sees to it that the *)
(* stream is started, and turns the socket live.  The set-up goes on       *)
(* whatever becomes of the socket, and of the object: the map from session *)
(* to object may hold another one, or none, by then.  An object is named   *)
(* by the viewer it was made for, an event by its place in the log.        *)
(*                                                                         *)
(* JavaScript runs one of these steps at a time; between two of them come  *)
(* the answers of the server, the events of its streams, and the sockets'. *)
(***************************************************************************)
EXTENDS Integers, FiniteSets, SequencesExt

CONSTANTS
  Viewers,    \* sockets, each of which connects once
  None,
  MaxLog,     \* bound on the events of the session, but its join and its close
  MaxStreams, \* bound on the streams at a time
  MaxLags,    \* bound on the streams that fall behind
  MaxFaults   \* bound on the requests and streams that fail

ASSUME BridgeAssumption ==
  /\ None \notin Viewers \cup Nat
  /\ {MaxLog, MaxStreams, MaxLags, MaxFaults} \subseteq Nat /\ MaxLog > 0

VARIABLES
  open,      \* the session is open
  log,       \* its events
  view,      \* each viewer: its set-up and its socket
  state,     \* each SessionState object
  entry,     \* sessions.get(id): the object of the session now
  stream,    \* the streams to the server
  observer,  \* the profile's observer key
  join,      \* inflightJoins and sessionKeys: the session key
  joined,    \* history: the session.join events,
  unheard,   \* and those whose answer was lost
  forsaken,  \* history: objects that lost their last viewer before they had started
  lags, faults

session == <<open, log>>
keys    == <<observer, join, joined, unheard>>
bounds  == <<lags, faults>>
vars    == <<session, view, state, entry, stream, keys, forsaken, bounds>>

Streams == 1 .. MaxStreams
\* The bound, the close, and the joins, of which a fault can lose the answer.
LastEvent == MaxLog + MaxFaults + 2
Events    == 1 .. LastEvent

NoView   == [pc |-> "off", of |-> None, hist |-> 0, got |-> <<>>, pending |-> <<>>,
             socket |-> "none", told |-> "no"]
NoState  == [mode |-> "none", start |-> "none", since |-> 0, last |-> 0, ended |-> "no",
             viewers |-> {}, handle |-> None]
NoStream == [pc |-> "none", of |-> None, at |-> 0, late |-> FALSE]

\* A stream that is asked for, or flows; late: it was registered after the close.
Up == {x \in Streams : stream[x].pc # "none"}

TypeOK ==
  /\ open \in BOOLEAN /\ log \in Events
  /\ view \in [Viewers ->
       [pc : {"off", "history", "wait", "live", "over"}, of : Viewers \cup {None},
        hist : 0 .. LastEvent, got : Seq(Events), pending : Seq(Events),
        socket : {"none", "open", "closing", "closed"}, told : {"no", "closed", "error"}]]
  /\ state \in [Viewers ->
       [mode : {"none", "pending", "live", "terminal"},
        start : {"none", "scan", "mint", "join", "open", "done", "failed"},
        since : 0 .. LastEvent, last : 0 .. LastEvent, ended : {"no", "closed", "error"},
        viewers : SUBSET Viewers, handle : Streams \cup {None}]]
  /\ entry \in Viewers \cup {None}
  /\ stream \in [Streams -> [pc : {"none", "asked", "flowing"}, of : Viewers \cup {None},
                            at : 0 .. LastEvent, late : BOOLEAN]]
  /\ observer \in {"none", "asked", "minted"}
  /\ join \in {"none", "asked", "granted", "refused", "failed", "cached"}
  /\ unheard \in 0 .. MaxFaults /\ joined \in 0 .. MaxFaults + 1
  /\ forsaken \subseteq Viewers /\ lags \in 0 .. MaxLags /\ faults \in 0 .. MaxFaults

Init ==
  /\ open = TRUE /\ log = 1
  /\ view = [v \in Viewers |-> NoView] /\ state = [s \in Viewers |-> NoState]
  /\ entry = None /\ stream = [x \in Streams |-> NoStream]
  /\ observer = "none" /\ join = "none" /\ joined = 0 /\ unheard = 0
  /\ forsaken = {} /\ lags = 0 /\ faults = 0

Fails == faults < MaxFaults /\ faults' = faults + 1 /\ UNCHANGED lags

-----------------------------------------------------------------------------
(* The server: the session's log, and its streams.                         *)

Commit ==
  /\ open /\ log < MaxLog /\ log' = log + 1
  /\ UNCHANGED <<open, view, state, entry, stream, keys, forsaken, bounds>>

Close ==
  /\ open /\ open' = FALSE /\ log' = log + 1
  /\ UNCHANGED <<view, state, entry, stream, keys, forsaken, bounds>>

\* session.subscribe looks at no session's state: after the close it makes a
\* channel that nobody closes.
Register(x) ==
  /\ stream[x].pc = "asked"
  /\ stream' = [stream EXCEPT ![x].pc = "flowing", ![x].late = ~open]
  /\ UNCHANGED <<session, view, state, entry, keys, forsaken, bounds>>

-----------------------------------------------------------------------------
(* The sockets.                                                            *)

\* send: nothing goes to a socket that is closing.
Sent(w, e) == IF w.socket = "open" THEN [w EXCEPT !.got = Append(@, e)] ELSE w
Tell(w, why) ==
  IF w.socket = "open" THEN [w EXCEPT !.told = why, !.socket = "closing"] ELSE w

CloseStream(x, all) == IF x = None THEN all ELSE [all EXCEPT ![x] = NoStream]

\* removeDownstream: v is taken from the object that the map holds now, and
\* with its last viewer that object is torn down.
RemoveDownstream(v) ==
  LET last == entry # None /\ state[entry].viewers \subseteq {v}
  IN  /\ state' = IF entry = None THEN state
                   ELSE [state EXCEPT ![entry].viewers = @ \ {v},
                                      ![entry].handle = IF last THEN None ELSE @]
      /\ entry' = IF last THEN None ELSE entry
      /\ stream' = IF last THEN CloseStream(state[entry].handle, stream) ELSE stream
      /\ forsaken' = IF last /\ state[entry].start \notin {"done", "failed"}
                       THEN forsaken \cup {entry} ELSE forsaken

\* handleConnection.
Connect(v) ==
  LET s == IF entry = None THEN v ELSE entry
  IN  /\ view[v].pc = "off"
      /\ view' = [view EXCEPT ![v] = [NoView EXCEPT !.pc = "history", !.of = s, !.socket = "open"]]
      /\ state' = [state EXCEPT ![s].mode = IF entry = None THEN "pending" ELSE @,
                               ![s].viewers = @ \cup {v}]
      /\ entry' = s
      /\ UNCHANGED <<session, stream, keys, forsaken, bounds>>

\* The browser goes, or has closed a socket that the bridge is closing.
SocketClosed(v) ==
  /\ view[v].socket \in {"open", "closing"}
  /\ view' = [view EXCEPT ![v].socket = "closed", ![v].pending = <<>>]
  /\ RemoveDownstream(v)
  /\ UNCHANGED <<session, keys, bounds>>

-----------------------------------------------------------------------------
(* initDownstream.                                                         *)

\* The last page of the history is read,
ReadHistory(v) ==
  /\ view[v].pc = "history" /\ view[v].hist = 0
  /\ view' = [view EXCEPT ![v].hist = log]
  /\ UNCHANGED <<session, state, entry, stream, keys, forsaken, bounds>>

\* Wrong on purpose: every viewer starts a stream.
Unstarted(s) == state[s].mode # "terminal"

\* ensureUpstream: the first to get here starts the stream.
MustStart(s) == state[s].mode = "pending" /\ state[s].start = "none"

\* and sent.
SendHistory(v) ==
  LET s == view[v].of
      w == [view[v] EXCEPT !.pc = "wait"]
  IN  /\ view[v].pc = "history" /\ view[v].hist > 0
      /\ view' = [view EXCEPT ![v] =
           IF w.socket = "open" THEN [w EXCEPT !.got = [i \in 1 .. w.hist |-> i]] ELSE w]
      /\ state' = IF MustStart(s) THEN [state EXCEPT ![s].start = "scan", ![s].since = w.hist]
                                  ELSE state
      /\ UNCHANGED <<session, entry, stream, keys, forsaken, bounds>>

\* An error anywhere in the set-up.
GiveUp(v) ==
  /\ view' = [view EXCEPT ![v] = [Tell(@, "error") EXCEPT !.pc = "over"]]
  /\ RemoveDownstream(v)
  /\ UNCHANGED <<session, keys>>

HistoryFails(v) == view[v].pc = "history" /\ Fails /\ GiveUp(v)

\* The start failed, for all who wait for it and all who come later.
StartFailed(v) ==
  /\ view[v].pc = "wait" /\ state[view[v].of].start = "failed" /\ GiveUp(v)
  /\ UNCHANGED bounds

\* Wrong on purpose: what came meanwhile is sent as it came.
FlushAll(w) == [w EXCEPT !.got = IF w.socket = "open" THEN @ \o w.pending ELSE @, !.pending = <<>>]

\* flushPending: what was sent before is skipped; n, of what is pending, are done.
Flush(w) ==
  LET sent[n \in 0 .. Len(w.pending)] ==
        IF n = 0 THEN w.got
        ELSE IF w.pending[n] \in ToSet(sent[n - 1]) THEN sent[n - 1]
             ELSE Append(sent[n - 1], w.pending[n])
  IN  [w EXCEPT !.got = IF w.socket = "open" THEN sent[Len(w.pending)] ELSE @, !.pending = <<>>]

\* Wrong on purpose: only a session that had ended before is looked for.
EndedBefore(s) == state[s].mode = "terminal"

\* The viewer's session is known to have ended, or its stream has.
Ended(s) == state[s].mode = "terminal" \/ state[s].ended # "no"

GoLive(v) ==
  LET s == view[v].of
      w == [Flush(view[v]) EXCEPT !.pc = "live"]
      why == IF state[s].ended = "no" THEN "closed" ELSE state[s].ended
  IN  /\ view[v].pc = "wait" /\ state[s].mode # "pending"
      /\ IF Ended(s)
           THEN view' = [view EXCEPT ![v] = Tell(w, why)] /\ RemoveDownstream(v)
           ELSE view' = [view EXCEPT ![v] = w] /\ UNCHANGED <<state, entry, stream, forsaken>>
      /\ UNCHANGED <<session, keys, bounds>>

-----------------------------------------------------------------------------
(* startUpstream: the profile, the observer key, the session key, the      *)
(* stream.  Each answer serves all the objects that wait for it.           *)

Waiting(stage) == {s \in Viewers : state[s].start = stage}
Terminal(s)    == [state[s] EXCEPT !.start = "done", !.mode = "terminal"]

\* All that wait at one stage go on as they do in by.
Released(stage, by) == [s \in Viewers |-> IF s \in Waiting(stage) THEN by[s] ELSE state[s]]
Moved(next)         == [s \in Viewers |-> [state[s] EXCEPT !.start = next]]

Failed(s)      == [state[s] EXCEPT !.start = "failed"]

\* isSessionClosed: an error whose text has a 409 in it is taken for the
\* answer that the session is closed; the text quotes the ids.
ErrorRead(stage) ==
  \E closed \in BOOLEAN :
    state' = Released(stage, [s \in Viewers |-> IF closed THEN Terminal(s) ELSE Failed(s)])

\* Wrong on purpose: a join under way is not waited for.
JoinAnyway == "asked"

\* getSessionKey: the cached key, or the join under way, or a new one.
KeyStage == IF join = "cached" THEN "open" ELSE "join"
JoinSent == IF join = "none" THEN "asked" ELSE join

\* resolveSession: the session's state is the one of the viewer's hint, which
\* may be old, or of the list; with a cached profile and no hint, none.
Resolve(s) ==
  /\ state[s].start = "scan"
  /\ \/ /\ state' = [state EXCEPT ![s].start = IF observer = "minted" THEN KeyStage ELSE "mint"]
        /\ observer' = IF observer = "none" THEN "asked" ELSE observer
        /\ join' = IF observer = "minted" THEN JoinSent ELSE join
        /\ UNCHANGED bounds
     \/ ~open /\ state' = [state EXCEPT ![s] = Terminal(s)] /\ UNCHANGED <<observer, join, bounds>>
     \/ Fails /\ state' = [state EXCEPT ![s].start = "failed"] /\ UNCHANGED <<observer, join>>
  /\ UNCHANGED <<session, view, entry, stream, joined, unheard, forsaken>>

\* observerKey: a mint that failed is forgotten.
MintAnswered ==
  /\ observer = "asked"
  /\ \/ /\ observer' = "minted" /\ state' = Released("mint", Moved(KeyStage)) /\ join' = JoinSent
        /\ UNCHANGED bounds
     \/ /\ Fails /\ observer' = "none" /\ ErrorRead("mint")
        /\ UNCHANGED join
  /\ UNCHANGED <<session, view, entry, stream, joined, unheard, forsaken>>

\* The server joins the bridge to an open session, and logs that: the key
\* reaches the bridge, or is lost on the way.
Join ==
  /\ open /\ log' = log + 1 /\ joined' = joined + 1
  /\ \/ join' = "granted" /\ UNCHANGED <<unheard, bounds>>
     \/ Fails /\ join' = "failed" /\ unheard' = unheard + 1

\* It does, or answers 409, or fails.
JoinServed ==
  /\ join = "asked"
  /\ \/ Join
     \/ ~open /\ join' = "refused" /\ UNCHANGED <<log, joined, unheard, bounds>>
     \/ Fails /\ join' = "failed" /\ UNCHANGED <<log, joined, unheard>>
  /\ UNCHANGED <<open, view, state, entry, stream, observer, forsaken>>

\* The key is kept; a 409 makes the session a terminal one; a join that failed
\* is forgotten.
JoinAnswered ==
  /\ \/ join = "granted" /\ join' = "cached" /\ state' = Released("join", Moved("open"))
     \/ join = "refused" /\ join' = "none"
        /\ state' = Released("join", [s \in Viewers |-> Terminal(s)])
     \/ join = "failed" /\ join' = "none" /\ ErrorRead("join")
  /\ UNCHANGED <<session, view, entry, stream, observer, joined, unheard, forsaken, bounds>>

\* openStream, after the streams in all.
OpenStream(s, since, all) ==
  \E x \in Streams :
    /\ all[x] = NoStream /\ \A y \in 1 .. x - 1 : all[y] # NoStream
    /\ stream' = [all EXCEPT ![x] = [NoStream EXCEPT !.pc = "asked", !.of = s, !.at = since]]
    /\ state' = [state EXCEPT ![s].mode = "live", ![s].start = "done", ![s].last = since,
                             ![s].handle = x]

StartStream(s) ==
  /\ state[s].start = "open" /\ OpenStream(s, state[s].since, stream)
  /\ UNCHANGED <<session, view, entry, keys, forsaken, bounds>>

-----------------------------------------------------------------------------
(* The handlers of a stream.                                               *)

Flowing(x) == stream[x].pc = "flowing"

\* onEvent, fanout: sent to the live, kept for the others.
Deliver(x) ==
  LET s == stream[x].of
      e == stream[x].at + 1
      To(v) == IF view[v].socket # "open" \/ v \notin state[s].viewers THEN view[v]
               ELSE IF view[v].pc # "live" THEN [view[v] EXCEPT !.pending = Append(@, e)]
               ELSE IF e \in ToSet(view[v].got) THEN view[v] ELSE Sent(view[v], e)
  IN  /\ Flowing(x) /\ e <= log
      /\ view' = [v \in Viewers |-> To(v)]
      /\ state' = [state EXCEPT ![s].last = e]
      /\ stream' = [stream EXCEPT ![x].at = e]
      /\ UNCHANGED <<session, entry, keys, forsaken, bounds>>

\* onLagged: the server ended a stream that was too slow for it.
Lagged(x) ==
  LET s == stream[x].of
  IN  /\ Flowing(x) /\ stream[x].at < log /\ lags < MaxLags /\ lags' = lags + 1
      /\ OpenStream(s, state[s].last, CloseStream(state[s].handle, CloseStream(x, stream)))
      /\ UNCHANGED <<session, view, entry, keys, forsaken, faults>>

\* endSession: the live viewers are told; the others find out.  The map
\* forgets the session, whichever object it holds.
EndSession(x, why) ==
  LET s == stream[x].of
      gone == CloseStream(x, stream)
  IN  IF state[s].ended # "no" THEN stream' = gone /\ UNCHANGED <<view, state, entry>>
      ELSE /\ view' = [v \in Viewers |-> IF v \in state[s].viewers /\ view[v].pc = "live"
                                           THEN Tell(view[v], why) ELSE view[v]]
           /\ state' = [state EXCEPT ![s].ended = why, ![s].handle = None]
           /\ stream' = CloseStream(state[s].handle, gone) /\ entry' = None

\* onEnd: the close ends a stream that was there before it; before the close,
\* another client's session.unsubscribe does, or a replay that fails.
StreamEnds(x) ==
  /\ Flowing(x)
  /\ \/ ~open /\ ~stream[x].late /\ UNCHANGED bounds
     \/ Fails
  /\ EndSession(x, "closed")
  /\ UNCHANGED <<session, keys, forsaken>>

\* onError.
StreamBreaks(x) ==
  /\ x \in Up /\ Fails /\ EndSession(x, "error")
  /\ UNCHANGED <<session, keys, forsaken>>

-----------------------------------------------------------------------------
\* What follows a settled promise runs before anything from outside is looked
\* at; what the server does meanwhile, it may as well do afterwards.
Settled(v) == state[view[v].of].mode # "pending" \/ state[view[v].of].start = "failed"
Quiet      == Waiting("open") = {} /\ ~\E v \in Viewers : view[v].pc = "wait" /\ Settled(v)

Continue   == \/ \E s \in Viewers : StartStream(s)
              \/ \E v \in Viewers : StartFailed(v) \/ GoLive(v)
History(v) == ReadHistory(v) \/ SendHistory(v)
Answer     == (\E s \in Viewers : Resolve(s)) \/ MintAnswered \/ JoinServed \/ JoinAnswered
Closing(v) == view[v].socket = "closing" /\ SocketClosed(v)

Next ==
  \/ Continue
  \/ /\ Quiet
     /\ \/ Commit \/ Close \/ Answer
        \/ \E v \in Viewers : Connect(v) \/ SocketClosed(v) \/ History(v) \/ HistoryFails(v)
        \/ \E x \in Streams : Register(x) \/ Deliver(x) \/ Lagged(x) \/ StreamEnds(x) \/ StreamBreaks(x)

\* The server answers, and ends the streams of a session that was closed; a
\* closing socket closes.
Fairness ==
  /\ WF_vars(Continue) /\ WF_vars(Answer)
  /\ \A v \in Viewers : WF_vars(History(v)) /\ WF_vars(Closing(v))
  /\ \A x \in Streams : WF_vars(Register(x)) /\ WF_vars(StreamEnds(x))

Spec == Init /\ [][Next]_vars /\ Fairness

-----------------------------------------------------------------------------
(***************************************************************************)
(* What the bridge promises.                                               *)
(***************************************************************************)

\* A viewer gets no event twice and none before an older one, through the
\* history, what was kept while it was loaded, the stream, and the stream that
\* replaces one that lagged.  It has every event up to the stream's position,
\* unless the stream it shares was started from a later history than its own.
FollowsTheLog ==
  \A v \in Viewers :
    LET w == view[v]  s == state[view[v].of]
    IN  /\ \A i, j \in 1 .. Len(w.got) : i < j => w.got[i] < w.got[j]
        /\ w.pc = "live" /\ w.socket = "open" /\ s.since <= w.hist
             => ToSet(w.got) = 1 .. (IF s.last > w.hist THEN s.last ELSE w.hist)

\* One stream to the server, that of the object in the map, however viewers
\* come and go and the stream is replaced; but an object whose last viewer left
\* before it had started opens its stream all the same.
OneUpstream ==
  forsaken = {} => \A x \in Up : stream[x].of = entry /\ \A y \in Up : x = y

\* The session is joined once in the life of the bridge, however many viewers
\* ask at a time, leave, and come again; and once more for each join that the
\* server did and whose answer was lost.
JoinsOnce == joined <= 1 + unheard

\* The viewers of a session that was closed are told that it ended, and let go:
\* those in the middle of their set-up, those of an object the map has
\* forgotten, too.  A stream that was registered after the close does not end.
ToldOfEnd ==
  \A v \in Viewers :
    []<>(open \/ view[v].socket # "open"
           \/ \E x \in Up : stream[x].of = view[v].of /\ stream[x].late)
=============================================================================
