------------------------------ MODULE TurnGate ------------------------------
(***************************************************************************)
(* The multi-driver turn gate of one baesrv session.                       *)
(*                                                                         *)
(* Several client keys ("drivers") call session.sendMessage and            *)
(* session.compact on the same session.  A per-session FIFO mutex (the     *)
(* turn gate) serialises them.  A turn that asks for a client-side tool    *)
(* pauses: the HTTP call ends, but the mutex guard is parked in            *)
(* AppState.pending_turns until the owner comes back with the results, or  *)
(* until somebody arrives after the deadline.                              *)
(*                                                                         *)
(* A request r \in Reqs is one RPC call, from authentication to its        *)
(* terminal frame.  Each is made at most once, so r also names the         *)
(* tool_use message its turn may persist.  A refused call (not             *)
(* registered, session not open, bad params) changes nothing and is left   *)
(* out: its slot stays "idle".                                             *)
(***************************************************************************)
EXTENDS Integers

CONSTANTS
  Clients,      \* client keys that may register as drivers of the session
  Reqs,         \* RPC calls, each made at most once
  Closers,      \* close requests: DELETE /sessions/{id}, or a key revocation
  None,         \* "no message", "nothing parked", "no tool results", ...
  Disconnects,  \* BOOLEAN: may a caller drop its connection mid-turn?
  MaxRestarts   \* bound on server restarts

\* PendingTurn: the owner, the parked guard (named by its mutex), the tool_use
\* message that waits for results, and whether the deadline has passed.
Pause == [owner: Clients, gate: Nat, call: Reqs, expired: BOOLEAN]

\* A paused turn taken over by a request, and whether on a timeout.
Claim == [call: Reqs, timedOut: BOOLEAN]

\* What an RPC call carries.  answers = q stands for tool_result blocks that
\* answer exactly the tool_use ids of q's paused message (for a q that never
\* paused: ids nobody issued); None for content without tool_result blocks.
Message == [method: {"send", "compact"}, client: Clients, answers: Reqs \cup {None}]

ASSUME NoneAssumption == None \notin Reqs \cup Pause \cup Claim \cup Message

ASSUME BoundsAssumption == Disconnects \in BOOLEAN /\ MaxRestarts \in Nat

VARIABLES
  sess,        \* sessions.state of the row in SQLite
  tail,        \* the newest replayed message of the session's event log
  drivers,     \* AppState.drivers
  registering, \* clients whose registerDriver passed its state check
  gateEntry,   \* AppState.turn_gates: the current mutex, 0 if absent
  gates,       \* mutexes created so far, numbered 1 .. gates
  pending,     \* AppState.pending_turns
  msg,         \* what each request asked for
  pc,          \* how far each request got
  gate,        \* the mutex each request waits for or holds
  ticket,      \* place in the FIFO wait queue of that mutex
  lastTicket,  \* tickets handed out so far
  claim,       \* the paused turn each request took over
  closing,     \* how far each close request got
  restarts     \* restarts so far

vars == <<sess, tail, drivers, registering, gateEntry, gates, pending, msg, pc,
          gate, ticket, lastTicket, claim, closing, restarts>>

-----------------------------------------------------------------------------
(* The newest replayed message: a user message, a user message that        *)
(* answers a tool_use message, an assistant message (also a compaction     *)
(* summary), an assistant message with unanswered client tool_use blocks.  *)

Newest == [kind: {"none", "user", "answer", "assistant", "toolUse"},
         call: Reqs \cup {None}]

NoMessage        == [kind |-> "none", call |-> None]
UserMessage      == [kind |-> "user", call |-> None]
AssistantMessage == [kind |-> "assistant", call |-> None]
AnswerTo(q)      == [kind |-> "answer", call |-> q]
ToolUse(r)       == [kind |-> "toolUse", call |-> r]

\* Requests that own a mutex guard.  Working is the part after the session was
\* re-read as open, when the request drives the session.
Holding(r) == pc[r] \in {"entered", "admitted", "turn", "paused"}
Working(r) == pc[r] \in {"admitted", "turn", "paused"}

\* Wrong on purpose: a request that returns keeps its guard.
LockedForGood(g) == \/ \E r \in Reqs : (Holding(r) \/ pc[r] = "done") /\ gate[r] = g
                    \/ pending # None /\ pending.gate = g

\* The mutex g is locked: by a request, or by a guard parked in pending_turns.
Locked(g) == \/ \E r \in Reqs : Holding(r) /\ gate[r] = g
             \/ pending # None /\ pending.gate = g

\* Wrong on purpose: an UPDATE without the WHERE clause.
CloseAnySession(state) == state

\* close_session: UPDATE ... WHERE state = 'open'.
CloseSession(state) == IF sess = "open" THEN state ELSE sess

TypeOK ==
  /\ sess \in {"open", "closed", "error"}
  /\ tail \in Newest
  /\ drivers \subseteq Clients
  /\ registering \subseteq Clients
  /\ gates \in Nat
  /\ gateEntry \in 0 .. gates
  /\ pending \in Pause \cup {None}
  /\ msg \in [Reqs -> Message \cup {None}]
  /\ pc \in [Reqs -> {"idle", "accepted", "enqueuing", "polling", "queued",
                      "entered", "admitted", "turn", "paused", "done", "gone"}]
  /\ gate \in [Reqs -> Nat]
  /\ ticket \in [Reqs -> Nat]
  /\ lastTicket \in Nat
  /\ claim \in [Reqs -> Claim \cup {None}]
  /\ closing \in [Closers -> {"idle", "drivers", "gate", "pending", "done"}]
  /\ restarts \in 0 .. MaxRestarts

Init ==
  /\ sess = "open" /\ tail = NoMessage
  /\ drivers = {} /\ registering = {}
  /\ gateEntry = 0 /\ gates = 0
  /\ pending = None
  /\ msg = [r \in Reqs |-> None]
  /\ pc = [r \in Reqs |-> "idle"]
  /\ gate = [r \in Reqs |-> 0]
  /\ ticket = [r \in Reqs |-> 0]
  /\ lastTicket = 0
  /\ claim = [r \in Reqs |-> None]
  /\ closing = [d \in Closers |-> "idle"]
  /\ restarts = 0

-----------------------------------------------------------------------------
(* session.registerDriver: the state check reads the record of the         *)
(* authentication, the registration follows on another lock.  A repeated   *)
(* registration changes nothing.                                           *)

RegisterDriver(c) ==
  /\ sess = "open" /\ c \notin drivers \cup registering
  /\ registering' = registering \cup {c}
  /\ UNCHANGED <<sess, tail, drivers, gateEntry, gates, pending, msg, pc, gate,
                 ticket, lastTicket, claim, closing, restarts>>

InsertDriver(c) ==
  /\ c \in registering
  /\ registering' = registering \ {c}
  /\ drivers' = drivers \cup {c}
  /\ UNCHANGED <<sess, tail, gateEntry, gates, pending, msg, pc, gate, ticket,
                 lastTicket, claim, closing, restarts>>

-----------------------------------------------------------------------------
(* Admission of an RPC call, up to the gate.                               *)

\* Authentication, the registration check and the (stale) state check.
Accept(r, m) ==
  /\ pc[r] = "idle"
  /\ m.client \in drivers /\ sess = "open"
  /\ m.method = "compact" => m.answers = None
  /\ msg' = [msg EXCEPT ![r] = m]
  /\ pc' = [pc EXCEPT ![r] = "accepted"]
  /\ UNCHANGED <<sess, tail, drivers, registering, gateEntry, gates, pending,
                 gate, ticket, lastTicket, claim, closing, restarts>>

Sending(r)    == msg[r] # None /\ msg[r].method = "send"
Compacting(r) == msg[r] # None /\ msg[r].method = "compact"

\* Wrong on purpose: any driver resumes; any driver retires without a deadline.
AnyoneResumes(r) == pending # None /\ Sending(r)
AnytimeRetires(r) == pending # None /\ ~(Sending(r) /\ pending.owner = msg[r].client)

\* claim_pending_turn: whose paused turn may r remove from pending_turns?  The
\* owner of a pause resumes it even past the deadline, but only a message does.
MayResume(r)  == pending # None /\ Sending(r) /\ pending.owner = msg[r].client
MayRetire(r)  == pending # None /\ ~MayResume(r) /\ pending.expired
MustQueue(r)  == ~MayResume(r) /\ ~MayRetire(r)

\* Taking a pause over moves the parked guard to r, whatever queue it is in.
TakeOver(r, timedOut) ==
  /\ claim' = [claim EXCEPT ![r] = [call |-> pending.call, timedOut |-> timedOut]]
  /\ gate' = [gate EXCEPT ![r] = pending.gate]
  /\ pc' = [pc EXCEPT ![r] = "entered"]
  /\ pending' = None

\* turn_gates.entry(..).or_default(): the mutex r will wait for.
OpenGate(r) ==
  /\ gates' = IF gateEntry = 0 THEN gates + 1 ELSE gates
  /\ gateEntry' = IF gateEntry = 0 THEN gates + 1 ELSE gateEntry
  /\ gate' = [gate EXCEPT ![r] = gateEntry']

\* A message that may not take over a pause queues on the gate; between the
\* look at pending_turns and the queue other tasks run.
ClaimPause(r) ==
  /\ pc[r] = "accepted" /\ Sending(r)
  /\ \/ MayResume(r) /\ TakeOver(r, FALSE)
     \/ MayRetire(r) /\ TakeOver(r, TRUE)
     \/ /\ MustQueue(r)
        /\ pc' = [pc EXCEPT ![r] = "enqueuing"]
        /\ UNCHANGED <<pending, gate, claim>>
  /\ UNCHANGED <<sess, tail, drivers, registering, gateEntry, gates, msg,
                 ticket, lastTicket, closing, restarts>>

Enqueue(r) ==
  /\ pc[r] = "enqueuing"
  /\ OpenGate(r)
  /\ lastTicket' = lastTicket + 1
  /\ ticket' = [ticket EXCEPT ![r] = lastTicket']
  /\ pc' = [pc EXCEPT ![r] = "queued"]
  /\ UNCHANGED <<sess, tail, drivers, registering, pending, msg, claim, closing,
                 restarts>>

\* tokio's Mutex grants lock_owned() in the order of the calls.
Grant(r) ==
  /\ pc[r] = "queued"
  /\ ~Locked(gate[r])
  /\ \A q \in Reqs : pc[q] = "queued" /\ gate[q] = gate[r] => ticket[r] <= ticket[q]
  /\ pc' = [pc EXCEPT ![r] = "entered"]
  /\ UNCHANGED <<sess, tail, drivers, registering, gateEntry, gates, pending,
                 msg, gate, ticket, lastTicket, claim, closing, restarts>>

\* session.compact looks at pending_turns before it waits and every 100 ms
\* while it waits; it fails at a live pause and takes over an expired one.
StartCompact(r) ==
  /\ pc[r] = "accepted" /\ Compacting(r)
  /\ OpenGate(r)
  /\ pc' = [pc EXCEPT ![r] = "polling"]
  /\ UNCHANGED <<sess, tail, drivers, registering, pending, msg, ticket,
                 lastTicket, claim, closing, restarts>>

\* Wrong on purpose: pending_turns is looked at only before waiting.
PollPauseOnce(r) ==
  /\ Compacting(r) /\ pc[r] = "polling"
  /\ \/ MayRetire(r) /\ TakeOver(r, TRUE) /\ UNCHANGED <<ticket, lastTicket>>
     \/ /\ pending # None /\ ~pending.expired
        /\ pc' = [pc EXCEPT ![r] = "done"]
        /\ UNCHANGED <<pending, gate, claim, ticket, lastTicket>>
     \/ /\ pending = None
        /\ pc' = [pc EXCEPT ![r] = "queued"]
        /\ lastTicket' = lastTicket + 1
        /\ ticket' = [ticket EXCEPT ![r] = lastTicket']
        /\ UNCHANGED <<pending, gate, claim>>
  /\ UNCHANGED <<sess, tail, drivers, registering, gateEntry, gates, msg,
                 closing, restarts>>

PollPause(r) ==
  /\ Compacting(r)
  /\ \/ /\ pc[r] \in {"polling", "queued"} /\ MayRetire(r)
        /\ TakeOver(r, TRUE)
        /\ UNCHANGED <<ticket, lastTicket>>
     \/ /\ pc[r] \in {"polling", "queued"} /\ pending # None /\ ~pending.expired
        /\ pc' = [pc EXCEPT ![r] = "done"]
        /\ UNCHANGED <<pending, gate, claim, ticket, lastTicket>>
     \/ /\ pc[r] = "polling" /\ pending = None
        /\ pc' = [pc EXCEPT ![r] = "queued"]
        /\ lastTicket' = lastTicket + 1
        /\ ticket' = [ticket EXCEPT ![r] = lastTicket']
        /\ UNCHANGED <<pending, gate, claim>>
  /\ UNCHANGED <<sess, tail, drivers, registering, gateEntry, gates, msg,
                 closing, restarts>>

-----------------------------------------------------------------------------
(* What a request does with the guard in hand.  The guard is released by   *)
(* pc' = "done", unless the turn parks it.                                 *)

\* Wrong on purpose: the record read at authentication is used.
ReadStaleSession(r) ==
  /\ pc[r] = "entered"
  /\ pc' = [pc EXCEPT ![r] = "admitted"]
  /\ UNCHANGED <<sess, tail, drivers, registering, gateEntry, gates, pending,
                 msg, gate, ticket, lastTicket, claim, closing, restarts>>

\* The session is re-read: a queued request must not drive a terminal one.
ReadSession(r) ==
  /\ pc[r] = "entered"
  /\ pc' = [pc EXCEPT ![r] = IF sess = "open" THEN "admitted" ELSE "done"]
  /\ UNCHANGED <<sess, tail, drivers, registering, gateEntry, gates, pending,
                 msg, gate, ticket, lastTicket, claim, closing, restarts>>

\* merge_tool_results / cancel_abandoned_tool_uses, against the newest
\* assistant message: a resumed turn needs results for exactly its tool_use
\* ids, or a plain message, for which error results are synthesised; the one
\* who retires a timed-out turn may only bring a plain message.
Merges(r) ==
  /\ tail.kind = "toolUse"
  /\ \/ msg[r].answers = None
     \/ msg[r].answers = tail.call /\ ~claim[r].timedOut

\* Wrong on purpose: results that nobody waits for are taken for a message.
RecordAnything(r) ==
  /\ pc[r] = "admitted" /\ Sending(r)
  /\ \/ claim[r] = None /\ tail' = UserMessage /\ pc' = [pc EXCEPT ![r] = "turn"] /\ UNCHANGED sess
     \/ claim[r] # None /\ Merges(r) /\ tail' = AnswerTo(tail.call)
        /\ pc' = [pc EXCEPT ![r] = "turn"] /\ UNCHANGED sess
     \/ claim[r] # None /\ ~Merges(r) /\ sess' = CloseSession("error")
        /\ pc' = [pc EXCEPT ![r] = "done"] /\ UNCHANGED tail
  /\ UNCHANGED <<drivers, registering, gateEntry, gates, pending, msg, gate,
                 ticket, lastTicket, claim, closing, restarts>>

RecordMessage(r) ==
  /\ pc[r] = "admitted" /\ Sending(r)
  /\ \/ /\ claim[r] = None /\ msg[r].answers = None
        /\ tail' = UserMessage
        /\ pc' = [pc EXCEPT ![r] = "turn"]
        /\ UNCHANGED sess
     \/ /\ claim[r] = None /\ msg[r].answers # None
        /\ pc' = [pc EXCEPT ![r] = "done"]
        /\ UNCHANGED <<sess, tail>>
     \/ /\ claim[r] # None /\ Merges(r)
        /\ tail' = AnswerTo(tail.call)
        /\ pc' = [pc EXCEPT ![r] = "turn"]
        /\ UNCHANGED sess
     \/ /\ claim[r] # None /\ ~Merges(r)
        /\ sess' = CloseSession("error")
        /\ pc' = [pc EXCEPT ![r] = "done"]
        /\ UNCHANGED tail
  /\ UNCHANGED <<drivers, registering, gateEntry, gates, pending, msg, gate,
                 ticket, lastTicket, claim, closing, restarts>>

\* run_turn.  Its provider calls, retries and server-side tool rounds change
\* none of this module's state; what counts is how it ends: with a final
\* assistant message (then perhaps a compaction, whose newest message is the
\* summary), with client tool calls, or in error (profile gone, no provider,
\* all providers failed, loop limit).
RunTurn(r) ==
  /\ pc[r] = "turn"
  /\ \/ /\ tail' = AssistantMessage
        /\ pc' = [pc EXCEPT ![r] = "done"]
        /\ UNCHANGED sess
     \/ /\ tail' = ToolUse(r)
        /\ pc' = [pc EXCEPT ![r] = "paused"]
        /\ UNCHANGED sess
     \/ /\ sess' = CloseSession("error")
        /\ pc' = [pc EXCEPT ![r] = "done"]
        /\ UNCHANGED tail
  /\ UNCHANGED <<drivers, registering, gateEntry, gates, pending, msg, gate,
                 ticket, lastTicket, claim, closing, restarts>>

\* Wrong on purpose: a paused turn releases the gate.
ParkNothing(r) ==
  /\ pc[r] = "paused"
  /\ pc' = [pc EXCEPT ![r] = "done"]
  /\ UNCHANGED <<sess, tail, drivers, registering, gateEntry, gates, pending,
                 msg, gate, ticket, lastTicket, claim, closing, restarts>>

\* The paused turn's guard moves to pending_turns; the terminal frame follows.
Park(r) ==
  /\ pc[r] = "paused"
  /\ pending' = [owner |-> msg[r].client, gate |-> gate[r], call |-> r, expired |-> FALSE]
  /\ pc' = [pc EXCEPT ![r] = "done"]
  /\ UNCHANGED <<sess, tail, drivers, registering, gateEntry, gates, msg, gate,
                 ticket, lastTicket, claim, closing, restarts>>

\* compact_under_gate: retire a timed-out pause with synthetic results, then
\* run the compaction, which adds its records in one transaction or none.
Compact(r) ==
  /\ pc[r] = "admitted" /\ Compacting(r)
  /\ \/ /\ claim[r] # None /\ tail.kind = "toolUse"
        /\ tail' = AnswerTo(tail.call)
        /\ claim' = [claim EXCEPT ![r] = None]
        /\ UNCHANGED <<sess, pc>>
     \/ /\ claim[r] # None /\ tail.kind # "toolUse"
        /\ sess' = CloseSession("error")
        /\ pc' = [pc EXCEPT ![r] = "done"]
        /\ UNCHANGED <<tail, claim>>
     \/ /\ claim[r] = None
        /\ tail' \in {tail, AssistantMessage}
        /\ pc' = [pc EXCEPT ![r] = "done"]
        /\ UNCHANGED <<sess, claim>>
  /\ UNCHANGED <<drivers, registering, gateEntry, gates, pending, msg, gate,
                 ticket, lastTicket, closing, restarts>>

-----------------------------------------------------------------------------
(* Closing the session, from either close path; the runtime maps are       *)
(* cleared one lock after the other (remove_session_runtime).              *)

StartClose(d) ==
  /\ closing[d] = "idle"
  /\ sess' = CloseSession("closed")
  /\ closing' = [closing EXCEPT ![d] = "drivers"]
  /\ UNCHANGED <<tail, drivers, registering, gateEntry, gates, pending, msg, pc,
                 gate, ticket, lastTicket, claim, restarts>>

RemoveRuntime(d) ==
  /\ \/ /\ closing[d] = "drivers"
        /\ drivers' = {}
        /\ closing' = [closing EXCEPT ![d] = "gate"]
        /\ UNCHANGED <<gateEntry, pending>>
     \/ /\ closing[d] = "gate"
        /\ gateEntry' = 0
        /\ closing' = [closing EXCEPT ![d] = "pending"]
        /\ UNCHANGED <<drivers, pending>>
     \/ /\ closing[d] = "pending"
        /\ pending' = None
        /\ closing' = [closing EXCEPT ![d] = "done"]
        /\ UNCHANGED <<drivers, gateEntry>>
  /\ UNCHANGED <<sess, tail, registering, gates, msg, pc, gate, ticket,
                 lastTicket, claim, restarts>>

-----------------------------------------------------------------------------
(* The environment.                                                        *)

\* BAE_TURN_TIMEOUT passes.
Expire ==
  /\ pending # None /\ ~pending.expired
  /\ pending' = [pending EXCEPT !.expired = TRUE]
  /\ UNCHANGED <<sess, tail, drivers, registering, gateEntry, gates, msg, pc,
                 gate, ticket, lastTicket, claim, closing, restarts>>

\* A caller that cannot take an event frame (gone, or lagging behind the feed)
\* ends its call, which drops the turn and the guard where they are.
Disconnect(r) ==
  /\ Disconnects /\ pc[r] \in {"turn", "paused"}
  /\ pc' = [pc EXCEPT ![r] = "gone"]
  /\ UNCHANGED <<sess, tail, drivers, registering, gateEntry, gates, pending,
                 msg, gate, ticket, lastTicket, claim, closing, restarts>>

\* A restart keeps SQLite and loses AppState and every task.
Restart ==
  /\ restarts < MaxRestarts
  /\ restarts' = restarts + 1
  /\ drivers' = {} /\ registering' = {} /\ gateEntry' = 0 /\ pending' = None
  /\ pc' = [r \in Reqs |-> IF pc[r] = "idle" THEN "idle" ELSE "done"]
  /\ claim' = [r \in Reqs |-> None]
  /\ closing' = [d \in Closers |-> IF closing[d] = "idle" THEN "idle" ELSE "done"]
  /\ UNCHANGED <<sess, tail, gates, msg, gate, ticket, lastTicket>>

-----------------------------------------------------------------------------
ServerStep(r) ==
  \/ ClaimPause(r) \/ Enqueue(r) \/ Grant(r) \/ StartCompact(r) \/ PollPause(r)
  \/ ReadSession(r) \/ RecordMessage(r) \/ RunTurn(r) \/ Park(r) \/ Compact(r)

Next ==
  \/ \E c \in Clients : RegisterDriver(c) \/ InsertDriver(c)
  \/ \E r \in Reqs : \E m \in Message : Accept(r, m)
  \/ \E r \in Reqs : ServerStep(r) \/ Disconnect(r)
  \/ \E d \in Closers : StartClose(d) \/ RemoveRuntime(d)
  \/ Expire
  \/ Restart

(***************************************************************************)
(* The server runs every task it has started, the clock moves on, and a    *)
(* provider call returns.  Nobody has to call, to resume a pause, to close *)
(* the session, to disconnect or to crash.                                 *)
(***************************************************************************)
Fairness ==
  /\ \A r \in Reqs : WF_vars(ServerStep(r))
  /\ \A d \in Closers : WF_vars(RemoveRuntime(d))
  /\ \A c \in Clients : WF_vars(InsertDriver(c))
  /\ WF_vars(Expire)

Spec == Init /\ [][Next]_vars /\ Fairness

-----------------------------------------------------------------------------
(***************************************************************************)
(* What the gate promises.                                                 *)
(***************************************************************************)

\* A request that carries a logical turn: it drives the session, or it took a
\* paused turn over and has yet to find out whether it may.
Engaged(r) == Working(r) \/ (Holding(r) /\ claim[r] # None)

\* At most one logical turn exists per session, where a turn that waits for
\* its owner's tool results counts: no message or compaction of anybody runs
\* beside it, not even when a close drops the mutex and a late request gets a
\* new one (remove_session_runtime, turn_gate, and the re-read of the session).
OneLogicalTurn ==
  /\ \A r, q \in Reqs : Engaged(r) /\ Engaged(q) => r = q
  /\ pending # None => \A r \in Reqs : ~Engaged(r)

\* The call q has not lost its caller in mid-turn, nor the server its memory.
Undisturbed(q) == restarts = 0 /\ pc[q] # "gone"

\* As long as the session is open, a persisted tool_use message is somebody's
\* business: its turn is about to park it, it is parked under the client that
\* got it, or a request of that client (or, after the deadline, of anybody)
\* has taken it over and will answer it.  Only a caller that left while that
\* very turn ran, or a restart, leaves it to nobody.
ToolUseAccounted ==
  sess = "open" /\ tail.kind = "toolUse" /\ Undisturbed(tail.call) =>
    \/ pc[tail.call] = "paused"
    \/ /\ pending # None /\ pending.call = tail.call
       /\ pending.owner = msg[tail.call].client
    \/ \E r \in Reqs :
         /\ Holding(r) /\ claim[r] # None /\ claim[r].call = tail.call
         /\ claim[r].timedOut \/ (msg[r].client = msg[tail.call].client)

\* The replayed log is one a provider accepts: the message after a tool_use
\* message answers it, unless its caller left during that turn or the server
\* was restarted; and, whatever happened, tool results never follow anything
\* but the tool_use message they answer (drive_send_message merges, cancels or
\* rejects before it records).
AnsweredInPlace ==
  [][/\ tail.kind = "toolUse" /\ Undisturbed(tail.call) => tail' = AnswerTo(tail.call)
     /\ tail'.kind = "answer" => tail = ToolUse(tail'.call)]_tail

\* A session that ended stays as it ended: a turn that fails while a DELETE
\* closes the session, or the other way round, does not overwrite the outcome
\* (close_session's WHERE clause).
TerminalIsFinal == [][sess # "open" => sess' = sess]_sess

\* The logical turn that TurnOwnership speaks of.
LogicalTurn ==
  IF \E r \in Reqs : Engaged(r)
    THEN [phase |-> "running", lapsed |-> FALSE,
          owner |-> msg[CHOOSE r \in Reqs : Engaged(r)].client]
  ELSE IF pending # None
    THEN [phase |-> "paused", owner |-> pending.owner, lapsed |-> pending.expired]
  ELSE None

Ownership == INSTANCE TurnOwnership WITH turn <- LogicalTurn

ASSUME TurnAssumption == None \notin Ownership!Turn

\* The gate, its queue and pending_turns together implement the ownership of
\* logical turns, through closes, disconnects and restarts.
ImplementsOwnership == Ownership!Spec
=============================================================================
