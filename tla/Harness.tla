------------------------------- MODULE Harness -------------------------------
(***************************************************************************)
(* The sessions of client SDKs over the turn gate: each client key has one *)
(* Session object, which drives the tool loop of send, compacts and closes.*)
(*                                                                         *)
(* A Session runs one call at a time.  send posts a message, waits for the *)
(* terminal frame, runs the tool calls it asks for one after the other and *)
(* posts their results, until a frame asks for none.  The first failure -  *)
(* of a hook, of a tool, of the stream, a refusal - ends the send and      *)
(* leaves the server's turn where it is.  The program may also drop the    *)
(* call at any of its waits, and send again.                               *)
(***************************************************************************)
EXTENDS TurnGate, FiniteSets

CONSTANTS
  MaxCalls, \* bound on the tool calls of one message
  MaxFails  \* bound on the calls that fail by themselves, or are dropped

ASSUME HarnessAssumption ==
  /\ Reqs \subseteq Nat /\ Closers \subseteq Clients
  /\ MaxCalls \in Nat \ {0} /\ MaxFails \in Nat

VARIABLES
  session, \* what each Session object is doing
  fails,   \* calls that failed by themselves so far
  brought, \* history: the tool_use messages answered by the results of a Session
  vouched  \* history: those that belong to a send that returned a final message

sdk  == <<session, fails, brought, vouched>>
gateVars == vars
allVars  == <<vars, sdk>>

\* Where a call is, the request it waits for and what the terminal frame said,
\* the tool calls still to run, and the tool_use messages of this send.
Doing == [at: {"unborn", "connect", "idle", "send", "tools", "compact", "close", "over"},
          req: Reqs \cup {None}, said: {"nothing", "final", "tools", "error"},
          left: 0 .. MaxCalls, trail: SUBSET Reqs]

Unborn == [at |-> "unborn", req |-> None, said |-> "nothing", left |-> 0, trail |-> {}]
Idle   == [Unborn EXCEPT !.at = "idle"]

HarnessTypeOK ==
  /\ TypeOK
  /\ session \in [Clients -> Doing]
  /\ fails \in 0 .. MaxFails /\ brought \subseteq Reqs /\ vouched \subseteq Reqs

HarnessInit ==
  /\ Init
  /\ session = [c \in Clients |-> Unborn]
  /\ fails = 0 /\ brought = {} /\ vouched = {}

-----------------------------------------------------------------------------
(* The calls.                                                              *)

Waiting(c, r) == session[c].at \in {"send", "compact"} /\ session[c].req = r

\* Requests are bounded: one is kept for each Session that has results to post.
Unused == {r \in Reqs : pc[r] = "idle"}
Owing  == {c \in Clients : \/ session[c].at = "tools" \/ session[c].said = "tools"
                           \/ \E r \in Reqs : Waiting(c, r) /\ pc[r] = "paused"}
Spare  == Unused # {} /\ Cardinality(Unused) > Cardinality(Owing)
Fresh  == CHOOSE r \in Unused : \A q \in Unused : r <= q

\* connect and join register the driver before they return.
Connect(c) ==
  /\ session[c].at = "unborn" /\ RegisterDriver(c)
  /\ session' = [session EXCEPT ![c].at = "connect"] /\ UNCHANGED <<fails, brought, vouched>>

Connected(c) ==
  /\ session[c].at = "connect" /\ InsertDriver(c)
  /\ session' = [session EXCEPT ![c] = Idle] /\ UNCHANGED <<fails, brought, vouched>>

Send(c) ==
  /\ session[c].at = "idle" /\ Spare
  /\ Accept(Fresh, [method |-> "send", client |-> c, answers |-> None])
  /\ session' = [session EXCEPT ![c].at = "send", ![c].req = Fresh]
  /\ UNCHANGED <<fails, brought, vouched>>

CallCompact(c) ==
  /\ session[c].at = "idle" /\ Spare
  /\ Accept(Fresh, [method |-> "compact", client |-> c, answers |-> None])
  /\ session' = [session EXCEPT ![c].at = "compact", ![c].req = Fresh]
  /\ UNCHANGED <<fails, brought, vouched>>

CallClose(c) ==
  /\ session[c].at = "idle" /\ c \in Closers /\ StartClose(c)
  /\ session' = [session EXCEPT ![c].at = "close"] /\ UNCHANGED <<fails, brought, vouched>>

Closed(c) ==
  /\ session[c].at = "close" /\ closing[c] = "done"
  /\ session' = [session EXCEPT ![c].at = "over"] /\ UNCHANGED <<gateVars, fails, brought, vouched>>

\* run_iteration: the terminal frame is the final message, asks for tools, or
\* is an error; or the stream ends without one.
Hear(c) ==
  \E r \in Reqs :
    /\ Waiting(c, r)
    /\ \/ session[c].said = "final" /\ vouched' = vouched \cup session[c].trail
          /\ session' = [session EXCEPT ![c] = Idle]
       \/ session[c].said = "tools" /\ UNCHANGED vouched
          /\ \E n \in 1 .. MaxCalls :
               session' = [session EXCEPT ![c] = [Idle EXCEPT !.at = "tools", !.req = r, !.left = n,
                                                              !.trail = session[c].trail \cup {r}]]
       \/ (session[c].said = "error" \/ pc[r] = "gone") /\ UNCHANGED vouched
          /\ session' = [session EXCEPT ![c] = Idle]
    /\ UNCHANGED <<gateVars, fails, brought>>

\* dispatch_tool: one call after the other, with the hooks around it.
RunTool(c) ==
  /\ session[c].at = "tools" /\ session[c].left > 0
  /\ session' = [session EXCEPT ![c].left = @ - 1]
  /\ UNCHANGED <<gateVars, fails, brought, vouched>>

\* The results are the next message; the server may refuse it by now.
Results(c) ==
  /\ session[c].at = "tools" /\ session[c].left = 0
  /\ IF c \in drivers /\ sess = "open"
       THEN /\ Unused # {}
            /\ Accept(Fresh, [method |-> "send", client |-> c, answers |-> session[c].req])
            /\ session' = [session EXCEPT ![c].at = "send", ![c].req = Fresh]
       ELSE UNCHANGED gateVars /\ session' = [session EXCEPT ![c] = Idle]
  /\ UNCHANGED <<fails, brought, vouched>>

\* A hook, a tool or the connection fails, or the program drops the call: the
\* server's part goes on, or is ended by Disconnect.
GiveUp(c) ==
  /\ fails < MaxFails /\ fails' = fails + 1
  /\ session[c].at \in {"send", "tools", "compact"}
  /\ session' = [session EXCEPT ![c] = Idle] /\ UNCHANGED <<gateVars, brought, vouched>>

-----------------------------------------------------------------------------
(* The server's steps, and what its terminal frames say.                   *)

Said(r) ==
  IF pc'[r] # "done" THEN "nothing"
  ELSE IF pc[r] = "paused" THEN "tools"
  ELSE IF (pc[r] = "turn" /\ tail' # tail) \/ Compacting(r) THEN "final"
  ELSE "error"

Serve(r) ==
  /\ ServerStep(r)
  /\ pc'[r] = "paused" /\ (\E c \in Clients : Waiting(c, r)) => Spare
  /\ session' = [c \in Clients |-> IF Waiting(c, r) THEN [session[c] EXCEPT !.said = Said(r)] ELSE session[c]]
  /\ brought' = IF tail' # tail /\ tail'.kind = "answer" /\ msg[r].answers = tail'.call
                  THEN brought \cup {tail'.call} ELSE brought
  /\ UNCHANGED <<fails, vouched>>

Lapses == Expire /\ UNCHANGED sdk
Clears == (\E d \in Closers : RemoveRuntime(d)) /\ UNCHANGED sdk

\* A stream that lags behind the feed is ended, like one that is gone.
Breaks == (\E r \in Reqs : Disconnect(r)) /\ UNCHANGED sdk

Step(c) == Connected(c) \/ Closed(c) \/ Hear(c) \/ RunTool(c) \/ Results(c)

HarnessNext ==
  \/ \E c \in Clients : Connect(c) \/ Send(c) \/ CallCompact(c) \/ CallClose(c) \/ Step(c) \/ GiveUp(c)
  \/ \E r \in Reqs : Serve(r)
  \/ Lapses \/ Clears \/ Breaks

\* A Session is polled and its tools return, the server runs its tasks, and a
\* provider answers.  Nobody has to call, and no deadline has to pass.
HarnessFairness ==
  /\ \A c \in Clients : WF_allVars(Step(c))
  /\ \A r \in Reqs : WF_allVars(Serve(r))
  /\ WF_allVars(Clears)

HarnessSpec == HarnessInit /\ [][HarnessNext]_allVars /\ HarnessFairness

-----------------------------------------------------------------------------
(***************************************************************************)
(* What a Session promises its program.                                    *)
(***************************************************************************)

\* A send that returns the final message has had each of its tool_use messages
\* answered by the results of its own tools: where they came too late, or the
\* pause was taken over by another driver, the send fails.
ResultsReachTheLog == vouched \subseteq brought

\* A call of a Session returns, whatever the others do, unless a paused turn
\* stays that its own Session does not work on any more; but a compaction waits
\* for no pause at all.
Deserted == pending # None /\ ~(session[pending.owner].at = "tools" /\ session[pending.owner].req = pending.call)

EveryCallEnds ==
  \A c \in Clients :
    /\ []<>(session[c].at # "compact")
    /\ <>[]Deserted \/ []<>(session[c].at \in {"unborn", "idle", "over"})

\* Results that nobody waits for any more are refused, and the session goes on.
LateResultsRefused ==
  [][\A r \in Reqs : pc[r] = "admitted" /\ msg[r].answers # None /\ pc'[r] = "done" => sess' = sess]_allVars
=============================================================================
