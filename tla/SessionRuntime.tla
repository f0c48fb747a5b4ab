--------------------------- MODULE SessionRuntime ---------------------------
(***************************************************************************)
(* What one session keeps running outside the server: its remote sandbox   *)
(* (a container), the subagents launched in it, and its MCP connections.   *)
(*                                                                         *)
(* Each is started, used and torn down by calls that await a driver or a   *)
(* lock in the middle, while other calls, a turn, a DELETE or a key's      *)
(* revocation go on.  TurnGate models who may run a turn; here at most one *)
(* turn runs.                                                              *)
(***************************************************************************)
EXTENDS Integers, FiniteSets, Sequences

CONSTANTS
  Starts,      \* session.startRemoteSandbox calls; each names its container
  Execs,       \* session.execRemoteSandbox calls
  Stops,       \* session.stopRemoteSandbox calls
  Deletes,     \* DELETE /sessions/{id} calls
  Revokes,     \* revocations of the session's last client key
  Subs,        \* subagents that turns launch
  None,
  MaxSubs,     \* max_subagents_per_session
  MaxTurns,    \* bound on turns
  MaxCalls,    \* bound on calls made and subagents launched, of any kind
  MaxFaults    \* bound on failing stops, failing stores, callers that leave and restarts

Closers == Deletes \cup Revokes
Calls   == Starts \cup Execs \cup Stops \cup Closers

ASSUME RuntimeAssumption ==
  /\ None \notin Calls
  /\ Starts \cap (Execs \cup Stops \cup Closers) = {} /\ Execs \cap (Stops \cup Closers) = {}
  /\ Stops \cap Closers = {} /\ Deletes \cap Revokes = {}
  /\ MaxSubs \in Nat /\ MaxTurns \in Nat /\ MaxCalls \in Nat /\ MaxFaults \in Nat

VARIABLES
  sess,        \* sessions.state
  registered,  \* AppState.drivers: the session has registered drivers
  creating,    \* create has committed the session and connects its MCP servers
  at,          \* how far each call got
  on,          \* the sandbox handle each call works with
  sandbox,     \* AppState.sandboxes
  container,   \* the containers, as the container engine sees them
  mcp,         \* AppState.mcp_sessions: the connections of create are retained
  turn,        \* the turn that runs, with what it captured at its start
  turns,       \* turns so far
  entry,       \* AppState.subagents: the status of each subagent
  handle,      \* subagents whose entry holds the handle of the task
  task,        \* the background task of each subagent
  home,        \* the container each subagent runs in
  trace,       \* the lifecycle events of each subagent
  cancelling,  \* subagents marked cancelled, whose event is not logged yet
  astray,      \* history: two calls overlapped so that a handle was lost, the
               \* session was revoked, or a fault happened
  faults       \* faults so far

vars == <<sess, registered, creating, at, on, sandbox, container, mcp, turn, turns,
          entry, handle, task, home, trace, cancelling, astray, faults>>
subvars == <<entry, handle, task, home, trace, cancelling>>
mishaps == <<astray, faults>>

Containers == Starts

NoTurn == [step |-> "none", sandbox |-> None, mcp |-> FALSE]

\* The mutex of a handle: held while the driver executes or stops.
Locked(c) ==
  \/ \E e \in Execs : at[e] = "running" /\ on[e] = c
  \/ \E s \in Stops \cup Closers : at[s] = "stopping" /\ on[s] = c
  \/ turn.step = "exec" /\ turn.sandbox = c

Running == {b \in Subs : entry[b] = "running"}

\* What may go wrong without a fault, and a fault.
GoAstray == astray' = TRUE /\ UNCHANGED faults
Fault    == faults < MaxFaults /\ faults' = faults + 1 /\ astray' = TRUE

TypeOK ==
  /\ sess \in {"open", "closed", "error"}
  /\ registered \in BOOLEAN /\ creating \in BOOLEAN
  /\ at \in [Calls -> {"idle", "starting", "waiting", "running", "stopping", "subagents",
                       "sandbox", "mcp", "shutdown", "runtime", "done"}]
  /\ on \in [Calls -> Containers \cup {None}]
  /\ sandbox \in Containers \cup {None}
  /\ container \in [Containers -> {"none", "running", "stopped"}]
  /\ mcp \in {"none", "retained", "taken", "down"}
  /\ turn \in [step: {"none", "ask", "wait", "exec", "mcp", "lock", "insert", "store", "announce"},
               sandbox: Containers \cup {None}, mcp: BOOLEAN]
  /\ turns \in 0 .. MaxTurns
  /\ entry \in [Subs -> {"absent", "running", "completed", "failed", "cancelled"}]
  /\ handle \subseteq {b \in Subs : entry[b] # "absent"}
  /\ task \in [Subs -> {"none", "launching", "gated", "running", "completed", "failed", "ended", "lost"}]
  /\ home \in [Subs -> Containers \cup {None}]
  /\ trace \in [Subs -> Seq({"start", "running", "completed", "failed", "cancelled"})]
  /\ cancelling \subseteq Subs
  /\ astray \in BOOLEAN /\ faults \in 0 .. MaxFaults

Init ==
  /\ sess = "open" /\ registered = FALSE /\ creating = TRUE
  /\ at = [r \in Calls |-> "idle"] /\ on = [r \in Calls |-> None]
  /\ sandbox = None /\ container = [c \in Containers |-> "none"]
  /\ mcp = "none"
  /\ turn = NoTurn /\ turns = 0
  /\ entry = [b \in Subs |-> "absent"] /\ handle = {} /\ task = [b \in Subs |-> "none"]
  /\ home = [b \in Subs |-> None] /\ trace = [b \in Subs |-> <<>>] /\ cancelling = {}
  /\ astray = FALSE /\ faults = 0

Budget == Cardinality({r \in Calls : at[r] # "idle"}) + Cardinality({b \in Subs : task[b] # "none"})
            < MaxCalls

\* The session key of a call is looked at before its envelope is: a request
\* that is no JSON-RPC call, a batch or a method nobody knows changes nothing.
KeyValid == \A k \in Revokes : at[k] = "idle"

\* The key is valid and its client a registered driver.
Authorised == registered /\ KeyValid

Step(r, from, to) == at[r] = from /\ at' = [at EXCEPT ![r] = to]

-----------------------------------------------------------------------------
(* create and session.registerDriver.                                      *)

\* resolve_mcp_servers: the connections are retained, or none succeeded, or
\* the caller is gone and they are dropped.
Created ==
  /\ creating /\ creating' = FALSE
  /\ mcp' \in {"none", "retained"}
  /\ UNCHANGED <<sess, registered, at, on, sandbox, container, turn, turns, mishaps, subvars>>

\* The first registration is logged, and what the profile's sandbox images are
\* like, for whoever listens; nothing depends on it.
RegisterDriver ==
  /\ ~creating /\ KeyValid /\ sess = "open" /\ ~registered
  /\ registered' = TRUE
  /\ UNCHANGED <<sess, creating, at, on, sandbox, container, mcp, turn, turns, mishaps, subvars>>

-----------------------------------------------------------------------------
(* The remote sandbox.                                                     *)

OverlapsStart == IF \E c \in Starts : at[c] = "starting" THEN GoAstray ELSE UNCHANGED mishaps

\* Wrong on purpose: a start does not look for the sandbox there is.
StartSandboxAgain(c) ==
  /\ Authorised /\ sess = "open"
  /\ Budget /\ Step(c, "idle", "starting") /\ OverlapsStart
  /\ UNCHANGED <<sess, registered, creating, on, sandbox, container, mcp, turn, turns, subvars>>

\* The driver's run and stop commands; the image is there or is pulled, and
\* stopping a container that is gone is a success.
Up(c)   == [container EXCEPT ![c] = "running"]
Down(c) == [container EXCEPT ![c] = IF @ = "running" THEN "stopped" ELSE @]

\* start_remote_sandbox_rpc, up to the driver: one sandbox per session, if no
\* other start is on its way.
StartSandbox(c) ==
  /\ Authorised /\ sess = "open" /\ sandbox = None
  /\ Budget /\ Step(c, "idle", "starting") /\ OverlapsStart
  /\ UNCHANGED <<sess, registered, creating, on, sandbox, container, mcp, turn, turns, subvars>>

\* A close that has looked for the session's sandbox, or never will.
PastSandbox(d) == at[d] \notin {"idle", "subagents", "sandbox"}

\* The driver fails, or the container is up and its handle is inserted, over
\* the handle of another start or into the map of a session that is gone.
InsertSandbox(c) ==
  /\ Step(c, "starting", "done")
  /\ \/ UNCHANGED <<sandbox, container, mishaps>>
     \/ /\ container' = Up(c)
        /\ sandbox' = c
        /\ IF \E d \in Closers : PastSandbox(d) THEN GoAstray ELSE UNCHANGED mishaps
  /\ UNCHANGED <<sess, registered, creating, on, mcp, turn, turns, subvars>>

\* exec_remote_sandbox_rpc: the handle is cloned, then locked.
AcceptExec(e) ==
  /\ Authorised /\ sandbox # None
  /\ Budget /\ Step(e, "idle", "waiting")
  /\ on' = [on EXCEPT ![e] = sandbox]
  /\ UNCHANGED <<sess, registered, creating, sandbox, container, mcp, turn, turns,
                 mishaps, subvars>>

Exec(e) ==
  /\ \/ ~Locked(on[e]) /\ Step(e, "waiting", "running") /\ UNCHANGED on
     \/ Step(e, "running", "done") /\ on' = [on EXCEPT ![e] = None]
  /\ UNCHANGED <<sess, registered, creating, sandbox, container, mcp, turn, turns,
                 mishaps, subvars>>

\* take_sandbox: the entry goes before the driver is called.
TakeSandbox(s) ==
  /\ sandbox # None /\ sandbox' = None
  /\ on' = [on EXCEPT ![s] = sandbox]

StopSandbox(s) ==
  /\ Authorised /\ Budget /\ Step(s, "idle", "waiting") /\ TakeSandbox(s)
  /\ UNCHANGED <<sess, registered, creating, container, mcp, turn, turns, mishaps, subvars>>

\* stop_remote_sandbox: the call waits for the handle, then for the driver.  A
\* failure does not hold up a close.
LockHandle(s) ==
  /\ ~Locked(on[s]) /\ Step(s, "waiting", "stopping")
  /\ UNCHANGED <<sess, registered, creating, on, sandbox, container, mcp, turn, turns,
                 mishaps, subvars>>

Stopped(s) ==
  /\ Step(s, "stopping", IF s \in Stops THEN "done" ELSE "mcp")
  /\ \/ container' = Down(on[s]) /\ UNCHANGED mishaps
     \/ Fault /\ UNCHANGED container
  /\ on' = [on EXCEPT ![s] = None]
  /\ UNCHANGED <<sess, registered, creating, sandbox, mcp, turn, turns, subvars>>

-----------------------------------------------------------------------------
(* A turn and the tools it dispatches.  It captures the sandbox and the MCP *)
(* connections at its start and runs on after the session has ended.       *)

BeginTurn ==
  /\ turn = NoTurn /\ Authorised /\ sess = "open" /\ turns < MaxTurns
  /\ turn' = [step |-> "ask", sandbox |-> sandbox, mcp |-> mcp = "retained"]
  /\ turns' = turns + 1
  /\ UNCHANGED <<sess, registered, creating, at, on, sandbox, container, mcp, mishaps, subvars>>

TurnStep(from, to) == turn.step = from /\ turn' = [turn EXCEPT !.step = to]

\* A sandbox tool.
TurnExec ==
  /\ \/ turn.sandbox # None /\ TurnStep("ask", "wait")
     \/ ~Locked(turn.sandbox) /\ TurnStep("wait", "exec")
     \/ TurnStep("exec", "ask")
  /\ UNCHANGED <<sess, registered, creating, at, on, sandbox, container, mcp, turns, mishaps, subvars>>

\* An MCP tool: the connections are locked for the call.
TurnMcp ==
  /\ \/ turn.mcp /\ TurnStep("ask", "mcp")
     \/ TurnStep("mcp", "ask")
  /\ UNCHANGED <<sess, registered, creating, at, on, sandbox, container, mcp, turns, mishaps, subvars>>

\* The turn completes or pauses, or its providers fail.
EndTurn ==
  /\ turn.step = "ask" /\ turn' = NoTurn
  /\ \/ UNCHANGED sess
     \/ sess' = IF sess = "open" THEN "error" ELSE sess
  /\ UNCHANGED <<registered, creating, at, on, sandbox, container, mcp, turns, mishaps, subvars>>

-----------------------------------------------------------------------------
(* Subagents: processes in the sandbox, each awaited by a detached task.   *)

Log(b, event) == trace' = [trace EXCEPT ![b] = Append(@, event)]

\* Wrong on purpose: one more than the limit.
HasSlotOffByOne == Cardinality(Running) <= MaxSubs

\* max_subagents_per_session.
HasSlot == Cardinality(Running) < MaxSubs

\* launch_remote_subagent: the limit, then the handle, locked for a moment to
\* copy it, then the start event.
LaunchSubagent(b) ==
  /\ turn.sandbox # None /\ HasSlot /\ Budget
  /\ task[b] = "none" /\ \A a \in Subs : task[a] # "launching"
  /\ TurnStep("ask", "lock")
  /\ task' = [task EXCEPT ![b] = "launching"]
  /\ UNCHANGED <<sess, registered, creating, at, on, sandbox, container, mcp, turns, mishaps,
                 entry, handle, home, trace, cancelling>>

LogStart(b) ==
  /\ task[b] = "launching" /\ ~Locked(turn.sandbox)
  /\ TurnStep("lock", "insert")
  /\ home' = [home EXCEPT ![b] = turn.sandbox]
  /\ Log(b, "start")
  /\ UNCHANGED <<sess, registered, creating, at, on, sandbox, container, mcp, turns, mishaps,
                 entry, handle, task, cancelling>>

\* The entry is inserted, whoever has cleared the map before, and the task
\* spawned, which waits for the running event.
InsertTask(b) ==
  /\ task[b] = "launching"
  /\ TurnStep("insert", "store")
  /\ entry' = [entry EXCEPT ![b] = "running"]
  /\ task' = [task EXCEPT ![b] = "gated"]
  /\ UNCHANGED <<sess, registered, creating, at, on, sandbox, container, mcp, turns, mishaps,
                 handle, home, trace, cancelling>>

\* The task's handle is stored, if the entry is still there.
StoreHandle(b) ==
  /\ task[b] = "gated" /\ TurnStep("store", "announce")
  /\ handle' = IF entry[b] = "absent" THEN handle ELSE handle \cup {b}
  /\ UNCHANGED <<sess, registered, creating, at, on, sandbox, container, mcp, turns, mishaps,
                 entry, task, home, trace, cancelling>>

\* The running event; the task may go on, unless it was aborted meanwhile.
Announce(b) ==
  /\ task[b] \in {"gated", "ended"} /\ trace[b] # <<>>
  /\ \A k \in DOMAIN trace[b] : trace[b][k] # "running"
  /\ TurnStep("announce", "ask")
  /\ Log(b, "running")
  /\ task' = [task EXCEPT ![b] = IF @ = "gated" THEN "running" ELSE @]
  /\ UNCHANGED <<sess, registered, creating, at, on, sandbox, container, mcp, turns, mishaps,
                 entry, handle, home, cancelling>>

\* Wrong on purpose: the outcome overwrites a cancellation.
FinishAnyway(b) ==
  /\ task[b] = "running"
  /\ \/ /\ entry[b] = "absent"
        /\ task' = [task EXCEPT ![b] = "ended"] /\ UNCHANGED <<entry, handle>>
     \/ /\ entry[b] # "absent"
        /\ \E outcome \in {"completed", "failed"} :
             /\ entry' = [entry EXCEPT ![b] = outcome]
             /\ task' = [task EXCEPT ![b] = outcome]
        /\ handle' = handle \ {b}
  /\ UNCHANGED <<sess, registered, creating, at, on, sandbox, container, mcp, turn, turns, mishaps,
                 home, trace, cancelling>>

\* The process ended or timed out.  Only an entry that is still running takes
\* the outcome; otherwise nothing is logged.
Finish(b) ==
  /\ task[b] = "running"
  /\ \/ /\ entry[b] # "running"
        /\ task' = [task EXCEPT ![b] = "ended"] /\ UNCHANGED <<entry, handle>>
     \/ /\ entry[b] = "running"
        /\ \E outcome \in {"completed", "failed"} :
             /\ entry' = [entry EXCEPT ![b] = outcome]
             /\ task' = [task EXCEPT ![b] = outcome]
        /\ handle' = handle \ {b}
  /\ UNCHANGED <<sess, registered, creating, at, on, sandbox, container, mcp, turn, turns, mishaps,
                 home, trace, cancelling>>

LogOutcome(b) ==
  /\ task[b] \in {"completed", "failed"}
  /\ task' = [task EXCEPT ![b] = "ended"]
  /\ Log(b, task[b])
  /\ UNCHANGED <<sess, registered, creating, at, on, sandbox, container, mcp, turn, turns, mishaps,
                 entry, handle, home, cancelling>>

\* Aborting the tasks kills their processes.
Abort(S) == task' = [b \in Subs |-> IF b \in S /\ task[b] \in {"gated", "running"}
                                     THEN "ended" ELSE task[b]]

\* A subagent whose launch has yet to store its task's handle is marked, but
\* runs on.
Overlaps(S) == IF S \subseteq handle THEN UNCHANGED mishaps ELSE GoAstray

\* cancel_subagent_rpc: the entry is marked and the task aborted under the
\* lock of the map, the event logged after it.
CancelSubagent(b) ==
  /\ Authorised /\ entry[b] = "running"
  /\ entry' = [entry EXCEPT ![b] = "cancelled"]
  /\ Abort({b} \cap handle) /\ Overlaps({b})
  /\ handle' = handle \ {b} /\ cancelling' = cancelling \cup {b}
  /\ UNCHANGED <<sess, registered, creating, at, on, sandbox, container, mcp, turn, turns, home, trace>>

LogCancel(b) ==
  /\ b \in cancelling /\ cancelling' = cancelling \ {b}
  /\ Log(b, "cancelled")
  /\ UNCHANGED <<sess, registered, creating, at, on, sandbox, container, mcp, turn, turns, mishaps,
                 entry, handle, task, home>>

\* remote_status_result: what has ended is reported once and forgotten.
PollStatus ==
  /\ turn.step = "ask"
  /\ \E asked \in {Subs} \cup {{b} : b \in Subs} :
       LET ended == {b \in asked : entry[b] \notin {"absent", "running"}}
       IN  /\ ended # {}
           /\ entry' = [b \in Subs |-> IF b \in ended THEN "absent" ELSE entry[b]]
           /\ handle' = handle \ ended
  /\ UNCHANGED <<sess, registered, creating, at, on, sandbox, container, mcp, turn, turns, mishaps,
                 task, home, trace, cancelling>>

-----------------------------------------------------------------------------
(* The end of the session.                                                 *)

\* DELETE: the row is closed, if it is open; then everything is freed in any
\* case, unless the session.close event cannot be logged.
StartDelete(d) ==
  /\ ~creating /\ at[d] = "idle" /\ Budget /\ KeyValid
  /\ sess' = IF sess = "open" THEN "closed" ELSE sess
  /\ \/ at' = [at EXCEPT ![d] = "subagents"] /\ UNCHANGED mishaps
     \/ /\ sess = "open" /\ Fault
        /\ at' = [at EXCEPT ![d] = "done"]
  /\ UNCHANGED <<registered, creating, on, sandbox, container, mcp, turn, turns, subvars>>

\* The map's entries are removed; the tasks of the running ones are aborted.
DropSubagents(d) ==
  /\ Step(d, "subagents", "sandbox")
  /\ entry' = [b \in Subs |-> "absent"] /\ handle' = {}
  /\ trace' = [b \in Subs |-> IF b \in Running THEN Append(trace[b], "cancelled") ELSE trace[b]]
  /\ Abort(Running \cap handle) /\ Overlaps(Running)
  /\ UNCHANGED <<sess, registered, creating, on, sandbox, container, mcp, turn, turns, home, cancelling>>

\* Wrong on purpose: only the session's own transition stops its sandbox.
StopSandboxIfClosed(d) ==
  /\ \/ sandbox # None /\ sess = "closed" /\ Step(d, "sandbox", "waiting") /\ TakeSandbox(d)
     \/ (sandbox = None \/ sess # "closed") /\ Step(d, "sandbox", "mcp") /\ UNCHANGED <<on, sandbox>>
  /\ UNCHANGED <<sess, registered, creating, container, mcp, turn, turns, mishaps, subvars>>

\* The sandbox is stopped like by an explicit stop, if there is one.
StopAtClose(d) ==
  /\ \/ sandbox # None /\ Step(d, "sandbox", "waiting") /\ TakeSandbox(d)
     \/ sandbox = None /\ Step(d, "sandbox", "mcp") /\ UNCHANGED <<on, sandbox>>
  /\ UNCHANGED <<sess, registered, creating, container, mcp, turn, turns, mishaps, subvars>>

\* A revocation closes an open session and frees less: neither the subagents
\* nor the sandbox.
Revoke(k) ==
  /\ at[k] = "idle" /\ Budget /\ sess = "open" /\ sess' = "closed"
  /\ \/ at' = [at EXCEPT ![k] = "mcp"] /\ GoAstray
     \/ at' = [at EXCEPT ![k] = "done"] /\ Fault
  /\ UNCHANGED <<registered, creating, on, sandbox, container, mcp, turn, turns, subvars>>

\* take_mcp_session, then shutdown under its lock, which a tool call holds.
CloseMcp(d) ==
  /\ \/ mcp = "retained" /\ mcp' = "taken" /\ Step(d, "mcp", "shutdown")
     \/ mcp # "retained" /\ Step(d, "mcp", "runtime") /\ UNCHANGED mcp
     \/ turn.step # "mcp" /\ mcp' = "down" /\ Step(d, "shutdown", "runtime")
  /\ UNCHANGED <<sess, registered, creating, on, sandbox, container, turn, turns, mishaps, subvars>>

\* remove_session_runtime.
RemoveRuntime(d) ==
  /\ Step(d, "runtime", "done") /\ registered' = FALSE
  /\ UNCHANGED <<sess, creating, on, sandbox, container, mcp, turn, turns, mishaps, subvars>>

-----------------------------------------------------------------------------
(* The environment.                                                        *)

\* A caller that disconnects ends its call where it awaits.  The container of
\* a start may come up or not; connections nobody holds are killed.
Leave(r) ==
  /\ at[r] \in {"starting", "waiting", "running", "stopping", "shutdown"}
  /\ at' = [at EXCEPT ![r] = "done"]
  /\ IF r \in Execs THEN UNCHANGED mishaps ELSE Fault
  /\ CASE at[r] = "starting" -> container' \in {container, Up(r)}
       [] at[r] = "stopping" -> container' \in {container, Down(on[r])}
       [] OTHER              -> UNCHANGED container
  /\ on' = [on EXCEPT ![r] = None]
  /\ mcp' = IF at[r] = "shutdown" THEN "down" ELSE mcp
  /\ UNCHANGED <<sess, registered, creating, sandbox, turn, turns, subvars>>

LeaveTurn ==
  /\ turn.step \in {"ask", "wait", "exec", "mcp", "lock"}
  /\ turn' = NoTurn
  /\ task' = [b \in Subs |-> IF task[b] = "launching" THEN "ended" ELSE task[b]]
  /\ UNCHANGED <<sess, registered, creating, at, on, sandbox, container, mcp, turns, mishaps,
                 entry, handle, home, trace, cancelling>>

\* A restart loses AppState and every task; containers run on.
Restart ==
  /\ Fault
  /\ at' = [r \in Calls |-> IF at[r] = "idle" THEN "idle" ELSE "done"]
  /\ \E up \in SUBSET {c \in Containers : at[c] = "starting"} :
       container' = [c \in Containers |-> IF c \in up THEN "running" ELSE container[c]]
  /\ registered' = FALSE /\ creating' = FALSE /\ turn' = NoTurn /\ sandbox' = None
  /\ mcp' = IF mcp = "none" THEN "none" ELSE "down"
  /\ entry' = [b \in Subs |-> "absent"] /\ handle' = {} /\ cancelling' = {}
  /\ task' = [b \in Subs |-> IF task[b] = "none" THEN "none" ELSE "lost"]
  /\ on' = [r \in Calls |-> None]
  /\ UNCHANGED <<sess, turns, home, trace>>

-----------------------------------------------------------------------------
SandboxStep ==
  \/ \E c \in Starts : InsertSandbox(c)
  \/ \E e \in Execs : Exec(e)
  \/ \E s \in Stops \cup Closers : LockHandle(s) \/ Stopped(s)

TurnSteps ==
  \/ TurnExec \/ TurnMcp \/ EndTurn
  \/ \E b \in Subs : LaunchSubagent(b) \/ LogStart(b) \/ InsertTask(b) \/ StoreHandle(b) \/ Announce(b)
  \/ PollStatus

\* What a close frees, in this order, whether the session was open or had
\* failed before.
CloseStep(d) == StopAtClose(d) \/ DropSubagents(d) \/ CloseMcp(d) \/ RemoveRuntime(d)

\* The methods that a request of a driver is dispatched to.
Dispatch ==
  \/ \E c \in Starts : StartSandbox(c)
  \/ \E s \in Stops : StopSandbox(s)
  \/ \E e \in Execs : AcceptExec(e)
  \/ \E b \in Subs : CancelSubagent(b)

Next ==
  \/ Created \/ RegisterDriver \/ Dispatch
  \/ SandboxStep
  \/ BeginTurn \/ TurnSteps
  \/ \E b \in Subs : Finish(b) \/ LogOutcome(b) \/ LogCancel(b)
  \/ \E d \in Deletes : StartDelete(d)
  \/ \E k \in Revokes : Revoke(k)
  \/ \E d \in Closers : CloseStep(d)
  \/ \E r \in Calls : Leave(r)
  \/ LeaveTurn
  \/ Restart

Spec == Init /\ [][Next]_vars

-----------------------------------------------------------------------------
(***************************************************************************)
(* What the runtime promises.                                              *)
(***************************************************************************)

\* As long as nothing went astray, whatever runs outside
\* the server can be reached from it: a container through the session's map or
\* a call that is about to stop it, a subagent's process through its entry,
\* which still holds its task's handle or is about to get it.
NothingOrphaned ==
  ~astray =>
    /\ \A c \in Containers : container[c] = "running" =>
         sandbox = c \/ \E s \in Stops \cup Deletes : at[s] \in {"waiting", "stopping"} /\ on[s] = c
    /\ \A b \in Subs : task[b] \in {"gated", "running"} =>
         entry[b] = "running" /\ (b \in handle \/ turn.step = "store")

\* Once a DELETE has returned and no call or turn is left, nothing of the
\* session runs: no container, no subagent outside a stopped one, no MCP
\* connection - be the session closed or failed before.
ClosedIsQuiet ==
  /\ ~astray
  /\ \E d \in Deletes : at[d] = "done"
  /\ turn = NoTurn /\ \A r \in Calls : at[r] \in {"idle", "done"}
  => /\ \A c \in Containers : container[c] # "running"
     /\ \A b \in Subs : task[b] = "running" => container[home[b]] = "stopped"
     /\ mcp \in {"none", "down"}

Ends(event) == event \in {"completed", "failed", "cancelled"}
Ended(b)    == \E i \in DOMAIN trace[b] : Ends(trace[b][i])

\* Every subagent that was started gets exactly one terminal event, whoever
\* wins: its own end, a cancellation, a close, before or after its launch has
\* stored the handle.
EndedOnce ==
  \A b \in Subs :
    /\ \A i, j \in DOMAIN trace[b] : Ends(trace[b][i]) /\ Ends(trace[b][j]) => i = j
    /\ task[b] = "ended" /\ trace[b] # <<>> /\ b \notin cancelling => Ended(b)

\* No more subagents are tracked as running than the limit, although it is
\* checked long before the slot is taken.
SlotsBounded == Cardinality(Running) <= MaxSubs
=============================================================================
