------------------------ MODULE SessionRuntime_proofs ------------------------
(***************************************************************************)
(* What a session keeps running, for any calls, subagents, turns, faults   *)
(* and limits; then who may open and join one: AccessKeys; and, at the     *)
(* end, the lists of both: Listing.                                        *)
(*                                                                         *)
(* The steps of what runs fall in two kinds.  Those of the calls move the  *)
(* sandbox, its container and the MCP connections and leave the turn and   *)
(* the subagents alone; those of the turn and of the subagents' tasks do   *)
(* the opposite.  Only the part of a close that drops the subagents, and a *)
(* restart, move both.  The invariant has a half for each kind.            *)
(***************************************************************************)
EXTENDS SessionRuntime, AccessKeys, Listing, Induction, FiniteSetTheorems, SequenceTheorems

-----------------------------------------------------------------------------
(* The half of the subagents.                                              *)

\* The running event has been logged; or the launch has yet to log it.
Announced(b) == \E i \in DOMAIN trace[b] : trace[b][i] = "running"
Fresh(b)     == task[b] \in {"gated", "ended"} /\ trace[b] # <<>> /\ ~Announced(b)

Once(b) == \A i, j \in DOMAIN trace[b] : Ends(trace[b][i]) /\ Ends(trace[b][j]) => i = j

\* Its terminal event is still to come, or it never got a first one.
Pending(b) ==
  \/ task[b] \in {"none", "launching", "completed", "failed"} \/ entry[b] = "running" \/ b \in cancelling
  \/ task[b] = "ended" /\ trace[b] = <<>>

\* How the entry, the task and the cancellation of a subagent go together.
Phase(b) ==
  /\ task[b] = "none" => trace[b] = <<>>
  /\ task[b] \in {"none", "launching"} => entry[b] = "absent" /\ b \notin cancelling
  /\ entry[b] = "running" => task[b] \in {"gated", "running"}
  /\ b \in cancelling => entry[b] \in {"cancelled", "absent"} /\ task[b] \in {"gated", "running", "ended"}
  /\ task[b] \in {"completed", "failed"} => entry[b] \in {task[b], "absent"}
  /\ task[b] \in {"gated", "running", "completed", "failed"} \/ b \in cancelling => trace[b] # <<>>

Phases == \A b \in Subs : Phase(b)

\* One launch at a time, which the turn is busy with.
Launching ==
  /\ \A b \in Subs : task[b] = "launching" =>
       /\ turn.step \in {"lock", "insert"}
       /\ turn.step = "lock" => trace[b] = <<>>
       /\ turn.step = "insert" => trace[b] = <<"start">>
  /\ \A a, b \in Subs : task[a] = "launching" /\ task[b] = "launching" => a = b

\* The terminal event is logged once, when it is no more pending.
Outcome(b) ==
  /\ Once(b)
  /\ Pending(b) => ~Ended(b)
  /\ ~Pending(b) /\ task[b] # "lost" => Ended(b)

Events == \A b \in Subs : Outcome(b)

\* A launch that has passed the limit has its slot.
Slots ==
  /\ IsFiniteSet(Running) /\ Cardinality(Running) <= MaxSubs
  /\ (\E b \in Subs : task[b] = "launching") => Cardinality(Running) < MaxSubs

\* The subagent whose handle is stored, and whose running event is logged, is
\* the one that was launched.
Announcing ==
  /\ \A b \in Subs : Fresh(b) => turn.step \in {"store", "announce"}
  /\ \A a, b \in Subs : Fresh(a) /\ Fresh(b) => a = b
  /\ \A b \in Subs : task[b] = "gated" => Fresh(b)
  /\ \A b \in Subs : task[b] \in {"running", "completed", "failed"} => Announced(b)

\* A process can be reached through its entry.
Tracked ==
  ~astray => \A b \in Subs : task[b] \in {"gated", "running"} =>
    entry[b] = "running" /\ (b \in handle \/ (task[b] = "gated" /\ turn.step = "store"))

-----------------------------------------------------------------------------
(* The half of the sandbox and the connections.                            *)

\* A container that runs can be reached through the map, or a call stops it.
Reached ==
  ~astray => \A c \in Containers : container[c] = "running" =>
    sandbox = c \/ \E s \in Stops \cup Deletes : at[s] \in {"waiting", "stopping"} /\ on[s] = c

\* One start at a time, and no sandbox beside it.
OneStart ==
  ~astray => /\ \A c \in Starts : at[c] = "starting" => sandbox = None
             /\ \A c, d \in Starts : at[c] = "starting" /\ at[d] = "starting" => c = d

\* A close that is past the sandbox, or the connections, has left none.
Closing ==
  /\ ~astray => /\ \A k \in Revokes : at[k] = "idle"
                /\ \A d \in Deletes : PastSandbox(d) => sandbox = None
                /\ \A d \in Deletes : at[d] \in {"shutdown", "runtime", "done"} => mcp # "retained"
  /\ \A d \in Deletes : at[d] # "idle" => ~creating
  /\ mcp = "taken" => \E d \in Closers : at[d] = "shutdown"

\* A container somebody knows of has been started.
Known ==
  /\ sandbox # None => container[sandbox] # "none"
  /\ turn.sandbox # None => container[turn.sandbox] # "none"
  /\ turn.step \in {"lock", "insert"} => turn.sandbox # None
  /\ \A b \in Subs : home[b] # None => container[home[b]] # "none"
  /\ \A b \in Subs : task[b] \in {"gated", "running"} \/ (task[b] = "launching" /\ turn.step = "insert")
                       => home[b] # None

CallTypes ==
  /\ sess \in {"open", "closed", "error"} /\ registered \in BOOLEAN /\ creating \in BOOLEAN
  /\ at \in [Calls -> {"idle", "starting", "waiting", "running", "stopping", "subagents",
                       "sandbox", "mcp", "shutdown", "runtime", "done"}]
  /\ on \in [Calls -> Containers \cup {None}] /\ sandbox \in Containers \cup {None}
  /\ container \in [Containers -> {"none", "running", "stopped"}]
  /\ mcp \in {"none", "retained", "taken", "down"}

TurnTypes ==
  /\ turn \in [step: {"none", "ask", "wait", "exec", "mcp", "lock", "insert", "store", "announce"},
               sandbox: Containers \cup {None}, mcp: BOOLEAN]
  /\ turns \in 0 .. MaxTurns

Lifecycle == {"start", "running", "completed", "failed", "cancelled"}

SubTypes ==
  /\ entry \in [Subs -> {"absent", "running", "completed", "failed", "cancelled"}]
  /\ handle \subseteq {b \in Subs : entry[b] # "absent"}
  /\ task \in [Subs -> {"none", "launching", "gated", "running", "completed", "failed", "ended", "lost"}]
  /\ home \in [Subs -> Containers \cup {None}]
  /\ trace \in [Subs -> Seq(Lifecycle)]
  /\ cancelling \subseteq Subs

Mishaps == astray \in BOOLEAN /\ faults \in 0 .. MaxFaults

SubInv == Phases /\ Launching /\ Events /\ Slots /\ Announcing /\ Tracked
BoxInv == Reached /\ OneStart /\ Closing /\ Known
Types  == CallTypes /\ TurnTypes /\ SubTypes /\ Mishaps
Inv    == Types /\ SubInv /\ BoxInv

-----------------------------------------------------------------------------
(* The two kinds of steps.                                                 *)

CallStep ==
  \/ Created \/ RegisterDriver
  \/ \E c \in Starts : StartSandbox(c) \/ InsertSandbox(c)
  \/ \E e \in Execs : AcceptExec(e) \/ Exec(e)
  \/ \E s \in Stops : StopSandbox(s)
  \/ \E s \in Stops \cup Closers : LockHandle(s) \/ Stopped(s)
  \/ \E d \in Deletes : StartDelete(d)
  \/ \E k \in Revokes : Revoke(k)
  \/ \E d \in Closers : StopAtClose(d) \/ CloseMcp(d) \/ RemoveRuntime(d)
  \/ \E r \in Calls : Leave(r)

SubStep ==
  \/ BeginTurn \/ TurnExec \/ TurnMcp \/ EndTurn \/ PollStatus \/ LeaveTurn
  \/ \E b \in Subs : \/ LaunchSubagent(b) \/ LogStart(b) \/ InsertTask(b) \/ StoreHandle(b) \/ Announce(b)
                     \/ CancelSubagent(b) \/ Finish(b) \/ LogOutcome(b) \/ LogCancel(b)

TurnUntouched ==
  UNCHANGED <<turn, turns, entry, handle, task, home, trace, cancelling>> /\ (astray => astray')

CallsUntouched ==
  /\ UNCHANGED <<registered, creating, at, on, sandbox, container, mcp, faults>>
  /\ (astray => astray') /\ sess' \in {sess, "error"}

\* Every action is of a kind, a close's first step and a restart aside.
LEMMA Kinds ==
  Next => CallStep \/ SubStep \/ Restart \/ \E d \in Closers : DropSubagents(d)
BY DEF Next, CallStep, SubStep, Dispatch, SandboxStep, TurnSteps, CloseStep

\* A step of a call leaves the turn and the subagents alone; it may go astray.
LEMMA CallFrame ==
  ASSUME CallStep
  PROVE  TurnUntouched
<1>1. ASSUME Created
      PROVE  TurnUntouched
  BY <1>1 DEF Created, TurnUntouched, subvars, mishaps
<1>2. ASSUME RegisterDriver
      PROVE  TurnUntouched
  BY <1>2 DEF RegisterDriver, TurnUntouched, subvars, mishaps
<1>3. ASSUME NEW c \in Starts, StartSandbox(c)
      PROVE  TurnUntouched
  BY <1>3 DEF StartSandbox, OverlapsStart, GoAstray, TurnUntouched, subvars, mishaps
<1>4. ASSUME NEW c \in Starts, InsertSandbox(c)
      PROVE  TurnUntouched
  BY <1>4 DEF InsertSandbox, Up, GoAstray, TurnUntouched, subvars, mishaps
<1>5. ASSUME NEW e \in Execs, AcceptExec(e)
      PROVE  TurnUntouched
  BY <1>5 DEF AcceptExec, TurnUntouched, subvars, mishaps
<1>6. ASSUME NEW e \in Execs, Exec(e)
      PROVE  TurnUntouched
  BY <1>6 DEF Exec, TurnUntouched, subvars, mishaps
<1>7. ASSUME NEW s \in Stops, StopSandbox(s)
      PROVE  TurnUntouched
  BY <1>7 DEF StopSandbox, TakeSandbox, TurnUntouched, subvars, mishaps
<1>8. ASSUME NEW s \in Stops \cup Closers, LockHandle(s)
      PROVE  TurnUntouched
  BY <1>8 DEF LockHandle, TurnUntouched, subvars, mishaps
<1>9. ASSUME NEW s \in Stops \cup Closers, Stopped(s)
      PROVE  TurnUntouched
  BY <1>9 DEF Stopped, Down, Fault, TurnUntouched, subvars, mishaps
<1>10. ASSUME NEW d \in Deletes, StartDelete(d)
      PROVE  TurnUntouched
  BY <1>10 DEF StartDelete, Fault, TurnUntouched, subvars, mishaps
<1>11. ASSUME NEW k \in Revokes, Revoke(k)
      PROVE  TurnUntouched
  BY <1>11 DEF Revoke, GoAstray, Fault, TurnUntouched, subvars
<1>12. ASSUME NEW d \in Closers, StopAtClose(d)
      PROVE  TurnUntouched
  BY <1>12 DEF StopAtClose, TakeSandbox, TurnUntouched, subvars, mishaps
<1>13. ASSUME NEW d \in Closers, CloseMcp(d)
      PROVE  TurnUntouched
  BY <1>13 DEF CloseMcp, TurnUntouched, subvars, mishaps
<1>14. ASSUME NEW d \in Closers, RemoveRuntime(d)
      PROVE  TurnUntouched
  BY <1>14 DEF RemoveRuntime, TurnUntouched, subvars, mishaps
<1>15. ASSUME NEW r \in Calls, Leave(r)
      PROVE  TurnUntouched
  BY <1>15 DEF Leave, Up, Down, Fault, TurnUntouched, subvars, mishaps
<1>. QED
  BY <1>1, <1>2, <1>3, <1>4, <1>5, <1>6, <1>7, <1>8, <1>9, <1>10, <1>11, <1>12, <1>13, <1>14,
     <1>15 DEF CallStep

\* A step of the turn or of a subagent leaves the calls and what they move
\* alone.
LEMMA SubFrame ==
  ASSUME SubStep
  PROVE  CallsUntouched
<1>1. ASSUME BeginTurn
      PROVE  CallsUntouched
  BY <1>1 DEF BeginTurn, CallsUntouched, mishaps
<1>2. ASSUME TurnExec
      PROVE  CallsUntouched
  BY <1>2 DEF TurnExec, TurnStep, CallsUntouched, mishaps
<1>3. ASSUME TurnMcp
      PROVE  CallsUntouched
  BY <1>3 DEF TurnMcp, TurnStep, CallsUntouched, mishaps
<1>4. ASSUME EndTurn
      PROVE  CallsUntouched
  BY <1>4 DEF EndTurn, CallsUntouched, mishaps
<1>5. ASSUME PollStatus
      PROVE  CallsUntouched
  BY <1>5 DEF PollStatus, CallsUntouched, mishaps
<1>6. ASSUME LeaveTurn
      PROVE  CallsUntouched
  BY <1>6 DEF LeaveTurn, CallsUntouched, mishaps
<1>7. ASSUME NEW b \in Subs, LaunchSubagent(b)
      PROVE  CallsUntouched
  BY <1>7 DEF LaunchSubagent, TurnStep, CallsUntouched, mishaps
<1>8. ASSUME NEW b \in Subs, LogStart(b)
      PROVE  CallsUntouched
  BY <1>8 DEF LogStart, TurnStep, Log, CallsUntouched, mishaps
<1>9. ASSUME NEW b \in Subs, InsertTask(b)
      PROVE  CallsUntouched
  BY <1>9 DEF InsertTask, TurnStep, CallsUntouched, mishaps
<1>10. ASSUME NEW b \in Subs, StoreHandle(b)
      PROVE  CallsUntouched
  BY <1>10 DEF StoreHandle, TurnStep, CallsUntouched, mishaps
<1>11. ASSUME NEW b \in Subs, Announce(b)
      PROVE  CallsUntouched
  BY <1>11 DEF Announce, TurnStep, Log, CallsUntouched, mishaps
<1>12. ASSUME NEW b \in Subs, CancelSubagent(b)
      PROVE  CallsUntouched
  BY <1>12 DEF CancelSubagent, Abort, Overlaps, GoAstray, CallsUntouched, mishaps
<1>13. ASSUME NEW b \in Subs, Finish(b)
      PROVE  CallsUntouched
  BY <1>13 DEF Finish, CallsUntouched, mishaps
<1>14. ASSUME NEW b \in Subs, LogOutcome(b)
      PROVE  CallsUntouched
  BY <1>14 DEF LogOutcome, Log, CallsUntouched, mishaps
<1>15. ASSUME NEW b \in Subs, LogCancel(b)
      PROVE  CallsUntouched
  BY <1>15 DEF LogCancel, Log, CallsUntouched, mishaps
<1>. QED
  BY <1>1, <1>2, <1>3, <1>4, <1>5, <1>6, <1>7, <1>8, <1>9, <1>10, <1>11, <1>12, <1>13, <1>14,
     <1>15 DEF SubStep

\* What an event changes.
LEMMA Logged ==
  ASSUME SubTypes, NEW b \in Subs, NEW e \in Lifecycle, trace'[b] = Append(trace[b], e)
  PROVE  /\ trace'[b] # <<>>
         /\ Ended(b)' <=> Ended(b) \/ Ends(e)
         /\ Announced(b)' <=> Announced(b) \/ e = "running"
         /\ Once(b) /\ ~(Ended(b) /\ Ends(e)) => Once(b)'
<1>1. trace[b] \in Seq(Lifecycle) /\ Len(trace[b]) \in Nat
  BY DEF SubTypes
<1>2. /\ DOMAIN trace'[b] = 1 .. Len(trace[b]) + 1 /\ DOMAIN trace[b] = 1 .. Len(trace[b])
      /\ trace'[b][Len(trace[b]) + 1] = e
      /\ \A i \in 1 .. Len(trace[b]) : trace'[b][i] = trace[b][i]
      /\ Len(trace'[b]) = Len(trace[b]) + 1
  BY <1>1
<1>3. trace'[b] # <<>>
  <2>1. DOMAIN <<>> = 1 .. 0 /\ 1 \notin 1 .. 0 /\ 1 \in 1 .. Len(trace[b]) + 1
    BY <1>1
  <2>. QED BY <1>1, <1>2, <2>1
<1>4. Ended(b)' <=> Ended(b) \/ Ends(e)
  BY SMTT(30), <1>1, <1>2 DEF Ended
<1>5. Announced(b)' <=> Announced(b) \/ e = "running"
  BY <1>1, <1>2 DEF Announced
<1>6. Once(b) /\ ~(Ended(b) /\ Ends(e)) => Once(b)'
  BY <1>1, <1>2 DEF Once, Ended
<1>. QED
  BY <1>3, <1>4, <1>5, <1>6

LEMMA NotLogged ==
  ASSUME NEW b \in Subs, trace'[b] = trace[b]
  PROVE  (Ended(b)' <=> Ended(b)) /\ (Announced(b)' <=> Announced(b)) /\ (Once(b)' <=> Once(b))
BY DEF Ended, Announced, Once

\* One event of one subagent.
LEMMA LogOne ==
  ASSUME SubTypes, NEW b \in Subs, NEW e \in Lifecycle, Log(b, e)
  PROVE  /\ trace'[b] = Append(trace[b], e) /\ trace'[b] # <<>>
         /\ Ended(b)' <=> Ended(b) \/ Ends(e)
         /\ Announced(b)' <=> Announced(b) \/ e = "running"
         /\ Once(b) /\ ~(Ended(b) /\ Ends(e)) => Once(b)'
         /\ \A a \in Subs \ {b} : /\ trace'[a] = trace[a] /\ (Ended(a)' <=> Ended(a))
                                  /\ (Announced(a)' <=> Announced(a)) /\ (Once(a)' <=> Once(a))
<1>1. trace'[b] = Append(trace[b], e) /\ \A a \in Subs \ {b} : trace'[a] = trace[a]
  BY DEF Log, SubTypes
<1>. QED
  BY <1>1, Logged, NotLogged

\* The cancelled events of a close.
LEMMA LogDrop ==
  ASSUME SubTypes, NEW d \in Closers, DropSubagents(d), NEW b \in Subs
  PROVE  /\ b \in Running => /\ trace'[b] # <<>> /\ Ended(b)' /\ (Announced(b)' <=> Announced(b))
                             /\ Once(b) /\ ~Ended(b) => Once(b)'
         /\ b \notin Running => /\ trace'[b] = trace[b] /\ (Ended(b)' <=> Ended(b))
                                /\ (Announced(b)' <=> Announced(b)) /\ (Once(b)' <=> Once(b))
<1>1. "cancelled" \in Lifecycle /\ Ends("cancelled") /\ "cancelled" # "running"
  BY DEF Lifecycle, Ends
<1>2. CASE b \in Running
  <2>1. trace'[b] = Append(trace[b], "cancelled")
    BY <1>2 DEF DropSubagents
  <2>. QED BY <1>1, <1>2, <2>1, Logged
<1>3. CASE b \notin Running
  <2>1. trace'[b] = trace[b]
    BY <1>3 DEF DropSubagents
  <2>. QED BY <1>3, <2>1, NotLogged
<1>. QED
  BY <1>2, <1>3

\* What a step may do to the mishaps.
LEMMA MishapKinds ==
  ASSUME Mishaps, UNCHANGED mishaps \/ GoAstray \/ Fault
  PROVE  Mishaps'
<1>1. CASE UNCHANGED mishaps
  BY <1>1 DEF Mishaps, mishaps
<1>2. CASE GoAstray
  BY <1>2 DEF Mishaps, GoAstray
<1>3. CASE Fault
  <2>1. faults \in Nat /\ faults < MaxFaults /\ faults' = faults + 1 /\ astray' = TRUE
    BY <1>3 DEF Mishaps, Fault
  <2>. QED BY <2>1, RuntimeAssumption DEF Mishaps
<1>. QED
  BY <1>1, <1>2, <1>3

\* The types, part by part: first what a turn holds.
LEMMA TurnTypesStep ==
  ASSUME Inv, [Next]_vars
  PROVE  TurnTypes'
<1>. USE RuntimeAssumption DEF Inv, Types, TurnTypes, CallTypes
<1>1. ASSUME BeginTurn
      PROVE  TurnTypes'
  BY <1>1 DEF BeginTurn, NoTurn
<1>2. ASSUME TurnExec
      PROVE  TurnTypes'
  BY <1>2 DEF TurnExec, TurnStep
<1>3. ASSUME TurnMcp
      PROVE  TurnTypes'
  BY <1>3 DEF TurnMcp, TurnStep
<1>4. ASSUME EndTurn
      PROVE  TurnTypes'
  BY <1>4 DEF EndTurn, NoTurn
<1>5. ASSUME PollStatus
      PROVE  TurnTypes'
  BY <1>5 DEF PollStatus
<1>6. ASSUME LeaveTurn
      PROVE  TurnTypes'
  BY <1>6 DEF LeaveTurn, NoTurn
<1>7. ASSUME NEW b \in Subs, LaunchSubagent(b)
      PROVE  TurnTypes'
  BY <1>7 DEF LaunchSubagent, TurnStep
<1>8. ASSUME NEW b \in Subs, LogStart(b)
      PROVE  TurnTypes'
  BY <1>8 DEF LogStart, TurnStep, Log
<1>9. ASSUME NEW b \in Subs, InsertTask(b)
      PROVE  TurnTypes'
  BY <1>9 DEF InsertTask, TurnStep
<1>10. ASSUME NEW b \in Subs, StoreHandle(b)
      PROVE  TurnTypes'
  BY <1>10 DEF StoreHandle, TurnStep
<1>11. ASSUME NEW b \in Subs, Announce(b)
      PROVE  TurnTypes'
  BY <1>11 DEF Announce, TurnStep, Log
<1>12. ASSUME NEW b \in Subs, CancelSubagent(b)
      PROVE  TurnTypes'
  BY <1>12 DEF CancelSubagent, Abort, Overlaps, GoAstray
<1>13. ASSUME NEW b \in Subs, Finish(b)
      PROVE  TurnTypes'
  BY <1>13 DEF Finish
<1>14. ASSUME NEW b \in Subs, LogOutcome(b)
      PROVE  TurnTypes'
  BY <1>14 DEF LogOutcome, Log
<1>15. ASSUME NEW b \in Subs, LogCancel(b)
      PROVE  TurnTypes'
  BY <1>15 DEF LogCancel, Log
<1>16. ASSUME NEW d \in Closers, DropSubagents(d)
      PROVE  TurnTypes'
  BY <1>16 DEF DropSubagents, Abort, Overlaps, GoAstray, Running
<1>17. ASSUME Restart
      PROVE  TurnTypes'
  BY <1>17 DEF Restart, Fault, NoTurn
<1>18. CASE CallStep
  BY <1>18, CallFrame DEF TurnUntouched
<1>19. CASE UNCHANGED vars
  BY <1>19 DEF vars
<1>. QED
  BY <1>1, <1>2, <1>3, <1>4, <1>5, <1>6, <1>7, <1>8, <1>9, <1>10, <1>11, <1>12, <1>13, <1>14,
     <1>15, <1>16, <1>17, <1>18, <1>19, Kinds DEF SubStep

\* Calls and their handles, the container engine, the connections.
LEMMA CallTypesStep ==
  ASSUME Inv, [Next]_vars
  PROVE  CallTypes'
<1>. USE RuntimeAssumption DEF Inv, Types, CallTypes, Calls, Closers, Containers
<1>1. ASSUME Created
      PROVE  CallTypes'
  BY <1>1 DEF Created
<1>2. ASSUME RegisterDriver
      PROVE  CallTypes'
  BY <1>2 DEF RegisterDriver
<1>3. ASSUME NEW c \in Starts, StartSandbox(c)
      PROVE  CallTypes'
  BY <1>3 DEF StartSandbox, OverlapsStart, GoAstray, Step
<1>4. ASSUME NEW c \in Starts, InsertSandbox(c)
      PROVE  CallTypes'
  BY <1>4 DEF InsertSandbox, Up, GoAstray, Step
<1>5. ASSUME NEW e \in Execs, AcceptExec(e)
      PROVE  CallTypes'
  BY <1>5 DEF AcceptExec, Step
<1>6. ASSUME NEW e \in Execs, Exec(e)
      PROVE  CallTypes'
  BY <1>6 DEF Exec, Step
<1>7. ASSUME NEW s \in Stops, StopSandbox(s)
      PROVE  CallTypes'
  BY <1>7 DEF StopSandbox, TakeSandbox, Step
<1>8. ASSUME NEW s \in Stops \cup Closers, LockHandle(s)
      PROVE  CallTypes'
  BY <1>8 DEF LockHandle, Step
<1>9. ASSUME NEW s \in Stops \cup Closers, Stopped(s)
      PROVE  CallTypes'
  BY <1>9 DEF Stopped, Down, Fault, Step
<1>10. ASSUME NEW d \in Deletes, StartDelete(d)
      PROVE  CallTypes'
  BY <1>10 DEF StartDelete, Fault
<1>11. ASSUME NEW k \in Revokes, Revoke(k)
      PROVE  CallTypes'
  BY <1>11 DEF Revoke, GoAstray, Fault
<1>12. ASSUME NEW d \in Closers, StopAtClose(d)
      PROVE  CallTypes'
  BY <1>12 DEF StopAtClose, TakeSandbox, Step
<1>13. ASSUME NEW d \in Closers, CloseMcp(d)
      PROVE  CallTypes'
  BY <1>13 DEF CloseMcp, Step
<1>14. ASSUME NEW d \in Closers, RemoveRuntime(d)
      PROVE  CallTypes'
  BY <1>14 DEF RemoveRuntime, Step
<1>15. ASSUME NEW r \in Calls, Leave(r)
      PROVE  CallTypes'
  BY <1>15 DEF Leave, Up, Down, Fault
<1>16. ASSUME NEW d \in Closers, DropSubagents(d)
      PROVE  CallTypes'
  BY <1>16 DEF DropSubagents, Abort, Overlaps, GoAstray, Running, Step
<1>17. ASSUME Restart
      PROVE  CallTypes'
  BY <1>17 DEF Restart, Fault
<1>18. CASE SubStep
  BY <1>18, SubFrame DEF CallsUntouched
<1>19. CASE UNCHANGED vars
  BY <1>19 DEF vars
<1>. QED
  BY <1>1, <1>2, <1>3, <1>4, <1>5, <1>6, <1>7, <1>8, <1>9, <1>10, <1>11, <1>12, <1>13, <1>14,
     <1>15, <1>16, <1>17, <1>18, <1>19, Kinds DEF CallStep

\* Entries, tasks and events; a handle stays within the entries.
LEMMA SubTypesStep ==
  ASSUME Inv, [Next]_vars
  PROVE  SubTypes'
<1>. USE DEF Inv, Types, SubTypes, TurnTypes, Lifecycle
<1>1. ASSUME BeginTurn
      PROVE  SubTypes'
  BY <1>1 DEF BeginTurn, subvars
<1>2. ASSUME TurnExec
      PROVE  SubTypes'
  BY <1>2 DEF TurnExec, TurnStep, subvars
<1>3. ASSUME TurnMcp
      PROVE  SubTypes'
  BY <1>3 DEF TurnMcp, TurnStep, subvars
<1>4. ASSUME EndTurn
      PROVE  SubTypes'
  BY <1>4 DEF EndTurn, subvars
<1>5. ASSUME PollStatus
      PROVE  SubTypes'
  BY <1>5 DEF PollStatus
<1>6. ASSUME LeaveTurn
      PROVE  SubTypes'
  BY <1>6 DEF LeaveTurn
<1>7. ASSUME NEW b \in Subs, LaunchSubagent(b)
      PROVE  SubTypes'
  BY <1>7 DEF LaunchSubagent, TurnStep
<1>8. ASSUME NEW b \in Subs, LogStart(b)
      PROVE  SubTypes'
  BY <1>8 DEF LogStart, TurnStep, Log
<1>9. ASSUME NEW b \in Subs, InsertTask(b)
      PROVE  SubTypes'
  BY <1>9 DEF InsertTask, TurnStep
<1>10. ASSUME NEW b \in Subs, StoreHandle(b)
      PROVE  SubTypes'
  BY <1>10 DEF StoreHandle, TurnStep
<1>11. ASSUME NEW b \in Subs, Announce(b)
      PROVE  SubTypes'
  BY <1>11 DEF Announce, TurnStep, Log
<1>12. ASSUME NEW b \in Subs, CancelSubagent(b)
      PROVE  SubTypes'
  BY <1>12 DEF CancelSubagent, Abort, Overlaps, GoAstray
<1>13. ASSUME NEW b \in Subs, Finish(b)
      PROVE  SubTypes'
  BY ZenonT(60), <1>13 DEF Finish
<1>14. ASSUME NEW b \in Subs, LogOutcome(b)
      PROVE  SubTypes'
  BY <1>14 DEF LogOutcome, Log
<1>15. ASSUME NEW b \in Subs, LogCancel(b)
      PROVE  SubTypes'
  BY <1>15 DEF LogCancel, Log
<1>16. ASSUME NEW d \in Closers, DropSubagents(d)
      PROVE  SubTypes'
  BY <1>16 DEF DropSubagents, Abort, Overlaps, GoAstray, Running
<1>17. ASSUME Restart
      PROVE  SubTypes'
  BY <1>17 DEF Restart, Fault
<1>18. CASE CallStep
  BY <1>18, CallFrame DEF TurnUntouched
<1>19. CASE UNCHANGED vars
  BY <1>19 DEF vars
<1>. QED
  BY <1>1, <1>2, <1>3, <1>4, <1>5, <1>6, <1>7, <1>8, <1>9, <1>10, <1>11, <1>12, <1>13, <1>14,
     <1>15, <1>16, <1>17, <1>18, <1>19, Kinds DEF SubStep

\* Only faults count towards their bound.
LEMMA MishapsStep ==
  ASSUME Inv, [Next]_vars
  PROVE  Mishaps'
<1>. USE RuntimeAssumption DEF Inv, Types, Mishaps
<1>1. ASSUME Created
      PROVE  Mishaps'
  BY <1>1 DEF Created, mishaps
<1>2. ASSUME RegisterDriver
      PROVE  Mishaps'
  BY <1>2 DEF RegisterDriver, mishaps
<1>3. ASSUME NEW c \in Starts, StartSandbox(c)
      PROVE  Mishaps'
  BY <1>3 DEF StartSandbox, OverlapsStart, GoAstray, mishaps
<1>4. ASSUME NEW c \in Starts, InsertSandbox(c)
      PROVE  Mishaps'
  BY <1>4 DEF InsertSandbox, Up, GoAstray, mishaps
<1>5. ASSUME NEW e \in Execs, AcceptExec(e)
      PROVE  Mishaps'
  BY <1>5 DEF AcceptExec, mishaps
<1>6. ASSUME NEW e \in Execs, Exec(e)
      PROVE  Mishaps'
  BY <1>6 DEF Exec, mishaps
<1>7. ASSUME NEW s \in Stops, StopSandbox(s)
      PROVE  Mishaps'
  BY <1>7 DEF StopSandbox, TakeSandbox, mishaps
<1>8. ASSUME NEW s \in Stops \cup Closers, LockHandle(s)
      PROVE  Mishaps'
  BY <1>8 DEF LockHandle, mishaps
<1>9. ASSUME NEW s \in Stops \cup Closers, Stopped(s)
      PROVE  Mishaps'
  BY <1>9, MishapKinds DEF Stopped
<1>10. ASSUME NEW d \in Deletes, StartDelete(d)
      PROVE  Mishaps'
  BY <1>10, MishapKinds DEF StartDelete
<1>11. ASSUME NEW k \in Revokes, Revoke(k)
      PROVE  Mishaps'
  BY <1>11, MishapKinds DEF Revoke
<1>12. ASSUME NEW d \in Closers, StopAtClose(d)
      PROVE  Mishaps'
  BY <1>12 DEF StopAtClose, TakeSandbox, mishaps
<1>13. ASSUME NEW d \in Closers, CloseMcp(d)
      PROVE  Mishaps'
  BY <1>13 DEF CloseMcp, mishaps
<1>14. ASSUME NEW d \in Closers, RemoveRuntime(d)
      PROVE  Mishaps'
  BY <1>14 DEF RemoveRuntime, mishaps
<1>15. ASSUME NEW r \in Calls, Leave(r)
      PROVE  Mishaps'
  BY <1>15, MishapKinds DEF Leave
<1>16. ASSUME BeginTurn
      PROVE  Mishaps'
  BY <1>16 DEF BeginTurn, mishaps
<1>17. ASSUME TurnExec
      PROVE  Mishaps'
  BY <1>17 DEF TurnExec, TurnStep, mishaps
<1>18. ASSUME TurnMcp
      PROVE  Mishaps'
  BY <1>18 DEF TurnMcp, TurnStep, mishaps
<1>19. ASSUME EndTurn
      PROVE  Mishaps'
  BY <1>19 DEF EndTurn, mishaps
<1>20. ASSUME PollStatus
      PROVE  Mishaps'
  BY <1>20 DEF PollStatus, mishaps
<1>21. ASSUME LeaveTurn
      PROVE  Mishaps'
  BY <1>21 DEF LeaveTurn, mishaps
<1>22. ASSUME NEW b \in Subs, LaunchSubagent(b)
      PROVE  Mishaps'
  BY <1>22 DEF LaunchSubagent, TurnStep, mishaps
<1>23. ASSUME NEW b \in Subs, LogStart(b)
      PROVE  Mishaps'
  BY <1>23 DEF LogStart, TurnStep, Log, mishaps
<1>24. ASSUME NEW b \in Subs, InsertTask(b)
      PROVE  Mishaps'
  BY <1>24 DEF InsertTask, TurnStep, mishaps
<1>25. ASSUME NEW b \in Subs, StoreHandle(b)
      PROVE  Mishaps'
  BY <1>25 DEF StoreHandle, TurnStep, mishaps
<1>26. ASSUME NEW b \in Subs, Announce(b)
      PROVE  Mishaps'
  BY <1>26 DEF Announce, TurnStep, Log, mishaps
<1>27. ASSUME NEW b \in Subs, CancelSubagent(b)
      PROVE  Mishaps'
  BY <1>27 DEF CancelSubagent, Abort, Overlaps, GoAstray, mishaps
<1>28. ASSUME NEW b \in Subs, Finish(b)
      PROVE  Mishaps'
  BY <1>28 DEF Finish, mishaps
<1>29. ASSUME NEW b \in Subs, LogOutcome(b)
      PROVE  Mishaps'
  BY <1>29 DEF LogOutcome, Log, mishaps
<1>30. ASSUME NEW b \in Subs, LogCancel(b)
      PROVE  Mishaps'
  BY <1>30 DEF LogCancel, Log, mishaps
<1>31. ASSUME NEW d \in Closers, DropSubagents(d)
      PROVE  Mishaps'
  BY <1>31 DEF DropSubagents, Abort, Overlaps, GoAstray, Running, mishaps
<1>32. ASSUME Restart
      PROVE  Mishaps'
  BY <1>32 DEF Restart, Fault
<1>33. CASE UNCHANGED vars
  BY <1>33 DEF vars
<1>. QED
  BY <1>1, <1>2, <1>3, <1>4, <1>5, <1>6, <1>7, <1>8, <1>9, <1>10, <1>11, <1>12, <1>13, <1>14,
     <1>15, <1>16, <1>17, <1>18, <1>19, <1>20, <1>21, <1>22, <1>23, <1>24, <1>25, <1>26, <1>27, <1>28,
     <1>29, <1>30, <1>31, <1>32, <1>33, Kinds DEF CallStep, SubStep

\* Entry, task and cancellation move together: only the launch inserts an
\* entry, and what ends one ends or marks its task.
LEMMA PhasesStep ==
  ASSUME Inv, [Next]_vars
  PROVE  Phases'
<1>. USE DEF Inv, Types, SubTypes, SubInv, Phases, Phase, Launching, Running
<1>1. ASSUME BeginTurn
      PROVE  Phases'
  BY <1>1 DEF BeginTurn, subvars
<1>2. ASSUME TurnExec
      PROVE  Phases'
  BY <1>2 DEF TurnExec, TurnStep, subvars
<1>3. ASSUME TurnMcp
      PROVE  Phases'
  BY <1>3 DEF TurnMcp, TurnStep, subvars
<1>4. ASSUME EndTurn
      PROVE  Phases'
  BY <1>4 DEF EndTurn, subvars
<1>5. ASSUME PollStatus
      PROVE  Phases'
  BY <1>5 DEF PollStatus
<1>6. ASSUME LeaveTurn
      PROVE  Phases'
  BY <1>6 DEF LeaveTurn
<1>7. ASSUME NEW b \in Subs, LaunchSubagent(b)
      PROVE  Phases'
  BY <1>7 DEF LaunchSubagent, TurnStep
<1>8. ASSUME NEW b \in Subs, LogStart(b)
      PROVE  Phases'
  BY <1>8 DEF LogStart, TurnStep, Log
<1>9. ASSUME NEW b \in Subs, InsertTask(b)
      PROVE  Phases'
  <2>1. trace[b] = <<"start">> /\ <<"start">> # <<>>
    BY <1>9 DEF InsertTask, TurnStep
  <2>. QED BY ZenonT(60), <1>9, <2>1 DEF InsertTask
<1>10. ASSUME NEW b \in Subs, StoreHandle(b)
      PROVE  Phases'
  BY <1>10 DEF StoreHandle, TurnStep
<1>11. ASSUME NEW b \in Subs, Announce(b)
      PROVE  Phases'
  <2>1. "running" \in Lifecycle /\ Log(b, "running")
    BY <1>11 DEF Announce, Lifecycle
  <2>. QED BY <1>11, <2>1, LogOne DEF Announce, TurnStep, Ends
<1>12. ASSUME NEW b \in Subs, CancelSubagent(b)
      PROVE  Phases'
  BY <1>12 DEF CancelSubagent, Abort, Overlaps, GoAstray
<1>13. ASSUME NEW b \in Subs, Finish(b)
      PROVE  Phases'
  BY <1>13 DEF Finish
<1>14. ASSUME NEW b \in Subs, LogOutcome(b)
      PROVE  Phases'
  BY <1>14 DEF LogOutcome, Log
<1>15. ASSUME NEW b \in Subs, LogCancel(b)
      PROVE  Phases'
  <2>1. "cancelled" \in Lifecycle /\ Log(b, "cancelled")
    BY <1>15 DEF LogCancel, Lifecycle
  <2>. QED BY <1>15, <2>1, LogOne DEF LogCancel, TurnStep, Ends
<1>16. ASSUME NEW d \in Closers, DropSubagents(d)
      PROVE  Phases'
  <2>1. ASSUME NEW b \in Subs
        PROVE  /\ entry'[b] = "absent" /\ (b \in Running <=> entry[b] = "running")
               /\ task'[b] = task[b] \/ (task[b] \in {"gated", "running"} /\ task'[b] = "ended" /\ b \in Running)
               /\ UNCHANGED <<cancelling, turn>>
    BY <1>16 DEF DropSubagents, Abort, Running
  <2>2. ASSUME NEW b \in Subs, entry[b] = "running"
        PROVE  /\ trace'[b] # <<>> /\ Ended(b)' /\ (Announced(b)' <=> Announced(b))
               /\ Once(b) /\ ~Ended(b) => Once(b)'
    BY <1>16, <2>1, <2>2, LogDrop
  <2>3. ASSUME NEW b \in Subs, entry[b] # "running"
        PROVE  /\ trace'[b] = trace[b] /\ (Ended(b)' <=> Ended(b))
               /\ (Announced(b)' <=> Announced(b)) /\ (Once(b)' <=> Once(b))
    BY <1>16, <2>1, <2>3, LogDrop
  <2>4. ASSUME NEW b \in Subs
        PROVE  Phase(b)'
    <3>1. CASE entry[b] = "running"
      BY <2>1, <2>2, <3>1
    <3>2. CASE entry[b] # "running"
      BY <2>1, <2>3, <3>2
    <3>. QED BY <3>1, <3>2
  <2>. QED BY <2>4
<1>17. ASSUME Restart
      PROVE  Phases'
  BY <1>17 DEF Restart, Fault
<1>18. CASE CallStep
  BY <1>18, CallFrame DEF TurnUntouched
<1>19. CASE UNCHANGED vars
  BY <1>19 DEF vars
<1>. QED
  BY <1>1, <1>2, <1>3, <1>4, <1>5, <1>6, <1>7, <1>8, <1>9, <1>10, <1>11, <1>12, <1>13, <1>14,
     <1>15, <1>16, <1>17, <1>18, <1>19, Kinds DEF SubStep

\* The turn leads the one launch from the limit to the entry; leaving it early
\* ends the launch.
LEMMA LaunchingStep ==
  ASSUME Inv, [Next]_vars
  PROVE  Launching'
<1>. USE DEF Inv, Types, SubTypes, SubInv, TurnTypes, Phases, Phase, Launching
<1>1. ASSUME BeginTurn
      PROVE  Launching'
  BY <1>1 DEF BeginTurn, NoTurn, subvars
<1>2. ASSUME TurnExec
      PROVE  Launching'
  BY <1>2 DEF TurnExec, TurnStep, subvars
<1>3. ASSUME TurnMcp
      PROVE  Launching'
  BY <1>3 DEF TurnMcp, TurnStep, subvars
<1>4. ASSUME EndTurn
      PROVE  Launching'
  BY <1>4 DEF EndTurn, NoTurn, subvars
<1>5. ASSUME PollStatus
      PROVE  Launching'
  BY <1>5 DEF PollStatus
<1>6. ASSUME LeaveTurn
      PROVE  Launching'
  BY <1>6 DEF LeaveTurn, NoTurn
<1>7. ASSUME NEW b \in Subs, LaunchSubagent(b)
      PROVE  Launching'
  BY <1>7 DEF LaunchSubagent, TurnStep
<1>8. ASSUME NEW b \in Subs, LogStart(b)
      PROVE  Launching'
  <2>1. turn.step = "lock" /\ turn'.step = "insert" /\ trace[b] = <<>> /\ UNCHANGED task
    BY <1>8 DEF LogStart, TurnStep
  <2>2. trace'[b] = Append(trace[b], "start") /\ Append(<<>>, "start") = <<"start">>
    BY <1>8 DEF LogStart, Log
  <2>3. trace'[b] = <<"start">>
    BY <2>1, <2>2
  <2>4. \A a \in Subs : task[a] = "launching" => a = b
    BY <1>8 DEF LogStart
  <2>. QED BY <2>1, <2>3, <2>4
<1>9. ASSUME NEW b \in Subs, InsertTask(b)
      PROVE  Launching'
  BY <1>9 DEF InsertTask, TurnStep
<1>10. ASSUME NEW b \in Subs, StoreHandle(b)
      PROVE  Launching'
  BY <1>10 DEF StoreHandle, TurnStep
<1>11. ASSUME NEW b \in Subs, Announce(b)
      PROVE  Launching'
  BY <1>11 DEF Announce, TurnStep, Log
<1>12. ASSUME NEW b \in Subs, CancelSubagent(b)
      PROVE  Launching'
  BY <1>12 DEF CancelSubagent, Abort, Overlaps, GoAstray
<1>13. ASSUME NEW b \in Subs, Finish(b)
      PROVE  Launching'
  BY SMTT(30), <1>13 DEF Finish
<1>14. ASSUME NEW b \in Subs, LogOutcome(b)
      PROVE  Launching'
  BY <1>14 DEF LogOutcome, Log
<1>15. ASSUME NEW b \in Subs, LogCancel(b)
      PROVE  Launching'
  BY <1>15 DEF LogCancel, Log
<1>16. ASSUME NEW d \in Closers, DropSubagents(d)
      PROVE  Launching'
  BY <1>16 DEF DropSubagents, Abort, Overlaps, GoAstray, Running
<1>17. ASSUME Restart
      PROVE  Launching'
  BY <1>17 DEF Restart, Fault, NoTurn
<1>18. CASE CallStep
  BY <1>18, CallFrame DEF TurnUntouched
<1>19. CASE UNCHANGED vars
  BY <1>19 DEF vars
<1>. QED
  BY <1>1, <1>2, <1>3, <1>4, <1>5, <1>6, <1>7, <1>8, <1>9, <1>10, <1>11, <1>12, <1>13, <1>14,
     <1>15, <1>16, <1>17, <1>18, <1>19, Kinds DEF SubStep

\* Whoever removes a running entry owes the terminal event and is the only one
\* to do so.
LEMMA EventsStep ==
  ASSUME Inv, [Next]_vars
  PROVE  Events'
<1>. USE DEF Inv, Types, SubTypes, SubInv, Phases, Phase, Launching, Events, Outcome
<1>1. ASSUME BeginTurn
      PROVE  Events'
  BY <1>1 DEF BeginTurn, subvars, Pending, Once, Ended, Ends
<1>2. ASSUME TurnExec
      PROVE  Events'
  BY <1>2 DEF TurnExec, TurnStep, subvars, Pending, Once, Ended, Ends
<1>3. ASSUME TurnMcp
      PROVE  Events'
  BY <1>3 DEF TurnMcp, TurnStep, subvars, Pending, Once, Ended, Ends
<1>4. ASSUME EndTurn
      PROVE  Events'
  BY <1>4 DEF EndTurn, subvars, Pending, Once, Ended, Ends
<1>5. ASSUME PollStatus
      PROVE  Events'
  BY <1>5 DEF PollStatus, Pending, Once, Ended, Ends
<1>6. ASSUME LeaveTurn
      PROVE  Events'
  BY <1>6 DEF LeaveTurn, Pending, Once, Ended, Ends
<1>7. ASSUME NEW b \in Subs, LaunchSubagent(b)
      PROVE  Events'
  BY <1>7 DEF LaunchSubagent, TurnStep, Pending, Once, Ended, Ends
<1>8. ASSUME NEW b \in Subs, LogStart(b)
      PROVE  Events'
  <2>1. "start" \in Lifecycle /\ Log(b, "start") /\ ~Ends("start") /\ task[b] = "launching"
    BY <1>8 DEF LogStart, Lifecycle, Ends
  <2>2. UNCHANGED <<task, entry, cancelling>>
    BY <1>8 DEF LogStart
  <2>3. Outcome(b)'
    BY <2>1, <2>2, LogOne DEF Pending
  <2>4. ASSUME NEW a \in Subs \ {b}
        PROVE  Outcome(a)'
    BY <2>1, <2>2, LogOne DEF Pending
  <2>. QED BY <2>3, <2>4
<1>9. ASSUME NEW b \in Subs, InsertTask(b)
      PROVE  Events'
  BY <1>9 DEF InsertTask, TurnStep, Pending, Once, Ended, Ends
<1>10. ASSUME NEW b \in Subs, StoreHandle(b)
      PROVE  Events'
  BY <1>10 DEF StoreHandle, TurnStep, Pending, Once, Ended, Ends
<1>11. ASSUME NEW b \in Subs, Announce(b)
      PROVE  Events'
  <2>1. "running" \in Lifecycle /\ Log(b, "running")
    BY <1>11 DEF Announce, Lifecycle
  <2>. QED BY <1>11, <2>1, LogOne DEF Announce, TurnStep, Ends, Pending
<1>12. ASSUME NEW b \in Subs, CancelSubagent(b)
      PROVE  Events'
  BY <1>12 DEF CancelSubagent, Abort, Overlaps, GoAstray, Pending, Once, Ended, Ends
<1>13. ASSUME NEW b \in Subs, Finish(b)
      PROVE  Events'
  BY <1>13 DEF Finish, Pending, Once, Ended, Ends
<1>14. ASSUME NEW b \in Subs, LogOutcome(b)
      PROVE  Events'
  <2>1. task[b] \in Lifecycle /\ Log(b, task[b])
    BY <1>14 DEF LogOutcome, Lifecycle
  <2>. QED BY <1>14, <2>1, LogOne DEF LogOutcome, TurnStep, Ends, Pending
<1>15. ASSUME NEW b \in Subs, LogCancel(b)
      PROVE  Events'
  <2>1. "cancelled" \in Lifecycle /\ Log(b, "cancelled")
    BY <1>15 DEF LogCancel, Lifecycle
  <2>. QED BY <1>15, <2>1, LogOne DEF LogCancel, TurnStep, Ends, Pending
<1>16. ASSUME NEW d \in Closers, DropSubagents(d)
      PROVE  Events'
  <2>1. ASSUME NEW b \in Subs
        PROVE  /\ entry'[b] = "absent" /\ (b \in Running <=> entry[b] = "running")
               /\ task'[b] = task[b] \/ (task[b] \in {"gated", "running"} /\ task'[b] = "ended" /\ b \in Running)
               /\ UNCHANGED <<cancelling, turn>>
    BY <1>16 DEF DropSubagents, Abort, Running
  <2>2. ASSUME NEW b \in Subs, entry[b] = "running"
        PROVE  /\ trace'[b] # <<>> /\ Ended(b)' /\ (Announced(b)' <=> Announced(b))
               /\ Once(b) /\ ~Ended(b) => Once(b)'
    BY <1>16, <2>1, <2>2, LogDrop
  <2>3. ASSUME NEW b \in Subs, entry[b] # "running"
        PROVE  /\ trace'[b] = trace[b] /\ (Ended(b)' <=> Ended(b))
               /\ (Announced(b)' <=> Announced(b)) /\ (Once(b)' <=> Once(b))
    BY <1>16, <2>1, <2>3, LogDrop
  <2>4. ASSUME NEW b \in Subs
        PROVE  Outcome(b)'
    <3>1. CASE entry[b] = "running"
      BY <2>1, <2>2, <3>1 DEF Pending, Outcome
    <3>2. CASE entry[b] # "running"
      BY <2>1, <2>3, <3>2 DEF Pending, Outcome
    <3>. QED BY <3>1, <3>2
  <2>. QED BY <2>4
<1>17. ASSUME Restart
      PROVE  Events'
  BY <1>17 DEF Restart, Fault, Pending, Once, Ended, Ends
<1>18. CASE CallStep
  BY <1>18, CallFrame DEF TurnUntouched, Pending, Once, Ended
<1>19. CASE UNCHANGED vars
  BY <1>19 DEF vars, Pending, Once, Ended
<1>. QED
  BY <1>1, <1>2, <1>3, <1>4, <1>5, <1>6, <1>7, <1>8, <1>9, <1>10, <1>11, <1>12, <1>13, <1>14,
     <1>15, <1>16, <1>17, <1>18, <1>19, Kinds DEF SubStep

\* Only a subagent that was just launched lacks its running event, so the turn
\* announces that one.
LEMMA AnnouncingStep ==
  ASSUME Inv, [Next]_vars
  PROVE  Announcing'
<1>. USE DEF Inv, Types, SubTypes, SubInv, TurnTypes, Phases, Phase, Launching, Announcing
<1>1. ASSUME BeginTurn
      PROVE  Announcing'
  BY <1>1 DEF BeginTurn, NoTurn, subvars, Fresh, Announced
<1>2. ASSUME TurnExec
      PROVE  Announcing'
  BY <1>2 DEF TurnExec, TurnStep, subvars, Fresh, Announced
<1>3. ASSUME TurnMcp
      PROVE  Announcing'
  BY <1>3 DEF TurnMcp, TurnStep, subvars, Fresh, Announced
<1>4. ASSUME EndTurn
      PROVE  Announcing'
  BY <1>4 DEF EndTurn, NoTurn, subvars, Fresh, Announced
<1>5. ASSUME PollStatus
      PROVE  Announcing'
  BY <1>5 DEF PollStatus, Fresh, Announced
<1>6. ASSUME LeaveTurn
      PROVE  Announcing'
  BY <1>6 DEF LeaveTurn, NoTurn, Fresh, Announced
<1>7. ASSUME NEW b \in Subs, LaunchSubagent(b)
      PROVE  Announcing'
  BY <1>7 DEF LaunchSubagent, TurnStep, Fresh, Announced
<1>8. ASSUME NEW b \in Subs, LogStart(b)
      PROVE  Announcing'
  <2>1. "start" \in Lifecycle /\ Log(b, "start") /\ task[b] = "launching" /\ UNCHANGED task
    BY <1>8 DEF LogStart, Lifecycle
  <2>2. \A a \in Subs : (Announced(a)' <=> Announced(a)) /\ (Fresh(a)' <=> Fresh(a))
    BY <2>1, LogOne DEF Fresh
  <2>3. turn.step = "lock"
    BY <1>8 DEF LogStart, TurnStep
  <2>. QED BY <2>1, <2>2, <2>3
<1>9. ASSUME NEW b \in Subs, InsertTask(b)
      PROVE  Announcing'
  <2>1. trace[b] = <<"start">> /\ turn.step = "insert" /\ turn'.step = "store" /\ UNCHANGED trace
    BY <1>9 DEF InsertTask, TurnStep
  <2>2. <<"start">> # <<>> /\ \A i \in DOMAIN <<"start">> : <<"start">>[i] # "running"
    OBVIOUS
  <2>3. ~Announced(b) /\ trace[b] # <<>>
    BY <2>1, <2>2 DEF Announced
  <2>4. \A a \in Subs : Announced(a)' <=> Announced(a)
    BY <2>1 DEF Announced
  <2>5. task'[b] = "gated" /\ \A a \in Subs \ {b} : task'[a] = task[a]
    BY <1>9 DEF InsertTask
  <2>. QED BY ZenonT(60), <2>1, <2>3, <2>4, <2>5 DEF Fresh
<1>10. ASSUME NEW b \in Subs, StoreHandle(b)
      PROVE  Announcing'
  <2>1. turn.step = "store" /\ turn'.step = "announce" /\ UNCHANGED <<trace, task>>
    BY <1>10 DEF StoreHandle, TurnStep
  <2>2. \A a \in Subs : (Announced(a)' <=> Announced(a)) /\ (Fresh(a)' <=> Fresh(a))
    BY <2>1 DEF Announced, Fresh
  <2>. QED BY <2>1, <2>2
<1>11. ASSUME NEW b \in Subs, Announce(b)
      PROVE  Announcing'
  <2>1. "running" \in Lifecycle /\ Log(b, "running") /\ Fresh(b)
    BY <1>11 DEF Announce, Lifecycle, Fresh, Announced
  <2>2. \A a \in Subs : a # b => ~Fresh(a)
    BY <2>1
  <2>3. task'[b] \in {"running", "ended"} /\ \A a \in Subs \ {b} : task'[a] = task[a]
    BY <1>11 DEF Announce
  <2>4. \A a \in Subs : ~Fresh(a)'
    BY <2>1, <2>2, <2>3, LogOne DEF Fresh
  <2>. QED BY ZenonT(60), <2>1, <2>2, <2>3, <2>4, LogOne
<1>12. ASSUME NEW b \in Subs, CancelSubagent(b)
      PROVE  Announcing'
  BY <1>12 DEF CancelSubagent, Abort, Overlaps, GoAstray, Fresh, Announced
<1>13. ASSUME NEW b \in Subs, Finish(b)
      PROVE  Announcing'
  <2>1. /\ task[b] = "running" /\ task'[b] \in {"ended", "completed", "failed"} /\ UNCHANGED <<trace, turn>>
        /\ \A a \in Subs \ {b} : task'[a] = task[a]
    BY <1>13 DEF Finish
  <2>2. \A a \in Subs : (Announced(a)' <=> Announced(a)) /\ (Fresh(a)' <=> Fresh(a))
    BY <2>1 DEF Announced, Fresh
  <2>. QED BY <2>1, <2>2
<1>14. ASSUME NEW b \in Subs, LogOutcome(b)
      PROVE  Announcing'
  <2>1. task[b] \in Lifecycle /\ Log(b, task[b]) /\ task[b] # "running"
    BY <1>14 DEF LogOutcome, Lifecycle
  <2>2. task'[b] = "ended" /\ UNCHANGED turn /\ \A a \in Subs \ {b} : task'[a] = task[a]
    BY <1>14 DEF LogOutcome
  <2>3. \A a \in Subs : (Announced(a)' <=> Announced(a)) /\ (Fresh(a)' <=> Fresh(a))
    BY <1>14, <2>1, <2>2, LogOne DEF Fresh, LogOutcome
  <2>. QED BY <1>14, <2>2, <2>3 DEF LogOutcome
<1>15. ASSUME NEW b \in Subs, LogCancel(b)
      PROVE  Announcing'
  <2>1. "cancelled" \in Lifecycle /\ Log(b, "cancelled") /\ trace[b] # <<>> /\ UNCHANGED <<task, turn>>
    BY <1>15 DEF LogCancel, Lifecycle
  <2>2. \A a \in Subs : (Announced(a)' <=> Announced(a)) /\ (Fresh(a)' <=> Fresh(a))
    BY <2>1, LogOne DEF Fresh
  <2>. QED BY <2>1, <2>2
<1>16. ASSUME NEW d \in Closers, DropSubagents(d)
      PROVE  Announcing'
  <2>1. ASSUME NEW b \in Subs
        PROVE  /\ entry'[b] = "absent" /\ (b \in Running <=> entry[b] = "running")
               /\ task'[b] = task[b] \/ (task[b] \in {"gated", "running"} /\ task'[b] = "ended" /\ b \in Running)
               /\ UNCHANGED <<cancelling, turn>>
    BY <1>16 DEF DropSubagents, Abort, Running
  <2>2. ASSUME NEW b \in Subs, entry[b] = "running"
        PROVE  /\ trace'[b] # <<>> /\ Ended(b)' /\ (Announced(b)' <=> Announced(b))
               /\ Once(b) /\ ~Ended(b) => Once(b)'
    BY <1>16, <2>1, <2>2, LogDrop
  <2>3. ASSUME NEW b \in Subs, entry[b] # "running"
        PROVE  /\ trace'[b] = trace[b] /\ (Ended(b)' <=> Ended(b))
               /\ (Announced(b)' <=> Announced(b)) /\ (Once(b)' <=> Once(b))
    BY <1>16, <2>1, <2>3, LogDrop
  <2>4. ASSUME NEW b \in Subs
        PROVE  /\ Fresh(b)' => Fresh(b)
               /\ task'[b] = "gated" => Fresh(b)'
               /\ task'[b] \in {"running", "completed", "failed"} => Announced(b)'
    <3>1. CASE entry[b] = "running"
      BY <2>1, <2>2, <3>1 DEF Fresh
    <3>2. CASE entry[b] # "running"
      BY <2>1, <2>3, <3>2 DEF Fresh
    <3>. QED BY <3>1, <3>2
  <2>. QED BY <2>1, <2>4
<1>17. ASSUME Restart
      PROVE  Announcing'
  BY <1>17 DEF Restart, Fault, NoTurn, Fresh, Announced
<1>18. CASE CallStep
  BY <1>18, CallFrame DEF TurnUntouched, Fresh, Announced
<1>19. CASE UNCHANGED vars
  BY <1>19 DEF vars, Fresh, Announced
<1>. QED
  BY <1>1, <1>2, <1>3, <1>4, <1>5, <1>6, <1>7, <1>8, <1>9, <1>10, <1>11, <1>12, <1>13, <1>14,
     <1>15, <1>16, <1>17, <1>18, <1>19, Kinds DEF SubStep

\* A task loses its running entry only when it ends, or when something went
\* astray.
LEMMA TrackedStep ==
  ASSUME Inv, [Next]_vars
  PROVE  Tracked'
<1>. USE DEF Inv, Types, SubTypes, SubInv, TurnTypes, Mishaps, Phases, Phase, Launching,
         Announcing, Fresh, Announced, Tracked, Running
<1>1. ASSUME BeginTurn
      PROVE  Tracked'
  BY <1>1 DEF BeginTurn, NoTurn, mishaps, subvars
<1>2. ASSUME TurnExec
      PROVE  Tracked'
  BY <1>2 DEF TurnExec, TurnStep, mishaps, subvars
<1>3. ASSUME TurnMcp
      PROVE  Tracked'
  BY <1>3 DEF TurnMcp, TurnStep, mishaps, subvars
<1>4. ASSUME EndTurn
      PROVE  Tracked'
  BY <1>4 DEF EndTurn, NoTurn, mishaps, subvars
<1>5. ASSUME PollStatus
      PROVE  Tracked'
  BY <1>5 DEF PollStatus, mishaps
<1>6. ASSUME LeaveTurn
      PROVE  Tracked'
  BY <1>6 DEF LeaveTurn, NoTurn, mishaps
<1>7. ASSUME NEW b \in Subs, LaunchSubagent(b)
      PROVE  Tracked'
  BY <1>7 DEF LaunchSubagent, TurnStep, mishaps
<1>8. ASSUME NEW b \in Subs, LogStart(b)
      PROVE  Tracked'
  BY <1>8 DEF LogStart, TurnStep, Log, mishaps
<1>9. ASSUME NEW b \in Subs, InsertTask(b)
      PROVE  Tracked'
  BY <1>9 DEF InsertTask, TurnStep, mishaps
<1>10. ASSUME NEW b \in Subs, StoreHandle(b)
      PROVE  Tracked'
  BY <1>10 DEF StoreHandle, TurnStep, mishaps
<1>11. ASSUME NEW b \in Subs, Announce(b)
      PROVE  Tracked'
  BY <1>11 DEF Announce, TurnStep, Log, mishaps
<1>12. ASSUME NEW b \in Subs, CancelSubagent(b)
      PROVE  Tracked'
  BY <1>12 DEF CancelSubagent, Abort, Overlaps, GoAstray, mishaps
<1>13. ASSUME NEW b \in Subs, Finish(b)
      PROVE  Tracked'
  BY <1>13 DEF Finish, mishaps
<1>14. ASSUME NEW b \in Subs, LogOutcome(b)
      PROVE  Tracked'
  BY <1>14 DEF LogOutcome, Log, mishaps
<1>15. ASSUME NEW b \in Subs, LogCancel(b)
      PROVE  Tracked'
  BY <1>15 DEF LogCancel, Log, mishaps
<1>16. ASSUME NEW d \in Closers, DropSubagents(d)
      PROVE  Tracked'
  BY <1>16 DEF DropSubagents, Abort, Overlaps, GoAstray, mishaps
<1>17. ASSUME Restart
      PROVE  Tracked'
  BY <1>17 DEF Restart, Fault, NoTurn
<1>18. CASE CallStep
  BY <1>18, CallFrame DEF TurnUntouched
<1>19. CASE UNCHANGED vars
  BY <1>19 DEF vars
<1>. QED
  BY <1>1, <1>2, <1>3, <1>4, <1>5, <1>6, <1>7, <1>8, <1>9, <1>10, <1>11, <1>12, <1>13, <1>14,
     <1>15, <1>16, <1>17, <1>18, <1>19, Kinds DEF SubStep

\* A container leaves the map only into the hands of the call that stops it.
LEMMA ReachedStep ==
  ASSUME Inv, [Next]_vars
  PROVE  Reached'
<1>. USE RuntimeAssumption DEF Inv, Types, CallTypes, Mishaps, BoxInv, Calls, Closers,
         Containers, Reached, OneStart, Closing, PastSandbox
<1>1. ASSUME Created
      PROVE  Reached'
  BY <1>1 DEF Created, mishaps
<1>2. ASSUME RegisterDriver
      PROVE  Reached'
  BY <1>2 DEF RegisterDriver, mishaps
<1>3. ASSUME NEW c \in Starts, StartSandbox(c)
      PROVE  Reached'
  BY <1>3 DEF StartSandbox, OverlapsStart, GoAstray, Step, mishaps
<1>4. ASSUME NEW c \in Starts, InsertSandbox(c)
      PROVE  Reached'
  BY <1>4 DEF InsertSandbox, Up, GoAstray, Step, mishaps
<1>5. ASSUME NEW e \in Execs, AcceptExec(e)
      PROVE  Reached'
  BY <1>5 DEF AcceptExec, Step, mishaps
<1>6. ASSUME NEW e \in Execs, Exec(e)
      PROVE  Reached'
  BY <1>6 DEF Exec, Step, mishaps
<1>7. ASSUME NEW s \in Stops, StopSandbox(s)
      PROVE  Reached'
  BY <1>7 DEF StopSandbox, TakeSandbox, Step, mishaps
<1>8. ASSUME NEW s \in Stops \cup Closers, LockHandle(s)
      PROVE  Reached'
  BY <1>8 DEF LockHandle, Step, mishaps
<1>9. ASSUME NEW s \in Stops \cup Closers, Stopped(s)
      PROVE  Reached'
  BY <1>9 DEF Stopped, Down, Fault, Step, mishaps
<1>10. ASSUME NEW d \in Deletes, StartDelete(d)
      PROVE  Reached'
  BY <1>10 DEF StartDelete, Fault, mishaps
<1>11. ASSUME NEW k \in Revokes, Revoke(k)
      PROVE  Reached'
  BY <1>11 DEF Revoke, GoAstray, Fault
<1>12. ASSUME NEW d \in Closers, StopAtClose(d)
      PROVE  Reached'
  BY <1>12 DEF StopAtClose, TakeSandbox, Step, mishaps
<1>13. ASSUME NEW d \in Closers, CloseMcp(d)
      PROVE  Reached'
  BY <1>13 DEF CloseMcp, Step, mishaps
<1>14. ASSUME NEW d \in Closers, RemoveRuntime(d)
      PROVE  Reached'
  BY <1>14 DEF RemoveRuntime, Step, mishaps
<1>15. ASSUME NEW r \in Calls, Leave(r)
      PROVE  Reached'
  BY <1>15 DEF Leave, Up, Down, Fault, mishaps
<1>16. ASSUME NEW d \in Closers, DropSubagents(d)
      PROVE  Reached'
  BY <1>16 DEF DropSubagents, Abort, Overlaps, GoAstray, Running, Step, mishaps
<1>17. ASSUME Restart
      PROVE  Reached'
  BY <1>17 DEF Restart, Fault
<1>18. CASE SubStep
  BY <1>18, SubFrame DEF CallsUntouched
<1>19. CASE UNCHANGED vars
  BY <1>19 DEF vars
<1>. QED
  BY <1>1, <1>2, <1>3, <1>4, <1>5, <1>6, <1>7, <1>8, <1>9, <1>10, <1>11, <1>12, <1>13, <1>14,
     <1>15, <1>16, <1>17, <1>18, <1>19, Kinds DEF CallStep

\* A start that finds another on its way counts as astray; otherwise it is
\* alone, with no sandbox beside it.
LEMMA OneStartStep ==
  ASSUME Inv, [Next]_vars
  PROVE  OneStart'
<1>. USE RuntimeAssumption DEF Inv, Types, CallTypes, Mishaps, BoxInv, Calls, Closers,
         Containers, OneStart, Closing
<1>1. ASSUME Created
      PROVE  OneStart'
  BY <1>1 DEF Created, mishaps
<1>2. ASSUME RegisterDriver
      PROVE  OneStart'
  BY <1>2 DEF RegisterDriver, mishaps
<1>3. ASSUME NEW c \in Starts, StartSandbox(c)
      PROVE  OneStart'
  BY <1>3 DEF StartSandbox, OverlapsStart, GoAstray, Step, mishaps
<1>4. ASSUME NEW c \in Starts, InsertSandbox(c)
      PROVE  OneStart'
  BY <1>4 DEF InsertSandbox, Up, GoAstray, Step, mishaps
<1>5. ASSUME NEW e \in Execs, AcceptExec(e)
      PROVE  OneStart'
  BY <1>5 DEF AcceptExec, Step, mishaps
<1>6. ASSUME NEW e \in Execs, Exec(e)
      PROVE  OneStart'
  BY <1>6 DEF Exec, Step, mishaps
<1>7. ASSUME NEW s \in Stops, StopSandbox(s)
      PROVE  OneStart'
  BY <1>7 DEF StopSandbox, TakeSandbox, Step, mishaps
<1>8. ASSUME NEW s \in Stops \cup Closers, LockHandle(s)
      PROVE  OneStart'
  BY <1>8 DEF LockHandle, Step, mishaps
<1>9. ASSUME NEW s \in Stops \cup Closers, Stopped(s)
      PROVE  OneStart'
  BY <1>9 DEF Stopped, Down, Fault, Step, mishaps
<1>10. ASSUME NEW d \in Deletes, StartDelete(d)
      PROVE  OneStart'
  BY <1>10 DEF StartDelete, Fault, mishaps
<1>11. ASSUME NEW k \in Revokes, Revoke(k)
      PROVE  OneStart'
  BY <1>11 DEF Revoke, GoAstray, Fault
<1>12. ASSUME NEW d \in Closers, StopAtClose(d)
      PROVE  OneStart'
  BY <1>12 DEF StopAtClose, TakeSandbox, Step, mishaps
<1>13. ASSUME NEW d \in Closers, CloseMcp(d)
      PROVE  OneStart'
  BY <1>13 DEF CloseMcp, Step, mishaps
<1>14. ASSUME NEW d \in Closers, RemoveRuntime(d)
      PROVE  OneStart'
  BY <1>14 DEF RemoveRuntime, Step, mishaps
<1>15. ASSUME NEW r \in Calls, Leave(r)
      PROVE  OneStart'
  BY <1>15 DEF Leave, Up, Down, Fault, mishaps
<1>16. ASSUME NEW d \in Closers, DropSubagents(d)
      PROVE  OneStart'
  BY <1>16 DEF DropSubagents, Abort, Overlaps, GoAstray, Running, Step, mishaps
<1>17. ASSUME Restart
      PROVE  OneStart'
  BY <1>17 DEF Restart, Fault
<1>18. CASE SubStep
  BY <1>18, SubFrame DEF CallsUntouched
<1>19. CASE UNCHANGED vars
  BY <1>19 DEF vars
<1>. QED
  BY <1>1, <1>2, <1>3, <1>4, <1>5, <1>6, <1>7, <1>8, <1>9, <1>10, <1>11, <1>12, <1>13, <1>14,
     <1>15, <1>16, <1>17, <1>18, <1>19, Kinds DEF CallStep

\* What a close has found gone stays gone: no start or create is left to bring
\* it back.
LEMMA ClosingStep ==
  ASSUME Inv, [Next]_vars
  PROVE  Closing'
<1>. USE RuntimeAssumption DEF Inv, Types, CallTypes, Mishaps, BoxInv, Calls, Closers,
         Containers, OneStart, Closing, PastSandbox
<1>1. ASSUME Created
      PROVE  Closing'
  BY <1>1 DEF Created, mishaps
<1>2. ASSUME RegisterDriver
      PROVE  Closing'
  BY <1>2 DEF RegisterDriver, mishaps
<1>3. ASSUME NEW c \in Starts, StartSandbox(c)
      PROVE  Closing'
  BY <1>3 DEF StartSandbox, OverlapsStart, GoAstray, Step, mishaps
<1>4. ASSUME NEW c \in Starts, InsertSandbox(c)
      PROVE  Closing'
  BY <1>4 DEF InsertSandbox, Up, GoAstray, Step, mishaps
<1>5. ASSUME NEW e \in Execs, AcceptExec(e)
      PROVE  Closing'
  BY <1>5 DEF AcceptExec, Step, mishaps
<1>6. ASSUME NEW e \in Execs, Exec(e)
      PROVE  Closing'
  BY <1>6 DEF Exec, Step, mishaps
<1>7. ASSUME NEW s \in Stops, StopSandbox(s)
      PROVE  Closing'
  BY <1>7 DEF StopSandbox, TakeSandbox, Step, mishaps
<1>8. ASSUME NEW s \in Stops \cup Closers, LockHandle(s)
      PROVE  Closing'
  BY <1>8 DEF LockHandle, Step, mishaps
<1>9. ASSUME NEW s \in Stops \cup Closers, Stopped(s)
      PROVE  Closing'
  BY <1>9 DEF Stopped, Down, Fault, Step, mishaps
<1>10. ASSUME NEW d \in Deletes, StartDelete(d)
      PROVE  Closing'
  BY <1>10 DEF StartDelete, Fault, mishaps
<1>11. ASSUME NEW k \in Revokes, Revoke(k)
      PROVE  Closing'
  BY <1>11 DEF Revoke, GoAstray, Fault
<1>12. ASSUME NEW d \in Closers, StopAtClose(d)
      PROVE  Closing'
  BY <1>12 DEF StopAtClose, TakeSandbox, Step, mishaps
<1>13. ASSUME NEW d \in Closers, CloseMcp(d)
      PROVE  Closing'
  BY <1>13 DEF CloseMcp, Step, mishaps
<1>14. ASSUME NEW d \in Closers, RemoveRuntime(d)
      PROVE  Closing'
  BY <1>14 DEF RemoveRuntime, Step, mishaps
<1>15. ASSUME NEW r \in Calls, Leave(r)
      PROVE  Closing'
  BY <1>15 DEF Leave, Up, Down, Fault, mishaps
<1>16. ASSUME NEW d \in Closers, DropSubagents(d)
      PROVE  Closing'
  BY <1>16 DEF DropSubagents, Abort, Overlaps, GoAstray, Running, Step, mishaps
<1>17. ASSUME Restart
      PROVE  Closing'
  BY <1>17 DEF Restart, Fault
<1>18. CASE SubStep
  BY <1>18, SubFrame DEF CallsUntouched
<1>19. CASE UNCHANGED vars
  BY SMTT(30), <1>19 DEF vars
<1>. QED
  BY <1>1, <1>2, <1>3, <1>4, <1>5, <1>6, <1>7, <1>8, <1>9, <1>10, <1>11, <1>12, <1>13, <1>14,
     <1>15, <1>16, <1>17, <1>18, <1>19, Kinds DEF CallStep

\* Handles are only ever copied from the map, where a start put them.
LEMMA KnownStep ==
  ASSUME Inv, [Next]_vars
  PROVE  Known'
<1>. USE RuntimeAssumption DEF Inv, Types, CallTypes, Mishaps, BoxInv, Calls, Closers,
         Containers, TurnTypes, SubTypes, SubInv, Phases, Phase, Launching, Known
<1>1. ASSUME Created
      PROVE  Known'
  BY <1>1 DEF Created, subvars, mishaps
<1>2. ASSUME RegisterDriver
      PROVE  Known'
  BY <1>2 DEF RegisterDriver, subvars, mishaps
<1>3. ASSUME NEW c \in Starts, StartSandbox(c)
      PROVE  Known'
  BY <1>3 DEF StartSandbox, OverlapsStart, GoAstray, Step, subvars, mishaps
<1>4. ASSUME NEW c \in Starts, InsertSandbox(c)
      PROVE  Known'
  BY <1>4 DEF InsertSandbox, Up, GoAstray, Step, subvars, mishaps
<1>5. ASSUME NEW e \in Execs, AcceptExec(e)
      PROVE  Known'
  BY <1>5 DEF AcceptExec, Step, subvars, mishaps
<1>6. ASSUME NEW e \in Execs, Exec(e)
      PROVE  Known'
  BY <1>6 DEF Exec, Step, subvars, mishaps
<1>7. ASSUME NEW s \in Stops, StopSandbox(s)
      PROVE  Known'
  BY <1>7 DEF StopSandbox, TakeSandbox, Step, subvars, mishaps
<1>8. ASSUME NEW s \in Stops \cup Closers, LockHandle(s)
      PROVE  Known'
  BY <1>8 DEF LockHandle, Step, subvars, mishaps
<1>9. ASSUME NEW s \in Stops \cup Closers, Stopped(s)
      PROVE  Known'
  BY <1>9 DEF Stopped, Down, Fault, Step, subvars, mishaps
<1>10. ASSUME NEW d \in Deletes, StartDelete(d)
      PROVE  Known'
  BY <1>10 DEF StartDelete, Fault, subvars, mishaps
<1>11. ASSUME NEW k \in Revokes, Revoke(k)
      PROVE  Known'
  BY <1>11 DEF Revoke, GoAstray, Fault, subvars
<1>12. ASSUME NEW d \in Closers, StopAtClose(d)
      PROVE  Known'
  BY <1>12 DEF StopAtClose, TakeSandbox, Step, subvars, mishaps
<1>13. ASSUME NEW d \in Closers, CloseMcp(d)
      PROVE  Known'
  BY <1>13 DEF CloseMcp, Step, subvars, mishaps
<1>14. ASSUME NEW d \in Closers, RemoveRuntime(d)
      PROVE  Known'
  BY <1>14 DEF RemoveRuntime, Step, subvars, mishaps
<1>15. ASSUME NEW r \in Calls, Leave(r)
      PROVE  Known'
  BY <1>15 DEF Leave, Up, Down, Fault, subvars, mishaps
<1>16. ASSUME BeginTurn
      PROVE  Known'
  BY <1>16 DEF BeginTurn, NoTurn, subvars, mishaps
<1>17. ASSUME TurnExec
      PROVE  Known'
  <2>1. turn'.sandbox = turn.sandbox /\ turn'.step \in {"ask", "wait", "exec"} /\ turn.step \in {"ask", "wait", "exec"}
    BY <1>17 DEF TurnExec, TurnStep
  <2>. QED BY <1>17, <2>1 DEF TurnExec, subvars
<1>18. ASSUME TurnMcp
      PROVE  Known'
  BY <1>18 DEF TurnMcp, TurnStep, subvars, mishaps
<1>19. ASSUME EndTurn
      PROVE  Known'
  BY <1>19 DEF EndTurn, NoTurn, subvars, mishaps
<1>20. ASSUME PollStatus
      PROVE  Known'
  BY <1>20 DEF PollStatus, mishaps
<1>21. ASSUME LeaveTurn
      PROVE  Known'
  BY <1>21 DEF LeaveTurn, NoTurn, mishaps
<1>22. ASSUME NEW b \in Subs, LaunchSubagent(b)
      PROVE  Known'
  BY <1>22 DEF LaunchSubagent, TurnStep, mishaps
<1>23. ASSUME NEW b \in Subs, LogStart(b)
      PROVE  Known'
  BY <1>23 DEF LogStart, TurnStep, Log, mishaps
<1>24. ASSUME NEW b \in Subs, InsertTask(b)
      PROVE  Known'
  BY <1>24 DEF InsertTask, TurnStep, mishaps
<1>25. ASSUME NEW b \in Subs, StoreHandle(b)
      PROVE  Known'
  BY <1>25 DEF StoreHandle, TurnStep, mishaps
<1>26. ASSUME NEW b \in Subs, Announce(b)
      PROVE  Known'
  BY <1>26 DEF Announce, TurnStep, Log, mishaps
<1>27. ASSUME NEW b \in Subs, CancelSubagent(b)
      PROVE  Known'
  BY <1>27 DEF CancelSubagent, Abort, Overlaps, GoAstray, mishaps
<1>28. ASSUME NEW b \in Subs, Finish(b)
      PROVE  Known'
  BY <1>28 DEF Finish, mishaps
<1>29. ASSUME NEW b \in Subs, LogOutcome(b)
      PROVE  Known'
  BY <1>29 DEF LogOutcome, Log, mishaps
<1>30. ASSUME NEW b \in Subs, LogCancel(b)
      PROVE  Known'
  BY <1>30 DEF LogCancel, Log, mishaps
<1>31. ASSUME NEW d \in Closers, DropSubagents(d)
      PROVE  Known'
  BY <1>31 DEF DropSubagents, Abort, Overlaps, GoAstray, Running, Step, mishaps
<1>32. ASSUME Restart
      PROVE  Known'
  BY <1>32 DEF Restart, Fault, NoTurn
<1>33. CASE UNCHANGED vars
  BY <1>33 DEF vars
<1>. QED
  BY <1>1, <1>2, <1>3, <1>4, <1>5, <1>6, <1>7, <1>8, <1>9, <1>10, <1>11, <1>12, <1>13, <1>14,
     <1>15, <1>16, <1>17, <1>18, <1>19, <1>20, <1>21, <1>22, <1>23, <1>24, <1>25, <1>26, <1>27, <1>28,
     <1>29, <1>30, <1>31, <1>32, <1>33, Kinds DEF CallStep, SubStep

\* As few running subagents as before, or fewer, and no new launch.
LEMMA Fewer ==
  ASSUME Slots, entry' \in [Subs -> {"absent", "running", "completed", "failed", "cancelled"}],
         \A b \in Subs : entry'[b] = "running" => entry[b] = "running",
         \A b \in Subs : task'[b] = "launching" => task[b] = "launching"
  PROVE  Slots'
<1>1. Running' \subseteq Running
  BY DEF Running
<1>2. IsFiniteSet(Running') /\ Cardinality(Running') <= Cardinality(Running)
  BY <1>1, FS_Subset DEF Slots
<1>3. Cardinality(Running) \in Nat /\ Cardinality(Running') \in Nat
  BY <1>2, FS_CardinalityType DEF Slots
<1>. QED
  BY <1>2, <1>3, RuntimeAssumption DEF Slots

\* A slot is taken only after the limit was checked, by the one launch there is.
LEMMA SlotsStep ==
  ASSUME Inv, [Next]_vars
  PROVE  Slots'
<1>. USE DEF Inv, Types, SubTypes, SubInv, Phases, Phase, Launching
<1>1. ASSUME BeginTurn
      PROVE  Slots'
  BY <1>1, Fewer DEF BeginTurn, subvars
<1>2. ASSUME TurnExec
      PROVE  Slots'
  BY <1>2, Fewer DEF TurnExec, subvars
<1>3. ASSUME TurnMcp
      PROVE  Slots'
  BY <1>3, Fewer DEF TurnMcp, subvars
<1>4. ASSUME EndTurn
      PROVE  Slots'
  BY <1>4, Fewer DEF EndTurn, subvars
<1>5. ASSUME PollStatus
      PROVE  Slots'
  BY <1>5, Fewer DEF PollStatus
<1>6. ASSUME LeaveTurn
      PROVE  Slots'
  BY <1>6, Fewer DEF LeaveTurn
<1>7. ASSUME NEW b \in Subs, LaunchSubagent(b)
      PROVE  Slots'
  BY <1>7 DEF LaunchSubagent, HasSlot, Slots, Running
<1>8. ASSUME NEW b \in Subs, LogStart(b)
      PROVE  Slots'
  BY <1>8, Fewer DEF LogStart
<1>9. ASSUME NEW b \in Subs, InsertTask(b)
      PROVE  Slots'
  <2>1. Running' = Running \cup {b} /\ b \notin Running
    BY <1>9 DEF InsertTask, Running
  <2>2. IsFiniteSet(Running') /\ Cardinality(Running') = Cardinality(Running) + 1
    BY <2>1, FS_AddElement DEF Slots
  <2>3. Cardinality(Running) < MaxSubs /\ Cardinality(Running) \in Nat
    BY <1>9, FS_CardinalityType DEF InsertTask, Slots
  <2>4. \A a \in Subs : task'[a] # "launching"
    BY <1>9 DEF InsertTask
  <2>. QED BY <2>2, <2>3, <2>4, RuntimeAssumption DEF Slots
<1>10. ASSUME NEW b \in Subs, StoreHandle(b)
      PROVE  Slots'
  BY <1>10, Fewer DEF StoreHandle
<1>11. ASSUME NEW b \in Subs, Announce(b)
      PROVE  Slots'
  BY <1>11, Fewer DEF Announce
<1>12. ASSUME NEW b \in Subs, CancelSubagent(b)
      PROVE  Slots'
  BY <1>12, Fewer DEF CancelSubagent, Abort
<1>13. ASSUME NEW b \in Subs, Finish(b)
      PROVE  Slots'
  <2>1. entry' \in [Subs -> {"absent", "running", "completed", "failed", "cancelled"}]
    BY ZenonT(60), <1>13 DEF Finish
  <2>2. \A a \in Subs : entry'[a] = "running" => entry[a] = "running"
    BY <1>13 DEF Finish
  <2>4. \A a \in Subs : task'[a] = "launching" => task[a] = "launching"
    BY <1>13 DEF Finish
  <2>3. Slots
    OBVIOUS
  <2>. QED BY ONLY <2>1, <2>2, <2>3, <2>4, Fewer
<1>14. ASSUME NEW b \in Subs, LogOutcome(b)
      PROVE  Slots'
  BY <1>14, Fewer DEF LogOutcome
<1>15. ASSUME NEW b \in Subs, LogCancel(b)
      PROVE  Slots'
  BY <1>15, Fewer DEF LogCancel
<1>16. ASSUME NEW d \in Closers, DropSubagents(d)
      PROVE  Slots'
  BY <1>16, Fewer DEF DropSubagents, Abort
<1>17. ASSUME Restart
      PROVE  Slots'
  BY <1>17, Fewer DEF Restart
<1>18. CASE CallStep
  BY <1>18, CallFrame, Fewer DEF TurnUntouched
<1>19. CASE UNCHANGED vars
  BY <1>19, Fewer DEF vars
<1>. QED
  BY <1>1, <1>2, <1>3, <1>4, <1>5, <1>6, <1>7, <1>8, <1>9, <1>10, <1>11, <1>12, <1>13, <1>14,
     <1>15, <1>16, <1>17, <1>18, <1>19, Kinds DEF SubStep

-----------------------------------------------------------------------------
LEMMA InitInv == Init => Inv
<1>. SUFFICES ASSUME Init
              PROVE  Inv
  OBVIOUS
<1>1. Types
  <2>1. CallTypes
    BY DEF Init, CallTypes
  <2>4. Mishaps
    <3>1. astray = FALSE /\ faults = 0
      BY DEF Init
    <3>2. astray \in BOOLEAN
      BY <3>1
    <3>3. faults \in 0 .. MaxFaults
      BY <3>1, RuntimeAssumption
    <3>. QED BY <3>2, <3>3 DEF Mishaps
  <2>2. TurnTypes
    BY RuntimeAssumption DEF Init, TurnTypes, NoTurn
  <2>3. SubTypes
    BY DEF Init, SubTypes
  <2>. QED BY <2>1, <2>2, <2>3, <2>4 DEF Types
<1>2. Phases /\ Launching /\ Announcing /\ Tracked
  BY DEF Init, NoTurn, Phases, Phase, Launching, Announcing, Fresh, Announced, Tracked
<1>3. Events
  BY DEF Init, Events, Outcome, Once, Pending, Ended
<1>4. Slots
  <2>1. Running = {}
    BY DEF Init, Running
  <2>. QED BY <2>1, FS_EmptySet, RuntimeAssumption DEF Init, Slots
<1>5. BoxInv
  BY DEF Init, BoxInv, Reached, OneStart, Closing, Known, NoTurn, PastSandbox, Calls, Closers,
     Containers
<1>. QED
  BY <1>1, <1>2, <1>3, <1>4, <1>5 DEF Inv, SubInv

LEMMA NextInv == Inv /\ [Next]_vars => Inv'
<1>. SUFFICES ASSUME Inv, [Next]_vars
              PROVE  Inv'
  OBVIOUS
<1>1. Types'
  BY TurnTypesStep, CallTypesStep, SubTypesStep, MishapsStep DEF Types
<1>2. SubInv'
  BY PhasesStep, LaunchingStep, EventsStep, SlotsStep, AnnouncingStep, TrackedStep DEF SubInv
<1>3. BoxInv'
  BY ReachedStep, OneStartStep, ClosingStep, KnownStep DEF BoxInv
<1>. QED
  BY <1>1, <1>2, <1>3 DEF Inv

LEMMA Invariant == Spec => []Inv
BY InitInv, NextInv, PTL DEF Spec

-----------------------------------------------------------------------------
\* Every map, call, task and event has its type, for any number of calls and
\* subagents; a handle is stored only in an entry there is.
THEOREM RuntimeTypes == Spec => []TypeOK
<1>1. Inv => TypeOK
  BY DEF Inv, Types, CallTypes, TurnTypes, SubTypes, Mishaps, Lifecycle, TypeOK
<1>. QED
  BY <1>1, Invariant, PTL

\* As long as nothing went astray, a container that runs is in the session's
\* map or in the hands of a call that stops it, and a process has an entry that
\* holds its task's handle, or will before the launch goes on: the server can
\* still free whatever it has started.
THEOREM NothingIsOrphaned == Spec => []NothingOrphaned
<1>1. Inv => NothingOrphaned
  BY DEF Inv, SubInv, BoxInv, Reached, Tracked, NothingOrphaned
<1>. QED
  BY <1>1, Invariant, PTL

\* A DELETE that returned, with no call or turn left, has stopped the container
\* and shut the connections down, whatever started or ended meanwhile.
THEOREM QuietAfterClose == Spec => []ClosedIsQuiet
<1>1. Inv => ClosedIsQuiet
  <2>. SUFFICES ASSUME Inv, ~astray, NEW d \in Deletes, at[d] = "done",
                       turn = NoTurn, \A r \in Calls : at[r] \in {"idle", "done"}
                PROVE  /\ \A c \in Containers : container[c] # "running"
                       /\ \A b \in Subs : task[b] = "running" => container[home[b]] = "stopped"
                       /\ mcp \in {"none", "down"}
    BY DEF ClosedIsQuiet
  <2>1. sandbox = None /\ mcp # "retained"
    BY DEF Inv, BoxInv, Closing, PastSandbox
  <2>2. ASSUME NEW c \in Containers
        PROVE  container[c] # "running"
    BY <2>1, RuntimeAssumption DEF Inv, BoxInv, Reached, Containers, Calls, Closers
  <2>3. ASSUME NEW b \in Subs, task[b] = "running"
        PROVE  container[home[b]] = "stopped"
    <3>1. home[b] \in Containers /\ container[home[b]] # "none"
      BY <2>3 DEF Inv, Types, SubTypes, BoxInv, Known
    <3>. QED BY <2>2, <3>1 DEF Inv, Types, CallTypes
  <2>4. mcp # "taken"
    BY DEF Inv, BoxInv, Closing, Calls
  <2>. QED BY <2>1, <2>2, <2>3, <2>4 DEF Inv, Types, CallTypes
<1>. QED
  BY <1>1, Invariant, PTL

\* Whichever of its own end, a cancellation and a close comes first logs the
\* terminal event of a subagent, and nothing logs a second one.
THEOREM EndsOnce == Spec => []EndedOnce
<1>1. Inv => EndedOnce
  BY DEF Inv, SubInv, Phases, Phase, Events, Outcome, Once, Pending, EndedOnce
<1>. QED
  BY <1>1, Invariant, PTL

\* The limit holds although it is checked before the handle is locked and the
\* start event logged: only one launch is under way, and it keeps its slot.
THEOREM SlotLimit == Spec => []SlotsBounded
<1>1. Inv => SlotsBounded
  BY DEF Inv, SubInv, Slots, SlotsBounded
<1>. QED
  BY <1>1, Invariant, PTL

-----------------------------------------------------------------------------
(***************************************************************************)
(* The keys, for any profiles, client keys and sessions, and any number of *)
(* crashes: their types, that a revoked client is out, that an open        *)
(* session has a key, and that a secured server has one known admin key.   *)
(*                                                                         *)
(* The promises are not inductive alone.  What is missing is what a call   *)
(* on its way has seen: its client is known and, while it is not revoked   *)
(* beside the call, active; the session it was checked against is there.   *)
(* For the admin key it is where the start of the server has got.          *)
(***************************************************************************)
CallsKnown ==
  \A c \in Clients :
    /\ call[c] # NoCall => client[c] # "none" /\ (client[c] = "active" \/ c \in raced)
    /\ call[c].step = "checked" => call[c].session \in Sessions
    /\ call[c].step = "checked" /\ call[c].op = "join" => session[call[c].session] # "none"

AdminKnown ==
  /\ boot \in {"revoked", "generate"} => admin = {}
  /\ boot = "write" => made \in Generated /\ admin = {made} /\ made \in unwritten
  /\ \A j, k \in admin : j = k
  /\ admin \subseteq {file, hash} \cup unwritten
  /\ Serving /\ secured => admin # {}

KeysInv == KeysTypeOK /\ CallsKnown /\ RevokedIsOut /\ OpenIsReachable /\ AdminKnown

LEMMA KeysAtFirst == KeysInit => KeysInv
<1> SUFFICES ASSUME KeysInit PROVE KeysInv
  OBVIOUS
<1> USE KeysAssumption DEF KeysInit, NoCall, Generated, AdminKey, Serving
<1>1. KeysTypeOK BY DEF KeysTypeOK
<1>2. CallsKnown BY DEF CallsKnown
<1>3. RevokedIsOut BY DEF RevokedIsOut
<1>4. OpenIsReachable BY DEF OpenIsReachable
<1>5. AdminKnown BY DEF AdminKnown
<1> QED BY <1>1, <1>2, <1>3, <1>4, <1>5 DEF KeysInv

\* A step of the client's calls, of the admin API, of the server's start.
ClientStep ==
  \/ \E c \in Clients : CheckProfile(c) \/ Refuse(c) \/ Reject(c) \/ NoProvider(c)
                       \/ Open(c) \/ Join(c)
  \/ \E c \in Clients, op \in {"create", "join"} : Authenticate(c, op)
  \/ \E c \in Clients, s \in Sessions : Close(c, s)
  \/ \E s \in Sessions : FailTurn(s)

AdminStep ==
  \/ \E p \in Profiles : CreateProfile(p) \/ DeleteProfile(p)
  \/ \E c \in Clients : CreateClientKey(c) \/ RevokeKey(c)

BootStep ==
  BootOpen \/ BootSecured \/ Rotate \/ RemoveKeyFile \/ Generate \/ WriteKeyFile \/ Stop

LEMMA StepKinds == KeysNext => ClientStep \/ AdminStep \/ BootStep
BY DEF KeysNext, ClientStep, AdminStep, BootStep

-----------------------------------------------------------------------------
(* The calls of the clients.                                               *)

LEMMA CheckKeepsInv == ASSUME KeysInv, NEW c \in Clients, CheckProfile(c) PROVE KeysInv'
<1> USE KeysAssumption DEF KeysInv, CheckProfile, store, start, hist, FailedOpen, Joinable, NoCall
<1>1. KeysTypeOK' BY SMTT(30) DEF KeysTypeOK
<1>2. CallsKnown' BY DEF CallsKnown, KeysTypeOK
<1>3. RevokedIsOut' BY DEF RevokedIsOut
<1>4. OpenIsReachable'
  <2>1. /\ UNCHANGED <<active, cut>>
        /\ UNCHANGED session \/ \E s \in Sessions : session' = [session EXCEPT ![s] = "error"]
    OBVIOUS
  <2> QED BY <2>1 DEF OpenIsReachable, KeysTypeOK
<1>5. AdminKnown' BY DEF AdminKnown, Serving
<1> QED BY <1>1, <1>2, <1>3, <1>4, <1>5

LEMMA RejectKeepsInv ==
  ASSUME KeysInv, NEW c \in Clients, Refuse(c) \/ Reject(c) PROVE KeysInv'
<1> USE KeysAssumption DEF KeysInv, Refuse, Reject, store, start, hist, NoCall
<1>1. KeysTypeOK' BY SMTT(30) DEF KeysTypeOK
<1>2. CallsKnown' BY DEF CallsKnown, KeysTypeOK
<1>3. RevokedIsOut' BY DEF RevokedIsOut
<1>4. OpenIsReachable' BY DEF OpenIsReachable
<1>5. AdminKnown' BY DEF AdminKnown, Serving
<1> QED BY <1>1, <1>2, <1>3, <1>4, <1>5

LEMMA NoProviderKeepsInv == ASSUME KeysInv, NEW c \in Clients, NoProvider(c) PROVE KeysInv'
<1> USE KeysAssumption DEF KeysInv, NoProvider, start, hist, FailedOpen, NoCall
<1>1. KeysTypeOK'
  <2> PICK s \in Sessions : FailedOpen(s, ProfileOf[c]) OBVIOUS
  <2>1. /\ minted' \subseteq {t \in Sessions : session'[t] # "none"}
                          \X {d \in Clients : client'[d] # "none"}
        /\ active' \subseteq minted'
    BY DEF KeysTypeOK
  <2>2. call' \in [Clients -> [op: {"none", "create", "join"}, session: Sessions \cup {Nil},
                              step: {"none", "authenticated", "checked"}]]
    BY DEF KeysTypeOK
  <2> QED BY <2>1, <2>2 DEF KeysTypeOK
<1>2. CallsKnown' BY DEF CallsKnown, KeysTypeOK
<1>3. RevokedIsOut' BY DEF RevokedIsOut
<1>4. OpenIsReachable' BY ZenonT(60) DEF OpenIsReachable, KeysTypeOK
<1>5. AdminKnown' BY DEF AdminKnown, Serving
<1> QED BY <1>1, <1>2, <1>3, <1>4, <1>5

LEMMA OpenKeepsInv == ASSUME KeysInv, NEW c \in Clients, Open(c) PROVE KeysInv'
<1> DEFINE s == call[c].session
<1>0. /\ s \in Sessions /\ client[c] # "none" /\ (client[c] = "active" \/ c \in raced)
      /\ call[c].step = "checked" /\ session' = [session EXCEPT ![s] = "open"]
      /\ owner' = [owner EXCEPT ![s] = ProfileOf[c]]
      /\ UNCHANGED <<profile, client, admin, file, hash, secured, made, raced, unwritten>>
  BY DEF Open, KeysInv, CallsKnown, KeysTypeOK, NoCall
<1>1. CASE /\ Mint(c, s) /\ call' = [call EXCEPT ![c] = NoCall]
           /\ UNCHANGED <<boot, crashes, cut>>
  <2> USE <1>0, <1>1, KeysAssumption DEF KeysInv, Mint, NoCall
  <2>1. KeysTypeOK'
    <3>1. /\ minted' \subseteq {t \in Sessions : session'[t] # "none"}
                            \X {d \in Clients : client'[d] # "none"}
          /\ active' \subseteq minted'
      BY DEF KeysTypeOK
    <3> QED BY <3>1 DEF KeysTypeOK
  <2>2. CallsKnown' BY DEF CallsKnown, KeysTypeOK
  <2>3. RevokedIsOut' BY DEF RevokedIsOut, KeysTypeOK
  <2>4. OpenIsReachable' BY DEF OpenIsReachable, KeysTypeOK
  <2>5. AdminKnown' BY DEF AdminKnown, Serving
  <2> QED BY <2>1, <2>2, <2>3, <2>4, <2>5
<1>2. CASE Mint(c, s) /\ Crash /\ UNCHANGED cut
  <2> USE <1>0, <1>2, KeysAssumption DEF KeysInv, Mint, NoCall, Crash
  <2>1. KeysTypeOK' BY DEF KeysTypeOK
  <2>2. CallsKnown' BY DEF CallsKnown, KeysTypeOK
  <2>3. RevokedIsOut' BY DEF RevokedIsOut, KeysTypeOK
  <2>4. OpenIsReachable' BY DEF OpenIsReachable, KeysTypeOK
  <2>5. AdminKnown' BY DEF AdminKnown, Serving
  <2> QED BY <2>1, <2>2, <2>3, <2>4, <2>5
<1>3. CASE Crash /\ cut' = cut \cup {s} /\ UNCHANGED <<minted, active>>
  <2> USE <1>0, <1>3, KeysAssumption DEF KeysInv, NoCall, Crash
  <2>1. KeysTypeOK' BY DEF KeysTypeOK
  <2>2. CallsKnown' BY DEF CallsKnown, KeysTypeOK
  <2>3. RevokedIsOut' BY DEF RevokedIsOut, KeysTypeOK
  <2>4. OpenIsReachable' BY DEF OpenIsReachable, KeysTypeOK
  <2>5. AdminKnown' BY DEF AdminKnown, Serving
  <2> QED BY <2>1, <2>2, <2>3, <2>4, <2>5
<1> QED BY <1>1, <1>2, <1>3 DEF Open

LEMMA JoinKeepsInv == ASSUME KeysInv, NEW c \in Clients, Join(c) PROVE KeysInv'
<1> USE KeysAssumption DEF KeysInv, Join, start, hist, Mint, NoCall
<1>1. KeysTypeOK' BY DEF KeysTypeOK, CallsKnown
<1>2. CallsKnown' BY DEF CallsKnown, KeysTypeOK
<1>3. RevokedIsOut' BY DEF RevokedIsOut, CallsKnown, KeysTypeOK
<1>4. OpenIsReachable' BY DEF OpenIsReachable
<1>5. AdminKnown' BY DEF AdminKnown, Serving
<1> QED BY <1>1, <1>2, <1>3, <1>4, <1>5

LEMMA AuthenticateKeepsInv ==
  ASSUME KeysInv, NEW c \in Clients, NEW op \in {"create", "join"}, Authenticate(c, op) PROVE KeysInv'
<1> USE KeysAssumption DEF KeysInv, Authenticate, KnownClient, store, start, hist, NoCall
<1>1. KeysTypeOK' BY DEF KeysTypeOK
<1>2. CallsKnown' BY DEF CallsKnown, KeysTypeOK
<1>3. RevokedIsOut' BY DEF RevokedIsOut
<1>4. OpenIsReachable' BY DEF OpenIsReachable
<1>5. AdminKnown' BY DEF AdminKnown, Serving
<1> QED BY <1>1, <1>2, <1>3, <1>4, <1>5

\* A session ends, by its client's call or a turn's failure.
LEMMA EndKeepsInv ==
  ASSUME KeysInv, NEW s \in Sessions, session[s] = "open", NEW end \in {"closed", "error"},
         session' = [session EXCEPT ![s] = end],
         UNCHANGED <<profile, client, owner, minted, active, call, start, hist>>
  PROVE  KeysInv'
<1> USE KeysAssumption DEF KeysInv, start, hist
<1>1. KeysTypeOK' BY DEF KeysTypeOK, NoCall
<1>2. CallsKnown' BY DEF CallsKnown, KeysTypeOK
<1>3. RevokedIsOut' BY DEF RevokedIsOut
<1>4. OpenIsReachable' BY DEF OpenIsReachable, KeysTypeOK
<1>5. AdminKnown' BY DEF AdminKnown, Serving
<1> QED BY <1>1, <1>2, <1>3, <1>4, <1>5

LEMMA ClientKeepsInv == KeysInv /\ ClientStep => KeysInv'
<1> SUFFICES ASSUME KeysInv, ClientStep PROVE KeysInv'
  OBVIOUS
<1>1. CASE \E c \in Clients, s \in Sessions : Close(c, s)
  <2> PICK c \in Clients, s \in Sessions : Close(c, s) BY <1>1
  <2> QED BY EndKeepsInv, "closed" \in {"closed", "error"} DEF Close
<1>2. CASE \E s \in Sessions : FailTurn(s)
  <2> PICK s \in Sessions : FailTurn(s) BY <1>2
  <2> QED BY EndKeepsInv, "error" \in {"closed", "error"} DEF FailTurn
<1> QED BY <1>1, <1>2, CheckKeepsInv, RejectKeepsInv, NoProviderKeepsInv, OpenKeepsInv, JoinKeepsInv,
           AuthenticateKeepsInv DEF ClientStep

-----------------------------------------------------------------------------
(* The admin API.                                                          *)

LEMMA ProfilesKeepInv ==
  ASSUME KeysInv, NEW p \in Profiles, CreateProfile(p) \/ DeleteProfile(p) PROVE KeysInv'
<1> USE KeysAssumption DEF KeysInv, CreateProfile, DeleteProfile, start, hist
<1>1. KeysTypeOK' BY DEF KeysTypeOK
<1>2. CallsKnown' BY DEF CallsKnown
<1>3. RevokedIsOut' BY DEF RevokedIsOut
<1>4. OpenIsReachable' BY DEF OpenIsReachable
<1>5. AdminKnown' BY DEF AdminKnown, Serving
<1> QED BY <1>1, <1>2, <1>3, <1>4, <1>5

LEMMA CreateKeyKeepsInv == ASSUME KeysInv, NEW c \in Clients, CreateClientKey(c) PROVE KeysInv'
<1> USE KeysAssumption DEF KeysInv, CreateClientKey, start, hist
<1>1. KeysTypeOK' BY DEF KeysTypeOK
<1>2. CallsKnown' BY DEF CallsKnown, KeysTypeOK
<1>3. RevokedIsOut' BY DEF RevokedIsOut, KeysTypeOK
<1>4. OpenIsReachable' BY DEF OpenIsReachable
<1>5. AdminKnown' BY DEF AdminKnown, Serving
<1> QED BY <1>1, <1>2, <1>3, <1>4, <1>5

\* Whatever statement of the revocation is the last.
LEMMA RevokeKeepsInv == ASSUME KeysInv, NEW c \in Clients, RevokeKey(c) PROVE KeysInv'
<1>0. /\ client[c] = "active" /\ client' = [client EXCEPT ![c] = "revoked"]
      /\ raced' = IF call[c] # NoCall THEN raced \cup {c} ELSE raced
      /\ UNCHANGED <<profile, owner, minted, admin, file, hash, secured, made, unwritten>>
  BY DEF RevokeKey
<1>1. CASE /\ active' = KeysLeft(c) /\ session' = ClosedFor(c, KeysLeft(c))
           /\ UNCHANGED <<call, crashes, boot, cut>>
  <2> USE <1>0, <1>1, KeysAssumption DEF KeysInv, KeysLeft, ClosedFor
  <2>1. KeysTypeOK' BY DEF KeysTypeOK, NoCall
  <2>2. CallsKnown' BY DEF CallsKnown, KeysTypeOK
  <2>3. RevokedIsOut' BY DEF RevokedIsOut, KeysTypeOK
  <2>4. OpenIsReachable'
    <3> SUFFICES ASSUME NEW s \in Sessions, session'[s] = "open", s \notin cut
                 PROVE  \E d \in Clients : <<s, d>> \in active'
      BY DEF OpenIsReachable
    <3>1. session[s] = "open" BY DEF KeysTypeOK
    <3>2. PICK d \in Clients : <<s, d>> \in active BY <3>1 DEF OpenIsReachable
    <3>3. CASE d # c BY <3>2, <3>3
    <3>4. CASE d = c BY <3>1, <3>2, <3>4 DEF KeysTypeOK
    <3> QED BY <3>3, <3>4
  <2>5. AdminKnown' BY DEF AdminKnown, Serving
  <2> QED BY <2>1, <2>2, <2>3, <2>4, <2>5
<1>2. CASE /\ Crash /\ active' = KeysLeft(c) /\ UNCHANGED session
           /\ cut' = cut \cup {s \in Sessions : <<s, c>> \in active}
  <2> USE <1>0, <1>2, KeysAssumption DEF KeysInv, KeysLeft, Crash, NoCall
  <2>1. KeysTypeOK' BY DEF KeysTypeOK
  <2>2. CallsKnown' BY DEF CallsKnown, KeysTypeOK
  <2>3. RevokedIsOut' BY DEF RevokedIsOut, KeysTypeOK
  <2>4. OpenIsReachable' BY DEF OpenIsReachable, KeysTypeOK
  <2>5. AdminKnown' BY DEF AdminKnown, Serving
  <2> QED BY <2>1, <2>2, <2>3, <2>4, <2>5
<1>3. CASE Crash /\ UNCHANGED <<session, active>> /\ cut' = cut \cup {c}
  <2> USE <1>0, <1>3, KeysAssumption DEF KeysInv, Crash, NoCall
  <2>1. KeysTypeOK' BY DEF KeysTypeOK
  <2>2. CallsKnown' BY DEF CallsKnown, KeysTypeOK
  <2>3. RevokedIsOut' BY DEF RevokedIsOut, KeysTypeOK
  <2>4. OpenIsReachable' BY DEF OpenIsReachable, KeysTypeOK
  <2>5. AdminKnown' BY DEF AdminKnown, Serving
  <2> QED BY <2>1, <2>2, <2>3, <2>4, <2>5
<1> QED BY <1>1, <1>2, <1>3 DEF RevokeKey

LEMMA AdminKeepsInv == KeysInv /\ AdminStep => KeysInv'
BY ProfilesKeepInv, CreateKeyKeepsInv, RevokeKeepsInv DEF AdminStep

-----------------------------------------------------------------------------
(* The start of the server.                                                *)

\* A step of the start leaves the clients, their keys and sessions alone.
LEMMA StartKeepsStore ==
  ASSUME KeysInv, BootStep PROVE CallsKnown' /\ RevokedIsOut' /\ OpenIsReachable'
<1>1. UNCHANGED <<store, cut, raced>> /\ (UNCHANGED call \/ call' = [c \in Clients |-> NoCall])
  BY DEF BootStep, BootOpen, BootSecured, Rotate, RemoveKeyFile, Generate, WriteKeyFile, Stop,
         Crash, Keep, Start
<1> USE <1>1 DEF KeysInv, store
<1>2. CallsKnown' BY DEF CallsKnown, NoCall
<1>3. RevokedIsOut' BY DEF RevokedIsOut
<1>4. OpenIsReachable' BY DEF OpenIsReachable
<1> QED BY <1>2, <1>3, <1>4

LEMMA StartKeepsTypes == ASSUME KeysInv, BootStep PROVE KeysTypeOK'
<1> USE KeysAssumption DEF KeysInv, KeysTypeOK, Keep, store, NoCall, Generated, AdminKey, Start, AddAdmin, RevokeAdmins
<1>1. CASE BootOpen BY ZenonT(60), <1>1 DEF BootOpen
<1>2. CASE BootSecured BY ZenonT(60), <1>2 DEF BootSecured
<1>3. CASE Rotate BY <1>3 DEF Rotate
<1>4. CASE RemoveKeyFile BY <1>4 DEF RemoveKeyFile
<1>5. CASE Generate BY <1>5 DEF Generate
<1>6. CASE WriteKeyFile BY <1>6 DEF WriteKeyFile, AdminKnown
<1>7. CASE Stop BY <1>7 DEF Stop, Crash
<1> QED BY <1>1, <1>2, <1>3, <1>4, <1>5, <1>6, <1>7 DEF BootStep

LEMMA StartKeepsAdmin == ASSUME KeysInv, BootStep PROVE AdminKnown'
<1> USE KeysAssumption DEF KeysInv, AdminKnown, Serving, Keep, Start, AddAdmin, RevokeAdmins
<1>1. CASE BootOpen BY <1>1 DEF BootOpen
<1>2. CASE BootSecured BY <1>2 DEF BootSecured
<1>3. CASE Rotate BY <1>3 DEF Rotate
<1>4. CASE RemoveKeyFile BY <1>4 DEF RemoveKeyFile
<1>5. CASE Generate
  <2>1. made + 1 \in Generated BY <1>5 DEF Generate, Generated, KeysTypeOK
  <2> QED BY <1>5, <2>1 DEF Generate
<1>6. CASE WriteKeyFile BY <1>6 DEF WriteKeyFile
<1>7. CASE Stop BY <1>7 DEF Stop, Crash
<1> QED BY <1>1, <1>2, <1>3, <1>4, <1>5, <1>6, <1>7 DEF BootStep

LEMMA StartKeepsInv == KeysInv /\ BootStep => KeysInv'
BY StartKeepsStore, StartKeepsTypes, StartKeepsAdmin DEF KeysInv

-----------------------------------------------------------------------------
LEMMA KeysInvariance == KeysSpec => []KeysInv
<1>1. KeysInv /\ UNCHANGED keyVars => KeysInv'
  <2> SUFFICES ASSUME KeysInv, UNCHANGED keyVars PROVE KeysInv'
    OBVIOUS
  <2> USE DEF KeysInv, keyVars, store, start, hist
  <2>1. KeysTypeOK' BY DEF KeysTypeOK
  <2>2. CallsKnown' BY DEF CallsKnown
  <2>3. RevokedIsOut' BY DEF RevokedIsOut
  <2>4. OpenIsReachable' BY DEF OpenIsReachable
  <2>5. AdminKnown' BY DEF AdminKnown, Serving
  <2> QED BY <2>1, <2>2, <2>3, <2>4, <2>5
<1>2. KeysInv /\ [KeysNext]_keyVars => KeysInv'
  BY <1>1, StepKinds, ClientKeepsInv, AdminKeepsInv, StartKeepsInv
<1> QED BY KeysAtFirst, <1>2, PTL DEF KeysSpec

\* Every session key belongs to a client key and a session that exist, however
\* calls, revocations and crashes follow each other.
THEOREM KeyTypes == KeysSpec => []KeysTypeOK
BY KeysInvariance, PTL DEF KeysInv

\* revoke_client_key: no key of a revoked client is left, but for calls of that
\* client on their way and revocations cut by a crash.
THEOREM Revocation == KeysSpec => []RevokedIsOut
BY KeysInvariance, PTL DEF KeysInv

\* create, join and the revocation's last statement: an open session always has
\* somebody who can use it, but for one that a crash cut off.
THEOREM Reachability == KeysSpec => []OpenIsReachable
BY KeysInvariance, PTL DEF KeysInv

\* bootstrap: a secured server has exactly one admin key, and its plaintext is
\* in the file, with the operator, or was never written.
THEOREM AdminKeyKnown == KeysSpec => []OneKnownAdminKey
<1>1. KeysInv => OneKnownAdminKey
  BY DEF KeysInv, OneKnownAdminKey, AdminKnown, KeysTypeOK
<1> QED BY KeysInvariance, <1>1, PTL

-----------------------------------------------------------------------------
(* The lists, a page at a time.                                            *)

Rowid     == Nat \ {0}
Rising(q) == \A i, j \in 1 .. Len(q) : i < j => q[i] < q[j]
Has(q, r) == \E i \in 1 .. Len(q) : q[i] = r

\* q is the first n rows beyond the cursor, or all of them.
Taken(shown, after, q, n) ==
  /\ q \in Seq(shown) /\ Len(q) <= n /\ Rising(q)
  /\ \A i \in 1 .. Len(q) : q[i] > after
  /\ \A r \in shown : r > after => Has(q, r) \/ r \in Beyond(shown, after, q)
  /\ Len(q) < n => Beyond(shown, after, q) = {}

LEMMA HasIs == ASSUME NEW S, NEW q \in Seq(S), NEW r PROVE Has(q, r) <=> r \in ToSet(q)
<1>1. DOMAIN q = 1 .. Len(q)
  BY LenProperties
<1>. QED
  BY <1>1 DEF Has, ToSet

LEMMA MinIs ==
  ASSUME NEW S \in SUBSET Nat, S # {}
  PROVE  Min(S) \in S /\ \A r \in S : Min(S) <= r
BY Least DEF Min

LEMMA OneMoreTakes ==
  ASSUME NEW shown \in SUBSET Rowid, NEW after \in Int, NEW n \in Nat, NEW q, Taken(shown, after, q, n)
  PROVE  Taken(shown, after, OneMore(shown, after, q), n + 1)
<1> DEFINE beyond == Beyond(shown, after, q)
           m      == Min(beyond)
           last   == IF q = <<>> THEN after ELSE Last(q)
<1>0. \A r \in shown : r \in Nat /\ r # 0 /\ r \in Int
  BY DEF Rowid
<1>1. q \in Seq(shown) /\ Len(q) \in Nat /\ Rising(q) /\ \A i \in 1 .. Len(q) : q[i] \in shown
  BY ElementOfSeq, LenProperties DEF Taken
<1>2. CASE beyond = {}
  <2>1. OneMore(shown, after, q) = q
    BY <1>2 DEF OneMore
  <2>. QED
    BY <1>1, <1>2, <2>1 DEF Taken
<1>3. CASE beyond # {}
  <2> DEFINE q2 == Append(q, m)
  <2>1. OneMore(shown, after, q) = q2
    BY <1>3 DEF OneMore
  <2>2. beyond \in SUBSET shown /\ beyond \in SUBSET Nat
    BY DEF Beyond, Rowid
  <2>3. m \in beyond /\ \A r \in beyond : m <= r
    BY <1>3, <2>2, MinIs
  <2>4. Len(q) = n
    BY <1>1, <1>3 DEF Taken
  <2>5. /\ q2 \in Seq(shown) /\ Len(q2) = n + 1 /\ q2[n + 1] = m
        /\ \A i \in 1 .. n : q2[i] = q[i]
    <3> HIDE DEF m
    <3>. QED
      BY <1>1, <2>2, <2>3, <2>4, AppendProperties
  <2>6. last \in Int /\ m > last /\ m \in Nat /\ \A r \in shown : r > last <=> r \in beyond
    <3>1. last \in Int
      <4>1. CASE q = <<>>
        BY <4>1
      <4>2. CASE q # <<>>
        <5>1. Len(q) \in 1 .. Len(q)
          BY <1>1, <4>2, EmptySeq
        <5>2. q[Len(q)] \in shown
          BY <1>1, <5>1
        <5>. QED
          BY <1>0, <4>2, <5>2 DEF Last
      <4>. QED
        BY <4>1, <4>2
    <3>2. beyond = {r \in shown : r > last}
      BY DEF Beyond
    <3> HIDE DEF last, m, beyond
    <3>. QED
      BY <2>2, <2>3, <3>1, <3>2
  <2>7. last >= after /\ \A i \in 1 .. n : q[i] <= last
    <3>1. CASE q = <<>>
      <4>1. n = 0
        BY <2>4, <3>1, EmptySeq
      <4>. QED
        BY <3>1, <4>1
    <3>2. CASE q # <<>>
      <4>1. n \in 1 .. n /\ last = q[n]
        BY <1>1, <2>4, <3>2, EmptySeq DEF Last
      <4>2. ASSUME NEW i \in 1 .. n
            PROVE  q[i] \in Int /\ q[i] > after /\ (i < n => q[i] < q[n])
        <5>1. q[i] \in shown
          BY <1>1, <2>4
        <5>2. q[i] \in Int
          BY <1>0, <5>1
        <5>. QED
          BY <1>1, <2>4, <4>1, <5>2 DEF Taken, Rising
      <4> HIDE DEF last
      <4>. QED
        BY <4>1, <4>2
    <3>. QED
      BY <3>1, <3>2
  <2>8. Last(q2) = m /\ q2 # <<>>
    <3> HIDE DEF m, q2
    <3>. QED
      BY <2>5, EmptySeq DEF Last
  <2>9. Rising(q2)
    <3> SUFFICES ASSUME NEW i \in 1 .. n + 1, NEW j \in 1 .. n + 1, i < j PROVE q2[i] < q2[j]
      BY <2>5 DEF Rising
    <3> HIDE DEF q2, m, last
    <3>1. i \in 1 .. n /\ q2[i] = q[i] /\ q[i] \in shown
      BY <1>1, <2>4, <2>5
    <3>2. CASE j = n + 1
      <4>1. q[i] \in Int /\ q[i] <= last
        BY <1>0, <2>7, <3>1
      <4>. QED
        BY <2>5, <2>6, <3>1, <3>2, <4>1
    <3>3. CASE j \in 1 .. n
      <4>1. q[i] < q[j]
        BY <1>1, <2>4, <3>1, <3>3 DEF Rising
      <4>. QED
        BY <2>5, <3>1, <3>3, <4>1
    <3>. QED
      BY <3>2, <3>3
  <2>10. \A i \in 1 .. n + 1 : q2[i] > after
    <3> SUFFICES ASSUME NEW i \in 1 .. n + 1 PROVE q2[i] > after
      OBVIOUS
    <3> HIDE DEF q2, m, last
    <3>1. CASE i = n + 1
      BY <2>5, <2>6, <2>7, <3>1
    <3>2. CASE i \in 1 .. n
      BY <2>4, <2>5, <3>2 DEF Taken
    <3>. QED
      BY <3>1, <3>2
  <2>11. ASSUME NEW r \in shown, r > after
         PROVE  Has(q2, r) \/ r \in Beyond(shown, after, q2)
    <3> HIDE DEF q2, m, last
    <3>1. CASE Has(q, r)
      <4>1. PICK i \in 1 .. n : q[i] = r
        BY <2>4, <3>1 DEF Has
      <4>. QED
        BY <2>5, <4>1 DEF Has
    <3>2. CASE r \in beyond
      <4>1. r \in Nat /\ (r = m \/ r > m)
        BY <2>2, <2>3, <2>6, <3>2
      <4>2. CASE r = m
        BY <2>5, <4>2 DEF Has
      <4>3. CASE r > m
        BY <2>8, <4>3 DEF Beyond
      <4>. QED
        BY <4>1, <4>2, <4>3
    <3>. QED
      BY <2>11, <3>1, <3>2 DEF Taken
  <2> HIDE DEF q2
  <2>. QED
    BY <2>1, <2>5, <2>9, <2>10, <2>11 DEF Taken
<1>. QED
  BY <1>2, <1>3

\* A page and the row after it, as the recursion builds them.
LEMMA FetchedSteps ==
  ASSUME NEW shown \in SUBSET Rowid, NEW after \in Int, NEW limit \in Nat
  PROVE  \E rows \in [0 .. limit + 1 -> Seq(shown)] :
           /\ rows[0] = <<>>
           /\ \A n \in 1 .. limit + 1 : rows[n] = OneMore(shown, after, rows[n - 1])
           /\ Fetched(shown, after, limit) = rows[limit + 1]
<1> DEFINE N == limit + 1
           S == Seq(shown)
           F == [n \in 1 .. N |-> [x \in S |-> OneMore(shown, after, x)]]
           Is(g) == g = [n \in 0 .. N |-> IF n = 0 THEN <<>> ELSE OneMore(shown, after, g[n - 1])]
           rows == CHOOSE g : Is(g)
<1>1. Fetched(shown, after, limit) = rows[N]
  BY DEF Fetched
<1>2. N \in Nat /\ <<>> \in S
  OBVIOUS
<1>3. \A x \in S : OneMore(shown, after, x) \in S
  <2> SUFFICES ASSUME NEW x \in S PROVE OneMore(shown, after, x) \in S
    OBVIOUS
  <2> DEFINE beyond == Beyond(shown, after, x)
  <2>1. beyond \in SUBSET shown /\ beyond \in SUBSET Nat
    BY DEF Beyond, Rowid
  <2>2. beyond # {} => Min(beyond) \in shown
    BY <2>1, MinIs
  <2>. QED
    BY <2>2, AppendProperties DEF OneMore
<1>4. PICK g : Obeys(g, <<>>, F, S, N)
  <2>1. Rule(F, S, N)
    BY <1>3 DEF Rule
  <2> HIDE DEF S, F, N
  <2>. QED
    BY <1>2, <2>1, Recursion
<1>5. /\ g \in [0 .. N -> S] /\ g[0] = <<>>
      /\ \A n \in 1 .. N : n - 1 \in 0 .. N /\ g[n] = F[n][g[n - 1]]
  BY <1>2, <1>4 DEF Obeys
<1>6. ASSUME NEW n \in 1 .. N
      PROVE  g[n] = OneMore(shown, after, g[n - 1])
  <2>1. g[n - 1] \in S
    <3> HIDE DEF S, N
    <3>. QED
      BY <1>5
  <2>. QED
    BY <1>5, <2>1
<1>7. Is(g)
  <2> HIDE DEF F, S, N
  <2>1. ASSUME NEW n \in 0 .. N, n # 0
        PROVE  g[n] = OneMore(shown, after, g[n - 1])
    <3>1. n \in 1 .. N
      BY <1>2, <2>1
    <3>. QED
      BY Zenon, <1>6, <3>1
  <2>. QED
    BY <1>5, <2>1
<1>8. Is(rows)
  BY Zenon, <1>7
<1>9. /\ rows[0] = <<>> /\ rows = [n \in 0 .. N |-> rows[n]]
      /\ \A n \in 1 .. N : rows[n] = OneMore(shown, after, rows[n - 1])
  <2> HIDE DEF rows, N
  <2>1. rows[0] = <<>> /\ rows = [n \in 0 .. N |-> rows[n]]
    BY <1>2, <1>8
  <2>2. ASSUME NEW n \in 1 .. N
        PROVE  rows[n] = OneMore(shown, after, rows[n - 1])
    <3>1. n \in 0 .. N /\ n # 0
      BY <1>2
    <3>. QED
      BY Zenon, <1>8, <3>1
  <2>. QED
    BY <2>1, <2>2
<1>10. \A n \in 0 .. N : rows[n] \in S
  <2> HIDE DEF rows, N, S
  <2> DEFINE G == {n \in 0 .. N : rows[n] \in S}
  <2>1. G \in SUBSET Nat
    OBVIOUS
  <2>2. 0 \in G
    <3>1. 0 \in 0 .. N
      BY <1>2
    <3>. QED
      BY Zenon, <1>2, <1>9, <3>1
  <2>3. ASSUME NEW n \in 1 .. N, n - 1 \in G
        PROVE  n \in G
    <3>1. n \in 0 .. N
      BY <1>2
    <3>. QED
      BY Zenon, <1>3, <1>9, <2>3, <3>1
  <2> HIDE DEF G
  <2>4. 0 .. N \subseteq G
    BY <1>2, <2>1, <2>2, <2>3, Upwards
  <2>. QED
    BY <2>4 DEF G
<1>11. rows \in [0 .. N -> S]
  <2> HIDE DEF rows, N, S
  <2>. QED
    BY <1>9, <1>10
<1> HIDE DEF rows
<1>. QED
  BY <1>1, <1>9, <1>11

LEMMA FetchedIs ==
  ASSUME NEW shown \in SUBSET Rowid, NEW after \in Int, NEW limit \in Nat
  PROVE  Taken(shown, after, Fetched(shown, after, limit), limit + 1)
<1> DEFINE N == limit + 1
<1>1. PICK rows \in [0 .. N -> Seq(shown)] :
        /\ rows[0] = <<>>
        /\ \A n \in 1 .. N : rows[n] = OneMore(shown, after, rows[n - 1])
        /\ Fetched(shown, after, limit) = rows[N]
  BY FetchedSteps
<1> DEFINE G == {n \in 0 .. N : Taken(shown, after, rows[n], n)}
<1>2. 0 \in G
  <2>1. Taken(shown, after, <<>>, 0)
    BY DEF Taken, Rising, Beyond
  <2>. QED
    BY <1>1, <2>1
<1>3. ASSUME NEW n \in 1 .. N, n - 1 \in G
      PROVE  n \in G
  <2>1. n - 1 \in Nat /\ (n - 1) + 1 = n
    OBVIOUS
  <2>2. Taken(shown, after, OneMore(shown, after, rows[n - 1]), n)
    BY <1>3, <2>1, OneMoreTakes
  <2>. QED
    BY <1>1, <2>2
<1>4. N \in Nat /\ G \in SUBSET Nat /\ N \in 0 .. N
  OBVIOUS
<1> HIDE DEF G, N
<1>5. 0 .. N \subseteq G
  BY <1>2, <1>3, <1>4, Upwards
<1>6. N \in G
  BY <1>4, <1>5
<1>. QED
  BY <1>1, <1>6 DEF G, N

\* A page has the first rows beyond the cursor, and names the last of them if there
\* are more.
LEMMA PageIs ==
  ASSUME NEW shown \in SUBSET Rowid, NEW query, After(query) \in Int, Limit(query) \in Nat \ {0}
  PROVE  LET p == Page(shown, query)
         IN  /\ p.items \in Seq(shown) /\ Len(p.items) <= Limit(query) /\ Rising(p.items)
             /\ \A i \in 1 .. Len(p.items) : p.items[i] > After(query)
             /\ \/ p.next = Absent
                \/ /\ Len(p.items) = Limit(query) /\ p.next = p.items[Len(p.items)]
             /\ \A r \in shown : r > After(query) /\ (p.next # Absent => r <= p.next) => Has(p.items, r)
<1> DEFINE after == After(query)
           limit == Limit(query)
           f == Fetched(shown, after, limit)
           more == Len(f) > limit
           items == IF more THEN Front(f) ELSE f
           next == NextCursor(items, more)
<1>0. \A r \in shown : r \in Nat /\ r # 0 /\ r \in Int
  BY DEF Rowid
<1>1. Taken(shown, after, f, limit + 1)
  BY FetchedIs
<1>2. Page(shown, query).items = items /\ Page(shown, query).next = next
  BY DEF Page
<1> HIDE DEF f
<1>3. /\ f \in Seq(shown) /\ Len(f) \in Nat /\ Len(f) <= limit + 1
      /\ \A i \in 1 .. Len(f) : f[i] \in shown /\ f[i] > after
  BY <1>1, ElementOfSeq, LenProperties DEF Taken
<1>4. CASE ~more
  <2>1. items = f /\ next = Absent /\ Len(f) < limit + 1
    BY <1>3, <1>4 DEF NextCursor
  <2>2. Beyond(shown, after, f) = {}
    BY <1>1, <2>1 DEF Taken
  <2> HIDE DEF items, next
  <2>3. \A r \in shown : r > after => Has(f, r)
    BY <1>1, <2>2 DEF Taken
  <2>. QED
    BY <1>1, <1>2, <1>3, <2>1, <2>3 DEF Taken
<1>5. CASE more
  <2>1. Len(f) = limit + 1 /\ f # <<>>
    BY <1>3, <1>5, EmptySeq
  <2>2. items = Front(f) /\ items = [i \in 1 .. limit |-> f[i]]
    BY <1>3, <1>5, <2>1 DEF Front
  <2>3. items \in Seq(shown) /\ Len(items) = limit /\ \A i \in 1 .. limit : items[i] = f[i]
    <3>1. \A i \in 1 .. limit : f[i] \in shown
      BY <1>3, <2>1
    <3> HIDE DEF items
    <3>. QED
      BY <2>2, <3>1
  <2>4. items # <<>> /\ next = Last(items)
    <3>1. Len(items) # 0
      BY <2>3
    <3>2. items # <<>>
      BY <3>1, EmptySeq
    <3>. QED
      BY <1>5, <3>2 DEF NextCursor
  <2>5. next = items[limit]
    BY <2>3, <2>4 DEF Last
  <2> HIDE DEF items, next
  <2>6. limit \in 1 .. limit /\ next = f[limit] /\ next \in shown
    <3>1. limit \in 1 .. limit /\ limit \in 1 .. Len(f)
      BY <2>1
    <3>. QED
      BY <1>3, <2>3, <2>5, <3>1
  <2>7. ASSUME NEW r \in shown, r > after, r <= next
        PROVE  Has(items, r)
    <3>1. limit + 1 \in 1 .. Len(f) /\ limit \in 1 .. Len(f) /\ Last(f) = f[limit + 1]
      BY <2>1 DEF Last
    <3>2. f[limit] < f[limit + 1] /\ f[limit + 1] \in Int
      BY <1>0, <1>1, <1>3, <3>1 DEF Taken, Rising
    <3>3. r \in Int /\ next \in Int /\ r < f[limit + 1] /\ ~(r > Last(f))
      BY <1>0, <2>6, <2>7, <3>1, <3>2
    <3>4. r \notin Beyond(shown, after, f)
      BY <2>1, <3>3 DEF Beyond
    <3>5. PICK i \in 1 .. Len(f) : f[i] = r
      BY <1>1, <2>7, <3>4 DEF Taken, Has
    <3>6. i \in 1 .. limit
      BY <2>1, <3>3, <3>5
    <3>. QED
      BY <2>3, <3>5, <3>6 DEF Has
  <2>8. Rising(items)
    <3> SUFFICES ASSUME NEW i \in 1 .. limit, NEW j \in 1 .. limit, i < j PROVE items[i] < items[j]
      BY <2>3 DEF Rising
    <3>1. i \in 1 .. Len(f) /\ j \in 1 .. Len(f)
      BY <2>1
    <3>2. f[i] < f[j]
      BY <1>1, <3>1 DEF Taken, Rising
    <3>. QED
      BY <2>3, <3>2
  <2>9. \A i \in 1 .. limit : items[i] > after
    <3>1. \A i \in 1 .. limit : i \in 1 .. Len(f)
      BY <2>1
    <3>. QED
      BY <1>3, <2>3, <3>1
  <2>10. \A r \in shown : r > after /\ (next # Absent => r <= next) => Has(items, r)
    <3>1. next # Absent
      BY <1>0, <2>6, ListAssumption
    <3>. QED
      BY <2>7, <3>1
  <2>11. limit <= limit
    OBVIOUS
  <2>. QED
    BY Zenon, <1>2, <2>3, <2>5, <2>8, <2>9, <2>10, <2>11
<1>. QED
  BY <1>4, <1>5

-----------------------------------------------------------------------------
(* A list, read to its end.                                                *)

\* What has been read of the first k pages.
Halfway(shows, k, read) ==
  /\ read.items \in Seq(Rowid) /\ Rising(read.items)
  /\ read.pages \in 0 .. k /\ read.done \in BOOLEAN
  /\ \A i \in 1 .. Len(read.items) : \E j \in 1 .. read.pages : read.items[i] \in shows[j]
  /\ ~read.done =>
       /\ read.pages = k /\ Len(read.items) = k * DefaultLimit
       /\ read.cursor = Absent => k = 0
       /\ read.cursor # Absent =>
            read.cursor \in Rowid /\ \A i \in 1 .. Len(read.items) : read.items[i] <= read.cursor
  /\ read.done =>
       /\ read.pages # 0 /\ (read.pages - 1) * DefaultLimit <= Len(read.items)
       /\ Len(read.items) <= read.pages * DefaultLimit
  /\ \A r \in Rowid :
       /\ \A j \in 1 .. read.pages : r \in shows[j]
       /\ read.done \/ (read.cursor # Absent /\ r <= read.cursor)
       => Has(read.items, r)

LEMMA Times ==
  ASSUME NEW k \in Nat
  PROVE  (k + 1) * DefaultLimit = k * DefaultLimit + DefaultLimit /\ k * DefaultLimit \in Nat
BY ListAssumption

LEMMA Joined ==
  ASSUME NEW S, NEW s \in Seq(S), NEW t \in Seq(S)
  PROVE  /\ s \o t \in Seq(S) /\ Len(s \o t) = Len(s) + Len(t)
         /\ \A i \in 1 .. Len(s) : (s \o t)[i] = s[i]
         /\ \A i \in 1 .. Len(t) : (s \o t)[Len(s) + i] = t[i]
<1>1. Len(s) \in Nat /\ Len(t) \in Nat
  OBVIOUS
<1>2. ASSUME NEW i \in 1 .. Len(s) PROVE (s \o t)[i] = s[i]
  <2>1. i \in 1 .. Len(s) + Len(t) /\ i <= Len(s)
    BY <1>1
  <2>. QED
    BY <2>1, ConcatProperties
<1>3. ASSUME NEW i \in 1 .. Len(t) PROVE (s \o t)[Len(s) + i] = t[i]
  <2>1. /\ Len(s) + i \in 1 .. Len(s) + Len(t) /\ ~(Len(s) + i <= Len(s))
        /\ (Len(s) + i) - Len(s) = i
    BY <1>1
  <2>. QED
    BY <2>1, ConcatProperties
<1>. QED
  BY <1>2, <1>3, ConcatProperties

LEMMA ReadPageIs ==
  ASSUME NEW shows \in Seq(SUBSET Rowid), NEW k \in Nat, k < Len(shows), NEW read, Halfway(shows, k, read)
  PROVE  Halfway(shows, k + 1, ReadPage(read, shows[k + 1]))
<1> DEFINE shown == shows[k + 1]
           query == [cursor |-> read.cursor, limit |-> Absent]
           after == After(query)
           p  == Page(shown, query)
           r2 == ReadPage(read, shown)
           old == Len(read.items)
           new == Len(p.items)
<1>1. shown \in SUBSET Rowid
  BY ElementOfSeq, LenProperties
<1>0. /\ \A r \in Rowid : r \in Nat /\ r # 0 /\ r \in Int
      /\ \A r \in shown : r \in Rowid
  BY <1>1 DEF Rowid
<1>2. CASE read.done
  <2>1. r2 = read
    BY <1>2 DEF ReadPage
  <2>2. read.pages \in 0 .. k + 1
    BY DEF Halfway
  <2> HIDE DEF r2
  <2>. QED
    BY <1>2, <2>1, <2>2 DEF Halfway, r2
<1>3. CASE ~read.done
  <2>1. /\ r2.items = read.items \o p.items /\ r2.cursor = p.next
        /\ r2.done = (p.next = Absent) /\ r2.pages = k + 1
    <3>1. read.pages = k
      BY <1>3 DEF Halfway
    <3> HIDE DEF p, shown
    <3>. QED
      BY <1>3, <3>1 DEF ReadPage, p
  <2>2. /\ after = (IF read.cursor = Absent THEN 0 ELSE read.cursor)
        /\ Limit(query) = DefaultLimit
    BY DEF After, Limit
  <2>3. after \in Nat /\ after \in Int /\ Limit(query) \in Nat \ {0}
    BY <1>0, <1>3, <2>2, ListAssumption DEF Halfway
  <2>4. /\ p.items \in Seq(shown) /\ new <= DefaultLimit /\ Rising(p.items)
        /\ \A i \in 1 .. new : p.items[i] > after
        /\ \/ p.next = Absent
           \/ new = DefaultLimit /\ p.next = p.items[new]
        /\ \A r \in shown : r > after /\ (p.next # Absent => r <= p.next) => Has(p.items, r)
    <3> HIDE DEF shown, query
    <3>1. After(query) \in Int /\ Limit(query) \in Nat \ {0}
      BY Zenon, <2>3
    <3>2. /\ p.items \in Seq(shown) /\ new <= Limit(query) /\ Rising(p.items)
          /\ \A i \in 1 .. new : p.items[i] > after
          /\ \/ p.next = Absent
             \/ new = Limit(query) /\ p.next = p.items[new]
          /\ \A r \in shown : r > after /\ (p.next # Absent => r <= p.next) => Has(p.items, r)
      BY Zenon, <1>1, <3>1, PageIs
    <3>. QED
      BY Zenon, <2>2, <3>2
  <2> HIDE DEF p, r2, query, after, shown
  <2>5. /\ read.items \in Seq(Rowid) /\ p.items \in Seq(Rowid)
        /\ \A i \in 1 .. new : p.items[i] \in shown /\ p.items[i] \in Rowid
        /\ \A i \in 1 .. old : read.items[i] \in Rowid
        /\ old \in Nat /\ new \in Nat
    <3>1. p.items \in Seq(shown) /\ read.items \in Seq(Rowid)
      BY <2>4 DEF Halfway
    <3>2. p.items \in Seq(Rowid)
      BY <1>0, <3>1, SeqMonotonic
    <3>. QED
      BY <1>0, <3>1, <3>2, ElementOfSeq, LenProperties
  <2>6. /\ r2.items \in Seq(Rowid) /\ Len(r2.items) = old + new
        /\ \A i \in 1 .. old : r2.items[i] = read.items[i]
        /\ \A i \in 1 .. new : r2.items[old + i] = p.items[i]
    <3> DEFINE q == read.items \o p.items
    <3>1. /\ q \in Seq(Rowid) /\ Len(q) = Len(read.items) + Len(p.items)
          /\ \A i \in 1 .. Len(read.items) : q[i] = read.items[i]
          /\ \A i \in 1 .. Len(p.items) : q[Len(read.items) + i] = p.items[i]
      <4>1. read.items \in Seq(Rowid) /\ p.items \in Seq(Rowid)
        BY <2>5
      <4>2. \A s, t \in Seq(Rowid) :
              /\ s \o t \in Seq(Rowid) /\ Len(s \o t) = Len(s) + Len(t)
              /\ \A i \in 1 .. Len(s) : (s \o t)[i] = s[i]
              /\ \A i \in 1 .. Len(t) : (s \o t)[Len(s) + i] = t[i]
        BY Joined
      <4>. QED
        BY Zenon, <4>1, <4>2
    <3>2. r2.items = q
      BY <2>1
    <3> HIDE DEF q
    <3>. QED
      BY <3>1, <3>2
  <2> HIDE DEF old, new
  <2>7. \A i \in 1 .. old + new : \/ i \in 1 .. old
                                  \/ i - old \in 1 .. new /\ r2.items[i] = p.items[i - old]
    <3> SUFFICES ASSUME NEW i \in 1 .. old + new, i \notin 1 .. old
                 PROVE  i - old \in 1 .. new /\ r2.items[i] = p.items[i - old]
      OBVIOUS
    <3>1. i - old \in 1 .. new /\ old + (i - old) = i
      BY <2>5
    <3>. QED
      BY <2>6, <3>1
  <2>8. \A i \in 1 .. old : read.items[i] <= after
    <3>1. CASE read.cursor = Absent
      <4>1. k = 0 /\ old = k * DefaultLimit
        BY <1>3, <3>1 DEF Halfway, old
      <4>2. old = 0
        BY <4>1, ListAssumption
      <4>. QED
        BY <4>2
    <3>2. CASE read.cursor # Absent
      BY <1>3, <2>2, <3>2 DEF Halfway, old
    <3>. QED
      BY <3>1, <3>2
  <2>9. Rising(r2.items)
    <3> SUFFICES ASSUME NEW i \in 1 .. old + new, NEW j \in 1 .. old + new, i < j
                 PROVE  r2.items[i] < r2.items[j]
      BY <2>6 DEF Rising
    <3>1. CASE i \in 1 .. old /\ j \in 1 .. old
      <4>1. read.items[i] < read.items[j]
        BY <3>1 DEF Halfway, old, Rising
      <4>. QED
        BY <2>6, <3>1, <4>1
    <3>2. CASE i \in 1 .. old /\ j \notin 1 .. old
      <4>1. j - old \in 1 .. new /\ r2.items[j] = p.items[j - old]
        BY <2>7, <3>2
      <4>2. read.items[i] <= after /\ after < p.items[j - old]
        BY <2>3, <2>4, <2>8, <3>2, <4>1
      <4>3. read.items[i] \in Int /\ p.items[j - old] \in Int
        BY <1>0, <2>5, <3>2, <4>1
      <4>. QED
        BY <2>3, <2>6, <3>2, <4>1, <4>2, <4>3
    <3>3. CASE i \notin 1 .. old
      <4>1. j \notin 1 .. old
        BY <2>5, <3>3
      <4>2. /\ i - old \in 1 .. new /\ r2.items[i] = p.items[i - old]
            /\ j - old \in 1 .. new /\ r2.items[j] = p.items[j - old]
        BY <2>7, <3>3, <4>1
      <4>3. i - old < j - old
        BY <2>5
      <4>. QED
        BY <2>4, <4>2, <4>3 DEF Rising, new
    <3>. QED
      BY <3>1, <3>2, <3>3
  <2>10. ASSUME NEW i \in 1 .. old + new
         PROVE  \E j \in 1 .. k + 1 : r2.items[i] \in shows[j]
    <3>1. CASE i \in 1 .. old
      <4>1. PICK j \in 1 .. k : read.items[i] \in shows[j]
        BY <1>3, <3>1 DEF Halfway, old
      <4>2. j \in 1 .. k + 1
        OBVIOUS
      <4>. QED
        BY <2>6, <3>1, <4>1, <4>2
    <3>2. CASE i \notin 1 .. old
      <4>1. r2.items[i] \in shows[k + 1]
        BY <2>5, <2>7, <3>2 DEF shown
      <4>2. k + 1 \in 1 .. k + 1
        OBVIOUS
      <4>. QED
        BY <4>1, <4>2
    <3>. QED
      BY <3>1, <3>2
  <2>11. /\ old = k * DefaultLimit /\ (k + 1) * DefaultLimit = old + DefaultLimit
         /\ DefaultLimit \in Nat \ {0}
    BY <1>3, Times, ListAssumption DEF Halfway, old
  <2>12. ASSUME p.next # Absent
         PROVE  /\ r2.cursor \in Rowid /\ Len(r2.items) = (k + 1) * DefaultLimit
                /\ \A i \in 1 .. old + new : r2.items[i] <= r2.cursor
    <3>1. new = DefaultLimit /\ new \in 1 .. new /\ p.next = p.items[new]
      BY <2>4, <2>5, <2>11, <2>12
    <3>2. p.next \in Rowid /\ p.next \in Int /\ p.next > after
      BY <1>0, <2>4, <2>5, <3>1
    <3>3. ASSUME NEW i \in 1 .. old + new
          PROVE  r2.items[i] <= p.next
      <4>1. CASE i \in 1 .. old
        <5>1. read.items[i] \in Int /\ read.items[i] <= after
          BY <1>0, <2>5, <2>8, <4>1
        <5>. QED
          BY <2>3, <2>6, <3>2, <4>1, <5>1
      <4>2. CASE i \notin 1 .. old
        <5>1. i - old \in 1 .. new /\ r2.items[i] = p.items[i - old]
          BY <2>7, <4>2
        <5>2. i - old = new \/ i - old < new
          BY <2>5, <5>1
        <5>3. i - old < new => p.items[i - old] < p.items[new]
          BY <2>4, <3>1, <5>1 DEF Rising, new
        <5>4. p.items[i - old] \in Int
          BY <1>0, <2>5, <5>1
        <5>. QED
          BY <3>1, <3>2, <5>1, <5>2, <5>3, <5>4
      <4>. QED
        BY <4>1, <4>2
    <3>. QED
      BY <2>1, <2>6, <2>11, <3>1, <3>2, <3>3
  <2>13. ASSUME NEW r \in Rowid, \A j \in 1 .. k + 1 : r \in shows[j],
                p.next # Absent => r <= p.next
         PROVE  Has(r2.items, r)
    <3>1. r \in shown /\ r \in Int /\ \A j \in 1 .. k : r \in shows[j]
      <4>1. k + 1 \in 1 .. k + 1 /\ \A j \in 1 .. k : j \in 1 .. k + 1
        OBVIOUS
      <4>. QED
        BY <1>0, <2>13, <4>1 DEF shown
    <3>2. CASE r > after
      <4>1. PICK i \in 1 .. new : p.items[i] = r
        BY <2>4, <2>13, <3>1, <3>2 DEF Has, new
      <4>2. old + i \in 1 .. old + new
        BY <2>5
      <4>. QED
        BY <2>6, <4>1, <4>2 DEF Has
    <3>3. CASE ~(r > after)
      <4>1. read.cursor # Absent /\ r <= read.cursor
        BY <1>0, <2>2, <2>3, <3>1, <3>3
      <4>2. PICK i \in 1 .. old : read.items[i] = r
        BY <1>3, <3>1, <4>1 DEF Halfway, old, Has
      <4>3. i \in 1 .. old + new
        BY <2>5
      <4>. QED
        BY <2>6, <4>2, <4>3 DEF Has
    <3>. QED
      BY <3>2, <3>3
  <2>14. ASSUME p.next = Absent
         PROVE  /\ ((k + 1) - 1) * DefaultLimit <= Len(r2.items)
                /\ Len(r2.items) <= (k + 1) * DefaultLimit
    <3>1. (k + 1) - 1 = k
      OBVIOUS
    <3>. QED
      BY <2>4, <2>5, <2>6, <2>11, <3>1
  <2>15. k + 1 \in 0 .. k + 1 /\ k + 1 # 0
    OBVIOUS
  <2>16. r2.done \in BOOLEAN /\ (r2.done <=> p.next = Absent)
    BY <2>1
  <2>17. Halfway(shows, k + 1, r2)
    BY Zenon, <2>1, <2>6, <2>9, <2>10, <2>12, <2>13, <2>14, <2>15, <2>16 DEF Halfway
  <2>. QED
    BY <2>17 DEF r2, shown
<1>. QED
  BY <1>2, <1>3

\* A list and what has been read of it, page by page.
Reads == [items : Seq(Rowid), cursor : Rowid \cup {Absent}, done : BOOLEAN, pages : Nat]

LEMMA ReadTypes ==
  ASSUME NEW shown \in SUBSET Rowid, NEW read \in Reads
  PROVE  ReadPage(read, shown) \in Reads
<1> DEFINE query == [cursor |-> read.cursor, limit |-> Absent]
           p == Page(shown, query)
<1>1. /\ After(query) = (IF read.cursor = Absent THEN 0 ELSE read.cursor)
      /\ Limit(query) = DefaultLimit
  BY DEF After, Limit
<1>2. /\ read.cursor \in Rowid \cup {Absent} /\ read.items \in Seq(Rowid) /\ read.pages + 1 \in Nat
      /\ read = [items |-> read.items, cursor |-> read.cursor, done |-> read.done, pages |-> read.pages]
  BY DEF Reads
<1>3. After(query) \in Int /\ Limit(query) \in Nat \ {0}
  BY <1>1, <1>2, ListAssumption DEF Rowid
<1>4. /\ p.items \in Seq(shown)
      /\ \/ p.next = Absent
         \/ Len(p.items) \in Nat \ {0} /\ p.next = p.items[Len(p.items)]
  <2> HIDE DEF query
  <2>1. /\ p.items \in Seq(shown)
        /\ \/ p.next = Absent
           \/ Len(p.items) = Limit(query) /\ p.next = p.items[Len(p.items)]
    BY Zenon, <1>3, PageIs
  <2>. QED
    BY <1>3, <2>1
<1>5. ReadPage(read, shown) =
        IF read.done THEN read
        ELSE [items |-> read.items \o p.items, cursor |-> p.next, done |-> p.next = Absent, pages |-> read.pages + 1]
  BY DEF ReadPage
<1> HIDE DEF p, query
<1>6. p.items \in Seq(Rowid)
  BY <1>4, SeqMonotonic
<1>7. p.next \in Rowid \cup {Absent}
  <2>1. CASE p.next = Absent
    BY <2>1
  <2>2. CASE p.next # Absent
    <3>1. Len(p.items) \in 1 .. Len(p.items) /\ p.next = p.items[Len(p.items)]
      BY <1>4, <2>2
    <3>2. p.items[Len(p.items)] \in Rowid
      BY <1>6, <3>1, ElementOfSeq
    <3>. QED
      BY <3>1, <3>2
  <2>. QED
    BY <2>1, <2>2
<1>8. read.items \o p.items \in Seq(Rowid)
  BY <1>2, <1>6, Joined
<1>. QED
  BY <1>2, <1>5, <1>7, <1>8 DEF Reads

LEMMA ListAllSteps ==
  ASSUME NEW shows \in Seq(SUBSET Rowid)
  PROVE  \E read :
           /\ read[0] = Unread
           /\ \A k \in 1 .. Len(shows) : read[k] = ReadPage(read[k - 1], shows[k])
           /\ ListAll(shows) = read[Len(shows)]
<1> DEFINE N == Len(shows)
           F == [k \in 1 .. N |-> [x \in Reads |-> ReadPage(x, shows[k])]]
           Is(g) == g = [k \in 0 .. N |-> IF k = 0 THEN Unread ELSE ReadPage(g[k - 1], shows[k])]
           read == CHOOSE g : Is(g)
<1>1. ListAll(shows) = read[N]
  BY DEF ListAll
<1>2. N \in Nat /\ \A k \in 1 .. N : shows[k] \in SUBSET Rowid
  BY ElementOfSeq, LenProperties
<1>3. Unread \in Reads
  BY DEF Unread, Reads
<1>4. PICK g : Obeys(g, Unread, F, Reads, N)
  <2>1. Rule(F, Reads, N)
    BY <1>2, ReadTypes DEF Rule
  <2> HIDE DEF F, N
  <2>. QED
    BY <1>2, <1>3, <2>1, Recursion
<1>5. /\ g \in [0 .. N -> Reads] /\ g[0] = Unread
      /\ \A k \in 1 .. N : k - 1 \in 0 .. N /\ g[k] = F[k][g[k - 1]]
  BY <1>2, <1>4 DEF Obeys
<1>6. ASSUME NEW k \in 1 .. N
      PROVE  g[k] = ReadPage(g[k - 1], shows[k])
  <2>1. g[k - 1] \in Reads
    <3> HIDE DEF N
    <3>. QED
      BY <1>5
  <2>. QED
    BY <1>5, <2>1
<1>7. Is(g)
  <2> HIDE DEF F, N
  <2>1. ASSUME NEW k \in 0 .. N, k # 0
        PROVE  g[k] = ReadPage(g[k - 1], shows[k])
    <3>1. k \in 1 .. N
      BY <1>2, <2>1
    <3>. QED
      BY Zenon, <1>6, <3>1
  <2>. QED
    BY <1>5, <2>1
<1>8. Is(read)
  BY Zenon, <1>7
<1>9. 0 \in 0 .. N /\ \A k \in 1 .. N : k \in 0 .. N /\ k # 0
  BY <1>2
<1>10. read[0] = Unread /\ \A k \in 1 .. N : read[k] = ReadPage(read[k - 1], shows[k])
  <2> HIDE DEF read, N
  <2>1. read[0] = Unread
    BY Zenon, <1>8, <1>9
  <2>2. ASSUME NEW k \in 1 .. N
        PROVE  read[k] = ReadPage(read[k - 1], shows[k])
    BY Zenon, <1>8, <1>9, <2>2
  <2>. QED
    BY <2>1, <2>2
<1> HIDE DEF read
<1>. QED
  BY <1>1, <1>10

LEMMA ListAllIs ==
  ASSUME NEW shows \in Seq(SUBSET Rowid)
  PROVE  Halfway(shows, Len(shows), ListAll(shows))
<1> DEFINE N == Len(shows)
<1>1. PICK read : /\ read[0] = Unread
                  /\ \A k \in 1 .. N : read[k] = ReadPage(read[k - 1], shows[k])
                  /\ ListAll(shows) = read[N]
  BY ListAllSteps
<1> DEFINE G == {k \in 0 .. N : Halfway(shows, k, read[k])}
<1>2. N \in Nat /\ G \in SUBSET Nat /\ N \in 0 .. N /\ 0 \in 0 .. N
  BY LenProperties
<1>3. 0 \in G
  <2>1. 0 * DefaultLimit = 0
    BY ListAssumption
  <2>2. Halfway(shows, 0, Unread)
    BY <2>1 DEF Halfway, Unread, Rising
  <2>. QED
    BY <1>1, <1>2, <2>2
<1>4. ASSUME NEW k \in 1 .. N, k - 1 \in G
      PROVE  k \in G
  <2>1. k - 1 \in Nat /\ (k - 1) + 1 = k /\ k - 1 < N /\ k \in 0 .. N
    BY <1>2
  <2>2. Halfway(shows, k, ReadPage(read[k - 1], shows[k]))
    <3>1. Halfway(shows, k - 1, read[k - 1])
      BY <1>4
    <3>2. Halfway(shows, (k - 1) + 1, ReadPage(read[k - 1], shows[(k - 1) + 1]))
      BY <2>1, <3>1, ReadPageIs
    <3>. QED
      BY <2>1, <3>2
  <2>. QED
    BY <1>1, <2>1, <2>2
<1> HIDE DEF G, N
<1>5. N \in G
  BY <1>2, <1>3, <1>4, Upwards
<1>. QED
  BY <1>1, <1>5 DEF G, N

-----------------------------------------------------------------------------
(* The theorems.                                                           *)

\* list_all: whatever is deleted, added or changed between its pages, and however
\* many there are, it returns every row that was there all along, once.
THEOREM WholeLists ==
  ASSUME NEW histories \in SUBSET Seq(SUBSET Rowid)
  PROVE  NoRowIsMissed(histories)
<1> SUFFICES ASSUME NEW shows \in histories
             PROVE  LET read == ListAll(shows)
                        seen == {shows[k] : k \in 1 .. read.pages}
                        always == {r \in UNION seen : \A shown \in seen : r \in shown}
                    IN  /\ \A i, j \in DOMAIN read.items : i < j => read.items[i] < read.items[j]
                        /\ ToSet(read.items) \subseteq UNION seen
                        /\ read.done => always \subseteq ToSet(read.items)
                        /\ ~read.done => \A r \in always : r <= read.cursor => r \in ToSet(read.items)
  BY Zenon DEF NoRowIsMissed
<1> DEFINE read == ListAll(shows)
           seen == {shows[k] : k \in 1 .. read.pages}
           always == {r \in UNION seen : \A shown \in seen : r \in shown}
<1>1. shows \in Seq(SUBSET Rowid) /\ Len(shows) \in Nat
      /\ \A k \in 1 .. Len(shows) : shows[k] \in SUBSET Rowid
  BY ElementOfSeq, LenProperties
<1>2. Halfway(shows, Len(shows), read)
  BY <1>1, ListAllIs
<1> HIDE DEF read
<1>3. /\ read.items \in Seq(Rowid) /\ DOMAIN read.items = 1 .. Len(read.items)
      /\ read.pages \in 0 .. Len(shows)
  BY <1>2, LenProperties DEF Halfway
<1>4. \A k \in 1 .. read.pages : k \in 1 .. Len(shows)
  BY <1>1, <1>3
<1>5. \A i, j \in DOMAIN read.items : i < j => read.items[i] < read.items[j]
  BY <1>2, <1>3 DEF Halfway, Rising
<1>6. ToSet(read.items) \subseteq UNION seen
  <2> SUFFICES ASSUME NEW r \in ToSet(read.items) PROVE r \in UNION seen
    OBVIOUS
  <2>1. PICK i \in 1 .. Len(read.items) : read.items[i] = r
    BY <1>3, HasIs DEF Has
  <2>2. PICK k \in 1 .. read.pages : r \in shows[k]
    BY <1>2, <2>1 DEF Halfway
  <2>. QED
    BY <2>2
<1>7. ASSUME NEW r \in always, read.done \/ (read.cursor # Absent /\ r <= read.cursor)
      PROVE  r \in ToSet(read.items)
  <2>1. \A k \in 1 .. read.pages : r \in shows[k]
    OBVIOUS
  <2>2. r \in Rowid
    <3>1. PICK k \in 1 .. read.pages : r \in shows[k]
      OBVIOUS
    <3>. QED
      BY <1>1, <1>4, <3>1
  <2>3. Has(read.items, r)
    BY Zenon, <1>2, <1>7, <2>1, <2>2 DEF Halfway
  <2>. QED
    BY <1>3, <2>3, HasIs
<1>8. ASSUME NEW r \in always, ~read.done
      PROVE  read.cursor # Absent
  <2>1. PICK k \in 1 .. read.pages : r \in shows[k]
    OBVIOUS
  <2>2. Len(shows) # 0
    BY <1>1, <1>4, <2>1
  <2>. QED
    BY <1>2, <1>8, <2>2 DEF Halfway
<1>9. /\ read.done => always \subseteq ToSet(read.items)
      /\ ~read.done => \A r \in always : r <= read.cursor => r \in ToSet(read.items)
  <2> HIDE DEF always
  <2>. QED
    BY <1>7, <1>8
<1>. QED
  BY Zenon, <1>5, <1>6, <1>9 DEF read

\* list_all asks for a page more than the rows fill and no more: every page but the
\* last is full.
THEOREM ListsEnd ==
  ASSUME NEW histories \in SUBSET Seq(SUBSET Rowid),
         \A shows \in histories : \A k \in DOMAIN shows : IsFiniteSet(shows[k])
  PROVE  ReadingEnds(histories)
<1> SUFFICES ASSUME NEW shows \in histories
             PROVE  LET read == ListAll(shows)
                        rows == UNION ToSet(shows)
                    IN  /\ (Len(shows) - 1) * DefaultLimit >= Cardinality(rows) => read.done
                        /\ Len(read.items) >= (read.pages - 1) * DefaultLimit
                        /\ Len(read.items) <= read.pages * DefaultLimit
  BY Zenon DEF ReadingEnds
<1> DEFINE read == ListAll(shows)
           rows == UNION ToSet(shows)
           N == Len(shows)
           n == Len(read.items)
<1>1. /\ shows \in Seq(SUBSET Rowid) /\ N \in Nat /\ DOMAIN shows = 1 .. N
      /\ \A k \in 1 .. N : shows[k] \in SUBSET Rowid
  BY ElementOfSeq, LenProperties
<1>2. Halfway(shows, N, read)
  BY <1>1, ListAllIs
<1> HIDE DEF read
<1>3. /\ read.items \in Seq(Rowid) /\ n \in Nat /\ DOMAIN read.items = 1 .. n
      /\ read.pages \in 0 .. N /\ read.done \in BOOLEAN /\ Rising(read.items)
      /\ \A i \in 1 .. n : read.items[i] \in Rowid
      /\ \A i \in 1 .. n : \E k \in 1 .. read.pages : read.items[i] \in shows[k]
  BY <1>2, ElementOfSeq, LenProperties DEF Halfway
<1>4. IsFiniteSet(rows)
  <2>1. ToSet(shows) = {shows[k] : k \in 1 .. N}
    BY <1>1 DEF ToSet
  <2>2. IsFiniteSet(ToSet(shows))
    <3>1. shows \in Surjection(1 .. N, ToSet(shows))
      BY <1>1, <2>1 DEF Surjection
    <3>. QED
      BY <1>1, <3>1, FS_Interval, FS_Surjection
  <2>3. \A T \in ToSet(shows) : IsFiniteSet(T)
    BY <1>1, <2>1
  <2>. QED
    BY <2>2, <2>3, FS_UNION
<1>5. Cardinality(rows) \in Nat
  BY <1>4, FS_CardinalityType
<1>6. n <= Cardinality(rows)
  <2>1. ASSUME NEW i \in 1 .. n PROVE read.items[i] \in rows
    <3>1. PICK k \in 1 .. read.pages : read.items[i] \in shows[k]
      BY <1>3
    <3>2. k \in DOMAIN shows
      BY <1>1, <1>3
    <3>. QED
      BY <3>1, <3>2 DEF ToSet
  <2>2. ASSUME NEW i \in 1 .. n, NEW j \in 1 .. n, read.items[i] = read.items[j] PROVE i = j
    <3>1. read.items[i] \in Int
      BY <1>3 DEF Rowid
    <3>. QED
      BY <1>3, <2>2, <3>1 DEF Rising
  <2>3. read.items = [i \in 1 .. n |-> read.items[i]]
    BY <1>3
  <2>4. read.items \in Injection(1 .. n, rows)
    <3> HIDE DEF rows, n
    <3>. QED
      BY <2>1, <2>2, <2>3 DEF Injection, IsInjective
  <2>5. Cardinality(1 .. n) = n
    BY <1>3, FS_Interval
  <2>6. Cardinality(1 .. n) <= Cardinality(rows)
    BY <1>4, <2>4, FS_Injection
  <2>. QED
    BY <2>5, <2>6
<1>7. DefaultLimit \in Nat \ {0}
  BY ListAssumption
<1> HIDE DEF rows, n
<1>8. ASSUME ~read.done
      PROVE  /\ ~((N - 1) * DefaultLimit >= Cardinality(rows))
             /\ n >= (read.pages - 1) * DefaultLimit /\ n <= read.pages * DefaultLimit
  <2>1. read.pages = N /\ n = N * DefaultLimit
    BY <1>2, <1>8 DEF Halfway, n
  <2>2. (N - 1) * DefaultLimit = N * DefaultLimit - DefaultLimit /\ N * DefaultLimit \in Nat
    BY <1>1, <1>7
  <2>. QED
    BY <1>5, <1>6, <1>7, <2>1, <2>2
<1>9. ASSUME read.done
      PROVE  n >= (read.pages - 1) * DefaultLimit /\ n <= read.pages * DefaultLimit
  <2>1. (read.pages - 1) * DefaultLimit <= n /\ n <= read.pages * DefaultLimit
    BY <1>2, <1>9 DEF Halfway, n
  <2>2. (read.pages - 1) * DefaultLimit \in Int
    BY <1>3, <1>7
  <2>. QED
    BY <1>3, <2>1, <2>2
<1>10. /\ (N - 1) * DefaultLimit >= Cardinality(rows) => read.done
       /\ n >= (read.pages - 1) * DefaultLimit
       /\ n <= read.pages * DefaultLimit
  BY Zenon, <1>8, <1>9
<1>. QED
  BY Zenon, <1>10 DEF read, rows, n

\* The pages of every list: a cursor the server gave is one it takes, and is beyond
\* the one it was given for; no page is longer than the most that may be asked for.
THEOREM PagesFollow ==
  ASSUME NEW shows \in SUBSET SUBSET Rowid,
         NEW queries \in SUBSET [cursor : Int \cup {Absent, Malformed}, limit : Int \cup {Absent}]
  PROVE  CursorsAreGood(shows, queries)
<1> SUFFICES ASSUME NEW shown \in shows, NEW query \in queries
             PROVE  LET page == Listed(shown, query)
                    IN  /\ Len(page.items) <= MaxLimit
                        /\ page.status = 400 => page.items = <<>> /\ page.next = Absent
                        /\ page.next # Absent =>
                             ~Refused([query EXCEPT !.cursor = page.next]) /\ page.next > After(query)
  BY Zenon DEF CursorsAreGood
<1> DEFINE page == Listed(shown, query)
           p    == Page(shown, query)
<1>1. /\ query.cursor \in Int \cup {Absent, Malformed} /\ query.limit \in Int \cup {Absent}
      /\ \A c : [query EXCEPT !.cursor = c].cursor = c /\ [query EXCEPT !.cursor = c].limit = query.limit
  OBVIOUS
<1>2. CASE Refused(query)
  <2>1. page = [status |-> 400, items |-> <<>>, next |-> Absent]
    BY <1>2 DEF Listed
  <2> HIDE DEF page
  <2>2. page.items = <<>> /\ page.next = Absent /\ Len(page.items) <= MaxLimit
    BY <2>1, ListAssumption
  <2>. QED
    BY Zenon, <2>2 DEF page
<1>3. CASE ~Refused(query)
  <2>1. page.status = 200 /\ page.items = p.items /\ page.next = p.next
    BY <1>3 DEF Listed
  <2>2. After(query) \in Int /\ Limit(query) \in Nat \ {0} /\ Limit(query) <= MaxLimit
    BY <1>1, <1>3, ListAssumption DEF Refused, After, Limit
  <2> HIDE DEF page, p
  <2>3. /\ p.items \in Seq(shown) /\ Len(p.items) <= Limit(query)
        /\ \A i \in 1 .. Len(p.items) : p.items[i] > After(query)
        /\ \/ p.next = Absent
           \/ Len(p.items) = Limit(query) /\ p.next = p.items[Len(p.items)]
    <3>1. shown \in SUBSET Rowid
      OBVIOUS
    <3>. QED
      BY Zenon, <2>2, <3>1, PageIs DEF p
  <2>4. Len(p.items) <= MaxLimit
    BY <2>2, <2>3, LenProperties, ListAssumption
  <2>5. ASSUME p.next # Absent
        PROVE  p.next \in Int /\ p.next > After(query)
    <3>1. Len(p.items) \in 1 .. Len(p.items) /\ p.next = p.items[Len(p.items)]
      BY <2>2, <2>3, <2>5
    <3>2. p.next \in shown
      BY <2>3, <3>1, ElementOfSeq
    <3>3. \A r \in shown : r \in Int
      BY DEF Rowid
    <3>. QED
      BY <2>3, <3>1, <3>2, <3>3
  <2>6. ASSUME p.next # Absent
        PROVE  ~Refused([query EXCEPT !.cursor = p.next])
    BY <1>1, <1>3, <2>5, <2>6, ListAssumption DEF Refused
  <2>. QED
    BY <2>1, <2>4, <2>5, <2>6 DEF page
<1>. QED
  BY <1>2, <1>3
=============================================================================
