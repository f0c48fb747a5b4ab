------------------------------ MODULE Launchers ------------------------------
(***************************************************************************)
(* The launchers start agents as child processes: the schedule launcher    *)
(* when a timer fires, one invocation of an agent at a time, and the API   *)
(* launcher when it is asked to, whatever runs already.  They share the    *)
(* code that runs a child and turns what it writes into lines, and each    *)
(* ends on a signal, with a grace period for the invocations it still has. *)
(*                                                                         *)
(* The launcher is one of the two programs, chosen at the start.           *)
(***************************************************************************)
EXTENDS Integers, FiniteSets, SequencesExt, FiniteSetsExt

CONSTANTS
  Runs,         \* the timer fires, or the requests: used again when one is over
  Agents, AgentOf,
  Talking,      \* those whose child writes something
  Streams,      \* the standard output and the standard error
  MaxLineLen,   \* MAX_LINE_LEN
  LineBytesMax, \* LINE_BYTES_MAX, the longest line that is buffered
  MaxBytes      \* bound on the bytes the children of a moment write

ASSUME LaunchAssumption ==
  /\ AgentOf \in [Runs -> Agents]
  /\ MaxLineLen \in Nat /\ LineBytesMax \in Nat /\ MaxLineLen < LineBytesMax
  /\ MaxBytes \in Nat /\ Talking \subseteq Runs

VARIABLES
  kind,    \* "schedule" or "api"
  phase,   \* of the launcher: serving, stopping, grace, reap, stopped
  running, \* schedule: the agents whose flag is set
  step,    \* of each run: idle, claimed, spawn, wait, ended, aborting
  alive,   \* the children that run
  open,    \* <<run, stream>>: a pipe some process can still write to
  unread,  \* the bytes in each pipe
  drained, \* <<run, stream>>: the task that reads the pipe is over
  buffer,  \* what that task has of the line it is in
  output,  \* what the consumer gets: lines, then how the child ended
  written  \* history: the bytes of each stream

child == <<alive, open, unread, written>>
drain == <<drained, buffer>>
launchVars == <<kind, phase, running, step, child, drain, output>>

Pipes  == Runs \X Streams
Bytes  == {"x", "nl", "cr"}
Line   == [text: Seq(Bytes), cut: BOOLEAN]
Buffer == [line: Seq(Bytes), discarding: BOOLEAN, out: Seq(Line)]
Empty  == [line |-> <<>>, discarding |-> FALSE, out |-> <<>>]

Ends   == {"exited", "spawn failed"}
Item   == [of: Streams \cup Ends, line: Line]
\* The exit of a child is no line of it.
ASSUME StreamsAssumption == Streams \cap Ends = {}

End(how) == [of |-> how, line |-> [text |-> <<>>, cut |-> FALSE]]

LaunchTypeOK ==
  /\ kind \in {"schedule", "api"}
  /\ phase \in {"serving", "stopping", "grace", "reap", "stopped"}
  /\ running \subseteq Agents
  /\ step \in [Runs -> {"idle", "claimed", "spawn", "wait", "ended", "aborting"}]
  /\ \A r \in Runs : kind = "schedule" /\ step[r] \notin {"idle", "aborting"} => AgentOf[r] \in running
  /\ alive \subseteq {r \in Runs : step[r] \in {"wait", "aborting"}}
  /\ open \subseteq Pipes /\ drained \subseteq Pipes \ open
  /\ unread \in [Pipes -> Seq(Bytes)] /\ written \in [Pipes -> Seq(Bytes)]
  /\ buffer \in [Pipes -> Buffer]
  /\ \A p \in Pipes : Len(buffer[p].line) <= LineBytesMax /\ buffer[p].out = <<>>
  /\ output \in [Runs -> Seq(Item)]

LaunchInit ==
  /\ kind \in {"schedule", "api"} /\ phase = "serving" /\ running = {}
  /\ step = [r \in Runs |-> "idle"]
  /\ alive = {} /\ open = {} /\ drained = {}
  /\ unread = [p \in Pipes |-> <<>>] /\ written = [p \in Pipes |-> <<>>]
  /\ buffer = [p \in Pipes |-> Empty] /\ output = [r \in Runs |-> <<>>]

Accepting == phase = "serving"

-----------------------------------------------------------------------------
(* The schedule launcher's jobs, and the API launcher's trigger.           *)

\* Wrong on purpose: the flag is read, and set elsewhere.
FireAnyway(r) ==
  /\ kind = "schedule" /\ Accepting /\ step[r] = "idle"
  /\ running' = running \cup {AgentOf[r]} /\ step' = [step EXCEPT ![r] = "claimed"]
  /\ UNCHANGED <<kind, phase, child, drain, output>>

\* A timer fires: skipped if the agent's flag is set, which the fire sets.
Fire(r) ==
  /\ kind = "schedule" /\ Accepting /\ step[r] = "idle" /\ AgentOf[r] \notin running
  /\ running' = running \cup {AgentOf[r]} /\ step' = [step EXCEPT ![r] = "claimed"]
  /\ UNCHANGED <<kind, phase, child, drain, output>>

\* Under the lock of the invocations, which the shutdown takes for good.
Claim(r) ==
  /\ step[r] = "claimed" /\ phase \in {"serving", "stopping"}
  /\ IF Accepting THEN step' = [step EXCEPT ![r] = "spawn"] /\ UNCHANGED running
                  ELSE step' = [step EXCEPT ![r] = "idle"] /\ running' = running \ {AgentOf[r]}
  /\ UNCHANGED <<kind, phase, child, drain, output>>

\* A variable the agent's environment names is not set: there is no child.
NoEnv(r) ==
  /\ kind = "schedule" /\ step[r] = "spawn" /\ step' = [step EXCEPT ![r] = "idle"]
  /\ running' = running \ {AgentOf[r]}
  /\ UNCHANGED <<kind, phase, child, drain, output>>

\* A request for an agent, valid: no look at what runs.
Trigger(r) ==
  /\ kind = "api" /\ Accepting /\ step[r] = "idle"
  /\ step' = [step EXCEPT ![r] = "spawn"]
  /\ UNCHANGED <<kind, phase, running, child, drain, output>>

Forget(r) ==
  LET mine == {r} \X Streams
      Of(f, none) == [p \in Pipes |-> IF p \in mine THEN none ELSE f[p]]
  IN  /\ open' = open \ mine /\ drained' = drained \ mine
      /\ unread' = Of(unread, <<>>) /\ written' = Of(written, <<>>) /\ buffer' = Of(buffer, Empty)
      /\ output' = [output EXCEPT ![r] = <<>>]

\* Wrong on purpose: the flag outlives the invocation.
ReturnKeepingFlag(r) ==
  /\ step[r] = "ended" /\ step' = [step EXCEPT ![r] = "idle"]
  /\ Forget(r)
  /\ UNCHANGED <<kind, phase, running, alive>>

\* The consumer has seen the end of the stream; the guard clears the flag.
Return(r) ==
  /\ step[r] = "ended" /\ step' = [step EXCEPT ![r] = "idle"]
  /\ running' = running \ {AgentOf[r]} /\ Forget(r)
  /\ UNCHANGED <<kind, phase, alive>>

\* The caller of the API goes away: the stream is dropped.
Disconnect(r) ==
  /\ kind = "api" /\ step[r] \in {"spawn", "wait", "ended"}
  /\ step' = [step EXCEPT ![r] = "aborting"]
  /\ UNCHANGED <<kind, phase, running, child, drain, output>>

\* The driver of a dropped stream is aborted, and drops its child, which dies.
Aborted(r) ==
  /\ step[r] = "aborting" /\ step' = [step EXCEPT ![r] = "idle"]
  /\ alive' = alive \ {r} /\ Forget(r)
  /\ UNCHANGED <<kind, phase, running>>

-----------------------------------------------------------------------------
(* spawn_and_stream: the driver, and a task for each of the two pipes.     *)

Spawn(r) ==
  /\ step[r] = "spawn"
  /\ \/ /\ step' = [step EXCEPT ![r] = "wait"] /\ alive' = alive \cup {r}
        /\ open' = open \cup {r} \X Streams /\ UNCHANGED output
     \/ /\ step' = [step EXCEPT ![r] = "ended"]
        /\ output' = [output EXCEPT ![r] = <<End("spawn failed")>>]
        /\ UNCHANGED <<alive, open>>
  /\ UNCHANGED <<kind, phase, running, unread, written, drain>>

\* The child, or a process it left behind, writes.
Write(p) ==
  /\ p \in open /\ step[p[1]] = "wait"
  /\ p[1] \in Talking /\ MapThenSumSet(LAMBDA q : Len(written[q]), Pipes) < MaxBytes
  /\ \E b \in Bytes : /\ written' = [written EXCEPT ![p] = Append(@, b)]
                      /\ unread' = [unread EXCEPT ![p] = Append(@, b)]
  /\ UNCHANGED <<kind, phase, running, step, alive, open, drain, output>>

ExitChild(r) ==
  /\ r \in alive /\ step[r] = "wait" /\ alive' = alive \ {r}
  /\ \E left \in SUBSET (open \cap {r} \X Streams) : open' = open \ left
  /\ UNCHANGED <<kind, phase, running, step, unread, written, drain, output>>

\* The last process that holds a pipe of the run lets go of it.
ClosePipe(p) ==
  /\ p \in open /\ p[1] \notin alive /\ step[p[1]] = "wait" /\ open' = open \ {p}
  /\ UNCHANGED <<kind, phase, running, step, alive, unread, written, drain, output>>

\* cap_line, and the carriage return before the end of a line.
Cap(line)   == [text |-> SubSeq(line, 1, IF Len(line) > MaxLineLen THEN MaxLineLen ELSE Len(line)),
                cut  |-> Len(line) > MaxLineLen]
Chomp(line) == IF line # <<>> /\ Last(line) = "cr" THEN Front(line) ELSE line

Byte(b, c) ==
  IF c = "nl"
    THEN [Empty EXCEPT !.out = IF b.discarding THEN b.out ELSE Append(b.out, Cap(Chomp(b.line)))]
    ELSE IF b.discarding THEN b ELSE [b EXCEPT !.line = Append(@, c)]

Through(b, chunk) ==
  LET fed[n \in 0 .. Len(chunk)] == IF n = 0 THEN b ELSE Byte(fed[n - 1], chunk[n])
  IN  fed[Len(chunk)]

\* Wrong on purpose: a line is complete at the end of the chunk.
FeedByChunk(b, chunk) ==
  LET r == Through(b, chunk)
  IN  [r EXCEPT !.line = <<>>, !.out = IF r.line = <<>> THEN @ ELSE Append(@, Cap(r.line))]

\* drain, for one chunk: its lines, and the rest, which is emitted at once if
\* it is too long already; then the line's own rest is discarded.
Feed(b, chunk) ==
  LET r == Through(b, chunk)
  IN  IF Len(r.line) > LineBytesMax
        THEN [line |-> <<>>, discarding |-> TRUE, out |-> Append(r.out, Cap(r.line))]
        ELSE r

Emit(p, lines) ==
  output' = [output EXCEPT ![p[1]] = @ \o [i \in 1 .. Len(lines) |-> [of |-> p[2], line |-> lines[i]]]]

Read(p) ==
  /\ step[p[1]] = "wait"
  /\ \E n \in 1 .. Len(unread[p]) :
       LET fed == Feed(buffer[p], SubSeq(unread[p], 1, n))
       IN  /\ unread' = [unread EXCEPT ![p] = SubSeq(@, n + 1, Len(@))]
           /\ buffer' = [buffer EXCEPT ![p] = [fed EXCEPT !.out = <<>>]]
           /\ Emit(p, fed.out)
  /\ UNCHANGED <<kind, phase, running, step, alive, open, written, drained>>

\* The end of the pipe: what is left is a line too.
EndRead(p) ==
  /\ step[p[1]] = "wait" /\ p \notin open \cup drained /\ unread[p] = <<>>
  /\ drained' = drained \cup {p} /\ buffer' = [buffer EXCEPT ![p] = Empty]
  /\ Emit(p, IF buffer[p].line = <<>> THEN <<>> ELSE <<Cap(Chomp(buffer[p].line))>>)
  /\ UNCHANGED <<kind, phase, running, step, child>>

\* The child is waited for, then the two tasks, then its exit is told.
Exited(r) ==
  /\ step[r] = "wait" /\ r \notin alive /\ {r} \X Streams \subseteq drained
  /\ step' = [step EXCEPT ![r] = "ended"]
  /\ output' = [output EXCEPT ![r] = Append(@, End("exited"))]
  /\ UNCHANGED <<kind, phase, running, child, drain>>

-----------------------------------------------------------------------------
(* The shutdown.                                                           *)

Signal ==
  /\ Accepting /\ phase' = "stopping"
  /\ UNCHANGED <<kind, running, step, child, drain, output>>

\* finish_invocations has the lock; the API server drains.
BeginGrace ==
  /\ phase = "stopping" /\ phase' = "grace"
  /\ UNCHANGED <<kind, running, step, child, drain, output>>

Invocations == {r \in Runs : step[r] \in {"spawn", "wait", "ended"}}

\* Wrong on purpose: the shutdown waits for the invocations, however long.
TimeUpNever ==
  /\ phase = "grace" /\ Invocations = {} /\ phase' = "reap"
  /\ UNCHANGED <<kind, running, step, child, drain, output>>

\* The grace period is over: what still runs is aborted.
TimeUp ==
  /\ phase = "grace" /\ phase' = "reap"
  /\ step' = [r \in Runs |-> IF r \in Invocations THEN "aborting" ELSE step[r]]
  /\ UNCHANGED <<kind, running, child, drain, output>>

\* With no invocation left, or none but those just aborted, the program ends,
\* and its runtime drops every task there is.
Exit ==
  /\ phase = "reap" \/ (phase = "grace" /\ Invocations = {})
  /\ phase' = "stopped" /\ alive' = {}
  /\ step' = [r \in Runs |-> "idle"]
  /\ UNCHANGED <<kind, running, open, unread, written, drain, output>>

-----------------------------------------------------------------------------
RunStep(r) ==
  \/ Claim(r) \/ NoEnv(r) \/ Return(r) \/ Aborted(r) \/ Spawn(r) \/ Exited(r)
  \/ \E s \in Streams : Read(<<r, s>>) \/ EndRead(<<r, s>>)

Shutdown == BeginGrace \/ TimeUp \/ Exit

LaunchNext ==
  /\ phase # "stopped"
  /\ \/ \E r \in Runs : Fire(r) \/ Trigger(r) \/ Disconnect(r) \/ RunStep(r) \/ ExitChild(r)
     \/ \E p \in Pipes : Write(p) \/ ClosePipe(p)
     \/ Signal \/ Shutdown

\* The tasks are polled, and a shutdown that has begun goes on.  A child may run
\* for ever, and what it left behind may keep its pipes open.
Fairness ==
  /\ \A r \in Runs : WF_launchVars(phase # "stopped" /\ RunStep(r))
  /\ WF_launchVars(Shutdown)

LaunchSpec == LaunchInit /\ [][LaunchNext]_launchVars /\ Fairness

-----------------------------------------------------------------------------
(***************************************************************************)
(* What the launchers promise.                                             *)
(***************************************************************************)

\* Two timer fires of an agent never have a child, or a line to read, at once.
OneAtATime ==
  kind = "schedule" => \A r, q \in Invocations : AgentOf[r] = AgentOf[q] => r = q

\* The end of the last line that ends in the first n bytes.
LastEnd(bytes, n) == Max({0} \cup {i \in 1 .. n : bytes[i] = "nl"})

\* The lines that end in the first n bytes: what is between two line ends.
WholeLines(bytes, n) ==
  LET lines[i \in 0 .. Len(bytes)] ==
        IF i = 0 THEN <<>>
        ELSE IF bytes[i] # "nl" THEN lines[i - 1]
        ELSE Append(lines[i - 1], Cap(Chomp(SubSeq(bytes, LastEnd(bytes, i - 1) + 1, i - 1))))
  IN  lines[n]

\* The lines of a stream: those that end, and what is left.
Lines(bytes) ==
  LET left == SubSeq(bytes, LastEnd(bytes, Len(bytes)) + 1, Len(bytes))
  IN  WholeLines(bytes, Len(bytes)) \o (IF left = <<>> THEN <<>> ELSE <<Cap(Chomp(left))>>)

\* The lines the consumer got of a stream.
LinesOf(items, s) ==
  LET lines[i \in 0 .. Len(items)] ==
        IF i = 0 THEN <<>>
        ELSE IF items[i].of = s THEN Append(lines[i - 1], items[i].line) ELSE lines[i - 1]
  IN  lines[Len(items)]

\* The consumer of a child's output gets every line of each stream, in order
\* and cut to the limit, however the bytes came in chunks, and the exit after
\* the last of them; and no more of a line than the limit is kept meanwhile.
OutputComplete ==
  /\ \A r \in Runs : step[r] = "ended" =>
       /\ Last(output[r]).of \in Ends
       /\ \A s \in Streams : LinesOf(output[r], s) = Lines(written[<<r, s>>])
  /\ \A p \in Pipes : Len(buffer[p].line) <= LineBytesMax

\* An agent whose timer fired can be run again, in the end, unless its process,
\* or one that process left behind, stays: whatever way the invocation ends, and
\* whatever it wrote, its flag is cleared.
FlagComesDown ==
  []<>(alive = {} /\ open = {}) => \A a \in Agents : []<>(a \notin running \/ phase = "stopped")

\* A child that never ends does not keep the launcher from ending.
StopsInTime == []<>(phase \in {"serving", "stopped"})
=============================================================================
