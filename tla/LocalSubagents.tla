--------------------------- MODULE LocalSubagents ---------------------------
(***************************************************************************)
(* The subagents and sandboxes a client harness runs on its own machine.   *)
(*                                                                         *)
(* A launch returns at once; a detached task (work) runs the command, in a *)
(* process of its own or in a local container, and records how it ended.   *)
(* The session's log learns of it by best-effort reports, and the model is *)
(* offered the status tool while something is tracked.  The calls of the   *)
(* harness hold one asynchronous lock each from their first step to their  *)
(* last; the detached tasks never take it.  The future of a call may be    *)
(* dropped at any of its waits, and the detached tasks may be aborted at   *)
(* any of theirs.                                                          *)
(***************************************************************************)
EXTENDS Integers, FiniteSets, Sequences

CONSTANTS
  Ids,        \* the subagents ever launched
  Boxed,      \* those whose command runs in a local container
  Tool,       \* the sandbox tool of the harness, which uses the same container
  None,
  MaxRunning, \* MAX_SUBAGENTS_PER_SESSION
  MaxBoxes,   \* bound on the containers started
  MaxFaults   \* bound on the calls that fail, at the server or the engine, or are dropped

ASSUME LocalAssumption ==
  /\ Boxed \subseteq Ids /\ Tool \notin Ids
  /\ None \notin Ids \cup {Tool, "over", "timed_out"} /\ None \notin Nat
  /\ {MaxRunning, MaxBoxes, MaxFaults} \subseteq Nat

VARIABLES
  call,       \* the call that holds the lock, and its next step
  tracked,    \* the keys of the tasks map
  status,     \* the status each subagent has, or had when it left the map
  handle,     \* those whose abort handle is stored
  gate,       \* those whose launch let them record their end
  work,       \* where each detached task, or the sandbox tool, is
  outcome,    \* how its command ended
  advertised, \* the server offers the status tool
  closed,     \* the session is closed on the server
  events,     \* the reports of each subagent in the session's log
  boxEvents,  \* those of each container
  boxOwner,   \* who holds the lock of the started map
  started,    \* the container in that map
  doomed,     \* the container a stop has taken out of it
  up,         \* the containers that run
  made,       \* containers created so far
  faults,
  delivered,  \* history: how often the end of each was told to the model
  stale,      \* history: the last word on the status tool never reached the server
  abandoned,  \* history: those whose launch was dropped
  loose       \* history: containers whose start was cut off, or whose stop failed or was dropped

subagents == <<tracked, status, handle, gate, outcome>>
server    == <<advertised, closed, events, boxEvents>>
boxes     == <<boxOwner, started, doomed, up, made, loose>>
hist      == <<delivered, stale, abandoned>>
vars      == <<call, subagents, work, server, boxes, faults, hist>>

\* "over" is completed or failed, as the exit status or the error says.
Ends   == {"over", "timed_out", "cancelled"}
Busy   == {"box", "create", "report", "work"}
NoCall == [op |-> "none", step |-> "none", ids |-> {}, sync |-> FALSE]

TypeOK ==
  /\ call \in [op: {"none", "launch", "status", "cancel", "close", "exec"},
               step: {"none", "start", "running", "report", "sync", "drain", "halt", "note", "delete"},
               ids: SUBSET Ids, sync: BOOLEAN]
  /\ tracked \subseteq {i \in Ids : status[i] # "none"}
  /\ status \in [Ids -> {"none", "running"} \cup Ends]
  /\ handle \subseteq {i \in Ids : status[i] = "running"}
  /\ gate \subseteq Ids \ {i \in Ids : work[i] = "none"}
  /\ work \in [Ids \cup {Tool} -> Busy \cup {"none", "settled", "apply", "tell", "end"}]
  /\ outcome \in [Ids -> {None} \cup Ends]
  /\ advertised \in BOOLEAN /\ closed \in BOOLEAN
  /\ events \in [Ids -> Seq({"start", "running"} \cup Ends)]
  /\ boxEvents \in [1 .. MaxBoxes -> Seq({"running", "stopped", "error"})]
  /\ boxOwner \in Boxed \cup {Tool, None}
  /\ made \in 0 .. MaxBoxes /\ up \subseteq 1 .. made /\ loose \subseteq up
  /\ started \in {None} \cup 1 .. made /\ doomed \in {None} \cup 1 .. made
  /\ faults \in 0 .. MaxFaults
  /\ delivered \in [Ids -> Nat] /\ stale \in BOOLEAN
  /\ abandoned \subseteq Ids

Init ==
  /\ call = NoCall
  /\ tracked = {} /\ status = [i \in Ids |-> "none"] /\ handle = {} /\ gate = {}
  /\ work = [a \in Ids \cup {Tool} |-> "none"] /\ outcome = [i \in Ids |-> None]
  /\ advertised = FALSE /\ closed = FALSE /\ events = [i \in Ids |-> <<>>]
  /\ boxEvents = [b \in 1 .. MaxBoxes |-> <<>>]
  /\ boxOwner = None /\ started = None /\ doomed = None /\ up = {} /\ made = 0 /\ loose = {}
  /\ faults = 0
  /\ delivered = [i \in Ids |-> 0] /\ stale = FALSE /\ abandoned = {}

Free    == call = NoCall /\ ~closed
Running == {i \in tracked : status[i] = "running"}

Fails == faults < MaxFaults /\ faults' = faults + 1

\* report_local_subagent_rpc and report_local_sandbox_rpc, for a registered
\* driver: the report is an event of the session.
LogSubagent(i, what) == ~closed /\ events' = [events EXCEPT ![i] = Append(@, what)]
LogBox(b, what) == ~closed /\ boxEvents' = [boxEvents EXCEPT ![b] = Append(@, what)]

\* report and report_local_sandbox: what the server does not take is forgotten.
Report(i, what) ==
  /\ \/ LogSubagent(i, what) /\ UNCHANGED faults
     \/ ~closed /\ Fails /\ UNCHANGED events
     \/ closed /\ UNCHANGED <<events, faults>>
  /\ UNCHANGED boxEvents

ReportBox(b, what) ==
  /\ \/ LogBox(b, what) /\ UNCHANGED faults
     \/ ~closed /\ Fails /\ UNCHANGED boxEvents
     \/ closed /\ UNCHANGED <<boxEvents, faults>>
  /\ UNCHANGED events

\* update_client_tools_rpc: the client's tools are what is sent.
UpdateTools(b) == advertised' = b

\* sync_client_tools: the whole list, with the status tool or without.
Sync(b) ==
  \/ UpdateTools(b) /\ stale' = FALSE /\ UNCHANGED faults
  \/ Fails /\ stale' = TRUE /\ UNCHANGED advertised

\* The engine's commands: an image that is there or pulled, and run; stop.
RunBox      == made < MaxBoxes /\ made' = made + 1 /\ up' = up \cup {made'}
StopBox(b)  == up' = up \ {b}

\* The container of a start that is cut off: the engine's command is not
\* killed with the task that waits for it, and may yet create one.
CutBox(gone) ==
  IF boxOwner \notin gone THEN UNCHANGED <<boxOwner, up, made, loose, boxEvents>>
  ELSE /\ boxOwner' = None
       /\ \/ work[boxOwner] = "create" /\ RunBox /\ loose' = loose \cup {made'} /\ UNCHANGED boxEvents
          \/ work[boxOwner] = "create" /\ UNCHANGED <<up, made, loose, boxEvents>>
          \/ /\ work[boxOwner] = "report" /\ loose' = loose \cup {made} /\ UNCHANGED <<up, made>>
             /\ LogBox(made, "running") \/ UNCHANGED boxEvents

\* abort: a task that waits is gone, and its process with it; one that has
\* passed its last wait goes on to the next.
Abort(ids) ==
  LET gone == {i \in ids \cap handle : work[i] # "apply"}
  IN  /\ work' = [a \in Ids \cup {Tool} |-> IF a \in gone THEN "end" ELSE work[a]]
      /\ CutBox(gone)
      /\ handle' = handle \ ids
      /\ status' = [i \in Ids |-> IF i \in ids THEN "cancelled" ELSE status[i]]

-----------------------------------------------------------------------------
(* handle_launch.                                                          *)

\* Wrong on purpose: the status tool is offered at the second launch only.
LaunchUnseen(i) ==
  /\ Free /\ status[i] = "none" /\ Cardinality(Running) < MaxRunning
  /\ tracked' = tracked \cup {i} /\ status' = [status EXCEPT ![i] = "running"]
  /\ call' = [op |-> "launch", step |-> "start", ids |-> {i}, sync |-> tracked # {}]
  /\ UNCHANGED <<handle, gate, outcome, work, server, boxes, faults, hist>>

Launch(i) ==
  /\ Free /\ status[i] = "none" /\ Cardinality(Running) < MaxRunning
  /\ tracked' = tracked \cup {i} /\ status' = [status EXCEPT ![i] = "running"]
  /\ call' = [op |-> "launch", step |-> "start", ids |-> {i}, sync |-> tracked = {}]
  /\ UNCHANGED <<handle, gate, outcome, work, server, boxes, faults, hist>>

\* Where the launch tool runs its commands: on the host, or in a container.
FirstStep(i) == IF i \in Boxed THEN "box" ELSE "work"

\* Reported, then spawned, with the handle stored before the next wait.
LogStart(i) ==
  /\ call.op = "launch" /\ call.step = "start" /\ i \in call.ids
  /\ Report(i, "start")
  /\ work' = [work EXCEPT ![i] = FirstStep(i)]
  /\ handle' = handle \cup {i}
  /\ call' = [call EXCEPT !.step = "running"]
  /\ UNCHANGED <<tracked, status, gate, outcome, advertised, closed, boxes, hist>>

LogRunning(i) ==
  /\ call.op = "launch" /\ call.step = "running" /\ i \in call.ids
  /\ Report(i, "running")
  /\ call' = [call EXCEPT !.step = "sync"]
  /\ UNCHANGED <<subagents, work, advertised, closed, boxes, hist>>

\* Wrong on purpose: the task is never told that it may record its end.
ReturnSilently(i) ==
  /\ call.op = "launch" /\ call.step = "sync" /\ i \in call.ids
  /\ IF call.sync THEN Sync(TRUE) ELSE UNCHANGED <<advertised, stale, faults>>
  /\ call' = NoCall
  /\ UNCHANGED <<subagents, closed, events, boxEvents, work, boxes, delivered, abandoned>>

\* The tool is offered, then the task may record its end.
Return(i) ==
  /\ call.op = "launch" /\ call.step = "sync" /\ i \in call.ids
  /\ IF call.sync THEN Sync(TRUE) ELSE UNCHANGED <<advertised, stale, faults>>
  /\ gate' = gate \cup {i} /\ call' = NoCall
  /\ UNCHANGED <<tracked, status, handle, outcome, closed, events, boxEvents, work, boxes,
                 delivered, abandoned>>

-----------------------------------------------------------------------------
(* handle_status, cancel_subagent, close.                                  *)

\* One subagent, or all: those that ended are told, and forgotten.
Status(ids) ==
  LET told == {i \in ids : status[i] # "running"}
  IN
  /\ Free /\ ids # {} /\ tracked' = tracked \ told
  /\ delivered' = [i \in Ids |-> delivered[i] + IF i \in told THEN 1 ELSE 0]
  /\ call' = IF tracked' = {} THEN [NoCall EXCEPT !.op = "status", !.step = "sync", !.sync = TRUE]
                              ELSE NoCall
  /\ UNCHANGED <<status, handle, gate, outcome, work, server, boxes, faults,
                 stale, abandoned>>

Retire ==
  /\ call.op = "status" /\ Sync(FALSE) /\ call' = NoCall
  /\ UNCHANGED <<subagents, closed, events, boxEvents, work, boxes, delivered, abandoned>>

Cancel(i) ==
  /\ Free /\ i \in Running /\ Abort({i})
  /\ call' = [op |-> "cancel", step |-> "report", ids |-> {i}, sync |-> FALSE]
  /\ UNCHANGED <<tracked, gate, outcome, advertised, closed, events, started, doomed, faults,
                 delivered, stale, abandoned>>

\* close_all: everything is aborted and forgotten, then reported.
Close ==
  /\ Free /\ Abort(Running) /\ tracked' = {}
  /\ call' = [op |-> "close", step |-> "report", ids |-> Running, sync |-> tracked # {}]
  /\ UNCHANGED <<gate, outcome, advertised, closed, events, started, doomed, faults,
                 delivered, stale, abandoned>>

LogCancel(i) ==
  /\ call.step = "report" /\ i \in call.ids
  /\ Report(i, "cancelled")
  /\ call' = IF call.op = "cancel" THEN NoCall ELSE [call EXCEPT !.ids = @ \ {i}]
  /\ UNCHANGED <<subagents, work, advertised, closed, boxes, hist>>

\* Wrong on purpose: without subagents there is nothing to stop.
RetireAndLeave ==
  /\ call.op = "close" /\ call.step = "report" /\ call.ids = {}
  /\ IF call.sync THEN Sync(FALSE) ELSE UNCHANGED <<advertised, stale, faults>>
  /\ call' = [call EXCEPT !.step = IF call.sync THEN "drain" ELSE "delete", !.sync = FALSE]
  /\ UNCHANGED <<subagents, closed, events, boxEvents, work, boxes, delivered, abandoned>>

RetireAtClose ==
  /\ call.op = "close" /\ call.step = "report" /\ call.ids = {}
  /\ IF call.sync THEN Sync(FALSE) ELSE UNCHANGED <<advertised, stale, faults>>
  /\ call' = [call EXCEPT !.step = "drain", !.sync = FALSE]
  /\ UNCHANGED <<subagents, closed, events, boxEvents, work, boxes, delivered, abandoned>>

\* stop_all_local: takes what is in the map out of it, then stops it.
Drain ==
  /\ call.step = "drain" /\ boxOwner = None
  /\ doomed' = started /\ started' = None
  /\ call' = [call EXCEPT !.step = "halt"]
  /\ UNCHANGED <<subagents, work, server, boxOwner, up, made, loose, faults, hist>>

Halt ==
  /\ call.step = "halt" /\ call' = [call EXCEPT !.step = IF doomed = None THEN "delete" ELSE "note"]
  /\ \/ StopBox(doomed) /\ UNCHANGED <<faults, loose>>
     \/ doomed # None /\ Fails /\ loose' = loose \cup {doomed} /\ UNCHANGED up
  /\ UNCHANGED <<subagents, work, server, boxOwner, started, doomed, made,
                 delivered, stale, abandoned>>

LogHalt ==
  /\ call.step = "note" /\ call' = [call EXCEPT !.step = "delete"] /\ doomed' = None
  /\ ReportBox(doomed, IF doomed \in up THEN "error" ELSE "stopped")
  /\ UNCHANGED <<subagents, work, advertised, closed, boxOwner, started, up, made, loose, hist>>

Delete ==
  /\ call.step = "delete" /\ call' = NoCall
  /\ \/ closed' = TRUE /\ UNCHANGED faults
     \/ Fails /\ UNCHANGED closed
  /\ UNCHANGED <<subagents, work, advertised, events, boxEvents, boxes, hist>>

\* A call of the sandbox tool.
ExecLocal ==
  /\ Free /\ call' = [NoCall EXCEPT !.op = "exec"]
  /\ work' = [work EXCEPT ![Tool] = "box"]
  /\ UNCHANGED <<subagents, server, boxes, faults, hist>>

\* The program drops a call of its own at one of its waits.
Drop ==
  /\ call # NoCall /\ Fails
  /\ call' = NoCall
  /\ abandoned' = IF call.op = "launch" THEN abandoned \cup call.ids ELSE abandoned
  /\ stale' = (stale \/ call.sync)
  /\ doomed' = None
  /\ IF call.op = "exec"
       THEN CutBox({Tool}) /\ work' = [work EXCEPT ![Tool] = "none"]
       ELSE loose' = loose \cup ({doomed} \cap up) /\ UNCHANGED <<boxOwner, up, made, boxEvents, work>>
  /\ UNCHANGED <<subagents, advertised, closed, events, started, delivered>>

-----------------------------------------------------------------------------
(* watch, the detached task of a subagent, and start_local.                *)

\* The command is over, by itself or by a timeout.
Settled(a, how) ==
  IF a = Tool
    THEN work' = [work EXCEPT ![a] = "none"] /\ call' = NoCall /\ UNCHANGED outcome
    ELSE /\ work' = [work EXCEPT ![a] = "settled"]
         /\ outcome' = [outcome EXCEPT ![a] = how] /\ UNCHANGED call

\* start_local holds its lock until the container is in the map.
UseBox(a) ==
  /\ work[a] = "box" /\ boxOwner = None
  /\ IF started # None THEN work' = [work EXCEPT ![a] = "work"] /\ UNCHANGED boxOwner
                       ELSE work' = [work EXCEPT ![a] = "create"] /\ boxOwner' = a
  /\ UNCHANGED <<call, subagents, server, started, doomed, up, made, loose, faults, hist>>

CreateBox(a) ==
  /\ work[a] = "create"
  /\ \/ /\ RunBox /\ work' = [work EXCEPT ![a] = "report"]
        /\ UNCHANGED <<call, outcome, boxOwner, faults>>
     \/ /\ Fails \/ (made = MaxBoxes /\ UNCHANGED faults)
        /\ boxOwner' = None /\ Settled(a, "over") /\ UNCHANGED <<made, up>>
  /\ UNCHANGED <<tracked, status, handle, gate, server, started, doomed, loose, hist>>

InsertBox(a) ==
  /\ work[a] = "report" /\ ReportBox(made, "running")
  /\ started' = made /\ boxOwner' = None
  /\ work' = [work EXCEPT ![a] = "work"]
  /\ UNCHANGED <<call, subagents, advertised, closed, doomed, up, made, loose, hist>>

\* exec_local: the engine refuses the command in the container.
ToolFails ==
  /\ work[Tool] = "work" /\ Fails /\ LogBox(started, "error") /\ Settled(Tool, "over")
  /\ UNCHANGED <<tracked, status, handle, gate, advertised, closed, events, boxes, hist>>

Finish(a) ==
  /\ work[a] = "work" /\ Settled(a, "over")
  /\ UNCHANGED <<tracked, status, handle, gate, server, boxes, faults, hist>>

\* The timeout covers all the waits of the command, and drops them.
TimeOut(i) ==
  /\ work[i] \in Busy /\ Settled(i, "timed_out") /\ CutBox({i})
  /\ UNCHANGED <<tracked, status, handle, gate, advertised, closed, events, started, doomed, faults,
                 delivered, stale, abandoned>>

\* Wrong on purpose: without waiting for the launch.
PassEarly(i) ==
  /\ work[i] = "settled" /\ work' = [work EXCEPT ![i] = "apply"]
  /\ UNCHANGED <<call, subagents, server, boxes, faults, hist>>

Pass(i) ==
  /\ work[i] = "settled" /\ i \in gate /\ work' = [work EXCEPT ![i] = "apply"]
  /\ UNCHANGED <<call, subagents, server, boxes, faults, hist>>

\* The first to record an end wins.
Apply(i) ==
  /\ work[i] = "apply"
  /\ IF i \in Running
       THEN /\ work' = [work EXCEPT ![i] = "tell"]
            /\ status' = [status EXCEPT ![i] = outcome[i]] /\ handle' = handle \ {i}
       ELSE work' = [work EXCEPT ![i] = "end"] /\ UNCHANGED <<status, handle>>
  /\ UNCHANGED <<call, tracked, gate, outcome, server, boxes, faults, hist>>

LogEnd(i) ==
  /\ work[i] = "tell" /\ work' = [work EXCEPT ![i] = "end"]
  /\ Report(i, outcome[i])
  /\ UNCHANGED <<call, subagents, advertised, closed, boxes, hist>>

-----------------------------------------------------------------------------
CallStep ==
  \/ \E i \in Ids : LogStart(i) \/ LogRunning(i) \/ Return(i) \/ LogCancel(i)
  \/ Retire \/ RetireAtClose \/ Drain \/ Halt \/ LogHalt \/ Delete

TaskStep(a) == UseBox(a) \/ CreateBox(a) \/ InsertBox(a) \/ Finish(a)

EndStep(i) == TimeOut(i) \/ Pass(i) \/ Apply(i) \/ LogEnd(i)

Next ==
  \/ CallStep
  \/ \E i \in Ids : Launch(i) \/ Status({i} \cap tracked) \/ Cancel(i) \/ EndStep(i)
  \/ Status(tracked) \/ Close \/ ExecLocal \/ ToolFails \/ Drop
  \/ \E a \in Ids \cup {Tool} : TaskStep(a)

\* The runtime polls every task that can go on, and a timeout expires.
Fairness ==
  /\ WF_vars(CallStep)
  /\ \A a \in Ids \cup {Tool} : WF_vars(TaskStep(a))
  /\ \A i \in Ids : WF_vars(EndStep(i))

Spec == Init /\ [][Next]_vars /\ Fairness

-----------------------------------------------------------------------------
(***************************************************************************)
(* What the harness promises.                                              *)
(***************************************************************************)

Place(what) == IF what = "start" THEN 1 ELSE IF what = "running" THEN 2 ELSE 3

\* The log tells the life of a subagent in its order - start, running, and one
\* end - though reports are lost, and the task that ends it is not the call
\* that launched or cancelled it; and the model is told the end once at most.
\* So with a container: it says running first, and stopped last and truly.
ReportOrder ==
  /\ \A i \in Ids :
       /\ \A j, k \in 1 .. Len(events[i]) : j < k => Place(events[i][j]) < Place(events[i][k])
       /\ delivered[i] <= 1
  /\ \A b \in 1 .. made : \A j \in DOMAIN boxEvents[b] :
       /\ boxEvents[b][j] = "running" => j = 1
       /\ boxEvents[b][j] = "stopped" => j = Len(boxEvents[b]) /\ b \notin up

\* Between two calls the model is offered the status tool if and only if
\* something is tracked, unless the last word on it was lost.
AdvertisedWhenTracked ==
  call = NoCall /\ ~stale => advertised = (tracked # {})

\* Every subagent ends, unless the program dropped the call that launched it.
EveryLaunchEnds ==
  \A i \in Ids : []<>(status[i] # "running" \/ i \in abandoned)

\* close() stops every container the session started, whoever is starting or
\* using it; but a start that is cut off - by the close's own abort, too - leaves
\* its container to nobody, and so does a stop that fails or is dropped.
CloseStopsEveryBox == closed => up = loose
=============================================================================
