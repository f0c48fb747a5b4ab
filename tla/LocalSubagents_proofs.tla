----------------------- MODULE LocalSubagents_proofs -----------------------
(***************************************************************************)
(* What a harness runs on its own machine: proofs for any subagents,       *)
(* containers, limits and faults.                                          *)
(*                                                                         *)
(* The calls exclude each other, the detached tasks run beside them.  A    *)
(* subagent's end is owed by one of them at a time: by nobody before it    *)
(* has ended, then by the task that recorded the outcome or by the call    *)
(* that cancelled it, and whoever logs it pays the debt (Owing).  A        *)
(* container that runs belongs to the map, to the stop that took it out,   *)
(* or to the start that has yet to insert it (Boxes), and a start under    *)
(* way belongs to a call or to a running subagent: a close has aborted     *)
(* those, so that it finds nobody starting when it takes the map.          *)
(***************************************************************************)
EXTENDS LocalSubagents, SequenceTheorems, TLAPS

-----------------------------------------------------------------------------
(* The invariant.                                                          *)

Says(i, what) == \E j \in DOMAIN events[i] : events[i][j] = what
Told(i)       == \E j \in DOMAIN events[i] : events[i][j] \in Ends

CallType ==
  call \in [op: {"none", "launch", "status", "cancel", "close", "exec"},
            step: {"none", "start", "running", "report", "sync", "drain", "halt", "note", "delete"},
            ids: SUBSET Ids, sync: BOOLEAN]

SubTypes ==
  /\ tracked \subseteq {i \in Ids : status[i] # "none"}
  /\ status \in [Ids -> {"none", "running"} \cup Ends]
  /\ handle \subseteq {i \in Ids : status[i] = "running"}
  /\ gate \subseteq Ids \ {i \in Ids : work[i] = "none"}
  /\ work \in [Ids \cup {Tool} -> Busy \cup {"none", "settled", "apply", "tell", "end"}]
  /\ outcome \in [Ids -> {None} \cup Ends]

HistTypes == delivered \in [Ids -> Nat] /\ stale \in BOOLEAN /\ abandoned \subseteq Ids

ServerTypes == advertised \in BOOLEAN /\ closed \in BOOLEAN /\ faults \in 0 .. MaxFaults

EventTypes == events \in [Ids -> Seq({"start", "running"} \cup Ends)]

BoxEventTypes == boxEvents \in [1 .. MaxBoxes -> Seq({"running", "stopped", "error"})]

BoxTypes ==
  /\ boxOwner \in Boxed \cup {Tool, None}
  /\ made \in 0 .. MaxBoxes /\ up \subseteq 1 .. made /\ loose \subseteq up
  /\ started \in {None} \cup 1 .. made /\ doomed \in {None} \cup 1 .. made

\* What each call may be at.
Shape ==
  /\ call.op = "none" => call = NoCall
  /\ call.op = "launch" => call.step \in {"start", "running", "sync"} /\ \E i \in Ids : call.ids = {i}
  /\ call.op = "status" => call.step = "sync" /\ call.ids = {} /\ call.sync
  /\ call.op = "cancel" => call.step = "report" /\ ~call.sync
  /\ call.op = "close" => /\ call.step \in {"report", "drain", "halt", "note", "delete"}
                          /\ call.sync => call.step = "report"
  /\ call.op = "exec" => call.step = "none" /\ call.ids = {} /\ ~call.sync

\* The offer is right, or the call has yet to correct it.
Offer ==
  /\ call.op \in {"status", "close"} => tracked = {}
  /\ ~stale /\ ~call.sync => advertised = (tracked # {})

\* The subagent that is launched is tracked, and its task may not end it yet.
Launching ==
  call.op = "launch" => \A i \in call.ids :
    /\ i \in tracked /\ status[i] = "running" /\ i \notin gate
    /\ call.step = "start" => work[i] = "none" /\ events[i] = <<>>
    /\ call.step # "start" => work[i] # "none"
    /\ call.step = "running" => ~Says(i, "running")

Cancelling == call.step = "report" => \A i \in call.ids : status[i] = "cancelled"

Task(i) ==
  /\ status[i] = "none" => work[i] = "none" /\ events[i] = <<>> /\ delivered[i] = 0
  /\ status[i] = "running" => i \in tracked
  /\ work[i] \in Busy => i \in handle
  /\ work[i] \in {"box", "create", "report"} => i \in Boxed
  /\ outcome[i] \in {None, "over", "timed_out"}
  /\ work[i] \in {"settled", "apply", "tell"} => outcome[i] # None
  /\ work[i] \in {"apply", "tell"} => i \in gate
  /\ work[i] = "tell" => status[i] = outcome[i]
  /\ delivered[i] <= 1 /\ (i \in tracked => delivered[i] = 0)

Tasks == \A i \in Ids : Task(i)

\* Its end has not been told, or is owed.
Owing(i) == \/ status[i] \in {"none", "running"} \/ work[i] = "tell"
            \/ call.step = "report" /\ i \in call.ids

InOrder(i) == \A j, k \in DOMAIN events[i] : j < k => Place(events[i][j]) < Place(events[i][k])

Life(i) == InOrder(i) /\ (Owing(i) => ~Told(i))
Lives   == \A i \in Ids : Life(i)

\* A container that runs and is not in the map yet.
Unborn == boxOwner # None /\ work[boxOwner] = "report"

\* The lock of the map belongs to the start that has it.
Lock ==
  /\ boxOwner # None => work[boxOwner] \in {"create", "report"} /\ started = None
  /\ \A a \in Ids \cup {Tool} : work[a] \in {"create", "report"} => boxOwner = a
  /\ work[Tool] \in Busy \cup {"none"} /\ (work[Tool] # "none" => call.op = "exec")
  /\ work[Tool] = "work" => started # None

Boxes ==
  /\ Unborn => made \in up \ loose /\ made \notin {started, doomed}
  /\ started # None => started \in up \ loose /\ started # doomed
  /\ doomed # None => call.step \in {"halt", "note"}
  /\ doomed # None /\ call.step = "halt" => doomed \in up \ loose
  /\ call.step \in {"halt", "note", "delete"} => started = None
  /\ call.step = "delete" => doomed = None
  /\ \A b \in up \ loose : b = started \/ (b = doomed /\ call.step = "halt") \/ (b = made /\ Unborn)
  /\ closed => call = NoCall /\ tracked = {} /\ started = None

BoxLife(b) ==
  /\ b > made \/ (b = made /\ Unborn) => boxEvents[b] = <<>>
  /\ \A j \in DOMAIN boxEvents[b] :
       /\ boxEvents[b][j] = "running" => j = 1
       /\ boxEvents[b][j] = "stopped" => j = Len(boxEvents[b]) /\ b \notin up /\ b # doomed

BoxLives == \A b \in 1 .. MaxBoxes : BoxLife(b)

Types == CallType /\ SubTypes /\ HistTypes /\ ServerTypes /\ EventTypes /\ BoxEventTypes /\ BoxTypes
Inv   == /\ Types /\ Shape /\ Offer /\ Launching /\ Cancelling /\ Tasks /\ Lives
         /\ Lock /\ Boxes /\ BoxLives

-----------------------------------------------------------------------------
\* Every step, one by one.
LEMMA Kinds ==
  ASSUME Next
  PROVE  \/ \E i \in Ids : \/ LogStart(i) \/ LogRunning(i) \/ Return(i) \/ LogCancel(i)
                           \/ Launch(i) \/ Cancel(i) \/ TimeOut(i) \/ Pass(i) \/ Apply(i) \/ LogEnd(i)
         \/ \E ids \in SUBSET tracked : Status(ids)
         \/ \E a \in Ids \cup {Tool} : UseBox(a) \/ CreateBox(a) \/ InsertBox(a) \/ Finish(a)
         \/ Retire \/ RetireAtClose \/ Drain \/ Halt \/ LogHalt \/ Delete
         \/ Close \/ ExecLocal \/ ToolFails \/ Drop
BY DEF Next, CallStep, TaskStep, EndStep

\* Where each call goes, field by field.
LEMMA Fields ==
  ASSUME CallType
  PROVE  /\ NoCall.op = "none" /\ NoCall.step = "none" /\ NoCall.ids = {} /\ NoCall.sync = FALSE
         /\ \A i \in Ids : LogStart(i) => /\ call'.op = call.op /\ call'.step = "running"
                                          /\ call'.ids = call.ids /\ call'.sync = call.sync
         /\ \A i \in Ids : LogRunning(i) => /\ call'.op = call.op /\ call'.step = "sync"
                                            /\ call'.ids = call.ids /\ call'.sync = call.sync
         /\ \A i \in Ids : LogCancel(i) =>
              \/ call.op = "cancel" /\ call' = NoCall
              \/ /\ call.op # "cancel" /\ call'.op = call.op /\ call'.step = call.step
                 /\ call'.ids = call.ids \ {i} /\ call'.sync = call.sync
         /\ RetireAtClose => /\ call'.op = call.op /\ call'.step = "drain"
                             /\ call'.ids = call.ids /\ call'.sync = FALSE
         /\ Drain => /\ call'.op = call.op /\ call'.step = "halt" /\ call'.ids = call.ids /\ call'.sync = call.sync
         /\ Halt => /\ call'.op = call.op /\ call'.step = (IF doomed = None THEN "delete" ELSE "note")
                    /\ call'.ids = call.ids /\ call'.sync = call.sync
         /\ LogHalt => /\ call'.op = call.op /\ call'.step = "delete"
                       /\ call'.ids = call.ids /\ call'.sync = call.sync
         /\ \A ids : Status(ids) =>
              IF tracked' = {} THEN /\ call'.op = "status" /\ call'.step = "sync"
                                    /\ call'.ids = {} /\ call'.sync = TRUE
                               ELSE call' = NoCall
         /\ ExecLocal => call'.op = "exec" /\ call'.step = "none" /\ call'.ids = {} /\ call'.sync = FALSE
         /\ \A i \in Ids : Launch(i) => /\ call'.op = "launch" /\ call'.step = "start"
                                        /\ call'.ids = {i} /\ call'.sync = (tracked = {})
         /\ \A i \in Ids : Cancel(i) => /\ call'.op = "cancel" /\ call'.step = "report"
                                        /\ call'.ids = {i} /\ call'.sync = FALSE
         /\ Close => /\ call'.op = "close" /\ call'.step = "report"
                     /\ call'.ids = Running /\ call'.sync = (tracked # {})
<1>1. NoCall.op = "none" /\ NoCall.step = "none" /\ NoCall.ids = {} /\ NoCall.sync = FALSE
  BY DEF NoCall
<1>2. ASSUME NEW i \in Ids, LogStart(i)
      PROVE  call'.op = call.op /\ call'.step = "running" /\ call'.ids = call.ids /\ call'.sync = call.sync
  BY <1>2 DEF LogStart, CallType
<1>3. ASSUME NEW i \in Ids, LogRunning(i)
      PROVE  call'.op = call.op /\ call'.step = "sync" /\ call'.ids = call.ids /\ call'.sync = call.sync
  BY <1>3 DEF LogRunning, CallType
<1>4. ASSUME NEW i \in Ids, LogCancel(i)
      PROVE  \/ call.op = "cancel" /\ call' = NoCall
             \/ /\ call.op # "cancel" /\ call'.op = call.op /\ call'.step = call.step
                /\ call'.ids = call.ids \ {i} /\ call'.sync = call.sync
  BY <1>4 DEF LogCancel, CallType
<1>5. ASSUME RetireAtClose
      PROVE  call'.op = call.op /\ call'.step = "drain" /\ call'.ids = call.ids /\ call'.sync = FALSE
  BY <1>5 DEF RetireAtClose, CallType
<1>6. ASSUME Drain
      PROVE  call'.op = call.op /\ call'.step = "halt" /\ call'.ids = call.ids /\ call'.sync = call.sync
  BY <1>6 DEF Drain, CallType
<1>7. ASSUME Halt
      PROVE  /\ call'.op = call.op /\ call'.step = (IF doomed = None THEN "delete" ELSE "note")
             /\ call'.ids = call.ids /\ call'.sync = call.sync
  BY <1>7 DEF Halt, CallType
<1>8. ASSUME LogHalt
      PROVE  call'.op = call.op /\ call'.step = "delete" /\ call'.ids = call.ids /\ call'.sync = call.sync
  BY <1>8 DEF LogHalt, CallType
<1>9. ASSUME NEW ids, Status(ids)
      PROVE  IF tracked' = {} THEN /\ call'.op = "status" /\ call'.step = "sync"
                                   /\ call'.ids = {} /\ call'.sync = TRUE
                              ELSE call' = NoCall
  BY <1>9 DEF Status, NoCall
<1>10. ASSUME ExecLocal
       PROVE  call'.op = "exec" /\ call'.step = "none" /\ call'.ids = {} /\ call'.sync = FALSE
  BY <1>10 DEF ExecLocal, NoCall
<1>11. ASSUME NEW i \in Ids, Launch(i)
       PROVE  /\ call'.op = "launch" /\ call'.step = "start"
              /\ call'.ids = {i} /\ call'.sync = (tracked = {})
  BY <1>11 DEF Launch
<1>12. ASSUME NEW i \in Ids, Cancel(i)
       PROVE  call'.op = "cancel" /\ call'.step = "report" /\ call'.ids = {i} /\ call'.sync = FALSE
  BY <1>12 DEF Cancel
<1>13. ASSUME Close
       PROVE  /\ call'.op = "close" /\ call'.step = "report"
              /\ call'.ids = Running /\ call'.sync = (tracked # {})
  BY <1>13 DEF Close
<1>. QED
  BY <1>1, <1>2, <1>3, <1>4, <1>5, <1>6, <1>7, <1>8, <1>9, <1>10, <1>11, <1>12, <1>13

\* Only some calls have a step of that name.
LEMMA Where ==
  ASSUME CallType, Shape
  PROVE  /\ call.op \in {"none", "launch", "status", "cancel", "close", "exec"}
         /\ call.step \in {"drain", "halt", "note", "delete"} => call.op = "close" /\ ~call.sync
         /\ call.step = "report" => call.op \in {"cancel", "close"}
         /\ call.step \in {"start", "running"} => call.op = "launch"
BY Fields DEF CallType, Shape

\* A subagent whose events are as they were.
LEMMA Quiet ==
  ASSUME NEW i \in Ids, events'[i] = events[i]
  PROVE  /\ \A w : Says(i, w)' <=> Says(i, w)
         /\ Told(i)' <=> Told(i)
         /\ InOrder(i)' <=> InOrder(i)
BY DEF Says, Told, InOrder

\* A subagent with one more event.
LEMMA Speaks ==
  ASSUME EventTypes, NEW i \in Ids, NEW what \in {"start", "running"} \cup Ends,
         events'[i] = Append(events[i], what)
  PROVE  /\ \A w : Says(i, w)' <=> Says(i, w) \/ w = what
         /\ Told(i)' <=> Told(i) \/ what \in Ends
         /\ InOrder(i) /\ (\A j \in DOMAIN events[i] : Place(events[i][j]) < Place(what)) => InOrder(i)'
<1>1. events[i] \in Seq({"start", "running"} \cup Ends) /\ Len(events[i]) \in Nat
  BY DEF EventTypes
<1>2. /\ DOMAIN events'[i] = 1 .. Len(events[i]) + 1 /\ DOMAIN events[i] = 1 .. Len(events[i])
      /\ events'[i][Len(events[i]) + 1] = what
      /\ \A j \in 1 .. Len(events[i]) : events'[i][j] = events[i][j]
  BY <1>1
<1>3. \A w : Says(i, w)' <=> Says(i, w) \/ w = what
  BY <1>1, <1>2 DEF Says
<1>4. Told(i)' <=> Told(i) \/ what \in Ends
  BY <1>1, <1>2 DEF Told
<1>5. ASSUME InOrder(i), \A j \in DOMAIN events[i] : Place(events[i][j]) < Place(what)
      PROVE  InOrder(i)'
  BY <1>1, <1>2, <1>5 DEF InOrder
<1>. QED
  BY <1>3, <1>4, <1>5

\* A report is an event of its subagent, or is lost.
LEMMA Reported ==
  ASSUME EventTypes, NEW i \in Ids, NEW what, Report(i, what)
  PROVE  /\ events'[i] = Append(events[i], what) \/ events'[i] = events[i]
         /\ \A k \in Ids \ {i} : events'[k] = events[k]
         /\ UNCHANGED boxEvents
BY DEF Report, LogSubagent, EventTypes

\* A call.
LEMMA CallTypeStep ==
  ASSUME Inv, [Next]_vars
  PROVE  CallType'
<1>. USE LocalAssumption DEF Inv, Types, CallType
<1>1. ASSUME NEW i \in Ids, LogStart(i)
      PROVE  CallType'
  BY <1>1 DEF LogStart, Report, Fails, LogSubagent
<1>2. ASSUME NEW i \in Ids, LogRunning(i)
      PROVE  CallType'
  BY <1>2 DEF LogRunning, Report, Fails, LogSubagent, subagents
<1>3. ASSUME NEW i \in Ids, Return(i)
      PROVE  CallType'
  BY <1>3 DEF Return, Sync, UpdateTools, Fails, NoCall
<1>4. ASSUME NEW i \in Ids, LogCancel(i)
      PROVE  CallType'
  BY <1>4 DEF LogCancel, Report, Fails, LogSubagent, NoCall, subagents
<1>5. ASSUME Retire
      PROVE  CallType'
  BY <1>5 DEF Retire, Sync, UpdateTools, Fails, NoCall, subagents
<1>6. ASSUME RetireAtClose
      PROVE  CallType'
  BY <1>6 DEF RetireAtClose, Sync, UpdateTools, Fails, subagents
<1>7. ASSUME Drain
      PROVE  CallType'
  BY <1>7 DEF Drain, subagents
<1>8. ASSUME Halt
      PROVE  CallType'
  BY <1>8 DEF Halt, StopBox, Fails, subagents
<1>9. ASSUME LogHalt
      PROVE  CallType'
  BY <1>9 DEF LogHalt, ReportBox, Fails, LogBox, subagents
<1>10. ASSUME Delete
      PROVE  CallType'
  BY <1>10 DEF Delete, Fails, NoCall, subagents
<1>11. ASSUME NEW i \in Ids, Launch(i)
      PROVE  CallType'
  BY <1>11 DEF Launch, Free, NoCall, Running
<1>12. ASSUME NEW ids \in SUBSET tracked, Status(ids)
      PROVE  CallType'
  BY <1>12 DEF Status, Free, NoCall
<1>13. ASSUME NEW i \in Ids, Cancel(i)
      PROVE  CallType'
  BY <1>13 DEF Cancel, Abort, CutBox, RunBox, LogBox, Free, NoCall, Running
<1>14. ASSUME NEW i \in Ids, TimeOut(i)
      PROVE  CallType'
  BY <1>14 DEF TimeOut, Settled, CutBox, RunBox, LogBox, NoCall
<1>15. ASSUME NEW i \in Ids, Pass(i)
      PROVE  CallType'
  BY <1>15 DEF Pass, subagents
<1>16. ASSUME NEW i \in Ids, Apply(i)
      PROVE  CallType'
  BY <1>16 DEF Apply, Running
<1>17. ASSUME NEW i \in Ids, LogEnd(i)
      PROVE  CallType'
  BY <1>17 DEF LogEnd, Report, Fails, LogSubagent, subagents
<1>18. ASSUME Close
      PROVE  CallType'
  <2>1. call' = [op |-> "close", step |-> "report", ids |-> Running, sync |-> tracked # {}]
    BY <1>18 DEF Close
  <2>. QED BY <2>1 DEF Running, SubTypes
<1>19. ASSUME ExecLocal
      PROVE  CallType'
  BY <1>19 DEF ExecLocal, Free, NoCall, subagents
<1>20. ASSUME ToolFails
      PROVE  CallType'
  <2>1. call' = NoCall
    BY <1>20 DEF ToolFails, Settled
  <2>. QED BY <2>1 DEF NoCall
<1>21. ASSUME Drop
      PROVE  CallType'
  BY <1>21 DEF Drop, Fails, CutBox, RunBox, LogBox, NoCall, subagents
<1>22. ASSUME NEW a \in Ids \cup {Tool}, UseBox(a)
      PROVE  CallType'
  BY <1>22 DEF UseBox, subagents
<1>23. ASSUME NEW a \in Ids \cup {Tool}, CreateBox(a)
      PROVE  CallType'
  <2>1. call' \in {call, NoCall}
    BY <1>23 DEF CreateBox, Settled
  <2>2. NoCall \in [op: {"none", "launch", "status", "cancel", "close", "exec"},
                    step: {"none", "start", "running", "report", "sync", "drain", "halt", "note", "delete"},
                    ids: SUBSET Ids, sync: BOOLEAN]
    BY DEF NoCall
  <2>. QED BY <2>1, <2>2
<1>24. ASSUME NEW a \in Ids \cup {Tool}, InsertBox(a)
      PROVE  CallType'
  BY <1>24 DEF InsertBox, ReportBox, Fails, LogBox, subagents
<1>25. ASSUME NEW a \in Ids \cup {Tool}, Finish(a)
      PROVE  CallType'
  <2>1. call' \in {call, NoCall}
    BY <1>25 DEF Finish, Settled
  <2>2. NoCall \in [op: {"none", "launch", "status", "cancel", "close", "exec"},
                    step: {"none", "start", "running", "report", "sync", "drain", "halt", "note", "delete"},
                    ids: SUBSET Ids, sync: BOOLEAN]
    BY DEF NoCall
  <2>. QED BY <2>1, <2>2
<1>26. CASE UNCHANGED vars
  BY <1>26 DEF vars, subagents, server, boxes, hist
<1>. QED
  BY <1>1, <1>2, <1>3, <1>4, <1>5, <1>6, <1>7, <1>8, <1>9, <1>10, <1>11, <1>12, <1>13, <1>14,
     <1>15, <1>16, <1>17, <1>18, <1>19, <1>20, <1>21, <1>22, <1>23, <1>24, <1>25, <1>26, Kinds

\* A call goes through its steps.
LEMMA ShapeStep ==
  ASSUME Inv, [Next]_vars
  PROVE  Shape'
<1>. USE LocalAssumption, Fields, Where DEF Inv, Types, Shape
<1>1. ASSUME NEW i \in Ids, LogStart(i)
      PROVE  Shape'
  BY <1>1 DEF LogStart, Report, Fails, LogSubagent
<1>2. ASSUME NEW i \in Ids, LogRunning(i)
      PROVE  Shape'
  BY <1>2 DEF LogRunning, Report, Fails, LogSubagent
<1>3. ASSUME NEW i \in Ids, Return(i)
      PROVE  Shape'
  BY <1>3 DEF Return, Sync, UpdateTools, Fails
<1>4. ASSUME NEW i \in Ids, LogCancel(i)
      PROVE  Shape'
  BY <1>4 DEF LogCancel, Report, Fails, LogSubagent
<1>5. ASSUME Retire
      PROVE  Shape'
  BY <1>5 DEF Retire, Sync, UpdateTools, Fails
<1>6. ASSUME RetireAtClose
      PROVE  Shape'
  BY <1>6 DEF RetireAtClose, Sync, UpdateTools, Fails
<1>7. ASSUME Drain
      PROVE  Shape'
  BY <1>7 DEF Drain
<1>8. ASSUME Halt
      PROVE  Shape'
  BY <1>8 DEF Halt, StopBox, Fails
<1>9. ASSUME LogHalt
      PROVE  Shape'
  BY <1>9 DEF LogHalt, ReportBox, Fails, LogBox
<1>10. ASSUME Delete
      PROVE  Shape'
  BY <1>10 DEF Delete, Fails
<1>11. ASSUME NEW i \in Ids, Launch(i)
      PROVE  Shape'
  BY <1>11 DEF Launch, Free
<1>12. ASSUME NEW ids \in SUBSET tracked, Status(ids)
      PROVE  Shape'
  BY <1>12 DEF Status, Free
<1>13. ASSUME NEW i \in Ids, Cancel(i)
      PROVE  Shape'
  BY <1>13 DEF Cancel, Abort, CutBox, RunBox, LogBox, Free
<1>14. ASSUME NEW i \in Ids, TimeOut(i)
      PROVE  Shape'
  BY <1>14 DEF TimeOut, Settled, CutBox, RunBox, LogBox
<1>15. ASSUME NEW i \in Ids, Pass(i)
      PROVE  Shape'
  BY <1>15 DEF Pass
<1>16. ASSUME NEW i \in Ids, Apply(i)
      PROVE  Shape'
  BY <1>16 DEF Apply
<1>17. ASSUME NEW i \in Ids, LogEnd(i)
      PROVE  Shape'
  BY <1>17 DEF LogEnd, Report, Fails, LogSubagent
<1>18. ASSUME Close
      PROVE  Shape'
  BY <1>18 DEF Close, Abort, CutBox, RunBox, LogBox, Free
<1>19. ASSUME ExecLocal
      PROVE  Shape'
  BY <1>19 DEF ExecLocal, Free
<1>20. ASSUME ToolFails
      PROVE  Shape'
  BY <1>20 DEF ToolFails, Fails, LogBox, Settled
<1>21. ASSUME Drop
      PROVE  Shape'
  BY <1>21 DEF Drop, Fails, CutBox, RunBox, LogBox
<1>22. ASSUME NEW a \in Ids \cup {Tool}, UseBox(a)
      PROVE  Shape'
  BY <1>22 DEF UseBox
<1>23. ASSUME NEW a \in Ids \cup {Tool}, CreateBox(a)
      PROVE  Shape'
  BY <1>23 DEF CreateBox, RunBox, Fails, Settled
<1>24. ASSUME NEW a \in Ids \cup {Tool}, InsertBox(a)
      PROVE  Shape'
  BY <1>24 DEF InsertBox, ReportBox, Fails, LogBox
<1>25. ASSUME NEW a \in Ids \cup {Tool}, Finish(a)
      PROVE  Shape'
  BY <1>25 DEF Finish, Settled
<1>26. CASE UNCHANGED vars
  BY <1>26 DEF vars, subagents, server, boxes, hist
<1>. QED
  BY <1>1, <1>2, <1>3, <1>4, <1>5, <1>6, <1>7, <1>8, <1>9, <1>10, <1>11, <1>12, <1>13, <1>14,
     <1>15, <1>16, <1>17, <1>18, <1>19, <1>20, <1>21, <1>22, <1>23, <1>24, <1>25, <1>26, Kinds

\* The offer is corrected by the call that makes it wrong, or the call is
\* dropped.
LEMMA OfferStep ==
  ASSUME Inv, [Next]_vars
  PROVE  Offer'
<1>. USE LocalAssumption, Fields, Where DEF Inv, Types, SubTypes, Shape, Offer, Lock, Launching
<1>1. ASSUME NEW i \in Ids, LogStart(i)
      PROVE  Offer'
  BY <1>1 DEF LogStart, Report, Fails, LogSubagent, hist
<1>2. ASSUME NEW i \in Ids, LogRunning(i)
      PROVE  Offer'
  BY <1>2 DEF LogRunning, Report, Fails, LogSubagent, subagents, hist
<1>3. ASSUME NEW i \in Ids, Return(i)
      PROVE  Offer'
  BY <1>3 DEF Return, Sync, UpdateTools, Fails
<1>4. ASSUME NEW i \in Ids, LogCancel(i)
      PROVE  Offer'
  BY <1>4 DEF LogCancel, Report, Fails, LogSubagent, subagents, hist
<1>5. ASSUME Retire
      PROVE  Offer'
  BY <1>5 DEF Retire, Sync, UpdateTools, Fails, subagents
<1>6. ASSUME RetireAtClose
      PROVE  Offer'
  BY <1>6 DEF RetireAtClose, Sync, UpdateTools, Fails, subagents
<1>7. ASSUME Drain
      PROVE  Offer'
  BY <1>7 DEF Drain, subagents, server, hist
<1>8. ASSUME Halt
      PROVE  Offer'
  BY <1>8 DEF Halt, StopBox, Fails, subagents, server
<1>9. ASSUME LogHalt
      PROVE  Offer'
  BY <1>9 DEF LogHalt, ReportBox, Fails, LogBox, subagents, hist
<1>10. ASSUME Delete
      PROVE  Offer'
  BY <1>10 DEF Delete, Fails, subagents, hist
<1>11. ASSUME NEW i \in Ids, Launch(i)
      PROVE  Offer'
  BY <1>11 DEF Launch, Free, server, hist
<1>12. ASSUME NEW ids \in SUBSET tracked, Status(ids)
      PROVE  Offer'
  BY <1>12 DEF Status, Free, server
<1>13. ASSUME NEW i \in Ids, Cancel(i)
      PROVE  Offer'
  BY <1>13 DEF Cancel, Abort, CutBox, RunBox, LogBox, Free
<1>14. ASSUME NEW i \in Ids, TimeOut(i)
      PROVE  Offer'
  BY <1>14 DEF TimeOut, Settled, CutBox, RunBox, LogBox
<1>15. ASSUME NEW i \in Ids, Pass(i)
      PROVE  Offer'
  BY <1>15 DEF Pass, subagents, server, hist
<1>16. ASSUME NEW i \in Ids, Apply(i)
      PROVE  Offer'
  BY <1>16 DEF Apply, server, hist
<1>17. ASSUME NEW i \in Ids, LogEnd(i)
      PROVE  Offer'
  BY <1>17 DEF LogEnd, Report, Fails, LogSubagent, subagents, hist
<1>18. ASSUME Close
      PROVE  Offer'
  BY <1>18 DEF Close, Abort, CutBox, RunBox, LogBox, Free
<1>19. ASSUME ExecLocal
      PROVE  Offer'
  BY <1>19 DEF ExecLocal, Free, subagents, server, hist
<1>20. ASSUME ToolFails
      PROVE  Offer'
  BY <1>20 DEF ToolFails, Fails, LogBox, Settled, hist
<1>21. ASSUME Drop
      PROVE  Offer'
  BY <1>21 DEF Drop, Fails, CutBox, RunBox, LogBox, subagents
<1>22. ASSUME NEW a \in Ids \cup {Tool}, UseBox(a)
      PROVE  Offer'
  BY <1>22 DEF UseBox, subagents, server, hist
<1>23. ASSUME NEW a \in Ids \cup {Tool}, CreateBox(a)
      PROVE  Offer'
  BY <1>23 DEF CreateBox, RunBox, Fails, Settled, server, hist
<1>24. ASSUME NEW a \in Ids \cup {Tool}, InsertBox(a)
      PROVE  Offer'
  BY <1>24 DEF InsertBox, ReportBox, Fails, LogBox, subagents, hist
<1>25. ASSUME NEW a \in Ids \cup {Tool}, Finish(a)
      PROVE  Offer'
  BY <1>25 DEF Finish, Settled, server, hist
<1>26. CASE UNCHANGED vars
  BY <1>26 DEF vars, subagents, server, boxes, hist
<1>. QED
  BY <1>1, <1>2, <1>3, <1>4, <1>5, <1>6, <1>7, <1>8, <1>9, <1>10, <1>11, <1>12, <1>13, <1>14,
     <1>15, <1>16, <1>17, <1>18, <1>19, <1>20, <1>21, <1>22, <1>23, <1>24, <1>25, <1>26, Kinds

\* Only the launch itself moves its subagent, which nothing can end before the
\* launch returns.
LEMMA LaunchingStep ==
  ASSUME Inv, [Next]_vars
  PROVE  Launching'
<1>. USE LocalAssumption, Fields, Where DEF Inv, Types, SubTypes, EventTypes, Shape, Launching,
         Tasks, Task
<1>1. ASSUME NEW i \in Ids, LogStart(i)
      PROVE  Launching'
  <2>1. "start" \in {"start", "running"} \cup Ends /\ Report(i, "start")
    BY <1>1 DEF LogStart, Ends
  <2>2. \A k \in Ids \ {i} : events'[k] = events[k]
    BY <2>1, Reported
  <2>3. \A k \in Ids \ {i} : \A w : Says(k, w)' <=> Says(k, w)
    BY <2>2, Quiet
  <2>4. call.op = "launch" /\ call.ids = {i} /\ events[i] = <<>>
    BY <1>1 DEF LogStart
  <2>5. ~Says(i, "running")
    BY <2>4 DEF Says
  <2>6. ~Says(i, "running")'
    <3>1. CASE events'[i] = events[i]
      BY <2>5, <3>1, Quiet
    <3>2. CASE events'[i] = Append(events[i], "start")
      BY ZenonT(60), <2>1, <2>5, <3>2, Speaks
    <3>. QED BY <2>1, <3>1, <3>2, Reported
  <2>7. FirstStep(i) # "none" /\ work'[i] = FirstStep(i) /\ UNCHANGED <<tracked, status, gate>>
    BY <1>1 DEF LogStart, FirstStep
  <2>. QED BY <1>1, <2>4, <2>6, <2>7
<1>2. ASSUME NEW i \in Ids, LogRunning(i)
      PROVE  Launching'
  BY <1>2 DEF LogRunning, Report, Fails, LogSubagent, Says, subagents, hist
<1>3. ASSUME NEW i \in Ids, Return(i)
      PROVE  Launching'
  BY <1>3 DEF Return, Sync, UpdateTools, Fails, Says
<1>4. ASSUME NEW i \in Ids, LogCancel(i)
      PROVE  Launching'
  BY <1>4 DEF LogCancel, Report, Fails, LogSubagent, Says, subagents, hist
<1>5. ASSUME Retire
      PROVE  Launching'
  BY <1>5 DEF Retire, Sync, UpdateTools, Fails, Says, subagents
<1>6. ASSUME RetireAtClose
      PROVE  Launching'
  BY <1>6 DEF RetireAtClose, Sync, UpdateTools, Fails, Says, subagents
<1>7. ASSUME Drain
      PROVE  Launching'
  BY <1>7 DEF Drain, Says, subagents, server, hist
<1>8. ASSUME Halt
      PROVE  Launching'
  BY <1>8 DEF Halt, StopBox, Fails, Says, subagents, server
<1>9. ASSUME LogHalt
      PROVE  Launching'
  BY <1>9 DEF LogHalt, ReportBox, Fails, LogBox, Says, subagents, hist
<1>10. ASSUME Delete
      PROVE  Launching'
  BY <1>10 DEF Delete, Fails, Says, subagents, hist
<1>11. ASSUME NEW i \in Ids, Launch(i)
      PROVE  Launching'
  BY <1>11 DEF Launch, Free, Says, server, hist
<1>12. ASSUME NEW ids \in SUBSET tracked, Status(ids)
      PROVE  Launching'
  BY <1>12 DEF Status, Free, Says, server
<1>13. ASSUME NEW i \in Ids, Cancel(i)
      PROVE  Launching'
  BY <1>13 DEF Cancel, Abort, CutBox, RunBox, LogBox, Free, Says
<1>14. ASSUME NEW i \in Ids, TimeOut(i)
      PROVE  Launching'
  <2>1. /\ UNCHANGED <<call, tracked, status, gate, events>> /\ work[i] \notin {"none"} /\ work'[i] # "none"
        /\ \A k \in Ids \ {i} : work'[k] = work[k]
    BY <1>14 DEF TimeOut, Settled, Busy
  <2>. QED BY <2>1 DEF Says
<1>15. ASSUME NEW i \in Ids, Pass(i)
      PROVE  Launching'
  BY <1>15 DEF Pass, Says, subagents, server, hist
<1>16. ASSUME NEW i \in Ids, Apply(i)
      PROVE  Launching'
  BY <1>16 DEF Apply, Says, server, hist
<1>17. ASSUME NEW i \in Ids, LogEnd(i)
      PROVE  Launching'
  <2>1. outcome[i] \in {"start", "running"} \cup Ends /\ Report(i, outcome[i])
    BY <1>17 DEF LogEnd, Ends
  <2>2. \A k \in Ids \ {i} : events'[k] = events[k]
    BY <2>1, Reported
  <2>3. \A k \in Ids \ {i} : \A w : Says(k, w)' <=> Says(k, w)
    BY <2>2, Quiet
  <2>4. i \in gate /\ UNCHANGED <<call, tracked, status, gate>> /\ work'[i] # "none"
    BY <1>17 DEF LogEnd, subagents
  <2>5. \A k \in Ids \ {i} : work'[k] = work[k]
    BY <1>17 DEF LogEnd
  <2>. QED BY <2>2, <2>3, <2>4, <2>5
<1>18. ASSUME Close
      PROVE  Launching'
  BY <1>18 DEF Close, Abort, CutBox, RunBox, LogBox, Free, Says
<1>19. ASSUME ExecLocal
      PROVE  Launching'
  BY <1>19 DEF ExecLocal, Free, Says, subagents, server, hist
<1>20. ASSUME ToolFails
      PROVE  Launching'
  BY <1>20 DEF ToolFails, Fails, LogBox, Settled, Says, hist
<1>21. ASSUME Drop
      PROVE  Launching'
  BY <1>21 DEF Drop, Fails, CutBox, RunBox, LogBox, Says, subagents
<1>22. ASSUME NEW a \in Ids \cup {Tool}, UseBox(a)
      PROVE  Launching'
  BY <1>22 DEF UseBox, Says, subagents, server, hist
<1>23. ASSUME NEW a \in Ids \cup {Tool}, CreateBox(a)
      PROVE  Launching'
  BY <1>23 DEF CreateBox, RunBox, Fails, Settled, Says, server, hist
<1>24. ASSUME NEW a \in Ids \cup {Tool}, InsertBox(a)
      PROVE  Launching'
  BY <1>24 DEF InsertBox, ReportBox, Fails, LogBox, Says, subagents, hist
<1>25. ASSUME NEW a \in Ids \cup {Tool}, Finish(a)
      PROVE  Launching'
  BY <1>25 DEF Finish, Settled, Says, server, hist
<1>26. CASE UNCHANGED vars
  BY <1>26 DEF Says, vars, subagents, server, boxes, hist
<1>. QED
  BY <1>1, <1>2, <1>3, <1>4, <1>5, <1>6, <1>7, <1>8, <1>9, <1>10, <1>11, <1>12, <1>13, <1>14,
     <1>15, <1>16, <1>17, <1>18, <1>19, <1>20, <1>21, <1>22, <1>23, <1>24, <1>25, <1>26, Kinds

\* What a call reports cancelled it has marked.
LEMMA CancellingStep ==
  ASSUME Inv, [Next]_vars
  PROVE  Cancelling'
<1>. USE LocalAssumption, Fields, Where DEF Inv, Types, SubTypes, Shape, Launching, Cancelling
<1>1. ASSUME NEW i \in Ids, LogStart(i)
      PROVE  Cancelling'
  BY <1>1 DEF LogStart, Report, Fails, LogSubagent, hist, Running
<1>2. ASSUME NEW i \in Ids, LogRunning(i)
      PROVE  Cancelling'
  BY <1>2 DEF LogRunning, Report, Fails, LogSubagent, subagents, hist, Running
<1>3. ASSUME NEW i \in Ids, Return(i)
      PROVE  Cancelling'
  BY <1>3 DEF Return, Sync, UpdateTools, Fails, Running
<1>4. ASSUME NEW i \in Ids, LogCancel(i)
      PROVE  Cancelling'
  BY <1>4 DEF LogCancel, Report, Fails, LogSubagent, subagents, hist, Running
<1>5. ASSUME Retire
      PROVE  Cancelling'
  BY <1>5 DEF Retire, Sync, UpdateTools, Fails, subagents, Running
<1>6. ASSUME RetireAtClose
      PROVE  Cancelling'
  BY <1>6 DEF RetireAtClose, Sync, UpdateTools, Fails, subagents, Running
<1>7. ASSUME Drain
      PROVE  Cancelling'
  BY <1>7 DEF Drain, subagents, server, hist, Running
<1>8. ASSUME Halt
      PROVE  Cancelling'
  BY <1>8 DEF Halt, StopBox, Fails, subagents, server, Running
<1>9. ASSUME LogHalt
      PROVE  Cancelling'
  BY <1>9 DEF LogHalt, ReportBox, Fails, LogBox, subagents, hist, Running
<1>10. ASSUME Delete
      PROVE  Cancelling'
  BY <1>10 DEF Delete, Fails, subagents, hist, Running
<1>11. ASSUME NEW i \in Ids, Launch(i)
      PROVE  Cancelling'
  BY <1>11 DEF Launch, Free, server, hist, Running
<1>12. ASSUME NEW ids \in SUBSET tracked, Status(ids)
      PROVE  Cancelling'
  BY <1>12 DEF Status, Free, server, Running
<1>13. ASSUME NEW i \in Ids, Cancel(i)
      PROVE  Cancelling'
  BY <1>13 DEF Cancel, Abort, CutBox, RunBox, LogBox, Free, Running
<1>14. ASSUME NEW i \in Ids, TimeOut(i)
      PROVE  Cancelling'
  BY <1>14 DEF TimeOut, Settled, CutBox, RunBox, LogBox, Running
<1>15. ASSUME NEW i \in Ids, Pass(i)
      PROVE  Cancelling'
  BY <1>15 DEF Pass, subagents, server, hist, Running
<1>16. ASSUME NEW i \in Ids, Apply(i)
      PROVE  Cancelling'
  <2>1. UNCHANGED call /\ \A k \in Ids : status[k] = "cancelled" => status'[k] = "cancelled"
    BY <1>16 DEF Apply, Running
  <2>. QED BY <2>1 DEF CallType
<1>17. ASSUME NEW i \in Ids, LogEnd(i)
      PROVE  Cancelling'
  BY <1>17 DEF LogEnd, Report, Fails, LogSubagent, subagents, hist, Running
<1>18. ASSUME Close
      PROVE  Cancelling'
  BY <1>18 DEF Close, Abort, CutBox, RunBox, LogBox, Free, Running
<1>19. ASSUME ExecLocal
      PROVE  Cancelling'
  BY <1>19 DEF ExecLocal, Free, subagents, server, hist, Running
<1>20. ASSUME ToolFails
      PROVE  Cancelling'
  BY <1>20 DEF ToolFails, Fails, LogBox, Settled, hist, Running
<1>21. ASSUME Drop
      PROVE  Cancelling'
  BY <1>21 DEF Drop, Fails, CutBox, RunBox, LogBox, subagents, Running
<1>22. ASSUME NEW a \in Ids \cup {Tool}, UseBox(a)
      PROVE  Cancelling'
  BY <1>22 DEF UseBox, subagents, server, hist, Running
<1>23. ASSUME NEW a \in Ids \cup {Tool}, CreateBox(a)
      PROVE  Cancelling'
  BY <1>23 DEF CreateBox, RunBox, Fails, Settled, server, hist, Running
<1>24. ASSUME NEW a \in Ids \cup {Tool}, InsertBox(a)
      PROVE  Cancelling'
  BY <1>24 DEF InsertBox, ReportBox, Fails, LogBox, subagents, hist, Running
<1>25. ASSUME NEW a \in Ids \cup {Tool}, Finish(a)
      PROVE  Cancelling'
  BY <1>25 DEF Finish, Settled, server, hist, Running
<1>26. CASE UNCHANGED vars
  BY <1>26 DEF vars, subagents, server, boxes, hist
<1>. QED
  BY <1>1, <1>2, <1>3, <1>4, <1>5, <1>6, <1>7, <1>8, <1>9, <1>10, <1>11, <1>12, <1>13, <1>14,
     <1>15, <1>16, <1>17, <1>18, <1>19, <1>20, <1>21, <1>22, <1>23, <1>24, <1>25, <1>26, Kinds

\* A task follows its subagent: a running one is tracked, and its process can
\* be aborted.
LEMMA TasksStep ==
  ASSUME Inv, [Next]_vars
  PROVE  Tasks'
<1>. USE LocalAssumption, Fields, Where DEF Inv, Types, SubTypes, HistTypes, EventTypes, Shape,
         Launching, Lock, Tasks, Task
<1>1. ASSUME NEW i \in Ids, LogStart(i)
      PROVE  Tasks'
  <2>1. i \in tracked /\ status[i] = "running" /\ work[i] = "none" /\ outcome' = outcome
    BY <1>1 DEF LogStart
  <2>2. /\ work' = [work EXCEPT ![i] = FirstStep(i)] /\ handle' = handle \cup {i}
        /\ UNCHANGED <<tracked, status, gate, delivered>>
    BY <1>1 DEF LogStart, hist
  <2>3. FirstStep(i) \in {"box", "work"} /\ (FirstStep(i) = "box" => i \in Boxed)
    BY DEF FirstStep
  <2>4. \A k \in Ids \ {i} : events'[k] = events[k]
    BY <1>1, Reported DEF LogStart
  <2>. QED BY <2>1, <2>2, <2>3, <2>4 DEF Busy
<1>2. ASSUME NEW i \in Ids, LogRunning(i)
      PROVE  Tasks'
  BY <1>2 DEF LogRunning, Report, Fails, LogSubagent, subagents, hist, Running, Busy
<1>3. ASSUME NEW i \in Ids, Return(i)
      PROVE  Tasks'
  BY <1>3 DEF Return, Sync, UpdateTools, Fails, Running, Busy
<1>4. ASSUME NEW i \in Ids, LogCancel(i)
      PROVE  Tasks'
  <2>1. status[i] = "cancelled" /\ UNCHANGED <<tracked, status, handle, gate, outcome, work, delivered>>
    BY <1>4, Where DEF LogCancel, subagents, hist, Cancelling
  <2>2. \A k \in Ids \ {i} : events'[k] = events[k]
    BY <1>4, Reported DEF LogCancel
  <2>. QED BY <2>1, <2>2 DEF Busy
<1>5. ASSUME Retire
      PROVE  Tasks'
  BY <1>5 DEF Retire, Sync, UpdateTools, Fails, subagents, Running, Busy
<1>6. ASSUME RetireAtClose
      PROVE  Tasks'
  BY <1>6 DEF RetireAtClose, Sync, UpdateTools, Fails, subagents, Running, Busy
<1>7. ASSUME Drain
      PROVE  Tasks'
  BY <1>7 DEF Drain, subagents, server, hist, Running, Busy
<1>8. ASSUME Halt
      PROVE  Tasks'
  BY <1>8 DEF Halt, StopBox, Fails, subagents, server, Running, Busy
<1>9. ASSUME LogHalt
      PROVE  Tasks'
  BY <1>9 DEF LogHalt, ReportBox, Fails, LogBox, subagents, hist, Running, Busy
<1>10. ASSUME Delete
      PROVE  Tasks'
  BY <1>10 DEF Delete, Fails, subagents, hist, Running, Busy
<1>11. ASSUME NEW i \in Ids, Launch(i)
      PROVE  Tasks'
  BY <1>11 DEF Launch, Free, server, hist, Running, Busy
<1>12. ASSUME NEW ids \in SUBSET tracked, Status(ids)
      PROVE  Tasks'
  BY <1>12 DEF Status, Free, server, Running, Busy
<1>13. ASSUME NEW i \in Ids, Cancel(i)
      PROVE  Tasks'
  BY <1>13 DEF Cancel, Abort, CutBox, RunBox, LogBox, Free, Running, Busy
<1>14. ASSUME NEW i \in Ids, TimeOut(i)
      PROVE  Tasks'
  <2>1. /\ work[i] \in Busy /\ work' = [work EXCEPT ![i] = "settled"]
        /\ outcome' = [outcome EXCEPT ![i] = "timed_out"]
        /\ UNCHANGED <<tracked, status, handle, gate, events, delivered>>
    BY <1>14 DEF TimeOut, Settled
  <2>2. "timed_out" # None
    BY LocalAssumption
  <2>. QED BY <2>1, <2>2 DEF Busy
<1>15. ASSUME NEW i \in Ids, Pass(i)
      PROVE  Tasks'
  BY SMTT(30), <1>15 DEF Pass, subagents, server, hist, Running, Busy
<1>16. ASSUME NEW i \in Ids, Apply(i)
      PROVE  Tasks'
  BY <1>16 DEF Apply, server, hist, Running, Busy
<1>17. ASSUME NEW i \in Ids, LogEnd(i)
      PROVE  Tasks'
  BY <1>17 DEF LogEnd, Report, Fails, LogSubagent, subagents, hist, Running, Busy
<1>18. ASSUME Close
      PROVE  Tasks'
  BY SMTT(30), <1>18 DEF Close, Abort, CutBox, RunBox, LogBox, Free, Running, Busy
<1>19. ASSUME ExecLocal
      PROVE  Tasks'
  BY <1>19 DEF ExecLocal, Free, subagents, server, hist, Running, Busy
<1>20. ASSUME ToolFails
      PROVE  Tasks'
  BY <1>20 DEF ToolFails, Fails, LogBox, Settled, hist, Running, Busy
<1>21. ASSUME Drop
      PROVE  Tasks'
  BY SMTT(30), <1>21 DEF Drop, Fails, CutBox, RunBox, LogBox, subagents, Running, Busy
<1>22. ASSUME NEW a \in Ids \cup {Tool}, UseBox(a)
      PROVE  Tasks'
  BY SMTT(30), <1>22 DEF UseBox, subagents, server, hist, Running, Busy
<1>23. ASSUME NEW a \in Ids \cup {Tool}, CreateBox(a)
      PROVE  Tasks'
  <2>1. UNCHANGED <<tracked, status, handle, gate, events, delivered>> /\ work[a] = "create"
    BY <1>23 DEF CreateBox, server, hist
  <2>2. CASE work' = [work EXCEPT ![a] = "report"] /\ UNCHANGED outcome
    BY <2>1, <2>2 DEF Busy
  <2>3. CASE Settled(a, "over")
    BY SMTT(30), <2>1, <2>3, LocalAssumption DEF Busy, Settled
  <2>. QED BY <1>23, <2>2, <2>3 DEF CreateBox
<1>24. ASSUME NEW a \in Ids \cup {Tool}, InsertBox(a)
      PROVE  Tasks'
  BY <1>24 DEF InsertBox, ReportBox, Fails, LogBox, subagents, hist, Running, Busy
<1>25. ASSUME NEW a \in Ids \cup {Tool}, Finish(a)
      PROVE  Tasks'
  <2>1. UNCHANGED <<tracked, status, handle, gate, events, delivered>> /\ work[a] = "work"
    BY <1>25 DEF Finish, server, hist
  <2>2. CASE a = Tool
    <3>1. UNCHANGED outcome /\ \A i \in Ids : work'[i] = work[i]
      BY <1>25, <2>2 DEF Finish, Settled
    <3>. QED BY <2>1, <3>1
  <2>3. CASE a \in Ids
    <3>1. work' = [work EXCEPT ![a] = "settled"] /\ outcome' = [outcome EXCEPT ![a] = "over"]
      BY <1>25, <2>3 DEF Finish, Settled
    <3>2. /\ work'[a] = "settled" /\ outcome'[a] = "over"
          /\ \A i \in Ids \ {a} : work'[i] = work[i] /\ outcome'[i] = outcome[i]
      BY <2>3, <3>1
    <3>3. \A i \in Ids \ {a} : Task(i)'
      BY <2>1, <3>2
    <3>4. Task(a)'
      BY <2>1, <2>3, <3>2 DEF Busy
    <3>. QED BY SMTT(30), <3>3, <3>4
  <2>. QED BY <2>2, <2>3
<1>26. CASE UNCHANGED vars
  BY <1>26 DEF vars, subagents, server, boxes, hist
<1>. QED
  BY SMTT(30), <1>1, <1>2, <1>3, <1>4, <1>5, <1>6, <1>7, <1>8, <1>9, <1>10, <1>11, <1>12, <1>13, <1>14,
     <1>15, <1>16, <1>17, <1>18, <1>19, <1>20, <1>21, <1>22, <1>23, <1>24, <1>25, <1>26, Kinds

\* The subagents.
LEMMA SubTypesStep ==
  ASSUME Inv, [Next]_vars
  PROVE  SubTypes'
<1>. USE LocalAssumption, Fields, Where DEF Inv, Types, SubTypes, Shape, Launching, Lock, Tasks,
         Task
<1>1. ASSUME NEW i \in Ids, LogStart(i)
      PROVE  SubTypes'
  <2>1. /\ status[i] = "running" /\ FirstStep(i) \in {"box", "work"}
        /\ work' = [work EXCEPT ![i] = FirstStep(i)]
        /\ handle' = handle \cup {i} /\ UNCHANGED <<tracked, status, gate, outcome>>
    BY <1>1 DEF LogStart, FirstStep
  <2>. QED BY <2>1 DEF Busy
<1>2. ASSUME NEW i \in Ids, LogRunning(i)
      PROVE  SubTypes'
  BY <1>2 DEF LogRunning, Report, Fails, LogSubagent, subagents, hist, Running, Busy, Ends
<1>3. ASSUME NEW i \in Ids, Return(i)
      PROVE  SubTypes'
  BY <1>3 DEF Return, Sync, UpdateTools, Fails, Running, Busy, Ends
<1>4. ASSUME NEW i \in Ids, LogCancel(i)
      PROVE  SubTypes'
  BY <1>4 DEF LogCancel, Report, Fails, LogSubagent, subagents, hist, Running, Busy, Ends
<1>5. ASSUME Retire
      PROVE  SubTypes'
  BY <1>5 DEF Retire, Sync, UpdateTools, Fails, subagents, Running, Busy, Ends
<1>6. ASSUME RetireAtClose
      PROVE  SubTypes'
  BY <1>6 DEF RetireAtClose, Sync, UpdateTools, Fails, subagents, Running, Busy, Ends
<1>7. ASSUME Drain
      PROVE  SubTypes'
  BY <1>7 DEF Drain, subagents, server, hist, Running, Busy, Ends
<1>8. ASSUME Halt
      PROVE  SubTypes'
  BY <1>8 DEF Halt, StopBox, Fails, subagents, server, Running, Busy, Ends
<1>9. ASSUME LogHalt
      PROVE  SubTypes'
  BY <1>9 DEF LogHalt, ReportBox, Fails, LogBox, subagents, hist, Running, Busy, Ends
<1>10. ASSUME Delete
      PROVE  SubTypes'
  BY <1>10 DEF Delete, Fails, subagents, hist, Running, Busy, Ends
<1>11. ASSUME NEW i \in Ids, Launch(i)
      PROVE  SubTypes'
  BY <1>11 DEF Launch, Free, server, hist, Running, Busy, Ends
<1>12. ASSUME NEW ids \in SUBSET tracked, Status(ids)
      PROVE  SubTypes'
  BY <1>12 DEF Status, Free, server, Running, Busy, Ends
<1>13. ASSUME NEW i \in Ids, Cancel(i)
      PROVE  SubTypes'
  BY <1>13 DEF Cancel, Abort, CutBox, RunBox, LogBox, Free, Running, Busy, Ends
<1>14. ASSUME NEW i \in Ids, TimeOut(i)
      PROVE  SubTypes'
  BY <1>14 DEF TimeOut, Settled, CutBox, RunBox, LogBox, Running, Busy, Ends
<1>15. ASSUME NEW i \in Ids, Pass(i)
      PROVE  SubTypes'
  BY <1>15 DEF Pass, subagents, server, hist, Running, Busy, Ends
<1>16. ASSUME NEW i \in Ids, Apply(i)
      PROVE  SubTypes'
  BY <1>16 DEF Apply, server, hist, Running, Busy, Ends
<1>17. ASSUME NEW i \in Ids, LogEnd(i)
      PROVE  SubTypes'
  BY <1>17 DEF LogEnd, Report, Fails, LogSubagent, subagents, hist, Running, Busy, Ends
<1>18. ASSUME Close
      PROVE  SubTypes'
  BY <1>18 DEF Close, Abort, CutBox, RunBox, LogBox, Free, Running, Busy, Ends
<1>19. ASSUME ExecLocal
      PROVE  SubTypes'
  BY <1>19 DEF ExecLocal, Free, subagents, server, hist, Running, Busy, Ends
<1>20. ASSUME ToolFails
      PROVE  SubTypes'
  BY <1>20 DEF ToolFails, Fails, LogBox, Settled, hist, Running, Busy, Ends
<1>21. ASSUME Drop
      PROVE  SubTypes'
  BY <1>21 DEF Drop, Fails, CutBox, RunBox, LogBox, subagents, Running, Busy, Ends
<1>22. ASSUME NEW a \in Ids \cup {Tool}, UseBox(a)
      PROVE  SubTypes'
  BY <1>22 DEF UseBox, subagents, server, hist, Running, Busy, Ends
<1>23. ASSUME NEW a \in Ids \cup {Tool}, CreateBox(a)
      PROVE  SubTypes'
  BY <1>23 DEF CreateBox, RunBox, Fails, Settled, server, hist, Running, Busy, Ends
<1>24. ASSUME NEW a \in Ids \cup {Tool}, InsertBox(a)
      PROVE  SubTypes'
  BY <1>24 DEF InsertBox, ReportBox, Fails, LogBox, subagents, hist, Running, Busy, Ends
<1>25. ASSUME NEW a \in Ids \cup {Tool}, Finish(a)
      PROVE  SubTypes'
  BY <1>25 DEF Finish, Settled, server, hist, Running, Busy, Ends
<1>26. CASE UNCHANGED vars
  BY <1>26 DEF vars, subagents, server, boxes, hist
<1>. QED
  BY <1>1, <1>2, <1>3, <1>4, <1>5, <1>6, <1>7, <1>8, <1>9, <1>10, <1>11, <1>12, <1>13, <1>14,
     <1>15, <1>16, <1>17, <1>18, <1>19, <1>20, <1>21, <1>22, <1>23, <1>24, <1>25, <1>26, Kinds

\* The histories.
LEMMA HistTypesStep ==
  ASSUME Inv, [Next]_vars
  PROVE  HistTypes'
<1>. USE LocalAssumption, Fields, Where DEF Inv, Types, SubTypes, Shape, HistTypes
<1>1. ASSUME NEW i \in Ids, LogStart(i)
      PROVE  HistTypes'
  BY <1>1 DEF LogStart, Report, Fails, LogSubagent, hist
<1>2. ASSUME NEW i \in Ids, LogRunning(i)
      PROVE  HistTypes'
  BY <1>2 DEF LogRunning, Report, Fails, LogSubagent, hist, subagents
<1>3. ASSUME NEW i \in Ids, Return(i)
      PROVE  HistTypes'
  BY <1>3 DEF Return, Sync, UpdateTools, Fails
<1>4. ASSUME NEW i \in Ids, LogCancel(i)
      PROVE  HistTypes'
  BY <1>4 DEF LogCancel, Report, Fails, LogSubagent, hist, subagents
<1>5. ASSUME Retire
      PROVE  HistTypes'
  BY <1>5 DEF Retire, Sync, UpdateTools, Fails, subagents
<1>6. ASSUME RetireAtClose
      PROVE  HistTypes'
  BY <1>6 DEF RetireAtClose, Sync, UpdateTools, Fails, subagents
<1>7. ASSUME Drain
      PROVE  HistTypes'
  BY <1>7 DEF Drain, hist, server, subagents
<1>8. ASSUME Halt
      PROVE  HistTypes'
  BY <1>8 DEF Halt, StopBox, Fails, server, subagents
<1>9. ASSUME LogHalt
      PROVE  HistTypes'
  BY <1>9 DEF LogHalt, ReportBox, Fails, LogBox, hist, subagents
<1>10. ASSUME Delete
      PROVE  HistTypes'
  BY <1>10 DEF Delete, Fails, hist, subagents
<1>11. ASSUME NEW i \in Ids, Launch(i)
      PROVE  HistTypes'
  BY <1>11 DEF Launch, Free, hist, server
<1>12. ASSUME NEW ids \in SUBSET tracked, Status(ids)
      PROVE  HistTypes'
  BY <1>12 DEF Status, Free, server
<1>13. ASSUME NEW i \in Ids, Cancel(i)
      PROVE  HistTypes'
  BY <1>13 DEF Cancel, Abort, CutBox, RunBox, LogBox, Free
<1>14. ASSUME NEW i \in Ids, TimeOut(i)
      PROVE  HistTypes'
  BY <1>14 DEF TimeOut, Settled, CutBox, RunBox, LogBox
<1>15. ASSUME NEW i \in Ids, Pass(i)
      PROVE  HistTypes'
  BY <1>15 DEF Pass, hist, server, subagents
<1>16. ASSUME NEW i \in Ids, Apply(i)
      PROVE  HistTypes'
  BY <1>16 DEF Apply, hist, server
<1>17. ASSUME NEW i \in Ids, LogEnd(i)
      PROVE  HistTypes'
  BY <1>17 DEF LogEnd, Report, Fails, LogSubagent, hist, subagents
<1>18. ASSUME Close
      PROVE  HistTypes'
  BY <1>18 DEF Close, Abort, CutBox, RunBox, LogBox, Free
<1>19. ASSUME ExecLocal
      PROVE  HistTypes'
  BY <1>19 DEF ExecLocal, Free, hist, server, subagents
<1>20. ASSUME ToolFails
      PROVE  HistTypes'
  BY <1>20 DEF ToolFails, Fails, LogBox, Settled, hist
<1>21. ASSUME Drop
      PROVE  HistTypes'
  BY <1>21 DEF Drop, Fails, CutBox, RunBox, LogBox, subagents
<1>22. ASSUME NEW a \in Ids \cup {Tool}, UseBox(a)
      PROVE  HistTypes'
  BY <1>22 DEF UseBox, hist, server, subagents
<1>23. ASSUME NEW a \in Ids \cup {Tool}, CreateBox(a)
      PROVE  HistTypes'
  BY <1>23 DEF CreateBox, RunBox, Fails, Settled, hist, server
<1>24. ASSUME NEW a \in Ids \cup {Tool}, InsertBox(a)
      PROVE  HistTypes'
  BY <1>24 DEF InsertBox, ReportBox, Fails, LogBox, hist, subagents
<1>25. ASSUME NEW a \in Ids \cup {Tool}, Finish(a)
      PROVE  HistTypes'
  BY <1>25 DEF Finish, Settled, hist, server
<1>26. CASE UNCHANGED vars
  BY <1>26 DEF vars, subagents, server, boxes, hist
<1>. QED
  BY <1>1, <1>2, <1>3, <1>4, <1>5, <1>6, <1>7, <1>8, <1>9, <1>10, <1>11, <1>12, <1>13, <1>14,
     <1>15, <1>16, <1>17, <1>18, <1>19, <1>20, <1>21, <1>22, <1>23, <1>24, <1>25, <1>26, Kinds

\* The server.
LEMMA ServerTypesStep ==
  ASSUME Inv, [Next]_vars
  PROVE  ServerTypes'
<1>. USE LocalAssumption, Fields, Where DEF Inv, Types, ServerTypes
<1>1. ASSUME NEW i \in Ids, LogStart(i)
      PROVE  ServerTypes'
  BY <1>1 DEF LogStart, Report, Fails, LogSubagent, hist
<1>2. ASSUME NEW i \in Ids, LogRunning(i)
      PROVE  ServerTypes'
  BY <1>2 DEF LogRunning, Report, Fails, LogSubagent, hist, subagents
<1>3. ASSUME NEW i \in Ids, Return(i)
      PROVE  ServerTypes'
  <2>1. faults' \in 0 .. MaxFaults
    <3>1. Sync(TRUE) \/ UNCHANGED faults
      BY <1>3 DEF Return
    <3>2. UNCHANGED faults \/ Fails
      BY <3>1 DEF Sync
    <3>. QED BY <3>2 DEF Fails
  <2>2. advertised' \in {advertised, TRUE, FALSE} /\ closed' \in {closed, TRUE}
    BY <1>3 DEF Return, Sync, UpdateTools
  <2>. QED BY <2>1, <2>2
<1>4. ASSUME NEW i \in Ids, LogCancel(i)
      PROVE  ServerTypes'
  BY <1>4 DEF LogCancel, Report, Fails, LogSubagent, hist, subagents
<1>5. ASSUME Retire
      PROVE  ServerTypes'
  <2>1. faults' \in 0 .. MaxFaults
    <3>1. Sync(FALSE)
      BY <1>5 DEF Retire
    <3>2. UNCHANGED faults \/ Fails
      BY <3>1 DEF Sync
    <3>. QED BY <3>2 DEF Fails
  <2>2. advertised' \in {advertised, TRUE, FALSE} /\ closed' \in {closed, TRUE}
    BY <1>5 DEF Retire, Sync, UpdateTools
  <2>. QED BY <2>1, <2>2
<1>6. ASSUME RetireAtClose
      PROVE  ServerTypes'
  <2>1. faults' \in 0 .. MaxFaults
    <3>1. Sync(FALSE) \/ UNCHANGED faults
      BY <1>6 DEF RetireAtClose
    <3>2. UNCHANGED faults \/ Fails
      BY <3>1 DEF Sync
    <3>. QED BY <3>2 DEF Fails
  <2>2. advertised' \in {advertised, TRUE, FALSE} /\ closed' \in {closed, TRUE}
    BY <1>6 DEF RetireAtClose, Sync, UpdateTools
  <2>. QED BY <2>1, <2>2
<1>7. ASSUME Drain
      PROVE  ServerTypes'
  BY <1>7 DEF Drain, hist, server, subagents
<1>8. ASSUME Halt
      PROVE  ServerTypes'
  BY <1>8 DEF Halt, StopBox, Fails, server, subagents
<1>9. ASSUME LogHalt
      PROVE  ServerTypes'
  BY <1>9 DEF LogHalt, ReportBox, Fails, LogBox, hist, subagents
<1>10. ASSUME Delete
      PROVE  ServerTypes'
  <2>1. faults' \in 0 .. MaxFaults
    BY <1>10 DEF Delete, Fails
  <2>2. advertised' \in {advertised, TRUE, FALSE} /\ closed' \in {closed, TRUE}
    BY <1>10 DEF Delete, Sync, UpdateTools
  <2>. QED BY <2>1, <2>2
<1>11. ASSUME NEW i \in Ids, Launch(i)
      PROVE  ServerTypes'
  BY <1>11 DEF Launch, Free, hist, server
<1>12. ASSUME NEW ids \in SUBSET tracked, Status(ids)
      PROVE  ServerTypes'
  BY <1>12 DEF Status, Free, server
<1>13. ASSUME NEW i \in Ids, Cancel(i)
      PROVE  ServerTypes'
  BY <1>13 DEF Cancel, Abort, CutBox, RunBox, LogBox, Free
<1>14. ASSUME NEW i \in Ids, TimeOut(i)
      PROVE  ServerTypes'
  BY <1>14 DEF TimeOut, Settled, CutBox, RunBox, LogBox
<1>15. ASSUME NEW i \in Ids, Pass(i)
      PROVE  ServerTypes'
  BY <1>15 DEF Pass, hist, server, subagents
<1>16. ASSUME NEW i \in Ids, Apply(i)
      PROVE  ServerTypes'
  BY <1>16 DEF Apply, hist, server
<1>17. ASSUME NEW i \in Ids, LogEnd(i)
      PROVE  ServerTypes'
  BY <1>17 DEF LogEnd, Report, Fails, LogSubagent, hist, subagents
<1>18. ASSUME Close
      PROVE  ServerTypes'
  BY <1>18 DEF Close, Abort, CutBox, RunBox, LogBox, Free
<1>19. ASSUME ExecLocal
      PROVE  ServerTypes'
  BY <1>19 DEF ExecLocal, Free, hist, server, subagents
<1>20. ASSUME ToolFails
      PROVE  ServerTypes'
  BY <1>20 DEF ToolFails, Fails, LogBox, Settled, hist
<1>21. ASSUME Drop
      PROVE  ServerTypes'
  BY <1>21 DEF Drop, Fails, CutBox, RunBox, LogBox, subagents
<1>22. ASSUME NEW a \in Ids \cup {Tool}, UseBox(a)
      PROVE  ServerTypes'
  BY <1>22 DEF UseBox, hist, server, subagents
<1>23. ASSUME NEW a \in Ids \cup {Tool}, CreateBox(a)
      PROVE  ServerTypes'
  BY <1>23 DEF CreateBox, RunBox, Fails, Settled, hist, server
<1>24. ASSUME NEW a \in Ids \cup {Tool}, InsertBox(a)
      PROVE  ServerTypes'
  BY <1>24 DEF InsertBox, ReportBox, Fails, LogBox, hist, subagents
<1>25. ASSUME NEW a \in Ids \cup {Tool}, Finish(a)
      PROVE  ServerTypes'
  BY <1>25 DEF Finish, Settled, hist, server
<1>26. CASE UNCHANGED vars
  BY <1>26 DEF vars, subagents, server, boxes, hist
<1>. QED
  BY <1>1, <1>2, <1>3, <1>4, <1>5, <1>6, <1>7, <1>8, <1>9, <1>10, <1>11, <1>12, <1>13, <1>14,
     <1>15, <1>16, <1>17, <1>18, <1>19, <1>20, <1>21, <1>22, <1>23, <1>24, <1>25, <1>26, Kinds

\* A report leaves the log one of reports.
LEMMA ReportTyped ==
  ASSUME EventTypes, NEW i \in Ids, NEW what \in {"start", "running"} \cup Ends, Report(i, what)
  PROVE  EventTypes'
<1>1. CASE UNCHANGED events
  BY <1>1 DEF EventTypes
<1>2. CASE events' = [events EXCEPT ![i] = Append(@, what)]
  <2>1. Append(events[i], what) \in Seq({"start", "running"} \cup Ends)
    BY DEF EventTypes
  <2>. QED BY <1>2, <2>1 DEF EventTypes
<1>. QED BY <1>1, <1>2 DEF Report, LogSubagent

\* So with a container's.
LEMMA BoxTyped ==
  ASSUME BoxEventTypes, NEW b, NEW what \in {"running", "stopped", "error"},
         boxEvents' = [boxEvents EXCEPT ![b] = Append(@, what)]
  PROVE  BoxEventTypes'
<1>1. CASE b \in 1 .. MaxBoxes
  <2>1. Append(boxEvents[b], what) \in Seq({"running", "stopped", "error"})
    BY <1>1 DEF BoxEventTypes
  <2>. QED BY <1>1, <2>1 DEF BoxEventTypes
<1>2. CASE b \notin 1 .. MaxBoxes
  BY <1>2 DEF BoxEventTypes
<1>. QED BY <1>1, <1>2

\* The tasks an abort ends: the rest have passed their last wait.
Hit(ids) == {k \in ids \cap handle : work[k] # "apply"}

\* A start that is cut off changes this much of what runs and is reported.
LEMMA Cut ==
  ASSUME BoxTypes, Boxes, NEW gone \in SUBSET (Ids \cup {Tool}), CutBox(gone)
  PROVE  /\ made' \in made .. MaxBoxes /\ boxOwner' \in {boxOwner, None}
         /\ up' \subseteq 1 .. made' /\ loose' \subseteq up'
         /\ boxOwner \in gone => boxOwner' = None
         /\ boxOwner \notin gone => UNCHANGED <<boxOwner, up, made, loose, boxEvents>>
         /\ \A b \in up \ loose : b \in up' \ loose' \/ (b = made /\ Unborn /\ boxOwner \in gone)
         /\ \A b \in up' \ loose' : b \in up \ loose
         /\ boxOwner \in gone /\ Unborn => \A b \in up' \ loose' : b # made
         /\ \/ UNCHANGED boxEvents
            \/ /\ Unborn /\ boxOwner' = None /\ made' = made /\ up' = up
               /\ boxEvents' = [boxEvents EXCEPT ![made] = Append(boxEvents[made], "running")]
<1>. USE LocalAssumption DEF BoxTypes
<1>1. CASE boxOwner \notin gone
  <2>1. UNCHANGED <<boxOwner, up, made, loose, boxEvents>>
    BY <1>1 DEF CutBox
  <2>. QED BY <1>1, <2>1
<1>2. CASE /\ boxOwner \in gone /\ work[boxOwner] = "create" /\ RunBox
           /\ loose' = loose \cup {made'} /\ UNCHANGED boxEvents
  BY <1>2 DEF CutBox, RunBox, Unborn
<1>3. CASE boxOwner \in gone /\ work[boxOwner] = "create" /\ UNCHANGED <<up, made, loose, boxEvents>>
  BY <1>3 DEF CutBox, Unborn
<1>4. CASE /\ boxOwner \in gone /\ work[boxOwner] = "report"
           /\ loose' = loose \cup {made} /\ UNCHANGED <<up, made>>
           /\ LogBox(made, "running") \/ UNCHANGED boxEvents
  <2>1. Unborn /\ made \in up
    BY <1>4 DEF Unborn, Boxes
  <2>. QED BY <1>4, <2>1 DEF CutBox, LogBox
<1>. QED BY <1>1, <1>2, <1>3, <1>4 DEF CutBox

\* What the log says of the subagents.
LEMMA EventTypesStep ==
  ASSUME Inv, [Next]_vars
  PROVE  EventTypes'
<1>. USE LocalAssumption DEF Inv, Types, EventTypes
<1>1. ASSUME NEW i \in Ids, LogStart(i)
      PROVE  EventTypes'
  <2>1. "start" \in {"start", "running"} \cup Ends /\ Report(i, "start")
    BY <1>1 DEF LogStart, Ends, Tasks, Task
  <2>. QED BY <2>1, ReportTyped
<1>2. ASSUME NEW i \in Ids, LogRunning(i)
      PROVE  EventTypes'
  <2>1. "running" \in {"start", "running"} \cup Ends /\ Report(i, "running")
    BY <1>2 DEF LogRunning, Ends, Tasks, Task
  <2>. QED BY <2>1, ReportTyped
<1>3. ASSUME NEW i \in Ids, Return(i)
      PROVE  EventTypes'
  BY <1>3 DEF Return, Sync, UpdateTools, Fails
<1>4. ASSUME NEW i \in Ids, LogCancel(i)
      PROVE  EventTypes'
  <2>1. "cancelled" \in {"start", "running"} \cup Ends /\ Report(i, "cancelled")
    BY <1>4 DEF LogCancel, Ends, Tasks, Task
  <2>. QED BY <2>1, ReportTyped
<1>5. ASSUME Retire
      PROVE  EventTypes'
  BY <1>5 DEF Retire, Sync, UpdateTools, Fails, subagents
<1>6. ASSUME RetireAtClose
      PROVE  EventTypes'
  BY <1>6 DEF RetireAtClose, Sync, UpdateTools, Fails, subagents
<1>7. ASSUME Drain
      PROVE  EventTypes'
  BY <1>7 DEF Drain, server, hist, subagents
<1>8. ASSUME Halt
      PROVE  EventTypes'
  BY <1>8 DEF Halt, StopBox, Fails, server, subagents
<1>9. ASSUME LogHalt
      PROVE  EventTypes'
  BY <1>9 DEF LogHalt, ReportBox, Fails, LogBox, hist, subagents
<1>10. ASSUME Delete
      PROVE  EventTypes'
  BY <1>10 DEF Delete, Fails, hist, subagents
<1>11. ASSUME NEW i \in Ids, Launch(i)
      PROVE  EventTypes'
  BY <1>11 DEF Launch, Free, server, hist
<1>12. ASSUME NEW ids \in SUBSET tracked, Status(ids)
      PROVE  EventTypes'
  BY <1>12 DEF Status, Free, server
<1>13. ASSUME NEW i \in Ids, Cancel(i)
      PROVE  EventTypes'
  BY <1>13 DEF Cancel, Abort, CutBox, RunBox, LogBox, Free
<1>14. ASSUME NEW i \in Ids, TimeOut(i)
      PROVE  EventTypes'
  BY <1>14 DEF TimeOut, Settled, CutBox, RunBox, LogBox
<1>15. ASSUME NEW i \in Ids, Pass(i)
      PROVE  EventTypes'
  BY <1>15 DEF Pass, server, hist, subagents
<1>16. ASSUME NEW i \in Ids, Apply(i)
      PROVE  EventTypes'
  BY <1>16 DEF Apply, server, hist
<1>17. ASSUME NEW i \in Ids, LogEnd(i)
      PROVE  EventTypes'
  <2>1. outcome[i] \in {"start", "running"} \cup Ends /\ Report(i, outcome[i])
    BY <1>17 DEF LogEnd, Ends, Tasks, Task
  <2>. QED BY <2>1, ReportTyped
<1>18. ASSUME Close
      PROVE  EventTypes'
  BY <1>18 DEF Close, Abort, CutBox, RunBox, LogBox, Free
<1>19. ASSUME ExecLocal
      PROVE  EventTypes'
  BY <1>19 DEF ExecLocal, Free, server, hist, subagents
<1>20. ASSUME ToolFails
      PROVE  EventTypes'
  BY <1>20 DEF ToolFails, Fails, LogBox, Settled, hist
<1>21. ASSUME Drop
      PROVE  EventTypes'
  BY <1>21 DEF Drop, Fails, CutBox, RunBox, LogBox, subagents
<1>22. ASSUME NEW a \in Ids \cup {Tool}, UseBox(a)
      PROVE  EventTypes'
  BY <1>22 DEF UseBox, server, hist, subagents
<1>23. ASSUME NEW a \in Ids \cup {Tool}, CreateBox(a)
      PROVE  EventTypes'
  BY <1>23 DEF CreateBox, RunBox, Fails, Settled, server, hist
<1>24. ASSUME NEW a \in Ids \cup {Tool}, InsertBox(a)
      PROVE  EventTypes'
  BY <1>24 DEF InsertBox, ReportBox, Fails, LogBox, hist, subagents
<1>25. ASSUME NEW a \in Ids \cup {Tool}, Finish(a)
      PROVE  EventTypes'
  BY <1>25 DEF Finish, Settled, server, hist
<1>26. CASE UNCHANGED vars
  BY <1>26 DEF vars, subagents, server, boxes, hist
<1>. QED
  BY <1>1, <1>2, <1>3, <1>4, <1>5, <1>6, <1>7, <1>8, <1>9, <1>10, <1>11, <1>12, <1>13, <1>14,
     <1>15, <1>16, <1>17, <1>18, <1>19, <1>20, <1>21, <1>22, <1>23, <1>24, <1>25, <1>26, Kinds

\* What the log says of the containers.
LEMMA BoxEventTypesStep ==
  ASSUME Inv, [Next]_vars
  PROVE  BoxEventTypes'
<1>. USE LocalAssumption DEF Inv, Types, BoxEventTypes
<1>1. ASSUME NEW i \in Ids, LogStart(i)
      PROVE  BoxEventTypes'
  <2>1. UNCHANGED boxEvents
    BY <1>1 DEF LogStart, Report
  <2>. QED BY <2>1
<1>2. ASSUME NEW i \in Ids, LogRunning(i)
      PROVE  BoxEventTypes'
  <2>1. UNCHANGED boxEvents
    BY <1>2 DEF LogRunning, Report
  <2>. QED BY <2>1
<1>3. ASSUME NEW i \in Ids, Return(i)
      PROVE  BoxEventTypes'
  BY <1>3 DEF Return, Sync, UpdateTools, Fails
<1>4. ASSUME NEW i \in Ids, LogCancel(i)
      PROVE  BoxEventTypes'
  <2>1. UNCHANGED boxEvents
    BY <1>4 DEF LogCancel, Report
  <2>. QED BY <2>1
<1>5. ASSUME Retire
      PROVE  BoxEventTypes'
  BY <1>5 DEF Retire, Sync, UpdateTools, Fails, subagents
<1>6. ASSUME RetireAtClose
      PROVE  BoxEventTypes'
  BY <1>6 DEF RetireAtClose, Sync, UpdateTools, Fails, subagents
<1>7. ASSUME Drain
      PROVE  BoxEventTypes'
  BY <1>7 DEF Drain, server, hist, subagents
<1>8. ASSUME Halt
      PROVE  BoxEventTypes'
  BY <1>8 DEF Halt, StopBox, Fails, server, subagents
<1>9. ASSUME LogHalt
      PROVE  BoxEventTypes'
  <2>1. \E w \in {"stopped", "error"} :
          UNCHANGED boxEvents \/ boxEvents' = [boxEvents EXCEPT ![doomed] = Append(boxEvents[doomed], w)]
    BY <1>9 DEF LogHalt, ReportBox, LogBox
  <2>. QED BY <2>1, BoxTyped
<1>10. ASSUME Delete
      PROVE  BoxEventTypes'
  BY <1>10 DEF Delete, Fails, hist, subagents
<1>11. ASSUME NEW i \in Ids, Launch(i)
      PROVE  BoxEventTypes'
  BY <1>11 DEF Launch, Free, server, hist
<1>12. ASSUME NEW ids \in SUBSET tracked, Status(ids)
      PROVE  BoxEventTypes'
  BY <1>12 DEF Status, Free, server
<1>13. ASSUME NEW i \in Ids, Cancel(i)
      PROVE  BoxEventTypes'
  <2>1. CutBox(Hit({i}))
    BY <1>13 DEF Cancel, Abort, Hit
  <2>2. Hit({i}) \in SUBSET (Ids \cup {Tool})
    BY <1>13 DEF SubTypes, Running, Hit
  <2>3. UNCHANGED boxEvents \/ boxEvents' = [boxEvents EXCEPT ![made] = Append(boxEvents[made], "running")]
    BY <2>1, <2>2, Cut
  <2>. QED BY <2>3, BoxTyped
<1>14. ASSUME NEW i \in Ids, TimeOut(i)
      PROVE  BoxEventTypes'
  <2>1. CutBox({i})
    BY <1>14 DEF TimeOut, Abort
  <2>2. {i} \in SUBSET (Ids \cup {Tool})
    BY <1>14 DEF SubTypes, Running
  <2>3. UNCHANGED boxEvents \/ boxEvents' = [boxEvents EXCEPT ![made] = Append(boxEvents[made], "running")]
    BY <2>1, <2>2, Cut
  <2>. QED BY <2>3, BoxTyped
<1>15. ASSUME NEW i \in Ids, Pass(i)
      PROVE  BoxEventTypes'
  BY <1>15 DEF Pass, server, hist, subagents
<1>16. ASSUME NEW i \in Ids, Apply(i)
      PROVE  BoxEventTypes'
  BY <1>16 DEF Apply, server, hist
<1>17. ASSUME NEW i \in Ids, LogEnd(i)
      PROVE  BoxEventTypes'
  <2>1. UNCHANGED boxEvents
    BY <1>17 DEF LogEnd, Report
  <2>. QED BY <2>1
<1>18. ASSUME Close
      PROVE  BoxEventTypes'
  <2>1. CutBox(Hit(Running))
    BY <1>18 DEF Close, Abort, Hit
  <2>2. Hit(Running) \in SUBSET (Ids \cup {Tool})
    BY <1>18 DEF SubTypes, Running, Hit
  <2>3. UNCHANGED boxEvents \/ boxEvents' = [boxEvents EXCEPT ![made] = Append(boxEvents[made], "running")]
    BY <2>1, <2>2, Cut
  <2>. QED BY <2>3, BoxTyped
<1>19. ASSUME ExecLocal
      PROVE  BoxEventTypes'
  BY <1>19 DEF ExecLocal, Free, server, hist, subagents
<1>20. ASSUME ToolFails
      PROVE  BoxEventTypes'
  <2>1. boxEvents' = [boxEvents EXCEPT ![started] = Append(boxEvents[started], "error")]
    BY <1>20 DEF ToolFails, LogBox
  <2>. QED BY <2>1, BoxTyped
<1>21. ASSUME Drop
      PROVE  BoxEventTypes'
  <2>1. CASE call.op = "exec"
    <3>1. CutBox({Tool})
      BY <1>21, <2>1 DEF Drop
    <3>2. UNCHANGED boxEvents \/ boxEvents' = [boxEvents EXCEPT ![made] = Append(boxEvents[made], "running")]
      BY <3>1, Cut
    <3>. QED BY <3>2, BoxTyped
  <2>2. CASE call.op # "exec"
    BY <1>21, <2>2 DEF Drop
  <2>. QED BY <2>1, <2>2
<1>22. ASSUME NEW a \in Ids \cup {Tool}, UseBox(a)
      PROVE  BoxEventTypes'
  BY <1>22 DEF UseBox, server, hist, subagents
<1>23. ASSUME NEW a \in Ids \cup {Tool}, CreateBox(a)
      PROVE  BoxEventTypes'
  BY <1>23 DEF CreateBox, RunBox, Fails, Settled, server, hist
<1>24. ASSUME NEW a \in Ids \cup {Tool}, InsertBox(a)
      PROVE  BoxEventTypes'
  <2>1. UNCHANGED boxEvents \/ boxEvents' = [boxEvents EXCEPT ![made] = Append(boxEvents[made], "running")]
    BY <1>24 DEF InsertBox, ReportBox, LogBox
  <2>. QED BY <2>1, BoxTyped
<1>25. ASSUME NEW a \in Ids \cup {Tool}, Finish(a)
      PROVE  BoxEventTypes'
  BY <1>25 DEF Finish, Settled, server, hist
<1>26. CASE UNCHANGED vars
  BY <1>26 DEF vars, subagents, server, boxes, hist
<1>. QED
  BY <1>1, <1>2, <1>3, <1>4, <1>5, <1>6, <1>7, <1>8, <1>9, <1>10, <1>11, <1>12, <1>13, <1>14,
     <1>15, <1>16, <1>17, <1>18, <1>19, <1>20, <1>21, <1>22, <1>23, <1>24, <1>25, <1>26, Kinds

\* The containers.
LEMMA BoxTypesStep ==
  ASSUME Inv, [Next]_vars
  PROVE  BoxTypes'
<1>. USE LocalAssumption DEF Inv, Types, BoxTypes
<1>1. ASSUME NEW i \in Ids, LogStart(i)
      PROVE  BoxTypes'
  BY <1>1 DEF LogStart, Report, Fails, LogSubagent, hist, boxes
<1>2. ASSUME NEW i \in Ids, LogRunning(i)
      PROVE  BoxTypes'
  BY <1>2 DEF LogRunning, Report, Fails, LogSubagent, hist, subagents, boxes
<1>3. ASSUME NEW i \in Ids, Return(i)
      PROVE  BoxTypes'
  BY <1>3 DEF Return, Sync, UpdateTools, Fails, boxes
<1>4. ASSUME NEW i \in Ids, LogCancel(i)
      PROVE  BoxTypes'
  BY <1>4 DEF LogCancel, Report, Fails, LogSubagent, hist, subagents, boxes
<1>5. ASSUME Retire
      PROVE  BoxTypes'
  BY <1>5 DEF Retire, Sync, UpdateTools, Fails, subagents, boxes
<1>6. ASSUME RetireAtClose
      PROVE  BoxTypes'
  BY <1>6 DEF RetireAtClose, Sync, UpdateTools, Fails, subagents, boxes
<1>7. ASSUME Drain
      PROVE  BoxTypes'
  BY <1>7 DEF Drain, server, hist, subagents
<1>8. ASSUME Halt
      PROVE  BoxTypes'
  <2>1. UNCHANGED <<boxOwner, started, doomed, made>>
    BY <1>8 DEF Halt
  <2>2. doomed # None => doomed \in up \ loose
    BY <1>8 DEF Halt, Boxes
  <2>. QED BY <1>8, <2>1, <2>2 DEF Halt, StopBox
<1>9. ASSUME LogHalt
      PROVE  BoxTypes'
  BY <1>9 DEF LogHalt, ReportBox, Fails, LogBox, hist, subagents
<1>10. ASSUME Delete
      PROVE  BoxTypes'
  BY <1>10 DEF Delete, Fails, hist, subagents, boxes
<1>11. ASSUME NEW i \in Ids, Launch(i)
      PROVE  BoxTypes'
  BY <1>11 DEF Launch, Free, server, hist, boxes
<1>12. ASSUME NEW ids \in SUBSET tracked, Status(ids)
      PROVE  BoxTypes'
  BY <1>12 DEF Status, Free, server, boxes
<1>13. ASSUME NEW i \in Ids, Cancel(i)
      PROVE  BoxTypes'
  <2>1. CutBox(Hit({i}))
    BY <1>13 DEF Cancel, Abort, Hit
  <2>2. Hit({i}) \in SUBSET (Ids \cup {Tool})
    BY <1>13 DEF SubTypes, Running, Hit
  <2>3. UNCHANGED <<started, doomed>>
    BY <1>13 DEF Cancel
  <2>4. /\ made' \in made .. MaxBoxes /\ boxOwner' \in {boxOwner, None}
        /\ up' \subseteq 1 .. made' /\ loose' \subseteq up'
    BY <2>1, <2>2, Cut
  <2>. QED BY <2>3, <2>4
<1>14. ASSUME NEW i \in Ids, TimeOut(i)
      PROVE  BoxTypes'
  <2>1. CutBox({i})
    BY <1>14 DEF TimeOut, Abort
  <2>2. {i} \in SUBSET (Ids \cup {Tool})
    BY <1>14 DEF SubTypes, Running
  <2>3. UNCHANGED <<started, doomed>>
    BY <1>14 DEF TimeOut
  <2>4. /\ made' \in made .. MaxBoxes /\ boxOwner' \in {boxOwner, None}
        /\ up' \subseteq 1 .. made' /\ loose' \subseteq up'
    BY <2>1, <2>2, Cut
  <2>. QED BY <2>3, <2>4
<1>15. ASSUME NEW i \in Ids, Pass(i)
      PROVE  BoxTypes'
  BY <1>15 DEF Pass, server, hist, subagents, boxes
<1>16. ASSUME NEW i \in Ids, Apply(i)
      PROVE  BoxTypes'
  BY <1>16 DEF Apply, server, hist, boxes
<1>17. ASSUME NEW i \in Ids, LogEnd(i)
      PROVE  BoxTypes'
  BY <1>17 DEF LogEnd, Report, Fails, LogSubagent, hist, subagents, boxes
<1>18. ASSUME Close
      PROVE  BoxTypes'
  <2>1. CutBox(Hit(Running))
    BY <1>18 DEF Close, Abort, Hit
  <2>2. Hit(Running) \in SUBSET (Ids \cup {Tool})
    BY <1>18 DEF SubTypes, Running, Hit
  <2>3. UNCHANGED <<started, doomed>>
    BY <1>18 DEF Close
  <2>4. /\ made' \in made .. MaxBoxes /\ boxOwner' \in {boxOwner, None}
        /\ up' \subseteq 1 .. made' /\ loose' \subseteq up'
    BY <2>1, <2>2, Cut
  <2>. QED BY <2>3, <2>4
<1>19. ASSUME ExecLocal
      PROVE  BoxTypes'
  BY <1>19 DEF ExecLocal, Free, server, hist, subagents, boxes
<1>20. ASSUME ToolFails
      PROVE  BoxTypes'
  BY <1>20 DEF ToolFails, Fails, LogBox, Settled, hist, boxes
<1>21. ASSUME Drop
      PROVE  BoxTypes'
  <2>1. UNCHANGED started /\ doomed' = None
    BY <1>21 DEF Drop
  <2>2. CASE call.op = "exec"
    <3>1. CutBox({Tool})
      BY <1>21, <2>2 DEF Drop
    <3>. QED BY <2>1, <3>1, Cut
  <2>3. CASE call.op # "exec"
    BY <1>21, <2>1, <2>3 DEF Drop
  <2>. QED BY <2>2, <2>3
<1>22. ASSUME NEW a \in Ids \cup {Tool}, UseBox(a)
      PROVE  BoxTypes'
  <2>1. a \in Boxed \cup {Tool}
    BY <1>22 DEF UseBox, Tasks, Task
  <2>. QED BY <1>22, <2>1 DEF UseBox
<1>23. ASSUME NEW a \in Ids \cup {Tool}, CreateBox(a)
      PROVE  BoxTypes'
  <2>1. UNCHANGED <<started, doomed, loose>> /\ boxOwner' \in {boxOwner, None}
    BY <1>23 DEF CreateBox
  <2>2. \/ RunBox
        \/ UNCHANGED <<made, up>>
    BY <1>23 DEF CreateBox
  <2>3. CASE UNCHANGED <<made, up>>
    BY <2>1, <2>3
  <2>4. CASE RunBox
    <3>1. made' = made + 1 /\ made' \in 1 .. MaxBoxes /\ up' = up \cup {made'}
      BY <2>4 DEF RunBox
    <3>2. up' \subseteq 1 .. made' /\ loose' \subseteq up'
      BY <2>1, <3>1
    <3>3. started' \in {None} \cup 1 .. made' /\ doomed' \in {None} \cup 1 .. made'
      BY <2>1, <3>1
    <3>. QED BY <2>1, <3>1, <3>2, <3>3
  <2>. QED BY <2>2, <2>3, <2>4
<1>24. ASSUME NEW a \in Ids \cup {Tool}, InsertBox(a)
      PROVE  BoxTypes'
  <2>1. boxOwner = a /\ a # None /\ Unborn
    BY <1>24 DEF InsertBox, Lock, Unborn
  <2>. QED BY <1>24, <2>1 DEF InsertBox, Boxes
<1>25. ASSUME NEW a \in Ids \cup {Tool}, Finish(a)
      PROVE  BoxTypes'
  BY <1>25 DEF Finish, Settled, server, hist, boxes
<1>26. CASE UNCHANGED vars
  BY <1>26 DEF vars, subagents, server, boxes, hist
<1>. QED
  BY <1>1, <1>2, <1>3, <1>4, <1>5, <1>6, <1>7, <1>8, <1>9, <1>10, <1>11, <1>12, <1>13, <1>14,
     <1>15, <1>16, <1>17, <1>18, <1>19, <1>20, <1>21, <1>22, <1>23, <1>24, <1>25, <1>26, Kinds

\* Nobody comes to owe an end that was not to come.
LEMMA OwingStep ==
  ASSUME Inv, [Next]_vars
  PROVE  \A k \in Ids : Owing(k)' => Owing(k)
<1>. USE LocalAssumption, Fields, Where DEF Inv, Types, SubTypes, Shape
<1>1. ASSUME NEW i \in Ids, LogStart(i)
      PROVE  \A k \in Ids : Owing(k)' => Owing(k)
  <2>1. UNCHANGED status /\ work' = [work EXCEPT ![i] = FirstStep(i)] /\ FirstStep(i) # "tell"
    BY <1>1 DEF LogStart, FirstStep
  <2>2. call'.step = "running"
    BY <1>1
  <2>. QED BY <2>1, <2>2 DEF Owing
<1>2. ASSUME NEW i \in Ids, LogRunning(i)
      PROVE  \A k \in Ids : Owing(k)' => Owing(k)
  BY <1>2 DEF LogRunning, Report, Fails, LogSubagent, subagents, hist, Owing, Running, NoCall
<1>3. ASSUME NEW i \in Ids, Return(i)
      PROVE  \A k \in Ids : Owing(k)' => Owing(k)
  BY <1>3 DEF Return, Sync, UpdateTools, Fails, Owing, Running, NoCall
<1>4. ASSUME NEW i \in Ids, LogCancel(i)
      PROVE  \A k \in Ids : Owing(k)' => Owing(k)
  <2>1. UNCHANGED <<status, work>> /\ call.step = "report"
    BY <1>4 DEF LogCancel, subagents
  <2>2. call'.step = "report" => call'.ids \subseteq call.ids
    BY <1>4
  <2>. QED BY <2>1, <2>2 DEF Owing
<1>5. ASSUME Retire
      PROVE  \A k \in Ids : Owing(k)' => Owing(k)
  BY <1>5 DEF Retire, Sync, UpdateTools, Fails, subagents, Owing, Running, NoCall
<1>6. ASSUME RetireAtClose
      PROVE  \A k \in Ids : Owing(k)' => Owing(k)
  BY <1>6 DEF RetireAtClose, Sync, UpdateTools, Fails, subagents, Owing, Running, NoCall
<1>7. ASSUME Drain
      PROVE  \A k \in Ids : Owing(k)' => Owing(k)
  BY <1>7 DEF Drain, subagents, server, hist, Owing, Running, NoCall
<1>8. ASSUME Halt
      PROVE  \A k \in Ids : Owing(k)' => Owing(k)
  BY <1>8 DEF Halt, StopBox, Fails, subagents, server, Owing, Running, NoCall
<1>9. ASSUME LogHalt
      PROVE  \A k \in Ids : Owing(k)' => Owing(k)
  BY <1>9 DEF LogHalt, ReportBox, Fails, LogBox, subagents, hist, Owing, Running, NoCall
<1>10. ASSUME Delete
      PROVE  \A k \in Ids : Owing(k)' => Owing(k)
  BY <1>10 DEF Delete, Fails, subagents, hist, Owing, Running, NoCall
<1>11. ASSUME NEW i \in Ids, Launch(i)
      PROVE  \A k \in Ids : Owing(k)' => Owing(k)
  BY <1>11 DEF Launch, Free, server, hist, Owing, Running, NoCall
<1>12. ASSUME NEW ids \in SUBSET tracked, Status(ids)
      PROVE  \A k \in Ids : Owing(k)' => Owing(k)
  BY <1>12 DEF Status, Free, server, Owing, Running, NoCall
<1>13. ASSUME NEW i \in Ids, Cancel(i)
      PROVE  \A k \in Ids : Owing(k)' => Owing(k)
  BY <1>13 DEF Cancel, Abort, CutBox, RunBox, LogBox, Free, Owing, Running, NoCall
<1>14. ASSUME NEW i \in Ids, TimeOut(i)
      PROVE  \A k \in Ids : Owing(k)' => Owing(k)
  BY <1>14 DEF TimeOut, Settled, CutBox, RunBox, LogBox, Owing, Running, NoCall
<1>15. ASSUME NEW i \in Ids, Pass(i)
      PROVE  \A k \in Ids : Owing(k)' => Owing(k)
  BY <1>15 DEF Pass, subagents, server, hist, Owing, Running, NoCall
<1>16. ASSUME NEW i \in Ids, Apply(i)
      PROVE  \A k \in Ids : Owing(k)' => Owing(k)
  <2>1. UNCHANGED call /\ (work'[i] = "tell" => status[i] = "running")
        /\ (status'[i] \in {"none", "running"} => status[i] \in {"none", "running"})
        /\ \A k \in Ids \ {i} : work'[k] = work[k] /\ status'[k] = status[k]
    BY <1>16 DEF Apply, Running, Tasks, Task
  <2>2. \A k \in Ids \ {i} : Owing(k)' => Owing(k)
    BY <2>1 DEF Owing
  <2>3. Owing(i)' => Owing(i)
    BY <2>1 DEF Owing
  <2>. QED BY <2>2, <2>3
<1>17. ASSUME NEW i \in Ids, LogEnd(i)
      PROVE  \A k \in Ids : Owing(k)' => Owing(k)
  BY <1>17 DEF LogEnd, Report, Fails, LogSubagent, subagents, hist, Owing, Running, NoCall
<1>18. ASSUME Close
      PROVE  \A k \in Ids : Owing(k)' => Owing(k)
  BY <1>18 DEF Close, Abort, CutBox, RunBox, LogBox, Free, Owing, Running, NoCall
<1>19. ASSUME ExecLocal
      PROVE  \A k \in Ids : Owing(k)' => Owing(k)
  BY <1>19 DEF ExecLocal, Free, subagents, server, hist, Owing, Running, NoCall
<1>20. ASSUME ToolFails
      PROVE  \A k \in Ids : Owing(k)' => Owing(k)
  BY <1>20 DEF ToolFails, Fails, LogBox, Settled, hist, Owing, Running, NoCall
<1>21. ASSUME Drop
      PROVE  \A k \in Ids : Owing(k)' => Owing(k)
  BY <1>21 DEF Drop, Fails, CutBox, RunBox, LogBox, subagents, Owing, Running, NoCall
<1>22. ASSUME NEW a \in Ids \cup {Tool}, UseBox(a)
      PROVE  \A k \in Ids : Owing(k)' => Owing(k)
  BY <1>22 DEF UseBox, subagents, server, hist, Owing, Running, NoCall
<1>23. ASSUME NEW a \in Ids \cup {Tool}, CreateBox(a)
      PROVE  \A k \in Ids : Owing(k)' => Owing(k)
  BY <1>23 DEF CreateBox, RunBox, Fails, Settled, server, hist, Owing, Running, NoCall
<1>24. ASSUME NEW a \in Ids \cup {Tool}, InsertBox(a)
      PROVE  \A k \in Ids : Owing(k)' => Owing(k)
  BY <1>24 DEF InsertBox, ReportBox, Fails, LogBox, subagents, hist, Owing, Running, NoCall
<1>25. ASSUME NEW a \in Ids \cup {Tool}, Finish(a)
      PROVE  \A k \in Ids : Owing(k)' => Owing(k)
  BY <1>25 DEF Finish, Settled, server, hist, Owing, Running, NoCall
<1>26. CASE UNCHANGED vars
  BY <1>26 DEF vars, subagents, Owing
<1>. QED
  BY <1>1, <1>2, <1>3, <1>4, <1>5, <1>6, <1>7, <1>8, <1>9, <1>10, <1>11, <1>12, <1>13, <1>14,
     <1>15, <1>16, <1>17, <1>18, <1>19, <1>20, <1>21, <1>22, <1>23, <1>24, <1>25, <1>26, Kinds

\* Whoever logs an end owed it.
LEMMA LivesStep ==
  ASSUME Inv, [Next]_vars
  PROVE  Lives'
<1>. USE LocalAssumption, Fields, Where DEF Inv, Types, EventTypes, SubTypes, Shape
<1>0. ASSUME UNCHANGED events
      PROVE  Lives'
  <2>1. \A k \in Ids : (Told(k)' <=> Told(k)) /\ (InOrder(k)' <=> InOrder(k))
    BY <1>0, Quiet
  <2>. QED BY <2>1, OwingStep DEF Lives, Life
<1>a. ASSUME NEW i \in Ids, NEW what \in {"start", "running"} \cup Ends, Report(i, what),
             \A j \in DOMAIN events[i] : Place(events[i][j]) < Place(what),
             Owing(i), what \in Ends => ~Owing(i)'
      PROVE  Lives'
  <2>1. \A k \in Ids \ {i} : Life(k)'
    <3>1. \A k \in Ids \ {i} : events'[k] = events[k]
      BY <1>a, Reported
    <3>2. \A k \in Ids \ {i} : (Told(k)' <=> Told(k)) /\ (InOrder(k)' <=> InOrder(k))
      BY <3>1, Quiet
    <3>. QED BY <3>2, OwingStep DEF Lives, Life
  <2>2. InOrder(i) /\ ~Told(i)
    BY <1>a DEF Lives, Life
  <2>3. ASSUME events'[i] = events[i]
        PROVE  Life(i)'
    BY <2>2, <2>3, Quiet DEF Life
  <2>4. ASSUME events'[i] = Append(events[i], what)
        PROVE  Life(i)'
    <3>1. InOrder(i)' /\ (Told(i)' => what \in Ends)
      BY <1>a, <2>2, <2>4, Speaks
    <3>. QED BY <1>a, <3>1 DEF Life
  <2>5. Life(i)'
    BY <1>a, <2>3, <2>4, Reported
  <2>. QED BY <2>1, <2>5 DEF Lives
<1>1. ASSUME NEW i \in Ids, LogStart(i)
      PROVE  Lives'
  <2>1. Report(i, "start") /\ status[i] = "running" /\ events[i] = <<>>
    BY <1>1 DEF LogStart, Launching
  <2>. QED BY <2>1, <1>a DEF Owing, Ends
<1>2. ASSUME NEW i \in Ids, LogRunning(i)
      PROVE  Lives'
  <2>1. Report(i, "running") /\ status[i] = "running" /\ ~Says(i, "running")
    BY <1>2 DEF LogRunning, Launching
  <2>2. Owing(i) /\ ~Told(i)
    BY <2>1 DEF Owing, Lives, Life
  <2>3. \A j \in DOMAIN events[i] : events[i][j] \in {"start", "running"} \cup Ends
    BY DEF EventTypes
  <2>4. \A j \in DOMAIN events[i] : events[i][j] = "start"
    BY <2>1, <2>2, <2>3 DEF Says, Told
  <2>5. \A j \in DOMAIN events[i] : Place(events[i][j]) < Place("running")
    BY <2>4 DEF Place
  <2>. QED BY <2>1, <2>2, <2>5, <1>a DEF Ends
<1>3. ASSUME NEW i \in Ids, Return(i)
      PROVE  Lives'
  BY <1>3, <1>0 DEF Return
<1>4. ASSUME NEW i \in Ids, LogCancel(i)
      PROVE  Lives'
  <2>1. /\ Report(i, "cancelled") /\ "cancelled" \in Ends /\ status[i] = "cancelled"
        /\ UNCHANGED <<work, status>> /\ work[i] # "tell"
    BY <1>4 DEF LogCancel, subagents, Ends, Tasks, Task, Cancelling
  <2>2. Owing(i) /\ ~Told(i)
    BY <1>4 DEF LogCancel, Owing, Lives, Life
  <2>3. \A j \in DOMAIN events[i] : events[i][j] \in {"start", "running"} \cup Ends
    BY DEF EventTypes
  <2>4. \A j \in DOMAIN events[i] : events[i][j] \in {"start", "running"}
    BY <2>2, <2>3 DEF Told
  <2>5. \A j \in DOMAIN events[i] : Place(events[i][j]) < Place("cancelled")
    BY <2>1, <2>4 DEF Place, Ends
  <2>6. call'.step = "report" => i \notin call'.ids
    BY <1>4
  <2>7. ~Owing(i)'
    BY <2>1, <2>6 DEF Owing
  <2>. QED BY <2>1, <2>2, <2>5, <2>7, <1>a
<1>5. ASSUME Retire
      PROVE  Lives'
  BY <1>5, <1>0 DEF Retire
<1>6. ASSUME RetireAtClose
      PROVE  Lives'
  BY <1>6, <1>0 DEF RetireAtClose
<1>7. ASSUME Drain
      PROVE  Lives'
  BY <1>7, <1>0 DEF Drain, server, hist
<1>8. ASSUME Halt
      PROVE  Lives'
  BY <1>8, <1>0 DEF Halt, server
<1>9. ASSUME LogHalt
      PROVE  Lives'
  BY <1>9, <1>0 DEF LogHalt, hist, ReportBox
<1>10. ASSUME Delete
      PROVE  Lives'
  BY <1>10, <1>0 DEF Delete, hist
<1>11. ASSUME NEW i \in Ids, Launch(i)
      PROVE  Lives'
  BY <1>11, <1>0 DEF Launch, server, hist
<1>12. ASSUME NEW ids \in SUBSET tracked, Status(ids)
      PROVE  Lives'
  BY <1>12, <1>0 DEF Status, server
<1>13. ASSUME NEW i \in Ids, Cancel(i)
      PROVE  Lives'
  BY <1>13, <1>0 DEF Cancel
<1>14. ASSUME NEW i \in Ids, TimeOut(i)
      PROVE  Lives'
  BY <1>14, <1>0 DEF TimeOut
<1>15. ASSUME NEW i \in Ids, Pass(i)
      PROVE  Lives'
  BY <1>15, <1>0 DEF Pass, server, hist
<1>16. ASSUME NEW i \in Ids, Apply(i)
      PROVE  Lives'
  BY <1>16, <1>0 DEF Apply, server, hist
<1>17. ASSUME NEW i \in Ids, LogEnd(i)
      PROVE  Lives'
  <2>1. /\ Report(i, outcome[i]) /\ outcome[i] \in Ends /\ outcome[i] # "cancelled"
        /\ work'[i] = "end" /\ status[i] = outcome[i] /\ UNCHANGED <<call, status>>
    BY <1>17 DEF LogEnd, subagents, Ends, Tasks, Task
  <2>2. Owing(i) /\ ~Told(i)
    BY <1>17 DEF LogEnd, Owing, Lives, Life
  <2>3. \A j \in DOMAIN events[i] : events[i][j] \in {"start", "running"} \cup Ends
    BY DEF EventTypes
  <2>4. \A j \in DOMAIN events[i] : events[i][j] \in {"start", "running"}
    BY <2>2, <2>3 DEF Told
  <2>5. \A j \in DOMAIN events[i] : Place(events[i][j]) < Place(outcome[i])
    BY <2>1, <2>4 DEF Place, Ends
  <2>6. ~Owing(i)'
    BY <2>1 DEF Owing, Ends, Cancelling
  <2>. QED BY <2>1, <2>2, <2>5, <2>6, <1>a
<1>18. ASSUME Close
      PROVE  Lives'
  BY <1>18, <1>0 DEF Close
<1>19. ASSUME ExecLocal
      PROVE  Lives'
  BY <1>19, <1>0 DEF ExecLocal, server, hist
<1>20. ASSUME ToolFails
      PROVE  Lives'
  BY <1>20, <1>0 DEF ToolFails, hist
<1>21. ASSUME Drop
      PROVE  Lives'
  BY <1>21, <1>0 DEF Drop
<1>22. ASSUME NEW a \in Ids \cup {Tool}, UseBox(a)
      PROVE  Lives'
  BY <1>22, <1>0 DEF UseBox, server, hist
<1>23. ASSUME NEW a \in Ids \cup {Tool}, CreateBox(a)
      PROVE  Lives'
  BY <1>23, <1>0 DEF CreateBox, server, hist
<1>24. ASSUME NEW a \in Ids \cup {Tool}, InsertBox(a)
      PROVE  Lives'
  BY <1>24, <1>0 DEF InsertBox, hist, ReportBox
<1>25. ASSUME NEW a \in Ids \cup {Tool}, Finish(a)
      PROVE  Lives'
  BY <1>25, <1>0 DEF Finish, server, hist
<1>26. CASE UNCHANGED vars
  BY <1>26, <1>0 DEF vars, server
<1>. QED
  BY <1>1, <1>2, <1>3, <1>4, <1>5, <1>6, <1>7, <1>8, <1>9, <1>10, <1>11, <1>12, <1>13, <1>14,
     <1>15, <1>16, <1>17, <1>18, <1>19, <1>20, <1>21, <1>22, <1>23, <1>24, <1>25, <1>26, Kinds

\* Whoever starts a container holds the lock of the map until it is in.
LEMMA LockStep ==
  ASSUME Inv, [Next]_vars
  PROVE  Lock'
<1>. USE LocalAssumption, Fields, Where DEF Inv, Types, SubTypes, BoxTypes, Shape, Lock
<1>1. ASSUME NEW i \in Ids, LogStart(i)
      PROVE  Lock'
  BY <1>1 DEF LogStart, Report, Fails, LogSubagent, hist, boxes, Busy, Launching, FirstStep
<1>2. ASSUME NEW i \in Ids, LogRunning(i)
      PROVE  Lock'
  BY <1>2 DEF LogRunning, Report, Fails, LogSubagent, subagents, hist, boxes, Busy, Launching
<1>3. ASSUME NEW i \in Ids, Return(i)
      PROVE  Lock'
  BY <1>3 DEF Return, Sync, UpdateTools, Fails, boxes, Busy, Launching
<1>4. ASSUME NEW i \in Ids, LogCancel(i)
      PROVE  Lock'
  BY <1>4 DEF LogCancel, Report, Fails, LogSubagent, subagents, hist, boxes, Busy, Launching
<1>5. ASSUME Retire
      PROVE  Lock'
  BY <1>5 DEF Retire, Sync, UpdateTools, Fails, subagents, boxes, Busy, Launching
<1>6. ASSUME RetireAtClose
      PROVE  Lock'
  BY <1>6 DEF RetireAtClose, Sync, UpdateTools, Fails, subagents, boxes, Busy, Launching
<1>7. ASSUME Drain
      PROVE  Lock'
  BY <1>7 DEF Drain, subagents, server, hist, Busy, Launching
<1>8. ASSUME Halt
      PROVE  Lock'
  BY <1>8 DEF Halt, StopBox, Fails, subagents, server, Busy, Launching
<1>9. ASSUME LogHalt
      PROVE  Lock'
  BY <1>9 DEF LogHalt, ReportBox, Fails, LogBox, subagents, hist, Busy, Launching
<1>10. ASSUME Delete
      PROVE  Lock'
  BY <1>10 DEF Delete, Fails, subagents, hist, boxes, Busy, Launching
<1>11. ASSUME NEW i \in Ids, Launch(i)
      PROVE  Lock'
  BY <1>11 DEF Launch, Free, server, hist, boxes, Busy, Launching
<1>12. ASSUME NEW ids \in SUBSET tracked, Status(ids)
      PROVE  Lock'
  BY <1>12 DEF Status, Free, server, boxes, Busy, Launching
<1>13. ASSUME NEW i \in Ids, Cancel(i)
      PROVE  Lock'
  <2>1. CutBox(Hit({i})) /\ UNCHANGED started
    BY <1>13 DEF Cancel, Abort, Hit
  <2>2. Hit({i}) \in SUBSET (Ids \cup {Tool})
    BY <1>13 DEF Running, Hit
  <2>3. \A a \in Ids \cup {Tool} :
          IF a \in Hit({i}) THEN work'[a] \in {"end", "settled"} ELSE work'[a] = work[a]
    BY <1>13 DEF Cancel, Abort, Settled, Hit
  <2>4. Tool \notin Hit({i})
    BY <1>13 DEF Running, Hit
  <2>5. boxOwner \in Hit({i}) => boxOwner' = None
    BY <2>1, <2>2, Cut
  <2>6. boxOwner \notin Hit({i}) => boxOwner' = boxOwner
    BY <2>1, <2>2, Cut
  <2>7. call.op = "exec" => call'.op = "exec"
    BY <1>13 DEF Cancel, Free, Settled
  <2>. QED BY ZenonT(60), <2>1, <2>2, <2>3, <2>4, <2>5, <2>6, <2>7
<1>14. ASSUME NEW i \in Ids, TimeOut(i)
      PROVE  Lock'
  <2>1. CutBox({i}) /\ UNCHANGED started
    BY <1>14 DEF TimeOut, Abort
  <2>2. {i} \in SUBSET (Ids \cup {Tool})
    BY <1>14 DEF Running
  <2>3. \A a \in Ids \cup {Tool} :
          IF a \in {i} THEN work'[a] \in {"end", "settled"} ELSE work'[a] = work[a]
    BY <1>14 DEF TimeOut, Abort, Settled
  <2>4. Tool \notin {i}
    BY <1>14 DEF Running
  <2>5. boxOwner \in {i} => boxOwner' = None
    BY <2>1, <2>2, Cut
  <2>6. boxOwner \notin {i} => boxOwner' = boxOwner
    BY <2>1, <2>2, Cut
  <2>7. call.op = "exec" => call'.op = "exec"
    BY <1>14 DEF TimeOut, Free, Settled
  <2>. QED BY <2>1, <2>2, <2>3, <2>4, <2>5, <2>6, <2>7
<1>15. ASSUME NEW i \in Ids, Pass(i)
      PROVE  Lock'
  BY <1>15 DEF Pass, subagents, server, hist, boxes, Busy, Launching
<1>16. ASSUME NEW i \in Ids, Apply(i)
      PROVE  Lock'
  BY <1>16 DEF Apply, server, hist, boxes, Busy, Launching
<1>17. ASSUME NEW i \in Ids, LogEnd(i)
      PROVE  Lock'
  BY <1>17 DEF LogEnd, Report, Fails, LogSubagent, subagents, hist, boxes, Busy, Launching
<1>18. ASSUME Close
      PROVE  Lock'
  <2>1. CutBox(Hit(Running)) /\ UNCHANGED started
    BY <1>18 DEF Close, Abort, Hit
  <2>2. Hit(Running) \in SUBSET (Ids \cup {Tool})
    BY <1>18 DEF Running, Hit
  <2>3. \A a \in Ids \cup {Tool} :
          IF a \in Hit(Running) THEN work'[a] \in {"end", "settled"} ELSE work'[a] = work[a]
    BY <1>18 DEF Close, Abort, Settled, Hit
  <2>4. Tool \notin Hit(Running)
    BY <1>18 DEF Running, Hit
  <2>5. boxOwner \in Hit(Running) => boxOwner' = None
    BY <2>1, <2>2, Cut
  <2>6. boxOwner \notin Hit(Running) => boxOwner' = boxOwner
    BY <2>1, <2>2, Cut
  <2>7. call.op = "exec" => call'.op = "exec"
    BY <1>18 DEF Close, Free, Settled
  <2>. QED BY <2>1, <2>2, <2>3, <2>4, <2>5, <2>6, <2>7
<1>19. ASSUME ExecLocal
      PROVE  Lock'
  BY <1>19 DEF ExecLocal, Free, subagents, server, hist, boxes, Busy, Launching
<1>20. ASSUME ToolFails
      PROVE  Lock'
  BY <1>20 DEF ToolFails, Fails, LogBox, Settled, hist, boxes, Busy, Launching
<1>21. ASSUME Drop
      PROVE  Lock'
  <2>1. UNCHANGED started /\ call' = NoCall
    BY <1>21 DEF Drop
  <2>2. CASE call.op = "exec"
    <3>1. CutBox({Tool}) /\ work' = [work EXCEPT ![Tool] = "none"]
      BY <1>21, <2>2 DEF Drop
    <3>2. /\ boxOwner = Tool => boxOwner' = None
          /\ boxOwner # Tool => boxOwner' = boxOwner
      BY <3>1, Cut
    <3>. QED BY <2>1, <3>1, <3>2
  <2>3. CASE call.op # "exec"
    BY <1>21, <2>1, <2>3 DEF Drop
  <2>. QED BY <2>2, <2>3
<1>22. ASSUME NEW a \in Ids \cup {Tool}, UseBox(a)
      PROVE  Lock'
  BY <1>22 DEF UseBox, subagents, server, hist, Busy, Launching
<1>23. ASSUME NEW a \in Ids \cup {Tool}, CreateBox(a)
      PROVE  Lock'
  BY <1>23 DEF CreateBox, RunBox, Fails, Settled, server, hist, Busy, Launching
<1>24. ASSUME NEW a \in Ids \cup {Tool}, InsertBox(a)
      PROVE  Lock'
  BY <1>24 DEF InsertBox, ReportBox, Fails, LogBox, subagents, hist, Busy, Launching
<1>25. ASSUME NEW a \in Ids \cup {Tool}, Finish(a)
      PROVE  Lock'
  BY <1>25 DEF Finish, Settled, server, hist, boxes, Busy, Launching
<1>26. CASE UNCHANGED vars
  BY <1>26 DEF vars, subagents, server, boxes, hist
<1>. QED
  BY <1>1, <1>2, <1>3, <1>4, <1>5, <1>6, <1>7, <1>8, <1>9, <1>10, <1>11, <1>12, <1>13, <1>14,
     <1>15, <1>16, <1>17, <1>18, <1>19, <1>20, <1>21, <1>22, <1>23, <1>24, <1>25, <1>26, Kinds

\* Once nothing is tracked and no tool runs, nothing waits for a command.
LEMMA Nobody ==
  ASSUME SubTypes, Tasks, Lock, tracked = {}, call.op # "exec"
  PROVE  \A a \in Ids \cup {Tool} : work[a] \notin Busy
<1>1. \A i \in Ids : work[i] \notin Busy
  BY DEF SubTypes, Tasks, Task
<1>2. work[Tool] \notin Busy
  BY DEF Lock, Busy
<1>. QED BY <1>1, <1>2

\* What runs belongs to the map, to the stop that took it out, or to its start.
LEMMA BoxesStep ==
  ASSUME Inv, [Next]_vars
  PROVE  Boxes'
<1>. USE LocalAssumption, Fields, Where DEF Inv, Types, SubTypes, BoxTypes, Shape, Lock, Boxes
<1>1. ASSUME NEW i \in Ids, LogStart(i)
      PROVE  Boxes'
  <2>1. /\ UNCHANGED <<boxes, closed, tracked>> /\ work[i] = "none"
        /\ \A a \in (Ids \cup {Tool}) \ {i} : work'[a] = work[a]
    BY <1>1 DEF LogStart, Launching
  <2>2. boxOwner # i /\ boxOwner \in Ids \cup {Tool, None}
    BY <2>1
  <2>3. Unborn' <=> Unborn
    BY <2>1, <2>2 DEF Unborn, boxes
  <2>4. call.step = "start" /\ call'.step = "running" /\ ~closed
    BY <1>1 DEF LogStart, NoCall
  <2>. QED BY <2>1, <2>3, <2>4 DEF boxes
<1>2. ASSUME NEW i \in Ids, LogRunning(i)
      PROVE  Boxes'
  BY <1>2 DEF LogRunning, Report, Fails, LogSubagent, subagents, hist, boxes, Unborn, NoCall
<1>3. ASSUME NEW i \in Ids, Return(i)
      PROVE  Boxes'
  BY <1>3 DEF Return, Sync, UpdateTools, Fails, boxes, Unborn, NoCall
<1>4. ASSUME NEW i \in Ids, LogCancel(i)
      PROVE  Boxes'
  BY <1>4 DEF LogCancel, Report, Fails, LogSubagent, subagents, hist, boxes, Unborn, NoCall
<1>5. ASSUME Retire
      PROVE  Boxes'
  BY <1>5 DEF Retire, Sync, UpdateTools, Fails, subagents, boxes, Unborn, NoCall
<1>6. ASSUME RetireAtClose
      PROVE  Boxes'
  BY <1>6 DEF RetireAtClose, Sync, UpdateTools, Fails, subagents, boxes, Unborn, NoCall
<1>7. ASSUME Drain
      PROVE  Boxes'
  BY <1>7 DEF Drain, subagents, server, hist, Unborn, NoCall
<1>8. ASSUME Halt
      PROVE  Boxes'
  BY <1>8 DEF Halt, StopBox, Fails, subagents, server, Unborn, NoCall
<1>9. ASSUME LogHalt
      PROVE  Boxes'
  BY <1>9 DEF LogHalt, ReportBox, Fails, LogBox, subagents, hist, Unborn, NoCall
<1>10. ASSUME Delete
      PROVE  Boxes'
  <2>1. /\ UNCHANGED <<boxes, work, tracked>> /\ call' = NoCall
        /\ call.step = "delete" /\ call.op = "close"
    BY <1>10 DEF Delete, subagents
  <2>2. doomed = None /\ started = None /\ tracked = {}
    BY <2>1 DEF Offer
  <2>3. Unborn' <=> Unborn
    BY <2>1 DEF Unborn, boxes
  <2>. QED BY <2>1, <2>2, <2>3 DEF boxes
<1>11. ASSUME NEW i \in Ids, Launch(i)
      PROVE  Boxes'
  BY <1>11 DEF Launch, Free, server, hist, boxes, Unborn, NoCall
<1>12. ASSUME NEW ids \in SUBSET tracked, Status(ids)
      PROVE  Boxes'
  BY <1>12 DEF Status, Free, server, boxes, Unborn, NoCall
<1>13. ASSUME NEW i \in Ids, Cancel(i)
      PROVE  Boxes'
  <2>1. CutBox(Hit({i})) /\ UNCHANGED <<started, doomed, closed>>
    BY <1>13 DEF Cancel, Abort, Hit
  <2>2. Hit({i}) \in SUBSET (Ids \cup {Tool}) /\ None \notin Hit({i})
    BY <1>13 DEF Running, Hit
  <2>3. \A a \in (Ids \cup {Tool}) \ Hit({i}) : work'[a] = work[a]
    BY <1>13 DEF Cancel, Abort, Settled, Hit
  <2>4. ~closed /\ doomed = None /\ call'.step = "report"
    BY <1>13 DEF Cancel, Free, NoCall
  <2>5. Unborn' => Unborn /\ boxOwner \notin Hit({i}) /\ made' = made
    BY ZenonT(60), <2>1, <2>2, <2>3, Cut DEF Unborn
  <2>6. /\ \A b \in up \ loose : b \in up' \ loose' \/ (b = made /\ Unborn /\ boxOwner \in Hit({i}))
        /\ \A b \in up' \ loose' : b \in up \ loose
        /\ boxOwner \in Hit({i}) /\ Unborn => \A b \in up' \ loose' : b # made
        /\ boxOwner \notin Hit({i}) => UNCHANGED <<boxOwner, made>>
    BY <2>1, <2>2, Cut
  <2>7. Unborn /\ boxOwner \notin Hit({i}) => Unborn' /\ made' = made
    BY SMTT(30), <2>2, <2>3, <2>6 DEF Unborn
  <2>8. Unborn' => made' \in up' \ loose' /\ made' \notin {started', doomed'}
    BY SMTT(30), <2>1, <2>5, <2>6
  <2>9. started # None => started \in up' \ loose'
    BY <2>6
  <2>10. doomed # None /\ call.step = "halt" => doomed \in up' \ loose'
    BY <2>6
  <2>11. \A b \in up' \ loose' :
            b = started \/ (b = doomed /\ call.step = "halt") \/ (b = made' /\ Unborn')
    BY <2>6, <2>7
  <2>. QED BY <2>1, <2>4, <2>8, <2>9, <2>10, <2>11
<1>14. ASSUME NEW i \in Ids, TimeOut(i)
      PROVE  Boxes'
  <2>1. CutBox({i}) /\ UNCHANGED <<started, doomed, closed>>
    BY <1>14 DEF TimeOut, Abort
  <2>2. {i} \in SUBSET (Ids \cup {Tool}) /\ None \notin {i}
    BY <1>14 DEF Running
  <2>3. \A a \in (Ids \cup {Tool}) \ {i} : work'[a] = work[a]
    BY <1>14 DEF TimeOut, Abort, Settled
  <2>4. UNCHANGED <<call, tracked>>
    BY <1>14 DEF TimeOut, Settled
  <2>5. Unborn' => Unborn /\ boxOwner \notin {i} /\ made' = made
    BY <2>1, <2>2, <2>3, Cut DEF Unborn
  <2>6. /\ \A b \in up \ loose : b \in up' \ loose' \/ (b = made /\ Unborn /\ boxOwner \in {i})
        /\ \A b \in up' \ loose' : b \in up \ loose
        /\ boxOwner \in {i} /\ Unborn => \A b \in up' \ loose' : b # made
        /\ boxOwner \notin {i} => UNCHANGED <<boxOwner, made>>
    BY <2>1, <2>2, Cut
  <2>7. Unborn /\ boxOwner \notin {i} => Unborn' /\ made' = made
    BY <2>2, <2>3, <2>6 DEF Unborn
  <2>8. Unborn' => made' \in up' \ loose' /\ made' \notin {started', doomed'}
    BY <2>1, <2>5, <2>6
  <2>9. started # None => started \in up' \ loose'
    BY <2>6
  <2>10. doomed # None /\ call.step = "halt" => doomed \in up' \ loose'
    BY <2>6
  <2>11. \A b \in up' \ loose' :
            b = started \/ (b = doomed /\ call.step = "halt") \/ (b = made' /\ Unborn')
    BY <2>6, <2>7
  <2>. QED BY <2>1, <2>4, <2>8, <2>9, <2>10, <2>11
<1>15. ASSUME NEW i \in Ids, Pass(i)
      PROVE  Boxes'
  BY <1>15 DEF Pass, subagents, server, hist, boxes, Unborn, NoCall
<1>16. ASSUME NEW i \in Ids, Apply(i)
      PROVE  Boxes'
  BY <1>16 DEF Apply, server, hist, boxes, Unborn, NoCall
<1>17. ASSUME NEW i \in Ids, LogEnd(i)
      PROVE  Boxes'
  BY <1>17 DEF LogEnd, Report, Fails, LogSubagent, subagents, hist, boxes, Unborn, NoCall
<1>18. ASSUME Close
      PROVE  Boxes'
  <2>1. CutBox(Hit(Running)) /\ UNCHANGED <<started, doomed, closed>>
    BY <1>18 DEF Close, Abort, Hit
  <2>2. Hit(Running) \in SUBSET (Ids \cup {Tool}) /\ None \notin Hit(Running)
    BY <1>18 DEF Running, Hit
  <2>3. \A a \in (Ids \cup {Tool}) \ Hit(Running) : work'[a] = work[a]
    BY <1>18 DEF Close, Abort, Settled, Hit
  <2>4. ~closed /\ doomed = None /\ call'.step = "report"
    BY <1>18 DEF Close, Free, NoCall
  <2>5. Unborn' => Unborn /\ boxOwner \notin Hit(Running) /\ made' = made
    BY <2>1, <2>2, <2>3, Cut DEF Unborn
  <2>6. /\ \A b \in up \ loose : b \in up' \ loose' \/ (b = made /\ Unborn /\ boxOwner \in Hit(Running))
        /\ \A b \in up' \ loose' : b \in up \ loose
        /\ boxOwner \in Hit(Running) /\ Unborn => \A b \in up' \ loose' : b # made
        /\ boxOwner \notin Hit(Running) => UNCHANGED <<boxOwner, made>>
    BY <2>1, <2>2, Cut
  <2>7. Unborn /\ boxOwner \notin Hit(Running) => Unborn' /\ made' = made
    BY <2>2, <2>3, <2>6 DEF Unborn
  <2>8. Unborn' => made' \in up' \ loose' /\ made' \notin {started', doomed'}
    BY <2>1, <2>5, <2>6
  <2>9. started # None => started \in up' \ loose'
    BY <2>6
  <2>10. doomed # None /\ call.step = "halt" => doomed \in up' \ loose'
    BY <2>6
  <2>11. \A b \in up' \ loose' :
            b = started \/ (b = doomed /\ call.step = "halt") \/ (b = made' /\ Unborn')
    BY <2>6, <2>7
  <2>. QED BY <2>1, <2>4, <2>8, <2>9, <2>10, <2>11
<1>19. ASSUME ExecLocal
      PROVE  Boxes'
  BY <1>19 DEF ExecLocal, Free, subagents, server, hist, boxes, Unborn, NoCall
<1>20. ASSUME ToolFails
      PROVE  Boxes'
  BY <1>20 DEF ToolFails, Fails, LogBox, Settled, hist, boxes, Unborn, NoCall
<1>21. ASSUME Drop
      PROVE  Boxes'
  <2>1. UNCHANGED <<started, closed, tracked>> /\ call' = NoCall /\ doomed' = None /\ ~closed
    BY <1>21 DEF Drop, subagents
  <2>2. CASE call.op = "exec"
    <3>1. CutBox({Tool}) /\ \A a \in Ids : work'[a] = work[a]
      BY <1>21, <2>2 DEF Drop
    <3>2. call.step = "none" /\ doomed = None
      BY <2>2
    <3>3. /\ \A b \in up \ loose : b \in up' \ loose' \/ (b = made /\ Unborn /\ boxOwner = Tool)
          /\ \A b \in up' \ loose' : b \in up \ loose
          /\ boxOwner = Tool /\ Unborn => \A b \in up' \ loose' : b # made
          /\ boxOwner # Tool => UNCHANGED <<boxOwner, made>>
          /\ boxOwner = Tool => boxOwner' = None
      BY <3>1, Cut
    <3>4. Unborn' <=> Unborn /\ boxOwner # Tool
      BY <3>1, <3>3 DEF Unborn
    <3>5. Unborn' => made' \in up' \ loose' /\ made' \notin {started', doomed'}
      BY <2>1, <3>3, <3>4
    <3>6. started # None => started \in up' \ loose'
      BY <3>3
    <3>7. \A b \in up' \ loose' : b = started \/ (b = made' /\ Unborn')
      BY <3>2, <3>3, <3>4
    <3>. QED BY <2>1, <3>5, <3>6, <3>7
  <2>3. CASE call.op # "exec"
    <3>1. loose' = loose \cup ({doomed} \cap up) /\ UNCHANGED <<boxOwner, up, made, work>>
      BY <1>21, <2>3 DEF Drop
    <3>2. Unborn' <=> Unborn
      BY <3>1 DEF Unborn
    <3>. QED BY <2>1, <3>1, <3>2
  <2>. QED BY <2>2, <2>3
<1>22. ASSUME NEW a \in Ids \cup {Tool}, UseBox(a)
      PROVE  Boxes'
  BY <1>22 DEF UseBox, subagents, server, hist, Unborn, NoCall
<1>23. ASSUME NEW a \in Ids \cup {Tool}, CreateBox(a)
      PROVE  Boxes'
  <2>1. /\ UNCHANGED <<tracked, closed, started, doomed, loose>> /\ call' \in {call, NoCall}
        /\ a = boxOwner /\ a # None /\ ~Unborn /\ work[a] = "create"
    BY <1>23 DEF CreateBox, Settled, server, Unborn
  <2>2. call' = NoCall /\ call # NoCall => call.op = "exec" /\ doomed = None
    BY <1>23, <2>1 DEF CreateBox, Settled
  <2>3. closed => FALSE
    BY <2>1, Nobody DEF Busy
  <2>4. CASE RunBox /\ work' = [work EXCEPT ![a] = "report"] /\ UNCHANGED <<call, boxOwner>>
    <3>1. /\ made' = made + 1 /\ up' = up \cup {made'} /\ Unborn' /\ made' \notin 1 .. made
      BY <2>1, <2>4 DEF RunBox, Unborn
    <3>. QED BY <2>1, <2>3, <2>4, <3>1
  <2>5. CASE boxOwner' = None /\ UNCHANGED <<made, up>>
    <3>1. ~Unborn'
      BY <2>5 DEF Unborn
    <3>. QED BY <2>1, <2>2, <2>3, <2>5, <3>1
  <2>. QED BY <1>23, <2>4, <2>5 DEF CreateBox
<1>24. ASSUME NEW a \in Ids \cup {Tool}, InsertBox(a)
      PROVE  Boxes'
  <2>1. /\ UNCHANGED <<tracked, closed, call, doomed, up, made, loose>>
        /\ started' = made /\ boxOwner' = None /\ work[a] = "report" /\ a = boxOwner
    BY <1>24 DEF InsertBox, subagents
  <2>2. Unborn /\ ~Unborn' /\ a # None
    BY <2>1 DEF Unborn
  <2>3. started = None
    BY <2>1, <2>2
  <2>4. tracked # {} \/ call.op = "exec"
    BY <2>1, Nobody DEF Busy
  <2>5. ~closed /\ call.step \notin {"drain", "halt", "note", "delete"}
    BY <2>4 DEF Offer, NoCall
  <2>. QED BY <2>1, <2>2, <2>3, <2>5
<1>25. ASSUME NEW a \in Ids \cup {Tool}, Finish(a)
      PROVE  Boxes'
  BY <1>25 DEF Finish, Settled, server, hist, boxes, Unborn, NoCall
<1>26. CASE UNCHANGED vars
  BY <1>26 DEF vars, subagents, server, boxes, hist, Unborn
<1>. QED
  BY <1>1, <1>2, <1>3, <1>4, <1>5, <1>6, <1>7, <1>8, <1>9, <1>10, <1>11, <1>12, <1>13, <1>14,
     <1>15, <1>16, <1>17, <1>18, <1>19, <1>20, <1>21, <1>22, <1>23, <1>24, <1>25, <1>26, Kinds

\* A container with one more event.
LEMMA BoxSpeaks ==
  ASSUME BoxEventTypes, NEW b \in 1 .. MaxBoxes, NEW what \in {"running", "stopped", "error"},
         boxEvents' = [boxEvents EXCEPT ![b] = Append(boxEvents[b], what)]
  PROVE  /\ \A c \in (1 .. MaxBoxes) \ {b} : boxEvents'[c] = boxEvents[c]
         /\ Len(boxEvents'[b]) = Len(boxEvents[b]) + 1 /\ Len(boxEvents[b]) \in Nat
         /\ DOMAIN boxEvents[b] = 1 .. Len(boxEvents[b])
         /\ DOMAIN boxEvents'[b] = 1 .. Len(boxEvents[b]) + 1
         /\ boxEvents'[b][Len(boxEvents[b]) + 1] = what
         /\ \A j \in DOMAIN boxEvents[b] : boxEvents'[b][j] = boxEvents[b][j]
<1>1. boxEvents[b] \in Seq({"running", "stopped", "error"})
  BY DEF BoxEventTypes
<1>2. boxEvents'[b] = Append(boxEvents[b], what) /\ \A c \in (1 .. MaxBoxes) \ {b} : boxEvents'[c] = boxEvents[c]
  BY DEF BoxEventTypes
<1>. QED BY <1>1, <1>2

\* A container's log stays in order when its last word is the newest and true.
LEMMA BoxLifeStep ==
  ASSUME BoxEventTypes, BoxTypes, Inv, NEW b \in 1 .. made, NEW what \in {"running", "stopped", "error"},
         boxEvents' = [boxEvents EXCEPT ![b] = Append(boxEvents[b], what)],
         UNCHANGED made, up' \subseteq up, doomed' \in {doomed, None}, Unborn' => Unborn,
         b # made \/ ~Unborn',
         what = "running" => boxEvents[b] = <<>>,
         what = "stopped" => b \notin up' /\ b # doomed',
         b \in up \/ b = doomed
  PROVE  BoxLives'
<1>. USE LocalAssumption
<1>1. b \in 1 .. MaxBoxes /\ made \in Nat
  BY DEF BoxTypes
<1>2. \A c \in (1 .. MaxBoxes) \ {b} : BoxLife(c)'
  <2>1. \A c \in (1 .. MaxBoxes) \ {b} : boxEvents'[c] = boxEvents[c]
    BY <1>1, BoxSpeaks
  <2>. QED BY <2>1 DEF Inv, BoxLives, BoxLife
<1>3. \A j \in DOMAIN boxEvents[b] : boxEvents[b][j] # "stopped"
  BY <1>1 DEF Inv, BoxLives, BoxLife
<1>4. what = "running" => Len(boxEvents[b]) = 0
  OBVIOUS
<1>5. BoxLife(b)'
  <2>1. /\ Len(boxEvents'[b]) = Len(boxEvents[b]) + 1 /\ Len(boxEvents[b]) \in Nat
        /\ DOMAIN boxEvents[b] = 1 .. Len(boxEvents[b])
        /\ DOMAIN boxEvents'[b] = 1 .. Len(boxEvents[b]) + 1
        /\ boxEvents'[b][Len(boxEvents[b]) + 1] = what
        /\ \A j \in DOMAIN boxEvents[b] : boxEvents'[b][j] = boxEvents[b][j]
    BY <1>1, BoxSpeaks
  <2>2. \A j \in DOMAIN boxEvents[b] : boxEvents[b][j] = "running" => j = 1
    BY <1>1 DEF Inv, BoxLives, BoxLife
  <2>3. ASSUME NEW j \in DOMAIN boxEvents'[b]
        PROVE  /\ boxEvents'[b][j] = "running" => j = 1
               /\ boxEvents'[b][j] = "stopped" => j = Len(boxEvents'[b]) /\ b \notin up' /\ b # doomed'
    <3>1. CASE j \in DOMAIN boxEvents[b]
      BY <1>3, <2>1, <2>2, <3>1
    <3>2. CASE j = Len(boxEvents[b]) + 1
      BY <1>4, <2>1, <3>2
    <3>. QED BY <2>1, <3>1, <3>2
  <2>4. ~(b > made)' /\ ~(b = made /\ Unborn)'
    BY <1>1
  <2>. QED BY <2>3, <2>4 DEF BoxLife
<1>. QED BY <1>2, <1>5 DEF BoxLives

\* A container says running first, and stopped last and truly.
LEMMA BoxLivesStep ==
  ASSUME Inv, [Next]_vars
  PROVE  BoxLives'
<1>. USE LocalAssumption DEF Inv, Types, SubTypes, BoxTypes, BoxEventTypes, Lock
<1>0. ASSUME UNCHANGED <<boxEvents, made>>, up' \subseteq up, doomed' \in {doomed, None}, Unborn' => Unborn
      PROVE  BoxLives'
  BY <1>0, <1>0 DEF BoxLives, BoxLife
<1>b. ASSUME NEW gone \in SUBSET (Ids \cup {Tool}), CutBox(gone), doomed' \in {doomed, None},
             \A a \in (Ids \cup {Tool}) \ gone : work'[a] = work[a]
      PROVE  BoxLives'
  <2>1. Unborn' => Unborn /\ boxOwner \notin gone
    BY <1>b, Cut DEF Unborn
  <2>2. CASE boxOwner \notin gone
    BY <1>0, <1>b, <2>1, <2>2, Cut
  <2>3. CASE boxOwner \in gone /\ UNCHANGED boxEvents
    <3>1. made' >= made /\ made' \in Nat /\ made \in Nat /\ ~Unborn'
      BY <1>b, <2>1, <2>3, Cut
    <3>2. \A b \in 1 .. made : b \in up' => b \in up
      BY <1>b, <2>3 DEF CutBox, RunBox
    <3>3. ASSUME NEW b \in 1 .. MaxBoxes
          PROVE  BoxLife(b)'
      <4>1. CASE b \in 1 .. made
        BY <1>b, <2>3, <3>1, <3>2, <4>1 DEF BoxLives, BoxLife
      <4>2. CASE b > made
        <5>1. boxEvents'[b] = <<>>
          BY <2>3, <4>2 DEF BoxLives, BoxLife
        <5>. QED BY <5>1 DEF BoxLife
      <4>. QED BY <3>1, <4>1, <4>2
    <3>. QED BY <3>3 DEF BoxLives
  <2>4. CASE /\ boxOwner \in gone /\ Unborn /\ made' = made /\ up' = up
             /\ boxEvents' = [boxEvents EXCEPT ![made] = Append(boxEvents[made], "running")]
    <3>1. made \in 1 .. made /\ made \in up /\ boxEvents[made] = <<>>
      BY <2>4 DEF Boxes, BoxLives, BoxLife
    <3>. QED BY <1>b, <2>1, <2>4, <3>1, BoxLifeStep
  <2>. QED BY <1>b, <2>2, <2>3, <2>4, Cut
<1>1. ASSUME NEW i \in Ids, LogStart(i)
      PROVE  BoxLives'
  <2>1. /\ UNCHANGED <<boxes, boxEvents>> /\ work[i] = "none"
        /\ \A a \in (Ids \cup {Tool}) \ {i} : work'[a] = work[a]
    BY <1>1 DEF LogStart, Report, Launching
  <2>2. Unborn' <=> Unborn
    <3>1. boxOwner # i /\ boxOwner \in Ids \cup {Tool, None}
      BY <2>1
    <3>. QED BY <2>1, <3>1 DEF Unborn, boxes
  <2>. QED BY <1>0, <2>1, <2>2 DEF boxes
<1>2. ASSUME NEW i \in Ids, LogRunning(i)
      PROVE  BoxLives'
  BY <1>2, <1>0 DEF LogRunning, Report, Fails, LogSubagent, subagents, hist, boxes, Unborn
<1>3. ASSUME NEW i \in Ids, Return(i)
      PROVE  BoxLives'
  BY <1>3, <1>0 DEF Return, Sync, UpdateTools, Fails, boxes, Unborn
<1>4. ASSUME NEW i \in Ids, LogCancel(i)
      PROVE  BoxLives'
  BY <1>4, <1>0 DEF LogCancel, Report, Fails, LogSubagent, subagents, hist, boxes, Unborn
<1>5. ASSUME Retire
      PROVE  BoxLives'
  BY <1>5, <1>0 DEF Retire, Sync, UpdateTools, Fails, subagents, boxes, Unborn
<1>6. ASSUME RetireAtClose
      PROVE  BoxLives'
  BY <1>6, <1>0 DEF RetireAtClose, Sync, UpdateTools, Fails, subagents, boxes, Unborn
<1>7. ASSUME Drain
      PROVE  BoxLives'
  <2>1. UNCHANGED <<boxEvents, made, up, work, boxOwner>> /\ doomed' = started
    BY <1>7 DEF Drain, server
  <2>2. Unborn' <=> Unborn
    BY <2>1 DEF Unborn
  <2>3. started # None => started \in up
    BY DEF Boxes
  <2>. QED BY <2>1, <2>2, <2>3 DEF BoxLives, BoxLife
<1>8. ASSUME Halt
      PROVE  BoxLives'
  BY <1>8, <1>0 DEF Halt, StopBox, Fails, subagents, server, Unborn
<1>9. ASSUME LogHalt
      PROVE  BoxLives'
  <2>1. UNCHANGED <<boxOwner, made, up, work>> /\ doomed' = None
    BY <1>9 DEF LogHalt
  <2>2. Unborn' <=> Unborn
    BY <2>1 DEF Unborn
  <2>3. CASE UNCHANGED boxEvents
    BY <1>0, <2>1, <2>2, <2>3
  <2>4. CASE LogBox(doomed, IF doomed \in up THEN "error" ELSE "stopped")
    <3>1. CASE doomed = None
      <4>1. UNCHANGED boxEvents
        BY <2>4, <3>1 DEF LogBox, BoxEventTypes
      <4>. QED BY <2>3, <4>1
    <3>2. CASE doomed \in 1 .. made
      <4>1. ~(doomed = made /\ Unborn)
        BY DEF Boxes
      <4>2. PICK w \in {"error", "stopped"} :
              /\ boxEvents' = [boxEvents EXCEPT ![doomed] = Append(boxEvents[doomed], w)]
              /\ w = "stopped" => doomed \notin up
        BY <2>4 DEF LogBox
      <4>3. /\ UNCHANGED made /\ up' \subseteq up /\ doomed' \in {doomed, None} /\ (Unborn' => Unborn)
            /\ doomed # made \/ ~Unborn'
        BY <2>1, <2>2, <4>1
      <4>4. w = "stopped" => doomed \notin up' /\ doomed # doomed'
        BY <2>1, <3>2, <4>2
      <4>5. w \in {"running", "stopped", "error"} /\ w # "running"
        BY <4>2
      <4>. QED BY <3>2, <4>2, <4>3, <4>4, <4>5, BoxLifeStep
    <3>. QED BY <3>1, <3>2
  <2>. QED BY <1>9, <2>3, <2>4 DEF LogHalt, ReportBox
<1>10. ASSUME Delete
      PROVE  BoxLives'
  BY <1>10, <1>0 DEF Delete, Fails, subagents, hist, boxes, Unborn
<1>11. ASSUME NEW i \in Ids, Launch(i)
      PROVE  BoxLives'
  BY <1>11, <1>0 DEF Launch, Free, server, hist, boxes, Unborn
<1>12. ASSUME NEW ids \in SUBSET tracked, Status(ids)
      PROVE  BoxLives'
  BY <1>12, <1>0 DEF Status, Free, server, boxes, Unborn
<1>13. ASSUME NEW i \in Ids, Cancel(i)
      PROVE  BoxLives'
  <2>1. CutBox(Hit({i})) /\ UNCHANGED doomed
    BY <1>13 DEF Cancel, Abort, Hit
  <2>2. Hit({i}) \in SUBSET (Ids \cup {Tool})
    BY <1>13 DEF Running, Hit
  <2>3. \A a \in (Ids \cup {Tool}) \ Hit({i}) : work'[a] = work[a]
    BY <1>13 DEF Cancel, Abort, Settled, Hit
  <2>. QED BY <1>b, <2>1, <2>2, <2>3
<1>14. ASSUME NEW i \in Ids, TimeOut(i)
      PROVE  BoxLives'
  <2>1. CutBox({i}) /\ UNCHANGED doomed
    BY <1>14 DEF TimeOut, Abort
  <2>2. {i} \in SUBSET (Ids \cup {Tool})
    BY <1>14 DEF Running
  <2>3. \A a \in (Ids \cup {Tool}) \ {i} : work'[a] = work[a]
    BY <1>14 DEF TimeOut, Abort, Settled
  <2>. QED BY <1>b, <2>1, <2>2, <2>3
<1>15. ASSUME NEW i \in Ids, Pass(i)
      PROVE  BoxLives'
  BY <1>15, <1>0 DEF Pass, subagents, server, hist, boxes, Unborn
<1>16. ASSUME NEW i \in Ids, Apply(i)
      PROVE  BoxLives'
  BY <1>16, <1>0 DEF Apply, server, hist, boxes, Unborn
<1>17. ASSUME NEW i \in Ids, LogEnd(i)
      PROVE  BoxLives'
  BY <1>17, <1>0 DEF LogEnd, Report, Fails, LogSubagent, subagents, hist, boxes, Unborn
<1>18. ASSUME Close
      PROVE  BoxLives'
  <2>1. CutBox(Hit(Running)) /\ UNCHANGED doomed
    BY <1>18 DEF Close, Abort, Hit
  <2>2. Hit(Running) \in SUBSET (Ids \cup {Tool})
    BY <1>18 DEF Running, Hit
  <2>3. \A a \in (Ids \cup {Tool}) \ Hit(Running) : work'[a] = work[a]
    BY <1>18 DEF Close, Abort, Settled, Hit
  <2>. QED BY <1>b, <2>1, <2>2, <2>3
<1>19. ASSUME ExecLocal
      PROVE  BoxLives'
  BY <1>19, <1>0 DEF ExecLocal, Free, subagents, server, hist, boxes, Unborn
<1>20. ASSUME ToolFails
      PROVE  BoxLives'
  <2>1. /\ UNCHANGED boxes /\ started \in 1 .. made /\ started \in up
        /\ ~(started = made /\ Unborn)
    BY <1>20 DEF ToolFails, Boxes
  <2>2. work' = [work EXCEPT ![Tool] = "none"]
    BY <1>20 DEF ToolFails, Settled
  <2>3. Unborn' => Unborn
    BY <2>1, <2>2 DEF Unborn, boxes
  <2>4. boxEvents' = [boxEvents EXCEPT ![started] = Append(boxEvents[started], "error")]
    BY <1>20 DEF ToolFails, LogBox
  <2>. QED BY <2>1, <2>3, <2>4, BoxLifeStep DEF boxes
<1>21. ASSUME Drop
      PROVE  BoxLives'
  <2>1. doomed' = None
    BY <1>21 DEF Drop
  <2>2. CASE call.op = "exec"
    <3>1. CutBox({Tool}) /\ \A a \in (Ids \cup {Tool}) \ {Tool} : work'[a] = work[a]
      BY <1>21, <2>2 DEF Drop
    <3>. QED BY <1>b, <2>1, <3>1
  <2>3. CASE call.op # "exec"
    BY <1>21, <1>0, <2>1, <2>3 DEF Drop, Unborn
  <2>. QED BY <2>2, <2>3
<1>22. ASSUME NEW a \in Ids \cup {Tool}, UseBox(a)
      PROVE  BoxLives'
  BY <1>22, <1>0 DEF UseBox, subagents, server, hist, Unborn
<1>23. ASSUME NEW a \in Ids \cup {Tool}, CreateBox(a)
      PROVE  BoxLives'
  <2>1. UNCHANGED <<boxEvents, doomed>> /\ boxOwner = a /\ work[a] = "create" /\ ~Unborn
    BY <1>23 DEF CreateBox, server, Unborn
  <2>2. CASE RunBox /\ work' = [work EXCEPT ![a] = "report"]
    <3>1. made' = made + 1 /\ up' = up \cup {made'} /\ made \in Nat
      BY <2>2 DEF RunBox
    <3>2. ASSUME NEW b \in 1 .. MaxBoxes
          PROVE  BoxLife(b)'
      <4>1. CASE b \in 1 .. made
        BY <2>1, <3>1, <4>1 DEF BoxLives, BoxLife
      <4>2. CASE b > made
        <5>1. boxEvents'[b] = <<>>
          BY <2>1, <4>2 DEF BoxLives, BoxLife
        <5>. QED BY <5>1 DEF BoxLife
      <4>. QED BY <3>1, <4>1, <4>2
    <3>. QED BY <3>2 DEF BoxLives
  <2>3. CASE boxOwner' = None /\ UNCHANGED <<made, up>>
    <3>1. ~Unborn'
      BY <2>3 DEF Unborn
    <3>. QED BY <1>0, <2>1, <2>3, <3>1
  <2>. QED BY <1>23, <2>2, <2>3 DEF CreateBox
<1>24. ASSUME NEW a \in Ids \cup {Tool}, InsertBox(a)
      PROVE  BoxLives'
  <2>1. /\ UNCHANGED <<doomed, up, made>> /\ Unborn /\ ~Unborn' /\ ReportBox(made, "running")
    BY <1>24 DEF InsertBox, Unborn
  <2>2. made \in 1 .. made /\ made \in up /\ boxEvents[made] = <<>>
    BY <2>1 DEF Boxes, BoxLives, BoxLife
  <2>3. \/ UNCHANGED boxEvents
        \/ boxEvents' = [boxEvents EXCEPT ![made] = Append(boxEvents[made], "running")]
    BY <2>1 DEF ReportBox, LogBox
  <2>4. CASE UNCHANGED boxEvents
    BY <1>0, <2>1, <2>4
  <2>5. CASE boxEvents' = [boxEvents EXCEPT ![made] = Append(boxEvents[made], "running")]
    BY <2>1, <2>2, <2>5, BoxLifeStep
  <2>. QED BY <2>3, <2>4, <2>5
<1>25. ASSUME NEW a \in Ids \cup {Tool}, Finish(a)
      PROVE  BoxLives'
  BY <1>25, <1>0 DEF Finish, Settled, server, hist, boxes, Unborn
<1>26. CASE UNCHANGED vars
  BY <1>26, <1>0 DEF vars, server, boxes, Unborn
<1>. QED
  BY <1>1, <1>2, <1>3, <1>4, <1>5, <1>6, <1>7, <1>8, <1>9, <1>10, <1>11, <1>12, <1>13, <1>14,
     <1>15, <1>16, <1>17, <1>18, <1>19, <1>20, <1>21, <1>22, <1>23, <1>24, <1>25, <1>26, Kinds

-----------------------------------------------------------------------------
LEMMA InitInv ==
  ASSUME Init
  PROVE  Inv
<1>. USE LocalAssumption DEF Init, NoCall
<1>1. CallType /\ SubTypes /\ HistTypes /\ ServerTypes
  <2>1. CallType
    BY DEF CallType
  <2>2. SubTypes
    BY DEF SubTypes
  <2>3. HistTypes
    BY DEF HistTypes
  <2>4. ServerTypes
    <3>1. MaxFaults \in Nat /\ faults = 0
      OBVIOUS
    <3>2. faults \in 0 .. MaxFaults
      BY <3>1
    <3>. QED BY <3>2 DEF ServerTypes
  <2>. QED BY <2>1, <2>2, <2>3, <2>4
<1>2. EventTypes /\ BoxEventTypes /\ BoxTypes
  <2>1. events \in [Ids -> Seq({"start", "running"} \cup Ends)]
    <3>1. <<>> \in Seq({"start", "running"} \cup Ends)
      OBVIOUS
    <3>. QED BY <3>1
  <2>2. boxEvents \in [1 .. MaxBoxes -> Seq({"running", "stopped", "error"})]
    <3>1. <<>> \in Seq({"running", "stopped", "error"})
      OBVIOUS
    <3>. QED BY <3>1
  <2>. QED BY <2>1, <2>2 DEF EventTypes, BoxEventTypes, BoxTypes
<1>3. Shape /\ Offer /\ Launching /\ Cancelling
  BY DEF Shape, Offer, Launching, Cancelling
<1>4. Tasks
  BY DEF Tasks, Task, Busy
<1>5. Lives
  BY DEF Lives, Life, InOrder, Told
<1>6. Lock /\ Boxes
  BY DEF Lock, Boxes, Unborn, Busy
<1>7. BoxLives
  BY DEF BoxLives, BoxLife
<1>. QED BY <1>1, <1>2, <1>3, <1>4, <1>5, <1>6, <1>7 DEF Inv, Types

\* The invariant is inductive.
LEMMA NextInv ==
  ASSUME Inv, [Next]_vars
  PROVE  Inv'
<1>1. Types'
  BY CallTypeStep, SubTypesStep, HistTypesStep, ServerTypesStep, EventTypesStep,
     BoxEventTypesStep,
     BoxTypesStep DEF Types
<1>. QED BY <1>1, ShapeStep, OfferStep, LaunchingStep, CancellingStep, TasksStep, LivesStep, LockStep,
            BoxesStep, BoxLivesStep DEF Inv

THEOREM Invariant == Spec => []Inv
<1>1. Init => Inv
  BY InitInv
<1>2. Inv /\ [Next]_vars => Inv'
  BY NextInv
<1>. QED BY <1>1, <1>2, PTL DEF Spec

-----------------------------------------------------------------------------
(* What follows from it.                                                   *)

\* The type invariant of the harness's subagents and sandboxes.
THEOREM LocalTypes == Spec => []TypeOK
<1>1. Inv => TypeOK
  BY DEF Inv, Types, CallType, SubTypes, HistTypes, ServerTypes, EventTypes, BoxEventTypes,
     BoxTypes, TypeOK
<1>. QED BY <1>1, Invariant, PTL

\* The log tells the life of every subagent and of every container in its
\* order, and the model is told an end once at most, whichever of a detached
\* task, a cancel and a close reports it, and whatever is dropped or lost.
THEOREM ReportsInOrder == Spec => []ReportOrder
<1>1. ASSUME Inv
      PROVE  ReportOrder
  <2>1. ASSUME NEW i \in Ids
        PROVE  /\ \A j, k \in 1 .. Len(events[i]) : j < k => Place(events[i][j]) < Place(events[i][k])
               /\ delivered[i] <= 1
    <3>1. DOMAIN events[i] = 1 .. Len(events[i])
      BY <1>1 DEF Inv, Types, EventTypes
    <3>2. InOrder(i) /\ delivered[i] <= 1
      BY <1>1 DEF Inv, Lives, Life, Tasks, Task
    <3>. QED BY <3>1, <3>2 DEF InOrder
  <2>2. ASSUME NEW b \in 1 .. made, NEW j \in DOMAIN boxEvents[b]
        PROVE  /\ boxEvents[b][j] = "running" => j = 1
               /\ boxEvents[b][j] = "stopped" => j = Len(boxEvents[b]) /\ b \notin up
    <3>1. b \in 1 .. MaxBoxes
      BY <1>1, LocalAssumption DEF Inv, Types, BoxTypes
    <3>. QED BY <1>1, <3>1 DEF Inv, BoxLives, BoxLife
  <2>. QED BY <2>1, <2>2 DEF ReportOrder
<1>2. Inv => ReportOrder
  BY <1>1
<1>. QED BY <1>2, Invariant, PTL

\* Between two calls the model is offered the status tool if and only if
\* something is tracked, unless the last word on it was lost.
THEOREM OfferMatches == Spec => []AdvertisedWhenTracked
<1>1. Inv => AdvertisedWhenTracked
  BY DEF Inv, Offer, AdvertisedWhenTracked, NoCall
<1>. QED BY <1>1, Invariant, PTL

\* A closed session leaves no container but those whose start was cut off,
\* or whose stop failed or was dropped.
THEOREM CloseStops == Spec => []CloseStopsEveryBox
<1>1. ASSUME Inv, closed
      PROVE  up = loose
  <2>1. call = NoCall /\ tracked = {} /\ started = None
    BY <1>1 DEF Inv, Boxes
  <2>2. \A a \in Ids \cup {Tool} : work[a] \notin Busy
    BY <1>1, <2>1, Nobody DEF Inv, Types, NoCall
  <2>3. ~Unborn
    BY <1>1, <2>2, LocalAssumption DEF Inv, Types, BoxTypes, Unborn, Busy
  <2>4. call.step # "halt"
    BY <2>1 DEF NoCall
  <2>5. up \ loose = {}
    BY <1>1, <2>1, <2>3, <2>4, LocalAssumption DEF Inv, Types, BoxTypes, Boxes
  <2>. QED BY <1>1, <2>5 DEF Inv, Types, BoxTypes
<1>2. Inv => CloseStopsEveryBox
  BY <1>1 DEF CloseStopsEveryBox
<1>. QED BY <1>2, Invariant, PTL
=============================================================================
