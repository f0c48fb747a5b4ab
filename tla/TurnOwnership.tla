--------------------------- MODULE TurnOwnership ----------------------------
(***************************************************************************)
(* What the turn gate of a session promises its drivers, without mutexes,  *)
(* queues or requests: one logical turn at a time, begun on an open        *)
(* session only, kept by its owner through a pause, and taken over by      *)
(* somebody else only after the owner let the deadline pass.  TurnGate     *)
(* implements it (docs/reference/01-wire-protocol.md, "The                 *)
(* single-active-message mutex").                                          *)
(***************************************************************************)

CONSTANTS Clients, None

VARIABLES
  sess,  \* "open", "closed" or "error"
  turn   \* the logical turn: its phase, its owner, whether its pause lapsed

Turn == [phase: {"running", "paused"}, owner: Clients, lapsed: BOOLEAN]

Running(c) == [phase |-> "running", owner |-> c, lapsed |-> FALSE]
Paused(c)  == [phase |-> "paused", owner |-> c, lapsed |-> FALSE]
Lapsed(c)  == [phase |-> "paused", owner |-> c, lapsed |-> TRUE]

Init == sess = "open" /\ turn = None

\* A session ends once, as closed or in error.
SessionStep == sess' = sess \/ (sess = "open" /\ sess' \in {"closed", "error"})

Begin(c) ==
  /\ turn = None /\ sess = "open"
  /\ turn' = Running(c)
  /\ UNCHANGED sess

Pause ==
  /\ turn # None /\ turn.phase = "running"
  /\ turn' = Paused(turn.owner)
  /\ UNCHANGED sess

Lapse ==
  /\ turn # None /\ turn.phase = "paused"
  /\ turn' = Lapsed(turn.owner)
  /\ UNCHANGED sess

\* The owner resumes its paused turn; after the deadline anybody may take it.
Continue(c) ==
  /\ turn # None /\ turn.phase = "paused"
  /\ turn.owner = c \/ turn.lapsed
  /\ turn' = Running(c)
  /\ UNCHANGED sess

\* A turn ends by itself, with the session (a close drops a parked one), or
\* with the server.
End == turn # None /\ turn' = None /\ SessionStep

Terminate == SessionStep /\ UNCHANGED turn

Next ==
  \/ \E c \in Clients : Begin(c) \/ Continue(c)
  \/ Pause \/ Lapse \/ End \/ Terminate

Spec == Init /\ [][Next]_<<sess, turn>>
=============================================================================
