-------------------------- MODULE TurnGate_proofs ---------------------------
(***************************************************************************)
(* Proofs about TurnGate, for every set of clients, requests and close     *)
(* requests, any number of restarts, with or without disconnects.          *)
(*                                                                         *)
(* Mutual exclusion does not follow from the mutex alone: a close drops    *)
(* the mutex from turn_gates and the next request creates another one, so  *)
(* two mutexes of the same session can be locked at once.  The argument    *)
(* goes through the session's state: while the session is open there is    *)
(* one mutex (SingleGate), a second one can only exist once it is          *)
(* terminal, and a request that gets a guard then never becomes Working.   *)
(*                                                                         *)
(* The last section is about the Sessions of Harness over that gate.  Only *)
(* there are requests numbered and the assumptions of Harness used.        *)
(***************************************************************************)
EXTENDS Harness, WellFoundedInduction, TLAPS

\* The request has a mutex: it polls for it, waits for it or holds it.
Bound(r) == pc[r] \in {"polling", "queued", "entered", "admitted", "turn", "paused"}

\* Every mutex in use has been created.
GatesCreated ==
  /\ \A r \in Reqs : Bound(r) => gate[r] \in 1 .. gates
  /\ pending # None => pending.gate \in 1 .. gates

\* An open session has one mutex, the one in turn_gates.
SingleGate ==
  sess = "open" =>
    /\ \A r \in Reqs : Bound(r) => gate[r] = gateEntry
    /\ pending # None => pending.gate = gateEntry

\* A mutex has one guard, in a request or in pending_turns.
Exclusive ==
  /\ \A r, q \in Reqs : Holding(r) /\ Holding(q) /\ gate[r] = gate[q] => r = q
  /\ pending # None => \A r \in Reqs : Holding(r) => gate[r] # pending.gate

\* A close has ended the session before it clears the runtime maps.
ClosedFirst ==
  \A d \in Closers : closing[d] \in {"drivers", "gate", "pending"} => sess # "open"

\* A call knows its message; it takes a pause over with the guard, not before.
CallsSane ==
  \A r \in Reqs :
    /\ pc[r] # "idle" => msg[r] \in Message
    /\ pc[r] \in {"idle", "accepted", "enqueuing", "polling", "queued"} => claim[r] = None

IInv ==
  /\ TypeOK /\ GatesCreated /\ SingleGate /\ Exclusive /\ ClosedFirst /\ CallsSane
  /\ OneLogicalTurn

-----------------------------------------------------------------------------

\* The types of what TakeOver moves.
LEMMA TakeOverTypes ==
  ASSUME TypeOK, NEW r \in Reqs, NEW t \in BOOLEAN, pending # None, TakeOver(r, t)
  PROVE  /\ pending' \in Pause \cup {None}
         /\ pc' \in [Reqs -> {"idle", "accepted", "enqueuing", "polling", "queued",
                            "entered", "admitted", "turn", "paused", "done", "gone"}]
         /\ gate' \in [Reqs -> Nat]
         /\ claim' \in [Reqs -> Claim \cup {None}]
<1>1. pending \in Pause
  BY DEF TypeOK
<1>2. pending.gate \in Nat /\ pending.call \in Reqs
  BY <1>1 DEF Pause
<1>3. [call |-> pending.call, timedOut |-> t] \in Claim
  BY <1>2 DEF Claim
<1>. QED
  BY <1>2, <1>3 DEF TakeOver, TypeOK

\* Every step keeps the types.
LEMMA TypeOKStep ==
  ASSUME IInv, [Next]_vars
  PROVE  TypeOK'
<1>. USE DEF IInv, TypeOK, CallsSane
<1>1. ASSUME NEW c \in Clients, RegisterDriver(c)
      PROVE  TypeOK'
  BY <1>1 DEF RegisterDriver
<1>2. ASSUME NEW c \in Clients, InsertDriver(c)
      PROVE  TypeOK'
  BY <1>2 DEF InsertDriver
<1>3. ASSUME NEW r \in Reqs, NEW m \in Message, Accept(r, m)
      PROVE  TypeOK'
  BY <1>3 DEF Accept
<1>4. ASSUME NEW r \in Reqs, ClaimPause(r)
      PROVE  TypeOK'
  <2>1. ASSUME NEW t \in BOOLEAN, pending # None, TakeOver(r, t)
        PROVE  /\ pending' \in Pause \cup {None}
               /\ pc' \in [Reqs -> {"idle", "accepted", "enqueuing", "polling", "queued",
                                  "entered", "admitted", "turn", "paused", "done", "gone"}]
               /\ gate' \in [Reqs -> Nat]
               /\ claim' \in [Reqs -> Claim \cup {None}]
    BY <2>1, TakeOverTypes
  <2>. QED
    BY <1>4, <2>1 DEF ClaimPause, MayResume, MayRetire
<1>5. ASSUME NEW r \in Reqs, Enqueue(r)
      PROVE  TypeOK'
  BY <1>5 DEF Enqueue, OpenGate
<1>6. ASSUME NEW r \in Reqs, Grant(r)
      PROVE  TypeOK'
  BY <1>6 DEF Grant
<1>7. ASSUME NEW r \in Reqs, StartCompact(r)
      PROVE  TypeOK'
  BY <1>7 DEF StartCompact, OpenGate
<1>8. ASSUME NEW r \in Reqs, PollPause(r)
      PROVE  TypeOK'
  <2>1. CASE MayRetire(r) /\ TakeOver(r, TRUE) /\ UNCHANGED <<ticket, lastTicket>>
    <3>. pending # None
      BY <2>1 DEF MayRetire
    <3>. QED BY <1>8, <2>1, TakeOverTypes DEF PollPause
  <2>2. CASE /\ pc' = [pc EXCEPT ![r] = "done"]
             /\ UNCHANGED <<pending, gate, claim, ticket, lastTicket>>
    BY <1>8, <2>2 DEF PollPause
  <2>3. CASE /\ pc' = [pc EXCEPT ![r] = "queued"]
             /\ lastTicket' = lastTicket + 1
             /\ ticket' = [ticket EXCEPT ![r] = lastTicket']
             /\ UNCHANGED <<pending, gate, claim>>
    BY <1>8, <2>3 DEF PollPause
  <2>. QED BY <1>8, <2>1, <2>2, <2>3 DEF PollPause
<1>9. ASSUME NEW r \in Reqs, ReadSession(r)
      PROVE  TypeOK'
  BY <1>9 DEF ReadSession
<1>10. ASSUME NEW r \in Reqs, RecordMessage(r)
       PROVE  TypeOK'
  BY <1>10 DEF RecordMessage, CloseSession, Newest, UserMessage, AnswerTo,
     Merges
<1>11. ASSUME NEW r \in Reqs, RunTurn(r)
       PROVE  TypeOK'
  BY <1>11 DEF RunTurn, CloseSession, Newest, AssistantMessage, ToolUse
<1>12. ASSUME NEW r \in Reqs, Park(r)
       PROVE  TypeOK'
  BY <1>12 DEF Park, Pause, Message
<1>13. ASSUME NEW r \in Reqs, Compact(r)
       PROVE  TypeOK'
  BY <1>13 DEF Compact, CloseSession, Newest, AnswerTo, AssistantMessage
<1>14. ASSUME NEW d \in Closers, StartClose(d)
       PROVE  TypeOK'
  BY <1>14 DEF StartClose, CloseSession
<1>15. ASSUME NEW d \in Closers, RemoveRuntime(d)
       PROVE  TypeOK'
  BY <1>15 DEF RemoveRuntime
<1>16. ASSUME Expire
       PROVE  TypeOK'
  <2>1. pending \in Pause
    BY <1>16, NoneAssumption DEF Expire
  <2>2. pending' \in Pause
    BY <1>16, <2>1 DEF Expire, Pause
  <2>. QED BY <1>16, <2>2 DEF Expire
<1>17. ASSUME NEW r \in Reqs, Disconnect(r)
       PROVE  TypeOK'
  BY <1>17 DEF Disconnect
<1>18. ASSUME Restart
       PROVE  TypeOK'
  BY <1>18, BoundsAssumption DEF Restart
<1>19. CASE UNCHANGED vars
  BY <1>19 DEF vars
<1>. QED
  BY <1>1, <1>2, <1>3, <1>4, <1>5, <1>6, <1>7, <1>8, <1>9, <1>10, <1>11,
     <1>12, <1>13, <1>14, <1>15, <1>16, <1>17, <1>18, <1>19 DEF Next,
     ServerStep

\* A mutex is created before it is waited for, held or parked.
LEMMA GatesCreatedStep ==
  ASSUME IInv, [Next]_vars
  PROVE  GatesCreated'
<1>. USE DEF IInv, TypeOK, GatesCreated, Bound
<1>1. ASSUME NEW c \in Clients, RegisterDriver(c)
      PROVE  GatesCreated'
  BY <1>1 DEF RegisterDriver
<1>2. ASSUME NEW c \in Clients, InsertDriver(c)
      PROVE  GatesCreated'
  BY <1>2 DEF InsertDriver
<1>3. ASSUME NEW r \in Reqs, NEW m \in Message, Accept(r, m)
      PROVE  GatesCreated'
  BY <1>3 DEF Accept
<1>4. ASSUME NEW r \in Reqs, ClaimPause(r)
      PROVE  GatesCreated'
  BY <1>4 DEF ClaimPause, TakeOver, MayResume, MayRetire, MustQueue
<1>5. ASSUME NEW r \in Reqs, Enqueue(r)
      PROVE  GatesCreated'
  BY <1>5 DEF Enqueue, OpenGate
<1>6. ASSUME NEW r \in Reqs, Grant(r)
      PROVE  GatesCreated'
  BY <1>6 DEF Grant, Locked
<1>7. ASSUME NEW r \in Reqs, StartCompact(r)
      PROVE  GatesCreated'
  BY <1>7 DEF StartCompact, OpenGate
<1>8. ASSUME NEW r \in Reqs, PollPause(r)
      PROVE  GatesCreated'
  BY <1>8 DEF PollPause, TakeOver, MayResume, MayRetire
<1>9. ASSUME NEW r \in Reqs, ReadSession(r)
      PROVE  GatesCreated'
  BY <1>9 DEF ReadSession
<1>10. ASSUME NEW r \in Reqs, RecordMessage(r)
       PROVE  GatesCreated'
  BY <1>10 DEF RecordMessage, CloseSession
<1>11. ASSUME NEW r \in Reqs, RunTurn(r)
       PROVE  GatesCreated'
  BY <1>11 DEF RunTurn, CloseSession
<1>12. ASSUME NEW r \in Reqs, Park(r)
       PROVE  GatesCreated'
  BY <1>12 DEF Park
<1>13. ASSUME NEW r \in Reqs, Compact(r)
       PROVE  GatesCreated'
  BY <1>13 DEF Compact, CloseSession
<1>14. ASSUME NEW d \in Closers, StartClose(d)
       PROVE  GatesCreated'
  BY <1>14 DEF StartClose, CloseSession
<1>15. ASSUME NEW d \in Closers, RemoveRuntime(d)
       PROVE  GatesCreated'
  BY <1>15 DEF RemoveRuntime
<1>16. ASSUME Expire
       PROVE  GatesCreated'
  BY <1>16 DEF Expire
<1>17. ASSUME NEW r \in Reqs, Disconnect(r)
       PROVE  GatesCreated'
  BY <1>17 DEF Disconnect
<1>18. ASSUME Restart
       PROVE  GatesCreated'
  BY <1>18 DEF Restart
<1>19. CASE UNCHANGED vars
  BY <1>19 DEF vars
<1>. QED
  BY <1>1, <1>2, <1>3, <1>4, <1>5, <1>6, <1>7, <1>8, <1>9, <1>10, <1>11,
     <1>12, <1>13, <1>14, <1>15, <1>16, <1>17, <1>18, <1>19 DEF Next,
     ServerStep

\* The mutex of turn_gates is only dropped, and thereby another one created,
\* once the session is terminal or nobody is bound to it (a restart).
LEMMA SingleGateStep ==
  ASSUME IInv, [Next]_vars
  PROVE  SingleGate'
<1>. USE DEF IInv, TypeOK, GatesCreated, SingleGate, ClosedFirst, Bound
<1>1. ASSUME NEW c \in Clients, RegisterDriver(c)
      PROVE  SingleGate'
  BY <1>1 DEF RegisterDriver
<1>2. ASSUME NEW c \in Clients, InsertDriver(c)
      PROVE  SingleGate'
  BY <1>2 DEF InsertDriver
<1>3. ASSUME NEW r \in Reqs, NEW m \in Message, Accept(r, m)
      PROVE  SingleGate'
  BY <1>3 DEF Accept
<1>4. ASSUME NEW r \in Reqs, ClaimPause(r)
      PROVE  SingleGate'
  BY <1>4 DEF ClaimPause, TakeOver, MayResume, MayRetire, MustQueue
<1>5. ASSUME NEW r \in Reqs, Enqueue(r)
      PROVE  SingleGate'
  BY <1>5 DEF Enqueue, OpenGate
<1>6. ASSUME NEW r \in Reqs, Grant(r)
      PROVE  SingleGate'
  BY <1>6 DEF Grant, Locked
<1>7. ASSUME NEW r \in Reqs, StartCompact(r)
      PROVE  SingleGate'
  BY <1>7 DEF StartCompact, OpenGate
<1>8. ASSUME NEW r \in Reqs, PollPause(r)
      PROVE  SingleGate'
  BY <1>8 DEF PollPause, TakeOver, MayResume, MayRetire
<1>9. ASSUME NEW r \in Reqs, ReadSession(r)
      PROVE  SingleGate'
  BY <1>9 DEF ReadSession
<1>10. ASSUME NEW r \in Reqs, RecordMessage(r)
       PROVE  SingleGate'
  BY <1>10 DEF RecordMessage, CloseSession
<1>11. ASSUME NEW r \in Reqs, RunTurn(r)
       PROVE  SingleGate'
  BY <1>11 DEF RunTurn, CloseSession
<1>12. ASSUME NEW r \in Reqs, Park(r)
       PROVE  SingleGate'
  BY <1>12 DEF Park
<1>13. ASSUME NEW r \in Reqs, Compact(r)
       PROVE  SingleGate'
  BY <1>13 DEF Compact, CloseSession
<1>14. ASSUME NEW d \in Closers, StartClose(d)
       PROVE  SingleGate'
  BY <1>14 DEF StartClose, CloseSession
<1>15. ASSUME NEW d \in Closers, RemoveRuntime(d)
       PROVE  SingleGate'
  BY <1>15 DEF RemoveRuntime
<1>16. ASSUME Expire
       PROVE  SingleGate'
  BY <1>16 DEF Expire
<1>17. ASSUME NEW r \in Reqs, Disconnect(r)
       PROVE  SingleGate'
  BY <1>17 DEF Disconnect
<1>18. ASSUME Restart
       PROVE  SingleGate'
  BY <1>18 DEF Restart
<1>19. CASE UNCHANGED vars
  BY <1>19 DEF vars
<1>. QED
  BY <1>1, <1>2, <1>3, <1>4, <1>5, <1>6, <1>7, <1>8, <1>9, <1>10, <1>11,
     <1>12, <1>13, <1>14, <1>15, <1>16, <1>17, <1>18, <1>19 DEF Next,
     ServerStep

\* A guard is granted when there is none, moved when a turn parks or a pause is
\* taken over, and never copied.
LEMMA ExclusiveStep ==
  ASSUME IInv, [Next]_vars
  PROVE  Exclusive'
<1>. USE DEF IInv, TypeOK, Exclusive, Holding
<1>1. ASSUME NEW c \in Clients, RegisterDriver(c)
      PROVE  Exclusive'
  BY <1>1 DEF RegisterDriver
<1>2. ASSUME NEW c \in Clients, InsertDriver(c)
      PROVE  Exclusive'
  BY <1>2 DEF InsertDriver
<1>3. ASSUME NEW r \in Reqs, NEW m \in Message, Accept(r, m)
      PROVE  Exclusive'
  BY <1>3 DEF Accept
<1>4. ASSUME NEW r \in Reqs, ClaimPause(r)
      PROVE  Exclusive'
  BY <1>4 DEF ClaimPause, TakeOver, MayResume, MayRetire, MustQueue
<1>5. ASSUME NEW r \in Reqs, Enqueue(r)
      PROVE  Exclusive'
  BY <1>5 DEF Enqueue, OpenGate
<1>6. ASSUME NEW r \in Reqs, Grant(r)
      PROVE  Exclusive'
  BY <1>6 DEF Grant, Locked
<1>7. ASSUME NEW r \in Reqs, StartCompact(r)
      PROVE  Exclusive'
  BY <1>7 DEF StartCompact, OpenGate
<1>8. ASSUME NEW r \in Reqs, PollPause(r)
      PROVE  Exclusive'
  BY <1>8 DEF PollPause, TakeOver, MayResume, MayRetire
<1>9. ASSUME NEW r \in Reqs, ReadSession(r)
      PROVE  Exclusive'
  BY <1>9 DEF ReadSession
<1>10. ASSUME NEW r \in Reqs, RecordMessage(r)
       PROVE  Exclusive'
  BY <1>10 DEF RecordMessage, CloseSession
<1>11. ASSUME NEW r \in Reqs, RunTurn(r)
       PROVE  Exclusive'
  BY <1>11 DEF RunTurn, CloseSession
<1>12. ASSUME NEW r \in Reqs, Park(r)
       PROVE  Exclusive'
  BY <1>12 DEF Park
<1>13. ASSUME NEW r \in Reqs, Compact(r)
       PROVE  Exclusive'
  BY <1>13 DEF Compact, CloseSession
<1>14. ASSUME NEW d \in Closers, StartClose(d)
       PROVE  Exclusive'
  BY <1>14 DEF StartClose, CloseSession
<1>15. ASSUME NEW d \in Closers, RemoveRuntime(d)
       PROVE  Exclusive'
  BY <1>15 DEF RemoveRuntime
<1>16. ASSUME Expire
       PROVE  Exclusive'
  BY <1>16 DEF Expire
<1>17. ASSUME NEW r \in Reqs, Disconnect(r)
       PROVE  Exclusive'
  BY <1>17 DEF Disconnect
<1>18. ASSUME Restart
       PROVE  Exclusive'
  BY <1>18 DEF Restart
<1>19. CASE UNCHANGED vars
  BY <1>19 DEF vars
<1>. QED
  BY <1>1, <1>2, <1>3, <1>4, <1>5, <1>6, <1>7, <1>8, <1>9, <1>10, <1>11,
     <1>12, <1>13, <1>14, <1>15, <1>16, <1>17, <1>18, <1>19 DEF Next,
     ServerStep

\* Both close paths end the session in SQLite first.
LEMMA ClosedFirstStep ==
  ASSUME IInv, [Next]_vars
  PROVE  ClosedFirst'
<1>. USE DEF IInv, TypeOK, ClosedFirst
<1>1. ASSUME NEW c \in Clients, RegisterDriver(c)
      PROVE  ClosedFirst'
  BY <1>1 DEF RegisterDriver
<1>2. ASSUME NEW c \in Clients, InsertDriver(c)
      PROVE  ClosedFirst'
  BY <1>2 DEF InsertDriver
<1>3. ASSUME NEW r \in Reqs, NEW m \in Message, Accept(r, m)
      PROVE  ClosedFirst'
  BY <1>3 DEF Accept
<1>4. ASSUME NEW r \in Reqs, ClaimPause(r)
      PROVE  ClosedFirst'
  BY <1>4 DEF ClaimPause, TakeOver, MayResume, MayRetire, MustQueue
<1>5. ASSUME NEW r \in Reqs, Enqueue(r)
      PROVE  ClosedFirst'
  BY <1>5 DEF Enqueue, OpenGate
<1>6. ASSUME NEW r \in Reqs, Grant(r)
      PROVE  ClosedFirst'
  BY <1>6 DEF Grant, Locked
<1>7. ASSUME NEW r \in Reqs, StartCompact(r)
      PROVE  ClosedFirst'
  BY <1>7 DEF StartCompact, OpenGate
<1>8. ASSUME NEW r \in Reqs, PollPause(r)
      PROVE  ClosedFirst'
  BY <1>8 DEF PollPause, TakeOver, MayResume, MayRetire
<1>9. ASSUME NEW r \in Reqs, ReadSession(r)
      PROVE  ClosedFirst'
  BY <1>9 DEF ReadSession
<1>10. ASSUME NEW r \in Reqs, RecordMessage(r)
       PROVE  ClosedFirst'
  BY <1>10 DEF RecordMessage, CloseSession
<1>11. ASSUME NEW r \in Reqs, RunTurn(r)
       PROVE  ClosedFirst'
  BY <1>11 DEF RunTurn, CloseSession
<1>12. ASSUME NEW r \in Reqs, Park(r)
       PROVE  ClosedFirst'
  BY <1>12 DEF Park
<1>13. ASSUME NEW r \in Reqs, Compact(r)
       PROVE  ClosedFirst'
  BY <1>13 DEF Compact, CloseSession
<1>14. ASSUME NEW d \in Closers, StartClose(d)
       PROVE  ClosedFirst'
  BY <1>14 DEF StartClose, CloseSession
<1>15. ASSUME NEW d \in Closers, RemoveRuntime(d)
       PROVE  ClosedFirst'
  BY <1>15 DEF RemoveRuntime
<1>16. ASSUME Expire
       PROVE  ClosedFirst'
  BY <1>16 DEF Expire
<1>17. ASSUME NEW r \in Reqs, Disconnect(r)
       PROVE  ClosedFirst'
  BY <1>17 DEF Disconnect
<1>18. ASSUME Restart
       PROVE  ClosedFirst'
  BY <1>18 DEF Restart
<1>19. CASE UNCHANGED vars
  BY <1>19 DEF vars
<1>. QED
  BY <1>1, <1>2, <1>3, <1>4, <1>5, <1>6, <1>7, <1>8, <1>9, <1>10, <1>11,
     <1>12, <1>13, <1>14, <1>15, <1>16, <1>17, <1>18, <1>19 DEF Next,
     ServerStep

\* A pause is taken over together with its guard.
LEMMA CallsSaneStep ==
  ASSUME IInv, [Next]_vars
  PROVE  CallsSane'
<1>. USE DEF IInv, TypeOK, CallsSane
<1>1. ASSUME NEW c \in Clients, RegisterDriver(c)
      PROVE  CallsSane'
  BY <1>1 DEF RegisterDriver
<1>2. ASSUME NEW c \in Clients, InsertDriver(c)
      PROVE  CallsSane'
  BY <1>2 DEF InsertDriver
<1>3. ASSUME NEW r \in Reqs, NEW m \in Message, Accept(r, m)
      PROVE  CallsSane'
  BY <1>3 DEF Accept
<1>4. ASSUME NEW r \in Reqs, ClaimPause(r)
      PROVE  CallsSane'
  BY <1>4 DEF ClaimPause, TakeOver, MayResume, MayRetire, MustQueue
<1>5. ASSUME NEW r \in Reqs, Enqueue(r)
      PROVE  CallsSane'
  BY <1>5 DEF Enqueue, OpenGate
<1>6. ASSUME NEW r \in Reqs, Grant(r)
      PROVE  CallsSane'
  BY <1>6 DEF Grant, Locked
<1>7. ASSUME NEW r \in Reqs, StartCompact(r)
      PROVE  CallsSane'
  BY <1>7 DEF StartCompact, OpenGate
<1>8. ASSUME NEW r \in Reqs, PollPause(r)
      PROVE  CallsSane'
  BY <1>8 DEF PollPause, TakeOver, MayResume, MayRetire
<1>9. ASSUME NEW r \in Reqs, ReadSession(r)
      PROVE  CallsSane'
  BY <1>9 DEF ReadSession
<1>10. ASSUME NEW r \in Reqs, RecordMessage(r)
       PROVE  CallsSane'
  BY <1>10 DEF RecordMessage, CloseSession
<1>11. ASSUME NEW r \in Reqs, RunTurn(r)
       PROVE  CallsSane'
  BY <1>11 DEF RunTurn, CloseSession
<1>12. ASSUME NEW r \in Reqs, Park(r)
       PROVE  CallsSane'
  BY <1>12 DEF Park
<1>13. ASSUME NEW r \in Reqs, Compact(r)
       PROVE  CallsSane'
  BY <1>13 DEF Compact, CloseSession
<1>14. ASSUME NEW d \in Closers, StartClose(d)
       PROVE  CallsSane'
  BY <1>14 DEF StartClose, CloseSession
<1>15. ASSUME NEW d \in Closers, RemoveRuntime(d)
       PROVE  CallsSane'
  BY <1>15 DEF RemoveRuntime
<1>16. ASSUME Expire
       PROVE  CallsSane'
  BY <1>16 DEF Expire
<1>17. ASSUME NEW r \in Reqs, Disconnect(r)
       PROVE  CallsSane'
  BY <1>17 DEF Disconnect
<1>18. ASSUME Restart
       PROVE  CallsSane'
  BY <1>18 DEF Restart
<1>19. CASE UNCHANGED vars
  BY <1>19 DEF vars
<1>. QED
  BY <1>1, <1>2, <1>3, <1>4, <1>5, <1>6, <1>7, <1>8, <1>9, <1>10, <1>11,
     <1>12, <1>13, <1>14, <1>15, <1>16, <1>17, <1>18, <1>19 DEF Next,
     ServerStep

\* A second logical turn cannot begin.
LEMMA OneLogicalTurnStep ==
  ASSUME IInv, [Next]_vars
  PROVE  OneLogicalTurn'
<1>. USE DEF IInv, TypeOK, SingleGate, Exclusive, OneLogicalTurn, Engaged, Working, Holding, CallsSane, Bound
<1>1. ASSUME NEW c \in Clients, RegisterDriver(c)
      PROVE  OneLogicalTurn'
  BY <1>1 DEF RegisterDriver
<1>2. ASSUME NEW c \in Clients, InsertDriver(c)
      PROVE  OneLogicalTurn'
  BY <1>2 DEF InsertDriver
<1>3. ASSUME NEW r \in Reqs, NEW m \in Message, Accept(r, m)
      PROVE  OneLogicalTurn'
  BY <1>3 DEF Accept
<1>4. ASSUME NEW r \in Reqs, ClaimPause(r)
      PROVE  OneLogicalTurn'
  BY <1>4 DEF ClaimPause, TakeOver, MayResume, MayRetire, MustQueue
<1>5. ASSUME NEW r \in Reqs, Enqueue(r)
      PROVE  OneLogicalTurn'
  BY <1>5 DEF Enqueue, OpenGate
<1>6. ASSUME NEW r \in Reqs, Grant(r)
      PROVE  OneLogicalTurn'
  BY <1>6 DEF Grant, Locked
<1>7. ASSUME NEW r \in Reqs, StartCompact(r)
      PROVE  OneLogicalTurn'
  BY <1>7 DEF StartCompact, OpenGate
<1>8. ASSUME NEW r \in Reqs, PollPause(r)
      PROVE  OneLogicalTurn'
  BY <1>8 DEF PollPause, TakeOver, MayResume, MayRetire
<1>9. ASSUME NEW r \in Reqs, ReadSession(r)
      PROVE  OneLogicalTurn'
  BY <1>9 DEF ReadSession
<1>10. ASSUME NEW r \in Reqs, RecordMessage(r)
       PROVE  OneLogicalTurn'
  BY <1>10 DEF RecordMessage, CloseSession
<1>11. ASSUME NEW r \in Reqs, RunTurn(r)
       PROVE  OneLogicalTurn'
  BY <1>11 DEF RunTurn, CloseSession
<1>12. ASSUME NEW r \in Reqs, Park(r)
       PROVE  OneLogicalTurn'
  BY <1>12 DEF Park
<1>13. ASSUME NEW r \in Reqs, Compact(r)
       PROVE  OneLogicalTurn'
  BY <1>13 DEF Compact, CloseSession
<1>14. ASSUME NEW d \in Closers, StartClose(d)
       PROVE  OneLogicalTurn'
  BY <1>14 DEF StartClose, CloseSession
<1>15. ASSUME NEW d \in Closers, RemoveRuntime(d)
       PROVE  OneLogicalTurn'
  BY <1>15 DEF RemoveRuntime
<1>16. ASSUME Expire
       PROVE  OneLogicalTurn'
  BY <1>16 DEF Expire
<1>17. ASSUME NEW r \in Reqs, Disconnect(r)
       PROVE  OneLogicalTurn'
  BY <1>17 DEF Disconnect
<1>18. ASSUME Restart
       PROVE  OneLogicalTurn'
  BY <1>18 DEF Restart
<1>19. CASE UNCHANGED vars
  BY <1>19 DEF vars
<1>. QED
  BY <1>1, <1>2, <1>3, <1>4, <1>5, <1>6, <1>7, <1>8, <1>9, <1>10, <1>11,
     <1>12, <1>13, <1>14, <1>15, <1>16, <1>17, <1>18, <1>19 DEF Next,
     ServerStep

-----------------------------------------------------------------------------
LEMMA InitIInv == Init => IInv
<1>. SUFFICES ASSUME Init PROVE IInv
  OBVIOUS
<1>1. TypeOK
  BY BoundsAssumption DEF Init, TypeOK, Newest, NoMessage
<1>2. GatesCreated /\ SingleGate /\ Exclusive /\ ClosedFirst /\ CallsSane
  BY DEF Init, GatesCreated, SingleGate, Exclusive, ClosedFirst, CallsSane, Bound,
         Holding
<1>3. OneLogicalTurn
  BY DEF Init, OneLogicalTurn, Engaged, Working, Holding
<1>. QED
  BY <1>1, <1>2, <1>3 DEF IInv

\* IInv is inductive.
LEMMA Invariance == Spec => []IInv
<1>1. IInv /\ [Next]_vars => IInv'
  <2>. SUFFICES ASSUME IInv, [Next]_vars PROVE IInv'
    OBVIOUS
  <2>. QED
    BY TypeOKStep, GatesCreatedStep, SingleGateStep, ExclusiveStep, ClosedFirstStep,
       CallsSaneStep, OneLogicalTurnStep DEF IInv
<1>. QED
  BY InitIInv, <1>1, PTL DEF Spec

\* Every variable stays in its type: in particular turn_gates always names a
\* mutex that has been created, or none.
THEOREM TypeCorrect == Spec => []TypeOK
<1>1. IInv => TypeOK
  BY DEF IInv
<1>. QED
  BY Invariance, <1>1, PTL

\* At most one logical turn exists per session at any time, a paused one
\* included, for any number of drivers, calls, closes, disconnects and restarts.
THEOREM MutualExclusion == Spec => []OneLogicalTurn
<1>1. IInv => OneLogicalTurn
  BY DEF IInv
<1>. QED
  BY Invariance, <1>1, PTL

\* Once closed or in error a session keeps that state: every writer goes through
\* close_session's WHERE state = 'open'.
THEOREM SessionEndsOnce == Spec => TerminalIsFinal
<1>1. [Next]_vars => [sess # "open" => sess' = sess]_sess
  BY ZenonT(60) DEF Next, vars, ServerStep, RegisterDriver, InsertDriver, Accept, ClaimPause,
         Enqueue, Grant, StartCompact, PollPause, ReadSession, RecordMessage, RunTurn,
         Park, Compact, StartClose, RemoveRuntime, Expire, Disconnect, Restart,
         CloseSession
<1>. QED
  BY <1>1, PTL DEF Spec, TerminalIsFinal

-----------------------------------------------------------------------------
(***************************************************************************)
(* Unanswered tool calls.  A persisted tool_use message has one of four       *)
(* fates: its turn is about to park it, it is parked, a request has taken  *)
(* it over and not yet recorded anything, or the session has ended and     *)
(* nobody drives it.  In each of them OneLogicalTurn leaves no other       *)
(* request that could record a message behind it.                          *)
(***************************************************************************)
Answering(r) == pc[r] \in {"entered", "admitted"} /\ claim[r] # None

Taken(q) ==
  \E r \in Reqs : /\ Answering(r) /\ claim[r].call = q
                  /\ claim[r].timedOut \/ msg[r].client = msg[q].client

Accounted ==
  tail.kind = "toolUse" /\ Undisturbed(tail.call) =>
    \/ pc[tail.call] = "paused"
    \/ pending # None /\ pending.call = tail.call /\ pending.owner = msg[tail.call].client
    \/ Taken(tail.call)
    \/ sess # "open" /\ \A r \in Reqs : ~Working(r)

\* The request that a tool_use message is named after has been made.
Asked == tail.kind = "toolUse" => tail.call \in Reqs /\ pc[tail.call] # "idle"

AInv == IInv /\ Accounted /\ Asked

LEMMA AskedStep ==
  ASSUME AInv, [Next]_vars
  PROVE  Asked'
<1>. USE DEF AInv, IInv, TypeOK, Asked
<1>1. ASSUME NEW c \in Clients, RegisterDriver(c)
      PROVE  Asked'
  BY <1>1 DEF RegisterDriver
<1>2. ASSUME NEW c \in Clients, InsertDriver(c)
      PROVE  Asked'
  BY <1>2 DEF InsertDriver
<1>3. ASSUME NEW r \in Reqs, NEW m \in Message, Accept(r, m)
      PROVE  Asked'
  BY <1>3 DEF Accept
<1>4. ASSUME NEW r \in Reqs, ClaimPause(r)
      PROVE  Asked'
  BY <1>4 DEF ClaimPause, TakeOver, MayResume, MayRetire, MustQueue
<1>5. ASSUME NEW r \in Reqs, Enqueue(r)
      PROVE  Asked'
  BY <1>5 DEF Enqueue, OpenGate
<1>6. ASSUME NEW r \in Reqs, Grant(r)
      PROVE  Asked'
  BY <1>6 DEF Grant
<1>7. ASSUME NEW r \in Reqs, StartCompact(r)
      PROVE  Asked'
  BY <1>7 DEF StartCompact, OpenGate
<1>8. ASSUME NEW r \in Reqs, PollPause(r)
      PROVE  Asked'
  BY <1>8 DEF PollPause, TakeOver, MayResume, MayRetire
<1>9. ASSUME NEW r \in Reqs, ReadSession(r)
      PROVE  Asked'
  BY <1>9 DEF ReadSession
<1>10. ASSUME NEW r \in Reqs, RecordMessage(r)
      PROVE  Asked'
  BY <1>10 DEF RecordMessage, CloseSession, Merges, UserMessage, AnswerTo
<1>11. ASSUME NEW r \in Reqs, RunTurn(r)
      PROVE  Asked'
  BY <1>11 DEF RunTurn, CloseSession, AssistantMessage, ToolUse
<1>12. ASSUME NEW r \in Reqs, Park(r)
      PROVE  Asked'
  BY <1>12 DEF Park
<1>13. ASSUME NEW r \in Reqs, Compact(r)
      PROVE  Asked'
  BY <1>13 DEF Compact, CloseSession, AnswerTo, AssistantMessage
<1>14. ASSUME NEW d \in Closers, StartClose(d)
      PROVE  Asked'
  BY <1>14 DEF StartClose, CloseSession
<1>15. ASSUME NEW d \in Closers, RemoveRuntime(d)
      PROVE  Asked'
  BY <1>15 DEF RemoveRuntime
<1>16. ASSUME Expire
      PROVE  Asked'
  BY <1>16 DEF Expire, Pause
<1>17. ASSUME NEW r \in Reqs, Disconnect(r)
      PROVE  Asked'
  BY <1>17 DEF Disconnect
<1>18. ASSUME Restart
      PROVE  Asked'
  BY <1>18 DEF Restart
<1>19. CASE UNCHANGED vars
  BY <1>19 DEF vars
<1>. QED
  BY <1>1, <1>2, <1>3, <1>4, <1>5, <1>6, <1>7, <1>8, <1>9, <1>10, <1>11,
     <1>12, <1>13, <1>14, <1>15, <1>16, <1>17, <1>18, <1>19 DEF Next,
     ServerStep

\* Whoever takes a pause over takes its tool_use message over.
LEMMA TakeOverAccounted ==
  ASSUME AInv, NEW r \in Reqs, NEW t \in BOOLEAN, TakeOver(r, t), pending # None,
         t \/ pending.owner = msg[r].client,
         pc[r] \in {"accepted", "polling", "queued"}, UNCHANGED <<sess, tail, msg, restarts>>
  PROVE  Accounted'
<1>. USE DEF AInv, IInv, TypeOK, Asked
<1>1. \A q \in Reqs : ~Engaged(q)
  BY DEF OneLogicalTurn
<1>. SUFFICES ASSUME tail.kind = "toolUse", Undisturbed(tail.call)
              PROVE  Taken(tail.call)' \/ (sess' # "open" /\ \A q \in Reqs : ~Working(q)')
  BY DEF Accounted, Undisturbed, TakeOver
<1>2. CASE pending.call = tail.call /\ pending.owner = msg[tail.call].client
  <2>1. /\ claim'[r] = [call |-> tail.call, timedOut |-> t] /\ pc'[r] = "entered"
        /\ claim'[r] # None
    <3>1. claim'[r] = [call |-> tail.call, timedOut |-> t] /\ pc'[r] = "entered"
      BY <1>2 DEF TakeOver
    <3>2. [call |-> tail.call, timedOut |-> t] \in Claim
      BY DEF Claim
    <3>. QED BY <3>1, <3>2, NoneAssumption
  <2>2. Answering(r)' /\ claim'[r].call = tail.call /\ claim'[r].timedOut = t
    BY <2>1 DEF Answering
  <2>. QED BY <1>2, <2>2 DEF Taken
<1>3. CASE sess # "open" /\ \A q \in Reqs : ~Working(q)
  BY <1>3 DEF TakeOver, Working
<1>4. ~Taken(tail.call) /\ pc[tail.call] # "paused"
  BY <1>1 DEF Taken, Answering, Engaged, Holding, Working
<1>. QED
  BY <1>2, <1>3, <1>4 DEF Accounted

LEMMA AccountedStep ==
  ASSUME AInv, [Next]_vars
  PROVE  Accounted'
<1>. USE DEF AInv, IInv, TypeOK, Asked, Accounted, Taken, Answering, Undisturbed, OneLogicalTurn, Engaged,
     Working, Holding, CallsSane
<1>1. ASSUME NEW c \in Clients, RegisterDriver(c)
      PROVE  Accounted'
  BY <1>1 DEF RegisterDriver
<1>2. ASSUME NEW c \in Clients, InsertDriver(c)
      PROVE  Accounted'
  BY <1>2 DEF InsertDriver
<1>3. ASSUME NEW r \in Reqs, NEW m \in Message, Accept(r, m)
      PROVE  Accounted'
  BY <1>3 DEF Accept
<1>4. ASSUME NEW r \in Reqs, ClaimPause(r)
      PROVE  Accounted'
  <2>1. ASSUME NEW t \in BOOLEAN, TakeOver(r, t), pending # None, t \/ pending.owner = msg[r].client
        PROVE  Accounted'
    BY <1>4, <2>1, TakeOverAccounted DEF ClaimPause
  <2>2. CASE pc' = [pc EXCEPT ![r] = "enqueuing"] /\ UNCHANGED <<pending, gate, claim>>
    BY <1>4, <2>2 DEF ClaimPause
  <2>. QED BY <1>4, <2>1, <2>2 DEF ClaimPause, MayResume, MayRetire
<1>5. ASSUME NEW r \in Reqs, Enqueue(r)
      PROVE  Accounted'
  BY <1>5 DEF Enqueue, OpenGate
<1>6. ASSUME NEW r \in Reqs, Grant(r)
      PROVE  Accounted'
  BY <1>6 DEF Grant
<1>7. ASSUME NEW r \in Reqs, StartCompact(r)
      PROVE  Accounted'
  BY <1>7 DEF StartCompact, OpenGate
<1>8. ASSUME NEW r \in Reqs, PollPause(r)
      PROVE  Accounted'
  <2>1. CASE MayRetire(r) /\ TakeOver(r, TRUE)
    BY <1>8, <2>1, TakeOverAccounted DEF PollPause, MayRetire
  <2>2. CASE UNCHANGED <<pending, gate, claim>>
    <3>1. /\ pc[r] \in {"polling", "queued"} /\ UNCHANGED <<sess, tail, msg, restarts>>
          /\ pc' = [pc EXCEPT ![r] = "done"] \/ pc' = [pc EXCEPT ![r] = "queued"]
          /\ claim[r] = None
      BY <1>8, <2>2 DEF PollPause, TakeOver, MayRetire
    <3>2. \A q \in Reqs : q # r => pc'[q] = pc[q]
      BY <3>1
    <3>3. pc'[r] \in {"done", "queued"}
      BY <3>1
    <3>. QED BY <2>2, <3>1, <3>2, <3>3
  <2>. QED BY <1>8, <2>1, <2>2 DEF PollPause
<1>9. ASSUME NEW r \in Reqs, ReadSession(r)
      PROVE  Accounted'
  BY <1>9 DEF ReadSession
<1>10. ASSUME NEW r \in Reqs, RecordMessage(r)
      PROVE  Accounted'
  BY <1>10 DEF RecordMessage, CloseSession, Merges, UserMessage, AnswerTo
<1>11. ASSUME NEW r \in Reqs, RunTurn(r)
      PROVE  Accounted'
  BY <1>11 DEF RunTurn, CloseSession, AssistantMessage, ToolUse
<1>12. ASSUME NEW r \in Reqs, Park(r)
      PROVE  Accounted'
  <2>. SUFFICES ASSUME tail.kind = "toolUse", restarts = 0, pc'[tail.call] # "gone"
               PROVE  \/ pc'[tail.call] = "paused"
                      \/ pending' # None /\ pending'.call = tail.call /\ pending'.owner = msg[tail.call].client
                      \/ Taken(tail.call)'
                      \/ sess' # "open" /\ \A r2 \in Reqs : ~Working(r2)'
    BY <1>12 DEF Park
  <2>0. pc[tail.call] # "gone"
    BY <1>12 DEF Park
  <2>1. CASE pc[tail.call] = "paused"
    <3>1. r = tail.call
      BY <1>12, <2>1 DEF Park
    <3>2. pending' \in Pause /\ pending'.call = r /\ pending'.owner = msg[r].client
      BY <1>12 DEF Park, Pause, Message
    <3>. QED BY <3>1, <3>2, NoneAssumption
  <2>2. CASE pending # None /\ pending.call = tail.call /\ pending.owner = msg[tail.call].client
    BY <1>12, <2>2 DEF Park
  <2>3. CASE Taken(tail.call)
    BY <1>12, <2>3 DEF Park
  <2>4. CASE sess # "open" /\ \A r2 \in Reqs : ~Working(r2)
    BY <1>12, <2>4 DEF Park
  <2>. QED BY <2>0, <2>1, <2>2, <2>3, <2>4
<1>13. ASSUME NEW r \in Reqs, Compact(r)
      PROVE  Accounted'
  BY <1>13 DEF Compact, CloseSession, AnswerTo, AssistantMessage
<1>14. ASSUME NEW d \in Closers, StartClose(d)
      PROVE  Accounted'
  BY <1>14 DEF StartClose, CloseSession
<1>15. ASSUME NEW d \in Closers, RemoveRuntime(d)
      PROVE  Accounted'
  <2>. SUFFICES ASSUME tail.kind = "toolUse", restarts = 0, pc'[tail.call] # "gone"
               PROVE  \/ pc'[tail.call] = "paused"
                      \/ pending' # None /\ pending'.call = tail.call /\ pending'.owner = msg[tail.call].client
                      \/ Taken(tail.call)'
                      \/ sess' # "open" /\ \A r2 \in Reqs : ~Working(r2)'
    BY <1>15 DEF RemoveRuntime
  <2>0. pc[tail.call] # "gone"
    BY <1>15 DEF RemoveRuntime
  <2>1. CASE pc[tail.call] = "paused"
    BY <1>15, <2>1 DEF RemoveRuntime
  <2>2. CASE pending # None /\ pending.call = tail.call /\ pending.owner = msg[tail.call].client
    <3>1. CASE pending' = pending
      BY <1>15, <2>2, <3>1 DEF RemoveRuntime
    <3>2. CASE pending' # pending
      <4>1. sess # "open" /\ UNCHANGED <<sess, pc>>
        BY <1>15, <3>2 DEF RemoveRuntime, ClosedFirst
      <4>2. \A q \in Reqs : ~Working(q)
        BY <2>2
      <4>. QED BY <4>1, <4>2
    <3>. QED BY <3>1, <3>2
  <2>3. CASE Taken(tail.call)
    BY <1>15, <2>3 DEF RemoveRuntime
  <2>4. CASE sess # "open" /\ \A r2 \in Reqs : ~Working(r2)
    BY <1>15, <2>4 DEF RemoveRuntime
  <2>. QED BY <2>0, <2>1, <2>2, <2>3, <2>4
<1>16. ASSUME Expire
      PROVE  Accounted'
  <2>. SUFFICES ASSUME tail.kind = "toolUse", restarts = 0, pc'[tail.call] # "gone"
               PROVE  \/ pc'[tail.call] = "paused"
                      \/ pending' # None /\ pending'.call = tail.call /\ pending'.owner = msg[tail.call].client
                      \/ Taken(tail.call)'
                      \/ sess' # "open" /\ \A r2 \in Reqs : ~Working(r2)'
    BY <1>16 DEF Expire
  <2>0. pc[tail.call] # "gone"
    BY <1>16 DEF Expire
  <2>1. CASE pc[tail.call] = "paused"
    BY <1>16, <2>1 DEF Expire
  <2>2. CASE pending # None /\ pending.call = tail.call /\ pending.owner = msg[tail.call].client
    <3>1. pending \in Pause
      BY <2>2
    <3>2. pending' \in Pause /\ pending'.call = pending.call /\ pending'.owner = pending.owner
      BY <1>16, <3>1 DEF Expire, Pause
    <3>. QED BY <1>16, <2>2, <3>2, NoneAssumption DEF Expire
  <2>3. CASE Taken(tail.call)
    BY <1>16, <2>3 DEF Expire
  <2>4. CASE sess # "open" /\ \A r2 \in Reqs : ~Working(r2)
    BY <1>16, <2>4 DEF Expire
  <2>. QED BY <2>0, <2>1, <2>2, <2>3, <2>4
<1>17. ASSUME NEW r \in Reqs, Disconnect(r)
      PROVE  Accounted'
  BY <1>17 DEF Disconnect
<1>18. ASSUME Restart
      PROVE  Accounted'
  BY <1>18 DEF Restart
<1>19. CASE UNCHANGED vars
  BY <1>19 DEF vars
<1>. QED
  BY <1>1, <1>2, <1>3, <1>4, <1>5, <1>6, <1>7, <1>8, <1>9, <1>10, <1>11,
     <1>12, <1>13, <1>14, <1>15, <1>16, <1>17, <1>18, <1>19 DEF Next,
     ServerStep

\* While a tool_use message waits for its answer, only the request that has taken
\* it over is about to record anything.
LEMMA WhoRecords ==
  ASSUME AInv, NEW r \in Reqs, pc[r] \in {"admitted", "turn"}, tail.kind = "toolUse", Undisturbed(tail.call)
  PROVE  pc[r] = "admitted" /\ claim[r] # None
<1>. USE DEF AInv, IInv, TypeOK, Asked, OneLogicalTurn, Engaged, Working, Holding
<1>1. CASE pc[tail.call] = "paused"
  BY <1>1
<1>2. CASE pending # None
  BY <1>2
<1>3. CASE Taken(tail.call)
  BY <1>3 DEF Taken, Answering
<1>4. CASE sess # "open" /\ \A q \in Reqs : ~Working(q)
  BY <1>4
<1>. QED
  BY <1>1, <1>2, <1>3, <1>4 DEF Accounted

LEMMA AInit ==
  ASSUME Init
  PROVE  AInv
BY InitIInv DEF Init, AInv, Accounted, Asked, NoMessage

LEMMA AInvStep ==
  ASSUME AInv, [Next]_vars
  PROVE  AInv'
<1>1. IInv'
  BY TypeOKStep, GatesCreatedStep, SingleGateStep, ExclusiveStep, ClosedFirstStep,
     CallsSaneStep, OneLogicalTurnStep DEF AInv, IInv
<1>. QED
  BY <1>1, AskedStep, AccountedStep DEF AInv

LEMMA AInvariance == Spec => []AInv
<1>1. Init => AInv
  BY AInit
<1>2. AInv /\ [Next]_vars => AInv'
  BY AInvStep
<1>. QED
  BY <1>1, <1>2, PTL DEF Spec

\* While the session is open somebody will answer its unanswered tool_use
\* message: the turn that made it, the owner it is parked under, or the request
\* that took it over (PendingTurn, claim_pending_turn).
THEOREM ToolUsesAccounted == Spec => []ToolUseAccounted
<1>1. AInv => ToolUseAccounted
  BY DEF AInv, Accounted, ToolUseAccounted, Taken, Answering, Holding
<1>. QED
  BY AInvariance, <1>1, PTL

\* No message comes between a tool_use message and its answer, and no answer
\* without one (merge_tool_results, cancel_abandoned_tool_uses).
THEOREM Answers == Spec => AnsweredInPlace
<1>. DEFINE A == /\ tail.kind = "toolUse" /\ Undisturbed(tail.call) => tail' = AnswerTo(tail.call)
                 /\ tail'.kind = "answer" => tail = ToolUse(tail'.call)
<1>1. AInv /\ [Next]_vars => [A]_tail
  <2>. SUFFICES ASSUME AInv, [Next]_vars, tail' # tail PROVE A
    OBVIOUS
  <2>1. ASSUME NEW r \in Reqs, RecordMessage(r) \/ RunTurn(r) \/ Compact(r)
        PROVE  A
    <3>1. tail.kind = "toolUse" => tail = ToolUse(tail.call)
      BY DEF AInv, IInv, TypeOK, Newest, ToolUse
    <3>2. tail.kind = "toolUse" /\ Undisturbed(tail.call) => pc[r] = "admitted" /\ claim[r] # None
      BY <2>1, WhoRecords DEF RecordMessage, RunTurn, Compact
    <3>3. \/ tail.kind = "toolUse" /\ tail' = AnswerTo(tail.call)
          \/ ~(pc[r] = "admitted" /\ claim[r] # None) /\ tail'.kind # "answer"
      BY <2>1 DEF RecordMessage, RunTurn, Compact, CloseSession, Merges, UserMessage, AssistantMessage, ToolUse
    <3>4. AnswerTo(tail.call).call = tail.call
      BY DEF AnswerTo
    <3>. QED
      BY <3>1, <3>2, <3>3, <3>4
  <2>2. \E r \in Reqs : RecordMessage(r) \/ RunTurn(r) \/ Compact(r)
    BY DEF Next, vars, ServerStep, RegisterDriver, InsertDriver, Accept, ClaimPause, Enqueue, Grant,
           StartCompact, PollPause, ReadSession, Park, StartClose, RemoveRuntime, Expire, Disconnect, Restart
  <2>. QED
    BY <2>1, <2>2
<1>. QED
  BY AInvariance, <1>1, PTL DEF Spec, AnsweredInPlace

-----------------------------------------------------------------------------
(***************************************************************************)
(* TurnGate implements TurnOwnership: mapped through LogicalTurn, every    *)
(* step of the gate is a step of the ownership of logical turns or leaves  *)
(* it alone.  The invariant IInv makes the mapping well defined: without   *)
(* mutual exclusion the CHOOSE of LogicalTurn would pick one of several    *)
(* owners.                                                                 *)
(***************************************************************************)
RunningTurn(r) == [phase |-> "running", lapsed |-> FALSE, owner |-> msg[r].client]
PausedTurn == [phase |-> "paused", owner |-> pending.owner, lapsed |-> pending.expired]

\* What LogicalTurn is, without the CHOOSE.
LogicalTurnIs ==
  /\ \A r \in Reqs : Engaged(r) => LogicalTurn = RunningTurn(r)
  /\ (\A r \in Reqs : ~Engaged(r)) /\ pending # None => LogicalTurn = PausedTurn
  /\ (\A r \in Reqs : ~Engaged(r)) /\ pending = None => LogicalTurn = None

\* Under the invariant, the logical turn is the one the mapping names.
LEMMA LogicalTurnLemma == IInv => LogicalTurnIs
<1>. SUFFICES ASSUME IInv PROVE LogicalTurnIs
  OBVIOUS
<1>1. ASSUME NEW r \in Reqs, Engaged(r) PROVE LogicalTurn = RunningTurn(r)
  <2>1. (CHOOSE q \in Reqs : Engaged(q)) = r
    BY <1>1 DEF IInv, OneLogicalTurn
  <2>. QED
    BY <1>1, <2>1 DEF LogicalTurn, RunningTurn
<1>2. ASSUME \A r \in Reqs : ~Engaged(r)
      PROVE  LogicalTurn = IF pending # None THEN PausedTurn ELSE None
  BY <1>2 DEF LogicalTurn, PausedTurn
<1>. QED
  BY <1>1, <1>2 DEF LogicalTurnIs

\* A turn is a record, never None, and its owner is a client.
LEMMA TurnTypes ==
  ASSUME IInv
  PROVE  /\ \A r \in Reqs : Engaged(r) => /\ msg[r].client \in Clients
                                          /\ RunningTurn(r) # None
         /\ pending # None => PausedTurn # None
<1>1. ASSUME NEW r \in Reqs, Engaged(r)
      PROVE  msg[r].client \in Clients /\ RunningTurn(r) # None
  <2>1. msg[r] \in Message
    BY <1>1 DEF IInv, CallsSane, Engaged, Working, Holding
  <2>2. msg[r].client \in Clients
    BY <2>1 DEF Message
  <2>3. RunningTurn(r) \in Ownership!Turn
    BY <2>2 DEF RunningTurn, Ownership!Turn
  <2>. QED
    BY <2>2, <2>3, TurnAssumption
<1>2. ASSUME pending # None PROVE PausedTurn # None
  <2>1. pending \in Pause
    BY <1>2 DEF IInv, TypeOK
  <2>2. PausedTurn \in Ownership!Turn
    BY <2>1 DEF PausedTurn, Pause, Ownership!Turn
  <2>. QED
    BY <2>2, TurnAssumption
<1>. QED
  BY <1>1, <1>2

\* Nothing that TurnOwnership sees.
LEMMA Unseen ==
  ASSUME IInv, IInv', LogicalTurnIs, LogicalTurnIs',
         UNCHANGED <<sess, pending>>,
         \A r \in Reqs : Engaged(r)' <=> Engaged(r),
         \A r \in Reqs : Engaged(r) => msg'[r] = msg[r]
  PROVE  UNCHANGED <<sess, LogicalTurn>>
<1>1. CASE \E r \in Reqs : Engaged(r)
  BY <1>1 DEF LogicalTurnIs, RunningTurn
<1>2. CASE \A r \in Reqs : ~Engaged(r)
  BY <1>2 DEF LogicalTurnIs, PausedTurn
<1>. QED
  BY <1>1, <1>2

\* A request that takes a pause over continues its turn.
LEMMA TakeOverContinues ==
  ASSUME IInv, IInv', LogicalTurnIs, LogicalTurnIs', UNCHANGED <<sess, msg>>,
         NEW r \in Reqs, NEW t \in BOOLEAN, TakeOver(r, t),
         MayResume(r) \/ MayRetire(r), msg[r] \in Message
  PROVE  Ownership!Next
<1>1. pending # None /\ (pending.owner = msg[r].client \/ pending.expired)
  BY DEF MayResume, MayRetire
<1>2. LogicalTurn = PausedTurn /\ PausedTurn # None
  BY <1>1, TurnTypes DEF LogicalTurnIs, IInv, OneLogicalTurn
<1>3. LogicalTurn' = Ownership!Running(msg[r].client)
  <2>1. Engaged(r)'
    <3>1. pending \in Pause
      BY <1>1 DEF IInv, TypeOK
    <3>2. [call |-> pending.call, timedOut |-> t] # None
      BY <3>1, NoneAssumption DEF Pause, Claim
    <3>. QED
      BY <3>2 DEF TakeOver, Engaged, Holding, IInv, TypeOK
  <2>. QED
    BY <2>1 DEF LogicalTurnIs, RunningTurn, Ownership!Running
<1>4. msg[r].client \in Clients
  BY DEF Message
<1>5. Ownership!Continue(msg[r].client)
  BY <1>1, <1>2, <1>3 DEF Ownership!Continue, PausedTurn
<1>. QED
  BY <1>4, <1>5 DEF Ownership!Next

\* A request that returns ends its turn, with or without the session.
LEMMA ReturnEnds ==
  ASSUME IInv, IInv', LogicalTurnIs, LogicalTurnIs', UNCHANGED pending,
         NEW r \in Reqs, Engaged(r), ~Engaged(r)',
         \A q \in Reqs \ {r} : Engaged(q)' => Engaged(q),
         sess' = sess \/ (sess = "open" /\ sess' \in {"closed", "error"})
  PROVE  Ownership!Next
<1>1. LogicalTurn = RunningTurn(r) /\ RunningTurn(r) # None
  BY TurnTypes DEF LogicalTurnIs
<1>2. LogicalTurn' = None
  BY DEF LogicalTurnIs, IInv, OneLogicalTurn
<1>. QED
  BY <1>1, <1>2 DEF Ownership!Next, Ownership!End, Ownership!SessionStep

\* Every step of the gate is a step of the ownership of logical turns, or one
\* that it does not see.
LEMMA RefinementStep ==
  ASSUME IInv, IInv', LogicalTurnIs, LogicalTurnIs', [Next]_vars
  PROVE  [Ownership!Next]_<<sess, LogicalTurn>>
<1>1. ASSUME NEW c \in Clients, RegisterDriver(c)
      PROVE  [Ownership!Next]_<<sess, LogicalTurn>>
  BY <1>1, Unseen DEF RegisterDriver, Engaged, Working, Holding, IInv, TypeOK, CallsSane
<1>2. ASSUME NEW c \in Clients, InsertDriver(c)
      PROVE  [Ownership!Next]_<<sess, LogicalTurn>>
  BY <1>2, Unseen DEF InsertDriver, Engaged, Working, Holding, IInv, TypeOK, CallsSane
<1>3. ASSUME NEW r \in Reqs, NEW m \in Message, Accept(r, m)
      PROVE  [Ownership!Next]_<<sess, LogicalTurn>>
  BY <1>3, Unseen DEF Accept, Engaged, Working, Holding, IInv, TypeOK, CallsSane
<1>4. ASSUME NEW r \in Reqs, ClaimPause(r)
      PROVE  [Ownership!Next]_<<sess, LogicalTurn>>
  <2>1. msg[r] \in Message
    BY <1>4 DEF ClaimPause, IInv, CallsSane
  <2>2. CASE MustQueue(r) /\ pc' = [pc EXCEPT ![r] = "enqueuing"] /\ UNCHANGED <<pending, gate, claim>>
    BY <1>4, <2>2, Unseen DEF ClaimPause, Engaged, Working, Holding, IInv, TypeOK
  <2>3. CASE \E t \in BOOLEAN : (MayResume(r) \/ MayRetire(r)) /\ TakeOver(r, t)
    BY <1>4, <2>1, <2>3, TakeOverContinues DEF ClaimPause
  <2>. QED
    BY <1>4, <2>2, <2>3 DEF ClaimPause
<1>5. ASSUME NEW r \in Reqs, Enqueue(r)
      PROVE  [Ownership!Next]_<<sess, LogicalTurn>>
  BY <1>5, Unseen DEF Enqueue, Engaged, Working, Holding, IInv, TypeOK, CallsSane
<1>6. ASSUME NEW r \in Reqs, Grant(r)
      PROVE  [Ownership!Next]_<<sess, LogicalTurn>>
  BY <1>6, Unseen DEF Grant, Engaged, Working, Holding, IInv, TypeOK, CallsSane
<1>7. ASSUME NEW r \in Reqs, StartCompact(r)
      PROVE  [Ownership!Next]_<<sess, LogicalTurn>>
  BY <1>7, Unseen DEF StartCompact, Engaged, Working, Holding, IInv, TypeOK, CallsSane
<1>8. ASSUME NEW r \in Reqs, PollPause(r)
      PROVE  [Ownership!Next]_<<sess, LogicalTurn>>
  <2>1. msg[r] \in Message /\ ~Engaged(r)
    BY <1>8 DEF PollPause, IInv, CallsSane, Engaged, Working, Holding
  <2>2. CASE UNCHANGED <<pending, gate, claim>> /\ (pc' = [pc EXCEPT ![r] = "done"] \/ pc' = [pc EXCEPT ![r] = "queued"])
    BY <1>8, <2>1, <2>2, Unseen DEF PollPause, Engaged, Working, Holding, IInv, TypeOK
  <2>3. CASE MayRetire(r) /\ TakeOver(r, TRUE)
    BY <1>8, <2>1, <2>3, TakeOverContinues DEF PollPause
  <2>. QED
    BY <1>8, <2>2, <2>3 DEF PollPause
<1>9. ASSUME NEW r \in Reqs, ReadSession(r)
      PROVE  [Ownership!Next]_<<sess, LogicalTurn>>
  <2>1. CASE sess = "open" /\ claim[r] = None
    <3>1. Engaged(r)' /\ ~Engaged(r) /\ \A q \in Reqs \ {r} : Engaged(q)' <=> Engaged(q)
      BY <1>9, <2>1 DEF ReadSession, Engaged, Working, Holding, IInv, TypeOK
    <3>2. (\A q \in Reqs : ~Engaged(q)) /\ pending = None
      BY <1>9, <3>1 DEF ReadSession, IInv, OneLogicalTurn
    <3>3. LogicalTurn = None /\ LogicalTurn' = RunningTurn(r)'
      BY <3>1, <3>2 DEF LogicalTurnIs
    <3>4. msg[r].client \in Clients
      BY <1>9 DEF ReadSession, IInv, CallsSane, Message
    <3>5. Ownership!Begin(msg[r].client)
      BY <1>9, <2>1, <3>3 DEF ReadSession, RunningTurn, Ownership!Begin, Ownership!Running
    <3>. QED
      BY <3>4, <3>5 DEF Ownership!Next
  <2>2. CASE sess = "open" /\ claim[r] # None
    BY <1>9, <2>2, Unseen DEF ReadSession, Engaged, Working, Holding, IInv, TypeOK
  <2>3. CASE sess # "open" /\ claim[r] = None
    BY <1>9, <2>3, Unseen DEF ReadSession, Engaged, Working, Holding, IInv, TypeOK
  <2>4. CASE sess # "open" /\ claim[r] # None
    BY <1>9, <2>4, ReturnEnds DEF ReadSession, Engaged, Working, Holding, IInv, TypeOK
  <2>. QED
    BY <2>1, <2>2, <2>3, <2>4
<1>10. ASSUME NEW r \in Reqs, RecordMessage(r)
       PROVE  [Ownership!Next]_<<sess, LogicalTurn>>
  <2>1. CASE pc'[r] = "done"
    BY <1>10, <2>1, ReturnEnds DEF RecordMessage, CloseSession, Engaged, Working, Holding, IInv, TypeOK
  <2>2. CASE pc'[r] # "done"
    BY <1>10, <2>2, Unseen DEF RecordMessage, CloseSession, Engaged, Working, Holding, IInv, TypeOK
  <2>. QED
    BY <2>1, <2>2
<1>11. ASSUME NEW r \in Reqs, RunTurn(r)
       PROVE  [Ownership!Next]_<<sess, LogicalTurn>>
  <2>1. CASE pc'[r] = "done"
    BY <1>11, <2>1, ReturnEnds DEF RunTurn, CloseSession, Engaged, Working, Holding, IInv, TypeOK
  <2>2. CASE pc'[r] # "done"
    BY <1>11, <2>2, Unseen DEF RunTurn, CloseSession, Engaged, Working, Holding, IInv, TypeOK
  <2>. QED
    BY <2>1, <2>2
<1>12. ASSUME NEW r \in Reqs, Park(r)
       PROVE  [Ownership!Next]_<<sess, LogicalTurn>>
  <2>1. Engaged(r) /\ \A q \in Reqs : ~Engaged(q)'
    BY <1>12 DEF Park, Engaged, Working, Holding, IInv, TypeOK, OneLogicalTurn
  <2>2. msg[r] \in Message
    BY <1>12 DEF Park, IInv, CallsSane
  <2>3. pending' # None
    <3>1. pending' \in Pause
      BY <1>12, <2>2 DEF Park, Pause, Message, IInv, TypeOK
    <3>. QED
      BY <3>1, NoneAssumption
  <2>4. LogicalTurn = RunningTurn(r) /\ LogicalTurn' = PausedTurn' /\ RunningTurn(r) # None
    BY <2>1, <2>3, TurnTypes DEF LogicalTurnIs
  <2>5. Ownership!Pause
    BY <1>12, <2>4 DEF Park, RunningTurn, PausedTurn, Ownership!Pause, Ownership!Paused
  <2>. QED
    BY <2>5 DEF Ownership!Next
<1>13. ASSUME NEW r \in Reqs, Compact(r)
       PROVE  [Ownership!Next]_<<sess, LogicalTurn>>
  <2>1. CASE pc'[r] = "done"
    BY <1>13, <2>1, ReturnEnds DEF Compact, CloseSession, Engaged, Working, Holding, IInv, TypeOK
  <2>2. CASE pc'[r] # "done"
    BY <1>13, <2>2, Unseen DEF Compact, CloseSession, Engaged, Working, Holding, IInv, TypeOK
  <2>. QED
    BY <2>1, <2>2
<1>14. ASSUME NEW d \in Closers, StartClose(d)
       PROVE  [Ownership!Next]_<<sess, LogicalTurn>>
  <2>1. UNCHANGED LogicalTurn
    BY <1>14 DEF StartClose, LogicalTurn, Engaged, Working, Holding
  <2>. QED
    BY <1>14, <2>1 DEF StartClose, CloseSession, Ownership!Next, Ownership!Terminate,
       Ownership!SessionStep
<1>15. ASSUME NEW d \in Closers, RemoveRuntime(d)
       PROVE  [Ownership!Next]_<<sess, LogicalTurn>>
  <2>1. CASE UNCHANGED pending
    BY <1>15, <2>1, Unseen DEF RemoveRuntime, Engaged, Working, Holding
  <2>2. CASE pending # None /\ pending' = None
    <3>1. LogicalTurn = PausedTurn /\ PausedTurn # None
      BY <2>2, TurnTypes DEF LogicalTurnIs, IInv, OneLogicalTurn
    <3>2. LogicalTurn' = None
      BY <1>15, <2>2 DEF RemoveRuntime, LogicalTurnIs, IInv, OneLogicalTurn, Engaged,
         Working, Holding
    <3>. QED
      BY <1>15, <3>1, <3>2 DEF RemoveRuntime, Ownership!Next, Ownership!End,
         Ownership!SessionStep
  <2>. QED
    BY <1>15, <2>1, <2>2 DEF RemoveRuntime
<1>16. ASSUME Expire
       PROVE  [Ownership!Next]_<<sess, LogicalTurn>>
  <2>1. pending \in Pause /\ pending' \in Pause
    BY <1>16, NoneAssumption DEF Expire, IInv, TypeOK, Pause
  <2>2. pending' # None /\ \A r \in Reqs : ~Engaged(r) /\ ~Engaged(r)'
    BY <1>16, <2>1, NoneAssumption DEF Expire, IInv, OneLogicalTurn
  <2>3. LogicalTurn = PausedTurn /\ PausedTurn # None /\ LogicalTurn' = PausedTurn'
    BY <1>16, <2>2, TurnTypes DEF Expire, LogicalTurnIs
  <2>4. pending'.owner = pending.owner /\ pending'.expired = TRUE
    BY <1>16, <2>1 DEF Expire, Pause
  <2>5. LogicalTurn' = Ownership!Lapsed(LogicalTurn.owner) /\ LogicalTurn.phase = "paused"
    BY <2>3, <2>4 DEF PausedTurn, Ownership!Lapsed
  <2>6. Ownership!Lapse
    BY <1>16, <2>3, <2>5 DEF Expire, Ownership!Lapse
  <2>. QED
    BY <2>6 DEF Ownership!Next
<1>17. ASSUME NEW r \in Reqs, Disconnect(r)
       PROVE  [Ownership!Next]_<<sess, LogicalTurn>>
  BY <1>17, ReturnEnds DEF Disconnect, Engaged, Working, Holding, IInv, TypeOK
<1>18. ASSUME Restart
       PROVE  [Ownership!Next]_<<sess, LogicalTurn>>
  <2>1. LogicalTurn' = None
    BY <1>18 DEF Restart, LogicalTurnIs, Engaged, Working, Holding
  <2>. QED
    BY <1>18, <2>1 DEF Restart, Ownership!Next, Ownership!End, Ownership!SessionStep
<1>19. CASE UNCHANGED vars
  BY <1>19 DEF vars, LogicalTurn, Engaged, Working, Holding
<1>. QED
  BY <1>1, <1>2, <1>3, <1>4, <1>5, <1>6, <1>7, <1>8, <1>9, <1>10, <1>11, <1>12,
     <1>13, <1>14, <1>15, <1>16, <1>17, <1>18, <1>19 DEF Next, ServerStep

\* The gate, its FIFO queue and the parked guards implement the abstract
\* ownership of logical turns, through closes, disconnects and restarts, for
\* every number of drivers, calls and close requests.
THEOREM Refinement == Spec => ImplementsOwnership
<1>1. Init => Ownership!Init
  BY DEF Init, Ownership!Init, LogicalTurn, Engaged, Working, Holding
<1>2. IInv /\ IInv' /\ LogicalTurnIs /\ LogicalTurnIs' /\ [Next]_vars
        => [Ownership!Next]_<<sess, LogicalTurn>>
  BY RefinementStep
<1>. QED
  BY Invariance, LogicalTurnLemma, <1>1, <1>2, PTL
     DEF Spec, ImplementsOwnership, Ownership!Spec

-----------------------------------------------------------------------------
(***************************************************************************)
(* The sessions of the SDK over the gate: what a send vouches for is in    *)
(* the log.  The tool_use messages of a send are answered one by one: all  *)
(* but the last have been, and the last one is what the message under way  *)
(* answers.  Once that message's turn runs it has been merged, and no      *)
(* other of the Session's requests is heard in its place.                  *)
(***************************************************************************)

\* Where the tool loop of a Session is, its tool_use messages are answered up to
\* the one it works on or has posted the results of.
Looping(c) ==
  /\ session[c].at \notin {"send", "compact"} => session[c].said = "nothing"
  /\ session[c].at \notin {"send", "tools"} => session[c].trail = {}
  /\ session[c].at = "tools" =>
       session[c].req \in Reqs /\ session[c].trail \subseteq brought \cup {session[c].req}

\* A message that is posted answers the last; what runs has been merged.
Posted(c) ==
  session[c].at = "send" =>
    LET r == session[c].req
    IN  /\ r \in Reqs /\ pc[r] # "idle" /\ msg[r] # None /\ msg[r].method = "send"
        /\ session[c].trail \subseteq brought \cup {msg[r].answers}
        /\ pc[r] \in {"turn", "paused"} \/ session[c].said \in {"final", "tools"} =>
             session[c].trail \subseteq brought

SdkTypes ==
  /\ session \in [Clients -> Doing]
  /\ fails \in 0 .. MaxFails /\ brought \subseteq Reqs /\ vouched \subseteq Reqs

Loops   == SdkTypes /\ ResultsReachTheLog /\ \A c \in Clients : Looping(c) /\ Posted(c)
LoopInv == AInv /\ Loops

\* A request that is not in use is found.
LEMMA FreshIsUnused ==
  ASSUME Unused # {}
  PROVE  Fresh \in Unused
<1>1. Unused \in SUBSET Nat
  BY HarnessAssumption DEF Unused
<1>2. PICK r \in Unused : \A q \in Unused : <<q, r>> \notin OpToRel(<, Nat)
  BY <1>1, WFMin, NatLessThanWellFounded
<1>3. OpToRel(<, Nat) = {ss \in Nat \X Nat : ss[1] < ss[2]}
  BY Zenon DEF OpToRel
<1>4. ASSUME NEW q \in Unused
      PROVE  r <= q
  <2>1. q \in Nat /\ r \in Nat /\ <<q, r>> \in Nat \X Nat
    BY <1>1
  <2>2. ~ (<<q, r>>[1] < <<q, r>>[2])
    BY <1>2, <1>3, <2>1
  <2>. QED
    BY <2>1, <2>2
<1>. QED
  BY <1>4 DEF Fresh

\* What a step of the server does to its request and to the others.
LEMMA Served ==
  ASSUME AInv, NEW r \in Reqs, ServerStep(r)
  PROVE  /\ UNCHANGED msg /\ pc[r] # "idle" /\ pc'[r] # "idle"
         /\ \A q \in Reqs \ {r} : pc'[q] = pc[q]
         /\ tail' # tail /\ tail'.kind = "answer" => tail'.call \in Reqs
         /\ pc'[r] \in {"turn", "paused"} =>
              \/ pc[r] \in {"turn", "paused"}
              \/ msg[r].answers = None
              \/ tail' # tail /\ tail'.kind = "answer" /\ msg[r].answers = tail'.call
<1>. USE DEF AInv, IInv, TypeOK, Asked
<1>1. CASE ClaimPause(r)
  BY <1>1 DEF ClaimPause, TakeOver
<1>2. CASE Enqueue(r)
  BY <1>2 DEF Enqueue
<1>3. CASE Grant(r)
  BY <1>3 DEF Grant
<1>4. CASE StartCompact(r)
  BY <1>4 DEF StartCompact
<1>5. CASE PollPause(r)
  BY <1>5 DEF PollPause, TakeOver
<1>6. CASE ReadSession(r)
  BY <1>6 DEF ReadSession
<1>7. CASE RecordMessage(r)
  <2>1. UNCHANGED msg /\ pc[r] = "admitted" /\ \A q \in Reqs \ {r} : pc'[q] = pc[q]
    BY <1>7 DEF RecordMessage
  <2>2. CASE claim[r] # None /\ Merges(r) /\ tail' = AnswerTo(tail.call) /\ pc' = [pc EXCEPT ![r] = "turn"]
    <3>1. tail.kind = "toolUse" /\ tail.call \in Reqs
      BY <2>2 DEF Merges
    <3>2. tail'.kind = "answer" /\ tail'.call = tail.call /\ tail' # tail
      BY <2>2, <3>1 DEF AnswerTo
    <3>. QED
      BY <2>1, <2>2, <3>1, <3>2 DEF Merges
  <2>3. CASE tail' = UserMessage /\ msg[r].answers = None /\ pc' = [pc EXCEPT ![r] = "turn"]
    BY <2>1, <2>3 DEF UserMessage
  <2>4. CASE UNCHANGED tail /\ pc' = [pc EXCEPT ![r] = "done"]
    BY <2>1, <2>4
  <2>. QED
    BY <1>7, <2>2, <2>3, <2>4 DEF RecordMessage
<1>8. CASE RunTurn(r)
  BY <1>8 DEF RunTurn, AssistantMessage, ToolUse
<1>9. CASE Park(r)
  BY <1>9 DEF Park
<1>10. CASE Compact(r)
  BY <1>10 DEF Compact, AnswerTo, AssistantMessage
<1>. QED
  BY <1>1, <1>2, <1>3, <1>4, <1>5, <1>6, <1>7, <1>8, <1>9, <1>10 DEF ServerStep

\* Every step of the Sessions is a step of the gate, or leaves it alone.
LEMMA GateStep ==
  ASSUME Loops, [HarnessNext]_allVars
  PROVE  [Next]_vars
<1>1. ASSUME NEW c \in Clients, Connect(c) \/ Connected(c) \/ CallClose(c)
      PROVE  [Next]_vars
  BY <1>1 DEF Connect, Connected, CallClose, Next
<1>2. ASSUME NEW c \in Clients, Send(c) \/ CallCompact(c)
      PROVE  [Next]_vars
  <2>1. Fresh \in Reqs
    BY <1>2, FreshIsUnused DEF Send, CallCompact, Spare, Unused
  <2>2. \E m \in Message : Accept(Fresh, m)
    BY <1>2 DEF Send, CallCompact, Message
  <2>. QED
    BY <2>1, <2>2 DEF Next
<1>3. ASSUME NEW c \in Clients, Results(c)
      PROVE  [Next]_vars
  <2>1. CASE UNCHANGED gateVars
    BY <2>1 DEF gateVars, vars
  <2>2. CASE Unused # {} /\ Accept(Fresh, [method |-> "send", client |-> c, answers |-> session[c].req])
    <3>1. Fresh \in Reqs
      BY <2>2, FreshIsUnused DEF Unused
    <3>2. session[c].req \in Reqs
      BY <1>3 DEF Results, Loops, Looping
    <3>3. [method |-> "send", client |-> c, answers |-> session[c].req] \in Message
      BY <3>2 DEF Message
    <3>. QED
      BY <2>2, <3>1, <3>3 DEF Next
  <2>. QED
    BY <1>3, <2>1, <2>2 DEF Results
<1>4. ASSUME NEW c \in Clients, Closed(c) \/ Hear(c) \/ RunTool(c) \/ GiveUp(c)
      PROVE  [Next]_vars
  BY <1>4 DEF Closed, Hear, RunTool, GiveUp, gateVars, vars
<1>5. ASSUME NEW r \in Reqs, Serve(r)
      PROVE  [Next]_vars
  BY <1>5 DEF Serve, Next
<1>6. CASE Lapses \/ Clears \/ Breaks
  BY <1>6 DEF Lapses, Clears, Breaks, Next
<1>7. CASE UNCHANGED allVars
  BY <1>7 DEF allVars, vars
<1>. QED
  BY <1>1, <1>2, <1>3, <1>4, <1>5, <1>6, <1>7, HarnessAssumption DEF HarnessNext, Step

LEMMA IdleIsDoing == Idle \in Doing /\ Idle.at = "idle" /\ Idle.said = "nothing" /\ Idle.trail = {}
BY HarnessAssumption DEF Idle, Unborn, Doing

\* A Session that starts a message or a compaction takes a request nobody uses.
LEMMA Accepted ==
  ASSUME AInv, Loops, NEW c \in Clients, NEW m \in Message, Unused # {}, Accept(Fresh, m),
         session' = [session EXCEPT ![c].at = m.method, ![c].req = Fresh],
         session[c].at \in {"idle", "tools"}, UNCHANGED <<fails, brought, vouched>>,
         session[c].trail \subseteq brought \cup {m.answers},
         m.method = "compact" => session[c].trail = {}
  PROVE  Loops'
<1>. USE DEF Loops, SdkTypes
<1>1. Fresh \in Reqs /\ pc[Fresh] = "idle"
  BY FreshIsUnused DEF Unused
<1>2. /\ msg'[Fresh] = m /\ pc'[Fresh] = "accepted"
      /\ \A q \in Reqs \ {Fresh} : msg'[q] = msg[q] /\ pc'[q] = pc[q]
  BY <1>1 DEF Accept, AInv, IInv, TypeOK
<1>3. session[c] \in Doing /\ session[c].said = "nothing"
  BY DEF Looping
<1>4. m.method \in {"send", "compact"} /\ m # None
  BY NoneAssumption DEF Message
<1>5. /\ session'[c] \in Doing /\ session'[c].at = m.method /\ session'[c].req = Fresh
      /\ session'[c].said = "nothing" /\ session'[c].trail = session[c].trail
  BY <1>1, <1>3, <1>4 DEF Doing
<1>6. \A d \in Clients \ {c} : session'[d] = session[d]
  OBVIOUS
<1>7. \A d \in Clients \ {c} : Looping(d)' /\ Posted(d)'
  BY <1>1, <1>2, <1>6 DEF Looping, Posted
<1>8. Looping(c)' /\ Posted(c)'
  <2>1. Looping(c)'
    BY <1>4, <1>5 DEF Looping
  <2>2. msg'[session'[c].req] = m /\ pc'[session'[c].req] = "accepted" /\ session'[c].req \in Reqs
    BY <1>1, <1>2, <1>5
  <2>. QED
    BY <1>4, <1>5, <2>1, <2>2 DEF Posted
<1>9. SdkTypes'
  BY <1>5
<1>. QED
  BY <1>7, <1>8, <1>9 DEF ResultsReachTheLog

\* A Session that goes to a step in which it waits for no request.
LEMMA Moved ==
  ASSUME Loops, NEW c \in Clients, NEW v \in Doing, session' = [session EXCEPT ![c] = v],
         UNCHANGED <<msg, pc, brought>>, fails' \in 0 .. MaxFails,
         \/ UNCHANGED vouched
         \/ vouched' = vouched \cup session[c].trail /\ session[c].trail \subseteq brought,
         v.at \notin {"send", "compact"}, v.said = "nothing", v.at # "tools" => v.trail = {},
         v.at = "tools" => v.req \in Reqs /\ v.trail \subseteq brought \cup {v.req}
  PROVE  Loops'
<1>. USE DEF Loops, SdkTypes
<1>1. session'[c] = v /\ \A d \in Clients \ {c} : session'[d] = session[d]
  OBVIOUS
<1>2. \A d \in Clients \ {c} : Looping(d)' /\ Posted(d)'
  BY <1>1 DEF Looping, Posted
<1>3. Looping(c)' /\ Posted(c)'
  BY <1>1 DEF Looping, Posted
<1>4. vouched' \subseteq brought'
  BY DEF ResultsReachTheLog
<1>. QED
  BY <1>2, <1>3, <1>4 DEF ResultsReachTheLog

\* A Session that hears its terminal frame.
LEMMA Heard ==
  ASSUME Loops, NEW c \in Clients, Hear(c)
  PROVE  Loops'
<1>. USE DEF Loops, SdkTypes
<1>1. PICK r \in Reqs : /\ Waiting(c, r) /\ UNCHANGED <<gateVars, fails, brought>>
                        /\ \/ session[c].said = "final" /\ vouched' = vouched \cup session[c].trail
                              /\ session' = [session EXCEPT ![c] = Idle]
                           \/ session[c].said = "tools" /\ UNCHANGED vouched
                              /\ \E n \in 1 .. MaxCalls :
                                   session' = [session EXCEPT ![c] =
                                     [Idle EXCEPT !.at = "tools", !.req = r, !.left = n,
                                                  !.trail = session[c].trail \cup {r}]]
                           \/ UNCHANGED vouched /\ session' = [session EXCEPT ![c] = Idle]
  BY DEF Hear
<1>2. session[c] \in Doing /\ session[c].at \in {"send", "compact"} /\ UNCHANGED <<msg, pc, brought>>
  BY <1>1 DEF Waiting, gateVars, vars
<1>3. session[c].said \in {"final", "tools"} => session[c].trail \subseteq brought
  BY <1>2 DEF Looping, Posted
<1>4. CASE session' = [session EXCEPT ![c] = Idle] /\ vouched' \in {vouched, vouched \cup session[c].trail}
           /\ (vouched' = vouched \/ session[c].said = "final")
  BY <1>1, <1>2, <1>3, <1>4, IdleIsDoing, Moved
<1>5. CASE session[c].said = "tools" /\ UNCHANGED vouched
           /\ \E n \in 1 .. MaxCalls :
                session' = [session EXCEPT ![c] =
                  [Idle EXCEPT !.at = "tools", !.req = r, !.left = n,
                               !.trail = session[c].trail \cup {r}]]
  <2>1. PICK n \in 1 .. MaxCalls :
          session' = [session EXCEPT ![c] =
            [Idle EXCEPT !.at = "tools", !.req = r, !.left = n, !.trail = session[c].trail \cup {r}]]
    BY <1>5
  <2>2. session[c].trail \subseteq Reqs
    BY <1>2 DEF Doing
  <2>a. n \in 0 .. MaxCalls
    BY HarnessAssumption
  <2>. DEFINE v == [Idle EXCEPT !.at = "tools", !.req = r, !.left = n, !.trail = session[c].trail \cup {r}]
  <2>3. /\ v \in Doing /\ v.at = "tools" /\ v.req = r /\ v.said = "nothing"
        /\ v.trail = session[c].trail \cup {r}
    BY <2>2, <2>a, IdleIsDoing DEF Doing
  <2>4. session' = [session EXCEPT ![c] = v]
    BY <2>1
  <2>. HIDE DEF v
  <2>. QED
    BY <1>1, <1>2, <1>3, <1>5, <2>3, <2>4, Moved
<1>. QED
  BY <1>1, <1>4, <1>5

\* A step of the server, and what a Session that waits for its request hears.
LEMMA ServedLoops ==
  ASSUME AInv, Loops, NEW r \in Reqs, Serve(r)
  PROVE  Loops'
<1>. USE DEF Loops, SdkTypes
<1>1. /\ ServerStep(r) /\ UNCHANGED <<fails, vouched>>
      /\ session' = [c \in Clients |-> IF Waiting(c, r) THEN [session[c] EXCEPT !.said = Said(r)]
                                                       ELSE session[c]]
      /\ brought' = IF tail' # tail /\ tail'.kind = "answer" /\ msg[r].answers = tail'.call
                      THEN brought \cup {tail'.call} ELSE brought
  BY DEF Serve
<1>2. /\ UNCHANGED msg /\ pc[r] # "idle" /\ pc'[r] # "idle"
      /\ \A q \in Reqs \ {r} : pc'[q] = pc[q]
      /\ brought \subseteq brought' /\ brought' \subseteq Reqs
  BY <1>1, Served
<1>3. Said(r) \in {"nothing", "final", "tools", "error"}
  BY DEF Said
<1>4. ASSUME NEW c \in Clients, ~Waiting(c, r)
      PROVE  session'[c] \in Doing /\ Looping(c)' /\ Posted(c)'
  <2>1. session'[c] = session[c]
    BY <1>1, <1>4
  <2>2. session[c].at = "send" => session[c].req # r
    BY <1>4 DEF Waiting
  <2>. QED
    BY <1>2, <2>1, <2>2 DEF Looping, Posted
<1>5. ASSUME NEW c \in Clients, Waiting(c, r)
      PROVE  session'[c] \in Doing /\ Looping(c)' /\ Posted(c)'
  <2>1. session[c] \in Doing /\ session'[c] = [session[c] EXCEPT !.said = Said(r)]
    BY <1>1, <1>5
  <2>2. /\ session'[c] \in Doing /\ session'[c].said = Said(r) /\ session'[c].at = session[c].at
        /\ session'[c].req = session[c].req /\ session'[c].trail = session[c].trail
    BY <2>1, <1>3 DEF Doing
  <2>3. session[c].req = r /\ session[c].at \in {"send", "compact"} /\ session[c].trail \subseteq Reqs
    BY <1>5, <2>1 DEF Waiting, Doing
  <2>4. Looping(c)'
    BY <2>2, <2>3 DEF Looping
  <2>5. ASSUME session[c].at = "send", pc'[r] \in {"turn", "paused"} \/ Said(r) \in {"final", "tools"}
        PROVE  session[c].trail \subseteq brought'
    <3>1. /\ session[c].trail \subseteq brought \cup {msg[r].answers} /\ ~Compacting(r)
          /\ pc[r] \in {"turn", "paused"} => session[c].trail \subseteq brought
      BY <2>3, <2>5 DEF Posted, Compacting
    <3>2. CASE pc[r] \in {"turn", "paused"}
      BY <1>2, <3>1, <3>2
    <3>3. CASE pc[r] \notin {"turn", "paused"}
      <4>1. Said(r) \notin {"final", "tools"}
        BY <3>1, <3>3 DEF Said
      <4>2. \/ msg[r].answers = None
            \/ tail' # tail /\ tail'.kind = "answer" /\ msg[r].answers = tail'.call
        BY <1>1, <2>5, <3>3, <4>1, Served
      <4>3. CASE msg[r].answers = None
        BY <1>2, <2>3, <3>1, <4>3, NoneAssumption
      <4>4. CASE tail' # tail /\ tail'.kind = "answer" /\ msg[r].answers = tail'.call
        BY <1>1, <3>1, <4>4
      <4>. QED
        BY <4>2, <4>3, <4>4
    <3>. QED
      BY <3>2, <3>3
  <2>6. Posted(c)'
    <3>1. CASE session[c].at = "send"
      BY <1>2, <2>2, <2>3, <2>5, <3>1 DEF Posted
    <3>2. CASE session[c].at = "compact"
      BY <2>2, <3>2 DEF Posted
    <3>. QED
      BY <2>3, <3>1, <3>2
  <2>. QED
    BY <2>2, <2>4, <2>6
<1>6. session' \in [Clients -> Doing]
  BY <1>1, <1>4, <1>5
<1>. QED
  BY <1>1, <1>2, <1>4, <1>5, <1>6 DEF ResultsReachTheLog

LEMMA LoopStep ==
  ASSUME AInv, Loops, [HarnessNext]_allVars
  PROVE  Loops'
<1>. USE DEF Loops, SdkTypes
<1>1. ASSUME NEW c \in Clients, Connect(c) \/ CallClose(c)
      PROVE  Loops'
  <2>1. UNCHANGED <<msg, pc, brought, fails, vouched>> /\ session[c].at \in {"unborn", "idle"}
    BY <1>1 DEF Connect, CallClose, RegisterDriver, StartClose
  <2>2. PICK a \in {"connect", "close"} : session' = [session EXCEPT ![c].at = a]
    BY <1>1 DEF Connect, CallClose
  <2>. DEFINE v == [session[c] EXCEPT !.at = a]
  <2>3. v \in Doing /\ v.at = a /\ v.said = "nothing" /\ v.trail = {}
    BY <2>1 DEF Doing, Looping
  <2>4. session' = [session EXCEPT ![c] = v]
    BY <2>2
  <2>. HIDE DEF v
  <2>. QED
    BY <2>1, <2>3, <2>4, Moved
<1>2. ASSUME NEW c \in Clients, Connected(c) \/ GiveUp(c)
      PROVE  Loops'
  <2>1. UNCHANGED <<msg, pc, brought, vouched>> /\ session' = [session EXCEPT ![c] = Idle]
    BY <1>2 DEF Connected, GiveUp, InsertDriver, gateVars, vars
  <2>2. fails' \in 0 .. MaxFails
    BY <1>2, HarnessAssumption DEF Connected, GiveUp
  <2>. QED
    BY <2>1, <2>2, IdleIsDoing, Moved
<1>3. ASSUME NEW c \in Clients, Send(c) \/ CallCompact(c)
      PROVE  Loops'
  <2>1. PICK k \in {"send", "compact"} :
          /\ session[c].at = "idle" /\ Unused # {} /\ UNCHANGED <<fails, brought, vouched>>
          /\ Accept(Fresh, [method |-> k, client |-> c, answers |-> None])
          /\ session' = [session EXCEPT ![c].at = k, ![c].req = Fresh]
    BY <1>3 DEF Send, CallCompact, Spare
  <2>. DEFINE m == [method |-> k, client |-> c, answers |-> None]
  <2>2. m \in Message /\ m.method = k /\ m.answers = None /\ Accept(Fresh, m)
    BY <2>1 DEF Message
  <2>3. session[c].trail = {}
    BY <2>1 DEF Looping
  <2>. HIDE DEF m
  <2>. QED
    BY <2>1, <2>2, <2>3, Accepted
<1>4. ASSUME NEW c \in Clients, Closed(c)
      PROVE  Loops'
  <2>1. /\ UNCHANGED <<msg, pc, brought, fails, vouched>> /\ session[c].at = "close"
        /\ session' = [session EXCEPT ![c].at = "over"]
    BY <1>4 DEF Closed, gateVars, vars
  <2>. DEFINE v == [session[c] EXCEPT !.at = "over"]
  <2>2. v \in Doing /\ v.at = "over" /\ v.said = "nothing" /\ v.trail = {}
    BY <2>1 DEF Doing, Looping
  <2>3. session' = [session EXCEPT ![c] = v]
    BY <2>1
  <2>. HIDE DEF v
  <2>. QED
    BY <2>1, <2>2, <2>3, Moved
<1>5. ASSUME NEW c \in Clients, Hear(c)
      PROVE  Loops'
  BY <1>5, Heard
<1>6. ASSUME NEW c \in Clients, RunTool(c)
      PROVE  Loops'
  <2>1. /\ UNCHANGED <<msg, pc, brought, fails, vouched>> /\ session[c].at = "tools" /\ session[c].left > 0
        /\ session' = [session EXCEPT ![c].left = session[c].left - 1]
    BY <1>6 DEF RunTool, gateVars, vars
  <2>. DEFINE v == [session[c] EXCEPT !.left = session[c].left - 1]
  <2>2. session[c].left - 1 \in 0 .. MaxCalls
    BY <2>1, HarnessAssumption DEF Doing
  <2>3. /\ v \in Doing /\ v.at = "tools" /\ v.said = "nothing"
        /\ v.req = session[c].req /\ v.trail = session[c].trail
    BY <2>1, <2>2 DEF Doing, Looping
  <2>4. session' = [session EXCEPT ![c] = v]
    BY <2>1
  <2>5. session[c].req \in Reqs /\ session[c].trail \subseteq brought \cup {session[c].req}
    BY <2>1 DEF Looping
  <2>. HIDE DEF v
  <2>. QED
    BY <2>1, <2>3, <2>4, <2>5, Moved
<1>7. ASSUME NEW c \in Clients, Results(c)
      PROVE  Loops'
  <2>1. session[c].at = "tools" /\ UNCHANGED <<fails, brought, vouched>>
    BY <1>7 DEF Results
  <2>2. session[c].req \in Reqs /\ session[c].trail \subseteq brought \cup {session[c].req}
    BY <2>1 DEF Looping
  <2>3. CASE UNCHANGED gateVars /\ session' = [session EXCEPT ![c] = Idle]
    <3>1. UNCHANGED <<msg, pc>>
      BY <2>3 DEF gateVars, vars
    <3>. QED
      BY <2>1, <2>3, <3>1, IdleIsDoing, Moved
  <2>4. CASE /\ Unused # {}
             /\ Accept(Fresh, [method |-> "send", client |-> c, answers |-> session[c].req])
             /\ session' = [session EXCEPT ![c].at = "send", ![c].req = Fresh]
    <3>. DEFINE m == [method |-> "send", client |-> c, answers |-> session[c].req]
    <3>1. m \in Message /\ m.method = "send" /\ m.answers = session[c].req /\ Accept(Fresh, m)
      BY <2>2, <2>4 DEF Message
    <3>. HIDE DEF m
    <3>. QED
      BY <2>1, <2>2, <2>4, <3>1, Accepted
  <2>. QED
    BY <1>7, <2>3, <2>4 DEF Results
<1>8. ASSUME NEW r \in Reqs, Serve(r)
      PROVE  Loops'
  BY <1>8, ServedLoops
<1>9. ASSUME Lapses \/ Clears \/ Breaks
      PROVE  Loops'
  <2>1. UNCHANGED <<msg, session, fails, brought, vouched>>
    BY <1>9 DEF Lapses, Clears, Breaks, Expire, RemoveRuntime, Disconnect, sdk
  <2>2. \A q \in Reqs : pc'[q] = pc[q] \/ (pc[q] # "idle" /\ pc'[q] = "gone")
    BY <1>9 DEF Lapses, Clears, Breaks, Expire, RemoveRuntime, Disconnect, AInv, IInv, TypeOK
  <2>3. \A c \in Clients : Looping(c)' /\ Posted(c)'
    BY <2>1, <2>2 DEF Looping, Posted
  <2>. QED
    BY <2>1, <2>3 DEF ResultsReachTheLog
<1>10. CASE UNCHANGED allVars
  BY <1>10 DEF allVars, vars, sdk, Looping, Posted, ResultsReachTheLog
<1>. QED
  BY <1>1, <1>2, <1>3, <1>4, <1>5, <1>6, <1>7, <1>8, <1>9, <1>10 DEF HarnessNext, Step

LEMMA LoopInvariance == HarnessSpec => []LoopInv
<1>1. HarnessInit => LoopInv
  <2>. SUFFICES ASSUME HarnessInit PROVE LoopInv
    OBVIOUS
  <2>1. AInv
    BY AInit DEF HarnessInit
  <2>2. Unborn \in Doing /\ Unborn.at = "unborn" /\ Unborn.said = "nothing" /\ Unborn.trail = {}
    BY HarnessAssumption DEF Unborn, Doing
  <2>3. SdkTypes
    BY <2>2, HarnessAssumption DEF HarnessInit, SdkTypes
  <2>4. \A c \in Clients : Looping(c) /\ Posted(c)
    BY <2>2 DEF HarnessInit, Looping, Posted
  <2>. QED
    BY <2>1, <2>3, <2>4 DEF HarnessInit, LoopInv, Loops, ResultsReachTheLog
<1>2. LoopInv /\ [HarnessNext]_allVars => LoopInv'
  BY GateStep, AInvStep, LoopStep DEF LoopInv
<1>. QED
  BY <1>1, <1>2, PTL DEF HarnessSpec

\* The types of the Sessions and of the gate under them.
THEOREM SessionTypes == HarnessSpec => []HarnessTypeOK
<1>1. LoopInv => HarnessTypeOK
  BY DEF LoopInv, Loops, SdkTypes, AInv, IInv, HarnessTypeOK
<1>. QED
  BY <1>1, LoopInvariance, PTL

\* A send that returns the final message has had each of its tool_use messages
\* answered by the results of its own tools, whatever other Sessions, deadlines,
\* dropped calls and closes do meanwhile (run_loop, drive_send_message).
THEOREM SendsVouch == HarnessSpec => []ResultsReachTheLog
<1>1. LoopInv => ResultsReachTheLog
  BY DEF LoopInv, Loops
<1>. QED
  BY <1>1, LoopInvariance, PTL
=============================================================================
