--------------------------- MODULE Transcript_proofs ---------------------------
(***************************************************************************)
(* What the turns of a session make of its log, for any ids, providers,    *)
(* thresholds, usages and bounds.                                          *)
(*                                                                         *)
(* A question stays open only while somebody holds what was executed for   *)
(* it: the turn that is about to pause, the pause, or the call that took   *)
(* it over.  That is why a merge finds the server's results of the newest  *)
(* message, and no other, and why nothing else is said in between.         *)
(*                                                                         *)
(* A request is the replayed log, what the server's rounds added to it, or *)
(* an instruction at its end: every question answered right after it.  By  *)
(* Induction over the messages, the two wire formats keep it so.           *)
(***************************************************************************)
EXTENDS Transcript, Induction

Bys     == {"client", "server", "synthetic"}
Asks    == Seq(Conv!Block({"client", "server"}))
Newest  == log[Len(log)]
Brought == [id : Ids, by : {"client", "synthetic"}]

-----------------------------------------------------------------------------
(* Merging.                                                                *)

\* An accepted merge answers the calls one by one, each by the side that
\* owns its tool.
LEMMA MergeAnswers ==
  ASSUME NEW uses \in Asks, NEW client, \A j \in DOMAIN client : client[j] \in Brought,
         ~MergeFails(uses, ServerResults(uses), client)
  PROVE  LET m == Merge(uses, ServerResults(uses), client)
         IN  /\ m \in Seq(Conv!Block(Bys)) /\ Len(m) = Len(uses)
             /\ \A k \in 1 .. Len(uses) : m[k].id = uses[k].id /\ (m[k].by = "server" <=> uses[k].by = "server")
<1> DEFINE stash == ServerResults(uses)
           m     == Merge(uses, stash, client)
<1>1. /\ DOMAIN uses = 1 .. Len(uses) /\ Len(uses) \in Nat
      /\ \A k \in DOMAIN uses : uses[k] \in Conv!Block({"client", "server"})
  BY DEF Asks
<1>2. /\ DOMAIN stash = {k \in DOMAIN uses : uses[k].by = "server"}
      /\ \A k \in DOMAIN stash : stash[k] = uses[k]
  BY DEF ServerResults
<1> HIDE DEF stash
<1>3. IdsOf(stash) \cup IdsOf(client) = IdsOf(uses) /\ ~Repeats(uses)
  BY DEF MergeFails, stash
<1>4. DOMAIN m = DOMAIN uses
  BY DEF Merge
<1>5. ASSUME NEW k \in DOMAIN uses
      PROVE  m[k] \in Conv!Block(Bys) /\ m[k].id = uses[k].id /\ (m[k].by = "server" <=> uses[k].by = "server")
  <2>1. CASE uses[k].id \in IdsOf(stash)
    <3>1. m[k] = stash[CHOOSE j \in DOMAIN stash : stash[j].id = uses[k].id]
      BY <2>1 DEF Merge
    <3>2. PICK j \in DOMAIN stash : m[k] = stash[j] /\ stash[j].id = uses[k].id
      <4>1. \E j \in DOMAIN stash : stash[j].id = uses[k].id
        BY <2>1 DEF IdsOf
      <4>. QED
        BY <3>1, <4>1
    <3>3. j \in DOMAIN uses /\ m[k] = uses[j] /\ uses[j].by = "server" /\ uses[j].id = uses[k].id
      BY <1>2, <3>2
    <3>4. j = k
      BY <1>3, <3>3 DEF Repeats
    <3>. QED
      BY <1>1, <3>3, <3>4 DEF Conv!Block, Bys
  <2>2. CASE uses[k].id \notin IdsOf(stash)
    <3>1. m[k] = client[CHOOSE j \in DOMAIN client : client[j].id = uses[k].id]
      BY <2>2 DEF Merge
    <3>2. PICK j \in DOMAIN client : m[k] = client[j] /\ client[j].id = uses[k].id
      <4>1. \E j \in DOMAIN client : client[j].id = uses[k].id
        BY <1>3, <2>2 DEF IdsOf
      <4>. QED
        BY <3>1, <4>1
    <3>3. uses[k].by # "server"
      BY <1>2, <2>2 DEF IdsOf
    <3>. QED
      BY <3>2, <3>3 DEF Conv!Block, Bys, Brought
  <2>. QED
    BY <2>1, <2>2
<1>6. m \in [1 .. Len(uses) -> Conv!Block(Bys)]
  <2>1. m = [k \in DOMAIN uses |-> m[k]]
    BY DEF Merge
  <2> HIDE DEF m
  <2>. QED
    BY <1>1, <1>5, <2>1
<1> HIDE DEF m
<1>. QED
  BY <1>1, <1>4, <1>5, <1>6 DEF m, stash

-----------------------------------------------------------------------------
(* The invariant.                                                          *)

\* Where a call is, and what there is at the same time.
Modes ==
  /\ phase # "idle" => call \in Call /\ pause = None
  /\ sess = "error" => phase = "idle" /\ pause = None
  /\ phase \in {"start", "ask", "park", "boundary"} => call.method = "send"
  /\ Len(turn.chain) <= Len(Kinds)

\* Tool calls are the assistant's.
Shape == \A i \in 1 .. Len(log) : log[i].uses # <<>> => log[i].role = "assistant"

\* A question that waits for its answer: what was executed for it is put aside.
Parking  == phase = "park"
Parked   == pause # None
Claiming == phase = "record" /\ call.claim # None

Asking(stash) == Conv!Unanswered(log) /\ stash = ServerResults(Newest.uses)

Waiting ==
  /\ Parking  => Asking(turn.stash)
  /\ Parked   => Asking(pause.results)
  /\ Claiming => Asking(call.claim.results)
  /\ Conv!Unanswered(log) => Parking \/ Parked \/ Claiming \/ lost \/ sess = "error"

\* A crossing that counts is not forgotten before its exchange is over.
Kept == Or(turn.trigger, AutoTrigger(turn.usage)) # None

Tracked ==
  crossed = "yes" =>
    /\ Parked   => pause.trigger # None
    /\ Claiming => call.claim.trigger # None
    /\ phase = "start" => turn.trigger # None
    /\ phase \in {"ask", "park", "boundary"} => Kept

Recalled == {"no", "yes", "forgotten"}

IInv == TypeOK /\ Modes /\ Shape /\ AnswersAreOwned /\ Waiting /\ Tracked

-----------------------------------------------------------------------------
(* The data.                                                               *)

LEMMA UpToIsSeq ==
  ASSUME NEW S, NEW s \in UpTo(S)
  PROVE  s \in Seq(S) /\ DOMAIN s \subseteq 1 .. MaxBlocks
<1>1. PICK n \in 0 .. MaxBlocks : s \in [1 .. n -> S]
  BY DEF UpTo
<1>. QED
  BY <1>1, BoundsAssumption

MarksTo(n) == Seq([preamble : 0 .. n, summary : 0 .. n])

LEMMA MarksGrow ==
  ASSUME NEW n \in Nat, NEW m \in Nat, n <= m, marks \in MarksTo(n)
  PROVE  marks \in MarksTo(m)
<1> DEFINE R == [preamble : 0 .. n, summary : 0 .. n]
           Q == [preamble : 0 .. m, summary : 0 .. m]
<1>1. R \subseteq Q
  OBVIOUS
<1>2. marks \in Seq(R)
  BY DEF MarksTo
<1> HIDE DEF R, Q
<1>3. marks \in Seq(Q)
  BY <1>1, <1>2
<1>. QED
  BY <1>3 DEF Q, MarksTo

LEMMA TriggerIs ==
  ASSUME NEW usage \in Usages \cup {None}
  PROVE  AutoTrigger(usage) \in Trigger /\ (Crosses(usage) <=> AutoTrigger(usage) # None)
<1>1. CASE Size = None \/ usage = None
  BY <1>1 DEF AutoTrigger, Trigger, Crosses
<1>2. CASE Size # None /\ usage # None
  <2>1. /\ Size \in Nat /\ Size < MaxTokens /\ MaxTokens \in Nat /\ None \notin Nat
        /\ usage[1] \in 0 .. MaxTokens /\ usage[2] \in 0 .. MaxTokens
    BY <1>2, TokensAssumption, BoundsAssumption
  <2> DEFINE tokens == Saturating(usage[1] + usage[2])
  <2>2. tokens \in 0 .. MaxTokens /\ (usage[1] + usage[2] > Size <=> tokens > Size)
    BY <2>1 DEF Saturating
  <2>3. AutoTrigger(usage) = IF tokens > Size THEN tokens ELSE None
    BY <1>2 DEF AutoTrigger
  <2> HIDE DEF tokens
  <2>4. tokens # None
    BY <2>1, <2>2
  <2>5. Crosses(usage) <=> tokens > Size
    BY <1>2, <2>2 DEF Crosses
  <2>. QED
    BY <2>1, <2>2, <2>3, <2>4, <2>5 DEF Trigger
<1>. QED
  BY <1>1, <1>2

LEMMA StashIs ==
  ASSUME NEW uses \in UpTo(Conv!Block({"client", "server"}))
  PROVE  ServerResults(uses) \in Stash /\ uses \in Asks
<1>1. uses \in Asks /\ DOMAIN uses \subseteq 1 .. MaxBlocks
  BY UpToIsSeq DEF Asks
<1> DEFINE places == {k \in DOMAIN uses : uses[k].by = "server"}
<1>2. \A k \in places : uses[k] \in Conv!Block({"server"})
  <2>1. \A k \in DOMAIN uses : uses[k] \in Conv!Block({"client", "server"})
    BY <1>1 DEF Asks
  <2>. QED
    BY <2>1 DEF Conv!Block
<1>3. ServerResults(uses) \in [places -> Conv!Block({"server"})]
  BY <1>2 DEF ServerResults
<1>4. places \in SUBSET (1 .. MaxBlocks)
  BY <1>1
<1>. QED
  BY <1>1, <1>3, <1>4 DEF Stash

LEMMA TextIs ==
  ASSUME NEW role \in {"user", "assistant"}
  PROVE  Text(role) \in Message /\ Text(role).role = role /\ Text(role).uses = <<>> /\ Text(role).results = <<>>
BY DEF Text, Conv!Text, Message, Conv!Message

LEMMA QuestionIs ==
  ASSUME NEW uses \in Asks
  PROVE  /\ Question(uses) \in Message /\ Question(uses).role = "assistant"
         /\ Question(uses).uses = uses /\ Question(uses).results = <<>>
BY DEF Question, Message, Conv!Message, Asks

Turns == [extra : Seq(Message), round : 0 .. MaxIterations,
          chain : Seq({"anthropic", "openai"}), attempt : 0 .. Len(Kinds),
          usage : Usages \cup {None}, trigger : Trigger, stash : Stash]

\* A chain is of the profile's providers.
LEMMA ChainIs ==
  ASSUME NEW chain \in Chains, turn \in Turns
  PROVE  LET t == FirstAttempt(chain)
         IN  /\ t \in Turns /\ Len(t.chain) <= Len(Kinds) /\ t.attempt = 1 /\ t.round = turn.round
             /\ t.trigger = turn.trigger /\ t.usage = turn.usage /\ t.stash = turn.stash
             /\ t.extra = turn.extra
<1> DEFINE kinds == [k \in DOMAIN chain |-> Kinds[chain[k]]]
<1>1. /\ Len(Kinds) \in Nat \ {0}
      /\ \A k \in 1 .. Len(Kinds) : Kinds[k] \in {"anthropic", "openai"}
  BY ChainAssumption
<1>2. PICK n \in 1 .. Len(Kinds) : chain \in [1 .. n -> 1 .. Len(Kinds)]
  BY DEF Chains
<1>3. kinds \in [1 .. n -> {"anthropic", "openai"}]
  BY <1>1, <1>2
<1>4. kinds \in Seq({"anthropic", "openai"}) /\ Len(kinds) <= Len(Kinds)
  BY <1>1, <1>2, <1>3
<1>5. FirstAttempt(chain) = [turn EXCEPT !.chain = kinds, !.attempt = 1]
  BY DEF FirstAttempt
<1> HIDE DEF kinds
<1>6. 1 \in 0 .. Len(Kinds)
  BY <1>1
<1>. QED
  BY <1>4, <1>5, <1>6 DEF Turns

LEMMA NoTurnIs ==
  /\ NoTurn \in Turns /\ NoTurn.chain = <<>> /\ NoTurn.trigger = None /\ NoTurn.usage = None /\ Len(NoTurn.chain) <= Len(Kinds)
<1>1. <<>> \in Stash
  <2>1. <<>> \in [{} -> Conv!Block({"server"})]
    OBVIOUS
  <2>. QED
    BY <2>1 DEF Stash
<1>2. 0 \in 0 .. MaxIterations /\ 0 \in 0 .. Len(Kinds) /\ Len(Kinds) \in Nat
  BY ChainAssumption, BoundsAssumption
<1>. QED
  BY <1>1, <1>2 DEF NoTurn, Turns, Trigger

-----------------------------------------------------------------------------
(* The log.                                                                *)

Logs == log \in Seq(Message) /\ Shape /\ AnswersAreOwned

\* A message joins the log: it answers the newest, each call by its owner, or
\* it answers nothing.
LEMMA LogGrows ==
  ASSUME Logs, NEW m \in Message, log' = Append(log, m),
         m.uses # <<>> => m.role = "assistant",
         \/ m.results = <<>>
         \/ /\ log # <<>> /\ Len(m.results) = Len(Newest.uses)
            /\ \A k \in 1 .. Len(m.results) : m.results[k].by = "server" <=> Newest.uses[k].by = "server"
  PROVE  Logs' /\ Len(log') = Len(log) + 1 /\ log' # <<>> /\ Newest' = m
<1>1. /\ Len(log) \in Nat /\ log' \in Seq(Message) /\ Len(log') = Len(log) + 1 /\ log'[Len(log) + 1] = m
      /\ \A i \in 1 .. Len(log) : log'[i] = log[i]
      /\ log # <<>> => Len(log) > 0
  BY DEF Logs
<1>2. Shape'
  BY <1>1 DEF Logs, Shape
<1>3. m.results \in Seq(Conv!Block({"client", "server", "synthetic"}))
  BY DEF Message, Conv!Message
<1>4. AnswersAreOwned'
  <2>1. SUFFICES ASSUME NEW i \in 2 .. Len(log'), NEW k \in DOMAIN log'[i].results
                 PROVE  log'[i].results[k].by = "server" <=> log'[i - 1].uses[k].by = "server"
    BY DEF AnswersAreOwned
  <2>2. CASE i \in 2 .. Len(log)
    BY <1>1, <2>1, <2>2 DEF Logs, AnswersAreOwned
  <2>3. CASE i = Len(log) + 1
    <3>1. log'[i] = m /\ log'[i - 1] = Newest /\ DOMAIN m.results = 1 .. Len(m.results)
      BY <1>1, <1>3, <2>1, <2>3 DEF Newest
    <3>2. k \in 1 .. Len(m.results) /\ m.results # <<>>
      BY <1>3, <2>1, <3>1
    <3>. QED
      BY <3>1, <3>2
  <2>. QED
    BY <1>1, <2>1, <2>2, <2>3
<1>. QED
  BY <1>1, <1>2, <1>4 DEF Logs, Newest

\* Preamble and summary join it together.
LEMMA SummaryGrows ==
  ASSUME Logs, log' = log \o <<Conv!Preamble, Conv!Summary>>
  PROVE  Logs' /\ Len(log') = Len(log) + 2 /\ log' # <<>> /\ Newest' = Conv!Summary /\ log'[Len(log) + 1] = Conv!Preamble
<1>1. Conv!Preamble = Text("user") /\ Conv!Summary = Text("assistant")
  BY DEF Conv!Preamble, Conv!Summary, Text
<1> DEFINE two == <<Text("user"), Text("assistant")>>
<1>2. two \in Seq(Message) /\ Len(two) = 2 /\ two[1] = Text("user") /\ two[2] = Text("assistant")
  BY TextIs
<1>3. Len(log) \in Nat /\ log \in Seq(Message) /\ log' = log \o two
  BY <1>1 DEF Logs
<1> HIDE DEF two
<1>4. /\ log' \in Seq(Message) /\ Len(log') = Len(log) + 2
      /\ \A i \in 1 .. Len(log) : log'[i] = log[i]
      /\ log'[Len(log) + 1] = Text("user") /\ log'[Len(log) + 2] = Text("assistant")
  BY <1>2, <1>3
<1>5. ASSUME NEW i \in Len(log) + 1 .. Len(log) + 2
      PROVE  log'[i].uses = <<>> /\ log'[i].results = <<>>
  <2>1. i = Len(log) + 1 \/ i = Len(log) + 2
    BY <1>3
  <2>. QED
    BY <1>4, <2>1, TextIs
<1>6. Shape'
  BY <1>3, <1>4, <1>5 DEF Logs, Shape
<1>7. AnswersAreOwned'
  <2>1. SUFFICES ASSUME NEW i \in 2 .. Len(log'), NEW k \in DOMAIN log'[i].results
                 PROVE  log'[i].results[k].by = "server" <=> log'[i - 1].uses[k].by = "server"
    BY DEF AnswersAreOwned
  <2>2. CASE i \in 2 .. Len(log)
    BY <1>3, <1>4, <2>1, <2>2 DEF Logs, AnswersAreOwned
  <2>3. CASE i \in Len(log) + 1 .. Len(log) + 2
    <3>1. DOMAIN log'[i].results = {}
      BY <1>5, <2>3
    <3>. QED
      BY <2>1, <3>1
  <2>. QED
    BY <1>3, <1>4, <2>1, <2>2, <2>3
<1>. QED
  BY <1>1, <1>3, <1>4, <1>6, <1>7 DEF Logs, Newest

-----------------------------------------------------------------------------
(* The steps.                                                              *)

LEMMA ReceiveKeeps ==
  ASSUME IInv, NEW m \in Incoming, Receive(m)
  PROVE  IInv'
<1>1. PICK timedOut \in BOOLEAN :
        call' = [method |-> m.method, role |-> m.role, results |-> m.results, text |-> m.text,
                 claim |-> IF pause = None THEN None
                           ELSE [results |-> pause.results, trigger |-> pause.trigger, timedOut |-> timedOut]]
  BY DEF Receive
<1>2. /\ phase = "idle" /\ sess = "open" /\ pause' = None /\ phase' = "record"
      /\ UNCHANGED <<sess, log, marks, turn, backoff, lost, crossed, restarts>>
  BY DEF Receive
<1>3. m.method \in {"send", "compact"} /\ m.role \in {"user", "assistant"} /\ m.results \in Seq(Ids) /\ m.text \in BOOLEAN
  <2>1. \A s \in UpTo(Ids) : s \in Seq(Ids)
    BY UpToIsSeq
  <2>2. CASE m \in [method: {"send"}, role: {"user"}, results: UpTo(Ids), text: BOOLEAN]
    BY <2>1, <2>2
  <2>3. CASE m.results = <<>> /\ m.method \in {"send", "compact"} /\ m.role \in {"user", "assistant"} /\ m.text \in BOOLEAN
    BY <2>3
  <2>4. CASE m \in [method: {"send"}, role: {"assistant"}, results: {<<>>}, text: {TRUE}]
    BY <2>3, <2>4
  <2>5. CASE m \in [method: {"compact"}, role: {"user"}, results: {<<>>}, text: {FALSE}]
    BY <2>3, <2>5
  <2>. QED
    BY <2>2, <2>4, <2>5 DEF Incoming
<1> DEFINE c == [results |-> pause.results, trigger |-> pause.trigger, timedOut |-> timedOut]
<1>4. pause # None => c \in Claim /\ c # None /\ c.results = pause.results /\ c.trigger = pause.trigger
  BY PauseAssumption DEF Recalled, IInv, TypeOK, Pause, Claim
<1>5. call'.claim = IF pause = None THEN None ELSE c
  BY <1>1
<1>6. call' \in Call
  BY <1>1, <1>3, <1>4 DEF Call
<1> HIDE DEF c
<1>7. TypeOK'
  BY <1>2, <1>6 DEF Recalled, IInv, TypeOK
<1>8. Modes' /\ Shape' /\ AnswersAreOwned'
  BY <1>2, <1>6 DEF IInv, Modes, Shape, AnswersAreOwned
<1>9. Waiting'
  BY <1>2, <1>4, <1>5 DEF IInv, Waiting, Parking, Parked, Claiming, Asking, Newest, Conv!Unanswered, Conv!Newest
<1>10. Tracked'
  BY <1>2, <1>4, <1>5 DEF IInv, Tracked, Parked, Claiming
<1>. QED
  BY <1>7, <1>8, <1>9, <1>10 DEF IInv

\* The call is over.
LEMMA Returns ==
  ASSUME IInv, Return, UNCHANGED <<log, marks>>,
         sess' \in {"open", "error"}, pause' \in Pause \cup {None}, backoff' \in Trigger,
         lost' \in BOOLEAN, crossed' \in Recalled, restarts' \in 0 .. MaxRestarts,
         sess' = "error" => pause' = None,
         pause' # None => Asking(pause'.results) /\ (crossed' = "yes" => pause'.trigger # None),
         Conv!Unanswered(log) => pause' # None \/ lost' \/ sess' = "error"
  PROVE  IInv'
<1>1. phase' = "idle" /\ call' = None /\ turn' = NoTurn
  BY DEF Return
<1>2. TypeOK'
  BY <1>1, NoTurnIs DEF Recalled, IInv, TypeOK, Turns
<1>3. Modes' /\ Shape' /\ AnswersAreOwned'
  BY <1>1, NoTurnIs DEF IInv, Modes, Shape, AnswersAreOwned
<1>4. Waiting'
  BY <1>1 DEF Waiting, Parking, Parked, Claiming, Asking, Newest, Conv!Unanswered, Conv!Newest
<1>5. Tracked'
  BY <1>1 DEF Tracked, Parked, Claiming
<1>. QED
  BY <1>2, <1>3, <1>4, <1>5 DEF IInv

\* The call goes on, and nothing is said.
LEMMA GoesOn ==
  ASSUME IInv, phase # "idle", ~Parking, ~Claiming, phase' \in {"ask", "compact", "summarise"},
         call' \in Call, phase' = "ask" => call'.method = "send",
         turn' \in Turns, Len(turn'.chain) <= Len(Kinds), crossed' \in Recalled,
         crossed' = "yes" /\ phase' = "ask" => Kept',
         UNCHANGED <<sess, log, marks, pause, backoff, lost, restarts>>
  PROVE  IInv'
<1>1. TypeOK'
  BY DEF Recalled, IInv, TypeOK, Turns
<1>2. Modes' /\ Shape' /\ AnswersAreOwned'
  BY DEF IInv, Modes, Shape, AnswersAreOwned
<1>3. Waiting'
  BY DEF IInv, Modes, Waiting, Parking, Parked, Claiming, Asking, Newest, Conv!Unanswered, Conv!Newest
<1>4. Tracked'
  BY DEF IInv, Modes, Tracked, Parked, Claiming
<1>. QED
  BY <1>1, <1>2, <1>3, <1>4 DEF IInv

\* The call goes on with a message, which asks or does not.
LEMMA Speaks ==
  ASSUME IInv, phase # "idle", NEW m \in Message, log' = Append(log, m),
         m.uses # <<>> => m.role = "assistant",
         \/ m.results = <<>>
         \/ /\ log # <<>> /\ Len(m.results) = Len(Newest.uses)
            /\ \A k \in 1 .. Len(m.results) : m.results[k].by = "server" <=> Newest.uses[k].by = "server",
         phase' \in {"start", "compact", "boundary", "park"},
         call' \in Call, phase' # "compact" => call'.method = "send",
         turn' \in Turns, Len(turn'.chain) <= Len(Kinds), crossed' \in Recalled,
         phase' = "park" => m.uses # <<>> /\ turn'.stash = ServerResults(m.uses),
         phase' # "park" => m.uses = <<>>,
         crossed' = "yes" /\ phase' = "start" => turn'.trigger # None,
         crossed' = "yes" /\ phase' \in {"park", "boundary"} => Kept',
         UNCHANGED <<sess, marks, pause, backoff, lost, restarts>>
  PROVE  IInv'
<1>1. Logs
  BY DEF Recalled, IInv, TypeOK, Logs
<1>2. Logs' /\ Len(log') = Len(log) + 1 /\ log' # <<>> /\ Newest' = m
  BY <1>1, LogGrows
<1>3. Len(log) \in Nat /\ marks \in MarksTo(Len(log))
  BY <1>1 DEF Recalled, IInv, TypeOK, Logs, MarksTo
<1>4. marks' \in MarksTo(Len(log'))
  BY <1>2, <1>3, MarksGrow
<1>5. TypeOK'
  BY <1>2, <1>4 DEF Recalled, IInv, TypeOK, Turns, Logs, MarksTo
<1>6. Modes'
  BY DEF IInv, Modes
<1>7. Waiting'
  BY <1>2 DEF IInv, Modes, Waiting, Parking, Parked, Claiming, Asking, Newest, Conv!Unanswered, Conv!Newest
<1>8. Tracked'
  BY DEF IInv, Modes, Tracked, Parked, Claiming
<1>. QED
  BY <1>2, <1>5, <1>6, <1>7, <1>8 DEF IInv, Logs

\* A merge that is accepted answers the newest message.
LEMMA AnswerIs ==
  ASSUME IInv, Claiming, ~Refused
  PROVE  /\ log # <<>> /\ Answer \in Message /\ Answer.role = "user" /\ Answer.uses = <<>>
         /\ Newest.uses # <<>> /\ Len(Answer.results) = Len(Newest.uses)
         /\ \A k \in 1 .. Len(Newest.uses) :
              /\ Answer.results[k].id = Newest.uses[k].id
              /\ Answer.results[k].by = "server" <=> Newest.uses[k].by = "server"
<1>1. /\ call \in Call /\ call.claim \in Claim /\ log # <<>> /\ Newest.uses # <<>>
      /\ call.claim.results = ServerResults(Newest.uses)
  BY DEF IInv, Modes, Waiting, Claiming, Asking, Call, Conv!Unanswered, Conv!Newest, Newest
<1>2. /\ log \in Seq(Message) /\ Len(log) \in 1 .. Len(log) /\ Newest \in Message
  BY <1>1 DEF Recalled, IInv, TypeOK, Newest
<1>3. Newest.role = "assistant" /\ Newest.uses \in Asks
  <2>1. Newest.role = "assistant"
    BY <1>1, <1>2 DEF IInv, Shape, Newest
  <2>. QED
    BY <1>2, <2>1 DEF Message, Conv!Message, Asks
<1>4. LastToolUses = Newest.uses
  <2> DEFINE assistant == {i \in 1 .. Len(log) : log[i].role = "assistant"}
  <2>1. Len(log) \in assistant /\ \A j \in assistant : j <= Len(log)
    BY <1>2, <1>3 DEF Newest
  <2>2. ASSUME NEW i \in assistant, \A j \in assistant : j <= i
        PROVE  i = Len(log)
    BY <1>2, <2>1, <2>2
  <2>3. (CHOOSE i \in assistant : \A j \in assistant : j <= i) = Len(log)
    <3>1. \E i \in assistant : \A j \in assistant : j <= i
      BY <2>1
    <3> HIDE DEF assistant
    <3>. QED
      BY <2>2, <3>1
  <2>. QED
    BY <2>1, <2>3 DEF LastToolUses, Newest
<1> DEFINE uses == Newest.uses
           stash == call.claim.results
<1>5. \A j \in DOMAIN ClientResults : ClientResults[j] \in Brought
  <2>1. CASE Abandons
    <3> DEFINE open == Without(uses, IdsOf(stash))
    <3>1. ClientResults = [k \in DOMAIN open |-> [id |-> open[k].id, by |-> "synthetic"]]
      BY <1>4, <2>1 DEF ClientResults, Cancel
    <3>2. \A k \in DOMAIN open : k \in DOMAIN uses /\ open[k] = uses[k]
      BY DEF Without
    <3> HIDE DEF open
    <3>3. \A k \in DOMAIN uses : uses[k] \in Conv!Block({"client", "server"})
      BY <1>3 DEF Asks
    <3>4. \A k \in DOMAIN open : open[k].id \in Ids
      BY <3>2, <3>3 DEF Conv!Block
    <3>. QED
      BY <3>1, <3>4 DEF Brought
  <2>2. CASE ~Abandons
    <3>1. ClientResults = [k \in DOMAIN call.results |-> [id |-> call.results[k], by |-> "client"]]
      BY <2>2 DEF ClientResults
    <3>2. \A k \in DOMAIN call.results : call.results[k] \in Ids
      BY <1>1 DEF Call
    <3>. QED
      BY <3>1, <3>2 DEF Brought
  <2>. QED
    BY <2>1, <2>2
<1>6. ~MergeFails(uses, ServerResults(uses), ClientResults)
  BY <1>1, <1>4 DEF Refused
<1> DEFINE m == Merge(uses, ServerResults(uses), ClientResults)
<1>7. /\ m \in Seq(Conv!Block(Bys)) /\ Len(m) = Len(uses)
      /\ \A k \in 1 .. Len(uses) : m[k].id = uses[k].id /\ (m[k].by = "server" <=> uses[k].by = "server")
  BY <1>3, <1>5, <1>6, MergeAnswers
<1>8. Answer = [role |-> "user", uses |-> <<>>, results |-> m]
  BY <1>1, <1>4 DEF Answer
<1> HIDE DEF m, uses
<1>9. Answer \in Message
  BY <1>7, <1>8 DEF Message, Conv!Message, Bys
<1>. QED
  BY <1>1, <1>7, <1>8, <1>9 DEF uses

\* What a call keeps of itself once its message is recorded.
LEMMA RecordedIs ==
  ASSUME call \in Call, Recorded
  PROVE  call' \in Call /\ call'.method = call.method
<1> DEFINE none == <<>>
<1>1. none \in Seq(Ids)
  OBVIOUS
<1> HIDE DEF none
<1>2. call' = [call EXCEPT !.role = "user", !.results = none, !.text = FALSE, !.claim = None]
  BY DEF Recorded, none
<1>. QED
  BY <1>1, <1>2 DEF Call

\* A call in the middle of a turn, or at its end, whose question is not open.
LEMMA Closed ==
  ASSUME IInv, phase # "idle", ~Parking, ~Claiming, Conv!Unanswered(log)
  PROVE  lost
BY DEF IInv, Modes, Waiting, Parked

LEMMA MergeFailsKeeps ==
  ASSUME IInv, phase = "record", FailMerge, UNCHANGED <<log, marks, pause, backoff, lost, restarts>>, crossed' \in Recalled
  PROVE  IInv'
<1>1. pause' = None /\ sess' = "error" /\ Return
  BY DEF IInv, Modes, FailMerge
<1>. QED
  BY <1>1, Returns DEF Recalled, IInv, TypeOK

LEMMA RecordKeeps == ASSUME IInv, RecordMessage PROVE IInv'
<1>1. /\ phase = "record" /\ call.method = "send" /\ call \in Call
      /\ UNCHANGED <<marks, pause, backoff, lost, restarts>>
  BY DEF RecordMessage, IInv, Modes
<1>2. turn \in Turns /\ Len(turn.chain) <= Len(Kinds) /\ crossed \in Recalled
  BY DEF Recalled, IInv, TypeOK, Modes, Turns
<1>3. CASE call.claim = None /\ Return /\ UNCHANGED <<sess, log, crossed>>
  <2>1. Conv!Unanswered(log) => lost
    BY <1>1, <1>3, Closed DEF Parking, Claiming
  <2>2. pause' = None
    BY <1>1 DEF IInv, Modes
  <2>. QED
    BY <1>1, <1>3, <2>1, <2>2, Returns DEF Recalled, IInv, TypeOK
<1>4. CASE /\ log' = Append(log, Text(call.role)) /\ crossed' = "no" /\ phase' = "start"
           /\ Recorded /\ UNCHANGED <<sess, turn>>
  <2>0. crossed' \in Recalled
    BY <1>4 DEF Recalled
  <2>1. call.role \in {"user", "assistant"}
    BY <1>1 DEF Call
  <2>2. Text(call.role) \in Message /\ Text(call.role).uses = <<>> /\ Text(call.role).results = <<>>
    BY <2>1, TextIs
  <2>. QED
    BY <1>1, <1>2, <1>4, <2>0, <2>2, RecordedIs, Speaks
<1>5. CASE FailMerge /\ UNCHANGED <<log, crossed>>
  BY <1>1, <1>2, <1>5, MergeFailsKeeps
<1>6. CASE /\ call.claim # None /\ ~Refused /\ log' = Append(log, Answer)
           /\ turn' = [turn EXCEPT !.trigger = call.claim.trigger] /\ phase' = "start"
           /\ Recorded /\ UNCHANGED <<sess, crossed>>
  <2>1. Claiming /\ call.claim \in Claim
    BY <1>1, <1>6 DEF Claiming, Call
  <2>2. call.claim.trigger \in Trigger /\ (crossed = "yes" => call.claim.trigger # None)
    BY <2>1 DEF Claim, IInv, Tracked
  <2>3. turn' \in Turns /\ turn'.trigger = call.claim.trigger /\ turn'.chain = turn.chain
    BY <1>2, <1>6, <2>2 DEF Turns
  <2>. QED
    BY <1>1, <1>2, <1>6, <2>1, <2>2, <2>3, AnswerIs, RecordedIs, Speaks
<1>. QED
  BY <1>3, <1>4, <1>5, <1>6 DEF RecordMessage

LEMMA RetireKeeps == ASSUME IInv, RetirePause PROVE IInv'
<1>1. /\ phase = "record" /\ call.method = "compact" /\ call \in Call /\ crossed' = "no"
      /\ UNCHANGED <<marks, pause, backoff, lost, restarts>>
  BY DEF RetirePause, IInv, Modes
<1>2. turn \in Turns /\ Len(turn.chain) <= Len(Kinds)
  BY DEF Recalled, IInv, TypeOK, Modes, Turns
<1>a. crossed' \in Recalled
  BY <1>1 DEF Recalled
<1>3. CASE FailMerge /\ UNCHANGED log
  BY <1>1, <1>a, <1>3, MergeFailsKeeps
<1>4. CASE call.claim = None /\ UNCHANGED log /\ phase' = "compact" /\ Recorded /\ UNCHANGED <<sess, turn>>
  BY <1>1, <1>2, <1>a, <1>4, RecordedIs, GoesOn DEF Parking, Claiming
<1>5. CASE /\ call.claim # None /\ ~Refused /\ log' = Append(log, Answer)
           /\ phase' = "compact" /\ Recorded /\ UNCHANGED <<sess, turn>>
  <2>1. Claiming
    BY <1>1, <1>5 DEF Claiming
  <2>. QED
    BY <1>1, <1>2, <1>a, <1>5, <2>1, AnswerIs, RecordedIs, Speaks
<1>. QED
  BY <1>3, <1>4, <1>5 DEF RetirePause

\* The end of a call in the middle of a turn, the session failed or not.
LEMMA EndKeeps ==
  ASSUME IInv, phase \in {"start", "ask", "boundary", "compact", "summarise"}, Return,
         sess' \in {sess, "error"}, backoff' \in Trigger,
         UNCHANGED <<log, marks, pause, lost, crossed, restarts>>
  PROVE  IInv'
<1>1. Conv!Unanswered(log) => lost
  BY Closed DEF Parking, Claiming
<1>2. pause' = None
  BY DEF IInv, Modes
<1>. QED
  BY <1>1, <1>2, Returns DEF Recalled, IInv, TypeOK

LEMMA TurnKeeps == ASSUME IInv, StartTurn \/ AttemptFails PROVE IInv'
<1>1. turn \in Turns /\ Len(turn.chain) <= Len(Kinds) /\ crossed \in Recalled /\ backoff \in Trigger
  BY DEF Recalled, IInv, TypeOK, Modes, Turns
<1>2. CASE StartTurn
  <2>1. CASE sess' = "error" /\ Return
    BY <1>1, <1>2, <2>1, EndKeeps DEF StartTurn
  <2>2. ASSUME NEW chain \in Chains, turn' = [FirstAttempt(chain) EXCEPT !.round = 1], phase' = "ask",
               UNCHANGED <<sess, call>>
        PROVE  IInv'
    <3> DEFINE t == FirstAttempt(chain)
    <3>1. t \in Turns /\ Len(t.chain) <= Len(Kinds) /\ t.trigger = turn.trigger
      BY <1>1, ChainIs
    <3> HIDE DEF t
    <3>2. 1 \in 0 .. MaxIterations
      BY BoundsAssumption
    <3>3. turn' \in Turns /\ turn'.chain = t.chain /\ turn'.trigger = turn.trigger
      BY <2>2, <3>1, <3>2 DEF Turns, t
    <3>4. crossed = "yes" => Kept'
      BY <1>2, <3>3 DEF StartTurn, IInv, Tracked, Kept, Or
    <3>. QED
      BY <1>1, <1>2, <2>2, <3>1, <3>3, <3>4, GoesOn DEF StartTurn, IInv, Modes, Parking, Claiming
  <2>. QED
    BY <1>2, <2>1, <2>2 DEF StartTurn
<1>3. CASE AttemptFails
  <2>1. CASE sess' = "error" /\ Return
    BY <1>1, <1>3, <2>1, EndKeeps DEF AttemptFails
  <2>2. CASE /\ turn.attempt < Len(turn.chain) /\ turn' = [turn EXCEPT !.attempt = @ + 1]
             /\ UNCHANGED <<sess, call, phase>>
    <3>1. turn.attempt + 1 \in 0 .. Len(Kinds)
      <4>1. turn.attempt \in Nat /\ Len(turn.chain) \in Nat /\ Len(Kinds) \in Nat
        BY <1>1, ChainAssumption DEF Turns
      <4>. QED
        BY <1>1, <2>2, <4>1
    <3>2. turn' \in Turns /\ turn'.chain = turn.chain /\ turn'.trigger = turn.trigger /\ turn'.usage = turn.usage
      BY <1>1, <2>2, <3>1 DEF Turns
    <3>3. crossed = "yes" => Kept'
      BY <1>3, <3>2 DEF AttemptFails, IInv, Tracked, Kept
    <3>. QED
      BY <1>1, <1>3, <2>2, <3>2, <3>3, GoesOn DEF AttemptFails, IInv, Modes, Parking, Claiming
  <2>. QED
    BY <1>3, <2>1, <2>2 DEF AttemptFails
<1>. QED
  BY <1>2, <1>3

\* What a successful call leaves of the crossings of its exchange.
LEMMA SeenIs ==
  ASSUME IInv, phase = "ask", NEW usage \in Usages \cup {None}, crossed' = Seen(usage),
         turn'.trigger = turn.trigger, turn'.usage = usage
  PROVE  crossed' \in Recalled /\ (crossed' = "yes" => Kept')
<1>1. turn.usage \in Usages \cup {None} /\ crossed \in Recalled /\ (crossed = "yes" => Kept)
  BY DEF Recalled, IInv, TypeOK, Tracked
<1>2. (Crosses(usage) => AutoTrigger(usage) # None) /\ (AutoTrigger(turn.usage) # None => Crosses(turn.usage))
  BY <1>1, TriggerIs
<1>3. CASE Crosses(usage)
  BY <1>2, <1>3 DEF Seen, Recalled, Kept, Or
<1>4. CASE ~Crosses(usage)
  BY <1>1, <1>2, <1>4 DEF Seen, Recalled, Kept, Or
<1>. QED
  BY <1>3, <1>4

LEMMA FinalKeeps ==
  ASSUME IInv, NEW uses, NEW usage \in Usages, FinalAnswer(uses, usage)
  PROVE  IInv'
<1>1. /\ phase = "ask" /\ uses = <<>> /\ log' = Append(log, Question(uses)) /\ turn' = [turn EXCEPT !.usage = usage]
      /\ crossed' = Seen(usage) /\ phase' = "boundary"
      /\ UNCHANGED <<sess, marks, pause, call, backoff, lost, restarts>>
  BY DEF FinalAnswer
<1>2. /\ turn \in Turns /\ Len(turn.chain) <= Len(Kinds) /\ crossed \in Recalled
      /\ call \in Call /\ call.method = "send"
  BY <1>1 DEF Recalled, IInv, TypeOK, Modes, Turns
<1>3. uses \in Asks
  BY <1>1 DEF Asks
<1>4. /\ turn' \in Turns /\ turn'.chain = turn.chain /\ turn'.trigger = turn.trigger /\ turn'.usage = usage
  BY <1>1, <1>2 DEF Turns
<1>5. crossed' \in Recalled /\ (crossed' = "yes" => Kept')
  BY <1>1, <1>4, SeenIs
<1>. QED
  BY <1>1, <1>2, <1>3, <1>4, <1>5, QuestionIs, Speaks

LEMMA AskKeeps ==
  ASSUME IInv, NEW uses \in UpTo(Conv!Block({"client", "server"})), NEW usage \in Usages, AskClient(uses, usage)
  PROVE  IInv'
<1>1. /\ phase = "ask" /\ uses # <<>> /\ log' = Append(log, Question(uses))
      /\ turn' = [turn EXCEPT !.usage = usage, !.stash = ServerResults(uses)]
      /\ crossed' = Seen(usage) /\ phase' = "park"
      /\ UNCHANGED <<sess, marks, pause, call, backoff, lost, restarts>>
  BY DEF AskClient
<1>2. /\ turn \in Turns /\ Len(turn.chain) <= Len(Kinds) /\ crossed \in Recalled
      /\ call \in Call /\ call.method = "send"
  BY <1>1 DEF Recalled, IInv, TypeOK, Modes, Turns
<1>3. uses \in Asks /\ ServerResults(uses) \in Stash
  BY StashIs
<1>4. /\ turn' \in Turns /\ turn'.chain = turn.chain /\ turn'.trigger = turn.trigger /\ turn'.usage = usage
      /\ turn'.stash = ServerResults(uses)
  BY <1>1, <1>2, <1>3 DEF Turns
<1>5. crossed' \in Recalled /\ (crossed' = "yes" => Kept')
  BY <1>1, <1>4, SeenIs
<1>. QED
  BY <1>1, <1>2, <1>3, <1>4, <1>5, QuestionIs, Speaks

LEMMA RoundKeeps ==
  ASSUME IInv, NEW uses \in UpTo(Conv!Block({"client", "server"})), NEW usage \in Usages, ServerRound(uses, usage)
  PROVE  IInv'
<1>1. /\ phase = "ask" /\ turn.round < MaxIterations /\ \A k \in DOMAIN uses : uses[k].by = "server"
      /\ UNCHANGED <<sess, log, marks, pause, call, phase, backoff, lost, restarts>>
      /\ crossed' = Seen(usage)
  BY DEF ServerRound
<1>2. /\ turn \in Turns /\ Len(turn.chain) <= Len(Kinds) /\ crossed \in Recalled
      /\ call \in Call /\ call.method = "send"
  BY <1>1 DEF Recalled, IInv, TypeOK, Modes, Turns
<1> DEFINE round == turn.round + 1
           extra == turn.extra \o <<Question(uses), [Text("user") EXCEPT !.results = uses]>>
<1>3. turn' = [turn EXCEPT !.extra = extra, !.round = round, !.attempt = 1, !.usage = usage]
  BY DEF ServerRound
<1>4. round \in 0 .. MaxIterations /\ 1 \in 0 .. Len(Kinds)
  BY <1>1, <1>2, BoundsAssumption, ChainAssumption DEF Turns
<1>5. extra \in Seq(Message)
  <2>1. uses \in Asks
    BY StashIs
  <2>2. [Text("user") EXCEPT !.results = uses] \in Message
    <3>1. uses \in Seq(Conv!Block(Bys))
      <4>1. \A k \in DOMAIN uses : uses[k] \in Conv!Block(Bys)
        <5>1. \A k \in DOMAIN uses : uses[k] \in Conv!Block({"client", "server"})
          BY <2>1 DEF Asks
        <5>. QED
          BY <5>1 DEF Conv!Block, Bys
      <4>. QED
        BY <2>1, <4>1 DEF Asks
    <3>2. ASSUME NEW m \in Message, NEW r \in Seq(Conv!Block(Bys))
          PROVE  [m EXCEPT !.results = r] \in Message
      BY DEF Message, Conv!Message, Bys
    <3>. QED
      BY <3>1, <3>2, TextIs
  <2>3. Question(uses) \in Message
    BY <2>1, QuestionIs
  <2>4. turn.extra \in Seq(Message)
    BY <1>2 DEF Turns
  <2>. QED
    BY <2>2, <2>3, <2>4
<1> HIDE DEF round, extra
<1>6. turn' \in Turns /\ turn'.chain = turn.chain /\ turn'.trigger = turn.trigger /\ turn'.usage = usage
  BY <1>2, <1>3, <1>4, <1>5 DEF Turns
<1>7. crossed' \in Recalled /\ (crossed' = "yes" => Kept')
  BY <1>1, <1>6, SeenIs
<1>. QED
  BY <1>1, <1>2, <1>6, <1>7, GoesOn DEF Parking, Claiming

LEMMA ParkKeeps == ASSUME IInv, Park PROVE IInv'
<1> DEFINE trigger == Or(turn.trigger, AutoTrigger(turn.usage))
           p       == [results |-> turn.stash, expired |-> FALSE, trigger |-> trigger]
<1>1. /\ phase = "park" /\ pause' = p /\ Return
      /\ UNCHANGED <<sess, log, marks, backoff, lost, crossed, restarts>>
  BY DEF Park
<1>2. turn \in Turns /\ Asking(turn.stash) /\ (crossed = "yes" => trigger # None) /\ sess # "error"
  BY <1>1 DEF Kept, IInv, TypeOK, Turns, Waiting, Parking, Tracked, Modes
<1>3. trigger \in Trigger
  BY <1>2, TriggerIs DEF Turns, Or
<1> HIDE DEF trigger
<1>4. p \in Pause /\ p.results = turn.stash /\ p.trigger = trigger
  BY <1>2, <1>3 DEF Turns, Pause
<1> HIDE DEF p
<1>5. /\ pause' \in Pause \cup {None} /\ backoff' \in Trigger /\ sess' \in {"open", "error"}
      /\ lost' \in BOOLEAN /\ crossed' \in Recalled /\ restarts' \in 0 .. MaxRestarts
  BY <1>1, <1>4 DEF Recalled, IInv, TypeOK
<1>6. pause' # None
  BY <1>1, <1>4, PauseAssumption
<1>7. Asking(pause'.results) /\ (crossed' = "yes" => pause'.trigger # None) /\ sess' # "error"
  BY <1>1, <1>2, <1>4
<1>. QED
  BY <1>1, <1>5, <1>6, <1>7, Returns

LEMMA BoundaryKeeps == ASSUME IInv, EndTurn PROVE IInv'
<1> DEFINE trigger == Or(turn.trigger, AutoTrigger(turn.usage))
<1>1. /\ phase = "boundary"
      /\ UNCHANGED <<sess, log, marks, pause, backoff, lost, crossed, restarts>>
      /\ Return \/ (turn' = [NoTurn EXCEPT !.trigger = trigger] /\ phase' = "compact" /\ UNCHANGED call)
  BY DEF EndTurn
<1>2. backoff \in Trigger /\ crossed \in Recalled /\ turn \in Turns /\ call \in Call
  BY <1>1 DEF Recalled, IInv, TypeOK, Modes, Turns
<1>3. CASE Return
  BY <1>1, <1>2, <1>3, EndKeeps
<1>4. CASE turn' = [NoTurn EXCEPT !.trigger = trigger] /\ phase' = "compact" /\ UNCHANGED call
  <2>1. trigger \in Trigger
    BY <1>2, TriggerIs DEF Turns, Or
  <2> HIDE DEF trigger
  <2>2. turn' \in Turns /\ Len(turn'.chain) <= Len(Kinds)
    BY <1>4, <2>1, NoTurnIs DEF Turns
  <2>. QED
    BY <1>1, <1>2, <1>4, <2>2, GoesOn DEF Parking, Claiming
<1>. QED
  BY <1>1, <1>3, <1>4

LEMMA LimitKeeps == ASSUME IInv, NEW uses, LoopLimit(uses) PROVE IInv'
<1>1. backoff \in Trigger
  BY DEF Recalled, IInv, TypeOK
<1>. QED
  BY <1>1, EndKeeps DEF LoopLimit

LEMMA GiveUpKeeps == ASSUME IInv, phase \in {"compact", "summarise"}, GiveUp PROVE IInv'
<1>1. backoff \in Trigger /\ turn.trigger \in Trigger
  BY DEF Recalled, IInv, TypeOK
<1>2. backoff' \in Trigger
  BY <1>1 DEF GiveUp
<1>. QED
  BY <1>2, EndKeeps DEF GiveUp

LEMMA CompactKeeps == ASSUME IInv, StartCompaction \/ SummaryFails PROVE IInv'
<1>1. /\ phase \in {"compact", "summarise"} /\ call \in Call /\ turn \in Turns /\ Len(turn.chain) <= Len(Kinds)
      /\ crossed \in Recalled
  BY DEF StartCompaction, SummaryFails, Recalled, IInv, TypeOK, Modes, Turns
<1>2. CASE GiveUp
  BY <1>1, <1>2, GiveUpKeeps
<1>3. ASSUME NEW chain \in Chains, turn' = FirstAttempt(chain), phase' = "summarise",
             UNCHANGED <<sess, log, marks, pause, call, backoff, lost, crossed, restarts>>
      PROVE  IInv'
  <2>1. turn' \in Turns /\ Len(turn'.chain) <= Len(Kinds)
    BY <1>1, <1>3, ChainIs
  <2>. QED
    BY <1>1, <1>3, <2>1, GoesOn DEF Parking, Claiming
<1>4. CASE /\ phase = "summarise" /\ turn.attempt < Len(turn.chain) /\ turn' = [turn EXCEPT !.attempt = @ + 1]
           /\ UNCHANGED <<sess, log, marks, pause, call, phase, backoff, lost, crossed, restarts>>
  <2>1. turn.attempt + 1 \in 0 .. Len(Kinds)
    <3>1. turn.attempt \in Nat /\ Len(turn.chain) \in Nat /\ Len(Kinds) \in Nat
      BY <1>1, ChainAssumption DEF Turns
    <3>. QED
      BY <1>1, <1>4, <3>1
  <2>2. turn' \in Turns /\ turn'.chain = turn.chain
    BY <1>1, <1>4, <2>1 DEF Turns
  <2>. QED
    BY <1>1, <1>4, <2>2, GoesOn DEF Parking, Claiming
<1>. QED
  BY <1>2, <1>3, <1>4 DEF StartCompaction, SummaryFails

LEMMA CommitKeeps == ASSUME IInv, CommitSummary PROVE IInv'
<1>1. /\ phase = "summarise" /\ log' = log \o <<Conv!Preamble, Conv!Summary>>
      /\ marks' = Append(marks, [preamble |-> Len(log) + 1, summary |-> Len(log) + 2])
      /\ backoff' = None /\ lost' = FALSE /\ Return
      /\ UNCHANGED <<sess, pause, crossed, restarts>>
  BY DEF CommitSummary
<1>2. Logs /\ Len(log) \in Nat /\ pause = None
  BY <1>1 DEF Recalled, IInv, TypeOK, Modes, Logs
<1>3. Logs' /\ Len(log') = Len(log) + 2 /\ log' # <<>> /\ Newest' = Conv!Summary
  BY <1>1, <1>2, SummaryGrows
<1>4. marks \in MarksTo(Len(log'))
  <2>1. marks \in MarksTo(Len(log))
    BY DEF Recalled, IInv, TypeOK, MarksTo
  <2>. QED
    BY <1>2, <1>3, <2>1, MarksGrow
<1>5. marks' \in MarksTo(Len(log'))
  BY <1>1, <1>2, <1>3, <1>4 DEF MarksTo
<1>6. TypeOK'
  BY <1>1, <1>2, <1>3, <1>5, NoTurnIs DEF Recalled, IInv, TypeOK, Turns, Logs, MarksTo, Return, Trigger
<1>7. Modes'
  BY <1>1, <1>2, NoTurnIs DEF IInv, Modes, Return
<1>8. Conv!Summary.uses = <<>>
  BY DEF Conv!Summary, Conv!Text
<1>9. ~Conv!Unanswered(log')
  BY <1>3, <1>8 DEF Conv!Unanswered, Conv!Newest, Newest
<1>10. Waiting'
  BY <1>1, <1>2, <1>9 DEF Waiting, Parking, Parked, Claiming, Asking, Return
<1>11. Tracked'
  BY <1>1, <1>2 DEF Tracked, Parked, Claiming, Return
<1>. QED
  BY <1>3, <1>6, <1>7, <1>10, <1>11 DEF IInv, Logs

LEMMA ExpireKeeps == ASSUME IInv, Expire PROVE IInv'
<1>1. /\ pause # None /\ pause \in Pause /\ pause' = [pause EXCEPT !.expired = TRUE]
      /\ UNCHANGED <<sess, log, marks, call, phase, turn, backoff, lost, crossed, restarts>>
  BY DEF Expire, IInv, TypeOK
<1>2. pause' \in Pause /\ pause'.results = pause.results /\ pause'.trigger = pause.trigger
  BY <1>1 DEF Pause
<1>3. phase = "idle" /\ sess # "error"
  BY <1>1 DEF IInv, Modes
<1>4. pause' # None
  BY <1>2, PauseAssumption
<1>5. TypeOK'
  BY <1>1, <1>2 DEF Recalled, IInv, TypeOK
<1>6. Modes' /\ Shape' /\ AnswersAreOwned'
  BY <1>1, <1>3 DEF IInv, Modes, Shape, AnswersAreOwned
<1>7. Waiting'
  BY <1>1, <1>2, <1>3, <1>4 DEF IInv, Waiting, Parking, Parked, Claiming, Asking, Newest, Conv!Unanswered, Conv!Newest
<1>8. Tracked'
  BY <1>1, <1>2, <1>3 DEF IInv, Tracked, Parked, Claiming
<1>. QED
  BY <1>5, <1>6, <1>7, <1>8 DEF IInv

\* The call is cut off, or the server: what is open is forgotten, or parked.
LEMMA CutKeeps == ASSUME IInv, CutOff \/ Restart PROVE IInv'
<1>1. /\ Return /\ lost' = (lost \/ Conv!Unanswered(log)) /\ UNCHANGED <<sess, log, marks, crossed>>
      /\ backoff' \in {backoff, None} /\ restarts' \in {restarts, restarts + 1}
      /\ restarts' # restarts => restarts < MaxRestarts
  BY DEF CutOff, Restart, Forgets
<1>2. pause' = None
  BY DEF CutOff, Restart, IInv, Modes
<1>3. lost \in BOOLEAN /\ backoff \in Trigger /\ sess \in {"open", "error"} /\ crossed \in Recalled /\ restarts \in 0 .. MaxRestarts
  BY DEF Recalled, IInv, TypeOK
<1>4. lost' \in BOOLEAN
  BY <1>1 DEF Conv!Unanswered
<1>5. restarts' \in 0 .. MaxRestarts
  BY <1>1, <1>3, BoundsAssumption
<1>6. backoff' \in Trigger
  BY <1>1, <1>3 DEF Trigger
<1>. QED
  BY <1>1, <1>2, <1>3, <1>4, <1>5, <1>6, Returns

-----------------------------------------------------------------------------

LEMMA InitKeeps == Init => IInv
<1>1. SUFFICES ASSUME Init PROVE IInv
  OBVIOUS
<1>2. NoTurn \in Turns /\ Len(NoTurn.chain) <= Len(Kinds)
  BY NoTurnIs
<1>3. 0 \in 0 .. MaxRestarts /\ None \in Trigger
  BY BoundsAssumption DEF Trigger
<1>4. /\ phase = "idle" /\ pause = None /\ call = None /\ turn = NoTurn /\ sess = "open" /\ crossed = "no"
  BY <1>1 DEF Init
<1>5. /\ log \in Seq(Message) /\ marks \in MarksTo(Len(log))
      /\ \A i \in 1 .. Len(log) : log[i].uses = <<>> /\ log[i].results = <<>>
  <2>1. CASE log = <<>> /\ marks = <<>>
    BY <2>1 DEF MarksTo
  <2>2. CASE log = <<Text("user"), Conv!Summary>> /\ marks = <<[preamble |-> 0, summary |-> 2]>>
    <3>1. log = <<Text("user"), Text("assistant")>>
      BY <2>2 DEF Conv!Summary, Text
    <3> DEFINE u == Text("user")
               a == Text("assistant")
    <3>2. u \in Message /\ a \in Message /\ u.uses = <<>> /\ u.results = <<>> /\ a.uses = <<>> /\ a.results = <<>>
      BY TextIs
    <3>3. log = <<u, a>>
      BY <3>1
    <3> HIDE DEF u, a
    <3>4. log \in Seq(Message) /\ Len(log) = 2 /\ log[1] = u /\ log[2] = a
      BY <3>2, <3>3
    <3>5. marks \in MarksTo(2)
      BY <2>2 DEF MarksTo
    <3>6. \A i \in 1 .. Len(log) : i = 1 \/ i = 2
      BY <3>4
    <3>. QED
      BY <3>2, <3>4, <3>5, <3>6
  <2>. QED
    BY <1>1, <2>1, <2>2 DEF Init
<1>6. TypeOK
  BY <1>1, <1>2, <1>3, <1>5 DEF Init, TypeOK, Turns, MarksTo
<1>7. Modes /\ Shape
  BY <1>2, <1>4, <1>5 DEF Modes, Shape
<1>8. AnswersAreOwned
  <2>1. \A i \in 2 .. Len(log) : DOMAIN log[i].results = {}
    BY <1>5
  <2>. QED
    BY <2>1 DEF AnswersAreOwned
<1>9. ~Conv!Unanswered(log)
  BY <1>5 DEF Conv!Unanswered, Conv!Newest
<1>10. Waiting /\ Tracked
  BY <1>4, <1>9 DEF Waiting, Parking, Parked, Claiming, Tracked
<1>. QED
  BY <1>6, <1>7, <1>8, <1>10 DEF IInv

LEMMA NextKeeps == IInv /\ [Next]_vars => IInv'
<1>1. SUFFICES ASSUME IInv, [Next]_vars PROVE IInv'
  OBVIOUS
<1>2. CASE UNCHANGED vars
  <2>1. UNCHANGED <<sess, log, marks, pause, call, phase, turn, backoff, lost, crossed, restarts>>
    BY <1>2 DEF vars
  <2>2. TypeOK'
    BY <1>1, <2>1 DEF Recalled, IInv, TypeOK
  <2>3. Modes' /\ Shape' /\ AnswersAreOwned'
    BY <1>1, <2>1 DEF IInv, Modes, Shape, AnswersAreOwned
  <2>4. Waiting' /\ Tracked'
    BY <1>1, <2>1 DEF IInv, Waiting, Tracked, Kept, Parking, Parked, Claiming, Asking, Newest, Conv!Unanswered, Conv!Newest
  <2>. QED
    BY <2>2, <2>3, <2>4 DEF IInv
<1>3. ASSUME NEW uses \in UpTo(Conv!Block({"client", "server"})), NEW usage \in Usages, Respond(uses, usage)
      PROVE  IInv'
  BY <1>1, <1>3, FinalKeeps, AskKeeps, RoundKeeps, LimitKeeps DEF Respond
<1>4. CASE ServerStep
  BY <1>1, <1>3, <1>4, RecordKeeps, RetireKeeps, TurnKeeps, ParkKeeps, BoundaryKeeps, CompactKeeps, CommitKeeps
     DEF ServerStep
<1>. QED
  BY <1>1, <1>2, <1>4, ReceiveKeeps, ExpireKeeps, CutKeeps DEF Next

LEMMA Invariance == Spec => []IInv
BY InitKeeps, NextKeeps, PTL DEF Spec

\* Type correctness of the turns of a session.
THEOREM TranscriptTypes == Spec => []TypeOK
<1>1. IInv => TypeOK
  BY DEF IInv
<1>. QED
  BY Invariance, <1>1, PTL

\* merge_tool_results and cancel_abandoned_tool_uses: whoever answers a paused
\* turn, resumes it, abandons it or retires it, what the server executed is in
\* the log as the server's result, and nothing else is.
THEOREM AnswersOwned == Spec => []AnswersAreOwned
<1>1. IInv => AnswersAreOwned
  BY DEF IInv
<1>. QED
  BY Invariance, <1>1, PTL

\* maybe_auto_compact: a call over the threshold is compacted away at the end
\* of its exchange, however many pauses, and calls of other sizes, came between;
\* but a call that ran the server's tools alone, and was followed in its turn by
\* one that stayed below, is not.
THEOREM Crossing == Spec => CrossingHonoured
<1>1. ASSUME IInv, [Next]_vars, phase = "boundary", phase' = "idle", UNCHANGED restarts
      PROVE  crossed # "yes" \/ backoff # None
  <2>1. CASE EndTurn
    BY <1>1, <2>1 DEF EndTurn, IInv, Tracked, Kept
  <2>2. CASE UNCHANGED phase
    BY <1>1, <2>2
  <2>3. CASE Restart
    BY <1>1, <2>3 DEF Restart, IInv, TypeOK
  <2>4. phase # "boundary" \/ EndTurn \/ UNCHANGED phase \/ Restart
    <3>1. CASE ServerStep
      BY <3>1 DEF ServerStep, RecordMessage, RetirePause, StartTurn, AttemptFails, Park, Respond, FinalAnswer,
                  AskClient, ServerRound, LoopLimit, StartCompaction, SummaryFails, CommitSummary
    <3>2. CASE \E m \in Incoming : Receive(m)
      BY <3>2 DEF Receive
    <3>3. CASE Expire \/ CutOff
      BY <3>3 DEF Expire, CutOff
    <3>. QED
      BY <1>1, <3>1, <3>2, <3>3 DEF Next, vars
  <2>. QED
    BY <1>1, <2>1, <2>2, <2>3, <2>4
<1>2. IInv /\ [Next]_vars
        => [phase = "boundary" /\ phase' = "idle" /\ UNCHANGED restarts => crossed # "yes" \/ backoff # None]_vars
  BY <1>1
<1>. QED
  BY <1>2, Invariance, PTL DEF CrossingHonoured, Spec

-----------------------------------------------------------------------------
(* The replayed part of the log.                                           *)

LEMMA ScopeIs ==
  ASSUME NEW l \in Seq(Message), NEW b \in 1 .. Len(l) + 1, l # <<>> => b <= Len(l)
  PROVE  LET h == SubSeq(l, b, Len(l))
         IN  /\ h \in Seq(Message) /\ Len(h) = Len(l) + 1 - b /\ (h = <<>> <=> l = <<>>)
             /\ \A i \in 1 .. Len(h) : h[i] = l[b + i - 1]
             /\ l # <<>> => h[Len(h)] = l[Len(l)]
<1> DEFINE h == SubSeq(l, b, Len(l))
<1>1. Len(l) \in Nat /\ b \in 1 .. Len(l) + 1 /\ \A i \in 1 .. Len(l) : l[i] \in Message
  OBVIOUS
<1>2. Len(h) = Len(l) + 1 - b /\ \A i \in 1 .. Len(h) : h[i] = l[b + i - 1]
  OBVIOUS
<1>3. h \in Seq(Message)
  OBVIOUS
<1> HIDE DEF h
<1>4. h = <<>> <=> Len(h) = 0
  BY <1>3
<1>5. l = <<>> <=> Len(l) = 0
  OBVIOUS
<1>. QED
  BY <1>1, <1>2, <1>3, <1>4, <1>5 DEF h

LEMMA ScopeGrows ==
  ASSUME NEW l \in Seq(Message), NEW b \in 1 .. Len(l) + 1, l # <<>> => b <= Len(l), NEW m \in Message
  PROVE  SubSeq(Append(l, m), b, Len(l) + 1) = Append(SubSeq(l, b, Len(l)), m)
<1> DEFINE h == SubSeq(l, b, Len(l))
           k == Append(l, m)
           g == SubSeq(k, b, Len(l) + 1)
<1>1. h \in Seq(Message) /\ Len(h) = Len(l) + 1 - b /\ \A i \in 1 .. Len(h) : h[i] = l[b + i - 1]
  BY ScopeIs
<1>2. k \in Seq(Message) /\ Len(k) = Len(l) + 1 /\ k[Len(l) + 1] = m /\ \A i \in 1 .. Len(l) : k[i] = l[i]
  OBVIOUS
<1> HIDE DEF h, k
<1>3. g \in Seq(Message) /\ Len(g) = Len(l) + 2 - b /\ \A i \in 1 .. Len(g) : g[i] = k[b + i - 1]
  <2>1. b \in 1 .. Len(k) + 1 /\ (k # <<>> => b <= Len(k))
    BY <1>2
  <2>. QED
    BY <1>2, <2>1, ScopeIs
<1> HIDE DEF g
<1> DEFINE a == Append(h, m)
<1>4. a \in Seq(Message) /\ Len(a) = Len(h) + 1 /\ a[Len(h) + 1] = m /\ \A i \in 1 .. Len(h) : a[i] = h[i]
  BY <1>1
<1> HIDE DEF a
<1>5. Len(l) \in Nat /\ b \in Nat /\ Len(g) = Len(a)
  BY <1>1, <1>3, <1>4
<1>6. ASSUME NEW i \in 1 .. Len(g) PROVE g[i] = a[i]
  <2> DEFINE j == b + i - 1
  <2>1. CASE i \in 1 .. Len(h)
    <3>1. j \in 1 .. Len(l)
      BY <1>1, <1>5, <2>1
    <3> HIDE DEF j
    <3>2. g[i] = k[j] /\ h[i] = l[j]
      BY <1>1, <1>3, <2>1 DEF j
    <3>. QED
      BY <1>2, <1>4, <2>1, <3>1, <3>2
  <2>2. CASE i = Len(h) + 1
    <3>1. j = Len(l) + 1
      BY <1>1, <1>5, <2>2
    <3>. QED
      BY <1>2, <1>3, <1>4, <2>2, <3>1
  <2>. QED
    BY <1>1, <1>3, <1>5, <2>1, <2>2
<1>7. g = a
  BY <1>3, <1>4, <1>5, <1>6
<1>. QED
  BY <1>7 DEF g, a, h, k

LEMMA BoundIs ==
  ASSUME TypeOK
  PROVE  /\ log \in Seq(Message) /\ LowerBound(marks) \in 1 .. Len(log) + 1
         /\ log # <<>> => LowerBound(marks) <= Len(log)
<1>1. log \in Seq(Message) /\ Len(log) \in Nat /\ (log # <<>> => Len(log) > 0)
  BY DEF TypeOK
<1>2. CASE marks = <<>>
  BY <1>1, <1>2 DEF LowerBound
<1>3. CASE marks # <<>>
  <2> DEFINE newest == marks[Len(marks)]
             first  == IF newest.preamble # 0 THEN newest.preamble ELSE newest.summary
  <2>1. newest \in [preamble : 0 .. Len(log), summary : 0 .. Len(log)]
    <3> DEFINE R == [preamble : 0 .. Len(log), summary : 0 .. Len(log)]
    <3>1. marks \in Seq(R)
      BY DEF TypeOK
    <3> HIDE DEF R
    <3>2. newest \in R
      BY <1>3, <3>1
    <3>. QED
      BY <3>2 DEF R
  <2>2. LowerBound(marks) = IF first # 0 THEN first ELSE 1
    BY <1>3 DEF LowerBound
  <2> HIDE DEF newest
  <2>3. first \in 0 .. Len(log)
    BY <2>1
  <2> HIDE DEF first
  <2>. QED
    BY <1>1, <2>2, <2>3
<1>. QED
  BY <1>2, <1>3

LEMMA HistoryIs ==
  ASSUME TypeOK
  PROVE  /\ History \in Seq(Message) /\ (History = <<>> <=> log = <<>>)
         /\ log # <<>> => Conv!Newest(History) = Newest
         /\ Conv!Unanswered(History) <=> Conv!Unanswered(log)
<1>1. /\ History \in Seq(Message) /\ (History = <<>> <=> log = <<>>)
      /\ log # <<>> => History[Len(History)] = log[Len(log)]
  BY BoundIs, ScopeIs DEF History
<1>. QED
  BY <1>1 DEF Conv!Newest, Newest, Conv!Unanswered

View == <<History, ~lost>>

\* A message that fits, or any once a question was lost, is said.
LEMMA SayIs ==
  ASSUME IInv, NEW m \in Message, log' = Append(log, m), ~lost => Conv!Fits(log, m), UNCHANGED <<marks, lost>>
  PROVE  Conversing!Say
<1>1. /\ log \in Seq(Message) /\ LowerBound(marks) \in 1 .. Len(log) + 1
      /\ log # <<>> => LowerBound(marks) <= Len(log)
  BY BoundIs DEF IInv
<1>2. Len(log') = Len(log) + 1 /\ LowerBound(marks)' = LowerBound(marks)
  BY <1>1
<1>3. History' = Append(History, m)
  BY <1>1, <1>2, ScopeGrows DEF History
<1>4. History \in Seq(Message) /\ (History = <<>> <=> log = <<>>) /\ (log # <<>> => Conv!Newest(History) = Newest)
  BY HistoryIs DEF IInv
<1> DEFINE h == History
           k == Append(h, m)
<1>5. k # <<>> /\ Conv!Newest(k) = m
  BY <1>4 DEF Conv!Newest
<1>6. Conv!Unanswered(h) <=> Conv!Unanswered(log)
  BY HistoryIs DEF IInv
<1>7. Conv!Unanswered(h) => Conv!Newest(h) = Conv!Newest(log)
  BY <1>4 DEF Conv!Unanswered, Conv!Newest, Newest
<1>8. ~lost => Conv!Fits(h, m)
  BY <1>6, <1>7 DEF Conv!Fits
<1> HIDE DEF h, k
<1>9. History' = k /\ History = h
  BY <1>3 DEF h, k
<1>10. /\ \A s : Conversing!Newest(s) = Conv!Newest(s) /\ Conversing!Unanswered(s) = Conv!Unanswered(s)
       /\ Conversing!Message = Message
       /\ \A s : Conversing!Fits(s, m) <=> Conv!Fits(s, m)
  BY DEF Conversing!Newest, Conv!Newest, Conversing!Unanswered, Conv!Unanswered, Conversing!Message, Conv!Message, Message,
         Conversing!Block, Conv!Block, Conversing!Fits, Conv!Fits, Conversing!SameIds, Conv!SameIds
<1>. QED
  BY <1>5, <1>8, <1>9, <1>10 DEF Conversing!Say, k

\* An answer fits the question it answers.
LEMMA AnswerFits ==
  ASSUME IInv, Claiming, ~Refused
  PROVE  Answer \in Message /\ Conv!Fits(log, Answer)
<1>1. /\ log # <<>> /\ Answer \in Message /\ Answer.role = "user" /\ Answer.uses = <<>>
      /\ Newest.uses # <<>> /\ Len(Answer.results) = Len(Newest.uses)
      /\ \A k \in 1 .. Len(Newest.uses) : Answer.results[k].id = Newest.uses[k].id
  BY AnswerIs
<1> DEFINE a == Answer
<1> HIDE DEF a
<1>2. Conv!Newest(log).uses # <<>> /\ Conv!SameIds(Conv!Newest(log).uses, a.results)
  BY <1>1 DEF Conv!SameIds, Conv!Newest, Newest, a
<1>3. a.uses = <<>> /\ a.role = "user" /\ log # <<>>
  BY <1>1 DEF a
<1>4. Conv!Fits(log, a)
  BY <1>2, <1>3 DEF Conv!Fits, Conv!Unanswered
<1>. QED
  BY <1>1, <1>4 DEF a

\* A summary takes the place of everything.
LEMMA SummariseIs == ASSUME IInv, CommitSummary PROVE Conversing!Summarise
<1>1. /\ phase = "summarise" /\ log' = log \o <<Conv!Preamble, Conv!Summary>>
      /\ marks' = Append(marks, [preamble |-> Len(log) + 1, summary |-> Len(log) + 2])
      /\ lost' = FALSE
  BY DEF CommitSummary
<1>2. Logs /\ Len(log) \in Nat /\ Len(marks) \in Nat /\ marks \in MarksTo(Len(log))
  BY DEF Recalled, IInv, TypeOK, Logs, MarksTo
<1>3. /\ Logs' /\ Len(log') = Len(log) + 2 /\ Newest' = Conv!Summary
      /\ log'[Len(log) + 1] = Conv!Preamble
  BY <1>1, <1>2, SummaryGrows
<1>4. LowerBound(marks') = Len(log) + 1
  <2> DEFINE mark == [preamble |-> Len(log) + 1, summary |-> Len(log) + 2]
  <2>1. mark.preamble = Len(log) + 1 /\ mark.preamble # 0
    BY <1>2
  <2> HIDE DEF mark
  <2>2. marks' # <<>> /\ marks'[Len(marks')] = mark
    <3>1. ASSUME NEW R, marks \in Seq(R), marks' = Append(marks, mark)
          PROVE  marks' # <<>> /\ marks'[Len(marks')] = mark
      BY <3>1
    <3>. QED
      BY <1>1, <1>2, <3>1 DEF MarksTo, mark
  <2>. QED
    BY <2>1, <2>2 DEF LowerBound
<1>5. log'[Len(log) + 2] = Conv!Summary
  BY <1>3 DEF Newest
<1> DEFINE n == Len(log)
           l == log'
           h == SubSeq(l, n + 1, n + 2)
           p == Conv!Preamble
           s == Conv!Summary
<1>6. h = <<p, s>>
  <2>1. l \in Seq(Message) /\ Len(l) = n + 2 /\ n \in Nat /\ l[n + 1] = p /\ l[n + 2] = s
    BY <1>2, <1>3, <1>5 DEF Logs
  <2> HIDE DEF n, l, p, s
  <2>2. h \in Seq(Message) /\ Len(h) = 2 /\ h[1] = p /\ h[2] = s
    BY <2>1
  <2>3. \A i \in 1 .. 2 : i = 1 \/ i = 2
    OBVIOUS
  <2> HIDE DEF h
  <2>. QED
    BY <2>2, <2>3
<1>7. History' = h
  BY <1>3, <1>4 DEF History
<1>8. ~lost => ~Conv!Unanswered(log)
  BY <1>1, Closed DEF Parking, Claiming
<1>9. Conv!Unanswered(History) <=> Conv!Unanswered(log)
  BY HistoryIs DEF IInv
<1>10. Conversing!Unanswered(History) <=> Conv!Unanswered(History)
  BY DEF Conversing!Unanswered, Conv!Unanswered, Conversing!Newest, Conv!Newest
<1>11. Conversing!Preamble = p /\ Conversing!Summary = s
  BY DEF Conversing!Preamble, Conversing!Summary, Conversing!Text, Conv!Preamble, Conv!Summary, Conv!Text
<1>12. History' = <<Conversing!Preamble, Conversing!Summary>>
  BY <1>6, <1>7, <1>11
<1>. QED
  BY <1>1, <1>8, <1>9, <1>10, <1>12 DEF Conversing!Summarise

\* Nothing is said and nothing is forgotten.
LEMMA StillIs == ASSUME UNCHANGED <<log, marks, lost>> PROVE UNCHANGED View
BY DEF View, History

\* What a call forgets was open.
LEMMA LoseIs ==
  ASSUME IInv, UNCHANGED <<log, marks>>, lost' = (lost \/ Conv!Unanswered(log))
  PROVE  Conversing!Lose \/ UNCHANGED View
<1>1. UNCHANGED History
  BY DEF History
<1>2. Conversing!Unanswered(History) <=> Conv!Unanswered(log)
  <2>1. Conv!Unanswered(History) <=> Conv!Unanswered(log)
    BY HistoryIs DEF IInv
  <2>. QED
    BY <2>1 DEF Conversing!Unanswered, Conv!Unanswered, Conversing!Newest, Conv!Newest
<1>3. CASE Conv!Unanswered(log)
  BY <1>1, <1>2, <1>3 DEF Conversing!Lose
<1>4. CASE ~Conv!Unanswered(log)
  <2>1. lost \in BOOLEAN /\ lost' = lost
    BY <1>4 DEF Recalled, IInv, TypeOK
  <2>. QED
    BY <1>1, <2>1 DEF View
<1>. QED
  BY <1>3, <1>4

LEMMA RecordMaps == ASSUME IInv, RecordMessage PROVE Conversing!Say \/ UNCHANGED View
<1>1. /\ phase = "record" /\ call \in Call /\ UNCHANGED <<marks, pause, backoff, lost, restarts>>
  BY DEF RecordMessage, IInv, Modes
<1>2. CASE UNCHANGED log
  BY <1>1, <1>2, StillIs
<1>3. CASE call.claim = None /\ log' = Append(log, Text(call.role))
  <2>1. call.role \in {"user", "assistant"}
    BY <1>1 DEF Call
  <2> DEFINE m == Text(call.role)
  <2>2. m \in Message /\ m.uses = <<>> /\ m.results = <<>>
    BY <2>1, TextIs
  <2> HIDE DEF m
  <2>3. ~lost => ~Conv!Unanswered(log)
    BY <1>1, <1>3, Closed DEF Parking, Claiming
  <2>4. ~lost => Conv!Fits(log, m)
    BY <2>2, <2>3 DEF Conv!Fits
  <2>. QED
    BY <1>1, <1>3, <2>2, <2>4, SayIs DEF m
<1>4. CASE call.claim # None /\ ~Refused /\ log' = Append(log, Answer)
  <2>1. Claiming
    BY <1>1, <1>4 DEF Claiming
  <2>. QED
    BY <1>1, <1>4, <2>1, AnswerFits, SayIs
<1>. QED
  BY <1>1, <1>2, <1>3, <1>4 DEF RecordMessage, FailMerge

LEMMA RetireMaps == ASSUME IInv, RetirePause PROVE Conversing!Say \/ UNCHANGED View
<1>1. /\ phase = "record" /\ UNCHANGED <<marks, lost>>
  BY DEF RetirePause
<1>2. CASE UNCHANGED log
  BY <1>1, <1>2, StillIs
<1>3. CASE call.claim # None /\ ~Refused /\ log' = Append(log, Answer)
  <2>1. Claiming
    BY <1>1, <1>3 DEF Claiming
  <2>. QED
    BY <1>1, <1>3, <2>1, AnswerFits, SayIs
<1>. QED
  BY <1>2, <1>3 DEF RetirePause

LEMMA RespondMaps ==
  ASSUME IInv, NEW uses \in UpTo(Conv!Block({"client", "server"})), NEW usage \in Usages, Respond(uses, usage)
  PROVE  Conversing!Say \/ UNCHANGED View
<1>1. CASE FinalAnswer(uses, usage) \/ AskClient(uses, usage)
  <2>1. phase = "ask" /\ log' = Append(log, Question(uses)) /\ UNCHANGED <<marks, lost>>
    BY <1>1 DEF FinalAnswer, AskClient
  <2>2. uses \in Asks
    BY StashIs
  <2> DEFINE m == Question(uses)
  <2>3. m \in Message /\ m.role = "assistant" /\ m.results = <<>>
    BY <2>2, QuestionIs
  <2> HIDE DEF m
  <2>4. ~lost => ~Conv!Unanswered(log)
    BY <2>1, Closed DEF Parking, Claiming
  <2>5. ~lost => Conv!Fits(log, m)
    BY <2>3, <2>4 DEF Conv!Fits
  <2>. QED
    BY <2>1, <2>3, <2>5, SayIs DEF m
<1>2. CASE ServerRound(uses, usage) \/ LoopLimit(uses)
  BY <1>2, StillIs DEF ServerRound, LoopLimit
<1>. QED
  BY <1>1, <1>2 DEF Respond

LEMMA InitMaps == Init => Conversing!Init
<1>1. SUFFICES ASSUME Init PROVE Conversing!Init
  OBVIOUS
<1>2. IInv
  BY <1>1, InitKeeps
<1>3. History \in Seq(Message) /\ \A i \in 1 .. Len(History) : History[i].uses = <<>> /\ History[i].results = <<>>
  <2>1. \A i \in 1 .. Len(log) : log[i].uses = <<>> /\ log[i].results = <<>>
    <3>1. CASE log = <<>>
      BY <3>1
    <3>2. CASE log = <<Text("user"), Text("assistant")>>
      <4>1. \A i \in 1 .. Len(log) : log[i] = Text("user") \/ log[i] = Text("assistant")
        BY <3>2
      <4>. QED
        BY <4>1, TextIs
    <3>. QED
      BY <1>1, <3>1, <3>2 DEF Init, Conv!Summary, Text
  <2> DEFINE b == LowerBound(marks)
  <2>2. log \in Seq(Message) /\ b \in 1 .. Len(log) + 1 /\ (log # <<>> => b <= Len(log))
    BY <1>2, BoundIs DEF IInv
  <2> HIDE DEF b
  <2>3. /\ History \in Seq(Message) /\ Len(History) = Len(log) + 1 - b
        /\ \A i \in 1 .. Len(History) : History[i] = log[b + i - 1]
    BY <2>2, ScopeIs DEF History, b
  <2>4. ASSUME NEW i \in 1 .. Len(History) PROVE b + i - 1 \in 1 .. Len(log)
    BY <2>2, <2>3
  <2>. QED
    BY <2>1, <2>3, <2>4
<1> DEFINE h == History
<1>4. Conversing!Message = Message
  BY DEF Conversing!Message, Conv!Message, Message, Conversing!Block, Conv!Block
<1>5. ~lost
  BY <1>1 DEF Init
<1> HIDE DEF h
<1>6. ~Conversing!Unanswered(h)
  BY <1>3 DEF Conversing!Unanswered, Conversing!Newest, h
<1>7. Conversing!Paired(h)
  <2>1. SUFFICES ASSUME NEW i \in 1 .. Len(h)
                 PROVE  Conversing!Fits(IF i = 1 THEN <<>> ELSE <<h[i - 1]>>, h[i])
    BY DEF Conversing!Paired
  <2>2. h[i].uses = <<>> /\ h[i].results = <<>>
    BY <1>3 DEF h
  <2>3. CASE i = 1
    BY <2>2, <2>3 DEF Conversing!Fits, Conversing!Unanswered
  <2>4. CASE i # 1
    <3>1. i - 1 \in 1 .. Len(h)
      BY <1>3, <2>4 DEF h
    <3>2. h[i - 1].uses = <<>>
      BY <1>3, <3>1 DEF h
    <3>. QED
      BY <2>2, <2>4, <3>2 DEF Conversing!Fits, Conversing!Unanswered, Conversing!Newest
  <2>. QED
    BY <2>3, <2>4
<1>. QED
  BY <1>3, <1>4, <1>5, <1>6, <1>7 DEF Conversing!Init, h

LEMMA NextMaps == IInv /\ [Next]_vars => [Conversing!Next]_View
<1>1. SUFFICES ASSUME IInv, [Next]_vars PROVE [Conversing!Next]_View
  OBVIOUS
<1>2. CASE UNCHANGED vars
  BY <1>2, StillIs DEF vars
<1>3. CASE RecordMessage \/ RetirePause
  BY <1>1, <1>3, RecordMaps, RetireMaps DEF Conversing!Next
<1>4. CASE StartTurn \/ AttemptFails \/ Park \/ EndTurn
  BY <1>4, StillIs DEF StartTurn, AttemptFails, Park, EndTurn
<1>5. ASSUME NEW uses \in UpTo(Conv!Block({"client", "server"})), NEW usage \in Usages, Respond(uses, usage)
      PROVE  [Conversing!Next]_View
  BY <1>1, <1>5, RespondMaps DEF Conversing!Next
<1>6. CASE StartCompaction \/ SummaryFails
  BY <1>6, StillIs DEF StartCompaction, SummaryFails, GiveUp
<1>7. CASE CommitSummary
  BY <1>1, <1>7, SummariseIs DEF Conversing!Next
<1>8. ASSUME NEW m \in Incoming, Receive(m) PROVE [Conversing!Next]_View
  BY <1>8, StillIs DEF Receive
<1>9. CASE Expire
  BY <1>9, StillIs DEF Expire
<1>10. CASE CutOff \/ Restart
  BY <1>1, <1>10, LoseIs DEF CutOff, Restart, Forgets, Conversing!Next
<1>. QED
  BY <1>1, <1>2, <1>3, <1>4, <1>5, <1>6, <1>7, <1>8, <1>9, <1>10 DEF Next, ServerStep

\* run_turn, run_compaction and stream_history: what is replayed to a provider
\* is one conversation.  It grows by messages that fit, a summary takes its
\* place when no question is open, and a question is forgotten only with the
\* call, or the server, that was to see it answered.
THEOREM ConversationRefined == Spec => ImplementsConversation
<1>1. IInv /\ [Next]_vars => [Conversing!Next]_<<History, ~lost>>
  BY NextMaps DEF View
<1>. QED
  BY InitMaps, Invariance, <1>1, PTL DEF Spec, ImplementsConversation, Conversing!Spec

\* A conversation that grows so stays paired.
LEMMA PairedKeeps ==
  ASSUME Conversing!SoundIsPaired, [Conversing!Next]_View, History \in Seq(Message)
  PROVE  Conversing!SoundIsPaired'
<1>1. CASE UNCHANGED View
  <2>1. History' = History /\ (~lost') = ~lost
    BY <1>1 DEF View
  <2>. QED
    BY <2>1 DEF Conversing!SoundIsPaired, Conversing!Paired
<1>2. CASE Conversing!Lose
  BY <1>2 DEF Conversing!Lose, Conversing!SoundIsPaired
<1>3. CASE Conversing!Summarise
  <2> DEFINE u == Conversing!Preamble
             a == Conversing!Summary
             k == <<u, a>>
  <2>1. u.uses = <<>> /\ u.results = <<>> /\ a.uses = <<>> /\ a.results = <<>>
    BY DEF Conversing!Preamble, Conversing!Summary, Conversing!Text
  <2>2. History' = k
    BY <1>3 DEF Conversing!Summarise
  <2> HIDE DEF u, a
  <2>3. Len(k) = 2 /\ k[1] = u /\ k[2] = a
    OBVIOUS
  <2> HIDE DEF k
  <2>4. Conversing!Fits(<<>>, u) /\ Conversing!Fits(<<u>>, a)
    BY <2>1 DEF Conversing!Fits, Conversing!Unanswered, Conversing!Newest
  <2>5. \A i \in 1 .. Len(k) : i = 1 \/ i = 2
    BY <2>3
  <2>6. Conversing!Paired(k)
    BY <2>3, <2>4, <2>5 DEF Conversing!Paired
  <2>. QED
    BY <2>2, <2>6 DEF Conversing!SoundIsPaired, Conversing!Paired
<1>4. CASE Conversing!Say
  <2>1. PICK m \in Message : /\ History' = Append(History, m) /\ (~lost') = ~lost
                             /\ ~lost => Conversing!Fits(History, m)
    <3>1. Conversing!Message = Message
      BY DEF Conversing!Message, Conv!Message, Message, Conversing!Block, Conv!Block
    <3>. QED
      BY <1>4, <3>1 DEF Conversing!Say
  <2> DEFINE h == History
             k == Append(h, m)
  <2>2. /\ h \in Seq(Message) /\ Len(h) \in Nat /\ Len(k) = Len(h) + 1 /\ k[Len(h) + 1] = m
        /\ \A i \in 1 .. Len(h) : k[i] = h[i]
    OBVIOUS
  <2>3. h = <<>> <=> Len(h) = 0
    BY <2>2
  <2> HIDE DEF h, k
  <2>4. ASSUME Conversing!Paired(h), Conversing!Fits(h, m) PROVE Conversing!Paired(k)
    <3>1. SUFFICES ASSUME NEW i \in 1 .. Len(k)
                   PROVE  Conversing!Fits(IF i = 1 THEN <<>> ELSE <<k[i - 1]>>, k[i])
      BY DEF Conversing!Paired
    <3>2. CASE i \in 1 .. Len(h)
      <4>1. k[i] = h[i] /\ (i # 1 => k[i - 1] = h[i - 1])
        BY <2>2, <3>2
      <4>. QED
        BY <2>4, <3>2, <4>1 DEF Conversing!Paired
    <3>3. CASE i = Len(h) + 1 /\ h = <<>>
      BY <2>2, <2>3, <2>4, <3>3
    <3>4. CASE i = Len(h) + 1 /\ h # <<>>
      <4>1. i # 1 /\ k[i] = m /\ k[i - 1] = h[Len(h)]
        BY <2>2, <2>3, <3>4
      <4> DEFINE one == <<h[Len(h)]>>
      <4>2. one # <<>> /\ Conversing!Newest(one) = Conversing!Newest(h)
        BY DEF Conversing!Newest
      <4>3. Conversing!Fits(one, m)
        BY <2>4, <3>4, <4>2 DEF Conversing!Fits, Conversing!Unanswered
      <4>. QED
        BY <4>1, <4>3
    <3>. QED
      BY <2>2, <3>2, <3>3, <3>4
  <2>5. History = h /\ History' = k
    BY <2>1 DEF h, k
  <2>. QED
    BY <2>1, <2>4, <2>5 DEF Conversing!SoundIsPaired, Conversing!Paired
<1>. QED
  BY <1>1, <1>2, <1>3, <1>4 DEF Conversing!Next

\* What a provider is sent has an answer right after every question, to each of
\* its calls and in their order, and no answer elsewhere, unless a question was
\* forgotten and not compacted away since.
THEOREM ReplayIsPaired == Spec => []Conversing!SoundIsPaired
<1>1. Conversing!Init => Conversing!SoundIsPaired
  BY DEF Conversing!Init, Conversing!SoundIsPaired
<1>2. IInv => History \in Seq(Message)
  BY HistoryIs DEF IInv
<1>3. IInv /\ [Next]_vars /\ Conversing!SoundIsPaired => Conversing!SoundIsPaired'
  BY <1>2, NextMaps, PairedKeeps
<1>. QED
  BY <1>1, <1>3, InitMaps, Invariance, PTL DEF Spec

-----------------------------------------------------------------------------
(* What a provider accepts.                                                *)

\* m may come after a message with these tool calls.
Suits(uses, m) ==
  /\ m.uses # <<>> => m.role = "assistant" /\ m.results = <<>>
  /\ IF uses # <<>> THEN m.role = "user" /\ Conv!SameIds(uses, m.results) ELSE m.results = <<>>

Before(msgs, i) == IF i = 1 THEN <<>> ELSE msgs[i - 1].uses
LastUses(msgs)  == IF msgs = <<>> THEN <<>> ELSE msgs[Len(msgs)].uses
Suited(msgs)    == msgs \in Seq(Message) /\ \A i \in 1 .. Len(msgs) : Suits(Before(msgs, i), msgs[i])

\* ... and no question is left.
Complete(msgs)  == Suited(msgs) /\ LastUses(msgs) = <<>>

LEMMA PairedIs ==
  ASSUME NEW msgs \in Seq(Message)
  PROVE  Conv!Paired(msgs) <=> Suited(msgs)
<1>1. ASSUME NEW i \in 1 .. Len(msgs)
      PROVE  Conv!Fits(IF i = 1 THEN <<>> ELSE <<msgs[i - 1]>>, msgs[i]) <=> Suits(Before(msgs, i), msgs[i])
  <2>1. CASE i = 1
    BY <2>1 DEF Conv!Fits, Conv!Unanswered, Suits, Before
  <2>2. CASE i # 1
    <3> DEFINE one == <<msgs[i - 1]>>
    <3>1. one # <<>> /\ Conv!Newest(one) = msgs[i - 1]
      BY DEF Conv!Newest
    <3> HIDE DEF one
    <3>2. Conv!Fits(one, msgs[i]) <=> Suits(Before(msgs, i), msgs[i])
      BY <2>2, <3>1 DEF Conv!Fits, Conv!Unanswered, Suits, Before
    <3>. QED
      BY <2>2, <3>2 DEF one
  <2>. QED
    BY <2>1, <2>2
<1>. QED
  BY <1>1 DEF Conv!Paired, Suited

LEMMA OpenIs ==
  ASSUME NEW msgs
  PROVE  Conv!Unanswered(msgs) <=> LastUses(msgs) # <<>>
BY DEF Conv!Unanswered, Conv!Newest, LastUses

\* A message that suits the newest may follow it.
LEMMA SuitedGrows ==
  ASSUME NEW msgs, Suited(msgs), NEW m \in Message, Suits(LastUses(msgs), m)
  PROVE  LET k == Append(msgs, m)
         IN  /\ Suited(k) /\ Len(k) = Len(msgs) + 1 /\ k # <<>> /\ k[Len(k)] = m /\ LastUses(k) = m.uses
             /\ \A i \in 1 .. Len(msgs) : k[i] = msgs[i]
<1> DEFINE k == Append(msgs, m)
<1>1. /\ msgs \in Seq(Message) /\ Len(msgs) \in Nat /\ (msgs = <<>> <=> Len(msgs) = 0)
      /\ \A i \in 1 .. Len(msgs) : Suits(Before(msgs, i), msgs[i])
  BY DEF Suited
<1>2. /\ k \in Seq(Message) /\ Len(k) = Len(msgs) + 1 /\ k # <<>> /\ k[Len(k)] = m
      /\ \A i \in 1 .. Len(msgs) : k[i] = msgs[i]
  <2>1. k \in Seq(Message) /\ Len(k) = Len(msgs) + 1
    BY <1>1
  <2>2. k[Len(msgs) + 1] = m /\ \A i \in 1 .. Len(msgs) : k[i] = msgs[i]
    BY <1>1
  <2> HIDE DEF k
  <2>. QED
    BY <1>1, <2>1, <2>2
<1> HIDE DEF k
<1>3. ASSUME NEW i \in 1 .. Len(k)
      PROVE  Suits(Before(k, i), k[i])
  <2>1. CASE i \in 1 .. Len(msgs)
    <3>1. k[i] = msgs[i] /\ (i # 1 => k[i - 1] = msgs[i - 1])
      BY <1>1, <1>2, <2>1
    <3>2. Before(k, i) = Before(msgs, i)
      BY <3>1 DEF Before
    <3>. QED
      BY <1>1, <2>1, <3>1, <3>2
  <2>2. CASE i = Len(msgs) + 1
    <3>1. Before(k, i) = LastUses(msgs)
      BY <1>1, <1>2, <2>2 DEF Before, LastUses
    <3>. QED
      BY <1>2, <2>2, <3>1
  <2>. QED
    BY <1>1, <1>2, <2>1, <2>2
<1>. QED
  BY <1>2, <1>3 DEF Suited, LastUses, k

\* One conversation after another.
LEMMA SuitedJoins ==
  ASSUME NEW h, Complete(h), NEW e, Complete(e)
  PROVE  Complete(h \o e)
<1> DEFINE k == h \o e
<1>1. /\ h \in Seq(Message) /\ Len(h) \in Nat /\ (h = <<>> <=> Len(h) = 0)
      /\ \A i \in 1 .. Len(h) : Suits(Before(h, i), h[i])
  BY DEF Complete, Suited
<1>2. /\ e \in Seq(Message) /\ Len(e) \in Nat /\ (e = <<>> <=> Len(e) = 0)
      /\ \A i \in 1 .. Len(e) : Suits(Before(e, i), e[i])
  BY DEF Complete, Suited
<1>3. /\ k \in Seq(Message) /\ Len(k) = Len(h) + Len(e)
      /\ \A i \in 1 .. Len(h) : k[i] = h[i]
      /\ \A i \in 1 .. Len(e) : k[Len(h) + i] = e[i]
  BY <1>1, <1>2
<1>a. k = <<>> <=> Len(k) = 0
  BY <1>3
<1>b. LastUses(h) = <<>> /\ LastUses(e) = <<>>
  BY DEF Complete
<1> HIDE DEF k
<1>4. ASSUME NEW i \in 1 .. Len(k)
      PROVE  Suits(Before(k, i), k[i])
  <2>1. CASE i \in 1 .. Len(h)
    <3>1. k[i] = h[i] /\ (i # 1 => k[i - 1] = h[i - 1])
      BY <1>1, <1>3, <2>1
    <3>2. Before(k, i) = Before(h, i)
      BY <3>1 DEF Before
    <3>. QED
      BY <1>1, <2>1, <3>1, <3>2
  <2>2. CASE i \notin 1 .. Len(h)
    <3> DEFINE j == i - Len(h)
    <3>1. j \in 1 .. Len(e) /\ i = Len(h) + j
      BY <1>1, <1>2, <1>3, <2>2
    <3> HIDE DEF j
    <3>2. k[i] = e[j] /\ Suits(Before(e, j), e[j])
      BY <1>2, <1>3, <3>1
    <3>3. Before(k, i) = Before(e, j)
      <4>1. CASE j = 1
        <5>1. Before(k, i) = LastUses(h)
          BY <1>1, <1>3, <3>1, <4>1 DEF Before, LastUses
        <5>. QED
          BY <1>b, <4>1, <5>1 DEF Before
      <4>2. CASE j # 1
        <5>1. j - 1 \in 1 .. Len(e) /\ i - 1 = Len(h) + (j - 1) /\ i # 1
          BY <1>1, <1>2, <3>1, <4>2
        <5>2. k[i - 1] = e[j - 1]
          BY <1>3, <5>1
        <5>. QED
          BY <4>2, <5>1, <5>2 DEF Before
      <4>. QED
        BY <4>1, <4>2
    <3>. QED
      BY <3>2, <3>3
  <2>. QED
    BY <2>1, <2>2
<1>5. LastUses(k) = <<>>
  <2>1. CASE e = <<>>
    <3>1. Len(k) = Len(h) /\ (Len(h) # 0 => k[Len(k)] = h[Len(h)])
      BY <1>1, <1>2, <1>3, <2>1
    <3>. QED
      BY <1>1, <1>a, <1>b, <3>1 DEF LastUses
  <2>2. CASE e # <<>>
    <3>1. Len(k) # 0 /\ k[Len(k)] = e[Len(e)]
      BY <1>1, <1>2, <1>3, <2>2
    <3>. QED
      BY <1>a, <1>b, <2>2, <3>1 DEF LastUses
  <2>. QED
    BY <2>1, <2>2
<1>. QED
  BY <1>3, <1>4, <1>5 DEF Complete, Suited, k

\* prepare_messages for Anthropic, step by step.
Merging(before, next) ==
  IF Len(before) > 0 /\ before[Len(before)].role = next.role
    THEN [before EXCEPT ![Len(before)] = [role |-> next.role, uses |-> @.uses \o next.uses,
                                          results |-> @.results \o next.results]]
    ELSE Append(before, next)

FirstUsers(messages) ==
  IF messages # <<>> /\ messages[1].role # "user" THEN <<Text("user")>> \o messages ELSE messages

LEMMA MergingTypes ==
  ASSUME NEW before \in Seq(Message), NEW next \in Message
  PROVE  Merging(before, next) \in Seq(Message)
<1> DEFINE last == Len(before)
           old  == before[last]
           new  == [role |-> next.role, uses |-> old.uses \o next.uses, results |-> old.results \o next.results]
<1>1. CASE last > 0 /\ old.role = next.role
  <2>1. old \in Message /\ last \in 1 .. Len(before)
    BY <1>1
  <2>2. new \in Message
    BY <2>1 DEF Message, Conv!Message
  <2>3. Merging(before, next) = [before EXCEPT ![last] = new]
    BY <1>1 DEF Merging
  <2> HIDE DEF new
  <2>. QED
    BY <2>1, <2>2, <2>3
<1>2. CASE ~(last > 0 /\ old.role = next.role)
  BY <1>2 DEF Merging
<1>. QED
  BY <1>1, <1>2

LEMMA PrepareSteps ==
  ASSUME NEW messages \in Seq(Message)
  PROVE  LET input == FirstUsers(messages)
         IN  /\ input \in Seq(Message)
             /\ \E merged \in [0 .. Len(input) -> Seq(Message)] :
                  /\ merged[0] = <<>>
                  /\ \A n \in 1 .. Len(input) : merged[n] = Merging(merged[n - 1], input[n])
                  /\ Prepare("anthropic", messages) = merged[Len(input)]
<1> DEFINE input == FirstUsers(messages)
           N == Len(input)
           S == Seq(Message)
           F == [n \in 1 .. N |-> [q \in S |-> Merging(q, input[n])]]
           Is(f) == f = [n \in 0 .. N |->
                           IF n = 0 THEN <<>>
                           ELSE LET before == f[n - 1] last == Len(before) next == input[n]
                                IN  IF last > 0 /\ before[last].role = next.role
                                      THEN [before EXCEPT ![last] = [role |-> next.role,
                                                                     uses |-> @.uses \o next.uses,
                                                                     results |-> @.results \o next.results]]
                                      ELSE Append(before, next)]
           merged == CHOOSE g : Is(g)
<1>1. Prepare("anthropic", messages) = merged[N]
  BY DEF Prepare, FirstUsers
<1>2. input \in S /\ N \in Nat /\ \A n \in 1 .. N : input[n] \in Message
  BY TextIs DEF FirstUsers
<1> HIDE DEF input
<1>3. Rule(F, S, N)
  BY <1>2, MergingTypes DEF Rule
<1>4. PICK f : Obeys(f, <<>>, F, S, N)
  <2>1. <<>> \in S
    OBVIOUS
  <2> HIDE DEF S, F, N
  <2>. QED
    BY <1>2, <1>3, <2>1, Recursion
<1>5. f \in [0 .. N -> S] /\ f[0] = <<>> /\ \A n \in 1 .. N : f[n] = F[n][f[n - 1]]
  BY <1>4 DEF Obeys
<1>6. ASSUME NEW n \in 1 .. N
      PROVE  f[n] = Merging(f[n - 1], input[n])
  <2>1. n - 1 \in 0 .. N
    BY <1>2
  <2>2. f[n - 1] \in S
    <3> HIDE DEF F, S, N
    <3>. QED
      BY ZenonT(60), <1>5, <2>1
  <2>. QED
    BY <1>5, <2>2
<1>7. Is(f)
  <2> HIDE DEF F, S, N
  <2>1. ASSUME NEW n \in 0 .. N, n # 0
        PROVE  f[n] = Merging(f[n - 1], input[n])
    <3>1. n \in 1 .. N
      BY <1>2, <2>1
    <3>. QED
      BY Zenon, <1>6, <3>1
  <2>. QED
    BY <1>5, <2>1 DEF Merging
<1>8. Is(merged)
  BY Zenon, <1>7
<1>9. /\ merged[0] = <<>> /\ merged = [n \in 0 .. N |-> merged[n]]
      /\ \A n \in 1 .. N : merged[n] = Merging(merged[n - 1], input[n])
  <2> HIDE DEF merged, N
  <2>1. merged[0] = <<>> /\ merged = [n \in 0 .. N |-> merged[n]]
    BY <1>2, <1>8
  <2>2. ASSUME NEW n \in 1 .. N
        PROVE  merged[n] = Merging(merged[n - 1], input[n])
    <3>1. n \in 0 .. N /\ n # 0
      BY <1>2
    <3>. QED
      BY Zenon, <1>8, <3>1 DEF Merging
  <2>. QED
    BY <2>1, <2>2
<1>10. \A n \in 0 .. N : merged[n] \in S
  <2> HIDE DEF merged, N
  <2> DEFINE G == {n \in 0 .. N : merged[n] \in S}
  <2>1. G \in SUBSET Nat
    OBVIOUS
  <2>2. 0 \in G
    <3>1. <<>> \in S
      OBVIOUS
    <3>2. 0 \in 0 .. N
      BY <1>2
    <3>. QED
      BY Zenon, <1>9, <3>1, <3>2
  <2>3. ASSUME NEW n \in 1 .. N, n - 1 \in G
        PROVE  n \in G
    <3>1. n \in 0 .. N
      BY <1>2
    <3>2. merged[n - 1] \in Seq(Message) /\ input[n] \in Message
      BY <1>2, <2>3
    <3>3. Merging(merged[n - 1], input[n]) \in Seq(Message)
      BY Zenon, <3>2, MergingTypes
    <3>. QED
      BY Zenon, <1>9, <3>1, <3>3
  <2> HIDE DEF G
  <2>4. 0 .. N \subseteq G
    BY <1>2, <2>1, <2>2, <2>3, Upwards
  <2>. QED
    BY <2>4 DEF G
<1>11. merged \in [0 .. N -> S]
  <2> HIDE DEF merged, N, S
  <2>. QED
    BY <1>9, <1>10
<1> HIDE DEF merged
<1>. QED
  BY <1>1, <1>2, <1>9, <1>11 DEF input

\* Roles take turns, and the user begins.
Alternates(msgs) ==
  /\ msgs # <<>> => msgs[1].role = "user"
  /\ \A i \in 2 .. Len(msgs) : msgs[i].role # msgs[i - 1].role

\* What is merged into one message are messages that neither ask nor answer
\* between them, so that the whole asks what the last one asks.
LEMMA MergingSuits ==
  ASSUME NEW before, Suited(before), Alternates(before), NEW next \in Message,
         Suits(LastUses(before), next), before = <<>> => next.role = "user"
  PROVE  LET k == Merging(before, next)
         IN  Suited(k) /\ Alternates(k) /\ k # <<>> /\ LastUses(k) = next.uses
<1> DEFINE last == Len(before)
           old  == before[last]
           new  == [role |-> next.role, uses |-> old.uses \o next.uses, results |-> old.results \o next.results]
<1>1. /\ before \in Seq(Message) /\ last \in Nat /\ (before = <<>> <=> last = 0)
      /\ \A i \in 1 .. last : Suits(Before(before, i), before[i])
  BY DEF Suited
<1>2. CASE last > 0 /\ old.role = next.role
  <2>1. /\ old \in Message /\ last \in 1 .. last /\ before # <<>> /\ LastUses(before) = old.uses
        /\ Suits(Before(before, last), old)
    BY <1>1, <1>2 DEF LastUses
  <2>2. old.uses = <<>> /\ next.results = <<>>
    BY <1>2, <2>1 DEF Suits
  <2>3. new \in Message /\ new.role = next.role /\ new.uses = next.uses /\ new.results = old.results
    <3>1. /\ next.uses \in Seq(Conv!Block({"client", "server"})) /\ next.role \in {"user", "assistant"}
          /\ old.results \in Seq(Conv!Block(Bys))
      BY <2>1 DEF Message, Conv!Message, Bys
    <3>2. old.uses \o next.uses = next.uses /\ old.results \o next.results = old.results
      BY <2>2, <3>1
    <3>. QED
      BY <3>1, <3>2 DEF Message, Conv!Message, Bys
  <2> DEFINE k == [before EXCEPT ![last] = new]
  <2>4. Merging(before, next) = k
    BY <1>2 DEF Merging
  <2> HIDE DEF new
  <2>5. /\ k \in Seq(Message) /\ Len(k) = last /\ k[last] = new
        /\ \A i \in 1 .. last : i # last => k[i] = before[i]
    BY <1>1, <2>1, <2>3
  <2>6. k # <<>> /\ LastUses(k) = next.uses
    <3> HIDE DEF k
    <3>1. k # <<>>
      BY <1>2, <2>5
    <3>. QED
      BY <2>3, <2>5, <3>1 DEF LastUses
  <2> HIDE DEF k, old
  <2>7. ASSUME NEW i \in 1 .. last
        PROVE  Suits(Before(k, i), k[i])
    <3>1. Before(k, i) = Before(before, i)
      <4>1. i # 1 => i - 1 \in 1 .. last /\ i - 1 # last
        BY <1>1
      <4>. QED
        BY <2>5, <4>1 DEF Before
    <3>2. CASE i # last
      BY <1>1, <2>5, <3>1, <3>2
    <3>3. CASE i = last
      <4>1. next.uses # <<>> => old.results = <<>>
        <5>1. next.uses # <<>> => old.role = "assistant"
          BY <1>2 DEF Suits, old
        <5>. QED
          BY <2>1, <5>1 DEF Suits, Conv!SameIds
      <4>2. Suits(Before(before, last), new)
        BY <1>2, <2>1, <2>3, <4>1 DEF Suits, old
      <4>. QED
        BY <2>5, <3>1, <3>3, <4>2
    <3>. QED
      BY <3>2, <3>3
  <2>8. Alternates(k)
    <3>1. \A i \in 1 .. last : k[i].role = before[i].role
      BY <1>2, <2>3, <2>5 DEF old
    <3>2. 1 \in 1 .. last
      BY <1>1, <1>2
    <3>3. \A i \in 2 .. last : i \in 1 .. last /\ i - 1 \in 1 .. last
      BY <1>1
    <3>. QED
      BY <2>1, <2>5, <3>1, <3>2, <3>3 DEF Alternates
  <2>. QED
    BY <2>4, <2>5, <2>6, <2>7, <2>8 DEF Suited
<1>3. CASE ~(last > 0 /\ old.role = next.role)
  <2> DEFINE k == Append(before, next)
  <2>1. Merging(before, next) = k
    BY <1>3 DEF Merging
  <2>2. /\ Suited(k) /\ Len(k) = last + 1 /\ k # <<>> /\ k[last + 1] = next /\ LastUses(k) = next.uses
        /\ \A i \in 1 .. last : k[i] = before[i]
    BY SuitedGrows
  <2> HIDE DEF k
  <2>3. Alternates(k)
    <3>1. k[1].role = "user"
      <4>1. CASE last = 0
        BY <1>1, <2>2, <4>1
      <4>2. CASE last # 0
        <5>1. 1 \in 1 .. last
          BY <1>1, <4>2
        <5>. QED
          BY <1>1, <2>2, <4>2, <5>1 DEF Alternates
      <4>. QED
        BY <4>1, <4>2
    <3>2. ASSUME NEW i \in 2 .. Len(k)
          PROVE  k[i].role # k[i - 1].role
      <4>1. CASE i = last + 1
        BY <1>1, <1>3, <2>2, <4>1
      <4>2. CASE i # last + 1
        <5>1. i \in 2 .. last /\ i \in 1 .. last /\ i - 1 \in 1 .. last
          BY <1>1, <2>2, <4>2
        <5>. QED
          BY <2>2, <5>1 DEF Alternates
      <4>. QED
        BY <4>1, <4>2
    <3>. QED
      BY <3>1, <3>2 DEF Alternates
  <2>. QED
    BY <2>1, <2>2, <2>3
<1>. QED
  BY <1>2, <1>3

\* What Anthropic is sent, it accepts.
LEMMA AnthropicIsGiven ==
  ASSUME NEW messages, messages # <<>>, Complete(messages)
  PROVE  AnthropicAccepts(Prepare("anthropic", messages))
<1> DEFINE input == FirstUsers(messages)
<1>1. PICK merged \in [0 .. Len(input) -> Seq(Message)] :
        /\ merged[0] = <<>>
        /\ \A n \in 1 .. Len(input) : merged[n] = Merging(merged[n - 1], input[n])
        /\ Prepare("anthropic", messages) = merged[Len(input)]
  BY PrepareSteps DEF Complete, Suited
<1>2. input # <<>> /\ Complete(input) /\ input[1].role = "user"
  <2>1. CASE messages[1].role = "user"
    BY <2>1 DEF FirstUsers
  <2>2. CASE messages[1].role # "user"
    <3> DEFINE one == <<Text("user")>>
    <3>1. Complete(one)
      <4>1. one \in Seq(Message) /\ Len(one) = 1 /\ one[1] = Text("user") /\ one # <<>>
        BY TextIs
      <4> HIDE DEF one
      <4>2. \A i \in 1 .. Len(one) : i = 1
        BY <4>1
      <4>. QED
        BY <4>1, <4>2, TextIs DEF Complete, Suited, Suits, Before, LastUses
    <3>2. input = one \o messages
      BY <2>2 DEF FirstUsers
    <3>3. one \o messages # <<>> /\ (one \o messages)[1] = Text("user")
      <4>1. messages \in Seq(Message) /\ Text("user") \in Message
        BY TextIs DEF Complete, Suited
      <4>. QED
        BY <4>1
    <3> HIDE DEF one, input
    <3>. QED
      BY <3>1, <3>2, <3>3, SuitedJoins, TextIs
  <2>. QED
    BY <2>1, <2>2
<1> HIDE DEF input
<1> DEFINE N == Len(input)
           Good(n) == /\ Suited(merged[n]) /\ Alternates(merged[n])
                      /\ n # 0 => merged[n] # <<>> /\ LastUses(merged[n]) = input[n].uses
                      /\ n = 0 => merged[n] = <<>>
           G == {n \in 0 .. N : Good(n)}
<1>3. /\ input \in Seq(Message) /\ N \in Nat \ {0}
      /\ \A n \in 1 .. N : input[n] \in Message /\ Suits(Before(input, n), input[n])
  BY <1>2 DEF Complete, Suited
<1>4. 0 \in G
  <2>1. Suited(<<>>) /\ Alternates(<<>>)
    BY DEF Suited, Alternates
  <2>. QED
    BY <1>1, <1>3, <2>1
<1>5. ASSUME NEW n \in 1 .. N, n - 1 \in G
      PROVE  n \in G
  <2>1. Good(n - 1) /\ n \in 0 .. N /\ n # 0 /\ merged[n] = Merging(merged[n - 1], input[n])
    BY <1>1, <1>3, <1>5
  <2>2. LastUses(merged[n - 1]) = Before(input, n) /\ (merged[n - 1] = <<>> => input[n].role = "user")
    BY <1>2, <1>3, <2>1 DEF LastUses, Before
  <2>3. Suited(merged[n]) /\ Alternates(merged[n]) /\ merged[n] # <<>> /\ LastUses(merged[n]) = input[n].uses
    BY <1>3, <2>1, <2>2, MergingSuits
  <2>. QED
    BY <2>1, <2>3
<1>6. Good(N)
  <2>1. G \in SUBSET Nat
    OBVIOUS
  <2> HIDE DEF G, N
  <2>2. 0 .. N \subseteq G
    BY <1>3, <1>4, <1>5, <2>1, Upwards
  <2>3. N \in 0 .. N
    BY <1>3
  <2>. QED
    BY <2>2, <2>3 DEF G
<1>7. Conv!Paired(merged[N])
  BY <1>6, PairedIs DEF Suited
<1>8. merged[N] # <<>> /\ Alternates(merged[N])
  BY <1>3, <1>6
<1>. QED
  BY <1>1, <1>7, <1>8 DEF AnthropicAccepts, Alternates

\* openai_request_body, message by message.
Records == [role : {"user", "assistant", "tool"}, calls : Seq(Ids), answers : Ids \cup {None}]

IdsIn(blocks) == [k \in DOMAIN blocks |-> blocks[k].id]
Spoken(m)     == [role |-> m.role, calls |-> IdsIn(m.uses), answers |-> None]
Given(m)      == [k \in DOMAIN m.results |->
                    [role |-> "tool", calls |-> <<>>, answers |-> m.results[k].id]]
Wired(w, m)   == w \o Given(m) \o (IF m.results # <<>> THEN <<>> ELSE <<Spoken(m)>>)

LEMMA RecordIs ==
  ASSUME NEW m \in Message
  PROVE  /\ Spoken(m) \in Records /\ DOMAIN m.uses = 1 .. Len(m.uses) /\ Len(m.uses) \in Nat
         /\ Given(m) \in Seq(Records) /\ Len(Given(m)) = Len(m.results)
         /\ Len(m.results) \in Nat /\ DOMAIN m.results = 1 .. Len(m.results)
         /\ \A k \in 1 .. Len(m.results) :
              Given(m)[k] = [role |-> "tool", calls |-> <<>>, answers |-> m.results[k].id]
<1>1. /\ m.uses \in Seq([id : Ids, by : {"client", "server"}]) /\ m.role \in {"user", "assistant"}
      /\ m.results \in Seq([id : Ids, by : Bys])
  BY DEF Message, Conv!Message, Conv!Block, Bys
<1>2. /\ DOMAIN m.uses = 1 .. Len(m.uses) /\ Len(m.uses) \in Nat
      /\ \A k \in 1 .. Len(m.uses) : m.uses[k].id \in Ids
      /\ DOMAIN m.results = 1 .. Len(m.results) /\ Len(m.results) \in Nat
      /\ \A k \in 1 .. Len(m.results) : m.results[k].id \in Ids
  <2>1. ASSUME NEW S, NEW q \in Seq([id : Ids, by : S])
        PROVE  DOMAIN q = 1 .. Len(q) /\ Len(q) \in Nat /\ \A k \in 1 .. Len(q) : q[k].id \in Ids
    <3> DEFINE R == [id : Ids, by : S]
    <3>1. q \in Seq(R)
      OBVIOUS
    <3> HIDE DEF R
    <3>2. DOMAIN q = 1 .. Len(q) /\ Len(q) \in Nat /\ \A k \in 1 .. Len(q) : q[k] \in R
      BY <3>1
    <3>. QED
      BY <3>2 DEF R
  <2>. QED
    BY Zenon, <1>1, <2>1
<1>3. Spoken(m) \in Records
  <2>1. IdsIn(m.uses) \in Seq(Ids)
    BY <1>2 DEF IdsIn
  <2>. QED
    BY <1>1, <2>1 DEF Spoken, Records
<1>4. \A k \in 1 .. Len(m.results) :
        /\ Given(m)[k] = [role |-> "tool", calls |-> <<>>, answers |-> m.results[k].id]
        /\ Given(m)[k] \in Records
  BY <1>2 DEF Given, Records
<1>5. Given(m) \in [1 .. Len(m.results) -> Records]
  <2>1. Given(m) = [k \in 1 .. Len(m.results) |-> Given(m)[k]]
    BY <1>2 DEF Given
  <2> DEFINE given == Given(m)
  <2> HIDE DEF given
  <2>. QED
    BY <1>4, <2>1 DEF given
<1>. QED
  BY <1>2, <1>3, <1>4, <1>5

LEMMA WiredTypes ==
  ASSUME NEW w \in Seq(Records), NEW m \in Message
  PROVE  Wired(w, m) \in Seq(Records)
<1> DEFINE given == Given(m)
           tail  == IF m.results # <<>> THEN <<>> ELSE <<Spoken(m)>>
<1>1. Spoken(m) \in Records /\ given \in Seq(Records)
  BY RecordIs
<1>2. tail \in Seq(Records)
  <2> DEFINE r == Spoken(m)
  <2>1. r \in Records
    BY <1>1
  <2> HIDE DEF r
  <2>2. <<r>> \in Seq(Records) /\ <<>> \in Seq(Records)
    BY <2>1
  <2>. QED
    BY <2>2 DEF r
<1>3. Wired(w, m) = w \o given \o tail
  BY DEF Wired
<1> HIDE DEF given, tail
<1>4. w \o given \in Seq(Records)
  BY <1>1
<1>5. (w \o given) \o tail \in Seq(Records)
  BY <1>2, <1>4
<1>. QED
  BY <1>3, <1>5

LEMMA WireSteps ==
  ASSUME NEW messages \in Seq(Message)
  PROVE  \E wire \in [0 .. Len(messages) -> Seq(Records)] :
           /\ wire[0] = <<>>
           /\ \A n \in 1 .. Len(messages) : wire[n] = Wired(wire[n - 1], messages[n])
           /\ ToOpenAi(messages) = wire[Len(messages)]
<1> DEFINE N == Len(messages)
           S == Seq(Records)
           F == [n \in 1 .. N |-> [q \in S |-> Wired(q, messages[n])]]
           Is(f) == f = [n \in 0 .. N |->
                           IF n = 0 THEN <<>>
                           ELSE LET m == messages[n]
                                IN  f[n - 1]
                                    \o [k \in DOMAIN m.results |->
                                          [role |-> "tool", calls |-> <<>>, answers |-> m.results[k].id]]
                                    \o (IF m.results # <<>> THEN <<>>
                                        ELSE <<[role |-> m.role,
                                                calls |-> [k \in DOMAIN m.uses |-> m.uses[k].id],
                                                answers |-> None]>>)]
           wire == CHOOSE g : Is(g)
<1>1. ToOpenAi(messages) = wire[N]
  BY DEF ToOpenAi
<1>2. N \in Nat /\ \A n \in 1 .. N : messages[n] \in Message
  OBVIOUS
<1>3. Rule(F, S, N)
  BY <1>2, WiredTypes DEF Rule
<1>4. PICK f : Obeys(f, <<>>, F, S, N)
  <2>1. <<>> \in S
    OBVIOUS
  <2> HIDE DEF S, F, N
  <2>. QED
    BY <1>2, <1>3, <2>1, Recursion
<1>5. f \in [0 .. N -> S] /\ f[0] = <<>> /\ \A n \in 1 .. N : f[n] = F[n][f[n - 1]]
  BY <1>4 DEF Obeys
<1>6. ASSUME NEW n \in 1 .. N
      PROVE  f[n] = Wired(f[n - 1], messages[n])
  <2>1. n - 1 \in 0 .. N
    BY <1>2
  <2>2. f[n - 1] \in S
    <3> HIDE DEF F, S, N
    <3>. QED
      BY ZenonT(60), <1>5, <2>1
  <2>. QED
    BY <1>5, <2>2
<1>7. Is(f)
  <2> HIDE DEF F, S, N
  <2>1. ASSUME NEW n \in 0 .. N, n # 0
        PROVE  f[n] = Wired(f[n - 1], messages[n])
    <3>1. n \in 1 .. N
      BY <1>2, <2>1
    <3>. QED
      BY Zenon, <1>6, <3>1
  <2>. QED
    BY <1>5, <2>1 DEF Wired, Given, Spoken, IdsIn
<1>8. Is(wire)
  BY Zenon, <1>7
<1>9. /\ wire[0] = <<>> /\ wire = [n \in 0 .. N |-> wire[n]]
      /\ \A n \in 1 .. N : wire[n] = Wired(wire[n - 1], messages[n])
  <2> HIDE DEF wire, N
  <2>1. wire[0] = <<>> /\ wire = [n \in 0 .. N |-> wire[n]]
    BY <1>2, <1>8
  <2>2. ASSUME NEW n \in 1 .. N
        PROVE  wire[n] = Wired(wire[n - 1], messages[n])
    <3>1. n \in 0 .. N /\ n # 0
      BY <1>2
    <3>. QED
      BY Zenon, <1>8, <3>1 DEF Wired, Given, Spoken, IdsIn
  <2>. QED
    BY <2>1, <2>2
<1>10. \A n \in 0 .. N : wire[n] \in S
  <2> HIDE DEF wire, N
  <2> DEFINE G == {n \in 0 .. N : wire[n] \in S}
  <2>1. G \in SUBSET Nat
    OBVIOUS
  <2>2. 0 \in G
    <3>1. <<>> \in S
      OBVIOUS
    <3>2. 0 \in 0 .. N
      BY <1>2
    <3>. QED
      BY Zenon, <1>9, <3>1, <3>2
  <2>3. ASSUME NEW n \in 1 .. N, n - 1 \in G
        PROVE  n \in G
    <3>1. n \in 0 .. N
      BY <1>2
    <3>2. wire[n - 1] \in Seq(Records) /\ messages[n] \in Message
      BY <1>2, <2>3
    <3>3. Wired(wire[n - 1], messages[n]) \in Seq(Records)
      BY Zenon, <3>2, WiredTypes
    <3>. QED
      BY Zenon, <1>9, <3>1, <3>3
  <2> HIDE DEF G
  <2>4. 0 .. N \subseteq G
    BY <1>2, <2>1, <2>2, <2>3, Upwards
  <2>. QED
    BY <2>4 DEF G
<1>11. wire \in [0 .. N -> S]
  <2> HIDE DEF wire, N, S
  <2>. QED
    BY <1>9, <1>10
<1> HIDE DEF wire
<1>. QED
  BY <1>1, <1>9, <1>11

\* What was sent so far: every call is answered in its place, or it is of the
\* last record and of these tool calls; and an answer has its call.
Answered(w, uses) ==
  /\ w \in Seq(Records)
  /\ \A i \in 1 .. Len(w) : \A k \in DOMAIN w[i].calls :
       \/ i + k \in 1 .. Len(w) /\ w[i + k].answers = w[i].calls[k]
       \/ i = Len(w) /\ uses # <<>>
  /\ uses # <<>> => w # <<>> /\ w[Len(w)].calls = IdsIn(uses)
  /\ \A i \in 1 .. Len(w) : w[i].role = "tool" =>
       \E j \in 1 .. i - 1 : i - j \in DOMAIN w[j].calls

\* A message that answers puts its results after the calls, one by one ...
LEMMA ResultsAnswer ==
  ASSUME NEW w, NEW uses, Answered(w, uses), NEW m \in Message, Suits(uses, m), m.results # <<>>
  PROVE  Answered(Wired(w, m), m.uses) /\ Wired(w, m) # <<>>
<1> DEFINE given == Given(m)
           L     == Len(w)
           n     == Len(m.results)
           k     == w \o given
<1>1. uses # <<>> /\ Conv!SameIds(uses, m.results) /\ m.uses = <<>>
  BY DEF Suits
<1>2. /\ given \in Seq(Records) /\ Len(given) = n /\ n \in Nat /\ DOMAIN m.results = 1 .. n
      /\ \A i \in 1 .. n : given[i] = [role |-> "tool", calls |-> <<>>, answers |-> m.results[i].id]
  BY RecordIs
<1>3. w \in Seq(Records) /\ L \in Nat \ {0} /\ w[L].calls = IdsIn(uses)
  BY <1>1 DEF Answered
<1>4. DOMAIN w[L].calls = 1 .. n /\ \A i \in 1 .. n : w[L].calls[i] = m.results[i].id
  <2>1. Len(uses) = n /\ \A i \in 1 .. n : uses[i].id = m.results[i].id
    BY <1>1 DEF Conv!SameIds
  <2>2. w[L] \in Records
    BY <1>3
  <2>3. w[L].calls \in Seq(Ids)
    BY <2>2 DEF Records
  <2>4. DOMAIN uses = 1 .. n /\ \A i \in 1 .. n : IdsIn(uses)[i] = uses[i].id
    <3>1. DOMAIN uses = DOMAIN w[L].calls
      BY <1>3 DEF IdsIn
    <3>2. DOMAIN uses = 1 .. Len(uses)
      <4>1. PICK l \in Nat : DOMAIN uses = 1 .. l
        BY <2>3, <3>1
      <4>. QED
        BY <4>1
    <3>. QED
      BY <2>1, <3>2 DEF IdsIn
  <2>. QED
    BY <1>3, <2>1, <2>4 DEF IdsIn
<1> HIDE DEF given, n
<1>a. given \in Seq(Records) /\ Len(given) = n /\ w \in Seq(Records) /\ L \in Nat /\ n \in Nat
  BY <1>2, <1>3
<1>5. /\ k \in Seq(Records) /\ Len(k) = L + n
      /\ \A i \in 1 .. L : k[i] = w[i]
      /\ \A i \in 1 .. n : k[L + i].calls = <<>> /\ k[L + i].answers = m.results[i].id
  <2>1. k \in Seq(Records) /\ Len(k) = L + n
    BY <1>a
  <2>2. \A i \in 1 .. L : k[i] = w[i]
    BY <1>a
  <2>3. ASSUME NEW i \in 1 .. n
        PROVE  k[L + i].calls = <<>> /\ k[L + i].answers = m.results[i].id
    <3>1. k[L + i] = given[i]
      BY <1>a
    <3>2. given[i].calls = <<>> /\ given[i].answers = m.results[i].id
      BY <1>2
    <3> HIDE DEF k
    <3>. QED
      BY <3>1, <3>2
  <2> HIDE DEF k
  <2>. QED
    BY <2>1, <2>2, <2>3
<1>6. Wired(w, m) = k
  <2>1. Wired(w, m) = k \o <<>>
    BY DEF Wired, given
  <2> HIDE DEF k
  <2>. QED
    BY <1>5, <2>1
<1> HIDE DEF k, L
<1>7. k # <<>>
  BY <1>2, <1>3, <1>5
<1>8. ASSUME NEW i \in 1 .. Len(k), NEW j \in DOMAIN k[i].calls
      PROVE  i + j \in 1 .. Len(k) /\ k[i + j].answers = k[i].calls[j]
  <2>1. CASE i \in 1 .. L
    <3>1. j \in DOMAIN w[i].calls /\ k[i].calls[j] = w[i].calls[j]
      BY <1>5, <1>8, <2>1
    <3>2. CASE i = L
      <4>1. j \in 1 .. n /\ k[i].calls[j] = m.results[j].id
        BY <1>4, <3>1, <3>2
      <4>2. k[L + j].answers = m.results[j].id
        BY <1>5, <4>1
      <4>. QED
        BY <1>a, <1>5, <3>2, <4>1, <4>2
    <3>3. CASE i # L
      <4>1. i + j \in 1 .. L /\ w[i + j].answers = w[i].calls[j]
        BY <2>1, <3>1, <3>3 DEF Answered, L
      <4>. QED
        BY <1>2, <1>3, <1>5, <3>1, <4>1
    <3>. QED
      BY <3>2, <3>3
  <2>2. CASE i \notin 1 .. L
    <3> DEFINE l == i - L
    <3>1. l \in 1 .. n /\ i = L + l
      BY <1>2, <1>3, <1>5, <2>2
    <3> HIDE DEF l
    <3>2. k[i].calls = <<>>
      BY <1>5, <3>1
    <3>. QED
      BY <1>8, <3>2
  <2>. QED
    BY <2>1, <2>2
<1>9. ASSUME NEW i \in 1 .. Len(k), k[i].role = "tool"
      PROVE  \E j \in 1 .. i - 1 : i - j \in DOMAIN k[j].calls
  <2>1. CASE i \in 1 .. L
    <3>1. PICK j \in 1 .. i - 1 : i - j \in DOMAIN w[j].calls
      BY <1>5, <1>9, <2>1 DEF Answered, L
    <3>2. j \in 1 .. L
      BY <1>3, <2>1
    <3>. QED
      BY <1>5, <3>1, <3>2
  <2>2. CASE i \notin 1 .. L
    <3>1. i - L \in 1 .. n /\ L \in 1 .. i - 1 /\ L \in 1 .. L
      BY <1>2, <1>3, <1>5, <2>2
    <3>2. i - L \in DOMAIN k[L].calls
      BY <1>4, <1>5, <3>1
    <3>. QED
      BY <3>1, <3>2
  <2>. QED
    BY <2>1, <2>2
<1>. QED
  BY <1>1, <1>5, <1>6, <1>7, <1>8, <1>9 DEF Answered

\* ... and any other is a record, after nothing open.
LEMMA SpeechFollows ==
  ASSUME NEW w, NEW uses, Answered(w, uses), NEW m \in Message, Suits(uses, m), m.results = <<>>,
         uses \in Asks
  PROVE  Answered(Wired(w, m), m.uses) /\ Wired(w, m) # <<>>
<1> DEFINE L == Len(w)
           r == Spoken(m)
           k == Append(w, r)
<1>1. uses = <<>>
  <2>1. uses # <<>> => Len(uses) # 0
    BY DEF Asks
  <2>2. Len(m.results) = 0
    OBVIOUS
  <2>. QED
    BY <2>1, <2>2 DEF Suits, Conv!SameIds
<1>2. r \in Records /\ r.role # "tool" /\ r.calls = IdsIn(m.uses) /\ DOMAIN r.calls = DOMAIN m.uses
  <2>1. r \in Records
    BY RecordIs
  <2>2. m.role \in {"user", "assistant"}
    BY DEF Message, Conv!Message
  <2>. QED
    BY <2>1, <2>2 DEF Spoken, IdsIn
<1>3. w \in Seq(Records) /\ L \in Nat
  BY DEF Answered
<1> HIDE DEF r
<1>4. /\ k \in Seq(Records) /\ Len(k) = L + 1 /\ k[L + 1] = r
      /\ \A i \in 1 .. L : k[i] = w[i]
  BY <1>2, <1>3
<1>5. Wired(w, m) = k
  <2>1. Given(m) = <<>>
    <3>1. Given(m) \in Seq(Records) /\ Len(Given(m)) = 0
      BY RecordIs
    <3>. QED
      BY <3>1
  <2>2. Wired(w, m) = w \o <<>> \o <<r>>
    BY <2>1 DEF Wired, r
  <2>. QED
    BY <1>2, <1>3, <2>2
<1> HIDE DEF k, L
<1>6. k # <<>> /\ (m.uses # <<>> => k[Len(k)].calls = IdsIn(m.uses))
  BY <1>2, <1>3, <1>4
<1>7. ASSUME NEW i \in 1 .. Len(k), NEW j \in DOMAIN k[i].calls
      PROVE  \/ i + j \in 1 .. Len(k) /\ k[i + j].answers = k[i].calls[j]
             \/ i = Len(k) /\ m.uses # <<>>
  <2>1. CASE i \in 1 .. L
    <3>1. i + j \in 1 .. L /\ w[i + j].answers = w[i].calls[j] /\ k[i].calls = w[i].calls
      BY <1>1, <1>4, <1>7, <2>1 DEF Answered, L
    <3>. QED
      BY <1>3, <1>4, <3>1
  <2>2. CASE i = L + 1
    <3>1. j \in DOMAIN m.uses
      BY <1>2, <1>4, <1>7, <2>2
    <3>. QED
      BY <1>4, <2>2, <3>1
  <2>. QED
    BY <1>3, <1>4, <2>1, <2>2
<1>8. ASSUME NEW i \in 1 .. Len(k), k[i].role = "tool"
      PROVE  \E j \in 1 .. i - 1 : i - j \in DOMAIN k[j].calls
  <2>1. i \in 1 .. L
    BY <1>2, <1>3, <1>4, <1>8
  <2>2. PICK j \in 1 .. i - 1 : i - j \in DOMAIN w[j].calls
    BY <1>4, <1>8, <2>1 DEF Answered, L
  <2>3. j \in 1 .. L
    BY <1>3, <2>1
  <2>. QED
    BY <1>4, <2>2, <2>3
<1>. QED
  BY <1>4, <1>5, <1>6, <1>7, <1>8 DEF Answered

\* What OpenAI is sent, it accepts.
LEMMA OpenAiIsGiven ==
  ASSUME NEW messages, messages # <<>>, Complete(messages)
  PROVE  OpenAiAccepts(ToOpenAi(messages))
<1> DEFINE N == Len(messages)
<1>1. PICK wire \in [0 .. N -> Seq(Records)] :
        /\ wire[0] = <<>>
        /\ \A n \in 1 .. N : wire[n] = Wired(wire[n - 1], messages[n])
        /\ ToOpenAi(messages) = wire[N]
  BY WireSteps DEF Complete, Suited
<1> DEFINE Uses(n) == IF n = 0 THEN <<>> ELSE messages[n].uses
           Good(n) == Answered(wire[n], Uses(n)) /\ (n # 0 => wire[n] # <<>>)
           G == {n \in 0 .. N : Good(n)}
<1>2. /\ messages \in Seq(Message) /\ N \in Nat \ {0}
      /\ \A n \in 1 .. N : messages[n] \in Message /\ Suits(Before(messages, n), messages[n])
  BY DEF Complete, Suited
<1>3. 0 \in G
  <2>1. Answered(<<>>, <<>>)
    BY DEF Answered
  <2>. QED
    BY <1>1, <1>2, <2>1
<1>4. ASSUME NEW n \in 1 .. N, n - 1 \in G
      PROVE  n \in G
  <2>1. /\ Answered(wire[n - 1], Uses(n - 1)) /\ n \in 0 .. N /\ n # 0
        /\ wire[n] = Wired(wire[n - 1], messages[n]) /\ Uses(n) = messages[n].uses
    BY <1>1, <1>2, <1>4
  <2>2. Before(messages, n) = Uses(n - 1)
    BY <1>2 DEF Before
  <2>3. Uses(n - 1) \in Asks
    <3>1. n - 1 # 0 => messages[n - 1] \in Message
      BY <1>2
    <3>. QED
      BY <3>1 DEF Asks, Message, Conv!Message
  <2> HIDE DEF Uses
  <2>4. messages[n] \in Message /\ Suits(Uses(n - 1), messages[n])
    BY <1>2, <2>2
  <2>5. Answered(wire[n], messages[n].uses) /\ wire[n] # <<>>
    BY <2>1, <2>3, <2>4, ResultsAnswer, SpeechFollows
  <2>. QED
    BY <2>1, <2>5
<1>5. Good(N)
  <2>1. G \in SUBSET Nat
    OBVIOUS
  <2> HIDE DEF G, N
  <2>2. 0 .. N \subseteq G
    BY <1>2, <1>3, <1>4, <2>1, Upwards
  <2>3. N \in 0 .. N
    BY <1>2
  <2>. QED
    BY <2>2, <2>3 DEF G
<1>6. Uses(N) = <<>>
  BY <1>2 DEF Complete, LastUses
<1>7. Answered(wire[N], <<>>) /\ wire[N] # <<>>
  BY <1>2, <1>5, <1>6
<1> DEFINE w == wire[N]
<1>8. Answered(w, <<>>) /\ w # <<>> /\ ToOpenAi(messages) = w
  BY <1>1, <1>7
<1> HIDE DEF w
<1>9. \A i \in 1 .. Len(w) : \A k \in DOMAIN w[i].calls : i + k <= Len(w) /\ w[i + k].answers = w[i].calls[k]
  BY <1>8 DEF Answered
<1>. QED
  BY <1>8, <1>9 DEF OpenAiAccepts, Answered

\* What the turn adds to a request is complete, and it answers something.
Prepared ==
  /\ Complete(turn.extra)
  /\ phase \in {"start", "ask"} => log # <<>>

LEMMA NoneIsComplete == Complete(<<>>)
BY DEF Complete, Suited, LastUses

\* A round of the server's tools: a question, and its answer.
LEMMA RoundIsComplete ==
  ASSUME NEW uses \in Asks, uses # <<>>
  PROVE  Complete(<<Question(uses), [Text("user") EXCEPT !.results = uses]>>)
<1> DEFINE q == Question(uses)
           a == [Text("user") EXCEPT !.results = uses]
           k == <<q, a>>
<1>1. q \in Message /\ q.role = "assistant" /\ q.uses = uses /\ q.results = <<>>
  BY QuestionIs
<1>2. a \in Message /\ a.role = "user" /\ a.uses = <<>> /\ a.results = uses
  <2>1. uses \in Seq(Conv!Block(Bys))
    <3>1. \A i \in DOMAIN uses : uses[i] \in Conv!Block(Bys)
      <4>1. \A i \in DOMAIN uses : uses[i] \in Conv!Block({"client", "server"})
        BY DEF Asks
      <4>. QED
        BY <4>1 DEF Conv!Block, Bys
    <3>. QED
      BY <3>1 DEF Asks
  <2>2. ASSUME NEW m \in Message
        PROVE  LET n == [m EXCEPT !.results = uses]
               IN  n \in Message /\ n.role = m.role /\ n.uses = m.uses /\ n.results = uses
    BY <2>1 DEF Message, Conv!Message, Bys
  <2>. QED
    BY <2>2, TextIs
<1> HIDE DEF q, a
<1>3. k \in Seq(Message) /\ Len(k) = 2 /\ k[1] = q /\ k[2] = a /\ k # <<>>
  BY <1>1, <1>2
<1> HIDE DEF k
<1>4. \A i \in 1 .. Len(k) : i = 1 \/ i = 2
  BY <1>3
<1>5. Conv!SameIds(uses, uses)
  BY DEF Conv!SameIds
<1>6. Suits(Before(k, 1), q) /\ Suits(Before(k, 2), a)
  BY <1>1, <1>2, <1>3, <1>5 DEF Suits, Before
<1>7. \A i \in 1 .. Len(k) : Suits(Before(k, i), k[i])
  BY <1>3, <1>4, <1>6
<1>. QED
  BY <1>2, <1>3, <1>7 DEF Complete, Suited, LastUses, k, q, a

LEMMA PreparedAtFirst == Init => Prepared
BY NoneIsComplete DEF Init, Prepared, NoTurn

LEMMA PreparedStays ==
  ASSUME Prepared, turn'.extra \in {turn.extra, <<>>},
         phase' \in {"start", "ask"} => log' # <<>>
  PROVE  Prepared'
<1> DEFINE e == turn.extra
           f == turn'.extra
<1>1. Complete(e) /\ f \in {e, <<>>}
  BY DEF Prepared
<1> HIDE DEF e, f
<1>2. Complete(f)
  BY <1>1, NoneIsComplete
<1>3. Complete(f) <=> Complete(turn.extra)'
  BY DEF f, Complete, Suited, Suits, Before, LastUses
<1>. QED
  BY <1>2, <1>3 DEF Prepared

LEMMA PreparedKept == IInv /\ Prepared /\ [Next]_vars => Prepared'
<1> SUFFICES ASSUME IInv, Prepared, [Next]_vars PROVE Prepared'
  OBVIOUS
<1>1. turn \in Turns /\ log \in Seq(Message)
  BY DEF Recalled, IInv, TypeOK, Turns
<1>2. ASSUME Return PROVE Prepared'
  BY <1>2, PreparedStays DEF Return, NoTurn
<1>3. ASSUME NEW m, log' = Append(log, m) PROVE log' # <<>>
  BY <1>1, <1>3
<1>4. CASE (\E m \in Incoming : Receive(m)) \/ Expire \/ UNCHANGED vars
  BY <1>4, PreparedStays DEF Receive, Expire, vars, Prepared
<1>5. CASE RecordMessage
  <2>1. CASE Return
    BY <1>2, <2>1
  <2>2. CASE ~Return
    <3>1. \/ log' = Append(log, Text(call.role)) /\ UNCHANGED turn
          \/ log' = Append(log, Answer) /\ turn' = [turn EXCEPT !.trigger = call.claim.trigger]
      BY Zenon, <1>5, <2>2 DEF RecordMessage, FailMerge
    <3>2. log' # <<>>
      BY <1>3, <3>1
    <3>3. turn'.extra = turn.extra
      BY <1>1, <3>1 DEF Turns
    <3>. QED
      BY <3>2, <3>3, PreparedStays
  <2>. QED
    BY <2>1, <2>2
<1>6. CASE RetirePause
  <2>1. Return \/ (phase' = "compact" /\ UNCHANGED turn)
    BY Zenon, <1>6 DEF RetirePause, FailMerge
  <2>. QED
    BY <1>2, <2>1, PreparedStays
<1>7. CASE StartTurn
  <2>1. CASE Return
    BY <1>2, <2>1
  <2>2. ASSUME NEW chain \in Chains, turn' = [FirstAttempt(chain) EXCEPT !.round = 1]
        PROVE  Prepared'
    <3> DEFINE t == FirstAttempt(chain)
    <3>1. t \in Turns /\ t.extra = turn.extra
      BY <1>1, ChainIs
    <3> HIDE DEF t
    <3>2. turn'.extra = turn.extra
      BY <2>2, <3>1 DEF Turns, t
    <3>3. log' # <<>>
      BY <1>7 DEF StartTurn, Prepared
    <3>. QED
      BY <3>2, <3>3, PreparedStays
  <2>. QED
    BY <1>7, <2>1, <2>2 DEF StartTurn
<1>8. CASE AttemptFails
  <2>1. CASE Return
    BY <1>2, <2>1
  <2>2. CASE turn' = [turn EXCEPT !.attempt = @ + 1]
    <3>1. turn'.extra = turn.extra /\ log' # <<>>
      BY <1>1, <1>8, <2>2 DEF Turns, AttemptFails, Prepared
    <3>. QED
      BY <3>1, PreparedStays
  <2>. QED
    BY <1>8, <2>1, <2>2 DEF AttemptFails
<1>9. ASSUME NEW uses \in UpTo(Conv!Block({"client", "server"})), NEW usage \in Usages, Respond(uses, usage)
      PROVE  Prepared'
  <2>1. CASE FinalAnswer(uses, usage) \/ AskClient(uses, usage)
    <3>1. turn'.extra = turn.extra /\ phase' \notin {"start", "ask"}
      BY <1>1, <2>1 DEF Turns, FinalAnswer, AskClient
    <3>. QED
      BY <3>1, PreparedStays
  <2>2. CASE ServerRound(uses, usage)
    <3> DEFINE more == <<Question(uses), [Text("user") EXCEPT !.results = uses]>>
    <3>1. Complete(more)
      BY <2>2, StashIs, RoundIsComplete DEF ServerRound
    <3>2. Complete(turn.extra)
      BY DEF Prepared
    <3>3. turn' = [turn EXCEPT !.extra = @ \o more, !.round = @ + 1, !.attempt = 1, !.usage = usage]
      BY <2>2 DEF ServerRound
    <3> HIDE DEF more
    <3>4. turn'.extra = turn.extra \o more
      BY <1>1, <3>3 DEF Turns
    <3>5. Complete(turn.extra \o more)
      BY <3>1, <3>2, SuitedJoins
    <3>6. PICK f : f = turn.extra \o more
      OBVIOUS
    <3>7. Complete(f) <=> Complete(turn.extra)'
      BY <3>4, <3>6 DEF Complete, Suited, Suits, Before, LastUses
    <3>8. UNCHANGED <<phase, log>>
      BY <2>2 DEF ServerRound
    <3>. QED
      BY <3>5, <3>6, <3>7, <3>8 DEF Prepared
  <2>3. CASE LoopLimit(uses)
    BY <1>2, <2>3 DEF LoopLimit
  <2>. QED
    BY <1>9, <2>1, <2>2, <2>3 DEF Respond
<1>10. CASE Park \/ CutOff \/ Restart \/ CommitSummary
  BY <1>2, <1>10 DEF Park, CutOff, Restart, CommitSummary
<1>11. CASE EndTurn
  <2>1. CASE Return
    BY <1>2, <2>1
  <2>2. CASE ~Return
    <3> DEFINE trigger == Or(turn.trigger, AutoTrigger(turn.usage))
    <3>1. turn' = [NoTurn EXCEPT !.trigger = trigger] /\ phase' = "compact"
      BY <1>11, <2>2 DEF EndTurn
    <3> HIDE DEF trigger
    <3>2. turn'.extra = <<>>
      BY <3>1 DEF NoTurn
    <3>. QED
      BY <3>1, <3>2, PreparedStays
  <2>. QED
    BY <2>1, <2>2
<1>12. CASE StartCompaction \/ SummaryFails
  <2>1. CASE Return
    BY <1>2, <2>1
  <2>2. ASSUME NEW chain \in Chains, turn' = FirstAttempt(chain), phase' = "summarise"
        PROVE  Prepared'
    <3>1. turn'.extra = turn.extra
      BY <1>1, <2>2, ChainIs
    <3>. QED
      BY <2>2, <3>1, PreparedStays
  <2>3. CASE phase = "summarise" /\ turn' = [turn EXCEPT !.attempt = @ + 1] /\ UNCHANGED phase
    <3>1. turn'.extra = turn.extra
      BY <1>1, <2>3 DEF Turns
    <3>. QED
      BY <2>3, <3>1, PreparedStays
  <2>. QED
    BY <1>12, <2>1, <2>2, <2>3 DEF StartCompaction, SummaryFails, GiveUp
<1>. QED
  BY <1>4, <1>5, <1>6, <1>7, <1>8, <1>9, <1>10, <1>11, <1>12 DEF Next, ServerStep

\* What is sent, before it is put into the shape of its provider.
Sent == IF phase = "ask" THEN History \o turn.extra ELSE WithInstruction(History)

LEMMA SentIsComplete ==
  ASSUME IInv, Prepared, Conversing!SoundIsPaired, phase \in {"ask", "summarise"}, ~lost
  PROVE  Sent # <<>> /\ Complete(Sent)
<1>1. History \in Seq(Message) /\ (History = <<>> <=> log = <<>>)
  BY HistoryIs DEF IInv
<1>2. Complete(History)
  <2> DEFINE h == History
  <2>1. h \in Seq(Message) /\ Conv!Paired(h)
    BY <1>1 DEF Conversing!SoundIsPaired, Conversing!Paired, Conv!Paired, Conversing!Fits, Conv!Fits,
                Conversing!Unanswered, Conv!Unanswered, Conversing!Newest, Conv!Newest,
                Conversing!SameIds, Conv!SameIds
  <2>2. ~Conv!Unanswered(h)
    <3>1. ~Conv!Unanswered(log)
      BY DEF IInv, Waiting, Modes, Parking, Parked, Claiming
    <3>. QED
      BY <3>1, HistoryIs DEF IInv
  <2> HIDE DEF h
  <2>3. Complete(h)
    BY <2>1, <2>2, PairedIs, OpenIs DEF Complete
  <2>. QED
    BY <2>3 DEF h
<1> DEFINE h == History
           e == turn.extra
<1>3. CASE phase = "ask"
  <2>1. h # <<>> /\ Complete(h) /\ Complete(e)
    BY <1>1, <1>2, <1>3 DEF Prepared
  <2>2. Sent = h \o e
    BY <1>3 DEF Sent
  <2> HIDE DEF h, e
  <2>3. h \o e # <<>>
    BY <2>1 DEF Complete, Suited
  <2>. QED
    BY <2>1, <2>2, <2>3, SuitedJoins
<1>4. CASE phase = "summarise"
  <2>1. Sent = IF h # <<>> /\ h[Len(h)].role = "user" THEN h ELSE Append(h, Text("user"))
    BY <1>4 DEF Sent, WithInstruction
  <2>2. Complete(h)
    BY <1>2
  <2> HIDE DEF h
  <2>3. Suits(LastUses(h), Text("user"))
    BY <2>2, TextIs DEF Complete, Suits
  <2>4. Complete(Append(h, Text("user"))) /\ Append(h, Text("user")) # <<>>
    BY <2>2, <2>3, SuitedGrows, TextIs DEF Complete
  <2>. QED
    BY <2>1, <2>2, <2>4
<1>. QED
  BY <1>3, <1>4

\* Whatever a turn or a compaction sends to a provider, at the first attempt or
\* as a fallback, after pauses, abandonments, dropped calls and restarts, is a
\* conversation that this provider's API accepts, unless a question was
\* forgotten and not compacted away since.
THEOREM RequestsAccepted == Spec => []RequestAccepted
<1>1. ASSUME IInv, Prepared, Conversing!SoundIsPaired
      PROVE  RequestAccepted
  <2> SUFFICES ASSUME phase \in {"ask", "summarise"}, ~lost
               PROVE  LET kind == turn.chain[turn.attempt]
                      IN  IF kind = "anthropic" THEN AnthropicAccepts(Request)
                          ELSE OpenAiAccepts(ToOpenAi(Request))
    BY DEF RequestAccepted
  <2> DEFINE kind == turn.chain[turn.attempt]
             m    == Sent
  <2>1. m # <<>> /\ Complete(m)
    BY <1>1, SentIsComplete
  <2>2. Request = Prepare(kind, m)
    BY DEF Request, Sent
  <2> HIDE DEF kind, m
  <2>3. CASE kind = "anthropic"
    BY <2>1, <2>2, <2>3, AnthropicIsGiven DEF kind
  <2>4. CASE kind # "anthropic"
    <3>1. Prepare(kind, m) = m
      BY <2>4 DEF Prepare
    <3>. QED
      BY <2>1, <2>2, <2>4, <3>1, OpenAiIsGiven DEF kind
  <2>. QED
    BY <2>3, <2>4 DEF kind
<1>. QED
  BY <1>1, PreparedAtFirst, PreparedKept, Invariance, ReplayIsPaired, PTL DEF Spec
=============================================================================
