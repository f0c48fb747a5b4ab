----------------------------- MODULE Transcript -----------------------------
(***************************************************************************)
(* The turns of one session, and what they send to a provider.             *)
(*                                                                         *)
(* A call (session.sendMessage or session.compact) that holds the turn     *)
(* gate records its message, merging tool results into the one answer that *)
(* a paused turn waits for; run_turn replays the log to the providers,     *)
(* executes the tools the server owns and goes round, until a final        *)
(* answer, a pause for the client's tools, or an error; at the end of a    *)
(* turn, or when asked to, the session is compacted.  TurnGate models who  *)
(* may hold the gate; here one call runs at a time.                        *)
(***************************************************************************)
EXTENDS Integers, Sequences

CONSTANTS
  Ids,            \* ids that providers give tool calls
  None,           \* no pause, no call, no trigger, no usage, ...
  Kinds,          \* wire formats of the profile's provider chain, primary first
  MaxIterations,  \* provider rounds of one turn
  Size,           \* the threshold of compaction mode "auto"; None in other modes
  MaxTokens,      \* the largest u64
  Usages,         \* token usage a provider may report: <<input, output>>, or None
  MaxBlocks,      \* bound on the blocks of one message
  MaxMessages,    \* bound on the messages of the log when a call arrives
  MaxRestarts,    \* bound on restarts
  Drops           \* BOOLEAN: may a call be cut off in the middle?

ASSUME ChainAssumption ==
  Kinds # <<>> /\ Kinds \in Seq({"anthropic", "openai"})

ASSUME BoundsAssumption ==
  /\ MaxIterations \in Nat \ {0} /\ MaxTokens \in Nat /\ MaxBlocks \in Nat
  /\ MaxMessages \in Nat /\ MaxRestarts \in Nat /\ Drops \in BOOLEAN

ASSUME TokensAssumption ==
  /\ None \notin Nat
  /\ Size # None => Size \in Nat /\ Size < MaxTokens
  /\ \A u \in Usages \ {None} : u \in (0 .. MaxTokens) \X (0 .. MaxTokens)

VARIABLES
  sess,      \* sessions.state
  log,       \* the message events of session_events, by rowid
  marks,     \* its session.compaction.completed events, pointing into log
  pause,     \* the PendingTurn: stashed results and trigger
  call,      \* the call that holds the gate
  phase,     \* how far that call got
  turn,      \* the locals of run_turn and run_compaction
  backoff,   \* compaction_backoff: token count of the failed attempt
  lost,      \* history: an unanswered question was forgotten
  crossed,   \* history: a provider call of this exchange exceeded Size (Seen)
  restarts

vars == <<sess, log, marks, pause, call, phase, turn, backoff, lost, crossed, restarts>>

-----------------------------------------------------------------------------
(* Messages.  A block of tool use or of tool result is reduced to its id and *)
(* to the side that executes it or made it; text is left out.              *)

Conv == INSTANCE Conversation WITH context <- <<>>, sound <- TRUE

Text(role)    == Conv!Text(role)
Message       == Conv!Message
IdsOf(blocks) == {blocks[k].id : k \in DOMAIN blocks}
Repeats(blocks) == \E j, k \in DOMAIN blocks : j # k /\ blocks[j].id = blocks[k].id

\* The blocks that stand for none of ids, at their places.
Without(blocks, ids) == [k \in {k \in DOMAIN blocks : blocks[k].id \notin ids} |-> blocks[k]]

\* Sequences of at most MaxBlocks elements.
UpTo(S) == UNION {[1 .. n -> S] : n \in 0 .. MaxBlocks}

\* What a call brings: tool results in any order, some text, or a message in
\* the assistant's role.
Incoming == [method: {"send"}, role: {"user"}, results: UpTo(Ids), text: BOOLEAN]
            \cup [method: {"send"}, role: {"assistant"}, results: {<<>>}, text: {TRUE}]
            \cup [method: {"compact"}, role: {"user"}, results: {<<>>}, text: {FALSE}]

\* Tokens of a trigger, and the paused turn a call took over.
Trigger == 0 .. MaxTokens \cup {None}
Stash   == UNION {[places -> Conv!Block({"server"})] : places \in SUBSET (1 .. MaxBlocks)}
Claim   == [results: Stash, trigger: Trigger, timedOut: BOOLEAN]
Pause   == [results: Stash, trigger: Trigger, expired: BOOLEAN]
Call    == [method: {"send", "compact"}, role: {"user", "assistant"}, results: Seq(Ids),
            text: BOOLEAN, claim: Claim \cup {None}]

ASSUME PauseAssumption == \A c \in Claim \cup Pause : c # None

NoTurn == [extra |-> <<>>, round |-> 0, chain |-> <<>>, attempt |-> 0,
           usage |-> None, trigger |-> None, stash |-> <<>>]

\* Wrong on purpose: replay starts at the marker, after preamble and summary.
LowerBoundAtMarker(markers) ==
  IF markers = <<>> THEN 1 ELSE markers[Len(markers)].summary + 1

\* history_lower_bound: the preamble of the newest compaction, or the summary
\* of one made before there were preambles, or everything.
LowerBound(markers) ==
  IF markers = <<>> THEN 1
  ELSE LET newest == markers[Len(markers)]
           first  == IF newest.preamble # 0 THEN newest.preamble ELSE newest.summary
       IN  IF first # 0 THEN first ELSE 1

\* stream_history.
History == SubSeq(log, LowerBound(marks), Len(log))

\* last_assistant_tool_uses.
LastToolUses ==
  LET assistant == {i \in 1 .. Len(log) : log[i].role = "assistant"}
  IN  IF assistant = {} THEN <<>>
      ELSE log[CHOOSE i \in assistant : \A j \in assistant : j <= i].uses

\* The sum of two u64, saturating.
Saturating(n) == IF n > MaxTokens THEN MaxTokens ELSE n

\* auto_trigger: the token count of a call that exceeded the threshold.
AutoTrigger(usage) ==
  IF Size = None \/ usage = None THEN None
  ELSE LET tokens == Saturating(usage[1] + usage[2])
       IN  IF tokens > Size THEN tokens ELSE None

Or(trigger, other) == IF trigger # None THEN trigger ELSE other

TypeOK ==
  /\ sess \in {"open", "error"}
  /\ log \in Seq(Message)
  /\ marks \in Seq([preamble: 0 .. Len(log), summary: 0 .. Len(log)])
  /\ pause \in Pause \cup {None}
  /\ call \in Call \cup {None}
  /\ phase \in {"idle", "record", "start", "ask", "park", "boundary", "compact", "summarise"}
  /\ turn \in [extra: Seq(Message), round: 0 .. MaxIterations,
               chain: Seq({"anthropic", "openai"}), attempt: 0 .. Len(Kinds),
               usage: Usages \cup {None}, trigger: Trigger, stash: Stash]
  /\ backoff \in Trigger
  /\ lost \in BOOLEAN /\ crossed \in {"no", "yes", "forgotten"}
  /\ restarts \in 0 .. MaxRestarts

\* A new session, or one that a server without preambles has compacted.
Init ==
  /\ sess = "open"
  /\ \/ log = <<>> /\ marks = <<>>
     \/ /\ log = <<Text("user"), Conv!Summary>>
        /\ marks = <<[preamble |-> 0, summary |-> 2]>>
  /\ pause = None /\ call = None /\ phase = "idle" /\ turn = NoTurn
  /\ backoff = None
  /\ lost = FALSE /\ crossed = "no"
  /\ restarts = 0

\* The call returns; its locals are gone.  What it brought is of no use any
\* more once it is recorded.
Return   == phase' = "idle" /\ call' = None /\ turn' = NoTurn
Recorded == call' = [call EXCEPT !.role = "user", !.results = <<>>, !.text = FALSE, !.claim = None]

-----------------------------------------------------------------------------
(* Answering a paused turn.                                                *)

\* merge_tool_results fails, unless the results of both sides are exactly the
\* ids of the paused message, once each.
MergeFails(uses, stash, client) ==
  \/ uses = <<>> \/ Repeats(uses) \/ Repeats(stash)
  \/ Repeats(Without(client, IdsOf(stash)))
  \/ IdsOf(stash) \cup IdsOf(client) # IdsOf(uses)

\* Wrong on purpose: the client's result for the server's tool call is taken.
ClientWins(uses, stash, client) ==
  [k \in DOMAIN uses |->
     LET from == IF uses[k].id \in IdsOf(client) THEN client ELSE stash
     IN  from[CHOOSE j \in DOMAIN from : from[j].id = uses[k].id]]

\* ... else it puts them in the order of the tool calls; the server's win.
Merge(uses, stash, client) ==
  [k \in DOMAIN uses |->
     LET from == IF uses[k].id \in IdsOf(stash) THEN stash ELSE client
     IN  from[CHOOSE j \in DOMAIN from : from[j].id = uses[k].id]]

\* cancel_abandoned_tool_uses: an error result for every open tool call.
Cancel(uses, stash) ==
  LET open == Without(uses, IdsOf(stash))
  IN  [k \in DOMAIN open |-> [id |-> open[k].id, by |-> "synthetic"]]

\* is_voluntary_abandonment, or a caller that retires a timed-out pause.
Abandons == call.claim.timedOut \/ (call.results = <<>> /\ call.text)

ClientResults ==
  IF Abandons THEN Cancel(LastToolUses, call.claim.results)
  ELSE [k \in DOMAIN call.results |-> [id |-> call.results[k], by |-> "client"]]

\* The one who retires a pause must not bring results of its own.
Refused ==
  \/ call.role # "user"
  \/ call.claim.timedOut /\ call.results # <<>>
  \/ MergeFails(LastToolUses, call.claim.results, ClientResults)

Answer == [role |-> "user", uses |-> <<>>,
           results |-> Merge(LastToolUses, call.claim.results, ClientResults)]

\* fail_tool_result_merge: the question cannot be answered any more, so the
\* session ends.
FailMerge == sess' = "error" /\ Return

-----------------------------------------------------------------------------
(* A call that holds the gate.  A message resumes the pause of its own     *)
(* client or retires an expired one; session.compact retires only.         *)

Receive(m) ==
  /\ phase = "idle" /\ sess = "open" /\ Len(log) <= MaxMessages
  /\ \E timedOut \in BOOLEAN :
       /\ timedOut => pause # None /\ pause.expired
       /\ pause # None /\ m.method = "compact" => timedOut
       /\ call' = [method |-> m.method, role |-> m.role, results |-> m.results, text |-> m.text,
                   claim |-> IF pause = None THEN None
                             ELSE [results |-> pause.results, trigger |-> pause.trigger,
                                   timedOut |-> timedOut]]
  /\ pause' = None
  /\ phase' = "record"
  /\ UNCHANGED <<sess, log, marks, turn, backoff, lost, crossed, restarts>>

\* Wrong on purpose: a crossing seen before the pause is dropped.
RecordMessageAnew ==
  /\ phase = "record" /\ call.method = "send"
  /\ \/ /\ call.claim = None /\ call.results # <<>>
        /\ Return /\ UNCHANGED <<sess, log, crossed>>
     \/ /\ call.claim = None /\ call.results = <<>>
        /\ log' = Append(log, Text(call.role))
        /\ crossed' = "no" /\ phase' = "start"
        /\ Recorded /\ UNCHANGED <<sess, turn>>
     \/ /\ call.claim # None /\ Refused
        /\ FailMerge /\ UNCHANGED <<log, crossed>>
     \/ /\ call.claim # None /\ ~Refused
        /\ log' = Append(log, Answer)
        /\ phase' = "start"
        /\ Recorded /\ UNCHANGED <<sess, turn, crossed>>
  /\ UNCHANGED <<marks, pause, backoff, lost, restarts>>

\* drive_send_message: merge or reject, then record the message.
RecordMessage ==
  /\ phase = "record" /\ call.method = "send"
  /\ \/ /\ call.claim = None /\ call.results # <<>>
        /\ Return /\ UNCHANGED <<sess, log, crossed>>
     \/ /\ call.claim = None /\ call.results = <<>>
        /\ log' = Append(log, Text(call.role))
        /\ crossed' = "no" /\ phase' = "start"
        /\ Recorded /\ UNCHANGED <<sess, turn>>
     \/ /\ call.claim # None /\ Refused
        /\ FailMerge /\ UNCHANGED <<log, crossed>>
     \/ /\ call.claim # None /\ ~Refused
        /\ log' = Append(log, Answer)
        /\ turn' = [turn EXCEPT !.trigger = call.claim.trigger]
        /\ phase' = "start"
        /\ Recorded /\ UNCHANGED <<sess, crossed>>
  /\ UNCHANGED <<marks, pause, backoff, lost, restarts>>

\* compact_under_gate: retire the expired pause, if there is one.
RetirePause ==
  /\ phase = "record" /\ call.method = "compact"
  /\ \/ /\ call.claim # None /\ Refused
        /\ FailMerge /\ UNCHANGED log
     \/ /\ IF call.claim = None THEN UNCHANGED log
           ELSE ~Refused /\ log' = Append(log, Answer)
        /\ phase' = "compact"
        /\ Recorded /\ UNCHANGED <<sess, turn>>
  /\ crossed' = "no"
  /\ UNCHANGED <<marks, pause, backoff, lost, restarts>>

-----------------------------------------------------------------------------
(* run_turn.                                                               *)

\* resolve_provider_chain: the primary, and the fallbacks that are configured.
Chains == {chain \in UNION {[1 .. n -> 1 .. Len(Kinds)] : n \in 1 .. Len(Kinds)} :
             chain[1] = 1 /\ \A i, j \in DOMAIN chain : i < j => chain[i] < chain[j]}

FirstAttempt(chain) == [turn EXCEPT !.chain = [k \in DOMAIN chain |-> Kinds[chain[k]]],
                                    !.attempt = 1]

\* The profile may be gone or name a primary that is not configured.
StartTurn ==
  /\ phase = "start"
  /\ \/ /\ sess' = "error"
        /\ Return
     \/ /\ \E chain \in Chains : turn' = [FirstAttempt(chain) EXCEPT !.round = 1]
        /\ phase' = "ask"
        /\ UNCHANGED <<sess, call>>
  /\ UNCHANGED <<log, marks, pause, backoff, lost, crossed, restarts>>

\* provider_attempts: the next of the chain, or the session fails.
AttemptFails ==
  /\ phase = "ask"
  /\ \/ /\ turn.attempt < Len(turn.chain)
        /\ turn' = [turn EXCEPT !.attempt = @ + 1]
        /\ UNCHANGED <<sess, call, phase>>
     \/ /\ turn.attempt = Len(turn.chain)
        /\ sess' = "error"
        /\ Return
  /\ UNCHANGED <<log, marks, pause, backoff, lost, crossed, restarts>>

\* The results of the server's tools, at the places of their calls.
ServerResults(uses) == [k \in {k \in DOMAIN uses : uses[k].by = "server"} |-> uses[k]]

Crosses(usage) == Size # None /\ usage # None /\ usage[1] + usage[2] > Size

\* What a call's usage makes of the exchange: the next call's usage takes its
\* place, and with it goes a crossing that no pause has saved.
Seen(usage) ==
  IF Crosses(usage) THEN "yes"
  ELSE IF Crosses(turn.usage) /\ turn.trigger = None THEN "forgotten" ELSE crossed

Question(uses) == [role |-> "assistant", uses |-> uses, results |-> <<>>]

\* A response without tool calls ends the turn.
FinalAnswer(uses, usage) ==
  /\ phase = "ask" /\ uses = <<>>
  /\ log' = Append(log, Question(uses))
  /\ turn' = [turn EXCEPT !.usage = usage]
  /\ crossed' = Seen(usage)
  /\ phase' = "boundary"
  /\ UNCHANGED <<sess, marks, pause, call, backoff, lost, restarts>>

\* With a tool call for the client the turn pauses; those of the server in the
\* same response are executed, and whatever happens to them is a result.
AskClient(uses, usage) ==
  /\ phase = "ask" /\ \E k \in DOMAIN uses : uses[k].by = "client"
  /\ log' = Append(log, Question(uses))
  /\ turn' = [turn EXCEPT !.usage = usage, !.stash = ServerResults(uses)]
  /\ crossed' = Seen(usage)
  /\ phase' = "park"
  /\ UNCHANGED <<sess, marks, pause, call, backoff, lost, restarts>>

\* With the server's alone the results go back to the provider, unrecorded.
ServerRound(uses, usage) ==
  /\ phase = "ask" /\ uses # <<>> /\ \A k \in DOMAIN uses : uses[k].by = "server"
  /\ turn.round < MaxIterations
  /\ turn' = [turn EXCEPT !.extra = @ \o <<Question(uses),
                                          [Text("user") EXCEPT !.results = uses]>>,
                          !.round = @ + 1, !.attempt = 1, !.usage = usage]
  /\ crossed' = Seen(usage)
  /\ UNCHANGED <<sess, log, marks, pause, call, phase, backoff, lost, restarts>>

\* ... until the last round, whose results nobody reads.
LoopLimit(uses) ==
  /\ phase = "ask" /\ uses # <<>> /\ \A k \in DOMAIN uses : uses[k].by = "server"
  /\ turn.round = MaxIterations
  /\ sess' = "error"
  /\ Return
  /\ UNCHANGED <<log, marks, pause, backoff, lost, crossed, restarts>>

\* call: a response in the shape of either provider is read as the one or the
\* other of these; a failing status, transport or body fails the attempt.
Respond(uses, usage) ==
  FinalAnswer(uses, usage) \/ AskClient(uses, usage) \/ ServerRound(uses, usage) \/ LoopLimit(uses)

\* The paused turn keeps its server results, and its trigger: a compaction now
\* would separate the question from its answer.
Park ==
  /\ phase = "park"
  /\ pause' = [results |-> turn.stash, expired |-> FALSE,
               trigger |-> Or(turn.trigger, AutoTrigger(turn.usage))]
  /\ Return
  /\ UNCHANGED <<sess, log, marks, backoff, lost, crossed, restarts>>

\* maybe_auto_compact.  A completed turn since the failed attempt is this one.
EndTurn ==
  LET trigger == Or(turn.trigger, AutoTrigger(turn.usage))
      due     == trigger # None /\ (backoff # None => trigger > backoff)
  IN
  /\ phase = "boundary"
  /\ \/ ~due /\ Return
     \/ /\ due
        /\ turn' = [NoTurn EXCEPT !.trigger = trigger]
        /\ phase' = "compact"
        /\ UNCHANGED call
  /\ UNCHANGED <<sess, log, marks, pause, backoff, lost, crossed, restarts>>

-----------------------------------------------------------------------------
(* run_compaction.                                                         *)

\* Nothing is recorded; an automatic attempt arms the back-off.
GiveUp ==
  /\ backoff' = IF call.method = "send" THEN turn.trigger ELSE backoff
  /\ Return
  /\ UNCHANGED <<sess, log, marks, pause, lost, crossed, restarts>>

StartCompaction ==
  /\ phase = "compact"
  /\ \/ GiveUp
     \/ /\ \E chain \in Chains : turn' = FirstAttempt(chain)
        /\ phase' = "summarise"
        /\ UNCHANGED <<sess, log, marks, pause, call, backoff, lost, crossed, restarts>>

\* The next provider of the chain, or all of them failed, the summary was cut
\* off or empty, or its transaction failed.
SummaryFails ==
  /\ phase = "summarise"
  /\ \/ GiveUp
     \/ /\ turn.attempt < Len(turn.chain)
        /\ turn' = [turn EXCEPT !.attempt = @ + 1]
        /\ UNCHANGED <<sess, log, marks, pause, call, phase, backoff, lost, crossed, restarts>>

\* insert_compaction_records: three records in one transaction.
CommitSummary ==
  /\ phase = "summarise"
  /\ log' = log \o <<Conv!Preamble, Conv!Summary>>
  /\ marks' = Append(marks, [preamble |-> Len(log) + 1, summary |-> Len(log) + 2])
  /\ backoff' = None
  /\ lost' = FALSE
  /\ Return
  /\ UNCHANGED <<sess, pause, crossed, restarts>>

-----------------------------------------------------------------------------
(* The environment.                                                        *)

Expire ==
  /\ pause # None /\ ~pause.expired
  /\ pause' = [pause EXCEPT !.expired = TRUE]
  /\ UNCHANGED <<sess, log, marks, call, phase, turn, backoff, lost, crossed, restarts>>

\* Nobody is left to answer the newest question.
Forgets == lost' = (lost \/ Conv!Unanswered(log))

\* The caller disconnects, or the store fails: the call ends where it is.
CutOff ==
  /\ Drops /\ phase \in {"record", "start", "ask", "park", "compact", "summarise"}
  /\ Return /\ Forgets
  /\ UNCHANGED <<sess, log, marks, pause, backoff, crossed, restarts>>

\* A restart keeps SQLite and loses what is in memory.
Restart ==
  /\ restarts < MaxRestarts
  /\ restarts' = restarts + 1
  /\ pause' = None /\ backoff' = None
  /\ Return /\ Forgets
  /\ UNCHANGED <<sess, log, marks, crossed>>

-----------------------------------------------------------------------------
ServerStep ==
  \/ RecordMessage \/ RetirePause
  \/ StartTurn \/ AttemptFails \/ Park \/ EndTurn
  \/ \E uses \in UpTo(Conv!Block({"client", "server"})), usage \in Usages : Respond(uses, usage)
  \/ StartCompaction \/ SummaryFails \/ CommitSummary

Next == (\E m \in Incoming : Receive(m)) \/ ServerStep \/ Expire \/ CutOff \/ Restart

Spec == Init /\ [][Next]_vars

-----------------------------------------------------------------------------
(* The wire formats.                                                       *)

\* Wrong on purpose: messages are sent as they are.
PrepareNothing(kind, messages) == messages

\* prepare_messages: for Anthropic the first message is the user's, and
\* successive messages of one role become one.  The tag that says who executes a
\* tool is taken off every block.
Prepare(kind, messages) ==
  LET input == IF messages # <<>> /\ messages[1].role # "user"
                 THEN <<Text("user")>> \o messages ELSE messages
      merged[n \in 0 .. Len(input)] ==
        IF n = 0 THEN <<>>
        ELSE LET before == merged[n - 1] last == Len(before) next == input[n]
             IN  IF last > 0 /\ before[last].role = next.role
                   THEN [before EXCEPT ![last] = [role |-> next.role, uses |-> @.uses \o next.uses,
                                                  results |-> @.results \o next.results]]
                   ELSE Append(before, next)
  IN  IF kind = "anthropic" THEN merged[Len(input)] ELSE messages

\* openai_request_body, without its tools: each result is a message of its own, in front of the
\* text of the message it came in.
ToOpenAi(messages) ==
  LET wire[n \in 0 .. Len(messages)] ==
        IF n = 0 THEN <<>>
        ELSE LET m == messages[n]
             IN  wire[n - 1]
                 \o [k \in DOMAIN m.results |->
                       [role |-> "tool", calls |-> <<>>, answers |-> m.results[k].id]]
                 \o (IF m.results # <<>> THEN <<>>
                     ELSE <<[role |-> m.role, calls |-> [k \in DOMAIN m.uses |-> m.uses[k].id],
                             answers |-> None]>>)
  IN  wire[Len(messages)]

\* What the Messages API asks of a conversation.
AnthropicAccepts(messages) ==
  /\ messages # <<>> /\ messages[1].role = "user"
  /\ \A i \in 2 .. Len(messages) : messages[i].role # messages[i - 1].role
  /\ Conv!Paired(messages)

\* What Chat Completions asks: the calls of a message are answered one by one
\* right after it, and no other answers occur.
OpenAiAccepts(wire) ==
  /\ wire # <<>>
  /\ \A i \in 1 .. Len(wire) : \A k \in DOMAIN wire[i].calls :
       i + k <= Len(wire) /\ wire[i + k].answers = wire[i].calls[k]
  /\ \A i \in 1 .. Len(wire) : wire[i].role = "tool" =>
       \E j \in 1 .. i - 1 : i - j \in DOMAIN wire[j].calls

\* The instruction of a compaction ends the conversation: in its last message,
\* if that is the user's, or in one more.
WithInstruction(messages) ==
  IF messages # <<>> /\ messages[Len(messages)].role = "user" THEN messages
  ELSE Append(messages, Text("user"))

\* What the next attempt sends.
Request ==
  Prepare(turn.chain[turn.attempt],
          IF phase = "ask" THEN History \o turn.extra ELSE WithInstruction(History))

-----------------------------------------------------------------------------
(***************************************************************************)
(* What the transcript promises.                                           *)
(***************************************************************************)

\* Every request, of a turn or of a compaction, first attempt or fallback,
\* after pauses, abandonments, dropped calls and restarts, is one its provider
\* accepts, unless a question was forgotten and not compacted away since.
RequestAccepted ==
  phase \in {"ask", "summarise"} /\ ~lost =>
    LET kind == turn.chain[turn.attempt]
    IN  IF kind = "anthropic" THEN AnthropicAccepts(Request)
        ELSE OpenAiAccepts(ToOpenAi(Request))

\* A result comes from the side that owns the tool: what the server executed
\* before a pause is what the provider gets after it, however the turn was
\* resumed, and an error result stands only for a tool of the client.
AnswersAreOwned ==
  \A i \in 2 .. Len(log) : \A k \in DOMAIN log[i].results :
    (log[i].results[k].by = "server") <=> (log[i - 1].uses[k].by = "server")

\* A call that exceeds the threshold leads to a compaction at the end of its
\* exchange, through pauses and what later calls report, unless an earlier
\* attempt failed.  One exception: a call that ran the server's tools alone, and
\* whose turn went on with a call that stayed below, is forgotten.
CrossingHonoured ==
  [][phase = "boundary" /\ phase' = "idle" /\ UNCHANGED restarts
       => crossed # "yes" \/ backoff # None]_vars

\* The replayed part of the log is a conversation.
Conversing == INSTANCE Conversation WITH context <- History, sound <- ~lost

ImplementsConversation == Conversing!Spec
=============================================================================
