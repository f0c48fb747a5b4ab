---------------------------- MODULE Conversation ----------------------------
(***************************************************************************)
(* What the event log of a session means to a language-model provider: one *)
(* conversation.  It grows by a message at a time, a message that asks for *)
(* tools is answered by the next one, and a compaction replaces the whole  *)
(* of it by a summary.  The server may lose track of a question it is      *)
(* waiting to see answered; what follows is then broken until the next     *)
(* compaction.                                                             *)
(***************************************************************************)
EXTENDS Integers, Sequences

CONSTANT Ids  \* ids of tool calls

Block(By) == [id: Ids, by: By]

\* uses: the tool calls an assistant message asks for, by who executes them.
\* results: the tool results a user message carries, by who produced them.
Message == [role: {"user", "assistant"},
            uses: Seq(Block({"client", "server"})),
            results: Seq(Block({"client", "server", "synthetic"}))]

Text(role) == [role |-> role, uses |-> <<>>, results |-> <<>>]

\* The two messages a compaction leaves.
Preamble == Text("user")
Summary  == Text("assistant")

VARIABLES
  context,  \* the messages a provider is sent
  sound     \* no question was lost since the last compaction

Newest(msgs)      == msgs[Len(msgs)]
SameIds(s, t)     == Len(s) = Len(t) /\ \A k \in 1 .. Len(s) : s[k].id = t[k].id
Unanswered(msgs)  == msgs # <<>> /\ Newest(msgs).uses # <<>>

\* m answers the tool calls of the newest message, all of them and in their
\* order, and carries results for nothing else.
Fits(msgs, m) ==
  /\ m.uses # <<>> => m.role = "assistant" /\ m.results = <<>>
  /\ IF Unanswered(msgs)
       THEN m.role = "user" /\ SameIds(Newest(msgs).uses, m.results)
       ELSE m.results = <<>>

\* Every question but the newest is answered in the next message, and every
\* answer has its question right before it.
Paired(msgs) ==
  \A i \in 1 .. Len(msgs) :
    Fits(IF i = 1 THEN <<>> ELSE <<msgs[i - 1]>>, msgs[i])

Init == context \in Seq(Message) /\ Paired(context) /\ ~Unanswered(context)
        /\ sound = TRUE

Say ==
  /\ context' # <<>>
  /\ Newest(context') \in Message
  /\ sound => Fits(context, Newest(context'))
  /\ context' = Append(context, Newest(context'))
  /\ UNCHANGED sound

Lose ==
  /\ Unanswered(context)
  /\ sound' = FALSE
  /\ UNCHANGED context

Summarise ==
  /\ sound => ~Unanswered(context)
  /\ context' = <<Preamble, Summary>>
  /\ sound' = TRUE

Next == Say \/ Lose \/ Summarise

Spec == Init /\ [][Next]_<<context, sound>>

\* As long as no question was lost, the conversation is one a provider takes.
SoundIsPaired == sound => Paired(context)
=============================================================================
