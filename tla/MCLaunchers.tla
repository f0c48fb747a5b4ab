----------------------------- MODULE MCLaunchers -----------------------------
EXTENDS Launchers, TLC

CONSTANTS a, AgentNames, Tokens

OneAgent == [r \in Runs |-> a]

-----------------------------------------------------------------------------
(* The functions of Invocations, over agents with up to two variables and   *)
(* templates, and the bodies of two fields; TLC evaluates what is assumed.  *)

Invoked == INSTANCE Invocations

NoSchema   == [kind |-> "none", takes |-> {}]
Some(S)    == UNION {[D -> S] : D \in SUBSET {"f", "g"}}
Lit        == <<Invoked!Literal("x")>>
FromV      == <<Invoked!Ref("v")>>
Texts      == {Lit, FromV, <<Invoked!Literal("x"), Invoked!Ref("w")>>, <<Invoked!Unended>>}
Environs   == UNION {[D -> {Lit, FromV}] : D \in SUBSET {"v", "w"}}
Entries    == [field : {"f", "g"}, to : {Lit, FromV}]
Bodies     == [kind : {"object"}, fields : Some({Lit, FromV, Invoked!Null})] \cup {[kind |-> "array"]}
Templated  == Invoked!AgentConfigs({"n"}, UNION {[D -> Texts] : D \in SUBSET {Lit}}, BoundedSeq(Entries, 2),
                                   BoundedSeq(Entries, 1), {NoSchema}, {"cron"})

\* The agents of a file, which differ in what the file is refused for.
Listed == Invoked!AgentConfigs(AgentNames, {<<>>}, {<<>>}, {<<>>}, {NoSchema, [kind |-> "invalid", takes |-> {}]},
                               {"cron", "words"})
Files  == {Invoked!Unreadable, Invoked!Malformed} \cup {Invoked!Read(l) : l \in BoundedSeq(Listed, 2)}

\* The agents a request may be about.
Asked    == Invoked!AgentConfigs(AgentNames \ {""}, {<<>>, [v \in {Lit} |-> FromV]},
              {<<[field |-> "f", to |-> Lit]>>}, {<<>>}, {NoSchema, [kind |-> "set", takes |-> {Invoked!NoFields}]}, {"cron"})
Lists    == {l \in BoundedSeq(Asked, 2) : Invoked!GoodNames(l)}
Requests == [name : AgentNames, header : {Invoked!NoHeader} \cup [scheme : {"Bearer", "Basic"}, token : Tokens],
             body : {[kind |-> "empty"], [kind |-> "no JSON"], [kind |-> "array"],
                     [kind |-> "object", fields |-> [f \in {"f"} |-> FromV]]}]

\* EveryAgentIsThere.
ASSUME FilesAgree == Invoked!EveryAgentIsThere(Files)

\* OnlyWhatIsAsked.
ASSUME RequestsAgree == Invoked!OnlyWhatIsAsked(Lists, Requests, Environs)

\* CallersAreLiteral, ConfiguredAndTemplated.
ASSUME SpecsAgree ==
  /\ Invoked!CallersAreLiteral(Templated, Bodies, Environs)
  /\ Invoked!ConfiguredAndTemplated(Templated, Bodies, Environs)
=============================================================================
