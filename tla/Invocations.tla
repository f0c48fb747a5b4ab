------------------------------ MODULE Invocations ------------------------------
(***************************************************************************)
(* What a launcher starts, as functions: the agents it takes of its        *)
(* configuration file, the requests the API launcher answers, the          *)
(* arguments and the environment of the child.  Launchers.tla has what     *)
(* becomes of a child once it is asked for.                                *)
(*                                                                         *)
(* A text is a sequence of parts, of which some are references to a        *)
(* variable of the launcher's environment; only of the texts in the        *)
(* configuration are those references resolved.                            *)
(***************************************************************************)
EXTENDS Integers, SequencesExt

CONSTANTS
  AgentNames,  \* "" is the blank one
  Tokens       \* the bearer tokens there are, besides none

Literal(x) == [kind |-> "literal", of |-> x]
Ref(var)   == [kind |-> "ref", of |-> var]
Unended    == [kind |-> "unended", of |-> ""]  \* a "${" that nothing closes

\* resolve_one: a variable has to be set; what it holds is not looked at again.
Resolvable(text, environ) ==
  \A k \in DOMAIN text : text[k].kind = "literal" \/ (text[k].kind = "ref" /\ text[k].of \in DOMAIN environ)

Resolved(text, environ) ==
  FlattenSeq([k \in DOMAIN text |-> IF text[k].kind = "ref" THEN environ[text[k].of] ELSE <<text[k]>>])

-----------------------------------------------------------------------------
(* The configuration.                                                      *)

\* The agents of a file: those of the API launcher have no schedule, and those of
\* the schedule launcher neither a schema nor templates.
AgentConfigs(names, env, envTemplates, argTemplates, schemas, schedules) ==
  [name : names, args : {<<>>, <<<<Literal("x")>>>>}, env : env, envTemplate : envTemplates,
   argTemplate : argTemplates, schema : schemas, schedule : schedules]

\* A file is a list of agents, an empty one if it is not there, or what cannot be
\* read or parsed.
Read(agents) == [state |-> "read", agents |-> agents]
Unreadable   == [state |-> "unreadable", agents |-> <<>>]
Malformed    == [state |-> "malformed", agents |-> <<>>]

\* validate_unique_names.
GoodNames(agents) ==
  \A k \in DOMAIN agents : agents[k].name # "" /\ agents[k].name \notin {agents[j].name : j \in 1 .. k - 1}

\* What the launcher exits with before it starts, and 0 if it starts.
ApiExit(file) ==
  CASE file.state = "unreadable" -> 1
    [] file.state = "malformed"  -> 2
    [] OTHER -> IF GoodNames(file.agents) /\ \A k \in DOMAIN file.agents : file.agents[k].schema.kind # "invalid"
                THEN 0 ELSE 2

ScheduleExit(file) ==
  IF file.state \in {"unreadable", "malformed"} \/ ~GoodNames(file.agents) THEN 2
  ELSE IF \A k \in DOMAIN file.agents : file.agents[k].schedule = "cron" THEN 0 ELSE 2

\* AppState: the agents by name, and the order of the file.
Order(agents)  == [k \in DOMAIN agents |-> agents[k].name]
ByName(agents) ==
  [name \in ToSet(Order(agents)) |-> agents[CHOOSE k \in DOMAIN agents :
     agents[k].name = name /\ \A j \in DOMAIN agents : agents[j].name = name => j <= k]]

ListAgents(agents) == [k \in DOMAIN agents |-> ByName(agents)[Order(agents)[k]]]

-----------------------------------------------------------------------------
(* The child's arguments and environment.                                  *)

Above(low, high) == [v \in DOMAIN low \cup DOMAIN high |-> IF v \in DOMAIN high THEN high[v] ELSE low[v]]

Null == <<[kind |-> "null", of |-> ""]>>
Rendered(value) == IF value = Null THEN <<>> ELSE value

\* The entries of a template whose field the body has; a body that is no object
\* has none.
Applied(template, body) ==
  SelectSeq(template, LAMBDA e : body.kind = "object" /\ e.field \in DOMAIN body.fields)

\* build_spec.  A later entry for a variable replaces an earlier one, and any the
\* static value.
BuildSpec(agent, body, environ) ==
  LET envs  == Applied(agent.envTemplate, body)
      flags == Applied(agent.argTemplate, body)
      Value(e) == Rendered(body.fields[e.field])
      texts == {agent.env[v] : v \in DOMAIN agent.env}
                 \cup {envs[k].to : k \in DOMAIN envs} \cup {flags[k].to : k \in DOMAIN flags}
  IN  IF \E t \in texts : ~Resolvable(t, environ) THEN [ok |-> FALSE]
      ELSE [ok   |-> TRUE,
            env  |-> FoldLeft(LAMBDA env, e : Above(env, [v \in {Resolved(e.to, environ)} |-> Value(e)]),
                              [v \in DOMAIN agent.env |-> Resolved(agent.env[v], environ)], envs),
            args |-> agent.args \o FlattenSeq([k \in DOMAIN flags |->
                       <<Resolved(flags[k].to, environ), Value(flags[k])>>])]

\* run_invocation: no body, and no template.
ScheduledSpec(agent, environ) ==
  IF \E v \in DOMAIN agent.env : ~Resolvable(agent.env[v], environ) THEN [ok |-> FALSE]
  ELSE [ok |-> TRUE, env |-> [v \in DOMAIN agent.env |-> Resolved(agent.env[v], environ)], args |-> agent.args]

-----------------------------------------------------------------------------
(* A request to trigger an agent.                                          *)

NoHeader == [scheme |-> "", token |-> ""]

\* bearer_token, require_bearer: asked for only if a token is set.
MayTrigger(token, header) == token = "" \/ (header.scheme \in {"Bearer", "bearer"} /\ header.token = token)

\* An agent has no schema, one that does not compile, or one that takes a set of
\* bodies.
NoFields == [kind |-> "object", fields |-> <<>>]
Body(raw) == IF raw.kind = "empty" THEN NoFields ELSE raw
Takes(agent, body) == agent.schema.kind = "none" \/ body \in agent.schema.takes

\* The status of the answer, and what is spawned with 200 (if that fails the
\* answer becomes a 500).
Trigger(agents, token, request, environ) ==
  LET Refused(status) == [status |-> status, spec |-> [ok |-> FALSE]]
      agent == ByName(agents)[request.name]
      body  == Body(request.body)
      spec  == BuildSpec(agent, body, environ)
  IN  IF ~MayTrigger(token, request.header) THEN Refused(401)
      ELSE IF request.name \notin DOMAIN ByName(agents) THEN Refused(404)
      ELSE IF request.body.kind = "no JSON" \/ ~Takes(agent, body) THEN Refused(400)
      ELSE IF ~spec.ok THEN Refused(500)
      ELSE [status |-> 200, spec |-> spec]

-----------------------------------------------------------------------------
(***************************************************************************)
(* What the launchers promise of agents, requests and environments.        *)
(***************************************************************************)

\* A launcher that started has every agent of its file, in that order, each under
\* a name of its own; and one file is good for both, or for neither, as far as
\* its names go.
EveryAgentIsThere(files) ==
  \A f \in files :
    /\ ApiExit(f) = 0 => /\ ListAgents(f.agents) = f.agents
                         /\ \A k \in DOMAIN f.agents : ByName(f.agents)[f.agents[k].name] = f.agents[k]
    /\ ~GoodNames(f.agents) => ApiExit(f) # 0 /\ ScheduleExit(f) # 0

\* Without the token that is set, no answer depends on what agents there are, on
\* the body or on the environment; and with it no agent is started that the
\* request does not name, or for a body its schema does not take.
OnlyWhatIsAsked(lists, requests, environs) ==
  \A agents \in lists : \A token \in Tokens \cup {""} : \A r \in requests : \A environ \in environs :
    LET answer == Trigger(agents, token, r, environ)
        unnamed == [r EXCEPT !.name = "", !.body = [kind |-> "empty"]]
    IN  /\ token # "" /\ r.header.token # token => answer = Trigger(<<>>, token, unnamed, <<>>)
        /\ answer.spec.ok =>
             \E k \in DOMAIN agents : /\ agents[k].name = r.name /\ Takes(agents[k], Body(r.body))
                                      /\ answer.spec = BuildSpec(agents[k], Body(r.body), environ)

\* What a caller writes reaches the child as it was written, also if it looks like
\* a reference: only variables the agent's configuration names have an influence.
CallersAreLiteral(agents, bodies, environs) ==
  \A a \in agents : \A b \in bodies :
    LET templates == ToSet(a.envTemplate) \cup ToSet(a.argTemplate)
        texts     == {a.env[v] : v \in DOMAIN a.env} \cup {e.to : e \in templates}
        named     == UNION {{t[k].of : k \in {j \in DOMAIN t : t[j].kind = "ref"}} : t \in texts}
        Only(environ) == [v \in named \cap DOMAIN environ |-> environ[v]]
    IN  \A environ \in environs :
          LET spec == BuildSpec(a, b, environ)
          IN  /\ spec = BuildSpec(a, b, Only(environ))
              /\ spec.ok => \A v \in ToSet(Applied(a.argTemplate, b)) :
                              Rendered(b.fields[v.field]) \in ToSet(spec.args)

\* The child has the configured arguments before the caller's, and each variable
\* it was configured with, which a caller changes only through a template; and a
\* scheduled run is a triggered one without a body.
ConfiguredAndTemplated(agents, bodies, environs) ==
  \A a \in agents : \A b \in bodies : \A environ \in environs :
    LET spec  == BuildSpec(a, b, environ)
        envs  == Applied(a.envTemplate, b)
        Latest(v) == {k \in DOMAIN envs : Resolved(envs[k].to, environ) = v
                                        /\ \A j \in k + 1 .. Len(envs) : Resolved(envs[j].to, environ) # v}
    IN  /\ spec.ok =>
             /\ IsPrefix(a.args, spec.args)
             /\ \A v \in DOMAIN spec.env :
                  \/ \E k \in Latest(v) : spec.env[v] = Rendered(b.fields[envs[k].field])
                  \/ Latest(v) = {} /\ v \in DOMAIN a.env /\ spec.env[v] = Resolved(a.env[v], environ)
             /\ DOMAIN a.env \subseteq DOMAIN spec.env
        /\ BuildSpec(a, [kind |-> "array"], environ) = ScheduledSpec(a, environ)
=============================================================================
