----------------------------- MODULE Configuration -----------------------------
(***************************************************************************)
(* What a deployment's files say, as functions: what the server takes of   *)
(* bae-config.toml and of its environment, what the wizard of              *)
(* `baectl setup` writes of the answers it got, what a second setup reads  *)
(* of that, and where `ready` and `run` look for the server.  Setup.tla    *)
(* has the order in which the files are written; this has their content.   *)
(*                                                                         *)
(* A value is a string that stands for a class of them.  Of a name only    *)
(* whether it is blank, and which names are the same; a key of a server or *)
(* provider is the variable it refers to; a port is its digits.            *)
(***************************************************************************)
EXTENDS SequencesExt

CONSTANTS
  Labels,   \* the names a registry's entry may have, blank ones among them
  KeyVars,  \* the environment variables that may hold a key
  Ports     \* the ports a server may listen on

Blank       == ""
DefaultPort == "8080"
MaxPort     == "3000"  \* and whatever begins with these digits

Unless(good, error) == IF good THEN "ok" ELSE error

\* What is checked in order ends at the first error.
FirstError(results) ==
  LET errors == SelectSeq(results, LAMBDA r : r # "ok") IN IF errors = <<>> THEN "ok" ELSE Head(errors)

-----------------------------------------------------------------------------
(* What the server takes.                                                  *)

\* One [[mcp.servers]] entry: a missing field is a blank one.
McpServers == [name : Labels, transport : {"stdio", "sse", "http"}, command : {Blank, "npx"},
               url : {Blank, "url"}, var : KeyVars \cup {Blank}]

\* One [[providers.entries]] entry.
Entries == [name : Labels, kind : {"anthropic", "openai"}, auth : KeyVars]

Telemetries == [enabled : BOOLEAN, endpoint : {Blank, "http", "other"},
                ratio : {"below", "within", "above", "nan"}, disabled : SUBSET {"known", "unknown"}]

Off == [enabled |-> FALSE, endpoint |-> Blank, ratio |-> "within", disabled |-> {}]

\* A file that is not there is one with nothing in it.
LoadConfig(there, config) == IF there THEN config ELSE [mcp |-> <<>>, providers |-> <<>>, telemetry |-> Off]

Earlier(entries, k) == {entries[j].name : j \in 1 .. k - 1}

McpRegistry(servers) ==
  FirstError([k \in DOMAIN servers |->
    LET s == servers[k]
    IN  FirstError(<<Unless(s.name # Blank, "EmptyName"),
                     Unless(Blank # IF s.transport = "stdio" THEN s.command ELSE s.url, "MissingField"),
                     Unless(s.name \notin Earlier(servers, k), "DuplicateServer")>>)])

ProviderRegistry(entries) ==
  FirstError([k \in DOMAIN entries |->
    FirstError(<<Unless(entries[k].name # Blank, "EmptyProviderName"),
                 Unless(entries[k].name \notin Earlier(entries, k), "DuplicateProvider")>>)])

TelemetryConfig(t) ==
  IF ~t.enabled THEN "ok"
  ELSE FirstError(<<Unless(t.endpoint # Blank, "MissingTelemetryEndpoint"),
                    Unless(t.endpoint = "http", "InvalidTelemetryEndpoint"),
                    Unless(t.ratio = "within", "InvalidTelemetrySampleRatio"),
                    Unless("unknown" \notin t.disabled, "UnknownTelemetryMetric")>>)

\* The variables the server parses, in its order, and the values they may have.
\* The bounds on subagents are of the same form as the timeouts.
ServerVars == <<"BAE_ADDR", "BAE_ADMIN_ADDR", "BAE_SHUTDOWN_TIMEOUT", "BAE_TURN_TIMEOUT",
                "BAE_SUBAGENT_TIMEOUT", "BAE_SANDBOX_DRIVER">>

Allowed(var) ==
  CASE var = "BAE_ADDR"           -> Ports
    [] var = "BAE_ADMIN_ADDR"     -> {"loopback"}
    [] var = "BAE_SANDBOX_DRIVER" -> {"docker", "apple-container"}
    [] OTHER                      -> {"seconds"}

\* Config::resolve: what is not set has a default, which is good.
EnvConfig(env) ==
  FirstError([k \in DOMAIN ServerVars |->
    Unless(ServerVars[k] \in DOMAIN env => env[ServerVars[k]] \in Allowed(ServerVars[k]), ServerVars[k])])

\* A driver that is of no use here is refused only if a profile has sandboxes.
DriverUsable(env, mac, sandboxes) ==
  "BAE_SANDBOX_DRIVER" \in DOMAIN env /\ env["BAE_SANDBOX_DRIVER"] = "apple-container" => mac \/ ~sandboxes

\* run_serve, up to the store.
StartError(env, config, mac, sandboxes) ==
  FirstError(<<EnvConfig(env), TelemetryConfig(config.telemetry), McpRegistry(config.mcp),
               ProviderRegistry(config.providers), Unless(DriverUsable(env, mac, sandboxes), "driver")>>)

ListensOn(env) == IF "BAE_ADDR" \in DOMAIN env THEN env["BAE_ADDR"] ELSE DefaultPort

Named(config, name) == SelectSeq(config.providers, LAMBDA p : p.name = name)

\* The providers a turn tries: none without the primary, and of the fallbacks
\* those there are.
Attempts(config, primary, fallbacks) ==
  IF Named(config, primary) = <<>> THEN <<>>
  ELSE Named(config, primary) \o FlattenSeq([k \in DOMAIN fallbacks |-> Named(config, fallbacks[k])])

\* A call's key: the variable has to be set by then.
KeyOf(p, env) == Unless(p.auth \in DOMAIN env, "MissingEnv")

-----------------------------------------------------------------------------
(* The wizard.  A question is asked until its answer is good, so what it   *)
(* returns is one of the good answers.                                     *)

FreeNames(entries, k) == Labels \ ({Blank} \cup Earlier(entries, k))

\* ask_providers: at least one.
AskedProviders(entries) ==
  entries # <<>> /\ \A k \in DOMAIN entries : entries[k].name \in FreeNames(entries, k)

\* The servers setup knows the commands and addresses of.
Preset(s) ==
  \/ s.transport = "stdio" /\ s.command = "npx" /\ s.url = Blank /\ s.var = Blank
  \/ s.transport = "http" /\ s.command = Blank /\ s.url = "url" /\ s.var = "GITHUB_TOKEN"

\* Any other: a command, or a URL and headers.
Custom(s) ==
  \/ s.transport = "stdio" /\ s.command # Blank /\ s.url = Blank /\ s.var = Blank
  \/ s.transport # "stdio" /\ s.command = Blank /\ s.url # Blank

AskedServers(servers) ==
  \A k \in DOMAIN servers : servers[k].name \in FreeNames(servers, k) /\ (Preset(servers[k]) \/ Custom(servers[k]))

\* The values a key's variable may get: the environment's own; else the one of
\* the earlier setup, if that is kept, or what is typed, which may be nothing.
CollectSecret(var, environ, prior, typed) ==
  IF environ[var] # Blank THEN {environ[var]}
  ELSE {typed[var]} \cup IF var \in DOMAIN prior THEN {prior[var]} ELSE {}

\* What there is after all the questions: the variables with a value.
Collected(vars, environ, prior, typed) ==
  LET Values(v) == CollectSecret(v, environ, prior, typed)
  IN  {[v \in {w \in vars : got[w] # Blank} |-> got[v]] :
         got \in {g \in [vars -> UNION {Values(v) : v \in vars}] : \A v \in vars : g[v] \in Values(v)}}

AskedVars(a) == {p.auth : p \in ToSet(a.providers)}

\* What is not the default is written.
AskedOverrides(overrides) ==
  /\ DOMAIN overrides \subseteq {"BAE_ADDR", "BAE_SHUTDOWN_TIMEOUT", "BAE_TURN_TIMEOUT", "BAE_SANDBOX_DRIVER"}
  /\ \A var \in DOMAIN overrides : overrides[var] \in Allowed(var)
  /\ "BAE_ADDR" \in DOMAIN overrides => overrides["BAE_ADDR"] # DefaultPort

\* What the wizard may return, of an environment, an earlier setup's secrets and
\* what is typed for them.
Wizard(a, environ, prior, typed) ==
  /\ AskedProviders(a.providers) /\ AskedServers(a.servers) /\ AskedOverrides(a.overrides)
  /\ a.secrets \in Collected(AskedVars(a), environ, prior, typed)

\* The keys that were asked for in vain, which setup warns of.
Unresolved(a) == AskedVars(a) \ DOMAIN a.secrets

\* --yes: the first provider whose variable is set, with its defaults.
YesAnswers(kind, auth, value) ==
  [variant |-> "standard", providers |-> <<[name |-> kind, kind |-> kind, auth |-> auth]>>, servers |-> <<>>,
   overrides |-> <<>>, secrets |-> [v \in {auth} |-> value]]

-----------------------------------------------------------------------------
(* The files.                                                              *)

\* Of two lines for a variable the later one counts.
Later(f, g) == [v \in DOMAIN f \cup DOMAIN g |-> IF v \in DOMAIN g THEN g[v] ELSE f[v]]

ConfigToml(a) == [mcp |-> a.servers, providers |-> a.providers, telemetry |-> Off]
EnvFile(a)    == Later(a.secrets, a.overrides)

\* docker-compose.yml and bae-setup.sh publish the port the server listens on
\* under the same number, or under BAE_ADDR_PORT's.
Launcher(a) == [variant |-> a.variant, port |-> ListensOn(a.overrides)]

Written(a) == [config |-> ConfigToml(a), env |-> EnvFile(a), launcher |-> Launcher(a)]

PublishedPort(files) ==
  IF "BAE_ADDR_PORT" \in DOMAIN files.env THEN files.env["BAE_ADDR_PORT"] ELSE files.launcher.port

\* parse_env_file: a variable of the server's is an override of it, but one.
ServersOwn(var) == var \in ToSet(ServerVars) \cup {"BAE_ADDR_PORT", "BAE_KEY"}

\* The variant is told by ":3000" in the launcher's text.
VariantRead(files) == IF files.launcher.port = MaxPort \/ files.launcher.variant = "max" THEN "max" ELSE "standard"

LoadPrefill(files) ==
  LET own == {v \in DOMAIN files.env : ServersOwn(v)}
  IN  [variant |-> VariantRead(files), providers |-> files.config.providers, servers |-> files.config.mcp,
       overrides |-> [v \in own |-> files.env[v]],
       secrets |-> [v \in DOMAIN files.env \ own |-> files.env[v]]]

\* A saved setup that is launched again polls the port of its BAE_ADDR.
PolledPort(prefill) == ListensOn(prefill.overrides)

-----------------------------------------------------------------------------
(* Where ready and run look for the server.                                *)

HostClientPort(files) ==
  IF "BAE_ADDR_PORT" \in DOMAIN files.env THEN files.env["BAE_ADDR_PORT"] ELSE DefaultPort

\* A local harness, or one in a Docker container, goes through the host; one of
\* Apple's containers to the server's own address.
ServerPort(files, local, apple) ==
  IF ~local /\ apple THEN ListensOn(files.env) ELSE HostClientPort(files)

\* The port that is behind what a harness is told.
Reachable(files, local, apple) ==
  IF ~local /\ apple THEN files.launcher.port ELSE PublishedPort(files)

\* load_registry: the variable of the primary provider's key.
ProviderKeyEnv(config, primary) == {Named(config, primary)[k].auth : k \in {1} \cap DOMAIN Named(config, primary)}

-----------------------------------------------------------------------------
(***************************************************************************)
(* What the files promise, of a set of answers.                            *)
(***************************************************************************)

\* The registries take a list if and only if all its names are there and
\* different and every server has what its transport needs; what telemetry would
\* need is looked at only if it is on.
RegistriesTakeTheSound(mcps, entries) ==
  LET Distinct(l) == \A j, k \in DOMAIN l : l[j].name # Blank /\ (l[j].name = l[k].name => j = k)
      Whole(s)    == IF s.transport = "stdio" THEN s.command # Blank ELSE s.url # Blank
      Good(t)     == t.endpoint = "http" /\ t.ratio = "within" /\ "unknown" \notin t.disabled
  IN  /\ \A t \in Telemetries : TelemetryConfig(t) = "ok" <=> (t.enabled => Good(t))
      /\ \A l \in mcps : McpRegistry(l) = "ok" <=> Distinct(l) /\ \A k \in DOMAIN l : Whole(l[k])
      /\ \A l \in entries : ProviderRegistry(l) = "ok" <=> Distinct(l)

\* The server starts with whatever setup wrote, or without a configuration, but
\* for a driver that is of no use on its machine.
SetupIsTaken(answers) ==
  \A a \in answers : \A there, mac, sandboxes \in BOOLEAN :
    StartError(EnvFile(a), LoadConfig(there, ConfigToml(a)), mac, sandboxes) = "ok"
      \/ ~DriverUsable(EnvFile(a), mac, sandboxes)

\* --yes writes what the wizard writes for someone who types nothing, and leaves
\* no key open.
YesIsAnAnswer(value) ==
  \A p \in Entries :
    p.name = p.kind =>
      LET a == YesAnswers(p.kind, p.auth, value)
      IN  /\ Wizard(a, [v \in KeyVars |-> IF v = p.auth THEN value ELSE Blank], <<>>, [v \in KeyVars |-> Blank])
          /\ Unresolved(a) = {}

\* A second setup reads what the first was told, and may write the same files
\* again, where no key is in a variable named like the server's own.
EditKeeps(answers) ==
  \A a \in answers :
    (\A v \in AskedVars(a) : ~ServersOwn(v)) =>
      LET prefill == LoadPrefill(Written(a))
          nothing == [v \in KeyVars |-> Blank]
      IN  /\ prefill.variant = a.variant \/ ListensOn(a.overrides) = MaxPort
          /\ prefill.providers = a.providers /\ prefill.servers = a.servers
          /\ prefill.overrides = a.overrides
          /\ Wizard(a, nothing, prefill.secrets, nothing)

\* The server is reached at the port a harness is told, and a launch waits at the
\* published one, unless setup was told another port than the usual and the
\* host's has not been named: only BAE_ADDR_PORT is looked for then.
ServerIsFound(answers) ==
  \A a \in answers : \A local, apple \in BOOLEAN :
    LET files  == Written(a)
        Remap(p) == [files EXCEPT !.env = Later(@, [v \in {"BAE_ADDR_PORT"} |-> p])]
    IN  /\ PolledPort(LoadPrefill(files)) = PublishedPort(files)
        /\ ListensOn(files.env) = files.launcher.port
        /\ ServerPort(files, local, apple) = Reachable(files, local, apple)
             \/ ("BAE_ADDR" \in DOMAIN a.overrides /\ ~(apple /\ ~local))
        /\ \A p \in Ports : ServerPort(Remap(p), local, apple) = Reachable(Remap(p), local, apple)

\* Every turn has a provider whose key is there, if the profile's primary one is
\* registered and setup warned of nothing; and ready asks for that key's variable.
KeysAreThere(answers) ==
  \A a \in answers : \A primary \in Labels :
    LET tried == Attempts(ConfigToml(a), primary, <<>>)
    IN  /\ tried = <<>> <=> primary \notin {p.name : p \in ToSet(a.providers)}
        /\ \A k \in DOMAIN tried :
             /\ KeyOf(tried[k], EnvFile(a)) = "ok" \/ tried[k].auth \in Unresolved(a)
             /\ ProviderKeyEnv(ConfigToml(a), primary) = {tried[k].auth}
=============================================================================
