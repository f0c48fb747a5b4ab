-------------------------------- MODULE Builds --------------------------------
(***************************************************************************)
(* The directory of builds of `baectl build`, and the environment `baectl  *)
(* run` gives to what was built, as functions.  Readiness.tla has the      *)
(* order of their steps, with a build for each id; this has how an id is   *)
(* found, what a build leaves under it, and what a harness gets to see.    *)
(***************************************************************************)
EXTENDS Integers, FiniteSetsExt

CONSTANTS
  BuiltNames,  \* the harnesses' names
  MaxSuffix,   \* bound on the builds of one name, SDK and launcher
  EnvVars,     \* the variables of an environment
  Secrets      \* the values they may have, besides none

ASSUME BuildsAssumption == MaxSuffix \in Nat \ {0} /\ "" \notin Secrets

Sdks      == {"rust", "typescript"}
Launching == {"local", "api", "schedule"}

\* What a bae-harness.toml and the command line name.
Combos == [name : BuiltNames, sdk : Sdks, launcher : Launching]

\* name-sdk-launcher, and with -2, -3 and so on.
IdOf(combo, n) == <<combo.name, combo.sdk, combo.launcher, n>>
BuildIds       == BuiltNames \X Sdks \X Launching \X (1 .. MaxSuffix)

\* An entry: it is there; its manifest, if it has one that can be read; the other
\* files; resolved.json.
NoCombo == [name |-> "", sdk |-> "", launcher |-> ""]
Entry   == [there |-> TRUE, manifest |-> NoCombo, files |-> {}, resolved |-> FALSE]

ConfigFile(launcher) == IF launcher = "api" THEN "bae-api.toml" ELSE "bae-schedules.toml"
ContainerFiles == {"Dockerfile.build.generated", "Dockerfile", "bae-api.toml", "bae-schedules.toml"}

-----------------------------------------------------------------------------
(* The id of a build.                                                      *)

\* same_build_combo: what is compared is the manifest, not the id.
SameCombo(entry, combo) == entry.manifest = combo

Existing(dir, combo) == {id \in DOMAIN dir : dir[id].there /\ ~SameCombo(dir[id], combo)}

\* The first that is free, or holds this combination.
DeriveId(combo, existing) == IdOf(combo, Min({n \in 1 .. MaxSuffix : IdOf(combo, n) \notin existing}))

ResolveId(dir, combo, explicit) ==
  IF explicit # <<>> THEN explicit ELSE DeriveId(combo, Existing(dir, combo))

-----------------------------------------------------------------------------
(* What a build leaves.                                                    *)

\* A local build drops what one for a container left.
BuildLocal(files) == files \ ContainerFiles

\* The harness's image, from its own or a generated Dockerfile; then the
\* launcher's, from one that is always generated and the launcher's file.
\* done is how many of the steps succeed: the two images are the second and the
\* last.
BuildContainer(files, launcher, own, done) ==
  LET generated == "Dockerfile.build.generated"
      first == IF own THEN files \ {generated} ELSE files \cup {generated}
  IN  CASE done = 0 -> files
        [] done \in {1, 2} -> first
        [] done = 3 -> first \cup {"Dockerfile"}
        [] done \in {4, 5} -> first \cup {"Dockerfile", ConfigFile(launcher)}

AllSteps == 5

\* The entry is made, what was resolved is dropped, the manifest comes last.
BuildEntry(entry, combo, own, done) ==
  [there |-> TRUE, resolved |-> FALSE,
   files |-> IF combo.launcher = "local" THEN (IF done = 0 THEN entry.files ELSE BuildLocal(entry.files))
             ELSE BuildContainer(entry.files, combo.launcher, own, done),
   manifest |-> IF done = AllSteps THEN combo ELSE entry.manifest]

Built(dir, combo, explicit, own, done) ==
  LET id == ResolveId(dir, combo, explicit) IN [dir EXCEPT ![id] = BuildEntry(dir[id], combo, own, done)]

-----------------------------------------------------------------------------
(* The preparation of a local harness.  A time of 0 is that of no file.    *)

PrepareNeeded(npm, modules, lock, marker, toml) ==
  IF npm THEN modules = 0 \/ lock > modules ELSE marker = 0 \/ toml > marker

\* The times of modules and marker after it: npm's last step is a touch.
RunPrepare(npm, modules, now) == [modules |-> IF npm /\ modules # 0 THEN now ELSE modules, marker |-> now]

-----------------------------------------------------------------------------
(* The environment.  A file's line without a value is as good as none.     *)

Environments == UNION {[vars -> Secrets \cup {""}] : vars \in SUBSET EnvVars}
Has(env, var) == var \in DOMAIN env /\ env[var] # ""

Above(low, high) == [v \in DOMAIN low \cup DOMAIN high |-> IF v \in DOMAIN high THEN high[v] ELSE low[v]]

\* missing_env_vars: .env and the saved harness.env count for a container only.
MissingEnv(needed, environ, dotenv, saved, container) ==
  {v \in needed : ~Has(environ, v) /\ ~(container /\ (Has(dotenv, v) \/ Has(saved, v)))}

\* resolve_container_env: what .env does not have, from the environment, else
\* from what an earlier run saved, else from whom it can ask.
Captured(needed, environ, dotenv, saved) ==
  [v \in {w \in needed : ~Has(dotenv, w) /\ (Has(environ, w) \/ Has(saved, w))} |->
     IF Has(environ, v) THEN environ[v] ELSE saved[v]]

AskFor(needed, environ, dotenv, saved) ==
  {v \in needed : ~Has(dotenv, v)} \ DOMAIN Captured(needed, environ, dotenv, saved)

\* harness.env: what was captured, and then what run itself knows.  The name of
\* the provider's variable, which is there as well, is left out.
HarnessEnv(captured, url, key) ==
  Above(captured, [v \in {"BAE_SERVER_URL", "BAE_CLIENT_KEY"} |-> IF v = "BAE_CLIENT_KEY" THEN key ELSE url])

\* --env-file .env, and then --env-file harness.env.
ContainerEnv(dotenv, harnessEnv) == Above(dotenv, harnessEnv)

\* A local harness has run's environment.
LocalEnv(environ, url, key) == HarnessEnv(environ, url, key)

-----------------------------------------------------------------------------
(***************************************************************************)
(* What builds and runs promise.                                           *)
(***************************************************************************)

\* No build, failed or not, touches the entry of another name, SDK or launcher,
\* unless --id says so.
OtherBuildsStay(dirs) ==
  \A d \in dirs : \A c \in Combos : \A own \in BOOLEAN : \A done \in 0 .. AllSteps :
    \A id \in DOMAIN d :
      d[id].there /\ ~SameCombo(d[id], c) /\ (\E n \in 1 .. MaxSuffix : IdOf(c, n) \notin Existing(d, c))
        => Built(d, c, <<>>, own, done)[id] = d[id]

\* The ids of a combination are used in their order.
Dense(d) ==
  \A c \in Combos : \A n \in 1 .. MaxSuffix : SameCombo(d[IdOf(c, n)], c)
    => \A m \in 1 .. n - 1 : d[IdOf(c, m)].there /\ ~SameCombo(d[IdOf(c, m)], c)

\* A second build of the same goes where the first went, however many builds of
\* it failed before, if nothing is deleted and no --id is given.
RebuildsInPlace(dirs) ==
  \A d \in dirs : Dense(d) =>
    \A c \in Combos : \A n \in 1 .. MaxSuffix :
      /\ SameCombo(d[IdOf(c, n)], c) => ResolveId(d, c, <<>>) = IdOf(c, n)
      /\ (\E m \in 1 .. MaxSuffix : IdOf(c, m) \notin Existing(d, c))
           => \A done \in 0 .. AllSteps : Dense(Built(d, c, <<>>, TRUE, done))

\* A build has the files its launcher is built from, whatever was under its id.
FilesFit ==
  \A files \in SUBSET ContainerFiles : \A c \in Combos : \A own \in BOOLEAN :
    LET after == BuildEntry([Entry EXCEPT !.files = files], c, own, AllSteps).files
    IN  /\ c.launcher # "local" => {"Dockerfile", ConfigFile(c.launcher)} \subseteq after
        /\ c.launcher = "local" => after = {}
        /\ own => "Dockerfile.build.generated" \notin after

\* A preparation that succeeded is not done again, until the file it depends on
\* changes; one that failed is, but npm's, which may have made its directory.
PreparedOnce(times) ==
  \A npm \in BOOLEAN : \A modules, lock, marker, toml, now \in times :
    now >= lock /\ now >= toml /\ now > 0 /\ (npm => modules > 0) =>
      LET w == RunPrepare(npm, modules, now)
      IN  /\ ~PrepareNeeded(npm, w.modules, lock, w.marker, toml)
          /\ \A later \in times : later > now =>
               PrepareNeeded(npm, w.modules, IF npm THEN later ELSE lock, w.marker, IF npm THEN toml ELSE later)

\* ready finds a variable missing if and only if run has to ask for it.
ReadyMeansRunnable(needs, envs) ==
  \A needed \in needs : \A environ, dotenv, saved \in envs :
    MissingEnv(needed, environ, dotenv, saved, TRUE) = AskFor(needed, environ, dotenv, saved)

\* A harness's container has every variable it needs, and the key and the server
\* run resolved, whatever .env says; and so it has in the next run, without the
\* environment of the first.
HarnessSees(needs, envs, url, key) ==
  \A needed \in needs : \A environ, dotenv, saved \in envs :
    AskFor(needed, environ, dotenv, saved) = {} =>
      LET first  == HarnessEnv(Captured(needed, environ, dotenv, saved), url, key)
          second == HarnessEnv(Captured(needed, <<>>, dotenv, first), url, key)
          seen   == ContainerEnv(dotenv, first)
      IN  /\ \A v \in needed : Has(seen, v)
          /\ seen["BAE_CLIENT_KEY"] = key /\ seen["BAE_SERVER_URL"] = url
          /\ AskFor(needed, <<>>, dotenv, first) = {} /\ ContainerEnv(dotenv, second) = seen
=============================================================================
