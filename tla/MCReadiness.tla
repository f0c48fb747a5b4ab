----------------------------- MODULE MCReadiness -----------------------------
EXTENDS Readiness, Configuration, Builds, TLC

CONSTANTS compose, n, t1

ComposeFirst == [e \in Engines |-> IF e = compose THEN 1 ELSE 2]
OneName      == [h \in Harnesses |-> n]
NeedsOne     == [h \in Harnesses |-> {{t1}}]

\* The bound on rewrites: the files are written anew while no client key has
\* been made.
KeylessRewrites == gen < 2 \/ issued = 0

-----------------------------------------------------------------------------
(* The functions of Configuration and Builds, over all answers, directories *)
(* and environments of a small size; TLC evaluates what is assumed.         *)

FunctionsFrom(S, T) == UNION {[D -> T] : D \in SUBSET S}

\* Up to two providers and one MCP server, everything the wizard may return.
SmallAnswers ==
  {a \in [variant   : {"standard", "max"},
          providers : {l \in BoundedSeq(Entries, 2) : AskedProviders(l)},
          servers   : {l \in BoundedSeq(McpServers, 1) : AskedServers(l)},
          overrides : {f \in FunctionsFrom({"BAE_ADDR", "BAE_SANDBOX_DRIVER"}, Ports \cup {"apple-container"}) :
                         AskedOverrides(f)},
          secrets   : FunctionsFrom(KeyVars, {"key"})] : DOMAIN a.secrets \subseteq AskedVars(a)}

\* RegistriesTakeTheSound: over lists of two entries.
ASSUME RegistriesAgree == RegistriesTakeTheSound(BoundedSeq(McpServers, 2), BoundedSeq(Entries, 2))

\* SetupIsTaken, EditKeeps, ServerIsFound, KeysAreThere: over the small answers.
ASSUME AnswersAgree ==
  LET answers == SmallAnswers
  IN  SetupIsTaken(answers) /\ EditKeeps(answers) /\ ServerIsFound(answers) /\ KeysAreThere(answers)

\* YesIsAnAnswer: for each provider --yes knows.
ASSUME YesAgrees == YesIsAnAnswer("key")

\* Builds of one harness for a container and locally: up to MaxSuffix of each are
\* there, with or without a manifest, and may be of either.
SmallDirectories ==
  LET combos == {[name |-> m, sdk |-> "rust", launcher |-> l] : m \in BuiltNames, l \in {"api", "local"}}
      ids    == {IdOf(c, k) : c \in combos, k \in 1 .. MaxSuffix}
      none   == [Entry EXCEPT !.there = FALSE]
      some   == {none, Entry} \cup {[Entry EXCEPT !.manifest = c, !.resolved = TRUE] : c \in combos}
  IN  {[id \in BuildIds |-> IF id \in ids THEN d[id] ELSE none] : d \in [ids -> some]}

\* OtherBuildsStay, RebuildsInPlace, FilesFit.
ASSUME DirectoriesAgree ==
  LET dirs == SmallDirectories IN OtherBuildsStay(dirs) /\ RebuildsInPlace(dirs) /\ FilesFit

\* PreparedOnce: over four points in time.
ASSUME TimesAgree == PreparedOnce(0 .. 3)

\* ReadyMeansRunnable, HarnessSees: over all environments of EnvVars.
ASSUME EnvironmentsAgree ==
  /\ ReadyMeansRunnable(SUBSET EnvVars, Environments)
  /\ HarnessSees(SUBSET EnvVars, Environments, "url", "key")
=============================================================================
