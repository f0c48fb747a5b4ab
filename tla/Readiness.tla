------------------------------ MODULE Readiness ------------------------------
(***************************************************************************)
(* `baectl build`, `ready` and `run`: a harness built in a deployment's    *)
(* directory gets a profile that allows what it needs, and a client key,   *)
(* before it is started.  The checks read the server through its admin API *)
(* and mend it through the same API, call by call, while setup, another    *)
(* harness's run, or an operator does the same.                            *)
(***************************************************************************)
EXTENDS Setup

CONSTANTS
  Harnesses,    \* the builds, by id
  NameOf,       \* the name of each build's harness
  Needs,        \* what a build may need
  EngineOrder   \* the order in which an engine's file is looked for

ASSUME ReadinessAssumption ==
  /\ NameOf \in [Harnesses -> OtherNames] /\ Needs \in [Harnesses -> SUBSET SUBSET Tools]
  /\ EngineOrder \in [Engines -> Nat]
  /\ None \notin Names /\ (\A p \in Profiles : p # None) /\ \A t \in SUBSET Tools : t # None

VARIABLES
  requires,  \* manifest.json: what each harness needs, or None before its build
  resolved,  \* resolved.json: the profile and the key, or None
  job        \* the ready or run of each harness

vars == <<setupVars, requires, resolved, job>>

\* calm: no one else has changed the server since the job began.
\* overtaken: someone has changed the target since it was read.
\* provisioned: the job found resolved.json to hold a profile and a key that do.
NoJob == [pc |-> "idle", cmd |-> "ready", profile |-> None, fix |-> "none", base |-> {},
          key |-> None, calm |-> FALSE, overtaken |-> FALSE, provisioned |-> FALSE]

Cmds  == {"ready", "run", "no_ready"}
Stage == {"idle", "listed", "refresh", "put", "create", "key", "save", "start"}
Resolved == [profile : Profiles, key : 1 .. MaxKeys]

TypeOK ==
  /\ SetupTypeOK
  /\ requires \in [Harnesses -> {None} \cup SUBSET Tools]
  /\ resolved \in [Harnesses -> {None} \cup Resolved]
  /\ \A h \in Harnesses :
       /\ job[h] \in [pc : Stage, cmd : Cmds, profile : Profiles \cup {None},
                      fix : {"none", "update", "create"}, base : SUBSET Tools,
                      key : {None} \cup 1 .. MaxKeys,
                      calm : BOOLEAN, overtaken : BOOLEAN, provisioned : BOOLEAN]
       /\ job[h].pc \in {"save", "start"} => job[h].profile # None /\ job[h].key # None

Init ==
  /\ SetupInit
  /\ requires = [h \in Harnesses |-> None] /\ resolved = [h \in Harnesses |-> None]
  /\ job = [h \in Harnesses |-> NoJob]

-----------------------------------------------------------------------------
\* The histories of a job, at a step of someone else.
Seen(g) ==
  [job[g] EXCEPT
     !.calm = @ /\ admin' = admin,
     !.overtaken = @ \/ /\ job[g].fix = "update"
                        /\ tools'[job[g].profile] # tools[job[g].profile]]

\* The job of h goes on as j; and so it does with a change to the server.
Goes(h, j) == job' = [job EXCEPT ![h] = j]
Mends(h, j) == job' = [g \in Harnesses |-> IF g = h THEN j ELSE Seen(g)]

\* detect_engine: docker-compose.yml is looked for first.
Detected(e) == file[e] # None /\ \A o \in Engines : file[o] # None => EngineOrder[e] <= EngineOrder[o]

Fits(h, p) == requires[h] \subseteq tools[p]
Held(h)    == \E k \in keys : k.id = resolved[h].key /\ k.of = resolved[h].profile

\* Wrong on purpose: setup's choice goes before the harness's own.
WantedSetupFirst(h, e) ==
  (IF setupProfile # None THEN <<setupProfile>> ELSE <<>>)
    \o (IF resolved[h] # None /\ resolved[h].profile[1] = e THEN <<resolved[h].profile[2]>> ELSE <<>>)

\* The profiles a harness would rather have: its own, then setup's.
Wanted(h, e) ==
  (IF resolved[h] # None /\ resolved[h].profile[1] = e THEN <<resolved[h].profile[2]>> ELSE <<>>)
    \o (IF setupProfile # None THEN <<setupProfile>> ELSE <<>>)

\* The first wanted one that will do, or else the first created.
Pick(e, wanted, good) ==
  LET s == wanted \o rows[e]
  IN  s[CHOOSE i \in DOMAIN s : s[i] \in good /\ \A j \in 1 .. i - 1 : s[j] \notin good]

-----------------------------------------------------------------------------
\* A build drops what an earlier one resolved, first, and writes its manifest
\* last, unless it is cut.
Build(h) ==
  /\ job[h].pc = "idle" /\ resolved' = [resolved EXCEPT ![h] = None]
  /\ \/ \E t \in Needs[h] : requires' = [requires EXCEPT ![h] = t]
     \/ UNCHANGED requires
  /\ UNCHANGED <<setupVars, job>>

\* evaluate: a compatible profile, or a mend.  With no profile and no provider
\* in the configuration there is none, and the job is over.
ListProfiles(h, cmd) ==
  \E e \in Engines :
    LET fit  == {n \in Listed(e) : Fits(h, <<e, n>>)}
        job1 == [NoJob EXCEPT !.pc = "listed", !.cmd = cmd, !.calm = (cmd = "run"),
                     !.provisioned = /\ resolved[h] # None /\ resolved[h].profile[1] = e
                                     /\ resolved[h].profile[2] \in fit]
        On(n, fix) == [job1 EXCEPT !.profile = <<e, n>>, !.fix = fix,
                                     !.base = IF fix = "update" THEN tools[<<e, n>>] ELSE {}]
    IN  /\ job[h].pc = "idle" /\ requires[h] # None
        /\ Detected(e) /\ e \in up
        /\ \/ fit # {} /\ Goes(h, On(Pick(e, Wanted(h, e), fit), "none"))
           \/ /\ fit = {} /\ Listed(e) # {}
              /\ Goes(h, On(Pick(e, Wanted(h, e) \o <<Default>>, Listed(e)), "update"))
           \/ /\ Listed(e) = {} /\ file["config"] \in 1 .. MaxGen
              /\ Goes(h, On(NameOf[h], "create"))
        /\ UNCHANGED <<setupVars, requires, resolved>>

\* Wrong on purpose: the key's profile is not looked at.
ReusableAnywhere(h) ==
  resolved[h] # None /\ job[h].fix # "create" /\ \E k \in keys : k.id = resolved[h].key

\* key_reuse: the saved key, if it is of this profile and still there.
Reusable(h) ==
  resolved[h] # None /\ job[h].fix # "create" /\ resolved[h].profile = job[h].profile /\ Held(h)

\* The keys are listed; whatever else is missing ends the job here.
ListKeys(h) ==
  LET mends == [none |-> "key", update |-> "refresh", create |-> "create"]
      job1  == [job[h] EXCEPT !.provisioned = @ /\ Held(h),
                              !.key = IF Reusable(h) THEN resolved[h].key ELSE None]
  IN  /\ job[h].pc = "listed"
      /\ Goes(h, IF job[h].fix = "none" /\ Reusable(h) THEN [job1 EXCEPT !.pc = "save"]
                 ELSE [job1 EXCEPT !.pc = mends[job[h].fix]])
      /\ UNCHANGED <<setupVars, requires, resolved>>

Refreshed(h, base) ==
  /\ job[h].pc = "refresh"
  /\ Goes(h, [job[h] EXCEPT !.pc = "put", !.base = base, !.overtaken = FALSE])
  /\ UNCHANGED <<setupVars, requires, resolved>>

\* Wrong on purpose: the update is of the profile as it was listed first.
RefreshForNothing(h) == Refreshed(h, job[h].base)

\* The target is read again; if that fails, the profile is as it was listed.
Refresh(h) ==
  \/ job[h].pc = "refresh" /\ Exists(job[h].profile) /\ Refreshed(h, tools[job[h].profile])
  \/ /\ job[h].pc = "refresh" /\ Goes(h, [job[h] EXCEPT !.pc = "put"])
     /\ UNCHANGED <<setupVars, requires, resolved>>

\* The profile is mended: a key is next, or there is one.
Mended(h) == Mends(h, [job[h] EXCEPT !.pc = IF job[h].key = None THEN "key" ELSE "save",
                                     !.fix = "none", !.base = {}, !.overtaken = FALSE])

\* The update replaces the profile's lists by their union with the needs.
UpdateProfile(h) ==
  /\ job[h].pc = "put" /\ ReplaceProfile(job[h].profile, job[h].base \cup requires[h])
  /\ Mended(h) /\ UNCHANGED <<disk, setup, up, setupProfile, requires, resolved>>

\* A profile of the harness's name.
CreateHarnessProfile(h) ==
  /\ job[h].pc = "create" /\ CreateProfile(job[h].profile, requires[h])
  /\ Mended(h) /\ UNCHANGED <<disk, setup, up, setupProfile, requires, resolved>>

CreateHarnessKey(h) ==
  /\ job[h].pc = "key" /\ CreateKey(job[h].profile)
  /\ Mends(h, [job[h] EXCEPT !.pc = "save", !.key = issued'])
  /\ UNCHANGED <<disk, setup, up, setupProfile, requires, resolved>>

SaveResolved(h) ==
  /\ job[h].pc = "save"
  /\ resolved' = [resolved EXCEPT ![h] = [profile |-> job[h].profile, key |-> job[h].key]]
  /\ Goes(h, IF job[h].cmd = "run" THEN [job[h] EXCEPT !.pc = "start", !.provisioned = FALSE] ELSE NoJob)
  /\ UNCHANGED <<setupVars, requires>>

\* run --no-ready: what was resolved last, unchecked.
RunUnchecked(h) ==
  /\ job[h].pc = "idle" /\ requires[h] # None /\ resolved[h] # None
  /\ Goes(h, [NoJob EXCEPT !.pc = "start", !.cmd = "no_ready",
                           !.profile = resolved[h].profile, !.key = resolved[h].key])
  /\ UNCHANGED <<setupVars, requires, resolved>>

\* The harness is started with the key; a prior container of it is replaced.
StartHarness(h) ==
  /\ job[h].pc = "start" /\ Goes(h, NoJob)
  /\ UNCHANGED <<setupVars, requires, resolved>>

\* A check blocks, ready is not to mend or the operator declines, or a call
\* or the command fails or is interrupted.  resolved.json may be truncated then.
CutJob(h) ==
  /\ job[h].pc # "idle" /\ Goes(h, NoJob)
  /\ resolved' \in IF job[h].pc = "save" THEN {resolved, [resolved EXCEPT ![h] = None]} ELSE {resolved}
  /\ UNCHANGED <<setupVars, requires>>

JobNext(h) ==
  \/ Build(h) \/ (\E cmd \in Cmds \ {"no_ready"} : ListProfiles(h, cmd)) \/ ListKeys(h)
  \/ Refresh(h) \/ UpdateProfile(h) \/ CreateHarnessProfile(h) \/ CreateHarnessKey(h)
  \/ SaveResolved(h) \/ RunUnchecked(h) \/ StartHarness(h) \/ CutJob(h)

Next ==
  \/ \E h \in Harnesses : JobNext(h)
  \/ (SetupNext \/ OperatorNext) /\ UNCHANGED <<requires, resolved>>
       /\ job' = [g \in Harnesses |-> Seen(g)]

Spec == Init /\ [][Next]_vars

-----------------------------------------------------------------------------
(***************************************************************************)
(* What ready and run promise.                                             *)
(***************************************************************************)

\* An update that widens a profile takes nothing from it that another harness,
\* setup or an operator put there, unless they did between the update's own
\* reading of the profile and its writing.
WideningKeepsOthers ==
  [][\A h \in Harnesses :
       job[h].pc = "put" /\ job'[h].pc # "put" /\ ~job[h].overtaken
         => \A p \in Profiles : tools[p] \subseteq tools'[p]]_vars

\* A harness whose resolved profile still allows what it needs, and whose key
\* is still there, is run again without a change to the server: whatever other
\* profiles there are, and whichever setup chose since.
SecondRunChangesNothing ==
  \A h \in Harnesses : job[h].provisioned => job[h].pc \in {"idle", "listed", "save", "start"}

\* The key a checked run hands to its harness is live, and its profile allows
\* what the harness needs, unless someone changed the server during the run.
HandedKeyWorks ==
  \A h \in Harnesses :
    job[h].pc = "start" /\ job[h].cmd = "run" /\ job[h].calm
      => \E k \in keys : k.id = job[h].key /\ Exists(k.of) /\ Fits(h, k.of)
=============================================================================
