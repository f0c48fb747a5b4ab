-------------------------------- MODULE Setup --------------------------------
(***************************************************************************)
(* `baectl setup`: it writes a deployment's files one after the other, in  *)
(* place, launches the server with them, and through the server's admin    *)
(* API makes a profile and a client key.  What it does in a directory with *)
(* files depends on which of them are there.  A run may be cut short, or   *)
(* fail, before any of its steps.                                          *)
(*                                                                         *)
(* The admin API's profiles are here, too: a profile's name is its         *)
(* identity, since a name is used once, by a deleted profile as well.      *)
(***************************************************************************)
EXTENDS Integers, FiniteSets, SequencesExt

CONSTANTS
  Engines,      \* the launchers: docker-compose.yml, bae-setup.sh
  Default,      \* the name "default"
  OtherNames,   \* further names of profiles
  Tools,        \* what a profile allows: tools, MCP servers, sandboxes
  None,
  MaxGen,       \* bound on the sets of files written
  MaxKeys       \* bound on the client keys ever made

ASSUME SetupAssumption ==
  /\ MaxGen \in Nat /\ MaxKeys \in Nat
  /\ Default \notin OtherNames /\ None \notin Nat
  /\ Engines \cap {"config", "env"} = {} /\ IsFiniteSet(Engines)

VARIABLES
  file,         \* each file: None, Torn, or the number of its set
  gen,          \* the sets of files begun
  overwriting,  \* history: a full set is being replaced, or its replacement was cut
  setup,        \* the run of setup
  up,           \* the engines that run a server
  rows,         \* of each engine's server: the profiles' names, as created
  gone,         \* those deleted
  tools,        \* what each profile allows
  keys,         \* the live client keys: id, profile, and the profile's server
  issued,       \* the keys made so far
  setupProfile  \* .baectl/setup.json: the profile of the last setup

disk  == <<file, gen, overwriting>>
admin == <<rows, gone, tools, keys, issued>>
setupVars == <<disk, setup, up, admin, setupProfile>>

Names    == {Default} \cup OtherNames
Files    == {"config", "env"} \cup Engines
Torn     == 0
Content  == {None} \cup 0 .. MaxGen
Profiles == Engines \X Names
Keys     == [id : 1 .. MaxKeys, of : Profiles]

Idle  == [pc |-> "idle", engine |-> None, yes |-> FALSE, fresh |-> FALSE,
          at |-> 1, name |-> None, issue |-> FALSE]
Steps == {"idle", "open", "write", "remove", "launch", "list", "create", "update", "save", "key"}

SetupTypeOK ==
  /\ file \in [Files -> Content] /\ gen \in 0 .. MaxGen /\ overwriting \in BOOLEAN
  /\ setup \in [pc : Steps, engine : Engines \cup {None}, yes : BOOLEAN, fresh : BOOLEAN,
                at : 1 .. 3, name : Names \cup {None}, issue : BOOLEAN]
  /\ up \subseteq Engines
  /\ rows \in [Engines -> Seq(Names)] /\ \A e \in Engines : IsInjective(rows[e])
  /\ gone \subseteq Profiles /\ tools \in [Profiles -> SUBSET Tools]
  /\ keys \subseteq Keys /\ issued \in 0 .. MaxKeys
  /\ \A k \in keys : k.id <= issued /\ \A j \in keys : j.id = k.id => j = k
  /\ setupProfile \in Names \cup {None}

SetupInit ==
  /\ file = [f \in Files |-> None] /\ gen = 0 /\ overwriting = FALSE
  /\ setup = Idle /\ up = {}
  /\ rows = [e \in Engines |-> <<>>] /\ gone = {} /\ tools = [p \in Profiles |-> {}]
  /\ keys = {} /\ issued = 0 /\ setupProfile = None

-----------------------------------------------------------------------------
(* The admin API.  A call that is refused changes nothing.                 *)

Exists(p) == p[2] \in ToSet(rows[p[1]]) /\ p \notin gone
Listed(e) == {n \in ToSet(rows[e]) : <<e, n>> \notin gone}
KeysOf(p) == {k \in keys : k.of = p}

CreateProfile(p, allowed) ==
  /\ p[2] \notin ToSet(rows[p[1]])
  /\ rows' = [rows EXCEPT ![p[1]] = Append(@, p[2])] /\ tools' = [tools EXCEPT ![p] = allowed]
  /\ UNCHANGED <<gone, keys, issued>>

\* A full replacement of the profile's lists.
ReplaceProfile(p, allowed) ==
  /\ Exists(p) /\ tools' = [tools EXCEPT ![p] = allowed]
  /\ UNCHANGED <<rows, gone, keys, issued>>

DeleteProfile(p) ==
  /\ Exists(p) /\ KeysOf(p) = {} /\ gone' = gone \cup {p}
  /\ tools' = [tools EXCEPT ![p] = {}] /\ UNCHANGED <<rows, keys, issued>>

CreateKey(p) ==
  /\ Exists(p) /\ issued < MaxKeys /\ issued' = issued + 1
  /\ keys' = keys \cup {[id |-> issued', of |-> p]}
  /\ UNCHANGED <<rows, gone, tools>>

RevokeKey(k) ==
  /\ k \in keys /\ keys' = keys \ {k} /\ UNCHANGED <<rows, gone, tools, issued>>

-----------------------------------------------------------------------------
(* The files.                                                              *)

\* Wrong on purpose: the launcher first.
FilesLauncherFirst(e) == <<e, "config", "env">>

\* write_all_files' order.
FilesOf(e)   == <<"config", "env", e>>
Present(e)   == {f \in ToSet(FilesOf(e)) : file[f] # None}
Complete(e)  == Present(e) = ToSet(FilesOf(e))
OthersOf(e)  == Engines \ {e}
Mismatch(e)  == \E o \in OthersOf(e) : file[o] # None

\* The answers of the wizard, or the prefill's under --yes, are a new set.
BeginWriting(e, yes) ==
  /\ gen < MaxGen /\ gen' = gen + 1
  /\ setup' = [Idle EXCEPT !.pc = "open", !.engine = e, !.yes = yes, !.fresh = TRUE]
  /\ overwriting' = (overwriting \/ \E o \in Engines : Complete(o))
  /\ UNCHANGED <<file, up, admin, setupProfile>>

\* Nothing is there.
Fresh(e, yes) ==
  /\ setup.pc = "idle" /\ ~Mismatch(e) /\ Present(e) = {} /\ BeginWriting(e, yes)

\* The other launcher's file, or a part of the files: written anew if the
\* operator agrees, which --yes does not.
HandlePartial(e) ==
  /\ setup.pc = "idle" /\ (Mismatch(e) \/ (Present(e) # {} /\ ~Complete(e)))
  /\ BeginWriting(e, FALSE)

\* A saved setup, to be launched as it is.
HandleExisting(e) ==
  /\ setup.pc = "idle" /\ ~Mismatch(e) /\ Complete(e)
  /\ setup' = [Idle EXCEPT !.pc = "launch", !.engine = e]
  /\ UNCHANGED <<disk, up, admin, setupProfile>>

EditExisting(e) ==
  /\ setup.pc = "idle" /\ ~Mismatch(e) /\ Complete(e) /\ BeginWriting(e, FALSE)

\* write_file: the file is truncated, then written.
OpenFile ==
  /\ setup.pc = "open" /\ file' = [file EXCEPT ![FilesOf(setup.engine)[setup.at]] = Torn]
  /\ setup' = [setup EXCEPT !.pc = "write"]
  /\ UNCHANGED <<gen, overwriting, up, admin, setupProfile>>

WriteFile ==
  /\ setup.pc = "write" /\ file' = [file EXCEPT ![FilesOf(setup.engine)[setup.at]] = gen]
  /\ setup' = IF setup.at = 3 THEN [setup EXCEPT !.pc = "remove", !.at = 1]
                              ELSE [setup EXCEPT !.pc = "open", !.at = @ + 1]
  /\ UNCHANGED <<gen, overwriting, up, admin, setupProfile>>

RemoveOther ==
  /\ setup.pc = "remove" /\ setup' = [setup EXCEPT !.pc = "launch"]
  /\ file' = [f \in Files |-> IF f \in OthersOf(setup.engine) THEN None ELSE file[f]]
  /\ overwriting' = FALSE
  /\ UNCHANGED <<gen, up, admin, setupProfile>>

-----------------------------------------------------------------------------
(* finish, and the first profile and key.                                  *)

\* The server is up and healthy.  Only a run that wrote the files goes on.
Launch ==
  /\ setup.pc = "launch" /\ file[setup.engine] # Torn /\ up' = up \cup {setup.engine}
  /\ setup' = IF setup.fresh THEN [setup EXCEPT !.pc = "list"] ELSE Idle
  /\ UNCHANGED <<disk, admin, setupProfile>>

Choose(pc, name, issue) == [setup EXCEPT !.pc = pc, !.name = name, !.issue = issue]

\* resolve_setup_profile: a default profile there is is kept, with a new key or
\* not, or replaced, or left alone for a name that is not listed.
ResolveProfile ==
  LET listed == Listed(setup.engine)
  IN  /\ setup.pc = "list"
      /\ \/ Default \notin listed /\ setup' = Choose("create", Default, TRUE)
         \/ Default \in listed /\ setup' = Choose("save", Default, TRUE)
         \/ /\ Default \in listed /\ ~setup.yes
            /\ \/ setup' = Choose("save", Default, FALSE)
               \/ \E issue \in BOOLEAN : setup' = Choose("update", Default, issue)
               \/ \E n \in Names \ listed : setup' = Choose("create", n, TRUE)
      /\ UNCHANGED <<disk, up, admin, setupProfile>>

Chosen == <<setup.engine, setup.name>>

CreateSetupProfile ==
  /\ setup.pc = "create" /\ CreateProfile(Chosen, {}) /\ setup' = [setup EXCEPT !.pc = "save"]
  /\ UNCHANGED <<disk, up, setupProfile>>

ReplaceSetupProfile ==
  /\ setup.pc = "update" /\ ReplaceProfile(Chosen, {}) /\ setup' = [setup EXCEPT !.pc = "save"]
  /\ UNCHANGED <<disk, up, setupProfile>>

SaveSetupProfile ==
  /\ setup.pc = "save" /\ setupProfile' = setup.name
  /\ setup' = IF setup.issue THEN [setup EXCEPT !.pc = "key"] ELSE Idle
  /\ UNCHANGED <<disk, up, admin>>

IssueSetupKey ==
  /\ setup.pc = "key" /\ CreateKey(Chosen) /\ setup' = Idle
  /\ UNCHANGED <<disk, up, setupProfile>>

\* The operator declines or interrupts the run, the launch or a call fails.
\* setup.json may be truncated then.
CutSetup ==
  /\ setup.pc # "idle" /\ setup' = Idle
  /\ setupProfile' \in IF setup.pc = "save" THEN {setupProfile, None} ELSE {setupProfile}
  /\ UNCHANGED <<disk, up, admin>>

SetupNext ==
  \/ \E e \in Engines : HandlePartial(e) \/ HandleExisting(e) \/ EditExisting(e)
                        \/ \E yes \in BOOLEAN : Fresh(e, yes)
  \/ OpenFile \/ WriteFile \/ RemoveOther \/ Launch
  \/ ResolveProfile \/ CreateSetupProfile \/ ReplaceSetupProfile \/ SaveSetupProfile
  \/ IssueSetupKey \/ CutSetup

\* An operator uses baectl by hand, in a server that runs.
OperatorNext ==
  /\ up # {}
  /\ \/ \E p \in Profiles : \/ DeleteProfile(p) \/ CreateKey(p)
                           \/ \E t \in SUBSET Tools : CreateProfile(p, t) \/ ReplaceProfile(p, t)
     \/ \E k \in keys : RevokeKey(k)
  /\ UNCHANGED <<disk, setup, up, setupProfile>>

-----------------------------------------------------------------------------
(***************************************************************************)
(* What setup promises.                                                    *)
(***************************************************************************)

\* A setup that was cut is never taken for a saved one: where the three files
\* are there, the configuration and the environment are whole and of one set,
\* unless they replace such a set, and that was cut.
SavedIsWhole ==
  \A e \in Engines : ~Mismatch(e) /\ Complete(e) /\ ~overwriting =>
     file["config"] # Torn /\ file["config"] = file["env"]
=============================================================================
