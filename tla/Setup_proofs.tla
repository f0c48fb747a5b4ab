----------------------------- MODULE Setup_proofs -----------------------------
(***************************************************************************)
(* What setup takes for a saved setup is one, for any launchers, answers,  *)
(* number of runs, and cuts between their steps.                           *)
(*                                                                         *)
(* The order of the files is the argument: the launcher's is the last, so  *)
(* where one is, the other two are.  A run therefore either replaces a set *)
(* it counts as full, or starts where no launcher's file is, and makes one *)
(* only with the other two whole.                                          *)
(*                                                                         *)
(* The jobs of ready and run come second: what they hand to a harness, and *)
(* what they leave of the profiles of others.  The launcher that a set of  *)
(* files is for comes third: it runs one invocation of an agent at a time, *)
(* and its consumer gets the whole output of the child.  At the end are    *)
(* the functions of Builds: the directory of builds and the environments.  *)
(***************************************************************************)
EXTENDS Readiness, Builds, Launchers, Induction, SequenceTheorems

Writing  == setup.pc \in {"open", "write"}
Launched == \E e \in Engines : file[e] # None

FileTypes ==
  /\ file \in [Files -> Content] /\ gen \in 0 .. MaxGen /\ overwriting \in BOOLEAN
  /\ setup.pc \in Steps
  /\ Writing \/ setup.pc = "remove" => gen >= 1 /\ setup.engine \in Engines
  /\ Writing => setup.at \in 1 .. 3

\* How far the run has got shows in the files.
Progress ==
  /\ Writing /\ setup.at >= 2 => file["config"] = gen
  /\ Writing /\ setup.at = 3 => file["env"] = gen
  /\ setup.pc = "remove" => file["config"] = gen /\ file["env"] = gen

LauncherLast == Launched => file["config"] # None /\ file["env"] # None

Whole ==
  ~overwriting =>
    /\ Writing /\ setup.at <= 2 => ~Launched
    /\ Launched => file["config"] = file["env"] /\ file["config"] # Torn

Inv == FileTypes /\ Progress /\ LauncherLast /\ Whole

LEMMA CompleteMeans ==
  ASSUME NEW e \in Engines
  PROVE  Complete(e) <=> file["config"] # None /\ file["env"] # None /\ file[e] # None
<1>1. ToSet(FilesOf(e)) = {"config", "env", e}
  <2>1. FilesOf(e) \in Seq({"config", "env", e}) /\ Len(FilesOf(e)) = 3
        /\ FilesOf(e)[1] = "config" /\ FilesOf(e)[2] = "env" /\ FilesOf(e)[3] = e
    BY DEF FilesOf
  <2>2. DOMAIN FilesOf(e) = 1 .. 3 BY <2>1
  <2> QED BY <2>1, <2>2 DEF ToSet
<1> QED BY <1>1 DEF Complete, Present

LEMMA InitInv == SetupInit => Inv
<1> SUFFICES ASSUME SetupInit PROVE Inv
  OBVIOUS
<1>1. setup.pc = "idle" /\ ~Writing BY DEF SetupInit, Idle, Writing
<1>2. ~Launched BY DEF SetupInit, Launched, Files
<1>3. FileTypes
  <2>1. file \in [Files -> Content] BY DEF SetupInit, Content
  <2>2. MaxGen \in Nat /\ gen = 0 BY SetupAssumption DEF SetupInit
  <2>3. gen \in 0 .. MaxGen BY <2>2
  <2>4. overwriting \in BOOLEAN BY DEF SetupInit
  <2>5. setup.pc \in Steps /\ setup.pc # "remove" BY <1>1 DEF Steps
  <2> QED BY <1>1, <2>1, <2>3, <2>4, <2>5 DEF FileTypes
<1>4. Progress /\ LauncherLast /\ Whole BY <1>1, <1>2 DEF Progress, LauncherLast, Whole
<1> QED BY <1>3, <1>4 DEF Inv

LEMMA BeginKeepsInv ==
  ASSUME Inv, NEW e \in Engines, NEW yes \in BOOLEAN, BeginWriting(e, yes) PROVE Inv'
<1>1. /\ setup'.pc = "open" /\ setup'.engine = e /\ setup'.at = 1
      /\ gen' = gen + 1 /\ gen' \in 1 .. MaxGen /\ UNCHANGED file
      /\ overwriting' = (overwriting \/ \E o \in Engines : Complete(o))
  BY SetupAssumption DEF BeginWriting, Idle, Inv, FileTypes
<1>2. Launched => \E o \in Engines : Complete(o)
  BY CompleteMeans DEF Inv, LauncherLast, Launched
<1>3. ~overwriting' => ~overwriting /\ ~Launched
  BY <1>1, <1>2 DEF Inv, FileTypes
<1>4. FileTypes' BY <1>1, SetupAssumption DEF Inv, FileTypes, Writing, Steps
<1>5. Progress' BY <1>1 DEF Progress, Writing
<1>6. LauncherLast' BY <1>1 DEF Inv, LauncherLast, Launched
<1>7. Whole' BY <1>1, <1>3 DEF Whole, Launched
<1> QED BY <1>4, <1>5, <1>6, <1>7 DEF Inv

\* A step that is none of the files' keeps or ends the run.
LEMMA StillKeepsInv ==
  ASSUME Inv, UNCHANGED disk, setup'.pc \in Steps,
         UNCHANGED setup \/ (~Writing' /\ setup'.pc # "remove")
  PROVE  Inv'
<1> USE DEF Inv, disk, Writing, Launched
<1>1. FileTypes' BY DEF FileTypes
<1>2. Progress' BY DEF Progress
<1>3. LauncherLast' BY DEF LauncherLast
<1>4. Whole' BY DEF Whole
<1> QED BY <1>1, <1>2, <1>3, <1>4

\* The file of the run's place.
LEMMA Place ==
  ASSUME FileTypes, Writing
  PROVE  LET f == FilesOf(setup.engine)[setup.at]
         IN  /\ f \in Files
             /\ setup.at = 1 => f = "config"
             /\ setup.at = 2 => f = "env"
             /\ setup.at = 3 => f = setup.engine
BY DEF FileTypes, FilesOf, Files

LEMMA OpenKeepsInv == ASSUME Inv, OpenFile PROVE Inv'
<1> DEFINE f == FilesOf(setup.engine)[setup.at]
<1>1. /\ f \in Files /\ setup.at \in 1 .. 3 /\ setup.engine \in Engines
      /\ setup.at = 1 => f = "config"
      /\ setup.at = 2 => f = "env"
      /\ setup.at = 3 => f = setup.engine
  BY Place DEF OpenFile, Inv, FileTypes, Writing
<1>2. /\ setup.pc = "open" /\ file' = [file EXCEPT ![f] = Torn]
      /\ setup'.pc = "write" /\ setup'.at = setup.at /\ setup'.engine = setup.engine
      /\ UNCHANGED <<gen, overwriting>>
  BY DEF OpenFile, Inv, FileTypes
<1> HIDE DEF f
<1>3. file \in [Files -> Content] /\ "config" \in Files /\ "env" \in Files /\ Engines \subseteq Files
      /\ "config" \notin Engines /\ "env" \notin Engines /\ Torn \in Content /\ Torn # None
  BY SetupAssumption DEF Inv, FileTypes, Files, Torn, Content
<1>4. FileTypes' BY <1>1, <1>2, <1>3 DEF Inv, FileTypes, Writing, Steps
<1>5. Progress' BY <1>1, <1>2, <1>3 DEF Inv, Progress, Writing
<1>6. LauncherLast'
  <2>1. Launched' => setup.at = 3 \/ Launched BY <1>1, <1>2, <1>3 DEF Launched
  <2>2. setup.at = 3 => file["config"] = gen /\ file["env"] = gen /\ gen # None
    BY <1>2, SetupAssumption DEF Inv, Progress, Writing, FileTypes
  <2> QED BY <1>1, <1>2, <1>3, <2>1, <2>2 DEF Inv, LauncherLast
<1>7. Whole'
  <2> SUFFICES ASSUME ~overwriting PROVE Whole'
    BY <1>2 DEF Whole
  <2>1. CASE setup.at \in {1, 2}
    <3>1. ~Launched BY <1>2, <2>1 DEF Inv, Whole, Writing
    <3>2. ~Launched' BY <1>1, <1>2, <1>3, <2>1, <3>1 DEF Launched
    <3> QED BY <3>2 DEF Whole
  <2>2. CASE setup.at = 3
    <3>1. file["config"] = gen /\ file["env"] = gen /\ gen >= 1 /\ gen \in Nat
      BY <1>2, <2>2 DEF Inv, Progress, Writing, FileTypes
    <3> QED BY <1>1, <1>2, <1>3, <2>2, <3>1 DEF Whole, Torn
  <2> QED BY <1>1, <2>1, <2>2
<1> QED BY <1>4, <1>5, <1>6, <1>7 DEF Inv

LEMMA WriteKeepsInv == ASSUME Inv, WriteFile PROVE Inv'
<1> DEFINE f == FilesOf(setup.engine)[setup.at]
<1>1. /\ f \in Files /\ setup.at \in 1 .. 3 /\ setup.engine \in Engines
      /\ setup.at = 1 => f = "config"
      /\ setup.at = 2 => f = "env"
      /\ setup.at = 3 => f = setup.engine
  BY Place DEF WriteFile, Inv, FileTypes, Writing
<1>2. /\ setup.pc = "write" /\ file' = [file EXCEPT ![f] = gen] /\ UNCHANGED <<gen, overwriting>>
      /\ gen \in 1 .. MaxGen
  BY SetupAssumption DEF WriteFile, Inv, FileTypes, Writing
<1>3. setup' = IF setup.at = 3 THEN [setup EXCEPT !.pc = "remove", !.at = 1]
                               ELSE [setup EXCEPT !.pc = "open", !.at = @ + 1]
  BY DEF WriteFile
<1> HIDE DEF f
<1>4. file \in [Files -> Content] /\ "config" \in Files /\ "env" \in Files /\ Engines \subseteq Files
      /\ "config" \notin Engines /\ "env" \notin Engines /\ gen \in Content /\ gen # None /\ gen # Torn
  BY <1>2, SetupAssumption DEF Inv, FileTypes, Files, Torn, Content
<1>5. CASE setup.at = 3
  <2>1. /\ setup'.pc = "remove" /\ ~Writing' /\ setup'.engine = setup.engine
        /\ file["config"] = gen /\ file["env"] = gen
        /\ file'["config"] = gen /\ file'["env"] = gen
    BY <1>1, <1>2, <1>3, <1>4, <1>5 DEF Inv, Progress, Writing
  <2>2. FileTypes' BY <1>1, <1>2, <1>4, <2>1 DEF Inv, FileTypes, Writing, Steps
  <2>3. Progress' /\ LauncherLast' /\ Whole'
    BY <1>2, <1>4, <2>1 DEF Progress, LauncherLast, Whole, Writing
  <2> QED BY <2>2, <2>3 DEF Inv
<1>6. CASE setup.at \in {1, 2}
  <2>1. setup'.pc = "open" /\ Writing' /\ setup'.engine = setup.engine /\ setup'.at = setup.at + 1
    BY <1>1, <1>3, <1>6 DEF Writing
  <2>2. Launched' <=> Launched BY <1>1, <1>2, <1>4, <1>6 DEF Launched
  <2>3. ~overwriting => ~Launched BY <1>2, <1>6 DEF Inv, Whole, Writing
  <2>4. FileTypes' BY <1>1, <1>2, <1>4, <1>6, <2>1 DEF Inv, FileTypes, Writing, Steps
  <2>5. Progress' BY <1>1, <1>2, <1>4, <1>6, <2>1 DEF Inv, Progress, Writing
  <2>6. LauncherLast' BY <1>1, <1>2, <1>4, <1>6, <2>2 DEF Inv, LauncherLast
  <2>7. Whole' BY <1>2, <2>2, <2>3 DEF Whole
  <2> QED BY <2>4, <2>5, <2>6, <2>7 DEF Inv
<1> QED BY <1>1, <1>5, <1>6

LEMMA RemoveKeepsInv == ASSUME Inv, RemoveOther PROVE Inv'
<1>1. /\ setup.pc = "remove" /\ setup'.pc = "launch" /\ gen' = gen /\ overwriting' = FALSE
      /\ file' = [f \in Files |-> IF f \in OthersOf(setup.engine) THEN None ELSE file[f]]
  BY DEF RemoveOther, Inv, FileTypes
<1>2. /\ "config" \in Files /\ "env" \in Files /\ gen \in 1 .. MaxGen /\ gen # None
      /\ "config" \notin OthersOf(setup.engine) /\ "env" \notin OthersOf(setup.engine)
  BY <1>1, SetupAssumption DEF Inv, FileTypes, Files, OthersOf, Writing
<1>3. file'["config"] = gen /\ file'["env"] = gen BY <1>1, <1>2 DEF Inv, Progress
<1>4. FileTypes' BY <1>1 DEF Inv, FileTypes, Writing, Steps, Content
<1> QED BY <1>1, <1>2, <1>3, <1>4 DEF Inv, Progress, LauncherLast, Whole, Writing, Torn

LEMMA SetupKeepsInv == Inv /\ SetupNext => Inv'
<1> SUFFICES ASSUME Inv, SetupNext PROVE Inv'
  OBVIOUS
<1>1. CASE \E e \in Engines : HandlePartial(e) \/ EditExisting(e) \/ \E yes \in BOOLEAN : Fresh(e, yes)
  BY <1>1, BeginKeepsInv DEF HandlePartial, EditExisting, Fresh
<1>2. CASE \E e \in Engines : HandleExisting(e)
  BY <1>2, StillKeepsInv DEF HandleExisting, Idle, Writing, Steps
<1>3. CASE Launch BY <1>3, StillKeepsInv DEF Launch, Idle, Writing, Steps, Inv, FileTypes
<1>4. CASE ResolveProfile
  <2>1. UNCHANGED disk /\ setup.pc = "list" BY <1>4 DEF ResolveProfile
  <2>2. \E pc \in {"create", "update", "save"}, n \in Names \cup {Default}, issue \in BOOLEAN :
          setup' = Choose(pc, n, issue)
    BY <1>4 DEF ResolveProfile
  <2>3. setup'.pc \in {"create", "update", "save"} BY <2>2 DEF Choose
  <2> QED BY <2>1, <2>3, StillKeepsInv DEF Writing, Steps
<1>5. CASE CreateSetupProfile \/ ReplaceSetupProfile
  <2>1. UNCHANGED disk /\ setup' = [setup EXCEPT !.pc = "save"]
    BY <1>5 DEF CreateSetupProfile, ReplaceSetupProfile
  <2>2. setup'.pc = "save" BY <2>1
  <2> QED BY <2>1, <2>2, StillKeepsInv DEF Writing, Steps
<1>6. CASE SaveSetupProfile
  BY <1>6, StillKeepsInv DEF SaveSetupProfile, Idle, Writing, Steps, Inv, FileTypes
<1>7. CASE IssueSetupKey \/ CutSetup
  BY <1>7, StillKeepsInv DEF IssueSetupKey, CutSetup, Idle, Writing, Steps
<1> QED BY <1>1, <1>2, <1>3, <1>4, <1>5, <1>6, <1>7, OpenKeepsInv, WriteKeepsInv, RemoveKeepsInv
        DEF SetupNext

-----------------------------------------------------------------------------
(***************************************************************************)
(* `ready` and `run`: a harness's job over the server, while setup, other  *)
(* jobs and operators use it as well.                                      *)
(*                                                                         *)
(* A job is disturbed from outside in one way only: what it has read of    *)
(* the server is old.  The histories calm and overtaken say so, and the    *)
(* invariant of a job says what it knows as long as they do not: that the  *)
(* profile to be widened is as it was read (Current), that the chosen one  *)
(* will do and the key is there (Sure).  Its own steps keep that.          *)
(***************************************************************************)

AdminTypes ==
  /\ rows \in [Engines -> Seq(Names)] /\ \A e \in Engines : IsInjective(rows[e])
  /\ gone \subseteq Profiles /\ \A p \in gone : p[2] \in ToSet(rows[p[1]])
  /\ tools \in [Profiles -> SUBSET Tools]
  /\ keys \subseteq Keys /\ issued \in 0 .. MaxKeys
  /\ \A k \in keys : k.id <= issued /\ \A j \in keys : j.id = k.id => j = k

SetupRuns == [pc : Steps, engine : Engines \cup {None}, yes : BOOLEAN, fresh : BOOLEAN,
         at : 1 .. 3, name : Names \cup {None}, issue : BOOLEAN]

\* A run of setup knows its launcher, and once it has chosen its profile.
RunTypes ==
  /\ setup \in SetupRuns /\ up \subseteq Engines /\ setupProfile \in Names \cup {None}
  /\ setup.pc # "idle" => setup.engine \in Engines
  /\ setup.pc \in {"create", "update", "save", "key"} => setup.name \in Names

Jobs == [pc : Stage, cmd : Cmds, profile : Profiles \cup {None}, fix : {"none", "update", "create"},
         base : SUBSET Tools, key : {None} \cup 1 .. MaxKeys,
         calm : BOOLEAN, overtaken : BOOLEAN, provisioned : BOOLEAN]

JobTypes ==
  /\ job \in [Harnesses -> Jobs]
  /\ requires \in [Harnesses -> {None} \cup SUBSET Tools]
  /\ resolved \in [Harnesses -> {None} \cup Resolved]

\* Where a job is, and what it still has to mend.
Course(h) ==
  /\ job[h].pc # "idle" => job[h].profile \in Profiles /\ requires[h] # None
  /\ job[h].pc \in {"save", "start"} => job[h].key # None
  /\ job[h].pc \in {"refresh", "put"} => job[h].fix = "update"
  /\ job[h].pc = "create" => job[h].fix = "create"
  /\ job[h].pc \in {"idle", "key", "save", "start"} => job[h].fix = "none"

\* What is to be widened is as it was read, unless it was changed since.
Current(h) == job[h].fix = "update" /\ ~job[h].overtaken => job[h].base = tools[job[h].profile]

Good(h)   == Exists(job[h].profile) /\ Fits(h, job[h].profile)
HasKey(h) == \E k \in keys : k.id = job[h].key /\ k.of = job[h].profile

\* What a job knows of the server while nobody else changes it.
Sure(h) ==
  job[h].calm =>
    /\ job[h].pc # "idle" /\ job[h].fix = "none" => Good(h)
    /\ job[h].pc \notin {"idle", "listed"} /\ job[h].key # None => HasKey(h)

\* A job that found all it needs has its own profile, and nothing to mend.
Settled(h) ==
  job[h].provisioned =>
    /\ job[h].pc \in {"idle", "listed", "save", "start"}
    /\ job[h].pc = "listed" =>
         resolved[h] # None /\ job[h].fix = "none" /\ job[h].profile = resolved[h].profile

JobInv(h) == Course(h) /\ Current(h) /\ Sure(h) /\ Settled(h)

ReadyInv == AdminTypes /\ RunTypes /\ JobTypes /\ \A h \in Harnesses : JobInv(h)

-----------------------------------------------------------------------------
\* A profile that will do is picked, if there is one.
LEMMA PickIsGood ==
  ASSUME NEW e \in Engines, rows[e] \in Seq(Names), NEW w \in Seq(Names),
         NEW good \in SUBSET ToSet(rows[e]), good # {}
  PROVE  Pick(e, w, good) \in good
<1> DEFINE s    == w \o rows[e]
           hits == {i \in DOMAIN s : s[i] \in good}
<1>1. /\ s \in Seq(Names) /\ DOMAIN s = 1 .. Len(w) + Len(rows[e])
      /\ \A i \in DOMAIN rows[e] : Len(w) + i \in DOMAIN s /\ s[Len(w) + i] = rows[e][i]
  OBVIOUS
<1>2. hits \in SUBSET Nat /\ hits # {}
  <2>1. PICK i \in DOMAIN rows[e] : rows[e][i] \in good
    BY DEF ToSet
  <2>2. Len(w) + i \in hits
    BY <1>1, <2>1
  <2>. QED
    BY <1>1, <2>2
<1>3. PICK i \in hits : \A j \in hits : i <= j
  BY <1>2, Least
<1>4. i \in DOMAIN s /\ s[i] \in good /\ \A j \in 1 .. i - 1 : s[j] \notin good
  <2>1. i \in 1 .. Len(w) + Len(rows[e]) /\ s[i] \in good
    BY <1>1
  <2>2. ASSUME NEW j \in 1 .. i - 1, s[j] \in good
        PROVE  FALSE
    <3>1. j \in hits /\ ~(i <= j)
      BY <1>1, <2>1, <2>2
    <3>. QED
      BY <1>3, <3>1
  <2>. QED
    BY <1>1, <2>1, <2>2
<1>. QED
  BY <1>4 DEF Pick

\* The first one wanted is, if it will do.
LEMMA PickTakesFirst ==
  ASSUME NEW e \in Engines, rows[e] \in Seq(Names), NEW w \in Seq(Names), NEW good,
         w # <<>>, w[1] \in good
  PROVE  Pick(e, w, good) = w[1]
<1> DEFINE s == w \o rows[e]
<1>1. DOMAIN s = 1 .. Len(w) + Len(rows[e]) /\ Len(w) >= 1 /\ s[1] = w[1]
  OBVIOUS
<1>2. 1 \in DOMAIN s /\ s[1] \in good /\ \A j \in 1 .. 1 - 1 : s[j] \notin good
  BY <1>1
<1>3. ASSUME NEW i \in DOMAIN s, \A j \in 1 .. i - 1 : s[j] \notin good
      PROVE  i = 1
  BY <1>1, <1>2, <1>3
<1>. QED
  BY <1>1, <1>2, <1>3 DEF Pick

-----------------------------------------------------------------------------
(* The admin API.                                                          *)

LEMMA Appended ==
  ASSUME NEW s \in Seq(Names), NEW n \in Names
  PROVE  /\ Append(s, n) \in Seq(Names) /\ ToSet(Append(s, n)) = ToSet(s) \cup {n}
         /\ IsInjective(s) /\ n \notin ToSet(s) => IsInjective(Append(s, n))
<1>1. /\ Append(s, n) \in Seq(Names) /\ DOMAIN Append(s, n) = 1 .. Len(s) + 1
      /\ \A i \in 1 .. Len(s) : Append(s, n)[i] = s[i]
      /\ Append(s, n)[Len(s) + 1] = n /\ DOMAIN s = 1 .. Len(s) /\ Len(s) \in Nat
  OBVIOUS
<1>2. ToSet(Append(s, n)) = ToSet(s) \cup {n}
  <2>1. ToSet(s) = {s[i] : i \in 1 .. Len(s)}
    BY <1>1 DEF ToSet
  <2>2. ToSet(Append(s, n)) = {Append(s, n)[i] : i \in 1 .. Len(s) + 1}
    BY <1>1 DEF ToSet
  <2>3. \A i \in 1 .. Len(s) + 1 : i \in 1 .. Len(s) \/ i = Len(s) + 1
    BY <1>1
  <2>. QED
    BY <1>1, <2>1, <2>2, <2>3
<1>3. IsInjective(s) /\ n \notin ToSet(s) => IsInjective(Append(s, n))
  BY <1>1 DEF ToSet, IsInjective
<1>. QED
  BY <1>1, <1>2, <1>3

LEMMA ApiTypes ==
  ASSUME AdminTypes, NEW p \in Profiles, NEW t \in SUBSET Tools,
         \/ CreateProfile(p, t) \/ ReplaceProfile(p, t) \/ DeleteProfile(p) \/ CreateKey(p)
         \/ \E k \in keys : RevokeKey(k)
  PROVE  AdminTypes'
<1>. p[1] \in Engines /\ p[2] \in Names /\ p = <<p[1], p[2]>>
  BY DEF Profiles
<1>1. CASE CreateProfile(p, t)
  <2>1. /\ rows' \in [Engines -> Seq(Names)]
        /\ \A e \in Engines : IsInjective(rows'[e]) /\ ToSet(rows[e]) \subseteq ToSet(rows'[e])
    BY <1>1, Appended DEF CreateProfile, AdminTypes
  <2>2. tools' \in [Profiles -> SUBSET Tools] /\ UNCHANGED <<gone, keys, issued>>
    BY <1>1 DEF CreateProfile, AdminTypes
  <2>3. \A q \in gone' : q[2] \in ToSet(rows'[q[1]])
    BY <2>1, <2>2 DEF AdminTypes, Profiles
  <2>. QED
    BY <2>1, <2>2, <2>3 DEF AdminTypes
<1>2. CASE ReplaceProfile(p, t)
  BY <1>2 DEF ReplaceProfile, AdminTypes
<1>3. CASE DeleteProfile(p)
  BY <1>3 DEF DeleteProfile, Exists, AdminTypes
<1>4. CASE CreateKey(p)
  <2>1. /\ issued' = issued + 1 /\ issued' \in 0 .. MaxKeys /\ issued' \in 1 .. MaxKeys
        /\ keys' = keys \cup {[id |-> issued', of |-> p]} /\ UNCHANGED <<rows, gone, tools>>
    BY <1>4, SetupAssumption DEF CreateKey, AdminTypes
  <2>2. keys' \subseteq Keys
    BY <2>1 DEF AdminTypes, Keys
  <2>3. \A k \in keys : k.id \in Nat /\ k.id < issued'
    BY <2>1, SetupAssumption DEF AdminTypes, Keys
  <2>4. \A k \in keys' : k.id <= issued' /\ \A j \in keys' : j.id = k.id => j = k
    BY <2>1, <2>3, SetupAssumption DEF AdminTypes
  <2>. QED
    BY <2>1, <2>2, <2>4 DEF AdminTypes
<1>5. CASE \E k \in keys : RevokeKey(k)
  BY <1>5 DEF RevokeKey, AdminTypes
<1>. QED
  BY <1>1, <1>2, <1>3, <1>4, <1>5

LEMMA StillTypes == ASSUME AdminTypes, UNCHANGED admin PROVE AdminTypes'
BY DEF AdminTypes, admin

-----------------------------------------------------------------------------
(* Setup, and operators.                                                   *)

LEMMA RunKeepsTypes ==
  ASSUME AdminTypes, RunTypes, SetupNext
  PROVE  AdminTypes' /\ RunTypes'
<1>. UNCHANGED admin => AdminTypes'
  BY StillTypes
<1>0. setup' = Idle /\ UNCHANGED up /\ setupProfile' \in Names \cup {None} => RunTypes'
  BY DEF RunTypes, SetupRuns, Idle, Steps
<1>1. ASSUME NEW e \in Engines, NEW yes \in BOOLEAN, BeginWriting(e, yes)
      PROVE  AdminTypes' /\ RunTypes'
  <2>1. /\ setup' = [pc |-> "open", engine |-> e, yes |-> yes, fresh |-> TRUE,
                     at |-> 1, name |-> None, issue |-> FALSE]
        /\ UNCHANGED <<up, admin, setupProfile>>
    BY <1>1 DEF BeginWriting, Idle
  <2>2. RunTypes'
    BY <2>1 DEF RunTypes, SetupRuns, Steps
  <2>. QED
    BY <2>1, <2>2
<1>2. ASSUME NEW e \in Engines, HandleExisting(e)
      PROVE  AdminTypes' /\ RunTypes'
  <2>1. /\ setup' = [pc |-> "launch", engine |-> e, yes |-> FALSE, fresh |-> FALSE,
                     at |-> 1, name |-> None, issue |-> FALSE]
        /\ UNCHANGED <<up, admin, setupProfile>>
    BY <1>2 DEF HandleExisting, Idle
  <2>2. RunTypes'
    BY <2>1 DEF RunTypes, SetupRuns, Steps
  <2>. QED
    BY <2>1, <2>2
<1>3. CASE OpenFile
  <2>1. /\ setup'.pc = "write" /\ setup' = [setup EXCEPT !.pc = "write"] /\ setup.pc = "open"
        /\ UNCHANGED <<up, admin, setupProfile>>
    BY <1>3 DEF OpenFile, RunTypes, SetupRuns
  <2>2. /\ setup' \in SetupRuns /\ setup'.engine = setup.engine /\ setup.engine \in Engines
        /\ UNCHANGED <<up, setupProfile>>
    BY <2>1 DEF RunTypes, SetupRuns, Steps
  <2>3. RunTypes'
    BY <2>1, <2>2 DEF RunTypes
  <2>. QED
    BY <2>1, <2>3
<1>4. CASE WriteFile
  <2>1. setup.pc = "write" /\ UNCHANGED <<up, admin, setupProfile>>
    BY <1>4 DEF WriteFile
  <2>2. /\ setup \in SetupRuns /\ setup.engine \in Engines /\ UNCHANGED <<up, setupProfile>>
        /\ up \subseteq Engines /\ setupProfile \in Names \cup {None}
    BY <2>1 DEF RunTypes
  <2>3. ASSUME NEW pc \in {"remove", "open"}, NEW next \in 1 .. 3, setup' = [setup EXCEPT !.pc = pc, !.at = next]
        PROVE  RunTypes'
    <3>1. setup' \in SetupRuns /\ setup'.pc = pc /\ setup'.engine = setup.engine
      BY <2>2, <2>3 DEF SetupRuns, Steps
    <3>. QED
      BY <2>1, <2>2, <3>1 DEF RunTypes
  <2>4. CASE setup.at = 3
    BY <1>4, <2>1, <2>3, <2>4 DEF WriteFile
  <2>5. CASE setup.at # 3
    <3>1. setup.at + 1 \in 1 .. 3
      BY <2>2, <2>5 DEF SetupRuns
    <3>. QED
      BY <1>4, <2>1, <2>3, <2>5, <3>1 DEF WriteFile
  <2>. QED
    BY <2>4, <2>5
<1>5. CASE RemoveOther
  <2>1. setup' = [setup EXCEPT !.pc = "launch"] /\ setup.pc = "remove" /\ UNCHANGED <<up, admin, setupProfile>>
    BY <1>5 DEF RemoveOther
  <2>. QED
    BY <2>1 DEF RunTypes, SetupRuns, Steps
<1>6. CASE Launch
  <2>1. /\ setup' = [setup EXCEPT !.pc = "list"] \/ setup' = Idle
        /\ setup.pc = "launch" /\ up' = up \cup {setup.engine} /\ UNCHANGED <<admin, setupProfile>>
    BY <1>6 DEF Launch
  <2>2. up' \subseteq Engines
    BY <2>1 DEF RunTypes
  <2>3. CASE setup' = [setup EXCEPT !.pc = "list"]
    <3>1. RunTypes'
      BY <2>1, <2>2, <2>3 DEF RunTypes, SetupRuns, Steps
    <3>. QED
      BY <2>1, <3>1
  <2>4. CASE setup' = Idle
    <3>1. RunTypes'
      BY <2>1, <2>2, <2>4 DEF RunTypes, SetupRuns, Steps, Idle
    <3>. QED
      BY <2>1, <3>1
  <2>. QED
    BY <2>1, <2>3, <2>4
<1>7. CASE ResolveProfile
  <2>1. setup.pc = "list" /\ UNCHANGED <<up, admin, setupProfile>>
    BY <1>7 DEF ResolveProfile
  <2>2. PICK pc \in {"create", "update", "save"}, n \in Names, issue \in BOOLEAN :
          setup' = [setup EXCEPT !.pc = pc, !.name = n, !.issue = issue]
    BY <1>7 DEF ResolveProfile, Choose, Names
  <2>. QED
    BY <2>1, <2>2 DEF RunTypes, SetupRuns, Steps
<1>8. CASE CreateSetupProfile \/ ReplaceSetupProfile
  <2>1. /\ setup.pc \in {"create", "update"} /\ setup' = [setup EXCEPT !.pc = "save"]
        /\ UNCHANGED <<up, setupProfile>>
        /\ CreateProfile(Chosen, {}) \/ ReplaceProfile(Chosen, {})
    BY <1>8 DEF CreateSetupProfile, ReplaceSetupProfile
  <2>2. Chosen \in Profiles /\ {} \in SUBSET Tools
    BY <2>1 DEF RunTypes, Chosen, Profiles
  <2>3. RunTypes'
    BY <2>1 DEF RunTypes, SetupRuns, Steps
  <2>. QED
    BY <2>1, <2>2, <2>3, ApiTypes
<1>9. CASE SaveSetupProfile
  <2>1. /\ setup' = [setup EXCEPT !.pc = "key"] \/ setup' = Idle
        /\ setup.pc = "save" /\ setupProfile' = setup.name /\ UNCHANGED <<admin, up>>
    BY <1>9 DEF SaveSetupProfile
  <2>2. setup.name \in Names
    BY <2>1 DEF RunTypes
  <2>3. CASE setup' = [setup EXCEPT !.pc = "key"]
    BY <2>1, <2>2, <2>3 DEF RunTypes, SetupRuns, Steps
  <2>4. CASE setup' = Idle
    BY <1>0, <2>1, <2>2, <2>4
  <2>. QED
    BY <2>1, <2>3, <2>4
<1>10. CASE IssueSetupKey
  <2>1. setup.pc = "key" /\ CreateKey(Chosen) /\ setup' = Idle /\ UNCHANGED <<up, setupProfile>>
    BY <1>10 DEF IssueSetupKey
  <2>2. Chosen \in Profiles /\ {} \in SUBSET Tools
    BY <2>1 DEF RunTypes, Chosen, Profiles
  <2>3. RunTypes'
    BY <1>0, <2>1 DEF RunTypes
  <2>. QED
    BY <2>1, <2>2, <2>3, ApiTypes
<1>11. CASE CutSetup
  <2>1. setup' = Idle /\ setupProfile' \in {setupProfile, None} /\ UNCHANGED <<up, admin>>
    BY <1>11 DEF CutSetup
  <2>. QED
    BY <1>0, <2>1 DEF RunTypes
<1>. QED
  BY <1>1, <1>2, <1>3, <1>4, <1>5, <1>6, <1>7, <1>8, <1>9, <1>10, <1>11
     DEF SetupNext, HandlePartial, EditExisting, Fresh

LEMMA OperatorKeepsTypes ==
  ASSUME AdminTypes, RunTypes, OperatorNext
  PROVE  AdminTypes' /\ RunTypes'
<1>1. RunTypes'
  BY DEF OperatorNext, RunTypes
<1>2. CASE \E p \in Profiles : \/ DeleteProfile(p) \/ CreateKey(p)
                              \/ \E t \in SUBSET Tools : CreateProfile(p, t) \/ ReplaceProfile(p, t)
  <2>1. PICK p \in Profiles : \/ DeleteProfile(p) \/ CreateKey(p)
                              \/ \E t \in SUBSET Tools : CreateProfile(p, t) \/ ReplaceProfile(p, t)
    BY <1>2
  <2>2. {} \in SUBSET Tools
    OBVIOUS
  <2>. QED
    BY <1>1, <2>1, <2>2, ApiTypes
<1>3. CASE \E k \in keys : RevokeKey(k)
  BY <1>1, <1>3 DEF RevokeKey, AdminTypes
<1>. QED
  BY <1>2, <1>3 DEF OperatorNext

-----------------------------------------------------------------------------
(* The jobs.                                                               *)

\* A step of someone else, as a job sees it.
Elsewhere(g) ==
  /\ requires'[g] = requires[g] /\ resolved'[g] = resolved[g]
  /\ job'[g] = Seen(g) \/ (job'[g] = job[g] /\ UNCHANGED admin)

\* It leaves the job where it is, and the histories say what it did.
LEMMA SeenFrom ==
  ASSUME NEW g, job[g] \in Jobs, Elsewhere(g)
  PROVE  /\ job'[g] \in Jobs
         /\ job'[g].pc = job[g].pc /\ job'[g].profile = job[g].profile /\ job'[g].fix = job[g].fix
         /\ job'[g].base = job[g].base /\ job'[g].key = job[g].key /\ job'[g].provisioned = job[g].provisioned
         /\ job'[g].calm => job[g].calm /\ UNCHANGED admin
         /\ job[g].fix = "update" /\ ~job'[g].overtaken =>
              ~job[g].overtaken /\ tools'[job[g].profile] = tools[job[g].profile]
<1>1. CASE job'[g] = job[g] /\ UNCHANGED admin
  BY <1>1 DEF admin
<1>2. CASE job'[g] = Seen(g)
  <2> DEFINE c == job[g].calm /\ admin' = admin
             o == job[g].overtaken \/ /\ job[g].fix = "update"
                                      /\ tools'[job[g].profile] # tools[job[g].profile]
  <2>1. job'[g] = [job[g] EXCEPT !.calm = c, !.overtaken = o] /\ c \in BOOLEAN /\ o \in BOOLEAN
    BY <1>2 DEF Seen, Jobs
  <2> HIDE DEF c, o
  <2>2. /\ job'[g] \in Jobs /\ job'[g].calm = c /\ job'[g].overtaken = o
        /\ job'[g].pc = job[g].pc /\ job'[g].profile = job[g].profile /\ job'[g].fix = job[g].fix
        /\ job'[g].base = job[g].base /\ job'[g].key = job[g].key
        /\ job'[g].provisioned = job[g].provisioned
    BY ZenonT(60), <2>1 DEF Jobs
  <2>. QED
    BY <2>2 DEF c, o
<1>. QED
  BY <1>1, <1>2 DEF Elsewhere

LEMMA ElsewhereKeeps ==
  ASSUME NEW g \in Harnesses, job[g] \in Jobs, JobInv(g), Elsewhere(g)
  PROVE  JobInv(g)'
<1>. USE SeenFrom
<1>1. Course(g)'
  BY DEF JobInv, Course, Elsewhere
<1>2. Current(g)'
  BY DEF JobInv, Current
<1>3. Sure(g)'
  <2>1. SUFFICES ASSUME job'[g].calm
                 PROVE  /\ job'[g].pc # "idle" /\ job'[g].fix = "none" => Good(g)'
                        /\ job'[g].pc \notin {"idle", "listed"} /\ job'[g].key # None => HasKey(g)'
    BY DEF Sure
  <2>2. job[g].calm /\ UNCHANGED <<rows, gone, tools, keys>>
    BY <2>1 DEF admin
  <2>3. Good(g) => Good(g)'
    BY <2>2 DEF Good, Exists, Fits, Elsewhere
  <2>4. HasKey(g) => HasKey(g)'
    BY <2>2 DEF HasKey
  <2>. QED
    BY <2>2, <2>3, <2>4 DEF JobInv, Sure
<1>4. Settled(g)'
  BY DEF JobInv, Settled, Elsewhere
<1>. QED
  BY <1>1, <1>2, <1>3, <1>4 DEF JobInv

-----------------------------------------------------------------------------
(* A job's own steps.                                                      *)

\* What a job goes on as; the others see it.
LEMMA GoesOn ==
  ASSUME JobTypes, NEW h \in Harnesses, NEW j \in Jobs,
         \/ Goes(h, j) /\ UNCHANGED admin
         \/ Mends(h, j)
  PROVE  /\ job' \in [Harnesses -> Jobs] /\ job'[h] = j
         /\ \A g \in Harnesses \ {h} : job'[g] = Seen(g) \/ (job'[g] = job[g] /\ UNCHANGED admin)
<1>1. CASE Goes(h, j) /\ UNCHANGED admin
  BY <1>1 DEF Goes, JobTypes
<1>2. CASE Mends(h, j)
  <2>1. /\ job' = [g \in Harnesses |-> IF g = h THEN j ELSE Seen(g)]
        /\ \A g \in Harnesses : job[g] \in Jobs
    BY <1>2 DEF Mends, JobTypes
  <2>2. ASSUME NEW g \in Harnesses
        PROVE  Seen(g) \in Jobs
    <3> DEFINE c == job[g].calm /\ admin' = admin
               o == job[g].overtaken \/ /\ job[g].fix = "update"
                                        /\ tools'[job[g].profile] # tools[job[g].profile]
    <3>1. Seen(g) = [job[g] EXCEPT !.calm = c, !.overtaken = o] /\ c \in BOOLEAN /\ o \in BOOLEAN
      BY <2>1 DEF Seen, Jobs
    <3> HIDE DEF c, o
    <3>. QED
      BY <2>1, <3>1 DEF Jobs
  <2>. QED
    BY <2>1, <2>2
<1>. QED
  BY <1>1, <1>2

NoJobFields ==
  /\ NoJob \in Jobs /\ NoJob.pc = "idle" /\ NoJob.fix = "none" /\ ~NoJob.calm /\ ~NoJob.provisioned

LEMMA NoJobIs == NoJobFields
BY DEF NoJobFields, NoJob, Jobs, Stage, Cmds

\* A job that is over knows nothing.
LEMMA Over == ASSUME NEW h, job'[h] = NoJob PROVE JobInv(h)'
BY NoJobIs DEF NoJobFields, JobInv, Course, Current, Sure, Settled

\* What a step of its own leaves to be shown of a job: the others have seen it.
LEMMA OwnStep ==
  ASSUME ReadyInv, NEW h \in Harnesses, NEW j \in Jobs,
         \/ Goes(h, j) /\ UNCHANGED admin
         \/ Mends(h, j) /\ AdminTypes',
         UNCHANGED <<setup, up, setupProfile>>,
         requires' \in [Harnesses -> {None} \cup SUBSET Tools],
         resolved' \in [Harnesses -> {None} \cup Resolved],
         \A g \in Harnesses \ {h} : requires'[g] = requires[g] /\ resolved'[g] = resolved[g],
         job'[h] = j => JobInv(h)'
  PROVE  ReadyInv'
<1>1. /\ job' \in [Harnesses -> Jobs] /\ job'[h] = j
      /\ \A g \in Harnesses \ {h} : Elsewhere(g)
  BY GoesOn DEF ReadyInv, Elsewhere
<1>2. \A g \in Harnesses \ {h} : JobInv(g)'
  BY <1>1, ElsewhereKeeps DEF ReadyInv, JobTypes
<1>3. AdminTypes' /\ RunTypes' /\ JobTypes'
  BY <1>1, StillTypes DEF ReadyInv, RunTypes, JobTypes
<1>. QED
  BY <1>1, <1>2, <1>3 DEF ReadyInv

LEMMA CutKeeps ==
  ASSUME ReadyInv, NEW h \in Harnesses, StartHarness(h) \/ CutJob(h)
  PROVE  ReadyInv'
<1>1. /\ Goes(h, NoJob) /\ UNCHANGED <<admin, setup, up, setupProfile, requires>>
      /\ resolved' \in {resolved, [resolved EXCEPT ![h] = None]}
  BY DEF StartHarness, CutJob, setupVars
<1>2. /\ requires' \in [Harnesses -> {None} \cup SUBSET Tools]
      /\ resolved' \in [Harnesses -> {None} \cup Resolved]
      /\ \A g \in Harnesses \ {h} : requires'[g] = requires[g] /\ resolved'[g] = resolved[g]
  BY <1>1 DEF ReadyInv, JobTypes
<1>. QED
  BY <1>1, <1>2, NoJobIs, Over, OwnStep DEF NoJobFields

LEMMA BuildKeeps ==
  ASSUME ReadyInv, NEW h \in Harnesses, Build(h)
  PROVE  ReadyInv'
<1>1. /\ job[h].pc = "idle" /\ UNCHANGED <<admin, setup, up, setupProfile, job>>
      /\ resolved' = [resolved EXCEPT ![h] = None]
      /\ requires' = requires \/ \E t \in SUBSET Tools : requires' = [requires EXCEPT ![h] = t]
  BY ReadinessAssumption DEF Build, setupVars
<1>2. /\ requires' \in [Harnesses -> {None} \cup SUBSET Tools]
      /\ resolved' \in [Harnesses -> {None} \cup Resolved]
      /\ \A g \in Harnesses \ {h} : requires'[g] = requires[g] /\ resolved'[g] = resolved[g]
  BY <1>1 DEF ReadyInv, JobTypes
<1>3. \A g \in Harnesses \ {h} : Elsewhere(g)
  BY <1>1, <1>2 DEF Elsewhere
<1>4. \A g \in Harnesses \ {h} : JobInv(g)'
  BY <1>3, ElsewhereKeeps DEF ReadyInv, JobTypes
<1>5. JobInv(h)'
  BY <1>1 DEF ReadyInv, JobInv, Course, Current, Sure, Settled, admin
<1>6. AdminTypes' /\ RunTypes' /\ JobTypes'
  BY <1>1, <1>2, StillTypes DEF ReadyInv, RunTypes, JobTypes
<1>. QED
  BY <1>4, <1>5, <1>6 DEF ReadyInv

\* The names a harness would rather have.
LEMMA WantedTypes ==
  ASSUME ReadyInv, NEW h \in Harnesses, NEW e \in Engines
  PROVE  /\ Wanted(h, e) \in Seq(Names)
         /\ resolved[h] # None /\ resolved[h].profile[1] = e =>
              Wanted(h, e) # <<>> /\ Wanted(h, e)[1] = resolved[h].profile[2]
<1> DEFINE own == IF resolved[h] # None /\ resolved[h].profile[1] = e THEN <<resolved[h].profile[2]>> ELSE <<>>
           its == IF setupProfile # None THEN <<setupProfile>> ELSE <<>>
<1>1. resolved[h] # None => resolved[h].profile[2] \in Names
  BY DEF ReadyInv, JobTypes, Resolved, Profiles
<1>2. own \in Seq(Names) /\ its \in Seq(Names)
  BY <1>1 DEF ReadyInv, RunTypes
<1>3. Wanted(h, e) = own \o its
  BY DEF Wanted
<1>4. resolved[h] # None /\ resolved[h].profile[1] = e => own = <<resolved[h].profile[2]>>
  OBVIOUS
<1> HIDE DEF own, its
<1>. QED
  BY <1>1, <1>2, <1>3, <1>4

\* A job begins.
Begun(cmd, calm, provisioned, profile, fix, base) ==
  [[NoJob EXCEPT !.pc = "listed", !.cmd = cmd, !.calm = calm, !.provisioned = provisioned]
     EXCEPT !.profile = profile, !.fix = fix, !.base = base]

LEMMA NewJob ==
  ASSUME NEW cmd \in Cmds, NEW calm \in BOOLEAN, NEW provisioned \in BOOLEAN, NEW profile \in Profiles,
         NEW fix \in {"none", "update", "create"}, NEW base \in SUBSET Tools
  PROVE  LET j == Begun(cmd, calm, provisioned, profile, fix, base)
         IN  /\ j \in Jobs /\ j.pc = "listed" /\ j.profile = profile /\ j.fix = fix /\ j.base = base
             /\ j.provisioned = provisioned
<1> DEFINE j1 == [NoJob EXCEPT !.pc = "listed", !.cmd = cmd, !.calm = calm, !.provisioned = provisioned]
           j  == [j1 EXCEPT !.profile = profile, !.fix = fix, !.base = base]
<1>1. j1 \in Jobs /\ j1.pc = "listed" /\ j1.provisioned = provisioned
  BY NoJobIs DEF NoJobFields, Jobs, Stage
<1> HIDE DEF j1
<1>2. /\ j \in Jobs /\ j.pc = "listed" /\ j.profile = profile /\ j.fix = fix /\ j.base = base
      /\ j.provisioned = provisioned
  BY <1>1 DEF Jobs
<1>. QED
  BY <1>2 DEF j1, Begun

LEMMA ListProfilesKeeps ==
  ASSUME ReadyInv, NEW h \in Harnesses, NEW cmd \in Cmds, ListProfiles(h, cmd)
  PROVE  ReadyInv'
<1> DEFINE fit(e)  == {n \in Listed(e) : Fits(h, <<e, n>>)}
           has(e)  == resolved[h] # None /\ resolved[h].profile[1] = e /\ resolved[h].profile[2] \in fit(e)
           job1(e) == [NoJob EXCEPT !.pc = "listed", !.cmd = cmd, !.calm = (cmd = "run"),
                               !.provisioned = has(e)]
           on(e, n, fix) == [job1(e) EXCEPT !.profile = <<e, n>>, !.fix = fix,
                               !.base = IF fix = "update" THEN tools[<<e, n>>] ELSE {}]
<1>1. PICK e \in Engines :
        /\ requires[h] # None
        /\ \/ fit(e) # {} /\ Goes(h, on(e, Pick(e, Wanted(h, e), fit(e)), "none"))
           \/ /\ fit(e) = {} /\ Listed(e) # {}
              /\ Goes(h, on(e, Pick(e, Wanted(h, e) \o <<Default>>, Listed(e)), "update"))
           \/ Listed(e) = {} /\ Goes(h, on(e, NameOf[h], "create"))
        /\ UNCHANGED <<setupVars, requires, resolved>>
  BY ZenonT(60) DEF ListProfiles
<1>2. /\ Listed(e) \in SUBSET ToSet(rows[e]) /\ fit(e) \in SUBSET ToSet(rows[e])
      /\ rows[e] \in Seq(Names) /\ ToSet(rows[e]) \subseteq Names
      /\ \A n \in Listed(e) : Exists(<<e, n>>)
  <2>1. rows[e] \in Seq(Names)
    BY DEF ReadyInv, AdminTypes
  <2>2. ToSet(rows[e]) \subseteq Names
    BY <2>1 DEF ToSet
  <2>. QED
    BY <2>1, <2>2 DEF Listed, Exists
<1>3. UNCHANGED <<admin, setup, up, setupProfile, requires, resolved>>
  BY <1>1 DEF setupVars
<1>4. ASSUME NEW n \in Names, NEW fix \in {"none", "update", "create"}, Goes(h, on(e, n, fix)),
             fix = "none" => Exists(<<e, n>>) /\ Fits(h, <<e, n>>),
             has(e) => fix = "none" /\ n = resolved[h].profile[2]
      PROVE  ReadyInv'
  <2>1. <<e, n>> \in Profiles
    BY DEF Profiles
  <2>2. has(e) \in BOOLEAN /\ (cmd = "run") \in BOOLEAN
    OBVIOUS
  <2>3. has(e) => resolved[h] # None /\ resolved[h].profile = <<e, n>>
    BY <1>4 DEF ReadyInv, JobTypes, Resolved, Profiles
  <2> DEFINE base == IF fix = "update" THEN tools[<<e, n>>] ELSE {}
             calm == cmd = "run"
  <2>4. base \in SUBSET Tools
    BY <2>1 DEF ReadyInv, AdminTypes
  <2>5. LET j == on(e, n, fix)
        IN  /\ j \in Jobs /\ j.pc = "listed" /\ j.profile = <<e, n>> /\ j.fix = fix
            /\ fix = "update" => j.base = tools[<<e, n>>]
            /\ j.provisioned = has(e)
    <3> DEFINE j == Begun(cmd, calm, has(e), <<e, n>>, fix, base)
    <3>1. on(e, n, fix) = j
      BY DEF Begun
    <3>3. calm \in BOOLEAN
      OBVIOUS
    <3> HIDE DEF has, base, calm
    <3>2. /\ j \in Jobs /\ j.pc = "listed" /\ j.profile = <<e, n>> /\ j.fix = fix /\ j.base = base
          /\ j.provisioned = has(e)
      BY <2>1, <2>2, <2>4, <3>3, NewJob
    <3> HIDE DEF j, on
    <3>. QED
      BY <3>1, <3>2 DEF base
  <2> HIDE DEF has
  <2> HIDE DEF on
  <2>6. ASSUME job'[h] = on(e, n, fix)
        PROVE  JobInv(h)'
    <3>1. Course(h)'
      BY <1>1, <2>1, <2>5, <2>6 DEF Course
    <3>2. Current(h)'
      BY <1>3, <2>5, <2>6 DEF Current, admin
    <3>3. Sure(h)'
      BY <1>3, <1>4, <2>5, <2>6 DEF Sure, Good, Exists, Fits, admin
    <3>4. Settled(h)'
      BY <1>3, <1>4, <2>3, <2>5, <2>6 DEF Settled
    <3>. QED
      BY <3>1, <3>2, <3>3, <3>4 DEF JobInv
  <2>. QED
    BY <1>3, <1>4, <2>5, <2>6, OwnStep DEF ReadyInv, JobTypes
<1>5. CASE fit(e) # {} /\ Goes(h, on(e, Pick(e, Wanted(h, e), fit(e)), "none"))
  <2> DEFINE n == Pick(e, Wanted(h, e), fit(e))
  <2>1. n \in fit(e)
    BY <1>2, <1>5, WantedTypes, PickIsGood
  <2>2. has(e) => n = resolved[h].profile[2]
    BY <1>2, WantedTypes, PickTakesFirst
  <2>3. n \in Names /\ Exists(<<e, n>>) /\ Fits(h, <<e, n>>)
    BY <1>2, <2>1
  <2> HIDE DEF n, fit, has, on
  <2>. QED
    BY <1>4, <1>5, <2>2, <2>3 DEF n
<1>6. CASE /\ fit(e) = {} /\ Listed(e) # {}
           /\ Goes(h, on(e, Pick(e, Wanted(h, e) \o <<Default>>, Listed(e)), "update"))
  <2> DEFINE w == Wanted(h, e) \o <<Default>>
             n == Pick(e, w, Listed(e))
  <2>1. w \in Seq(Names)
    BY WantedTypes DEF Names
  <2>2. n \in Names
    BY <1>2, <1>6, <2>1, PickIsGood
  <2>3. ~has(e)
    BY <1>6
  <2> HIDE DEF fit, has, on
  <2>. QED
    BY <1>4, <1>6, <2>2, <2>3
<1>7. CASE Listed(e) = {} /\ Goes(h, on(e, NameOf[h], "create"))
  <2>1. NameOf[h] \in Names
    BY ReadinessAssumption DEF Names
  <2>2. ~has(e)
    BY <1>7
  <2> HIDE DEF fit, has, on
  <2>. QED
    BY <1>4, <1>7, <2>1, <2>2
<1>. QED
  BY <1>1, <1>5, <1>6, <1>7

LEMMA ListKeysKeeps ==
  ASSUME ReadyInv, NEW h \in Harnesses, ListKeys(h)
  PROVE  ReadyInv'
<1> DEFINE prov == job[h].provisioned /\ Held(h)
           key  == IF Reusable(h) THEN resolved[h].key ELSE None
           to   == IF job[h].fix = "none" THEN (IF Reusable(h) THEN "save" ELSE "key")
                   ELSE IF job[h].fix = "update" THEN "refresh" ELSE "create"
           j1   == [job[h] EXCEPT !.provisioned = prov, !.key = key]
           j    == [j1 EXCEPT !.pc = to]
<1>1. job[h] \in Jobs /\ job[h].pc = "listed" /\ JobInv(h)
  BY DEF ReadyInv, JobTypes, ListKeys
<1>2. Goes(h, j) /\ UNCHANGED <<admin, setup, up, setupProfile, requires, resolved>>
  <2>1. job[h].fix \in {"none", "update", "create"}
    BY <1>1 DEF Jobs
  <2> HIDE DEF prov, key
  <2>2. Goes(h, IF job[h].fix = "none" /\ Reusable(h) THEN [j1 EXCEPT !.pc = "save"]
                ELSE [j1 EXCEPT !.pc = [none |-> "key", update |-> "refresh", create |-> "create"][job[h].fix]])
    BY DEF ListKeys, prov, key
  <2> HIDE DEF j1
  <2>3. Goes(h, j)
    BY <2>1, <2>2
  <2>. QED
    BY <2>3 DEF ListKeys, setupVars
<1>3. /\ prov \in BOOLEAN /\ to \in Stage /\ key \in {None} \cup 1 .. MaxKeys
      /\ Reusable(h) => key \in 1 .. MaxKeys
  BY <1>1 DEF Reusable, ReadyInv, JobTypes, Resolved, Stage
<1>4. /\ j \in Jobs /\ j.pc = to /\ j.profile = job[h].profile /\ j.fix = job[h].fix /\ j.base = job[h].base
      /\ j.key = key /\ j.calm = job[h].calm /\ j.overtaken = job[h].overtaken /\ j.provisioned = prov
  <2> HIDE DEF prov, key, to
  <2>1. /\ j1 \in Jobs /\ j1.profile = job[h].profile /\ j1.fix = job[h].fix /\ j1.base = job[h].base
        /\ j1.key = key /\ j1.calm = job[h].calm /\ j1.overtaken = job[h].overtaken /\ j1.provisioned = prov
    BY <1>1, <1>3 DEF Jobs
  <2> HIDE DEF j1
  <2>. QED
    BY <1>3, <2>1 DEF Jobs
<1>5. /\ to \in {"refresh", "create"} => job[h].fix = IF to = "refresh" THEN "update" ELSE "create"
      /\ to \in {"key", "save"} => job[h].fix = "none"
      /\ to = "save" => Reusable(h)
      /\ to \in {"key", "save", "refresh", "create"}
      /\ job[h].fix = "none" /\ Reusable(h) => to = "save"
  BY <1>1 DEF Jobs
<1>6. Reusable(h) => \E k \in keys : k.id = key /\ k.of = job[h].profile
  BY DEF Reusable, Held
<1>7. key # None => Reusable(h)
  OBVIOUS
<1>8. prov => job[h].fix = "none" /\ Reusable(h)
  BY <1>1 DEF JobInv, Settled, Reusable
<1> HIDE DEF j, prov, to, key
<1>9. ASSUME job'[h] = j
      PROVE  JobInv(h)'
  <2>1. Course(h)'
    <3>1. None \notin 1 .. MaxKeys
      BY SetupAssumption
    <3>. QED
      BY <1>1, <1>2, <1>3, <1>4, <1>5, <1>9, <3>1 DEF JobInv, Course
  <2>2. Current(h)'
    BY <1>1, <1>2, <1>4, <1>9 DEF JobInv, Current, admin
  <2>3. Sure(h)'
    <3>1. job[h].calm /\ job[h].fix = "none" => Good(h)'
      BY <1>1, <1>2, <1>4, <1>9 DEF JobInv, Sure, Good, Exists, Fits, admin
    <3>2. key # None => HasKey(h)'
      BY <1>2, <1>4, <1>6, <1>7, <1>9 DEF HasKey, admin
    <3>. QED
      BY <1>4, <1>9, <3>1, <3>2 DEF Sure
  <2>4. Settled(h)'
    BY <1>4, <1>5, <1>8, <1>9 DEF Settled
  <2>. QED
    BY <2>1, <2>2, <2>3, <2>4 DEF JobInv
<1>. QED
  BY <1>2, <1>4, <1>9, OwnStep DEF ReadyInv, JobTypes

LEMMA RefreshKeeps ==
  ASSUME ReadyInv, NEW h \in Harnesses, Refresh(h)
  PROVE  ReadyInv'
<1>1. job[h] \in Jobs /\ job[h].pc = "refresh" /\ JobInv(h)
  BY DEF ReadyInv, JobTypes, Refresh
<1>2. UNCHANGED <<admin, setup, up, setupProfile, requires, resolved>>
  BY DEF Refresh, Refreshed, setupVars
<1>3. ASSUME NEW base \in SUBSET Tools, NEW o \in BOOLEAN,
             Goes(h, [job[h] EXCEPT !.pc = "put", !.base = base, !.overtaken = o]),
             ~o => base = tools[job[h].profile]
      PROVE  ReadyInv'
  <2> DEFINE j == [job[h] EXCEPT !.pc = "put", !.base = base, !.overtaken = o]
  <2>1. /\ j \in Jobs /\ j.pc = "put" /\ j.profile = job[h].profile /\ j.fix = job[h].fix /\ j.base = base
        /\ j.key = job[h].key /\ j.calm = job[h].calm /\ j.overtaken = o /\ j.provisioned = job[h].provisioned
    BY <1>1 DEF Jobs, Stage
  <2> HIDE DEF j
  <2>2. ASSUME job'[h] = j
        PROVE  JobInv(h)'
    <3>1. Course(h)'
      BY <1>1, <1>2, <2>1, <2>2 DEF JobInv, Course
    <3>2. Current(h)'
      BY <1>2, <1>3, <2>1, <2>2 DEF Current, admin
    <3>3. Sure(h)'
      BY <1>1, <1>2, <2>1, <2>2 DEF JobInv, Sure, Good, Exists, Fits, HasKey, Course, admin
    <3>4. Settled(h)'
      BY <1>1, <2>1, <2>2 DEF JobInv, Settled
    <3>. QED
      BY <3>1, <3>2, <3>3, <3>4 DEF JobInv
  <2>. QED
    BY <1>2, <1>3, <2>1, <2>2, OwnStep DEF ReadyInv, JobTypes, j
<1>4. CASE Refreshed(h, tools[job[h].profile])
  <2>1. tools[job[h].profile] \in SUBSET Tools
    BY <1>1 DEF JobInv, Course, ReadyInv, AdminTypes
  <2>. QED
    BY <1>3, <1>4, <2>1 DEF Refreshed
<1>5. CASE Goes(h, [job[h] EXCEPT !.pc = "put"])
  <2>1. /\ job[h].base \in SUBSET Tools /\ job[h].overtaken \in BOOLEAN
        /\ ~job[h].overtaken => job[h].base = tools[job[h].profile]
        /\ [job[h] EXCEPT !.pc = "put"]
           = [job[h] EXCEPT !.pc = "put", !.base = job[h].base, !.overtaken = job[h].overtaken]
    BY <1>1 DEF Jobs, JobInv, Course, Current
  <2>. QED
    BY <1>3, <1>5, <2>1
<1>. QED
  BY <1>4, <1>5 DEF Refresh

\* A mend of the profile leaves a good one, and a key if there was one.
LEMMA MendKeeps ==
  ASSUME ReadyInv, NEW h \in Harnesses, job[h].pc \in {"put", "create"}, Mended(h), AdminTypes',
         UNCHANGED <<setup, up, setupProfile, requires, resolved, keys>>,
         NEW p, p = job[h].profile, Exists(p)', requires[h] \subseteq tools'[p]
  PROVE  ReadyInv'
<1> DEFINE to == IF job[h].key = None THEN "key" ELSE "save"
           j  == [job[h] EXCEPT !.pc = to, !.fix = "none", !.base = {}, !.overtaken = FALSE]
<1>1. job[h] \in Jobs /\ JobInv(h) /\ Mends(h, j)
  BY DEF ReadyInv, JobTypes, Mended
<1>2. /\ j \in Jobs /\ j.pc = to /\ j.profile = job[h].profile /\ j.fix = "none" /\ j.key = job[h].key
      /\ j.calm = job[h].calm /\ j.provisioned = job[h].provisioned
  BY <1>1 DEF Jobs, Stage
<1>3. to \in {"key", "save"} /\ (to = "save" => job[h].key # None)
  OBVIOUS
<1> HIDE DEF j, to
<1>4. ASSUME job'[h] = j
      PROVE  JobInv(h)'
  <2>1. Course(h)'
    BY <1>1, <1>2, <1>3, <1>4 DEF JobInv, Course
  <2>2. Current(h)'
    BY <1>2, <1>4 DEF Current
  <2>3. Sure(h)'
    <3>1. Good(h)'
      BY <1>2, <1>4 DEF Good, Fits, Exists
    <3>2. job[h].calm /\ job[h].key # None => HasKey(h)'
      BY <1>1, <1>2, <1>4 DEF JobInv, Sure, HasKey
    <3>. QED
      BY <1>2, <1>4, <3>1, <3>2 DEF Sure
  <2>4. Settled(h)'
    BY <1>1, <1>2, <1>4 DEF JobInv, Settled
  <2>. QED
    BY <2>1, <2>2, <2>3, <2>4 DEF JobInv
<1>. QED
  BY <1>1, <1>2, <1>4, OwnStep DEF ReadyInv, JobTypes

LEMMA UpdateKeeps ==
  ASSUME ReadyInv, NEW h \in Harnesses, UpdateProfile(h)
  PROVE  ReadyInv'
<1> SUFFICES ASSUME NEW p, p = job[h].profile PROVE ReadyInv'
  OBVIOUS
<1> DEFINE t == job[h].base \cup requires[h]
<1>1. /\ job[h] \in Jobs /\ job[h].pc = "put" /\ p \in Profiles /\ requires[h] \in SUBSET Tools
      /\ tools \in [Profiles -> SUBSET Tools]
  BY DEF UpdateProfile, ReadyInv, JobTypes, JobInv, Course, AdminTypes
<1>2. t \in SUBSET Tools /\ ReplaceProfile(p, t) /\ Mended(h)
      /\ UNCHANGED <<setup, up, setupProfile, requires, resolved>>
  BY <1>1 DEF UpdateProfile, Jobs
<1>3. AdminTypes'
  BY <1>1, <1>2, ApiTypes DEF ReadyInv
<1>4. /\ UNCHANGED <<rows, gone, keys>> /\ Exists(p) /\ tools'[p] = t
  BY <1>1, <1>2 DEF ReplaceProfile
<1>5. Exists(p)' /\ requires[h] \subseteq tools'[p]
  BY SMTT(30), <1>4 DEF Exists
<1>. QED
  BY <1>1, <1>2, <1>3, <1>4, <1>5, MendKeeps

LEMMA CreateProfileKeeps ==
  ASSUME ReadyInv, NEW h \in Harnesses, CreateHarnessProfile(h)
  PROVE  ReadyInv'
<1> SUFFICES ASSUME NEW p, p = job[h].profile PROVE ReadyInv'
  OBVIOUS
<1>1. /\ job[h].pc = "create" /\ p \in Profiles /\ requires[h] \in SUBSET Tools
      /\ tools \in [Profiles -> SUBSET Tools] /\ rows \in [Engines -> Seq(Names)]
  BY DEF CreateHarnessProfile, ReadyInv, JobTypes, JobInv, Course, AdminTypes
<1>2. CreateProfile(p, requires[h]) /\ Mended(h) /\ UNCHANGED <<setup, up, setupProfile, requires, resolved>>
  BY DEF CreateHarnessProfile
<1>3. AdminTypes'
  BY <1>1, <1>2, ApiTypes DEF ReadyInv
<1>4. p[1] \in Engines /\ p[2] \in Names
  BY <1>1 DEF Profiles
<1>5. /\ UNCHANGED <<gone, keys>> /\ tools'[p] = requires[h] /\ p[2] \notin ToSet(rows[p[1]])
      /\ rows'[p[1]] = Append(rows[p[1]], p[2])
  BY SMTT(30), <1>1, <1>2, <1>4 DEF CreateProfile
<1>6. p \notin gone
  BY SMTT(30), <1>5 DEF ReadyInv, AdminTypes
<1>7. Exists(p)'
  BY <1>1, <1>4, <1>5, <1>6, Appended DEF Exists
<1>. QED
  BY <1>1, <1>2, <1>3, <1>5, <1>7, MendKeeps

LEMMA CreateKeyKeeps ==
  ASSUME ReadyInv, NEW h \in Harnesses, CreateHarnessKey(h)
  PROVE  ReadyInv'
<1> DEFINE j == [job[h] EXCEPT !.pc = "save", !.key = issued']
<1>1. /\ job[h] \in Jobs /\ JobInv(h) /\ job[h].pc = "key" /\ job[h].profile \in Profiles
      /\ CreateKey(job[h].profile) /\ Mends(h, j)
      /\ UNCHANGED <<setup, up, setupProfile, requires, resolved>>
  BY DEF CreateHarnessKey, ReadyInv, JobTypes, JobInv, Course
<1>2. {} \in SUBSET Tools
  OBVIOUS
<1>3. AdminTypes'
  BY <1>1, <1>2, ApiTypes DEF ReadyInv
<1>4. /\ issued' \in 1 .. MaxKeys /\ UNCHANGED <<rows, gone, tools>>
      /\ keys' = keys \cup {[id |-> issued', of |-> job[h].profile]}
  BY <1>1, SetupAssumption DEF CreateKey, ReadyInv, AdminTypes
<1>5. /\ j \in Jobs /\ j.pc = "save" /\ j.profile = job[h].profile /\ j.fix = job[h].fix /\ j.key = issued'
      /\ j.calm = job[h].calm /\ j.provisioned = job[h].provisioned
  BY <1>1, <1>4 DEF Jobs, Stage
<1> HIDE DEF j
<1>6. ASSUME job'[h] = j
      PROVE  JobInv(h)'
  <2>1. Course(h)'
    <3>1. issued' # None
      BY <1>4, SetupAssumption
    <3>. QED
      BY <1>1, <1>5, <1>6, <3>1 DEF JobInv, Course
  <2>2. Current(h)'
    BY <1>1, <1>5, <1>6 DEF JobInv, Course, Current
  <2>3. Sure(h)'
    <3>1. job[h].calm => Good(h)'
      BY <1>1, <1>4, <1>5, <1>6 DEF JobInv, Course, Sure, Good, Fits, Exists
    <3>2. HasKey(h)'
      <4>1. [id |-> issued', of |-> job[h].profile] \in keys'
        BY <1>4
      <4>. QED
        BY <1>5, <1>6, <4>1 DEF HasKey
    <3>. QED
      BY <1>5, <1>6, <3>1, <3>2 DEF Sure
  <2>4. Settled(h)'
    BY <1>1, <1>5, <1>6 DEF JobInv, Settled
  <2>. QED
    BY <2>1, <2>2, <2>3, <2>4 DEF JobInv
<1>. QED
  BY <1>1, <1>3, <1>5, <1>6, OwnStep DEF ReadyInv, JobTypes

LEMMA SaveKeeps ==
  ASSUME ReadyInv, NEW h \in Harnesses, SaveResolved(h)
  PROVE  ReadyInv'
<1> DEFINE r == [profile |-> job[h].profile, key |-> job[h].key]
<1>1. /\ job[h] \in Jobs /\ JobInv(h) /\ job[h].pc = "save" /\ resolved' = [resolved EXCEPT ![h] = r]
      /\ UNCHANGED <<admin, setup, up, setupProfile, requires>>
  BY DEF SaveResolved, ReadyInv, JobTypes, setupVars
<1>2. r \in Resolved
  BY <1>1, SetupAssumption DEF JobInv, Course, Jobs, Resolved
<1>3. /\ resolved' \in [Harnesses -> {None} \cup Resolved]
      /\ \A g \in Harnesses \ {h} : requires'[g] = requires[g] /\ resolved'[g] = resolved[g]
      /\ requires' \in [Harnesses -> {None} \cup SUBSET Tools]
  BY <1>1, <1>2 DEF ReadyInv, JobTypes
<1>4. CASE Goes(h, NoJob)
  BY <1>1, <1>3, <1>4, NoJobIs, Over, OwnStep DEF NoJobFields
<1>5. CASE Goes(h, [job[h] EXCEPT !.pc = "start", !.provisioned = FALSE])
  <2> DEFINE j == [job[h] EXCEPT !.pc = "start", !.provisioned = FALSE]
  <2>1. /\ j \in Jobs /\ j.pc = "start" /\ j.profile = job[h].profile /\ j.fix = job[h].fix /\ j.key = job[h].key
        /\ j.calm = job[h].calm /\ ~j.provisioned
    BY <1>1 DEF Jobs, Stage
  <2> HIDE DEF j
  <2>2. ASSUME job'[h] = j
        PROVE  JobInv(h)'
    <3>1. Course(h)' /\ Current(h)' /\ Settled(h)'
      BY <1>1, <2>1, <2>2 DEF JobInv, Course, Current, Settled
    <3>2. Sure(h)'
      BY <1>1, <2>1, <2>2 DEF JobInv, Sure, Good, Exists, Fits, HasKey, admin
    <3>. QED
      BY <3>1, <3>2 DEF JobInv
  <2>. QED
    BY <1>1, <1>3, <1>5, <2>1, <2>2, OwnStep DEF j
<1>. QED
  BY <1>4, <1>5 DEF SaveResolved

LEMMA RunUncheckedKeeps ==
  ASSUME ReadyInv, NEW h \in Harnesses, RunUnchecked(h)
  PROVE  ReadyInv'
<1> DEFINE j == [NoJob EXCEPT !.pc = "start", !.cmd = "no_ready",
                              !.profile = resolved[h].profile, !.key = resolved[h].key]
<1>1. /\ requires[h] # None /\ Goes(h, j) /\ resolved[h] \in Resolved
      /\ UNCHANGED <<admin, setup, up, setupProfile, requires, resolved>>
  BY DEF RunUnchecked, ReadyInv, JobTypes, setupVars
<1>2. /\ j \in Jobs /\ j.pc = "start" /\ j.profile \in Profiles /\ j.fix = "none" /\ j.key # None
      /\ ~j.calm /\ ~j.provisioned
  <2>1. resolved[h].profile \in Profiles /\ resolved[h].key \in 1 .. MaxKeys /\ resolved[h].key # None
    BY <1>1, SetupAssumption DEF Resolved
  <2>. QED
    BY <2>1, NoJobIs DEF NoJobFields, Jobs, Stage, Cmds
<1> HIDE DEF j
<1>3. ASSUME job'[h] = j
      PROVE  JobInv(h)'
  BY <1>1, <1>2, <1>3 DEF JobInv, Course, Current, Sure, Settled
<1>. QED
  BY <1>1, <1>2, <1>3, OwnStep DEF ReadyInv, JobTypes

-----------------------------------------------------------------------------
(* The invariant is inductive.                                             *)

LEMMA ReadyStart == Init => ReadyInv
<1> SUFFICES ASSUME Init PROVE ReadyInv
  OBVIOUS
<1>1. AdminTypes
  BY SetupAssumption DEF Init, SetupInit, AdminTypes, ToSet, IsInjective
<1>2. RunTypes
  BY DEF Init, SetupInit, RunTypes, SetupRuns, Idle, Steps
<1>3. JobTypes
  BY NoJobIs DEF Init, JobTypes, NoJobFields
<1>4. ASSUME NEW h \in Harnesses PROVE JobInv(h)
  BY NoJobIs DEF Init, NoJobFields, JobInv, Course, Current, Sure, Settled
<1>. QED
  BY <1>1, <1>2, <1>3, <1>4 DEF ReadyInv

LEMMA ReadyStep ==
  ASSUME ReadyInv, [Next]_vars
  PROVE  ReadyInv'
<1>1. ASSUME NEW h \in Harnesses, JobNext(h)
      PROVE  ReadyInv'
  BY <1>1, BuildKeeps, ListProfilesKeeps, ListKeysKeeps, RefreshKeeps, UpdateKeeps, CreateProfileKeeps,
     CreateKeyKeeps, SaveKeeps, RunUncheckedKeeps, CutKeeps DEF JobNext
<1>2. CASE /\ SetupNext \/ OperatorNext
           /\ UNCHANGED <<requires, resolved>> /\ job' = [g \in Harnesses |-> Seen(g)]
  <2>1. AdminTypes' /\ RunTypes'
    BY <1>2, RunKeepsTypes, OperatorKeepsTypes DEF ReadyInv
  <2>2. \A g \in Harnesses : job[g] \in Jobs /\ Elsewhere(g)
    BY <1>2 DEF ReadyInv, JobTypes, Elsewhere
  <2>3. \A g \in Harnesses : job'[g] \in Jobs /\ JobInv(g)'
    BY <2>2, SeenFrom, ElsewhereKeeps DEF ReadyInv
  <2>4. JobTypes'
    BY <1>2, <2>3 DEF ReadyInv, JobTypes
  <2>. QED
    BY <2>1, <2>3, <2>4 DEF ReadyInv
<1>3. CASE UNCHANGED vars
  <2>1. UNCHANGED <<admin, setup, up, setupProfile, requires, resolved, job>>
    BY <1>3 DEF vars, setupVars
  <2>2. \A g \in Harnesses : Elsewhere(g)
    BY <2>1 DEF Elsewhere
  <2>3. \A g \in Harnesses : JobInv(g)'
    BY <2>2, ElsewhereKeeps DEF ReadyInv, JobTypes
  <2>. QED
    BY <2>1, <2>3, StillTypes DEF ReadyInv, RunTypes, JobTypes
<1>. QED
  BY <1>1, <1>2, <1>3 DEF Next

\* The jobs leave the files and the run of setup alone.
LEMMA FilesStep == Inv /\ [Next]_vars => Inv'
<1> SUFFICES ASSUME Inv, [Next]_vars PROVE Inv'
  OBVIOUS
<1>1. CASE SetupNext
  BY <1>1, SetupKeepsInv
<1>2. CASE UNCHANGED <<disk, setup>>
  BY <1>2, StillKeepsInv DEF Inv, FileTypes
<1>3. ASSUME NEW h \in Harnesses, JobNext(h)
      PROVE  UNCHANGED <<disk, setup>>
  <2>1. ASSUME NEW cmd, ListProfiles(h, cmd)
        PROVE  UNCHANGED <<disk, setup>>
    BY <2>1 DEF ListProfiles, setupVars
  <2>2. CASE Build(h) \/ ListKeys(h) \/ SaveResolved(h) \/ RunUnchecked(h) \/ StartHarness(h) \/ CutJob(h)
    BY <2>2 DEF Build, ListKeys, SaveResolved, RunUnchecked, StartHarness, CutJob, setupVars
  <2>3. CASE Refresh(h)
    BY <2>3 DEF Refresh, Refreshed, setupVars
  <2>4. CASE UpdateProfile(h) \/ CreateHarnessProfile(h) \/ CreateHarnessKey(h)
    BY <2>4 DEF UpdateProfile, CreateHarnessProfile, CreateHarnessKey
  <2>. QED
    BY <1>3, <2>1, <2>2, <2>3, <2>4 DEF JobNext
<1>4. CASE OperatorNext
  BY <1>2, <1>4 DEF OperatorNext
<1>5. CASE UNCHANGED vars
  BY <1>2, <1>5 DEF vars, setupVars
<1>. QED
  BY <1>1, <1>2, <1>3, <1>4, <1>5 DEF Next

LEMMA ReadyInvariance == Spec => []ReadyInv
BY ReadyStart, ReadyStep, PTL DEF Spec

LEMMA FilesInvariance == Spec => []Inv
<1>1. Init => Inv
  BY InitInv DEF Init
<1>. QED
  BY <1>1, FilesStep, PTL DEF Spec

-----------------------------------------------------------------------------
\* The type invariant of setup, the server's profiles and keys, and the jobs.
THEOREM ReadyTypes == Spec => []TypeOK
<1>1. ReadyInv /\ Inv => TypeOK
  <2> SUFFICES ASSUME ReadyInv, Inv PROVE TypeOK
    OBVIOUS
  <2>1. SetupTypeOK
    BY DEF ReadyInv, AdminTypes, RunTypes, SetupRuns, Inv, FileTypes, SetupTypeOK
  <2>2. \A h \in Harnesses : job[h] \in Jobs /\ (job[h].pc \in {"save", "start"} => job[h].profile # None /\ job[h].key # None)
    <3> TAKE h \in Harnesses
    <3>1. job[h].pc \in {"save", "start"} => job[h].profile \in Profiles /\ job[h].key # None
      BY DEF ReadyInv, JobInv, Course
    <3>2. \A p \in Profiles : p # None
      BY ReadinessAssumption
    <3>. QED
      BY <3>1, <3>2 DEF ReadyInv, JobTypes
  <2>. QED
    BY <2>1, <2>2 DEF TypeOK, Jobs, ReadyInv, JobTypes
<1>. QED
  BY <1>1, ReadyInvariance, FilesInvariance, PTL

\* write_all_files' order: whatever the runs, the answers and the cuts, the
\* three files of a deployment are whole and of one set where they are there,
\* unless such a set was being replaced.
THEOREM FilesWhole == Spec => []SavedIsWhole
<1>1. Inv => SavedIsWhole
  BY CompleteMeans DEF Inv, Whole, Launched, SavedIsWhole
<1>. QED
  BY <1>1, FilesInvariance, PTL

\* A step of another job leaves a job where it is.
LEMMA OthersWait ==
  ASSUME JobTypes, NEW h \in Harnesses, NEW g \in Harnesses \ {h}, JobNext(g)
  PROVE  job'[h].pc = job[h].pc
<1>1. job \in [Harnesses -> Jobs]
  BY DEF JobTypes
<1>2. ASSUME NEW j, Goes(g, j)
      PROVE  job'[h].pc = job[h].pc
  BY <1>1, <1>2 DEF Goes
<1>3. ASSUME NEW j, Mends(g, j)
      PROVE  job'[h].pc = job[h].pc
  <2>1. job'[h] = Seen(h) /\ job[h] \in Jobs
    BY <1>1, <1>3 DEF Mends
  <2>. QED
    BY <2>1 DEF Seen, Jobs
<1>4. CASE Build(g)
  BY <1>4 DEF Build
<1>5. ASSUME NEW cmd, ListProfiles(g, cmd)
      PROVE  job'[h].pc = job[h].pc
  BY <1>2, <1>5 DEF ListProfiles
<1>6. CASE ListKeys(g) \/ SaveResolved(g) \/ RunUnchecked(g) \/ StartHarness(g) \/ CutJob(g)
  BY <1>2, <1>6 DEF ListKeys, SaveResolved, RunUnchecked, StartHarness, CutJob
<1>7. CASE Refresh(g)
  BY <1>2, <1>7 DEF Refresh, Refreshed
<1>8. CASE UpdateProfile(g) \/ CreateHarnessProfile(g) \/ CreateHarnessKey(g)
  BY <1>3, <1>8 DEF UpdateProfile, CreateHarnessProfile, CreateHarnessKey, Mended
<1>. QED
  BY <1>4, <1>5, <1>6, <1>7, <1>8 DEF JobNext

\* apply_update: a widened profile keeps what others have put there, unless they
\* did between the refresh and the write, whose union is of what was read.
THEOREM WideningKeeps == Spec => WideningKeepsOthers
<1> DEFINE Widened(h) ==
             job[h].pc = "put" /\ job'[h].pc # "put" /\ ~job[h].overtaken
               => \A p \in Profiles : tools[p] \subseteq tools'[p]
<1>1. ASSUME ReadyInv, Next, NEW h \in Harnesses
      PROVE  Widened(h)
  <2> SUFFICES ASSUME job[h].pc = "put", job'[h].pc # "put", ~job[h].overtaken, NEW p \in Profiles
               PROVE  tools[p] \subseteq tools'[p]
    OBVIOUS
  <2>1. JobInv(h) /\ job \in [Harnesses -> Jobs] /\ tools \in [Profiles -> SUBSET Tools]
    BY <1>1 DEF ReadyInv, JobTypes, AdminTypes
  <2>2. CASE UpdateProfile(h)
    <3>1. job[h].base = tools[job[h].profile]
      BY <2>1 DEF JobInv, Course, Current
    <3>2. tools' = [tools EXCEPT ![job[h].profile] = job[h].base \cup requires[h]]
      BY <2>2 DEF UpdateProfile, ReplaceProfile
    <3>. QED
      BY <2>1, <3>1, <3>2
  <2>3. CASE CutJob(h)
    BY <2>3 DEF CutJob, setupVars, admin
  <2>4. CASE JobNext(h)
    <3>1. UpdateProfile(h) \/ CutJob(h)
      BY <2>4 DEF JobNext, Build, ListProfiles, ListKeys, Refresh, Refreshed, CreateHarnessProfile,
                  CreateHarnessKey, SaveResolved, RunUnchecked, StartHarness
    <3>. QED
      BY <2>2, <2>3, <3>1
  <2>5. ASSUME NEW g \in Harnesses \ {h}, JobNext(g)
        PROVE  FALSE
    BY <1>1, <2>5, OthersWait DEF ReadyInv
  <2>6. CASE job' = [g \in Harnesses |-> Seen(g)]
    <3>1. job'[h] = Seen(h) /\ job[h] \in Jobs
      BY <2>1, <2>6
    <3>. QED
      BY <3>1 DEF Seen, Jobs
  <2>. QED
    BY <1>1, <2>4, <2>5, <2>6 DEF Next
<1>2. ReadyInv /\ [Next]_vars => [\A h \in Harnesses : Widened(h)]_vars
  BY <1>1
<1>. QED
  BY <1>2, ReadyInvariance, PTL DEF Spec, WideningKeepsOthers

\* evaluate, pick and key_reuse: a harness whose own profile will do and whose key
\* is there is settled by what the job reads first, and mends nothing afterwards.
THEOREM SecondRun == Spec => []SecondRunChangesNothing
<1>1. ReadyInv => SecondRunChangesNothing
  BY DEF ReadyInv, JobInv, Settled, SecondRunChangesNothing
<1>. QED
  BY <1>1, ReadyInvariance, PTL

\* run: the harness is handed a key that works, of a profile that allows what it
\* needs, while nobody else changes the server between the checks and the start.
THEOREM HandedKey == Spec => []HandedKeyWorks
<1>1. ReadyInv => HandedKeyWorks
  <2> SUFFICES ASSUME ReadyInv, NEW h \in Harnesses, job[h].pc = "start", job[h].calm
               PROVE  \E k \in keys : k.id = job[h].key /\ Exists(k.of) /\ Fits(h, k.of)
    BY DEF HandedKeyWorks
  <2>1. Good(h) /\ HasKey(h)
    BY DEF ReadyInv, JobInv, Course, Sure
  <2>2. PICK k \in keys : k.id = job[h].key /\ k.of = job[h].profile
    BY <2>1 DEF HasKey
  <2>3. Exists(k.of) /\ Fits(h, k.of)
    BY <2>1, <2>2 DEF Good
  <2>. QED
    BY <2>2, <2>3
<1>. QED
  BY <1>1, ReadyInvariance, PTL

-----------------------------------------------------------------------------
(***************************************************************************)
(* The schedule launcher, for any agents, fires and children.              *)
(*                                                                         *)
(* The flag of an agent is what keeps its fires apart: whoever is between  *)
(* the fire and the end has set it, and nobody else may be there.  Only    *)
(* then can the one that ends clear it without letting a second in.        *)
(***************************************************************************)

Stages == {"idle", "claimed", "spawn", "wait", "ended", "aborting"}
Busy   == {"claimed", "spawn", "wait", "ended"}

Flagged == \A r \in Runs : step[r] \in Busy => AgentOf[r] \in running
Alone   == \A r, q \in Runs :
             step[r] \in Busy /\ step[q] \in Busy /\ AgentOf[r] = AgentOf[q] => r = q

LaunchInv ==
  /\ step \in [Runs -> Stages]
  /\ kind = "schedule" => Flagged /\ Alone

LEMMA FlagsInit == LaunchInit => LaunchInv
BY DEF LaunchInit, LaunchInv, Flagged, Alone, Busy, Stages

\* A run goes from one step to a busy one without a look at the flag, or to one
\* that is not busy and keeps it.
LEMMA MoveKeeps ==
  ASSUME LaunchInv, NEW r \in Runs, NEW to \in Stages, step[r] \in Busy \/ to \notin Busy,
         step' = [step EXCEPT ![r] = to], UNCHANGED <<kind, running>>
  PROVE  LaunchInv'
BY DEF LaunchInv, Flagged, Alone, Busy, Stages

\* A busy run leaves, and takes its flag along.
LEMMA LeaveKeeps ==
  ASSUME LaunchInv, NEW r \in Runs, step[r] \in Busy, step' = [step EXCEPT ![r] = "idle"],
         running' = running \ {AgentOf[r]}, UNCHANGED kind
  PROVE  LaunchInv'
BY DEF LaunchInv, Flagged, Alone, Busy, Stages

LEMMA FireKeeps == ASSUME LaunchInv, NEW r \in Runs, Fire(r) PROVE LaunchInv'
BY DEF LaunchInv, Fire, Flagged, Alone, Busy, Stages

LEMMA StopKeeps ==
  ASSUME LaunchInv, NEW to \in Stages \ Busy, NEW some \in SUBSET Runs,
         step' = [r \in Runs |-> IF r \in some THEN to ELSE step[r]], UNCHANGED <<kind, running>>
  PROVE  LaunchInv'
BY DEF LaunchInv, Flagged, Alone, Busy, Stages

LEMMA StillKeeps == ASSUME LaunchInv, UNCHANGED <<kind, running, step>> PROVE LaunchInv'
BY DEF LaunchInv, Flagged, Alone

LEMMA RunKeeps == ASSUME LaunchInv, NEW r \in Runs, RunStep(r) PROVE LaunchInv'
<1>1. CASE Claim(r)
  <2>1. CASE Accepting
    BY <1>1, <2>1, MoveKeeps, "spawn" \in Stages DEF Claim, Busy, Stages
  <2>2. CASE ~Accepting BY <1>1, <2>2, LeaveKeeps DEF Claim, Busy
  <2> QED BY <2>1, <2>2
<1>2. CASE NoEnv(r) BY <1>2, LeaveKeeps DEF NoEnv, Busy
<1>3. CASE Return(r) BY <1>3, LeaveKeeps DEF Return, Busy
<1>4. CASE Aborted(r)
  BY <1>4, MoveKeeps, "idle" \in Stages, "idle" \notin Busy DEF Aborted, Busy, Stages
<1>5. CASE Spawn(r)
  <2>1. /\ step[r] \in Busy /\ UNCHANGED <<kind, running>>
        /\ \E to \in Stages : step' = [step EXCEPT ![r] = to]
    BY <1>5 DEF Spawn, Busy, Stages
  <2> QED BY <2>1, MoveKeeps
<1>6. CASE Exited(r) BY <1>6, MoveKeeps, "ended" \in Stages DEF Exited, Busy, Stages
<1>7. CASE \E s \in Streams : Read(<<r, s>>) \/ EndRead(<<r, s>>)
  BY <1>7, StillKeeps DEF Read, EndRead, child
<1> QED BY <1>1, <1>2, <1>3, <1>4, <1>5, <1>6, <1>7 DEF RunStep

LEMMA LaunchKeeps == LaunchInv /\ [LaunchNext]_launchVars => LaunchInv'
<1> SUFFICES ASSUME LaunchInv, [LaunchNext]_launchVars PROVE LaunchInv'
  OBVIOUS
<1>1. CASE UNCHANGED launchVars BY <1>1, StillKeeps DEF launchVars
<1>2. ASSUME NEW r \in Runs, Trigger(r) PROVE LaunchInv'
  BY <1>2 DEF Trigger, LaunchInv, Stages
<1>3. ASSUME NEW r \in Runs, Disconnect(r) PROVE LaunchInv'
  BY <1>3 DEF Disconnect, LaunchInv, Stages
<1>4. ASSUME NEW r \in Runs, ExitChild(r) PROVE LaunchInv'
  BY <1>4, StillKeeps DEF ExitChild
<1>5. ASSUME NEW p \in Pipes, Write(p) \/ ClosePipe(p) PROVE LaunchInv'
  BY <1>5, StillKeeps DEF Write, ClosePipe
<1>6. CASE Signal \/ BeginGrace BY <1>6, StillKeeps DEF Signal, BeginGrace
<1>7. CASE TimeUp
  BY <1>7, StopKeeps, "aborting" \in Stages \ Busy, Invocations \in SUBSET Runs
     DEF TimeUp, Invocations, Stages, Busy
<1>8. CASE Exit
  <2>1. step' = [r \in Runs |-> IF r \in Runs THEN "idle" ELSE step[r]] BY <1>8 DEF Exit
  <2> QED BY <1>8, <2>1, StopKeeps, "idle" \in Stages \ Busy, Runs \in SUBSET Runs
          DEF Exit, Stages, Busy
<1> QED BY <1>1, <1>2, <1>3, <1>4, <1>5, <1>6, <1>7, <1>8, FireKeeps, RunKeeps
        DEF LaunchNext, Shutdown

\* schedule_job and InvocationGuard: two fires of one agent are never under way
\* together, however fires, children, the signal and the grace period fall.
THEOREM Overlap == LaunchSpec => []OneAtATime
<1>1. LaunchInv => OneAtATime
  BY DEF LaunchInv, Alone, OneAtATime, Invocations, Busy
<1> QED BY FlagsInit, LaunchKeeps, <1>1, PTL DEF LaunchSpec

-----------------------------------------------------------------------------
(***************************************************************************)
(* What a child writes, and what the consumer gets of it.                  *)
(***************************************************************************)

LEMMA CapIs ==
  ASSUME NEW line \in Seq(Bytes)
  PROVE  /\ Cap(line) \in Line /\ Chomp(line) \in Seq(Bytes)
         /\ Cap(line).cut = (Len(line) > MaxLineLen)
         /\ Cap(line).text = SubSeq(line, 1, IF Len(line) > MaxLineLen THEN MaxLineLen ELSE Len(line))
         /\ Len(Chomp(line)) \in {Len(line), Len(line) - 1}
         /\ \A i \in 1 .. Len(Chomp(line)) : Chomp(line)[i] = line[i]
<1>1. Len(line) \in Nat /\ MaxLineLen \in Nat /\ \A i \in 1 .. Len(line) : line[i] \in Bytes
  BY LaunchAssumption
<1> DEFINE to   == IF Len(line) > MaxLineLen THEN MaxLineLen ELSE Len(line)
           text == SubSeq(line, 1, to)
           cut  == Len(line) > MaxLineLen
<1>2. Cap(line) = [text |-> text, cut |-> cut]
  BY DEF Cap
<1>3. to \in 0 .. Len(line)
  BY <1>1
<1> HIDE DEF to
<1>4. text \in Seq(Bytes)
  BY <1>1, <1>3, SubSeqProperties
<1> HIDE DEF text
<1>5. Cap(line) \in Line /\ Cap(line).cut = cut /\ Cap(line).text = text
  BY <1>2, <1>4 DEF Line
<1>6. CASE line # <<>> /\ Last(line) = "cr"
  <2> DEFINE front == SubSeq(line, 1, Len(line) - 1)
  <2>1. Chomp(line) = front
    BY <1>6 DEF Chomp, Front
  <2>2. Len(line) # 0
    BY <1>6, EmptySeq
  <2>3. front \in Seq(Bytes) /\ Len(front) = Len(line) - 1 /\ \A i \in 1 .. Len(line) - 1 : front[i] = line[i]
    <3>1. /\ front \in Seq(Bytes)
          /\ Len(front) = IF 1 <= Len(line) - 1 THEN Len(line) - 1 - 1 + 1 ELSE 0
          /\ \A i \in 1 .. Len(line) - 1 - 1 + 1 : front[i] = line[1 + i - 1]
      <4>1. \A i \in 1 .. Len(line) - 1 : line[i] \in Bytes
        BY <1>1
      <4>. QED
        BY <1>1, <4>1, SubSeqProperties
    <3> HIDE DEF front
    <3>2. Len(front) = Len(line) - 1
      <4>1. \A l \in Nat \ {0} : (IF 1 <= l - 1 THEN l - 1 - 1 + 1 ELSE 0) = l - 1
        OBVIOUS
      <4>2. Len(line) \in Nat \ {0}
        BY <1>1, <2>2
      <4>. QED
        BY <3>1, <4>1, <4>2
    <3>3. ASSUME NEW i \in 1 .. Len(line) - 1 PROVE front[i] = line[i]
      <4>1. i \in 1 .. Len(line) - 1 - 1 + 1 /\ 1 + i - 1 = i
        BY <1>1
      <4>. QED
        BY <3>1, <4>1
    <3>. QED
      BY <3>1, <3>2, <3>3
  <2> HIDE DEF front
  <2>. QED
    BY <1>5, <2>1, <2>3 DEF text, to, cut
<1>7. CASE ~(line # <<>> /\ Last(line) = "cr")
  BY <1>5, <1>7 DEF Chomp, text, to, cut
<1>. QED
  BY <1>6, <1>7

\* What is cut depends on the bytes up to the limit alone.
LEMMA CutIs ==
  ASSUME NEW k \in Seq(Bytes), NEW l \in Seq(Bytes), Len(k) > MaxLineLen, Len(l) > MaxLineLen,
         \A i \in 1 .. MaxLineLen : k[i] = l[i]
  PROVE  Cap(k) = Cap(l)
<1>1. Len(k) \in Nat /\ Len(l) \in Nat /\ MaxLineLen \in Nat
  BY LaunchAssumption
<1>2. SubSeq(k, 1, MaxLineLen) = SubSeq(l, 1, MaxLineLen)
  <2>1. (\A i \in 1 .. MaxLineLen : k[i] \in Bytes) /\ (\A i \in 1 .. MaxLineLen : l[i] \in Bytes)
    BY <1>1
  <2>2. /\ SubSeq(k, 1, MaxLineLen) \in Seq(Bytes)
        /\ Len(SubSeq(k, 1, MaxLineLen)) = IF 1 <= MaxLineLen THEN MaxLineLen - 1 + 1 ELSE 0
        /\ \A i \in 1 .. MaxLineLen - 1 + 1 : SubSeq(k, 1, MaxLineLen)[i] = k[1 + i - 1]
    BY <1>1, <2>1, SubSeqProperties
  <2>3. /\ SubSeq(l, 1, MaxLineLen) \in Seq(Bytes)
        /\ Len(SubSeq(l, 1, MaxLineLen)) = IF 1 <= MaxLineLen THEN MaxLineLen - 1 + 1 ELSE 0
        /\ \A i \in 1 .. MaxLineLen - 1 + 1 : SubSeq(l, 1, MaxLineLen)[i] = l[1 + i - 1]
    BY <1>1, <2>1, SubSeqProperties
  <2>. QED
    BY <1>1, <2>2, <2>3, SeqEqual
<1>. QED
  BY <1>1, <1>2 DEF Cap

\* A carriage return does not matter to a line that is too long by more than it.
LEMMA ChompIsCut ==
  ASSUME NEW line \in Seq(Bytes), Len(line) > LineBytesMax
  PROVE  Cap(Chomp(line)) = Cap(line)
<1> DEFINE c == Chomp(line)
<1>1. /\ c \in Seq(Bytes) /\ Len(c) \in {Len(line), Len(line) - 1} /\ \A i \in 1 .. Len(c) : c[i] = line[i]
      /\ Len(line) \in Nat /\ MaxLineLen \in Nat /\ LineBytesMax \in Nat /\ MaxLineLen < LineBytesMax
  BY CapIs, LaunchAssumption
<1> HIDE DEF c
<1>2. Len(c) > MaxLineLen /\ Len(line) > MaxLineLen /\ \A i \in 1 .. MaxLineLen : c[i] = line[i]
  BY SMTT(30), <1>1
<1>3. Cap(c) = Cap(line)
  BY <1>1, <1>2, CutIs
<1>. QED
  BY <1>3 DEF c

\* Where the last line ended.
LEMMA LastEndIs ==
  ASSUME NEW w, NEW n \in Nat
  PROVE  /\ LastEnd(w, n) \in 0 .. n /\ (LastEnd(w, n) # 0 => w[LastEnd(w, n)] = "nl")
         /\ \A i \in 1 .. n : w[i] = "nl" => i <= LastEnd(w, n)
<1> DEFINE E == {0} \cup {i \in 1 .. n : w[i] = "nl"}
<1>1. PICK m \in E : \A i \in E : m >= i
  <2>1. E \in SUBSET (0 .. n) /\ E # {}
    OBVIOUS
  <2> HIDE DEF E
  <2>. QED
    BY <2>1, Greatest
<1> HIDE DEF E
<1>2. Max(E) \in E /\ \A i \in E : Max(E) >= i
  BY <1>1 DEF Max
<1>3. LastEnd(w, n) = Max(E)
  BY DEF LastEnd, E
<1> DEFINE e == Max(E)
<1>4. e \in E /\ (\A i \in E : e >= i) /\ LastEnd(w, n) = e
  BY <1>2, <1>3
<1> HIDE DEF e
<1>5. e \in 0 .. n /\ (e # 0 => w[e] = "nl") /\ \A i \in 1 .. n : w[i] = "nl" => e >= i
  BY <1>4 DEF E
<1>. QED
  BY <1>4, <1>5

LEMMA LastEndStep ==
  ASSUME NEW w, NEW n \in Nat \ {0}
  PROVE  LastEnd(w, n) = IF w[n] = "nl" THEN n ELSE LastEnd(w, n - 1)
<1> DEFINE e == LastEnd(w, n)
           f == LastEnd(w, n - 1)
<1>1. e \in 0 .. n /\ (e # 0 => w[e] = "nl") /\ \A i \in 1 .. n : w[i] = "nl" => i <= e
  BY LastEndIs
<1>2. f \in 0 .. n - 1 /\ (f # 0 => w[f] = "nl") /\ \A i \in 1 .. n - 1 : w[i] = "nl" => i <= f
  BY n - 1 \in Nat, LastEndIs
<1> HIDE DEF e, f
<1>3. CASE w[n] = "nl"
  BY <1>1, <1>3 DEF e
<1>4. CASE w[n] # "nl"
  <2>1. e # n
    BY <1>1, <1>4
  <2>2. e <= f
    <3>1. e # 0 => e \in 1 .. n - 1
      BY <1>1, <2>1
    <3>. QED
      BY <1>1, <1>2, <3>1
  <2>3. f <= e
    <3>1. f # 0 => f \in 1 .. n
      BY <1>2
    <3>. QED
      BY <1>1, <1>2, <3>1
  <2>. QED
    BY <1>1, <1>2, <1>4, <2>2, <2>3 DEF e, f
<1>. QED
  BY <1>3, <1>4

\* Two sequences that agree up to b agree in what is between a and b.
LEMMA SameBetween ==
  ASSUME NEW w \in Seq(Bytes), NEW v \in Seq(Bytes), NEW a \in Nat \ {0}, NEW b \in Nat,
         b <= Len(w), b <= Len(v), \A i \in 1 .. b : w[i] = v[i]
  PROVE  SubSeq(w, a, b) = SubSeq(v, a, b)
<1>1. (\A i \in a .. b : w[i] \in Bytes) /\ (\A i \in a .. b : v[i] \in Bytes)
  OBVIOUS
<1>2. /\ SubSeq(w, a, b) \in Seq(Bytes) /\ Len(SubSeq(w, a, b)) = (IF a <= b THEN b - a + 1 ELSE 0)
      /\ \A i \in 1 .. b - a + 1 : SubSeq(w, a, b)[i] = w[a + i - 1]
  BY <1>1, SubSeqProperties
<1>3. /\ SubSeq(v, a, b) \in Seq(Bytes) /\ Len(SubSeq(v, a, b)) = (IF a <= b THEN b - a + 1 ELSE 0)
      /\ \A i \in 1 .. b - a + 1 : SubSeq(v, a, b)[i] = v[a + i - 1]
  BY <1>1, SubSeqProperties
<1> DEFINE p == SubSeq(w, a, b)
           q == SubSeq(v, a, b)
<1>4. /\ p \in Seq(Bytes) /\ Len(p) = (IF a <= b THEN b - a + 1 ELSE 0)
      /\ \A i \in 1 .. b - a + 1 : p[i] = w[a + i - 1]
      /\ q \in Seq(Bytes) /\ Len(q) = (IF a <= b THEN b - a + 1 ELSE 0)
      /\ \A i \in 1 .. b - a + 1 : q[i] = v[a + i - 1]
  BY <1>2, <1>3
<1> HIDE DEF p, q
<1>5. ASSUME NEW i \in 1 .. Len(p) PROVE p[i] = q[i]
  <2>1. i \in 1 .. b - a + 1 /\ a + i - 1 \in 1 .. b
    BY <1>4
  <2>. QED
    BY <1>4, <2>1
<1>6. p = q
  BY <1>4, <1>5, SeqEqual
<1>. QED
  BY <1>6 DEF p, q

\* Line by line.
NextLines(lines, w, n) ==
  IF w[n] # "nl" THEN lines
  ELSE Append(lines, Cap(Chomp(SubSeq(w, LastEnd(w, n - 1) + 1, n - 1))))

LEMMA BetweenIs ==
  ASSUME NEW w \in Seq(Bytes), NEW a \in Nat, NEW b \in 0 .. Len(w), a <= b
  PROVE  LET p == SubSeq(w, a + 1, b)
         IN  /\ p \in Seq(Bytes) /\ Len(p) = b - a /\ \A i \in 1 .. b - a : p[i] = w[a + i]
             /\ p = <<>> <=> a = b
<1> DEFINE p == SubSeq(w, a + 1, b)
<1>1. \A i \in a + 1 .. b : w[i] \in Bytes
  OBVIOUS
<1>2. /\ p \in Seq(Bytes) /\ Len(p) = (IF a + 1 <= b THEN b - (a + 1) + 1 ELSE 0)
      /\ \A i \in 1 .. b - (a + 1) + 1 : p[i] = w[a + 1 + i - 1]
  BY <1>1, SubSeqProperties
<1> HIDE DEF p
<1>3. /\ Len(p) = b - a /\ \A i \in 1 .. b - a : p[i] = w[a + i]
  <2>1. Len(p) = b - a
    BY <1>2
  <2>2. ASSUME NEW i \in 1 .. b - a PROVE p[i] = w[a + i]
    <3>1. i \in 1 .. b - (a + 1) + 1 /\ a + 1 + i - 1 = a + i
      OBVIOUS
    <3>. QED
      BY <1>2, <3>1
  <2>. QED
    BY <2>1, <2>2
<1>4. p = <<>> <=> Len(p) = 0
  BY <1>2, EmptySeq
<1>. QED
  BY <1>2, <1>3, <1>4 DEF p

LEMMA NextLinesTypes ==
  ASSUME NEW w \in Seq(Bytes), NEW n \in 1 .. Len(w), NEW lines \in Seq(Line)
  PROVE  NextLines(lines, w, n) \in Seq(Line)
<1> DEFINE p == SubSeq(w, LastEnd(w, n - 1) + 1, n - 1)
<1>1. p \in Seq(Bytes)
  <2>1. n - 1 \in Nat /\ n - 1 \in 0 .. Len(w)
    OBVIOUS
  <2>2. LastEnd(w, n - 1) \in 0 .. n - 1
    BY <2>1, LastEndIs
  <2> DEFINE a == LastEnd(w, n - 1)
             b == n - 1
  <2>3. a \in Nat /\ b \in 0 .. Len(w) /\ a <= b
    BY <2>1, <2>2
  <2> HIDE DEF a, b
  <2>4. SubSeq(w, a + 1, b) \in Seq(Bytes)
    BY <2>3, BetweenIs
  <2>. QED
    BY <2>4 DEF a, b
<1> HIDE DEF p
<1>2. Cap(Chomp(p)) \in Line
  BY <1>1, CapIs
<1> DEFINE l == Cap(Chomp(p))
<1> HIDE DEF l
<1>3. Append(lines, l) \in Seq(Line)
  BY <1>2, AppendProperties DEF l
<1>. QED
  BY <1>3 DEF NextLines, p, l

LEMMA WholeSteps ==
  ASSUME NEW w \in Seq(Bytes)
  PROVE  \E lines \in [0 .. Len(w) -> Seq(Line)] :
           /\ lines[0] = <<>>
           /\ \A n \in 1 .. Len(w) : lines[n] = NextLines(lines[n - 1], w, n)
           /\ \A n \in 0 .. Len(w) : WholeLines(w, n) = lines[n]
<1> DEFINE N == Len(w)
           S == Seq(Line)
           F == [n \in 1 .. N |-> [x \in S |-> NextLines(x, w, n)]]
           Is(g) == g = [i \in 0 .. N |->
                           IF i = 0 THEN <<>>
                           ELSE IF w[i] # "nl" THEN g[i - 1]
                           ELSE Append(g[i - 1], Cap(Chomp(SubSeq(w, LastEnd(w, i - 1) + 1, i - 1))))]
           lines == CHOOSE g : Is(g)
<1>1. \A n \in 0 .. N : WholeLines(w, n) = lines[n]
  BY DEF WholeLines
<1>2. N \in Nat /\ <<>> \in S /\ \A n \in 1 .. N : w[n] \in Bytes
  BY EmptySeq
<1>3. \A n \in 1 .. N : \A x \in S : NextLines(x, w, n) \in S
  BY <1>2, NextLinesTypes
<1>4. PICK g : Obeys(g, <<>>, F, S, N)
  <2>1. Rule(F, S, N)
    BY <1>3 DEF Rule
  <2> HIDE DEF S, F, N
  <2>. QED
    BY <1>2, <2>1, Recursion
<1>5. g \in [0 .. N -> S] /\ g[0] = <<>> /\ \A n \in 1 .. N : g[n] = F[n][g[n - 1]]
  BY <1>4 DEF Obeys
<1>6. ASSUME NEW n \in 1 .. N
      PROVE  g[n] = NextLines(g[n - 1], w, n)
  <2>1. n - 1 \in 0 .. N
    BY <1>2
  <2>2. g \in [0 .. N -> S]
    BY <1>5
  <2>3. g[n - 1] \in S
    <3> HIDE DEF S, N
    <3>. QED
      BY <2>1, <2>2
  <2>. QED
    BY <1>5, <2>3
<1>7. Is(g)
  <2> HIDE DEF F, S, N
  <2>1. ASSUME NEW n \in 0 .. N, n # 0
        PROVE  g[n] = NextLines(g[n - 1], w, n)
    <3>1. n \in 1 .. N
      BY <1>2, <2>1
    <3>. QED
      BY Zenon, <1>6, <3>1
  <2>. QED
    BY <1>5, <2>1 DEF NextLines
<1>8. Is(lines)
  BY Zenon, <1>7
<1>9. /\ lines[0] = <<>> /\ lines = [n \in 0 .. N |-> lines[n]]
      /\ \A n \in 1 .. N : lines[n] = NextLines(lines[n - 1], w, n)
  <2> HIDE DEF lines, N
  <2>1. lines[0] = <<>> /\ lines = [n \in 0 .. N |-> lines[n]]
    BY <1>2, <1>8
  <2>2. ASSUME NEW n \in 1 .. N
        PROVE  lines[n] = NextLines(lines[n - 1], w, n)
    <3>1. n \in 0 .. N /\ n # 0
      BY <1>2
    <3>. QED
      BY Zenon, <1>8, <3>1 DEF NextLines
  <2>. QED
    BY <2>1, <2>2
<1>10. \A n \in 0 .. N : lines[n] \in S
  <2> HIDE DEF lines, N, S
  <2> DEFINE G == {n \in 0 .. N : lines[n] \in S}
  <2>1. G \in SUBSET Nat
    OBVIOUS
  <2>2. 0 \in G
    <3>1. 0 \in 0 .. N
      BY <1>2
    <3>. QED
      BY Zenon, <1>2, <1>9, <3>1
  <2>3. ASSUME NEW n \in 1 .. N, n - 1 \in G
        PROVE  n \in G
    <3>1. n \in 0 .. N
      BY <1>2
    <3>. QED
      BY Zenon, <1>3, <1>9, <2>3, <3>1
  <2> HIDE DEF G
  <2>4. 0 .. N \subseteq G
    BY <1>2, <2>1, <2>2, <2>3, Upwards
  <2>. QED
    BY <2>4 DEF G
<1>11. lines \in [0 .. N -> S]
  <2> HIDE DEF lines, N, S
  <2>. QED
    BY <1>9, <1>10
<1> HIDE DEF lines
<1>. QED
  BY <1>1, <1>9, <1>11

LEMMA WholeIs ==
  ASSUME NEW w \in Seq(Bytes)
  PROVE  /\ WholeLines(w, 0) = <<>>
         /\ \A n \in 0 .. Len(w) : WholeLines(w, n) \in Seq(Line)
         /\ \A n \in 1 .. Len(w) : WholeLines(w, n) = NextLines(WholeLines(w, n - 1), w, n)
<1>1. PICK lines \in [0 .. Len(w) -> Seq(Line)] :
        /\ lines[0] = <<>>
        /\ \A n \in 1 .. Len(w) : lines[n] = NextLines(lines[n - 1], w, n)
        /\ \A n \in 0 .. Len(w) : WholeLines(w, n) = lines[n]
  BY WholeSteps
<1>2. /\ 0 \in 0 .. Len(w) /\ Len(w) \in Nat
      /\ \A n \in 1 .. Len(w) : n \in 0 .. Len(w) /\ n - 1 \in 0 .. Len(w)
  OBVIOUS
<1>. QED
  BY <1>1, <1>2

\* What was written later does not change the lines before it.
LEMMA PrefixKeeps ==
  ASSUME NEW w \in Seq(Bytes), NEW v \in Seq(Bytes), NEW N \in Nat, N <= Len(w), N <= Len(v),
         \A i \in 1 .. N : w[i] = v[i]
  PROVE  LastEnd(w, N) = LastEnd(v, N) /\ WholeLines(w, N) = WholeLines(v, N)
<1>1. ASSUME NEW n \in 0 .. N PROVE LastEnd(w, n) = LastEnd(v, n)
  <2>1. {i \in 1 .. n : w[i] = "nl"} = {i \in 1 .. n : v[i] = "nl"}
    OBVIOUS
  <2>. QED
    BY <2>1 DEF LastEnd
<1> DEFINE G == {n \in 0 .. N : WholeLines(w, n) = WholeLines(v, n)}
<1>2. 0 \in G
  BY WholeIs
<1>3. ASSUME NEW n \in 1 .. N, n - 1 \in G PROVE n \in G
  <2>1. n \in 1 .. Len(w) /\ n \in 1 .. Len(v) /\ n - 1 \in 0 .. N /\ w[n] = v[n] /\ n \in 0 .. N
    OBVIOUS
  <2> DEFINE a == LastEnd(w, n - 1)
             b == n - 1
  <2>2. a \in 0 .. b /\ a = LastEnd(v, n - 1)
    BY <1>1, <2>1, LastEndIs
  <2>3. SubSeq(w, a + 1, b) = SubSeq(v, a + 1, b)
    <3>1. a + 1 \in Nat \ {0} /\ b \in Nat /\ b <= Len(w) /\ b <= Len(v) /\ \A i \in 1 .. b : w[i] = v[i]
      BY <2>2
    <3> HIDE DEF a, b
    <3>. QED
      BY <3>1, SameBetween
  <2>4. WholeLines(w, b) = WholeLines(v, b)
    BY <1>3
  <2>5. /\ WholeLines(w, n) = NextLines(WholeLines(w, b), w, n)
        /\ WholeLines(v, n) = NextLines(WholeLines(v, b), v, n)
    BY <2>1, WholeIs
  <2>6. NextLines(WholeLines(w, b), w, n) = NextLines(WholeLines(v, b), v, n)
    BY <2>1, <2>2, <2>3, <2>4 DEF NextLines
  <2>. QED
    BY <2>1, <2>5, <2>6
<1>4. WholeLines(w, N) = WholeLines(v, N)
  <2>1. G \in SUBSET Nat
    OBVIOUS
  <2> HIDE DEF G
  <2>2. 0 .. N \subseteq G
    BY <1>2, <1>3, <2>1, Upwards
  <2>3. N \in 0 .. N
    OBVIOUS
  <2>. QED
    BY <2>2, <2>3 DEF G
<1>. QED
  BY <1>1, <1>4

\* The reader has come to the dth byte, and sent o of the lines so far; it holds
\* the rest of the line it is in, unless what it has of that is sent.
Midway(w, d, b, o) ==
  /\ b \in Buffer
  /\ IF b.discarding
       THEN /\ b.line = <<>> /\ d - LastEnd(w, d) > LineBytesMax
            /\ o \o b.out = Append(WholeLines(w, d), Cap(SubSeq(w, LastEnd(w, d) + 1, d)))
       ELSE b.line = SubSeq(w, LastEnd(w, d) + 1, d) /\ o \o b.out = WholeLines(w, d)

LEMMA AppendJoins ==
  ASSUME NEW S, NEW x \in Seq(S), NEW y \in Seq(S), NEW c \in S
  PROVE  Append(y, c) \in Seq(S) /\ x \o Append(y, c) = Append(x \o y, c)
<1>1. Append(y, c) = y \o <<c>> /\ <<c>> \in Seq(S) /\ Append(y, c) \in Seq(S)
  BY AppendIsConcat, AppendProperties
<1>2. x \o y \in Seq(S)
  BY ConcatProperties
<1>3. Append(x \o y, c) = (x \o y) \o <<c>>
  BY <1>2, AppendIsConcat
<1>4. (x \o y) \o <<c>> = x \o (y \o <<c>>)
  BY <1>1, ConcatAssociative
<1>. QED
  BY <1>1, <1>3, <1>4

LEMMA EmptyIs ==
  /\ Empty \in Buffer /\ Empty.line = <<>> /\ Empty.out = <<>> /\ Empty.discarding = FALSE
  /\ \A x \in Seq(Line) : LET b == [Empty EXCEPT !.out = x]
                          IN  b \in Buffer /\ b.line = <<>> /\ b.out = x /\ b.discarding = FALSE
<1>1. <<>> \in Seq(Bytes) /\ <<>> \in Seq(Line)
  OBVIOUS
<1>2. Empty \in Buffer /\ Empty.line = <<>> /\ Empty.out = <<>> /\ Empty.discarding = FALSE
  BY <1>1 DEF Empty, Buffer
<1>3. ASSUME NEW e \in Buffer, NEW x \in Seq(Line)
      PROVE  LET b == [e EXCEPT !.out = x]
             IN  b \in Buffer /\ b.line = e.line /\ b.out = x /\ b.discarding = e.discarding
  BY DEF Buffer
<1>. QED
  BY <1>2, <1>3

LEMMA ByteTypes ==
  ASSUME NEW b \in Buffer, NEW c \in Bytes
  PROVE  Byte(b, c) \in Buffer
<1>1. b.line \in Seq(Bytes) /\ b.out \in Seq(Line) /\ b.discarding \in BOOLEAN
  BY DEF Buffer
<1> DEFINE out == IF b.discarding THEN b.out ELSE Append(b.out, Cap(Chomp(b.line)))
<1>2. CASE c = "nl"
  <2>1. out \in Seq(Line)
    BY <1>1, CapIs, AppendProperties
  <2>2. Byte(b, c) = [Empty EXCEPT !.out = out]
    BY <1>2 DEF Byte
  <2> HIDE DEF out
  <2>. QED
    BY <2>1, <2>2, EmptyIs
<1>3. CASE c # "nl" /\ b.discarding
  BY <1>3 DEF Byte
<1>4. CASE c # "nl" /\ ~b.discarding
  <2>1. Byte(b, c) = [b EXCEPT !.line = Append(b.line, c)]
    BY <1>4 DEF Byte
  <2> DEFINE l == Append(b.line, c)
  <2>2. l \in Seq(Bytes)
    BY <1>1, AppendProperties
  <2> HIDE DEF l
  <2>3. [b EXCEPT !.line = l] \in Buffer
    BY <2>2 DEF Buffer
  <2>. QED
    BY <2>1, <2>3 DEF l
<1>. QED
  BY <1>2, <1>3, <1>4

LEMMA ByteIs ==
  ASSUME NEW w \in Seq(Bytes), NEW d \in 1 .. Len(w), NEW o \in Seq(Line), NEW b, Midway(w, d - 1, b, o)
  PROVE  Midway(w, d, Byte(b, w[d]), o)
<1> DEFINE e == LastEnd(w, d - 1)
           r == Byte(b, w[d])
           k == SubSeq(w, e + 1, d - 1)
           l == SubSeq(w, e + 1, d)
           W == WholeLines(w, d - 1)
           V == WholeLines(w, d)
<1>1. /\ d \in Nat \ {0} /\ d - 1 \in Nat /\ d - 1 \in 0 .. Len(w) /\ d \in 0 .. Len(w) /\ w[d] \in Bytes
      /\ LineBytesMax \in Nat /\ MaxLineLen \in Nat /\ MaxLineLen < LineBytesMax
  BY LaunchAssumption
<1>2. e \in 0 .. d - 1 /\ LastEnd(w, d) = IF w[d] = "nl" THEN d ELSE e
  BY <1>1, LastEndIs, LastEndStep
<1>3. /\ k \in Seq(Bytes) /\ Len(k) = d - 1 - e /\ \A i \in 1 .. d - 1 - e : k[i] = w[e + i]
      /\ l \in Seq(Bytes) /\ Len(l) = d - e /\ \A i \in 1 .. d - e : l[i] = w[e + i]
  <2> HIDE DEF e
  <2>1. e \in Nat /\ e <= d - 1 /\ e <= d
    BY <1>1, <1>2
  <2>2. /\ l \in Seq(Bytes) /\ Len(l) = d - e /\ \A i \in 1 .. d - e : l[i] = w[e + i]
    BY <1>1, <2>1, BetweenIs
  <2> DEFINE m == d - 1
  <2>3. m \in 0 .. Len(w) /\ e <= m
    BY <1>1, <2>1
  <2> HIDE DEF m
  <2>4. LET p == SubSeq(w, e + 1, m)
        IN  p \in Seq(Bytes) /\ Len(p) = m - e /\ \A i \in 1 .. m - e : p[i] = w[e + i]
    BY <2>1, <2>3, BetweenIs
  <2>. QED
    BY <2>2, <2>4 DEF m
<1>4. /\ b \in Buffer /\ b.line \in Seq(Bytes) /\ b.out \in Seq(Line) /\ b.discarding \in BOOLEAN
      /\ IF b.discarding THEN b.line = <<>> /\ d - 1 - e > LineBytesMax /\ o \o b.out = Append(W, Cap(k))
                         ELSE b.line = k /\ o \o b.out = W
  BY DEF Midway, Buffer
<1>5. W \in Seq(Line) /\ V \in Seq(Line) /\ V = NextLines(W, w, d)
  BY <1>1, WholeIs
<1>6. r \in Buffer
  BY <1>1, <1>4, ByteTypes
<1>7. CASE w[d] = "nl"
  <2> DEFINE out == IF b.discarding THEN b.out ELSE Append(b.out, Cap(Chomp(b.line)))
  <2>1. r.line = <<>> /\ r.discarding = FALSE /\ r.out = out
    BY <1>7 DEF Byte, Empty
  <2>2. V = Append(W, Cap(Chomp(k)))
    BY <1>5, <1>7 DEF NextLines
  <2>3. SubSeq(w, d + 1, d) = <<>>
    BY <1>1, SubSeqEmpty
  <2>4. o \o out = V
    <3>1. CASE b.discarding
      <4>1. Cap(Chomp(k)) = Cap(k)
        BY <1>3, <1>4, <3>1, ChompIsCut
      <4>. QED
        BY <1>4, <2>2, <3>1, <4>1
    <3>2. CASE ~b.discarding
      <4> DEFINE c == Cap(Chomp(k))
      <4>1. c \in Line
        BY <1>3, CapIs
      <4>2. out = Append(b.out, c) /\ V = Append(W, c) /\ o \o b.out = W
        BY <1>4, <2>2, <3>2
      <4> DEFINE x == b.out
      <4>3. x \in Seq(Line)
        BY <1>4
      <4> HIDE DEF c, out, V, W, x
      <4>4. o \o Append(x, c) = Append(o \o x, c)
        BY <4>1, <4>3, AppendJoins
      <4>. QED
        BY <4>2, <4>4 DEF x
    <3>. QED
      BY <1>4, <3>1, <3>2
  <2>5. LastEnd(w, d) = d
    BY <1>2, <1>7
  <2> HIDE DEF out
  <2>. QED
    BY <1>6, <2>1, <2>3, <2>4, <2>5 DEF Midway
<1>8. CASE w[d] # "nl" /\ b.discarding
  <2>1. r = b
    BY <1>8 DEF Byte
  <2>2. V = W /\ LastEnd(w, d) = e
    BY <1>2, <1>5, <1>8 DEF NextLines
  <2>3. Cap(k) = Cap(l)
    <3> HIDE DEF k, l, e
    <3>1. d - 1 - e > LineBytesMax
      BY <1>4, <1>8
    <3>2. Len(k) > MaxLineLen /\ Len(l) > MaxLineLen
      BY <1>1, <1>2, <1>3, <3>1
    <3>3. ASSUME NEW i \in 1 .. MaxLineLen PROVE k[i] = l[i]
      <4>1. i \in 1 .. d - 1 - e /\ i \in 1 .. d - e
        BY <1>1, <1>2, <3>1
      <4>. QED
        BY <1>3, <4>1
    <3>. QED
      BY <1>3, <3>2, <3>3, CutIs
  <2>4. d - e > LineBytesMax
    <3> HIDE DEF e
    <3>. QED
      BY <1>1, <1>2, <1>4, <1>8
  <2>5. b.line = <<>> /\ o \o b.out = Append(V, Cap(l))
    BY <1>4, <1>8, <2>2, <2>3
  <2> HIDE DEF V, l, r
  <2>6. Midway(w, d, b, o) <=> /\ b \in Buffer /\ b.line = <<>> /\ d - e > LineBytesMax
                               /\ o \o b.out = Append(V, Cap(l))
    BY <1>8, <2>2 DEF Midway, V, l
  <2>. QED
    BY <1>4, <2>1, <2>4, <2>5, <2>6 DEF r
<1>9. CASE w[d] # "nl" /\ ~b.discarding
  <2>1. r = [b EXCEPT !.line = Append(b.line, w[d])]
    BY <1>9 DEF Byte
  <2>2. V = W /\ LastEnd(w, d) = e
    BY <1>2, <1>5, <1>9 DEF NextLines
  <2>3. Append(k, w[d]) = l
    <3> DEFINE a == Append(k, w[d])
    <3>1. /\ a \in Seq(Bytes) /\ Len(a) = Len(k) + 1 /\ a[Len(k) + 1] = w[d]
          /\ \A i \in 1 .. Len(k) : a[i] = k[i]
      BY <1>1, <1>3, AppendProperties
    <3> HIDE DEF a, k, l, e
    <3>2. ASSUME NEW i \in 1 .. Len(a) PROVE a[i] = l[i]
      <4>1. i \in 1 .. d - e /\ l[i] = w[e + i]
        BY <1>1, <1>2, <1>3, <3>1
      <4>2. CASE i = Len(k) + 1
        BY <1>1, <1>2, <1>3, <3>1, <4>1, <4>2
      <4>3. CASE i # Len(k) + 1
        <5>1. i \in 1 .. Len(k) /\ i \in 1 .. d - 1 - e
          BY <1>1, <1>2, <1>3, <3>1, <4>3
        <5>. QED
          BY <1>3, <3>1, <4>1, <5>1
      <4>. QED
        BY <4>2, <4>3
    <3>3. Len(a) = Len(l)
      BY <1>1, <1>2, <1>3, <3>1
    <3>. QED
      BY <1>3, <3>1, <3>2, <3>3, SeqEqual DEF a
  <2>4. r.line = l /\ r.discarding = FALSE /\ r.out = b.out
    <3>1. b.line = k
      BY <1>4, <1>9
    <3>2. r = [b EXCEPT !.line = l]
      BY <2>1, <2>3, <3>1
    <3> HIDE DEF r, l
    <3>3. ASSUME NEW x PROVE LET q == [b EXCEPT !.line = x]
                             IN  q.line = x /\ q.discarding = b.discarding /\ q.out = b.out
      BY <1>4 DEF Buffer
    <3>. QED
      BY <1>4, <1>9, <3>2, <3>3
  <2>5. o \o b.out = V
    BY <1>4, <1>9, <2>2
  <2>6. l = SubSeq(w, LastEnd(w, d) + 1, d) /\ V = WholeLines(w, d)
    BY <2>2
  <2> HIDE DEF r, l, V, e
  <2>7. r \in Buffer /\ o \o r.out = V
    BY <1>6, <2>4, <2>5
  <2>8. Midway(w, d, r, o) <=> r \in Buffer /\ r.line = l /\ o \o r.out = V
    BY <2>4, <2>6 DEF Midway
  <2>. QED
    BY <2>4, <2>7, <2>8 DEF r
<1>. QED
  BY <1>4, <1>7, <1>8, <1>9

LEMMA ThroughSteps ==
  ASSUME NEW b \in Buffer, NEW chunk \in Seq(Bytes)
  PROVE  \E fed \in [0 .. Len(chunk) -> Buffer] :
           /\ fed[0] = b
           /\ \A n \in 1 .. Len(chunk) : fed[n] = Byte(fed[n - 1], chunk[n])
           /\ Through(b, chunk) = fed[Len(chunk)]
<1> DEFINE N == Len(chunk)
           S == Buffer
           F == [n \in 1 .. N |-> [x \in S |-> Byte(x, chunk[n])]]
           Is(g) == g = [n \in 0 .. N |-> IF n = 0 THEN b ELSE Byte(g[n - 1], chunk[n])]
           fed == CHOOSE g : Is(g)
<1>1. Through(b, chunk) = fed[N]
  BY DEF Through
<1>2. N \in Nat /\ b \in S /\ \A n \in 1 .. N : chunk[n] \in Bytes
  BY ElementOfSeq, LenProperties
<1>3. \A n \in 1 .. N : \A x \in S : Byte(x, chunk[n]) \in S
  BY <1>2, ByteTypes
<1>4. PICK g : Obeys(g, b, F, S, N)
  <2>1. Rule(F, S, N)
    BY <1>3 DEF Rule
  <2> HIDE DEF S, F, N
  <2>. QED
    BY <1>2, <2>1, Recursion
<1>5. g \in [0 .. N -> S] /\ g[0] = b /\ \A n \in 1 .. N : g[n] = F[n][g[n - 1]]
  BY <1>4 DEF Obeys
<1>6. ASSUME NEW n \in 1 .. N
      PROVE  g[n] = Byte(g[n - 1], chunk[n])
  <2>1. n - 1 \in 0 .. N
    BY <1>2
  <2>2. g \in [0 .. N -> S]
    BY <1>5
  <2>3. g[n - 1] \in S
    <3> HIDE DEF S, N
    <3>. QED
      BY <2>1, <2>2
  <2>. QED
    BY <1>5, <2>3
<1>7. Is(g)
  <2> HIDE DEF F, S, N
  <2>1. ASSUME NEW n \in 0 .. N, n # 0
        PROVE  g[n] = Byte(g[n - 1], chunk[n])
    <3>1. n \in 1 .. N
      BY <1>2, <2>1
    <3>. QED
      BY Zenon, <1>6, <3>1
  <2>. QED
    BY <1>5, <2>1
<1>8. Is(fed)
  BY Zenon, <1>7
<1>9. /\ fed[0] = b /\ fed = [n \in 0 .. N |-> fed[n]]
      /\ \A n \in 1 .. N : fed[n] = Byte(fed[n - 1], chunk[n])
  <2> HIDE DEF fed, N
  <2>1. fed[0] = b /\ fed = [n \in 0 .. N |-> fed[n]]
    BY <1>2, <1>8
  <2>2. ASSUME NEW n \in 1 .. N
        PROVE  fed[n] = Byte(fed[n - 1], chunk[n])
    <3>1. n \in 0 .. N /\ n # 0
      BY <1>2
    <3>. QED
      BY Zenon, <1>8, <3>1
  <2>. QED
    BY <2>1, <2>2
<1>10. \A n \in 0 .. N : fed[n] \in S
  <2> HIDE DEF fed, N, S
  <2> DEFINE G == {n \in 0 .. N : fed[n] \in S}
  <2>1. G \in SUBSET Nat
    OBVIOUS
  <2>2. 0 \in G
    <3>1. 0 \in 0 .. N
      BY <1>2
    <3>. QED
      BY Zenon, <1>2, <1>9, <3>1
  <2>3. ASSUME NEW n \in 1 .. N, n - 1 \in G
        PROVE  n \in G
    <3>1. n \in 0 .. N
      BY <1>2
    <3>. QED
      BY Zenon, <1>3, <1>9, <2>3, <3>1
  <2> HIDE DEF G
  <2>4. 0 .. N \subseteq G
    BY <1>2, <2>1, <2>2, <2>3, Upwards
  <2>. QED
    BY <2>4 DEF G
<1>11. fed \in [0 .. N -> S]
  <2> HIDE DEF fed, N, S
  <2>. QED
    BY <1>9, <1>10
<1> HIDE DEF fed
<1>. QED
  BY <1>1, <1>9, <1>11

\* A chunk, byte by byte.
LEMMA ThroughIs ==
  ASSUME NEW w \in Seq(Bytes), NEW d \in 0 .. Len(w), NEW o \in Seq(Line), NEW b, Midway(w, d, b, o),
         NEW chunk \in Seq(Bytes), d + Len(chunk) <= Len(w), \A i \in 1 .. Len(chunk) : chunk[i] = w[d + i]
  PROVE  Midway(w, d + Len(chunk), Through(b, chunk), o)
<1> DEFINE N == Len(chunk)
<1>1. b \in Buffer
  BY DEF Midway
<1>2. PICK fed \in [0 .. N -> Buffer] :
        /\ fed[0] = b
        /\ \A n \in 1 .. N : fed[n] = Byte(fed[n - 1], chunk[n])
        /\ Through(b, chunk) = fed[N]
  BY <1>1, ThroughSteps
<1> DEFINE G == {n \in 0 .. N : Midway(w, d + n, fed[n], o)}
<1>3. 0 \in G
  <2>1. d + 0 = d /\ 0 \in 0 .. N
    OBVIOUS
  <2>. QED
    BY <1>2, <2>1
<1>4. ASSUME NEW n \in 1 .. N, n - 1 \in G PROVE n \in G
  <2> DEFINE m == d + n
             x == fed[n - 1]
  <2>1. m \in 1 .. Len(w) /\ m - 1 = d + (n - 1) /\ w[m] = chunk[n] /\ n \in 0 .. N
    OBVIOUS
  <2>2. Midway(w, m - 1, x, o)
    BY <1>4, <2>1
  <2> HIDE DEF m, x
  <2>3. Midway(w, m, Byte(x, w[m]), o)
    BY <2>1, <2>2, ByteIs
  <2>4. fed[n] = Byte(x, w[m])
    BY <1>2, <2>1 DEF x
  <2>. QED
    BY <2>1, <2>3, <2>4 DEF m
<1>5. N \in G
  <2>1. G \in SUBSET Nat /\ N \in Nat
    OBVIOUS
  <2> HIDE DEF G, N
  <2>2. 0 .. N \subseteq G
    BY <1>3, <1>4, <2>1, Upwards
  <2>3. N \in 0 .. N
    BY <2>1
  <2>. QED
    BY <2>2, <2>3
<1>. QED
  BY <1>2, <1>5

\* ... and then what is too long already is sent.
LEMMA FeedIs ==
  ASSUME NEW w \in Seq(Bytes), NEW d \in 0 .. Len(w), NEW o \in Seq(Line), NEW b, Midway(w, d, b, o),
         NEW chunk \in Seq(Bytes), d + Len(chunk) <= Len(w), \A i \in 1 .. Len(chunk) : chunk[i] = w[d + i]
  PROVE  /\ Midway(w, d + Len(chunk), Feed(b, chunk), o)
         /\ Len(Feed(b, chunk).line) <= LineBytesMax
<1> DEFINE m == d + Len(chunk)
           r == Through(b, chunk)
           e == LastEnd(w, m)
           l == SubSeq(w, e + 1, m)
           W == WholeLines(w, m)
<1>1. Midway(w, m, r, o) /\ m \in Nat /\ m \in 0 .. Len(w) /\ LineBytesMax \in Nat
  BY ThroughIs, LaunchAssumption
<1> HIDE DEF r, m
<1>2. r.line \in Seq(Bytes) /\ r.out \in Seq(Line) /\ r.discarding \in BOOLEAN /\ r \in Buffer
  BY <1>1 DEF Midway, Buffer
<1>3. CASE Len(r.line) <= LineBytesMax
  <2>1. Feed(b, chunk) = r
    BY <1>1, <1>2, <1>3 DEF Feed, r
  <2>. QED
    BY <1>1, <1>3, <2>1 DEF m
<1>4. CASE Len(r.line) > LineBytesMax
  <2> DEFINE out == Append(r.out, Cap(r.line))
             f   == [line |-> <<>>, discarding |-> TRUE, out |-> out]
  <2>1. Feed(b, chunk) = f
    BY <1>4 DEF Feed, r
  <2>2. ~r.discarding
    <3>1. r.discarding => Len(r.line) = 0
      BY <1>1 DEF Midway
    <3>. QED
      BY <1>1, <1>4, <3>1
  <2>3. r.line = l /\ o \o r.out = W
    BY <1>1, <2>2 DEF Midway
  <2>4. e \in 0 .. m /\ Len(l) = m - e /\ l \in Seq(Bytes)
    <3>1. e \in 0 .. m
      BY <1>1, LastEndIs
    <3> HIDE DEF e
    <3>2. e \in Nat /\ e <= m
      BY <1>1, <3>1
    <3>. QED
      BY <1>1, <3>1, <3>2, BetweenIs
  <2>5. m - e > LineBytesMax
    BY <1>4, <2>3, <2>4
  <2> DEFINE c == Cap(r.line)
  <2>6. c \in Line /\ W \in Seq(Line) /\ c = Cap(l)
    BY <1>1, <1>2, <2>3, CapIs, WholeIs
  <2> HIDE DEF c, W, l, e
  <2>7. o \o out = Append(W, c) /\ out \in Seq(Line)
    <3>1. out = Append(r.out, c)
      BY DEF c
    <3> DEFINE x == r.out
    <3>2. x \in Seq(Line)
      BY <1>2
    <3> HIDE DEF out, x
    <3>3. o \o Append(x, c) = Append(o \o x, c) /\ Append(x, c) \in Seq(Line)
      BY SMTT(30), <2>6, <3>2, AppendJoins
    <3>. QED
      BY <2>3, <3>1, <3>3 DEF x
  <2> HIDE DEF out
  <2>8. f \in Buffer /\ f.line = <<>> /\ f.discarding = TRUE /\ f.out = out
    <3>1. <<>> \in Seq(Bytes)
      OBVIOUS
    <3>. QED
      BY <2>7, <3>1 DEF Buffer
  <2> HIDE DEF f
  <2>9. Midway(w, m, f, o)
    BY <2>5, <2>6, <2>7, <2>8 DEF Midway, e, l, W
  <2>10. Len(f.line) <= LineBytesMax
    <3>1. Len(f.line) = 0
      BY <2>8
    <3>. QED
      BY <1>1, <3>1
  <2>. QED
    BY <2>1, <2>9, <2>10 DEF m
<1>. QED
  BY <1>1, <1>2, <1>3, <1>4

\* Nothing is read, and everything.
LEMMA MidwayAtFirst ==
  ASSUME NEW w \in Seq(Bytes)
  PROVE  Midway(w, 0, Empty, <<>>)
<1>1. LastEnd(w, 0) = 0 /\ WholeLines(w, 0) = <<>>
  BY LastEndIs, WholeIs
<1>2. SubSeq(w, 0 + 1, 0) = <<>>
  BY SubSeqEmpty
<1>3. <<>> \o <<>> = <<>>
  OBVIOUS
<1>. QED
  BY <1>1, <1>2, <1>3, EmptyIs DEF Midway

LEMMA MidwayAtLast ==
  ASSUME NEW w \in Seq(Bytes), NEW o \in Seq(Line), NEW b, Midway(w, Len(w), b, o), b.out = <<>>
  PROVE  /\ b.line \in Seq(Bytes)
         /\ Lines(w) = o \o (IF b.line = <<>> THEN <<>> ELSE <<Cap(Chomp(b.line))>>)
<1> DEFINE N == Len(w)
           e == LastEnd(w, N)
           l == SubSeq(w, e + 1, N)
           W == WholeLines(w, N)
<1>1. N \in Nat /\ e \in 0 .. N /\ W \in Seq(Line) /\ N \in 0 .. N /\ LineBytesMax \in Nat
  BY LastEndIs, WholeIs, LaunchAssumption
<1>2. l \in Seq(Bytes) /\ Len(l) = N - e /\ (l = <<>> <=> e = N)
  <2>1. e \in Nat /\ e <= N
    BY <1>1
  <2> HIDE DEF e, N
  <2>2. N \in 0 .. Len(w)
    BY <1>1 DEF N
  <2>. QED
    BY <2>1, <2>2, BetweenIs
<1>3. o \o b.out = o
  BY ConcatEmptySeq
<1>4. Lines(w) = W \o (IF l = <<>> THEN <<>> ELSE <<Cap(Chomp(l))>>)
  BY DEF Lines
<1>5. b.line \in Seq(Bytes) /\ b.discarding \in BOOLEAN
  BY DEF Midway, Buffer
<1>6. CASE b.discarding
  <2>1. b.line = <<>> /\ N - e > LineBytesMax /\ o = Append(W, Cap(l))
    BY <1>3, <1>6 DEF Midway
  <2> DEFINE c == Cap(l)
  <2> HIDE DEF e, l, W
  <2>2. l # <<>> /\ Cap(Chomp(l)) = c /\ c \in Line
    BY <1>1, <1>2, <2>1, ChompIsCut, CapIs
  <2>3. o = W \o <<c>>
    <3> HIDE DEF c
    <3>. QED
      BY <1>1, <2>1, <2>2, AppendIsConcat DEF c
  <2>4. o \o <<>> = o
    BY ConcatEmptySeq
  <2>. QED
    BY <1>4, <1>5, <2>1, <2>2, <2>3, <2>4
<1>7. CASE ~b.discarding
  <2>1. b.line = l /\ o = W
    BY <1>3, <1>7 DEF Midway
  <2>. QED
    BY <1>4, <1>5, <2>1
<1>. QED
  BY <1>5, <1>6, <1>7

\* More is written behind what was read.
LEMMA MidwayStays ==
  ASSUME NEW w \in Seq(Bytes), NEW d \in 0 .. Len(w), NEW o, NEW b, Midway(w, d, b, o), NEW c \in Bytes
  PROVE  Midway(Append(w, c), d, b, o)
<1> DEFINE v == Append(w, c)
<1>1. /\ v \in Seq(Bytes) /\ Len(v) = Len(w) + 1 /\ \A i \in 1 .. Len(w) : v[i] = w[i]
  BY AppendProperties
<1> HIDE DEF v
<1>2. d \in Nat /\ d <= Len(w) /\ d <= Len(v) /\ \A i \in 1 .. d : w[i] = v[i]
  BY <1>1
<1>3. LastEnd(w, d) = LastEnd(v, d) /\ WholeLines(w, d) = WholeLines(v, d)
  BY <1>1, <1>2, PrefixKeeps
<1>4. SubSeq(w, LastEnd(w, d) + 1, d) = SubSeq(v, LastEnd(w, d) + 1, d)
  <2> DEFINE a == LastEnd(w, d) + 1
  <2>1. a \in Nat \ {0}
    BY <1>2, LastEndIs
  <2> HIDE DEF a
  <2>2. SubSeq(w, a, d) = SubSeq(v, a, d)
    BY <1>1, <1>2, <2>1, SameBetween
  <2>. QED
    BY <2>2 DEF a
<1>. QED
  BY <1>3, <1>4 DEF Midway, v

-----------------------------------------------------------------------------
(* What the consumer has of a stream.                                      *)

NextOf(lines, items, i, s) == IF items[i].of = s THEN Append(lines, items[i].line) ELSE lines

LEMMA NextOfTypes ==
  ASSUME NEW items \in Seq(Item), NEW i \in 1 .. Len(items), NEW s, NEW lines \in Seq(Line)
  PROVE  NextOf(lines, items, i, s) \in Seq(Line)
<1> DEFINE x == items[i]
<1>1. x \in Item
  BY ElementOfSeq
<1> DEFINE l == x.line
<1>2. l \in Line
  BY <1>1 DEF Item
<1> HIDE DEF l
<1>3. Append(lines, l) \in Seq(Line)
  BY <1>2, AppendProperties
<1>. QED
  BY <1>3 DEF NextOf, l


LEMMA LinesOfSteps ==
  ASSUME NEW items \in Seq(Item), NEW s
  PROVE  \E lines \in [0 .. Len(items) -> Seq(Line)] :
           /\ lines[0] = <<>>
           /\ \A n \in 1 .. Len(items) : lines[n] = NextOf(lines[n - 1], items, n, s)
           /\ LinesOf(items, s) = lines[Len(items)]
<1> DEFINE N == Len(items)
           S == Seq(Line)
           F == [n \in 1 .. N |-> [x \in S |-> NextOf(x, items, n, s)]]
           Is(g) == g = [i \in 0 .. N |->
                   IF i = 0 THEN <<>> ELSE IF items[i].of = s THEN Append(g[i - 1], items[i].line) ELSE g[i - 1]]
           lines == CHOOSE g : Is(g)
<1>1. LinesOf(items, s) = lines[N]
  BY DEF LinesOf
<1>2. N \in Nat /\ <<>> \in S /\ \A n \in 1 .. N : items[n] \in Item
  BY EmptySeq, ElementOfSeq, LenProperties
<1>3. \A n \in 1 .. N : \A x \in S : NextOf(x, items, n, s) \in S
  BY <1>2, NextOfTypes
<1>4. PICK g : Obeys(g, <<>>, F, S, N)
  <2>1. Rule(F, S, N)
    BY <1>3 DEF Rule
  <2> HIDE DEF S, F, N
  <2>. QED
    BY <1>2, <2>1, Recursion
<1>5. g \in [0 .. N -> S] /\ g[0] = <<>> /\ \A n \in 1 .. N : g[n] = F[n][g[n - 1]]
  BY <1>4 DEF Obeys
<1>6. ASSUME NEW n \in 1 .. N
      PROVE  g[n] = NextOf(g[n - 1], items, n, s)
  <2>1. n - 1 \in 0 .. N
    BY <1>2
  <2>2. g \in [0 .. N -> S]
    BY <1>5
  <2>3. g[n - 1] \in S
    <3> HIDE DEF S, N
    <3>. QED
      BY <2>1, <2>2
  <2>. QED
    BY <1>5, <2>3
<1>7. Is(g)
  <2> HIDE DEF F, S, N
  <2>1. ASSUME NEW n \in 0 .. N, n # 0
        PROVE  g[n] = NextOf(g[n - 1], items, n, s)
    <3>1. n \in 1 .. N
      BY <1>2, <2>1
    <3>. QED
      BY Zenon, <1>6, <3>1
  <2>. QED
    BY <1>5, <2>1 DEF NextOf
<1>8. Is(lines)
  BY Zenon, <1>7
<1>9. /\ lines[0] = <<>> /\ lines = [n \in 0 .. N |-> lines[n]]
      /\ \A n \in 1 .. N : lines[n] = NextOf(lines[n - 1], items, n, s)
  <2> HIDE DEF lines, N
  <2>1. lines[0] = <<>> /\ lines = [n \in 0 .. N |-> lines[n]]
    BY <1>2, <1>8
  <2>2. ASSUME NEW n \in 1 .. N
        PROVE  lines[n] = NextOf(lines[n - 1], items, n, s)
    <3>1. n \in 0 .. N /\ n # 0
      BY <1>2
    <3>. QED
      BY Zenon, <1>8, <3>1 DEF NextOf
  <2>. QED
    BY <2>1, <2>2
<1>10. \A n \in 0 .. N : lines[n] \in S
  <2> HIDE DEF lines, N, S
  <2> DEFINE G == {n \in 0 .. N : lines[n] \in S}
  <2>1. G \in SUBSET Nat
    OBVIOUS
  <2>2. 0 \in G
    <3>1. 0 \in 0 .. N
      BY <1>2
    <3>. QED
      BY Zenon, <1>2, <1>9, <3>1
  <2>3. ASSUME NEW n \in 1 .. N, n - 1 \in G
        PROVE  n \in G
    <3>1. n \in 0 .. N
      BY <1>2
    <3>. QED
      BY Zenon, <1>3, <1>9, <2>3, <3>1
  <2> HIDE DEF G
  <2>4. 0 .. N \subseteq G
    BY <1>2, <2>1, <2>2, <2>3, Upwards
  <2>. QED
    BY <2>4 DEF G
<1>11. lines \in [0 .. N -> S]
  <2> HIDE DEF lines, N, S
  <2>. QED
    BY <1>9, <1>10
<1> HIDE DEF lines
<1>. QED
  BY <1>1, <1>9, <1>11

LEMMA NoLines ==
  ASSUME NEW s
  PROVE  LinesOf(<<>>, s) = <<>>
<1>1. <<>> \in Seq(Item) /\ Len(<<>>) = 0
  OBVIOUS
<1>2. PICK lines \in [0 .. Len(<<>>) -> Seq(Line)] : lines[0] = <<>> /\ LinesOf(<<>>, s) = lines[Len(<<>>)]
  BY <1>1, LinesOfSteps
<1>. QED
  BY <1>1, <1>2

\* One line more.
LEMMA TakesNext ==
  ASSUME NEW l \in Seq(Line), NEW lines \in Seq(Line), NEW j \in 1 .. Len(lines)
  PROVE  Append(l \o SubSeq(lines, 1, j - 1), lines[j]) = l \o SubSeq(lines, 1, j)
<1> DEFINE x == SubSeq(lines, 1, j - 1)
           y == SubSeq(lines, 1, j)
           c == lines[j]
<1>1. /\ x \in Seq(Line) /\ Len(x) = j - 1 /\ \A i \in 1 .. j - 1 : x[i] = lines[i]
  <2>1. 1 \in Int /\ j - 1 \in Int /\ \A i \in 1 .. j - 1 : lines[i] \in Line
    BY ElementOfSeq
  <2>. QED
    BY <2>1, SubSeqProperties
<1>2. /\ y \in Seq(Line) /\ Len(y) = j /\ \A i \in 1 .. j : y[i] = lines[i]
  <2>1. 1 \in Int /\ j \in Int /\ \A i \in 1 .. j : lines[i] \in Line
    BY ElementOfSeq
  <2>. QED
    BY <2>1, SubSeqProperties
<1>3. c \in Line
  BY ElementOfSeq
<1> HIDE DEF x, y, c
<1> DEFINE z == Append(x, c)
<1>4. /\ z \in Seq(Line) /\ Len(z) = j /\ z[j] = c /\ \A i \in 1 .. j - 1 : z[i] = x[i]
  BY <1>1, <1>3, AppendProperties
<1> HIDE DEF z
<1>5. z = y
  <2>1. ASSUME NEW i \in 1 .. Len(z) PROVE z[i] = y[i]
    <3>1. CASE i = j
      BY <1>2, <1>4, <3>1 DEF c
    <3>2. CASE i # j
      <4>1. i \in 1 .. j - 1
        BY <1>4, <3>2
      <4>. QED
        BY <1>1, <1>2, <1>4, <4>1
    <3>. QED
      BY <3>1, <3>2
  <2>. QED
    BY <1>2, <1>4, <2>1, SeqEqual
<1>6. l \o Append(x, c) = Append(l \o x, c)
  BY <1>1, <1>3, AppendJoins
<1>. QED
  BY <1>5, <1>6 DEF x, y, c, z

\* The lines, as the consumer gets them.
Sent(of, lines) == [i \in 1 .. Len(lines) |-> [of |-> of, line |-> lines[i]]]

\* What is sent of a stream is behind what was sent of it, and is not of another.
LEMMA LinesOfSent ==
  ASSUME NEW items \in Seq(Item), NEW of \in Streams \cup Ends, NEW lines \in Seq(Line), NEW s
  PROVE  /\ items \o Sent(of, lines) \in Seq(Item)
         /\ LinesOf(items \o Sent(of, lines), s)
              = IF of = s THEN LinesOf(items, s) \o lines ELSE LinesOf(items, s)
<1> DEFINE N == Len(items)
           M == Len(lines)
           sent == [i \in 1 .. M |-> [of |-> of, line |-> lines[i]]]
           all == items \o sent
<1>1. /\ N \in Nat /\ M \in Nat /\ \A i \in 1 .. M : lines[i] \in Line
  BY ElementOfSeq, LenProperties
<1>2. \A i \in 1 .. M : [of |-> of, line |-> lines[i]] \in Item
  BY <1>1 DEF Item
<1>3. sent \in Seq(Item) /\ Len(sent) = M /\ \A i \in 1 .. M : sent[i] = [of |-> of, line |-> lines[i]]
  <2> HIDE DEF M
  <2>. QED
    BY <1>1, <1>2
<1> HIDE DEF sent
<1>4. /\ all \in Seq(Item) /\ Len(all) = N + M
      /\ \A i \in 1 .. N : all[i] = items[i]
      /\ \A i \in 1 .. M : all[N + i] = sent[i]
  <2> DEFINE R == Item
  <2>1. items \in Seq(R) /\ sent \in Seq(R) /\ Len(items) = N
    BY <1>3
  <2> HIDE DEF R, N, M
  <2>2. /\ all \in Seq(R) /\ Len(all) = Len(items) + Len(sent)
        /\ \A i \in 1 .. Len(items) + Len(sent) :
             all[i] = IF i <= Len(items) THEN items[i] ELSE sent[i - Len(items)]
    BY <2>1, ConcatProperties
  <2> HIDE DEF all
  <2>. QED
    BY <1>1, <1>3, <2>1, <2>2 DEF R
<1> HIDE DEF all
<1>5. PICK f \in [0 .. N -> Seq(Line)] :
        /\ f[0] = <<>>
        /\ \A n \in 1 .. N : f[n] = NextOf(f[n - 1], items, n, s)
        /\ LinesOf(items, s) = f[N]
  BY LinesOfSteps
<1>6. PICK g \in [0 .. Len(all) -> Seq(Line)] :
        /\ g[0] = <<>>
        /\ \A n \in 1 .. Len(all) : g[n] = NextOf(g[n - 1], all, n, s)
        /\ LinesOf(all, s) = g[Len(all)]
  BY <1>4, LinesOfSteps
<1> HIDE DEF N, M
<1>7. g[N] = f[N] /\ f[N] \in Seq(Line)
  <2> DEFINE G == {n \in 0 .. N : g[n] = f[n]}
  <2>1. G \in SUBSET Nat
    OBVIOUS
  <2>2. 0 \in G
    <3>1. 0 \in 0 .. N
      BY <1>1
    <3>. QED
      BY <1>5, <1>6, <3>1
  <2>3. ASSUME NEW n \in 1 .. N, n - 1 \in G PROVE n \in G
    <3>1. n \in 1 .. Len(all) /\ all[n] = items[n] /\ n \in 0 .. N
      BY <1>1, <1>4
    <3>2. g[n - 1] = f[n - 1]
      BY <2>3
    <3>3. g[n] = NextOf(g[n - 1], all, n, s) /\ f[n] = NextOf(f[n - 1], items, n, s)
      BY <1>5, <1>6, <3>1
    <3>. QED
      BY <3>1, <3>2, <3>3 DEF NextOf
  <2> HIDE DEF G
  <2>4. 0 .. N \subseteq G
    BY <1>1, <2>1, <2>2, <2>3, Upwards
  <2>. QED
    BY <1>1, <2>4 DEF G
<1> DEFINE l == f[N]
           At(j) == IF of = s THEN l \o SubSeq(lines, 1, j) ELSE l
           G == {j \in 0 .. M : g[N + j] = At(j)}
<1>8. M \in G
  <2>1. G \in SUBSET Nat
    OBVIOUS
  <2>2. 0 \in G
    <3>1. N + 0 = N /\ 0 \in 0 .. M
      BY <1>1
    <3>2. SubSeq(lines, 1, 0) = <<>> /\ l \o <<>> = l
      BY <1>7, SubSeqEmpty, ConcatEmptySeq
    <3>. QED
      BY <1>7, <3>1, <3>2
  <2>3. ASSUME NEW j \in 1 .. M, j - 1 \in G PROVE j \in G
    <3> DEFINE n == N + j
    <3>1. n \in 1 .. Len(all) /\ all[n] = sent[j] /\ n - 1 = N + (j - 1) /\ j \in 0 .. M
      BY <1>1, <1>4
    <3>2. all[n].of = of /\ all[n].line = lines[j]
      BY <1>3, <3>1
    <3>3. g[n - 1] = At(j - 1)
      BY <2>3, <3>1
    <3>4. g[n] = NextOf(g[n - 1], all, n, s)
      BY <1>6, <3>1
    <3>5. Append(l \o SubSeq(lines, 1, j - 1), lines[j]) = l \o SubSeq(lines, 1, j)
      <4> HIDE DEF l
      <4>. QED
        BY <1>7, TakesNext DEF M, l
    <3> HIDE DEF n, l
    <3>6. g[n] = At(j)
      BY <3>2, <3>3, <3>4, <3>5 DEF NextOf
    <3>. QED
      BY <3>1, <3>6 DEF n, l
  <2> HIDE DEF G
  <2>4. 0 .. M \subseteq G
    BY <1>1, <2>1, <2>2, <2>3, Upwards
  <2>. QED
    BY <1>1, <2>4
<1>9. SubSeq(lines, 1, M) = lines
  <2> DEFINE y == SubSeq(lines, 1, M)
  <2>1. y \in Seq(Line) /\ Len(y) = M /\ \A i \in 1 .. M : y[i] = lines[i]
    <3>1. 1 \in Int /\ M \in Int /\ \A i \in 1 .. M : lines[i] \in Line
      BY <1>1
    <3>. QED
      BY <1>1, <3>1, SubSeqProperties
  <2> HIDE DEF y
  <2>. QED
    BY <2>1, SeqEqual DEF y, M
<1>10. LinesOf(all, s) = IF of = s THEN LinesOf(items, s) \o lines ELSE LinesOf(items, s)
  BY <1>4, <1>5, <1>6, <1>8, <1>9
<1>. QED
  BY <1>4, <1>10 DEF all, sent, M, Sent

LEMMA LinesOfEach ==
  ASSUME NEW items \in Seq(Item), NEW of \in Streams \cup Ends, NEW lines \in Seq(Line)
  PROVE  /\ items \o Sent(of, lines) \in Seq(Item)
         /\ \A t \in Streams : LinesOf(items \o Sent(of, lines), t)
                                = IF of = t THEN LinesOf(items, t) \o lines ELSE LinesOf(items, t)
<1>1. ASSUME NEW t
      PROVE  /\ items \o Sent(of, lines) \in Seq(Item)
             /\ LinesOf(items \o Sent(of, lines), t)
                  = IF of = t THEN LinesOf(items, t) \o lines ELSE LinesOf(items, t)
  BY LinesOfSent
<1>. QED
  BY <1>1

LEMMA LinesOfTypes == ASSUME NEW items \in Seq(Item), NEW s PROVE LinesOf(items, s) \in Seq(Line)
<1>1. PICK lines \in [0 .. Len(items) -> Seq(Line)] : LinesOf(items, s) = lines[Len(items)]
  BY LinesOfSteps
<1>2. Len(items) \in 0 .. Len(items)
  OBVIOUS
<1>. QED
  BY <1>1, <1>2

LEMMA LinesOfEnded ==
  ASSUME NEW items \in Seq(Item), NEW how \in Ends, NEW s \in Streams
  PROVE  /\ Append(items, End(how)) \in Seq(Item)
         /\ Last(Append(items, End(how))).of \in Ends
         /\ LinesOf(Append(items, End(how)), s) = LinesOf(items, s)
<1> DEFINE e == End(how)
           none == [text |-> <<>>, cut |-> FALSE]
           lines == <<none>>
           sent == Sent(how, lines)
<1>1. none \in Line
  <2>1. <<>> \in Seq(Bytes)
    OBVIOUS
  <2>. QED
    BY <2>1 DEF Line
<1>2. lines \in Seq(Line) /\ Len(lines) = 1 /\ lines[1] = none
  BY <1>1
<1>3. e = [of |-> how, line |-> none] /\ e \in Item /\ e.of = how
  BY <1>1 DEF End, Item
<1>4. sent = <<e>>
  <2> HIDE DEF none
  <2>. QED
    BY <1>2, <1>3 DEF Sent
<1>5. how # s
  BY StreamsAssumption
<1> HIDE DEF lines
<1>6. items \o sent \in Seq(Item) /\ LinesOf(items \o sent, s) = LinesOf(items, s)
  <2>1. how \in Streams \cup Ends
    OBVIOUS
  <2>2. /\ items \o sent \in Seq(Item)
        /\ LinesOf(items \o sent, s) = IF how = s THEN LinesOf(items, s) \o lines ELSE LinesOf(items, s)
    <3>1. lines \in Seq(Line)
      BY <1>2
    <3>. QED
      BY <2>1, <3>1, LinesOfSent
  <2>. QED
    BY <1>5, <2>2
<1> HIDE DEF sent, e
<1> DEFINE all == Append(items, e)
<1>7. all = items \o <<e>> /\ Len(all) = Len(items) + 1 /\ all[Len(items) + 1] = e /\ all \in Seq(Item)
  <2> DEFINE R == Item
  <2>1. items \in Seq(R) /\ e \in R
    BY <1>3
  <2> HIDE DEF R
  <2>2. all = items \o <<e>> /\ Len(all) = Len(items) + 1 /\ all[Len(items) + 1] = e /\ all \in Seq(R)
    BY <2>1, AppendIsConcat, AppendProperties
  <2>. QED
    BY <2>2 DEF R
<1>8. Last(all) = e
  BY <1>7 DEF Last
<1>. QED
  BY <1>3, <1>4, <1>6, <1>7, <1>8 DEF e

-----------------------------------------------------------------------------
(***************************************************************************)
(* What the consumer gets is, at any time, what the reader has sent of the *)
(* bytes it has read; the rest of the stream is in the pipe.               *)
(***************************************************************************)

\* The consumer has every line of the stream.
Told(w, items, s) == LinesOf(items, s) = Lines(w)

\* The reader is somewhere in the stream, and what is behind is in the pipe.
Fed(w, u, b, items, s) ==
  \E d \in 0 .. Len(w) : u = SubSeq(w, d + 1, Len(w)) /\ Midway(w, d, b, LinesOf(items, s))

Untouched(r) ==
  /\ output[r] = <<>>
  /\ \A s \in Streams : LET p == <<r, s>>
                        IN  /\ p \notin open /\ p \notin drained
                            /\ unread[p] = <<>> /\ written[p] = <<>> /\ buffer[p] = Empty

RunOutput(r) ==
  /\ phase # "stopped" /\ step[r] \in {"idle", "claimed", "spawn"} => Untouched(r)
  /\ step[r] = "wait" =>
       \A s \in Streams : LET p == <<r, s>>
                          IN  /\ p \in drained => unread[p] = <<>> /\ Told(written[p], output[r], s)
                              /\ p \notin drained => Fed(written[p], unread[p], buffer[p], output[r], s)
  /\ step[r] = "ended" => /\ Last(output[r]).of \in Ends
                          /\ \A s \in Streams : Told(written[<<r, s>>], output[r], s)

Control ==
  /\ kind \in {"schedule", "api"} /\ phase \in {"serving", "stopping", "grace", "reap", "stopped"}
  /\ running \subseteq Agents
  /\ alive \subseteq {r \in Runs : step[r] \in {"wait", "aborting"}}

Piped ==
  /\ open \subseteq Pipes /\ drained \subseteq Pipes \ open
  /\ unread \in [Pipes -> Seq(Bytes)] /\ written \in [Pipes -> Seq(Bytes)]
  /\ buffer \in [Pipes -> Buffer]
  /\ \A p \in Pipes : Len(buffer[p].line) <= LineBytesMax /\ buffer[p].out = <<>>
  /\ output \in [Runs -> Seq(Item)]

PipeInv   == Piped /\ \A r \in Runs : RunOutput(r)
OutputInv == LaunchInv /\ Control /\ PipeInv

LEMMA PipeIs ==
  ASSUME NEW p \in Pipes
  PROVE  p[1] \in Runs /\ p[2] \in Streams /\ p = <<p[1], p[2]>>
BY DEF Pipes

LEMMA IsPipe ==
  ASSUME NEW r \in Runs, NEW s \in Streams
  PROVE  <<r, s>> \in Pipes /\ <<r, s>>[1] = r /\ <<r, s>>[2] = s
BY DEF Pipes

LEMMA EmptyFits == Empty \in Buffer /\ Len(Empty.line) <= LineBytesMax /\ Empty.out = <<>>
<1>1. Empty \in Buffer /\ Empty.line = <<>> /\ Empty.out = <<>>
  BY EmptyIs
<1>2. Len(Empty.line) = 0 /\ LineBytesMax \in Nat
  BY <1>1, LaunchAssumption
<1>. QED
  BY <1>1, <1>2

\* A run the step is not about.
Apart(q) ==
  /\ phase' = phase /\ step'[q] = step[q] /\ output'[q] = output[q]
  /\ \A s \in Streams : LET p == <<q, s>>
                        IN  /\ p \in open' <=> p \in open
                            /\ p \in drained' <=> p \in drained
                            /\ unread'[p] = unread[p] /\ written'[p] = written[p] /\ buffer'[p] = buffer[p]

LEMMA ApartKeeps ==
  ASSUME NEW q \in Runs, RunOutput(q), Apart(q)
  PROVE  RunOutput(q)'
<1>1. Untouched(q) => Untouched(q)'
  BY DEF Apart, Untouched
<1>. QED
  BY <1>1 DEF Apart, RunOutput

\* Steps of the launcher, to which what the children write is nothing.
pipeVars == <<open, unread, written, drain, output>>

LEMMA PipesStay ==
  ASSUME PipeInv, UNCHANGED pipeVars,
         \A r \in Runs : \/ phase' = phase /\ step'[r] = step[r]
                         \/ step'[r] = step[r] /\ phase # "stopped"
                         \/ step'[r] = "aborting"
                         \/ phase' = "stopped" /\ step'[r] = "idle"
                         \/ step'[r] \in {"idle", "claimed", "spawn"} /\ step[r] \in {"idle", "claimed", "spawn"}
                              /\ phase # "stopped"
  PROVE  PipeInv'
<1>1. UNCHANGED <<open, unread, written, drained, buffer, output>>
  BY DEF pipeVars, drain
<1>2. Piped'
  BY <1>1 DEF PipeInv, Piped
<1>3. ASSUME NEW r \in Runs PROVE RunOutput(r)'
  <2>1. RunOutput(r)
    BY DEF PipeInv
  <2>2. Untouched(r) => Untouched(r)'
    BY <1>1 DEF Untouched
  <2>. QED
    BY <1>1, <2>1, <2>2 DEF RunOutput
<1>. QED
  BY <1>2, <1>3 DEF PipeInv

\* The steps on what a run has, or has no more.
LEMMA ForgetKeeps ==
  ASSUME PipeInv, NEW r \in Runs, step[r] \in Stages, step' = [step EXCEPT ![r] = "idle"], Forget(r),
         step \in [Runs -> Stages], phase' = phase
  PROVE  PipeInv'
<1> DEFINE mine == {r} \X Streams
<1>1. /\ open' = open \ mine /\ drained' = drained \ mine
      /\ unread' = [p \in Pipes |-> IF p \in mine THEN <<>> ELSE unread[p]]
      /\ written' = [p \in Pipes |-> IF p \in mine THEN <<>> ELSE written[p]]
      /\ buffer' = [p \in Pipes |-> IF p \in mine THEN Empty ELSE buffer[p]]
      /\ output' = [output EXCEPT ![r] = <<>>]
  BY DEF Forget
<1>2. \A q \in Runs : \A s \in Streams : <<q, s>> \in mine <=> q = r
  OBVIOUS
<1> HIDE DEF mine
<1>3. Piped'
  <2>1. open' \subseteq Pipes /\ drained' \subseteq Pipes \ open'
    BY <1>1 DEF PipeInv, Piped
  <2>2. <<>> \in Seq(Bytes) /\ <<>> \in Seq(Item)
    OBVIOUS
  <2>3. unread' \in [Pipes -> Seq(Bytes)] /\ written' \in [Pipes -> Seq(Bytes)]
    BY <1>1, <2>2 DEF PipeInv, Piped
  <2>4. /\ buffer' \in [Pipes -> Buffer]
        /\ \A p \in Pipes : Len(buffer'[p].line) <= LineBytesMax /\ buffer'[p].out = <<>>
    BY <1>1, EmptyFits DEF PipeInv, Piped
  <2>5. output' \in [Runs -> Seq(Item)]
    BY <1>1, <2>2 DEF PipeInv, Piped
  <2>. QED
    BY <2>1, <2>3, <2>4, <2>5 DEF Piped
<1>4. RunOutput(r)'
  <2>1. step'[r] = "idle" /\ output'[r] = <<>>
    BY <1>1 DEF PipeInv, Piped
  <2>2. ASSUME NEW s \in Streams
        PROVE  LET p == <<r, s>>
               IN  /\ p \notin open' /\ p \notin drained'
                   /\ unread'[p] = <<>> /\ written'[p] = <<>> /\ buffer'[p] = Empty
    BY <1>1, <1>2, IsPipe
  <2>3. Untouched(r)'
    BY <2>1, <2>2 DEF Untouched
  <2>. QED
    BY <2>1, <2>3 DEF RunOutput
<1>5. ASSUME NEW q \in Runs, q # r PROVE RunOutput(q)'
  <2>1. step'[q] = step[q] /\ output'[q] = output[q]
    BY <1>1, <1>5 DEF PipeInv, Piped
  <2>2. ASSUME NEW s \in Streams
        PROVE  LET p == <<q, s>>
               IN  /\ p \in open' <=> p \in open
                   /\ p \in drained' <=> p \in drained
                   /\ unread'[p] = unread[p] /\ written'[p] = written[p] /\ buffer'[p] = buffer[p]
    BY <1>1, <1>2, <1>5, IsPipe
  <2>3. Apart(q)
    BY <2>1, <2>2 DEF Apart
  <2>. QED
    BY <2>3, ApartKeeps DEF PipeInv
<1>. QED
  BY <1>3, <1>4, <1>5 DEF PipeInv

LEMMA SpawnKeeps ==
  ASSUME PipeInv, NEW r \in Runs, step \in [Runs -> Stages], phase # "stopped", Spawn(r)
  PROVE  PipeInv'
<1> DEFINE mine == {r} \X Streams
           e == End("spawn failed")
<1>1. /\ step[r] = "spawn" /\ phase' = phase
      /\ UNCHANGED <<unread, written, drained, buffer>>
      /\ \/ /\ step' = [step EXCEPT ![r] = "wait"] /\ open' = open \cup mine /\ UNCHANGED output
         \/ /\ step' = [step EXCEPT ![r] = "ended"] /\ open' = open
            /\ output' = [output EXCEPT ![r] = <<e>>]
  BY DEF Spawn, drain
<1>2. \A q \in Runs : \A s \in Streams : <<q, s>> \in mine <=> q = r
  OBVIOUS
<1>3. Untouched(r)
  BY <1>1 DEF PipeInv, RunOutput
<1>4. mine \subseteq Pipes \ drained
  BY <1>3 DEF Untouched, Pipes
<1>5. e \in Item /\ e.of \in Ends /\ "spawn failed" \in Ends
  <2>1. "spawn failed" \in Ends /\ <<>> \in Seq(Bytes)
    BY DEF Ends
  <2>. QED
    BY <2>1 DEF End, Item, Line
<1>6. <<e>> \in Seq(Item) /\ Last(<<e>>) = e /\ \A s \in Streams : LinesOf(<<e>>, s) = <<>>
  <2> HIDE DEF e
  <2> DEFINE R == Item
  <2>0. e \in R
    BY <1>5
  <2>1. e \in R /\ <<>> \in Seq(R) /\ Append(<<>>, e) = <<e>>
    <3> HIDE DEF R
    <3>. QED
      BY <2>0
  <2>2. <<e>> \in Seq(R) /\ Last(<<e>>) = e
    <3> HIDE DEF R
    <3>. QED
      BY <2>1 DEF Last
  <2>3. ASSUME NEW s \in Streams PROVE LinesOf(Append(<<>>, e), s) = LinesOf(<<>>, s)
    BY <1>5, <2>1, LinesOfEnded DEF e
  <2>. QED
    BY <2>1, <2>2, <2>3, NoLines
<1> HIDE DEF e
<1> HIDE DEF mine
<1>7. Piped'
  <2>1. open' \subseteq Pipes /\ drained' \subseteq Pipes \ open'
    BY <1>1, <1>4 DEF PipeInv, Piped
  <2>2. output' \in [Runs -> Seq(Item)]
    BY <1>1, <1>6 DEF PipeInv, Piped
  <2>. QED
    BY <1>1, <2>1, <2>2 DEF PipeInv, Piped
<1>8. RunOutput(r)'
  <2>1. CASE step' = [step EXCEPT ![r] = "wait"] /\ UNCHANGED output
    <3>1. step'[r] = "wait" /\ output'[r] = <<>>
      BY <1>3, <2>1 DEF Untouched
    <3>2. ASSUME NEW s \in Streams
          PROVE  /\ <<r, s>> \notin drained'
                 /\ Fed(written'[<<r, s>>], unread'[<<r, s>>], buffer'[<<r, s>>], output'[r], s)
      <4> DEFINE p == <<r, s>>
      <4>1. p \notin drained' /\ unread'[p] = <<>> /\ written'[p] = <<>> /\ buffer'[p] = Empty
        BY <1>1, <1>3 DEF Untouched
      <4> HIDE DEF p
      <4>2. <<>> \in Seq(Bytes) /\ Len(<<>>) = 0 /\ 0 \in 0 .. Len(<<>>)
        OBVIOUS
      <4>3. <<>> = SubSeq(<<>>, 0 + 1, Len(<<>>))
        BY <4>2, SubSeqEmpty
      <4>4. Midway(<<>>, 0, Empty, LinesOf(<<>>, s))
        BY <4>2, MidwayAtFirst, NoLines
      <4>5. Fed(<<>>, <<>>, Empty, <<>>, s)
        BY <4>2, <4>3, <4>4 DEF Fed
      <4>. QED
        BY <3>1, <4>1, <4>5 DEF p
    <3>. QED
      BY <3>1, <3>2 DEF RunOutput
  <2>2. CASE step' = [step EXCEPT ![r] = "ended"] /\ output' = [output EXCEPT ![r] = <<e>>]
    <3>1. step'[r] = "ended" /\ output'[r] = <<e>>
      BY <2>2 DEF PipeInv, Piped
    <3>2. Last(output'[r]).of \in Ends
      BY <1>5, <1>6, <3>1
    <3>3. ASSUME NEW s \in Streams PROVE Told(written'[<<r, s>>], output'[r], s)
      <4>1. written'[<<r, s>>] = <<>>
        BY <1>1, <1>3 DEF Untouched
      <4>2. LinesOf(output'[r], s) = <<>>
        BY <1>6, <3>1
      <4>3. Lines(<<>>) = <<>>
        <5>1. <<>> \in Seq(Bytes) /\ Len(<<>>) = 0 /\ Empty.line = <<>> /\ Empty.out = <<>>
          BY EmptyIs
        <5>2. Midway(<<>>, Len(<<>>), Empty, <<>>)
          BY <5>1, MidwayAtFirst
        <5>3. <<>> \in Seq(Line)
          OBVIOUS
        <5>4. Lines(<<>>) = <<>> \o <<>>
          BY <5>1, <5>2, <5>3, MidwayAtLast
        <5>. QED
          BY <5>4
      <4>. QED
        BY <4>1, <4>2, <4>3 DEF Told
    <3>. QED
      BY <3>1, <3>2, <3>3 DEF RunOutput
  <2>. QED
    BY <1>1, <2>1, <2>2
<1>9. ASSUME NEW q \in Runs, q # r PROVE RunOutput(q)'
  <2>1. step'[q] = step[q] /\ output'[q] = output[q]
    BY <1>1, <1>9 DEF PipeInv, Piped
  <2>2. \A s \in Streams : <<q, s>> \in open' <=> <<q, s>> \in open
    BY <1>1, <1>2, <1>9
  <2>3. Apart(q)
    BY <1>1, <2>1, <2>2 DEF Apart
  <2>. QED
    BY <2>3, ApartKeeps DEF PipeInv
<1>. QED
  BY <1>7, <1>8, <1>9 DEF PipeInv

LEMMA WriteKeeps ==
  ASSUME PipeInv, NEW p \in Pipes, Write(p)
  PROVE  PipeInv'
<1>1. /\ p \in open /\ step[p[1]] = "wait" /\ phase' = phase /\ step' = step
      /\ UNCHANGED <<open, drained, buffer, output>>
      /\ \E c \in Bytes : /\ written' = [written EXCEPT ![p] = Append(written[p], c)]
                          /\ unread' = [unread EXCEPT ![p] = Append(unread[p], c)]
  BY DEF Write, drain
<1>2. PICK c \in Bytes : /\ written' = [written EXCEPT ![p] = Append(written[p], c)]
                         /\ unread' = [unread EXCEPT ![p] = Append(unread[p], c)]
  BY <1>1
<1> DEFINE r == p[1]
           s == p[2]
           w == written[p]
           u == unread[p]
           o == LinesOf(output[r], s)
<1>3. /\ r \in Runs /\ s \in Streams /\ p = <<r, s>> /\ p \notin drained
      /\ w \in Seq(Bytes) /\ u \in Seq(Bytes)
  BY <1>1, PipeIs DEF PipeInv, Piped
<1>4. /\ written'[p] = Append(w, c) /\ unread'[p] = Append(u, c)
      /\ \A q \in Pipes : q # p => written'[q] = written[q] /\ unread'[q] = unread[q]
  BY <1>2 DEF PipeInv, Piped
<1>5. Append(w, c) \in Seq(Bytes) /\ Append(u, c) \in Seq(Bytes)
  BY <1>3
<1>6. Piped'
  <2>1. written' \in [Pipes -> Seq(Bytes)] /\ unread' \in [Pipes -> Seq(Bytes)]
    BY <1>2, <1>5 DEF PipeInv, Piped
  <2>. QED
    BY <1>1, <2>1 DEF PipeInv, Piped
<1>7. RunOutput(r)'
  <2>1. Fed(w, u, buffer[p], output[r], s)
    BY <1>1, <1>3 DEF PipeInv, RunOutput
  <2>2. PICK d \in 0 .. Len(w) : u = SubSeq(w, d + 1, Len(w)) /\ Midway(w, d, buffer[p], o)
    BY <2>1 DEF Fed
  <2> DEFINE v == Append(w, c)
             x == Append(u, c)
             b == buffer[p]
  <2>3. Fed(v, x, b, output[r], s)
    <3> HIDE DEF w, u, o, b
    <3>1. Midway(v, d, b, o)
      BY <1>3, <2>2, MidwayStays DEF b
    <3>2. /\ v \in Seq(Bytes) /\ Len(v) = Len(w) + 1 /\ v[Len(w) + 1] = c
          /\ \A i \in 1 .. Len(w) : v[i] = w[i]
      BY <1>3, AppendProperties
    <3>3. /\ x \in Seq(Bytes) /\ Len(x) = Len(u) + 1 /\ x[Len(u) + 1] = c
          /\ \A i \in 1 .. Len(u) : x[i] = u[i]
      BY <1>3, AppendProperties
    <3> HIDE DEF v, x
    <3>4. d \in Nat /\ d <= Len(w) /\ Len(w) \in Nat /\ Len(w) \in 0 .. Len(w) /\ Len(v) \in 0 .. Len(v) /\ d <= Len(v)
      BY <1>3, <3>2
    <3>5. Len(u) = Len(w) - d /\ \A i \in 1 .. Len(w) - d : u[i] = w[d + i]
      BY SMTT(30), <1>3, <2>2, <3>4, BetweenIs
    <3> DEFINE y == SubSeq(v, d + 1, Len(v))
    <3>6. y \in Seq(Bytes) /\ Len(y) = Len(v) - d /\ \A i \in 1 .. Len(v) - d : y[i] = v[d + i]
      BY <3>2, <3>4, BetweenIs
    <3> HIDE DEF y
    <3>7. x = y
      <4>1. ASSUME NEW i \in 1 .. Len(x) PROVE x[i] = y[i]
        <5>1. i \in 1 .. Len(v) - d /\ y[i] = v[d + i]
          BY <3>2, <3>3, <3>4, <3>5, <3>6
        <5>2. CASE i = Len(u) + 1
          <6>1. d + i = Len(w) + 1
            BY <3>4, <3>5, <5>2
          <6>. QED
            BY <3>2, <3>3, <5>1, <5>2, <6>1
        <5>3. CASE i # Len(u) + 1
          <6>1. i \in 1 .. Len(u) /\ i \in 1 .. Len(w) - d /\ d + i \in 1 .. Len(w)
            BY <3>3, <3>4, <3>5, <5>3
          <6>. QED
            BY <3>2, <3>3, <3>5, <5>1, <6>1
        <5>. QED
          BY <5>2, <5>3
      <4>2. Len(x) = Len(y)
        BY <3>2, <3>3, <3>4, <3>5, <3>6
      <4>. QED
        BY <3>3, <3>6, <4>1, <4>2, SeqEqual
    <3>8. d \in 0 .. Len(v)
      BY <3>2, <3>4
    <3>. QED
      BY <3>1, <3>7, <3>8 DEF Fed, y, o
  <2> HIDE DEF v, x, b
  <2>4. ASSUME NEW t \in Streams, t # s
        PROVE  /\ <<r, t>> \in Pipes /\ <<r, t>> # p
               /\ written'[<<r, t>>] = written[<<r, t>>] /\ unread'[<<r, t>>] = unread[<<r, t>>]
    BY <1>3, <1>4, <2>4, IsPipe
  <2>5. ASSUME NEW t \in Streams
        PROVE  LET q == <<r, t>>
               IN  /\ q \in drained' => unread'[q] = <<>> /\ Told(written'[q], output'[r], t)
                   /\ q \notin drained' => Fed(written'[q], unread'[q], buffer'[q], output'[r], t)
    <3>1. CASE t = s
      BY <1>1, <1>3, <1>4, <2>3, <3>1 DEF v, x, b
    <3>2. CASE t # s
      <4> DEFINE q == <<r, t>>
      <4>1. /\ q \in drained => unread[q] = <<>> /\ Told(written[q], output[r], t)
            /\ q \notin drained => Fed(written[q], unread[q], buffer[q], output[r], t)
        BY <1>1, <1>3 DEF PipeInv, RunOutput
      <4>2. unread'[q] = unread[q] /\ written'[q] = written[q]
        BY <2>4, <3>2
      <4> HIDE DEF q
      <4>3. /\ q \in drained' => unread'[q] = <<>> /\ Told(written'[q], output'[r], t)
            /\ q \notin drained' => Fed(written'[q], unread'[q], buffer'[q], output'[r], t)
        BY <1>1, <4>1, <4>2
      <4>. QED
        BY <4>3 DEF q
    <3>. QED
      BY <3>1, <3>2
  <2>6. step'[r] = "wait"
    BY <1>1
  <2>. QED
    BY <2>5, <2>6 DEF RunOutput
<1>8. ASSUME NEW q \in Runs, q # r PROVE RunOutput(q)'
  <2>1. \A t \in Streams : <<q, t>> \in Pipes /\ <<q, t>> # p
    BY <1>3, <1>8, IsPipe
  <2>2. Apart(q)
    BY <1>1, <1>4, <2>1 DEF Apart
  <2>. QED
    BY <2>2, ApartKeeps DEF PipeInv
<1>. QED
  BY <1>6, <1>7, <1>8 DEF PipeInv

\* A pipe is let go of.
LEMMA CloseKeeps ==
  ASSUME PipeInv, open' \subseteq open, UNCHANGED <<phase, step, unread, written, drained, buffer, output>>,
         \A r \in Runs : step[r] # "wait" => \A s \in Streams : <<r, s>> \in open => <<r, s>> \in open'
  PROVE  PipeInv'
<1>1. Piped'
  BY DEF PipeInv, Piped
<1>2. ASSUME NEW r \in Runs PROVE RunOutput(r)'
  <2>1. RunOutput(r)
    BY DEF PipeInv
  <2>2. Untouched(r) => Untouched(r)'
    BY DEF Untouched
  <2>. QED
    BY <2>1, <2>2 DEF RunOutput
<1>. QED
  BY <1>1, <1>2 DEF PipeInv

\* What is sent for a pipe is of no other, and no other reads meanwhile.
LEMMA SentKeeps ==
  ASSUME PipeInv, NEW r \in Runs, NEW s \in Streams, NEW lines \in Seq(Line), NEW b \in Buffer,
         step[r] = "wait", UNCHANGED <<phase, step, open, written>>,
         output' = [output EXCEPT ![r] = output[r] \o Sent(s, lines)],
         buffer' = [buffer EXCEPT ![<<r, s>>] = b], Len(b.line) <= LineBytesMax, b.out = <<>>,
         drained' = drained \/ (drained' = drained \cup {<<r, s>>} /\ <<r, s>> \notin open),
         unread' \in [Pipes -> Seq(Bytes)], \A q \in Pipes : q # <<r, s>> => unread'[q] = unread[q],
         LinesOf(output[r], s) \o lines = LinesOf(output'[r], s) =>
           /\ <<r, s>> \in drained' => unread'[<<r, s>>] = <<>> /\ Told(written[<<r, s>>], output'[r], s)
           /\ <<r, s>> \notin drained' =>
                Fed(written[<<r, s>>], unread'[<<r, s>>], b, output'[r], s)
  PROVE  PipeInv'
<1> DEFINE p == <<r, s>>
           all == output[r] \o Sent(s, lines)
<1>1. p \in Pipes /\ buffer'[p] = b /\ \A q \in Pipes : q # p => buffer'[q] = buffer[q]
  BY IsPipe DEF PipeInv, Piped
<1>2. output[r] \in Seq(Item) /\ s \in Streams \cup Ends
  BY DEF PipeInv, Piped
<1>3. /\ all \in Seq(Item)
      /\ \A t \in Streams : LinesOf(all, t) = IF s = t THEN LinesOf(output[r], t) \o lines
                                                       ELSE LinesOf(output[r], t)
  <2> DEFINE items == output[r]
  <2>1. items \in Seq(Item)
    BY <1>2
  <2> HIDE DEF items
  <2>2. /\ items \o Sent(s, lines) \in Seq(Item)
        /\ \A t \in Streams : LinesOf(items \o Sent(s, lines), t) = IF s = t THEN LinesOf(items, t) \o lines
                                                       ELSE LinesOf(items, t)
    <3>1. s \in Streams \cup Ends
      BY <1>2
    <3>. QED
      BY ZenonT(30), <2>1, <3>1, LinesOfEach
  <2>. QED
    BY <2>2 DEF items
<1>4. output'[r] = all /\ \A q \in Runs : q # r => output'[q] = output[q]
  BY DEF PipeInv, Piped
<1> HIDE DEF all
<1>5. Piped'
  <2>1. output' \in [Runs -> Seq(Item)]
    BY <1>3 DEF PipeInv, Piped, all
  <2>2. /\ buffer' \in [Pipes -> Buffer]
        /\ \A q \in Pipes : Len(buffer'[q].line) <= LineBytesMax /\ buffer'[q].out = <<>>
    BY <1>1 DEF PipeInv, Piped
  <2>3. open' \subseteq Pipes /\ drained' \subseteq Pipes \ open' /\ written' \in [Pipes -> Seq(Bytes)]
    BY <1>1 DEF PipeInv, Piped
  <2>. QED
    BY <2>1, <2>2, <2>3 DEF Piped
<1>6. RunOutput(r)'
  <2>1. ASSUME NEW t \in Streams
        PROVE  LET q == <<r, t>>
               IN  /\ q \in drained' => unread'[q] = <<>> /\ Told(written'[q], output'[r], t)
                   /\ q \notin drained' => Fed(written'[q], unread'[q], buffer'[q], output'[r], t)
    <3>1. CASE t = s
      <4>1. LinesOf(output[r], s) \o lines = LinesOf(output'[r], s)
        BY <1>3, <1>4
      <4>. QED
        BY <1>1, <3>1, <4>1
    <3>2. CASE t # s
      <4> DEFINE q == <<r, t>>
      <4>1. q \in Pipes /\ q # p /\ unread'[q] = unread[q] /\ buffer'[q] = buffer[q] /\ written'[q] = written[q]
            /\ (q \in drained' <=> q \in drained)
        BY <1>1, <3>2, IsPipe
      <4>2. LinesOf(output'[r], t) = LinesOf(output[r], t)
        BY <1>3, <1>4, <3>2
      <4>3. /\ q \in drained => unread[q] = <<>> /\ Told(written[q], output[r], t)
            /\ q \notin drained => Fed(written[q], unread[q], buffer[q], output[r], t)
        BY DEF PipeInv, RunOutput
      <4>4. /\ Told(written[q], output[r], t) => Told(written[q], output'[r], t)
            /\ Fed(written[q], unread[q], buffer[q], output[r], t)
                 => Fed(written[q], unread[q], buffer[q], output'[r], t)
        BY <4>2 DEF Told, Fed
      <4> HIDE DEF q
      <4>5. /\ q \in drained' => unread'[q] = <<>> /\ Told(written'[q], output'[r], t)
            /\ q \notin drained' => Fed(written'[q], unread'[q], buffer'[q], output'[r], t)
        BY <4>1, <4>3, <4>4
      <4>. QED
        BY <4>5 DEF q
    <3>. QED
      BY <3>1, <3>2
  <2>. QED
    BY <2>1 DEF RunOutput
<1>7. ASSUME NEW q \in Runs, q # r PROVE RunOutput(q)'
  <2>1. \A t \in Streams : <<q, t>> \in Pipes /\ <<q, t>> # p
    BY <1>7, IsPipe
  <2>2. \A t \in Streams : <<q, t>> \in drained' <=> <<q, t>> \in drained
    BY <2>1
  <2>3. Apart(q)
    BY <1>1, <1>4, <1>7, <2>1, <2>2 DEF Apart
  <2>. QED
    BY <2>3, ApartKeeps DEF PipeInv
<1>. QED
  BY <1>5, <1>6, <1>7 DEF PipeInv

\* What is sent is no longer to be sent.
LEMMA MidwaySent ==
  ASSUME NEW w \in Seq(Bytes), NEW d \in 0 .. Len(w), NEW o \in Seq(Line), NEW b, Midway(w, d, b, o),
         Len(b.line) <= LineBytesMax
  PROVE  LET kept == [b EXCEPT !.out = <<>>]
         IN  /\ kept \in Buffer /\ Len(kept.line) <= LineBytesMax /\ kept.out = <<>>
             /\ b.out \in Seq(Line)
             /\ Midway(w, d, kept, o \o b.out)
<1> DEFINE kept == [b EXCEPT !.out = <<>>]
           out == b.out
           all == o \o out
<1>1. b \in Buffer /\ out \in Seq(Line)
  BY DEF Midway, Buffer
<1>2. kept \in Buffer /\ kept.line = b.line /\ kept.discarding = b.discarding /\ kept.out = <<>>
  <2>1. <<>> \in Seq(Line)
    OBVIOUS
  <2>2. ASSUME NEW x \in Seq(Line)
        PROVE  LET q == [b EXCEPT !.out = x]
               IN  q \in Buffer /\ q.line = b.line /\ q.discarding = b.discarding /\ q.out = x
    BY <1>1 DEF Buffer
  <2>. QED
    BY <2>1, <2>2
<1> HIDE DEF kept
<1>3. all \in Seq(Line) /\ all \o <<>> = all
  <2>1. all \in Seq(Line)
    <3> HIDE DEF out
    <3>. QED
      BY <1>1, ConcatProperties
  <2> HIDE DEF all
  <2>. QED
    BY <2>1, ConcatEmptySeq
<1>4. Midway(w, d, kept, all)
  <2>1. all \o kept.out = o \o b.out
    BY <1>2, <1>3
  <2> HIDE DEF all
  <2>. QED
    BY <1>2, <2>1 DEF Midway
<1>. QED
  BY <1>1, <1>2, <1>4 DEF kept

LEMMA ReadKeeps ==
  ASSUME PipeInv, NEW r \in Runs, NEW s \in Streams, Read(<<r, s>>)
  PROVE  PipeInv'
<1> DEFINE p == <<r, s>>
           w == written[p]
           u == unread[p]
           o == LinesOf(output[r], s)
<1>1. p \in Pipes /\ p[1] = r /\ p[2] = s
  BY IsPipe
<1>2. PICK n \in 1 .. Len(u) :
        LET fed == Feed(buffer[p], SubSeq(u, 1, n))
        IN  /\ unread' = [unread EXCEPT ![p] = SubSeq(u, n + 1, Len(u))]
            /\ buffer' = [buffer EXCEPT ![p] = [fed EXCEPT !.out = <<>>]]
            /\ Emit(p, fed.out)
  BY DEF Read
<1>3. step[r] = "wait" /\ UNCHANGED <<phase, step, open, written, drained>>
  BY <1>1 DEF Read
<1> DEFINE chunk == SubSeq(u, 1, n)
           rest == SubSeq(u, n + 1, Len(u))
           fed == Feed(buffer[p], chunk)
           kept == [fed EXCEPT !.out = <<>>]
           b == buffer[p]
<1>4. unread' = [unread EXCEPT ![p] = rest] /\ buffer' = [buffer EXCEPT ![p] = kept]
  BY <1>2
<1>5. output' = [output EXCEPT ![r] = output[r] \o Sent(s, fed.out)]
  <2> DEFINE lines == fed.out
  <2>1. Emit(p, lines)
    BY <1>2
  <2> HIDE DEF lines
  <2>. QED
    BY <1>1, <2>1 DEF Emit, Sent, lines
<1>6. w \in Seq(Bytes) /\ u \in Seq(Bytes) /\ n \in Nat /\ n >= 1 /\ n <= Len(u)
  BY <1>1 DEF PipeInv, Piped
<1>7. o \in Seq(Line)
  <2>1. output[r] \in Seq(Item)
    BY DEF PipeInv, Piped
  <2>. QED
    BY <2>1, LinesOfTypes
<1>8. p \notin drained /\ Fed(w, u, b, output[r], s)
  <2>1. u # <<>>
    BY <1>6
  <2>. QED
    BY <1>3, <2>1 DEF PipeInv, RunOutput
<1>9. PICK d \in 0 .. Len(w) : u = SubSeq(w, d + 1, Len(w)) /\ Midway(w, d, b, o)
  BY <1>8 DEF Fed
<1> HIDE DEF w, u, o, b, kept, fed, chunk, rest
<1>10. /\ d \in Nat /\ d <= Len(w) /\ Len(w) \in Nat /\ Len(w) \in 0 .. Len(w)
       /\ Len(u) = Len(w) - d /\ \A i \in 1 .. Len(w) - d : u[i] = w[d + i]
  <2>1. d \in Nat /\ d <= Len(w) /\ Len(w) \in Nat /\ Len(w) \in 0 .. Len(w)
    BY <1>6
  <2>. QED
    BY SMTT(30), <1>6, <1>9, <2>1, BetweenIs
<1>11. chunk \in Seq(Bytes) /\ Len(chunk) = n /\ \A i \in 1 .. n : chunk[i] = u[i]
  <2>1. 1 \in Int /\ n \in Int /\ \A i \in 1 .. n : u[i] \in Bytes
    BY <1>6
  <2>. QED
    BY <1>6, <2>1, SubSeqProperties DEF chunk
<1>12. d + Len(chunk) <= Len(w) /\ \A i \in 1 .. Len(chunk) : chunk[i] = w[d + i]
  <2>1. ASSUME NEW i \in 1 .. n PROVE chunk[i] = w[d + i]
    <3>1. i \in 1 .. Len(w) - d
      BY <1>6, <1>10
    <3>. QED
      BY <1>10, <1>11, <3>1
  <2>. QED
    BY <1>6, <1>10, <1>11, <2>1
<1> DEFINE m == d + n
<1>13. Midway(w, m, fed, o) /\ Len(fed.line) <= LineBytesMax
  <2>1. Midway(w, d + Len(chunk), Feed(b, chunk), o) /\ Len(Feed(b, chunk).line) <= LineBytesMax
    BY <1>6, <1>7, <1>9, <1>11, <1>12, FeedIs
  <2>. QED
    BY <1>11, <2>1 DEF fed, b
<1> HIDE DEF m
<1>14. m \in 0 .. Len(w) /\ m \in Nat /\ m <= Len(w)
  BY <1>6, <1>10 DEF m
<1>15. /\ kept \in Buffer /\ Len(kept.line) <= LineBytesMax /\ kept.out = <<>>
       /\ fed.out \in Seq(Line) /\ Midway(w, m, kept, o \o fed.out)
  BY <1>6, <1>7, <1>13, <1>14, MidwaySent DEF kept
<1>16. rest \in Seq(Bytes) /\ rest = SubSeq(w, m + 1, Len(w))
  <2>1. rest \in Seq(Bytes) /\ Len(rest) = Len(u) - n /\ \A i \in 1 .. Len(u) - n : rest[i] = u[n + i]
    <3>1. Len(u) \in 0 .. Len(u)
      BY <1>6
    <3>. QED
      BY <1>6, <3>1, BetweenIs DEF rest
  <2> DEFINE y == SubSeq(w, m + 1, Len(w))
  <2>2. y \in Seq(Bytes) /\ Len(y) = Len(w) - m /\ \A i \in 1 .. Len(w) - m : y[i] = w[m + i]
    <3>1. Len(w) \in 0 .. Len(w) /\ m <= Len(w) /\ m \in Nat
      BY <1>10, <1>14
    <3>. QED
      BY <1>6, <3>1, BetweenIs
  <2> HIDE DEF y
  <2>3. Len(rest) = Len(y)
    BY <1>6, <1>10, <2>1, <2>2 DEF m
  <2>4. ASSUME NEW i \in 1 .. Len(rest) PROVE rest[i] = y[i]
    <3>1. i \in 1 .. Len(u) - n /\ i \in 1 .. Len(w) - m /\ n + i \in 1 .. Len(w) - d /\ d + (n + i) = m + i
      BY <1>6, <1>10, <2>1 DEF m
    <3>. QED
      BY <1>10, <2>1, <2>2, <3>1
  <2>. QED
    BY <2>1, <2>2, <2>3, <2>4, SeqEqual DEF y
<1> DEFINE lines == fed.out
<1>17. /\ unread' \in [Pipes -> Seq(Bytes)] /\ unread'[p] = rest
       /\ \A q \in Pipes : q # p => unread'[q] = unread[q]
  BY <1>1, <1>4, <1>16 DEF PipeInv, Piped
<1>18. LinesOf(output[r], s) \o lines = LinesOf(output'[r], s) =>
         Fed(w, unread'[p], kept, output'[r], s)
  <2>1. ASSUME o \o lines = LinesOf(output'[r], s) PROVE Fed(w, unread'[p], kept, output'[r], s)
    BY <1>14, <1>15, <1>16, <1>17, <2>1 DEF Fed
  <2>. QED
    BY <2>1 DEF o
<1>19. lines \in Seq(Line) /\ kept \in Buffer /\ Len(kept.line) <= LineBytesMax /\ kept.out = <<>>
  BY <1>15
<1>20. output' = [output EXCEPT ![r] = output[r] \o Sent(s, lines)]
  BY <1>5
<1> HIDE DEF lines
<1>21. p \notin drained'
  BY <1>3, <1>8
<1>. QED
  BY <1>3, <1>4, <1>17, <1>18, <1>19, <1>20, <1>21, SentKeeps DEF p, w

LEMMA EndReadKeeps ==
  ASSUME PipeInv, NEW r \in Runs, NEW s \in Streams, EndRead(<<r, s>>)
  PROVE  PipeInv'
<1> DEFINE p == <<r, s>>
           w == written[p]
           o == LinesOf(output[r], s)
           b == buffer[p]
           lines == IF b.line = <<>> THEN <<>> ELSE <<Cap(Chomp(b.line))>>
<1>1. p \in Pipes /\ p[1] = r /\ p[2] = s
  BY IsPipe
<1>2. /\ step[r] = "wait" /\ p \notin open /\ p \notin drained /\ unread[p] = <<>>
      /\ drained' = drained \cup {p} /\ buffer' = [buffer EXCEPT ![p] = Empty]
      /\ Emit(p, lines)
      /\ UNCHANGED <<phase, step, open, unread, written>>
  BY <1>1 DEF EndRead, child
<1> HIDE DEF lines
<1>3. output' = [output EXCEPT ![r] = output[r] \o Sent(s, lines)]
  BY <1>1, <1>2 DEF Emit, Sent
<1>4. w \in Seq(Bytes) /\ b \in Buffer /\ b.out = <<>>
  BY <1>1 DEF PipeInv, Piped
<1>5. Fed(w, <<>>, b, output[r], s)
  BY <1>2 DEF PipeInv, RunOutput
<1>6. PICK d \in 0 .. Len(w) : <<>> = SubSeq(w, d + 1, Len(w)) /\ Midway(w, d, b, o)
  BY <1>5 DEF Fed
<1> HIDE DEF w, b
<1>7. o \in Seq(Line)
  <2>1. output[r] \in Seq(Item)
    BY DEF PipeInv, Piped
  <2>. QED
    BY <2>1, LinesOfTypes
<1> HIDE DEF o
<1>8. d = Len(w)
  <2>1. d \in Nat /\ d <= Len(w) /\ Len(w) \in Nat /\ Len(w) \in 0 .. Len(w)
    BY <1>4
  <2> DEFINE y == SubSeq(w, d + 1, Len(w))
  <2>2. Len(y) = Len(w) - d
    BY <1>4, <2>1, BetweenIs
  <2> HIDE DEF y
  <2>3. y = <<>>
    BY <1>6 DEF y
  <2>4. Len(y) = 0
    BY <2>3
  <2>. QED
    BY <2>1, <2>2, <2>4
<1>9. b.line \in Seq(Bytes) /\ Lines(w) = o \o lines
  BY <1>4, <1>6, <1>7, <1>8, MidwayAtLast DEF lines
<1>10. lines \in Seq(Line)
  <2> DEFINE c == Cap(Chomp(b.line))
  <2>1. c \in Line
    <3> DEFINE l == b.line
    <3>1. l \in Seq(Bytes)
      BY <1>9
    <3> HIDE DEF l
    <3>2. Chomp(l) \in Seq(Bytes)
      BY <3>1, CapIs
    <3> DEFINE k == Chomp(l)
    <3>3. k \in Seq(Bytes)
      BY <3>2
    <3> HIDE DEF k
    <3>4. Cap(k) \in Line
      BY <3>3, CapIs
    <3>. QED
      BY <3>4 DEF k, l
  <2> DEFINE L == Line
  <2>2. c \in L
    BY <2>1
  <2> HIDE DEF c, L
  <2>3. <<>> \in Seq(L) /\ <<c>> \in Seq(L)
    BY <2>2
  <2>. QED
    BY <2>3 DEF lines, c, L
<1>11. LinesOf(output[r], s) \o lines = LinesOf(output'[r], s) => Told(w, output'[r], s)
  BY <1>9 DEF Told, o
<1>12. /\ unread' \in [Pipes -> Seq(Bytes)] /\ unread'[p] = <<>>
       /\ \A q \in Pipes : q # p => unread'[q] = unread[q]
  BY <1>2 DEF PipeInv, Piped
<1>13. p \in drained' /\ (drained' = drained \cup {p} /\ p \notin open)
  BY <1>2
<1>14. Empty \in Buffer /\ Len(Empty.line) <= LineBytesMax /\ Empty.out = <<>>
  BY EmptyFits
<1>. QED
  BY <1>2, <1>3, <1>10, <1>11, <1>12, <1>13, <1>14, SentKeeps DEF p, w

LEMMA ExitedKeeps ==
  ASSUME PipeInv, NEW r \in Runs, step \in [Runs -> Stages], Exited(r)
  PROVE  PipeInv'
<1> DEFINE e == End("exited")
           items == output[r]
           all == Append(items, e)
<1>1. /\ step[r] = "wait" /\ {r} \X Streams \subseteq drained
      /\ step' = [step EXCEPT ![r] = "ended"] /\ output' = [output EXCEPT ![r] = all]
      /\ UNCHANGED <<phase, open, unread, written, drained, buffer>>
  BY DEF Exited, child, drain
<1>2. items \in Seq(Item) /\ "exited" \in Ends
  BY DEF PipeInv, Piped, Ends
<1> HIDE DEF items
<1>3. ASSUME NEW s \in Streams
      PROVE  all \in Seq(Item) /\ Last(all).of \in Ends /\ LinesOf(all, s) = LinesOf(items, s)
  BY <1>2, <1>3, LinesOfEnded
<1>4. all \in Seq(Item) /\ Last(all).of \in Ends
  <2>1. <<>> \in Seq(Bytes)
    OBVIOUS
  <2>2. e \in Item /\ e.of \in Ends
    BY <1>2, <2>1 DEF End, Item, Line
  <2> HIDE DEF e
  <2> DEFINE R == Item
  <2>3. items \in Seq(R) /\ e \in R
    BY <1>2, <2>2
  <2> HIDE DEF R
  <2>4. all \in Seq(R) /\ Len(all) = Len(items) + 1 /\ all[Len(items) + 1] = e
    BY <2>3, AppendProperties
  <2> HIDE DEF all
  <2>5. Last(all) = e
    BY <2>4 DEF Last
  <2>. QED
    BY <2>2, <2>4, <2>5 DEF R
<1> HIDE DEF e, all
<1>5. output'[r] = all /\ step'[r] = "ended" /\ \A q \in Runs : q # r => output'[q] = output[q] /\ step'[q] = step[q]
  BY <1>1 DEF PipeInv, Piped
<1>6. Piped'
  <2>1. output' \in [Runs -> Seq(Item)]
    BY <1>1, <1>4 DEF PipeInv, Piped
  <2>. QED
    BY <1>1, <2>1 DEF PipeInv, Piped
<1>7. RunOutput(r)'
  <2>1. ASSUME NEW s \in Streams PROVE Told(written'[<<r, s>>], output'[r], s)
    <3>1. <<r, s>> \in drained
      BY <1>1
    <3>2. Told(written[<<r, s>>], items, s)
      BY <1>1, <3>1 DEF PipeInv, RunOutput, items
    <3>. QED
      BY <1>1, <1>3, <1>5, <3>2 DEF Told
  <2>. QED
    BY <1>4, <1>5, <2>1 DEF RunOutput
<1>8. ASSUME NEW q \in Runs, q # r PROVE RunOutput(q)'
  <2>1. Apart(q)
    BY <1>1, <1>5, <1>8 DEF Apart
  <2>. QED
    BY <2>1, ApartKeeps DEF PipeInv
<1>. QED
  BY <1>6, <1>7, <1>8 DEF PipeInv

LEMMA OutputStart == LaunchInit => OutputInv
<1> SUFFICES ASSUME LaunchInit PROVE OutputInv
  OBVIOUS
<1>1. Control
  BY DEF LaunchInit, Control
<1>2. Piped
  <2>1. <<>> \in Seq(Bytes) /\ <<>> \in Seq(Item)
    OBVIOUS
  <2>. QED
    BY <2>1, EmptyFits DEF LaunchInit, Piped
<1>3. ASSUME NEW r \in Runs PROVE RunOutput(r)
  <2>1. output[r] = <<>> /\ step[r] = "idle"
    BY DEF LaunchInit
  <2>2. ASSUME NEW s \in Streams
        PROVE  LET p == <<r, s>>
               IN  /\ p \notin open /\ p \notin drained
                   /\ unread[p] = <<>> /\ written[p] = <<>> /\ buffer[p] = Empty
    BY IsPipe DEF LaunchInit
  <2>3. Untouched(r)
    BY <2>1, <2>2 DEF Untouched
  <2>. QED
    BY <2>1, <2>3 DEF RunOutput
<1>. QED
  BY <1>1, <1>2, <1>3, FlagsInit DEF OutputInv, PipeInv

LEMMA ControlKeeps ==
  ASSUME LaunchInv, Control, [LaunchNext]_launchVars
  PROVE  Control'
<1> USE LaunchAssumption DEF Control, LaunchInv, Stages
<1>1. CASE UNCHANGED launchVars
  BY <1>1 DEF launchVars, child
<1>2. ASSUME NEW r \in Runs, Fire(r) \/ Trigger(r) \/ Disconnect(r) \/ ExitChild(r) PROVE Control'
  <2>1. CASE Fire(r) BY <2>1 DEF Fire, child
  <2>2. CASE Trigger(r) BY <2>2 DEF Trigger, child
  <2>3. CASE Disconnect(r) BY <2>3 DEF Disconnect, child
  <2>4. CASE ExitChild(r) BY <2>4 DEF ExitChild
  <2>. QED BY <1>2, <2>1, <2>2, <2>3, <2>4
<1>3. ASSUME NEW r \in Runs, RunStep(r) PROVE Control'
  <2>1. CASE Claim(r) BY <2>1 DEF Claim, child
  <2>2. CASE NoEnv(r) BY <2>2 DEF NoEnv, child
  <2>3. CASE Return(r) BY <2>3 DEF Return
  <2>4. CASE Aborted(r) BY <2>4 DEF Aborted
  <2>5. CASE Spawn(r) BY <2>5 DEF Spawn
  <2>6. CASE Exited(r) BY <2>6 DEF Exited, child
  <2>7. CASE \E s \in Streams : Read(<<r, s>>) \/ EndRead(<<r, s>>)
    BY <2>7 DEF Read, EndRead, child
  <2>. QED BY <1>3, <2>1, <2>2, <2>3, <2>4, <2>5, <2>6, <2>7 DEF RunStep
<1>4. ASSUME NEW p \in Pipes, Write(p) \/ ClosePipe(p) PROVE Control'
  BY <1>4 DEF Write, ClosePipe
<1>5. CASE Signal \/ BeginGrace
  BY <1>5 DEF Signal, BeginGrace, child
<1>6. CASE TimeUp
  BY <1>6 DEF TimeUp, Invocations, child
<1>7. CASE Exit
  BY <1>7 DEF Exit
<1>. QED
  BY <1>1, <1>2, <1>3, <1>4, <1>5, <1>6, <1>7 DEF LaunchNext, Shutdown

LEMMA PipesKeep ==
  ASSUME LaunchInv, PipeInv, [LaunchNext]_launchVars
  PROVE  PipeInv'
<1>1. step \in [Runs -> Stages]
  BY DEF LaunchInv
<1>2. CASE UNCHANGED launchVars
  <2>1. UNCHANGED pipeVars /\ phase' = phase /\ step' = step
    BY <1>2 DEF launchVars, pipeVars, child
  <2>. QED
    BY <2>1, PipesStay
<1>3. ASSUME NEW r \in Runs, phase # "stopped", Fire(r) \/ Trigger(r) \/ Disconnect(r) \/ Claim(r) \/ NoEnv(r)
      PROVE  PipeInv'
  <2>1. UNCHANGED pipeVars /\ phase' = phase
    BY <1>3 DEF Fire, Trigger, Disconnect, Claim, NoEnv, pipeVars, child
  <2>2. /\ \A q \in Runs : q # r => step'[q] = step[q]
        /\ \/ step'[r] = "aborting"
           \/ step'[r] \in {"idle", "claimed", "spawn"} /\ step[r] \in {"idle", "claimed", "spawn"}
    <3>1. \/ step' = [step EXCEPT ![r] = "aborting"]
          \/ /\ step[r] \in {"idle", "claimed", "spawn"}
             /\ \E to \in {"idle", "claimed", "spawn"} : step' = [step EXCEPT ![r] = to]
      BY <1>3 DEF Fire, Trigger, Disconnect, Claim, NoEnv
    <3>. QED
      BY <1>1, <3>1
  <2>. QED
    BY <1>3, <2>1, <2>2, PipesStay
<1>4. ASSUME NEW r \in Runs, Return(r) \/ Aborted(r) PROVE PipeInv'
  <2>1. step' = [step EXCEPT ![r] = "idle"] /\ Forget(r) /\ phase' = phase
    BY <1>4 DEF Return, Aborted
  <2>2. step[r] \in Stages
    BY <1>1
  <2>. QED
    BY <1>1, <2>1, <2>2, ForgetKeeps
<1>5. ASSUME NEW r \in Runs, phase # "stopped", Spawn(r) PROVE PipeInv'
  BY <1>1, <1>5, SpawnKeeps
<1>6. ASSUME NEW r \in Runs, Exited(r) PROVE PipeInv'
  BY <1>1, <1>6, ExitedKeeps
<1>7. ASSUME NEW r \in Runs, NEW s \in Streams, Read(<<r, s>>) \/ EndRead(<<r, s>>) PROVE PipeInv'
  BY <1>7, ReadKeeps, EndReadKeeps
<1>8. ASSUME NEW r \in Runs, ExitChild(r) PROVE PipeInv'
  <2>1. /\ open' \subseteq open /\ UNCHANGED <<phase, step, unread, written, drained, buffer, output>>
        /\ step[r] = "wait" /\ \E left \in SUBSET (open \cap {r} \X Streams) : open' = open \ left
    BY <1>8 DEF ExitChild, drain
  <2>2. ASSUME NEW q \in Runs, step[q] # "wait", NEW s \in Streams, <<q, s>> \in open PROVE <<q, s>> \in open'
    <3>1. <<q, s>> \notin {r} \X Streams
      BY <2>1, <2>2
    <3>. QED
      BY <2>1, <2>2, <3>1
  <2>. QED
    BY <2>1, <2>2, CloseKeeps
<1>9. ASSUME NEW p \in Pipes, Write(p) PROVE PipeInv'
  BY <1>9, WriteKeeps
<1>10. ASSUME NEW p \in Pipes, ClosePipe(p) PROVE PipeInv'
  <2>1. /\ open' = open \ {p} /\ UNCHANGED <<phase, step, unread, written, drained, buffer, output>>
        /\ step[p[1]] = "wait"
    BY <1>10 DEF ClosePipe, drain
  <2>2. ASSUME NEW q \in Runs, step[q] # "wait", NEW s \in Streams, <<q, s>> \in open PROVE <<q, s>> \in open'
    <3>1. <<q, s>> # p
      BY <2>1, <2>2
    <3>. QED
      BY <2>1, <2>2, <3>1
  <2>. QED
    BY <2>1, <2>2, CloseKeeps
<1>11. CASE phase # "stopped" /\ (Signal \/ BeginGrace)
  <2>1. UNCHANGED pipeVars /\ step' = step
    BY <1>11 DEF Signal, BeginGrace, pipeVars, child
  <2>. QED
    BY <1>11, <2>1, PipesStay
<1>12. CASE TimeUp
  <2>1. UNCHANGED pipeVars /\ phase = "grace" /\ \A r \in Runs : step'[r] = step[r] \/ step'[r] = "aborting"
    BY <1>12 DEF TimeUp, pipeVars, child
  <2>. QED
    BY <2>1, PipesStay
<1>13. CASE Exit
  <2>1. UNCHANGED pipeVars /\ phase' = "stopped" /\ \A r \in Runs : step'[r] = "idle"
    BY <1>13 DEF Exit, pipeVars
  <2>. QED
    BY <2>1, PipesStay
<1>. QED
  BY <1>2, <1>3, <1>4, <1>5, <1>6, <1>7, <1>8, <1>9, <1>10, <1>11, <1>12, <1>13
  DEF LaunchNext, RunStep, Shutdown

LEMMA OutputInvariance == LaunchSpec => []OutputInv
<1>1. OutputInv /\ [LaunchNext]_launchVars => OutputInv'
  BY LaunchKeeps, ControlKeeps, PipesKeep DEF OutputInv
<1>. QED
  BY <1>1, OutputStart, PTL DEF LaunchSpec

\* The launcher's tables, and the buffers of drain, are what they are said to
\* be; the flag of an agent is up while its invocation is under way.
THEOREM LaunchTypes == LaunchSpec => []LaunchTypeOK
<1>1. OutputInv => LaunchTypeOK
  <2> SUFFICES ASSUME OutputInv PROVE LaunchTypeOK
    OBVIOUS
  <2>1. step \in [Runs -> {"idle", "claimed", "spawn", "wait", "ended", "aborting"}]
    BY DEF OutputInv, LaunchInv, Stages
  <2>2. \A r \in Runs : kind = "schedule" /\ step[r] \notin {"idle", "aborting"} => AgentOf[r] \in running
    BY DEF OutputInv, LaunchInv, Stages, Flagged, Busy
  <2>. QED
    BY <2>1, <2>2 DEF OutputInv, Control, PipeInv, Piped, LaunchTypeOK
<1>. QED
  BY <1>1, OutputInvariance, PTL

\* spawn_and_stream and drain: the consumer of a child gets every line of each
\* of its streams, in order and cut to the limit, before it is told how the
\* child ended, however the bytes came in chunks, whoever held the pipes open,
\* and however long a line is; and a reader never keeps more than the limit.
THEOREM WholeOutput == LaunchSpec => []OutputComplete
<1>1. OutputInv => OutputComplete
  BY DEF OutputInv, PipeInv, Piped, RunOutput, Told, OutputComplete
<1>. QED
  BY <1>1, OutputInvariance, PTL

-----------------------------------------------------------------------------
(* The directory of builds.                                                *)

\* A directory has an entry for each id, which may not be there; what else is in
\* the entry does not matter here.
Directory(d) == DOMAIN d = BuildIds /\ d = [id \in BuildIds |-> d[id]]

LEMMA IdsDiffer ==
  ASSUME NEW b \in Combos, NEW c \in Combos, NEW m, NEW k
  PROVE  IdOf(b, m) = IdOf(c, k) <=> b = c /\ m = k
<1>1. /\ b = [name |-> b.name, sdk |-> b.sdk, launcher |-> b.launcher]
      /\ c = [name |-> c.name, sdk |-> c.sdk, launcher |-> c.launcher]
  BY DEF Combos
<1>. QED
  BY <1>1 DEF IdOf

\* The id of a build is the first that none but a build of the same has.
LEMMA DerivedIs ==
  ASSUME NEW d, NEW c \in Combos, \E n \in 1 .. MaxSuffix : IdOf(c, n) \notin Existing(d, c)
  PROVE  \E k \in 1 .. MaxSuffix :
           /\ ResolveId(d, c, <<>>) = IdOf(c, k) /\ IdOf(c, k) \notin Existing(d, c)
           /\ \A m \in 1 .. k - 1 : IdOf(c, m) \in Existing(d, c)
<1> DEFINE free == {n \in 1 .. MaxSuffix : IdOf(c, n) \notin Existing(d, c)}
           k    == Min(free)
<1>1. free \in SUBSET Nat /\ free # {} /\ MaxSuffix \in Nat
  <2>1. MaxSuffix \in Nat /\ free \in SUBSET Nat
    <3>1. MaxSuffix \in Nat
      BY BuildsAssumption
    <3>2. \A n \in 1 .. MaxSuffix : n \in Nat
      BY <3>1
    <3>. QED
      BY Zenon, <3>1, <3>2
  <2>2. PICK n \in 1 .. MaxSuffix : IdOf(c, n) \notin Existing(d, c)
    OBVIOUS
  <2>3. n \in free
    BY <2>2
  <2>. QED
    BY <2>1, <2>3
<1>2. k \in free /\ \A n \in free : k <= n
  BY <1>1, Least DEF Min
<1>3. ResolveId(d, c, <<>>) = IdOf(c, k)
  BY DEF ResolveId, DeriveId
<1> HIDE DEF k
<1>4. ASSUME NEW m \in 1 .. k - 1
      PROVE  IdOf(c, m) \in Existing(d, c)
  <2>1. m \in 1 .. MaxSuffix /\ ~(k <= m)
    BY <1>1, <1>2
  <2>. QED
    BY <1>2, <2>1
<1>. QED
  BY <1>2, <1>3, <1>4

\* baectl build: whatever is in the directory, and wherever a build fails, the
\* entries of the others stay as they are.
THEOREM BuildsApart ==
  ASSUME NEW dirs, \A d \in dirs : Directory(d)
  PROVE  OtherBuildsStay(dirs)
<1> SUFFICES ASSUME NEW d \in dirs, NEW c \in Combos, NEW own \in BOOLEAN, NEW done \in 0 .. AllSteps,
                    NEW id \in DOMAIN d, d[id].there, ~SameCombo(d[id], c),
                    \E n \in 1 .. MaxSuffix : IdOf(c, n) \notin Existing(d, c)
             PROVE  Built(d, c, <<>>, own, done)[id] = d[id]
  BY DEF OtherBuildsStay
<1>1. PICK k \in 1 .. MaxSuffix : ResolveId(d, c, <<>>) = IdOf(c, k) /\ IdOf(c, k) \notin Existing(d, c)
  BY DerivedIs
<1>2. id \in Existing(d, c)
  BY DEF Existing
<1>3. Built(d, c, <<>>, own, done) = [d EXCEPT ![IdOf(c, k)] = BuildEntry(d[IdOf(c, k)], c, own, done)]
  BY <1>1 DEF Built
<1>. QED
  BY <1>1, <1>2, <1>3

\* baectl build: a second build of the same has the first one's id, and builds that
\* fail leave the directory such that this stays so.
THEOREM BuildsInPlace ==
  ASSUME NEW dirs, \A d \in dirs : Directory(d)
  PROVE  RebuildsInPlace(dirs)
<1>a. MaxSuffix \in Nat
  BY BuildsAssumption
<1>1. ASSUME NEW d \in dirs, Dense(d), NEW c \in Combos, NEW n \in 1 .. MaxSuffix, SameCombo(d[IdOf(c, n)], c)
      PROVE  ResolveId(d, c, <<>>) = IdOf(c, n)
  <2>1. IdOf(c, n) \notin Existing(d, c)
    BY <1>1 DEF Existing
  <2>2. PICK k \in 1 .. MaxSuffix :
          /\ ResolveId(d, c, <<>>) = IdOf(c, k) /\ IdOf(c, k) \notin Existing(d, c)
          /\ \A m \in 1 .. k - 1 : IdOf(c, m) \in Existing(d, c)
    BY <2>1, DerivedIs
  <2>3. ~(n < k)
    <3>1. n < k => n \in 1 .. k - 1
      BY <1>a
    <3>. QED
      BY <2>1, <2>2, <3>1
  <2>4. ~(k < n)
    <3> SUFFICES ASSUME k < n PROVE FALSE
      OBVIOUS
    <3>1. k \in 1 .. n - 1
      BY <1>a
    <3>2. d[IdOf(c, k)].there /\ ~SameCombo(d[IdOf(c, k)], c)
      BY <1>1, <3>1 DEF Dense
    <3>3. IdOf(c, k) \in DOMAIN d
      BY BuildsAssumption DEF Directory, IdOf, BuildIds, Combos
    <3>. QED
      BY <2>2, <3>2, <3>3 DEF Existing
  <2>5. k = n
    BY <1>a, <2>3, <2>4
  <2>. QED
    BY <2>2, <2>5
<1>2. ASSUME NEW d \in dirs, Dense(d), NEW c \in Combos,
             \E m \in 1 .. MaxSuffix : IdOf(c, m) \notin Existing(d, c), NEW done \in 0 .. AllSteps
      PROVE  Dense(Built(d, c, <<>>, TRUE, done))
  <2>1. PICK k \in 1 .. MaxSuffix :
          /\ ResolveId(d, c, <<>>) = IdOf(c, k) /\ IdOf(c, k) \notin Existing(d, c)
          /\ \A m \in 1 .. k - 1 : IdOf(c, m) \in Existing(d, c)
    BY <1>2, DerivedIs
  <2> DEFINE new == BuildEntry(d[IdOf(c, k)], c, TRUE, done)
             D   == [d EXCEPT ![IdOf(c, k)] = new]
  <2>2. Built(d, c, <<>>, TRUE, done) = D
    BY <2>1 DEF Built
  <2>3. new.there /\ new.manifest \in {c, d[IdOf(c, k)].manifest}
    BY DEF BuildEntry
  <2> HIDE DEF new
  <2>4. ASSUME NEW b \in Combos, NEW n \in 1 .. MaxSuffix
        PROVE  /\ IdOf(b, n) \in DOMAIN d
               /\ ~(b = c /\ n = k) => D[IdOf(b, n)] = d[IdOf(b, n)]
               /\ b = c /\ n = k => D[IdOf(b, n)] = new
    <3>1. IdOf(b, n) \in DOMAIN d
      BY DEF Directory, IdOf, BuildIds, Combos
    <3>. QED
      BY <3>1, IdsDiffer
  <2> HIDE DEF D
  <2>5. ASSUME NEW b \in Combos, NEW n \in 1 .. MaxSuffix, SameCombo(D[IdOf(b, n)], b), NEW m \in 1 .. n - 1
        PROVE  D[IdOf(b, m)].there /\ ~SameCombo(D[IdOf(b, m)], b)
    <3>1. m \in 1 .. MaxSuffix /\ m # n
      BY <1>a
    <3>2. CASE b = c /\ n = k
      <4>1. IdOf(b, m) \in Existing(d, c)
        BY <2>1, <3>2
      <4>2. D[IdOf(b, m)] = d[IdOf(b, m)]
        BY <2>4, <3>1, <3>2
      <4>. QED
        BY <3>2, <4>1, <4>2 DEF Existing
    <3>3. CASE ~(b = c /\ n = k)
      <4>1. d[IdOf(b, m)].there /\ ~SameCombo(d[IdOf(b, m)], b)
        <5>1. SameCombo(d[IdOf(b, n)], b)
          BY <2>4, <2>5, <3>3
        <5>. QED
          BY <1>2, <5>1 DEF Dense
      <4>2. IdOf(b, m) \in DOMAIN d
        BY <2>4, <3>1
      <4>3. ~(b = c /\ m = k)
        BY <2>1, <4>1, <4>2 DEF Existing
      <4>4. D[IdOf(b, m)] = d[IdOf(b, m)]
        BY <2>4, <3>1, <4>3
      <4>. QED
        BY <4>1, <4>4
    <3>. QED
      BY <3>2, <3>3
  <2>. QED
    BY <2>2, <2>5 DEF Dense
<1>. QED
  BY <1>1, <1>2 DEF RebuildsInPlace

-----------------------------------------------------------------------------
(* The environment of a harness.                                           *)

\* baectl ready and run agree on what is missing.
THEOREM ReadyIsRunnable ==
  ASSUME NEW needs, NEW envs
  PROVE  ReadyMeansRunnable(needs, envs)
<1> SUFFICES ASSUME NEW needed \in needs, NEW environ \in envs, NEW dotenv \in envs, NEW saved \in envs
             PROVE  MissingEnv(needed, environ, dotenv, saved, TRUE) = AskFor(needed, environ, dotenv, saved)
  BY DEF ReadyMeansRunnable
<1>1. DOMAIN Captured(needed, environ, dotenv, saved)
        = {w \in needed : ~Has(dotenv, w) /\ (Has(environ, w) \/ Has(saved, w))}
  BY DEF Captured
<1>. QED
  BY <1>1 DEF MissingEnv, AskFor

\* baectl run: what a harness needs is in its container, in this run and, from what
\* this one saved, in the next.
THEOREM HarnessHasAll ==
  ASSUME NEW needs, NEW envs, NEW url, NEW key, url # "", key # ""
  PROVE  HarnessSees(needs, envs, url, key)
<1> SUFFICES ASSUME NEW needed \in needs, NEW environ \in envs, NEW dotenv \in envs, NEW saved \in envs,
                    AskFor(needed, environ, dotenv, saved) = {}
             PROVE  LET first  == HarnessEnv(Captured(needed, environ, dotenv, saved), url, key)
                        second == HarnessEnv(Captured(needed, <<>>, dotenv, first), url, key)
                        seen   == ContainerEnv(dotenv, first)
                    IN  /\ \A v \in needed : Has(seen, v)
                        /\ seen["BAE_CLIENT_KEY"] = key /\ seen["BAE_SERVER_URL"] = url
                        /\ AskFor(needed, <<>>, dotenv, first) = {} /\ ContainerEnv(dotenv, second) = seen
  BY DEF HarnessSees
<1> DEFINE own == [v \in {"BAE_SERVER_URL", "BAE_CLIENT_KEY"} |-> IF v = "BAE_CLIENT_KEY" THEN key ELSE url]
           one == Captured(needed, environ, dotenv, saved)
           first == HarnessEnv(one, url, key)
           two == Captured(needed, <<>>, dotenv, first)
           second == HarnessEnv(two, url, key)
           seen == ContainerEnv(dotenv, first)
           Lacking == {v \in needed : ~Has(dotenv, v)}
           Own  == {"BAE_SERVER_URL", "BAE_CLIENT_KEY"}
<1>1. DOMAIN one = Lacking /\ \A v \in Lacking : one[v] # ""
  <2>1. one = [v \in {w \in needed : ~Has(dotenv, w) /\ (Has(environ, w) \/ Has(saved, w))} |->
                 IF Has(environ, v) THEN environ[v] ELSE saved[v]]
    BY DEF Captured
  <2>2. Lacking \ DOMAIN one = {}
    BY DEF AskFor
  <2> HIDE DEF one
  <2>. QED
    BY <2>1, <2>2 DEF Has
<1>2. /\ first = [v \in Lacking \cup Own |-> IF v \in Own THEN own[v] ELSE one[v]]
      /\ \A v \in Own : own[v] # ""
  <2>1. first = [v \in DOMAIN one \cup Own |-> IF v \in Own THEN own[v] ELSE one[v]]
    BY DEF HarnessEnv, Above
  <2> HIDE DEF one, first
  <2>. QED
    BY <1>1, <2>1
<1> HIDE DEF one, own
<1>3. \A v \in Lacking : Has(first, v)
  <2> HIDE DEF first
  <2>. QED
    BY <1>1, <1>2 DEF Has
<1>4. DOMAIN two = Lacking /\ \A v \in Lacking : two[v] = first[v]
  <2>1. two = [v \in {w \in needed : ~Has(dotenv, w) /\ (Has(<<>>, w) \/ Has(first, w))} |->
                 IF Has(<<>>, v) THEN <<>>[v] ELSE first[v]]
    BY DEF Captured
  <2>2. \A v : ~Has(<<>>, v)
    <3>1. DOMAIN <<>> = {}
      <4>1. <<>> \in Seq({}) /\ Len(<<>>) = 0
        BY EmptySeq
      <4>2. \A q \in Seq({}) : Len(q) = 0 => DOMAIN q = {}
        BY LenProperties
      <4>. QED
        BY Zenon, <4>1, <4>2
    <3>. QED
      BY Zenon, <3>1 DEF Has
  <2> HIDE DEF two, first
  <2>. QED
    BY <1>3, <2>1, <2>2
<1>5. second = [v \in Lacking \cup Own |-> IF v \in Own THEN own[v] ELSE two[v]]
  <2>1. second = [v \in DOMAIN two \cup Own |-> IF v \in Own THEN own[v] ELSE two[v]]
    BY DEF HarnessEnv, Above, own
  <2> HIDE DEF two, second
  <2>. QED
    BY <1>4, <2>1
<1> HIDE DEF first, two
<1>6. second = first
  <2> HIDE DEF second
  <2>1. \A v \in Lacking \cup Own : v \notin Own => two[v] = one[v]
    BY <1>2, <1>4
  <2>. QED
    BY <1>2, <1>5, <2>1
<1> HIDE DEF second
<1>7. /\ DOMAIN seen = DOMAIN dotenv \cup (Lacking \cup Own)
      /\ \A v \in Lacking \cup Own : seen[v] = first[v]
      /\ \A v \in DOMAIN dotenv : v \notin Lacking \cup Own => seen[v] = dotenv[v]
  <2>1. DOMAIN first = Lacking \cup Own
    BY <1>2
  <2>. QED
    BY <2>1 DEF ContainerEnv, Above
<1> HIDE DEF seen
<1>8. ASSUME NEW v \in needed
      PROVE  Has(seen, v)
  <2>1. CASE v \in Lacking \cup Own
    <3>1. first[v] # ""
      BY <1>1, <1>2, <2>1
    <3>. QED
      BY <1>7, <2>1, <3>1 DEF Has
  <2>2. CASE v \notin Lacking \cup Own
    <3>1. Has(dotenv, v)
      BY <2>2
    <3>. QED
      BY <1>7, <2>2, <3>1 DEF Has
  <2>. QED
    BY <2>1, <2>2
<1>9. seen["BAE_CLIENT_KEY"] = key /\ seen["BAE_SERVER_URL"] = url
  BY <1>2, <1>7 DEF own
<1>10. AskFor(needed, <<>>, dotenv, first) = {}
  BY <1>4 DEF AskFor, two
<1>11. ContainerEnv(dotenv, second) = seen
  BY <1>6 DEF seen
<1>. QED
  BY <1>8, <1>9, <1>10, <1>11 DEF seen, second, two, first, one
=============================================================================
