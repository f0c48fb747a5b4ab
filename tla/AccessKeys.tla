----------------------------- MODULE AccessKeys -----------------------------
(***************************************************************************)
(* Who may do what: profiles, the client keys bound to them, the sessions  *)
(* those open and join, the session keys minted for it, and the admin key  *)
(* of the server itself.                                                   *)
(*                                                                         *)
(* All of it is rows of one SQLite connection behind one mutex, written    *)
(* statement by statement: nothing interleaves with the statements of one  *)
(* critical section, but a crash may come between them, and calls that     *)
(* check in one section and write in another do interleave.                *)
(***************************************************************************)
EXTENDS Integers, FiniteSets

CONSTANTS
  Profiles, Clients, Sessions,
  ProfileOf,    \* the profile each client key is made for
  Nil,
  HashFile,     \* the admin key whose hash an operator may provision
  MaxAdminKeys, \* bound on the admin keys the server generates
  MaxCrashes    \* bound on crashes, and failed boots, and restarts

Generated == 1 .. MaxAdminKeys
AdminKey  == Generated \cup {HashFile}

ASSUME KeysAssumption ==
  /\ ProfileOf \in [Clients -> Profiles]
  /\ Nil \notin Clients \cup Sessions \cup Generated /\ HashFile \notin Generated \cup {Nil}
  /\ MaxAdminKeys \in Nat /\ MaxCrashes \in Nat

VARIABLES
  profile,   \* profiles: active until deleted_at is set
  client,    \* keys, role client
  session,   \* sessions.state
  owner,     \* the profile of each session
  minted,    \* keys, role session: <<session, client>>, of any age
  active,    \* those not revoked
  call,      \* the create or join call of each client: what it has checked
  admin,     \* keys, role admin: the active ones
  file,      \* what the admin key file holds
  hash,      \* the key of the admin key hash file, Nil without that file
  boot,      \* how far the server's start has got
  secured,   \* admin authentication is on
  made,      \* admin keys generated so far
  crashes,
  cut,       \* history: sessions and clients a crash left half written
  raced,     \* history: clients revoked while a call of theirs was on its way
  unwritten  \* history: admin keys that never reached the key file

store   == <<profile, client, session, owner, minted, active>>
start   == <<admin, file, hash, boot, secured, made>>
hist    == <<crashes, cut, raced, unwritten>>
keyVars == <<store, call, start, hist>>

NoCall == [op |-> "none", session |-> Nil, step |-> "none"]

KeysTypeOK ==
  /\ profile \in [Profiles -> {"none", "active", "deleted"}]
  /\ client \in [Clients -> {"none", "active", "revoked"}]
  /\ session \in [Sessions -> {"none", "open", "closed", "error"}]
  /\ owner \in [Sessions -> Profiles \cup {Nil}]
  /\ minted \subseteq {s \in Sessions : session[s] # "none"} \X {c \in Clients : client[c] # "none"}
  /\ active \subseteq minted
  /\ call \in [Clients -> [op: {"none", "create", "join"}, session: Sessions \cup {Nil},
                           step: {"none", "authenticated", "checked"}]]
  /\ admin \subseteq AdminKey /\ file \in Generated \cup {Nil} /\ hash \in {HashFile, Nil}
  /\ boot \in {"down", "revoked", "generate", "write", "serving"}
  /\ secured \in BOOLEAN
  /\ made \in 0 .. MaxAdminKeys /\ crashes \in 0 .. MaxCrashes
  /\ cut \subseteq Sessions \cup Clients /\ raced \subseteq Clients /\ unwritten \subseteq Generated

KeysInit ==
  /\ profile = [p \in Profiles |-> "none"] /\ client = [c \in Clients |-> "none"]
  /\ session = [s \in Sessions |-> "none"] /\ owner = [s \in Sessions |-> Nil]
  /\ minted = {} /\ active = {}
  /\ call = [c \in Clients |-> NoCall]
  /\ admin = {} /\ file = Nil /\ hash \in {HashFile, Nil} /\ boot = "down" /\ secured = TRUE /\ made = 0
  /\ crashes = 0 /\ cut = {} /\ raced = {} /\ unwritten = {}

Serving == boot = "serving"

\* A crash ends every call; whether it came in the middle of a critical section
\* is said where it matters.
Crash ==
  /\ crashes < MaxCrashes /\ crashes' = crashes + 1
  /\ boot' = "down" /\ call' = [c \in Clients |-> NoCall]

-----------------------------------------------------------------------------
(* The admin API: profiles and client keys.                                *)

CreateProfile(p) ==
  /\ Serving /\ profile[p] = "none"
  /\ profile' = [profile EXCEPT ![p] = "active"]
  /\ UNCHANGED <<client, session, owner, minted, active, call, start, hist>>

\* soft_delete: only without active client keys.
DeleteProfile(p) ==
  /\ Serving /\ profile[p] = "active"
  /\ \A c \in Clients : ProfileOf[c] = p => client[c] # "active"
  /\ profile' = [profile EXCEPT ![p] = "deleted"]
  /\ UNCHANGED <<client, session, owner, minted, active, call, start, hist>>

\* The profile is looked up and the key inserted under one lock.
CreateClientKey(c) ==
  /\ Serving /\ client[c] = "none" /\ profile[ProfileOf[c]] = "active"
  /\ client' = [client EXCEPT ![c] = "active"]
  /\ UNCHANGED <<profile, session, owner, minted, active, call, start, hist>>

\* The open sessions the client ever had a key of, without an active key now.
ClosedFor(c, keys) ==
  [s \in Sessions |->
     IF session[s] = "open" /\ <<s, c>> \in minted /\ \A d \in Clients : <<s, d>> \notin keys
       THEN "closed" ELSE session[s]]

\* Wrong on purpose: the session keys are left alone.
KeysKept(c) == active

KeysLeft(c) == {k \in active : k[2] # c}

\* revoke_client_key: the client key, then its session keys, then the sessions;
\* a crash may come after each statement, and there is no second try: the key
\* is gone.
RevokeKey(c) ==
  /\ Serving /\ client[c] = "active"
  /\ client' = [client EXCEPT ![c] = "revoked"]
  /\ raced' = IF call[c] # NoCall THEN raced \cup {c} ELSE raced
  /\ \/ /\ active' = KeysLeft(c) /\ session' = ClosedFor(c, KeysLeft(c))
        /\ UNCHANGED <<call, crashes, boot, cut>>
     \/ /\ Crash /\ active' = KeysLeft(c) /\ UNCHANGED session
        /\ cut' = cut \cup {s \in Sessions : <<s, c>> \in active}
     \/ /\ Crash /\ UNCHANGED <<session, active>>
        /\ cut' = cut \cup {c}
  /\ UNCHANGED <<profile, owner, minted, admin, file, hash, secured, made, unwritten>>

-----------------------------------------------------------------------------
(* The client API.                                                         *)

\* authenticate: rows that are not deleted are looked at, and no others.
KnownClient(c) == client[c] = "active"

\* auth_client.
Authenticate(c, op) ==
  /\ Serving /\ KnownClient(c) /\ call[c] = NoCall
  /\ call' = [call EXCEPT ![c] = [op |-> op, session |-> Nil, step |-> "authenticated"]]
  /\ UNCHANGED <<store, start, hist>>

\* A session that never opens leaves a row in state error.
FailedOpen(s, p) ==
  /\ session[s] = "none"
  /\ session' = [session EXCEPT ![s] = "error"]
  /\ owner' = [owner EXCEPT ![s] = p]

Joinable(c, s) == session[s] = "open" /\ owner[s] = ProfileOf[c]

\* create and join look up the profile, and join the session before it.
CheckProfile(c) ==
  /\ call[c].step = "authenticated"
  /\ \E s \in Sessions :
       \/ /\ call[c].op = "create" /\ session[s] = "none"
          /\ profile[ProfileOf[c]] = "active"
          /\ call' = [call EXCEPT ![c].session = s, ![c].step = "checked"]
          /\ \A d \in Clients : call[d].session # s \/ call[d].op = "join"
          /\ UNCHANGED store
       \/ /\ call[c].op = "join" /\ Joinable(c, s)
          /\ profile[ProfileOf[c]] = "active"
          /\ call' = [call EXCEPT ![c].session = s, ![c].step = "checked"]
          /\ UNCHANGED store
       \/ /\ profile[ProfileOf[c]] = "deleted"
          /\ call[c].op = "join" => \E t \in Sessions : session[t] = "open" /\ owner[t] = ProfileOf[c]
          /\ \A d \in Clients : call[d].session # s
          /\ FailedOpen(s, ProfileOf[c])
          /\ call' = [call EXCEPT ![c] = NoCall]
          /\ UNCHANGED <<profile, client, minted, active>>
  /\ UNCHANGED <<start, hist>>

\* parse_session_body, and a session that is not there, not open, or opened
\* with another profile: nothing is written.
Refuse(c) ==
  /\ call[c].step = "authenticated"
  /\ call' = [call EXCEPT ![c] = NoCall]
  /\ UNCHANGED <<store, start, hist>>

\* The tools the client declares are not those its profile allows, or reserved,
\* or a subagent without what it takes to start one.
Reject(c) ==
  /\ call[c].step = "checked"
  /\ call' = [call EXCEPT ![c] = NoCall]
  /\ UNCHANGED <<store, start, hist>>

\* The profile's primary provider is not configured: a row in state error.
NoProvider(c) ==
  /\ call[c].step = "checked"
  /\ call' = [call EXCEPT ![c] = NoCall]
  /\ \E s \in Sessions :
       /\ \A d \in Clients \ {c} : call[d].session # s
       /\ FailedOpen(s, ProfileOf[c])
  /\ UNCHANGED <<profile, client, minted, active, start, hist>>

Mint(c, s) == minted' = minted \cup {<<s, c>>} /\ active' = active \cup {<<s, c>>}

\* Wrong on purpose: the caller gets a session without a key of it.
OpenWithoutKey(c) ==
  LET s == call[c].session
  IN
  /\ call[c].step = "checked" /\ call[c].op = "create"
  /\ session' = [session EXCEPT ![s] = "open"]
  /\ owner' = [owner EXCEPT ![s] = ProfileOf[c]]
  /\ call' = [call EXCEPT ![c] = NoCall]
  /\ UNCHANGED <<profile, client, minted, active, start, hist>>

\* create: the session, its key, its event; a crash may leave a session that
\* nobody has a key of.
Open(c) ==
  LET s == call[c].session
  IN
  /\ call[c].step = "checked" /\ call[c].op = "create"
  /\ session' = [session EXCEPT ![s] = "open"]
  /\ owner' = [owner EXCEPT ![s] = ProfileOf[c]]
  /\ \/ Mint(c, s) /\ call' = [call EXCEPT ![c] = NoCall] /\ UNCHANGED <<boot, crashes, cut>>
     \/ Mint(c, s) /\ Crash /\ UNCHANGED cut
     \/ Crash /\ cut' = cut \cup {s} /\ UNCHANGED <<minted, active>>
  /\ UNCHANGED <<profile, client, admin, file, hash, secured, made, raced, unwritten>>

\* join mints without another look at the session, the client or the profile.
Join(c) ==
  /\ call[c].step = "checked" /\ call[c].op = "join"
  /\ Mint(c, call[c].session)
  /\ call' = [call EXCEPT ![c] = NoCall]
  /\ UNCHANGED <<profile, client, session, owner, start, hist>>

\* auth_session: a live key of this very session.
Holds(c, s) == <<s, c>> \in active

\* DELETE, the one call of a session's client that changes its row.
Close(c, s) ==
  /\ Serving /\ Holds(c, s) /\ session[s] = "open"
  /\ session' = [session EXCEPT ![s] = "closed"]
  /\ UNCHANGED <<profile, client, owner, minted, active, call, start, hist>>

\* A turn fails for good.
FailTurn(s) ==
  /\ Serving /\ session[s] = "open" /\ \E c \in Clients : Holds(c, s)
  /\ session' = [session EXCEPT ![s] = "error"]
  /\ UNCHANGED <<profile, client, owner, minted, active, call, start, hist>>

-----------------------------------------------------------------------------
(* The start of the server: bootstrap of the admin key.                    *)

Keep == UNCHANGED <<store, call, crashes, cut, raced>>

\* The flags of a start, or the environment: with authentication, or without.
Start(secure) == boot = "down" /\ secured' = secure

\* The rows of the admin keys.
AddAdmin(k)  == admin' = admin \cup {k}
RevokeAdmins == admin' = {}

\* With authentication disabled the keys are not looked at.
BootOpen ==
  /\ Start(FALSE) /\ boot' = "serving"
  /\ Keep /\ UNCHANGED <<admin, file, hash, made, unwritten>>

\* An active key, or else the provisioned hash, or else a new key.
BootSecured ==
  /\ Start(TRUE)
  /\ \/ admin # {} /\ boot' = "serving" /\ UNCHANGED admin
     \/ admin = {} /\ hash # Nil /\ boot' = "serving" /\ AddAdmin(hash)
     \/ admin = {} /\ hash = Nil /\ boot' = "generate" /\ UNCHANGED admin
  /\ Keep /\ UNCHANGED <<file, hash, made, unwritten>>

\* Wrong on purpose: the new key is added to the old.
RotateKeepingOld ==
  /\ Start(TRUE) /\ boot' = "revoked" /\ UNCHANGED admin
  /\ Keep /\ UNCHANGED <<file, hash, made, unwritten>>

\* --rotate-admin-key: the active keys are revoked, the file is removed.
Rotate ==
  /\ Start(TRUE) /\ boot' = "revoked" /\ RevokeAdmins
  /\ Keep /\ UNCHANGED <<file, hash, made, unwritten>>

RemoveKeyFile ==
  /\ boot = "revoked" /\ boot' = "generate" /\ file' = Nil
  /\ Keep /\ UNCHANGED <<admin, hash, secured, made, unwritten>>

\* self_generate: the row, then the file.
Generate ==
  /\ boot = "generate" /\ made < MaxAdminKeys
  /\ made' = made + 1 /\ AddAdmin(made + 1) /\ boot' = "write"
  /\ unwritten' = unwritten \cup {made + 1}
  /\ Keep /\ UNCHANGED <<file, hash, secured>>

WriteKeyFile ==
  /\ boot = "write" /\ boot' = "serving" /\ file' = made
  /\ unwritten' = unwritten \ {made}
  /\ Keep /\ UNCHANGED <<admin, hash, secured, made>>

\* The server stops, or dies, or cannot read or write one of the files.
Stop ==
  /\ boot # "down" /\ Crash
  /\ file' \in IF boot = "write" THEN {file, Nil} ELSE {file}
  /\ UNCHANGED <<store, admin, hash, secured, made, cut, raced, unwritten>>

-----------------------------------------------------------------------------
KeysNext ==
  \/ \E p \in Profiles : CreateProfile(p) \/ DeleteProfile(p)
  \/ \E c \in Clients : CreateClientKey(c) \/ RevokeKey(c) \/ CheckProfile(c) \/ Refuse(c) \/ Reject(c)
                        \/ NoProvider(c) \/ Open(c) \/ Join(c)
  \/ \E c \in Clients, op \in {"create", "join"} : Authenticate(c, op)
  \/ \E c \in Clients, s \in Sessions : Close(c, s)
  \/ \E s \in Sessions : FailTurn(s)
  \/ BootOpen \/ BootSecured \/ Rotate \/ RemoveKeyFile \/ Generate \/ WriteKeyFile
  \/ Stop

KeysSpec == KeysInit /\ [][KeysNext]_keyVars

-----------------------------------------------------------------------------
(***************************************************************************)
(* What the keys promise.                                                  *)
(***************************************************************************)

\* A session key dies with the client key it was minted for, unless a call of
\* the client was on its way when the client was revoked, or the revocation
\* was cut off by a crash.
RevokedIsOut ==
  \A k \in active : client[k[2]] = "active" \/ k[2] \in raced \cup cut

\* An open session is somebody's: a client that can still use and close it
\* holds a key, unless a crash cut its creation or its last revocation off.
OpenIsReachable ==
  \A s \in Sessions : session[s] = "open" /\ s \notin cut =>
    \E c \in Clients : <<s, c>> \in active

\* A server that serves with authentication has exactly one admin key, and
\* somebody has its plaintext: the key file, or the operator that provisioned
\* it - unless the server was stopped between the row and the file, which the
\* next rotation repairs.
OneKnownAdminKey ==
  Serving /\ secured =>
    \E k \in AdminKey : admin = {k} /\ k \in {file, hash} \cup unwritten
=============================================================================
