# Formal model of the Better Agent Engine

This directory holds TLA+ models of the engine: its session server (`server/`),
what a client SDK does with it (`client-rust/`), the launchers, `baectl`, and the
dashboard's bridge (`max/server/`); the runs that check them with TLC; and
theorems checked by the TLA+ proof system. Paths below are relative to the
repository's source. `rpc.rs` is `server/src/api/client/rpc.rs`, `sessions.rs` is
`server/src/api/client/sessions.rs`, `store/` and `engine/` are under
`server/src/`.

1. The system
2. The modules
3. The runs
4. The proofs
5. Where the code disagrees with its documentation or with itself
6. What is not modelled
7. Plan

## 1. The system

`baesrv` keeps *sessions*. A session has one append-only event log in SQLite.
Client programs (*drivers*, each with a client key) send messages to it over
JSON-RPC. The server runs a *turn*: it replays the log to a language-model
provider, executes the tools it owns, and ends with a final answer, with a
request for tools that only the client can execute (the turn *pauses*), or in
error. Any number of watchers follow the log live. Around the server, `baectl`
deploys it and prepares harnesses for it, a harness drives a session with an SDK,
a launcher starts harnesses, and the dashboard watches sessions.

| Component | State | Operations | Model |
|---|---|---|---|
| Turn gate (`rpc.rs`, `api/mod.rs`) | `turn_gates`, `pending_turns`, `drivers`, the session row | register, send, resume, retire, queue, park, compact, close | `TurnGate`, `TurnOwnership` |
| Event log and feed (`engine/broadcast.rs`, `store/sessions.rs`) | `session_events`, a channel and a `Notify` per session | insert, publish, subscribe, replay, unsubscribe, remove | `EventFeed` |
| Turn loop, merge, compaction (`engine/session.rs`, `engine/provider.rs`, `rpc.rs`) | the log, a pause's stash, the back-off | provider call and fallback, server tool rounds, merge, cancel, summarise, scope of replay | `Transcript`, `Conversation` |
| Sandbox, subagents (`engine/sandbox.rs`, `engine/subagent.rs`, `engine/session.rs`) | a handle, a task table and a container per session | start, exec, stop, launch, cancel, tear down | `SessionRuntime` |
| MCP (`engine/mcp.rs`) | a child process or an HTTP session, a mutex | connect, call, close | `McpConnection`; `SessionRuntime` for the tear-down |
| Keys and sessions (`store/keys.rs`, `api/admin/keys.rs`, `sessions.rs`, `admin_auth.rs`) | rows; the admin key's files | create, join, close, revoke, bootstrap, rotate, list | `AccessKeys`, `Listing` |
| Configuration (`config.rs`, `config_file.rs`, `cli.rs`) | none after the start | read, validate, refuse to start | `Configuration` |
| SDK session (`client-rust/src/harness.rs`) | one per client key | connect, send, compact, close | `Harness` |
| Client-side subagents (`client-rust/src/subagent.rs`, `sandbox.rs`) | what is tracked, the advertised tool, containers | launch, status, cancel, time out, close | `LocalSubagents` |
| Launchers (`launchers/`) | flags, children, buffers | fire, trigger, drop, drain, stop | `Launchers`, `Invocations` |
| `baectl setup` (`baectl/src/setup.rs`) | three files, profiles, keys | choose, write, launch, provision | `Setup`, `Configuration` |
| `baectl build`, `ready`, `run` (`baectl/src/harness/`) | builds, an artifact's manifest and key | build, check, mend, run | `Readiness`, `Builds` |
| bae-max (`max/server/src/bridge.ts`, `observerKeys.ts`) | a bridge per session, observer keys | connect, resolve, join, stream, reconnect | `Bridge` |

How they interact. All store calls go through one SQLite connection behind one
mutex (`Store::with_conn`), so each is atomic, and *between* two calls every
other task can run. The in-memory maps of `AppState` have a mutex each, held for
one access; a handler that touches two maps, or a map and the store, takes
several steps. Every event goes through `insert_and_publish`. A turn holds an
owned guard of its session's `tokio::sync::Mutex`; a pause moves the guard into
`pending_turns`, so the mutex stays locked while no task runs. A close ends the
row first, then logs, then removes the channel, the MCP session and the maps. A
client, a launcher's child, an MCP server, a container and a browser are other
processes: they answer late, twice, or never, and go away at any time.

What is hard here:

- *Concurrency*: drivers, closes, watchers, detached subagents and joins run
  beside each other and meet in the maps, the log and the channel.
- *State read before an await and used after it*: the session record of the
  authentication; the look at `pending_turns` before queueing; the profile that
  `ready` widens; the bridge's cached key and hint.
- *Ownership without a task*: a parked guard belongs to a client that may never
  return; a deadline nobody's timer enforces makes it available to the next
  arrival. A container belongs to whoever has its handle.
- *Failure*: a caller that leaves in the middle of a turn or of a line, a restart
  that keeps the log and forgets every pause, a crash between two statements or
  two files, a report that is lost.
- *Ordering*: commit order against publish order, the seam between replay and
  live delivery, the wake-up of a close against the event of the close.

## 2. The modules

State machines, and pure functions that a state machine would only hide:

| Module | What it is | Checked by |
|---|---|---|
| `TurnGate` | the gate of one session in full detail | `gate`; proved |
| `TurnOwnership` | what the gate promises, with neither mutexes nor queues nor requests | `gate` (refinement); proved |
| `Harness` | extends `TurnGate` by the SDK's `Session` objects, one per client key | `harness`, `harness_late`; proved |
| `EventFeed` | the log, the channel and the watchers of one session | `feed`; proved |
| `Transcript` | the turns of one session and what they send to a provider | `turn`; proved |
| `Conversation` | what the log means to a provider | `turn` (refinement); proved |
| `SessionRuntime` | what a session keeps running: sandbox, subagents, MCP | `life`; proved |
| `McpConnection` | one connection to an MCP server, byte by piece | `mcp`; proved |
| `AccessKeys` | profiles, keys, sessions, the admin key | `keys`; proved |
| `LocalSubagents` | subagents and containers of a client | `local`; proved |
| `Launchers` | fires, requests, children, output, shutdown | `launch`; proved |
| `Setup` | the files, profiles and keys of `baectl setup` | `deploy`; proved |
| `Readiness` | extends `Setup` by `build`, `ready` and `run` | `deploy`; proved |
| `Bridge` | the dashboard's bridge from a session to browsers | `bridge`; proved |
| `Configuration` | what the server, setup and `ready` make of the files' contents | assumptions of `deploy` |
| `Builds` | identities and files of builds, environments of runs | assumptions of `deploy`; identities and environments proved |
| `Invocations` | agents, requests, arguments and environments of a launcher's child | assumptions of `launch` |
| `Listing` | the paged lists, and the loop that reads them whole | assumptions of `keys`; proved but for the filters |

`MC*` instantiate them. `*_proofs` hold the proofs: those about `Harness` are the
last section of `TurnGate_proofs`, on whose invariants they rest; `Setup_proofs`
also holds those about `Readiness`, `Launchers` (`LaunchSpec`) and `Builds`,
`SessionRuntime_proofs` those about `AccessKeys` (`KeysSpec`) and `Listing`, `EventFeed_proofs`
those about `McpConnection` (`McpSpec`). `Induction` holds what the proofs by
induction share: a set of numbers has a least, what holds of 0 and is handed on
holds up to N, and a recursive definition over `0 .. N` defines a function.
Definitions marked "wrong on purpose" are not reachable from a
specification: each is the form that a plausible slip would give the definition
after it, and the properties are tested against them.

Modules of functions have no steps: the code they stand for reads a file or a
request and computes. Their properties are stated over sets of inputs, and the
`MC` modules assume them over all small inputs; TLC evaluates every assumption
before a run starts. A run of their own would have one state per input. Those of
`Listing` and `Builds` that section 4 names are theorems as well, for all inputs.

### TurnGate

A request is one RPC call from authentication to its terminal frame. `pc`
follows it: `accepted` (authenticated, registered, session was open),
`enqueuing` (looked at `pending_turns` and found nothing for it), `queued`
(inside `lock_owned()`), `polling` (a compaction before its wait), `entered`
(holds a guard), `admitted` (re-read the session as open), `turn` (its message
is recorded), `paused` (the tool_use message is recorded, not yet parked),
`done`. Mutexes are numbered in the order of their creation, because a close
removes the map entry while requests hold or await the mutex and a later request
creates another; `gate[r]` is the one `r` is about. `ticket` is the order of the
`lock_owned()` calls, which tokio's FIFO mutex grants in.

| Code | Model |
|---|---|
| `session.registerDriver`, stale state check then map insert | `RegisterDriver`, `InsertDriver` |
| authentication, driver check, state check | `Accept` |
| `claim_pending_turn` | `MayResume`, `MayRetire`, `MustQueue`, `TakeOver` in `ClaimPause`, `PollPause` |
| `turn_gate(..).lock_owned().await` | `Enqueue`, `Grant` |
| `drive_compact`, poll of 100 ms | `StartCompact`, `PollPause` |
| re-read of the session under the guard | `ReadSession` |
| merge or cancel, then record the message | `RecordMessage` |
| `run_turn`, by its outcomes | `RunTurn` |
| parking of the guard | `Park` |
| `compact_under_gate` | `Compact` |
| `DELETE /sessions/{id}`, or a revocation of the last key | `StartClose`, `RemoveRuntime` (three maps, three steps) |
| deadline, disconnect, process restart | `Expire`, `Disconnect`, `Restart` |

Of the log the model keeps the newest replayed message, with the request whose
tool_use it is or answers; that is what merging and well-formedness look at.
Message content is reduced to the request whose tool_use ids it answers (a
client may answer any, also ids nobody issued) or to none. A call that is refused
before it changes anything is left out. The deadline is the event of its passing.

### Harness

Each client key has one `Session`, which runs one call at a time: `send` posts a
message, waits for the terminal frame, runs the tools it asks for, posts their
results and goes round. A failure of a tool, a hook or the stream ends the call
and leaves the server's turn where it is (`GiveUp`); a program may drop a call at
any of its waits. Each post is a request of `TurnGate`, of which all actions are
kept (`Serve`); what a call needs of the terminal frame is what `TurnGate` says
became of the request. `vouched` and `brought` are history variables: what a
`send` that returned says its tools have answered, and what was answered.

### EventFeed

An event is its rowid. A writer commits one to `MaxBatch` rows in one
transaction and publishes them one at a time in later steps; any number of tasks
write. The channel is a buffer of `Capacity` per watcher that overwrites its
oldest event and then reports the lag. A watcher's `pc` separates `live` (at
work, where `Notify::notify_waiters` does not reach it) from `parked` (suspended
in `select!`, where it does). The branch order of the biased `select!` is kept.
`raced` is a history variable: it turns true when a step falls between another
writer's commit and its publication. A rowid gap (rows of other sessions) and the
payload are abstracted. The set of replayed ids and its disposal at the first
live event are kept, as is the page size of the replay.

### Transcript and Conversation

One call at a time, since `TurnGate` says who may run. A message is its role, its
tool uses (id, and who executes it) and its results (id, and who produced them:
the client, the server, or a synthetic error). The phases follow
`drive_send_message` and `run_turn`: claim, record (merge, cancel or reject, block
by block), ask (an attempt of the fallback chain), server round, boundary (the
trigger of a compaction), summarise. `Prepare` and `ToOpenAi` are the two wire
formats; `AnthropicAccepts` and `OpenAiAccepts` say what the providers' APIs ask
for, and are the only external part. `lost` is a history variable: a persisted
question the server has forgotten (a dropped call, a restart), until a compaction
hides it. `crossed` is another: whether a call of this exchange exceeded the threshold,
or did so and was forgotten. `Conversation` is the abstract log of three steps: say, lose,
summarise.

### SessionRuntime

`at` and `on` follow each REST or RPC call about the session's sandbox through
its awaits: a start checks, starts a container and inserts its handle; a stop
removes the handle, waits for its lock and stops the container. A subagent has an
entry, a task handle stored in a later step, a process, and a trace of events. A
turn starts MCP connections, executes in the sandbox, and launches, awaits or
cancels subagents. `astray` turns true at the overlaps and faults that the
properties except: two overlapping starts, a start that overlaps the tear-down, a
stop that fails, a caller that leaves, a revocation that returns half way, and a
restart.

### McpConnection

Two pipes of `Pipe` pieces and a line that may be torn: a message is written in
two pieces, so that a dropped caller can leave half of one. The server answers in
any order, late or never, asks and notifies. Over HTTP there is a body that ends
or does not. The client has one call at a time, its mutex, and a timeout per read.

### AccessKeys and Listing

Rows and their statements: create, join, close, the revocation of a client key
(key, its session keys, the sessions nobody else holds), a profile's soft
deletion, and the admin key's bootstrap, file and rotation. A crash may come
between any two statements; `cut` names what it left half written and `raced` the
clients whose call was under way at their own revocation. `Listing` has the pages:
the limit that is clamped, the cursor that is the last rowid, one row more than
asked for as the sign that there are more, the filters, and `list_all`. The query and
the loop are recursive functions, `Fetched` by one row and `ListAll` by one page.

### LocalSubagents

Two places a subagent runs in, the host and the container that its sandbox tool
shares. The launch, the call that polls or cancels, the task that waits for the
process, its timeout, the reports each sends, the update of the advertised status
tool, and `close`, which stops the containers and aborts the tasks. `stale`,
`loose` and `abandoned` name what a lost update, an aborted start and a dropped
call leave.

### Launchers and Invocations

A run is a fire of the schedule launcher's timer or a request to the API
launcher. The flag `running` is taken before the task exists and dropped with
it. A child writes any bytes in any chunks; `Feed`, `Chomp` and `Cap` are the line
splitter with its limit; a process that a child leaves behind may hold the pipe.
A signal begins the shutdown, which waits for the grace period and then kills.
`Invocations` has what is started: which files are refused and with which exit
code, the order of the checks of a request (token, agent, JSON, schema,
templates) and its status, and the arguments and environment made of the
configuration, the body and the launcher's variables.

### Setup, Readiness, Configuration, Builds

`Setup` writes `config`, `env` and the launcher's file one after the other and may
be cut in the middle of each, over nothing, over a complete set of another
generation, or over the files of another launcher; a later run reads what it finds.
A file is the generation it was written of, or torn. Then it launches, makes a
profile and a key. `Readiness` adds harnesses: each lists, reads, widens or makes
profiles, makes a key, saves its manifest and starts, a request per step, while
setup and an operator change profiles and keys in between; `calm` and `overtaken`
say whether they did. `Configuration` has the contents of those files and their
way through the server, the wizard, and a second wizard. `Builds` has the
directory of builds, how an identity is found, what a failed build leaves, when a
build is prepared again, and where each variable of a harness comes from.

### Bridge

One session, two browsers. A viewer connects and resolves: it mints an observer
key, joins if the cached hint does not say it has, reads the history, and shares a
stream that the first viewer starts. Requests to the server are answered in a
later step (`Answer`), and between an `await` and its continuation (`Continue`)
every other handler may run. A stream lags, breaks, ends, and is opened again
from the last event it brought. A join that fails may have been done by the server:
`unheard` counts those whose answer never became a key. An error of the mint or of
the join may be read as a 409, since that is looked for in its text (`ErrorRead`).

## 3. The runs

| Run | Bounds | Shows |
|---|---|---|
| `gate` | 2 clients, 3 requests, 1 close, disconnects, 1 restart | `OneLogicalTurn`, `ToolUseAccounted`, `AnsweredInPlace`, `TerminalIsFinal`, `ImplementsOwnership` |
| `harness` | 2 sessions, 3 posts, 1 tool call per send, 1 failing call, 1 close, disconnects | `ResultsReachTheLog`, `EveryCallEnds` |
| `harness_late` | 2 sessions, 4 posts | a violation: `LateResultsRefused` |
| `feed` | 2 writers, 1 watcher, 3 rows, batches of 2, capacity 2, page 1, 2 subscriptions | `ExactlyOnceInOrder`, `SeamHasNoGap`, `CaughtUp` |
| `turn` | 2 tool ids, messages of 2 blocks, 3 messages, 2 iterations, 2 providers, token counts up to 3, drops, 1 restart | `RequestAccepted`, `AnswersAreOwned`, `CrossingHonoured`, `ImplementsConversation` |
| `life` | 4 of 2 starts, 1 exec, 1 stop, 1 DELETE, 1 revocation, 2 launches; 2 turns, 1 fault, limit 1 | `NothingOrphaned`, `ClosedIsQuiet`, `EndedOnce`, `SlotsBounded` |
| `mcp` | 5 requests, the handshake among them, pipes of 2 pieces, 1 question of the server | `OwnAnswer`, `LostOnlyByATear`, `EveryCallReturns` |
| `keys` | 1 profile, 2 clients, 2 sessions, 2 admin keys, 2 crashes | `RevokedIsOut`, `OpenIsReachable`, `OneKnownAdminKey`; lists of up to 5 rows |
| `local` | 2 subagents, 2 containers, 1 fault | `ReportOrder`, `AdvertisedWhenTracked`, `EveryLaunchEnds`, `CloseStopsEveryBox` |
| `launch` | 2 runs of 1 agent, 4 bytes, a buffer of 1, lines cut to 0 | `OneAtATime`, `OutputComplete`, `FlagComesDown`, `StopsInTime`; agents, requests and environments of 2 variables |
| `deploy` | 1 launcher, 2 generations, 1 harness, 2 tools, 2 profiles, 2 keys | `SavedIsWhole`, `SecondRunChangesNothing`, `HandedKeyWorks`, `WideningKeepsOthers`; small files, builds and environments |
| `bridge` | 2 viewers, 2 events, 2 streams, 1 lag, 1 fault | `FollowsTheLog`, `OneUpstream`, `JoinsOnce`, `ToldOfEnd` |

Each property's comment, in its module, says what it is about and what it
excepts.

Why the bounds are enough.

- `gate`: three requests are the smallest number with a pause, a taker-over and a
  third party that queues, retires or arrives with a new mutex after a close; two
  clients separate the owner from the others. One restart and one close meet
  every step of the others. Requests and clients are interchangeable (symmetry).
- `harness`: each post of a send is a request, so three of them are a send with
  one round of tools and another Session's call. `harness_late` needs four.
- `feed`: three rows exceed the page and the capacity, so that a replay of several
  pages, an overflow and a batch meet the seam; two writers make an inversion; a
  watcher does not interact with another one, so one is enough.
- `turn`: three messages hold a question, its answer and what follows; two ids
  make a message half the server's and half the client's; two iterations let the
  limit bite after one server round; two providers of the two wire formats make a
  fallback from one to the other.
- `life`: any pair of overlapping calls, with a third and a fourth to see what they
  left; a limit of one subagent, with two launched.
- `mcp`: an answer has to come late to a later call and the call after that: the
  handshake takes two, and three calls are left.
- `keys`: two clients so that a revocation leaves somebody, two sessions so that a
  client is in more than one; a crash in a call and one in its repetition.
- `local`: one subagent on each side, since they only share the container and
  the advertised tool.
- `launch`: a second run to overlap with; four bytes make lines that are empty, as
  long as the buffer, longer, with another behind them, and unended. A line is cut to
  nothing (`MaxLineLen` 0), so the run compares how many lines there are and which were
  cut; what is left of each is what the theorem `WholeOutput` adds. A stream of the
  child is like the other.
- `deploy`: two generations of the files make a mixture. A rewrite over a server
  that already has keys is left out of this run (`KeylessRewrites`): the two
  halves have no variable in common, and their product is out of reach. The case
  of two launchers in one directory is covered by the theorem `FilesWhole` only.
- `bridge`: two viewers that share or replace a stream; two events, one before
  and one after the history.

A run may stop once every call is made, so deadlock is not an error; that nothing
is stuck is what the liveness properties say.

Every state machine has a type invariant (`TypeOK`, `HarnessTypeOK`, `KeysTypeOK`,
`McpTypeOK`, `LaunchTypeOK`), which is proved, and can be added to the
configuration of a run, where it holds.

Fairness. Everywhere, the runtime polls every task that can go on: `WF` on the
server's step of each request, on a close's tear-down, on publication and on each
stream, on a client's own steps and timers, on a launcher's tasks. Beyond that:

- a provider call returns (`gate`, `harness`), which the code does not enforce: its
  HTTP client has no timeout (`server/src/api/mod.rs:266`). In `gate` deadlines
  pass; `harness` needs none to;
- a client's tools return (`harness`), and a failing one ends the send;
- an MCP server reads its input and ends the bodies it has begun (`mcp`), for
  neither of which the client has a timeout; it need not answer;
- `baesrv` answers the bridge, and ends the streams of a closed session, and a
  closing socket closes (`bridge`);
- a subagent's timeout expires (`local`); its process need not end.

Nothing makes a client call, answer, resume, close, leave or reconnect; nothing
makes a child or a process end, an event come, or the server crash.

## 4. The proofs

| Theorem | States | Of |
|---|---|---|
| `TypeCorrect` | `Spec => []TypeOK` | `TurnGate` |
| `MutualExclusion` | `Spec => []OneLogicalTurn` | |
| `SessionEndsOnce` | `Spec => TerminalIsFinal` | |
| `ToolUsesAccounted` | `Spec => []ToolUseAccounted` | |
| `Answers` | `Spec => AnsweredInPlace` | |
| `Refinement` | `Spec => ImplementsOwnership` | |
| `SessionTypes` | `HarnessSpec => []HarnessTypeOK` | `Harness` |
| `SendsVouch` | `HarnessSpec => []ResultsReachTheLog` | |
| `FeedTypes` | `Spec => []TypeOK` | `EventFeed` |
| `NoGapAtTheSeam` | `Spec => []SeamHasNoGap` | |
| `ExactlyOnce` | `Spec => []ExactlyOnceInOrder` | |
| `TranscriptTypes` | `Spec => []TypeOK` | `Transcript` |
| `AnswersOwned` | `Spec => []AnswersAreOwned` | |
| `Crossing` | `Spec => CrossingHonoured` | |
| `ConversationRefined` | `Spec => ImplementsConversation` | |
| `RequestsAccepted` | `Spec => []RequestAccepted` | `Transcript` |
| `ReplayIsPaired` | `Spec => []Conversing!SoundIsPaired` | `Conversation`, as `Transcript` implements it |
| `RuntimeTypes` | `Spec => []TypeOK` | `SessionRuntime` |
| `NothingIsOrphaned` | `Spec => []NothingOrphaned` | |
| `QuietAfterClose` | `Spec => []ClosedIsQuiet` | |
| `EndsOnce` | `Spec => []EndedOnce` | |
| `SlotLimit` | `Spec => []SlotsBounded` | |
| `McpTypes` | `McpSpec => []McpTypeOK` | `McpConnection` |
| `OwnAnswers` | `McpSpec => []OwnAnswer` | |
| `TearsAlone` | `McpSpec => []LostOnlyByATear` | |
| `LocalTypes` | `Spec => []TypeOK` | `LocalSubagents` |
| `ReportsInOrder` | `Spec => []ReportOrder` | |
| `OfferMatches` | `Spec => []AdvertisedWhenTracked` | |
| `CloseStops` | `Spec => []CloseStopsEveryBox` | |
| `KeyTypes` | `KeysSpec => []KeysTypeOK` | `AccessKeys` |
| `Revocation` | `KeysSpec => []RevokedIsOut` | |
| `Reachability` | `KeysSpec => []OpenIsReachable` | |
| `AdminKeyKnown` | `KeysSpec => []OneKnownAdminKey` | |
| `LaunchTypes` | `LaunchSpec => []LaunchTypeOK` | `Launchers` |
| `Overlap` | `LaunchSpec => []OneAtATime` | |
| `WholeOutput` | `LaunchSpec => []OutputComplete` | |
| `ReadyTypes` | `Spec => []TypeOK` | `Setup`, `Readiness` |
| `FilesWhole` | `Spec => []SavedIsWhole` | |
| `WideningKeeps` | `Spec => WideningKeepsOthers` | |
| `SecondRun` | `Spec => []SecondRunChangesNothing` | |
| `HandedKey` | `Spec => []HandedKeyWorks` | |
| `BridgeTypes` | `Spec => []TypeOK` | `Bridge` |
| `FollowsLog` | `Spec => []FollowsTheLog` | |
| `OneStream` | `Spec => []OneUpstream` | |
| `JoinedOnce` | `Spec => []JoinsOnce` | |
| `WholeLists` | `NoRowIsMissed`, for all histories of a list's rowids | `Listing` |
| `ListsEnd` | `ReadingEnds`, for all histories of finite lists | |
| `PagesFollow` | `CursorsAreGood`, for all lists and queries | |
| `BuildsApart` | `OtherBuildsStay`, for all directories | `Builds` |
| `BuildsInPlace` | `RebuildsInPlace`, for all directories | |
| `ReadyIsRunnable` | `ReadyMeansRunnable`, for all needs and environments | |
| `HarnessHasAll` | `HarnessSees`, for all needs and environments, a URL and a key | |

They hold for every set of clients, requests, closers, writers, watchers,
sessions, subagents, calls, runs, agents, launchers, harnesses, profiles, viewers and
bytes, every number of restarts, crashes, faults, rows, containers, subscriptions and
generations, every capacity, pipe, limit, page, line and batch size. The assumptions are those of the modules: the
sentinel `None` is none of the values it stands beside, bounds are numbers, the
threshold of a compaction is below the largest count and no usage is above it, sizes
are positive, the usual size of a page is at most the largest, a call of one kind is not one of another kind, the requests of
`Harness` are numbered, the streams of a child are not its exit, and an MCP connection lasts beyond its handshake's two
requests.

*Mutual exclusion.* That two requests cannot hold the same mutex is not enough:
a close removes the mutex from the map, and a later request creates another. The
invariant `IInv` of `TurnGate_proofs` adds
(1) `GatesCreated`, every mutex in use has been created;
(2) `SingleGate`, while the session is open, all mutexes in use are the one in the
map;
(3) `Exclusive`, a mutex has one holder, the parked guard included;
(4) `ClosedFirst`, a close that has got past the session row finds it no longer
open;
(5) `CallsSane`, a request past `idle` carries a message, which names the owner.
A second mutex thus exists only for a session that has ended, and the re-read
under the guard stops its holder before it drives anything. That re-read is the
step the whole argument rests on.

*Refinement.* The logical turn of `TurnOwnership` is the engaged request's, or
else the parked one's. Each action is a step of the abstract specification or a
stutter: taking a pause over is `Continue`, the re-read of a request that took
nothing over is `Begin`, `Park` is `Pause`, every return path is `End`.

*Tool uses and their answers.* `Accounted` names the four fates of a tool_use
message that is newest in an open session: the request that recorded it is about to
park it, it is parked under its client, a request has taken it over which may answer
it (its owner's, or anybody's after the deadline) and has recorded nothing yet, or
the session has ended and nobody drives it. `OneLogicalTurn` is what leaves, in each
of them, no other request that could record a message behind it. `Answers` looks at
the step that records a message from there: what took the pause over either answers
its message, or cancels it.

*The SDK's Sessions.* `SendsVouch` is about the tool loop over the gate, which other
clients use too. `Loops` says that the tool_use messages a send has gone through
(`trail`) are answered in the log up to the one it works on, or whose results it has
posted; and that once the turn of that post runs, or its terminal frame is there, the
merge has been made (`Served`: a turn with results gets nowhere but through the
record that answers). A Session that hears of a final message therefore has them all.
The proof rests on the gate's invariants, since each step of the server is one of
`TurnGate`.

*Answers and their owners.* A question that is newest in the log is held by
somebody, with what the server executed for it: by the turn that is about to
pause, by the pause, or by the call that took it over; if by nobody, it has been
lost or the session has failed (`Waiting`). So a merge finds the results of the
newest message, no others; and a merge that is accepted, which compares sets of ids
and looks for repeated ones, answers each call once, from the side that owns its tool
(`MergeAnswers`).

*What a provider is sent.* While a provider works nobody waits for an answer, so the
history, which `ReplayIsPaired` says is paired, has no open question, and is `Complete`;
so are the rounds of server tools the turn adds (`Prepared`), and one after the other
(`SuitedJoins`). That what is made of a complete conversation is accepted is an induction
over its messages, once for each format. The one merges neighbours of one role: these
neither ask nor answer between them, so the whole asks what the last one asks
(`MergingSuits`). The other makes a record of each result: they answer the calls of the
assistant's record before them, all and no others, before anything else is said
(`ResultsAnswer`, `SpeechFollows`). The exception is the `lost` question of section 5.

*A crossing.* What a call over the threshold leaves behind moves: from the response to
the trigger of the turn, to the pause, to the call that resumes it, and back to a turn
(`Tracked`). At the boundary it is there, and only a back-off ignores it. What a call of a round of
server tools reports is kept by nothing but the turn's usage, which the next call
overwrites: `crossed` then says `forgotten` (section 5).

*Conversation.* The messages it has are those from the lower bound of the newest
compaction on (`History`); a message appended to the log is appended to it
(`ScopeGrows`), and a commit moves the bound to the preamble it appends. `Waiting` gives
what each step of `Conversation` asks: text, a response and a summary come when no
question is open, an answer when one is, and `Lose` is what a dropped call and a
restart do. That the messages of a `Conversation` are paired as long as nothing is lost
(`SoundIsPaired`) then follows from its steps alone.

*What a session keeps running.* The steps of `SessionRuntime` are of two kinds: the
calls move the sandbox, its container and the connections; the turn and the tasks move
the subagents. Only a close's drop of the subagents, and a restart, move both. So the
invariant has two halves. In that of the subagents, `Phases` says how entry, task
and cancellation go together, `Outcome` that the terminal event is logged exactly when
it is no longer owed (`Pending`): whoever removes the running entry comes to owe it.
A launch that has passed the limit has its slot because only the turn launches, and
its other steps between the check and the slot free slots at most (`Slots`). In the
half of the sandbox, a container that runs is in the map or in the hands of the call
that stops it (`Reached`), and a close that is past the sandbox or the connections
has left none, since it found nobody starting (`OneStart`, `Closing`). `astray`
excepts what section 5 lists.

*Answers of an MCP server.* An id is spent with each request before its first piece
is written. So every request and answer on its way, in a pipe, in the server or in
a half-read line, bears the id of one call only, those of calls dropped long ago
included (`OnlySound`), and the client takes what has its own id.

*Torn lines.* The input of the child is one stream: the half-read line, the pipe, and
what the call has yet to write. In it, a piece that does not end its message is
followed by the rest of that message, unless its writer was dropped there
(`Stream`). A line made of two messages thus begins with a torn one, and since a
line ends with the first piece that ends a message, a tear costs one line.

*A client's subagents.* The calls exclude each other; the detached tasks run beside
them. The end of a subagent is owed by nobody before it has ended, then by the task
that recorded the outcome or by the call that cancelled it, and whoever logs it pays
(`Owing`, `Life`); nobody comes to owe an end whose subagent has ended before. A
container that runs belongs to the map, to the stop that took it out, or to a start
that has yet to insert it (`Boxes`); a start under way belongs to a call or to a
running subagent (`Lock`), and `close` has ended these when it takes the map.

*No gap at the seam.* `SeamHasNoGap` speaks of the rows a stream has asked for;
it is preserved by a replayed page because the registration with the channel
came first: everything committed since is published into the buffer or still to
be published. The invariant `SeamInv` adds that what a stream will drop as a
duplicate (`replayed`) its watcher has received, and that a close that is
logged has a row to publish. No assumption on the writers is needed.

*Every event once and in order.* Here the writers matter. `OrderInv` says that
as long as nothing has raced there is a border `p`: the rows up to it are
published, and the rows above belong to one task, which publishes them in order
(`OneTask`). What a watcher has received is a run of successive rows ending at
some `b`, whatever subscriptions it took; its channel holds the run from `f + 1`
to `p` (to an earlier row once the channel is gone); and the rows from `f + 1`
to `b`, received by replay and still in the buffer, are exactly those the stream
will drop (`StreamAt`). A first row that is not dropped is then `b + 1`. The step
that would break the border is the one `raced` records, and the proof uses it at
three places only: a commit, the commit of the close, and a watcher that resumes
after a row that is not published yet.

*Keys.* `KeysInv` adds to the properties what a call in the
middle of its statements has already checked (`CallsKnown`: the client of a join
or a create that has passed its check was active, or is in `raced`) and which
admin keys a start, a rotation or a stopped server may leave (`AdminKnown`). The
actions fall into those of a client's calls, of an administrator's, and of the
start of the server, and each group disturbs one part of it.

*Overlap.* A run between its claim and the fall of its flag has the flag up
(`Flagged`), and no two such runs are of one agent (`Alone`): only `Fire` makes a
run busy, and it finds the flag down.

*The whole output.* The bytes a child has written are what the reader has read and what
is in the pipe, with `d` the border; and what the reader has sent are the lines that end
before `d`, while it holds the rest of the line `d` is in (`Midway`). When that line is
too long already, its start has been sent, cut, and the rest is thrown away until it
ends: the line would have been cut to the same text, since the limit of a line is below
that of the buffer (`CutIs`; a carriage return before the end is beyond the cut too). One
byte keeps this (`ByteIs`), so a chunk does (`ThroughIs`, by induction), and nothing depends
on where chunks begin. At the end of the pipe what is held is the last line
(`MidwayAtLast`), and only when both readers have come there is the exit told.

*Files.* The launcher's file is written last, so where one is, the other two are
(`LauncherLast`); how far a run has got shows in the files (`Progress`); and where
no complete set is being replaced, no launcher's file is there before the other two
are whole and of one generation (`Whole`).

*Jobs.* What a job of `ready` or `run` has read of the server goes stale in one way
only, by a step of somebody else, and `calm` and `overtaken` record those. So the
invariant says what a job knows as long as they do not (`JobInv`): the profile it is
to widen is as it was read (`Current`); the chosen profile is there and allows the
needs, and the key it holds is there and of that profile (`Sure`). One lemma covers
the steps of setup, operators and other jobs (`ElsewhereKeeps`), and one each own
step. A job that found all it needs has chosen its harness's own profile and has
nothing to mend (`Settled`): that profile is the first of the wanted ones, and the
first that will do is taken (`PickTakesFirst`), for which the proof needs that a set
of numbers has a least.

*The bridge.* Each object the map may hold has its phases, which
say what it may have (`Phases`): a handle only while it is live, which is that of
the one stream that is up for it, at its position (`Held`). As long as no object has been
forsaken by its viewers, one that is starting is the map's, and so is the object of a
stream (`Alone`), of which there is thus one. What a viewer keeps until it is live is a
run of events that ends at the stream's position, and begins where the stream did, or not
behind the viewer's history (`Kept`); so history, flush and stream make a rising sequence
without a gap (`Got`), where what the flush does is an induction over what was kept. The
joins are counted with the state of the join and the answers that were lost
(`Counting`): a join that has failed without the server, or was refused, leaves both as
they were.

*Lists.* The rows of a page are the least beyond the cursor, one after the other, so
nothing shown is between the cursor and the last of them but they (`Taken`, kept by one
more row, `OneMoreTakes`). Since a page that is followed by another ends in its cursor, a
row that every page could have shown has been read or is beyond the cursor, and the rows
come in their order (`Halfway`, kept by one more page, `ReadPageIs`). That a row may be
deleted or added between two pages does not matter: a page speaks only of what is beyond
its cursor. Rowids are positive, which is what lets the first page begin beyond 0.

*Builds.* The id a build takes is the first that no other combination has
(`DerivedIs`); so others keep their entries, and in a directory without gaps the first
build of a combination is found again. What a container sees is the union of two files, of
which the second has what the first lacks (`Lacking`) and what `run` itself knows.

*Induction.* The provers have no induction over data: its theorems take a predicate as
a parameter. But a set of numbers that is not empty has a least element, which follows
from the library's facts on well-founded relations; so the set of the numbers up to N for
which something holds is all of them when it has 0 and is closed (`Upwards`). A recursive
function is by definition one that satisfies its equation, if there is one; `Recursion`
shows, with `Upwards`, that there is one over `0 .. N`. Models therefore write the loops
of the code as recursive functions where a theorem speaks of them.

Only model-checked:

- liveness (`EveryCallEnds`, `CaughtUp`, `EveryCallReturns`, `EveryLaunchEnds`,
  `FlagComesDown`, `StopsInTime`, `ToldOfEnd`): the prover treats neither fairness
  nor ENABLED;
- of the modules of functions, the properties of `Configuration` and `Invocations`, the
  filters of `Listing` (`FiltersDivide`), and the files and times of `Builds` (`FilesFit`,
  `PreparedOnce`), which are assumed over all small inputs.

Every invariant and every action property that a run checks is a theorem.

## 5. Where the code disagrees

The run `harness_late` shows one disagreement. A `Session`'s tools take longer
than the turn timeout; another driver's message retires the pause, and pauses in
turn; nobody works on that pause, and its deadline passes. The late results then
find an expired pause, which `claim_pending_turn` gives to whoever comes
(`rpc.rs:900-904`); `cancel_abandoned_tool_uses` refuses any tool result
(`rpc.rs:1079-1091`), and `fail_tool_result_merge` closes the session as failed. The
comment at `rpc.rs:621-626` says of late results: reject the message and keep the
session open.

The exceptions and premises that other properties name are of the same kind:

- *Gate.* A message that already waits when the deadline of a pause passes stays in
  the queue until somebody else calls (`rpc.rs:518`), although
  `docs/guides/07-multi-client-sessions.md:241-245` names the queued message itself
  as what triggers the abandonment. A turn that pauses after the close cleared
  `pending_turns` parks its guard in a closed session (`rpc.rs:815`), and messages
  queued on that mutex are never refused. A caller that disappears between the
  record of the assistant's message and the parking leaves the tool_use
  unanswered (`rpc.rs:788-790`). The results of a dropped `send`, or of a second
  process with the same client key, can reach a newer pause of the same owner. After
  a restart the drivers are forgotten and the SDK never registers again.
- *Turns.* A call that runs the server's tools alone and crosses the threshold is
  forgotten when the next call of its turn reports less, or no usage: each success
  overwrites `last_usage` (`engine/session.rs:384-393`, 429), and the turn ends
  without a compaction. The design (`aspec/work-items/0016-session-compaction.md:175`)
  has the check use the last call's usage, as the code does, and concludes that a
  turn which crosses the threshold in its loop compacts at its end, which does not
  follow. `CrossingHonoured` excepts just these rounds.
- *Feed.* Two writers may publish in the opposite order of their commits; a watcher
  that got only the later row and resumes after it misses the earlier
  (`engine/broadcast.rs:131-133`, against
  `docs/guides/06-event-streaming.md:183-193`). The removal of the channel wakes a
  suspended watcher, whose `select!` prefers that to the `session.close` event in
  its buffer (`rpc.rs:2222-2223`, against `sessions.rs:1052-1054`).
- *Runtime.* Two overlapping starts, or a start that ends after the tear-down,
  leave a container nobody has a handle of. `exec` and `stop` share the handle's
  mutex without a timeout. A revocation that fails to log one `session.close`
  leaves the other sessions' sandboxes running. A `DELETE` revokes no session key
  (`sessions.rs:1037-1064`), so the keys go on authenticating for what does not ask for
  an open session, although `docs/guides/07-multi-client-sessions.md:260-261` says that
  they stop.
- *Keys.* A crash in the middle of a create leaves an open session nobody has a key
  of; one in the middle of a revocation leaves session keys alive that a second
  revocation does not find; one between a rotation's two statements lets the
  provisioned hash come back. Create's comment speaks of a transaction, but its
  statements are only under one lock. A join against a deleted profile leaves an
  extra failed session. A join whose client is revoked after its check mints a key
  all the same (`sessions.rs:531`).
- *Lists.* A limit beyond the largest page is clamped (`server/src/api/pagination.rs:41`), where
  the comment says it is refused (lines 25-27 there).
- *MCP.* The timeout is per read, and there is none on writes or on an HTTP body,
  although `engine/mcp.rs:63` calls it an upper bound on a round-trip. A request of
  the server that has a call's id is taken for the answer. Over HTTP the id of an answer
  is compared with the request's only in an event stream, not in a JSON body
  (`mcp.rs:535-540`). A dropped write garbles
  the next request. An expired HTTP session is never opened again.
- *Client-side subagents.* `close` aborts a start in the middle, whose container
  nobody stops (`subagent.rs:773`, against `docs/guides/03-sandboxes.md:477-478`), and
  so does a timeout or a dropped call. A failed update of the advertised status tool
  is not repeated. A launch dropped between its insertion and its gate keeps its
  slot. Killing `docker exec` does not end the process in the container.
- *Launchers.* A process the child leaves behind with its pipes keeps the flag up
  (`launchers/core/src/lib.rs:417-420`). A file that cannot be read ends the API
  launcher with 1 and the schedule launcher with 2.
- *Setup.* An Edit that is cut between two files leaves two generations that count
  as a saved setup. A `--yes` run that fails at its launch and is repeated ends
  without a profile or a key. Edit, with Enter throughout, keeps the first provider
  only and no MCP server. A port told in `BAE_ADDR` is published, but `ready` and
  `run` look for `BAE_ADDR_PORT` and else 8080 (`harness/checks.rs:105-115`,
  `setup.rs:1404-1411`). A port that begins with 3000 makes a standard setup read
  back as one with the dashboard. A key in a variable named `BAE_...` is read back as
  a setting of the server and lost by an Edit. The properties of `Configuration`
  have these as premises.
- *Build, ready and run.* A failed first build leaves an entry without a manifest, so
  the next build of the same gets another identity. `--id` overwrites a build of
  another combination. A failing `npm` that made its directory counts as a
  preparation. A failing refresh falls back to the profile read before it.
- *Bridge.* A start that its last viewer leaves opens a stream for nobody, whose end
  deletes whatever entry the map has then. A viewer that shares a stream started
  from a later history than its own misses what is between. Events between the
  history and the close are not sent on the path that finds the session closed. A
  session that closes between the join and the subscription gives a stream that
  never ends, as does a stale hint (`bridge.ts:404`). A key that was revoked stays in
  the cache. A join that the server did and whose answer is lost or unreadable
  (`clientPortClient.ts:66-87`) is forgotten (`bridge.ts:407-410`): the next viewer joins
  again, and the log has a second `session.join`. The error texts quote ids, so that an id
  with `409` in it makes any failure of its join read as the end of the session
  (`bridge.ts:430-433`), which is then shown without its live events.

## 6. What is not modelled

- *Store errors* that end a handler at its next store call: what they leave behind is
  what a dropped call leaves at the same place. Those that something depends on (the
  log of a revocation, a lost report) are faults of their models.
- *HTTP, framing, streaming and telemetry*, the wording of events, and the event
  stream inside a `session.sendMessage` response, whose only effect on the gate,
  ending the call, is `Disconnect`.
- *The TypeScript and Python SDKs*: translations of the Rust one, which is what the
  models follow.
- *Retries of one request*: a request of `TurnGate` is made at most once, by any
  client at any time, which includes what the SDKs do but not the duplicate record
  that a retry after a timed-out queued message leaves.
- *Image provisioning*, whose status is informative; *migrations*, which run before
  the server listens; *file tools*, which are pure access to a directory; the *web
  applications*, which show what their servers serve; *administrative commands* that
  are one request each; *log-in* and proxied requests of the dashboard.
- *Several sessions at once*, except in `AccessKeys`: sessions share no state but the
  maps that are keyed by them.
- *Restarts* of the bridge's own server and of a harness.
- *Tests, packaging, examples.*

## 7. Plan

Done: the server's gate, feed, turns, runtime, keys and MCP; the SDK's session and
subagents; launchers, deployment and bridge; the functions beside them.

Next, by what they would add:

1. Theorems about the functions of `Invocations` and `Configuration`, whose folds would
   have to be recursive functions for it.
2. The SDK's second process with one client key, and the bridge's restart.
