---------------------------- MODULE McpConnection ----------------------------
(***************************************************************************)
(* The connection of a session to one MCP server: the handshake when the   *)
(* session is created, the tool calls of its turns, the end at its close.  *)
(*                                                                         *)
(* Over stdio the messages are lines in two pipes to a child process.  A   *)
(* line is written and read in pieces (two of them here), and whoever      *)
(* writes or reads may be dropped between two pieces: a caller that goes   *)
(* away takes its turn with it, wherever the turn waits.  Over HTTP every  *)
(* message is a POST of its own.                                           *)
(*                                                                         *)
(* A message carries its id, 0 if it is a notification, and which request  *)
(* it is about: the server knows nothing but the id.                       *)
(***************************************************************************)
EXTENDS Integers, SequencesExt

CONSTANTS
  MaxCalls, \* bound on the requests of a connection
  Pipe,     \* the pieces a pipe holds
  MaxAsks   \* bound on the requests of the server to its client

ASSUME McpAssumption == {MaxCalls, Pipe, MaxAsks} \subseteq Nat /\ MaxCalls > 2 /\ Pipe > 0

VARIABLES
  transport,
  link,      \* the handshake's next message; or the connection is up, or ending
  nextId,    \* next_id
  made,      \* the requests made so far
  call,      \* what is under way under the mutex of McpSession
  given,     \* each request: what its caller got
  sid,       \* mcp_session_id, named by the request that brought it
  child,     \* the server process runs
  toServer, toClient,  \* the pipes
  line,      \* the line the server reads
  saying,    \* what the server is writing
  heard,     \* requests the server has read and not answered
  asks,
  torn       \* history: requests dropped with only a part of their line written

server  == <<line, saying, heard, asks>>
pipes   == <<toServer, toClient>>
client  == <<link, nextId, made, call, given, sid, torn>>
mcpVars == <<transport, client, child, pipes, server>>

Ids   == 1 .. MaxCalls
Calls == 1 .. MaxCalls

Message(kind, id, of) == [kind |-> kind, id |-> id, of |-> of]

\* What is said: a request and its answer, good or bad; a notification; and a
\* request of the server, which has an id of its own choice.
Messages == [kind : {"request", "answer"}, id : Ids, of : Calls] \cup [kind : {"ask"}, id : Ids, of : {0}]
              \cup {Message("note", 0, 0)}

Pieces  == [of : Messages, last : BOOLEAN]
Line(m) == <<[of |-> m, last |-> FALSE], [of |-> m, last |-> TRUE]>>

\* The pieces are those of one line: anything else is no JSON.
Whole(l) == l = Line(l[1].of)

Handshake == {"initialize", "initialized", "list"}
Error     == Message("error", 0, 0)
Nothing   == Message("none", 0, 0)
Idle      == [pc |-> "idle", id |-> 0, of |-> 0, left |-> <<>>, got |-> <<>>]

McpTypeOK ==
  /\ transport \in {"stdio", "http"}
  /\ link \in Handshake \cup {"up", "closing", "gone"}
  /\ {nextId, made + 1} \subseteq 1 .. MaxCalls + 1 /\ sid \in 0 .. MaxCalls
  /\ call \in [pc : {"idle", "write", "read", "posted", "body"}, id : 0 .. MaxCalls,
               of : 0 .. MaxCalls, left : Seq(Pieces), got : Seq(Pieces)]
  /\ given \in [Calls -> Messages \cup {Error, Nothing}]
  /\ child \in BOOLEAN /\ toServer \in Seq(Pieces) /\ toClient \in Seq(Pieces)
  /\ Len(toServer) <= Pipe /\ Len(toClient) <= Pipe
  /\ line \in Seq(Pieces) /\ saying \in Messages \cup {Nothing}
  /\ heard \subseteq Messages /\ asks \in 0 .. MaxAsks /\ torn \subseteq Calls

McpInit ==
  /\ transport \in {"stdio", "http"} /\ child = (transport = "stdio")
  /\ link = "initialize" /\ nextId = 1 /\ made = 0 /\ call = Idle /\ sid = 0
  /\ given = [n \in Calls |-> Nothing]
  /\ toServer = <<>> /\ toClient = <<>>
  /\ line = <<>> /\ saying = Nothing /\ heard = {} /\ asks = 0 /\ torn = {}

-----------------------------------------------------------------------------
(* The connection.                                                         *)

Connecting == link \in Handshake

\* Wrong on purpose: every request has the same id.
SameId(i) == i

\* The id is spent before the line is written.
NextId(i) == i + 1

Start(i, n, m) ==
  call' = [Idle EXCEPT !.id = i, !.of = n, !.pc = IF transport = "stdio" THEN "write" ELSE "posted",
                       !.left = IF transport = "stdio" THEN Line(m) ELSE <<>>]

\* Wrong on purpose: the mutex is not waited for.
FreeAnyway == TRUE

\* The mutex of McpSession, which a call holds until it returns.
Free == call = Idle

\* connect sends two requests and a notification, call_tool one request.
Begin ==
  /\ Free /\ (Connecting \/ link = "up")
  /\ IF link = "initialized" THEN Start(0, 0, Message("note", 0, 0)) /\ UNCHANGED <<nextId, made>>
     ELSE /\ made < MaxCalls /\ made' = made + 1 /\ nextId' = NextId(nextId)
          /\ Start(nextId, made', Message("request", nextId, made'))
  /\ UNCHANGED <<transport, link, given, sid, torn, child, pipes, server>>

\* The connection is dropped, and the child is killed with it.
Gone == link' = "gone" /\ child' = FALSE

After(stage) == CASE stage = "initialize" -> "initialized" [] stage = "initialized" -> "list" [] stage = "list" -> "up"

\* What is under way ends with m.  connect gives up at the first failure, which
\* an answer may be, too; a call that fails leaves the connection as it is.
Return(m) ==
  /\ call' = Idle
  /\ given' = IF call.of = 0 THEN given ELSE [given EXCEPT ![call.of] = m]
  /\ \/ ~Connecting /\ UNCHANGED <<link, child>>
     \/ Connecting /\ m # Error /\ link' = After(link) /\ UNCHANGED child
     \/ Connecting /\ m.kind \in {"error", "answer"} /\ Gone

\* The caller goes away: the turn is dropped with the call it waits for, the
\* creation of the session with its connection.
Drop ==
  /\ call # Idle
  /\ call' = Idle
  /\ torn' = IF call.of > 0 /\ Len(call.left) = 1 THEN torn \cup {call.of} ELSE torn
  /\ IF Connecting THEN Gone ELSE UNCHANGED <<link, child>>
  /\ UNCHANGED <<transport, nextId, made, given, sid, pipes, server>>

\* The close of the session takes the connection from the map, and gets its
\* mutex next, after the call that has it.
TakeSession ==
  /\ link = "up" /\ link' = "closing"
  /\ UNCHANGED <<transport, nextId, made, call, given, sid, torn, child, pipes, server>>

Shutdown ==
  /\ link = "closing" /\ call = Idle /\ Gone
  /\ UNCHANGED <<transport, nextId, made, call, given, sid, torn, pipes, server>>

-----------------------------------------------------------------------------
(* A request over stdio.                                                   *)

\* write_message; a server that does not read lets the writer wait.
Write ==
  /\ call.pc = "write" /\ child /\ Len(toServer) < Pipe
  /\ toServer' = Append(toServer, Head(call.left))
  /\ IF Len(call.left) = 1 /\ call.id = 0 THEN Return(Nothing)
     ELSE /\ call' = [call EXCEPT !.left = Tail(@), !.pc = IF Len(call.left) = 1 THEN "read" ELSE @]
          /\ UNCHANGED <<link, given, child>>
  /\ UNCHANGED <<transport, nextId, made, sid, torn, toClient, server>>

\* The message's id is looked at, not what kind of message it is.
Matches(m, i) == m.id = i

\* request: what is not JSON, or has another id or none, is skipped.
Read ==
  /\ call.pc = "read" /\ toClient # <<>> /\ toClient' = Tail(toClient)
  /\ LET got == Append(call.got, Head(toClient))
     IN  IF Head(toClient).last /\ Whole(got) /\ Matches(got[1].of, call.id) THEN Return(got[1].of)
         ELSE /\ call' = [call EXCEPT !.got = IF Head(toClient).last THEN <<>> ELSE got]
              /\ UNCHANGED <<link, given, child>>
  /\ UNCHANGED <<transport, nextId, made, sid, torn, toServer, server>>

\* The server has died: the write fails, or the read comes to the end.
Broken ==
  /\ ~child
  /\ call.pc = "write" \/ (call.pc = "read" /\ toClient = <<>>)
  /\ Return(Error)
  /\ UNCHANGED <<transport, nextId, made, sid, torn, pipes, server>>

\* Wrong on purpose: a line that has begun is waited for.
TimeoutBetweenLines == call.got = <<>>

\* The timeout of one read; what has been read of a line is lost.
TimesOut == TRUE

\* REQUEST_TIMEOUT: 30 seconds in which nothing came; or the POST fails.
Timeout ==
  /\ \/ call.pc = "read" /\ child /\ toClient = <<>> /\ TimesOut
     \/ call.pc = "posted"
  /\ Return(Error)
  /\ UNCHANGED <<transport, nextId, made, sid, torn, pipes, server>>

-----------------------------------------------------------------------------
(* A request over HTTP.                                                    *)

\* The status and the headers; the first response with an mcp-session-id gives
\* it to all later requests.  Of a notification only the status is looked at.
HttpHeaders ==
  /\ call.pc = "posted"
  /\ \/ call.id = 0 /\ Return(Nothing) /\ UNCHANGED sid
     \/ /\ call.id > 0 /\ call' = [call EXCEPT !.pc = "body"] /\ UNCHANGED <<link, given, child>>
        /\ sid' \in {sid, IF sid = 0 THEN call.id ELSE sid}
  /\ UNCHANGED <<transport, nextId, made, torn, pipes, server>>

\* The body, for which there is no timeout: nothing that fits, the answer, or
\* before it, in a stream of events, a request of the server of the same id.
HttpBody ==
  /\ call.pc = "body"
  /\ \/ \E m \in {Error, Message("answer", call.id, call.of)} : Return(m) /\ UNCHANGED asks
     \/ asks < MaxAsks /\ asks' = asks + 1 /\ Return(Message("ask", call.id, 0))
  /\ UNCHANGED <<transport, nextId, made, sid, torn, pipes, line, saying, heard>>

-----------------------------------------------------------------------------
(* The server process.                                                     *)

\* It reads its lines, and skips what is no JSON.
Hear ==
  /\ child /\ toServer # <<>> /\ toServer' = Tail(toServer)
  /\ line' = IF line # <<>> /\ Last(line).last THEN <<Head(toServer)>> ELSE Append(line, Head(toServer))
  /\ heard' = IF Whole(line') /\ line'[1].of.kind = "request" THEN heard \cup {line'[1].of} ELSE heard
  /\ UNCHANGED <<transport, client, child, toClient, saying, asks>>

Say(m) ==
  /\ child /\ saying = Nothing /\ Len(toClient) < Pipe
  /\ saying' = m /\ toClient' = Append(toClient, Line(m)[1])
  /\ UNCHANGED <<transport, client, child, toServer, line>>

\* It answers in any order, or never.
Answer ==
  \E m \in heard : Say([m EXCEPT !.kind = "answer"]) /\ heard' = heard \ {m} /\ UNCHANGED asks

\* It asks its client something; its ids are its own.
Ask == asks < MaxAsks /\ asks' = asks + 1 /\ UNCHANGED heard /\ \E i \in Ids : Say(Message("ask", i, 0))

Note == Say(Message("note", 0, 0)) /\ UNCHANGED <<heard, asks>>

SayRest ==
  /\ child /\ saying # Nothing /\ Len(toClient) < Pipe
  /\ toClient' = Append(toClient, Line(saying)[2]) /\ saying' = Nothing
  /\ UNCHANGED <<transport, client, child, toServer, line, heard, asks>>

Die == child /\ child' = FALSE /\ UNCHANGED <<transport, client, pipes, server>>

-----------------------------------------------------------------------------
McpNext ==
  \/ Begin \/ Drop \/ TakeSession \/ Shutdown
  \/ Write \/ Read \/ Broken \/ Timeout \/ HttpHeaders \/ HttpBody
  \/ Hear \/ Answer \/ Ask \/ Note \/ SayRest \/ Die

\* The client's steps and its timeout; and the server reads its input and ends
\* the bodies it has begun, for neither of which the client has a timeout.
McpFairness ==
  /\ WF_mcpVars(Write) /\ WF_mcpVars(Read) /\ WF_mcpVars(Broken) /\ WF_mcpVars(Timeout) /\ WF_mcpVars(Shutdown)
  /\ WF_mcpVars(Hear) /\ WF_mcpVars(HttpBody)

McpSpec == McpInit /\ [][McpNext]_mcpVars /\ McpFairness

-----------------------------------------------------------------------------
(***************************************************************************)
(* What the connection promises.                                           *)
(***************************************************************************)

\* A call gets the answer to its own request, whatever calls before it timed
\* out, were dropped, or lost a part of a line, and are answered now; only a
\* request of the server that happens to have the call's id is taken for one.
OwnAnswer ==
  \A n \in Calls : given[n].kind # "ask" /\ given[n] \notin {Error, Nothing} => given[n].of = n

\* A request is lost in the line of another only if that one was dropped in the
\* middle of its write; so what is dropped costs the next whole line, and no more.
LostOnlyByATear ==
  \A j, k \in DOMAIN line : j < k /\ line[j].of # line[k].of => line[j].of.of \in torn

\* A call that is under way returns, and the close that waits for it goes on,
\* unless the server goes on sending notifications: each read has a timeout,
\* but not the call.
EveryCallReturns ==
  \/ []<><<Note>>_mcpVars
  \/ []<>(call = Idle) /\ []<>(link # "closing")
=============================================================================
