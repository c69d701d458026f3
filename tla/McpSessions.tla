----------------------------- MODULE McpSessions ----------------------------
(***************************************************************************)
(* Sessions of the two MCP transports: mcp_sse.go, mcp_streamable.go.      *)
(*                                                                         *)
(* A GET registers a session under its id and writes what arrives in the   *)
(* session's channel until the client leaves; then it takes the id out of  *)
(* the map and closes done.  Over SSE the id is new with every GET, and a  *)
(* POST puts its answer into the channel of the session it looked up,      *)
(* waiting while the channel is full.  The streamable transport takes the  *)
(* id from the client, so two GETs may use one, and a DELETE closes the    *)
(* channel of the session it finds; nothing sends to it yet.               *)
(***************************************************************************)
EXTENDS Integers

CONSTANTS
  SseStreams,      \* GETs of the SSE transport, each an id of its own
  HttpStreams,     \* GETs of the streamable transport, all of one id
  HttpId,          \* that id
  Posts,           \* POSTs to SSE sessions
  NoStream,        \* "no session"
  SessionCap       \* capacity of a session's channel (64)

ASSUME McpSessionsAssumption == SessionCap \in Nat \ {0}

Streams == SseStreams \cup HttpStreams
SessionIds == SseStreams \cup {HttpId}
IdOf(s) == IF s \in SseStreams THEN s ELSE HttpId

VARIABLES
  sessions,   \* t.sessions: [SessionIds -> Streams or NoStream]
  stream,     \* [Streams -> [pc, ch, closes]]: ch counts messages, closes counts close(ch)
  post        \* [Posts -> [pc, to]]

sessionVars == <<sessions, stream, post>>

SessionsInit ==
  /\ sessions = [i \in SessionIds |-> NoStream]
  /\ stream = [s \in Streams |-> [pc |-> "new", ch |-> 0, closes |-> 0]]
  /\ post = [p \in Posts |-> [pc |-> "new", to |-> NoStream]]

-----------------------------------------------------------------------------
(* HandleSSE and handleGet. *)

OpenStream(s) ==
  /\ stream[s].pc = "new"
  /\ stream' = [stream EXCEPT ![s].pc = "serving"]
  /\ sessions' = [sessions EXCEPT ![IdOf(s)] = s]
  /\ UNCHANGED post

\* A message is written; from a closed channel those that were in it come first.
ServeMessage(s) ==
  /\ stream[s].pc = "serving" /\ stream[s].ch > 0
  /\ stream' = [stream EXCEPT ![s].ch = @ - 1]
  /\ UNCHANGED <<sessions, post>>

\* The client has gone, or the channel is closed and empty.
LeaveStream(s) ==
  /\ stream[s].pc = "serving"
  /\ stream' = [stream EXCEPT ![s].pc = "leaving"]
  /\ UNCHANGED <<sessions, post>>

\* The deferred function: delete takes out whatever the id stands for by now ...
Unregister(s) ==
  /\ stream[s].pc = "leaving"
  /\ sessions' = [sessions EXCEPT ![IdOf(s)] = NoStream]
  /\ stream' = [stream EXCEPT ![s].pc = "closing"]
  /\ UNCHANGED post

\* ... then close(done).
CloseDone(s) ==
  /\ stream[s].pc = "closing"
  /\ stream' = [stream EXCEPT ![s].pc = "done"]
  /\ UNCHANGED <<sessions, post>>

-----------------------------------------------------------------------------
\* HandleMessage: the session is looked up, and the request handled after that ...
PostLookup(p, s) ==
  /\ post[p].pc = "new" /\ sessions[s] # NoStream
  /\ post' = [post EXCEPT ![p] = [pc |-> "answer", to |-> sessions[s]]]
  /\ UNCHANGED <<sessions, stream>>

\* ... until the answer is accepted ...
PostSend(p) ==
  /\ post[p].pc = "answer" /\ stream[post[p].to].ch < SessionCap
  /\ stream' = [stream EXCEPT ![post[p].to].ch = @ + 1]
  /\ post' = [post EXCEPT ![p].pc = "accepted"]
  /\ UNCHANGED sessions

\* Mutant: select without the case of done.
PostGoneNever(p) ==
  /\ post[p].pc = "gone"
  /\ UNCHANGED sessionVars

\* ... or the session is gone.
PostGone(p) ==
  /\ post[p].pc = "answer" /\ stream[post[p].to].pc = "done"
  /\ post' = [post EXCEPT ![p].pc = "gone"]
  /\ UNCHANGED <<sessions, stream>>

\* handleDelete.
DeleteSession ==
  /\ sessions[HttpId] # NoStream
  /\ stream' = [stream EXCEPT ![sessions[HttpId]].closes = @ + 1]
  /\ sessions' = [sessions EXCEPT ![HttpId] = NoStream]
  /\ UNCHANGED post

StreamNext(s) == ServeMessage(s) \/ Unregister(s) \/ CloseDone(s)

SessionsNext ==
  \/ \E s \in Streams : OpenStream(s) \/ LeaveStream(s) \/ StreamNext(s)
  \/ \E p \in Posts : PostSend(p) \/ PostGone(p) \/ \E s \in SseStreams : PostLookup(p, s)
  \/ DeleteSession

\* Goroutines are scheduled; a client that neither reads nor leaves is ended by the server's
\* timeouts, and the loop of its GET goes on.
SessionsFairness ==
  /\ \A s \in Streams : WF_sessionVars(StreamNext(s))
  /\ \A p \in Posts : WF_sessionVars(PostSend(p) \/ PostGone(p))

SessionsSpec == SessionsInit /\ [][SessionsNext]_sessionVars /\ SessionsFairness

-----------------------------------------------------------------------------
\* No channel is closed twice, which would end the server (handleDelete): whatever GETs share
\* the id, and whatever their deferred functions take out of the map.
ClosedOnce == \A s \in Streams : stream[s].closes <= 1

\* Every POST that found its session is answered (HandleMessage): one that waits for room in
\* the channel of a client that leaves is let go by done, though the channel stays full; and
\* no channel is closed twice on the way.
SessionsSound ==
  /\ []ClosedOnce
  /\ (\E p \in Posts : post[p].pc = "answer") ~> (\A p \in Posts : post[p].pc # "answer")
=============================================================================
