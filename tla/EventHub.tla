------------------------------ MODULE EventHub ------------------------------
(***************************************************************************)
(* The server-sent events hub: sse.go.                                     *)
(*                                                                         *)
(* A connection registers with the hub under its address, receives the     *)
(* events of later writes through a bounded channel, and is removed, its   *)
(* channel closed, when its request ends.  Every writer broadcasts from    *)
(* its own goroutine (document_ops.go, batch_handler.go): it holds the     *)
(* hub's read lock and visits the clients in any order, one send at a      *)
(* time.  Permissions are looked up at every send (CheckPermission).       *)
(*                                                                         *)
(* An event is broadcast once and stands for one write of a collection.    *)
(***************************************************************************)
EXTENDS Integers, Sequences, FiniteSets

CONSTANTS
  Conns,       \* connections, each opened once
  IpOf,        \* [Conns -> address], NoIp where clientIP finds none
  NoIp,
  FilterOf,    \* [Conns -> collection], AllColls without a filter
  AllColls,
  UserOf,      \* [Conns -> user]
  SseEvents,   \* events
  CollOf,      \* [SseEvents -> collection of the event]
  MaxConns, MaxPerIP,   \* maxClients, maxPerIP
  SseCap       \* capacity of a client's channel (64)

ASSUME SseAssumption == MaxConns \in Nat \ {0} /\ MaxPerIP \in Nat \ {0} /\ SseCap \in Nat \ {0}

VARIABLES
  conn,      \* handleSSE: "new", "open", "closed" (removed), "refused"
  ipCount,   \* h.ipCount, 0 for an address without an entry
  chn,       \* the channel of a client
  got,       \* events written to a client
  skipped,   \* events a client missed because its channel was full
  mayRead,   \* users with PermRead
  bcast,     \* [SseEvents -> [pc, todo, all]]: "new", "run", "done"; clients left, all clients
  denied     \* events broadcast after a user lost PermRead

hubVars == <<conn, ipCount, chn, got, skipped, mayRead, bcast, denied>>

Users == {UserOf[c] : c \in Conns}
Ips == {IpOf[c] : c \in Conns} \ {NoIp}
Registered == {c \in Conns : conn[c] = "open"}
ReadLocked == \E e \in SseEvents : bcast[e].pc = "run"
Queued(c) == {chn[c][i] : i \in DOMAIN chn[c]}

HubInit ==
  /\ conn = [c \in Conns |-> "new"]
  /\ ipCount = [i \in Ips |-> 0]
  /\ chn = [c \in Conns |-> <<>>]
  /\ got = [c \in Conns |-> {}]
  /\ skipped = [c \in Conns |-> {}]
  /\ mayRead = Users
  /\ bcast = [e \in SseEvents |-> [pc |-> "new", todo |-> {}, all |-> {}]]
  /\ denied = [u \in Users |-> {}]

-----------------------------------------------------------------------------
\* addClient, under the write lock: both limits, then the registration.
AddClient(c) ==
  /\ conn[c] = "new" /\ ~ReadLocked
  /\ IF \/ Cardinality(Registered) >= MaxConns
        \/ IpOf[c] # NoIp /\ ipCount[IpOf[c]] >= MaxPerIP
     THEN conn' = [conn EXCEPT ![c] = "refused"] /\ UNCHANGED ipCount
     ELSE /\ conn' = [conn EXCEPT ![c] = "open"]
          /\ ipCount' = [i \in Ips |-> IF i = IpOf[c] THEN ipCount[i] + 1 ELSE ipCount[i]]
  /\ UNCHANGED <<chn, got, skipped, mayRead, bcast, denied>>

\* handleSSE with a collection the user may not read: refused before addClient.
Forbid(c) ==
  /\ conn[c] = "new" /\ UserOf[c] \notin mayRead /\ FilterOf[c] # AllColls
  /\ conn' = [conn EXCEPT ![c] = "refused"]
  /\ UNCHANGED <<ipCount, chn, got, skipped, mayRead, bcast, denied>>

\* removeClient when the request ends: the client leaves the map and its channel is closed.
RemoveClient(c) ==
  /\ conn[c] = "open" /\ ~ReadLocked
  /\ conn' = [conn EXCEPT ![c] = "closed"]
  /\ ipCount' = [i \in Ips |-> IF i = IpOf[c] THEN ipCount[i] - 1 ELSE ipCount[i]]
  /\ UNCHANGED <<chn, got, skipped, mayRead, bcast, denied>>

\* The loop of handleSSE writes the next message.
Write(c) ==
  /\ conn[c] = "open" /\ chn[c] # <<>>
  /\ got' = [got EXCEPT ![c] = @ \cup {Head(chn[c])}]
  /\ chn' = [chn EXCEPT ![c] = Tail(@)]
  /\ UNCHANGED <<conn, ipCount, skipped, mayRead, bcast, denied>>

\* SetPermission takes PermRead from the user; AuthManager has a lock of its own.
RevokeRead(u) ==
  /\ u \in mayRead
  /\ mayRead' = mayRead \ {u}
  /\ denied' = [denied EXCEPT ![u] = {e \in SseEvents : bcast[e].pc = "new"}]
  /\ UNCHANGED <<conn, ipCount, chn, got, skipped, bcast>>

-----------------------------------------------------------------------------
\* BroadcastWithAuth takes the read lock and ranges over the clients ...
BroadcastBegin(e) ==
  /\ bcast[e].pc = "new"
  /\ bcast' = [bcast EXCEPT ![e] = [pc |-> "run", todo |-> Registered, all |-> Registered]]
  /\ UNCHANGED <<conn, ipCount, chn, got, skipped, mayRead, denied>>

\* Mutant: only the filter is looked at; the permission was checked on connecting.
WantsUnchecked(c, e) == FilterOf[c] \in {AllColls, CollOf[e]}

\* ... leaves out the clients of another collection and those without PermRead ...
Wants(c, e) == FilterOf[c] \in {AllColls, CollOf[e]} /\ UserOf[c] \in mayRead

\* ... and sends without waiting: a full channel misses the event.
BroadcastSend(e, c) ==
  /\ c \in bcast[e].todo
  /\ bcast' = [bcast EXCEPT ![e].todo = @ \ {c}]
  /\ IF ~Wants(c, e) THEN UNCHANGED <<chn, skipped>>
     ELSE IF Len(chn[c]) < SseCap
     THEN chn' = [chn EXCEPT ![c] = Append(@, e)] /\ UNCHANGED skipped
     ELSE skipped' = [skipped EXCEPT ![c] = @ \cup {e}] /\ UNCHANGED chn
  /\ UNCHANGED <<conn, ipCount, got, mayRead, denied>>

BroadcastEnd(e) ==
  /\ bcast[e].pc = "run" /\ bcast[e].todo = {}
  /\ bcast' = [bcast EXCEPT ![e].pc = "done"]
  /\ UNCHANGED <<conn, ipCount, chn, got, skipped, mayRead, denied>>

HubNext ==
  \/ \E c \in Conns : AddClient(c) \/ Forbid(c) \/ RemoveClient(c) \/ Write(c)
  \/ \E u \in Users : RevokeRead(u)
  \/ \E e \in SseEvents : BroadcastBegin(e) \/ BroadcastEnd(e)
  \/ \E e \in SseEvents, c \in Conns : BroadcastSend(e, c)

HubSpec == HubInit /\ [][HubNext]_hubVars

-----------------------------------------------------------------------------
\* A send on a closed channel panics and takes the writer's request with it.  However
\* connections end while writers broadcast, no broadcast still has a removed client to
\* visit (BroadcastWithAuth, removeClient), and the connection counters stay exact and
\* within their limits (addClient): a counter that leaks would lock an address out.
HubSafe ==
  /\ \A e \in SseEvents : bcast[e].todo \subseteq Registered
  /\ \A i \in Ips : ipCount[i] = Cardinality({c \in Registered : IpOf[c] = i})
  /\ \A i \in Ips : ipCount[i] <= MaxPerIP
  /\ Cardinality(Registered) <= MaxConns

\* An event reaches every client that was registered when its broadcast began and kept its
\* permission, unless that client filters another collection or its channel was full
\* (BroadcastWithAuth): one client's filter, permission or slowness never costs another.
EveryoneServed ==
  \A e \in SseEvents : bcast[e].pc = "done" =>
    \A c \in bcast[e].all :
      (UserOf[c] \in mayRead /\ FilterOf[c] \in {AllColls, CollOf[e]})
        => e \in Queued(c) \cup got[c] \cup skipped[c]

\* "events filtered by PermRead" (sse.go): an event broadcast after the user lost the
\* permission never reaches a connection that was opened with it (BroadcastWithAuth asks
\* CheckPermission for every event, not on connecting).
RevocationHolds == \A c \in Conns : denied[UserOf[c]] \cap (Queued(c) \cup got[c]) = {}

\* Events reach exactly those connections that are open, want them and may read them, unless a
\* channel is full (addClient, removeClient, BroadcastWithAuth).
HubSound == HubSafe /\ EveryoneServed /\ RevocationHolds
=============================================================================
