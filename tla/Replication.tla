---------------------------- MODULE Replication ----------------------------
(***************************************************************************)
(* Leader-follower replication: the leader's write path up to the binlog   *)
(* (BinlogOps.FlushTo after the BoltDB commit), the gRPC handlers of       *)
(* replication_server.go, one follower (replication_client.go and          *)
(* replication_applier.go), another peer that calls RequestSnapshot, and a *)
(* restore of the leader's database.                                       *)
(*                                                                         *)
(* A stored value is the number of the commit that put it there, so that   *)
(* "as new as" is >=.  A restore replaces every value and counts as one    *)
(* commit.  The gRPC stream of a handler is the FIFO net[c]; what is in it *)
(* is lost when the connection breaks.  The status of a handler arrives    *)
(* behind it, as the error of Recv: gRPC has no other place for it.        *)
(***************************************************************************)
EXTENDS Binlog

CONSTANTS
  Keys,         \* keys of the database
  Footprints,   \* sequences of keys that one transaction writes
  Follower,     \* the follower's id
  Base,         \* number of commits made before the binlog was enabled
  MaxCommits,   \* bound on commits
  MaxRestores,  \* bound on restores of the leader
  MaxSkips,     \* bound on entries the follower fails to apply
  PeerAsks      \* whether another peer asks for snapshots

ASSUME FollowerAssumption == Ids = {Follower}
ASSUME OpsAssumption == Ops = [key : Keys, ver : 1..MaxCommits]
ASSUME FootprintsAssumption == Footprints \subseteq Seq(Keys) \ {<<>>}
ASSUME BaseAssumption == Base \in Nat /\ MaxCommits \in Nat
ASSUME PeerAssumption == PeerAsks \in BOOLEAN

VARIABLES
  leader,       \* [Keys -> version]: the leader's database
  commits,      \* commits so far
  dbOpen,       \* FALSE after a restore that failed half way
  restoring,    \* a restore has swapped the database and not yet reset the binlog
  restores,     \* restores so far
  pend,         \* [Writers -> operations committed and not yet in the binlog]
  hpc,          \* [Chans -> where the StreamBinlog handler is]
  hfrom,        \* [Chans -> its fromLSN]
  hread,        \* [Chans -> what its ReadFrom found and it has not sent yet]
  net,          \* [Chans -> entries sent and not yet received]
  status,       \* [Chans -> how the handler's stream ended, or "open"]
  listed,       \* rs.followers[id].ConfirmedLSN, or None when not listed
  fdb,          \* [Keys -> version]: the follower's database
  lastApplied,  \* applier.lastApplied (in memory)
  cstream,      \* the stream the follower receives from, or None
  skips,        \* entries the follower failed to apply
  snap          \* the snapshot that a peer is being sent: [at, lsn, db]

leaderVars == <<leader, commits, dbOpen, restoring, restores, pend>>
handlerVars == <<hpc, hfrom, hread, net, status, listed>>
followerVars == <<fdb, lastApplied, cstream, skips>>
vars == <<binlogVars, leaderVars, handlerVars, followerVars, snap>>

NoSnap == [at |-> "none", lsn |-> 0, db |-> [k \in Keys |-> 0]]

Init ==
  /\ BinlogInit
  /\ leader \in [Keys -> 0..Base] /\ commits = Base
  /\ dbOpen = TRUE /\ restoring = FALSE /\ restores = 0
  /\ pend = [w \in Writers |-> <<>>]
  /\ hpc = [c \in Chans |-> "idle"] /\ hfrom = [c \in Chans |-> 0]
  /\ hread = [c \in Chans |-> <<>>]
  /\ net = [c \in Chans |-> <<>>] /\ status = [c \in Chans |-> "open"]
  /\ listed = None
  /\ fdb = [k \in Keys |-> 0] /\ lastApplied = 0
  /\ cstream = None /\ snap = NoSnap /\ skips = 0

-----------------------------------------------------------------------------
(* The leader's writers. *)

\* Mutant: the entries are kept although the transaction rolled back.
CommitRolledBack(w, ks) ==
  /\ up = "up" /\ dbOpen /\ pend[w] = <<>> /\ unsent[w] = <<>> /\ commits < MaxCommits
  /\ commits' = commits + 1
  /\ pend' = [pend EXCEPT ![w] = [i \in 1..Len(ks) |-> [key |-> ks[i], ver |-> commits + 1]]]
  /\ UNCHANGED <<binlogVars, leader, dbOpen, restoring, restores, handlerVars, followerVars, snap>>

\* A DBUpdate commits; the operation's BinlogOps now hold what it wrote.
Commit(w, ks) ==
  /\ up = "up" /\ dbOpen /\ pend[w] = <<>> /\ unsent[w] = <<>> /\ commits < MaxCommits
  /\ commits' = commits + 1
  /\ leader' = [k \in Keys |-> IF \E i \in 1..Len(ks) : ks[i] = k THEN commits + 1 ELSE leader[k]]
  /\ pend' = [pend EXCEPT ![w] = [i \in 1..Len(ks) |-> [key |-> ks[i], ver |-> commits + 1]]]
  /\ UNCHANGED <<binlogVars, dbOpen, restoring, restores, handlerVars, followerVars, snap>>

\* FlushTo, outside the transaction; the error of AppendBatch is dropped.
FlushTo(w) ==
  /\ pend[w] # <<>>
  /\ AppendBatch(w, pend[w]) \/ AppendError(w)
  /\ pend' = [pend EXCEPT ![w] = <<>>]
  /\ UNCHANGED <<leader, commits, dbOpen, restoring, restores, handlerVars, followerVars, snap>>

Notify(w) == NotifySubscribers(w) /\ UNCHANGED <<leaderVars, handlerVars, followerVars, snap>>
LeaderFlush == PeriodicFlush /\ UNCHANGED <<leaderVars, handlerVars, followerVars, snap>>
LeaderDiskError == DiskError /\ UNCHANGED <<leaderVars, handlerVars, followerVars, snap>>

\* handleRestore: close the database, copy the backup over it, open it, and last reset
\* the binlog.  The restore lock is not taken.
RestoreSwap ==
  /\ up = "up" /\ dbOpen /\ ~restoring /\ restores < MaxRestores /\ commits < MaxCommits
  /\ leader' = [k \in Keys |-> commits + 1] /\ commits' = commits + 1
  /\ restoring' = TRUE /\ restores' = restores + 1
  /\ UNCHANGED <<binlogVars, dbOpen, pend, handlerVars, followerVars, snap>>

\* The copy or the open fails: the handler returns with the database closed.
RestoreError ==
  /\ up = "up" /\ dbOpen /\ ~restoring /\ restores < MaxRestores
  /\ dbOpen' = FALSE /\ restores' = restores + 1
  /\ UNCHANGED <<binlogVars, leader, commits, restoring, pend, handlerVars, followerVars, snap>>

RestoreReset ==
  /\ restoring /\ Rotate(0)
  /\ restoring' = FALSE
  /\ UNCHANGED <<leader, commits, dbOpen, restores, pend, handlerVars, followerVars, snap>>

-----------------------------------------------------------------------------
(* StreamBinlog on the leader. *)

\* The stream of c after es is sent: the follower only hears its present stream.
Sent(c, es) == IF cstream = c THEN net[c] \o es ELSE <<>>

\* ReadFrom: flush under the mutex ...
HandlerFlush(c) ==
  /\ up = "up" /\ hpc[c] = "flush"
  /\ FlushEffect
  /\ hpc' = [hpc EXCEPT ![c] = "read"]
  /\ UNCHANGED <<up, lsn, oldestLSN, failed, unsent, subVars, crashes, leaderVars,
                 hfrom, hread, net, status, listed, followerVars, snap>>

\* ... then read the file without it, with whatever bufio has written out of the buffer
\* since; the LSNs increase, so the entries above fromLSN are the end of what is read ...
HandlerRead(c) ==
  /\ up = "up" /\ hpc[c] = "read"
  /\ \E n \in Len(file)..Len(Log) : \E pos \in 1..(n + 1) :
       /\ \A i \in 1..n : i >= pos <=> Log[i].lsn > hfrom[c]
       /\ hread' = [hread EXCEPT ![c] = SubSeq(Log, pos, n)]
  /\ hpc' = [hpc EXCEPT ![c] = "check"]
  /\ UNCHANGED <<binlogVars, leaderVars, hfrom, net, status, listed, followerVars, snap>>

\* ... and last refuse a position that is too old, by the oldestLSN of this moment.
HandlerCheck(c) ==
  /\ up = "up" /\ hpc[c] = "check"
  /\ IF TooOld(hfrom[c])
       THEN /\ hpc' = [hpc EXCEPT ![c] = "idle"]
            /\ hread' = [hread EXCEPT ![c] = <<>>]
            /\ status' = [status EXCEPT ![c] = "tooold"]
            /\ listed' = None
       ELSE /\ hpc' = [hpc EXCEPT ![c] = "send"]
            /\ UNCHANGED <<hread, status, listed>>
  /\ hfrom' = [hfrom EXCEPT ![c] = 0]
  /\ UNCHANGED <<binlogVars, leaderVars, net, followerVars, snap>>

\* The entries read are sent one by one.
HandlerSend(c) ==
  /\ up = "up" /\ hpc[c] = "send" /\ cstream = c /\ hread[c] # <<>>
  /\ net' = [net EXCEPT ![c] = Append(@, Head(hread[c]))]
  /\ hread' = [hread EXCEPT ![c] = Tail(@)]
  /\ UNCHANGED <<binlogVars, leaderVars, hpc, hfrom, status, listed, followerVars, snap>>

\* Only then does the handler subscribe to new entries.
HandlerSubscribe(c) ==
  /\ hpc[c] = "send" /\ hread[c] = <<>>
  /\ Subscribe(Follower, c)
  /\ hpc' = [hpc EXCEPT ![c] = "tail"]
  /\ UNCHANGED <<leaderVars, hfrom, hread, net, status, listed, followerVars, snap>>

HandlerTail(c) ==
  /\ hpc[c] = "tail"
  /\ Receive(c)
  /\ net' = [net EXCEPT ![c] = Sent(c, <<Head(chan[c])>>)]
  /\ UNCHANGED <<leaderVars, hpc, hfrom, hread, status, listed, followerVars, snap>>

\* Mutant: the handler returns without its deferred Unsubscribe.
HandlerEndSubscribed(c) ==
  /\ up = "up" /\ hpc[c] \in {"send", "tail"} /\ cstream # c
  /\ hpc' = [hpc EXCEPT ![c] = "idle"]
  /\ hread' = [hread EXCEPT ![c] = <<>>]
  /\ listed' = None
  /\ UNCHANGED <<binlogVars, leaderVars, hfrom, net, status, followerVars, snap>>

\* The handler returns: its channel was closed, or the follower is gone.  The deferred
\* calls unsubscribe the id and drop it from rs.followers.
HandlerEnd(c) ==
  /\ up = "up" /\ hpc[c] \in {"send", "tail"}
  /\ \/ cstream # c
     \/ hpc[c] = "tail" /\ c \in closed /\ chan[c] = <<>>
  /\ IF hpc[c] = "tail" THEN Unsubscribe(c) ELSE UNCHANGED binlogVars
  /\ hpc' = [hpc EXCEPT ![c] = "idle"]
  /\ status' = [status EXCEPT ![c] = IF cstream = c THEN "eof" ELSE "open"]
  /\ hread' = [hread EXCEPT ![c] = <<>>]
  /\ listed' = None
  /\ UNCHANGED <<leaderVars, hfrom, net, followerVars, snap>>

\* Mutant: the snapshot is labelled with the LSN that comes next.
SnapshotLSNNext ==
  /\ PeerAsks /\ up = "up" /\ snap.at = "none"
  /\ snap' = [snap EXCEPT !.at = "lsn", !.lsn = lsn + 1]
  /\ UNCHANGED <<binlogVars, leaderVars, handlerVars, followerVars>>

\* RequestSnapshot, which any peer with the credentials may call: the LSN is read first ...
SnapshotLSN ==
  /\ PeerAsks /\ up = "up" /\ snap.at = "none"
  /\ snap' = [snap EXCEPT !.at = "lsn", !.lsn = lsn]
  /\ UNCHANGED <<binlogVars, leaderVars, handlerVars, followerVars>>

\* ... the database copied in a read transaction after it ...
SnapshotView ==
  /\ up = "up" /\ dbOpen /\ snap.at = "lsn"
  /\ snap' = [snap EXCEPT !.at = "view", !.db = leader]
  /\ UNCHANGED <<binlogVars, leaderVars, handlerVars, followerVars>>

\* ... and the handler returns, with the whole of it sent or with an error.
SnapshotEnd ==
  /\ snap.at # "none"
  /\ snap' = NoSnap
  /\ UNCHANGED <<binlogVars, leaderVars, handlerVars, followerVars>>

-----------------------------------------------------------------------------
(* The follower: one iteration of loop per connection. *)

Connect(c) ==
  /\ up = "up" /\ cstream = None /\ hpc[c] = "idle"
  /\ cstream' = c
  /\ hpc' = [hpc EXCEPT ![c] = "flush"]
  /\ hfrom' = [hfrom EXCEPT ![c] = lastApplied]
  /\ status' = [status EXCEPT ![c] = "open"]
  /\ listed' = lastApplied
  /\ UNCHANGED <<binlogVars, leaderVars, hread, net, fdb, lastApplied, skips, snap>>

\* Apply: one transaction per entry, then lastApplied takes the entry's LSN.
Recv ==
  /\ cstream # None /\ net[cstream] # <<>>
  /\ LET e == Head(net[cstream]) IN
       /\ fdb' = [fdb EXCEPT ![e.op.key] = e.op.ver]
       /\ lastApplied' = e.lsn
  /\ net' = [net EXCEPT ![cstream] = Tail(@)]
  /\ UNCHANGED <<binlogVars, leaderVars, hpc, hfrom, hread, status, listed, cstream, skips, snap>>

\* A failed Apply is logged and the loop goes on with the next entry.
RecvSkip ==
  /\ cstream # None /\ net[cstream] # <<>> /\ skips < MaxSkips
  /\ net' = [net EXCEPT ![cstream] = Tail(@)]
  /\ skips' = skips + 1
  /\ UNCHANGED <<binlogVars, leaderVars, hpc, hfrom, hread, status, listed, fdb, lastApplied,
                 cstream, snap>>

\* The stream ends and replicate returns, whatever the status.  Its request for a snapshot
\* hangs on an error of the StreamBinlog call itself and is not reached.
StreamEnd ==
  /\ cstream # None /\ net[cstream] = <<>> /\ status[cstream] # "open"
  /\ cstream' = None
  /\ UNCHANGED <<binlogVars, leaderVars, handlerVars, fdb, lastApplied, skips, snap>>

\* The connection breaks.
Break ==
  /\ cstream # None
  /\ cstream' = None
  /\ net' = [c \in Chans |-> <<>>]
  /\ UNCHANGED <<binlogVars, leaderVars, hpc, hfrom, hread, status, listed, fdb, lastApplied,
                 skips, snap>>

\* The follower's process restarts: lastApplied was only in memory.
FollowerRestart ==
  /\ lastApplied > 0
  /\ lastApplied' = 0 /\ cstream' = None
  /\ net' = [c \in Chans |-> <<>>]
  /\ UNCHANGED <<binlogVars, leaderVars, hpc, hfrom, hread, status, listed, fdb, skips, snap>>

\* ackLoop and AcknowledgeLSN.
Acknowledge ==
  /\ up = "up" /\ cstream # None /\ listed # None /\ listed # lastApplied
  /\ listed' = lastApplied
  /\ UNCHANGED <<binlogVars, leaderVars, hpc, hfrom, hread, net, status, followerVars, snap>>

-----------------------------------------------------------------------------
\* The leader's process ends: BoltDB keeps what was committed, the rest is gone.
LeaderCrash ==
  /\ Crash
  /\ pend' = [w \in Writers |-> <<>>]
  /\ restoring' = FALSE
  /\ hpc' = [c \in Chans |-> "idle"] /\ hread' = [c \in Chans |-> <<>>]
  /\ net' = [c \in Chans |-> <<>>]
  /\ listed' = None
  /\ hfrom' = [c \in Chans |-> 0] /\ status' = [c \in Chans |-> "open"]
  /\ cstream' = None /\ snap' = NoSnap
  /\ UNCHANGED <<leader, commits, dbOpen, restores, fdb, lastApplied, skips>>

LeaderStart ==
  /\ Open
  /\ dbOpen' = TRUE
  /\ UNCHANGED <<leader, commits, restoring, restores, pend, handlerVars, followerVars, snap>>

Next ==
  \/ \E w \in Writers : (\E ks \in Footprints : Commit(w, ks)) \/ FlushTo(w) \/ Notify(w)
  \/ LeaderFlush \/ LeaderDiskError
  \/ RestoreSwap \/ RestoreError \/ RestoreReset
  \/ \E c \in Chans : \/ HandlerFlush(c) \/ HandlerRead(c) \/ HandlerCheck(c)
                      \/ HandlerSend(c) \/ HandlerSubscribe(c) \/ HandlerTail(c)
                      \/ HandlerEnd(c) \/ Connect(c)
  \/ SnapshotLSN \/ SnapshotView \/ SnapshotEnd
  \/ Recv \/ RecvSkip \/ StreamEnd \/ Break \/ FollowerRestart \/ Acknowledge
  \/ LeaderCrash \/ LeaderStart

Spec == Init /\ [][Next]_vars

\* Every goroutine of the leader and the follower's loop keep running, and a stream that
\* is refused again and again is not cut every time before the refusal arrives.  Nothing
\* is assumed of clients, of restores or of crashes.
Fairness ==
  /\ \A w \in Writers : WF_vars(FlushTo(w)) /\ WF_vars(Notify(w))
  /\ WF_vars(LeaderFlush) /\ WF_vars(RestoreReset) /\ WF_vars(LeaderStart)
  /\ \A c \in Chans : /\ WF_vars(HandlerFlush(c)) /\ WF_vars(HandlerRead(c))
                       /\ WF_vars(HandlerCheck(c)) /\ WF_vars(HandlerSend(c))
                       /\ WF_vars(HandlerSubscribe(c)) /\ WF_vars(HandlerTail(c))
                       /\ WF_vars(HandlerEnd(c))
  /\ WF_vars(\E c \in Chans : Connect(c))
  /\ WF_vars(Recv) /\ SF_vars(StreamEnd)

FairSpec == Spec /\ Fairness

-----------------------------------------------------------------------------
\* Leader, streams and follower have their types: what is acknowledged and recorded in
\* rs.followers is an LSN, what is on the wire are entries.
TypeOK ==
  /\ BinlogTypeOK
  /\ leader \in [Keys -> Nat] /\ commits \in Nat
  /\ dbOpen \in BOOLEAN /\ restoring \in BOOLEAN /\ restores \in Nat
  /\ pend \in [Writers -> Seq(Ops)]
  /\ hpc \in [Chans -> {"idle", "flush", "read", "check", "send", "tail"}]
  /\ hfrom \in [Chans -> Nat] /\ hread \in [Chans -> Seq(Entry)]
  /\ net \in [Chans -> Seq(Entry)]
  /\ status \in [Chans -> {"open", "eof", "tooold"}]
  /\ listed \in Nat \cup {None}
  /\ fdb \in [Keys -> Nat] /\ lastApplied \in Nat /\ skips \in Nat
  /\ cstream \in Chans \cup {None}
  /\ snap \in [at : {"none", "lsn", "view"}, lsn : Nat, db : [Keys -> Nat]]

\* Nothing reaches a follower that the leader had not committed: whatever is lost,
\* repeated, reordered or replayed after a crash, no key of the follower is newer than
\* the leader's.
FollowerNotAhead == \A k \in Keys : fdb[k] <= leader[k]

\* A snapshot holds the effect of every logged entry up to the LSN it is labelled with, so
\* that streaming from that LSN skips nothing: this is why RequestSnapshot reads the LSN
\* before it opens its transaction and why writers append after they commit.
SnapshotCovers ==
  snap.at = "view" => \A i \in 1..Len(Log) :
    Log[i].lsn <= snap.lsn => Log[i].op.ver <= snap.db[Log[i].op.key]

\* At most one stream of the follower is registered, and it is one whose handler is
\* tailing: no entry is queued for a handler that has returned.
RegisteredIsTailing ==
  subscribers[Follower] # None => hpc[subscribers[Follower]] = "tail"

\* Nothing of the leader's or the follower's doing is outstanding: the stream is
\* registered and drained, and every write has been through the binlog.
Quiet ==
  /\ up = "up" /\ dbOpen /\ ~restoring /\ ~failed /\ tail = "clean"
  /\ \A w \in Writers : pend[w] = <<>> /\ unsent[w] = <<>>
  /\ cstream # None
  /\ subscribers[Follower] = cstream
  /\ chan[cstream] = <<>> /\ net[cstream] = <<>>

\* "Followers reconnect and catch up after disconnects": a follower with nothing left to
\* receive has the leader's data.
CaughtUp == Quiet => fdb = leader

\* The leader has refused the follower's position.
Refused == cstream # None /\ status[cstream] = "tooold"

\* "If LSN is too old (binlog rotated): full snapshot re-sync": a follower that the leader
\* refuses again and again comes, by a snapshot or by starting anew, to a position that the
\* leader accepts.
TooOldIsResynced == []<>Refused => []<>~TooOld(lastApplied)
=============================================================================
