------------------------------- MODULE Binlog -------------------------------
(***************************************************************************)
(* The replication log of a leader: internal/binlog/binlog.go.             *)
(*                                                                         *)
(* A writer appends entries under the mutex b.mu and, after releasing it,  *)
(* hands them to the subscribers' channels.  Entries live in a bufio       *)
(* buffer until the flusher writes and fsyncs them.  The process may crash *)
(* with any prefix of the buffer on disk, possibly followed by a torn      *)
(* entry, and recoverLSN then scans the file.                              *)
(*                                                                         *)
(* An entry is its LSN and its operation.  What the bytes after the last   *)
(* readable entry are is the variable tail:                                *)
(*   "clean"   nothing;                                                    *)
(*   "short"   fewer than the 8 bytes of an LSN;                           *)
(*   "long"    8 bytes or more of an entry that is not complete;           *)
(*   "buried"  a short piece with later appends behind it, which           *)
(*             UnmarshalBinlogEntry cannot get past.                       *)
(***************************************************************************)
EXTENDS Integers, Sequences

CONSTANTS
  Writers,     \* goroutines that append
  Ids,         \* follower ids, the keys of b.subscribers
  Chans,       \* channels made by Subscribe; each belongs to one stream handler
  Ops,         \* operations an entry can carry (bucket, key and value)
  None,        \* "no channel", "no id"
  Cap,         \* binlogSubscriberCap
  MaxLSN,      \* bound on the LSNs of a run
  MaxCrashes   \* bound on crashes and shutdowns

ASSUME NoneAssumption == None \notin Chans \cup Ids
ASSUME CapAssumption == Cap \in Nat \ {0}
ASSUME MaxLSNAssumption == MaxLSN \in Nat

VARIABLES
  up,          \* "up", "down" (crashed or stopped) or "fatal" (recovery refused the file)
  lsn,         \* b.lsn
  oldestLSN,   \* b.oldestLSN
  file,        \* the entries on disk that UnmarshalBinlogEntry can reach
  tail,        \* what follows them
  writer,      \* entries written to the bufio.Writer and not yet fsynced
  failed,      \* bufio's sticky error: a Write or Flush has failed
  unsent,      \* [Writers -> entries appended and not yet passed to notifySubscribers]
  subscribers, \* b.subscribers: [Ids -> Chans or None]
  handler,     \* [Chans -> the id a live handler subscribed under, or None]
  chan,        \* [Chans -> entries in the channel]
  closed,      \* channels that have been closed
  crashes      \* crashes and shutdowns so far

logVars == <<lsn, oldestLSN, file, tail, writer, failed>>
subVars == <<subscribers, handler, chan, closed>>
binlogVars == <<up, lsn, oldestLSN, file, tail, writer, failed, unsent,
                subscribers, handler, chan, closed, crashes>>

Entry == [lsn : Nat, op : Ops]
Tails == {"clean", "short", "long", "buried"}

\* What Unmarshal can read of the log once the buffer is flushed.
Log == IF tail = "clean" /\ ~failed THEN file \o writer ELSE file

LastLSN(s) == IF s = <<>> THEN 0 ELSE s[Len(s)].lsn
FirstLSN(s) == IF s = <<>> THEN 0 ELSE s[1].lsn

-----------------------------------------------------------------------------
\* Mutant: one LSN is taken for the whole batch.
StampOnce(ops, n) == [i \in 1..Len(ops) |-> [lsn |-> n + 1, op |-> ops[i]]]

\* The entries ops get the LSNs after n.
Stamp(ops, n) == [i \in 1..Len(ops) |-> [lsn |-> n + i, op |-> ops[i]]]

BinlogInit ==
  /\ up = "up" /\ lsn = 0 /\ oldestLSN = 0
  /\ file = <<>> /\ tail = "clean" /\ writer = <<>> /\ failed = FALSE
  /\ unsent = [w \in Writers |-> <<>>]
  /\ subscribers = [i \in Ids |-> None]
  /\ handler = [c \in Chans |-> None]
  /\ chan = [c \in Chans |-> <<>>]
  /\ closed = {}
  /\ crashes = 0

\* The critical section of Append (one entry) and AppendBatch: LSNs are taken and the
\* entries buffered under b.mu; the subscribers are told later, by NotifySubscribers.
AppendBatch(w, ops) ==
  /\ up = "up" /\ ~failed /\ unsent[w] = <<>>
  /\ ops # <<>> /\ lsn + Len(ops) <= MaxLSN
  /\ LET es == Stamp(ops, lsn) IN
       /\ writer' = writer \o es
       /\ unsent' = [unsent EXCEPT ![w] = es]
  /\ lsn' = lsn + Len(ops)
  /\ oldestLSN' = IF oldestLSN = 0 THEN lsn + 1 ELSE oldestLSN
  /\ UNCHANGED <<up, file, tail, failed, crashes, subVars>>

\* After bufio's sticky error every Write fails: the LSN is taken, the entry is not
\* written and nobody is notified.
AppendError(w) ==
  /\ up = "up" /\ failed /\ unsent[w] = <<>> /\ lsn < MaxLSN
  /\ lsn' = lsn + 1
  /\ UNCHANGED <<up, oldestLSN, file, tail, writer, failed, unsent, crashes, subVars>>

\* notifySubscribers: a full channel makes the select drop the entry for that subscriber.
Offer(c, e) == IF Len(chan[c]) < Cap THEN Append(chan[c], e) ELSE chan[c]

\* Mutant: the send has no default branch and waits for room.
NotifySubscribersBlocking(w) ==
  /\ up = "up" /\ unsent[w] # <<>>
  /\ \A c \in Chans : (\E i \in Ids : subscribers[i] = c) => Len(chan[c]) < Cap
  /\ chan' = [c \in Chans |-> IF \E i \in Ids : subscribers[i] = c
                                THEN Offer(c, Head(unsent[w])) ELSE chan[c]]
  /\ unsent' = [unsent EXCEPT ![w] = Tail(@)]
  /\ UNCHANGED <<up, logVars, subscribers, handler, closed, crashes>>

NotifySubscribers(w) ==
  /\ up = "up" /\ unsent[w] # <<>>
  /\ chan' = [c \in Chans |-> IF \E i \in Ids : subscribers[i] = c
                                THEN Offer(c, Head(unsent[w])) ELSE chan[c]]
  /\ unsent' = [unsent EXCEPT ![w] = Tail(@)]
  /\ UNCHANGED <<up, logVars, subscribers, handler, closed, crashes>>

\* flush: everything buffered reaches the disk.  Behind a short piece nothing of it can
\* be read back.
FlushEffect ==
  IF failed \/ writer = <<>> THEN UNCHANGED <<file, tail, writer>>
  ELSE /\ file' = Log
       /\ tail' = IF tail = "clean" THEN "clean" ELSE "buried"
       /\ writer' = <<>>

\* periodicFlusher: the ticker or the flusher signal.
PeriodicFlush ==
  /\ up = "up" /\ ~failed /\ writer # <<>>
  /\ FlushEffect
  /\ UNCHANGED <<up, lsn, oldestLSN, failed, unsent, crashes, subVars>>

\* A Write or Flush fails with n buffered entries on disk, and perhaps a piece of the next.
DiskError ==
  /\ up = "up" /\ ~failed /\ writer # <<>>
  /\ failed' = TRUE
  /\ \E n \in 0..Len(writer) :
       IF tail = "clean"
         THEN /\ file' = file \o SubSeq(writer, 1, n)
              /\ tail' \in IF n < Len(writer) THEN {"clean", "short", "long"} ELSE {"clean"}
         ELSE file' = file /\ tail' = "buried"
  /\ UNCHANGED <<up, lsn, oldestLSN, writer, unsent, crashes, subVars>>

\* Subscribe puts a fresh channel under id; a channel already there is only replaced.
Subscribe(i, c) ==
  /\ up = "up" /\ handler[c] = None
  /\ handler' = [handler EXCEPT ![c] = i]
  /\ subscribers' = [subscribers EXCEPT ![i] = c]
  /\ chan' = [chan EXCEPT ![c] = <<>>]
  /\ closed' = closed \ {c}
  /\ UNCHANGED <<up, logVars, unsent, crashes>>

\* Mutant: the channel is closed and not deleted from the map.
UnsubscribeKeepingKey(c) ==
  /\ up = "up" /\ handler[c] # None
  /\ closed' = closed \cup ({subscribers[handler[c]]} \ {None})
  /\ handler' = [handler EXCEPT ![c] = None]
  /\ UNCHANGED <<up, logVars, unsent, subscribers, chan, crashes>>

\* Mutant: an id that is not in the map is closed as well.
UnsubscribeUnchecked(c) ==
  /\ up = "up" /\ handler[c] # None
  /\ closed' = closed \cup {subscribers[handler[c]]}
  /\ subscribers' = [subscribers EXCEPT ![handler[c]] = None]
  /\ handler' = [handler EXCEPT ![c] = None]
  /\ UNCHANGED <<up, logVars, unsent, chan, crashes>>

\* The handler of c returns and its deferred Unsubscribe(id) closes and removes whatever
\* channel is registered under its id by then.
Unsubscribe(c) ==
  /\ up = "up" /\ handler[c] # None
  /\ LET i == handler[c] IN
       /\ closed' = closed \cup ({subscribers[i]} \ {None})
       /\ subscribers' = [subscribers EXCEPT ![i] = None]
  /\ handler' = [handler EXCEPT ![c] = None]
  /\ UNCHANGED <<up, logVars, unsent, chan, crashes>>

\* Mutant: truncate forgets to reset oldestLSN.
RotateKeepingOldest(keep) ==
  /\ up = "up"
  /\ IF failed
       THEN UNCHANGED logVars
       ELSE /\ file' = <<>> /\ tail' = "clean" /\ writer' = <<>>
            /\ UNCHANGED <<lsn, oldestLSN, failed>>
  /\ UNCHANGED <<up, unsent, crashes, subVars>>

\* Rotate(keepFromLSN): flush, then keep what starts at the first entry at or above that
\* LSN; 0 truncates.  A failed flush makes it return before it touches the file.
Rotate(keep) ==
  /\ up = "up"
  /\ IF failed
       THEN UNCHANGED logVars
       ELSE \E pos \in 1..(Len(Log) + 1) :
              /\ \A i \in 1..Len(Log) : i >= pos <=> keep > 0 /\ Log[i].lsn >= keep
              /\ LET none == pos = Len(Log) + 1 IN
                   /\ file' = SubSeq(Log, pos, Len(Log))
                   /\ tail' = IF none THEN "clean"
                              ELSE IF tail = "short" /\ writer # <<>> THEN "buried" ELSE tail
                   /\ oldestLSN' = IF none THEN 0 ELSE keep
              /\ writer' = <<>>
              /\ UNCHANGED <<lsn, failed>>
  /\ UNCHANGED <<up, unsent, crashes, subVars>>

-----------------------------------------------------------------------------
\* What the process loses when it ends.
Forget ==
  /\ up' = "down" /\ crashes' = crashes + 1
  /\ writer' = <<>>
  /\ unsent' = [w \in Writers |-> <<>>]
  /\ subscribers' = [i \in Ids |-> None]
  /\ handler' = [c \in Chans |-> None]
  /\ chan' = [c \in Chans |-> <<>>]
  /\ closed' = {}

\* Mutant: the last flush was not synced.
CrashUnsynced ==
  /\ up = "up" /\ crashes < MaxCrashes
  /\ Forget
  /\ file' = SubSeq(file, 1, Len(file) - 1) /\ tail' = tail
  /\ UNCHANGED <<lsn, oldestLSN, failed>>

\* A crash: any prefix of the buffer is on disk, perhaps with a piece of the next entry.
Crash ==
  /\ up = "up" /\ crashes < MaxCrashes
  /\ Forget
  /\ \/ /\ failed \/ tail # "clean"
        /\ file' = file
        /\ tail' \in IF tail = "short" /\ writer # <<>> /\ ~failed THEN {"short", "buried"} ELSE {tail}
     \/ /\ ~failed /\ tail = "clean"
        /\ \E n \in 0..Len(writer) :
             /\ file' = file \o SubSeq(writer, 1, n)
             /\ tail' \in IF n < Len(writer) THEN {"clean", "short", "long"} ELSE {"clean"}
  /\ UNCHANGED <<lsn, oldestLSN, failed>>

\* Close: flush, close every subscriber's channel, close the file.
Close ==
  /\ up = "up" /\ crashes < MaxCrashes
  /\ Forget
  /\ file' = Log
  /\ tail' = IF tail = "short" /\ writer # <<>> /\ ~failed THEN "buried" ELSE tail
  /\ UNCHANGED <<lsn, oldestLSN, failed>>

\* NewBinlog and recoverLSN.  A long torn tail is an error the server exits on; a short
\* one ends the scan; lengths read out of step behind a buried one give any result.
Open ==
  /\ up = "down"
  /\ \/ /\ tail \in {"clean", "short"}
        /\ up' = "up" /\ lsn' = LastLSN(file) /\ oldestLSN' = FirstLSN(file)
     \/ /\ tail \in {"long", "buried"}
        /\ up' = "fatal" /\ UNCHANGED <<lsn, oldestLSN>>
     \/ /\ tail = "buried"
        /\ up' = "up" /\ lsn' \in 0..MaxLSN
        /\ oldestLSN' \in IF file = <<>> THEN 0..MaxLSN ELSE {FirstLSN(file)}
  /\ failed' = FALSE
  /\ UNCHANGED <<file, tail, writer, unsent, subVars, crashes>>

\* The handler of c takes an entry from its channel.
Receive(c) ==
  /\ up = "up" /\ handler[c] # None /\ chan[c] # <<>>
  /\ chan' = [chan EXCEPT ![c] = Tail(@)]
  /\ UNCHANGED <<up, logVars, unsent, subscribers, handler, closed, crashes>>

-----------------------------------------------------------------------------
\* ReadFrom refuses a position before the oldest entry of the log.
TooOld(from) == from > 0 /\ oldestLSN > 0 /\ from < oldestLSN

\* The LSNs ReadFrom(from) returns once its flush is done.
LSNsAfter(from) == {n \in {Log[i].lsn : i \in 1..Len(Log)} : n > from}

-----------------------------------------------------------------------------
(* The binlog by itself: writers append single entries and pairs, subscribers come and
   go, a restore truncates the log. *)
OpSeqs == {<<o>> : o \in Ops} \cup (Ops \X Ops)

BinlogNext ==
  \/ \E w \in Writers : \/ \E ops \in OpSeqs : AppendBatch(w, ops)
                        \/ AppendError(w)
                        \/ NotifySubscribers(w)
  \/ PeriodicFlush \/ DiskError
  \/ \E c \in Chans : \/ \E i \in Ids : Subscribe(i, c)
                      \/ Unsubscribe(c)
                      \/ Receive(c)
  \/ Rotate(0)
  \/ Crash \/ Close \/ Open

\* The flusher's goroutine and a writer past its append run unless the process ends.
BinlogFairness ==
  /\ WF_binlogVars(PeriodicFlush)
  /\ \A w \in Writers : WF_binlogVars(NotifySubscribers(w))

BinlogSpec == BinlogInit /\ [][BinlogNext]_binlogVars
BinlogFairSpec == BinlogSpec /\ BinlogFairness

-----------------------------------------------------------------------------
\* The state of the log has its types: entries of the buffer, the file and the channels
\* carry LSNs, only channels are closed and only channels or nothing are registered.
BinlogTypeOK ==
  /\ up \in {"up", "down", "fatal"} /\ tail \in Tails /\ failed \in BOOLEAN
  /\ lsn \in Nat /\ oldestLSN \in Nat /\ crashes \in Nat
  /\ file \in Seq(Entry) /\ writer \in Seq(Entry)
  /\ unsent \in [Writers -> Seq(Entry)]
  /\ subscribers \in [Ids -> Chans \cup {None}]
  /\ handler \in [Chans -> Ids \cup {None}]
  /\ chan \in [Chans -> Seq(Entry)]
  /\ closed \subseteq Chans

Consecutive(s) == \A i \in 1..Len(s) : s[i].lsn = s[1].lsn + i - 1

\* The readable log has no hole and no repeated LSN, whatever writers, flushes, disk
\* errors, crashes and truncations did; and while the disk is sound its end is the LSN
\* counter, so that the next append continues it.
LogConsecutive ==
  /\ Consecutive(Log)
  /\ up = "up" /\ tail = "clean" /\ ~failed /\ Log # <<>> => LastLSN(Log) = lsn

\* oldestLSN, which ReadFrom refuses on, names the first entry there is to read.
OldestIsFirst ==
  up = "up" /\ tail = "clean" /\ ~failed => oldestLSN = FirstLSN(Log)

\* notifySubscribers only ever sends on channels that are open (a send on a closed
\* channel panics) and that a live handler drains, though an old handler's deferred
\* Unsubscribe may close a newer handler's channel.
RegisteredIsOpen ==
  \A i \in Ids : subscribers[i] # None =>
    subscribers[i] \notin closed /\ handler[subscribers[i]] = i

\* Once the log has an oldest entry, ReadFrom either refuses or returns every entry
\* after the position it was asked for.
ReadFromComplete ==
  up = "up" /\ tail = "clean" /\ ~failed /\ oldestLSN > 0 =>
    \A from \in 1..lsn : TooOld(from) \/ LSNsAfter(from) = (from + 1)..lsn

\* A writer that appended gets through its subscribers, however slow they are.
WritersReturn ==
  \A w \in Writers : (unsent[w] # <<>>) ~> (unsent[w] = <<>>)

\* Entries that a flush would still make readable.
Pending == IF tail = "clean" /\ ~failed THEN writer ELSE <<>>

AL == INSTANCE AbstractLog WITH durable <- file, pending <- Pending,
                                Batches <- OpSeqs, LastUsed <- MaxLSN

\* The file and the buffer implement the abstract log (AppendBatch, flush, truncate,
\* recoverLSN): through disk errors, torn writes, crashes and reopening, readable entries
\* only come from appends, in their order and without a gap, and only leave from the
\* front; and what is buffered is settled in the end.
ImplementsLog == AL!LogSpec
=============================================================================
