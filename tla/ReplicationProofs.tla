------------------------- MODULE ReplicationProofs -------------------------
(* Proofs about the binlog and about replication, for every number of writers, *)
(* subscribers, LSNs, streams, keys and commits.                               *)
EXTENDS Replication, SequenceTheorems, TLAPS

-----------------------------------------------------------------------------
(* The binlog. *)

\* What makes LogConsecutive and OldestIsFirst inductive: LSNs start at 1, so that 0 can
\* mean "empty", and a process that is not running has nothing buffered.
LogSound ==
  /\ \A i \in 1..Len(Log) : Log[i].lsn >= 1
  /\ up # "up" => writer = <<>>

BinlogInv == BinlogTypeOK /\ LogConsecutive /\ OldestIsFirst /\ LogSound

-----------------------------------------------------------------------------
\* Stamping gives the operations consecutive LSNs that continue n.
LEMMA StampFacts ==
  ASSUME NEW ops \in Seq(Ops), NEW n \in Nat
  PROVE  /\ Stamp(ops, n) \in Seq(Entry)
         /\ Len(Stamp(ops, n)) = Len(ops)
         /\ \A i \in 1..Len(ops) : Stamp(ops, n)[i].lsn = n + i
<1>1. Len(ops) \in Nat /\ \A i \in 1..Len(ops) : ops[i] \in Ops
  OBVIOUS
<1>2. \A i \in 1..Len(ops) : n + i \in Nat
  BY <1>1
<1>3. \A i \in 1..Len(ops) : [lsn |-> n + i, op |-> ops[i]] \in Entry
  BY <1>1, <1>2 DEF Entry
<1>4. Stamp(ops, n) \in [1..Len(ops) -> Entry]
  BY <1>1, <1>3 DEF Stamp
<1>5. Stamp(ops, n) \in Seq(Entry) /\ Len(Stamp(ops, n)) = Len(ops)
  BY <1>1, <1>4, IsASeq, LenProperties
<1>6. QED
  BY <1>1, <1>5 DEF Stamp

\* A log that ends at n continues consecutively with entries stamped after n.
LEMMA AppendConsecutive ==
  ASSUME NEW s \in Seq(Entry), NEW t \in Seq(Entry), NEW n \in Nat,
         Consecutive(s), s # <<>> => s[Len(s)].lsn = n,
         \A i \in 1..Len(t) : t[i].lsn = n + i
  PROVE  Consecutive(s \o t)
<1>1. Len(s \o t) = Len(s) + Len(t) /\ Len(s) \in Nat /\ Len(t) \in Nat
  OBVIOUS
<1>2. \A i \in 1..Len(s \o t) :
        (s \o t)[i] = IF i <= Len(s) THEN s[i] ELSE t[i - Len(s)]
  OBVIOUS
<1>3. CASE s = <<>>
  BY <1>1, <1>2, <1>3 DEF Consecutive
<1>4. CASE s # <<>>
  <2>1. Len(s) >= 1 /\ s[Len(s)].lsn = s[1].lsn + Len(s) - 1 /\ s[Len(s)].lsn = n
    BY <1>4 DEF Consecutive
  <2>2. s[1] \in Entry /\ s[1].lsn \in Nat
    <3>1. s[1] \in Entry
      BY <2>1, ElementOfSeq
    <3>2. QED
      BY <3>1 DEF Entry
  <2>3. SUFFICES ASSUME NEW i \in 1..Len(s \o t)
                 PROVE  (s \o t)[i].lsn = (s \o t)[1].lsn + i - 1
    BY DEF Consecutive
  <2>4. CASE i <= Len(s)
    BY <1>1, <1>2, <2>1, <2>4 DEF Consecutive
  <2>5. CASE ~(i <= Len(s))
    <3>1. i - Len(s) \in 1..Len(t) /\ (s \o t)[i] = t[i - Len(s)] /\ (s \o t)[1] = s[1]
      BY <1>1, <1>2, <2>1, <2>5
    <3>2. t[i - Len(s)].lsn = n + (i - Len(s))
      BY <3>1
    <3>3. n + (i - Len(s)) = s[1].lsn + i - 1
      <4>1. \A a, l, j \in Int : (a + l - 1) + (j - l) = a + j - 1
        OBVIOUS
      <4>2. s[1].lsn \in Int /\ Len(s) \in Int /\ i \in Int /\ n = s[1].lsn + Len(s) - 1
        BY <1>1, <2>1, <2>2
      <4>3. QED
        BY <4>1, <4>2, Zenon
    <3>4. QED
      BY <3>1, <3>2, <3>3, Zenon
  <2>6. QED
    BY <2>4, <2>5
<1>5. QED
  BY <1>3, <1>4

\* A beginning of a consecutive log is consecutive.
LEMMA PrefixConsecutive ==
  ASSUME NEW s \in Seq(Entry), NEW t \in Seq(Entry), NEW n \in 0..Len(t),
         Consecutive(s \o t), \A i \in 1..Len(s \o t) : (s \o t)[i].lsn >= 1
  PROVE  LET p == s \o SubSeq(t, 1, n)
         IN  /\ p \in Seq(Entry)
             /\ Consecutive(p)
             /\ \A i \in 1..Len(p) : p[i].lsn >= 1
<1> DEFINE p == s \o SubSeq(t, 1, n)
<1>1. SubSeq(t, 1, n) \in Seq(Entry) /\ Len(SubSeq(t, 1, n)) = n
      /\ \A i \in 1..n : SubSeq(t, 1, n)[i] = t[i]
  BY SubSeqProperties
<1>2. p \in Seq(Entry) /\ Len(p) = Len(s) + n /\ Len(s) \in Nat /\ Len(t) \in Nat
      /\ Len(s \o t) = Len(s) + Len(t)
  BY <1>1
<1>3. \A i \in 1..Len(p) : p[i] = (s \o t)[i]
  BY <1>1, <1>2
<1>4. \A i \in 1..Len(p) : i \in 1..Len(s \o t) /\ 1 \in 1..Len(p)
  BY <1>2
<1> HIDE DEF p
<1>5. Consecutive(p) /\ \A i \in 1..Len(p) : p[i].lsn >= 1
  BY <1>3, <1>4 DEF Consecutive
<1>6. QED
  BY <1>2, <1>5 DEF p

-----------------------------------------------------------------------------
\* What a writer appends is a sequence of operations.
LEMMA OpSeqsAreSeqs == OpSeqs \subseteq Seq(Ops)
<1>1. \A o \in Ops : <<o>> \in Seq(Ops)
  OBVIOUS
<1>2. \A o, p \in Ops : <<o, p>> \in Seq(Ops)
  OBVIOUS
<1>3. SUFFICES ASSUME NEW s \in OpSeqs PROVE s \in Seq(Ops)
  OBVIOUS
<1>4. (\E o \in Ops : s = <<o>>) \/ (\E o, p \in Ops : s = <<o, p>>)
  BY DEF OpSeqs
<1>5. QED
  BY <1>1, <1>2, <1>4

\* The readable log is a sequence of entries.
LEMMA LogIsSeq == BinlogTypeOK => Log \in Seq(Entry)
BY DEF BinlogTypeOK, Log

\* An append of any operations keeps the types.
LEMMA AppendTyped ==
  ASSUME BinlogTypeOK, NEW w \in Writers, NEW ops \in Seq(Ops), AppendBatch(w, ops)
  PROVE  BinlogTypeOK'
<1> USE DEF BinlogTypeOK, Tails
<1>1. Len(ops) \in Nat /\ Stamp(ops, lsn) \in Seq(Entry)
  BY StampFacts
<1>2. writer' \in Seq(Entry) /\ unsent' \in [Writers -> Seq(Entry)]
  BY <1>1 DEF AppendBatch
<1>3. lsn' \in Nat /\ oldestLSN' \in Nat
  BY <1>1 DEF AppendBatch
<1>4. QED
  BY <1>2, <1>3 DEF AppendBatch, subVars

\* Every action keeps the type invariant.
LEMMA TypeStep == BinlogTypeOK /\ [BinlogNext]_binlogVars => BinlogTypeOK'
<1> SUFFICES ASSUME BinlogTypeOK, [BinlogNext]_binlogVars PROVE BinlogTypeOK'
  OBVIOUS
<1> USE DEF BinlogTypeOK, Tails
<1>1. ASSUME NEW w \in Writers, NEW ops \in OpSeqs, AppendBatch(w, ops) PROVE BinlogTypeOK'
  BY <1>1, OpSeqsAreSeqs, AppendTyped
<1>2. ASSUME NEW w \in Writers, AppendError(w) PROVE BinlogTypeOK'
  BY <1>2 DEF AppendError, subVars
<1>3. ASSUME NEW w \in Writers, NotifySubscribers(w) PROVE BinlogTypeOK'
  <2>1. Head(unsent[w]) \in Entry /\ Tail(unsent[w]) \in Seq(Entry)
    BY <1>3 DEF NotifySubscribers
  <2>2. \A c \in Chans : Offer(c, Head(unsent[w])) \in Seq(Entry)
    BY <2>1 DEF Offer
  <2>3. chan' \in [Chans -> Seq(Entry)]
    BY <1>3, <2>2 DEF NotifySubscribers
  <2>4. unsent' \in [Writers -> Seq(Entry)]
    BY <1>3, <2>1 DEF NotifySubscribers
  <2>5. QED
    BY <1>3, <2>3, <2>4 DEF NotifySubscribers, logVars
<1>4. CASE PeriodicFlush
  <2>1. file' = Log /\ writer' = <<>> /\ tail' \in {"clean", "buried"}
    BY <1>4 DEF PeriodicFlush, FlushEffect
  <2>2. QED
    BY <1>4, <2>1, LogIsSeq DEF PeriodicFlush, subVars
<1>5. CASE DiskError
  <2>1. \A n \in 0..Len(writer) : SubSeq(writer, 1, n) \in Seq(Entry)
    BY SubSeqProperties
  <2>2. file' \in Seq(Entry) /\ tail' \in Tails
    <3>1. CASE tail = "clean"
      <4>1. PICK n \in 0..Len(writer) :
              /\ file' = file \o SubSeq(writer, 1, n)
              /\ tail' \in IF n < Len(writer) THEN {"clean", "short", "long"} ELSE {"clean"}
        BY <1>5, <3>1 DEF DiskError
      <4>2. tail' \in {"clean", "short", "long"}
        BY <4>1
      <4>3. QED
        BY <2>1, <4>1, <4>2
    <3>2. CASE tail # "clean"
      BY <1>5, <3>2 DEF DiskError
    <3>3. QED
      BY <3>1, <3>2
  <2>3. QED
    BY <1>5, <2>2 DEF DiskError, subVars
<1>6. ASSUME NEW c \in Chans, NEW i \in Ids, Subscribe(i, c) PROVE BinlogTypeOK'
  BY <1>6 DEF Subscribe, logVars
<1>7. ASSUME NEW c \in Chans, Unsubscribe(c) PROVE BinlogTypeOK'
  BY <1>7 DEF Unsubscribe, logVars
<1>8. ASSUME NEW c \in Chans, Receive(c) PROVE BinlogTypeOK'
  BY <1>8 DEF Receive, logVars
<1>9. CASE Rotate(0)
  <2>1. \A pos \in 1..(Len(Log) + 1) : SubSeq(Log, pos, Len(Log)) \in Seq(Entry)
    BY LogIsSeq, SubSeqProperties
  <2>2. QED
    BY <1>9, <2>1 DEF Rotate, logVars, subVars
<1>10. CASE Crash
  <2>1. \A n \in 0..Len(writer) : file \o SubSeq(writer, 1, n) \in Seq(Entry)
    BY SubSeqProperties
  <2>2. file' \in Seq(Entry) /\ tail' \in Tails
    BY <1>10, <2>1 DEF Crash
  <2>3. QED
    BY <1>10, <2>2 DEF Crash, Forget
<1>11. CASE Close
  BY <1>11, LogIsSeq DEF Close, Forget
<1>12. CASE Open
  <2>1. LastLSN(file) \in Nat /\ FirstLSN(file) \in Nat
    <3>1. \A i \in 1..Len(file) : file[i] \in Entry
      BY ElementOfSeq
    <3>2. CASE file = <<>>
      BY <3>2 DEF LastLSN, FirstLSN
    <3>3. CASE file # <<>>
      <4>1. Len(file) \in Nat /\ Len(file) >= 1
        BY <3>3
      <4>2. file[1] \in Entry /\ file[Len(file)] \in Entry
        BY <3>1, <4>1
      <4>3. file[1].lsn \in Nat /\ file[Len(file)].lsn \in Nat
        BY <4>2 DEF Entry
      <4>4. QED
        BY <3>3, <4>3 DEF LastLSN, FirstLSN
    <3>4. QED
      BY <3>2, <3>3
  <2>2. lsn' \in Nat /\ oldestLSN' \in Nat
    BY <1>12, <2>1, MaxLSNAssumption DEF Open
  <2>3. QED
    BY <1>12, <2>2 DEF Open, subVars
<1>13. CASE UNCHANGED binlogVars
  BY <1>13 DEF binlogVars
<1>14. QED
  BY <1>1, <1>2, <1>3, <1>4, <1>5, <1>6, <1>7, <1>8, <1>9, <1>10, <1>11, <1>12, <1>13
     DEF BinlogNext

\* The binlog starts with its types.
LEMMA TypeInit == BinlogInit => BinlogTypeOK
<1>1. <<>> \in Seq(Entry)
  OBVIOUS
<1>2. SUFFICES ASSUME BinlogInit PROVE BinlogTypeOK
  OBVIOUS
<1>3. /\ unsent \in [Writers -> Seq(Entry)] /\ chan \in [Chans -> Seq(Entry)]
      /\ subscribers \in [Ids -> Chans \cup {None}]
      /\ handler \in [Chans -> Ids \cup {None}]
  BY <1>1, <1>2 DEF BinlogInit
<1>4. QED
  BY <1>1, <1>2, <1>3 DEF BinlogInit, BinlogTypeOK, Tails

\* The binlog keeps its types, whatever the number of writers and subscribers.
THEOREM BinlogTyped == BinlogSpec => []BinlogTypeOK
BY TypeInit, TypeStep, PTL DEF BinlogSpec

-----------------------------------------------------------------------------
\* An old handler's Unsubscribe and a new handler's Subscribe leave only open channels
\* registered.
LEMMA RegisteredStep ==
  BinlogTypeOK /\ RegisteredIsOpen /\ [BinlogNext]_binlogVars => RegisteredIsOpen'
<1> SUFFICES ASSUME BinlogTypeOK, RegisteredIsOpen, [BinlogNext]_binlogVars,
                    NEW i \in Ids, subscribers'[i] # None
             PROVE  /\ subscribers'[i] \notin closed'
                    /\ handler'[subscribers'[i]] = i
  BY DEF RegisteredIsOpen
<1> DEFINE Goal == subscribers'[i] \notin closed' /\ handler'[subscribers'[i]] = i
<1>1. ASSUME UNCHANGED <<subscribers, handler, closed>> PROVE Goal
  BY <1>1 DEF RegisteredIsOpen
<1>2. ASSUME NEW c \in Chans, NEW j \in Ids, Subscribe(j, c) PROVE Goal
  <2>1. CASE i = j
    <3>1. subscribers'[i] = c /\ handler'[c] = i /\ c \notin closed'
      BY <1>2, <2>1 DEF Subscribe, BinlogTypeOK
    <3>2. QED
      BY <3>1
  <2>2. CASE i # j
    <3>1. subscribers'[i] = subscribers[i] /\ subscribers[i] \in Chans
      BY <1>2, <2>2 DEF Subscribe, BinlogTypeOK
    <3>2. subscribers[i] \notin closed /\ handler[subscribers[i]] = i
      BY <3>1, NoneAssumption DEF RegisteredIsOpen
    <3>3. subscribers[i] # c
      BY <1>2, <3>2, NoneAssumption DEF Subscribe
    <3>4. QED
      BY <1>2, <3>1, <3>2, <3>3 DEF Subscribe, BinlogTypeOK
  <2>3. QED
    BY <2>1, <2>2
<1>3. ASSUME NEW c \in Chans, Unsubscribe(c) PROVE Goal
  <2>1. handler[c] \in Ids
    BY <1>3 DEF Unsubscribe, BinlogTypeOK
  <2>2. i # handler[c] /\ subscribers'[i] = subscribers[i] /\ subscribers[i] \in Chans
    BY <1>3, <2>1 DEF Unsubscribe, BinlogTypeOK
  <2>3. subscribers[i] \notin closed /\ handler[subscribers[i]] = i
    BY <2>2, NoneAssumption DEF RegisteredIsOpen
  <2>4. subscribers[i] # c
    BY <2>2, <2>3
  <2>5. subscribers[i] # subscribers[handler[c]]
    BY <2>1, <2>2, <2>3, NoneAssumption DEF RegisteredIsOpen
  <2>6. QED
    BY <1>3, <2>2, <2>3, <2>4, <2>5 DEF Unsubscribe, BinlogTypeOK
<1>4. CASE Crash \/ Close
  BY <1>4 DEF Crash, Close, Forget
<1>5. QED
  BY <1>1, <1>2, <1>3, <1>4
     DEF BinlogNext, AppendBatch, AppendError, NotifySubscribers, PeriodicFlush,
         DiskError, Receive, Rotate, Open, subVars, binlogVars

\* notifySubscribers never sends on a closed channel.
THEOREM NoSendOnClosed == BinlogSpec => []RegisteredIsOpen
<1>1. BinlogInit => RegisteredIsOpen
  BY DEF BinlogInit, RegisteredIsOpen
<1>2. QED
  BY <1>1, RegisteredStep, BinlogTyped, PTL DEF BinlogSpec

-----------------------------------------------------------------------------
\* The log invariant depends on these variables only, and not on the channels.
LEMMA LogUnchanged ==
  ASSUME BinlogInv, BinlogTypeOK', UNCHANGED <<up, logVars>>
  PROVE  BinlogInv'
BY DEF BinlogInv, LogConsecutive, OldestIsFirst, LogSound, Log, logVars, LastLSN, FirstLSN,
       Consecutive

\* An append continues the log where it ends.
LEMMA AppendStep ==
  ASSUME BinlogInv, BinlogTypeOK', NEW w \in Writers, NEW ops \in Seq(Ops), AppendBatch(w, ops)
  PROVE  BinlogInv'
<1> DEFINE es == Stamp(ops, lsn)
<1>1. BinlogTypeOK /\ Log \in Seq(Entry) /\ lsn \in Nat
  BY LogIsSeq DEF BinlogInv, BinlogTypeOK
<1>2. es \in Seq(Entry) /\ Len(es) = Len(ops) /\ \A i \in 1..Len(es) : es[i].lsn = lsn + i
  BY <1>1, StampFacts
<1>3. Len(ops) \in Nat /\ Len(ops) >= 1
  BY DEF AppendBatch
<1>4. UNCHANGED <<up, file, tail, failed>> /\ up = "up" /\ ~failed /\ writer' = writer \o es
      /\ lsn' = lsn + Len(ops) /\ oldestLSN' = IF oldestLSN = 0 THEN lsn + 1 ELSE oldestLSN
  BY DEF AppendBatch
<1>5. CASE tail # "clean"
  <2>1. Log' = Log
    BY <1>4, <1>5 DEF Log
  <2>2. QED
    BY <1>4, <1>5, <2>1 DEF BinlogInv, LogConsecutive, OldestIsFirst, LogSound, Consecutive
<1>6. CASE tail = "clean"
  <2>1. Log = file \o writer /\ Log' = Log \o es
    <3>1. file \in Seq(Entry) /\ writer \in Seq(Entry)
      BY <1>1 DEF BinlogTypeOK
    <3>2. file \o (writer \o es) = (file \o writer) \o es
      <4>1. es \in Seq(Entry)
        BY <1>2
      <4> HIDE DEF es
      <4>2. QED
        BY SMTT(30), <3>1, <4>1, ConcatAssociative
    <3>3. QED
      BY <1>4, <1>6, <3>2 DEF Log
  <2>2. Consecutive(Log) /\ (Log # <<>> => Log[Len(Log)].lsn = lsn)
        /\ (\A i \in 1..Len(Log) : Log[i].lsn >= 1) /\ oldestLSN = FirstLSN(Log)
    BY <1>4, <1>6 DEF BinlogInv, LogConsecutive, OldestIsFirst, LogSound, LastLSN
  <2> HIDE DEF es
  <2>3. Consecutive(Log \o es)
    BY <1>1, <1>2, <2>2, AppendConsecutive
  <2>4. /\ Log \o es # <<>> /\ Len(Log \o es) = Len(Log) + Len(es)
        /\ \A i \in 1..Len(Log \o es) :
             (Log \o es)[i] = IF i <= Len(Log) THEN Log[i] ELSE es[i - Len(Log)]
    <3>1. Len(Log \o es) = Len(Log) + Len(es) /\ Len(Log) \in Nat
      <4>1. Log \in Seq(Entry) /\ es \in Seq(Entry)
        BY <1>1, <1>2
      <4>2. QED
        BY <4>1, ConcatProperties, LenProperties
    <3>2. \A i \in 1..Len(Log \o es) :
             (Log \o es)[i] = IF i <= Len(Log) THEN Log[i] ELSE es[i - Len(Log)]
      BY <1>1, <1>2, ConcatProperties
    <3>3. Log \o es # <<>>
      BY <1>2, <1>3, <3>1
    <3>4. QED
      BY <3>1, <3>2, <3>3
  <2>5. (Log \o es)[Len(Log \o es)].lsn = lsn + Len(ops)
    BY <1>1, <1>2, <1>3, <2>4
  <2>6. \A i \in 1..Len(Log \o es) : (Log \o es)[i].lsn >= 1
    BY SMTT(30), <1>1, <1>2, <2>2, <2>4
  <2>7. oldestLSN' = (Log \o es)[1].lsn
    <3>1. CASE Log = <<>>
      <4>1. oldestLSN = 0 /\ (Log \o es)[1] = es[1]
        BY <1>2, <1>3, <2>2, <2>4, <3>1 DEF FirstLSN
      <4>2. QED
        BY <1>2, <1>3, <1>4, <4>1
    <3>2. CASE Log # <<>>
      <4>1. Len(Log) >= 1 /\ oldestLSN = Log[1].lsn /\ Log[1].lsn >= 1
        BY <1>1, <2>2, <3>2 DEF FirstLSN
      <4>2. (Log \o es)[1] = Log[1]
        BY <1>1, <1>2, <2>4, <4>1
      <4>3. QED
        BY <1>4, <4>1, <4>2
    <3>3. QED
      BY <3>1, <3>2
  <2>8. QED
    BY <1>4, <1>6, <2>1, <2>3, <2>4, <2>5, <2>6, <2>7
       DEF BinlogInv, LogConsecutive, OldestIsFirst, LogSound, LastLSN, FirstLSN
<1>7. QED
  BY <1>5, <1>6

\* What is on disk after a disk error or a crash is a beginning of the log.
LEMMA PrefixStep ==
  ASSUME BinlogInv, NEW n \in 0..Len(writer), tail = "clean", ~failed
  PROVE  LET p == file \o SubSeq(writer, 1, n)
         IN  Consecutive(p) /\ \A i \in 1..Len(p) : p[i].lsn >= 1
<1>1. file \in Seq(Entry) /\ writer \in Seq(Entry) /\ Log = file \o writer
  BY DEF BinlogInv, BinlogTypeOK, Log
<1>2. Consecutive(file \o writer) /\ \A i \in 1..Len(file \o writer) : (file \o writer)[i].lsn >= 1
  BY <1>1 DEF BinlogInv, LogConsecutive, LogSound
<1>3. QED
  BY <1>1, <1>2, PrefixConsecutive

\* A step that leaves a consecutive file and an empty buffer behind, with the counters
\* either out of use or read off the file.
LEMMA FileStep ==
  ASSUME BinlogTypeOK', writer' = <<>>, Consecutive(file'),
         \A i \in 1..Len(file') : file'[i].lsn >= 1,
         up' = "up" /\ tail' = "clean" /\ ~failed' =>
           /\ oldestLSN' = FirstLSN(file')
           /\ file' # <<>> => LastLSN(file') = lsn'
  PROVE  BinlogInv'
<1>1. Log' = file'
  <2>1. file' \in Seq(Entry)
    BY DEF BinlogTypeOK
  <2>2. file' \o <<>> = file'
    BY <2>1, ConcatEmptySeq
  <2>3. QED
    BY <2>2 DEF Log
<1>2. QED
  BY <1>1 DEF BinlogInv, LogConsecutive, OldestIsFirst, LogSound, Consecutive, LastLSN, FirstLSN

\* Every action keeps the log consecutive, ended by the LSN counter and started by oldestLSN.
LEMMA InvStep == BinlogInv /\ [BinlogNext]_binlogVars => BinlogInv'
<1> SUFFICES ASSUME BinlogInv, [BinlogNext]_binlogVars PROVE BinlogInv'
  OBVIOUS
<1>1. BinlogTypeOK /\ BinlogTypeOK'
  BY TypeStep DEF BinlogInv
<1>2. /\ Consecutive(Log) /\ \A i \in 1..Len(Log) : Log[i].lsn >= 1
      /\ Log \in Seq(Entry) /\ file \in Seq(Entry)
  BY <1>1, LogIsSeq DEF BinlogInv, LogConsecutive, LogSound, BinlogTypeOK
<1>3. ASSUME UNCHANGED <<up, logVars>> PROVE BinlogInv'
  BY <1>1, <1>3, LogUnchanged
<1>4. ASSUME NEW w \in Writers, NEW ops \in OpSeqs, AppendBatch(w, ops) PROVE BinlogInv'
  BY <1>1, <1>4, AppendStep, OpSeqsAreSeqs
<1>5. ASSUME NEW w \in Writers, AppendError(w) PROVE BinlogInv'
  <2>1. Log' = Log /\ failed' /\ UNCHANGED <<up, writer>>
    BY <1>5 DEF AppendError, Log
  <2>2. QED
    BY <1>1, <1>2, <2>1
       DEF BinlogInv, LogConsecutive, OldestIsFirst, LogSound, Consecutive
<1>6. CASE PeriodicFlush
  <2>1. file' = Log /\ writer' = <<>> /\ UNCHANGED <<up, lsn, oldestLSN, failed>> /\ ~failed
        /\ up = "up" /\ (tail' = "clean" => tail = "clean")
    BY <1>6 DEF PeriodicFlush, FlushEffect
  <2>2. up' = "up" /\ tail' = "clean" /\ ~failed' =>
          oldestLSN' = FirstLSN(Log) /\ (Log # <<>> => LastLSN(Log) = lsn')
    BY <2>1 DEF BinlogInv, LogConsecutive, OldestIsFirst
  <2>3. Consecutive(file') /\ (\A i \in 1..Len(file') : file'[i].lsn >= 1)
        /\ (up' = "up" /\ tail' = "clean" /\ ~failed' =>
              oldestLSN' = FirstLSN(file') /\ (file' # <<>> => LastLSN(file') = lsn'))
    BY <1>2, <2>1, <2>2 DEF Consecutive, FirstLSN, LastLSN
  <2>4. QED
    BY <1>1, <2>1, <2>3, FileStep
<1>7. CASE DiskError
  <2>1. failed' /\ UNCHANGED <<up, writer>> /\ up = "up" /\ ~failed
    BY <1>7 DEF DiskError
  <2>2. Consecutive(file') /\ \A i \in 1..Len(file') : file'[i].lsn >= 1
    <3>1. CASE tail = "clean"
      <4>1. PICK n \in 0..Len(writer) : file' = file \o SubSeq(writer, 1, n)
        BY <1>7, <3>1 DEF DiskError
      <4>2. QED
        BY <2>1, <3>1, <4>1, PrefixStep DEF Consecutive
    <3>2. CASE tail # "clean"
      <4>1. file' = file /\ Log = file
        BY <1>7, <3>2 DEF DiskError, Log
      <4>2. QED
        BY <1>2, <4>1 DEF Consecutive
    <3>3. QED
      BY <3>1, <3>2
  <2>3. Log' = file'
    BY <2>1 DEF Log
  <2>4. QED
    BY <1>1, <2>1, <2>2, <2>3
       DEF BinlogInv, LogConsecutive, OldestIsFirst, LogSound, Consecutive
<1>8. CASE Rotate(0)
  <2>1. CASE failed
    BY <1>3, <1>8, <2>1 DEF Rotate
  <2>2. CASE ~failed
    <3>1. PICK pos \in 1..(Len(Log) + 1) :
            /\ \A i \in 1..Len(Log) : i >= pos <=> 0 > 0 /\ Log[i].lsn >= 0
            /\ file' = SubSeq(Log, pos, Len(Log))
            /\ oldestLSN' = IF pos = Len(Log) + 1 THEN 0 ELSE 0
      BY <1>8, <2>2 DEF Rotate
    <3>2. pos = Len(Log) + 1
      BY <1>2, <3>1
    <3>3. file' = <<>>
      BY <1>2, <3>1, <3>2, SubSeqEmpty
    <3>4. writer' = <<>> /\ oldestLSN' = FirstLSN(file')
      BY <1>8, <2>2, <3>1, <3>3 DEF Rotate, FirstLSN
    <3>5. Consecutive(file') /\ \A i \in 1..Len(file') : file'[i].lsn >= 1
      BY <3>3 DEF Consecutive
    <3>6. QED
      BY <1>1, <3>3, <3>4, <3>5, FileStep
  <2>3. QED
    BY <2>1, <2>2
<1>9. CASE Crash
  <2>1. up' = "down" /\ writer' = <<>>
    BY <1>9 DEF Crash, Forget
  <2>2. Consecutive(file') /\ \A i \in 1..Len(file') : file'[i].lsn >= 1
    <3>1. CASE failed \/ tail # "clean"
      <4>1. file' = file /\ Log = file
        BY <1>9, <3>1 DEF Crash, Log
      <4>2. QED
        BY <1>2, <4>1 DEF Consecutive
    <3>2. CASE ~failed /\ tail = "clean"
      <4>1. PICK n \in 0..Len(writer) : file' = file \o SubSeq(writer, 1, n)
        BY <1>9, <3>2 DEF Crash
      <4>2. QED
        BY <3>2, <4>1, PrefixStep DEF Consecutive
    <3>3. QED
      BY <3>1, <3>2
  <2>3. QED
    BY <1>1, <2>1, <2>2, FileStep
<1>10. CASE Close
  <2>1. up' = "down" /\ writer' = <<>> /\ file' = Log
    BY <1>10 DEF Close, Forget
  <2>2. Consecutive(file') /\ \A i \in 1..Len(file') : file'[i].lsn >= 1
    BY <1>2, <2>1 DEF Consecutive
  <2>3. QED
    BY <1>1, <2>1, <2>2, FileStep
<1>11. CASE Open
  <2>1. writer = <<>> /\ writer' = <<>> /\ file' = file /\ tail' = tail
    BY <1>11 DEF Open, BinlogInv, LogSound
  <2>2. Log = file
    <3>1. file \o <<>> = file
      BY <1>2, ConcatEmptySeq
    <3>2. QED
      BY <2>1, <3>1 DEF Log
  <2>3. up' = "up" /\ tail' = "clean" => lsn' = LastLSN(file) /\ oldestLSN' = FirstLSN(file)
    BY <1>11, <2>1 DEF Open
  <2>4. Consecutive(file') /\ (\A i \in 1..Len(file') : file'[i].lsn >= 1)
        /\ (up' = "up" /\ tail' = "clean" /\ ~failed' =>
              oldestLSN' = FirstLSN(file') /\ (file' # <<>> => LastLSN(file') = lsn'))
    BY <1>2, <2>1, <2>2, <2>3 DEF Consecutive, FirstLSN, LastLSN
  <2>5. QED
    BY <1>1, <2>1, <2>4, FileStep
<1>12. QED
  BY <1>3, <1>4, <1>5, <1>6, <1>7, <1>8, <1>9, <1>10, <1>11
     DEF BinlogNext, NotifySubscribers, Subscribe, Unsubscribe, Receive, binlogVars, logVars

\* A binlog that is created is sound.
LEMMA InvInit == BinlogInit => BinlogInv
<1>1. SUFFICES ASSUME BinlogInit PROVE BinlogInv
  OBVIOUS
<1>2. Log = <<>>
  <2>1. <<>> \o <<>> = <<>>
    BY ConcatEmptySeq
  <2>2. QED
    BY <1>1, <2>1 DEF BinlogInit, Log
<1>3. QED
  BY <1>1, <1>2, TypeInit
     DEF BinlogInit, BinlogInv, LogConsecutive, OldestIsFirst, LogSound, Consecutive, FirstLSN

\* Whatever writers, flushes, disk errors, crashes and truncations do, the readable log
\* is consecutive, ends at the LSN counter and starts at oldestLSN.
THEOREM BinlogSafe == BinlogSpec => []BinlogInv
BY InvInit, InvStep, PTL DEF BinlogSpec

\* The readable log has no hole and no repeated LSN.
THEOREM LogIsConsecutive == BinlogSpec => []LogConsecutive
<1>1. BinlogInv => LogConsecutive
  BY DEF BinlogInv
<1>2. QED
  BY <1>1, BinlogSafe, PTL

\* oldestLSN is the LSN of the first readable entry.
THEOREM OldestLSNIsFirst == BinlogSpec => []OldestIsFirst
<1>1. BinlogInv => OldestIsFirst
  BY DEF BinlogInv
<1>2. QED
  BY <1>1, BinlogSafe, PTL

\* A consecutive log that ends at the LSN counter and starts at oldestLSN is complete.
LEMMA InvComplete == BinlogInv => ReadFromComplete
<1> SUFFICES ASSUME BinlogInv, up = "up", tail = "clean", ~failed, oldestLSN > 0,
                    NEW from \in 1..lsn, ~TooOld(from)
             PROVE  LSNsAfter(from) = (from + 1)..lsn
  BY DEF ReadFromComplete
<1>1. Log \in Seq(Entry) /\ lsn \in Nat /\ oldestLSN \in Nat
  BY LogIsSeq DEF BinlogInv, BinlogTypeOK
<1>2. oldestLSN = FirstLSN(Log) /\ Consecutive(Log)
  BY DEF BinlogInv, OldestIsFirst, LogConsecutive
<1>3. Log # <<>> /\ Len(Log) \in Nat /\ Len(Log) >= 1 /\ Log[1].lsn = oldestLSN
  BY <1>1, <1>2 DEF FirstLSN
<1>4. Log[Len(Log)].lsn = lsn
  BY <1>3 DEF BinlogInv, LogConsecutive, LastLSN
<1>5. \A i \in 1..Len(Log) : Log[i].lsn = oldestLSN + i - 1
  BY <1>2, <1>3 DEF Consecutive
<1>6. lsn = oldestLSN + Len(Log) - 1
  BY <1>3, <1>4, <1>5
<1>7. from >= oldestLSN
  BY <1>1 DEF TooOld
<1> DEFINE L == {Log[i].lsn : i \in 1..Len(Log)}
<1>8. L = oldestLSN..lsn
  <2>1. \A n \in L : n \in oldestLSN..lsn
    BY <1>1, <1>3, <1>5, <1>6
  <2>2. ASSUME NEW n \in oldestLSN..lsn PROVE n \in L
    <3>1. n - oldestLSN + 1 \in 1..Len(Log)
      BY <1>1, <1>3, <1>6
    <3>2. Log[n - oldestLSN + 1].lsn = n
      BY <1>1, <1>5, <3>1
    <3>3. QED
      BY <3>1, <3>2
  <2>3. QED
    BY <2>1, <2>2
<1>9. {n \in oldestLSN..lsn : n > from} = (from + 1)..lsn
  BY <1>1, <1>7
<1>10. QED
  BY <1>8, <1>9 DEF LSNsAfter

\* A reader of a log that is not empty is refused or gets everything after its position.
THEOREM ReadFromIsComplete == BinlogSpec => []ReadFromComplete
BY InvComplete, BinlogSafe, PTL

-----------------------------------------------------------------------------
\* The log that can be read is what survives and what is pending.
LEMMA LogParts ==
  ASSUME BinlogTypeOK
  PROVE  /\ Pending \in Seq(Entry) /\ file \in Seq(Entry)
         /\ Log = file \o Pending
         /\ SubSeq(Pending, 1, Len(Pending)) = Pending
         /\ file \o SubSeq(<<>>, 1, 0) = file
<1>1. file \in Seq(Entry) /\ writer \in Seq(Entry)
  BY DEF BinlogTypeOK
<1>2. Pending \in Seq(Entry)
  BY <1>1 DEF Pending
<1>3. Log = file \o Pending
  BY <1>1 DEF Log, Pending
<1>4. SubSeq(Pending, 1, Len(Pending)) = Pending
  BY <1>2
<1>5. QED
  BY <1>1, <1>2, <1>3, <1>4

\* Nothing pending, nothing new in the file: the abstract log stutters.
LEMMA LogStutters ==
  ASSUME file' = file, Pending' = Pending
  PROVE  [AL!LogNext]_(AL!alogVars)
  BY DEF AL!alogVars

\* The pending entries are settled, n of them in the file, when there are any.
LEMMA LogSettles ==
  ASSUME BinlogTypeOK, NEW n \in 0..Len(Pending),
         file' = file \o SubSeq(Pending, 1, n), Pending' = <<>>
  PROVE  [AL!LogNext]_(AL!alogVars)
<1>1. CASE Pending = <<>>
  <2>1. n = 0
    BY <1>1
  <2>2. file' = file
    BY <1>1, <2>1, LogParts
  <2>3. QED
    BY <1>1, <2>2, LogStutters
<1>2. CASE Pending # <<>>
  <2>1. AL!LogSettle
    BY <1>2 DEF AL!LogSettle
  <2>2. QED
    BY <2>1 DEF AL!LogNext
<1>3. QED
  BY <1>1, <1>2

\* An append continues the log from its last LSN, or is hidden behind a torn entry.
LEMMA AppendRefines ==
  ASSUME BinlogInv, NEW w \in Writers, NEW ops \in OpSeqs, AppendBatch(w, ops)
  PROVE  [AL!LogNext]_(AL!alogVars)
<1>1. CASE tail = "clean"
  <2>1. Pending = writer /\ Pending' = writer \o Stamp(ops, lsn) /\ file' = file
    BY <1>1 DEF Pending, AppendBatch
  <2>2. lsn \in 0..MaxLSN
    <3>1. ops \in Seq(Ops) /\ lsn \in Nat /\ lsn + Len(ops) <= MaxLSN
      BY OpSeqsAreSeqs DEF AppendBatch, BinlogInv, BinlogTypeOK
    <3>2. Len(ops) \in Nat
      BY <3>1
    <3>3. QED
      BY <3>1, <3>2, MaxLSNAssumption
  <2>3. Log = AL!Whole
    BY LogParts DEF BinlogInv, AL!Whole
  <2>4. AL!Whole # <<>> => lsn = AL!Whole[Len(AL!Whole)].lsn
    <3>1. Log # <<>> => LastLSN(Log) = lsn
      BY <1>1 DEF BinlogInv, LogConsecutive, AppendBatch
    <3>2. QED
      BY <2>3, <3>1 DEF LastLSN
  <2>5. AL!LogAppend(ops)
    BY <2>1, <2>2, <2>4 DEF AL!LogAppend, Stamp
  <2>6. QED
    BY <2>5 DEF AL!LogNext
<1>2. CASE tail # "clean"
  BY <1>2, LogStutters DEF Pending, AppendBatch
<1>3. QED
  BY <1>1, <1>2

\* The binlog of binlog.go implements the abstract log: every step of it, disk errors,
\* torn writes, crashes and recovery included, appends to, settles or truncates the
\* abstract log, or leaves it alone.
THEOREM LogRefined == BinlogSpec => AL!LogSafety
<1>1. BinlogInit => AL!LogInit
  BY DEF BinlogInit, AL!LogInit, Pending
<1>2. BinlogInv /\ [BinlogNext]_binlogVars => [AL!LogNext]_(AL!alogVars)
  <2> SUFFICES ASSUME BinlogInv, [BinlogNext]_binlogVars
               PROVE  [AL!LogNext]_(AL!alogVars)
    OBVIOUS
  <2> USE DEF BinlogInv
  <2>1. CASE UNCHANGED binlogVars
    BY <2>1, LogStutters DEF binlogVars, Pending
  <2>2. ASSUME NEW w \in Writers, NEW ops \in OpSeqs, AppendBatch(w, ops)
        PROVE  [AL!LogNext]_(AL!alogVars)
    BY <2>2, AppendRefines
  <2>3. ASSUME NEW w \in Writers, AppendError(w) \/ NotifySubscribers(w)
        PROVE  [AL!LogNext]_(AL!alogVars)
    BY <2>3, LogStutters DEF AppendError, NotifySubscribers, logVars, Pending
  <2>4. CASE PeriodicFlush
    <3>1. Pending' = <<>> /\ file' = Log
      BY <2>4 DEF PeriodicFlush, FlushEffect, Pending
    <3>2. file' = file \o SubSeq(Pending, 1, Len(Pending)) /\ Len(Pending) \in 0..Len(Pending)
      BY <3>1, LogParts
    <3>3. QED
      BY <3>1, <3>2, LogSettles
  <2>5. CASE DiskError
    <3>1. Pending' = <<>>
      BY <2>5 DEF DiskError, Pending
    <3>2. CASE tail = "clean"
      <4>1. Pending = writer
        BY <2>5, <3>2 DEF DiskError, Pending
      <4>2. \E n \in 0..Len(Pending) : file' = file \o SubSeq(Pending, 1, n)
        BY <2>5, <3>2, <4>1 DEF DiskError
      <4>3. QED
        BY <3>1, <4>2, LogSettles
    <3>3. CASE tail # "clean"
      BY <2>5, <3>1, <3>3, LogStutters DEF DiskError, Pending
    <3>4. QED
      BY <3>2, <3>3
  <2>6. ASSUME NEW c \in Chans,
               (\E i \in Ids : Subscribe(i, c)) \/ Unsubscribe(c) \/ Receive(c)
        PROVE  [AL!LogNext]_(AL!alogVars)
    BY <2>6, LogStutters DEF Subscribe, Unsubscribe, Receive, logVars, Pending
  <2>7. CASE Rotate(0)
    <3>1. CASE failed
      BY <2>7, <3>1, LogStutters DEF Rotate, logVars, Pending
    <3>2. CASE ~failed
      <4>1. Log = AL!Whole
        BY LogParts DEF AL!Whole
      <4>2. Pending' = <<>>
        BY <2>7, <3>2 DEF Rotate, Pending
      <4>3. \E n \in 1..(Len(AL!Whole) + 1) : file' = SubSeq(AL!Whole, n, Len(AL!Whole))
        BY <2>7, <3>2, <4>1 DEF Rotate
      <4>4. AL!LogTruncate
        BY <4>2, <4>3 DEF AL!LogTruncate
      <4>5. QED
        BY <4>4 DEF AL!LogNext
    <3>3. QED
      BY <3>1, <3>2
  <2>8. CASE Crash
    <3>1. Pending' = <<>>
      BY <2>8 DEF Crash, Forget, Pending
    <3>2. CASE failed \/ tail # "clean"
      <4>1. Pending = <<>> /\ file' = file
        BY <2>8, <3>2 DEF Crash, Pending
      <4>2. QED
        BY <3>1, <4>1, LogStutters
    <3>3. CASE ~failed /\ tail = "clean"
      <4>1. Pending = writer
        BY <3>3 DEF Pending
      <4>2. \E n \in 0..Len(Pending) : file' = file \o SubSeq(Pending, 1, n)
        BY <2>8, <3>3, <4>1 DEF Crash
      <4>3. QED
        BY <3>1, <4>2, LogSettles
    <3>4. QED
      BY <3>2, <3>3
  <2>9. CASE Close
    <3>1. Pending' = <<>> /\ file' = Log
      BY <2>9 DEF Close, Forget, Pending
    <3>2. file' = file \o SubSeq(Pending, 1, Len(Pending)) /\ Len(Pending) \in 0..Len(Pending)
      BY <3>1, LogParts
    <3>3. QED
      BY <3>1, <3>2, LogSettles
  <2>10. CASE Open
    <3>1. writer = <<>>
      BY <2>10 DEF Open, LogSound
    <3>2. QED
      BY <2>10, <3>1, LogStutters DEF Open, Pending
  <2>11. QED
    BY <2>1, <2>2, <2>3, <2>4, <2>5, <2>6, <2>7, <2>8, <2>9, <2>10 DEF BinlogNext
<1>3. BinlogSpec => []BinlogInv
  BY BinlogSafe
<1>4. QED
  BY <1>1, <1>2, <1>3, PTL DEF BinlogSpec, AL!LogSafety

-----------------------------------------------------------------------------
(* Replication. *)

\* Whatever the leader's write path, the stream handlers, the follower and the failures do,
\* the binlog takes a step of its own, an append of what a transaction wrote, or none: what
\* is proved of the Binlog module's steps holds in the leader.
LEMMA BinlogStep ==
  ASSUME TypeOK, [Next]_vars
  PROVE  [BinlogNext]_binlogVars \/ \E w \in Writers, ops \in Seq(Ops) : AppendBatch(w, ops)
<1> DEFINE G == [BinlogNext]_binlogVars \/ \E w \in Writers, ops \in Seq(Ops) : AppendBatch(w, ops)
<1>1. ASSUME UNCHANGED binlogVars PROVE G
  BY <1>1
<1>2. ASSUME NEW w \in Writers, FlushTo(w) PROVE G
  <2>1. pend[w] \in Seq(Ops)
    BY DEF TypeOK
  <2>2. AppendBatch(w, pend[w]) \/ AppendError(w)
    BY <1>2 DEF FlushTo
  <2>3. QED
    BY <2>1, <2>2 DEF BinlogNext
<1>3. ASSUME NEW w \in Writers, Notify(w) PROVE G
  BY <1>3 DEF Notify, BinlogNext
<1>4. CASE LeaderFlush \/ LeaderDiskError \/ RestoreReset \/ LeaderCrash \/ LeaderStart
  BY <1>4 DEF LeaderFlush, LeaderDiskError, RestoreReset, LeaderCrash, LeaderStart, BinlogNext
<1>5. ASSUME NEW c \in Chans, HandlerFlush(c) PROVE G
  <2>1. up = "up" /\ FlushEffect
        /\ UNCHANGED <<up, lsn, oldestLSN, failed, unsent, subVars, crashes>>
    BY <1>5 DEF HandlerFlush
  <2>2. CASE failed \/ writer = <<>>
    BY <2>1, <2>2 DEF FlushEffect, subVars, binlogVars
  <2>3. CASE ~(failed \/ writer = <<>>)
    <3>1. failed \in BOOLEAN
      BY DEF TypeOK, BinlogTypeOK
    <3>2. PeriodicFlush
      BY <2>1, <2>3, <3>1 DEF PeriodicFlush
    <3>3. QED
      BY <3>2 DEF BinlogNext
  <2>4. QED
    BY <2>2, <2>3
<1>6. ASSUME NEW c \in Chans, HandlerSubscribe(c) PROVE G
  BY <1>6, FollowerAssumption DEF HandlerSubscribe, BinlogNext
<1>7. ASSUME NEW c \in Chans, HandlerTail(c) PROVE G
  BY <1>7 DEF HandlerTail, BinlogNext
<1>8. ASSUME NEW c \in Chans, HandlerEnd(c) PROVE G
  BY <1>8 DEF HandlerEnd, BinlogNext
<1>9. CASE Next
  BY <1>9, <1>1, <1>2, <1>3, <1>4, <1>5, <1>6, <1>7, <1>8
     DEF Next, Commit, RestoreSwap, RestoreError, HandlerRead, HandlerCheck, HandlerSend,
         Connect, SnapshotLSN, SnapshotView, SnapshotEnd, Recv, RecvSkip, StreamEnd, Break,
         FollowerRestart, Acknowledge
<1>10. QED
  BY <1>1, <1>9 DEF vars
-----------------------------------------------------------------------------
\* Everything on its way from a writer to the follower is in E: the log, what writers have
\* still to hand to the subscribers, the channels, what handlers have read, and the streams.
Carried(E) ==
  /\ file \in Seq(E) /\ writer \in Seq(E)
  /\ unsent \in [Writers -> Seq(E)] /\ chan \in [Chans -> Seq(E)]
  /\ hread \in [Chans -> Seq(E)] /\ net \in [Chans -> Seq(E)]

\* Entries only come from FlushTo: if what it stamps is in E, nothing outside E ever travels.
LEMMA CarriedStep ==
  ASSUME TypeOK, [Next]_vars, NEW E, Carried(E),
         \A w \in Writers : Stamp(pend[w], lsn) \in Seq(E)
  PROVE  Carried(E)'
<1> USE DEF Carried
<1>1. Log \in Seq(E)
  BY DEF Log
<1>2. \A n \in 0..Len(writer) : SubSeq(writer, 1, n) \in Seq(E)
  BY SubSeqProperties
<1>3. \A n \in 0..Len(writer) : file \o SubSeq(writer, 1, n) \in Seq(E)
  BY <1>2
<1>4. <<>> \in Seq(E)
  OBVIOUS
<1>5. FlushEffect => file' \in Seq(E) /\ writer' \in Seq(E)
  BY <1>1, <1>4 DEF FlushEffect
<1>6. \A c \in Chans, es \in Seq(E) : Sent(c, es) \in Seq(E)
  BY <1>4 DEF Sent
<1>7. ASSUME UNCHANGED <<file, writer, unsent, chan, hread, net>> PROVE Carried(E)'
  BY <1>7
<1>8. ASSUME NEW w \in Writers, FlushTo(w) PROVE Carried(E)'
  <2>1. UNCHANGED <<file, chan, hread, net>>
    BY <1>8 DEF FlushTo, AppendBatch, AppendError, subVars, handlerVars
  <2>2. CASE AppendBatch(w, pend[w])
    <3>1. /\ writer' = writer \o Stamp(pend[w], lsn)
          /\ unsent' = [unsent EXCEPT ![w] = Stamp(pend[w], lsn)]
      BY <2>2 DEF AppendBatch
    <3>2. QED
      BY <2>1, <3>1
  <2>3. CASE AppendError(w)
    BY <2>1, <2>3 DEF AppendError
  <2>4. QED
    BY <1>8, <2>2, <2>3 DEF FlushTo
<1>9. ASSUME NEW w \in Writers, Notify(w) PROVE Carried(E)'
  <2>1. unsent[w] # <<>> /\ unsent[w] \in Seq(E)
    BY <1>9 DEF Notify, NotifySubscribers
  <2>2. Head(unsent[w]) \in E /\ Tail(unsent[w]) \in Seq(E)
    BY <2>1
  <2>3. \A c \in Chans : Offer(c, Head(unsent[w])) \in Seq(E)
    BY <2>2 DEF Offer
  <2>4. chan' \in [Chans -> Seq(E)]
    BY <1>9, <2>3 DEF Notify, NotifySubscribers
  <2>5. unsent' \in [Writers -> Seq(E)]
    BY <1>9, <2>2 DEF Notify, NotifySubscribers
  <2>6. QED
    BY <1>9, <2>4, <2>5 DEF Notify, NotifySubscribers, logVars, handlerVars
<1>10. CASE LeaderFlush
  BY <1>5, <1>10 DEF LeaderFlush, PeriodicFlush, subVars, handlerVars
<1>11. CASE LeaderDiskError
  <2>1. file' \in Seq(E)
    BY <1>3, <1>11 DEF LeaderDiskError, DiskError
  <2>2. QED
    BY <1>11, <2>1 DEF LeaderDiskError, DiskError, subVars, handlerVars
<1>12. CASE RestoreReset
  <2>1. \A pos \in 1..(Len(Log) + 1) : SubSeq(Log, pos, Len(Log)) \in Seq(E)
    BY <1>1, SubSeqProperties
  <2>2. file' \in Seq(E) /\ writer' \in Seq(E)
    BY <1>4, <1>12, <2>1 DEF RestoreReset, Rotate, logVars
  <2>3. QED
    BY <1>12, <2>2 DEF RestoreReset, Rotate, subVars, handlerVars
<1>13. ASSUME NEW c \in Chans, HandlerFlush(c) PROVE Carried(E)'
  BY <1>5, <1>13 DEF HandlerFlush, subVars
<1>14. ASSUME NEW c \in Chans, HandlerRead(c) PROVE Carried(E)'
  <2>1. PICK n \in Len(file)..Len(Log) : \E pos \in 1..(n + 1) :
               hread' = [hread EXCEPT ![c] = SubSeq(Log, pos, n)]
    BY <1>14 DEF HandlerRead
  <2>2. Len(file) \in Nat /\ Len(Log) \in Nat
    BY <1>1
  <2>3. \A pos \in 1..(n + 1) : SubSeq(Log, pos, n) \in Seq(E)
    BY <1>1, <2>2, SubSeqProperties
  <2>4. hread' \in [Chans -> Seq(E)]
    BY <2>1, <2>3
  <2>5. QED
    BY <1>14, <2>4 DEF HandlerRead, binlogVars
<1>24. ASSUME NEW c \in Chans, HandlerCheck(c) PROVE Carried(E)'
  BY <1>4, <1>24 DEF HandlerCheck, binlogVars
<1>25. ASSUME NEW c \in Chans, HandlerSend(c) PROVE Carried(E)'
  <2>1. hread[c] # <<>> /\ hread[c] \in Seq(E) /\ net[c] \in Seq(E)
    BY <1>25 DEF HandlerSend
  <2>2. Tail(hread[c]) \in Seq(E) /\ Append(net[c], Head(hread[c])) \in Seq(E)
    BY <2>1
  <2>3. hread' \in [Chans -> Seq(E)] /\ net' \in [Chans -> Seq(E)]
    BY <1>25, <2>2 DEF HandlerSend
  <2>4. QED
    BY <1>25, <2>3 DEF HandlerSend, binlogVars
<1>15. ASSUME NEW c \in Chans, HandlerSubscribe(c) PROVE Carried(E)'
  BY <1>4, <1>15 DEF HandlerSubscribe, Subscribe, logVars
<1>16. ASSUME NEW c \in Chans, HandlerTail(c) PROVE Carried(E)'
  <2>1. chan[c] # <<>> /\ chan[c] \in Seq(E)
    BY <1>16 DEF HandlerTail, Receive
  <2>2. <<Head(chan[c])>> \in Seq(E) /\ Tail(chan[c]) \in Seq(E)
    BY <2>1
  <2>3. Sent(c, <<Head(chan[c])>>) \in Seq(E)
    BY <1>6, <2>2
  <2>4. chan' \in [Chans -> Seq(E)] /\ net' \in [Chans -> Seq(E)]
    BY <1>16, <2>2, <2>3 DEF HandlerTail, Receive
  <2>5. QED
    BY <1>16, <2>4 DEF HandlerTail, Receive, logVars
<1>17. ASSUME NEW c \in Chans, HandlerEnd(c) PROVE Carried(E)'
  BY <1>4, <1>17 DEF HandlerEnd, Unsubscribe, logVars, binlogVars
<1>18. CASE Recv \/ RecvSkip
  <2>1. cstream \in Chans /\ net[cstream] # <<>> /\ net[cstream] \in Seq(E)
    BY <1>18 DEF Recv, RecvSkip, TypeOK
  <2>2. Tail(net[cstream]) \in Seq(E) /\ net' = [net EXCEPT ![cstream] = Tail(net[cstream])]
    BY <1>18, <2>1 DEF Recv, RecvSkip
  <2>3. QED
    BY <1>18, <2>2 DEF Recv, RecvSkip, binlogVars
<1>19. CASE Break \/ FollowerRestart
  BY <1>4, <1>19 DEF Break, FollowerRestart, binlogVars
<1>20. CASE LeaderCrash
  <2>1. file' \in Seq(E)
    BY <1>3, <1>20 DEF LeaderCrash, Crash
  <2>2. QED
    BY <1>4, <1>20, <2>1 DEF LeaderCrash, Crash, Forget
<1>21. CASE LeaderStart
  BY <1>21 DEF LeaderStart, Open, subVars, handlerVars
<1>22. CASE Next
  BY <1>7, <1>8, <1>9, <1>10, <1>11, <1>12, <1>13, <1>14, <1>15, <1>16, <1>17, <1>18, <1>19,
     <1>20, <1>21, <1>22, <1>24, <1>25
     DEF Next, Commit, RestoreSwap, RestoreError, Connect, SnapshotLSN, SnapshotView,
         SnapshotEnd, StreamEnd, Acknowledge, binlogVars, handlerVars
<1>23. QED
  BY <1>7, <1>22 DEF vars, binlogVars, handlerVars
-----------------------------------------------------------------------------
\* A transaction's operations carry the keys it wrote and the number of its commit.
LEMMA CommitOps ==
  ASSUME TypeOK, NEW ks \in Footprints, commits < MaxCommits
  PROVE  LET ops == [i \in 1..Len(ks) |-> [key |-> ks[i], ver |-> commits + 1]]
         IN  /\ ops \in Seq(Ops) /\ Len(ops) = Len(ks)
             /\ \A i \in 1..Len(ks) : ks[i] \in Keys
<1> DEFINE ops == [i \in 1..Len(ks) |-> [key |-> ks[i], ver |-> commits + 1]]
<1>1. ks \in Seq(Keys)
  BY FootprintsAssumption
<1>2. Len(ks) \in Nat /\ \A i \in 1..Len(ks) : ks[i] \in Keys
  BY <1>1
<1>3. commits + 1 \in 1..MaxCommits
  BY BaseAssumption DEF TypeOK
<1>4. \A i \in 1..Len(ks) : [key |-> ks[i], ver |-> commits + 1] \in Ops
  BY <1>2, <1>3, OpsAssumption
<1>5. ops \in [1..Len(ks) -> Ops]
  BY <1>4
<1>6. ops \in Seq(Ops) /\ Len(ops) = Len(ks)
  BY <1>2, <1>5, IsASeq, LenProperties
<1>7. QED
  BY <1>2, <1>6

\* No snapshot is a snapshot.
LEMMA NoSnapTyped ==
  NoSnap \in [at : {"none", "lsn", "view"}, lsn : Nat, db : [Keys -> Nat]]
BY DEF NoSnap

\* Only RequestSnapshot and a crash touch a snapshot.
LEMMA SnapshotSteps ==
  ASSUME [Next]_vars
  PROVE  UNCHANGED snap \/ SnapshotLSN \/ SnapshotView \/ SnapshotEnd \/ LeaderCrash
<1>1. CASE Next
  BY <1>1
     DEF Next, Commit, FlushTo, Notify, LeaderFlush, LeaderDiskError, RestoreSwap,
         RestoreError, RestoreReset, HandlerFlush, HandlerRead, HandlerCheck, HandlerSend,
         HandlerSubscribe, HandlerTail, HandlerEnd, Connect, Recv, RecvSkip, StreamEnd, Break,
         FollowerRestart, Acknowledge, LeaderStart
<1>2. QED
  BY <1>1 DEF vars

\* Every action keeps the types of leader, streams and follower.
LEMMA ReplicationTypeStep == TypeOK /\ [Next]_vars => TypeOK'
<1> SUFFICES ASSUME TypeOK, [Next]_vars PROVE TypeOK'
  OBVIOUS
<1>1. BinlogTypeOK'
  BY BinlogStep, TypeStep, AppendTyped DEF TypeOK
<1>2. Carried(Entry)'
  <2>1. Carried(Entry)
    BY DEF TypeOK, BinlogTypeOK, Carried
  <2>2. \A w \in Writers : Stamp(pend[w], lsn) \in Seq(Entry)
    BY StampFacts DEF TypeOK, BinlogTypeOK
  <2>3. QED
    BY <2>1, <2>2, CarriedStep
<1>3. net' \in [Chans -> Seq(Entry)] /\ hread' \in [Chans -> Seq(Entry)]
  BY <1>2 DEF Carried
<1> DEFINE LeaderTyped ==
             /\ leader \in [Keys -> Nat] /\ commits \in Nat
             /\ dbOpen \in BOOLEAN /\ restoring \in BOOLEAN /\ restores \in Nat
             /\ pend \in [Writers -> Seq(Ops)]
           StreamTyped ==
             /\ hpc \in [Chans -> {"idle", "flush", "read", "check", "send", "tail"}]
             /\ hfrom \in [Chans -> Nat]
             /\ status \in [Chans -> {"open", "eof", "tooold"}]
             /\ listed \in Nat \cup {None}
           FollowerTyped ==
             /\ fdb \in [Keys -> Nat] /\ lastApplied \in Nat /\ skips \in Nat
             /\ cstream \in Chans \cup {None}
           SnapTyped == snap \in [at : {"none", "lsn", "view"}, lsn : Nat, db : [Keys -> Nat]]
<1>4. LeaderTyped /\ StreamTyped /\ FollowerTyped /\ SnapTyped
  BY DEF TypeOK
<1>5. LeaderTyped'
  <2>1. ASSUME UNCHANGED leaderVars PROVE LeaderTyped'
    BY <1>4, <2>1 DEF leaderVars
  <2>2. ASSUME NEW w \in Writers, NEW ks \in Footprints, Commit(w, ks) PROVE LeaderTyped'
    <3>1. commits < MaxCommits
      BY <2>2 DEF Commit
    <3> DEFINE ops == [i \in 1..Len(ks) |-> [key |-> ks[i], ver |-> commits + 1]]
    <3>2. ops \in Seq(Ops)
      BY <3>1, CommitOps
    <3>3. pend' = [pend EXCEPT ![w] = ops]
      BY <2>2 DEF Commit
    <3> HIDE DEF ops
    <3>4. pend' \in [Writers -> Seq(Ops)]
      BY <1>4, <3>2, <3>3
    <3>5. QED
      BY <1>4, <2>2, <3>4 DEF Commit
  <2>3. ASSUME NEW w \in Writers, FlushTo(w) PROVE LeaderTyped'
    <3>1. <<>> \in Seq(Ops)
      OBVIOUS
    <3>2. QED
      BY <1>4, <2>3, <3>1 DEF FlushTo
  <2>4. CASE RestoreSwap
    BY <1>4, <2>4 DEF RestoreSwap
  <2>5. CASE RestoreError
    <3>1. UNCHANGED <<leader, commits, restoring, pend>> /\ restores' = restores + 1
      BY <2>5 DEF RestoreError
    <3>2. dbOpen' \in BOOLEAN
      <4>1. dbOpen' = FALSE
        BY <2>5 DEF RestoreError
      <4>2. QED
        BY <4>1, Zenon
    <3>3. QED
      BY <1>4, <3>1, <3>2
  <2>6. CASE RestoreReset
    BY <1>4, <2>6 DEF RestoreReset
  <2>7. CASE LeaderCrash
    <3>1. <<>> \in Seq(Ops)
      OBVIOUS
    <3>2. QED
      BY <1>4, <2>7, <3>1 DEF LeaderCrash
  <2>8. CASE LeaderStart
    BY <1>4, <2>8 DEF LeaderStart
  <2> HIDE DEF LeaderTyped
  <2>9. CASE Next
    BY <2>1, <2>2, <2>3, <2>4, <2>5, <2>6, <2>7, <2>8, <2>9
       DEF Next, Notify, LeaderFlush, LeaderDiskError, HandlerFlush, HandlerRead, HandlerCheck,
           HandlerSend, HandlerSubscribe, HandlerTail, HandlerEnd, Connect, SnapshotLSN,
           SnapshotView, SnapshotEnd, Recv, RecvSkip, StreamEnd, Break, FollowerRestart,
           Acknowledge
  <2>10. QED
    BY <2>1, <2>9 DEF vars
<1>6. StreamTyped'
  <2>1. ASSUME UNCHANGED <<hpc, hfrom, status, listed>> PROVE StreamTyped'
    BY <1>4, <2>1
  <2>2. ASSUME NEW c \in Chans, HandlerFlush(c) PROVE StreamTyped'
    BY <1>4, <2>2 DEF HandlerFlush
  <2>3. ASSUME NEW c \in Chans, HandlerRead(c) PROVE StreamTyped'
    <3>1. hpc' = [hpc EXCEPT ![c] = "check"] /\ UNCHANGED <<hfrom, status, listed>>
      BY <2>3 DEF HandlerRead
    <3>2. QED
      BY <1>4, <3>1
  <2>11. ASSUME NEW c \in Chans, HandlerCheck(c) PROVE StreamTyped'
    BY <1>4, <2>11 DEF HandlerCheck
  <2>4. ASSUME NEW c \in Chans, HandlerSubscribe(c) PROVE StreamTyped'
    BY <1>4, <2>4 DEF HandlerSubscribe
  <2>5. ASSUME NEW c \in Chans, HandlerEnd(c) PROVE StreamTyped'
    BY <1>4, <2>5 DEF HandlerEnd
  <2>6. ASSUME NEW c \in Chans, Connect(c) PROVE StreamTyped'
    BY <1>4, <2>6 DEF Connect
  <2>7. CASE Acknowledge
    BY <1>4, <2>7 DEF Acknowledge
  <2>8. CASE LeaderCrash
    BY <1>4, <2>8 DEF LeaderCrash
  <2> HIDE DEF StreamTyped
  <2>9. CASE Next
    BY <2>1, <2>2, <2>3, <2>4, <2>5, <2>6, <2>7, <2>8, <2>9, <2>11
       DEF Next, Commit, FlushTo, Notify, LeaderFlush, LeaderDiskError, RestoreSwap,
           RestoreError, RestoreReset, HandlerSend, HandlerTail, SnapshotLSN, SnapshotView,
           SnapshotEnd, Recv, RecvSkip, StreamEnd, Break, FollowerRestart, LeaderStart,
           handlerVars
  <2>10. QED
    BY <2>1, <2>9 DEF vars, handlerVars
<1>7. FollowerTyped'
  <2>1. ASSUME UNCHANGED followerVars PROVE FollowerTyped'
    BY <1>4, <2>1 DEF followerVars
  <2>2. ASSUME NEW c \in Chans, Connect(c) PROVE FollowerTyped'
    BY <1>4, <2>2 DEF Connect
  <2>3. CASE Recv
    <3>1. cstream \in Chans /\ net[cstream] \in Seq(Entry) /\ net[cstream] # <<>>
      BY <1>4, <2>3 DEF Recv, TypeOK
    <3>2. Head(net[cstream]) \in Entry
      BY <3>1
    <3>3. /\ Head(net[cstream]).lsn \in Nat
          /\ Head(net[cstream]).op.key \in Keys /\ Head(net[cstream]).op.ver \in Nat
      BY <3>2, OpsAssumption DEF Entry
    <3>4. QED
      BY <1>4, <2>3, <3>3 DEF Recv
  <2>4. CASE RecvSkip
    BY <1>4, <2>4 DEF RecvSkip
  <2>5. CASE StreamEnd \/ Break \/ FollowerRestart \/ LeaderCrash
    <3>1. cstream' = None /\ UNCHANGED <<fdb, skips>> /\ lastApplied' \in {0, lastApplied}
      BY <2>5 DEF StreamEnd, Break, FollowerRestart, LeaderCrash
    <3>2. QED
      BY <1>4, <3>1
  <2> HIDE DEF FollowerTyped
  <2>6. CASE Next
    BY <2>1, <2>2, <2>3, <2>4, <2>5, <2>6
       DEF Next, Commit, FlushTo, Notify, LeaderFlush, LeaderDiskError, RestoreSwap,
           RestoreError, RestoreReset, HandlerFlush, HandlerRead, HandlerCheck, HandlerSend,
           HandlerSubscribe, HandlerTail, HandlerEnd, SnapshotLSN, SnapshotView, SnapshotEnd,
           LeaderStart, Acknowledge
  <2>7. QED
    BY <2>1, <2>6 DEF vars
<1>8. SnapTyped'
  <2>1. CASE UNCHANGED snap
    BY <1>4, <2>1
  <2>2. CASE SnapshotEnd \/ LeaderCrash
    BY <2>2, NoSnapTyped DEF SnapshotEnd, LeaderCrash
  <2>3. CASE SnapshotLSN
    <3>1. lsn \in Nat
      BY DEF TypeOK, BinlogTypeOK
    <3>2. snap' = [at |-> "lsn", lsn |-> lsn, db |-> snap.db]
      BY <1>4, <2>3 DEF SnapshotLSN
    <3>3. QED
      BY <1>4, <3>1, <3>2
  <2>4. CASE SnapshotView
    <3>1. snap' = [at |-> "view", lsn |-> snap.lsn, db |-> leader]
      BY <1>4, <2>4 DEF SnapshotView
    <3>2. QED
      BY <1>4, <3>1
  <2>5. QED
    BY <2>1, <2>2, <2>3, <2>4, SnapshotSteps
<1>9. QED
  BY <1>1, <1>3, <1>5, <1>6, <1>7, <1>8 DEF TypeOK
\* A leader and a follower that have just started have their types.
LEMMA ReplicationTypeInit == Init => TypeOK
<1> SUFFICES ASSUME Init PROVE TypeOK
  OBVIOUS
<1>1. BinlogTypeOK
  BY TypeInit DEF Init
<1>2. leader \in [Keys -> Nat] /\ commits \in Nat
  BY BaseAssumption DEF Init
<1>3. <<>> \in Seq(Ops) /\ <<>> \in Seq(Entry)
  OBVIOUS
<1>4. /\ pend \in [Writers -> Seq(Ops)] /\ net \in [Chans -> Seq(Entry)]
      /\ hread \in [Chans -> Seq(Entry)]
  BY <1>3 DEF Init
<1>5. /\ hpc \in [Chans -> {"idle", "flush", "read", "check", "send", "tail"}]
      /\ hfrom \in [Chans -> Nat] /\ status \in [Chans -> {"open", "eof", "tooold"}]
  BY DEF Init
<1>6. dbOpen \in BOOLEAN /\ restoring \in BOOLEAN
  BY Zenon DEF Init
<1>7. /\ restores \in Nat /\ listed \in Nat \cup {None} /\ fdb \in [Keys -> Nat]
      /\ lastApplied \in Nat /\ skips \in Nat /\ cstream \in Chans \cup {None}
  BY DEF Init
<1>8. snap \in [at : {"none", "lsn", "view"}, lsn : Nat, db : [Keys -> Nat]]
  BY NoSnapTyped DEF Init
<1>9. QED
  BY <1>1, <1>2, <1>4, <1>5, <1>6, <1>7, <1>8 DEF TypeOK

\* Leader, streams and follower keep their types, whatever is lost, cut or restarted.
THEOREM ReplicationTyped == Spec => []TypeOK
BY ReplicationTypeInit, ReplicationTypeStep, PTL DEF Spec

-----------------------------------------------------------------------------
\* The leader's log inside replication is the log the Binlog module is about.
LeaderLogInv == TypeOK /\ BinlogInv /\ RegisteredIsOpen

\* In the replicating leader, with its concurrent writers, stream handlers, restores and
\* crashes, the log stays consecutive and complete for its readers, and no entry is sent on
\* a closed channel.
THEOREM LeaderLogSafe ==
  Spec => [](LogConsecutive /\ OldestIsFirst /\ ReadFromComplete /\ RegisteredIsOpen)
<1>1. Init => LeaderLogInv
  <2>1. Init => BinlogInv
    BY InvInit DEF Init
  <2>2. Init => RegisteredIsOpen
    BY DEF Init, BinlogInit, RegisteredIsOpen
  <2>3. Init => TypeOK
    BY ReplicationTypeInit
  <2>4. QED
    BY <2>1, <2>2, <2>3 DEF LeaderLogInv
<1>2. LeaderLogInv /\ [Next]_vars => LeaderLogInv'
  <2> SUFFICES ASSUME LeaderLogInv, [Next]_vars PROVE LeaderLogInv'
    OBVIOUS
  <2>1. TypeOK /\ TypeOK' /\ BinlogTypeOK /\ BinlogTypeOK'
    BY ReplicationTypeStep DEF LeaderLogInv, TypeOK
  <2>2. CASE [BinlogNext]_binlogVars
    BY <2>1, <2>2, InvStep, RegisteredStep DEF LeaderLogInv
  <2>3. ASSUME NEW w \in Writers, NEW ops \in Seq(Ops), AppendBatch(w, ops)
        PROVE  LeaderLogInv'
    <3>1. BinlogInv'
      BY <2>1, <2>3, AppendStep DEF LeaderLogInv
    <3>2. RegisteredIsOpen'
      BY <2>3 DEF AppendBatch, subVars, RegisteredIsOpen, LeaderLogInv
    <3>3. QED
      BY <2>1, <3>1, <3>2 DEF LeaderLogInv
  <2>4. QED
    BY <2>1, <2>2, <2>3, BinlogStep
<1>3. LeaderLogInv => LogConsecutive /\ OldestIsFirst /\ ReadFromComplete /\ RegisteredIsOpen
  BY InvComplete DEF LeaderLogInv, BinlogInv
<1>4. QED
  BY <1>1, <1>2, <1>3, PTL DEF Spec
-----------------------------------------------------------------------------
\* Entries and operations whose transaction the leader has committed, and whose value it
\* still has or has replaced by a newer one.
Committed == {e \in Entry : e.op.ver <= leader[e.op.key]}
CommittedOps == {o \in Ops : o.ver <= leader[o.key]}

\* FollowerNotAhead is not inductive: it needs that nothing anywhere between the leader's
\* database and the follower's is ahead of the leader.
OnlyCommitted ==
  /\ Carried(Committed)
  /\ pend \in [Writers -> Seq(CommittedOps)]
  /\ \A k \in Keys : fdb[k] <= leader[k] /\ snap.db[k] <= leader[k] /\ leader[k] <= commits

\* A sequence over a set is one over every larger set.
LEMMA SeqMonotone ==
  ASSUME NEW S, NEW T, S \subseteq T, NEW s \in Seq(S)
  PROVE  s \in Seq(T)
<1>1. Len(s) \in Nat /\ s \in [1..Len(s) -> S]
  BY LenProperties
<1>2. s \in [1..Len(s) -> T]
  BY <1>1
<1>3. QED
  BY <1>1, <1>2, IsASeq

\* Commits and restores only make values newer.
LEMMA LeaderGrows ==
  ASSUME TypeOK, OnlyCommitted, [Next]_vars
  PROVE  /\ \A k \in Keys : leader[k] <= leader'[k] /\ leader'[k] <= commits'
         /\ Committed \subseteq Committed' /\ CommittedOps \subseteq CommittedOps'
<1>1. \A k \in Keys : leader[k] \in Nat /\ leader[k] <= commits /\ commits \in Nat
  BY DEF TypeOK, OnlyCommitted
<1>2. \A k \in Keys : leader[k] <= leader'[k] /\ leader'[k] <= commits'
  <2>1. CASE UNCHANGED <<leader, commits>>
    BY <1>1, <2>1
  <2>2. ASSUME NEW w \in Writers, NEW ks \in Footprints, Commit(w, ks)
        PROVE  \A k \in Keys : leader[k] <= leader'[k] /\ leader'[k] <= commits'
    BY <1>1, <2>2 DEF Commit
  <2>3. CASE RestoreSwap
    BY <1>1, <2>3 DEF RestoreSwap
  <2>4. CASE Next
    BY <2>1, <2>2, <2>3, <2>4
       DEF Next, FlushTo, Notify, LeaderFlush, LeaderDiskError, RestoreError, RestoreReset,
           HandlerFlush, HandlerRead, HandlerCheck, HandlerSend, HandlerSubscribe, HandlerTail,
           HandlerEnd, Connect, SnapshotLSN, SnapshotView, SnapshotEnd, Recv, RecvSkip,
           StreamEnd, Break, FollowerRestart, Acknowledge, LeaderCrash, LeaderStart, leaderVars
  <2>5. QED
    BY <2>1, <2>4 DEF vars, leaderVars
<1>3. \A k \in Keys : leader'[k] \in Nat
  BY ReplicationTypeStep DEF TypeOK
<1>4. \A o \in Ops : o.key \in Keys /\ o.ver \in Nat
  BY OpsAssumption
<1>5. \A o \in Ops : o.ver <= leader[o.key] => o.ver <= leader'[o.key]
  BY <1>1, <1>2, <1>3, <1>4
<1>6. QED
  BY <1>2, <1>5 DEF Committed, CommittedOps, Entry

\* What FlushTo appends is committed: it runs after the transaction.
LEMMA StampCommitted ==
  ASSUME TypeOK, OnlyCommitted, NEW w \in Writers
  PROVE  Stamp(pend[w], lsn) \in Seq(Committed)
<1>1. pend[w] \in Seq(Ops) /\ pend[w] \in Seq(CommittedOps) /\ lsn \in Nat
  BY DEF TypeOK, BinlogTypeOK, OnlyCommitted
<1>2. Len(pend[w]) \in Nat /\ \A i \in 1..Len(pend[w]) : pend[w][i] \in CommittedOps
  BY <1>1
<1>3. \A i \in 1..Len(pend[w]) : [lsn |-> lsn + i, op |-> pend[w][i]] \in Committed
  BY <1>1, <1>2 DEF Committed, CommittedOps, Entry
<1>4. Stamp(pend[w], lsn) \in [1..Len(pend[w]) -> Committed]
  BY <1>3 DEF Stamp
<1>5. QED
  BY <1>2, <1>4, IsASeq

\* Every action keeps all that is between the two databases committed.
LEMMA OnlyCommittedStep ==
  ASSUME TypeOK, OnlyCommitted, [Next]_vars
  PROVE  OnlyCommitted'
<1>1. TypeOK'
  BY ReplicationTypeStep
<1>2. Carried(Committed)'
  <2>1. PICK E : E = Committed
    OBVIOUS
  <2>2. Carried(E) /\ \A w \in Writers : Stamp(pend[w], lsn) \in Seq(E)
    BY <2>1, StampCommitted DEF OnlyCommitted, Carried
  <2>3. Carried(E)'
    BY <2>2, CarriedStep
  <2>4. Seq(E) \subseteq Seq(Committed')
    BY <2>1, LeaderGrows, SeqMonotone
  <2>5. QED
    BY <2>3, <2>4 DEF Carried
<1>3. pend' \in [Writers -> Seq(CommittedOps')]
  <2>1. Seq(CommittedOps) \subseteq Seq(CommittedOps')
    BY LeaderGrows, SeqMonotone
  <2>2. pend \in [Writers -> Seq(CommittedOps)] /\ <<>> \in Seq(CommittedOps)
    BY DEF OnlyCommitted
  <2>3. CASE UNCHANGED pend
    BY <2>1, <2>2, <2>3
  <2>4. ASSUME NEW w \in Writers, NEW ks \in Footprints, Commit(w, ks)
        PROVE  pend' \in [Writers -> Seq(CommittedOps')]
    <3> DEFINE ops == [i \in 1..Len(ks) |-> [key |-> ks[i], ver |-> commits + 1]]
    <3>1. ops \in Seq(Ops) /\ Len(ops) = Len(ks) /\ \A i \in 1..Len(ks) : ks[i] \in Keys
      BY <2>4, CommitOps DEF Commit
    <3>2. \A i \in 1..Len(ks) : leader'[ks[i]] = commits + 1
      BY <2>4, <3>1 DEF Commit
    <3>3. Len(ops) \in Nat /\ \A i \in 1..Len(ks) : ops[i] \in Ops
      BY <3>1
    <3>4. commits + 1 <= commits + 1
      BY DEF TypeOK
    <3>5. \A i \in 1..Len(ks) : ops[i] \in CommittedOps'
      BY <3>2, <3>3, <3>4 DEF CommittedOps
    <3>6. ops \in [1..Len(ks) -> CommittedOps']
      BY <3>5
    <3>7. ops \in Seq(CommittedOps')
      BY <3>1, <3>3, <3>6, IsASeq
    <3>8. pend' = [pend EXCEPT ![w] = ops]
      BY <2>4 DEF Commit
    <3> HIDE DEF ops
    <3>9. QED
      BY <2>1, <2>2, <3>7, <3>8
  <2>5. ASSUME NEW w \in Writers, FlushTo(w) PROVE pend' \in [Writers -> Seq(CommittedOps')]
    BY <2>1, <2>2, <2>5 DEF FlushTo
  <2>6. CASE LeaderCrash
    BY <2>1, <2>2, <2>6 DEF LeaderCrash
  <2>7. CASE Next
    BY <2>3, <2>4, <2>5, <2>6, <2>7
       DEF Next, Notify, LeaderFlush, LeaderDiskError, RestoreSwap, RestoreError, RestoreReset,
           HandlerFlush, HandlerRead, HandlerCheck, HandlerSend, HandlerSubscribe, HandlerTail,
           HandlerEnd, Connect, SnapshotLSN, SnapshotView, SnapshotEnd, Recv, RecvSkip,
           StreamEnd, Break, FollowerRestart, Acknowledge, LeaderStart, leaderVars
  <2>8. QED
    BY <2>3, <2>7 DEF vars, leaderVars
<1>4. \A k \in Keys : fdb'[k] <= leader'[k]
  <2>1. \A k \in Keys : fdb[k] <= leader'[k]
    <3>1. \A k \in Keys : leader[k] <= leader'[k]
      BY LeaderGrows
    <3>2. \A k \in Keys : fdb[k] \in Nat /\ leader[k] \in Nat /\ leader'[k] \in Nat
      BY <1>1 DEF TypeOK
    <3>3. QED
      BY <3>1, <3>2 DEF OnlyCommitted
  <2>2. CASE UNCHANGED fdb
    BY <2>1, <2>2
  <2>3. CASE Recv
    <3>1. cstream \in Chans /\ net[cstream] # <<>> /\ net[cstream] \in Seq(Committed)
      BY <2>3 DEF Recv, TypeOK, OnlyCommitted, Carried
    <3>2. Head(net[cstream]) \in Committed
      BY <3>1
    <3>3. Head(net[cstream]).op \in Ops
          /\ Head(net[cstream]).op.ver <= leader[Head(net[cstream]).op.key]
      BY <3>2 DEF Committed, Entry
    <3>4. leader' = leader
          /\ fdb' = [fdb EXCEPT ![Head(net[cstream]).op.key] = Head(net[cstream]).op.ver]
      BY <2>3 DEF Recv, leaderVars
    <3>5. QED
      BY <2>1, <3>3, <3>4 DEF TypeOK
  <2>4. CASE Next
    BY <2>2, <2>3, <2>4
       DEF Next, Commit, FlushTo, Notify, LeaderFlush, LeaderDiskError, RestoreSwap,
           RestoreError, RestoreReset, HandlerFlush, HandlerRead, HandlerCheck, HandlerSend,
           HandlerSubscribe, HandlerTail, HandlerEnd, Connect, SnapshotLSN, SnapshotView,
           SnapshotEnd, RecvSkip, StreamEnd, Break, FollowerRestart, Acknowledge, LeaderCrash,
           LeaderStart, followerVars
  <2>5. QED
    BY <2>2, <2>4 DEF vars, followerVars
<1>5. \A k \in Keys : snap'.db[k] <= leader'[k]
  <2>1. \A k \in Keys : leader'[k] \in Nat /\ 0 <= leader'[k]
    BY <1>1 DEF TypeOK
  <2>2. CASE snap'.db = snap.db
    <3>1. \A k \in Keys : leader[k] <= leader'[k]
      BY LeaderGrows
    <3>2. \A k \in Keys : snap.db[k] \in Nat /\ leader[k] \in Nat /\ leader'[k] \in Nat
      BY <1>1 DEF TypeOK
    <3>3. QED
      BY <2>2, <3>1, <3>2 DEF OnlyCommitted
  <2>3. CASE snap'.db = NoSnap.db
    BY <2>1, <2>3 DEF NoSnap
  <2>4. CASE SnapshotView
    <3>1. snap'.db = leader /\ leader' = leader
      BY <2>4 DEF SnapshotView, TypeOK, leaderVars
    <3>2. QED
      BY <2>1, <3>1
  <2>5. CASE SnapshotLSN
    BY <2>2, <2>5 DEF SnapshotLSN, TypeOK
  <2>6. CASE SnapshotEnd \/ LeaderCrash
    BY <2>3, <2>6 DEF SnapshotEnd, LeaderCrash
  <2>7. QED
    BY <2>2, <2>4, <2>5, <2>6, SnapshotSteps
<1>6. QED
  BY <1>2, <1>3, <1>4, <1>5, LeaderGrows DEF OnlyCommitted
\* At the start nothing is on its way.
LEMMA OnlyCommittedInit == Init => OnlyCommitted
<1> SUFFICES ASSUME Init PROVE OnlyCommitted
  OBVIOUS
<1>1. <<>> \in Seq(Committed) /\ <<>> \in Seq(CommittedOps)
  OBVIOUS
<1>2. Carried(Committed)
  BY <1>1 DEF Init, BinlogInit, Carried
<1>3. pend \in [Writers -> Seq(CommittedOps)]
  BY <1>1 DEF Init
<1>4. \A k \in Keys : leader[k] \in 0..Base /\ commits = Base /\ fdb[k] = 0 /\ snap.db[k] = 0
  BY DEF Init, NoSnap
<1>5. QED
  BY <1>2, <1>3, <1>4, BaseAssumption DEF OnlyCommitted

\* No key of the follower is ever newer than the leader's, whatever is lost, repeated,
\* reordered or replayed after a crash.
THEOREM FollowerNeverAhead == Spec => []FollowerNotAhead
<1>1. OnlyCommitted => FollowerNotAhead
  BY DEF OnlyCommitted, FollowerNotAhead
<1>2. QED
  BY <1>1, OnlyCommittedInit, OnlyCommittedStep, ReplicationTyped, PTL DEF Spec

-----------------------------------------------------------------------------
\* Entries whose effect the snapshot holds, if its LSN says that it does.
Covered == {e \in Entry : e.lsn <= snap.lsn => e.op.ver <= snap.db[e.op.key]}

\* SnapshotCovers is not inductive: entries reach the log later than their commit, so what
\* is still on its way has to be covered too; and the LSN counter is not behind the
\* snapshot's LSN as long as the leader runs.
SnapshotSound ==
  /\ up # "up" => snap.at = "none"
  /\ snap.at \in {"lsn", "view"} => snap.lsn <= lsn
  /\ snap.at = "view" => Carried(Covered)

\* The LSN counter only goes back when the leader recovers its log, and the leader only
\* stops in a crash.
LEMMA CounterSteps ==
  ASSUME TypeOK, [Next]_vars
  PROVE  /\ up = "up" => lsn <= lsn'
         /\ up' # "up" => up # "up" \/ LeaderCrash
<1>1. lsn \in Nat
  BY DEF TypeOK, BinlogTypeOK
<1> DEFINE G == (up = "up" => lsn <= lsn') /\ (up' # "up" => up # "up" \/ LeaderCrash)
<1>2. ASSUME UNCHANGED <<up, lsn>> PROVE G
  BY <1>1, <1>2
<1>3. ASSUME NEW w \in Writers, FlushTo(w) PROVE G
  <2>1. pend[w] \in Seq(Ops)
    BY DEF TypeOK
  <2>2. Len(pend[w]) \in Nat
    BY <2>1
  <2>3. QED
    BY <1>1, <1>3, <2>2 DEF FlushTo, AppendBatch, AppendError
<1>4. CASE LeaderStart
  BY <1>4 DEF LeaderStart, Open
<1>5. CASE LeaderCrash
  <2>1. lsn' = lsn
    BY <1>5 DEF LeaderCrash, Crash
  <2>2. QED
    BY <1>1, <1>5, <2>1
<1>6. CASE RestoreReset
  BY <1>1, <1>6 DEF RestoreReset, Rotate, logVars
<1>7. CASE Next
  BY <1>2, <1>3, <1>4, <1>5, <1>6, <1>7
     DEF Next, Commit, Notify, NotifySubscribers, LeaderFlush, PeriodicFlush, LeaderDiskError,
         DiskError, RestoreSwap, RestoreError, HandlerFlush, HandlerRead, HandlerCheck,
         HandlerSend, HandlerSubscribe, Subscribe, HandlerTail, Receive, HandlerEnd,
         Unsubscribe, Connect, SnapshotLSN, SnapshotView, SnapshotEnd, Recv, RecvSkip,
         StreamEnd, Break, FollowerRestart, Acknowledge, logVars, binlogVars
<1>8. QED
  BY <1>2, <1>7 DEF vars, binlogVars

\* Every action keeps a snapshot in step with the log.
LEMMA SnapshotSoundStep ==
  ASSUME TypeOK, OnlyCommitted, SnapshotSound, [Next]_vars
  PROVE  SnapshotSound'
<1>1. TypeOK' /\ lsn \in Nat /\ lsn' \in Nat /\ snap.lsn \in Nat /\ snap'.lsn \in Nat
  BY ReplicationTypeStep DEF TypeOK, BinlogTypeOK
<1>2. NoSnap.at = "none"
  BY DEF NoSnap
<1>3. ASSUME up' # "up" PROVE snap'.at = "none"
  <2>1. CASE LeaderCrash
    BY <1>2, <2>1 DEF LeaderCrash
  <2>2. CASE up # "up" /\ ~LeaderCrash
    <3>1. snap.at = "none"
      BY <2>2 DEF SnapshotSound
    <3>2. ~SnapshotEnd /\ ~SnapshotLSN /\ ~SnapshotView
      BY <2>2, <3>1 DEF SnapshotEnd, SnapshotLSN, SnapshotView
    <3>3. QED
      BY <2>2, <3>1, <3>2, SnapshotSteps
  <2>3. QED
    BY <1>3, <2>1, <2>2, CounterSteps
<1>4. snap'.at = "none" \/ UNCHANGED snap \/ SnapshotLSN \/ SnapshotView
  <2>1. ASSUME SnapshotEnd \/ LeaderCrash PROVE snap' = NoSnap
    BY <2>1 DEF SnapshotEnd, LeaderCrash
  <2>2. QED
    BY <1>2, <2>1, SnapshotSteps
<1>5. ASSUME snap'.at \in {"lsn", "view"} PROVE snap'.lsn <= lsn'
  <2>1. CASE UNCHANGED snap
    <3>1. up = "up" /\ snap.lsn <= lsn
      BY <1>5, <2>1 DEF SnapshotSound
    <3>2. QED
      BY <1>1, <2>1, <3>1, CounterSteps
  <2>2. CASE SnapshotLSN
    <3>1. snap'.lsn = lsn /\ lsn' = lsn
      BY <2>2 DEF SnapshotLSN, TypeOK, binlogVars
    <3>2. QED
      BY <1>1, <3>1
  <2>3. CASE SnapshotView
    <3>1. snap'.lsn = snap.lsn /\ lsn' = lsn /\ snap.at = "lsn"
      BY <2>3 DEF SnapshotView, TypeOK, binlogVars
    <3>2. QED
      BY <1>1, <3>1 DEF SnapshotSound
  <2>4. QED
    BY <1>4, <1>5, <2>1, <2>2, <2>3
<1>6. ASSUME snap'.at = "view" PROVE Carried(Covered)'
  <2>1. CASE UNCHANGED snap
    <3>1. up = "up" /\ snap.lsn <= lsn /\ Carried(Covered)
      BY <1>6, <2>1 DEF SnapshotSound
    <3>2. PICK E : E = Covered
      OBVIOUS
    <3>3. ASSUME NEW w \in Writers PROVE Stamp(pend[w], lsn) \in Seq(E)
      <4>1. pend[w] \in Seq(Ops)
        BY DEF TypeOK
      <4>2. Len(pend[w]) \in Nat /\ \A i \in 1..Len(pend[w]) : pend[w][i] \in Ops
        BY <4>1
      <4>3. \A i \in 1..Len(pend[w]) : [lsn |-> lsn + i, op |-> pend[w][i]] \in Covered
        <5>1. \A i \in 1..Len(pend[w]) : lsn + i \in Nat /\ ~(lsn + i <= snap.lsn)
          BY <1>1, <3>1, <4>2
        <5>2. QED
          BY <4>2, <5>1 DEF Covered, Entry
      <4>4. Stamp(pend[w], lsn) \in [1..Len(pend[w]) -> E]
        BY <3>2, <4>3 DEF Stamp
      <4>5. QED
        BY <4>2, <4>4, IsASeq
    <3>4. Carried(E)
      BY <3>1, <3>2
    <3>5. Carried(E)'
      BY <3>3, <3>4, CarriedStep
    <3>6. Covered' = E
      BY <2>1, <3>2 DEF Covered
    <3>7. QED
      BY <3>5, <3>6 DEF Carried
  <2>2. CASE SnapshotView
    <3>1. snap'.db = leader /\ UNCHANGED <<file, writer, unsent, chan, hread, net>>
      BY <2>2 DEF SnapshotView, TypeOK, binlogVars, handlerVars
    <3>2. Committed \subseteq Covered'
      BY <3>1 DEF Committed, Covered
    <3>3. Seq(Committed) \subseteq Seq(Covered')
      BY <3>2, SeqMonotone
    <3>4. QED
      BY <3>1, <3>3 DEF OnlyCommitted, Carried
  <2>3. CASE SnapshotLSN
    BY <1>6, <2>3 DEF SnapshotLSN, TypeOK
  <2>4. QED
    BY <1>4, <1>6, <2>1, <2>2, <2>3
<1>7. QED
  BY <1>3, <1>5, <1>6 DEF SnapshotSound

\* A snapshot holds every logged entry up to its LSN, although the LSN is read outside the
\* transaction that copies the database and writers append after they commit.
THEOREM SnapshotIsCovering == Spec => []SnapshotCovers
<1>1. Init => OnlyCommitted /\ SnapshotSound
  <2>1. Init => up = "up" /\ snap.at = "none"
    BY DEF Init, BinlogInit, NoSnap
  <2>2. QED
    BY <2>1, OnlyCommittedInit DEF SnapshotSound
<1>2. TypeOK /\ SnapshotSound => SnapshotCovers
  <2> SUFFICES ASSUME TypeOK, SnapshotSound, snap.at = "view",
                      NEW i \in 1..Len(Log), Log[i].lsn <= snap.lsn
               PROVE  Log[i].op.ver <= snap.db[Log[i].op.key]
    BY DEF SnapshotCovers
  <2>1. file \in Seq(Covered) /\ writer \in Seq(Covered)
    BY DEF SnapshotSound, Carried
  <2>2. Log \in Seq(Covered)
    BY <2>1 DEF Log
  <2>3. Log[i] \in Covered
    BY <2>2
  <2>4. QED
    BY <2>3 DEF Covered
<1>3. QED
  BY <1>1, <1>2, OnlyCommittedStep, SnapshotSoundStep, ReplicationTyped, PTL DEF Spec

-----------------------------------------------------------------------------
\* A channel has a handler exactly while that handler tails the log.
TailsSubscribed == \A c \in Chans : handler[c] # None <=> hpc[c] = "tail"

\* Every action keeps handlers and subscriptions in step.
LEMMA TailsSubscribedStep ==
  ASSUME TypeOK, TailsSubscribed, [Next]_vars
  PROVE  TailsSubscribed'
<1> USE DEF TailsSubscribed
<1>1. handler \in [Chans -> Ids \cup {None}]
      /\ hpc \in [Chans -> {"idle", "flush", "read", "check", "send", "tail"}] /\ Follower # None
  BY NoneAssumption, FollowerAssumption DEF TypeOK, BinlogTypeOK
<1>2. ASSUME UNCHANGED <<handler, hpc>> PROVE TailsSubscribed'
  BY <1>2
<1>3. ASSUME NEW c \in Chans, HandlerFlush(c) PROVE TailsSubscribed'
  BY <1>1, <1>3 DEF HandlerFlush, subVars
<1>4. ASSUME NEW c \in Chans, HandlerRead(c) \/ HandlerCheck(c) PROVE TailsSubscribed'
  BY <1>1, <1>4 DEF HandlerRead, HandlerCheck, binlogVars
<1>5. ASSUME NEW c \in Chans, HandlerSubscribe(c) PROVE TailsSubscribed'
  BY <1>1, <1>5 DEF HandlerSubscribe, Subscribe
<1>6. ASSUME NEW c \in Chans, HandlerEnd(c) PROVE TailsSubscribed'
  BY <1>1, <1>6 DEF HandlerEnd, Unsubscribe, binlogVars
<1>7. ASSUME NEW c \in Chans, Connect(c) PROVE TailsSubscribed'
  BY <1>1, <1>7 DEF Connect, binlogVars
<1>8. CASE LeaderCrash
  BY <1>8 DEF LeaderCrash, Crash, Forget
<1> HIDE DEF TailsSubscribed
<1>9. CASE Next
  BY <1>2, <1>3, <1>4, <1>5, <1>6, <1>7, <1>8, <1>9
     DEF Next, Commit, FlushTo, AppendBatch, AppendError, Notify, NotifySubscribers,
         LeaderFlush, PeriodicFlush, LeaderDiskError, DiskError, RestoreSwap, RestoreError,
         RestoreReset, Rotate, HandlerSend, HandlerTail, Receive, SnapshotLSN, SnapshotView,
         SnapshotEnd, Recv, RecvSkip, StreamEnd, Break, FollowerRestart, Acknowledge,
         LeaderStart, Open, subVars, binlogVars, handlerVars
<1>10. QED
  BY <1>2, <1>9 DEF vars, binlogVars, handlerVars

\* Entries are only queued for a handler that tails: reconnecting, ending and refused
\* streams leave no registration behind.
THEOREM RegisteredHandlerTails == Spec => []RegisteredIsTailing
<1>1. Init => TailsSubscribed
  BY DEF Init, BinlogInit, TailsSubscribed
<1>2. TypeOK /\ TailsSubscribed /\ RegisteredIsOpen => RegisteredIsTailing
  <2> SUFFICES ASSUME TypeOK, TailsSubscribed, RegisteredIsOpen, subscribers[Follower] # None
               PROVE  hpc[subscribers[Follower]] = "tail"
    BY DEF RegisteredIsTailing
  <2>1. Follower \in Ids /\ Follower # None
    BY NoneAssumption, FollowerAssumption
  <2>2. subscribers[Follower] \in Chans /\ handler[subscribers[Follower]] = Follower
    BY <2>1 DEF TypeOK, BinlogTypeOK, RegisteredIsOpen
  <2>3. QED
    BY <2>1, <2>2 DEF TailsSubscribed
<1>3. QED
  BY <1>1, <1>2, TailsSubscribedStep, ReplicationTyped, LeaderLogSafe, PTL DEF Spec
=============================================================================
