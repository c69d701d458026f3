---------------------------- MODULE AbstractLog -----------------------------
(***************************************************************************)
(* What a replication log promises, without files, buffers or recovery.    *)
(*                                                                         *)
(* There are entries that will survive and entries that may not.  An       *)
(* append adds entries with the next LSNs to those that may not.  They are *)
(* settled together: some of them, the oldest ones first, join the         *)
(* surviving entries, the others are lost.  Apart from that the surviving  *)
(* entries only ever lose a front part: none is changed, reordered or      *)
(* slipped in.                                                             *)
(***************************************************************************)
EXTENDS Integers, Sequences

CONSTANTS
  Batches,  \* sequences of operations that can be appended together
  LastUsed  \* bound on LSNs

VARIABLES
  durable,  \* entries [lsn, op] that survive
  pending   \* entries behind them that may be lost

alogVars == <<durable, pending>>
Whole == durable \o pending

LogInit == durable = <<>> /\ pending = <<>>

\* The first LSN is free only while the log is empty.
LogAppend(ops) ==
  \E n \in 0..LastUsed :
    /\ Whole # <<>> => n = Whole[Len(Whole)].lsn
    /\ pending' = pending \o [i \in 1..Len(ops) |-> [lsn |-> n + i, op |-> ops[i]]]
    /\ durable' = durable

LogSettle ==
  /\ pending # <<>> /\ pending' = <<>>
  /\ \E n \in 0..Len(pending) : durable' = durable \o SubSeq(pending, 1, n)

LogTruncate ==
  /\ pending' = <<>>
  /\ \E n \in 1..(Len(Whole) + 1) : durable' = SubSeq(Whole, n, Len(Whole))

LogNext ==
  \/ \E ops \in Batches : LogAppend(ops)
  \/ LogSettle
  \/ LogTruncate

LogSafety == LogInit /\ [][LogNext]_alogVars
LogSpec == LogSafety /\ WF_alogVars(LogSettle)
=============================================================================
