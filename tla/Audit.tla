------------------------------- MODULE Audit --------------------------------
(***************************************************************************)
(* The audit trail: internal/audit/audit.go and exporter.go.               *)
(*                                                                         *)
(* Handlers record events in a channel without ever waiting; a writer      *)
(* collects them into batches, stores a batch in one transaction and hands *)
(* its events to the exporter, which queues them, again without waiting,   *)
(* for a goroutine that delivers them.  A trimmer deletes old events.      *)
(* Stop closes stopCh, waits for the writer to drain the channel, then     *)
(* closes the exporter, which drains its own.                              *)
(*                                                                         *)
(* An event is recorded once; Stamps gives its time, which events of       *)
(* concurrent handlers may share.  A batch numbers its events from its own *)
(* sequence number on, so the numbers of consecutive batches overlap, and  *)
(* an event may be stored over one of the same time.  One exporter stands  *)
(* for any number: they share nothing.                                     *)
(***************************************************************************)
EXTENDS Integers, Sequences, FiniteSets

CONSTANTS
  Events,       \* audit events
  Stamps,       \* [Events -> time of the event]
  ChanCap,      \* capacity of a.ch
  BatchCap,     \* events after which the writer flushes (64)
  ExCap,        \* bufSize of the exporter
  MaxFlushFails \* bound on flushes that fail

ASSUME StampsAssumption == Stamps \in [Events -> Nat]
ASSUME AuditCapsAssumption == {ChanCap, BatchCap, ExCap} \subseteq Nat \ {0}

VARIABLES
  recorded,  \* events passed to Record
  ach,       \* a.ch
  batch,     \* the writer's batch
  wpc,       \* the writer: "loop", "drain" (stopCh seen), "fan", "fandrain", "done"
  fanned,    \* events of the batch handed to the exporter
  sequence,  \* the sequence number of the bucket
  stored,    \* bucket audit: records [ts, seq, ev], one per key <<ts, seq>>
  cutoff,    \* the latest time the trimmer has purged up to
  dropped,   \* events counted in a.dropped
  lost,      \* events of batches that could not be stored
  exch, exdropped, delivered, undelivered,  \* the exporter's channel and counters
  expc,      \* the exporter's goroutine: "run", "done"
  phase,     \* Stop: "up", "stopping", "closing", "stopped"
  flushFails

auditVars == <<recorded, ach, batch, wpc, fanned, sequence, stored, cutoff, dropped, lost,
               exch, exdropped, delivered, undelivered, expc, phase, flushFails>>
exVars == <<exch, exdropped, delivered, undelivered, expc>>

AuditInit ==
  /\ recorded = {} /\ ach = <<>> /\ batch = <<>> /\ wpc = "loop" /\ fanned = 0
  /\ sequence = 0 /\ stored = {} /\ cutoff = 0 /\ dropped = {} /\ lost = {}
  /\ exch = <<>> /\ exdropped = {} /\ delivered = {} /\ undelivered = {} /\ expc = "run"
  /\ phase = "up" /\ flushFails = 0

Elems(s) == {s[i] : i \in DOMAIN s}

-----------------------------------------------------------------------------
\* Record: a full channel drops the event and counts it.
RecordEvent(ev) ==
  /\ ev \notin recorded /\ recorded' = recorded \cup {ev}
  /\ IF Len(ach) < ChanCap THEN ach' = Append(ach, ev) /\ UNCHANGED dropped
     ELSE dropped' = dropped \cup {ev} /\ UNCHANGED ach
  /\ UNCHANGED <<batch, wpc, fanned, sequence, stored, cutoff, lost, exVars, phase, flushFails>>

\* writer: the next event; a batch that is full is flushed before anything else.
WriterTake ==
  /\ ach # <<>>
  /\ (wpc = "loop" /\ Len(batch) < BatchCap) \/ wpc = "drain"
  /\ batch' = Append(batch, Head(ach)) /\ ach' = Tail(ach)
  /\ UNCHANGED <<recorded, wpc, fanned, sequence, stored, cutoff, dropped, lost, exVars, phase, flushFails>>

\* The writer sees that stopCh is closed, and drains the channel.
WriterStop ==
  /\ wpc = "loop" /\ phase # "up" /\ Len(batch) < BatchCap
  /\ wpc' = "drain"
  /\ UNCHANGED <<recorded, ach, batch, fanned, sequence, stored, cutoff, dropped, lost, exVars, phase, flushFails>>

\* auditKey: a batch counts on from the number it drew.
Keyed(s, es) == {[ts |-> Stamps[es[i]], seq |-> s + i - 1, ev |-> es[i]] : i \in DOMAIN es}

\* Put: a record under a key that is taken replaces what is there.
PutAll(old, new) == {r \in old : ~\E n \in new : n.ts = r.ts /\ n.seq = r.seq} \cup new

\* flush when the ticker fires, the batch is full or the channel is drained: the batch is
\* stored in one transaction ...
FlushReady == (wpc = "loop" /\ batch # <<>>) \/ (wpc = "drain" /\ ach = <<>> /\ batch # <<>>)

FlushBatch ==
  /\ FlushReady
  /\ sequence' = sequence + 1
  /\ stored' = PutAll(stored, Keyed(sequence + 1, batch))
  /\ wpc' = IF wpc = "loop" THEN "fan" ELSE "fandrain"
  /\ UNCHANGED <<recorded, ach, batch, fanned, cutoff, dropped, lost, exVars, phase, flushFails>>

\* ... or is gone when the transaction fails ...
FlushFails ==
  /\ FlushReady /\ flushFails < MaxFlushFails /\ flushFails' = flushFails + 1
  /\ lost' = lost \cup Elems(batch) /\ batch' = <<>>
  /\ wpc' = IF wpc = "loop" THEN "loop" ELSE "done"
  /\ UNCHANGED <<recorded, ach, fanned, sequence, stored, cutoff, dropped, exVars, phase>>

\* ... and after it fanOut hands each event to the exporter (pushOrDrop).
FanOut ==
  /\ wpc \in {"fan", "fandrain"} /\ fanned < Len(batch)
  /\ fanned' = fanned + 1
  /\ LET ev == batch[fanned + 1] IN
       IF Len(exch) < ExCap THEN exch' = Append(exch, ev) /\ UNCHANGED exdropped
       ELSE exdropped' = exdropped \cup {ev} /\ UNCHANGED exch
  /\ UNCHANGED <<recorded, ach, batch, wpc, sequence, stored, cutoff, dropped, lost,
                 delivered, undelivered, expc, phase, flushFails>>

FanOutDone ==
  /\ wpc \in {"fan", "fandrain"} /\ fanned = Len(batch)
  /\ batch' = <<>> /\ fanned' = 0
  /\ wpc' = IF wpc = "fan" THEN "loop" ELSE "done"
  /\ UNCHANGED <<recorded, ach, sequence, stored, cutoff, dropped, lost, exVars, phase, flushFails>>

\* The channel was drained with nothing to flush.
WriterDone ==
  /\ wpc = "drain" /\ ach = <<>> /\ batch = <<>>
  /\ wpc' = "done"
  /\ UNCHANGED <<recorded, ach, batch, fanned, sequence, stored, cutoff, dropped, lost, exVars, phase, flushFails>>

\* PurgeOlderThan, in one transaction.
PurgeOlderThan(t) ==
  /\ phase = "up" /\ t > cutoff /\ cutoff' = t
  /\ stored' = {r \in stored : r.ts >= t}
  /\ UNCHANGED <<recorded, ach, batch, wpc, fanned, sequence, dropped, lost, exVars, phase, flushFails>>

-----------------------------------------------------------------------------
\* The exporter's goroutine: handleOne counts what was delivered and what was not.
Deliver ==
  /\ expc = "run" /\ exch # <<>> /\ exch' = Tail(exch)
  /\ \/ delivered' = delivered \cup {Head(exch)} /\ UNCHANGED undelivered
     \/ undelivered' = undelivered \cup {Head(exch)} /\ UNCHANGED delivered
  /\ UNCHANGED <<recorded, ach, batch, wpc, fanned, sequence, stored, cutoff, dropped, lost,
                 exdropped, expc, phase, flushFails>>

\* Its stopCh is closed and its channel empty.
ExporterDone ==
  /\ expc = "run" /\ phase = "closing" /\ exch = <<>>
  /\ expc' = "done"
  /\ UNCHANGED <<recorded, ach, batch, wpc, fanned, sequence, stored, cutoff, dropped, lost,
                 exch, exdropped, delivered, undelivered, phase, flushFails>>

\* Stop: stopCh is closed ...
StopAudit ==
  /\ phase = "up" /\ phase' = "stopping"
  /\ UNCHANGED <<recorded, ach, batch, wpc, fanned, sequence, stored, cutoff, dropped, lost, exVars, flushFails>>

\* Mutant: the exporters are closed without waiting for the writer.
CloseExportersAtOnce ==
  /\ phase = "stopping" /\ phase' = "closing"
  /\ UNCHANGED <<recorded, ach, batch, wpc, fanned, sequence, stored, cutoff, dropped, lost, exVars, flushFails>>

\* ... and once the writer has returned the exporters are closed ...
CloseExporters ==
  /\ phase = "stopping" /\ wpc = "done" /\ phase' = "closing"
  /\ UNCHANGED <<recorded, ach, batch, wpc, fanned, sequence, stored, cutoff, dropped, lost, exVars, flushFails>>

\* ... and waited for.
StopReturns ==
  /\ phase = "closing" /\ expc = "done" /\ phase' = "stopped"
  /\ UNCHANGED <<recorded, ach, batch, wpc, fanned, sequence, stored, cutoff, dropped, lost, exVars, flushFails>>

\* Mutant: a stopped writer leaves its batch.
WriterNextHasty ==
  \/ WriterTake \/ WriterStop \/ FlushBatch \/ FlushFails \/ FanOut \/ FanOutDone
  \/ /\ wpc = "drain" /\ wpc' = "done"
     /\ UNCHANGED <<recorded, ach, batch, fanned, sequence, stored, cutoff, dropped, lost,
                    exVars, phase, flushFails>>

WriterNext ==
  \/ WriterTake \/ WriterStop \/ FlushBatch \/ FlushFails \/ FanOut \/ FanOutDone
  \/ WriterDone

AuditNext ==
  \/ \E ev \in Events : RecordEvent(ev)
  \/ \E ev \in Events : PurgeOlderThan(Stamps[ev])
  \/ WriterNext
  \/ Deliver \/ ExporterDone
  \/ StopAudit \/ CloseExporters \/ StopReturns

\* The goroutines and Stop keep running; nothing obliges anyone to record or to stop.
AuditFairness ==
  /\ WF_auditVars(WriterNext)
  /\ WF_auditVars(Deliver \/ ExporterDone)
  /\ WF_auditVars(CloseExporters \/ StopReturns)

AuditSpec == AuditInit /\ [][AuditNext]_auditVars
AuditFairSpec == AuditSpec /\ AuditFairness

-----------------------------------------------------------------------------
Kept == {r.ev : r \in stored} \cup {ev \in Events : Stamps[ev] < cutoff}

\* Another event of the same nanosecond is stored, perhaps under the key that ev had.
Overwritten == {ev \in Events : \E r \in stored : r.ts = Stamps[ev] /\ r.ev # ev}

\* audit.go: "Stop blocks until the buffer is drained", "when the buffer is full the event
\* is counted as dropped".  No event goes missing silently while the writer runs, and none
\* before Stop has returned but those that arrive after the drain (Record, flushBatch):
\* each is still on its way, stored, expired, counted as dropped, or was in a batch whose
\* failure was logged, with the one exception of auditKey's: an event may be gone without a
\* word if another one of the same nanosecond is stored.
EventsAccounted ==
  recorded \subseteq Elems(ach) \cup Elems(batch) \cup Kept \cup Overwritten \cup dropped \cup lost

\* exporter.go: "Local BoltDB persistence remains the source of truth".  An event reaches
\* an exporter only after it was stored (flushBatch), and when Stop returns every event
\* that was queued for delivery has been delivered or counted as failed: the writer, the
\* only one who queues, is gone before the exporter is asked to drain.
ExportedAfterStored ==
  /\ Elems(exch) \cup exdropped \cup delivered \cup undelivered \subseteq Kept \cup Overwritten
  /\ phase = "stopped" => exch = <<>> /\ wpc = "done"

\* Stop returns (Stop, writer, exporterCore.Close), however busy handlers and exporters
\* are, with the writer's batch gone.
StopEnds == (phase = "stopping") ~> (phase = "stopped" /\ batch = <<>>)

\* The audit trail has no silent gap but where two events share their nanosecond, and its
\* exporters are never ahead of it (Record, flushBatch, Stop).
AuditTrailSound == EventsAccounted /\ ExportedAfterStored
=============================================================================
