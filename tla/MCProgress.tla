----------------------------- MODULE MCProgress -----------------------------
(***************************************************************************)
(* The services that owe somebody an end: a bulk job its last status, the  *)
(* shutdown of the audit trail its return, a posted message its answer.    *)
(* With them run the layers of the extreme mode.  As in MCServices a       *)
(* behaviour is that of one of them, under its fairness.                   *)
(***************************************************************************)
EXTENDS BulkIngest, Audit, McpSessions, Mvcc, Wal, Sharding, LockFreeCache, AsyncIO, TLC

CONSTANTS c1, c2, e1, e2, e3, i1, i2, k1, k2

VARIABLE part

\* Two events are recorded in one nanosecond.
MCStamps == (e1 :> 1) @@ (e2 :> 1) @@ (e3 :> 2)

MCVNodes == [s \in 0..2 |-> CASE s = 0 -> {1, 5} [] s = 1 -> {2, 6} [] s = 2 -> {3, 4}]

allVars == <<part, bulkVars, auditVars, sessionVars, mvccVars, walVars, shardVars, lockFreeVars, asyncVars>>

ProgressInit ==
  /\ part \in {"bulk", "audit", "mcpsessions", "mvcc", "wal", "sharding", "lockfree", "async"}
  /\ BulkInit /\ AuditInit /\ SessionsInit /\ MvccInit /\ WalInit /\ ShardInit /\ LockFreeInit /\ AsyncInit
  /\ part # "wal" => walPolicy = "always"

StayBut(p) ==
  /\ UNCHANGED part
  /\ IF p = "bulk" THEN TRUE ELSE UNCHANGED bulkVars
  /\ IF p = "audit" THEN TRUE ELSE UNCHANGED auditVars
  /\ IF p = "mcpsessions" THEN TRUE ELSE UNCHANGED sessionVars
  /\ IF p = "mvcc" THEN TRUE ELSE UNCHANGED mvccVars
  /\ IF p = "wal" THEN TRUE ELSE UNCHANGED walVars
  /\ IF p = "sharding" THEN TRUE ELSE UNCHANGED shardVars
  /\ IF p = "lockfree" THEN TRUE ELSE UNCHANGED lockFreeVars
  /\ IF p = "async" THEN TRUE ELSE UNCHANGED asyncVars

ProgressNext ==
  \/ part = "bulk" /\ BulkNext /\ StayBut("bulk")
  \/ part = "audit" /\ AuditNext /\ StayBut("audit")
  \/ part = "mcpsessions" /\ SessionsNext /\ StayBut("mcpsessions")
  \/ part = "mvcc" /\ MvccNext /\ StayBut("mvcc")
  \/ part = "wal" /\ WalNextStep /\ StayBut("wal")
  \/ part = "sharding" /\ ShardNext /\ StayBut("sharding")
  \/ part = "lockfree" /\ LockFreeNext /\ StayBut("lockfree")
  \/ part = "async" /\ AsyncNext /\ StayBut("async")

\* BulkFairness, AuditFairness and SessionsFairness, asked of the service that runs.
Fairness ==
  /\ \A c \in Clients : WF_bulkVars(part = "bulk" /\ ClientNext(c))
  /\ WF_bulkVars(part = "bulk" /\ WorkerNext)
  /\ WF_bulkVars(part = "bulk" /\ RecoverOrphans)
  /\ WF_auditVars(part = "audit" /\ WriterNext)
  /\ WF_auditVars(part = "audit" /\ (Deliver \/ ExporterDone))
  /\ WF_auditVars(part = "audit" /\ (CloseExporters \/ StopReturns))
  /\ \A s \in Streams : WF_sessionVars(part = "mcpsessions" /\ StreamNext(s))
  /\ \A p \in Posts : WF_sessionVars(part = "mcpsessions" /\ (PostSend(p) \/ PostGone(p)))

ProgressSpec == ProgressInit /\ [][ProgressNext]_allVars /\ Fairness

\* The layers of the extreme mode (mvcc.go, wal.go, sharding.go, async_io.go), which share no
\* state: no version that a transaction may still read is lost, the log loses no more than
\* its policy allows, every key is routed to one active shard, the cache counts
\* and returns what it holds, and nobody is told of an operation before its end.
ExtremeSound == ChainsSound /\ WalSound /\ RoutingSound /\ LockFreeSound /\ AsyncSound
=============================================================================
