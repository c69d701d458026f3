----------------------------- MODULE BulkIngest -----------------------------
(***************************************************************************)
(* Background bulk-ingest jobs: bulk_ingest_job.go.                        *)
(*                                                                         *)
(* Submit stores a job record and queues its documents; one worker drains  *)
(* the queue in chunks and stores the job's progress; Cancel rewrites the  *)
(* record of a pending job.  The queue lives in memory, the records in the *)
(* database.  Every Get and every saveJob is a transaction of its own, and *)
(* saveJob writes the whole record its caller read earlier: only Cancel    *)
(* holds the manager's mutex, so between its read and its write, and       *)
(* between those of the worker and of Submit, anything may happen.         *)
(*                                                                         *)
(* A job has Chunks chunks of ChunkDocs documents; of a record only the    *)
(* status and the counters matter.  Stop is never called by the program    *)
(* (a shutdown is the crash of this module).                               *)
(***************************************************************************)
EXTENDS Integers, Sequences, FiniteSets

CONSTANTS
  Jobs,           \* job ids
  Clients,        \* request handlers
  QueueCap,       \* capacity of m.queue
  Chunks,         \* chunks of a job
  ChunkDocs,      \* bulkJobChunkSize
  NoJob,          \* "no record", "no job"
  MaxRestarts     \* bound on crashes

ASSUME BulkSizesAssumption == QueueCap \in Nat \ {0} /\ Chunks \in Nat \ {0}
                                /\ ChunkDocs \in Nat \ {0}

VARIABLES
  running,    \* the process is up
  record,     \* the bulk_jobs bucket: [Jobs -> job record or NoJob]
  queue,      \* m.queue: ids of the jobs whose documents are in memory
  landed,     \* [Jobs -> documents of the job committed to the database]
  mu,         \* m.mu: free or held by a Cancel
  client,     \* [Clients -> [pc, job, rec]] a handler and the record it read
  worker,     \* [pc, job, rec, chunk] the worker
  restarts    \* crashes so far

bulkVars == <<running, record, queue, landed, mu, client, worker, restarts>>

Total == Chunks * ChunkDocs
Statuses == {"pending", "processing", "completed", "failed", "cancelled"}
Terminal == {"completed", "failed", "cancelled"}
Record == [status : Statuses, processed : 0..Total, failed : 0..Total]
Fresh == [status |-> "pending", processed |-> 0, failed |-> 0]

ASSUME BulkNoJobAssumption == NoJob \notin Jobs \cup Record

ClientIdle == [pc |-> "idle", job |-> NoJob, rec |-> Fresh]
WorkerIdle == [pc |-> "idle", job |-> NoJob, rec |-> Fresh, chunk |-> 0]

BulkInit ==
  /\ running = TRUE
  /\ record = [j \in Jobs |-> NoJob]
  /\ queue = <<>>
  /\ landed = [j \in Jobs |-> 0]
  /\ mu = "free"
  /\ client = [c \in Clients |-> ClientIdle]
  /\ worker = WorkerIdle
  /\ restarts = 0

\* saveJob: the record read earlier replaces whatever is stored now.
SaveJob(j, rec) == record' = [record EXCEPT ![j] = rec]

ClientStep(c, pc, j, rec) ==
  client' = [client EXCEPT ![c] = [pc |-> pc, job |-> j, rec |-> rec]]
ClientDone(c) == client' = [client EXCEPT ![c] = ClientIdle]
WorkerStep(pc, rec, chunk) ==
  worker' = [worker EXCEPT !.pc = pc, !.rec = rec, !.chunk = chunk]

-----------------------------------------------------------------------------
\* Submit stores the new job as pending ...
Submit(c, j) ==
  /\ running /\ client[c].pc = "idle" /\ record[j] = NoJob
  /\ SaveJob(j, Fresh)
  /\ ClientStep(c, "enqueue", j, Fresh)
  /\ UNCHANGED <<running, queue, landed, mu, worker, restarts>>

\* ... and hands its documents to the queue, without waiting.
Enqueue(c) ==
  /\ running /\ client[c].pc = "enqueue"
  /\ IF Len(queue) < QueueCap
       THEN /\ queue' = Append(queue, client[c].job)
            /\ ClientDone(c)
       ELSE /\ ClientStep(c, "full", client[c].job, Fresh)
            /\ UNCHANGED queue
  /\ UNCHANGED <<running, record, landed, mu, worker, restarts>>

\* transitionStatus after a full queue: Get, then saveJob, without the mutex.
QueueFullGet(c) ==
  /\ running /\ client[c].pc = "full"
  /\ ClientStep(c, "fullsave", client[c].job,
                [record[client[c].job] EXCEPT !.status = "failed"])
  /\ UNCHANGED <<running, record, queue, landed, mu, worker, restarts>>

QueueFullSave(c) ==
  /\ running /\ client[c].pc = "fullsave"
  /\ SaveJob(client[c].job, client[c].rec)
  /\ ClientDone(c)
  /\ UNCHANGED <<running, queue, landed, mu, worker, restarts>>

\* Cancel takes the mutex and reads; a job that is not pending is refused.
CancelGet(c, j) ==
  /\ running /\ client[c].pc = "idle" /\ mu = "free"
  /\ record[j] # NoJob /\ record[j].status = "pending"
  /\ mu' = c
  /\ ClientStep(c, "cancel", j, [record[j] EXCEPT !.status = "cancelled"])
  /\ UNCHANGED <<running, record, queue, landed, worker, restarts>>

CancelSave(c) ==
  /\ running /\ client[c].pc = "cancel"
  /\ SaveJob(client[c].job, client[c].rec)
  /\ mu' = "free"
  /\ ClientDone(c)
  /\ UNCHANGED <<running, queue, landed, worker, restarts>>

-----------------------------------------------------------------------------
\* worker: the next item of the queue.
Take ==
  /\ running /\ worker.pc = "idle" /\ queue # <<>>
  /\ worker' = [WorkerIdle EXCEPT !.pc = "get", !.job = Head(queue)]
  /\ queue' = Tail(queue)
  /\ UNCHANGED <<running, record, landed, mu, client, restarts>>

\* process: a job found cancelled is skipped.
ProcessGet ==
  /\ running /\ worker.pc = "get"
  /\ IF record[worker.job].status = "cancelled"
       THEN worker' = WorkerIdle
       ELSE WorkerStep("start", [record[worker.job] EXCEPT !.status = "processing"], 0)
  /\ UNCHANGED <<running, record, queue, landed, mu, client, restarts>>

ProcessStart ==
  /\ running /\ worker.pc = "start"
  /\ SaveJob(worker.job, worker.rec)
  /\ WorkerStep("chunk", worker.rec, 0)
  /\ UNCHANGED <<running, queue, landed, mu, client, restarts>>

\* One chunk goes through processBatchWithDocs, of which bad documents fail (all of them
\* when the batch returns an error), and the counters are brought up to date in memory.
ProcessChunk ==
  /\ running /\ worker.pc = "chunk" /\ worker.chunk < Chunks
  /\ \E bad \in 0..ChunkDocs :
       /\ landed' = [landed EXCEPT ![worker.job] = @ + ChunkDocs - bad]
       /\ WorkerStep("save",
            [worker.rec EXCEPT !.processed = (worker.chunk + 1) * ChunkDocs,
                               !.failed = @ + bad], worker.chunk + 1)
  /\ UNCHANGED <<running, record, queue, mu, client, restarts>>

ProcessSave ==
  /\ running /\ worker.pc = "save"
  /\ SaveJob(worker.job, worker.rec)
  /\ WorkerStep("chunk", worker.rec, worker.chunk)
  /\ UNCHANGED <<running, queue, landed, mu, client, restarts>>

\* Mutant: the last chunk is left out.
ProcessEndEarly ==
  /\ running /\ worker.pc = "chunk" /\ worker.chunk = Chunks - 1
  /\ SaveJob(worker.job,
       [worker.rec EXCEPT !.status = IF worker.rec.failed = Total THEN "failed" ELSE "completed"])
  /\ worker' = WorkerIdle
  /\ UNCHANGED <<running, queue, landed, mu, client, restarts>>

\* The job ends failed when every document failed, completed otherwise.
ProcessEnd ==
  /\ running /\ worker.pc = "chunk" /\ worker.chunk = Chunks
  /\ SaveJob(worker.job,
       [worker.rec EXCEPT !.status = IF worker.rec.failed = Total THEN "failed" ELSE "completed"])
  /\ worker' = WorkerIdle
  /\ UNCHANGED <<running, queue, landed, mu, client, restarts>>

-----------------------------------------------------------------------------
\* The process dies: the queue, the handlers and the worker go with it.
BulkCrash ==
  /\ running /\ restarts < MaxRestarts
  /\ running' = FALSE /\ queue' = <<>> /\ mu' = "free"
  /\ client' = [c \in Clients |-> ClientIdle] /\ worker' = WorkerIdle
  /\ restarts' = restarts + 1
  /\ UNCHANGED <<record, landed>>

\* Mutant: only the jobs found processing are settled.
RecoverProcessing ==
  /\ ~running
  /\ running' = TRUE
  /\ record' = [j \in Jobs |->
       IF record[j] # NoJob /\ record[j].status = "processing"
         THEN [record[j] EXCEPT !.status = "failed"] ELSE record[j]]
  /\ UNCHANGED <<queue, landed, mu, client, worker, restarts>>

\* Start: recoverOrphans fails every job that is not settled, before the worker and the
\* listeners run.
RecoverOrphans ==
  /\ ~running
  /\ running' = TRUE
  /\ record' = [j \in Jobs |->
       IF record[j] # NoJob /\ record[j].status \notin Terminal
         THEN [record[j] EXCEPT !.status = "failed"] ELSE record[j]]
  /\ UNCHANGED <<queue, landed, mu, client, worker, restarts>>

ClientNext(c) ==
  \/ Enqueue(c)
  \/ QueueFullGet(c)
  \/ QueueFullSave(c)
  \/ CancelSave(c)

WorkerNext ==
  \/ Take
  \/ ProcessGet
  \/ ProcessStart
  \/ ProcessChunk
  \/ ProcessSave
  \/ ProcessEnd

BulkNext ==
  \/ \E c \in Clients, j \in Jobs : Submit(c, j)
  \/ \E c \in Clients, j \in Jobs : CancelGet(c, j)
  \/ \E c \in Clients : ClientNext(c)
  \/ WorkerNext
  \/ BulkCrash
  \/ RecoverOrphans

\* A started handler and the worker goroutine keep running; a stopped server is started
\* again.  Nothing obliges a client to submit or to cancel.
BulkFairness ==
  /\ \A c \in Clients : WF_bulkVars(ClientNext(c))
  /\ WF_bulkVars(WorkerNext)
  /\ WF_bulkVars(RecoverOrphans)

BulkSpec == BulkInit /\ [][BulkNext]_bulkVars
BulkFairSpec == BulkSpec /\ BulkFairness

-----------------------------------------------------------------------------
\* The stored progress never runs ahead of the documents (process, saveJob): whatever
\* was overwritten by a late Cancel or lost in a crash, a record that counts documents
\* as processed without failure has at least that many of them in the database.
ProgressIsReal ==
  \A j \in Jobs : record[j] # NoJob =>
    record[j].processed - record[j].failed <= landed[j]

\* A job reported completed was worked through to its last document, and what it does
\* not count as failed is in the database (process).
CompletedIsWhole ==
  \A j \in Jobs : (record[j] # NoJob /\ record[j].status = "completed") =>
    /\ record[j].processed = Total
    /\ landed[j] = Total - record[j].failed

\* Every accepted job is settled for good (Submit, process, recoverOrphans): refused for
\* lack of room, overtaken by a Cancel, or orphaned by a crash, the records of Jobs, of
\* which each is submitted at most once, all end in a terminal status and stay there.
EveryJobEnds ==
  <>[](\A j \in Jobs : record[j] # NoJob => record[j].status \in Terminal)

\* The record that GET shows of a job is true of the database (process, Cancel, saveJob,
\* recoverOrphans), whoever saved it last: progress is never ahead of the documents, and what
\* is called completed is whole.
RecordsTruthful == ProgressIsReal /\ CompletedIsWhole
=============================================================================
