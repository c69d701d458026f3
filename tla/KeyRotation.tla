---------------------------- MODULE KeyRotation -----------------------------
(***************************************************************************)
(* Re-encryption after a change of the primary key: encryption_rotate.go   *)
(* over internal/encryption/encryption.go.                                 *)
(*                                                                         *)
(* The server runs with the primary key "new" and reads entries sealed     *)
(* under the keys in previous.  A rotation job snapshots the keys of the   *)
(* docs bucket, then of the rev bucket, and rewrites each entry with one   *)
(* read transaction and one write transaction, while requests go on        *)
(* writing.  Once the superseded key is no longer needed the operator      *)
(* restarts the server without it.                                         *)
(*                                                                         *)
(* A stored value is its wire version (0 for plaintext), the key that      *)
(* sealed it and its content.                                              *)
(***************************************************************************)
EXTENDS Integers, FiniteSets

CONSTANTS
  RDocs,       \* document ids; each is a collection of its own
  RJobs,       \* rotation jobs
  NoEntry,     \* "no value", "no job"
  InitSeals,   \* <<version, key>> of the values the database starts with
  MaxWrites,   \* bound on document writes and deletes
  MaxReboots   \* bound on restarts

ASSUME RotNoEntryAssumption == NoEntry \notin RJobs
\* A bucket holds finitely many entries, and at the start each can be read with the loaded keys.
ASSUME RDocsAssumption == IsFiniteSet(RDocs)
ASSUME InitSealsAssumption == InitSeals \subseteq ({0, 1, 2} \X {"new"}) \cup {<<2, "old">>}

VARIABLES
  store,     \* [bucket -> [RDocs -> value or NoEntry]]: the docs and rev buckets
  previous,  \* e.previous: superseded keys that are still loaded
  job,       \* rm.jobs: [RJobs -> [status, errors, scope, alive]]; alive: ctx.Err() = nil
  current,   \* rm.current
  rtask,      \* [RJobs -> [pc, bucket, todo, key, val]] the goroutine of a job
  cleared,   \* what the operator goes by when he drops the old key: "no", "status", "job"
  writes, reboots

rotVars == <<store, previous, job, current, rtask, cleared, writes, reboots>>

Buckets == {"docs", "rev"}
NoJobYet == [status |-> "none", errors |-> 0, scope |-> {}, alive |-> TRUE]
NoTask == [pc |-> "none", bucket |-> "docs", todo |-> {}, key |-> NoEntry, val |-> NoEntry]

\* IsEncryptedWithPrimary: the key id is part of the V2 format only.
IsEncryptedWithPrimary(v) == v.ver = 2 /\ v.key = "new"

\* Decrypt: plaintext passes, V1 is opened with the primary key, V2 with the key it names.
CanDecrypt(v) ==
  \/ v.ver = 0
  \/ v.ver = 1 /\ v.key = "new"
  \/ v.ver = 2 /\ v.key \in {"new"} \cup previous

\* processOne has nothing to do for a value that is gone, plaintext or under the primary.
Settled(v) == IF v = NoEntry THEN TRUE ELSE v.ver = 0 \/ IsEncryptedWithPrimary(v)

\* sealRaw: V2 under the primary key.
Seal(content) == [ver |-> 2, key |-> "new", content |-> content]

\* classifyEntry and Status: what GET /v1/encryption/status counts as legacy.  It walks
\* the docs bucket only.
WithLegacy ==
  Cardinality({d \in RDocs : ~Settled(store["docs"][d])})

RotInit ==
  /\ store \in [Buckets -> [RDocs -> {[ver |-> s[1], key |-> s[2], content |-> 0] : s \in InitSeals}]]
  /\ previous = {"old"}
  /\ job = [j \in RJobs |-> NoJobYet]
  /\ current = NoEntry
  /\ rtask = [j \in RJobs |-> NoTask]
  /\ cleared = "no"
  /\ writes = 0 /\ reboots = 0

-----------------------------------------------------------------------------
\* Start: a second request is answered with the running job; otherwise a new job is
\* queued and its goroutine launched with the request's context.
Start(j, scope) ==
  /\ job[j].status = "none"
  /\ current # NoEntry => job[current].status # "running"
  /\ job' = [job EXCEPT ![j] = [status |-> "queued", errors |-> 0, scope |-> scope, alive |-> TRUE]]
  /\ current' = j
  /\ rtask' = [rtask EXCEPT ![j] = [NoTask EXCEPT !.pc = "run"]]
  /\ UNCHANGED <<store, previous, cleared, writes, reboots>>

\* handleEncryptionRotate passes r.Context(), which net/http cancels when the handler
\* returns.
HandlerReturns(j) ==
  /\ job[j].status # "none" /\ job[j].alive
  /\ job' = [job EXCEPT ![j].alive = FALSE]
  /\ UNCHANGED <<store, previous, current, rtask, cleared, writes, reboots>>

\* run: the goroutine marks its job as running.
Run(j) ==
  /\ rtask[j].pc = "run"
  /\ job' = [job EXCEPT ![j].status = "running"]
  /\ rtask' = [rtask EXCEPT ![j].pc = "snapshot"]
  /\ UNCHANGED <<store, previous, current, cleared, writes, reboots>>

\* processBucket: the keys of the bucket that belong to the collection.
Snapshot(j) ==
  /\ rtask[j].pc = "snapshot"
  /\ rtask' = [rtask EXCEPT ![j].pc = "read",
       ![j].todo = {d \in job[j].scope : store[rtask[j].bucket][d] # NoEntry}]
  /\ UNCHANGED <<store, previous, job, current, cleared, writes, reboots>>

\* Mutant: what is sealed under the old key is taken for plaintext.
ProcessReadSkips(j) ==
  /\ rtask[j].pc = "read" /\ job[j].alive
  /\ \E d \in rtask[j].todo :
       rtask' = [rtask EXCEPT ![j].todo = @ \ {d}]
  /\ UNCHANGED <<store, previous, job, current, cleared, writes, reboots>>

\* processOne, the read: a settled value is skipped, one that cannot be decrypted is an error, any other is sealed again in memory.
ProcessRead(j) ==
  /\ rtask[j].pc = "read" /\ job[j].alive
  /\ \E d \in rtask[j].todo :
       LET v == store[rtask[j].bucket][d] IN
         \/ /\ Settled(v)
            /\ rtask' = [rtask EXCEPT ![j].todo = @ \ {d}]
            /\ UNCHANGED job
         \/ /\ ~Settled(v) /\ ~CanDecrypt(v)
            /\ job' = [job EXCEPT ![j].errors = @ + 1]
            /\ rtask' = [rtask EXCEPT ![j].todo = @ \ {d}]
         \/ /\ ~Settled(v) /\ CanDecrypt(v)
            /\ rtask' = [rtask EXCEPT ![j].pc = "write", ![j].key = d,
                                    ![j].val = Seal(v.content)]
            /\ UNCHANGED job
  /\ UNCHANGED <<store, previous, current, cleared, writes, reboots>>

\* processOne, the write: the sealed value is put whatever the key holds by now.
ProcessWrite(j) ==
  /\ rtask[j].pc = "write"
  /\ store' = [store EXCEPT ![rtask[j].bucket][rtask[j].key] = rtask[j].val]
  /\ rtask' = [rtask EXCEPT ![j].pc = "read", ![j].todo = @ \ {rtask[j].key},
                          ![j].key = NoEntry, ![j].val = NoEntry]
  /\ UNCHANGED <<previous, job, current, cleared, writes, reboots>>

\* processBuckets: docs, then rev, then the job is finalized.
BucketDone(j) ==
  /\ rtask[j].pc = "read" /\ rtask[j].todo = {}
  /\ IF rtask[j].bucket = "docs"
       THEN /\ rtask' = [rtask EXCEPT ![j].pc = "snapshot", ![j].bucket = "rev"]
            /\ UNCHANGED job
       ELSE /\ rtask' = [rtask EXCEPT ![j] = [NoTask EXCEPT !.pc = "finish"]]
            /\ job' = [job EXCEPT ![j].status = "completed"]
  /\ UNCHANGED <<store, previous, current, cleared, writes, reboots>>

\* A cancelled context ends the walk before the next key.
ContextDone(j) ==
  /\ rtask[j].pc = "read" /\ rtask[j].todo # {} /\ ~job[j].alive
  /\ job' = [job EXCEPT ![j].status = "failed"]
  /\ rtask' = [rtask EXCEPT ![j] = [NoTask EXCEPT !.pc = "finish"]]
  /\ UNCHANGED <<store, previous, current, cleared, writes, reboots>>

\* run's last section: rm.current is reset, whichever job it names.
Finish(j) ==
  /\ rtask[j].pc = "finish"
  /\ current' = NoEntry
  /\ rtask' = [rtask EXCEPT ![j] = NoTask]
  /\ UNCHANGED <<store, previous, job, cleared, writes, reboots>>

-----------------------------------------------------------------------------
\* A request writes a document and its revision, sealed by Encrypt under the primary, or
\* in the clear when the collection is not opted in; or it deletes both.
WriteDoc(d) ==
  /\ writes < MaxWrites /\ writes' = writes + 1
  /\ \E v \in {Seal(writes + 1), [ver |-> 0, key |-> "new", content |-> writes + 1]} :
       store' = [b \in Buckets |-> [store[b] EXCEPT ![d] = v]]
  /\ UNCHANGED <<previous, job, current, rtask, cleared, reboots>>

DeleteDoc(d) ==
  /\ writes < MaxWrites /\ writes' = writes + 1
  /\ store["docs"][d] # NoEntry
  /\ store' = [b \in Buckets |-> [store[b] EXCEPT ![d] = NoEntry]]
  /\ UNCHANGED <<previous, job, current, rtask, cleared, reboots>>

\* The operator waits for withLegacy = 0 in GET /v1/encryption/status, or for a job over
\* all collections in GET /v1/encryption/jobs that has completed without errors.
Inspect ==
  /\ cleared = "no"
  /\ \/ WithLegacy = 0 /\ cleared' = "status"
     \/ /\ \E j \in RJobs : /\ job[j].status = "completed" /\ job[j].errors = 0
                            /\ job[j].scope = RDocs
        /\ cleared' = "job"
  /\ UNCHANGED <<store, previous, job, current, rtask, writes, reboots>>

\* A restart forgets the jobs; NewEncryptor loads the keys of the environment, from which
\* the operator has removed the old one if he saw that he may.
Restart ==
  /\ reboots < MaxReboots /\ reboots' = reboots + 1
  /\ previous' = IF cleared = "no" THEN previous ELSE {}
  /\ job' = [j \in RJobs |-> NoJobYet]
  /\ current' = NoEntry
  /\ rtask' = [j \in RJobs |-> NoTask]
  /\ UNCHANGED <<store, cleared, writes>>

RunNext(j) ==
  \/ Run(j)
  \/ Snapshot(j)
  \/ ProcessRead(j)
  \/ ProcessWrite(j)
  \/ BucketDone(j)
  \/ ContextDone(j)
  \/ Finish(j)

RotNext ==
  \/ \E j \in RJobs, scope \in {RDocs} \cup {{d} : d \in RDocs} : Start(j, scope)
  \/ \E j \in RJobs : HandlerReturns(j)
  \/ \E j \in RJobs : RunNext(j)
  \/ \E d \in RDocs : WriteDoc(d)
  \/ \E d \in RDocs : DeleteDoc(d)
  \/ Inspect
  \/ Restart

RotSpec == RotInit /\ [][RotNext]_rotVars

-----------------------------------------------------------------------------
\* A job that reports completed with no errors has converged its collections on the
\* primary key (processBuckets): no value of theirs, in either bucket, is sealed under
\* another key, whatever requests and other jobs wrote while it ran.
CompletedIsConverged ==
  \A j \in RJobs : (job[j].status = "completed" /\ job[j].errors = 0) =>
    \A b \in Buckets, d \in job[j].scope : Settled(store[b][d])

\* README.md: "Old documents stay readable".  Every value in the docs and rev buckets can
\* be decrypted with the keys that are loaded (Decrypt, processOne), also after the operator
\* dropped the old key, if he waited for a completed job.  config.md tells him to wait for
\* withLegacy=0 instead, which Status computes from the docs bucket: then that is the bucket
\* that stays readable, and revisions that were not reached yet are lost with the key.
StaysReadable ==
  \A b \in Buckets, d \in RDocs :
    (store[b][d] # NoEntry /\ (b = "docs" \/ cleared # "status")) => CanDecrypt(store[b][d])

\* What an operator relies on when he drops the old key (processBuckets, processOne, Status): a
\* job that reports success has left nothing under it, and nothing that he may count on
\* becomes unreadable, whatever requests and other rotations ran beside it.
RotationSafe == CompletedIsConverged /\ StaysReadable
=============================================================================
