------------------------------ MODULE DocStore ------------------------------
(***************************************************************************)
(* The document store of mddbd: what concurrent requests and the TTL       *)
(* reaper do to the buckets docs, bykey, idxmeta, rev, ttl and ttlrev, to  *)
(* the read cache of gRPC Get, and to the metadata index queue.            *)
(*                                                                         *)
(* Every bolt transaction is one step: BoltDB has one writer at a time.    *)
(* Everything a request does outside its transaction (reading the clock or *)
(* the existing document before it, the cache, the TTL buckets and the     *)
(* index queue after it) is a step of its own.                             *)
(*                                                                         *)
(* One collection is modelled.  A key stands for the pair (key, lang) and  *)
(* for the document id made from it.  A document is the part of its        *)
(* metadata that is indexed (which also stands for its content), its       *)
(* expiry and the second it was written.  Arguments of a request are       *)
(* chosen at the step that first uses them.                                *)
(***************************************************************************)
EXTENDS Integers, Sequences, FiniteSets

CONSTANTS
  Keys,          \* document keys
  Tags,          \* metadata values
  Metas,         \* the sets of tags that requests carry
  TTLs,          \* the ttl arguments that requests carry, in seconds; 0 is none
  Writers,       \* requests for one document, for a whole collection, and their kin
  Batchers,      \* AddBatch, UpdateBatch and DeleteBatch, and gRPC UpdateDocument
  Readers,       \* gRPC Get
  Workers,       \* workers of the index queue
  Reaper,        \* the TTL cleanup goroutine
  None,          \* no document, no job
  QueueCap,      \* capacity of the index queue
  MaxRevisions,  \* the collection's MaxRevisions to begin with; 0 is unlimited
  Caps,          \* the values of MaxRevisions that requests configure
  Extreme,       \* s.UseExtreme: Get reads the lock-free cache
  MaxTime,       \* bound on the clock
  MaxRequests,   \* bound on requests
  MaxCrashes     \* bound on crashes

Procs == Writers \cup Batchers \cup Readers \cup {Reaper}
Times == 1..MaxTime
Docs == [meta : SUBSET Tags, expiresAt : Nat, updatedAt : Nat]
Jobs == [key : Keys, old : SUBSET Tags, new : SUBSET Tags]

ASSUME MetasAssumption == Metas \subseteq SUBSET Tags
ASSUME TTLsAssumption == TTLs \subseteq Nat
ASSUME CapsAssumption == Caps \subseteq Nat
ASSUME BoundsAssumption ==
  MaxTime \in Nat \ {0} /\ MaxRevisions \in Nat /\ QueueCap \in Nat /\ Extreme \in BOOLEAN
ASSUME NoneAssumption == None \notin Docs \cup Jobs \cup Keys
ASSUME ReaperAssumption == Reaper \notin Writers \cup Batchers \cup Readers

VARIABLES
  now,      \* the clock, in seconds
  docs,     \* bucket docs: [Keys -> document or None]
  bykey,    \* bucket bykey: the keys it has
  idxmeta,  \* bucket idxmeta: [Keys -> the tags the key is indexed under]
  rev,      \* bucket rev: [Keys -> [Times -> document or None]]
  ttl,      \* bucket ttl: pairs <<expiresAt, key>>
  ttlrev,   \* bucket ttlrev: [Keys -> expiresAt, or 0]
  cache,    \* the cache Get reads: [Keys -> document or None]
  queue,    \* iq.queue
  job,      \* [Workers -> the job taken from it, or None]
  pc,       \* [Procs -> where the request is]
  hand,     \* [Procs -> the clock as the request read it, the key, new and old document]
  cap,      \* the collection's MaxRevisions as CollectionManager has it
  expired,  \* the expired keys the reaper has collected
  requests, \* requests so far
  crashes   \* crashes so far

buckets == <<docs, bykey, idxmeta, rev, cap>>
ttlBuckets == <<ttl, ttlrev>>
queueVars == <<queue, job>>
bounds == <<requests, crashes>>
vars == <<now, buckets, ttlBuckets, cache, queueVars, pc, hand, expired, bounds>>

Nothing == [at |-> 0, key |-> None, doc |-> None, old |-> None]
NoRevs == [t \in Times |-> None]

\* Every request is away and the queue is empty; the reaper waits for its ticker.
Idle == [p \in Procs |-> IF p = Reaper THEN "reap" ELSE "idle"]
Forgotten ==
  /\ cache' = [k \in Keys |-> None]
  /\ queue' = <<>> /\ job' = [w \in Workers |-> None]
  /\ pc' = Idle /\ hand' = [p \in Procs |-> Nothing]
  /\ expired' = {}

Init ==
  /\ now = 1
  /\ docs = [k \in Keys |-> None] /\ bykey = {}
  /\ idxmeta = [k \in Keys |-> {}] /\ rev = [k \in Keys |-> NoRevs]
  /\ ttl = {} /\ ttlrev = [k \in Keys |-> 0]
  /\ cache = [k \in Keys |-> None]
  /\ queue = <<>> /\ job = [w \in Workers |-> None]
  /\ pc = Idle /\ hand = [p \in Procs |-> Nothing]
  /\ cap = MaxRevisions
  /\ expired = {} /\ requests = 0 /\ crashes = 0

-----------------------------------------------------------------------------
(* What the transactions are made of. *)

MetaOf(d) == IF d = None THEN {} ELSE d.meta

\* The index after metadata old of k is replaced by new; nothing is done when
\* metadataChanged says they are equal.
Reindexed(k, old, new) ==
  IF old = new THEN idxmeta ELSE [idxmeta EXCEPT ![k] = (@ \ old) \cup new]

\* trimRevisions: only the newest keep revisions stay.
Trimmed(r, keep) ==
  [t \in Times |-> IF Cardinality({u \in Times : u > t /\ r[u] # None}) < keep
                     THEN r[t] ELSE None]

\* The revisions of k after d is saved under the second t.
Recorded(k, t, d) == [rev EXCEPT ![k][t] = d]

RecordedAndTrimmed(k, t, d) ==
  IF cap = 0 THEN Recorded(k, t, d)
  ELSE [rev EXCEPT ![k] = Trimmed([@ EXCEPT ![t] = d], cap)]

\* What is left of a history r that is deleted key by key under the cursor that reads it.
\* A bolt cursor may pass over keys once its leaf has been changed: the oldest revision
\* goes, any later one may stay.
Swept(r) ==
  {[t \in Times |-> IF t \in left THEN r[t] ELSE None] :
     left \in SUBSET {t \in Times : \E u \in Times : u < t /\ r[u] # None}}

ExpiryOf(t, seconds) == IF seconds > 0 THEN t + seconds ELSE 0

\* The forward entry that the reverse bucket names for k.
EntryOf(k) == IF ttlrev[k] = 0 THEN {} ELSE {<<ttlrev[k], k>>}

Goto(p, l) == pc' = [pc EXCEPT ![p] = l]
Holding(p, k, d, o) ==
  hand' = [hand EXCEPT ![p] = [at |-> hand[p].at, key |-> k, doc |-> d, old |-> o]]
Done(p) == Goto(p, "idle") /\ hand' = [hand EXCEPT ![p] = Nothing]

\* A request of a writer or a batch reads the clock before its transaction.
Arrive(p) ==
  /\ p \in Writers \cup Batchers /\ pc[p] = "idle" /\ requests < MaxRequests
  /\ requests' = requests + 1
  /\ hand' = [hand EXCEPT ![p] = [Nothing EXCEPT !.at = now]]
  /\ Goto(p, "ready")
  /\ UNCHANGED <<now, buckets, ttlBuckets, cache, queueVars, expired, crashes>>

\* The request is invalid, forbidden, or what it asks for is not found.
Refuse(p) ==
  /\ pc[p] \in {"ready", "looked"}
  /\ Done(p)
  /\ UNCHANGED <<now, buckets, ttlBuckets, cache, queueVars, expired, bounds>>

-----------------------------------------------------------------------------
(* Requests for one document. *)

\* addDocument's transaction.
Add(p) ==
  /\ p \in Writers /\ pc[p] = "ready"
  /\ \E k \in Keys, m \in Metas, s \in TTLs, save \in BOOLEAN :
       LET d == [meta |-> m, expiresAt |-> ExpiryOf(hand[p].at, s), updatedAt |-> hand[p].at] IN
       /\ docs' = [docs EXCEPT ![k] = d]
       /\ bykey' = bykey \cup {k}
       /\ idxmeta' = Reindexed(k, MetaOf(docs[k]), m)
       /\ rev' = IF save THEN RecordedAndTrimmed(k, hand[p].at, d) ELSE rev
       /\ Holding(p, k, d, None)
  /\ Goto(p, "cache")
  /\ UNCHANGED <<now, cap, ttlBuckets, cache, queueVars, expired, bounds>>

\* addDocument refreshes the cache after its commit; runPostWriteHooks then registers an
\* expiry if there is one.
CacheSet(p) ==
  /\ pc[p] = "cache"
  /\ cache' = [cache EXCEPT ![hand[p].key] = hand[p].doc]
  /\ IF hand[p].doc.expiresAt > 0 THEN Goto(p, "ttlset") /\ UNCHANGED hand ELSE Done(p)
  /\ UNCHANGED <<now, buckets, ttlBuckets, queueVars, expired, bounds>>

\* The body of a partial update, over HTTP or gRPC, with the tail that the transport
\* adds: read in the transaction, apply, write, and tell the TTL buckets afterwards.
UpdateDoc(p, k, d, hasTTL) ==
  /\ docs' = [docs EXCEPT ![k] = d]
  /\ idxmeta' = Reindexed(k, docs[k].meta, d.meta)
  /\ CASE d.expiresAt > 0 -> Goto(p, "ttlset") /\ Holding(p, k, d, None)
       [] d.expiresAt = 0 /\ hasTTL -> Goto(p, "ttldrop") /\ Holding(p, k, d, None)
       [] OTHER -> Done(p)
  /\ UNCHANGED <<now, bykey, cap, ttlBuckets, cache, queueVars, expired, bounds>>

\* The document of k after a partial update that may leave out metadata or ttl.
Patched(p, k, m, hasTTL, s) ==
  [meta |-> m, expiresAt |-> IF hasTTL THEN ExpiryOf(hand[p].at, s) ELSE docs[k].expiresAt,
   updatedAt |-> hand[p].at]

\* handleUpdate: an expired document is not found.
Update(p) ==
  /\ p \in Writers /\ pc[p] = "ready"
  /\ \E k \in Keys, hasTTL \in BOOLEAN, s \in TTLs :
       /\ k \in bykey /\ docs[k] # None
       /\ docs[k].expiresAt = 0 \/ docs[k].expiresAt >= hand[p].at
       /\ \E m \in Metas \cup {docs[k].meta} :
            LET d == Patched(p, k, m, hasTTL, s) IN
            /\ UpdateDoc(p, k, d, hasTTL)
            /\ rev' = RecordedAndTrimmed(k, hand[p].at, d)

\* UpdateDocument over gRPC: no look at the expiry and no trimming.
UpdateRPC(p) ==
  /\ p \in Batchers /\ pc[p] = "ready"
  /\ \E k \in Keys, hasTTL \in BOOLEAN, s \in TTLs :
       /\ k \in bykey /\ docs[k] # None
       /\ \E m \in Metas \cup {docs[k].meta} :
            LET d == Patched(p, k, m, hasTTL, s) IN
            /\ UpdateDoc(p, k, d, hasTTL)
            /\ rev' = Recorded(k, hand[p].at, d)

\* handleSetTTL: the document alone is rewritten.
SetTTL(p) ==
  /\ p \in Writers /\ pc[p] = "ready"
  /\ \E k \in Keys, s \in TTLs :
       /\ docs[k] # None
       /\ LET d == [docs[k] EXCEPT !.expiresAt = ExpiryOf(hand[p].at, s)] IN
            /\ docs' = [docs EXCEPT ![k] = d]
            /\ Holding(p, k, d, None)
            /\ Goto(p, IF d.expiresAt > 0 THEN "ttlset" ELSE "ttldrop")
  /\ UNCHANGED <<now, bykey, idxmeta, rev, cap, ttlBuckets, cache, queueVars, expired, bounds>>

\* Mutant: the entry under the old expiry stays.
TTLSetKeepingOld(p) ==
  /\ pc[p] = "ttlset"
  /\ LET k == hand[p].key
         e == hand[p].doc.expiresAt IN
       /\ ttl' = ttl \cup {<<e, k>>}
       /\ ttlrev' = [ttlrev EXCEPT ![k] = e]
  /\ Done(p)
  /\ UNCHANGED <<now, buckets, cache, queueVars, expired, bounds>>

\* TTLManager.Set, in a transaction of its own.
TTLSet(p) ==
  /\ pc[p] = "ttlset"
  /\ LET k == hand[p].key
         e == hand[p].doc.expiresAt IN
       /\ ttl' = (ttl \ EntryOf(k)) \cup {<<e, k>>}
       /\ ttlrev' = [ttlrev EXCEPT ![k] = e]
  /\ Done(p)
  /\ UNCHANGED <<now, buckets, cache, queueVars, expired, bounds>>

\* Mutant: the cleanup returns after the first document it has deleted.
TTLRemoveAndReturn(p) ==
  /\ pc[p] \in {"ttldrop", "unttl", "reaped"}
  /\ ttl' = ttl \ EntryOf(hand[p].key)
  /\ ttlrev' = [ttlrev EXCEPT ![hand[p].key] = 0]
  /\ IF pc[p] = "unttl" THEN Goto(p, "uncache") /\ UNCHANGED hand ELSE Done(p)
  /\ UNCHANGED <<now, buckets, cache, queueVars, expired, bounds>>

\* TTLManager.Remove: after an update that takes the expiry away, within
\* deleteDocumentInternal, and once more by the reaper.
TTLRemove(p) ==
  /\ pc[p] \in {"ttldrop", "unttl", "reaped"}
  /\ ttl' = ttl \ EntryOf(hand[p].key)
  /\ ttlrev' = [ttlrev EXCEPT ![hand[p].key] = 0]
  /\ CASE pc[p] = "unttl" -> Goto(p, "uncache") /\ UNCHANGED hand
       [] pc[p] = "reaped" -> Goto(p, "reap") /\ hand' = [hand EXCEPT ![p] = Nothing]
       [] OTHER -> Done(p)
  /\ UNCHANGED <<now, buckets, cache, queueVars, expired, bounds>>

\* deleteDocumentInternal's transaction, for a client or for the reaper.  A document that
\* is not there is an error and changes nothing.
Delete(p, k) ==
  /\ \/ p \in Writers /\ pc[p] = "ready"
     \/ p = Reaper /\ pc[p] = "reap" /\ k \in expired
  /\ expired' = IF p = Reaper THEN expired \ {k} ELSE expired
  /\ IF docs[k] = None
       THEN /\ pc' = [pc EXCEPT ![p] = Idle[p]]
            /\ UNCHANGED <<docs, bykey, idxmeta, rev, hand>>
       ELSE /\ docs' = [docs EXCEPT ![k] = None]
            /\ bykey' = bykey \ {k}
            /\ \E left \in Swept(rev[k]) : rev' = [rev EXCEPT ![k] = left]
            /\ idxmeta' = [idxmeta EXCEPT ![k] = @ \ docs[k].meta]
            /\ Holding(p, k, None, None)
            /\ Goto(p, "unttl")
  /\ UNCHANGED <<now, cap, ttlBuckets, cache, queueVars, bounds>>

CacheDelete(p) ==
  /\ pc[p] = "uncache"
  /\ cache' = [cache EXCEPT ![hand[p].key] = None]
  /\ IF p = Reaper THEN Goto(p, "reaped") /\ UNCHANGED hand ELSE Done(p)
  /\ UNCHANGED <<now, buckets, ttlBuckets, queueVars, expired, bounds>>

\* handleDeleteCollection: the buckets of every document, and neither the TTL buckets nor
\* the cache.
DeleteCollection(p) ==
  /\ p \in Writers /\ pc[p] = "ready"
  /\ docs' = [k \in Keys |-> None]
  /\ bykey' = {k \in bykey : docs[k] = None}
  /\ rev' \in {r \in [Keys -> UNION {Swept(rev[k]) \cup {rev[k]} : k \in Keys}] :
                \A k \in Keys : IF docs[k] = None THEN r[k] = rev[k] ELSE r[k] \in Swept(rev[k])}
  /\ idxmeta' = [k \in Keys |-> idxmeta[k] \ MetaOf(docs[k])]
  /\ Goto(p, "unconfig")
  /\ UNCHANGED <<now, cap, ttlBuckets, cache, queueVars, hand, expired, bounds>>

\* The collection's configuration goes last.
DeleteConfig(p) ==
  /\ pc[p] = "unconfig"
  /\ cap' = 0
  /\ Done(p)
  /\ UNCHANGED <<now, docs, bykey, idxmeta, rev, ttlBuckets, cache, queueVars, expired, bounds>>

\* The configuration of a collection is set: the revisions that are there stay.
Configure(p) ==
  /\ p \in Writers /\ pc[p] = "ready"
  /\ cap' \in Caps
  /\ Done(p)
  /\ UNCHANGED <<now, docs, bykey, idxmeta, rev, ttlBuckets, cache, queueVars, expired, bounds>>

\* handleTruncate: cuts the history of every document.
Truncate(p) ==
  /\ p \in Writers /\ pc[p] = "ready"
  /\ \E keep \in 0..1 :
       rev' = [k \in Keys |-> IF docs[k] = None THEN rev[k] ELSE Trimmed(rev[k], keep)]
  /\ Done(p)
  /\ UNCHANGED <<now, docs, bykey, idxmeta, cap, ttlBuckets, cache, queueVars, expired, bounds>>

-----------------------------------------------------------------------------
(* Batches.  The existing document is read in a transaction before the one that writes. *)

Lookup(p, k) ==
  /\ p \in Batchers /\ pc[p] = "ready"
  /\ Holding(p, k, None, docs[k])
  /\ Goto(p, "looked")
  /\ UNCHANGED <<now, buckets, ttlBuckets, cache, queueVars, expired, bounds>>

BatchDoc(p, m) == [meta |-> m, expiresAt |-> 0, updatedAt |-> hand[p].at]

\* commitBatch: the index is brought from the metadata that was read earlier to the new.
BatchAdd(p) ==
  /\ p \in Batchers /\ pc[p] = "looked"
  /\ \E m \in Metas, save \in BOOLEAN :
       LET k == hand[p].key
           d == BatchDoc(p, m) IN
       /\ docs' = [docs EXCEPT ![k] = d]
       /\ bykey' = bykey \cup {k}
       /\ idxmeta' = Reindexed(k, MetaOf(hand[p].old), m)
       /\ rev' = IF save THEN RecordedAndTrimmed(k, hand[p].at, d) ELSE rev
       /\ cache' = IF Extreme THEN [cache EXCEPT ![k] = d] ELSE cache
  /\ Done(p)
  /\ UNCHANGED <<now, cap, ttlBuckets, queueVars, expired, bounds>>

\* commitUpdate: docs and rev only; the index is left to the queue.
BatchUpdate(p) ==
  /\ p \in Batchers /\ pc[p] = "looked" /\ hand[p].old # None
  /\ \E m \in Metas, save \in BOOLEAN :
       LET k == hand[p].key
           d == BatchDoc(p, m) IN
       /\ docs' = [docs EXCEPT ![k] = d]
       /\ rev' = IF save THEN Recorded(k, hand[p].at, d) ELSE rev
       /\ cache' = IF Extreme THEN cache ELSE [cache EXCEPT ![k] = d]
       /\ IF m # hand[p].old.meta
            THEN Goto(p, "enqueue") /\ Holding(p, k, d, hand[p].old)
            ELSE Done(p)
  /\ UNCHANGED <<now, bykey, idxmeta, cap, ttlBuckets, queueVars, expired, bounds>>

\* The cache is written inside the transaction, which may still fail to commit.
BatchFail(p) ==
  /\ p \in Batchers /\ pc[p] = "looked"
  /\ Extreme \/ hand[p].old # None
  /\ \E m \in Metas : cache' = [cache EXCEPT ![hand[p].key] = BatchDoc(p, m)]
  /\ Done(p)
  /\ UNCHANGED <<now, buckets, ttlBuckets, queueVars, expired, bounds>>

\* Mutant: bykey is not cleaned up.
BatchDeleteKeepingKey(p) ==
  /\ p \in Batchers /\ pc[p] = "looked" /\ hand[p].old # None
  /\ LET k == hand[p].key IN
       /\ docs' = [docs EXCEPT ![k] = None]
       /\ idxmeta' = [idxmeta EXCEPT ![k] = @ \ hand[p].old.meta]
       /\ \E left \in Swept(rev[k]) : rev' = [rev EXCEPT ![k] = left]
       /\ cache' = IF Extreme THEN cache ELSE [cache EXCEPT ![k] = None]
  /\ Done(p)
  /\ UNCHANGED <<now, bykey, cap, ttlBuckets, queueVars, expired, bounds>>

\* commitDelete: deletes what was found earlier, with the metadata it had then.
BatchDelete(p) ==
  /\ p \in Batchers /\ pc[p] = "looked" /\ hand[p].old # None
  /\ LET k == hand[p].key IN
       /\ docs' = [docs EXCEPT ![k] = None]
       /\ bykey' = bykey \ {k}
       /\ idxmeta' = [idxmeta EXCEPT ![k] = @ \ hand[p].old.meta]
       /\ \E left \in Swept(rev[k]) : rev' = [rev EXCEPT ![k] = left]
       /\ cache' = IF Extreme THEN cache ELSE [cache EXCEPT ![k] = None]
  /\ Done(p)
  /\ UNCHANGED <<now, cap, ttlBuckets, queueVars, expired, bounds>>

\* Mutant: a nil job is queued.
EnqueueNil(p) ==
  /\ pc[p] = "enqueue" /\ Len(queue) < QueueCap
  /\ queue' = Append(queue, None)
  /\ Done(p)
  /\ UNCHANGED <<now, buckets, ttlBuckets, cache, job, expired, bounds>>

\* Enqueue: a full queue makes the caller process its job at once, ahead of the queue.
Enqueue(p) ==
  /\ pc[p] = "enqueue"
  /\ LET h == hand[p]
         j == [key |-> h.key, old |-> h.old.meta, new |-> h.doc.meta] IN
       IF Len(queue) < QueueCap
         THEN queue' = Append(queue, j) /\ UNCHANGED idxmeta
         ELSE idxmeta' = Reindexed(j.key, j.old, j.new) /\ UNCHANGED queue
  /\ Done(p)
  /\ UNCHANGED <<now, docs, bykey, rev, cap, ttlBuckets, cache, job, expired, bounds>>

\* A worker of the queue takes a job ...
Take(w) ==
  /\ job[w] = None /\ queue # <<>>
  /\ job' = [job EXCEPT ![w] = Head(queue)]
  /\ queue' = Tail(queue)
  /\ UNCHANGED <<now, buckets, ttlBuckets, cache, pc, hand, expired, bounds>>

\* ... and processes it in a transaction of its own.
ProcessJob(w) ==
  /\ job[w] # None
  /\ idxmeta' = Reindexed(job[w].key, job[w].old, job[w].new)
  /\ job' = [job EXCEPT ![w] = None]
  /\ UNCHANGED <<now, docs, bykey, rev, cap, ttlBuckets, cache, queue, pc, hand, expired, bounds>>

-----------------------------------------------------------------------------
(* gRPC Get: a look in the cache, a read transaction, and the cache filled after it. *)

GetMiss(p, k) ==
  /\ p \in Readers /\ pc[p] = "idle" /\ cache[k] = None /\ requests < MaxRequests
  /\ requests' = requests + 1
  /\ Holding(p, k, None, None)
  /\ Goto(p, "miss")
  /\ UNCHANGED <<now, buckets, ttlBuckets, cache, queueVars, expired, crashes>>

GetRead(p) ==
  /\ pc[p] = "miss"
  /\ LET k == hand[p].key IN
       IF k \in bykey /\ docs[k] # None
         THEN Holding(p, k, docs[k], None) /\ Goto(p, "fill")
         ELSE Done(p)
  /\ UNCHANGED <<now, buckets, ttlBuckets, cache, queueVars, expired, bounds>>

GetFill(p) ==
  /\ pc[p] = "fill"
  /\ cache' = [cache EXCEPT ![hand[p].key] = hand[p].doc]
  /\ Done(p)
  /\ UNCHANGED <<now, buckets, ttlBuckets, queueVars, expired, bounds>>

\* An entry outlives its five minutes, or Set evicts it from a full cache.
CacheExpire(k) ==
  /\ cache[k] # None
  /\ cache' = [cache EXCEPT ![k] = None]
  /\ UNCHANGED <<now, buckets, ttlBuckets, queueVars, pc, hand, expired, bounds>>

-----------------------------------------------------------------------------
(* The reaper, the clock and the process. *)

\* cleanup: collect the documents whose entry has passed, in one read transaction.  They
\* are deleted one by one afterwards, by Delete, without another look.
Collect ==
  /\ pc[Reaper] = "reap" /\ expired = {}
  /\ expired' = {k \in Keys : docs[k] # None /\ \E e \in ttl : e[1] <= now /\ e[2] = k}
  /\ expired' # {}
  /\ UNCHANGED <<now, buckets, ttlBuckets, cache, queueVars, pc, hand, bounds>>

Tick ==
  /\ now < MaxTime
  /\ now' = now + 1
  /\ UNCHANGED <<buckets, ttlBuckets, cache, queueVars, pc, hand, expired, bounds>>

\* The buckets are all that survives the process.
Crash ==
  /\ crashes < MaxCrashes
  /\ crashes' = crashes + 1
  /\ Forgotten
  /\ UNCHANGED <<now, buckets, ttlBuckets, requests>>

Next ==
  \/ \E p \in Procs :
       \/ Arrive(p) \/ Refuse(p) \/ Add(p) \/ Update(p) \/ SetTTL(p) \/ DeleteCollection(p) \/ DeleteConfig(p)
       \/ Configure(p) \/ Truncate(p)
       \/ CacheSet(p) \/ TTLSet(p) \/ TTLRemove(p) \/ CacheDelete(p)
       \/ UpdateRPC(p) \/ BatchAdd(p) \/ BatchUpdate(p) \/ BatchFail(p) \/ BatchDelete(p)
       \/ Enqueue(p) \/ GetRead(p) \/ GetFill(p)
       \/ \E k \in Keys : Delete(p, k) \/ Lookup(p, k) \/ GetMiss(p, k)
  \/ \E w \in Workers : Take(w) \/ ProcessJob(w)
  \/ \E k \in Keys : CacheExpire(k)
  \/ Collect \/ Tick \/ Crash

Spec == Init /\ [][Next]_vars

\* The ticker wakes the reaper again and again, and a cleanup that has begun goes on.
Fairness ==
  /\ WF_vars(Collect) /\ WF_vars(\E k \in Keys : Delete(Reaper, k))
  /\ WF_vars(TTLRemove(Reaper)) /\ WF_vars(CacheDelete(Reaper))

FairSpec == Spec /\ Fairness

-----------------------------------------------------------------------------
MaybeDoc == Docs \cup {None}
Hands == [at : 0..MaxTime, key : Keys \cup {None}, doc : MaybeDoc, old : MaybeDoc]
Labels == {"idle", "ready", "cache", "ttlset", "ttldrop", "unttl", "uncache", "reap",
           "reaped", "unconfig", "looked", "enqueue", "miss", "fill"}

\* Buckets, cache, queue and requests have their types: a job of the index queue carries
\* metadata, the reaper only collects keys, every revision is a document.
TypeOK ==
  /\ now \in Times
  /\ docs \in [Keys -> MaybeDoc] /\ bykey \subseteq Keys
  /\ idxmeta \in [Keys -> SUBSET Tags]
  /\ rev \in [Keys -> [Times -> MaybeDoc]]
  /\ ttl \subseteq Nat \X Keys /\ ttlrev \in [Keys -> Nat]
  /\ cache \in [Keys -> MaybeDoc]
  /\ queue \in Seq(Jobs) /\ job \in [Workers -> Jobs \cup {None}]
  /\ pc \in [Procs -> Labels]
  /\ hand \in [Procs -> Hands]
  /\ cap \in Nat /\ expired \subseteq Keys
  /\ requests \in Nat /\ crashes \in Nat

\* Whatever single requests, batches working from stale reads, the reaper and crashes do,
\* a key that bykey resolves has a document behind it: a handler that looks a document up
\* by key never meets a dangling id.
ByKeyResolves == \A k \in bykey : docs[k] # None

\* The two TTL buckets, written outside the document's transaction and in any order by
\* racing requests, stay inverses of each other: no document is registered under two
\* expiries, and none has a reverse entry that the reaper cannot find.
TTLBucketsAgree ==
  ttl = {<<ttlrev[k], k>> : k \in {kk \in Keys : ttlrev[kk] > 0}}

\* Without batches, the metadata index and bykey describe exactly the stored documents
\* in every committed state, so that a metadata query neither misses a document nor finds
\* one that does not match.
IndexExact ==
  \A k \in Keys : /\ idxmeta[k] = MetaOf(docs[k])
                  /\ docs[k] # None <=> k \in bykey

\* The document of k has passed the expiry that it has and is registered under.
Overdue(k) ==
  /\ docs[k] # None /\ docs[k].expiresAt \in 1..now
  /\ <<docs[k].expiresAt, k>> \in ttl

\* A document that has passed the expiry it is registered under does not stay: the reaper
\* deletes it, or a request gives it another expiry or takes its registration away.
ExpiredIsReaped == \A k \in Keys : Overdue(k) ~> ~Overdue(k)

\* "ttl: Time-to-live in seconds (0 = no expiry)": the reaper never deletes a document
\* that has no expiry.
PermanentStays ==
  [][\A k \in Keys :
       docs[k] # None /\ docs[k].expiresAt = 0 /\ docs'[k] = None =>
         ~(pc[Reaper] = "reap" /\ pc'[Reaper] = "unttl")]_vars

\* No request is under way and the index queue has nothing left to do.
Quiet ==
  /\ \A p \in Procs : pc[p] = Idle[p]
  /\ expired = {} /\ queue = <<>> /\ \A w \in Workers : job[w] = None

\* The queue keeps no document "permanently missing from the meta index": once it has
\* drained, every document is indexed under its metadata.
NothingMissing == Quiet => \A k \in Keys : MetaOf(docs[k]) \subseteq idxmeta[k]
=============================================================================
