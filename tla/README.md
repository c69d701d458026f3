# A TLA+ model of mddbd

mddbd is a markdown document server: documents live in BoltDB buckets, secondary
structures (metadata index, TTL buckets, revisions, a read cache) follow every write,
and a leader can replicate its writes to followers through a binlog. This directory
holds TLA+ modules of the parts where concurrency and failure make the code hard to
test, the TLC configurations that check them, and TLAPS proofs of the invariants that
matter most. `PROJECT.json` maps every definition to the lines it models, lists the
runs, the mutants that show each property can fail, the hazards and the findings.

All paths below are relative to `src/services/mddbd/` unless they start with `src/`.

## 1. Inventory

| Part | State | Operations | What is hard |
|---|---|---|---|
| Binlog (`internal/binlog/`) | LSN counter, `oldestLSN`, file, bufio buffer, map of subscribers | `Append`, `AppendBatch`, `ReadFrom`, `Subscribe`, `Unsubscribe`, `Rotate`, `Close`, recovery | subscribers are told outside the lock; buffered data lost in a crash; torn entries; sticky write errors; channels closed by other handlers |
| Replication server (`replication_server.go`) | `followers` map, one stream handler per connection | `StreamBinlog`, `RequestSnapshot`, `AcknowledgeLSN` | history and tail are two sources; LSN and data of a snapshot are read apart |
| Replication client and applier (`replication_client.go`, `replication_applier.go`) | `lastApplied` (memory only), the follower's database | connect loop, `replicate`, `requestSnapshot`, `replaceDatabase`, ack loop | lost connections, restarts, entries that fail to apply, refusals |
| Restore (`http_handlers.go`, `server_restore.go`) | `s.DB` handle, restore lock | `handleRestore` | swaps the database under running requests and resets the log |
| Document operations (`document_ops.go`, `http_handlers_meta.go`, `http_handlers_delete.go`, `grpc_metadata.go`, `ttl_handlers.go`) | buckets docs, bykey, idxmeta, rev | add, update (HTTP and gRPC), set TTL, delete, delete collection, truncate | everything after the commit (cache, TTL, hooks) interleaves with other requests |
| Batches (`batch.go`, `batch_final.go`, `batchupdate.go`, `batchdelete.go`) | as above | add, update, delete in bulk | the existing document is read in an earlier transaction; the cache is written inside the one that may fail |
| TTL manager (`internal/ttl/`, `ttl_reaper.go`) | buckets ttl and ttlrev | `Set`, `Remove`, cleanup | buckets are written apart from the document; the reaper acts on what it collected earlier |
| Index queue (`internal/indexqueue/`) | queue of 1000 jobs, workers | `Enqueue`, `worker`, `processJob` | jobs run late, concurrently, and out of order with synchronous writes |
| Revision retention (`revision_retention.go`) | bucket rev | trim on write, truncate | some write paths record and do not trim; keys are seconds |
| Read cache (`internal/cache/`) | entries with a lifetime | `Get`, `Set`, `Delete`, eviction | filled after the read transaction; not every delete invalidates it |
| Bulk ingest (`bulk_ingest_job.go`) | jobs in BoltDB, a queue of payloads in memory | submit, cancel, process, recover | cancel against the worker; a crash in the middle |
| Key rotation (`encryption_rotate.go`, `internal/encryption/`) | current job, loaded keys | start, run, finish, status | two starts; re-encryption beside requests; a context that ends; when the old key may go |
| Full-text index (`internal/fts/`) | eight kinds of entries, collection totals | index, index fields, positions, remove, reindex | hooks of two writes in either order; each entry of the log undoes the one before |
| Embeddings (`embedding_worker.go`, `internal/vector/`) | queue, vectors bucket, index in memory | enqueue, embed, put, clean up, load, reindex | late jobs; overlapping clean-ups; a text taken for embedded |
| Registries (`internal/webhooks/`, `internal/schema/`, `collection_config.go`, `curation.go`, `internal/fts/fts_synonyms.go`) | bucket and copy in memory | set, delete, load; follower reload | bucket, log and copy change apart |
| Automations (`automation*.go`, `internal/automationlog/`) | rules, schedule, log | create, update, delete, reload, fire, retry, list, cleanup | reloads crossing changes; retries; paging under cleanup |
| Audit, temporal events (`internal/audit/`, `internal/temporal/`) | channel, batch, bucket, exporters | record, flush, trim, export, stop | full channels, failed flushes, the order of shutdown |
| Server-sent events (`sse.go`) | clients, counters, channels | connect, broadcast, leave | closing a channel that a broadcast sends on; revoked permissions |
| Limits (`ratelimit.go`, `mcp_middleware.go`, `incident_detector.go`) | buckets per client | allow, record | window ends, late callers, cleanup |
| Authentication (`auth*.go`, `tenant.go`) | five buckets and their maps, issued tokens | users, keys, permissions, groups, login | maps and buckets change apart; tenants |
| MCP (`mcp_apikeys.go`, `mcp_sse.go`, `mcp_streamable.go`) | keys and their cache; sessions and channels | validate, create, delete, disable; stream, post, delete | a stale answer cached after an invalidation; channels of clients that leave |
| Search (`hybrid_search.go`, `internal/fts/fts_boolean.go`, `internal/fts/fts_query_expr.go`, `curation_apply.go`, `internal/vector/vector_parallel.go`) | shared switches of the index | evaluate, fuse, deduplicate, pin | pure algorithms with edges; shared switches |
| Geo index (`internal/geo/`) | bucket of points, R-tree, sorted geohashes | add, remove, rebuild, search in circle, box and polygon | three copies changed apart; rebuilds from an older view; edges of cells and of the map |
| Transports (`http_handlers*.go`, `grpc_*.go`, `graphql_*.go`, `mcp_tools.go`, `mcp_direct_client.go`) | none of their own | 300 routes, methods, fields and tools | each repeats checks and hooks by hand |
| Command line client (`src/services/mddb-cli/`) | none | 27 commands | an answer that is lost after the work is done |
| Extreme mode (`mvcc.go`, `wal.go`, `sharding.go`, `async_io.go`, `internal/cache/lockfree_cache.go`) | version chains; log file and buffer; ring of hashes; operations; shards of a map | commit, collect; write, flush, truncate; add, remove, route; read, write, wait; get, set, evict | key by key settling beside a collector; crashes; lookups beside changes; counters apart from their maps |
| Storage backends, panel, chat, extensions, plugins, tools | see `PROJECT.json` | | not modelled, with the reason in each entry |

How they interact. A write commits its BoltDB transaction, then appends what it wrote to
the binlog (`BinlogOps.FlushTo`), refreshes the cache, registers its expiry with the TTL
manager and (batch update) enqueues an index job. The TTL reaper calls the same delete
path as a client. The binlog hands entries to the channels of stream handlers, which
send them to followers. A restore swaps the database and truncates the binlog. After its
commit a write also runs the hooks of the full-text index, the embedding queue, the
temporal events, the event hub and the triggers (`runPostWriteHooks`,
`firePostBatchHooks`); each keeps its own buckets, queue and locks, and none of them
reads the state of another.

What makes each part correct:

- binlog: no hole and no repeated LSN, a correct `oldestLSN`, no send on a closed
  channel, a slow subscriber never holds up a writer, buffered data reaches the disk;
- replication: a follower never holds what the leader did not commit, a snapshot covers
  its LSN, a follower that is connected and idle has the leader's data, a follower that
  is too old gets a snapshot (the code keeps neither of the last two);
- documents: keys resolve, the index matches the documents, TTL buckets mirror each
  other, an expired document goes, a document without expiry stays, a write that trims
  leaves no more revisions than the cap;
- services: a job that says it is done is done, an index can always be taken back, an
  exported event was stored, a deleted user, key or permission stays without effect, a
  follower serves what it has stored, nothing is lost but where a queue is full or a
  transaction fails, no channel is closed under a sender, and search computes what its
  comments say;
- requests: a read-only transport changes nothing, a refusal has done nothing, what was
  stored is logged and everybody concerned is told, on every route.

`PROJECT.json` maps the operations to their lines; a helper whose lines belong to an
operation is found under it.

## 2. Modules

| Module | Models | Extends |
|---|---|---|
| `Binlog` | `internal/binlog/binlog.go` | |
| `Replication` | leader write path, stream and snapshot handlers, follower, restore | `Binlog` |
| `DocStore` | document requests, batches, TTL, index queue, revisions, cache | |
| `AbstractLog` | what the binlog promises: entries that survive and entries that may not | |
| `BulkIngest` | bulk jobs | |
| `KeyRotation` | re-encryption under a new primary key | |
| `FtsIndex` | the full-text buckets and their follower | |
| `Embeddings` | stored vectors, the flat index, workers and reindexing | |
| `Registries` | six stores with a bucket, a copy in memory and a follower | |
| `Automations`, `Triggers`, `Delivery` | rules and the scheduler; which writes fire a trigger; retries and the log | |
| `Audit`, `Temporal` | the audit trail with exporters; lifecycle events | |
| `EventHub` | server-sent events | |
| `Limits` | rate limiters and the tracker of failed logins | |
| `Auth`, `McpKeys`, `McpSessions` | accounts and decisions; MCP keys; MCP streams | |
| `Searching`, `Fusion` | algorithms of search, against what they are to compute | |
| `GeoIndex` | the points, their two indexes, and the searches | |
| `RequestSteps` | the language of handlers, and the document operations in it | |
| `HttpApi`, `GrpcApi`, `GraphqlApi`, `McpTools`, `DirectClient`, `CliClient` | the handlers of each transport, the in-process client under two of them, the commands | `RequestSteps` |
| `Requests` | the machine that runs any of them | instances of the six |
| `Mvcc`, `Wal`, `Sharding`, `LockFreeCache`, `AsyncIO` | the layers of the extreme mode | |
| `MCReplication`, `MCDocStore` | definitions for TLC's configurations | the module of the name |
| `MCServices` | sixteen services side by side | all of them |
| `MCProgress` | bulk jobs, audit and MCP sessions under fairness; the layers of the extreme mode and what they promise together | all of them |
| `ReplicationProofs` | theorems about `Binlog` and `Replication` | `Replication` |
| `DocStoreProofs` | theorems about `DocStore` | `DocStore` |
| `ServiceProofs` | theorems about MCP keys, accounts, key rotation, server-sent events, the audit trail, deliveries and triggers | `McpKeys`, `Auth`, `KeyRotation`, `EventHub`, `Audit`, `Triggers` |
| `TallyProofs` | theorems about the registries, the full-text index, the limits and the lifecycle events | `Registries`, `FtsIndex`, `Limits`, `Temporal` |
| `SearchProofs` | theorems about what searches answer, and the geo index | `Fusion`, `GeoIndex` |
| `AlgorithmProofs` | theorems about the algorithms behind a search | `Searching` |
| `WorkerProofs` | theorems about the scheduler, the embedding workers, bulk jobs and the layers of the extreme mode | `Automations`, `Embeddings`, `MCProgress` |

### Binlog

`lsn`, `oldestLSN`, `subscribers` are the fields of the struct; `writer` is the bufio
buffer; `file` is what `UnmarshalBinlogEntry` can reach on disk and `tail` what kind of
bytes follow. `unsent[w]` is what writer w appended under the mutex and has not yet
passed to `notifySubscribers`: the code releases `b.mu` in between, so `AppendBatch` and
`NotifySubscribers` are two actions. `notifySubscribers` is called once per entry and
drops an entry for a full channel. `handler[c]` says which follower id the handler that owns
channel c subscribed under; `Unsubscribe(c)` is that handler's deferred call, which
closes whatever channel is registered under the id by then. `DiskError` is a failing
Write or Flush; bufio keeps the error, so from then on every append takes an LSN and
writes nothing (`AppendError`). `Crash` leaves any prefix of the buffer and perhaps a
torn entry; `Open` is `NewBinlog` with `recoverLSN`: a torn entry of at least eight
bytes is an error the server exits on, a shorter one ends the scan unnoticed, and later
appends land behind it where they cannot be read (`"buried"`). What recovery reads
there depends on bytes the model does not have and is any value.

### Replication

`Commit` is a `DBUpdate` that commits; the writer then holds the operations in `pend`
until `FlushTo` appends them. A value is the number of the commit that wrote it. The
StreamBinlog handler is `HandlerFlush` (the flush of `ReadFrom`, under the mutex),
`HandlerRead` (what is in the file by then), `HandlerCheck` (the comparison with
`oldestLSN`, outside the mutex, and the refusal), `HandlerSend`, `HandlerSubscribe`,
`HandlerTail` and `HandlerEnd` (with its deferred calls). The follower is `Connect`,
`Recv` (Apply), `RecvSkip` (Apply failed and was logged), `StreamEnd`, `Break`,
`FollowerRestart`, `Acknowledge`. `net[c]` is the gRPC stream. A handler's status reaches
the client as the error of a `Recv`, as it does with every server-streaming call of
grpc-go; so `requestSnapshot` and `replaceDatabase` of the follower, which wait for it as
the error of the call itself, are never reached and have no action. `RequestSnapshot` of
the leader answers whatever peer asks (`PeerAsks`): `SnapshotLSN`, `SnapshotView` and
`SnapshotEnd` are its reading of the counter, its transaction and its end. A restore is `RestoreSwap` followed by
`RestoreReset`, or `RestoreError`, which leaves the database closed; the restored data
is given a new version, so that "the follower has it" can be told from "the follower has
what was there before".

### DocStore

A bolt transaction is one step, as BoltDB admits one writer at a time. What a request does before or after its
transaction is a step of its own, named by `pc`: the clock is read on arrival
(`Arrive`), the batch reads existing documents in an earlier transaction (`Lookup`),
the cache (`CacheSet`, `CacheDelete`, `GetFill`), the TTL buckets (`TTLSet`,
`TTLRemove`) and the queue (`Enqueue`) come after the commit. `hand` is what the
request carries along. The reaper's pass is `Collect` followed by `Delete` for each
collected key, `TTLRemove`, `CacheDelete` and the manager's own `TTLRemove`. `Refuse`
is any early return before a write. `cap` is the collection's `MaxRevisions`, which
`Configure` changes to any value of `Caps`, up or down; batches and gRPC `UpdateDocument`
record without trimming. A deletion removes the revisions under the cursor that reads
them, and bolt may pass over keys then: `Swept` is what may be left. A key stands for (key, lang) in one collection; a
document is its metadata, its expiry and the second of its writing.

### AbstractLog

The promise of the log without files, buffers and recovery: an append adds consecutive
LSNs to the entries that may be lost; those are settled together, an oldest part of them
joining the surviving entries; and otherwise only a front part is ever given up.
`Binlog` maps `durable` to `file` and `pending` to what is buffered over a sound file
(`Pending`); a flush, a crash and a shutdown are settlements, `Rotate` is a truncation,
recovery is a stutter.

### The services

Each module has one action per step between two transactions or two critical sections, and
history variables only where a property compares with the past. A few words on each:

- `BulkIngest`. A client's request is a sequence of steps with the record it read in
  hand; `Cancel`, the worker and the full queue's `transitionStatus` all save records
  they read earlier. `QueueFullGet/Save` are the two halves of the last. A crash loses
  queue, worker and clients; `RecoverOrphans` runs before anyone else.
- `KeyRotation`. A stored value is a format (plain, V1, V2), a key and a content. `Start`
  lets a second job in unless the current one is *running*; `HandlerReturns` ends the
  context the goroutine runs under; `ProcessRead` and `ProcessWrite` are the two
  transactions of `processOne`. `Restart` drops the old key, when the operator has seen a
  completed job or `withLegacy = 0`.
- `FtsIndex`. `idx` has a field per kind of key. A hook is three transactions
  (`IndexWithLang`, positions, fields), of which the first one alone is logged
  (`FtsFlush`); `rpost` and `rrev` are what a follower makes of the log.
- `Embeddings`. `vectors[d]` has the numbered chunks and the key without number that the
  gRPC reindex and older versions use. The steps of `processJob` are shared by the HTTP
  reindex; both may overlap with deletes, other workers, a crash and the loader. Deletes
  and clean-ups take chunks under a moving cursor, so any but the first may be left.
- `Registries`. `kind` picks the store; they differ in whether ids are fresh, whether
  `LoadAll` replaces the copy, and whether a follower reloads it.
- `Automations`. The rule bucket, the slice and the schedule are three places; HTTP and
  gRPC handlers reload the schedule after a change of a cron, MCP does not. A rule's
  schedule is one that `AddFunc` takes (six fields) or one that it does not (five).
  `UpdateRule` reads the existing rule, and then its type through the pointer it kept, in
  two steps, between which a deletion may move another rule into the slot.
- `Delivery`. `Attempt` is one call with its answer; the log's `List` is page by page
  with a cursor, beside new entries and the cleanup.
- `Triggers`. A request commits and updates the indexes step by step, and its goroutine
  (`tgEval`) looks the document up in them later: `EvalFTS`, `EvalVector` and the two
  searches of `EvalHybrid`. Embeddings arrive when they like. `tgRaced` and `tgStale` mark
  what other requests and late vectors may have disturbed.
- `Audit`, `Temporal`. A recorder, a bounded channel, a goroutine that batches and
  flushes, and, of the audit trail, a shutdown (nobody stops the temporal manager). A flush
  of either may fail: the audit writer then exports none of the batch, temporal events are
  gone (`tlost`, which the code does not count). Temporal also has the calendar: days are numbers, and
  `isoWeekStart` is checked over several years against the ISO definition.
- `EventHub`. A broadcast holds the read lock from `BroadcastBegin` to `BroadcastEnd`;
  registration and removal need the write lock.
- `Limits`. The clock is read before the lock is taken (`ReadClock`), with a bound on how
  long a caller waits.
- `Auth`. An entry is a key of one of five buckets; a request checks the map, writes the
  bucket, then the map, unless it holds the lock throughout (groups).
- `McpKeys`. A lookup reads the store and caches afterwards; an administrator changes the
  store and empties the cache afterwards.
- `McpSessions`. Sessions of both transports, with their channel and `done`.
- `Searching`, `Fusion`. A step asks one question with any input in the bounds, and an
  invariant compares the answer with a reference definition. Where the code's result
  depends on map order or on an unstable sort, the model has every order.
- `GeoIndex`. The globe is a cylinder over a small grid, so that the antimeridian is kept
  and the poles are not; a character of a geohash has two bits instead of five. A write
  brings the tree, the bucket and the slice in step one after the other, and the loader and
  the reindexing add from an older view of the bucket. `adrift` marks documents whose last
  changes overlapped or were not passed on (batch deletes, gRPC updates), which the code
  leaves where they are. `look` asks one question of the geometry.

### Requests

Three hundred handlers do much the same in many variants: they check a mode, a
permission, an input; they commit; they append to the binlog; they tell a cache, an
index, a queue, subscribers; they answer, early or late. `RequestSteps` is a language for
exactly this: `Unless(why)` is a check that may answer, `Txn`, `Save` and `FlushTo` are
transactions and appends, `Tell` is whatever never fails the request, `ShowFresh` and
`ShowAny` are documents in the answer with and without a look at their expiry, and
`When`, `OneOf`, `Maybe` and `Each` are branches and loops. A definition of `HttpApi`,
`GrpcApi`, `DirectClient`, `McpTools`, `GraphqlApi` or the second part of `RequestSteps` has the name of a
function of the code and is the sequence of its steps in their order; what a function
calls appears as the definition of that name. `Requests` is the interpreter: one action
per kind of step, so that an error can come between any two effects, and a branch that
asks for the same attribute twice gets the same answer (`given`, `lacks`).

`RefusedUntouched` speaks of every refusal (`Refusals`), on every route. The named sets of
the others are not alike. `ChecksExpiry` and `SharedPath` name the routes a promise is made
for: the reads that look at the expiry, and the handlers that store or delete through the two
functions the transports share. `Unlogged` names the routes that break one: their writes
never reach the binlog. A route that left the first two or joined the third by a change of
the code would violate the property. `Wholesale` are the requests that replace or empty whole
collections, where no document is written. `ReadModeHolds` and `HooksFollow` say what the
documentation says, for every route and without exceptions, and the code keeps neither: each
has a run that shows it violated.

`McpTools` also has the methods of the protocol (`Handle`), prompts and completions, and
custom tools, whose defaults are merged before the built-in tool runs; a tool called over
`/tools/call` passes `guardWrite` too (`main.go:1081`). `CliClient` puts a client around
the HTTP and GraphQL handlers: it may fail before the request leaves (`Needs`), with the server's refusal,
or when everything is done and the answer cannot be read (`Back`, `Unread`).

### The extreme mode

- `Mvcc`. `Commit`, `Rollback` and the collector treat one chain per step.
- `Wal`. `walFile` is what a sync has made durable, `walBuf` what was written since. A
  crash leaves some prefix of the buffer and perhaps a part of the next entry, behind which
  `NewWAL` goes on (`O_APPEND`). A failing write stays with the bufio writer; a failing
  sync, and a `Truncate` that cannot open its file again, do not.
- `Sharding`. The ring is changed under one lock and the list of shards under another;
  `AskRing` and `LookUpShards` are the two halves of a lookup. A ring has a handful of
  virtual nodes instead of 150 per shard; the model's assumption that no two have the same
  hash holds for FNV-1a over the 150 nodes of up to 256 shards, by enumeration. `GetN` with fewer shards
  than copies does not end: the lookup is then `"spinning"` and the ring locked.
- `LockFreeCache`. One shard; the counter changes apart from the swap of the map, and a
  reader compares with the clock after it has loaded.
- `AsyncIO`. An operation from its listing to the clean-up, with concurrent `Wait`s,
  `WaitAll` and a batch.

## 3. Runs

| Run | Instance | Shows |
|---|---|---|
| `binlog` | 2 writers, 1 follower id with 2 channels of capacity 1, 3 LSNs, 2 crashes, disk errors, truncation | types; log consecutive; `oldestLSN` correct; registered channels open; `ReadFrom` complete; the log implements `AbstractLog`, its liveness included; writers return |
| `replication_safe` | 2 writers, 2 streams, another peer's snapshot, 2 commits, 1 crash, 1 restore, 1 skipped entry | follower never ahead; only a tailing handler is registered; a snapshot covers its LSN |
| `replication_gap` | 1 writer, 2 streams, 2 commits, no failures | **violated** `CaughtUp` |
| `replication_too_old` | 1 writer, 1 stream, 2 LSNs, 3 commits, 1 restore, under fairness | **violated** `TooOldIsResynced` |
| `documents` | a client, a batch, a reader, the reaper, a worker, a crash; caps 0 and 1; 3 requests | types; keys resolve; TTL buckets agree; overdue documents are dealt with |
| `documents_permanent` | 1 client, the reaper | **violated** `PermanentStays` |
| `documents_index` | a batch client, 2 workers | **violated** `NothingMissing` |
| `services` | one service at a time, each with two or three processes | 16 invariants, listed below |
| `progress` | as `services`, with fairness | 3 invariants and 3 temporal properties, listed below |
| `requests_read_mode` | the requests of `services` | **violated** `ReadModeHolds` |
| `requests_hooks` | the requests of `services` | **violated** `HooksFollow` |
| `crons` | the automations of `services` | **violated** `EnabledAreScheduled` |

**The runs `services` and `progress`.** The services share no variable, so a step of one commutes with every
step of another, and an invariant of one holds in the product exactly if it holds in
the service alone. `MCServices` and `MCProgress` therefore explore their *sum*: `part` names the service
that runs, the others stay in their initial states. That is the same question as one run
per service, in one configuration. Those that owe somebody an end are in `MCProgress`. What each part shows:

A name with others in parentheses is the invariant the configuration lists, the conjunction
of the named parts.

| Part | Bounds | Properties |
|---|---|---|
| rotation | 1 document in 2 buckets, 2 jobs, 1 write, 1 restart | `RotationSafe` (`CompletedIsConverged`, `StaysReadable`) |
| fts | 2 documents, 2 terms, 2 texts, 2 clients, 3 writes, 1 crash | `IndexSound` (`NoOrphanEntries`, `StatsExact`, `FollowerTermsAgree`) |
| embeddings | 1 document, texts of 1 and 2 chunks, 2 workers, 1 client, 3 writes, 1 failure, 1 crash | `SkipIsSound` |
| registries | 2 ids, 2 values, 2 clients, 2 requests, 1 restart of either side | `CopiesAgree` (`WebhooksConverge`, `FollowerServesStored`) |
| automations | 2 webhooks, 1 cron, of which one webhook and the cron are there at the start, 2 clients, 2 requests, 1 firing, 1 restart | `CronsAgree` |
| events | 3 connections of 2 users, 2 events, channel 1 | `HubSound` (`HubSafe`, `EveryoneServed`, `RevocationHolds`) |
| limits | 1 client, 4 calls in 4 ticks, window 2 | `LimitsHold` (`RefusalIsReal`, `BurstIsReal`) |
| searching | 2 documents, 3 clauses, words up to 4 letters, 4 duplicates, 4 buckets | `AnswersExact` (`ExprExact`, `BooleanExact`, `DistanceExact`, `PinsPlaced`, `GroupsAreComponents`, `BucketFound`, `DeltaRoundTrip`) |
| auth | 1 user, 1 key, 1 group, 2 clients, 4 requests, 1 failure, 1 restart | `AccessSound` (`AuthCachesAgree`, `DeletedIsOut`, `TenantConfined`, `GroupsClean`) |
| mcpkeys | 1 key, 2 lookups, 2 administrators, 5 ticks | `DeletedKeyRefused` |
| delivery | 2 firings, 2 attempts, pages of 1, 1 cleanup | `DeliveriesTold` (`LogTruthful`, `PagesExact`) |
| triggers | 4 triggers, 2 requests on 2 documents, 2 texts, searches of 1 result, 1 edit | `DeliveriesTold` (`FiredForWhatWasWritten`, `DryRunNamesStored`) |
| temporal | 3 events, channel 1, batch 2; 2,200 days | `TemporalExact` (`EventsKept`, `HotIsCounted`, `WeekBucketExact`) |
| fusion | 2 searches; 3 documents, 3 scores; 9 vectors, 5 workers | `ResultsSound` (`SwitchesRestored`, `RrfDominates`, `AlphaDominates`, `ParallelAgrees`, `DedupIsPrefix`) |
| geo | 2 documents, 1 place and 1 postcode on an 8 × 8 grid, 1 client and the loader, 2 requests, 1 restart; every circle, rings over 6 corners | `GeoSound` (`TreeExact`, `SliceExact`, `PlacesSettled`, `CircleAnswered`, `RingAnswered`) |
| requests | every route of every transport and every command, one at a time, in four combinations of modes | `RequestsGuarded` (`RefusedUntouched`, `ExpiredHidden`), `WritesFollowed` (`StoredIsLogged`, `SharedPathFollows`, `CronFollows`, `Sealed`) |

and of `progress`:

| Part | Bounds | Properties |
|---|---|---|
| bulk | 2 jobs of 2 chunks, 2 clients, queue of 1, 1 crash | `RecordsTruthful` (`ProgressIsReal`, `CompletedIsWhole`), `EveryJobEnds` |
| audit | 3 events, two of them of one nanosecond, channel 1, batch 2, exporter queue 1, 1 failed flush | `AuditTrailSound` (`EventsAccounted`, `ExportedAfterStored`), `StopEnds` |
| mcpsessions | 1 SSE and 2 HTTP streams with one id, 2 posts, channel 1 | `SessionsSound` (a channel is closed once; posts return) |
| mvcc | 1 key, 2 transactions, 2 puts | `ExtremeSound`: `ChainsSound` (`NoDirtyRead`, `RollbackComplete`, `OpenIsKept`) |
| wal | all four policies, 3 writes, a batch of 2, 1 crash, 1 failure | `ExtremeSound`: `WalSound` (`AcceptedIsKept`, `BatchLossBounded`, `FlushIsComing`, `ClosedIsComplete`, `ReadInOrder`) |
| sharding | 2 to 3 shards of 2 virtual nodes on a ring of 8, 2 copies, a lookup of every key | `ExtremeSound`: `RoutingSound` (`RingAgrees`, `RoutedClockwise`, `LookupsSound`) |
| lockfree | 3 keys, room for 2, 3 writes, 2 ticks, 1 reader | `ExtremeSound`: `LockFreeSound` (`EntriesCounted`, `ShardBounded`, `ReadsCurrent`) |
| async | 2 operations, 2 callers of Wait, a WaitAll, a batch of 2 | `ExtremeSound`: `AsyncSound` (`WaitsAnswered`, `DrainCovers`, `BatchWhole`) |

Channels, queues and batches have capacity 1 or 2, so that they are full at once; two
processes are enough for one to act between two steps of the other; one crash or failure
is enough to meet every intermediate state. A property that excepts something (entries on
which two requests overlapped, documents whose log entries changed places, searches that
overlap) does so because the code breaks it there; the exception names the race, and
section "Known disagreements" says what happens in it.

Bounds and why they suffice. Two writers are enough to append in one order and notify in
the other; two channels are enough for an old handler to close a newer one's; capacity 1
makes channels and queues full at once; three LSNs allow a pair, a crash between its
halves and an append after recovery; two crashes allow a crash after a recovery. In
`DocStore` one key is enough, since no operation but DeleteCollection and Truncate
touches two, and these treat each alike; two metadata values tell old from new; two
seconds separate an expiry from the present; with three requests a document can be
written, changed and raced. Two caps, of which 0 is none, let a cap be set, raised and
lifted. Queue capacity 1 reaches the synchronous fallback. Every
run turns the deadlock check off, because requests, crashes and LSNs are bounded and a
finished run may stop (and a binlog that recovery refuses stays down). In `replication_safe`
the action constraint `Apart` lets a behaviour have the follower's streams or the other
peer's snapshots and the restore, which look at nothing the other changes, and one crash,
restore or skipped entry at most. The three runs over `MCServices` that show a violation
have the constants of `services` and one of its parts.

Symmetry is used only in runs without liveness properties.

### Fairness

- Binlog: weak fairness of the flusher (a goroutine with a ticker) and of a writer that
  is past its append (it runs to the end of its call). None for disk errors, crashes,
  subscribers or clients.
- Replication: weak fairness of the leader's goroutines, of a restore past its swap, of
  restarting, and of the follower's loop (`Connect`, `Recv`); strong fairness of
  `StreamEnd`: a refused stream is not cut every single time before the refusal arrives.
- DocStore: weak fairness of the reaper's steps (a ticker, and a loop that continues).
  Nothing is assumed of clients.
- Bulk ingest: weak fairness of a client past its first step, of the worker goroutine and
  of the recovery at start. Crashes are bounded, not fair.
- Audit: weak fairness of the writer, of the exporter's goroutine and of a shutdown that
  has begun. Nobody need record anything, or stop the manager.
- MCP sessions: weak fairness of a stream's loop and deferred function, and of a POST's
  select once one of its cases is ready. Clients need not leave: a stream that neither
  reads nor leaves is cut by the server's write timeout.
- AbstractLog: weak fairness of settling, which `Binlog` implements by the flusher.

### Findings

1. `replication_gap`. `StreamBinlog` reads the file and then subscribes
   (`replication_server.go:199` and `:215`). An entry appended and notified between the
   two is in neither, the stream goes on after it, and the follower stays connected
   without it. `src/docs/REPLICATION.md:51` promises automatic catch-up.
2. `replication_too_old` (`TooOldIsResynced`: a follower that is refused again and again
   is some time no longer too old). `replicate` asks for a snapshot only if the error of the
   `StreamBinlog` call is FailedPrecondition (`replication_client.go:194`); the status
   of a server-streaming call arrives at `Recv`, where it just ends the connection. The
   follower reconnects with the same LSN forever. `src/docs/REPLICATION.md:287` promises
   a snapshot.
3. `documents_permanent`. A write with ttl 0 does not remove the TTL entry of the former
   version (`document_ops.go:187`) and the reaper deletes by the entry.
   `src/docs/API.md:375`: "0 = no expiry".
4. `documents_index`. A batch update's index job may run after a later synchronous update
   and takes the document out of the index under its current metadata
   (`internal/indexqueue/indexqueue.go:147`).
5. `requests_read_mode`. `src/docs/API.md:127`: "**`read`**: Read-only mode. Write
   operations will return `403 Forbidden`". The mutations of GraphQL ask for authentication
   and permissions and never for a mode (`graphql_resolvers.go:138`).
6. `requests_hooks`. `document_ops.go:165` says that the hooks run when a "document write
   commits to BoltDB, regardless of the transport that produced it". The update of the
   direct client, under GraphQL and MCP, writes the document and tells nobody
   (`mcp_direct_metadata.go:180`).
7. `crons`. `src/docs/AUTOMATIONS.md:250` gives `0 9 * * *` as a schedule. `validateRule`
   accepts it, the scheduler wants six fields (`cron.WithSeconds`), the error of `AddFunc` is
   logged (`automation_cron.go:111`), and the enabled rule never runs.

### Known disagreements

Met while modelling; the models take the code's side. Each is an exception of a
property, a behaviour of a model, or a note of a hazard; where a run of its own shows it, it
is a finding above.

- Revisions: gRPC `UpdateDocument` (`grpc_metadata.go:334`) and batch update
  (`batchupdate.go:221`) record and never trim, against `src/docs/API.md:2240`; a cap that is
  lowered is met by the next write that trims; and a deletion may leave revisions behind,
  since it deletes under the cursor that reads them (`document_ops.go:295`,
  `http_handlers_delete.go:162`, `batchdelete.go:182`). All three are in the model, and no
  run claims that histories are bounded; what is proved is that a write that trims leaves no
  more than the cap, whatever it finds.
- Cache: DeleteCollection leaves the read cache alone (`http_handlers_delete.go:129`),
  against `document_ops.go:148`, "every transport stays coherent"; a step of the model, which
  no property is about.
- Read mode: `src/docs/API.md:127` says writes return 403, and `src/docs/ARCHITECTURE.md:273`
  that modes are gated per protocol. Beside the GraphQL mutations (finding 5), the routes of
  synonyms, stop words, the spelling dictionary, accounts and groups, and the cancellation of
  bulk jobs ask for no mode; webhooks, curation, collection and embedding settings,
  automations and rotation ask for that of the server only, not of the transport.
- Binlog: Truncate and SetTTL over gRPC, and update, delete-collection, truncate and set-ttl
  over MCP and GraphQL, append nothing (`Unlogged`), nor does `touchSession`, which rewrites
  the session's document after a memory message over HTTP (`memory_rag.go:279`, `:292`), nor
  the batch path of the extreme mode (`batch_final.go:202`). Followers never get these
  writes.
- Errors after a change: a restore, a submitted bulk job, a change of the spelling
  dictionary, a wiki import and a GraphQL document with a ttl can be answered with an error
  when a part is done. `RefusedUntouched` is about refusals, not about such errors, except
  that the ttl of the GraphQL document is a request of its own that may be refused.
- Expiry: reads of revisions, of the vector and geo indexes, aggregates, and all gRPC reads
  outside `ChecksExpiry` show a document that has expired and was not reaped yet.
- Hooks (finding 6 is one case): adding batches leave the read cache out; the HTTP update
  the read cache, temporal events and the event hub; gRPC `UpdateDocument` the read cache,
  temporal events, webhooks, the event hub, the full-text and geo indexes; the gRPC batch
  update temporal events, webhooks, the event hub and triggers; batch deletes over gRPC and
  MCP the vector, full-text and geo indexes, TTL entries, webhooks, the event hub and
  triggers; SetTTL and the updates over MCP and GraphQL everybody. `toolUploadFile` ignores
  its ttl. Rules with a schedule that MCP changes are not reloaded.
- Encryption: SetTTL stores the document with `marshalDoc`, in plain (`Sealed`); several
  gRPC reads do not decrypt.
- Geo: the geohash search looks at one prefix, where its comment promises the neighbours
  (`internal/geo/geohash_index.go:162`); the box in front of the R-tree is not wrapped
  around the antimeridian; the gRPC reindex leaves the geohash index as it was.
- MCP: a custom tool with the action `fts_languages` is accepted (`mcp_custom_tools.go:254`)
  and every call of it refused.
- Command line: `mddb-cli schema set` cannot run: its `-s` (`src/services/mddb-cli/main.go:987`)
  is that of `--server` (`:34`), and cobra panics when it merges the two.
- Extreme mode: entries that the write-ahead log appends behind a cut entry are never read
  again; `GetN` spins for ever, under the ring's lock, when fewer shards are active than
  there should be copies; an empty ring routes every key to shard 0, active or not.
- Bulk ingest: `src/docs/BULK-IMPORT.md:556` says that jobs in `processing` cannot be
  cancelled. `Cancel` saves a record it read as pending, so a job that the worker has
  begun is shown as cancelled until the worker's next save; the documents are written. The
  worker ignores the errors of its saves (`bulk_ingest_job.go:243`, `:267`, `:276`); the model
  has no failing save there, so `RecordsTruthful` and `EveryJobEnds` are about a store that
  takes them.
- Rotation: `src/docs/config.md:241` lets the operator drop the old key at
  `withLegacy = 0`, which `Status` computes from the documents and not from the
  revisions; `StaysReadable` holds for the revisions only after a completed job. The job
  runs under the context of its request. A write between the two transactions of
  `processOne` is undone.
- Full-text: a text without terms leaves the former terms in the index
  (`internal/fts/fts.go:242`). Positions, fields and totals are never logged, so a
  follower has postings without them.
- Embeddings: where two workers overlap on a document, the clean-up after a shorter text
  takes chunks of a longer one, which is then taken for embedded. `VectorStore.Delete` and
  the clean-up delete under the cursor that reads (`internal/vector/vector_store.go:280`), so
  a later chunk can outlive its document; the loader then puts it into the index. That is a
  behaviour of the model; `SkipIsSound` speaks of documents that have a first chunk, which is
  what `processJob` looks at.
- Registries: `curation.go:80` says the copy is rebuilt "after binlog replay"; only
  webhooks, schemas and collection settings are, and of the last two a deleted entry stays
  in the follower's copy. A vector reaches the follower's index under another key
  (`internal/vector/vector_store.go:751`). Two `Set`s of one key can leave copy and
  bucket apart.
- Audit: keys are a time and a sequence number, the numbers of consecutive batches overlap
  (`internal/audit/audit.go:210`), so of two events of one nanosecond one may overwrite the
  other; `EventsAccounted` excepts an event only where that has happened.
- Backups: gRPC `Restore` renames the copied file over one that is open (`util.go:78`); the
  server goes on with the old one until it starts again.
- Automations: a schedule of five fields is never run (finding 7). `UpdateRule` reads the
  type of the existing rule through a pointer after it has let go of the lock
  (`automation.go:160`), so beside a deletion (`:244`) it takes another rule's; such rules are
  `missed` in `CronsAgree`. A cron changed through MCP waits for the next reload
  (`src/docs/AUTOMATIONS.md:641`). `UpdateLastRun` stores an older copy of a rule, also
  of one that was deleted. Vector triggers compare chunk keys with a document id
  (`automation_trigger.go:200`) and do not match, unless the document was reindexed over
  gRPC. A delete starts its triggers "before FTS cleanup so doc is still searchable"
  (`document_ops.go:342`), but in a goroutine, which the clean-up may overtake; after two writes that raced, the text
  that goroutine finds may be the older one.
- Limits: a new window forgets the cool-down (`incident_detector.go:15`), so two reports of one
  burst can be closer than it says; the rate limiter's "sliding window" (`ratelimit.go:21`) is
  a fixed one, so two budgets may fall close together. Both are in the model, and no property
  claims a bound: `LimitsHold` says that what was refused or reported had its reason.
- Search: `a AND NOT x` is empty when nothing matches x (`internal/fts/fts_query_expr.go:515`);
  a negated first clause shifts the operators (`internal/fts/fts_boolean.go:145`). Searches
  that overlap can leave the index without its stemmer, against "thread-safe: no mutation
  of shared state" (`fts_handlers.go:107`). The formula above `mergeAlpha`
  (`hybrid_search.go:442`) has the two scores the other way round than the code and the docs.
- MVCC: `Read` sees commits made after its transaction began, against "snapshot isolation"
  (`mvcc.go:58`), and skips deletions. No request uses it.
- Accounts: two requests on one entry can leave map and bucket apart, `SetGroupPermission`
  crossing `DeleteGroup` leaves permissions behind, the administrator's flag of a token
  lasts as long as the token.
- MCP keys: a lookup that crosses a deletion caches its answer for `cacheTTL`, against
  "auto-invalidated" (`src/docs/MCP.md:146`).
- Temporal: `GetHotDocs` compares nanoseconds with a time in seconds
  (`internal/temporal/temporal.go:268`). A batch whose transaction fails is given up without a
  count (`:124`), and `Stop`, which would flush the last batch, is never called. `EventsKept`
  counts the failed batches in a variable of its own.

## 4. Proofs

The seven proof modules are checked by TLAPS, for every value of the constants that
satisfies the named assumptions of the module they are about. Those assumptions keep the
markers for "nothing" (`None`, `NoKey`, `NoVal`, `NoVec`, ...) apart from real values, make
capacities positive and, where a step lists or counts, sets finite; `KeyRotation` also
assumes that at the start every value can be read with the loaded keys
(`InitSealsAssumption`). TLC evaluates all of them in the runs. Every strengthened
invariant was checked by TLC on a small instance before its proof.

The first half of `ReplicationProofs` is about the binlog alone, from `NoneAssumption`,
`CapAssumption` and `MaxLSNAssumption`:

- `BinlogTyped`: `BinlogTypeOK` is inductive by itself.
- `NoSendOnClosed`: `RegisteredIsOpen` is inductive given the types. The argument is that
  a channel is registered under the id its own handler subscribed with, so an
  Unsubscribe of another id cannot close it, and an Unsubscribe of the same id also
  removes it from the map.
- `BinlogSafe`: the inductive invariant
  `BinlogInv == BinlogTypeOK /\ LogConsecutive /\ OldestIsFirst /\ LogSound`.
  `LogConsecutive` and `OldestIsFirst` need `LogSound`: LSNs start at 1, since the code
  uses 0 for "the log is empty", and a process that is down has nothing buffered. The
  lemmas are that stamping continues the log (`StampFacts`), that appending stamped
  entries keeps it consecutive (`AppendConsecutive`) and that every prefix of a
  consecutive log is consecutive, which is what a crash leaves (`PrefixConsecutive`).
- `LogRefined`: `BinlogSpec => AL!LogSafety`, the safety part of the refinement, from
  `BinlogInv` and one case per action: an append continues the numbers because the log is
  consecutive, and a flush, a crash or a shutdown keeps a prefix of the buffer.
- `LogIsConsecutive`, `OldestLSNIsFirst` follow; `ReadFromIsComplete` derives from them
  that a log with an oldest entry answers a position with everything after it or refuses.

`DocStoreProofs`, from the assumptions of `DocStore`:

- `StoreTyped`: `TypeOK` is not inductive alone, because a request at a label relies on
  what it holds (a key, a document, a positive expiry). `Typed == TypeOK /\ HandOK` adds
  exactly that, label by label.
- `TTLBucketsInverse`: `TTLBucketsAgree`, given `Typed`; only `TTLSet` and `TTLRemove`
  write the buckets, and `TTLSet` needs the positive expiry that `HandOK` provides (0
  means "no entry" in `ttlrev`).
- `KeysResolve`: `ByKeyResolves`; `DocWrites` lists the ways a step may change docs and
  bykey, whatever stale document a batch holds.
- `IndexIsExact`: `IndexExact` when there are no batches (with batches the run
  `documents_index` shows it lost). Its strengthening `SingleInv` adds that the index queue is
  then never used. No run lists it.
- `RecordingTrims`: `RecordedAndTrimmed`, what a write stores that records and trims in one
  transaction, leaves at most the cap of any history whatever, so also of one that untrimmed
  writes, a lowered cap or a partial deletion left too long. The lemmas are that trimming
  leaves the newest entries and at most the cap, with the cardinality theorems. It is about
  the transaction and not about the specification, whose histories are not bounded.

The second half of `ReplicationProofs`, from the assumptions of `Binlog` and `Replication`:

- `ReplicationTyped`, and `LeaderLogSafe`: the steps of `Replication` are steps of the
  binlog as far as the binlog is concerned, so the lemmas of the first half carry over
  to the leader with its handlers, restores and crashes.
- `FollowerNeverAhead`: `FollowerNotAhead` is not inductive, because what the follower
  applies next is on its way already. `OnlyCommitted` adds that every operation a writer
  holds, every entry in the log, in a channel or on the wire, and every snapshot, is no
  newer than the leader's version of its key; versions of the leader only grow.
- `SnapshotIsCovering`: `SnapshotSound` says that every entry, in the log, in a channel or
  on the wire, with an LSN up to the snapshot's is in the snapshot, and that the leader's
  counter is not behind that LSN, so what is appended later comes after it.
- `RegisteredHandlerTails`: a handler owns a channel exactly while it tails
  (`TailsSubscribed`).

`ServiceProofs`:

- `DeletedKeysRefused`: `McpInv` bounds how long an answer that was read before the
  deletion can live: the lookup ends within `MaxLookup`, its cache entry within `CacheTTL`
  after that (`LookupsInTime`, `LateLookups`, `LateAnswers`).
- `AccessIsSound`: `AuthInv` adds to the agreement of the maps and the buckets what a
  request that is between its write to the bucket and its write to the map still owes
  (`Agreeing`), that a deleted user stays disabled in both (`GoneForGood`), that whoever is
  not stored is nowhere on his way (`NotStored`), that a user keeps his tenant
  (`OneTenant`) and that a deleted group has nothing (`GroupsEmpty`); entries that a failed
  write left apart (`strayed`) are excepted, as in the property.
- `RotationIsSafe`: `RotInv` follows a job's pass over the buckets: what it passed
  without counting a failure is under the new key and stays so, as every other write
  seals with the new key (`Passed`, `Converged`), a value on its way to the store is
  under the new key (`PutsPrimary`), and an operator's reason for dropping the old key
  stays true (`ClearedIsSettled`).
- `HubIsSound`: `HubInv` counts the registered clients per address (`CountsExact`) and
  says of a broadcast what it has done so far: the clients it visited were served or
  counted as slow (`VisitedServed`), an event whose broadcast has not begun is nowhere and
  nobody may read what he is denied (`NotYetSent`), and the channels still to be visited
  are open (`VisitsOpen`).
- `AuditTrailIsSound`: `AuditInv` adds that the writer hands on only what it filed and
  that Stop ends the writer before the exporter (`ShutdownOrdered`). Events of one nanosecond
  are allowed: an event is filed when it is stored, has expired, or has lost its key to
  another of its time that is stored (`Filed`), and the lemmas are about what a batch of
  records with colliding keys leaves in the bucket.
- `DeliveriesLogged`: of the log of automations, for any number of firings, attempts and
  pages. `DeliveryInv` says that the ids of entries are those of their firings and distinct
  (`IdsDistinct`, `EntriesOfFirings`), that the receiver's calls are the ones counted
  (`CallsCounted`), that nothing that was there when a listing began comes later
  (`BeganIsPast`), and that the pages read so far fall and have everything above the cursor
  that is still stored (`PagesSoFar`). A page is the stored ids by rank; that an id that the
  page lacks is older than all the page has is a pigeonhole argument over the ranks
  (`RankFacts`, `RankTaken`).
- `TriggersFire`: `TriggersInv` says of a document on which no requests raced that each of
  its places, store, index and request, holds what its one request in progress has done so
  far (`RequestShape`, `DocsSettled`), that requests that meet on a document are marked
  (`MeetingsMarked`), and that an evaluation past its first search saw the request's own
  text (`SearchSees`). The attempt showed the former `FiredForWhatWasWritten` false for
  three requests on one document, one more than the run has: two writes race and leave the
  older text in the index, and a delete that comes later, racing with nobody, fires for it.
  The property now excepts a delete after such a race; TLC agrees with it for three requests
  on one document as well.
- `DeliveriesAreTold` joins the two: `DeliveriesTold`, the invariant of the run.

`TallyProofs`, about copies and counters that are kept beside what they copy or count:

- `RegistriesCopiesAgree`: `RegInv`. An id of a webhook is new, so its registration is
  alone with it, and what is logged of it is a registration before a deletion; a copy differs
  from its bucket only while one of the two is between them (`HooksOrdered`). The follower's
  bucket is what the entries it applied make of an empty one (`FollowerReplays`), and its copy
  of the webhooks is its bucket but for a reload to come (`FollowerCopies`).
  `MaxRegReqsAssumption` makes the bound a number.
- `FtsIndexSound`: the totals that BM25 divides by are sums over the documents indexed. That
  a sum changes by one document's share when one document changes would be an induction over
  data; `TallyProofs` gets it from a smallest counterexample instead: the least number of
  documents on which it fails is no such number. `FtsInv` says of each document that its
  reverse entries name its postings in every bucket, of the totals that they are the sums
  (`IxSound`), and of the follower that it has the leader's postings, or will have them with
  the one entry that is on its way, unless the requests of a document overlapped
  (`FollowerOf`). `FtsFiniteAssumption` says that documents and terms are finitely many.
- `LimitsAlwaysHold`: `LimInv`. No caller waits longer than `MaxWait` (`WaitsInTime`), and
  what an open bucket has counted was let through, or recorded, since it was opened, which was
  no longer than a window before its end (`Held`); so whenever a call is refused, or a burst
  reported, there was a whole budget, or the threshold, within one window and one wait
  (`Justified`). From `LimitsAssumption`, `MaxTimeAssumption` and `NoBucketAssumption`.
- `TemporalIsExact`: `TempInv`. The numbers of events tell them apart wherever they are, on
  their way to the channel, in it, gathered or stored, and none is above the manager's
  (`Numbered`); so keys are distinct, a batch adds as many keys as it has jobs or loses as many, and
  what was stamped can be counted by place. A batch's accesses of a document are as many as the new
  events of it, by the bijection between places and keys. The weeks need no induction: the
  Monday of a day is that of its week's Thursday by arithmetic modulo 7, and the year that
  `YearOf` chooses exists because the least year whose successor begins later is one, whatever
  the leap years are. From `TemporalAssumption` and `RecordersAssumption` (finitely many
  requests at a time).

`WorkerProofs`:

- `CronsAreScheduled`: `AutoInv` says that the scheduler follows the rules whenever no client
  is about to reload it, a cron that the reloading client has still to add counting as
  scheduled (`CronsFollow`), where only a rule with a schedule that `AddFunc` takes is
  runnable; that whoever adds holds the lock of the scheduler (`LockHeld`); and that the webhook a rule names was in the slice once
  (`RulesKnown`), so that only a restart can bring it back.
- `SkippedIsStored`: `EmbInv` adds that a task between `PutChunks` and its clean-up has put
  the first chunk that is stored, if one is, unless another task overlapped on the document
  (`EmbedderOwns`). Chunks may be left behind by deletes and clean-ups that skip keys; a
  delete takes the first chunk for certain, and a clean-up none that the text has.
- `RecordsAreTruthful`: `BulkInv`. A job is in one place at a time (`OncePerJob`), the
  worker's copy of its record counts exactly what has landed (`WorkerExact`), and a copy a
  handler will store is out of date, never ahead (`HeldIsOld`).
- `ExtremeIsSound` joins the five layers of the extreme mode, each with an invariant of its
  own, over `ProgressSpec`, in which any layer, or none, may take the next step
  (`ExtremeStep`).
  - `MvccInv`: what can be seen was committed by its own transaction (`ShownByCommit`), a
    version a transaction wrote can be found by the keys it tracks (`WritesTraced`), and what
    an open transaction wrote either is younger than the collector's cutoff or belongs to a
    transaction the collector has found active (`CollectorSpares`).
  - `WalInv`: the file and the buffer together hold the entries in their order
    (`WalOrdered`), each accepted entry is in one of them unless a fault was reported
    (`WalAccepted`, `WalFaultless`), and under the batch policy the buffer is no longer than
    what was written since the last sync (`WalBatched`).
  - `ShardInv`: the sorted keys are those of the ring and the ring is that of the shards, but
    for the one shard a request is changing (`RingFollows`); a lookup holds what a walk round
    the ring at its time gave (`SeekKept`). That the binary search finds the first key at or
    behind a hash holds for every list: were there a window for which it does not, there
    would be a narrowest one (`SearchFinds`; that the recursive function exists is
    `AnswersExist`, in the same way). `OneSorted` says that an ascending list of a set is the
    only one, by ranks (`UnderGrows`, `NthOf`), and `RoundTrip` and `WayIs` that the walk
    meets every shard once, nearest first. The attempt showed that `ShardingAssumption` has to
    bound the first shards by `MaxShards`.
  - `LockInv`: the counter and what the writer still owes it make the size of the map
    (`WriterOwes`), and a reader may return what the map held at some time since its call
    (`ReaderMay`).
  - `AsyncInv`: ids are given in turn (`IdsInTurn`), an operation leaves the list through the
    Wait or the callback it was meant for (`TakenByWait`), and the counters of the wait groups
    are those of the operations that run (`AsyncCounted`).

`SearchProofs`:

- `ResultsAreSound`, of hybrid and vector search. `SwitchInv` says of searches that do not
  overlap while one of them has something switched off that whoever runs alone found
  everything on and that what is off is what it turned off (`TogetherIdle`, `OneSwitches`);
  the property excepts the others, as the code shares the switches. The rest is about the
  algorithms: a document with no smaller a share of either ranking, and a larger one of one,
  has a larger sum of fractions (`SumOrder`, `RankFacts`, `ShareOrder`); blending the normalised
  scores keeps the order of documents that agree in both (`NormalOrder`, `BlendOrder`); the
  chunks that are kept are as good as any left out (`BestIs`); and the partial results of the
  first w workers are the first entries in their order, for every w (`MergedIs`), so that all
  workers leave nothing out (`ChunksCover`). That a recursive function has the value a lemma
  says needs an induction over numbers; `AllNumbers` is one over a set instead of a predicate.
  From `FusionAssumption`.
- `GeoIsSound`, of the geo indexes and of what they answer, for any grid, documents, places,
  polygons, requests and restarts.
  - `GeoInv` is about the three copies of a place. Whoever is alone with a document is the
    only one on it, and a client that met another has set the document adrift (`Meets`); so a
    request that is alone has brought tree, bucket and slice exactly as far as its place in
    the handler says (`Written`), a rebuild has added the points of its view that it has
    passed, and the bucket still is that view (`Rebuilt`), and a document nobody is on is the
    same in all three (`Kept`). An inductive invariant needs all of it: without `Meets` a
    second request could be between the two writes of the first. The slice is sorted and its
    positions are those of its entries (`Placed`), which a cut keeps because the positions
    behind it move down (`CutKeeps`, `HashAdded`).
  - The cells of a geohash are halved towards a place: each holds it and is half as wide as
    the one before (`CellsHold`), and two places in one cell share its bits (`CellsAgree`), so
    that the prefix finds all of a cell (`PrefixFound`) and decoding a hash gives the cell
    (`BBoxIs`). These are recursive functions over the numbers up to `Precision`: that they
    exist is `Iterates`, and what they compute `UpToBound`, an induction over a set of numbers.
  - Whether the ray crosses an edge is the sign of an area (`CrossesIs`), so an edge counts the
    same from both ends, and the two triangles a ring is cut into share the edge of the cut,
    whose crossings cancel (`RingIs`, `OddOf`). The areas weigh the heights of the corners to
    that of the point (`Balanced`), which leaves an odd number of crossings to a point on the
    same side of every edge and an even one to a point on both sides (`OneApart`, `AllFit`,
    `TriangleIs`). A point in a ring has corners on each of its four sides
    (`InRingSurrounded`), so the box loses nothing (`BoundsHold`, `BoxesJoined`).
  - From `GeoAssumption`, which keeps the markers apart from places and documents, and the
    loader from the clients. For the proof the cells and boxes became recursive functions and
    the prefix's length the greatest that fits; on the run's grid TLC found each equal to the
    form it had before.

`AlgorithmProofs`, about `Searching`:

- `AnswersAreExact`: every answer is the one its definition gives. There is nothing to keep
  from step to step, as a question is asked in the first one, so the invariant is about the
  form of the question (`QuestionStep`) and `AnswersExact` follows from the form
  (`QuestionIsExact`). What is proved is what each loop computes, by an induction over its
  rounds (`UpToBound`, for a set of numbers instead of a predicate):
  - a delta cuts a prefix and a suffix that do not overlap out of both revisions
    (`EndsAre`), so they join to the new one (`ThreeJoined`);
  - a round of the bucket search halves the window and never leaves a bucket that holds the
    time behind (`RoundNarrows`), so the window is empty after as many rounds as buckets;
  - the counter of `combineResults` is at the clause before which the index stands
    (`StrideKeeps`), which needs the first clause to be positive;
  - every outcome for a sensible expression is an unmarked map of what it means, and one for an
    exclusion is marked throughout and not empty (`ExclusionIs`), so `isNegated` sees the same
    whatever entry it looks at (`MarksMeet`);
  - the rows of the edit distance are those of the table of all pairs of prefixes (`RowsAre`),
    the same as the definition computes of all pairs of suffixes (`EitherEnd`), and swapping
    the words only turns the table (`Turned`);
  - every union leaves a forest in which ranks rise towards the root and the trees are the
    components of the pairs compared so far (`UnionHolds`, `ComparedHolds`, `ClusteredHolds`);
  - after each pin the answer holds the pins so far and a prefix of the organic results, in
    their orders, and the pin at its place or behind all results (`SplicedIs`, `PlacedIs`,
    `CurationIsExact`); `SortedPinsAre` says that the pins can be sorted.
- Documents, letters, the lengths of words, queries and revisions, the number of duplicates and
  of buckets are arbitrary. The shapes of expressions, the organic results and the keys and
  positions of pins are those that `Searching` defines. From `SearchingAssumption`.
  For the proof the folds became recursive functions over the rounds of the loops and the
  curated answer an operator of its own; TLC found both forms equal for the run's questions.

Only model-checked:

- the liveness properties (`WritersReturn`, the liveness of `ImplementsLog`,
  `ExpiredIsReaped`, `EveryJobEnds`, `StopEnds`, the posts of
  `SessionsSound`), which need fairness;
- `RequestsGuarded` and `WritesFollowed`, which are about the handlers the modules list
  and have no parameter to be general in.

## 5. Not modelled

- Several documents in one batch of `DocStore` (`RequestSteps` has the loops), several
  collections, several languages of a key.
- Entries of type DeleteBucket and Checkpoint, checksums and the byte layout of entries.
- Tokenising, stemming, similarity measures, scores of BM25, the HNSW, IVF and quantised
  indexes, distances on the globe: numerical or linguistic code whose results no small instance decides.
- Hashing, signatures, ciphers and the expiry of tokens; their outcome is a choice or a
  field of a record.
- Templates and calls to other systems, of which only the answer counts.
- Of the transports: decoding, formats of answers, status codes, several fields in one
  GraphQL request, and two requests at a time, which the modules of the stores interleave.
  More than a quarter of the repository's Go lines are generated from the protocol and
  GraphQL schemas and only dispatch.
- The panel, the chat service, extensions, plugins, benchmarks: clients of the API without
  state the server depends on. The adaptive index, the bloom filter and storage backends
  other than BoltDB.
- The follower's installation of a snapshot (`requestSnapshot`, `replaceDatabase`), which the
  program cannot reach: the refusal it waits for arrives at `Recv`.
- Which keys a bbolt cursor passes over when the bucket is changed during the iteration: the
  model lets it pass over any but the first.
- Errors of `saveJob` that the bulk worker ignores, and a failing `GeoStore.Put`.
- A restore that races with requests on the same node (the handler does not take the
  restore lock); in `Replication` a restore's swap is one step.
- `BulkIngestManager.Stop`, which the program never calls.
- A `Get` that finds its entry in the cache changes nothing the properties are about and
  is no action. In `DocStore` the extreme mode's second cache is the constant `Extreme`,
  which no run sets to TRUE; by itself it is `LockFreeCache`.
- The leader's followers other than one; followers do not interact.

## 6. Plan

1. Done: `Binlog`, `Replication`, `DocStore`, the services, the requests, the refinement of
   `AbstractLog`; the proofs of `Binlog`, `Replication`, `DocStore`, bulk jobs, key rotation,
   MCP keys, accounts, events, audit, scheduler, embeddings, registries, full-text index,
   limits, lifecycle events, deliveries, triggers, hybrid and vector search, the geo index, the
   algorithms behind a search and the layers of the extreme mode.
2. An abstract key-value specification that the single-document part of `DocStore` refines,
   with the proof.
