---------------------------- MODULE RequestSteps ----------------------------
(***************************************************************************)
(* The language in which the modules of the transports write a handler:    *)
(* the sequence of steps its code takes.  A step is a check that may       *)
(* refuse the request, a bolt transaction, the flush to the binlog that    *)
(* follows it, an index, cache or subscriber that is told, what a read     *)
(* shows, or a branch or loop over such steps.  Requests executes them.    *)
(* Payloads are abstracted to the attributes a handler branches on, stores *)
(* to their names, and every optional service may be absent only where the *)
(* handler answers with an error then.                                     *)
(***************************************************************************)
EXTENDS Sequences

Step(do, on, may, of) == [do |-> do, on |-> on, may |-> may, of |-> of]

\* A condition on the request or on what is stored, answered by an error.
Unless(why) == Step("unless", {why}, {}, <<>>)
BadMethod == Unless("method")
BadInput == Unless("input")
Forbidden == Unless("access")
Invalid == Unless("schema")
NotFound == Unless("absent")
Disabled == Unless("disabled")
Failed == Unless("failed")
Full == Unless("full")

\* An unconditional error, and an unconditional early return.
Refuse(why) == Step("refuse", {why}, {}, <<>>)
Done == Step("done", {}, {}, <<>>)
\* Where a client goes on when the handler it called has returned.
Back == Step("back", {}, {}, <<>>)

\* The two forms of the read-only check.
Mode == Step("mode", {}, {}, <<>>)
GlobalMode == Step("globalmode", {}, {}, <<>>)
\* What the caller fixes of the request; guardWrite notes that the answer is audited.
Note(has, lacksThese) == Step("note", has, lacksThese, <<>>)
Audited == Note({"guarded"}, {})

\* A committed bolt transaction changes all of must, and may what the data asks for.
Commit(must, may) == Step("commit", must, may, <<>>)
\* The operations collected in transactions, appended to the binlog after the commit.
FlushTo(stores) == Step("flush", stores, {}, <<>>)
\* A transaction whose failure is the request's.
Txn(must, may) == <<Failed, Commit(must, may)>>
\* Mutant: the Set of a store forgets the binlog.
SaveUnlogged(stores) == <<Failed, Commit(stores, {})>>
\* A store's own Set or Delete: a transaction and the append that follows it.
Save(stores) == <<Failed, Commit(stores, {}), FlushTo(stores)>>
\* What lives in memory or leaves the process: never fails the request.
Tell(whom) == Step("tell", whom, {}, <<>>)
\* A store's own Set or Delete whose error the caller throws away: it was told,
\* and whether it could do it makes no difference to the request.
Effort(stores) == Tell(stores)
\* Documents are put in the answer, the expired ones left out or not.
ShowFresh == Step("show", {"fresh"}, {}, <<>>)
ShowAny == Step("show", {"any"}, {}, <<>>)

\* What differs from one document of a request to the next: whether it has a body,
\* an expiry, and coordinates now or before.
OfDocument == {"content", "expiry", "placed"}

\* Control: a branch on an attribute of the request, one of several branches,
\* a branch that depends on data, and a loop.
IfElse(attr, steps, others) == Step("when", {attr}, {}, <<steps, others>>)
When(attr, steps) == IfElse(attr, steps, <<>>)
OneOf(branches) == Step("oneof", {}, {}, branches)
Maybe(steps) == OneOf(<<steps, <<>>>>)
Each(steps) == Step("each", {}, {}, <<steps>>)

\* A switch on the HTTP method, which ends in 405.
Methods(branches) == <<OneOf(Append(branches, <<Refuse("method")>>))>>

-----------------------------------------------------------------------------
(* The paths to the documents that the transports share. *)

Document == {"docs", "bykey", "idxmeta", "rev"}

\* The handlers' first lines: the body is decoded and its fields are asked for.
Decoded == <<BadInput, BadInput>>

RunPostWriteHooks ==
  <<When("content", <<Tell({"embedding"})>>), When("expiry", <<Effort({"ttl"})>>),
    When("content", <<Effort({"fts"})>>), When("placed", <<Effort({"geo"})>>),
    Tell({"temporal", "webhooks", "sse", "triggers"})>>

\* addDocument after its checks.  The caller says whether a revision is kept.
DocumentAdded(revisions) ==
  <<Commit({"docs", "bykey"} \union revisions, {"idxmeta"}), FlushTo(Document),
    Tell({"readcache"})>> \o RunPostWriteHooks
AddDocument(revisions) == <<BadInput, Invalid, Failed>> \o DocumentAdded(revisions)
\* The callers that pass a time to live of 0.
AddWithoutTTL(revisions) == <<Note({}, {"expiry"})>> \o AddDocument(revisions)

\* deleteDocumentInternal after its transaction has found the document.
DocumentDeleted ==
  <<Commit({"docs", "bykey"}, {"rev", "idxmeta"}), FlushTo(Document),
    Effort({"vectors"}), Effort({"ttl"}), Tell({"triggers", "readcache"}), Effort({"fts"}),
    Effort({"geo"}), Tell({"webhooks", "sse"})>>
DeleteDocumentInternal == <<NotFound, Failed>> \o DocumentDeleted

\* A batch: one transaction for all its documents, those in error left out.  The
\* extreme processor refreshes the cache inside it and logs nothing.
CommitBatch ==
  <<IfElse("extreme", <<Commit({"docs", "bykey"}, {"idxmeta", "rev"}), Tell({"readcache"})>>,
                      <<Commit({"docs", "bykey"}, {"idxmeta", "rev"}), FlushTo(Document)>>)>>
\* What the options of an ingest can switch off is asked for once per request.
BatchHooks ==
  <<IfElse("skip_embeddings", <<>>, <<When("content", <<Tell({"embedding"})>>)>>),
    When("expiry", <<Effort({"ttl"})>>), When("placed", <<Effort({"geo"})>>),
    Tell({"temporal"}),
    IfElse("skip_fts", <<>>, <<When("content", <<Effort({"fts"})>>)>>),
    IfElse("skip_webhooks", <<>>, <<Tell({"webhooks", "sse"})>>),
    Tell({"triggers"})>>
\* The loop runs at least once: a document was committed.
FirePostBatchHooks == BatchHooks \o <<Each(BatchHooks)>>
ProcessBatchWithDocs == <<Failed>> \o CommitBatch
\* postBatchOptions{}, the options of the callers that ask for every hook.
AllHooks == <<Note({}, {"skip_embeddings", "skip_fts", "skip_webhooks"})>>
\* A transaction that fails is reported per document in an answer that is not an error.
ProcessBatch == AllHooks \o <<Maybe(<<Done>>), Maybe(CommitBatch \o FirePostBatchHooks)>>
\* The documents, their keys, index entries and revisions go, and the cached copy
\* before the transaction commits; no index kept outside the transaction follows.
ProcessBatchDelete ==
  <<Maybe(<<Done>>), Tell({"readcache"}),
    Maybe(<<Commit({"docs", "bykey"}, {"idxmeta", "rev"}), FlushTo(Document)>>)>>
\* The metadata index is left to the index queue.
ProcessBatchUpdate ==
  <<Maybe(<<Done>>), Tell({"readcache"}),
    Maybe(<<Commit({"docs"}, {"rev"}), FlushTo(Document), Tell({"indexqueue"})>>)>>
\* The collection is configured before it is known that a document can be stored.
IngestDocuments ==
  <<Maybe(<<Effort({"colmeta"})>>), Maybe(<<Done>>)>> \o ProcessBatchWithDocs
  \o <<Each(<<When("expiry", <<Effort({"ttl"})>>)>>)>> \o FirePostBatchHooks
\* A document is classified by its stored vector, or by its text if it has not expired.
ClassifyDocument ==
  <<Disabled, BadInput, BadInput, BadInput,
    OneOf(<< <<Failed>>, <<ShowAny>>, <<NotFound, Unless("expired"), ShowFresh, BadInput, Failed>> >>), Failed>>
\* A search by coordinates: a filter on metadata that nothing meets answers at once,
\* the points are those of the index and the documents those of the store.
GeoAnswered == <<Unless("loading"), Maybe(<<Done>>), ShowAny>>
\* Each vector is stored and put in the indexes; a document that fails is counted and
\* the next one taken.
VectorsRebuilt ==
  <<Each(<<Maybe(<<Commit({"vectors"}, {}), FlushTo({"vectors"}), Tell({"vectorindex"})>>)>>)>>
=============================================================================
