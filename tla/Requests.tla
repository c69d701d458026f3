------------------------------ MODULE Requests ------------------------------
(***************************************************************************)
(* How the server answers one request of any transport.  Every handler is  *)
(* a sequence of steps (RequestSteps), which this machine takes one at a   *)
(* time, so every early return and every point between two effects is a    *)
(* state.  The handlers share no memory but the stores, whose own modules  *)
(* interleave them; here each is followed from its arrival to its answer.  *)
(***************************************************************************)
EXTENDS Naturals, Sequences, SequencesExt, TLC

Http == INSTANCE HttpApi
Grpc == INSTANCE GrpcApi
Mcp == INSTANCE McpTools
Gql == INSTANCE GraphqlApi
Cli == INSTANCE CliClient

\* The routes of all transports.
Handlers ==
  Http!HttpDocuments @@ Http!HttpSearches @@ Http!HttpSettings @@ Http!HttpServer @@ Http!HttpMemory
  @@ Grpc!GrpcServer @@ Mcp!CalledTools @@ Mcp!McpOther @@ Gql!Query @@ Gql!Mutation

VARIABLES route,    \* the request's route, or "idle"
          global,   \* Server.Mode, "read" on a follower
          perProto, \* the transport's own mode, "unset" to inherit
          todo,     \* the steps the handler still has to take
          given, lacks,   \* the attributes the request is known to have or not
          touched,  \* the stores changed by committed transactions
          logged,   \* the stores whose last change was appended to the binlog
          told,     \* what was notified or brought up to date
          shown,    \* whether expired documents could be in the answer
          answer    \* "none" until the request is answered

requestVars == <<route, global, perProto, todo, given, lacks, touched, logged, told, shown, answer>>

OfDocument == Http!OfDocument

(***************************************************************************)
(* The machine.                                                            *)
(***************************************************************************)
effectiveMode == IF perProto # "unset" THEN perProto ELSE global

\* Nothing is known of the next request, and nothing was done for it.
Untold ==
  /\ given' = {} /\ lacks' = {} /\ touched' = {} /\ logged' = {} /\ told' = {} /\ shown' = {}

RequestsInit ==
  /\ route = "idle" /\ answer = "ok" /\ todo = <<>>
  /\ global \in {"read", "wr"} /\ perProto \in {"unset", "read", "wr"} \ {global}
  /\ given = {} /\ lacks = {} /\ touched = {} /\ logged = {} /\ told = {} /\ shown = {}

\* A request of any transport, or a command of the command line client.
Arrive ==
  /\ route = "idle"
  /\ \/ \E r \in DOMAIN Handlers : route' = r /\ todo' = Handlers[r]
     \/ \E c \in Cli!Commands : route' = c.path /\ todo' = c.steps
  /\ answer' = "none"
  /\ UNCHANGED <<global, perProto, given, lacks, touched, logged, told, shown>>

\* The answer is sent; the next request finds nothing of this one but the stores.
Leave ==
  /\ route # "idle" /\ answer # "none"
  /\ route' = "idle" /\ answer' = "ok" /\ Untold
  /\ UNCHANGED <<global, perProto, todo>>

Busy(do) == answer = "none" /\ todo # <<>> /\ Head(todo).do = do
Now == Head(todo)
Proceed(steps) == todo' = steps \o Tail(todo) /\ UNCHANGED answer

\* The request is answered; a write that guardWrite let through is recorded then.
Answered(a) ==
  /\ answer' = a /\ todo' = <<>>
  /\ told' = IF "guarded" \in given THEN told \union {"audit"} ELSE told

Route == <<route, global, perProto>>
Facts == <<given, lacks>>
Changes == <<touched, logged>>

\* A check passes, or answers the request.
TakeUnless ==
  /\ Busy("unless")
  /\ \/ Proceed(<<>>) /\ UNCHANGED told
     \/ \E why \in Now.on : Answered(why)
  /\ UNCHANGED <<Route, Facts, Changes, shown>>

TakeRefuse ==
  /\ Busy("refuse")
  /\ \E why \in Now.on : Answered(why)
  /\ UNCHANGED <<Route, Facts, Changes, shown>>

\* The handler returns, early or with nothing left to do; a client that called it
\* goes on with the answer.
Returned(steps) == SelectInSeq(steps, LAMBDA s : s.do = "back")
TakeReturn ==
  /\ Busy("done") \/ (answer = "none" /\ todo = <<>>)
  /\ LET i == Returned(todo)
     IN IF i = 0 THEN Answered("ok")
        ELSE todo' = SubSeq(todo, i, Len(todo)) /\ UNCHANGED <<answer, told>>
  /\ UNCHANGED <<Route, Facts, Changes, shown>>

TakeBack ==
  /\ Busy("back")
  /\ Proceed(<<>>)
  /\ UNCHANGED <<Route, Facts, Changes, told, shown>>

TakeMode ==
  /\ Busy("mode") \/ Busy("globalmode")
  /\ LET mode == IF Now.do = "mode" THEN effectiveMode ELSE global
     IN IF mode = "read" THEN Answered("readonly")
        ELSE Proceed(<<>>) /\ UNCHANGED told
  /\ UNCHANGED <<Route, Facts, Changes, shown>>

TakeNote ==
  /\ Busy("note")
  /\ Proceed(<<>>)
  /\ given' = given \union Now.on /\ lacks' = lacks \union Now.may
  /\ UNCHANGED <<Route, Changes, told, shown>>

TakeCommit ==
  /\ Busy("commit")
  /\ Proceed(<<>>)
  /\ \E also \in {{}, Now.may} :
       /\ touched' = touched \union Now.on \union also
       /\ logged' = logged \ (Now.on \union also)
  /\ UNCHANGED <<Route, Facts, told, shown>>

TakeFlush ==
  /\ Busy("flush")
  /\ Proceed(<<>>)
  /\ logged' = logged \union (touched \intersect Now.on)
  /\ UNCHANGED <<Route, Facts, touched, told, shown>>

TakeTell ==
  /\ Busy("tell")
  /\ Proceed(<<>>)
  /\ told' = told \union Now.on
  /\ UNCHANGED <<Route, Facts, Changes, shown>>

TakeShow ==
  /\ Busy("show")
  /\ Proceed(<<>>)
  /\ shown' = shown \union Now.on
  /\ UNCHANGED <<Route, Facts, Changes, told>>

\* What a request carries is found out at the first branch that asks for it.
TakeWhen ==
  /\ Busy("when")
  /\ \/ /\ Now.on \intersect lacks = {}
        /\ given' = given \union Now.on /\ Proceed(Now.of[1]) /\ UNCHANGED lacks
     \/ /\ Now.on \intersect given = {}
        /\ lacks' = lacks \union Now.on /\ Proceed(Now.of[2]) /\ UNCHANGED given
  /\ UNCHANGED <<Route, Changes, told, shown>>

TakeOneOf ==
  /\ Busy("oneof")
  /\ \E i \in DOMAIN Now.of : Proceed(Now.of[i])
  /\ UNCHANGED <<Route, Facts, Changes, told, shown>>

\* One more round of a loop, for another document, or its end.
TakeEach ==
  /\ Busy("each")
  /\ Proceed(<<>>) \/ Proceed(Append(Now.of[1], Now))
  /\ given' = given \ OfDocument /\ lacks' = lacks \ OfDocument
  /\ UNCHANGED <<Route, Changes, told, shown>>

RequestsNext ==
  \/ Arrive \/ Leave \/ TakeUnless \/ TakeRefuse \/ TakeReturn \/ TakeBack \/ TakeMode \/ TakeNote \/ TakeCommit
  \/ TakeFlush \/ TakeTell \/ TakeShow \/ TakeWhen \/ TakeOneOf \/ TakeEach

RequestsSpec == RequestsInit /\ [][RequestsNext]_requestVars

(***************************************************************************)
(* What the handlers promise.                                              *)
(***************************************************************************)
Answers == answer # "none"

\* What a read may leave behind: a hit of the temporal index, a filled cache, an
\* audit record, the level of what is logged.
ByReads == {"temporal", "readcache", "audit", "loglevel"}

\* What src/docs/API.md:127 says of the mode "read": a write is refused, so that no store,
\* index, worker or subscriber hears of it.  GraphQL asks for no mode, nor do the routes
\* of word lists, accounts and bulk jobs, and settings over HTTP ask for that of the server
\* and not for the transport's.
ReadModeHolds == effectiveMode = "read" => touched = {} /\ told \subseteq ByReads

\* The answers that blame the request, or say that a service is off: all but the success,
\* an answer that a client could not read, and what a store or a queue could not do.
Refusals ==
  {"readonly", "method", "input", "access", "schema", "absent", "disabled", "exists", "expired", "default",
   "running", "settled", "loading", "warming", "unknown", "unimplemented"}
\* A request that is refused has changed no store and told nobody but the audit: on every
\* route the checks of mode, permission, schema and input come before the first effect.
\* The time to live of a document added over GraphQL is a request of its own.
RefusedUntouched ==
  answer \in Refusals /\ route # "gql_add_document" => touched = {} /\ told \subseteq ByReads

\* The reads that look at the expiry of every document they show.  The others are those of
\* revisions, of the vector and geo indexes, of aggregates, and all but three of gRPC's.
ChecksExpiry ==
  {"http_get", "http_search", "http_export", "http_doc_meta", "http_fts", "http_hybrid", "http_memory_sessions",
   "http_memory_history", "http_memory_summarize", "grpc_get_document_meta", "grpc_fts", "grpc_hybrid_search",
   "mcp_search_documents", "mcp_full_text_search", "mcp_hybrid_search", "mcp_memory_list_sessions",
   "mcp_memory_session_history", "gql_document", "gql_search", "gql_fts"}
\* They never show a document that has expired and not been reaped yet.
ExpiredHidden == route \in ChecksExpiry => "any" \notin shown

\* A refusal comes before every effect, on every route of every transport, and the
\* document reads hide what has expired.
RequestsGuarded == RefusedUntouched /\ ExpiredHidden

\* Stores that followers do not copy, and the routes whose writes never reach the
\* binlog although the stores they change are copied.
NotCopied == {"auth", "mcpkeys", "bulkjobs", "spelldict"}
Unlogged ==
  {"http_restore", "grpc_restore", "mcp_restore_backup", "http_memory_message",
   "grpc_truncate", "mcp_truncate_revisions", "mcp_delete_collection", "gql_delete_collection",
   "mcp_update_document", "gql_update_document",
   "grpc_set_ttl", "mcp_set_ttl", "gql_set_ttl", "gql_add_document"}
\* What a request stored is in the binlog when it is answered.
StoredIsLogged ==
  Answers /\ route \notin Unlogged /\ "extreme" \notin given => touched \ NotCopied \subseteq logged

\* What is told of a document that was stored, and of one that was deleted.
Deletions ==
  {"http_delete", "http_delete_batch", "grpc_delete_document", "mcp_delete_document", "gql_delete_document",
   "grpc_delete_batch", "mcp_delete_documents_batch"}
Everyone == {"readcache", "webhooks", "sse", "triggers"}
Due ==
  IF route \in Deletions THEN Everyone \union {"vectors", "ttl", "fts", "geo"}
  ELSE Everyone \union {"temporal"}
       \union (IF "content" \in given THEN {"embedding", "fts"} ELSE {})
       \union (IF "expiry" \in given THEN {"ttl"} ELSE {})
       \union (IF "placed" \in given THEN {"geo"} ELSE {})
\* What the options of an ingest switch off.
Waived ==
  (IF "skip_embeddings" \in given THEN {"embedding"} ELSE {})
  \union (IF "skip_fts" \in given THEN {"fts"} ELSE {})
  \union (IF "skip_webhooks" \in given THEN {"webhooks", "sse"} ELSE {})
\* The requests that replace or empty whole collections: no document is written.
Wholesale ==
  {"http_restore", "grpc_restore", "mcp_restore_backup", "http_delete_collection", "grpc_delete_collection",
   "mcp_delete_collection", "gql_delete_collection"}
\* What the comment of runPostWriteHooks says of a document that was written (document_ops.go:165):
\* the pipeline of indexes, cache and subscribers runs "regardless of the transport".  The
\* updates and batches and SetTTL each have a path of their own that leaves some of it out.
HooksFollow == answer = "ok" /\ "docs" \in touched /\ route \notin Wholesale => Due \ Waived \subseteq told

\* The handlers that store or delete single documents through addDocument and
\* deleteDocumentInternal, the paths that the transports share.
SharedPath ==
  {"http_add", "http_upload", "http_import_url", "http_revision_restore", "http_memory_session",
   "http_memory_message", "http_memory_summarize", "http_delete", "http_delete_batch",
   "grpc_add", "grpc_import_url", "grpc_restore_revision", "grpc_delete_document",
   "mcp_add_document", "mcp_import_url", "mcp_restore_revision", "mcp_upload_file",
   "mcp_memory_start_session", "mcp_memory_add_message", "mcp_memory_summarize", "mcp_delete_document",
   "gql_import_url", "gql_delete_document"}
\* There nothing is left out, whatever the handler does before and after.
SharedPathFollows == route \in SharedPath => HooksFollow

\* The scheduler reloads a changed rule that runs on a schedule, unless MCP changed it.
CronFollows ==
  answer = "ok" /\ "automation" \in touched /\ "cron" \notin lacks
  /\ route \notin {"mcp_create_automation", "mcp_update_automation", "mcp_delete_automation"}
    => "cron" \in told

\* A document leaves its encrypted form only where a time to live is set: SetTTL of
\* every transport stores it with marshalDoc.
Sealed ==
  "plain" \in told => route \in {"http_set_ttl", "grpc_set_ttl", "mcp_set_ttl", "gql_set_ttl", "gql_add_document"}

\* Every write is followed through: to the binlog and the scheduler and in its encrypted
\* form but on the routes named above, and on the paths that the transports share to the
\* indexes, the cache and the subscribers.
WritesFollowed == StoredIsLogged /\ SharedPathFollows /\ CronFollows /\ Sealed
=============================================================================
