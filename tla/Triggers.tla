------------------------------ MODULE Triggers ------------------------------
(***************************************************************************)
(* Whether a write fires a trigger: automation_trigger.go, with the hooks  *)
(* of document_ops.go and EnabledTriggersForEvent of automation.go.        *)
(*                                                                         *)
(* After a write or a delete has committed, a goroutine looks up the       *)
(* triggers of the event and searches the indexes for the document: the    *)
(* text index, which the request has updated by then, or, on a delete, is  *)
(* about to clean, and the vector index, which workers update later.  Other *)
(* requests write the same document, triggers and webhooks are edited      *)
(* meanwhile.  Delivery says what becomes of a firing.                     *)
(*                                                                         *)
(* There is one trigger.  A text has the BM25 score and the similarity it  *)
(* has for the trigger's query, and a tone that is in the sentiment range  *)
(* or not; it is not empty.  A hybrid search has the default parameters.   *)
(***************************************************************************)
EXTENDS Delivery, Fusion

CONSTANTS
  TgDocs,      \* documents of the trigger's collection
  TgTexts,     \* texts: [bm25, sim, tone]; sim is 0 or 1
  TgRules,     \* triggers: [search, threshold, sentiment, logic, events]
  MaxTgRequests, \* bound: requests
  TgTopK,      \* the limit of a trigger's search: 100
  NoTg,        \* no text
  MaxTgEdits   \* bound: edits of the trigger and its webhook, reindexes

ASSUME TriggersAssumption ==
  /\ TgTopK \in Nat \ {0} /\ {MaxTgRequests, MaxTgEdits} \subseteq Nat
  /\ IsFiniteSet(TgDocs) /\ \A d \in TgDocs, c \in {"id", "chunk"} : <<d, c>> \notin TgDocs
  /\ NoTg \notin TgTexts /\ \A t \in TgTexts : t.bm25 \in Nat /\ t.sim \in {0, 1}

\* Requests, in the order of their commits.
TgRequests == 1..MaxTgRequests

\* A vector's key in the flat index: the one reindexing over gRPC stores has no chunk number.
VecKeys == TgDocs \X {"id", "chunk"}

VARIABLES
  tgRule,   \* [rule, on]
  tgHook,   \* the webhook is enabled
  tgDoc,    \* bucket docs: [TgDocs -> text or NoTg]
  tgFts,    \* text index, likewise
  tgVec,    \* flat index: [VecKeys -> text or NoTg]
  tgJobs,   \* embeddings to be made: <<key, text>>
  tgReq,    \* [TgRequests -> [pc, doc, text, event]]
  tgEval,   \* [TgRequests -> [pc, rule, fts, crowded]]: the goroutine of a request
  tgRaced,  \* history: requests that met another one on their document
  tgStale,  \* history: documents with a vector that came after its text was replaced
  tgEdits

tgIndexes == <<tgFts, tgVec, tgJobs>>
tgRules == <<tgRule, tgHook, tgEdits>>
tgVars == <<tgRule, tgHook, tgDoc, tgFts, tgVec, tgJobs, tgReq, tgEval, tgRaced, tgStale, tgEdits>>

NoEval(rule) == [pc |-> "none", rule |-> rule, fts |-> <<>>, crowded |-> FALSE]

TriggersInit ==
  /\ tgRule \in [rule : TgRules, on : {TRUE}] /\ tgHook = TRUE
  /\ tgDoc = [d \in TgDocs |-> NoTg] /\ tgFts = tgDoc
  /\ tgVec = [k \in VecKeys |-> NoTg] /\ tgJobs = {}
  /\ tgReq = [r \in TgRequests |-> [pc |-> "idle", doc |-> NoTg, text |-> NoTg, event |-> ""]]
  /\ tgEval = [r \in TgRequests |-> NoEval(tgRule.rule)]
  /\ tgRaced = {} /\ tgStale = {} /\ tgEdits = 0

-----------------------------------------------------------------------------
(* Requests. *)

Searching(r) == tgEval[r].pc \in {"start", "conditions", "vectors"}
UnderWay(r) == tgReq[r].pc \notin {"idle", "done"} \/ Searching(r)

\* The commit.  A request on a document that another one is still busy with is marked.
Commits(r, d, text, event, pc) ==
  LET met == {q \in TgRequests \ {r} : tgReq[q].doc = d /\ UnderWay(q)} IN
    /\ tgReq[r].pc = "idle" /\ \A q \in 1..(r - 1) : tgReq[q].pc # "idle"
    /\ tgReq' = [tgReq EXCEPT ![r] = [pc |-> pc, doc |-> d, event |-> event,
                                      text |-> IF text = NoTg THEN tgDoc[d] ELSE text]]
    /\ tgDoc' = [tgDoc EXCEPT ![d] = text]
    /\ tgRaced' = tgRaced \cup met \cup (IF met = {} THEN {} ELSE {r})
    /\ UNCHANGED <<tgIndexes, tgEval, tgRules, tgStale>>

CommitWrite(r, d, text) ==
  Commits(r, d, text, IF tgDoc[d] = NoTg THEN "insert" ELSE "update", "enqueue")

CommitDelete(r, d) == tgDoc[d] # NoTg /\ Commits(r, d, NoTg, "delete", "unvector")

\* runPostWriteHooks: Enqueue ...  (A job that a full queue drops, or whose text cannot be
\* embedded, is one that stays in tgJobs.)
QueueEmbedding(r) ==
  /\ tgReq[r].pc = "enqueue"
  /\ tgJobs' = tgJobs \cup {<<<<tgReq[r].doc, "chunk">>, tgReq[r].text>>}
  /\ tgReq' = [tgReq EXCEPT ![r].pc = "index"]
  /\ UNCHANGED <<tgDoc, tgFts, tgVec, tgEval, tgRules, tgRaced, tgStale>>

\* ... the text index, and, with the hooks that do not matter here between them, the goroutine.
IndexThenEvaluate(r) ==
  /\ tgReq[r].pc = "index"
  /\ tgFts' = [tgFts EXCEPT ![tgReq[r].doc] = tgReq[r].text]
  /\ tgReq' = [tgReq EXCEPT ![r].pc = "done"]
  /\ tgEval' = [tgEval EXCEPT ![r].pc = "start"]
  /\ UNCHANGED <<tgDoc, tgVec, tgJobs, tgRules, tgRaced, tgStale>>

\* deleteDocumentInternal: the vectors go, the goroutine starts ...
RemoveVectors(r) ==
  /\ tgReq[r].pc = "unvector"
  /\ tgVec' = [k \in VecKeys |-> IF k[1] = tgReq[r].doc THEN NoTg ELSE tgVec[k]]
  /\ tgReq' = [tgReq EXCEPT ![r].pc = "unindex"]
  /\ tgEval' = [tgEval EXCEPT ![r].pc = "start"]
  /\ UNCHANGED <<tgDoc, tgFts, tgJobs, tgRules, tgRaced, tgStale>>

\* ... and the text index is cleaned while it runs.
RemoveFromFts(r) ==
  /\ tgReq[r].pc = "unindex"
  /\ tgFts' = [tgFts EXCEPT ![tgReq[r].doc] = NoTg]
  /\ tgReq' = [tgReq EXCEPT ![r].pc = "done"]
  /\ UNCHANGED <<tgDoc, tgVec, tgJobs, tgEval, tgRules, tgRaced, tgStale>>

\* processJob and the gRPC VectorReindex, when the provider has answered.
PutVector(job) ==
  /\ job \in tgJobs /\ tgJobs' = tgJobs \ {job}
  /\ tgVec' = [tgVec EXCEPT ![job[1]] = job[2]]
  /\ tgStale' = IF tgDoc[job[1][1]] = job[2] THEN tgStale ELSE tgStale \cup {job[1][1]}
  /\ UNCHANGED <<tgDoc, tgFts, tgReq, tgEval, tgRules, tgRaced>>

-----------------------------------------------------------------------------
(* Searches.  Each gives the sets of results it may give, equal scores being in any order. *)

FtsHits == {d \in TgDocs : tgFts[d] # NoTg /\ tgFts[d].bm25 > 0}
FtsSearch(limit) ==
  Tops(FtsHits, limit, {p \in FtsHits \X FtsHits : tgFts[p[1]].bm25 > tgFts[p[2]].bm25})

Similar(threshold) == {k \in VecKeys : tgVec[k] # NoTg /\ tgVec[k].sim * 100 >= threshold}
VectorSearch(threshold, limit) ==
  LET keys == Similar(threshold)
  IN Tops(keys, limit, {p \in keys \X keys : tgVec[p[1]].sim > tgVec[p[2]].sim})

\* runVectorSearch: the documents of the best chunks; none if the query could not be embedded.
HybridVectors(embeds) ==
  IF embeds THEN SearchChunks([k \in Similar(0) |-> tgVec[k].sim], 3 * TgTopK) ELSE {<<>>}

\* runFTSSearch: the scores of what the text index gave.
TextScores(top) == [d \in top |-> tgFts[d].bm25]

\* mergeAlpha and the threshold: the documents of a hybrid result.  Alpha is one half.
HybridMatches(rule, fts, vec) ==
  LET half == AlphaParts \div 2
      score(d) == AlphaScore(fts, vec, half, d)
  IN {{d \in top : score(d).num * 100 >= rule.threshold * score(d).den} : top \in MergeAlpha(fts, vec, half, TgTopK)}

-----------------------------------------------------------------------------
(* The goroutine of a request. *)

\* EnabledTriggersForEvent.
WatchedEvents(rule) == IF rule.events = {} THEN {"insert", "update"} ELSE rule.events

\* EvaluateTriggers: the trigger is copied.
EvaluateTriggers(r) ==
  /\ tgEval[r].pc = "start"
  /\ tgEval' = [tgEval EXCEPT ![r].rule = tgRule.rule,
                              ![r].pc = IF tgRule.on /\ tgReq[r].event \in WatchedEvents(tgRule.rule)
                                          THEN "conditions" ELSE "none"]
  /\ UNCHANGED <<tgDoc, tgIndexes, tgReq, tgRules, tgRaced, tgStale>>

\* evaluateSingleTrigger: the conditions that are set, joined by the trigger's logic.
Matched(rule, found, tone) ==
  LET conditions == (IF rule.search = "none" THEN {} ELSE {found}) \cup (IF rule.sentiment THEN {tone} ELSE {})
  IN IF rule.logic = "or" THEN conditions = {} \/ TRUE \in conditions ELSE FALSE \notin conditions

\* found: whether the search condition holds.  crowded: enough others were as good.
Conclude(r, found, crowded) ==
  /\ LET rule == tgEval[r].rule IN
       tgEval' = [tgEval EXCEPT ![r] =
         [NoEval(rule) EXCEPT !.pc = IF Matched(rule, found, tgReq[r].text.tone) THEN "matched" ELSE "unmatched",
                              !.crowded = crowded]]
  /\ UNCHANGED <<tgDoc, tgIndexes, tgReq, tgRules, tgRaced, tgStale>>

Evaluates(r, search) == tgEval[r].pc = "conditions" /\ tgEval[r].rule.search = search

EvalWithoutSearch(r) == Evaluates(r, "none") /\ Conclude(r, FALSE, FALSE)

\* evalFTS.
EvalFTS(r) ==
  /\ Evaluates(r, "fts")
  /\ LET d == tgReq[r].doc IN \E top \in FtsSearch(TgTopK) :
       Conclude(r, d \in top /\ tgFts[d].bm25 >= tgEval[r].rule.threshold,
                d \notin top /\ Cardinality(top) = TgTopK)

\* evalVector compares the key of a vector with the id of the document.
EvalVector(r, embeds) ==
  /\ Evaluates(r, "vector")
  /\ \E top \in VectorSearch(tgEval[r].rule.threshold, TgTopK) :
       Conclude(r, embeds /\ <<tgReq[r].doc, "id">> \in top, FALSE)

\* evalHybrid: the text index first, the vectors in a step of their own.
EvalHybridFTS(r) ==
  /\ Evaluates(r, "hybrid")
  /\ \E top \in FtsSearch(3 * TgTopK) :
       tgEval' = [tgEval EXCEPT ![r].pc = "vectors", ![r].fts = TextScores(top)]
  /\ UNCHANGED <<tgDoc, tgIndexes, tgReq, tgRules, tgRaced, tgStale>>

EvalHybrid(r, embeds) ==
  /\ tgEval[r].pc = "vectors"
  /\ \E vec \in HybridVectors(embeds) : \E S \in HybridMatches(tgEval[r].rule, tgEval[r].fts, vec) :
       Conclude(r, tgReq[r].doc \in S, FALSE)

\* The webhook is looked up as it is now; one that is disabled is logged as skipped.
ResolveWebhook(r) ==
  /\ tgEval[r].pc = "matched"
  /\ tgEval' = [tgEval EXCEPT ![r].pc = IF tgHook THEN "fired" ELSE "skipped"]
  /\ UNCHANGED <<tgDoc, tgIndexes, tgReq, tgRules, tgRaced, tgStale>>

-----------------------------------------------------------------------------
(* What administrators do. *)

Edit ==
  /\ tgEdits < MaxTgEdits /\ tgEdits' = tgEdits + 1
  /\ UNCHANGED <<tgDoc, tgFts, tgVec, tgReq, tgEval, tgRaced, tgStale>>

SwitchTrigger == Edit /\ tgRule' = [tgRule EXCEPT !.on = ~@] /\ UNCHANGED <<tgHook, tgJobs>>
SwitchWebhook == Edit /\ tgHook' = ~tgHook /\ UNCHANGED <<tgRule, tgJobs>>

\* The gRPC VectorReindex lists the documents.
ReindexById(d) ==
  /\ Edit /\ tgDoc[d] # NoTg
  /\ tgJobs' = tgJobs \cup {<<<<d, "id">>, tgDoc[d]>>}
  /\ UNCHANGED <<tgRule, tgHook>>

\* runTriggerHybrid, from what the two indexes may give.
HybridRuns(rule, tops, vecs) ==
  UNION {HybridMatches(rule, TextScores(top), vec) : top \in tops, vec \in vecs}

\* RunTrigger: what a dry run lists, under the names it lists them by.  It changes nothing.
RunTrigger(rule, embeds) ==
  CASE rule.search = "none" -> {{}}
    [] rule.search = "fts" -> {{d \in top : tgFts[d].bm25 >= rule.threshold} : top \in FtsSearch(TgTopK)}
    [] rule.search = "vector" -> IF embeds THEN VectorSearch(rule.threshold, TgTopK) ELSE {{}}
    [] OTHER -> HybridRuns(rule, FtsSearch(3 * TgTopK), HybridVectors(embeds))

TriggersNext ==
  \/ \E r \in TgRequests :
       \/ \E d \in TgDocs : CommitDelete(r, d) \/ \E text \in TgTexts : CommitWrite(r, d, text)
       \/ QueueEmbedding(r) \/ IndexThenEvaluate(r) \/ RemoveVectors(r) \/ RemoveFromFts(r)
       \/ EvaluateTriggers(r) \/ EvalWithoutSearch(r) \/ EvalFTS(r) \/ EvalHybridFTS(r)
       \/ \E embeds \in BOOLEAN : EvalVector(r, embeds) \/ EvalHybrid(r, embeds)
       \/ ResolveWebhook(r)
  \/ \E job \in tgJobs : PutVector(job)
  \/ SwitchTrigger \/ SwitchWebhook
  \/ \E d \in TgDocs : ReindexById(d)

TriggersSpec == TriggersInit /\ [][TriggersNext]_tgVars

-----------------------------------------------------------------------------
\* The text's own score reaches the threshold.
Reaches(rule, text) == text.bm25 > 0 /\ text.bm25 >= rule.threshold

\* A trigger on text or tone (evaluateSingleTrigger, evalFTS) fires for an insert or an update
\* exactly if the text that was written satisfies its conditions, although it is looked up later
\* by a goroutine; the exceptions are a document that another request writes meanwhile and one
\* that TgTopK others are as good as.  For a delete it fires for no other text, and may miss the
\* document, which leaves the index meanwhile.
FiredForWhatWasWritten ==
  \A r \in TgRequests \ tgRaced :
    LET e == tgEval[r]
        due == Matched(e.rule, Reaches(e.rule, tgReq[r].text), tgReq[r].text.tone)
    IN e.rule.search \in {"none", "fts"} =>
         /\ e.pc \in {"matched", "fired", "skipped"} =>
              due \/ (tgReq[r].event = "delete" /\ \E q \in tgRaced : tgReq[q].doc = tgReq[r].doc)
         /\ e.pc = "unmatched" => ~due \/ e.crowded \/ tgReq[r].event = "delete"

DocNamed(m) == IF m \in TgDocs THEN m ELSE m[1]

\* A dry run (RunTrigger) made while no request is under way lists documents that are stored,
\* and, for a trigger on text, documents whose stored text reaches the threshold, whatever came
\* before; the exceptions are documents that requests raced for and ones whose vector came late.
DryRunNamesStored ==
  (\A r \in TgRequests : ~UnderWay(r)) =>
    \A matches \in RunTrigger(tgRule.rule, TRUE) : \A m \in matches :
      (DocNamed(m) \notin tgStale /\ \A r \in tgRaced : tgReq[r].doc # DocNamed(m)) =>
        /\ tgDoc[DocNamed(m)] # NoTg
        /\ tgRule.rule.search = "fts" => Reaches(tgRule.rule, tgDoc[DocNamed(m)])

\* A write fires its trigger when it should (EvaluateTriggers), a dry run tells what there is
\* (RunTrigger), the automation log tells of every firing what happened to it, and a reader who
\* goes through it page by page is told of each once (fireAutomationWebhook, Log, List, cleanup).
DeliveriesTold == LogTruthful /\ PagesExact /\ FiredForWhatWasWritten /\ DryRunNamesStored
=============================================================================
