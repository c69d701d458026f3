----------------------------- MODULE Embeddings -----------------------------
(***************************************************************************)
(* Background embeddings: embedding_worker.go over internal/vector.        *)
(*                                                                         *)
(* A write queues the document's text; the workers embed it and store one  *)
(* vector per chunk under vec|collection|id#n, then add the chunks to the  *)
(* in-memory index and drop the chunks a shorter text no longer has.       *)
(* Reindex requests do the same from a list of documents; the gRPC one     *)
(* stores a single vector under the key without a chunk number.  A delete  *)
(* removes the vectors after it removed the document.  At start the index  *)
(* is loaded from the bucket in the background, while requests are served. *)
(*                                                                         *)
(* A vector is the text it was made from, which is also its ContentHash.   *)
(* The index is the flat one; a text has at most MaxChunks chunks.         *)
(***************************************************************************)
EXTENDS Integers, Sequences, FiniteSets, SequencesExt

CONSTANTS
  VDocs,        \* document ids of one collection
  VTexts,       \* texts
  ChunksOf,     \* [VTexts -> number of chunks ChunkText makes of it]
  MaxChunks,    \* bound on chunks
  EWorkers,     \* embedding workers
  EClients,     \* request handlers
  JobCap,       \* capacity of w.jobs
  NoVec,        \* "no vector", "no document"
  MaxEWrites,   \* bound on requests
  MaxFails,     \* bound on texts the provider fails to embed
  MaxECrashes   \* bound on restarts

ASSUME ChunksAssumption == MaxChunks \in Nat \ {0} /\ ChunksOf \in [VTexts -> 1..MaxChunks]
ASSUME VDocsAssumption == IsFiniteSet(VDocs)
ASSUME NoVecAssumption == NoVec \notin VTexts \cup VDocs
ASSUME JobCapAssumption == JobCap \in Nat \ {0}

VARIABLES
  edoc,    \* bucket docs: [VDocs -> text or NoVec]
  jobs,    \* w.jobs
  vectors, \* bucket vectors: [VDocs -> [Slots -> text or NoVec]]
  vindex,  \* the flat index, likewise
  task,    \* [Tasks -> [pc, todo, at, force]]: workers and handlers
  loader,  \* loadVectorIndex: what it has read, or NoVec when it is not running
  shared,  \* history: documents whose chunks were last put while another put was unfinished
  ewrites, fails, ecrashes

embVars == <<edoc, jobs, vectors, vindex, task, loader, shared, ewrites, fails, ecrashes>>
ebounds == <<ewrites, fails, ecrashes>>

Legacy == -1
ChunkSlots == 0..(MaxChunks - 1)
Slots == ChunkSlots \cup {Legacy}
Tasks == EWorkers \cup EClients
Job == [doc : VDocs, text : VTexts]
NoVectors == [d \in VDocs |-> [s \in Slots |-> NoVec]]
TIdle == [pc |-> "idle", todo |-> <<>>, at |-> 0, force |-> FALSE]

EmbInit ==
  /\ edoc = [d \in VDocs |-> NoVec]
  /\ jobs = <<>>
  /\ vectors = NoVectors /\ vindex = NoVectors
  /\ task = [p \in Tasks |-> TIdle]
  /\ loader = NoVec /\ shared = {}
  /\ ewrites = 0 /\ fails = 0 /\ ecrashes = 0

Doc(p) == Head(task[p].todo).doc
Text(p) == Head(task[p].todo).text
ChunkCount(p) == ChunksOf[Text(p)]

Goto(p, pc, at) == task' = [task EXCEPT ![p].pc = pc, ![p].at = at]
\* The next document of a reindex, or the end of the job.
NextDoc(p, pc) ==
  LET t == task[p] IN
    task' = [task EXCEPT ![p] =
      IF Len(t.todo) = 1 THEN TIdle
      ELSE [pc |-> pc, todo |-> Tail(t.todo), at |-> 0, force |-> t.force]]
Arrives(c) ==
  /\ c \in EClients /\ task[c].pc = "idle"
  /\ ewrites < MaxEWrites /\ ewrites' = ewrites + 1

-----------------------------------------------------------------------------
(* Requests. *)

\* A document is committed; its text goes to the queue after that.
EWrite(c, d, text) ==
  /\ Arrives(c)
  /\ edoc' = [edoc EXCEPT ![d] = text]
  /\ task' = [task EXCEPT ![c] = [TIdle EXCEPT !.pc = "enqueue", !.todo = <<[doc |-> d, text |-> text]>>]]
  /\ UNCHANGED <<jobs, vectors, vindex, loader, shared, fails, ecrashes>>

\* Enqueue: a full queue drops the job.
EEnqueue(c) ==
  /\ task[c].pc = "enqueue"
  /\ jobs' = IF Len(jobs) < JobCap THEN Append(jobs, Head(task[c].todo)) ELSE jobs
  /\ task' = [task EXCEPT ![c] = TIdle]
  /\ UNCHANGED <<edoc, vectors, vindex, loader, shared, ebounds>>

\* deleteDocumentInternal: the document ...
EDelete(c, d) ==
  /\ Arrives(c) /\ edoc[d] # NoVec
  /\ edoc' = [edoc EXCEPT ![d] = NoVec]
  /\ task' = [task EXCEPT ![c] = [TIdle EXCEPT !.pc = "delete", !.todo = <<[doc |-> d, text |-> edoc[d]]>>]]
  /\ UNCHANGED <<jobs, vectors, vindex, loader, shared, fails, ecrashes>>

\* ... then VectorStore.Delete.  It deletes the chunks under the cursor that finds them, and
\* a bolt cursor may pass over keys once its leaf has been changed: the key without a
\* number and the first chunk go, any later chunk may stay ...
VectorDelete(c) ==
  /\ task[c].pc = "delete"
  /\ \E left \in SUBSET (ChunkSlots \ {0}) :
       vectors' = [vectors EXCEPT ![Doc(c)] = [s \in Slots |-> IF s \in left THEN @[s] ELSE NoVec]]
  /\ Goto(c, "unindex", Legacy)
  /\ UNCHANGED <<edoc, jobs, vindex, loader, shared, ebounds>>

\* ... then the index, one key after the other, until the collection has none left.
Unindex(c) ==
  /\ task[c].pc = "unindex"
  /\ vindex' = [vindex EXCEPT ![Doc(c)][task[c].at] = NoVec]
  /\ IF task[c].at = MaxChunks - 1 \/ vindex' = NoVectors
       THEN task' = [task EXCEPT ![c] = TIdle]
       ELSE Goto(c, "unindex", task[c].at + 1)
  /\ UNCHANGED <<edoc, jobs, vectors, loader, shared, ebounds>>

\* handleVectorReindex and the gRPC VectorReindex list the documents first.
VectorReindex(c, pc, force) ==
  /\ Arrives(c)
  /\ LET order == SetToSeq({d \in VDocs : edoc[d] # NoVec}) IN
       /\ order # <<>>
       /\ task' = [task EXCEPT ![c] =
            [pc |-> pc, at |-> 0, force |-> force,
             todo |-> [i \in 1..Len(order) |-> [doc |-> order[i], text |-> edoc[order[i]]]]]]
  /\ UNCHANGED <<edoc, jobs, vectors, vindex, loader, shared, fails, ecrashes>>

-----------------------------------------------------------------------------
(* The steps of processJob, which the HTTP reindex shares. *)

TakeJob(w) ==
  /\ w \in EWorkers /\ task[w].pc = "idle" /\ jobs # <<>>
  /\ task' = [task EXCEPT ![w] = [TIdle EXCEPT !.pc = "check", !.todo = <<Head(jobs)>>]]
  /\ jobs' = Tail(jobs)
  /\ UNCHANGED <<edoc, vectors, vindex, loader, shared, ebounds>>

\* VectorStore.Get: the first chunk, or the key without a number.
Embedded(d) == IF vectors[d][0] # NoVec THEN vectors[d][0] ELSE vectors[d][Legacy]

\* A text that is embedded already is skipped, unless the reindex is forced.
Check(p) ==
  /\ task[p].pc \in {"check", "checkone"}
  /\ IF ~task[p].force /\ Embedded(Doc(p)) = Text(p)
       THEN NextDoc(p, task[p].pc)
       ELSE Goto(p, IF task[p].pc = "check" THEN "embed" ELSE "embedone", 0)
  /\ UNCHANGED <<edoc, jobs, vectors, vindex, loader, shared, ebounds>>

\* The provider fails on a chunk (a worker tries three times): the document is given up.
EmbedFails(p) ==
  /\ task[p].pc \in {"embed", "embedone"} /\ fails < MaxFails
  /\ fails' = fails + 1
  /\ NextDoc(p, IF task[p].pc = "embed" THEN "check" ELSE "checkone")
  /\ UNCHANGED <<edoc, jobs, vectors, vindex, loader, shared, ewrites, ecrashes>>

\* A task between PutChunks and the end of its clean-up.
Embedder(p) == task[p].pc \in {"add", "clean", "cleanold"}

\* PutChunks: all chunks in one transaction, over whatever is stored.
PutChunks(p) ==
  /\ task[p].pc = "embed"
  /\ vectors' = [vectors EXCEPT ![Doc(p)] =
       [s \in Slots |-> IF s \in 0..(ChunkCount(p) - 1) THEN Text(p) ELSE @[s]]]
  /\ Goto(p, "add", 0)
  /\ shared' = IF \E q \in Tasks \ {p} : Embedder(q) /\ Doc(q) = Doc(p)
                 THEN shared \cup {Doc(p)} ELSE shared \ {Doc(p)}
  /\ UNCHANGED <<edoc, jobs, vindex, loader, ebounds>>

\* The index takes the chunks one by one.
AddChunk(p) ==
  /\ task[p].pc = "add"
  /\ vindex' = [vindex EXCEPT ![Doc(p)][task[p].at] = Text(p)]
  /\ IF task[p].at + 1 = ChunkCount(p) THEN Goto(p, "clean", 0) ELSE Goto(p, "add", task[p].at + 1)
  /\ UNCHANGED <<edoc, jobs, vectors, loader, shared, ebounds>>

\* Mutant: the last chunk of the text goes with the stale ones.
CleanStaleChunksLast(p) ==
  /\ task[p].pc = "clean"
  /\ vectors' = [vectors EXCEPT ![Doc(p)] =
       [s \in Slots |-> IF s > 0 /\ s >= ChunkCount(p) - 1 THEN NoVec ELSE @[s]]]
  /\ NextDoc(p, "check")
  /\ UNCHANGED <<edoc, jobs, vindex, loader, shared, ebounds>>

\* CleanStaleChunks: chunks beyond the present count leave the bucket and the index, one at
\* least where there is any; this loop deletes under its cursor as well ...
CleanStaleChunks(p) ==
  /\ task[p].pc = "clean"
  /\ LET stale == {s \in ChunkSlots : s >= ChunkCount(p) /\ vectors[Doc(p)][s] # NoVec} IN
       \E gone \in SUBSET stale :
         /\ stale # {} => gone # {}
         /\ vectors' = [vectors EXCEPT ![Doc(p)] = [s \in Slots |-> IF s \in gone THEN NoVec ELSE @[s]]]
         /\ vindex' = [vindex EXCEPT ![Doc(p)] = [s \in Slots |-> IF s \in gone THEN NoVec ELSE @[s]]]
  /\ IF ChunkCount(p) > 1 THEN Goto(p, "cleanold", 0) ELSE NextDoc(p, "check")
  /\ UNCHANGED <<edoc, jobs, loader, shared, ebounds>>

\* ... and so does the key without a number, when the text has several chunks.
CleanLegacy(p) ==
  /\ task[p].pc = "cleanold"
  /\ IF vectors[Doc(p)][Legacy] # NoVec
       THEN /\ vectors' = [vectors EXCEPT ![Doc(p)][Legacy] = NoVec]
            /\ vindex' = [vindex EXCEPT ![Doc(p)][Legacy] = NoVec]
       ELSE UNCHANGED <<vectors, vindex>>
  /\ NextDoc(p, "check")
  /\ UNCHANGED <<edoc, jobs, loader, shared, ebounds>>

\* The gRPC reindex: VectorStore.Put under the key without a number, then the index.
PutOne(p) ==
  /\ task[p].pc = "embedone"
  /\ vectors' = [vectors EXCEPT ![Doc(p)][Legacy] = Text(p)]
  /\ Goto(p, "addone", 0)
  /\ UNCHANGED <<edoc, jobs, vindex, loader, shared, ebounds>>

AddOne(p) ==
  /\ task[p].pc = "addone"
  /\ vindex' = [vindex EXCEPT ![Doc(p)][Legacy] = Text(p)]
  /\ NextDoc(p, "checkone")
  /\ UNCHANGED <<edoc, jobs, vectors, loader, shared, ebounds>>

-----------------------------------------------------------------------------
\* The process dies with its queue and its index.
EmbCrash ==
  /\ ecrashes < MaxECrashes /\ ecrashes' = ecrashes + 1
  /\ jobs' = <<>> /\ vindex' = NoVectors
  /\ task' = [p \in Tasks |-> TIdle]
  /\ loader' = vectors
  /\ UNCHANGED <<edoc, vectors, shared, ewrites, fails>>

\* loadVectorIndex adds what it read, over what the workers have added meanwhile.
LoadIndex ==
  /\ loader # NoVec
  /\ vindex' = [d \in VDocs |-> [s \in Slots |->
                  IF loader[d][s] # NoVec THEN loader[d][s] ELSE vindex[d][s]]]
  /\ loader' = NoVec
  /\ UNCHANGED <<edoc, jobs, vectors, task, shared, ebounds>>

Work(p) ==
  \/ Check(p)
  \/ EmbedFails(p)
  \/ PutChunks(p)
  \/ AddChunk(p)
  \/ CleanStaleChunks(p)
  \/ CleanLegacy(p)
  \/ PutOne(p)
  \/ AddOne(p)

Serve(c) == EEnqueue(c) \/ VectorDelete(c) \/ Unindex(c)

EmbNext ==
  \/ \E c \in EClients, d \in VDocs, text \in VTexts : EWrite(c, d, text)
  \/ \E c \in EClients, d \in VDocs : EDelete(c, d)
  \/ \E c \in EClients, pc \in {"check", "checkone"}, force \in BOOLEAN : VectorReindex(c, pc, force)
  \/ \E c \in EClients : Serve(c)
  \/ \E w \in EWorkers : TakeJob(w)
  \/ \E p \in Tasks : Work(p)
  \/ EmbCrash
  \/ LoadIndex

EmbSpec == EmbInit /\ [][EmbNext]_embVars

-----------------------------------------------------------------------------
\* processJob trusts the ContentHash of the first chunk: a text whose hash it carries is
\* not embedded again.  That is sound unless the chunks were put while another worker or
\* reindex request had not finished with the document (PutChunks, CleanStaleChunks):
\* whatever was dropped, failed, deleted in part or lost in a crash, the text's other
\* chunks are stored as well.  Where two overlap, the clean-up after a shorter text takes
\* the chunks of a longer one.
SkipIsSound ==
  \A d \in VDocs \ shared : vectors[d][0] # NoVec =>
    \A s \in 0..(ChunksOf[vectors[d][0]] - 1) : vectors[d][s] = vectors[d][0]
=============================================================================
