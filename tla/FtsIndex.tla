------------------------------ MODULE FtsIndex ------------------------------
(***************************************************************************)
(* The full-text index behind a document write: internal/fts.              *)
(*                                                                         *)
(* A request commits its document and then runs the hooks: IndexWithLang,  *)
(* IndexPositionsWithLang and IndexFieldsWithLang, each a transaction of   *)
(* its own; a delete commits and then calls Remove.  FTSReindex reads the  *)
(* documents in one transaction and indexes them one after the other.      *)
(* After its transaction IndexWithLang (and Remove) flushes to the binlog  *)
(* what it did to the buckets fts and ftsrev; the follower applies the log *)
(* in order, so its index is brought up to date at the flush.  Lengths,    *)
(* totals, positions and field entries are not logged.                     *)
(*                                                                         *)
(* A text is what TokenizeLang makes of it: how often it has each term     *)
(* (stop words have none), per field.                                      *)
(***************************************************************************)
EXTENDS Integers, Sequences, FiniteSets, SequencesExt

CONSTANTS
  FDocs,       \* document ids of one collection
  Terms,       \* index terms
  Texts,       \* what requests write: [blank, content, meta]
  FClients,    \* request handlers
  NoText,      \* "no document"
  MaxFWrites,  \* bound on writes, deletes and reindex requests
  MaxFCrashes  \* bound on crashes

Fields == {"content", "meta"}
Bag == [Terms -> Nat]
Stat == [docs : Nat, terms : Nat]

ASSUME TextsAssumption == Texts \subseteq [blank : BOOLEAN, content : Bag, meta : Bag]
ASSUME NoTextAssumption == NoText \notin Texts
ASSUME FtsFiniteAssumption == IsFiniteSet(FDocs) /\ IsFiniteSet(Terms)

VARIABLES
  fdoc,     \* bucket docs: [FDocs -> text or NoText]
  idx,      \* the index buckets (see Empty below)
  rpost, rrev,  \* post and rev on a follower, all that is logged
  astray,   \* history: documents of which log entries were lost or changed places
  fclient,  \* [FClients -> [pc, todo, unsent]]: documents to index, log entry to flush
  fwrites, fcrashes

ftsVars == <<fdoc, idx, rpost, rrev, astray, fclient, fwrites, fcrashes>>
follower == <<rpost, rrev, astray>>

Zero == [t \in Terms |-> 0]
TermsOf(bag) == {t \in Terms : bag[t] > 0}
Length(bag) == MapThenSumSet(LAMBDA t : bag[t], Terms)
FieldTerms(text) == {p \in Fields \X Terms : text[p[1]][p[2]] > 0}
FieldsOf(entries) == {e[1] : e \in entries}

\* post: fts; rev, len, stat: the three kinds of key in ftsrev; pos, posrev: ftspos;
\* fpost, frev, flen, fstat: ftsf, ftsfrev, ftsfmeta, ftsfstat.
Empty ==
  [post  |-> [d \in FDocs |-> Zero],
   rev   |-> [d \in FDocs |-> {}],
   len   |-> [d \in FDocs |-> 0],
   stat  |-> [docs |-> 0, terms |-> 0],
   pos   |-> [d \in FDocs |-> {}],
   posrev |-> [d \in FDocs |-> {}],
   fpost |-> [d \in FDocs |-> [f \in Fields |-> Zero]],
   frev  |-> [d \in FDocs |-> {}],
   flen  |-> [d \in FDocs |-> [f \in Fields |-> 0]],
   fstat |-> [f \in Fields |-> [docs |-> 0, terms |-> 0]]]

NoFlush == [doc |-> NoText, gone |-> {}, put |-> Zero, rev |-> {}]
FIdle == [pc |-> "idle", todo |-> <<>>, unsent |-> NoFlush]

FtsInit ==
  /\ fdoc = [d \in FDocs |-> NoText]
  /\ idx = Empty
  /\ rpost = Empty.post /\ rrev = Empty.rev /\ astray = {}
  /\ fclient = [c \in FClients |-> FIdle]
  /\ fwrites = 0 /\ fcrashes = 0

-----------------------------------------------------------------------------
(* What the transactions do to the buckets. *)

\* The postings of d after the terms gone were deleted and the bag put.
Reposted(post, gone, put) ==
  [t \in Terms |-> IF put[t] > 0 THEN put[t] ELSE IF t \in gone THEN 0 ELSE post[t]]

\* IndexBM25Meta: the length of d, and the totals of the collection.
IndexBM25Meta(ix, d, length) ==
  [ix EXCEPT !.len[d] = length,
             !.stat = IF ix.len[d] > 0
                        THEN [docs |-> ix.stat.docs, terms |-> ix.stat.terms - ix.len[d] + length]
                        ELSE [docs |-> ix.stat.docs + 1, terms |-> ix.stat.terms + length]]

\* A document of that length leaves the totals; they stop at zero.
Less(stat, length) ==
  [docs  |-> IF stat.docs > 0 THEN stat.docs - 1 ELSE 0,
   terms |-> IF stat.terms >= length THEN stat.terms - length ELSE 0]

RemoveBM25Meta(ix, d) ==
  IF ix.len[d] = 0 THEN ix
  ELSE [ix EXCEPT !.len[d] = 0, !.stat = Less(ix.stat, ix.len[d])]

\* removeFieldData: the fields that the reverse entry names.
RemoveFieldData(ix, d) ==
  LET named == FieldsOf(ix.frev[d]) IN
  [ix EXCEPT !.fpost[d] = [f \in Fields |-> [t \in Terms |->
                             IF <<f, t>> \in ix.frev[d] THEN 0 ELSE @[f][t]]],
             !.fstat = [f \in Fields |-> IF f \in named /\ ix.flen[d][f] > 0
                             THEN Less(@[f], ix.flen[d][f]) ELSE @[f]],
             !.flen[d] = [f \in Fields |-> IF f \in named THEN 0 ELSE @[f]],
             !.frev[d] = {}]

\* IndexFieldsWithLang, for a text that has a term in some field.
AddFieldData(ix, d, text) ==
  LET named == FieldsOf(FieldTerms(text)) IN
  [ix EXCEPT !.fpost[d] = [f \in Fields |-> Reposted(@[f], {}, text[f])],
             !.flen[d] = [f \in Fields |-> IF f \in named THEN Length(text[f]) ELSE @[f]],
             !.fstat = [f \in Fields |-> IF f \in named
                             THEN [docs |-> @[f].docs + 1, terms |-> @[f].terms + Length(text[f])]
                             ELSE @[f]],
             !.frev[d] = FieldTerms(text)]

-----------------------------------------------------------------------------
FStep(c, pc, todo, entry) ==
  fclient' = [fclient EXCEPT ![c] = [pc |-> pc, todo |-> todo, unsent |-> entry]]

\* What is left to do once the head of todo has been through the three indexes.
Onward(c) ==
  LET todo == fclient[c].todo IN
    FStep(c, IF Len(todo) = 1 THEN "idle" ELSE "index", Tail(todo), NoFlush)

\* A request commits a document; a batch may skip the index.
FWrite(c, d, text) ==
  /\ fclient[c].pc = "idle" /\ fwrites < MaxFWrites /\ fwrites' = fwrites + 1
  /\ fdoc' = [fdoc EXCEPT ![d] = text]
  /\ \/ ~text.blank /\ FStep(c, "index", <<[doc |-> d, text |-> text]>>, NoFlush)
     \/ UNCHANGED fclient
  /\ UNCHANGED <<idx, follower, fcrashes>>

FDelete(c, d) ==
  /\ fclient[c].pc = "idle" /\ fwrites < MaxFWrites /\ fwrites' = fwrites + 1
  /\ fdoc[d] # NoText
  /\ fdoc' = [fdoc EXCEPT ![d] = NoText]
  /\ FStep(c, "remove", <<[doc |-> d, text |-> fdoc[d]]>>, NoFlush)
  /\ UNCHANGED <<idx, follower, fcrashes>>

\* FTSReindex collects the documents that have content, in key order.
FTSReindex(c) ==
  /\ fclient[c].pc = "idle" /\ fwrites < MaxFWrites /\ fwrites' = fwrites + 1
  /\ LET ds == {d \in FDocs : fdoc[d] # NoText /\ ~fdoc[d].blank}
         order == SetToSeq(ds)
     IN /\ ds # {}
        /\ FStep(c, "index", [i \in 1..Len(order) |->
                                [doc |-> order[i], text |-> fdoc[order[i]]]], NoFlush)
  /\ UNCHANGED <<fdoc, idx, follower, fcrashes>>

\* Mutant: the former terms are not looked up.
IndexWithLangOver(c) ==
  /\ fclient[c].pc = "index"
  /\ LET d == Head(fclient[c].todo).doc
         bag == Head(fclient[c].todo).text.content IN
     /\ idx' = IndexBM25Meta([idx EXCEPT !.post[d] = Reposted(@, {}, bag),
                                         !.rev[d] = TermsOf(bag)], d, Length(bag))
     /\ FStep(c, "flush", fclient[c].todo, NoFlush)
  /\ UNCHANGED <<fdoc, follower, fwrites, fcrashes>>

\* IndexWithLang: a text without terms changes nothing.
IndexWithLang(c) ==
  /\ fclient[c].pc = "index"
  /\ LET d == Head(fclient[c].todo).doc
         bag == Head(fclient[c].todo).text.content IN
     IF TermsOf(bag) = {}
       THEN /\ FStep(c, "positions", fclient[c].todo, NoFlush)
            /\ UNCHANGED idx
       ELSE /\ idx' = IndexBM25Meta([idx EXCEPT !.post[d] = Reposted(@, idx.rev[d], bag),
                                                !.rev[d] = TermsOf(bag)], d, Length(bag))
            /\ FStep(c, "flush", fclient[c].todo,
                     [doc |-> d, gone |-> idx.rev[d], put |-> bag, rev |-> TermsOf(bag)])
  /\ UNCHANGED <<fdoc, follower, fwrites, fcrashes>>

AfterFlush(c) ==
  IF fclient[c].unsent.rev = {} THEN Onward(c) ELSE FStep(c, "positions", fclient[c].todo, NoFlush)

\* Documents of which a client has yet to flush an entry.
Unflushed(cs) == {fclient[c].unsent.doc : c \in {x \in cs : fclient[x].pc = "flush"}}

\* FlushTo after the transaction, and what the follower makes of it.
FtsFlush(c) ==
  /\ fclient[c].pc = "flush"
  /\ LET e == fclient[c].unsent IN
       /\ rpost' = [rpost EXCEPT ![e.doc] = Reposted(@, e.gone, e.put)]
       /\ rrev' = [rrev EXCEPT ![e.doc] = e.rev]
       /\ astray' = astray \cup ({e.doc} \cap Unflushed(FClients \ {c}))
  /\ AfterFlush(c)
  /\ UNCHANGED <<fdoc, idx, fwrites, fcrashes>>

IndexPositionsWithLang(c) ==
  /\ fclient[c].pc = "positions"
  /\ LET d == Head(fclient[c].todo).doc
         terms == TermsOf(Head(fclient[c].todo).text.content) IN
       idx' = IF terms = {} THEN idx
              ELSE [idx EXCEPT !.pos[d] = (@ \ idx.posrev[d]) \cup terms, !.posrev[d] = terms]
  /\ FStep(c, "fields", fclient[c].todo, NoFlush)
  /\ UNCHANGED <<fdoc, follower, fwrites, fcrashes>>

IndexFieldsWithLang(c) ==
  /\ fclient[c].pc = "fields"
  /\ LET d == Head(fclient[c].todo).doc
         text == Head(fclient[c].todo).text IN
       idx' = IF FieldTerms(text) = {} THEN idx
              ELSE AddFieldData(RemoveFieldData(idx, d), d, text)
  /\ Onward(c)
  /\ UNCHANGED <<fdoc, follower, fwrites, fcrashes>>

\* Remove: every index of d in one transaction.
FtsRemove(c) ==
  /\ fclient[c].pc = "remove"
  /\ LET d == Head(fclient[c].todo).doc
         unposted == [idx EXCEPT !.post[d] = Reposted(@, idx.rev[d], Zero), !.rev[d] = {},
                                 !.pos[d] = @ \ idx.posrev[d], !.posrev[d] = {}] IN
       /\ idx' = RemoveFieldData(RemoveBM25Meta(unposted, d), d)
       /\ FStep(c, "flush", fclient[c].todo,
                [doc |-> d, gone |-> idx.rev[d], put |-> Zero, rev |-> {}])
  /\ UNCHANGED <<fdoc, follower, fwrites, fcrashes>>

\* The process dies between two transactions.
FtsCrash ==
  /\ fcrashes < MaxFCrashes /\ fcrashes' = fcrashes + 1
  /\ fclient' = [c \in FClients |-> FIdle]
  /\ astray' = astray \cup Unflushed(FClients)
  /\ UNCHANGED <<fdoc, idx, rpost, rrev, fwrites>>

FtsNext ==
  \/ \E c \in FClients : \/ \E d \in FDocs, text \in Texts : FWrite(c, d, text)
                         \/ \E d \in FDocs : FDelete(c, d)
                         \/ FTSReindex(c)
                         \/ IndexWithLang(c)
                         \/ FtsFlush(c)
                         \/ IndexPositionsWithLang(c)
                         \/ IndexFieldsWithLang(c)
                         \/ FtsRemove(c)
  \/ FtsCrash

FtsSpec == FtsInit /\ [][FtsNext]_ftsVars

-----------------------------------------------------------------------------
\* Every index entry can be found again from its document (IndexWithLang, removeFieldData,
\* removePositionsInTx): the reverse entries name exactly the terms posted, so that the
\* next update or Remove deletes them all, whatever order the indexing of two writes of
\* one document, a reindex and a crash came in.  The postings are those of one text.
NoOrphanEntries ==
  \A d \in FDocs :
    /\ idx.rev[d] = TermsOf(idx.post[d])
    /\ idx.posrev[d] = idx.pos[d]
    /\ idx.frev[d] = FieldTerms(idx.fpost[d])
    /\ idx.post[d] \in {Zero} \cup {text.content : text \in Texts}

\* The totals that BM25 and BM25F divide by are exact (IndexBM25Meta, RemoveBM25Meta,
\* removeFieldData): after any sequence of updates, deletes and reindexing they count the
\* documents that are indexed and add up their lengths.
StatsExact ==
  /\ idx.stat = [docs  |-> Cardinality({d \in FDocs : idx.len[d] > 0}),
                 terms |-> MapThenSumSet(LAMBDA d : idx.len[d], FDocs)]
  /\ \A d \in FDocs : idx.len[d] = Length(idx.post[d])
  /\ \A f \in Fields :
       /\ idx.fstat[f] = [docs  |-> Cardinality({d \in FDocs : idx.flen[d][f] > 0}),
                          terms |-> MapThenSumSet(LAMBDA d : idx.flen[d][f], FDocs)]
       /\ \A d \in FDocs : idx.flen[d][f] = Length(idx.fpost[d][f])

\* REPLICATION.md: "Full-text index | Yes | FTS tokens in BoltDB".  Once what was done to a
\* document is flushed, the follower has the leader's postings and reverse entry of it
\* (IndexWithLang, Remove, FlushTo): each entry undoes what the one before it did, so this
\* needs every one of them in the order of the transactions.  Documents whose entries were
\* lost in a crash, or flushed in another order by two requests, are excepted; they differ
\* for good.
FollowerTermsAgree ==
  \A d \in FDocs \ (astray \cup Unflushed(FClients)) :
    rpost[d] = idx.post[d] /\ rrev[d] = idx.rev[d]

\* The buckets of the full-text index agree with each other in every committed state
\* (IndexWithLang, IndexFieldsWithLang, IndexPositionsWithLang, Remove): every posting can be
\* taken back, the totals are those of the documents indexed, and followers copy them.
IndexSound == NoOrphanEntries /\ StatsExact /\ FollowerTermsAgree
=============================================================================
