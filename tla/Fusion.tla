------------------------------- MODULE Fusion -------------------------------
(***************************************************************************)
(* Hybrid and vector search: hybrid_search.go, fts_handlers.go,            *)
(* internal/vector/vector_index.go, internal/vector/vector_parallel.go.    *)
(*                                                                         *)
(* A search may switch stemming or synonyms off for itself; it does so in  *)
(* the index all searches share, and puts back what it found when it       *)
(* returns.  What searches compute is asked as questions in one step.      *)
(*                                                                         *)
(* Scores are natural numbers or, where ranks are fused, fractions         *)
(* [num, den].  sort.Slice leaves entries of one score in any order, so a  *)
(* result is a choice among all the orders it may give.                    *)
(***************************************************************************)
EXTENDS Integers, Sequences, FiniteSets, SequencesExt

CONSTANTS
  Searches,      \* requests
  FuDocs,        \* documents
  FuScores,      \* scores, positive numbers
  RRFK,          \* req.RRFK (60)
  AlphaParts,    \* alpha is a / AlphaParts
  MaxEntries, MaxWorkers, MaxMinSize   \* bounds: vectors, worker counts and sizes looked at

ASSUME FusionAssumption ==
  /\ {RRFK, AlphaParts, MaxEntries, MaxWorkers, MaxMinSize} \subseteq Nat \ {0}
  /\ IsFiniteSet(FuDocs) /\ FuScores \subseteq Nat \ {0}

Switches == {"stemmer", "synonyms"}
AllOn == [w \in Switches |-> TRUE]

VARIABLES
  switch,     \* FTSIndex.stemmer, .synonymManager: TRUE where one is installed
  finder,     \* [Searches -> [pc, orig, off]]
  overlapped, \* history: a search found another's switches
  fused       \* [kind, ...]: the question

fusionVars == <<switch, finder, overlapped, fused>>

FusionInit ==
  /\ switch = AllOn
  /\ finder = [q \in Searches |-> [pc |-> "idle", orig |-> AllOn, off |-> {}]]
  /\ overlapped = FALSE
  /\ fused = [kind |-> "none"]

-----------------------------------------------------------------------------
(* handleFTS and runFTSSearch. *)

Running(q) == finder[q].pc \notin {"idle", "done"}

\* origStemmer and origSynonyms.
SaveSwitches(q, off) ==
  /\ finder[q].pc = "idle" /\ fused.kind = "none"
  /\ finder' = [finder EXCEPT ![q] = [pc |-> "saved", orig |-> switch, off |-> off]]
  /\ overlapped' = (overlapped \/ \E r \in Searches : Running(r) /\ (finder[r].off \cup off) # {})
  /\ UNCHANGED <<switch, fused>>

SwitchOff(q) ==
  /\ finder[q].pc = "saved"
  /\ switch' = [w \in Switches |-> IF w \in finder[q].off THEN FALSE ELSE switch[w]]
  /\ finder' = [finder EXCEPT ![q].pc = "searching"]
  /\ UNCHANGED <<overlapped, fused>>

\* The search returns with results, with an error, or without any document that the filter
\* allows.
SearchReturns(q, how) ==
  /\ finder[q].pc = "searching"
  /\ finder' = [finder EXCEPT ![q].pc = "restore"]
  /\ UNCHANGED <<switch, overlapped, fused>>

\* The deferred function.
RestoreSwitches(q) ==
  /\ finder[q].pc = "restore"
  /\ switch' = finder[q].orig
  /\ finder' = [finder EXCEPT ![q].pc = "done"]
  /\ UNCHANGED <<overlapped, fused>>

-----------------------------------------------------------------------------
(* Results. *)

\* The sets of topK documents that sorting by score may leave.
\* ahead is the set of pairs of which the first has the higher score.
Tops(docs, topK, ahead) ==
  {S \in SUBSET docs : /\ Cardinality(S) = IF Cardinality(docs) < topK THEN Cardinality(docs) ELSE topK
                       /\ \A d \in S, e \in docs \ S : <<e, d>> \notin ahead}

RankIn(list, d) == IF \E i \in DOMAIN list : list[i] = d THEN CHOOSE i \in DOMAIN list : list[i] = d ELSE 0

Plus(a, b) == [num |-> a.num * b.den + b.num * a.den, den |-> a.den * b.den]
Above(a, b) == a.num * b.den > b.num * a.den
NoShare == [num |-> 0, den |-> 1]
Share(list, d) == IF RankIn(list, d) = 0 THEN NoShare ELSE [num |-> 1, den |-> RRFK + RankIn(list, d)]

\* Mutant: the second loop assigns instead of adding.
RrfScoreAssigned(ftsList, vecList, d) ==
  IF RankIn(vecList, d) # 0 THEN Share(vecList, d) ELSE Share(ftsList, d)

\* mergeRRF: the score of a document.
RrfScore(ftsList, vecList, d) == Plus(Share(ftsList, d), Share(vecList, d))

Members(list) == {list[i] : i \in DOMAIN list}

MergeRRF(ftsList, vecList, topK) ==
  LET docs == Members(ftsList) \cup Members(vecList)
  IN Tops(docs, topK, {p \in docs \X docs :
                         Above(RrfScore(ftsList, vecList, p[1]), RrfScore(ftsList, vecList, p[2]))})

Lowest(S) == CHOOSE x \in S : \A y \in S : x <= y
Highest(S) == CHOOSE x \in S : \A y \in S : x >= y
ScoresOf(f) == {f[d] : d \in DOMAIN f}

\* normalizeFTS, for a score of the list: scores are positive.
NormalizeFTS(fts, d) ==
  LET low == Lowest(ScoresOf(fts))
      high == Highest(ScoresOf(fts))
  IN IF high = low THEN [num |-> 1, den |-> 1] ELSE [num |-> fts[d] - low, den |-> high - low]

\* mergeAlpha: (1 - alpha) * ftsScore + alpha * vectorScore, 0 where a list lacks the document.
AlphaScore(fts, vec, a, d) ==
  LET f == IF d \in DOMAIN fts THEN NormalizeFTS(fts, d) ELSE NoShare
      v == IF d \in DOMAIN vec THEN vec[d] ELSE 0
  IN Plus([num |-> (AlphaParts - a) * f.num, den |-> AlphaParts * f.den],
          [num |-> a * v, den |-> AlphaParts])

MergeAlpha(fts, vec, a, topK) ==
  LET docs == DOMAIN fts \cup DOMAIN vec
  IN Tops(docs, topK, {p \in docs \X docs :
                         Above(AlphaScore(fts, vec, a, p[1]), AlphaScore(fts, vec, a, p[2]))})

ChunkSize(n, workers) == (n + workers - 1) \div workers

\* What one worker scores.
ScoreRange(n, size, w) ==
  LET start == w * size
      end == IF start + size < n THEN start + size ELSE n
  IN IF start >= n THEN <<>> ELSE [i \in 1..end - start |-> start + i]

\* parallelScore: the entries the workers score, in the order they are merged in.
ParallelScore(n, cfgWorkers, minSize) ==
  LET most == (n + minSize - 1) \div minSize
      workers == IF cfgWorkers < most THEN cfgWorkers ELSE most
      merged[w \in 0..workers] ==
        IF w = 0 THEN <<>> ELSE merged[w - 1] \o ScoreRange(n, ChunkSize(n, workers), w - 1)
  IN IF workers <= 1 THEN [i \in 1..n |-> i] ELSE merged[workers]

\* DeduplicateChunkResults: best.
BestScore(hits, scores, d) == Highest({scores[c] : c \in {x \in hits : x[1] = d}})

\* Search and DeduplicateChunkResults: the documents of the topK best chunks.
SearchChunks(scores, topK) ==
  {[d \in {c[1] : c \in hits} |-> BestScore(hits, scores, d)] :
     hits \in Tops(DOMAIN scores, topK, {p \in (DOMAIN scores) \X (DOMAIN scores) : scores[p[1]] > scores[p[2]]})}

-----------------------------------------------------------------------------
Rankings == {s \in UNION {[1..n -> FuDocs] : n \in 0..Cardinality(FuDocs)} :
               \A i, j \in DOMAIN s : s[i] = s[j] => i = j}
Scored(S) == UNION {[D -> FuScores] : D \in SUBSET S}

Ask(question) ==
  /\ fused.kind = "none" /\ \A q \in Searches : finder[q].pc = "idle"
  /\ fused' = question
  /\ UNCHANGED <<switch, finder, overlapped>>

AskRrf == \E f, v \in Rankings : Ask([kind |-> "rrf", fts |-> f, vec |-> v])
AskAlpha == \E f, v \in Scored(FuDocs), a \in 1..AlphaParts : Ask([kind |-> "alpha", fts |-> f, vec |-> v, a |-> a])
AskParallel == \E n \in 1..MaxEntries, w \in 1..MaxWorkers, s \in 1..MaxMinSize :
                 Ask([kind |-> "parallel", n |-> n, workers |-> w, minSize |-> s])
AskChunks == \E scores \in Scored(FuDocs \X {1, 2}) : Ask([kind |-> "chunks", scores |-> scores])

FusionNext ==
  \/ AskRrf \/ AskAlpha \/ AskParallel \/ AskChunks
  \/ \E q \in Searches :
       \/ \E off \in SUBSET Switches : SaveSwitches(q, off)
       \/ SwitchOff(q) \/ RestoreSwitches(q)
       \/ \E how \in {"found", "error", "none"} : SearchReturns(q, how)

FusionSpec == FusionInit /\ [][FusionNext]_fusionVars

-----------------------------------------------------------------------------
\* Stemming and synonyms (runFTSSearch) are on again after searches that switched them off and
\* returned in whatever way, and off exactly for the search that asked, as long as no search
\* begins while another one that switches, or is switched for, runs.  (Where they overlap the
\* index may stay without its stemmer.)
SwitchesRestored ==
  ~overlapped =>
    /\ (\A q \in Searches : ~Running(q)) => switch = AllOn
    /\ \A q \in Searches : finder[q].pc = "searching" =>
         \A w \in Switches : switch[w] <=> w \notin finder[q].off

\* Better: ahead of the other, which may be absent.
Better(list, d, e) == RankIn(list, d) # 0 /\ (RankIn(list, e) = 0 \/ RankIn(list, d) < RankIn(list, e))

\* Fused ranks (mergeRRF) respect agreement: a document that is ahead of another in one list
\* and not behind it in the other is in every result the other is in, however the sort orders
\* equal scores.
RrfDominates ==
  fused.kind = "rrf" =>
    \A d, e \in Members(fused.fts) \cup Members(fused.vec) :
      (/\ Better(fused.fts, d, e) \/ Better(fused.vec, d, e)
       /\ ~Better(fused.fts, e, d) /\ ~Better(fused.vec, e, d))
        => \A topK \in 1..Cardinality(FuDocs) :
             \A S \in MergeRRF(fused.fts, fused.vec, topK) : e \in S => d \in S

Has(f, d) == IF d \in DOMAIN f THEN f[d] ELSE 0

\* Blended scores (mergeAlpha) respect agreement: a document with the higher vector score that
\* is not behind in the text scores is in every result the other is in, and one that is behind
\* in neither never scores less, although scores are stretched to 0..1 and absence counts 0.
AlphaDominates ==
  fused.kind = "alpha" =>
    \A d, e \in DOMAIN fused.fts \cup DOMAIN fused.vec :
      (Has(fused.fts, d) >= Has(fused.fts, e) /\ Has(fused.vec, d) >= Has(fused.vec, e)) =>
        /\ ~Above(AlphaScore(fused.fts, fused.vec, fused.a, e), AlphaScore(fused.fts, fused.vec, fused.a, d))
        /\ Has(fused.vec, d) > Has(fused.vec, e) =>
             \A topK \in 1..Cardinality(FuDocs) :
               \A S \in MergeAlpha(fused.fts, fused.vec, fused.a, topK) : e \in S => d \in S

\* parallelScore scores every vector exactly once, whatever the numbers of vectors, workers and
\* the minimum size: also where rounding leaves the last workers nothing.
ParallelAgrees ==
  fused.kind = "parallel" =>
    ParallelScore(fused.n, fused.workers, fused.minSize) = [i \in 1..fused.n |-> i]

\* Search keeps the best chunks and DeduplicateChunkResults their documents: each document found
\* has its true best score, and none that is left out is better than one that is found.
DedupIsPrefix ==
  fused.kind = "chunks" =>
    LET best(d) == BestScore(DOMAIN fused.scores, fused.scores, d)
        docs == {c[1] : c \in DOMAIN fused.scores}
    IN \A topK \in 1..3 : \A r \in SearchChunks(fused.scores, topK) :
         \A d \in DOMAIN r :
           /\ \A c \in DOMAIN fused.scores : c[1] = d => r[d] >= fused.scores[c]
           /\ \A e \in docs \ DOMAIN r : best(e) <= r[d]

\* No result leaves out a document that is at least as good in every respect as one it has
\* (mergeRRF, mergeAlpha, parallelScore, DeduplicateChunkResults), however work was divided and
\* equal scores were ordered, and the switches a search turns off are on again afterwards.
ResultsSound == SwitchesRestored /\ RrfDominates /\ AlphaDominates /\ ParallelAgrees /\ DedupIsPrefix
=============================================================================
