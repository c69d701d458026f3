------------------------------ MODULE Searching -----------------------------
(***************************************************************************)
(* The algorithms behind a search that compute an answer from their input  *)
(* alone, each next to the definition it is supposed to implement:         *)
(*                                                                         *)
(*   fts_boolean.go      SearchBoolean, combineResults                     *)
(*   fts_query_expr.go   evalExpr and the maps it combines                 *)
(*   fts_fuzzy.go        levenshteinDistance                               *)
(*   curation_apply.go   collectPinsAndHides, splicePinned                 *)
(*   duplicates.go       the union-find behind findSimilarDuplicates       *)
(*   aggregation.go      findBucket                                        *)
(*   delta.go            DeltaEncoder                                      *)
(*                                                                         *)
(* The state is the question asked; every question is one step from the    *)
(* initial state.  Scores are left out: documents are matched or not.      *)
(***************************************************************************)
EXTENDS Integers, Sequences, FiniteSets

CONSTANTS
  SDocs,       \* documents of a collection
  Letters,     \* bytes of words and of revisions
  MaxWord,     \* longest word or revision
  MaxClauses,  \* longest boolean query
  MaxDups,     \* documents compared by findSimilarDuplicates
  MaxBuckets,  \* buckets of a histogram
  DeltaHeader  \* bytes of a delta before its middle part (12)

ASSUME SearchingAssumption ==
  {MaxWord, MaxClauses, MaxDups, MaxBuckets, DeltaHeader} \subseteq Nat

VARIABLE asked   \* [kind, ...]: the question
searchVars == <<asked>>

Words == UNION {[1..n -> Letters] : n \in 0..MaxWord}
Least(S) == CHOOSE x \in S : \A y \in S : x <= y
Greatest(S) == CHOOSE x \in S : \A y \in S : x >= y

ItemsOf(s) == {s[i] : i \in DOMAIN s}

\* The loop that keeps of a list what belongs to K.
Filtered(s, K) ==
  LET kept[n \in 0..Len(s)] ==
        IF n = 0 THEN <<>> ELSE IF s[n] \in K THEN Append(kept[n - 1], s[n]) ELSE kept[n - 1]
  IN kept[Len(s)]

-----------------------------------------------------------------------------
(* Boolean queries: clauses [neg, op, docs], docs being what the clause's  *)
(* own search returned and op "" where none was written.                   *)

OpOf(c, default) == IF c.op = "" THEN default ELSE c.op
Positive(q) == Filtered(q, {c \in ItemsOf(q) : ~c.neg})
Excluded(q) == UNION {q[i].docs : i \in {j \in DOMAIN q : q[j].neg}}

\* combineResults: starts with the first positive clause and goes through the clauses from the
\* second on, counting the positive ones.
CombineResults(q, default) ==
  LET pos == Positive(q)
      combined[i \in 0..Len(q) - 1] ==
        IF i = 0 THEN [docs |-> pos[1].docs, next |-> 2]
        ELSE LET acc == combined[i - 1]
             IN IF q[i + 1].neg \/ acc.next > Len(pos) THEN acc
                ELSE [docs |-> IF OpOf(q[i + 1], default) = "OR" THEN acc.docs \cup pos[acc.next].docs
                               ELSE acc.docs \cap pos[acc.next].docs,
                      next |-> acc.next + 1]
  IN IF pos = <<>> THEN {} ELSE combined[Len(q) - 1].docs

SearchBoolean(q, default) == CombineResults(q, default) \ Excluded(q)

AskBoolean ==
  /\ asked.kind = "none"
  /\ \E n \in 1..MaxClauses, default \in {"AND", "OR"} :
       \E q \in [1..n -> [neg : BOOLEAN, op : {"", "AND", "OR"}, docs : SUBSET SDocs]] :
         asked' = [kind |-> "boolean", q |-> q, default |-> default]

-----------------------------------------------------------------------------
(* Query expressions.  A map of evalExpr is a function from documents to   *)
(* whether the entry carries the mark of an exclusion.  isNegated looks at *)
(* whichever entry Go's map iteration gives first, so an evaluation has a  *)
(* set of outcomes.                                                        *)

Leaf(S) == [op |-> "leaf", docs |-> S]
Not(t) == [op |-> "not", of |-> t]
Both(o, l, r) == [op |-> o, left |-> l, right |-> r]

ResultsToMap(docs) == [d \in docs |-> FALSE]
IsNegated(m) == IF DOMAIN m = {} THEN {FALSE} ELSE {m[d] : d \in DOMAIN m}
Subtract(keep, drop) == [d \in DOMAIN keep \ DOMAIN drop |-> keep[d]]
Merge(l, r) == [d \in DOMAIN l \cup DOMAIN r |-> IF d \in DOMAIN l THEN l[d] ELSE r[d]]

\* intersectScores: AND, with an exclusion on either side or on both.
Intersect(l, r) ==
  {IF ln /\ rn THEN Merge(l, r)
   ELSE IF ln THEN Subtract(r, l)
   ELSE IF rn THEN Subtract(l, r)
   ELSE [d \in DOMAIN l \cap DOMAIN r |-> l[d]] : ln \in IsNegated(l), rn \in IsNegated(r)}

\* Any outcome of a part may meet any of the other.
NegateScores(ms) == {[d \in DOMAIN m |-> TRUE] : m \in ms}
IntersectScores(ls, rs) == UNION {Intersect(l, r) : l \in ls, r \in rs}
UnionScores(ls, rs) == {Merge(l, r) : l \in ls, r \in rs}

Atoms == {Leaf(S) : S \in SUBSET SDocs} \cup {Not(Leaf(S)) : S \in SUBSET SDocs}
Pairs == {Both(o, l, r) : o \in {"and", "or"}, l \in Atoms, r \in Atoms}
Exprs == Atoms \cup {Both(o, l, r) : o \in {"and", "or"}, l \in Atoms \cup Pairs, r \in Atoms}

EvalExpr[t \in Exprs] ==
  IF t.op = "leaf" THEN {ResultsToMap(t.docs)}
  ELSE IF t.op = "not" THEN NegateScores(EvalExpr[t.of])
  ELSE IF t.op = "and" THEN IntersectScores(EvalExpr[t.left], EvalExpr[t.right])
  ELSE UnionScores(EvalExpr[t.left], EvalExpr[t.right])

AskExpr ==
  /\ asked.kind = "none"
  /\ \E t \in Exprs : asked' = [kind |-> "expr", t |-> t]

-----------------------------------------------------------------------------
(* Edit distance.                                                          *)

\* One pass of the outer loop of levenshteinDistance: curr from prev.
NextRow(a, b, prev, j) ==
  LET row[i \in 0..Len(a)] ==
        IF i = 0 THEN j
        ELSE Least({prev[i] + 1, row[i - 1] + 1, prev[i - 1] + (IF a[i] = b[j] THEN 0 ELSE 1)})
  IN row

\* levenshteinDistance, with the shorter word along the rows.
LevenshteinDistance(x, y) ==
  LET a == IF Len(x) > Len(y) THEN y ELSE x
      b == IF Len(x) > Len(y) THEN x ELSE y
      rows[j \in 0..Len(b)] == IF j = 0 THEN [i \in 0..Len(a) |-> i] ELSE NextRow(a, b, rows[j - 1], j)
  IN IF Len(x) = 0 THEN Len(y)
     ELSE IF Len(y) = 0 THEN Len(x)
     ELSE rows[Len(b)][Len(a)]

AskDistance ==
  /\ asked.kind = "none"
  /\ \E x \in Words, y \in Words : asked' = [kind |-> "distance", x |-> x, y |-> y]

-----------------------------------------------------------------------------
(* Curation.  A document is its key, a number; Organic is the search's own *)
(* answer, Stored the documents that exist.  A rule is [hides, pins], a    *)
(* pin [key, pos].                                                         *)

Organic == <<1, 2, 3>>
Stored == 1..4
PinKeys == {1, 4, 5}
Positions == {0, 1, 2, 9}
Pins == [key : PinKeys, pos : Positions]

\* pinLess
PinLess(a, b) ==
  IF (a.pos <= 0) # (b.pos <= 0) THEN b.pos <= 0
  ELSE IF a.pos <= 0 \/ a.pos = b.pos THEN a.key < b.key
  ELSE a.pos < b.pos

\* All pins, rule after rule.
AllPins(rules) ==
  LET upto[n \in 0..Len(rules)] == IF n = 0 THEN <<>> ELSE upto[n - 1] \o rules[n].pins
  IN upto[Len(rules)]

\* collectPinsAndHides: the last pin of a key counts; the list is sorted by position.
LastPins(all) == {all[i] : i \in {i \in DOMAIN all : \A j \in DOMAIN all : all[j].key = all[i].key => j <= i}}
SortedPins(S) ==
  CHOOSE s \in [1..Cardinality(S) -> S] : \A i, j \in DOMAIN s : i < j => PinLess(s[i], s[j])

HidesOf(rules) == UNION {rules[i].hides : i \in DOMAIN rules}

\* splicePinnedFTS and splicePinnedHybrid: organic results fill the slots before each pin.
Fill(base, front, n, acc) ==
  Least({Greatest({0, front[n].pos - 1 - Len(acc.out)}), Len(base) - acc.used})
Spliced(base, front, n, acc) ==
  [out |-> acc.out \o SubSeq(base, acc.used + 1, acc.used + Fill(base, front, n, acc)) \o <<front[n].key>>,
   used |-> acc.used + Fill(base, front, n, acc)]

\* The pins with a position, then the results that are left, then the other pins.
SplicePinned(base, pinned) ==
  LET front == Filtered(pinned, {p \in Pins : p.pos > 0})
      tail == Filtered(pinned, {p \in Pins : p.pos <= 0})
      placed[n \in 0..Len(front)] ==
        IF n = 0 THEN [out |-> <<>>, used |-> 0] ELSE Spliced(base, front, n, placed[n - 1])
      end == placed[Len(front)]
  IN end.out \o SubSeq(base, end.used + 1, Len(base)) \o [i \in DOMAIN tail |-> tail[i].key]

\* applyCurationFTS: pinned documents leave their organic place; pins that do not resolve are
\* ignored (loadPinnedFTS).
ApplyCuration(rules) ==
  LET pins == LastPins(AllPins(rules))
      base == Filtered(Organic, ItemsOf(Organic) \ (HidesOf(rules) \cup {p.key : p \in pins}))
  IN SplicePinned(base, Filtered(SortedPins(pins), {p \in Pins : p.key \in Stored}))

AskCuration ==
  /\ asked.kind = "none"
  /\ \E hides \in {{}, {1}, {2}}, n \in 0..2, m \in 0..1 :
       \E ps \in [1..n -> Pins], more \in [1..m -> Pins] :
         asked' = [kind |-> "curation",
                   rules |-> <<[hides |-> hides, pins |-> ps], [hides |-> {}, pins |-> more]>>]

-----------------------------------------------------------------------------
(* Groups of duplicates: union-find over the documents 1..MaxDups, pairs   *)
(* being the ones found similar, in the order of the two loops.            *)

\* find, without the path halving, which changes no root.
FindRoot(parent) ==
  LET root[x \in 1..MaxDups] == IF parent[x] = x THEN x ELSE root[parent[x]]
  IN root

\* union by rank
Union(uf, x, y) ==
  LET rx == FindRoot(uf.parent)[x]
      ry == FindRoot(uf.parent)[y]
      top == IF uf.rank[rx] < uf.rank[ry] THEN ry ELSE rx
      low == IF uf.rank[rx] < uf.rank[ry] THEN rx ELSE ry
  IN IF rx = ry THEN uf
     ELSE [parent |-> [uf.parent EXCEPT ![low] = top],
           rank |-> [uf.rank EXCEPT ![top] = @ + (IF uf.rank[rx] = uf.rank[ry] THEN 1 ELSE 0)]]

\* The two loops: a document and those after it.
Compared(pairs, uf, i) ==
  LET compared[j \in 0..MaxDups] ==
        IF j = 0 THEN uf
        ELSE IF <<i, j>> \in pairs THEN Union(compared[j - 1], i, j) ELSE compared[j - 1]
  IN compared[MaxDups]
Clustered(pairs) ==
  LET clustered[i \in 0..MaxDups] ==
        IF i = 0 THEN [parent |-> [x \in 1..MaxDups |-> x], rank |-> [x \in 1..MaxDups |-> 0]]
        ELSE Compared(pairs, clustered[i - 1], i)
  IN clustered[MaxDups]

Groups(pairs) ==
  LET root == FindRoot(Clustered(pairs).parent)
  IN {{j \in 1..MaxDups : root[j] = root[i]} : i \in 1..MaxDups}

AskGroups ==
  /\ asked.kind = "none"
  /\ \E pairs \in SUBSET {p \in (1..MaxDups) \X (1..MaxDups) : p[1] < p[2]} :
       asked' = [kind |-> "groups", pairs |-> pairs]

-----------------------------------------------------------------------------
(* The bucket of a time.  Buckets are consecutive, of lengths 1 and 2.     *)

\* findBucket, with 0 for -1 and buckets numbered from 1; the loop takes at most a round for
\* each bucket.
FindBucket(from, to, ts) ==
  LET round[n \in 0..Len(from)] ==
        IF n = 0 THEN [lo |-> 1, hi |-> Len(from), at |-> 0]
        ELSE LET s == round[n - 1]
                 mid == (s.lo + s.hi) \div 2
             IN IF s.lo > s.hi \/ s.at # 0 THEN s
                ELSE IF ts < from[mid] THEN [s EXCEPT !.hi = mid - 1]
                ELSE IF ts >= to[mid] THEN [s EXCEPT !.lo = mid + 1]
                ELSE [s EXCEPT !.at = mid]
  IN round[Len(from)].at

AskBucket ==
  /\ asked.kind = "none"
  /\ \E n \in 0..MaxBuckets, ts \in 0..2 * MaxBuckets + 1 :
       \E width \in [1..n -> 1..2] :
         LET end[i \in 0..n] == IF i = 0 THEN 1 ELSE end[i - 1] + width[i]
         IN asked' = [kind |-> "bucket", ts |-> ts,
                      from |-> [i \in 1..n |-> end[i - 1]], to |-> [i \in 1..n |-> end[i]]]

-----------------------------------------------------------------------------
(* Delta encoding of revisions.                                            *)

PrefixLen(old, new) ==
  Greatest({n \in 0..Least({Len(old), Len(new)}) : \A i \in 1..n : old[i] = new[i]})

\* Mutant: prefix and suffix may overlap.
SuffixLenOverlaps(old, new) ==
  Greatest({n \in 0..Least({Len(old), Len(new)}) :
              \A i \in 0..n - 1 : old[Len(old) - i] = new[Len(new) - i]})

\* The suffix stops where the prefix of the shorter one ends.
SuffixLen(old, new) ==
  Greatest({n \in 0..Least({Len(old), Len(new)}) - PrefixLen(old, new) :
              \A i \in 0..n - 1 : old[Len(old) - i] = new[Len(new) - i]})

\* Encode: a delta when there is a base and the delta is shorter, else the full data.
Encode(old, new) ==
  LET p == PrefixLen(old, new)
      s == SuffixLen(old, new)
      middle == SubSeq(new, p + 1, Len(new) - s)
  IN IF old # <<>> /\ DeltaHeader + Len(middle) < Len(new)
     THEN [flag |-> 1, prefix |-> p, suffix |-> s, data |-> middle]
     ELSE [flag |-> 0, data |-> new]

\* Decode, applyDelta
Decode(base, e) ==
  IF e.flag = 0 THEN e.data
  ELSE SubSeq(base, 1, e.prefix) \o e.data \o SubSeq(base, Len(base) - e.suffix + 1, Len(base))

AskDelta ==
  /\ asked.kind = "none"
  /\ \E old \in Words, new \in Words : asked' = [kind |-> "delta", old |-> old, new |-> new]

-----------------------------------------------------------------------------
SearchInit == asked = [kind |-> "none"]
SearchNext ==
  \/ AskBoolean \/ AskExpr \/ AskDistance \/ AskCuration \/ AskGroups \/ AskBucket \/ AskDelta
SearchSpec == SearchInit /\ [][SearchNext]_searchVars

-----------------------------------------------------------------------------
\* What an expression means.
Matches[t \in Exprs] ==
  IF t.op = "leaf" THEN t.docs
  ELSE IF t.op = "not" THEN SDocs \ Matches[t.of]
  ELSE IF t.op = "and" THEN Matches[t.left] \cap Matches[t.right]
  ELSE Matches[t.left] \cup Matches[t.right]

\* NOT stands beside something it is taken from, and excludes something.
Excludes(t) == t.op = "not" /\ t.of.op = "leaf" /\ t.of.docs # {}
Sensible[t \in Exprs] ==
  IF t.op = "leaf" THEN TRUE
  ELSE IF t.op = "not" THEN FALSE
  ELSE IF t.op = "or" THEN Sensible[t.left] /\ Sensible[t.right]
  ELSE \/ Sensible[t.left] /\ (Sensible[t.right] \/ Excludes(t.right))
       \/ Excludes(t.left) /\ Sensible[t.right]

\* evalExpr passes NOT up as a marked set and hopes the next AND sees the mark: for every
\* expression in which NOT is taken from something and excludes something, the answer is what
\* the expression means, whichever entry isNegated happens to look at.  (An exclusion that
\* matches nothing has no entry to carry the mark, and empties the answer instead.)
ExprExact ==
  asked.kind = "expr" /\ Sensible[asked.t]
    => \A m \in EvalExpr[asked.t] : DOMAIN m = Matches[asked.t]

\* What a boolean query means, read from the left: a document comes in with a positive clause,
\* the first or one behind OR, and every positive clause behind AND after that one has it too.
Found(q, default) ==
  LET ors == {i \in DOMAIN q : ~q[i].neg /\ (i = 1 \/ OpOf(q[i], default) = "OR")}
      ands(i) == {j \in i + 1..Len(q) : ~q[j].neg /\ OpOf(q[j], default) # "OR"}
  IN {d \in SDocs : \E i \in ors : d \in q[i].docs /\ \A j \in ands(i) : d \in q[j].docs}

\* SearchBoolean evaluates positive clauses with a second counter beside the clause index: as
\* long as the first clause is positive, each operator is applied to the clause it stands
\* before, and negated clauses anywhere take their documents away.
BooleanExact ==
  asked.kind = "boolean" =>
    (~asked.q[1].neg => SearchBoolean(asked.q, asked.default)
                          = Found(asked.q, asked.default) \ Excluded(asked.q))

\* Distance by definition, of what is left of both words.
EditDistance(x, y) ==
  LET left[from \in (0..Len(x)) \X (0..Len(y))] ==
        LET i == from[1]
            j == from[2]
        IN IF i = Len(x) THEN Len(y) - j
           ELSE IF j = Len(y) THEN Len(x) - i
           ELSE Least({left[<<i + 1, j>>] + 1, left[<<i, j + 1>>] + 1,
                       left[<<i + 1, j + 1>>] + (IF x[i + 1] = y[j + 1] THEN 0 ELSE 1)})
  IN left[<<0, 0>>]

\* levenshteinDistance keeps two rows and swaps the words so that the rows are short; it still
\* computes the edit distance, whichever word is longer.
DistanceExact ==
  asked.kind = "distance" => LevenshteinDistance(asked.x, asked.y) = EditDistance(asked.x, asked.y)

\* What is asked of a curated answer: each document once, the shown ones and those pinned, the
\* organic ones in their order, a pin whose position no other wants at its place, and the pins
\* without a position last.
Curated(rules, out) ==
  LET all == rules[1].pins \o rules[2].pins
      final(k) == all[Greatest({i \in DOMAIN all : all[i].key = k})].pos
      pinned == {all[i].key : i \in DOMAIN all} \cap Stored
      shown == {Organic[i] : i \in DOMAIN Organic} \ HidesOf(rules)
      front == {k \in pinned : final(k) > 0}
      slot(k) == CHOOSE i \in DOMAIN out : out[i] = k
  IN /\ Cardinality({out[i] : i \in DOMAIN out}) = Len(out)
     /\ {out[i] : i \in DOMAIN out} = pinned \cup shown
     /\ \A j, k \in shown \ pinned : j < k => slot(j) < slot(k)
     /\ (\A j, k \in front : final(j) = final(k) => j = k) =>
          \A k \in front :
            slot(k) = Least({final(k), Cardinality(shown \ pinned) + 1
                                       + Cardinality({j \in front : final(j) < final(k)})})
     /\ \A k \in pinned \ front : \A j \in front \cup (shown \ pinned) : slot(j) < slot(k)

\* applyCurationFTS: "Positive Positions place pins at that 1-based slot; clamped to the end if
\* out of range.  Position<=0 pins are appended after all organic results", "Later rules
\* overwrite earlier pins for the same key" (curation_apply.go).  The answer holds each
\* document once, hidden ones only when pinned, organic ones in their order, and every pin whose
\* position no other pin wants at its place.
PinsPlaced == asked.kind = "curation" => Curated(asked.rules, ApplyCuration(asked.rules))

\* findSimilarDuplicates clusters transitively: two documents share a group exactly when a chain
\* of similar pairs joins them, whatever order and ranks the unions went by.
GroupsAreComponents ==
  asked.kind = "groups" =>
    LET similar(i, j) == <<i, j>> \in asked.pairs \/ <<j, i>> \in asked.pairs
        closed(S) == \A i \in S, j \in 1..MaxDups : similar(i, j) => j \in S
        component(i) == CHOOSE S \in SUBSET (1..MaxDups) :
                          /\ i \in S /\ closed(S)
                          /\ \A R \in SUBSET S : i \in R /\ closed(R) => R = S
    IN Groups(asked.pairs) = {component(i) : i \in 1..MaxDups}

\* findBucket finds the bucket that holds the time, and none for a time outside all of them, at
\* both ends of every bucket.
BucketFound ==
  asked.kind = "bucket" =>
    LET i == FindBucket(asked.from, asked.to, asked.ts)
        holds == {j \in DOMAIN asked.from : asked.from[j] <= asked.ts /\ asked.ts < asked.to[j]}
    IN IF holds = {} THEN i = 0 ELSE i \in holds

\* Decode gives back the revision that Encode was given, also when the common prefix and suffix
\* of the two overlap in the shorter one.
DeltaRoundTrip ==
  asked.kind = "delta" => Decode(asked.old, Encode(asked.old, asked.new)) = asked.new

\* Every answer is the one its reference definition gives (evalExpr, combineResults,
\* levenshteinDistance, splicePinnedFTS, union, findBucket, Encode and Decode), for every
\* question in the bounds and every order of map iteration.
AnswersExact ==
  /\ ExprExact
  /\ BooleanExact
  /\ DistanceExact
  /\ PinsPlaced
  /\ GroupsAreComponents
  /\ BucketFound
  /\ DeltaRoundTrip
=============================================================================
