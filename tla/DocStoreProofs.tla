--------------------------- MODULE DocStoreProofs ---------------------------
(* Invariants of the document store, for any keys, requests and bounds. *)
EXTENDS DocStore, TLAPS, SequenceTheorems, FiniteSetTheorems, WellFoundedInduction

\* What a request at label l holds in h.
HoldsFor(p, l, h) ==
  /\ l \in {"cache", "ttlset", "ttldrop", "unttl", "uncache", "reaped", "looked",
            "enqueue", "miss", "fill"} => h.key \in Keys
  /\ l \in {"cache", "ttlset", "enqueue", "fill"} => h.doc \in Docs
  /\ l = "enqueue" => h.old \in Docs
  /\ l = "ttlset" => h.doc.expiresAt > 0
  /\ l \in {"looked", "enqueue"} => p \in Batchers

HandOK == \A p \in Procs : HoldsFor(p, pc[p], hand[p])

Typed == TypeOK /\ HandOK

\* None is no document, no job and no key.
LEMMA NoneIsNoDoc == None \notin Docs /\ None \notin Jobs /\ None \notin Keys
BY NoneAssumption

\* The helpers keep their types.
LEMMA HelpersTyped ==
  ASSUME TypeOK
  PROVE  /\ \A d \in MaybeDoc : MetaOf(d) \in SUBSET Tags
         /\ \A k \in Keys : \A old, new \in SUBSET Tags :
              Reindexed(k, old, new) \in [Keys -> SUBSET Tags]
         /\ \A r \in [Times -> MaybeDoc] : \A n : Trimmed(r, n) \in [Times -> MaybeDoc]
         /\ \A k \in Keys, d \in MaybeDoc : \A t :
              /\ Recorded(k, t, d) \in [Keys -> [Times -> MaybeDoc]]
              /\ RecordedAndTrimmed(k, t, d) \in [Keys -> [Times -> MaybeDoc]]
         /\ \A t, n \in Nat : ExpiryOf(t, n) \in Nat
         /\ \A r \in [Times -> MaybeDoc] : \A q \in Swept(r) : q \in [Times -> MaybeDoc]
<1>1. \A d \in MaybeDoc : MetaOf(d) \in SUBSET Tags
  BY DEF MetaOf, MaybeDoc, Docs
<1>2. \A k \in Keys : \A old, new \in SUBSET Tags :
              Reindexed(k, old, new) \in [Keys -> SUBSET Tags]
  BY DEF Reindexed, TypeOK
<1>3. \A r \in [Times -> MaybeDoc] : \A n : Trimmed(r, n) \in [Times -> MaybeDoc]
  <2> SUFFICES ASSUME NEW r \in [Times -> MaybeDoc], NEW n, NEW t \in Times
               PROVE  (IF Cardinality({u \in Times : u > t /\ r[u] # None}) < n
                         THEN r[t] ELSE None) \in MaybeDoc
    BY DEF Trimmed
  <2> QED BY DEF MaybeDoc
<1>4. ASSUME NEW k \in Keys, NEW t, NEW d \in MaybeDoc
      PROVE  /\ Recorded(k, t, d) \in [Keys -> [Times -> MaybeDoc]]
             /\ RecordedAndTrimmed(k, t, d) \in [Keys -> [Times -> MaybeDoc]]
  <2>1. rev \in [Keys -> [Times -> MaybeDoc]]
    BY DEF TypeOK
  <2>2. Recorded(k, t, d) \in [Keys -> [Times -> MaybeDoc]]
    BY <2>1 DEF Recorded
  <2>3. [rev[k] EXCEPT ![t] = d] \in [Times -> MaybeDoc]
    BY <2>1
  <2>4. Trimmed([rev[k] EXCEPT ![t] = d], cap) \in [Times -> MaybeDoc]
    BY <2>3, <1>3
  <2>5. [rev EXCEPT ![k] = Trimmed([@ EXCEPT ![t] = d], cap)] \in [Keys -> [Times -> MaybeDoc]]
    BY <2>1, <2>4
  <2> QED BY <2>2, <2>5 DEF RecordedAndTrimmed
<1>5. \A t, n \in Nat : ExpiryOf(t, n) \in Nat
  BY DEF ExpiryOf
<1>6. \A r \in [Times -> MaybeDoc] : \A q \in Swept(r) : q \in [Times -> MaybeDoc]
  BY DEF Swept, MaybeDoc
<1> QED BY <1>1, <1>2, <1>3, <1>4, <1>5, <1>6

\* A step of one request: its label and what it holds are replaced.
LEMMA HandStep ==
  ASSUME Typed, NEW p \in Procs, NEW l \in Labels, NEW h \in Hands, HoldsFor(p, l, h),
         pc' = [pc EXCEPT ![p] = l], hand' = [hand EXCEPT ![p] = h]
  PROVE  HandOK' /\ pc' \in [Procs -> Labels] /\ hand' \in [Procs -> Hands]
<1>1. pc' \in [Procs -> Labels] /\ hand' \in [Procs -> Hands]
  BY DEF Typed, TypeOK
<1>2. ASSUME NEW q \in Procs PROVE HoldsFor(q, pc'[q], hand'[q])
  <2>1. CASE q = p
    <3>1. pc'[q] = l /\ hand'[q] = h
      BY <2>1 DEF Typed, TypeOK
    <3> QED BY <2>1, <3>1
  <2>2. CASE q # p
    <3>1. pc'[q] = pc[q] /\ hand'[q] = hand[q]
      BY <2>2 DEF Typed, TypeOK
    <3> QED BY <3>1 DEF Typed, HandOK
  <2> QED BY <2>1, <2>2
<1> QED BY <1>1, <1>2 DEF HandOK

\* The forms in which the actions make such a step.
LEMMA DoneTyped ==
  ASSUME Typed, NEW p \in Procs, Done(p)
  PROVE  HandOK' /\ pc' \in [Procs -> Labels] /\ hand' \in [Procs -> Hands]
<1>1. Nothing \in Hands
  BY BoundsAssumption DEF Nothing, Hands, MaybeDoc
<1>2. HoldsFor(p, "idle", Nothing) /\ "idle" \in Labels
  BY DEF HoldsFor, Labels
<1> QED BY <1>1, <1>2, HandStep DEF Done, Goto

\* A request that takes a key and documents in hand and moves on stays well typed.
LEMMA HoldingTyped ==
  ASSUME Typed, NEW p \in Procs, NEW l \in Labels,
         NEW k \in Keys, NEW d \in MaybeDoc, NEW o \in MaybeDoc,
         l \in {"cache", "ttlset", "enqueue", "fill"} => d \in Docs,
         l = "enqueue" => o \in Docs,
         l = "ttlset" => d.expiresAt > 0,
         l \in {"looked", "enqueue"} => p \in Batchers,
         Goto(p, l), Holding(p, k, d, o)
  PROVE  HandOK' /\ pc' \in [Procs -> Labels] /\ hand' \in [Procs -> Hands]
<1> DEFINE h == [at |-> hand[p].at, key |-> k, doc |-> d, old |-> o]
<1>1. h \in Hands
  <2>1. hand[p] \in Hands
    BY DEF Typed, TypeOK
  <2> QED BY <2>1 DEF Hands
<1>2. HoldsFor(p, l, h)
  BY DEF HoldsFor
<1>3. hand' = [hand EXCEPT ![p] = h] /\ pc' = [pc EXCEPT ![p] = l]
  BY DEF Holding, Goto
<1> HIDE DEF h
<1> QED BY <1>1, <1>2, <1>3, HandStep

\* So does one that keeps what it holds and moves to a label that needs no more.
LEMMA GotoTyped ==
  ASSUME Typed, NEW p \in Procs, NEW l \in Labels, HoldsFor(p, l, hand[p]),
         Goto(p, l), UNCHANGED hand
  PROVE  HandOK' /\ pc' \in [Procs -> Labels] /\ hand' \in [Procs -> Hands]
<1>1. hand \in [Procs -> Hands]
  BY DEF Typed, TypeOK
<1>2. hand[p] \in Hands /\ hand' = [hand EXCEPT ![p] = hand[p]]
  BY <1>1
<1>3. pc' = [pc EXCEPT ![p] = l]
  BY DEF Goto
<1> QED BY <1>2, <1>3, HandStep

\* And one that does not move.
LEMMA SameTyped ==
  ASSUME Typed, UNCHANGED <<pc, hand>>
  PROVE  HandOK' /\ pc' \in [Procs -> Labels] /\ hand' \in [Procs -> Hands]
BY DEF Typed, TypeOK, HandOK

\* The documents that requests write are documents.
LEMMA NewDocs ==
  ASSUME Typed, NEW p \in Procs
  PROVE  /\ \A m \in Metas, s \in TTLs :
              [meta |-> m, expiresAt |-> ExpiryOf(hand[p].at, s), updatedAt |-> hand[p].at] \in Docs
         /\ \A m \in Metas : BatchDoc(p, m) \in Docs
         /\ \A k \in Keys, hasTTL \in BOOLEAN, s \in TTLs : docs[k] # None =>
              /\ \A m \in Metas \cup {docs[k].meta} : Patched(p, k, m, hasTTL, s) \in Docs
              /\ [docs[k] EXCEPT !.expiresAt = ExpiryOf(hand[p].at, s)] \in Docs
<1>1. hand[p].at \in Nat
  <2>1. hand[p] \in Hands
    BY DEF Typed, TypeOK
  <2> QED BY <2>1, BoundsAssumption DEF Hands
<1>2. \A s \in TTLs : ExpiryOf(hand[p].at, s) \in Nat
  BY <1>1, TTLsAssumption, HelpersTyped DEF Typed
<1>3. \A m \in Metas : m \in SUBSET Tags
  BY MetasAssumption
<1>4. \A k \in Keys : docs[k] # None => docs[k] \in Docs
  BY DEF Typed, TypeOK, MaybeDoc
<1>5. \A m \in Metas, s \in TTLs :
        [meta |-> m, expiresAt |-> ExpiryOf(hand[p].at, s), updatedAt |-> hand[p].at] \in Docs
  BY <1>1, <1>2, <1>3 DEF Docs
<1>6. \A m \in Metas : BatchDoc(p, m) \in Docs
  BY <1>1, <1>3 DEF Docs, BatchDoc
<1>7. ASSUME NEW k \in Keys, NEW hasTTL \in BOOLEAN, NEW s \in TTLs, docs[k] # None
      PROVE  /\ \A m \in Metas \cup {docs[k].meta} : Patched(p, k, m, hasTTL, s) \in Docs
             /\ [docs[k] EXCEPT !.expiresAt = ExpiryOf(hand[p].at, s)] \in Docs
  <2>1. docs[k] \in Docs /\ ExpiryOf(hand[p].at, s) \in Nat
    BY <1>2, <1>4, <1>7
  <2> QED BY <1>1, <1>3, <2>1 DEF Docs, Patched
<1> QED BY <1>5, <1>6, <1>7


\* Every step of every request, of the reaper, of a worker and of the clock keeps Typed.
LEMMA TypedStep == Typed /\ [Next]_vars => Typed'
<1> SUFFICES ASSUME Typed, [Next]_vars PROVE Typed'
  OBVIOUS
<1> DEFINE ProcsOK == HandOK' /\ pc' \in [Procs -> Labels] /\ hand' \in [Procs -> Hands]
<1> DEFINE RestOK ==
      /\ now \in Times
      /\ docs \in [Keys -> MaybeDoc] /\ bykey \subseteq Keys
      /\ idxmeta \in [Keys -> SUBSET Tags]
      /\ rev \in [Keys -> [Times -> MaybeDoc]]
      /\ ttl \subseteq Nat \X Keys /\ ttlrev \in [Keys -> Nat]
      /\ cache \in [Keys -> MaybeDoc]
      /\ queue \in Seq(Jobs) /\ job \in [Workers -> Jobs \cup {None}]
      /\ cap \in Nat /\ expired \subseteq Keys
      /\ requests \in Nat /\ crashes \in Nat
<1>r. RestOK
  BY DEF Typed, TypeOK
<1>q. ASSUME ProcsOK, RestOK' PROVE Typed'
  BY <1>q DEF Typed, TypeOK
<1> HIDE DEF ProcsOK
<1>h. \A p \in Procs : hand[p] \in Hands /\ HoldsFor(p, pc[p], hand[p])
  BY DEF Typed, TypeOK, HandOK
<1>n. None \in MaybeDoc /\ None \notin Docs /\ \A d \in MaybeDoc : d # None => d \in Docs
  BY NoneIsNoDoc DEF MaybeDoc
<1>t. Typed /\ TypeOK
  BY DEF Typed
<1>1. ASSUME NEW p \in Procs, Arrive(p) PROVE Typed'
  <2>1. ProcsOK
    <3>1. [Nothing EXCEPT !.at = now] \in Hands
      BY <1>r, BoundsAssumption DEF Nothing, Hands, MaybeDoc, Times
    <3>2. HoldsFor(p, "ready", [Nothing EXCEPT !.at = now]) /\ "ready" \in Labels
      BY DEF HoldsFor, Labels
    <3> QED BY <1>1, <1>t, <3>1, <3>2, HandStep DEF ProcsOK, Arrive, Goto
  <2>2. RestOK'
    BY <1>1, <1>r DEF Arrive, buckets, ttlBuckets, queueVars, bounds
  <2> QED BY <2>1, <2>2, <1>q
<1>2. ASSUME NEW p \in Procs, Refuse(p) PROVE Typed'
  <2>1. ProcsOK
    BY <1>2, <1>t, DoneTyped DEF ProcsOK, Refuse
  <2>2. RestOK'
    BY <1>2, <1>r DEF Refuse, buckets, ttlBuckets, queueVars, bounds
  <2> QED BY <2>1, <2>2, <1>q
<1>3. ASSUME NEW p \in Procs, Add(p) PROVE Typed'
  <2>0. PICK k \in Keys, m \in Metas, s \in TTLs, save \in BOOLEAN :
          LET d == [meta |-> m, expiresAt |-> ExpiryOf(hand[p].at, s), updatedAt |-> hand[p].at] IN
          /\ docs' = [docs EXCEPT ![k] = d]
          /\ bykey' = bykey \cup {k}
          /\ idxmeta' = Reindexed(k, MetaOf(docs[k]), m)
          /\ rev' = IF save THEN RecordedAndTrimmed(k, hand[p].at, d) ELSE rev
          /\ Holding(p, k, d, None)
    BY <1>3 DEF Add
  <2> DEFINE d == [meta |-> m, expiresAt |-> ExpiryOf(hand[p].at, s), updatedAt |-> hand[p].at]
  <2>d. d \in Docs /\ d \in MaybeDoc
    <3>1. hand[p].at \in Nat /\ s \in Nat /\ m \in SUBSET Tags
      BY <1>h, TTLsAssumption, MetasAssumption, BoundsAssumption DEF Hands
    <3>2. ExpiryOf(hand[p].at, s) \in Nat
      BY <3>1, <1>t, HelpersTyped
    <3> QED BY <3>1, <3>2 DEF Docs, MaybeDoc
  <2>e. m \in SUBSET Tags /\ MetaOf(docs[k]) \in SUBSET Tags
    BY <1>r, <1>t, HelpersTyped, MetasAssumption
  <2>f. Reindexed(k, MetaOf(docs[k]), m) \in [Keys -> SUBSET Tags]
    BY <2>e, <1>t, HelpersTyped
  <2> HIDE DEF d
  <2>g. rev' \in [Keys -> [Times -> MaybeDoc]]
    BY <2>0, <2>d, <1>r, <1>t, HelpersTyped DEF d
  <2>1. ProcsOK
    <3>1. Goto(p, "cache") /\ Holding(p, k, d, None) /\ "cache" \in Labels
      BY <1>3, <2>0 DEF Add, d, Labels
    <3> QED BY <1>t, <1>n, <2>d, <3>1, HoldingTyped DEF ProcsOK
  <2>2. RestOK'
    <3>1. docs' = [docs EXCEPT ![k] = d] /\ bykey' = bykey \cup {k}
      BY <2>0 DEF d
    <3>2. idxmeta' \in [Keys -> SUBSET Tags]
      BY <2>0, <2>f
    <3> QED BY <1>3, <1>r, <2>d, <2>g, <3>1, <3>2 DEF Add, ttlBuckets, queueVars, bounds
  <2> QED BY <2>1, <2>2, <1>q
<1>4. ASSUME NEW p \in Procs, CacheSet(p) PROVE Typed'
  <2>0. hand[p].key \in Keys /\ hand[p].doc \in Docs /\ hand[p].doc \in MaybeDoc
    BY <1>4, <1>h DEF CacheSet, HoldsFor, MaybeDoc
  <2>1. ProcsOK
    <3>1. CASE hand[p].doc.expiresAt > 0
      <4>1. HoldsFor(p, "ttlset", hand[p]) /\ "ttlset" \in Labels
        BY <2>0, <3>1 DEF HoldsFor, Labels
      <4> QED BY <1>4, <3>1, <4>1, <1>t, GotoTyped DEF ProcsOK, CacheSet
    <3>2. CASE ~(hand[p].doc.expiresAt > 0)
      BY <1>4, <3>2, <1>t, DoneTyped DEF ProcsOK, CacheSet
    <3> QED BY <3>1, <3>2
  <2>2. RestOK'
    BY <1>4, <1>r, <2>0 DEF CacheSet, buckets, ttlBuckets, queueVars, bounds
  <2> QED BY <2>1, <2>2, <1>q
<1>5. ASSUME NEW p \in Procs, Update(p) PROVE Typed'
  <2>0. PICK k \in Keys, hasTTL \in BOOLEAN, s \in TTLs :
          /\ k \in bykey /\ docs[k] # None
          /\ \E m \in Metas \cup {docs[k].meta} :
               /\ UpdateDoc(p, k, Patched(p, k, m, hasTTL, s), hasTTL)
               /\ rev' = RecordedAndTrimmed(k, hand[p].at, Patched(p, k, m, hasTTL, s))
    BY <1>5 DEF Update
  <2>m. PICK m \in Metas \cup {docs[k].meta} :
          /\ UpdateDoc(p, k, Patched(p, k, m, hasTTL, s), hasTTL)
          /\ rev' = RecordedAndTrimmed(k, hand[p].at, Patched(p, k, m, hasTTL, s))
    BY <2>0
  <2> DEFINE d == Patched(p, k, m, hasTTL, s)
  <2>d. d \in Docs /\ d \in MaybeDoc /\ docs[k] \in Docs
    <3>0. docs[k] \in Docs
      BY <2>0, <1>r, <1>n
    <3>1. hand[p].at \in Nat /\ s \in Nat /\ m \in SUBSET Tags
      BY <1>h, <3>0, TTLsAssumption, MetasAssumption, BoundsAssumption DEF Hands, Docs
    <3>2. ExpiryOf(hand[p].at, s) \in Nat
      BY <3>1, <1>t, HelpersTyped
    <3> QED BY <3>0, <3>1, <3>2 DEF Docs, MaybeDoc, Patched
  <2> HIDE DEF d
  <2>u. UpdateDoc(p, k, d, hasTTL) /\ rev' = RecordedAndTrimmed(k, hand[p].at, d)
    BY <2>m DEF d
  <2>f. idxmeta' \in [Keys -> SUBSET Tags]
    <3>1. docs[k].meta \in SUBSET Tags /\ d.meta \in SUBSET Tags
      BY <2>d DEF Docs
    <3> QED BY <3>1, <2>u, <1>t, HelpersTyped DEF UpdateDoc
  <2>g. rev' \in [Keys -> [Times -> MaybeDoc]]
    BY <2>u, <2>d, <1>t, HelpersTyped
  <2>1. ProcsOK
    <3>1. CASE d.expiresAt > 0
      <4>1. Goto(p, "ttlset") /\ Holding(p, k, d, None) /\ "ttlset" \in Labels
        BY <2>u, <3>1 DEF UpdateDoc, Labels
      <4> QED BY <4>1, <3>1, <1>t, <1>n, <2>d, HoldingTyped DEF ProcsOK
    <3>2. CASE d.expiresAt = 0 /\ hasTTL
      <4>1. Goto(p, "ttldrop") /\ Holding(p, k, d, None) /\ "ttldrop" \in Labels
        BY <2>u, <3>2 DEF UpdateDoc, Labels
      <4> QED BY <4>1, <1>t, <1>n, <2>d, HoldingTyped DEF ProcsOK
    <3>3. CASE ~(d.expiresAt > 0) /\ ~(d.expiresAt = 0 /\ hasTTL)
      <4>1. Done(p)
        BY <2>u, <3>3 DEF UpdateDoc
      <4> QED BY <4>1, <1>t, DoneTyped DEF ProcsOK
    <3> QED BY <3>1, <3>2, <3>3
  <2>2. RestOK'
    BY <1>r, <2>d, <2>f, <2>g, <2>u DEF UpdateDoc, ttlBuckets, queueVars, bounds
  <2> QED BY <2>1, <2>2, <1>q
<1>6. ASSUME NEW p \in Procs, UpdateRPC(p) PROVE Typed'
  <2>0. PICK k \in Keys, hasTTL \in BOOLEAN, s \in TTLs :
          /\ k \in bykey /\ docs[k] # None
          /\ \E m \in Metas \cup {docs[k].meta} :
               /\ UpdateDoc(p, k, Patched(p, k, m, hasTTL, s), hasTTL)
               /\ rev' = Recorded(k, hand[p].at, Patched(p, k, m, hasTTL, s))
    BY <1>6 DEF UpdateRPC
  <2>m. PICK m \in Metas \cup {docs[k].meta} :
          /\ UpdateDoc(p, k, Patched(p, k, m, hasTTL, s), hasTTL)
          /\ rev' = Recorded(k, hand[p].at, Patched(p, k, m, hasTTL, s))
    BY <2>0
  <2> DEFINE d == Patched(p, k, m, hasTTL, s)
  <2>d. d \in Docs /\ d \in MaybeDoc /\ docs[k] \in Docs
    <3>0. docs[k] \in Docs
      BY <2>0, <1>r, <1>n
    <3>1. hand[p].at \in Nat /\ s \in Nat /\ m \in SUBSET Tags
      BY <1>h, <3>0, TTLsAssumption, MetasAssumption, BoundsAssumption DEF Hands, Docs
    <3>2. ExpiryOf(hand[p].at, s) \in Nat
      BY <3>1, <1>t, HelpersTyped
    <3> QED BY <3>0, <3>1, <3>2 DEF Docs, MaybeDoc, Patched
  <2> HIDE DEF d
  <2>u. UpdateDoc(p, k, d, hasTTL) /\ rev' = Recorded(k, hand[p].at, d)
    BY <2>m DEF d
  <2>f. idxmeta' \in [Keys -> SUBSET Tags]
    <3>1. docs[k].meta \in SUBSET Tags /\ d.meta \in SUBSET Tags
      BY <2>d DEF Docs
    <3> QED BY <3>1, <2>u, <1>t, HelpersTyped DEF UpdateDoc
  <2>g. rev' \in [Keys -> [Times -> MaybeDoc]]
    BY <2>u, <2>d, <1>t, HelpersTyped
  <2>1. ProcsOK
    <3>1. CASE d.expiresAt > 0
      <4>1. Goto(p, "ttlset") /\ Holding(p, k, d, None) /\ "ttlset" \in Labels
        BY <2>u, <3>1 DEF UpdateDoc, Labels
      <4> QED BY <4>1, <3>1, <1>t, <1>n, <2>d, HoldingTyped DEF ProcsOK
    <3>2. CASE d.expiresAt = 0 /\ hasTTL
      <4>1. Goto(p, "ttldrop") /\ Holding(p, k, d, None) /\ "ttldrop" \in Labels
        BY <2>u, <3>2 DEF UpdateDoc, Labels
      <4> QED BY <4>1, <1>t, <1>n, <2>d, HoldingTyped DEF ProcsOK
    <3>3. CASE ~(d.expiresAt > 0) /\ ~(d.expiresAt = 0 /\ hasTTL)
      <4>1. Done(p)
        BY <2>u, <3>3 DEF UpdateDoc
      <4> QED BY <4>1, <1>t, DoneTyped DEF ProcsOK
    <3> QED BY <3>1, <3>2, <3>3
  <2>2. RestOK'
    BY <1>r, <2>d, <2>f, <2>g, <2>u DEF UpdateDoc, ttlBuckets, queueVars, bounds
  <2> QED BY <2>1, <2>2, <1>q
<1>7. ASSUME NEW p \in Procs, SetTTL(p) PROVE Typed'
  <2>0. PICK k \in Keys, s \in TTLs :
          /\ docs[k] # None
          /\ LET d == [docs[k] EXCEPT !.expiresAt = ExpiryOf(hand[p].at, s)] IN
               /\ docs' = [docs EXCEPT ![k] = d]
               /\ Holding(p, k, d, None)
               /\ Goto(p, IF d.expiresAt > 0 THEN "ttlset" ELSE "ttldrop")
    BY <1>7 DEF SetTTL
  <2> DEFINE d == [docs[k] EXCEPT !.expiresAt = ExpiryOf(hand[p].at, s)]
  <2> DEFINE l == IF d.expiresAt > 0 THEN "ttlset" ELSE "ttldrop"
  <2>d. d \in Docs /\ d \in MaybeDoc
    <3>0. docs[k] \in Docs
      BY <2>0, <1>r, <1>n
    <3>1. hand[p].at \in Nat /\ s \in Nat
      BY <1>h, TTLsAssumption, BoundsAssumption DEF Hands
    <3>2. ExpiryOf(hand[p].at, s) \in Nat
      BY <3>1, <1>t, HelpersTyped
    <3> QED BY <3>0, <3>2 DEF Docs, MaybeDoc
  <2>u. docs' = [docs EXCEPT ![k] = d] /\ Holding(p, k, d, None) /\ Goto(p, l)
    BY <2>0
  <2>l. l \in Labels /\ (l = "ttlset" => d.expiresAt > 0) /\ l \in {"ttlset", "ttldrop"}
    BY DEF Labels
  <2> HIDE DEF d, l
  <2>1. ProcsOK
    BY <1>t, <1>n, <2>d, <2>u, <2>l, HoldingTyped DEF ProcsOK
  <2>2. RestOK'
    BY <1>7, <1>r, <2>d, <2>u DEF SetTTL, ttlBuckets, queueVars, bounds
  <2> QED BY <2>1, <2>2, <1>q
<1>8. ASSUME NEW p \in Procs, TTLSet(p) PROVE Typed'
  <2>0. hand[p].key \in Keys /\ hand[p].doc.expiresAt \in Nat
    BY <1>8, <1>h DEF TTLSet, HoldsFor, Docs
  <2>1. ProcsOK
    BY <1>8, <1>t, DoneTyped DEF ProcsOK, TTLSet
  <2>2. RestOK'
    <3>1. <<hand[p].doc.expiresAt, hand[p].key>> \in Nat \X Keys
      BY <2>0
    <3> QED BY <1>8, <1>r, <2>0, <3>1 DEF TTLSet, buckets, queueVars, bounds
  <2> QED BY <2>1, <2>2, <1>q
<1>9. ASSUME NEW p \in Procs, TTLRemove(p) PROVE Typed'
  <2>0. hand[p].key \in Keys
    BY <1>9, <1>h DEF TTLRemove, HoldsFor
  <2>1. ProcsOK
    <3>1. CASE pc[p] = "unttl"
      <4>1. HoldsFor(p, "uncache", hand[p]) /\ "uncache" \in Labels
        BY <2>0 DEF HoldsFor, Labels
      <4>2. Goto(p, "uncache") /\ UNCHANGED hand
        BY <1>9, <3>1 DEF TTLRemove
      <4> QED BY <4>1, <4>2, <1>t, GotoTyped DEF ProcsOK
    <3>2. CASE pc[p] = "reaped"
      <4>1. HoldsFor(p, "reap", Nothing) /\ "reap" \in Labels /\ Nothing \in Hands
        BY BoundsAssumption DEF HoldsFor, Labels, Nothing, Hands, MaybeDoc
      <4>2. pc' = [pc EXCEPT ![p] = "reap"] /\ hand' = [hand EXCEPT ![p] = Nothing]
        BY <1>9, <3>2 DEF TTLRemove, Goto
      <4> QED BY <4>1, <4>2, <1>t, HandStep DEF ProcsOK
    <3>3. CASE pc[p] # "unttl" /\ pc[p] # "reaped"
      <4>1. Done(p)
        BY <1>9, <3>3 DEF TTLRemove
      <4> QED BY <4>1, <1>t, DoneTyped DEF ProcsOK
    <3> QED BY <3>1, <3>2, <3>3
  <2>2. RestOK'
    BY <1>9, <1>r, <2>0 DEF TTLRemove, buckets, queueVars, bounds
  <2> QED BY <2>1, <2>2, <1>q
<1>10. ASSUME NEW p \in Procs, NEW k \in Keys, Delete(p, k) PROVE Typed'
  <2>1. ProcsOK
    <3>1. CASE docs[k] = None
      <4>1. HoldsFor(p, Idle[p], hand[p]) /\ Idle[p] \in Labels
        BY DEF HoldsFor, Labels, Idle
      <4>2. Goto(p, Idle[p]) /\ UNCHANGED hand
        BY <1>10, <3>1 DEF Delete, Goto
      <4> QED BY <4>1, <4>2, <1>t, GotoTyped DEF ProcsOK
    <3>2. CASE docs[k] # None
      <4>1. Goto(p, "unttl") /\ Holding(p, k, None, None) /\ "unttl" \in Labels
        BY <1>10, <3>2 DEF Delete, Labels
      <4> QED BY <4>1, <1>t, <1>n, HoldingTyped DEF ProcsOK
    <3> QED BY <3>1, <3>2
  <2>2. RestOK'
    <3>1. docs' \in [Keys -> MaybeDoc] /\ bykey' \subseteq Keys
      BY ZenonT(60), <1>10, <1>r, <1>n DEF Delete
    <3>0. [idxmeta EXCEPT ![k] = idxmeta[k] \ docs[k].meta] \in [Keys -> SUBSET Tags]
      BY <1>r
    <3>5. idxmeta' \in [Keys -> SUBSET Tags]
      BY <1>10, <1>r, <3>0 DEF Delete
    <3>2. \A q \in Swept(rev[k]) : q \in [Times -> MaybeDoc]
      BY <1>r, <1>t, HelpersTyped
    <3>6. rev' = rev \/ \E q \in Swept(rev[k]) : rev' = [rev EXCEPT ![k] = q]
      BY <1>10 DEF Delete
    <3>3. rev' \in [Keys -> [Times -> MaybeDoc]]
      BY <1>r, <3>2, <3>6
    <3>4. UNCHANGED <<now, cap, ttlBuckets, cache, queueVars, bounds>> /\ expired' \subseteq Keys
      BY <1>10, <1>r DEF Delete
    <3> QED BY <1>r, <3>1, <3>3, <3>4, <3>5 DEF ttlBuckets, queueVars, bounds
  <2> QED BY <2>1, <2>2, <1>q
<1>11. ASSUME NEW p \in Procs, CacheDelete(p) PROVE Typed'
  <2>0. hand[p].key \in Keys
    BY <1>11, <1>h DEF CacheDelete, HoldsFor
  <2>1. ProcsOK
    <3>1. CASE p = Reaper
      <4>1. HoldsFor(p, "reaped", hand[p]) /\ "reaped" \in Labels
        BY <2>0 DEF HoldsFor, Labels
      <4>2. Goto(p, "reaped") /\ UNCHANGED hand
        BY <1>11, <3>1 DEF CacheDelete
      <4> QED BY <4>1, <4>2, <1>t, GotoTyped DEF ProcsOK
    <3>2. CASE p # Reaper
      BY <1>11, <3>2, <1>t, DoneTyped DEF ProcsOK, CacheDelete
    <3> QED BY <3>1, <3>2
  <2>2. RestOK'
    BY <1>11, <1>r, <1>n, <2>0 DEF CacheDelete, buckets, ttlBuckets, queueVars, bounds
  <2> QED BY <2>1, <2>2, <1>q
<1>12. ASSUME NEW p \in Procs, DeleteCollection(p) PROVE Typed'
  <2>1. ProcsOK
    <3>1. HoldsFor(p, "unconfig", hand[p]) /\ "unconfig" \in Labels
      BY DEF HoldsFor, Labels
    <3> QED BY <1>12, <3>1, <1>t, GotoTyped DEF ProcsOK, DeleteCollection
  <2>2. RestOK'
    <3>1. docs' \in [Keys -> MaybeDoc] /\ bykey' \subseteq Keys
      BY <1>12, <1>r, <1>n DEF DeleteCollection
    <3>2. idxmeta' \in [Keys -> SUBSET Tags]
      BY <1>12, <1>r DEF DeleteCollection
    <3>3. \A j \in Keys : \A q \in Swept(rev[j]) : q \in [Times -> MaybeDoc]
      BY <1>r, <1>t, HelpersTyped
    <3>6. \A j \in Keys : Swept(rev[j]) \cup {rev[j]} \subseteq [Times -> MaybeDoc]
      BY <1>r, <3>3
    <3>7. rev' \in [Keys -> UNION {Swept(rev[j]) \cup {rev[j]} : j \in Keys}]
      BY <1>12 DEF DeleteCollection
    <3>4. rev' \in [Keys -> [Times -> MaybeDoc]]
      BY <3>6, <3>7
    <3>5. UNCHANGED <<now, cap, ttlBuckets, cache, queueVars, expired, bounds>>
      BY <1>12 DEF DeleteCollection
    <3> QED BY <1>r, <3>1, <3>2, <3>4, <3>5 DEF ttlBuckets, queueVars, bounds
  <2> QED BY <2>1, <2>2, <1>q
<1>13. ASSUME NEW p \in Procs, DeleteConfig(p) PROVE Typed'
  <2>1. ProcsOK
    BY <1>13, <1>t, DoneTyped DEF ProcsOK, DeleteConfig
  <2>2. RestOK'
    BY <1>13, <1>r DEF DeleteConfig, ttlBuckets, queueVars, bounds
  <2> QED BY <2>1, <2>2, <1>q
<1>31. ASSUME NEW p \in Procs, Configure(p) PROVE Typed'
  <2>1. ProcsOK
    BY <1>31, <1>t, DoneTyped DEF ProcsOK, Configure
  <2>2. RestOK'
    BY <1>31, <1>r, CapsAssumption DEF Configure, ttlBuckets, queueVars, bounds
  <2> QED BY <2>1, <2>2, <1>q
<1>14. ASSUME NEW p \in Procs, Truncate(p) PROVE Typed'
  <2>1. ProcsOK
    BY <1>14, <1>t, DoneTyped DEF ProcsOK, Truncate
  <2>2. RestOK'
    <3>1. PICK keep \in 0..1 :
            rev' = [k \in Keys |-> IF docs[k] = None THEN rev[k] ELSE Trimmed(rev[k], keep)]
      BY <1>14 DEF Truncate
    <3>2. \A k \in Keys : Trimmed(rev[k], keep) \in [Times -> MaybeDoc]
      BY <1>r, <1>t, HelpersTyped
    <3>3. rev' \in [Keys -> [Times -> MaybeDoc]]
      BY <1>r, <3>1, <3>2
    <3> QED BY <1>14, <1>r, <3>3 DEF Truncate, ttlBuckets, queueVars, bounds
  <2> QED BY <2>1, <2>2, <1>q
<1>15. ASSUME NEW p \in Procs, NEW k \in Keys, Lookup(p, k) PROVE Typed'
  <2>1. ProcsOK
    <3>1. docs[k] \in MaybeDoc /\ p \in Batchers /\ "looked" \in Labels
      BY <1>15, <1>r DEF Lookup, Labels
    <3>2. Goto(p, "looked") /\ Holding(p, k, None, docs[k])
      BY <1>15 DEF Lookup
    <3> QED BY <3>1, <3>2, <1>t, <1>n, HoldingTyped DEF ProcsOK
  <2>2. RestOK'
    BY <1>15, <1>r DEF Lookup, buckets, ttlBuckets, queueVars, bounds
  <2> QED BY <2>1, <2>2, <1>q
<1>16. ASSUME NEW p \in Procs, BatchAdd(p) PROVE Typed'
  <2>0. PICK m \in Metas, save \in BOOLEAN :
          LET k == hand[p].key
              d == BatchDoc(p, m) IN
          /\ docs' = [docs EXCEPT ![k] = d]
          /\ bykey' = bykey \cup {k}
          /\ idxmeta' = Reindexed(k, MetaOf(hand[p].old), m)
          /\ rev' = IF save THEN RecordedAndTrimmed(k, hand[p].at, d) ELSE rev
          /\ cache' = IF Extreme THEN [cache EXCEPT ![k] = d] ELSE cache
    BY <1>16 DEF BatchAdd
  <2>k. hand[p].key \in Keys /\ hand[p].old \in MaybeDoc
    BY <1>16, <1>h DEF BatchAdd, HoldsFor, Hands
  <2>d. BatchDoc(p, m) \in Docs /\ BatchDoc(p, m) \in MaybeDoc /\ m \in SUBSET Tags
    BY <1>h, MetasAssumption, BoundsAssumption DEF BatchDoc, Docs, MaybeDoc, Hands
  <2>f. idxmeta' \in [Keys -> SUBSET Tags]
    <3>1. MetaOf(hand[p].old) \in SUBSET Tags
      BY <2>k, <1>t, HelpersTyped
    <3> QED BY <2>0, <2>k, <2>d, <3>1, <1>t, HelpersTyped
  <2>g. rev' \in [Keys -> [Times -> MaybeDoc]]
    BY <2>0, <2>k, <2>d, <1>r, <1>t, HelpersTyped
  <2>1. ProcsOK
    BY <1>16, <1>t, DoneTyped DEF ProcsOK, BatchAdd
  <2>2. RestOK'
    BY <1>16, <1>r, <2>0, <2>k, <2>d, <2>f, <2>g DEF BatchAdd, ttlBuckets, queueVars, bounds
  <2> QED BY <2>1, <2>2, <1>q
<1>17. ASSUME NEW p \in Procs, BatchUpdate(p) PROVE Typed'
  <2>0. PICK m \in Metas, save \in BOOLEAN :
          LET k == hand[p].key
              d == BatchDoc(p, m) IN
          /\ docs' = [docs EXCEPT ![k] = d]
          /\ rev' = IF save THEN Recorded(k, hand[p].at, d) ELSE rev
          /\ cache' = IF Extreme THEN cache ELSE [cache EXCEPT ![k] = d]
          /\ IF m # hand[p].old.meta
               THEN Goto(p, "enqueue") /\ Holding(p, k, d, hand[p].old)
               ELSE Done(p)
    BY <1>17 DEF BatchUpdate
  <2>k. hand[p].key \in Keys /\ hand[p].old \in Docs /\ hand[p].old \in MaybeDoc /\ p \in Batchers
    BY <1>17, <1>h, <1>n DEF BatchUpdate, HoldsFor, Hands
  <2>d. BatchDoc(p, m) \in Docs /\ BatchDoc(p, m) \in MaybeDoc
    BY <1>h, MetasAssumption, BoundsAssumption DEF BatchDoc, Docs, MaybeDoc, Hands
  <2>g. rev' \in [Keys -> [Times -> MaybeDoc]]
    BY <2>0, <2>k, <2>d, <1>r, <1>t, HelpersTyped
  <2>1. ProcsOK
    <3>1. CASE m # hand[p].old.meta
      <4>1. "enqueue" \in Labels
        BY DEF Labels
      <4>2. Goto(p, "enqueue") /\ Holding(p, hand[p].key, BatchDoc(p, m), hand[p].old)
        BY <2>0, <3>1
      <4> QED BY <4>1, <4>2, <2>k, <2>d, <1>t, HoldingTyped DEF ProcsOK
    <3>2. CASE m = hand[p].old.meta
      <4>1. Done(p)
        BY <2>0, <3>2
      <4> QED BY <4>1, <1>t, DoneTyped DEF ProcsOK
    <3> QED BY <3>1, <3>2
  <2>2. RestOK'
    <3>1. docs' \in [Keys -> MaybeDoc] /\ cache' \in [Keys -> MaybeDoc]
      BY <2>0, <2>k, <2>d, <1>r
    <3> QED BY <1>17, <1>r, <2>g, <3>1 DEF BatchUpdate, ttlBuckets, queueVars, bounds
  <2> QED BY <2>1, <2>2, <1>q
<1>18. ASSUME NEW p \in Procs, BatchFail(p) PROVE Typed'
  <2>0. PICK m \in Metas : cache' = [cache EXCEPT ![hand[p].key] = BatchDoc(p, m)]
    BY <1>18 DEF BatchFail
  <2>d. BatchDoc(p, m) \in MaybeDoc
    BY <1>h, MetasAssumption, BoundsAssumption DEF BatchDoc, Docs, MaybeDoc, Hands
  <2>1. ProcsOK
    BY <1>18, <1>t, DoneTyped DEF ProcsOK, BatchFail
  <2>2. RestOK'
    BY <1>18, <1>r, <2>0, <2>d DEF BatchFail, buckets, ttlBuckets, queueVars, bounds
  <2> QED BY <2>1, <2>2, <1>q
<1>19. ASSUME NEW p \in Procs, BatchDelete(p) PROVE Typed'
  <2>1. ProcsOK
    BY <1>19, <1>t, DoneTyped DEF ProcsOK, BatchDelete
  <2>2. RestOK'
    <3>0. hand[p].key \in Keys
      BY <1>19, <1>h DEF BatchDelete, HoldsFor
    <3>6. \A q \in Swept(rev[hand[p].key]) : q \in [Times -> MaybeDoc]
      BY <3>0, <1>r, <1>t, HelpersTyped
    <3>7. \E q \in Swept(rev[hand[p].key]) : rev' = [rev EXCEPT ![hand[p].key] = q]
      BY <1>19 DEF BatchDelete
    <3>1. docs' \in [Keys -> MaybeDoc] /\ bykey' \subseteq Keys
      BY <1>19, <1>r, <1>n DEF BatchDelete
    <3>2. idxmeta' \in [Keys -> SUBSET Tags]
      BY <1>19, <1>r DEF BatchDelete
    <3>3. rev' \in [Keys -> [Times -> MaybeDoc]]
      BY <1>r, <3>6, <3>7
    <3>4. cache' \in [Keys -> MaybeDoc]
      BY <1>19, <1>r, <1>n DEF BatchDelete
    <3>5. UNCHANGED <<now, cap, ttlBuckets, queueVars, expired, bounds>>
      BY <1>19 DEF BatchDelete
    <3> QED BY <1>r, <3>1, <3>2, <3>3, <3>4, <3>5 DEF ttlBuckets, queueVars, bounds
  <2> QED BY <2>1, <2>2, <1>q
<1>20. ASSUME NEW p \in Procs, Enqueue(p) PROVE Typed'
  <2> DEFINE j == [key |-> hand[p].key, old |-> hand[p].old.meta, new |-> hand[p].doc.meta]
  <2>j. j \in Jobs
    <3>1. hand[p].key \in Keys /\ hand[p].old \in Docs /\ hand[p].doc \in Docs
      BY <1>20, <1>h DEF Enqueue, HoldsFor
    <3> QED BY <3>1 DEF Jobs, Docs
  <2>e. \/ queue' = Append(queue, j) /\ UNCHANGED idxmeta
        \/ idxmeta' = Reindexed(j.key, j.old, j.new) /\ UNCHANGED queue
    BY <1>20 DEF Enqueue
  <2> HIDE DEF j
  <2>1. ProcsOK
    BY <1>20, <1>t, DoneTyped DEF ProcsOK, Enqueue
  <2>2. RestOK'
    <3>1. Append(queue, j) \in Seq(Jobs)
      BY <1>r, <2>j
    <3>2. Reindexed(j.key, j.old, j.new) \in [Keys -> SUBSET Tags]
      BY <2>j, <1>t, HelpersTyped DEF Jobs
    <3> QED BY <1>20, <1>r, <2>e, <3>1, <3>2 DEF Enqueue, ttlBuckets, bounds
  <2> QED BY <2>1, <2>2, <1>q
<1>21. ASSUME NEW w \in Workers, Take(w) PROVE Typed'
  <2>1. ProcsOK
    BY <1>21, <1>t, SameTyped DEF ProcsOK, Take
  <2>2. RestOK'
    <3>1. Head(queue) \in Jobs /\ Tail(queue) \in Seq(Jobs)
      BY <1>21, <1>r, HeadTailProperties DEF Take
    <3> QED BY <1>21, <1>r, <3>1 DEF Take, buckets, ttlBuckets, bounds
  <2> QED BY <2>1, <2>2, <1>q
<1>22. ASSUME NEW w \in Workers, ProcessJob(w) PROVE Typed'
  <2>1. ProcsOK
    BY <1>22, <1>t, SameTyped DEF ProcsOK, ProcessJob
  <2>2. RestOK'
    <3>1. job[w] \in Jobs
      BY <1>22, <1>r DEF ProcessJob
    <3>2. idxmeta' \in [Keys -> SUBSET Tags]
      BY <1>22, <3>1, <1>t, HelpersTyped DEF ProcessJob, Jobs
    <3> QED BY <1>22, <1>r, <3>2 DEF ProcessJob, ttlBuckets, bounds
  <2> QED BY <2>1, <2>2, <1>q
<1>23. ASSUME NEW p \in Procs, NEW k \in Keys, GetMiss(p, k) PROVE Typed'
  <2>1. ProcsOK
    <3>1. "miss" \in Labels /\ Goto(p, "miss") /\ Holding(p, k, None, None)
      BY <1>23 DEF GetMiss, Labels
    <3> QED BY <3>1, <1>t, <1>n, HoldingTyped DEF ProcsOK
  <2>2. RestOK'
    BY <1>23, <1>r DEF GetMiss, buckets, ttlBuckets, queueVars
  <2> QED BY <2>1, <2>2, <1>q
<1>24. ASSUME NEW p \in Procs, GetRead(p) PROVE Typed'
  <2>0. hand[p].key \in Keys
    BY <1>24, <1>h DEF GetRead, HoldsFor
  <2>1. ProcsOK
    <3>1. CASE hand[p].key \in bykey /\ docs[hand[p].key] # None
      <4>1. "fill" \in Labels /\ docs[hand[p].key] \in Docs /\ docs[hand[p].key] \in MaybeDoc
        BY <3>1, <2>0, <1>r, <1>n DEF Labels
      <4>2. Goto(p, "fill") /\ Holding(p, hand[p].key, docs[hand[p].key], None)
        BY <1>24, <3>1 DEF GetRead
      <4> QED BY <4>1, <4>2, <2>0, <1>t, <1>n, HoldingTyped DEF ProcsOK
    <3>2. CASE ~(hand[p].key \in bykey /\ docs[hand[p].key] # None)
      <4>1. Done(p)
        BY <1>24, <3>2 DEF GetRead
      <4> QED BY <4>1, <1>t, DoneTyped DEF ProcsOK
    <3> QED BY <3>1, <3>2
  <2>2. RestOK'
    BY <1>24, <1>r DEF GetRead, buckets, ttlBuckets, queueVars, bounds
  <2> QED BY <2>1, <2>2, <1>q
<1>25. ASSUME NEW p \in Procs, GetFill(p) PROVE Typed'
  <2>0. hand[p].key \in Keys /\ hand[p].doc \in MaybeDoc
    BY <1>25, <1>h DEF GetFill, HoldsFor, MaybeDoc
  <2>1. ProcsOK
    BY <1>25, <1>t, DoneTyped DEF ProcsOK, GetFill
  <2>2. RestOK'
    BY <1>25, <1>r, <2>0 DEF GetFill, buckets, ttlBuckets, queueVars, bounds
  <2> QED BY <2>1, <2>2, <1>q
<1>26. ASSUME NEW k \in Keys, CacheExpire(k) PROVE Typed'
  <2>1. ProcsOK
    BY <1>26, <1>t, SameTyped DEF ProcsOK, CacheExpire
  <2>2. RestOK'
    BY <1>26, <1>r, <1>n DEF CacheExpire, buckets, ttlBuckets, queueVars, bounds
  <2> QED BY <2>1, <2>2, <1>q
<1>27. ASSUME Collect PROVE Typed'
  <2>1. ProcsOK
    BY <1>27, <1>t, SameTyped DEF ProcsOK, Collect
  <2>2. RestOK'
    BY <1>27, <1>r DEF Collect, buckets, ttlBuckets, queueVars, bounds
  <2> QED BY <2>1, <2>2, <1>q
<1>28. ASSUME Tick PROVE Typed'
  <2>1. ProcsOK
    BY <1>28, <1>t, SameTyped DEF ProcsOK, Tick
  <2>2. RestOK'
    BY <1>28, <1>r, BoundsAssumption DEF Tick, buckets, ttlBuckets, queueVars, bounds, Times
  <2> QED BY <2>1, <2>2, <1>q
<1>29. ASSUME Crash PROVE Typed'
  <2>1. ProcsOK
    <3>1. Nothing \in Hands
      BY BoundsAssumption DEF Nothing, Hands, MaybeDoc
    <3>2. \A p \in Procs : Idle[p] \in Labels /\ HoldsFor(p, Idle[p], Nothing)
      BY DEF Idle, Labels, HoldsFor
    <3>3. pc' = Idle /\ hand' = [p \in Procs |-> Nothing]
      BY <1>29 DEF Crash, Forgotten
    <3>4. pc' \in [Procs -> Labels]
      BY <3>2, <3>3 DEF Idle
    <3> QED BY <3>1, <3>2, <3>3, <3>4 DEF ProcsOK, HandOK
  <2>2. RestOK'
    <3>1. queue' = <<>> /\ <<>> \in Seq(Jobs)
      BY <1>29 DEF Crash, Forgotten
    <3> QED BY <1>29, <1>r, <1>n, <3>1 DEF Crash, Forgotten, buckets, ttlBuckets
  <2> QED BY <2>1, <2>2, <1>q
<1>30. ASSUME UNCHANGED vars PROVE Typed'
  <2>1. ProcsOK
    BY <1>30, <1>t, SameTyped DEF ProcsOK, vars
  <2>2. RestOK'
    BY <1>30, <1>r DEF vars, buckets, ttlBuckets, queueVars, bounds
  <2> QED BY <2>1, <2>2, <1>q
<1> QED BY <1>1, <1>2, <1>3, <1>4, <1>5, <1>6, <1>7, <1>8, <1>9, <1>10, <1>11, <1>12, <1>13, <1>14, <1>15, <1>16, <1>17, <1>18, <1>19, <1>20, <1>21, <1>22, <1>23, <1>24, <1>25, <1>26, <1>27, <1>28, <1>29, <1>30, <1>31 DEF Next

\* It holds when the server starts on an empty database.
LEMMA TypedInit == Init => Typed
<1> SUFFICES ASSUME Init PROVE Typed
  OBVIOUS
<1>1. Nothing \in Hands
  BY BoundsAssumption DEF Nothing, Hands, MaybeDoc
<1>2. \A p \in Procs : Idle[p] \in Labels /\ HoldsFor(p, Idle[p], Nothing)
  BY DEF Idle, Labels, HoldsFor
<1>3. pc \in [Procs -> Labels] /\ hand \in [Procs -> Hands] /\ HandOK
  BY <1>1, <1>2 DEF Init, Idle, HandOK
<1>4. rev \in [Keys -> [Times -> MaybeDoc]] /\ docs \in [Keys -> MaybeDoc] /\ cache \in [Keys -> MaybeDoc]
  BY DEF Init, NoRevs, MaybeDoc
<1>5. queue \in Seq(Jobs)
  BY DEF Init
<1> QED BY <1>3, <1>4, <1>5, BoundsAssumption DEF Init, Typed, TypeOK, Times

\* Every action keeps the types of the buckets, the queue and the requests, and a request
\* holds at each label what its next step needs: no step of any handler, worker or reaper
\* uses a document that is not there.
THEOREM StoreTyped == Spec => []TypeOK
<1>1. Spec => []Typed
  BY TypedInit, TypedStep, PTL DEF Spec
<1> QED BY <1>1, PTL DEF Typed

-----------------------------------------------------------------------------
\* The actions that write the TTL buckets are TTLSet and TTLRemove.
LEMMA TTLFrame ==
  ASSUME [Next]_vars
  PROVE  \/ UNCHANGED ttlBuckets
         \/ \E p \in Procs : TTLSet(p) \/ TTLRemove(p)
<1>1. ASSUME NEW p \in Procs,
             \/ Arrive(p) \/ Refuse(p) \/ Add(p) \/ SetTTL(p) \/ DeleteCollection(p) \/ DeleteConfig(p)
             \/ Configure(p) \/ Truncate(p) \/ CacheSet(p) \/ CacheDelete(p) \/ \E k \in Keys : Delete(p, k)
      PROVE  UNCHANGED ttlBuckets
  BY <1>1 DEF Arrive, Refuse, Add, SetTTL, DeleteCollection, DeleteConfig, Configure, Truncate, CacheSet,
              CacheDelete, Delete
<1>2. ASSUME NEW p \in Procs, Update(p) \/ UpdateRPC(p) PROVE UNCHANGED ttlBuckets
  <2>1. \E k, d, hasTTL : UpdateDoc(p, k, d, hasTTL)
    BY <1>2 DEF Update, UpdateRPC
  <2> QED BY <2>1 DEF UpdateDoc
<1>3. ASSUME NEW p \in Procs,
             \/ BatchAdd(p) \/ BatchUpdate(p) \/ BatchFail(p) \/ BatchDelete(p) \/ Enqueue(p)
             \/ GetRead(p) \/ GetFill(p) \/ \E k \in Keys : Lookup(p, k) \/ GetMiss(p, k)
      PROVE  UNCHANGED ttlBuckets
  BY <1>3 DEF BatchAdd, BatchUpdate, BatchFail, BatchDelete, Enqueue, GetRead, GetFill, Lookup, GetMiss
<1>4. ASSUME \/ \E w \in Workers : Take(w) \/ ProcessJob(w)
             \/ \E k \in Keys : CacheExpire(k)
             \/ Collect \/ Tick \/ Crash \/ UNCHANGED vars
      PROVE  UNCHANGED ttlBuckets
  BY <1>4 DEF Take, ProcessJob, CacheExpire, Collect, Tick, Crash, vars
<1> QED BY <1>1, <1>2, <1>3, <1>4 DEF Next

\* Membership in the forward bucket as TTLBucketsAgree has it.
LEMMA AgreeMember ==
  ASSUME TypeOK
  PROVE  TTLBucketsAgree <=>
           \A n \in Nat, k \in Keys : <<n, k>> \in ttl <=> n = ttlrev[k] /\ n > 0
<1>1. ttl \subseteq Nat \X Keys /\ ttlrev \in [Keys -> Nat]
  BY DEF TypeOK
<1> QED BY <1>1 DEF TTLBucketsAgree

\* Only TTLSet and TTLRemove write the TTL buckets, and each keeps them inverses.
LEMMA AgreeStep == Typed /\ TTLBucketsAgree /\ [Next]_vars => TTLBucketsAgree'
<1> SUFFICES ASSUME Typed, TTLBucketsAgree, [Next]_vars PROVE TTLBucketsAgree'
  OBVIOUS
<1>t. TypeOK /\ TypeOK'
  BY TypedStep DEF Typed
<1>a. \A n \in Nat, k \in Keys : <<n, k>> \in ttl <=> n = ttlrev[k] /\ n > 0
  BY <1>t, AgreeMember
<1>r. ttl \subseteq Nat \X Keys /\ ttlrev \in [Keys -> Nat]
  BY <1>t DEF TypeOK
<1>b. (\A n \in Nat, k \in Keys : <<n, k>> \in ttl' <=> n = ttlrev'[k] /\ n > 0) => TTLBucketsAgree'
  <2>1. ttl' \subseteq Nat \X Keys /\ ttlrev' \in [Keys -> Nat]
    BY <1>t DEF TypeOK
  <2> QED BY <2>1 DEF TTLBucketsAgree
<1>1. CASE UNCHANGED ttlBuckets
  BY <1>1 DEF ttlBuckets, TTLBucketsAgree
<1>2. ASSUME NEW p \in Procs, TTLSet(p) PROVE TTLBucketsAgree'
  <2> DEFINE k == hand[p].key
             e == hand[p].doc.expiresAt
  <2>1. k \in Keys /\ e \in Nat /\ e > 0
    BY <1>2 DEF TTLSet, Typed, HandOK, HoldsFor, Docs
  <2>2. ttl' = (ttl \ EntryOf(k)) \cup {<<e, k>>} /\ ttlrev' = [ttlrev EXCEPT ![k] = e]
    BY <1>2 DEF TTLSet
  <2> HIDE DEF k, e
  <2>3. ASSUME NEW n \in Nat, NEW j \in Keys PROVE <<n, j>> \in ttl' <=> n = ttlrev'[j] /\ n > 0
    <3>1. CASE j = k
      <4>1. ttlrev'[j] = e
        BY <1>r, <2>1, <2>2, <3>1
      <4>2. <<n, j>> \in ttl \ EntryOf(k) => FALSE
        BY <1>a, <3>1, <2>1 DEF EntryOf
      <4> QED BY <4>1, <4>2, <2>1, <2>2, <3>1
    <3>2. CASE j # k
      <4>1. ttlrev'[j] = ttlrev[j]
        BY <1>r, <2>1, <2>2, <3>2
      <4>2. <<n, j>> \notin EntryOf(k) /\ <<n, j>> # <<e, k>>
        BY <3>2 DEF EntryOf
      <4> QED BY <4>1, <4>2, <1>a, <2>2
    <3> QED BY <3>1, <3>2
  <2> QED BY <2>3, <1>b
<1>3. ASSUME NEW p \in Procs, TTLRemove(p) PROVE TTLBucketsAgree'
  <2> DEFINE k == hand[p].key
  <2>1. k \in Keys
    BY <1>3 DEF TTLRemove, Typed, HandOK, HoldsFor
  <2>2. ttl' = ttl \ EntryOf(k) /\ ttlrev' = [ttlrev EXCEPT ![k] = 0]
    BY <1>3 DEF TTLRemove
  <2> HIDE DEF k
  <2>3. ASSUME NEW n \in Nat, NEW j \in Keys PROVE <<n, j>> \in ttl' <=> n = ttlrev'[j] /\ n > 0
    <3>1. CASE j = k
      <4>1. ttlrev'[j] = 0
        BY <1>r, <2>1, <2>2, <3>1
      <4>2. <<n, j>> \in ttl \ EntryOf(k) => FALSE
        BY <1>a, <3>1, <2>1 DEF EntryOf
      <4> QED BY <4>1, <4>2, <2>2
    <3>2. CASE j # k
      <4>1. ttlrev'[j] = ttlrev[j]
        BY <1>r, <2>1, <2>2, <3>2
      <4>2. <<n, j>> \notin EntryOf(k)
        BY <3>2 DEF EntryOf
      <4> QED BY <4>1, <4>2, <1>a, <2>2
    <3> QED BY <3>1, <3>2
  <2> QED BY <2>3, <1>b
<1> QED BY <1>1, <1>2, <1>3, TTLFrame

\* The forward and the reverse TTL bucket stay inverses of each other, in whatever order
\* racing requests and the reaper reach TTLManager.Set and Remove.
THEOREM TTLBucketsInverse == Spec => []TTLBucketsAgree
<1>1. Init => TTLBucketsAgree
  BY DEF Init, TTLBucketsAgree
<1>2. Spec => []Typed
  BY TypedInit, TypedStep, PTL DEF Spec
<1> QED BY <1>1, <1>2, AgreeStep, PTL DEF Spec

-----------------------------------------------------------------------------
\* How a step may change docs and bykey.
LEMMA DocWrites ==
  ASSUME Typed, [Next]_vars
  PROVE  \/ UNCHANGED <<docs, bykey>>
         \/ \E k \in Keys, d \in Docs : docs' = [docs EXCEPT ![k] = d] /\ bykey' \in {bykey, bykey \cup {k}}
         \/ \E k \in Keys : docs' = [docs EXCEPT ![k] = None] /\ bykey' = bykey \ {k}
         \/ \E p \in Procs : DeleteCollection(p)
<1> DEFINE Put == \E k \in Keys, d \in Docs : docs' = [docs EXCEPT ![k] = d] /\ bykey' \in {bykey, bykey \cup {k}}
<1> DEFINE Drop == \E k \in Keys : docs' = [docs EXCEPT ![k] = None] /\ bykey' = bykey \ {k}
<1>h. \A p \in Procs : pc[p] = "looked" => hand[p].key \in Keys
  BY DEF Typed, HandOK, HoldsFor
<1>1. ASSUME NEW p \in Procs, Add(p) PROVE Put
  BY <1>1, NewDocs DEF Add
<1>2. ASSUME NEW p \in Procs, Update(p) PROVE Put
  <2>1. PICK k \in Keys, hasTTL \in BOOLEAN, s \in TTLs :
          /\ docs[k] # None
          /\ \E m \in Metas \cup {docs[k].meta} : UpdateDoc(p, k, Patched(p, k, m, hasTTL, s), hasTTL)
    BY <1>2 DEF Update
  <2>2. PICK m \in Metas \cup {docs[k].meta} : UpdateDoc(p, k, Patched(p, k, m, hasTTL, s), hasTTL)
    BY <2>1
  <2>3. Patched(p, k, m, hasTTL, s) \in Docs
    BY <2>1, NewDocs
  <2> QED BY <2>2, <2>3 DEF UpdateDoc
<1>3. ASSUME NEW p \in Procs, UpdateRPC(p) PROVE Put
  <2>1. PICK k \in Keys, hasTTL \in BOOLEAN, s \in TTLs :
          /\ docs[k] # None
          /\ \E m \in Metas \cup {docs[k].meta} : UpdateDoc(p, k, Patched(p, k, m, hasTTL, s), hasTTL)
    BY <1>3 DEF UpdateRPC
  <2>2. PICK m \in Metas \cup {docs[k].meta} : UpdateDoc(p, k, Patched(p, k, m, hasTTL, s), hasTTL)
    BY <2>1
  <2>3. Patched(p, k, m, hasTTL, s) \in Docs
    BY <2>1, NewDocs
  <2> QED BY <2>2, <2>3 DEF UpdateDoc
<1>4. ASSUME NEW p \in Procs, SetTTL(p) PROVE Put
  BY <1>4, NewDocs DEF SetTTL
<1>5. ASSUME NEW p \in Procs, BatchAdd(p) PROVE Put
  BY <1>5, <1>h, NewDocs DEF BatchAdd
<1>6. ASSUME NEW p \in Procs, BatchUpdate(p) PROVE Put
  BY <1>6, <1>h, NewDocs DEF BatchUpdate
<1>7. ASSUME NEW p \in Procs, BatchDelete(p) PROVE Drop
  BY <1>7, <1>h DEF BatchDelete
<1>8. ASSUME NEW p \in Procs, NEW k \in Keys, Delete(p, k) PROVE Drop \/ UNCHANGED <<docs, bykey>>
  BY <1>8 DEF Delete
<1>9. \/ UNCHANGED <<docs, bykey>>
      \/ \E p \in Procs : \/ Add(p) \/ Update(p) \/ UpdateRPC(p) \/ SetTTL(p) \/ BatchAdd(p)
                          \/ BatchUpdate(p) \/ BatchDelete(p) \/ DeleteCollection(p)
                          \/ \E k \in Keys : Delete(p, k)
  BY ZenonT(60) DEF Next, vars, buckets, Arrive, Refuse, CacheSet, TTLSet, TTLRemove, CacheDelete, DeleteConfig,
         Configure, Truncate, Lookup, BatchFail, Enqueue, Take, ProcessJob, GetMiss, GetRead, GetFill,
         CacheExpire, Collect, Tick, Crash
<1> HIDE DEF Put, Drop
<1>10. Put \/ Drop \/ UNCHANGED <<docs, bykey>> \/ \E p \in Procs : DeleteCollection(p)
  BY <1>1, <1>2, <1>3, <1>4, <1>5, <1>6, <1>7, <1>8, <1>9
<1> QED BY <1>10 DEF Put, Drop

\* Every step that empties docs for a key takes the key out of bykey.
LEMMA ResolvesStep == Typed /\ ByKeyResolves /\ [Next]_vars => ByKeyResolves'
<1> SUFFICES ASSUME Typed, ByKeyResolves, [Next]_vars PROVE ByKeyResolves'
  OBVIOUS
<1>r. docs \in [Keys -> MaybeDoc] /\ bykey \subseteq Keys /\ \A k \in bykey : docs[k] # None
  BY DEF Typed, TypeOK, ByKeyResolves
<1>1. CASE UNCHANGED <<docs, bykey>>
  BY <1>1 DEF ByKeyResolves
<1>2. ASSUME NEW k \in Keys, NEW d \in Docs,
             docs' = [docs EXCEPT ![k] = d], bykey' \in {bykey, bykey \cup {k}}
      PROVE  ByKeyResolves'
  BY <1>2, <1>r, NoneIsNoDoc DEF ByKeyResolves
<1>3. ASSUME NEW k \in Keys, docs' = [docs EXCEPT ![k] = None], bykey' = bykey \ {k}
      PROVE  ByKeyResolves'
  BY <1>3, <1>r DEF ByKeyResolves
<1>4. ASSUME NEW p \in Procs, DeleteCollection(p) PROVE ByKeyResolves'
  BY <1>4, <1>r DEF DeleteCollection, ByKeyResolves
<1> QED BY <1>1, <1>2, <1>3, <1>4, DocWrites

\* A key that bykey resolves always has its document, though batches write what they
\* looked up earlier.
THEOREM KeysResolve == Spec => []ByKeyResolves
<1>1. Init => ByKeyResolves
  BY DEF Init, ByKeyResolves
<1>2. Spec => []Typed
  BY TypedInit, TypedStep, PTL DEF Spec
<1> QED BY <1>1, <1>2, ResolvesStep, PTL DEF Spec

-----------------------------------------------------------------------------
(* Without batches. *)

\* The index queue is never used.
NoJobs == queue = <<>> /\ \A w \in Workers : job[w] = None

SingleInv == Typed /\ NoJobs /\ IndexExact

\* How a step may change docs, bykey and the metadata index when there are no batches.
LEMMA SingleWrites ==
  ASSUME Batchers = {}, SingleInv, [Next]_vars
  PROVE  /\ NoJobs'
         /\ \/ UNCHANGED <<docs, bykey, idxmeta>>
            \/ \E k \in Keys, d \in Docs :
                 /\ docs' = [docs EXCEPT ![k] = d] /\ bykey' = bykey \cup {k}
                 /\ idxmeta' = Reindexed(k, MetaOf(docs[k]), d.meta)
            \/ \E k \in Keys :
                 /\ docs[k] # None
                 /\ docs' = [docs EXCEPT ![k] = None] /\ bykey' = bykey \ {k}
                 /\ idxmeta' = [idxmeta EXCEPT ![k] = @ \ docs[k].meta]
            \/ \E p \in Procs : DeleteCollection(p)
<1> DEFINE Put == \E k \in Keys, d \in Docs :
                    /\ docs' = [docs EXCEPT ![k] = d] /\ bykey' = bykey \cup {k}
                    /\ idxmeta' = Reindexed(k, MetaOf(docs[k]), d.meta)
<1> DEFINE Drop == \E k \in Keys :
                     /\ docs[k] # None
                     /\ docs' = [docs EXCEPT ![k] = None] /\ bykey' = bykey \ {k}
                     /\ idxmeta' = [idxmeta EXCEPT ![k] = @ \ docs[k].meta]
<1>t. Typed /\ NoJobs /\ IndexExact
  BY DEF SingleInv
<1>h. \A p \in Procs : pc[p] # "looked" /\ pc[p] # "enqueue"
  BY <1>t DEF Typed, HandOK, HoldsFor
<1>1. ASSUME NEW p \in Procs, Add(p) PROVE Put
  <2>1. PICK k \in Keys, m \in Metas, s \in TTLs :
          LET d == [meta |-> m, expiresAt |-> ExpiryOf(hand[p].at, s), updatedAt |-> hand[p].at] IN
          /\ docs' = [docs EXCEPT ![k] = d] /\ bykey' = bykey \cup {k}
          /\ idxmeta' = Reindexed(k, MetaOf(docs[k]), m)
    BY <1>1 DEF Add
  <2> DEFINE d == [meta |-> m, expiresAt |-> ExpiryOf(hand[p].at, s), updatedAt |-> hand[p].at]
  <2>2. d \in Docs /\ d.meta = m
    BY <1>t, NewDocs
  <2>3. docs' = [docs EXCEPT ![k] = d] /\ idxmeta' = Reindexed(k, MetaOf(docs[k]), d.meta)
    BY <2>1
  <2> HIDE DEF d
  <2> QED BY <2>1, <2>2, <2>3
<1>2. ASSUME NEW p \in Procs, Update(p) PROVE Put
  <2>1. PICK k \in Keys, hasTTL \in BOOLEAN, s \in TTLs :
          /\ k \in bykey /\ docs[k] # None
          /\ \E m \in Metas \cup {docs[k].meta} : UpdateDoc(p, k, Patched(p, k, m, hasTTL, s), hasTTL)
    BY <1>2 DEF Update
  <2>2. PICK m \in Metas \cup {docs[k].meta} : UpdateDoc(p, k, Patched(p, k, m, hasTTL, s), hasTTL)
    BY <2>1
  <2>3. Patched(p, k, m, hasTTL, s) \in Docs
    BY <1>t, <2>1, NewDocs
  <2>4. MetaOf(docs[k]) = docs[k].meta /\ bykey = bykey \cup {k}
    BY <2>1 DEF MetaOf
  <2> QED BY <2>2, <2>3, <2>4 DEF UpdateDoc
<1>3. ASSUME NEW p \in Procs, SetTTL(p) PROVE Put
  <2>1. PICK k \in Keys, s \in TTLs :
          /\ docs[k] # None
          /\ docs' = [docs EXCEPT ![k] = [docs[k] EXCEPT !.expiresAt = ExpiryOf(hand[p].at, s)]]
    BY <1>3 DEF SetTTL
  <2> DEFINE d == [docs[k] EXCEPT !.expiresAt = ExpiryOf(hand[p].at, s)]
  <2>2. d \in Docs /\ docs[k] \in Docs
    BY <1>t, <2>1, NewDocs DEF Typed, TypeOK, MaybeDoc
  <2>3. d.meta = docs[k].meta
    BY <2>2 DEF Docs
  <2>4. Reindexed(k, MetaOf(docs[k]), d.meta) = idxmeta
    BY <2>1, <2>3 DEF Reindexed, MetaOf
  <2>5. bykey = bykey \cup {k}
    BY <1>t, <2>1 DEF IndexExact
  <2>6. docs' = [docs EXCEPT ![k] = d] /\ UNCHANGED <<bykey, idxmeta>>
    BY <1>3, <2>1 DEF SetTTL
  <2> HIDE DEF d
  <2> QED BY <2>2, <2>4, <2>5, <2>6
<1>4. ASSUME NEW p \in Procs, NEW k \in Keys, Delete(p, k)
      PROVE  Drop \/ UNCHANGED <<docs, bykey, idxmeta>>
  BY <1>4 DEF Delete
<1>5. /\ NoJobs'
      /\ \/ UNCHANGED <<docs, bykey, idxmeta>>
         \/ \E p \in Procs : \/ Add(p) \/ Update(p) \/ SetTTL(p) \/ DeleteCollection(p)
                             \/ \E k \in Keys : Delete(p, k)
  <2>1. ~ (\E p \in Procs : UpdateRPC(p) \/ BatchAdd(p) \/ BatchUpdate(p) \/ BatchDelete(p) \/ Enqueue(p))
    BY <1>h DEF UpdateRPC, BatchAdd, BatchUpdate, BatchDelete, Enqueue
  <2>2. ~ (\E w \in Workers : Take(w) \/ ProcessJob(w))
    BY <1>t DEF NoJobs, Take, ProcessJob
  <2>3. NoJobs'
    <3>1. UNCHANGED queueVars \/ Crash
      BY <2>1, <2>2
         DEF Next, vars, Arrive, Refuse, Add, Update, UpdateDoc, SetTTL, Delete, DeleteCollection,
             CacheSet, TTLSet, TTLRemove, CacheDelete, DeleteConfig, Configure, Truncate, Lookup, BatchFail,
             GetMiss, GetRead, GetFill, CacheExpire, Collect, Tick
    <3> QED BY <3>1, <1>t DEF NoJobs, queueVars, Crash, Forgotten
  <2>4. \/ UNCHANGED <<docs, bykey, idxmeta>>
        \/ \E p \in Procs : \/ Add(p) \/ Update(p) \/ SetTTL(p) \/ DeleteCollection(p)
                            \/ \E k \in Keys : Delete(p, k)
    BY <2>1, <2>2
       DEF Next, vars, buckets, Arrive, Refuse, CacheSet, TTLSet, TTLRemove, CacheDelete, DeleteConfig,
           Configure, Truncate, Lookup, BatchFail, GetMiss, GetRead, GetFill, CacheExpire, Collect, Tick, Crash
  <2> QED BY <2>3, <2>4
<1> HIDE DEF Put, Drop
<1>6. Put \/ Drop \/ UNCHANGED <<docs, bykey, idxmeta>> \/ \E p \in Procs : DeleteCollection(p)
  BY <1>1, <1>2, <1>3, <1>4, <1>5
<1> QED BY <1>5, <1>6 DEF Put, Drop

\* Without batches every step keeps the index exact and the queue unused.
LEMMA SingleStep == Batchers = {} /\ SingleInv /\ [Next]_vars => SingleInv'
<1> SUFFICES ASSUME Batchers = {}, SingleInv, [Next]_vars PROVE SingleInv'
  OBVIOUS
<1>t. Typed /\ Typed' /\ NoJobs'
  BY TypedStep, SingleWrites DEF SingleInv
<1>r. docs \in [Keys -> MaybeDoc] /\ bykey \subseteq Keys /\ idxmeta \in [Keys -> SUBSET Tags]
  BY <1>t DEF Typed, TypeOK
<1>x. \A k \in Keys : idxmeta[k] = MetaOf(docs[k]) /\ (docs[k] # None <=> k \in bykey)
  BY DEF SingleInv, IndexExact
<1>1. CASE UNCHANGED <<docs, bykey, idxmeta>>
  BY <1>1, <1>t DEF SingleInv, IndexExact, MetaOf
<1>2. ASSUME NEW k \in Keys, NEW d \in Docs,
             docs' = [docs EXCEPT ![k] = d], bykey' = bykey \cup {k},
             idxmeta' = Reindexed(k, MetaOf(docs[k]), d.meta)
      PROVE  IndexExact'
  <2>1. MetaOf(d) = d.meta /\ d # None
    BY NoneIsNoDoc DEF MetaOf
  <2>2. idxmeta' = [idxmeta EXCEPT ![k] = d.meta]
    <3>1. CASE MetaOf(docs[k]) = d.meta
      <4>1. idxmeta' = idxmeta /\ idxmeta[k] = d.meta
        BY <1>2, <1>x, <3>1 DEF Reindexed
      <4> QED BY <4>1, <1>r
    <3>2. CASE MetaOf(docs[k]) # d.meta
      <4>1. idxmeta' = [idxmeta EXCEPT ![k] = (idxmeta[k] \ MetaOf(docs[k])) \cup d.meta]
        BY <1>2, <3>2 DEF Reindexed
      <4>2. (idxmeta[k] \ MetaOf(docs[k])) \cup d.meta = d.meta
        BY <1>x
      <4> QED BY <4>1, <4>2
    <3> QED BY <3>1, <3>2
  <2>3. ASSUME NEW j \in Keys PROVE idxmeta'[j] = MetaOf(docs'[j]) /\ (docs'[j] # None <=> j \in bykey')
    <3>1. CASE j = k
      BY <1>2, <1>r, <2>1, <2>2, <3>1
    <3>2. CASE j # k
      <4>1. idxmeta'[j] = idxmeta[j] /\ docs'[j] = docs[j] /\ (j \in bykey' <=> j \in bykey)
        BY <1>2, <1>r, <2>2, <3>2
      <4> QED BY <4>1, <1>x
    <3> QED BY <3>1, <3>2
  <2> QED BY <2>3 DEF IndexExact, MetaOf
<1>3. ASSUME NEW k \in Keys, docs[k] # None,
             docs' = [docs EXCEPT ![k] = None], bykey' = bykey \ {k},
             idxmeta' = [idxmeta EXCEPT ![k] = @ \ docs[k].meta]
      PROVE  IndexExact'
  <2>1. idxmeta[k] \ docs[k].meta = {} /\ MetaOf(None) = {}
    BY <1>3, <1>x DEF MetaOf
  <2>2. ASSUME NEW j \in Keys PROVE idxmeta'[j] = MetaOf(docs'[j]) /\ (docs'[j] # None <=> j \in bykey')
    <3>1. CASE j = k
      BY <1>3, <1>r, <2>1, <3>1
    <3>2. CASE j # k
      <4>1. idxmeta'[j] = idxmeta[j] /\ docs'[j] = docs[j] /\ (j \in bykey' <=> j \in bykey)
        BY <1>3, <1>r, <3>2
      <4> QED BY <4>1, <1>x
    <3> QED BY <3>1, <3>2
  <2> QED BY <2>2 DEF IndexExact, MetaOf
<1>4. ASSUME NEW p \in Procs, DeleteCollection(p) PROVE IndexExact'
  <2>1. ASSUME NEW j \in Keys PROVE idxmeta'[j] = MetaOf(docs'[j]) /\ (docs'[j] # None <=> j \in bykey')
    <3>1. docs'[j] = None /\ idxmeta'[j] = idxmeta[j] \ MetaOf(docs[j])
      BY <1>4 DEF DeleteCollection
    <3>2. idxmeta'[j] = {} /\ MetaOf(None) = {}
      BY <3>1, <1>x DEF MetaOf
    <3>3. j \notin bykey'
      BY <1>4, <1>x DEF DeleteCollection
    <3> QED BY <3>1, <3>2, <3>3
  <2> QED BY <2>1 DEF IndexExact, MetaOf
<1>5. IndexExact'
  BY <1>1, <1>2, <1>3, <1>4, SingleWrites DEF SingleInv
<1> QED BY <1>5, <1>t DEF SingleInv

\* Requests for single documents and collections, the reaper and crashes keep the metadata
\* index and bykey exact in every committed state, whatever their interleaving: it takes a
\* batch to break them.
THEOREM IndexIsExact == Batchers = {} /\ Spec => []IndexExact
<1>1. Init => SingleInv
  <2>1. Init => NoJobs /\ IndexExact
    BY DEF Init, NoJobs, IndexExact, MetaOf
  <2> QED BY <2>1, TypedInit DEF SingleInv
<1>2. Batchers = {} => (SingleInv /\ [Next]_vars => SingleInv')
  BY SingleStep
<1>3. SingleInv => IndexExact
  BY DEF SingleInv
<1>4. CASE Batchers = {}
  <2>1. SingleInv /\ [Next]_vars => SingleInv'
    BY <1>2, <1>4
  <2> QED BY <1>1, <1>3, <2>1, PTL DEF Spec
<1>5. CASE Batchers # {}
  BY <1>5
<1> QED BY <1>4, <1>5
-----------------------------------------------------------------------------
(* The history of a document. *)

\* The seconds that have a revision.
Saved(r) == {t \in Times : r[t] # None}

\* A set of seconds that is not empty has a first one.
LEMMA FirstSecond ==
  ASSUME NEW S, S \subseteq Times, S # {}
  PROVE  \E m \in S : \A t \in S : m <= t
<1>1. S \subseteq Nat
  BY DEF Times
<1>2. \E m \in S : \A t \in S : ~(<<t, m>> \in OpToRel(<, Nat))
  BY <1>1, WFMin, NatLessThanWellFounded
<1>3. PICK m \in S : \A t \in S : ~(<<t, m>> \in OpToRel(<, Nat))
  BY <1>2
<1>4. \A t \in S : ~(t < m)
  BY <1>1, <1>3 DEF OpToRel
<1> QED BY <1>1, <1>4

\* trimRevisions leaves no more revisions than it is told to keep: all but the oldest of
\* them are newer than the oldest, which has fewer than that many behind it.
LEMMA TrimmedBounded ==
  ASSUME NEW r \in [Times -> MaybeDoc], NEW keep \in Nat
  PROVE  Cardinality(Saved(Trimmed(r, keep))) <= keep
<1> DEFINE S == Saved(Trimmed(r, keep))
           Newer(t) == {u \in Times : u > t /\ r[u] # None}
<1>1. IsFiniteSet(Times) /\ Times \subseteq Nat
  BY FS_Interval, BoundsAssumption DEF Times
<1>2. \A t \in Times : t \in S => r[t] # None /\ Cardinality(Newer(t)) < keep
  BY DEF Saved, Trimmed
<1>3. S \subseteq Times /\ IsFiniteSet(S)
  <2>1. S \in SUBSET Times
    BY DEF Saved
  <2> HIDE DEF S
  <2> QED BY <1>1, <2>1, FS_Subset
<1>4. CASE S = {}
  <2>1. Cardinality(S) = 0
    BY <1>4, FS_EmptySet
  <2> HIDE DEF S
  <2> QED BY <2>1 DEF S
<1>5. CASE S # {}
  <2> HIDE DEF S
  <2>1. PICK m \in S : \A t \in S : m <= t
    BY <1>3, <1>5, FirstSecond
  <2>2. S \ {m} \in SUBSET Newer(m)
    <3> SUFFICES ASSUME NEW t \in S, t # m PROVE t \in Newer(m)
      OBVIOUS
    <3>1. t \in Times /\ m \in Nat /\ t \in Nat /\ m <= t /\ r[t] # None
      BY <1>1, <1>2, <1>3, <2>1
    <3>2. t > m
      BY <3>1
    <3> QED BY <3>1, <3>2
  <2>3. IsFiniteSet(Newer(m))
    <3>1. Newer(m) \in SUBSET Times
      OBVIOUS
    <3> HIDE DEF Newer
    <3> QED BY <1>1, <3>1, FS_Subset
  <2>4. Cardinality(Newer(m)) < keep
    BY <1>2, <1>3, <2>1
  <2> HIDE DEF Newer
  <2>5. Cardinality(S \ {m}) <= Cardinality(Newer(m)) /\ Cardinality(Newer(m)) \in Nat
    BY <2>2, <2>3, FS_Subset, FS_CardinalityType
  <2>6. Cardinality(S \ {m}) = Cardinality(S) - 1 /\ Cardinality(S) \in Nat
    BY <1>3, <2>1, FS_RemoveElement, FS_CardinalityType
  <2>7. Cardinality(S) <= keep
    BY <2>4, <2>5, <2>6
  <2> QED BY <2>7 DEF S
<1> QED BY <1>4, <1>5

\* A transaction that records a revision and trims leaves no more revisions of its document
\* than the cap, whatever it finds: writes that do not trim, a cap that was lowered and a
\* history that was only partly deleted are all made good by the next one that does.
THEOREM RecordingTrims ==
  ASSUME TypeOK, cap > 0, NEW k \in Keys, NEW t, NEW d \in Docs
  PROVE  Cardinality(Saved(RecordedAndTrimmed(k, t, d)[k])) <= cap
<1>1. rev \in [Keys -> [Times -> MaybeDoc]] /\ cap \in Nat
  BY DEF TypeOK
<1>2. [rev[k] EXCEPT ![t] = d] \in [Times -> MaybeDoc]
  BY <1>1 DEF MaybeDoc
<1>3. RecordedAndTrimmed(k, t, d)[k] = Trimmed([rev[k] EXCEPT ![t] = d], cap)
  BY <1>1 DEF RecordedAndTrimmed
<1> QED BY <1>1, <1>2, <1>3, TrimmedBounded
=============================================================================
