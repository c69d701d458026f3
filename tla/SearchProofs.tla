---------------------------- MODULE SearchProofs ----------------------------
(***************************************************************************)
(* Theorems about what searches answer: hybrid and vector search (Fusion), *)
(* and the geo index (GeoIndex).                                           *)
(***************************************************************************)
EXTENDS Fusion, GeoIndex, FiniteSetTheorems, SequenceTheorems, WellFoundedInduction, TLAPS

-----------------------------------------------------------------------------
(* Numbers. *)

\* Every set of numbers has a least one.
LEMMA LeastNumber ==
  ASSUME NEW I \in SUBSET Nat, I # {}
  PROVE  \E m \in I : \A n \in I : m <= n
<1>1. PICK m \in I : \A n \in I : ~(<<n, m>> \in OpToRel(<, Nat))
  BY WFMin, NatLessThanWellFounded
<1>2. ASSUME NEW n \in I PROVE m <= n
  <2>1. n \in Nat /\ m \in Nat /\ ~(<<n, m>> \in OpToRel(<, Nat))
    BY <1>1
  <2>2. QED BY <2>1 DEF OpToRel
<1>3. QED BY <1>2

\* A set of numbers that has 0 and, with a number, the next one, has all of them.
LEMMA AllNumbers ==
  ASSUME NEW S \in SUBSET Nat, 0 \in S, \A n \in S : n + 1 \in S
  PROVE  S = Nat
<1> SUFFICES ASSUME Nat \ S # {} PROVE FALSE
  OBVIOUS
<1>1. PICK m \in Nat \ S : \A n \in Nat \ S : m <= n
  BY LeastNumber
<1>2. m # 0 /\ m - 1 \in Nat /\ ~(m <= m - 1)
  BY <1>1
<1>3. m - 1 \in S
  BY <1>1, <1>2
<1>4. (m - 1) + 1 \in S /\ (m - 1) + 1 = m
  BY <1>1, <1>3
<1> QED BY <1>1, <1>4

\* Of finitely many documents one has the highest score.
LEMMA TopScore ==
  ASSUME NEW D, IsFiniteSet(D), D # {}, NEW f, \A x \in D : f[x] \in Nat
  PROVE  \E c \in D : \A x \in D : f[x] <= f[c]
<1> DEFINE Topped(C) == \E c \in C : \A x \in C : f[x] <= f[c]
           Sizes == {n \in Nat : \E C \in SUBSET D : C # {} /\ ~Topped(C) /\ Cardinality(C) = n}
<1> SUFFICES ASSUME ~Topped(D) PROVE FALSE
  OBVIOUS
<1>1. Cardinality(D) \in Sizes
  BY FS_CardinalityType
<1>2. PICK n \in Sizes : \A m \in Sizes : n <= m
  <2> HIDE DEF Sizes
  <2>1. Sizes # {}
    BY <1>1
  <2>2. Sizes \in SUBSET Nat
    BY DEF Sizes
  <2> QED BY <2>1, <2>2, LeastNumber
<1>3. PICK C \in SUBSET D : C # {} /\ ~Topped(C) /\ Cardinality(C) = n
  OBVIOUS
<1>4. PICK x \in C : TRUE
  BY <1>3
<1>5. IsFiniteSet(C) /\ IsFiniteSet(C \ {x}) /\ Cardinality(C \ {x}) = n - 1 /\ n \in Nat
  BY <1>3, FS_Subset, FS_RemoveElement, FS_CardinalityType
<1>6. C \ {x} = {} \/ Topped(C \ {x})
  <2> SUFFICES ASSUME C \ {x} # {}, ~Topped(C \ {x}) PROVE FALSE
    OBVIOUS
  <2>1. n - 1 \in Nat
    BY <1>5, FS_CardinalityType
  <2>2. n - 1 \in Sizes
    <3> HIDE DEF Topped
    <3> QED BY <1>5, <2>1, <1>3
  <2> HIDE DEF Sizes
  <2> QED BY <1>2, <1>5, <2>2
<1>7. CASE C \ {x} = {}
  <2>1. C = {x} /\ f[x] \in Nat
    BY <1>7, <1>4
  <2>2. Topped(C)
    BY <2>1
  <2> QED BY <1>3, <2>2
<1>8. CASE Topped(C \ {x})
  <2>1. PICK c \in C \ {x} : \A y \in C \ {x} : f[y] <= f[c]
    BY <1>8
  <2>2. \A y \in C : f[y] \in Nat
    OBVIOUS
  <2>3. CASE f[x] <= f[c]
    <3>1. Topped(C)
      BY <2>1, <2>3
    <3> QED BY <1>3, <3>1
  <2>4. CASE ~(f[x] <= f[c])
    <3>1. \A y \in C : f[y] <= f[x]
      BY <2>1, <2>2, <2>4, <1>4
    <3>2. Topped(C)
      BY <3>1, <1>4
    <3> QED BY <1>3, <3>2
  <2> QED BY <2>3, <2>4
<1> QED BY <1>6, <1>7, <1>8

-----------------------------------------------------------------------------
(* The switches that searches share. *)

SearchPcs == {"idle", "saved", "searching", "restore", "done"}

SwitchTyped ==
  /\ switch \in [Switches -> BOOLEAN] /\ overlapped \in BOOLEAN
  /\ finder \in [Searches -> [pc : SearchPcs, orig : [Switches -> BOOLEAN], off : SUBSET Switches]]

\* Two searches that run together switch nothing off.
TogetherIdle ==
  \A q, r \in Searches : q # r /\ Running(q) /\ Running(r) => finder[q].off = {}

\* What a search found is what it will leave, and what it switched off is off.
OneSwitches ==
  /\ (\A q \in Searches : finder[q].pc \notin {"searching", "restore"} \/ finder[q].off = {}) => switch = AllOn
  /\ \A q \in Searches :
       /\ Running(q) => finder[q].orig = AllOn
       /\ finder[q].pc \in {"searching", "restore"} => switch = [w \in Switches |-> w \notin finder[q].off]

SwitchInv == SwitchTyped /\ (~overlapped => TogetherIdle /\ OneSwitches)

\* With nothing off everything is on.
LEMMA NothingOff == [w \in Switches |-> w \notin {}] = AllOn
BY DEF AllOn

\* At the start no search runs and everything is on.
LEMMA SwitchInitInv == FusionInit => SwitchInv
<1> SUFFICES ASSUME FusionInit PROVE SwitchInv
  OBVIOUS
<1>1. AllOn \in [Switches -> BOOLEAN]
  BY DEF AllOn
<1>2. \A q \in Searches : finder[q] = [pc |-> "idle", orig |-> AllOn, off |-> {}] /\ ~Running(q)
  BY DEF FusionInit, Running
<1>3. SwitchTyped
  BY <1>1 DEF FusionInit, SwitchTyped, SearchPcs
<1>4. TogetherIdle /\ OneSwitches
  BY <1>2 DEF TogetherIdle, OneSwitches, FusionInit
<1> QED BY <1>3, <1>4 DEF SwitchInv

\* Every step keeps what the searches that do not overlap know of the switches.
LEMMA SwitchStep == SwitchInv /\ [FusionNext]_fusionVars => SwitchInv'
<1> SUFFICES ASSUME SwitchInv, [FusionNext]_fusionVars PROVE SwitchInv'
  OBVIOUS
<1> USE DEF SwitchInv
<1>1. ASSUME NEW q \in Searches, NEW off \in SUBSET Switches, SaveSwitches(q, off) PROVE SwitchInv'
  <2>1. SwitchTyped'
    BY <1>1 DEF SaveSwitches, SwitchTyped, SearchPcs
  <2>2. ASSUME ~overlapped' PROVE TogetherIdle' /\ OneSwitches'
    <3>1. ~overlapped /\ TogetherIdle /\ OneSwitches
      BY <1>1, <2>2 DEF SaveSwitches
    <3>2. \A r \in Searches : Running(r) => finder[r].off = {} /\ off = {}
      BY <1>1, <2>2 DEF SaveSwitches
    <3>3. finder'[q] = [pc |-> "saved", orig |-> switch, off |-> off] /\ ~Running(q) /\ Running(q)'
      BY <1>1 DEF SaveSwitches, Running, SwitchTyped
    <3>4. \A r \in Searches \ {q} : finder'[r] = finder[r] /\ (Running(r)' <=> Running(r))
      BY <1>1 DEF SaveSwitches, Running, SwitchTyped
    <3>5. switch = AllOn
      BY <3>1, <3>2 DEF OneSwitches, Running
    <3>6. TogetherIdle'
      BY <3>1, <3>2, <3>3, <3>4 DEF TogetherIdle
    <3>7. OneSwitches'
      BY <1>1, <3>1, <3>3, <3>4, <3>5 DEF OneSwitches, SaveSwitches
    <3> QED BY <3>6, <3>7
  <2> QED BY <2>1, <2>2
<1>2. ASSUME NEW q \in Searches, SwitchOff(q) PROVE SwitchInv'
  <2>1. SwitchTyped'
    BY <1>2 DEF SwitchOff, SwitchTyped, SearchPcs
  <2>2. ASSUME ~overlapped' PROVE TogetherIdle' /\ OneSwitches'
    <3>1. ~overlapped /\ TogetherIdle /\ OneSwitches
      BY <1>2, <2>2 DEF SwitchOff
    <3>2. /\ finder'[q].pc = "searching" /\ finder'[q].orig = finder[q].orig /\ finder'[q].off = finder[q].off
          /\ Running(q) /\ Running(q)'
      BY <1>2 DEF SwitchOff, Running, SwitchTyped
    <3>3. \A r \in Searches \ {q} : finder'[r] = finder[r] /\ (Running(r)' <=> Running(r))
      BY <1>2 DEF SwitchOff, Running, SwitchTyped
    <3>4. \A r \in Searches \ {q} : Running(r) => finder[r].off = {} /\ finder[q].off = {}
      BY <3>1, <3>2 DEF TogetherIdle
    <3>5. switch = AllOn
      <4>1. \A r \in Searches : finder[r].pc \notin {"searching", "restore"} \/ finder[r].off = {}
        BY <1>2, <3>4 DEF Running, SwitchOff
      <4> QED BY <3>1, <4>1 DEF OneSwitches
    <3>6. switch' = [w \in Switches |-> w \notin finder[q].off]
      BY <1>2, <3>5 DEF SwitchOff, AllOn, SwitchTyped
    <3>7. TogetherIdle'
      BY <3>1, <3>2, <3>3 DEF TogetherIdle
    <3>8. ASSUME NEW r \in Searches, finder'[r].pc \in {"searching", "restore"}
          PROVE  switch' = [w \in Switches |-> w \notin finder'[r].off]
      <4>1. CASE r = q
        BY <3>2, <3>6, <4>1
      <4>2. CASE r # q
        <5>1. Running(r)
          BY <3>3, <3>8, <4>2 DEF Running
        <5> QED BY <3>3, <3>4, <3>6, <4>2, <5>1
      <4> QED BY <4>1, <4>2
    <3>9. ASSUME \A r \in Searches : finder'[r].pc \notin {"searching", "restore"} \/ finder'[r].off = {}
          PROVE  switch' = AllOn
      BY <3>2, <3>6, <3>9, NothingOff
    <3>10. \A r \in Searches : Running(r)' => finder'[r].orig = AllOn
      BY <3>1, <3>2, <3>3 DEF OneSwitches
    <3> QED BY <3>7, <3>8, <3>9, <3>10 DEF OneSwitches
  <2> QED BY <2>1, <2>2
<1>3. ASSUME NEW q \in Searches, NEW how, SearchReturns(q, how) PROVE SwitchInv'
  <2>1. SwitchTyped'
    BY <1>3 DEF SearchReturns, SwitchTyped, SearchPcs
  <2>2. /\ finder'[q].pc = "restore" /\ finder'[q].orig = finder[q].orig /\ finder'[q].off = finder[q].off
        /\ Running(q) /\ Running(q)' /\ finder[q].pc = "searching" /\ UNCHANGED <<switch, overlapped>>
    BY <1>3 DEF SearchReturns, Running, SwitchTyped
  <2>3. \A r \in Searches \ {q} : finder'[r] = finder[r] /\ (Running(r)' <=> Running(r))
    BY <1>3 DEF SearchReturns, Running, SwitchTyped
  <2>4. TogetherIdle => TogetherIdle'
    BY <2>2, <2>3 DEF TogetherIdle
  <2>5. OneSwitches => OneSwitches'
    BY <2>2, <2>3 DEF OneSwitches
  <2> QED BY <2>1, <2>2, <2>4, <2>5
<1>4. ASSUME NEW q \in Searches, RestoreSwitches(q) PROVE SwitchInv'
  <2>1. SwitchTyped'
    BY <1>4 DEF RestoreSwitches, SwitchTyped, SearchPcs
  <2>2. /\ finder'[q].pc = "done" /\ Running(q) /\ ~Running(q)' /\ finder[q].pc = "restore"
        /\ switch' = finder[q].orig /\ overlapped' = overlapped
    BY <1>4 DEF RestoreSwitches, Running, SwitchTyped
  <2>3. \A r \in Searches \ {q} : finder'[r] = finder[r] /\ (Running(r)' <=> Running(r))
    BY <1>4 DEF RestoreSwitches, Running, SwitchTyped
  <2>4. ASSUME ~overlapped PROVE TogetherIdle' /\ OneSwitches'
    <3>1. TogetherIdle /\ OneSwitches
      BY <2>4
    <3>2. switch' = AllOn
      BY <2>2, <3>1 DEF OneSwitches
    <3>3. \A r \in Searches \ {q} : Running(r) => finder[r].off = {}
      BY <2>2, <3>1 DEF TogetherIdle
    <3>4. TogetherIdle'
      BY <2>2, <2>3, <3>1 DEF TogetherIdle
    <3>5. ASSUME NEW r \in Searches, finder'[r].pc \in {"searching", "restore"}
          PROVE  switch' = [w \in Switches |-> w \notin finder'[r].off]
      <4>1. r # q
        BY <2>2, <3>5
      <4>2. Running(r)
        BY <2>3, <3>5, <4>1 DEF Running
      <4> QED BY <2>3, <3>2, <3>3, <4>1, <4>2, NothingOff
    <3>6. \A r \in Searches : Running(r)' => finder'[r].orig = AllOn
      BY <2>2, <2>3, <3>1 DEF OneSwitches
    <3> QED BY <3>2, <3>4, <3>5, <3>6 DEF OneSwitches
  <2> QED BY <2>1, <2>2, <2>4
<1>5. ASSUME UNCHANGED <<switch, finder, overlapped>> PROVE SwitchInv'
  BY <1>5 DEF SwitchTyped, TogetherIdle, OneSwitches, Running
<1>6. (\E q : Ask(q)) => UNCHANGED <<switch, finder, overlapped>>
  BY DEF Ask
<1> QED
  <2>1. CASE AskRrf \/ AskAlpha \/ AskParallel \/ AskChunks
    BY <1>5, <1>6, <2>1 DEF AskRrf, AskAlpha, AskParallel, AskChunks
  <2>2. CASE UNCHANGED fusionVars
    BY <1>5, <2>2 DEF fusionVars
  <2> QED BY <1>1, <1>2, <1>3, <1>4, <2>1, <2>2 DEF FusionNext

\* SwitchInv implies the property about runFTSSearch and handleFTS that the runs check.
LEMMA SwitchInvSound == SwitchInv => SwitchesRestored
<1> SUFFICES ASSUME SwitchInv, ~overlapped PROVE
       /\ (\A q \in Searches : ~Running(q)) => switch = AllOn
       /\ \A q \in Searches : finder[q].pc = "searching" =>
            \A w \in Switches : switch[w] <=> w \notin finder[q].off
  BY DEF SwitchesRestored
<1>1. OneSwitches
  BY DEF SwitchInv
<1>2. \A q \in Searches : ~Running(q) => finder[q].pc \notin {"searching", "restore"}
  BY DEF Running
<1> QED BY <1>1, <1>2 DEF OneSwitches

-----------------------------------------------------------------------------
(* Fractions. *)

Frac == [num : Nat, den : Nat \ {0}]
AtLeast(a, b) == a.num * b.den >= b.num * a.den

\* A product of natural numbers grows with its first factor.
LEMMA Grows ==
  ASSUME NEW m \in Nat, NEW n \in Nat, m >= n, NEW k \in Nat
  PROVE  m * k >= n * k /\ (m > n /\ k > 0 => m * k > n * k)
<1>1. PICK x \in Nat : m = n + x
  <2>1. m - n \in Nat /\ m = n + (m - n)
    OBVIOUS
  <2> QED BY <2>1
<1>2. m * k = n * k + x * k
  BY <1>1
<1>3. x * k \in Nat /\ n * k \in Nat /\ (x > 0 /\ k > 0 => x * k > 0)
  OBVIOUS
<1> QED BY <1>1, <1>2, <1>3

\* The sum of larger fractions is larger.
LEMMA SumOrder ==
  ASSUME NEW a \in Frac, NEW b \in Frac, NEW c \in Frac, NEW d \in Frac, AtLeast(a, c), AtLeast(b, d)
  PROVE  /\ Plus(a, b) \in Frac
         /\ AtLeast(Plus(a, b), Plus(c, d))
         /\ Above(a, c) \/ Above(b, d) => Above(Plus(a, b), Plus(c, d))
<1>1. PICK an, bn, cn, dn \in Nat, ad, bd, cd, dd \in Nat \ {0} :
        /\ a.num = an /\ b.num = bn /\ c.num = cn /\ d.num = dn
        /\ a.den = ad /\ b.den = bd /\ c.den = cd /\ d.den = dd
  BY DEF Frac
<1>2. an * cd >= cn * ad /\ bn * dd >= dn * bd
  BY <1>1 DEF AtLeast
<1>3. /\ Plus(a, b).num = an * bd + bn * ad /\ Plus(a, b).den = ad * bd
      /\ Plus(c, d).num = cn * dd + dn * cd /\ Plus(c, d).den = cd * dd
  BY <1>1 DEF Plus
<1>4. bd * dd \in Nat /\ bd * dd > 0 /\ ad * cd \in Nat /\ ad * cd > 0
  OBVIOUS
<1>5. an * cd \in Nat /\ cn * ad \in Nat /\ bn * dd \in Nat /\ dn * bd \in Nat
  OBVIOUS
<1>6. /\ (an * cd) * (bd * dd) >= (cn * ad) * (bd * dd)
      /\ an * cd > cn * ad => (an * cd) * (bd * dd) > (cn * ad) * (bd * dd)
  BY <1>2, <1>4, <1>5, Grows
<1>7. /\ (bn * dd) * (ad * cd) >= (dn * bd) * (ad * cd)
      /\ bn * dd > dn * bd => (bn * dd) * (ad * cd) > (dn * bd) * (ad * cd)
  BY <1>2, <1>4, <1>5, Grows
<1>8. (an * bd + bn * ad) * (cd * dd) = (an * cd) * (bd * dd) + (bn * dd) * (ad * cd)
  OBVIOUS
<1>9. (cn * dd + dn * cd) * (ad * bd) = (cn * ad) * (bd * dd) + (dn * bd) * (ad * cd)
  OBVIOUS
<1>10. /\ (an * cd) * (bd * dd) \in Nat /\ (cn * ad) * (bd * dd) \in Nat
       /\ (bn * dd) * (ad * cd) \in Nat /\ (dn * bd) * (ad * cd) \in Nat
  OBVIOUS
<1>11. Plus(a, b) \in Frac
  BY <1>1, <1>4 DEF Plus, Frac
<1>12. /\ (an * bd + bn * ad) * (cd * dd) >= (cn * dd + dn * cd) * (ad * bd)
       /\ an * cd > cn * ad \/ bn * dd > dn * bd
            => (an * bd + bn * ad) * (cd * dd) > (cn * dd + dn * cd) * (ad * bd)
  BY <1>6, <1>7, <1>8, <1>9, <1>10
<1> QED BY <1>1, <1>3, <1>11, <1>12 DEF AtLeast, Above

-----------------------------------------------------------------------------
(* Results. *)

\* A result that holds a document holds all that are ahead of it.
LEMMA TopsKeep ==
  ASSUME NEW docs, NEW topK, NEW ahead, NEW S \in Tops(docs, topK, ahead),
         NEW d \in docs, NEW e \in S, <<d, e>> \in ahead
  PROVE  d \in S
BY DEF Tops

\* A document of a list has a rank, and no other has.
LEMMA RankFacts ==
  ASSUME NEW list \in Rankings, NEW d
  PROVE  RankIn(list, d) \in Nat /\ (RankIn(list, d) # 0 <=> d \in Members(list))
<1>1. Cardinality(FuDocs) \in Nat
  BY FusionAssumption, FS_CardinalityType
<1>2. PICK n \in Nat : list \in [1..n -> FuDocs]
  BY <1>1 DEF Rankings
<1>3. CASE \E i \in DOMAIN list : list[i] = d
  <2>1. RankIn(list, d) \in DOMAIN list /\ list[RankIn(list, d)] = d
    BY <1>3 DEF RankIn
  <2> QED BY <1>2, <1>3, <2>1 DEF Members
<1>4. CASE ~ \E i \in DOMAIN list : list[i] = d
  BY <1>4 DEF RankIn, Members
<1> QED BY <1>3, <1>4

\* The share of a document falls with its rank.
LEMMA ShareOrder ==
  ASSUME NEW list \in Rankings, NEW d, NEW e
  PROVE  /\ Share(list, d) \in Frac /\ Share(list, e) \in Frac
         /\ ~Better(list, e, d) => AtLeast(Share(list, d), Share(list, e))
         /\ Better(list, d, e) => Above(Share(list, d), Share(list, e))
<1>1. PICK r \in Nat, t \in Nat, k \in Nat \ {0} : r = RankIn(list, d) /\ t = RankIn(list, e) /\ k = RRFK
  BY RankFacts, FusionAssumption
<1>2. /\ Share(list, d) = IF r = 0 THEN NoShare ELSE [num |-> 1, den |-> k + r]
      /\ Share(list, e) = IF t = 0 THEN NoShare ELSE [num |-> 1, den |-> k + t]
  BY <1>1 DEF Share
<1>3. Share(list, d) \in Frac /\ Share(list, e) \in Frac
  BY <1>2 DEF Frac, NoShare
<1>4. /\ Share(list, d).num = (IF r = 0 THEN 0 ELSE 1) /\ Share(list, d).den = (IF r = 0 THEN 1 ELSE k + r)
      /\ Share(list, e).num = (IF t = 0 THEN 0 ELSE 1) /\ Share(list, e).den = (IF t = 0 THEN 1 ELSE k + t)
  BY <1>2 DEF NoShare
<1>5. /\ Better(list, e, d) <=> t # 0 /\ (r = 0 \/ t < r)
      /\ Better(list, d, e) <=> r # 0 /\ (t = 0 \/ r < t)
  BY <1>1 DEF Better
<1>6. CASE r = 0 \/ t = 0
  BY <1>3, <1>4, <1>5, <1>6 DEF AtLeast, Above
<1>7. CASE r # 0 /\ t # 0
  BY <1>3, <1>4, <1>5, <1>7 DEF AtLeast, Above
<1> QED BY <1>6, <1>7

\* In mergeRRF a document better in one ranking and worse in none is in every cut of
\* the list that holds the other.
LEMMA RrfSound ==
  ASSUME fused.kind = "rrf" => fused.fts \in Rankings /\ fused.vec \in Rankings
  PROVE  RrfDominates
<1> SUFFICES ASSUME fused.kind = "rrf", NEW d \in Members(fused.fts) \cup Members(fused.vec),
                    NEW e \in Members(fused.fts) \cup Members(fused.vec),
                    Better(fused.fts, d, e) \/ Better(fused.vec, d, e),
                    ~Better(fused.fts, e, d) /\ ~Better(fused.vec, e, d),
                    NEW topK \in 1..Cardinality(FuDocs),
                    NEW S \in MergeRRF(fused.fts, fused.vec, topK), e \in S
             PROVE  d \in S
  BY DEF RrfDominates
<1>1. PICK f \in Rankings, v \in Rankings : f = fused.fts /\ v = fused.vec
  OBVIOUS
<1>2. /\ Share(f, d) \in Frac /\ Share(f, e) \in Frac /\ Share(v, d) \in Frac /\ Share(v, e) \in Frac
      /\ AtLeast(Share(f, d), Share(f, e)) /\ AtLeast(Share(v, d), Share(v, e))
      /\ Above(Share(f, d), Share(f, e)) \/ Above(Share(v, d), Share(v, e))
  BY <1>1, ShareOrder
<1>3. Above(RrfScore(f, v, d), RrfScore(f, v, e))
  BY <1>2, SumOrder DEF RrfScore
<1>4. PICK docs, ahead : /\ docs = Members(f) \cup Members(v)
                         /\ ahead = {p \in docs \X docs : Above(RrfScore(f, v, p[1]), RrfScore(f, v, p[2]))}
  OBVIOUS
<1>5. S \in Tops(docs, topK, ahead)
  BY <1>1, <1>4 DEF MergeRRF
<1>6. d \in docs /\ e \in docs
  BY <1>1, <1>4
<1>7. <<d, e>> \in ahead
  BY <1>3, <1>4, <1>6
<1> QED BY <1>5, <1>6, <1>7, TopsKeep

-----------------------------------------------------------------------------
(* Blended scores. *)

\* A text score is stretched to a fraction, and the order stays.
LEMMA NormalOrder ==
  ASSUME NEW fts \in Scored(FuDocs), NEW d \in DOMAIN fts
  PROVE  /\ NormalizeFTS(fts, d) \in Frac
         /\ \A e \in DOMAIN fts : fts[d] >= fts[e] => AtLeast(NormalizeFTS(fts, d), NormalizeFTS(fts, e))
<1>1. PICK D \in SUBSET FuDocs : fts \in [D -> FuScores]
  BY DEF Scored
<1>2. IsFiniteSet(D) /\ D # {} /\ \A x \in D : fts[x] \in Nat \ {0}
  BY <1>1, FusionAssumption, FS_Subset
<1>3. ScoresOf(fts) \in SUBSET Nat /\ ScoresOf(fts) # {}
  BY <1>1, <1>2 DEF ScoresOf
<1>4. PICK low \in ScoresOf(fts) : low = Lowest(ScoresOf(fts)) /\ \A y \in ScoresOf(fts) : low <= y
  BY <1>3, LeastNumber DEF Lowest
<1>5. PICK high \in ScoresOf(fts) : high = Highest(ScoresOf(fts)) /\ \A y \in ScoresOf(fts) : high >= y
  <2>1. PICK c \in D : \A x \in D : fts[x] <= fts[c]
    BY <1>2, TopScore
  <2>2. fts[c] \in ScoresOf(fts) /\ \A y \in ScoresOf(fts) : fts[c] >= y
    BY <1>1, <1>2, <2>1 DEF ScoresOf
  <2> QED BY <2>2 DEF Highest
<1>6. \A x \in D : fts[x] \in Nat /\ low \in Nat /\ high \in Nat /\ low <= fts[x] /\ fts[x] <= high
  BY <1>1, <1>2, <1>3, <1>4, <1>5 DEF ScoresOf
<1>7. \A x \in D : NormalizeFTS(fts, x) = IF high = low THEN [num |-> 1, den |-> 1]
                                           ELSE [num |-> fts[x] - low, den |-> high - low]
  BY <1>4, <1>5 DEF NormalizeFTS
<1>8. d \in D
  BY <1>1
<1>9. NormalizeFTS(fts, d) \in Frac
  BY <1>6, <1>7, <1>8 DEF Frac
<1>10. ASSUME NEW e \in D, fts[d] >= fts[e] PROVE AtLeast(NormalizeFTS(fts, d), NormalizeFTS(fts, e))
  <2>1. CASE high = low
    BY <1>7, <1>8, <2>1 DEF AtLeast
  <2>2. CASE high # low
    <3>1. PICK m \in Nat, n \in Nat, k \in Nat : m = fts[d] - low /\ n = fts[e] - low /\ k = high - low
      BY <1>6, <1>8
    <3>2. m >= n
      BY <1>6, <1>8, <1>10, <3>1
    <3>3. m * k >= n * k
      BY <3>2, Grows
    <3> QED BY <1>7, <1>8, <2>2, <3>1, <3>3 DEF AtLeast
  <2> QED BY <2>1, <2>2
<1> QED BY <1>1, <1>9, <1>10

\* The two parts of a blended score.
TextPart(fts, d) == IF d \in DOMAIN fts THEN NormalizeFTS(fts, d) ELSE NoShare
Blend(f, v, a) == Plus([num |-> (AlphaParts - a) * f.num, den |-> AlphaParts * f.den],
                       [num |-> a * v, den |-> AlphaParts])

\* mergeAlpha scores a document by its part of the text scores and of the vectors.
LEMMA BlendIs ==
  ASSUME NEW fts, NEW vec, NEW a, NEW d
  PROVE  AlphaScore(fts, vec, a, d) = Blend(TextPart(fts, d), Has(vec, d), a)
BY DEF AlphaScore, Blend, TextPart, Has

\* What a document has of scores.
LEMMA HasNat ==
  ASSUME NEW f \in Scored(FuDocs), NEW d
  PROVE  Has(f, d) \in Nat /\ (Has(f, d) > 0 <=> d \in DOMAIN f)
<1>1. PICK D \in SUBSET FuDocs : f \in [D -> FuScores]
  BY DEF Scored
<1>2. \A x \in D : f[x] \in Nat \ {0}
  BY <1>1, FusionAssumption
<1>3. CASE d \in D
  <2>1. Has(f, d) = f[d] /\ f[d] \in Nat \ {0} /\ d \in DOMAIN f
    BY <1>1, <1>2, <1>3 DEF Has
  <2> QED BY <2>1
<1>4. CASE d \notin D
  BY <1>1, <1>4 DEF Has
<1> QED BY <1>3, <1>4

\* More of one part and no less of the other is no lower a blend, nor is it the same
\* when the vector part is higher.
LEMMA BlendOrder ==
  ASSUME NEW f \in Frac, NEW g \in Frac, AtLeast(f, g), NEW v \in Nat, NEW w \in Nat, v >= w,
         NEW a \in 1..AlphaParts
  PROVE  /\ Blend(f, v, a) \in Frac
         /\ AtLeast(Blend(f, v, a), Blend(g, w, a))
         /\ v > w => Above(Blend(f, v, a), Blend(g, w, a))
<1>1. PICK A \in Nat \ {0}, b \in Nat : A = AlphaParts /\ b = A - a /\ a \in Nat \ {0}
  BY FusionAssumption
<1>2. PICK fn, gn \in Nat, fd, gd \in Nat \ {0} : f.num = fn /\ f.den = fd /\ g.num = gn /\ g.den = gd
  BY DEF Frac
<1>3. fn * gd >= gn * fd /\ fn * gd \in Nat /\ gn * fd \in Nat
  BY <1>2 DEF AtLeast
<1>4. b * A \in Nat /\ (fn * gd) * (b * A) >= (gn * fd) * (b * A)
  <2>1. b * A \in Nat
    BY <1>1
  <2> QED BY <1>3, <2>1, Grows
<1>5. (b * fn) * (A * gd) >= (b * gn) * (A * fd)
  <2>1. (b * fn) * (A * gd) = (fn * gd) * (b * A)
    BY <1>1
  <2>2. (b * gn) * (A * fd) = (gn * fd) * (b * A)
    BY <1>1
  <2> QED BY <1>4, <2>1, <2>2
<1>6. b * fn \in Nat /\ b * gn \in Nat /\ A * fd \in Nat \ {0} /\ A * gd \in Nat \ {0} /\ a * v \in Nat /\ a * w \in Nat
  BY <1>1
<1>7. (a * v) * A >= (a * w) * A /\ (v > w => (a * v) * A > (a * w) * A)
  <2>1. a * A \in Nat /\ a * A > 0
    BY <1>1
  <2>2. v * (a * A) >= w * (a * A) /\ (v > w => v * (a * A) > w * (a * A))
    BY <2>1, Grows
  <2>3. (a * v) * A = v * (a * A) /\ (a * w) * A = w * (a * A)
    BY <1>1
  <2> QED BY <2>2, <2>3
<1>8. PICK x \in Frac, y \in Frac, z \in Frac, u \in Frac :
        /\ x = [num |-> b * fn, den |-> A * fd] /\ z = [num |-> b * gn, den |-> A * gd]
        /\ y = [num |-> a * v, den |-> A] /\ u = [num |-> a * w, den |-> A]
  BY <1>1, <1>6 DEF Frac
<1>9. AtLeast(x, z) /\ AtLeast(y, u) /\ (v > w => Above(y, u))
  BY <1>5, <1>7, <1>8 DEF AtLeast, Above
<1>10. Blend(f, v, a) = Plus(x, y) /\ Blend(g, w, a) = Plus(z, u)
  BY <1>1, <1>2, <1>8 DEF Blend
<1> QED BY <1>9, <1>10, SumOrder

\* mergeAlpha puts no document behind one that has less of both scores.
LEMMA AlphaSound ==
  ASSUME fused.kind = "alpha" =>
           fused.fts \in Scored(FuDocs) /\ fused.vec \in Scored(FuDocs) /\ fused.a \in 1..AlphaParts
  PROVE  AlphaDominates
<1> SUFFICES ASSUME fused.kind = "alpha", NEW d \in DOMAIN fused.fts \cup DOMAIN fused.vec,
                    NEW e \in DOMAIN fused.fts \cup DOMAIN fused.vec,
                    Has(fused.fts, d) >= Has(fused.fts, e) /\ Has(fused.vec, d) >= Has(fused.vec, e)
             PROVE  /\ ~Above(AlphaScore(fused.fts, fused.vec, fused.a, e), AlphaScore(fused.fts, fused.vec, fused.a, d))
                    /\ Has(fused.vec, d) > Has(fused.vec, e) =>
                         \A topK \in 1..Cardinality(FuDocs) :
                           \A S \in MergeAlpha(fused.fts, fused.vec, fused.a, topK) : e \in S => d \in S
  BY DEF AlphaDominates
<1>1. PICK f \in Scored(FuDocs), v \in Scored(FuDocs), a \in 1..AlphaParts :
        f = fused.fts /\ v = fused.vec /\ a = fused.a
  OBVIOUS
<1>2. /\ Has(f, d) \in Nat /\ Has(f, e) \in Nat /\ Has(v, d) \in Nat /\ Has(v, e) \in Nat
      /\ e \in DOMAIN f => d \in DOMAIN f /\ f[d] >= f[e]
  <2>1. /\ Has(f, d) \in Nat /\ Has(f, e) \in Nat /\ Has(v, d) \in Nat /\ Has(v, e) \in Nat
        /\ Has(f, d) > 0 <=> d \in DOMAIN f
        /\ Has(f, e) > 0 <=> e \in DOMAIN f
    BY HasNat
  <2> QED BY <1>1, <2>1 DEF Has
<1>3. NoShare \in Frac /\ \A g \in Frac : AtLeast(g, NoShare)
  BY DEF NoShare, Frac, AtLeast
<1>4. \A x \in DOMAIN f : NormalizeFTS(f, x) \in Frac
  BY NormalOrder
<1>5. TextPart(f, d) \in Frac /\ TextPart(f, e) \in Frac
  BY <1>3, <1>4 DEF TextPart
<1>6. AtLeast(TextPart(f, d), TextPart(f, e))
  <2>1. CASE e \in DOMAIN f
    BY <1>2, <2>1, NormalOrder DEF TextPart
  <2>2. CASE e \notin DOMAIN f
    BY <1>3, <1>5, <2>2 DEF TextPart
  <2> QED BY <2>1, <2>2
<1>7. PICK x, y : x = AlphaScore(f, v, a, d) /\ y = AlphaScore(f, v, a, e)
  OBVIOUS
<1>8. x \in Frac /\ y \in Frac /\ AtLeast(x, y) /\ (Has(v, d) > Has(v, e) => Above(x, y))
  <2>1. x = Blend(TextPart(f, d), Has(v, d), a) /\ y = Blend(TextPart(f, e), Has(v, e), a)
    BY <1>7, BlendIs
  <2>2. Has(v, d) >= Has(v, e)
    BY <1>1
  <2>3. x \in Frac /\ AtLeast(x, y) /\ (Has(v, d) > Has(v, e) => Above(x, y))
    BY <1>2, <1>5, <1>6, <2>1, <2>2, BlendOrder
  <2>4. AtLeast(TextPart(f, e), TextPart(f, e)) /\ Has(v, e) >= Has(v, e)
    BY <1>2, <1>5 DEF AtLeast, Frac
  <2>5. y \in Frac
    BY <1>2, <1>5, <2>1, <2>4, BlendOrder
  <2> QED BY <2>3, <2>5
<1>9. ~Above(y, x)
  BY <1>8 DEF AtLeast, Above, Frac
<1>10. ASSUME Has(v, d) > Has(v, e), NEW topK, NEW S \in MergeAlpha(f, v, a, topK), e \in S PROVE d \in S
  <2>1. Above(AlphaScore(f, v, a, d), AlphaScore(f, v, a, e))
    BY <1>7, <1>8, <1>10
  <2>2. PICK docs, ahead : /\ docs = DOMAIN f \cup DOMAIN v
                           /\ ahead = {p \in docs \X docs : Above(AlphaScore(f, v, a, p[1]), AlphaScore(f, v, a, p[2]))}
    OBVIOUS
  <2>3. S \in Tops(docs, topK, ahead)
    BY <1>10, <2>2 DEF MergeAlpha
  <2>4. d \in docs /\ e \in docs
    BY <1>1, <2>2
  <2>5. <<d, e>> \in ahead
    BY <2>1, <2>2, <2>4
  <2> QED BY <1>10, <2>3, <2>4, <2>5, TopsKeep
<1> QED BY <1>1, <1>7, <1>9, <1>10

-----------------------------------------------------------------------------
(* Chunks of a document. *)

\* The best score of a document is that of one of its chunks, and no chunk of it has a higher.
LEMMA BestIs ==
  ASSUME NEW C, IsFiniteSet(C), NEW scores, \A c \in C : scores[c] \in Nat, NEW d, \E c \in C : c[1] = d
  PROVE  /\ \E c \in C : c[1] = d /\ BestScore(C, scores, d) = scores[c]
         /\ \A c \in C : c[1] = d => scores[c] <= BestScore(C, scores, d)
<1> DEFINE Of == {x \in C : x[1] = d}
<1>1. IsFiniteSet(Of) /\ Of # {} /\ \A c \in Of : scores[c] \in Nat
  BY FS_Subset
<1>2. PICK c \in Of : \A x \in Of : scores[x] <= scores[c]
  <2> HIDE DEF Of
  <2> QED BY <1>1, TopScore
<1>3. PICK V : V = {scores[x] : x \in Of}
  OBVIOUS
<1>4. BestScore(C, scores, d) = Highest(V)
  BY <1>3 DEF BestScore
<1>5. scores[c] \in V /\ \A y \in V : scores[c] >= y
  <2> HIDE DEF Of
  <2> QED BY <1>1, <1>2, <1>3
<1>6. Highest(V) \in V /\ \A y \in V : Highest(V) >= y
  BY <1>5 DEF Highest
<1>7. \A x \in Of : scores[x] \in V
  BY <1>3
<1> QED BY <1>1, <1>3, <1>4, <1>6, <1>7

\* DeduplicateChunkResults keeps the best documents, each with its best chunk.
LEMMA DedupSound ==
  ASSUME fused.kind = "chunks" => fused.scores \in Scored(FuDocs \X {1, 2})
  PROVE  DedupIsPrefix
<1> SUFFICES ASSUME fused.kind = "chunks", NEW topK \in 1..3, NEW r \in SearchChunks(fused.scores, topK),
                    NEW d \in DOMAIN r
             PROVE  /\ \A c \in DOMAIN fused.scores : c[1] = d => r[d] >= fused.scores[c]
                    /\ \A e \in {c[1] : c \in DOMAIN fused.scores} \ DOMAIN r :
                         BestScore(DOMAIN fused.scores, fused.scores, e) <= r[d]
  BY DEF DedupIsPrefix
<1>1. PICK scores \in Scored(FuDocs \X {1, 2}), D \in {DOMAIN fused.scores} : scores = fused.scores /\ D = DOMAIN scores
  OBVIOUS
<1>2. IsFiniteSet(D) /\ \A c \in D : scores[c] \in Nat
  <2>1. D \in SUBSET (FuDocs \X {1, 2}) /\ \A c \in D : scores[c] \in FuScores
    BY <1>1 DEF Scored
  <2>2. IsFiniteSet({1, 2})
    <3>1. IsFiniteSet(1..2)
      BY FS_Interval, 1 \in Int, 2 \in Int
    <3>2. 1..2 = {1, 2}
      OBVIOUS
    <3> QED BY <3>1, <3>2
  <2> QED BY <2>1, <2>2, FusionAssumption, FS_Product, FS_Subset
<1>3. PICK hits \in Tops(D, topK, {p \in D \X D : scores[p[1]] > scores[p[2]]}) :
        r = [x \in {c[1] : c \in hits} |-> BestScore(hits, scores, x)]
  BY <1>1 DEF SearchChunks
<1>4. /\ hits \in SUBSET D /\ IsFiniteSet(hits)
      /\ \A h \in hits, c \in D \ hits : scores[c] <= scores[h]
  <2>1. hits \in SUBSET D /\ \A h \in hits, c \in D \ hits : <<c, h>> \notin {p \in D \X D : scores[p[1]] > scores[p[2]]}
    BY <1>3 DEF Tops
  <2>2. \A h \in hits, c \in D \ hits : ~(scores[c] > scores[h])
    BY <2>1
  <2>3. IsFiniteSet(hits)
    BY <1>2, <2>1, FS_Subset
  <2> QED BY <1>2, <2>1, <2>2, <2>3
<1>5. PICK h \in hits : h[1] = d
  BY <1>3
<1>6. r[d] = BestScore(hits, scores, d)
  BY <1>3, <1>5
<1>7. \A c \in hits : scores[c] \in Nat
  BY <1>2, <1>4
<1>8. r[d] \in Nat /\ \A c \in hits : c[1] = d => scores[c] <= r[d]
  BY <1>4, <1>5, <1>6, <1>7, BestIs
<1>9. scores[h] <= r[d]
  BY <1>5, <1>8
<1>10. \A c \in D \ hits : scores[c] <= r[d]
  BY <1>2, <1>4, <1>7, <1>8, <1>9
<1>11. ASSUME NEW e \in {c[1] : c \in D} \ DOMAIN r PROVE BestScore(D, scores, e) <= r[d]
  <2>1. PICK c \in D : c[1] = e /\ BestScore(D, scores, e) = scores[c]
    BY <1>2, BestIs
  <2>2. c \notin hits
    BY <1>3, <1>11, <2>1
  <2> QED BY <1>10, <2>1, <2>2
<1>12. \A c \in D : c[1] = d => r[d] >= scores[c]
  BY <1>2, <1>8, <1>10
<1> QED BY <1>1, <1>11, <1>12

-----------------------------------------------------------------------------
(* Entries divided among workers. *)

Upto(k) == [i \in 1..k |-> i]

\* The first entries, and those that follow.
LEMMA UptoMore ==
  ASSUME NEW k \in Nat, NEW m \in Nat
  PROVE  Upto(k) \o [i \in 1..m |-> k + i] = Upto(k + m)
<1>1. PICK s \in Seq(Nat), t \in Seq(Nat), u \in Seq(Nat) :
        s = Upto(k) /\ t = [i \in 1..m |-> k + i] /\ u = Upto(k + m) /\ Len(s) = k /\ Len(t) = m /\ Len(u) = k + m
  <2>1. Upto(k) \in Seq(Nat) /\ Len(Upto(k)) = k
    BY DEF Upto
  <2>2. [i \in 1..m |-> k + i] \in Seq(Nat) /\ Len([i \in 1..m |-> k + i]) = m
    OBVIOUS
  <2>3. k + m \in Nat /\ Upto(k + m) \in Seq(Nat) /\ Len(Upto(k + m)) = k + m
    BY DEF Upto
  <2> QED BY <2>1, <2>2, <2>3
<1>2. s \o t \in Seq(Nat) /\ Len(s \o t) = k + m
  BY <1>1, ConcatProperties
<1>3. ASSUME NEW i \in 1..k + m PROVE (s \o t)[i] = u[i]
  <2>1. (s \o t)[i] = IF i <= k THEN s[i] ELSE t[i - k]
    <3>1. \A j \in 1..Len(s) + Len(t) : (s \o t)[j] = IF j <= Len(s) THEN s[j] ELSE t[j - Len(s)]
      BY ConcatProperties
    <3> QED BY <1>1, <3>1
  <2>2. u[i] = i
    BY <1>1 DEF Upto
  <2>3. i <= k => s[i] = i
    BY <1>1 DEF Upto
  <2>4. ~(i <= k) => i - k \in 1..m /\ t[i - k] = i
    BY <1>1
  <2> QED BY <2>1, <2>2, <2>3, <2>4
<1> QED BY <1>1, <1>2, <1>3, SeqEqual

Lesser(a, b) == IF a < b THEN a ELSE b

\* A worker goes on where the one before it stopped.
LEMMA NextRange ==
  ASSUME NEW n \in Nat, NEW size \in Nat, NEW w \in Nat
  PROVE  Upto(Lesser(w * size, n)) \o ScoreRange(n, size, w) = Upto(Lesser((w + 1) * size, n))
<1>1. PICK start \in Nat : start = w * size /\ (w + 1) * size = start + size
  <2>1. w * size \in Nat /\ (w + 1) * size = w * size + size
    OBVIOUS
  <2> QED BY <2>1
<1>2. CASE start >= n
  <2>1. ScoreRange(n, size, w) = <<>>
    BY <1>1, <1>2 DEF ScoreRange
  <2>2. Lesser(start, n) = n /\ Lesser(start + size, n) = n
    BY <1>2 DEF Lesser
  <2>3. Upto(n) \in Seq(Nat)
    BY DEF Upto
  <2> QED BY <1>1, <2>1, <2>2, <2>3, ConcatEmptySeq
<1>3. CASE start < n
  <2>1. PICK end \in Nat, m \in Nat : end = Lesser(start + size, n) /\ end = start + m
    <3>1. Lesser(start + size, n) \in Nat /\ Lesser(start + size, n) - start \in Nat
      BY <1>3 DEF Lesser
    <3> QED BY <3>1
  <2>2. ScoreRange(n, size, w) = [i \in 1..m |-> start + i]
    <3>1. end - start = m /\ ~(start >= n)
      BY <1>3, <2>1
    <3>2. end = IF start + size < n THEN start + size ELSE n
      BY <2>1 DEF Lesser
    <3> QED BY <1>1, <3>1, <3>2 DEF ScoreRange
  <2>3. Lesser(start, n) = start
    BY <1>3 DEF Lesser
  <2>4. Upto(start) \o [i \in 1..m |-> start + i] = Upto(start + m)
    BY UptoMore
  <2> QED BY <1>1, <2>1, <2>2, <2>3, <2>4
<1> QED BY <1>2, <1>3

\* What is merged of the first workers.
MergedBy(n, size, workers, f) ==
  f = [w \in 0..workers |-> IF w = 0 THEN <<>> ELSE f[w - 1] \o ScoreRange(n, size, w - 1)]

\* The partial results of the first workers are the first entries, in their order.
LEMMA MergedIs ==
  ASSUME NEW n \in Nat, NEW size \in Nat, NEW workers \in Nat
  PROVE  (CHOOSE f : MergedBy(n, size, workers, f))[workers] = Upto(Lesser(workers * size, n))
<1>1. PICK g : g = [w \in 0..workers |-> Upto(Lesser(w * size, n))]
  OBVIOUS
<1>2. MergedBy(n, size, workers, g)
  <2>1. ASSUME NEW w \in 0..workers PROVE g[w] = IF w = 0 THEN <<>> ELSE g[w - 1] \o ScoreRange(n, size, w - 1)
    <3>1. CASE w = 0
      <4>1. w * size = 0 /\ Lesser(0, n) = 0 /\ Upto(0) = <<>>
        BY <3>1 DEF Lesser, Upto
      <4> QED BY <1>1, <3>1, <4>1
    <3>2. CASE w # 0
      <4>1. w - 1 \in Nat /\ w - 1 \in 0..workers /\ (w - 1) + 1 = w
        BY <3>2
      <4> QED BY <1>1, <3>2, <4>1, NextRange
    <3> QED BY <3>1, <3>2
  <2>2. g = [w \in 0..workers |-> g[w]]
    BY <1>1
  <2> QED BY <2>1, <2>2 DEF MergedBy
<1>3. PICK f : f = (CHOOSE h : MergedBy(n, size, workers, h)) /\ MergedBy(n, size, workers, f)
  BY <1>2
<1> DEFINE Same == {w \in Nat : w <= workers => f[w] = g[w]}
<1>4. 0 \in Same
  <2>1. f[0] = <<>> /\ g[0] = <<>>
    <3>1. 0 \in 0..workers
      OBVIOUS
    <3> HIDE DEF Same
    <3> QED BY <1>2, <1>3, <3>1 DEF MergedBy
  <2> QED BY <2>1
<1>5. ASSUME NEW w \in Same PROVE w + 1 \in Same
  <2> SUFFICES ASSUME w + 1 <= workers PROVE f[w + 1] = g[w + 1]
    OBVIOUS
  <2>1. f[w] = g[w] /\ w + 1 \in 0..workers /\ w + 1 # 0 /\ (w + 1) - 1 = w
    OBVIOUS
  <2> HIDE DEF Same
  <2>2. f[w + 1] = f[w] \o ScoreRange(n, size, w) /\ g[w + 1] = g[w] \o ScoreRange(n, size, w)
    BY <1>2, <1>3, <2>1 DEF MergedBy
  <2> QED BY <2>1, <2>2
<1>6. Same = Nat
  <2>1. Same \in SUBSET Nat
    OBVIOUS
  <2> HIDE DEF Same
  <2> QED BY <1>4, <1>5, <2>1, AllNumbers
<1>7. f[workers] = g[workers]
  BY <1>6
<1> QED BY <1>1, <1>3, <1>7

\* So many chunks of that size are enough.
LEMMA ChunksCover ==
  ASSUME NEW n \in Nat \ {0}, NEW workers \in Nat \ {0}
  PROVE  ChunkSize(n, workers) \in Nat /\ workers * ChunkSize(n, workers) >= n
<1>1. PICK k \in Nat : k = n + workers - 1
  OBVIOUS
<1>2. k \div workers \in Nat /\ k % workers \in Nat /\ k % workers < workers /\ k = workers * (k \div workers) + (k % workers)
  <2>1. k \in Int /\ workers \in Int /\ workers # 0 /\ workers > 0
    OBVIOUS
  <2> QED BY <2>1, Z3
<1>3. ChunkSize(n, workers) = k \div workers
  BY <1>1 DEF ChunkSize
<1> QED BY <1>1, <1>2, <1>3

\* parallelScore scores every entry once, however many workers it has.
LEMMA ParallelSound ==
  ASSUME fused.kind = "parallel" =>
           fused.n \in Nat \ {0} /\ fused.workers \in Nat \ {0} /\ fused.minSize \in Nat \ {0}
  PROVE  ParallelAgrees
<1> SUFFICES ASSUME fused.kind = "parallel"
             PROVE  ParallelScore(fused.n, fused.workers, fused.minSize) = Upto(fused.n)
  BY DEF ParallelAgrees, Upto
<1>1. PICK n \in Nat \ {0}, cfg \in Nat \ {0}, min \in Nat \ {0} :
        n = fused.n /\ cfg = fused.workers /\ min = fused.minSize
  OBVIOUS
<1>2. PICK most : most = (n + min - 1) \div min
  OBVIOUS
<1>3. most \in Nat
  <2>1. PICK k \in Nat : k = n + min - 1
    OBVIOUS
  <2>2. k \in Int /\ min \in Int /\ min # 0 /\ min > 0
    OBVIOUS
  <2> QED BY <1>2, <2>1, <2>2, Z3
<1>4. PICK workers \in Nat : workers = IF cfg < most THEN cfg ELSE most
  BY <1>3
<1>5. ParallelScore(n, cfg, min)
        = IF workers <= 1 THEN Upto(n) ELSE (CHOOSE f : MergedBy(n, ChunkSize(n, workers), workers, f))[workers]
  BY <1>2, <1>4 DEF ParallelScore, MergedBy, Upto
<1>6. CASE workers <= 1
  BY <1>1, <1>5, <1>6
<1>7. CASE ~(workers <= 1)
  <2>1. workers \in Nat \ {0}
    BY <1>7
  <2>2. PICK size \in Nat : size = ChunkSize(n, workers) /\ workers * size >= n
    BY <2>1, ChunksCover
  <2>3. workers * size \in Nat /\ Lesser(workers * size, n) = n
    BY <2>2 DEF Lesser
  <2> QED BY <1>1, <1>5, <1>7, <2>2, <2>3, MergedIs
<1> QED BY <1>6, <1>7

-----------------------------------------------------------------------------
\* A question is one that was asked.
Asked ==
  /\ fused.kind = "rrf" => fused.fts \in Rankings /\ fused.vec \in Rankings
  /\ fused.kind = "alpha" =>
       fused.fts \in Scored(FuDocs) /\ fused.vec \in Scored(FuDocs) /\ fused.a \in 1..AlphaParts
  /\ fused.kind = "parallel" =>
       fused.n \in Nat \ {0} /\ fused.workers \in Nat \ {0} /\ fused.minSize \in Nat \ {0}
  /\ fused.kind = "chunks" => fused.scores \in Scored(FuDocs \X {1, 2})

\* What is asked of the algorithms stays within their types.
LEMMA AskedStep == Asked /\ [FusionNext]_fusionVars => Asked'
<1> SUFFICES ASSUME Asked, [FusionNext]_fusionVars PROVE Asked'
  OBVIOUS
<1>1. CASE AskRrf
  BY <1>1 DEF AskRrf, Ask, Asked
<1>2. CASE AskAlpha
  BY <1>2 DEF AskAlpha, Ask, Asked
<1>3. CASE AskParallel
  <2>1. 1..MaxEntries \subseteq Nat \ {0} /\ 1..MaxWorkers \subseteq Nat \ {0} /\ 1..MaxMinSize \subseteq Nat \ {0}
    OBVIOUS
  <2> QED BY <1>3, <2>1 DEF AskParallel, Ask, Asked
<1>4. CASE AskChunks
  BY <1>4 DEF AskChunks, Ask, Asked
<1>5. CASE fused' = fused
  BY <1>5 DEF Asked
<1> QED BY <1>1, <1>2, <1>3, <1>4, <1>5 DEF FusionNext, fusionVars, SaveSwitches, SwitchOff, SearchReturns, RestoreSwitches

\* No result leaves out a document that is at least as good in every respect as one it has,
\* however work was divided and equal scores were ordered (mergeRRF, mergeAlpha, parallelScore,
\* DeduplicateChunkResults), and the switches of the shared index are on again after searches
\* that met no other (runFTSSearch), for any searches, documents and scores.
THEOREM ResultsAreSound == FusionSpec => []ResultsSound
<1>1. FusionInit => SwitchInv /\ Asked
  BY SwitchInitInv DEF FusionInit, Asked
<1>2. (SwitchInv /\ Asked) /\ [FusionNext]_fusionVars => (SwitchInv /\ Asked)'
  BY SwitchStep, AskedStep
<1>3. SwitchInv /\ Asked => ResultsSound
  BY SwitchInvSound, RrfSound, AlphaSound, ParallelSound, DedupSound DEF Asked, ResultsSound
<1> QED BY <1>1, <1>2, <1>3, PTL DEF FusionSpec

-----------------------------------------------------------------------------
(* The sorted slice of geohashes.                                          *)

Entries == {[hash |-> GeohashEncode(p, Precision), doc |-> d, at |-> p] : p \in Grid, d \in GDocs}

\* A slice is sorted, holds each document once, and its positions are those of its entries.
Placed(s, at) ==
  /\ s \in Seq(Entries) /\ Ordered(s)
  /\ DOMAIN at = {s[i].doc : i \in DOMAIN s}
  /\ \A i \in DOMAIN s : at[s[i].doc] = i
\* Where a slice has a document.
Where(s, at, d) == IF d \in DOMAIN at THEN s[at[d]].at ELSE NoPlace

\* The positions tell the documents apart.
LEMMA PositionsAre ==
  ASSUME NEW s, NEW at, Placed(s, at)
  PROVE  /\ \A d \in DOMAIN at : at[d] \in DOMAIN s /\ s[at[d]].doc = d
         /\ \A i, j \in DOMAIN s : s[i].doc = s[j].doc => i = j
         /\ \A i \in DOMAIN s : Where(s, at, s[i].doc) = s[i].at
         /\ \A d : d \notin {s[i].doc : i \in DOMAIN s} => Where(s, at, d) = NoPlace
BY DEF Placed, Where

\* What RemoveAt leaves.
LEMMA RemoveAtIs ==
  ASSUME NEW E, NEW s \in Seq(E), NEW i \in 1..Len(s)
  PROVE  /\ RemoveAt(s, i) \in Seq(E) /\ DOMAIN RemoveAt(s, i) = 1..Len(s) - 1
         /\ \A k \in 1..Len(s) - 1 : RemoveAt(s, i)[k] = IF k < i THEN s[k] ELSE s[k + 1]
<1>1. PICK n \in Nat : n = Len(s) /\ i \in 1..n
  BY LenProperties
<1>2. PICK a \in Seq(E) : a = SubSeq(s, 1, i - 1) /\ Len(a) = i - 1 /\ \A k \in 1..i - 1 : a[k] = s[k]
  <2>1. \A k \in 1..i - 1 : k \in 1..Len(s)
    BY <1>1
  <2>2. SubSeq(s, 1, i - 1) \in Seq(E) /\ Len(SubSeq(s, 1, i - 1)) = i - 1
        /\ \A k \in 1..i - 1 : SubSeq(s, 1, i - 1)[k] = s[k]
    BY <1>1, <2>1, SubSeqProperties
  <2> QED BY <2>2
<1>3. PICK b \in Seq(E) : b = SubSeq(s, i + 1, Len(s)) /\ Len(b) = n - i /\ \A k \in 1..n - i : b[k] = s[i + k]
  <2>1. \A k \in i + 1..n : k \in 1..Len(s)
    BY <1>1
  <2>2. SubSeq(s, i + 1, n) \in Seq(E) /\ Len(SubSeq(s, i + 1, n)) = n - i
        /\ \A k \in 1..n - i : SubSeq(s, i + 1, n)[k] = s[i + k]
    BY SMTT(30), <1>1, <2>1, SubSeqProperties
  <2> QED BY <1>1, <2>2
<1>4. a \o b \in Seq(E) /\ Len(a \o b) = n - 1
      /\ \A k \in 1..n - 1 : (a \o b)[k] = IF k <= i - 1 THEN a[k] ELSE b[k - (i - 1)]
  <2>1. \A k \in 1..Len(a) + Len(b) : (a \o b)[k] = IF k <= Len(a) THEN a[k] ELSE b[k - Len(a)]
    BY ConcatProperties
  <2>2. Len(a) + Len(b) = n - 1
    <3>1. (i - 1) + (n - i) = n - 1
      BY <1>1
    <3> QED BY <1>2, <1>3, <3>1
  <2>3. a \o b \in Seq(E) /\ Len(a \o b) = Len(a) + Len(b)
    BY ConcatProperties
  <2> QED BY <1>2, <1>3, <2>1, <2>2, <2>3
<1>5. ASSUME NEW k \in 1..n - 1 PROVE (a \o b)[k] = IF k < i THEN s[k] ELSE s[k + 1]
  <2>1. CASE k < i
    BY <1>1, <1>2, <1>4, <2>1
  <2>2. CASE ~(k < i)
    <3>1. k - (i - 1) \in 1..n - i /\ i + (k - (i - 1)) = k + 1 /\ ~(k <= i - 1)
      BY <1>1, <2>2
    <3> QED BY <1>3, <1>4, <2>2, <3>1
  <2> QED BY <2>1, <2>2
<1> QED BY <1>1, <1>2, <1>3, <1>4, <1>5, LenProperties DEF RemoveAt

\* removeLocked: cutting an entry out leaves a slice of the others.
LEMMA CutKeeps ==
  ASSUME Placed(sorted, byDoc), NEW i \in DOMAIN sorted
  PROVE  /\ Placed(Cut(i).s, Cut(i).at) /\ sorted[i].doc \notin DOMAIN Cut(i).at
         /\ \A d : d # sorted[i].doc => Where(Cut(i).s, Cut(i).at, d) = HashedAt(d)
<1>1. PICK n \in Nat : n = Len(sorted) /\ DOMAIN sorted = 1..n /\ sorted \in Seq(Entries)
  BY LenProperties DEF Placed
<1>2. PICK s \in Seq(Entries) : s = RemoveAt(sorted, i) /\ DOMAIN s = 1..n - 1
  BY <1>1, RemoveAtIs
<1>3. \A k \in 1..n - 1 : s[k] = sorted[IF k < i THEN k ELSE k + 1]
  <2>1. \A k \in 1..n - 1 : s[k] = IF k < i THEN sorted[k] ELSE sorted[k + 1]
    BY <1>1, <1>2, RemoveAtIs
  <2> QED BY <2>1
<1>4. PICK at : at = [d \in DOMAIN byDoc \ {sorted[i].doc} |-> IF byDoc[d] > i THEN byDoc[d] - 1 ELSE byDoc[d]]
  OBVIOUS
<1>5. Cut(i).s = s /\ Cut(i).at = at
  BY <1>2, <1>4 DEF Cut
<1>6. \A j, k \in 1..n : sorted[j].doc = sorted[k].doc => j = k
  BY <1>1, PositionsAre
<1>7. \A k \in 1..n : byDoc[sorted[k].doc] = k /\ sorted[k].doc \in DOMAIN byDoc
  BY <1>1 DEF Placed
<1>8. \A d \in DOMAIN byDoc : byDoc[d] \in 1..n /\ sorted[byDoc[d]].doc = d
  BY <1>1, PositionsAre
<1>9. ASSUME NEW k \in 1..n - 1
      PROVE  s[k].doc \in DOMAIN at /\ at[s[k].doc] = k
  <2>1. PICK j \in 1..n : j = (IF k < i THEN k ELSE k + 1) /\ j # i /\ s[k] = sorted[j]
    <3>1. (IF k < i THEN k ELSE k + 1) \in 1..n /\ (IF k < i THEN k ELSE k + 1) # i
      BY <1>1
    <3> QED BY <1>3, <3>1
  <2>2. sorted[j].doc \in DOMAIN byDoc \ {sorted[i].doc} /\ byDoc[sorted[j].doc] = j
    BY <1>1, <1>6, <1>7, <2>1
  <2>3. (IF j > i THEN j - 1 ELSE j) = k
    BY <1>1, <2>1
  <2> QED BY <1>4, <2>1, <2>2, <2>3
<1>10. ASSUME NEW d \in DOMAIN at
       PROVE  at[d] \in 1..n - 1 /\ s[at[d]] = sorted[byDoc[d]] /\ s[at[d]].doc = d
  <2>1. d \in DOMAIN byDoc /\ d # sorted[i].doc /\ at[d] = IF byDoc[d] > i THEN byDoc[d] - 1 ELSE byDoc[d]
    BY <1>4
  <2>2. byDoc[d] \in 1..n /\ byDoc[d] # i
    BY <1>8, <2>1
  <2>3. at[d] \in 1..n - 1 /\ (IF at[d] < i THEN at[d] ELSE at[d] + 1) = byDoc[d]
    BY <1>1, <2>1, <2>2
  <2> QED BY <1>3, <1>8, <2>1, <2>3
<1>11. DOMAIN at = {s[k].doc : k \in DOMAIN s}
  BY ZenonT(60), <1>2, <1>9, <1>10
<1>12. Ordered(s)
  <2> SUFFICES ASSUME NEW j \in 1..n - 1, NEW k \in 1..n - 1, j < k PROVE ~HashLess(s[k].hash, s[j].hash)
    BY <1>2 DEF Ordered
  <2>1. PICK a \in 1..n, b \in 1..n : a < b /\ s[j] = sorted[a] /\ s[k] = sorted[b]
    <3>1. /\ (IF j < i THEN j ELSE j + 1) \in 1..n /\ (IF k < i THEN k ELSE k + 1) \in 1..n
          /\ (IF j < i THEN j ELSE j + 1) < (IF k < i THEN k ELSE k + 1)
      BY <1>1
    <3> QED BY <1>3, <3>1
  <2> QED BY <1>1, <2>1 DEF Placed, Ordered
<1>13. Placed(s, at)
  BY <1>2, <1>9, <1>11, <1>12 DEF Placed
<1>14. ASSUME NEW d, d # sorted[i].doc PROVE Where(s, at, d) = HashedAt(d)
  <2>1. d \in DOMAIN at <=> d \in DOMAIN byDoc
    BY <1>4, <1>14
  <2> QED BY <1>10, <2>1 DEF Where, HashedAt
<1> QED BY <1>4, <1>5, <1>13, <1>14

\* Remove of the geohash index.
LEMMA RemovedIs ==
  ASSUME Placed(sorted, byDoc), NEW d
  PROVE  LET r == removeLocked(d)
         IN /\ Placed(r.s, r.at) /\ d \notin DOMAIN r.at
            /\ \A e : e # d => Where(r.s, r.at, e) = HashedAt(e)
<1>1. CASE d \in DOMAIN byDoc
  <2>1. byDoc[d] \in DOMAIN sorted /\ sorted[byDoc[d]].doc = d
    BY <1>1, PositionsAre
  <2>2. removeLocked(d) = Cut(byDoc[d])
    BY <1>1 DEF removeLocked
  <2> QED BY <2>1, <2>2, CutKeeps
<1>2. CASE d \notin DOMAIN byDoc
  <2>1. removeLocked(d) = [s |-> sorted, at |-> byDoc]
    BY <1>2 DEF removeLocked
  <2>2. \A e : Where(sorted, byDoc, e) = HashedAt(e)
    BY DEF Where, HashedAt
  <2> QED BY <1>2, <2>1, <2>2
<1> QED BY <1>1, <1>2

\* What is sorted again holds what it held and the new entry.
LEMMA AddedIs ==
  ASSUME NEW s, NEW at, Placed(s, at), NEW d \in GDocs, d \notin DOMAIN at, NEW p \in Grid,
         NEW t \in SetToSeqs(Range(s) \cup {[hash |-> GeohashEncode(p, Precision), doc |-> d, at |-> p]}),
         Ordered(t),
         NEW b, b = [e \in {x.doc : x \in Range(t)} |-> CHOOSE k \in DOMAIN t : t[k].doc = e]
  PROVE  /\ Placed(t, b)
         /\ \A e : Where(t, b, e) = IF e = d THEN p ELSE Where(s, at, e)
<1>1. PICK new : new = [hash |-> GeohashEncode(p, Precision), doc |-> d, at |-> p]
  OBVIOUS
<1>2. PICK R : R = Range(s) \cup {new}
  OBVIOUS
<1>3. PICK n \in Nat : DOMAIN s = 1..n /\ s \in [1..n -> Range(s)] /\ s \in Seq(Entries)
  <2>1. DOMAIN s = 1..Len(s) /\ Len(s) \in Nat /\ s \in [DOMAIN s -> Entries]
    BY LenProperties DEF Placed
  <2> QED BY <2>1 DEF Placed, Range
<1>4. IsFiniteSet(R)
  <2>1. IsFiniteSet(1..n)
    BY <1>3, FS_Interval
  <2>2. s \in Surjection(1..n, Range(s))
    BY <1>3 DEF Surjection, Range
  <2>3. IsFiniteSet(Range(s))
    BY <2>1, <2>2, FS_Surjection
  <2> QED BY <1>2, <2>3, FS_AddElement
<1>5. PICK m \in Nat : m = Cardinality(R) /\ t \in [1..m -> R] /\ \A i, j \in 1..m : i # j => t[i] # t[j]
  BY <1>1, <1>2, <1>4, FS_CardinalityType DEF SetToSeqs
<1>6. \A x \in R : \E i \in 1..m : t[i] = x
  <2>1. t \in Injection(1..m, R)
    BY <1>5 DEF Injection, IsInjective
  <2>2. Cardinality(1..m) = m
    BY <1>5, FS_Interval
  <2>3. t \in Surjection(1..m, R)
    BY <1>4, <1>5, <2>1, <2>2, FS_Injection
  <2> QED BY <2>3 DEF Surjection
<1>7. Range(t) = R /\ DOMAIN t = 1..m
  BY <1>5, <1>6 DEF Range
<1>8. R \subseteq Entries
  <2>1. Range(s) \subseteq Entries
    <3>1. \A i \in 1..n : s[i] \in Entries
      BY <1>3, ElementOfSeq, LenProperties
    <3> QED BY <1>3, <3>1 DEF Range
  <2> QED BY <1>1, <1>2, <2>1 DEF Entries
<1>9. t \in Seq(Entries)
  BY <1>5, <1>8
<1>10. \A x \in Range(s) : x.doc # d /\ x.doc \in DOMAIN at
  BY <1>3 DEF Placed, Range
<1>11. \A x, y \in R : x.doc = y.doc => x = y
  <2>1. \A x, y \in Range(s) : x.doc = y.doc => x = y
    <3>1. \A i, j \in 1..n : s[i].doc = s[j].doc => i = j
      BY <1>3, PositionsAre
    <3> QED BY <1>3, <3>1 DEF Range
  <2>2. new.doc = d
    BY <1>1
  <2> QED BY <1>2, <1>10, <2>1, <2>2
<1>12. \A i, j \in 1..m : t[i].doc = t[j].doc => i = j
  BY <1>5, <1>11
<1>13. DOMAIN b = {t[i].doc : i \in DOMAIN t}
  BY <1>7 DEF Range
<1>14. ASSUME NEW i \in DOMAIN t PROVE b[t[i].doc] = i
  <2>1. t[i].doc \in DOMAIN b
    BY <1>13
  <2>2. b[t[i].doc] = CHOOSE k \in DOMAIN t : t[k].doc = t[i].doc
    BY <2>1
  <2>3. (CHOOSE k \in DOMAIN t : t[k].doc = t[i].doc) \in DOMAIN t
        /\ t[CHOOSE k \in DOMAIN t : t[k].doc = t[i].doc].doc = t[i].doc
    OBVIOUS
  <2> QED BY <1>7, <1>12, <2>2, <2>3
<1>15. Placed(t, b)
  BY <1>9, <1>13, <1>14 DEF Placed
<1>16. ASSUME NEW e PROVE Where(t, b, e) = IF e = d THEN p ELSE Where(s, at, e)
  <2>1. CASE e = d
    <3>1. PICK i \in DOMAIN t : t[i] = new
      BY <1>2, <1>6, <1>7
    <3>2. t[i].doc = d /\ t[i].at = p
      BY <1>1, <3>1
    <3> QED BY <1>15, <2>1, <3>2, PositionsAre
  <2>2. CASE e # d /\ e \in DOMAIN at
    <3>1. PICK j \in DOMAIN s : s[j].doc = e
      BY <2>2 DEF Placed
    <3>2. s[j] \in R
      BY <1>2 DEF Range
    <3>3. PICK i \in DOMAIN t : t[i] = s[j]
      BY <1>6, <1>7, <3>2
    <3>4. Where(t, b, t[i].doc) = t[i].at /\ Where(s, at, s[j].doc) = s[j].at
      BY <1>15, PositionsAre
    <3> QED BY <2>2, <3>1, <3>3, <3>4
  <2>3. CASE e # d /\ e \notin DOMAIN at
    <3>1. \A x \in R : x.doc # e
      BY <1>1, <1>2, <1>10, <2>3
    <3>2. e \notin {t[i].doc : i \in DOMAIN t}
      BY <1>5, <1>7, <3>1
    <3>3. Where(t, b, e) = NoPlace
      BY <1>13, <3>2 DEF Where
    <3> QED BY <2>3, <3>3 DEF Where
  <2> QED BY <2>1, <2>2, <2>3
<1> QED BY <1>15, <1>16

\* Add of the geohash index.
LEMMA HashAdded ==
  ASSUME Placed(sorted, byDoc), NEW d \in GDocs, NEW p \in Grid, HashAdd(d, p)
  PROVE  /\ Placed(sorted, byDoc)'
         /\ \A e : HashedAt(e)' = IF e = d THEN p ELSE HashedAt(e)
<1>1. PICK s, at : s = removeLocked(d).s /\ at = removeLocked(d).at
  OBVIOUS
<1>2. Placed(s, at) /\ d \notin DOMAIN at /\ \A e : e # d => Where(s, at, e) = HashedAt(e)
  BY <1>1, RemovedIs
<1>3. PICK t \in SetToSeqs(Range(s) \cup {[hash |-> GeohashEncode(p, Precision), doc |-> d, at |-> p]}) :
        t = sorted' /\ Ordered(t)
  BY <1>1 DEF HashAdd
<1>4. PICK b : b = byDoc' /\ b = [e \in {x.doc : x \in Range(t)} |-> CHOOSE k \in DOMAIN t : t[k].doc = e]
  BY <1>3 DEF HashAdd
<1>5. Placed(t, b) /\ \A e : Where(t, b, e) = IF e = d THEN p ELSE Where(s, at, e)
  BY <1>2, <1>3, <1>4, AddedIs
<1>6. Placed(sorted, byDoc)' <=> Placed(t, b)
  BY <1>3, <1>4 DEF Placed, Ordered
<1>7. \A e : HashedAt(e)' = Where(t, b, e)
  BY <1>3, <1>4 DEF HashedAt, Where
<1> QED BY <1>2, <1>5, <1>6, <1>7

\* Remove of the geohash index.
LEMMA HashRemoved ==
  ASSUME Placed(sorted, byDoc), NEW d, HashRemove(d)
  PROVE  /\ Placed(sorted, byDoc)'
         /\ \A e : HashedAt(e)' = IF e = d THEN NoPlace ELSE HashedAt(e)
<1>1. PICK s, at : s = removeLocked(d).s /\ at = removeLocked(d).at
  OBVIOUS
<1>2. Placed(s, at) /\ d \notin DOMAIN at /\ \A e : e # d => Where(s, at, e) = HashedAt(e)
  BY <1>1, RemovedIs
<1>3. sorted' = s /\ byDoc' = at
  BY <1>1 DEF HashRemove
<1>4. Placed(sorted, byDoc)' <=> Placed(s, at)
  BY <1>3 DEF Placed, Ordered
<1>5. \A e : HashedAt(e)' = Where(s, at, e)
  BY <1>3 DEF HashedAt, Where
<1> QED BY <1>2, <1>4, <1>5 DEF Where

\* Clear of the geohash index, and a step that leaves it alone.
LEMMA HashCleared ==
  /\ sorted' = <<>> /\ byDoc' = <<>> => Placed(sorted, byDoc)' /\ \A e : HashedAt(e)' = NoPlace
  /\ Placed(sorted, byDoc) /\ UNCHANGED <<sorted, byDoc>> =>
       Placed(sorted, byDoc)' /\ \A e : HashedAt(e)' = HashedAt(e)
<1>1. ASSUME sorted' = <<>>, byDoc' = <<>> PROVE Placed(sorted, byDoc)' /\ \A e : HashedAt(e)' = NoPlace
  <2>1. DOMAIN <<>> = {} /\ <<>> \in Seq(Entries)
    BY EmptySeq
  <2> QED BY <1>1, <2>1 DEF Placed, Ordered, HashedAt
<1>2. ASSUME Placed(sorted, byDoc), UNCHANGED <<sorted, byDoc>>
      PROVE  Placed(sorted, byDoc)' /\ \A e : HashedAt(e)' = HashedAt(e)
  BY <1>2 DEF Placed, Ordered, HashedAt
<1> QED BY <1>1, <1>2

-----------------------------------------------------------------------------
(* The two indexes and the bucket beside requests, rebuilds and restarts.  *)

GPoint == Grid \cup {NoPlace}
Writing == {"meta", "put", "hash", "untree", "unhash", "unput"}
Dropping == {"droptree", "drophash", "dropput"}
Rebuilds == {"cleartree", "viewtree", "addtree", "clearhash", "viewhash", "addhash"}
GRecs == [pc : {"idle"} \cup Writing \cup Dropping \cup Rebuilds, doc : GDocs \cup {NoGDoc},
          meta : Grid \cup {NoPlace, Postcode}, new : BOOLEAN, at : GPoint, left : SUBSET GDocs,
          snap : [GDocs -> GPoint], hash : BOOLEAN, on : SUBSET GDocs, alone : SUBSET GDocs]

GeoTyped ==
  /\ gdocs \in [GDocs -> Grid \cup {NoPlace, Postcode, NoGDoc}] /\ bucket \in [GDocs -> GPoint]
  /\ points \in [GDocs -> GPoint] /\ adrift \in SUBSET GDocs /\ gpc \in [GProcs -> GRecs]

\* What the program counter says of the rest of a record.
Shaped(p, g) ==
  /\ g.alone \subseteq g.on
  /\ g.pc = "idle" => g.on = {}
  /\ g.pc \in Writing => g.doc \in GDocs /\ g.on = {g.doc}
  /\ g.pc \in {"put", "hash"} => g.at \in Grid
  /\ g.pc \in Dropping \cup Rebuilds => g.on = GDocs
  /\ g.pc \in {"clearhash", "viewhash", "addhash"} => g.hash
  /\ \A d \in g.left : g.snap[d] # NoPlace
  /\ p = GLoader => /\ g.alone = {} /\ g.pc \in {"idle", "viewtree", "addtree", "viewhash", "addhash"}
                    /\ g.pc # "idle" => g.hash

\* Who is alone with a document is the only one on it, and a client that is not alone with
\* its document has set it adrift.
Meets ==
  /\ \A p, q \in GProcs : p # q => gpc[p].alone \cap gpc[q].on = {}
  /\ \A p \in GClients : gpc[p].on \subseteq gpc[p].alone \cup adrift

\* A document as it is stored, in the tree, in the bucket and in the slice.
Copies(d) == [stored |-> gdocs[d], point |-> points[d], put |-> bucket[d], hash |-> HashedAt(d)]

\* Where a document that is stored may be.
PlaceOf(m) == IF m = NoGDoc THEN {NoPlace} ELSE IF m = Postcode THEN {PostcodeAt, NoPlace} ELSE {m}
InStep(c) == c.point = c.put /\ c.hash = c.put /\ c.put \in PlaceOf(c.stored)

\* How far a client that is alone with a document has brought its copies c.
Written(g, c, kept) ==
  /\ g.pc = "meta" =>
       /\ c.stored = g.meta
       /\ g.new /\ kept => c.point = NoPlace /\ c.put = NoPlace /\ c.hash = NoPlace
  /\ g.pc \in {"put", "hash"} => c.point = g.at /\ g.at \in PlaceOf(c.stored)
  /\ g.pc = "hash" => c.put = g.at
  /\ g.pc \in {"untree", "unhash", "unput"} => NoPlace \in PlaceOf(c.stored)
  /\ g.pc \in Dropping => c.stored = NoGDoc
  /\ g.pc \in {"unhash", "unput", "drophash", "dropput"} => c.point = NoPlace
  /\ g.pc \in {"unput", "dropput"} => c.hash = NoPlace

\* How far a rebuild, or the loader, has brought the copies of a document that is not adrift.
Rebuilt(p, g, d, c) ==
  g.pc \in Rebuilds =>
    /\ c.put \in PlaceOf(c.stored)
    /\ ~g.hash => c.hash = c.put
    /\ g.pc = "viewtree" => c.point = NoPlace
    /\ g.pc \in {"addtree", "addhash"} => g.snap[d] = c.put
    /\ (g.pc = "addtree" /\ d \notin g.left) \/ g.pc \in {"clearhash", "viewhash", "addhash"} => c.point = c.put
    /\ g.pc = "viewhash" \/ (p = GLoader /\ g.pc \in {"viewtree", "addtree"}) => c.hash = NoPlace
    /\ g.pc = "addhash" /\ d \notin g.left => c.hash = c.put

Free(d) == \A p \in GProcs : d \notin gpc[p].on
Kept ==
  /\ \A p \in GProcs : \A d \in gpc[p].alone : Written(gpc[p], Copies(d), d \notin adrift)
  /\ \A p \in GProcs : \A d \in gpc[p].on \ adrift : Rebuilt(p, gpc[p], d, Copies(d))
  /\ \A d \in GDocs \ adrift : Free(d) => InStep(Copies(d))

GeoShape == GeoTyped /\ \A p \in GProcs : Shaped(p, gpc[p])
GeoInv == GeoShape /\ TreeExact /\ Placed(sorted, byDoc) /\ Meets /\ Kept

\* The loader is no client, and every record of a process is a record.
LEMMA ProcessesAre ==
  /\ GClients \subseteq GProcs /\ GLoader \in GProcs /\ GLoader \notin GClients
  /\ GIdle \in GRecs /\ \A p : Shaped(p, GIdle)
<1>1. GIdle \in GRecs
  BY DEF GIdle, GRecs, Cleared, GPoint
<1>2. \A p : Shaped(p, GIdle)
  BY DEF GIdle, Shaped, Writing, Dropping, Rebuilds, Cleared
<1> QED BY <1>1, <1>2, GeoAssumption DEF GProcs

\* Nobody else is on a document that is not adrift while someone is.
LEMMA OneOn ==
  ASSUME GeoShape, Meets, NEW d \in GDocs \ adrift, NEW p \in GProcs, d \in gpc[p].on,
         NEW q \in GProcs, d \in gpc[q].on
  PROVE  p = q
<1>1. \A r \in GProcs : r # GLoader => r \in GClients
  BY DEF GProcs
<1>2. \A r \in GClients : r \in GProcs
  BY DEF GProcs
<1>3. p # GLoader => d \in gpc[p].alone
  BY <1>1 DEF Meets
<1>4. q # GLoader => d \in gpc[q].alone
  BY <1>1 DEF Meets
<1> QED BY <1>3, <1>4 DEF Meets

\* A step of one process that moves on or ends, and touches only documents it is on.
LEMMA StepKeeps ==
  ASSUME GeoShape, Meets, Kept, NEW p \in GProcs, NEW g, gpc' = [gpc EXCEPT ![p] = g],
         g.alone \subseteq g.on,
         \A d \in GDocs \ gpc[p].on : Copies(d)' = Copies(d),
         \/ /\ g.on = gpc[p].on /\ g.alone = gpc[p].alone /\ adrift' = adrift
            /\ \A d \in g.alone : Written(g, Copies(d)', d \notin adrift)
            /\ \A d \in g.on \ adrift : Rebuilt(p, g, d, Copies(d)')
         \/ /\ g = GIdle
            /\ adrift' = adrift \/ adrift' = adrift \ gpc[p].alone
            /\ \A d \in gpc[p].on \ adrift' : InStep(Copies(d)')
  PROVE  Meets' /\ Kept'
<1>1. /\ gpc[p] \in GRecs /\ adrift \subseteq GDocs
      /\ \A q \in GProcs : gpc[q].alone \subseteq gpc[q].on /\ gpc[q].on \subseteq GDocs
  <2>1. \A q \in GProcs : gpc[q] \in GRecs /\ Shaped(q, gpc[q])
    BY DEF GeoShape, GeoTyped
  <2>2. \A q \in GProcs : gpc[q].on \subseteq GDocs
    BY <2>1 DEF GRecs
  <2> QED BY <2>1, <2>2 DEF GeoShape, GeoTyped, Shaped
<1>2. DOMAIN gpc = GProcs /\ gpc'[p] = g /\ \A q \in GProcs : q # p => gpc'[q] = gpc[q]
  BY DEF GeoShape, GeoTyped
<1>3. /\ g.on \subseteq gpc[p].on /\ g.alone \subseteq gpc[p].alone
      /\ g = GIdle => g.on = {} /\ g.alone = {}
  BY DEF GIdle
<1>4. adrift' \subseteq adrift /\ adrift \ adrift' \subseteq gpc[p].alone
  OBVIOUS
<1>5. ASSUME NEW q \in GProcs, q # p, NEW d \in gpc[q].on
      PROVE  /\ d \in GDocs /\ (d \in adrift' <=> d \in adrift)
             /\ d \in gpc[q].alone \/ d \notin adrift => Copies(d)' = Copies(d)
  <2>1. d \in GDocs /\ d \notin gpc[p].alone
    BY <1>1, <1>5 DEF Meets
  <2>2. d \in gpc[q].alone => d \notin gpc[p].on
    BY <1>5 DEF Meets
  <2>3. d \notin adrift => d \notin gpc[p].on
    BY <1>5, <2>1, OneOn
  <2> QED BY <1>4, <2>1, <2>2, <2>3
<1>6. Meets'
  <2>1. ASSUME NEW q \in GProcs, NEW r \in GProcs, q # r PROVE gpc'[q].alone \cap gpc'[r].on = {}
    <3>1. gpc[q].alone \cap gpc[r].on = {}
      BY <2>1 DEF Meets
    <3>2. gpc'[q].alone \subseteq gpc[q].alone /\ gpc'[r].on \subseteq gpc[r].on
      BY <1>2, <1>3
    <3> QED BY <3>1, <3>2
  <2>2. ASSUME NEW q \in GClients PROVE gpc'[q].on \subseteq gpc'[q].alone \cup adrift'
    <3>1. gpc[q].on \subseteq gpc[q].alone \cup adrift /\ q \in GProcs
      BY ProcessesAre DEF Meets
    <3>2. CASE q = p
      BY <1>2, <1>3, <3>1, <3>2
    <3>3. CASE q # p
      BY <1>2, <1>5, <3>1, <3>3
    <3> QED BY <3>2, <3>3
  <2> QED BY <2>1, <2>2 DEF Meets
<1>7. ASSUME NEW q \in GProcs, NEW d \in gpc'[q].alone PROVE Written(gpc'[q], Copies(d)', d \notin adrift')
  <2>1. CASE q = p
    BY <1>2, <1>3, <1>7, <2>1
  <2>2. CASE q # p
    <3>1. d \in gpc[q].alone /\ gpc'[q] = gpc[q] /\ d \in gpc[q].on
      BY <1>1, <1>2, <1>7, <2>2
    <3>2. Copies(d)' = Copies(d) /\ (d \in adrift' <=> d \in adrift)
      BY <1>5, <2>2, <3>1
    <3>3. Written(gpc[q], Copies(d), d \notin adrift)
      BY <3>1 DEF Kept
    <3> QED BY <3>1, <3>2, <3>3 DEF Written
  <2> QED BY <2>1, <2>2
<1>8. ASSUME NEW q \in GProcs, NEW d \in gpc'[q].on \ adrift' PROVE Rebuilt(q, gpc'[q], d, Copies(d)')
  <2>1. CASE q = p
    BY <1>2, <1>3, <1>8, <2>1
  <2>2. CASE q # p
    <3>1. d \in gpc[q].on \ adrift /\ gpc'[q] = gpc[q]
      BY <1>2, <1>5, <1>8, <2>2
    <3>2. Copies(d)' = Copies(d)
      BY <1>5, <2>2, <3>1
    <3>3. Rebuilt(q, gpc[q], d, Copies(d))
      BY <3>1 DEF Kept
    <3> QED BY <3>1, <3>2, <3>3
  <2> QED BY <2>1, <2>2
<1>9. ASSUME NEW d \in GDocs \ adrift', \A q \in GProcs : d \notin gpc'[q].on PROVE InStep(Copies(d)')
  <2>1. CASE d \in gpc[p].on
    BY <1>2, <1>9, <2>1
  <2>2. CASE d \notin gpc[p].on
    <3>1. d \notin adrift /\ \A q \in GProcs : d \notin gpc[q].on
      BY <1>1, <1>2, <1>4, <1>9, <2>2
    <3>2. InStep(Copies(d))
      BY <3>1 DEF Kept, Free
    <3> QED BY <2>2, <3>2
  <2> QED BY <2>1, <2>2
<1>10. Kept'
  <2>1. /\ \A q \in GProcs : \A d \in gpc'[q].alone : Written(gpc'[q], Copies(d)', d \notin adrift')
        /\ \A q \in GProcs : \A d \in gpc'[q].on \ adrift' : Rebuilt(q, gpc'[q], d, Copies(d)')
        /\ \A d \in GDocs \ adrift' : (\A q \in GProcs : d \notin gpc'[q].on) => InStep(Copies(d)')
    BY <1>7, <1>8, <1>9
  <2> QED BY <2>1 DEF Kept, Free, Written, Rebuilt, InStep
<1> QED BY <1>6, <1>10

\* Add and Remove of the tree keep it in step with the map, and so does clearing both.
LEMMA TreeAdded ==
  ASSUME TreeExact, points \in [GDocs -> GPoint], NEW d \in GDocs, NEW p \in Grid, TreeAdd(d, p)
  PROVE  /\ TreeExact' /\ points' \in [GDocs -> GPoint]
         /\ \A e \in GDocs : points'[e] = IF e = d THEN p ELSE points[e]
<1>1. points' \in [GDocs -> GPoint] /\ \A e \in GDocs : points'[e] = IF e = d THEN p ELSE points[e]
  BY DEF TreeAdd, GPoint
<1>2. p # NoPlace
  BY GeoAssumption
<1>3. tree' = {<<points'[e], e>> : e \in {x \in GDocs : points'[x] # NoPlace}}
  <2>1. tree' = (tree \ {<<points[d], d>>}) \cup {<<p, d>>}
    BY DEF TreeAdd
  <2> QED BY <1>1, <1>2, <2>1 DEF TreeExact
<1> QED BY <1>1, <1>3 DEF TreeExact

\* What was added of a document leaves the tree with it.
LEMMA TreeRemoved ==
  ASSUME TreeExact, points \in [GDocs -> GPoint], NEW d \in GDocs, TreeRemove(d)
  PROVE  /\ TreeExact' /\ points' \in [GDocs -> GPoint]
         /\ \A e \in GDocs : points'[e] = IF e = d THEN NoPlace ELSE points[e]
<1>1. points' \in [GDocs -> GPoint] /\ \A e \in GDocs : points'[e] = IF e = d THEN NoPlace ELSE points[e]
  BY DEF TreeRemove, GPoint
<1>2. tree' = {<<points'[e], e>> : e \in {x \in GDocs : points'[x] # NoPlace}}
  <2>1. tree' = tree \ {<<points[d], d>>}
    BY DEF TreeRemove
  <2> QED BY <1>1, <2>1 DEF TreeExact
<1> QED BY <1>1, <1>2 DEF TreeExact

\* A cleared tree holds nothing.
LEMMA TreeCleared ==
  points' = Cleared /\ tree' = {} =>
    TreeExact' /\ points' \in [GDocs -> GPoint] /\ \A e \in GDocs : points'[e] = NoPlace
BY DEF Cleared, TreeExact, GPoint

\* A step of one process that changes no document in the store.
LEMMA Moves ==
  ASSUME GeoInv, NEW c \in GProcs, NEW g \in GRecs, Shaped(c, g), gpc' = [gpc EXCEPT ![c] = g],
         gdocs' = gdocs, bucket' \in [GDocs -> GPoint], points' \in [GDocs -> GPoint],
         TreeExact', Placed(sorted, byDoc)',
         \A d \in GDocs \ gpc[c].on :
           bucket'[d] = bucket[d] /\ points'[d] = points[d] /\ HashedAt(d)' = HashedAt(d),
         \/ /\ g.on = gpc[c].on /\ g.alone = gpc[c].alone /\ adrift' = adrift
            /\ \A d \in gpc[c].on : Written(gpc[c], Copies(d), d \notin adrift) =>
                                      Written(g, Copies(d)', d \notin adrift)
            /\ \A d \in gpc[c].on : Rebuilt(c, gpc[c], d, Copies(d)) => Rebuilt(c, g, d, Copies(d)')
         \/ /\ g = GIdle
            /\ adrift' = adrift \/ adrift' = adrift \ gpc[c].alone
            /\ \A d \in gpc[c].on \ adrift' :
                 /\ c \in GClients => Written(gpc[c], Copies(d), d \notin adrift)
                 /\ d \notin adrift => Rebuilt(c, gpc[c], d, Copies(d))
                 => InStep(Copies(d)')
  PROVE  GeoInv'
<1>1. GeoShape /\ Meets /\ Kept /\ GeoTyped
  BY DEF GeoInv, GeoShape
<1>2. GeoShape'
  <2>1. gpc' \in [GProcs -> GRecs] /\ \A q \in GProcs : Shaped(q, gpc'[q])
    BY <1>1 DEF GeoShape, GeoTyped
  <2>2. adrift' \in SUBSET GDocs
    BY <1>1 DEF GeoTyped
  <2> QED BY <1>1, <2>1, <2>2 DEF GeoShape, GeoTyped, Shaped
<1>3. \A d \in GDocs \ gpc[c].on : Copies(d)' = Copies(d)
  BY DEF Copies
<1>4. g.alone \subseteq g.on
  BY DEF Shaped
<1>5. gpc[c].alone \subseteq gpc[c].on /\ gpc[c].on \subseteq GDocs
  BY <1>1 DEF GeoShape, GeoTyped, Shaped, GRecs
<1>6. /\ \A d \in gpc[c].alone : Written(gpc[c], Copies(d), d \notin adrift)
      /\ \A d \in gpc[c].on \ adrift : Rebuilt(c, gpc[c], d, Copies(d))
  BY <1>1 DEF Kept
<1>7. Meets' /\ Kept'
  <2>1. CASE /\ g.on = gpc[c].on /\ g.alone = gpc[c].alone /\ adrift' = adrift
             /\ \A d \in gpc[c].on : Written(gpc[c], Copies(d), d \notin adrift) =>
                                       Written(g, Copies(d)', d \notin adrift)
             /\ \A d \in gpc[c].on : Rebuilt(c, gpc[c], d, Copies(d)) => Rebuilt(c, g, d, Copies(d)')
    <3>1. /\ \A d \in g.alone : Written(g, Copies(d)', d \notin adrift)
          /\ \A d \in g.on \ adrift : Rebuilt(c, g, d, Copies(d)')
      BY <1>5, <1>6, <2>1
    <3> QED BY <1>1, <1>3, <1>4, <2>1, <3>1, StepKeeps
  <2>2. CASE /\ g = GIdle
             /\ adrift' = adrift \/ adrift' = adrift \ gpc[c].alone
             /\ \A d \in gpc[c].on \ adrift' :
                  /\ c \in GClients => Written(gpc[c], Copies(d), d \notin adrift)
                  /\ d \notin adrift => Rebuilt(c, gpc[c], d, Copies(d))
                  => InStep(Copies(d)')
    <3>1. ASSUME NEW d \in gpc[c].on \ adrift' PROVE InStep(Copies(d)')
      <4>1. c \in GClients => d \in gpc[c].alone
        BY <1>1, <2>2, <3>1 DEF Meets
      <4>2. c \in GClients => Written(gpc[c], Copies(d), d \notin adrift)
        BY <1>6, <4>1
      <4>3. d \notin adrift => Rebuilt(c, gpc[c], d, Copies(d))
        BY <1>6, <3>1
      <4> QED BY <2>2, <3>1, <4>2, <4>3
    <3> QED BY <1>1, <1>3, <1>4, <2>2, <3>1, StepKeeps
  <2> QED BY <2>1, <2>2
<1> QED BY <1>2, <1>7 DEF GeoInv

\* A request begins; what it finds of a document that nobody is on is in step or adrift.
LEMMA Begins ==
  ASSUME GeoInv, NEW c \in GClients, NEW docs \in SUBSET GDocs, NEW rec \in GRecs,
         GBegin(c, docs, rec), gdocs' \in [GDocs -> Grid \cup {NoPlace, Postcode, NoGDoc}],
         UNCHANGED <<bucket, points, tree, sorted, byDoc>>, \A d \in GDocs \ docs : gdocs'[d] = gdocs[d],
         \A alone \in SUBSET docs : Shaped(c, [rec EXCEPT !.on = docs, !.alone = alone]),
         \A d \in docs : (d \notin adrift => InStep(Copies(d))) =>
           /\ Written(rec, Copies(d)', d \notin adrift)
           /\ d \notin adrift => Rebuilt(c, rec, d, Copies(d)')
  PROVE  GeoInv'
<1>1. GeoShape /\ Meets /\ Kept /\ GeoTyped /\ c \in GProcs /\ gpc[c].pc = "idle"
  BY ProcessesAre DEF GeoInv, GeoShape, GBegin
<1>2. \A q \in GProcs : gpc[q] \in GRecs /\ Shaped(q, gpc[q])
  BY <1>1 DEF GeoShape, GeoTyped
<1>3. PICK shared : shared = {d \in docs : \E p \in GProcs \ {c} : d \in gpc[p].on}
  OBVIOUS
<1>4. PICK g : g = [rec EXCEPT !.on = docs, !.alone = docs \ shared]
  OBVIOUS
<1>5. adrift' = adrift \cup shared
      /\ gpc' = [p \in GProcs |-> IF p = c THEN g ELSE [gpc[p] EXCEPT !.alone = @ \ docs]]
  BY <1>3, <1>4 DEF GBegin
<1>6. /\ g \in GRecs /\ g.on = docs /\ g.alone = docs \ shared /\ Shaped(c, g)
      /\ g.pc = rec.pc /\ g.meta = rec.meta /\ g.new = rec.new /\ g.at = rec.at /\ g.hash = rec.hash
      /\ g.snap = rec.snap /\ g.left = rec.left
  BY <1>4 DEF GRecs
<1>7. \A q \in GProcs : q # c =>
        /\ gpc'[q] = [gpc[q] EXCEPT !.alone = gpc[q].alone \ docs] /\ gpc'[q] \in GRecs
        /\ gpc'[q].on = gpc[q].on /\ gpc'[q].alone = gpc[q].alone \ docs
        /\ gpc'[q].pc = gpc[q].pc /\ gpc'[q].meta = gpc[q].meta /\ gpc'[q].new = gpc[q].new
        /\ gpc'[q].at = gpc[q].at /\ gpc'[q].hash = gpc[q].hash /\ gpc'[q].doc = gpc[q].doc
        /\ gpc'[q].snap = gpc[q].snap /\ gpc'[q].left = gpc[q].left
  BY <1>2, <1>5 DEF GRecs
<1>8. gpc'[c] = g /\ gpc[c].on = {}
  BY <1>1, <1>2, <1>5 DEF Shaped
<1>9. GeoShape'
  <2>1. \A q \in GProcs : gpc'[q] \in GRecs
    BY <1>6, <1>7, <1>8
  <2>2. gpc' \in [GProcs -> GRecs]
    BY <1>5, <2>1
  <2>3. \A q \in GProcs : Shaped(q, gpc'[q])
    <3>1. ASSUME NEW q \in GProcs, q # c PROVE Shaped(q, gpc'[q])
      <4>1. Shaped(q, gpc[q])
        BY <1>2
      <4>2. gpc'[q].on = gpc[q].on /\ gpc'[q].alone \subseteq gpc[q].alone
            /\ gpc'[q].pc = gpc[q].pc /\ gpc'[q].at = gpc[q].at /\ gpc'[q].hash = gpc[q].hash
            /\ gpc'[q].doc = gpc[q].doc /\ gpc'[q].snap = gpc[q].snap /\ gpc'[q].left = gpc[q].left
        BY <1>7, <3>1
      <4> QED BY <4>1, <4>2 DEF Shaped
    <3> QED BY <1>6, <1>8, <3>1
  <2>4. adrift' \in SUBSET GDocs
    BY <1>1, <1>3, <1>5 DEF GeoTyped
  <2> QED BY <1>1, <2>2, <2>3, <2>4 DEF GeoShape, GeoTyped, Shaped
<1>10. \A d : HashedAt(d)' = HashedAt(d)
  BY DEF HashedAt
<1>11. \A d \in GDocs \ docs : Copies(d)' = Copies(d)
  BY <1>10 DEF Copies
<1>12. Meets'
  <2>1. ASSUME NEW q \in GProcs, NEW r \in GProcs, q # r PROVE gpc'[q].alone \cap gpc'[r].on = {}
    <3>1. CASE q = c
      BY <1>3, <1>6, <1>7, <1>8, <2>1, <3>1
    <3>2. CASE r = c
      BY <1>6, <1>7, <1>8, <2>1, <3>2
    <3>3. CASE q # c /\ r # c
      <4>1. gpc[q].alone \cap gpc[r].on = {}
        BY <1>1, <2>1 DEF Meets
      <4>2. gpc'[q].alone = gpc[q].alone \ docs /\ gpc'[r].on = gpc[r].on
        BY <1>7, <3>3
      <4> QED BY <4>1, <4>2
    <3> QED BY <3>1, <3>2, <3>3
  <2>2. ASSUME NEW q \in GClients PROVE gpc'[q].on \subseteq gpc'[q].alone \cup adrift'
    <3>1. gpc[q].on \subseteq gpc[q].alone \cup adrift /\ q \in GProcs
      BY <1>1, ProcessesAre DEF Meets
    <3>2. CASE q = c
      BY <1>5, <1>6, <1>8, <3>2
    <3>3. CASE q # c
      <4>1. gpc[q].on \cap docs \subseteq shared
        BY <1>3, <3>1, <3>3
      <4> QED BY ZenonT(60), <1>5, <1>7, <3>1, <3>3, <4>1
    <3> QED BY <3>2, <3>3
  <2> QED BY <2>1, <2>2 DEF Meets
<1>13. ASSUME NEW d \in docs, d \notin shared
       PROVE  /\ Written(g, Copies(d)', d \notin adrift')
              /\ d \notin adrift' => Rebuilt(c, g, d, Copies(d)')
  <2>1. Free(d) /\ d \in GDocs
    BY <1>3, <1>8, <1>13 DEF Free
  <2>2. d \notin adrift => InStep(Copies(d))
    BY <1>1, <2>1 DEF Kept
  <2>3. Written(rec, Copies(d)', d \notin adrift) /\ (d \notin adrift => Rebuilt(c, rec, d, Copies(d)'))
    BY <1>13, <2>2
  <2>4. d \in adrift' <=> d \in adrift
    BY <1>5, <1>13
  <2>5. Written(g, Copies(d)', d \notin adrift')
    BY <1>6, <2>3, <2>4 DEF Written
  <2>6. d \notin adrift' => Rebuilt(c, g, d, Copies(d)')
    BY <1>6, <2>3, <2>4 DEF Rebuilt
  <2> QED BY <2>5, <2>6
<1>14. ASSUME NEW q \in GProcs, NEW d \in gpc'[q].alone PROVE Written(gpc'[q], Copies(d)', d \notin adrift')
  <2>1. CASE q = c
    BY <1>6, <1>8, <1>13, <1>14, <2>1
  <2>2. CASE q # c
    <3>1. d \in gpc[q].alone \ docs /\ d \in GDocs
      BY <1>2, <1>7, <1>14, <2>2 DEF GRecs
    <3>2. Copies(d)' = Copies(d) /\ (d \in adrift' <=> d \in adrift)
      BY <1>3, <1>5, <1>11, <3>1
    <3>3. Written(gpc[q], Copies(d), d \notin adrift)
      BY <1>1, <3>1 DEF Kept
    <3>4. Written(gpc[q], Copies(d)', d \notin adrift')
      BY <3>2, <3>3
    <3> QED BY <1>7, <2>2, <3>4 DEF Written
  <2> QED BY <2>1, <2>2
<1>15. ASSUME NEW q \in GProcs, NEW d \in gpc'[q].on \ adrift' PROVE Rebuilt(q, gpc'[q], d, Copies(d)')
  <2>1. CASE q = c
    <3>1. d \in docs /\ d \notin shared
      BY <1>5, <1>6, <1>8, <1>15, <2>1
    <3> QED BY <1>8, <1>13, <1>15, <2>1, <3>1
  <2>2. CASE q # c
    <3>1. d \in gpc[q].on \ adrift /\ d \in GDocs \ docs
      BY <1>2, <1>3, <1>5, <1>7, <1>15, <2>2 DEF GRecs
    <3>2. Rebuilt(q, gpc[q], d, Copies(d)')
      BY <1>1, <1>11, <3>1 DEF Kept
    <3> QED BY <1>7, <2>2, <3>2 DEF Rebuilt
  <2> QED BY <2>1, <2>2
<1>16. ASSUME NEW d \in GDocs \ adrift', \A q \in GProcs : d \notin gpc'[q].on PROVE InStep(Copies(d)')
  <2>1. d \notin docs /\ d \notin adrift
    BY <1>1, <1>5, <1>6, <1>8, <1>16
  <2>2. Free(d)
    BY <1>7, <1>8, <1>16 DEF Free
  <2>3. InStep(Copies(d))
    BY <1>1, <2>1, <2>2 DEF Kept
  <2> QED BY <1>11, <2>1, <2>3
<1>17. Kept'
  BY <1>14, <1>15, <1>16 DEF Kept, Free, Written, Rebuilt, InStep
<1>18. TreeExact' /\ Placed(sorted, byDoc)'
  BY HashCleared DEF GeoInv, TreeExact
<1> QED BY <1>9, <1>12, <1>17, <1>18 DEF GeoInv

\* A write without a hook sets its document adrift, whoever was alone with it.
LEMMA Unhooked ==
  ASSUME GeoInv, NEW c \in GClients, NEW d \in GDocs, NEW m \in {NoPlace, NoGDoc}, GWriteUnhooked(c, d, m)
  PROVE  GeoInv'
<1>1. GeoShape /\ Meets /\ Kept /\ GeoTyped
  BY DEF GeoInv, GeoShape
<1>2. \A q \in GProcs : gpc[q] \in GRecs /\ Shaped(q, gpc[q])
  BY <1>1 DEF GeoShape, GeoTyped
<1>3. /\ adrift' = adrift \cup {d} /\ UNCHANGED <<bucket, points, tree, sorted, byDoc>>
      /\ gdocs' = [gdocs EXCEPT ![d] = m]
      /\ gpc' = [p \in GProcs |-> [gpc[p] EXCEPT !.alone = @ \ {d}]]
  BY DEF GWriteUnhooked, TreeUnchanged, HashUnchanged
<1>4. \A q \in GProcs :
        /\ gpc'[q] \in GRecs /\ gpc'[q].on = gpc[q].on /\ gpc'[q].alone = gpc[q].alone \ {d}
        /\ gpc'[q].pc = gpc[q].pc /\ gpc'[q].meta = gpc[q].meta /\ gpc'[q].new = gpc[q].new
        /\ gpc'[q].at = gpc[q].at /\ gpc'[q].hash = gpc[q].hash /\ gpc'[q].doc = gpc[q].doc
        /\ gpc'[q].snap = gpc[q].snap /\ gpc'[q].left = gpc[q].left
  BY <1>2, <1>3 DEF GRecs
<1>5. GeoShape'
  <2>1. ASSUME NEW q \in GProcs PROVE Shaped(q, gpc'[q])
    <3>1. Shaped(q, gpc[q])
      BY <1>2
    <3>2. gpc'[q].on = gpc[q].on /\ gpc'[q].alone \subseteq gpc[q].alone
          /\ gpc'[q].pc = gpc[q].pc /\ gpc'[q].at = gpc[q].at /\ gpc'[q].hash = gpc[q].hash
          /\ gpc'[q].doc = gpc[q].doc /\ gpc'[q].snap = gpc[q].snap /\ gpc'[q].left = gpc[q].left
      BY <1>4
    <3> QED BY <3>1, <3>2 DEF Shaped
  <2>2. gpc' \in [GProcs -> GRecs]
    BY <1>3, <1>4
  <2>3. gdocs' \in [GDocs -> Grid \cup {NoPlace, Postcode, NoGDoc}] /\ adrift' \in SUBSET GDocs
        /\ bucket' \in [GDocs -> GPoint] /\ points' \in [GDocs -> GPoint]
    BY <1>1, <1>3 DEF GeoTyped
  <2>4. GeoTyped'
    BY <2>2, <2>3 DEF GeoTyped
  <2> QED BY <2>1, <2>4 DEF GeoShape, Shaped
<1>6. Meets'
  <2>1. ASSUME NEW q \in GProcs, NEW r \in GProcs, q # r PROVE gpc'[q].alone \cap gpc'[r].on = {}
    <3>1. gpc[q].alone \cap gpc[r].on = {}
      BY <1>1, <2>1 DEF Meets
    <3>2. gpc'[q].alone = gpc[q].alone \ {d} /\ gpc'[r].on = gpc[r].on
      BY <1>4
    <3> QED BY <3>1, <3>2
  <2>2. ASSUME NEW q \in GClients PROVE gpc'[q].on \subseteq gpc'[q].alone \cup adrift'
    <3>1. gpc[q].on \subseteq gpc[q].alone \cup adrift /\ q \in GProcs
      BY <1>1, ProcessesAre DEF Meets
    <3> QED BY <1>3, <1>4, <3>1
  <2> QED BY <2>1, <2>2 DEF Meets
<1>7. \A e \in GDocs : e # d => Copies(e)' = Copies(e)
  <2>1. \A e : HashedAt(e)' = HashedAt(e)
    BY <1>3 DEF HashedAt
  <2>2. \A e \in GDocs : e # d => gdocs'[e] = gdocs[e]
    BY <1>1, <1>3 DEF GeoTyped
  <2> QED BY <1>3, <2>1, <2>2 DEF Copies
<1>8. ASSUME NEW q \in GProcs, NEW e \in gpc'[q].alone PROVE Written(gpc'[q], Copies(e)', e \notin adrift')
  <2>1. e \in gpc[q].alone /\ e # d /\ e \in GDocs
    BY <1>2, <1>4 DEF GRecs
  <2>2. Written(gpc[q], Copies(e), e \notin adrift) /\ Copies(e)' = Copies(e) /\ (e \in adrift' <=> e \in adrift)
    BY <1>1, <1>3, <1>7, <2>1 DEF Kept
  <2>3. Written(gpc[q], Copies(e)', e \notin adrift')
    BY <2>2
  <2> QED BY <1>4, <2>3 DEF Written
<1>9. ASSUME NEW q \in GProcs, NEW e \in gpc'[q].on \ adrift' PROVE Rebuilt(q, gpc'[q], e, Copies(e)')
  <2>1. e \in gpc[q].on \ adrift /\ e # d /\ e \in GDocs
    BY <1>2, <1>3, <1>4 DEF GRecs
  <2>2. Rebuilt(q, gpc[q], e, Copies(e)')
    BY <1>1, <1>7, <2>1 DEF Kept
  <2> QED BY <1>4, <2>2 DEF Rebuilt
<1>10. ASSUME NEW e \in GDocs \ adrift', \A q \in GProcs : e \notin gpc'[q].on PROVE InStep(Copies(e)')
  <2>1. e # d /\ e \notin adrift /\ Free(e)
    BY <1>3, <1>4, <1>10 DEF Free
  <2> QED BY <1>1, <1>7, <2>1 DEF Kept
<1>11. Kept'
  BY <1>8, <1>9, <1>10 DEF Kept, Free, Written, Rebuilt, InStep
<1>12. TreeExact' /\ Placed(sorted, byDoc)'
  BY <1>3, HashCleared DEF GeoInv, TreeExact
<1> QED BY <1>5, <1>6, <1>11, <1>12 DEF GeoInv

\* The process restarts: what no write was about to change is still in step in the bucket.
LEMMA Restarts ==
  ASSUME GeoInv, GRestart
  PROVE  GeoInv'
<1>1. GeoShape /\ Meets /\ Kept /\ GeoTyped
  BY DEF GeoInv, GeoShape
<1>2. PICK lost : lost = [GIdle EXCEPT !.pc = "viewtree", !.hash = TRUE, !.on = GDocs]
  OBVIOUS
<1>3. /\ points' = Cleared /\ tree' = {} /\ sorted' = <<>> /\ byDoc' = <<>> /\ UNCHANGED <<gdocs, bucket>>
      /\ adrift' = adrift \cup UNION {gpc[c].on : c \in {p \in GClients : ~Rebuilding(p)}}
      /\ gpc' = [p \in GProcs |-> IF p = GLoader THEN lost ELSE GIdle]
  BY <1>2 DEF GRestart
<1>4. /\ lost \in GRecs /\ lost.pc = "viewtree" /\ lost.on = GDocs /\ lost.alone = {} /\ lost.hash = TRUE
      /\ lost.left = {}
      /\ GIdle.on = {} /\ GIdle.alone = {} /\ GIdle.pc = "idle"
  BY <1>2, ProcessesAre DEF GIdle, GRecs, Rebuilds
<1>5. Shaped(GLoader, lost)
  BY <1>4 DEF Shaped, Writing, Dropping, Rebuilds
<1>6. \A q \in GProcs : gpc'[q] = IF q = GLoader THEN lost ELSE GIdle
  BY <1>3
<1>7. adrift' \in SUBSET GDocs
  <2>1. \A q \in GClients : gpc[q].on \subseteq GDocs
    BY <1>1, ProcessesAre DEF GeoTyped, GRecs
  <2> QED BY <1>1, <1>3, <2>1 DEF GeoTyped
<1>8. TreeExact' /\ points' \in [GDocs -> GPoint] /\ \A e \in GDocs : points'[e] = NoPlace
  BY <1>3, TreeCleared
<1>9. Placed(sorted, byDoc)' /\ \A e : HashedAt(e)' = NoPlace
  BY <1>3, HashCleared
<1>10. GeoShape'
  <2>1. gpc' \in [GProcs -> GRecs]
    BY <1>3, <1>4, ProcessesAre
  <2>2. \A q \in GProcs : Shaped(q, gpc'[q])
    BY <1>5, <1>6, ProcessesAre
  <2>3. GeoTyped'
    BY <1>1, <1>3, <1>7, <1>8, <2>1 DEF GeoTyped
  <2> QED BY <2>2, <2>3 DEF GeoShape, Shaped
<1>11. Meets'
  BY <1>4, <1>6, ProcessesAre DEF Meets
<1>12. ASSUME NEW d \in GDocs \ adrift' PROVE bucket[d] \in PlaceOf(gdocs[d])
  <2>1. d \notin adrift
    BY <1>3
  <2>2. CASE Free(d)
    BY <1>1, <2>1, <2>2 DEF Kept, InStep, Copies
  <2>3. CASE ~Free(d)
    <3>1. PICK p \in GProcs : d \in gpc[p].on
      BY <2>3 DEF Free
    <3>2. gpc[p].pc \in Rebuilds
      <4>1. CASE p \in GClients
        BY <1>3, <3>1, <4>1 DEF Rebuilding, Rebuilds
      <4>2. CASE p = GLoader
        BY <1>1, <3>1, <4>2 DEF GeoShape, Shaped, Rebuilds
      <4> QED BY <4>1, <4>2 DEF GProcs
    <3>3. Rebuilt(p, gpc[p], d, Copies(d))
      BY <1>1, <2>1, <3>1 DEF Kept
    <3> QED BY <3>2, <3>3 DEF Rebuilt, Copies
  <2> QED BY <2>2, <2>3
<1>13. ASSUME NEW d \in GDocs \ adrift' PROVE Rebuilt(GLoader, lost, d, Copies(d)')
  BY <1>3, <1>4, <1>8, <1>9, <1>12, <1>13 DEF Rebuilt, Copies
<1>14. Kept'
  <2>1. \A q \in GProcs : gpc'[q].alone = {}
    BY <1>4, <1>6
  <2>2. ASSUME NEW q \in GProcs, NEW d \in gpc'[q].on \ adrift' PROVE Rebuilt(q, gpc'[q], d, Copies(d)')
    <3>1. q = GLoader /\ d \in GDocs \ adrift' /\ gpc'[q] = lost
      BY <1>4, <1>6, <2>2
    <3> QED BY <1>13, <3>1
  <2>3. \A d \in GDocs : ~(\A q \in GProcs : d \notin gpc'[q].on)
    BY <1>4, <1>6, ProcessesAre
  <2> QED BY <2>1, <2>2, <2>3 DEF Kept, Free, Written, Rebuilt, InStep
<1> QED BY <1>8, <1>9, <1>10, <1>11, <1>14 DEF GeoInv

\* The requests that begin.
LEMMA WriteBegins ==
  ASSUME GeoInv, NEW c \in GClients, NEW d \in GDocs, NEW m \in GPlaces \cup {Postcode, NoPlace}, GWrite(c, d, m)
  PROVE  GeoInv'
<1>1. PICK rec : rec = [GIdle EXCEPT !.pc = "meta", !.doc = d, !.meta = m, !.new = gdocs[d] = NoGDoc]
  OBVIOUS
<1>2. /\ GBegin(c, {d}, rec) /\ gdocs' = [gdocs EXCEPT ![d] = m]
      /\ UNCHANGED <<bucket, points, tree, sorted, byDoc>>
  BY <1>1 DEF GWrite, TreeUnchanged, HashUnchanged
<1>3. m \in Grid \cup {NoPlace, Postcode}
  BY GeoAssumption
<1>4. /\ rec \in GRecs /\ rec.pc = "meta" /\ rec.doc = d /\ rec.meta = m /\ rec.new = (gdocs[d] = NoGDoc)
      /\ rec.left = {}
  BY <1>1, <1>3, ProcessesAre DEF GIdle, GRecs, Writing
<1>5. gdocs \in [GDocs -> Grid \cup {NoPlace, Postcode, NoGDoc}]
  BY DEF GeoInv, GeoShape, GeoTyped
<1>6. /\ gdocs' \in [GDocs -> Grid \cup {NoPlace, Postcode, NoGDoc}] /\ gdocs'[d] = m
      /\ \A e \in GDocs \ {d} : gdocs'[e] = gdocs[e]
  BY <1>2, <1>3, <1>5
<1>7. ASSUME NEW alone \in SUBSET {d} PROVE Shaped(c, [rec EXCEPT !.on = {d}, !.alone = alone])
  <2>1. PICK g : g = [rec EXCEPT !.on = {d}, !.alone = alone]
    OBVIOUS
  <2>2. g.pc = "meta" /\ g.doc = d /\ g.on = {d} /\ g.alone = alone /\ g.left = {}
    BY <1>4, <2>1 DEF GRecs
  <2>3. Shaped(c, g)
    BY <2>2, ProcessesAre DEF Shaped, Dropping, Rebuilds
  <2> QED BY <2>1, <2>3
<1>8. ASSUME d \notin adrift => InStep(Copies(d))
      PROVE  Written(rec, Copies(d)', d \notin adrift) /\ Rebuilt(c, rec, d, Copies(d)')
  <2>1. HashedAt(d)' = HashedAt(d)
    BY <1>2 DEF HashedAt
  <2>2. Copies(d)' = [stored |-> m, point |-> points[d], put |-> bucket[d], hash |-> HashedAt(d)]
    BY <1>2, <1>6, <2>1 DEF Copies
  <2>3. rec.new /\ d \notin adrift => points[d] = NoPlace /\ bucket[d] = NoPlace /\ HashedAt(d) = NoPlace
    BY <1>4, <1>8 DEF InStep, Copies, PlaceOf
  <2> QED BY <1>4, <2>2, <2>3 DEF Written, Rebuilt, Dropping, Rebuilds
<1>9. {d} \in SUBSET GDocs /\ \A e \in {d} : (e \notin adrift => InStep(Copies(e))) =>
        Written(rec, Copies(e)', e \notin adrift) /\ (e \notin adrift => Rebuilt(c, rec, e, Copies(e)'))
  BY <1>8
<1>10. PICK docs \in SUBSET GDocs : docs = {d}
  OBVIOUS
<1>11. /\ GBegin(c, docs, rec) /\ \A e \in GDocs \ docs : gdocs'[e] = gdocs[e]
       /\ \A alone \in SUBSET docs : Shaped(c, [rec EXCEPT !.on = docs, !.alone = alone])
       /\ \A e \in docs : (e \notin adrift => InStep(Copies(e))) =>
            Written(rec, Copies(e)', e \notin adrift) /\ (e \notin adrift => Rebuilt(c, rec, e, Copies(e)'))
  BY <1>2, <1>4, <1>6, <1>7, <1>9, <1>10
<1> QED BY <1>2, <1>4, <1>6, <1>11, Begins

\* Nor does a deletion that begins.
LEMMA DeleteBegins ==
  ASSUME GeoInv, NEW c \in GClients, NEW d \in GDocs, GDelete(c, d)
  PROVE  GeoInv'
<1>1. PICK rec : rec = [GIdle EXCEPT !.pc = "untree", !.doc = d]
  OBVIOUS
<1>2. /\ GBegin(c, {d}, rec) /\ gdocs' = [gdocs EXCEPT ![d] = NoGDoc]
      /\ UNCHANGED <<bucket, points, tree, sorted, byDoc>>
  BY <1>1 DEF GDelete, TreeUnchanged, HashUnchanged
<1>3. rec \in GRecs /\ rec.pc = "untree" /\ rec.doc = d /\ rec.left = {}
  BY <1>1, ProcessesAre DEF GIdle, GRecs, Writing
<1>4. gdocs \in [GDocs -> Grid \cup {NoPlace, Postcode, NoGDoc}]
  BY DEF GeoInv, GeoShape, GeoTyped
<1>5. /\ gdocs' \in [GDocs -> Grid \cup {NoPlace, Postcode, NoGDoc}] /\ gdocs'[d] = NoGDoc
      /\ \A e \in GDocs \ {d} : gdocs'[e] = gdocs[e]
  BY <1>2, <1>4
<1>6. ASSUME NEW alone \in SUBSET {d} PROVE Shaped(c, [rec EXCEPT !.on = {d}, !.alone = alone])
  <2>1. PICK g : g = [rec EXCEPT !.on = {d}, !.alone = alone]
    OBVIOUS
  <2>2. g.pc = "untree" /\ g.doc = d /\ g.on = {d} /\ g.alone = alone /\ g.left = {}
    BY <1>3, <2>1 DEF GRecs
  <2>3. Shaped(c, g)
    BY <2>2, ProcessesAre DEF Shaped, Dropping, Rebuilds
  <2> QED BY <2>1, <2>3
<1>7. Written(rec, Copies(d)', d \notin adrift) /\ Rebuilt(c, rec, d, Copies(d)')
  <2>1. Copies(d)'.stored = NoGDoc
    BY <1>5 DEF Copies
  <2> QED BY <1>3, <2>1 DEF Written, Rebuilt, Dropping, Rebuilds, PlaceOf
<1>8. {d} \in SUBSET GDocs /\ \A e \in {d} : (e \notin adrift => InStep(Copies(e))) =>
        Written(rec, Copies(e)', e \notin adrift) /\ (e \notin adrift => Rebuilt(c, rec, e, Copies(e)'))
  BY <1>7
<1>9. PICK docs \in SUBSET GDocs : docs = {d}
  OBVIOUS
<1>10. /\ GBegin(c, docs, rec) /\ \A e \in GDocs \ docs : gdocs'[e] = gdocs[e]
       /\ \A alone \in SUBSET docs : Shaped(c, [rec EXCEPT !.on = docs, !.alone = alone])
       /\ \A e \in docs : (e \notin adrift => InStep(Copies(e))) =>
            Written(rec, Copies(e)', e \notin adrift) /\ (e \notin adrift => Rebuilt(c, rec, e, Copies(e)'))
  BY <1>2, <1>3, <1>5, <1>6, <1>8, <1>9
<1> QED BY <1>2, <1>3, <1>5, <1>10, Begins

\* Nor does the deletion of the collection.
LEMMA DeleteCollectionBegins ==
  ASSUME GeoInv, NEW c \in GClients, GDeleteCollection(c)
  PROVE  GeoInv'
<1>1. PICK rec : rec = [GIdle EXCEPT !.pc = "droptree"]
  OBVIOUS
<1>2. /\ GBegin(c, GDocs, rec) /\ gdocs' = [d \in GDocs |-> NoGDoc]
      /\ UNCHANGED <<bucket, points, tree, sorted, byDoc>>
  BY <1>1 DEF GDeleteCollection, TreeUnchanged, HashUnchanged
<1>3. rec \in GRecs /\ rec.pc = "droptree" /\ rec.left = {}
  BY <1>1, ProcessesAre DEF GIdle, GRecs, Dropping
<1>4. gdocs' \in [GDocs -> Grid \cup {NoPlace, Postcode, NoGDoc}] /\ \A d \in GDocs : gdocs'[d] = NoGDoc
  BY <1>2
<1>5. ASSUME NEW alone \in SUBSET GDocs PROVE Shaped(c, [rec EXCEPT !.on = GDocs, !.alone = alone])
  <2>1. PICK g : g = [rec EXCEPT !.on = GDocs, !.alone = alone]
    OBVIOUS
  <2>2. g.pc = "droptree" /\ g.on = GDocs /\ g.alone = alone /\ g.left = {}
    BY <1>3, <2>1 DEF GRecs
  <2>3. Shaped(c, g)
    BY <2>2, ProcessesAre DEF Shaped, Writing
  <2> QED BY <2>1, <2>3
<1>6. ASSUME NEW d \in GDocs PROVE Written(rec, Copies(d)', d \notin adrift) /\ Rebuilt(c, rec, d, Copies(d)')
  <2>1. Copies(d)'.stored = NoGDoc
    BY <1>4 DEF Copies
  <2> QED BY <1>3, <2>1 DEF Written, Rebuilt, Rebuilds
<1> QED BY <1>2, <1>3, <1>4, <1>5, <1>6, Begins

\* Nor does a reindexing.
LEMMA ReindexBegins ==
  ASSUME GeoInv, NEW c \in GClients, NEW hash \in BOOLEAN, NEW load \in BOOLEAN, GReindex(c, hash, load)
  PROVE  GeoInv'
<1>1. PICK rec : rec = [GIdle EXCEPT !.pc = "cleartree", !.hash = hash]
  OBVIOUS
<1>2. GBegin(c, GDocs, rec) /\ UNCHANGED <<gdocs, bucket, points, tree, sorted, byDoc>>
  BY <1>1 DEF GReindex, TreeUnchanged, HashUnchanged
<1>3. rec \in GRecs /\ rec.pc = "cleartree" /\ rec.left = {} /\ rec.hash = hash
  BY <1>1, ProcessesAre DEF GIdle, GRecs, Rebuilds
<1>4. gdocs' \in [GDocs -> Grid \cup {NoPlace, Postcode, NoGDoc}] /\ \A d \in GDocs : gdocs'[d] = gdocs[d]
  BY <1>2 DEF GeoInv, GeoShape, GeoTyped
<1>5. ASSUME NEW alone \in SUBSET GDocs PROVE Shaped(c, [rec EXCEPT !.on = GDocs, !.alone = alone])
  <2>1. PICK g : g = [rec EXCEPT !.on = GDocs, !.alone = alone]
    OBVIOUS
  <2>2. g.pc = "cleartree" /\ g.on = GDocs /\ g.alone = alone /\ g.left = {}
    BY <1>3, <2>1 DEF GRecs
  <2>3. Shaped(c, g)
    BY <2>2, ProcessesAre DEF Shaped, Writing
  <2> QED BY <2>1, <2>3
<1>6. ASSUME NEW d \in GDocs, d \notin adrift => InStep(Copies(d))
      PROVE  Written(rec, Copies(d)', d \notin adrift) /\ (d \notin adrift => Rebuilt(c, rec, d, Copies(d)'))
  <2>1. HashedAt(d)' = HashedAt(d)
    BY <1>2 DEF HashedAt
  <2>2. Copies(d)' = Copies(d)
    BY <1>2, <2>1 DEF Copies
  <2>3. Written(rec, Copies(d), d \notin adrift)
    BY <1>3 DEF Written, Dropping
  <2>4. d \notin adrift => Rebuilt(c, rec, d, Copies(d))
    BY <1>3, <1>6, ProcessesAre DEF Rebuilt, InStep
  <2> QED BY <2>2, <2>3, <2>4
<1> QED BY <1>2, <1>3, <1>4, <1>5, <1>6, Begins

\* What a step that moves on, and one that ends, makes of the record of its process.
LEMMA Goes ==
  ASSUME GeoInv, NEW c \in GProcs, NEW pc \in {"idle"} \cup Writing \cup Dropping \cup Rebuilds, GGoto(c, pc)
  PROVE  \E g \in GRecs :
           /\ gpc' = [gpc EXCEPT ![c] = g] /\ adrift' = adrift
           /\ g.pc = pc /\ g.doc = gpc[c].doc /\ g.meta = gpc[c].meta /\ g.new = gpc[c].new /\ g.at = gpc[c].at
           /\ g.left = gpc[c].left /\ g.snap = gpc[c].snap /\ g.hash = gpc[c].hash
           /\ g.on = gpc[c].on /\ g.alone = gpc[c].alone
<1>1. gpc \in [GProcs -> GRecs] /\ gpc[c] \in GRecs
  BY DEF GeoInv, GeoShape, GeoTyped
<1>2. PICK g : g = [gpc[c] EXCEPT !.pc = pc]
  OBVIOUS
<1>3. gpc' = [gpc EXCEPT ![c] = g] /\ adrift' = adrift
  BY <1>2 DEF GGoto
<1>4. /\ g \in GRecs
      /\ g.pc = pc /\ g.doc = gpc[c].doc /\ g.meta = gpc[c].meta /\ g.new = gpc[c].new /\ g.at = gpc[c].at
      /\ g.left = gpc[c].left /\ g.snap = gpc[c].snap /\ g.hash = gpc[c].hash
      /\ g.on = gpc[c].on /\ g.alone = gpc[c].alone
  BY <1>1, <1>2 DEF GRecs
<1> QED BY <1>3, <1>4

\* A request that ends is idle, and has put its documents in step or not.
LEMMA Ends ==
  ASSUME NEW c \in GProcs, NEW everywhere \in BOOLEAN, End(c, everywhere)
  PROVE  /\ gpc' = [gpc EXCEPT ![c] = GIdle] /\ GIdle \in GRecs /\ Shaped(c, GIdle)
         /\ everywhere => adrift' = adrift \ gpc[c].alone
         /\ ~everywhere => adrift' = adrift
BY ProcessesAre DEF End

\* The state before a step, in the form the lemmas on it use.
LEMMA Before ==
  ASSUME GeoInv, NEW c \in GProcs
  PROVE  /\ gpc[c] \in GRecs /\ Shaped(c, gpc[c]) /\ gpc[c].on \subseteq GDocs
         /\ gdocs \in [GDocs -> Grid \cup {NoPlace, Postcode, NoGDoc}] /\ bucket \in [GDocs -> GPoint]
         /\ points \in [GDocs -> GPoint] /\ TreeExact /\ Placed(sorted, byDoc)
         /\ (UNCHANGED <<points, tree>> => TreeExact' /\ points' = points)
         /\ (UNCHANGED <<sorted, byDoc>> => Placed(sorted, byDoc)' /\ \A e : HashedAt(e)' = HashedAt(e))
<1>1. UNCHANGED <<sorted, byDoc>> => Placed(sorted, byDoc)' /\ \A e : HashedAt(e)' = HashedAt(e)
  BY HashCleared DEF GeoInv
<1>2. gpc[c] \in GRecs /\ Shaped(c, gpc[c])
  BY DEF GeoInv, GeoShape, GeoTyped
<1>3. UNCHANGED <<points, tree>> => TreeExact' /\ points' = points
  BY DEF GeoInv, TreeExact
<1>4. gpc[c].on \subseteq GDocs
  BY <1>2 DEF GRecs
<1> QED BY <1>1, <1>2, <1>3, <1>4 DEF GeoInv, GeoShape, GeoTyped

\* The hook of a write: coordinates are found, or not.
LEMMA AddFromMetaKeeps ==
  ASSUME GeoInv, NEW c \in GClients, AddFromMeta(c)
  PROVE  GeoInv'
<1>1. PICK d, p : d = gpc[c].doc /\ p = Resolved(gpc[c].meta)
  OBVIOUS
<1>2. /\ c \in GProcs /\ c # GLoader /\ gpc[c] \in GRecs /\ gpc[c].pc = "meta" /\ d \in GDocs /\ gpc[c].on = {d}
      /\ gpc[c].alone \subseteq {d} /\ \A e \in gpc[c].left : gpc[c].snap[e] # NoPlace
  BY <1>1, Before, ProcessesAre DEF AddFromMeta, At, Shaped, Writing
<1>3. /\ gdocs' = gdocs /\ bucket' = bucket /\ Placed(sorted, byDoc)' /\ \A e : HashedAt(e)' = HashedAt(e)
      /\ bucket' \in [GDocs -> GPoint] /\ points \in [GDocs -> GPoint] /\ TreeExact
  BY <1>2, Before DEF AddFromMeta, HashUnchanged
<1>4. gpc[c].meta \in Grid \cup {NoPlace, Postcode}
  BY <1>2 DEF GRecs
<1>5. p # NoPlace => p \in Grid /\ p \in PlaceOf(gpc[c].meta)
  BY <1>1, <1>4, GeoAssumption DEF Resolved, PlaceOf
<1>6. p = NoPlace => NoPlace \in PlaceOf(gpc[c].meta)
  BY <1>1, <1>4, GeoAssumption DEF Resolved, PlaceOf
<1>7. CASE /\ p # NoPlace /\ TreeAdd(d, p)
           /\ gpc' = [gpc EXCEPT ![c].pc = "put", ![c].at = p] /\ UNCHANGED <<adrift, budget, look>>
  <2>1. PICK g : g = [gpc[c] EXCEPT !.pc = "put", !.at = p]
    OBVIOUS
  <2>2. /\ g \in GRecs /\ g.pc = "put" /\ g.at = p /\ g.doc = d /\ g.on = gpc[c].on /\ g.alone = gpc[c].alone
        /\ g.left = gpc[c].left /\ g.snap = gpc[c].snap
    BY <1>1, <1>2, <1>5, <1>7, <2>1 DEF GRecs, Writing, GPoint
  <2>3. gpc' = [gpc EXCEPT ![c] = g] /\ adrift' = adrift
    BY <1>2, <1>7, <2>1 DEF GeoInv, GeoShape, GeoTyped
  <2>4. Shaped(c, g)
    BY <1>2, <1>5, <1>7, <2>2 DEF Shaped, Dropping, Rebuilds
  <2>5. TreeExact' /\ points' \in [GDocs -> GPoint] /\ \A e \in GDocs : points'[e] = IF e = d THEN p ELSE points[e]
    BY <1>2, <1>3, <1>5, <1>7, TreeAdded
  <2>6. ASSUME Written(gpc[c], Copies(d), d \notin adrift) PROVE Written(g, Copies(d)', d \notin adrift)
    <3>1. gdocs[d] = gpc[c].meta
      BY <1>2, <2>6 DEF Written, Copies
    <3> QED BY <1>2, <1>3, <1>5, <1>7, <2>2, <2>5, <3>1 DEF Written, Copies, Dropping
  <2>7. Rebuilt(c, g, d, Copies(d)')
    BY <2>2 DEF Rebuilt, Rebuilds
  <2>8. \A e \in gpc[c].on : e = d
    BY <1>2
  <2>9. \A e \in GDocs \ gpc[c].on : bucket'[e] = bucket[e] /\ points'[e] = points[e] /\ HashedAt(e)' = HashedAt(e)
    BY <1>2, <1>3, <2>5
  <2>10. /\ \A e \in gpc[c].on : Written(gpc[c], Copies(e), e \notin adrift) => Written(g, Copies(e)', e \notin adrift)
         /\ \A e \in gpc[c].on : Rebuilt(c, gpc[c], e, Copies(e)) => Rebuilt(c, g, e, Copies(e)')
    BY <2>6, <2>7, <2>8
  <2> QED BY <1>2, <1>3, <2>2, <2>3, <2>4, <2>5, <2>9, <2>10, Moves
<1>8. CASE p = NoPlace /\ ~gpc[c].new /\ GGoto(c, "untree") /\ TreeUnchanged
  <2>1. PICK g \in GRecs : /\ gpc' = [gpc EXCEPT ![c] = g] /\ adrift' = adrift /\ g.pc = "untree" /\ g.doc = d
                           /\ g.on = gpc[c].on /\ g.alone = gpc[c].alone
                           /\ g.left = gpc[c].left /\ g.snap = gpc[c].snap
    BY <1>1, <1>2, <1>8, Goes DEF Writing
  <2>2. Shaped(c, g)
    BY <1>2, <2>1 DEF Shaped, Dropping, Rebuilds
  <2>3. TreeExact' /\ points' = points
    BY <1>2, <1>8, Before DEF TreeUnchanged
  <2>4. ASSUME NEW e \in gpc[c].on, Written(gpc[c], Copies(e), e \notin adrift)
        PROVE  Written(g, Copies(e)', e \notin adrift)
    <3>1. gdocs[e] = gpc[c].meta
      BY <1>2, <2>4 DEF Written, Copies
    <3> QED BY <1>3, <1>6, <1>8, <2>1, <3>1 DEF Written, Copies, Dropping
  <2>5. \A e \in gpc[c].on : Rebuilt(c, g, e, Copies(e)')
    BY <2>1 DEF Rebuilt, Rebuilds
  <2> QED BY <1>2, <1>3, <2>1, <2>2, <2>3, <2>4, <2>5, Moves
<1>9. CASE p = NoPlace /\ gpc[c].new /\ End(c, FALSE) /\ TreeUnchanged
  <2>1. gpc' = [gpc EXCEPT ![c] = GIdle] /\ GIdle \in GRecs /\ Shaped(c, GIdle) /\ adrift' = adrift
    BY <1>2, <1>9, Ends
  <2>2. TreeExact' /\ points' = points
    BY <1>2, <1>9, Before DEF TreeUnchanged
  <2>3. ASSUME NEW e \in gpc[c].on \ adrift', Written(gpc[c], Copies(e), e \notin adrift)
        PROVE  InStep(Copies(e)')
    <3>1. gdocs[e] = gpc[c].meta /\ points[e] = NoPlace /\ bucket[e] = NoPlace /\ HashedAt(e) = NoPlace
      BY <1>2, <1>9, <2>1, <2>3 DEF Written, Copies
    <3> QED BY <1>3, <1>6, <1>9, <2>2, <3>1 DEF InStep, Copies
  <2> QED BY <1>2, <1>3, <2>1, <2>2, <2>3, Moves
<1> QED BY <1>1, <1>7, <1>8, <1>9 DEF AddFromMeta

\* The point is put in the bucket, then in the slice.
LEMMA PutPointKeeps ==
  ASSUME GeoInv, NEW c \in GClients, PutPoint(c)
  PROVE  GeoInv'
<1>1. /\ c \in GProcs /\ c # GLoader /\ gpc[c] \in GRecs /\ gpc[c].pc = "put" /\ gpc[c].doc \in GDocs
      /\ gpc[c].on = {gpc[c].doc} /\ gpc[c].at \in Grid
      /\ gpc[c].alone \subseteq gpc[c].on /\ \A e \in gpc[c].left : gpc[c].snap[e] # NoPlace
  BY Before, ProcessesAre DEF PutPoint, At, Shaped, Writing
<1>2. PICK g \in GRecs : /\ gpc' = [gpc EXCEPT ![c] = g] /\ adrift' = adrift /\ g.pc = "hash" /\ g.doc = gpc[c].doc
                         /\ g.at = gpc[c].at /\ g.on = gpc[c].on /\ g.alone = gpc[c].alone
                         /\ g.left = gpc[c].left /\ g.snap = gpc[c].snap
  BY <1>1, Goes DEF PutPoint, Writing
<1>3. Shaped(c, g)
  BY <1>1, <1>2 DEF Shaped, Dropping, Rebuilds
<1>4. /\ gdocs' = gdocs /\ TreeExact' /\ points' = points /\ points \in [GDocs -> GPoint] /\ Placed(sorted, byDoc)'
      /\ bucket \in [GDocs -> GPoint] /\ \A e : HashedAt(e)' = HashedAt(e)
  BY <1>1, Before DEF PutPoint, TreeUnchanged, HashUnchanged
<1>5. bucket' \in [GDocs -> GPoint] /\ \A e \in GDocs : bucket'[e] = IF e = gpc[c].doc THEN gpc[c].at ELSE bucket[e]
  BY <1>1, <1>4 DEF PutPoint, GPoint
<1>6. ASSUME NEW e \in gpc[c].on, Written(gpc[c], Copies(e), e \notin adrift)
      PROVE  Written(g, Copies(e)', e \notin adrift)
  BY <1>1, <1>2, <1>4, <1>5, <1>6 DEF Written, Copies, Dropping
<1>7. \A e \in gpc[c].on : Rebuilt(c, g, e, Copies(e)')
  BY <1>2 DEF Rebuilt, Rebuilds
<1>8. \A e \in GDocs \ gpc[c].on : bucket'[e] = bucket[e]
  BY <1>1, <1>5
<1> QED BY <1>1, <1>2, <1>3, <1>4, <1>5, <1>6, <1>7, <1>8, Moves

\* The slice takes the place that the tree and the bucket have, and the write is done.
LEMMA AddHashKeeps ==
  ASSUME GeoInv, NEW c \in GClients, AddHash(c)
  PROVE  GeoInv'
<1>1. /\ c \in GProcs /\ gpc[c] \in GRecs /\ gpc[c].pc = "hash" /\ gpc[c].doc \in GDocs
      /\ gpc[c].on = {gpc[c].doc} /\ gpc[c].at \in Grid
  BY Before, ProcessesAre DEF AddHash, At, Shaped, Writing
<1>2. gpc' = [gpc EXCEPT ![c] = GIdle] /\ GIdle \in GRecs /\ Shaped(c, GIdle) /\ adrift' = adrift \ gpc[c].alone
  BY <1>1, Ends DEF AddHash
<1>3. /\ gdocs' = gdocs /\ bucket' = bucket /\ TreeExact' /\ points' = points /\ points \in [GDocs -> GPoint]
      /\ bucket \in [GDocs -> GPoint] /\ Placed(sorted, byDoc)
  BY <1>1, Before DEF AddHash, TreeUnchanged
<1>4. Placed(sorted, byDoc)' /\ \A e : HashedAt(e)' = IF e = gpc[c].doc THEN gpc[c].at ELSE HashedAt(e)
  BY <1>1, <1>3, HashAdded DEF AddHash
<1>5. ASSUME NEW e \in gpc[c].on, Written(gpc[c], Copies(e), e \notin adrift)
      PROVE  InStep(Copies(e)')
  BY <1>1, <1>3, <1>4, <1>5 DEF Written, Copies, InStep
<1>6. \A e \in GDocs \ gpc[c].on : HashedAt(e)' = HashedAt(e)
  BY <1>1, <1>4
<1> QED BY <1>1, <1>2, <1>3, <1>4, <1>5, <1>6, Moves

\* The hook of a deletion: the tree, the slice, the bucket.
LEMMA RemoveTreeKeeps ==
  ASSUME GeoInv, NEW c \in GClients, RemoveTree(c)
  PROVE  GeoInv'
<1>1. /\ c \in GProcs /\ c # GLoader /\ gpc[c] \in GRecs /\ gpc[c].pc = "untree" /\ gpc[c].doc \in GDocs
      /\ gpc[c].on = {gpc[c].doc}
      /\ gpc[c].alone \subseteq gpc[c].on /\ \A e \in gpc[c].left : gpc[c].snap[e] # NoPlace
  BY Before, ProcessesAre DEF RemoveTree, At, Shaped, Writing
<1>2. PICK g \in GRecs : /\ gpc' = [gpc EXCEPT ![c] = g] /\ adrift' = adrift /\ g.pc = "unhash" /\ g.doc = gpc[c].doc
                         /\ g.on = gpc[c].on /\ g.alone = gpc[c].alone
                         /\ g.left = gpc[c].left /\ g.snap = gpc[c].snap
  BY <1>1, Goes DEF RemoveTree, Writing
<1>3. Shaped(c, g)
  BY <1>1, <1>2 DEF Shaped, Dropping, Rebuilds
<1>4. /\ gdocs' = gdocs /\ bucket' = bucket /\ TreeExact /\ points \in [GDocs -> GPoint] /\ Placed(sorted, byDoc)'
      /\ bucket \in [GDocs -> GPoint] /\ \A e : HashedAt(e)' = HashedAt(e)
  BY <1>1, Before DEF RemoveTree, HashUnchanged
<1>5. /\ TreeExact' /\ points' \in [GDocs -> GPoint]
      /\ \A e \in GDocs : points'[e] = IF e = gpc[c].doc THEN NoPlace ELSE points[e]
  BY <1>1, <1>4, TreeRemoved DEF RemoveTree
<1>6. ASSUME NEW e \in gpc[c].on, Written(gpc[c], Copies(e), e \notin adrift)
      PROVE  Written(g, Copies(e)', e \notin adrift)
  BY <1>1, <1>2, <1>4, <1>5, <1>6 DEF Written, Copies, Dropping
<1>7. \A e \in gpc[c].on : Rebuilt(c, g, e, Copies(e)')
  BY <1>2 DEF Rebuilt, Rebuilds
<1>8. \A e \in GDocs \ gpc[c].on : points'[e] = points[e]
  BY <1>1, <1>5
<1> QED BY <1>1, <1>2, <1>3, <1>4, <1>5, <1>6, <1>7, <1>8, Moves

\* The slice gives the document up.
LEMMA RemoveHashKeeps ==
  ASSUME GeoInv, NEW c \in GClients, RemoveHash(c)
  PROVE  GeoInv'
<1>1. /\ c \in GProcs /\ c # GLoader /\ gpc[c] \in GRecs /\ gpc[c].pc = "unhash" /\ gpc[c].doc \in GDocs
      /\ gpc[c].on = {gpc[c].doc}
      /\ gpc[c].alone \subseteq gpc[c].on /\ \A e \in gpc[c].left : gpc[c].snap[e] # NoPlace
  BY Before, ProcessesAre DEF RemoveHash, At, Shaped, Writing
<1>2. PICK g \in GRecs : /\ gpc' = [gpc EXCEPT ![c] = g] /\ adrift' = adrift /\ g.pc = "unput" /\ g.doc = gpc[c].doc
                         /\ g.on = gpc[c].on /\ g.alone = gpc[c].alone
                         /\ g.left = gpc[c].left /\ g.snap = gpc[c].snap
  BY <1>1, Goes DEF RemoveHash, Writing
<1>3. Shaped(c, g)
  BY <1>1, <1>2 DEF Shaped, Dropping, Rebuilds
<1>4. /\ gdocs' = gdocs /\ bucket' = bucket /\ TreeExact' /\ points' = points /\ points \in [GDocs -> GPoint]
      /\ bucket \in [GDocs -> GPoint] /\ Placed(sorted, byDoc)
  BY <1>1, Before DEF RemoveHash, TreeUnchanged
<1>5. Placed(sorted, byDoc)' /\ \A e : HashedAt(e)' = IF e = gpc[c].doc THEN NoPlace ELSE HashedAt(e)
  BY <1>4, HashRemoved DEF RemoveHash
<1>6. ASSUME NEW e \in gpc[c].on, Written(gpc[c], Copies(e), e \notin adrift)
      PROVE  Written(g, Copies(e)', e \notin adrift)
  BY <1>1, <1>2, <1>4, <1>5, <1>6 DEF Written, Copies, Dropping
<1>7. \A e \in gpc[c].on : Rebuilt(c, g, e, Copies(e)')
  BY <1>2 DEF Rebuilt, Rebuilds
<1>8. \A e \in GDocs \ gpc[c].on : HashedAt(e)' = HashedAt(e)
  BY <1>1, <1>5
<1> QED BY <1>1, <1>2, <1>3, <1>4, <1>5, <1>6, <1>7, <1>8, Moves

\* The bucket gives it up last, and the removal is done.
LEMMA DeletePointKeeps ==
  ASSUME GeoInv, NEW c \in GClients, DeletePoint(c)
  PROVE  GeoInv'
<1>1. /\ c \in GProcs /\ gpc[c] \in GRecs /\ gpc[c].pc = "unput" /\ gpc[c].doc \in GDocs
      /\ gpc[c].on = {gpc[c].doc}
  BY Before, ProcessesAre DEF DeletePoint, At, Shaped, Writing
<1>2. gpc' = [gpc EXCEPT ![c] = GIdle] /\ GIdle \in GRecs /\ Shaped(c, GIdle) /\ adrift' = adrift \ gpc[c].alone
  BY <1>1, Ends DEF DeletePoint
<1>3. /\ gdocs' = gdocs /\ TreeExact' /\ points' = points /\ points \in [GDocs -> GPoint]
      /\ bucket \in [GDocs -> GPoint] /\ Placed(sorted, byDoc)' /\ \A e : HashedAt(e)' = HashedAt(e)
  BY <1>1, Before DEF DeletePoint, TreeUnchanged, HashUnchanged
<1>4. bucket' \in [GDocs -> GPoint] /\ \A e \in GDocs : bucket'[e] = IF e = gpc[c].doc THEN NoPlace ELSE bucket[e]
  BY <1>1, <1>3 DEF DeletePoint, GPoint
<1>5. ASSUME NEW e \in gpc[c].on, Written(gpc[c], Copies(e), e \notin adrift)
      PROVE  InStep(Copies(e)')
  BY <1>1, <1>3, <1>4, <1>5 DEF Written, Copies, InStep
<1>6. \A e \in GDocs \ gpc[c].on : bucket'[e] = bucket[e]
  BY <1>1, <1>4
<1> QED BY <1>1, <1>2, <1>3, <1>4, <1>5, <1>6, Moves

\* A deletion of the collection and a reindexing: the tree and the slice are cleared.
LEMMA ClearTreeKeeps ==
  ASSUME GeoInv, NEW c \in GClients, ClearTree(c)
  PROVE  GeoInv'
<1>1. PICK pc \in {"drophash", "viewtree"} :
        GGoto(c, pc) /\ gpc[c].pc = IF pc = "drophash" THEN "droptree" ELSE "cleartree"
  BY DEF ClearTree, At
<1>2. /\ c \in GProcs /\ c # GLoader /\ gpc[c] \in GRecs /\ gpc[c].on = GDocs
      /\ gpc[c].alone \subseteq gpc[c].on /\ \A e \in gpc[c].left : gpc[c].snap[e] # NoPlace
  BY <1>1, Before, ProcessesAre DEF Shaped, Dropping, Rebuilds
<1>3. PICK g \in GRecs : /\ gpc' = [gpc EXCEPT ![c] = g] /\ adrift' = adrift /\ g.pc = pc /\ g.hash = gpc[c].hash
                         /\ g.on = gpc[c].on /\ g.alone = gpc[c].alone
                         /\ g.left = gpc[c].left /\ g.snap = gpc[c].snap
  BY <1>1, <1>2, Goes DEF Dropping, Rebuilds
<1>4. Shaped(c, g)
  BY <1>2, <1>3 DEF Shaped, Writing
<1>5. /\ gdocs' = gdocs /\ bucket' = bucket /\ bucket \in [GDocs -> GPoint] /\ Placed(sorted, byDoc)'
      /\ \A e : HashedAt(e)' = HashedAt(e)
  BY <1>2, Before DEF ClearTree, HashUnchanged
<1>6. TreeExact' /\ points' \in [GDocs -> GPoint] /\ \A e \in GDocs : points'[e] = NoPlace
  BY TreeCleared DEF ClearTree
<1>7. ASSUME NEW e \in gpc[c].on, Written(gpc[c], Copies(e), e \notin adrift)
      PROVE  Written(g, Copies(e)', e \notin adrift)
  BY <1>1, <1>2, <1>3, <1>5, <1>6, <1>7 DEF Written, Copies, Dropping
<1>8. ASSUME NEW e \in gpc[c].on, Rebuilt(c, gpc[c], e, Copies(e)) PROVE Rebuilt(c, g, e, Copies(e)')
  BY <1>1, <1>2, <1>3, <1>5, <1>6, <1>8 DEF Rebuilt, Copies, Rebuilds
<1> QED BY <1>2, <1>3, <1>4, <1>5, <1>6, <1>7, <1>8, Moves

\* The slice is cleared, by a deletion of the collection or before it is rebuilt.
LEMMA ClearHashKeeps ==
  ASSUME GeoInv, NEW c \in GClients, ClearHash(c)
  PROVE  GeoInv'
<1>1. PICK pc \in {"dropput", "viewhash"} :
        GGoto(c, pc) /\ gpc[c].pc = IF pc = "dropput" THEN "drophash" ELSE "clearhash"
  BY DEF ClearHash, At
<1>2. /\ c \in GProcs /\ c # GLoader /\ gpc[c] \in GRecs /\ gpc[c].on = GDocs
      /\ gpc[c].alone \subseteq gpc[c].on /\ \A e \in gpc[c].left : gpc[c].snap[e] # NoPlace
      /\ pc = "viewhash" => gpc[c].hash
  BY <1>1, Before, ProcessesAre DEF Shaped, Dropping, Rebuilds
<1>3. PICK g \in GRecs : /\ gpc' = [gpc EXCEPT ![c] = g] /\ adrift' = adrift /\ g.pc = pc /\ g.hash = gpc[c].hash
                         /\ g.on = gpc[c].on /\ g.alone = gpc[c].alone
                         /\ g.left = gpc[c].left /\ g.snap = gpc[c].snap
  BY <1>1, <1>2, Goes DEF Dropping, Rebuilds
<1>4. Shaped(c, g)
  BY <1>2, <1>3 DEF Shaped, Writing
<1>5. /\ gdocs' = gdocs /\ bucket' = bucket /\ bucket \in [GDocs -> GPoint] /\ TreeExact' /\ points' = points
      /\ points \in [GDocs -> GPoint]
  BY <1>2, Before DEF ClearHash, TreeUnchanged
<1>6. Placed(sorted, byDoc)' /\ \A e : HashedAt(e)' = NoPlace
  BY HashCleared DEF ClearHash
<1>7. ASSUME NEW e \in gpc[c].on, Written(gpc[c], Copies(e), e \notin adrift)
      PROVE  Written(g, Copies(e)', e \notin adrift)
  BY <1>1, <1>2, <1>3, <1>5, <1>6, <1>7 DEF Written, Copies, Dropping
<1>8. ASSUME NEW e \in gpc[c].on, Rebuilt(c, gpc[c], e, Copies(e)) PROVE Rebuilt(c, g, e, Copies(e)')
  BY <1>1, <1>2, <1>3, <1>5, <1>6, <1>8 DEF Rebuilt, Copies, Rebuilds
<1> QED BY <1>2, <1>3, <1>4, <1>5, <1>6, <1>7, <1>8, Moves

\* The bucket is emptied, and the deletion of the collection is done.
LEMMA DeletePointsKeeps ==
  ASSUME GeoInv, NEW c \in GClients, DeletePoints(c)
  PROVE  GeoInv'
<1>1. c \in GProcs /\ gpc[c] \in GRecs /\ gpc[c].pc = "dropput" /\ gpc[c].on = GDocs
  BY Before, ProcessesAre DEF DeletePoints, At, Shaped, Dropping
<1>2. gpc' = [gpc EXCEPT ![c] = GIdle] /\ GIdle \in GRecs /\ Shaped(c, GIdle) /\ adrift' = adrift \ gpc[c].alone
  BY <1>1, Ends DEF DeletePoints
<1>3. /\ gdocs' = gdocs /\ TreeExact' /\ points' = points /\ points \in [GDocs -> GPoint]
      /\ Placed(sorted, byDoc)' /\ \A e : HashedAt(e)' = HashedAt(e)
  BY <1>1, Before DEF DeletePoints, TreeUnchanged, HashUnchanged
<1>4. bucket' \in [GDocs -> GPoint] /\ \A e \in GDocs : bucket'[e] = NoPlace
  BY DEF DeletePoints, Cleared, GPoint
<1>5. ASSUME NEW e \in gpc[c].on, Written(gpc[c], Copies(e), e \notin adrift)
      PROVE  InStep(Copies(e)')
  BY <1>1, <1>3, <1>4, <1>5 DEF Written, Copies, InStep, PlaceOf, Dropping
<1> QED BY <1>1, <1>2, <1>3, <1>4, <1>5, Moves

\* A rebuild looks at the bucket, adds point by point, and goes on or ends.
LEMMA RebuildViewKeeps ==
  ASSUME GeoInv, NEW c \in GProcs, RebuildView(c)
  PROVE  GeoInv'
<1>1. /\ gpc[c] \in GRecs /\ Shaped(c, gpc[c]) /\ gpc[c].on = GDocs /\ gpc[c].alone \subseteq gpc[c].on
      /\ gpc[c].pc \in {"viewtree", "viewhash"}
  BY Before DEF RebuildView, At, Shaped, Rebuilds
<1>2. PICK g : g = [gpc[c] EXCEPT !.pc = IF @ = "viewtree" THEN "addtree" ELSE "addhash",
                                  !.snap = bucket, !.left = {d \in GDocs : bucket[d] # NoPlace}]
  OBVIOUS
<1>3. /\ gdocs' = gdocs /\ bucket' = bucket /\ bucket \in [GDocs -> GPoint] /\ adrift' = adrift
      /\ TreeExact' /\ points' = points /\ points \in [GDocs -> GPoint]
      /\ Placed(sorted, byDoc)' /\ \A e : HashedAt(e)' = HashedAt(e)
  BY Before DEF RebuildView, TreeUnchanged, HashUnchanged
<1>4. /\ g \in GRecs /\ g.pc = (IF gpc[c].pc = "viewtree" THEN "addtree" ELSE "addhash") /\ g.snap = bucket
      /\ g.left = {d \in GDocs : bucket[d] # NoPlace} /\ g.hash = gpc[c].hash
      /\ g.on = gpc[c].on /\ g.alone = gpc[c].alone
  BY ZenonT(60), <1>1, <1>2, <1>3 DEF GRecs, Rebuilds
<1>5. gpc' = [gpc EXCEPT ![c] = g]
  BY <1>2 DEF RebuildView, GeoInv, GeoShape, GeoTyped
<1>6. Shaped(c, g)
  BY <1>1, <1>4 DEF Shaped, Writing
<1>7. \A e \in gpc[c].on : Written(g, Copies(e)', e \notin adrift)
  BY <1>4 DEF Written, Dropping
<1>8. ASSUME NEW e \in gpc[c].on, Rebuilt(c, gpc[c], e, Copies(e)) PROVE Rebuilt(c, g, e, Copies(e)')
  BY <1>1, <1>3, <1>4, <1>8 DEF Rebuilt, Copies, Rebuilds, Shaped
<1> QED BY <1>3, <1>4, <1>5, <1>6, <1>7, <1>8, Moves

\* A rebuild adds the next point of its view to the tree or to the slice.
LEMMA RebuildAddKeeps ==
  ASSUME GeoInv, NEW c \in GProcs, RebuildAdd(c)
  PROVE  GeoInv'
<1>1. /\ gpc[c] \in GRecs /\ Shaped(c, gpc[c]) /\ gpc[c].on = GDocs /\ gpc[c].alone \subseteq gpc[c].on
      /\ gpc[c].pc \in {"addtree", "addhash"} /\ gpc[c].snap \in [GDocs -> GPoint]
      /\ \A e \in gpc[c].left : gpc[c].snap[e] # NoPlace
  <2>1. gpc[c] \in GRecs /\ Shaped(c, gpc[c]) /\ gpc[c].pc \in {"addtree", "addhash"}
    BY Before DEF RebuildAdd, At
  <2> QED BY <2>1 DEF Shaped, Rebuilds, GRecs
<1>2. PICK d \in gpc[c].left :
        /\ gpc' = [gpc EXCEPT ![c].left = @ \ {d}]
        /\ IF At(c, "addtree") THEN TreeAdd(d, gpc[c].snap[d]) /\ HashUnchanged
           ELSE HashAdd(d, gpc[c].snap[d]) /\ TreeUnchanged
  <2>1. gpc[c].left # {}
    BY DEF RebuildAdd
  <2>2. (CHOOSE x \in gpc[c].left : TRUE) \in gpc[c].left
    BY <2>1
  <2> QED BY <2>2 DEF RebuildAdd
<1>3. d \in GDocs /\ gpc[c].snap[d] \in Grid
  <2>1. d \in GDocs
    BY <1>1 DEF GRecs
  <2> QED BY <1>1, <1>2, <2>1 DEF GPoint
<1>4. PICK g : g = [gpc[c] EXCEPT !.left = @ \ {d}]
  OBVIOUS
<1>5. /\ g \in GRecs /\ g.pc = gpc[c].pc /\ g.snap = gpc[c].snap /\ g.left = gpc[c].left \ {d}
      /\ g.hash = gpc[c].hash /\ g.on = gpc[c].on /\ g.alone = gpc[c].alone
  BY <1>1, <1>4 DEF GRecs
<1>6. gpc' = [gpc EXCEPT ![c] = g] /\ adrift' = adrift /\ gdocs' = gdocs /\ bucket' = bucket
  BY <1>2, <1>4 DEF RebuildAdd, GeoInv, GeoShape, GeoTyped
<1>7. Shaped(c, g)
  BY <1>1, <1>5 DEF Shaped, Writing
<1>8. \A e \in gpc[c].on : Written(g, Copies(e)', e \notin adrift)
  BY <1>1, <1>5 DEF Written, Dropping
<1>9. /\ bucket \in [GDocs -> GPoint] /\ points \in [GDocs -> GPoint] /\ TreeExact /\ Placed(sorted, byDoc)
      /\ UNCHANGED <<points, tree>> => TreeExact' /\ points' = points
      /\ UNCHANGED <<sorted, byDoc>> => Placed(sorted, byDoc)' /\ \A e : HashedAt(e)' = HashedAt(e)
  BY Before
<1>10. CASE gpc[c].pc = "addtree"
  <2>1. TreeAdd(d, gpc[c].snap[d]) /\ UNCHANGED <<sorted, byDoc>>
    BY <1>2, <1>10 DEF At, HashUnchanged
  <2>2. /\ TreeExact' /\ points' \in [GDocs -> GPoint]
        /\ \A e \in GDocs : points'[e] = IF e = d THEN gpc[c].snap[d] ELSE points[e]
    BY <1>3, <1>9, <2>1, TreeAdded
  <2>3. ASSUME NEW e \in gpc[c].on, Rebuilt(c, gpc[c], e, Copies(e)) PROVE Rebuilt(c, g, e, Copies(e)')
    BY <1>1, <1>5, <1>6, <1>9, <1>10, <2>1, <2>2, <2>3 DEF Rebuilt, Copies, Rebuilds
  <2> QED BY <1>1, <1>5, <1>6, <1>7, <1>8, <1>9, <2>1, <2>2, <2>3, Moves
<1>11. CASE gpc[c].pc = "addhash"
  <2>1. HashAdd(d, gpc[c].snap[d]) /\ UNCHANGED <<points, tree>>
    BY <1>2, <1>11 DEF At, TreeUnchanged
  <2>2. Placed(sorted, byDoc)' /\ \A e : HashedAt(e)' = IF e = d THEN gpc[c].snap[d] ELSE HashedAt(e)
    BY <1>3, <1>9, <2>1, HashAdded
  <2>3. ASSUME NEW e \in gpc[c].on, Rebuilt(c, gpc[c], e, Copies(e)) PROVE Rebuilt(c, g, e, Copies(e)')
    <3>1. gpc[c].hash
      BY <1>1, <1>11 DEF Shaped
    <3> QED BY <1>1, <1>5, <1>6, <1>9, <1>11, <2>1, <2>2, <2>3, <3>1 DEF Rebuilt, Copies, Rebuilds
  <2> QED BY <1>1, <1>5, <1>6, <1>7, <1>8, <1>9, <2>1, <2>2, <2>3, Moves
<1> QED BY <1>1, <1>10, <1>11

\* A rebuild has added its view and goes on or ends.
LEMMA RebuildDoneKeeps ==
  ASSUME GeoInv, NEW c \in GProcs, RebuildDone(c)
  PROVE  GeoInv'
<1>1. /\ gpc[c] \in GRecs /\ Shaped(c, gpc[c]) /\ gpc[c].on = GDocs /\ gpc[c].alone \subseteq gpc[c].on
      /\ gpc[c].pc \in {"addtree", "addhash"} /\ gpc[c].left = {}
      /\ c = GLoader => gpc[c].hash
  <2>1. gpc[c] \in GRecs /\ Shaped(c, gpc[c]) /\ gpc[c].pc \in {"addtree", "addhash"} /\ gpc[c].left = {}
    BY Before DEF RebuildDone, At
  <2> QED BY <2>1 DEF Shaped, Rebuilds
<1>2. /\ gdocs' = gdocs /\ bucket' = bucket /\ bucket \in [GDocs -> GPoint]
      /\ TreeExact' /\ points' = points /\ points \in [GDocs -> GPoint]
      /\ Placed(sorted, byDoc)' /\ \A e : HashedAt(e)' = HashedAt(e)
  BY Before DEF RebuildDone, TreeUnchanged, HashUnchanged
<1>3. CASE /\ gpc[c].pc = "addtree" /\ gpc[c].hash
           /\ GGoto(c, IF c = GLoader THEN "viewhash" ELSE "clearhash")
  <2>1. PICK pc \in {"viewhash", "clearhash"} : pc = (IF c = GLoader THEN "viewhash" ELSE "clearhash") /\ GGoto(c, pc)
    BY <1>3
  <2>2. PICK g \in GRecs : /\ gpc' = [gpc EXCEPT ![c] = g] /\ adrift' = adrift /\ g.pc = pc /\ g.hash = gpc[c].hash
                           /\ g.on = gpc[c].on /\ g.alone = gpc[c].alone /\ g.left = gpc[c].left
    BY <2>1, Goes DEF Rebuilds
  <2>3. Shaped(c, g)
    BY <1>1, <1>3, <2>1, <2>2 DEF Shaped, Writing
  <2>4. \A e \in gpc[c].on : Written(g, Copies(e)', e \notin adrift)
    BY <2>2 DEF Written, Dropping
  <2>5. ASSUME NEW e \in gpc[c].on, Rebuilt(c, gpc[c], e, Copies(e)) PROVE Rebuilt(c, g, e, Copies(e)')
    BY <1>1, <1>2, <1>3, <2>1, <2>2, <2>5 DEF Rebuilt, Copies, Rebuilds
  <2> QED BY <1>2, <2>2, <2>3, <2>4, <2>5, Moves
<1>4. CASE End(c, FALSE) /\ ((gpc[c].pc = "addtree" /\ ~gpc[c].hash) \/ gpc[c].pc = "addhash")
  <2>1. gpc' = [gpc EXCEPT ![c] = GIdle] /\ GIdle \in GRecs /\ Shaped(c, GIdle) /\ adrift' = adrift
    BY <1>4, Ends
  <2>2. ASSUME NEW e \in gpc[c].on \ adrift', e \notin adrift => Rebuilt(c, gpc[c], e, Copies(e))
        PROVE  InStep(Copies(e)')
    BY <1>1, <1>2, <1>4, <2>1, <2>2 DEF Rebuilt, Copies, Rebuilds, InStep
  <2> QED BY <1>2, <2>1, <2>2, Moves
<1> QED BY <1>3, <1>4 DEF RebuildDone, At

\* The loader finds both indexes empty at the start.
LEMMA GeoInitInv == GeoInit => GeoInv
<1> SUFFICES ASSUME GeoInit PROVE GeoInv
  OBVIOUS
<1>1. PICK g : g = [GIdle EXCEPT !.pc = "viewtree", !.hash = TRUE, !.on = GDocs]
  OBVIOUS
<1>2. /\ gdocs \in [GDocs -> GPlaces] /\ bucket = gdocs /\ points = Cleared /\ tree = {}
      /\ sorted = <<>> /\ byDoc = <<>> /\ adrift = {}
      /\ gpc = [p \in GProcs |-> IF p = GLoader THEN g ELSE GIdle]
  BY <1>1 DEF GeoInit
<1>3. /\ g \in GRecs /\ g.pc = "viewtree" /\ g.on = GDocs /\ g.alone = {} /\ g.hash = TRUE /\ g.left = {}
      /\ GIdle.on = {} /\ GIdle.alone = {} /\ GIdle.pc = "idle"
  BY <1>1, ProcessesAre DEF GIdle, GRecs, Rebuilds
<1>4. Shaped(GLoader, g)
  BY <1>3 DEF Shaped, Writing, Dropping, Rebuilds
<1>5. \A q \in GProcs : gpc[q] = IF q = GLoader THEN g ELSE GIdle
  BY <1>2
<1>6. \A d \in GDocs : gdocs[d] \in Grid /\ points[d] = NoPlace /\ HashedAt(d) = NoPlace
  BY <1>2, GeoAssumption DEF Cleared, HashedAt
<1>7. GeoShape
  <2>1. gpc \in [GProcs -> GRecs]
    BY <1>2, <1>3, ProcessesAre
  <2>2. \A q \in GProcs : Shaped(q, gpc[q])
    BY <1>4, <1>5, ProcessesAre
  <2>3. GeoTyped
    BY <1>2, <2>1, GeoAssumption DEF GeoTyped, GPoint, Cleared
  <2> QED BY <2>2, <2>3 DEF GeoShape
<1>8. TreeExact
  BY <1>2, <1>6 DEF TreeExact
<1>9. Placed(sorted, byDoc)
  <2>1. DOMAIN <<>> = {} /\ <<>> \in Seq(Entries)
    BY EmptySeq
  <2> QED BY <1>2, <2>1 DEF Placed, Ordered
<1>10. Meets
  BY <1>3, <1>5, ProcessesAre DEF Meets
<1>11. Kept
  <2>1. \A q \in GProcs : gpc[q].alone = {}
    BY <1>3, <1>5
  <2>2. ASSUME NEW q \in GProcs, NEW d \in gpc[q].on PROVE Rebuilt(q, gpc[q], d, Copies(d))
    <3>1. q = GLoader /\ d \in GDocs /\ gpc[q] = g
      BY <1>3, <1>5, <2>2
    <3>2. bucket[d] \in PlaceOf(gdocs[d])
      BY <1>2, <1>6, <3>1, GeoAssumption DEF PlaceOf
    <3> QED BY <1>3, <1>6, <3>1, <3>2 DEF Rebuilt, Copies
  <2>3. \A d \in GDocs : ~Free(d)
    BY <1>3, <1>5, ProcessesAre DEF Free
  <2> QED BY <2>1, <2>2, <2>3 DEF Kept
<1> QED BY <1>7, <1>8, <1>9, <1>10, <1>11 DEF GeoInv

\* A step that leaves all of it alone.
LEMMA GeoStutters ==
  ASSUME GeoInv, UNCHANGED <<gdocs, bucket, points, tree, sorted, byDoc, gpc, adrift>>
  PROVE  GeoInv'
<1>1. GeoShape' /\ TreeExact' /\ Meets'
  BY DEF GeoInv, GeoShape, GeoTyped, Shaped, TreeExact, Meets
<1>2. Placed(sorted, byDoc)' /\ \A e : HashedAt(e)' = HashedAt(e)
  BY HashCleared DEF GeoInv
<1>3. \A d : Copies(d)' = Copies(d)
  BY <1>2 DEF Copies
<1>4. Kept'
  <2>1. /\ \A q \in GProcs : \A d \in gpc[q].alone : Written(gpc[q], Copies(d)', d \notin adrift)
        /\ \A q \in GProcs : \A d \in gpc[q].on \ adrift : Rebuilt(q, gpc[q], d, Copies(d)')
        /\ \A d \in GDocs \ adrift : Free(d) => InStep(Copies(d)')
    BY <1>3 DEF GeoInv, Kept
  <2> QED BY <2>1 DEF Kept, Free, Written, Rebuilt, InStep
<1> QED BY <1>1, <1>2, <1>4 DEF GeoInv

\* Every step keeps the invariant.
LEMMA GeoStep == GeoInv /\ [GeoNext]_geoVars => GeoInv'
<1> SUFFICES ASSUME GeoInv, [GeoNext]_geoVars PROVE GeoInv'
  OBVIOUS
<1>1. CASE GAsk
  BY <1>1, GeoStutters DEF GAsk
<1>2. CASE GRestart
  BY <1>2, Restarts
<1>3. ASSUME NEW c \in GProcs, Rebuild(c) PROVE GeoInv'
  BY <1>3, RebuildViewKeeps, RebuildAddKeeps, RebuildDoneKeeps DEF Rebuild
<1>4. ASSUME NEW c \in GClients, Hook(c) PROVE GeoInv'
  BY <1>4, AddFromMetaKeeps, PutPointKeeps, AddHashKeeps, RemoveTreeKeeps, RemoveHashKeeps, DeletePointKeeps,
     ClearTreeKeeps, ClearHashKeeps, DeletePointsKeeps DEF Hook
<1>5. ASSUME NEW c \in GClients, NEW d \in GDocs, NEW m \in GPlaces \cup {Postcode, NoPlace}, GWrite(c, d, m)
      PROVE  GeoInv'
  BY <1>5, WriteBegins
<1>6. ASSUME NEW c \in GClients, NEW d \in GDocs, NEW m \in {NoPlace, NoGDoc}, GWriteUnhooked(c, d, m)
      PROVE  GeoInv'
  BY <1>6, Unhooked
<1>7. ASSUME NEW c \in GClients, NEW d \in GDocs, GDelete(c, d) PROVE GeoInv'
  BY <1>7, DeleteBegins
<1>8. ASSUME NEW c \in GClients, GDeleteCollection(c) PROVE GeoInv'
  BY <1>8, DeleteCollectionBegins
<1>9. ASSUME NEW c \in GClients, NEW hash \in BOOLEAN, NEW load \in BOOLEAN, GReindex(c, hash, load) PROVE GeoInv'
  BY <1>9, ReindexBegins
<1>10. CASE UNCHANGED geoVars
  BY <1>10, GeoStutters DEF geoVars
<1> QED BY <1>1, <1>2, <1>3, <1>4, <1>5, <1>6, <1>7, <1>8, <1>9, <1>10 DEF GeoNext

\* The invariant implies what is claimed of the tree, the slice and the places.
LEMMA GeoInvSound == GeoInv => TreeExact /\ SliceExact /\ PlacesSettled
<1> SUFFICES ASSUME GeoInv PROVE TreeExact /\ SliceExact /\ PlacesSettled
  OBVIOUS
<1>1. SliceExact
  <2>1. Placed(sorted, byDoc)
    BY DEF GeoInv
  <2>2. \A i \in DOMAIN sorted : sorted[i] \in Entries
    BY <2>1, ElementOfSeq, LenProperties DEF Placed
  <2>3. \A i \in DOMAIN sorted : sorted[i].hash = GeohashEncode(sorted[i].at, Precision)
    BY <2>2 DEF Entries
  <2> QED BY <2>1, <2>3 DEF SliceExact, Placed
<1>2. PlacesSettled
  <2> SUFFICES ASSUME NEW d \in GDocs \ adrift, \A p \in GProcs : d \notin gpc[p].on
               PROVE  /\ points[d] = bucket[d] /\ HashedAt(d) = bucket[d]
                      /\ bucket[d] \in CASE gdocs[d] = NoGDoc -> {NoPlace}
                                         [] gdocs[d] = Postcode -> {PostcodeAt, NoPlace}
                                         [] OTHER -> {gdocs[d]}
    BY DEF PlacesSettled
  <2>1. InStep(Copies(d))
    BY DEF GeoInv, Kept, Free
  <2>2. points[d] = bucket[d] /\ HashedAt(d) = bucket[d] /\ bucket[d] \in PlaceOf(gdocs[d])
    BY <2>1 DEF InStep, Copies
  <2>3. NoGDoc # Postcode
    BY GeoAssumption
  <2>4. PlaceOf(gdocs[d]) = CASE gdocs[d] = NoGDoc -> {NoPlace}
                              [] gdocs[d] = Postcode -> {PostcodeAt, NoPlace}
                              [] OTHER -> {gdocs[d]}
    BY <2>3 DEF PlaceOf
  <2> QED BY <2>2, <2>4
<1> QED BY <1>1, <1>2 DEF GeoInv

-----------------------------------------------------------------------------
(* Functions defined by recursion over 0..N. *)

\* What holds of 0 and, with a number, of the next one, holds up to the bound.
LEMMA UpToBound ==
  ASSUME NEW N \in Nat, NEW G \in SUBSET (0..N), 0 \in G, \A n \in 1..N : n - 1 \in G => n \in G
  PROVE  \A n \in 0..N : n \in G
<1> DEFINE S == G \cup {n \in Nat : n > N}
<1>1. S = Nat
  <2>1. S \in SUBSET Nat /\ 0 \in S
    <3>1. \A n \in G : n \in Nat
      <4>1. \A n \in G : n \in 0..N
        OBVIOUS
      <4> QED BY <4>1
    <3> QED BY <3>1
  <2>2. ASSUME NEW n \in S PROVE n + 1 \in S
    <3>1. n \in Nat
      BY <2>1
    <3>2. n \in G => n \in 0..N
      OBVIOUS
    <3>3. CASE n + 1 > N
      BY <3>1, <3>3
    <3>4. CASE ~(n + 1 > N)
      <4>1. n + 1 \in 1..N /\ (n + 1) - 1 = n /\ n \in G
        BY <3>1, <3>4
      <4>2. n + 1 \in G
        BY <4>1
      <4> QED BY <4>2
    <3> QED BY <3>3, <3>4
  <2> HIDE DEF S
  <2> QED BY <2>1, <2>2, AllNumbers
<1> QED BY <1>1

Iterated(N, S, x, step, f) == f \in [0..N -> S] /\ f[0] = x /\ \A n \in 1..N : f[n] = step[<<n, f[n - 1]>>]

\* Such a function exists.
LEMMA Iterates ==
  ASSUME NEW N \in Nat, NEW S, NEW x \in S, NEW step \in [(1..N) \X S -> S]
  PROVE  \E f : Iterated(N, S, x, step, f)
<1> DEFINE Long(k, f) == f[0] = x /\ \A n \in 1..k : f[n] = step[<<n, f[n - 1]>>]
           G == {k \in 0..N : \E f \in [0..k -> S] : Long(k, f)}
<1>1. 0 \in G
  <2>1. [n \in 0..0 |-> x] \in [0..0 -> S] /\ Long(0, [n \in 0..0 |-> x])
    OBVIOUS
  <2>2. 0 \in 0..N
    OBVIOUS
  <2> HIDE DEF Long
  <2> QED BY <2>1, <2>2
<1>2. ASSUME NEW k \in 1..N, k - 1 \in G PROVE k \in G
  <2>1. PICK f \in [0..k - 1 -> S] : Long(k - 1, f)
    BY <1>2
  <2>2. k \in Nat /\ k - 1 \in 0..k - 1 /\ f[k - 1] \in S /\ step[<<k, f[k - 1]>>] \in S
    <3>1. k \in Nat /\ k - 1 \in 0..k - 1
      OBVIOUS
    <3>2. f[k - 1] \in S
      BY <3>1, <2>1
    <3>3. <<k, f[k - 1]>> \in (1..N) \X S
      BY <3>2
    <3> QED BY <3>1, <3>2, <3>3
  <2>3. PICK g : g = [n \in 0..k |-> IF n = k THEN step[<<k, f[k - 1]>>] ELSE f[n]]
    OBVIOUS
  <2>4. g \in [0..k -> S] /\ \A n \in 0..k - 1 : g[n] = f[n]
    <3>1. ASSUME NEW n \in 0..k, n # k PROVE f[n] \in S
      <4>1. n \in 0..k - 1
        BY <2>2, <3>1
      <4> QED BY <4>1, <2>1
    <3>2. \A n \in 0..k : (IF n = k THEN step[<<k, f[k - 1]>>] ELSE f[n]) \in S
      BY <2>2, <3>1
    <3>3. \A n \in 0..k - 1 : n \in 0..k /\ n # k
      BY <2>2
    <3> QED BY <2>3, <3>2, <3>3
  <2>5. ASSUME NEW n \in 1..k PROVE g[n] = step[<<n, g[n - 1]>>]
    <3>1. n - 1 \in 0..k - 1
      BY <2>2
    <3>2. CASE n = k
      <4>1. g[k] = step[<<k, f[k - 1]>>]
        <5>1. k \in 0..k
          BY <2>2
        <5> QED BY <5>1, <2>3
      <4>2. g[k - 1] = f[k - 1]
        BY <2>2, <2>4
      <4> QED BY <4>1, <4>2, <3>2
    <3>3. CASE n # k
      <4>1. n \in 1..k - 1 /\ n \in 0..k - 1
        BY <2>2, <3>3
      <4> QED BY <4>1, <3>1, <2>1, <2>4
    <3> QED BY <3>2, <3>3
  <2>6. g[0] = x
    <3>1. 0 \in 0..k - 1
      BY <2>2
    <3> QED BY <3>1, <2>1, <2>4
  <2> QED BY <2>4, <2>5, <2>6
<1>3. N \in G
  <2>1. G \in SUBSET (0..N) /\ N \in 0..N
    OBVIOUS
  <2> HIDE DEF G
  <2> QED BY <1>1, <1>2, <2>1, UpToBound
<1> QED BY <1>3 DEF Iterated

-----------------------------------------------------------------------------
(* The bits of a geohash. *)

\* Powers of two.
LEMMA DoubledIs ==
  /\ Doubled \in [0..Precision -> Nat \ {0}] /\ Doubled[0] = 1
  /\ \A n \in 1..Precision : Doubled[n] = 2 * Doubled[n - 1]
<1> DEFINE Does(f) == f = [n \in 0..Precision |-> IF n = 0 THEN 1 ELSE 2 * f[n - 1]]
<1>1. Precision \in Nat \ {0}
  BY GeoAssumption
<1> DEFINE Positive == Nat \ {0}
<1>2. PICK step : step = [a \in (1..Precision) \X Positive |-> 2 * a[2]]
  OBVIOUS
<1>3. step \in [(1..Precision) \X Positive -> Positive]
  BY <1>2
<1>4. PICK f \in [0..Precision -> Positive] : f[0] = 1 /\ \A n \in 1..Precision : f[n] = step[<<n, f[n - 1]>>]
  <2>1. 1 \in Positive /\ Precision \in Nat
    BY <1>1
  <2> HIDE DEF Positive
  <2>2. \E f : Iterated(Precision, Positive, 1, step, f)
    BY <1>3, <2>1, Iterates
  <2> QED BY <2>2 DEF Iterated
<1>5. ASSUME NEW n \in 1..Precision PROVE f[n] = 2 * f[n - 1]
  <2>1. n - 1 \in 0..Precision
    BY <1>1
  <2>2. <<n, f[n - 1]>> \in (1..Precision) \X (Nat \ {0})
    BY <2>1, <1>4
  <2> QED BY <2>2, <1>2, <1>4
<1>6. Does(f)
  <2>1. \A n \in 0..Precision : f[n] = IF n = 0 THEN 1 ELSE 2 * f[n - 1]
    <3>1. \A n \in 0..Precision : n = 0 \/ n \in 1..Precision
      BY <1>1
    <3> QED BY <3>1, <1>4, <1>5
  <2>2. f = [n \in 0..Precision |-> f[n]]
    BY <1>4
  <2> QED BY <2>1, <2>2
<1>7. Does(Doubled)
  <2>1. Doubled = CHOOSE g : Does(g)
    BY DEF Doubled
  <2> HIDE DEF Does
  <2> QED BY <1>6, <2>1
<1>8. /\ DOMAIN Doubled = 0..Precision
      /\ \A n \in 0..Precision : Doubled[n] = IF n = 0 THEN 1 ELSE 2 * Doubled[n - 1]
  <2>1. PICK g : g = Doubled
    OBVIOUS
  <2>2. g = [n \in 0..Precision |-> IF n = 0 THEN 1 ELSE 2 * g[n - 1]]
    BY <1>7, <2>1
  <2>3. DOMAIN g = 0..Precision /\ \A n \in 0..Precision : g[n] = IF n = 0 THEN 1 ELSE 2 * g[n - 1]
    BY <2>2
  <2> QED BY <2>1, <2>3
<1>9. Doubled[0] = 1 /\ \A n \in 1..Precision : Doubled[n] = 2 * Doubled[n - 1]
  <2>1. 0 \in 0..Precision /\ \A n \in 1..Precision : n \in 0..Precision /\ n # 0
    BY <1>1
  <2> QED BY <2>1, <1>8
<1>10. \A n \in 0..Precision : Doubled[n] \in Nat \ {0}
  <2> DEFINE G == {n \in 0..Precision : Doubled[n] \in Nat \ {0}}
  <2>1. 0 \in G
    BY <1>9, <1>1
  <2>2. ASSUME NEW n \in 1..Precision, n - 1 \in G PROVE n \in G
    <3>1. Doubled[n - 1] \in Nat \ {0} /\ n \in 0..Precision
      BY <1>1, <2>2
    <3> QED BY <3>1, <1>9
  <2>3. G \in SUBSET (0..Precision)
    OBVIOUS
  <2> HIDE DEF G
  <2>4. \A n \in 0..Precision : n \in G
    BY <1>1, <2>1, <2>2, <2>3, UpToBound
  <2> QED BY <2>4 DEF G
<1>11. Doubled = [n \in 0..Precision |-> Doubled[n]]
  BY <1>7
<1> QED BY <1>9, <1>10, <1>11

\* One halving of a cell towards v.
Half(v, of) == LET mid == (of[1] + of[2]) \div 2 IN IF v >= mid THEN <<mid, of[2]>> ELSE <<of[1], mid>>
Pairs == Int \X Int

\* A half of a cell.
LEMMA HalfIs ==
  ASSUME NEW v \in Int, NEW of \in Pairs
  PROVE  Half(v, of) \in Pairs
<1>1. (of[1] + of[2]) \div 2 \in Int /\ of[1] \in Int /\ of[2] \in Int
  BY DEF Pairs
<1> QED BY <1>1 DEF Half, Pairs

\* The cells are halved one after another.
LEMMA HalvedIs ==
  ASSUME NEW v \in Int
  PROVE  /\ Halved(v)[0] = <<0, Side>>
         /\ \A n \in 0..Precision : Halved(v)[n] \in Pairs
         /\ \A n \in 1..Precision : Halved(v)[n] = Half(v, Halved(v)[n - 1])
<1> DEFINE Does(f) == f = [n \in 0..Precision |->
                             IF n = 0 THEN <<0, Side>>
                             ELSE LET of == f[n - 1]
                                      mid == (of[1] + of[2]) \div 2
                                  IN IF v >= mid THEN <<mid, of[2]>> ELSE <<of[1], mid>>]
<1>1. Precision \in Nat /\ <<0, Side>> \in Pairs
  <2>1. Precision \in Nat /\ Precision \in 0..Precision
    BY GeoAssumption
  <2>2. Side \in Nat
    BY <2>1, DoubledIs DEF Side
  <2> QED BY <2>1, <2>2 DEF Pairs
<1>2. PICK step : step = [a \in (1..Precision) \X Pairs |-> Half(v, a[2])]
  OBVIOUS
<1>3. step \in [(1..Precision) \X Pairs -> Pairs]
  <2>1. \A a \in (1..Precision) \X Pairs : Half(v, a[2]) \in Pairs
    BY HalfIs
  <2> QED BY <1>2, <2>1
<1>4. PICK f : f \in [0..Precision -> Pairs] /\ f[0] = <<0, Side>> /\ \A n \in 1..Precision : f[n] = step[<<n, f[n - 1]>>]
  <2>1. \E f : Iterated(Precision, Pairs, <<0, Side>>, step, f)
    BY <1>1, <1>3, Iterates
  <2> QED BY <2>1 DEF Iterated
<1>5. ASSUME NEW n \in 1..Precision PROVE f[n] = Half(v, f[n - 1])
  <2>1. n - 1 \in 0..Precision
    BY <1>1
  <2>2. <<n, f[n - 1]>> \in (1..Precision) \X Pairs
    BY <2>1, <1>4
  <2>3. step[<<n, f[n - 1]>>] = Half(v, <<n, f[n - 1]>>[2])
    BY <2>2, <1>2
  <2> QED BY <2>3, <1>4
<1>6. Does(f)
  <2>1. \A n \in 0..Precision : f[n] = IF n = 0 THEN <<0, Side>> ELSE Half(v, f[n - 1])
    <3>1. \A n \in 0..Precision : n = 0 \/ n \in 1..Precision
      BY <1>1
    <3> QED BY <3>1, <1>4, <1>5
  <2>2. f = [n \in 0..Precision |-> f[n]]
    BY <1>4
  <2>3. f = [n \in 0..Precision |-> IF n = 0 THEN <<0, Side>> ELSE Half(v, f[n - 1])]
    BY <2>1, <2>2
  <2> QED BY <2>3 DEF Half
<1>7. Does(Halved(v))
  <2>1. Halved(v) = CHOOSE g : Does(g)
    BY DEF Halved
  <2> HIDE DEF Does
  <2> QED BY <1>6, <2>1
<1>8. \A n \in 0..Precision : Halved(v)[n] = IF n = 0 THEN <<0, Side>> ELSE Half(v, Halved(v)[n - 1])
  <2>1. PICK g : g = Halved(v)
    OBVIOUS
  <2>2. g = [n \in 0..Precision |-> IF n = 0 THEN <<0, Side>> ELSE Half(v, g[n - 1])]
    BY <1>7, <2>1 DEF Half
  <2>3. \A n \in 0..Precision : g[n] = IF n = 0 THEN <<0, Side>> ELSE Half(v, g[n - 1])
    BY <2>2
  <2> QED BY <2>1, <2>3
<1> HIDE DEF Does
<1>9. Halved(v)[0] = <<0, Side>> /\ \A n \in 1..Precision : Halved(v)[n] = Half(v, Halved(v)[n - 1])
  <2>1. 0 \in 0..Precision /\ \A n \in 1..Precision : n \in 0..Precision /\ n # 0
    BY <1>1
  <2> QED BY <2>1, <1>8
<1>10. \A n \in 0..Precision : Halved(v)[n] \in Pairs
  <2> DEFINE G == {n \in 0..Precision : Halved(v)[n] \in Pairs}
  <2>1. 0 \in G
    BY <1>9, <1>1
  <2>2. ASSUME NEW n \in 1..Precision, n - 1 \in G PROVE n \in G
    <3>1. n \in 0..Precision /\ Halved(v)[n - 1] \in Pairs
      BY <1>1, <2>2
    <3> QED BY <3>1, <1>9, HalfIs
  <2>3. G \in SUBSET (0..Precision)
    OBVIOUS
  <2> HIDE DEF G
  <2>4. \A n \in 0..Precision : n \in G
    BY <1>1, <2>1, <2>2, <2>3, UpToBound
  <2> QED BY <2>4 DEF G
<1> QED BY <1>9, <1>10

\* The width of the cells after n halvings.
Width(n) == Doubled[Precision - n]

\* A cell is as wide as two of the next ones.
LEMMA Widths ==
  /\ Precision \in Nat \ {0} /\ \A n \in 0..Precision : Width(n) \in Nat \ {0}
  /\ \A n \in 1..Precision : Width(n - 1) = 2 * Width(n)
  /\ Width(0) = Side
<1>1. Precision \in Nat \ {0}
  BY GeoAssumption
<1>2. ASSUME NEW n \in 0..Precision PROVE Width(n) \in Nat \ {0}
  <2>1. Precision - n \in 0..Precision
    BY <1>1
  <2> QED BY <2>1, DoubledIs DEF Width
<1>3. ASSUME NEW n \in 1..Precision PROVE Width(n - 1) = 2 * Width(n)
  <2>1. Precision - (n - 1) \in 1..Precision /\ (Precision - (n - 1)) - 1 = Precision - n
    BY <1>1
  <2> QED BY <2>1, DoubledIs DEF Width
<1>4. Precision - 0 = Precision
  BY <1>1
<1> QED BY <1>1, <1>2, <1>3, <1>4 DEF Width, Side

\* The middle of a cell.
LEMMA MiddleIs ==
  ASSUME NEW lo \in Int, NEW w \in Nat
  PROVE  (lo + (lo + 2 * w)) \div 2 = lo + w
OBVIOUS

\* Each cell holds v, and is as wide as it should be.
LEMMA CellsHold ==
  ASSUME NEW v \in 0..Side - 1, NEW n \in 0..Precision
  PROVE  LET cell == Halved(v)[n]
         IN cell \in Pairs /\ cell[2] = cell[1] + Width(n) /\ cell[1] <= v /\ v < cell[2]
<1> DEFINE Holds(k) == LET cell == Halved(v)[k]
                       IN cell \in Pairs /\ cell[2] = cell[1] + Width(k) /\ cell[1] <= v /\ v < cell[2]
           G == {k \in 0..Precision : Holds(k)}
<1>1. v \in Int /\ Side \in Nat /\ Precision \in Nat
  <2>1. 0 \in 0..Precision
    BY Widths
  <2> QED BY <2>1, Widths
<1>2. 0 \in G
  <2>1. Halved(v)[0] = <<0, Side>> /\ Width(0) = Side /\ 0 \in 0..Precision
    BY <1>1, HalvedIs, Widths
  <2>2. <<0, Side>> \in Pairs /\ Side = 0 + Side /\ 0 <= v /\ v < Side
    BY <1>1 DEF Pairs
  <2>3. Holds(0)
    BY <2>1, <2>2
  <2> QED BY <2>1, <2>3
<1>3. ASSUME NEW k \in 1..Precision, k - 1 \in G PROVE k \in G
  <2>1. PICK lo \in Int, w \in Nat : /\ Halved(v)[k - 1] = <<lo, lo + 2 * w>> /\ w = Width(k)
                                     /\ lo <= v /\ v < lo + 2 * w
    <3>1. k - 1 \in 0..Precision /\ k \in 0..Precision
      BY <1>1
    <3>2. Width(k) \in Nat /\ Width(k - 1) = 2 * Width(k)
      BY <3>1, Widths
    <3>3. PICK lo \in Int, hi \in Int : Halved(v)[k - 1] = <<lo, hi>>
      BY <1>3 DEF Pairs
    <3>4. hi = lo + Width(k - 1) /\ lo <= v /\ v < hi
      BY <1>3, <3>3
    <3> QED BY <3>2, <3>3, <3>4
  <2>2. Halved(v)[k] = IF v >= lo + w THEN <<lo + w, lo + 2 * w>> ELSE <<lo, lo + w>>
    <3>1. Halved(v)[k] = Half(v, <<lo, lo + 2 * w>>)
      BY <1>1, <2>1, HalvedIs
    <3> QED BY <3>1, MiddleIs DEF Half
  <2>3. k \in 0..Precision
    BY <1>1
  <2>4. CASE v >= lo + w
    <3>1. Halved(v)[k] = <<lo + w, lo + 2 * w>>
      BY <2>2, <2>4
    <3>2. lo + w \in Int /\ lo + 2 * w \in Int /\ lo + 2 * w = (lo + w) + w
      OBVIOUS
    <3>3. Holds(k)
      BY <3>1, <3>2, <2>1, <2>4 DEF Pairs
    <3> QED BY <2>3, <3>3
  <2>5. CASE ~(v >= lo + w)
    <3>1. Halved(v)[k] = <<lo, lo + w>>
      BY <2>2, <2>5
    <3>2. lo + w \in Int /\ v < lo + w
      BY <1>1, <2>5
    <3>3. Holds(k)
      BY <3>1, <3>2, <2>1, <2>5 DEF Pairs
    <3> QED BY <2>3, <3>3
  <2> QED BY <2>4, <2>5
<1>4. n \in G
  <2>1. G \in SUBSET (0..Precision)
    OBVIOUS
  <2> HIDE DEF G
  <2> QED BY <1>1, <1>2, <1>3, <2>1, UpToBound
<1> QED BY <1>4

\* A bit says which half the next cell is.
LEMMA BitsAre ==
  ASSUME NEW v \in Int, NEW n \in 1..Precision
  PROVE  LET of == Halved(v)[n - 1]
             mid == (of[1] + of[2]) \div 2
         IN /\ BitAt(v, n) \in {0, 1} /\ (BitAt(v, n) = 1 <=> v >= mid)
            /\ Halved(v)[n] = IF v >= mid THEN <<mid, of[2]>> ELSE <<of[1], mid>>
<1>1. Halved(v)[n] = Half(v, Halved(v)[n - 1])
  BY HalvedIs
<1> QED BY <1>1 DEF BitAt, Half

\* Numbers in one cell share the cells around it and their bits.
LEMMA CellsAgree ==
  ASSUME NEW v \in 0..Side - 1, NEW u \in 0..Side - 1, NEW n \in 0..Precision,
         Halved(v)[n][1] <= u, u < Halved(v)[n][2]
  PROVE  Halved(u)[n] = Halved(v)[n] /\ \A k \in 1..n : BitAt(u, k) = BitAt(v, k)
<1> DEFINE In(k) == Halved(v)[k][1] <= u /\ u < Halved(v)[k][2]
           Agree(k) == Halved(u)[k] = Halved(v)[k] /\ \A j \in 1..k : BitAt(u, j) = BitAt(v, j)
           G == {k \in 0..Precision : In(k) => Agree(k)}
<1>1. v \in Int /\ u \in Int /\ Side \in Nat /\ Precision \in Nat
  <2>1. 0 \in 0..Precision
    BY Widths
  <2> QED BY <2>1, Widths
<1>2. 0 \in G
  BY <1>1, HalvedIs
<1>3. ASSUME NEW k \in 1..Precision, k - 1 \in G PROVE k \in G
  <2>1. k - 1 \in 0..Precision /\ k \in 0..Precision
    BY <1>1
  <2> SUFFICES ASSUME In(k) PROVE Agree(k)
    BY <2>1
  <2>2. PICK lo \in Int, w \in Nat : Halved(v)[k - 1] = <<lo, lo + 2 * w>> /\ lo <= v /\ v < lo + 2 * w
    <3>1. Width(k) \in Nat /\ Width(k - 1) = 2 * Width(k)
      BY <2>1, Widths
    <3>2. PICK lo \in Int, hi \in Int : Halved(v)[k - 1] = <<lo, hi>>
      <4>1. Halved(v)[k - 1] \in Pairs
        BY <2>1, <1>1, HalvedIs
      <4> QED BY <4>1 DEF Pairs
    <3>3. hi = lo + Width(k - 1) /\ lo <= v /\ v < hi
      BY <2>1, <3>2, CellsHold
    <3> QED BY <3>1, <3>2, <3>3
  <2>3. Halved(v)[k] = IF v >= lo + w THEN <<lo + w, lo + 2 * w>> ELSE <<lo, lo + w>>
    <3>1. Halved(v)[k] = Half(v, <<lo, lo + 2 * w>>)
      BY <1>1, <2>2, HalvedIs
    <3> QED BY <3>1, MiddleIs DEF Half
  <2>4. lo <= u /\ u < lo + 2 * w /\ (u >= lo + w <=> v >= lo + w)
    <3>1. CASE v >= lo + w
      <4>1. Halved(v)[k] = <<lo + w, lo + 2 * w>>
        BY <2>3, <3>1
      <4>2. lo + w <= u /\ u < lo + 2 * w
        BY <4>1
      <4> QED BY <1>1, <4>2, <3>1
    <3>2. CASE ~(v >= lo + w)
      <4>1. Halved(v)[k] = <<lo, lo + w>>
        BY <2>3, <3>2
      <4>2. lo <= u /\ u < lo + w
        BY <4>1
      <4> QED BY <1>1, <4>2, <3>2
    <3> QED BY <3>1, <3>2
  <2>5. Agree(k - 1)
    <3>1. In(k - 1)
      BY <2>2, <2>4
    <3> QED BY <3>1, <1>3
  <2>6. Halved(u)[k] = IF u >= lo + w THEN <<lo + w, lo + 2 * w>> ELSE <<lo, lo + w>>
    <3>1. Halved(u)[k - 1] = <<lo, lo + 2 * w>>
      BY <2>2, <2>5
    <3>2. Halved(u)[k] = Half(u, <<lo, lo + 2 * w>>)
      BY <1>1, <3>1, HalvedIs
    <3> QED BY <3>2, MiddleIs DEF Half
  <2>7. BitAt(u, k) = BitAt(v, k)
    <3>1. Halved(u)[k - 1] = <<lo, lo + 2 * w>>
      BY <2>2, <2>5
    <3>2. BitAt(u, k) = IF u >= lo + w THEN 1 ELSE 0
      BY <3>1, MiddleIs DEF BitAt
    <3>3. BitAt(v, k) = IF v >= lo + w THEN 1 ELSE 0
      BY <2>2, MiddleIs DEF BitAt
    <3> QED BY <3>2, <3>3, <2>4
  <2>8. \A j \in 1..k : j = k \/ j \in 1..k - 1
    BY <1>1
  <2> QED BY <2>3, <2>4, <2>5, <2>6, <2>7, <2>8
<1>4. n \in G
  <2>1. G \in SUBSET (0..Precision)
    OBVIOUS
  <2> HIDE DEF G
  <2> QED BY <1>1, <1>2, <1>3, <2>1, UpToBound
<1> QED BY <1>4

\* A hash has so many characters, each of two bits.
LEMMA HashIs ==
  ASSUME NEW q \in Grid, NEW n \in 1..Precision
  PROVE  /\ GeohashEncode(q, n) \in Seq(0..3) /\ Len(GeohashEncode(q, n)) = n
         /\ \A k \in 1..n : /\ k \in 1..Precision /\ GeohashEncode(q, n)[k] = 2 * BitAt(q[1], k) + BitAt(q[2], k)
                            /\ BitAt(q[1], k) \in {0, 1} /\ BitAt(q[2], k) \in {0, 1}
<1>1. n \in Nat /\ Precision \in Nat /\ q[1] \in Int /\ q[2] \in Int
  BY Widths DEF Grid
<1>2. ASSUME NEW k \in 1..n
      PROVE  k \in 1..Precision /\ BitAt(q[1], k) \in {0, 1} /\ BitAt(q[2], k) \in {0, 1}
  <2>1. k \in 1..Precision
    BY <1>1
  <2> QED BY <1>1, <2>1, BitsAre
<1>3. \A k \in 1..n : 2 * BitAt(q[1], k) + BitAt(q[2], k) \in 0..3
  BY <1>2
<1> QED BY <1>1, <1>2, <1>3 DEF GeohashEncode

\* What the decoding of a hash goes through.
BoxedBy(h, f) ==
  f = [n \in 0..Len(h) |->
         IF n = 0 THEN <<0, Side, 0, Side>>
         ELSE LET b == f[n - 1]
                  x == (b[1] + b[2]) \div 2
                  y == (b[3] + b[4]) \div 2
                  east == h[n] \div 2 = 1
                  north == h[n] % 2 = 1
              IN <<IF east THEN x ELSE b[1], IF east THEN b[2] ELSE x,
                   IF north THEN y ELSE b[3], IF north THEN b[4] ELSE y>>]
\* One step of it.
Boxed(b, c) ==
  LET x == (b[1] + b[2]) \div 2
      y == (b[3] + b[4]) \div 2
      east == c \div 2 = 1
      north == c % 2 = 1
  IN <<IF east THEN x ELSE b[1], IF east THEN b[2] ELSE x,
       IF north THEN y ELSE b[3], IF north THEN b[4] ELSE y>>
BoxAt(q, k) == <<Halved(q[1])[k][1], Halved(q[1])[k][2], Halved(q[2])[k][1], Halved(q[2])[k][2]>>

\* A character takes the cell of a place to its next cell.
LEMMA BoxStep ==
  ASSUME NEW q \in Grid, NEW k \in 1..Precision
  PROVE  Boxed(BoxAt(q, k - 1), 2 * BitAt(q[1], k) + BitAt(q[2], k)) = BoxAt(q, k)
<1>1. PICK x, y, a, b : x = Halved(q[1])[k - 1] /\ y = Halved(q[2])[k - 1] /\ a = BitAt(q[1], k) /\ b = BitAt(q[2], k)
  OBVIOUS
<1>2. q[1] \in Int /\ q[2] \in Int
  BY Widths DEF Grid
<1>3. PICK m, n : m = (x[1] + x[2]) \div 2 /\ n = (y[1] + y[2]) \div 2
  OBVIOUS
<1>4. /\ a \in {0, 1} /\ b \in {0, 1}
      /\ Halved(q[1])[k] = IF a = 1 THEN <<m, x[2]>> ELSE <<x[1], m>>
      /\ Halved(q[2])[k] = IF b = 1 THEN <<n, y[2]>> ELSE <<y[1], n>>
  BY <1>1, <1>2, <1>3, BitsAre
<1>5. (2 * a + b) \div 2 = a /\ (2 * a + b) % 2 = b
  BY <1>4
<1>6. PICK c : c = 2 * a + b
  OBVIOUS
<1>7. Boxed(<<x[1], x[2], y[1], y[2]>>, c)
      = <<IF a = 1 THEN m ELSE x[1], IF a = 1 THEN x[2] ELSE m,
          IF b = 1 THEN n ELSE y[1], IF b = 1 THEN y[2] ELSE n>>
  BY <1>3, <1>5, <1>6 DEF Boxed
<1>8. BoxAt(q, k) = <<IF a = 1 THEN m ELSE x[1], IF a = 1 THEN x[2] ELSE m,
                      IF b = 1 THEN n ELSE y[1], IF b = 1 THEN y[2] ELSE n>>
  <2>1. Halved(q[1])[k][1] = (IF a = 1 THEN m ELSE x[1]) /\ Halved(q[1])[k][2] = (IF a = 1 THEN x[2] ELSE m)
    BY <1>4
  <2>2. Halved(q[2])[k][1] = (IF b = 1 THEN n ELSE y[1]) /\ Halved(q[2])[k][2] = (IF b = 1 THEN y[2] ELSE n)
    BY <1>4
  <2> QED BY <2>1, <2>2 DEF BoxAt
<1>9. BoxAt(q, k - 1) = <<x[1], x[2], y[1], y[2]>>
  BY <1>1 DEF BoxAt
<1> QED BY <1>1, <1>6, <1>7, <1>8, <1>9

\* The decoded cell is that of the place.
LEMMA BBoxIs ==
  ASSUME NEW q \in Grid, NEW n \in 1..Precision
  PROVE  GeohashBBox(GeohashEncode(q, n)) = BoxAt(q, n)
<1>1. PICK h \in Seq(0..3) : h = GeohashEncode(q, n) /\ Len(h) = n
  BY HashIs
<1>2. n \in Nat /\ Precision \in Nat /\ q[1] \in Int /\ q[2] \in Int
  BY Widths DEF Grid
<1>3. PICK g : g = [k \in 0..n |-> BoxAt(q, k)]
  OBVIOUS
<1>4. BoxAt(q, 0) = <<0, Side, 0, Side>>
  BY <1>2, HalvedIs DEF BoxAt
<1>5. ASSUME NEW k \in 1..n PROVE k \in 1..Precision /\ BoxAt(q, k) = Boxed(BoxAt(q, k - 1), h[k])
  BY <1>1, HashIs, BoxStep
<1>6. g = [k \in 0..n |-> IF k = 0 THEN <<0, Side, 0, Side>> ELSE Boxed(g[k - 1], h[k])]
  <2>1. ASSUME NEW k \in 0..n PROVE g[k] = IF k = 0 THEN <<0, Side, 0, Side>> ELSE Boxed(g[k - 1], h[k])
    <3>1. CASE k = 0
      BY <1>3, <1>4, <3>1
    <3>2. CASE k # 0
      <4>1. k \in 1..n /\ k - 1 \in 0..n
        BY <1>2, <3>2
      <4> QED BY <4>1, <1>3, <1>5, <3>2
    <3> QED BY <3>1, <3>2
  <2>2. g = [k \in 0..n |-> g[k]]
    BY <1>3
  <2> QED BY <2>1, <2>2
<1>7. PICK f : f = (CHOOSE e : BoxedBy(h, e)) /\ BoxedBy(h, f)
  <2>1. BoxedBy(h, g)
    BY <1>1, <1>6 DEF BoxedBy, Boxed
  <2> QED BY <2>1
<1>8. f = [k \in 0..n |-> IF k = 0 THEN <<0, Side, 0, Side>> ELSE Boxed(f[k - 1], h[k])]
  BY <1>1, <1>7 DEF BoxedBy, Boxed
<1> DEFINE G == {k \in 0..n : f[k] = g[k]}
<1>9. 0 \in G
  BY <1>2, <1>6, <1>8
<1>10. ASSUME NEW k \in 1..n, k - 1 \in G PROVE k \in G
  <2>1. k \in 0..n /\ k # 0
    BY <1>2
  <2> QED BY <2>1, <1>6, <1>8, <1>10
<1>11. f[n] = BoxAt(q, n)
  <2>1. G \in SUBSET (0..n) /\ n \in 0..n
    BY <1>2
  <2> HIDE DEF G
  <2>2. n \in G
    BY <1>2, <1>9, <1>10, <2>1, UpToBound
  <2> QED BY <2>1, <2>2, <1>3 DEF G
<1>12. GeohashBBox(h) = f[n]
  BY <1>1, <1>7 DEF GeohashBBox, BoxedBy
<1> QED BY <1>1, <1>11, <1>12

-----------------------------------------------------------------------------
(* The answers to circles. *)

\* The length of the prefix that is looked for.
LEMMA CoarseIs ==
  ASSUME NEW r \in Nat
  PROVE  CoarseLen(r) \in 1..Precision
<1> DEFINE Fits(n) == n = 1 \/ Width(n) > 4 * r
           Lens == {n \in 1..Precision : Fits(n)}
           Back == {k \in Nat : Precision - k \in Lens}
<1>1. Precision \in Nat \ {0} /\ \A n \in 1..Precision : Width(n) \in Nat
  <2>1. \A n \in 1..Precision : n \in 0..Precision
    BY Widths
  <2> QED BY <2>1, Widths
<1>2. 1 \in Lens /\ Lens \in SUBSET (1..Precision)
  BY <1>1
<1>3. Back # {} /\ Back \in SUBSET Nat
  <2>1. Precision - 1 \in Nat /\ Precision - (Precision - 1) = 1
    BY <1>1
  <2> QED BY <2>1, <1>2
<1>4. PICK k \in Back : \A j \in Back : k <= j
  <2> HIDE DEF Back
  <2> QED BY <1>3, LeastNumber
<1>5. PICK n \in Lens : n = Precision - k /\ k \in Nat
  OBVIOUS
<1>6. ASSUME NEW m \in n + 1..Precision PROVE Width(m) <= 4 * r
  <2>1. m \in 1..Precision /\ m # 1 /\ Precision - m \in Nat /\ Precision - (Precision - m) = m /\ Precision - m < k
    BY <1>1, <1>2, <1>5
  <2>2. Precision - m \notin Back
    BY <2>1, <1>4
  <2>3. m \notin Lens
    BY <2>1, <2>2
  <2>4. ~(Width(m) > 4 * r) /\ Width(m) \in Nat
    BY <1>1, <2>1, <2>3
  <2> QED BY <2>4
<1>7. \E l \in 1..Precision : /\ l = 1 \/ Doubled[Precision - l] > 4 * r
                              /\ \A m \in l + 1..Precision : Doubled[Precision - m] <= 4 * r
  <2>1. n \in 1..Precision /\ (n = 1 \/ Doubled[Precision - n] > 4 * r)
    BY <1>2, <1>5 DEF Width
  <2>2. \A m \in n + 1..Precision : Doubled[Precision - m] <= 4 * r
    BY <1>6 DEF Width
  <2> QED BY <2>1, <2>2
<1> QED BY <1>7 DEF CoarseLen

\* The greater number has the greater square.
LEMMA SquaresGrow ==
  ASSUME NEW a \in Int, NEW r \in Nat, a > r \/ -a > r
  PROVE  a * a > r * r
<1>1. CASE a > r
  <2>1. PICK d \in Nat \ {0} : a = r + d
    <3>1. a - r \in Nat \ {0} /\ a = r + (a - r)
      BY <1>1
    <3> QED BY <3>1
  <2>2. a * a = r * r + 2 * (r * d) + d * d /\ r * d >= 0 /\ d * d > 0
    BY <2>1
  <2> QED BY <2>2
<1>2. CASE -a > r
  <2>1. PICK d \in Nat \ {0} : -a = r + d
    <3>1. -a - r \in Nat \ {0} /\ -a = r + (-a - r)
      BY <1>2
    <3> QED BY <3>1
  <2>2. PICK b \in Int : b = -a /\ b = r + d
    BY <2>1
  <2>3. b * b = r * r + 2 * (r * d) + d * d /\ r * d >= 0 /\ d * d > 0
    BY <2>2
  <2>4. a = -b /\ a * a = b * b
    BY <2>2
  <2> QED BY <2>3, <2>4
<1> QED BY <1>1, <1>2

\* A point of a circle is not further from its centre along an axis than the radius.
LEMMA NoFurther ==
  ASSUME NEW p \in Grid, NEW q \in Grid, NEW r \in Nat, Distance(p, q) <= r * r
  PROVE  p[2] >= q[2] - r /\ p[2] <= q[2] + r
<1>1. p[1] \in Int /\ p[2] \in Int /\ q[1] \in Int /\ q[2] \in Int /\ Side \in Int
  <2>1. 0 \in 0..Precision
    BY Widths
  <2> QED BY <2>1, Widths DEF Grid
<1>2. PICK s \in Int, y \in Int : Distance(p, q) = s * s + y * y /\ y = p[2] - q[2]
  <2>1. Abs(p[1] - q[1]) \in Int
    BY <1>1 DEF Abs
  <2>2. PICK s \in Int : s = LET x == Abs(p[1] - q[1]) IN IF 2 * x > Side THEN Side - x ELSE x
    BY <1>1, <2>1
  <2>3. p[2] - q[2] \in Int
    BY <1>1
  <2>4. Distance(p, q) = s * s + (p[2] - q[2]) * (p[2] - q[2])
    BY <2>2 DEF Distance
  <2> QED BY <2>3, <2>4
<1>3. s * s >= 0 /\ s * s \in Int /\ y * y \in Int /\ r * r \in Int
  OBVIOUS
<1>4. ~(y * y > r * r)
  BY <1>2, <1>3
<1>5. ~(y > r) /\ ~(-y > r)
  BY <1>4, SquaresGrow
<1> QED BY <1>1, <1>2, <1>5

\* The two lines are the same: within the radius, and between.
LEMMA AbsWithin ==
  ASSUME NEW a \in Int, NEW b \in Int, NEW r \in Nat
  PROVE  Abs(a - b) <= r <=> a >= b - r /\ a <= b + r
BY DEF Abs

\* A point of the cell has the prefix of the cell.
LEMMA PrefixFound ==
  ASSUME NEW p \in Grid, NEW q \in Grid, NEW n \in 1..Precision,
         LET cell == GeohashBBox(GeohashEncode(q, n))
         IN InBox(p, <<cell[1], cell[2] - 1, cell[3], cell[4] - 1>>)
  PROVE  LET prefix == GeohashEncode(q, n)
             after == [prefix EXCEPT ![Len(prefix)] = @ + 1]
             h == GeohashEncode(p, Precision)
         IN ~HashLess(h, prefix) /\ HashLess(h, after)
<1>1. n \in Nat /\ Precision \in 1..Precision /\ n \in 0..Precision /\ n \in 1..n /\ Side \in Nat
  <2>1. 0 \in 0..Precision
    BY Widths
  <2> QED BY <2>1, Widths
<1>2. /\ q[1] \in 0..Side - 1 /\ q[2] \in 0..Side - 1 /\ p[1] \in 0..Side - 1 /\ p[2] \in 0..Side - 1
  BY DEF Grid
<1>3. PICK prefix, h : prefix = GeohashEncode(q, n) /\ h = GeohashEncode(p, Precision)
  OBVIOUS
<1>4. /\ Halved(q[1])[n][1] <= p[1] /\ p[1] < Halved(q[1])[n][2]
      /\ Halved(q[2])[n][1] <= p[2] /\ p[2] < Halved(q[2])[n][2]
  <2>1. PICK cell : cell = BoxAt(q, n)
    OBVIOUS
  <2>2. p[1] >= cell[1] /\ p[1] <= cell[2] - 1 /\ p[2] >= cell[3] /\ p[2] <= cell[4] - 1
    BY <2>1, BBoxIs DEF InBox
  <2>3. /\ cell[1] = Halved(q[1])[n][1] /\ cell[2] = Halved(q[1])[n][2]
        /\ cell[3] = Halved(q[2])[n][1] /\ cell[4] = Halved(q[2])[n][2]
    BY <2>1 DEF BoxAt
  <2>4. cell[1] \in Int /\ cell[2] \in Int /\ cell[3] \in Int /\ cell[4] \in Int
    <3>1. Halved(q[1])[n] \in Pairs /\ Halved(q[2])[n] \in Pairs
      BY <1>1, <1>2, CellsHold
    <3> QED BY <3>1, <2>3 DEF Pairs
  <2> QED BY <1>2, <2>2, <2>3, <2>4
<1>5. ASSUME NEW k \in 1..n PROVE h[k] = prefix[k] /\ k \in 1..Precision
  <2>1. BitAt(p[1], k) = BitAt(q[1], k)
    BY <1>1, <1>2, <1>4, CellsAgree
  <2>2. BitAt(p[2], k) = BitAt(q[2], k)
    BY <1>1, <1>2, <1>4, CellsAgree
  <2>3. k \in 1..Precision /\ prefix[k] = 2 * BitAt(q[1], k) + BitAt(q[2], k)
    BY <1>3, HashIs
  <2>4. h[k] = 2 * BitAt(p[1], k) + BitAt(p[2], k)
    BY <1>1, <1>3, <2>3, HashIs
  <2> QED BY <2>1, <2>2, <2>3, <2>4
<1>6. /\ prefix \in Seq(0..3) /\ Len(prefix) = n /\ DOMAIN prefix = 1..n /\ DOMAIN h = 1..Precision
      /\ \A k \in 1..n : prefix[k] \in Nat
  <2>1. prefix \in Seq(0..3) /\ Len(prefix) = n
    BY <1>3, HashIs
  <2>2. h \in Seq(0..3) /\ Len(h) = Precision
    BY <1>1, <1>3, HashIs
  <2>3. DOMAIN prefix = 1..n /\ DOMAIN h = 1..Precision
    BY <2>1, <2>2, LenProperties
  <2>4. \A k \in 1..n : prefix[k] \in 0..3
    BY <2>1, ElementOfSeq
  <2> QED BY <2>1, <2>3, <2>4
<1>7. ~HashLess(h, prefix)
  <2>1. ASSUME NEW i \in 1..n PROVE i \in DOMAIN h /\ ~(h[i] < prefix[i])
    BY <1>5, <1>6
  <2> QED BY <2>1, <1>6 DEF HashLess
<1>8. HashLess(h, [prefix EXCEPT ![Len(prefix)] = @ + 1])
  <2>1. PICK after : after = [prefix EXCEPT ![n] = @ + 1]
    OBVIOUS
  <2>2. n \in DOMAIN after /\ after[n] = prefix[n] + 1 /\ \A j \in 1..n - 1 : after[j] = prefix[j]
    <3>1. \A j \in 1..n - 1 : j \in 1..n /\ j # n
      BY <1>1
    <3> QED BY <1>1, <1>6, <2>1, <3>1
  <2>3. h[n] < after[n]
    BY <1>1, <1>5, <1>6, <2>2
  <2>4. \A j \in 1..n - 1 : j \in DOMAIN h /\ h[j] = after[j]
    <3>1. \A j \in 1..n - 1 : j \in 1..n
      BY <1>1
    <3> QED BY <1>5, <1>6, <2>2, <3>1
  <2>5. HashLess(h, after)
    BY <2>2, <2>3, <2>4 DEF HashLess
  <2> QED BY <1>6, <2>1, <2>5
<1> QED BY <1>3, <1>7, <1>8

\* Circles are answered as they should be.
LEMMA CircleSound ==
  ASSUME NEW q \in Grid, NEW r \in 1..Side, look = <<"circle", q, r>>
  PROVE  CircleAnswered
<1> DEFINE inside == {p \in Grid : Distance(p, q) <= r * r}
           cell == GeohashBBox(GeohashEncode(q, CoarseLen(r)))
<1>1. Side \in Nat /\ r \in Nat
  <2>1. 0 \in 0..Precision
    BY Widths
  <2>2. Side \in Nat
    BY <2>1, Widths
  <2> QED BY <2>2
<1>2. q[1] \in 0..Side - 1 /\ q[2] \in 0..Side - 1 /\ \A p \in Grid : p[1] \in Int /\ p[2] \in Int
  BY DEF Grid
<1>3. TreeSearch(Grid, q, r) = {p \in inside : Abs(p[1] - q[1]) <= r}
  <2>1. ASSUME NEW p \in Grid, Distance(p, q) <= r * r
        PROVE  InBox(p, <<q[1] - r, q[1] + r, q[2] - r, q[2] + r>>) <=> Abs(p[1] - q[1]) <= r
    <3>1. p[2] >= q[2] - r /\ p[2] <= q[2] + r
      BY <1>1, <2>1, NoFurther
    <3>2. Abs(p[1] - q[1]) <= r <=> p[1] >= q[1] - r /\ p[1] <= q[1] + r
      <4>1. p[1] \in Int /\ q[1] \in Int
        BY <1>2
      <4> QED BY <1>1, <4>1, AbsWithin
    <3> QED BY <3>1, <3>2 DEF InBox
  <2> QED BY <2>1 DEF TreeSearch
<1>4. HashSearch(Grid, q, r) \subseteq inside
  BY DEF HashSearch, SearchPrefix
<1>5. CoarseLen(r) \in 1..Precision
  BY <1>1, CoarseIs
<1>6. ASSUME NEW p \in inside, InBox(p, <<cell[1], cell[2] - 1, cell[3], cell[4] - 1>>)
      PROVE  p \in HashSearch(Grid, q, r)
  <2>1. LET prefix == GeohashEncode(q, CoarseLen(r))
            after == [prefix EXCEPT ![Len(prefix)] = @ + 1]
            h == GeohashEncode(p, Precision)
        IN ~HashLess(h, prefix) /\ HashLess(h, after)
    <3>1. p \in Grid
      OBVIOUS
    <3> QED BY <3>1, <1>5, <1>6, PrefixFound
  <2> QED BY <2>1 DEF HashSearch, SearchPrefix
<1>7. ASSUME NEW n \in 1..Precision
      PROVE  LET b == GeohashBBox(GeohashEncode(q, n))
             IN InBox(q, <<b[1], b[2] - 1, b[3], b[4] - 1>>) /\ b[2] - b[1] = Doubled[Precision - n]
  <2>1. n \in 0..Precision
    BY Widths
  <2>2. PICK x \in Pairs, y \in Pairs : /\ x = Halved(q[1])[n] /\ y = Halved(q[2])[n]
                                        /\ x[2] = x[1] + Width(n) /\ x[1] <= q[1] /\ q[1] < x[2]
                                        /\ y[1] <= q[2] /\ q[2] < y[2]
    BY <1>2, <2>1, CellsHold
  <2>3. x[1] \in Int /\ x[2] \in Int /\ y[1] \in Int /\ y[2] \in Int /\ Width(n) \in Int
    BY <2>1, Widths DEF Pairs
  <2>4. GeohashBBox(GeohashEncode(q, n)) = <<x[1], x[2], y[1], y[2]>>
    BY <2>2, BBoxIs DEF BoxAt
  <2>5. x[2] - x[1] = Doubled[Precision - n]
    BY <2>2, <2>3 DEF Width
  <2>6. InBox(q, <<x[1], x[2] - 1, y[1], y[2] - 1>>)
    BY <1>2, <2>2, <2>3 DEF InBox
  <2> QED BY <2>4, <2>5, <2>6
<1>8. look[2] = q /\ look[3] = r
  OBVIOUS
<1> HIDE DEF inside, cell
<1>9. /\ TreeSearch(Grid, q, r) = {p \in inside : Abs(p[1] - q[1]) <= r}
      /\ HashSearch(Grid, q, r) \subseteq inside
      /\ \A p \in inside : InBox(p, <<cell[1], cell[2] - 1, cell[3], cell[4] - 1>>) =>
            p \in HashSearch(Grid, q, r)
      /\ \A n \in 1..Precision :
            LET b == GeohashBBox(GeohashEncode(q, n))
            IN InBox(q, <<b[1], b[2] - 1, b[3], b[4] - 1>>) /\ b[2] - b[1] = Doubled[Precision - n]
  BY <1>3, <1>4, <1>6, <1>7
<1> QED BY <1>8, <1>9 DEF CircleAnswered, inside, cell

-----------------------------------------------------------------------------
(* Crossings of a ray. *)

OddUpto(E, k) == Cardinality(E \cap (1..k)) % 2 = 1

\* One more member makes an even number odd.
LEMMA OddMore ==
  ASSUME NEW E, NEW k \in Nat
  PROVE  OddUpto(E, k + 1) <=> ~(OddUpto(E, k) <=> k + 1 \in E)
<1>1. PICK C : C = E \cap (1..k)
  OBVIOUS
<1>2. IsFiniteSet(C) /\ Cardinality(C) \in Nat /\ k + 1 \notin C
  <2>1. IsFiniteSet(1..k)
    BY FS_Interval
  <2>2. IsFiniteSet(C)
    BY <1>1, <2>1, FS_Subset
  <2> QED BY <1>1, <2>2, FS_CardinalityType
<1>3. 1..k + 1 = (1..k) \cup {k + 1}
  OBVIOUS
<1>4. CASE k + 1 \in E
  <2>1. E \cap (1..k + 1) = C \cup {k + 1}
    BY <1>1, <1>3, <1>4
  <2>2. Cardinality(C \cup {k + 1}) = Cardinality(C) + 1
    BY <1>2, FS_AddElement
  <2>3. PICK m \in Nat : m = Cardinality(C)
    BY <1>2
  <2>4. (m + 1) % 2 = 1 <=> ~(m % 2 = 1)
    OBVIOUS
  <2> QED BY <1>1, <1>4, <2>1, <2>2, <2>3, <2>4 DEF OddUpto
<1>5. CASE k + 1 \notin E
  <2>1. E \cap (1..k + 1) = C
    BY <1>1, <1>3, <1>5
  <2> QED BY <1>1, <1>5, <2>1 DEF OddUpto
<1> QED BY <1>4, <1>5

\* The parity of up to four members.
LEMMA OddOf ==
  ASSUME NEW E
  PROVE  /\ OddUpto(E, 3) <=> ~(~(1 \in E <=> 2 \in E) <=> 3 \in E)
         /\ OddUpto(E, 4) <=> ~(OddUpto(E, 3) <=> 4 \in E)
<1>1. ~OddUpto(E, 0)
  <2>1. E \cap (1..0) = {} /\ Cardinality({}) = 0
    BY FS_EmptySet
  <2> QED BY <2>1 DEF OddUpto
<1>2. /\ OddUpto(E, 0 + 1) <=> ~(OddUpto(E, 0) <=> 0 + 1 \in E)
      /\ OddUpto(E, 1 + 1) <=> ~(OddUpto(E, 1) <=> 1 + 1 \in E)
      /\ OddUpto(E, 2 + 1) <=> ~(OddUpto(E, 2) <=> 2 + 1 \in E)
      /\ OddUpto(E, 3 + 1) <=> ~(OddUpto(E, 3) <=> 3 + 1 \in E)
  BY OddMore
<1>3. 0 + 1 = 1 /\ 1 + 1 = 2 /\ 2 + 1 = 3 /\ 3 + 1 = 4
  OBVIOUS
<1> QED BY <1>1, <1>2, <1>3

\* Whether the ray from p crosses each edge of a triangle, or of a ring of four.
LEMMA RingIs ==
  ASSUME NEW p, NEW V, NEW a \in V, NEW b \in V, NEW c \in V
  PROVE  /\ PointInRing(p, <<a, b, c>>) <=> ~(~(Crosses(p, a, c) <=> Crosses(p, b, a)) <=> Crosses(p, c, b))
         /\ \A v \in [1..4 -> V] :
              PointInRing(p, v) <=> ~(~(~(Crosses(p, v[1], v[4]) <=> Crosses(p, v[2], v[1])) <=> Crosses(p, v[3], v[2]))
                                      <=> Crosses(p, v[4], v[3]))
<1>1. PointInRing(p, <<a, b, c>>) <=> ~(~(Crosses(p, a, c) <=> Crosses(p, b, a)) <=> Crosses(p, c, b))
  <2>1. PICK v : v = <<a, b, c>>
    OBVIOUS
  <2>2. Len(v) = 3 /\ v[1] = a /\ v[2] = b /\ v[3] = c
    BY <2>1
  <2>3. PICK E : E = {i \in 1..3 : Crosses(p, v[i], v[IF i = 1 THEN 3 ELSE i - 1])}
    OBVIOUS
  <2>4. E \cap (1..3) = E
    BY <2>3
  <2>5. PointInRing(p, v) <=> OddUpto(E, 3)
    <3>1. PICK n : n = Len(v)
      OBVIOUS
    <3>2. PointInRing(p, v) <=> n >= 3 /\ Cardinality({i \in 1..n : Crosses(p, v[i], v[IF i = 1 THEN n ELSE i - 1])}) % 2 = 1
      BY <3>1 DEF PointInRing
    <3>3. n = 3 /\ 3 >= 3
      BY <2>2, <3>1
    <3>4. PointInRing(p, v) <=> Cardinality(E) % 2 = 1
      BY <2>3, <3>2, <3>3
    <3> QED BY <2>4, <3>4 DEF OddUpto
  <2>6. (1 \in E <=> Crosses(p, v[1], v[3])) /\ (2 \in E <=> Crosses(p, v[2], v[1])) /\ (3 \in E <=> Crosses(p, v[3], v[2]))
    BY <2>3
  <2> QED BY <2>1, <2>2, <2>5, <2>6, OddOf
<1>2. ASSUME NEW v \in [1..4 -> V]
      PROVE  PointInRing(p, v) <=> ~(~(~(Crosses(p, v[1], v[4]) <=> Crosses(p, v[2], v[1])) <=> Crosses(p, v[3], v[2]))
                                     <=> Crosses(p, v[4], v[3]))
  <2>2. Len(v) = 4
    <3>1. v \in Seq(V)
      <4>1. 4 \in Nat
        OBVIOUS
      <4> QED BY <4>1, SeqDef
    <3>2. Len(v) \in Nat /\ 1..Len(v) = 1..4
      BY <3>1, LenProperties
    <3> QED BY <3>2
  <2>3. PICK E : E = {i \in 1..4 : Crosses(p, v[i], v[IF i = 1 THEN 4 ELSE i - 1])}
    OBVIOUS
  <2>4. E \cap (1..4) = E
    BY <2>3
  <2>5. PointInRing(p, v) <=> OddUpto(E, 4)
    <3>1. PICK n : n = Len(v)
      OBVIOUS
    <3>2. PointInRing(p, v) <=> n >= 3 /\ Cardinality({i \in 1..n : Crosses(p, v[i], v[IF i = 1 THEN n ELSE i - 1])}) % 2 = 1
      BY <3>1 DEF PointInRing
    <3>3. n = 4 /\ 4 >= 3
      BY <2>2, <3>1
    <3>4. PointInRing(p, v) <=> Cardinality(E) % 2 = 1
      BY <2>3, <3>2, <3>3
    <3> QED BY <2>4, <3>4 DEF OddUpto
  <2>6. /\ (1 \in E <=> Crosses(p, v[1], v[4])) /\ (2 \in E <=> Crosses(p, v[2], v[1]))
        /\ (3 \in E <=> Crosses(p, v[3], v[2])) /\ (4 \in E <=> Crosses(p, v[4], v[3]))
    BY <2>3
  <2> QED BY <2>5, <2>6, OddOf
<1> QED BY <1>1, <1>2

\* Twice the area of the triangle of a point and an edge, with the sign of the side it is on.
Spanned(p, a, b) == (a[1] - p[1]) * (b[2] - p[2]) - (b[1] - p[1]) * (a[2] - p[2])
Over(p, a) == a[2] > p[2]
\* The edge passes the height of the point on its east.
Cuts(p, a, b) ==
  \/ Over(p, b) /\ ~Over(p, a) /\ Spanned(p, a, b) > 0
  \/ Over(p, a) /\ ~Over(p, b) /\ Spanned(p, a, b) < 0

Points == Int \X Int

\* Products of differences.
LEMMA Areas ==
  ASSUME NEW p \in Points, NEW a \in Points, NEW b \in Points
  PROVE  /\ Spanned(p, a, b) \in Int /\ Spanned(p, b, a) = -Spanned(p, a, b)
         /\ Spanned(p, a, b) = (b[1] - a[1]) * (p[2] - a[2]) - (b[2] - a[2]) * (p[1] - a[1])
<1>1. PICK x \in Int, y \in Int, s \in Int, t \in Int, k \in Int, l \in Int :
        x = a[1] /\ y = a[2] /\ s = b[1] /\ t = b[2] /\ k = p[1] /\ l = p[2]
  BY DEF Points
<1>2. (x - k) * (t - l) - (s - k) * (y - l) = (s - x) * (l - y) - (t - y) * (k - x)
  OBVIOUS
<1>3. (s - k) * (y - l) - (x - k) * (t - l) = -((x - k) * (t - l) - (s - k) * (y - l))
  OBVIOUS
<1>4. (x - k) * (t - l) - (s - k) * (y - l) \in Int
  OBVIOUS
<1> QED BY <1>1, <1>2, <1>3, <1>4 DEF Spanned

\* The multiplied out test says on which side of the edge the point is, whichever way the edge goes.
LEMMA CrossesIs ==
  ASSUME NEW p \in Points, NEW a \in Points, NEW b \in Points
  PROVE  (Crosses(p, a, b) <=> Cuts(p, a, b)) /\ (Crosses(p, b, a) <=> Cuts(p, a, b))
<1>1. ASSUME NEW x \in Points, NEW y \in Points PROVE Crosses(p, x, y) <=> Cuts(p, x, y)
  <2>1. p[2] \in Int /\ x[2] \in Int /\ y[2] \in Int
    BY DEF Points
  <2>2. PICK lhs \in Int, rhs \in Int : lhs = (p[1] - x[1]) * (y[2] - x[2]) /\ rhs = (y[1] - x[1]) * (p[2] - x[2])
    <3>1. \A i, j \in Int : i * j \in Int
      OBVIOUS
    <3>2. p[1] - x[1] \in Int /\ y[2] - x[2] \in Int /\ y[1] - x[1] \in Int /\ p[2] - x[2] \in Int
      BY DEF Points
    <3> QED BY <3>1, <3>2
  <2>3. Spanned(p, x, y) = rhs - lhs
    <3>1. (y[2] - x[2]) * (p[1] - x[1]) = (p[1] - x[1]) * (y[2] - x[2])
      BY DEF Points
    <3> QED BY <2>2, <3>1, Areas
  <2>4. Crosses(p, x, y) <=> /\ (x[2] > p[2]) # (y[2] > p[2])
                             /\ IF y[2] > x[2] THEN lhs < rhs ELSE lhs > rhs
    BY <2>2 DEF Crosses
  <2>5. (x[2] > p[2]) # (y[2] > p[2]) <=> ~(Over(p, x) <=> Over(p, y))
    BY <2>1 DEF Over
  <2>6. CASE Over(p, y) /\ ~Over(p, x)
    <3>1. y[2] > x[2]
      BY <2>1, <2>6 DEF Over
    <3> QED BY <2>2, <2>3, <2>4, <2>5, <2>6, <3>1 DEF Cuts
  <2>7. CASE Over(p, x) /\ ~Over(p, y)
    <3>1. ~(y[2] > x[2])
      BY <2>1, <2>7 DEF Over
    <3> QED BY <2>2, <2>3, <2>4, <2>5, <2>7, <3>1 DEF Cuts
  <2> QED BY <2>4, <2>5, <2>6, <2>7 DEF Cuts
<1>2. Spanned(p, b, a) = -Spanned(p, a, b) /\ Spanned(p, a, b) \in Int
  BY Areas
<1>3. Cuts(p, b, a) <=> Cuts(p, a, b)
  BY <1>2 DEF Cuts
<1> QED BY <1>1, <1>3

\* The sign of a product.
LEMMA ProductSigns ==
  ASSUME NEW a \in Int, NEW b \in Int
  PROVE  /\ a * b \in Int
         /\ a >= 0 /\ b >= 0 => a * b >= 0
         /\ a > 0 /\ b > 0 => a * b > 0
         /\ a >= 0 /\ b <= 0 => a * b <= 0
         /\ a > 0 /\ b < 0 => a * b < 0
         /\ a <= 0 /\ b >= 0 => a * b <= 0
         /\ a < 0 /\ b > 0 => a * b < 0
         /\ a <= 0 /\ b <= 0 => a * b >= 0
         /\ a < 0 /\ b < 0 => a * b > 0
OBVIOUS

\* The ray at height 0 passes an edge between two heights, the point being on that side of it.
Passes(h, l, s) == (l > 0 /\ ~(h > 0) /\ s > 0) \/ (h > 0 /\ ~(l > 0) /\ s < 0)
\* Of a triangle with these heights and sides a ray passes an odd number of edges when the point
\* is on the same side of all, and an even one when it is on both sides.
Fits(i, j, k, x, y, z) ==
  LET odd == ~(~(Passes(k, i, y) <=> Passes(i, j, z)) <=> Passes(j, k, x))
  IN /\ (x > 0 /\ y > 0 /\ z > 0) \/ (x < 0 /\ y < 0 /\ z < 0) => odd
     /\ (x > 0 \/ y > 0 \/ z > 0) /\ (x < 0 \/ y < 0 \/ z < 0) => ~odd

\* One corner on the other side of the ray than the other two.
LEMMA OneApart ==
  ASSUME NEW i \in Int, NEW j \in Int, NEW k \in Int, NEW x \in Int, NEW y \in Int, NEW z \in Int,
         x * i + y * j + z * k = 0, j > 0 <=> k > 0, ~(i > 0 <=> j > 0)
  PROVE  Fits(i, j, k, x, y, z)
<1>1. PICK e \in Int, f \in Int, g \in Int : e = x * i /\ f = y * j /\ g = z * k /\ e + f + g = 0
  BY ProductSigns
<1>2. CASE i > 0 /\ j <= 0 /\ k <= 0
  <2>1. ~(y > 0 /\ z >= 0 /\ x < 0) /\ ~(y >= 0 /\ z >= 0 /\ x < 0) /\ ~(y <= 0 /\ z <= 0 /\ x > 0)
    <3>1. ASSUME y >= 0, z >= 0, x < 0 PROVE FALSE
      <4>1. e < 0 /\ f <= 0 /\ g <= 0
        BY <1>1, <1>2, <3>1, ProductSigns
      <4> QED BY <1>1, <4>1
    <3>2. ASSUME y <= 0, z <= 0, x > 0 PROVE FALSE
      <4>1. e > 0 /\ f >= 0 /\ g >= 0
        BY <1>1, <1>2, <3>2, ProductSigns
      <4> QED BY <1>1, <4>1
    <3> QED BY <3>1, <3>2
  <2> QED BY <1>2, <2>1 DEF Fits, Passes
<1>3. CASE i <= 0 /\ j > 0 /\ k > 0
  <2>1. ~(y >= 0 /\ z >= 0 /\ (y > 0 \/ z > 0) /\ x <= 0) /\ ~(y <= 0 /\ z <= 0 /\ (y < 0 \/ z < 0) /\ x >= 0)
    <3>1. ASSUME y >= 0, z >= 0, y > 0 \/ z > 0, x <= 0 PROVE FALSE
      <4>1. e >= 0 /\ f >= 0 /\ g >= 0 /\ (f > 0 \/ g > 0)
        BY <1>1, <1>3, <3>1, ProductSigns
      <4> QED BY <1>1, <4>1
    <3>2. ASSUME y <= 0, z <= 0, y < 0 \/ z < 0, x >= 0 PROVE FALSE
      <4>1. e <= 0 /\ f <= 0 /\ g <= 0 /\ (f < 0 \/ g < 0)
        BY <1>1, <1>3, <3>2, ProductSigns
      <4> QED BY <1>1, <4>1
    <3> QED BY <3>1, <3>2
  <2> QED BY <1>3, <2>1 DEF Fits, Passes
<1> QED BY <1>2, <1>3

\* The corner that is apart may be any of the three; with none, no edge is passed.
LEMMA AllFit ==
  ASSUME NEW i \in Int, NEW j \in Int, NEW k \in Int, NEW x \in Int, NEW y \in Int, NEW z \in Int,
         x * i + y * j + z * k = 0, i # 0 \/ j # 0 \/ k # 0 \/ x = 0
  PROVE  Fits(i, j, k, x, y, z)
<1>1. PICK e \in Int, f \in Int, g \in Int : e = x * i /\ f = y * j /\ g = z * k /\ e + f + g = 0
  BY ProductSigns
<1>2. CASE (j > 0 <=> k > 0) /\ ~(i > 0 <=> j > 0)
  BY <1>2, OneApart
<1>3. CASE (k > 0 <=> i > 0) /\ ~(j > 0 <=> k > 0)
  <2>1. y * j + z * k + x * i = 0
    BY <1>1
  <2>2. Fits(j, k, i, y, z, x)
    BY <1>3, <2>1, OneApart
  <2> QED BY <2>2 DEF Fits
<1>4. CASE (i > 0 <=> j > 0) /\ ~(k > 0 <=> i > 0)
  <2>1. z * k + x * i + y * j = 0
    BY <1>1
  <2>2. Fits(k, i, j, z, x, y)
    BY <1>4, <2>1, OneApart
  <2> QED BY <2>2 DEF Fits
<1>5. CASE i > 0 /\ j > 0 /\ k > 0
  <2>1. ~(x > 0 /\ y > 0 /\ z > 0) /\ ~(x < 0 /\ y < 0 /\ z < 0)
    <3>1. ASSUME x > 0, y > 0, z > 0 PROVE FALSE
      <4>1. e > 0 /\ f > 0 /\ g > 0
        BY <1>1, <1>5, <3>1, ProductSigns
      <4> QED BY <1>1, <4>1
    <3>2. ASSUME x < 0, y < 0, z < 0 PROVE FALSE
      <4>1. e < 0 /\ f < 0 /\ g < 0
        BY <1>1, <1>5, <3>2, ProductSigns
      <4> QED BY <1>1, <4>1
    <3> QED BY <3>1, <3>2
  <2> QED BY <1>5, <2>1 DEF Fits, Passes
<1>6. CASE ~(i > 0) /\ ~(j > 0) /\ ~(k > 0)
  <2>1. ~(x > 0 /\ y > 0 /\ z > 0) /\ ~(x < 0 /\ y < 0 /\ z < 0)
    <3>1. ASSUME x > 0, y > 0, z > 0 PROVE FALSE
      <4>1. e <= 0 /\ f <= 0 /\ g <= 0 /\ (e < 0 \/ f < 0 \/ g < 0)
        BY <1>1, <1>6, <3>1, ProductSigns
      <4> QED BY <1>1, <4>1
    <3>2. ASSUME x < 0, y < 0, z < 0 PROVE FALSE
      <4>1. e >= 0 /\ f >= 0 /\ g >= 0 /\ (e > 0 \/ f > 0 \/ g > 0)
        BY <1>1, <1>6, <3>2, ProductSigns
      <4> QED BY <1>1, <4>1
    <3> QED BY <3>1, <3>2
  <2> QED BY <1>6, <2>1 DEF Fits, Passes
<1> QED BY <1>2, <1>3, <1>4, <1>5, <1>6

\* The areas weigh the heights of the corners to the height of the point.
LEMMA Balanced ==
  ASSUME NEW p \in Points, NEW a \in Points, NEW b \in Points, NEW c \in Points
  PROVE  /\ Spanned(p, b, c) * (a[2] - p[2]) + Spanned(p, c, a) * (b[2] - p[2]) + Spanned(p, a, b) * (c[2] - p[2]) = 0
         /\ b[2] - p[2] = 0 /\ c[2] - p[2] = 0 => Spanned(p, b, c) = 0
<1>1. PICK u \in Int, i \in Int, v \in Int, j \in Int, w \in Int, k \in Int :
        /\ u = a[1] - p[1] /\ i = a[2] - p[2] /\ v = b[1] - p[1] /\ j = b[2] - p[2]
        /\ w = c[1] - p[1] /\ k = c[2] - p[2]
  <2>1. /\ a[1] - p[1] \in Int /\ a[2] - p[2] \in Int /\ b[1] - p[1] \in Int /\ b[2] - p[2] \in Int
        /\ c[1] - p[1] \in Int /\ c[2] - p[2] \in Int
    BY DEF Points
  <2> QED BY <2>1
<1>2. (v * k - w * j) * i + (w * i - u * k) * j + (u * j - v * i) * k = 0
  OBVIOUS
<1>3. Spanned(p, b, c) = v * k - w * j /\ Spanned(p, c, a) = w * i - u * k /\ Spanned(p, a, b) = u * j - v * i
  BY <1>1 DEF Spanned
<1>4. j = 0 /\ k = 0 => v * k - w * j = 0
  OBVIOUS
<1> QED BY <1>1, <1>2, <1>3, <1>4

\* A triangle holds what is on the same side of its edges, and nothing that is on both sides.
LEMMA TriangleIs ==
  ASSUME NEW p \in Points, NEW a \in Points, NEW b \in Points, NEW c \in Points
  PROVE  LET x == Spanned(p, b, c)
             y == Spanned(p, c, a)
             z == Spanned(p, a, b)
         IN /\ (x > 0 /\ y > 0 /\ z > 0) \/ (x < 0 /\ y < 0 /\ z < 0) => PointInRing(p, <<a, b, c>>)
            /\ (x > 0 \/ y > 0 \/ z > 0) /\ (x < 0 \/ y < 0 \/ z < 0) => ~PointInRing(p, <<a, b, c>>)
<1>1. PICK x \in Int, y \in Int, z \in Int : x = Spanned(p, b, c) /\ y = Spanned(p, c, a) /\ z = Spanned(p, a, b)
  BY Areas
<1>2. PICK i \in Int, j \in Int, k \in Int : i = a[2] - p[2] /\ j = b[2] - p[2] /\ k = c[2] - p[2]
  <2>1. a[2] - p[2] \in Int /\ b[2] - p[2] \in Int /\ c[2] - p[2] \in Int
    BY DEF Points
  <2> QED BY <2>1
<1>3. x * i + y * j + z * k = 0 /\ (j = 0 /\ k = 0 => x = 0)
  BY <1>1, <1>2, Balanced
<1>4. Fits(i, j, k, x, y, z)
  BY <1>3, AllFit
<1>5. (Over(p, a) <=> i > 0) /\ (Over(p, b) <=> j > 0) /\ (Over(p, c) <=> k > 0)
  BY <1>2 DEF Over, Points
<1>6. (Cuts(p, a, b) <=> Passes(i, j, z)) /\ (Cuts(p, b, c) <=> Passes(j, k, x)) /\ (Cuts(p, c, a) <=> Passes(k, i, y))
  BY <1>1, <1>5 DEF Cuts, Passes
<1>7. PointInRing(p, <<a, b, c>>) <=> ~(~(Cuts(p, c, a) <=> Cuts(p, a, b)) <=> Cuts(p, b, c))
  <2>1. /\ Crosses(p, a, c) <=> Cuts(p, c, a)
        /\ Crosses(p, b, a) <=> Cuts(p, a, b)
        /\ Crosses(p, c, b) <=> Cuts(p, b, c)
    BY CrossesIs
  <2> QED BY <2>1, RingIs
<1> QED BY <1>1, <1>4, <1>6, <1>7 DEF Fits

\* An edge that is cut has an end on the east, and lies above and below; where both ends are on
\* the east, that is all it takes.
LEMMA CutsWhere ==
  ASSUME NEW p \in Points, NEW a \in Points, NEW b \in Points
  PROVE  /\ Cuts(p, a, b) => (a[1] > p[1] \/ b[1] > p[1]) /\ ~(Over(p, a) <=> Over(p, b))
         /\ a[1] > p[1] /\ b[1] > p[1] => (Cuts(p, a, b) <=> ~(Over(p, a) <=> Over(p, b)))
<1>1. PICK x \in Int, y \in Int, s \in Int, t \in Int : x = a[1] - p[1] /\ y = a[2] - p[2] /\ s = b[1] - p[1] /\ t = b[2] - p[2]
  <2>1. a[1] - p[1] \in Int /\ a[2] - p[2] \in Int /\ b[1] - p[1] \in Int /\ b[2] - p[2] \in Int
    BY DEF Points
  <2> QED BY <2>1
<1>2. PICK e \in Int, f \in Int : e = x * t /\ f = s * y /\ Spanned(p, a, b) = e - f
  BY <1>1, ProductSigns DEF Spanned
<1>3. (Over(p, a) <=> y > 0) /\ (Over(p, b) <=> t > 0) /\ (a[1] > p[1] <=> x > 0) /\ (b[1] > p[1] <=> s > 0)
  BY <1>1 DEF Over, Points
<1>4. Cuts(p, a, b) <=> (t > 0 /\ ~(y > 0) /\ e > f) \/ (y > 0 /\ ~(t > 0) /\ e < f)
  BY <1>2, <1>3 DEF Cuts
<1>5. CASE t > 0 /\ y <= 0
  <2>1. ASSUME x <= 0, s <= 0 PROVE ~(e > f)
    <3>1. e <= 0 /\ f >= 0
      BY <1>2, <1>5, <2>1, ProductSigns
    <3> QED BY <3>1
  <2>2. ASSUME x > 0, s > 0 PROVE e > f
    <3>1. e > 0 /\ f <= 0
      BY <1>2, <1>5, <2>2, ProductSigns
    <3> QED BY <3>1
  <2> QED BY <1>3, <1>4, <1>5, <2>1, <2>2
<1>6. CASE y > 0 /\ t <= 0
  <2>1. ASSUME x <= 0, s <= 0 PROVE ~(e < f)
    <3>1. e >= 0 /\ f <= 0
      BY <1>2, <1>6, <2>1, ProductSigns
    <3> QED BY <3>1
  <2>2. ASSUME x > 0, s > 0 PROVE e < f
    <3>1. e <= 0 /\ f > 0
      BY <1>2, <1>6, <2>2, ProductSigns
    <3> QED BY <3>1
  <2> QED BY <1>3, <1>4, <1>6, <2>1, <2>2
<1>7. CASE y > 0 <=> t > 0
  BY <1>3, <1>4, <1>7
<1> QED BY <1>5, <1>6, <1>7

\* Some corner lies on every side of the point.
Surrounded(p, C) ==
  /\ \E v \in C : v[1] > p[1]
  /\ \E v \in C : v[1] <= p[1]
  /\ \E v \in C : v[2] > p[2]
  /\ \E v \in C : v[2] <= p[2]

\* A point in a ring has corners of it on every side.
LEMMA InRingSurrounded ==
  ASSUME NEW p \in Points, NEW a \in Points, NEW b \in Points, NEW c \in Points
  PROVE  /\ PointInRing(p, <<a, b, c>>) => Surrounded(p, {a, b, c})
         /\ \A v \in [1..4 -> Points] : PointInRing(p, v) => Surrounded(p, {v[1], v[2], v[3], v[4]})
<1>1. ASSUME NEW C \in SUBSET Points, NEW x \in C, NEW y \in C, Cuts(p, x, y),
             \A v \in C : v[1] > p[1] PROVE ~(Over(p, x) <=> Over(p, y))
  BY <1>1, CutsWhere
<1>2. ASSUME NEW C \in SUBSET Points, NEW x \in C, NEW y \in C, Cuts(p, x, y), \E v \in C : ~(v[1] > p[1])
      PROVE  Surrounded(p, C)
  <2>1. (x[1] > p[1] \/ y[1] > p[1]) /\ ~(Over(p, x) <=> Over(p, y))
    BY <1>2, CutsWhere
  <2>2. \A v \in C : (v[1] \in Int /\ v[2] \in Int) /\ p[1] \in Int /\ p[2] \in Int
    BY DEF Points
  <2>3. PICK v \in C : ~(v[1] > p[1])
    BY <1>2
  <2>4. v[1] <= p[1]
    BY <2>2, <2>3
  <2>5. (x[2] > p[2] /\ y[2] <= p[2]) \/ (y[2] > p[2] /\ x[2] <= p[2])
    BY <2>1, <2>2 DEF Over
  <2> QED BY <2>1, <2>4, <2>5 DEF Surrounded
<1>3. ASSUME PointInRing(p, <<a, b, c>>) PROVE Surrounded(p, {a, b, c})
  <2> DEFINE C == {a, b, c}
  <2>1. ~(~(Cuts(p, c, a) <=> Cuts(p, a, b)) <=> Cuts(p, b, c))
    <3>1. /\ Crosses(p, a, c) <=> Cuts(p, c, a)
          /\ Crosses(p, b, a) <=> Cuts(p, a, b)
          /\ Crosses(p, c, b) <=> Cuts(p, b, c)
      BY CrossesIs
    <3> QED BY <1>3, <3>1, RingIs
  <2>2. Cuts(p, c, a) \/ Cuts(p, a, b) \/ Cuts(p, b, c)
    BY <2>1
  <2>3. \E v \in C : ~(v[1] > p[1])
    <3> SUFFICES ASSUME a[1] > p[1], b[1] > p[1], c[1] > p[1] PROVE FALSE
      OBVIOUS
    <3>1. /\ Cuts(p, c, a) <=> ~(Over(p, c) <=> Over(p, a))
          /\ Cuts(p, a, b) <=> ~(Over(p, a) <=> Over(p, b))
          /\ Cuts(p, b, c) <=> ~(Over(p, b) <=> Over(p, c))
      BY CutsWhere
    <3> QED BY <2>1, <3>1
  <2>4. C \in SUBSET Points /\ a \in C /\ b \in C /\ c \in C
    OBVIOUS
  <2> HIDE DEF C
  <2>5. Surrounded(p, C)
    BY <1>2, <2>2, <2>3, <2>4
  <2> QED BY <2>5 DEF C
<1>4. ASSUME NEW v \in [1..4 -> Points], PointInRing(p, v) PROVE Surrounded(p, {v[1], v[2], v[3], v[4]})
  <2>1. PICK d \in Points, e \in Points, f \in Points, g \in Points : d = v[1] /\ e = v[2] /\ f = v[3] /\ g = v[4]
    OBVIOUS
  <2> DEFINE C == {d, e, f, g}
  <2>2. ~(~(~(Cuts(p, g, d) <=> Cuts(p, d, e)) <=> Cuts(p, e, f)) <=> Cuts(p, f, g))
    <3>1. /\ Crosses(p, d, g) <=> Cuts(p, g, d)
          /\ Crosses(p, e, d) <=> Cuts(p, d, e)
          /\ Crosses(p, f, e) <=> Cuts(p, e, f)
          /\ Crosses(p, g, f) <=> Cuts(p, f, g)
      BY CrossesIs
    <3>2. ~(~(~(Crosses(p, d, g) <=> Crosses(p, e, d)) <=> Crosses(p, f, e)) <=> Crosses(p, g, f))
      BY <1>4, <2>1, RingIs
    <3> QED BY <3>1, <3>2
  <2>3. Cuts(p, g, d) \/ Cuts(p, d, e) \/ Cuts(p, e, f) \/ Cuts(p, f, g)
    BY <2>2
  <2>4. \E u \in C : ~(u[1] > p[1])
    <3> SUFFICES ASSUME d[1] > p[1], e[1] > p[1], f[1] > p[1], g[1] > p[1] PROVE FALSE
      OBVIOUS
    <3>1. /\ Cuts(p, g, d) <=> ~(Over(p, g) <=> Over(p, d))
          /\ Cuts(p, d, e) <=> ~(Over(p, d) <=> Over(p, e))
          /\ Cuts(p, e, f) <=> ~(Over(p, e) <=> Over(p, f))
          /\ Cuts(p, f, g) <=> ~(Over(p, f) <=> Over(p, g))
      BY CutsWhere
    <3> QED BY <2>2, <3>1
  <2>5. C \in SUBSET Points /\ d \in C /\ e \in C /\ f \in C /\ g \in C
    OBVIOUS
  <2> HIDE DEF C
  <2>6. Surrounded(p, C)
    BY <1>2, <2>3, <2>4, <2>5
  <2> QED BY <2>1, <2>6 DEF C
<1> QED BY <1>3, <1>4

\* A set of numbers up to a bound has a greatest one.
LEMMA GreatestNumber ==
  ASSUME NEW N \in Nat, NEW I \in SUBSET (0..N), I # {}
  PROVE  \E m \in I : \A n \in I : n <= m
<1> DEFINE J == {j \in Nat : N - j \in I}
<1>1. J \in SUBSET Nat /\ J # {}
  <2>1. PICK n \in I : n \in 0..N
    OBVIOUS
  <2>2. N - n \in Nat /\ N - (N - n) = n
    BY <2>1
  <2> QED BY <2>1, <2>2
<1>2. PICK k \in J : \A j \in J : k <= j
  <2> HIDE DEF J
  <2> QED BY <1>1, LeastNumber
<1>3. N - k \in I /\ k \in Nat
  OBVIOUS
<1>4. ASSUME NEW n \in I PROVE n <= N - k
  <2>1. n \in 0..N /\ N - n \in Nat /\ N - (N - n) = n
    OBVIOUS
  <2>2. N - n \in J
    BY <2>1
  <2>3. k <= N - n
    BY <1>2, <2>2
  <2> QED BY <1>3, <2>1, <2>3
<1> QED BY <1>3, <1>4

Corners(rings) == UNION {Range(rings[i]) : i \in DOMAIN rings}

\* No corner lies outside of the bounds, which are themselves coordinates.
LEMMA BoundsAre ==
  ASSUME NEW rings, Corners(rings) \subseteq Grid, Corners(rings) # {}
  PROVE  LET b == PolygonBounds(rings)
         IN /\ b[1] \in Int /\ b[2] \in Int /\ b[3] \in Int /\ b[4] \in Int
            /\ \A v \in Corners(rings) : b[1] <= v[1] /\ v[1] <= b[2] /\ b[3] <= v[2] /\ v[2] <= b[4]
<1> DEFINE lng == {v[1] : v \in Corners(rings)}
           lat == {v[2] : v \in Corners(rings)}
           least(S) == CHOOSE x \in S : \A y \in S : x <= y
           most(S) == CHOOSE x \in S : \A y \in S : x >= y
<1>1. lng \in SUBSET (0..Side - 1) /\ lat \in SUBSET (0..Side - 1) /\ lng # {} /\ lat # {} /\ Side - 1 \in Nat
  <2>1. 0 \in 0..Precision
    BY Widths
  <2>2. Side \in Nat \ {0}
    BY <2>1, Widths
  <2>3. \A v \in Grid : v[1] \in 0..Side - 1 /\ v[2] \in 0..Side - 1
    BY DEF Grid
  <2> QED BY <2>2, <2>3
<1>2. ASSUME NEW S \in SUBSET (0..Side - 1), S # {}
      PROVE  /\ least(S) \in S /\ most(S) \in S /\ \A y \in S : least(S) <= y /\ y <= most(S)
  <2>1. S \in SUBSET Nat
    OBVIOUS
  <2>2. \E x \in S : \A y \in S : x <= y
    BY <1>2, <2>1, LeastNumber
  <2>3. \E x \in S : \A y \in S : x >= y
    <3>1. PICK x \in S : \A y \in S : y <= x
      BY <1>1, <1>2, GreatestNumber
    <3> QED BY <2>1, <3>1
  <2>4. least(S) \in S /\ \A y \in S : least(S) <= y
    BY <2>2
  <2>5. most(S) \in S /\ \A y \in S : most(S) >= y
    BY <2>3
  <2> QED BY <2>1, <2>4, <2>5
<1>3. PolygonBounds(rings) = <<least(lng), most(lng), least(lat), most(lat)>>
  BY DEF PolygonBounds, Corners
<1> HIDE DEF least, most
<1>4. /\ least(lng) \in lng /\ most(lng) \in lng /\ \A y \in lng : least(lng) <= y /\ y <= most(lng)
      /\ least(lat) \in lat /\ most(lat) \in lat /\ \A y \in lat : least(lat) <= y /\ y <= most(lat)
  <2> HIDE DEF lng, lat
  <2> QED BY <1>1, <1>2
<1>5. \A v \in Corners(rings) : v[1] \in lng /\ v[2] \in lat
  OBVIOUS
<1> HIDE DEF lng, lat
<1>6. least(lng) \in Int /\ most(lng) \in Int /\ least(lat) \in Int /\ most(lat) \in Int
  <2>1. \A y \in lng : y \in Int
    BY <1>1
  <2>2. \A y \in lat : y \in Int
    BY <1>1
  <2> QED BY <1>4, <2>1, <2>2
<1> QED BY <1>3, <1>4, <1>5, <1>6

\* The bounds hold what the corners surround.
LEMMA BoundsHold ==
  ASSUME NEW rings, Corners(rings) \subseteq Grid, NEW C \in SUBSET Corners(rings), NEW p \in Points, Surrounded(p, C)
  PROVE  InBox(p, PolygonBounds(rings))
<1>1. Corners(rings) # {}
  BY DEF Surrounded
<1>2. PICK b : b = PolygonBounds(rings)
  OBVIOUS
<1>3. /\ b[1] \in Int /\ b[2] \in Int /\ b[3] \in Int /\ b[4] \in Int
      /\ \A v \in C : b[1] <= v[1] /\ v[1] <= b[2] /\ b[3] <= v[2] /\ v[2] <= b[4]
  BY <1>1, <1>2, BoundsAre
<1>4. p[1] \in Int /\ p[2] \in Int /\ \A v \in C : v[1] \in Int /\ v[2] \in Int
  BY DEF Grid, Points
<1>5. b[1] <= p[1]
  BY <1>3, <1>4 DEF Surrounded
<1>6. p[1] <= b[2]
  BY <1>3, <1>4 DEF Surrounded
<1>7. b[3] <= p[2]
  BY <1>3, <1>4 DEF Surrounded
<1>8. p[2] <= b[4]
  BY <1>3, <1>4 DEF Surrounded
<1> QED BY <1>2, <1>3, <1>4, <1>5, <1>6, <1>7, <1>8 DEF InBox

\* The corners of a triangle.
LEMMA CornersAre ==
  ASSUME NEW a, NEW b, NEW c
  PROVE  Corners(<< <<a, b, c>> >>) = {a, b, c}
<1>1. Range(<<a, b, c>>) = {a, b, c}
  BY DEF Range
<1>2. PICK rings, t : rings = << <<a, b, c>> >> /\ t = {a, b, c}
  OBVIOUS
<1>3. DOMAIN rings = {1} /\ Range(rings[1]) = t
  BY <1>1, <1>2
<1>4. {Range(rings[i]) : i \in DOMAIN rings} = {t}
  BY <1>3
<1> QED BY <1>2, <1>4 DEF Corners

\* The corners of a ring with another one cut out of it.
LEMMA BothCorners ==
  ASSUME NEW v, NEW w
  PROVE  Corners(<<v, w>>) = Range(v) \cup Range(w)
<1>1. PICK rings : rings = <<v, w>>
  OBVIOUS
<1>2. DOMAIN rings = {1, 2} /\ Range(rings[1]) = Range(v) /\ Range(rings[2]) = Range(w)
  BY <1>1
<1>3. {Range(rings[i]) : i \in DOMAIN rings} = {Range(v), Range(w)}
  BY <1>2
<1> QED BY <1>1, <1>3 DEF Corners

\* The box of several polygons holds the box of each.
LEMMA BoxesJoined ==
  ASSUME NEW b, NEW c, \A k \in 1..4 : b[k] \in Int /\ c[k] \in Int, NEW p \in Points
  PROVE  LET least(k) == CHOOSE x \in {d[k] : d \in {b, c}} : \A d \in {b, c} : x <= d[k]
             most(k) == CHOOSE x \in {d[k] : d \in {b, c}} : \A d \in {b, c} : x >= d[k]
         IN InBox(p, b) \/ InBox(p, c) => InBox(p, <<least(1), most(2), least(3), most(4)>>)
<1> DEFINE least(k) == CHOOSE x \in {d[k] : d \in {b, c}} : \A d \in {b, c} : x <= d[k]
           most(k) == CHOOSE x \in {d[k] : d \in {b, c}} : \A d \in {b, c} : x >= d[k]
<1>1. ASSUME NEW k \in 1..4
      PROVE  /\ least(k) \in Int /\ least(k) <= b[k] /\ least(k) <= c[k]
             /\ most(k) \in Int /\ most(k) >= b[k] /\ most(k) >= c[k]
  <2>1. PICK s \in Int, t \in Int : s = b[k] /\ t = c[k]
    OBVIOUS
  <2>2. PICK S : S = {d[k] : d \in {b, c}} /\ S = {s, t}
    BY <2>1
  <2>3. \E x \in S : \A d \in {b, c} : x <= d[k]
    <3>1. s <= t \/ t <= s
      OBVIOUS
    <3> QED BY <2>1, <2>2, <3>1
  <2>4. \E x \in S : \A d \in {b, c} : x >= d[k]
    <3>1. s >= t \/ t >= s
      OBVIOUS
    <3> QED BY <2>1, <2>2, <3>1
  <2>5. least(k) \in S /\ \A d \in {b, c} : least(k) <= d[k]
    BY <2>2, <2>3
  <2>6. most(k) \in S /\ \A d \in {b, c} : most(k) >= d[k]
    BY <2>2, <2>4
  <2> HIDE DEF least, most
  <2> QED BY <2>1, <2>2, <2>5, <2>6
<1> HIDE DEF least, most
<1>2. p[1] \in Int /\ p[2] \in Int /\ 1 \in 1..4 /\ 2 \in 1..4 /\ 3 \in 1..4 /\ 4 \in 1..4
  BY DEF Points
<1>3. PICK l \in Int, m \in Int, n \in Int, o \in Int :
        /\ l = least(1) /\ l <= b[1] /\ l <= c[1]
        /\ m = most(2) /\ m >= b[2] /\ m >= c[2]
        /\ n = least(3) /\ n <= b[3] /\ n <= c[3]
        /\ o = most(4) /\ o >= b[4] /\ o >= c[4]
  BY <1>1, <1>2
<1>4. InBox(p, b) \/ InBox(p, c) => InBox(p, <<l, m, n, o>>)
  <2>1. /\ b[1] \in Int /\ b[2] \in Int /\ b[3] \in Int /\ b[4] \in Int
        /\ c[1] \in Int /\ c[2] \in Int /\ c[3] \in Int /\ c[4] \in Int
    BY <1>2
  <2> QED BY <1>2, <1>3, <2>1 DEF InBox
<1> QED BY <1>3, <1>4 DEF least, most

\* Rings are answered as they should be.
LEMMA RingSound ==
  ASSUME NEW v \in [1..4 -> GCorners], look = <<"ring", v>>
  PROVE  RingAnswered
<1> DEFINE one == <<v[1], v[2], v[3]>>
           two == <<v[1], v[3], v[4]>>
           side(p, a, b) == (b[1] - a[1]) * (p[2] - a[2]) - (b[2] - a[2]) * (p[1] - a[1])
           sides(p) == {side(p, v[1], v[2]), side(p, v[2], v[3]), side(p, v[3], v[1])}
<1>1. Grid \subseteq Points /\ v \in [1..4 -> Grid] /\ v \in [1..4 -> Points]
  <2>1. Side \in Nat
    <3>1. 0 \in 0..Precision
      BY Widths
    <3> QED BY <3>1, Widths
  <2>2. Grid \subseteq Points
    BY <2>1 DEF Grid, Points
  <2>3. GCorners \subseteq Grid
    BY GeoAssumption
  <2> QED BY <2>2, <2>3
<1>2. PICK a \in Grid, b \in Grid, c \in Grid, d \in Grid : a = v[1] /\ b = v[2] /\ c = v[3] /\ d = v[4]
  BY <1>1
<1>3. a \in Points /\ b \in Points /\ c \in Points /\ d \in Points
  BY <1>1
<1>4. ASSUME NEW p \in Grid
      PROVE  /\ PointInRing(p, v) = (PointInRing(p, one) # PointInRing(p, two))
             /\ ((\A s \in sides(p) : s > 0) \/ (\A s \in sides(p) : s < 0)) => PointInRing(p, one)
             /\ ((\E s \in sides(p) : s > 0) /\ (\E s \in sides(p) : s < 0)) => ~PointInRing(p, one)
  <2>1. p \in Points
    BY <1>1
  <2>2. PointInRing(p, v) <=> ~(PointInRing(p, one) <=> PointInRing(p, two))
    <3>1. PointInRing(p, v) <=> ~(~(~(Crosses(p, a, d) <=> Crosses(p, b, a)) <=> Crosses(p, c, b)) <=> Crosses(p, d, c))
      BY <1>1, <1>2, RingIs
    <3>2. PointInRing(p, <<a, b, c>>) <=> ~(~(Crosses(p, a, c) <=> Crosses(p, b, a)) <=> Crosses(p, c, b))
      BY RingIs
    <3>3. PointInRing(p, <<a, c, d>>) <=> ~(~(Crosses(p, a, d) <=> Crosses(p, c, a)) <=> Crosses(p, d, c))
      BY RingIs
    <3>4. Crosses(p, a, c) <=> Crosses(p, c, a)
      BY <1>3, <2>1, CrossesIs
    <3> QED BY <1>2, <3>1, <3>2, <3>3, <3>4
  <2>3. PointInRing(p, v) \in BOOLEAN /\ PointInRing(p, one) \in BOOLEAN /\ PointInRing(p, two) \in BOOLEAN
    BY DEF PointInRing
  <2>4. sides(p) = {Spanned(p, a, b), Spanned(p, b, c), Spanned(p, c, a)}
    BY <1>2, <1>3, <2>1, Areas
  <2> HIDE DEF sides
  <2>5. /\ ((\A s \in sides(p) : s > 0) \/ (\A s \in sides(p) : s < 0)) => PointInRing(p, <<a, b, c>>)
        /\ ((\E s \in sides(p) : s > 0) /\ (\E s \in sides(p) : s < 0)) => ~PointInRing(p, <<a, b, c>>)
    BY <1>3, <2>1, <2>4, TriangleIs
  <2>6. PointInRing(p, v) = (PointInRing(p, one) # PointInRing(p, two))
    <3> HIDE DEF one, two
    <3> QED BY <2>2, <2>3
  <2> QED BY <1>2, <2>5, <2>6
<1>5. ASSUME NEW p \in Grid
      PROVE  /\ PointInRing(p, v) => InBox(p, PolygonBounds(<<v, two>>))
             /\ PointInRing(p, one) => InBox(p, PolygonBounds(<<one>>))
             /\ PointInRing(p, two) => InBox(p, PolygonBounds(<<two>>))
  <2>1. p \in Points
    BY <1>1
  <2>2. ASSUME PointInRing(p, v) PROVE InBox(p, PolygonBounds(<<v, two>>))
    <3>1. Corners(<<v, <<a, c, d>>>>) = {a, b, c, d} \cup {a, c, d}
      <4>1. Range(v) = {v[1], v[2], v[3], v[4]}
        BY <1>1 DEF Range
      <4>2. Range(<<a, c, d>>) = {a, c, d}
        BY DEF Range
      <4>3. Corners(<<v, <<a, c, d>>>>) = Range(v) \cup Range(<<a, c, d>>)
        BY BothCorners
      <4> QED BY <1>2, <4>1, <4>2, <4>3
    <3>2. Surrounded(p, {a, b, c, d})
      BY <1>1, <1>2, <2>1, <2>2, InRingSurrounded
    <3>3. Corners(<<v, <<a, c, d>>>>) \subseteq Grid /\ {a, b, c, d} \in SUBSET Corners(<<v, <<a, c, d>>>>)
      BY <3>1
    <3> QED BY <1>2, <2>1, <3>2, <3>3, BoundsHold
  <2>3. ASSUME NEW x \in Grid, NEW y \in Grid, NEW z \in Grid, PointInRing(p, <<x, y, z>>)
        PROVE  InBox(p, PolygonBounds(<< <<x, y, z>> >>))
    <3>1. Corners(<< <<x, y, z>> >>) = {x, y, z}
      BY <1>1, CornersAre
    <3>2. Surrounded(p, {x, y, z})
      BY <1>1, <2>1, <2>3, InRingSurrounded
    <3> QED BY <2>1, <3>1, <3>2, BoundsHold
  <2> QED BY <1>2, <2>2, <2>3
<1>6. SearchPolygon(Grid, <<v, two>>) = {p \in Grid : PointInPolygon(p, <<v, two>>)}
  <2>1. ASSUME NEW p \in Grid, PointInPolygon(p, <<v, two>>) PROVE InBox(p, PolygonBounds(<<v, two>>))
    <3>1. PointInRing(p, v)
      BY <2>1 DEF PointInPolygon
    <3> QED BY <1>5, <3>1
  <2> QED BY <2>1 DEF SearchPolygon, Within
<1>7. SearchMultiPolygon(Grid, << <<one>>, <<two>> >>) = SearchPolygon(Grid, <<one>>) \cup SearchPolygon(Grid, <<two>>)
  <2>1. PICK e, f : e = PolygonBounds(<<one>>) /\ f = PolygonBounds(<<two>>)
    OBVIOUS
  <2>2. \A k \in 1..4 : e[k] \in Int /\ f[k] \in Int
    <3>1. Corners(<<one>>) \subseteq Grid /\ Corners(<<one>>) # {} /\ Corners(<<two>>) \subseteq Grid /\ Corners(<<two>>) # {}
      <4>1. Corners(<< <<a, b, c>> >>) = {a, b, c} /\ Corners(<< <<a, c, d>> >>) = {a, c, d}
        BY <1>1, CornersAre
      <4>2. one = <<a, b, c>> /\ two = <<a, c, d>>
        BY <1>2
      <4> HIDE DEF one, two
      <4> QED BY <4>1, <4>2
    <3>2. /\ e[1] \in Int /\ e[2] \in Int /\ e[3] \in Int /\ e[4] \in Int
          /\ f[1] \in Int /\ f[2] \in Int /\ f[3] \in Int /\ f[4] \in Int
      BY <2>1, <3>1, BoundsAre
    <3>3. \A k \in 1..4 : k = 1 \/ k = 2 \/ k = 3 \/ k = 4
      OBVIOUS
    <3> QED BY <3>2, <3>3
  <2> DEFINE least(k) == CHOOSE x \in {g[k] : g \in {e, f}} : \A g \in {e, f} : x <= g[k]
             most(k) == CHOOSE x \in {g[k] : g \in {e, f}} : \A g \in {e, f} : x >= g[k]
  <2>3. PICK polys : polys = << <<one>>, <<two>> >>
    OBVIOUS
  <2>4. DOMAIN polys = {1, 2} /\ polys[1] = <<one>> /\ polys[2] = <<two>>
    BY <2>3
  <2>5. {PolygonBounds(polys[i]) : i \in DOMAIN polys} = {e, f}
    BY <2>1, <2>4
  <2>6. SearchMultiPolygon(Grid, polys)
        = {p \in Within(Grid, <<least(1), most(2), least(3), most(4)>>) :
             PointInPolygon(p, <<one>>) \/ PointInPolygon(p, <<two>>)}
    <3>1. \A p : (\E i \in DOMAIN polys : PointInPolygon(p, polys[i]))
                 <=> PointInPolygon(p, <<one>>) \/ PointInPolygon(p, <<two>>)
      BY <2>4
    <3> QED BY <2>5, <3>1 DEF SearchMultiPolygon
  <2>7. ASSUME NEW p \in Grid
        PROVE  InBox(p, e) \/ InBox(p, f) => InBox(p, <<least(1), most(2), least(3), most(4)>>)
    <3>1. p \in Points
      BY <1>1
    <3> QED BY <2>2, <3>1, BoxesJoined
  <2>8. ASSUME NEW p \in Grid
        PROVE  (PointInPolygon(p, <<one>>) => InBox(p, e)) /\ (PointInPolygon(p, <<two>>) => InBox(p, f))
    <3>1. PointInPolygon(p, <<one>>) => PointInRing(p, one)
      BY DEF PointInPolygon
    <3>2. PointInPolygon(p, <<two>>) => PointInRing(p, two)
      BY DEF PointInPolygon
    <3> QED BY <1>5, <2>1, <3>1, <3>2
  <2> HIDE DEF least, most, one, two
  <2> QED BY <2>1, <2>3, <2>6, <2>7, <2>8 DEF SearchPolygon, Within
<1>8. look[2] = v
  OBVIOUS
<1> HIDE DEF one, two, sides
<1>9. /\ \A p \in Grid :
           /\ PointInRing(p, v) = (PointInRing(p, one) # PointInRing(p, two))
           /\ ((\A s \in sides(p) : s > 0) \/ (\A s \in sides(p) : s < 0)) => PointInRing(p, one)
           /\ ((\E s \in sides(p) : s > 0) /\ (\E s \in sides(p) : s < 0)) => ~PointInRing(p, one)
      /\ SearchPolygon(Grid, <<v, two>>) = {p \in Grid : PointInPolygon(p, <<v, two>>)}
      /\ SearchMultiPolygon(Grid, << <<one>>, <<two>> >>)
           = SearchPolygon(Grid, <<one>>) \cup SearchPolygon(Grid, <<two>>)
  BY <1>4, <1>6, <1>7
<1> QED BY <1>8, <1>9 DEF RingAnswered, one, two, sides

-----------------------------------------------------------------------------
\* The questions are circles and rings of the grid.
Looked ==
  \/ look = <<>>
  \/ \E q \in Grid, r \in 1..Side : look = <<"circle", q, r>>
  \/ \E ring \in [1..4 -> GCorners] : look = <<"ring", ring>>

\* No other question is ever asked.
LEMMA LookedStep == Looked /\ [GeoNext]_geoVars => Looked'
<1> SUFFICES ASSUME Looked, [GeoNext]_geoVars PROVE Looked'
  OBVIOUS
<1>1. CASE GAsk
  BY <1>1 DEF GAsk, Looked
<1>2. ASSUME UNCHANGED look PROVE Looked'
  BY <1>2 DEF Looked
<1>3. CASE GRestart
  BY <1>2, <1>3 DEF GRestart
<1>4. ASSUME NEW c \in GProcs, Rebuild(c) PROVE Looked'
  BY <1>2, <1>4 DEF Rebuild, RebuildView, RebuildAdd, RebuildDone, GGoto, End
<1>5. ASSUME NEW c \in GClients, Hook(c) PROVE Looked'
  <2>1. CASE AddFromMeta(c)
    BY <1>2, <2>1 DEF AddFromMeta, GGoto, End
  <2>2. CASE PutPoint(c) \/ AddHash(c) \/ RemoveTree(c) \/ RemoveHash(c) \/ DeletePoint(c)
    BY <1>2, <2>2 DEF PutPoint, AddHash, RemoveTree, RemoveHash, DeletePoint, GGoto, End
  <2>3. CASE ClearTree(c) \/ ClearHash(c) \/ DeletePoints(c)
    BY <1>2, <2>3 DEF ClearTree, ClearHash, DeletePoints, GGoto, End
  <2> QED BY <1>5, <2>1, <2>2, <2>3 DEF Hook
<1>6. ASSUME NEW c \in GClients, NEW d \in GDocs, NEW m, GWrite(c, d, m) \/ GWriteUnhooked(c, d, m) \/ GDelete(c, d)
      PROVE  Looked'
  BY <1>2, <1>6 DEF GWrite, GWriteUnhooked, GDelete, GBegin
<1>7. ASSUME NEW c \in GClients, NEW hash, NEW load, GDeleteCollection(c) \/ GReindex(c, hash, load)
      PROVE  Looked'
  BY <1>2, <1>7 DEF GDeleteCollection, GReindex, GBegin
<1>8. CASE UNCHANGED geoVars
  BY <1>2, <1>8 DEF geoVars
<1> QED BY <1>1, <1>3, <1>4, <1>5, <1>6, <1>7, <1>8 DEF GeoNext

\* Every question is answered as it should be.
LEMMA AnswersSound == Looked => CircleAnswered /\ RingAnswered
<1> SUFFICES ASSUME Looked PROVE CircleAnswered /\ RingAnswered
  OBVIOUS
<1>1. CASE look = <<>>
  BY <1>1 DEF CircleAnswered, RingAnswered
<1>2. ASSUME NEW q \in Grid, NEW r \in 1..Side, look = <<"circle", q, r>> PROVE CircleAnswered /\ RingAnswered
  <2>1. look[1] # "ring"
    BY <1>2
  <2> QED BY <1>2, <2>1, CircleSound DEF RingAnswered
<1>3. ASSUME NEW ring \in [1..4 -> GCorners], look = <<"ring", ring>> PROVE CircleAnswered /\ RingAnswered
  <2>1. look[1] # "circle"
    BY <1>3
  <2> QED BY <1>3, <2>1, RingSound DEF CircleAnswered
<1> QED BY <1>1, <1>2, <1>3 DEF Looked

\* The geo indexes are sound, agree with what is stored, and answer the searches (GeoSound), for
\* any documents, places, grid and polygons, and any number of requests and restarts.
THEOREM GeoIsSound == GeoSpec => []GeoSound
<1>1. GeoInit => GeoInv /\ Looked
  BY GeoInitInv DEF GeoInit, Looked
<1>2. GeoInv /\ Looked /\ [GeoNext]_geoVars => (GeoInv /\ Looked)'
  BY GeoStep, LookedStep
<1>3. GeoInv /\ Looked => GeoSound
  BY GeoInvSound, AnswersSound DEF GeoSound
<1> QED BY <1>1, <1>2, <1>3, PTL DEF GeoSpec
=============================================================================
