----------------------------- MODULE TallyProofs -----------------------------
(***************************************************************************)
(* Proofs about the components that keep totals or replay a log: the       *)
(* registries and their copies (Registries), the full-text index and its   *)
(* totals (FtsIndex), the counters of the windows of time (Limits), and    *)
(* the lifecycle events with their hot counters and weeks (Temporal).      *)
(*                                                                         *)
(* What sums and replays are is proved first.  Both are folds of the       *)
(* library, that is, recursive functions on sets of indices; facts about   *)
(* all of their arguments are proved by looking at a smallest set for      *)
(* which they would fail.                                                  *)
(***************************************************************************)
EXTENDS Registries, FtsIndex, Limits, Temporal, FiniteSetTheorems, SequenceTheorems,
        WellFoundedInduction, TLAPS

Replay(t, b) == FoldLeft(LAMBDA u, e : [u EXCEPT ![e.id] = e.val], t, b)
SumOf(f, S) == MapThenSumSet(LAMBDA x : f[x], S)

Pick(s) == CHOOSE x \in s : TRUE
SumRec(g, f, S) == g = [s \in SUBSET S |-> IF s = {} THEN 0 ELSE f[Pick(s)] + g[s \ {Pick(s)}]]
SumFn(f, S) == CHOOSE g : SumRec(g, f, S)

ReplayRec(g, t, b) ==
  g = [s \in SUBSET DOMAIN b |-> IF s = {} THEN t
                                 ELSE [g[s \ {Max(s)}] EXCEPT ![b[Max(s)].id] = b[Max(s)].val]]
ReplayFn(t, b) == CHOOSE g : ReplayRec(g, t, b)

\* The sum of the library, as the recursive function it chooses.
LEMMA SumIs == ASSUME NEW f, NEW S PROVE SumOf(f, S) = SumFn(f, S)[S]
BY DEF SumOf, SumFn, SumRec, MapThenSumSet, MapThenFoldSet, Pick

\* The same of a replay.
LEMMA ReplayIs == ASSUME NEW t, NEW b PROVE Replay(t, b) = ReplayFn(t, b)[DOMAIN b]
BY DEF Replay, ReplayFn, ReplayRec, FoldLeft, MapThenFoldSet, Max

\* Among finite sets there is a smallest one.
LEMMA SmallestSet ==
  ASSUME NEW T, T # {}, \A s \in T : IsFiniteSet(s)
  PROVE  \E s \in T : \A r \in T : Cardinality(s) <= Cardinality(r)
<1> DEFINE C == {Cardinality(s) : s \in T}
<1>1. C \subseteq Nat /\ C # {}  BY FS_CardinalityType
<1>2. \E m \in C : \A k \in C : ~(<<k, m>> \in OpToRel(<, Nat))
  BY <1>1, WFMin, NatLessThanWellFounded
<1>3. PICK m \in C : \A k \in C : ~(<<k, m>> \in OpToRel(<, Nat))
  BY <1>2
<1>4. \A k \in C : m <= k
  <2> HIDE DEF C
  <2>1. TAKE k \in C
  <2>2. k \in Nat /\ m \in Nat /\ ~(<<k, m>> \in OpToRel(<, Nat))  BY <1>1, <1>3
  <2> QED BY <2>2 DEF OpToRel
<1>5. PICK s \in T : m = Cardinality(s)  BY <1>3
<1> QED BY <1>4, <1>5

IsFold(g, S, base, h, c) ==
  \A s \in SUBSET S : g[s] = IF s = {} THEN base ELSE h[c[s]][g[s \ {c[s]}]]

\* A recursion that takes one element out of a set at a time has a solution.
LEMMA FoldExists ==
  ASSUME NEW S, IsFiniteSet(S), NEW A, NEW base \in A, NEW h \in [S -> [A -> A]], NEW c,
         \A s \in SUBSET S : s # {} => c[s] \in s
  PROVE  \E g \in [SUBSET S -> A] : IsFold(g, S, base, h, c)
<1> DEFINE P(T) == \E g \in [SUBSET T -> A] : IsFold(g, T, base, h, c)
           B == {n \in Nat : \E g \in [SUBSET S -> A] : \A s \in SUBSET S :
                    Cardinality(s) <= n =>
                      g[s] = IF s = {} THEN base ELSE h[c[s]][g[s \ {c[s]}]]}
<1>0. \A s \in SUBSET S : IsFiniteSet(s) /\ Cardinality(s) \in Nat /\ Cardinality(s) <= Cardinality(S)
  BY FS_Subset, FS_CardinalityType
<1>1. 0 \in B
  <2>1. [s \in SUBSET S |-> base] \in [SUBSET S -> A]  OBVIOUS
  <2>2. \A s \in SUBSET S : Cardinality(s) <= 0 => s = {}  BY <1>0, FS_EmptySet
  <2> QED BY <2>1, <2>2
<1>2. ASSUME NEW n \in B PROVE n + 1 \in B
  <2>1. PICK g \in [SUBSET S -> A] : \A s \in SUBSET S :
                    Cardinality(s) <= n =>
                      g[s] = IF s = {} THEN base ELSE h[c[s]][g[s \ {c[s]}]]
    BY <1>2
  <2> DEFINE k == [s \in SUBSET S |-> IF Cardinality(s) <= n \/ s = {} THEN g[s]
                                      ELSE h[c[s]][g[s \ {c[s]}]]]
  <2>2. \A s \in SUBSET S : s # {} => /\ s \ {c[s]} \in SUBSET S /\ c[s] \in S
                                      /\ Cardinality(s \ {c[s]}) = Cardinality(s) - 1
    <3>1. TAKE s \in SUBSET S
    <3>2. HAVE s # {}
    <3>3. c[s] \in s /\ c[s] \in S  BY <3>2
    <3>4. IsFiniteSet(s)  BY <1>0
    <3>5. Cardinality(s \ {c[s]}) = Cardinality(s) - 1
      <4>1. PICK x : x = c[s]  OBVIOUS
      <4>2. x \in s  BY <3>3, <4>1
      <4>3. Cardinality(s \ {x}) = Cardinality(s) - 1  BY <3>4, <4>2, FS_RemoveElement
      <4> QED BY <4>1, <4>3
    <3> QED BY <3>3, <3>5
  <2>3. k \in [SUBSET S -> A]  BY <2>2
  <2>4. ASSUME NEW s \in SUBSET S, Cardinality(s) <= n + 1
        PROVE  k[s] = IF s = {} THEN base ELSE h[c[s]][k[s \ {c[s]}]]
    <3>1. CASE s = {}
      <4>1. Cardinality(s) = 0  BY <3>1, FS_EmptySet
      <4>2. n \in Nat /\ 0 <= n  BY <1>2
      <4>3. g[s] = base  BY <2>1, <3>1, <4>1, <4>2
      <4> QED BY <3>1, <4>3
    <3>2. CASE s # {}
      <4>1. Cardinality(s \ {c[s]}) <= n /\ s \ {c[s]} \in SUBSET S
        BY <1>0, <1>2, <2>2, <2>4, <3>2
      <4>2. k[s \ {c[s]}] = g[s \ {c[s]}]  BY <4>1
      <4>3. k[s] = h[c[s]][g[s \ {c[s]}]]  BY <2>1, <2>4, <3>2
      <4> QED BY <3>2, <4>2, <4>3
    <3> QED BY <3>1, <3>2
  <2>5. \E z \in [SUBSET S -> A] : \A s \in SUBSET S : Cardinality(s) <= n + 1 =>
                      z[s] = IF s = {} THEN base ELSE h[c[s]][z[s \ {c[s]}]]
    <3> HIDE DEF k
    <3> QED BY <2>3, <2>4
  <2>6. n + 1 \in Nat  BY <1>2
  <2> QED BY <2>5, <2>6
<1>3. B = Nat
  <2> SUFFICES ASSUME Nat \ B # {} PROVE FALSE  OBVIOUS
  <2>1. PICK m \in Nat \ B : \A k \in Nat \ B : ~(<<k, m>> \in OpToRel(<, Nat))
    <3> HIDE DEF B
    <3>1. Nat \ B \subseteq Nat  OBVIOUS
    <3> QED BY <3>1, WFMin, NatLessThanWellFounded
  <2>2. \A k \in Nat \ B : ~(k < m)  
    <3> HIDE DEF B
    <3> QED BY <2>1 DEF OpToRel
  <2> HIDE DEF B
  <2>a. m \in Nat /\ m \notin B  BY <2>1
  <2>3. m # 0 /\ m - 1 \in Nat  BY <1>1, <2>a
  <2>4. m - 1 \in B  BY <2>2, <2>3
  <2>5. (m - 1) + 1 \in B  BY <1>2, <2>4
  <2>6. (m - 1) + 1 = m  BY <2>a
  <2> QED BY <2>a, <2>5, <2>6
<1>4. Cardinality(S) \in B  BY <1>0, <1>3
<1> QED BY <1>0, <1>4 DEF IsFold

-----------------------------------------------------------------------------
PickOf(S) == [s \in SUBSET S |-> Pick(s)]
AddOf(f, S) == [x \in S |-> [y \in Int |-> f[x] + y]]

\* The function that a sum chooses satisfies its recursion.
LEMMA SumFold ==
  ASSUME NEW S, IsFiniteSet(S), NEW f, \A x \in S : f[x] \in Int
  PROVE  /\ SumRec(SumFn(f, S), f, S)
         /\ \A s \in SUBSET S : SumFn(f, S)[s] \in Int
<1> DEFINE R(g) == [s \in SUBSET S |-> IF s = {} THEN 0 ELSE f[Pick(s)] + g[s \ {Pick(s)}]]
<1>1. AddOf(f, S) \in [S -> [Int -> Int]]  BY DEF AddOf
<1>2. \A s \in SUBSET S : s # {} => PickOf(S)[s] \in s /\ PickOf(S)[s] = Pick(s)
  BY DEF PickOf, Pick
<1>3. PICK g \in [SUBSET S -> Int] : IsFold(g, S, 0, AddOf(f, S), PickOf(S))
  <2> DEFINE h == AddOf(f, S)
             c == PickOf(S)
  <2>1. h \in [S -> [Int -> Int]] /\ 0 \in Int /\ \A s \in SUBSET S : s # {} => c[s] \in s
    BY <1>1, <1>2
  <2> HIDE DEF h, c
  <2>2. PICK A, z : A = Int /\ z = 0  OBVIOUS
  <2>3. h \in [S -> [A -> A]] /\ z \in A  BY <2>1, <2>2
  <2>4. \E g \in [SUBSET S -> A] : IsFold(g, S, z, h, c)  BY ONLY IsFiniteSet(S), <2>1, <2>3, FoldExists
  <2> QED BY <2>2, <2>4 DEF h, c
<1>4. g = R(g)
  <2>1. ASSUME NEW s \in SUBSET S, s # {} PROVE g[s] = f[Pick(s)] + g[s \ {Pick(s)}]
    <3>1. Pick(s) \in S /\ s \ {Pick(s)} \in SUBSET S  BY <1>2, <2>1
    <3>2. AddOf(f, S)[Pick(s)][g[s \ {Pick(s)}]] = f[Pick(s)] + g[s \ {Pick(s)}]
      BY <3>1, <1>3 DEF AddOf
    <3> QED BY <1>2, <1>3, <2>1, <3>2 DEF IsFold
  <2>2. g[{}] = 0  BY <1>3 DEF IsFold
  <2> QED BY <1>3, <2>1, <2>2
<1>5. SumRec(SumFn(f, S), f, S)
  <2>1. SumRec(g, f, S)  BY <1>4 DEF SumRec
  <2> QED BY <2>1 DEF SumFn
<1>6. PICK k : k = SumFn(f, S)  OBVIOUS
<1>7. k = R(k)  BY <1>5, <1>6 DEF SumRec
<1>8. \A s \in SUBSET S : k[s] \in Int
  <2> DEFINE T == {s \in SUBSET S : k[s] \notin Int}
  <2> SUFFICES ASSUME T # {} PROVE FALSE  OBVIOUS
  <2>1. \A s \in SUBSET S : IsFiniteSet(s)  BY FS_Subset
  <2>2. PICK s \in T : \A r \in T : Cardinality(s) <= Cardinality(r)
    <3>1. \A r \in T : IsFiniteSet(r)  BY <2>1
    <3> HIDE DEF T
    <3> QED BY <3>1, SmallestSet
  <2>3. s # {}  BY <1>7, <2>2
  <2>4. Pick(s) \in s /\ Pick(s) \in S /\ s \ {Pick(s)} \in SUBSET S  BY <1>2, <2>2, <2>3
  <2>5. Cardinality(s \ {Pick(s)}) < Cardinality(s)
    BY <2>1, <2>2, <2>4, FS_RemoveElement, FS_CardinalityType
  <2>6. k[s \ {Pick(s)}] \in Int
    BY <2>1, <2>2, <2>4, <2>5, FS_CardinalityType
  <2>7. k[s] = f[Pick(s)] + k[s \ {Pick(s)}]  BY <1>7, <2>2, <2>3
  <2> QED BY <2>2, <2>4, <2>6, <2>7
<1> QED BY <1>5, <1>6, <1>8

\* The recursion of a sum has one solution.
LEMMA SumUnique ==
  ASSUME NEW S, IsFiniteSet(S), NEW f, NEW g, NEW k, SumRec(g, f, S), SumRec(k, f, S)
  PROVE  g = k
<1> DEFINE T == {s \in SUBSET S : g[s] # k[s]}
<1>1. \A s \in SUBSET S : IsFiniteSet(s)  BY FS_Subset
<1>2. /\ g = [s \in SUBSET S |-> IF s = {} THEN 0 ELSE f[Pick(s)] + g[s \ {Pick(s)}]]
      /\ k = [s \in SUBSET S |-> IF s = {} THEN 0 ELSE f[Pick(s)] + k[s \ {Pick(s)}]]
  BY DEF SumRec
<1>3. T = {}
  <2> SUFFICES ASSUME T # {} PROVE FALSE  OBVIOUS
  <2>2. PICK s \in T : \A r \in T : Cardinality(s) <= Cardinality(r)
    <3>1. \A r \in T : IsFiniteSet(r)  BY <1>1
    <3> HIDE DEF T
    <3> QED BY <3>1, SmallestSet
  <2>3. s # {} /\ s \in SUBSET S  BY <1>2, <2>2
  <2>4. Pick(s) \in s /\ s \ {Pick(s)} \in SUBSET S  BY <2>2, <2>3 DEF Pick
  <2>5. Cardinality(s \ {Pick(s)}) < Cardinality(s)
    BY <1>1, <2>3, <2>4, FS_RemoveElement, FS_CardinalityType
  <2>6. g[s \ {Pick(s)}] = k[s \ {Pick(s)}]
    BY <1>1, <2>2, <2>4, <2>5, FS_CardinalityType
  <2>7. g[s] = f[Pick(s)] + g[s \ {Pick(s)}]  BY <1>2, <2>3
  <2>8. k[s] = f[Pick(s)] + k[s \ {Pick(s)}]  BY <1>2, <2>3
  <2> QED BY <2>2, <2>6, <2>7, <2>8
<1> QED BY <1>2, <1>3

\* A sum over a part is the same whichever set it is taken in.
LEMMA SumPart ==
  ASSUME NEW S, IsFiniteSet(S), NEW f, \A x \in S : f[x] \in Int, NEW t \in SUBSET S
  PROVE  SumFn(f, S)[t] = SumOf(f, t)
<1>1. IsFiniteSet(t) /\ \A x \in t : f[x] \in Int  BY FS_Subset
<1>2. PICK g : g = SumFn(f, S)  OBVIOUS
<1>3. PICK k : k = SumFn(f, t)  OBVIOUS
<1>4. /\ g = [s \in SUBSET S |-> IF s = {} THEN 0 ELSE f[Pick(s)] + g[s \ {Pick(s)}]]
      /\ \A s \in SUBSET S : g[s] \in Int
  <2>1. SumRec(g, f, S) /\ \A s \in SUBSET S : g[s] \in Int  BY <1>2, SumFold
  <2> QED BY <2>1 DEF SumRec
<1>5. /\ k = [s \in SUBSET t |-> IF s = {} THEN 0 ELSE f[Pick(s)] + k[s \ {Pick(s)}]]
      /\ \A s \in SUBSET t : k[s] \in Int
  <2>1. SumRec(k, f, t) /\ \A s \in SUBSET t : k[s] \in Int  BY <1>1, <1>3, SumFold
  <2> QED BY <2>1 DEF SumRec
<1>6. \A s \in SUBSET t : g[s] = k[s]
  <2> DEFINE T == {s \in SUBSET t : g[s] # k[s]}
  <2> SUFFICES ASSUME T # {} PROVE FALSE  OBVIOUS
  <2>1. \A s \in SUBSET t : IsFiniteSet(s)  BY <1>1, FS_Subset
  <2>2. PICK s \in T : \A r \in T : Cardinality(s) <= Cardinality(r)
    <3>1. \A r \in T : IsFiniteSet(r)  BY <2>1
    <3> HIDE DEF T
    <3> QED BY <3>1, SmallestSet
  <2>3. s # {} /\ s \in SUBSET S  BY <1>4, <1>5, <2>2
  <2>4. Pick(s) \in s /\ s \ {Pick(s)} \in SUBSET t  BY <2>2, <2>3 DEF Pick
  <2>5. Cardinality(s \ {Pick(s)}) < Cardinality(s)
    BY <2>1, <2>2, <2>4, FS_RemoveElement, FS_CardinalityType
  <2>6. g[s \ {Pick(s)}] = k[s \ {Pick(s)}]
    BY <2>1, <2>2, <2>4, <2>5, FS_CardinalityType
  <2>7. g[s] = f[Pick(s)] + g[s \ {Pick(s)}]  BY <1>4, <2>3
  <2>8. k[s] = f[Pick(s)] + k[s \ {Pick(s)}]  BY <1>5, <2>2, <2>3
  <2> QED BY <2>2, <2>6, <2>7, <2>8
<1> QED BY <1>2, <1>3, <1>6, SumIs

\* One element can be taken out of a sum, whichever it is.
LEMMA SumTake ==
  ASSUME NEW S, IsFiniteSet(S), NEW f, \A x \in S : f[x] \in Int
  PROVE  /\ SumOf(f, {}) = 0
         /\ SumOf(f, S) \in Int
         /\ \A x \in S : SumOf(f, S) = f[x] + SumOf(f, S \ {x})
<1>1. \A s \in SUBSET S : IsFiniteSet(s)  BY FS_Subset
<1>a. PICK g : g = SumFn(f, S)  OBVIOUS
<1>b. /\ g = [s \in SUBSET S |-> IF s = {} THEN 0 ELSE f[Pick(s)] + g[s \ {Pick(s)}]]
      /\ \A s \in SUBSET S : g[s] \in Int
  <2>1. SumRec(g, f, S) /\ \A s \in SUBSET S : g[s] \in Int  BY <1>a, SumFold
  <2> QED BY <2>1 DEF SumRec
<1>c. \A s \in SUBSET S : SumOf(f, s) = g[s]  BY <1>a, SumPart
<1>2. \A s \in SUBSET S : SumOf(f, s) \in Int
  BY <1>b, <1>c
<1>3. SumOf(f, {}) = 0
  BY <1>b, <1>c
<1>4. \A s \in SUBSET S : s # {} => SumOf(f, s) = f[Pick(s)] + SumOf(f, s \ {Pick(s)})
  <2>1. TAKE s \in SUBSET S
  <2>2. HAVE s # {}
  <2>3. g[s] = f[Pick(s)] + g[s \ {Pick(s)}]  BY <1>b, <2>2
  <2>4. s \ {Pick(s)} \in SUBSET S  OBVIOUS
  <2> QED BY <1>c, <2>3, <2>4
<1>5. \A s \in SUBSET S : \A x \in s : SumOf(f, s) = f[x] + SumOf(f, s \ {x})
  <2> DEFINE T == {s \in SUBSET S : \E x \in s : SumOf(f, s) # f[x] + SumOf(f, s \ {x})}
  <2> SUFFICES ASSUME T # {} PROVE FALSE  OBVIOUS
  <2>2. PICK s \in T : \A r \in T : Cardinality(s) <= Cardinality(r)
    <3>1. \A r \in T : IsFiniteSet(r)  BY <1>1
    <3> HIDE DEF T
    <3> QED BY <3>1, SmallestSet
  <2>3. PICK x \in s : SumOf(f, s) # f[x] + SumOf(f, s \ {x})  BY <2>2
  <2>4. Pick(s) \in s /\ s # {}  BY <2>3 DEF Pick
  <2>5. Pick(s) # x  BY <1>4, <2>2, <2>3, <2>4
  <2>6. PICK p : p = Pick(s)  OBVIOUS
  <2>7. /\ s \in SUBSET S /\ s \ {p} \in SUBSET S /\ s \ {x} \in SUBSET S /\ (s \ {p}) \ {x} \in SUBSET S
        /\ x \in S /\ p \in S /\ f[x] \in Int /\ f[p] \in Int
        /\ (s \ {p}) \ {x} = (s \ {x}) \ {p} /\ p \in s \ {x} /\ x \in s \ {p} /\ p \in s
    BY <2>2, <2>3, <2>4, <2>5, <2>6
  <2>8. Cardinality(s \ {p}) < Cardinality(s) /\ Cardinality(s \ {x}) < Cardinality(s)
    <3>1. IsFiniteSet(s) /\ x \in s /\ p \in s  BY <1>1, <2>3, <2>7
    <3>2. Cardinality(s) \in Nat  BY <3>1, FS_CardinalityType
    <3>3. Cardinality(s \ {p}) = Cardinality(s) - 1  BY <3>1, FS_RemoveElement
    <3>4. Cardinality(s \ {x}) = Cardinality(s) - 1  BY <3>1, FS_RemoveElement
    <3> QED BY <3>2, <3>3, <3>4
  <2>9. s \ {p} \notin T /\ s \ {x} \notin T
    <3> HIDE DEF T
    <3> QED BY <1>1, <2>2, <2>7, <2>8, FS_CardinalityType
  <2>10. SumOf(f, s \ {p}) = f[x] + SumOf(f, (s \ {p}) \ {x})  BY <2>7, <2>9
  <2>11. SumOf(f, s \ {x}) = f[p] + SumOf(f, (s \ {p}) \ {x})  BY <2>7, <2>9
  <2>12. SumOf(f, s) = f[p] + SumOf(f, s \ {p})  BY <1>4, <2>4, <2>6, <2>7
  <2>13. SumOf(f, (s \ {p}) \ {x}) \in Int  BY <1>2, <2>7
  <2>14. SumOf(f, s) = f[x] + SumOf(f, s \ {x})
    BY <2>7, <2>10, <2>11, <2>12, <2>13
  <2> QED BY <2>3, <2>14
<1> QED BY <1>2, <1>3, <1>5

\* Functions that agree on a set have the same sum over it.
LEMMA SumSame ==
  ASSUME NEW S, IsFiniteSet(S), NEW f, NEW g, \A x \in S : f[x] \in Int /\ g[x] = f[x]
  PROVE  SumOf(f, S) = SumOf(g, S)
<1> DEFINE T == {s \in SUBSET S : SumOf(f, s) # SumOf(g, s)}
<1> SUFFICES ASSUME T # {} PROVE FALSE  OBVIOUS
<1>1. \A s \in SUBSET S : IsFiniteSet(s)  BY FS_Subset
<1>2. PICK s \in T : \A r \in T : Cardinality(s) <= Cardinality(r)
  <2>1. \A r \in T : IsFiniteSet(r)  BY <1>1
  <2> HIDE DEF T
  <2> QED BY <2>1, SmallestSet
<1>3. s \in SUBSET S /\ IsFiniteSet(s) /\ SumOf(f, s) # SumOf(g, s)  BY <1>1, <1>2
<1>4. /\ \A x \in s : f[x] \in Int /\ g[x] = f[x]
      /\ \A x \in s : f[x] \in Int
      /\ \A x \in s : g[x] \in Int
  BY <1>3
<1>5. SumOf(f, {}) = 0 /\ \A x \in s : SumOf(f, s) = f[x] + SumOf(f, s \ {x})  BY <1>3, <1>4, SumTake
<1>6. SumOf(g, {}) = 0 /\ \A x \in s : SumOf(g, s) = g[x] + SumOf(g, s \ {x})  BY <1>3, <1>4, SumTake
<1>7. PICK x \in s : TRUE  BY <1>3, <1>5, <1>6
<1>8. s \ {x} \in SUBSET S  BY <1>3
<1>9. Cardinality(s \ {x}) < Cardinality(s)
  <2>1. Cardinality(s) \in Nat  BY <1>3, FS_CardinalityType
  <2>2. Cardinality(s \ {x}) = Cardinality(s) - 1  BY <1>3, <1>7, FS_RemoveElement
  <2> QED BY <2>1, <2>2
<1>10. s \ {x} \notin T
  <2>1. Cardinality(s) \in Nat /\ Cardinality(s \ {x}) \in Nat  BY <1>1, <1>3, <1>8, FS_CardinalityType
  <2> HIDE DEF T
  <2> QED BY <1>2, <1>9, <2>1
<1>11. SumOf(f, s \ {x}) = SumOf(g, s \ {x})  BY <1>8, <1>10
<1> QED BY <1>3, <1>4, <1>5, <1>6, <1>7, <1>11

\* A sum of natural numbers is at least each of them, and zero only if all of them are.
LEMMA SumNat ==
  ASSUME NEW S, IsFiniteSet(S), NEW f, \A x \in S : f[x] \in Nat
  PROVE  /\ SumOf(f, S) \in Nat
         /\ \A x \in S : f[x] <= SumOf(f, S)
         /\ (\A x \in S : f[x] = 0) => SumOf(f, S) = 0
<1> DEFINE T == {s \in SUBSET S : SumOf(f, s) \notin Nat}
           U == {s \in SUBSET S : SumOf(f, s) # 0}
<1>1. \A s \in SUBSET S : IsFiniteSet(s)  BY FS_Subset
<1>2. \A s \in SUBSET S : /\ SumOf(f, {}) = 0 /\ SumOf(f, s) \in Int
                          /\ \A x \in s : SumOf(f, s) = f[x] + SumOf(f, s \ {x})
  <2>1. TAKE s \in SUBSET S
  <2>2. IsFiniteSet(s) /\ \A x \in s : f[x] \in Int  BY <1>1
  <2> QED BY <2>2, SumTake
<1>3. \A s, x : s \in SUBSET S /\ x \in s =>
        Cardinality(s) \in Nat /\ Cardinality(s \ {x}) = Cardinality(s) - 1
  <2>1. TAKE s, x
  <2>2. HAVE s \in SUBSET S /\ x \in s
  <2>3. IsFiniteSet(s)  BY <1>1, <2>2
  <2> QED BY <2>2, <2>3, FS_CardinalityType, FS_RemoveElement
<1>4. T = {}
  <2> SUFFICES ASSUME T # {} PROVE FALSE  OBVIOUS
  <2>1. PICK s \in T : \A r \in T : Cardinality(s) <= Cardinality(r)
    <3>1. \A r \in T : IsFiniteSet(r)  BY <1>1
    <3> HIDE DEF T
    <3> QED BY <3>1, SmallestSet
  <2>2. s \in SUBSET S /\ SumOf(f, s) \notin Nat /\ SumOf(f, {}) = 0  BY <1>2, <2>1
  <2>3. PICK x \in s : TRUE  BY <2>2
  <2>4. s \ {x} \notin T
    <3> HIDE DEF T
    <3> QED BY <1>3, <2>1, <2>2, <2>3
  <2>5. SumOf(f, s \ {x}) \in Nat /\ f[x] \in Nat  BY <2>2, <2>4
  <2> QED BY <1>2, <2>2, <2>3, <2>5
<1>5. \A s \in SUBSET S : SumOf(f, s) \in Nat  BY <1>4
<1>6. ASSUME NEW x \in S PROVE f[x] <= SumOf(f, S)
  <2>1. SumOf(f, S \ {x}) \in Nat /\ SumOf(f, S) = f[x] + SumOf(f, S \ {x}) /\ f[x] \in Nat
    BY <1>2, <1>5
  <2> QED BY <2>1
<1>7. ASSUME \A x \in S : f[x] = 0 PROVE U = {}
  <2> SUFFICES ASSUME U # {} PROVE FALSE  OBVIOUS
  <2>1. PICK s \in U : \A r \in U : Cardinality(s) <= Cardinality(r)
    <3>1. \A r \in U : IsFiniteSet(r)  BY <1>1
    <3> HIDE DEF U
    <3> QED BY <3>1, SmallestSet
  <2>2. s \in SUBSET S /\ SumOf(f, s) # 0 /\ SumOf(f, {}) = 0  BY <1>2, <2>1
  <2>3. PICK x \in s : TRUE  BY <2>2
  <2>4. s \ {x} \notin U
    <3> HIDE DEF U
    <3> QED BY <1>3, <2>1, <2>2, <2>3
  <2>5. SumOf(f, s \ {x}) = 0 /\ f[x] = 0  BY <1>7, <2>2, <2>4
  <2> QED BY <1>2, <2>2, <2>3, <2>5
<1> QED BY <1>5, <1>6, <1>7

\* What a change of one summand does to the sum.
LEMMA SumChange ==
  ASSUME NEW S, IsFiniteSet(S), NEW x \in S, NEW f, NEW g,
         \A y \in S : f[y] \in Int, g[x] \in Int, \A y \in S : y # x => g[y] = f[y]
  PROVE  SumOf(g, S) = SumOf(f, S) - f[x] + g[x] /\ SumOf(f, S) \in Int
<1>1. \A y \in S : g[y] \in Int  OBVIOUS
<1>2. SumOf(f, S) = f[x] + SumOf(f, S \ {x}) /\ SumOf(f, S) \in Int  BY SumTake
<1>3. SumOf(g, S) = g[x] + SumOf(g, S \ {x})  BY <1>1, SumTake
<1>4. IsFiniteSet(S \ {x}) /\ \A y \in S \ {x} : f[y] \in Int /\ g[y] = f[y]  BY FS_Subset
<1>5. SumOf(f, S \ {x}) = SumOf(g, S \ {x})  BY <1>4, SumSame
<1>6. SumOf(f, S \ {x}) \in Int
  <2>1. \A y \in S \ {x} : f[y] \in Int  OBVIOUS
  <2> QED BY <1>4, <2>1, SumTake
<1> QED BY <1>2, <1>3, <1>5, <1>6

\* A part of a sum of natural numbers is at most the sum, and all of it if the rest is zero.
LEMMA SumWithin ==
  ASSUME NEW S, IsFiniteSet(S), NEW f, \A x \in S : f[x] \in Nat, NEW A \in SUBSET S
  PROVE  /\ SumOf(f, A) <= SumOf(f, S)
         /\ (\A x \in S \ A : f[x] = 0) => SumOf(f, A) = SumOf(f, S)
<1> DEFINE Fits(s) == /\ SumOf(f, A) <= SumOf(f, s)
                      /\ (\A x \in s \ A : f[x] = 0) => SumOf(f, A) = SumOf(f, s)
           T == {s \in SUBSET S : A \subseteq s /\ ~Fits(s)}
<1>1. \A s \in SUBSET S : IsFiniteSet(s)  BY FS_Subset
<1>2. \A s \in SUBSET S : SumOf(f, s) \in Nat
  <2>1. TAKE s \in SUBSET S
  <2>2. IsFiniteSet(s) /\ \A x \in s : f[x] \in Nat  BY <1>1
  <2> QED BY <2>2, SumNat
<1>3. \A s \in SUBSET S : \A x \in s : SumOf(f, s) = f[x] + SumOf(f, s \ {x})
  <2>1. TAKE s \in SUBSET S
  <2>2. IsFiniteSet(s) /\ \A x \in s : f[x] \in Int  BY <1>1
  <2> QED BY <2>2, SumTake
<1>4. T = {}
  <2> SUFFICES ASSUME T # {} PROVE FALSE  OBVIOUS
  <2>1. PICK s \in T : \A r \in T : Cardinality(s) <= Cardinality(r)
    <3>1. \A r \in T : IsFiniteSet(r)  BY <1>1
    <3> HIDE DEF T
    <3> QED BY <3>1, SmallestSet
  <2>2. s \in SUBSET S /\ A \subseteq s /\ ~Fits(s)  BY <2>1
  <2>3. PICK x \in s : x \notin A
    <3>1. s # A  BY <1>2, <2>2
    <3> QED BY <2>2, <3>1
  <2>4. s \ {x} \in SUBSET S /\ A \subseteq s \ {x}  BY <2>2, <2>3
  <2>5. Cardinality(s) \in Nat /\ Cardinality(s \ {x}) = Cardinality(s) - 1
    <3>1. IsFiniteSet(s)  BY <1>1, <2>2
    <3> QED BY <2>3, <3>1, FS_CardinalityType, FS_RemoveElement
  <2>6. s \ {x} \notin T
    <3> HIDE DEF T
    <3> QED BY <2>1, <2>5
  <2>7. Fits(s \ {x})  BY <2>4, <2>6
  <2>8. SumOf(f, s) = f[x] + SumOf(f, s \ {x}) /\ f[x] \in Nat  BY <1>3, <2>2, <2>3
  <2>9. SumOf(f, A) \in Nat /\ SumOf(f, s) \in Nat /\ SumOf(f, s \ {x}) \in Nat  BY <1>2, <2>2, <2>4
  <2>10. SumOf(f, A) <= SumOf(f, s)  BY <2>7, <2>8, <2>9
  <2>11. ASSUME \A y \in s \ A : f[y] = 0 PROVE SumOf(f, A) = SumOf(f, s)
    <3>1. \A y \in (s \ {x}) \ A : f[y] = 0  BY <2>11
    <3>2. f[x] = 0  BY <2>3, <2>11
    <3> QED BY <2>7, <2>8, <2>9, <3>1, <3>2
  <2> QED BY <2>2, <2>10, <2>11
<1> QED BY <1>4

\* A sum over one column of a table.
ColumnSum(g, k, S) == MapThenSumSet(LAMBDA x : g[x][k], S)
ColumnRec(z, g, k, S) ==
  z = [s \in SUBSET S |-> IF s = {} THEN 0 ELSE g[Pick(s)][k] + z[s \ {Pick(s)}]]
ColumnFn(g, k, S) == CHOOSE z : ColumnRec(z, g, k, S)

\* A column is summed as the function of its entries.
LEMMA ColumnIs ==
  ASSUME NEW S, IsFiniteSet(S), NEW g, NEW k, \A x \in S : g[x][k] \in Int
  PROVE  ColumnSum(g, k, S) = SumOf([x \in S |-> g[x][k]], S)
<1> DEFINE f == [x \in S |-> g[x][k]]
<1>1. \A x \in S : f[x] \in Int /\ f[x] = g[x][k]  OBVIOUS
<1>2. ColumnSum(g, k, S) = ColumnFn(g, k, S)[S]
  BY DEF ColumnSum, ColumnFn, ColumnRec, MapThenSumSet, MapThenFoldSet, Pick
<1>3. \A s \in SUBSET S : s # {} => Pick(s) \in S  BY DEF Pick
<1>4. \A z : ColumnRec(z, g, k, S) <=> SumRec(z, f, S)
  BY <1>1, <1>3 DEF ColumnRec, SumRec
<1>5. PICK z : z = SumFn(f, S) /\ SumRec(z, f, S)
  <2> HIDE DEF f
  <2>1. \A x \in S : f[x] \in Int  BY <1>1
  <2> QED BY <2>1, SumFold
<1>6. PICK y : y = ColumnFn(g, k, S) /\ ColumnRec(y, g, k, S)
  BY <1>4, <1>5 DEF ColumnFn
<1>7. SumRec(y, f, S)  BY <1>4, <1>6
<1> HIDE DEF f
<1>8. y = z  BY <1>1, <1>5, <1>7, SumUnique
<1> QED BY <1>2, <1>5, <1>6, <1>8, SumIs DEF f

-----------------------------------------------------------------------------
\* The greatest element of a finite set of numbers.
LEMMA MaxOfRange ==
  ASSUME NEW n \in Nat, NEW s \in SUBSET (1..n), s # {}
  PROVE  Max(s) \in s /\ \A y \in s : Max(s) >= y
<1> DEFINE T == {n - x : x \in s}
<1>1. T \subseteq Nat /\ T # {}
  <2>1. \A x \in s : x \in Int /\ x <= n  OBVIOUS
  <2>2. \A x \in s : n - x \in Nat  BY <2>1
  <2>3. PICK x \in s : TRUE  OBVIOUS
  <2>4. n - x \in T  BY <2>3
  <2> QED BY <2>2, <2>4
<1>2. PICK m \in T : \A k \in T : ~(<<k, m>> \in OpToRel(<, Nat))
  <2> HIDE DEF T
  <2> QED BY <1>1, WFMin, NatLessThanWellFounded
<1>3. ASSUME NEW k \in T PROVE m <= k
  <2> HIDE DEF T
  <2>2. k \in Nat /\ m \in Nat /\ ~(<<k, m>> \in OpToRel(<, Nat))  BY <1>1, <1>2, <1>3
  <2> QED BY <2>2 DEF OpToRel
<1>4. PICK x \in s : m = n - x  BY <1>2
<1>5. \A y \in s : x >= y
  <2>1. TAKE y \in s
  <2>2. n - y \in T  OBVIOUS
  <2>3. n - x <= n - y  BY <1>3, <1>4, <2>2
  <2>4. x \in Int /\ y \in Int  OBVIOUS
  <2> QED BY <2>3, <2>4
<1> QED BY <1>5 DEF Max

\* The tables that the entries of b make of t, one after the other.
IsReplay(g, t, b) ==
  /\ g[0] = t /\ Replay(t, b) = g[Len(b)]
  /\ \A m \in 1..Len(b) : g[m] = [g[m - 1] EXCEPT ![b[m].id] = b[m].val]

\* A replay can be followed one entry at a time.
LEMMA ReplaySteps ==
  ASSUME NEW Ids, NEW V, NEW t \in [Ids -> V], NEW b \in Seq([id : Ids, val : V])
  PROVE  \E g \in [0..Len(b) -> [Ids -> V]] : IsReplay(g, t, b)
<1> DEFINE n == Len(b)
           D == DOMAIN b
           A == [Ids -> V]
           h == [x \in D |-> [u \in A |-> [u EXCEPT ![b[x].id] = b[x].val]]]
           c == [s \in SUBSET D |-> Max(s)]
<1>1. n \in Nat /\ D = 1..n /\ IsFiniteSet(D) /\ \A m \in D : b[m] \in [id : Ids, val : V]
  <2>1. n \in Nat /\ D = 1..n  OBVIOUS
  <2>2. IsFiniteSet(1..n)  BY <2>1, FS_Interval
  <2>3. \A m \in 1..Len(b) : b[m] \in [id : Ids, val : V]  BY ElementOfSeq
  <2> QED BY <2>1, <2>2, <2>3
<1>2. \A s \in SUBSET D : s # {} => c[s] \in s /\ c[s] = Max(s) /\ \A y \in s : c[s] >= y
  BY <1>1, MaxOfRange
<1>3. h \in [D -> [A -> A]]  BY <1>1
<1>4. PICK g \in [SUBSET D -> A] : IsFold(g, D, t, h, c)
  <2> HIDE DEF h, c, D, A
  <2>1. t \in A  BY DEF A
  <2> QED BY <1>1, <1>2, <1>3, <2>1, FoldExists
<1>5. ReplayRec(g, t, b)
  <2>1. ASSUME NEW s \in SUBSET D, s # {}
        PROVE  g[s] = [g[s \ {Max(s)}] EXCEPT ![b[Max(s)].id] = b[Max(s)].val]
    <3>1. g[s] = h[c[s]][g[s \ {c[s]}]]  BY <1>4, <2>1 DEF IsFold
    <3>2. c[s] = Max(s) /\ Max(s) \in D /\ s \ {Max(s)} \in SUBSET D  BY <1>2, <2>1
    <3>3. g[s \ {Max(s)}] \in A  BY <1>4, <3>2
    <3>4. h[Max(s)][g[s \ {Max(s)}]] = [g[s \ {Max(s)}] EXCEPT ![b[Max(s)].id] = b[Max(s)].val]
      BY <3>2, <3>3
    <3> QED BY <3>1, <3>2, <3>4
  <2>2. g[{}] = t  BY <1>4 DEF IsFold
  <2> QED BY <1>4, <2>1, <2>2 DEF ReplayRec
<1>6. PICK k : k = ReplayFn(t, b) /\ ReplayRec(k, t, b)
  BY <1>5 DEF ReplayFn
<1>7. Replay(t, b) = k[D]  BY <1>6, ReplayIs
<1>8. k = g
  <2>1. DOMAIN k = SUBSET D /\ k[{}] = t /\ k = [s \in SUBSET D |-> k[s]]  BY <1>6 DEF ReplayRec
  <2>2. \A s \in SUBSET D : k[s] = g[s]
    <3> DEFINE T == {s \in SUBSET D : k[s] # g[s]}
    <3> SUFFICES ASSUME T # {} PROVE FALSE  OBVIOUS
    <3>1. \A s \in SUBSET D : IsFiniteSet(s)  BY <1>1, FS_Subset
    <3>2. PICK s \in T : \A r \in T : Cardinality(s) <= Cardinality(r)
      <4>1. \A r \in T : IsFiniteSet(r)  BY <3>1
      <4> HIDE DEF T
      <4> QED BY <4>1, SmallestSet
    <3>3. s \in SUBSET D /\ s # {}  BY <2>1, <3>2, <1>5 DEF ReplayRec
    <3>4. PICK x : x = Max(s)  OBVIOUS
    <3>5. x \in s /\ s \ {x} \in SUBSET D /\ IsFiniteSet(s)  BY <1>2, <3>1, <3>3, <3>4
    <3>6. Cardinality(s \ {x}) < Cardinality(s)
      <4>1. Cardinality(s) \in Nat  BY <3>5, FS_CardinalityType
      <4>2. Cardinality(s \ {x}) = Cardinality(s) - 1  BY <3>5, FS_RemoveElement
      <4> QED BY <4>1, <4>2
    <3>7. k[s \ {x}] = g[s \ {x}]
      <4>1. Cardinality(s) \in Nat /\ Cardinality(s \ {x}) \in Nat  BY <3>1, <3>5, FS_CardinalityType
      <4>2. s \ {x} \notin T
        <5> HIDE DEF T
        <5> QED BY <3>2, <3>6, <4>1
      <4> QED BY <3>5, <4>2
    <3>8. k[s] = [k[s \ {x}] EXCEPT ![b[x].id] = b[x].val]  BY <1>6, <3>3, <3>4 DEF ReplayRec
    <3>9. g[s] = [g[s \ {x}] EXCEPT ![b[x].id] = b[x].val]  BY <1>5, <3>3, <3>4 DEF ReplayRec
    <3> QED BY <3>2, <3>7, <3>8, <3>9
  <2>3. g = [s \in SUBSET D |-> g[s]]  BY <1>4
  <2> QED BY <2>1, <2>2, <2>3
<1> DEFINE f == [m \in 0..n |-> g[1..m]]
<1>9. f \in [0..n -> A]
  <2>1. \A m \in 0..n : 1..m \in SUBSET D  BY <1>1
  <2> QED BY <1>4, <2>1
<1>10. f[0] = t
  <2>1. 1..0 = {}  OBVIOUS
  <2>2. 0 \in 0..n  BY <1>1
  <2> QED BY <1>4, <2>1, <2>2 DEF IsFold
<1>11. f[n] = Replay(t, b)
  BY <1>1, <1>7, <1>8
<1>12. ASSUME NEW m \in 1..n PROVE f[m] = [f[m - 1] EXCEPT ![b[m].id] = b[m].val]
  <2>1. 1..m \in SUBSET D /\ 1..m # {} /\ m \in 0..n /\ m - 1 \in 0..n  BY <1>1
  <2>2. Max(1..m) = m
    <3>1. Max(1..m) \in 1..m /\ \A y \in 1..m : Max(1..m) >= y  BY <1>2, <2>1
    <3> QED BY <3>1
  <2>3. (1..m) \ {m} = 1..(m - 1)  BY <2>1
  <2>4. g[1..m] = [g[1..(m - 1)] EXCEPT ![b[m].id] = b[m].val]
    <3>1. \A s \in SUBSET D : s # {} => g[s] = [g[s \ {Max(s)}] EXCEPT ![b[Max(s)].id] = b[Max(s)].val]
      BY <1>5 DEF ReplayRec
    <3>2. PICK s : s = 1..m  OBVIOUS
    <3>3. g[s] = [g[s \ {m}] EXCEPT ![b[m].id] = b[m].val]
      BY <2>1, <2>2, <3>1, <3>2
    <3> QED BY <2>3, <3>2, <3>3
  <2> QED BY <2>1, <2>4
<1> HIDE DEF f
<1>13. IsReplay(f, t, b)  BY <1>10, <1>11, <1>12 DEF IsReplay
<1> QED BY <1>9, <1>13

-----------------------------------------------------------------------------
(* Registries *)

Stored == RegVals \cup {NoReg}
Entry == [id : RegIds, val : Stored]

\* The first k entries of the log leave value v under key i.
SettledIn(log, k, i, v) ==
  \/ v = NoReg /\ \A m \in 1..k : log[m].id # i
  \/ \E n \in 1..k : log[n].id = i /\ log[n].val = v /\ \A m \in (n + 1)..k : log[m].id # i

\* Entries leave one value under a key.
LEMMA SettledUnique ==
  ASSUME NEW log, NEW k \in Nat, NEW i, NEW v, NEW w, SettledIn(log, k, i, v), SettledIn(log, k, i, w)
  PROVE  v = w
<1>1. ASSUME NEW n \in 1..k, NEW o \in 1..k, log[n].id = i, log[o].id = i,
             \A m \in (n + 1)..k : log[m].id # i, \A m \in (o + 1)..k : log[m].id # i
      PROVE  n = o
  BY <1>1
<1> QED BY <1>1 DEF SettledIn

\* One more entry settles its own key.
LEMMA SettledStep ==
  ASSUME NEW log, NEW k \in Nat, NEW i, NEW v, SettledIn(log, k, i, v)
  PROVE  SettledIn(log, k + 1, i, IF log[k + 1].id = i THEN log[k + 1].val ELSE v)
<1>1. CASE log[k + 1].id = i
  <2>1. k + 1 \in 1..(k + 1) /\ \A m \in (k + 1 + 1)..(k + 1) : log[m].id # i  OBVIOUS
  <2> QED BY <1>1, <2>1 DEF SettledIn
<1>2. CASE log[k + 1].id # i
  <2>1. CASE v = NoReg /\ \A m \in 1..k : log[m].id # i
    <3>1. \A m \in 1..(k + 1) : m \in 1..k \/ m = k + 1  OBVIOUS
    <3> QED BY <1>2, <2>1, <3>1 DEF SettledIn
  <2>2. CASE ~(v = NoReg /\ \A m \in 1..k : log[m].id # i)
    <3>1. PICK n \in 1..k : log[n].id = i /\ log[n].val = v /\ \A m \in (n + 1)..k : log[m].id # i
      BY <2>2 DEF SettledIn
    <3>2. n \in 1..(k + 1) /\ \A m \in (n + 1)..(k + 1) : m \in (n + 1)..k \/ m = k + 1  BY <3>1
    <3>3. \A m \in (n + 1)..(k + 1) : log[m].id # i  BY <1>2, <3>1, <3>2
    <3> QED BY <1>2, <3>1, <3>2, <3>3 DEF SettledIn
  <2> QED BY <2>1, <2>2
<1> QED BY <1>1, <1>2

\* Entries beyond the first k do not matter.
LEMMA SettledSame ==
  ASSUME NEW log, NEW log2, NEW k \in Nat, NEW i, NEW v, SettledIn(log, k, i, v),
         \A m \in 1..k : log2[m] = log[m]
  PROVE  SettledIn(log2, k, i, v)
<1>1. CASE v = NoReg /\ \A m \in 1..k : log[m].id # i
  BY <1>1 DEF SettledIn
<1>2. CASE ~(v = NoReg /\ \A m \in 1..k : log[m].id # i)
  <2>1. PICK n \in 1..k : log[n].id = i /\ log[n].val = v /\ \A m \in (n + 1)..k : log[m].id # i
    BY <1>2 DEF SettledIn
  <2>2. \A m \in (n + 1)..k : m \in 1..k  BY <2>1
  <2>3. log2[n].id = i /\ log2[n].val = v /\ \A m \in (n + 1)..k : log2[m].id # i  BY <2>1, <2>2
  <2> QED BY <2>1, <2>3 DEF SettledIn
<1> QED BY <1>1, <1>2

\* An entry appended settles what it names and leaves the rest.
LEMMA SettledAppend ==
  ASSUME NEW log \in Seq(Entry), NEW e \in Entry, NEW i, NEW v, SettledIn(log, Len(log), i, v)
  PROVE  SettledIn(Append(log, e), Len(Append(log, e)), i, IF e.id = i THEN e.val ELSE v)
<1>1. PICK new : new = Append(log, e)  OBVIOUS
<1>2. PICK k : k = Len(log)  OBVIOUS
<1>3. k \in Nat /\ Len(new) = k + 1 /\ new[k + 1] = e /\ \A m \in 1..k : new[m] = log[m]
  BY <1>1, <1>2
<1>4. SettledIn(new, k, i, v)  BY <1>2, <1>3, SettledSame
<1>5. SettledIn(new, k + 1, i, IF e.id = i THEN e.val ELSE v)
  BY <1>3, <1>4, SettledStep
<1> QED BY <1>1, <1>3, <1>5

\* A batch is a stretch of the log.
LEMMA BatchOf ==
  ASSUME NEW log \in Seq(Entry), NEW a \in Nat, NEW n \in Nat, a + n <= Len(log)
  PROVE  LET b == SubSeq(log, a + 1, a + n) IN
         b \in Seq(Entry) /\ Len(b) = n /\ \A m \in 1..n : b[m] = log[a + m]
<1>1. PICK b : b = SubSeq(log, a + 1, a + n)  OBVIOUS
<1>2. b \in Seq(Entry) /\ Len(b) = n /\ \A m \in 1..n : b[m] = log[a + m]
  <2>1. a + 1 \in 1..Len(log) + 1 /\ a + n \in 0..Len(log) /\ Len(log) \in Nat  OBVIOUS
  <2>2. \A m \in (a + 1)..(a + n) : log[m] \in Entry
    <3>1. \A m \in (a + 1)..(a + n) : m \in 1..Len(log)  BY <2>1
    <3> QED BY <3>1, ElementOfSeq
  <2>3. b = [m \in 1..n |-> log[a + m]]
    <3>1. (a + n) - (a + 1) + 1 = n  BY <2>1
    <3> QED BY <1>1, <2>1, <3>1
  <2>4. \A m \in 1..n : log[a + m] \in Entry  BY <2>2
  <2> QED BY <2>3, <2>4
<1> QED BY <1>1, <1>2

\* A replay keeps the type of the table.
LEMMA ReplayTyped ==
  ASSUME NEW log \in Seq(Entry), NEW a \in Nat, NEW n \in Nat, a + n <= Len(log),
         NEW t \in [RegIds -> Stored]
  PROVE  Replay(t, SubSeq(log, a + 1, a + n)) \in [RegIds -> Stored]
<1>1. PICK b : b = SubSeq(log, a + 1, a + n)  OBVIOUS
<1>2. b \in Seq(Entry) /\ Len(b) = n  BY <1>1, BatchOf
<1>3. PICK I, S : I = RegIds /\ S = Stored  OBVIOUS
<1>4. t \in [I -> S] /\ b \in Seq([id : I, val : S])  BY <1>2, <1>3 DEF Entry
<1>5. PICK g \in [0..Len(b) -> [I -> S]] : IsReplay(g, t, b)
  BY ONLY <1>4, ReplaySteps
<1>6. Len(b) \in 0..Len(b)  BY <1>2
<1> QED BY <1>1, <1>3, <1>5, <1>6 DEF IsReplay

\* What a batch makes of a table that the entries before it had settled.
LEMMA ReplaySettles ==
  ASSUME NEW log \in Seq(Entry), NEW a \in Nat, NEW n \in Nat, a + n <= Len(log),
         NEW t \in [RegIds -> Stored], \A i \in RegIds : SettledIn(log, a, i, t[i])
  PROVE  LET r == Replay(t, SubSeq(log, a + 1, a + n)) IN
         r \in [RegIds -> Stored] /\ \A i \in RegIds : SettledIn(log, a + n, i, r[i])
<1>1. PICK b : b = SubSeq(log, a + 1, a + n)  OBVIOUS
<1>2. b \in Seq(Entry) /\ Len(b) = n /\ \A m \in 1..n : b[m] = log[a + m]
  BY <1>1, BatchOf
<1>3. PICK g \in [0..n -> [RegIds -> Stored]] :
           /\ g[0] = t /\ Replay(t, b) = g[n]
           /\ \A m \in 1..n : g[m] = [g[m - 1] EXCEPT ![b[m].id] = b[m].val]
  <2>1. PICK I, S : I = RegIds /\ S = Stored  OBVIOUS
  <2>2. t \in [I -> S] /\ b \in Seq([id : I, val : S])  BY <1>2, <2>1 DEF Entry
  <2>3. \E g \in [0..Len(b) -> [I -> S]] : IsReplay(g, t, b)
    BY ONLY <2>2, ReplaySteps
  <2> QED BY <1>2, <2>1, <2>3 DEF IsReplay
<1> DEFINE T == {m \in 0..n : \E i \in RegIds : ~SettledIn(log, a + m, i, g[m][i])}
<1>4. T = {}
  <2> SUFFICES ASSUME T # {} PROVE FALSE  OBVIOUS
  <2>1. PICK m \in T : \A k \in T : ~(<<k, m>> \in OpToRel(<, Nat))
    <3>1. T \subseteq Nat  OBVIOUS
    <3> HIDE DEF T
    <3> QED BY <3>1, WFMin, NatLessThanWellFounded
  <2>2. m \in 0..n /\ m \in Nat
    <3>1. T \subseteq 0..n  OBVIOUS
    <3> HIDE DEF T
    <3>2. m \in 0..n  BY <2>1, <3>1
    <3> QED BY <3>2
  <2>3. m # 0
    <3>1. a + 0 = a /\ g[0] = t  BY <1>3
    <3> QED BY <2>1, <3>1
  <2>4. m - 1 \in 0..n /\ m \in 1..n /\ m - 1 \in Nat /\ (a + (m - 1)) + 1 = a + m  BY <2>2, <2>3
  <2>5. m - 1 \notin T
    <3> HIDE DEF T
    <3>1. <<m - 1, m>> \in OpToRel(<, Nat)  BY <2>2, <2>4 DEF OpToRel
    <3> QED BY <2>1, <3>1
  <2>6. \A i \in RegIds : SettledIn(log, a + (m - 1), i, g[m - 1][i])  BY <2>4, <2>5
  <2>7. ASSUME NEW i \in RegIds PROVE SettledIn(log, a + m, i, g[m][i])
    <3>1. a + (m - 1) \in Nat  BY <2>4
    <3>2. PICK k : k = a + (m - 1)  OBVIOUS
    <3>3. SettledIn(log, k + 1, i, IF log[k + 1].id = i THEN log[k + 1].val ELSE g[m - 1][i])
      BY <2>6, <3>1, <3>2, SettledStep
    <3>4. log[k + 1] = b[m] /\ k + 1 = a + m  BY <1>2, <2>4, <3>2
    <3>5. g[m][i] = IF b[m].id = i THEN b[m].val ELSE g[m - 1][i]
      <4>1. g[m] = [g[m - 1] EXCEPT ![b[m].id] = b[m].val]  BY <1>3, <2>4
      <4>2. g[m - 1] \in [RegIds -> Stored]  BY <1>3, <2>4
      <4> QED BY <4>1, <4>2
    <3> QED BY <3>3, <3>4, <3>5
  <2> QED BY <2>1, <2>7
<1>5. n \in 0..n  OBVIOUS
<1>6. \A i \in RegIds : SettledIn(log, a + n, i, g[n][i])  BY <1>4, <1>5
<1>7. g[n] \in [RegIds -> Stored]  BY <1>3, <1>5
<1> QED BY <1>1, <1>3, <1>6, <1>7

Logged(i) == \E n \in DOMAIN reglog : reglog[n].id = i
Busy(c, i) == regclient[c].pc # "idle" /\ regclient[c].id = i
Registering(c, i) == Busy(c, i) /\ regclient[c].val # NoReg
Deleting(c, i) == Busy(c, i) /\ regclient[c].val = NoReg

RegTyped ==
  /\ kind \in RegKinds
  /\ table \in [RegIds -> Stored] /\ served \in [Names -> Stored]
  /\ reglog \in Seq(Entry)
  /\ rtable \in [RegIds -> Stored]
  /\ applied \in Nat /\ applied <= Len(reglog)
  /\ regclient \in [RegClients -> [pc : {"idle", "log", "copy"}, id : Names, val : Stored]]
  /\ \A c \in RegClients : regclient[c].pc # "idle" => regclient[c].id \in RegIds
  /\ regcrashes \in Nat

\* A registration is alone with its id until it is answered.
RegisteringAlone(i) ==
  \A c \in RegClients : Registering(c, i) =>
    /\ table[i] = regclient[c].val /\ served[i] = NoReg
    /\ \A d \in RegClients : Busy(d, i) => d = c
    /\ regclient[c].pc = "log" => ~Logged(i)
    /\ regclient[c].pc = "copy" => SettledIn(reglog, Len(reglog), i, table[i])

\* A deletion follows the registration in the log.
DeletingLogged(i) ==
  \A c \in RegClients : Deleting(c, i) =>
    /\ table[i] = NoReg /\ Logged(i)
    /\ regclient[c].pc = "copy" => SettledIn(reglog, Len(reglog), i, NoReg)

\* Else the copy and the log have what the bucket has, or a deletion is on its way.
Underway(i) ==
  (\A c \in RegClients : ~Registering(c, i)) =>
    /\ served[i] # NoReg => Logged(i)
    /\ table[i] # NoReg => served[i] = table[i] /\ SettledIn(reglog, Len(reglog), i, table[i])
    /\ table[i] = NoReg =>
         /\ served[i] = NoReg \/ \E c \in RegClients : Deleting(c, i)
         /\ SettledIn(reglog, Len(reglog), i, NoReg)
              \/ \E c \in RegClients : Deleting(c, i) /\ regclient[c].pc = "log"

HookOrdered(i) == RegisteringAlone(i) /\ DeletingLogged(i) /\ Underway(i)

\* Without a restart the follower's bucket is what the entries it applied make of an empty one.
FollowerReplays ==
  regcrashes = 0 => \A i \in RegIds : SettledIn(reglog, applied, i, rtable[i])

FollowerCopies ==
  (kind = "webhooks" /\ reload = <<>>) => \A i \in RegIds : rserved[i] = rtable[i]

HooksOrdered ==
  (kind = "webhooks" /\ regcrashes = 0) => \A i \in RegIds : HookOrdered(i)

RegInv == RegTyped /\ HooksOrdered /\ FollowerReplays /\ FollowerCopies /\ FollowerServesStored

\* The invariant holds initially.
LEMMA RegInitInv == RegInit => RegInv
<1> SUFFICES ASSUME RegInit PROVE RegInv  OBVIOUS
<1> USE DEF RegInit
<1>1. RegTyped
  BY DEF RegTyped, Stored, Entry, RegIdle, NoTable, NoCopy, Names
<1>2. Len(reglog) = 0 /\ \A i, v : SettledIn(reglog, 0, i, NoReg)
  BY DEF SettledIn
<1>3. HooksOrdered
  <2>1. \A c \in RegClients : regclient[c].pc = "idle"  BY DEF RegIdle
  <2>2. \A i \in RegIds : table[i] = NoReg /\ served[i] = NoReg  BY DEF NoTable, NoCopy, Names
  <2> QED BY <1>2, <2>1, <2>2 DEF HooksOrdered, HookOrdered, RegisteringAlone, DeletingLogged, Underway,
             Registering, Deleting, Busy
<1>4. FollowerReplays
  <2>1. \A i \in RegIds : rtable[i] = NoReg  BY DEF NoTable
  <2> QED BY <1>2, <2>1 DEF FollowerReplays
<1>5. FollowerCopies /\ FollowerServesStored
  BY DEF FollowerCopies, FollowerServesStored, NoTable, NoCopy, Names
<1> QED BY <1>1, <1>3, <1>4, <1>5 DEF RegInv

\* Every action keeps the types.
LEMMA RegTypedStep == RegTyped /\ [RegNext]_regVars => RegTyped'
<1> SUFFICES ASSUME RegTyped, [RegNext]_regVars PROVE RegTyped'  OBVIOUS
<1> USE DEF RegTyped
<1>1. ASSUME NEW c \in RegClients, NEW i \in RegIds, NEW v \in RegVals, RegSet(c, i, v) PROVE RegTyped'
  BY <1>1 DEF RegSet, followerVars, Stored, Names
<1>2. ASSUME NEW c \in RegClients, NEW i \in RegIds, RegDelete(c, i) PROVE RegTyped'
  BY <1>2 DEF RegDelete, followerVars, Stored, Names
<1>3. ASSUME NEW c \in RegClients, RegAppend(c) PROVE RegTyped'
  <2>1. [id |-> regclient[c].id, val |-> regclient[c].val] \in Entry
    BY <1>3 DEF RegAppend, Entry
  <2>2. reglog' \in Seq(Entry) /\ Len(reglog') = Len(reglog) + 1 /\ Len(reglog) \in Nat
    BY <1>3, <2>1 DEF RegAppend
  <2>3. applied' \in Nat /\ applied' <= Len(reglog')
    BY <1>3, <2>2 DEF RegAppend, followerVars
  <2> QED BY <1>3, <2>2, <2>3 DEF RegAppend, followerVars
<1>4. ASSUME NEW c \in RegClients, RegCopy(c) PROVE RegTyped'
  BY <1>4 DEF RegCopy, followerVars, RegIdle, Names, Stored
<1>5. ASSUME NEW n \in 1..MaxRegReqs, Apply(n) PROVE RegTyped'
  <2>1. n \in Nat /\ applied + n <= Len(reglog) /\ applied' = applied + n
    <3>1. n \in Nat  BY MaxRegReqsAssumption
    <3>2. applied + n <= Len(reglog) /\ applied' = applied + n  BY <1>5 DEF Apply
    <3> QED BY <3>1, <3>2
  <2>2. rtable' = Replay(rtable, SubSeq(reglog, applied + 1, applied + n))  BY <1>5 DEF Apply, Replay
  <2>3. rtable' \in [RegIds -> Stored]  BY <2>1, <2>2, ReplayTyped
  <2>4. UNCHANGED <<kind, table, served, reglog, regclient, regcrashes>>  BY <1>5 DEF Apply, leaderVars
  <2> QED BY <2>1, <2>3, <2>4
<1>6. CASE UpdateInMemoryState  BY <1>6 DEF UpdateInMemoryState, leaderVars
<1>7. CASE RegRestart
  <2>1. served' \in [Names -> Stored]  BY <1>7 DEF RegRestart, Loaded, NoCopy, Stored
  <2> QED BY <1>7, <2>1 DEF RegRestart, followerVars, RegIdle, Names, Stored
<1>8. CASE RegFollowerRestart  BY <1>8 DEF RegFollowerRestart, leaderVars
<1>9. CASE UNCHANGED regVars  BY <1>9 DEF regVars
<1> QED BY <1>1, <1>2, <1>3, <1>4, <1>5, <1>6, <1>7, <1>8, <1>9 DEF RegNext

\* A step that leaves an id alone keeps its order.
LEMMA HookFrame ==
  ASSUME RegTyped, NEW i \in RegIds, HookOrdered(i), table'[i] = table[i], served'[i] = served[i],
         \A d \in RegClients : /\ (Busy(d, i)' <=> Busy(d, i))
                               /\ Busy(d, i) => regclient'[d] = regclient[d],
         reglog' = reglog \/ \E e \in Entry : e.id # i /\ reglog' = Append(reglog, e)
  PROVE  HookOrdered(i)'
<1>1. \A d \in RegClients : /\ (Registering(d, i)' <=> Registering(d, i))
                            /\ (Deleting(d, i)' <=> Deleting(d, i))
  BY DEF Registering, Deleting, Busy
<1>2. ASSUME NEW v, SettledIn(reglog, Len(reglog), i, v) PROVE SettledIn(reglog', Len(reglog'), i, v)
  <2>1. CASE reglog' = reglog  BY <1>2, <2>1
  <2>2. ASSUME NEW e \in Entry, e.id # i, reglog' = Append(reglog, e)
        PROVE  SettledIn(reglog', Len(reglog'), i, v)
    <3>1. reglog \in Seq(Entry)  BY DEF RegTyped
    <3>2. SettledIn(Append(reglog, e), Len(Append(reglog, e)), i, IF e.id = i THEN e.val ELSE v)
      BY <1>2, <3>1, SettledAppend
    <3> QED BY <2>2, <3>2
  <2> QED BY <2>1, <2>2
<1>3. Logged(i)' <=> Logged(i)
  <2>1. CASE reglog' = reglog  BY <2>1 DEF Logged
  <2>2. ASSUME NEW e \in Entry, e.id # i, reglog' = Append(reglog, e) PROVE Logged(i)' <=> Logged(i)
    <3>1. reglog \in Seq(Entry)  BY DEF RegTyped
    <3>2. /\ DOMAIN reglog' = DOMAIN reglog \cup {Len(reglog) + 1} /\ reglog'[Len(reglog) + 1] = e
          /\ \A n \in DOMAIN reglog : reglog'[n] = reglog[n]
      BY <2>2, <3>1
    <3> QED BY <2>2, <3>2 DEF Logged
  <2> QED BY <2>1, <2>2
<1>4. RegisteringAlone(i)'
  BY <1>1, <1>2, <1>3 DEF HookOrdered, RegisteringAlone, Registering
<1>5. DeletingLogged(i)'
  BY <1>1, <1>2, <1>3 DEF HookOrdered, DeletingLogged, Deleting
<1>6. Underway(i)'
  BY <1>1, <1>2, <1>3 DEF HookOrdered, Underway, Deleting
<1> QED BY <1>4, <1>5, <1>6 DEF HookOrdered

\* No action takes a hook out of the order of the log.
LEMMA HooksOrderedStep == RegInv /\ [RegNext]_regVars => HooksOrdered'
<1> SUFFICES ASSUME RegInv, [RegNext]_regVars, kind' = "webhooks", regcrashes' = 0, NEW i \in RegIds
             PROVE  HookOrdered(i)'
  BY DEF HooksOrdered
<1>0. RegTyped /\ RegTyped'  BY RegTypedStep DEF RegInv
<1>a. reglog \in Seq(Entry) /\ Len(reglog) \in Nat  BY <1>0 DEF RegTyped
<1>b. ASSUME kind = "webhooks", regcrashes = 0 PROVE HookOrdered(i)
  BY <1>b DEF RegInv, HooksOrdered
<1>c. ASSUME NEW j \in RegIds, j # i, NEW c \in RegClients, HookOrdered(i),
             regclient' = [regclient EXCEPT ![c] = regclient'[c]],
             ~Busy(c, i), ~Busy(c, i)', table'[i] = table[i], served'[i] = served[i],
             reglog' = reglog \/ \E e \in Entry : e.id # i /\ reglog' = Append(reglog, e)
      PROVE  HookOrdered(i)'
  <2>1. ASSUME NEW d \in RegClients
        PROVE  (Busy(d, i)' <=> Busy(d, i)) /\ (Busy(d, i) => regclient'[d] = regclient[d])
    <3>1. CASE d = c  BY <1>c, <3>1
    <3>2. CASE d # c
      <4>1. regclient'[d] = regclient[d]  BY <1>0, <1>c, <3>2 DEF RegTyped
      <4> QED BY <4>1 DEF Busy
    <3> QED BY <3>1, <3>2
  <2> QED BY <1>0, <1>c, <2>1, HookFrame
<1>1. ASSUME NEW c \in RegClients, NEW j \in RegIds, NEW v \in RegVals, RegSet(c, j, v)
      PROVE  HookOrdered(i)'
  <2> USE <1>1
  <2>0. /\ kind = "webhooks" /\ regcrashes = 0 /\ HookOrdered(i) /\ ~Used(j)
        /\ regclient[c].pc = "idle" /\ table' = [table EXCEPT ![j] = v]
        /\ served' = served /\ reglog' = reglog
        /\ regclient' = [regclient EXCEPT ![c] = [pc |-> "log", id |-> j, val |-> v]]
    BY <1>b DEF RegSet, FreshIds
  <2>1. CASE j # i
    BY <1>0, <1>c, <2>0, <2>1 DEF RegTyped, Busy
  <2>2. CASE j = i
    <3>1. table[i] = NoReg /\ ~Logged(i) /\ ~Logged(i)'  BY <2>0, <2>2 DEF Used, Logged
    <3>2. \A d \in RegClients : ~Busy(d, i)
      <4>1. \A d \in RegClients : ~Registering(d, i)
        BY <2>0, <3>1 DEF HookOrdered, RegisteringAlone, Registering
      <4>2. \A d \in RegClients : ~Deleting(d, i)
        BY <2>0, <3>1 DEF HookOrdered, DeletingLogged
      <4> QED BY <4>1, <4>2 DEF Registering, Deleting
    <3>3. served[i] = NoReg
      BY <2>0, <3>1, <3>2 DEF HookOrdered, Underway, Registering
    <3>4. /\ table'[i] = v /\ served'[i] = NoReg /\ v # NoReg
          /\ regclient'[c] = [pc |-> "log", id |-> i, val |-> v]
          /\ \A d \in RegClients : d # c => regclient'[d] = regclient[d]
      BY <1>0, <2>0, <2>2, <3>3, NoRegAssumption DEF RegTyped
    <3>5. \A d \in RegClients : Busy(d, i)' <=> d = c
      BY <3>2, <3>4 DEF Busy
    <3>6. Registering(c, i)'  BY <3>4 DEF Registering, Busy
    <3> QED BY <3>1, <3>4, <3>5, <3>6
            DEF HookOrdered, RegisteringAlone, DeletingLogged, Underway, Registering, Deleting
  <2> QED BY <2>1, <2>2
<1>2. ASSUME NEW c \in RegClients, NEW j \in RegIds, RegDelete(c, j) PROVE HookOrdered(i)'
  <2> USE <1>2
  <2>0. /\ kind = "webhooks" /\ regcrashes = 0 /\ HookOrdered(i) /\ served[j] # NoReg
        /\ regclient[c].pc = "idle" /\ table' = [table EXCEPT ![j] = NoReg]
        /\ served' = served /\ reglog' = reglog
        /\ regclient' = [regclient EXCEPT ![c] = [pc |-> "log", id |-> j, val |-> NoReg]]
    BY <1>b DEF RegDelete, FreshIds
  <2>1. CASE j # i
    BY <1>0, <1>c, <2>0, <2>1 DEF RegTyped, Busy
  <2>2. CASE j = i
    <3>1. /\ table'[i] = NoReg /\ served'[i] = served[i]
          /\ regclient'[c] = [pc |-> "log", id |-> i, val |-> NoReg]
          /\ \A d \in RegClients : d # c => regclient'[d] = regclient[d]
      BY <1>0, <2>0, <2>2 DEF RegTyped
    <3>2. \A d \in RegClients : ~Registering(d, i)
      BY <2>0, <2>2 DEF HookOrdered, RegisteringAlone
    <3>3. Logged(i)  BY <2>0, <2>2, <3>2 DEF HookOrdered, Underway
    <3>4. Logged(i)'  BY <2>0, <3>3 DEF Logged
    <3>5. \A d \in RegClients : ~Registering(d, i)'
      BY <3>1, <3>2 DEF Registering, Busy
    <3>6. Deleting(c, i)' /\ regclient'[c].pc = "log"  BY <3>1 DEF Deleting, Busy
    <3>7. ASSUME NEW d \in RegClients, Deleting(d, i)', regclient'[d].pc = "copy"
          PROVE  SettledIn(reglog', Len(reglog'), i, NoReg)
      <4>1. d # c  BY <3>1, <3>7
      <4>2. Deleting(d, i) /\ regclient[d].pc = "copy"
        BY <3>1, <3>7, <4>1 DEF Deleting, Busy
      <4> QED BY <2>0, <4>2 DEF HookOrdered, DeletingLogged
    <3>8. DeletingLogged(i)'  BY <3>1, <3>4, <3>7 DEF DeletingLogged
    <3>9. RegisteringAlone(i)'  BY <3>5 DEF RegisteringAlone
    <3>10. Underway(i)'  BY <3>1, <3>4, <3>6 DEF Underway
    <3> QED BY <3>8, <3>9, <3>10 DEF HookOrdered
  <2> QED BY <2>1, <2>2
<1>3. ASSUME NEW c \in RegClients, RegAppend(c) PROVE HookOrdered(i)'
  <2> USE <1>3
  <2>0. /\ kind = "webhooks" /\ regcrashes = 0 /\ HookOrdered(i)
        /\ regclient[c].pc = "log" /\ table' = table /\ served' = served
        /\ reglog' = Append(reglog, [id |-> regclient[c].id, val |-> regclient[c].val])
        /\ regclient' = [regclient EXCEPT ![c].pc = "copy"]
    BY <1>b DEF RegAppend
  <2>1. PICK e \in Entry : /\ e = [id |-> regclient[c].id, val |-> regclient[c].val]
                           /\ e.id = regclient[c].id /\ e.val = regclient[c].val
                           /\ reglog' = Append(reglog, e)
    BY <1>0, <2>0 DEF RegTyped, Entry
  <2>2. /\ regclient'[c].pc = "copy" /\ regclient'[c].id = regclient[c].id
        /\ regclient'[c].val = regclient[c].val
        /\ \A d \in RegClients : d # c => regclient'[d] = regclient[d]
    BY <1>0, <2>0 DEF RegTyped
  <2>3. CASE e.id # i
    <3>1. regclient' = [regclient EXCEPT ![c] = regclient'[c]]  BY <1>0, <2>0 DEF RegTyped
    <3>2. ~Busy(c, i) /\ ~Busy(c, i)'  BY <2>1, <2>2, <2>3 DEF Busy
    <3>3. e.id \in RegIds  BY <2>1 DEF Entry
    <3> QED BY <1>c, <2>0, <2>1, <2>3, <3>1, <3>2, <3>3
  <2>4. CASE e.id = i
    <3>1. Busy(c, i) /\ Busy(c, i)'  BY <2>0, <2>1, <2>2, <2>4 DEF Busy
    <3>2. Logged(i)'
      <4>1. Len(reglog) + 1 \in DOMAIN reglog' /\ reglog'[Len(reglog) + 1] = e  BY <1>a, <2>1
      <4> QED BY <2>4, <4>1 DEF Logged
    <3>3. SettledIn(reglog', Len(reglog'), i, e.val)
      <4>1. Len(reglog') = Len(reglog) + 1 /\ reglog'[Len(reglog) + 1] = e  BY <1>a, <2>1
      <4>2. PICK k : k = Len(reglog)  OBVIOUS
      <4>3. k + 1 \in 1..(k + 1) /\ \A m \in (k + 1 + 1)..(k + 1) : FALSE  BY <1>a, <4>2
      <4>4. SettledIn(reglog', k + 1, i, e.val)  BY <2>4, <4>1, <4>2, <4>3 DEF SettledIn
      <4> QED BY <4>1, <4>2, <4>4
    <3>4. \A d \in RegClients : (Busy(d, i)' <=> Busy(d, i)) /\ (Registering(d, i)' <=> Registering(d, i))
                                /\ (Deleting(d, i)' <=> Deleting(d, i))
      BY <2>2, <3>1 DEF Registering, Deleting, Busy
    <3>5. CASE e.val # NoReg
      <4>1. Registering(c, i) /\ Registering(c, i)'  BY <2>1, <3>1, <3>4, <3>5 DEF Registering
      <4>2. table[i] = e.val /\ served[i] = NoReg /\ \A d \in RegClients : Busy(d, i) => d = c
        BY <2>0, <2>1, <4>1 DEF HookOrdered, RegisteringAlone
      <4>3. RegisteringAlone(i)'
        BY <2>0, <2>1, <2>2, <3>3, <3>4, <4>1, <4>2 DEF RegisteringAlone, Registering
      <4>4. DeletingLogged(i)'
        BY <3>4, <4>1, <4>2 DEF DeletingLogged, Deleting, Registering
      <4>5. Underway(i)'  BY <4>1 DEF Underway
      <4> QED BY <4>3, <4>4, <4>5 DEF HookOrdered
    <3>6. CASE e.val = NoReg
      <4>1. Deleting(c, i)  BY <2>1, <3>1, <3>6 DEF Deleting
      <4>2. table[i] = NoReg /\ Logged(i)
        BY <2>0, <4>1 DEF HookOrdered, DeletingLogged
      <4>3. \A d \in RegClients : ~Registering(d, i)
        BY <2>0, <3>1, <4>1 DEF HookOrdered, RegisteringAlone, Deleting, Registering
      <4>4. RegisteringAlone(i)'  BY <3>4, <4>3 DEF RegisteringAlone
      <4>5. DeletingLogged(i)'  BY <2>0, <3>2, <3>3, <3>6, <4>2 DEF DeletingLogged
      <4>6. Underway(i)'
        BY <2>0, <3>2, <3>3, <3>4, <3>6, <4>2, <4>3 DEF Underway, HookOrdered
      <4> QED BY <4>4, <4>5, <4>6 DEF HookOrdered
    <3> QED BY <3>5, <3>6
  <2> QED BY <2>3, <2>4
<1>4. ASSUME NEW c \in RegClients, RegCopy(c) PROVE HookOrdered(i)'
  <2> USE <1>4
  <2>0. /\ kind = "webhooks" /\ regcrashes = 0 /\ HookOrdered(i)
        /\ regclient[c].pc = "copy" /\ table' = table /\ reglog' = reglog
        /\ served' = [served EXCEPT ![regclient[c].id] = regclient[c].val]
        /\ regclient' = [regclient EXCEPT ![c] = RegIdle]
    BY <1>b DEF RegCopy
  <2>1. PICK j, v : j = regclient[c].id /\ v = regclient[c].val  OBVIOUS
  <2>2. /\ j \in RegIds /\ regclient'[c].pc = "idle"
        /\ \A d \in RegClients : d # c => regclient'[d] = regclient[d]
        /\ served' = [served EXCEPT ![j] = v]
    BY <1>0, <2>0, <2>1 DEF RegTyped, RegIdle
  <2>3. CASE j # i
    <3>1. regclient' = [regclient EXCEPT ![c] = regclient'[c]]  BY <1>0, <2>0 DEF RegTyped
    <3>2. ~Busy(c, i) /\ ~Busy(c, i)'  BY <2>1, <2>2, <2>3 DEF Busy
    <3>3. served'[i] = served[i]  BY <1>0, <2>2, <2>3 DEF RegTyped, Names
    <3> QED BY <1>c, <2>0, <2>2, <2>3, <3>1, <3>2, <3>3
  <2>4. CASE j = i
    <3>1. served'[i] = v  BY <1>0, <2>2, <2>4 DEF RegTyped, Names
    <3>2. Busy(c, i) /\ ~Busy(c, i)'  BY <2>0, <2>1, <2>2, <2>4 DEF Busy
    <3>3. \A d \in RegClients : d # c => /\ (Busy(d, i)' <=> Busy(d, i))
                                         /\ (Registering(d, i)' <=> Registering(d, i))
                                         /\ (Deleting(d, i)' <=> Deleting(d, i))
      BY <2>2 DEF Registering, Deleting, Busy
    <3>4. ~Registering(c, i)' /\ ~Deleting(c, i)'  BY <3>2 DEF Registering, Deleting
    <3>5. Logged(i)' <=> Logged(i)  BY <2>0 DEF Logged
    <3>6. CASE v # NoReg
      <4>1. Registering(c, i)  BY <2>1, <3>2, <3>6 DEF Registering
      <4>2. /\ table[i] = v /\ SettledIn(reglog, Len(reglog), i, table[i])
            /\ \A d \in RegClients : Busy(d, i) => d = c
        BY <2>0, <2>1, <4>1 DEF HookOrdered, RegisteringAlone
      <4>3. \A d \in RegClients : ~Registering(d, i)' /\ ~Deleting(d, i)'
        BY <3>3, <3>4, <4>2 DEF Registering, Deleting
      <4>4. Logged(i)
        BY <1>a, <3>6, <4>2 DEF SettledIn, Logged
      <4> QED BY <2>0, <3>1, <3>5, <3>6, <4>2, <4>3, <4>4
              DEF HookOrdered, RegisteringAlone, DeletingLogged, Underway
    <3>7. CASE v = NoReg
      <4>1. Deleting(c, i)  BY <2>1, <3>2, <3>7 DEF Deleting
      <4>2. /\ table[i] = NoReg /\ Logged(i) /\ SettledIn(reglog, Len(reglog), i, NoReg)
        BY <2>0, <4>1 DEF HookOrdered, DeletingLogged
      <4>3. \A d \in RegClients : ~Registering(d, i)
        BY <2>0, <3>2, <4>1 DEF HookOrdered, RegisteringAlone, Deleting, Registering
      <4>4. RegisteringAlone(i)'  BY <3>3, <3>4, <4>3 DEF RegisteringAlone
      <4>5. DeletingLogged(i)'  BY <2>0, <3>5, <4>2 DEF DeletingLogged
      <4>6. Underway(i)'  BY <2>0, <3>1, <3>7, <4>2 DEF Underway
      <4> QED BY <4>4, <4>5, <4>6 DEF HookOrdered
    <3> QED BY <3>6, <3>7
  <2> QED BY <2>3, <2>4
<1>5. ASSUME NEW n \in 1..MaxRegReqs, Apply(n) PROVE HookOrdered(i)'
  <2>1. UNCHANGED <<kind, table, served, reglog, regclient, regcrashes>>  BY <1>5 DEF Apply, leaderVars
  <2>2. HookOrdered(i)  BY <1>b, <2>1
  <2> QED BY <1>0, <2>1, <2>2, HookFrame DEF Busy
<1>6. CASE UpdateInMemoryState
  <2>1. UNCHANGED <<kind, table, served, reglog, regclient, regcrashes>>
    BY <1>6 DEF UpdateInMemoryState, leaderVars
  <2>2. HookOrdered(i)  BY <1>b, <2>1
  <2> QED BY <1>0, <2>1, <2>2, HookFrame DEF Busy
<1>7. CASE RegRestart \/ RegFollowerRestart
  <2>1. regcrashes' = regcrashes + 1  BY <1>7 DEF RegRestart, RegFollowerRestart
  <2> QED BY <1>0, <2>1 DEF RegTyped
<1>8. CASE UNCHANGED regVars
  <2>1. UNCHANGED <<kind, table, served, reglog, regclient, regcrashes>>  BY <1>8 DEF regVars
  <2>2. HookOrdered(i)  BY <1>b, <2>1
  <2> QED BY <1>0, <2>1, <2>2, HookFrame DEF Busy
<1> QED BY <1>1, <1>2, <1>3, <1>4, <1>5, <1>6, <1>7, <1>8 DEF RegNext

\* The follower that replays has what the leader logged.
LEMMA FollowerStep ==
  RegInv /\ [RegNext]_regVars => FollowerReplays' /\ FollowerCopies' /\ FollowerServesStored'
<1> SUFFICES ASSUME RegInv, [RegNext]_regVars
             PROVE  FollowerReplays' /\ FollowerCopies' /\ FollowerServesStored'
  OBVIOUS
<1>0. RegTyped  BY DEF RegInv
<1>a. ASSUME NEW copy, NEW n \in RegIds, rtable[n] # NoReg \/ kind = "webhooks"
      PROVE  Loaded(copy, rtable)[n] = rtable[n]
  BY <1>a DEF Loaded, Names, Replaced
<1>1. ASSUME UNCHANGED <<kind, rtable, rserved, applied, reload, reglog, regcrashes>>
      PROVE  FollowerReplays' /\ FollowerCopies' /\ FollowerServesStored'
  <2>1. FollowerReplays /\ FollowerCopies /\ FollowerServesStored  BY DEF RegInv
  <2> QED BY <1>1, <2>1 DEF FollowerReplays, FollowerCopies, FollowerServesStored
<1>2. ASSUME NEW c \in RegClients, RegAppend(c)
      PROVE  FollowerReplays' /\ FollowerCopies' /\ FollowerServesStored'
  <2>1. UNCHANGED <<kind, rtable, rserved, applied, reload, regcrashes>>  BY <1>2 DEF RegAppend, followerVars
  <2>2. FollowerCopies' /\ FollowerServesStored'
    BY <2>1 DEF RegInv, FollowerCopies, FollowerServesStored
  <2>3. \A m \in 1..applied : reglog'[m] = reglog[m]
    BY <1>0, <1>2 DEF RegAppend, RegTyped
  <2>4. ASSUME regcrashes' = 0, NEW i \in RegIds PROVE SettledIn(reglog', applied', i, rtable'[i])
    <3>1. SettledIn(reglog, applied, i, rtable[i])  BY <2>1, <2>4 DEF RegInv, FollowerReplays
    <3>2. applied \in Nat  BY <1>0 DEF RegTyped
    <3>3. SettledIn(reglog', applied, i, rtable[i])  BY <2>3, <3>1, <3>2, SettledSame
    <3> QED BY <2>1, <3>3
  <2> QED BY <2>2, <2>4 DEF FollowerReplays
<1>3. ASSUME NEW n \in 1..MaxRegReqs, Apply(n)
      PROVE  FollowerReplays' /\ FollowerCopies' /\ FollowerServesStored'
  <2>1. n \in Nat /\ n # 0  BY MaxRegReqsAssumption
  <2>2. /\ applied + n <= Len(reglog) /\ applied' = applied + n
        /\ reload' = SubSeq(reglog, applied + 1, applied + n)
        /\ UNCHANGED <<kind, reglog, regcrashes>>
    BY <1>3 DEF Apply, leaderVars
  <2>3. rtable' = Replay(rtable, SubSeq(reglog, applied + 1, applied + n))  BY <1>3 DEF Apply, Replay
  <2>4. reload' # <<>>
    <3>1. Len(SubSeq(reglog, applied + 1, applied + n)) = n
      BY <1>0, <2>1, <2>2, BatchOf DEF RegTyped
    <3> QED BY <2>1, <2>2, <3>1
  <2>5. ASSUME regcrashes' = 0 PROVE \A i \in RegIds : SettledIn(reglog, applied + n, i, rtable'[i])
    <3>1. \A i \in RegIds : SettledIn(reglog, applied, i, rtable[i])
      BY <2>2, <2>5 DEF RegInv, FollowerReplays
    <3> QED BY <1>0, <2>1, <2>2, <2>3, <3>1, ReplaySettles DEF RegTyped
  <2> QED BY <2>2, <2>4, <2>5 DEF FollowerReplays, FollowerCopies, FollowerServesStored
<1>4. CASE UpdateInMemoryState
  <2>1. UNCHANGED <<kind, rtable, applied, reglog, regcrashes>>
    BY <1>4 DEF UpdateInMemoryState, leaderVars
  <2>2. ASSUME kind \in Reloaded PROVE rserved' = Loaded(rserved, rtable)
    <3>1. kind # "vectors"  BY <2>2 DEF Reloaded
    <3> QED BY <1>4, <2>2, <3>1 DEF UpdateInMemoryState
  <2>3. FollowerReplays'  BY <2>1 DEF RegInv, FollowerReplays
  <2>4. FollowerCopies'  BY <1>a, <2>1, <2>2 DEF FollowerCopies, Reloaded
  <2>5. FollowerServesStored'  BY <1>a, <2>1, <2>2 DEF FollowerServesStored
  <2> QED BY <2>3, <2>4, <2>5
<1>5. CASE RegRestart
  <2>1. UNCHANGED <<kind, rtable, rserved, applied, reload, reglog>> /\ regcrashes' = regcrashes + 1
    BY <1>5 DEF RegRestart, followerVars
  <2>2. regcrashes' # 0  BY <1>0, <2>1 DEF RegTyped
  <2> QED BY <2>1, <2>2 DEF RegInv, FollowerReplays, FollowerCopies, FollowerServesStored
<1>6. CASE RegFollowerRestart
  <2>1. UNCHANGED <<kind, rtable>> /\ regcrashes' = regcrashes + 1 /\ rserved' = Loaded(NoCopy, rtable)
    BY <1>6 DEF RegFollowerRestart, leaderVars
  <2>2. regcrashes' # 0  BY <1>0, <2>1 DEF RegTyped
  <2> QED BY <1>a, <2>1, <2>2 DEF FollowerReplays, FollowerCopies, FollowerServesStored
<1>7. ASSUME NEW c \in RegClients, NEW i \in RegIds, NEW v \in RegVals, RegSet(c, i, v)
      PROVE  UNCHANGED <<kind, rtable, rserved, applied, reload, reglog, regcrashes>>
  BY <1>7 DEF RegSet, followerVars
<1>8. ASSUME NEW c \in RegClients, NEW i \in RegIds, RegDelete(c, i)
      PROVE  UNCHANGED <<kind, rtable, rserved, applied, reload, reglog, regcrashes>>
  BY <1>8 DEF RegDelete, followerVars
<1>9. ASSUME NEW c \in RegClients, RegCopy(c)
      PROVE  UNCHANGED <<kind, rtable, rserved, applied, reload, reglog, regcrashes>>
  BY <1>9 DEF RegCopy, followerVars
<1>10. CASE UNCHANGED regVars
  BY <1>1, <1>10 DEF regVars
<1> QED BY <1>1, <1>2, <1>3, <1>4, <1>5, <1>6, <1>7, <1>8, <1>9, <1>10 DEF RegNext

\* What the invariant says of webhooks when all is flushed.
LEMMA RegInvConverges == RegInv => WebhooksConverge
<1> SUFFICES ASSUME RegInv, kind = "webhooks", AllAnswered, regcrashes = 0, applied = Len(reglog),
                    reload = <<>>, NEW i \in RegIds
             PROVE  served[i] = table[i] /\ rserved[i] = table[i]
  BY DEF WebhooksConverge
<1>1. \A c \in RegClients : ~Registering(c, i) /\ ~Deleting(c, i)
  BY DEF AllAnswered, Registering, Deleting, Busy
<1>2. served[i] = table[i] /\ SettledIn(reglog, Len(reglog), i, table[i])
  BY <1>1 DEF RegInv, HooksOrdered, HookOrdered, Underway
<1>3. SettledIn(reglog, Len(reglog), i, rtable[i])  BY DEF RegInv, FollowerReplays
<1>4. Len(reglog) \in Nat  BY DEF RegInv, RegTyped
<1>5. rtable[i] = table[i]  BY <1>2, <1>3, <1>4, SettledUnique
<1> QED BY <1>2, <1>5 DEF RegInv, FollowerCopies

\* The follower and the leader serve what is stored (Register, Delete, ApplyBatch, LoadAll,
\* updateInMemoryState), for any ids, clients, batches and restarts.
THEOREM RegistriesCopiesAgree == RegSpec => []CopiesAgree
<1>1. RegInv /\ [RegNext]_regVars => RegInv'
  BY RegTypedStep, HooksOrderedStep, FollowerStep DEF RegInv
<1>2. RegInv => CopiesAgree
  BY RegInvConverges DEF RegInv, CopiesAgree
<1> QED BY RegInitInv, <1>1, <1>2, PTL DEF RegSpec

-----------------------------------------------------------------------------
(* FtsIndex *)

TextRecord == [blank : BOOLEAN, content : Bag, meta : Bag]
Index ==
  [post : [FDocs -> Bag], rev : [FDocs -> SUBSET Terms], len : [FDocs -> Nat], stat : Stat,
   pos : [FDocs -> SUBSET Terms], posrev : [FDocs -> SUBSET Terms],
   fpost : [FDocs -> [Fields -> Bag]], frev : [FDocs -> SUBSET (Fields \X Terms)],
   flen : [FDocs -> [Fields -> Nat]], fstat : [Fields -> Stat]]

\* Both fields of a text are bags.
LEMMA TextTyped ==
  ASSUME NEW text \in Texts
  PROVE  text \in TextRecord /\ text.content \in Bag /\ \A f \in Fields : text[f] \in Bag
<1>1. text \in TextRecord  BY TextsAssumption DEF TextRecord
<1>2. \A f \in Fields : text[f] \in Bag  BY <1>1 DEF TextRecord, Fields
<1> QED BY <1>1, <1>2 DEF TextRecord

\* The length of a bag is zero only if it has no term.
LEMMA LengthIs ==
  ASSUME NEW bag \in Bag
  PROVE  Length(bag) \in Nat /\ (Length(bag) > 0 <=> TermsOf(bag) # {})
<1>1. Length(bag) = SumOf(bag, Terms)  BY DEF Length, SumOf
<1>2. IsFiniteSet(Terms) /\ \A t \in Terms : bag[t] \in Nat  BY FtsFiniteAssumption DEF Bag
<1>3. /\ SumOf(bag, Terms) \in Nat
      /\ \A t \in Terms : bag[t] <= SumOf(bag, Terms)
      /\ (\A t \in Terms : bag[t] = 0) => SumOf(bag, Terms) = 0
  BY <1>2, SumNat
<1>4. ASSUME TermsOf(bag) # {} PROVE Length(bag) > 0
  <2>1. PICK t \in Terms : bag[t] > 0  BY <1>4 DEF TermsOf
  <2> QED BY <1>1, <1>2, <1>3, <2>1
<1>5. ASSUME TermsOf(bag) = {} PROVE Length(bag) = 0
  <2>1. \A t \in Terms : bag[t] = 0  BY <1>2, <1>5 DEF TermsOf
  <2> QED BY <1>1, <1>3, <2>1
<1> QED BY <1>1, <1>3, <1>4, <1>5

\* Once the terms that are posted are taken back, only the new ones are left.
LEMMA RepostedIs ==
  ASSUME NEW post \in Bag, NEW gone, TermsOf(post) \subseteq gone, NEW put \in Bag
  PROVE  Reposted(post, gone, put) = put
BY DEF Reposted, Bag, TermsOf

\* The bag without terms.
LEMMA ZeroIs == Zero \in Bag /\ TermsOf(Zero) = {} /\ \A bag \in Bag : TermsOf(bag) = {} => bag = Zero
BY DEF Zero, Bag, TermsOf

\* A field is named exactly if it has a term.
LEMMA NamedIs ==
  ASSUME NEW x, \A f \in Fields : x[f] \in Bag, NEW f \in Fields
  PROVE  f \in FieldsOf(FieldTerms(x)) <=> TermsOf(x[f]) # {}
<1>1. ASSUME f \in FieldsOf(FieldTerms(x)) PROVE TermsOf(x[f]) # {}
  <2>1. PICK p \in FieldTerms(x) : f = p[1]  BY <1>1 DEF FieldsOf
  <2>2. p[2] \in Terms /\ x[f][p[2]] > 0  BY <2>1 DEF FieldTerms
  <2> QED BY <2>2 DEF TermsOf
<1>2. ASSUME TermsOf(x[f]) # {} PROVE f \in FieldsOf(FieldTerms(x))
  <2>1. PICK t \in Terms : x[f][t] > 0  BY <1>2 DEF TermsOf
  <2>2. <<f, t>> \in FieldTerms(x)  BY <2>1 DEF FieldTerms
  <2> QED BY <2>2 DEF FieldsOf
<1> QED BY <1>1, <1>2

-----------------------------------------------------------------------------
\* The totals of a collection whose documents have these lengths.
TallyOf(len) == [docs |-> Cardinality({d \in FDocs : len[d] > 0}), terms |-> SumOf(len, FDocs)]

\* Totals have their type.
LEMMA TallyTyped ==
  ASSUME NEW len \in [FDocs -> Nat]
  PROVE  TallyOf(len) \in Stat /\ \A d \in FDocs : len[d] <= TallyOf(len).terms
<1>1. SumOf(len, FDocs) \in Nat /\ \A d \in FDocs : len[d] <= SumOf(len, FDocs)
  BY FtsFiniteAssumption, SumNat
<1>2. IsFiniteSet({d \in FDocs : len[d] > 0})  BY FtsFiniteAssumption, FS_Subset
<1>3. Cardinality({d \in FDocs : len[d] > 0}) \in Nat  BY <1>2, FS_CardinalityType
<1> QED BY <1>1, <1>3 DEF TallyOf, Stat

\* What the change of one length does to the totals.
LEMMA TallyChange ==
  ASSUME NEW len \in [FDocs -> Nat], NEW d \in FDocs, NEW n \in Nat
  PROVE  LET new == TallyOf([len EXCEPT ![d] = n])
             old == TallyOf(len)
         IN /\ new.terms = old.terms - len[d] + n
            /\ new.docs = old.docs + (IF n > 0 THEN 1 ELSE 0) - (IF len[d] > 0 THEN 1 ELSE 0)
<1> DEFINE new == [len EXCEPT ![d] = n]
           L == {e \in FDocs : len[e] > 0}
           N == {e \in FDocs : new[e] > 0}
<1>1. SumOf(new, FDocs) = SumOf(len, FDocs) - len[d] + new[d]
  <2>1. new[d] \in Int /\ \A y \in FDocs : y # d => new[y] = len[y]  OBVIOUS
  <2>2. \A y \in FDocs : len[y] \in Int  OBVIOUS
  <2> HIDE DEF new
  <2> QED BY <2>1, <2>2, FtsFiniteAssumption, SumChange
<1>2. IsFiniteSet(L) /\ IsFiniteSet(N)  BY FtsFiniteAssumption, FS_Subset
<1>3. Cardinality(L) \in Nat  BY <1>2, FS_CardinalityType
<1>4. Cardinality(N) = Cardinality(L) + (IF n > 0 THEN 1 ELSE 0) - (IF len[d] > 0 THEN 1 ELSE 0)
  <2>1. CASE n > 0 /\ len[d] > 0
    <3>1. N = L  BY <2>1
    <3> HIDE DEF N, L
    <3> QED BY <1>3, <2>1, <3>1
  <2>2. CASE n > 0 /\ ~(len[d] > 0)
    <3>1. N = L \cup {d} /\ d \notin L  BY <2>2
    <3> HIDE DEF N, L
    <3>2. Cardinality(L \cup {d}) = Cardinality(L) + 1  BY <1>2, <3>1, FS_AddElement
    <3> QED BY <1>3, <2>2, <3>1, <3>2
  <2>3. CASE ~(n > 0) /\ len[d] > 0
    <3>1. N = L \ {d} /\ d \in L  BY <2>3
    <3> HIDE DEF N, L
    <3>2. Cardinality(L \ {d}) = Cardinality(L) - 1  BY <1>2, <3>1, FS_RemoveElement
    <3> QED BY <1>3, <2>3, <3>1, <3>2
  <2>4. CASE ~(n > 0) /\ ~(len[d] > 0)
    <3>1. N = L  BY <2>4
    <3> HIDE DEF N, L
    <3> QED BY <1>3, <2>4, <3>1
  <2> QED BY <2>1, <2>2, <2>3, <2>4
<1>5. new[d] = n  OBVIOUS
<1> HIDE DEF new
<1>6. TallyOf(new).terms = TallyOf(len).terms - len[d] + n  BY <1>1, <1>5 DEF TallyOf
<1>7. TallyOf(new).docs = TallyOf(len).docs + (IF n > 0 THEN 1 ELSE 0) - (IF len[d] > 0 THEN 1 ELSE 0)
  BY <1>4 DEF TallyOf
<1> QED BY <1>6, <1>7 DEF new

\* A document leaves the totals, which never stop at zero.
LEMMA TallyLess ==
  ASSUME NEW len \in [FDocs -> Nat], NEW d \in FDocs, len[d] > 0
  PROVE  TallyOf([len EXCEPT ![d] = 0]) = Less(TallyOf(len), len[d])
<1>1. PICK new : new = [len EXCEPT ![d] = 0]  OBVIOUS
<1>2. new \in [FDocs -> Nat]  BY <1>1
<1>3. TallyOf(len) \in Stat /\ len[d] <= TallyOf(len).terms /\ TallyOf(new) \in Stat
  BY <1>2, TallyTyped
<1>4. TallyOf(new).terms = TallyOf(len).terms - len[d] + 0 /\ TallyOf(new).docs = TallyOf(len).docs + 0 - 1
  <2>1. PICK z \in Nat : z = 0  OBVIOUS
  <2>2. new = [len EXCEPT ![d] = z]  BY <1>1, <2>1
  <2>3. /\ TallyOf(new).terms = TallyOf(len).terms - len[d] + z
        /\ TallyOf(new).docs = TallyOf(len).docs + (IF z > 0 THEN 1 ELSE 0) - (IF len[d] > 0 THEN 1 ELSE 0)
    BY <2>2, TallyChange
  <2> QED BY <2>1, <2>3
<1>5. TallyOf(new) = [docs |-> TallyOf(new).docs, terms |-> TallyOf(new).terms]  BY <1>3 DEF Stat
<1>6. TallyOf(len).docs > 0  BY <1>3, <1>4 DEF Stat
<1>7. TallyOf(len).docs \in Nat /\ TallyOf(len).terms \in Nat /\ len[d] \in Nat  BY <1>3 DEF Stat
<1> QED BY <1>1, <1>3, <1>4, <1>5, <1>6, <1>7 DEF Less

\* What IndexBM25Meta adds keeps the totals exact.
LEMMA TallyMore ==
  ASSUME NEW len \in [FDocs -> Nat], NEW d \in FDocs, NEW n \in Nat, n > 0
  PROVE  TallyOf([len EXCEPT ![d] = n]) =
           IF len[d] > 0 THEN [docs |-> TallyOf(len).docs, terms |-> TallyOf(len).terms - len[d] + n]
           ELSE [docs |-> TallyOf(len).docs + 1, terms |-> TallyOf(len).terms + n]
<1>1. PICK new : new = [len EXCEPT ![d] = n]  OBVIOUS
<1>2. new \in [FDocs -> Nat]  BY <1>1
<1>3. TallyOf(len) \in Stat /\ TallyOf(new) \in Stat  BY <1>2, TallyTyped
<1>4. /\ TallyOf(new).terms = TallyOf(len).terms - len[d] + n
      /\ TallyOf(new).docs = TallyOf(len).docs + 1 - (IF len[d] > 0 THEN 1 ELSE 0)
  BY <1>1, TallyChange
<1>5. TallyOf(new) = [docs |-> TallyOf(new).docs, terms |-> TallyOf(new).terms]  BY <1>3 DEF Stat
<1>6. TallyOf(len).docs \in Nat /\ TallyOf(len).terms \in Nat /\ len[d] \in Nat  BY <1>3 DEF Stat
<1>7. CASE len[d] > 0  BY <1>1, <1>4, <1>5, <1>6, <1>7
<1>8. CASE ~(len[d] > 0)  
  <2>1. len[d] = 0  BY <1>6, <1>8
  <2> QED BY <1>1, <1>4, <1>5, <1>6, <1>8, <2>1
<1> QED BY <1>7, <1>8

-----------------------------------------------------------------------------
\* What holds of every document, and the totals, in each committed state of the index.
Lengths(ix, f) == [d \in FDocs |-> ix.flen[d][f]]
DocSound(ix, d) ==
  /\ ix.rev[d] = TermsOf(ix.post[d])
  /\ ix.posrev[d] = ix.pos[d]
  /\ ix.frev[d] = FieldTerms(ix.fpost[d])
  /\ ix.post[d] \in {Zero} \cup {text.content : text \in Texts}
  /\ ix.len[d] = Length(ix.post[d])
  /\ \A f \in Fields : ix.flen[d][f] = Length(ix.fpost[d][f])
TotalsSound(ix) == ix.stat = TallyOf(ix.len)
FieldTotalsSound(ix) == \A f \in Fields : ix.fstat[f] = TallyOf(Lengths(ix, f))
IxSound(ix) ==
  /\ ix \in Index
  /\ \A d \in FDocs : DocSound(ix, d)
  /\ TotalsSound(ix)
  /\ FieldTotalsSound(ix)

\* The lengths of one field.
LEMMA LengthsTyped == ASSUME NEW ix \in Index, NEW f \in Fields PROVE Lengths(ix, f) \in [FDocs -> Nat]
BY DEF Lengths, Index

\* The lengths of one field when those of one document change.
LEMMA LengthsChange ==
  ASSUME NEW ix \in Index, NEW d \in FDocs, NEW f \in Fields, NEW fl, NEW r,
         r.flen = [ix.flen EXCEPT ![d] = fl]
  PROVE  Lengths(r, f) = [Lengths(ix, f) EXCEPT ![d] = fl[f]]
<1>1. PICK g : g = ix.flen /\ DOMAIN g = FDocs  BY DEF Index
<1>2. r.flen = [g EXCEPT ![d] = fl]  BY <1>1
<1>3. \A e \in FDocs : r.flen[e][f] = IF e = d THEN fl[f] ELSE g[e][f]  BY <1>1, <1>2
<1> QED BY <1>1, <1>3 DEF Lengths

\* A document that an action leaves alone stays sound.
LEMMA DocSame ==
  ASSUME NEW ix, NEW r, NEW e, DocSound(ix, e), r.post[e] = ix.post[e], r.rev[e] = ix.rev[e],
         r.len[e] = ix.len[e], r.pos[e] = ix.pos[e], r.posrev[e] = ix.posrev[e],
         r.fpost[e] = ix.fpost[e], r.frev[e] = ix.frev[e], r.flen[e] = ix.flen[e]
  PROVE  DocSound(r, e)
BY DEF DocSound

\* What IndexWithLang and IndexPositionsWithLang make of the index.
Indexed(ix, d, bag) ==
  IndexBM25Meta([ix EXCEPT !.post[d] = Reposted(@, ix.rev[d], bag), !.rev[d] = TermsOf(bag)],
                d, Length(bag))
Positioned(ix, d, terms) ==
  [ix EXCEPT !.pos[d] = (@ \ ix.posrev[d]) \cup terms, !.posrev[d] = terms]

\* IndexWithLang keeps the index sound and posts the text.
LEMMA IndexedSound ==
  ASSUME NEW ix, IxSound(ix), NEW d \in FDocs, NEW text \in Texts, NEW bag, bag = text.content,
         TermsOf(bag) # {}, NEW r, r = Indexed(ix, d, bag)
  PROVE  /\ IxSound(r)
         /\ r.post = [ix.post EXCEPT ![d] = bag]
         /\ r.rev = [ix.rev EXCEPT ![d] = TermsOf(bag)]
<1>1. bag = text.content  OBVIOUS
<1>2. bag \in Bag /\ TermsOf(bag) # {}  BY <1>1, TextTyped
<1>3. Length(bag) \in Nat /\ Length(bag) > 0  BY <1>2, LengthIs
<1>4. ix \in Index  BY DEF IxSound
<1>5. Reposted(ix.post[d], ix.rev[d], bag) = bag
  <2>1. ix.post[d] \in Bag /\ TermsOf(ix.post[d]) \subseteq ix.rev[d]  BY <1>4 DEF IxSound, DocSound, Index
  <2> QED BY <1>2, <2>1, RepostedIs
<1>6. PICK iy : iy = [ix EXCEPT !.post[d] = Reposted(@, ix.rev[d], bag), !.rev[d] = TermsOf(bag)]
  OBVIOUS
<1>7. /\ iy.post = [ix.post EXCEPT ![d] = bag] /\ iy.rev = [ix.rev EXCEPT ![d] = TermsOf(bag)]
      /\ iy.len = ix.len /\ iy.stat = ix.stat /\ iy.pos = ix.pos /\ iy.posrev = ix.posrev
      /\ iy.fpost = ix.fpost /\ iy.frev = ix.frev /\ iy.flen = ix.flen /\ iy.fstat = ix.fstat
      /\ iy \in Index
  <2>1. TermsOf(bag) \in SUBSET Terms  BY DEF TermsOf
  <2> QED BY <1>2, <1>4, <1>5, <1>6, <2>1 DEF Index
<1>8. r = IndexBM25Meta(iy, d, Length(bag))  BY <1>1, <1>6 DEF Indexed
<1>a. PICK n : n = Length(bag)  OBVIOUS
<1>b. PICK st : st = IF ix.len[d] > 0
                       THEN [docs |-> ix.stat.docs, terms |-> ix.stat.terms - ix.len[d] + n]
                       ELSE [docs |-> ix.stat.docs + 1, terms |-> ix.stat.terms + n]
  OBVIOUS
<1>c. r = [iy EXCEPT !.len[d] = n, !.stat = st]  BY <1>7, <1>8, <1>a, <1>b DEF IndexBM25Meta
<1>9. /\ r.post = iy.post /\ r.rev = iy.rev /\ r.pos = ix.pos /\ r.posrev = ix.posrev
      /\ r.fpost = ix.fpost /\ r.frev = ix.frev /\ r.flen = ix.flen /\ r.fstat = ix.fstat
      /\ r.len = [ix.len EXCEPT ![d] = n] /\ r.stat = st
  BY <1>7, <1>c DEF Index
<1>10. ix.stat = TallyOf(ix.len) /\ ix.len \in [FDocs -> Nat]  BY <1>4 DEF IxSound, TotalsSound, Index
<1>11. r.stat = TallyOf(r.len) /\ r.len \in [FDocs -> Nat]
  BY <1>3, <1>9, <1>10, <1>a, <1>b, TallyMore
<1>12. r \in Index
  <2>1. st \in Stat /\ n \in Nat  BY <1>3, <1>9, <1>11, <1>a, TallyTyped
  <2>2. PICK iz : iz = [iy EXCEPT !.len[d] = n]  OBVIOUS
  <2>3. iz \in Index  BY <1>7, <2>1, <2>2 DEF Index
  <2>4. r = [iz EXCEPT !.stat = st]  BY <1>7, <1>c, <2>2 DEF Index
  <2> QED BY <2>1, <2>3, <2>4 DEF Index
<1>13. ASSUME NEW e \in FDocs PROVE DocSound(r, e)
  <2>1. CASE e = d
    BY <1>1, <1>4, <1>7, <1>9, <1>a, <2>1 DEF IxSound, DocSound, Index
  <2>2. CASE e # d
    <3>1. r.post[e] = ix.post[e] /\ r.rev[e] = ix.rev[e] /\ r.len[e] = ix.len[e]
      BY <1>4, <1>7, <1>9, <2>2 DEF Index
    <3>2. DocSound(ix, e)  BY DEF IxSound
    <3> QED BY <1>9, <3>1, <3>2, DocSame
  <2> QED BY <2>1, <2>2
<1>14. FieldTotalsSound(r)  BY <1>9 DEF IxSound, FieldTotalsSound, Lengths
<1> QED BY <1>1, <1>7, <1>9, <1>11, <1>12, <1>13, <1>14 DEF IxSound, TotalsSound

\* IndexPositionsWithLang keeps the index sound.
LEMMA PositionedSound ==
  ASSUME NEW ix, IxSound(ix), NEW d \in FDocs, NEW terms \in SUBSET Terms,
         NEW r, r = Positioned(ix, d, terms)
  PROVE  IxSound(r) /\ r.post = ix.post /\ r.rev = ix.rev
<1>1. ix \in Index  BY DEF IxSound
<1>2. /\ r.post = ix.post /\ r.rev = ix.rev /\ r.len = ix.len /\ r.stat = ix.stat
      /\ r.fpost = ix.fpost /\ r.frev = ix.frev /\ r.flen = ix.flen /\ r.fstat = ix.fstat
      /\ r.pos = [ix.pos EXCEPT ![d] = (ix.pos[d] \ ix.posrev[d]) \cup terms]
      /\ r.posrev = [ix.posrev EXCEPT ![d] = terms]
      /\ r \in Index
  BY <1>1 DEF Index, Positioned
<1>3. (ix.pos[d] \ ix.posrev[d]) \cup terms = terms  BY DEF IxSound, DocSound
<1>4. ASSUME NEW e \in FDocs PROVE DocSound(r, e)
  <2>1. r.pos[e] = r.posrev[e]
    <3>1. ix.pos[e] = ix.posrev[e]  BY DEF IxSound, DocSound
    <3>2. r.pos = [ix.pos EXCEPT ![d] = terms] /\ r.posrev = [ix.posrev EXCEPT ![d] = terms]
      BY <1>2, <1>3
    <3>3. DOMAIN ix.pos = FDocs /\ DOMAIN ix.posrev = FDocs  BY <1>1 DEF Index
    <3> QED BY <3>1, <3>2, <3>3
  <2> QED BY <1>2, <2>1 DEF IxSound, DocSound
<1> QED BY <1>2, <1>4 DEF IxSound, TotalsSound, FieldTotalsSound, Lengths

\* RemoveBM25Meta keeps the totals exact.
LEMMA BM25RemovedSound ==
  ASSUME NEW ix, ix \in Index, NEW d \in FDocs, NEW r, r = RemoveBM25Meta(ix, d), TotalsSound(ix)
  PROVE  /\ r \in Index /\ TotalsSound(r) /\ r.len = [ix.len EXCEPT ![d] = 0]
         /\ r.post = ix.post /\ r.rev = ix.rev /\ r.pos = ix.pos /\ r.posrev = ix.posrev
         /\ r.fpost = ix.fpost /\ r.frev = ix.frev /\ r.flen = ix.flen /\ r.fstat = ix.fstat
<1>0. ix.len \in [FDocs -> Nat] /\ ix.stat = TallyOf(ix.len)  BY DEF Index, TotalsSound
<1>1. CASE ix.len[d] = 0
  <2>1. [ix.len EXCEPT ![d] = 0] = ix.len  BY <1>0, <1>1
  <2> QED BY <1>1, <2>1 DEF RemoveBM25Meta
<1>2. CASE ix.len[d] # 0
  <2>1. PICK st : st = Less(ix.stat, ix.len[d])  OBVIOUS
  <2>2. PICK iy : iy = [ix EXCEPT !.len[d] = 0]  OBVIOUS
  <2>3. r = [iy EXCEPT !.stat = st]  BY <1>2, <2>1, <2>2 DEF RemoveBM25Meta, Index
  <2>4. iy \in Index /\ iy.len = [ix.len EXCEPT ![d] = 0]  BY <2>2 DEF Index
  <2>5. st = TallyOf(iy.len)  BY <1>0, <1>2, <2>1, <2>4, TallyLess
  <2>6. st \in Stat /\ iy.len \in [FDocs -> Nat]  BY <2>4, <2>5, TallyTyped DEF Index
  <2>7. r \in Index  BY <2>3, <2>4, <2>6 DEF Index
  <2>8. r.len = iy.len /\ r.stat = st  BY <2>3, <2>4 DEF Index
  <2>9. /\ r.post = ix.post /\ r.rev = ix.rev /\ r.pos = ix.pos /\ r.posrev = ix.posrev
        /\ r.fpost = ix.fpost /\ r.frev = ix.frev /\ r.flen = ix.flen /\ r.fstat = ix.fstat
    BY <2>2, <2>3 DEF Index
  <2> QED BY <2>4, <2>5, <2>7, <2>8, <2>9 DEF TotalsSound
<1> QED BY <1>1, <1>2

\* The fields of one document in the index.
FieldsSound(ix, d) ==
  /\ ix.frev[d] = FieldTerms(ix.fpost[d])
  /\ \A f \in Fields : ix.flen[d][f] = Length(ix.fpost[d][f])
NoFields(ix, d) ==
  /\ ix.frev[d] = {} /\ ix.fpost[d] = [f \in Fields |-> Zero] /\ ix.flen[d] = [f \in Fields |-> 0]

\* A document without fields is sound.
LEMMA NoFieldsSound == ASSUME NEW ix, NEW d, NoFields(ix, d) PROVE FieldsSound(ix, d)
<1>1. Length(Zero) = 0  BY ZeroIs, LengthIs
<1>2. FieldTerms([f \in Fields |-> Zero]) = {}  BY DEF FieldTerms, Zero
<1> QED BY <1>1, <1>2 DEF NoFields, FieldsSound

\* removeFieldData leaves no field of the document behind.
LEMMA FieldsRemovedSound ==
  ASSUME NEW ix, ix \in Index, NEW d \in FDocs, FieldsSound(ix, d), FieldTotalsSound(ix),
         NEW r, r = RemoveFieldData(ix, d)
  PROVE  /\ r \in Index /\ FieldTotalsSound(r) /\ NoFields(r, d)
         /\ r.post = ix.post /\ r.rev = ix.rev /\ r.pos = ix.pos /\ r.posrev = ix.posrev
         /\ r.len = ix.len /\ r.stat = ix.stat
         /\ \A e \in FDocs : e # d => /\ r.frev[e] = ix.frev[e] /\ r.fpost[e] = ix.fpost[e]
                                      /\ r.flen[e] = ix.flen[e]
<1>1. PICK fp, fs, fl :
        /\ fp = [f \in Fields |-> [t \in Terms |-> IF <<f, t>> \in ix.frev[d] THEN 0 ELSE ix.fpost[d][f][t]]]
        /\ fs = [f \in Fields |-> IF f \in FieldsOf(ix.frev[d]) /\ ix.flen[d][f] > 0
                                   THEN Less(ix.fstat[f], ix.flen[d][f]) ELSE ix.fstat[f]]
        /\ fl = [f \in Fields |-> IF f \in FieldsOf(ix.frev[d]) THEN 0 ELSE ix.flen[d][f]]
  OBVIOUS
<1>2. r = [ix EXCEPT !.fpost[d] = fp, !.fstat = fs, !.flen[d] = fl, !.frev[d] = {}]
  BY <1>1 DEF RemoveFieldData, Index
<1>3. \A f \in Fields : ix.fpost[d][f] \in Bag  BY DEF Index
<1>4. \A f \in Fields : f \in FieldsOf(ix.frev[d]) <=> ix.flen[d][f] > 0
  <2>1. TAKE f \in Fields
  <2>2. PICK x : x = ix.fpost[d]  OBVIOUS
  <2>3. f \in FieldsOf(FieldTerms(x)) <=> TermsOf(x[f]) # {}  BY <1>3, <2>2, NamedIs
  <2>4. Length(x[f]) > 0 <=> TermsOf(x[f]) # {}  BY <1>3, <2>2, LengthIs
  <2> QED BY <2>2, <2>3, <2>4 DEF FieldsSound
<1>5. fp = [f \in Fields |-> Zero]
  <2>1. \A f \in Fields, t \in Terms : (IF <<f, t>> \in ix.frev[d] THEN 0 ELSE ix.fpost[d][f][t]) = 0
    <3>1. TAKE f \in Fields, t \in Terms
    <3>2. ix.fpost[d][f][t] \in Nat  BY <1>3 DEF Bag
    <3>3. <<f, t>> \notin ix.frev[d] => ~(ix.fpost[d][f][t] > 0)  BY DEF FieldsSound, FieldTerms
    <3> QED BY <3>2, <3>3
  <2> QED BY <1>1, <2>1 DEF Zero
<1>6. fl = [f \in Fields |-> 0]
  <2>1. \A f \in Fields : ix.flen[d][f] \in Nat  BY DEF Index
  <2>2. \A f \in Fields : (IF f \in FieldsOf(ix.frev[d]) THEN 0 ELSE ix.flen[d][f]) = 0
    BY <1>4, <2>1
  <2> QED BY <1>1, <2>2
<1>7. /\ r.post = ix.post /\ r.rev = ix.rev /\ r.pos = ix.pos /\ r.posrev = ix.posrev
      /\ r.len = ix.len /\ r.stat = ix.stat /\ r.fstat = fs
      /\ r.fpost = [ix.fpost EXCEPT ![d] = fp] /\ r.flen = [ix.flen EXCEPT ![d] = fl]
      /\ r.frev = [ix.frev EXCEPT ![d] = {}]
  BY <1>2 DEF Index
<1>8. ASSUME NEW f \in Fields PROVE fs[f] = TallyOf(Lengths(r, f))
  <2>1. Lengths(ix, f) \in [FDocs -> Nat] /\ ix.fstat[f] = TallyOf(Lengths(ix, f)) /\ Lengths(ix, f)[d] = ix.flen[d][f]
    BY LengthsTyped DEF FieldTotalsSound, Lengths
  <2>2. Lengths(r, f) = [Lengths(ix, f) EXCEPT ![d] = 0]
    BY <1>6, <1>7, LengthsChange
  <2>3. CASE ix.flen[d][f] > 0
    <3>1. fs[f] = Less(ix.fstat[f], ix.flen[d][f])  BY <1>1, <1>4, <2>3
    <3> QED BY <2>1, <2>2, <2>3, <3>1, TallyLess
  <2>4. CASE ~(ix.flen[d][f] > 0)
    <3>1. fs[f] = ix.fstat[f]  BY <1>1, <2>4
    <3>2. ix.flen[d][f] = 0  BY <2>1, <2>4
    <3>3. Lengths(r, f) = Lengths(ix, f)  BY <2>1, <2>2, <3>2
    <3> QED BY <2>1, <3>1, <3>3
  <2> QED BY <2>3, <2>4
<1>9. r \in Index
  <2>1. fp \in [Fields -> Bag]  BY <1>5, ZeroIs
  <2>2. fl \in [Fields -> Nat]  BY <1>6
  <2>3. fs \in [Fields -> Stat]
    <3>1. \A f \in Fields : fs[f] \in Stat
      <4>1. TAKE f \in Fields
      <4>2. Lengths(r, f) \in [FDocs -> Nat]
        BY <1>6, <1>7 DEF Lengths, Index
      <4> QED BY <1>8, <4>2, TallyTyped
    <3> QED BY <1>1, <3>1
  <2>4. PICK iy : iy = [ix EXCEPT !.fpost[d] = fp]  OBVIOUS
  <2>5. PICK iz : iz = [iy EXCEPT !.flen[d] = fl]  OBVIOUS
  <2>6. PICK iw : iw = [iz EXCEPT !.frev[d] = {}]  OBVIOUS
  <2>7. iy \in Index  BY <2>1, <2>4 DEF Index
  <2>8. iz \in Index  BY <2>2, <2>5, <2>7 DEF Index
  <2>9. iw \in Index  BY <2>6, <2>8 DEF Index
  <2>10. r = [iw EXCEPT !.fstat = fs]  BY <1>2, <2>4, <2>5, <2>6 DEF Index
  <2> QED BY <2>3, <2>9, <2>10 DEF Index
<1>10. NoFields(r, d)  BY <1>5, <1>6, <1>7 DEF NoFields, Index
<1>11. FieldTotalsSound(r)  BY <1>7, <1>8 DEF FieldTotalsSound
<1>12. \A e \in FDocs : e # d => /\ r.frev[e] = ix.frev[e] /\ r.fpost[e] = ix.fpost[e]
                                 /\ r.flen[e] = ix.flen[e]
  BY <1>7 DEF Index
<1> QED BY <1>7, <1>9, <1>10, <1>11, <1>12

\* The fields of a text added to a document that has none.
LEMMA FieldsAddedSound ==
  ASSUME NEW ix, ix \in Index, NEW d \in FDocs, NoFields(ix, d), FieldTotalsSound(ix),
         NEW text \in Texts, NEW r, r = AddFieldData(ix, d, text)
  PROVE  /\ r \in Index /\ FieldTotalsSound(r) /\ FieldsSound(r, d)
         /\ r.post = ix.post /\ r.rev = ix.rev /\ r.pos = ix.pos /\ r.posrev = ix.posrev
         /\ r.len = ix.len /\ r.stat = ix.stat
         /\ \A e \in FDocs : e # d => /\ r.frev[e] = ix.frev[e] /\ r.fpost[e] = ix.fpost[e]
                                      /\ r.flen[e] = ix.flen[e]
<1>0. \A f \in Fields : text[f] \in Bag  BY TextTyped
<1>1. PICK fp, fs, fl, fr :
        /\ fp = [f \in Fields |-> Reposted(ix.fpost[d][f], {}, text[f])]
        /\ fs = [f \in Fields |-> IF f \in FieldsOf(FieldTerms(text))
                     THEN [docs |-> ix.fstat[f].docs + 1, terms |-> ix.fstat[f].terms + Length(text[f])]
                     ELSE ix.fstat[f]]
        /\ fl = [f \in Fields |-> IF f \in FieldsOf(FieldTerms(text)) THEN Length(text[f]) ELSE ix.flen[d][f]]
        /\ fr = FieldTerms(text)
  OBVIOUS
<1>2. r = [ix EXCEPT !.fpost[d] = fp, !.flen[d] = fl, !.fstat = fs, !.frev[d] = fr]
  BY <1>1 DEF AddFieldData, Index
<1>4. \A f \in Fields : /\ (f \in FieldsOf(FieldTerms(text)) <=> Length(text[f]) > 0)
                        /\ Length(text[f]) \in Nat
  BY <1>0, NamedIs, LengthIs
<1>5. fp = [f \in Fields |-> text[f]]
  <2>1. \A f \in Fields : ix.fpost[d][f] = Zero  BY DEF NoFields
  <2>2. \A f \in Fields : Reposted(Zero, {}, text[f]) = text[f]
    BY <1>0, ZeroIs, RepostedIs
  <2> QED BY <1>1, <2>1, <2>2
<1>6. fl = [f \in Fields |-> Length(text[f])]
  <2>1. \A f \in Fields : ix.flen[d][f] = 0  BY DEF NoFields
  <2>2. \A f \in Fields : ~(f \in FieldsOf(FieldTerms(text))) => Length(text[f]) = 0
    BY <1>4
  <2> QED BY <1>1, <2>1, <2>2
<1>7. /\ r.post = ix.post /\ r.rev = ix.rev /\ r.pos = ix.pos /\ r.posrev = ix.posrev
      /\ r.len = ix.len /\ r.stat = ix.stat /\ r.fstat = fs
      /\ r.fpost = [ix.fpost EXCEPT ![d] = fp] /\ r.flen = [ix.flen EXCEPT ![d] = fl]
      /\ r.frev = [ix.frev EXCEPT ![d] = fr]
  BY <1>2 DEF Index
<1>8. ASSUME NEW f \in Fields PROVE fs[f] = TallyOf(Lengths(r, f))
  <2>1. Lengths(ix, f) \in [FDocs -> Nat] /\ ix.fstat[f] = TallyOf(Lengths(ix, f)) /\ Lengths(ix, f)[d] = 0
    BY LengthsTyped DEF FieldTotalsSound, Lengths, NoFields
  <2>0. PICK n : n = Length(text[f])  OBVIOUS
  <2>2. Lengths(r, f) = [Lengths(ix, f) EXCEPT ![d] = n] /\ n \in Nat
    BY <1>4, <1>6, <1>7, <2>0, LengthsChange
  <2>3. CASE n > 0
    <3>1. fs[f] = [docs |-> ix.fstat[f].docs + 1, terms |-> ix.fstat[f].terms + n]  BY <1>1, <1>4, <2>0, <2>3
    <3>2. TallyOf(Lengths(r, f)) = [docs |-> TallyOf(Lengths(ix, f)).docs + 1,
                                    terms |-> TallyOf(Lengths(ix, f)).terms + n]
      <4>1. PICK len \in [FDocs -> Nat] : len = Lengths(ix, f)  BY <2>1
      <4>2. len[d] = 0 /\ Lengths(r, f) = [len EXCEPT ![d] = n]  BY <2>1, <2>2, <4>1
      <4>3. TallyOf([len EXCEPT ![d] = n]) = [docs |-> TallyOf(len).docs + 1, terms |-> TallyOf(len).terms + n]
        <5>1. TallyOf([len EXCEPT ![d] = n]) =
               IF len[d] > 0 THEN [docs |-> TallyOf(len).docs, terms |-> TallyOf(len).terms - len[d] + n]
               ELSE [docs |-> TallyOf(len).docs + 1, terms |-> TallyOf(len).terms + n]
          BY <2>2, <2>3, TallyMore
        <5>2. ~(len[d] > 0)  BY <4>2
        <5> QED BY <5>1, <5>2
      <4> QED BY <4>1, <4>2, <4>3
    <3> QED BY <2>1, <3>1, <3>2
  <2>4. CASE ~(n > 0)
    <3>1. fs[f] = ix.fstat[f]  BY <1>1, <1>4, <2>0, <2>4
    <3>2. n = 0  BY <2>2, <2>4
    <3>3. Lengths(r, f) = Lengths(ix, f)  BY <2>1, <2>2, <3>2
    <3> QED BY <2>1, <3>1, <3>3
  <2> QED BY <2>3, <2>4
<1>9. r \in Index
  <2>1. fp \in [Fields -> Bag] /\ fl \in [Fields -> Nat]  BY <1>0, <1>4, <1>5, <1>6
  <2>2. fr \in SUBSET (Fields \X Terms)  BY <1>1 DEF FieldTerms
  <2>3. fs \in [Fields -> Stat]
    <3>1. \A f \in Fields : fs[f] \in Stat
      <4>1. TAKE f \in Fields
      <4>2. Lengths(r, f) \in [FDocs -> Nat]
        BY <1>7, <2>1 DEF Lengths, Index
      <4> QED BY <1>8, <4>2, TallyTyped
    <3> QED BY <1>1, <3>1
  <2>4. PICK iy : iy = [ix EXCEPT !.fpost[d] = fp]  OBVIOUS
  <2>5. PICK iz : iz = [iy EXCEPT !.flen[d] = fl]  OBVIOUS
  <2>6. PICK iw : iw = [iz EXCEPT !.frev[d] = fr]  OBVIOUS
  <2>7. iy \in Index  BY <2>1, <2>4 DEF Index
  <2>8. iz \in Index  BY <2>1, <2>5, <2>7 DEF Index
  <2>9. iw \in Index  BY <2>2, <2>6, <2>8 DEF Index
  <2>10. r = [iw EXCEPT !.fstat = fs]  BY <1>2, <2>4, <2>5, <2>6 DEF Index
  <2> QED BY <2>3, <2>9, <2>10 DEF Index
<1>10. FieldsSound(r, d)
  <2>1. r.fpost[d] = fp /\ r.flen[d] = fl /\ r.frev[d] = fr  BY <1>7 DEF Index
  <2>2. FieldTerms(fp) = FieldTerms(text)  BY <1>5 DEF FieldTerms
  <2> QED BY <1>1, <1>5, <1>6, <2>1, <2>2 DEF FieldsSound
<1>11. FieldTotalsSound(r)  BY <1>7, <1>8 DEF FieldTotalsSound
<1>12. \A e \in FDocs : e # d => /\ r.frev[e] = ix.frev[e] /\ r.fpost[e] = ix.fpost[e]
                                 /\ r.flen[e] = ix.flen[e]
  BY <1>7 DEF Index
<1> QED BY <1>7, <1>9, <1>10, <1>11, <1>12

\* Remove takes every entry of a document out of the index.
Removed(ix, d) ==
  RemoveFieldData(RemoveBM25Meta(
    [ix EXCEPT !.post[d] = Reposted(@, ix.rev[d], Zero), !.rev[d] = {},
               !.pos[d] = @ \ ix.posrev[d], !.posrev[d] = {}], d), d)

\* What it leaves is sound.
LEMMA RemovedSound ==
  ASSUME NEW ix, IxSound(ix), NEW d \in FDocs
  PROVE  \A r : r = Removed(ix, d)
           => /\ IxSound(r)
              /\ r.post = [ix.post EXCEPT ![d] = Zero] /\ r.rev = [ix.rev EXCEPT ![d] = {}]
<1>0. ix \in Index /\ DocSound(ix, d)  BY DEF IxSound
<1>1. Reposted(ix.post[d], ix.rev[d], Zero) = Zero
  <2>1. ix.post[d] \in Bag /\ TermsOf(ix.post[d]) \subseteq ix.rev[d]  BY <1>0 DEF DocSound, Index
  <2> QED BY <2>1, ZeroIs, RepostedIs
<1>2. PICK iy : iy = [ix EXCEPT !.post[d] = Reposted(@, ix.rev[d], Zero), !.rev[d] = {},
                                 !.pos[d] = @ \ ix.posrev[d], !.posrev[d] = {}]
  OBVIOUS
<1>3. /\ iy.post = [ix.post EXCEPT ![d] = Zero] /\ iy.rev = [ix.rev EXCEPT ![d] = {}]
      /\ iy.pos = [ix.pos EXCEPT ![d] = ix.pos[d] \ ix.posrev[d]] /\ iy.posrev = [ix.posrev EXCEPT ![d] = {}]
      /\ iy.len = ix.len /\ iy.stat = ix.stat
      /\ iy.fpost = ix.fpost /\ iy.frev = ix.frev /\ iy.flen = ix.flen /\ iy.fstat = ix.fstat
  BY <1>0, <1>1, <1>2 DEF Index
<1>4. iy \in Index
  <2>1. PICK a : a = [ix EXCEPT !.post[d] = Zero]  OBVIOUS
  <2>2. PICK b : b = [a EXCEPT !.rev[d] = {}]  OBVIOUS
  <2>3. PICK z : z = [b EXCEPT !.pos[d] = ix.pos[d] \ ix.posrev[d]]  OBVIOUS
  <2>4. a \in Index  BY <1>0, <2>1, ZeroIs DEF Index
  <2>5. b \in Index  BY <2>2, <2>4 DEF Index
  <2>6. ix.pos[d] \ ix.posrev[d] \in SUBSET Terms  BY <1>0 DEF Index
  <2>7. z \in Index  BY <2>3, <2>5, <2>6 DEF Index
  <2>8. iy = [z EXCEPT !.posrev[d] = {}]  BY <1>0, <1>1, <1>2, <2>1, <2>2, <2>3 DEF Index
  <2> QED BY <2>7, <2>8 DEF Index
<1>5. TotalsSound(iy)  BY <1>3 DEF IxSound, TotalsSound
<1>6. PICK iz : iz = RemoveBM25Meta(iy, d)  OBVIOUS
<1>7. /\ iz \in Index /\ TotalsSound(iz) /\ iz.len = [iy.len EXCEPT ![d] = 0]
      /\ iz.post = iy.post /\ iz.rev = iy.rev /\ iz.pos = iy.pos /\ iz.posrev = iy.posrev
      /\ iz.fpost = iy.fpost /\ iz.frev = iy.frev /\ iz.flen = iy.flen /\ iz.fstat = iy.fstat
  BY <1>4, <1>5, <1>6, BM25RemovedSound
<1>8. FieldsSound(iz, d) /\ FieldTotalsSound(iz)
  BY <1>0, <1>3, <1>7 DEF FieldsSound, DocSound, IxSound, FieldTotalsSound, Lengths
<1>9. PICK r : r = RemoveFieldData(iz, d)  OBVIOUS
<1>10. /\ r \in Index /\ FieldTotalsSound(r) /\ NoFields(r, d)
       /\ r.post = iz.post /\ r.rev = iz.rev /\ r.pos = iz.pos /\ r.posrev = iz.posrev
       /\ r.len = iz.len /\ r.stat = iz.stat
       /\ \A e \in FDocs : e # d => /\ r.frev[e] = iz.frev[e] /\ r.fpost[e] = iz.fpost[e]
                                    /\ r.flen[e] = iz.flen[e]
  BY <1>7, <1>8, <1>9, FieldsRemovedSound
<1>11. TotalsSound(r)  BY <1>7, <1>10 DEF TotalsSound
<1>12. /\ r.post = [ix.post EXCEPT ![d] = Zero] /\ r.rev = [ix.rev EXCEPT ![d] = {}]
       /\ r.pos = [ix.pos EXCEPT ![d] = ix.pos[d] \ ix.posrev[d]] /\ r.posrev = [ix.posrev EXCEPT ![d] = {}]
       /\ r.len = [ix.len EXCEPT ![d] = 0]
  <2>1. r.post = [ix.post EXCEPT ![d] = Zero] /\ r.rev = [ix.rev EXCEPT ![d] = {}]
    BY <1>3, <1>7, <1>10
  <2>2. r.pos = [ix.pos EXCEPT ![d] = ix.pos[d] \ ix.posrev[d]]  BY <1>3, <1>7, <1>10
  <2>3. r.posrev = [ix.posrev EXCEPT ![d] = {}]  BY <1>3, <1>7, <1>10
  <2>4. r.len = [ix.len EXCEPT ![d] = 0]  BY <1>3, <1>7, <1>10
  <2> QED BY <2>1, <2>2, <2>3, <2>4
<1>13. /\ r.post[d] = Zero /\ r.rev[d] = {} /\ r.len[d] = 0
       /\ r.pos[d] = ix.pos[d] \ ix.posrev[d] /\ r.posrev[d] = {}
       /\ \A e \in FDocs : e # d => /\ r.post[e] = ix.post[e] /\ r.rev[e] = ix.rev[e]
                                    /\ r.len[e] = ix.len[e]
                                    /\ r.pos[e] = ix.pos[e] /\ r.posrev[e] = ix.posrev[e]
  <2>1. /\ FDocs = DOMAIN ix.post /\ FDocs = DOMAIN ix.rev /\ FDocs = DOMAIN ix.len
        /\ FDocs = DOMAIN ix.pos /\ FDocs = DOMAIN ix.posrev
    BY <1>0 DEF Index
  <2>2. r.post[d] = Zero /\ \A e \in FDocs : e # d => r.post[e] = ix.post[e]  BY <1>12, <2>1
  <2>3. r.rev[d] = {} /\ \A e \in FDocs : e # d => r.rev[e] = ix.rev[e]  BY <1>12, <2>1
  <2>4. r.len[d] = 0 /\ \A e \in FDocs : e # d => r.len[e] = ix.len[e]  BY <1>12, <2>1
  <2>5. /\ r.pos[d] = ix.pos[d] \ ix.posrev[d]
        /\ \A e \in FDocs : e # d => r.pos[e] = ix.pos[e]
    BY <1>12, <2>1
  <2>6. r.posrev[d] = {} /\ \A e \in FDocs : e # d => r.posrev[e] = ix.posrev[e]  BY <1>12, <2>1
  <2> QED BY <2>2, <2>3, <2>4, <2>5, <2>6
<1>14. ASSUME NEW e \in FDocs, e # d
       PROVE  r.frev[e] = ix.frev[e] /\ r.fpost[e] = ix.fpost[e] /\ r.flen[e] = ix.flen[e]
  BY <1>3, <1>7, <1>10, <1>14
<1>15. ASSUME NEW e \in FDocs PROVE DocSound(r, e)
  <2>1. CASE e = d
    <3>1. r.pos[d] = {}  BY <1>0, <1>13 DEF DocSound
    <3>2. TermsOf(Zero) = {} /\ Length(Zero) = 0  BY ZeroIs, LengthIs
    <3>3. FieldsSound(r, d)  BY <1>10, NoFieldsSound
    <3> QED BY <1>13, <2>1, <3>1, <3>2, <3>3 DEF DocSound, FieldsSound
  <2>2. CASE e # d
    <3>1. DocSound(ix, e)  BY DEF IxSound
    <3> QED BY <1>13, <1>14, <2>2, <3>1, DocSame
  <2> QED BY <2>1, <2>2
<1>16. IxSound(r)
  BY <1>10, <1>11, <1>15 DEF IxSound
<1>17. r = Removed(ix, d)  BY <1>2, <1>6, <1>9 DEF Removed
<1> QED BY <1>12, <1>16, <1>17

\* IndexFieldsWithLang replaces the fields of a document.
LEMMA FieldsReplacedSound ==
  ASSUME NEW ix, IxSound(ix), NEW d \in FDocs, NEW text \in Texts,
         NEW r, r = AddFieldData(RemoveFieldData(ix, d), d, text)
  PROVE  IxSound(r) /\ r.post = ix.post /\ r.rev = ix.rev
<1>0. ix \in Index /\ FieldsSound(ix, d) /\ FieldTotalsSound(ix)  BY DEF IxSound, DocSound, FieldsSound
<1>1. PICK iy : iy = RemoveFieldData(ix, d)  OBVIOUS
<1>2. /\ iy \in Index /\ FieldTotalsSound(iy) /\ NoFields(iy, d)
      /\ iy.post = ix.post /\ iy.rev = ix.rev /\ iy.pos = ix.pos /\ iy.posrev = ix.posrev
      /\ iy.len = ix.len /\ iy.stat = ix.stat
      /\ \A e \in FDocs : e # d => /\ iy.frev[e] = ix.frev[e] /\ iy.fpost[e] = ix.fpost[e]
                                   /\ iy.flen[e] = ix.flen[e]
  BY <1>0, <1>1, FieldsRemovedSound
<1>3. /\ r \in Index /\ FieldTotalsSound(r) /\ FieldsSound(r, d)
      /\ r.post = iy.post /\ r.rev = iy.rev /\ r.pos = iy.pos /\ r.posrev = iy.posrev
      /\ r.len = iy.len /\ r.stat = iy.stat
      /\ \A e \in FDocs : e # d => /\ r.frev[e] = iy.frev[e] /\ r.fpost[e] = iy.fpost[e]
                                   /\ r.flen[e] = iy.flen[e]
  BY <1>1, <1>2, FieldsAddedSound
<1>4. ASSUME NEW e \in FDocs PROVE DocSound(r, e)
  <2>1. DocSound(ix, e)  BY DEF IxSound
  <2>2. CASE e = d  BY <1>2, <1>3, <2>1, <2>2 DEF DocSound, FieldsSound
  <2>3. CASE e # d  BY <1>2, <1>3, <2>1, <2>3, DocSame
  <2> QED BY <2>2, <2>3
<1>5. TotalsSound(r)  BY <1>2, <1>3 DEF IxSound, TotalsSound
<1> QED BY <1>2, <1>3, <1>4, <1>5 DEF IxSound

-----------------------------------------------------------------------------
Todo == [doc : FDocs, text : Texts]
FlushSet == [doc : FDocs \cup {NoText}, gone : SUBSET Terms, put : Bag, rev : SUBSET Terms]
FHandler == [pc : {"idle", "index", "flush", "positions", "fields", "remove"},
             todo : Seq(Todo), unsent : FlushSet]

HandlersTyped ==
  /\ fclient \in [FClients -> FHandler]
  /\ \A c \in FClients : /\ fclient[c].pc # "idle" => fclient[c].todo # <<>>
                         /\ fclient[c].pc = "flush" => fclient[c].unsent.doc \in FDocs

FtsTyped ==
  /\ fdoc \in [FDocs -> Texts \cup {NoText}]
  /\ rpost \in [FDocs -> Bag] /\ rrev \in [FDocs -> SUBSET Terms]
  /\ HandlersTyped

Pending(c, d) == fclient[c].pc = "flush" /\ fclient[c].unsent.doc = d

\* Of a document that is not astray, what is pending, if it is one entry, brings the follower
\* up to date; if nothing is, the follower is.
FollowerOf(d) ==
  d \notin astray =>
    /\ (\A c \in FClients : ~Pending(c, d)) => rpost[d] = idx.post[d] /\ rrev[d] = idx.rev[d]
    /\ \A c \in FClients : (Pending(c, d) /\ \A b \in FClients : Pending(b, d) => b = c) =>
         /\ Reposted(rpost[d], fclient[c].unsent.gone, fclient[c].unsent.put) = idx.post[d]
         /\ fclient[c].unsent.rev = idx.rev[d]

FtsInv == FtsTyped /\ IxSound(idx) /\ \A d \in FDocs : FollowerOf(d)

\* The invariant holds initially.
LEMMA FtsInitInv == FtsInit => FtsInv
<1> SUFFICES ASSUME FtsInit PROVE FtsInv  OBVIOUS
<1> USE DEF FtsInit
<1>1. Zero \in Bag /\ TermsOf(Zero) = {} /\ Length(Zero) = 0  BY ZeroIs, LengthIs
<1>2. FtsTyped
  <2>1. FIdle \in FHandler /\ FIdle.pc = "idle"
    <3>1. NoFlush \in FlushSet  BY <1>1 DEF NoFlush, FlushSet
    <3>2. <<>> \in Seq(Todo)  OBVIOUS
    <3> QED BY <3>1, <3>2 DEF FIdle, FHandler
  <2>2. HandlersTyped  BY <2>1 DEF HandlersTyped
  <2> QED BY <1>1, <2>2 DEF FtsTyped, Empty
<1>3. Empty \in Index
  BY <1>1 DEF Empty, Index, Stat
<1>4. \A d \in FDocs : DocSound(Empty, d)
  <2>1. FieldTerms([f \in Fields |-> Zero]) = {}  BY DEF FieldTerms, Zero
  <2> QED BY <1>1, <2>1 DEF Empty, DocSound
<1>5. TallyOf([d \in FDocs |-> 0]) = [docs |-> 0, terms |-> 0]
  <2>1. PICK len : len = [d \in FDocs |-> 0]  OBVIOUS
  <2>2. \A d \in FDocs : len[d] \in Nat /\ len[d] = 0  BY <2>1
  <2>3. SumOf(len, FDocs) = 0  BY <2>2, FtsFiniteAssumption, SumNat
  <2>4. {d \in FDocs : len[d] > 0} = {}  BY <2>2
  <2>5. Cardinality({d \in FDocs : len[d] > 0}) = 0  BY <2>4, FS_EmptySet
  <2> QED BY <2>1, <2>3, <2>5 DEF TallyOf
<1>6. TotalsSound(Empty)  BY <1>5 DEF TotalsSound, Empty
<1>7. FieldTotalsSound(Empty)
  <2>1. \A f \in Fields : Lengths(Empty, f) = [d \in FDocs |-> 0]  BY DEF Lengths, Empty
  <2>2. \A f \in Fields : Empty.fstat[f] = [docs |-> 0, terms |-> 0]  BY DEF Empty
  <2> QED BY <1>5, <2>1, <2>2 DEF FieldTotalsSound
<1>8. \A d \in FDocs : FollowerOf(d)
  <2>1. \A c \in FClients, d \in FDocs : ~Pending(c, d)  BY DEF Pending, FIdle
  <2> QED BY <2>1 DEF FollowerOf, Empty
<1> QED BY <1>2, <1>3, <1>4, <1>6, <1>7, <1>8 DEF FtsInv, IxSound

\* The invariant implies the property.
LEMMA FtsInvSound == FtsInv => IndexSound
<1> SUFFICES ASSUME FtsInv PROVE IndexSound  OBVIOUS
<1>0. IxSound(idx) /\ idx \in Index  BY DEF FtsInv, IxSound
<1>1. NoOrphanEntries  BY <1>0 DEF IxSound, DocSound, NoOrphanEntries
<1>2. StatsExact
  <2>1. idx.stat = [docs  |-> Cardinality({d \in FDocs : idx.len[d] > 0}),
                    terms |-> MapThenSumSet(LAMBDA d : idx.len[d], FDocs)]
    BY <1>0 DEF IxSound, TotalsSound, TallyOf, SumOf
  <2>2. ASSUME NEW f \in Fields
        PROVE  idx.fstat[f] = [docs  |-> Cardinality({d \in FDocs : idx.flen[d][f] > 0}),
                               terms |-> MapThenSumSet(LAMBDA d : idx.flen[d][f], FDocs)]
    <3>1. PICK g : g = idx.flen  OBVIOUS
    <3>2. \A d \in FDocs : g[d][f] \in Int  BY <1>0, <3>1 DEF Index
    <3>3. ColumnSum(g, f, FDocs) = SumOf([d \in FDocs |-> g[d][f]], FDocs)
      BY <3>2, FtsFiniteAssumption, ColumnIs
    <3>4. ColumnSum(idx.flen, f, FDocs) = MapThenSumSet(LAMBDA d : idx.flen[d][f], FDocs)  BY DEF ColumnSum
    <3>5. idx.fstat[f] = TallyOf(Lengths(idx, f))  BY <1>0 DEF IxSound, FieldTotalsSound
    <3>6. {d \in FDocs : Lengths(idx, f)[d] > 0} = {d \in FDocs : idx.flen[d][f] > 0}  BY DEF Lengths
    <3>7. SumOf(Lengths(idx, f), FDocs) = MapThenSumSet(LAMBDA d : idx.flen[d][f], FDocs)
      BY <3>1, <3>3, <3>4 DEF Lengths
    <3> QED BY <3>5, <3>6, <3>7 DEF TallyOf
  <2>3. /\ \A d \in FDocs : idx.len[d] = Length(idx.post[d])
        /\ \A f \in Fields : \A d \in FDocs : idx.flen[d][f] = Length(idx.fpost[d][f])
    BY <1>0 DEF IxSound, DocSound
  <2> QED BY <2>1, <2>2, <2>3 DEF StatsExact
<1>3. FollowerTermsAgree
  <2>1. \A d \in FDocs : d \notin Unflushed(FClients) => \A c \in FClients : ~Pending(c, d)
    BY DEF Unflushed, Pending
  <2> QED BY <2>1 DEF FtsInv, FollowerOf, FollowerTermsAgree
<1> QED BY <1>1, <1>2, <1>3 DEF IndexSound

-----------------------------------------------------------------------------
(* The steps of FtsIndex. *)

\* A handler goes from one place to another, and neither is a pending entry.
LEMMA HandlerMoves ==
  ASSUME HandlersTyped, NEW c \in FClients, NEW p, NEW todo, NEW entry, FStep(c, p, todo, entry),
         p \in {"idle", "index", "flush", "positions", "fields", "remove"}, todo \in Seq(Todo), entry \in FlushSet,
         p # "idle" => todo # <<>>, p = "flush" => entry.doc \in FDocs
  PROVE  /\ HandlersTyped'
         /\ fclient'[c] = [pc |-> p, todo |-> todo, unsent |-> entry]
         /\ \A b \in FClients : b # c => fclient'[b] = fclient[b]
<1>1. PICK r : r = [pc |-> p, todo |-> todo, unsent |-> entry]  OBVIOUS
<1>2. r \in FHandler /\ r.pc = p /\ r.todo = todo /\ r.unsent = entry  BY <1>1 DEF FHandler
<1>3. fclient' = [fclient EXCEPT ![c] = r]  BY <1>1 DEF FStep
<1>4. fclient'[c] = r /\ \A b \in FClients : b # c => fclient'[b] = fclient[b]
  BY <1>3 DEF HandlersTyped
<1>5. fclient' \in [FClients -> FHandler]  BY <1>2, <1>3 DEF HandlersTyped
<1>6. ASSUME NEW b \in FClients
      PROVE  /\ fclient'[b].pc # "idle" => fclient'[b].todo # <<>>
             /\ fclient'[b].pc = "flush" => fclient'[b].unsent.doc \in FDocs
  <2>1. CASE b = c  BY <1>2, <1>4, <2>1
  <2>2. CASE b # c  BY <1>4, <2>2 DEF HandlersTyped
  <2> QED BY <2>1, <2>2
<1> QED BY <1>1, <1>4, <1>5, <1>6 DEF HandlersTyped

\* The entry of a handler that has nothing to flush.
LEMMA NoFlushTyped == NoFlush \in FlushSet
BY ZeroIs DEF NoFlush, FlushSet

\* The document a handler works on.
LEMMA HeadOf ==
  ASSUME HandlersTyped, NEW c \in FClients, fclient[c].pc # "idle"
  PROVE  /\ fclient[c].todo \in Seq(Todo) /\ fclient[c].todo # <<>>
         /\ Head(fclient[c].todo).doc \in FDocs /\ Head(fclient[c].todo).text \in Texts
<1>1. fclient[c].todo \in Seq(Todo) /\ fclient[c].todo # <<>>  BY DEF HandlersTyped, FHandler
<1>2. Head(fclient[c].todo) \in Todo  BY <1>1, HeadTailProperties
<1> QED BY <1>1, <1>2 DEF Todo

\* A handler that is through with a document goes on to the next.
LEMMA OnwardMoves ==
  ASSUME HandlersTyped, NEW c \in FClients, fclient[c].pc # "idle", Onward(c)
  PROVE  /\ HandlersTyped' /\ fclient'[c].pc # "flush"
         /\ \A b \in FClients : b # c => fclient'[b] = fclient[b]
<1>1. PICK todo : todo = fclient[c].todo  OBVIOUS
<1>2. todo \in Seq(Todo) /\ todo # <<>>  BY <1>1, HeadOf
<1>3. Tail(todo) \in Seq(Todo) /\ Len(Tail(todo)) = Len(todo) - 1 /\ Len(todo) \in Nat
  BY <1>2, HeadTailProperties
<1>4. PICK p : p = IF Len(todo) = 1 THEN "idle" ELSE "index"  OBVIOUS
<1>5. FStep(c, p, Tail(todo), NoFlush)  BY <1>1, <1>4 DEF Onward
<1>6. p # "idle" => Tail(todo) # <<>>
  <2>1. HAVE p # "idle"
  <2>2. Len(Tail(todo)) # 0  BY <1>3, <1>4, <2>1
  <2> QED BY <1>3, <2>2, EmptySeq
<1>7. /\ HandlersTyped' /\ fclient'[c] = [pc |-> p, todo |-> Tail(todo), unsent |-> NoFlush]
      /\ \A b \in FClients : b # c => fclient'[b] = fclient[b]
  <2>1. PICK rest, none : rest = Tail(todo) /\ none = NoFlush  OBVIOUS
  <2>2. /\ FStep(c, p, rest, none) /\ rest \in Seq(Todo) /\ none \in FlushSet /\ (p # "idle" => rest # <<>>)
    BY <1>3, <1>5, <1>6, <2>1, NoFlushTyped
  <2>3. p \in {"idle", "index", "flush", "positions", "fields", "remove"} /\ p # "flush"  BY <1>4
  <2>4. /\ HandlersTyped' /\ fclient'[c] = [pc |-> p, todo |-> rest, unsent |-> none]
        /\ \A b \in FClients : b # c => fclient'[b] = fclient[b]
    BY <2>2, <2>3, HandlerMoves
  <2> QED BY <2>1, <2>4
<1> QED BY <1>4, <1>7

\* A step that neither posts nor flushes.
LEMMA FollowerKept ==
  ASSUME FtsInv, idx'.post = idx.post, idx'.rev = idx.rev, UNCHANGED follower,
         NEW c \in FClients, fclient[c].pc # "flush", fclient'[c].pc # "flush",
         \A b \in FClients : b # c => fclient'[b] = fclient[b]
  PROVE  \A d \in FDocs : FollowerOf(d)'
<1>1. TAKE d \in FDocs
<1>2. \A b \in FClients : /\ (Pending(b, d)' <=> Pending(b, d))
                          /\ (Pending(b, d) => fclient'[b] = fclient[b])
  BY DEF Pending
<1>3. UNCHANGED <<rpost, rrev, astray>>  BY DEF follower
<1>4. FollowerOf(d)  BY DEF FtsInv
<1> QED BY <1>2, <1>3, <1>4 DEF FollowerOf

\* A transaction on the postings of a document, and its entry.
LEMMA FollowerBehind ==
  ASSUME FtsInv, NEW d \in FDocs, NEW bag \in Bag, idx'.post = [idx.post EXCEPT ![d] = bag],
         idx'.rev = [idx.rev EXCEPT ![d] = TermsOf(bag)], UNCHANGED follower,
         NEW c \in FClients, fclient[c].pc # "flush", fclient'[c].pc = "flush",
         fclient'[c].unsent = [doc |-> d, gone |-> idx.rev[d], put |-> bag, rev |-> TermsOf(bag)],
         \A b \in FClients : b # c => fclient'[b] = fclient[b]
  PROVE  \A e \in FDocs : FollowerOf(e)'
<1>0. TAKE e \in FDocs
<1>1. UNCHANGED <<rpost, rrev, astray>> /\ FollowerOf(e)  BY DEF follower, FtsInv
<1>2. idx \in Index /\ DocSound(idx, d)  BY DEF FtsInv, IxSound
<1>3. CASE e # d
  <2>1. \A b \in FClients : /\ (Pending(b, e)' <=> Pending(b, e))
                            /\ (Pending(b, e) => fclient'[b] = fclient[b])
    BY <1>3 DEF Pending
  <2>2. idx'.post[e] = idx.post[e] /\ idx'.rev[e] = idx.rev[e]  BY <1>2, <1>3 DEF Index
  <2> QED BY <1>1, <2>1, <2>2 DEF FollowerOf
<1>4. CASE e = d
  <2>1. Pending(c, d)' /\ ~Pending(c, d)  BY DEF Pending
  <2>2. idx'.post[d] = bag /\ idx'.rev[d] = TermsOf(bag)  BY <1>2 DEF Index
  <2>3. ASSUME d \notin astray, \A b \in FClients : Pending(b, d)' => b = c
        PROVE  /\ Reposted(rpost[d], fclient'[c].unsent.gone, fclient'[c].unsent.put) = bag
               /\ fclient'[c].unsent.rev = TermsOf(bag)
    <3>1. \A b \in FClients : ~Pending(b, d)  BY <2>1, <2>3 DEF Pending
    <3>2. rpost[d] = idx.post[d]  BY <1>1, <1>4, <2>3, <3>1 DEF FollowerOf
    <3>3. idx.post[d] \in Bag /\ TermsOf(idx.post[d]) \subseteq idx.rev[d]  BY <1>2 DEF DocSound, Index
    <3>4. Reposted(rpost[d], idx.rev[d], bag) = bag  BY <3>2, <3>3, RepostedIs
    <3> QED BY <3>4
  <2>4. ASSUME d \notin astray, NEW b \in FClients, Pending(b, d)',
               \A a \in FClients : Pending(a, d)' => a = b
        PROVE  b = c
    BY <2>1, <2>4
  <2> QED BY <1>1, <1>4, <2>1, <2>2, <2>3, <2>4 DEF FollowerOf
<1> QED BY <1>3, <1>4

\* An entry is flushed: alone, it brings the follower up to date.
LEMMA FollowerCatchesUp ==
  ASSUME FtsInv, NEW c \in FClients, fclient[c].pc = "flush", NEW d \in FDocs, NEW e,
         e = fclient[c].unsent, d = e.doc,
         rpost' = [rpost EXCEPT ![d] = Reposted(@, e.gone, e.put)], rrev' = [rrev EXCEPT ![d] = e.rev],
         astray' = astray \cup ({d} \cap Unflushed(FClients \ {c})), idx' = idx,
         fclient'[c].pc # "flush", \A b \in FClients : b # c => fclient'[b] = fclient[b]
  PROVE  \A x \in FDocs : FollowerOf(x)'
<1>0. TAKE x \in FDocs
<1>1. FollowerOf(x) /\ rpost \in [FDocs -> Bag] /\ rrev \in [FDocs -> SUBSET Terms]
  BY DEF FtsInv, FtsTyped
<1>2. Pending(c, d) /\ \A y \in FDocs : ~Pending(c, y)'  BY DEF Pending
<1>3. \A b \in FClients, y \in FDocs : b # c => (Pending(b, y)' <=> Pending(b, y))  BY DEF Pending
<1>4. CASE x # d
  <2>1. \A b \in FClients : (Pending(b, x)' <=> Pending(b, x)) /\ (Pending(b, x) => fclient'[b] = fclient[b])
    <3>1. ~Pending(c, x)  BY <1>4 DEF Pending
    <3>2. \A b \in FClients : Pending(b, x) => fclient'[b] = fclient[b]  BY <3>1
    <3> QED BY <1>2, <1>3, <3>1, <3>2
  <2>2. rpost'[x] = rpost[x] /\ rrev'[x] = rrev[x] /\ (x \in astray' <=> x \in astray)  BY <1>1, <1>4
  <2> QED BY <1>1, <2>1, <2>2 DEF FollowerOf
<1>5. CASE x = d
  <2>1. CASE \E b \in FClients : b # c /\ Pending(b, d)
    <3>1. d \in Unflushed(FClients \ {c})  BY <2>1 DEF Unflushed, Pending
    <3>2. d \in astray'  BY <3>1
    <3> QED BY <1>5, <3>2 DEF FollowerOf
  <2>2. CASE \A b \in FClients : Pending(b, d) => b = c
    <3>1. \A b \in FClients : ~Pending(b, d)'  BY <1>2, <1>3, <2>2
    <3>2. ASSUME d \notin astray PROVE rpost'[d] = idx.post[d] /\ rrev'[d] = idx.rev[d]
      <4>1. Reposted(rpost[d], e.gone, e.put) = idx.post[d] /\ e.rev = idx.rev[d]
        BY <1>1, <1>2, <1>5, <2>2, <3>2 DEF FollowerOf
      <4> QED BY <1>1, <4>1
    <3> QED BY <1>5, <3>1, <3>2 DEF FollowerOf
  <2> QED BY <2>1, <2>2
<1> QED BY <1>4, <1>5

\* A function on an initial segment is a sequence.
LEMMA FunctionIsSeq ==
  ASSUME NEW S, NEW n \in Nat, NEW f \in [1..n -> S]
  PROVE  f \in Seq(S) /\ Len(f) = n
OBVIOUS

\* What FTSReindex collects, and the work it makes of it.
Contentful == {d \in FDocs : fdoc[d] # NoText /\ ~fdoc[d].blank}
JobsOf(order) == [i \in 1..Len(order) |-> [doc |-> order[i], text |-> fdoc[order[i]]]]

\* What FTSReindex collects is work for the indexing steps, and some.
LEMMA ReindexJobs ==
  ASSUME fdoc \in [FDocs -> Texts \cup {NoText}], Contentful # {}
  PROVE  JobsOf(SetToSeq(Contentful)) \in Seq(Todo) /\ JobsOf(SetToSeq(Contentful)) # <<>>
<1>a. PICK ds : ds = Contentful  OBVIOUS
<1>b. PICK order : order = SetToSeq(ds)  OBVIOUS
<1>c. PICK todo : todo = JobsOf(order)  OBVIOUS
<1>d. ds \subseteq FDocs /\ ds # {} /\ \A d \in ds : fdoc[d] \in Texts  BY <1>a DEF Contentful
<1>1. IsFiniteSet(ds)  BY <1>d, FtsFiniteAssumption, FS_Subset
<1>2. PICK n : n = Cardinality(ds)  OBVIOUS
<1>3. n \in Nat /\ ExistsBijection(1..n, ds)  BY <1>1, <1>2, FS_CardinalityType
<1>4. \E f \in [1..n -> ds] : IsInjective(f)  BY <1>3 DEF ExistsBijection, Bijection, Injection
<1>5. order = CHOOSE f \in [1..n -> ds] : IsInjective(f)  BY <1>2, <1>b DEF SetToSeq
<1>6. order \in [1..n -> ds]  BY <1>4, <1>5
<1>7. Len(order) = n  BY <1>3, <1>6
<1>8. n # 0  BY <1>1, <1>2, <1>d, FS_EmptySet
<1>9. \A i \in 1..n : [doc |-> order[i], text |-> fdoc[order[i]]] \in Todo
  BY <1>6, <1>d DEF Todo
<1>10. todo \in [1..n -> Todo]  BY <1>7, <1>9, <1>c DEF JobsOf
<1>11. todo \in Seq(Todo) /\ Len(todo) = n  BY <1>3, <1>10, FunctionIsSeq
<1> QED BY <1>8, <1>11, <1>a, <1>b, <1>c

\* A request begins: the index and the follower are left alone.
LEMMA FBegins ==
  ASSUME FtsInv, NEW c \in FClients, fclient[c].pc = "idle", NEW p \in {"index", "remove"},
         NEW todo \in Seq(Todo), todo # <<>>, FStep(c, p, todo, NoFlush),
         fdoc' \in [FDocs -> Texts \cup {NoText}], UNCHANGED <<idx, follower>>
  PROVE  FtsInv'
<1>0. HandlersTyped /\ IxSound(idx)  BY DEF FtsInv, FtsTyped
<1>1. PICK none : none = NoFlush  OBVIOUS
<1>2. none \in FlushSet /\ FStep(c, p, todo, none)  BY <1>1, NoFlushTyped
<1>3. /\ HandlersTyped' /\ fclient'[c] = [pc |-> p, todo |-> todo, unsent |-> none]
      /\ \A b \in FClients : b # c => fclient'[b] = fclient[b]
  BY <1>0, <1>2, HandlerMoves
<1>4. fclient[c].pc # "flush" /\ fclient'[c].pc # "flush"  BY <1>3
<1>5. \A d \in FDocs : FollowerOf(d)'  BY <1>3, <1>4, FollowerKept
<1>6. FtsTyped'  BY <1>3 DEF FtsInv, FtsTyped, follower
<1>7. IxSound(idx')  BY <1>0
<1> QED BY <1>5, <1>6, <1>7 DEF FtsInv

\* Every action keeps the invariant.
LEMMA FtsStep == FtsInv /\ [FtsNext]_ftsVars => FtsInv'
<1> SUFFICES ASSUME FtsInv, [FtsNext]_ftsVars PROVE FtsInv'  OBVIOUS
<1>0. /\ FtsTyped /\ HandlersTyped /\ IxSound(idx) /\ fdoc \in [FDocs -> Texts \cup {NoText}]
      /\ rpost \in [FDocs -> Bag] /\ rrev \in [FDocs -> SUBSET Terms]
  BY DEF FtsInv, FtsTyped
<1>1. ASSUME NEW c \in FClients, NEW d \in FDocs, NEW text \in Texts, FWrite(c, d, text) PROVE FtsInv'
  <2>1. fdoc' \in [FDocs -> Texts \cup {NoText}] /\ UNCHANGED <<idx, follower>> /\ fclient[c].pc = "idle"
    BY <1>0, <1>1 DEF FWrite
  <2>2. CASE UNCHANGED fclient
    <3>1. \A x \in FDocs : FollowerOf(x)'
      <4>1. fclient[c].pc # "flush" /\ fclient'[c].pc # "flush"  BY <2>1, <2>2
      <4> QED BY <2>1, <2>2, <4>1, FollowerKept
    <3>2. FtsTyped'  BY <1>0, <2>1, <2>2 DEF FtsTyped, HandlersTyped, follower
    <3> QED BY <1>0, <2>1, <3>1, <3>2 DEF FtsInv
  <2>3. CASE FStep(c, "index", <<[doc |-> d, text |-> text]>>, NoFlush)
    <3>1. PICK todo : todo = <<[doc |-> d, text |-> text]>>  OBVIOUS
    <3>2. todo \in Seq(Todo) /\ todo # <<>>  BY <3>1 DEF Todo
    <3> QED BY <2>1, <2>3, <3>1, <3>2, FBegins
  <2> QED BY <1>1, <2>2, <2>3 DEF FWrite
<1>2. ASSUME NEW c \in FClients, NEW d \in FDocs, FDelete(c, d) PROVE FtsInv'
  <2>1. fdoc' \in [FDocs -> Texts \cup {NoText}] /\ UNCHANGED <<idx, follower>> /\ fclient[c].pc = "idle"
    BY <1>0, <1>2 DEF FDelete
  <2>2. PICK todo : todo = <<[doc |-> d, text |-> fdoc[d]]>>  OBVIOUS
  <2>3. todo \in Seq(Todo) /\ todo # <<>>
    <3>1. fdoc[d] \in Texts  BY <1>0, <1>2 DEF FDelete
    <3> QED BY <2>2, <3>1 DEF Todo
  <2>4. FStep(c, "remove", todo, NoFlush)  BY <1>2, <2>2 DEF FDelete
  <2> QED BY <2>1, <2>3, <2>4, FBegins
<1>3. ASSUME NEW c \in FClients, FTSReindex(c) PROVE FtsInv'
  <2>3. PICK todo : todo = JobsOf(SetToSeq(Contentful))  OBVIOUS
  <2>4. /\ Contentful # {} /\ FStep(c, "index", todo, NoFlush) /\ fdoc' = fdoc
        /\ UNCHANGED <<idx, follower>> /\ fclient[c].pc = "idle"
    BY <1>3, <2>3, Zenon DEF FTSReindex, Contentful, JobsOf
  <2>5. todo \in Seq(Todo) /\ todo # <<>>  BY <1>0, <2>3, <2>4, ReindexJobs
  <2> QED BY <1>0, <2>4, <2>5, FBegins
<1>4. ASSUME NEW c \in FClients, IndexWithLang(c) PROVE FtsInv'
  <2>1. PICK todo, d, text : /\ todo = fclient[c].todo /\ d = Head(todo).doc /\ text = Head(todo).text  OBVIOUS
  <2>2. fclient[c].pc = "index" /\ UNCHANGED <<fdoc, follower>>  BY <1>4 DEF IndexWithLang
  <2>3. todo \in Seq(Todo) /\ todo # <<>> /\ d \in FDocs /\ text \in Texts  BY <1>0, <2>1, <2>2, HeadOf
  <2>4. text.content \in Bag /\ TermsOf(text.content) \in SUBSET Terms  BY <2>3, TextTyped DEF TermsOf
  <2>5. CASE TermsOf(text.content) = {}
    <3>1. FStep(c, "positions", todo, NoFlush) /\ idx' = idx  BY <1>4, <2>1, <2>5 DEF IndexWithLang
    <3>2. /\ HandlersTyped' /\ fclient'[c].pc # "flush"
          /\ \A b \in FClients : b # c => fclient'[b] = fclient[b]
      <4>1. PICK none, p : none = NoFlush /\ p = "positions"  OBVIOUS
      <4>2. none \in FlushSet /\ FStep(c, p, todo, none)  BY <3>1, <4>1, NoFlushTyped
      <4>3. /\ HandlersTyped' /\ fclient'[c] = [pc |-> p, todo |-> todo, unsent |-> none]
            /\ \A b \in FClients : b # c => fclient'[b] = fclient[b]
        BY <1>0, <2>3, <4>1, <4>2, HandlerMoves
      <4> QED BY <4>1, <4>3
    <3>3. \A x \in FDocs : FollowerOf(x)'
      <4>1. fclient[c].pc # "flush"  BY <2>2
      <4> QED BY <2>2, <3>1, <3>2, <4>1, FollowerKept
    <3> QED BY <1>0, <2>2, <3>1, <3>2, <3>3 DEF FtsInv, FtsTyped, follower
  <2>6. CASE TermsOf(text.content) # {}
    <3>1. PICK e : e = [doc |-> d, gone |-> idx.rev[d], put |-> text.content, rev |-> TermsOf(text.content)]
      OBVIOUS
    <3>2. /\ FStep(c, "flush", todo, e)
          /\ idx' = Indexed(idx, d, text.content)
      BY <1>4, <2>1, <2>6, <3>1 DEF IndexWithLang, Indexed
    <3>3. /\ IxSound(idx') /\ idx'.post = [idx.post EXCEPT ![d] = text.content]
          /\ idx'.rev = [idx.rev EXCEPT ![d] = TermsOf(text.content)]
      <4>1. PICK r : r = idx'  OBVIOUS
      <4>2. /\ IxSound(r) /\ r.post = [idx.post EXCEPT ![d] = text.content]
            /\ r.rev = [idx.rev EXCEPT ![d] = TermsOf(text.content)]
        <5>1. PICK ix, bag : ix = idx /\ bag = text.content  OBVIOUS
        <5>2. IxSound(ix) /\ TermsOf(bag) # {} /\ r = Indexed(ix, d, bag)
          BY <1>0, <2>6, <3>2, <4>1, <5>1
        <5>3. /\ IxSound(r) /\ r.post = [ix.post EXCEPT ![d] = bag]
              /\ r.rev = [ix.rev EXCEPT ![d] = TermsOf(bag)]
          BY <2>3, <5>1, <5>2, IndexedSound
        <5> QED BY <5>1, <5>3
      <4> QED BY <4>1, <4>2
    <3>4. e \in FlushSet /\ e.doc \in FDocs
      <4>1. idx.rev[d] \in SUBSET Terms  BY <1>0, <2>3 DEF IxSound, Index
      <4> QED BY <2>3, <2>4, <3>1, <4>1 DEF FlushSet
    <3>5. /\ HandlersTyped' /\ fclient'[c].pc = "flush" /\ fclient'[c].unsent = e
          /\ \A b \in FClients : b # c => fclient'[b] = fclient[b]
      <4>1. PICK p : p = "flush"  OBVIOUS
      <4>2. FStep(c, p, todo, e)  BY <3>2, <4>1
      <4>3. /\ HandlersTyped' /\ fclient'[c] = [pc |-> p, todo |-> todo, unsent |-> e]
            /\ \A b \in FClients : b # c => fclient'[b] = fclient[b]
        BY <1>0, <2>3, <3>4, <4>1, <4>2, HandlerMoves
      <4> QED BY <4>1, <4>3
    <3>6. \A x \in FDocs : FollowerOf(x)'
      <4>1. PICK bag \in Bag : bag = text.content  BY <2>4
      <4>2. fclient[c].pc # "flush"  BY <2>2
      <4>3. /\ idx'.post = [idx.post EXCEPT ![d] = bag] /\ idx'.rev = [idx.rev EXCEPT ![d] = TermsOf(bag)]
            /\ fclient'[c].unsent = [doc |-> d, gone |-> idx.rev[d], put |-> bag, rev |-> TermsOf(bag)]
        BY <3>1, <3>3, <3>5, <4>1
      <4> QED BY <2>2, <2>3, <3>5, <4>2, <4>3, FollowerBehind
    <3> QED BY <1>0, <2>2, <3>3, <3>5, <3>6 DEF FtsInv, FtsTyped, follower
  <2> QED BY <2>5, <2>6
<1>5. ASSUME NEW c \in FClients, FtsRemove(c) PROVE FtsInv'
  <2>1. PICK todo, d : /\ todo = fclient[c].todo /\ d = Head(todo).doc  OBVIOUS
  <2>2. fclient[c].pc = "remove" /\ UNCHANGED <<fdoc, follower>>  BY <1>5 DEF FtsRemove
  <2>3. todo \in Seq(Todo) /\ todo # <<>> /\ d \in FDocs  BY <1>0, <2>1, <2>2, HeadOf
  <2>4. PICK e : e = [doc |-> d, gone |-> idx.rev[d], put |-> Zero, rev |-> {}]  OBVIOUS
  <2>5. /\ FStep(c, "flush", todo, e)
        /\ idx' = Removed(idx, d)
    <3>1. /\ FStep(c, "flush", todo, e)
          /\ idx' = RemoveFieldData(RemoveBM25Meta(
                        [idx EXCEPT !.post[d] = Reposted(@, idx.rev[d], Zero), !.rev[d] = {},
                                    !.pos[d] = @ \ idx.posrev[d], !.posrev[d] = {}], d), d)
      BY <1>5, <2>1, <2>4 DEF FtsRemove
    <3>2. idx' = Removed(idx, d)  BY <3>1 DEF Removed
    <3> QED BY <3>1, <3>2
  <2>6. /\ IxSound(idx') /\ idx'.post = [idx.post EXCEPT ![d] = Zero]
        /\ idx'.rev = [idx.rev EXCEPT ![d] = {}]
    <3>1. PICK r : r = idx'  OBVIOUS
    <3>2. /\ IxSound(r) /\ r.post = [idx.post EXCEPT ![d] = Zero]
          /\ r.rev = [idx.rev EXCEPT ![d] = {}]
      BY <1>0, <2>3, <2>5, <3>1, RemovedSound
    <3> QED BY <3>1, <3>2
  <2>7. e \in FlushSet /\ e.doc \in FDocs
    <3>1. idx.rev[d] \in SUBSET Terms  BY <1>0, <2>3 DEF IxSound, Index
    <3> QED BY <2>3, <2>4, <3>1, ZeroIs DEF FlushSet
  <2>8. /\ HandlersTyped' /\ fclient'[c].pc = "flush" /\ fclient'[c].unsent = e
        /\ \A b \in FClients : b # c => fclient'[b] = fclient[b]
    <3>1. PICK p : p = "flush"  OBVIOUS
    <3>2. FStep(c, p, todo, e)  BY <2>5, <3>1
    <3>3. /\ HandlersTyped' /\ fclient'[c] = [pc |-> p, todo |-> todo, unsent |-> e]
          /\ \A b \in FClients : b # c => fclient'[b] = fclient[b]
      BY <1>0, <2>3, <2>7, <3>1, <3>2, HandlerMoves
    <3> QED BY <3>1, <3>3
  <2>9. \A x \in FDocs : FollowerOf(x)'
    <3>1. PICK bag \in Bag : bag = Zero /\ TermsOf(bag) = {}  BY ZeroIs
    <3>2. fclient[c].pc # "flush"  BY <2>2
    <3>3. /\ idx'.post = [idx.post EXCEPT ![d] = bag] /\ idx'.rev = [idx.rev EXCEPT ![d] = TermsOf(bag)]
          /\ fclient'[c].unsent = [doc |-> d, gone |-> idx.rev[d], put |-> bag, rev |-> TermsOf(bag)]
      BY <2>4, <2>6, <2>8, <3>1
    <3> QED BY <2>2, <2>3, <2>8, <3>2, <3>3, FollowerBehind
  <2> QED BY <1>0, <2>2, <2>6, <2>8, <2>9 DEF FtsInv, FtsTyped, follower
<1>6. ASSUME NEW c \in FClients, FtsFlush(c) PROVE FtsInv'
  <2>1. PICK e, d : e = fclient[c].unsent /\ d = e.doc  OBVIOUS
  <2>2. /\ fclient[c].pc = "flush" /\ idx' = idx /\ fdoc' = fdoc /\ AfterFlush(c)
        /\ rpost' = [rpost EXCEPT ![d] = Reposted(@, e.gone, e.put)]
        /\ rrev' = [rrev EXCEPT ![d] = e.rev]
        /\ astray' = astray \cup ({d} \cap Unflushed(FClients \ {c}))
    BY <1>6, <2>1 DEF FtsFlush
  <2>3. d \in FDocs /\ e \in FlushSet  BY <1>0, <2>1, <2>2 DEF HandlersTyped, FHandler
  <2>4. /\ HandlersTyped' /\ fclient'[c].pc # "flush"
        /\ \A b \in FClients : b # c => fclient'[b] = fclient[b]
    <3>1. fclient[c].pc # "idle"  BY <2>2
    <3>2. CASE Onward(c)  BY <1>0, <3>1, <3>2, OnwardMoves
    <3>3. CASE FStep(c, "positions", fclient[c].todo, NoFlush)
      <4>1. PICK none, p, todo : none = NoFlush /\ p = "positions" /\ todo = fclient[c].todo  OBVIOUS
      <4>2. none \in FlushSet /\ FStep(c, p, todo, none)  BY <3>3, <4>1, NoFlushTyped
      <4>3. todo \in Seq(Todo) /\ todo # <<>>  BY <1>0, <3>1, <4>1, HeadOf
      <4>4. /\ HandlersTyped' /\ fclient'[c] = [pc |-> p, todo |-> todo, unsent |-> none]
            /\ \A b \in FClients : b # c => fclient'[b] = fclient[b]
        BY <1>0, <4>1, <4>2, <4>3, HandlerMoves
      <4> QED BY <4>1, <4>4
    <3> QED BY <2>2, <3>2, <3>3 DEF AfterFlush
  <2>5. \A x \in FDocs : FollowerOf(x)'  BY <2>1, <2>2, <2>3, <2>4, FollowerCatchesUp
  <2>6. rpost' \in [FDocs -> Bag] /\ rrev' \in [FDocs -> SUBSET Terms]
    <3>1. Reposted(rpost[d], e.gone, e.put) \in Bag
      BY <1>0, <2>3 DEF Reposted, Bag, FlushSet
    <3>2. e.rev \in SUBSET Terms  BY <2>3 DEF FlushSet
    <3> QED BY <1>0, <2>2, <3>1, <3>2
  <2> QED BY <1>0, <2>2, <2>4, <2>5, <2>6 DEF FtsInv, FtsTyped
<1>7. ASSUME NEW c \in FClients, IndexPositionsWithLang(c) PROVE FtsInv'
  <2>1. PICK todo, d, terms : /\ todo = fclient[c].todo /\ d = Head(todo).doc
                              /\ terms = TermsOf(Head(todo).text.content)
    OBVIOUS
  <2>2. /\ fclient[c].pc = "positions" /\ UNCHANGED <<fdoc, follower>> /\ FStep(c, "fields", todo, NoFlush)
        /\ idx' = IF terms = {} THEN idx
                  ELSE [idx EXCEPT !.pos[d] = (@ \ idx.posrev[d]) \cup terms, !.posrev[d] = terms]
    BY <1>7, <2>1 DEF IndexPositionsWithLang
  <2>3. todo \in Seq(Todo) /\ todo # <<>> /\ d \in FDocs /\ terms \in SUBSET Terms
    BY <1>0, <2>1, <2>2, HeadOf DEF TermsOf
  <2>4. IxSound(idx') /\ idx'.post = idx.post /\ idx'.rev = idx.rev
    <3>1. PICK r : r = idx'  OBVIOUS
    <3>2. CASE terms = {}  BY <1>0, <2>2, <3>2
    <3>3. CASE terms # {}
      <4>1. r = Positioned(idx, d, terms)  BY <2>2, <3>1, <3>3 DEF Positioned
      <4>2. IxSound(r) /\ r.post = idx.post /\ r.rev = idx.rev  BY <1>0, <2>3, <4>1, PositionedSound
      <4> QED BY <3>1, <4>2
    <3> QED BY <3>2, <3>3
  <2>5. /\ HandlersTyped' /\ fclient'[c].pc # "flush"
        /\ \A b \in FClients : b # c => fclient'[b] = fclient[b]
    <3>1. PICK none, p : none = NoFlush /\ p = "fields"  OBVIOUS
    <3>2. none \in FlushSet /\ FStep(c, p, todo, none)  BY <2>2, <3>1, NoFlushTyped
    <3>3. /\ HandlersTyped' /\ fclient'[c] = [pc |-> p, todo |-> todo, unsent |-> none]
          /\ \A b \in FClients : b # c => fclient'[b] = fclient[b]
      BY <1>0, <2>3, <3>1, <3>2, HandlerMoves
    <3> QED BY <3>1, <3>3
  <2>6. \A x \in FDocs : FollowerOf(x)'
    <3>1. fclient[c].pc # "flush"  BY <2>2
    <3> QED BY <2>2, <2>4, <2>5, <3>1, FollowerKept
  <2> QED BY <1>0, <2>2, <2>4, <2>5, <2>6 DEF FtsInv, FtsTyped, follower
<1>8. ASSUME NEW c \in FClients, IndexFieldsWithLang(c) PROVE FtsInv'
  <2>1. PICK todo, d, text : /\ todo = fclient[c].todo /\ d = Head(todo).doc /\ text = Head(todo).text  OBVIOUS
  <2>2. /\ fclient[c].pc = "fields" /\ UNCHANGED <<fdoc, follower>> /\ Onward(c)
        /\ idx' = IF FieldTerms(text) = {} THEN idx ELSE AddFieldData(RemoveFieldData(idx, d), d, text)
    BY <1>8, <2>1 DEF IndexFieldsWithLang
  <2>3. d \in FDocs /\ text \in Texts  BY <1>0, <2>1, <2>2, HeadOf
  <2>4. IxSound(idx') /\ idx'.post = idx.post /\ idx'.rev = idx.rev
    <3>1. PICK r : r = idx'  OBVIOUS
    <3>2. CASE FieldTerms(text) = {}  BY <1>0, <2>2, <3>2
    <3>3. CASE FieldTerms(text) # {}
      <4>1. r = AddFieldData(RemoveFieldData(idx, d), d, text)  BY <2>2, <3>1, <3>3
      <4>2. IxSound(r) /\ r.post = idx.post /\ r.rev = idx.rev  BY <1>0, <2>3, <4>1, FieldsReplacedSound
      <4> QED BY <3>1, <4>2
    <3> QED BY <3>2, <3>3
  <2>5. /\ HandlersTyped' /\ fclient'[c].pc # "flush"
        /\ \A b \in FClients : b # c => fclient'[b] = fclient[b]
    <3>1. fclient[c].pc # "idle"  BY <2>2
    <3> QED BY <1>0, <2>2, <3>1, OnwardMoves
  <2>6. \A x \in FDocs : FollowerOf(x)'
    <3>1. fclient[c].pc # "flush"  BY <2>2
    <3> QED BY <2>2, <2>4, <2>5, <3>1, FollowerKept
  <2> QED BY <1>0, <2>2, <2>4, <2>5, <2>6 DEF FtsInv, FtsTyped, follower
<1>9. CASE FtsCrash
  <2>1. /\ fclient' = [c \in FClients |-> FIdle] /\ astray' = astray \cup Unflushed(FClients)
        /\ UNCHANGED <<fdoc, idx, rpost, rrev>>
    BY <1>9 DEF FtsCrash
  <2>2. FIdle \in FHandler /\ FIdle.pc = "idle"
    <3>1. <<>> \in Seq(Todo)  OBVIOUS
    <3> QED BY <3>1, NoFlushTyped DEF FIdle, FHandler
  <2>3. HandlersTyped'  BY <2>1, <2>2 DEF HandlersTyped
  <2>4. ASSUME NEW d \in FDocs PROVE FollowerOf(d)'
    <3>1. \A c \in FClients : ~Pending(c, d)'  BY <2>1, <2>2 DEF Pending
    <3>2. ASSUME d \notin astray' PROVE rpost[d] = idx.post[d] /\ rrev[d] = idx.rev[d]
      <4>1. d \notin astray /\ \A c \in FClients : ~Pending(c, d)  BY <2>1, <3>2 DEF Unflushed, Pending
      <4> QED BY <4>1 DEF FtsInv, FollowerOf
    <3> QED BY <2>1, <3>1, <3>2 DEF FollowerOf
  <2> QED BY <1>0, <2>1, <2>3, <2>4 DEF FtsInv, FtsTyped
<1>10. CASE UNCHANGED ftsVars
  <2>1. UNCHANGED <<fdoc, idx, rpost, rrev, astray, fclient>>  BY <1>10 DEF ftsVars
  <2>2. FtsTyped'  BY <1>0, <2>1 DEF FtsTyped, HandlersTyped
  <2>3. \A d \in FDocs : FollowerOf(d)'  BY <2>1 DEF FtsInv, FollowerOf, Pending
  <2> QED BY <1>0, <2>1, <2>2, <2>3 DEF FtsInv
<1> QED BY <1>1, <1>2, <1>3, <1>4, <1>5, <1>6, <1>7, <1>8, <1>9, <1>10 DEF FtsNext

\* The buckets of the full-text index agree with each other and with the follower's
\* (IndexWithLang, IndexFieldsWithLang, IndexPositionsWithLang, Remove, FlushTo), for any finite
\* collection and vocabulary, any texts, requests in any order, and crashes between transactions.
THEOREM FtsIndexSound == FtsSpec => []IndexSound
BY FtsInitInv, FtsStep, FtsInvSound, PTL DEF FtsSpec

-----------------------------------------------------------------------------
(* The windows of Limits. *)

\* How often something happened at each time, and in a stretch of time.
Row == [0..MaxTime -> Nat]
Stretch(from, to) == (from..to) \cap (0..MaxTime)
InRow(r, from, to) == SumOf(r, Stretch(from, to))
Since(r, s) == InRow(r, s, MaxTime)
QuietRow(r, now) == \A t \in 0..MaxTime : t > now => r[t] = 0
Again(r, now) == [r EXCEPT ![now] = @ + 1]

\* The property counts what a row holds.
LEMMA DuringIs == ASSUME NEW h, NEW k, NEW from, NEW to PROVE During(h, k, from, to) = InRow(h[k], from, to)
BY DEF During, InRow, SumOf, Stretch

\* A stretch is a finite set of times, and what happened in it a number.
LEMMA StretchTyped ==
  ASSUME NEW r \in Row, NEW from, NEW to
  PROVE  /\ IsFiniteSet(Stretch(from, to)) /\ Stretch(from, to) \subseteq 0..MaxTime
         /\ \A t \in Stretch(from, to) : r[t] \in Nat
         /\ InRow(r, from, to) \in Nat
<1>1. IsFiniteSet(0..MaxTime)  BY MaxTimeAssumption, FS_Interval
<1>2. Stretch(from, to) \subseteq 0..MaxTime  BY DEF Stretch
<1>3. IsFiniteSet(Stretch(from, to))  BY <1>1, <1>2, FS_Subset
<1>4. \A t \in Stretch(from, to) : r[t] \in Nat  BY <1>2 DEF Row
<1> QED BY <1>2, <1>3, <1>4, SumNat DEF InRow

\* More happens in a longer stretch.
LEMMA StretchWider ==
  ASSUME NEW r \in Row, NEW from \in Int, NEW to \in Int, NEW f2 \in Int, NEW t2 \in Int,
         f2 <= from, to <= t2
  PROVE  InRow(r, from, to) <= InRow(r, f2, t2)
<1>1. Stretch(from, to) \in SUBSET Stretch(f2, t2)  BY DEF Stretch
<1>2. IsFiniteSet(Stretch(f2, t2)) /\ \A t \in Stretch(f2, t2) : r[t] \in Nat  BY StretchTyped
<1> QED BY <1>1, <1>2, SumWithin DEF InRow

\* Nothing lies in the future, so a stretch may as well end now.
LEMMA StretchToNow ==
  ASSUME NEW r \in Row, NEW from \in Int, NEW now \in 0..MaxTime, QuietRow(r, now)
  PROVE  InRow(r, from, now) = Since(r, from)
<1>1. Stretch(from, now) \in SUBSET Stretch(from, MaxTime)  BY MaxTimeAssumption DEF Stretch
<1>2. IsFiniteSet(Stretch(from, MaxTime)) /\ \A t \in Stretch(from, MaxTime) : r[t] \in Nat  BY StretchTyped
<1>3. \A t \in Stretch(from, MaxTime) \ Stretch(from, now) : r[t] = 0
  BY MaxTimeAssumption DEF Stretch, QuietRow
<1> QED BY <1>1, <1>2, <1>3, SumWithin DEF InRow, Since

\* What happens now adds one to every stretch that has now in it.
LEMMA AgainIn ==
  ASSUME NEW r \in Row, NEW now \in 0..MaxTime, NEW from \in Int, NEW to \in Int
  PROVE  /\ Again(r, now) \in Row
         /\ from <= now /\ now <= to => InRow(Again(r, now), from, to) = InRow(r, from, to) + 1
         /\ ~(from <= now /\ now <= to) => InRow(Again(r, now), from, to) = InRow(r, from, to)
<1>1. PICK r2 : r2 = Again(r, now)  OBVIOUS
<1>2. r2 \in Row /\ r2[now] = r[now] + 1 /\ \A t \in 0..MaxTime : t # now => r2[t] = r[t]
  BY <1>1 DEF Again, Row
<1>3. PICK S : S = Stretch(from, to)  OBVIOUS
<1>4. IsFiniteSet(S) /\ S \subseteq 0..MaxTime /\ \A t \in S : r[t] \in Nat  BY <1>3, StretchTyped
<1>5. ASSUME from <= now, now <= to PROVE SumOf(r2, S) = SumOf(r, S) + 1
  <2>1. now \in S  BY <1>3, <1>5, MaxTimeAssumption DEF Stretch
  <2>2. \A t \in S : r[t] \in Int  BY <1>4
  <2>3. \A t \in S : t # now => r2[t] = r[t]  BY <1>2, <1>4
  <2>4. r2[now] \in Int /\ r[now] \in Int  BY <1>2, <2>1, <2>2
  <2>5. SumOf(r2, S) = SumOf(r, S) - r[now] + r2[now] /\ SumOf(r, S) \in Int
    BY ZenonT(60), <1>4, <2>1, <2>2, <2>3, <2>4, SumChange
  <2> QED BY <1>2, <2>4, <2>5
<1>6. ASSUME ~(from <= now /\ now <= to) PROVE SumOf(r2, S) = SumOf(r, S)
  <2>1. now \notin S  BY <1>3, <1>6, MaxTimeAssumption DEF Stretch
  <2>2. \A t \in S : r[t] \in Int /\ r2[t] = r[t]  BY <1>2, <1>4, <2>1
  <2> QED BY <1>4, <2>2, SumSame
<1> QED BY <1>1, <1>2, <1>3, <1>5, <1>6 DEF InRow

\* The same for stretches that have not ended.
LEMMA AgainSince ==
  ASSUME NEW r \in Row, NEW now \in 0..MaxTime, NEW s \in Int
  PROVE  /\ Since(r, s) \in Nat /\ Since(Again(r, now), s) \in Nat
         /\ s <= now => Since(Again(r, now), s) = Since(r, s) + 1
         /\ s > now => Since(Again(r, now), s) = Since(r, s)
<1>1. MaxTime \in Int /\ now <= MaxTime  BY MaxTimeAssumption
<1>2. Again(r, now) \in Row  BY DEF Again, Row
<1>3. Since(r, s) \in Nat /\ Since(Again(r, now), s) \in Nat  BY <1>2, StretchTyped DEF Since
<1> QED BY <1>1, <1>3, AgainIn DEF Since

\* What happens now does not lie in the future.
LEMMA AgainQuiet ==
  ASSUME NEW r \in Row, NEW now \in 0..MaxTime, QuietRow(r, now)
  PROVE  QuietRow(Again(r, now), now)
BY DEF QuietRow, Again, Row

RateBucket == [count : Nat, until : Int]
FailBucket == [count : Nat, until : Int, last : Int]

\* A window that ends at u was opened at some time o, and n things at least happened since.
Held(u, n, r, now) == \E o \in 0..now : u - Window <= o /\ n <= Since(r, o)

\* Whatever a reports, n things at least happened within a window and the wait before it.
Justified(a, r, n) == \A t \in 0..MaxTime : a[t] > 0 => InRow(r, t - Window - MaxWait, t) >= n

\* What is assumed of the parameters, in one place.
LEMMA SpanTyped ==
  /\ Budget \in Nat \ {0} /\ Window \in Nat \ {0} /\ MaxWait \in Nat
  /\ Threshold \in Nat \ {0} /\ Cooldown \in Nat \ {0} /\ MaxTime \in Nat
BY LimitsAssumption, MaxTimeAssumption

\* Time passes for a window.
LEMMA HeldTicks ==
  ASSUME NEW u, NEW n, NEW r, NEW now \in Nat, Held(u, n, r, now)
  PROVE  Held(u, n, r, now + 1)
BY DEF Held

\* A new window holds what is noted when it is opened.
LEMMA HeldOpens ==
  ASSUME NEW r \in Row, NEW now \in 0..MaxTime, NEW t \in 0..now
  PROVE  Held(t + Window, 1, Again(r, now), now)
<1>1. 1 <= Since(Again(r, now), now)  BY AgainSince
<1>2. now \in 0..now /\ (t + Window) - Window <= now  BY SpanTyped
<1> QED BY <1>1, <1>2 DEF Held

\* A window that goes on holds one more.
LEMMA HeldAgain ==
  ASSUME NEW u, NEW n \in Nat, NEW r \in Row, NEW now \in 0..MaxTime, Held(u, n, r, now)
  PROVE  Held(u, n + 1, Again(r, now), now)
<1>1. PICK o \in 0..now : u - Window <= o /\ n <= Since(r, o)  BY DEF Held
<1>2. Since(Again(r, now), o) = Since(r, o) + 1 /\ Since(r, o) \in Nat  BY AgainSince
<1>3. n + 1 <= Since(Again(r, now), o)  BY <1>1, <1>2
<1> QED BY <1>1, <1>3 DEF Held

\* What a live window holds lies within a window and the wait of a call that finds it.
LEMMA HeldRecently ==
  ASSUME NEW u \in Int, NEW n \in Nat, NEW r \in Row, NEW now \in 0..MaxTime, Held(u, n, r, now),
         QuietRow(r, now), NEW t \in 0..now, now <= t + MaxWait, t <= u, NEW m \in Nat, m <= n
  PROVE  InRow(r, now - Window - MaxWait, now) >= m
<1>1. PICK o \in 0..now : u - Window <= o /\ n <= Since(r, o)  BY DEF Held
<1>2. InRow(r, o, now) = Since(r, o)  BY StretchToNow
<1>3. now - Window - MaxWait <= o /\ now - Window - MaxWait \in Int  BY <1>1, SpanTyped
<1>4. InRow(r, o, now) <= InRow(r, now - Window - MaxWait, now)  BY <1>3, StretchWider
<1>5. InRow(r, o, now) \in Nat /\ InRow(r, now - Window - MaxWait, now) \in Nat  BY StretchTyped
<1> QED BY <1>1, <1>2, <1>4, <1>5

\* What happens later justifies what was reported before.
LEMMA JustifiedAgain ==
  ASSUME NEW a \in Row, NEW r \in Row, NEW now \in 0..MaxTime, NEW n \in Nat, Justified(a, r, n)
  PROVE  Justified(a, Again(r, now), n)
<1> SUFFICES ASSUME NEW t \in 0..MaxTime, a[t] > 0
             PROVE  InRow(Again(r, now), t - Window - MaxWait, t) >= n
  BY DEF Justified
<1>1. PICK from : from = t - Window - MaxWait  OBVIOUS
<1>2. from \in Int /\ t \in Int  BY <1>1, SpanTyped
<1>3. InRow(r, from, t) >= n  BY <1>1 DEF Justified
<1>4. InRow(Again(r, now), from, t) \in {InRow(r, from, t), InRow(r, from, t) + 1}  BY <1>2, AgainIn
<1>5. InRow(r, from, t) \in Nat  BY StretchTyped
<1> QED BY <1>1, <1>3, <1>4, <1>5

\* A report is justified by what it is made for.
LEMMA JustifiedNow ==
  ASSUME NEW a \in Row, NEW r \in Row, NEW now \in 0..MaxTime, NEW n \in Nat, Justified(a, r, n),
         InRow(r, now - Window - MaxWait, now) >= n
  PROVE  Justified(Again(a, now), r, n) /\ Again(a, now) \in Row
<1>1. PICK a2 : a2 = Again(a, now)  OBVIOUS
<1>2. a2 \in Row /\ \A t \in 0..MaxTime : t # now => a2[t] = a[t]  BY <1>1 DEF Again, Row
<1>3. Justified(a2, r, n)  BY <1>2 DEF Justified
<1> QED BY <1>1, <1>2, <1>3

\* The requests a bucket lets through, and the failures one has counted, happened since it was
\* opened.
Spent(b) == IF b.count <= Budget THEN b.count ELSE Budget
Paid(b, r, now) == b # NoBucket => Held(b.until, Spent(b), r, now)
Tallied(b, r, now) == b # NoBucket => Held(b.until, b.count, r, now)

\* What holds of one client of the limiter, and of one actor of the tracker.
RateKey(b, g, x, now) == QuietRow(g, now) /\ Paid(b, g, now) /\ Justified(x, g, Budget)
FailKey(b, n, a, now) == QuietRow(n, now) /\ Tallied(b, n, now) /\ Justified(a, n, Threshold)

\* The cleanup drops a bucket: nothing is promised of what it held.
LEMMA RateEnds ==
  ASSUME NEW b, NEW g, NEW x, NEW now, RateKey(b, g, x, now)
  PROVE  RateKey(NoBucket, g, x, now)
BY DEF RateKey, Paid

\* The bucket of allow after the request.
Charge(b, t) == IF Ended(b, t) THEN [count |-> 1, until |-> t + Window] ELSE [b EXCEPT !.count = @ + 1]

\* The two cases of the bucket that allow charges.
LEMMA ChargeTyped ==
  ASSUME NEW b \in RateBucket \cup {NoBucket}, NEW t \in Nat, NEW b2, b2 = Charge(b, t)
  PROVE  /\ b2 \in RateBucket /\ b2 # NoBucket /\ t <= b2.until
         /\ Ended(b, t) => b2.count = 1 /\ b2.until = t + Window
         /\ ~Ended(b, t) => /\ b \in RateBucket /\ b # NoBucket
                            /\ b2.count = b.count + 1 /\ b2.until = b.until
<1>1. CASE Ended(b, t)
  <2>1. b2 = [count |-> 1, until |-> t + Window]  BY <1>1 DEF Charge
  <2>2. b2 \in RateBucket /\ t <= b2.until  BY <2>1, SpanTyped DEF RateBucket
  <2>3. b2 # NoBucket  BY <2>2, NoBucketAssumption DEF RateBucket
  <2> QED BY <1>1, <2>1, <2>2, <2>3
<1>2. CASE ~Ended(b, t)
  <2>1. b # NoBucket /\ b \in RateBucket /\ t <= b.until  BY <1>2 DEF Ended, RateBucket
  <2>2. b2 = [b EXCEPT !.count = @ + 1]  BY <1>2 DEF Charge
  <2>3. b2 \in RateBucket /\ b2.count = b.count + 1 /\ b2.until = b.until
    BY <2>1, <2>2 DEF RateBucket
  <2>4. b2 # NoBucket  BY <2>3, NoBucketAssumption DEF RateBucket
  <2> QED BY <1>2, <2>1, <2>3, <2>4
<1> QED BY <1>1, <1>2

\* allow keeps what holds of its client: a request it refuses finds the budget spent.
LEMMA RateAllows ==
  ASSUME NEW b \in RateBucket \cup {NoBucket}, NEW g \in Row, NEW x \in Row, NEW now \in 0..MaxTime,
         RateKey(b, g, x, now), NEW t \in 0..now, now <= t + MaxWait,
         NEW b2, b2 = Charge(b, t),
         NEW g2, g2 = IF b2.count <= Budget THEN Again(g, now) ELSE g,
         NEW x2, x2 = IF b2.count <= Budget THEN x ELSE Again(x, now)
  PROVE  RateKey(b2, g2, x2, now) /\ b2 \in RateBucket /\ g2 \in Row /\ x2 \in Row
<1>0. QuietRow(g, now) /\ Paid(b, g, now) /\ Justified(x, g, Budget) /\ t \in Nat /\ Budget \in Nat \ {0}
  BY SpanTyped DEF RateKey
<1>1. b2 \in RateBucket /\ b2 # NoBucket /\ t <= b2.until /\ b2.count \in Nat /\ b2.until \in Int
  BY <1>0, ChargeTyped DEF RateBucket
<1>4. Ended(b, t) => b2.count = 1 /\ b2.until = t + Window  BY ZenonT(90), <1>0, ChargeTyped
<1>2. CASE b2.count <= Budget
  <2>1. g2 = Again(g, now) /\ x2 = x /\ Spent(b2) = b2.count  BY <1>2 DEF Spent
  <2>2. g2 \in Row /\ QuietRow(g2, now)
    <3>1. Again(g, now) \in Row  BY DEF Again, Row
    <3> QED BY <1>0, <2>1, <3>1, AgainQuiet
  <2>3. Justified(x2, g2, Budget)  BY <1>0, <2>1, JustifiedAgain
  <2>4. Held(b2.until, b2.count, g2, now)
    <3>1. CASE Ended(b, t)
      <4>1. b2.count = 1 /\ b2.until = t + Window  BY <1>4, <3>1
      <4> QED BY <2>1, <4>1, HeldOpens
    <3>2. CASE ~Ended(b, t)
      <4>1. b \in RateBucket /\ b # NoBucket /\ b2.count = b.count + 1 /\ b2.until = b.until
        BY <1>0, <3>2, ChargeTyped
      <4>2. b.count \in Nat /\ Spent(b) = b.count  BY <1>0, <1>2, <4>1 DEF Spent, RateBucket
      <4>3. Held(b.until, b.count, g, now)  BY <1>0, <4>1, <4>2 DEF Paid
      <4> QED BY <2>1, <4>1, <4>2, <4>3, HeldAgain
    <3> QED BY <3>1, <3>2
  <2> QED BY <1>1, <2>1, <2>2, <2>3, <2>4 DEF RateKey, Paid
<1>3. CASE ~(b2.count <= Budget)
  <2>1. g2 = g /\ x2 = Again(x, now) /\ Spent(b2) = Budget  BY <1>3 DEF Spent
  <2>2. ~Ended(b, t)  BY <1>0, <1>3, <1>4
  <2>3. b \in RateBucket /\ b # NoBucket /\ b2.count = b.count + 1 /\ b2.until = b.until
    BY <1>0, <2>2, ChargeTyped
  <2>4. Spent(b) = Budget  BY <1>0, <1>3, <2>3 DEF Spent, RateBucket
  <2>5. Held(b2.until, Budget, g, now)  BY <1>0, <2>3, <2>4 DEF Paid
  <2>6. InRow(g, now - Window - MaxWait, now) >= Budget
    <3>1. PICK n \in Nat : n = Budget  BY <1>0
    <3>2. Held(b2.until, n, g, now) /\ n <= n  BY <2>5, <3>1
    <3>3. InRow(g, now - Window - MaxWait, now) >= n  BY <1>0, <1>1, <3>2, HeldRecently
    <3> QED BY <3>1, <3>3
  <2>7. Justified(x2, g, Budget) /\ x2 \in Row  BY <1>0, <2>1, <2>6, JustifiedNow
  <2> QED BY <1>0, <1>1, <2>1, <2>5, <2>7 DEF RateKey, Paid
<1> QED BY <1>2, <1>3

\* The two cases of the bucket that Record counts in.
LEMMA CountedTyped ==
  ASSUME NEW b \in FailBucket \cup {NoBucket}, NEW t \in Nat, NEW b2, b2 = Counted(b, t)
  PROVE  /\ b2 \in FailBucket /\ b2 # NoBucket /\ t <= b2.until
         /\ Ended(b, t) => b2.count = 1 /\ b2.until = t + Window
         /\ ~Ended(b, t) => /\ b \in FailBucket /\ b # NoBucket
                            /\ b2.count = b.count + 1 /\ b2.until = b.until
<1>1. CASE Ended(b, t)
  <2>1. b2 = [count |-> 1, until |-> t + Window, last |-> -Cooldown]  BY <1>1 DEF Counted
  <2>2. b2 \in FailBucket /\ t <= b2.until  BY <2>1, SpanTyped DEF FailBucket
  <2>3. b2 # NoBucket  BY <2>2, NoBucketAssumption DEF FailBucket
  <2> QED BY <1>1, <2>1, <2>2, <2>3
<1>2. CASE ~Ended(b, t)
  <2>1. b # NoBucket /\ b \in FailBucket /\ t <= b.until  BY <1>2 DEF Ended, FailBucket
  <2>2. b2 = [b EXCEPT !.count = @ + 1]  BY <1>2 DEF Counted
  <2>3. b2 \in FailBucket /\ b2.count = b.count + 1 /\ b2.until = b.until
    BY <2>1, <2>2 DEF FailBucket
  <2>4. b2 # NoBucket  BY <2>3, NoBucketAssumption DEF FailBucket
  <2> QED BY <1>2, <2>1, <2>3, <2>4
<1> QED BY <1>1, <1>2

\* Record counts a failure when it notes it.
LEMMA TalliedCounts ==
  ASSUME NEW b \in FailBucket \cup {NoBucket}, NEW r \in Row, NEW now \in 0..MaxTime, Tallied(b, r, now),
         NEW t \in 0..now, NEW b2, b2 = Counted(b, t)
  PROVE  Tallied(b2, Again(r, now), now)
<1>1. t \in Nat  OBVIOUS
<1>2. CASE Ended(b, t)
  <2>1. b2.count = 1 /\ b2.until = t + Window  BY ZenonT(90), <1>1, <1>2, CountedTyped
  <2> QED BY <2>1, HeldOpens DEF Tallied
<1>3. CASE ~Ended(b, t)
  <2>1. b # NoBucket /\ b.count \in Nat /\ b2.count = b.count + 1 /\ b2.until = b.until
    BY <1>1, <1>3, CountedTyped DEF FailBucket
  <2>2. Held(b.until, b.count, r, now)  BY <2>1 DEF Tallied
  <2>3. Held(b.until, b.count + 1, Again(r, now), now)  BY <2>1, <2>2, HeldAgain
  <2> QED BY <2>1, <2>3 DEF Tallied
<1> QED BY <1>2, <1>3

\* Record keeps what holds of its actor: a burst it reports has been counted.
LEMMA FailRecords ==
  ASSUME NEW b \in FailBucket \cup {NoBucket}, NEW n \in Row, NEW a \in Row, NEW now \in 0..MaxTime,
         FailKey(b, n, a, now), NEW t \in 0..now, now <= t + MaxWait,
         NEW c, c = Counted(b, t), NEW fire \in BOOLEAN, fire => c.count >= Threshold,
         NEW b2, b2 = IF fire THEN [c EXCEPT !.last = t] ELSE c,
         NEW a2, a2 = IF fire THEN Again(a, now) ELSE a
  PROVE  /\ FailKey(b2, Again(n, now), a2, now)
         /\ b2 \in FailBucket /\ Again(n, now) \in Row /\ a2 \in Row
<1>1. t \in Nat /\ Threshold \in Nat  BY SpanTyped
<1>2. c \in FailBucket /\ c # NoBucket /\ t <= c.until /\ c.until \in Int /\ c.count \in Nat
  BY <1>1, CountedTyped DEF FailBucket
<1>3. PICK m : m = Again(n, now)  OBVIOUS
<1>4. m \in Row /\ QuietRow(m, now)
  <2>1. QuietRow(n, now)  BY DEF FailKey
  <2>2. m \in Row  BY <1>3 DEF Again, Row
  <2> QED BY <1>3, <2>1, <2>2, AgainQuiet
<1>5. Held(c.until, c.count, m, now)  BY <1>2, <1>3, TalliedCounts DEF FailKey, Tallied
<1>6. Justified(a, m, Threshold)  BY <1>1, <1>3, JustifiedAgain DEF FailKey
<1>7. b2 \in FailBucket /\ b2.count = c.count /\ b2.until = c.until  BY <1>2 DEF FailBucket
<1>8. Tallied(b2, m, now)  BY <1>5, <1>7 DEF Tallied
<1>9. CASE ~fire
  <2>1. a2 = a  BY <1>9
  <2> QED BY <1>3, <1>4, <1>6, <1>7, <1>8, <2>1 DEF FailKey
<1>10. CASE fire
  <2>1. a2 = Again(a, now) /\ Threshold <= c.count  BY <1>1, <1>2, <1>10
  <2>2. InRow(m, now - Window - MaxWait, now) >= Threshold  BY <1>1, <1>2, <1>4, <1>5, <2>1, HeldRecently
  <2>3. Justified(a2, m, Threshold) /\ a2 \in Row  BY <1>1, <1>4, <1>6, <2>1, <2>2, JustifiedNow
  <2> QED BY <1>3, <1>4, <1>7, <1>8, <2>3 DEF FailKey
<1> QED BY <1>9, <1>10

\* The future begins later.
LEMMA QuietTicks ==
  ASSUME NEW r \in Row, NEW now \in Nat, QuietRow(r, now) PROVE QuietRow(r, now + 1)
BY MaxTimeAssumption DEF QuietRow

\* Time passes for a client and an actor.
LEMMA KeysTick ==
  ASSUME NEW lb, NEW fb, NEW g \in Row, NEW x, NEW n \in Row, NEW a, NEW now \in Nat,
         RateKey(lb, g, x, now), FailKey(fb, n, a, now)
  PROVE  RateKey(lb, g, x, now + 1) /\ FailKey(fb, n, a, now + 1)
<1>1. QuietRow(g, now + 1) /\ QuietRow(n, now + 1)  BY QuietTicks DEF RateKey, FailKey
<1>2. Paid(lb, g, now + 1)  BY HeldTicks DEF RateKey, Paid
<1>3. Tallied(fb, n, now + 1)  BY HeldTicks DEF FailKey, Tallied
<1> QED BY <1>1, <1>2, <1>3 DEF RateKey, FailKey

LimTyped ==
  /\ clock \in 0..MaxTime
  /\ waiting \in [Waits -> Nat]
  /\ limiter \in [Actors -> RateBucket \cup {NoBucket}]
  /\ failures \in [Actors -> FailBucket \cup {NoBucket}]
  /\ granted \in [Actors -> Row] /\ refused \in [Actors -> Row]
  /\ noted \in [Actors -> Row] /\ alarms \in [Actors -> Row]
WaitsInTime == \A w \in Waits : waiting[w] > 0 => w.at <= clock /\ clock <= w.at + MaxWait
RateKeys == \A k \in Actors : RateKey(limiter[k], granted[k], refused[k], clock)
FailKeys == \A k \in Actors : FailKey(failures[k], noted[k], alarms[k], clock)
LimInv == LimTyped /\ WaitsInTime /\ RateKeys /\ FailKeys

\* The invariant holds initially.
LEMMA LimInitInv == LimitsInit => LimInv
<1> SUFFICES ASSUME LimitsInit PROVE LimInv  OBVIOUS
<1>1. PICK zero : zero = [t \in 0..MaxTime |-> 0]  OBVIOUS
<1>2. zero \in Row /\ \A t \in 0..MaxTime : zero[t] = 0  BY <1>1 DEF Row
<1>3. /\ granted = [k \in Actors |-> zero] /\ refused = [k \in Actors |-> zero]
      /\ noted = [k \in Actors |-> zero] /\ alarms = [k \in Actors |-> zero]
  BY <1>1 DEF LimitsInit, Never
<1>4. LimTyped
  <2>1. clock \in 0..MaxTime  BY MaxTimeAssumption DEF LimitsInit
  <2> QED BY <1>2, <1>3, <2>1 DEF LimitsInit, LimTyped
<1>5. WaitsInTime  BY DEF LimitsInit, WaitsInTime
<1>6. QuietRow(zero, 0)  BY <1>2 DEF QuietRow
<1>7. \A n : Justified(zero, zero, n)  BY <1>2 DEF Justified
<1>8. RateKey(NoBucket, zero, zero, 0) /\ FailKey(NoBucket, zero, zero, 0)
  BY <1>6, <1>7 DEF RateKey, FailKey, Paid, Tallied
<1>9. clock = 0 /\ \A k \in Actors : limiter[k] = NoBucket /\ failures[k] = NoBucket  BY DEF LimitsInit
<1>10. RateKeys /\ FailKeys  BY <1>3, <1>8, <1>9 DEF RateKeys, FailKeys
<1> QED BY <1>4, <1>5, <1>10 DEF LimInv

\* The invariant implies the property.
LEMMA LimInvHolds == LimInv => LimitsHold
<1> SUFFICES ASSUME LimInv PROVE LimitsHold  OBVIOUS
<1>1. RefusalIsReal
  <2>1. ASSUME NEW k \in Actors, NEW t \in 0..MaxTime, refused[k][t] > 0
        PROVE  During(granted, k, t - Window - MaxWait, t) >= Budget
    <3>1. InRow(granted[k], t - Window - MaxWait, t) >= Budget
      BY <2>1 DEF LimInv, RateKeys, RateKey, Justified
    <3> QED BY <3>1, DuringIs
  <2> QED BY <2>1 DEF RefusalIsReal
<1>2. BurstIsReal
  <2>1. ASSUME NEW k \in Actors, NEW t \in 0..MaxTime, alarms[k][t] > 0
        PROVE  During(noted, k, t - Window - MaxWait, t) >= Threshold
    <3>1. InRow(noted[k], t - Window - MaxWait, t) >= Threshold
      BY <2>1 DEF LimInv, FailKeys, FailKey, Justified
    <3> QED BY <3>1, DuringIs
  <2> QED BY <2>1 DEF BurstIsReal
<1> QED BY <1>1, <1>2 DEF LimitsHold

\* The call that gets the lock has waited, but not too long.
LEMMA WaitsLess ==
  ASSUME LimInv, NEW w \in Waits, waiting[w] > 0, waiting' = [waiting EXCEPT ![w] = @ - 1], clock' = clock
  PROVE  /\ w.key \in Actors /\ w.at \in 0..clock /\ clock <= w.at + MaxWait
         /\ waiting' \in [Waits -> Nat] /\ WaitsInTime'
<1>1. clock \in 0..MaxTime /\ waiting \in [Waits -> Nat]  BY DEF LimInv, LimTyped
<1>2. w.key \in Actors /\ w.at \in 0..MaxTime  BY DEF Waits
<1>3. w.at <= clock /\ clock <= w.at + MaxWait  BY DEF LimInv, WaitsInTime
<1>4. waiting' \in [Waits -> Nat]  BY <1>1
<1>5. WaitsInTime'
  <2>1. \A v \in Waits : waiting'[v] > 0 => waiting[v] > 0  BY <1>1
  <2> QED BY <2>1 DEF LimInv, WaitsInTime
<1> QED BY <1>1, <1>2, <1>3, <1>4, <1>5

\* Every action keeps the invariant.
LEMMA LimStep == LimInv /\ [LimitsNext]_limitVars => LimInv'
<1> SUFFICES ASSUME LimInv, [LimitsNext]_limitVars PROVE LimInv'  OBVIOUS
<1>0. LimTyped /\ WaitsInTime /\ RateKeys /\ FailKeys /\ clock \in 0..MaxTime  BY DEF LimInv, LimTyped
<1>1. CASE TickClock
  <2>1. /\ clock' = clock + 1 /\ clock' \in 0..MaxTime
        /\ UNCHANGED <<waiting, limiter, failures, granted, refused, noted, alarms>>
    BY <1>0, <1>1, MaxTimeAssumption DEF TickClock
  <2>2. LimTyped'  BY <1>0, <2>1 DEF LimTyped
  <2>3. WaitsInTime'
    <3>1. ASSUME NEW w \in Waits, waiting[w] > 0 PROVE w.at <= clock + 1 /\ clock + 1 <= w.at + MaxWait
      <4>1. w.at <= clock /\ clock < w.at + MaxWait  BY <1>0, <1>1, <3>1 DEF WaitsInTime, TickClock
      <4>2. w.at \in Int  BY DEF Waits
      <4> QED BY <1>0, <4>1, <4>2, SpanTyped
    <3> QED BY <2>1, <3>1 DEF WaitsInTime
  <2>4. ASSUME NEW k \in Actors
        PROVE  /\ RateKey(limiter[k], granted[k], refused[k], clock + 1)
               /\ FailKey(failures[k], noted[k], alarms[k], clock + 1)
    <3>1. granted[k] \in Row /\ noted[k] \in Row /\ alarms[k] \in Row /\ clock \in Nat  BY <1>0 DEF LimTyped
    <3>2. RateKey(limiter[k], granted[k], refused[k], clock) /\ FailKey(failures[k], noted[k], alarms[k], clock)
      BY <1>0 DEF RateKeys, FailKeys
    <3> QED BY <3>1, <3>2, KeysTick
  <2>5. RateKeys' /\ FailKeys'  BY <2>1, <2>4 DEF RateKeys, FailKeys
  <2> QED BY <2>2, <2>3, <2>5 DEF LimInv
<1>2. ASSUME NEW k \in Actors, NEW what \in {"allow", "record"}, ReadClock(what, k) PROVE LimInv'
  <2>1. PICK w : w = [what |-> what, key |-> k, at |-> clock]  OBVIOUS
  <2>2. w \in Waits /\ w.at = clock  BY <1>0, <2>1 DEF Waits
  <2>3. /\ waiting' = [waiting EXCEPT ![w] = @ + 1]
        /\ UNCHANGED <<clock, limiter, failures, granted, refused, noted, alarms>>
    BY <1>2, <2>1 DEF ReadClock
  <2>4. waiting \in [Waits -> Nat]  BY <1>0 DEF LimTyped
  <2>5. waiting' \in [Waits -> Nat] /\ \A v \in Waits : v # w => waiting'[v] = waiting[v]  BY <2>2, <2>3, <2>4
  <2>6. LimTyped'  BY <1>0, <2>3, <2>5 DEF LimTyped
  <2>7. WaitsInTime'
    <3>1. ASSUME NEW v \in Waits, waiting'[v] > 0 PROVE v.at <= clock /\ clock <= v.at + MaxWait
      <4>1. CASE v = w  BY <1>0, <2>2, <4>1, SpanTyped
      <4>2. CASE v # w  BY <1>0, <2>5, <3>1, <4>2 DEF WaitsInTime
      <4> QED BY <4>1, <4>2
    <3> QED BY <2>3, <3>1 DEF WaitsInTime
  <2>8. RateKeys' /\ FailKeys'  BY <1>0, <2>3 DEF RateKeys, FailKeys
  <2> QED BY <2>6, <2>7, <2>8 DEF LimInv
<1>3. ASSUME NEW w \in Waits, Allow(w) PROVE LimInv'
  <2>1. PICK k, t : k = w.key /\ t = w.at  OBVIOUS
  <2>2. PICK live : live = [a \in Actors |-> IF t > cleanupAt /\ Ended(limiter[a], t) THEN NoBucket
                                             ELSE limiter[a]]
    OBVIOUS
  <2>3. PICK b : b = Charge(live[k], t)  OBVIOUS
  <2>4. /\ waiting[w] > 0 /\ waiting' = [waiting EXCEPT ![w] = @ - 1]
        /\ limiter' = [live EXCEPT ![k] = b]
        /\ b.count <= Budget => granted' = [granted EXCEPT ![k][clock] = @ + 1] /\ refused' = refused
        /\ ~(b.count <= Budget) => refused' = [refused EXCEPT ![k][clock] = @ + 1] /\ granted' = granted
        /\ UNCHANGED <<clock, failures, noted, alarms>>
    BY <1>3, <2>1, <2>2, <2>3 DEF Allow, Charge
  <2>5. k \in Actors /\ t \in 0..clock /\ clock <= t + MaxWait /\ waiting' \in [Waits -> Nat] /\ WaitsInTime'
    BY <2>1, <2>4, WaitsLess
  <2>6. ASSUME NEW a \in Actors
        PROVE  live[a] \in RateBucket \cup {NoBucket} /\ RateKey(live[a], granted[a], refused[a], clock)
    <3>1. limiter[a] \in RateBucket \cup {NoBucket}  BY <1>0 DEF LimTyped
    <3>2. RateKey(limiter[a], granted[a], refused[a], clock)  BY <1>0 DEF RateKeys
    <3>3. RateKey(NoBucket, granted[a], refused[a], clock)  BY <3>2, RateEnds
    <3> QED BY <2>2, <3>1, <3>2, <3>3
  <2>7. PICK g, x : /\ g = IF b.count <= Budget THEN Again(granted[k], clock) ELSE granted[k]
                    /\ x = IF b.count <= Budget THEN refused[k] ELSE Again(refused[k], clock)
    OBVIOUS
  <2>8. RateKey(b, g, x, clock) /\ b \in RateBucket /\ g \in Row /\ x \in Row
    <3>1. PICK l, g0, x0 : l = live[k] /\ g0 = granted[k] /\ x0 = refused[k]  OBVIOUS
    <3>2. l \in RateBucket \cup {NoBucket} /\ RateKey(l, g0, x0, clock) /\ g0 \in Row /\ x0 \in Row
      BY <1>0, <2>5, <2>6, <3>1 DEF LimTyped
    <3>3. /\ b = Charge(l, t) /\ g = IF b.count <= Budget THEN Again(g0, clock) ELSE g0
          /\ x = IF b.count <= Budget THEN x0 ELSE Again(x0, clock)
      BY <2>3, <2>7, <3>1
    <3> QED BY <1>0, <2>5, <3>2, <3>3, RateAllows
  <2>9. granted' = [granted EXCEPT ![k] = g] /\ refused' = [refused EXCEPT ![k] = x]
    <3>1. granted \in [Actors -> Row] /\ refused \in [Actors -> Row]  BY <1>0 DEF LimTyped
    <3>2. CASE b.count <= Budget
      <4>1. granted' = [granted EXCEPT ![k][clock] = @ + 1] /\ refused' = refused  BY <2>4, <3>2
      <4>2. g = [granted[k] EXCEPT ![clock] = @ + 1] /\ x = refused[k]  BY <2>7, <3>2 DEF Again
      <4> QED BY <2>5, <3>1, <4>1, <4>2
    <3>3. CASE ~(b.count <= Budget)
      <4>1. refused' = [refused EXCEPT ![k][clock] = @ + 1] /\ granted' = granted  BY <2>4, <3>3
      <4>2. x = [refused[k] EXCEPT ![clock] = @ + 1] /\ g = granted[k]  BY <2>7, <3>3 DEF Again
      <4> QED BY <2>5, <3>1, <4>1, <4>2
    <3> QED BY <3>2, <3>3
  <2>10. /\ limiter'[k] = b /\ granted'[k] = g /\ refused'[k] = x
         /\ \A a \in Actors : a # k => /\ limiter'[a] = live[a]
                                       /\ granted'[a] = granted[a] /\ refused'[a] = refused[a]
         /\ limiter' \in [Actors -> RateBucket \cup {NoBucket}]
         /\ granted' \in [Actors -> Row] /\ refused' \in [Actors -> Row]
    <3>1. granted \in [Actors -> Row] /\ refused \in [Actors -> Row]  BY <1>0 DEF LimTyped
    <3>2. live \in [Actors -> RateBucket \cup {NoBucket}]  BY <2>2, <2>6
    <3> QED BY <2>4, <2>5, <2>8, <2>9, <3>1, <3>2
  <2>11. RateKeys'
    <3>1. \A a \in Actors : RateKey(limiter'[a], granted'[a], refused'[a], clock)  BY <2>6, <2>8, <2>10
    <3> QED BY <2>4, <3>1 DEF RateKeys
  <2>12. LimTyped' /\ FailKeys'  BY <1>0, <2>4, <2>5, <2>10 DEF LimTyped, FailKeys
  <2> QED BY <2>5, <2>11, <2>12 DEF LimInv
<1>4. ASSUME NEW w \in Waits, RecordFailure(w) PROVE LimInv'
  <2>1. PICK k, t, c : k = w.key /\ t = w.at /\ c = Counted(failures[k], t)  OBVIOUS
  <2>2. PICK fire \in BOOLEAN : fire = (c.count >= Threshold /\ t - c.last >= Cooldown)  OBVIOUS
  <2>3. PICK b : b = IF fire THEN [c EXCEPT !.last = t] ELSE c  OBVIOUS
  <2>4. /\ waiting[w] > 0 /\ waiting' = [waiting EXCEPT ![w] = @ - 1]
        /\ failures' = [failures EXCEPT ![k] = b]
        /\ noted' = [noted EXCEPT ![k][clock] = @ + 1]
        /\ alarms' = IF fire THEN [alarms EXCEPT ![k][clock] = @ + 1] ELSE alarms
        /\ UNCHANGED <<clock, limiter, granted, refused>>
    BY <1>4, <2>1, <2>2, <2>3 DEF RecordFailure
  <2>5. k \in Actors /\ t \in 0..clock /\ clock <= t + MaxWait /\ waiting' \in [Waits -> Nat] /\ WaitsInTime'
    BY <2>1, <2>4, WaitsLess
  <2>6. /\ failures \in [Actors -> FailBucket \cup {NoBucket}]
        /\ noted \in [Actors -> Row] /\ alarms \in [Actors -> Row]
    BY <1>0 DEF LimTyped
  <2>7. PICK n, a : n = Again(noted[k], clock) /\ a = IF fire THEN Again(alarms[k], clock) ELSE alarms[k]
    OBVIOUS
  <2>8. FailKey(b, n, a, clock) /\ b \in FailBucket /\ n \in Row /\ a \in Row
    <3>1. PICK f, n0, a0 : f = failures[k] /\ n0 = noted[k] /\ a0 = alarms[k]  OBVIOUS
    <3>2. f \in FailBucket \cup {NoBucket} /\ FailKey(f, n0, a0, clock) /\ n0 \in Row /\ a0 \in Row
      BY <1>0, <2>5, <2>6, <3>1 DEF FailKeys
    <3>3. c = Counted(f, t) /\ n = Again(n0, clock) /\ a = IF fire THEN Again(a0, clock) ELSE a0
      BY <2>1, <2>7, <3>1
    <3> QED BY <1>0, <2>2, <2>3, <2>5, <3>2, <3>3, FailRecords
  <2>9. noted' = [noted EXCEPT ![k] = n] /\ alarms' = [alarms EXCEPT ![k] = a]
    <3>1. noted' = [noted EXCEPT ![k] = n]
      <4>1. n = [noted[k] EXCEPT ![clock] = @ + 1]  BY <2>7 DEF Again
      <4> QED BY <2>4, <2>5, <2>6, <4>1
    <3>2. CASE fire
      <4>1. alarms' = [alarms EXCEPT ![k][clock] = @ + 1]  BY <2>4, <3>2
      <4>2. a = [alarms[k] EXCEPT ![clock] = @ + 1]  BY <2>7, <3>2 DEF Again
      <4> QED BY <2>5, <2>6, <3>1, <4>1, <4>2
    <3>3. CASE ~fire  BY <2>4, <2>5, <2>6, <2>7, <3>1, <3>3
    <3> QED BY <3>2, <3>3
  <2>10. LimTyped'  BY ZenonT(60), <1>0, <2>4, <2>5, <2>6, <2>8, <2>9 DEF LimTyped
  <2>11. FailKeys'
    <3>1. ASSUME NEW j \in Actors PROVE FailKey(failures'[j], noted'[j], alarms'[j], clock)
      <4>1. CASE j = k  BY <2>4, <2>5, <2>6, <2>8, <2>9, <4>1
      <4>2. CASE j # k
        <5>1. failures'[j] = failures[j] /\ noted'[j] = noted[j] /\ alarms'[j] = alarms[j]
          BY <2>4, <2>5, <2>6, <2>9, <4>2
        <5> QED BY <1>0, <5>1 DEF FailKeys
      <4> QED BY <4>1, <4>2
    <3> QED BY <2>4, <3>1 DEF FailKeys
  <2>12. RateKeys'  BY <1>0, <2>4 DEF RateKeys
  <2> QED BY <2>5, <2>10, <2>11, <2>12 DEF LimInv
<1>5. CASE UNCHANGED limitVars
  <2>1. UNCHANGED <<clock, waiting, limiter, failures, granted, refused, noted, alarms>>  BY <1>5 DEF limitVars
  <2>2. LimTyped'  BY <1>0, <2>1 DEF LimTyped
  <2>3. WaitsInTime'  BY <1>0, <2>1 DEF WaitsInTime
  <2>4. RateKeys' /\ FailKeys'  BY <1>0, <2>1 DEF RateKeys, FailKeys
  <2> QED BY <2>2, <2>3, <2>4 DEF LimInv
<1> QED BY <1>1, <1>2, <1>3, <1>4, <1>5 DEF LimitsNext

\* Whoever the limiter refuses has used its budget, and the failures behind a reported burst
\* were recorded, within one window and the wait for the lock (allow, Record), for any budget,
\* window, threshold and cool-down, any clients, and calls that act on a time that has passed.
THEOREM LimitsAlwaysHold == LimitsSpec => []LimitsHold
BY LimInitInv, LimStep, LimInvHolds, PTL DEF LimitsSpec
-----------------------------------------------------------------------------
(* Temporal: events, hot counters and weeks. *)

Job == [doc : TDocs, type : TypesOfEvent, ts : Nat, seq : Nat]
Hot == [count : Nat, last : Nat]
Recording == {r \in Recorders : recorder[r] # <<>>}
JobsOn(s) == {s[i] : i \in 1..Len(s)}
Written == JobsOn(tchan) \cup JobsOn(pending) \cup evts

TempTyped ==
  /\ day \in Nat /\ seq \in Nat /\ tdropped \in Nat /\ tlost \in Nat /\ trecorded \in Nat
  /\ recorder \in [Recorders -> {<<>>} \cup {<<j>> : j \in Job}]
  /\ tchan \in Seq(Job) /\ pending \in Seq(Job)
  /\ evts \in SUBSET Job /\ IsFiniteSet(evts)
  /\ hot \in [TDocs -> Hot]

\* Sequence numbers tell events apart, wherever they are.
NoTwice(s) == \A i, k \in 1..Len(s) : s[i].seq = s[k].seq => i = k
Apart(A, B) == \A a \in A, b \in B : a.seq # b.seq
Numbered ==
  /\ NoTwice(tchan) /\ NoTwice(pending)
  /\ Apart(JobsOn(tchan), JobsOn(pending)) /\ Apart(JobsOn(tchan), evts) /\ Apart(JobsOn(pending), evts)
  /\ \A x \in Written : x.seq <= seq
  /\ \A r \in Recording :
       /\ recorder[r][1].seq <= seq
       /\ \A x \in Written : x.seq # recorder[r][1].seq
       /\ \A q \in Recording \ {r} : recorder[q][1].seq # recorder[r][1].seq

TempInv == TempTyped /\ Numbered /\ EventsKept /\ HotIsCounted

\* What the channel has after a send.
LEMMA JobsAppend ==
  ASSUME NEW s \in Seq(Job), NEW j \in Job
  PROVE  /\ Append(s, j) \in Seq(Job) /\ Len(Append(s, j)) = Len(s) + 1 /\ Len(s) \in Nat
         /\ JobsOn(Append(s, j)) = JobsOn(s) \cup {j}
         /\ NoTwice(s) /\ (\A x \in JobsOn(s) : x.seq # j.seq) => NoTwice(Append(s, j))
<1>1. /\ Append(s, j) \in Seq(Job) /\ Len(Append(s, j)) = Len(s) + 1 /\ Len(s) \in Nat
      /\ \A i \in 1..Len(s) : Append(s, j)[i] = s[i]
      /\ Append(s, j)[Len(s) + 1] = j
  OBVIOUS
<1>2. 1..(Len(s) + 1) = (1..Len(s)) \cup {Len(s) + 1}
  BY <1>1
<1>3. JobsOn(Append(s, j)) = JobsOn(s) \cup {j}
  BY <1>1, <1>2 DEF JobsOn
<1>4. ASSUME NoTwice(s), \A x \in JobsOn(s) : x.seq # j.seq PROVE NoTwice(Append(s, j))
  <2>1. \A i \in 1..Len(s) : s[i].seq # j.seq
    BY <1>4 DEF JobsOn
  <2>2. ASSUME NEW i \in 1..(Len(s) + 1), NEW k \in 1..(Len(s) + 1),
               Append(s, j)[i].seq = Append(s, j)[k].seq
        PROVE  i = k
    <3>1. CASE i \in 1..Len(s) /\ k \in 1..Len(s)
      BY <1>1, <1>4, <2>2, <3>1 DEF NoTwice
    <3>2. CASE i \in 1..Len(s) /\ k = Len(s) + 1
      BY <1>1, <2>1, <2>2, <3>2
    <3>3. CASE i = Len(s) + 1 /\ k \in 1..Len(s)
      BY <1>1, <2>1, <2>2, <3>3
    <3> QED BY <1>2, <3>1, <3>2, <3>3
  <2> QED BY <1>1, <2>2 DEF NoTwice
<1> QED BY <1>1, <1>3, <1>4

\* What the channel had before a receive.
LEMMA JobsTake ==
  ASSUME NEW s \in Seq(Job), s # <<>>
  PROVE  /\ Head(s) \in Job /\ Tail(s) \in Seq(Job) /\ Len(Tail(s)) = Len(s) - 1 /\ Len(s) \in Nat \ {0}
         /\ JobsOn(Tail(s)) \subseteq JobsOn(s) /\ Head(s) \in JobsOn(s)
         /\ NoTwice(s) => NoTwice(Tail(s)) /\ \A x \in JobsOn(Tail(s)) : x.seq # Head(s).seq
<1>1. /\ Head(s) \in Job /\ Tail(s) \in Seq(Job) /\ Len(Tail(s)) = Len(s) - 1
      /\ \A i \in 1..Len(Tail(s)) : Tail(s)[i] = s[i + 1]
  BY HeadTailProperties
<1>2. Len(s) \in Nat \ {0} /\ Head(s) = s[1]
  BY EmptySeq
<1>3. JobsOn(Tail(s)) \subseteq JobsOn(s) /\ Head(s) \in JobsOn(s)
  BY <1>1, <1>2 DEF JobsOn
<1>4. ASSUME NoTwice(s) PROVE NoTwice(Tail(s)) /\ \A x \in JobsOn(Tail(s)) : x.seq # Head(s).seq
  <2>1. \A i \in 1..Len(Tail(s)) : i + 1 \in 1..Len(s) /\ i + 1 # 1
    BY <1>1, <1>2
  <2>2. NoTwice(Tail(s))
    <3>1. ASSUME NEW i \in 1..Len(Tail(s)), NEW k \in 1..Len(Tail(s)), Tail(s)[i].seq = Tail(s)[k].seq
          PROVE  i = k
      <4>1. i + 1 = k + 1
        BY <1>1, <1>4, <2>1, <3>1 DEF NoTwice
      <4> QED BY <4>1
    <3> QED BY <3>1 DEF NoTwice
  <2>3. ASSUME NEW i \in 1..Len(Tail(s)) PROVE Tail(s)[i].seq # Head(s).seq
    <3>1. 1 \in 1..Len(s)
      BY <1>2
    <3> QED BY <1>1, <1>2, <1>4, <2>1, <3>1 DEF NoTwice
  <2> QED BY <2>2, <2>3 DEF JobsOn
<1> QED BY <1>1, <1>2, <1>3, <1>4

\* Jobs with numbers of their own are as many as their places.
LEMMA JobsCounted ==
  ASSUME NEW s \in Seq(Job), NoTwice(s), NEW at \in SUBSET (1..Len(s))
  PROVE  /\ IsFiniteSet({s[i] : i \in at}) /\ IsFiniteSet(at) /\ Cardinality(at) \in Nat
         /\ Cardinality({s[i] : i \in at}) = Cardinality(at)
<1>1. IsFiniteSet(at) /\ Cardinality(at) \in Nat
  <2>1. Len(s) \in Nat /\ IsFiniteSet(1..Len(s))
    BY FS_Interval
  <2> QED BY <2>1, FS_Subset, FS_CardinalityType
<1>2. PICK f : f = [i \in at |-> s[i]]
  OBVIOUS
<1>3. PICK T : T = {s[i] : i \in at}
  OBVIOUS
<1>4. f \in Bijection(at, T)
  <2>1. \A i, k \in at : s[i] = s[k] => i = k
    BY DEF NoTwice
  <2>2. f \in [at -> T] /\ (\A i \in at : f[i] = s[i]) /\ \A x \in T : \E i \in at : f[i] = x
    BY <1>2, <1>3
  <2>3. f \in Injection(at, T)
    BY <2>1, <2>2 DEF Injection, IsInjective
  <2>4. f \in Surjection(at, T)
    BY <2>2 DEF Surjection
  <2> QED BY <2>3, <2>4 DEF Bijection
<1>5. ExistsBijection(at, T)
  BY <1>4 DEF ExistsBijection
<1>6. IsFiniteSet(T) /\ Cardinality(T) = Cardinality(at)
  BY <1>1, <1>5, FS_Bijection
<1> QED BY <1>1, <1>3, <1>6

\* The latest of finitely many times.
LEMMA LatestTime ==
  ASSUME NEW times \in SUBSET Nat, IsFiniteSet(times), times # {}
  PROVE  \E t \in times : \A u \in times : t >= u
<1> DEFINE T == {s \in SUBSET times : s # {} /\ ~\E t \in s : \A u \in s : t >= u}
<1> SUFFICES ASSUME T # {} PROVE FALSE
  OBVIOUS
<1>1. \A s \in SUBSET times : IsFiniteSet(s)
  BY FS_Subset
<1>2. PICK s \in T : \A r \in T : Cardinality(s) <= Cardinality(r)
  <2>1. \A r \in T : IsFiniteSet(r)
    BY <1>1
  <2> HIDE DEF T
  <2> QED BY <2>1, SmallestSet
<1>3. s \in SUBSET times /\ s # {} /\ IsFiniteSet(s) /\ ~\E t \in s : \A u \in s : t >= u
  BY <1>1, <1>2
<1>4. PICK x \in s : TRUE
  BY <1>3
<1>5. Cardinality(s \ {x}) = Cardinality(s) - 1 /\ Cardinality(s) \in Nat
  BY <1>3, <1>4, FS_RemoveElement, FS_CardinalityType
<1>6. s \ {x} \notin T
  <2> HIDE DEF T
  <2> QED BY <1>2, <1>5
<1>7. x \in Nat /\ \A u \in s : u \in Nat
  BY <1>3
<1>8. CASE s \ {x} = {}
  <2>1. \A u \in s : x >= u
    BY <1>7, <1>8
  <2> QED BY <1>3, <1>4, <2>1
<1>9. CASE s \ {x} # {}
  <2>1. PICK t \in s \ {x} : \A u \in s \ {x} : t >= u
    BY <1>3, <1>6, <1>9
  <2>2. CASE x >= t
    <3>1. \A u \in s : x >= u
      BY <1>7, <2>1, <2>2
    <3> QED BY <1>3, <1>4, <3>1
  <2>3. CASE ~(x >= t)
    <3>1. \A u \in s : t >= u
      BY <1>7, <2>1, <2>3
    <3> QED BY <1>3, <2>1, <3>1
  <2> QED BY <2>2, <2>3
<1> QED BY <1>8, <1>9

\* The hot counter after accesses, by places and by events.
LEMMA AccessCounts ==
  ASSUME NEW h \in Hot, NEW s \in Seq(Job), NoTwice(s), NEW at \in SUBSET (1..Len(s)),
         NEW new, new = {s[i] : i \in at}
  PROVE  /\ Access(h, s, at) \in Hot
         /\ Access(h, s, at).count = h.count + Cardinality(new) /\ IsFiniteSet(new)
         /\ Access(h, s, at).last >= h.last
         /\ \A e \in new : Access(h, s, at).last >= e.ts
         /\ Access(h, s, at).last = h.last \/ \E e \in new : Access(h, s, at).last = e.ts
<1>1. /\ IsFiniteSet(new) /\ IsFiniteSet(at) /\ Cardinality(at) \in Nat
      /\ Cardinality(new) = Cardinality(at)
  BY JobsCounted
<1>2. PICK times : times = {h.last} \cup {s[i].ts : i \in at}
  OBVIOUS
<1>3. \A i \in at : s[i] \in Job /\ s[i].ts \in Nat
  <2>1. \A i \in 1..Len(s) : s[i] \in Job
    BY ElementOfSeq
  <2> QED BY <2>1 DEF Job
<1>4. times \in SUBSET Nat /\ times # {}
  BY <1>2, <1>3 DEF Hot
<1>5. IsFiniteSet(times)
  <2>1. PICK g : g = [i \in at |-> s[i].ts]
    OBVIOUS
  <2>2. PICK T : T = {s[i].ts : i \in at}
    OBVIOUS
  <2>3. g \in Surjection(at, T)
    BY <2>1, <2>2 DEF Surjection
  <2>4. IsFiniteSet(T)
    BY <1>1, <2>3, FS_Surjection
  <2>5. PICK x : x = h.last
    OBVIOUS
  <2>6. IsFiniteSet({x}) /\ IsFiniteSet({x} \cup T)
    BY <2>4, FS_Singleton, FS_Union
  <2> QED BY <1>2, <2>2, <2>5, <2>6
<1>6. \E t \in times : \A u \in times : t >= u
  BY <1>4, <1>5, LatestTime
<1>7. PICK last : last = CHOOSE t \in times : \A u \in times : t >= u
  OBVIOUS
<1>8. last \in times /\ \A u \in times : last >= u
  BY <1>6, <1>7
<1>9. Access(h, s, at) = [count |-> h.count + Cardinality(at), last |-> last]
  BY <1>2, <1>7 DEF Access
<1>10. h.count \in Nat /\ last \in Nat
  BY <1>4, <1>8 DEF Hot
<1>11. PICK k : k = Access(h, s, at)
  OBVIOUS
<1>12. k \in Hot /\ k.count = h.count + Cardinality(new) /\ k.last = last
  BY <1>1, <1>9, <1>10, <1>11 DEF Hot
<1>13. last >= h.last /\ \A e \in new : last >= e.ts
  BY <1>2, <1>8
<1>14. last = h.last \/ \E e \in new : last = e.ts
  BY <1>2, <1>8
<1> QED BY <1>1, <1>11, <1>12, <1>13, <1>14

\* The transaction of a batch, when it is committed.
Commits(jobs) ==
  /\ evts' = evts \cup {EventKey(jobs[i]) : i \in DOMAIN jobs}
  /\ hot' = [d \in TDocs |->
               Access(hot[d], jobs, {i \in DOMAIN jobs : jobs[i].doc = d /\ jobs[i].type = "access"})]

\* What committing numbered jobs does to the two buckets.
LEMMA CommitCounts ==
  ASSUME TempTyped, HotIsCounted, NEW jobs \in Seq(Job), NoTwice(jobs),
         Apart(JobsOn(jobs), evts), Commits(jobs)
  PROVE  /\ evts' = evts \cup JobsOn(jobs) /\ evts' \in SUBSET Job /\ IsFiniteSet(evts')
         /\ Cardinality(evts') = Cardinality(evts) + Len(jobs) /\ Cardinality(evts) \in Nat
         /\ hot' \in [TDocs -> Hot] /\ HotIsCounted'
<1>1. /\ Len(jobs) \in Nat /\ DOMAIN jobs = 1..Len(jobs) /\ \A i \in 1..Len(jobs) : jobs[i] \in Job
  BY ElementOfSeq
<1>2. \A j \in Job : EventKey(j) = j
  BY DEF EventKey, Job
<1>3. evts' = evts \cup JobsOn(jobs)
  BY <1>1, <1>2 DEF Commits, JobsOn
<1>4. evts' \in SUBSET Job
  BY <1>1, <1>3 DEF TempTyped, JobsOn
<1>5. evts \cap JobsOn(jobs) = {}
  BY DEF Apart
<1>6. PICK at : at = 1..Len(jobs)
  OBVIOUS
<1>7. IsFiniteSet(JobsOn(jobs)) /\ Cardinality(JobsOn(jobs)) = Len(jobs)
  <2>1. at \in SUBSET (1..Len(jobs)) /\ Cardinality(at) = Len(jobs)
    BY <1>1, <1>6, FS_Interval
  <2>2. JobsOn(jobs) = {jobs[i] : i \in at}
    BY <1>6 DEF JobsOn
  <2> QED BY <2>1, <2>2, JobsCounted
<1>8. IsFiniteSet(evts) /\ Cardinality(evts) \in Nat
  BY FS_CardinalityType DEF TempTyped
<1>9. IsFiniteSet(evts') /\ Cardinality(evts') = Cardinality(evts) + Len(jobs)
  <2>1. Cardinality(evts \cap JobsOn(jobs)) = 0
    BY <1>5, FS_EmptySet
  <2>2. PICK new : new = JobsOn(jobs)
    OBVIOUS
  <2>3. IsFiniteSet(evts \cup new) /\ Cardinality(evts \cup new) = Cardinality(evts) + Cardinality(new) - Cardinality(evts \cap new)
    BY <1>7, <1>8, <2>2, FS_Union
  <2> QED BY <1>1, <1>3, <1>7, <1>8, <2>1, <2>2, <2>3
<1>10. ASSUME NEW d \in TDocs
       PROVE  LET mine == {e \in evts' : e.doc = d /\ e.type = "access"} IN
                /\ hot'[d] \in Hot /\ hot'[d].count = Cardinality(mine)
                /\ \A e \in mine : e.ts <= hot'[d].last
                /\ hot'[d].last # 0 => \E e \in mine : e.ts = hot'[d].last
  <2>1. PICK places : places = {i \in DOMAIN jobs : jobs[i].doc = d /\ jobs[i].type = "access"}
    OBVIOUS
  <2>2. PICK new : new = {jobs[i] : i \in places}
    OBVIOUS
  <2>3. PICK old : old = {e \in evts : e.doc = d /\ e.type = "access"}
    OBVIOUS
  <2>4. PICK h : h = hot[d]
    OBVIOUS
  <2>5. PICK k : k = Access(h, jobs, places)
    OBVIOUS
  <2>6. hot'[d] = k
    BY <2>1, <2>4, <2>5 DEF Commits
  <2>7. h \in Hot /\ h.count = Cardinality(old) /\ (\A e \in old : e.ts <= h.last)
        /\ (h.last # 0 => \E e \in old : e.ts = h.last)
    BY <2>3, <2>4 DEF TempTyped, HotIsCounted
  <2>8. places \in SUBSET (1..Len(jobs))
    BY <1>1, <2>1
  <2>9. /\ k \in Hot /\ k.count = h.count + Cardinality(new) /\ IsFiniteSet(new)
        /\ k.last >= h.last /\ (\A e \in new : k.last >= e.ts)
        /\ (k.last = h.last \/ \E e \in new : k.last = e.ts)
    BY <2>2, <2>5, <2>7, <2>8, AccessCounts
  <2>10. {e \in evts' : e.doc = d /\ e.type = "access"} = old \cup new
    <3>1. new = {e \in JobsOn(jobs) : e.doc = d /\ e.type = "access"}
      BY <1>1, <2>1, <2>2 DEF JobsOn
    <3> QED BY <1>3, <2>3, <3>1
  <2>11. new \subseteq JobsOn(jobs) /\ old \subseteq evts
    BY <2>2, <2>3, <2>8 DEF JobsOn
  <2>12. Cardinality(old \cup new) = Cardinality(old) + Cardinality(new)
    <3>1. old \cap new = {} /\ Cardinality(old \cap new) = 0
      BY <1>5, <2>11, FS_EmptySet
    <3>2. IsFiniteSet(old) /\ Cardinality(old) \in Nat /\ Cardinality(new) \in Nat
      BY <1>8, <2>9, <2>11, FS_Subset, FS_CardinalityType
    <3>3. IsFiniteSet(new) /\ IsFiniteSet(old)
      BY <2>9, <3>2
    <3>4. Cardinality(old \cup new) = Cardinality(old) + Cardinality(new) - Cardinality(old \cap new)
      BY ONLY <3>3, FS_Union
    <3> QED BY <3>1, <3>2, <3>4
  <2>13. h.last \in Nat /\ k.last \in Nat /\ \A e \in old \cup new : e.ts \in Nat
    BY <1>4, <2>7, <2>9, <2>10 DEF Hot, Job
  <2>14. \A e \in old \cup new : e.ts <= k.last
    BY <2>7, <2>9, <2>13
  <2>15. k.last # 0 => \E e \in old \cup new : e.ts = k.last
    BY <2>7, <2>9
  <2> QED BY <2>6, <2>7, <2>9, <2>10, <2>12, <2>14, <2>15
<1>11. hot' \in [TDocs -> Hot]
  BY <1>10 DEF Commits
<1>12. HotIsCounted'
  BY <1>10 DEF HotIsCounted
<1> QED BY <1>3, <1>4, <1>8, <1>9, <1>11, <1>12

\* What the flush of numbered jobs does, whether it is committed or fails.
LEMMA FlushCounts ==
  ASSUME TempTyped, HotIsCounted, NEW jobs \in Seq(Job), NoTwice(jobs),
         Apart(JobsOn(jobs), evts), Flush(jobs)
  PROVE  /\ evts' \subseteq evts \cup JobsOn(jobs) /\ evts' \in SUBSET Job /\ IsFiniteSet(evts')
         /\ Cardinality(evts') \in Nat /\ tlost' \in Nat
         /\ Cardinality(evts') + tlost' = Cardinality(evts) + tlost + Len(jobs)
         /\ hot' \in [TDocs -> Hot] /\ HotIsCounted' /\ pending' = <<>>
<1>1. Len(jobs) \in Nat /\ tlost \in Nat /\ Cardinality(evts) \in Nat /\ pending' = <<>>
  BY FS_CardinalityType DEF TempTyped, Flush
<1>2. CASE Commits(jobs) /\ tlost' = tlost
  <2>1. /\ evts' = evts \cup JobsOn(jobs) /\ evts' \in SUBSET Job /\ IsFiniteSet(evts')
        /\ Cardinality(evts') = Cardinality(evts) + Len(jobs)
        /\ hot' \in [TDocs -> Hot] /\ HotIsCounted'
    BY <1>2, CommitCounts
  <2> QED BY <1>1, <1>2, <2>1
<1>3. CASE tlost' = tlost + Len(jobs) /\ UNCHANGED <<evts, hot>>
  <2>1. evts' \in SUBSET Job /\ IsFiniteSet(evts') /\ hot' \in [TDocs -> Hot]
    BY <1>3 DEF TempTyped
  <2>2. HotIsCounted'
    BY <1>3 DEF HotIsCounted
  <2> QED BY <1>1, <1>3, <2>1, <2>2
<1> QED BY <1>2, <1>3 DEF Flush, Commits

-----------------------------------------------------------------------------
\* The numbers that are kept, in terms of who is recording.
LEMMA KeptIs ==
  EventsKept <=>
    trecorded = Cardinality(Recording) + Len(tchan) + Len(pending) + Cardinality(evts) + tdropped + tlost
BY DEF EventsKept, Recording

\* At the start nothing is recorded.
LEMMA TempInitInv == TemporalInit => TempInv
<1> SUFFICES ASSUME TemporalInit PROVE TempInv
  OBVIOUS
<1>1. /\ recorder = [r \in Recorders |-> <<>>] /\ tchan = <<>> /\ pending = <<>> /\ evts = {}
      /\ hot = [d \in TDocs |-> [count |-> 0, last |-> 0]]
      /\ seq = 0 /\ day = TStart /\ tdropped = 0 /\ tlost = 0 /\ trecorded = 0
  BY DEF TemporalInit
<1>2. TStart \in Nat /\ IsFiniteSet({}) /\ Cardinality({}) = 0 /\ Len(tchan) = 0 /\ Len(pending) = 0
  BY <1>1, TemporalAssumption, FS_EmptySet
<1>3. Recording = {} /\ Written = {} /\ JobsOn(tchan) = {} /\ JobsOn(pending) = {}
  BY <1>1, <1>2 DEF Recording, Written, JobsOn
<1>4. TempTyped
  BY <1>1, <1>2 DEF TempTyped, Hot
<1>5. Numbered
  BY <1>1, <1>2, <1>3 DEF Numbered, NoTwice, Apart
<1>6. EventsKept
  <2>1. Cardinality(Recording) = 0 /\ Cardinality(evts) = 0
    BY <1>1, <1>2, <1>3
  <2> QED BY <1>1, <1>2, <2>1, KeptIs
<1>7. HotIsCounted
  <2>1. \A d \in TDocs : {e \in evts : e.doc = d /\ e.type = "access"} = {}
    BY <1>1
  <2>2. \A d \in TDocs : hot[d].count = 0 /\ hot[d].last = 0
    BY <1>1
  <2> QED BY <1>2, <2>1, <2>2 DEF HotIsCounted
<1> QED BY <1>4, <1>5, <1>6, <1>7 DEF TempInv

\* The sizes of what is kept.
LEMMA SizesTyped ==
  ASSUME TempTyped
  PROVE  /\ Len(tchan) \in Nat /\ Len(pending) \in Nat /\ Cardinality(evts) \in Nat
         /\ IsFiniteSet(Recording) /\ Cardinality(Recording) \in Nat
<1>1. Recording \in SUBSET Recorders
  BY DEF Recording
<1>2. IsFiniteSet(Recording)
  BY <1>1, RecordersAssumption, FS_Subset
<1> QED BY <1>2, FS_CardinalityType DEF TempTyped

\* An event is made with a number that no other one has.
LEMMA StampEventKeeps ==
  ASSUME TempInv, NEW r \in Recorders, NEW d \in TDocs, NEW type \in TypesOfEvent, StampEvent(r, d, type)
  PROVE  TempInv'
<1>1. TempTyped /\ Numbered /\ EventsKept /\ HotIsCounted
  BY DEF TempInv
<1>2. PICK j : j = [doc |-> d, type |-> type, ts |-> day, seq |-> seq + 1]
  OBVIOUS
<1>3. /\ recorder[r] = <<>> /\ seq' = seq + 1 /\ trecorded' = trecorded + 1
      /\ recorder' = [recorder EXCEPT ![r] = <<j>>]
      /\ UNCHANGED <<day, tchan, pending, evts, hot, tdropped, tlost>>
  BY <1>2 DEF StampEvent
<1>4. j \in Job /\ j.seq = seq + 1 /\ <<j>>[1] = j /\ <<j>> # <<>>
  BY <1>1, <1>2 DEF TempTyped, Job
<1>5. Recording' = Recording \cup {r} /\ r \notin Recording
  BY <1>1, <1>3, <1>4 DEF Recording, TempTyped
<1>6. TempTyped'
  BY <1>1, <1>3, <1>4 DEF TempTyped
<1>7. Numbered'
  <2>1. seq \in Nat /\ \A x \in Written : x.seq <= seq /\ x.seq \in Nat
    <3>1. Written \subseteq Job
      <4>1. \A i \in 1..Len(tchan) : tchan[i] \in Job
        BY <1>1, ElementOfSeq DEF TempTyped
      <4>2. \A i \in 1..Len(pending) : pending[i] \in Job
        BY <1>1, ElementOfSeq DEF TempTyped
      <4> QED BY <1>1, <4>1, <4>2 DEF Written, JobsOn, TempTyped
    <3> QED BY <1>1, <3>1 DEF Numbered, TempTyped, Job
  <2>2. \A q \in Recording : recorder[q][1].seq <= seq /\ recorder[q][1].seq \in Nat
    <3>1. \A q \in Recording : recorder[q][1] \in Job
      BY <1>1 DEF Recording, TempTyped
    <3> QED BY <1>1, <3>1 DEF Numbered, Job
  <2>3. Written' = Written
    BY <1>3 DEF Written, JobsOn
  <2>4. recorder'[r][1] = j /\ \A q \in Recording : recorder'[q] = recorder[q]
    BY <1>1, <1>3, <1>4, <1>5 DEF TempTyped, Recording
  <2>5. \A x \in Written' : x.seq <= seq'
    BY <1>3, <2>1, <2>3
  <2>6. ASSUME NEW q \in Recording'
        PROVE  /\ recorder'[q][1].seq <= seq'
               /\ \A x \in Written' : x.seq # recorder'[q][1].seq
               /\ \A p \in Recording' \ {q} : recorder'[p][1].seq # recorder'[q][1].seq
    <3>1. CASE q = r
      <4>1. \A p \in Recording' \ {q} : recorder'[p][1].seq <= seq /\ recorder'[p][1].seq \in Nat
        BY <1>5, <2>2, <2>4, <3>1
      <4> QED BY <1>3, <1>4, <2>1, <2>3, <2>4, <3>1, <4>1
    <3>2. CASE q # r
      <4>1. q \in Recording /\ recorder'[q] = recorder[q]
        BY <1>5, <2>4, <3>2
      <4>2. recorder'[q][1].seq # recorder'[r][1].seq
        BY <1>4, <2>1, <2>2, <2>4, <4>1
      <4>3. \A p \in Recording \ {q} : recorder'[p][1].seq # recorder'[q][1].seq
        BY <1>1, <2>4, <4>1 DEF Numbered
      <4>4. recorder'[q][1].seq <= seq' /\ \A x \in Written' : x.seq # recorder'[q][1].seq
        BY <1>1, <1>3, <2>1, <2>2, <2>3, <4>1 DEF Numbered
      <4> QED BY <1>5, <4>2, <4>3, <4>4
    <3> QED BY <3>1, <3>2
  <2>7. NoTwice(tchan)' /\ NoTwice(pending)' /\ Apart(JobsOn(tchan), JobsOn(pending))'
        /\ Apart(JobsOn(tchan), evts)' /\ Apart(JobsOn(pending), evts)'
    BY <1>1, <1>3 DEF Numbered, NoTwice, Apart, JobsOn
  <2> QED BY <2>5, <2>6, <2>7 DEF Numbered
<1>8. EventsKept'
  <2>1. IsFiniteSet(Recording) /\ Cardinality(Recording') = Cardinality(Recording) + 1
    BY <1>1, <1>5, SizesTyped, FS_AddElement
  <2>2. trecorded' = Cardinality(Recording') + Len(tchan') + Len(pending') + Cardinality(evts') + tdropped' + tlost'
    <3>1. trecorded = Cardinality(Recording) + Len(tchan) + Len(pending) + Cardinality(evts) + tdropped + tlost
      BY <1>1, KeptIs
    <3>2. Len(tchan') = Len(tchan) /\ Len(pending') = Len(pending) /\ Cardinality(evts') = Cardinality(evts)
      BY <1>3
    <3> QED BY SMTT(30), <1>1, <1>3, <2>1, <3>1, <3>2, SizesTyped DEF TempTyped
  <2> QED BY <1>1, <1>3, <2>2, KeptIs DEF EventsKept, Recording
<1>9. HotIsCounted'
  BY <1>1, <1>3 DEF HotIsCounted
<1> QED BY <1>6, <1>7, <1>8, <1>9 DEF TempInv

\* What moves between the channel, the batch and the bucket keeps its numbers.
LEMMA MovedNumbered ==
  ASSUME Numbered, UNCHANGED <<seq, recorder>>, Written' \subseteq Written,
         NoTwice(tchan)', NoTwice(pending)', Apart(JobsOn(tchan), JobsOn(pending))',
         Apart(JobsOn(tchan), evts)', Apart(JobsOn(pending), evts)'
  PROVE  Numbered'
<1>1. Recording' = Recording
  BY DEF Recording
<1>2. \A x \in Written' : x.seq <= seq'
  BY DEF Numbered
<1>3. \A r \in Recording' :
        /\ recorder'[r][1].seq <= seq'
        /\ \A x \in Written' : x.seq # recorder'[r][1].seq
        /\ \A q \in Recording' \ {r} : recorder'[q][1].seq # recorder'[r][1].seq
  BY <1>1 DEF Numbered
<1> QED BY <1>2, <1>3 DEF Numbered

\* The event is sent, or counted as dropped.
LEMMA SendEventKeeps ==
  ASSUME TempInv, NEW r \in Recorders, SendEvent(r)
  PROVE  TempInv'
<1>1. TempTyped /\ Numbered /\ EventsKept /\ HotIsCounted
  BY DEF TempInv
<1>2. recorder[r] # <<>> /\ recorder' = [recorder EXCEPT ![r] = <<>>] /\ r \in Recording
      /\ UNCHANGED <<day, seq, pending, evts, hot, tlost, trecorded>>
  BY DEF SendEvent, Recording
<1>3. PICK j \in Job : recorder[r] = <<j>>
  BY <1>1, <1>2 DEF TempTyped
<1>4. recorder[r][1] = j
  BY <1>3
<1>5. Recording' = Recording \ {r} /\ \A q \in Recording' : recorder'[q] = recorder[q]
  BY <1>1, <1>2 DEF Recording, TempTyped
<1>6. IsFiniteSet(Recording) /\ Cardinality(Recording') = Cardinality(Recording) - 1
  BY <1>1, <1>2, <1>5, SizesTyped, FS_RemoveElement
<1>7. trecorded = Cardinality(Recording) + Len(tchan) + Len(pending) + Cardinality(evts) + tdropped + tlost
  BY <1>1, KeptIs
<1>8. /\ Len(tchan) \in Nat /\ Len(pending) \in Nat /\ Cardinality(evts) \in Nat
      /\ Cardinality(Recording) \in Nat /\ tdropped \in Nat /\ tlost \in Nat
  BY <1>1, SizesTyped DEF TempTyped
<1>9. HotIsCounted'
  BY <1>1, <1>2 DEF HotIsCounted
<1>10. recorder' \in [Recorders -> {<<>>} \cup {<<k>> : k \in Job}]
  BY <1>1, <1>2 DEF TempTyped
<1>11. CASE tchan' = tchan \o recorder[r] /\ tdropped' = tdropped
  <2>1. tchan' = Append(tchan, j)
    BY <1>1, <1>3, <1>11 DEF TempTyped
  <2>2. tchan \in Seq(Job)
    BY <1>1 DEF TempTyped
  <2>3. /\ tchan' \in Seq(Job) /\ Len(tchan') = Len(tchan) + 1
        /\ JobsOn(tchan') = JobsOn(tchan) \cup {j}
        /\ NoTwice(tchan) /\ (\A x \in JobsOn(tchan) : x.seq # j.seq) => NoTwice(tchan')
    BY <2>1, <2>2, JobsAppend
  <2>4. \A x \in Written : x.seq # j.seq
    BY <1>1, <1>2, <1>4 DEF Numbered
  <2>5. j.seq <= seq /\ \A q \in Recording \ {r} : recorder[q][1].seq # j.seq
    BY <1>1, <1>2, <1>4 DEF Numbered
  <2>6. Written' = Written \cup {j}
    BY <1>2, <2>3 DEF Written, JobsOn
  <2>7. TempTyped'
    BY <1>1, <1>2, <1>10, <1>11, <2>3 DEF TempTyped
  <2>8. NoTwice(tchan)' /\ NoTwice(pending)'
    <3>1. NoTwice(tchan')
      BY <1>1, <2>3, <2>4 DEF Numbered, Written
    <3> QED BY <1>1, <1>2, <3>1 DEF Numbered, NoTwice
  <2>9. Apart(JobsOn(tchan'), JobsOn(pending)) /\ Apart(JobsOn(tchan'), evts) /\ Apart(JobsOn(pending), evts)
    BY <1>1, <2>3, <2>4 DEF Numbered, Apart, Written
  <2>10. Apart(JobsOn(tchan), JobsOn(pending))' /\ Apart(JobsOn(tchan), evts)' /\ Apart(JobsOn(pending), evts)'
    BY <1>2, <2>9 DEF Apart, JobsOn
  <2>11. \A x \in Written' : x.seq <= seq'
    BY <1>1, <1>2, <2>5, <2>6 DEF Numbered
  <2>12. ASSUME NEW q \in Recording'
         PROVE  /\ recorder'[q][1].seq <= seq'
                /\ \A x \in Written' : x.seq # recorder'[q][1].seq
                /\ \A p \in Recording' \ {q} : recorder'[p][1].seq # recorder'[q][1].seq
    <3>1. q \in Recording /\ q # r /\ recorder'[q] = recorder[q]
      BY <1>5
    <3>2. j.seq # recorder[q][1].seq
      BY <2>5, <3>1
    <3> QED BY <1>1, <1>2, <1>5, <2>6, <3>1, <3>2 DEF Numbered
  <2>13. Numbered'
    BY <2>8, <2>10, <2>11, <2>12 DEF Numbered
  <2>14. EventsKept'
    <3>1. trecorded' = Cardinality(Recording') + Len(tchan') + Len(pending') + Cardinality(evts') + tdropped' + tlost'
      BY <1>2, <1>6, <1>7, <1>8, <1>11, <2>3
    <3> QED BY <1>1, <1>2, <3>1 DEF EventsKept, Recording
  <2> QED BY <1>9, <2>7, <2>13, <2>14 DEF TempInv
<1>12. CASE tchan' = tchan /\ tdropped' = tdropped + 1
  <2>1. TempTyped'
    BY <1>1, <1>2, <1>8, <1>10, <1>12 DEF TempTyped
  <2>2. Written' = Written
    BY <1>2, <1>12 DEF Written, JobsOn
  <2>3. \A q \in Recording' :
          /\ recorder'[q][1].seq <= seq'
          /\ \A x \in Written' : x.seq # recorder'[q][1].seq
          /\ \A p \in Recording' \ {q} : recorder'[p][1].seq # recorder'[q][1].seq
    BY <1>1, <1>2, <1>5, <2>2 DEF Numbered
  <2>4. NoTwice(tchan)' /\ NoTwice(pending)' /\ Apart(JobsOn(tchan), JobsOn(pending))'
        /\ Apart(JobsOn(tchan), evts)' /\ Apart(JobsOn(pending), evts)'
    BY <1>1, <1>2, <1>12 DEF Numbered, NoTwice, Apart, JobsOn
  <2>5. Numbered'
    BY <1>1, <1>2, <2>2, <2>3, <2>4 DEF Numbered
  <2>6. EventsKept'
    <3>1. trecorded' = Cardinality(Recording') + Len(tchan') + Len(pending') + Cardinality(evts') + tdropped' + tlost'
      BY SMTT(30), <1>2, <1>6, <1>7, <1>8, <1>12
    <3> QED BY <1>1, <1>2, <3>1 DEF EventsKept, Recording
  <2> QED BY <1>9, <2>1, <2>5, <2>6 DEF TempInv
<1> QED BY <1>11, <1>12 DEF SendEvent

\* The batch is flushed by the ticker.
LEMMA FlushKeeps ==
  ASSUME TempInv, Flush(pending), UNCHANGED <<day, seq, recorder, tchan, tdropped, trecorded>>
  PROVE  TempInv'
<1>1. TempTyped /\ Numbered /\ EventsKept /\ HotIsCounted
  BY DEF TempInv
<1>2. PICK jobs : jobs = pending
  OBVIOUS
<1>3. jobs \in Seq(Job) /\ NoTwice(jobs) /\ Apart(JobsOn(jobs), evts) /\ Flush(jobs)
  BY <1>1, <1>2 DEF TempTyped, Numbered
<1>4. /\ evts' \subseteq evts \cup JobsOn(jobs) /\ evts' \in SUBSET Job /\ IsFiniteSet(evts')
      /\ Cardinality(evts') \in Nat /\ tlost' \in Nat
      /\ Cardinality(evts') + tlost' = Cardinality(evts) + tlost + Len(jobs)
      /\ hot' \in [TDocs -> Hot] /\ HotIsCounted' /\ pending' = <<>>
  BY <1>1, <1>3, FlushCounts
<1>5. /\ Len(pending') = 0 /\ JobsOn(pending)' = {} /\ pending' \in Seq(Job)
  BY <1>4 DEF JobsOn
<1>6. TempTyped'
  BY <1>1, <1>4, <1>5 DEF TempTyped
<1>7. JobsOn(tchan)' = JobsOn(tchan)
  BY DEF JobsOn
<1>8. Written' \subseteq Written
  BY <1>2, <1>4, <1>5, <1>7 DEF Written
<1>9. NoTwice(tchan)' /\ NoTwice(pending)'
  BY <1>1, <1>5 DEF Numbered, NoTwice
<1>10. Apart(JobsOn(tchan), JobsOn(pending))' /\ Apart(JobsOn(pending), evts)'
  BY <1>5 DEF Apart
<1>11. Apart(JobsOn(tchan), evts)'
  BY <1>1, <1>2, <1>4, <1>7 DEF Numbered, Apart
<1>12. Numbered'
  BY <1>1, <1>8, <1>9, <1>10, <1>11, MovedNumbered
<1>13. EventsKept'
  <2>1. trecorded = Cardinality(Recording) + Len(tchan) + Len(pending) + Cardinality(evts) + tdropped + tlost
    BY <1>1, KeptIs
  <2>2. Recording' = Recording
    BY DEF Recording
  <2>3. trecorded' = Cardinality(Recording') + Len(tchan') + Len(pending') + Cardinality(evts') + tdropped' + tlost'
    <3>1. Cardinality(Recording') = Cardinality(Recording) /\ Len(jobs) = Len(pending)
      BY <1>2, <2>2
    <3>2. /\ Len(tchan) \in Nat /\ Len(pending) \in Nat /\ Cardinality(evts) \in Nat
          /\ Cardinality(Recording) \in Nat /\ tdropped \in Nat /\ tlost \in Nat
      BY <1>1, SizesTyped DEF TempTyped
    <3>3. Cardinality(evts') \in Nat /\ tlost' \in Nat /\ Len(pending') = 0
      BY <1>4, <1>5
    <3>4. Cardinality(evts') + tlost' = Cardinality(evts) + tlost + Len(pending)
      BY <1>4, <3>1
    <3> QED BY SMTT(30), <2>1, <3>1, <3>2, <3>3, <3>4
  <2> QED BY <1>4, <2>3 DEF EventsKept, Recording
<1> QED BY <1>4, <1>6, <1>12, <1>13 DEF TempInv

\* A job is taken from the channel into the batch, which is written if it is large enough.
LEMMA RunTakeKeeps ==
  ASSUME TempInv, RunTake
  PROVE  TempInv'
<1>1. TempTyped /\ Numbered /\ EventsKept /\ HotIsCounted
  BY DEF TempInv
<1>2. PICK jobs : jobs = Append(pending, Head(tchan))
  OBVIOUS
<1>3. /\ tchan # <<>> /\ tchan' = Tail(tchan)
      /\ IF Len(jobs) >= TBatch THEN Flush(jobs) ELSE pending' = jobs /\ UNCHANGED <<evts, hot, tlost>>
      /\ UNCHANGED <<day, seq, recorder, tdropped, trecorded>>
  BY <1>2 DEF RunTake
<1>4. PICK j : j = Head(tchan)
  OBVIOUS
<1>5. PICK rest : rest = Tail(tchan)
  OBVIOUS
<1>6. tchan \in Seq(Job) /\ pending \in Seq(Job) /\ NoTwice(tchan)
  BY <1>1 DEF TempTyped, Numbered
<1>7. /\ j \in Job /\ rest \in Seq(Job) /\ Len(rest) = Len(tchan) - 1 /\ Len(tchan) \in Nat \ {0}
      /\ JobsOn(rest) \subseteq JobsOn(tchan) /\ j \in JobsOn(tchan) /\ NoTwice(rest)
      /\ \A x \in JobsOn(rest) : x.seq # j.seq
  BY <1>3, <1>4, <1>5, <1>6, JobsTake
<1>8. \A x \in JobsOn(pending) : x.seq # j.seq
  BY <1>1, <1>7 DEF Numbered, Apart
<1>9. /\ jobs \in Seq(Job) /\ Len(jobs) = Len(pending) + 1 /\ Len(pending) \in Nat
      /\ JobsOn(jobs) = JobsOn(pending) \cup {j} /\ NoTwice(jobs)
  <2>1. NoTwice(pending)
    BY <1>1 DEF Numbered
  <2>2. jobs = Append(pending, j)
    BY <1>2, <1>4
  <2> QED BY <1>6, <1>7, <1>8, <2>1, <2>2, JobsAppend
<1>10. Apart(JobsOn(rest), JobsOn(jobs)) /\ Apart(JobsOn(rest), evts) /\ Apart(JobsOn(jobs), evts)
  BY <1>1, <1>7, <1>9 DEF Numbered, Apart
<1>11. tchan' = rest /\ JobsOn(tchan)' = JobsOn(rest)
  BY <1>3, <1>5 DEF JobsOn
<1>12. Recording' = Recording
  BY <1>3 DEF Recording
<1>13. trecorded = Cardinality(Recording) + Len(tchan) + Len(pending) + Cardinality(evts) + tdropped + tlost
  BY <1>1, KeptIs
<1>14. CASE Flush(jobs)
  <2>1. /\ evts' \subseteq evts \cup JobsOn(jobs) /\ evts' \in SUBSET Job /\ IsFiniteSet(evts')
        /\ Cardinality(evts') \in Nat /\ tlost' \in Nat
        /\ Cardinality(evts') + tlost' = Cardinality(evts) + tlost + Len(jobs)
        /\ hot' \in [TDocs -> Hot] /\ HotIsCounted' /\ pending' = <<>>
    BY <1>1, <1>9, <1>10, <1>14, FlushCounts
  <2>2. Len(pending') = 0 /\ JobsOn(pending)' = {} /\ pending' \in Seq(Job)
    BY <2>1 DEF JobsOn
  <2>3. TempTyped'
    BY <1>1, <1>3, <1>7, <1>11, <2>1, <2>2 DEF TempTyped
  <2>4. Written' \subseteq Written
    BY <1>7, <1>9, <1>11, <2>1, <2>2 DEF Written
  <2>5. NoTwice(tchan)' /\ NoTwice(pending)'
    BY <1>7, <1>11, <2>2 DEF NoTwice
  <2>6. Apart(JobsOn(tchan), JobsOn(pending))' /\ Apart(JobsOn(pending), evts)'
    BY <2>2 DEF Apart
  <2>7. Apart(JobsOn(tchan), evts)'
    BY <1>10, <1>11, <2>1 DEF Apart
  <2>8. Numbered'
    BY <1>1, <1>3, <2>4, <2>5, <2>6, <2>7, MovedNumbered
  <2>9. trecorded' = Cardinality(Recording') + Len(tchan') + Len(pending') + Cardinality(evts') + tdropped' + tlost'
    <3>1. Cardinality(Recording') = Cardinality(Recording) /\ Len(tchan') = Len(tchan) - 1
      BY <1>7, <1>11, <1>12
    <3>2. /\ Len(tchan) \in Nat /\ Len(pending) \in Nat /\ Cardinality(evts) \in Nat
          /\ Cardinality(Recording) \in Nat /\ tdropped \in Nat /\ tlost \in Nat
      BY <1>1, SizesTyped DEF TempTyped
    <3>3. Cardinality(evts') \in Nat /\ tlost' \in Nat /\ Len(pending') = 0
      BY <2>1, <2>2
    <3>4. Cardinality(evts') + tlost' = Cardinality(evts) + tlost + Len(pending) + 1
      BY <1>9, <2>1, <3>2
    <3>5. trecorded' = trecorded /\ tdropped' = tdropped
      BY <1>3
    <3>6. Cardinality(Recording) + Len(tchan) + Len(pending) + Cardinality(evts) + tdropped + tlost
            = Cardinality(Recording) + (Len(tchan) - 1) + 0 + Cardinality(evts') + tdropped + tlost'
      <4>1. PICK r \in Nat, c \in Nat, p \in Nat, e \in Nat, e2 \in Nat, l \in Nat, l2 \in Nat, d \in Nat :
              /\ r = Cardinality(Recording) /\ c = Len(tchan) /\ p = Len(pending)
              /\ e = Cardinality(evts) /\ e2 = Cardinality(evts')
              /\ l = tlost /\ l2 = tlost' /\ d = tdropped
        BY <3>2, <3>3
      <4>2. e2 + l2 = e + l + p + 1
        BY <3>4, <4>1
      <4>3. r + c + p + e + d + l = r + (c - 1) + 0 + e2 + d + l2
        BY <4>2
      <4> QED BY <4>1, <4>3
    <3> QED BY <1>13, <3>1, <3>3, <3>5, <3>6
  <2>10. EventsKept'
    BY <2>1, <2>9 DEF EventsKept, Recording
  <2> QED BY <2>1, <2>3, <2>8, <2>10 DEF TempInv
<1>15. CASE pending' = jobs /\ UNCHANGED <<evts, hot, tlost>>
  <2>1. TempTyped'
    BY <1>1, <1>3, <1>7, <1>9, <1>11, <1>15 DEF TempTyped
  <2>2. JobsOn(pending)' = JobsOn(jobs)
    BY <1>15 DEF JobsOn
  <2>3. Written' \subseteq Written
    BY <1>7, <1>9, <1>11, <1>15, <2>2 DEF Written
  <2>4. NoTwice(tchan)' /\ NoTwice(pending)'
    BY <1>7, <1>9, <1>11, <1>15 DEF NoTwice
  <2>5. Apart(JobsOn(tchan), JobsOn(pending))' /\ Apart(JobsOn(pending), evts)' /\ Apart(JobsOn(tchan), evts)'
    BY <1>10, <1>11, <1>15, <2>2 DEF Apart
  <2>6. Numbered'
    BY <1>1, <1>3, <2>3, <2>4, <2>5, MovedNumbered
  <2>7. trecorded' = Cardinality(Recording') + Len(tchan') + Len(pending') + Cardinality(evts') + tdropped' + tlost'
    <3>1. Len(tchan') = Len(tchan) - 1 /\ Len(pending') = Len(pending) + 1
      BY <1>7, <1>9, <1>11, <1>15
    <3>2. Cardinality(evts') = Cardinality(evts) /\ Cardinality(Recording') = Cardinality(Recording)
      BY <1>12, <1>15
    <3>3. /\ Len(tchan) \in Nat /\ Len(pending) \in Nat /\ Cardinality(evts) \in Nat
          /\ Cardinality(Recording) \in Nat /\ tdropped \in Nat /\ tlost \in Nat
      BY <1>1, SizesTyped DEF TempTyped
    <3> QED BY SMTT(30), <1>3, <1>13, <1>15, <3>1, <3>2, <3>3
  <2>8. EventsKept'
    BY <1>3, <2>7 DEF EventsKept, Recording
  <2>9. HotIsCounted'
    BY <1>1, <1>15 DEF HotIsCounted
  <2> QED BY <2>1, <2>6, <2>8, <2>9 DEF TempInv
<1> QED BY <1>3, <1>14, <1>15

\* What changes nothing but the clock.
LEMMA TempStays ==
  ASSUME TempInv, UNCHANGED <<seq, recorder, tchan, pending, evts, hot, tdropped, tlost, trecorded>>,
         day' \in Nat
  PROVE  TempInv'
<1>1. TempTyped /\ Numbered /\ EventsKept /\ HotIsCounted
  BY DEF TempInv
<1>2. Written' = Written /\ JobsOn(tchan)' = JobsOn(tchan) /\ JobsOn(pending)' = JobsOn(pending)
  BY DEF Written, JobsOn
<1>3. NoTwice(tchan)' /\ NoTwice(pending)'
  BY <1>1 DEF Numbered, NoTwice
<1>4. Apart(JobsOn(tchan), JobsOn(pending))' /\ Apart(JobsOn(pending), evts)' /\ Apart(JobsOn(tchan), evts)'
  BY <1>1, <1>2 DEF Numbered, Apart
<1>5. Numbered'
  BY <1>1, <1>2, <1>3, <1>4, MovedNumbered
<1>6. EventsKept' /\ HotIsCounted'
  BY <1>1 DEF EventsKept, HotIsCounted
<1>7. TempTyped'
  BY <1>1 DEF TempTyped
<1> QED BY <1>5, <1>6, <1>7 DEF TempInv

\* Every step of a recorder, of the goroutine and of the clock keeps the invariant.
LEMMA TempStep == TempInv /\ [TemporalNext]_temporalVars => TempInv'
<1> SUFFICES ASSUME TempInv, [TemporalNext]_temporalVars PROVE TempInv'
  OBVIOUS
<1>1. day \in Nat
  BY DEF TempInv, TempTyped
<1>2. CASE NextDay
  BY <1>1, <1>2, TempStays DEF NextDay
<1>3. CASE RunTake
  BY <1>3, RunTakeKeeps
<1>4. CASE RunTick
  BY <1>4, FlushKeeps DEF RunTick
<1>5. ASSUME NEW r \in Recorders, SendEvent(r) PROVE TempInv'
  BY <1>5, SendEventKeeps
<1>6. ASSUME NEW r \in Recorders, NEW d \in TDocs, NEW type \in TypesOfEvent, StampEvent(r, d, type)
      PROVE  TempInv'
  BY <1>6, StampEventKeeps
<1>7. CASE UNCHANGED temporalVars
  BY <1>1, <1>7, TempStays DEF temporalVars
<1> QED BY <1>2, <1>3, <1>4, <1>5, <1>6, <1>7 DEF TemporalNext

-----------------------------------------------------------------------------
(* Weeks. *)

LeapsBefore(y) == {l \in 1970..y - 1 : LeapYear(l)}

\* The leap years before a year are finitely many.
LEMMA LeapsCounted ==
  ASSUME NEW y \in Int
  PROVE  Cardinality(LeapsBefore(y)) \in Nat /\ (y = 1970 => Cardinality(LeapsBefore(y)) = 0)
<1>1. PICK z \in Int : z = y - 1
  OBVIOUS
<1>2. IsFiniteSet(1970..z) /\ LeapsBefore(y) \subseteq 1970..z
  BY <1>1, FS_Interval DEF LeapsBefore
<1>3. Cardinality(LeapsBefore(y)) \in Nat
  BY <1>2, FS_Subset, FS_CardinalityType
<1>4. ASSUME y = 1970 PROVE Cardinality(LeapsBefore(y)) = 0
  <2>1. LeapsBefore(y) = {}
    BY <1>1, <1>2, <1>4
  <2> QED BY <2>1, FS_EmptySet
<1> QED BY <1>3, <1>4

\* January the first of a later year is a number of days after 1970.
LEMMA NewYearTyped ==
  ASSUME NEW y \in Int, y >= 1970
  PROVE  NewYear(y) \in Nat /\ NewYear(y) >= 365 * (y - 1970) /\ NewYear(1970) = 0
<1>1. NewYear(y) = 365 * (y - 1970) + Cardinality(LeapsBefore(y))
  BY DEF NewYear, LeapsBefore
<1>2. NewYear(1970) = 365 * (1970 - 1970) + Cardinality(LeapsBefore(1970))
  BY DEF NewYear, LeapsBefore
<1>3. Cardinality(LeapsBefore(1970)) = 0
  BY LeapsCounted
<1>4. Cardinality(LeapsBefore(y)) \in Nat
  BY LeapsCounted
<1> QED BY <1>1, <1>2, <1>3, <1>4

\* A day since 1970 lies in one of the years that YearOf looks at.
LEMMA YearIsFound ==
  ASSUME NEW d \in Nat
  PROVE  YearOf(d) \in Int /\ YearOf(d) >= 1970
<1> DEFINE T == {n \in Nat : NewYear(1970 + n + 1) > d}
<1>1. PICK n \in Nat : n = d \div 365
  OBVIOUS
<1>2. 365 * n <= d /\ d < 365 * (n + 1)
  BY <1>1
<1>3. n \in T
  <2>1. NewYear(1970 + n + 1) >= 365 * (n + 1) /\ NewYear(1970 + n + 1) \in Nat
    <3>1. PICK y \in Int : y = 1970 + n + 1
      OBVIOUS
    <3>2. y >= 1970 /\ y - 1970 = n + 1
      BY <3>1
    <3> QED BY <3>1, <3>2, NewYearTyped
  <2> QED BY <1>2, <2>1
<1>4. PICK m \in T : \A k \in T : ~(<<k, m>> \in OpToRel(<, Nat))
  <2>0. T \subseteq Nat
    OBVIOUS
  <2> HIDE DEF T
  <2>1. T \subseteq Nat /\ T # {}
    BY <1>3, <2>0
  <2> QED BY <2>1, WFMin, NatLessThanWellFounded
<1>5. \A k \in T : m <= k
  <2>1. T \subseteq Nat
    OBVIOUS
  <2> HIDE DEF T
  <2>2. TAKE k \in T
  <2>3. k \in Nat /\ m \in Nat /\ ~(<<k, m>> \in OpToRel(<, Nat))
    BY <1>4, <2>1
  <2> QED BY <2>3 DEF OpToRel
<1>6. m \in Nat /\ m <= n /\ NewYear(1970 + m + 1) > d
  BY <1>3, <1>5
<1>7. NewYear(1970 + m) <= d
  <2>1. CASE m = 0
    <3>1. NewYear(1970) = 0
      BY NewYearTyped
    <3> QED BY <2>1, <3>1
  <2>2. CASE m # 0
    <3>1. m - 1 \in Nat /\ ~(m <= m - 1) /\ 1970 + (m - 1) + 1 = 1970 + m
      BY <1>6, <2>2
    <3>2. m - 1 \notin T
      <4> HIDE DEF T
      <4> QED BY <1>5, <3>1
    <3>3. ~(NewYear(1970 + m) > d)
      BY <3>1, <3>2
    <3>4. NewYear(1970 + m) \in Nat
      <4>1. PICK y \in Int : y = 1970 + m /\ y >= 1970
        BY <1>6
      <4> QED BY <4>1, NewYearTyped
    <3> QED BY <3>3, <3>4
  <2> QED BY <2>1, <2>2
<1>8. \E y \in 1970..1970 + d \div 365 : NewYear(y) <= d /\ d < NewYear(y + 1)
  <2>1. PICK y \in Int : y = 1970 + m
    BY <1>6
  <2>2. y \in 1970..1970 + d \div 365 /\ y + 1 = 1970 + m + 1
    BY <1>1, <1>6, <2>1
  <2>3. NewYear(y + 1) \in Nat
    <3>1. PICK z \in Int : z = y + 1 /\ z >= 1970
      BY <2>2
    <3> QED BY <3>1, NewYearTyped
  <2>4. NewYear(y) <= d /\ d < NewYear(y + 1)
    BY <1>6, <1>7, <2>1, <2>2, <2>3
  <2> QED BY <2>2, <2>4
<1>9. YearOf(d) \in 1970..1970 + d \div 365
  <2> HIDE DEF T
  <2> QED BY <1>8 DEF YearOf
<1> QED BY <1>9

MondayOf(d) == d - ((d + 3) % 7)
WeekAfter(t, n) == (t - n) \div 7 + 1
MondayAfter(n, week) == (n + 3) - ((IF Weekday(n + 3) = 0 THEN 7 ELSE Weekday(n + 3)) - 1) + (week - 1) * 7

\* The Monday of a week, from the January the first of any year and the weeks between.
LEMMA MondayIs ==
  ASSUME NEW n \in Int, NEW d \in Int
  PROVE  MondayAfter(n, WeekAfter(MondayOf(d) + 3, n)) = MondayOf(d)
BY DEF MondayOf, WeekAfter, MondayAfter, Weekday

\* A day is in the bucket of its own week.
LEMMA WeeksExact ==
  ASSUME NEW d \in Nat
  PROVE  WeekBucket(d) = [from |-> d - ((d + 3) % 7), to |-> d - ((d + 3) % 7) + 7]
<1>1. PICK t : t = d + 3 - ((d + 3) % 7)
  OBVIOUS
<1>2. t \in Nat /\ t = MondayOf(d) + 3
  BY <1>1 DEF MondayOf
<1>3. PICK y : y = YearOf(t)
  OBVIOUS
<1>4. y \in Int /\ y >= 1970
  BY <1>2, <1>3, YearIsFound
<1>5. PICK n : n = NewYear(y)
  OBVIOUS
<1>6. n \in Int
  BY <1>4, <1>5, NewYearTyped
<1>7. PICK w : w = ISOWeek(d)
  OBVIOUS
<1>8. w.year = y /\ w.week = WeekAfter(t, n)
  BY <1>1, <1>3, <1>5, <1>7 DEF ISOWeek, WeekAfter
<1>9. IsoWeekStart(w.year, w.week) = MondayOf(d)
  <2>1. MondayAfter(n, WeekAfter(t, n)) = MondayOf(d)
    BY <1>2, <1>6, MondayIs
  <2>2. IsoWeekStart(w.year, w.week) = MondayAfter(n, WeekAfter(t, n))
    BY <1>5, <1>8 DEF IsoWeekStart, MondayAfter
  <2> QED BY <2>1, <2>2
<1> QED BY <1>7, <1>9 DEF WeekBucket, MondayOf

\* Whatever is recorded concurrently while batches are written or fail and days pass, and for any
\* capacities: events take no other's place and are lost only at a full channel or with a batch
\* that failed, the hot counters are those of the stored events, and a day is counted in its own
\* week (RecordAsync, run, ComputeHistogram).
THEOREM TemporalIsExact == TemporalSpec => []TemporalExact
<1>1. TemporalSpec => []TempInv
  BY TempInitInv, TempStep, PTL DEF TemporalSpec
<1>2. TempInv => TemporalExact
  <2>1. \A d \in HistoFrom..HistoTo : d \in Nat
    BY TemporalAssumption
  <2>2. WeekBucketExact
    BY <2>1, WeeksExact DEF WeekBucketExact
  <2> QED BY <2>2 DEF TempInv, TemporalExact
<1> QED BY <1>1, <1>2, PTL
=============================================================================
