-------------------------- MODULE AlgorithmProofs ---------------------------
(***************************************************************************)
(* What the algorithms of a search compute (Searching): every answer is    *)
(* the one that its reference definition gives.                            *)
(***************************************************************************)
EXTENDS Searching, FiniteSetTheorems, FunctionTheorems, SequenceTheorems, WellFoundedInduction, TLAPS

-----------------------------------------------------------------------------
(* Numbers, and functions defined by recursion over 0..N. *)

\* Every set of numbers has a least one.
LEMMA LeastNumber ==
  ASSUME NEW I \in SUBSET Nat, I # {}
  PROVE  \E m \in I : \A n \in I : m <= n
<1>1. PICK m \in I : \A n \in I : ~(<<n, m>> \in OpToRel(<, Nat))
  BY WFMin, NatLessThanWellFounded
<1>2. ASSUME NEW n \in I PROVE m <= n
  <2>1. n \in Nat /\ m \in Nat /\ ~(<<n, m>> \in OpToRel(<, Nat))
    BY <1>1
  <2>2. QED BY <2>1 DEF OpToRel
<1>3. QED BY <1>2

\* A set of numbers that has 0 and, with a number, the next one, has all of them.
LEMMA AllNumbers ==
  ASSUME NEW S \in SUBSET Nat, 0 \in S, \A n \in S : n + 1 \in S
  PROVE  S = Nat
<1> SUFFICES ASSUME Nat \ S # {} PROVE FALSE
  OBVIOUS
<1>1. PICK m \in Nat \ S : \A n \in Nat \ S : m <= n
  BY LeastNumber
<1>2. m # 0 /\ m - 1 \in Nat /\ ~(m <= m - 1)
  BY <1>1
<1>3. m - 1 \in S
  BY <1>1, <1>2
<1>4. (m - 1) + 1 \in S /\ (m - 1) + 1 = m
  BY <1>1, <1>3
<1> QED BY <1>1, <1>4

\* What holds of 0 and, with a number, of the next one, holds up to the bound.
LEMMA UpToBound ==
  ASSUME NEW N \in Nat, NEW G \in SUBSET (0..N), 0 \in G, \A n \in 1..N : n - 1 \in G => n \in G
  PROVE  \A n \in 0..N : n \in G
<1> DEFINE S == G \cup {n \in Nat : n > N}
<1>1. S = Nat
  <2>1. S \in SUBSET Nat /\ 0 \in S
    <3>1. \A n \in G : n \in Nat
      <4>1. \A n \in G : n \in 0..N
        OBVIOUS
      <4> QED BY <4>1
    <3> QED BY <3>1
  <2>2. ASSUME NEW n \in S PROVE n + 1 \in S
    <3>1. n \in Nat
      BY <2>1
    <3>2. n \in G => n \in 0..N
      OBVIOUS
    <3>3. CASE n + 1 > N
      BY <3>1, <3>3
    <3>4. CASE ~(n + 1 > N)
      <4>1. n + 1 \in 1..N /\ (n + 1) - 1 = n /\ n \in G
        BY <3>1, <3>4
      <4>2. n + 1 \in G
        BY <4>1
      <4> QED BY <4>2
    <3> QED BY <3>3, <3>4
  <2> HIDE DEF S
  <2> QED BY <2>1, <2>2, AllNumbers
<1> QED BY <1>1

\* A set of numbers up to a bound has a greatest one.
LEMMA GreatestNumber ==
  ASSUME NEW N \in Nat, NEW I \in SUBSET (0..N), I # {}
  PROVE  \E m \in I : \A n \in I : n <= m
<1> DEFINE J == {j \in Nat : N - j \in I}
<1>1. J \in SUBSET Nat /\ J # {}
  <2>1. PICK n \in I : n \in 0..N
    OBVIOUS
  <2>2. N - n \in Nat /\ N - (N - n) = n
    BY <2>1
  <2> QED BY <2>1, <2>2
<1>2. PICK k \in J : \A j \in J : k <= j
  <2> HIDE DEF J
  <2> QED BY <1>1, LeastNumber
<1>3. N - k \in I /\ k \in Nat
  OBVIOUS
<1>4. ASSUME NEW n \in I PROVE n <= N - k
  <2>1. n \in 0..N /\ N - n \in Nat /\ N - (N - n) = n
    OBVIOUS
  <2>2. N - n \in J
    BY <2>1
  <2>3. k <= N - n
    BY <1>2, <2>2
  <2> QED BY <1>3, <2>1, <2>3
<1> QED BY <1>3, <1>4

\* A function that starts with x and takes the steps of a loop.
Iterated(N, S, x, step, f) == f \in [0..N -> S] /\ f[0] = x /\ \A n \in 1..N : f[n] = step[<<n, f[n - 1]>>]

\* Such a function exists.
LEMMA Iterates ==
  ASSUME NEW N \in Nat, NEW S, NEW x \in S, NEW step \in [(1..N) \X S -> S]
  PROVE  \E f : Iterated(N, S, x, step, f)
<1> DEFINE Long(k, f) == f[0] = x /\ \A n \in 1..k : f[n] = step[<<n, f[n - 1]>>]
           G == {k \in 0..N : \E f \in [0..k -> S] : Long(k, f)}
<1>1. 0 \in G
  <2>1. [n \in 0..0 |-> x] \in [0..0 -> S] /\ Long(0, [n \in 0..0 |-> x])
    OBVIOUS
  <2>2. 0 \in 0..N
    OBVIOUS
  <2> HIDE DEF Long
  <2> QED BY <2>1, <2>2
<1>2. ASSUME NEW k \in 1..N, k - 1 \in G PROVE k \in G
  <2>1. PICK f \in [0..k - 1 -> S] : Long(k - 1, f)
    BY <1>2
  <2>2. k \in Nat /\ k - 1 \in 0..k - 1 /\ f[k - 1] \in S /\ step[<<k, f[k - 1]>>] \in S
    <3>1. k \in Nat /\ k - 1 \in 0..k - 1
      OBVIOUS
    <3>2. f[k - 1] \in S
      BY <3>1, <2>1
    <3>3. <<k, f[k - 1]>> \in (1..N) \X S
      BY <3>2
    <3> QED BY <3>1, <3>2, <3>3
  <2>3. PICK g : g = [n \in 0..k |-> IF n = k THEN step[<<k, f[k - 1]>>] ELSE f[n]]
    OBVIOUS
  <2>4. g \in [0..k -> S] /\ \A n \in 0..k - 1 : g[n] = f[n]
    <3>1. ASSUME NEW n \in 0..k, n # k PROVE f[n] \in S
      <4>1. n \in 0..k - 1
        BY <2>2, <3>1
      <4> QED BY <4>1, <2>1
    <3>2. \A n \in 0..k : (IF n = k THEN step[<<k, f[k - 1]>>] ELSE f[n]) \in S
      BY <2>2, <3>1
    <3>3. \A n \in 0..k - 1 : n \in 0..k /\ n # k
      BY <2>2
    <3> QED BY <2>3, <3>2, <3>3
  <2>5. ASSUME NEW n \in 1..k PROVE g[n] = step[<<n, g[n - 1]>>]
    <3>1. n - 1 \in 0..k - 1
      BY <2>2
    <3>2. CASE n = k
      <4>1. g[k] = step[<<k, f[k - 1]>>]
        <5>1. k \in 0..k
          BY <2>2
        <5> QED BY <5>1, <2>3
      <4>2. g[k - 1] = f[k - 1]
        BY <2>2, <2>4
      <4> QED BY <4>1, <4>2, <3>2
    <3>3. CASE n # k
      <4>1. n \in 1..k - 1 /\ n \in 0..k - 1
        BY <2>2, <3>3
      <4> QED BY <4>1, <3>1, <2>1, <2>4
    <3> QED BY <3>2, <3>3
  <2>6. g[0] = x
    <3>1. 0 \in 0..k - 1
      BY <2>2
    <3> QED BY <3>1, <2>1, <2>4
  <2> QED BY <2>4, <2>5, <2>6
<1>3. N \in G
  <2>1. G \in SUBSET (0..N) /\ N \in 0..N
    OBVIOUS
  <2> HIDE DEF G
  <2> QED BY <1>1, <1>2, <2>1, UpToBound
<1> QED BY <1>3 DEF Iterated

-----------------------------------------------------------------------------
(* Least and greatest numbers, and parts of sequences. *)

\* The least and the greatest of some numbers are among them.
LEMMA LeastIs ==
  ASSUME NEW I \in SUBSET Nat, I # {}
  PROVE  Least(I) \in I /\ \A n \in I : Least(I) <= n
<1>1. \E m \in I : \A n \in I : m <= n
  BY LeastNumber
<1> QED BY <1>1 DEF Least

\* The greatest, of numbers up to a bound.
LEMMA GreatestIs ==
  ASSUME NEW N \in Nat, NEW I \in SUBSET (0..N), I # {}
  PROVE  Greatest(I) \in I /\ \A n \in I : n <= Greatest(I)
<1>1. \E m \in I : \A n \in I : n <= m
  BY GreatestNumber
<1>2. \E m \in I : \A n \in I : m >= n
  BY <1>1
<1>3. Greatest(I) \in I /\ \A n \in I : Greatest(I) >= n
  BY <1>2 DEF Greatest
<1> QED BY <1>3

\* Of two numbers the least is the smaller one.
LEMMA LeastOfTwo ==
  ASSUME NEW a \in Nat, NEW b \in Nat
  PROVE  Least({a, b}) = IF a <= b THEN a ELSE b
<1>1. {a, b} \in SUBSET Nat /\ {a, b} # {}
  OBVIOUS
<1>2. Least({a, b}) \in {a, b} /\ \A n \in {a, b} : Least({a, b}) <= n
  BY <1>1, LeastIs
<1> QED BY <1>2

\* A part of a sequence.
LEMMA SliceIs ==
  ASSUME NEW T, NEW s \in Seq(T), NEW m \in Nat \ {0}, NEW n \in Nat, n <= Len(s), m <= n + 1
  PROVE  /\ SubSeq(s, m, n) \in Seq(T)
         /\ Len(SubSeq(s, m, n)) = n - m + 1
         /\ \A i \in 1..n - m + 1 : SubSeq(s, m, n)[i] = s[m + i - 1]
<1>1. \A i \in m..n : s[i] \in T
  <2>1. \A i \in m..n : i \in 1..Len(s)
    BY LenProperties
  <2> QED BY <2>1, ElementOfSeq
<1>2. m \in Int /\ n \in Int
  OBVIOUS
<1>3. /\ SubSeq(s, m, n) \in Seq(T)
      /\ Len(SubSeq(s, m, n)) = IF m <= n THEN n - m + 1 ELSE 0
      /\ \A i \in 1..n - m + 1 : SubSeq(s, m, n)[i] = s[m + i - 1]
  BY <1>1, <1>2, SubSeqProperties
<1>4. ~(m <= n) => n - m + 1 = 0
  OBVIOUS
<1> QED BY <1>3, <1>4

\* Three sequences, one after the other.
InTurn(T, a, b, c, abc) ==
  /\ abc \in Seq(T) /\ Len(abc) = Len(a) + Len(b) + Len(c)
  /\ \A i \in 1..Len(a) : abc[i] = a[i]
  /\ \A i \in Len(a) + 1..Len(a) + Len(b) : abc[i] = b[i - Len(a)]
  /\ \A i \in Len(a) + Len(b) + 1..Len(a) + Len(b) + Len(c) : abc[i] = c[i - Len(a) - Len(b)]

\* Joining puts them one after the other.
LEMMA ThreeJoined ==
  ASSUME NEW T, NEW a \in Seq(T), NEW b \in Seq(T), NEW c \in Seq(T)
  PROVE  InTurn(T, a, b, c, a \o b \o c)
<1> DEFINE ab == a \o b
<1>1. /\ ab \in Seq(T) /\ Len(ab) = Len(a) + Len(b)
      /\ \A i \in 1..Len(a) + Len(b) : ab[i] = IF i <= Len(a) THEN a[i] ELSE b[i - Len(a)]
  BY ConcatProperties
<1>2. Len(a) \in Nat /\ Len(b) \in Nat /\ Len(c) \in Nat
  BY LenProperties
<1> HIDE DEF ab
<1>3. /\ ab \o c \in Seq(T) /\ Len(ab \o c) = Len(ab) + Len(c)
      /\ \A i \in 1..Len(ab) + Len(c) : (ab \o c)[i] = IF i <= Len(ab) THEN ab[i] ELSE c[i - Len(ab)]
  <2>1. ab \in Seq(T)
    BY <1>1
  <2> QED BY <2>1, ConcatProperties, Zenon
<1> DEFINE abc == ab \o c
<1>4. /\ abc \in Seq(T) /\ Len(abc) = Len(a) + Len(b) + Len(c)
      /\ \A i \in 1..Len(a) + Len(b) + Len(c) :
           abc[i] = IF i <= Len(a) + Len(b) THEN ab[i] ELSE c[i - (Len(a) + Len(b))]
  BY <1>1, <1>2, <1>3
<1> HIDE DEF abc
<1>5. \A i \in 1..Len(a) : abc[i] = a[i]
  BY <1>1, <1>2, <1>4
<1>6. \A i \in Len(a) + 1..Len(a) + Len(b) : abc[i] = b[i - Len(a)]
  BY <1>1, <1>2, <1>4
<1>7. \A i \in Len(a) + Len(b) + 1..Len(a) + Len(b) + Len(c) : abc[i] = c[i - Len(a) - Len(b)]
  <2> SUFFICES ASSUME NEW i \in Len(a) + Len(b) + 1..Len(a) + Len(b) + Len(c)
               PROVE  abc[i] = c[i - Len(a) - Len(b)]
    OBVIOUS
  <2>1. i \in 1..Len(a) + Len(b) + Len(c) /\ ~(i <= Len(a) + Len(b)) /\ i - (Len(a) + Len(b)) = i - Len(a) - Len(b)
    BY <1>2
  <2> QED BY <2>1, <1>4
<1> QED BY <1>4, <1>5, <1>6, <1>7 DEF abc, ab, InTurn

-----------------------------------------------------------------------------
(* Delta encoding of revisions. *)

\* A word of any length is a sequence of letters.
LEMMA WordsAre ==
  ASSUME NEW w \in Words
  PROVE  w \in Seq(Letters) /\ Len(w) \in 0..MaxWord /\ DOMAIN w = 1..Len(w)
<1>1. PICK n \in 0..MaxWord : w \in [1..n -> Letters]
  BY DEF Words
<1>2. n \in Nat
  BY SearchingAssumption
<1>3. w \in Seq(Letters)
  BY <1>1, <1>2, SeqDef
<1> QED BY <1>1, <1>2, <1>3, LenProperties

\* How long the common ends of two words are, and that they do not overlap.
LEMMA EndsAre ==
  ASSUME NEW old \in Words, NEW new \in Words
  PROVE  LET p == PrefixLen(old, new)
             s == SuffixLen(old, new)
         IN /\ p \in Nat /\ s \in Nat /\ p + s <= Len(old) /\ p + s <= Len(new)
            /\ \A i \in 1..p : old[i] = new[i]
            /\ \A i \in 0..s - 1 : old[Len(old) - i] = new[Len(new) - i]
<1> DEFINE p == PrefixLen(old, new)
           s == SuffixLen(old, new)
           short == Least({Len(old), Len(new)})
           P == {n \in 0..short : \A i \in 1..n : old[i] = new[i]}
           S == {n \in 0..short - p : \A i \in 0..n - 1 : old[Len(old) - i] = new[Len(new) - i]}
<1>1. Len(old) \in Nat /\ Len(new) \in Nat
  BY WordsAre, SearchingAssumption
<1>2. short \in Nat /\ short <= Len(old) /\ short <= Len(new)
  BY <1>1, LeastOfTwo
<1>3. p \in P
  <2>1. 0 \in P /\ P \in SUBSET (0..short)
    BY <1>2
  <2>2. p = Greatest(P)
    BY DEF PrefixLen
  <2> HIDE DEF P, p, short
  <2> QED BY <1>2, <2>1, <2>2, GreatestIs
<1>4. p \in Nat /\ p <= short /\ \A i \in 1..p : old[i] = new[i]
  <2> HIDE DEF p, short
  <2> QED BY <1>2, <1>3
<1>5. s \in S
  <2>1. s = Greatest(S)
    BY DEF SuffixLen
  <2> HIDE DEF p, s, short
  <2>2. short - p \in Nat /\ 0 \in S /\ S \in SUBSET (0..short - p)
    BY <1>2, <1>4
  <2> HIDE DEF S
  <2> QED BY <2>1, <2>2, GreatestIs
<1>6. s \in Nat /\ s <= short - p /\ \A i \in 0..s - 1 : old[Len(old) - i] = new[Len(new) - i]
  <2> HIDE DEF p, s, short
  <2> QED BY <1>2, <1>4, <1>5
<1>7. p + s <= Len(old) /\ p + s <= Len(new)
  <2> HIDE DEF p, s, short
  <2> QED BY <1>1, <1>2, <1>4, <1>6
<1> QED BY <1>4, <1>6, <1>7

\* Decoding what was encoded gives the revision back.
LEMMA DeltaIsExact ==
  ASSUME NEW old \in Words, NEW new \in Words
  PROVE  Decode(old, Encode(old, new)) = new
<1> DEFINE p == PrefixLen(old, new)
           s == SuffixLen(old, new)
           middle == SubSeq(new, p + 1, Len(new) - s)
           end == SubSeq(old, Len(old) - s + 1, Len(old))
           start == SubSeq(old, 1, p)
<1>1. /\ p \in Nat /\ s \in Nat /\ p + s <= Len(old) /\ p + s <= Len(new)
      /\ \A i \in 1..p : old[i] = new[i]
      /\ \A i \in 0..s - 1 : old[Len(old) - i] = new[Len(new) - i]
  BY EndsAre
<1>2. /\ old \in Seq(Letters) /\ Len(old) \in Nat /\ DOMAIN old = 1..Len(old)
      /\ new \in Seq(Letters) /\ Len(new) \in Nat /\ DOMAIN new = 1..Len(new)
  BY WordsAre, SearchingAssumption
<1>3. Decode(old, Encode(old, new)) = new \/ Decode(old, Encode(old, new)) = start \o middle \o end
  <2> DEFINE e == [flag |-> 1, prefix |-> p, suffix |-> s, data |-> middle]
  <2>1. CASE old # <<>> /\ DeltaHeader + Len(middle) < Len(new)
    <3>1. Encode(old, new) = e
      BY <2>1 DEF Encode
    <3> HIDE DEF p, s, middle
    <3>2. e.flag = 1 /\ e.prefix = p /\ e.suffix = s /\ e.data = middle
      OBVIOUS
    <3> HIDE DEF e
    <3>3. Decode(old, e) = start \o middle \o end
      BY <3>2 DEF Decode
    <3> QED BY <3>1, <3>3
  <2>2. CASE ~(old # <<>> /\ DeltaHeader + Len(middle) < Len(new))
    <3>1. Encode(old, new) = [flag |-> 0, data |-> new]
      BY <2>2 DEF Encode
    <3> QED BY <3>1 DEF Decode
  <2> QED BY <2>1, <2>2
<1> HIDE DEF p, s
<1>4. /\ start \in Seq(Letters) /\ Len(start) = p /\ \A i \in 1..p : start[i] = old[i]
  <2>1. p <= Len(old) /\ 1 \in Nat \ {0} /\ 1 <= p + 1
    BY <1>1, <1>2
  <2>2. start \in Seq(Letters) /\ Len(start) = p - 1 + 1 /\ \A i \in 1..p - 1 + 1 : start[i] = old[1 + i - 1]
    BY <2>1, <1>1, <1>2, SliceIs
  <2> QED BY <2>2, <1>1
<1>5. /\ middle \in Seq(Letters) /\ Len(middle) = Len(new) - s - p
      /\ \A i \in 1..Len(new) - s - p : middle[i] = new[p + i]
  <2>1. p + 1 \in Nat \ {0} /\ Len(new) - s \in Nat /\ Len(new) - s <= Len(new) /\ p + 1 <= Len(new) - s + 1
    BY <1>1, <1>2
  <2>2. /\ middle \in Seq(Letters) /\ Len(middle) = Len(new) - s - (p + 1) + 1
        /\ \A i \in 1..Len(new) - s - (p + 1) + 1 : middle[i] = new[p + 1 + i - 1]
    BY <2>1, <1>2, SliceIs
  <2>3. Len(new) - s - (p + 1) + 1 = Len(new) - s - p /\ \A i \in 1..Len(new) - s - p : p + 1 + i - 1 = p + i
    BY <1>1, <1>2
  <2> QED BY <2>2, <2>3
<1>6. /\ end \in Seq(Letters) /\ Len(end) = s
      /\ \A i \in 1..s : end[i] = old[Len(old) - s + i]
  <2>1. Len(old) - s + 1 \in Nat \ {0} /\ Len(old) - s + 1 <= Len(old) + 1
    BY <1>1, <1>2
  <2>2. /\ end \in Seq(Letters) /\ Len(end) = Len(old) - (Len(old) - s + 1) + 1
        /\ \A i \in 1..Len(old) - (Len(old) - s + 1) + 1 : end[i] = old[Len(old) - s + 1 + i - 1]
    BY <2>1, <1>2, SliceIs
  <2> QED BY <2>2, <1>1, <1>2
<1> HIDE DEF start, middle, end
<1> DEFINE joined == start \o middle \o end
<1>7. /\ joined \in Seq(Letters) /\ Len(joined) = Len(start) + Len(middle) + Len(end)
      /\ \A i \in 1..Len(start) : joined[i] = start[i]
      /\ \A i \in Len(start) + 1..Len(start) + Len(middle) : joined[i] = middle[i - Len(start)]
      /\ \A i \in Len(start) + Len(middle) + 1..Len(start) + Len(middle) + Len(end) :
           joined[i] = end[i - Len(start) - Len(middle)]
  <2>1. start \in Seq(Letters) /\ middle \in Seq(Letters) /\ end \in Seq(Letters)
    BY <1>4, <1>5, <1>6
  <2>2. InTurn(Letters, start, middle, end, joined)
    BY <2>1, ThreeJoined
  <2> HIDE DEF joined
  <2> QED BY <2>2 DEF InTurn
<1> HIDE DEF joined
<1>8. ASSUME NEW i \in 1..Len(new) PROVE joined[i] = new[i]
  <2>1. CASE i <= p
    <3>1. i \in 1..p
      BY <2>1, <1>1
    <3> QED BY <3>1, <1>1, <1>4, <1>7
  <2>2. CASE i > p /\ i <= Len(new) - s
    <3>1. i \in p + 1..p + (Len(new) - s - p) /\ i - p \in 1..Len(new) - s - p /\ p + (i - p) = i
      BY <2>2, <1>1, <1>2
    <3> QED BY <3>1, <1>4, <1>5, <1>7
  <2>3. CASE i > Len(new) - s
    <3>1. /\ i \in p + (Len(new) - s - p) + 1..p + (Len(new) - s - p) + s
          /\ i - p - (Len(new) - s - p) = i - (Len(new) - s)
      BY <2>3, <1>1, <1>2
    <3>2. joined[i] = end[i - (Len(new) - s)]
      BY SMTT(30), <3>1, <1>4, <1>5, <1>6, <1>7
    <3>3. i - (Len(new) - s) \in 1..s /\ Len(old) - s + (i - (Len(new) - s)) = Len(old) - (Len(new) - i)
      BY <2>3, <1>1, <1>2
    <3>4. Len(new) - i \in 0..s - 1 /\ Len(new) - (Len(new) - i) = i
      BY <2>3, <1>1, <1>2
    <3>5. end[i - (Len(new) - s)] = old[Len(old) - (Len(new) - i)]
      BY <1>6, <3>3
    <3> QED BY <3>2, <3>4, <3>5, <1>1
  <2> QED BY <2>1, <2>2, <2>3, <1>1, <1>2
<1>9. joined = new
  <2>1. Len(joined) = Len(new)
    BY <1>1, <1>2, <1>4, <1>5, <1>6, <1>7
  <2> QED BY <2>1, <1>2, <1>7, <1>8, SeqEqual
<1> QED BY <1>3, <1>9 DEF joined

-----------------------------------------------------------------------------
(* The bucket of a time. *)

\* A round of the search for a bucket.
BucketRound(from, to, ts, s) ==
  LET mid == (s.lo + s.hi) \div 2
  IN IF s.lo > s.hi \/ s.at # 0 THEN s
     ELSE IF ts < from[mid] THEN [s EXCEPT !.hi = mid - 1]
     ELSE IF ts >= to[mid] THEN [s EXCEPT !.lo = mid + 1]
     ELSE [s EXCEPT !.at = mid]

\* Buckets one after the other.
InLine(from, to) ==
  /\ from \in Seq(Int) /\ to \in Seq(Int) /\ Len(to) = Len(from)
  /\ \A i \in 1..Len(from) : from[i] < to[i]
  /\ \A i \in 1..Len(from) : i + 1 <= Len(from) => to[i] = from[i + 1]

\* What the rounds taken so far have found, or have left to look at.
Narrowed(from, to, ts, n, s) ==
  /\ s \in [lo : 1..Len(from) + 1, hi : 0..Len(from), at : 0..Len(from)]
  /\ s.at # 0 => from[s.at] <= ts /\ ts < to[s.at]
  /\ s.at = 0 => /\ \A i \in 1..Len(from) : i < s.lo => to[i] <= ts
                 /\ \A i \in 1..Len(from) : i > s.hi => ts < from[i]
                 /\ s.lo > s.hi \/ s.hi - s.lo + 1 <= Len(from) - n

\* Every bucket ends where a later one starts, or before.
LEMMA LineAscends ==
  ASSUME NEW from, NEW to, InLine(from, to), NEW i \in 1..Len(from), NEW j \in 1..Len(from), i < j
  PROVE  to[i] <= from[j]
<1> DEFINE N == Len(from)
           G == {k \in 0..N : k > i => to[i] <= from[k]}
<1>1. /\ N \in Nat /\ \A k \in 1..N : from[k] \in Int /\ to[k] \in Int
  BY LenProperties, ElementOfSeq DEF InLine
<1>2. 0 \in G
  BY <1>1
<1>3. ASSUME NEW k \in 1..N, k - 1 \in G PROVE k \in G
  <2>1. CASE k - 1 > i
    <3>1. to[i] <= from[k - 1] /\ k - 1 \in 1..N /\ (k - 1) + 1 = k
      BY <2>1, <1>1, <1>3
    <3>2. from[k - 1] < to[k - 1] /\ to[k - 1] = from[k]
      BY SMTT(30), <3>1 DEF InLine
    <3>3. to[i] <= from[k]
      BY <3>1, <3>2, <1>1
    <3> QED BY <3>3
  <2>2. CASE k - 1 = i
    <3>1. to[i] = from[k] /\ to[i] \in Int
      BY <2>2, <1>1 DEF InLine
    <3> QED BY <3>1
  <2>3. CASE k <= i
    BY <2>3
  <2> QED BY <2>1, <2>2, <2>3
<1>4. G \in SUBSET (0..N) /\ j \in 0..N
  OBVIOUS
<1> HIDE DEF G
<1>5. j \in G
  <2> HIDE DEF N
  <2> QED BY <1>1, <1>2, <1>3, <1>4, UpToBound
<1> QED BY <1>5 DEF G

\* A round halves what is left.
LEMMA RoundNarrows ==
  ASSUME NEW from, NEW to, InLine(from, to), NEW ts \in Int, NEW n \in Int, NEW s, Narrowed(from, to, ts, n - 1, s)
  PROVE  Narrowed(from, to, ts, n, BucketRound(from, to, ts, s))
<1> DEFINE N == Len(from)
           mid == (s.lo + s.hi) \div 2
           t == BucketRound(from, to, ts, s)
<1>1. N \in Nat /\ \A k \in 1..N : from[k] \in Int /\ to[k] \in Int /\ from[k] < to[k]
  BY LenProperties, ElementOfSeq DEF InLine
<1>2. s \in [lo : 1..N + 1, hi : 0..N, at : 0..N] /\ s.lo \in 1..N + 1 /\ s.hi \in 0..N /\ s.at \in 0..N
  BY DEF Narrowed
<1>3. CASE s.lo > s.hi \/ s.at # 0
  <2>1. t = s
    BY <1>3 DEF BucketRound
  <2> QED BY <2>1, <1>3 DEF Narrowed
<1>4. CASE ~(s.lo > s.hi \/ s.at # 0)
  <2>1. mid \in 1..N /\ s.lo <= mid /\ mid <= s.hi
    BY <1>1, <1>2, <1>4
  <2>2. /\ \A i \in 1..N : i < s.lo => to[i] <= ts
        /\ \A i \in 1..N : i > s.hi => ts < from[i]
        /\ s.hi - s.lo + 1 <= N - (n - 1)
    BY <1>4, <1>2 DEF Narrowed
  <2> HIDE DEF mid, N
  <2>3. CASE ts < from[mid]
    <3>1. t = [s EXCEPT !.hi = mid - 1]
      BY <1>4, <2>3 DEF BucketRound, mid
    <3>2. t \in [lo : 1..N + 1, hi : 0..N, at : 0..N] /\ t.lo = s.lo /\ t.hi = mid - 1 /\ t.at = s.at
      BY <3>1, <2>1, <1>1, <1>2
    <3>3. ASSUME NEW i \in 1..N, i > mid - 1 PROVE ts < from[i]
      <4>1. CASE i = mid
        BY <4>1, <2>3
      <4>2. CASE i > mid
        <5>1. to[mid] <= from[i] /\ from[mid] < to[mid]
          BY <4>2, <2>1, <1>1, LineAscends DEF N
        <5> QED BY <5>1, <2>3, <2>1, <1>1
      <4> QED BY <4>1, <4>2, <3>3, <2>1
    <3>4. t.hi - t.lo + 1 <= N - n
      BY <3>2, <2>1, <2>2, <1>1, <1>2
    <3> QED BY <3>2, <3>3, <3>4, <2>2, <1>4 DEF Narrowed, N
  <2>4. CASE ~(ts < from[mid]) /\ ts >= to[mid]
    <3>1. t = [s EXCEPT !.lo = mid + 1]
      BY <1>4, <2>4 DEF BucketRound, mid
    <3>2. t \in [lo : 1..N + 1, hi : 0..N, at : 0..N] /\ t.lo = mid + 1 /\ t.hi = s.hi /\ t.at = s.at
      BY <3>1, <2>1, <1>1, <1>2
    <3>3. ASSUME NEW i \in 1..N, i < mid + 1 PROVE to[i] <= ts
      <4>1. CASE i = mid
        BY <4>1, <2>4, <2>1, <1>1
      <4>2. CASE i < mid
        <5>1. to[i] <= from[mid] /\ from[mid] < to[mid]
          BY <4>2, <2>1, <1>1, LineAscends DEF N
        <5> QED BY <5>1, <2>4, <2>1, <1>1
      <4> QED BY <4>1, <4>2, <3>3, <2>1
    <3>4. t.hi - t.lo + 1 <= N - n
      BY <3>2, <2>1, <2>2, <1>1, <1>2
    <3> QED BY <3>2, <3>3, <3>4, <2>2, <1>4 DEF Narrowed, N
  <2>5. CASE ~(ts < from[mid]) /\ ~(ts >= to[mid])
    <3>1. t = [s EXCEPT !.at = mid]
      BY <1>4, <2>5 DEF BucketRound, mid
    <3>2. t \in [lo : 1..N + 1, hi : 0..N, at : 0..N] /\ t.at = mid /\ t.at # 0
      BY <3>1, <2>1, <1>1, <1>2
    <3>3. from[mid] <= ts /\ ts < to[mid]
      BY <2>5, <2>1, <1>1
    <3> QED BY <3>2, <3>3 DEF Narrowed, N
  <2> QED BY <2>3, <2>4, <2>5
<1> QED BY <1>3, <1>4

\* The bucket found holds the time, and none is found only if none does.
LEMMA BucketIsFound ==
  ASSUME NEW from, NEW to, InLine(from, to), NEW ts \in Int
  PROVE  LET i == FindBucket(from, to, ts)
             holds == {j \in DOMAIN from : from[j] <= ts /\ ts < to[j]}
         IN IF holds = {} THEN i = 0 ELSE i \in holds
<1> DEFINE N == Len(from)
           first == [lo |-> 1, hi |-> N, at |-> 0]
           Does(f) == f = [n \in 0..N |->
                             IF n = 0 THEN first
                             ELSE LET s == f[n - 1]
                                      mid == (s.lo + s.hi) \div 2
                                  IN IF s.lo > s.hi \/ s.at # 0 THEN s
                                     ELSE IF ts < from[mid] THEN [s EXCEPT !.hi = mid - 1]
                                     ELSE IF ts >= to[mid] THEN [s EXCEPT !.lo = mid + 1]
                                     ELSE [s EXCEPT !.at = mid]]
           round == CHOOSE f : Does(f)
           S == {s \in [lo : 1..N + 1, hi : 0..N, at : 0..N] : \E n \in Int : Narrowed(from, to, ts, n, s)}
<1>1. N \in Nat /\ DOMAIN from = 1..N /\ \A k \in 1..N : from[k] \in Int /\ to[k] \in Int
  BY LenProperties, ElementOfSeq DEF InLine
<1>2. Narrowed(from, to, ts, 0, first)
  BY <1>1 DEF Narrowed
<1>3. first \in S
  <2>1. first \in [lo : 1..N + 1, hi : 0..N, at : 0..N]
    BY <1>2 DEF Narrowed
  <2> HIDE DEF first
  <2> QED BY <2>1, <1>2
<1>4. ASSUME NEW s \in S PROVE BucketRound(from, to, ts, s) \in S
  <2>1. PICK n \in Int : Narrowed(from, to, ts, n, s)
    OBVIOUS
  <2>2. n + 1 \in Int /\ (n + 1) - 1 = n
    OBVIOUS
  <2>3. Narrowed(from, to, ts, n + 1, BucketRound(from, to, ts, s))
    <3> HIDE DEF S
    <3> QED BY <2>1, <2>2, RoundNarrows
  <2>4. BucketRound(from, to, ts, s) \in [lo : 1..N + 1, hi : 0..N, at : 0..N]
    BY <2>3 DEF Narrowed
  <2> QED BY <2>2, <2>3, <2>4
<1> HIDE DEF S, first
<1>5. PICK step : step = [a \in (1..N) \X S |-> BucketRound(from, to, ts, a[2])]
  OBVIOUS
<1>6. step \in [(1..N) \X S -> S]
  <2>1. \A a \in (1..N) \X S : BucketRound(from, to, ts, a[2]) \in S
    BY <1>4
  <2> QED BY <1>5, <2>1
<1>7. PICK f : f \in [0..N -> S] /\ f[0] = first /\ \A n \in 1..N : f[n] = step[<<n, f[n - 1]>>]
  <2>1. \E f : Iterated(N, S, first, step, f)
    <3> HIDE DEF N
    <3> QED BY <1>1, <1>3, <1>6, Iterates
  <2> QED BY <2>1 DEF Iterated
<1>8. ASSUME NEW n \in 1..N PROVE f[n] = BucketRound(from, to, ts, f[n - 1])
  <2>1. n - 1 \in 0..N
    BY <1>1
  <2>2. <<n, f[n - 1]>> \in (1..N) \X S
    BY <2>1, <1>7
  <2>3. step[<<n, f[n - 1]>>] = BucketRound(from, to, ts, <<n, f[n - 1]>>[2])
    BY <2>2, <1>5
  <2> QED BY <2>3, <1>7
<1>9. Does(f)
  <2>1. \A n \in 0..N : f[n] = IF n = 0 THEN first ELSE BucketRound(from, to, ts, f[n - 1])
    <3>1. \A n \in 0..N : n = 0 \/ n \in 1..N
      BY <1>1
    <3> QED BY <3>1, <1>7, <1>8
  <2>2. f = [n \in 0..N |-> f[n]]
    BY <1>7
  <2>3. f = [n \in 0..N |-> IF n = 0 THEN first ELSE BucketRound(from, to, ts, f[n - 1])]
    BY <2>1, <2>2
  <2> QED BY <2>3 DEF BucketRound
<1>10. Does(round)
  <2> HIDE DEF Does
  <2> QED BY <1>9
<1>11. \A n \in 0..N : round[n] = IF n = 0 THEN first ELSE BucketRound(from, to, ts, round[n - 1])
  <2> HIDE DEF round
  <2>1. round = [n \in 0..N |-> IF n = 0 THEN first ELSE BucketRound(from, to, ts, round[n - 1])]
    BY <1>10 DEF BucketRound
  <2> HIDE DEF Does
  <2>2. PICK g : g = round
    OBVIOUS
  <2>3. g = [n \in 0..N |-> IF n = 0 THEN first ELSE BucketRound(from, to, ts, g[n - 1])]
    BY <2>1, <2>2
  <2>4. \A n \in 0..N : g[n] = IF n = 0 THEN first ELSE BucketRound(from, to, ts, g[n - 1])
    BY <2>3
  <2> QED BY <2>2, <2>4
<1>12. FindBucket(from, to, ts) = round[N].at
  BY DEF FindBucket, first
<1> HIDE DEF Does, round
<1>13. \A n \in 0..N : Narrowed(from, to, ts, n, round[n])
  <2> DEFINE G == {n \in 0..N : Narrowed(from, to, ts, n, round[n])}
  <2>1. 0 \in G
    BY <1>1, <1>2, <1>11
  <2>2. ASSUME NEW n \in 1..N, n - 1 \in G PROVE n \in G
    <3>1. n \in 0..N /\ n # 0 /\ n \in Int /\ Narrowed(from, to, ts, n - 1, round[n - 1])
      BY <2>2, <1>1
    <3>2. Narrowed(from, to, ts, n, BucketRound(from, to, ts, round[n - 1]))
      BY <3>1, RoundNarrows
    <3>3. round[n] = BucketRound(from, to, ts, round[n - 1])
      BY <3>1, <1>11
    <3> QED BY <3>1, <3>2, <3>3
  <2>3. G \in SUBSET (0..N)
    OBVIOUS
  <2> HIDE DEF G, N
  <2>4. \A n \in 0..N : n \in G
    BY <1>1, <2>1, <2>2, <2>3, UpToBound
  <2> QED BY <2>4 DEF G
<1>14. Narrowed(from, to, ts, N, round[N]) /\ N - N = 0
  BY <1>13, <1>1
<1> DEFINE at == round[N].at
           lo == round[N].lo
           hi == round[N].hi
<1>15. at \in 0..N /\ lo \in 1..N + 1 /\ hi \in 0..N
  BY <1>14 DEF Narrowed
<1>16. CASE at # 0
  <2>1. from[at] <= ts /\ ts < to[at] /\ at \in 1..N
    BY <1>14, <1>15, <1>16 DEF Narrowed
  <2> HIDE DEF at
  <2> QED BY <2>1, <1>1, <1>12 DEF at
<1>17. CASE at = 0
  <2>1. ASSUME NEW j \in 1..N PROVE ~(from[j] <= ts /\ ts < to[j])
    <3>1. lo > hi \/ hi - lo + 1 <= 0
      BY <1>14, <1>17 DEF Narrowed
    <3>2. j < lo \/ j > hi
      <4> HIDE DEF lo, hi
      <4> QED BY <3>1, <1>1, <1>15
    <3>3. to[j] <= ts \/ ts < from[j]
      BY <3>2, <1>14, <1>17 DEF Narrowed
    <3> QED BY <3>3, <1>1
  <2> QED BY <2>1, <1>1, <1>12, <1>17
<1> QED BY <1>16, <1>17

-----------------------------------------------------------------------------
(* What a loop keeps of a list. *)

\* The items of a list that are kept, in their order: the places e they had are those of K.
Picked(s, K, n, r, e) ==
  /\ e \in [1..Len(r) -> 1..n]
  /\ \A i \in 1..Len(r), j \in 1..Len(r) : i < j => e[i] < e[j]
  /\ \A i \in 1..Len(r) : r[i] = s[e[i]] /\ s[e[i]] \in K
  /\ \A j \in 1..n : s[j] \in K => \E i \in 1..Len(r) : e[i] = j

\* One more item is looked at.
LEMMA PickedMore ==
  ASSUME NEW T, NEW s \in Seq(T), NEW K, NEW n \in 1..Len(s), NEW r \in Seq(T), NEW e, Picked(s, K, n - 1, r, e)
  PROVE  LET t == IF s[n] \in K THEN Append(r, s[n]) ELSE r
         IN t \in Seq(T) /\ \E f : Picked(s, K, n, t, f)
<1>1. /\ n \in Nat /\ s[n] \in T /\ Len(r) \in Nat
      /\ \A i \in 1..Len(r) : e[i] \in 1..n - 1 /\ e[i] \in 1..n /\ e[i] < n
  <2>1. n \in Nat /\ s[n] \in T /\ Len(r) \in Nat
    BY LenProperties, ElementOfSeq
  <2>2. \A i \in 1..Len(r) : e[i] \in 1..n - 1
    BY DEF Picked
  <2> QED BY <2>1, <2>2
<1>2. CASE s[n] \in K
  <2> DEFINE t == Append(r, s[n])
  <2>1. /\ t \in Seq(T) /\ Len(t) = Len(r) + 1 /\ t[Len(r) + 1] = s[n]
        /\ \A i \in 1..Len(r) : t[i] = r[i]
    BY <1>1, AppendProperties
  <2> HIDE DEF t
  <2>2. PICK f : f = [i \in 1..Len(r) + 1 |-> IF i = Len(r) + 1 THEN n ELSE e[i]]
    OBVIOUS
  <2>3. f[Len(r) + 1] = n /\ \A i \in 1..Len(r) : f[i] = e[i]
    BY <2>2, <1>1
  <2>4. \A i \in 1..Len(r) + 1 : i = Len(r) + 1 \/ i \in 1..Len(r)
    BY <1>1
  <2>5. f \in [1..Len(t) -> 1..n]
    <3>1. \A i \in 1..Len(r) + 1 : (IF i = Len(r) + 1 THEN n ELSE e[i]) \in 1..n
      BY <1>1, <2>4
    <3> QED BY <3>1, <2>1, <2>2
  <2>6. ASSUME NEW i \in 1..Len(t), NEW j \in 1..Len(t), i < j PROVE f[i] < f[j]
    <3>1. i \in 1..Len(r)
      BY <2>6, <2>1, <1>1
    <3>2. CASE j = Len(r) + 1
      BY <3>1, <3>2, <2>3, <1>1
    <3>3. CASE j \in 1..Len(r)
      <4>1. e[i] < e[j]
        BY <3>1, <3>3, <2>6 DEF Picked
      <4> QED BY <4>1, <3>1, <3>3, <2>3
    <3> QED BY <3>2, <3>3, <2>4, <2>1
  <2>7. ASSUME NEW i \in 1..Len(t) PROVE t[i] = s[f[i]] /\ s[f[i]] \in K
    <3>1. CASE i = Len(r) + 1
      BY <3>1, <2>1, <2>3, <1>2
    <3>2. CASE i \in 1..Len(r)
      <4>1. r[i] = s[e[i]] /\ s[e[i]] \in K
        BY <3>2 DEF Picked
      <4> QED BY <4>1, <3>2, <2>1, <2>3
    <3> QED BY <3>1, <3>2, <2>4, <2>1
  <2>8. ASSUME NEW j \in 1..n, s[j] \in K PROVE \E i \in 1..Len(t) : f[i] = j
    <3>1. CASE j = n
      <4>1. Len(r) + 1 \in 1..Len(t)
        BY <2>1, <1>1
      <4> QED BY <4>1, <3>1, <2>3
    <3>2. CASE j # n
      <4>1. j \in 1..n - 1
        BY <3>2, <1>1
      <4>2. PICK i \in 1..Len(r) : e[i] = j
        BY <4>1, <2>8 DEF Picked
      <4>3. i \in 1..Len(t) /\ f[i] = j
        BY <4>2, <2>1, <2>3, <1>1
      <4> QED BY <4>3
    <3> QED BY <3>1, <3>2
  <2>9. Picked(s, K, n, t, f)
    BY <2>5, <2>6, <2>7, <2>8 DEF Picked
  <2> QED BY <2>1, <2>9, <1>2 DEF t
<1>3. CASE s[n] \notin K
  <2>1. e \in [1..Len(r) -> 1..n]
    <3>1. e \in [1..Len(r) -> 1..n - 1]
      BY DEF Picked
    <3>2. \A i \in 1..Len(r) : e[i] \in 1..n
      BY <1>1
    <3> HIDE DEF Picked
    <3>3. e = [i \in 1..Len(r) |-> e[i]]
      BY <3>1
    <3> QED BY <3>2, <3>3
  <2>2. \A j \in 1..n : s[j] \in K => j \in 1..n - 1
    BY <1>1, <1>3
  <2>3. Picked(s, K, n, r, e)
    BY <2>1, <2>2 DEF Picked
  <2> QED BY <2>3, <1>3
<1> QED BY <1>2, <1>3

\* Filtered keeps what belongs to K, in its order, and nothing else.
LEMMA FilteredIs ==
  ASSUME NEW T, NEW s \in Seq(T), NEW K
  PROVE  Filtered(s, K) \in Seq(T) /\ \E e : Picked(s, K, Len(s), Filtered(s, K), e)
<1> DEFINE N == Len(s)
           More(n, r) == IF s[n] \in K THEN Append(r, s[n]) ELSE r
           Does(f) == f = [n \in 0..N |-> IF n = 0 THEN <<>>
                                          ELSE IF s[n] \in K THEN Append(f[n - 1], s[n]) ELSE f[n - 1]]
           kept == CHOOSE f : Does(f)
<1>1. N \in Nat /\ <<>> \in Seq(T) /\ \A n \in 1..N : s[n] \in T
  BY LenProperties, ElementOfSeq, EmptySeq
<1>2. \A n \in 1..N, r \in Seq(T) : More(n, r) \in Seq(T)
  BY <1>1, AppendProperties
<1> HIDE DEF N
<1>3. PICK step : step = [a \in (1..N) \X Seq(T) |-> More(a[1], a[2])]
  OBVIOUS
<1>4. step \in [(1..N) \X Seq(T) -> Seq(T)]
  <2>1. \A a \in (1..N) \X Seq(T) : More(a[1], a[2]) \in Seq(T)
    <3> HIDE DEF More
    <3> QED BY <1>2
  <2> QED BY <1>3, <2>1
<1>5. PICK f : f \in [0..N -> Seq(T)] /\ f[0] = <<>> /\ \A n \in 1..N : f[n] = step[<<n, f[n - 1]>>]
  <2>1. \E f : Iterated(N, Seq(T), <<>>, step, f)
    BY <1>1, <1>4, Iterates
  <2> QED BY <2>1 DEF Iterated
<1>6. ASSUME NEW n \in 1..N PROVE f[n] = More(n, f[n - 1])
  <2>1. n - 1 \in 0..N
    BY <1>1
  <2>2. <<n, f[n - 1]>> \in (1..N) \X Seq(T)
    BY <2>1, <1>5
  <2> HIDE DEF More
  <2>3. step[<<n, f[n - 1]>>] = More(n, f[n - 1])
    BY <2>2, <1>3
  <2> QED BY <2>3, <1>5
<1>7. Does(f)
  <2>1. \A n \in 0..N : f[n] = IF n = 0 THEN <<>> ELSE More(n, f[n - 1])
    <3>1. \A n \in 0..N : n = 0 \/ n \in 1..N
      BY <1>1
    <3> QED BY <3>1, <1>5, <1>6
  <2>2. f = [n \in 0..N |-> f[n]]
    BY <1>5
  <2>3. f = [n \in 0..N |-> IF n = 0 THEN <<>> ELSE More(n, f[n - 1])]
    BY <2>1, <2>2
  <2> QED BY <2>3
<1>8. Does(kept)
  <2> HIDE DEF Does
  <2> QED BY <1>7
<1>9. Filtered(s, K) = kept[N]
  BY DEF Filtered, N
<1> HIDE DEF kept
<1>10. \A n \in 0..N : kept[n] = IF n = 0 THEN <<>> ELSE More(n, kept[n - 1])
  <2>1. PICK g : g = kept
    OBVIOUS
  <2>2. g = [n \in 0..N |-> IF n = 0 THEN <<>> ELSE More(n, g[n - 1])]
    BY <1>8, <2>1
  <2>3. \A n \in 0..N : g[n] = IF n = 0 THEN <<>> ELSE More(n, g[n - 1])
    BY <2>2
  <2> QED BY <2>1, <2>3
<1> DEFINE G == {n \in 0..N : kept[n] \in Seq(T) /\ \E e : Picked(s, K, n, kept[n], e)}
<1>11. 0 \in G
  <2>1. kept[0] = <<>> /\ Len(<<>>) = 0
    BY <1>1, <1>10, EmptySeq
  <2>2. Picked(s, K, 0, <<>>, [i \in 1..0 |-> 0])
    BY <2>1 DEF Picked
  <2>3. \E e : Picked(s, K, 0, kept[0], e)
    BY <2>1, <2>2
  <2>4. 0 \in 0..N /\ kept[0] \in Seq(T)
    BY <2>1, <1>1
  <2> QED BY <2>3, <2>4
<1>12. ASSUME NEW n \in 1..N, n - 1 \in G PROVE n \in G
  <2>1. kept[n] = More(n, kept[n - 1]) /\ n \in 0..N
    BY <1>1, <1>10
  <2>2. kept[n - 1] \in Seq(T)
    BY <1>12
  <2>3. PICK e : Picked(s, K, n - 1, kept[n - 1], e)
    BY <1>12
  <2>4. n \in 1..Len(s)
    BY DEF N
  <2> HIDE DEF G
  <2>5. More(n, kept[n - 1]) \in Seq(T) /\ \E f1 : Picked(s, K, n, More(n, kept[n - 1]), f1)
    BY <2>2, <2>3, <2>4, PickedMore
  <2> QED BY <2>1, <2>5 DEF G
<1>13. N \in G
  <2>1. G \in SUBSET (0..N) /\ N \in 0..N
    BY <1>1
  <2> HIDE DEF G
  <2> QED BY <1>1, <1>11, <1>12, <2>1, UpToBound
<1> QED BY <1>9, <1>13 DEF N

-----------------------------------------------------------------------------
(* Boolean queries. *)

\* The clauses of a query, and what its first n clauses find.
Clause == [neg : BOOLEAN, op : {"", "AND", "OR"}, docs : SUBSET SDocs]
Starts(q, default, i) == ~q[i].neg /\ (i = 1 \/ OpOf(q[i], default) = "OR")
Limiting(q, default, j) == ~q[j].neg /\ OpOf(q[j], default) # "OR"
FoundTo(q, default, n) ==
  {d \in SDocs : \E i \in 1..n : /\ Starts(q, default, i) /\ d \in q[i].docs
                                 /\ \A j \in i + 1..n : Limiting(q, default, j) => d \in q[j].docs}

\* One clause more, behind OR or AND, or negated.
LEMMA FoundMore ==
  ASSUME NEW q \in Seq(Clause), NEW default, NEW n \in 1..Len(q), n > 1
  PROVE  FoundTo(q, default, n) =
           IF q[n].neg THEN FoundTo(q, default, n - 1)
           ELSE IF OpOf(q[n], default) = "OR" THEN FoundTo(q, default, n - 1) \cup q[n].docs
           ELSE FoundTo(q, default, n - 1) \cap q[n].docs
<1>1. n \in Nat /\ n - 1 \in Nat /\ n # 1 /\ q[n] \in Clause /\ q[n].docs \in SUBSET SDocs /\ q[n].neg \in BOOLEAN
  <2>1. n \in Nat /\ q[n] \in Clause
    BY ElementOfSeq, LenProperties
  <2>2. n - 1 \in Nat /\ n # 1
    BY <2>1
  <2>3. q[n].docs \in SUBSET SDocs /\ q[n].neg \in BOOLEAN
    BY <2>1 DEF Clause
  <2> QED BY <2>1, <2>2, <2>3
<1>2. \A i \in 1..n : i = n \/ i \in 1..n - 1
  BY <1>1
<1>3. \A i \in 1..n - 1 : i \in 1..n /\ n \in i + 1..n /\ \A j \in i + 1..n : j = n \/ j \in i + 1..n - 1
  BY <1>1
<1>4. \A i \in 1..n - 1 : \A j \in i + 1..n - 1 : j \in i + 1..n
  BY <1>1
<1>5. \A j \in n + 1..n : FALSE
  BY <1>1
<1>6. Starts(q, default, n) <=> ~q[n].neg /\ OpOf(q[n], default) = "OR"
  BY <1>1 DEF Starts
<1>7. Limiting(q, default, n) <=> ~q[n].neg /\ OpOf(q[n], default) # "OR"
  BY DEF Limiting
<1> DEFINE At(d, i, k) == /\ Starts(q, default, i) /\ d \in q[i].docs
                          /\ \A j \in i + 1..k : Limiting(q, default, j) => d \in q[j].docs
<1>8. \A d, i : i \in 1..n - 1 => (At(d, i, n) <=> At(d, i, n - 1) /\ (Limiting(q, default, n) => d \in q[n].docs))
  BY <1>3, <1>4
<1>9. \A d : At(d, n, n) <=> Starts(q, default, n) /\ d \in q[n].docs
  BY <1>5
<1>10. \A k \in {n, n - 1} : FoundTo(q, default, k) = {d \in SDocs : \E i \in 1..k : At(d, i, k)}
  BY DEF FoundTo
<1> HIDE DEF At
<1>11. n \in 1..n
  BY <1>1
<1>12. ASSUME NEW d \in SDocs
       PROVE  (\E i \in 1..n : At(d, i, n)) <=>
                \/ (\E i \in 1..n - 1 : At(d, i, n - 1)) /\ (Limiting(q, default, n) => d \in q[n].docs)
                \/ Starts(q, default, n) /\ d \in q[n].docs
  BY <1>2, <1>3, <1>8, <1>9, <1>11
<1>13. CASE q[n].neg
  <2>1. ~Limiting(q, default, n) /\ ~Starts(q, default, n)
    BY <1>13, <1>6, <1>7
  <2> QED BY <2>1, <1>10, <1>12, <1>13
<1>14. CASE ~q[n].neg /\ OpOf(q[n], default) = "OR"
  <2>1. ~Limiting(q, default, n) /\ Starts(q, default, n)
    BY <1>14, <1>6, <1>7
  <2> QED BY <2>1, <1>1, <1>10, <1>12, <1>14
<1>15. CASE ~q[n].neg /\ OpOf(q[n], default) # "OR"
  <2>1. Limiting(q, default, n) /\ ~Starts(q, default, n)
    BY <1>15, <1>6, <1>7
  <2> QED BY <2>1, <1>1, <1>10, <1>12, <1>15
<1> QED BY <1>13, <1>14, <1>15

\* A clause is combined with what was found before it.
CombineStep(q, default, pos, i, acc) ==
  IF q[i + 1].neg \/ acc.next > Len(pos) THEN acc
  ELSE [docs |-> IF OpOf(q[i + 1], default) = "OR" THEN acc.docs \cup pos[acc.next].docs
                 ELSE acc.docs \cap pos[acc.next].docs,
        next |-> acc.next + 1]

\* The counter of positive clauses is at the one that comes next in the query.
InStride(q, default, pos, e, i, acc) ==
  /\ acc \in [docs : SUBSET SDocs, next : 2..Len(pos) + 1]
  /\ \A m \in 1..Len(pos) : m < acc.next <=> e[m] <= i + 1
  /\ acc.docs = FoundTo(q, default, i + 1)

\* One clause more of combineResults: found and counter stay in stride.
LEMMA StrideKeeps ==
  ASSUME NEW q \in Seq(Clause), NEW default, NEW pos \in Seq(Clause), NEW e,
         Picked(q, {c \in ItemsOf(q) : ~c.neg}, Len(q), pos, e),
         NEW i \in 1..Len(q) - 1, NEW acc, InStride(q, default, pos, e, i - 1, acc)
  PROVE  InStride(q, default, pos, e, i, CombineStep(q, default, pos, i, acc))
<1> DEFINE n == i + 1
           t == CombineStep(q, default, pos, i, acc)
<1>1. n \in 1..Len(q) /\ n > 1 /\ n - 1 = i /\ (i - 1) + 1 = i /\ q[n] \in Clause /\ Len(pos) \in Nat /\ DOMAIN q = 1..Len(q)
  BY LenProperties, ElementOfSeq
<1>2. /\ acc \in [docs : SUBSET SDocs, next : 2..Len(pos) + 1] /\ acc.next \in Nat
      /\ \A m \in 1..Len(pos) : m < acc.next <=> e[m] <= i
      /\ acc.docs = FoundTo(q, default, i)
  BY <1>1 DEF InStride
<1>3. /\ \A m \in 1..Len(pos) : e[m] \in 1..Len(q) /\ pos[m] = q[e[m]] /\ ~q[e[m]].neg
      /\ \A m \in 1..Len(pos), k \in 1..Len(pos) : m < k => e[m] < e[k]
      /\ \A j \in 1..Len(q) : ~q[j].neg => \E m \in 1..Len(pos) : e[m] = j
  <2>1. \A m \in 1..Len(pos) : e[m] \in 1..Len(q) /\ pos[m] = q[e[m]] /\ q[e[m]] \in {c \in ItemsOf(q) : ~c.neg}
    BY DEF Picked
  <2>2. \A j \in 1..Len(q) : ~q[j].neg => q[j] \in {c \in ItemsOf(q) : ~c.neg}
    BY <1>1 DEF ItemsOf
  <2> QED BY <2>1, <2>2 DEF Picked
<1> HIDE DEF n
<1>4. CASE q[n].neg
  <2>1. t = acc
    BY <1>4 DEF CombineStep, n
  <2>2. FoundTo(q, default, n) = FoundTo(q, default, i)
    BY <1>1, <1>4, FoundMore
  <2>3. ASSUME NEW m \in 1..Len(pos) PROVE e[m] <= i <=> e[m] <= i + 1
    <3>1. e[m] # n /\ e[m] \in Nat
      BY <1>3, <1>4
    <3> QED BY <3>1 DEF n
  <2> QED BY <2>1, <2>2, <2>3, <1>2 DEF InStride, n
<1>5. CASE ~q[n].neg
  <2>1. PICK m \in 1..Len(pos) : e[m] = n
    BY <1>1, <1>3, <1>5
  <2>2. ~(m < acc.next)
    BY <2>1, <1>2 DEF n
  <2>3. acc.next \in 1..Len(pos) /\ acc.next <= m /\ m \in Nat
    BY <2>2, <1>1, <1>2
  <2>4. acc.next = m
    <3>1. SUFFICES ASSUME acc.next < m PROVE FALSE
      BY <2>3, <1>2
    <3>2. e[acc.next] < n /\ e[acc.next] \in Nat
      BY <3>1, <2>1, <2>3, <1>3
    <3>3. e[acc.next] <= i
      BY <3>2, <1>1 DEF n
    <3>4. acc.next < acc.next
      BY <3>3, <2>3, <1>2
    <3> QED BY <3>4, <1>2
  <2>5. pos[acc.next] = q[n] /\ ~(acc.next > Len(pos))
    BY <2>1, <2>3, <2>4, <1>1, <1>3
  <2> DEFINE docs == IF OpOf(q[n], default) = "OR" THEN acc.docs \cup q[n].docs ELSE acc.docs \cap q[n].docs
  <2>6. t = [docs |-> docs, next |-> acc.next + 1]
    BY <2>5, <1>5 DEF CombineStep, n
  <2>7. docs = FoundTo(q, default, n)
    <3>1. FoundTo(q, default, n) = IF OpOf(q[n], default) = "OR" THEN FoundTo(q, default, i) \cup q[n].docs
                                   ELSE FoundTo(q, default, i) \cap q[n].docs
      BY <1>1, <1>5, FoundMore
    <3> QED BY <3>1, <1>2
  <2>8. docs \in SUBSET SDocs
    BY <2>7 DEF FoundTo
  <2>9. ASSUME NEW k \in 1..Len(pos) PROVE k < acc.next + 1 <=> e[k] <= i + 1
    <3>1. e[k] \in Nat
      BY <1>3
    <3>2. CASE k < m
      BY <3>2, <3>1, <2>4, <1>1, <1>2
    <3>3. CASE k = m
      BY <3>3, <2>1, <2>4, <1>1 DEF n
    <3>4. CASE k > m
      <4>1. n < e[k]
        BY <3>4, <2>1, <1>3
      <4> QED BY <4>1, <3>1, <3>4, <2>3, <2>4, <1>1 DEF n
    <3> QED BY <3>2, <3>3, <3>4, <2>3
  <2> HIDE DEF docs
  <2>10. acc.next + 1 \in 2..Len(pos) + 1
    BY <2>3, <1>1
  <2>11. t \in [docs : SUBSET SDocs, next : 2..Len(pos) + 1] /\ t.docs = docs /\ t.next = acc.next + 1
    BY <2>6, <2>8, <2>10
  <2> HIDE DEF t
  <2> QED BY <2>7, <2>9, <2>11 DEF InStride, n, t
<1> QED BY <1>4, <1>5

\* A query whose first clause is positive finds what it means.
LEMMA BooleanIsExact ==
  ASSUME NEW q \in Seq(Clause), NEW default, Len(q) >= 1, ~q[1].neg
  PROVE  SearchBoolean(q, default) = Found(q, default) \ Excluded(q)
<1> DEFINE N == Len(q) - 1
           pos == Positive(q)
           K == {c \in ItemsOf(q) : ~c.neg}
           first == [docs |-> pos[1].docs, next |-> 2]
           S == [docs : SUBSET SDocs, next : Nat \ {0}]
           Does(f) == f = [i \in 0..N |->
                             IF i = 0 THEN [docs |-> pos[1].docs, next |-> 2]
                             ELSE LET acc == f[i - 1]
                                  IN IF q[i + 1].neg \/ acc.next > Len(pos) THEN acc
                                     ELSE [docs |-> IF OpOf(q[i + 1], default) = "OR" THEN acc.docs \cup pos[acc.next].docs
                                                    ELSE acc.docs \cap pos[acc.next].docs,
                                           next |-> acc.next + 1]]
           combined == CHOOSE f : Does(f)
<1>1. Len(q) \in Nat /\ N \in Nat /\ q[1] \in Clause /\ DOMAIN q = 1..Len(q) /\ 1 \in 1..Len(q)
  BY LenProperties, ElementOfSeq
<1>2. pos \in Seq(Clause) /\ \E e : Picked(q, K, Len(q), pos, e)
  <2>1. pos = Filtered(q, K)
    BY DEF Positive
  <2> HIDE DEF pos, K
  <2> QED BY <2>1, FilteredIs
<1>3. PICK e : Picked(q, K, Len(q), pos, e)
  BY <1>2
<1>4. Len(pos) \in Nat /\ \A m \in 1..Len(pos) : pos[m] \in Clause
  <2> HIDE DEF pos
  <2> QED BY <1>2, LenProperties, ElementOfSeq
<1>5. Len(pos) >= 1 /\ e[1] = 1 /\ pos[1] = q[1] /\ pos # <<>>
  <2>1. q[1] \in K
    BY <1>1 DEF ItemsOf
  <2> HIDE DEF pos, K
  <2>2. PICK m \in 1..Len(pos) : e[m] = 1
    BY <2>1, <1>1, <1>3 DEF Picked
  <2>3. 1 \in 1..Len(pos) /\ m \in Nat /\ m >= 1
    BY <2>2, <1>4
  <2>4. e[1] \in 1..Len(q) /\ (1 < m => e[1] < e[m])
    BY <2>2, <2>3, <1>3 DEF Picked
  <2>5. e[1] = 1
    BY <2>2, <2>3, <2>4, <1>1
  <2>6. pos[1] = q[e[1]]
    BY <2>3, <1>3 DEF Picked
  <2>7. Len(<<>>) = 0
    BY EmptySeq
  <2> QED BY <2>3, <2>5, <2>6, <2>7, <1>4
<1>6. CombineResults(q, default) = combined[N].docs
  BY <1>5 DEF CombineResults
<1> HIDE DEF pos, N, K
<1>7. first \in S /\ first.next = 2 /\ first.docs = q[1].docs /\ q[1].docs \in SUBSET SDocs
  <2>1. q[1].docs \in SUBSET SDocs
    BY <1>1 DEF Clause
  <2>2. pos[1].docs = q[1].docs
    BY <1>5
  <2> QED BY <2>1, <2>2
<1>8. \A i \in 1..N, acc \in S : CombineStep(q, default, pos, i, acc) \in S
  <2> SUFFICES ASSUME NEW i \in 1..N, NEW acc \in S PROVE CombineStep(q, default, pos, i, acc) \in S
    OBVIOUS
  <2>1. CASE q[i + 1].neg \/ acc.next > Len(pos)
    BY <2>1 DEF CombineStep
  <2>2. CASE ~(q[i + 1].neg \/ acc.next > Len(pos))
    <3> DEFINE docs == IF OpOf(q[i + 1], default) = "OR" THEN acc.docs \cup pos[acc.next].docs
                       ELSE acc.docs \cap pos[acc.next].docs
    <3>1. CombineStep(q, default, pos, i, acc) = [docs |-> docs, next |-> acc.next + 1]
      BY <2>2 DEF CombineStep
    <3>2. acc.docs \in SUBSET SDocs /\ acc.next \in Nat \ {0}
      OBVIOUS
    <3>3. acc.next \in 1..Len(pos)
      BY <2>2, <3>2, <1>4
    <3>4. pos[acc.next].docs \in SUBSET SDocs
      BY <3>3, <1>4 DEF Clause
    <3>5. docs \in SUBSET SDocs
      BY <3>4, <3>2
    <3>6. acc.next + 1 \in Nat \ {0}
      BY <3>2
    <3> HIDE DEF docs
    <3> QED BY <3>1, <3>5, <3>6
  <2> QED BY <2>1, <2>2
<1> HIDE DEF S
<1>9. PICK step : step = [a \in (1..N) \X S |-> CombineStep(q, default, pos, a[1], a[2])]
  OBVIOUS
<1>10. step \in [(1..N) \X S -> S]
  <2>1. \A a \in (1..N) \X S : CombineStep(q, default, pos, a[1], a[2]) \in S
    BY <1>8
  <2> QED BY <1>9, <2>1
<1>11. PICK f : f \in [0..N -> S] /\ f[0] = first /\ \A i \in 1..N : f[i] = step[<<i, f[i - 1]>>]
  <2>1. \E f : Iterated(N, S, first, step, f)
    <3> HIDE DEF first
    <3> QED BY <1>1, <1>7, <1>10, Iterates
  <2> QED BY <2>1 DEF Iterated
<1>12. ASSUME NEW i \in 1..N PROVE f[i] = CombineStep(q, default, pos, i, f[i - 1])
  <2>1. i - 1 \in 0..N
    BY <1>1
  <2>2. <<i, f[i - 1]>> \in (1..N) \X S
    BY <2>1, <1>11
  <2>3. step[<<i, f[i - 1]>>] = CombineStep(q, default, pos, i, f[i - 1])
    BY <2>2, <1>9
  <2> QED BY <2>3, <1>11
<1> HIDE DEF first
<1>13. Does(f)
  <2>1. \A i \in 0..N : f[i] = IF i = 0 THEN first ELSE CombineStep(q, default, pos, i, f[i - 1])
    <3>1. \A i \in 0..N : i = 0 \/ i \in 1..N
      BY <1>1
    <3> QED BY <3>1, <1>11, <1>12
  <2>2. f = [i \in 0..N |-> f[i]]
    BY <1>11
  <2>3. f = [i \in 0..N |-> IF i = 0 THEN first ELSE CombineStep(q, default, pos, i, f[i - 1])]
    BY <2>1, <2>2
  <2> QED BY <2>3 DEF CombineStep, first
<1>14. Does(combined)
  <2> HIDE DEF Does
  <2> QED BY <1>13
<1> HIDE DEF combined
<1>15. \A i \in 0..N : combined[i] = IF i = 0 THEN first ELSE CombineStep(q, default, pos, i, combined[i - 1])
  <2>1. PICK g : g = combined
    OBVIOUS
  <2>2. g = [i \in 0..N |-> IF i = 0 THEN first ELSE CombineStep(q, default, pos, i, g[i - 1])]
    BY <1>14, <2>1 DEF CombineStep, first
  <2>3. \A i \in 0..N : g[i] = IF i = 0 THEN first ELSE CombineStep(q, default, pos, i, g[i - 1])
    BY <2>2
  <2> QED BY <2>1, <2>3
<1> HIDE DEF Does
<1> DEFINE G == {i \in 0..N : InStride(q, default, pos, e, i, combined[i])}
<1>16. 0 \in G
  <2>1. first \in [docs : SUBSET SDocs, next : 2..Len(pos) + 1] /\ first.next = 2 /\ first.docs = q[1].docs
    <3>1. 2 \in 2..Len(pos) + 1
      BY <1>4, <1>5
    <3>2. first = [docs |-> first.docs, next |-> first.next]
      BY DEF first
    <3> QED BY <3>1, <3>2, <1>7
  <2>2. \A m \in 1..Len(pos) : m < 2 <=> e[m] <= 1
    <3>1. \A m \in 1..Len(pos) : e[m] \in 1..Len(q) /\ (1 < m => e[1] < e[m])
      <4>1. 1 \in 1..Len(pos)
        BY <1>4, <1>5
      <4> QED BY <4>1, <1>3 DEF Picked
    <3>2. ASSUME NEW m \in 1..Len(pos) PROVE m < 2 <=> e[m] <= 1
      <4>1. CASE m = 1
        BY <4>1, <1>5
      <4>2. CASE m # 1
        <5>1. 1 < m /\ m \in Nat /\ e[m] \in Nat
          BY <4>2, <3>1
        <5>2. 1 < e[m]
          BY <5>1, <3>1, <1>5
        <5> QED BY <5>1, <5>2
      <4> QED BY <4>1, <4>2
    <3> QED BY <3>2
  <2>3. FoundTo(q, default, 1) = q[1].docs
    <3>1. Starts(q, default, 1) /\ q[1].docs \in SUBSET SDocs
      BY <1>1 DEF Starts, Clause
    <3>2. 1..1 = {1} /\ 1 + 1..1 = {}
      OBVIOUS
    <3> QED BY <3>1, <3>2 DEF FoundTo
  <2>4. 0 + 1 = 1 /\ 0 \in 0..N /\ combined[0] = first
    BY <1>1, <1>15
  <2> QED BY <2>1, <2>2, <2>3, <2>4 DEF InStride
<1>17. ASSUME NEW i \in 1..N, i - 1 \in G PROVE i \in G
  <2>1. combined[i] = CombineStep(q, default, pos, i, combined[i - 1]) /\ i \in 0..N /\ i \in 1..Len(q) - 1
    <3>1. i \in 0..N /\ i # 0
      BY <1>1
    <3> QED BY <3>1, <1>15 DEF N
  <2>2. InStride(q, default, pos, e, i - 1, combined[i - 1])
    BY <1>17
  <2>3. InStride(q, default, pos, e, i, CombineStep(q, default, pos, i, combined[i - 1]))
    BY <2>1, <2>2, <1>2, <1>3, StrideKeeps DEF K
  <2> QED BY <2>1, <2>3
<1>18. N \in G
  <2>1. G \in SUBSET (0..N) /\ N \in 0..N
    BY <1>1
  <2> HIDE DEF G
  <2> QED BY <1>1, <1>16, <1>17, <2>1, UpToBound
<1>19. combined[N].docs = FoundTo(q, default, Len(q))
  <2>1. combined[N].docs = FoundTo(q, default, N + 1) /\ N + 1 = Len(q)
    BY <1>1, <1>18 DEF InStride, N
  <2> QED BY <2>1
<1>20. FoundTo(q, default, Len(q)) = Found(q, default)
  <2> DEFINE ors == {i \in DOMAIN q : ~q[i].neg /\ (i = 1 \/ OpOf(q[i], default) = "OR")}
             ands(i) == {j \in i + 1..Len(q) : ~q[j].neg /\ OpOf(q[j], default) # "OR"}
  <2>1. Found(q, default) = {d \in SDocs : \E i \in ors : d \in q[i].docs /\ \A j \in ands(i) : d \in q[j].docs}
    BY DEF Found
  <2>2. \A i : i \in ors <=> i \in 1..Len(q) /\ Starts(q, default, i)
    BY <1>1 DEF Starts
  <2>3. \A i, j : j \in ands(i) <=> j \in i + 1..Len(q) /\ Limiting(q, default, j)
    BY DEF Limiting
  <2> HIDE DEF ors, ands
  <2> QED BY <2>1, <2>2, <2>3 DEF FoundTo
<1> QED BY <1>6, <1>19, <1>20 DEF SearchBoolean

-----------------------------------------------------------------------------
(* Query expressions. *)

\* The expressions another one is made of, and the expressions by how many of them lie over
\* each other.
PartsOf(t) == IF t.op = "leaf" THEN {} ELSE IF t.op = "not" THEN {t.of} ELSE {t.left, t.right}
Leaves == {Leaf(S) : S \in SUBSET SDocs}

\* What the expressions of each size are made of.
LEMMA ShapesAre ==
  /\ \A t \in Leaves : t.op = "leaf" /\ t.docs \in SUBSET SDocs /\ PartsOf(t) = {}
  /\ \A t \in Atoms : t \in Leaves \/ (t.op = "not" /\ t.of \in Leaves)
  /\ \A t \in Atoms \cup Pairs : t \in Atoms \/ (t.op \in {"and", "or"} /\ t.left \in Atoms /\ t.right \in Atoms)
  /\ \A t \in Exprs : t \in Atoms \/ (t.op \in {"and", "or"} /\ t.left \in Atoms \cup Pairs /\ t.right \in Atoms)
  /\ Leaves \subseteq Atoms /\ Atoms \cup Pairs \subseteq Exprs
<1>1. \A t \in Leaves : t.op = "leaf" /\ t.docs \in SUBSET SDocs /\ PartsOf(t) = {}
  <2> SUFFICES ASSUME NEW S \in SUBSET SDocs, NEW t, t = Leaf(S)
               PROVE  t.op = "leaf" /\ t.docs \in SUBSET SDocs /\ PartsOf(t) = {}
    BY DEF Leaves
  <2>1. t.op = "leaf" /\ t.docs = S
    BY DEF Leaf
  <2> QED BY <2>1 DEF PartsOf
<1>2. \A t \in Atoms : t \in Leaves \/ (t.op = "not" /\ t.of \in Leaves)
  <2> SUFFICES ASSUME NEW S \in SUBSET SDocs, NEW t, t = Not(Leaf(S))
               PROVE  t.op = "not" /\ t.of \in Leaves
    BY DEF Atoms, Leaves
  <2>1. Leaf(S) \in Leaves
    BY DEF Leaves
  <2>2. t.op = "not" /\ t.of = Leaf(S)
    BY DEF Not
  <2> QED BY <2>1, <2>2
<1>3. \A o \in {"and", "or"} : \A l, r : Both(o, l, r).op = o /\ Both(o, l, r).left = l /\ Both(o, l, r).right = r
  BY DEF Both
<1>4. \A t \in Atoms \cup Pairs : t \in Atoms \/ (t.op \in {"and", "or"} /\ t.left \in Atoms /\ t.right \in Atoms)
  BY <1>3 DEF Pairs
<1>5. \A t \in Exprs : t \in Atoms \/ (t.op \in {"and", "or"} /\ t.left \in Atoms \cup Pairs /\ t.right \in Atoms)
  BY <1>3 DEF Exprs
<1>6. Leaves \subseteq Atoms /\ Atoms \cup Pairs \subseteq Exprs
  <2>1. Leaves \subseteq Atoms
    BY DEF Leaves, Atoms
  <2>2. Atoms \subseteq Exprs
    BY DEF Exprs
  <2>3. Pairs \subseteq Exprs
    BY DEF Pairs, Exprs
  <2> QED BY <2>1, <2>2, <2>3
<1> QED BY <1>1, <1>2, <1>4, <1>5, <1>6

\* The parts of an expression are expressions, one layer down.
LEMMA PartsAre ==
  /\ \A t \in Leaves : PartsOf(t) = {}
  /\ \A t \in Atoms : PartsOf(t) \subseteq Leaves
  /\ \A t \in Atoms \cup Pairs : PartsOf(t) \subseteq Atoms
  /\ \A t \in Exprs : PartsOf(t) \subseteq Atoms \cup Pairs
<1>1. \A t \in Atoms : PartsOf(t) \subseteq Leaves
  <2>1. \A t : t.op = "not" => PartsOf(t) = {t.of}
    BY DEF PartsOf
  <2> QED BY <2>1, ShapesAre
<1>2. \A t : t.op \in {"and", "or"} => PartsOf(t) = {t.left, t.right}
  BY DEF PartsOf
<1>3. \A t \in Atoms \cup Pairs : PartsOf(t) \subseteq Atoms
  BY <1>1, <1>2, ShapesAre
<1>4. \A t \in Exprs : PartsOf(t) \subseteq Atoms \cup Pairs
  BY <1>1, <1>2, ShapesAre
<1> QED BY <1>1, <1>3, <1>4, ShapesAre

\* What an expression has whenever its parts have it, all have.
LEMMA ByParts ==
  ASSUME NEW G, \A t \in Exprs : PartsOf(t) \subseteq G => t \in G
  PROVE  \A t \in Exprs : t \in G
<1>1. Leaves \subseteq Exprs /\ Atoms \subseteq Exprs /\ Atoms \cup Pairs \subseteq Exprs
  BY ShapesAre
<1>2. \A t \in Leaves : t \in G
  BY <1>1, PartsAre
<1>3. \A t \in Atoms : t \in G
  BY <1>1, <1>2, PartsAre
<1>4. \A t \in Atoms \cup Pairs : t \in G
  BY <1>1, <1>3, PartsAre
<1> QED BY <1>4, PartsAre

\* What an expression has is defined once it is defined from what its parts have.
FromParts(V, step) ==
  /\ step \in [Exprs \X [Exprs -> V] -> V]
  /\ \A t \in Exprs, g \in [Exprs -> V], h \in [Exprs -> V] :
       (\A p \in PartsOf(t) : g[p] = h[p]) => step[<<t, g>>] = step[<<t, h>>]

\* Such a definition is one of a function.
LEMMA ExprRecursion ==
  ASSUME NEW V, NEW v \in V, NEW step, FromParts(V, step)
  PROVE  \E f \in [Exprs -> V] : \A t \in Exprs : f[t] = step[<<t, f>>]
<1> USE DEF FromParts
<1>1. \A h \in [Exprs -> V] : \E k \in [Exprs -> V] : \A t \in Exprs : k[t] = step[<<t, h>>]
  <2> SUFFICES ASSUME NEW h \in [Exprs -> V]
               PROVE  \E k \in [Exprs -> V] : \A t \in Exprs : k[t] = step[<<t, h>>]
    OBVIOUS
  <2>1. \A t \in Exprs : step[<<t, h>>] \in V
    OBVIOUS
  <2>2. [t \in Exprs |-> step[<<t, h>>]] \in [Exprs -> V]
    BY <2>1
  <2> QED BY <2>2
<1>2. PICK h0 \in [Exprs -> V] : h0 = [t \in Exprs |-> v]
  OBVIOUS
<1>3. PICK h1 \in [Exprs -> V] : \A t \in Exprs : h1[t] = step[<<t, h0>>]
  BY <1>1
<1>4. PICK h2 \in [Exprs -> V] : \A t \in Exprs : h2[t] = step[<<t, h1>>]
  BY <1>1
<1>5. PICK h3 \in [Exprs -> V] : \A t \in Exprs : h3[t] = step[<<t, h2>>]
  BY <1>1
<1>6. PICK h4 \in [Exprs -> V] : \A t \in Exprs : h4[t] = step[<<t, h3>>]
  BY <1>1
<1>7. Leaves \subseteq Exprs /\ Atoms \subseteq Exprs /\ Atoms \cup Pairs \subseteq Exprs
  BY ShapesAre
<1>8. \A t \in Leaves : h1[t] = h2[t]
  <2>1. ASSUME NEW t \in Leaves PROVE step[<<t, h0>>] = step[<<t, h1>>]
    <3>1. t \in Exprs /\ \A p \in PartsOf(t) : h0[p] = h1[p]
      BY <1>7, PartsAre
    <3> QED BY <3>1
  <2> QED BY <2>1, <1>3, <1>4, <1>7
<1>9. \A t \in Atoms : h2[t] = h3[t]
  <2>1. ASSUME NEW t \in Atoms PROVE step[<<t, h1>>] = step[<<t, h2>>]
    <3>1. t \in Exprs /\ \A p \in PartsOf(t) : h1[p] = h2[p]
      BY <1>7, <1>8, PartsAre
    <3> QED BY <3>1
  <2> QED BY <2>1, <1>4, <1>5, <1>7
<1>10. \A t \in Atoms \cup Pairs : h3[t] = h4[t]
  <2>1. ASSUME NEW t \in Atoms \cup Pairs PROVE step[<<t, h2>>] = step[<<t, h3>>]
    <3>1. t \in Exprs /\ \A p \in PartsOf(t) : h2[p] = h3[p]
      BY <1>7, <1>9, PartsAre
    <3> QED BY <3>1
  <2> QED BY <2>1, <1>5, <1>6, <1>7
<1>11. ASSUME NEW t \in Exprs PROVE step[<<t, h3>>] = step[<<t, h4>>]
  <2>1. \A p \in PartsOf(t) : h3[p] = h4[p]
    BY <1>10, PartsAre
  <2> QED BY <2>1
<1> QED BY <1>6, <1>11

\* The operator of an expression, and what it has.
LEMMA OpIs ==
  ASSUME NEW t \in Exprs
  PROVE  /\ t.op \in {"leaf", "not", "and", "or"}
         /\ t.op = "leaf" => t.docs \in SUBSET SDocs
         /\ t.op = "not" => /\ PartsOf(t) = {t.of} /\ t.of \in Exprs /\ t.of \in Leaves
                            /\ t.of.op = "leaf" /\ t.of.docs \in SUBSET SDocs
         /\ t.op \in {"and", "or"} => PartsOf(t) = {t.left, t.right} /\ t.left \in Exprs /\ t.right \in Exprs
<1>1. t.op \in {"leaf", "not", "and", "or"}
  BY ShapesAre
<1>2. t.op = "leaf" => t.docs \in SUBSET SDocs
  <2>1. t.op = "leaf" => t \in Leaves
    BY ShapesAre
  <2> QED BY <2>1, ShapesAre
<1>3. t.op = "not" => PartsOf(t) = {t.of} /\ t.of \in Exprs /\ t.of \in Leaves /\ t.of.op = "leaf" /\ t.of.docs \in SUBSET SDocs
  <2>1. t.op = "not" => PartsOf(t) = {t.of}
    BY DEF PartsOf
  <2>2. t.op = "not" => t.of \in Leaves
    BY ShapesAre
  <2> QED BY <2>1, <2>2, ShapesAre
<1>4. t.op \in {"and", "or"} => PartsOf(t) = {t.left, t.right} /\ t.left \in Exprs /\ t.right \in Exprs
  <2>1. t.op \in {"and", "or"} => PartsOf(t) = {t.left, t.right}
    BY DEF PartsOf
  <2>2. t.op \in {"and", "or"} => t.left \in Atoms \cup Pairs /\ t.right \in Atoms
    BY ShapesAre
  <2> QED BY <2>1, <2>2, ShapesAre
<1> QED BY <1>1, <1>2, <1>3, <1>4

\* The maps of an evaluation.
Maps == UNION {[D -> BOOLEAN] : D \in SUBSET SDocs}

\* The maps evalExpr makes of maps are maps.
LEMMA MapsAre ==
  /\ \A m : m \in Maps <=> DOMAIN m \in SUBSET SDocs /\ m \in [DOMAIN m -> BOOLEAN]
  /\ \A l \in Maps, r \in Maps : Merge(l, r) \in Maps /\ Subtract(l, r) \in Maps /\ Intersect(l, r) \subseteq Maps
<1>1. \A m : m \in Maps <=> DOMAIN m \in SUBSET SDocs /\ m \in [DOMAIN m -> BOOLEAN]
  BY DEF Maps
<1>2. ASSUME NEW l \in Maps, NEW r \in Maps
      PROVE  Merge(l, r) \in Maps /\ Subtract(l, r) \in Maps /\ [d \in DOMAIN l \cap DOMAIN r |-> l[d]] \in Maps
  <2>1. /\ DOMAIN l \in SUBSET SDocs /\ DOMAIN r \in SUBSET SDocs
        /\ \A d \in DOMAIN l : l[d] \in BOOLEAN
        /\ \A d \in DOMAIN r : r[d] \in BOOLEAN
    BY <1>1
  <2>2. Merge(l, r) \in Maps
    <3>1. Merge(l, r) \in [DOMAIN l \cup DOMAIN r -> BOOLEAN]
      BY <2>1 DEF Merge
    <3> QED BY <3>1, <2>1 DEF Maps
  <2>3. Subtract(l, r) \in Maps
    <3>1. Subtract(l, r) \in [DOMAIN l \ DOMAIN r -> BOOLEAN]
      BY <2>1 DEF Subtract
    <3> QED BY <3>1, <2>1 DEF Maps
  <2>4. [d \in DOMAIN l \cap DOMAIN r |-> l[d]] \in Maps
    <3>1. [d \in DOMAIN l \cap DOMAIN r |-> l[d]] \in [DOMAIN l \cap DOMAIN r -> BOOLEAN]
      BY <2>1
    <3> QED BY <3>1, <2>1 DEF Maps
  <2> QED BY <2>2, <2>3, <2>4
<1>3. ASSUME NEW l \in Maps, NEW r \in Maps PROVE Intersect(l, r) \subseteq Maps
  <2>1. Merge(l, r) \in Maps /\ Subtract(l, r) \in Maps /\ [d \in DOMAIN l \cap DOMAIN r |-> l[d]] \in Maps
    BY <1>2
  <2>2. Subtract(r, l) \in Maps
    BY <1>2
  <2> QED BY <2>1, <2>2 DEF Intersect
<1> QED BY <1>1, <1>2, <1>3

\* What an evaluation does with those of the parts.
EvalStep(t, f) ==
  IF t.op = "leaf" THEN {ResultsToMap(t.docs)}
  ELSE IF t.op = "not" THEN NegateScores(f[t.of])
  ELSE IF t.op = "and" THEN IntersectScores(f[t.left], f[t.right])
  ELSE UnionScores(f[t.left], f[t.right])

\* The step for each operator.
LEMMA EvalSteps ==
  /\ \A t, f : t.op = "leaf" => EvalStep(t, f) = {ResultsToMap(t.docs)}
  /\ \A t, f : t.op = "not" => EvalStep(t, f) = NegateScores(f[t.of])
  /\ \A t, f : t.op = "and" => EvalStep(t, f) = IntersectScores(f[t.left], f[t.right])
  /\ \A t, f : t.op = "or" => EvalStep(t, f) = UnionScores(f[t.left], f[t.right])
  BY DEF EvalStep

\* evalExpr is that step, from the outcomes of the parts.
LEMMA EvalIs == EvalExpr \in [Exprs -> SUBSET Maps] /\ \A t \in Exprs : EvalExpr[t] = EvalStep(t, EvalExpr)
<1> DEFINE V == SUBSET Maps
           H == [Exprs -> V]
           Does(f) == f = [t \in Exprs |->
             IF t.op = "leaf" THEN {ResultsToMap(t.docs)}
             ELSE IF t.op = "not" THEN NegateScores(f[t.of])
             ELSE IF t.op = "and" THEN IntersectScores(f[t.left], f[t.right])
             ELSE UnionScores(f[t.left], f[t.right])]
<1>1. ASSUME NEW t \in Exprs, NEW h \in H PROVE EvalStep(t, h) \in V
  <2>1. CASE t.op = "leaf"
    <3>1. t.docs \in SUBSET SDocs
      BY <2>1, OpIs
    <3>2. ResultsToMap(t.docs) \in [t.docs -> BOOLEAN]
      BY DEF ResultsToMap
    <3>3. ResultsToMap(t.docs) \in Maps
      BY <3>1, <3>2 DEF Maps
    <3>4. EvalStep(t, h) = {ResultsToMap(t.docs)}
      BY <2>1, EvalSteps
    <3> QED BY <3>3, <3>4
  <2>2. CASE t.op = "not"
    <3>1. t.of \in Exprs
      BY <2>2, OpIs
    <3>2. \A m \in h[t.of] : m \in Maps
      BY <3>1
    <3>3. \A m \in Maps : DOMAIN m \in SUBSET SDocs /\ [d \in DOMAIN m |-> TRUE] \in [DOMAIN m -> BOOLEAN]
      BY MapsAre
    <3>4. \A m \in Maps : [d \in DOMAIN m |-> TRUE] \in Maps
      BY <3>3 DEF Maps
    <3>5. NegateScores(h[t.of]) \subseteq Maps
      BY <3>2, <3>4 DEF NegateScores
    <3> QED BY <3>5, <2>2, EvalSteps
  <2>3. CASE t.op \in {"and", "or"}
    <3>1. t.left \in Exprs /\ t.right \in Exprs
      BY <2>3, OpIs
    <3>2. h[t.left] \subseteq Maps /\ h[t.right] \subseteq Maps
      BY <3>1
    <3>3. \A l \in h[t.left], r \in h[t.right] : Merge(l, r) \in Maps /\ Intersect(l, r) \subseteq Maps
      BY <3>2, MapsAre
    <3>4. UnionScores(h[t.left], h[t.right]) \subseteq Maps
      BY <3>3 DEF UnionScores
    <3>5. IntersectScores(h[t.left], h[t.right]) \subseteq Maps
      BY <3>3 DEF IntersectScores
    <3> QED BY <3>4, <3>5, <2>3, EvalSteps
  <2> QED BY <2>1, <2>2, <2>3, OpIs
<1>2. ASSUME NEW t \in Exprs, NEW g, NEW h, \A p \in PartsOf(t) : g[p] = h[p] PROVE EvalStep(t, g) = EvalStep(t, h)
  <2>1. CASE t.op = "leaf"
    BY <2>1, EvalSteps
  <2>2. CASE t.op = "not"
    <3>1. g[t.of] = h[t.of]
      BY <2>2, <1>2, OpIs
    <3> QED BY <3>1, <2>2, EvalSteps
  <2>3. CASE t.op \in {"and", "or"}
    <3>1. g[t.left] = h[t.left] /\ g[t.right] = h[t.right]
      BY <2>3, <1>2, OpIs
    <3> QED BY <3>1, <2>3, EvalSteps
  <2> QED BY <2>1, <2>2, <2>3, OpIs
<1> HIDE DEF V
<1>3. PICK step : step = [a \in Exprs \X H |-> EvalStep(a[1], a[2])]
  OBVIOUS
<1>4. \A t \in Exprs, h \in H : step[<<t, h>>] = EvalStep(t, h)
  BY <1>3
<1>5. step \in [Exprs \X H -> V]
  <2>1. \A a \in Exprs \X H : EvalStep(a[1], a[2]) \in V
    BY <1>1
  <2> QED BY <1>3, <2>1
<1>6. \E f \in H : \A t \in Exprs : f[t] = step[<<t, f>>]
  <2>1. {} \in V
    BY DEF V
  <2>2. \A t \in Exprs, g \in H, h \in H : (\A p \in PartsOf(t) : g[p] = h[p]) => step[<<t, g>>] = step[<<t, h>>]
    BY <1>2, <1>4
  <2>3. \A t \in Exprs, g \in [Exprs -> V], h \in [Exprs -> V] :
          (\A p \in PartsOf(t) : g[p] = h[p]) => step[<<t, g>>] = step[<<t, h>>]
    BY <2>2
  <2>4. step \in [Exprs \X [Exprs -> V] -> V]
    BY <1>5
  <2>5. FromParts(V, step)
    BY <2>3, <2>4 DEF FromParts
  <2>6. \E f \in [Exprs -> V] : \A t \in Exprs : f[t] = step[<<t, f>>]
    BY <2>1, <2>5, ExprRecursion
  <2> QED BY <2>6
<1>7. PICK f \in H : \A t \in Exprs : f[t] = EvalStep(t, f)
  BY <1>4, <1>6
<1>8. Does(f)
  <2>1. f = [t \in Exprs |-> f[t]]
    OBVIOUS
  <2>2. f = [t \in Exprs |-> EvalStep(t, f)]
    BY <1>7, <2>1
  <2> QED BY <2>2 DEF EvalStep
<1>9. Does(EvalExpr)
  <2>1. EvalExpr = CHOOSE g : Does(g)
    BY DEF EvalExpr
  <2> HIDE DEF Does
  <2> QED BY <1>8, <2>1
<1>10. EvalExpr = [t \in Exprs |-> EvalStep(t, EvalExpr)]
  BY <1>9 DEF EvalStep
<1> HIDE DEF Does
<1>11. \A t \in Exprs : EvalExpr[t] = EvalStep(t, EvalExpr)
  <2>1. PICK g : g = EvalExpr
    OBVIOUS
  <2>2. g = [t \in Exprs |-> EvalStep(t, g)]
    BY <1>10, <2>1
  <2>3. \A t \in Exprs : g[t] = EvalStep(t, g)
    BY <2>2
  <2> QED BY <2>1, <2>3
<1>12. \A t \in Exprs : EvalExpr[t] \in V
  <2> DEFINE G == {t \in Exprs : EvalExpr[t] = f[t]}
  <2>1. ASSUME NEW t \in Exprs, PartsOf(t) \subseteq G PROVE t \in G
    <3>1. \A p \in PartsOf(t) : EvalExpr[p] = f[p]
      BY <2>1
    <3>2. EvalStep(t, EvalExpr) = EvalStep(t, f)
      BY <3>1, <1>2
    <3> QED BY <3>2, <1>7, <1>11
  <2> HIDE DEF G
  <2>2. \A t \in Exprs : t \in G
    BY <2>1, ByParts
  <2> QED BY <2>2 DEF G
<1>13. EvalExpr \in [Exprs -> V]
  <2>1. PICK g : g = EvalExpr
    OBVIOUS
  <2>2. g = [t \in Exprs |-> EvalStep(t, g)]
    BY <1>10, <2>1
  <2>3. \A t \in Exprs : g[t] \in V
    BY <1>12, <2>1
  <2>4. \A t \in Exprs : EvalStep(t, g) \in V
    BY <2>3, <2>1, <1>11
  <2>5. g \in [Exprs -> V]
    BY <2>2, <2>4
  <2> QED BY <2>1, <2>5
<1> QED BY <1>11, <1>13 DEF V

\* What an expression means, from what its parts do.
MatchStep(t, f) ==
  IF t.op = "leaf" THEN t.docs
  ELSE IF t.op = "not" THEN SDocs \ f[t.of]
  ELSE IF t.op = "and" THEN f[t.left] \cap f[t.right]
  ELSE f[t.left] \cup f[t.right]

\* What an expression means is that step.
LEMMA MatchIs == \A t \in Exprs : Matches[t] = MatchStep(t, Matches)
<1> DEFINE V == SUBSET SDocs
           H == [Exprs -> V]
           Does(f) == f = [t \in Exprs |->
             IF t.op = "leaf" THEN t.docs
             ELSE IF t.op = "not" THEN SDocs \ f[t.of]
             ELSE IF t.op = "and" THEN f[t.left] \cap f[t.right]
             ELSE f[t.left] \cup f[t.right]]
<1>1. ASSUME NEW t \in Exprs, NEW h \in H PROVE MatchStep(t, h) \in V
  <2>1. CASE t.op = "leaf"
    <3>1. t.docs \in SUBSET SDocs
      BY <2>1, OpIs
    <3> QED BY <3>1, <2>1 DEF MatchStep
  <2>2. CASE t.op = "not"
    <3>1. h[t.of] \in V
      BY <2>2, OpIs
    <3> QED BY <3>1, <2>2 DEF MatchStep
  <2>3. CASE t.op \in {"and", "or"}
    <3>1. h[t.left] \in V /\ h[t.right] \in V
      BY <2>3, OpIs
    <3> QED BY <3>1, <2>3 DEF MatchStep
  <2> QED BY <2>1, <2>2, <2>3, OpIs
<1>2. ASSUME NEW t \in Exprs, NEW g, NEW h, \A p \in PartsOf(t) : g[p] = h[p] PROVE MatchStep(t, g) = MatchStep(t, h)
  <2>1. CASE t.op = "leaf"
    BY <2>1 DEF MatchStep
  <2>2. CASE t.op = "not"
    <3>1. g[t.of] = h[t.of]
      BY <2>2, <1>2, OpIs
    <3> QED BY <3>1, <2>2 DEF MatchStep
  <2>3. CASE t.op \in {"and", "or"}
    <3>1. g[t.left] = h[t.left] /\ g[t.right] = h[t.right]
      BY <2>3, <1>2, OpIs
    <3> QED BY <3>1, <2>3 DEF MatchStep
  <2> QED BY <2>1, <2>2, <2>3, OpIs
<1>3. PICK step : step = [a \in Exprs \X H |-> MatchStep(a[1], a[2])]
  OBVIOUS
<1>4. \A t \in Exprs, h \in H : step[<<t, h>>] = MatchStep(t, h)
  BY <1>3
<1>5. \E f \in H : \A t \in Exprs : f[t] = step[<<t, f>>]
  <2>1. {} \in V
    OBVIOUS
  <2> HIDE DEF V
  <2>2. step \in [Exprs \X [Exprs -> V] -> V]
    <3>1. \A a \in Exprs \X H : MatchStep(a[1], a[2]) \in V
      BY <1>1
    <3> QED BY <1>3, <3>1
  <2>3. \A t \in Exprs, g \in [Exprs -> V], h \in [Exprs -> V] :
          (\A p \in PartsOf(t) : g[p] = h[p]) => step[<<t, g>>] = step[<<t, h>>]
    BY <1>2, <1>4
  <2>4. FromParts(V, step)
    BY <2>2, <2>3 DEF FromParts
  <2>5. \E f \in [Exprs -> V] : \A t \in Exprs : f[t] = step[<<t, f>>]
    BY <2>1, <2>4, ExprRecursion
  <2> QED BY <2>5
<1>6. PICK f \in H : \A t \in Exprs : f[t] = MatchStep(t, f)
  BY <1>4, <1>5
<1>7. Does(f)
  <2>1. f = [t \in Exprs |-> f[t]]
    OBVIOUS
  <2>2. f = [t \in Exprs |-> MatchStep(t, f)]
    BY <1>6, <2>1
  <2> QED BY <2>2 DEF MatchStep
<1>8. Does(Matches)
  <2>1. Matches = CHOOSE g : Does(g)
    BY DEF Matches
  <2> HIDE DEF Does
  <2> QED BY <1>7, <2>1
<1>9. PICK g : g = Matches
  OBVIOUS
<1>10. g = [t \in Exprs |-> MatchStep(t, g)]
  BY <1>8, <1>9 DEF MatchStep
<1>11. \A t \in Exprs : g[t] = MatchStep(t, g)
  BY <1>10
<1> QED BY <1>9, <1>11

\* Whether an expression is sensible, from whether its parts are.
SenseStep(t, f) ==
  IF t.op = "leaf" THEN TRUE
  ELSE IF t.op = "not" THEN FALSE
  ELSE IF t.op = "or" THEN f[t.left] /\ f[t.right]
  ELSE \/ f[t.left] /\ (f[t.right] \/ Excludes(t.right))
       \/ Excludes(t.left) /\ f[t.right]

\* Whether an expression is sensible is that step.
LEMMA SenseIs == \A t \in Exprs : Sensible[t] = SenseStep(t, Sensible)
<1> DEFINE V == BOOLEAN
           H == [Exprs -> V]
           Does(f) == f = [t \in Exprs |->
             IF t.op = "leaf" THEN TRUE
             ELSE IF t.op = "not" THEN FALSE
             ELSE IF t.op = "or" THEN f[t.left] /\ f[t.right]
             ELSE \/ f[t.left] /\ (f[t.right] \/ Excludes(t.right))
                  \/ Excludes(t.left) /\ f[t.right]]
<1>1. ASSUME NEW t \in Exprs, NEW h \in H PROVE SenseStep(t, h) \in V
  <2>1. CASE t.op = "leaf"
    <3>1. t.docs \in SUBSET SDocs
      BY <2>1, OpIs
    <3> QED BY <3>1, <2>1 DEF SenseStep
  <2>2. CASE t.op = "not"
    <3>1. h[t.of] \in V
      BY <2>2, OpIs
    <3> QED BY <3>1, <2>2 DEF SenseStep
  <2>3. CASE t.op \in {"and", "or"}
    <3>1. h[t.left] \in V /\ h[t.right] \in V
      BY <2>3, OpIs
    <3> QED BY <3>1, <2>3 DEF SenseStep
  <2> QED BY <2>1, <2>2, <2>3, OpIs
<1>2. ASSUME NEW t \in Exprs, NEW g, NEW h, \A p \in PartsOf(t) : g[p] = h[p] PROVE SenseStep(t, g) = SenseStep(t, h)
  <2>1. CASE t.op = "leaf"
    BY <2>1 DEF SenseStep
  <2>2. CASE t.op = "not"
    <3>1. g[t.of] = h[t.of]
      BY <2>2, <1>2, OpIs
    <3> QED BY <3>1, <2>2 DEF SenseStep
  <2>3. CASE t.op \in {"and", "or"}
    <3>1. g[t.left] = h[t.left] /\ g[t.right] = h[t.right]
      BY <2>3, <1>2, OpIs
    <3> QED BY <3>1, <2>3 DEF SenseStep
  <2> QED BY <2>1, <2>2, <2>3, OpIs
<1>3. PICK step : step = [a \in Exprs \X H |-> SenseStep(a[1], a[2])]
  OBVIOUS
<1>4. \A t \in Exprs, h \in H : step[<<t, h>>] = SenseStep(t, h)
  BY <1>3
<1>5. \E f \in H : \A t \in Exprs : f[t] = step[<<t, f>>]
  <2>1. PICK v : v \in V
    OBVIOUS
  <2> HIDE DEF V
  <2>2. step \in [Exprs \X [Exprs -> V] -> V]
    <3>1. \A a \in Exprs \X H : SenseStep(a[1], a[2]) \in V
      BY <1>1
    <3> QED BY <1>3, <3>1
  <2>3. \A t \in Exprs, g \in [Exprs -> V], h \in [Exprs -> V] :
          (\A p \in PartsOf(t) : g[p] = h[p]) => step[<<t, g>>] = step[<<t, h>>]
    BY <1>2, <1>4
  <2>4. FromParts(V, step)
    BY <2>2, <2>3 DEF FromParts
  <2>5. \E f \in [Exprs -> V] : \A t \in Exprs : f[t] = step[<<t, f>>]
    BY <2>1, <2>4, ExprRecursion
  <2> QED BY <2>5
<1>6. PICK f \in H : \A t \in Exprs : f[t] = SenseStep(t, f)
  BY <1>4, <1>5
<1>7. Does(f)
  <2>1. f = [t \in Exprs |-> f[t]]
    OBVIOUS
  <2>2. f = [t \in Exprs |-> SenseStep(t, f)]
    BY <1>6, <2>1
  <2> QED BY <2>2 DEF SenseStep
<1>8. Does(Sensible)
  <2>1. Sensible = CHOOSE g : Does(g)
    BY DEF Sensible
  <2> HIDE DEF Does
  <2> QED BY <1>7, <2>1
<1>9. PICK g : g = Sensible
  OBVIOUS
<1>10. g = [t \in Exprs |-> SenseStep(t, g)]
  BY <1>8, <1>9 DEF SenseStep
<1>11. \A t \in Exprs : g[t] = SenseStep(t, g)
  BY <1>10
<1> QED BY <1>9, <1>11

\* What an evaluation leaves for an expression, and for an exclusion: maps without the mark, and
\* maps that all bear it.
Unmarked(m, S) == DOMAIN m = S /\ IsNegated(m) = {FALSE} /\ \A d \in DOMAIN m : m[d] = FALSE
Marked(m, S) == DOMAIN m = S /\ IsNegated(m) = {TRUE}

\* The maps of a search and of an exclusion are marked so.
LEMMA MarksAre ==
  /\ \A S : Unmarked([d \in S |-> FALSE], S)
  /\ \A S : S # {} => Marked([d \in S |-> TRUE], S)
  /\ \A m, S : DOMAIN m = S /\ (\A d \in DOMAIN m : m[d] = FALSE) => Unmarked(m, S)
<1>1. \A m, S : DOMAIN m = S /\ (\A d \in DOMAIN m : m[d] = FALSE) => Unmarked(m, S)
  <2> SUFFICES ASSUME NEW m, NEW S, DOMAIN m = S, \A d \in DOMAIN m : m[d] = FALSE
               PROVE  IsNegated(m) = {FALSE}
    BY DEF Unmarked
  <2>1. CASE DOMAIN m = {}
    BY <2>1 DEF IsNegated
  <2>2. CASE DOMAIN m # {}
    <3>1. {m[d] : d \in DOMAIN m} = {FALSE}
      BY <2>2
    <3> QED BY <3>1, <2>2 DEF IsNegated
  <2> QED BY <2>1, <2>2
<1>2. \A S : Unmarked([d \in S |-> FALSE], S)
  <2> SUFFICES ASSUME NEW S PROVE Unmarked([d \in S |-> FALSE], S)
    OBVIOUS
  <2>1. PICK m : m = [d \in S |-> FALSE]
    OBVIOUS
  <2>2. DOMAIN m = S /\ \A d \in DOMAIN m : m[d] = FALSE
    BY <2>1
  <2> QED BY <2>1, <2>2, <1>1
<1>3. \A S : S # {} => Marked([d \in S |-> TRUE], S)
  <2> SUFFICES ASSUME NEW S, S # {} PROVE Marked([d \in S |-> TRUE], S)
    OBVIOUS
  <2>1. PICK m : m = [d \in S |-> TRUE]
    OBVIOUS
  <2>2. DOMAIN m = S /\ \A d \in DOMAIN m : m[d] = TRUE
    BY <2>1
  <2>3. {m[d] : d \in DOMAIN m} = {TRUE}
    BY <2>2
  <2>4. IsNegated(m) = {TRUE}
    BY <2>2, <2>3 DEF IsNegated
  <2> QED BY <2>1, <2>2, <2>4 DEF Marked
<1> QED BY <1>1, <1>2, <1>3

\* What the two ways to combine do with maps that bear the mark or do not.
LEMMA MarksMeet ==
  ASSUME NEW l, NEW r, NEW S, NEW R
  PROVE  /\ Unmarked(l, S) /\ Unmarked(r, R) => \A m \in Intersect(l, r) : Unmarked(m, S \cap R)
         /\ Unmarked(l, S) /\ Marked(r, R) => \A m \in Intersect(l, r) : Unmarked(m, S \ R)
         /\ Marked(l, S) /\ Unmarked(r, R) => \A m \in Intersect(l, r) : Unmarked(m, R \ S)
         /\ Unmarked(l, S) /\ Unmarked(r, R) => Unmarked(Merge(l, r), S \cup R)
<1>1. ASSUME Unmarked(l, S), Unmarked(r, R) PROVE \A m \in Intersect(l, r) : Unmarked(m, S \cap R)
  <2>1. PICK m : m = [d \in DOMAIN l \cap DOMAIN r |-> l[d]]
    OBVIOUS
  <2>2. Intersect(l, r) = {m}
    BY <1>1, <2>1 DEF Intersect, Unmarked
  <2>3. DOMAIN m = S \cap R /\ \A d \in DOMAIN m : m[d] = FALSE
    BY <1>1, <2>1 DEF Unmarked
  <2> QED BY <2>2, <2>3, MarksAre
<1>2. \A k, n, K, N : Unmarked(k, K) /\ Marked(n, N) => Unmarked(Subtract(k, n), K \ N)
  <2> SUFFICES ASSUME NEW k, NEW n, NEW K, NEW N, Unmarked(k, K), Marked(n, N)
               PROVE  Unmarked(Subtract(k, n), K \ N)
    OBVIOUS
  <2>1. PICK m : m = Subtract(k, n)
    OBVIOUS
  <2>2. DOMAIN m = K \ N /\ \A d \in DOMAIN m : m[d] = FALSE
    BY <2>1 DEF Subtract, Unmarked, Marked
  <2> QED BY <2>1, <2>2, MarksAre
<1>3. ASSUME Unmarked(l, S), Marked(r, R) PROVE \A m \in Intersect(l, r) : Unmarked(m, S \ R)
  <2>1. Intersect(l, r) = {Subtract(l, r)}
    BY <1>3 DEF Intersect, Unmarked, Marked
  <2> QED BY <1>2, <1>3, <2>1
<1>4. ASSUME Marked(l, S), Unmarked(r, R) PROVE \A m \in Intersect(l, r) : Unmarked(m, R \ S)
  <2>1. Intersect(l, r) = {Subtract(r, l)}
    BY <1>4 DEF Intersect, Unmarked, Marked
  <2> QED BY <1>2, <1>4, <2>1
<1>5. ASSUME Unmarked(l, S), Unmarked(r, R) PROVE Unmarked(Merge(l, r), S \cup R)
  <2>1. PICK m : m = Merge(l, r)
    OBVIOUS
  <2>2. DOMAIN m = S \cup R /\ \A d \in DOMAIN m : m[d] = FALSE
    BY <1>5, <2>1 DEF Merge, Unmarked
  <2> QED BY <2>1, <2>2, MarksAre
<1> QED BY <1>1, <1>3, <1>4, <1>5

\* An exclusion evaluates to one map, all of it marked, and takes away what it names.
LEMMA ExclusionIs ==
  ASSUME NEW t \in Exprs, Excludes(t)
  PROVE  /\ t.of.docs \in SUBSET SDocs /\ Matches[t] = SDocs \ t.of.docs
         /\ \A m \in EvalExpr[t] : Marked(m, t.of.docs)
<1>1. t.op = "not" /\ t.of.op = "leaf" /\ t.of.docs # {}
  BY DEF Excludes
<1>2. t.of \in Exprs /\ t.of.docs \in SUBSET SDocs
  BY <1>1, OpIs
<1>3. Matches[t.of] = t.of.docs
  <2>1. Matches[t.of] = MatchStep(t.of, Matches)
    BY <1>2, MatchIs
  <2> QED BY <2>1, <1>1 DEF MatchStep
<1>4. Matches[t] = SDocs \ t.of.docs
  <2>1. Matches[t] = MatchStep(t, Matches)
    BY MatchIs
  <2> QED BY <2>1, <1>1, <1>3 DEF MatchStep
<1>5. EvalExpr[t.of] = {ResultsToMap(t.of.docs)}
  <2>1. EvalExpr[t.of] = EvalStep(t.of, EvalExpr)
    BY <1>2, EvalIs
  <2> QED BY <2>1, <1>1, EvalSteps
<1>6. EvalExpr[t] = {[d \in t.of.docs |-> TRUE]}
  <2>1. EvalExpr[t] = NegateScores(EvalExpr[t.of])
    <3>1. EvalExpr[t] = EvalStep(t, EvalExpr)
      BY EvalIs
    <3> QED BY <3>1, <1>1, EvalSteps
  <2>2. DOMAIN ResultsToMap(t.of.docs) = t.of.docs
    BY DEF ResultsToMap
  <2> QED BY <2>1, <2>2, <1>5 DEF NegateScores
<1>7. Marked([d \in t.of.docs |-> TRUE], t.of.docs)
  BY <1>1, MarksAre
<1> QED BY <1>2, <1>4, <1>6, <1>7

\* Every expression in which NOT is taken from something and excludes something evaluates to maps
\* of just what it means, whichever entry isNegated looks at on the way (evalExpr).
LEMMA ExprIsExact == \A t \in Exprs : Sensible[t] => \A m \in EvalExpr[t] : Unmarked(m, Matches[t])
<1> DEFINE G == {t \in Exprs : Sensible[t] => \A m \in EvalExpr[t] : Unmarked(m, Matches[t])}
<1>1. \A t \in Exprs : Matches[t] \in SUBSET SDocs
  <2> DEFINE K == {t \in Exprs : Matches[t] \in SUBSET SDocs}
  <2>1. ASSUME NEW t \in Exprs, PartsOf(t) \subseteq K PROVE t \in K
    <3>1. Matches[t] = MatchStep(t, Matches)
      BY MatchIs
    <3>2. CASE t.op = "leaf"
      BY <3>1, <3>2, OpIs DEF MatchStep
    <3>3. CASE t.op = "not"
      BY <3>1, <3>3 DEF MatchStep
    <3>4. CASE t.op \in {"and", "or"}
      <4>1. Matches[t.left] \in SUBSET SDocs /\ Matches[t.right] \in SUBSET SDocs
        BY <2>1, <3>4, OpIs
      <4> QED BY <4>1, <3>1, <3>4 DEF MatchStep
    <3> QED BY <3>2, <3>3, <3>4, OpIs
  <2> HIDE DEF K
  <2>2. \A t \in Exprs : t \in K
    BY <2>1, ByParts
  <2> QED BY <2>2 DEF K
<1>2. ASSUME NEW t \in Exprs, PartsOf(t) \subseteq G, Sensible[t], NEW m \in EvalExpr[t]
      PROVE  Unmarked(m, Matches[t])
  <2>1. /\ Matches[t] = MatchStep(t, Matches)
        /\ EvalExpr[t] = EvalStep(t, EvalExpr)
        /\ SenseStep(t, Sensible)
    <3>1. Sensible[t] = SenseStep(t, Sensible)
      BY SenseIs
    <3>2. SenseStep(t, Sensible)
      BY <1>2, <3>1
    <3> QED BY <3>2, MatchIs, EvalIs
  <2>2. CASE t.op = "leaf"
    <3>1. m = ResultsToMap(t.docs)
      BY <2>1, <2>2, <1>2, EvalSteps
    <3>2. Matches[t] = t.docs
      BY <2>1, <2>2 DEF MatchStep
    <3> QED BY <3>1, <3>2, MarksAre DEF ResultsToMap
  <2>3. CASE t.op = "not"
    BY <2>1, <2>3 DEF SenseStep
  <2>4. CASE t.op = "or"
    <3>1. t.left \in Exprs /\ t.right \in Exprs /\ t.left \in G /\ t.right \in G
      BY <1>2, <2>4, OpIs
    <3>2. Sensible[t.left] /\ Sensible[t.right]
      BY <2>1, <2>4 DEF SenseStep
    <3>3. m \in UnionScores(EvalExpr[t.left], EvalExpr[t.right])
      BY <2>1, <2>4, <1>2, EvalSteps
    <3>4. PICK l \in EvalExpr[t.left], r \in EvalExpr[t.right] : m = Merge(l, r)
      BY <3>3 DEF UnionScores
    <3>5. Unmarked(l, Matches[t.left]) /\ Unmarked(r, Matches[t.right])
      BY <3>1, <3>2
    <3>6. Matches[t] = Matches[t.left] \cup Matches[t.right]
      BY <2>1, <2>4 DEF MatchStep
    <3>7. Unmarked(Merge(l, r), Matches[t.left] \cup Matches[t.right])
      BY <3>5, MarksMeet
    <3> QED BY <3>4, <3>6, <3>7
  <2>5. CASE t.op = "and"
    <3>1. t.left \in Exprs /\ t.right \in Exprs /\ t.left \in G /\ t.right \in G
      BY <1>2, <2>5, OpIs
    <3>2. \/ Sensible[t.left] /\ (Sensible[t.right] \/ Excludes(t.right))
          \/ Excludes(t.left) /\ Sensible[t.right]
      BY <2>1, <2>5 DEF SenseStep
    <3>3. m \in IntersectScores(EvalExpr[t.left], EvalExpr[t.right])
      BY <2>1, <2>5, <1>2, EvalSteps
    <3>4. PICK l \in EvalExpr[t.left], r \in EvalExpr[t.right] : m \in Intersect(l, r)
      BY <3>3 DEF IntersectScores
    <3>5. Matches[t] = Matches[t.left] \cap Matches[t.right]
      BY <2>1, <2>5 DEF MatchStep
    <3>6. /\ Sensible[t.left] => Unmarked(l, Matches[t.left])
          /\ Sensible[t.right] => Unmarked(r, Matches[t.right])
      BY <3>1, <3>4
    <3>7. CASE Sensible[t.left] /\ Sensible[t.right]
      <4>1. Unmarked(l, Matches[t.left]) /\ Unmarked(r, Matches[t.right])
        BY <3>6, <3>7
      <4>2. Unmarked(m, Matches[t.left] \cap Matches[t.right])
        BY <3>4, <4>1, MarksMeet
      <4> QED BY <3>5, <4>2
    <3>8. CASE Sensible[t.left] /\ Excludes(t.right)
      <4> DEFINE D == t.right.of.docs
      <4>1. D \in SUBSET SDocs /\ Matches[t.right] = SDocs \ D /\ Marked(r, D)
        BY <3>1, <3>4, <3>8, ExclusionIs
      <4>2. Unmarked(m, Matches[t.left] \ D)
        BY <3>4, <3>6, <3>8, <4>1, MarksMeet
      <4>3. Matches[t.left] \ D = Matches[t]
        BY <1>1, <3>1, <3>5, <4>1
      <4> QED BY <4>2, <4>3
    <3>9. CASE Excludes(t.left) /\ Sensible[t.right]
      <4> DEFINE D == t.left.of.docs
      <4>1. D \in SUBSET SDocs /\ Matches[t.left] = SDocs \ D /\ Marked(l, D)
        BY <3>1, <3>4, <3>9, ExclusionIs
      <4>2. Unmarked(m, Matches[t.right] \ D)
        BY <3>4, <3>6, <3>9, <4>1, MarksMeet
      <4>3. Matches[t.right] \ D = Matches[t]
        BY <1>1, <3>1, <3>5, <4>1
      <4> QED BY <4>2, <4>3
    <3> QED BY <3>2, <3>7, <3>8, <3>9
  <2> QED BY <2>2, <2>3, <2>4, <2>5, OpIs
<1>3. ASSUME NEW t \in Exprs, PartsOf(t) \subseteq G PROVE t \in G
  BY <1>2, <1>3
<1> HIDE DEF G
<1>4. \A t \in Exprs : t \in G
  BY <1>3, ByParts
<1> QED BY <1>4 DEF G

-----------------------------------------------------------------------------
(* Edit distance. *)

\* The least of three numbers.
LEMMA LeastOfThree ==
  ASSUME NEW a \in Nat, NEW b \in Nat, NEW c \in Nat
  PROVE  /\ Least({a, b, c}) \in Nat
         /\ Least({a, b, c}) <= a /\ Least({a, b, c}) <= b /\ Least({a, b, c}) <= c
         /\ Least({a, b, c}) = a \/ Least({a, b, c}) = b \/ Least({a, b, c}) = c
<1>1. {a, b, c} \in SUBSET Nat /\ {a, b, c} # {}
  OBVIOUS
<1>2. Least({a, b, c}) \in {a, b, c} /\ \A n \in {a, b, c} : Least({a, b, c}) <= n
  BY <1>1, LeastIs
<1> QED BY <1>2

\* A row of the table of an edit distance, from the one before it, its first entry, and what
\* each letter costs to change.
RowOf(m, prev, c, w, row) ==
  /\ row \in [0..m -> Nat] /\ row[0] = c
  /\ \A i \in 1..m : row[i] = Least({prev[i] + 1, row[i - 1] + 1, prev[i - 1] + w[i]})

\* There is such a row.
LEMMA RowExists ==
  ASSUME NEW m \in Nat, NEW prev \in [0..m -> Nat], NEW c \in Nat, NEW w \in [1..m -> Nat]
  PROVE  \E row : RowOf(m, prev, c, w, row)
<1>1. \A i \in 1..m, k \in Nat : Least({prev[i] + 1, k + 1, prev[i - 1] + w[i]}) \in Nat
  <2> SUFFICES ASSUME NEW i \in 1..m, NEW k \in Nat
               PROVE  Least({prev[i] + 1, k + 1, prev[i - 1] + w[i]}) \in Nat
    OBVIOUS
  <2>1. i \in 0..m /\ i - 1 \in 0..m
    OBVIOUS
  <2>2. prev[i] + 1 \in Nat /\ k + 1 \in Nat /\ prev[i - 1] + w[i] \in Nat
    BY <2>1
  <2> QED BY <2>2, LeastOfThree
<1>2. PICK step : step = [p \in (1..m) \X Nat |-> Least({prev[p[1]] + 1, p[2] + 1, prev[p[1] - 1] + w[p[1]]})]
  OBVIOUS
<1>3. \A i \in 1..m, k \in Nat : step[<<i, k>>] = Least({prev[i] + 1, k + 1, prev[i - 1] + w[i]})
  BY <1>2
<1>4. step \in [(1..m) \X Nat -> Nat]
  BY <1>1, <1>2
<1>5. PICK row : Iterated(m, Nat, c, step, row)
  BY <1>4, Iterates
<1>6. row \in [0..m -> Nat] /\ row[0] = c /\ \A i \in 1..m : row[i] = step[<<i, row[i - 1]>>]
  BY <1>5 DEF Iterated
<1>7. \A i \in 1..m : row[i - 1] \in Nat
  <2>1. \A i \in 1..m : i - 1 \in 0..m
    OBVIOUS
  <2> QED BY <1>6, <2>1
<1>8. \A i \in 1..m : row[i] = Least({prev[i] + 1, row[i - 1] + 1, prev[i - 1] + w[i]})
  BY <1>3, <1>6, <1>7
<1> QED BY <1>6, <1>8 DEF RowOf

\* The table: how far the first i letters of a word are from the first j of another.
TableOf(m, n, w, table) ==
  /\ table \in [(0..m) \X (0..n) -> Nat]
  /\ \A i \in 0..m : table[<<i, 0>>] = i
  /\ \A j \in 0..n : table[<<0, j>>] = j
  /\ \A i \in 1..m, j \in 1..n :
       table[<<i, j>>] = Least({table[<<i, j - 1>>] + 1, table[<<i - 1, j>>] + 1,
                                table[<<i - 1, j - 1>>] + w[<<i, j>>]})

\* Rows, each from the one before it, are the table.
RowsOf(m, n, w, rows) ==
  /\ rows[0] = [i \in 0..m |-> i]
  /\ \A j \in 1..n : RowOf(m, rows[j - 1], j, [i \in 1..m |-> w[<<i, j>>]], rows[j])

FilledBy(m, n, w, rows) ==
  \E table : TableOf(m, n, w, table) /\ \A i \in 0..m, j \in 0..n : table[<<i, j>>] = rows[j][i]

\* Rows made one from the other fill a table.
LEMMA RowsAreTable ==
  ASSUME NEW m \in Nat, NEW n \in Nat, NEW w \in [(1..m) \X (1..n) -> Nat], NEW rows, RowsOf(m, n, w, rows)
  PROVE  FilledBy(m, n, w, rows)
<1> USE DEF RowsOf
<1>1. \A j \in 0..n : rows[j] \in [0..m -> Nat] /\ rows[j][0] = j
  <2>1. rows[0] \in [0..m -> Nat] /\ rows[0][0] = 0
    <3>1. PICK r : r = rows[0]
      OBVIOUS
    <3>2. r = [i \in 0..m |-> i]
      BY <3>1
    <3>3. r \in [0..m -> Nat] /\ r[0] = 0
      BY <3>2
    <3> QED BY <3>1, <3>3
  <2>2. \A j \in 1..n : rows[j] \in [0..m -> Nat] /\ rows[j][0] = j
    BY DEF RowOf
  <2>3. \A j \in 0..n : j = 0 \/ j \in 1..n
    OBVIOUS
  <2> QED BY <2>1, <2>2, <2>3
<1>2. PICK table : table = [p \in (0..m) \X (0..n) |-> rows[p[2]][p[1]]]
  OBVIOUS
<1>3. \A i \in 0..m, j \in 0..n : table[<<i, j>>] = rows[j][i]
  BY <1>2
<1>4. table \in [(0..m) \X (0..n) -> Nat]
  <2>1. \A p \in (0..m) \X (0..n) : rows[p[2]][p[1]] \in Nat
    BY <1>1
  <2> QED BY <1>2, <2>1
<1>5. \A i \in 0..m : table[<<i, 0>>] = i
  <2>1. \A i \in 0..m : rows[0][i] = i
    <3>1. PICK r : r = rows[0]
      OBVIOUS
    <3>2. r = [i \in 0..m |-> i]
      BY <3>1
    <3> QED BY <3>1, <3>2
  <2>2. 0 \in 0..n
    OBVIOUS
  <2> QED BY <1>3, <2>1, <2>2
<1>6. \A j \in 0..n : table[<<0, j>>] = j
  <2>1. 0 \in 0..m
    OBVIOUS
  <2> QED BY <1>1, <1>3, <2>1
<1>7. ASSUME NEW i \in 1..m, NEW j \in 1..n
      PROVE  table[<<i, j>>] = Least({table[<<i, j - 1>>] + 1, table[<<i - 1, j>>] + 1,
                                      table[<<i - 1, j - 1>>] + w[<<i, j>>]})
  <2>1. PICK u : u = [k \in 1..m |-> w[<<k, j>>]]
    OBVIOUS
  <2>2. rows[j][i] = Least({rows[j - 1][i] + 1, rows[j][i - 1] + 1, rows[j - 1][i - 1] + u[i]})
    BY <2>1 DEF RowOf
  <2>3. u[i] = w[<<i, j>>]
    BY <2>1
  <2>4. i \in 0..m /\ i - 1 \in 0..m /\ j \in 0..n /\ j - 1 \in 0..n
    OBVIOUS
  <2> QED BY <1>3, <2>2, <2>3, <2>4
<1>8. TableOf(m, n, w, table)
  BY <1>4, <1>5, <1>6, <1>7 DEF TableOf
<1> QED BY <1>3, <1>8 DEF FilledBy

\* There is a table for all costs.
LEMMA TableExists ==
  ASSUME NEW m \in Nat, NEW n \in Nat, NEW w \in [(1..m) \X (1..n) -> Nat]
  PROVE  \E table : TableOf(m, n, w, table)
<1> DEFINE R == [0..m -> Nat]
           costs(j) == [i \in 1..m |-> w[<<i, j>>]]
<1>1. \A j \in 1..n, prev \in R : \E row : RowOf(m, prev, j, costs(j), row)
  <2> SUFFICES ASSUME NEW j \in 1..n, NEW prev \in R PROVE \E row : RowOf(m, prev, j, costs(j), row)
    OBVIOUS
  <2>1. costs(j) \in [1..m -> Nat]
    OBVIOUS
  <2>2. j \in Nat
    OBVIOUS
  <2> HIDE DEF costs
  <2> QED BY <2>1, <2>2, RowExists
<1>2. \A j, prev, row : RowOf(m, prev, j, costs(j), row) => row \in R
  BY DEF RowOf
<1> HIDE DEF costs
<1>3. PICK step : step = [p \in (1..n) \X R |-> CHOOSE row : RowOf(m, p[2], p[1], costs(p[1]), row)]
  OBVIOUS
<1>4. \A j \in 1..n, prev \in R : step[<<j, prev>>] \in R /\ RowOf(m, prev, j, costs(j), step[<<j, prev>>])
  <2> SUFFICES ASSUME NEW j \in 1..n, NEW prev \in R
               PROVE  step[<<j, prev>>] \in R /\ RowOf(m, prev, j, costs(j), step[<<j, prev>>])
    OBVIOUS
  <2>1. step[<<j, prev>>] = CHOOSE row : RowOf(m, prev, j, costs(j), row)
    BY <1>3
  <2>2. \E row : RowOf(m, prev, j, costs(j), row)
    BY <1>1
  <2>3. RowOf(m, prev, j, costs(j), step[<<j, prev>>])
    BY <2>1, <2>2
  <2> QED BY <2>3, <1>2
<1>5. step \in [(1..n) \X R -> R]
  <2>1. \A p \in (1..n) \X R : step[p] \in R
    <3>1. \A p \in (1..n) \X R : p[1] \in 1..n /\ p[2] \in R /\ p = <<p[1], p[2]>>
      OBVIOUS
    <3> HIDE DEF R
    <3> QED BY <1>4, <3>1
  <2>2. step = [p \in (1..n) \X R |-> step[p]]
    BY <1>3
  <2> QED BY <2>1, <2>2
<1>6. PICK first : first = [i \in 0..m |-> i] /\ first \in R
  <2>1. [i \in 0..m |-> i] \in R
    OBVIOUS
  <2> QED BY <2>1
<1> HIDE DEF R
<1>7. PICK rows : Iterated(n, R, first, step, rows)
  BY <1>5, <1>6, Iterates
<1>8. rows[0] = [i \in 0..m |-> i]
  BY <1>6, <1>7 DEF Iterated
<1>9. ASSUME NEW j \in 1..n PROVE RowOf(m, rows[j - 1], j, [i \in 1..m |-> w[<<i, j>>]], rows[j])
  <2>1. j - 1 \in 0..n
    OBVIOUS
  <2>2. rows[j - 1] \in R /\ rows[j] = step[<<j, rows[j - 1]>>]
    BY <1>7, <2>1 DEF Iterated
  <2>3. RowOf(m, rows[j - 1], j, costs(j), rows[j])
    BY <2>2, <1>4
  <2> QED BY <2>3 DEF costs
<1>10. RowsOf(m, n, w, rows)
  BY <1>8, <1>9 DEF RowsOf
<1>11. FilledBy(m, n, w, rows)
  BY <1>10, RowsAreTable
<1> QED BY <1>11 DEF FilledBy

\* From one entry of the table to the next.
Stepwise(m, n, w, P) ==
  /\ \A i \in 0..m, j \in 1..n : P[<<i, j>>] <= P[<<i, j - 1>>] + 1
  /\ \A i \in 1..m, j \in 0..n : P[<<i, j>>] <= P[<<i - 1, j>>] + 1
  /\ \A i \in 1..m, j \in 1..n :
       /\ P[<<i, j>>] <= P[<<i - 1, j - 1>>] + w[<<i, j>>]
       /\ \/ P[<<i, j>>] = P[<<i, j - 1>>] + 1
          \/ P[<<i, j>>] = P[<<i - 1, j>>] + 1
          \/ P[<<i, j>>] = P[<<i - 1, j - 1>>] + w[<<i, j>>]

\* Neighbours in a table differ by a step.
LEMMA TableSteps ==
  ASSUME NEW m \in Nat, NEW n \in Nat, NEW w \in [(1..m) \X (1..n) -> Nat], NEW P, TableOf(m, n, w, P)
  PROVE  Stepwise(m, n, w, P)
<1>1. \A i \in 0..m, j \in 0..n : P[<<i, j>>] \in Nat
  BY DEF TableOf
<1>2. /\ \A i \in 0..m : P[<<i, 0>>] = i
      /\ \A j \in 0..n : P[<<0, j>>] = j
  BY DEF TableOf
<1>3. ASSUME NEW i \in 1..m, NEW j \in 1..n
      PROVE  /\ P[<<i, j>>] <= P[<<i, j - 1>>] + 1
             /\ P[<<i, j>>] <= P[<<i - 1, j>>] + 1
             /\ P[<<i, j>>] <= P[<<i - 1, j - 1>>] + w[<<i, j>>]
             /\ \/ P[<<i, j>>] = P[<<i, j - 1>>] + 1
                \/ P[<<i, j>>] = P[<<i - 1, j>>] + 1
                \/ P[<<i, j>>] = P[<<i - 1, j - 1>>] + w[<<i, j>>]
  <2> DEFINE a == P[<<i, j - 1>>] + 1
             b == P[<<i - 1, j>>] + 1
             c == P[<<i - 1, j - 1>>] + w[<<i, j>>]
  <2>1. i \in 0..m /\ i - 1 \in 0..m /\ j \in 0..n /\ j - 1 \in 0..n
    OBVIOUS
  <2>2. w[<<i, j>>] \in Nat
    OBVIOUS
  <2>3. a \in Nat /\ b \in Nat /\ c \in Nat
    BY <1>1, <2>1, <2>2
  <2>4. P[<<i, j>>] = Least({a, b, c})
    BY DEF TableOf
  <2> HIDE DEF a, b, c
  <2>5. P[<<i, j>>] <= a /\ P[<<i, j>>] <= b /\ P[<<i, j>>] <= c /\ (P[<<i, j>>] = a \/ P[<<i, j>>] = b \/ P[<<i, j>>] = c)
    BY <2>3, <2>4, LeastOfThree
  <2> QED BY <2>5 DEF a, b, c
<1>4. ASSUME NEW i \in 0..m, NEW j \in 1..n PROVE P[<<i, j>>] <= P[<<i, j - 1>>] + 1
  <2>1. CASE i = 0
    <3>1. j \in 0..n /\ j - 1 \in 0..n
      OBVIOUS
    <3>2. P[<<0, j>>] = j /\ P[<<0, j - 1>>] = j - 1
      BY <1>2, <3>1
    <3> QED BY <2>1, <3>2
  <2>2. CASE i # 0
    <3>1. i \in 1..m
      BY <2>2
    <3> QED BY <3>1, <1>3
  <2> QED BY <2>1, <2>2
<1>5. ASSUME NEW i \in 1..m, NEW j \in 0..n PROVE P[<<i, j>>] <= P[<<i - 1, j>>] + 1
  <2>1. CASE j = 0
    <3>1. i \in 0..m /\ i - 1 \in 0..m
      OBVIOUS
    <3>2. P[<<i, 0>>] = i /\ P[<<i - 1, 0>>] = i - 1
      BY <1>2, <3>1
    <3> QED BY <2>1, <3>2
  <2>2. CASE j # 0
    <3>1. j \in 1..n
      BY <2>2
    <3> QED BY <3>1, <1>3
  <2> QED BY <2>1, <2>2
<1> QED BY <1>3, <1>4, <1>5 DEF Stepwise

\* The costs of two words read from the end, and the table of the words from the front is
\* nowhere above that of the words from the end: what is done is done to the front, what is
\* left to the end.
Reversed(m, n, w, v) == \A i \in 1..m, j \in 1..n : v[<<i, j>>] = w[<<m + 1 - i, n + 1 - j>>]

\* The distance from the front is no longer than the one from the end.
LEMMA NoLonger ==
  ASSUME NEW m \in Nat, NEW n \in Nat,
         NEW w \in [(1..m) \X (1..n) -> Nat], NEW v \in [(1..m) \X (1..n) -> Nat], Reversed(m, n, w, v),
         NEW P, TableOf(m, n, w, P), NEW Q, TableOf(m, n, v, Q)
  PROVE  P[<<m, n>>] <= Q[<<m, n>>]
<1> DEFINE Bound(i, j) == P[<<m, n>>] <= P[<<m - i, n - j>>] + Q[<<i, j>>]
           G == {k \in 0..m + n : \A i \in 0..m, j \in 0..n : i + j <= k => Bound(i, j)}
<1>1. /\ \A i \in 0..m, j \in 0..n : P[<<i, j>>] \in Nat /\ Q[<<i, j>>] \in Nat
      /\ \A i \in 0..m : P[<<i, 0>>] = i /\ Q[<<i, 0>>] = i
      /\ \A j \in 0..n : P[<<0, j>>] = j /\ Q[<<0, j>>] = j
  BY DEF TableOf
<1>2. 0 \in 0..m /\ 0 \in 0..n /\ m \in 0..m /\ n \in 0..n
  OBVIOUS
<1>3. 0 \in G
  <2>1. Bound(0, 0)
    <3>1. Q[<<0, 0>>] = 0 /\ P[<<m, n>>] \in Nat
      BY <1>1, <1>2
    <3>2. m - 0 = m /\ n - 0 = n
      OBVIOUS
    <3> QED BY <3>1, <3>2
  <2>2. \A i \in 0..m, j \in 0..n : i + j <= 0 => i = 0 /\ j = 0
    OBVIOUS
  <2>3. 0 \in 0..m + n
    OBVIOUS
  <2> HIDE DEF Bound
  <2> QED BY <2>1, <2>2, <2>3
<1>4. Stepwise(m, n, w, P) /\ Stepwise(m, n, v, Q)
  BY TableSteps
<1>5. ASSUME NEW k \in 1..m + n, k - 1 \in G PROVE k \in G
  <2> SUFFICES ASSUME NEW i \in 0..m, NEW j \in 0..n, i + j <= k PROVE Bound(i, j)
    <3>1. k \in 0..m + n
      OBVIOUS
    <3> HIDE DEF Bound
    <3> QED BY <3>1
  <2>1. \A g \in 0..m, h \in 0..n : g + h <= k - 1 => Bound(g, h)
    BY <1>5
  <2> HIDE DEF G
  <2>2. CASE j \in 1..n /\ Q[<<i, j>>] = Q[<<i, j - 1>>] + 1
    <3>1. j - 1 \in 0..n /\ i + (j - 1) <= k - 1 /\ n - (j - 1) \in 1..n /\ (n - (j - 1)) - 1 = n - j
      BY <2>2
    <3>2. m - i \in 0..m /\ n - j \in 0..n
      OBVIOUS
    <3>3. Bound(i, j - 1)
      BY <2>1, <3>1
    <3>4. P[<<m - i, n - (j - 1)>>] <= P[<<m - i, n - j>>] + 1
      BY <1>4, <3>1, <3>2 DEF Stepwise
    <3>5. /\ P[<<m, n>>] \in Nat /\ P[<<m - i, n - (j - 1)>>] \in Nat /\ P[<<m - i, n - j>>] \in Nat
          /\ Q[<<i, j>>] \in Nat /\ Q[<<i, j - 1>>] \in Nat
      BY <1>1, <1>2, <3>1, <3>2
    <3> QED BY <2>2, <3>3, <3>4, <3>5
  <2>3. CASE i \in 1..m /\ Q[<<i, j>>] = Q[<<i - 1, j>>] + 1
    <3>1. i - 1 \in 0..m /\ (i - 1) + j <= k - 1 /\ m - (i - 1) \in 1..m /\ (m - (i - 1)) - 1 = m - i
      BY <2>3
    <3>2. m - i \in 0..m /\ n - j \in 0..n
      OBVIOUS
    <3>3. Bound(i - 1, j)
      BY <2>1, <3>1
    <3>4. P[<<m - (i - 1), n - j>>] <= P[<<m - i, n - j>>] + 1
      BY <1>4, <3>1, <3>2 DEF Stepwise
    <3>5. /\ P[<<m, n>>] \in Nat /\ P[<<m - (i - 1), n - j>>] \in Nat /\ P[<<m - i, n - j>>] \in Nat
          /\ Q[<<i, j>>] \in Nat /\ Q[<<i - 1, j>>] \in Nat
      BY <1>1, <1>2, <3>1, <3>2
    <3> QED BY <2>3, <3>3, <3>4, <3>5
  <2>4. CASE i \in 1..m /\ j \in 1..n /\ Q[<<i, j>>] = Q[<<i - 1, j - 1>>] + v[<<i, j>>]
    <3>1. i - 1 \in 0..m /\ m - (i - 1) \in 1..m /\ (m - (i - 1)) - 1 = m - i /\ m + 1 - i = m - (i - 1)
      BY <2>4
    <3>2. j - 1 \in 0..n /\ n - (j - 1) \in 1..n /\ (n - (j - 1)) - 1 = n - j /\ n + 1 - j = n - (j - 1)
      BY <2>4
    <3>3. m - i \in 0..m /\ n - j \in 0..n /\ (i - 1) + (j - 1) <= k - 1
      OBVIOUS
    <3>4. Bound(i - 1, j - 1)
      BY <2>1, <3>1, <3>2, <3>3
    <3>5. v[<<i, j>>] = w[<<m - (i - 1), n - (j - 1)>>]
      BY <2>4, <3>1, <3>2 DEF Reversed
    <3>6. P[<<m - (i - 1), n - (j - 1)>>] <= P[<<m - i, n - j>>] + v[<<i, j>>]
      BY <1>4, <3>1, <3>2, <3>5 DEF Stepwise
    <3>7. /\ P[<<m, n>>] \in Nat /\ P[<<m - (i - 1), n - (j - 1)>>] \in Nat /\ P[<<m - i, n - j>>] \in Nat
          /\ Q[<<i, j>>] \in Nat /\ Q[<<i - 1, j - 1>>] \in Nat
      BY <1>1, <1>2, <3>1, <3>2, <3>3
    <3>8. v[<<i, j>>] \in Nat
      BY <2>4
    <3> QED BY <2>4, <3>4, <3>6, <3>7, <3>8
  <2>5. CASE i = 0 /\ j = 0
    <3>1. i + j <= 0
      BY <2>5
    <3> HIDE DEF Bound
    <3> QED BY <1>3, <3>1 DEF G
  <2>6. CASE i = 0 /\ j \in 1..n
    <3>1. j - 1 \in 0..n
      BY <2>6
    <3>2. Q[<<0, j>>] = j /\ Q[<<0, j - 1>>] = j - 1
      BY <1>1, <3>1
    <3>3. Q[<<0, j>>] = Q[<<0, j - 1>>] + 1
      BY <3>2
    <3> HIDE DEF Bound
    <3> QED BY <3>3, <2>2, <2>6
  <2>7. CASE j = 0 /\ i \in 1..m
    <3>1. i - 1 \in 0..m
      BY <2>7
    <3>2. Q[<<i, 0>>] = i /\ Q[<<i - 1, 0>>] = i - 1
      BY <1>1, <3>1
    <3>3. Q[<<i, 0>>] = Q[<<i - 1, 0>>] + 1
      BY <3>2
    <3> HIDE DEF Bound
    <3> QED BY <3>3, <2>3, <2>7
  <2>8. CASE i \in 1..m /\ j \in 1..n
    <3>1. \/ Q[<<i, j>>] = Q[<<i, j - 1>>] + 1
          \/ Q[<<i, j>>] = Q[<<i - 1, j>>] + 1
          \/ Q[<<i, j>>] = Q[<<i - 1, j - 1>>] + v[<<i, j>>]
      BY <2>8, <1>4 DEF Stepwise
    <3> HIDE DEF Bound
    <3> QED BY <3>1, <2>2, <2>3, <2>4, <2>8
  <2>9. (i = 0 /\ j = 0) \/ (i = 0 /\ j \in 1..n) \/ (j = 0 /\ i \in 1..m) \/ (i \in 1..m /\ j \in 1..n)
    OBVIOUS
  <2> HIDE DEF Bound
  <2> QED BY <2>5, <2>6, <2>7, <2>8, <2>9
<1>6. m + n \in G
  <2>1. G \in SUBSET (0..m + n) /\ m + n \in Nat /\ m + n \in 0..m + n
    OBVIOUS
  <2> HIDE DEF G
  <2>2. \A k \in 0..m + n : k \in G
    BY <1>3, <1>5, <2>1, UpToBound
  <2> QED BY <2>1, <2>2
<1>7. Bound(m, n)
  <2>1. m + n <= m + n
    OBVIOUS
  <2> HIDE DEF Bound
  <2> QED BY <1>2, <1>6, <2>1
<1>8. P[<<m - m, n - n>>] = 0
  <2>1. m - m = 0 /\ n - n = 0
    OBVIOUS
  <2> QED BY <1>1, <1>2, <2>1
<1> QED BY <1>1, <1>2, <1>7, <1>8

\* So the two tables end with the same distance.
Weights(m, n) == [(1..m) \X (1..n) -> Nat]
SameEnd(m, n, P, Q) == P[<<m, n>>] = Q[<<m, n>>]

\* They are the same.
LEMMA EitherEnd ==
  ASSUME NEW m \in Nat, NEW n \in Nat,
         NEW w \in Weights(m, n), NEW v \in Weights(m, n), Reversed(m, n, w, v),
         NEW P, TableOf(m, n, w, P), NEW Q, TableOf(m, n, v, Q)
  PROVE  SameEnd(m, n, P, Q)
<1> USE DEF Weights
<1>1. Reversed(m, n, v, w)
  <2> SUFFICES ASSUME NEW i \in 1..m, NEW j \in 1..n PROVE w[<<i, j>>] = v[<<m + 1 - i, n + 1 - j>>]
    BY DEF Reversed
  <2>1. m + 1 - i \in 1..m /\ n + 1 - j \in 1..n /\ m + 1 - (m + 1 - i) = i /\ n + 1 - (n + 1 - j) = j
    OBVIOUS
  <2> QED BY <2>1 DEF Reversed
<1>2. P[<<m, n>>] <= Q[<<m, n>>]
  BY NoLonger
<1>3. Q[<<m, n>>] <= P[<<m, n>>]
  BY <1>1, NoLonger
<1>4. P[<<m, n>>] \in Nat /\ Q[<<m, n>>] \in Nat
  <2>1. m \in 0..m /\ n \in 0..n
    OBVIOUS
  <2> QED BY <2>1 DEF TableOf
<1> QED BY <1>2, <1>3, <1>4 DEF SameEnd

\* The table of two words the other way round.
TurnedTo(m, n, w, P, v, Q) ==
  /\ v \in Weights(n, m) /\ TableOf(n, m, v, Q)
  /\ \A i \in 0..m, j \in 0..n : Q[<<j, i>>] = P[<<i, j>>]
  /\ \A i \in 1..m, j \in 1..n : v[<<j, i>>] = w[<<i, j>>]

\* There is such a table, with the same distance.
LEMMA Turned ==
  ASSUME NEW m \in Nat, NEW n \in Nat, NEW w \in Weights(m, n), NEW P, TableOf(m, n, w, P)
  PROVE  \E Q, v : TurnedTo(m, n, w, P, v, Q)
<1> USE DEF Weights
<1>1. PICK v : v = [p \in (1..n) \X (1..m) |-> w[<<p[2], p[1]>>]]
  OBVIOUS
<1>2. PICK Q : Q = [p \in (0..n) \X (0..m) |-> P[<<p[2], p[1]>>]]
  OBVIOUS
<1>3. \A i \in 1..m, j \in 1..n : v[<<j, i>>] = w[<<i, j>>]
  BY <1>1
<1>4. \A i \in 0..m, j \in 0..n : Q[<<j, i>>] = P[<<i, j>>]
  BY <1>2
<1>5. v \in [(1..n) \X (1..m) -> Nat]
  BY <1>1
<1>6. Q \in [(0..n) \X (0..m) -> Nat]
  BY <1>2 DEF TableOf
<1>7. ASSUME NEW j \in 1..n, NEW i \in 1..m
      PROVE  Q[<<j, i>>] = Least({Q[<<j, i - 1>>] + 1, Q[<<j - 1, i>>] + 1, Q[<<j - 1, i - 1>>] + v[<<j, i>>]})
  <2>1. i \in 0..m /\ i - 1 \in 0..m /\ j \in 0..n /\ j - 1 \in 0..n
    OBVIOUS
  <2>2. /\ Q[<<j, i>>] = P[<<i, j>>] /\ Q[<<j, i - 1>>] = P[<<i - 1, j>>]
        /\ Q[<<j - 1, i>>] = P[<<i, j - 1>>] /\ Q[<<j - 1, i - 1>>] = P[<<i - 1, j - 1>>]
        /\ v[<<j, i>>] = w[<<i, j>>]
    BY <1>3, <1>4, <2>1
  <2> DEFINE a == P[<<i, j - 1>>] + 1
             b == P[<<i - 1, j>>] + 1
             c == P[<<i - 1, j - 1>>] + w[<<i, j>>]
  <2>3. P[<<i, j>>] = Least({a, b, c})
    BY DEF TableOf
  <2>4. {a, b, c} = {b, a, c}
    OBVIOUS
  <2> QED BY <2>2, <2>3, <2>4
<1>8. TableOf(n, m, v, Q)
  <2>1. /\ \A j \in 0..n : Q[<<j, 0>>] = j
        /\ \A i \in 0..m : Q[<<0, i>>] = i
    <3>1. 0 \in 0..m /\ 0 \in 0..n
      OBVIOUS
    <3> QED BY <1>4, <3>1 DEF TableOf
  <2> QED BY <1>6, <1>7, <2>1 DEF TableOf
<1> QED BY <1>3, <1>4, <1>5, <1>8 DEF TurnedTo

\* What it costs to put a letter of one word for a letter of another.
Costs(x, y) == [p \in (1..Len(x)) \X (1..Len(y)) |-> IF x[p[1]] = y[p[2]] THEN 0 ELSE 1]

\* A pass of the outer loop makes the next row of the table.
LEMMA NextRowIs ==
  ASSUME NEW a \in Seq(Letters), NEW b \in Seq(Letters), NEW j \in 1..Len(b), NEW prev \in [0..Len(a) -> Nat]
  PROVE  RowOf(Len(a), prev, j, [i \in 1..Len(a) |-> Costs(a, b)[<<i, j>>]], NextRow(a, b, prev, j))
<1> DEFINE m == Len(a)
           cost(i) == IF a[i] = b[j] THEN 0 ELSE 1
           Does(row) == row = [i \in 0..Len(a) |->
             IF i = 0 THEN j
             ELSE Least({prev[i] + 1, row[i - 1] + 1, prev[i - 1] + (IF a[i] = b[j] THEN 0 ELSE 1)})]
<1>1. Len(a) \in Nat /\ j \in Nat
  BY LenProperties
<1>2. PICK w : w = [i \in 1..Len(a) |-> Costs(a, b)[<<i, j>>]]
  OBVIOUS
<1>3. \A i \in 1..Len(a) : w[i] = cost(i)
  BY <1>2 DEF Costs
<1>4. w \in [1..Len(a) -> Nat]
  <2>1. \A i \in 1..Len(a) : cost(i) \in Nat
    OBVIOUS
  <2>2. \A i \in 1..Len(a) : w[i] \in Nat
    BY <1>3, <2>1
  <2> QED BY <1>2, <2>2
<1>5. PICK r : RowOf(Len(a), prev, j, w, r)
  BY <1>1, <1>4, RowExists
<1>6. Does(r)
  <2>1. r = [i \in 0..Len(a) |-> r[i]]
    BY <1>5 DEF RowOf
  <2>2. \A i \in 0..Len(a) : r[i] = IF i = 0 THEN j ELSE Least({prev[i] + 1, r[i - 1] + 1, prev[i - 1] + cost(i)})
    <3> SUFFICES ASSUME NEW i \in 0..Len(a)
                 PROVE  r[i] = IF i = 0 THEN j ELSE Least({prev[i] + 1, r[i - 1] + 1, prev[i - 1] + cost(i)})
      OBVIOUS
    <3>1. i # 0 => i \in 1..Len(a)
      BY <1>1
    <3>2. i \in 1..Len(a) => r[i] = Least({prev[i] + 1, r[i - 1] + 1, prev[i - 1] + cost(i)})
      BY <1>3, <1>5 DEF RowOf
    <3>3. r[0] = j
      BY <1>5 DEF RowOf
    <3> HIDE DEF cost
    <3> QED BY <3>1, <3>2, <3>3
  <2> QED BY <2>1, <2>2
<1>7. Does(NextRow(a, b, prev, j))
  <2>1. NextRow(a, b, prev, j) = CHOOSE g : Does(g)
    BY DEF NextRow
  <2> HIDE DEF Does
  <2> QED BY <1>6, <2>1
<1>8. PICK g : g = NextRow(a, b, prev, j)
  OBVIOUS
<1>9. g = [i \in 0..Len(a) |-> IF i = 0 THEN j ELSE Least({prev[i] + 1, g[i - 1] + 1, prev[i - 1] + cost(i)})]
  BY <1>7, <1>8
<1> HIDE DEF Does
<1>10. g[0] = j
  BY <1>1, <1>9
<1>11. \A i \in 1..Len(a) : g[i] = Least({prev[i] + 1, g[i - 1] + 1, prev[i - 1] + w[i]})
  <2> SUFFICES ASSUME NEW i \in 1..Len(a) PROVE g[i] = Least({prev[i] + 1, g[i - 1] + 1, prev[i - 1] + w[i]})
    OBVIOUS
  <2>1. i \in 0..Len(a) /\ i # 0
    OBVIOUS
  <2>2. w[i] = cost(i)
    BY <1>3
  <2> HIDE DEF cost
  <2> QED BY <1>9, <2>1, <2>2
<1>12. \A i \in 0..Len(a) : g[i] \in Nat
  <2> HIDE DEF cost
  <2> DEFINE G == {i \in 0..Len(a) : g[i] \in Nat}
  <2>1. 0 \in G
    BY <1>1, <1>10
  <2>2. ASSUME NEW i \in 1..Len(a), i - 1 \in G PROVE i \in G
    <3>1. g[i - 1] \in Nat /\ i \in 0..Len(a) /\ i - 1 \in 0..Len(a)
      BY <2>2
    <3>2. prev[i] \in Nat /\ prev[i - 1] \in Nat /\ w[i] \in Nat
      BY <1>4, <3>1
    <3>3. prev[i] + 1 \in Nat /\ g[i - 1] + 1 \in Nat /\ prev[i - 1] + w[i] \in Nat
      BY SMTT(30), <3>1, <3>2
    <3>4. Least({prev[i] + 1, g[i - 1] + 1, prev[i - 1] + w[i]}) \in Nat
      BY <3>3, LeastOfThree
    <3> QED BY <1>11, <3>1, <3>4
  <2>3. G \in SUBSET (0..Len(a))
    OBVIOUS
  <2> HIDE DEF G
  <2>4. \A i \in 0..Len(a) : i \in G
    BY <1>1, <2>1, <2>2, <2>3, UpToBound
  <2> QED BY <2>4 DEF G
<1>13. g \in [0..Len(a) -> Nat]
  <2> HIDE DEF cost
  <2> QED BY <1>9, <1>12
<1> QED BY <1>2, <1>8, <1>10, <1>11, <1>13 DEF RowOf

\* The rows of levenshteinDistance are the table of the two words.
LEMMA RowsAre ==
  ASSUME NEW a \in Seq(Letters), NEW b \in Seq(Letters), NEW rows,
         rows = CHOOSE g : g = [j \in 0..Len(b) |->
           IF j = 0 THEN [i \in 0..Len(a) |-> i] ELSE NextRow(a, b, g[j - 1], j)]
  PROVE  \E P : TableOf(Len(a), Len(b), Costs(a, b), P) /\ P[<<Len(a), Len(b)>>] = rows[Len(b)][Len(a)]
<1> DEFINE Does(g) == g = [j \in 0..Len(b) |->
             IF j = 0 THEN [i \in 0..Len(a) |-> i] ELSE NextRow(a, b, g[j - 1], j)]
           R == [0..Len(a) -> Nat]
<1>1. Len(a) \in Nat /\ Len(b) \in Nat
  BY LenProperties
<1>2. Costs(a, b) \in [(1..Len(a)) \X (1..Len(b)) -> Nat]
  BY DEF Costs
<1>3. PICK first : first = [i \in 0..Len(a) |-> i]
  OBVIOUS
<1>4. first \in R
  BY <1>1, <1>3
<1>5. \A j \in 1..Len(b), prev \in R : NextRow(a, b, prev, j) \in R
  BY NextRowIs DEF RowOf
<1> HIDE DEF R
<1>6. PICK step : step = [p \in (1..Len(b)) \X R |-> NextRow(a, b, p[2], p[1])]
  OBVIOUS
<1>7. \A j \in 1..Len(b), prev \in R : step[<<j, prev>>] = NextRow(a, b, prev, j)
  BY <1>6
<1>8. step \in [(1..Len(b)) \X R -> R]
  <2>1. \A p \in (1..Len(b)) \X R : p[1] \in 1..Len(b) /\ p[2] \in R
    OBVIOUS
  <2>2. \A p \in (1..Len(b)) \X R : NextRow(a, b, p[2], p[1]) \in R
    BY <1>5, <2>1
  <2> QED BY <1>6, <2>2
<1>9. PICK f : Iterated(Len(b), R, first, step, f)
  BY <1>1, <1>4, <1>8, Iterates
<1>10. Does(f)
  <2>1. f = [j \in 0..Len(b) |-> f[j]] /\ f[0] = first
    BY <1>9 DEF Iterated
  <2>2. \A j \in 0..Len(b) : f[j] = IF j = 0 THEN first ELSE NextRow(a, b, f[j - 1], j)
    <3> SUFFICES ASSUME NEW j \in 0..Len(b), j # 0 PROVE f[j] = NextRow(a, b, f[j - 1], j)
      BY <2>1
    <3>1. j \in 1..Len(b) /\ j - 1 \in 0..Len(b)
      BY <1>1
    <3>2. f[j] = step[<<j, f[j - 1]>>] /\ f[j - 1] \in R
      BY <1>9, <3>1 DEF Iterated
    <3> QED BY <1>7, <3>1, <3>2
  <2> QED BY <1>3, <2>1, <2>2
<1>11. Does(rows)
  <2>1. rows = CHOOSE g : Does(g)
    OBVIOUS
  <2> HIDE DEF Does
  <2> QED BY <1>10, <2>1
<1>12. rows[0] = [i \in 0..Len(a) |-> i]
  <2>1. 0 \in 0..Len(b)
    BY <1>1
  <2>2. rows[0] = IF 0 = 0 THEN first ELSE NextRow(a, b, rows[0 - 1], 0)
    BY <1>3, <1>11, <2>1
  <2> QED BY <1>3, <2>2
<1>13. \A j \in 1..Len(b) : rows[j] = NextRow(a, b, rows[j - 1], j)
  <2> SUFFICES ASSUME NEW j \in 1..Len(b) PROVE rows[j] = NextRow(a, b, rows[j - 1], j)
    OBVIOUS
  <2>1. j \in 0..Len(b) /\ j # 0
    OBVIOUS
  <2> QED BY <1>11, <2>1
<1> HIDE DEF Does
<1>14. \A j \in 0..Len(b) : rows[j] \in R
  <2> DEFINE G == {j \in 0..Len(b) : rows[j] \in R}
  <2>1. 0 \in G
    BY <1>1, <1>3, <1>4, <1>12
  <2>2. ASSUME NEW j \in 1..Len(b), j - 1 \in G PROVE j \in G
    BY <2>2, <1>5, <1>13
  <2>3. G \in SUBSET (0..Len(b))
    OBVIOUS
  <2> HIDE DEF G
  <2>4. \A j \in 0..Len(b) : j \in G
    BY <1>1, <2>1, <2>2, <2>3, UpToBound
  <2> QED BY <2>4 DEF G
<1>15. ASSUME NEW j \in 1..Len(b)
       PROVE  RowOf(Len(a), rows[j - 1], j, [i \in 1..Len(a) |-> Costs(a, b)[<<i, j>>]], rows[j])
  <2>1. j - 1 \in 0..Len(b)
    OBVIOUS
  <2>2. rows[j - 1] \in [0..Len(a) -> Nat]
    BY <1>14, <2>1 DEF R
  <2> QED BY <2>2, <1>13, NextRowIs
<1>16. \E P : TableOf(Len(a), Len(b), Costs(a, b), P) /\ \A i \in 0..Len(a), j \in 0..Len(b) : P[<<i, j>>] = rows[j][i]
  <2>1. PICK w : w = Costs(a, b)
    OBVIOUS
  <2>2. \A j \in 1..Len(b) : RowOf(Len(a), rows[j - 1], j, [i \in 1..Len(a) |-> w[<<i, j>>]], rows[j])
    BY <1>15, <2>1
  <2>3. w \in [(1..Len(a)) \X (1..Len(b)) -> Nat]
    BY <1>2, <2>1
  <2>4. \E P : TableOf(Len(a), Len(b), w, P) /\ \A i \in 0..Len(a), j \in 0..Len(b) : P[<<i, j>>] = rows[j][i]
    <3>1. RowsOf(Len(a), Len(b), w, rows)
      BY <1>12, <2>2 DEF RowsOf
    <3>2. FilledBy(Len(a), Len(b), w, rows)
      BY <1>1, <2>3, <3>1, RowsAreTable
    <3> QED BY <3>2 DEF FilledBy
  <2> QED BY <2>1, <2>4
<1>17. Len(a) \in 0..Len(a) /\ Len(b) \in 0..Len(b)
  BY <1>1
<1> QED BY <1>16, <1>17

\* The distance by definition is the end of the table of what the words cost from their ends.
LEMMA EditDistanceIs ==
  ASSUME NEW x \in Seq(Letters), NEW y \in Seq(Letters),
         NEW v \in [(1..Len(x)) \X (1..Len(y)) -> Nat], Reversed(Len(x), Len(y), Costs(x, y), v),
         NEW Q, TableOf(Len(x), Len(y), v, Q)
  PROVE  EditDistance(x, y) = Q[<<Len(x), Len(y)>>]
<1> DEFINE m == Len(x)
           n == Len(y)
           cost(i, j) == IF x[i] = y[j] THEN 0 ELSE 1
           Does(f) == f = [from \in (0..Len(x)) \X (0..Len(y)) |->
             LET i == from[1]
                 j == from[2]
             IN IF i = Len(x) THEN Len(y) - j
                ELSE IF j = Len(y) THEN Len(x) - i
                ELSE Least({f[<<i + 1, j>>] + 1, f[<<i, j + 1>>] + 1,
                            f[<<i + 1, j + 1>>] + (IF x[i + 1] = y[j + 1] THEN 0 ELSE 1)})]
           Value(f, i, j) ==
             IF i = m THEN n - j
             ELSE IF j = n THEN m - i
             ELSE Least({f[<<i + 1, j>>] + 1, f[<<i, j + 1>>] + 1, f[<<i + 1, j + 1>>] + cost(i + 1, j + 1)})
           At == (0..m) \X (0..n)
<1>1. m \in Nat /\ n \in Nat
  BY LenProperties
<1>2. \A i \in 0..m, j \in 0..n : i # m => i + 1 \in 1..m /\ i + 1 \in 0..m /\ m - i \in 1..m /\ m - (i + 1) = m - i - 1
  BY <1>1
<1>3. \A i \in 0..m, j \in 0..n : j # n => j + 1 \in 1..n /\ j + 1 \in 0..n /\ n - j \in 1..n /\ n - (j + 1) = n - j - 1
  BY <1>1
<1>4. PICK g : g = [p \in At |-> Q[<<m - p[1], n - p[2]>>]]
  OBVIOUS
<1>5. \A i \in 0..m, j \in 0..n : g[<<i, j>>] = Q[<<m - i, n - j>>] /\ m - i \in 0..m /\ n - j \in 0..n
  <2>1. \A i \in 0..m, j \in 0..n : g[<<i, j>>] = Q[<<m - i, n - j>>]
    <3> HIDE DEF m, n
    <3> QED BY <1>4
  <2>2. \A i \in 0..m, j \in 0..n : m - i \in 0..m /\ n - j \in 0..n
    BY <1>1
  <2> QED BY <2>1, <2>2
<1>6. ASSUME NEW i \in 0..m, NEW j \in 0..n PROVE g[<<i, j>>] = Value(g, i, j)
  <2>1. CASE i = m
    <3>1. g[<<i, j>>] = Q[<<0, n - j>>] /\ n - j \in 0..n
      BY <1>1, <1>5, <2>1
    <3> QED BY <2>1, <3>1 DEF TableOf
  <2>2. CASE i # m /\ j = n
    <3>1. g[<<i, j>>] = Q[<<m - i, 0>>] /\ m - i \in 0..m
      BY <1>1, <1>5, <2>2
    <3> QED BY <2>2, <3>1 DEF TableOf
  <2>3. CASE i # m /\ j # n
    <3> DEFINE a == Q[<<m - i, n - j - 1>>] + 1
               b == Q[<<m - i - 1, n - j>>] + 1
               c == Q[<<m - i - 1, n - j - 1>>] + v[<<m - i, n - j>>]
    <3>1. m - i \in 1..m /\ n - j \in 1..n /\ i + 1 \in 0..m /\ j + 1 \in 0..n
      BY <1>2, <1>3, <2>3
    <3>2. Q[<<m - i, n - j>>] = Least({a, b, c})
      BY <3>1 DEF TableOf
    <3>3. v[<<m - i, n - j>>] = cost(i + 1, j + 1)
      <4>1. m + 1 - (m - i) = i + 1 /\ n + 1 - (n - j) = j + 1
        BY <1>1
      <4>2. v[<<m - i, n - j>>] = Costs(x, y)[<<i + 1, j + 1>>]
        BY <3>1, <4>1 DEF Reversed
      <4>3. <<i + 1, j + 1>> \in (1..m) \X (1..n)
        BY <1>2, <1>3, <2>3
      <4> QED BY <4>2, <4>3 DEF Costs
    <3>4. /\ g[<<i + 1, j>>] = Q[<<m - i - 1, n - j>>]
          /\ g[<<i, j + 1>>] = Q[<<m - i, n - j - 1>>]
          /\ g[<<i + 1, j + 1>>] = Q[<<m - i - 1, n - j - 1>>]
      BY <1>2, <1>3, <1>5, <2>3, <3>1
    <3>5. {a, b, c} = {b, a, c}
      OBVIOUS
    <3>6. g[<<i, j>>] = Least({b, a, c})
      BY <1>5, <3>2, <3>5
    <3> HIDE DEF cost, m, n
    <3> QED BY <2>3, <3>3, <3>4, <3>6
  <2> QED BY <2>1, <2>2, <2>3
<1>7. \A f : f = [p \in At |-> Value(f, p[1], p[2])] <=> Does(f)
  OBVIOUS
<1> HIDE DEF Does
<1>8. Does(g)
  <2>1. \A p \in At : p[1] \in 0..m /\ p[2] \in 0..n /\ p = <<p[1], p[2]>>
    OBVIOUS
  <2>2. g = [p \in At |-> g[p]]
    BY <1>4
  <2> HIDE DEF Value
  <2>3. \A p \in At : g[p] = Value(g, p[1], p[2])
    BY <1>6, <2>1
  <2>4. g = [p \in At |-> Value(g, p[1], p[2])]
    BY <2>2, <2>3
  <2> QED BY <2>4, <1>7
<1>9. PICK f : Does(f) /\ EditDistance(x, y) = f[<<0, 0>>]
  <2> DEFINE left == CHOOSE f : Does(f)
  <2>1. EditDistance(x, y) = left[<<0, 0>>]
    BY DEF EditDistance, Does
  <2>2. Does(left)
    BY <1>8
  <2> QED BY <2>1, <2>2
<1>10. \A i \in 0..m, j \in 0..n : f[<<i, j>>] = Value(f, i, j)
  <2>1. f = [p \in At |-> Value(f, p[1], p[2])]
    BY <1>7, <1>9
  <2> HIDE DEF Value
  <2> QED BY <2>1
<1> DEFINE G == {k \in 0..m + n : \A i \in 0..m, j \in 0..n : (m - i) + (n - j) <= k => f[<<i, j>>] = g[<<i, j>>]}
<1>11. 0 \in G
  <2>1. \A i \in 0..m, j \in 0..n : (m - i) + (n - j) <= 0 => i = m /\ j = n
    BY <1>1
  <2>2. m \in 0..m /\ n \in 0..n
    BY <1>1
  <2>3. f[<<m, n>>] = n - n /\ g[<<m, n>>] = n - n
    BY <1>6, <1>10, <2>2
  <2>4. 0 \in 0..m + n
    BY <1>1
  <2> QED BY <2>1, <2>3, <2>4
<1>12. ASSUME NEW k \in 1..m + n, k - 1 \in G PROVE k \in G
  <2> SUFFICES ASSUME NEW i \in 0..m, NEW j \in 0..n, (m - i) + (n - j) <= k PROVE f[<<i, j>>] = g[<<i, j>>]
    <3>1. k \in 0..m + n
      BY <1>1
    <3> QED BY <3>1
  <2>1. CASE i = m
    BY <1>6, <1>10, <2>1
  <2>2. CASE i # m /\ j = n
    BY <1>6, <1>10, <2>2
  <2>3. CASE i # m /\ j # n
    <3>1. i + 1 \in 0..m /\ j + 1 \in 0..n
      BY <1>2, <1>3, <2>3
    <3>2. /\ (m - (i + 1)) + (n - j) <= k - 1 /\ (m - i) + (n - (j + 1)) <= k - 1
          /\ (m - (i + 1)) + (n - (j + 1)) <= k - 1
      BY <1>1
    <3>3. /\ f[<<i + 1, j>>] = g[<<i + 1, j>>] /\ f[<<i, j + 1>>] = g[<<i, j + 1>>]
          /\ f[<<i + 1, j + 1>>] = g[<<i + 1, j + 1>>]
      BY <1>12, <3>1, <3>2
    <3>4. Value(f, i, j) = Value(g, i, j)
      BY <3>3
    <3> HIDE DEF Value
    <3> QED BY <3>4, <1>6, <1>10
  <2> QED BY <2>1, <2>2, <2>3
<1>13. m + n \in G
  <2>1. G \in SUBSET (0..m + n) /\ m + n \in Nat /\ m + n \in 0..m + n
    BY <1>1
  <2> HIDE DEF G
  <2>2. \A k \in 0..m + n : k \in G
    BY <1>11, <1>12, <2>1, UpToBound
  <2> QED BY <2>1, <2>2
<1>14. f[<<0, 0>>] = g[<<0, 0>>]
  <2>1. 0 \in 0..m /\ 0 \in 0..n /\ (m - 0) + (n - 0) <= m + n
    BY <1>1
  <2> QED BY <1>13, <2>1
<1>15. g[<<0, 0>>] = Q[<<m, n>>]
  <2>1. 0 \in 0..m /\ 0 \in 0..n /\ m - 0 = m /\ n - 0 = n
    BY <1>1
  <2> QED BY <1>5, <2>1
<1> QED BY <1>9, <1>14, <1>15

\* levenshteinDistance computes the edit distance, whichever word is longer.
LEMMA DistanceIsExact ==
  ASSUME NEW x \in Words, NEW y \in Words
  PROVE  LevenshteinDistance(x, y) = EditDistance(x, y)
<1> DEFINE m == Len(x)
           n == Len(y)
<1>1. x \in Seq(Letters) /\ y \in Seq(Letters) /\ m \in Nat /\ n \in Nat
  BY WordsAre, LenProperties
<1>2. Costs(x, y) \in [(1..m) \X (1..n) -> Nat]
  BY DEF Costs
<1>3. PICK v : v = [p \in (1..m) \X (1..n) |-> Costs(x, y)[<<m + 1 - p[1], n + 1 - p[2]>>]]
  OBVIOUS
<1>4. \A i \in 1..m : m + 1 - i \in 1..m
  BY <1>1
<1>5. \A j \in 1..n : n + 1 - j \in 1..n
  BY <1>1
<1>6. PICK w : w = Costs(x, y)
  OBVIOUS
<1>7. v \in [(1..m) \X (1..n) -> Nat]
  <2> HIDE DEF m, n
  <2>1. \A p \in (1..m) \X (1..n) : p[1] \in 1..m /\ p[2] \in 1..n
    OBVIOUS
  <2>2. \A p \in (1..m) \X (1..n) : w[<<m + 1 - p[1], n + 1 - p[2]>>] \in Nat
    BY <1>2, <1>4, <1>5, <1>6, <2>1
  <2> QED BY <1>3, <1>6, <2>2
<1>8. Reversed(m, n, Costs(x, y), v)
  <2> HIDE DEF m, n
  <2>1. \A i \in 1..m, j \in 1..n : v[<<i, j>>] = w[<<m + 1 - i, n + 1 - j>>]
    BY <1>3, <1>6
  <2> QED BY <1>6, <2>1 DEF Reversed
<1>9. PICK Q : TableOf(m, n, v, Q)
  BY <1>1, <1>7, TableExists
<1>10. EditDistance(x, y) = Q[<<m, n>>]
  BY <1>1, <1>7, <1>8, <1>9, EditDistanceIs
<1>11. \A P : TableOf(m, n, Costs(x, y), P) => P[<<m, n>>] = EditDistance(x, y)
  <2> SUFFICES ASSUME NEW P, TableOf(m, n, Costs(x, y), P) PROVE P[<<m, n>>] = EditDistance(x, y)
    OBVIOUS
  <2>1. P[<<m, n>>] = Q[<<m, n>>]
    <3>1. w \in Weights(m, n) /\ v \in Weights(m, n)
      BY <1>2, <1>6, <1>7 DEF Weights
    <3>2. Reversed(m, n, w, v) /\ TableOf(m, n, w, P)
      BY <1>6, <1>8
    <3>3. SameEnd(m, n, P, Q)
      BY <1>1, <1>9, <3>1, <3>2, EitherEnd
    <3> QED BY <3>3 DEF SameEnd
  <2> QED BY <1>10, <2>1
<1>12. CASE m = 0
  <2>1. LevenshteinDistance(x, y) = n
    BY <1>12 DEF LevenshteinDistance
  <2>2. Q[<<m, n>>] = n
    <3>1. n \in 0..n
      BY <1>1
    <3> QED BY <1>9, <1>12, <3>1 DEF TableOf
  <2> QED BY <1>10, <2>1, <2>2
<1>13. CASE m # 0 /\ n = 0
  <2>1. LevenshteinDistance(x, y) = m
    BY <1>13 DEF LevenshteinDistance
  <2>2. Q[<<m, n>>] = m
    <3>1. m \in 0..m
      BY <1>1
    <3> QED BY <1>9, <1>13, <3>1 DEF TableOf
  <2> QED BY <1>10, <2>1, <2>2
<1>14. CASE m # 0 /\ n # 0 /\ ~(m > n)
  <2> DEFINE rows == CHOOSE g : g = [j \in 0..Len(y) |->
               IF j = 0 THEN [i \in 0..Len(x) |-> i] ELSE NextRow(x, y, g[j - 1], j)]
  <2>1. LevenshteinDistance(x, y) = rows[Len(y)][Len(x)]
    BY <1>14 DEF LevenshteinDistance
  <2>2. PICK r : r = rows
    OBVIOUS
  <2>3. \E P : TableOf(m, n, Costs(x, y), P) /\ P[<<m, n>>] = r[n][m]
    BY <1>1, <2>2, RowsAre
  <2> QED BY <1>11, <2>1, <2>2, <2>3
<1>15. CASE m # 0 /\ n # 0 /\ m > n
  <2> DEFINE rows == CHOOSE g : g = [j \in 0..Len(x) |->
               IF j = 0 THEN [i \in 0..Len(y) |-> i] ELSE NextRow(y, x, g[j - 1], j)]
  <2>1. LevenshteinDistance(x, y) = rows[Len(x)][Len(y)]
    BY <1>15 DEF LevenshteinDistance
  <2>2. PICK r : r = rows
    OBVIOUS
  <2>3. PICK P : TableOf(n, m, Costs(y, x), P) /\ P[<<n, m>>] = r[m][n]
    BY <1>1, <2>2, RowsAre
  <2>4. Costs(y, x) \in [(1..n) \X (1..m) -> Nat]
    BY DEF Costs
  <2> HIDE DEF m, n, rows
  <2>5. PICK R, u : /\ u \in [(1..m) \X (1..n) -> Nat] /\ TableOf(m, n, u, R)
                    /\ \A j \in 0..n, i \in 0..m : R[<<i, j>>] = P[<<j, i>>]
                    /\ \A j \in 1..n, i \in 1..m : u[<<i, j>>] = Costs(y, x)[<<j, i>>]
    <3>1. PICK t : t = Costs(y, x)
      OBVIOUS
    <3>2. t \in Weights(n, m) /\ TableOf(n, m, t, P)
      BY <2>3, <2>4, <3>1 DEF Weights
    <3>3. PICK R, u : TurnedTo(n, m, t, P, u, R)
      BY <1>1, <3>2, Turned
    <3> QED BY <3>1, <3>3 DEF TurnedTo, Weights
  <2>6. u = Costs(x, y)
    <3>1. \A i \in 1..m, j \in 1..n : Costs(x, y)[<<i, j>>] = Costs(y, x)[<<j, i>>]
      BY DEF Costs, m, n
    <3>2. \A i \in 1..m, j \in 1..n : u[<<i, j>>] = Costs(x, y)[<<i, j>>]
      BY <2>5, <3>1
    <3> QED BY <1>2, <2>5, <3>2
  <2>7. R[<<m, n>>] = P[<<n, m>>]
    <3>1. m \in 0..m /\ n \in 0..n
      BY <1>1
    <3> QED BY <2>5, <3>1
  <2>8. R[<<m, n>>] = EditDistance(x, y)
    BY <1>11, <2>5, <2>6
  <2> QED BY <2>1, <2>2, <2>3, <2>7, <2>8 DEF m, n
<1> QED BY <1>12, <1>13, <1>14, <1>15

-----------------------------------------------------------------------------
(* Groups of duplicates. *)

\* Union-find: a forest of documents in which ranks grow toward the roots, R naming the root of
\* each.
Dups == 1..MaxDups
UnionFind == [parent : [Dups -> Dups], rank : [Dups -> Nat]]

Forest(uf, R, B) ==
  /\ uf \in UnionFind /\ R \in [Dups -> Dups] /\ B \in Nat
  /\ \A x \in Dups : uf.rank[x] <= B
  /\ \A x \in Dups : uf.parent[x] # x => uf.rank[x] < uf.rank[uf.parent[x]]
  /\ \A x \in Dups : R[x] = IF uf.parent[x] = x THEN x ELSE R[uf.parent[x]]
  /\ \A x \in Dups : uf.parent[R[x]] = R[x]

\* find gives the root: there is but one, as no path along growing ranks comes back.
LEMMA RootIs ==
  ASSUME NEW uf, NEW R, NEW B, Forest(uf, R, B)
  PROVE  FindRoot(uf.parent) = R
<1> DEFINE Does(f) == f = [x \in 1..MaxDups |-> IF uf.parent[x] = x THEN x ELSE f[uf.parent[x]]]
<1>1. /\ uf.parent \in [Dups -> Dups] /\ uf.rank \in [Dups -> Nat] /\ R \in [Dups -> Dups] /\ B \in Nat
      /\ \A x \in Dups : uf.rank[x] <= B
      /\ \A x \in Dups : uf.parent[x] # x => uf.rank[x] < uf.rank[uf.parent[x]]
      /\ \A x \in Dups : R[x] = IF uf.parent[x] = x THEN x ELSE R[uf.parent[x]]
  BY DEF Forest, UnionFind
<1>2. Does(R)
  <2>1. R = [x \in 1..MaxDups |-> R[x]]
    BY <1>1 DEF Dups
  <2> QED BY <1>1, <2>1 DEF Dups
<1>3. PICK f : f = FindRoot(uf.parent)
  OBVIOUS
<1>4. Does(f)
  <2>1. f = CHOOSE g : Does(g)
    BY <1>3 DEF FindRoot
  <2> HIDE DEF Does
  <2> QED BY <1>2, <2>1
<1>5. DOMAIN f = Dups /\ \A x \in Dups : f[x] = IF uf.parent[x] = x THEN x ELSE f[uf.parent[x]]
  BY <1>4 DEF Dups
<1> DEFINE G == {k \in 0..B : \A x \in Dups : uf.rank[x] + k >= B => f[x] = R[x]}
<1>6. \A x \in Dups : uf.parent[x] = x => f[x] = R[x]
  BY <1>1, <1>5
<1>7. 0 \in G
  <2>1. ASSUME NEW x \in Dups, uf.rank[x] + 0 >= B PROVE uf.parent[x] = x
    <3>1. uf.parent[x] \in Dups /\ uf.rank[x] \in Nat
      BY <1>1
    <3>2. uf.rank[uf.parent[x]] <= B /\ uf.rank[uf.parent[x]] \in Nat
      BY <1>1, <3>1
    <3> QED BY <1>1, <2>1, <3>1, <3>2
  <2>2. 0 \in 0..B
    BY <1>1
  <2> QED BY <1>6, <2>1, <2>2
<1>8. ASSUME NEW k \in 1..B, k - 1 \in G PROVE k \in G
  <2>1. ASSUME NEW x \in Dups, uf.rank[x] + k >= B, uf.parent[x] # x PROVE f[x] = R[x]
    <3>1. uf.parent[x] \in Dups /\ uf.rank[x] \in Nat
      BY <1>1
    <3>2. uf.rank[uf.parent[x]] \in Nat /\ uf.rank[x] < uf.rank[uf.parent[x]]
      BY <1>1, <2>1, <3>1
    <3>3. uf.rank[uf.parent[x]] + (k - 1) >= B
      BY <1>1, <2>1, <3>1, <3>2
    <3>4. f[uf.parent[x]] = R[uf.parent[x]]
      BY <1>8, <3>1, <3>3
    <3> QED BY <1>1, <1>5, <2>1, <3>4
  <2>2. k \in 0..B
    BY <1>1
  <2> QED BY <1>6, <2>1, <2>2
<1>9. \A k \in 0..B : k \in G
  <2>1. G \in SUBSET (0..B)
    OBVIOUS
  <2> HIDE DEF G
  <2> QED BY <1>1, <1>7, <1>8, <2>1, UpToBound
<1>10. \A x \in Dups : f[x] = R[x]
  <2> SUFFICES ASSUME NEW x \in Dups PROVE f[x] = R[x]
    OBVIOUS
  <2>1. B \in G
    BY <1>1, <1>9
  <2>2. uf.rank[x] + B >= B
    <3>1. uf.rank[x] \in Nat
      BY <1>1
    <3> QED BY <1>1, <3>1
  <2> QED BY <2>1, <2>2
<1>11. f = R
  <2>1. f = [x \in Dups |-> f[x]]
    BY <1>4 DEF Dups
  <2>2. R = [x \in Dups |-> R[x]]
    BY <1>1
  <2> QED BY <1>10, <2>1, <2>2
<1> QED BY <1>3, <1>11

\* Sets of documents that similarity does not leave.
Similar(pairs, i, j) == <<i, j>> \in pairs \/ <<j, i>> \in pairs
Closed(pairs, S) == \A i \in S, j \in Dups : Similar(pairs, i, j) => j \in S

\* What the unions of the pairs E have come to: these pairs share a root, and who shares a root
\* is joined by similar pairs.
Clusters(pairs, E, uf, R, B) ==
  /\ Forest(uf, R, B)
  /\ \A i, j \in Dups : <<i, j>> \in E => R[i] = R[j]
  /\ \A S \in SUBSET Dups : Closed(pairs, S) => \A i, j \in Dups : R[i] = R[j] /\ i \in S => j \in S
Held(pairs, E, uf) == \E R, B : Clusters(pairs, E, uf, R, B)

\* One union, of documents found similar.
LEMMA UnionHolds ==
  ASSUME NEW pairs, NEW E, NEW uf, Held(pairs, E, uf), NEW x \in Dups, NEW y \in Dups, <<x, y>> \in pairs
  PROVE  Held(pairs, E \cup {<<x, y>>}, Union(uf, x, y))
<1>1. PICK R, B : Clusters(pairs, E, uf, R, B)
  BY DEF Held
<1>2. Forest(uf, R, B) /\ FindRoot(uf.parent) = R
  BY <1>1, RootIs DEF Clusters
<1>3. /\ uf = [parent |-> uf.parent, rank |-> uf.rank]
      /\ uf.parent \in [Dups -> Dups] /\ uf.rank \in [Dups -> Nat] /\ R \in [Dups -> Dups] /\ B \in Nat
      /\ \A i \in Dups : uf.rank[i] <= B
      /\ \A i \in Dups : uf.parent[i] # i => uf.rank[i] < uf.rank[uf.parent[i]]
      /\ \A i \in Dups : R[i] = IF uf.parent[i] = i THEN i ELSE R[uf.parent[i]]
      /\ \A i \in Dups : uf.parent[R[i]] = R[i]
  BY <1>2 DEF Forest, UnionFind
<1>4. /\ \A i, j \in Dups : <<i, j>> \in E => R[i] = R[j]
      /\ \A S \in SUBSET Dups : Closed(pairs, S) => \A i, j \in Dups : R[i] = R[j] /\ i \in S => j \in S
  BY <1>1 DEF Clusters
<1> DEFINE rx == R[x]
           ry == R[y]
           top == IF uf.rank[rx] < uf.rank[ry] THEN ry ELSE rx
           low == IF uf.rank[rx] < uf.rank[ry] THEN rx ELSE ry
<1>5. CASE rx = ry
  <2>1. Union(uf, x, y) = uf
    BY <1>2, <1>5 DEF Union
  <2>2. \A i, j \in Dups : <<i, j>> \in E \cup {<<x, y>>} => R[i] = R[j]
    BY <1>4, <1>5
  <2>3. Clusters(pairs, E \cup {<<x, y>>}, uf, R, B)
    BY <1>2, <1>4, <2>2 DEF Clusters
  <2> QED BY <2>1, <2>3 DEF Held
<1>6. CASE rx # ry
  <2>1. PICK P : P = [uf.parent EXCEPT ![low] = top]
    OBVIOUS
  <2>2. PICK K : K = [uf.rank EXCEPT ![top] = @ + (IF uf.rank[rx] = uf.rank[ry] THEN 1 ELSE 0)]
    OBVIOUS
  <2>3. PICK T : T = [i \in Dups |-> IF R[i] = low THEN top ELSE R[i]]
    OBVIOUS
  <2>4. Union(uf, x, y) = [parent |-> P, rank |-> K]
    BY <1>2, <1>6, <2>1, <2>2 DEF Union
  <2>5. /\ top \in Dups /\ low \in Dups /\ top # low
        /\ uf.parent[top] = top /\ uf.parent[low] = low /\ R[top] = top /\ R[low] = low
        /\ uf.rank[low] <= uf.rank[top] /\ (uf.rank[low] = uf.rank[top] => uf.rank[rx] = uf.rank[ry])
        /\ \/ top = rx /\ low = ry
           \/ top = ry /\ low = rx
    <3>1. rx \in Dups /\ ry \in Dups
      BY <1>3
    <3>2. uf.parent[rx] = rx /\ uf.parent[ry] = ry
      BY <1>3
    <3>3. R[rx] = rx /\ R[ry] = ry
      BY <1>3, <3>1, <3>2
    <3>4. uf.rank[rx] \in Nat /\ uf.rank[ry] \in Nat
      BY <1>3, <3>1
    <3>5. CASE uf.rank[rx] < uf.rank[ry]
      <4>1. top = ry /\ low = rx
        BY <3>5
      <4> HIDE DEF top, low
      <4> QED BY <1>6, <3>1, <3>2, <3>3, <3>4, <3>5, <4>1
    <3>6. CASE ~(uf.rank[rx] < uf.rank[ry])
      <4>1. top = rx /\ low = ry
        BY <3>6
      <4> HIDE DEF top, low
      <4> QED BY <1>6, <3>1, <3>2, <3>3, <3>4, <3>6, <4>1
    <3> QED BY <3>5, <3>6
  <2> HIDE DEF top, low, rx, ry
  <2>6. /\ P \in [Dups -> Dups] /\ P[low] = top
        /\ \A i \in Dups : i # low => P[i] = uf.parent[i]
    BY <1>3, <2>1, <2>5
  <2>7. /\ K \in [Dups -> Nat] /\ uf.rank[low] < K[top] /\ uf.rank[top] <= K[top]
        /\ \A i \in Dups : i # top => K[i] = uf.rank[i]
        /\ \A i \in Dups : K[i] <= B + 1
    <3>1. uf.rank[top] \in Nat /\ uf.rank[low] \in Nat /\ uf.rank[top] <= B
      BY <1>3, <2>5
    <3>2. K[top] = uf.rank[top] + (IF uf.rank[rx] = uf.rank[ry] THEN 1 ELSE 0)
      BY <1>3, <2>2, <2>5
    <3>3. \A i \in Dups : i # top => K[i] = uf.rank[i]
      BY <1>3, <2>2
    <3>4. DOMAIN K = Dups /\ K = [i \in Dups |-> K[i]]
      BY <1>3, <2>2
    <3>5. K[top] \in Nat /\ uf.rank[low] < K[top] /\ uf.rank[top] <= K[top] /\ K[top] <= B + 1
      BY <1>3, <2>5, <3>1, <3>2
    <3>6. \A i \in Dups : uf.rank[i] \in Nat /\ uf.rank[i] <= B + 1
      <4>1. \A i \in Dups : uf.rank[i] \in Nat /\ uf.rank[i] <= B
        BY <1>3
      <4> QED BY <1>3, <4>1
    <3>7. \A i \in Dups : K[i] \in Nat /\ K[i] <= B + 1
      BY <3>3, <3>5, <3>6
    <3>8. K \in [Dups -> Nat]
      BY <3>4, <3>7
    <3> QED BY <3>3, <3>5, <3>7, <3>8
  <2>8. T \in [Dups -> Dups] /\ \A i \in Dups : T[i] = IF R[i] = low THEN top ELSE R[i]
    BY <1>3, <2>3, <2>5
  <2>9. ASSUME NEW i \in Dups, P[i] # i PROVE K[i] < K[P[i]]
    <3>1. CASE i = low
      <4>1. K[low] = uf.rank[low] /\ P[low] = top
        BY <2>5, <2>6, <2>7
      <4> QED BY <2>7, <3>1, <4>1
    <3>2. CASE i # low
      <4>1. P[i] = uf.parent[i] /\ uf.parent[i] # i /\ uf.parent[i] \in Dups
        BY <1>3, <2>6, <2>9, <3>2
      <4>2. uf.rank[i] < uf.rank[uf.parent[i]]
        BY <1>3, <4>1
      <4>3. K[i] = uf.rank[i]
        BY <2>5, <2>7, <4>1
      <4>4. uf.rank[uf.parent[i]] <= K[uf.parent[i]]
        <5>1. uf.rank[uf.parent[i]] \in Nat
          BY <1>3, <4>1
        <5>2. CASE uf.parent[i] = top
          BY <2>7, <5>2
        <5>3. CASE uf.parent[i] # top
          BY <2>7, <4>1, <5>1, <5>3
        <5> QED BY <5>2, <5>3
      <4>5. uf.rank[i] \in Nat /\ uf.rank[uf.parent[i]] \in Nat /\ K[uf.parent[i]] \in Nat
        BY <1>3, <2>7, <4>1
      <4> QED BY <4>1, <4>2, <4>3, <4>4, <4>5
    <3> QED BY <3>1, <3>2
  <2>10. ASSUME NEW i \in Dups PROVE T[i] = IF P[i] = i THEN i ELSE T[P[i]]
    <3>1. CASE i = low
      <4>1. P[i] = top /\ T[i] = top
        BY <2>5, <2>6, <2>8, <3>1
      <4>2. T[top] = top
        BY <2>5, <2>8
      <4> QED BY <2>5, <3>1, <4>1, <4>2
    <3>2. CASE i # low /\ P[i] = i
      <4>1. R[i] = i
        BY <1>3, <2>6, <3>2
      <4> QED BY <2>8, <3>2, <4>1
    <3>3. CASE i # low /\ P[i] # i
      <4>1. P[i] = uf.parent[i] /\ uf.parent[i] \in Dups
        BY <1>3, <2>6, <3>3
      <4>2. R[i] = R[P[i]]
        BY <1>3, <3>3, <4>1
      <4> QED BY <2>8, <3>3, <4>1, <4>2
    <3> QED BY <3>1, <3>2, <3>3
  <2>11. ASSUME NEW i \in Dups PROVE P[T[i]] = T[i]
    <3>1. CASE R[i] = low
      BY <2>5, <2>6, <2>8, <3>1
    <3>2. CASE R[i] # low
      <4>1. T[i] = R[i] /\ R[i] \in Dups
        BY <1>3, <2>8, <3>2
      <4>2. P[R[i]] = uf.parent[R[i]]
        BY <2>6, <3>2, <4>1
      <4> QED BY <1>3, <4>1, <4>2
    <3> QED BY <3>1, <3>2
  <2>12. Forest([parent |-> P, rank |-> K], T, B + 1)
    <3>1. [parent |-> P, rank |-> K] \in UnionFind
      BY <2>6, <2>7 DEF UnionFind
    <3>2. B + 1 \in Nat
      BY <1>3
    <3>3. PICK u : u = [parent |-> P, rank |-> K]
      OBVIOUS
    <3>4. u.parent = P /\ u.rank = K
      BY <3>3
    <3>5. Forest(u, T, B + 1)
      BY <2>7, <2>8, <2>9, <2>10, <2>11, <3>1, <3>2, <3>3, <3>4 DEF Forest
    <3> QED BY <3>3, <3>5
  <2>13. \A i, j \in Dups : <<i, j>> \in E \cup {<<x, y>>} => T[i] = T[j]
    <3>1. T[x] = top /\ T[y] = top
      BY <2>5, <2>8 DEF rx, ry
    <3> QED BY <1>4, <2>8, <3>1
  <2>14. ASSUME NEW S \in SUBSET Dups, Closed(pairs, S), NEW i \in Dups, NEW j \in Dups, T[i] = T[j], i \in S
         PROVE  j \in S
    <3>1. \A g, h \in Dups : R[g] = R[h] /\ g \in S => h \in S
      BY <1>4, <2>14
    <3>2. x \in S <=> y \in S
      BY <2>14 DEF Closed, Similar
    <3>3. CASE R[i] = R[j]
      BY <2>14, <3>1, <3>3
    <3>4. CASE R[i] # R[j]
      <4>1. (R[i] = R[x] /\ R[j] = R[y]) \/ (R[i] = R[y] /\ R[j] = R[x])
        BY <2>5, <2>8, <2>14, <3>4 DEF rx, ry
      <4> QED BY <2>14, <3>1, <3>2, <4>1
    <3> QED BY <3>3, <3>4
  <2>15. Clusters(pairs, E \cup {<<x, y>>}, [parent |-> P, rank |-> K], T, B + 1)
    BY <2>12, <2>13, <2>14 DEF Clusters
  <2> QED BY <2>4, <2>15 DEF Held
<1> QED BY <1>5, <1>6

\* The inner loop: a document and all others.
LEMMA ComparedHolds ==
  ASSUME NEW pairs \in SUBSET (Dups \X Dups), NEW E, NEW uf, Held(pairs, E, uf), NEW i \in Dups
  PROVE  Held(pairs, E \cup {p \in pairs : p[1] = i}, Compared(pairs, uf, i))
<1> DEFINE S == {u \in UnionFind : \E e : Held(pairs, e, u)}
           Does(g) == g = [j \in 0..MaxDups |->
             IF j = 0 THEN uf ELSE IF <<i, j>> \in pairs THEN Union(g[j - 1], i, j) ELSE g[j - 1]]
           Next1(u, j) == IF <<i, j>> \in pairs THEN Union(u, i, j) ELSE u
           Upto(n) == E \cup {p \in pairs : p[1] = i /\ p[2] <= n}
<1>1. MaxDups \in Nat
  BY SearchingAssumption
<1>2. \A u, e : Held(pairs, e, u) => u \in S
  BY ZenonT(60) DEF Held, Clusters, Forest
<1>3. ASSUME NEW u \in S, NEW j \in 1..MaxDups PROVE Next1(u, j) \in S
  <2>1. PICK e : Held(pairs, e, u)
    OBVIOUS
  <2> HIDE DEF S
  <2>2. CASE <<i, j>> \in pairs
    <3>1. j \in Dups
      BY DEF Dups
    <3>2. Held(pairs, e \cup {<<i, j>>}, Union(u, i, j))
      BY <2>1, <2>2, <3>1, UnionHolds
    <3>3. Union(u, i, j) \in S
      BY <1>2, <3>2
    <3> QED BY <2>2, <3>3
  <2>3. CASE <<i, j>> \notin pairs
    BY <2>3
  <2> QED BY <2>2, <2>3
<1>4. uf \in S
  BY <1>2
<1> HIDE DEF S
<1>5. PICK step : step = [p \in (1..MaxDups) \X S |-> Next1(p[2], p[1])]
  OBVIOUS
<1>6. \A j \in 1..MaxDups, u \in S : step[<<j, u>>] = Next1(u, j)
  <2> HIDE DEF Next1
  <2> QED BY <1>5
<1>7. step \in [(1..MaxDups) \X S -> S]
  <2> HIDE DEF Next1
  <2>1. \A p \in (1..MaxDups) \X S : Next1(p[2], p[1]) \in S
    BY <1>3
  <2> QED BY <1>5, <2>1
<1>8. PICK f : Iterated(MaxDups, S, uf, step, f)
  BY <1>1, <1>4, <1>7, Iterates
<1>9. Does(f)
  <2>1. f = [j \in 0..MaxDups |-> f[j]] /\ f[0] = uf
    BY <1>8 DEF Iterated
  <2>2. \A j \in 0..MaxDups : f[j] = IF j = 0 THEN uf ELSE Next1(f[j - 1], j)
    <3> SUFFICES ASSUME NEW j \in 0..MaxDups, j # 0 PROVE f[j] = Next1(f[j - 1], j)
      BY <2>1
    <3>1. j \in 1..MaxDups /\ j - 1 \in 0..MaxDups
      BY <1>1
    <3>2. f[j] = step[<<j, f[j - 1]>>] /\ f[j - 1] \in S
      BY <1>8, <3>1 DEF Iterated
    <3> HIDE DEF Next1
    <3> QED BY <1>6, <3>1, <3>2
  <2> QED BY <2>1, <2>2
<1>10. PICK g : Does(g) /\ Compared(pairs, uf, i) = g[MaxDups]
  <2> DEFINE compared == CHOOSE g : Does(g)
  <2>1. Compared(pairs, uf, i) = compared[MaxDups]
    BY DEF Compared
  <2> HIDE DEF Does
  <2>2. Does(compared)
    BY <1>9
  <2> QED BY <2>1, <2>2
<1>11. \A j \in 0..MaxDups : g[j] = IF j = 0 THEN uf ELSE Next1(g[j - 1], j)
  BY <1>10
<1> HIDE DEF Does, Next1
<1> DEFINE G == {n \in 0..MaxDups : Held(pairs, Upto(n), g[n])}
<1>12. \A p \in pairs : p[1] \in Dups /\ p[2] \in 1..MaxDups /\ p = <<p[1], p[2]>>
  BY DEF Dups
<1>13. 0 \in G
  <2>1. Upto(0) = E
    <3>1. \A p \in pairs : ~(p[2] <= 0)
      BY <1>1, <1>12
    <3> QED BY <3>1
  <2>2. 0 \in 0..MaxDups
    BY <1>1
  <2>3. g[0] = uf
    BY <1>11, <2>2
  <2> HIDE DEF Upto
  <2> QED BY <2>1, <2>2, <2>3
<1>14. ASSUME NEW n \in 1..MaxDups, n - 1 \in G PROVE n \in G
  <2>1. n \in 0..MaxDups /\ n # 0
    BY <1>1
  <2>2. Held(pairs, Upto(n - 1), g[n - 1]) /\ g[n] = Next1(g[n - 1], n)
    BY <1>11, <1>14, <2>1
  <2>3. \A p \in pairs : p[2] <= n <=> p[2] <= n - 1 \/ p[2] = n
    BY <1>1, <1>12
  <2>4. CASE <<i, n>> \in pairs
    <3>1. g[n] = Union(g[n - 1], i, n)
      BY <2>2, <2>4 DEF Next1
    <3>2. Upto(n) = Upto(n - 1) \cup {<<i, n>>}
      <4>1. <<i, n>>[1] = i /\ <<i, n>>[2] = n /\ n <= n
        BY <1>1
      <4>2. \A p \in pairs : p[1] = i /\ p[2] = n <=> p = <<i, n>>
        BY <1>12
      <4> QED BY <2>3, <2>4, <4>1, <4>2
    <3>3. n \in Dups
      BY DEF Dups
    <3> HIDE DEF Upto
    <3>4. Held(pairs, Upto(n - 1) \cup {<<i, n>>}, Union(g[n - 1], i, n))
      BY <2>2, <2>4, <3>3, UnionHolds
    <3> QED BY <2>1, <3>1, <3>2, <3>4
  <2>5. CASE <<i, n>> \notin pairs
    <3>1. g[n] = g[n - 1]
      BY <2>2, <2>5 DEF Next1
    <3>2. Upto(n) = Upto(n - 1)
      <4>1. \A p \in pairs : ~(p[1] = i /\ p[2] = n)
        BY <1>12, <2>5
      <4> QED BY <2>3, <4>1
    <3> HIDE DEF Upto
    <3> QED BY <2>1, <2>2, <3>1, <3>2
  <2> QED BY <2>4, <2>5
<1>15. MaxDups \in G
  <2>1. G \in SUBSET (0..MaxDups) /\ MaxDups \in 0..MaxDups
    BY <1>1
  <2> HIDE DEF G
  <2>2. \A n \in 0..MaxDups : n \in G
    BY <1>1, <1>13, <1>14, <2>1, UpToBound
  <2> QED BY <2>1, <2>2
<1>16. Upto(MaxDups) = E \cup {p \in pairs : p[1] = i}
  <2>1. \A p \in pairs : p[2] <= MaxDups
    BY <1>1, <1>12
  <2> QED BY <2>1
<1> HIDE DEF Upto
<1> QED BY <1>10, <1>15, <1>16

\* Both loops: all pairs.
LEMMA ClusteredHolds ==
  ASSUME NEW pairs \in SUBSET (Dups \X Dups)
  PROVE  Held(pairs, pairs, Clustered(pairs))
<1> DEFINE S == {u \in UnionFind : \E e : Held(pairs, e, u)}
           start == [parent |-> [x \in 1..MaxDups |-> x], rank |-> [x \in 1..MaxDups |-> 0]]
           Does(g) == g = [i \in 0..MaxDups |->
             IF i = 0 THEN [parent |-> [x \in 1..MaxDups |-> x], rank |-> [x \in 1..MaxDups |-> 0]]
             ELSE Compared(pairs, g[i - 1], i)]
           Upto(n) == {p \in pairs : p[1] <= n}
<1>1. MaxDups \in Nat
  BY SearchingAssumption
<1>2. \A u, e : Held(pairs, e, u) => u \in S
  BY DEF Held, Clusters, Forest
<1>3. Held(pairs, {}, start)
  <2>1. PICK P : P = [x \in Dups |-> x]
    OBVIOUS
  <2>2. PICK K : K = [x \in Dups |-> 0]
    OBVIOUS
  <2>3. PICK u : u = [parent |-> P, rank |-> K]
    OBVIOUS
  <2>4. P \in [Dups -> Dups] /\ \A x \in Dups : P[x] = x
    BY <2>1
  <2>5. K \in [Dups -> Nat] /\ \A x \in Dups : K[x] = 0
    BY <2>2
  <2>6. u \in UnionFind /\ u.parent = P /\ u.rank = K
    BY <2>3, <2>4, <2>5 DEF UnionFind
  <2>7. Forest(u, P, 0)
    BY <2>4, <2>5, <2>6 DEF Forest
  <2>8. Clusters(pairs, {}, u, P, 0)
    BY <2>4, <2>7 DEF Clusters
  <2>9. start = u
    BY <2>1, <2>2, <2>3 DEF Dups
  <2> QED BY <2>8, <2>9 DEF Held
<1>4. start \in S
  BY <1>2, <1>3
<1>5. ASSUME NEW u \in S, NEW i \in 1..MaxDups PROVE Compared(pairs, u, i) \in S
  <2>1. PICK e : Held(pairs, e, u)
    OBVIOUS
  <2>2. i \in Dups
    BY DEF Dups
  <2>3. Held(pairs, e \cup {p \in pairs : p[1] = i}, Compared(pairs, u, i))
    BY <2>1, <2>2, ComparedHolds
  <2> HIDE DEF S
  <2> QED BY <1>2, <2>3
<1> HIDE DEF S
<1>6. PICK step : step = [p \in (1..MaxDups) \X S |-> Compared(pairs, p[2], p[1])]
  OBVIOUS
<1>7. \A i \in 1..MaxDups, u \in S : step[<<i, u>>] = Compared(pairs, u, i)
  BY <1>6
<1>8. step \in [(1..MaxDups) \X S -> S]
  <2>1. \A p \in (1..MaxDups) \X S : Compared(pairs, p[2], p[1]) \in S
    BY <1>5
  <2> QED BY <1>6, <2>1
<1>9. PICK first : first = start
  OBVIOUS
<1>10. PICK f : Iterated(MaxDups, S, first, step, f)
  <2>1. first \in S
    BY <1>4, <1>9
  <2> QED BY <1>1, <1>8, <2>1, Iterates
<1>11. Does(f)
  <2>1. f = [i \in 0..MaxDups |-> f[i]] /\ f[0] = first
    BY <1>10 DEF Iterated
  <2>2. \A i \in 0..MaxDups : f[i] = IF i = 0 THEN first ELSE Compared(pairs, f[i - 1], i)
    <3> SUFFICES ASSUME NEW i \in 0..MaxDups, i # 0 PROVE f[i] = Compared(pairs, f[i - 1], i)
      BY <2>1
    <3>1. i \in 1..MaxDups /\ i - 1 \in 0..MaxDups
      BY <1>1
    <3>2. f[i] = step[<<i, f[i - 1]>>] /\ f[i - 1] \in S
      BY <1>10, <3>1 DEF Iterated
    <3> QED BY <1>7, <3>1, <3>2
  <2> QED BY <1>9, <2>1, <2>2
<1>12. PICK g : Does(g) /\ Clustered(pairs) = g[MaxDups]
  <2> DEFINE clustered == CHOOSE g : Does(g)
  <2>1. Clustered(pairs) = clustered[MaxDups]
    BY DEF Clustered
  <2> HIDE DEF Does
  <2>2. Does(clustered)
    BY <1>11
  <2> QED BY <2>1, <2>2
<1>13. \A i \in 0..MaxDups : g[i] = IF i = 0 THEN first ELSE Compared(pairs, g[i - 1], i)
  BY <1>9, <1>12
<1> HIDE DEF Does
<1> DEFINE G == {n \in 0..MaxDups : Held(pairs, Upto(n), g[n])}
<1>14. \A p \in pairs : p[1] \in 1..MaxDups
  BY DEF Dups
<1>15. 0 \in G
  <2>1. Upto(0) = {}
    <3>1. \A p \in pairs : ~(p[1] <= 0)
      BY <1>1, <1>14
    <3> QED BY <3>1
  <2>2. 0 \in 0..MaxDups
    BY <1>1
  <2>3. g[0] = first
    BY <1>13, <2>2
  <2> HIDE DEF Upto
  <2> QED BY <1>3, <1>9, <2>1, <2>2, <2>3
<1>16. ASSUME NEW n \in 1..MaxDups, n - 1 \in G PROVE n \in G
  <2>1. n \in 0..MaxDups /\ n # 0
    BY <1>1
  <2>2. Held(pairs, Upto(n - 1), g[n - 1]) /\ g[n] = Compared(pairs, g[n - 1], n)
    BY <1>13, <1>16, <2>1
  <2>3. Upto(n) = Upto(n - 1) \cup {p \in pairs : p[1] = n}
    <3>1. \A p \in pairs : p[1] <= n <=> p[1] <= n - 1 \/ p[1] = n
      BY <1>1, <1>14
    <3> QED BY <3>1
  <2>4. n \in Dups
    BY DEF Dups
  <2> HIDE DEF Upto
  <2>5. Held(pairs, Upto(n - 1) \cup {p \in pairs : p[1] = n}, Compared(pairs, g[n - 1], n))
    BY <2>2, <2>4, ComparedHolds
  <2> QED BY <2>1, <2>2, <2>3, <2>5
<1>17. MaxDups \in G
  <2>1. G \in SUBSET (0..MaxDups) /\ MaxDups \in 0..MaxDups
    BY <1>1
  <2> HIDE DEF G
  <2>2. \A n \in 0..MaxDups : n \in G
    BY <1>1, <1>15, <1>16, <2>1, UpToBound
  <2> QED BY <2>1, <2>2
<1>18. Upto(MaxDups) = pairs
  <2>1. \A p \in pairs : p[1] <= MaxDups
    BY <1>1, <1>14
  <2> QED BY <2>1
<1> HIDE DEF Upto
<1> QED BY <1>12, <1>17, <1>18

\* The groups of findSimilarDuplicates are the components of similarity.
LEMMA GroupsAreExact ==
  ASSUME NEW pairs \in SUBSET (Dups \X Dups)
  PROVE  LET similar(i, j) == <<i, j>> \in pairs \/ <<j, i>> \in pairs
             closed(S) == \A i \in S, j \in 1..MaxDups : similar(i, j) => j \in S
             component(i) == CHOOSE S \in SUBSET (1..MaxDups) :
                               /\ i \in S /\ closed(S)
                               /\ \A R \in SUBSET S : i \in R /\ closed(R) => R = S
         IN Groups(pairs) = {component(i) : i \in 1..MaxDups}
<1> DEFINE similar(i, j) == <<i, j>> \in pairs \/ <<j, i>> \in pairs
           closed(S) == \A i \in S, j \in 1..MaxDups : similar(i, j) => j \in S
           Least1(i, S) == /\ i \in S /\ closed(S)
                           /\ \A R \in SUBSET S : i \in R /\ closed(R) => R = S
           component(i) == CHOOSE S \in SUBSET (1..MaxDups) : Least1(i, S)
<1>1. PICK R, B : Clusters(pairs, pairs, Clustered(pairs), R, B)
  BY ClusteredHolds DEF Held
<1>2. FindRoot(Clustered(pairs).parent) = R
  BY <1>1, RootIs DEF Clusters
<1>3. /\ R \in [Dups -> Dups]
      /\ \A i, j \in Dups : <<i, j>> \in pairs => R[i] = R[j]
      /\ \A S \in SUBSET Dups : Closed(pairs, S) => \A i, j \in Dups : R[i] = R[j] /\ i \in S => j \in S
  BY <1>1 DEF Clusters, Forest
<1>4. \A S : closed(S) <=> Closed(pairs, S)
  BY DEF Closed, Similar, Dups
<1> DEFINE Class(i) == {j \in Dups : R[j] = R[i]}
<1>5. ASSUME NEW i \in Dups PROVE component(i) = Class(i)
  <2>1. Class(i) \in SUBSET Dups /\ i \in Class(i)
    OBVIOUS
  <2>2. Closed(pairs, Class(i))
    BY <1>3 DEF Closed, Similar
  <2>3. ASSUME NEW S \in SUBSET Dups, i \in S, Closed(pairs, S) PROVE Class(i) \subseteq S
    BY <1>3, <2>3
  <2> HIDE DEF Class, closed
  <2>4. Least1(i, Class(i))
    BY <1>4, <2>1, <2>2, <2>3
  <2>5. \A S \in SUBSET Dups : Least1(i, S) => S = Class(i)
    BY <1>4, <2>1, <2>2, <2>3
  <2> HIDE DEF Least1
  <2>6. Class(i) \in SUBSET (1..MaxDups) /\ \A S \in SUBSET (1..MaxDups) : Least1(i, S) => S = Class(i)
    BY <2>1, <2>5 DEF Dups
  <2> QED BY <2>4, <2>6
<1>6. Groups(pairs) = {Class(i) : i \in Dups}
  BY <1>2 DEF Groups, Dups
<1> HIDE DEF component, Class
<1>7. Groups(pairs) = {component(i) : i \in 1..MaxDups}
  BY <1>5, <1>6 DEF Dups
<1> QED BY <1>7 DEF component

-----------------------------------------------------------------------------
(* Curation. *)

\* As many items as places, when no item has two.
OneByOne(n, f, S) ==
  /\ f \in [1..n -> S]
  /\ \A i, j \in 1..n : f[i] = f[j] => i = j
  /\ \A s \in S : \E i \in 1..n : f[i] = s

\* A set counted one by one has so many elements.
LEMMA CountIs ==
  ASSUME NEW n \in Nat, NEW f, NEW S, OneByOne(n, f, S)
  PROVE  IsFiniteSet(S) /\ Cardinality(S) = n
<1>1. f \in Bijection(1..n, S)
  BY Fun_IsBij DEF OneByOne
<1>2. IsFiniteSet(1..n) /\ Cardinality(1..n) = n
  BY FS_Interval
<1>3. ExistsBijection(1..n, S)
  BY <1>1 DEF ExistsBijection
<1> QED BY <1>2, <1>3, FS_Bijection

\* pinLess orders pins of different keys.
LEMMA PinsAre ==
  \A p \in Pins : p.key \in Nat /\ p.pos \in Nat
  BY DEF Pins, PinKeys, Positions

\* pinLess is an order, and no two keys tie.
LEMMA PinOrder ==
  /\ \A a \in Pins : ~PinLess(a, a)
  /\ \A a, b \in Pins : a.key # b.key => PinLess(a, b) \/ PinLess(b, a)
  /\ \A a, b \in Pins : ~(PinLess(a, b) /\ PinLess(b, a))
  /\ \A a, b, c \in Pins : PinLess(a, b) /\ PinLess(b, c) => PinLess(a, c)
<1>1. \A a \in Pins : ~PinLess(a, a)
  BY PinsAre DEF PinLess
<1>2. \A a, b \in Pins : a.key # b.key => PinLess(a, b) \/ PinLess(b, a)
  BY PinsAre DEF PinLess
<1>3. \A a, b \in Pins : ~(PinLess(a, b) /\ PinLess(b, a))
  BY PinsAre DEF PinLess
<1>4. \A a, b, c \in Pins : PinLess(a, b) /\ PinLess(b, c) => PinLess(a, c)
  BY PinsAre DEF PinLess
<1> QED BY <1>1, <1>2, <1>3, <1>4

\* The pins in their order: every pin has its place, behind those less than it.
LEMMA SortedPinsAre ==
  ASSUME NEW S \in SUBSET Pins, IsFiniteSet(S), \A p, q \in S : p.key = q.key => p = q
  PROVE  LET s == SortedPins(S)
         IN /\ s \in Seq(Pins) /\ s \in Seq(S)
            /\ \A i, j \in 1..Len(s) : i < j => PinLess(s[i], s[j])
            /\ \A p \in S : \E i \in 1..Len(s) : s[i] = p
<1> DEFINE n == Cardinality(S)
           Sorted(s) == \A i, j \in DOMAIN s : i < j => PinLess(s[i], s[j])
           Below(p) == {q \in S : PinLess(q, p)}
<1>1. n \in Nat
  BY FS_CardinalityType
<1>2. ASSUME NEW p \in S PROVE Cardinality(Below(p)) \in 0..n - 1
  <2>1. Below(p) \in SUBSET (S \ {p})
    BY PinOrder
  <2> HIDE DEF Below
  <2>2. IsFiniteSet(S \ {p}) /\ Cardinality(S \ {p}) = n - 1
    BY FS_RemoveElement
  <2>3. IsFiniteSet(Below(p)) /\ Cardinality(Below(p)) <= n - 1
    BY <2>1, <2>2, FS_Subset
  <2>4. Cardinality(Below(p)) \in Nat
    BY <2>3, FS_CardinalityType
  <2> QED BY <1>1, <2>3, <2>4
<1>3. ASSUME NEW p \in S, NEW q \in S, PinLess(p, q) PROVE Cardinality(Below(p)) < Cardinality(Below(q))
  <2>1. Below(p) \in SUBSET (Below(q) \ {p}) /\ p \in Below(q) /\ Below(q) \in SUBSET S
    BY <1>3, PinOrder
  <2> HIDE DEF Below
  <2>2. IsFiniteSet(Below(q)) /\ IsFiniteSet(Below(q) \ {p}) /\ Cardinality(Below(q) \ {p}) = Cardinality(Below(q)) - 1
    BY <2>1, FS_Subset, FS_RemoveElement
  <2>3. IsFiniteSet(Below(p)) /\ Cardinality(Below(p)) <= Cardinality(Below(q)) - 1
    BY <2>1, <2>2, FS_Subset
  <2>4. Cardinality(Below(p)) \in Nat /\ Cardinality(Below(q)) \in Nat
    BY <2>2, <2>3, FS_CardinalityType
  <2> QED BY <2>3, <2>4
<1> HIDE DEF Below
<1>4. PICK rank : rank = [p \in S |-> Cardinality(Below(p)) + 1]
  OBVIOUS
<1>5. rank \in [S -> 1..n]
  <2>1. \A p \in S : Cardinality(Below(p)) + 1 \in 1..n
    BY <1>1, <1>2
  <2> QED BY <1>4, <2>1
<1>6. \A p, q \in S : PinLess(p, q) => rank[p] < rank[q]
  <2>1. \A p \in S : rank[p] = Cardinality(Below(p)) + 1 /\ Cardinality(Below(p)) \in Int
    BY <1>1, <1>2, <1>4
  <2> QED BY <1>3, <2>1
<1>7. \A p, q \in S : p # q => PinLess(p, q) \/ PinLess(q, p)
  BY PinOrder
<1>8. rank \in Injection(S, 1..n)
  <2>1. \A p, q \in S : rank[p] = rank[q] => p = q
    <3>1. \A p \in S : rank[p] \in Int
      BY <1>1, <1>5
    <3> QED BY <1>6, <1>7, <3>1
  <2> QED BY <1>5, <2>1, Fun_IsInj
<1>9. \A i \in 1..n : \E p \in S : rank[p] = i
  <2>1. IsFiniteSet(1..n) /\ Cardinality(1..n) = Cardinality(S)
    BY <1>1, FS_Interval
  <2>2. rank \in Surjection(S, 1..n)
    BY <1>8, <2>1, FS_Injection
  <2> QED BY <2>2 DEF Surjection
<1> HIDE DEF n
<1>10. PICK t : t = [i \in 1..n |-> CHOOSE p \in S : rank[p] = i]
  OBVIOUS
<1>11. t \in [1..n -> S] /\ \A i \in 1..n : rank[t[i]] = i
  <2>1. \A i \in 1..n : t[i] \in S /\ rank[t[i]] = i
    <3> SUFFICES ASSUME NEW i \in 1..n PROVE t[i] \in S /\ rank[t[i]] = i
      OBVIOUS
    <3>1. t[i] = CHOOSE p \in S : rank[p] = i
      BY <1>10
    <3> QED BY <1>9, <3>1
  <2> QED BY <1>10, <2>1
<1>12. Sorted(t)
  <2> SUFFICES ASSUME NEW i \in 1..n, NEW j \in 1..n, i < j PROVE PinLess(t[i], t[j])
    BY <1>11
  <2>1. t[i] \in S /\ t[j] \in S /\ rank[t[i]] = i /\ rank[t[j]] = j
    BY <1>11
  <2>2. ~PinLess(t[j], t[i]) /\ t[i] # t[j]
    BY <1>6, <2>1
  <2> QED BY <1>7, <2>1, <2>2
<1>13. PICK s : s = SortedPins(S)
  OBVIOUS
<1>14. s \in [1..n -> S] /\ Sorted(s)
  <2>1. s = CHOOSE r \in [1..n -> S] : Sorted(r)
    BY <1>13 DEF SortedPins, n
  <2> HIDE DEF Sorted
  <2> QED BY <1>11, <1>12, <2>1
<1>15. s \in Seq(S) /\ Len(s) = n
  BY <1>1, <1>14, SeqDef, LenProperties
<1>16. s \in Injection(1..n, S)
  <2>1. \A i, j \in 1..n : s[i] = s[j] => i = j
    <3> SUFFICES ASSUME NEW i \in 1..n, NEW j \in 1..n, i < j PROVE s[i] # s[j]
      BY <1>1
    <3>1. PinLess(s[i], s[j]) /\ s[i] \in Pins /\ s[j] \in Pins
      BY <1>14
    <3> QED BY <3>1, PinOrder
  <2> QED BY <1>14, <2>1, Fun_IsInj
<1>17. \A p \in S : \E i \in 1..n : s[i] = p
  <2>1. IsFiniteSet(1..n) /\ Cardinality(1..n) = Cardinality(S)
    BY <1>1, FS_Interval DEF n
  <2>2. s \in Surjection(1..n, S)
    BY <1>16, <2>1, FS_Injection
  <2> QED BY <2>2 DEF Surjection
<1>18. s \in Seq(Pins)
  <2>1. s \in [1..n -> Pins]
    BY <1>14
  <2> QED BY <1>1, <2>1, SeqDef
<1>19. \A i, j \in 1..n : i < j => PinLess(s[i], s[j])
  BY <1>14
<1> QED BY <1>13, <1>15, <1>17, <1>18, <1>19

\* The slots of what is spliced so far: ob of the organic results, at of the front pins.  A pin
\* stands at its position or, where there are not enough results to reach it, at the end.
Ordered(front) == \A i, j \in 1..Len(front) : i < j => front[i].pos < front[j].pos
SlotOf(base, front, i) == IF front[i].pos <= Len(base) + i THEN front[i].pos ELSE Len(base) + i

Woven(base, front, n, acc, ob, at) ==
  /\ acc.out \in Seq(Nat) /\ acc.used \in 0..Len(base) /\ Len(acc.out) = acc.used + n
  /\ ob \in [1..acc.used -> 1..Len(acc.out)] /\ at \in [1..n -> 1..Len(acc.out)]
  /\ \A g, h \in 1..acc.used : g < h => ob[g] < ob[h]
  /\ \A g \in 1..acc.used : acc.out[ob[g]] = base[g]
  /\ \A i \in 1..n : acc.out[at[i]] = front[i].key
  /\ \A l \in 1..Len(acc.out) : (\E g \in 1..acc.used : ob[g] = l) \/ (\E i \in 1..n : at[i] = l)
  /\ IF n = 0 THEN Len(acc.out) = 0 ELSE at[n] = Len(acc.out)
  /\ Ordered(front) => \A i \in 1..n : at[i] = SlotOf(base, front, i)

\* What is spliced so far is of this type.
Splices(base) == [out : Seq(Nat), used : 0..Len(base)]

\* How many organic results fill the slots before a pin: as many as fit, and as there are.
LEMMA FillIs ==
  ASSUME NEW base \in Seq(Nat), NEW front \in Seq(Pins), NEW n \in 1..Len(front), NEW acc \in Splices(base)
  PROVE  LET room == front[n].pos - 1 - Len(acc.out)
             left == Len(base) - acc.used
         IN /\ room \in Int /\ left \in Nat
            /\ Fill(base, front, n, acc) = IF room <= 0 THEN 0 ELSE IF room <= left THEN room ELSE left
            /\ Fill(base, front, n, acc) \in 0..left
<1> DEFINE room == front[n].pos - 1 - Len(acc.out)
           left == Len(base) - acc.used
<1>1. room \in Int /\ left \in Nat
  <2>1. front[n] \in Pins
    BY ElementOfSeq
  <2>2. acc.out \in Seq(Nat) /\ acc.used \in 0..Len(base)
    BY DEF Splices
  <2>3. front[n].pos \in Int /\ Len(acc.out) \in Int /\ Len(base) \in Nat
    BY <2>1, <2>2, PinsAre, LenProperties
  <2> QED BY SMTT(30), <2>2, <2>3
<1>2. Fill(base, front, n, acc) = Least({Greatest({0, room}), left})
  BY DEF Fill
<1> HIDE DEF room, left
<1>3. Greatest({0, room}) = IF room <= 0 THEN 0 ELSE room
  <2>1. \E x \in {0, room} : \A y \in {0, room} : x >= y
    BY <1>1
  <2>2. Greatest({0, room}) \in {0, room} /\ \A y \in {0, room} : Greatest({0, room}) >= y
    BY <2>1 DEF Greatest
  <2> QED BY <1>1, <2>2
<1>4. Greatest({0, room}) \in Nat
  BY <1>1, <1>3
<1>5. Least({Greatest({0, room}), left}) = IF Greatest({0, room}) <= left THEN Greatest({0, room}) ELSE left
  BY <1>1, <1>4, LeastOfTwo
<1> QED BY <1>1, <1>2, <1>3, <1>5 DEF room, left

\* One more pin.
LEMMA SplicedIs ==
  ASSUME NEW base \in Seq(Nat), NEW front \in Seq(Pins), NEW n \in 1..Len(front), NEW acc \in Splices(base)
  PROVE  LET next == Spliced(base, front, n, acc)
             fill == Fill(base, front, n, acc)
             old == Len(acc.out)
         IN /\ next \in Splices(base) /\ next.used = acc.used + fill /\ Len(next.out) = old + fill + 1
            /\ \A l \in 1..old : next.out[l] = acc.out[l]
            /\ \A l \in old + 1..old + fill : next.out[l] = base[acc.used + l - old]
            /\ next.out[old + fill + 1] = front[n].key
<1> DEFINE fill == Fill(base, front, n, acc)
           old == Len(acc.out)
           middle == SubSeq(base, acc.used + 1, acc.used + fill)
           last == <<front[n].key>>
<1>1. /\ acc.out \in Seq(Nat) /\ acc.used \in 0..Len(base) /\ old \in Nat /\ Len(base) \in Nat
      /\ fill \in 0..Len(base) - acc.used /\ front[n].key \in Nat
  <2>1. acc.out \in Seq(Nat) /\ acc.used \in 0..Len(base)
    BY DEF Splices
  <2>2. front[n] \in Pins
    BY ElementOfSeq
  <2>3. fill \in 0..Len(base) - acc.used
    BY FillIs
  <2> QED BY <2>1, <2>2, <2>3, PinsAre, LenProperties
<1> HIDE DEF fill, old
<1>2. /\ middle \in Seq(Nat) /\ Len(middle) = fill
      /\ \A i \in 1..fill : middle[i] = base[acc.used + i]
  <2>1. acc.used + 1 \in Nat \ {0} /\ acc.used + fill \in Nat /\ acc.used + fill <= Len(base) /\ acc.used + 1 <= acc.used + fill + 1
    BY <1>1
  <2>2. (acc.used + fill) - (acc.used + 1) + 1 = fill
    BY <1>1
  <2>3. \A i \in 1..fill : acc.used + 1 + i - 1 = acc.used + i
    BY <1>1
  <2>4. /\ middle \in Seq(Nat)
        /\ Len(middle) = (acc.used + fill) - (acc.used + 1) + 1
        /\ \A i \in 1..(acc.used + fill) - (acc.used + 1) + 1 : middle[i] = base[acc.used + 1 + i - 1]
    BY ZenonT(60), <2>1, SliceIs
  <2> QED BY <2>2, <2>3, <2>4
<1>3. last \in Seq(Nat) /\ Len(last) = 1 /\ last[1] = front[n].key
  BY <1>1
<1> HIDE DEF middle, last
<1>4. PICK out : out = acc.out \o middle \o last
  OBVIOUS
<1>5. InTurn(Nat, acc.out, middle, last, out)
  BY <1>1, <1>2, <1>3, <1>4, ThreeJoined
<1>6. /\ out \in Seq(Nat) /\ Len(out) = old + fill + 1
      /\ \A l \in 1..old : out[l] = acc.out[l]
      /\ \A l \in old + 1..old + fill : out[l] = middle[l - old]
      /\ \A l \in old + fill + 1..old + fill + 1 : out[l] = last[l - old - fill]
  BY <1>2, <1>3, <1>5 DEF InTurn, old
<1>7. out[old + fill + 1] = front[n].key
  <2>1. old + fill + 1 \in old + fill + 1..old + fill + 1 /\ (old + fill + 1) - old - fill = 1
    BY <1>1
  <2>2. out[old + fill + 1] = last[(old + fill + 1) - old - fill]
    BY <1>6, <2>1
  <2> QED BY <1>3, <2>1, <2>2
<1>8. \A l \in old + 1..old + fill : out[l] = base[acc.used + l - old]
  <2> SUFFICES ASSUME NEW l \in old + 1..old + fill PROVE out[l] = base[acc.used + l - old]
    OBVIOUS
  <2>1. l - old \in 1..fill /\ acc.used + (l - old) = acc.used + l - old
    BY SMTT(30), <1>1
  <2>2. out[l] = middle[l - old]
    BY <1>6
  <2> QED BY <1>2, <2>1, <2>2
<1>9. Spliced(base, front, n, acc) = [out |-> out, used |-> acc.used + fill]
  BY <1>4 DEF Spliced, fill, middle, last
<1>10. PICK next : next = Spliced(base, front, n, acc)
  OBVIOUS
<1>11. next.out = out /\ next.used = acc.used + fill
  BY <1>9, <1>10
<1>12. next \in Splices(base)
  <2>1. acc.used + fill \in 0..Len(base)
    BY <1>1
  <2> QED BY <1>6, <1>9, <1>10, <2>1 DEF Splices
<1> QED BY <1>6, <1>7, <1>8, <1>10, <1>11, <1>12 DEF old, fill

\* One more pin keeps the slots woven.
LEMMA WovenMore ==
  ASSUME NEW base \in Seq(Nat), NEW front \in Seq(Pins), \A i \in 1..Len(front) : front[i].pos > 0,
         NEW n \in 1..Len(front), NEW acc \in Splices(base), NEW ob, NEW at, Woven(base, front, n - 1, acc, ob, at)
  PROVE  \E obs, ats : Woven(base, front, n, Spliced(base, front, n, acc), obs, ats)
<1> DEFINE fill == Fill(base, front, n, acc)
           old == Len(acc.out)
           used == acc.used
           size == Len(base)
<1>1. PICK next : next = Spliced(base, front, n, acc)
  OBVIOUS
<1>2. /\ next \in Splices(base) /\ next.used = used + fill /\ Len(next.out) = old + fill + 1
      /\ \A l \in 1..old : next.out[l] = acc.out[l]
      /\ \A l \in old + 1..old + fill : next.out[l] = base[used + l - old]
      /\ next.out[old + fill + 1] = front[n].key
  BY <1>1, SplicedIs
<1>3. /\ front[n].pos - 1 - old \in Int /\ size - used \in Nat
      /\ fill = IF front[n].pos - 1 - old <= 0 THEN 0
                ELSE IF front[n].pos - 1 - old <= size - used THEN front[n].pos - 1 - old ELSE size - used
      /\ fill \in 0..size - used
  BY FillIs
<1>4. /\ acc.out \in Seq(Nat) /\ used \in 0..size /\ old = used + (n - 1)
      /\ ob \in [1..used -> 1..old] /\ at \in [1..n - 1 -> 1..old]
      /\ \A g, h \in 1..used : g < h => ob[g] < ob[h]
      /\ \A g \in 1..used : acc.out[ob[g]] = base[g]
      /\ \A i \in 1..n - 1 : acc.out[at[i]] = front[i].key
      /\ \A l \in 1..old : (\E g \in 1..used : ob[g] = l) \/ (\E i \in 1..n - 1 : at[i] = l)
      /\ IF n - 1 = 0 THEN old = 0 ELSE at[n - 1] = old
      /\ Ordered(front) => \A i \in 1..n - 1 : at[i] = SlotOf(base, front, i)
  BY DEF Woven
<1>5. old \in Nat /\ size \in Nat /\ n \in Nat /\ Len(front) \in Nat /\ used \in Nat
  BY <1>4, LenProperties
<1>6. \A i \in 1..Len(front) : front[i].pos \in Nat /\ front[i].key \in Nat
  BY PinsAre, ElementOfSeq
<1> HIDE DEF fill, old, used, size
<1>7. fill \in Nat /\ used + fill \in 0..size
  BY <1>3, <1>4, <1>5
<1>8. PICK obs : obs = [g \in 1..used + fill |-> IF g <= used THEN ob[g] ELSE old + (g - used)]
  OBVIOUS
<1>9. PICK ats : ats = [i \in 1..n |-> IF i = n THEN old + fill + 1 ELSE at[i]]
  OBVIOUS
<1>10. /\ \A g \in 1..used : g \in 1..used + fill /\ obs[g] = ob[g] /\ ob[g] \in 1..old
       /\ \A g \in used + 1..used + fill : g \in 1..used + fill /\ obs[g] = old + (g - used)
       /\ \A g \in 1..used + fill : g \in 1..used \/ g \in used + 1..used + fill
  <2>1. /\ \A g \in 1..used : g \in 1..used + fill /\ g <= used
        /\ \A g \in used + 1..used + fill : g \in 1..used + fill /\ ~(g <= used)
        /\ \A g \in 1..used + fill : g \in 1..used \/ g \in used + 1..used + fill
    BY <1>5, <1>7
  <2>2. \A g \in 1..used + fill : obs[g] = IF g <= used THEN ob[g] ELSE old + (g - used)
    BY <1>8
  <2>3. \A g \in 1..used : ob[g] \in 1..old
    BY <1>4
  <2> QED BY <2>1, <2>2, <2>3
<1>11. /\ ats[n] = old + fill + 1 /\ n \in 1..n
       /\ \A i \in 1..n - 1 : i \in 1..n /\ ats[i] = at[i] /\ at[i] \in 1..old
       /\ \A i \in 1..n : i = n \/ i \in 1..n - 1
  <2>1. n \in 1..n /\ (\A i \in 1..n - 1 : i \in 1..n /\ i # n) /\ \A i \in 1..n : i = n \/ i \in 1..n - 1
    BY <1>5
  <2>2. \A i \in 1..n - 1 : at[i] \in 1..old
    BY <1>4
  <2> QED BY <1>9, <2>1, <2>2
<1>12. obs \in [1..used + fill -> 1..old + fill + 1]
  <2>1. \A g \in 1..used + fill : obs[g] \in 1..old + fill + 1
    <3>1. \A g \in 1..used : obs[g] \in 1..old + fill + 1
      <4>1. \A l \in 1..old : l \in 1..old + fill + 1
        BY <1>5, <1>7
      <4> QED BY <1>10, <4>1
    <3>2. \A g \in used + 1..used + fill : obs[g] \in 1..old + fill + 1
      BY <1>5, <1>7, <1>10
    <3> QED BY <1>10, <3>1, <3>2
  <2> QED BY <1>8, <2>1
<1>13. ats \in [1..n -> 1..old + fill + 1]
  <2>1. \A i \in 1..n - 1 : ats[i] \in 1..old + fill + 1
    BY SMTT(30), <1>5, <1>7, <1>11
  <2>2. ats[n] \in 1..old + fill + 1
    BY <1>5, <1>7, <1>11
  <2>3. \A i \in 1..n : ats[i] \in 1..old + fill + 1
    BY <1>11, <2>1, <2>2
  <2> QED BY <1>9, <2>3
<1>14. ASSUME NEW g \in 1..used + fill, NEW h \in 1..used + fill, g < h PROVE obs[g] < obs[h]
  <2>1. CASE h \in 1..used
    <3>1. g \in 1..used
      BY <1>5, <1>14, <2>1
    <3> QED BY <1>4, <1>10, <1>14, <2>1, <3>1
  <2>2. CASE g \in 1..used /\ h \in used + 1..used + fill
    <3>1. \A l \in 1..old, k \in used + 1..used + fill : l < old + (k - used)
      BY <1>5, <1>7
    <3> QED BY <1>10, <2>2, <3>1
  <2>3. CASE g \in used + 1..used + fill /\ h \in used + 1..used + fill
    BY <1>5, <1>10, <1>14, <2>3
  <2> QED BY <1>5, <1>10, <1>14, <2>1, <2>2, <2>3
<1>15. ASSUME NEW g \in 1..used + fill PROVE next.out[obs[g]] = base[g]
  <2>1. CASE g \in 1..used
    <3>1. obs[g] = ob[g] /\ ob[g] \in 1..old
      BY <1>10, <2>1
    <3>2. next.out[ob[g]] = acc.out[ob[g]]
      BY <1>2, <3>1
    <3> QED BY <1>4, <2>1, <3>1, <3>2
  <2>2. CASE g \in used + 1..used + fill
    <3>1. obs[g] \in old + 1..old + fill /\ used + obs[g] - old = g
      BY <1>5, <1>7, <1>10, <2>2
    <3> QED BY <1>2, <3>1
  <2> QED BY <1>10, <2>1, <2>2
<1>16. ASSUME NEW i \in 1..n PROVE next.out[ats[i]] = front[i].key
  <2>1. CASE i = n
    BY <1>2, <1>11, <2>1
  <2>2. CASE i \in 1..n - 1
    <3>1. ats[i] = at[i] /\ at[i] \in 1..old
      BY <1>11, <2>2
    <3>2. next.out[at[i]] = acc.out[at[i]]
      BY <1>2, <3>1
    <3> QED BY <1>4, <2>2, <3>1, <3>2
  <2> QED BY <1>11, <2>1, <2>2
<1>17. ASSUME NEW l \in 1..old + fill + 1
       PROVE  (\E g \in 1..used + fill : obs[g] = l) \/ (\E i \in 1..n : ats[i] = l)
  <2>1. CASE l \in 1..old
    BY ZenonT(60), <1>4, <1>10, <1>11, <2>1
  <2>2. CASE l \in old + 1..old + fill
    <3>1. used + (l - old) \in used + 1..used + fill /\ old + ((used + (l - old)) - used) = l
      BY <1>5, <1>7, <2>2
    <3> QED BY <1>10, <3>1
  <2>3. CASE l = old + fill + 1
    BY <1>11, <2>3
  <2>4. l \in 1..old \/ l \in old + 1..old + fill \/ l = old + fill + 1
    BY <1>5, <1>7
  <2> QED BY <2>1, <2>2, <2>3, <2>4
<1>18. ASSUME Ordered(front), NEW i \in 1..n PROVE ats[i] = SlotOf(base, front, i)
  <2>1. CASE i \in 1..n - 1
    BY <1>4, <1>11, <1>18, <2>1
  <2>2. CASE i = n
    <3>1. front[n].pos \in Nat /\ front[n].pos > 0
      BY <1>6
    <3>2. old <= front[n].pos - 1
      <4>1. CASE n = 1
        BY <1>4, <3>1, <4>1
      <4>2. CASE n # 1
        <5>1. n - 1 \in 1..n - 1 /\ n - 1 \in 1..Len(front) /\ n - 1 < n /\ n - 1 # 0
          BY <1>5, <4>2
        <5>2. old = SlotOf(base, front, n - 1)
          BY <1>4, <1>18, <5>1
        <5>3. front[n - 1].pos < front[n].pos /\ front[n - 1].pos \in Nat
          BY <1>6, <1>18, <5>1 DEF Ordered
        <5>4. size + (n - 1) \in Int
          BY <1>5
        <5>5. old <= front[n - 1].pos
          BY <5>2, <5>3, <5>4 DEF SlotOf, size
        <5> QED BY <1>5, <3>1, <5>3, <5>5
      <4> QED BY <4>1, <4>2
    <3>3. old = used + (n - 1)
      BY <1>4
    <3>4. old + fill + 1 = IF front[n].pos <= size + n THEN front[n].pos ELSE size + n
      <4>1. PICK p : p = front[n].pos
        OBVIOUS
      <4>2. p \in Nat /\ old \in Nat /\ old <= p - 1 /\ size \in Nat /\ used \in Nat /\ n \in Nat
        BY <1>5, <3>1, <3>2, <4>1
      <4>3. fill = IF p - 1 - old <= 0 THEN 0 ELSE IF p - 1 - old <= size - used THEN p - 1 - old ELSE size - used
        BY <1>3, <4>1
      <4>4. size - used \in Nat
        BY <1>3
      <4>5. old + fill + 1 = IF p <= size + n THEN p ELSE size + n
        BY <3>3, <4>2, <4>3, <4>4
      <4> QED BY <4>1, <4>5
    <3> QED BY <1>11, <2>2, <3>4 DEF SlotOf, size
  <2> QED BY <1>11, <2>1, <2>2
<1>19. next.out \in Seq(Nat) /\ old + fill + 1 = (used + fill) + n
  <2>1. old = used + (n - 1)
    BY <1>4
  <2> QED BY <1>2, <1>5, <1>7, <2>1 DEF Splices
<1>20. Woven(base, front, n, next, obs, ats)
  <2>1. n # 0
    BY <1>5
  <2>2. next.used = used + fill /\ Len(next.out) = old + fill + 1 /\ next.used \in 0..Len(base)
    BY <1>2, <1>7 DEF size
  <2> QED BY <1>11, <1>12, <1>13, <1>14, <1>15, <1>16, <1>17, <1>18, <1>19, <2>1, <2>2 DEF Woven
<1> QED BY <1>1, <1>20

\* All front pins.
LEMMA WovenAll ==
  ASSUME NEW base \in Seq(Nat), NEW front \in Seq(Pins), \A i \in 1..Len(front) : front[i].pos > 0, NEW placed,
         placed = CHOOSE f : f = [n \in 0..Len(front) |->
           IF n = 0 THEN [out |-> <<>>, used |-> 0] ELSE Spliced(base, front, n, f[n - 1])]
  PROVE  /\ placed[Len(front)] \in Splices(base)
         /\ \E ob, at : Woven(base, front, Len(front), placed[Len(front)], ob, at)
<1> DEFINE N == Len(front)
           A == Splices(base)
           start == [out |-> <<>>, used |-> 0]
           Does(f) == f = [n \in 0..Len(front) |->
             IF n = 0 THEN [out |-> <<>>, used |-> 0] ELSE Spliced(base, front, n, f[n - 1])]
<1>1. N \in Nat /\ Len(base) \in Nat
  BY LenProperties
<1>2. PICK first : first = start
  OBVIOUS
<1>3. first \in A /\ first.out = <<>> /\ first.used = 0
  <2>1. <<>> \in Seq(Nat) /\ 0 \in 0..Len(base)
    BY <1>1, EmptySeq
  <2> QED BY <1>2, <2>1 DEF Splices
<1>4. \A n \in 1..N, acc \in A : Spliced(base, front, n, acc) \in A
  BY SplicedIs
<1> HIDE DEF A, N
<1>5. PICK step : step = [p \in (1..N) \X A |-> Spliced(base, front, p[1], p[2])]
  OBVIOUS
<1>6. \A n \in 1..N, acc \in A : step[<<n, acc>>] = Spliced(base, front, n, acc)
  BY <1>5
<1>7. step \in [(1..N) \X A -> A]
  <2>1. \A p \in (1..N) \X A : Spliced(base, front, p[1], p[2]) \in A
    BY <1>4
  <2> QED BY <1>5, <2>1
<1>8. PICK f : Iterated(N, A, first, step, f)
  BY <1>1, <1>3, <1>7, Iterates
<1>9. Does(f)
  <2>1. f = [n \in 0..N |-> f[n]] /\ f[0] = first
    BY <1>8 DEF Iterated
  <2>2. \A n \in 0..N : f[n] = IF n = 0 THEN first ELSE Spliced(base, front, n, f[n - 1])
    <3> SUFFICES ASSUME NEW n \in 0..N, n # 0 PROVE f[n] = Spliced(base, front, n, f[n - 1])
      BY <2>1
    <3>1. n \in 1..N /\ n - 1 \in 0..N
      BY <1>1
    <3>2. f[n] = step[<<n, f[n - 1]>>] /\ f[n - 1] \in A
      BY <1>8, <3>1 DEF Iterated
    <3> QED BY <1>6, <3>1, <3>2
  <2> QED BY <1>2, <2>1, <2>2 DEF N
<1>10. Does(placed)
  <2>1. placed = CHOOSE g : Does(g)
    OBVIOUS
  <2> HIDE DEF Does
  <2> QED BY <1>9, <2>1
<1>11. \A n \in 0..N : placed[n] = IF n = 0 THEN first ELSE Spliced(base, front, n, placed[n - 1])
  <2>1. PICK g : g = placed
    OBVIOUS
  <2>2. g = [n \in 0..N |-> IF n = 0 THEN first ELSE Spliced(base, front, n, g[n - 1])]
    BY <1>2, <1>10, <2>1 DEF N
  <2>3. \A n \in 0..N : g[n] = IF n = 0 THEN first ELSE Spliced(base, front, n, g[n - 1])
    BY <2>2
  <2> QED BY <2>1, <2>3
<1> HIDE DEF Does
<1> DEFINE G == {n \in 0..N : placed[n] \in A /\ \E ob, at : Woven(base, front, n, placed[n], ob, at)}
<1>12. 0 \in G
  <2>1. placed[0] = first /\ 0 \in 0..N
    BY <1>1, <1>11
  <2>2. PICK none : none = [i \in 1..0 |-> 0]
    OBVIOUS
  <2>3. Len(first.out) = 0 /\ first.out \in Seq(Nat)
    BY <1>3, EmptySeq
  <2>4. 0 \in 0..Len(base) /\ none \in [1..0 -> 1..0] /\ \A i \in 1..0 : FALSE
    BY <1>1, <2>2
  <2>5. Woven(base, front, 0, first, none, none)
    BY <1>3, <2>3, <2>4 DEF Woven
  <2> QED BY <1>3, <2>1, <2>5
<1>13. ASSUME NEW n \in 1..N, n - 1 \in G PROVE n \in G
  <2>1. n \in 0..N /\ n # 0
    BY <1>1
  <2>2. placed[n] = Spliced(base, front, n, placed[n - 1]) /\ placed[n - 1] \in A
    BY <1>11, <1>13, <2>1
  <2>3. PICK ob, at : Woven(base, front, n - 1, placed[n - 1], ob, at)
    BY <1>13
  <2>4. \E obs, ats : Woven(base, front, n, Spliced(base, front, n, placed[n - 1]), obs, ats)
    BY <2>2, <2>3, WovenMore DEF A, N
  <2> QED BY <1>4, <2>1, <2>2, <2>4
<1>14. N \in G
  <2>1. G \in SUBSET (0..N) /\ N \in 0..N
    BY <1>1
  <2> HIDE DEF G
  <2> QED BY <1>1, <1>12, <1>13, <2>1, UpToBound
<1> QED BY <1>14 DEF A, N

\* Everything placed: the organic results by ob, the front pins by at, the others at the end.
PlacedBy(base, front, tail, out, ob, at) ==
  /\ out \in Seq(Nat) /\ Len(out) = Len(base) + Len(front) + Len(tail)
  /\ ob \in [1..Len(base) -> 1..Len(base) + Len(front)]
  /\ at \in [1..Len(front) -> 1..Len(base) + Len(front)]
  /\ \A g, h \in 1..Len(base) : g < h => ob[g] < ob[h]
  /\ \A g \in 1..Len(base) : out[ob[g]] = base[g]
  /\ \A i \in 1..Len(front) : out[at[i]] = front[i].key
  /\ \A l \in 1..Len(base) + Len(front) :
       (\E g \in 1..Len(base) : ob[g] = l) \/ (\E i \in 1..Len(front) : at[i] = l)
  /\ \A i \in 1..Len(tail) : out[Len(base) + Len(front) + i] = tail[i].key
  /\ Ordered(front) => \A i \in 1..Len(front) : at[i] = SlotOf(base, front, i)

\* splicePinned* places the organic results and both kinds of pins.
LEMMA PlacedIs ==
  ASSUME NEW base \in Seq(Nat), NEW pinned \in Seq(Pins)
  PROVE  \E ob, at : PlacedBy(base, Filtered(pinned, {p \in Pins : p.pos > 0}),
                              Filtered(pinned, {p \in Pins : p.pos <= 0}), SplicePinned(base, pinned), ob, at)
<1>1. PICK front : front = Filtered(pinned, {p \in Pins : p.pos > 0})
  OBVIOUS
<1>2. PICK tail : tail = Filtered(pinned, {p \in Pins : p.pos <= 0})
  OBVIOUS
<1>3. front \in Seq(Pins) /\ tail \in Seq(Pins)
  BY <1>1, <1>2, FilteredIs
<1>4. \A i \in 1..Len(front) : front[i].pos > 0
  <2>1. PICK e : Picked(pinned, {p \in Pins : p.pos > 0}, Len(pinned), front, e)
    BY <1>1, FilteredIs
  <2> QED BY <2>1 DEF Picked
<1> DEFINE placed == CHOOSE f : f = [n \in 0..Len(front) |->
             IF n = 0 THEN [out |-> <<>>, used |-> 0] ELSE Spliced(base, front, n, f[n - 1])]
           keys == [i \in DOMAIN tail |-> tail[i].key]
<1>5. PICK end : end = placed[Len(front)]
  OBVIOUS
<1>6. SplicePinned(base, pinned) = end.out \o SubSeq(base, end.used + 1, Len(base)) \o keys
  BY <1>1, <1>2, <1>5 DEF SplicePinned
<1>7. end \in Splices(base) /\ \E ob, at : Woven(base, front, Len(front), end, ob, at)
  <2>1. PICK q : q = placed
    OBVIOUS
  <2>2. q[Len(front)] \in Splices(base) /\ \E ob, at : Woven(base, front, Len(front), q[Len(front)], ob, at)
    BY <1>3, <1>4, <2>1, WovenAll
  <2> QED BY <1>5, <2>1, <2>2
<1>8. PICK ob, at : Woven(base, front, Len(front), end, ob, at)
  BY <1>7
<1> HIDE DEF placed
<1> DEFINE used == end.used
           old == Len(end.out)
           size == Len(base)
           more == size - used
           middle == SubSeq(base, end.used + 1, Len(base))
<1>9. /\ end.out \in Seq(Nat) /\ used \in 0..size /\ old = used + Len(front)
      /\ ob \in [1..used -> 1..old] /\ at \in [1..Len(front) -> 1..old]
      /\ \A g, h \in 1..used : g < h => ob[g] < ob[h]
      /\ \A g \in 1..used : end.out[ob[g]] = base[g]
      /\ \A i \in 1..Len(front) : end.out[at[i]] = front[i].key
      /\ \A l \in 1..old : (\E g \in 1..used : ob[g] = l) \/ (\E i \in 1..Len(front) : at[i] = l)
      /\ Ordered(front) => \A i \in 1..Len(front) : at[i] = SlotOf(base, front, i)
  BY <1>8 DEF Woven
<1>10. size \in Nat /\ Len(front) \in Nat /\ Len(tail) \in Nat
  BY <1>3, LenProperties
<1> HIDE DEF used, old, size
<1>11. old \in Nat /\ more \in Nat /\ used \in Nat /\ old + more = size + Len(front) /\ used + more = size
  BY <1>9, <1>10
<1>12. middle \in Seq(Nat) /\ Len(middle) = more /\ \A i \in 1..more : middle[i] = base[used + i]
  <2>1. used + 1 \in Nat \ {0} /\ size <= size /\ used + 1 <= size + 1 /\ size - (used + 1) + 1 = more
    BY <1>9, <1>10, <1>11
  <2>2. \A i \in 1..more : used + 1 + i - 1 = used + i
    BY <1>11
  <2>3. /\ middle \in Seq(Nat)
        /\ Len(middle) = size - (used + 1) + 1
        /\ \A i \in 1..size - (used + 1) + 1 : middle[i] = base[used + 1 + i - 1]
    BY SMTT(30), <1>10, <2>1, SliceIs DEF size, used
  <2> QED BY <2>1, <2>2, <2>3
<1>13. keys \in Seq(Nat) /\ Len(keys) = Len(tail) /\ \A i \in 1..Len(tail) : keys[i] = tail[i].key
  <2>1. DOMAIN tail = 1..Len(tail) /\ \A i \in 1..Len(tail) : tail[i].key \in Nat
    BY <1>3, LenProperties, ElementOfSeq, PinsAre
  <2>2. keys \in [1..Len(tail) -> Nat]
    BY <2>1
  <2>3. keys \in Seq(Nat) /\ Len(keys) = Len(tail)
    BY <1>10, <2>2, SeqDef, LenProperties
  <2> QED BY <2>1, <2>3
<1>14. PICK out : out = end.out \o middle \o keys
  OBVIOUS
<1>15. SplicePinned(base, pinned) = out
  BY <1>6, <1>14
<1> HIDE DEF middle, keys
<1>16. InTurn(Nat, end.out, middle, keys, out)
  BY <1>9, <1>12, <1>13, <1>14, ThreeJoined
<1> DEFINE all == size + Len(front)
<1>17. /\ out \in Seq(Nat) /\ Len(out) = all + Len(tail)
       /\ \A l \in 1..old : out[l] = end.out[l]
       /\ \A l \in old + 1..all : out[l] = middle[l - old]
       /\ \A l \in all + 1..all + Len(tail) : out[l] = keys[l - old - more]
  BY <1>11, <1>12, <1>13, <1>16 DEF InTurn, old
<1>18. PICK obs : obs = [g \in 1..size |-> IF g <= used THEN ob[g] ELSE old + (g - used)]
  OBVIOUS
<1>19. /\ \A g \in 1..used : g \in 1..size /\ obs[g] = ob[g] /\ ob[g] \in 1..old
       /\ \A g \in used + 1..size : obs[g] = old + (g - used) /\ obs[g] \in old + 1..all /\ obs[g] - old = g - used
       /\ \A g \in 1..size : g \in 1..used \/ g \in used + 1..size
       /\ \A l \in 1..old : l \in 1..all
       /\ \A l \in old + 1..all : l \in 1..all
  <2>1. /\ \A g \in 1..used : g \in 1..size /\ g <= used
        /\ \A g \in used + 1..size : g \in 1..size /\ ~(g <= used) /\ old + (g - used) \in old + 1..all
                                     /\ (old + (g - used)) - old = g - used
        /\ \A g \in 1..size : g \in 1..used \/ g \in used + 1..size
        /\ \A l \in 1..old : l \in 1..all
        /\ \A l \in old + 1..all : l \in 1..all
    BY <1>10, <1>11
  <2>2. \A g \in 1..size : obs[g] = IF g <= used THEN ob[g] ELSE old + (g - used)
    BY <1>18
  <2>3. \A g \in 1..used : ob[g] \in 1..old
    BY <1>9
  <2> HIDE DEF all
  <2> QED BY <2>1, <2>2, <2>3
<1> HIDE DEF more, all
<1>20. obs \in [1..size -> 1..all]
  <2>1. \A g \in 1..size : obs[g] \in 1..all
    BY <1>19
  <2> QED BY <1>18, <2>1
<1>21. at \in [1..Len(front) -> 1..all]
  <2>1. at = [i \in 1..Len(front) |-> at[i]] /\ \A i \in 1..Len(front) : at[i] \in 1..old
    BY <1>9
  <2>2. \A i \in 1..Len(front) : at[i] \in 1..all
    BY <1>19, <2>1
  <2> QED BY <2>1, <2>2
<1>22. ASSUME NEW g \in 1..size, NEW h \in 1..size, g < h PROVE obs[g] < obs[h]
  <2>1. CASE h \in 1..used
    <3>1. g \in 1..used
      BY <1>10, <1>11, <1>22, <2>1
    <3> QED BY <1>9, <1>19, <1>22, <2>1, <3>1
  <2>2. CASE g \in 1..used /\ h \in used + 1..size
    <3>1. \A l \in 1..old, k \in used + 1..size : l < old + (k - used)
      BY <1>10, <1>11
    <3> QED BY <1>19, <2>2, <3>1
  <2>3. CASE g \in used + 1..size /\ h \in used + 1..size
    <3>1. old + (g - used) < old + (h - used)
      BY <1>10, <1>11, <1>22
    <3> QED BY <1>19, <2>3, <3>1
  <2>4. g \in used + 1..size => h \in used + 1..size
    BY <1>10, <1>11, <1>22
  <2> QED BY <1>19, <2>1, <2>2, <2>3, <2>4
<1>23. ASSUME NEW g \in 1..size PROVE out[obs[g]] = base[g]
  <2>1. CASE g \in 1..used
    <3>1. obs[g] = ob[g] /\ ob[g] \in 1..old
      BY <1>19, <2>1
    <3>2. out[ob[g]] = end.out[ob[g]]
      BY <1>17, <3>1
    <3> QED BY <1>9, <2>1, <3>1, <3>2
  <2>2. CASE g \in used + 1..size
    <3>1. obs[g] \in old + 1..all /\ obs[g] - old = g - used
      BY <1>19, <2>2
    <3>2. g - used \in 1..more /\ used + (g - used) = g
      BY <1>10, <1>11, <2>2
    <3>3. out[obs[g]] = middle[g - used]
      BY <1>17, <3>1
    <3>4. middle[g - used] = base[g]
      BY <1>12, <3>2
    <3> QED BY <3>3, <3>4
  <2> QED BY <1>19, <2>1, <2>2
<1>24. ASSUME NEW i \in 1..Len(front) PROVE out[at[i]] = front[i].key
  <2>1. at[i] \in 1..old
    BY <1>9
  <2>2. out[at[i]] = end.out[at[i]]
    BY <1>17, <2>1
  <2> QED BY <1>9, <2>2
<1>25. ASSUME NEW l \in 1..all PROVE (\E g \in 1..size : obs[g] = l) \/ (\E i \in 1..Len(front) : at[i] = l)
  <2>1. CASE l \in 1..old
    BY <1>9, <1>19, <2>1
  <2>2. CASE l \in old + 1..all
    <3>1. used + (l - old) \in used + 1..size /\ used + (l - old) \in 1..size /\ old + ((used + (l - old)) - used) = l
      BY <1>10, <1>11, <2>2 DEF all
    <3> QED BY <1>19, <3>1
  <2>3. l \in 1..old \/ l \in old + 1..all
    BY <1>11
  <2> QED BY <2>1, <2>2, <2>3
<1>26. ASSUME NEW i \in 1..Len(tail) PROVE out[all + i] = tail[i].key
  <2>1. all + i \in all + 1..all + Len(tail) /\ (all + i) - old - more = i
    BY <1>10, <1>11 DEF all
  <2>2. out[all + i] = keys[(all + i) - old - more]
    BY <1>17, <2>1
  <2> QED BY <1>13, <2>1, <2>2
<1>27. PlacedBy(base, front, tail, out, obs, at)
  BY <1>9, <1>17, <1>20, <1>21, <1>22, <1>23, <1>24, <1>25, <1>26 DEF PlacedBy, all, size
<1> QED BY <1>1, <1>2, <1>15, <1>27

\* The pins of S, each once, in their order.
InOrder(s, S) ==
  /\ s \in Seq(Pins)
  /\ \A i, j \in 1..Len(s) : i < j => PinLess(s[i], s[j])
  /\ \A i \in 1..Len(s) : s[i] \in S
  /\ \A p \in S : \E i \in 1..Len(s) : s[i] = p

\* What is kept of pins in their order is in its order.
LEMMA KeptInOrder ==
  ASSUME NEW s, NEW S, InOrder(s, S), NEW K
  PROVE  InOrder(Filtered(s, K), S \cap K)
<1>1. s \in Seq(Pins)
  BY DEF InOrder
<1>2. PICK r : r = Filtered(s, K)
  OBVIOUS
<1>3. r \in Seq(Pins) /\ \E e : Picked(s, K, Len(s), r, e)
  BY <1>1, <1>2, FilteredIs
<1>4. PICK e : Picked(s, K, Len(s), r, e)
  BY <1>3
<1>5. /\ \A i \in 1..Len(r) : e[i] \in 1..Len(s) /\ r[i] = s[e[i]] /\ s[e[i]] \in K
      /\ \A i \in 1..Len(r), j \in 1..Len(r) : i < j => e[i] < e[j]
      /\ \A j \in 1..Len(s) : s[j] \in K => \E i \in 1..Len(r) : e[i] = j
  BY <1>4 DEF Picked
<1>6. \A i, j \in 1..Len(r) : i < j => PinLess(r[i], r[j])
  <2> SUFFICES ASSUME NEW i \in 1..Len(r), NEW j \in 1..Len(r), i < j PROVE PinLess(r[i], r[j])
    OBVIOUS
  <2>1. e[i] \in 1..Len(s) /\ e[j] \in 1..Len(s) /\ e[i] < e[j] /\ r[i] = s[e[i]] /\ r[j] = s[e[j]]
    BY <1>5
  <2>2. PinLess(s[e[i]], s[e[j]])
    BY <2>1 DEF InOrder
  <2> QED BY <2>1, <2>2
<1>7. \A i \in 1..Len(r) : r[i] \in S \cap K
  BY <1>5 DEF InOrder
<1>8. ASSUME NEW p \in S \cap K PROVE \E i \in 1..Len(r) : r[i] = p
  <2>1. PICK j \in 1..Len(s) : s[j] = p
    BY DEF InOrder
  <2>2. PICK i \in 1..Len(r) : e[i] = j
    BY <1>5, <2>1
  <2> QED BY <1>5, <2>1, <2>2
<1> QED BY <1>2, <1>3, <1>6, <1>7, <1>8 DEF InOrder

\* Pins in their order are different, and so are their keys.
LEMMA OrderedOnce ==
  ASSUME NEW s, NEW S, InOrder(s, S), NEW i \in 1..Len(s), NEW j \in 1..Len(s), s[i] = s[j]
  PROVE  i = j
<1>1. s \in Seq(Pins) /\ Len(s) \in Nat /\ s[i] \in Pins
  BY LenProperties, ElementOfSeq DEF InOrder
<1>2. ~PinLess(s[i], s[i])
  BY <1>1, PinOrder
<1>3. ~(i < j) /\ ~(j < i)
  BY <1>2 DEF InOrder
<1> QED BY <1>1, <1>3

\* The organic results that are kept: in their order, and none of those left out.
LEMMA BaseIs ==
  ASSUME NEW H
  PROVE  LET base == Filtered(Organic, ItemsOf(Organic) \ H)
         IN /\ base \in Seq(Nat)
            /\ \A g, h \in 1..Len(base) : g < h => base[g] < base[h]
            /\ {base[g] : g \in 1..Len(base)} = {Organic[i] : i \in DOMAIN Organic} \ H
<1> DEFINE K == ItemsOf(Organic) \ H
<1>1. Organic \in Seq(Nat) /\ Len(Organic) = 3 /\ DOMAIN Organic = 1..3 /\ \A i \in 1..3 : Organic[i] = i
  BY DEF Organic
<1>2. PICK base : base = Filtered(Organic, K)
  OBVIOUS
<1>3. base \in Seq(Nat) /\ \E e : Picked(Organic, K, Len(Organic), base, e)
  BY <1>1, <1>2, FilteredIs
<1>4. PICK e : Picked(Organic, K, Len(Organic), base, e)
  BY <1>3
<1>5. /\ \A g \in 1..Len(base) : e[g] \in 1..3 /\ base[g] = e[g] /\ base[g] \in K
      /\ \A g \in 1..Len(base), h \in 1..Len(base) : g < h => e[g] < e[h]
      /\ \A j \in 1..3 : j \in K => \E g \in 1..Len(base) : e[g] = j
  BY <1>1, <1>4 DEF Picked
<1>6. \A k : k \in K <=> k \in 1..3 /\ k \notin H
  BY <1>1 DEF ItemsOf
<1>7. {base[g] : g \in 1..Len(base)} = {Organic[i] : i \in DOMAIN Organic} \ H
  <2>1. \A k : k \in {base[g] : g \in 1..Len(base)} <=> k \in 1..3 /\ k \notin H
    BY <1>5, <1>6
  <2>2. \A k : k \in {Organic[i] : i \in DOMAIN Organic} \ H <=> k \in 1..3 /\ k \notin H
    BY <1>1
  <2> QED BY <2>1, <2>2
<1>8. \A g, h \in 1..Len(base) : g < h => base[g] < base[h]
  BY <1>5
<1> QED BY <1>2, <1>3, <1>7, <1>8

\* All pins of two rules.
LEMMA AllPinsAre ==
  ASSUME NEW a \in Seq(Pins), NEW b \in Seq(Pins), NEW rules, Len(rules) = 2, rules[1].pins = a, rules[2].pins = b
  PROVE  AllPins(rules) = a \o b
<1> DEFINE Does(f) == f = [n \in 0..Len(rules) |-> IF n = 0 THEN <<>> ELSE f[n - 1] \o rules[n].pins]
           upto == CHOOSE f : Does(f)
<1>1. PICK f : f = [n \in 0..2 |-> IF n = 0 THEN <<>> ELSE IF n = 1 THEN a ELSE a \o b]
  OBVIOUS
<1>2. f[0] = <<>> /\ f[1] = a /\ f[2] = a \o b
  BY <1>1
<1>3. <<>> \o a = a
  BY ConcatEmptySeq
<1>4. \A n \in 0..2 : f[n] = IF n = 0 THEN <<>> ELSE f[n - 1] \o rules[n].pins
  <2>1. \A n \in 0..2 : n = 0 \/ n = 1 \/ n = 2
    OBVIOUS
  <2>2. 1 - 1 = 0 /\ 2 - 1 = 1
    OBVIOUS
  <2> QED BY <1>2, <1>3, <2>1, <2>2
<1>5. Does(f)
  <2>1. f = [n \in 0..2 |-> f[n]]
    BY <1>1
  <2> QED BY <1>4, <2>1
<1>6. Does(upto)
  <2> HIDE DEF Does
  <2> QED BY <1>5
<1>7. AllPins(rules) = upto[2]
  BY DEF AllPins
<1> HIDE DEF upto
<1>8. \A n \in 0..2 : upto[n] = IF n = 0 THEN <<>> ELSE upto[n - 1] \o rules[n].pins
  <2>1. PICK g : g = upto
    OBVIOUS
  <2>2. g = [n \in 0..2 |-> IF n = 0 THEN <<>> ELSE g[n - 1] \o rules[n].pins]
    BY <1>6, <2>1
  <2>3. \A n \in 0..2 : g[n] = IF n = 0 THEN <<>> ELSE g[n - 1] \o rules[n].pins
    BY <2>2
  <2> QED BY <2>1, <2>3
<1>9. upto[0] = <<>> /\ upto[1] = upto[0] \o a /\ upto[2] = upto[1] \o b
  <2>1. 1 - 1 = 0 /\ 2 - 1 = 1 /\ 0 \in 0..2 /\ 1 \in 0..2 /\ 2 \in 0..2 /\ 1 # 0 /\ 2 # 0
    OBVIOUS
  <2> QED BY <1>8, <2>1
<1> QED BY <1>3, <1>7, <1>9

\* The last pin of every key.
LEMMA LastPinsAre ==
  ASSUME NEW all \in Seq(Pins)
  PROVE  LET S == LastPins(all)
             final(k) == all[Greatest({i \in DOMAIN all : all[i].key = k})].pos
         IN /\ S \in SUBSET Pins /\ IsFiniteSet(S)
            /\ \A p, q \in S : p.key = q.key => p = q
            /\ \A p \in S : final(p.key) = p.pos
            /\ {p.key : p \in S} = {all[i].key : i \in DOMAIN all}
<1> DEFINE n == Len(all)
           of(k) == {i \in DOMAIN all : all[i].key = k}
           S == LastPins(all)
           last == {i \in DOMAIN all : \A j \in DOMAIN all : all[j].key = all[i].key => j <= i}
<1>1. n \in Nat /\ DOMAIN all = 1..n /\ \A i \in 1..n : all[i] \in Pins
  BY LenProperties, ElementOfSeq
<1>2. S = {all[i] : i \in last}
  BY DEF LastPins
<1>3. ASSUME NEW i \in 1..n
      PROVE  Greatest(of(all[i].key)) \in last /\ all[Greatest(of(all[i].key))].key = all[i].key
  <2>1. of(all[i].key) \in SUBSET (0..n) /\ of(all[i].key) # {}
    BY <1>1
  <2>2. Greatest(of(all[i].key)) \in of(all[i].key) /\ \A j \in of(all[i].key) : j <= Greatest(of(all[i].key))
    BY <1>1, <2>1, GreatestIs
  <2> QED BY <1>1, <2>2
<1>4. \A i, j \in last : all[i].key = all[j].key => i = j
  BY <1>1
<1>5. last \in SUBSET (1..n) /\ IsFiniteSet(last)
  <2>1. last \in SUBSET (1..n)
    BY <1>1
  <2>2. IsFiniteSet(1..n)
    BY <1>1, FS_Interval
  <2> QED BY <2>1, <2>2, FS_Subset
<1> HIDE DEF last, n, S
<1>6. IsFiniteSet(S)
  <2>1. PICK f : f = [i \in last |-> all[i]]
    OBVIOUS
  <2>2. f \in [last -> S] /\ \A s \in S : \E i \in last : f[i] = s
    BY <1>2, <2>1
  <2>3. f \in Surjection(last, S)
    BY <2>2 DEF Surjection
  <2> QED BY <1>5, <2>3, FS_Surjection
<1>7. \A p, q \in S : p.key = q.key => p = q
  BY <1>2, <1>4
<1>8. ASSUME NEW p \in S PROVE all[Greatest(of(p.key))].pos = p.pos
  <2>1. PICK i \in last : p = all[i]
    BY <1>2
  <2>2. i \in 1..n /\ p.key = all[i].key
    BY <1>5, <2>1
  <2>3. PICK g : g = Greatest(of(p.key))
    OBVIOUS
  <2>4. g \in last /\ all[g].key = all[i].key
    BY <1>3, <2>2, <2>3
  <2>5. g = i
    BY <1>4, <2>1, <2>4
  <2> QED BY <2>1, <2>3, <2>5
<1>9. {p.key : p \in S} = {all[i].key : i \in DOMAIN all}
  <2>1. \A p \in S : \E i \in DOMAIN all : all[i].key = p.key
    BY <1>1, <1>2, <1>5
  <2>2. ASSUME NEW i \in DOMAIN all PROVE \E p \in S : p.key = all[i].key
    BY <1>1, <1>2, <1>3
  <2> QED BY <2>1, <2>2
<1>10. S \in SUBSET Pins
  BY <1>1, <1>2, <1>5
<1> QED BY <1>6, <1>7, <1>8, <1>9, <1>10 DEF S

\* What is spliced has no document twice.
Apart(base, F, T) ==
  /\ \A g, h \in 1..Len(base) : g < h => base[g] < base[h]
  /\ \A p, q \in F \cup T : p.key = q.key => p = q
  /\ \A p \in F \cup T : \A g \in 1..Len(base) : base[g] # p.key
  /\ F \cap T = {}

SlotIn(out, k) == CHOOSE i \in DOMAIN out : out[i] = k

\* Where everything stands in the answer.
Slots(base, front, tail, F, T, out, ob, at) ==
  /\ \A g \in 1..Len(base) : SlotIn(out, base[g]) = ob[g]
  /\ \A i \in 1..Len(front) : SlotIn(out, front[i].key) = at[i]
  /\ \A i \in 1..Len(tail) : SlotIn(out, tail[i].key) = Len(base) + Len(front) + i
  /\ {out[i] : i \in DOMAIN out} = {base[g] : g \in 1..Len(base)} \cup {p.key : p \in F \cup T}
  /\ Cardinality({out[i] : i \in DOMAIN out}) = Len(out)

\* What is placed stands where it was put, once each.
LEMMA SlotsAre ==
  ASSUME NEW base \in Seq(Nat), NEW front, NEW tail, NEW F, NEW T, InOrder(front, F), InOrder(tail, T),
         Apart(base, F, T), NEW out, NEW ob, NEW at, PlacedBy(base, front, tail, out, ob, at)
  PROVE  Slots(base, front, tail, F, T, out, ob, at)
<1> DEFINE size == Len(base)
           all == size + Len(front)
           OfBase(l) == \E g \in 1..size : ob[g] = l /\ out[l] = base[g]
           OfFront(l) == \E i \in 1..Len(front) : at[i] = l /\ out[l] = front[i].key
           OfTail(l) == \E i \in 1..Len(tail) : all + i = l /\ out[l] = tail[i].key
<1>1. /\ size \in Nat /\ Len(front) \in Nat /\ Len(tail) \in Nat /\ front \in Seq(Pins) /\ tail \in Seq(Pins)
      /\ \A g \in 1..size : base[g] \in Nat
      /\ \A i \in 1..Len(front) : front[i] \in F /\ front[i].key \in Nat
      /\ \A i \in 1..Len(tail) : tail[i] \in T /\ tail[i].key \in Nat
  <2>1. front \in Seq(Pins) /\ tail \in Seq(Pins)
    BY DEF InOrder
  <2>2. \A i \in 1..Len(front) : front[i] \in F
    BY DEF InOrder
  <2>3. \A i \in 1..Len(tail) : tail[i] \in T
    BY DEF InOrder
  <2>4. \A i \in 1..Len(front) : front[i].key \in Nat
    BY <2>1, ElementOfSeq, PinsAre
  <2>5. \A i \in 1..Len(tail) : tail[i].key \in Nat
    BY <2>1, ElementOfSeq, PinsAre
  <2>6. \A g \in 1..size : base[g] \in Nat
    BY ElementOfSeq
  <2> QED BY <2>1, <2>2, <2>3, <2>4, <2>5, <2>6, LenProperties
<1>2. /\ out \in Seq(Nat) /\ Len(out) = all + Len(tail)
      /\ ob \in [1..size -> 1..all] /\ at \in [1..Len(front) -> 1..all]
      /\ \A g \in 1..size : out[ob[g]] = base[g]
      /\ \A i \in 1..Len(front) : out[at[i]] = front[i].key
      /\ \A l \in 1..all : (\E g \in 1..size : ob[g] = l) \/ (\E i \in 1..Len(front) : at[i] = l)
      /\ \A i \in 1..Len(tail) : out[all + i] = tail[i].key
  BY DEF PlacedBy
<1> HIDE DEF size, all
<1>3. all \in Nat /\ DOMAIN out = 1..all + Len(tail) /\ Len(out) \in Nat
  BY <1>1, <1>2, LenProperties DEF all
<1>4. ASSUME NEW l \in 1..all + Len(tail) PROVE OfBase(l) \/ OfFront(l) \/ OfTail(l)
  <2>1. CASE l \in 1..all
    <3>1. CASE \E g \in 1..size : ob[g] = l
      BY <1>2, <3>1
    <3>2. CASE \E i \in 1..Len(front) : at[i] = l
      BY <1>2, <3>2
    <3> QED BY <1>2, <2>1, <3>1, <3>2
  <2>2. CASE l \in all + 1..all + Len(tail)
    <3>1. l - all \in 1..Len(tail) /\ all + (l - all) = l
      BY <1>1, <1>3, <2>2
    <3> QED BY <1>2, <3>1
  <2>3. l \in 1..all \/ l \in all + 1..all + Len(tail)
    BY <1>1, <1>3
  <2> QED BY <2>1, <2>2, <2>3
<1>5. /\ \A g, h \in 1..size : base[g] = base[h] => g = h
      /\ \A i, j \in 1..Len(front) : front[i].key = front[j].key => i = j
      /\ \A i, j \in 1..Len(tail) : tail[i].key = tail[j].key => i = j
      /\ \A g \in 1..size, i \in 1..Len(front) : base[g] # front[i].key
      /\ \A g \in 1..size, i \in 1..Len(tail) : base[g] # tail[i].key
      /\ \A i \in 1..Len(front), j \in 1..Len(tail) : front[i].key # tail[j].key
  <2>1. \A g, h \in 1..size : base[g] = base[h] => g = h
    <3> SUFFICES ASSUME NEW g \in 1..size, NEW h \in 1..size, g < h PROVE base[g] # base[h]
      BY <1>1
    <3>1. base[g] < base[h]
      BY DEF Apart, size
    <3> QED BY <1>1, <3>1
  <2>2. \A p, q \in F \cup T : p.key = q.key => p = q
    BY DEF Apart
  <2>3. \A i, j \in 1..Len(front) : front[i].key = front[j].key => i = j
    BY <1>1, <2>2, OrderedOnce
  <2>4. \A i, j \in 1..Len(tail) : tail[i].key = tail[j].key => i = j
    BY <1>1, <2>2, OrderedOnce
  <2>5. \A g \in 1..size : \A p \in F \cup T : base[g] # p.key
    BY DEF Apart, size
  <2>6. F \cap T = {}
    BY DEF Apart
  <2> QED BY <1>1, <2>1, <2>2, <2>3, <2>4, <2>5, <2>6
<1>6. ASSUME NEW l \in 1..all + Len(tail), NEW m \in 1..all + Len(tail), out[l] = out[m] PROVE l = m
  <2>1. CASE OfBase(l)
    <3>1. PICK g \in 1..size : ob[g] = l /\ out[l] = base[g]
      BY <2>1
    <3>2. CASE OfBase(m)
      <4>1. PICK h \in 1..size : ob[h] = m /\ out[m] = base[h]
        BY <3>2
      <4>2. base[g] = base[h]
        BY <1>6, <3>1, <4>1
      <4> QED BY <1>5, <3>1, <4>1, <4>2
    <3>3. CASE OfFront(m)
      <4>1. PICK j \in 1..Len(front) : at[j] = m /\ out[m] = front[j].key
        BY <3>3
      <4>2. base[g] = front[j].key
        BY <1>6, <3>1, <4>1
      <4> QED BY <1>5, <3>1, <4>1, <4>2
    <3>4. CASE OfTail(m)
      <4>1. PICK j \in 1..Len(tail) : all + j = m /\ out[m] = tail[j].key
        BY <3>4
      <4>2. base[g] = tail[j].key
        BY <1>6, <3>1, <4>1
      <4> QED BY <1>5, <3>1, <4>1, <4>2
    <3> QED BY <1>4, <3>2, <3>3, <3>4
  <2>2. CASE OfFront(l)
    <3>1. PICK i \in 1..Len(front) : at[i] = l /\ out[l] = front[i].key
      BY <2>2
    <3>2. CASE OfBase(m)
      <4>1. PICK h \in 1..size : ob[h] = m /\ out[m] = base[h]
        BY <3>2
      <4>2. front[i].key = base[h]
        BY <1>6, <3>1, <4>1
      <4> QED BY <1>5, <3>1, <4>1, <4>2
    <3>3. CASE OfFront(m)
      <4>1. PICK j \in 1..Len(front) : at[j] = m /\ out[m] = front[j].key
        BY <3>3
      <4>2. front[i].key = front[j].key
        BY <1>6, <3>1, <4>1
      <4> QED BY <1>5, <3>1, <4>1, <4>2
    <3>4. CASE OfTail(m)
      <4>1. PICK j \in 1..Len(tail) : all + j = m /\ out[m] = tail[j].key
        BY <3>4
      <4>2. front[i].key = tail[j].key
        BY <1>6, <3>1, <4>1
      <4> QED BY <1>5, <3>1, <4>1, <4>2
    <3> QED BY <1>4, <3>2, <3>3, <3>4
  <2>3. CASE OfTail(l)
    <3>1. PICK i \in 1..Len(tail) : all + i = l /\ out[l] = tail[i].key
      BY <2>3
    <3>2. CASE OfBase(m)
      <4>1. PICK h \in 1..size : ob[h] = m /\ out[m] = base[h]
        BY <3>2
      <4>2. tail[i].key = base[h]
        BY <1>6, <3>1, <4>1
      <4> QED BY <1>5, <3>1, <4>1, <4>2
    <3>3. CASE OfFront(m)
      <4>1. PICK j \in 1..Len(front) : at[j] = m /\ out[m] = front[j].key
        BY <3>3
      <4>2. tail[i].key = front[j].key
        BY <1>6, <3>1, <4>1
      <4> QED BY <1>5, <3>1, <4>1, <4>2
    <3>4. CASE OfTail(m)
      <4>1. PICK j \in 1..Len(tail) : all + j = m /\ out[m] = tail[j].key
        BY <3>4
      <4>2. tail[i].key = tail[j].key
        BY <1>6, <3>1, <4>1
      <4> QED BY <1>5, <3>1, <4>1, <4>2
    <3> QED BY <1>4, <3>2, <3>3, <3>4
  <2> QED BY <1>4, <2>1, <2>2, <2>3
<1>7. ASSUME NEW l \in 1..all + Len(tail) PROVE SlotIn(out, out[l]) = l
  <2>1. SlotIn(out, out[l]) \in 1..all + Len(tail) /\ out[SlotIn(out, out[l])] = out[l]
    BY <1>3 DEF SlotIn
  <2> QED BY <1>6, <2>1
<1>8. /\ \A g \in 1..size : ob[g] \in 1..all + Len(tail)
      /\ \A i \in 1..Len(front) : at[i] \in 1..all + Len(tail)
      /\ \A i \in 1..Len(tail) : all + i \in 1..all + Len(tail)
  <2>1. \A l \in 1..all : l \in 1..all + Len(tail)
    BY <1>1, <1>3
  <2>2. \A g \in 1..size : ob[g] \in 1..all
    BY <1>2
  <2>3. \A i \in 1..Len(front) : at[i] \in 1..all
    BY <1>2
  <2>4. \A i \in 1..Len(tail) : all + i \in 1..all + Len(tail)
    BY <1>1, <1>3
  <2> QED BY <2>1, <2>2, <2>3, <2>4
<1>9. \A g \in 1..size : SlotIn(out, base[g]) = ob[g]
  BY <1>2, <1>7, <1>8
<1>10. \A i \in 1..Len(front) : SlotIn(out, front[i].key) = at[i]
  BY <1>2, <1>7, <1>8
<1>11. \A i \in 1..Len(tail) : SlotIn(out, tail[i].key) = all + i
  BY <1>2, <1>7, <1>8
<1>12. {out[i] : i \in DOMAIN out} = {base[g] : g \in 1..size} \cup {p.key : p \in F \cup T}
  <2>1. ASSUME NEW l \in DOMAIN out PROVE out[l] \in {base[g] : g \in 1..size} \cup {p.key : p \in F \cup T}
    <3>1. l \in 1..all + Len(tail)
      BY <1>3
    <3> QED BY <1>1, <1>4, <3>1
  <2>2. ASSUME NEW g \in 1..size PROVE base[g] \in {out[i] : i \in DOMAIN out}
    BY <1>2, <1>3, <1>8
  <2>3. ASSUME NEW p \in F PROVE p.key \in {out[i] : i \in DOMAIN out}
    <3>1. PICK i \in 1..Len(front) : front[i] = p
      BY DEF InOrder
    <3>2. out[at[i]] = p.key /\ at[i] \in DOMAIN out
      BY <1>2, <1>3, <1>8, <3>1
    <3> QED BY <3>2
  <2>4. ASSUME NEW p \in T PROVE p.key \in {out[i] : i \in DOMAIN out}
    <3>1. PICK i \in 1..Len(tail) : tail[i] = p
      BY DEF InOrder
    <3>2. out[all + i] = p.key /\ all + i \in DOMAIN out
      BY <1>2, <1>3, <1>8, <3>1
    <3> QED BY <3>2
  <2> QED BY <2>1, <2>2, <2>3, <2>4
<1>13. Cardinality({out[i] : i \in DOMAIN out}) = Len(out)
  <2>1. out \in [1..Len(out) -> Nat] /\ DOMAIN out = 1..Len(out)
    BY <1>2, LenProperties
  <2>2. \A l, m \in 1..Len(out) : out[l] = out[m] => l = m
    BY <1>2, <1>6
  <2>3. PICK n : n = Len(out)
    OBVIOUS
  <2>4. n \in Nat /\ out \in [1..n -> Nat] /\ \A l, m \in 1..n : out[l] = out[m] => l = m
    BY <1>3, <2>1, <2>2, <2>3
  <2>5. PICK S : S = {out[l] : l \in 1..n}
    OBVIOUS
  <2>6. Cardinality(S) = n
    <3>1. OneByOne(n, out, S)
      BY <2>4, <2>5 DEF OneByOne
    <3> QED BY <2>4, <3>1, CountIs
  <2>7. {out[l] : l \in DOMAIN out} = S
    BY <2>1, <2>3, <2>5
  <2> QED BY <2>3, <2>6, <2>7
<1> QED BY <1>9, <1>10, <1>11, <1>12, <1>13 DEF Slots, size, all

\* The places of front pins whose positions differ: as many of them stand before one as have a
\* smaller position.
LEMMA FrontBefore ==
  ASSUME NEW front, NEW F, InOrder(front, F), \A p \in F : p.pos > 0,
         \A p, q \in F : p.key = q.key => p = q, \A p, q \in F : p.pos = q.pos => p = q
  PROVE  /\ Ordered(front)
         /\ \A i \in 1..Len(front) :
              Cardinality({p.key : p \in {q \in F : q.pos < front[i].pos}}) = i - 1
<1>1. /\ front \in Seq(Pins) /\ Len(front) \in Nat
      /\ \A i, j \in 1..Len(front) : i < j => PinLess(front[i], front[j])
      /\ \A i \in 1..Len(front) : front[i] \in F
      /\ \A p \in F : \E i \in 1..Len(front) : front[i] = p
  BY LenProperties DEF InOrder
<1>2. \A i \in 1..Len(front) : front[i].pos \in Nat /\ front[i].key \in Nat /\ front[i].pos > 0
  BY <1>1, ElementOfSeq, PinsAre
<1>3. ASSUME NEW i \in 1..Len(front), NEW j \in 1..Len(front), i < j PROVE front[i].pos < front[j].pos
  <2>1. PinLess(front[i], front[j]) /\ front[i] \in F /\ front[j] \in F
    BY <1>1, <1>3
  <2>2. front[i] # front[j]
    BY <1>1, <1>3, OrderedOnce
  <2>3. front[i].pos # front[j].pos
    BY <2>1, <2>2
  <2> QED BY <1>2, <2>1, <2>3 DEF PinLess
<1>4. ASSUME NEW i \in 1..Len(front)
      PROVE  Cardinality({p.key : p \in {q \in F : q.pos < front[i].pos}}) = i - 1
  <2>1. PICK f : f = [j \in 1..i - 1 |-> front[j].key]
    OBVIOUS
  <2>2. i - 1 \in Nat /\ \A j \in 1..i - 1 : j \in 1..Len(front) /\ j < i
    BY <1>1
  <2>3. f \in [1..i - 1 -> Nat]
    BY <1>2, <2>1, <2>2
  <2>4. \A j, k \in 1..i - 1 : f[j] = f[k] => j = k
    <3> SUFFICES ASSUME NEW j \in 1..i - 1, NEW k \in 1..i - 1, f[j] = f[k] PROVE j = k
      OBVIOUS
    <3>1. front[j].key = front[k].key /\ j \in 1..Len(front) /\ k \in 1..Len(front)
      BY <2>1, <2>2
    <3>2. front[j] = front[k]
      BY <1>1, <3>1
    <3> QED BY <3>1, <3>2, OrderedOnce
  <2>5. {f[j] : j \in 1..i - 1} = {p.key : p \in {q \in F : q.pos < front[i].pos}}
    <3>1. ASSUME NEW j \in 1..i - 1 PROVE f[j] \in {p.key : p \in {q \in F : q.pos < front[i].pos}}
      <4>1. f[j] = front[j].key /\ front[j] \in F /\ front[j].pos < front[i].pos
        BY <1>1, <1>3, <2>1, <2>2
      <4> QED BY <4>1
    <3>2. ASSUME NEW p \in F, p.pos < front[i].pos PROVE p.key \in {f[j] : j \in 1..i - 1}
      <4>1. PICK j \in 1..Len(front) : front[j] = p
        BY <1>1
      <4>2. ~(i < j) /\ i # j
        BY <1>2, <1>3, <3>2, <4>1
      <4>3. j \in 1..i - 1
        BY <1>1, <4>2
      <4>4. f[j] = p.key
        BY <2>1, <4>1, <4>3
      <4> QED BY <4>3, <4>4
    <3> QED BY <3>1, <3>2
  <2>6. PICK n, S : n = i - 1 /\ S = {f[j] : j \in 1..i - 1}
    OBVIOUS
  <2>7. n \in Nat /\ f \in [1..n -> Nat] /\ (\A j, k \in 1..n : f[j] = f[k] => j = k) /\ S = {f[j] : j \in 1..n}
    BY <2>2, <2>3, <2>4, <2>6
  <2>8. Cardinality(S) = n
    <3>1. OneByOne(n, f, S)
      BY <2>7 DEF OneByOne
    <3> QED BY <2>7, <3>1, CountIs
  <2> QED BY <2>5, <2>6, <2>8
<1> QED BY <1>3, <1>4 DEF Ordered

\* What applyCuration* answers for two rules is what is asked of a curated answer.
LEMMA CurationIsExact ==
  ASSUME NEW rules, Len(rules) = 2, rules[1].pins \in Seq(Pins), rules[2].pins \in Seq(Pins)
  PROVE  Curated(rules, ApplyCuration(rules))
<1> DEFINE all == rules[1].pins \o rules[2].pins
           final(k) == all[Greatest({i \in DOMAIN all : all[i].key = k})].pos
           pinned == {all[i].key : i \in DOMAIN all} \cap Stored
           shown == {Organic[i] : i \in DOMAIN Organic} \ HidesOf(rules)
           fronts == {k \in pinned : final(k) > 0}
           S == LastPins(all)
           K == {p.key : p \in S}
           stored == {p \in Pins : p.key \in Stored}
           H == HidesOf(rules) \cup K
           B == shown \ pinned
           F == (S \cap stored) \cap {p \in Pins : p.pos > 0}
           T == (S \cap stored) \cap {p \in Pins : p.pos <= 0}
<1>1. all \in Seq(Pins)
  BY ConcatProperties
<1>2. AllPins(rules) = all
  BY AllPinsAre
<1>3. /\ S \in SUBSET Pins /\ IsFiniteSet(S)
      /\ \A p, q \in S : p.key = q.key => p = q
      /\ \A p \in S : final(p.key) = p.pos
      /\ K = {all[i].key : i \in DOMAIN all}
  BY <1>1, LastPinsAre
<1> HIDE DEF all, final, S
<1>4. pinned = K \cap Stored
  BY <1>3
<1>5. {Organic[i] : i \in DOMAIN Organic} \subseteq Stored
  BY DEF Organic, Stored
<1>6. PICK base : base = Filtered(Organic, ItemsOf(Organic) \ H)
  OBVIOUS
<1>7. /\ base \in Seq(Nat)
      /\ \A g, h \in 1..Len(base) : g < h => base[g] < base[h]
      /\ {base[g] : g \in 1..Len(base)} = {Organic[i] : i \in DOMAIN Organic} \ H
  BY ZenonT(60), <1>6, BaseIs
<1>8. {base[g] : g \in 1..Len(base)} = B
  BY <1>4, <1>5, <1>7
<1>9. PICK sorted : sorted = SortedPins(S)
  OBVIOUS
<1>10. InOrder(sorted, S)
  <2>1. /\ sorted \in Seq(Pins) /\ sorted \in Seq(S)
        /\ \A i, j \in 1..Len(sorted) : i < j => PinLess(sorted[i], sorted[j])
        /\ \A p \in S : \E i \in 1..Len(sorted) : sorted[i] = p
    BY <1>3, <1>9, SortedPinsAre
  <2>2. \A i \in 1..Len(sorted) : sorted[i] \in S
    BY <2>1, ElementOfSeq
  <2> QED BY <2>1, <2>2 DEF InOrder
<1>11. PICK P : P = Filtered(sorted, stored)
  OBVIOUS
<1>12. InOrder(P, S \cap stored)
  BY <1>10, <1>11, KeptInOrder
<1>13. PICK front : front = Filtered(P, {p \in Pins : p.pos > 0})
  OBVIOUS
<1>14. PICK tail : tail = Filtered(P, {p \in Pins : p.pos <= 0})
  OBVIOUS
<1>15. InOrder(front, F) /\ InOrder(tail, T)
  BY <1>12, <1>13, <1>14, KeptInOrder
<1>16. PICK out : out = SplicePinned(base, P)
  OBVIOUS
<1>17. ApplyCuration(rules) = out
  BY <1>2, <1>6, <1>9, <1>11, <1>16 DEF ApplyCuration, S
<1>18. PICK ob, at : PlacedBy(base, front, tail, out, ob, at)
  <2>1. P \in Seq(Pins)
    BY <1>12 DEF InOrder
  <2>2. \E ob, at : PlacedBy(base, Filtered(P, {p \in Pins : p.pos > 0}), Filtered(P, {p \in Pins : p.pos <= 0}),
                             SplicePinned(base, P), ob, at)
    BY <1>7, <2>1, PlacedIs
  <2> QED BY <1>13, <1>14, <1>16, <2>2
<1>19. \A p \in S : p \in F \/ p \in T \/ p.key \notin Stored
  BY <1>3, PinsAre
<1>20. /\ \A p \in F : p \in S /\ p.pos > 0 /\ p.key \in pinned /\ p.key \in fronts
       /\ \A p \in T : p \in S /\ p.pos <= 0 /\ p.key \in pinned /\ p.key \notin fronts
       /\ F \cap T = {}
  <2>1. \A p \in F : p \in S /\ p.pos > 0 /\ p.pos \in Nat /\ p.key \in Stored
    BY PinsAre
  <2>2. \A p \in T : p \in S /\ p.pos <= 0 /\ p.pos \in Nat /\ p.key \in Stored
    BY PinsAre
  <2> HIDE DEF F, T
  <2>3. \A p \in F \cup T : p.key \in pinned /\ final(p.key) = p.pos
    BY <1>3, <1>4, <2>1, <2>2
  <2>4. F \cap T = {}
    BY <2>1, <2>2
  <2> HIDE DEF pinned
  <2> QED BY <2>1, <2>2, <2>3, <2>4
<1>21. /\ \A k \in pinned : \E p \in F \cup T : p.key = k
       /\ \A k \in fronts : \E p \in F : p.key = k
       /\ \A k \in pinned \ fronts : \E p \in T : p.key = k
  <2>1. \A k \in pinned : \E p \in F \cup T : p.key = k
    BY <1>4, <1>19
  <2> HIDE DEF F, T
  <2> QED BY <1>20, <2>1
<1>22. Apart(base, F, T)
  <2>1. \A g \in 1..Len(base) : base[g] \in B
    BY <1>8
  <2> HIDE DEF F, T, shown, pinned, fronts
  <2>2. \A p, q \in F \cup T : p.key = q.key => p = q
    BY <1>3, <1>20
  <2>3. \A p \in F \cup T : \A g \in 1..Len(base) : base[g] # p.key
    BY <1>20, <2>1
  <2> QED BY <1>7, <1>20, <2>2, <2>3 DEF Apart
<1> HIDE DEF F, T, pinned, fronts, shown, B, K, H, stored
<1>23. /\ \A g \in 1..Len(base) : SlotIn(out, base[g]) = ob[g]
       /\ \A i \in 1..Len(front) : SlotIn(out, front[i].key) = at[i]
       /\ \A i \in 1..Len(tail) : SlotIn(out, tail[i].key) = Len(base) + Len(front) + i
       /\ {out[i] : i \in DOMAIN out} = {base[g] : g \in 1..Len(base)} \cup {p.key : p \in F \cup T}
       /\ Cardinality({out[i] : i \in DOMAIN out}) = Len(out)
  <2>1. Slots(base, front, tail, F, T, out, ob, at)
    BY <1>7, <1>15, <1>18, <1>22, SlotsAre
  <2> QED BY <2>1 DEF Slots
<1>24. {out[i] : i \in DOMAIN out} = pinned \cup shown
  <2>1. {p.key : p \in F \cup T} = pinned
    BY <1>20, <1>21
  <2> QED BY <1>8, <1>23, <2>1 DEF B
<1>25. /\ \A k \in B : \E g \in 1..Len(base) : base[g] = k
       /\ \A k \in fronts : \E i \in 1..Len(front) : front[i].key = k /\ front[i] \in F
       /\ \A k \in pinned \ fronts : \E i \in 1..Len(tail) : tail[i].key = k
  <2>1. \A k \in B : \E g \in 1..Len(base) : base[g] = k
    BY <1>8
  <2>2. /\ \A p \in F : \E i \in 1..Len(front) : front[i] = p
        /\ \A p \in T : \E i \in 1..Len(tail) : tail[i] = p
    BY <1>15 DEF InOrder
  <2> QED BY <1>21, <2>1, <2>2
<1>26. /\ Len(base) \in Nat /\ Len(front) \in Nat /\ Len(tail) \in Nat
       /\ \A g \in 1..Len(base) : ob[g] \in 1..Len(base) + Len(front)
       /\ \A i \in 1..Len(front) : at[i] \in 1..Len(base) + Len(front)
       /\ \A g, h \in 1..Len(base) : g < h => ob[g] < ob[h]
       /\ Ordered(front) => \A i \in 1..Len(front) : at[i] = SlotOf(base, front, i)
  BY <1>7, <1>15, <1>18, LenProperties DEF InOrder, PlacedBy
<1>27. ASSUME NEW j \in B, NEW k \in B, j < k PROVE SlotIn(out, j) < SlotIn(out, k)
  <2>1. PICK g \in 1..Len(base) : base[g] = j
    BY <1>25
  <2>2. PICK h \in 1..Len(base) : base[h] = k
    BY <1>25
  <2>3. base[g] \in Nat /\ base[h] \in Nat
    BY <1>7, ElementOfSeq
  <2>4. g < h
    <3>1. ~(h < g) /\ h # g
      BY <1>7, <1>27, <2>1, <2>2, <2>3
    <3> QED BY <1>26, <3>1
  <2> QED BY <1>23, <1>26, <2>1, <2>2, <2>4
<1>28. ASSUME \A j, k \in fronts : final(j) = final(k) => j = k, NEW k \in fronts
       PROVE  SlotIn(out, k) = Least({final(k), Cardinality(B) + 1
                                                + Cardinality({j \in fronts : final(j) < final(k)})})
  <2>1. \A p \in F : p \in S /\ p.key \in fronts /\ final(p.key) = p.pos
    BY <1>3, <1>20
  <2>2. \A p, q \in F : p.key = q.key => p = q
    BY <1>3, <1>20
  <2>3. \A p, q \in F : p.pos = q.pos => p = q
    BY <1>28, <2>1, <2>2
  <2>4. /\ Ordered(front)
        /\ \A i \in 1..Len(front) :
             Cardinality({p.key : p \in {q \in F : q.pos < front[i].pos}}) = i - 1
    BY <1>15, <1>20, <2>2, <2>3, FrontBefore
  <2>5. PICK i \in 1..Len(front) : front[i].key = k /\ front[i] \in F
    BY <1>25
  <2>6. front[i].pos = final(k)
    BY <2>1, <2>5
  <2>7. {p.key : p \in {q \in F : q.pos < front[i].pos}} = {j \in fronts : final(j) < final(k)}
    BY <1>21, <2>1, <2>6
  <2>8. Cardinality({j \in fronts : final(j) < final(k)}) = i - 1
    BY <2>4, <2>7
  <2>9. Cardinality(B) = Len(base)
    <3>1. OneByOne(Len(base), base, B)
      <4>1. \A g \in 1..Len(base) : base[g] \in Nat
        BY <1>7, ElementOfSeq
      <4>2. ASSUME NEW g \in 1..Len(base), NEW h \in 1..Len(base), base[g] = base[h] PROVE g = h
        <5>1. ~(g < h) /\ ~(h < g)
          BY <1>7, <4>1, <4>2
        <5> QED BY <1>26, <5>1
      <4>3. base \in [1..Len(base) -> B]
        <5>1. base = [g \in 1..Len(base) |-> base[g]]
          BY <1>7, LenProperties
        <5>2. \A g \in 1..Len(base) : base[g] \in B
          BY <1>8
        <5> QED BY <5>1, <5>2
      <4> QED BY <1>25, <4>2, <4>3 DEF OneByOne
    <3> QED BY <1>26, <3>1, CountIs
  <2>10. SlotIn(out, k) = SlotOf(base, front, i)
    BY <1>23, <1>26, <2>4, <2>5
  <2>11. front[i].pos \in Nat
    BY <1>15, ElementOfSeq, PinsAre DEF InOrder
  <2>12. Cardinality(B) + 1 + Cardinality({j \in fronts : final(j) < final(k)}) = Len(base) + i /\ Len(base) + i \in Nat
    BY <1>26, <2>8, <2>9
  <2>13. Least({front[i].pos, Len(base) + i}) = IF front[i].pos <= Len(base) + i THEN front[i].pos ELSE Len(base) + i
    BY <2>11, <2>12, LeastOfTwo
  <2>14. SlotIn(out, k) = Least({front[i].pos, Len(base) + i})
    BY <2>10, <2>13 DEF SlotOf
  <2> QED BY <2>6, <2>12, <2>14
<1>29. ASSUME NEW k \in pinned \ fronts, NEW j \in fronts \cup B PROVE SlotIn(out, j) < SlotIn(out, k)
  <2>1. PICK i \in 1..Len(tail) : tail[i].key = k
    BY <1>25
  <2>2. SlotIn(out, k) = Len(base) + Len(front) + i
    BY <1>23, <2>1
  <2>3. SlotIn(out, j) \in 1..Len(base) + Len(front)
    <3>1. CASE j \in fronts
      <4>1. PICK h \in 1..Len(front) : front[h].key = j
        BY <1>25, <3>1
      <4> QED BY <1>23, <1>26, <4>1
    <3>2. CASE j \in B
      <4>1. PICK h \in 1..Len(base) : base[h] = j
        BY <1>25, <3>2
      <4> QED BY <1>23, <1>26, <4>1
    <3> QED BY <3>1, <3>2
  <2> QED BY <1>26, <2>2, <2>3
<1>30. Curated(rules, out)
  BY <1>23, <1>24, <1>27, <1>28, <1>29 DEF Curated, SlotIn, B, shown, pinned, fronts, final, all
<1> QED BY <1>17, <1>30

-----------------------------------------------------------------------------
(* Every question. *)

\* What can be asked.
Asked ==
  /\ asked.kind = "boolean" => asked.q \in Seq(Clause) /\ Len(asked.q) >= 1
  /\ asked.kind = "expr" => asked.t \in Exprs
  /\ asked.kind = "distance" => asked.x \in Words /\ asked.y \in Words
  /\ asked.kind = "curation" =>
       Len(asked.rules) = 2 /\ asked.rules[1].pins \in Seq(Pins) /\ asked.rules[2].pins \in Seq(Pins)
  /\ asked.kind = "groups" => asked.pairs \in SUBSET (Dups \X Dups)
  /\ asked.kind = "bucket" => InLine(asked.from, asked.to) /\ asked.ts \in Int
  /\ asked.kind = "delta" => asked.old \in Words /\ asked.new \in Words

\* Buckets of given widths, one starting where the other ends.
EndsOf(n, width, end) ==
  /\ width \in [1..n -> 1..2]
  /\ end = CHOOSE f : f = [i \in 0..n |-> IF i = 0 THEN 1 ELSE f[i - 1] + width[i]]
Buckets(n, end, from, to) == from = [i \in 1..n |-> end[i - 1]] /\ to = [i \in 1..n |-> end[i]]

\* They are in line, and none is empty.
LEMMA WidthsInLine ==
  ASSUME NEW n \in Nat, NEW width, NEW end, EndsOf(n, width, end),
         NEW from, NEW to, Buckets(n, end, from, to)
  PROVE  InLine(from, to)
<1> DEFINE Does(f) == f = [i \in 0..n |-> IF i = 0 THEN 1 ELSE f[i - 1] + width[i]]
<1>1. \A i \in 1..n : width[i] \in 1..2 /\ i \in 0..n /\ i - 1 \in 0..n /\ i # 0
  BY DEF EndsOf
<1>2. PICK step : step = [p \in (1..n) \X Nat |-> p[2] + width[p[1]]]
  OBVIOUS
<1>3. step \in [(1..n) \X Nat -> Nat] /\ \A i \in 1..n, e \in Nat : step[<<i, e>>] = e + width[i]
  <2>1. \A p \in (1..n) \X Nat : p[1] \in 1..n /\ p[2] \in Nat /\ p = <<p[1], p[2]>>
    OBVIOUS
  <2>2. \A i \in 1..n, e \in Nat : e + width[i] \in Nat
    BY <1>1
  <2>3. \A p \in (1..n) \X Nat : p[2] + width[p[1]] \in Nat
    BY <2>1, <2>2
  <2>4. step \in [(1..n) \X Nat -> Nat]
    BY <1>2, <2>3
  <2>5. \A i \in 1..n, e \in Nat : step[<<i, e>>] = e + width[i]
    BY <1>2
  <2> QED BY <2>4, <2>5
<1>4. PICK f : Iterated(n, Nat, 1, step, f)
  BY <1>3, Iterates
<1>5. f \in [0..n -> Nat] /\ f[0] = 1 /\ \A i \in 1..n : f[i] = f[i - 1] + width[i]
  BY <1>1, <1>3, <1>4 DEF Iterated
<1>6. Does(f)
  <2>1. f = [i \in 0..n |-> f[i]] /\ \A i \in 0..n : i = 0 \/ i \in 1..n
    BY <1>5
  <2>2. \A i \in 0..n : f[i] = IF i = 0 THEN 1 ELSE f[i - 1] + width[i]
    BY <1>5, <2>1
  <2> QED BY <2>1, <2>2
<1>7. Does(end)
  <2>1. end = CHOOSE f1 : Does(f1)
    BY DEF EndsOf
  <2> HIDE DEF Does
  <2> QED BY <1>6, <2>1
<1>8. \A i \in 0..n : end[i] = IF i = 0 THEN 1 ELSE end[i - 1] + width[i]
  <2>1. PICK g : g = end
    OBVIOUS
  <2>2. g = [i \in 0..n |-> IF i = 0 THEN 1 ELSE g[i - 1] + width[i]]
    BY <1>7, <2>1
  <2>3. \A i \in 0..n : g[i] = IF i = 0 THEN 1 ELSE g[i - 1] + width[i]
    BY <2>2
  <2> QED BY <2>1, <2>3
<1> HIDE DEF Does
<1> DEFINE G == {i \in 0..n : end[i] \in Nat}
<1>9. \A i \in 0..n : i \in G
  <2>1. 0 \in G
    BY <1>8
  <2>2. ASSUME NEW i \in 1..n, i - 1 \in G PROVE i \in G
    <3>1. end[i - 1] \in Nat /\ width[i] \in Nat /\ i \in 0..n
      BY <1>1, <2>2
    <3>2. end[i] = end[i - 1] + width[i]
      BY <1>1, <1>8
    <3> QED BY <3>1, <3>2
  <2>3. G \in SUBSET (0..n)
    OBVIOUS
  <2> HIDE DEF G
  <2> QED BY <2>1, <2>2, <2>3, UpToBound
<1>10. \A i \in 1..n : end[i] \in Int /\ end[i - 1] \in Int /\ end[i - 1] < end[i]
  <2>1. \A i \in 0..n : end[i] \in Nat
    BY <1>9
  <2> SUFFICES ASSUME NEW i \in 1..n
               PROVE  end[i] \in Int /\ end[i - 1] \in Int /\ end[i - 1] < end[i]
    OBVIOUS
  <2>2. end[i] \in Nat /\ end[i - 1] \in Nat /\ width[i] \in 1..2
    BY <1>1, <2>1
  <2>3. end[i] = end[i - 1] + width[i]
    BY <1>1, <1>8
  <2> QED BY <2>2, <2>3
<1>11. from = [i \in 1..n |-> end[i - 1]] /\ to = [i \in 1..n |-> end[i]]
  BY DEF Buckets
<1>13. from \in Seq(Int) /\ Len(from) = n /\ \A i \in 1..n : from[i] = end[i - 1]
  <2>1. from \in [1..n -> Int]
    BY <1>10, <1>11
  <2> QED BY <1>11, <2>1, SeqDef, LenProperties
<1>14. to \in Seq(Int) /\ Len(to) = n /\ \A i \in 1..n : to[i] = end[i]
  <2>1. to \in [1..n -> Int]
    BY <1>10, <1>11
  <2> QED BY <1>11, <2>1, SeqDef, LenProperties
<1>15. \A i \in 1..n : i + 1 <= n => to[i] = from[i + 1]
  <2>1. \A i \in 1..n : i + 1 <= n => i + 1 \in 1..n /\ (i + 1) - 1 = i
    OBVIOUS
  <2> QED BY <1>13, <1>14, <2>1
<1> QED BY <1>10, <1>13, <1>14, <1>15 DEF InLine

\* Every question is one of those.
LEMMA QuestionStep ==
  ASSUME Asked, [SearchNext]_searchVars
  PROVE  Asked'
<1>1. CASE AskBoolean
  <2>1. PICK n \in 1..MaxClauses, default \in {"AND", "OR"} : \E q \in [1..n -> Clause] :
          asked' = [kind |-> "boolean", q |-> q, default |-> default]
    BY <1>1 DEF AskBoolean, Clause
  <2>2. PICK q \in [1..n -> Clause] : asked' = [kind |-> "boolean", q |-> q, default |-> default]
    BY <2>1
  <2>3. n \in Nat /\ n >= 1
    BY SearchingAssumption
  <2>4. q \in Seq(Clause) /\ Len(q) = n
    BY <2>3, SeqDef, LenProperties
  <2> QED BY <2>3, <2>4, <2>2 DEF Asked
<1>2. CASE AskExpr
  BY <1>2 DEF AskExpr, Asked
<1>3. CASE AskDistance
  BY <1>3 DEF AskDistance, Asked
<1>4. CASE AskCuration
  <2>1. PICK hides \in {{}, {1}, {2}}, n \in 0..2, m \in 0..1 :
          \E ps \in [1..n -> Pins], more \in [1..m -> Pins] :
            asked' = [kind |-> "curation",
                      rules |-> <<[hides |-> hides, pins |-> ps], [hides |-> {}, pins |-> more]>>]
    BY <1>4 DEF AskCuration
  <2>2. PICK ps \in [1..n -> Pins], more \in [1..m -> Pins] :
          asked' = [kind |-> "curation",
                    rules |-> <<[hides |-> hides, pins |-> ps], [hides |-> {}, pins |-> more]>>]
    BY <2>1
  <2>3. n \in Nat /\ m \in Nat
    OBVIOUS
  <2>4. ps \in Seq(Pins) /\ more \in Seq(Pins)
    BY <2>3, SeqDef
  <2>5. asked'.kind = "curation" /\ Len(asked'.rules) = 2 /\ asked'.rules[1].pins = ps /\ asked'.rules[2].pins = more
    BY <2>2
  <2> QED BY <2>4, <2>5 DEF Asked
<1>5. CASE AskGroups
  <2>1. PICK pairs \in SUBSET {p \in (1..MaxDups) \X (1..MaxDups) : p[1] < p[2]} :
          asked' = [kind |-> "groups", pairs |-> pairs]
    BY <1>5 DEF AskGroups
  <2>2. pairs \in SUBSET (Dups \X Dups)
    BY DEF Dups
  <2> QED BY <2>1, <2>2 DEF Asked
<1>6. CASE AskBucket
  <2>1. PICK n \in 0..MaxBuckets, ts \in 0..2 * MaxBuckets + 1 : \E width \in [1..n -> 1..2] :
          LET end[i \in 0..n] == IF i = 0 THEN 1 ELSE end[i - 1] + width[i]
          IN asked' = [kind |-> "bucket", ts |-> ts,
                       from |-> [i \in 1..n |-> end[i - 1]], to |-> [i \in 1..n |-> end[i]]]
    BY <1>6 DEF AskBucket
  <2>2. PICK width \in [1..n -> 1..2] :
          LET end[i \in 0..n] == IF i = 0 THEN 1 ELSE end[i - 1] + width[i]
          IN asked' = [kind |-> "bucket", ts |-> ts,
                       from |-> [i \in 1..n |-> end[i - 1]], to |-> [i \in 1..n |-> end[i]]]
    BY <2>1
  <2>3. PICK end : end = CHOOSE f : f = [i \in 0..n |-> IF i = 0 THEN 1 ELSE f[i - 1] + width[i]]
    OBVIOUS
  <2>4. asked' = [kind |-> "bucket", ts |-> ts,
                  from |-> [i \in 1..n |-> end[i - 1]], to |-> [i \in 1..n |-> end[i]]]
    BY <2>3, <2>2
  <2>5. n \in Nat /\ ts \in Int
    BY SearchingAssumption
  <2>6. PICK from, to : Buckets(n, end, from, to)
    BY DEF Buckets
  <2>7. InLine(from, to)
    <3>1. EndsOf(n, width, end)
      BY <2>3 DEF EndsOf
    <3> QED BY <2>5, <2>6, <3>1, WidthsInLine
  <2> QED BY <2>4, <2>5, <2>6, <2>7 DEF Asked, Buckets
<1>7. CASE AskDelta
  BY <1>7 DEF AskDelta, Asked
<1>8. CASE UNCHANGED searchVars
  BY <1>8 DEF Asked, searchVars
<1> QED BY <1>1, <1>2, <1>3, <1>4, <1>5, <1>6, <1>7, <1>8 DEF SearchNext

\* Whatever is asked, the answer is right.
LEMMA QuestionIsExact ==
  ASSUME Asked
  PROVE  AnswersExact
<1>1. ExprExact
  BY ZenonT(60), ExprIsExact DEF Asked, ExprExact, Unmarked
<1>2. BooleanExact
  BY BooleanIsExact DEF Asked, BooleanExact
<1>3. DistanceExact
  BY DistanceIsExact DEF Asked, DistanceExact
<1>4. PinsPlaced
  BY CurationIsExact DEF Asked, PinsPlaced
<1>5. GroupsAreComponents
  <2>1. asked.kind = "groups" => asked.pairs \in SUBSET (Dups \X Dups)
    BY DEF Asked
  <2> QED BY <2>1, GroupsAreExact DEF GroupsAreComponents
<1>6. BucketFound
  <2>1. asked.kind = "bucket" => InLine(asked.from, asked.to) /\ asked.ts \in Int
    BY DEF Asked
  <2> QED BY <2>1, BucketIsFound DEF BucketFound
<1>7. DeltaRoundTrip
  BY DeltaIsExact DEF Asked, DeltaRoundTrip
<1> QED BY <1>1, <1>2, <1>3, <1>4, <1>5, <1>6, <1>7 DEF AnswersExact

\* The answers of evalExpr, SearchBoolean, levenshteinDistance, applyCuration*,
\* findSimilarDuplicates, findBucket and of Encode with Decode are the ones their definitions
\* give, whatever is asked, whatever the documents, the letters and the lengths.
THEOREM AnswersAreExact == SearchSpec => []AnswersExact
<1>1. SearchInit => Asked
  BY DEF SearchInit, Asked
<1>2. Asked /\ [SearchNext]_searchVars => Asked'
  BY QuestionStep
<1>3. Asked => AnswersExact
  BY QuestionIsExact
<1> QED BY <1>1, <1>2, <1>3, PTL DEF SearchSpec
=============================================================================
