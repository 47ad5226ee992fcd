---------------------------- MODULE RunningProofs ----------------------------
(***************************************************************************)
(* Proofs about RunningPass: readiness is not missed and the pod was       *)
(* ready; the fetch of a thread is in order, bounded and complete; the     *)
(* estimate stays close to what was reported; the last object of an output *)
(* decides.                                                                *)
(***************************************************************************)
EXTENDS RunningPass, SequenceTheorems, FiniteSetTheorems, TLAPS

-----------------------------------------------------------------------------
(* Sequences: leaving out one element, a prefix, keeping some elements.     *)

\* A sequence without its i-th element.
Without(s, i) == SubSeq(s, 1, i - 1) \o SubSeq(s, i + 1, Len(s))

LEMMA DeleteFacts ==
    ASSUME NEW T, NEW s \in Seq(T), NEW i \in DOMAIN s
    PROVE  /\ Without(s, i) \in Seq(T)
           /\ \A k \in DOMAIN Without(s, i) :
                 /\ Without(s, i)[k] = IF k < i THEN s[k] ELSE s[k + 1]
                 /\ k \in DOMAIN s /\ k + 1 \in DOMAIN s
<1> DEFINE t == Without(s, i)
<1> DEFINE a == SubSeq(s, 1, i - 1)
           b == SubSeq(s, i + 1, Len(s))
<1>1. /\ Len(s) \in Nat /\ DOMAIN s = 1 .. Len(s) /\ i \in 1 .. Len(s)
      /\ \A k \in 1 .. Len(s) : s[k] \in T
  BY LenProperties, ElementOfSeq
<1>2. /\ a \in Seq(T) /\ Len(a) = i - 1
      /\ \A k \in 1 .. i - 1 : a[k] = s[k]
  <2>1. \A k \in 1 .. i - 1 : s[k] \in T
    BY <1>1
  <2>2. /\ a \in Seq(T) /\ Len(a) = IF 1 <= i - 1 THEN (i - 1) - 1 + 1 ELSE 0
        /\ \A k \in 1 .. (i - 1) - 1 + 1 : a[k] = s[1 + k - 1]
    BY <1>1, <2>1, SubSeqProperties
  <2> HIDE DEF a
  <2>3. Len(a) = i - 1
    BY <1>1, <2>2
  <2>4. \A k \in 1 .. i - 1 : a[k] = s[k]
    <3> TAKE k \in 1 .. i - 1
    <3>1. k \in 1 .. (i - 1) - 1 + 1 /\ 1 + k - 1 = k
      BY <1>1
    <3> QED
      BY <2>2, <3>1
  <2> QED
    BY <2>2, <2>3, <2>4
<1>3. /\ b \in Seq(T) /\ Len(b) = Len(s) - i
      /\ \A k \in 1 .. Len(s) - i : b[k] = s[i + k]
  <2>0. i + 1 \in Int /\ Len(s) \in Int
    BY <1>1
  <2>1. \A k \in i + 1 .. Len(s) : s[k] \in T
    BY <1>1
  <2>2. /\ b \in Seq(T) /\ Len(b) = IF i + 1 <= Len(s) THEN Len(s) - (i + 1) + 1 ELSE 0
        /\ \A k \in 1 .. Len(s) - (i + 1) + 1 : b[k] = s[(i + 1) + k - 1]
    BY <2>0, <2>1, SubSeqProperties
  <2> HIDE DEF b
  <2>3. Len(b) = Len(s) - i
    BY <1>1, <2>2
  <2>4. \A k \in 1 .. Len(s) - i : b[k] = s[i + k]
    <3> TAKE k \in 1 .. Len(s) - i
    <3>1. k \in 1 .. Len(s) - (i + 1) + 1 /\ (i + 1) + k - 1 = i + k
      BY <1>1
    <3> QED
      BY <2>2, <3>1
  <2> QED
    BY <2>2, <2>3, <2>4
<1>4. t = a \o b
  BY DEF Without
<1> HIDE DEF a, b, t
<1>5. /\ t \in Seq(T) /\ Len(t) = Len(a) + Len(b)
      /\ \A k \in 1 .. Len(a) + Len(b) :
            t[k] = IF k <= Len(a) THEN a[k] ELSE b[k - Len(a)]
  <2>1. /\ a \o b \in Seq(T) /\ Len(a \o b) = Len(a) + Len(b)
        /\ \A k \in 1 .. Len(a) + Len(b) :
              (a \o b)[k] = IF k <= Len(a) THEN a[k] ELSE b[k - Len(a)]
    BY <1>2, <1>3, ConcatProperties
  <2> QED
    BY <1>4, <2>1
<1>6. /\ Len(s) \in Nat /\ i \in 1 .. Len(s)
      /\ Len(a) = i - 1 /\ Len(b) = Len(s) - i
  BY <1>1, <1>2, <1>3
<1>7. Len(a) + Len(b) = Len(s) - 1
  BY <1>6
<1>8. DOMAIN t = 1 .. Len(s) - 1
  BY <1>5, <1>7, LenProperties
<1>9. ASSUME NEW k \in 1 .. Len(s) - 1
      PROVE  t[k] = IF k < i THEN s[k] ELSE s[k + 1]
  <2>1. k \in 1 .. Len(a) + Len(b)
    BY <1>7
  <2>2. CASE k < i
    <3>1. k <= Len(a) /\ k \in 1 .. i - 1
      BY <1>6, <2>2
    <3> QED
      BY <1>2, <1>5, <2>1, <2>2, <3>1
  <2>3. CASE ~(k < i)
    <3>0. /\ k \in Int /\ i \in Int /\ Len(s) \in Int
          /\ Len(a) = i - 1 /\ k <= Len(s) - 1 /\ i <= k
      BY <1>6, <2>3
    <3>1. ~(k <= Len(a)) /\ k - Len(a) \in 1 .. Len(s) - i /\ i + (k - Len(a)) = k + 1
      BY <3>0
    <3>2. t[k] = b[k - Len(a)]
      BY <1>5, <2>1, <3>1
    <3>3. b[k - Len(a)] = s[i + (k - Len(a))]
      BY <1>3, <3>1
    <3> QED
      BY <2>3, <3>1, <3>2, <3>3
  <2> QED
    BY <2>2, <2>3
<1>10. \A k \in 1 .. Len(s) - 1 : k \in 1 .. Len(s) /\ k + 1 \in 1 .. Len(s)
  BY <1>1
<1> QED
  BY <1>1, <1>5, <1>8, <1>9, <1>10 DEF t

\* The first n elements.
LEMMA PrefixFacts ==
    ASSUME NEW T, NEW s \in Seq(T), NEW n \in 0 .. Len(s)
    PROVE  /\ SubSeq(s, 1, n) \in Seq(T) /\ Len(SubSeq(s, 1, n)) = n
           /\ \A k \in 1 .. n : SubSeq(s, 1, n)[k] = s[k]
<1>1. /\ Len(s) \in Nat /\ n \in Nat /\ n <= Len(s)
      /\ \A k \in 1 .. n : s[k] \in T
  BY LenProperties, ElementOfSeq
<1>2. /\ SubSeq(s, 1, n) \in Seq(T)
      /\ Len(SubSeq(s, 1, n)) = IF 1 <= n THEN n - 1 + 1 ELSE 0
      /\ \A k \in 1 .. n - 1 + 1 : SubSeq(s, 1, n)[k] = s[1 + k - 1]
  BY <1>1, SubSeqProperties
<1>3. \A k \in 1 .. n : SubSeq(s, 1, n)[k] = s[k]
  <2> TAKE k \in 1 .. n
  <2>1. k \in 1 .. n - 1 + 1 /\ 1 + k - 1 = k
    BY <1>1
  <2> QED
    BY <1>2, <2>1
<1> QED
  BY <1>1, <1>2, <1>3

\* Ranks grow with the members.
LEMMA RankFacts ==
    ASSUME NEW I \in SUBSET Int, IsFiniteSet(I)
    PROVE  /\ Cardinality(I) \in Nat
           /\ \A i \in I : Rank(I, i) \in 1 .. Cardinality(I)
           /\ \A i, j \in I : i < j => Rank(I, i) < Rank(I, j)
<1> DEFINE Upto(i) == {j \in I : j <= i}
<1>1. \A i : IsFiniteSet(Upto(i)) /\ Cardinality(Upto(i)) \in Nat
             /\ Cardinality(Upto(i)) <= Cardinality(I)
  <2> TAKE i
  <2>1. Upto(i) \in SUBSET I
    OBVIOUS
  <2> QED
    BY <2>1, FS_Subset, FS_CardinalityType
<1>2. Cardinality(I) \in Nat
  BY FS_CardinalityType
<1>3. ASSUME NEW i \in I
      PROVE  Cardinality(Upto(i)) # 0
  <2>1. i \in Upto(i)
    OBVIOUS
  <2> QED
    BY <1>1, <2>1, FS_EmptySet
<1>4. ASSUME NEW i \in I, NEW j \in I, i < j
      PROVE  Cardinality(Upto(i)) < Cardinality(Upto(j))
  <2>1. Upto(i) \in SUBSET Upto(j)
    <3>1. \A m \in I : m <= i => m <= j
      BY <1>4
    <3> QED
      BY <3>1
  <2>2. j \in Upto(j) /\ j \notin Upto(i)
    BY <1>4
  <2>3. Cardinality(Upto(i)) <= Cardinality(Upto(j))
        /\ (Cardinality(Upto(j)) = Cardinality(Upto(i)) => Upto(j) = Upto(i))
    BY <1>1, <2>1, FS_Subset
  <2> QED
    BY <1>1, <2>2, <2>3
<1> HIDE DEF Upto
<1>5. \A i : Rank(I, i) = Cardinality(Upto(i))
  BY DEF Rank, Upto
<1>6. \A i \in I : Rank(I, i) \in 1 .. Cardinality(I)
  <2> TAKE i \in I
  <2> QED
    BY <1>1, <1>2, <1>3, <1>5
<1> QED
  BY <1>2, <1>4, <1>5, <1>6

\* Every rank up to the number of members is taken.
LEMMA NthFacts ==
    ASSUME NEW I \in SUBSET Int, IsFiniteSet(I)
    PROVE  /\ \A k \in 1 .. Cardinality(I) : Nth(I, k) \in I /\ Rank(I, Nth(I, k)) = k
           /\ \A i \in I : Nth(I, Rank(I, i)) = i
           /\ \A k, l \in 1 .. Cardinality(I) : k < l => Nth(I, k) < Nth(I, l)
<1> DEFINE R == 1 .. Cardinality(I)
           f == [i \in I |-> Rank(I, i)]
<1>1. /\ Cardinality(I) \in Nat
      /\ \A i \in I : Rank(I, i) \in R
      /\ \A i, j \in I : i < j => Rank(I, i) < Rank(I, j)
  BY RankFacts
<1>2. \A i, j \in I : Rank(I, i) = Rank(I, j) => i = j
  <2> SUFFICES ASSUME NEW i \in I, NEW j \in I, Rank(I, i) = Rank(I, j), i # j
               PROVE  FALSE
    OBVIOUS
  <2>1. i < j \/ j < i
    OBVIOUS
  <2> QED
    BY <1>1, <2>1
<1>3. f \in Injection(I, R)
  BY <1>1, <1>2 DEF Injection, IsInjective
<1>4. IsFiniteSet(R) /\ Cardinality(R) = Cardinality(I)
  BY <1>1, FS_Interval
<1>5. f \in Surjection(I, R)
  BY <1>3, <1>4, FS_Injection
<1>6. \A k \in R : \E i \in I : Rank(I, i) = k
  BY <1>5 DEF Surjection
<1>7. \A k \in R : Nth(I, k) \in I /\ Rank(I, Nth(I, k)) = k
  BY <1>6 DEF Nth
<1>8. \A i \in I : Nth(I, Rank(I, i)) = i
  BY <1>1, <1>2, <1>7
<1>9. \A i, j \in I : Rank(I, i) < Rank(I, j) => i < j
  <2> SUFFICES ASSUME NEW i \in I, NEW j \in I, Rank(I, i) < Rank(I, j), ~(i < j)
               PROVE  FALSE
    OBVIOUS
  <2>1. Rank(I, i) \in Int /\ Rank(I, j) \in Int
    BY <1>1
  <2>2. i = j \/ j < i
    OBVIOUS
  <2>3. i # j
    BY <2>1
  <2> QED
    BY <1>1, <2>1, <2>2, <2>3
<1>10. ASSUME NEW k \in R, NEW l \in R, k < l
       PROVE  Nth(I, k) < Nth(I, l)
  <2>1. Rank(I, Nth(I, k)) < Rank(I, Nth(I, l))
    BY <1>7, <1>10
  <2> QED
    BY <1>7, <1>9, <2>1
<1> QED
  BY <1>7, <1>8, <1>10

\* The elements at some positions are elements, in their order.
LEMMA ElementsAtFacts ==
    ASSUME NEW T, NEW s \in Seq(T), NEW I \in SUBSET DOMAIN s
    PROVE  /\ IsFiniteSet(I) /\ Cardinality(I) \in Nat /\ I \in SUBSET Int
           /\ ElementsAt(s, I) \in Seq(T)
           /\ Len(ElementsAt(s, I)) = Cardinality(I)
           /\ DOMAIN ElementsAt(s, I) = 1 .. Cardinality(I)
           /\ \A k \in DOMAIN ElementsAt(s, I) :
                 Nth(I, k) \in I /\ ElementsAt(s, I)[k] = s[Nth(I, k)]
           /\ \A k, l \in DOMAIN ElementsAt(s, I) : k < l => Nth(I, k) < Nth(I, l)
<1> DEFINE q == ElementsAt(s, I)
           n == Cardinality(I)
<1>1. Len(s) \in Nat /\ DOMAIN s = 1 .. Len(s) /\ \A i \in DOMAIN s : s[i] \in T
  BY LenProperties, ElementOfSeq
<1>2. IsFiniteSet(DOMAIN s)
  BY <1>1, FS_Interval
<1>3. IsFiniteSet(I) /\ I \in SUBSET Int /\ n \in Nat
  BY <1>1, <1>2, FS_Subset, FS_CardinalityType
<1>4. /\ \A k \in 1 .. n : Nth(I, k) \in I
      /\ \A k, l \in 1 .. n : k < l => Nth(I, k) < Nth(I, l)
  BY <1>3, NthFacts
<1>5. q = [k \in 1 .. n |-> s[Nth(I, k)]]
  BY DEF ElementsAt
<1>6. q \in [1 .. n -> T]
  BY <1>1, <1>4, <1>5
<1> HIDE DEF q, n
<1>7. q \in Seq(T) /\ Len(q) = n /\ DOMAIN q = 1 .. n
  BY <1>3, <1>6
<1> QED
  BY <1>3, <1>4, <1>5, <1>7 DEF q, n

\* The positions of the elements that are kept.
Places(s, S) == {i \in DOMAIN s : s[i] \in S}

LEMMA KeptFacts ==
    ASSUME NEW T, NEW s \in Seq(T), NEW S
    PROVE  /\ Kept(s, S) \in Seq(T)
           /\ Kept(s, S) = ElementsAt(s, Places(s, S))
           /\ Len(Kept(s, S)) = Cardinality(Places(s, S))
           /\ \A k \in DOMAIN Kept(s, S) : \E i \in DOMAIN s : Kept(s, S)[k] = s[i]
           /\ \A k, l \in DOMAIN Kept(s, S) :
                 k < l => \E i, j \in DOMAIN s :
                             i < j /\ Kept(s, S)[k] = s[i] /\ Kept(s, S)[l] = s[j]
<1> DEFINE I == Places(s, S)
<1>1. I \in SUBSET DOMAIN s
  BY DEF Places
<1>2. Kept(s, S) = ElementsAt(s, I)
  BY DEF Kept, Places
<1> HIDE DEF I
<1>3. /\ ElementsAt(s, I) \in Seq(T)
      /\ Len(ElementsAt(s, I)) = Cardinality(I)
      /\ \A k \in DOMAIN ElementsAt(s, I) :
            Nth(I, k) \in DOMAIN s /\ ElementsAt(s, I)[k] = s[Nth(I, k)]
      /\ \A k, l \in DOMAIN ElementsAt(s, I) : k < l => Nth(I, k) < Nth(I, l)
  BY <1>1, ElementsAtFacts
<1>4. \A k \in DOMAIN Kept(s, S) : \E i \in DOMAIN s : Kept(s, S)[k] = s[i]
  BY <1>2, <1>3
<1>5. ASSUME NEW k \in DOMAIN Kept(s, S), NEW l \in DOMAIN Kept(s, S), k < l
      PROVE  \E i, j \in DOMAIN s :
                i < j /\ Kept(s, S)[k] = s[i] /\ Kept(s, S)[l] = s[j]
  BY <1>2, <1>3, <1>5
<1> QED
  BY <1>2, <1>3, <1>4, <1>5 DEF I

Moved(I, m) == {m + i : i \in I}

LEMMA MovedCardinality ==
    ASSUME NEW I \in SUBSET Int, IsFiniteSet(I), NEW m \in Int
    PROVE  IsFiniteSet(Moved(I, m)) /\ Cardinality(Moved(I, m)) = Cardinality(I)
<1> DEFINE f == [i \in I |-> m + i]
<1>1. f \in [I -> Moved(I, m)]
  BY DEF Moved
<1>2. \A i, j \in I : f[i] = f[j] => i = j
  <2> TAKE i, j \in I
  <2>1. f[i] = m + i /\ f[j] = m + j /\ i \in Int /\ j \in Int
    OBVIOUS
  <2> QED
    BY <2>1
<1>3. f \in Bijection(I, Moved(I, m))
  BY <1>1, <1>2 DEF Bijection, Injection, IsInjective, Surjection, Moved
<1> QED
  BY <1>3, FS_Bijection DEF ExistsBijection

\* What is kept of two parts is what is kept of the whole.
LEMMA KeptConcat ==
    ASSUME NEW T, NEW a \in Seq(T), NEW b \in Seq(T), NEW S
    PROVE  Kept(a \o b, S) = Kept(a, S) \o Kept(b, S)
<1> DEFINE c  == a \o b
           m  == Len(a)
           Ia == Places(a, S)
           Ib == Places(b, S)
           Ic == Places(c, S)
           na == Cardinality(Ia)
           nb == Cardinality(Ib)
<1>1. /\ m \in Nat /\ DOMAIN a = 1 .. m
      /\ Len(b) \in Nat /\ DOMAIN b = 1 .. Len(b)
      /\ c \in Seq(T) /\ DOMAIN c = 1 .. m + Len(b)
      /\ \A i \in 1 .. m : c[i] = a[i]
      /\ \A i \in 1 .. Len(b) : c[m + i] = b[i]
  <2>1. /\ c \in Seq(T) /\ Len(c) = Len(a) + Len(b)
        /\ \A i \in 1 .. Len(a) + Len(b) :
              c[i] = IF i <= Len(a) THEN a[i] ELSE b[i - Len(a)]
    BY ConcatProperties
  <2>2. Len(a) \in Nat /\ Len(b) \in Nat
    BY LenProperties
  <2>3. \A i \in 1 .. Len(b) : c[m + i] = b[i]
    <3> TAKE i \in 1 .. Len(b)
    <3>1. m + i \in 1 .. Len(a) + Len(b) /\ ~(m + i <= Len(a)) /\ (m + i) - Len(a) = i
      BY <2>2
    <3> QED
      BY <2>1, <3>1
  <2>4. \A i \in 1 .. m : c[i] = a[i]
    BY <2>1, <2>2
  <2>5. DOMAIN a = 1 .. m /\ DOMAIN b = 1 .. Len(b) /\ DOMAIN c = 1 .. Len(c)
    BY <2>1, LenProperties
  <2> QED
    BY <2>1, <2>2, <2>3, <2>4, <2>5
<1>2. /\ Ia \in SUBSET (1 .. m) /\ Ib \in SUBSET (1 .. Len(b))
      /\ Ic \in SUBSET (1 .. m + Len(b))
  BY <1>1 DEF Places
<1>3. Ic = Ia \cup Moved(Ib, m)
  <2>1. ASSUME NEW i \in Ic PROVE i \in Ia \cup Moved(Ib, m)
    <3>1. i \in 1 .. m + Len(b) /\ c[i] \in S
      BY <1>1 DEF Places
    <3>2. CASE i <= m
      BY <1>1, <3>1, <3>2 DEF Places
    <3>3. CASE ~(i <= m)
      <4>1. i - m \in 1 .. Len(b) /\ m + (i - m) = i
        BY <1>1, <3>1, <3>3
      <4>2. b[i - m] \in S
        BY <1>1, <3>1, <4>1
      <4> QED
        BY <1>1, <4>1, <4>2 DEF Places, Moved
    <3> QED
      BY <3>2, <3>3
  <2>2. ASSUME NEW i \in Ia PROVE i \in Ic
    BY <1>1 DEF Places
  <2>3. ASSUME NEW i \in Ib PROVE m + i \in Ic
    BY <1>1 DEF Places
  <2> QED
    BY <2>1, <2>2, <2>3 DEF Moved
<1> HIDE DEF Ia, Ib, Ic
<1>4. /\ IsFiniteSet(Ia) /\ IsFiniteSet(Ib) /\ IsFiniteSet(Ic)
      /\ Ia \in SUBSET Int /\ Ib \in SUBSET Int /\ Ic \in SUBSET Int
      /\ na \in Nat /\ nb \in Nat
  <2>1. IsFiniteSet(1 .. m) /\ IsFiniteSet(1 .. Len(b)) /\ IsFiniteSet(1 .. m + Len(b))
    BY <1>1, FS_Interval
  <2>2. IsFiniteSet(Ia) /\ IsFiniteSet(Ib) /\ IsFiniteSet(Ic)
    BY <1>2, <2>1, FS_Subset
  <2> QED
    BY <1>2, <2>2, FS_CardinalityType
\* The set that begins with the first positions and goes on with moved ones.
<1>5. ASSUME NEW J \in SUBSET Ib
      PROVE  Cardinality(Ia \cup Moved(J, m)) = na + Cardinality(J)
  <2>1. IsFiniteSet(J) /\ J \in SUBSET Int /\ Cardinality(J) \in Nat
    BY <1>4, FS_Subset, FS_CardinalityType
  <2>2. IsFiniteSet(Moved(J, m)) /\ Cardinality(Moved(J, m)) = Cardinality(J)
    BY <1>1, <2>1, MovedCardinality
  <2>3. Ia \cap Moved(J, m) = {}
    BY <1>1, <1>2 DEF Moved
  <2>4. Cardinality(Ia \cap Moved(J, m)) = 0
    BY <2>3, FS_EmptySet
  <2>5. Cardinality(Ia \cup Moved(J, m))
           = Cardinality(Ia) + Cardinality(Moved(J, m)) - Cardinality(Ia \cap Moved(J, m))
    BY <1>4, <2>2, FS_Union
  <2> QED
    BY <1>4, <2>1, <2>2, <2>4, <2>5
<1>6. Cardinality(Ic) = na + nb
  BY <1>3, <1>5
<1>7. \A i \in Ia : Rank(Ic, i) = Rank(Ia, i)
  <2> TAKE i \in Ia
  <2>1. {j \in Ic : j <= i} = {j \in Ia : j <= i}
    BY <1>1, <1>2, <1>3 DEF Moved
  <2> QED
    BY <2>1 DEF Rank
<1>8. \A i \in Ib : Rank(Ic, m + i) = na + Rank(Ib, i)
  <2> TAKE i \in Ib
  <2> DEFINE J == {j \in Ib : j <= i}
  <2>1. {j \in Ic : j <= m + i} = Ia \cup Moved(J, m)
    <3>1. \A j \in Ia : j <= m + i
      BY <1>1, <1>2
    <3>2. \A j \in Ib : m + j <= m + i <=> j <= i
      BY <1>1, <1>2
    <3> QED
      BY <1>3, <3>1, <3>2 DEF Moved
  <2>2. J \in SUBSET Ib
    OBVIOUS
  <2> QED
    BY <1>5, <2>1, <2>2 DEF Rank
<1>9. ASSUME NEW k \in 1 .. na
      PROVE  Nth(Ic, k) = Nth(Ia, k) /\ Nth(Ia, k) \in Ia
  <2>1. Nth(Ia, k) \in Ia /\ Rank(Ia, Nth(Ia, k)) = k
    BY <1>4, NthFacts
  <2>2. Nth(Ia, k) \in Ic /\ Rank(Ic, Nth(Ia, k)) = k
    BY <1>3, <1>7, <2>1
  <2> QED
    BY <1>4, <2>1, <2>2, NthFacts
<1>10. ASSUME NEW k \in 1 .. nb
       PROVE  Nth(Ic, na + k) = m + Nth(Ib, k) /\ Nth(Ib, k) \in Ib
  <2>1. Nth(Ib, k) \in Ib /\ Rank(Ib, Nth(Ib, k)) = k
    BY <1>4, NthFacts
  <2>2. m + Nth(Ib, k) \in Ic /\ Rank(Ic, m + Nth(Ib, k)) = na + k
    BY <1>3, <1>8, <2>1 DEF Moved
  <2>3. \A i \in Ic : Nth(Ic, Rank(Ic, i)) = i
    BY <1>4, NthFacts
  <2> QED
    BY <2>1, <2>2, <2>3
<1> HIDE DEF c, m
<1>11. /\ Kept(a, S) \in Seq(T) /\ Len(Kept(a, S)) = na
       /\ Kept(b, S) \in Seq(T) /\ Len(Kept(b, S)) = nb
       /\ Kept(c, S) \in Seq(T) /\ Len(Kept(c, S)) = na + nb
  BY <1>1, <1>6, KeptFacts DEF Ia, Ib, Ic
<1>12. /\ \A k \in 1 .. na : Kept(a, S)[k] = a[Nth(Ia, k)]
       /\ \A k \in 1 .. nb : Kept(b, S)[k] = b[Nth(Ib, k)]
       /\ \A k \in 1 .. na + nb : Kept(c, S)[k] = c[Nth(Ic, k)]
  <2>1. \A s, I : ElementsAt(s, I) = [k \in 1 .. Cardinality(I) |-> s[Nth(I, k)]]
    BY DEF ElementsAt
  <2>2. /\ Kept(a, S) = ElementsAt(a, Ia)
        /\ Kept(b, S) = ElementsAt(b, Ib)
        /\ Kept(c, S) = ElementsAt(c, Ic)
    BY DEF Kept, Places, Ia, Ib, Ic
  <2>3. \A k \in 1 .. na : Kept(a, S)[k] = a[Nth(Ia, k)]
    BY <2>1, <2>2
  <2>4. \A k \in 1 .. nb : Kept(b, S)[k] = b[Nth(Ib, k)]
    BY <2>1, <2>2
  <2>5. \A k \in 1 .. na + nb : Kept(c, S)[k] = c[Nth(Ic, k)]
    BY <1>6, <2>1, <2>2
  <2> QED
    BY <2>3, <2>4, <2>5
<1>13. ASSUME NEW k \in 1 .. na + nb
       PROVE  Kept(c, S)[k] = IF k <= na THEN Kept(a, S)[k] ELSE Kept(b, S)[k - na]
  <2>1. CASE k <= na
    <3>1. k \in 1 .. na
      BY <1>4, <2>1
    <3>2. Nth(Ic, k) = Nth(Ia, k) /\ Nth(Ia, k) \in 1 .. m
      BY <1>2, <1>9, <3>1
    <3>3. c[Nth(Ia, k)] = a[Nth(Ia, k)]
      BY <1>1, <3>2
    <3>4. Kept(c, S)[k] = c[Nth(Ic, k)] /\ Kept(a, S)[k] = a[Nth(Ia, k)]
      BY <1>12, <3>1
    <3> QED
      BY <2>1, <3>2, <3>3, <3>4
  <2>2. CASE ~(k <= na)
    <3>1. k - na \in 1 .. nb /\ na + (k - na) = k
      BY <1>4, <2>2
    <3>2. Nth(Ic, k) = m + Nth(Ib, k - na) /\ Nth(Ib, k - na) \in 1 .. Len(b)
      BY <1>2, <1>10, <3>1
    <3>3. c[m + Nth(Ib, k - na)] = b[Nth(Ib, k - na)]
      BY <1>1, <3>2
    <3> QED
      BY <1>12, <2>2, <3>1, <3>2, <3>3
  <2> QED
    BY <2>1, <2>2
<1> DEFINE q == Kept(a, S) \o Kept(b, S)
<1>14. /\ q \in Seq(T) /\ Len(q) = na + nb
       /\ \A k \in 1 .. na + nb :
             q[k] = IF k <= na THEN Kept(a, S)[k] ELSE Kept(b, S)[k - na]
  <2> DEFINE x == Kept(a, S)
             y == Kept(b, S)
  <2>1. x \in Seq(T) /\ Len(x) = na /\ y \in Seq(T) /\ Len(y) = nb
    BY <1>11
  <2> HIDE DEF x, y
  <2>2. /\ x \o y \in Seq(T) /\ Len(x \o y) = Len(x) + Len(y)
        /\ \A k \in 1 .. Len(x) + Len(y) :
              (x \o y)[k] = IF k <= Len(x) THEN x[k] ELSE y[k - Len(x)]
    BY <2>1, ConcatProperties
  <2> QED
    BY <2>1, <2>2 DEF x, y
<1> HIDE DEF q
<1>15. Kept(c, S) = q
  BY <1>11, <1>13, <1>14, SeqEqual
<1> QED
  BY <1>15 DEF c, q

-----------------------------------------------------------------------------
USE WaitAssumption, ScaleAssumption, PassAssumption

\* What the three parts of the model do in one step.
WaitingStep == BeginWait \/ WaitStep \/ EndWait \/ Cluster \/ UNCHANGED waitVars

FetchingStep ==
    BeginFetch \/ FetchStep \/ EndFetch \/ People \/ UNCHANGED threadVars

LEMMA StepParts == [PassNext]_vars => WaitingStep /\ FetchingStep
<1> SUFFICES ASSUME [PassNext]_vars PROVE WaitingStep /\ FetchingStep
  OBVIOUS
<1> USE DEF WaitingStep, FetchingStep
<1>1. CASE Begin
  BY <1>1 DEF Begin
<1>2. CASE WaitForReady
  BY <1>2 DEF WaitForReady
<1>3. CASE SetPod
  BY <1>3 DEF SetPod
<1>4. CASE GetCloneToken
  BY <1>4 DEF GetCloneToken
<1>5. CASE FetchThread
  BY <1>5 DEF FetchThread
<1>6. CASE StartRun
  BY <1>6 DEF StartRun
<1>7. CASE Finish \/ SaveCost \/ Ask \/ EndRun
  BY <1>7 DEF Finish, SaveCost, Ask, EndRun
<1>8. CASE Environment
  BY <1>8 DEF Environment, Answer
<1>9. CASE UNCHANGED vars
  BY <1>9 DEF vars, waitVars, threadVars
<1> QED
  BY <1>1, <1>2, <1>3, <1>4, <1>5, <1>6, <1>7, <1>8, <1>9 DEF PassNext, Worker

-----------------------------------------------------------------------------
(* Waiting for the sandbox.                                                *)

WaitTyped ==
    /\ WaitTypeOK
    /\ spc = "idle" => ~sandbox.ready /\ ~result.ok
    /\ claim.bound => claim.exists
    /\ sandbox.ready => sandbox.exists

\* The pod of every ready version that WaitForReady can still take is known.
ReadyKnown ==
    /\ sandbox.ready => PodName(sandbox) \in seenReady
    /\ spc = "sandboxWatch" =>
         \A i \in DOMAIN events :
            events[i] # Broken /\ events[i].ready => PodName(events[i]) \in seenReady

WaitInv == WaitTyped /\ ReadinessSeen /\ ReadyKnown /\ PodWasReady

LEMMA IdleTypes ==
    /\ NoSandbox \in Sandbox /\ ~NoSandbox.ready
    /\ NoClaim \in Claim /\ ~NoClaim.bound
    /\ Error \in [ok : BOOLEAN, pod : Nat] /\ ~Error.ok
BY DEF NoSandbox, NoClaim, Sandbox, Claim, Error

LEMMA PodNameType == \A s \in Sandbox : PodName(s) \in Nat
BY DEF PodName, Sandbox

LEMMA FoundType == \A s \in FoundSandboxes : s \in Sandbox /\ (s.ready => s.exists)
<1>1. \A s \in [exists : BOOLEAN, gen : {1}, ready : BOOLEAN, annotated : BOOLEAN] :
        s \in Sandbox
  BY DEF Sandbox
<1> QED
  BY <1>1, IdleTypes DEF FoundSandboxes

\* Outside the two watches there are no events, and most of it is idle.
LEMMA NoEvents ==
    ASSUME claim' \in Claim, sandbox' \in Sandbox, changes' \in 0 .. MaxChanges,
           spc' \in WaitPCs \ {"claimWatch", "sandboxWatch"}, events' = <<>>,
           expired' \in BOOLEAN, seenReady' \subseteq Nat,
           result' \in [ok : BOOLEAN, pod : Nat],
           spc' = "idle" => ~sandbox'.ready /\ ~result'.ok,
           claim'.bound => claim'.exists, sandbox'.ready => sandbox'.exists,
           sandbox'.ready => PodName(sandbox') \in seenReady',
           result'.ok => result'.pod \in seenReady'
    PROVE  WaitInv'
<1>1. spc' # "claimWatch" /\ spc' # "sandboxWatch"
  OBVIOUS
<1>2. WaitTyped'
  BY <1>1 DEF WaitTyped, WaitTypeOK
<1>3. ReadinessSeen' /\ ReadyKnown' /\ PodWasReady'
  BY <1>1 DEF ReadinessSeen, ReadyKnown, PodWasReady
<1> QED
  BY <1>2, <1>3 DEF WaitInv

LEMMA BeginWaitInv == WaitInv /\ BeginWait => WaitInv'
<1> SUFFICES ASSUME WaitInv, BeginWait PROVE WaitInv'
  OBVIOUS
<1>1. /\ spc = "idle" /\ events = <<>> /\ ~result.ok
      /\ result \in [ok : BOOLEAN, pod : Nat]
  BY DEF BeginWait, WaitInv, WaitTyped, WaitTypeOK
<1>2. /\ events' = <<>> /\ result' = result /\ spc' = "getClaim"
      /\ changes' = MaxChanges /\ expired' = FALSE /\ claim' \in Claim
      /\ sandbox' \in Sandbox
      /\ claim'.bound => claim'.exists
      /\ sandbox'.ready => sandbox'.exists
      /\ seenReady' = (IF sandbox'.ready THEN {PodName(sandbox')} ELSE {})
  BY <1>1, FoundType DEF BeginWait
<1>3. seenReady' \subseteq Nat /\ (sandbox'.ready => PodName(sandbox') \in seenReady')
  BY <1>2, PodNameType
<1>4. changes' \in 0 .. MaxChanges /\ spc' \in WaitPCs \ {"claimWatch", "sandboxWatch"}
  BY <1>2 DEF WaitPCs
<1>5. result' \in [ok : BOOLEAN, pod : Nat] /\ ~result'.ok
  BY <1>1, <1>2
<1> QED
  BY <1>2, <1>3, <1>4, <1>5, NoEvents

LEMMA EndWaitInv == WaitInv /\ EndWait => WaitInv'
<1> SUFFICES ASSUME WaitInv, EndWait PROVE WaitInv'
  OBVIOUS
<1>1. /\ claim' = NoClaim /\ sandbox' = NoSandbox /\ changes' = 0 /\ spc' = "idle"
      /\ events' = <<>> /\ expired' = FALSE /\ seenReady' = {} /\ result' = Error
  BY DEF EndWait
<1>2. claim' \in Claim /\ ~claim'.bound /\ sandbox' \in Sandbox /\ ~sandbox'.ready
  BY <1>1, IdleTypes
<1>3. result' \in [ok : BOOLEAN, pod : Nat] /\ ~result'.ok
  BY <1>1, IdleTypes
<1>4. changes' \in 0 .. MaxChanges /\ spc' \in WaitPCs \ {"claimWatch", "sandboxWatch"}
  BY <1>1 DEF WaitPCs
<1> QED
  BY <1>1, <1>2, <1>3, <1>4, NoEvents

LEMMA ContinueInv ==
    ASSUME WaitInv, spc # "idle", Continue(spc'),
           spc' \in WaitPCs \ {"idle", "claimWatch", "sandboxWatch"}
    PROVE  WaitInv'
<1>1. /\ UNCHANGED <<claim, sandbox, changes, expired, seenReady, result>>
      /\ events' = <<>>
  BY DEF Continue
<1>2. /\ claim \in Claim /\ sandbox \in Sandbox /\ changes \in 0 .. MaxChanges
      /\ expired \in BOOLEAN /\ seenReady \subseteq Nat
      /\ result \in [ok : BOOLEAN, pod : Nat]
      /\ claim.bound => claim.exists
      /\ sandbox.ready => sandbox.exists
      /\ sandbox.ready => PodName(sandbox) \in seenReady
      /\ result.ok => result.pod \in seenReady
  BY DEF WaitInv, WaitTyped, WaitTypeOK, ReadyKnown, PodWasReady
<1>3. PodName(sandbox') = PodName(sandbox)
  BY <1>1
<1> QED
  BY <1>1, <1>2, <1>3, NoEvents

LEMMA ReportInv ==
    ASSUME WaitInv, NEW r \in [ok : BOOLEAN, pod : Nat], Report(r),
           r.ok => r.pod \in seenReady
    PROVE  WaitInv'
<1>1. /\ UNCHANGED <<claim, sandbox, changes, expired, seenReady>>
      /\ events' = <<>> /\ result' = r /\ spc' = "done"
  BY DEF Report
<1>2. /\ claim \in Claim /\ sandbox \in Sandbox /\ changes \in 0 .. MaxChanges
      /\ expired \in BOOLEAN /\ seenReady \subseteq Nat
      /\ claim.bound => claim.exists
      /\ sandbox.ready => sandbox.exists
      /\ sandbox.ready => PodName(sandbox) \in seenReady
  BY DEF WaitInv, WaitTyped, WaitTypeOK, ReadyKnown
<1>3. PodName(sandbox') = PodName(sandbox)
  BY <1>1
<1>4. spc' \in WaitPCs \ {"claimWatch", "sandboxWatch"} /\ spc' # "idle"
  BY <1>1 DEF WaitPCs
<1> QED
  BY <1>1, <1>2, <1>3, <1>4, NoEvents

LEMMA FailInv == WaitInv /\ Report(Error) => WaitInv'
BY ReportInv, IdleTypes

LEMMA SucceedInv ==
    ASSUME WaitInv, NEW s \in Sandbox, PodName(s) \in seenReady, Succeed(s)
    PROVE  WaitInv'
BY ReportInv, PodNameType DEF Succeed

\* A watch opens: its first event is the object as it is.
LEMMA OpenClaimInv == WaitInv /\ Open("claimWatch", claim) => WaitInv'
<1> SUFFICES ASSUME WaitInv, Open("claimWatch", claim) PROVE WaitInv'
  OBVIOUS
<1>1. /\ UNCHANGED <<claim, sandbox, changes, expired, seenReady, result>>
      /\ spc' = "claimWatch"
      /\ events' = IF claim.exists THEN <<claim>> ELSE <<>>
  BY DEF Open
<1>2. claim \in Claim /\ (claim.bound => claim.exists)
  BY DEF WaitInv, WaitTyped, WaitTypeOK
<1>3. events' \in Seq(Claim \cup {Broken})
  <2>1. <<claim>> \in Seq(Claim \cup {Broken}) /\ <<>> \in Seq(Claim \cup {Broken})
    BY <1>2
  <2>2. events' = <<claim>> \/ events' = <<>>
    BY <1>1
  <2> QED
    BY <2>1, <2>2
<1>4. WaitTyped'
  BY <1>1, <1>3 DEF WaitInv, WaitTyped, WaitTypeOK, WaitPCs
<1>5. ASSUME claim'.bound
      PROVE  1 \in DOMAIN events' /\ events'[1].bound
  <2>1. events' = <<claim>> /\ claim.bound
    BY <1>1, <1>2, <1>5
  <2>2. 1 \in DOMAIN <<claim>> /\ <<claim>>[1] = claim
    OBVIOUS
  <2> QED
    BY <2>1, <2>2
<1>6. ReadinessSeen'
  BY <1>1, <1>5 DEF ReadinessSeen
<1>7. ReadyKnown' /\ PodWasReady'
  BY <1>1 DEF WaitInv, ReadyKnown, PodWasReady, PodName
<1> QED
  BY <1>4, <1>6, <1>7 DEF WaitInv

LEMMA OpenSandboxInv == WaitInv /\ Open("sandboxWatch", sandbox) => WaitInv'
<1> SUFFICES ASSUME WaitInv, Open("sandboxWatch", sandbox) PROVE WaitInv'
  OBVIOUS
<1>1. /\ UNCHANGED <<claim, sandbox, changes, expired, seenReady, result>>
      /\ spc' = "sandboxWatch"
      /\ events' = IF sandbox.exists THEN <<sandbox>> ELSE <<>>
  BY DEF Open
<1>2. /\ sandbox \in Sandbox /\ (sandbox.ready => sandbox.exists)
      /\ sandbox.ready => PodName(sandbox) \in seenReady
  BY DEF WaitInv, WaitTyped, WaitTypeOK, ReadyKnown
<1>3. events' \in Seq(Sandbox \cup {Broken})
  <2>1. <<sandbox>> \in Seq(Sandbox \cup {Broken}) /\ <<>> \in Seq(Sandbox \cup {Broken})
    BY <1>2
  <2>2. events' = <<sandbox>> \/ events' = <<>>
    BY <1>1
  <2> QED
    BY <2>1, <2>2
<1>4. WaitTyped'
  BY <1>1, <1>3 DEF WaitInv, WaitTyped, WaitTypeOK, WaitPCs
<1>5. ASSUME sandbox'.ready
      PROVE  1 \in DOMAIN events' /\ events'[1].ready
  <2>1. events' = <<sandbox>> /\ sandbox.ready
    BY <1>1, <1>2, <1>5
  <2>2. 1 \in DOMAIN <<sandbox>> /\ <<sandbox>>[1] = sandbox
    OBVIOUS
  <2> QED
    BY <2>1, <2>2
<1>6. ReadinessSeen'
  BY <1>1, <1>5 DEF ReadinessSeen
<1>7. \A i \in DOMAIN events' : events'[i] = sandbox
  BY <1>1
<1>8. ReadyKnown' /\ PodWasReady'
  BY <1>1, <1>2, <1>7 DEF WaitInv, ReadyKnown, PodWasReady, PodName
<1> QED
  BY <1>4, <1>6, <1>8 DEF WaitInv

LEMMA TailFacts ==
    ASSUME NEW S, NEW s \in Seq(S), s # <<>>
    PROVE  /\ Head(s) = s[1] /\ Head(s) \in S
           /\ Tail(s) \in Seq(S)
           /\ \A i \in DOMAIN s : i = 1 \/ (i - 1 \in DOMAIN Tail(s) /\ Tail(s)[i - 1] = s[i])
           /\ \A i \in DOMAIN Tail(s) : i + 1 \in DOMAIN s /\ Tail(s)[i] = s[i + 1]
<1>1. /\ Len(s) \in Nat \ {0} /\ DOMAIN s = 1 .. Len(s)
      /\ Head(s) = s[1] /\ s[1] \in S
      /\ Tail(s) \in Seq(S) /\ Len(Tail(s)) = Len(s) - 1
      /\ \A i \in 1 .. Len(s) - 1 : Tail(s)[i] = s[i + 1]
  OBVIOUS
<1>2. DOMAIN Tail(s) = 1 .. Len(s) - 1
  BY <1>1
<1>3. ASSUME NEW i \in DOMAIN s, i # 1
      PROVE  i - 1 \in DOMAIN Tail(s) /\ Tail(s)[i - 1] = s[i]
  <2>1. i - 1 \in 1 .. Len(s) - 1 /\ (i - 1) + 1 = i
    BY <1>1, <1>3
  <2> QED
    BY <1>1, <1>2, <2>1
<1>4. \A i \in DOMAIN Tail(s) : i + 1 \in DOMAIN s /\ Tail(s)[i] = s[i + 1]
  BY <1>1, <1>2
<1> QED
  BY <1>1, <1>3, <1>4

LEMMA AppendFacts ==
    ASSUME NEW S, NEW s \in Seq(S), NEW e \in S
    PROVE  /\ Append(s, e) \in Seq(S)
           /\ \A i \in DOMAIN s : i \in DOMAIN Append(s, e) /\ Append(s, e)[i] = s[i]
           /\ \A i \in DOMAIN Append(s, e) : i \in DOMAIN s \/ Append(s, e)[i] = e
           /\ \E i \in DOMAIN Append(s, e) : Append(s, e)[i] = e
<1>1. /\ Len(s) \in Nat /\ DOMAIN s = 1 .. Len(s)
      /\ Append(s, e) \in Seq(S) /\ Len(Append(s, e)) = Len(s) + 1
      /\ \A i \in 1 .. Len(s) : Append(s, e)[i] = s[i]
      /\ Append(s, e)[Len(s) + 1] = e
  OBVIOUS
<1>2. DOMAIN Append(s, e) = 1 .. Len(s) + 1
  BY <1>1
<1> QED
  BY <1>1, <1>2

\* What Skip passes over was not what the watch waits for.
LEMMA SkipInv ==
    ASSUME WaitInv, Skip, events # <<>>, Head(events) # Broken,
           \/ spc = "claimWatch" /\ ~Head(events).bound
           \/ spc = "sandboxWatch" /\ ~Head(events).ready
    PROVE  WaitInv'
<1>1. /\ UNCHANGED <<claim, sandbox, changes, spc, expired, seenReady, result>>
      /\ events' = Tail(events)
  BY DEF Skip
<1>2. CASE spc = "claimWatch" /\ ~Head(events).bound
  <2>1. events \in Seq(Claim \cup {Broken})
    BY <1>2 DEF WaitInv, WaitTyped, WaitTypeOK
  <2>2. /\ Head(events) = events[1] /\ events' \in Seq(Claim \cup {Broken})
        /\ \A i \in DOMAIN events :
              i = 1 \/ (i - 1 \in DOMAIN events' /\ events'[i - 1] = events[i])
    BY <1>1, <2>1, TailFacts
  <2>3. WaitTyped'
    BY <1>1, <1>2, <2>2 DEF WaitInv, WaitTyped, WaitTypeOK
  <2>4. ReadinessSeen'
    <3> SUFFICES ASSUME claim.bound
                 PROVE  \E i \in DOMAIN events' : events'[i] = Broken \/ events'[i].bound
      BY <1>1, <1>2 DEF ReadinessSeen
    <3>1. PICK i \in DOMAIN events : events[i] = Broken \/ events[i].bound
      BY <1>2 DEF WaitInv, ReadinessSeen
    <3>2. i # 1
      BY <1>2, <2>2, <3>1
    <3> QED
      BY <2>2, <3>1, <3>2
  <2>5. ReadyKnown' /\ PodWasReady'
    BY <1>1, <1>2 DEF WaitInv, ReadyKnown, PodWasReady, PodName
  <2> QED
    BY <2>3, <2>4, <2>5 DEF WaitInv
<1>3. CASE spc = "sandboxWatch" /\ ~Head(events).ready
  <2>1. events \in Seq(Sandbox \cup {Broken})
    BY <1>3 DEF WaitInv, WaitTyped, WaitTypeOK
  <2>2. /\ Head(events) = events[1] /\ events' \in Seq(Sandbox \cup {Broken})
        /\ \A i \in DOMAIN events :
              i = 1 \/ (i - 1 \in DOMAIN events' /\ events'[i - 1] = events[i])
        /\ \A i \in DOMAIN events' : i + 1 \in DOMAIN events /\ events'[i] = events[i + 1]
    BY <1>1, <2>1, TailFacts
  <2>3. WaitTyped'
    BY <1>1, <1>3, <2>2 DEF WaitInv, WaitTyped, WaitTypeOK
  <2>4. ReadinessSeen'
    <3> SUFFICES ASSUME sandbox.ready
                 PROVE  \E i \in DOMAIN events' : events'[i] = Broken \/ events'[i].ready
      BY <1>1, <1>3 DEF ReadinessSeen
    <3>1. PICK i \in DOMAIN events : events[i] = Broken \/ events[i].ready
      BY <1>3 DEF WaitInv, ReadinessSeen
    <3>2. i # 1
      BY <1>3, <2>2, <3>1
    <3> QED
      BY <2>2, <3>1, <3>2
  <2>5. ReadyKnown' /\ PodWasReady'
    BY <1>1, <1>3, <2>2 DEF WaitInv, ReadyKnown, PodWasReady, PodName
  <2> QED
    BY <2>3, <2>4, <2>5 DEF WaitInv
<1> QED
  BY <1>2, <1>3

LEMMA WaitStepInv == WaitInv /\ WaitStep => WaitInv'
<1> SUFFICES ASSUME WaitInv, WaitStep PROVE WaitInv'
  OBVIOUS
<1> USE DEF WaitPCs
<1>1. CASE GetClaim
  <2>1. CASE Report(Error)
    BY <2>1, FailInv
  <2>2. CASE Continue(IF claim.bound THEN "getSandbox" ELSE "recheckClaim")
    <3>1. spc' \in {"getSandbox", "recheckClaim"} /\ Continue(spc')
      BY <2>2 DEF Continue
    <3> QED
      BY <1>1, <3>1, ContinueInv DEF GetClaim
  <2> QED
    BY <1>1, <2>1, <2>2 DEF GetClaim
<1>2. CASE RecheckClaim
  <2>1. spc' \in {"openClaimWatch", "getSandbox"} /\ Continue(spc') /\ spc # "idle"
    BY <1>2 DEF RecheckClaim, Continue
  <2> QED
    BY <2>1, ContinueInv
<1>3. CASE OpenClaimWatch
  BY <1>3, FailInv, OpenClaimInv DEF OpenClaimWatch
<1>4. CASE ClaimEvent
  <2>1. CASE Report(Error)
    BY <2>1, FailInv
  <2>2. CASE Continue("getSandbox")
    <3>1. spc' = "getSandbox" /\ Continue(spc')
      BY <2>2 DEF Continue
    <3> QED
      BY <1>4, <3>1, ContinueInv DEF ClaimEvent
  <2>3. CASE Head(events) # Broken /\ ~Head(events).bound /\ Skip
    BY <1>4, <2>3, SkipInv DEF ClaimEvent
  <2> QED
    BY <1>4, <2>1, <2>2, <2>3 DEF ClaimEvent
<1>5. CASE GetSandbox
  <2>1. CASE Continue("openSandboxWatch")
    <3>1. spc' = "openSandboxWatch" /\ Continue(spc')
      BY <2>1 DEF Continue
    <3> QED
      BY <1>5, <3>1, ContinueInv DEF GetSandbox
  <2>2. CASE sandbox.ready /\ Succeed(sandbox)
    <3>1. sandbox \in Sandbox /\ PodName(sandbox) \in seenReady
      BY <2>2 DEF WaitInv, WaitTyped, WaitTypeOK, ReadyKnown
    <3> QED
      BY <2>2, <3>1, SucceedInv
  <2> QED
    BY <1>5, <2>1, <2>2 DEF GetSandbox
<1>6. CASE OpenSandboxWatch
  BY <1>6, FailInv, OpenSandboxInv DEF OpenSandboxWatch
<1>7. CASE SandboxEvent
  <2>1. CASE Report(Error)
    BY <2>1, FailInv
  <2>2. CASE Head(events) # Broken /\ Head(events).ready /\ Succeed(Head(events))
    <3>1. spc = "sandboxWatch" /\ events # <<>> /\ events \in Seq(Sandbox \cup {Broken})
      BY <1>7 DEF SandboxEvent, WaitInv, WaitTyped, WaitTypeOK
    <3>2. /\ Head(events) \in Sandbox \cup {Broken}
          /\ 1 \in DOMAIN events /\ Head(events) = events[1]
      BY <3>1
    <3>3. PodName(Head(events)) \in seenReady
      BY <2>2, <3>1, <3>2 DEF WaitInv, ReadyKnown
    <3> QED
      BY <2>2, <3>2, <3>3, SucceedInv
  <2>3. CASE Head(events) # Broken /\ ~Head(events).ready /\ Skip
    BY <1>7, <2>3, SkipInv DEF SandboxEvent
  <2> QED
    BY <1>7, <2>1, <2>2, <2>3 DEF SandboxEvent
<1>8. CASE WatchTimeout
  BY <1>8, FailInv DEF WatchTimeout
<1> QED
  BY <1>1, <1>2, <1>3, <1>4, <1>5, <1>6, <1>7, <1>8 DEF WaitStep

\* A change is announced to the watch of its kind, if it is open.
LEMMA NotifyFacts ==
    ASSUME NEW S, NEW watch, NEW version \in S, Notify(watch, version),
           spc = watch => events \in Seq(S)
    PROVE  /\ spc # watch => events' = events
           /\ spc = watch =>
                /\ events' \in Seq(S)
                /\ \A i \in DOMAIN events : i \in DOMAIN events' /\ events'[i] = events[i]
                /\ \A i \in DOMAIN events' : \/ i \in DOMAIN events /\ events'[i] = events[i]
                                             \/ events'[i] = version
                /\ \E i \in DOMAIN events' : events'[i] = version
<1>1. CASE spc # watch
  BY <1>1 DEF Notify
<1>2. CASE spc = watch
  <2>1. events' = Append(events, version) /\ events \in Seq(S)
    BY <1>2 DEF Notify
  <2>2. /\ events' \in Seq(S)
        /\ \A i \in DOMAIN events : i \in DOMAIN events' /\ events'[i] = events[i]
        /\ \A i \in DOMAIN events' : i \in DOMAIN events \/ events'[i] = version
        /\ \E i \in DOMAIN events' : events'[i] = version
    BY <2>1, AppendFacts
  <2> QED
    BY <1>2, <2>2
<1> QED
  BY <1>1, <1>2

\* A new version of the claim; that of a deletion is not bound any more.
LEMMA ChangeClaimInv == WaitInv /\ ChangeClaim => WaitInv'
<1> SUFFICES ASSUME WaitInv, ChangeClaim PROVE WaitInv'
  OBVIOUS
<1>1. /\ UNCHANGED <<sandbox, spc, expired, seenReady, result>>
      /\ changes > 0 /\ changes' = changes - 1
      /\ changes \in 0 .. MaxChanges /\ claim \in Claim
      /\ spc = "claimWatch" => events \in Seq(Claim \cup {Broken})
  BY DEF ChangeClaim, WaitInv, WaitTyped, WaitTypeOK
<1>2. PICK version \in Claim :
        /\ Notify("claimWatch", version)
        /\ claim' \in Claim
        /\ claim'.bound => claim'.exists
        /\ claim'.bound => version.bound
  <2>1. CASE /\ claim' = [claim EXCEPT !.bound = TRUE]
             /\ Notify("claimWatch", claim')
    <3>1. claim' \in Claim /\ claim'.exists
      BY <1>1, <2>1 DEF ChangeClaim, Claim
    <3> QED
      BY <2>1, <3>1
  <2>2. CASE claim' = NoClaim /\ Notify("claimWatch", claim)
    BY <1>1, <2>2, IdleTypes
  <2> QED
    BY <2>1, <2>2 DEF ChangeClaim
<1>3. /\ spc # "claimWatch" => events' = events
      /\ spc = "claimWatch" =>
           /\ events' \in Seq(Claim \cup {Broken})
           /\ \E i \in DOMAIN events' : events'[i] = version
  <2>1. version \in Claim \cup {Broken}
    OBVIOUS
  <2>2. Notify("claimWatch", version)
    BY <1>2
  <2>3. spc = "claimWatch" => events \in Seq(Claim \cup {Broken})
    BY <1>1
  <2> QED
    BY <2>1, <2>2, <2>3, NotifyFacts
<1>4. changes' \in 0 .. MaxChanges
  BY <1>1
<1>5. WaitTyped'
  BY <1>1, <1>2, <1>3, <1>4 DEF WaitInv, WaitTyped, WaitTypeOK
<1>6. ReadinessSeen'
  BY <1>1, <1>2, <1>3 DEF WaitInv, ReadinessSeen
<1>7. ReadyKnown' /\ PodWasReady'
  BY <1>1, <1>3 DEF WaitInv, ReadyKnown, PodWasReady, PodName
<1> QED
  BY <1>5, <1>6, <1>7 DEF WaitInv

\* A new version of the sandbox: a ready one is announced and remembered.
LEMMA ChangeSandboxInv == WaitInv /\ Waiting /\ ChangeSandbox => WaitInv'
<1> SUFFICES ASSUME WaitInv, Waiting, ChangeSandbox PROVE WaitInv'
  OBVIOUS
<1>1. /\ UNCHANGED <<claim, spc, expired, result>>
      /\ changes > 0 /\ changes' = changes - 1
      /\ changes \in 0 .. MaxChanges /\ sandbox \in Sandbox
      /\ seenReady \subseteq Nat
      /\ seenReady' = IF sandbox'.ready THEN seenReady \cup {PodName(sandbox')}
                      ELSE seenReady
      /\ spc = "sandboxWatch" => events \in Seq(Sandbox \cup {Broken})
      /\ sandbox.ready => sandbox.exists
      /\ spc # "idle"
  BY DEF ChangeSandbox, WaitInv, WaitTyped, WaitTypeOK, Waiting
<1>2. PICK version \in Sandbox :
        /\ Notify("sandboxWatch", version)
        /\ sandbox' \in Sandbox
        /\ sandbox'.ready => sandbox'.exists /\ version = sandbox'
        /\ version.ready => PodName(version) \in seenReady'
  <2>1. CASE /\ sandbox' = [NoSandbox EXCEPT !.exists = TRUE, !.gen = sandbox.gen + 1]
             /\ Notify("sandboxWatch", sandbox')
    <3>1. sandbox.gen + 1 \in Nat
      BY <1>1 DEF Sandbox
    <3>2. sandbox' = [exists |-> TRUE, gen |-> sandbox.gen + 1, ready |-> FALSE,
                      annotated |-> FALSE]
      BY <2>1 DEF NoSandbox
    <3>3. sandbox' \in Sandbox /\ sandbox'.exists /\ ~sandbox'.ready
      BY <3>1, <3>2 DEF Sandbox
    <3> QED
      BY <2>1, <3>3
  <2>2. CASE /\ sandbox.exists
             /\ \/ sandbox' = [sandbox EXCEPT !.ready = ~@]
                \/ sandbox' = [sandbox EXCEPT !.annotated = TRUE]
             /\ Notify("sandboxWatch", sandbox')
    <3>1. sandbox' \in Sandbox /\ sandbox'.exists
      BY <1>1, <2>2 DEF Sandbox
    <3> QED
      BY <1>1, <2>2, <3>1
  <2>3. CASE /\ sandbox' = [NoSandbox EXCEPT !.gen = sandbox.gen]
             /\ Notify("sandboxWatch", sandbox)
    <3>1. sandbox' \in Sandbox /\ ~sandbox'.ready
      BY <1>1, <2>3 DEF NoSandbox, Sandbox
    <3>2. sandbox.ready => PodName(sandbox) \in seenReady'
      BY <1>1 DEF WaitInv, ReadyKnown
    <3> QED
      BY <1>1, <2>3, <3>1, <3>2
  <2> QED
    BY <2>1, <2>2, <2>3 DEF ChangeSandbox
<1>3. /\ spc # "sandboxWatch" => events' = events
      /\ spc = "sandboxWatch" =>
           /\ events' \in Seq(Sandbox \cup {Broken})
           /\ \A i \in DOMAIN events' : \/ i \in DOMAIN events /\ events'[i] = events[i]
                                        \/ events'[i] = version
           /\ \E i \in DOMAIN events' : events'[i] = version
  <2>1. version \in Sandbox \cup {Broken}
    OBVIOUS
  <2>2. Notify("sandboxWatch", version)
    BY <1>2
  <2>3. spc = "sandboxWatch" => events \in Seq(Sandbox \cup {Broken})
    BY <1>1
  <2> QED
    BY <2>1, <2>2, <2>3, NotifyFacts
<1>4. /\ changes' \in 0 .. MaxChanges
      /\ seenReady \subseteq seenReady' /\ seenReady' \subseteq Nat
      /\ sandbox'.ready => PodName(sandbox') \in seenReady'
  <2>1. changes' \in 0 .. MaxChanges
    BY <1>1
  <2>2. PodName(sandbox') \in Nat
    BY <1>2, PodNameType
  <2>3. /\ seenReady \subseteq seenReady' /\ seenReady' \subseteq Nat
        /\ sandbox'.ready => PodName(sandbox') \in seenReady'
    BY <1>1, <2>2
  <2> QED
    BY <2>1, <2>3
<1>5. WaitTyped'
  BY <1>1, <1>2, <1>3, <1>4 DEF WaitInv, WaitTyped, WaitTypeOK
<1>6. ReadinessSeen'
  BY <1>1, <1>2, <1>3 DEF WaitInv, ReadinessSeen
<1>7. ReadyKnown' /\ PodWasReady'
  <2>1. PodWasReady'
    BY <1>1, <1>4 DEF WaitInv, PodWasReady
  <2>2. ASSUME spc = "sandboxWatch", NEW i \in DOMAIN events',
               events'[i] # Broken, events'[i].ready
        PROVE  PodName(events'[i]) \in seenReady'
    BY <1>2, <1>3, <1>4, <2>2 DEF WaitInv, ReadyKnown
  <2> QED
    BY <1>1, <1>4, <2>1, <2>2 DEF ReadyKnown
<1> QED
  BY <1>5, <1>6, <1>7 DEF WaitInv

LEMMA BreakWatchInv == WaitInv /\ BreakWatch => WaitInv'
<1> SUFFICES ASSUME WaitInv, BreakWatch PROVE WaitInv'
  OBVIOUS
<1>1. /\ UNCHANGED <<claim, sandbox, changes, spc, expired, seenReady, result>>
      /\ spc \in {"claimWatch", "sandboxWatch"}
      /\ events' = Append(events, Broken)
  BY DEF BreakWatch
<1>2. ASSUME NEW S, Broken \in S, events \in Seq(S)
      PROVE  /\ events' \in Seq(S)
             /\ \E i \in DOMAIN events' : events'[i] = Broken
             /\ \A i \in DOMAIN events' : \/ i \in DOMAIN events /\ events'[i] = events[i]
                                          \/ events'[i] = Broken
  BY <1>1, <1>2, AppendFacts
<1>3. CASE spc = "claimWatch"
  <2>1. events \in Seq(Claim \cup {Broken})
    BY <1>3 DEF WaitInv, WaitTyped, WaitTypeOK
  <2>2. /\ events' \in Seq(Claim \cup {Broken})
        /\ \E i \in DOMAIN events' : events'[i] = Broken
    BY <1>2, <2>1
  <2>3. WaitTyped' /\ ReadinessSeen'
    BY <1>1, <1>3, <2>2 DEF WaitInv, WaitTyped, WaitTypeOK, ReadinessSeen
  <2>4. ReadyKnown' /\ PodWasReady'
    BY <1>1, <1>3 DEF WaitInv, ReadyKnown, PodWasReady, PodName
  <2> QED
    BY <2>3, <2>4 DEF WaitInv
<1>4. CASE spc = "sandboxWatch"
  <2>1. events \in Seq(Sandbox \cup {Broken})
    BY <1>4 DEF WaitInv, WaitTyped, WaitTypeOK
  <2>2. /\ events' \in Seq(Sandbox \cup {Broken})
        /\ \E i \in DOMAIN events' : events'[i] = Broken
        /\ \A i \in DOMAIN events' : \/ i \in DOMAIN events /\ events'[i] = events[i]
                                     \/ events'[i] = Broken
    BY <1>2, <2>1
  <2>3. WaitTyped' /\ ReadinessSeen'
    BY <1>1, <1>4, <2>2 DEF WaitInv, WaitTyped, WaitTypeOK, ReadinessSeen
  <2>4. ReadyKnown' /\ PodWasReady'
    BY <1>1, <1>4, <2>2 DEF WaitInv, ReadyKnown, PodWasReady, PodName
  <2> QED
    BY <2>3, <2>4 DEF WaitInv
<1> QED
  BY <1>1, <1>3, <1>4

LEMMA WaitingStepInv == WaitInv /\ WaitingStep => WaitInv'
<1> SUFFICES ASSUME WaitInv, WaitingStep PROVE WaitInv'
  OBVIOUS
<1>1. CASE Expire
  BY <1>1 DEF Expire, WaitInv, WaitTyped, WaitTypeOK, ReadinessSeen, ReadyKnown,
              PodWasReady, PodName
<1>2. CASE UNCHANGED waitVars
  BY <1>2 DEF waitVars, WaitInv, WaitTyped, WaitTypeOK, ReadinessSeen, ReadyKnown,
              PodWasReady, PodName
<1>3. CASE Cluster
  BY <1>1, <1>3, ChangeClaimInv, ChangeSandboxInv, BreakWatchInv DEF Cluster
<1> QED
  BY <1>2, <1>3, BeginWaitInv, WaitStepInv, EndWaitInv DEF WaitingStep

LEMMA WaitInvariant == PassSpec => []WaitInv
<1>1. PassInit => WaitInv
  <2> SUFFICES ASSUME PassInit PROVE WaitInv
    OBVIOUS
  <2>1. /\ claim = NoClaim /\ sandbox = NoSandbox /\ changes = 0 /\ spc = "idle"
        /\ events = <<>> /\ expired = FALSE /\ seenReady = {} /\ result = Error
    BY DEF PassInit, WaitIdle
  <2>2. WaitTypeOK
    <3>1. claim \in Claim /\ sandbox \in Sandbox /\ result \in [ok : BOOLEAN, pod : Nat]
      BY <2>1, IdleTypes
    <3>2. changes \in 0 .. MaxChanges
      BY <2>1
    <3> QED
      BY <2>1, <3>1, <3>2 DEF WaitTypeOK, WaitPCs
  <2> QED
    BY <2>1, <2>2, IdleTypes
       DEF WaitInv, WaitTyped, ReadinessSeen, ReadyKnown, PodWasReady
<1>2. WaitInv /\ [PassNext]_vars => WaitInv'
  BY StepParts, WaitingStepInv
<1> QED
  BY <1>1, <1>2, PTL DEF PassSpec

\* Readiness is not missed between a read of the claim or the sandbox and the
\* watch that follows it (WaitForReady, waitForSandboxName), however many
\* changes there are and wherever they fall.
THEOREM ReadinessNotMissed == PassSpec => []ReadinessSeen
<1>1. WaitInv => ReadinessSeen
  BY DEF WaitInv
<1> QED
  BY <1>1, WaitInvariant, PTL

\* The pod that WaitForReady returns was that of a ready sandbox.
THEOREM PodOnceReady == PassSpec => []PodWasReady
<1>1. WaitInv => PodWasReady
  BY DEF WaitInv
<1> QED
  BY <1>1, WaitInvariant, PTL

-----------------------------------------------------------------------------
(* Fetching the thread.                                                    *)

LEMMA WantedType == \A s \in Seq(Nat) : Wanted(s) \in Seq(Nat)
BY KeptFacts DEF Wanted

LEMMA FormattedType == \A s \in Seq(Nat) : Formatted(s) \in Seq(Nat)
<1> TAKE s \in Seq(Nat)
<1> DEFINE people == Kept(s, Nat \ ByBot)
<1>1. people \in Seq(Nat)
  BY KeptFacts
<1> HIDE DEF people
<1>2. Formatted(s) = IF Len(people) <= MaxThread THEN people
                     ELSE SubSeq(people, 1, MaxThread)
  BY DEF Formatted, people
<1>3. ~(Len(people) <= MaxThread) => SubSeq(people, 1, MaxThread) \in Seq(Nat)
  BY <1>1, ThreadAssumption
<1> QED
  BY <1>1, <1>2, <1>3

LEMMA PageFacts ==
    ASSUME thread \in Seq(Nat), NEW p \in Nat \ {0}
    PROVE  /\ Page(p) \in Seq(Nat)
           /\ Len(Page(p)) <= PerPage
           /\ \A k \in DOMAIN Page(p) :
                 /\ (p - 1) * PerPage + k \in DOMAIN thread
                 /\ Page(p)[k] = thread[(p - 1) * PerPage + k]
                 /\ (p - 1) * PerPage < (p - 1) * PerPage + k
                 /\ (p - 1) * PerPage + k <= p * PerPage
<1> DEFINE before == (p - 1) * PerPage
           last   == IF p * PerPage < Len(thread) THEN p * PerPage ELSE Len(thread)
<1>1. /\ PerPage \in Nat \ {0} /\ Len(thread) \in Nat /\ DOMAIN thread = 1 .. Len(thread)
      /\ \A k \in 1 .. Len(thread) : thread[k] \in Nat
  BY ThreadAssumption
<1>2. /\ before \in Nat /\ last \in Nat /\ last <= Len(thread)
      /\ p * PerPage = before + PerPage /\ last <= before + PerPage
  <2>1. p * PerPage \in Nat /\ (p - 1) * PerPage \in Nat
    BY <1>1
  <2>2. p * PerPage = (p - 1) * PerPage + PerPage
    BY <1>1
  <2> QED
    BY <1>1, <2>1, <2>2
<1>3. Page(p) = SubSeq(thread, before + 1, last)
  BY DEF Page
<1> HIDE DEF before, last
<1>4. /\ SubSeq(thread, before + 1, last) \in Seq(Nat)
      /\ Len(SubSeq(thread, before + 1, last))
            = IF before + 1 <= last THEN last - (before + 1) + 1 ELSE 0
      /\ \A k \in 1 .. last - (before + 1) + 1 :
            SubSeq(thread, before + 1, last)[k] = thread[(before + 1) + k - 1]
  <2>1. \A k \in before + 1 .. last : thread[k] \in Nat
    BY <1>1, <1>2
  <2> QED
    BY <1>2, <2>1, SubSeqProperties
<1>5. Page(p) \in Seq(Nat) /\ Len(Page(p)) <= PerPage
  BY <1>1, <1>2, <1>3, <1>4
<1>6. ASSUME NEW k \in DOMAIN Page(p)
      PROVE  /\ before + k \in DOMAIN thread
             /\ Page(p)[k] = thread[before + k]
             /\ before < before + k /\ before + k <= p * PerPage
  <2>1. k \in 1 .. Len(Page(p))
    BY <1>5, LenProperties
  <2>2. k \in 1 .. last - (before + 1) + 1 /\ (before + 1) + k - 1 = before + k
    <3> DEFINE n == Len(Page(p))
    <3>1. k \in 1 .. n /\ n = IF before + 1 <= last THEN last - (before + 1) + 1 ELSE 0
      BY <1>3, <1>4, <2>1
    <3> HIDE DEF n
    <3> QED
      BY <1>2, <3>1
  <2>3. before + k \in 1 .. Len(thread) /\ before < before + k
        /\ before + k <= before + PerPage
    BY <1>1, <1>2, <2>2
  <2> QED
    BY <1>1, <1>2, <1>3, <1>4, <2>2, <2>3
<1> QED
  BY <1>5, <1>6 DEF before

\* Until the first list call there is nothing.
FetchTyped ==
    /\ ThreadTypeOK
    /\ fpc \in {"idle", "getHeader", "getComment"} => page = 1 /\ fetched = <<>>

LEMMA ThreadTypeStep == ThreadTypeOK /\ FetchingStep => ThreadTypeOK'
<1> SUFFICES ASSUME ThreadTypeOK, FetchingStep PROVE ThreadTypeOK'
  OBVIOUS
<1> USE DEF FetchPCs, Sources
<1>0. /\ source \in Sources /\ thread \in Seq(Nat) /\ posted \in 0 .. MaxPosted
      /\ shifted \in BOOLEAN /\ fpc \in FetchPCs /\ page \in Nat \ {0}
      /\ fetched \in Seq(Nat) /\ context \in [header : BOOLEAN, comments : Seq(Nat)]
  BY DEF ThreadTypeOK
<1>1. NoContext \in [header : BOOLEAN, comments : Seq(Nat)]
  BY DEF NoContext
<1>2. CASE BeginFetch
  <2>1. thread' \in Seq(Nat)
    <3>1. posted' \in Nat /\ thread' = [i \in 1 .. posted' |-> i]
      BY <1>2, ThreadAssumption DEF BeginFetch
    <3> QED
      BY <3>1
  <2> QED
    BY <1>0, <1>2, <2>1 DEF BeginFetch, ThreadTypeOK
<1>3. CASE EndFetch
  <2>1. <<>> \in Seq(Nat) /\ 0 \in 0 .. MaxPosted
    BY ThreadAssumption
  <2>2. /\ source' = "issue" /\ thread' = <<>> /\ posted' = 0 /\ shifted' = FALSE
        /\ fpc' = "idle" /\ page' = 1 /\ fetched' = <<>> /\ context' = NoContext
    BY <1>3 DEF EndFetch
  <2>3. /\ source' \in Sources /\ thread' \in Seq(Nat) /\ posted' \in 0 .. MaxPosted
        /\ shifted' \in BOOLEAN /\ fpc' \in FetchPCs
    BY <2>1, <2>2
  <2>4. /\ page' \in Nat \ {0} /\ fetched' \in Seq(Nat)
        /\ context' \in [header : BOOLEAN, comments : Seq(Nat)]
    BY <1>1, <2>1, <2>2
  <2> QED
    BY <2>3, <2>4 DEF ThreadTypeOK
<1>4. CASE People
  <2>1. CASE Post
    <3>1. posted' \in 0 .. MaxPosted /\ thread' \in Seq(Nat)
      BY <1>0, <2>1, ThreadAssumption DEF Post
    <3> QED
      BY <1>0, <2>1, <3>1 DEF Post, ThreadTypeOK
  <2>2. CASE DeleteComment
    <3>1. PICK i \in DOMAIN thread :
            thread' = Without(thread, i)
      BY <2>2 DEF DeleteComment, Without
    <3>2. thread' \in Seq(Nat)
      BY <1>0, <3>1, DeleteFacts
    <3> QED
      BY <1>0, <2>2, <3>2 DEF DeleteComment, ThreadTypeOK
  <2> QED
    BY <1>4, <2>1, <2>2 DEF People
<1>5. CASE GetHeader
  <2>1. /\ UNCHANGED <<source, thread, posted, shifted, page, fetched>>
        /\ fpc' \in FetchPCs
    BY <1>5 DEF GetHeader, FetchGoto
  <2>2. context' \in [header : BOOLEAN, comments : Seq(Nat)]
    BY <1>0, <1>5 DEF GetHeader
  <2> QED
    BY <1>0, <2>1, <2>2 DEF ThreadTypeOK
<1>6. CASE GetComment
  BY <1>0, <1>6 DEF GetComment, FetchGoto, ThreadTypeOK
<1>7. CASE ListFails
  <2>1. fetched' \in Seq(Nat) /\ context' \in [header : BOOLEAN, comments : Seq(Nat)]
    BY <1>0, <1>1, <1>7 DEF ListFails
  <2> QED
    BY <1>0, <1>7, <2>1 DEF ListFails, FetchGoto, ThreadTypeOK
<1>8. CASE ListPage
  <2> DEFINE all == fetched \o Wanted(Page(page))
  <2>1. all \in Seq(Nat)
    <3>1. Wanted(Page(page)) \in Seq(Nat)
      BY <1>0, PageFacts, WantedType
    <3> QED
      BY <1>0, <3>1, ConcatProperties
  <2>2. /\ fetched' = all
        /\ UNCHANGED <<source, thread, posted, shifted>>
        /\ fpc' \in FetchPCs
        /\ page' = page \/ page' = page + 1
        /\ context' = context \/ context' = [context EXCEPT !.comments = Formatted(all)]
    BY <1>8 DEF ListPage, FetchGoto
  <2> HIDE DEF all
  <2>3. context' \in [header : BOOLEAN, comments : Seq(Nat)]
    <3>1. Formatted(all) \in Seq(Nat)
      BY <2>1, FormattedType
    <3> QED
      BY <1>0, <2>2, <3>1
  <2>4. page' \in Nat \ {0}
    BY <1>0, <2>2
  <2> QED
    BY <1>0, <2>1, <2>2, <2>3, <2>4 DEF ThreadTypeOK
<1>9. CASE UNCHANGED threadVars
  BY <1>0, <1>9 DEF threadVars, ThreadTypeOK
<1> QED
  BY <1>2, <1>3, <1>4, <1>5, <1>6, <1>7, <1>8, <1>9 DEF FetchingStep, FetchStep

LEMMA FetchTypedStep == FetchTyped /\ FetchingStep => FetchTyped'
<1> SUFFICES ASSUME FetchTyped, FetchingStep PROVE FetchTyped'
  OBVIOUS
<1>1. ThreadTypeOK'
  BY ThreadTypeStep DEF FetchTyped
<1>2. CASE BeginFetch \/ EndFetch
  BY <1>1, <1>2 DEF BeginFetch, EndFetch, FetchTyped
<1>3. CASE FetchStep
  BY <1>1, <1>3 DEF FetchStep, GetHeader, GetComment, ListFails, ListPage, FetchGoto,
                    FetchTyped
<1>4. CASE People \/ UNCHANGED threadVars
  BY <1>1, <1>4 DEF People, Post, DeleteComment, threadVars, FetchTyped
<1> QED
  BY <1>2, <1>3, <1>4 DEF FetchingStep

LEMMA FetchInvariant == PassSpec => []FetchTyped
<1>1. PassInit => FetchTyped
  <2> SUFFICES ASSUME PassInit PROVE FetchTyped
    OBVIOUS
  <2>1. /\ source = "issue" /\ thread = <<>> /\ posted = 0 /\ shifted = FALSE
        /\ fpc = "idle" /\ page = 1 /\ fetched = <<>> /\ context = NoContext
    BY DEF PassInit, ThreadIdle
  <2>2. <<>> \in Seq(Nat) /\ 0 \in 0 .. MaxPosted
    BY ThreadAssumption
  <2>3. context \in [header : BOOLEAN, comments : Seq(Nat)]
    BY <2>1, <2>2 DEF NoContext
  <2>4. source \in Sources /\ fpc \in FetchPCs
    BY <2>1 DEF Sources, FetchPCs
  <2>5. page \in Nat \ {0}
    BY <2>1
  <2>6. /\ thread \in Seq(Nat) /\ fetched \in Seq(Nat)
        /\ posted \in 0 .. MaxPosted /\ shifted \in BOOLEAN
    BY <2>1, <2>2
  <2> QED
    BY <2>1, <2>3, <2>4, <2>5, <2>6 DEF FetchTyped, ThreadTypeOK
<1>2. FetchTyped /\ [PassNext]_vars => FetchTyped'
  BY StepParts, FetchTypedStep
<1> QED
  BY <1>1, <1>2, PTL DEF PassSpec

\* While pages of an issue are missing, the cap is not reached.
CapInv == FetchBounded /\ (Issue /\ fpc = "list" => Len(fetched) < MaxCommentsPerThread)

LEMMA ListPageCap == FetchTyped /\ CapInv /\ ListPage => CapInv'
<1> SUFFICES ASSUME FetchTyped, CapInv, ListPage PROVE CapInv'
  OBVIOUS
<1> DEFINE all == fetched \o Wanted(Page(page))
<1>1. /\ fpc = "list" /\ fetched' = all /\ UNCHANGED source
      /\ fpc' = "done" \/ (fpc' = "list" /\ ~LastPage(all))
  BY DEF ListPage, FetchGoto
<1>2. ASSUME Issue
      PROVE  /\ Len(all) < MaxCommentsPerThread + PerPage
             /\ ~LastPage(all) => Len(all) < MaxCommentsPerThread
  <2>1. Page(page) \in Seq(Nat) /\ Len(Page(page)) <= PerPage
    BY PageFacts DEF FetchTyped, ThreadTypeOK
  <2>2. fetched \in Seq(Nat) /\ Len(fetched) < MaxCommentsPerThread
    BY <1>1, <1>2 DEF FetchTyped, ThreadTypeOK, CapInv
  <2>3. all = fetched \o Page(page)
    BY <1>2 DEF Wanted
  <2>4. /\ all \in Seq(Nat) /\ Len(all) = Len(fetched) + Len(Page(page))
        /\ Len(fetched) \in Nat /\ Len(Page(page)) \in Nat
    BY <2>1, <2>2, <2>3
  <2>5. PerPage \in Nat /\ MaxCommentsPerThread \in Nat
    BY ThreadAssumption
  <2>6. Len(all) < MaxCommentsPerThread + PerPage
    BY <2>1, <2>2, <2>4, <2>5
  <2>7. ~LastPage(all) => Len(all) < MaxCommentsPerThread
    BY <1>2, <2>4, <2>5 DEF LastPage
  <2> QED
    BY <2>6, <2>7
<1> HIDE DEF all
<1>3. Issue' = Issue
  BY <1>1 DEF Issue
<1> QED
  BY <1>1, <1>2, <1>3 DEF CapInv, FetchBounded

LEMMA FetchingStepCap == FetchTyped /\ CapInv /\ FetchingStep => CapInv'
<1> SUFFICES ASSUME FetchTyped, CapInv, FetchingStep PROVE CapInv'
  OBVIOUS
<1>1. ASSUME fetched' = <<>>
      PROVE  CapInv'
  <2>1. Len(fetched') = 0
    BY <1>1
  <2> QED
    BY <2>1, ThreadAssumption DEF CapInv, FetchBounded
<1>2. CASE BeginFetch
  BY <1>1, <1>2 DEF BeginFetch, FetchTyped
<1>3. CASE EndFetch
  BY <1>1, <1>3 DEF EndFetch
<1>4. CASE GetHeader \/ GetComment \/ ListFails
  BY <1>1, <1>4 DEF GetHeader, GetComment, ListFails, FetchTyped
<1>5. CASE People \/ UNCHANGED threadVars
  BY <1>5 DEF People, Post, DeleteComment, threadVars, CapInv, FetchBounded, Issue
<1> QED
  BY <1>2, <1>3, <1>4, <1>5, ListPageCap DEF FetchingStep, FetchStep

\* However long the thread of an issue is, and whatever is written meanwhile,
\* FetchIssueThread keeps fewer comments than its cap and a page.
THEOREM IssueFetchBounded == PassSpec => []FetchBounded
<1>1. PassInit => CapInv
  BY ThreadAssumption DEF PassInit, ThreadIdle, CapInv, FetchBounded
<1>2. FetchTyped /\ CapInv /\ [PassNext]_vars => CapInv'
  BY StepParts, FetchingStepCap
<1>3. CapInv => FetchBounded
  BY DEF CapInv
<1> QED
  BY <1>1, <1>2, <1>3, FetchInvariant, PTL DEF PassSpec


Increasing(s) == \A i, j \in DOMAIN s : i < j => s[i] < s[j]

\* What was fetched is older than the comments on the pages to come.
OrderInv ==
    /\ Increasing(thread)
    /\ \A i \in DOMAIN thread : thread[i] <= posted
    /\ FetchedInOrder
    /\ \A i \in DOMAIN fetched : fetched[i] <= posted
    /\ fpc = "list" =>
         \A i \in DOMAIN fetched, j \in DOMAIN thread :
            j > (page - 1) * PerPage => fetched[i] < thread[j]

\* What is wanted of a page is on the page, in its order.
LEMMA WantedFacts ==
    ASSUME NEW s \in Seq(Nat)
    PROVE  /\ Wanted(s) \in Seq(Nat)
           /\ \A k \in DOMAIN Wanted(s) : \E i \in DOMAIN s : Wanted(s)[k] = s[i]
           /\ Increasing(s) => Increasing(Wanted(s))
<1>1. CASE Issue
  BY <1>1 DEF Wanted
<1>2. CASE ~Issue
  <2>1. Wanted(s) = Kept(s, InThread)
    BY <1>2 DEF Wanted
  <2>2. /\ Kept(s, InThread) \in Seq(Nat)
        /\ \A k \in DOMAIN Kept(s, InThread) : \E i \in DOMAIN s : Kept(s, InThread)[k] = s[i]
        /\ \A k, l \in DOMAIN Kept(s, InThread) :
              k < l => \E i, j \in DOMAIN s :
                         i < j /\ Kept(s, InThread)[k] = s[i] /\ Kept(s, InThread)[l] = s[j]
    BY KeptFacts
  <2>3. Increasing(s) => Increasing(Kept(s, InThread))
    BY <2>2 DEF Increasing
  <2> QED
    BY <2>1, <2>2, <2>3
<1> QED
  BY <1>1, <1>2

\* Two increasing sequences, one after the other.
LEMMA IncreasingConcat ==
    ASSUME NEW a \in Seq(Nat), NEW b \in Seq(Nat), Increasing(a), Increasing(b),
           \A i \in DOMAIN a, j \in DOMAIN b : a[i] < b[j]
    PROVE  /\ Increasing(a \o b)
           /\ a \o b \in Seq(Nat)
           /\ \A k \in DOMAIN (a \o b) : \/ \E i \in DOMAIN a : (a \o b)[k] = a[i]
                                        \/ \E j \in DOMAIN b : (a \o b)[k] = b[j]
<1> DEFINE c == a \o b
           m == Len(a)
<1>1. /\ m \in Nat /\ DOMAIN a = 1 .. m /\ Len(b) \in Nat /\ DOMAIN b = 1 .. Len(b)
  BY LenProperties
<1>2. /\ c \in Seq(Nat) /\ Len(c) = m + Len(b)
      /\ \A k \in 1 .. m + Len(b) : c[k] = IF k <= m THEN a[k] ELSE b[k - m]
  BY ConcatProperties
<1> HIDE DEF c, m
<1>3. DOMAIN c = 1 .. m + Len(b)
  BY <1>2, LenProperties
<1>4. ASSUME NEW k \in 1 .. m + Len(b)
      PROVE  \/ k <= m /\ k \in DOMAIN a /\ c[k] = a[k]
             \/ k > m /\ k - m \in DOMAIN b /\ c[k] = b[k - m]
  BY <1>1, <1>2
<1>5. ASSUME NEW k \in 1 .. m + Len(b), NEW l \in 1 .. m + Len(b), k < l
      PROVE  c[k] < c[l]
  <2>1. CASE l <= m
    <3>1. k \in DOMAIN a /\ l \in DOMAIN a /\ c[k] = a[k] /\ c[l] = a[l]
      BY <1>1, <1>4, <1>5, <2>1
    <3> QED
      BY <1>5, <3>1 DEF Increasing
  <2>2. CASE k > m
    <3>1. /\ k - m \in DOMAIN b /\ l - m \in DOMAIN b /\ k - m < l - m
          /\ c[k] = b[k - m] /\ c[l] = b[l - m]
      BY <1>1, <1>4, <1>5, <2>2
    <3> QED
      BY <3>1 DEF Increasing
  <2>3. CASE k <= m /\ l > m
    <3>1. k \in DOMAIN a /\ l - m \in DOMAIN b /\ c[k] = a[k] /\ c[l] = b[l - m]
      BY <1>1, <1>4, <2>3
    <3> QED
      BY <3>1
  <2> QED
    BY <1>1, <2>1, <2>2, <2>3
<1>6. Increasing(c)
  BY <1>3, <1>5 DEF Increasing
<1>7. \A k \in DOMAIN c : \/ \E i \in DOMAIN a : c[k] = a[i]
                          \/ \E j \in DOMAIN b : c[k] = b[j]
  BY <1>3, <1>4
<1> QED
  BY <1>2, <1>6, <1>7 DEF c

LEMMA ListPageOrder == FetchTyped /\ OrderInv /\ ListPage => OrderInv'
<1> SUFFICES ASSUME FetchTyped, OrderInv, ListPage PROVE OrderInv'
  OBVIOUS
<1> DEFINE got == Page(page)
           new == Wanted(got)
           all == fetched \o new
           before == (page - 1) * PerPage
<1>0. /\ thread \in Seq(Nat) /\ fetched \in Seq(Nat) /\ page \in Nat \ {0}
      /\ posted \in Nat
  BY ThreadAssumption DEF FetchTyped, ThreadTypeOK
<1>1. /\ fpc = "list" /\ fetched' = all
      /\ UNCHANGED <<thread, posted>>
      /\ fpc' = "done" \/ (fpc' = "list" /\ page' = page + 1)
  BY DEF ListPage, FetchGoto
<1>2. /\ got \in Seq(Nat)
      /\ \A k \in DOMAIN got :
            /\ before + k \in DOMAIN thread /\ got[k] = thread[before + k]
            /\ before < before + k /\ before + k <= page * PerPage
  BY <1>0, PageFacts
<1>3. before \in Nat /\ page * PerPage \in Nat /\ (page + 1 - 1) * PerPage = page * PerPage
      /\ before <= page * PerPage
  <2>1. PerPage \in Nat
    BY ThreadAssumption
  <2>2. before = page * PerPage - PerPage
    BY <1>0, <2>1
  <2> QED
    BY <1>0, <2>1, <2>2
<1> HIDE DEF before, got
<1>4. Increasing(got)
  <2> SUFFICES ASSUME NEW k \in DOMAIN got, NEW l \in DOMAIN got, k < l
               PROVE  got[k] < got[l]
    BY DEF Increasing
  <2>1. before + k < before + l
    BY <1>2, <1>3, LenProperties
  <2> QED
    BY <1>2, <2>1 DEF OrderInv, Increasing
<1>5. /\ new \in Seq(Nat) /\ Increasing(new)
      /\ \A k \in DOMAIN new : \E j \in DOMAIN thread :
            /\ new[k] = thread[j]
            /\ j > before /\ j <= page * PerPage
  <2>1. /\ new \in Seq(Nat) /\ Increasing(new)
        /\ \A k \in DOMAIN new : \E i \in DOMAIN got : new[k] = got[i]
    BY <1>2, <1>4, WantedFacts
  <2>2. \A i \in DOMAIN got : i \in Nat
    BY <1>2, LenProperties
  <2> HIDE DEF new
  <2>3. ASSUME NEW k \in DOMAIN new
        PROVE  \E j \in DOMAIN thread :
                  /\ new[k] = thread[j]
                  /\ j > before /\ j <= page * PerPage
    <3>1. PICK i \in DOMAIN got : new[k] = got[i]
      BY <2>1
    <3>2. before + i > before /\ before + i <= page * PerPage
      BY <1>2, <1>3, <2>2
    <3> QED
      BY <1>2, <3>1, <3>2
  <2> QED
    BY <2>1, <2>3
<1> HIDE DEF new
<1>6. \A i \in DOMAIN fetched, k \in DOMAIN new : fetched[i] < new[k]
  BY <1>1, <1>5 DEF OrderInv, before
<1>7. /\ all \in Seq(Nat) /\ Increasing(all)
      /\ \A k \in DOMAIN all : \/ \E i \in DOMAIN fetched : all[k] = fetched[i]
                               \/ \E i \in DOMAIN new : all[k] = new[i]
  BY <1>0, <1>5, <1>6, IncreasingConcat DEF OrderInv, FetchedInOrder, Increasing
<1> HIDE DEF all
<1>8. \A k \in DOMAIN all : all[k] <= posted
  BY <1>5, <1>7 DEF OrderInv
<1>9. ASSUME NEW k \in DOMAIN all, NEW j \in DOMAIN thread, j > page * PerPage
      PROVE  all[k] < thread[j]
  <2>1. DOMAIN thread \subseteq Nat
    BY <1>0, LenProperties
  <2>2. ASSUME NEW i \in DOMAIN fetched, all[k] = fetched[i]
        PROVE  all[k] < thread[j]
    <3>1. j > before
      BY <1>3, <1>9, <2>1
    <3> QED
      BY <1>1, <2>2, <3>1 DEF OrderInv, before
  <2>3. ASSUME NEW i \in DOMAIN new, all[k] = new[i]
        PROVE  all[k] < thread[j]
    <3>1. PICK l \in DOMAIN thread : new[i] = thread[l] /\ l <= page * PerPage
      BY <1>5
    <3>2. l < j
      BY <1>3, <1>9, <2>1, <3>1
    <3> QED
      BY <2>3, <3>1, <3>2 DEF OrderInv, Increasing
  <2> QED
    BY <1>7, <2>2, <2>3
<1>10. fpc' = "list" =>
         \A i \in DOMAIN fetched', j \in DOMAIN thread' :
            j > (page' - 1) * PerPage => fetched'[i] < thread'[j]
  <2> SUFFICES ASSUME fpc' = "list"
               PROVE  \A i \in DOMAIN fetched', j \in DOMAIN thread' :
                         j > (page' - 1) * PerPage => fetched'[i] < thread'[j]
    OBVIOUS
  <2>1. (page' - 1) * PerPage = page * PerPage
    <3>1. page' - 1 = page
      BY <1>0, <1>1
    <3> QED
      BY <3>1
  <2>2. fetched' = all /\ thread' = thread
    BY <1>1
  <2> QED
    BY <1>9, <2>1, <2>2
<1> QED
  BY <1>1, <1>7, <1>8, <1>10 DEF OrderInv, FetchedInOrder, Increasing

\* Deleting leaves the order as it is and moves comments to earlier positions.
LEMMA DeleteOrder == FetchTyped /\ OrderInv /\ DeleteComment => OrderInv'
<1> SUFFICES ASSUME FetchTyped, OrderInv, DeleteComment PROVE OrderInv'
  OBVIOUS
<1>1. UNCHANGED <<posted, fpc, page, fetched>>
  BY DEF DeleteComment
<1>2. PICK i \in DOMAIN thread : thread' = Without(thread, i)
  BY DEF DeleteComment, Without
<1>3. /\ thread \in Seq(Nat) /\ DOMAIN thread \subseteq Nat /\ posted \in Nat
      /\ \A k \in DOMAIN thread : thread[k] \in Nat
  BY LenProperties, ElementOfSeq, ThreadAssumption DEF FetchTyped, ThreadTypeOK
<1>4. \A k \in DOMAIN thread' : /\ k < i => thread'[k] = thread[k]
                                /\ ~(k < i) => thread'[k] = thread[k + 1]
                                /\ k \in DOMAIN thread /\ k + 1 \in DOMAIN thread
  <2>1. \A k \in DOMAIN Without(thread, i) :
           /\ Without(thread, i)[k] = IF k < i THEN thread[k] ELSE thread[k + 1]
           /\ k \in DOMAIN thread /\ k + 1 \in DOMAIN thread
    BY <1>3, DeleteFacts
  <2>2. thread' = Without(thread, i)
    BY <1>2
  <2> QED
    BY <2>1, <2>2
<1>5. ASSUME NEW k \in DOMAIN thread'
      PROVE  \E m \in DOMAIN thread : k <= m /\ thread'[k] = thread[m]
  <2>1. CASE k < i
    BY <1>3, <1>4, <2>1
  <2>2. CASE ~(k < i)
    BY <1>3, <1>4, <2>2
  <2> QED
    BY <2>1, <2>2
<1>6. Increasing(thread')
  <2> SUFFICES ASSUME NEW k \in DOMAIN thread', NEW l \in DOMAIN thread', k < l
               PROVE  thread'[k] < thread'[l]
    BY DEF Increasing
  <2>1. k \in Nat /\ l \in Nat /\ i \in Nat
    BY <1>3, <1>4
  <2>2. CASE l < i
    <3>1. thread'[k] = thread[k] /\ thread'[l] = thread[l]
      BY <1>4, <2>1, <2>2
    <3> QED
      BY <1>4, <3>1 DEF OrderInv, Increasing
  <2>3. CASE k < i /\ ~(l < i)
    <3>1. thread'[k] = thread[k] /\ thread'[l] = thread[l + 1] /\ k < l + 1
      BY <1>4, <2>1, <2>3
    <3> QED
      BY <1>4, <3>1 DEF OrderInv, Increasing
  <2>4. CASE ~(k < i)
    <3>1. thread'[k] = thread[k + 1] /\ thread'[l] = thread[l + 1] /\ k + 1 < l + 1
      BY <1>4, <2>1, <2>4
    <3> QED
      BY <1>4, <3>1 DEF OrderInv, Increasing
  <2> QED
    BY <2>1, <2>2, <2>3, <2>4
<1>7. \A k \in DOMAIN thread' : thread'[k] <= posted'
  BY <1>1, <1>5 DEF OrderInv
<1>8. ASSUME fpc' = "list", NEW j \in DOMAIN fetched', NEW k \in DOMAIN thread',
             k > (page' - 1) * PerPage
      PROVE  fetched'[j] < thread'[k]
  <2>1. PICK m \in DOMAIN thread : k <= m /\ thread'[k] = thread[m]
    BY <1>5
  <2> DEFINE before == (page - 1) * PerPage
  <2>2. before \in Nat
    BY ThreadAssumption DEF FetchTyped, ThreadTypeOK
  <2>3. k > before
    BY <1>1, <1>8
  <2>4. \A f \in DOMAIN fetched, p \in DOMAIN thread : p > before => fetched[f] < thread[p]
    BY <1>1, <1>8 DEF OrderInv
  <2> HIDE DEF before
  <2>5. m > before
    BY <1>3, <1>4, <2>1, <2>2, <2>3
  <2> QED
    BY <1>1, <2>1, <2>4, <2>5
<1> QED
  BY <1>1, <1>6, <1>7, <1>8 DEF OrderInv, FetchedInOrder

LEMMA FetchingStepOrder == FetchTyped /\ OrderInv /\ FetchingStep => OrderInv'
<1> SUFFICES ASSUME FetchTyped, OrderInv, FetchingStep PROVE OrderInv'
  OBVIOUS
<1>0. /\ thread \in Seq(Nat) /\ posted \in Nat /\ page \in Nat \ {0}
      /\ \A i \in DOMAIN thread : thread[i] \in Nat
      /\ \A i \in DOMAIN fetched : fetched[i] \in Nat
  BY ElementOfSeq, LenProperties, ThreadAssumption DEF FetchTyped, ThreadTypeOK
<1>1. ASSUME Increasing(thread'), \A i \in DOMAIN thread' : thread'[i] <= posted',
             fetched' = <<>>
      PROVE  OrderInv'
  <2>1. DOMAIN fetched' = {}
    BY <1>1
  <2> QED
    BY <1>1, <2>1 DEF OrderInv, FetchedInOrder
<1>2. CASE BeginFetch
  <2>1. thread' = [i \in 1 .. posted' |-> i] /\ posted' \in Nat
    BY <1>2, ThreadAssumption DEF BeginFetch
  <2>2. Increasing(thread') /\ \A i \in DOMAIN thread' : thread'[i] <= posted'
    BY <2>1 DEF Increasing
  <2>3. fetched' = <<>>
    BY <1>2 DEF BeginFetch, FetchTyped
  <2> QED
    BY <1>1, <2>2, <2>3
<1>3. CASE EndFetch
  <2>1. DOMAIN thread' = {} /\ fetched' = <<>>
    BY <1>3 DEF EndFetch
  <2> QED
    BY <1>1, <2>1 DEF Increasing
<1>4. CASE Post
  <2>1. /\ thread' = Append(thread, posted + 1) /\ posted' = posted + 1
        /\ UNCHANGED <<fpc, page, fetched>>
    BY <1>4 DEF Post
  <2>2. /\ Len(thread) \in Nat /\ DOMAIN thread = 1 .. Len(thread)
        /\ DOMAIN thread' = 1 .. Len(thread) + 1
        /\ \A k \in DOMAIN thread : thread'[k] = thread[k]
        /\ thread'[Len(thread) + 1] = posted + 1
    BY <1>0, <2>1
  <2>3. ASSUME NEW k \in DOMAIN thread'
        PROVE  \/ k \in DOMAIN thread /\ thread'[k] = thread[k]
               \/ k = Len(thread) + 1 /\ thread'[k] = posted + 1
    BY <2>2
  <2>4. \A k \in DOMAIN thread' : thread'[k] <= posted'
    BY <1>0, <2>1, <2>3 DEF OrderInv
  <2>5. Increasing(thread')
    <3> SUFFICES ASSUME NEW k \in DOMAIN thread', NEW l \in DOMAIN thread', k < l
                 PROVE  thread'[k] < thread'[l]
      BY DEF Increasing
    <3>1. k \in DOMAIN thread /\ thread'[k] = thread[k]
      BY <2>2
    <3>2. CASE l \in DOMAIN thread /\ thread'[l] = thread[l]
      BY <3>1, <3>2 DEF OrderInv, Increasing
    <3>3. CASE thread'[l] = posted + 1
      BY <1>0, <3>1, <3>3 DEF OrderInv
    <3> QED
      BY <2>3, <3>2, <3>3
  <2>6. \A i \in DOMAIN fetched' : fetched'[i] <= posted'
    BY <1>0, <2>1 DEF OrderInv
  <2>7. ASSUME fpc' = "list", NEW i \in DOMAIN fetched', NEW k \in DOMAIN thread',
               k > (page' - 1) * PerPage
        PROVE  fetched'[i] < thread'[k]
    <3>1. CASE k \in DOMAIN thread /\ thread'[k] = thread[k]
      BY <2>1, <2>7, <3>1 DEF OrderInv
    <3>2. CASE thread'[k] = posted + 1
      BY <1>0, <2>1, <3>2 DEF OrderInv
    <3> QED
      BY <2>3, <3>1, <3>2
  <2> QED
    BY <2>1, <2>4, <2>5, <2>6, <2>7 DEF OrderInv, FetchedInOrder
<1>5. CASE DeleteComment
  BY <1>5, DeleteOrder
<1>6. CASE GetHeader \/ GetComment
  <2>1. UNCHANGED <<thread, posted, page, fetched>> /\ fetched = <<>>
    BY <1>6 DEF GetHeader, GetComment, FetchGoto, FetchTyped
  <2> QED
    BY <1>1, <2>1 DEF OrderInv, Increasing
<1>7. CASE ListFails
  <2>1. UNCHANGED <<thread, posted, page>> /\ fetched' = <<>>
    BY <1>7 DEF ListFails, FetchGoto
  <2> QED
    BY <1>1, <2>1 DEF OrderInv, Increasing
<1>8. CASE UNCHANGED threadVars
  BY <1>8 DEF threadVars, OrderInv, FetchedInOrder, Increasing
<1> QED
  BY <1>2, <1>3, <1>4, <1>5, <1>6, <1>7, <1>8, ListPageOrder
     DEF FetchingStep, FetchStep, People

\* The comments of a fetch are in the order of the thread, and none is twice in
\* it, although the pages are counted anew for every call while people write
\* and delete (FetchIssueThread, FetchReviewCommentThread).
THEOREM OrderKept == PassSpec => []FetchedInOrder
<1>1. PassInit => OrderInv
  <2> SUFFICES ASSUME PassInit PROVE OrderInv
    OBVIOUS
  <2>1. DOMAIN thread = {} /\ DOMAIN fetched = {} 
    BY DEF PassInit, ThreadIdle
  <2> QED
    BY <2>1 DEF OrderInv, Increasing, FetchedInOrder
<1>2. FetchTyped /\ OrderInv /\ [PassNext]_vars => OrderInv'
  BY StepParts, FetchingStepOrder
<1>3. OrderInv => FetchedInOrder
  BY DEF OrderInv
<1> QED
  BY <1>1, <1>2, <1>3, FetchInvariant, PTL DEF PassSpec


\* What is wanted of the first pages, and of the next, is wanted of all.
LEMMA WantedConcat ==
    ASSUME NEW a \in Seq(Nat), NEW b \in Seq(Nat)
    PROVE  Wanted(a \o b) = Wanted(a) \o Wanted(b)
BY KeptConcat DEF Wanted

LEMMA WantedEmpty == Wanted(<<>>) = <<>>
<1>1. Kept(<<>>, InThread) = <<>>
  <2>1. Places(<<>>, InThread) = {}
    BY DEF Places
  <2>2. <<>> \in Seq(Nat)
    OBVIOUS
  <2>3. Kept(<<>>, InThread) \in Seq(Nat) /\ Len(Kept(<<>>, InThread)) = 0
    BY <2>1, <2>2, KeptFacts, FS_EmptySet
  <2> QED
    BY <2>3, EmptySeq
<1> QED
  BY <1>1 DEF Wanted

\* While nothing is deleted, what was fetched is what the pages read so far
\* have of it.
WholeInv ==
    fpc = "list" /\ ~shifted =>
        /\ (page - 1) * PerPage <= Len(thread)
        /\ fetched = Wanted(SubSeq(thread, 1, (page - 1) * PerPage))

LEMMA ListPageWhole ==
    ASSUME FetchTyped, WholeInv, ListPage, ~shifted
    PROVE  /\ WholeInv'
           /\ fpc' = "done" => \/ fetched' = Wanted(thread)
                               \/ Issue /\ Len(fetched') >= MaxCommentsPerThread
<1> DEFINE got == Page(page)
           all == fetched \o Wanted(got)
           before == (page - 1) * PerPage
           last == IF page * PerPage < Len(thread) THEN page * PerPage ELSE Len(thread)
<1>1. /\ thread \in Seq(Nat) /\ fetched \in Seq(Nat) /\ page \in Nat \ {0}
      /\ Len(thread) \in Nat /\ PerPage \in Nat
  BY ThreadAssumption DEF FetchTyped, ThreadTypeOK
<1>2. /\ fpc = "list" /\ fetched' = all /\ UNCHANGED <<source, thread, shifted>>
      /\ \/ fpc' = "done" /\ LastPage(all)
         \/ fpc' = "list" /\ page' = page + 1 /\ ~LastPage(all)
  BY DEF ListPage, FetchGoto
<1>3. /\ before \in Nat /\ page * PerPage \in Nat /\ before <= page * PerPage
      /\ (page + 1 - 1) * PerPage = page * PerPage
  <2>1. before = page * PerPage - PerPage
    BY <1>1
  <2>2. before \in Nat
    BY <1>1
  <2> QED
    BY <1>1, <2>1, <2>2
<1>4. before <= Len(thread) /\ fetched = Wanted(SubSeq(thread, 1, before))
  BY <1>2 DEF WholeInv
<1>5. got = SubSeq(thread, before + 1, last)
  BY DEF Page
<1>6. last \in before .. Len(thread)
  BY <1>1, <1>3, <1>4
<1> HIDE DEF before, last, got
<1>7. SubSeq(thread, 1, before) \o got = SubSeq(thread, 1, last)
  <2>1. 1 \in 1 .. Len(thread) + 1 /\ before \in 1 - 1 .. Len(thread)
    BY <1>1, <1>3, <1>4
  <2>2. SubSeq(thread, 1, before) \o SubSeq(thread, before + 1, last)
           = SubSeq(thread, 1, last)
    BY <1>1, <1>6, <2>1, ConcatAdjacentSubSeq
  <2> QED
    BY <1>5, <2>2
<1>8. all = Wanted(SubSeq(thread, 1, last))
  <2>1. SubSeq(thread, 1, before) \in Seq(Nat)
    BY <1>1, <1>3, <1>4, PrefixFacts
  <2>2. got \in Seq(Nat)
    BY <1>1, PageFacts DEF got
  <2> QED
    BY <1>4, <1>7, <2>1, <2>2, WantedConcat
<1> HIDE DEF all
<1>10. CASE fpc' = "list" /\ page' = page + 1 /\ ~LastPage(all)
  <2>1. last = page * PerPage /\ page * PerPage <= Len(thread)
    BY <1>1, <1>3, <1>10 DEF LastPage, HasNext, last
  <2>2. (page' - 1) * PerPage = last
    <3>1. page' - 1 = page
      BY <1>1, <1>10
    <3> QED
      BY <2>1, <3>1
  <2>3. fetched' = Wanted(SubSeq(thread, 1, (page - 1) * PerPage))'
    BY <1>2, <1>8, <2>2 DEF Wanted, Issue
  <2>4. last <= Len(thread')
    BY <1>2, <2>1
  <2> QED
    BY <1>10, <2>2, <2>3, <2>4 DEF WholeInv
<1>11. CASE fpc' = "done" /\ LastPage(all)
  <2>1. WholeInv'
    BY <1>11 DEF WholeInv
  <2>2. CASE ~HasNext(page)
    <3>1. last = Len(thread)
      BY <1>1, <1>3, <2>2 DEF HasNext, last
    <3>2. SubSeq(thread, 1, last) = thread
      BY <1>1, <3>1, SubSeqFull
    <3> QED
      BY <1>2, <1>8, <2>1, <3>2
  <2>3. CASE Issue /\ Len(all) >= MaxCommentsPerThread
    BY <1>2, <2>1, <2>3
  <2> QED
    BY <1>11, <2>2, <2>3 DEF LastPage
<1> QED
  <2>1. \/ fpc' = "list" /\ page' = page + 1 /\ ~LastPage(all)
        \/ fpc' = "done" /\ LastPage(all)
    BY <1>2
  <2>2. fpc' = "list" => ~(fpc' = "done")
    OBVIOUS
  <2> QED
    BY <1>10, <1>11, <2>1, <2>2

LEMMA FetchingStepWhole == FetchTyped /\ WholeInv /\ FetchingStep => WholeInv'
<1> SUFFICES ASSUME FetchTyped, WholeInv, FetchingStep PROVE WholeInv'
  OBVIOUS
<1>0. thread \in Seq(Nat) /\ page \in Nat \ {0} /\ PerPage \in Nat /\ posted \in Nat
  BY ThreadAssumption DEF FetchTyped, ThreadTypeOK
<1>1. CASE BeginFetch
  <2>1. fpc' = "getHeader"
    BY <1>1 DEF BeginFetch
  <2> QED
    BY <2>1 DEF WholeInv
<1>2. CASE EndFetch
  BY <1>2 DEF EndFetch, WholeInv
<1>3. CASE GetHeader \/ GetComment
  <2>1. /\ page = 1 /\ fetched = <<>>
        /\ UNCHANGED <<thread, page, fetched>>
        /\ fpc' \in {"list", "done", "getComment"}
    BY <1>3 DEF GetHeader, GetComment, FetchGoto, FetchTyped
  <2>2. SubSeq(thread, 1, 0) = <<>>
    BY SubSeqEmpty
  <2>3. Wanted(SubSeq(thread, 1, 0))' = <<>>
    <3>1. UNCHANGED source
      BY <1>3 DEF GetHeader, GetComment, FetchGoto
    <3>2. Wanted(SubSeq(thread, 1, 0)) = <<>>
      BY <2>2, WantedEmpty
    <3> QED
      BY <2>1, <3>1, <3>2 DEF Wanted, Issue
  <2>4. (1 - 1) * PerPage = 0 /\ 0 <= Len(thread)
    BY <1>0
  <2> QED
    BY <2>1, <2>3, <2>4 DEF WholeInv
<1>4. CASE ListFails
  BY <1>4 DEF ListFails, FetchGoto, WholeInv
<1>5. CASE ListPage /\ shifted
  <2>1. shifted' /\ (fpc' = "done" \/ fpc' = "list")
    BY <1>5 DEF ListPage, FetchGoto
  <2> QED
    BY <2>1 DEF WholeInv
<1>6. CASE Post
  <2>1. /\ thread' = Append(thread, posted + 1)
        /\ UNCHANGED <<source, shifted, fpc, page, fetched>>
    BY <1>6 DEF Post
  <2>2. CASE fpc = "list" /\ ~shifted
    <3> DEFINE n == (page - 1) * PerPage
    <3>1. n \in Nat /\ n <= Len(thread) /\ fetched = Wanted(SubSeq(thread, 1, n))
      BY <1>0, <2>2 DEF WholeInv
    <3> HIDE DEF n
    <3>2. /\ thread' \in Seq(Nat) /\ Len(thread') = Len(thread) + 1 /\ Len(thread) \in Nat
          /\ \A k \in 1 .. Len(thread) : thread'[k] = thread[k]
      BY <1>0, <2>1
    <3>3. n \in 0 .. Len(thread) /\ n \in 0 .. Len(thread')
      BY <3>1, <3>2
    <3>4. SubSeq(thread', 1, n) = SubSeq(thread, 1, n)
      <4> DEFINE a == SubSeq(thread, 1, n)
                 t == thread'
                 b == SubSeq(t, 1, n)
      <4>1. a \in Seq(Nat) /\ Len(a) = n /\ \A k \in 1 .. n : a[k] = thread[k]
        BY <1>0, <3>3, PrefixFacts
      <4>2. b \in Seq(Nat) /\ Len(b) = n /\ \A k \in 1 .. n : b[k] = t[k]
        <5>1. t \in Seq(Nat) /\ n \in 0 .. Len(t)
          BY <3>2, <3>3
        <5> HIDE DEF t
        <5> QED
          BY <5>1, PrefixFacts
      <4>3. \A k \in 1 .. n : b[k] = a[k]
        BY <3>2, <3>3, <4>1, <4>2
      <4> HIDE DEF a, b
      <4>4. a = b
        BY <4>1, <4>2, <4>3, SeqEqual
      <4> QED
        BY <4>4 DEF a, b
    <3>5. (page' - 1) * PerPage = n
      BY <2>1 DEF n
    <3>6. fetched' = Wanted(SubSeq(thread, 1, (page - 1) * PerPage))'
      BY <2>1, <3>1, <3>4, <3>5 DEF Wanted, Issue
    <3>7. n <= Len(thread')
      BY <3>1, <3>2
    <3> QED
      BY <2>1, <2>2, <3>5, <3>6, <3>7 DEF WholeInv
  <2> QED
    BY <2>1, <2>2 DEF WholeInv
<1>7. CASE DeleteComment
  <2>1. shifted' /\ UNCHANGED <<fpc, page, fetched>>
    BY <1>7 DEF DeleteComment
  <2> QED
    BY <2>1 DEF WholeInv
<1>8. CASE UNCHANGED threadVars
  BY <1>8 DEF threadVars, WholeInv, Wanted, Issue
<1> QED
  BY <1>1, <1>2, <1>3, <1>4, <1>5, <1>6, <1>7, <1>8, ListPageWhole
     DEF FetchingStep, FetchStep, People

LEMMA ThreadCompleteStep ==
    ASSUME FetchTyped, WholeInv, FetchingStep,
           fpc = "list", fpc' = "done", fetched' # <<>>, ~shifted
    PROVE  \/ fetched' = Wanted(thread)
           \/ Issue /\ Len(fetched') >= MaxCommentsPerThread
<1>1. CASE ListPage
  BY <1>1, ListPageWhole
<1>2. CASE ListFails
  BY <1>2 DEF ListFails
<1>3. ListPage \/ ListFails
  <2>1. fpc # "idle" /\ fpc # "getHeader" /\ fpc # "getComment" /\ fpc # "done"
        /\ fpc' # fpc
    OBVIOUS
  <2>2. ~BeginFetch /\ ~GetHeader /\ ~GetComment /\ ~EndFetch
    BY <2>1 DEF BeginFetch, GetHeader, GetComment, EndFetch
  <2>3. ~People /\ ~(UNCHANGED threadVars)
    BY <2>1 DEF People, Post, DeleteComment, threadVars
  <2> QED
    BY <2>2, <2>3 DEF FetchingStep, FetchStep
<1> QED
  BY <1>1, <1>2, <1>3

\* A fetch that ends without an error, and that no deletion disturbed, has all
\* that is wanted of the thread as it is then, or an issue's cap: what people
\* write between two pages is on a page still to come.
THEOREM FetchComplete == PassSpec => ThreadComplete
<1>1. PassInit => WholeInv
  BY DEF PassInit, ThreadIdle, WholeInv
<1>2. FetchTyped /\ WholeInv /\ [PassNext]_vars => WholeInv'
  BY StepParts, FetchingStepWhole
<1>3. FetchTyped /\ WholeInv /\ [PassNext]_vars
        => [fpc = "list" /\ fpc' = "done" /\ fetched' # <<>> /\ ~shifted
              => \/ fetched' = Wanted(thread)
                 \/ Issue /\ Len(fetched') >= MaxCommentsPerThread]_threadVars
  BY StepParts, ThreadCompleteStep
<1> QED
  BY <1>1, <1>2, <1>3, FetchInvariant, PTL DEF PassSpec, ThreadComplete

-----------------------------------------------------------------------------
(* Adding up the cost.                                                     *)

\* What a status is off by is at most half a digit for each of its runs.
Close(s) ==
    /\ 2 * (s.estimate - s.exact) <= Scale * s.counted
    /\ 2 * (s.exact - s.estimate) <= Scale * s.counted

CostInv == /\ stored \in Status /\ copy \in Status
           /\ Close(stored) /\ Close(copy)

\* Rounding once more costs at most half a digit more.
LEMMA AccumulateClose ==
    ASSUME NEW s \in Status, Close(s), NEW cost \in Nat,
           NEW estimate \in AccumulateEstimate(s.estimate, cost),
           NEW r, r = [s EXCEPT !.estimate = estimate, !.exact = @ + cost,
                                !.counted = @ + 1]
    PROVE  r \in Status /\ Close(r)
<1>1. /\ s.estimate \in Nat /\ s.exact \in Nat /\ s.counted \in Nat
      /\ s.pod \in Nat /\ s.asked \in Nat
  BY DEF Status
<1>2. /\ estimate \in Nat
      /\ 2 * (estimate - (s.estimate + cost)) <= Scale
      /\ 2 * ((s.estimate + cost) - estimate) <= Scale
  BY <1>1, ScaleAssumption DEF AccumulateEstimate, Rounded
<1>3. r = [pod |-> s.pod, asked |-> s.asked, estimate |-> estimate,
           exact |-> s.exact + cost, counted |-> s.counted + 1]
  BY DEF Status
<1>4. r \in Status
  BY <1>1, <1>2, <1>3 DEF Status
<1>5. /\ r.estimate = estimate /\ r.exact = s.exact + cost
      /\ r.counted = s.counted + 1
  BY <1>3
<1>6. /\ Scale * (s.counted + 1) = Scale * s.counted + Scale
      /\ Scale * s.counted \in Nat /\ Scale \in Nat
  BY <1>1, ScaleAssumption
<1>7. /\ 2 * (s.estimate - s.exact) <= Scale * s.counted
      /\ 2 * (s.exact - s.estimate) <= Scale * s.counted
  BY DEF Close
<1> DEFINE bound == Scale * s.counted
<1>8. bound \in Nat /\ Scale * (s.counted + 1) = bound + Scale
      /\ 2 * (s.estimate - s.exact) <= bound
      /\ 2 * (s.exact - s.estimate) <= bound
  BY <1>6, <1>7
<1> HIDE DEF bound
<1>9. /\ 2 * (estimate - (s.exact + cost)) <= bound + Scale
      /\ 2 * ((s.exact + cost) - estimate) <= bound + Scale
  BY <1>1, <1>2, <1>6, <1>8
<1> QED
  BY <1>4, <1>5, <1>8, <1>9 DEF Close

LEMMA UpdateClose ==
    ASSUME CostInv, NEW new \in Status, Close(new), NEW next, Update(new, next)
    PROVE  CostInv'
<1>1. \/ stored' = new /\ copy' = new
      \/ stored' = stored /\ copy' = copy
  BY DEF Update
<1> QED
  BY <1>1 DEF CostInv, Close

LEMMA KeepClose == ASSUME CostInv, UNCHANGED <<stored, copy>> PROVE CostInv'
BY DEF CostInv, Close

LEMMA PassStepClose == WaitInv /\ CostInv /\ [PassNext]_vars => CostInv'
<1> SUFFICES ASSUME WaitInv, CostInv, [PassNext]_vars PROVE CostInv'
  OBVIOUS
<1>0. stored \in Status /\ copy \in Status /\ Close(stored) /\ Close(copy)
  BY DEF CostInv
<1>1. CASE Begin
  BY <1>1 DEF Begin, CostInv, Close
<1>2. CASE SetPod
  <2>1. result.pod \in Nat
    BY DEF WaitInv, WaitTyped, WaitTypeOK
  <2>2. /\ [copy EXCEPT !.pod = result.pod] \in Status
        /\ Close([copy EXCEPT !.pod = result.pod])
    BY <1>0, <2>1 DEF Status, Close
  <2> QED
    BY <1>0, <1>2, <2>2, UpdateClose DEF SetPod, FailTask
<1>3. CASE GetCloneToken
  BY <1>0, <1>3, UpdateClose, KeepClose DEF GetCloneToken, FailTask
<1>4. CASE EndRun
  <2>0. PICK cost \in IF ParseClaudeOutput(output').cost THEN 0 .. MaxCost ELSE {0} :
          \E estimate \in AccumulateEstimate(copy.estimate, cost) :
             copy' = [copy EXCEPT !.estimate = estimate, !.exact = @ + cost,
                                  !.counted = @ + 1]
    BY <1>4 DEF EndRun
  <2>1. PICK estimate \in AccumulateEstimate(copy.estimate, cost) :
          copy' = [copy EXCEPT !.estimate = estimate, !.exact = @ + cost,
                               !.counted = @ + 1]
    BY <2>0
  <2>2. cost \in Nat
    OBVIOUS
  <2>3. copy' \in Status /\ Close(copy)'
    <3> DEFINE r == copy'
    <3>1. r \in Status /\ Close(r)
      BY <1>0, <2>1, <2>2, AccumulateClose
    <3> QED
      BY <3>1 DEF Close
  <2>4. stored' = stored
    BY <1>4 DEF EndRun
  <2> QED
    BY <1>0, <2>3, <2>4 DEF CostInv, Close
<1>5. CASE Finish
  BY <1>0, <1>5, UpdateClose DEF Finish
<1>6. CASE SaveCost
  BY <1>0, <1>6 DEF SaveCost, CostInv, Close
<1>7. CASE Ask
  <2>1. /\ [copy EXCEPT !.asked = @ + 1] \in Status
        /\ Close([copy EXCEPT !.asked = @ + 1])
    BY <1>0 DEF Status, Close
  <2> QED
    BY <1>0, <1>7, <2>1, UpdateClose DEF Ask, FailTask
<1>8. CASE WaitForReady \/ FetchThread
  BY <1>8, KeepClose DEF WaitForReady, FetchThread, passVars
<1>9. CASE StartRun
  BY <1>9, KeepClose DEF StartRun
<1>10. CASE Environment
  BY <1>10, KeepClose DEF Environment, Answer, passVars
<1>11. CASE UNCHANGED vars
  BY <1>11, KeepClose DEF vars
<1> QED
  BY <1>1, <1>2, <1>3, <1>4, <1>5, <1>6, <1>7, <1>8, <1>9, <1>10, <1>11
     DEF PassNext, Worker

LEMMA CostInvariant == PassSpec => []CostInv
<1>1. PassInit => CostInv
  <2> SUFFICES ASSUME PassInit PROVE CostInv
    OBVIOUS
  <2>1. stored = NewStatus /\ copy = NewStatus
    BY DEF PassInit
  <2>2. NewStatus \in Status /\ Close(NewStatus)
    BY ScaleAssumption DEF NewStatus, Status, Close
  <2> QED
    BY <2>1, <2>2 DEF CostInv
<1> QED
  BY <1>1, WaitInvariant, PassStepClose, PTL DEF PassSpec

\* The estimate of a task, stored or not, is never further from what its runs
\* reported than half a digit for each run, for any number and cost of them.
THEOREM EstimateStaysClose == PassSpec => []EstimateClose
<1>1. CostInv => EstimateClose
  BY DEF CostInv, Close, EstimateClose
<1> QED
  BY <1>1, CostInvariant, PTL

-----------------------------------------------------------------------------
(* The worker's variables.                                                 *)

\* The worker's own variables.  A pass that has not come to its run has one of
\* the runs left.
WorkerInv ==
    /\ pc \in PassPCs
    /\ output \in Seq(Tokens)
    /\ err \in BOOLEAN
    /\ runs \in 0 .. MaxRuns
    /\ pc \in {"wait", "token", "fetch"} => runs < MaxRuns

LEMMA UpdateWorker ==
    ASSUME WorkerInv, NEW new, NEW next \in PassPCs \ {"wait", "fetch"},
           Update(new, next), UNCHANGED runs,
           next = "token" => runs < MaxRuns
    PROVE  WorkerInv'
<1>1. \/ pc' = next /\ output' = <<>> /\ err' = FALSE
      \/ pc' = "idle" /\ output' = <<>> /\ err' = FALSE
  BY DEF Update, Leave
<1>2. output' \in Seq(Tokens)
  <2>1. output' = <<>>
    BY <1>1
  <2>2. <<>> \in Seq(Tokens)
    OBVIOUS
  <2> QED
    BY <2>1, <2>2
<1>3. err' \in BOOLEAN
  BY <1>1
<1>4. /\ pc' \in PassPCs
      /\ pc' \in {"wait", "token", "fetch"} => runs < MaxRuns
  BY <1>1 DEF PassPCs, Resting
<1> QED
  BY <1>2, <1>3, <1>4 DEF WorkerInv

LEMMA WorkerStep == WorkerInv /\ [PassNext]_vars => WorkerInv'
<1> SUFFICES ASSUME WorkerInv, [PassNext]_vars PROVE WorkerInv'
  OBVIOUS
<1> USE DEF PassPCs, Resting
<1>0. /\ pc \in PassPCs
      /\ output \in Seq(Tokens) /\ err \in BOOLEAN /\ runs \in 0 .. MaxRuns
      /\ pc \in {"wait", "token", "fetch"} => runs < MaxRuns
  BY DEF WorkerInv
<1>1. CASE Begin
  BY <1>0, <1>1 DEF Begin, WorkerInv
<1>2. CASE SetPod
  BY <1>0, <1>2, UpdateWorker DEF SetPod, FailTask
<1>3. CASE GetCloneToken
  <2>1. CASE pc' = "fetch" /\ UNCHANGED <<output, err>>
    BY <1>0, <1>3, <2>1 DEF GetCloneToken, WorkerInv
  <2>2. CASE FailTask
    BY <1>3, <2>2, UpdateWorker DEF GetCloneToken, FailTask
  <2> QED
    BY <1>3, <2>1, <2>2 DEF GetCloneToken
<1>4. CASE StartRun
  <2>1. /\ pc' = "exec" /\ runs' = runs + 1
        /\ UNCHANGED <<output, err>> /\ runs < MaxRuns
    BY <1>0, <1>4 DEF StartRun
  <2>2. runs' \in 0 .. MaxRuns
    BY <1>0, <2>1, PassAssumption
  <2> QED
    BY <1>0, <2>1, <2>2 DEF WorkerInv
<1>5. CASE EndRun
  <2>1. /\ pc' = "decide" /\ err' \in BOOLEAN /\ output' \in Outputs
        /\ UNCHANGED runs
    BY <1>5 DEF EndRun
  <2>2. output' \in Seq(Tokens)
    <3>1. PICK n \in 0 .. MaxOutput : output' \in [1 .. n -> Tokens]
      BY <2>1 DEF Outputs
    <3>2. n \in Nat
      OBVIOUS
    <3> QED
      BY <3>1, <3>2
  <2> QED
    BY <1>0, <2>1, <2>2 DEF WorkerInv
<1>6. CASE Finish
  <2>1. Decision \in {"ask", "failed", "completed"}
    BY DEF Decision, Outcome
  <2> QED
    BY <1>6, <2>1, UpdateWorker DEF Finish
<1>7. CASE SaveCost
  BY <1>0, <1>7 DEF SaveCost, WorkerInv
<1>8. CASE Ask
  BY <1>8, UpdateWorker DEF Ask, FailTask
<1>9. CASE Answer
  BY <1>0, <1>9 DEF Answer, WorkerInv
<1>10. CASE UNCHANGED passVars
  BY <1>0, <1>10 DEF passVars, WorkerInv
<1>11. CASE UNCHANGED vars
  <2>1. UNCHANGED passVars
    BY <1>11 DEF vars, passVars
  <2> QED
    BY <1>10, <2>1
<1> QED
  BY <1>1, <1>2, <1>3, <1>4, <1>5, <1>6, <1>7, <1>8, <1>9, <1>10, <1>11
     DEF PassNext, Worker, Environment, WaitForReady, FetchThread

LEMMA WorkerInvariant == PassSpec => []WorkerInv
<1>1. PassInit => WorkerInv
  <2> SUFFICES ASSUME PassInit PROVE WorkerInv
    OBVIOUS
  <2>1. /\ pc = "idle" /\ err = FALSE
        /\ output = <<>> /\ runs = 0
    BY DEF PassInit
  <2>2. output \in Seq(Tokens)
    BY <2>1
  <2>3. runs \in 0 .. MaxRuns
    BY <2>1, PassAssumption
  <2>4. pc \in PassPCs /\ ~(pc \in {"wait", "token", "fetch"})
    BY <2>1 DEF PassPCs, Resting
  <2>5. err \in BOOLEAN
    BY <2>1
  <2> QED
    BY <2>2, <2>3, <2>4, <2>5 DEF WorkerInv
<1> QED
  BY <1>1, WorkerStep, PTL DEF PassSpec

\* The pass, the wait and the fetch have the types they are meant to have; in
\* particular what is fetched of a thread, and what the run writes, are
\* sequences, and the pass never begins a run beyond the bound.
THEOREM PassTypes == PassSpec => []PassTypeOK
<1>1. WaitInv /\ FetchTyped /\ CostInv /\ WorkerInv => PassTypeOK
  BY DEF WaitInv, WaitTyped, FetchTyped, CostInv, WorkerInv, PassTypeOK
<1> QED
  BY <1>1, WaitInvariant, FetchInvariant, CostInvariant, WorkerInvariant, PTL

-----------------------------------------------------------------------------
(* The output.                                                             *)

\* A brace changes the level by one, and nothing else does.
LEMMA LevelFacts ==
    ASSUME NEW s, NEW n \in Nat
    PROVE  /\ Level(s, n) \in Int
           /\ Level(s, 0) = 0
           /\ Level(s, n + 1) = Level(s, n) + (IF s[n + 1] = "open" THEN 1
                                              ELSE IF s[n + 1] = "close" THEN -1 ELSE 0)
<1> DEFINE P(t, k) == {i \in 1 .. k : s[i] = t}
<1>1. ASSUME NEW t, NEW k \in Nat
      PROVE  IsFiniteSet(P(t, k)) /\ Cardinality(P(t, k)) \in Nat
  <2>1. IsFiniteSet(1 .. k) /\ P(t, k) \in SUBSET (1 .. k)
    BY FS_Interval
  <2> QED
    BY <2>1, FS_Subset, FS_CardinalityType
<1>2. \A t : Cardinality(P(t, 0)) = 0
  <2> TAKE t
  <2>1. P(t, 0) = {}
    OBVIOUS
  <2> QED
    BY <2>1, FS_EmptySet
<1>3. ASSUME NEW t
      PROVE  Cardinality(P(t, n + 1))
                = Cardinality(P(t, n)) + (IF s[n + 1] = t THEN 1 ELSE 0)
  <2>1. CASE s[n + 1] = t
    <3>1. P(t, n + 1) = P(t, n) \cup {n + 1} /\ n + 1 \notin P(t, n)
      BY <2>1
    <3> HIDE DEF P
    <3> QED
      BY <1>1, <2>1, <3>1, FS_AddElement
  <2>2. CASE s[n + 1] # t
    <3>1. P(t, n + 1) = P(t, n)
      BY <2>2
    <3> HIDE DEF P
    <3> QED
      BY <1>1, <2>2, <3>1
  <2> QED
    BY <2>1, <2>2
<1>4. \A k : Level(s, k) = Cardinality(P("open", k)) - Cardinality(P("close", k))
  BY DEF Level
<1> HIDE DEF P
<1>5. Level(s, n) \in Int /\ Level(s, 0) = 0
  BY <1>1, <1>2, <1>4
<1>6. /\ Cardinality(P("open", n)) \in Nat /\ Cardinality(P("close", n)) \in Nat
      /\ Cardinality(P("open", n + 1))
            = Cardinality(P("open", n)) + (IF s[n + 1] = "open" THEN 1 ELSE 0)
      /\ Cardinality(P("close", n + 1))
            = Cardinality(P("close", n)) + (IF s[n + 1] = "close" THEN 1 ELSE 0)
  BY <1>1, <1>3
<1>7. Level(s, n + 1) = Level(s, n) + (IF s[n + 1] = "open" THEN 1
                                       ELSE IF s[n + 1] = "close" THEN -1 ELSE 0)
  BY <1>4, <1>6
<1> QED
  BY <1>5, <1>7

\* From two braces of an output the rest cannot unmarshal: the later brace is
\* inside the object that the earlier one begins.
LEMMA OneCandidate ==
    ASSUME NEW s \in Seq(Tokens), NEW i \in Candidates(s), NEW j \in Candidates(s)
    PROVE  i = j
<1>1. Len(s) \in Nat /\ DOMAIN s = 1 .. Len(s)
  BY LenProperties
<1>2. \A a, b \in Candidates(s) : ~(a < b)
  <2> SUFFICES ASSUME NEW a \in Candidates(s), NEW b \in Candidates(s), a < b
               PROVE  FALSE
    OBVIOUS
  <2>1. a \in 1 .. Len(s) /\ b \in 1 .. Len(s)
    BY <1>1 DEF Candidates, Braces
  <2>2. /\ Level(s, Len(s)) = Level(s, a - 1)
        /\ \A n \in a .. Len(s) - 1 : Level(s, n) > Level(s, a - 1)
        /\ Level(s, Len(s)) = Level(s, b - 1)
    BY DEF Candidates, Unmarshals
  <2>3. b - 1 \in a .. Len(s) - 1
    BY <1>1, <2>1
  <2>4. Level(s, b - 1) > Level(s, a - 1) /\ Level(s, a - 1) \in Int
    <3>1. a - 1 \in Nat
      BY <2>1
    <3> QED
      BY <2>2, <2>3, <3>1, LevelFacts
  <2> QED
    BY <2>2, <2>4
<1>3. i \in Int /\ j \in Int
  BY <1>1 DEF Candidates, Braces
<1> QED
  BY <1>2, <1>3

\* Where every object is ended, the brace that the loop finds begins the object
\* that is last.
LEMMA CandidatesAreObjects ==
    ASSUME NEW s \in Seq(Tokens), WellFormed(s)
    PROVE  /\ \A i \in Candidates(s) : <<i, Len(s)>> \in Objects(s)
           /\ \A o \in Objects(s) : o[2] = Len(s) => /\ o[1] \in Candidates(s)
                                                     /\ o = <<o[1], Len(s)>>
<1>1. Len(s) \in Nat /\ DOMAIN s = 1 .. Len(s)
  BY LenProperties
<1>2. Level(s, Len(s)) = 0
  BY DEF WellFormed
<1>3. ASSUME NEW i \in 1 .. Len(s)
      PROVE  Level(s, i) = Level(s, i - 1) + (IF s[i] = "open" THEN 1
                                              ELSE IF s[i] = "close" THEN -1 ELSE 0)
  <2>1. i - 1 \in Nat /\ (i - 1) + 1 = i
    BY <1>1
  <2> QED
    BY <2>1, LevelFacts
<1>4. ASSUME NEW i \in Candidates(s)
      PROVE  <<i, Len(s)>> \in Objects(s)
  <2>1. i \in 1 .. Len(s) /\ s[i] = "open"
    BY <1>1 DEF Candidates, Braces, Unmarshals
  <2>2. /\ Level(s, i - 1) = 0
        /\ \A n \in i .. Len(s) - 1 : Level(s, n) > 0
    BY <1>2 DEF Candidates, Unmarshals
  <2>3. Level(s, i) = 1
    BY <1>3, <2>1, <2>2
  <2>4. i < Len(s)
    BY <1>1, <1>2, <2>1, <2>3
  <2> DEFINE o == <<i, Len(s)>>
  <2>5. o \in (DOMAIN s) \X (DOMAIN s) /\ o[1] = i /\ o[2] = Len(s)
    BY <1>1, <2>1
  <2> HIDE DEF o
  <2>6. o \in Objects(s)
    BY <1>2, <2>2, <2>4, <2>5 DEF Objects
  <2> QED
    BY <2>6 DEF o
<1>5. ASSUME NEW o \in Objects(s), o[2] = Len(s)
      PROVE  o[1] \in Candidates(s) /\ o = <<o[1], Len(s)>>
  <2>1. /\ o \in (DOMAIN s) \X (DOMAIN s)
        /\ o[1] < Len(s) /\ Level(s, o[1] - 1) = 0
        /\ \A n \in o[1] .. Len(s) - 1 : Level(s, n) > 0
    BY <1>5 DEF Objects
  <2>2. o[1] \in 1 .. Len(s) /\ o = <<o[1], o[2]>>
    BY <1>1, <2>1
  <2>3. Level(s, o[1]) > 0
    <3>1. o[1] \in o[1] .. Len(s) - 1
      BY <1>1, <2>1, <2>2
    <3> QED
      BY <2>1, <3>1
  <2>4. s[o[1]] = "open"
    BY <1>3, <2>1, <2>2, <2>3
  <2>5. Unmarshals(s, o[1])
    BY <1>2, <2>1, <2>4 DEF Unmarshals
  <2> QED
    BY <1>1, <1>5, <2>2, <2>4, <2>5 DEF Candidates, Braces
<1> QED
  BY <1>4, <1>5

\* The loop from the last brace to the first and the reading from the beginning
\* find the same.
LEMMA ParseIsReference ==
    ASSUME NEW s \in Seq(Tokens), WellFormed(s)
    PROVE  ParseClaudeOutput(s).text = Reference(s)
<1> DEFINE final == {o \in Objects(s) : o[2] = Len(s)}
<1>1. CASE Candidates(s) = {}
  <2>1. final = {}
    BY <1>1, CandidatesAreObjects
  <2>2. Reference(s) = s
    BY <2>1 DEF Reference
  <2>3. ParseClaudeOutput(s) = [cost |-> FALSE, text |-> s]
    BY <1>1 DEF ParseClaudeOutput
  <2> QED
    BY <2>2, <2>3
<1>2. CASE Candidates(s) # {}
  <2>1. PICK i \in Candidates(s) : TRUE
    BY <1>2
  <2>2. i \in Int
    BY LenProperties DEF Candidates, Braces
  <2>3. Candidates(s) = {i}
    BY <2>1, OneCandidate
  <2>4. (CHOOSE a \in Candidates(s) : \A b \in Candidates(s) : b <= a) = i
    BY <2>2, <2>3
  <2>5. ParseClaudeOutput(s)
           = [cost |-> "cost" \in TokensIn(Fields(s, i, Len(s))),
              text |-> Fields(s, i, Len(s))]
    BY <1>2, <2>4 DEF ParseClaudeOutput
  <2> DEFINE p == <<i, Len(s)>>
  <2>6. p \in Objects(s) /\ p[1] = i /\ p[2] = Len(s)
    BY <2>1, CandidatesAreObjects
  <2>7. \A o \in final : o = p
    <3> TAKE o \in final
    <3>1. o[1] \in Candidates(s) /\ o = <<o[1], Len(s)>>
      BY CandidatesAreObjects
    <3> QED
      BY <2>3, <3>1
  <2> HIDE DEF p
  <2>8. final = {p}
    BY <2>6, <2>7
  <2>9. (CHOOSE o \in final : TRUE) = p
    BY <2>8
  <2>10. Reference(s) = Fields(s, i, Len(s))
    BY <2>6, <2>8, <2>9 DEF Reference
  <2> QED
    BY <2>5, <2>10
<1> QED
  BY <1>1, <1>2

\* The decision after a run is the one that the last top-level object of its
\* output calls for (parseClaudeOutput, parseClarification and the markers),
\* whatever the output has before that object and in it.
THEOREM LastObjectDecides == PassSpec => []DecidedByLastObject
<1>1. WorkerInv => DecidedByLastObject
  BY ParseIsReference DEF WorkerInv, DecidedByLastObject, Decision
<1> QED
  BY <1>1, WorkerInvariant, PTL

=============================================================================
