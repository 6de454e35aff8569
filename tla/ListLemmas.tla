----------------------------- MODULE ListLemmas -----------------------------
(***************************************************************************)
(* Facts about the lists the other proofs reason about: the first match,   *)
(* unlinking an element, putting one in front, popping a stack, counting.  *)
(***************************************************************************)
EXTENDS Integers, Sequences, SequencesExt, FiniteSetTheorems, SequenceTheorems, WellFoundedInduction, TLAPS

(* A first match is one of the matches, and none comes before it.          *)
LEMMA MinOf ==
  ASSUME NEW S \in SUBSET Nat, S # {}
  PROVE  Min(S) \in S /\ \A y \in S : Min(S) <= y
<1>1. PICK x \in S : \A y \in S : ~(<<y, x>> \in OpToRel(<, Nat))
  BY NatLessThanWellFounded, WFMin, Zenon
<1>2. ASSUME NEW y \in S
      PROVE  x <= y
  <2>1. <<y, x>> \in Nat \X Nat
    OBVIOUS
  <2>2. ~(y < x)
    BY <1>1, <2>1 DEF OpToRel
  <2> QED BY <2>2
<1> QED BY <1>2 DEF Min

(* Unlinking position k moves the later ones up by one.                    *)
LEMMA RemoveType ==
  ASSUME NEW S, NEW l \in Seq(S), NEW k \in 1..Len(l)
  PROVE  /\ RemoveAt(l, k) \in Seq(S)
         /\ Len(RemoveAt(l, k)) = Len(l) - 1
         /\ \A i \in 1..(Len(l) - 1) : RemoveAt(l, k)[i] = IF i < k THEN l[i] ELSE l[i + 1]
<1> DEFINE A == SubSeq(l, 1, k - 1)
           B == SubSeq(l, k + 1, Len(l))
<1>1. A \in Seq(S) /\ Len(A) = k - 1 /\ \A i \in 1..(k - 1) : A[i] = l[i]
  OBVIOUS
<1>2. B \in Seq(S) /\ Len(B) = Len(l) - k /\ \A i \in 1..(Len(l) - k) : B[i] = l[i + k]
  OBVIOUS
<1>3. RemoveAt(l, k) = A \o B
  BY DEF RemoveAt
<1> HIDE DEF A, B
<1>4. /\ A \o B \in Seq(S) /\ Len(A \o B) = Len(l) - 1
      /\ \A i \in 1..(Len(l) - 1) : (A \o B)[i] = IF i < k THEN l[i] ELSE l[i + 1]
  <2>1. /\ A \o B \in Seq(S) /\ Len(A \o B) = Len(A) + Len(B)
        /\ \A i \in 1..(Len(A) + Len(B)) : (A \o B)[i] = IF i <= Len(A) THEN A[i] ELSE B[i - Len(A)]
    BY <1>1, <1>2, ConcatProperties
  <2>2. Len(l) \in Nat /\ Len(A) + Len(B) = Len(l) - 1
    BY <1>1, <1>2
  <2>3. ASSUME NEW i \in 1..(Len(l) - 1)
        PROVE  (A \o B)[i] = IF i < k THEN l[i] ELSE l[i + 1]
    <3>1. CASE i < k
      BY <3>1, <2>1, <2>2, <1>1
    <3>2. CASE ~(i < k)
      <4> DEFINE j == i - (k - 1)
      <4>1. j \in 1..(Len(l) - k) /\ j + k = i + 1
        BY <3>2, <2>2
      <4>2. (A \o B)[i] = B[j]
        BY <3>2, <2>1, <2>2, <1>1
      <4>3. B[j] = l[j + k]
        BY <4>1, <1>2
      <4> QED BY <4>1, <4>2, <4>3, <3>2
    <3> QED BY <3>1, <3>2
  <2> QED BY <2>1, <2>2, <2>3
<1> QED BY <1>3, <1>4

(* A list whose elements are distinct, without one of them.                *)
Distinct(l) == \A a, b \in DOMAIN l : l[a] = l[b] => a = b
LEMMA Unlinking ==
  ASSUME NEW S, NEW l \in Seq(S), Distinct(l), NEW i
  PROVE  /\ RemoveFirst(l, i) \in Seq(S)
         /\ Distinct(RemoveFirst(l, i))
         /\ ToSet(RemoveFirst(l, i)) = ToSet(l) \ {i}
<1>1. DOMAIN l = 1..Len(l) /\ Len(l) \in Nat
  OBVIOUS
<1>2. CASE i \notin ToSet(l)
  <2>1. \A a \in DOMAIN l : l[a] # i
    BY <1>2 DEF ToSet
  <2>2. RemoveFirst(l, i) = l
    BY <1>1, <2>1 DEF RemoveFirst
  <2> QED BY <2>2, <1>2
<1>3. CASE i \in ToSet(l)
  <2> DEFINE I == {a \in 1..Len(l) : l[a] = i}
             k == Min(I)
             R == RemoveAt(l, k)
  <2>1. I # {}
    BY <1>1, <1>3 DEF ToSet
  <2>2. k \in I
    <3>1. I \in SUBSET Nat
      OBVIOUS
    <3> QED BY <3>1, <2>1, MinOf, Zenon
  <2>3. RemoveFirst(l, i) = R
    BY <2>1 DEF RemoveFirst, SelectInSeq
  <2>4. /\ R \in Seq(S) /\ Len(R) = Len(l) - 1
        /\ \A a \in 1..(Len(l) - 1) : R[a] = IF a < k THEN l[a] ELSE l[a + 1]
    BY <1>1, <2>2, RemoveType, Zenon
  <2> DEFINE To(a) == IF a < k THEN a ELSE a + 1
  <2> HIDE DEF R, k
  <2>5. DOMAIN R = 1..(Len(l) - 1) /\ k \in 1..Len(l) /\ l[k] = i
    BY <1>1, <2>2, <2>4
  <2>6. \A a \in DOMAIN R : To(a) \in DOMAIN l /\ To(a) # k /\ R[a] = l[To(a)]
    BY <1>1, <2>4, <2>5
  <2>7. \A a, b \in DOMAIN R : To(a) = To(b) => a = b
    BY <2>5
  <2>8. \A b \in DOMAIN l : b # k => \E a \in DOMAIN R : To(a) = b
    <3> SUFFICES ASSUME NEW b \in DOMAIN l, b # k PROVE \E a \in DOMAIN R : To(a) = b
      OBVIOUS
    <3>1. CASE b < k
      BY <3>1, <1>1, <2>5
    <3>2. CASE b > k
      <4>1. b - 1 \in DOMAIN R /\ To(b - 1) = b
        BY <3>2, <1>1, <2>5
      <4> QED BY <4>1
    <3> QED BY <3>1, <3>2, <1>1, <2>5
  <2> HIDE DEF To
  <2>9. Distinct(R)
    BY <2>6, <2>7 DEF Distinct
  <2>10. \A a \in DOMAIN R : R[a] \in ToSet(l) \ {i}
    BY <1>1, <2>5, <2>6 DEF Distinct, ToSet
  <2>11. \A b \in DOMAIN l : l[b] # i => \E a \in DOMAIN R : R[a] = l[b]
    BY <2>5, <2>6, <2>8
  <2>12. ToSet(R) = ToSet(l) \ {i}
    BY <2>10, <2>11 DEF ToSet
  <2> QED BY <2>3, <2>4, <2>9, <2>12
<1> QED BY <1>2, <1>3

(* A list with one more element in front.                                  *)
LEMMA Linking ==
  ASSUME NEW S, NEW l \in Seq(S), Distinct(l), NEW i \in S, i \notin ToSet(l)
  PROVE  /\ <<i>> \o l \in Seq(S)
         /\ Distinct(<<i>> \o l)
         /\ ToSet(<<i>> \o l) = ToSet(l) \cup {i}
<1> DEFINE L == <<i>> \o l
<1>1. DOMAIN l = 1..Len(l) /\ Len(l) \in Nat
  OBVIOUS
<1>2. /\ L \in Seq(S) /\ Len(L) = Len(l) + 1
      /\ L[1] = i /\ \A a \in 2..Len(L) : L[a] = l[a - 1]
  OBVIOUS
<1>3. DOMAIN L = 1..Len(L)
  BY <1>2
<1> HIDE DEF L
<1>4. ASSUME NEW a \in DOMAIN L
      PROVE  (a = 1 /\ L[a] = i) \/ (a - 1 \in DOMAIN l /\ L[a] = l[a - 1])
  BY <1>1, <1>2, <1>3
<1>5. ASSUME NEW a \in DOMAIN l
      PROVE  a + 1 \in DOMAIN L /\ L[a + 1] = l[a]
  <2>1. a + 1 \in 2..Len(L) /\ (a + 1) - 1 = a
    BY <1>1, <1>2
  <2> QED BY <2>1, <1>2, <1>3
<1>6. Distinct(L)
  <2> SUFFICES ASSUME NEW a \in DOMAIN L, NEW b \in DOMAIN L, L[a] = L[b] PROVE a = b
    BY DEF Distinct
  <2>1. \A c \in DOMAIN l : l[c] # i
    BY DEF ToSet
  <2>2. a \in Int /\ b \in Int
    BY <1>1, <1>2, <1>3
  <2>3. CASE a - 1 \in DOMAIN l /\ L[a] = l[a - 1] /\ b - 1 \in DOMAIN l /\ L[b] = l[b - 1]
    <3>1. a - 1 = b - 1
      BY <2>3 DEF Distinct
    <3> QED BY <3>1, <2>2
  <2> QED BY <2>1, <2>2, <2>3, <1>4
<1>7. ToSet(L) = ToSet(l) \cup {i}
  <2>1. \A a \in DOMAIN L : L[a] \in ToSet(l) \cup {i}
    BY <1>4 DEF ToSet
  <2>2. \A x \in ToSet(l) : \E a \in DOMAIN L : L[a] = x
    BY <1>5 DEF ToSet
  <2>3. 1 \in DOMAIN L /\ L[1] = i
    BY <1>1, <1>2, <1>3, SMTT(20)
  <2> QED BY <2>1, <2>2, <2>3 DEF ToSet
<1> QED BY <1>2, <1>6, <1>7 DEF L

(* A stack without its top.                                                *)
LEMMA FrontOf ==
  ASSUME NEW S, NEW s \in Seq(S), s # <<>>
  PROVE  /\ Front(s) \in Seq(S) /\ Len(s) \in Nat \ {0} /\ Last(s) = s[Len(s)] /\ Last(s) \in S
         /\ DOMAIN s = 1..Len(s) /\ DOMAIN Front(s) = DOMAIN s \ {Len(s)}
         /\ \A k \in DOMAIN s \ {Len(s)} : k \in Nat /\ k < Len(s) /\ Front(s)[k] = s[k]
<1> DEFINE n == Len(s) - 1
<1>1. Len(s) \in Nat \ {0} /\ n \in Nat /\ n \in Int /\ 1 \in Int /\ \A k \in 1..n : s[k] \in S
  OBVIOUS
<1>2. /\ SubSeq(s, 1, n) \in Seq(S)
      /\ Len(SubSeq(s, 1, n)) = IF 1 <= n THEN n - 1 + 1 ELSE 0
      /\ \A k \in 1..(n - 1 + 1) : SubSeq(s, 1, n)[k] = s[1 + k - 1]
  BY <1>1, SubSeqProperties
<1>3. n - 1 + 1 = n /\ (IF 1 <= n THEN n - 1 + 1 ELSE 0) = n /\ \A k \in 1..n : 1 + k - 1 = k
  <2>1. \A m \in Nat : m - 1 + 1 = m /\ (IF 1 <= m THEN m - 1 + 1 ELSE 0) = m /\ \A k \in 1..m : 1 + k - 1 = k
    OBVIOUS
  <2> HIDE DEF n
  <2> QED BY <2>1, <1>1
<1>4. Front(s) = SubSeq(s, 1, n)
  BY DEF Front
<1>5. DOMAIN s = 1..Len(s) /\ 1..Len(s) = 1..n \cup {Len(s)} /\ \A k \in 1..n : k # Len(s) /\ k < Len(s) /\ k \in Nat
  BY <1>1
<1> HIDE DEF n
<1>6. Front(s) \in Seq(S) /\ Len(Front(s)) = n /\ \A k \in 1..n : Front(s)[k] = s[k]
  BY <1>2, <1>3, <1>4
<1>7. DOMAIN Front(s) = 1..n
  BY <1>6
<1>8. Last(s) = s[Len(s)] /\ Last(s) \in S
  BY <1>1 DEF Last
<1> QED BY <1>1, <1>5, <1>6, <1>7, <1>8

(* Counting the positions of a stack that are of some kind.                *)
LEMMA Counting ==
  ASSUME NEW n \in Nat, NEW S \in SUBSET (1..n)
  PROVE  /\ IsFiniteSet(S) /\ Cardinality(S) \in Nat
         /\ Cardinality(S) = 0 <=> S = {}
         /\ Cardinality(S) <= 1 <=> \A a, b \in S : a = b
<1>1. IsFiniteSet(S)
  <2>1. IsFiniteSet(1..n)
    BY FS_Interval
  <2> QED BY <2>1, FS_Subset
<1>2. Cardinality(S) \in Nat
  BY <1>1, FS_CardinalityType
<1>3. Cardinality(S) = 0 <=> S = {}
  BY <1>1, FS_EmptySet
<1>4. ASSUME NEW a \in S
      PROVE  IsFiniteSet(S \ {a}) /\ Cardinality(S \ {a}) \in Nat /\ Cardinality(S \ {a}) = Cardinality(S) - 1
  BY <1>1, FS_RemoveElement, FS_CardinalityType
<1>5. ASSUME Cardinality(S) <= 1, NEW a \in S, NEW b \in S
      PROVE  a = b
  <2>1. Cardinality(S \ {a}) = 0
    BY <1>2, <1>4, <1>5
  <2>2. S \ {a} = {}
    BY <2>1, <1>4, FS_EmptySet
  <2> QED BY <2>2, <1>5
<1>6. ASSUME \A a, b \in S : a = b
      PROVE  Cardinality(S) <= 1
  <2>1. CASE S = {}
    BY <2>1, <1>3
  <2>2. CASE S # {}
    <3>1. PICK a \in S : TRUE
      BY <2>2
    <3>2. S \ {a} = {}
      BY <1>6
    <3>3. Cardinality(S \ {a}) = 0
      BY <3>2, FS_EmptySet
    <3> QED BY <3>3, <1>2, <1>4
  <2> QED BY <2>1, <2>2
<1> QED BY <1>1, <1>2, <1>3, <1>5, <1>6
=============================================================================
