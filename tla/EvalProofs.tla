----------------------------- MODULE EvalProofs -----------------------------
(***************************************************************************)
(* Proofs about EvalStack, for every set of constructs and controls, any   *)
(* nesting and any operand of break: whenever a command runs, the chains   *)
(* and counters of the evaluator are those of the constructs around it.    *)
(***************************************************************************)
EXTENDS EvalStack, FiniteSetTheorems, SequenceTheorems, WellFoundedInduction, TLAPS

-----------------------------------------------------------------------------
(* Least and highest elements *)

LEMMA LeastExists ==
  ASSUME NEW S \in SUBSET Nat, S # {}
  PROVE  \E x \in S : \A y \in S : x <= y
<1>1. PICK x \in S : \A y \in S : ~(<<y, x>> \in OpToRel(<, Nat))
  BY NatLessThanWellFounded, WFMin, Zenon
<1>2. ASSUME NEW y \in S
      PROVE  x <= y
  <2>1. <<y, x>> \in Nat \X Nat
    OBVIOUS
  <2>2. ~(y < x)
    BY <1>1, <2>1 DEF OpToRel
  <2> QED BY <2>2
<1> QED BY <1>2

(* The innermost of a set of positions.                                    *)
LEMMA HighestOf ==
  ASSUME NEW n \in Nat, NEW S \in SUBSET (0..n), S # {}
  PROVE  Highest(S) \in S /\ \A h \in S : h <= Highest(S)
<1> DEFINE T == {n - x : x \in S}
<1>1. T \in SUBSET Nat /\ T # {}
  <2>1. \A x \in S : n - x \in Nat
    OBVIOUS
  <2>2. PICK x \in S : TRUE
    OBVIOUS
  <2>3. n - x \in T
    OBVIOUS
  <2> QED BY <2>1, <2>3
<1>2. PICK t \in T : \A y \in T : t <= y
  BY <1>1, LeastExists
<1>3. PICK x \in S : t = n - x
  OBVIOUS
<1>4. \A h \in S : h <= x
  BY <1>2, <1>3
<1> QED BY <1>3, <1>4 DEF Highest

LEMMA InnermostOf ==
  ASSUME NEW n \in Nat, NEW S \in SUBSET (1..n)
  PROVE  /\ Innermost(S) \in S \cup {0} /\ \A h \in S : h <= Innermost(S)
         /\ S # {} => Innermost(S) \in S
<1>1. {0} \cup S \in SUBSET (0..n) /\ {0} \cup S # {}
  OBVIOUS
<1>2. Innermost(S) \in {0} \cup S /\ \A h \in {0} \cup S : h <= Innermost(S)
  BY <1>1, HighestOf DEF Innermost
<1>3. ASSUME NEW h \in S PROVE Innermost(S) \in S
  <2>1. h >= 1 /\ h <= Innermost(S)
    BY <1>2
  <2>2. Innermost(S) # 0
    BY <2>1
  <2> QED BY <2>2, <1>2
<1> QED BY <1>2, <1>3

-----------------------------------------------------------------------------
(* Chains of positions *)

Chain == Seq(Nat \ {0})
Ascends(s) == \A a, b \in 1..Len(s) : a < b => s[a] < s[b]
Within(s, n) == \A a \in 1..Len(s) : s[a] <= n
(* m entries of s are up to i.                                             *)
Marked(s, i, m) == m \in 0..Len(s) /\ \A a \in 1..Len(s) : a <= m <=> s[a] <= i
(* t is what is left of s when it is popped down to n.                     *)
Upto(s, n, t) == \E m \in 0..Len(s) : t = SubSeq(s, 1, m) /\ Marked(s, n, m)

LEMMA MarkUnique ==
  ASSUME NEW s \in Chain, NEW i \in Nat, NEW m, NEW k, Marked(s, i, m), Marked(s, i, k)
  PROVE  m = k
<1>1. Len(s) \in Nat /\ m \in 0..Len(s) /\ k \in 0..Len(s)
  BY DEF Marked, Chain
<1>2. CASE m < k
  <2>1. k \in 1..Len(s)
    BY <1>1, <1>2
  <2> QED BY <1>1, <1>2, <2>1 DEF Marked
<1>3. CASE k < m
  <2>1. m \in 1..Len(s)
    BY <1>1, <1>3
  <2> QED BY <1>1, <1>3, <2>1 DEF Marked
<1> QED BY <1>1, <1>2, <1>3

LEMMA UnderIs ==
  ASSUME NEW s \in Chain, Ascends(s), NEW i \in Nat
  PROVE  Upto(s, i, Under(s, i + 1))
<1> DEFINE S == {0} \cup {k \in 1..Len(s) : s[k] < i + 1}
           m == Highest(S)
<1>1. Len(s) \in Nat /\ \A a \in 1..Len(s) : s[a] \in Nat
  BY DEF Chain
<1>2. S \in SUBSET (0..Len(s)) /\ S # {}
  BY <1>1
<1>3. m \in S /\ \A h \in S : h <= m
  BY <1>1, <1>2, HighestOf
<1>4. Under(s, i + 1) = SubSeq(s, 1, m)
  BY DEF Under
<1> HIDE DEF m
<1>5. m \in 0..Len(s)
  BY <1>2, <1>3
<1>6. ASSUME NEW a \in 1..Len(s)
      PROVE  a <= m <=> s[a] <= i
  <2>1. CASE s[a] <= i
    <3>1. a \in S
      BY <2>1, <1>1
    <3> QED BY <3>1, <2>1, <1>3
  <2>2. CASE a <= m
    <3>1. m \in 1..Len(s) /\ s[m] <= i
      BY <2>2, <1>1, <1>3, <1>5
    <3>2. s[a] <= s[m]
      BY <2>2, <3>1, <1>1 DEF Ascends
    <3> QED BY <3>1, <3>2, <2>2, <1>1
  <2> QED BY <2>1, <2>2
<1> QED BY <1>4, <1>5, <1>6 DEF Upto, Marked

LEMMA CutIs ==
  ASSUME NEW s \in Chain, NEW i \in Nat, NEW m, Marked(s, i, m)
  PROVE  Upto(s, i, Cut(s, m))
<1>1. Len(s) \in Nat /\ m \in 0..Len(s)
  BY DEF Marked, Chain
<1>2. Cut(s, m) = SubSeq(s, 1, m)
  BY <1>1 DEF Cut
<1> QED BY <1>1, <1>2 DEF Upto

(* What is left of a chain.                                                *)
LEMMA UptoIs ==
  ASSUME NEW s \in Chain, Ascends(s), NEW n \in Nat, NEW t, Upto(s, n, t)
  PROVE  /\ t \in Chain /\ Ascends(t) /\ Within(t, n)
         /\ In(t) = {x \in In(s) : x <= n}
         /\ \A m : \A i \in 0..n : Marked(s, i, m) => Marked(t, i, m)
<1>1. PICK k \in 0..Len(s) : t = SubSeq(s, 1, k) /\ Marked(s, n, k)
  BY DEF Upto
<1>2. Len(s) \in Nat /\ \A a \in 1..Len(s) : s[a] \in Nat \ {0}
  BY DEF Chain
<1>3. t \in Seq(Nat \ {0}) /\ Len(t) = k /\ \A a \in 1..k : t[a] = s[a]
  <2>1. \A a \in 1..k : s[a] \in Nat \ {0}
    BY <1>2
  <2> QED BY <1>1, <1>2, <2>1, SubSeqProperties
<1>4. Ascends(t)
  BY <1>2, <1>3 DEF Ascends
<1>5. Within(t, n)
  BY <1>1, <1>2, <1>3 DEF Within, Marked
<1>6. In(t) = {x \in In(s) : x <= n}
  <2>1. ASSUME NEW x \in In(t) PROVE x \in In(s) /\ x <= n
    BY <2>1, <1>2, <1>3, <1>5 DEF In, Within
  <2>2. ASSUME NEW x \in In(s), x <= n PROVE x \in In(t)
    <3>1. PICK a \in 1..Len(s) : x = s[a]
      BY DEF In
    <3>2. a <= k
      BY <3>1, <2>2, <1>1 DEF Marked
    <3> QED BY <3>1, <3>2, <1>3 DEF In
  <2> QED BY <2>1, <2>2
<1>7. ASSUME NEW i \in 0..n, NEW m, Marked(s, i, m)
      PROVE  Marked(t, i, m)
  <2>1. m \in 0..Len(s) /\ \A a \in 1..Len(s) : a <= m <=> s[a] <= i
    BY <1>7 DEF Marked
  <2>2. m <= k
    <3> SUFFICES ASSUME m > k PROVE FALSE
      BY <2>1, <1>2
    <3>1. m \in 1..Len(s) /\ s[m] <= i
      BY <2>1, <1>2
    <3>2. s[m] <= n
      BY <3>1, <1>2
    <3> QED BY <3>1, <3>2, <1>1 DEF Marked
  <2> QED BY <2>1, <2>2, <1>2, <1>3, SMTT(20) DEF Marked
<1> QED BY <1>3, <1>4, <1>5, <1>6, <1>7 DEF Chain

(* Two ways of popping a chain down to n leave the same.                   *)
LEMMA UptoTwice ==
  ASSUME NEW s \in Chain, Ascends(s), NEW n \in Nat, NEW i \in Nat, n <= i, NEW t, Upto(s, i, t), NEW u, Upto(t, n, u)
  PROVE  Upto(s, n, u)
<1>1. PICK k \in 0..Len(s) : t = SubSeq(s, 1, k) /\ Marked(s, i, k)
  BY DEF Upto
<1>2. Len(s) \in Nat /\ \A a \in 1..Len(s) : s[a] \in Nat \ {0}
  BY DEF Chain
<1>3. t \in Seq(Nat \ {0}) /\ Len(t) = k /\ \A a \in 1..k : t[a] = s[a]
  <2>1. \A a \in 1..k : s[a] \in Nat \ {0}
    BY <1>2
  <2> QED BY <1>1, <1>2, <2>1, SubSeqProperties
<1>4. PICK m \in 0..Len(t) : u = SubSeq(t, 1, m) /\ Marked(t, n, m)
  BY DEF Upto
<1>5. u = SubSeq(s, 1, m)
  <2> DEFINE v == SubSeq(s, 1, m)
  <2>1. /\ v \in Seq(Nat \ {0}) /\ Len(v) = m /\ \A a \in 1..m : v[a] = s[a]
    <3>1. \A a \in 1..m : s[a] \in Nat \ {0}
      BY <1>2, <1>3
    <3> QED BY <1>2, <1>3, <3>1, SubSeqProperties
  <2>2. /\ u \in Seq(Nat \ {0}) /\ Len(u) = m /\ \A a \in 1..m : u[a] = t[a]
    <3>1. \A a \in 1..m : t[a] \in Nat \ {0}
      BY <1>2, <1>3
    <3> QED BY <1>2, <1>3, <1>4, <3>1, SubSeqProperties
  <2> HIDE DEF v
  <2>3. \A a \in 1..m : u[a] = v[a]
    BY <2>1, <2>2, <1>3
  <2>4. u = v
    BY <2>1, <2>2, <2>3, SeqEqual
  <2> QED BY <2>4 DEF v
<1>6. Marked(s, n, m)
  <2>1. m \in 0..Len(s)
    BY <1>2, <1>3
  <2>2. ASSUME NEW a \in 1..Len(s) PROVE a <= m <=> s[a] <= n
    <3>1. CASE a <= k
      BY <3>1, <1>2, <1>3, <1>4 DEF Marked
    <3>2. CASE ~(a <= k)
      <4>1. ~(s[a] <= i)
        BY <3>2, <1>1 DEF Marked
      <4> QED BY <4>1, <3>2, <1>2, <1>3
    <3> QED BY <3>1, <3>2
  <2> QED BY <2>1, <2>2 DEF Marked
<1>7. m \in 0..Len(s)
  BY <1>6 DEF Marked
<1> QED BY <1>5, <1>6, <1>7, Zenon DEF Upto

(* A chain that goes no further than n is left alone.                      *)
LEMMA UptoAll ==
  ASSUME NEW s \in Chain, NEW n \in Nat, Within(s, n)
  PROVE  Upto(s, n, s)
<1>1. Len(s) \in Nat
  BY DEF Chain
<1>2. s = SubSeq(s, 1, Len(s))
  BY SubSeqFull DEF Chain
<1>3. Marked(s, n, Len(s))
  BY <1>1 DEF Marked, Within
<1>4. Len(s) \in 0..Len(s)
  BY <1>1
<1> QED BY <1>2, <1>3, <1>4, Zenon DEF Upto

(* Popping the head if it is n.                                            *)
LEMMA IfTopIs ==
  ASSUME NEW s \in Chain, Ascends(s), NEW n \in Nat \ {0}, Within(s, n),
         NEW t, t = IF s # <<>> /\ s[Len(s)] = n THEN SubSeq(s, 1, Len(s) - 1) ELSE s
  PROVE  Upto(s, n - 1, t)
<1>1. Len(s) \in Nat /\ \A a \in 1..Len(s) : s[a] \in Nat \ {0}
  BY DEF Chain
<1>2. CASE s # <<>> /\ s[Len(s)] = n
  <2>1. Len(s) \in 1..Len(s)
    BY <1>2, <1>1 DEF Chain
  <2>2. Marked(s, n - 1, Len(s) - 1)
    <3>1. ASSUME NEW a \in 1..Len(s) PROVE a <= Len(s) - 1 <=> s[a] <= n - 1
      <4>1. CASE a = Len(s)
        BY <4>1, <1>1, <1>2
      <4>2. CASE a < Len(s)
        BY <4>2, <2>1, <1>1, <1>2 DEF Ascends
      <4> QED BY <4>1, <4>2, <1>1
    <3> QED BY <3>1, <2>1, <1>1 DEF Marked
  <2>3. t = SubSeq(s, 1, Len(s) - 1) /\ Len(s) - 1 \in 0..Len(s)
    BY <1>2, <2>1, <1>1
  <2> QED BY <2>2, <2>3, Zenon DEF Upto
<1>3. CASE ~(s # <<>> /\ s[Len(s)] = n)
  <2>1. Within(s, n - 1)
    <3>1. ASSUME NEW a \in 1..Len(s) PROVE s[a] <= n - 1
      <4>1. s # <<>> /\ Len(s) \in 1..Len(s)
        BY <1>1
      <4>2. s[Len(s)] # n /\ s[Len(s)] <= n /\ s[a] <= n
        BY <4>1, <1>3 DEF Within
      <4>3. a < Len(s) => s[a] < s[Len(s)]
        BY <4>1 DEF Ascends
      <4> QED BY <4>1, <4>2, <4>3, <1>1
    <3> QED BY <3>1 DEF Within
  <2>2. t = s /\ n - 1 \in Nat
    BY <1>3
  <2> QED BY <2>1, <2>2, UptoAll
<1> QED BY <1>2, <1>3

(* A new position at the head.                                             *)
LEMMA PushIs ==
  ASSUME NEW s \in Chain, Ascends(s), NEW n \in Nat, Within(s, n), NEW b \in BOOLEAN,
         NEW t, t = IF b THEN Append(s, n + 1) ELSE s
  PROVE  /\ t \in Chain /\ Ascends(t) /\ Within(t, n + 1)
         /\ In(t) = In(s) \cup (IF b THEN {n + 1} ELSE {})
         /\ Marked(t, n + 1, Len(t))
         /\ \A m : \A i \in 0..n : Marked(s, i, m) => Marked(t, i, m)
<1>1. Len(s) \in Nat /\ \A a \in 1..Len(s) : s[a] \in Nat \ {0} /\ s[a] <= n
  BY DEF Chain, Within
<1>2. CASE b
  <2>1. /\ t \in Seq(Nat \ {0}) /\ Len(t) = Len(s) + 1 /\ t[Len(s) + 1] = n + 1
        /\ \A a \in 1..Len(s) : t[a] = s[a]
    BY <1>2 DEF Chain
  <2>2. Ascends(t)
    BY <2>1, <1>1 DEF Ascends
  <2>3. Within(t, n + 1)
    BY <2>1, <1>1 DEF Within
  <2>4. In(t) = In(s) \cup {n + 1}
    BY <2>1, <1>1 DEF In
  <2>5. Marked(t, n + 1, Len(t))
    BY <2>1, <2>3 DEF Marked, Within
  <2>6. ASSUME NEW i \in 0..n, NEW m, Marked(s, i, m) PROVE Marked(t, i, m)
    BY <2>1, <2>6, <1>1 DEF Marked
  <2> QED BY <2>1, <2>2, <2>3, <2>4, <2>5, <2>6, <1>2 DEF Chain
<1>3. CASE ~b
  <2>1. Within(s, n + 1)
    BY <1>1 DEF Within
  <2>2. Marked(s, n + 1, Len(s))
    BY <1>1, <2>1 DEF Marked, Within
  <2> QED BY <1>3, <2>1, <2>2
<1> QED BY <1>2, <1>3

(* The entries above n are as many as the chain is longer than its part up *)
(* to n.                                                                   *)
LEMMA CountAbove ==
  ASSUME NEW s \in Chain, Ascends(s), NEW n \in Nat, NEW m, Marked(s, n, m)
  PROVE  /\ IsFiniteSet({x \in In(s) : x > n})
         /\ Cardinality({x \in In(s) : x > n}) = Len(s) - m
<1> DEFINE I == (m + 1)..Len(s)
           T == {x \in In(s) : x > n}
           f == [a \in I |-> s[a]]
<1>1. /\ Len(s) \in Nat /\ m \in 0..Len(s) /\ \A a \in 1..Len(s) : s[a] \in Nat \ {0}
      /\ \A a \in 1..Len(s) : a <= m <=> s[a] <= n
  BY DEF Chain, Marked
<1>2. \A a \in I : a \in 1..Len(s) /\ f[a] = s[a] /\ f[a] \in T
  BY <1>1 DEF In
<1>3. \A x \in T : \E a \in I : f[a] = x
  <2> SUFFICES ASSUME NEW x \in T PROVE \E a \in I : f[a] = x
    OBVIOUS
  <2>1. PICK a \in 1..Len(s) : x = s[a]
    BY DEF In
  <2>2. a \in I
    BY <2>1, <1>1
  <2> QED BY <2>1, <2>2
<1>4. \A a, b \in I : f[a] = f[b] => a = b
  <2> SUFFICES ASSUME NEW a \in I, NEW b \in I, s[a] = s[b] PROVE a = b
    BY <1>2
  <2>1. a \in 1..Len(s) /\ b \in 1..Len(s)
    BY <1>2
  <2> QED BY <2>1, <1>1 DEF Ascends
<1>5. IsFiniteSet(I) /\ Cardinality(I) = Len(s) - m
  <2>1. m + 1 \in Int /\ Len(s) \in Int
    BY <1>1
  <2>2. IsFiniteSet(I) /\ Cardinality(I) = IF m + 1 > Len(s) THEN 0 ELSE Len(s) - (m + 1) + 1
    BY <2>1, FS_Interval
  <2> QED BY <1>1, <2>2
<1>6. f \in [I -> T]
  BY <1>2
<1> HIDE DEF I, T, f
<1>7. f \in Bijection(I, T)
  <2>1. f \in Injection(I, T)
    BY <1>4, <1>6 DEF Injection, IsInjective
  <2>2. f \in Surjection(I, T)
    BY <1>3, <1>6 DEF Surjection
  <2> QED BY <2>1, <2>2 DEF Bijection
<1>8. IsFiniteSet(T) /\ Cardinality(T) = Cardinality(I)
  BY <1>5, <1>7, FS_Bijection DEF ExistsBijection
<1> QED BY <1>5, <1>8 DEF T

LEMMA LengthIs ==
  ASSUME NEW s \in Chain, Ascends(s)
  PROVE  Cardinality(In(s)) = Len(s)
<1>1. Len(s) \in Nat /\ \A a \in 1..Len(s) : s[a] \in Nat \ {0}
  BY DEF Chain
<1>2. Marked(s, 0, 0)
  BY <1>1 DEF Marked
<1>3. {x \in In(s) : x > 0} = In(s)
  BY <1>1 DEF In
<1>4. Cardinality({x \in In(s) : x > 0}) = Len(s) - 0
  BY <1>2, CountAbove
<1>5. Len(s) - 0 = Len(s)
  BY <1>1
<1> QED BY <1>3, <1>4, <1>5, Zenon

-----------------------------------------------------------------------------
(* The n-th loop outward *)

LEMMA NthIs ==
  ASSUME NEW N \in Nat, NEW L \in SUBSET (1..N), L # {}, NEW n \in Nat \ {0}
  PROVE  NthLoop(L, n) \in L
<1> DEFINE Out(i) == {h \in L : h >= i}
<1>1. IsFiniteSet(L) /\ Cardinality(L) \in Nat
  <2>1. IsFiniteSet(1..N)
    BY FS_Interval
  <2>2. IsFiniteSet(L)
    BY <2>1, FS_Subset
  <2> QED BY <2>2, FS_CardinalityType
<1>2. \A i \in L : IsFiniteSet(Out(i)) /\ Cardinality(Out(i)) \in Nat
  BY <1>1, FS_Subset, FS_CardinalityType
<1>3. \E i \in L : Cardinality(Out(i)) = n \/ (Cardinality(L) < n /\ Out(i) = L)
  <2>1. CASE Cardinality(L) < n
    <3>1. PICK i \in L : \A y \in L : i <= y
      BY LeastExists
    <3>2. Out(i) = L
      BY <3>1
    <3> QED BY <3>2, <2>1
  <2>2. CASE ~(Cardinality(L) < n)
    <3> DEFINE S == {i \in L : Cardinality(Out(i)) <= n}
               top == Highest(L)
    <3>1. top \in L /\ \A h \in L : h <= top
      <4>1. L \in SUBSET (0..N)
        OBVIOUS
      <4> QED BY <4>1, HighestOf
    <3>2. Out(top) = {top}
      <4> HIDE DEF top
      <4>1. \A h \in Out(top) : h <= top /\ top <= h /\ h \in Int /\ top \in Int
        BY <3>1
      <4>2. \A h \in Out(top) : h = top
        BY <4>1
      <4>3. top \in Out(top)
        BY <3>1
      <4> QED BY <4>2, <4>3
    <3>3. Cardinality(Out(top)) = 1
      BY <3>2, FS_Singleton
    <3>4. top \in S
      BY <3>1, <3>3
    <3> HIDE DEF top
    <3>5. S # {} /\ S \in SUBSET Nat
      <4>1. L \subseteq Nat
        OBVIOUS
      <4> QED BY <3>4, <4>1
    <3>6. PICK i \in S : \A y \in S : i <= y
      BY <3>5, LeastExists
    <3>7. i \in L /\ Cardinality(Out(i)) <= n /\ Cardinality(Out(i)) \in Nat
      BY <1>2
    <3>8. CASE Cardinality(Out(i)) = n
      BY <3>7, <3>8
    <3>9. CASE Cardinality(Out(i)) # n
      <4> DEFINE R == L \ Out(i)
      <4>1. R # {}
        <5> SUFFICES ASSUME R = {} PROVE FALSE
          OBVIOUS
        <5>1. Out(i) = L
          OBVIOUS
        <5> QED BY <5>1, <3>7, <3>9, <2>2, <1>1
      <4> DEFINE j == Highest(R)
      <4>2. j \in R /\ \A h \in R : h <= j
        BY <4>1, HighestOf
      <4> HIDE DEF j
      <4>3. j \in L /\ j < i
        BY <4>2, <3>7
      <4>4. Out(j) = Out(i) \cup {j} /\ j \notin Out(i)
        <5>1. L \subseteq Int /\ i \in Int /\ j \in Int
          BY <4>3, <3>7
        <5>2. \A h \in L : h >= j <=> h >= i \/ h = j
          BY <5>1, <4>2, <4>3
        <5>3. j \notin Out(i)
          BY <5>1, <4>3
        <5>4. \A h : h \in Out(j) <=> h \in Out(i) \/ h = j
          BY <5>2, <4>3
        <5> HIDE DEF Out
        <5> QED BY <5>3, <5>4
      <4>5. Cardinality(Out(j)) = Cardinality(Out(i)) + 1
        <5> HIDE DEF Out
        <5>1. IsFiniteSet(Out(i))
          BY <1>2, <3>7
        <5> QED BY <5>1, <4>4, FS_AddElement
      <4>6. j \in S
        BY <4>3, <4>5, <3>7, <3>9
      <4> QED BY <4>3, <4>6, <3>6, <3>7
    <3> QED BY <3>8, <3>9
  <2> QED BY <2>1, <2>2
<1> QED BY <1>3 DEF NthLoop

-----------------------------------------------------------------------------
(* The inductive invariant *)

FlagNames == {"ROOT", "LOOP", "FUNCTION", "EVAL", "SOURCE"}
Hows == {"", "break", "continue", "return", "exit", "errexit", "end", "stray", "pending"}
Ctls == [op : Ops, n : Nat, how : Hows]
Traps == {"none", "set", "running"}
FrameSet == [kind : Kinds, flags : SUBSET FlagNames, jump : BOOLEAN, dtor : BOOLEAN, pending : Nat, pendcont : BOOLEAN,
             fd : Nat, var : Nat, src : Nat, traps : Traps, async : BOOLEAN, then : Ctls]
FlagsOf(k, i) == (IF k \in FrameKinds THEN FrameFlags[k] ELSE {}) \cup (IF k = "line" /\ i > 1 THEN {"EVAL"} ELSE {})

(* Types; a break or continue that left a file is pending in that file's   *)
(* frame only, until it is taken up again outside.                         *)
Pending == ctl.op = "land" /\ ctl.how = "pending"
Types ==
  /\ stack \in Seq(FrameSet)
  /\ eval \in Chain /\ fdstack \in Chain /\ varstack \in Chain /\ source \in Chain /\ sh \in Chain
  /\ sh_async_exit \in BOOLEAN /\ exit_trap \in Traps /\ ctl \in Ctls
  /\ \A i \in 1..Size : stack[i].pending # 0 => i = Size /\ Pending /\ stack[i].kind = "source"

(* Every jump has a target: the positions that frames and control name are *)
(* live, and what an EXIT trap returns to lies outside it.                 *)
Resumes(j, t) ==
  /\ t.op \in {"run", "done", "leave", "unwind"}
  /\ t.op = "leave" => j > 1
  /\ t.op = "unwind" => t.n \in 1..(j - 1)
  /\ t.how # "pending"
KindOK(i, k, F) == (k = "cond" => i > 1) /\ ("SOURCE" \in F => k = "source")
Safe ==
  /\ Ascends(eval) /\ (Pending \/ Within(eval, Size))
  /\ \A i \in 1..Size : KindOK(i, stack[i].kind, stack[i].flags)
  /\ \A j \in 1..Size : stack[j].kind = "exittrap" => Resumes(j, stack[j].then)
  /\ ctl.op \in {"dtor", "unwind"} => ctl.n \in 1..Size
  /\ ctl.op \in {"land", "leave", "test"} => Size > 0
  /\ Pending => Top.kind = "source"
  /\ ctl.op = "jump" => ctl.n # 0
  /\ ctl.how = "pending" => ctl.op = "land"

(* Activations that the jump under way, or the one an EXIT trap holds up,  *)
(* is about to leave.                                                      *)
Gone(i) == Doomed(i) \/ ctl.op \in {"die", "done"} \/ (ctl.op \in {"dtor", "unwind"} /\ i > ctl.n)
Must(K, from) == {i \in Live(K) : i > from /\ ~Gone(i)}
(* A chain holds activations of its kind in order, all that will run on.   *)
Linked(s, K, from) == /\ Ascends(s) /\ In(s) \cap (1..Size) \subseteq Live(K)
                      /\ Must(K, from) \subseteq In(s)
(* The marks of a frame tell how much of each chain is its own or older.   *)
MarksOK(i) == Marked(fdstack, i, stack[i].fd) /\ Marked(varstack, i, stack[i].var) /\ Marked(source, i, stack[i].src)
ChainsOK ==
  /\ Linked(eval, FrameKinds, 0) /\ Linked(fdstack, FdKinds, 0) /\ Linked(varstack, VarKinds, 0)
  /\ Linked(source, SourceKinds, 0) /\ Linked(sh, EnvKinds, ChildAt)
  /\ Pending \/ (Within(eval, Size) /\ Within(fdstack, Size) /\ Within(varstack, Size) /\ Within(source, Size))
  /\ Within(sh, Size) /\ \A a \in 1..Len(sh) : sh[a] > ChildAt
  /\ \A i \in Live(FrameKinds) : ~Gone(i) => MarksOK(i)

(* Jump targets are the frames of this process; what an EXIT trap returns  *)
(* to is a frame outside it, with no subshell in between.                  *)
Quiet == Live({"exittrap"}) = {}
FrameOK(i) ==
  /\ stack[i].jump <=> stack[i].kind \in JumpKinds /\ i > ChildAt
  /\ stack[i].flags \subseteq FlagsOf(stack[i].kind, i)
  /\ i > ChildAt => stack[i].flags = FlagsOf(stack[i].kind, i)
  /\ stack[i].kind \in {"source", "child"} => stack[i].kind \in Constructs
ThenOK(j, t) ==
  /\ t \in {Done, Do("leave")} \/ t.op = "unwind"
  /\ t.op = "unwind" => /\ t.how \in {"exit", "return"} /\ t.n \in Live(FrameKinds) /\ t.n < j
                        /\ ChildAt < j => t.n > ChildAt
                        /\ (t.n = j - 1 /\ t.n \in Live({"source"})) \/ \A i \in Live({"exittrap"}) : i >= j
                        /\ \A i \in Live(ShellKinds) : i <= t.n \/ i > j
                        /\ \A x \in In(sh) : x <= t.n \/ x >= j
ShapeOK ==
  /\ \A i \in 1..Size : FrameOK(i)
  /\ \A j \in Live({"exittrap"}) : ThenOK(j, stack[j].then) /\ \A i \in Live({"trap"}) : i < j

(* Where each phase of a jump may be: no break, and but for the end of a   *)
(* file or child no exit, leaves an EXIT trap.                             *)
Aimed ==
  /\ ctl.n \in Live(FrameKinds) /\ ctl.n > ChildAt
  /\ Quiet \/ (ctl.n = Size /\ (Top.kind = "source" \/ ctl.how = "end"))
  /\ \A i \in Live(ShellKinds) : i <= ctl.n
  /\ \A x \in In(sh) : x <= ctl.n
  /\ ctl.how \in {"exit", "return"} \/ (ctl.op = "dtor" /\ ctl.how = "end" /\ ctl.n = Size)
PhaseOK ==
  /\ ctl.op = "run" => ctl = Run
  /\ ctl.op = "jump" => Quiet
  /\ ctl.op = "exit" => Quiet \/ (Size > 0 /\ Top.kind \in {"source", "child"})
  /\ ctl.op \in {"dtor", "unwind"} => Aimed
  /\ ctl.op = "land" => (Quiet \/ Top.kind = "source") /\ (Pending => Quiet)
  /\ ctl.op = "leave" => ctl = Do("leave")
  /\ ctl.op = "die" => ctl.how \in {"exit", "end"}

EvalInv == Types /\ Safe /\ ChainsOK /\ ShapeOK /\ PhaseOK

(* No control runs in an EXIT trap, and no background job or pipeline in a *)
(* sourced file (or no file is sourced at all).                            *)
Tame == ExitControls = {} /\ ~({"source", "child"} \subseteq Constructs)

-----------------------------------------------------------------------------
(* Kinds and flags *)

LEMMA FrameKindsAre ==
  FrameKinds = {"line", "while", "for", "function", "subshell", "subst", "eval", "source", "trap", "exittrap"}
  BY DEF FrameKinds, FrameFlags

LEMMA KindsAre ==
  Kinds = {"redir", "pipe", "subshell", "subst", "prefix", "function", "test", "cond", "line", "while", "for",
           "eval", "source", "trap", "exittrap", "child"}
  BY FrameKindsAre DEF Kinds, FdKinds, VarKinds, TestKinds

LEMMA JumpKindsAre ==
  JumpKinds = {"while", "for", "subshell", "subst", "function", "source"}
  BY DEF JumpKinds, LoopKinds, ShellKinds

LEMMA FlagsAre ==
  ASSUME NEW k \in Kinds, NEW i
  PROVE  /\ FlagsOf(k, i) \subseteq FlagNames
         /\ "FUNCTION" \in FlagsOf(k, i) <=> k = "function"
         /\ "SOURCE" \in FlagsOf(k, i) <=> k = "source"
         /\ "LOOP" \in FlagsOf(k, i) <=> k \in LoopKinds
         /\ "ROOT" \in FlagsOf(k, i) <=> k \in {"line", "subshell", "subst", "eval", "source"}
         /\ "EVAL" \in FlagsOf(k, i) <=> k = "eval" \/ (k = "line" /\ i > 1)
<1>1. CASE k = "line"
  BY <1>1, FrameKindsAre DEF FlagsOf, FrameFlags, FlagNames, LoopKinds
<1>2. CASE k = "while"
  BY <1>2, FrameKindsAre DEF FlagsOf, FrameFlags, FlagNames, LoopKinds
<1>3. CASE k = "for"
  BY <1>3, FrameKindsAre DEF FlagsOf, FrameFlags, FlagNames, LoopKinds
<1>4. CASE k = "function"
  BY <1>4, FrameKindsAre DEF FlagsOf, FrameFlags, FlagNames, LoopKinds
<1>5. CASE k = "subshell"
  BY <1>5, FrameKindsAre DEF FlagsOf, FrameFlags, FlagNames, LoopKinds
<1>6. CASE k = "subst"
  BY <1>6, FrameKindsAre DEF FlagsOf, FrameFlags, FlagNames, LoopKinds
<1>7. CASE k = "eval"
  <2>1. FlagsOf(k, i) = {"ROOT", "EVAL"}
    BY <1>7, FrameKindsAre DEF FlagsOf, FrameFlags
  <2> QED BY <2>1, <1>7 DEF FlagNames, LoopKinds
<1>8. CASE k = "source"
  <2>1. FlagsOf(k, i) = {"ROOT", "SOURCE"}
    BY <1>8, FrameKindsAre DEF FlagsOf, FrameFlags
  <2> QED BY <2>1, <1>8 DEF FlagNames, LoopKinds
<1>9. CASE k = "trap"
  BY <1>9, FrameKindsAre DEF FlagsOf, FrameFlags, FlagNames, LoopKinds
<1>10. CASE k = "exittrap"
  BY <1>10, FrameKindsAre DEF FlagsOf, FrameFlags, FlagNames, LoopKinds
<1>11. CASE k \notin FrameKinds
  <2>1. FlagsOf(k, i) = {} /\ k \notin {"line", "function", "source", "while", "for", "subshell", "subst", "eval"}
    BY <1>11, FrameKindsAre DEF FlagsOf
  <2> QED BY <2>1 DEF LoopKinds
<1> QED BY <1>1, <1>2, <1>3, <1>4, <1>5, <1>6, <1>7, <1>8, <1>9, <1>10, <1>11, FrameKindsAre

-----------------------------------------------------------------------------
(* Leaving activations: the first n are kept, as they are *)

Keeps(n) ==
  /\ n \in 0..Size /\ Len(stack') = n
  /\ \A i \in 1..n : /\ stack'[i].kind = stack[i].kind /\ stack'[i].jump = stack[i].jump
                     /\ stack'[i].flags = stack[i].flags /\ stack'[i].then = stack[i].then
                     /\ stack'[i].fd = stack[i].fd /\ stack'[i].var = stack[i].var /\ stack'[i].src = stack[i].src
                     /\ stack'[i].async = stack[i].async

LEMMA SizeIs == Types => Size \in Nat
  BY DEF Types, Size

LEMMA LiveIs ==
  ASSUME Types, NEW K
  PROVE  Live(K) \subseteq 1..Size /\ IsFiniteSet(Live(K))
<1>1. Size \in Nat
  BY SizeIs
<1>2. Live(K) \subseteq 1..Size
  BY DEF Live
<1>3. IsFiniteSet(1..Size)
  BY <1>1, FS_Interval
<1> QED BY <1>2, <1>3, FS_Subset

LEMMA ChildIs ==
  ASSUME Types
  PROVE  /\ ChildAt \in 0..Size /\ \A i \in Live({"child"}) : i <= ChildAt
         /\ ChildAt # 0 => ChildAt \in Live({"child"})
<1>1. Size \in Nat /\ Live({"child"}) \subseteq 1..Size
  BY SizeIs, LiveIs
<1>2. {0} \cup Live({"child"}) \in SUBSET (0..Size)
  BY <1>1
<1>3. ChildAt \in {0} \cup Live({"child"}) /\ \A i \in {0} \cup Live({"child"}) : i <= ChildAt
  BY <1>1, <1>2, HighestOf DEF ChildAt
<1> QED BY <1>1, <1>2, <1>3

LEMMA KeptLive ==
  ASSUME Types, NEW n, Keeps(n), NEW K
  PROVE  Live(K)' = {i \in Live(K) : i <= n}
<1>1. Size \in Nat /\ n \in 0..Size /\ Size' = n
  BY SizeIs DEF Keeps, Size
<1>2. \A i \in 1..n : stack'[i].kind = stack[i].kind
  BY DEF Keeps
<1>3. Live(K)' = {i \in 1..n : stack'[i].kind \in K}
  BY <1>1 DEF Live
<1> QED BY <1>1, <1>2, <1>3 DEF Live

LEMMA KeptChild ==
  ASSUME Types, NEW n, Keeps(n), ChildAt <= n
  PROVE  ChildAt' = ChildAt
<1>1. Size \in Nat /\ Live({"child"}) \subseteq 1..Size /\ n \in 0..Size
  BY SizeIs, LiveIs DEF Keeps
<1>2. Live({"child"})' = Live({"child"})
  BY <1>1, KeptLive, ChildIs
<1> QED BY <1>2 DEF ChildAt

LEMMA KeptDoom ==
  ASSUME Types, NEW n, Keeps(n), \A j \in Live({"exittrap"}) : j <= n, NEW i
  PROVE  Doomed(i)' <=> Doomed(i)
<1>1. Live({"exittrap"})' = Live({"exittrap"})
  BY KeptLive
<1>2. \A j \in Live({"exittrap"}) : stack'[j].then = stack[j].then
  BY LiveIs, SizeIs DEF Keeps
<1>3. Doomed(i)' <=> \E j \in Live({"exittrap"})' :
         i < j /\ ((stack'[j].then.op = "unwind" /\ i > stack'[j].then.n) \/ stack'[j].then.op = "done")
  BY Zenon DEF Doomed
<1>4. Doomed(i) <=> \E j \in Live({"exittrap"}) :
         i < j /\ ((stack[j].then.op = "unwind" /\ i > stack[j].then.n) \/ stack[j].then.op = "done")
  BY Zenon DEF Doomed
<1> QED BY <1>1, <1>2, <1>3, <1>4

(* A chain popped with the activations it belongs to.                      *)
LEMMA UptoLinked ==
  ASSUME NEW s \in Chain, Ascends(s), NEW z \in Nat, NEW n \in 0..z, NEW L, In(s) \cap (1..z) \subseteq L,
         NEW M, M \subseteq In(s), NEW t, Upto(s, n, t)
  PROVE  /\ t \in Chain /\ Ascends(t) /\ Within(t, n)
         /\ In(t) \cap (1..n) \subseteq {i \in L : i <= n}
         /\ \A x \in M : x <= n => x \in In(t)
<1>1. /\ t \in Chain /\ Ascends(t) /\ Within(t, n)
      /\ In(t) = {x \in In(s) : x <= n}
  BY UptoIs
<1> QED BY <1>1

(* All chains are popped down to n together with the stack.                *)
Popped(n) == /\ Keeps(n) /\ Upto(eval, n, eval') /\ Upto(fdstack, n, fdstack') /\ Upto(varstack, n, varstack')
             /\ Upto(source, n, source') /\ Upto(sh, n, sh')
ChainTypes == eval \in Chain /\ fdstack \in Chain /\ varstack \in Chain /\ source \in Chain /\ sh \in Chain

LEMMA PoppedChains ==
  ASSUME Types, ChainsOK, NEW n, Popped(n), ChildAt <= n, \A i \in 1..n : Gone(i) => Gone(i)'
  PROVE  ChainsOK' /\ ChainTypes'
<1>1. Size \in Nat /\ n \in 0..Size /\ n \in Nat /\ Size' = n /\ Keeps(n)
  BY SizeIs DEF Keeps, Size, Popped
<1>2. ChildAt' = ChildAt /\ ChildAt \in 0..Size
  BY <1>1, KeptChild, ChildIs
<1>3. ASSUME NEW K, NEW from, NEW s \in Chain, NEW t, Ascends(s), In(s) \cap (1..Size) \subseteq Live(K),
             Must(K, from) \subseteq In(s), Upto(s, n, t)
      PROVE  /\ t \in Chain /\ Ascends(t) /\ Within(t, n) /\ In(t) \cap (1..n) \subseteq Live(K)'
             /\ Must(K, from)' \subseteq In(t)
  <2>1. Live(K)' = {i \in Live(K) : i <= n} /\ Live(K) \subseteq 1..Size
    BY <1>1, KeptLive, LiveIs
  <2>2. \A i \in Must(K, from)' : i \in Must(K, from) /\ i <= n
    BY <2>1, <1>1 DEF Must
  <2>3. /\ t \in Chain /\ Ascends(t) /\ Within(t, n) /\ In(t) \cap (1..n) \subseteq {i \in Live(K) : i <= n}
        /\ \A x \in Must(K, from) : x <= n => x \in In(t)
    BY <1>3, <1>1, UptoLinked
  <2> QED BY <2>1, <2>2, <2>3
<1>4. ChainTypes /\ ChainTypes'
  <2>1. ChainTypes
    BY DEF ChainTypes, Types
  <2>2. Ascends(eval) /\ Ascends(fdstack) /\ Ascends(varstack) /\ Ascends(source) /\ Ascends(sh)
    BY DEF ChainsOK, Linked
  <2>3. eval' \in Chain /\ fdstack' \in Chain /\ varstack' \in Chain
    BY <2>1, <2>2, <1>1, UptoIs DEF ChainTypes, Popped
  <2>4. source' \in Chain /\ sh' \in Chain
    BY <2>1, <2>2, <1>1, UptoIs DEF ChainTypes, Popped
  <2> QED BY <2>1, <2>3, <2>4 DEF ChainTypes
<1>5. Linked(eval, FrameKinds, 0)' /\ Within(eval, Size)'
  BY <1>1, <1>3, <1>4 DEF ChainTypes, ChainsOK, Linked, Popped
<1>6. Linked(fdstack, FdKinds, 0)' /\ Within(fdstack, Size)'
  BY <1>1, <1>3, <1>4 DEF ChainTypes, ChainsOK, Linked, Popped
<1>7. Linked(varstack, VarKinds, 0)' /\ Within(varstack, Size)'
  BY <1>1, <1>3, <1>4 DEF ChainTypes, ChainsOK, Linked, Popped
<1>8. Linked(source, SourceKinds, 0)' /\ Within(source, Size)'
  BY <1>1, <1>3, <1>4 DEF ChainTypes, ChainsOK, Linked, Popped
<1>9. Linked(sh, EnvKinds, ChildAt)' /\ Within(sh, Size)'
  BY <1>1, <1>2, <1>3, <1>4 DEF ChainTypes, ChainsOK, Linked, Popped
<1>10. \A a \in 1..Len(sh') : sh'[a] > ChildAt
  <2>1. In(sh') = {x \in In(sh) : x <= n}
    BY <1>1, <1>4, UptoIs DEF ChainTypes, ChainsOK, Linked, Popped
  <2> QED BY <2>1 DEF In, ChainsOK
<1>11. ASSUME NEW i \in Live(FrameKinds)', ~Gone(i)'
       PROVE  MarksOK(i)'
  <2>1. i \in Live(FrameKinds) /\ i \in 1..n /\ i \in 0..n
    BY <1>1, KeptLive, LiveIs
  <2>2. ~Gone(i)
    BY <2>1, <1>11
  <2>3. MarksOK(i)
    BY <2>1, <2>2 DEF ChainsOK
  <2>4. stack'[i].fd = stack[i].fd /\ stack'[i].var = stack[i].var /\ stack'[i].src = stack[i].src
    BY <1>1, <2>1 DEF Keeps
  <2>5. Ascends(fdstack) /\ Ascends(varstack) /\ Ascends(source)
    BY DEF ChainsOK, Linked
  <2>6. Marked(fdstack', i, stack[i].fd)
    BY <1>1, <1>4, <2>1, <2>3, <2>5, UptoIs DEF MarksOK, ChainTypes, Popped
  <2>7. Marked(varstack', i, stack[i].var)
    BY <1>1, <1>4, <2>1, <2>3, <2>5, UptoIs DEF MarksOK, ChainTypes, Popped
  <2>8. Marked(source', i, stack[i].src)
    BY <1>1, <1>4, <2>1, <2>3, <2>5, UptoIs DEF MarksOK, ChainTypes, Popped
  <2> QED BY <2>4, <2>6, <2>7, <2>8 DEF MarksOK
<1>12. ChainsOK'
  BY <1>2, <1>5, <1>6, <1>7, <1>8, <1>9, <1>10, <1>11 DEF ChainsOK
<1> QED BY <1>4, <1>12

LEMMA KeptShape ==
  ASSUME Types, ShapeOK, NEW n, Keeps(n), ChildAt <= n, In(sh)' \subseteq In(sh)
  PROVE  ShapeOK'
<1>1. Size \in Nat /\ n \in 0..Size /\ Size' = n
  BY SizeIs DEF Keeps, Size
<1>2. ChildAt' = ChildAt /\ ChildAt \in 0..Size
  BY <1>1, KeptChild, ChildIs
<1>3. ASSUME NEW i \in 1..n PROVE FrameOK(i)'
  <2>1. FrameOK(i)
    BY <1>1 DEF ShapeOK
  <2> QED BY <1>1, <1>2, <2>1 DEF FrameOK, Keeps
<1>4. ASSUME NEW j \in Live({"exittrap"})'
      PROVE  ThenOK(j, stack[j].then)' /\ \A i \in Live({"trap"})' : i < j
  <2>1. j \in Live({"exittrap"}) /\ j <= n /\ j \in 1..n
    BY <1>1, KeptLive, LiveIs
  <2>2. ThenOK(j, stack[j].then) /\ \A i \in Live({"trap"}) : i < j
    BY <2>1 DEF ShapeOK
  <2>3. PICK t : t = stack[j].then /\ t = stack'[j].then
    BY <2>1 DEF Keeps
  <2>4. ThenOK(j, t)
    BY <2>2, <2>3
  <2>5. /\ Live({"trap"})' = {i \in Live({"trap"}) : i <= n}
        /\ Live({"exittrap"})' = {i \in Live({"exittrap"}) : i <= n}
        /\ Live(FrameKinds)' = {i \in Live(FrameKinds) : i <= n}
        /\ Live(ShellKinds)' = {i \in Live(ShellKinds) : i <= n}
        /\ Live({"source"})' = {i \in Live({"source"}) : i <= n}
    BY KeptLive
  <2>6. Live(FrameKinds) \subseteq 1..Size
    BY LiveIs
  <2>7. ThenOK(j, t)'
    BY <2>1, <2>4, <2>5, <2>6, <1>1, <1>2 DEF ThenOK
  <2>8. ThenOK(j, stack[j].then)'
    BY <2>3, <2>7 DEF ThenOK
  <2> QED BY <2>2, <2>5, <2>8
<1> QED BY <1>1, <1>3, <1>4 DEF ShapeOK

-----------------------------------------------------------------------------
(* Entering activations: one is added, for a construct of kind k *)

Grown(k, t) ==
  /\ stack' \in Seq(FrameSet) /\ Len(stack') = Size + 1
  /\ \A i \in 1..Size : stack'[i] = stack[i]
  /\ stack'[Size + 1].kind = k /\ stack'[Size + 1].jump = (k \in JumpKinds)
  /\ stack'[Size + 1].flags = FlagsOf(k, Size + 1) /\ stack'[Size + 1].then = t
  /\ stack'[Size + 1].pending = 0 /\ stack'[Size + 1].async = sh_async_exit
  /\ stack'[Size + 1].fd = Len(fdstack') /\ stack'[Size + 1].var = Len(varstack')
  /\ stack'[Size + 1].src = Len(source')

LEMMA PushFrame ==
  ASSUME Types, NEW k \in Kinds, NEW t \in Ctls, eval_push(k, t)
  PROVE  Grown(k, t) /\ ChainTypes'
<1>1. Size \in Nat /\ stack \in Seq(FrameSet)
  BY SizeIs DEF Types
<1>2. ChainTypes'
  <2>1. ASSUME NEW s \in Chain, NEW K PROVE Pushed(s, K, k) \in Chain
    BY <1>1 DEF Pushed, Chain
  <2> QED BY <2>1 DEF Types, ChainTypes, eval_push
<1>3. PICK f : f = [kind |-> k,
        flags |-> (IF k \in FrameKinds THEN FrameFlags[k] ELSE {})
                  \cup (IF k = "line" /\ stack # <<>> THEN {"EVAL"} ELSE {}),
        jump |-> k \in JumpKinds, dtor |-> FALSE, pending |-> 0, pendcont |-> FALSE,
        fd |-> Len(fdstack'), var |-> Len(varstack'), src |-> Len(source'),
        traps |-> exit_trap, async |-> sh_async_exit, then |-> t]
  OBVIOUS
<1>4. stack' = Append(stack, f)
  BY <1>3 DEF eval_push
<1>5. stack # <<>> <=> Size + 1 > 1
  BY <1>1 DEF Size
<1>6. f.flags = FlagsOf(k, Size + 1)
  BY <1>3, <1>5 DEF FlagsOf
<1>7. f.flags \in SUBSET FlagNames
  BY <1>6, FlagsAre
<1>8. /\ f.kind = k /\ f.jump = (k \in JumpKinds) /\ f.dtor = FALSE /\ f.pending = 0 /\ f.then = t
      /\ f.fd = Len(fdstack') /\ f.var = Len(varstack') /\ f.src = Len(source') /\ f.async = sh_async_exit
  BY <1>3
<1>9. Len(fdstack') \in Nat /\ Len(varstack') \in Nat /\ Len(source') \in Nat
  BY <1>2 DEF ChainTypes, Chain
<1>10. (k \in JumpKinds) \in BOOLEAN /\ sh_async_exit \in BOOLEAN /\ exit_trap \in Traps
  BY DEF Types
<1>11. f \in FrameSet
  BY <1>3, <1>7, <1>9, <1>10 DEF FrameSet
<1>12. /\ stack' \in Seq(FrameSet) /\ Len(stack') = Size + 1 /\ stack'[Size + 1] = f
       /\ \A i \in 1..Size : stack'[i] = stack[i]
  BY <1>1, <1>4, <1>11 DEF Size
<1> QED BY <1>2, <1>6, <1>8, <1>12 DEF Grown

LEMMA GrownLive ==
  ASSUME Types, NEW k, NEW t, Grown(k, t), NEW K
  PROVE  Live(K)' = Live(K) \cup (IF k \in K THEN {Size + 1} ELSE {})
<1>1. Size \in Nat /\ Size' = Size + 1
  BY SizeIs DEF Grown, Size
<1>2. /\ \A i \in 1..Size : stack'[i].kind = stack[i].kind
      /\ stack'[Size + 1].kind = k
  BY DEF Grown
<1>3. Live(K)' = {i \in 1..(Size + 1) : stack'[i].kind \in K}
  BY <1>1 DEF Live
<1> QED BY <1>1, <1>2, <1>3 DEF Live

LEMMA GrownChild ==
  ASSUME Types, NEW k, NEW t, Grown(k, t), k # "child"
  PROVE  ChildAt' = ChildAt
<1>1. Live({"child"})' = Live({"child"})
  BY GrownLive
<1> QED BY <1>1 DEF ChildAt

LEMMA GrownDoom ==
  ASSUME Types, NEW k, NEW t, Grown(k, t), NEW i \in 1..Size
  PROVE  /\ Doomed(i) => Doomed(i)'
         /\ k = "exittrap" /\ (t.op = "done" \/ (t.op = "unwind" /\ i > t.n)) => Doomed(i)'
<1>1. Size \in Nat
  BY SizeIs
<1>2. Live({"exittrap"})' = Live({"exittrap"}) \cup (IF k \in {"exittrap"} THEN {Size + 1} ELSE {})
  BY GrownLive
<1>3. Doomed(i)' <=> \E j \in Live({"exittrap"})' :
         i < j /\ ((stack'[j].then.op = "unwind" /\ i > stack'[j].then.n) \/ stack'[j].then.op = "done")
  BY Zenon DEF Doomed
<1>4. Doomed(i) <=> \E j \in Live({"exittrap"}) :
         i < j /\ ((stack[j].then.op = "unwind" /\ i > stack[j].then.n) \/ stack[j].then.op = "done")
  BY Zenon DEF Doomed
<1>5. Doomed(i) => Doomed(i)'
  BY <1>1, <1>2, <1>3, <1>4, LiveIs DEF Grown
<1>6. ASSUME k = "exittrap", t.op = "done" \/ (t.op = "unwind" /\ i > t.n) PROVE Doomed(i)'
  <2>1. Size + 1 \in Live({"exittrap"})' /\ stack'[Size + 1].then = t /\ i < Size + 1
    BY <1>1, <1>2, <1>6 DEF Grown
  <2> QED BY <2>1, <1>6, <1>3
<1> QED BY <1>5, <1>6

LEMMA PushChains ==
  ASSUME Types, ChainsOK, ~Pending, NEW k \in Kinds, k # "child", NEW t \in Ctls, eval_push(k, t),
         \A i \in 1..Size : Gone(i) => Gone(i)'
  PROVE  ChainsOK'
<1>1. Size \in Nat /\ Grown(k, t) /\ Size' = Size + 1 /\ ChainTypes
  BY SizeIs, PushFrame DEF Grown, Size, Types, ChainTypes
<1>2. ChildAt' = ChildAt /\ ChildAt \in 0..Size
  BY <1>1, GrownChild, ChildIs
<1>3. ASSUME NEW K, NEW from, NEW s \in Chain, NEW u, Ascends(s), In(s) \cap (1..Size) \subseteq Live(K),
             Must(K, from) \subseteq In(s), Within(s, Size), u = Pushed(s, K, k)
      PROVE  /\ Ascends(u) /\ Within(u, Size + 1) /\ In(u) \cap (1..(Size + 1)) \subseteq Live(K)'
             /\ Must(K, from)' \subseteq In(u) /\ Marked(u, Size + 1, Len(u))
             /\ In(u) = In(s) \cup (IF k \in K THEN {Size + 1} ELSE {})
             /\ \A m : \A i \in 0..Size : Marked(s, i, m) => Marked(u, i, m)
  <2>1. Live(K)' = Live(K) \cup (IF k \in K THEN {Size + 1} ELSE {}) /\ Live(K) \subseteq 1..Size
    BY <1>1, GrownLive, LiveIs
  <2>2. /\ Ascends(u) /\ Within(u, Size + 1)
        /\ In(u) = In(s) \cup (IF k \in K THEN {Size + 1} ELSE {}) /\ Marked(u, Size + 1, Len(u))
        /\ \A m : \A i \in 0..Size : Marked(s, i, m) => Marked(u, i, m)
    <3>1. (k \in K) \in BOOLEAN /\ u = IF k \in K THEN Append(s, Size + 1) ELSE s
      BY <1>3 DEF Pushed
    <3> QED BY <3>1, <1>1, <1>3, PushIs
  <2>3. \A i \in Must(K, from)' : i \in Must(K, from) \/ (k \in K /\ i = Size + 1)
    BY <2>1 DEF Must
  <2>4. In(u) \cap (1..(Size + 1)) \subseteq Live(K)'
    <3>1. \A x \in In(s) : x <= Size
      BY <1>3 DEF In, Within
    <3> QED BY <3>1, <2>1, <2>2, <1>1, <1>3
  <2>5. Must(K, from)' \subseteq In(u)
    BY <2>2, <2>3, <1>3
  <2> QED BY <2>2, <2>4, <2>5
<1>4. /\ eval' = Pushed(eval, FrameKinds, k) /\ fdstack' = Pushed(fdstack, FdKinds, k)
      /\ varstack' = Pushed(varstack, VarKinds, k) /\ source' = Pushed(source, SourceKinds, k)
      /\ sh' = Pushed(sh, EnvKinds, k)
  BY DEF eval_push
<1>5. Linked(eval, FrameKinds, 0)' /\ Within(eval, Size)'
  <2>1. /\ eval \in Chain /\ Ascends(eval) /\ In(eval) \cap (1..Size) \subseteq Live(FrameKinds)
        /\ Must(FrameKinds, 0) \subseteq In(eval) /\ Within(eval, Size) /\ eval' = Pushed(eval, FrameKinds, k)
    BY <1>1, <1>4 DEF ChainTypes, ChainsOK, Linked
  <2>2. /\ Ascends(eval') /\ Within(eval', Size + 1) /\ In(eval') \cap (1..(Size + 1)) \subseteq Live(FrameKinds)'
        /\ Must(FrameKinds, 0)' \subseteq In(eval')
    BY <2>1, <1>3
  <2> QED BY <2>2, <1>1 DEF Linked
<1>6. /\ Linked(fdstack, FdKinds, 0)' /\ Within(fdstack, Size)' /\ Marked(fdstack', Size + 1, Len(fdstack'))
      /\ \A m : \A i \in 0..Size : Marked(fdstack, i, m) => Marked(fdstack', i, m)
  <2>1. /\ fdstack \in Chain /\ Ascends(fdstack) /\ In(fdstack) \cap (1..Size) \subseteq Live(FdKinds)
        /\ Must(FdKinds, 0) \subseteq In(fdstack) /\ Within(fdstack, Size) /\ fdstack' = Pushed(fdstack, FdKinds, k)
    BY <1>1, <1>4 DEF ChainTypes, ChainsOK, Linked
  <2>2. /\ Ascends(fdstack') /\ Within(fdstack', Size + 1) /\ In(fdstack') \cap (1..(Size + 1)) \subseteq Live(FdKinds)'
        /\ Must(FdKinds, 0)' \subseteq In(fdstack')
        /\ Marked(fdstack', Size + 1, Len(fdstack'))
        /\ \A m : \A i \in 0..Size : Marked(fdstack, i, m) => Marked(fdstack', i, m)
    BY <2>1, <1>3
  <2> QED BY <2>2, <1>1 DEF Linked
<1>7. /\ Linked(varstack, VarKinds, 0)' /\ Within(varstack, Size)' /\ Marked(varstack', Size + 1, Len(varstack'))
      /\ \A m : \A i \in 0..Size : Marked(varstack, i, m) => Marked(varstack', i, m)
  <2>1. /\ varstack \in Chain /\ Ascends(varstack) /\ In(varstack) \cap (1..Size) \subseteq Live(VarKinds)
        /\ Must(VarKinds, 0) \subseteq In(varstack) /\ Within(varstack, Size) /\ varstack' = Pushed(varstack, VarKinds, k)
    BY <1>1, <1>4 DEF ChainTypes, ChainsOK, Linked
  <2>2. /\ Ascends(varstack') /\ Within(varstack', Size + 1) /\ In(varstack') \cap (1..(Size + 1)) \subseteq Live(VarKinds)'
        /\ Must(VarKinds, 0)' \subseteq In(varstack')
        /\ Marked(varstack', Size + 1, Len(varstack'))
        /\ \A m : \A i \in 0..Size : Marked(varstack, i, m) => Marked(varstack', i, m)
    BY <2>1, <1>3
  <2> QED BY <2>2, <1>1 DEF Linked
<1>8. /\ Linked(source, SourceKinds, 0)' /\ Within(source, Size)' /\ Marked(source', Size + 1, Len(source'))
      /\ \A m : \A i \in 0..Size : Marked(source, i, m) => Marked(source', i, m)
  <2>1. /\ source \in Chain /\ Ascends(source) /\ In(source) \cap (1..Size) \subseteq Live(SourceKinds)
        /\ Must(SourceKinds, 0) \subseteq In(source) /\ Within(source, Size) /\ source' = Pushed(source, SourceKinds, k)
    BY <1>1, <1>4 DEF ChainTypes, ChainsOK, Linked
  <2>2. /\ Ascends(source') /\ Within(source', Size + 1) /\ In(source') \cap (1..(Size + 1)) \subseteq Live(SourceKinds)'
        /\ Must(SourceKinds, 0)' \subseteq In(source')
        /\ Marked(source', Size + 1, Len(source'))
        /\ \A m : \A i \in 0..Size : Marked(source, i, m) => Marked(source', i, m)
    BY <2>1, <1>3
  <2> QED BY <2>2, <1>1 DEF Linked
<1>9. /\ Linked(sh, EnvKinds, ChildAt)' /\ Within(sh, Size)'
      /\ In(sh') = In(sh) \cup (IF k \in EnvKinds THEN {Size + 1} ELSE {})
  <2>1. /\ sh \in Chain /\ Ascends(sh) /\ In(sh) \cap (1..Size) \subseteq Live(EnvKinds)
        /\ Must(EnvKinds, ChildAt) \subseteq In(sh) /\ Within(sh, Size) /\ sh' = Pushed(sh, EnvKinds, k)
    BY <1>1, <1>4 DEF ChainTypes, ChainsOK, Linked
  <2>2. PICK c : c = ChildAt
    OBVIOUS
  <2>3. /\ Ascends(sh') /\ Within(sh', Size + 1) /\ In(sh') \cap (1..(Size + 1)) \subseteq Live(EnvKinds)'
        /\ Must(EnvKinds, c)' \subseteq In(sh')
        /\ In(sh') = In(sh) \cup (IF k \in EnvKinds THEN {Size + 1} ELSE {})
    BY <2>1, <2>2, <1>3
  <2> QED BY <2>2, <2>3, <1>1, <1>2 DEF Linked, Must
<1>10. \A a \in 1..Len(sh') : sh'[a] > ChildAt
  <2>1. \A x \in In(sh) : x > ChildAt
    BY DEF In, ChainsOK
  <2>2. \A x \in In(sh') : x > ChildAt
    BY <1>1, <1>2, <1>9, <2>1
  <2> QED BY <2>2 DEF In
<1>11. ASSUME NEW i \in Live(FrameKinds)', ~Gone(i)'
       PROVE  MarksOK(i)'
  <2>1. Live(FrameKinds) \subseteq 1..Size
        /\ Live(FrameKinds)' = Live(FrameKinds) \cup (IF k \in FrameKinds THEN {Size + 1} ELSE {})
    BY <1>1, LiveIs, GrownLive
  <2>2. CASE i = Size + 1
    BY <1>1, <1>6, <1>7, <1>8, <2>2 DEF MarksOK, Grown
  <2>3. CASE i # Size + 1
    <3>1. i \in Live(FrameKinds) /\ i \in 1..Size /\ i \in 0..Size
      BY <1>1, <2>1, <2>3
    <3>2. MarksOK(i)
      BY <3>1, <1>11 DEF ChainsOK
    <3>3. stack'[i] = stack[i]
      BY <1>1, <3>1 DEF Grown
    <3> QED BY <1>6, <1>7, <1>8, <3>1, <3>2, <3>3 DEF MarksOK
  <2> QED BY <2>2, <2>3
<1> QED BY <1>2, <1>5, <1>6, <1>7, <1>8, <1>9, <1>10, <1>11 DEF ChainsOK

LEMMA GrownShape ==
  ASSUME Types, ShapeOK, NEW k \in Kinds, k # "child", NEW t, Grown(k, t),
         In(sh)' \subseteq In(sh) \cup {Size + 1},
         k = "source" => k \in Constructs, k = "trap" => Quiet,
         k = "exittrap" => /\ t \in {Done, Do("leave")} \/ t.op = "unwind"
                           /\ t.op = "unwind" => /\ t.how \in {"exit", "return"} /\ t.n \in Live(FrameKinds)
                                                 /\ t.n > ChildAt
                                                 /\ (t.n = Size /\ t.n \in Live({"source"})) \/ Quiet
                                                 /\ \A i \in Live(ShellKinds) : i <= t.n
                                                 /\ \A x \in In(sh) : x <= t.n
  PROVE  ShapeOK'
<1>1. Size \in Nat /\ Size' = Size + 1
  BY SizeIs DEF Grown, Size
<1>2. ChildAt' = ChildAt /\ ChildAt \in 0..Size
  BY GrownChild, ChildIs
<1>3. ASSUME NEW i \in 1..(Size + 1) PROVE FrameOK(i)'
  <2>1. CASE i = Size + 1
    <3>1. /\ stack'[i].kind = k /\ stack'[i].jump = (k \in JumpKinds) /\ stack'[i].flags = FlagsOf(k, i)
          /\ i > ChildAt'
      BY <2>1, <1>1, <1>2 DEF Grown
    <3> QED BY <3>1 DEF FrameOK
  <2>2. CASE i \in 1..Size
    <3>1. FrameOK(i)
      BY <2>2 DEF ShapeOK
    <3>2. stack'[i] = stack[i]
      BY <2>2 DEF Grown
    <3> QED BY <3>1, <3>2, <1>2 DEF FrameOK
  <2> QED BY <2>1, <2>2, <1>1
<1>4. /\ Live({"trap"})' = Live({"trap"}) \cup (IF k = "trap" THEN {Size + 1} ELSE {})
      /\ Live({"exittrap"})' = Live({"exittrap"}) \cup (IF k = "exittrap" THEN {Size + 1} ELSE {})
      /\ Live(FrameKinds) \subseteq Live(FrameKinds)'
      /\ Live({"source"}) \subseteq Live({"source"})'
      /\ Live(ShellKinds)' \subseteq Live(ShellKinds) \cup (IF k \in ShellKinds THEN {Size + 1} ELSE {})
  BY GrownLive
<1>5. \A K : Live(K) \subseteq 1..Size
  BY LiveIs
<1>6. ASSUME NEW j \in Live({"exittrap"})'
      PROVE  ThenOK(j, stack[j].then)' /\ \A i \in Live({"trap"})' : i < j
  <2>1. CASE j = Size + 1
    <3>1. k = "exittrap" /\ stack'[j].then = t
      BY <2>1, <1>1, <1>4, <1>5 DEF Grown
    <3>2. \A i \in Live({"trap"})' : i < j
      BY <1>1, <1>4, <1>5, <2>1, <3>1
    <3>3. \A i \in Live(ShellKinds)' : i \in Live(ShellKinds)
      BY <1>4, <3>1 DEF ShellKinds
    <3>4. t.op = "unwind" => Size \in Nat /\ t.n \in 1..Size /\ (Quiet => \A i \in Live({"exittrap"})' : i >= j)
      BY <1>1, <1>4, <1>5, <2>1, <3>1 DEF Quiet
    <3>5. ThenOK(j, t)'
      <4>1. t \in {Done, Do("leave")} \/ t.op = "unwind"
        BY <3>1
      <4>2. ASSUME t.op = "unwind"
            PROVE  /\ t.how \in {"exit", "return"} /\ t.n \in Live(FrameKinds)' /\ t.n < j
                   /\ ChildAt' < j => t.n > ChildAt'
                   /\ (t.n = j - 1 /\ t.n \in Live({"source"})') \/ \A i \in Live({"exittrap"})' : i >= j
                   /\ \A i \in Live(ShellKinds)' : i <= t.n \/ i > j
                   /\ \A x \in In(sh') : x <= t.n \/ x >= j
        <5>1. /\ t.how \in {"exit", "return"} /\ t.n \in Live(FrameKinds)' /\ t.n < j
              /\ ChildAt' < j => t.n > ChildAt'
          BY <4>2, <3>1, <3>4, <2>1, <1>2, <1>4
        <5>2. (t.n = j - 1 /\ t.n \in Live({"source"})') \/ \A i \in Live({"exittrap"})' : i >= j
          BY <4>2, <3>1, <3>4, <2>1, <1>1, <1>4
        <5>3. \A i \in Live(ShellKinds)' : i <= t.n \/ i > j
          BY <4>2, <3>1, <3>3
        <5>4. \A x \in In(sh') : x <= t.n \/ x >= j
          BY <4>2, <3>1, <2>1, <1>1
        <5> QED BY <5>1, <5>2, <5>3, <5>4
      <4> QED BY <4>1, <4>2 DEF ThenOK
    <3>6. ThenOK(j, stack[j].then)'
      BY <3>1, <3>5 DEF ThenOK
    <3> QED BY <3>2, <3>6
  <2>2. CASE j # Size + 1
    <3>1. j \in Live({"exittrap"}) /\ j \in 1..Size
      BY <2>2, <1>4, <1>5
    <3>2. ThenOK(j, stack[j].then) /\ \A i \in Live({"trap"}) : i < j
      BY <3>1 DEF ShapeOK
    <3>3. PICK u : u = stack[j].then /\ u = stack'[j].then
      BY <3>1 DEF Grown
    <3>4. ThenOK(j, u)
      BY <3>2, <3>3
    <3>5. ThenOK(j, u)'
      <4>1. /\ u \in {Done, Do("leave")} \/ u.op = "unwind"
        BY <3>4 DEF ThenOK
      <4>2. ASSUME u.op = "unwind"
            PROVE  /\ u.how \in {"exit", "return"} /\ u.n \in Live(FrameKinds)' /\ u.n < j
                   /\ ChildAt' < j => u.n > ChildAt'
                   /\ (u.n = j - 1 /\ u.n \in Live({"source"})') \/ \A i \in Live({"exittrap"})' : i >= j
                   /\ \A i \in Live(ShellKinds)' : i <= u.n \/ i > j
                   /\ \A x \in In(sh') : x <= u.n \/ x >= j
        <5>1. /\ u.how \in {"exit", "return"} /\ u.n \in Live(FrameKinds)' /\ u.n < j
              /\ ChildAt' < j => u.n > ChildAt'
          BY <4>2, <3>4, <1>2, <1>4 DEF ThenOK
        <5>2. (u.n = j - 1 /\ u.n \in Live({"source"})') \/ \A i \in Live({"exittrap"})' : i >= j
          BY <4>2, <3>1, <3>4, <1>1, <1>4 DEF ThenOK
        <5>3. \A i \in Live(ShellKinds)' : i <= u.n \/ i > j
          BY <4>2, <3>1, <3>4, <1>1, <1>4 DEF ThenOK
        <5>4. \A x \in In(sh') : x <= u.n \/ x >= j
          BY <4>2, <3>1, <3>4, <1>1 DEF ThenOK
        <5> QED BY <5>1, <5>2, <5>3, <5>4
      <4> QED BY <4>1, <4>2 DEF ThenOK
    <3>6. ThenOK(j, stack[j].then)'
      BY <3>3, <3>5 DEF ThenOK
    <3>7. \A i \in Live({"trap"})' : i < j
      BY <3>1, <3>2, <1>4 DEF Quiet
    <3> QED BY <3>6, <3>7
  <2> QED BY <2>1, <2>2
<1> QED BY <1>1, <1>3, <1>6 DEF ShapeOK

-----------------------------------------------------------------------------
(* Leaving activations, by their own end and by a jump *)

LEMMA HeadIs ==
  ASSUME NEW S, NEW s \in Seq(S), NEW n \in 0..Len(s)
  PROVE  SubSeq(s, 1, n) \in Seq(S) /\ Len(SubSeq(s, 1, n)) = n /\ \A i \in 1..n : SubSeq(s, 1, n)[i] = s[i]
<1>1. n \in Nat /\ n <= Len(s) /\ \A i \in 1..n : s[i] \in S
  OBVIOUS
<1> QED BY <1>1, SubSeqProperties

LEMMA CutChain ==
  ASSUME NEW s \in Chain, NEW n \in Nat
  PROVE  Cut(s, n) \in Chain
<1> DEFINE m == IF n < Len(s) THEN n ELSE Len(s)
<1>1. m \in 0..Len(s)
  BY DEF Chain
<1>2. SubSeq(s, 1, m) \in Chain
  BY <1>1, HeadIs DEF Chain
<1> QED BY <1>2 DEF Cut

LEMMA UnderChain ==
  ASSUME NEW s \in Chain, NEW n
  PROVE  Under(s, n) \in Chain
<1> DEFINE S == {0} \cup {k \in 1..Len(s) : s[k] < n}
<1>1. S \in SUBSET (0..Len(s)) /\ S # {} /\ Len(s) \in Nat
  BY DEF Chain
<1>2. Highest(S) \in 0..Len(s)
  BY <1>1, HighestOf
<1>3. SubSeq(s, 1, Highest(S)) \in Chain
  BY <1>2, HeadIs DEF Chain
<1> QED BY <1>3 DEF Under

LEMMA IfTopChain ==
  ASSUME NEW s \in Chain
  PROVE  IfTop(s) \in Chain
<1>1. CASE s # <<>>
  <2>1. Len(s) - 1 \in 0..Len(s)
    BY <1>1 DEF Chain
  <2>2. SubSeq(s, 1, Len(s) - 1) \in Chain
    BY <2>1, HeadIs DEF Chain
  <2> QED BY <2>2 DEF IfTop
<1> QED BY <1>1 DEF IfTop

(* The end of the topmost activation, and a jump to frame i, keep the rest *)
(* of the stack and the chain of frames.                                   *)
Falls(n) == /\ Keeps(n) /\ stack' \in Seq(FrameSet) /\ ChainTypes' /\ Upto(eval, n, eval')
            /\ \A i \in 1..n : stack'[i].pending = stack[i].pending

LEMMA PopFalls ==
  ASSUME Types, Safe, Size > 0, eval_pop
  PROVE  Falls(Size - 1)
<1>1. Size \in Nat /\ stack \in Seq(FrameSet) /\ Size - 1 \in 0..Size /\ Size = Len(stack) /\ Size - 1 \in Nat
  BY SizeIs DEF Types, Size
<1>2. stack' = SubSeq(stack, 1, Size - 1)
  BY DEF eval_pop
<1>3. /\ stack' \in Seq(FrameSet) /\ Len(stack') = Size - 1
      /\ \A i \in 1..(Size - 1) : stack'[i] = stack[i]
  BY <1>1, <1>2, HeadIs
<1>4. Keeps(Size - 1)
  BY <1>1, <1>3 DEF Keeps
<1>5. Top \in FrameSet
  BY <1>1 DEF Top
<1>6. Top.fd \in Nat /\ Top.var \in Nat /\ Top.src \in Nat
  BY <1>5 DEF FrameSet
<1>7. ASSUME NEW s \in Chain, NEW m \in Nat PROVE Dropped(s, m) \in Chain
  BY CutChain, UnderChain DEF Dropped
<1>8. ChainTypes'
  BY <1>6, <1>7, IfTopChain, UnderChain DEF ChainTypes, Types, eval_pop
<1>9. Upto(eval, Size - 1, eval')
  <2>1. eval' = Under(eval, (Size - 1) + 1) /\ eval \in Chain /\ Ascends(eval)
    BY <1>1 DEF eval_pop, Types, Safe
  <2> QED BY <1>1, <2>1, UnderIs
<1> QED BY <1>3, <1>4, <1>8, <1>9 DEF Falls

LEMMA LeapFalls ==
  ASSUME Types, Safe, NEW i \in 1..Size, NEW how, Leap(i, how), UNCHANGED sh
  PROVE  Falls(i)
<1>1. Size \in Nat /\ stack \in Seq(FrameSet) /\ i \in 0..Size /\ Size = Len(stack) /\ i \in Nat
  BY SizeIs DEF Types, Size
<1>2. stack' = SubSeq(stack, 1, i)
  BY DEF Leap
<1>3. stack' \in Seq(FrameSet) /\ Len(stack') = i /\ \A h \in 1..i : stack'[h] = stack[h]
  BY <1>1, <1>2, HeadIs
<1>4. Keeps(i)
  BY <1>1, <1>3 DEF Keeps
<1>5. stack[i] \in FrameSet
  BY <1>1
<1>6. stack[i].fd \in Nat /\ stack[i].var \in Nat /\ stack[i].src \in Nat
  BY <1>5 DEF FrameSet
<1>7. ChainTypes'
  BY <1>6, CutChain, UnderChain DEF ChainTypes, Types, Leap
<1>8. Upto(eval, i, eval')
  BY <1>1, UnderIs DEF Leap, Types, Safe
<1> QED BY <1>3, <1>4, <1>7, <1>8 DEF Falls

(* When the frame's marks are right, the scopes go with the activations.   *)
LEMMA PopPopped ==
  ASSUME Types, Safe, ChainsOK, Size > 0, ~Gone(Size), Pending => Top.kind = "source", eval_pop
  PROVE  Popped(Size - 1)
<1>1. Size \in Nat /\ Size - 1 \in Nat /\ Size \in 1..Size /\ Size \in Nat \ {0} /\ Falls(Size - 1)
  BY SizeIs, PopFalls
<1>2. ASSUME NEW s \in Chain, Ascends(s), NEW m, Top.kind \in FrameKinds => Marked(s, Size, m)
      PROVE  Upto(s, Size - 1, Dropped(s, m))
  <2>1. CASE Top.kind \in FrameKinds
    <3>1. PICK t : t = Cut(s, m)
      OBVIOUS
    <3>2. Upto(s, Size, t)
      BY <1>1, <1>2, <2>1, <3>1, CutIs
    <3>3. t \in Chain /\ Ascends(t)
      BY <1>1, <1>2, <3>2, UptoIs
    <3>4. Upto(t, Size - 1, Under(t, Size - 1 + 1)) /\ Size - 1 + 1 = Size
      BY <1>1, <3>3, UnderIs
    <3>5. Upto(s, Size - 1, Under(t, Size))
      BY <1>1, <1>2, <3>2, <3>4, UptoTwice
    <3> QED BY <2>1, <3>1, <3>5 DEF Dropped
  <2>2. CASE Top.kind \notin FrameKinds
    <3>1. Upto(s, Size - 1, Under(s, Size - 1 + 1)) /\ Size - 1 + 1 = Size
      BY <1>1, <1>2, UnderIs
    <3> QED BY <2>2, <3>1 DEF Dropped
  <2> QED BY <2>1, <2>2
<1>3. Top.kind \in FrameKinds => MarksOK(Size)
  BY <1>1 DEF ChainsOK, Live, Top
<1>4. /\ fdstack \in Chain /\ varstack \in Chain /\ source \in Chain /\ sh \in Chain
      /\ Ascends(fdstack) /\ Ascends(varstack) /\ Ascends(source) /\ Ascends(sh) /\ Within(sh, Size)
  BY DEF Types, ChainsOK, Linked
<1>5. Upto(fdstack, Size - 1, fdstack') /\ Upto(source, Size - 1, source')
  BY <1>2, <1>3, <1>4 DEF MarksOK, Top, eval_pop
<1>6. Upto(sh, Size - 1, sh')
  BY <1>1, <1>4, IfTopIs DEF eval_pop, IfTop
<1>7. Upto(varstack, Size - 1, varstack')
  <2>1. CASE Top.kind = "prefix"
    <3>1. Within(varstack, Size)
      BY <2>1 DEF ChainsOK
    <3> QED BY <1>1, <1>4, <2>1, <3>1, IfTopIs DEF eval_pop, IfTop
  <2>2. CASE Top.kind # "prefix"
    BY <1>2, <1>3, <1>4, <2>2 DEF MarksOK, Top, eval_pop
  <2> QED BY <2>1, <2>2
<1> QED BY <1>1, <1>5, <1>6, <1>7 DEF Popped, Falls

LEMMA LeapPopped ==
  ASSUME Types, Safe, ChainsOK, NEW i \in Live(FrameKinds), ~Gone(i), Within(sh, i), NEW how, Leap(i, how),
         UNCHANGED sh
  PROVE  Popped(i)
<1>1. Size \in Nat /\ i \in 1..Size /\ i \in Nat /\ Falls(i)
  BY SizeIs, LiveIs, LeapFalls
<1>2. MarksOK(i)
  BY DEF ChainsOK
<1>3. fdstack \in Chain /\ varstack \in Chain /\ source \in Chain /\ sh \in Chain
  BY DEF Types
<1>4. Upto(fdstack, i, fdstack') /\ Upto(varstack, i, varstack') /\ Upto(source, i, source')
  BY <1>1, <1>2, <1>3, CutIs DEF MarksOK, Leap
<1>5. Upto(sh, i, sh')
  BY <1>1, <1>3, UptoAll
<1> QED BY <1>1, <1>4, <1>5 DEF Popped, Falls

(* A step that leaves stack and chains alone.                              *)
Stays == Keeps(Size) /\ stack' \in Seq(FrameSet) /\ UNCHANGED chains

LEMMA StayPopped ==
  ASSUME Types, Safe, ChainsOK, ~Pending, Stays
  PROVE  Popped(Size)
<1>1. Size \in Nat /\ ChainTypes
  BY SizeIs DEF Types, ChainTypes
<1>2. /\ Within(eval, Size) /\ Within(fdstack, Size) /\ Within(varstack, Size) /\ Within(source, Size)
      /\ Within(sh, Size)
  BY DEF ChainsOK
<1>3. Upto(eval, Size, eval') /\ Upto(fdstack, Size, fdstack') /\ Upto(varstack, Size, varstack')
  BY <1>1, <1>2, UptoAll DEF ChainTypes, Stays, chains
<1>4. Upto(source, Size, source') /\ Upto(sh, Size, sh')
  BY <1>1, <1>2, UptoAll DEF ChainTypes, Stays, chains
<1> QED BY <1>3, <1>4 DEF Popped, Stays

LEMMA StaysIs ==
  ASSUME Types, UNCHANGED <<stack, chains>>
  PROVE  Stays
<1>1. Size \in Nat /\ Size \in 0..Size /\ stack' = stack
  BY SizeIs
<1> QED BY <1>1 DEF Stays, Keeps, Types, Size

-----------------------------------------------------------------------------
(* Kinds of steps *)

One(b) == IF b THEN 1 ELSE 0
(* A construct is entered.                                                 *)
Opening(k) ==
  /\ eval_push(k, Run) /\ k \in Kinds \ {"child", "exittrap"} /\ (k = "source" => k \in Constructs)
  /\ k = "trap" => ~InTrap
  /\ k = "cond" => ctl.op = "test"
  /\ ctl = Run \/ ctl.op = "test"
  /\ ctl' \in {Run, Do("test")}
  /\ exit_trap' = exit_trap
  /\ k = "trap" => sh_async_exit' = TRUE
  /\ k # "trap" => sh_async_exit' = sh_async_exit
  /\ functions_running' = functions_running + One(k = "function")
  /\ errexit_suppress' = errexit_suppress + One(k \in TestKinds)
  /\ exec_subshell_depth' = exec_subshell_depth + One(k \in ShellKinds)
  /\ sh_subshell' = sh_subshell + One(k \in ShellKinds)
Opens == \E k : Opening(k)

LEMMA OpensIs ==
  ASSUME Types, Safe,
         \/ sh_loop \/ eval_command \/ prefix_scope \/ eval_pipeline \/ builtin_eval \/ builtin_source \/ eval_for
         \/ eval_loop \/ loop_test \/ eval_if \/ exec_function \/ eval_subshell \/ trap_handler,
         errexit_suppress \in Nat, functions_running \in Nat, exec_subshell_depth \in Nat, sh_subshell \in Nat
  PROVE  Opens
<1> USE DEF Opening, One, TestKinds, ShellKinds
<1>1. ASSUME NEW k \in {"line", "redir", "prefix", "pipe", "eval", "for", "source"}, eval_push(k, Run), ctl = Run,
             k = "source" => k \in Constructs, UNCHANGED <<counters, traps, ctl>>
      PROVE  Opening(k)
  <2>1. k \in Kinds
    BY KindsAre
  <2>2. /\ functions_running' = functions_running /\ errexit_suppress' = errexit_suppress
        /\ exec_subshell_depth' = exec_subshell_depth /\ sh_subshell' = sh_subshell
        /\ exit_trap' = exit_trap /\ sh_async_exit' = sh_async_exit /\ ctl' = ctl /\ sh_async_exit \in BOOLEAN
    BY <1>1 DEF counters, traps, Types
  <2> QED BY <1>1, <2>1, <2>2
<1>2. CASE sh_loop
  BY <1>1, <1>2 DEF sh_loop, Opens
<1>3. CASE eval_command
  BY <1>1, <1>3 DEF eval_command, Enter, Commands, Opens
<1>4. CASE prefix_scope
  BY <1>1, <1>4 DEF prefix_scope, Enter, Commands, Opens
<1>5. CASE eval_pipeline
  BY <1>1, <1>5 DEF eval_pipeline, Enter, Commands, Opens
<1>6. CASE builtin_eval
  BY <1>1, <1>6 DEF builtin_eval, Enter, Commands, Opens
<1>7. CASE builtin_source
  BY <1>1, <1>7 DEF builtin_source, Enter, Commands, Opens
<1>8. CASE eval_for
  BY <1>1, <1>8 DEF eval_for, Enter, Commands, Opens
<1>9. sh_async_exit \in BOOLEAN
  BY DEF Types
<1>10. CASE eval_loop
  <2>1. Opening("while")
    BY <1>9, <1>10, KindsAre DEF eval_loop, Enter, Commands, counters, traps
  <2> QED BY <2>1 DEF Opens
<1>11. CASE loop_test
  <2>1. Opening("cond")
    BY <1>9, <1>11, KindsAre DEF loop_test, traps
  <2> QED BY <2>1 DEF Opens
<1>12. CASE eval_if
  <2>1. Opening("test")
    BY <1>9, <1>12, KindsAre DEF eval_if, Enter, Commands, traps
  <2> QED BY <2>1 DEF Opens
<1>13. CASE exec_function
  <2>1. Opening("function")
    BY <1>9, <1>13, KindsAre DEF exec_function, Enter, Commands, traps
  <2> QED BY <2>1 DEF Opens
<1>14. CASE eval_subshell
  <2>1. PICK k \in ShellKinds : Enter(k)
    BY <1>14 DEF eval_subshell
  <2>2. Opening(k)
    BY <1>9, <1>14, <2>1, KindsAre DEF eval_subshell, Enter, Commands, traps
  <2> QED BY <2>2 DEF Opens
<1>15. CASE trap_handler
  <2>1. Opening("trap")
    BY <1>9, <1>15, KindsAre DEF trap_handler, counters
  <2> QED BY <2>1 DEF Opens
<1> QED BY <1>2, <1>3, <1>4, <1>5, <1>6, <1>7, <1>8, <1>10, <1>11, <1>12, <1>13, <1>14, <1>15

(* An activation comes to its end, by itself or as the target of a jump.   *)
EndCounts ==
  /\ functions_running' = functions_running - One(Top.kind = "function")
  /\ errexit_suppress' = errexit_suppress - One(Top.kind \in TestKinds)
  /\ exec_subshell_depth' = exec_subshell_depth - One(Top.kind \in ShellKinds)
  /\ sh_subshell' = sh_subshell - One(Top.kind \in ShellKinds)
EndTraps ==
  /\ exit_trap' \in Traps
  /\ Top.kind = "trap" => sh_async_exit' = Top.async
  /\ Top.kind # "trap" => sh_async_exit' = sh_async_exit
EndCtl ==
  /\ \/ Top.kind # "exittrap" /\ ctl' = Run
     \/ Top.kind = "cond" /\ ctl' = Do("leave") /\ ctl = Run
     \/ Top.kind \in ShellKinds /\ ctl' = Do("exit") /\ ctl.how \in {"exit", "return"}
     \/ Top.kind = "source" /\ Pending /\ ctl' \in Ctls /\ ctl'.op = "jump" /\ ctl'.n # 0
                            /\ ctl'.how \in {"break", "continue"}
     \/ Top.kind = "exittrap" /\ ctl' = Top.then
  /\ ctl.how = "exit" /\ Top.kind \in ShellKinds /\ sh_async_exit => ctl' = Do("exit")
Ending ==
  /\ Size > 0 /\ eval_pop /\ ctl.op \in {"run", "land", "leave"} /\ Top.kind # "child"
  /\ EndCounts /\ EndTraps /\ EndCtl

LEMMA TopIs ==
  ASSUME Types, Size > 0
  PROVE  /\ Size \in 1..Size /\ Top \in FrameSet /\ Top.kind \in Kinds /\ Top.then \in Ctls
         /\ Top.traps \in Traps /\ Top.async \in BOOLEAN /\ Top.pending \in Nat /\ Top = stack[Size]
<1>1. Size \in Nat /\ stack \in Seq(FrameSet) /\ Size = Len(stack)
  BY SizeIs DEF Types, Size
<1>2. Size \in 1..Size /\ Top \in FrameSet /\ Top = stack[Size]
  BY <1>1 DEF Top
<1> QED BY <1>2 DEF FrameSet

LEMMA CtlsAre ==
  /\ \A op \in Ops : Do(op) \in Ctls /\ Do(op).op = op /\ Do(op).n = 0 /\ Do(op).how = ""
  /\ \A op \in Ops, n \in Nat, how \in Hows : /\ DoAt(op, n, how) \in Ctls /\ DoAt(op, n, how).op = op
                                             /\ DoAt(op, n, how).n = n /\ DoAt(op, n, how).how = how
  /\ Run \in Ctls /\ Done \in Ctls /\ Run.op = "run" /\ Done.op = "done" /\ Run.how = "" /\ Done.how = ""
  BY DEF Ctls, Do, DoAt, Run, Done, Ops, Hows

LEMMA EndingIs ==
  ASSUME Types, Safe,
         \/ command_end \/ test_end \/ loop_end \/ (loop_land /\ ctl.how = "break") \/ function_leave
         \/ subshell_leave \/ (source_end /\ eval_pop /\ ctl' = Run) \/ source_land \/ trap_end \/ trap_exit_end,
         errexit_suppress \in Nat, functions_running \in Nat, exec_subshell_depth \in Nat, sh_subshell \in Nat
  PROVE  Ending
<1>0. Size \in Nat /\ (stack # <<>> => Size > 0) /\ (ctl.op \in {"land", "leave"} => Size > 0)
  BY SizeIs DEF Size, Types, Safe
<1>1. exit_trap \in Traps /\ Run.op = "run" /\ Run.how = ""
  BY CtlsAre DEF Types
<1>2. ASSUME Top.kind \notin {"function", "test", "cond", "subshell", "subst"}, UNCHANGED counters
      PROVE  EndCounts
  BY <1>2 DEF EndCounts, One, TestKinds, ShellKinds, counters
<1>3. ASSUME Top.kind # "trap", UNCHANGED traps
      PROVE  EndTraps
  BY <1>1, <1>3 DEF EndTraps, traps
<1>4. ASSUME Top.kind \notin {"exittrap", "subshell", "subst"}, ctl' = Run
      PROVE  EndCtl
  BY <1>4 DEF EndCtl, ShellKinds
<1>5. CASE command_end
  <2>1. EndCounts /\ EndTraps
    BY <1>2, <1>3, <1>5 DEF command_end
  <2>2. EndCtl
    BY <1>4, <1>5 DEF command_end
  <2> QED BY <1>0, <1>1, <1>5, <2>1, <2>2 DEF command_end, Ending
<1>6. CASE test_end
  <2>1. EndCounts
    BY <1>6 DEF test_end, EndCounts, One, TestKinds, ShellKinds
  <2>2. EndTraps
    BY <1>3, <1>6 DEF test_end, TestKinds
  <2>3. EndCtl
    BY <1>4, <1>6 DEF test_end, TestKinds, EndCtl, ShellKinds
  <2> QED BY <1>0, <1>1, <1>6, <2>1, <2>2, <2>3 DEF test_end, Ending, TestKinds
<1>7. CASE loop_end
  <2>1. EndCounts /\ EndTraps
    BY <1>2, <1>3, <1>7 DEF loop_end
  <2>2. EndCtl
    BY <1>4, <1>7 DEF loop_end
  <2> QED BY <1>0, <1>1, <1>7, <2>1, <2>2 DEF loop_end, Ending
<1>8. CASE loop_land /\ ctl.how = "break"
  <2>1. EndCounts /\ EndTraps
    BY <1>2, <1>3, <1>8 DEF loop_land, LoopKinds
  <2>2. EndCtl
    BY <1>4, <1>8 DEF loop_land, LoopKinds
  <2> QED BY <1>0, <1>1, <1>8, <2>1, <2>2 DEF loop_land, Ending, LoopKinds
<1>9. CASE function_leave
  <2>1. EndCounts
    BY <1>9 DEF function_leave, EndCounts, One, TestKinds, ShellKinds
  <2>2. EndTraps
    BY <1>3, <1>9 DEF function_leave
  <2>3. EndCtl
    BY <1>4, <1>9 DEF function_leave
  <2> QED BY <1>0, <1>1, <1>9, <2>1, <2>2, <2>3 DEF function_leave, Ending
<1>10. CASE subshell_leave
  <2>1. EndCounts
    BY <1>10 DEF subshell_leave, EndCounts, One, TestKinds, ShellKinds
  <2>2. EndTraps
    BY <1>0, <1>10, TopIs DEF subshell_leave, EndTraps, ShellKinds
  <2>3. EndCtl
    BY <1>10 DEF subshell_leave, EndCtl, ShellKinds
  <2> QED BY <1>0, <1>1, <1>10, <2>1, <2>2, <2>3 DEF subshell_leave, Ending, ShellKinds
<1>11. CASE source_end /\ eval_pop /\ ctl' = Run
  <2>1. EndCounts /\ EndTraps
    BY <1>2, <1>3, <1>11 DEF source_end
  <2>2. EndCtl
    BY <1>4, <1>11 DEF source_end
  <2> QED BY <1>0, <1>1, <1>11, <2>1, <2>2 DEF source_end, Ending
<1>12. CASE source_land
  <2>1. Size > 0 /\ Top.kind = "source" /\ ctl.op = "land" /\ eval_pop /\ UNCHANGED counters /\ UNCHANGED traps
    BY <1>0, <1>12 DEF source_land
  <2>2. EndCounts /\ EndTraps
    BY <1>2, <1>3, <2>1
  <2>3. CASE Top.pending = 0
    <3>1. EndCtl
      BY <1>4, <1>12, <2>1, <2>3 DEF source_land
    <3> QED BY <2>1, <2>2, <3>1 DEF Ending
  <2>4. CASE Top.pending # 0
    <3>1. Pending /\ Top.pending \in Nat
      BY <2>1, <2>4, TopIs DEF Types
    <3>2. PICK h \in {"continue", "break"} : ctl' = DoAt("jump", Top.pending, h)
      BY <1>12, <2>4 DEF source_land
    <3>3. ctl' \in Ctls /\ ctl'.op = "jump" /\ ctl'.n = Top.pending /\ ctl'.how = h
      <4>1. "jump" \in Ops /\ h \in Hows
        BY DEF Ops, Hows
      <4> QED BY <3>1, <3>2, <4>1 DEF DoAt, Ctls
    <3>4. EndCtl
      BY <2>1, <2>4, <3>1, <3>2, <3>3 DEF EndCtl, ShellKinds
    <3> QED BY <2>1, <2>2, <3>4 DEF Ending
  <2> QED BY <2>3, <2>4
<1>13. CASE trap_end
  <2>1. EndCounts
    BY <1>2, <1>13 DEF trap_end
  <2>2. EndTraps
    BY <1>1, <1>13 DEF trap_end, EndTraps
  <2>3. EndCtl
    BY <1>4, <1>13 DEF trap_end
  <2> QED BY <1>0, <1>1, <1>13, <2>1, <2>2, <2>3 DEF trap_end, Ending
<1>14. CASE trap_exit_end
  <2>1. EndCounts
    BY <1>2, <1>14 DEF trap_exit_end
  <2>2. EndTraps
    BY <1>1, <1>14 DEF trap_exit_end, EndTraps, Traps
  <2>3. EndCtl
    BY <1>14 DEF trap_exit_end, EndCtl, ShellKinds
  <2> QED BY <1>0, <1>1, <1>14, <2>1, <2>2, <2>3 DEF trap_exit_end, Ending
<1> QED BY <1>5, <1>6, <1>7, <1>8, <1>9, <1>10, <1>11, <1>12, <1>13, <1>14

-----------------------------------------------------------------------------
(* Types and targets, after a step that leaves n activations *)

GoodCtl(n) ==
  /\ sh_async_exit' \in BOOLEAN /\ exit_trap' \in Traps /\ ctl' \in Ctls /\ ctl'.how # "pending"
  /\ ctl'.op \in {"dtor", "unwind"} => ctl'.n \in 1..n
  /\ ctl'.op \in {"land", "leave", "test"} => n > 0
  /\ ctl'.op = "jump" => ctl'.n # 0

LEMMA NonePending ==
  ASSUME Types, NEW i \in 1..Size, ~Pending \/ i # Size
  PROVE  stack[i].pending = 0
  BY DEF Types

LEMMA FallSafe ==
  ASSUME Types, Safe, NEW n, Falls(n), ~Pending \/ n # Size, GoodCtl(n)
  PROVE  Types' /\ Safe'
<1>1. Size \in Nat /\ n \in 0..Size /\ n \in Nat /\ Size' = n /\ Keeps(n)
  BY SizeIs DEF Falls, Keeps, Size
<1>2. \A i \in 1..n : i \in 1..Size /\ stack'[i].pending = 0
  <2> SUFFICES ASSUME NEW i \in 1..n PROVE i \in 1..Size /\ stack'[i].pending = 0
    OBVIOUS
  <2>1. i \in 1..Size /\ (~Pending \/ i # Size)
    BY <1>1
  <2>2. stack[i].pending = 0
    BY <2>1, NonePending
  <2> QED BY <2>1, <2>2 DEF Falls
<1>3. Types'
  BY <1>1, <1>2 DEF Types, Falls, GoodCtl, ChainTypes
<1>4. Ascends(eval') /\ Within(eval', n)
  BY <1>1, UptoIs DEF Types, Safe, Falls
<1>5. \A i \in 1..n : KindOK(i, stack'[i].kind, stack'[i].flags)
  BY <1>1, <1>2 DEF Keeps, Safe
<1>6. \A j \in 1..n : stack'[j].kind = "exittrap" => Resumes(j, stack'[j].then)
  <2> SUFFICES ASSUME NEW j \in 1..n, stack'[j].kind = "exittrap" PROVE Resumes(j, stack'[j].then)
    OBVIOUS
  <2>1. stack[j].kind = "exittrap" /\ stack'[j].then = stack[j].then /\ j \in 1..Size
    BY <1>1, <1>2 DEF Keeps
  <2>2. Resumes(j, stack[j].then)
    BY <2>1 DEF Safe
  <2> QED BY <2>1, <2>2
<1>7. Safe'
  BY <1>1, <1>4, <1>5, <1>6 DEF Safe, GoodCtl, Resumes, Pending, KindOK
<1> QED BY <1>3, <1>7

LEMMA RestFalls ==
  ASSUME Types, Safe, ~Pending, UNCHANGED <<stack, chains>>
  PROVE  Falls(Size) /\ Stays
<1>1. Size \in Nat /\ Stays /\ Within(eval, Size) /\ stack' = stack
  BY SizeIs, StaysIs DEF Safe
<1>2. Upto(eval, Size, eval') /\ ChainTypes'
  BY <1>1, UptoAll DEF Types, ChainTypes, chains
<1> QED BY <1>1, <1>2 DEF Falls, Stays

LEMMA PushSafe ==
  ASSUME Types, Safe, ~Pending, NEW k \in Kinds, NEW t \in Ctls, eval_push(k, t), k = "cond" => Size > 0,
         k = "exittrap" => Resumes(Size + 1, t), GoodCtl(Size + 1)
  PROVE  Types' /\ Safe'
<1>1. Size \in Nat /\ Grown(k, t) /\ ChainTypes' /\ Size' = Size + 1
  BY SizeIs, PushFrame DEF Grown, Size
<1>2. \A i \in 1..(Size + 1) : i = Size + 1 \/ i \in 1..Size
  BY <1>1
<1>3. \A i \in 1..(Size + 1) : stack'[i].pending = 0
  BY <1>1, <1>2, NonePending DEF Grown
<1>4. Types'
  BY <1>1, <1>3 DEF Types, Grown, GoodCtl, ChainTypes
<1>5. Ascends(eval') /\ Within(eval', Size + 1)
  <2>1. (k \in FrameKinds) \in BOOLEAN /\ eval' = IF k \in FrameKinds THEN Append(eval, Size + 1) ELSE eval
    BY DEF eval_push, Pushed
  <2>2. eval \in Chain /\ Ascends(eval) /\ Within(eval, Size)
    BY DEF Types, Safe
  <2> QED BY <1>1, <2>1, <2>2, PushIs
<1>6. ASSUME NEW i \in 1..(Size + 1)
      PROVE  KindOK(i, stack'[i].kind, stack'[i].flags)
  <2>1. CASE i = Size + 1
    BY <1>1, <2>1, FlagsAre DEF Grown, KindOK
  <2>2. CASE i \in 1..Size
    BY <1>1, <2>2 DEF Grown, Safe
  <2> QED BY <1>2, <2>1, <2>2
<1>7. \A j \in 1..(Size + 1) : stack'[j].kind = "exittrap" => Resumes(j, stack'[j].then)
  BY <1>1, <1>2 DEF Grown, Safe
<1>8. Safe'
  BY <1>1, <1>5, <1>6, <1>7 DEF Safe, GoodCtl, Resumes, Pending, KindOK
<1> QED BY <1>4, <1>8

LEMMA OpeningSafe ==
  ASSUME Types, Safe, NEW k, Opening(k)
  PROVE  Types' /\ Safe'
<1>1. /\ Size \in Nat /\ Run \in Ctls /\ Do("test") \in Ctls /\ Do("test").op = "test" /\ Run.op = "run"
      /\ Run.how = "" /\ Do("test").how = ""
  BY SizeIs, CtlsAre DEF Ops
<1>2. ~Pending /\ ~Pending'
  BY <1>1 DEF Opening, Pending
<1>3. GoodCtl(Size + 1)
  <2>1. sh_async_exit' \in BOOLEAN /\ exit_trap' \in Traps
    <3>1. CASE k = "trap"
      BY <3>1 DEF Opening, Types
    <3>2. CASE k # "trap"
      BY <3>2 DEF Opening, Types
    <3> QED BY <3>1, <3>2
  <2>2. CASE ctl' = Run
    BY <1>1, <1>2, <2>1, <2>2 DEF GoodCtl
  <2>3. CASE ctl' = Do("test")
    <3>1. ctl' \in Ctls /\ ctl'.op = "test" /\ ctl'.how = ""
      BY <1>1, <2>3, Zenon
    <3>2. Size + 1 > 0
      BY SizeIs
    <3> QED BY <2>1, <3>1, <3>2 DEF GoodCtl
  <2> QED BY <2>2, <2>3 DEF Opening
<1>4. k = "cond" => Size > 0
  BY DEF Opening, Safe
<1> QED BY <1>1, <1>2, <1>3, <1>4, PushSafe DEF Opening

LEMMA EndingSafe ==
  ASSUME Types, Safe, Ending
  PROVE  Types' /\ Safe' /\ Falls(Size - 1)
<1>1. Size \in Nat /\ Size > 0 /\ Falls(Size - 1) /\ Size - 1 # Size /\ Size \in 1..Size
  BY SizeIs, PopFalls DEF Ending
<1>2. Run \in Ctls /\ Run.op = "run" /\ Run.how = ""
  BY CtlsAre
<1>3. /\ Do("leave") \in Ctls /\ Do("leave").op = "leave" /\ Do("exit") \in Ctls /\ Do("exit").op = "exit"
      /\ Do("leave").how = "" /\ Do("exit").how = ""
  BY DEF Do, Ctls, Ops, Hows
<1>4. Top.kind = "exittrap" => Resumes(Size, Top.then)
  BY <1>1 DEF Safe, Top
<1>5. Top.kind = "cond" => Size - 1 > 0
  BY <1>1 DEF Safe, Top, KindOK
<1>6. sh_async_exit' \in BOOLEAN /\ exit_trap' \in Traps
  BY <1>1, TopIs DEF Ending, EndTraps, Types
<1>7. /\ ctl' \in Ctls /\ ctl'.how # "pending"
      /\ ctl'.op \in {"dtor", "unwind"} => ctl'.n \in 1..(Size - 1)
      /\ ctl'.op \in {"land", "leave", "test"} => Size - 1 > 0
      /\ ctl'.op = "jump" => ctl'.n # 0
  <2>1. CASE ctl' = Run
    BY <1>2, <2>1 DEF Pending
  <2>2. CASE Top.kind = "cond" /\ ctl' = Do("leave")
    BY <1>3, <1>5, <2>2 DEF Pending
  <2>3. CASE ctl' = Do("exit")
    BY <1>3, <2>3 DEF Pending
  <2>4. CASE ctl' \in Ctls /\ ctl'.op = "jump" /\ ctl'.n # 0 /\ ctl'.how \in {"break", "continue"}
    BY <2>4 DEF Pending
  <2>5. CASE Top.kind = "exittrap" /\ ctl' = Top.then
    BY <1>1, <1>4, <2>5, TopIs DEF Pending, Resumes
  <2> QED BY <2>1, <2>2, <2>3, <2>4, <2>5 DEF Ending, EndCtl
<1>8. GoodCtl(Size - 1)
  BY <1>6, <1>7 DEF GoodCtl
<1> QED BY <1>1, <1>8, FallSafe

(* Steps that only set the control, or mark a frame.                       *)
Resting == Stays /\ Falls(Size) /\ GoodCtl(Size) /\ UNCHANGED counters /\ ~Pending
Rests == \/ builtin_trap \/ builtin_break \/ (eval_jump /\ UNCHANGED <<stack, chains>> /\ ctl' = Run) \/ eval_return
         \/ builtin_exit \/ errexit \/ (destructor /\ UNCHANGED <<stack, chains, exit_trap>> /\ ctl' = AfterDtor)
         \/ (sh_exit /\ UNCHANGED <<stack, chains, exit_trap>> /\ ctl' = IF ctl.how = "stray" THEN Run ELSE Done)
         \/ loop_again \/ (loop_land /\ ctl.how # "break") \/ subshell_end
         \/ (source_end /\ UNCHANGED <<stack, chains>> /\ ctl' = Do("exit")) \/ child_end \/ script_end \/ Exited

LEMMA InnermostIn ==
  ASSUME Types, Safe, ~Pending, NEW P, P \subseteq In(eval)
  PROVE  /\ Innermost(P) \in 0..Size /\ (Innermost(P) # 0 => Innermost(P) \in P /\ Innermost(P) \in 1..Size)
         /\ \A i \in P : i \in 1..Size /\ i <= Innermost(P)
<1>1. Size \in Nat /\ eval \in Chain /\ Within(eval, Size)
  BY SizeIs DEF Types, Safe
<1>2. P \in SUBSET (1..Size)
  BY <1>1 DEF In, Within, Chain
<1>3. PICK p : p = Innermost(P)
  OBVIOUS
<1>4. p \in P \cup {0} /\ \A h \in P : h <= p
  BY <1>1, <1>2, <1>3, InnermostOf
<1>5. p \in 0..Size /\ (p # 0 => p \in P /\ p \in 1..Size) /\ \A i \in P : i \in 1..Size /\ i <= p
  BY <1>1, <1>2, <1>4
<1> QED BY <1>3, <1>5

LEMMA RestingIs ==
  ASSUME Types, Safe, Rests
  PROVE  Resting
<1>0. Size \in Nat /\ (stack # <<>> => Size > 0) /\ sh_async_exit \in BOOLEAN /\ exit_trap \in Traps /\ ctl \in Ctls
  BY SizeIs DEF Size, Types
<1>1. /\ Run \in Ctls /\ Run.op = "run" /\ Done \in Ctls /\ Done.op = "done" /\ Run.how = "" /\ Done.how = ""
  BY CtlsAre
<1>2. /\ Do("test") \in Ctls /\ Do("test").op = "test" /\ Do("exit") \in Ctls /\ Do("exit").op = "exit"
      /\ Do("leave") \in Ctls /\ Do("leave").op = "leave"
      /\ Do("test").how = "" /\ Do("exit").how = "" /\ Do("leave").how = ""
  BY DEF Do, Ctls, Ops, Hows
<1>3. ASSUME NEW op \in Ops, NEW n \in Nat, NEW how \in Hows
      PROVE  /\ DoAt(op, n, how) \in Ctls /\ DoAt(op, n, how).op = op /\ DoAt(op, n, how).n = n
             /\ DoAt(op, n, how).how = how
  BY DEF DoAt, Ctls
<1>4. ASSUME UNCHANGED <<stack, chains, counters, traps>>, ~Pending, ctl' \in Ctls, ctl'.how # "pending",
             ctl'.op \in {"dtor", "unwind"} => ctl'.n \in 1..Size,
             ctl'.op \in {"land", "leave", "test"} => Size > 0, ctl'.op = "jump" => ctl'.n # 0
      PROVE  Resting
  <2>1. Stays /\ Falls(Size)
    BY <1>4, RestFalls
  <2>2. GoodCtl(Size)
    BY <1>0, <1>4 DEF GoodCtl, traps
  <2> QED BY <1>4, <2>1, <2>2 DEF Resting
<1>5. ctl = Run => ~Pending
  BY <1>1 DEF Pending
<1>6. CASE builtin_trap
  <2>1. PICK h : stack' = [stack EXCEPT ![h].dtor = TRUE]
    BY <1>6 DEF builtin_trap
  <2>2. stack \in Seq(FrameSet) /\ Size = Len(stack)
    BY DEF Types, Size
  <2>3. /\ stack' \in [1..Size -> FrameSet]
        /\ \A i \in 1..Size : /\ stack'[i].kind = stack[i].kind /\ stack'[i].jump = stack[i].jump
                              /\ stack'[i].flags = stack[i].flags /\ stack'[i].then = stack[i].then
                              /\ stack'[i].fd = stack[i].fd /\ stack'[i].var = stack[i].var
                              /\ stack'[i].src = stack[i].src /\ stack'[i].async = stack[i].async
                              /\ stack'[i].pending = stack[i].pending
    <3>1. ASSUME NEW f \in FrameSet, NEW g, g = [f EXCEPT !.dtor = TRUE]
          PROVE  /\ g \in FrameSet /\ g.kind = f.kind /\ g.jump = f.jump /\ g.flags = f.flags /\ g.then = f.then
                 /\ g.fd = f.fd /\ g.var = f.var /\ g.src = f.src /\ g.async = f.async /\ g.pending = f.pending
      BY <3>1 DEF FrameSet
    <3>4. stack' = [i \in 1..Size |-> IF i = h THEN [stack[i] EXCEPT !.dtor = TRUE] ELSE stack[i]]
      <4>1. DOMAIN stack = 1..Size
        BY <2>2
      <4> QED BY <2>1, <4>1, Zenon
    <3>2. \A i \in 1..Size : stack[i] \in FrameSet /\ (stack'[i] = stack[i] \/ stack'[i] = [stack[i] EXCEPT !.dtor = TRUE])
      BY <3>4, <2>2
    <3>3. DOMAIN stack' = 1..Size /\ stack' = [i \in 1..Size |-> stack'[i]]
      BY <3>4
    <3> QED BY <3>1, <3>2, <3>3
  <2>4. stack' \in Seq(FrameSet) /\ Len(stack') = Size
    BY <1>0, <2>3
  <2>5. Stays
    BY <1>0, <1>6, <2>3, <2>4 DEF builtin_trap, Stays, Keeps
  <2>6. ~Pending /\ ctl' = Run /\ UNCHANGED <<chains, counters, sh_async_exit>> /\ exit_trap' \in Traps
    BY <1>5, <1>6 DEF builtin_trap, Commands, Traps
  <2>7. Upto(eval, Size, eval') /\ ChainTypes'
    BY <1>0, <2>6, UptoAll DEF Types, Safe, ChainTypes, chains
  <2>8. Falls(Size)
    BY <2>3, <2>4, <2>5, <2>7 DEF Falls, Stays
  <2>9. GoodCtl(Size)
    BY <1>0, <1>1, <2>6 DEF GoodCtl, Pending
  <2> QED BY <2>5, <2>6, <2>8, <2>9 DEF Resting
<1>7. CASE builtin_break
  <2>1. PICK c \in {"break", "continue"}, n \in 1..MaxLevels :
          ctl = Run /\ ctl' = DoAt("jump", n, c) /\ UNCHANGED <<stack, chains, counters, traps>>
    BY <1>7 DEF builtin_break, May, Commands
  <2>2. "jump" \in Ops /\ c \in Hows /\ n \in Nat /\ n # 0
    <3>1. MaxLevels \in Nat /\ n \in 1..MaxLevels
      BY EvalConstants
    <3>2. "jump" \in Ops /\ c \in Hows
      BY DEF Ops, Hows
    <3>3. n \in Nat /\ n # 0
      BY <3>1
    <3> QED BY <3>2, <3>3
  <2>3. ctl' \in Ctls /\ ctl'.op = "jump" /\ ctl'.n = n /\ ctl'.how = c
    BY <2>1, <2>2, <1>3
  <2> QED BY <1>4, <1>5, <2>1, <2>2, <2>3 DEF Pending
<1>8. CASE eval_jump /\ UNCHANGED <<stack, chains>> /\ ctl' = Run
  <2>1. ctl.op = "jump" /\ UNCHANGED <<stack, chains, counters, traps>> /\ ctl' = Run
    BY <1>8 DEF eval_jump
  <2> QED BY <1>1, <1>4, <2>1 DEF Pending
<1>9. CASE eval_return
  <2>1. PICK f : f = Innermost(Returnable)
    OBVIOUS
  <2>2. ctl = Run /\ UNCHANGED <<stack, chains, counters, traps>> /\ ctl' = IF f = 0 THEN Run ELSE DoAt("dtor", f, "return")
    BY <1>9, <2>1 DEF eval_return, May, Commands
  <2>3. f # 0 => f \in 1..Size /\ f \in Nat
    BY <1>5, <2>1, <2>2, InnermostIn DEF Returnable
  <2>4. "dtor" \in Ops /\ "return" \in Hows
    BY DEF Ops, Hows
  <2>5. f # 0 => ctl' \in Ctls /\ ctl'.op = "dtor" /\ ctl'.n = f /\ ctl'.how = "return"
    BY <1>3, <2>2, <2>3, <2>4
  <2> QED BY <1>1, <1>4, <1>5, <2>2, <2>3, <2>5 DEF Pending
<1>10. CASE builtin_exit
  <2>1. ctl = Run /\ UNCHANGED <<stack, chains, counters, traps>> /\ ctl' = DoAt("exit", 0, "exit")
    BY <1>10 DEF builtin_exit, May, Commands
  <2>2. ctl' \in Ctls /\ ctl'.op = "exit" /\ ctl'.how # "pending"
    BY <2>1 DEF DoAt, Ctls, Ops, Hows
  <2> QED BY <1>4, <1>5, <2>1, <2>2 DEF Pending
<1>11. CASE errexit
  <2>1. ctl = Run /\ UNCHANGED <<stack, chains, counters, traps>> /\ ctl' = DoAt("exit", 0, "errexit")
    BY <1>11 DEF errexit, May, Commands
  <2>2. ctl' \in Ctls /\ ctl'.op = "exit" /\ ctl'.how # "pending"
    BY <2>1 DEF DoAt, Ctls, Ops, Hows
  <2> QED BY <1>4, <1>5, <2>1, <2>2 DEF Pending
<1>12. CASE destructor /\ UNCHANGED <<stack, chains, exit_trap>> /\ ctl' = AfterDtor
  <2>1. ctl.op = "dtor" /\ UNCHANGED <<stack, chains, counters, traps>> /\ ctl.n \in 1..Size
    BY <1>12 DEF destructor, traps, Safe
  <2>2. CASE ctl.how = "end"
    <3>1. ctl' = Do("leave")
      BY <1>12, <2>2 DEF AfterDtor
    <3>2. ctl' \in Ctls /\ ctl'.op = "leave" /\ ctl'.how = ""
      BY <1>2, <3>1, Zenon
    <3>3. Size > 0
      BY <1>0, <2>1
    <3> QED BY <1>4, <2>1, <3>2, <3>3 DEF Pending
  <2>3. CASE ctl.how # "end"
    <3>1. ctl' = DoAt("unwind", ctl.n, ctl.how) /\ ctl.n \in Nat /\ ctl.how \in Hows /\ "unwind" \in Ops
      BY <1>0, <1>12, <2>3 DEF AfterDtor, Ctls, Ops
    <3>2. ctl' \in Ctls /\ ctl'.op = "unwind" /\ ctl'.n = ctl.n /\ ctl'.how # "pending"
      BY <1>3, <2>1, <3>1 DEF Safe
    <3> QED BY <1>4, <2>1, <3>2 DEF Pending
  <2> QED BY <2>2, <2>3
<1>13. CASE sh_exit /\ UNCHANGED <<stack, chains, exit_trap>> /\ ctl' = IF ctl.how = "stray" THEN Run ELSE Done
  <2>1. ctl.op = "die" /\ UNCHANGED <<stack, chains, counters, traps>>
    BY <1>13 DEF sh_exit, traps
  <2> QED BY <1>1, <1>4, <1>13, <2>1 DEF Pending
<1>14. CASE loop_again
  <2>1. ctl = Run /\ stack # <<>> /\ ctl' = Do("test") /\ UNCHANGED <<stack, chains, counters, traps>>
    BY <1>14 DEF loop_again
  <2> QED BY <1>0, <1>2, <1>4, <1>5, <2>1 DEF Pending
<1>15. CASE loop_land /\ ctl.how # "break"
  <2>1. ctl.op = "land" /\ Top.kind \in LoopKinds /\ ctl' \in {Do("test"), Run} /\ UNCHANGED <<stack, chains, counters, traps>>
    BY <1>15 DEF loop_land
  <2>2. ~Pending /\ Size > 0
    BY <2>1 DEF Safe, LoopKinds
  <2> QED BY <1>1, <1>2, <1>4, <2>1, <2>2 DEF Pending
<1>16. CASE subshell_end
  <2>1. ctl = Run /\ stack # <<>> /\ UNCHANGED <<stack, chains, counters, traps>>
        /\ (ctl' = DoAt("dtor", Size, "end") \/ ctl' = Do("leave"))
    BY <1>16 DEF subshell_end
  <2>2. Size > 0 /\ "dtor" \in Ops /\ "end" \in Hows /\ Size \in 1..Size
    BY <1>0, <2>1 DEF Ops, Hows
  <2>3. CASE ctl' = DoAt("dtor", Size, "end")
    <3>1. ctl' \in Ctls /\ ctl'.op = "dtor" /\ ctl'.n = Size /\ ctl'.how = "end"
      BY <1>0, <1>3, <2>2, <2>3
    <3> QED BY <1>4, <1>5, <2>1, <2>2, <3>1 DEF Pending
  <2>4. CASE ctl' = Do("leave")
    BY <1>2, <1>4, <1>5, <2>1, <2>2, <2>4 DEF Pending
  <2> QED BY <2>1, <2>3, <2>4
<1>17. CASE source_end /\ UNCHANGED <<stack, chains>> /\ ctl' = Do("exit")
  <2>1. ctl = Run /\ UNCHANGED <<stack, chains, counters, traps>>
    BY <1>17 DEF source_end
  <2> QED BY <1>2, <1>4, <1>5, <1>17, <2>1 DEF Pending
<1>18. CASE child_end
  <2>1. ctl = Run /\ UNCHANGED <<stack, chains, counters, traps>> /\ ctl' \in {DoAt("die", 0, "end"), Do("exit")}
    BY <1>18 DEF child_end
  <2>2. DoAt("die", 0, "end") \in Ctls /\ DoAt("die", 0, "end").op = "die" /\ DoAt("die", 0, "end").how = "end"
    BY DEF DoAt, Ctls, Ops, Hows
  <2> QED BY <1>2, <1>4, <1>5, <2>1, <2>2 DEF Pending
<1>19. CASE script_end
  <2>1. ctl = Run /\ UNCHANGED <<stack, chains, counters, traps>> /\ ctl' = Do("exit")
    BY <1>19 DEF script_end
  <2> QED BY <1>2, <1>4, <1>5, <2>1 DEF Pending
<1>20. CASE Exited
  <2>1. ctl = Done /\ UNCHANGED <<stack, chains, counters, traps>> /\ ctl' = Done
    BY <1>20 DEF Exited, vars
  <2> QED BY <1>1, <1>4, <2>1 DEF Pending
<1> QED BY <1>6, <1>7, <1>8, <1>9, <1>10, <1>11, <1>12, <1>13, <1>14, <1>15, <1>16, <1>17, <1>18, <1>19, <1>20 DEF Rests

(* The steps that are left: jumps, the exit, the EXIT trap and a fork.     *)
Leaps(i) ==
  /\ Leap(i, ctl.how) /\ i \in 1..Size /\ UNCHANGED <<sh, counters, traps>>
  /\ (ctl.op = "unwind" /\ i = ctl.n) \/ (ctl.op = "jump" /\ i \in Loops(Innermost(Bounds)))
Suspends(b) ==
  /\ ctl.op = "jump" /\ b = Innermost(Bounds) /\ b \in 1..Size /\ "SOURCE" \in stack[b].flags /\ Loops(b) = {}
  /\ stack' = [SubSeq(stack, 1, b) EXCEPT ![b].pending = ctl.n, ![b].pendcont = ctl.how = "continue"]
  /\ ctl' = DoAt("land", 0, "pending") /\ UNCHANGED <<chains, counters, traps>>
HangsOn(t) ==
  /\ eval_push("exittrap", t) /\ exit_trap' = "running" /\ ctl' = Run /\ UNCHANGED <<counters, sh_async_exit>>
  /\ \/ ctl.op = "dtor" /\ t = AfterDtor
     \/ ctl.op = "die" /\ t = IF ctl.how = "stray" THEN Run ELSE Done

LEMMA LeapsSafe ==
  ASSUME Types, Safe, NEW i, Leaps(i)
  PROVE  Types' /\ Safe' /\ Falls(i) /\ Size' = i
<1>1. Size \in Nat /\ i \in 1..Size /\ i > 0 /\ Falls(i) /\ ~Pending
  BY SizeIs, LeapFalls DEF Leaps, Pending
<1>2. ctl.how \in Hows /\ ctl.how # "pending" /\ "land" \in Ops
  BY DEF Types, Ctls, Ops, Leaps, Safe
<1>3. ctl' = DoAt("land", 0, ctl.how)
  BY DEF Leaps, Leap
<1>4. ctl' \in Ctls /\ ctl'.op = "land" /\ ctl'.how = ctl.how
  BY <1>2, <1>3 DEF DoAt, Ctls
<1>5. GoodCtl(i)
  BY <1>1, <1>2, <1>4 DEF GoodCtl, Leaps, traps, Types
<1>6. Size' = i
  BY <1>1 DEF Falls, Keeps, Size
<1> QED BY <1>1, <1>5, <1>6, FallSafe

LEMMA SuspendsKeeps ==
  ASSUME Types, Safe, NEW b, Suspends(b)
  PROVE  Keeps(b) /\ stack' \in Seq(FrameSet) /\ \A i \in 1..b : i # b => stack'[i] = stack[i]
<1>1. Size \in Nat /\ b \in 1..Size /\ b \in 0..Len(stack) /\ stack \in Seq(FrameSet) /\ b \in Nat
  BY SizeIs DEF Suspends, Size, Types
<1>2. PICK u : u = SubSeq(stack, 1, b)
  OBVIOUS
<1>3. u \in Seq(FrameSet) /\ Len(u) = b /\ \A i \in 1..b : u[i] = stack[i]
  BY <1>1, <1>2, HeadIs
<1>4. PICK f : f = [u[b] EXCEPT !.pending = ctl.n, !.pendcont = ctl.how = "continue"]
  OBVIOUS
<1>5. stack' = [u EXCEPT ![b] = f]
  BY <1>2, <1>4 DEF Suspends
<1>6. u[b] \in FrameSet /\ ctl.n \in Nat /\ (ctl.how = "continue") \in BOOLEAN
  BY <1>1, <1>3 DEF Types, Ctls
<1>7. /\ f \in FrameSet /\ f.kind = u[b].kind /\ f.jump = u[b].jump /\ f.flags = u[b].flags /\ f.then = u[b].then
      /\ f.fd = u[b].fd /\ f.var = u[b].var /\ f.src = u[b].src /\ f.async = u[b].async
  BY <1>4, <1>6 DEF FrameSet
<1>8. stack' \in Seq(FrameSet) /\ Len(stack') = b /\ stack'[b] = f /\ \A i \in 1..b : i # b => stack'[i] = stack[i]
  BY <1>1, <1>3, <1>5, <1>7
<1>9. Keeps(b)
  BY <1>1, <1>3, <1>7, <1>8 DEF Keeps
<1> QED BY <1>8, <1>9

LEMMA SuspendsSafe ==
  ASSUME Types, Safe, NEW b, Suspends(b)
  PROVE  Types' /\ Safe'
<1>1. /\ Size \in Nat /\ b \in 1..Size /\ Size' = b /\ Keeps(b) /\ stack' \in Seq(FrameSet)
      /\ \A i \in 1..b : i # b => stack'[i] = stack[i]
  <2>1. Keeps(b) /\ stack' \in Seq(FrameSet) /\ \A i \in 1..b : i # b => stack'[i] = stack[i]
    BY SuspendsKeeps
  <2>2. b \in 1..Size /\ Size \in Nat
    BY SizeIs DEF Suspends
  <2>3. Size' = b
    BY <2>1 DEF Keeps, Size
  <2> QED BY <2>1, <2>2, <2>3
<1>2. /\ ctl' \in Ctls /\ ctl'.op = "land" /\ ctl'.how = "pending" /\ Pending'
  BY DEF Suspends, DoAt, Ctls, Ops, Hows, Pending
<1>3. ~Pending
  BY DEF Suspends, Pending
<1>4. stack'[b].kind = "source"
  <2>1. stack[b].kind = "source" /\ b \in 1..b
    BY <1>1 DEF KindOK, Safe, Suspends
  <2> QED BY <1>1, <2>1 DEF Keeps
<1>5. \A i \in 1..b : stack'[i].pending # 0 => i = b
  BY <1>1, <1>3, NonePending
<1>6. Types'
  <2>1. UNCHANGED <<eval, fdstack, varstack, source, sh, sh_async_exit, exit_trap>>
    BY DEF Suspends, chains, traps
  <2>2. ASSUME NEW i \in 1..Size', stack'[i].pending # 0
        PROVE  i = Size' /\ Pending' /\ stack'[i].kind = "source"
    BY <1>1, <1>2, <1>4, <1>5, <2>2
  <2> QED BY <1>1, <1>2, <2>1, <2>2 DEF Types
<1>7. \A i \in 1..b : KindOK(i, stack'[i].kind, stack'[i].flags)
  BY <1>1 DEF Keeps, Safe
<1>8. \A j \in 1..b : stack'[j].kind = "exittrap" => Resumes(j, stack'[j].then)
  BY <1>1 DEF Keeps, Safe
<1>9. Ascends(eval)' /\ Top'.kind = "source" /\ b > 0
  BY <1>1, <1>4 DEF Safe, Suspends, chains, Top, Ascends
<1>10. Safe'
  BY <1>1, <1>2, <1>7, <1>8, <1>9 DEF Safe, Resumes, KindOK
<1> QED BY <1>6, <1>10

LEMMA TrapsSafe ==
  ASSUME Types, Safe, NEW t, HangsOn(t)
  PROVE  Types' /\ Safe' /\ t \in Ctls /\ Grown("exittrap", t)
<1>1. Size \in Nat /\ ctl \in Ctls
  BY SizeIs DEF Types
<1>2. Run \in Ctls /\ Run.op = "run" /\ Done \in Ctls /\ Done.op = "done" /\ Run.how = "" /\ Done.how = ""
  BY CtlsAre
<1>3. t \in Ctls /\ Resumes(Size + 1, t)
  <2>1. CASE ctl.op = "dtor" /\ t = AfterDtor /\ ctl.how = "end"
    <3>1. t = Do("leave")
      BY <2>1 DEF AfterDtor
    <3>2. t \in Ctls /\ t.op = "leave" /\ t.how = ""
      BY <3>1 DEF Do, Ctls, Ops, Hows
    <3>3. Size + 1 > 1
      BY <2>1, SizeIs DEF Safe
    <3> QED BY <3>2, <3>3 DEF Resumes
  <2>2. CASE ctl.op = "dtor" /\ t = AfterDtor /\ ctl.how # "end"
    <3>1. t = DoAt("unwind", ctl.n, ctl.how) /\ ctl.n \in 1..Size /\ ctl.how # "pending"
      BY <2>2 DEF AfterDtor, Safe
    <3>2. t \in Ctls /\ t.op = "unwind" /\ t.how = ctl.how /\ t.n = ctl.n
      BY <1>1, <3>1 DEF DoAt, Ctls, Ops
    <3>3. ctl.n \in 1..((Size + 1) - 1)
      BY <1>1, <3>1
    <3> QED BY <3>1, <3>2, <3>3 DEF Resumes
  <2>3. CASE t \in {Run, Done}
    BY <1>2, <2>3 DEF Resumes
  <2> QED BY <2>1, <2>2, <2>3 DEF HangsOn
<1>4. ~Pending
  BY DEF HangsOn, Pending
<1>5. "exittrap" \in Kinds
  BY KindsAre
<1>6. GoodCtl(Size + 1)
  BY <1>2 DEF GoodCtl, HangsOn, Types, Traps
<1>7. eval_push("exittrap", t)
  BY DEF HangsOn
<1> QED BY <1>3, <1>4, <1>5, <1>6, <1>7, PushSafe, PushFrame

LEMMA ExitSafe ==
  ASSUME Types, Safe, eval_exit
  PROVE  /\ Types' /\ Safe' /\ Falls(Size) /\ UNCHANGED <<stack, eval, source, counters, traps>>
         /\ ctl' \in Ctls /\ ctl'.how \in {"exit", "stray"}
<1>1. Size \in Nat /\ ~Pending /\ stack \in Seq(FrameSet) /\ UNCHANGED <<stack, eval, source, counters, traps>>
  BY SizeIs DEF eval_exit, Pending, Types
<1>2. PICK t : t = Innermost(Exitable)
  OBVIOUS
<1>3. t # 0 => t \in 1..Size /\ t \in Nat
  BY <1>1, <1>2, InnermostIn DEF Exitable
<1>4. ctl' \in {DoAt("dtor", t, "exit"), DoAt("die", 0, "exit"), DoAt("die", 0, "stray")}
      /\ (t = 0 => ctl' # DoAt("dtor", t, "exit"))
  <2>1. ctl' = IF t # 0 THEN DoAt("dtor", t, "exit")
                  ELSE IF exit_trap = "running" \/ \A i \in In(sh) : Kind(i) = "function"
                  THEN DoAt("die", 0, "exit") ELSE DoAt("die", 0, "stray")
    BY <1>2, Zenon DEF eval_exit
  <2>2. DoAt("dtor", t, "exit") # DoAt("die", 0, "exit") /\ DoAt("dtor", t, "exit") # DoAt("die", 0, "stray")
    BY DEF DoAt
  <2> QED BY <2>1, <2>2
<1>5. ctl' \in Ctls /\ ctl'.how \in {"exit", "stray"} /\ ctl'.op \in {"dtor", "die"} /\ (ctl'.op = "dtor" => ctl'.n \in 1..Size)
  <2>1. CASE ctl' = DoAt("dtor", t, "exit")
    BY <1>3, <1>4, <2>1 DEF DoAt, Ctls, Ops, Hows
  <2>2. CASE ctl' = DoAt("die", 0, "exit")
    BY <2>2 DEF DoAt, Ctls, Ops, Hows
  <2>3. CASE ctl' = DoAt("die", 0, "stray")
    BY <2>3 DEF DoAt, Ctls, Ops, Hows
  <2> QED BY <1>4, <2>1, <2>2, <2>3
<1>6. GoodCtl(Size)
  BY <1>1, <1>5 DEF GoodCtl, Types, traps
<1>7. PICK n \in 0..Len(sh) :
         /\ sh' = SubSeq(sh, 1, n)
         /\ IF n < Len(sh) /\ sh[n + 1] <= Size
            THEN fdstack' = Cut(fdstack, stack[sh[n + 1]].fd) /\ varstack' = Cut(varstack, stack[sh[n + 1]].var)
            ELSE UNCHANGED <<fdstack, varstack>>
  <2>1. PICK pops : pops = Cardinality({i \in In(eval) : i > t /\ "FUNCTION" \in stack[i].flags})
    OBVIOUS
  <2>2. PICK n : n = IF pops < Len(sh) THEN Len(sh) - pops ELSE 0
    OBVIOUS
  <2>3. IsFiniteSet({i \in In(eval) : i > t /\ "FUNCTION" \in stack[i].flags})
    <3>1. IsFiniteSet(1..Size)
      BY <1>1, FS_Interval
    <3>2. In(eval) \subseteq 1..Size
      BY <1>1, InnermostIn
    <3>3. {i \in In(eval) : i > t /\ "FUNCTION" \in stack[i].flags} \subseteq 1..Size
      BY <3>2
    <3> QED BY <3>1, <3>3, FS_Subset
  <2>4. pops \in Nat /\ Len(sh) \in Nat
    BY <2>1, <2>3, FS_CardinalityType DEF Types, Chain
  <2>5. n \in 0..Len(sh)
    BY <2>2, <2>4
  <2>6. /\ sh' = SubSeq(sh, 1, n)
        /\ IF n < Len(sh) /\ sh[n + 1] <= Size
            THEN fdstack' = Cut(fdstack, stack[sh[n + 1]].fd) /\ varstack' = Cut(varstack, stack[sh[n + 1]].var)
            ELSE UNCHANGED <<fdstack, varstack>>
    BY <1>2, <2>1, <2>2, Zenon DEF eval_exit
  <2> QED BY <2>5, <2>6
<1>8. ChainTypes'
  <2>1. sh' \in Chain
    BY <1>7, HeadIs DEF Types, Chain
  <2>2. fdstack' \in Chain /\ varstack' \in Chain
    <3>1. CASE n < Len(sh) /\ sh[n + 1] <= Size
      <4>1. n + 1 \in 1..Len(sh) /\ sh \in Seq(Nat \ {0})
        BY <1>7, <3>1 DEF Types, Chain
      <4>2. sh[n + 1] \in 1..Size
        BY <1>1, <3>1, <4>1
      <4>3. stack[sh[n + 1]] \in FrameSet
        BY <1>1, <4>2 DEF Size
      <4>4. stack[sh[n + 1]].fd \in Nat /\ stack[sh[n + 1]].var \in Nat
        BY <4>3 DEF FrameSet
      <4> QED BY <1>7, <3>1, <4>4, CutChain DEF Types
    <3>2. CASE ~(n < Len(sh) /\ sh[n + 1] <= Size)
      BY <1>7, <3>2 DEF Types
    <3> QED BY <3>1, <3>2
  <2> QED BY <1>1, <2>1, <2>2 DEF ChainTypes, Types
<1>9. Falls(Size)
  <2>1. Keeps(Size) /\ stack' \in Seq(FrameSet) /\ \A i \in 1..Size : stack'[i].pending = stack[i].pending
    BY <1>1 DEF Keeps, Size
  <2>2. Upto(eval, Size, eval')
    BY <1>1, UptoAll DEF Types, Safe
  <2> QED BY <1>8, <2>1, <2>2 DEF Falls
<1> QED BY <1>1, <1>5, <1>6, <1>9, FallSafe

(* The state of a forked shell.                                            *)
Forks ==
  /\ stack' \in Seq(FrameSet) /\ Len(stack') = Size + 1
  /\ \A i \in 1..Size : /\ stack'[i].kind = stack[i].kind /\ stack'[i].jump = FALSE
                        /\ stack'[i].flags \subseteq stack[i].flags /\ stack'[i].then = stack[i].then
                        /\ stack'[i].fd = stack[i].fd /\ stack'[i].var = stack[i].var /\ stack'[i].src = stack[i].src
                        /\ stack'[i].async = stack[i].async /\ stack'[i].pending = stack[i].pending
  /\ stack'[Size + 1].kind = "child" /\ stack'[Size + 1].jump = FALSE /\ stack'[Size + 1].flags = {}
  /\ stack'[Size + 1].pending = 0 /\ stack'[Size + 1].then = Run

LEMMA ForkIs ==
  ASSUME Types, Safe, sh_forked
  PROVE  Forks /\ ~Pending /\ ctl = Run
<1>1. Size \in Nat /\ stack \in Seq(FrameSet) /\ Size = Len(stack) /\ stack # <<>> /\ ctl = Run
  BY SizeIs DEF Types, Size, sh_forked, Commands
<1>2. ~Pending /\ Run \in Ctls
  BY <1>1, CtlsAre DEF Pending
<1>3. Size > 0
  BY <1>1
<1>5. PICK u : u = [i \in 1..Size |-> [stack[i] EXCEPT !.jump = FALSE,
                        !.flags = IF sh # <<>> /\ i = sh[Len(sh)] THEN @ \ {"FUNCTION"} ELSE @]]
  OBVIOUS
<1>6. PICK c : c = [Top EXCEPT !.kind = "child", !.flags = {}, !.jump = FALSE, !.dtor = FALSE, !.then = Run]
  OBVIOUS
<1>7. stack' = Append(u, c)
  BY <1>5, <1>6, Zenon DEF sh_forked
<1>8. ASSUME NEW i \in 1..Size
      PROVE  /\ u[i] \in FrameSet /\ u[i].kind = stack[i].kind /\ u[i].jump = FALSE /\ u[i].flags \subseteq stack[i].flags
             /\ u[i].then = stack[i].then /\ u[i].fd = stack[i].fd /\ u[i].var = stack[i].var
             /\ u[i].src = stack[i].src /\ u[i].async = stack[i].async /\ u[i].pending = stack[i].pending
  <2>1. stack[i] \in FrameSet
    BY <1>1
  <2>2. PICK F : F = IF sh # <<>> /\ i = sh[Len(sh)] THEN stack[i].flags \ {"FUNCTION"} ELSE stack[i].flags
    OBVIOUS
  <2>3. u[i] = [stack[i] EXCEPT !.jump = FALSE, !.flags = F]
    BY <1>5, <2>2
  <2>4. F \in {stack[i].flags, stack[i].flags \ {"FUNCTION"}}
    BY <2>2
  <2>5. PICK f : f = stack[i]
    OBVIOUS
  <2>6. PICK g : g = [f EXCEPT !.jump = FALSE, !.flags = F]
    OBVIOUS
  <2>7. f \in FrameSet /\ F \in {f.flags, f.flags \ {"FUNCTION"}} /\ u[i] = g
    BY <2>1, <2>3, <2>4, <2>5, <2>6
  <2>8. /\ g \in FrameSet /\ g.kind = f.kind /\ g.jump = FALSE /\ g.flags \subseteq f.flags /\ g.then = f.then
        /\ g.fd = f.fd /\ g.var = f.var /\ g.src = f.src /\ g.async = f.async /\ g.pending = f.pending
    BY <2>6, <2>7 DEF FrameSet
  <2> QED BY <2>5, <2>7, <2>8
<1>9. u \in Seq(FrameSet) /\ Len(u) = Size
  <2>1. u = [i \in 1..Size |-> u[i]]
    BY <1>5
  <2>2. u \in [1..Size -> FrameSet]
    BY <1>8, <2>1
  <2> QED BY <1>1, <2>2
<1>10. c \in FrameSet /\ c.kind = "child" /\ c.jump = FALSE /\ c.flags = {} /\ c.then = Run /\ c.pending = Top.pending
  <2>1. Top \in FrameSet /\ "child" \in Kinds
    BY <1>3, TopIs, KindsAre
  <2> QED BY <1>2, <1>6, <2>1 DEF FrameSet
<1>11. Top.pending = 0
  BY <1>2, <1>3, TopIs, NonePending
<1>12. /\ stack' \in Seq(FrameSet) /\ Len(stack') = Size + 1 /\ stack'[Size + 1] = c
       /\ \A i \in 1..Size : stack'[i] = u[i]
  BY <1>1, <1>7, <1>9, <1>10
<1>13. /\ stack'[Size + 1].kind = "child" /\ stack'[Size + 1].jump = FALSE /\ stack'[Size + 1].flags = {}
       /\ stack'[Size + 1].pending = 0 /\ stack'[Size + 1].then = Run
  BY <1>10, <1>11, <1>12
<1>14. ASSUME NEW i \in 1..Size
       PROVE  /\ stack'[i].kind = stack[i].kind /\ stack'[i].jump = FALSE
              /\ stack'[i].flags \subseteq stack[i].flags /\ stack'[i].then = stack[i].then
              /\ stack'[i].fd = stack[i].fd /\ stack'[i].var = stack[i].var /\ stack'[i].src = stack[i].src
              /\ stack'[i].async = stack[i].async /\ stack'[i].pending = stack[i].pending
  BY <1>8, <1>12
<1> QED BY <1>1, <1>2, <1>12, <1>13, <1>14 DEF Forks

LEMMA ForkSafe ==
  ASSUME Types, Safe, sh_forked
  PROVE  Types' /\ Safe'
<1>1. Size \in Nat /\ Forks /\ ~Pending /\ ctl = Run /\ Size' = Size + 1
  BY SizeIs, ForkIs DEF Forks, Size
<1>2. /\ UNCHANGED <<eval, fdstack, varstack, source, counters, sh_async_exit, ctl>> /\ sh' = <<>>
      /\ exit_trap' \in Traps
  BY DEF sh_forked, Traps
<1>3. ~Pending' /\ Run.op = "run" /\ Run.how = ""
  BY <1>1, <1>2, CtlsAre DEF Pending
<1>4. \A i \in 1..(Size + 1) : i = Size + 1 \/ i \in 1..Size
  BY <1>1
<1>5. \A i \in 1..(Size + 1) : stack'[i].pending = 0
  BY <1>1, <1>4, NonePending DEF Forks
<1>6. sh' \in Chain
  BY <1>2 DEF Chain
<1>7. stack' \in Seq(FrameSet)
  BY <1>1 DEF Forks
<1>8. Types'
  BY <1>1, <1>2, <1>5, <1>6, <1>7 DEF Types
<1>9. ASSUME NEW i \in 1..(Size + 1) PROVE KindOK(i, stack'[i].kind, stack'[i].flags)
  <2>1. CASE i = Size + 1
    BY <1>1, <2>1 DEF Forks, KindOK
  <2>2. CASE i \in 1..Size
    BY <1>1, <2>2 DEF Forks, Safe, KindOK
  <2> QED BY <1>4, <2>1, <2>2
<1>10. \A j \in 1..(Size + 1) : stack'[j].kind = "exittrap" => Resumes(j, stack'[j].then)
  BY <1>1, <1>4 DEF Forks, Safe
<1>11. Ascends(eval') /\ Within(eval', Size + 1)
  BY <1>1, <1>2 DEF Safe, Ascends, Within, Types, Chain
<1>12. Safe'
  BY <1>1, <1>2, <1>3, <1>9, <1>10, <1>11 DEF Safe, Resumes, KindOK
<1> QED BY <1>8, <1>12

-----------------------------------------------------------------------------
(* What is counted *)

CountsOK ==
  /\ functions_running \in Nat /\ functions_running >= Cardinality(Live({"function"}))
  /\ errexit_suppress \in Nat /\ errexit_suppress >= Cardinality(Live(TestKinds))
  /\ exec_subshell_depth \in Nat /\ exec_subshell_depth >= Cardinality(Live(ShellKinds))
  /\ sh_subshell \in Nat /\ sh_subshell >= Cardinality(Live(ShellKinds))
  /\ ctl.how = "errexit" => ctl.op = "exit" /\ Live(TestKinds) = {}
  /\ \A j \in 1..Size : stack[j].then.how # "errexit"

(* Every step is one of these.                                             *)
LEMMA StepIs ==
  ASSUME Types, Safe, CountsOK, Next
  PROVE  \/ Opens \/ Ending \/ Rests \/ \E i : Leaps(i)
         \/ \E b : Suspends(b)
         \/ \E t : HangsOn(t)
         \/ eval_exit \/ sh_forked
<1>1. errexit_suppress \in Nat /\ functions_running \in Nat /\ exec_subshell_depth \in Nat /\ sh_subshell \in Nat
  BY DEF CountsOK
<1>2. CASE \/ sh_loop \/ eval_command \/ prefix_scope \/ eval_pipeline \/ builtin_eval \/ builtin_source \/ eval_for
           \/ eval_loop \/ loop_test \/ eval_if \/ exec_function \/ eval_subshell \/ trap_handler
  BY <1>1, <1>2, OpensIs
<1>3. CASE \/ command_end \/ test_end \/ loop_end \/ (loop_land /\ ctl.how = "break") \/ function_leave
           \/ subshell_leave \/ (source_end /\ eval_pop /\ ctl' = Run) \/ source_land \/ trap_end \/ trap_exit_end
  BY <1>1, <1>3, EndingIs
<1>4. CASE \/ builtin_trap \/ builtin_break \/ eval_return \/ builtin_exit \/ errexit \/ loop_again
           \/ (loop_land /\ ctl.how # "break") \/ subshell_end \/ child_end \/ script_end \/ Exited
  BY <1>4, Zenon DEF Rests
<1>5. CASE source_end
  <2>1. (eval_pop /\ ctl' = Run) \/ (ctl' = Do("exit") /\ UNCHANGED <<stack, chains>>)
    BY <1>5 DEF source_end
  <2> QED BY <1>3, <1>5, <2>1, Zenon DEF Rests
<1>6. CASE eval_jump
  <2>1. PICK b : b = Innermost(Bounds)
    OBVIOUS
  <2>2. PICK L : L = Loops(b)
    OBVIOUS
  <2>3. /\ ctl.op = "jump" /\ UNCHANGED <<counters, traps>>
        /\ \/ L # {} /\ Leap(NthLoop(L, ctl.n), ctl.how) /\ UNCHANGED sh
           \/ /\ L = {} /\ b # 0 /\ "SOURCE" \in stack[b].flags
              /\ stack' = [SubSeq(stack, 1, b) EXCEPT ![b].pending = ctl.n, ![b].pendcont = ctl.how = "continue"]
              /\ ctl' = DoAt("land", 0, "pending") /\ UNCHANGED chains
           \/ ctl' = Run /\ UNCHANGED <<stack, chains>>
    BY <1>6, <2>1, <2>2, Zenon DEF eval_jump
  <2>4. ~Pending /\ ctl.n \in Nat \ {0} /\ Size \in Nat
    BY <2>3, SizeIs DEF Pending, Safe, Types, Ctls
  <2>5. L \in SUBSET (1..Size) /\ (b # 0 => b \in 1..Size)
    BY <2>1, <2>2, <2>4, InnermostIn DEF Loops, Bounds
  <2>6. CASE L # {} /\ Leap(NthLoop(L, ctl.n), ctl.how) /\ UNCHANGED sh
    <3>1. PICK i : i = NthLoop(L, ctl.n)
      OBVIOUS
    <3>2. i \in L
      BY <2>4, <2>5, <2>6, <3>1, NthIs
    <3>3. Leaps(i)
      BY <2>1, <2>2, <2>3, <2>5, <2>6, <3>1, <3>2 DEF Leaps
    <3> QED BY <3>3
  <2>7. CASE /\ L = {} /\ b # 0 /\ "SOURCE" \in stack[b].flags
             /\ stack' = [SubSeq(stack, 1, b) EXCEPT ![b].pending = ctl.n, ![b].pendcont = ctl.how = "continue"]
             /\ ctl' = DoAt("land", 0, "pending") /\ UNCHANGED chains
    <3>1. Suspends(b)
      BY <2>1, <2>2, <2>3, <2>5, <2>7, Zenon DEF Suspends
    <3> QED BY <3>1
  <2>8. CASE ctl' = Run /\ UNCHANGED <<stack, chains>>
    BY <1>6, <2>8, Zenon DEF Rests
  <2> QED BY <2>3, <2>6, <2>7, <2>8
<1>7. CASE unwind
  <2>1. Leaps(ctl.n)
    BY <1>7 DEF unwind, Leaps, Safe
  <2> QED BY <2>1
<1>8. CASE destructor
  <2>1. CASE eval_push("exittrap", AfterDtor) /\ exit_trap' = "running" /\ ctl' = Run
    <3>1. HangsOn(AfterDtor)
      BY <1>8, <2>1 DEF destructor, HangsOn
    <3> QED BY <3>1
  <2>2. CASE ctl' = AfterDtor /\ UNCHANGED <<stack, chains, exit_trap>>
    BY <1>8, <2>2, Zenon DEF Rests
  <2> QED BY <1>8, <2>1, <2>2 DEF destructor
<1>9. CASE sh_exit
  <2>1. PICK t : t = IF ctl.how = "stray" THEN Run ELSE Done
    OBVIOUS
  <2>2. /\ ctl.op = "die" /\ UNCHANGED <<counters, sh_async_exit>>
        /\ \/ eval_push("exittrap", t) /\ exit_trap' = "running" /\ ctl' = Run
           \/ ctl' = t /\ UNCHANGED <<stack, chains, exit_trap>>
    BY <1>9, <2>1, Zenon DEF sh_exit
  <2>3. CASE eval_push("exittrap", t) /\ exit_trap' = "running" /\ ctl' = Run
    <3>1. HangsOn(t)
      BY <2>1, <2>2, <2>3 DEF HangsOn
    <3> QED BY <3>1
  <2>4. CASE ctl' = t /\ UNCHANGED <<stack, chains, exit_trap>>
    BY <1>9, <2>1, <2>4, Zenon DEF Rests
  <2> QED BY <2>2, <2>3, <2>4
<1>10. CASE eval_exit \/ sh_forked
  BY <1>10
<1>11. CASE loop_land
  BY <1>3, <1>4, <1>11
<1> QED BY <1>2, <1>3, <1>4, <1>5, <1>6, <1>7, <1>8, <1>9, <1>10, <1>11 DEF Next

LEMMA LiveCount ==
  ASSUME Types, NEW K
  PROVE  Cardinality(Live(K)) \in Nat /\ IsFiniteSet(Live(K))
  BY LiveIs, FS_CardinalityType

LEMMA CountFall ==
  ASSUME Types, NEW n, Keeps(n), NEW K
  PROVE  Cardinality(Live(K)') <= Cardinality(Live(K)) /\ Live(K)' \subseteq Live(K)
<1>1. Live(K)' \subseteq Live(K) /\ IsFiniteSet(Live(K))
  BY KeptLive, LiveIs
<1> QED BY <1>1, FS_Subset

LEMMA CountGrow ==
  ASSUME Types, NEW k, NEW t, Grown(k, t), NEW K
  PROVE  Cardinality(Live(K)') = Cardinality(Live(K)) + One(k \in K)
<1>1. Live(K)' = Live(K) \cup (IF k \in K THEN {Size + 1} ELSE {}) /\ Size \in Nat
  BY GrownLive, SizeIs
<1>2. IsFiniteSet(Live(K)) /\ Size + 1 \notin Live(K) /\ Cardinality(Live(K)) \in Nat
  BY <1>1, LiveIs, LiveCount
<1>3. CASE k \in K
  BY <1>1, <1>2, <1>3, FS_AddElement DEF One
<1>4. CASE k \notin K
  <2>1. Live(K)' = Live(K)
    BY <1>1, <1>4
  <2> QED BY <1>2, <1>4, <2>1 DEF One
<1> QED BY <1>3, <1>4

LEMMA CountEnd ==
  ASSUME Types, Size > 0, Keeps(Size - 1), NEW K
  PROVE  Cardinality(Live(K)') = Cardinality(Live(K)) - One(Top.kind \in K)
<1>1. Live(K)' = {i \in Live(K) : i <= Size - 1} /\ Size \in Nat /\ Live(K) \subseteq 1..Size
  BY KeptLive, SizeIs, LiveIs
<1>2. IsFiniteSet(Live(K)) /\ Cardinality(Live(K)) \in Nat
  BY LiveCount
<1>3. Size \in Live(K) <=> Top.kind \in K
  BY TopIs DEF Live
<1>4. Live(K)' = Live(K) \ {Size}
  BY <1>1
<1>5. CASE Top.kind \in K
  BY <1>2, <1>3, <1>4, <1>5, FS_RemoveElement DEF One
<1>6. CASE Top.kind \notin K
  <2>1. Live(K)' = Live(K)
    BY <1>3, <1>4, <1>6
  <2> QED BY <1>2, <1>6, <2>1 DEF One
<1> QED BY <1>5, <1>6

LEMMA FallCounts ==
  ASSUME Types, CountsOK, NEW n, Keeps(n), UNCHANGED counters, ctl'.how # "errexit" \/ (ctl'.op = "exit" /\ Live(TestKinds) = {})
  PROVE  CountsOK'
<1>1. \A K : Cardinality(Live(K)') <= Cardinality(Live(K)) /\ Live(K)' \subseteq Live(K) /\ Cardinality(Live(K)) \in Nat
  BY CountFall, LiveCount
<1>2. /\ functions_running' = functions_running /\ errexit_suppress' = errexit_suppress
      /\ exec_subshell_depth' = exec_subshell_depth /\ sh_subshell' = sh_subshell
  BY DEF counters
<1>3. \A K : Cardinality(Live(K)') \in Nat
  <2> SUFFICES ASSUME NEW K PROVE Cardinality(Live(K)') \in Nat
    OBVIOUS
  <2>1. IsFiniteSet(Live(K)) /\ Live(K)' \subseteq Live(K)
    BY <1>1, LiveIs
  <2>2. IsFiniteSet(Live(K)')
    BY <2>1, FS_Subset
  <2> QED BY <2>2, FS_CardinalityType
<1>4. functions_running' \in Nat /\ functions_running' >= Cardinality(Live({"function"})')
  BY <1>1, <1>2, <1>3 DEF CountsOK
<1>5. errexit_suppress' \in Nat /\ errexit_suppress' >= Cardinality(Live(TestKinds)')
  BY <1>1, <1>2, <1>3 DEF CountsOK
<1>6. exec_subshell_depth' \in Nat /\ exec_subshell_depth' >= Cardinality(Live(ShellKinds)')
  BY <1>1, <1>2, <1>3 DEF CountsOK
<1>7. sh_subshell' \in Nat /\ sh_subshell' >= Cardinality(Live(ShellKinds)')
  BY <1>1, <1>2, <1>3 DEF CountsOK
<1>8. \A j \in 1..Size' : stack'[j].then.how # "errexit"
  <2>1. Size \in Nat /\ n \in 0..Size /\ Size' = n /\ \A j \in 1..n : stack'[j].then = stack[j].then
    BY SizeIs DEF Keeps, Size
  <2> QED BY <2>1 DEF CountsOK
<1>9. ctl'.how = "errexit" => ctl'.op = "exit" /\ Live(TestKinds)' = {}
  BY <1>1
<1> QED BY <1>4, <1>5, <1>6, <1>7, <1>8, <1>9 DEF CountsOK

LEMMA RestsHow ==
  ASSUME Types, Safe, CountsOK, Rests
  PROVE  ctl'.how # "errexit" \/ (ctl'.op = "exit" /\ Live(TestKinds) = {})
<1>1. Run.how = "" /\ Done.how = ""
  BY CtlsAre
<1>2. Do("test").how = "" /\ Do("exit").how = "" /\ Do("leave").how = ""
  BY DEF Do
<1>3. \A op, n, how : DoAt(op, n, how).how = how /\ DoAt(op, n, how).op = op
  BY DEF DoAt
<1>4. CASE builtin_trap
  BY <1>1, <1>4 DEF builtin_trap, Commands
<1>5. CASE builtin_break
  BY <1>3, <1>5 DEF builtin_break
<1>6. CASE eval_jump /\ UNCHANGED <<stack, chains>> /\ ctl' = Run
  BY <1>1, <1>6
<1>7. CASE eval_return
  <2>1. PICK f : ctl' = IF f = 0 THEN Run ELSE DoAt("dtor", f, "return")
    BY <1>7 DEF eval_return
  <2> QED BY <2>1 DEF Run, Do, DoAt
<1>8. CASE builtin_exit
  BY <1>3, <1>8 DEF builtin_exit
<1>9. CASE errexit
  <2>1. ctl' = DoAt("exit", 0, "errexit") /\ errexit_suppress = 0
    BY <1>9 DEF errexit
  <2>2. Cardinality(Live(TestKinds)) = 0 /\ IsFiniteSet(Live(TestKinds))
    BY <2>1, LiveCount DEF CountsOK
  <2>3. Live(TestKinds) = {}
    BY <2>2, FS_EmptySet
  <2> QED BY <1>3, <2>1, <2>3
<1>10. CASE destructor /\ UNCHANGED <<stack, chains, exit_trap>> /\ ctl' = AfterDtor
  <2>1. ctl.op = "dtor" /\ ctl.how # "errexit"
    BY <1>10 DEF destructor, CountsOK
  <2> QED BY <1>10, <2>1 DEF AfterDtor, Do, DoAt
<1>11. CASE sh_exit /\ UNCHANGED <<stack, chains, exit_trap>> /\ ctl' = IF ctl.how = "stray" THEN Run ELSE Done
  BY <1>1, <1>11
<1>12. CASE loop_again
  BY <1>2, <1>12 DEF loop_again
<1>13. CASE loop_land /\ ctl.how # "break"
  BY <1>1, <1>2, <1>13 DEF loop_land
<1>14. CASE subshell_end
  BY <1>14 DEF subshell_end, Do, DoAt
<1>15. CASE source_end /\ UNCHANGED <<stack, chains>> /\ ctl' = Do("exit")
  BY <1>2, <1>15
<1>16. CASE child_end
  <2>1. Do("exit").how # "errexit" /\ DoAt("die", 0, "end").how # "errexit"
    BY DEF Do, DoAt
  <2> QED BY <1>16, <2>1, Zenon DEF child_end
<1>17. CASE script_end
  BY <1>2, <1>17 DEF script_end
<1>18. CASE Exited
  BY <1>1, <1>18 DEF Exited, vars
<1> QED BY <1>4, <1>5, <1>6, <1>7, <1>8, <1>9, <1>10, <1>11, <1>12, <1>13, <1>14, <1>15, <1>16, <1>17, <1>18 DEF Rests

LEMMA OpeningCounts ==
  ASSUME Types, Safe, CountsOK, NEW k, Opening(k)
  PROVE  CountsOK'
<1>1. k \in Kinds /\ Run \in Ctls /\ Run.how = "" /\ eval_push(k, Run) /\ Size \in Nat
  BY CtlsAre, SizeIs DEF Opening
<1>2. Grown(k, Run)
  BY <1>1, PushFrame
<1>3. \A K : Cardinality(Live(K)') = Cardinality(Live(K)) + One(k \in K) /\ Cardinality(Live(K)) \in Nat
  BY <1>2, CountGrow, LiveCount
<1>4. functions_running' \in Nat /\ functions_running' >= Cardinality(Live({"function"})')
  BY <1>3 DEF Opening, CountsOK, One
<1>5. errexit_suppress' \in Nat /\ errexit_suppress' >= Cardinality(Live(TestKinds)')
  BY <1>3 DEF Opening, CountsOK, One
<1>6. exec_subshell_depth' \in Nat /\ exec_subshell_depth' >= Cardinality(Live(ShellKinds)')
  BY <1>3 DEF Opening, CountsOK, One
<1>7. sh_subshell' \in Nat /\ sh_subshell' >= Cardinality(Live(ShellKinds)')
  BY <1>3 DEF Opening, CountsOK, One
<1>8. \A j \in 1..Size' : stack'[j].then.how # "errexit"
  <2>1. /\ Size' = Size + 1 /\ stack'[Size + 1].then = Run /\ \A j \in 1..Size : stack'[j] = stack[j]
    BY <1>2 DEF Grown, Size
  <2>2. \A j \in 1..Size' : j = Size + 1 \/ j \in 1..Size
    BY SizeIs, <2>1
  <2> QED BY <1>1, <2>1, <2>2 DEF CountsOK
<1>9. ctl'.how = ""
  <2>1. Do("test").how = ""
    BY DEF Do
  <2> QED BY <1>1, <2>1 DEF Opening
<1> QED BY <1>4, <1>5, <1>6, <1>7, <1>8, <1>9 DEF CountsOK

LEMMA EndingCounts ==
  ASSUME Types, Safe, CountsOK, Ending
  PROVE  CountsOK'
<1>1. Size \in Nat /\ Size > 0 /\ Keeps(Size - 1) /\ Size \in 1..Size
  BY SizeIs, EndingSafe DEF Falls, Ending
<1>2. \A K : Cardinality(Live(K)') = Cardinality(Live(K)) - One(Top.kind \in K) /\ Cardinality(Live(K)) \in Nat
             /\ Cardinality(Live(K)') \in Nat
  <2>2. ASSUME NEW K PROVE Cardinality(Live(K)') \in Nat
    <3>1. IsFiniteSet(Live(K)) /\ Live(K)' \subseteq Live(K)
      BY <1>1, CountFall, LiveIs
    <3>2. IsFiniteSet(Live(K)')
      BY <3>1, FS_Subset
    <3> QED BY <3>2, FS_CardinalityType
  <2> QED BY <1>1, <2>2, CountEnd, LiveCount
<1>3. functions_running' \in Nat /\ functions_running' >= Cardinality(Live({"function"})')
  BY <1>2 DEF Ending, EndCounts, CountsOK, One
<1>4. errexit_suppress' \in Nat /\ errexit_suppress' >= Cardinality(Live(TestKinds)')
  BY <1>2 DEF Ending, EndCounts, CountsOK, One
<1>5. exec_subshell_depth' \in Nat /\ exec_subshell_depth' >= Cardinality(Live(ShellKinds)')
  BY <1>2 DEF Ending, EndCounts, CountsOK, One
<1>6. sh_subshell' \in Nat /\ sh_subshell' >= Cardinality(Live(ShellKinds)')
  BY <1>2 DEF Ending, EndCounts, CountsOK, One
<1>7. \A j \in 1..Size' : stack'[j].then.how # "errexit"
  <2>1. Size' = Size - 1 /\ \A j \in 1..(Size - 1) : stack'[j].then = stack[j].then
    BY <1>1 DEF Keeps, Size
  <2> QED BY <1>1, <2>1 DEF CountsOK
<1>8. ctl'.how # "errexit"
  <2>1. Do("leave").how = "" /\ Do("exit").how = "" /\ Run.how = ""
    BY DEF Do, Run
  <2>2. Top.then.how # "errexit"
    BY <1>1 DEF CountsOK, Top
  <2> QED BY <2>1, <2>2 DEF Ending, EndCtl
<1> QED BY <1>3, <1>4, <1>5, <1>6, <1>7, <1>8 DEF CountsOK

LEMMA HangsCounts ==
  ASSUME Types, Safe, CountsOK, NEW t, HangsOn(t)
  PROVE  CountsOK'
<1>1. Grown("exittrap", t)
  BY TrapsSafe
<1>2. ASSUME NEW K, "exittrap" \notin K PROVE Live(K)' = Live(K)
  <2>1. Live(K)' = Live(K) \cup (IF "exittrap" \in K THEN {Size + 1} ELSE {})
    BY <1>1, GrownLive
  <2> QED BY <1>2, <2>1
<1>3. /\ Live({"function"})' = Live({"function"}) /\ Live(TestKinds)' = Live(TestKinds)
      /\ Live(ShellKinds)' = Live(ShellKinds)
  BY <1>2 DEF TestKinds, ShellKinds
<1>4. t.how # "errexit"
  <2>1. Do("leave").how = "" /\ DoAt("unwind", ctl.n, ctl.how).how = ctl.how /\ Run.how = "" /\ Done.how = ""
    BY DEF Do, DoAt, Run, Done
  <2>2. ctl.op \in {"dtor", "die"} => ctl.how # "errexit"
    BY DEF CountsOK
  <2> QED BY <2>1, <2>2 DEF HangsOn, AfterDtor
<1>5. \A j \in 1..Size' : stack'[j].then.how # "errexit"
  <2>1. /\ Size' = Size + 1 /\ stack'[Size + 1].then = t /\ \A j \in 1..Size : stack'[j] = stack[j]
    BY <1>1 DEF Grown, Size
  <2>2. \A j \in 1..Size' : j = Size + 1 \/ j \in 1..Size
    BY SizeIs, <2>1
  <2> QED BY <1>4, <2>1, <2>2 DEF CountsOK
<1>6. ctl' = Run /\ UNCHANGED counters /\ ctl'.how = ""
  BY DEF HangsOn, Run, Do
<1> QED BY <1>3, <1>5, <1>6 DEF CountsOK, counters

LEMMA ForkCounts ==
  ASSUME Types, Safe, CountsOK, sh_forked
  PROVE  CountsOK'
<1>1. Size \in Nat /\ Forks /\ Size' = Size + 1
  BY ForkIs, SizeIs DEF Forks, Size
<1>2. \A j \in 1..Size' : j = Size + 1 \/ j \in 1..Size
  BY <1>1
<1>3. ASSUME NEW K, "child" \notin K PROVE Live(K)' = Live(K)
  <2>1. Live(K)' = {i \in 1..(Size + 1) : stack'[i].kind \in K}
    BY <1>1 DEF Live
  <2> QED BY <1>1, <1>3, <2>1 DEF Live, Forks
<1>4. /\ Live({"function"})' = Live({"function"}) /\ Live(TestKinds)' = Live(TestKinds)
      /\ Live(ShellKinds)' = Live(ShellKinds)
  BY <1>3 DEF TestKinds, ShellKinds
<1>5. \A j \in 1..Size' : stack'[j].then.how # "errexit"
  <2>1. Run.how # "errexit"
    BY DEF Run, Do
  <2> QED BY <1>1, <1>2, <2>1 DEF Forks, CountsOK
<1>6. ctl' = ctl /\ UNCHANGED counters
  BY DEF sh_forked
<1> QED BY <1>4, <1>5, <1>6 DEF CountsOK, counters

Base == Types /\ Safe /\ CountsOK

LEMMA BaseStep == Base /\ [Next]_vars => Base'
<1> SUFFICES ASSUME Types, Safe, CountsOK, [Next]_vars
             PROVE  Types' /\ Safe' /\ CountsOK'
  BY DEF Base
<1>1. CASE Opens
  <2>1. PICK k : Opening(k)
    BY <1>1 DEF Opens
  <2> QED BY <2>1, OpeningSafe, OpeningCounts
<1>2. CASE Ending
  BY <1>2, EndingSafe, EndingCounts
<1>3. CASE Rests
  <2>1. Resting
    BY <1>3, RestingIs
  <2>2. Falls(Size) /\ Keeps(Size) /\ GoodCtl(Size) /\ UNCHANGED counters /\ ~Pending
    BY <2>1 DEF Resting, Stays
  <2> QED BY <1>3, <2>2, FallSafe, FallCounts, RestsHow
<1>4. CASE \E i : Leaps(i)
  <2>1. PICK i : Leaps(i)
    BY <1>4
  <2>2. Types' /\ Safe' /\ Keeps(i)
    BY <2>1, LeapsSafe DEF Falls
  <2>3. UNCHANGED counters /\ ctl'.how # "errexit"
    <3>1. ctl' = DoAt("land", 0, ctl.how) /\ ctl.how # "errexit"
      BY <2>1 DEF Leaps, Leap, CountsOK
    <3>2. ctl'.how = ctl.how
      BY <3>1 DEF DoAt
    <3> QED BY <2>1, <3>1, <3>2 DEF Leaps
  <2> QED BY <2>2, <2>3, FallCounts
<1>5. CASE \E b : Suspends(b)
  <2>1. PICK b : Suspends(b)
    BY <1>5
  <2>2. Types' /\ Safe' /\ Keeps(b)
    BY <2>1, SuspendsSafe, SuspendsKeeps
  <2>3. UNCHANGED counters /\ ctl'.how # "errexit"
    BY <2>1 DEF Suspends, DoAt
  <2> QED BY <2>2, <2>3, FallCounts
<1>6. CASE \E t : HangsOn(t)
  BY <1>6, TrapsSafe, HangsCounts
<1>7. CASE eval_exit
  <2>1. /\ Types' /\ Safe' /\ Keeps(Size) /\ UNCHANGED counters /\ ctl'.how \in {"exit", "stray"}
    BY <1>7, ExitSafe DEF Falls
  <2> QED BY <2>1, FallCounts
<1>8. CASE sh_forked
  BY <1>8, ForkSafe, ForkCounts
<1>9. CASE UNCHANGED vars
  BY <1>9 DEF vars, chains, counters, traps, Types, Safe, CountsOK, Size, Top, Pending, Within, Ascends, Live, Resumes, KindOK
<1> QED BY <1>1, <1>2, <1>3, <1>4, <1>5, <1>6, <1>7, <1>8, <1>9, StepIs

LEMMA BaseInit == Init => Base
<1> SUFFICES ASSUME Init PROVE Types /\ Safe /\ CountsOK
  BY DEF Base
<1>1. /\ stack = <<>> /\ eval = <<>> /\ fdstack = <<>> /\ varstack = <<>> /\ source = <<>> /\ sh = <<>>
      /\ Size = 0 /\ Len(eval) = 0 /\ sh_async_exit = FALSE /\ exit_trap = "none"
  BY DEF Init, Size
<1>2. ctl \in Ctls /\ ctl.op = "run" /\ ctl.how = "" /\ ~Pending
  BY CtlsAre DEF Init, Pending
<1>3. Types
  <2>1. <<>> \in Seq(FrameSet) /\ <<>> \in Chain
    BY DEF Chain
  <2>2. "none" \in Traps
    BY DEF Traps
  <2>3. \A i \in 1..Size : FALSE
    BY <1>1
  <2> QED BY <1>1, <1>2, <2>1, <2>2, <2>3 DEF Types
<1>4. Safe
  <2>1. Ascends(eval) /\ Within(eval, Size)
    BY <1>1 DEF Ascends, Within
  <2>2. \A i \in 1..Size : FALSE
    BY <1>1
  <2> QED BY <1>2, <2>1, <2>2 DEF Safe
<1>5. \A K : Live(K) = {}
  BY <1>1 DEF Live
<1>6. CountsOK
  <2>1. Cardinality({}) = 0
    BY FS_EmptySet
  <2>2. Cardinality(Live({"function"})) = 0 /\ Cardinality(Live(TestKinds)) = 0 /\ Cardinality(Live(ShellKinds)) = 0
    BY <1>5, <2>1
  <2>3. functions_running = 0 /\ errexit_suppress = 0 /\ exec_subshell_depth = 0 /\ sh_subshell = 0
    BY DEF Init
  <2>4. \A i \in 1..Size : FALSE
    BY <1>1
  <2>5. ctl.how # "errexit"
    BY <1>2
  <2>6. 0 \in Nat /\ 0 >= 0
    OBVIOUS
  <2> QED BY <2>2, <2>3, <2>4, <2>5, <2>6 DEF CountsOK
<1> QED BY <1>3, <1>4, <1>6

(* For every script, whatever it runs in its traps and however it jumps:   *)
(* exec_function_leave() frees no function body whose call is running, and *)
(* set -e never ends a shell from a command that a test waits for.         *)
THEOREM CountsNeverLow == Spec => []CountsHeld
<1>1. Base => CountsHeld
  BY DEF Base, CountsOK, CountsHeld, BodiesKept, ErrexitExempt
<1> QED BY <1>1, BaseInit, BaseStep, PTL DEF Spec

-----------------------------------------------------------------------------
(* Frames, environments and what an EXIT trap dooms *)

LEMMA DoomIs ==
  ASSUME NEW i
  PROVE  Doomed(i) <=> \E j \in Live({"exittrap"}) :
           i < j /\ ((stack[j].then.op = "unwind" /\ i > stack[j].then.n) \/ stack[j].then.op = "done")
  BY Zenon DEF Doomed

LEMMA NoDoom ==
  ASSUME Types, NEW i \in Nat, \A j \in Live({"exittrap"}) : j <= i
  PROVE  ~Doomed(i)
<1>1. Live({"exittrap"}) \subseteq 1..Size /\ Size \in Nat
  BY LiveIs, SizeIs
<1>2. \A j \in Live({"exittrap"}) : ~(i < j)
  BY <1>1
<1> QED BY <1>2, DoomIs

LEMMA ChainsLive ==
  ASSUME Types, ChainsOK
  PROVE  /\ ~Pending => In(eval) \subseteq Live(FrameKinds)
         /\ In(sh) \subseteq Live(EnvKinds) /\ \A x \in In(sh) : x > ChildAt
<1>1. Size \in Nat
  BY SizeIs
<1>2. ASSUME NEW s \in Chain, NEW K, In(s) \cap (1..Size) \subseteq Live(K), Within(s, Size)
      PROVE  In(s) \subseteq Live(K)
  <2>1. \A x \in In(s) : x \in 1..Size
    BY <1>1, <1>2 DEF In, Chain, Within
  <2> QED BY <1>2, <2>1
<1>3. ~Pending => In(eval) \subseteq Live(FrameKinds)
  BY <1>2 DEF Types, ChainsOK, Linked
<1>4. In(sh) \subseteq Live(EnvKinds)
  BY <1>2 DEF Types, ChainsOK, Linked
<1>5. \A x \in In(sh) : x > ChildAt
  BY DEF In, ChainsOK
<1> QED BY <1>3, <1>4, <1>5

(* With no EXIT trap running and no exit under way, every frame and        *)
(* environment is linked.                                                  *)
LEMMA QuietLinks ==
  ASSUME Types, ChainsOK, Quiet, ctl.op \notin {"die", "done", "dtor", "unwind"}
  PROVE  /\ Live(FrameKinds) \subseteq In(eval) /\ \A i \in Live(EnvKinds) : i > ChildAt => i \in In(sh)
         /\ \A i : ~Gone(i)
<1>1. \A i : ~Doomed(i)
  BY DoomIs DEF Quiet
<1>2. \A i : ~Gone(i)
  BY <1>1 DEF Gone
<1>3. Live(FrameKinds) \subseteq 1..Size /\ Size \in Nat
  BY LiveIs, SizeIs
<1>4. Live(FrameKinds) \subseteq Must(FrameKinds, 0)
  BY <1>2, <1>3 DEF Must
<1>5. \A i \in Live(EnvKinds) : i > ChildAt => i \in Must(EnvKinds, ChildAt)
  BY <1>2 DEF Must
<1> QED BY <1>2, <1>4, <1>5 DEF ChainsOK, Linked

(* Frames of this process, and what their flags say.                       *)
LEMMA OwnFrame ==
  ASSUME Types, ShapeOK, NEW i \in 1..Size, i > ChildAt
  PROVE  /\ stack[i].jump <=> stack[i].kind \in JumpKinds
         /\ "FUNCTION" \in stack[i].flags <=> stack[i].kind = "function"
         /\ "SOURCE" \in stack[i].flags <=> stack[i].kind = "source"
         /\ "LOOP" \in stack[i].flags <=> stack[i].kind \in LoopKinds
         /\ "ROOT" \in stack[i].flags <=> stack[i].kind \in {"line", "subshell", "subst", "eval", "source"}
         /\ "EVAL" \in stack[i].flags <=> stack[i].kind = "eval" \/ (stack[i].kind = "line" /\ i > 1)
<1>1. stack[i] \in FrameSet
  BY DEF Types, Size
<1>2. stack[i].kind \in Kinds
  BY <1>1 DEF FrameSet
<1>3. FrameOK(i)
  BY DEF ShapeOK
<1>4. stack[i].flags = FlagsOf(stack[i].kind, i) /\ (stack[i].jump <=> stack[i].kind \in JumpKinds)
  BY <1>3 DEF FrameOK
<1> QED BY <1>2, <1>4, FlagsAre

LEMMA JumpFrame ==
  ASSUME Types, ShapeOK, NEW i \in 1..Size, stack[i].jump
  PROVE  i > ChildAt /\ stack[i].kind \in JumpKinds
<1>1. FrameOK(i)
  BY DEF ShapeOK
<1> QED BY <1>1 DEF FrameOK

(* In the body of an EXIT trap no control runs.                            *)
LEMMA MayQuiet ==
  ASSUME Types, ShapeOK, Tame, NEW c, May(c)
  PROVE  Quiet /\ ctl = Run
<1>1. Size \in Nat /\ ctl = Run
  BY SizeIs DEF May, Commands
<1> DEFINE S == {0} \cup {i \in 1..Size : stack[i].kind \in TrapKinds}
<1>2. S \in SUBSET (0..Size) /\ S # {}
  BY <1>1
<1>3. Highest(S) \in S /\ \A h \in S : h <= Highest(S)
  BY <1>1, <1>2, HighestOf
<1>4. SUFFICES ASSUME NEW j \in Live({"exittrap"}) PROVE FALSE
  BY <1>1 DEF Quiet
<1>5. j \in S /\ j \in 1..Size
  BY DEF Live, TrapKinds
<1>6. PICK m : m = Highest(S)
  OBVIOUS
<1>7. m \in 1..Size /\ stack[m].kind \in TrapKinds /\ j <= m
  BY <1>1, <1>3, <1>5, <1>6
<1>8. stack[m].kind = "exittrap"
  <2> SUFFICES ASSUME stack[m].kind # "exittrap" PROVE FALSE
    OBVIOUS
  <2>1. m \in Live({"trap"})
    BY <1>7 DEF Live, TrapKinds
  <2>2. m < j
    BY <2>1 DEF ShapeOK
  <2> QED BY <1>5, <1>7, <2>2
<1>9. Body = "exittrap"
  <2>1. Body = Kind(m)
    BY <1>6 DEF Body
  <2> QED BY <1>7, <1>8, <2>1 DEF Kind
<1> QED BY <1>9 DEF May, Tame
LEMMA GoneDoomed ==
  ASSUME ctl.op \notin {"die", "done", "dtor", "unwind"}, NEW i
  PROVE  Gone(i) <=> Doomed(i)
  BY Zenon DEF Gone

-----------------------------------------------------------------------------
(* The invariant is kept: constructs that are entered *)

(* Between two commands every phase condition holds.                       *)
LEMMA RunPhase ==
  ASSUME ctl' \in {Run, Do("test"), Done, Do("leave")}
  PROVE  PhaseOK' /\ ~Pending'
<1>0. Run.op = "run" /\ Do("test").op = "test" /\ Done.op = "done" /\ Do("leave").op = "leave"
  BY DEF Run, Done, Do
<1>1. ctl'.op \in {"run", "test", "done", "leave"} /\ (ctl'.op = "run" => ctl' = Run) /\ (ctl'.op = "leave" => ctl' = Do("leave"))
  BY <1>0
<1>2. /\ ctl'.op # "jump" /\ ctl'.op # "exit" /\ ctl'.op \notin {"dtor", "unwind"} /\ ctl'.op # "land"
      /\ ctl'.op # "die"
  BY <1>1
<1> QED BY ONLY <1>1, <1>2 DEF PhaseOK, Pending

LEMMA PushEnv ==
  ASSUME Types, NEW k, NEW t, eval_push(k, t)
  PROVE  In(sh)' \subseteq In(sh) \cup {Size + 1}
<1>1. sh' = Pushed(sh, EnvKinds, k) /\ sh \in Chain /\ Size \in Nat
  BY SizeIs DEF eval_push, Types
<1>2. CASE k \in EnvKinds
  <2>1. sh' = Append(sh, Size + 1)
    BY <1>1, <1>2 DEF Pushed
  <2>2. Len(sh') = Len(sh) + 1 /\ Len(sh) \in Nat /\ sh'[Len(sh) + 1] = Size + 1 /\ \A a \in 1..Len(sh) : sh'[a] = sh[a]
    BY <2>1, <1>1 DEF Chain
  <2> QED BY <2>2 DEF In
<1>3. CASE k \notin EnvKinds
  <2>1. sh' = sh
    BY <1>1, <1>3 DEF Pushed
  <2> QED BY <2>1 DEF In
<1> QED BY <1>2, <1>3

LEMMA OpeningInv ==
  ASSUME EvalInv, NEW k, Opening(k)
  PROVE  EvalInv'
<1>1. Types /\ Safe /\ ChainsOK /\ ShapeOK /\ PhaseOK
  BY DEF EvalInv
<1>2. Types' /\ Safe'
  BY <1>1, OpeningSafe
<1>3. /\ eval_push(k, Run) /\ k \in Kinds /\ k # "child" /\ k # "exittrap" /\ (k = "source" => k \in Constructs)
      /\ k = "trap" => ~InTrap
      /\ ctl.op \in {"run", "test"} /\ ctl' \in {Run, Do("test")}
  BY CtlsAre DEF Opening
<1>4. Run \in Ctls
  BY CtlsAre
<1>5. Grown(k, Run)
  BY <1>1, <1>3, <1>4, PushFrame
<1>6. PhaseOK'
  BY <1>3, RunPhase
<1>7. ~Pending
  BY <1>3 DEF Pending
<1>8. ASSUME NEW i \in 1..Size, Gone(i) PROVE Gone(i)'
  <2>1. Doomed(i)
    BY <1>3, <1>8, GoneDoomed
  <2>2. Doomed(i)'
    BY <2>1, <1>1, <1>5, GrownDoom
  <2> QED BY <2>2 DEF Gone
<1>9. ChainsOK'
  BY <1>1, <1>3, <1>4, <1>7, <1>8, PushChains
<1>10. In(sh)' \subseteq In(sh) \cup {Size + 1}
  BY <1>1, <1>3, PushEnv
<1>11. k = "trap" => Quiet
  BY <1>3 DEF InTrap, Quiet, Live, TrapKinds
<1>12. ShapeOK'
  BY <1>1, <1>3, <1>5, <1>10, <1>11, GrownShape
<1> QED BY <1>2, <1>6, <1>9, <1>12 DEF EvalInv

LEMMA JumpPhase ==
  ASSUME \/ ctl'.op = "jump" /\ Quiet'
         \/ ctl'.op = "exit" /\ (Quiet \/ (Size > 0 /\ Top.kind \in {"source", "child"}))'
         \/ ctl'.op \in {"dtor", "unwind"} /\ Aimed'
         \/ ctl'.op = "die" /\ ctl'.how \in {"exit", "end"}
  PROVE  PhaseOK' /\ ~Pending'
<1>1. CASE ctl'.op = "jump" /\ Quiet'
  BY ONLY <1>1 DEF PhaseOK, Pending
<1>2. CASE ctl'.op = "exit" /\ (Quiet \/ (Size > 0 /\ Top.kind \in {"source", "child"}))'
  <2>1. ctl'.op # "run" /\ ctl'.op # "jump" /\ ctl'.op \notin {"dtor", "unwind"} /\ ctl'.op # "land" /\ ctl'.op # "leave" /\ ctl'.op # "die"
    BY <1>2
  <2> QED BY ONLY <1>2, <2>1, Zenon DEF PhaseOK, Pending
<1>3. CASE ctl'.op \in {"dtor", "unwind"} /\ Aimed'
  <2>1. ctl'.op # "run" /\ ctl'.op # "jump" /\ ctl'.op # "exit" /\ ctl'.op # "land" /\ ctl'.op # "leave" /\ ctl'.op # "die"
    BY <1>3
  <2> QED BY ONLY <1>3, <2>1, Zenon DEF PhaseOK, Pending
<1>4. CASE ctl'.op = "die" /\ ctl'.how \in {"exit", "end"}
  BY ONLY <1>4 DEF PhaseOK, Pending
<1> QED BY <1>1, <1>2, <1>3, <1>4

LEMMA PhaseIs ==
  ASSUME PhaseOK
  PROVE  /\ ctl.op = "run" => ctl = Run
         /\ ctl.op = "jump" => Quiet
         /\ ctl.op = "exit" => Quiet \/ (Size > 0 /\ Top.kind \in {"source", "child"})
         /\ ctl.op = "dtor" \/ ctl.op = "unwind" => Aimed
         /\ ctl.op = "land" => (Quiet \/ Top.kind = "source") /\ (Pending => Quiet)
         /\ ctl.op = "leave" => ctl = Do("leave")
         /\ ctl.op = "die" => ctl.how \in {"exit", "end"}
<1>1. ctl.op = "dtor" \/ ctl.op = "unwind" => ctl.op \in {"dtor", "unwind"}
  OBVIOUS
<1> QED BY ONLY <1>1, PhaseOK, Zenon DEF PhaseOK

-----------------------------------------------------------------------------
(* Activations that end *)

LEMMA EndingPops ==
  ASSUME EvalInv, Ending
  PROVE  /\ Popped(Size - 1) /\ ChildAt <= Size - 1 /\ \A i \in 1..(Size - 1) : Gone(i) => Gone(i)'
<1>1. Types /\ Safe /\ ChainsOK /\ ShapeOK /\ PhaseOK
  BY DEF EvalInv
<1>2. /\ Size > 0 /\ eval_pop /\ ctl.op \in {"run", "land", "leave"} /\ Top.kind # "child" /\ EndCtl
  BY DEF Ending
<1>3. Size \in Nat /\ Size \in 1..Size /\ Top = stack[Size]
  BY <1>1, <1>2, SizeIs, TopIs
<1>4. ChildAt <= Size - 1
  <2>1. ChildAt \in 0..Size /\ (ChildAt # 0 => ChildAt \in Live({"child"}))
    BY <1>1, ChildIs
  <2>2. ChildAt # Size
    BY <2>1, <1>2, <1>3 DEF Live
  <2> QED BY <2>1, <2>2, <1>3
<1>5. \A i : Gone(i) <=> Doomed(i)
  BY <1>2, GoneDoomed
<1>6. \A j \in Live({"exittrap"}) : j <= Size
  BY <1>1, LiveIs, SizeIs
<1>7. ~Gone(Size)
  BY <1>1, <1>3, <1>5, <1>6, NoDoom
<1>8. Pending => Top.kind = "source"
  BY <1>1 DEF Safe
<1>9. Popped(Size - 1)
  BY <1>1, <1>2, <1>7, <1>8, PopPopped
<1>10. ASSUME NEW i \in 1..(Size - 1), Gone(i) PROVE Gone(i)'
  <2>1. PICK j \in Live({"exittrap"}) : i < j /\ ((stack[j].then.op = "unwind" /\ i > stack[j].then.n) \/ stack[j].then.op = "done")
    BY <1>5, <1>10, DoomIs
  <2>2. CASE j <= Size - 1
    <3>1. Keeps(Size - 1)
      BY <1>9 DEF Popped
    <3>2. j \in Live({"exittrap"})'
      BY <2>2, <3>1, <1>1, KeptLive
    <3>3. stack'[j].then = stack[j].then
      BY <2>2, <3>1, <1>3, <1>1, LiveIs DEF Keeps
    <3>4. Doomed(i)'
      BY <2>1, <3>2, <3>3, Zenon DEF Doomed
    <3> QED BY <3>4 DEF Gone
  <2>3. CASE ~(j <= Size - 1)
    <3>1. j = Size
      BY <2>3, <1>6, <1>3, <1>1, LiveIs
    <3>2. Top.kind = "exittrap"
      BY <3>1, <1>3 DEF Live
    <3>3. ctl' = Top.then
      BY <3>2, <1>2 DEF EndCtl, ShellKinds
    <3>4. ctl' = stack[j].then
      BY <3>1, <3>3, <1>3
    <3>5. (ctl'.op = "unwind" /\ i > ctl'.n) \/ ctl'.op = "done"
      BY <3>4, <2>1
    <3>6. CASE ctl'.op = "done"
      BY <3>6 DEF Gone
    <3>7. CASE ctl'.op = "unwind" /\ i > ctl'.n
      BY <3>7 DEF Gone
    <3> QED BY <3>5, <3>6, <3>7
  <2> QED BY <2>2, <2>3
<1> QED BY <1>4, <1>9, <1>10

(* The chain of environments has lost entries only.                        *)
LEMMA PoppedEnv ==
  ASSUME Types, ChainsOK, NEW n \in Nat, Popped(n)
  PROVE  In(sh)' \subseteq In(sh) /\ \A x \in In(sh)' : x <= n
<1>1. sh \in Chain /\ Ascends(sh) /\ Upto(sh, n, sh')
  BY DEF Types, ChainsOK, Linked, Popped
<1>2. In(sh') = {x \in In(sh) : x <= n}
  BY <1>1, UptoIs
<1> QED BY <1>2 DEF In

LEMMA KeptQuiet ==
  ASSUME Types, NEW n, Keeps(n), Quiet \/ \A i \in Live({"exittrap"}) : i > n
  PROVE  Quiet'
<1>1. Live({"exittrap"})' = {i \in Live({"exittrap"}) : i <= n} /\ n \in Nat /\ Live({"exittrap"}) \subseteq 1..Size /\ Size \in Nat
  BY KeptLive, LiveIs, SizeIs DEF Keeps
<1>2. Live({"exittrap"})' = {}
  BY <1>1 DEF Quiet
<1> QED BY <1>2 DEF Quiet

LEMMA EndingPhase ==
  ASSUME EvalInv, Ending
  PROVE  PhaseOK'
<1>1. Types /\ Safe /\ ChainsOK /\ ShapeOK /\ PhaseOK
  BY DEF EvalInv
<1>2. /\ Size > 0 /\ ctl.op \in {"run", "land", "leave"} /\ EndCtl
  BY DEF Ending
<1>3. Size \in Nat /\ Size \in 1..Size /\ Top = stack[Size] /\ Size - 1 \in Nat
  BY <1>1, <1>2, SizeIs, TopIs
<1>4. Popped(Size - 1) /\ ChildAt <= Size - 1 /\ Keeps(Size - 1)
  BY EndingPops DEF Popped
<1>5. CASE ctl' = Run \/ ctl' = Do("leave")
  BY <1>5, RunPhase
<1>6. CASE Top.kind \in ShellKinds /\ ctl' = Do("exit") /\ ctl.how \in {"exit", "return"}
  <2>1. ctl.how # ""
    BY <1>6
  <2>0. Run.how = "" /\ Do("leave").how = ""
    BY DEF Run, Do
  <2>2. ctl # Run /\ ctl # Do("leave")
    BY <2>0, <2>1
  <2>3. ctl.op = "land"
    BY <2>2, <1>1, <1>2, PhaseIs
  <2>4. Quiet
    BY <2>3, <1>1, <1>6, PhaseIs DEF ShellKinds
  <2>5. Quiet'
    BY <2>4, <1>1, <1>4, KeptQuiet
  <2>6. Do("exit").op = "exit"
    BY DEF Do
  <2>7. ctl'.op = "exit"
    BY <2>6, <1>6
  <2> QED BY <2>5, <2>7, JumpPhase
<1>7. CASE Pending /\ ctl'.op = "jump"
  <2>1. Quiet
    BY <1>7, <1>1, PhaseIs DEF Pending
  <2>2. Quiet'
    BY <2>1, <1>1, <1>4, KeptQuiet
  <2> QED BY <2>2, <1>7, JumpPhase
<1>8. CASE Top.kind = "exittrap" /\ ctl' = Top.then
  <2>1. Size \in Live({"exittrap"})
    BY <1>3, <1>8 DEF Live
  <2>2. ThenOK(Size, Top.then)
    BY <2>1, <1>1, <1>3 DEF ShapeOK
  <2>3. ThenOK(Size, ctl')
    BY <2>2, <1>8
  <2>4. CASE ctl' = Done \/ ctl' = Do("leave")
    BY <2>4, RunPhase
  <2>5. CASE ctl'.op = "unwind"
    <3> DEFINE t == ctl'
    <3>1. /\ t.how \in {"exit", "return"} /\ t.n \in Live(FrameKinds) /\ t.n < Size
          /\ t.n > ChildAt
          /\ (t.n = Size - 1 /\ t.n \in Live({"source"})) \/ \A i \in Live({"exittrap"}) : i >= Size
          /\ \A i \in Live(ShellKinds) : i <= t.n \/ i > Size
          /\ \A x \in In(sh) : x <= t.n \/ x >= Size
      <4>1. ChildAt < Size
        BY <1>4, <1>3, <1>1, ChildIs
      <4> QED BY <2>3, <2>5, <4>1 DEF ThenOK
    <3>2. t.n \in 1..Size /\ t.n <= Size - 1
      BY <3>1, <1>1, <1>3, LiveIs
    <3>3. t.n \in Live(FrameKinds)'
      BY <3>1, <3>2, <1>1, <1>4, KeptLive
    <3>4. t.n > ChildAt'
      BY <3>1, <1>1, <1>4, KeptChild
    <3>5. Quiet' \/ (t.n = Size' /\ Top'.kind = "source")
      <4>1. CASE t.n = Size - 1 /\ t.n \in Live({"source"})
        <5>1. Size' = Size - 1 /\ Top' = stack'[Size']
          BY <1>4 DEF Keeps, Size, Top
        <5>2. stack'[t.n].kind = stack[t.n].kind
          BY <3>2, <1>4 DEF Keeps
        <5>3. stack[t.n].kind = "source"
          BY <4>1 DEF Live
        <5> QED BY <5>1, <5>2, <5>3, <4>1
      <4>2. CASE \A i \in Live({"exittrap"}) : i >= Size
        <5>1. \A i \in Live({"exittrap"}) : i > Size - 1
          BY <4>2, <1>3, <1>1, LiveIs
        <5> QED BY <5>1, <1>1, <1>4, KeptQuiet
      <4> QED BY <4>1, <4>2, <3>1
    <3>6. \A i \in Live(ShellKinds)' : i <= t.n
      <4>1. Live(ShellKinds)' = {i \in Live(ShellKinds) : i <= Size - 1} /\ Live(ShellKinds) \subseteq 1..Size
        BY <1>1, <1>4, KeptLive, LiveIs
      <4> QED BY <4>1, <3>1, <3>2, <1>3
    <3>7. \A x \in In(sh)' : x <= t.n
      <4>1. In(sh)' \subseteq In(sh) /\ \A x \in In(sh)' : x <= Size - 1
        BY <1>1, <1>3, <1>4, PoppedEnv
      <4>2. \A x \in In(sh) : x \in Nat
        BY <1>1 DEF Types, Chain, In
      <4> QED BY <4>1, <4>2, <3>1, <3>2, <1>3
    <3>8. Aimed'
      BY <3>1, <3>3, <3>4, <3>5, <3>6, <3>7, Zenon DEF Aimed
    <3> QED BY <3>8, <2>5, JumpPhase
  <2>6. ctl' \in {Done, Do("leave")} \/ ctl'.op = "unwind"
    BY <2>3 DEF ThenOK
  <2> QED BY <2>4, <2>5, <2>6
<1> QED BY <1>2, <1>5, <1>6, <1>7, <1>8 DEF EndCtl

LEMMA EndingInv ==
  ASSUME EvalInv, Ending
  PROVE  EvalInv'
<1>1. Types /\ Safe /\ ChainsOK /\ ShapeOK /\ PhaseOK
  BY DEF EvalInv
<1>2. Types' /\ Safe'
  BY <1>1, EndingSafe
<1>3. /\ Popped(Size - 1) /\ ChildAt <= Size - 1 /\ Keeps(Size - 1) /\ Size - 1 \in Nat
      /\ \A i \in 1..(Size - 1) : Gone(i) => Gone(i)'
  <2>1. Size > 0 /\ Size \in Nat
    BY <1>1, SizeIs DEF Ending
  <2> QED BY <2>1, EndingPops DEF Popped
<1>4. ChainsOK'
  BY <1>1, <1>3, PoppedChains
<1>5. In(sh)' \subseteq In(sh)
  BY <1>1, <1>3, PoppedEnv
<1>6. ShapeOK'
  BY <1>1, <1>3, <1>5, KeptShape
<1> QED BY <1>2, <1>4, <1>6, EndingPhase DEF EvalInv

-----------------------------------------------------------------------------
(* Steps that leave stack and chains alone *)

LEMMA StaysKept ==
  ASSUME Types, Stays
  PROVE  /\ \A K : Live(K)' = Live(K)
         /\ ChildAt' = ChildAt /\ In(sh)' = In(sh) /\ Size' = Size /\ (Size > 0 => Top'.kind = Top.kind)
         /\ \A i : Doomed(i) => Doomed(i)'
         /\ Quiet' <=> Quiet
<1>1. Keeps(Size) /\ Size \in Nat /\ sh' = sh
  BY SizeIs DEF Stays, chains
<1>2. ASSUME NEW K PROVE Live(K)' = Live(K)
  <2>1. Live(K)' = {i \in Live(K) : i <= Size} /\ Live(K) \subseteq 1..Size
    BY <1>1, KeptLive, LiveIs
  <2> QED BY <2>1, <1>1
<1>3. ChildAt' = ChildAt
  BY <1>1, KeptChild, ChildIs
<1>4. Size' = Size /\ (Size > 0 => Top'.kind = Top.kind)
  <2>1. Len(stack') = Size
    BY <1>1 DEF Keeps
  <2>2. Size > 0 => stack'[Size].kind = stack[Size].kind
    BY <1>1 DEF Keeps
  <2> QED BY <2>1, <2>2 DEF Size, Top
<1>5. \A j \in Live({"exittrap"}) : j <= Size
  BY <1>1, LiveIs
<1>6. \A i : Doomed(i) => Doomed(i)'
  BY <1>1, <1>5, KeptDoom
<1>7. Quiet' <=> Quiet
  <2>1. Live({"exittrap"})' = Live({"exittrap"})
    BY <1>2
  <2> QED BY <2>1 DEF Quiet
<1>8. In(sh)' = In(sh)
  BY <1>1 DEF In
<1> QED BY <1>2, <1>3, <1>4, <1>6, <1>7, <1>8

LEMMA RestInv ==
  ASSUME EvalInv, Resting, \A i \in 1..Size : Gone(i) => Gone(i)', PhaseOK'
  PROVE  EvalInv'
<1>1. Types /\ Safe /\ ChainsOK /\ ShapeOK
  BY DEF EvalInv
<1>2. Stays /\ Falls(Size) /\ GoodCtl(Size) /\ ~Pending
  BY DEF Resting
<1>3. Types' /\ Safe'
  BY <1>1, <1>2, FallSafe
<1>4. Popped(Size) /\ Keeps(Size)
  BY <1>1, <1>2, StayPopped DEF Popped
<1>5. ChildAt <= Size
  BY <1>1, ChildIs, SizeIs
<1>6. ChainsOK'
  BY <1>1, <1>4, <1>5, PoppedChains
<1>7. In(sh)' \subseteq In(sh)
  BY <1>1, <1>2, StaysKept
<1>8. ShapeOK'
  BY <1>1, <1>4, <1>5, <1>7, KeptShape
<1> QED BY <1>3, <1>6, <1>8 DEF EvalInv

LEMMA RestGone ==
  ASSUME Types, Stays, ctl.op \notin {"die", "done", "dtor", "unwind"}, NEW i, Gone(i)
  PROVE  Gone(i)'
<1>1. Doomed(i)
  BY GoneDoomed
<1>2. Doomed(i)'
  BY <1>1, StaysKept
<1> QED BY <1>2 DEF Gone

(* return goes to a frame outside which no environment is left behind.     *)
LEMMA ReturnAimed ==
  ASSUME EvalInv, Tame, eval_return, Stays, ctl' # Run
  PROVE  ctl'.op = "dtor" /\ Aimed'
<1>1. Types /\ Safe /\ ChainsOK /\ ShapeOK /\ PhaseOK
  BY DEF EvalInv
<1>2. May("return")
  BY DEF eval_return
<1>3. Quiet /\ ctl = Run
  BY <1>1, <1>2, MayQuiet
<1>4. ctl.op = "run"
  BY <1>3, CtlsAre
<1>5. ~Pending
  BY <1>4 DEF Pending
<1>6. PICK f : f = Innermost(Returnable)
  OBVIOUS
<1>7. f # 0 /\ ctl' = DoAt("dtor", f, "return")
  BY <1>6 DEF eval_return
<1>8. Returnable \subseteq In(eval)
  BY DEF Returnable
<1>9. f \in Returnable /\ f \in 1..Size /\ \A i \in Returnable : i \in 1..Size /\ i <= f
  BY <1>1, <1>5, <1>6, <1>7, <1>8, InnermostIn
<1>10. f \in Live(FrameKinds) /\ f > ChildAt
  <2>1. f \in In(eval) /\ stack[f].jump
    BY <1>9 DEF Returnable
  <2>2. f \in Live(FrameKinds)
    BY <2>1, <1>1, <1>5, ChainsLive
  <2>3. f > ChildAt
    BY <2>1, <1>9, <1>1, JumpFrame
  <2> QED BY <2>2, <2>3
<1>11. ctl.op \notin {"die", "done", "dtor", "unwind"}
  BY <1>4
<1>12. Live(FrameKinds) \subseteq In(eval)
  BY <1>1, <1>3, <1>11, QuietLinks
<1>13. ASSUME NEW i \in 1..Size, i > ChildAt, stack[i].kind \in {"function", "subshell", "subst"}
       PROVE  i <= f
  <2>1. i \in Live(FrameKinds)
    BY <1>13, FrameKindsAre DEF Live
  <2>2. stack[i].jump /\ {"FUNCTION", "ROOT"} \cap stack[i].flags # {}
    BY <1>13, <1>1, OwnFrame, JumpKindsAre
  <2>3. i \in Returnable
    BY <2>1, <2>2, <1>12 DEF Returnable
  <2> QED BY <2>3, <1>9
<1>14. \A i \in Live(ShellKinds) : i <= f
  <2> SUFFICES ASSUME NEW i \in Live(ShellKinds) PROVE i <= f
    OBVIOUS
  <2>1. i \in 1..Size /\ stack[i].kind \in {"subshell", "subst"}
    BY DEF Live, ShellKinds
  <2>2. CASE i > ChildAt
    BY <2>1, <2>2, <1>13
  <2>3. CASE ~(i > ChildAt)
    BY <2>1, <2>3, <1>10, <1>9, <1>1, ChildIs, SizeIs
  <2> QED BY <2>2, <2>3
<1>15. \A x \in In(sh) : x <= f
  <2> SUFFICES ASSUME NEW x \in In(sh) PROVE x <= f
    OBVIOUS
  <2>1. x \in Live(EnvKinds) /\ x > ChildAt
    BY <1>1, ChainsLive
  <2>2. x \in 1..Size /\ stack[x].kind \in {"function", "subshell", "subst"}
    BY <2>1, <1>3 DEF Live, EnvKinds, Quiet
  <2> QED BY <2>1, <2>2, <1>13
<1>16. f \in Nat
  BY <1>9
<1>17. ctl'.op = "dtor" /\ ctl'.n = f /\ ctl'.how = "return"
  BY ONLY <1>7 DEF DoAt
<1>18. /\ Live(FrameKinds)' = Live(FrameKinds) /\ Live(ShellKinds)' = Live(ShellKinds)
       /\ ChildAt' = ChildAt /\ In(sh)' = In(sh) /\ Quiet'
  BY <1>1, <1>3, StaysKept
<1>19. f \in Live(FrameKinds)' /\ f > ChildAt' /\ (\A i \in Live(ShellKinds)' : i <= f) /\ \A x \in In(sh)' : x <= f
  BY <1>10, <1>14, <1>15, <1>18
<1>20. ctl'.how \in {"exit", "return"}
  BY <1>17
<1>21. Aimed'
  BY <1>17, <1>18, <1>19, <1>20, Zenon DEF Aimed
<1> QED BY <1>17, <1>21

(* The subshell's own end goes to its own frame.                           *)
LEMMA SubshellAimed ==
  ASSUME EvalInv, Stays, ctl = Run, Size > 0, Top.kind \in ShellKinds, ctl' = DoAt("dtor", Size, "end")
  PROVE  ctl'.op = "dtor" /\ Aimed'
<1>1. Types /\ Safe /\ ChainsOK /\ ShapeOK /\ PhaseOK
  BY DEF EvalInv
<1>2. ctl'.op = "dtor" /\ ctl'.n = Size /\ ctl'.how = "end"
  BY DEF DoAt
<1>3. Size \in Nat /\ Size \in 1..Size /\ Top = stack[Size]
  BY <1>1, SizeIs, TopIs
<1>4. Size \in Live(FrameKinds)
  BY <1>3, FrameKindsAre DEF Live, ShellKinds
<1>5. Size > ChildAt
  <2>1. ChildAt \in 0..Size /\ (ChildAt # 0 => ChildAt \in Live({"child"}))
    BY <1>1, ChildIs
  <2>2. Size \notin Live({"child"})
    BY <1>3 DEF Live, ShellKinds
  <2> QED BY <2>1, <2>2, <1>3
<1>6. (\A i \in Live(ShellKinds) : i <= Size) /\ \A x \in In(sh) : x <= Size
  BY <1>1, <1>3, LiveIs, ChainsLive
<1>7. /\ Live(FrameKinds)' = Live(FrameKinds) /\ Live(ShellKinds)' = Live(ShellKinds)
      /\ ChildAt' = ChildAt /\ In(sh)' = In(sh) /\ Size' = Size
  BY <1>1, StaysKept
<1>8. /\ Size \in Live(FrameKinds)' /\ Size > ChildAt' /\ (\A i \in Live(ShellKinds)' : i <= Size)
      /\ \A x \in In(sh)' : x <= Size
  BY <1>4, <1>5, <1>6, <1>7
<1>9. Aimed'
  BY <1>2, <1>7, <1>8, Zenon DEF Aimed
<1> QED BY <1>2, <1>9

(* After the destructor the jump goes on as it was.                        *)
LEMMA DestructorRest ==
  ASSUME EvalInv, Stays, ctl.op = "dtor", ctl' = AfterDtor
  PROVE  PhaseOK' /\ \A i \in 1..Size : Gone(i) => Gone(i)'
<1>1. Types /\ Safe /\ ChainsOK /\ ShapeOK /\ PhaseOK
  BY DEF EvalInv
<1>2. Aimed
  BY <1>1, PhaseIs
<1>3. /\ Live(FrameKinds)' = Live(FrameKinds) /\ Live(ShellKinds)' = Live(ShellKinds)
      /\ ChildAt' = ChildAt /\ In(sh)' = In(sh) /\ Size' = Size /\ (Size > 0 => Top'.kind = Top.kind)
      /\ \A i : Doomed(i) => Doomed(i)'
      /\ Quiet' <=> Quiet
  BY <1>1, StaysKept
<1>4. ctl.n \in Live(FrameKinds) /\ ctl.n \in 1..Size /\ Size \in Nat
  BY <1>1, <1>2, LiveIs, SizeIs DEF Aimed
<1>5. CASE ctl.how = "end"
  <2>1. ctl.n = Size
    BY <1>5, <1>2 DEF Aimed
  <2>2. ctl' = Do("leave")
    BY <1>5 DEF AfterDtor
  <2>3. ASSUME NEW i \in 1..Size, Gone(i) PROVE Gone(i)'
    <3>1. ~(i > ctl.n) /\ ctl.op # "die" /\ ctl.op # "done"
      BY <2>1, <1>4
    <3>2. Doomed(i)
      <4>1. ctl.op \notin {"die", "done"}
        BY <3>1
      <4> QED BY <4>1, <3>1, <2>3, Zenon DEF Gone
    <3>3. Doomed(i)'
      BY <3>2, <1>3
    <3> QED BY <3>3 DEF Gone
  <2> QED BY <2>2, <2>3, RunPhase
<1>6. CASE ctl.how # "end"
  <2>1. ctl' = DoAt("unwind", ctl.n, ctl.how)
    BY <1>6 DEF AfterDtor
  <2>2. ctl'.op = "unwind" /\ ctl'.n = ctl.n /\ ctl'.how = ctl.how
    BY <2>1 DEF DoAt
  <2>3. ctl.how \in {"exit", "return"} /\ (Quiet \/ (ctl.n = Size /\ Top.kind = "source"))
    BY <1>2, <1>6 DEF Aimed
  <2>4. Quiet' \/ (ctl.n = Size' /\ Top'.kind = "source")
    BY <2>3, <1>3, <1>4
  <2>5. /\ ctl.n \in Live(FrameKinds)' /\ ctl.n > ChildAt' /\ (\A i \in Live(ShellKinds)' : i <= ctl.n)
        /\ \A x \in In(sh)' : x <= ctl.n
    BY <1>2, <1>3 DEF Aimed
  <2>6. Aimed'
    BY <2>2, <2>3, <2>4, <2>5, Zenon DEF Aimed
  <2>7. PhaseOK'
    BY <2>2, <2>6, JumpPhase
  <2>8. ASSUME NEW i \in 1..Size, Gone(i) PROVE Gone(i)'
    <3>1. ctl.op \notin {"die", "done"}
      OBVIOUS
    <3>2. Doomed(i) \/ i > ctl.n
      BY <3>1, <2>8, Zenon DEF Gone
    <3>3. Doomed(i)' \/ i > ctl'.n
      BY <3>2, <2>2, <1>3
    <3>4. ctl'.op \in {"dtor", "unwind"}
      BY <2>2
    <3> QED BY <3>3, <3>4, Zenon DEF Gone
  <2> QED BY <2>7, <2>8
<1> QED BY <1>5, <1>6

LEMMA RestsInv ==
  ASSUME EvalInv, Tame, Rests
  PROVE  EvalInv'
<1>1. Types /\ Safe /\ ChainsOK /\ ShapeOK /\ PhaseOK
  BY DEF EvalInv
<1>2. Resting /\ Stays
  BY <1>1, RestingIs DEF Resting
<1>3. Run.op = "run" /\ Done.op = "done" /\ Do("exit").op = "exit"
  BY DEF Run, Done, Do
<1> DEFINE Kept == \A i \in 1..Size : Gone(i) => Gone(i)'
<1>4. ASSUME ctl.op \in {"run", "jump", "land"} PROVE Kept
  <2>1. ctl.op \notin {"die", "done", "dtor", "unwind"}
    BY <1>4
  <2> QED BY <2>1, <1>1, <1>2, RestGone
<1>5. Size' = Size /\ (Size > 0 => Top'.kind = Top.kind) /\ (Quiet' <=> Quiet)
  BY <1>1, <1>2, StaysKept
<1>6. ASSUME Kept, PhaseOK' PROVE EvalInv'
  BY <1>2, <1>6, RestInv
<1>7. ASSUME ctl'.op = "done" PROVE Kept
  BY <1>7 DEF Gone
<1>8. ASSUME NEW c, May(c) PROVE ctl.op = "run" /\ Quiet'
  BY <1>1, <1>3, <1>5, <1>8, MayQuiet
<1> HIDE DEF Kept
<1>9. CASE builtin_trap
  <2>1. ctl = Run /\ ctl' = Run
    BY <1>9 DEF builtin_trap, Commands
  <2> QED BY <2>1, <1>3, <1>4, <1>6, RunPhase
<1>10. CASE builtin_break
  <2>1. PICK c, n : May(c) /\ ctl' = DoAt("jump", n, c)
    BY <1>10, Zenon DEF builtin_break
  <2>2. ctl'.op = "jump"
    BY ONLY <2>1 DEF DoAt
  <2> QED BY <2>1, <2>2, <1>4, <1>6, <1>8, JumpPhase
<1>11. CASE eval_jump /\ UNCHANGED <<stack, chains>> /\ ctl' = Run
  <2>1. ctl.op = "jump"
    BY <1>11 DEF eval_jump
  <2> QED BY <2>1, <1>4, <1>6, <1>11, RunPhase
<1>12. CASE eval_return
  <2>1. ctl.op = "run"
    BY <1>8, <1>12 DEF eval_return
  <2>2. CASE ctl' = Run
    BY <2>1, <2>2, <1>4, <1>6, RunPhase
  <2>3. CASE ctl' # Run
    BY <2>1, <2>3, <1>2, <1>4, <1>6, <1>12, ReturnAimed, JumpPhase
  <2> QED BY <2>2, <2>3
<1>13. CASE builtin_exit \/ errexit
  <2>1. PICK c, how : May(c) /\ ctl' = DoAt("exit", 0, how)
    BY <1>13, Zenon DEF builtin_exit, errexit
  <2>2. ctl'.op = "exit"
    BY ONLY <2>1 DEF DoAt
  <2> QED BY <2>1, <2>2, <1>4, <1>6, <1>8, JumpPhase
<1>14. CASE destructor /\ UNCHANGED <<stack, chains, exit_trap>> /\ ctl' = AfterDtor
  <2>1. ctl.op = "dtor"
    BY <1>14 DEF destructor
  <2> QED BY <2>1, <1>2, <1>6, <1>14, DestructorRest DEF Kept
<1>15. CASE sh_exit /\ UNCHANGED <<stack, chains, exit_trap>> /\ ctl' = IF ctl.how = "stray" THEN Run ELSE Done
  <2>1. ctl.op = "die"
    BY <1>15 DEF sh_exit
  <2>2. ctl' = Done
    BY <2>1, <1>1, <1>15, PhaseIs
  <2> QED BY <2>2, <1>3, <1>6, <1>7, RunPhase
<1>16. CASE loop_again
  <2>1. ctl = Run /\ ctl' = Do("test")
    BY <1>16 DEF loop_again
  <2> QED BY <2>1, <1>3, <1>4, <1>6, RunPhase
<1>17. CASE loop_land /\ ctl.how # "break"
  <2>1. ctl.op = "land" /\ (ctl' = Do("test") \/ ctl' = Run)
    BY <1>17 DEF loop_land
  <2> QED BY <2>1, <1>4, <1>6, RunPhase
<1>18. CASE subshell_end
  <2>1. /\ ctl = Run /\ stack # <<>> /\ Top.kind \in ShellKinds
        /\ ctl' = DoAt("dtor", Size, "end") \/ ctl' = Do("leave")
    BY <1>18 DEF subshell_end
  <2>2. Size > 0
    BY <2>1, <1>1 DEF Types, Size
  <2>3. PhaseOK'
    BY <2>1, <2>2, <1>2, SubshellAimed, JumpPhase, RunPhase
  <2> QED BY <2>1, <2>3, <1>3, <1>4, <1>6
<1>19. CASE source_end /\ UNCHANGED <<stack, chains>> /\ ctl' = Do("exit")
  <2>1. ctl = Run /\ stack # <<>> /\ Top.kind = "source"
    BY <1>19 DEF source_end
  <2>2. Size > 0
    BY <2>1, <1>1 DEF Types, Size
  <2>3. Size' > 0 /\ Top'.kind = "source" /\ ctl'.op = "exit"
    BY <2>1, <2>2, <1>3, <1>5, <1>19
  <2> QED BY <2>1, <2>3, <1>3, <1>4, <1>6, JumpPhase
<1>20. CASE child_end
  <2>1. ctl = Run /\ stack # <<>> /\ Top.kind = "child" /\ ctl' \in {DoAt("die", 0, "end"), Do("exit")}
    BY <1>20 DEF child_end
  <2>2. Size > 0
    BY <2>1, <1>1 DEF Types, Size
  <2>3. Size' > 0 /\ Top'.kind = "child"
    BY <2>1, <2>2, <1>5
  <2>4. DoAt("die", 0, "end").op = "die" /\ DoAt("die", 0, "end").how = "end"
    BY DEF DoAt
  <2>5. (ctl'.op = "die" /\ ctl'.how = "end") \/ ctl'.op = "exit"
    BY <2>1, <2>4, <1>3
  <2> QED BY <2>1, <2>3, <2>5, <1>3, <1>4, <1>6, JumpPhase
<1>21. CASE script_end
  <2>1. ctl = Run /\ stack = <<>> /\ ctl' = Do("exit")
    BY <1>21 DEF script_end
  <2>2. Quiet
    BY <2>1 DEF Quiet, Live, Size
  <2>3. ctl'.op = "exit" /\ Quiet'
    BY <2>1, <2>2, <1>3, <1>5
  <2> QED BY <2>1, <2>3, <1>3, <1>4, <1>6, JumpPhase
<1>22. CASE Exited
  <2>1. ctl' = Done
    BY <1>22 DEF Exited, vars
  <2> QED BY <2>1, <1>3, <1>6, <1>7, RunPhase
<1> QED BY <1>9, <1>10, <1>11, <1>12, <1>13, <1>14, <1>15, <1>16, <1>17, <1>18, <1>19, <1>20, <1>21, <1>22 DEF Rests

-----------------------------------------------------------------------------
(* Jumps *)

LEMMA LandPhase ==
  ASSUME ctl'.op = "land", Quiet' \/ Top'.kind = "source", Pending' => Quiet'
  PROVE  PhaseOK'
<1>1. ctl'.op # "run" /\ ctl'.op # "jump" /\ ctl'.op # "exit" /\ ctl'.op \notin {"dtor", "unwind"} /\ ctl'.op # "leave" /\ ctl'.op # "die"
  OBVIOUS
<1> QED BY <1>1, Zenon DEF PhaseOK

(* break and continue look no further than the innermost function,         *)
(* subshell or substitution of this process.                               *)
LEMMA BoundsHold ==
  ASSUME EvalInv, ctl.op = "jump"
  PROVE  /\ Quiet /\ ~Pending /\ (\A i : ~Gone(i)) /\ In(eval) \subseteq Live(FrameKinds)
         /\ \A x \in 1..Size : x > ChildAt /\ stack[x].kind \in {"function", "subshell", "subst"} => x <= Innermost(Bounds)
         /\ \A x \in In(sh) : x > ChildAt /\ x \in 1..Size /\ stack[x].kind \in {"function", "subshell", "subst"}
<1>1. Types /\ Safe /\ ChainsOK /\ ShapeOK /\ PhaseOK
  BY DEF EvalInv
<1>2. Quiet
  BY <1>1, PhaseIs
<1>3. ~Pending
  BY DEF Pending
<1>4. ctl.op \notin {"die", "done", "dtor", "unwind"}
  OBVIOUS
<1>5. Live(FrameKinds) \subseteq In(eval) /\ \A i : ~Gone(i)
  BY <1>1, <1>2, <1>4, QuietLinks
<1>6. Bounds \subseteq In(eval)
  BY DEF Bounds
<1>7. \A i \in Bounds : i <= Innermost(Bounds)
  BY <1>1, <1>3, <1>6, InnermostIn
<1>8. ASSUME NEW x \in 1..Size, x > ChildAt, stack[x].kind \in {"function", "subshell", "subst"}
      PROVE  x <= Innermost(Bounds)
  <2>1. x \in In(eval)
    BY <1>5, <1>8, FrameKindsAre DEF Live
  <2>2. {"SOURCE", "FUNCTION"} \cap stack[x].flags # {} \/ ("ROOT" \in stack[x].flags /\ "EVAL" \notin stack[x].flags)
    BY <1>8, <1>1, OwnFrame
  <2>3. x \in Bounds
    BY <2>1, <2>2, Zenon DEF Bounds
  <2> QED BY <2>3, <1>7
<1>9. ASSUME NEW x \in In(sh) PROVE x > ChildAt /\ x \in 1..Size /\ stack[x].kind \in {"function", "subshell", "subst"}
  <2>1. x \in Live(EnvKinds) /\ x > ChildAt
    BY <1>1, ChainsLive
  <2> QED BY <2>1, <1>2 DEF Live, EnvKinds, Quiet
<1>10. In(eval) \subseteq Live(FrameKinds)
  BY <1>1, <1>3, ChainsLive
<1> QED BY <1>2, <1>3, <1>5, <1>8, <1>9, <1>10

(* What a jump to frame i needs.                                           *)
Target(i) == /\ i \in Live(FrameKinds) /\ i > ChildAt /\ ~Gone(i) /\ (\A x \in In(sh) : x <= i)
             /\ (\A x \in 1..i : Gone(x) => Doomed(x))
             /\ Quiet \/ (i = Size /\ Top.kind = "source" /\ ctl.how # "pending")

LEMMA LeapsTarget ==
  ASSUME EvalInv, NEW i, Leaps(i)
  PROVE  Target(i)
<1>1. Types /\ Safe /\ ChainsOK /\ ShapeOK /\ PhaseOK
  BY DEF EvalInv
<1>2. CASE ctl.op = "unwind" /\ i = ctl.n
  <2>1. Aimed
    BY <1>1, <1>2, PhaseIs
  <2>2. i \in Live(FrameKinds) /\ i > ChildAt /\ i \in 1..Size /\ Size \in Nat
    BY <2>1, <1>1, <1>2, LiveIs, SizeIs DEF Aimed
  <2>3. ctl.op \notin {"die", "done"}
    BY <1>2
  <2>4. ASSUME NEW x \in 1..i, Gone(x) PROVE Doomed(x)
    <3>1. ~(x > ctl.n)
      BY <1>2, <2>2
    <3> QED BY <3>1, <2>3, <2>4, Zenon DEF Gone
  <2>5. ~Doomed(i)
    <3>1. CASE Quiet
      BY <3>1, DoomIs DEF Quiet
    <3>2. CASE i = Size
      BY <3>2, <1>1, <2>2, NoDoom, LiveIs
    <3> QED BY <3>1, <3>2, <2>1, <1>2 DEF Aimed
  <2>6. ~Gone(i)
    BY <2>2, <2>4, <2>5
  <2>7. (\A x \in In(sh) : x <= i) /\ (Quiet \/ (i = Size /\ Top.kind = "source" /\ ctl.how # "pending"))
    BY <2>1, <1>2 DEF Aimed
  <2> QED BY <2>2, <2>4, <2>6, <2>7 DEF Target
<1>3. CASE ctl.op = "jump" /\ i \in Loops(Innermost(Bounds))
  <2>1. /\ Quiet /\ ~Pending /\ (\A x : ~Gone(x)) /\ In(eval) \subseteq Live(FrameKinds)
        /\ \A x \in 1..Size : x > ChildAt /\ stack[x].kind \in {"function", "subshell", "subst"} => x <= Innermost(Bounds)
        /\ \A x \in In(sh) : x > ChildAt /\ x \in 1..Size /\ stack[x].kind \in {"function", "subshell", "subst"}
    BY <1>3, BoundsHold
  <2>2. i \in In(eval) /\ i > Innermost(Bounds) /\ stack[i].jump
    BY <1>3 DEF Loops
  <2>3. i \in Live(FrameKinds) /\ i \in 1..Size
    BY <2>1, <2>2, <1>1, LiveIs
  <2>4. i > ChildAt
    BY <2>2, <2>3, <1>1, JumpFrame
  <2>5. Bounds \subseteq In(eval)
    BY DEF Bounds
  <2>6. Innermost(Bounds) \in 0..Size /\ Size \in Nat
    BY <2>1, <2>5, <1>1, InnermostIn, SizeIs
  <2>7. ASSUME NEW x \in In(sh) PROVE x <= i
    <3>1. x \in 1..Size /\ x <= Innermost(Bounds)
      BY <2>1
    <3> QED BY <3>1, <2>2, <2>3, <2>6
  <2> QED BY <2>1, <2>3, <2>4, <2>7 DEF Target
<1> QED BY <1>2, <1>3 DEF Leaps

LEMMA LeapsInv ==
  ASSUME EvalInv, NEW i, Leaps(i)
  PROVE  EvalInv'
<1>1. Types /\ Safe /\ ChainsOK /\ ShapeOK /\ PhaseOK
  BY DEF EvalInv
<1>2. Types' /\ Safe' /\ Falls(i) /\ Size' = i
  BY <1>1, LeapsSafe
<1>3. Leap(i, ctl.how) /\ i \in 1..Size /\ sh' = sh
  BY DEF Leaps
<1>4. Target(i)
  BY LeapsTarget
<1>5. Within(sh, i)
  BY <1>4 DEF Target, In, Within
<1>6. Popped(i) /\ Keeps(i) /\ i \in Nat /\ Size \in Nat
  BY <1>1, <1>3, <1>4, <1>5, LeapPopped, SizeIs DEF Target, Popped
<1>7. ChildAt <= i
  BY <1>4, <1>6, <1>1, ChildIs DEF Target
<1>8. ASSUME NEW x \in 1..i, Gone(x) PROVE Gone(x)'
  <2>1. Doomed(x)
    BY <1>4, <1>8 DEF Target
  <2>2. ~Quiet
    BY <2>1, DoomIs DEF Quiet
  <2>3. i = Size
    BY <2>2, <1>4 DEF Target
  <2>4. \A j \in Live({"exittrap"}) : j <= i
    BY <2>3, <1>1, <1>6, LiveIs
  <2>5. Doomed(x)'
    BY <2>1, <2>4, <1>1, <1>6, KeptDoom
  <2> QED BY <2>5 DEF Gone
<1>9. ChainsOK'
  BY <1>1, <1>6, <1>7, <1>8, PoppedChains
<1>10. In(sh)' \subseteq In(sh)
  BY <1>1, <1>6, PoppedEnv
<1>11. ShapeOK'
  BY <1>1, <1>6, <1>7, <1>10, KeptShape
<1>12. PhaseOK'
  <2>1. ctl' = DoAt("land", 0, ctl.how)
    BY <1>3 DEF Leap
  <2>2. ctl'.op = "land" /\ ctl'.how = ctl.how
    BY <2>1 DEF DoAt
  <2>3. CASE Quiet
    <3>1. Quiet'
      BY <2>3, <1>1, <1>6, KeptQuiet
    <3> QED BY <3>1, <2>2, LandPhase
  <2>4. CASE i = Size /\ Top.kind = "source" /\ ctl.how # "pending"
    <3>1. Top'.kind = "source"
      <4>1. stack'[i].kind = stack[i].kind
        BY <1>6, <1>3 DEF Keeps
      <4> QED BY <4>1, <2>4, <1>2 DEF Top
    <3>2. ~Pending'
      BY <2>2, <2>4 DEF Pending
    <3> QED BY <3>1, <3>2, <2>2, LandPhase
  <2> QED BY <2>3, <2>4, <1>4 DEF Target
<1> QED BY <1>2, <1>9, <1>11, <1>12 DEF EvalInv

(* A break that leaves a sourced file: the chains are popped later.        *)
LEMMA SuspendsShape ==
  ASSUME EvalInv, Tame, NEW b, Suspends(b)
  PROVE  b \in Nat /\ Keeps(b) /\ ChildAt = 0 /\ \A x \in In(sh) : x <= b
<1>1. Types /\ Safe /\ ChainsOK /\ ShapeOK /\ PhaseOK
  BY DEF EvalInv
<1>2. ctl.op = "jump" /\ b = Innermost(Bounds) /\ b \in 1..Size /\ "SOURCE" \in stack[b].flags
  BY DEF Suspends
<1>3. Keeps(b)
  BY <1>1, SuspendsKeeps
<1>4. ChildAt = 0
  <2> SUFFICES ASSUME ChildAt # 0 PROVE FALSE
    OBVIOUS
  <2>1. ChildAt \in Live({"child"})
    BY <1>1, ChildIs
  <2>2. ChildAt \in 1..Size /\ stack[ChildAt].kind = "child"
    BY <2>1 DEF Live
  <2>3. "child" \in Constructs
    BY <2>2, <1>1, Zenon DEF ShapeOK, FrameOK
  <2>4. stack[b].kind = "source"
    BY <1>1, <1>2 DEF Safe, KindOK
  <2>5. "source" \in Constructs
    BY <2>4, <1>2, <1>1, Zenon DEF ShapeOK, FrameOK
  <2> QED BY <2>3, <2>5 DEF Tame
<1>5. \A x \in In(sh) : x <= b
  BY <1>2, BoundsHold
<1> QED BY <1>2, <1>3, <1>4, <1>5

LEMMA SuspendsInv ==
  ASSUME EvalInv, Tame, NEW b, Suspends(b)
  PROVE  EvalInv'
<1>1. Types /\ Safe /\ ChainsOK /\ ShapeOK /\ PhaseOK
  BY DEF EvalInv
<1>2. Types' /\ Safe'
  BY <1>1, SuspendsSafe
<1>3. b \in Nat /\ Keeps(b) /\ ChildAt = 0 /\ \A x \in In(sh) : x <= b
  BY SuspendsShape
<1>4. ctl' = DoAt("land", 0, "pending") /\ UNCHANGED <<eval, fdstack, varstack, source, sh>>
  BY DEF Suspends, chains
<1>5. ctl'.op = "land" /\ ctl'.how = "pending"
  BY <1>4 DEF DoAt
<1>6. Pending'
  BY <1>5 DEF Pending
<1>7. Quiet /\ \A i : ~Gone(i)
  BY BoundsHold DEF Suspends
<1>8. Size' = b /\ b \in 0..Size /\ ChildAt' = ChildAt /\ ChildAt <= b
  BY <1>1, <1>3, KeptChild DEF Keeps, Size
<1>9. Quiet'
  BY <1>1, <1>3, <1>7, KeptQuiet
<1>10. ShapeOK'
  <2>1. In(sh)' \subseteq In(sh)
    BY <1>4 DEF In
  <2> QED BY <2>1, <1>1, <1>3, <1>8, KeptShape
<1>11. ASSUME NEW K, NEW from, NEW s, In(s) \cap (1..Size) \subseteq Live(K), Must(K, from) \subseteq In(s)
       PROVE  In(s) \cap (1..b) \subseteq Live(K)' /\ Must(K, from)' \subseteq In(s)
  <2>1. Live(K)' = {i \in Live(K) : i <= b} /\ Live(K) \subseteq 1..Size /\ Size \in Nat
    BY <1>1, <1>3, KeptLive, LiveIs, SizeIs
  <2>2. \A i \in Must(K, from)' : i \in Must(K, from)
    BY <2>1, <1>7 DEF Must
  <2> QED BY <1>8, <1>11, <2>1, <2>2
<1>12. Linked(eval, FrameKinds, 0)'
  BY <1>1, <1>4, <1>8, <1>11 DEF ChainsOK, Linked
<1>13. Linked(fdstack, FdKinds, 0)'
  BY <1>1, <1>4, <1>8, <1>11 DEF ChainsOK, Linked
<1>14. Linked(varstack, VarKinds, 0)'
  BY <1>1, <1>4, <1>8, <1>11 DEF ChainsOK, Linked
<1>15. Linked(source, SourceKinds, 0)'
  BY <1>1, <1>4, <1>8, <1>11 DEF ChainsOK, Linked
<1>16. Linked(sh, EnvKinds, ChildAt)'
  BY <1>1, <1>4, <1>8, <1>11 DEF ChainsOK, Linked
<1>17. Within(sh, Size)' /\ \A a \in 1..Len(sh') : sh'[a] > ChildAt'
  BY <1>1, <1>3, <1>4, <1>8 DEF Within, In, ChainsOK
<1>18. ASSUME NEW i \in Live(FrameKinds)' PROVE MarksOK(i)'
  <2>1. i \in Live(FrameKinds) /\ i \in 1..b
    BY <1>1, <1>3, <1>8, KeptLive, LiveIs
  <2>2. MarksOK(i)
    BY <2>1, <1>1, <1>7 DEF ChainsOK
  <2>3. stack'[i].fd = stack[i].fd /\ stack'[i].var = stack[i].var /\ stack'[i].src = stack[i].src
    BY <2>1, <1>3 DEF Keeps
  <2> QED BY <2>2, <2>3, <1>4 DEF MarksOK
<1>19. ChainsOK'
  BY <1>6, <1>12, <1>13, <1>14, <1>15, <1>16, <1>17, <1>18 DEF ChainsOK
<1>20. PhaseOK'
  BY <1>5, <1>9, LandPhase
<1> QED BY <1>2, <1>10, <1>19, <1>20 DEF EvalInv

-----------------------------------------------------------------------------
(* The EXIT trap runs before a jump goes on *)

LEMMA HangsOnInv ==
  ASSUME EvalInv, NEW t, HangsOn(t)
  PROVE  EvalInv'
<1>1. Types /\ Safe /\ ChainsOK /\ ShapeOK /\ PhaseOK
  BY DEF EvalInv
<1>2. Types' /\ Safe' /\ t \in Ctls /\ Grown("exittrap", t)
  BY <1>1, TrapsSafe
<1>3. /\ eval_push("exittrap", t) /\ ctl' = Run
      /\ \/ ctl.op = "dtor" /\ t = AfterDtor
         \/ ctl.op = "die" /\ t = IF ctl.how = "stray" THEN Run ELSE Done
  BY DEF HangsOn
<1>4. "exittrap" \in Kinds /\ "exittrap" # "child" /\ "exittrap" # "source" /\ "exittrap" # "trap"
  BY KindsAre
<1>5. In(sh)' \subseteq In(sh) \cup {Size + 1}
  BY <1>1, <1>3, PushEnv
<1>6. PhaseOK'
  BY <1>3, RunPhase
<1>7. ~Pending
  BY <1>3 DEF Pending
<1>8. CASE ctl.op = "die"
  <2>1. t = Done
    BY <1>1, <1>3, <1>8, PhaseIs
  <2>2. Done.op = "done"
    BY CtlsAre
  <2>3. t.op = "done"
    BY <2>1, <2>2
  <2>4. ASSUME NEW i \in 1..Size PROVE Gone(i)'
    <3>1. Doomed(i)'
      BY <2>3, <1>1, <1>2, GrownDoom
    <3> QED BY <3>1 DEF Gone
  <2>5. ChainsOK'
    BY <2>4, <1>1, <1>2, <1>3, <1>4, <1>7, PushChains
  <2>6. t \in {Done, Do("leave")} /\ t.op # "unwind"
    BY <2>1, <2>3
  <2>7. ShapeOK'
    BY <2>6, <1>1, <1>2, <1>4, <1>5, GrownShape
  <2> QED BY <2>5, <2>7, <1>2, <1>6 DEF EvalInv
<1>9. CASE ctl.op = "dtor"
  <2>1. Aimed /\ t = AfterDtor
    BY <1>1, <1>3, <1>9, PhaseIs
  <2>2. ctl.n \in 1..Size /\ Size \in Nat
    BY <2>1, <1>1, LiveIs, SizeIs DEF Aimed
  <2>3. (t = Do("leave") /\ ctl.n = Size /\ ctl.how = "end")
        \/ (t = DoAt("unwind", ctl.n, ctl.how) /\ ctl.how \in {"exit", "return"})
    BY <2>1 DEF AfterDtor, Aimed
  <2>4. (t = Do("leave") /\ t.op = "leave" /\ ctl.n = Size)
        \/ (t.op = "unwind" /\ t.n = ctl.n /\ t.how \in {"exit", "return"} /\ ctl.how # "end")
    <3>1. CASE t = Do("leave") /\ ctl.n = Size
      <4>1. Do("leave").op = "leave"
        BY DEF Do
      <4> QED BY <3>1, <4>1
    <3>2. CASE t = DoAt("unwind", ctl.n, ctl.how) /\ ctl.how \in {"exit", "return"}
      <4>1. t.op = "unwind" /\ t.n = ctl.n /\ t.how = ctl.how
        BY <3>2 DEF DoAt
      <4> QED BY <3>2, <4>1
    <3> QED BY <2>3, <3>1, <3>2
  <2>5. ASSUME NEW i \in 1..Size, Gone(i) PROVE Gone(i)'
    <3>1. ctl.op \notin {"die", "done"}
      BY <1>9
    <3>2. Doomed(i) \/ i > ctl.n
      BY <3>1, <2>5, Zenon DEF Gone
    <3>3. Doomed(i) \/ (t.op = "unwind" /\ i > t.n)
      BY <3>2, <2>2, <2>4
    <3>4. Doomed(i)'
      BY <3>3, <1>1, <1>2, GrownDoom
    <3> QED BY <3>4 DEF Gone
  <2>6. ChainsOK'
    BY <2>5, <1>1, <1>2, <1>3, <1>4, <1>7, PushChains
  <2>7. t \in {Done, Do("leave")} \/ t.op = "unwind"
    BY <2>4
  <2>8. ASSUME t.op = "unwind"
        PROVE  /\ t.how \in {"exit", "return"} /\ t.n \in Live(FrameKinds) /\ t.n > ChildAt
               /\ (t.n = Size /\ t.n \in Live({"source"})) \/ Quiet
               /\ \A i \in Live(ShellKinds) : i <= t.n
               /\ \A x \in In(sh) : x <= t.n
    <3>1. t.n = ctl.n /\ t.how \in {"exit", "return"} /\ ctl.how # "end"
      BY <2>4, <2>8
    <3>2. (t.n = Size /\ t.n \in Live({"source"})) \/ Quiet
      <4>1. Quiet \/ (ctl.n = Size /\ Top.kind = "source")
        BY <2>1, <3>1 DEF Aimed
      <4> QED BY <4>1, <3>1, <2>2 DEF Live, Top
    <3> QED BY <3>1, <3>2, <2>1 DEF Aimed
  <2>9. ShapeOK'
    BY <2>7, <2>8, <1>1, <1>2, <1>4, <1>5, GrownShape
  <2> QED BY <2>6, <2>9, <1>2, <1>6 DEF EvalInv
<1> QED BY <1>3, <1>8, <1>9

-----------------------------------------------------------------------------
(* A forked child *)

LEMMA ForkLive ==
  ASSUME Types, Forks, NEW K
  PROVE  Live(K)' = Live(K) \cup (IF "child" \in K THEN {Size + 1} ELSE {})
<1>1. Size \in Nat /\ Size' = Size + 1
  BY SizeIs DEF Forks, Size
<1>2. \A i \in 1..Size : stack'[i].kind = stack[i].kind
  BY DEF Forks
<1>3. stack'[Size + 1].kind = "child"
  BY DEF Forks
<1>4. 1..Size' = (1..Size) \cup {Size + 1} /\ Size + 1 \notin 1..Size
  BY <1>1
<1>5. Live(K)' = {i \in 1..Size' : stack'[i].kind \in K}
  BY DEF Live
<1>6. Live(K) = {i \in 1..Size : stack[i].kind \in K}
  BY DEF Live
<1> QED BY <1>2, <1>3, <1>4, <1>5, <1>6

LEMMA ForkShape ==
  ASSUME EvalInv, sh_forked
  PROVE  /\ Forks /\ ~Pending /\ ctl = Run /\ ctl' = Run /\ ChildAt = 0 /\ ChildAt' = Size + 1 /\ Size' = Size + 1 /\ Size \in Nat
         /\ \A i : Doomed(i) => Doomed(i)'
         /\ sh' = <<>> /\ UNCHANGED <<eval, fdstack, varstack, source>> /\ "child" \in Constructs
<1>1. Types /\ Safe /\ ChainsOK /\ ShapeOK /\ PhaseOK
  BY DEF EvalInv
<1>2. Forks /\ ~Pending /\ ctl = Run
  BY <1>1, ForkIs
<1>3. sh' = <<>> /\ UNCHANGED <<eval, fdstack, varstack, source>> /\ "child" \in Constructs /\ ctl' = ctl /\ ~Child
  BY DEF sh_forked
<1>4. Size \in Nat /\ Size' = Size + 1
  BY <1>1, <1>2, SizeIs DEF Forks, Size
<1>5. ChildAt = 0
  <2>1. Live({"child"}) = {}
    BY <1>3 DEF Child, Live
  <2> QED BY <2>1, <1>1, ChildIs
<1>6. ChildAt' = Size + 1
  <2>1. Live({"child"})' = Live({"child"}) \cup {Size + 1}
    BY <1>1, <1>2, ForkLive
  <2>2. Types'
    BY <1>1, ForkSafe
  <2>3. PICK S : S = Live({"child"})'
    OBVIOUS
  <2>4. S \subseteq 0..(Size + 1) /\ {0} \cup S \in SUBSET (0..(Size + 1)) /\ {0} \cup S # {} /\ Size + 1 \in {0} \cup S
    BY <2>1, <2>3, <1>1, <1>4, LiveIs
  <2>5. Highest({0} \cup S) \in {0} \cup S /\ \A h \in {0} \cup S : h <= Highest({0} \cup S)
    BY <2>4, <1>4, HighestOf
  <2>6. PICK h : h = Highest({0} \cup S)
    OBVIOUS
  <2>7. ChildAt' = h
    BY <2>3, <2>6 DEF ChildAt, Highest
  <2>8. h \in 0..(Size + 1) /\ Size + 1 <= h
    BY <2>4, <2>5, <2>6
  <2>9. h = Size + 1
    BY <2>8, <1>4
  <2> QED BY <2>7, <2>9
<1>7. ASSUME NEW i, Doomed(i) PROVE Doomed(i)'
  <2>1. PICK j \in Live({"exittrap"}) : i < j /\ ((stack[j].then.op = "unwind" /\ i > stack[j].then.n) \/ stack[j].then.op = "done")
    BY <1>7, DoomIs
  <2>2. j \in Live({"exittrap"})' /\ j \in 1..Size
    BY <1>1, <1>2, ForkLive, LiveIs
  <2>3. stack'[j].then = stack[j].then
    BY <2>2, <1>2 DEF Forks
  <2> QED BY <2>1, <2>2, <2>3, Zenon DEF Doomed
<1> QED BY <1>2, <1>3, <1>4, <1>5, <1>6, <1>7

LEMMA ForkInv ==
  ASSUME EvalInv, sh_forked
  PROVE  EvalInv'
<1>1. Types /\ Safe /\ ChainsOK /\ ShapeOK /\ PhaseOK
  BY DEF EvalInv
<1>2. Types' /\ Safe'
  BY <1>1, ForkSafe
<1>3. /\ Forks /\ ~Pending /\ ctl = Run /\ ctl' = Run /\ ChildAt = 0 /\ ChildAt' = Size + 1 /\ Size' = Size + 1 /\ Size \in Nat
      /\ \A i : Doomed(i) => Doomed(i)'
      /\ sh' = <<>> /\ UNCHANGED <<eval, fdstack, varstack, source>> /\ "child" \in Constructs
  BY ForkShape
<1>4. ASSUME NEW i PROVE Gone(i) => Gone(i)'
  <2>1. Run.op = "run"
    BY CtlsAre
  <2>2. ctl.op \notin {"die", "done", "dtor", "unwind"}
    BY <2>1, <1>3
  <2>3. Gone(i) => Doomed(i)'
    BY <2>2, <1>3, GoneDoomed
  <2> QED BY <2>3 DEF Gone
<1>5. /\ Live(FrameKinds)' = Live(FrameKinds) /\ Live(FdKinds)' = Live(FdKinds) /\ Live(VarKinds)' = Live(VarKinds)
      /\ Live(SourceKinds)' = Live(SourceKinds) /\ Live(EnvKinds)' = Live(EnvKinds) /\ Live(ShellKinds)' = Live(ShellKinds)
      /\ Live({"exittrap"})' = Live({"exittrap"}) /\ Live({"trap"})' = Live({"trap"})
  <2>1. ASSUME NEW K, "child" \notin K PROVE Live(K)' = Live(K)
    <3>1. Live(K)' = Live(K) \cup (IF "child" \in K THEN {Size + 1} ELSE {})
      BY <1>1, <1>3, ForkLive
    <3> QED BY <2>1, <3>1
  <2>2. /\ "child" \notin FrameKinds /\ "child" \notin FdKinds /\ "child" \notin VarKinds /\ "child" \notin SourceKinds
        /\ "child" \notin EnvKinds /\ "child" \notin ShellKinds
    BY FrameKindsAre DEF FdKinds, VarKinds, SourceKinds, EnvKinds, ShellKinds
  <2>3. "child" \notin {"exittrap"} /\ "child" \notin {"trap"}
    OBVIOUS
  <2> QED BY ONLY <2>1, <2>2, <2>3, Zenon
<1>6. ASSUME NEW K, NEW s \in Chain, In(s) \cap (1..Size) \subseteq Live(K), Must(K, 0) \subseteq In(s), Within(s, Size),
             Live(K)' = Live(K)
      PROVE  In(s) \cap (1..(Size + 1)) \subseteq Live(K)' /\ Must(K, 0)' \subseteq In(s)
  <2>1. \A i \in Must(K, 0)' : i \in Must(K, 0)
    BY <1>4, <1>6 DEF Must
  <2>2. In(s) \subseteq 1..Size
    BY <1>3, <1>6 DEF In, Within, Chain
  <2> QED BY <1>6, <2>1, <2>2
<1>7. Linked(eval, FrameKinds, 0)'
  BY <1>1, <1>3, <1>5, <1>6 DEF ChainsOK, Linked, Types
<1>8. Linked(fdstack, FdKinds, 0)'
  BY <1>1, <1>3, <1>5, <1>6 DEF ChainsOK, Linked, Types
<1>9. Linked(varstack, VarKinds, 0)'
  BY <1>1, <1>3, <1>5, <1>6 DEF ChainsOK, Linked, Types
<1>10. Linked(source, SourceKinds, 0)'
  BY <1>1, <1>3, <1>5, <1>6 DEF ChainsOK, Linked, Types
<1>11. Len(sh') = 0 /\ In(sh') = {}
  BY <1>3 DEF In
<1>12. Linked(sh, EnvKinds, ChildAt)'
  <2>1. \A i \in Live(EnvKinds)' : ~(i > ChildAt')
    BY <1>1, <1>3, <1>5, LiveIs
  <2>2. Must(EnvKinds, ChildAt)' = {}
    BY <2>1 DEF Must
  <2> QED BY <2>2, <1>11 DEF Linked, Ascends, In
<1>13. Within(sh, Size)' /\ \A a \in 1..Len(sh') : sh'[a] > ChildAt'
  BY <1>11 DEF Within
<1>14. Within(eval, Size)' /\ Within(fdstack, Size)' /\ Within(varstack, Size)' /\ Within(source, Size)'
  <2>1. ASSUME NEW s \in Chain, Within(s, Size) PROVE Within(s, Size + 1)
    BY <2>1, <1>3 DEF Within, Chain
  <2> QED BY <2>1, <1>1, <1>3 DEF ChainsOK, Types
<1>15. ASSUME NEW i \in Live(FrameKinds)', ~Gone(i)' PROVE MarksOK(i)'
  <2>1. i \in Live(FrameKinds) /\ i \in 1..Size /\ ~Gone(i)
    BY <1>1, <1>4, <1>5, <1>15, LiveIs
  <2>2. MarksOK(i)
    BY <2>1, <1>1 DEF ChainsOK
  <2>3. stack'[i].fd = stack[i].fd /\ stack'[i].var = stack[i].var /\ stack'[i].src = stack[i].src
    BY <2>1, <1>3 DEF Forks
  <2> QED BY <2>2, <2>3, <1>3 DEF MarksOK
<1>16. ChainsOK'
  BY <1>7, <1>8, <1>9, <1>10, <1>12, <1>13, <1>14, <1>15 DEF ChainsOK
<1>17. ASSUME NEW i \in 1..Size' PROVE FrameOK(i)'
  <2>1. CASE i = Size + 1
    <3>1. stack'[i].kind = "child" /\ stack'[i].jump = FALSE /\ stack'[i].flags = {}
      BY <2>1, <1>3 DEF Forks
    <3>2. ~(i > ChildAt') /\ "child" \notin JumpKinds
      BY <2>1, <1>3, JumpKindsAre
    <3> QED BY <3>1, <3>2, <1>3 DEF FrameOK
  <2>2. CASE i # Size + 1
    <3>1. i \in 1..Size
      BY <2>2, <1>3
    <3>2. stack'[i].kind = stack[i].kind /\ stack'[i].jump = FALSE /\ stack'[i].flags \subseteq stack[i].flags
      BY <3>1, <1>3 DEF Forks
    <3>3. ~(i > ChildAt')
      BY <3>1, <1>3
    <3>4. stack[i].flags \subseteq FlagsOf(stack[i].kind, i) /\ (stack[i].kind \in {"source", "child"} => stack[i].kind \in Constructs)
      BY <3>1, <1>1 DEF ShapeOK, FrameOK
    <3>5. stack'[i].flags \subseteq FlagsOf(stack'[i].kind, i)
      BY <3>2, <3>4
    <3> QED BY <3>2, <3>3, <3>4, <3>5 DEF FrameOK, FlagsOf
  <2> QED BY <2>1, <2>2
<1>18. ASSUME NEW j \in Live({"exittrap"})' PROVE ThenOK(j, stack[j].then)' /\ \A i \in Live({"trap"})' : i < j
  <2>1. j \in Live({"exittrap"}) /\ j \in 1..Size
    BY <1>1, <1>5, LiveIs
  <2>2. stack'[j].then = stack[j].then
    BY <2>1, <1>3 DEF Forks
  <2>3. ThenOK(j, stack[j].then) /\ \A i \in Live({"trap"}) : i < j
    BY <2>1, <1>1 DEF ShapeOK
  <2>4. ~(ChildAt' < j)
    BY <2>1, <1>3
  <2>5. PICK t : t = stack[j].then
    OBVIOUS
  <2>6. ThenOK(j, t)
    BY <2>3, <2>5
  <2>7. In(sh)' = {}
    BY <1>11 DEF In
  <2>8. ASSUME t.op = "unwind"
        PROVE  /\ t.how \in {"exit", "return"} /\ t.n \in Live(FrameKinds)' /\ t.n < j
               /\ (t.n = j - 1 /\ t.n \in Live({"source"})') \/ \A i \in Live({"exittrap"})' : i >= j
               /\ \A i \in Live(ShellKinds)' : i <= t.n \/ i > j
               /\ \A x \in In(sh)' : x <= t.n \/ x >= j
    <3>1. Live({"source"})' = Live({"source"})
      <4>1. Live({"source"})' = Live({"source"}) \cup (IF "child" \in {"source"} THEN {Size + 1} ELSE {})
        BY <1>1, <1>3, ForkLive
      <4> QED BY <4>1
    <3> QED BY <3>1, <2>6, <2>7, <2>8, <1>5 DEF ThenOK
  <2>9. t \in {Done, Do("leave")} \/ t.op = "unwind"
    BY <2>6 DEF ThenOK
  <2>10. stack'[j].then = t
    BY <2>2, <2>5
  <2>11. ThenOK(j, stack[j].then)'
    BY ONLY <2>4, <2>8, <2>9, <2>10, Zenon DEF ThenOK
  <2> QED BY <2>3, <2>11, <1>5
<1>19. ShapeOK'
  BY <1>17, <1>18 DEF ShapeOK
<1>20. PhaseOK'
  BY <1>3, RunPhase
<1> QED BY <1>2, <1>16, <1>19, <1>20 DEF EvalInv

-----------------------------------------------------------------------------
(* exit *)

(* The frame that exit goes to, t, and the environments left on the way.   *)
ExitEnvs(t) == {x \in In(sh) : x > t}
ExitCalls(t) == {i \in In(eval) : i > t /\ "FUNCTION" \in stack[i].flags}
ExitAim(t) ==
  /\ t \in 0..Size
  /\ t # 0 => t \in Live(FrameKinds) /\ t > ChildAt /\ \A i \in Live(ShellKinds) : i <= t
  /\ t # 0 => Quiet \/ (t = Size /\ Top.kind = "source")
  /\ ExitEnvs(t) \subseteq ExitCalls(t) /\ (t # 0 => ExitCalls(t) \subseteq ExitEnvs(t))
  /\ \A x \in ExitEnvs(t) : x \in Live({"function"}) /\ ~Gone(x)

LEMMA ExitQuiet ==
  ASSUME EvalInv, ctl.op = "exit", Quiet, NEW t, t = Innermost(Exitable)
  PROVE  ExitAim(t)
<1>1. Types /\ Safe /\ ChainsOK /\ ShapeOK /\ PhaseOK
  BY DEF EvalInv
<1>2. ~Pending /\ ctl.op \notin {"die", "done", "dtor", "unwind"}
  BY DEF Pending
<1>3. /\ Live(FrameKinds) \subseteq In(eval) /\ \A i \in Live(EnvKinds) : i > ChildAt => i \in In(sh)
      /\ \A i : ~Gone(i)
  BY <1>1, <1>2, QuietLinks
<1>4. Exitable \subseteq In(eval)
  BY DEF Exitable
<1>5. t \in 0..Size /\ (t # 0 => t \in Exitable /\ t \in 1..Size) /\ \A i \in Exitable : i \in 1..Size /\ i <= t
  BY <1>1, <1>2, <1>4, InnermostIn
<1>6. In(eval) \subseteq Live(FrameKinds) /\ In(sh) \subseteq Live(EnvKinds) /\ \A x \in In(sh) : x > ChildAt
  BY <1>1, <1>2, ChainsLive
<1>7. Size \in Nat /\ ChildAt \in 0..Size
  BY <1>1, SizeIs, ChildIs
<1>8. ASSUME t # 0 PROVE t \in Live(FrameKinds) /\ t > ChildAt
  <2>1. t \in In(eval) /\ stack[t].jump
    BY <1>5, <1>8 DEF Exitable
  <2> QED BY <2>1, <1>1, <1>5, <1>6, <1>8, JumpFrame
<1>9. ASSUME NEW i \in 1..Size, i > ChildAt, stack[i].kind \in ShellKinds PROVE i <= t
  <2>1. i \in Live(FrameKinds)
    BY <1>9, FrameKindsAre DEF Live, ShellKinds
  <2>2. stack[i].jump /\ "ROOT" \in stack[i].flags
    BY <1>9, <1>1, OwnFrame, JumpKindsAre DEF ShellKinds
  <2>3. i \in Exitable
    BY <2>1, <2>2, <1>3 DEF Exitable
  <2> QED BY <2>3, <1>5
<1>10. ASSUME t # 0, NEW i \in Live(ShellKinds) PROVE i <= t
  <2>1. i \in 1..Size /\ stack[i].kind \in ShellKinds
    BY DEF Live
  <2>2. CASE i > ChildAt
    BY <2>1, <2>2, <1>9
  <2>3. CASE ~(i > ChildAt)
    BY <2>1, <2>3, <1>5, <1>7, <1>8, <1>10
  <2> QED BY <2>2, <2>3
<1>11. ASSUME NEW x \in ExitEnvs(t) PROVE x \in Live({"function"}) /\ x \in ExitCalls(t)
  <2>1. x \in In(sh) /\ x > t /\ x \in Live(EnvKinds) /\ x > ChildAt
    BY <1>6 DEF ExitEnvs
  <2>2. x \in 1..Size /\ stack[x].kind \in {"function", "subshell", "subst"}
    BY <2>1 DEF Live, EnvKinds, Quiet
  <2>3. stack[x].kind \notin ShellKinds
    BY <2>1, <2>2, <1>5, <1>7, <1>9
  <2>4. stack[x].kind = "function"
    BY <2>2, <2>3 DEF ShellKinds
  <2>5. "FUNCTION" \in stack[x].flags
    BY <2>1, <2>2, <2>4, <1>1, OwnFrame
  <2>6. x \in In(eval)
    BY <2>2, <2>4, <1>3, FrameKindsAre DEF Live
  <2> QED BY <2>1, <2>2, <2>4, <2>5, <2>6 DEF Live, ExitCalls
<1>12. ASSUME t # 0, NEW x \in ExitCalls(t) PROVE x \in ExitEnvs(t)
  <2>1. x \in In(eval) /\ x > t /\ "FUNCTION" \in stack[x].flags
    BY DEF ExitCalls
  <2>2. x \in 1..Size
    BY <2>1, <1>1, <1>6, LiveIs
  <2>3. x > ChildAt
    BY <2>1, <2>2, <1>5, <1>7, <1>8, <1>12
  <2>4. stack[x].kind = "function"
    BY <2>1, <2>2, <2>3, <1>1, OwnFrame
  <2>5. x \in Live(EnvKinds)
    BY <2>2, <2>4 DEF Live, EnvKinds
  <2> QED BY <2>1, <2>3, <2>5, <1>3 DEF ExitEnvs
<1> QED BY <1>3, <1>5, <1>8, <1>10, <1>11, <1>12 DEF ExitAim

(* The end of a file or of a child, perhaps in an EXIT trap.               *)
LEMMA ExitTop ==
  ASSUME EvalInv, ctl.op = "exit", Size > 0, Top.kind \in {"source", "child"}, NEW t, t = Innermost(Exitable)
  PROVE  ExitAim(t)
<1>1. Types /\ Safe /\ ChainsOK /\ ShapeOK /\ PhaseOK
  BY DEF EvalInv
<1>2. ~Pending /\ ctl.op \notin {"die", "done", "dtor", "unwind"}
  BY DEF Pending
<1>3. Exitable \subseteq In(eval)
  BY DEF Exitable
<1>4. t \in 0..Size /\ (t # 0 => t \in Exitable /\ t \in 1..Size) /\ \A i \in Exitable : i \in 1..Size /\ i <= t
  BY <1>1, <1>2, <1>3, InnermostIn
<1>5. In(eval) \subseteq Live(FrameKinds) /\ In(sh) \subseteq Live(EnvKinds) /\ \A x \in In(sh) : x > ChildAt
  BY <1>1, <1>2, ChainsLive
<1>6. Size \in Nat /\ ChildAt \in 0..Size /\ Size \in 1..Size /\ Top = stack[Size]
  BY <1>1, SizeIs, ChildIs, TopIs
<1>7. \A x \in In(eval) \cup In(sh) : x \in 1..Size
  BY <1>1, <1>5, LiveIs
<1>8. CASE Top.kind = "source"
  <2>1. Size > ChildAt
    <3>1. Size \notin Live({"child"})
      BY <1>6, <1>8 DEF Live
    <3> QED BY <3>1, <1>1, <1>6, ChildIs
  <2>2. Size \in Live(FrameKinds)
    BY <1>6, <1>8, FrameKindsAre DEF Live
  <2>3. ~Gone(Size)
    BY <1>1, <1>2, <1>6, GoneDoomed, NoDoom, LiveIs
  <2>4. Size \in In(eval)
    BY <2>2, <2>3, <1>1, <1>6 DEF ChainsOK, Linked, Must
  <2>5. stack[Size].jump /\ "ROOT" \in stack[Size].flags
    BY <2>1, <1>1, <1>6, <1>8, OwnFrame, JumpKindsAre
  <2>6. t = Size
    BY <2>4, <2>5, <1>4, <1>6 DEF Exitable
  <2>7. ExitEnvs(t) = {} /\ ExitCalls(t) = {}
    BY <2>6, <1>6, <1>7 DEF ExitEnvs, ExitCalls
  <2>8. \A i \in Live(ShellKinds) : i <= t
    BY <2>6, <1>1, <1>6, LiveIs
  <2> QED BY <2>1, <2>2, <2>6, <2>7, <2>8, <1>4, <1>8 DEF ExitAim
<1>9. CASE Top.kind = "child"
  <2>1. ChildAt = Size
    BY <1>1, <1>6, <1>9, ChildIs DEF Live
  <2>2. t = 0
    <3> SUFFICES ASSUME t # 0 PROVE FALSE
      OBVIOUS
    <3>1. t \in 1..Size /\ stack[t].jump
      BY <1>4 DEF Exitable
    <3>2. t > ChildAt
      BY <3>1, <1>1, JumpFrame
    <3> QED BY <2>1, <3>1, <3>2, <1>6
  <2>3. ExitEnvs(t) = {}
    BY <2>1, <1>5, <1>6, <1>7 DEF ExitEnvs
  <2> QED BY <2>2, <2>3, <1>4 DEF ExitAim
<1> QED BY <1>8, <1>9

LEMMA ExitAimed ==
  ASSUME EvalInv, eval_exit, NEW t, t = Innermost(Exitable)
  PROVE  ExitAim(t) /\ ctl.op = "exit"
<1>1. PhaseOK /\ ctl.op = "exit"
  BY DEF EvalInv, eval_exit
<1> QED BY <1>1, PhaseIs, ExitQuiet, ExitTop

(* One environment per call is popped: what is left of the chain of        *)
(* environments is that of t, and the scopes above its first call go.      *)
LEMMA ExitCuts ==
  ASSUME EvalInv, eval_exit, NEW t, t = Innermost(Exitable)
  PROVE  /\ Upto(sh, t, sh')
         /\ \E p \in t..Size : Upto(fdstack, p, fdstack') /\ Upto(varstack, p, varstack')
         /\ ctl' = IF t # 0 THEN DoAt("dtor", t, "exit") ELSE DoAt("die", 0, "exit")
<1>1. Types /\ Safe /\ ChainsOK /\ ShapeOK /\ PhaseOK
  BY DEF EvalInv
<1>2. ExitAim(t) /\ ctl.op = "exit" /\ t \in 0..Size /\ t \in Nat /\ Size \in Nat
  BY <1>1, ExitAimed, SizeIs DEF ExitAim
<1>3. ~Pending
  BY <1>2 DEF Pending
<1>4. /\ sh \in Chain /\ Ascends(sh) /\ Len(sh) \in Nat /\ (\A a \in 1..Len(sh) : sh[a] \in Nat \ {0} /\ sh[a] <= Size)
      /\ fdstack \in Chain /\ varstack \in Chain
  BY <1>1 DEF Types, ChainsOK, Linked, Chain, Within
<1>5. PICK m \in 0..Len(sh) : Marked(sh, t, m)
  BY <1>2, <1>4, UnderIs DEF Upto
<1>6. /\ IsFiniteSet(ExitEnvs(t)) /\ Cardinality(ExitEnvs(t)) = Len(sh) - m
  BY <1>2, <1>4, <1>5, CountAbove DEF ExitEnvs
<1>7. PICK pops : pops = Cardinality(ExitCalls(t))
  OBVIOUS
<1>8. pops \in Nat /\ pops >= Len(sh) - m /\ (t # 0 => pops = Len(sh) - m)
  <2>1. ExitCalls(t) \subseteq Live(FrameKinds)
    BY <1>1, <1>3, ChainsLive DEF ExitCalls
  <2>2. IsFiniteSet(ExitCalls(t))
    BY <2>1, <1>1, LiveIs, FS_Subset
  <2>3. pops \in Nat
    BY <2>2, <1>7, FS_CardinalityType
  <2>4. Cardinality(ExitEnvs(t)) <= pops
    BY <2>2, <1>2, <1>7, FS_Subset DEF ExitAim
  <2>5. t # 0 => ExitCalls(t) = ExitEnvs(t)
    BY <1>2 DEF ExitAim
  <2> QED BY <2>3, <2>4, <2>5, <1>4, <1>5, <1>6, <1>7
<1>9. PICK n : n = IF pops < Len(sh) THEN Len(sh) - pops ELSE 0
  OBVIOUS
<1>10. n = m
  <2>1. CASE t # 0
    BY <2>1, <1>4, <1>5, <1>8, <1>9
  <2>2. CASE t = 0
    <3>1. m = 0
      BY <2>2, <1>4, <1>5 DEF Marked
    <3> QED BY <3>1, <1>4, <1>8, <1>9
  <2> QED BY <2>1, <2>2
<1>11. /\ sh' = SubSeq(sh, 1, n)
       /\ IF n < Len(sh) /\ sh[n + 1] <= Size
          THEN fdstack' = Cut(fdstack, stack[sh[n + 1]].fd) /\ varstack' = Cut(varstack, stack[sh[n + 1]].var)
          ELSE UNCHANGED <<fdstack, varstack>>
       /\ ctl' = IF t # 0 THEN DoAt("dtor", t, "exit")
                 ELSE IF exit_trap = "running" \/ \A i \in In(sh) : Kind(i) = "function"
                 THEN DoAt("die", 0, "exit") ELSE DoAt("die", 0, "stray")
  BY <1>7, <1>9, Zenon DEF eval_exit, ExitCalls
<1>12. Upto(sh, t, sh')
  BY <1>5, <1>10, <1>11, Zenon DEF Upto
<1>13. \E p \in t..Size : Upto(fdstack, p, fdstack') /\ Upto(varstack, p, varstack')
  <2>1. CASE m < Len(sh)
    <3>1. PICK p : p = sh[m + 1]
      OBVIOUS
    <3>2. m + 1 \in 1..Len(sh)
      BY <2>1, <1>4, <1>5
    <3>3. p \in 1..Size /\ p \in Nat
      BY <3>1, <3>2, <1>2, <1>4
    <3>4. p > t
      <4>1. ~(p <= t)
        BY <3>1, <3>2, <1>4, <1>5 DEF Marked
      <4> QED BY <4>1, <3>3, <1>2
    <3>5. p \in ExitEnvs(t)
      BY <3>1, <3>2, <3>4 DEF ExitEnvs, In
    <3>6. p \in Live({"function"}) /\ ~Gone(p)
      BY <3>5, <1>2 DEF ExitAim
    <3>7. p \in Live(FrameKinds)
      BY <3>6, FrameKindsAre DEF Live
    <3>8. MarksOK(p)
      BY <3>6, <3>7, <1>1 DEF ChainsOK
    <3>9. fdstack' = Cut(fdstack, stack[p].fd) /\ varstack' = Cut(varstack, stack[p].var)
      BY <2>1, <3>1, <3>3, <1>2, <1>10, <1>11
    <3>10. Upto(fdstack, p, fdstack')
      BY <3>3, <3>8, <3>9, <1>4, CutIs DEF MarksOK
    <3>11. Upto(varstack, p, varstack')
      BY <3>3, <3>8, <3>9, <1>4, CutIs DEF MarksOK
    <3>12. p \in t..Size
      BY <3>3, <3>4, <1>2
    <3> QED BY <3>10, <3>11, <3>12
  <2>2. CASE ~(m < Len(sh))
    <3>1. fdstack' = fdstack /\ varstack' = varstack
      BY <2>2, <1>10, <1>11
    <3>2. Within(fdstack, Size) /\ Within(varstack, Size)
      BY <1>1, <1>3 DEF ChainsOK
    <3>3. Upto(fdstack, Size, fdstack') /\ Upto(varstack, Size, varstack')
      BY <3>1, <3>2, <1>2, <1>4, UptoAll
    <3>4. Size \in t..Size
      BY <1>2
    <3> QED BY <3>3, <3>4
  <2> QED BY <2>1, <2>2
<1>14. ctl' = IF t # 0 THEN DoAt("dtor", t, "exit") ELSE DoAt("die", 0, "exit")
  <2>1. CASE t # 0
    BY <2>1, <1>11, Zenon
  <2>2. CASE t = 0
    <3>1. ASSUME NEW i \in In(sh) PROVE Kind(i) = "function"
      <4>1. i > t
        BY <2>2, <1>4 DEF In
      <4>2. i \in Live({"function"})
        BY <4>1, <1>2 DEF ExitAim, ExitEnvs
      <4> QED BY <4>2 DEF Live, Kind
    <3> QED BY <2>2, <3>1, <1>11, Zenon
  <2> QED BY <2>1, <2>2
<1> QED BY <1>12, <1>13, <1>14

(* What is left of a chain holds all that will run on.                     *)
LEMMA TrimLinked ==
  ASSUME Types, UNCHANGED stack, NEW t \in 0..Size, NEW p \in t..Size,
         \A i \in 1..Size : ~Gone(i)' => i <= t /\ ~Gone(i),
         NEW K, NEW from, NEW s \in Chain, Ascends(s), In(s) \cap (1..Size) \subseteq Live(K), Must(K, from) \subseteq In(s),
         NEW u, Upto(s, p, u)
  PROVE  /\ Ascends(u) /\ Within(u, Size) /\ In(u) \cap (1..Size) \subseteq Live(K)' /\ Must(K, from)' \subseteq In(u)
<1>1. Size \in Nat /\ p \in Nat /\ t \in Nat /\ p <= Size /\ t <= p
  BY SizeIs
<1>2. Live(K)' = Live(K) /\ Live(K) \subseteq 1..Size
  BY LiveIs DEF Live, Size
<1>3. /\ u \in Chain /\ Ascends(u) /\ Within(u, p) /\ In(u) = {x \in In(s) : x <= p}
  BY <1>1, UptoIs
<1>4. Within(u, Size)
  BY <1>1, <1>3 DEF Within, Chain
<1>5. In(u) \cap (1..Size) \subseteq Live(K)'
  BY <1>2, <1>3
<1>6. ASSUME NEW i \in Must(K, from)' PROVE i \in In(u)
  <2>1. i \in Live(K) /\ i \in 1..Size /\ i > from /\ ~Gone(i)'
    BY <1>2 DEF Must
  <2>2. i <= t /\ ~Gone(i)
    BY <2>1
  <2>3. i \in In(s)
    BY <2>1, <2>2 DEF Must
  <2>4. i <= p
    BY <2>1, <2>2, <1>1
  <2> QED BY <2>3, <2>4, <1>3
<1> QED BY <1>3, <1>4, <1>5, <1>6

LEMMA ExitInv ==
  ASSUME EvalInv, eval_exit
  PROVE  EvalInv'
<1>1. Types /\ Safe /\ ChainsOK /\ ShapeOK /\ PhaseOK
  BY DEF EvalInv
<1>2. Types' /\ Safe' /\ Falls(Size) /\ stack' = stack /\ eval' = eval /\ source' = source
  BY <1>1, ExitSafe
<1>3. PICK t : t = Innermost(Exitable)
  OBVIOUS
<1>4. ExitAim(t) /\ ctl.op = "exit" /\ t \in 0..Size /\ t \in Nat /\ Size \in Nat
  BY <1>1, <1>3, ExitAimed, SizeIs DEF ExitAim
<1>5. /\ Upto(sh, t, sh')
      /\ \E p \in t..Size : Upto(fdstack, p, fdstack') /\ Upto(varstack, p, varstack')
      /\ ctl' = IF t # 0 THEN DoAt("dtor", t, "exit") ELSE DoAt("die", 0, "exit")
  BY <1>3, ExitCuts
<1>6. PICK p \in t..Size : Upto(fdstack, p, fdstack') /\ Upto(varstack, p, varstack')
  BY <1>5
<1>7. (t # 0 /\ ctl'.op = "dtor" /\ ctl'.n = t /\ ctl'.how = "exit") \/ (t = 0 /\ ctl'.op = "die" /\ ctl'.how = "exit")
  <2>1. CASE t # 0
    <3>1. ctl' = DoAt("dtor", t, "exit")
      BY <2>1, <1>5
    <3> QED BY ONLY <2>1, <3>1 DEF DoAt
  <2>2. CASE t = 0
    <3>1. ctl' = DoAt("die", 0, "exit")
      BY <2>2, <1>5
    <3> QED BY ONLY <2>2, <3>1 DEF DoAt
  <2> QED BY <2>1, <2>2
<1>8. Keeps(Size) /\ ChildAt <= Size /\ Size' = Size
  BY <1>1, <1>2, <1>4, ChildIs DEF Falls, Size
<1>9. ChildAt' = ChildAt
  BY <1>1, <1>8, KeptChild
<1>10. \A K : Live(K)' = Live(K)
  BY <1>2 DEF Live, Size
<1>11. ~Pending /\ ctl.op \notin {"die", "done", "dtor", "unwind"}
  BY <1>4 DEF Pending
<1>12. ASSUME NEW i \in 1..Size, ~Gone(i)' PROVE i <= t /\ ~Gone(i)
  <2>1. CASE t = 0
    BY <2>1, <1>7, <1>12 DEF Gone
  <2>2. CASE t # 0
    <3>1. ctl'.op \in {"dtor", "unwind"} /\ ctl'.n = t
      BY <2>2, <1>7
    <3>2. ~Doomed(i)' /\ ~(i > t)
      BY <3>1, <1>12, Zenon DEF Gone
    <3>3. Doomed(i)' <=> Doomed(i)
      BY <1>1, <1>4, <1>8, KeptDoom, LiveIs
    <3>4. ~Gone(i)
      BY <3>2, <3>3, <1>11, GoneDoomed
    <3> QED BY <3>2, <3>4, <1>4
  <2> QED BY <2>1, <2>2
<1>13. /\ eval \in Chain /\ fdstack \in Chain /\ varstack \in Chain /\ source \in Chain /\ sh \in Chain
       /\ Ascends(eval) /\ Ascends(fdstack) /\ Ascends(varstack) /\ Ascends(source) /\ Ascends(sh)
       /\ Within(eval, Size) /\ Within(source, Size)
  BY <1>1, <1>11 DEF Types, ChainsOK, Linked
<1>14. Upto(eval, Size, eval') /\ Upto(source, Size, source') /\ Size \in t..Size /\ t \in t..Size
  BY <1>2, <1>4, <1>13, UptoAll
<1>15. Linked(eval, FrameKinds, 0)' /\ Within(eval, Size)'
  BY <1>1, <1>2, <1>4, <1>8, <1>12, <1>13, <1>14, TrimLinked DEF ChainsOK, Linked
<1>16. Linked(fdstack, FdKinds, 0)' /\ Within(fdstack, Size)'
  BY <1>1, <1>2, <1>4, <1>6, <1>8, <1>12, <1>13, TrimLinked DEF ChainsOK, Linked
<1>17. Linked(varstack, VarKinds, 0)' /\ Within(varstack, Size)'
  BY <1>1, <1>2, <1>4, <1>6, <1>8, <1>12, <1>13, TrimLinked DEF ChainsOK, Linked
<1>18. Linked(source, SourceKinds, 0)' /\ Within(source, Size)'
  BY <1>1, <1>2, <1>4, <1>8, <1>12, <1>13, <1>14, TrimLinked DEF ChainsOK, Linked
<1>19. Linked(sh, EnvKinds, ChildAt)' /\ Within(sh, Size)'
  <2>1. /\ Ascends(sh') /\ Within(sh', Size) /\ In(sh') \cap (1..Size) \subseteq Live(EnvKinds)'
        /\ Must(EnvKinds, ChildAt)' \subseteq In(sh')
    <3>1. In(sh) \cap (1..Size) \subseteq Live(EnvKinds) /\ Must(EnvKinds, ChildAt) \subseteq In(sh)
      BY <1>1 DEF ChainsOK, Linked
    <3>2. PICK c : c = ChildAt
      OBVIOUS
    <3>3. Must(EnvKinds, c) \subseteq In(sh)
      BY <3>1, <3>2
    <3>4. /\ Ascends(sh') /\ Within(sh', Size) /\ In(sh') \cap (1..Size) \subseteq Live(EnvKinds)'
          /\ Must(EnvKinds, c)' \subseteq In(sh')
      BY <3>1, <3>3, <1>1, <1>2, <1>4, <1>5, <1>12, <1>13, <1>14, TrimLinked
    <3>5. Must(EnvKinds, ChildAt)' \subseteq Must(EnvKinds, c)'
      BY <3>2, <1>9 DEF Must
    <3> QED BY <3>4, <3>5
  <2> QED BY <2>1, <1>8 DEF Linked, In
<1>20. In(sh') = {x \in In(sh) : x <= t}
  BY <1>4, <1>5, <1>13, UptoIs
<1>21. \A a \in 1..Len(sh') : sh'[a] > ChildAt'
  BY <1>1, <1>9, <1>20 DEF In, ChainsOK
<1>22. ASSUME NEW i \in Live(FrameKinds)', ~Gone(i)' PROVE MarksOK(i)'
  <2>1. i \in Live(FrameKinds) /\ i \in 1..Size
    BY <1>1, <1>10, LiveIs
  <2>2. i <= t /\ ~Gone(i)
    BY <2>1, <1>12, <1>22
  <2>3. MarksOK(i)
    BY <2>1, <2>2, <1>1 DEF ChainsOK
  <2>4. i \in 0..p /\ p \in Nat
    BY <2>1, <2>2, <1>4, <1>6
  <2>5. Marked(fdstack', i, stack[i].fd)
    BY <2>3, <2>4, <1>6, <1>13, UptoIs DEF MarksOK
  <2>6. Marked(varstack', i, stack[i].var)
    BY <2>3, <2>4, <1>6, <1>13, UptoIs DEF MarksOK
  <2> QED BY <2>3, <2>5, <2>6, <1>2 DEF MarksOK
<1>23. ChainsOK'
  BY <1>15, <1>16, <1>17, <1>18, <1>19, <1>21, <1>22 DEF ChainsOK
<1>24. In(sh)' \subseteq In(sh) /\ \A x \in In(sh)' : x <= t
  BY <1>20 DEF In
<1>25. ShapeOK'
  BY <1>1, <1>8, <1>24, KeptShape
<1>26. PhaseOK'
  <2>1. CASE t # 0
    <3>1. ctl'.op = "dtor" /\ ctl'.n = t /\ ctl'.how = "exit"
      BY <2>1, <1>7
    <3>2. t \in Live(FrameKinds)' /\ t > ChildAt' /\ \A i \in Live(ShellKinds)' : i <= t
      BY <2>1, <1>4, <1>9, <1>10 DEF ExitAim
    <3>3. Quiet' \/ (t = Size' /\ Top'.kind = "source")
      <4>1. Quiet \/ (t = Size /\ Top.kind = "source")
        BY <2>1, <1>4 DEF ExitAim
      <4> QED BY <4>1, <1>2, <1>10 DEF Quiet, Top, Size
    <3>4. ctl'.how \in {"exit", "return"}
      BY <3>1
    <3>5. Aimed'
      BY <3>1, <3>2, <3>3, <3>4, <1>24, Zenon DEF Aimed
    <3> QED BY <3>1, <3>5, JumpPhase
  <2>2. CASE t = 0
    BY <2>2, <1>7, JumpPhase
  <2> QED BY <2>1, <2>2
<1> QED BY <1>2, <1>23, <1>25, <1>26 DEF EvalInv

-----------------------------------------------------------------------------
(* The invariant *)

LEMMA EvalInit == Init => EvalInv
<1> SUFFICES ASSUME Init PROVE EvalInv
  OBVIOUS
<1>1. Types /\ Safe
  BY BaseInit DEF Base
<1>2. /\ stack = <<>> /\ eval = <<>> /\ fdstack = <<>> /\ varstack = <<>> /\ source = <<>> /\ sh = <<>>
      /\ Size = 0 /\ ctl = Run
  BY DEF Init, Size
<1>3. \A K : Live(K) = {}
  BY <1>2 DEF Live
<1>4. Len(<<>>) = 0
  OBVIOUS
<1>5. ChainsOK
  <2>1. Within(<<>>, Size) /\ Ascends(<<>>) /\ In(<<>>) = {}
    BY <1>4 DEF Within, Ascends, In
  <2>2. \A K, from : Must(K, from) = {}
    BY <1>3 DEF Must
  <2>3. \A K, from : Linked(<<>>, K, from)
    BY <2>1, <2>2 DEF Linked
  <2> QED BY <1>2, <1>3, <1>4, <2>1, <2>3 DEF ChainsOK
<1>6. ShapeOK
  BY <1>2, <1>3 DEF ShapeOK
<1>7. PhaseOK
  <2>1. ctl.op = "run"
    BY <1>2, CtlsAre
  <2>2. /\ ctl.op # "jump" /\ ctl.op # "exit" /\ ctl.op \notin {"dtor", "unwind"} /\ ctl.op # "land"
        /\ ctl.op # "leave" /\ ctl.op # "die"
    BY <2>1
  <2> QED BY <1>2, <2>2, Zenon DEF PhaseOK
<1> QED BY <1>1, <1>5, <1>6, <1>7 DEF EvalInv

LEMMA EvalStutter == EvalInv /\ UNCHANGED vars => EvalInv'
<1> SUFFICES ASSUME EvalInv, UNCHANGED vars PROVE EvalInv'
  OBVIOUS
<1>1. UNCHANGED <<stack, eval, fdstack, varstack, source, sh, sh_async_exit, exit_trap, ctl>>
  BY DEF vars, chains, traps
<1>2. Types' /\ Safe'
  BY <1>1 DEF EvalInv, Types, Safe, Size, Top, Pending, Within, Ascends, Live, Resumes, KindOK
<1>3. /\ (\A K : Live(K)' = Live(K)) /\ Size' = Size /\ Top' = Top /\ Pending' = Pending
  BY <1>1 DEF Live, Size, Top, Pending
<1>4. ChildAt' = ChildAt /\ Quiet' = Quiet /\ In(sh)' = In(sh)
  BY <1>1, <1>3 DEF ChildAt, Quiet, In
<1>5. ASSUME NEW i PROVE Gone(i)' <=> Gone(i)
  <2>1. Doomed(i)' <=> Doomed(i)
    BY <1>1, <1>3 DEF Doomed
  <2> QED BY <2>1, <1>1 DEF Gone
<1>6. \A K, from : Must(K, from)' = Must(K, from)
  BY <1>3, <1>5 DEF Must
<1>7. ChainsOK'
  <2>1. ChainsOK
    BY DEF EvalInv
  <2>2. ASSUME NEW s, NEW K, NEW from, Linked(s, K, from)
        PROVE  Ascends(s) /\ In(s) \cap (1..Size') \subseteq Live(K)' /\ Must(K, from)' \subseteq In(s)
    BY <2>2, <1>3, <1>6 DEF Linked
  <2>3. Linked(eval, FrameKinds, 0)' /\ Linked(fdstack, FdKinds, 0)' /\ Linked(varstack, VarKinds, 0)' /\ Linked(source, SourceKinds, 0)'
    BY <2>1, <2>2, <1>1 DEF ChainsOK, Linked
  <2>4. Linked(sh, EnvKinds, ChildAt)'
    <3>1. PICK c : c = ChildAt
      OBVIOUS
    <3>2. Linked(sh, EnvKinds, c)
      BY <2>1, <3>1 DEF ChainsOK
    <3>3. Ascends(sh) /\ In(sh) \cap (1..Size') \subseteq Live(EnvKinds)' /\ Must(EnvKinds, c)' \subseteq In(sh)
      BY <2>2, <3>2
    <3>4. Must(EnvKinds, ChildAt)' \subseteq Must(EnvKinds, c)'
      BY <3>1, <1>4 DEF Must
    <3> QED BY <3>3, <3>4, <1>1 DEF Linked
  <2>5. \A i \in Live(FrameKinds)' : ~Gone(i)' => MarksOK(i)'
    BY <2>1, <1>1, <1>3, <1>5 DEF ChainsOK, MarksOK
  <2>6. /\ Pending \/ (Within(eval, Size) /\ Within(fdstack, Size) /\ Within(varstack, Size) /\ Within(source, Size))
        /\ Within(sh, Size) /\ \A a \in 1..Len(sh) : sh[a] > ChildAt
    BY <2>1 DEF ChainsOK
  <2>7. /\ (Pending \/ (Within(eval, Size) /\ Within(fdstack, Size) /\ Within(varstack, Size) /\ Within(source, Size)))'
        /\ Within(sh, Size)' /\ \A a \in 1..Len(sh') : sh'[a] > ChildAt'
    BY <2>6, <1>1, <1>3, <1>4 DEF Within
  <2> QED BY <2>3, <2>4, <2>5, <2>7 DEF ChainsOK
<1>8. ShapeOK'
  <2>1. ShapeOK
    BY DEF EvalInv
  <2>2. \A i \in 1..Size : FrameOK(i)'
    BY <2>1, <1>1, <1>4 DEF ShapeOK, FrameOK
  <2>3. ASSUME NEW j \in Live({"exittrap"}) PROVE ThenOK(j, stack[j].then)' /\ \A i \in Live({"trap"})' : i < j
    BY <2>1, <1>1, <1>3, <1>4 DEF ShapeOK, ThenOK
  <2> QED BY <2>2, <2>3, <1>3 DEF ShapeOK
<1>9. PhaseOK'
  <2>1. PhaseOK
    BY DEF EvalInv
  <2>2. Aimed => Aimed'
    BY <1>1, <1>3, <1>4 DEF Aimed
  <2> QED BY <2>1, <2>2, <1>1, <1>3, <1>4 DEF PhaseOK
<1> QED BY <1>2, <1>7, <1>8, <1>9 DEF EvalInv

LEMMA EvalStep ==
  ASSUME EvalInv, CountsOK, Tame, [Next]_vars
  PROVE  EvalInv'
<1>1. Types /\ Safe
  BY DEF EvalInv
<1>2. CASE UNCHANGED vars
  BY <1>2, EvalStutter
<1>3. CASE Next
  <2>1. Opens \/ Ending \/ Rests \/ (\E i : Leaps(i)) \/ (\E b : Suspends(b)) \/ (\E t : HangsOn(t)) \/ eval_exit \/ sh_forked
    BY <1>1, <1>3, StepIs
  <2>2. CASE Opens
    BY <2>2, OpeningInv DEF Opens
  <2> QED BY <2>1, <2>2, EndingInv, RestsInv, LeapsInv, SuspendsInv, HangsOnInv, ExitInv, ForkInv
<1> QED BY <1>2, <1>3

(* When a command runs, a chain is that of the constructs around it.       *)
LEMMA LinkedHeld ==
  ASSUME Types, ctl = Run, NEW s \in Chain, NEW K, NEW from, Linked(s, K, from), Within(s, Size)
  PROVE  Held(s, K, from)
<1>1. Ascends(s) /\ In(s) \cap (1..Size) \subseteq Live(K) /\ Must(K, from) \subseteq In(s)
  BY DEF Linked
<1>2. In(s) \subseteq 1..Size
  BY SizeIs DEF In, Within, Chain
<1>3. Cardinality(In(s)) = Len(s)
  BY <1>1, LengthIs
<1>4. ctl.op \notin {"die", "done", "dtor", "unwind"}
  BY CtlsAre
<1>5. \A i \in Live(K) : i > from /\ ~Doomed(i) => i \in In(s)
  BY <1>1, <1>4, GoneDoomed DEF Must
<1> QED BY <1>1, <1>2, <1>3, <1>5 DEF Held

LEMMA ChainsAre ==
  ASSUME EvalInv, CountsOK
  PROVE  ChainsHeld
<1>1. Types /\ Safe /\ ChainsOK
  BY DEF EvalInv
<1>2. TypeOK
  <2>1. ASSUME NEW i \in 1..Size PROVE stack[i].kind \in Kinds /\ (stack[i].pending > 0 => stack[i].kind = "source")
    <3>1. stack[i] \in FrameSet
      BY <1>1 DEF Types, Size
    <3>2. stack[i].kind \in Kinds /\ stack[i].pending \in Nat
      BY <3>1 DEF FrameSet
    <3>3. stack[i].pending # 0 => stack[i].kind = "source"
      BY <1>1 DEF Types
    <3> QED BY <3>2, <3>3
  <2>2. \A s \in Chain : In(s) \subseteq Nat \ {0}
    BY DEF Chain, In
  <2>3. \A s \in {eval, fdstack, varstack, source, sh} : In(s) \subseteq Nat \ {0}
    BY <2>2, <1>1 DEF Types
  <2>4. ctl.op \in Ops
    BY <1>1 DEF Types, Ctls
  <2> QED BY <2>1, <2>3, <2>4, <1>1 DEF TypeOK, Types, CountsOK, Traps
<1>3. ASSUME ctl = Run
      PROVE  /\ Held(fdstack, FdKinds, 0) /\ Held(varstack, VarKinds, 0) /\ Held(source, SourceKinds, 0)
             /\ Held(sh, EnvKinds, ChildAt) /\ Held(eval, FrameKinds, 0)
  <2>1. ~Pending
    BY <1>3, CtlsAre DEF Pending
  <2>2. /\ Within(eval, Size) /\ Within(fdstack, Size) /\ Within(varstack, Size) /\ Within(source, Size) /\ Within(sh, Size)
    BY <1>1, <2>1 DEF ChainsOK
  <2>3. eval \in Chain /\ fdstack \in Chain /\ varstack \in Chain /\ source \in Chain /\ sh \in Chain
    BY <1>1 DEF Types
  <2> QED BY <2>2, <2>3, <1>1, <1>3, LinkedHeld DEF ChainsOK
<1> QED BY <1>2, <1>3 DEF ChainsHeld, ScopesHeld, EnvHeld, EvalHeld

(* For every script without controls in the EXIT trap, and without         *)
(* background jobs in sourced files: whenever a command runs, the          *)
(* redirections, variables, inputs, environments and frames in force are   *)
(* those of the constructs around it, after any break, return or exit.     *)
THEOREM ChainsAlwaysHeld == Tame => (Spec => []ChainsHeld)
<1> SUFFICES ASSUME Tame PROVE Spec => []ChainsHeld
  OBVIOUS
<1>1. Init => Base /\ EvalInv
  BY BaseInit, EvalInit
<1>2. Base /\ EvalInv /\ [Next]_vars => (Base /\ EvalInv)'
  BY BaseStep, EvalStep DEF Base
<1>3. Base /\ EvalInv => ChainsHeld
  BY ChainsAre DEF Base
<1> QED BY <1>1, <1>2, <1>3, PTL DEF Spec

-----------------------------------------------------------------------------
(* What a jump never leaves *)

LEMMA LeapsStay ==
  ASSUME EvalInv, NEW i, Leaps(i)
  PROVE  /\ \A x \in Live(ShellKinds) : x <= i
         /\ ctl.op = "jump" => \A x \in Live(ShellKinds \cup {"function", "child"}) : x <= i
<1>1. Types /\ Safe /\ ChainsOK /\ ShapeOK /\ PhaseOK
  BY DEF EvalInv
<1>2. i \in 1..Size /\ i > ChildAt /\ Size \in Nat /\ ChildAt \in 0..Size /\ \A x \in Live({"child"}) : x <= ChildAt
  BY <1>1, LeapsTarget, SizeIs, ChildIs DEF Leaps, Target
<1>3. CASE ctl.op = "unwind" /\ i = ctl.n
  BY <1>1, <1>3, PhaseIs DEF Aimed
<1>4. CASE ctl.op = "jump" /\ i \in Loops(Innermost(Bounds))
  <2>1. /\ ~Pending
        /\ \A x \in 1..Size : x > ChildAt /\ stack[x].kind \in {"function", "subshell", "subst"} => x <= Innermost(Bounds)
    BY <1>4, BoundsHold
  <2>2. Innermost(Bounds) \in 0..Size /\ i > Innermost(Bounds)
    BY <2>1, <1>1, <1>4, InnermostIn DEF Bounds, Loops
  <2>3. ASSUME NEW x \in Live(ShellKinds \cup {"function", "child"}) PROVE x <= i
    <3>1. x \in 1..Size /\ stack[x].kind \in {"function", "subshell", "subst", "child"}
      BY DEF Live, ShellKinds
    <3>2. CASE ~(x > ChildAt)
      BY <3>1, <3>2, <1>2
    <3>3. CASE x > ChildAt
      <4>1. stack[x].kind # "child"
        BY <3>1, <3>3, <1>2 DEF Live
      <4> QED BY <3>1, <3>3, <4>1, <2>1, <2>2, <1>2
    <3> QED BY <3>2, <3>3
  <2>4. Live(ShellKinds) \subseteq Live(ShellKinds \cup {"function", "child"})
    BY DEF Live
  <2> QED BY <2>3, <2>4
<1> QED BY <1>3, <1>4 DEF Leaps

LEMMA SuspendsStay ==
  ASSUME EvalInv, Tame, NEW b, Suspends(b)
  PROVE  \A x \in Live(ShellKinds \cup {"function", "child"}) : x <= b
<1>1. Types /\ Safe /\ ChainsOK /\ ShapeOK /\ PhaseOK
  BY DEF EvalInv
<1>2. ChildAt = 0 /\ b \in Nat
  BY SuspendsShape
<1>3. b = Innermost(Bounds) /\ ctl.op = "jump"
  BY DEF Suspends
<1>4. \A x \in 1..Size : x > ChildAt /\ stack[x].kind \in {"function", "subshell", "subst"} => x <= Innermost(Bounds)
  BY <1>3, BoundsHold
<1>5. Live({"child"}) = {}
  BY <1>1, <1>2, ChildIs, LiveIs
<1>6. ASSUME NEW x \in Live(ShellKinds \cup {"function", "child"}) PROVE x <= b
  <2>1. x \in 1..Size /\ stack[x].kind \in {"function", "subshell", "subst", "child"}
    BY DEF Live, ShellKinds
  <2>2. stack[x].kind # "child"
    BY <2>1, <1>5 DEF Live
  <2> QED BY <2>1, <2>2, <1>2, <1>3, <1>4
<1> QED BY <1>6

LEMMA BreakStep ==
  ASSUME EvalInv, CountsOK, Tame, [Next]_vars, ctl.op = "jump"
  PROVE  \A i \in Live(ShellKinds \cup {"function", "child"}) : i \in DOMAIN stack'
<1>1. Types /\ Safe /\ ChainsOK /\ ShapeOK /\ PhaseOK
  BY DEF EvalInv
<1>2. Types'
  BY BaseStep, <1>1 DEF Base
<1>3. DOMAIN stack' = 1..Len(stack') /\ Size \in Nat
  BY <1>1, <1>2, SizeIs DEF Types
<1>4. \A i \in Live(ShellKinds \cup {"function", "child"}) : i \in 1..Size
  BY <1>1, LiveIs
<1>5. CASE UNCHANGED vars
  BY <1>3, <1>4, <1>5 DEF vars, Size
<1>6. CASE Rests
  <2>1. Len(stack') = Size
    BY <1>1, <1>6, RestingIs DEF Resting, Stays, Keeps
  <2> QED BY <2>1, <1>3, <1>4
<1>7. ASSUME NEW i, Leaps(i) PROVE \A x \in Live(ShellKinds \cup {"function", "child"}) : x \in DOMAIN stack'
  <2>1. \A x \in Live(ShellKinds \cup {"function", "child"}) : x <= i
    BY <1>7, LeapsStay
  <2>2. Len(stack') = i /\ i \in Nat /\ DOMAIN stack' = 1..i
    BY <1>1, <1>3, <1>7, LeapsSafe DEF Falls, Keeps
  <2>3. \A x \in Live(ShellKinds \cup {"function", "child"}) : x \in 1..i
    <3> SUFFICES ASSUME NEW x \in Live(ShellKinds \cup {"function", "child"}) PROVE x \in 1..i
      OBVIOUS
    <3>1. x <= i /\ x \in 1..Size
      BY <2>1, <1>4
    <3> QED BY <2>2, <3>1
  <2> QED BY <2>2, <2>3
<1>8. ASSUME NEW b, Suspends(b) PROVE \A x \in Live(ShellKinds \cup {"function", "child"}) : x \in DOMAIN stack'
  <2>1. \A x \in Live(ShellKinds \cup {"function", "child"}) : x <= b
    BY <1>8, SuspendsStay
  <2>2. Len(stack') = b /\ b \in Nat /\ DOMAIN stack' = 1..b
    BY <1>3, <1>8, SuspendsShape DEF Keeps
  <2>3. \A x \in Live(ShellKinds \cup {"function", "child"}) : x \in 1..b
    <3> SUFFICES ASSUME NEW x \in Live(ShellKinds \cup {"function", "child"}) PROVE x \in 1..b
      OBVIOUS
    <3>1. x <= b /\ x \in 1..Size
      BY <2>1, <1>4
    <3> QED BY <2>2, <3>1
  <2> QED BY <2>2, <2>3
<1>9. CASE Next
  <2>1. Opens \/ Ending \/ Rests \/ (\E i : Leaps(i)) \/ (\E b : Suspends(b)) \/ (\E t : HangsOn(t)) \/ eval_exit \/ sh_forked
    BY <1>1, <1>9, StepIs
  <2>2. ~Opens
    BY CtlsAre DEF Opens, Opening
  <2>3. ~Ending
    BY DEF Ending
  <2>4. ~(\E t : HangsOn(t))
    BY DEF HangsOn
  <2>5. ~eval_exit
    BY DEF eval_exit
  <2>6. ~sh_forked
    BY <1>1, ForkIs, CtlsAre
  <2> QED BY <2>1, <2>2, <2>3, <2>4, <2>5, <2>6, <1>6, <1>7, <1>8
<1> QED BY <1>5, <1>9

(* break and continue never leave a function call, a subshell, a command   *)
(* substitution or a forked child, whatever operand they have and however  *)
(* many sourced files and eval builtins are in between.                    *)
THEOREM BreaksStayInside == Tame => (Spec => BreakStays)
<1> SUFFICES ASSUME Tame PROVE Spec => BreakStays
  OBVIOUS
<1>1. Init => Base /\ EvalInv
  BY BaseInit, EvalInit
<1>2. Base /\ EvalInv /\ [Next]_vars => (Base /\ EvalInv)'
  BY BaseStep, EvalStep DEF Base
<1>3. Base /\ EvalInv /\ [Next]_vars
      => [ctl.op = "jump" => \A i \in Live(ShellKinds \cup {"function", "child"}) : i \in DOMAIN stack']_vars
  BY BreakStep DEF Base
<1> QED BY <1>1, <1>2, <1>3, PTL DEF Spec, BreakStays

LEMMA ChildStep ==
  ASSUME EvalInv, CountsOK, Tame, [Next]_vars, Child
  PROVE  Child'
<1>1. Types /\ Safe /\ ChainsOK /\ ShapeOK /\ PhaseOK
  BY DEF EvalInv
<1>2. Types'
  BY BaseStep, <1>1 DEF Base
<1>3. ChildAt # 0 /\ ChildAt \in 0..Size /\ Size \in Nat
  <2>1. PICK i \in 1..Size : stack[i].kind = "child"
    BY DEF Child
  <2>2. i \in Live({"child"})
    BY <2>1 DEF Live
  <2> QED BY <2>2, <1>1, ChildIs, SizeIs
<1>4. ASSUME ChildAt' # 0 PROVE Child'
  <2>1. (Types => (ChildAt # 0 => ChildAt \in Live({"child"})))'
    BY ChildIs, PTL
  <2>2. ChildAt' \in Live({"child"})'
    BY <1>2, <1>4, <2>1
  <2> QED BY <2>2 DEF Live, Child
<1>5. CASE UNCHANGED vars
  BY <1>5 DEF vars, Child, Size
<1>6. ASSUME NEW k, Opening(k) PROVE ChildAt' # 0
  <2>1. Grown(k, Run) /\ k # "child"
    BY <1>1, <1>6, PushFrame, CtlsAre DEF Opening
  <2> QED BY <2>1, <1>1, <1>3, GrownChild
<1>7. CASE Ending
  <2>1. Keeps(Size - 1) /\ ChildAt <= Size - 1
    BY <1>7, EndingPops DEF Popped
  <2> QED BY <2>1, <1>1, <1>3, <1>4, KeptChild
<1>8. CASE Rests
  BY <1>1, <1>3, <1>4, <1>8, RestingIs, StaysKept DEF Resting
<1>9. ASSUME NEW i, Leaps(i) PROVE ChildAt' # 0
  <2>1. Keeps(i) /\ i \in 1..Size
    BY <1>1, <1>9, LeapsSafe DEF Falls, Leaps
  <2>2. ChildAt <= i
    BY <2>1, <1>3, <1>9, LeapsTarget DEF Target
  <2> QED BY <2>1, <2>2, <1>1, <1>3, KeptChild
<1>10. ASSUME NEW b, Suspends(b) PROVE FALSE
  BY <1>3, <1>10, SuspendsShape
<1>11. ASSUME NEW t, HangsOn(t) PROVE ChildAt' # 0
  BY <1>1, <1>3, <1>11, TrapsSafe, GrownChild
<1>12. CASE eval_exit
  BY <1>1, <1>12, ExitSafe DEF Child, Size
<1>13. CASE sh_forked
  BY <1>3, <1>4, <1>13, ForkShape
<1>14. CASE Next
  <2>1. Opens \/ Ending \/ Rests \/ (\E i : Leaps(i)) \/ (\E b : Suspends(b)) \/ (\E t : HangsOn(t)) \/ eval_exit \/ sh_forked
    BY <1>1, <1>14, StepIs
  <2> QED BY <2>1, <1>4, <1>6, <1>7, <1>8, <1>9, <1>10, <1>11, <1>12, <1>13 DEF Opens
<1> QED BY <1>5, <1>14

(* No break, return or exit, with or without traps, takes a forked child   *)
(* back into the script of the shell that forked it.                       *)
THEOREM ChildrenStayInside == Tame => (Spec => ChildStays)
<1> SUFFICES ASSUME Tame PROVE Spec => ChildStays
  OBVIOUS
<1>1. Init => Base /\ EvalInv
  BY BaseInit, EvalInit
<1>2. Base /\ EvalInv /\ [Next]_vars => (Base /\ EvalInv)'
  BY BaseStep, EvalStep DEF Base
<1>3. Base /\ EvalInv /\ [Next]_vars => [Child => Child']_vars
  BY ChildStep DEF Base
<1> QED BY <1>1, <1>2, <1>3, PTL DEF Spec, ChildStays

-----------------------------------------------------------------------------
(* The depth of subshells *)

DepthOK == exec_subshell_depth = Cardinality(Live(ShellKinds)) /\ sh_subshell = Cardinality(Live(ShellKinds))

LEMMA DepthSame ==
  ASSUME DepthOK, Live(ShellKinds)' = Live(ShellKinds), UNCHANGED counters
  PROVE  DepthOK'
<1>1. PICK S : S = Live(ShellKinds)
  OBVIOUS
<1>2. Cardinality(Live(ShellKinds))' = Cardinality(S) /\ Cardinality(Live(ShellKinds)) = Cardinality(S)
  BY <1>1
<1> QED BY <1>2 DEF DepthOK, counters

LEMMA KeptShells ==
  ASSUME Types, NEW n, Keeps(n), \A x \in Live(ShellKinds) : x <= n
  PROVE  Live(ShellKinds)' = Live(ShellKinds)
<1>1. Live(ShellKinds)' = {i \in Live(ShellKinds) : i <= n}
  BY KeptLive
<1> QED BY <1>1

LEMMA DepthStep ==
  ASSUME EvalInv, CountsOK, DepthOK, Tame, [Next]_vars
  PROVE  DepthOK'
<1>1. Types /\ Safe /\ ChainsOK /\ ShapeOK /\ PhaseOK
  BY DEF EvalInv
<1>2. Size \in Nat /\ \A x \in Live(ShellKinds) : x <= Size
  BY <1>1, LiveIs, SizeIs
<1>3. CASE UNCHANGED vars
  BY <1>3, DepthSame DEF vars, counters, Live, Size
<1>4. ASSUME NEW k, Opening(k) PROVE DepthOK'
  <2>1. Grown(k, Run)
    BY <1>1, <1>4, PushFrame, CtlsAre DEF Opening
  <2>2. PICK c : c = Cardinality(Live(ShellKinds)')
    OBVIOUS
  <2>3. c = Cardinality(Live(ShellKinds)) + One(k \in ShellKinds)
    BY <2>1, <2>2, <1>1, CountGrow
  <2>4. /\ exec_subshell_depth' = exec_subshell_depth + One(k \in ShellKinds)
        /\ sh_subshell' = sh_subshell + One(k \in ShellKinds)
    BY <1>4 DEF Opening
  <2>5. exec_subshell_depth' = c /\ sh_subshell' = c
    BY <2>3, <2>4 DEF DepthOK
  <2> QED BY <2>2, <2>5 DEF DepthOK
<1>5. CASE Ending
  <2>1. Keeps(Size - 1) /\ Size > 0
    BY <1>5, EndingPops DEF Popped, Ending
  <2>2. PICK c : c = Cardinality(Live(ShellKinds)')
    OBVIOUS
  <2>3. c = Cardinality(Live(ShellKinds)) - One(Top.kind \in ShellKinds)
    BY <2>1, <2>2, <1>1, CountEnd
  <2>4. /\ exec_subshell_depth' = exec_subshell_depth - One(Top.kind \in ShellKinds)
        /\ sh_subshell' = sh_subshell - One(Top.kind \in ShellKinds)
    BY <1>5 DEF Ending, EndCounts
  <2>5. exec_subshell_depth' = c /\ sh_subshell' = c
    BY <2>3, <2>4 DEF DepthOK
  <2> QED BY <2>2, <2>5 DEF DepthOK
<1>6. CASE Rests
  BY <1>1, <1>2, <1>6, RestingIs, KeptShells, DepthSame DEF Resting, Stays
<1>7. ASSUME NEW i, Leaps(i) PROVE DepthOK'
  BY <1>1, <1>7, LeapsSafe, LeapsStay, KeptShells, DepthSame DEF Falls, Leaps
<1>8. ASSUME NEW b, Suspends(b) PROVE DepthOK'
  <2>1. \A x \in Live(ShellKinds) : x <= b
    BY <1>8, SuspendsStay DEF Live
  <2> QED BY <2>1, <1>1, <1>8, SuspendsShape, KeptShells, DepthSame DEF Suspends
<1>9. ASSUME NEW t, HangsOn(t) PROVE DepthOK'
  <2>1. Grown("exittrap", t)
    BY <1>1, <1>9, TrapsSafe
  <2>2. Live(ShellKinds)' = Live(ShellKinds) \cup (IF "exittrap" \in ShellKinds THEN {Size + 1} ELSE {})
    BY <2>1, <1>1, GrownLive
  <2>3. Live(ShellKinds)' = Live(ShellKinds)
    BY <2>2 DEF ShellKinds
  <2> QED BY <2>3, <1>9, DepthSame DEF HangsOn
<1>10. CASE eval_exit
  BY <1>1, <1>2, <1>10, ExitSafe, KeptShells, DepthSame DEF Falls
<1>11. CASE sh_forked
  <2>1. Live(ShellKinds)' = Live(ShellKinds) \cup (IF "child" \in ShellKinds THEN {Size + 1} ELSE {})
    BY <1>1, <1>11, ForkIs, ForkLive
  <2>2. Live(ShellKinds)' = Live(ShellKinds)
    BY <2>1 DEF ShellKinds
  <2> QED BY <2>2, <1>11, DepthSame DEF sh_forked
<1>12. CASE Next
  <2>1. Opens \/ Ending \/ Rests \/ (\E i : Leaps(i)) \/ (\E b : Suspends(b)) \/ (\E t : HangsOn(t)) \/ eval_exit \/ sh_forked
    BY <1>1, <1>12, StepIs
  <2> QED BY <2>1, <1>4, <1>5, <1>6, <1>7, <1>8, <1>9, <1>10, <1>11 DEF Opens
<1> QED BY <1>3, <1>12

LEMMA DepthInit == Init => DepthOK
<1> SUFFICES ASSUME Init PROVE DepthOK
  OBVIOUS
<1>1. Live(ShellKinds) = {} /\ exec_subshell_depth = 0 /\ sh_subshell = 0
  BY DEF Init, Live, Size
<1> QED BY <1>1, FS_EmptySet DEF DepthOK

-----------------------------------------------------------------------------
(* The request that an exit end the process *)

(* Scripts whose signal traps end in exit, by set -e or at their end, and  *)
(* that source no file.                                                    *)
ShellTame == ExitControls = {} /\ "source" \notin Constructs /\ TrapControls \subseteq {"exit", "fail"}

Leaving(x) == x.op \in {"done", "exit", "die"} \/ (x.op \in {"dtor", "unwind", "land"} /\ x.how = "exit")
AimOK(x) == (x.how = "return" => Live({"trap"}) = {}) /\ (x.how = "exit" => x.n \in Live(ShellKinds))
TrapsClear == \A i \in Live({"trap"}) : stack[i].async = FALSE
Requested ==
  sh_async_exit => Live({"trap"}) # {} \/ Leaving(ctl) \/ \E j \in Live({"exittrap"}) : Leaving(stack[j].then)
ThensOK == \A j \in Live({"exittrap"}) : stack[j].then.op = "unwind" => AimOK(stack[j].then)
CtlOK ==
  /\ ctl.op = "jump" => Live({"trap"}) = {} /\ ctl.how # "exit"
  /\ ctl.op \in {"dtor", "unwind"} => AimOK(ctl)
  /\ ctl.op = "land" /\ ctl.how = "exit" => Top.kind \in ShellKinds
AsyncOK == TrapsClear /\ Requested /\ ThensOK /\ CtlOK

LEMMA ShellTameIs == ShellTame => Tame
  BY DEF ShellTame, Tame

LEMMA NoSource ==
  ASSUME Types, ShapeOK, ShellTame
  PROVE  \A i \in 1..Size : stack[i].kind # "source"
  BY DEF ShapeOK, FrameOK, ShellTame

(* In the body of a signal's trap neither break nor return runs.           *)
LEMMA MayTraps ==
  ASSUME Types, ShapeOK, ShellTame, NEW c, May(c), c \notin {"exit", "fail"}
  PROVE  Live({"trap"}) = {}
<1> SUFFICES ASSUME Live({"trap"}) # {} PROVE FALSE
  OBVIOUS
<1> DEFINE S == {i \in 1..Size : stack[i].kind \in TrapKinds}
<1>1. Size \in Nat
  BY SizeIs
<1>2. S # {} /\ S \in SUBSET (1..Size)
  BY DEF Live, TrapKinds
<1>3. PICK h : h = Highest({0} \cup S)
  OBVIOUS
<1>4. h \in S
  BY <1>1, <1>2, <1>3, InnermostOf DEF Innermost
<1>5. Body = Kind(h)
  BY <1>3 DEF Body
<1>6. Body \in TrapKinds
  BY <1>4, <1>5 DEF Kind
<1>7. c \in TrapControls \cup ExitControls
  BY <1>6 DEF May, TrapKinds
<1> QED BY <1>7 DEF ShellTame

LEMMA KeptClear ==
  ASSUME Types, TrapsClear, NEW n, Keeps(n)
  PROVE  TrapsClear'
<1>1. Live({"trap"})' = {i \in Live({"trap"}) : i <= n} /\ n \in Nat /\ Live({"trap"}) \subseteq 1..Size
  BY KeptLive, LiveIs, SizeIs DEF Keeps
<1>2. ASSUME NEW i \in Live({"trap"})' PROVE stack'[i].async = FALSE
  <2>1. i \in Live({"trap"}) /\ i \in 1..n
    BY <1>1, SizeIs
  <2>2. stack'[i].async = stack[i].async
    BY <2>1 DEF Keeps
  <2> QED BY <2>1, <2>2 DEF TrapsClear
<1> QED BY <1>2 DEF TrapsClear

LEMMA KeptThens ==
  ASSUME Types, Safe, ThensOK, NEW n, Keeps(n)
  PROVE  ThensOK'
<1>1. /\ Live({"trap"})' \subseteq Live({"trap"}) /\ n \in Nat /\ n <= Size /\ Size \in Nat
      /\ Live({"exittrap"})' = {i \in Live({"exittrap"}) : i <= n} /\ Live({"exittrap"}) \subseteq 1..Size
      /\ Live(ShellKinds)' = {i \in Live(ShellKinds) : i <= n}
  BY KeptLive, LiveIs, SizeIs DEF Keeps
<1>2. ASSUME NEW j \in Live({"exittrap"})', stack'[j].then.op = "unwind" PROVE AimOK(stack[j].then)'
  <2>1. j \in Live({"exittrap"}) /\ j \in 1..n
    BY <1>1
  <2>2. PICK t : t = stack[j].then
    OBVIOUS
  <2>3. stack'[j].then = t
    BY <2>1, <2>2 DEF Keeps
  <2>4. AimOK(t) /\ t.op = "unwind"
    BY <2>1, <2>2, <2>3, <1>2 DEF ThensOK
  <2>5. stack[j].kind = "exittrap" /\ j \in 1..Size
    BY <2>1 DEF Live
  <2>6. t.n \in 1..(j - 1)
    BY <2>2, <2>4, <2>5 DEF Safe, Resumes
  <2>7. t.n <= n
    BY <2>1, <2>6, <1>1
  <2>8. AimOK(t)'
    BY <2>4, <2>7, <1>1 DEF AimOK
  <2> QED BY <2>3, <2>8 DEF AimOK
<1> QED BY <1>2 DEF ThensOK

LEMMA CtlRests ==
  ASSUME ctl'.op \in {"run", "test", "done", "leave", "exit", "die"}
  PROVE  CtlOK'
<1>1. ctl'.op # "jump" /\ ctl'.op \notin {"dtor", "unwind"} /\ ctl'.op # "land"
  OBVIOUS
<1> QED BY <1>1, Zenon DEF CtlOK

LEMMA NotLeaving ==
  ASSUME NEW x, Leaving(x)
  PROVE  x.op \in {"done", "exit", "die", "dtor", "unwind", "land"}
  BY DEF Leaving

LEMMA GrownThens ==
  ASSUME Types, Safe, ThensOK, NEW k, NEW t, Grown(k, t), k = "trap" => Quiet,
         k = "exittrap" /\ t.op = "unwind" => AimOK(t)
  PROVE  ThensOK'
<1>1. /\ Live({"trap"})' = Live({"trap"}) \cup (IF k \in {"trap"} THEN {Size + 1} ELSE {})
      /\ Live({"exittrap"})' = Live({"exittrap"}) \cup (IF k \in {"exittrap"} THEN {Size + 1} ELSE {})
      /\ Live(ShellKinds)' = Live(ShellKinds) \cup (IF k \in ShellKinds THEN {Size + 1} ELSE {})
  BY GrownLive
<1>2. ASSUME NEW j \in Live({"exittrap"})', stack'[j].then.op = "unwind" PROVE AimOK(stack[j].then)'
  <2>1. PICK u : u = stack'[j].then
    OBVIOUS
  <2>2. CASE j \in Live({"exittrap"})
    <3>1. j \in 1..Size /\ k # "trap"
      BY <2>2, LiveIs DEF Quiet
    <3>2. stack'[j] = stack[j]
      BY <3>1 DEF Grown
    <3>3. AimOK(u)
      BY <2>1, <2>2, <3>2, <1>2 DEF ThensOK
    <3>4. AimOK(u)'
      BY <3>1, <3>3, <1>1 DEF AimOK
    <3> QED BY <2>1, <3>4 DEF AimOK
  <2>3. CASE j \notin Live({"exittrap"})
    <3>1. k = "exittrap" /\ j = Size + 1
      BY <2>3, <1>1
    <3>2. u = t
      BY <2>1, <3>1 DEF Grown
    <3>3. AimOK(t)
      BY <2>1, <3>1, <3>2, <1>2
    <3>4. AimOK(t)'
      BY <3>1, <3>3, <1>1 DEF AimOK
    <3> QED BY <2>1, <3>2, <3>4 DEF AimOK
  <2> QED BY <2>2, <2>3
<1> QED BY <1>2 DEF ThensOK

LEMMA AsyncOpening ==
  ASSUME EvalInv, ShellTame, AsyncOK, NEW k, Opening(k)
  PROVE  AsyncOK'
<1>1. Types /\ Safe /\ ChainsOK /\ ShapeOK /\ PhaseOK /\ TrapsClear /\ Requested /\ ThensOK /\ CtlOK
  BY DEF EvalInv, AsyncOK
<1>2. Grown(k, Run)
  BY <1>1, PushFrame, CtlsAre DEF Opening
<1>3. /\ k = "trap" => ~InTrap
      /\ ctl.op \in {"run", "test"} /\ ctl' \in {Run, Do("test")}
      /\ k # "exittrap"
      /\ k # "trap" => sh_async_exit' = sh_async_exit
  BY CtlsAre DEF Opening
<1>4. ctl'.op \in {"run", "test"}
  <2>1. Run.op = "run" /\ Do("test").op = "test"
    BY DEF Run, Do
  <2> QED BY <2>1, <1>3
<1>5. CtlOK'
  BY <1>4, CtlRests
<1>6. k = "trap" => Quiet /\ Live({"trap"}) = {}
  BY <1>3 DEF InTrap, Quiet, Live, TrapKinds
<1>7. ThensOK'
  BY <1>1, <1>2, <1>3, <1>6, GrownThens
<1>8. /\ Live({"trap"})' = Live({"trap"}) \cup (IF k \in {"trap"} THEN {Size + 1} ELSE {})
      /\ Live({"exittrap"}) \subseteq Live({"exittrap"})' /\ Live({"exittrap"}) \subseteq 1..Size /\ Live({"trap"}) \subseteq 1..Size
  BY <1>1, <1>2, GrownLive, LiveIs
<1>9. ~Leaving(ctl)
  BY <1>3, NotLeaving
<1>10. TrapsClear'
  <2>1. ASSUME NEW i \in Live({"trap"})' PROVE stack'[i].async = FALSE
    <3>1. CASE i \in Live({"trap"})
      <4>1. stack'[i] = stack[i]
        BY <3>1, <1>2, <1>8 DEF Grown
      <4> QED BY <3>1, <4>1, <1>1 DEF TrapsClear
    <3>2. CASE i \notin Live({"trap"})
      <4>1. i = Size + 1 /\ k = "trap"
        BY <3>2, <1>8
      <4>2. stack'[i].async = sh_async_exit
        BY <4>1, <1>2 DEF Grown
      <4>3. sh_async_exit = FALSE
        BY <4>1, <1>1, <1>6, <1>9 DEF Requested, Quiet, Types
      <4> QED BY <4>2, <4>3
    <3> QED BY <3>1, <3>2
  <2> QED BY <2>1 DEF TrapsClear
<1>11. Requested'
  <2>1. CASE k = "trap"
    BY <2>1, <1>8 DEF Requested
  <2>2. CASE k # "trap"
    <3>1. SUFFICES ASSUME sh_async_exit' PROVE Live({"trap"})' # {} \/ \E j \in Live({"exittrap"})' : Leaving(stack'[j].then)
      BY DEF Requested, Leaving
    <3>2. Live({"trap"}) # {} \/ \E j \in Live({"exittrap"}) : Leaving(stack[j].then)
      BY <2>2, <3>1, <1>1, <1>3, <1>9 DEF Requested
    <3>3. CASE Live({"trap"}) # {}
      BY <3>3, <1>8
    <3>4. ASSUME NEW j \in Live({"exittrap"}), Leaving(stack[j].then) PROVE \E i \in Live({"exittrap"})' : Leaving(stack'[i].then)
      <4>1. stack'[j] = stack[j]
        BY <1>2, <1>8 DEF Grown
      <4>2. Leaving(stack'[j].then)
        BY <3>4, <4>1
      <4> QED BY <4>2, <1>8
    <3> QED BY <3>2, <3>3, <3>4
  <2> QED BY <2>1, <2>2
<1> QED BY <1>5, <1>7, <1>10, <1>11 DEF AsyncOK

LEMMA AsyncEnding ==
  ASSUME EvalInv, ShellTame, AsyncOK, Ending
  PROVE  AsyncOK'
<1>1. Types /\ Safe /\ ChainsOK /\ ShapeOK /\ PhaseOK /\ TrapsClear /\ Requested /\ ThensOK /\ CtlOK
  BY DEF EvalInv, AsyncOK
<1>2. Keeps(Size - 1) /\ Size > 0 /\ EndCtl /\ EndTraps /\ ctl.op \in {"run", "land", "leave"}
  BY EndingPops DEF Popped, Ending
<1>3. Size \in Nat /\ Size \in 1..Size /\ Top = stack[Size] /\ Top.kind # "source"
  BY <1>1, <1>2, SizeIs, TopIs, NoSource
<1>4. TrapsClear' /\ ThensOK'
  BY <1>1, <1>2, KeptClear, KeptThens
<1>5. /\ Live({"trap"})' = {i \in Live({"trap"}) : i <= Size - 1} /\ Live({"trap"}) \subseteq 1..Size
      /\ Live({"exittrap"})' = {i \in Live({"exittrap"}) : i <= Size - 1} /\ Live({"exittrap"}) \subseteq 1..Size
      /\ Live(ShellKinds)' = {i \in Live(ShellKinds) : i <= Size - 1}
  BY <1>1, <1>2, KeptLive, LiveIs
<1>6. CtlOK'
  <2>1. CASE Top.kind = "exittrap" /\ ctl' = Top.then
    <3>1. Resumes(Size, ctl') /\ (ctl'.op = "unwind" => AimOK(Top.then))
      BY <2>1, <1>1, <1>3 DEF Safe, ThensOK, Live
    <3>2. ctl'.op \in {"run", "done", "leave", "unwind"} /\ (ctl'.op = "unwind" => ctl'.n \in 1..(Size - 1))
      BY <3>1 DEF Resumes
    <3>3. CASE ctl'.op = "unwind"
      <4>1. AimOK(ctl)'
        <5>1. Live({"trap"})' \subseteq Live({"trap"})
          BY <1>5
        <5>2. ctl'.n \in Live(ShellKinds) => ctl'.n \in Live(ShellKinds)'
          BY <3>2, <3>3, <1>5
        <5>3. (ctl'.how = "return" => Live({"trap"}) = {}) /\ (ctl'.how = "exit" => ctl'.n \in Live(ShellKinds))
          BY <2>1, <3>1, <3>3 DEF AimOK
        <5> QED BY <5>1, <5>2, <5>3 DEF AimOK
      <4>2. ctl'.op # "jump" /\ ctl'.op # "land"
        BY <3>3
      <4> QED BY <4>1, <4>2, Zenon DEF CtlOK
    <3>4. CASE ctl'.op # "unwind"
      BY <3>2, <3>4, CtlRests
    <3> QED BY <3>3, <3>4
  <2>2. CASE ctl' = Run \/ ctl' = Do("leave") \/ ctl' = Do("exit")
    <3>1. Run.op = "run" /\ Do("leave").op = "leave" /\ Do("exit").op = "exit"
      BY DEF Run, Do
    <3>2. ctl'.op \in {"run", "leave", "exit"}
      BY <2>2, <3>1
    <3> QED BY <3>2, CtlRests
  <2> QED BY <2>1, <2>2, <1>2, <1>3 DEF EndCtl
<1>7. Requested'
  <2>1. CASE Top.kind = "trap"
    <3>1. sh_async_exit' = FALSE
      BY <2>1, <1>1, <1>2, <1>3 DEF EndTraps, TrapsClear, Live
    <3> QED BY <3>1 DEF Requested
  <2>2. CASE Top.kind # "trap"
    <3>1. SUFFICES ASSUME sh_async_exit' PROVE Live({"trap"})' # {} \/ Leaving(ctl') \/ \E j \in Live({"exittrap"})' : Leaving(stack'[j].then)
      BY DEF Requested, Leaving
    <3>2. sh_async_exit
      BY <2>2, <3>1, <1>2 DEF EndTraps
    <3>3. Live({"trap"}) # {} \/ Leaving(ctl) \/ \E j \in Live({"exittrap"}) : Leaving(stack[j].then)
      BY <3>2, <1>1 DEF Requested
    <3>4. CASE Live({"trap"}) # {}
      <4>1. PICK i \in Live({"trap"}) : TRUE
        BY <3>4
      <4>2. i # Size /\ i \in 1..Size
        BY <2>2, <1>3, <1>5 DEF Live
      <4>3. i <= Size - 1
        BY <4>2, <1>3
      <4> QED BY <4>1, <4>3, <1>5
    <3>5. CASE Leaving(ctl)
      <4>1. ctl.op = "land" /\ ctl.how = "exit"
        BY <3>5, <1>2 DEF Leaving
      <4>2. Top.kind \in ShellKinds
        BY <4>1, <1>1 DEF CtlOK
      <4>3. ctl' = Do("exit")
        BY <4>1, <4>2, <3>2, <1>2 DEF EndCtl
      <4>4. ctl'.op = "exit"
        BY <4>3 DEF Do
      <4> QED BY <4>4 DEF Leaving
    <3>6. ASSUME NEW j \in Live({"exittrap"}), Leaving(stack[j].then)
          PROVE  Leaving(ctl') \/ \E i \in Live({"exittrap"})' : Leaving(stack'[i].then)
      <4>1. CASE j = Size
        <5>1. Top.kind = "exittrap"
          BY <4>1, <1>3 DEF Live
        <5>2. ctl' = Top.then
          BY <5>1, <1>2 DEF EndCtl, ShellKinds
        <5> QED BY <4>1, <5>2, <3>6, <1>3
      <4>2. CASE j # Size
        <5>1. j \in 1..(Size - 1)
          BY <4>2, <1>3, <1>5
        <5>2. stack'[j].then = stack[j].then
          BY <5>1, <1>2 DEF Keeps
        <5>3. j \in Live({"exittrap"})' /\ Leaving(stack'[j].then)
          BY <5>1, <5>2, <3>6, <1>3, <1>5
        <5> QED BY <5>3
      <4> QED BY <4>1, <4>2
    <3> QED BY <3>3, <3>4, <3>5, <3>6
  <2> QED BY <2>1, <2>2
<1> QED BY <1>4, <1>6, <1>7 DEF AsyncOK

LEMMA AsyncKept ==
  ASSUME Types, Safe, AsyncOK, Keeps(Size), sh_async_exit' = sh_async_exit, Leaving(ctl) => Leaving(ctl'), CtlOK'
  PROVE  AsyncOK'
<1>1. TrapsClear /\ Requested /\ ThensOK
  BY DEF AsyncOK
<1>2. TrapsClear' /\ ThensOK'
  BY <1>1, KeptClear, KeptThens
<1>3. Size \in Nat /\ \A K : Live(K) \subseteq 1..Size
  BY SizeIs, LiveIs
<1>4. Live({"trap"})' = Live({"trap"}) /\ Live({"exittrap"})' = Live({"exittrap"})
  <2>1. /\ Live({"trap"})' = {i \in Live({"trap"}) : i <= Size}
        /\ Live({"exittrap"})' = {i \in Live({"exittrap"}) : i <= Size}
    BY KeptLive
  <2> QED BY <2>1, <1>3
<1>5. \A j \in Live({"exittrap"}) : stack'[j].then = stack[j].then
  BY <1>3 DEF Keeps
<1>6. Requested'
  <2>1. SUFFICES ASSUME sh_async_exit' PROVE Live({"trap"})' # {} \/ Leaving(ctl') \/ \E j \in Live({"exittrap"})' : Leaving(stack'[j].then)
    BY DEF Requested, Leaving
  <2>2. Live({"trap"}) # {} \/ Leaving(ctl) \/ \E j \in Live({"exittrap"}) : Leaving(stack[j].then)
    BY <2>1, <1>1 DEF Requested
  <2> QED BY <2>2, <1>4, <1>5
<1> QED BY <1>2, <1>6 DEF AsyncOK

LEMMA RestsTraps ==
  ASSUME Rests
  PROVE  sh_async_exit' = sh_async_exit
<1>1. CASE builtin_trap \/ builtin_break \/ eval_jump \/ eval_return \/ builtin_exit \/ errexit
  BY <1>1, Zenon DEF builtin_trap, builtin_break, eval_jump, eval_return, builtin_exit, errexit, traps
<1>2. CASE destructor \/ sh_exit
  BY <1>2, Zenon DEF destructor, sh_exit
<1>3. CASE loop_again \/ loop_land \/ subshell_end \/ source_end \/ child_end \/ script_end
  BY <1>3, Zenon DEF loop_again, loop_land, subshell_end, source_end, child_end, script_end, traps
<1>4. CASE Exited
  BY <1>4, Zenon DEF Exited, vars, traps
<1> QED BY <1>1, <1>2, <1>3, <1>4 DEF Rests

LEMMA AsyncRests ==
  ASSUME EvalInv, ShellTame, AsyncOK, Rests
  PROVE  AsyncOK'
<1>1. Types /\ Safe /\ ChainsOK /\ ShapeOK /\ PhaseOK /\ CtlOK
  BY DEF EvalInv, AsyncOK
<1>2. Stays /\ Keeps(Size)
  BY <1>1, RestingIs DEF Resting, Stays
<1>3. /\ Live({"trap"})' = Live({"trap"}) /\ Live(ShellKinds)' = Live(ShellKinds)
  BY <1>1, <1>2, StaysKept
<1>4. ASSUME Leaving(ctl) => Leaving(ctl'), CtlOK' PROVE AsyncOK'
  BY <1>1, <1>2, <1>4, AsyncKept, RestsTraps
<1>5. Run.op = "run" /\ Done.op = "done" /\ Do("test").op = "test" /\ Do("exit").op = "exit" /\ Do("leave").op = "leave"
  BY DEF Run, Done, Do
<1>6. ASSUME ctl.op \in {"run", "jump"} PROVE ~Leaving(ctl)
  BY <1>6, NotLeaving
<1>7. ASSUME NEW c, May(c), c \notin {"exit", "fail"} PROVE Live({"trap"})' = {} /\ ctl.op = "run"
  BY <1>1, <1>3, <1>5, <1>7, ShellTameIs, MayTraps, MayQuiet
<1>8. ASSUME ctl'.op \in {"run", "test", "done", "leave", "exit", "die"}, ctl.op \in {"run", "jump"} PROVE AsyncOK'
  BY <1>4, <1>6, <1>8, CtlRests
<1>9. CASE builtin_trap
  <2>1. ctl = Run /\ ctl' = Run
    BY <1>9 DEF builtin_trap, Commands
  <2> QED BY <2>1, <1>5, <1>8
<1>10. CASE builtin_break
  <2>1. PICK c \in {"break", "continue"}, n \in 1..MaxLevels : May(c) /\ ctl' = DoAt("jump", n, c)
    BY <1>10 DEF builtin_break
  <2>2. ctl'.op = "jump" /\ ctl'.how = c
    BY ONLY <2>1 DEF DoAt
  <2>3. c \notin {"exit", "fail"} /\ c # "exit" /\ ctl'.op \notin {"dtor", "unwind"} /\ ctl'.op # "land"
    BY <2>2
  <2>4. Live({"trap"})' = {} /\ ctl.op = "run"
    BY <2>1, <2>3, <1>7
  <2>5. CtlOK'
    BY <2>2, <2>3, <2>4, Zenon DEF CtlOK
  <2> QED BY <2>4, <2>5, <1>4, <1>6
<1>11. CASE eval_jump /\ UNCHANGED <<stack, chains>> /\ ctl' = Run
  <2>1. ctl.op = "jump"
    BY <1>11 DEF eval_jump
  <2> QED BY <2>1, <1>5, <1>8, <1>11
<1>12. CASE eval_return
  <2>1. PICK f : ctl' = Run \/ ctl' = DoAt("dtor", f, "return")
    BY <1>12 DEF eval_return
  <2>2. May("return")
    BY <1>12 DEF eval_return
  <2>3. Live({"trap"})' = {} /\ ctl.op = "run"
    BY <2>2, <1>7
  <2>4. CASE ctl' = Run
    BY <2>3, <2>4, <1>5, <1>8
  <2>5. CASE ctl' = DoAt("dtor", f, "return")
    <3>1. ctl'.op = "dtor" /\ ctl'.how = "return"
      BY ONLY <2>5 DEF DoAt
    <3>2. ctl'.op # "jump" /\ ctl'.op # "land" /\ ctl'.how # "exit"
      BY <3>1
    <3>3. CtlOK'
      BY <2>3, <3>2, Zenon DEF CtlOK, AimOK
    <3> QED BY <2>3, <3>3, <1>4, <1>6
  <2> QED BY <2>1, <2>4, <2>5
<1>13. CASE builtin_exit \/ errexit
  <2>1. PICK c, how : May(c) /\ ctl' = DoAt("exit", 0, how)
    BY <1>13, Zenon DEF builtin_exit, errexit
  <2>2. ctl'.op = "exit"
    BY ONLY <2>1 DEF DoAt
  <2>3. ctl.op = "run"
    BY <2>1, <1>5 DEF May, Commands
  <2> QED BY <2>2, <2>3, <1>8
<1>14. CASE destructor /\ UNCHANGED <<stack, chains, exit_trap>> /\ ctl' = AfterDtor
  <2>1. ctl.op = "dtor" /\ AimOK(ctl)
    BY <1>1, <1>14 DEF destructor, CtlOK
  <2>2. CASE ctl.how = "end"
    <3>1. ctl' = Do("leave") /\ ~Leaving(ctl)
      BY <2>1, <2>2, <1>14 DEF AfterDtor, Leaving
    <3> QED BY <3>1, <1>4, <1>5, CtlRests
  <2>3. CASE ctl.how # "end"
    <3>1. ctl' = DoAt("unwind", ctl.n, ctl.how)
      BY <2>3, <1>14 DEF AfterDtor
    <3>2. ctl'.op = "unwind" /\ ctl'.n = ctl.n /\ ctl'.how = ctl.how
      BY ONLY <3>1 DEF DoAt
    <3>3. AimOK(ctl)'
      BY <2>1, <3>2, <1>3 DEF AimOK
    <3>4. ctl'.op # "jump" /\ ctl'.op # "land"
      BY <3>2
    <3>5. CtlOK'
      BY <3>3, <3>4, Zenon DEF CtlOK
    <3>6. Leaving(ctl) => Leaving(ctl')
      BY <2>1, <3>2 DEF Leaving
    <3> QED BY <3>5, <3>6, <1>4
  <2> QED BY <2>2, <2>3
<1>15. CASE sh_exit /\ UNCHANGED <<stack, chains, exit_trap>> /\ ctl' = IF ctl.how = "stray" THEN Run ELSE Done
  <2>1. ctl.op = "die"
    BY <1>15 DEF sh_exit
  <2>2. ctl' = Done
    BY <2>1, <1>1, <1>15, PhaseIs
  <2>3. ctl'.op = "done"
    BY <2>2, <1>5
  <2> QED BY <2>3, <1>4, CtlRests DEF Leaving
<1>16. CASE loop_again
  <2>1. ctl = Run /\ ctl' = Do("test")
    BY <1>16 DEF loop_again
  <2> QED BY <2>1, <1>5, <1>8
<1>17. CASE loop_land /\ ctl.how # "break"
  <2>1. ctl.op = "land" /\ (ctl' = Do("test") \/ ctl' = Run) /\ Top.kind \in LoopKinds
    BY <1>17 DEF loop_land
  <2>2. ~Leaving(ctl)
    BY <2>1, <1>1 DEF Leaving, CtlOK, LoopKinds, ShellKinds
  <2> QED BY <2>1, <2>2, <1>4, <1>5, CtlRests
<1>18. CASE subshell_end
  <2>1. ctl = Run /\ (ctl' = DoAt("dtor", Size, "end") \/ ctl' = Do("leave"))
    BY <1>18 DEF subshell_end
  <2>2. CASE ctl' = Do("leave")
    BY <2>1, <2>2, <1>5, <1>8
  <2>3. CASE ctl' = DoAt("dtor", Size, "end")
    <3>1. ctl'.op = "dtor" /\ ctl'.how = "end"
      BY ONLY <2>3 DEF DoAt
    <3>2. ctl'.op # "jump" /\ ctl'.op # "land" /\ ctl'.how # "exit" /\ ctl'.how # "return"
      BY <3>1
    <3>3. CtlOK'
      BY <3>2, Zenon DEF CtlOK, AimOK
    <3> QED BY <2>1, <3>3, <1>4, <1>5, <1>6
  <2> QED BY <2>1, <2>2, <2>3
<1>19. CASE source_end /\ UNCHANGED <<stack, chains>> /\ ctl' = Do("exit")
  <2>1. ctl = Run
    BY <1>19 DEF source_end
  <2> QED BY <2>1, <1>5, <1>8, <1>19
<1>20. CASE child_end
  <2>1. ctl = Run /\ ctl' \in {DoAt("die", 0, "end"), Do("exit")}
    BY <1>20 DEF child_end
  <2>2. DoAt("die", 0, "end").op = "die"
    BY DEF DoAt
  <2> QED BY <2>1, <2>2, <1>5, <1>8
<1>21. CASE script_end
  <2>1. ctl = Run /\ ctl' = Do("exit")
    BY <1>21 DEF script_end
  <2> QED BY <2>1, <1>5, <1>8
<1>22. CASE Exited
  <2>1. ctl' = Done
    BY <1>22 DEF Exited, vars
  <2>2. ctl'.op = "done"
    BY <2>1, <1>5
  <2> QED BY <2>2, <1>4, CtlRests DEF Leaving
<1> QED BY <1>9, <1>10, <1>11, <1>12, <1>13, <1>14, <1>15, <1>16, <1>17, <1>18, <1>19, <1>20, <1>21, <1>22 DEF Rests

LEMMA AsyncLeaps ==
  ASSUME EvalInv, ShellTame, AsyncOK, NEW i, Leaps(i)
  PROVE  AsyncOK'
<1>1. Types /\ Safe /\ ChainsOK /\ ShapeOK /\ PhaseOK /\ TrapsClear /\ Requested /\ ThensOK /\ CtlOK
  BY DEF EvalInv, AsyncOK
<1>2. Keeps(i) /\ Size' = i /\ i \in 1..Size
  BY <1>1, LeapsSafe DEF Falls, Leaps
<1>3. TrapsClear' /\ ThensOK'
  BY <1>1, <1>2, KeptClear, KeptThens
<1>4. ctl' = DoAt("land", 0, ctl.how)
  BY DEF Leaps, Leap
<1>5. ctl'.op = "land" /\ ctl'.how = ctl.how
  BY ONLY <1>4 DEF DoAt
<1>6. ctl'.op # "jump" /\ ctl'.op \notin {"dtor", "unwind"}
  BY <1>5
<1>7. sh_async_exit' = sh_async_exit
  BY DEF Leaps, traps
<1>8. Top'.kind = stack[i].kind
  <2>1. stack'[i].kind = stack[i].kind
    BY <1>2 DEF Keeps
  <2> QED BY <2>1, <1>2 DEF Top
<1>9. ASSUME Quiet, Live({"trap"}) = {}, ~Leaving(ctl), ctl.how # "exit" PROVE AsyncOK'
  <2>1. ~sh_async_exit'
    BY <1>1, <1>7, <1>9 DEF Requested, Quiet
  <2>2. Requested'
    BY <2>1 DEF Requested
  <2>3. ctl'.how # "exit"
    BY <1>5, <1>9
  <2>4. CtlOK'
    BY <2>3, <1>6, Zenon DEF CtlOK
  <2> QED BY <2>2, <2>4, <1>3 DEF AsyncOK
<1>10. CASE ctl.op = "jump"
  <2>1. Quiet /\ Live({"trap"}) = {} /\ ctl.how # "exit"
    BY <1>1, <1>10, PhaseIs DEF CtlOK
  <2> QED BY <2>1, <1>9, <1>10, NotLeaving
<1>11. CASE ctl.op = "unwind" /\ i = ctl.n
  <2>1. Aimed /\ AimOK(ctl)
    BY <1>1, <1>11, PhaseIs DEF CtlOK
  <2>2. CASE ctl.how = "exit"
    <3>1. i \in Live(ShellKinds)
      BY <2>1, <2>2, <1>11 DEF AimOK
    <3>2. Top'.kind \in ShellKinds
      BY <3>1, <1>8 DEF Live
    <3>3. CtlOK'
      BY <3>2, <1>6, Zenon DEF CtlOK
    <3>4. Leaving(ctl)'
      BY <2>2, <1>5 DEF Leaving
    <3>5. Requested'
      BY <3>4 DEF Requested
    <3> QED BY <3>3, <3>5, <1>3 DEF AsyncOK
  <2>3. CASE ctl.how # "exit"
    <3>1. ctl.how = "return"
      BY <2>1, <2>3, <1>11 DEF Aimed
    <3>2. Live({"trap"}) = {} /\ ~Leaving(ctl)
      BY <2>1, <3>1, <1>11 DEF AimOK, Leaving
    <3>3. Quiet
      <4>1. Quiet \/ (i = Size /\ Top.kind = "source")
        BY <2>1, <3>1, <1>11 DEF Aimed
      <4>2. i = Size => Top.kind # "source"
        BY <1>1, <1>2, NoSource DEF Top
      <4> QED BY <4>1, <4>2
    <3> QED BY <3>1, <3>2, <3>3, <1>9
  <2> QED BY <2>2, <2>3
<1> QED BY <1>10, <1>11 DEF Leaps

LEMMA AsyncSuspends ==
  ASSUME EvalInv, ShellTame, NEW b, Suspends(b)
  PROVE  FALSE
<1>1. Types /\ Safe /\ ShapeOK /\ b \in 1..Size /\ "SOURCE" \in stack[b].flags
  BY DEF EvalInv, Suspends
<1>2. stack[b].kind = "source"
  BY <1>1 DEF Safe, KindOK
<1> QED BY <1>1, <1>2, NoSource

LEMMA AsyncHangs ==
  ASSUME EvalInv, ShellTame, AsyncOK, NEW t, HangsOn(t)
  PROVE  AsyncOK'
<1>1. Types /\ Safe /\ ChainsOK /\ ShapeOK /\ PhaseOK /\ TrapsClear /\ Requested /\ ThensOK /\ CtlOK
  BY DEF EvalInv, AsyncOK
<1>2. Grown("exittrap", t) /\ ctl' = Run /\ sh_async_exit' = sh_async_exit
  BY <1>1, TrapsSafe DEF HangsOn
<1>3. ctl'.op = "run"
  <2>1. Run.op = "run"
    BY DEF Run, Do
  <2> QED BY <2>1, <1>2
<1>4. CtlOK'
  BY <1>3, CtlRests
<1>5. (Leaving(ctl) => Leaving(t)) /\ (t.op = "unwind" => AimOK(t))
  <2>1. CASE ctl.op = "die" /\ t = IF ctl.how = "stray" THEN Run ELSE Done
    <3>1. t = Done
      BY <2>1, <1>1, PhaseIs
    <3>2. Done.op = "done"
      BY DEF Done, Do
    <3>3. t.op = "done"
      BY <3>1, <3>2
    <3> QED BY <3>3 DEF Leaving
  <2>2. CASE ctl.op = "dtor" /\ t = AfterDtor
    <3>1. AimOK(ctl)
      BY <2>2, <1>1 DEF CtlOK
    <3>2. CASE ctl.how = "end"
      <4>1. t = Do("leave")
        BY <2>2, <3>2 DEF AfterDtor
      <4>2. t.op = "leave"
        BY ONLY <4>1 DEF Do
      <4> QED BY <2>2, <3>2, <4>2 DEF Leaving
    <3>3. CASE ctl.how # "end"
      <4>1. t = DoAt("unwind", ctl.n, ctl.how)
        BY <2>2, <3>3 DEF AfterDtor
      <4>2. t.op = "unwind" /\ t.n = ctl.n /\ t.how = ctl.how
        BY ONLY <4>1 DEF DoAt
      <4> QED BY <2>2, <3>1, <4>2 DEF Leaving, AimOK
    <3> QED BY <3>2, <3>3
  <2> QED BY <2>1, <2>2 DEF HangsOn
<1>6. ThensOK'
  BY <1>1, <1>2, <1>5, GrownThens
<1>7. /\ Live({"trap"})' = Live({"trap"}) \cup (IF "exittrap" \in {"trap"} THEN {Size + 1} ELSE {})
      /\ Live({"exittrap"})' = Live({"exittrap"}) \cup (IF "exittrap" \in {"exittrap"} THEN {Size + 1} ELSE {})
      /\ Live({"exittrap"}) \subseteq 1..Size /\ Live({"trap"}) \subseteq 1..Size
  BY <1>1, <1>2, GrownLive, LiveIs
<1>8. Live({"trap"})' = Live({"trap"}) /\ Live({"exittrap"})' = Live({"exittrap"}) \cup {Size + 1}
  BY <1>7
<1>9. TrapsClear'
  <2>1. \A i \in Live({"trap"}) : stack'[i] = stack[i]
    BY <1>2, <1>7 DEF Grown
  <2> QED BY <2>1, <1>1, <1>8 DEF TrapsClear
<1>10. Requested'
  <2>1. SUFFICES ASSUME sh_async_exit' PROVE Live({"trap"})' # {} \/ \E j \in Live({"exittrap"})' : Leaving(stack'[j].then)
    BY DEF Requested, Leaving
  <2>2. Live({"trap"}) # {} \/ Leaving(ctl) \/ \E j \in Live({"exittrap"}) : Leaving(stack[j].then)
    BY <2>1, <1>1, <1>2 DEF Requested
  <2>3. CASE Leaving(ctl)
    <3>1. Leaving(stack'[Size + 1].then)
      BY <2>3, <1>2, <1>5 DEF Grown
    <3> QED BY <3>1, <1>8
  <2>4. ASSUME NEW j \in Live({"exittrap"}), Leaving(stack[j].then) PROVE \E x \in Live({"exittrap"})' : Leaving(stack'[x].then)
    <3>1. stack'[j] = stack[j]
      BY <1>2, <1>7 DEF Grown
    <3>2. Leaving(stack'[j].then)
      BY <2>4, <3>1
    <3> QED BY <3>2, <1>8
  <2> QED BY <2>2, <2>3, <2>4, <1>8
<1> QED BY <1>4, <1>6, <1>9, <1>10 DEF AsyncOK

LEMMA AsyncExit ==
  ASSUME EvalInv, ShellTame, AsyncOK, eval_exit
  PROVE  AsyncOK'
<1>1. Types /\ Safe /\ ChainsOK /\ ShapeOK /\ PhaseOK
  BY DEF EvalInv
<1>2. Falls(Size) /\ stack' = stack
  BY <1>1, ExitSafe
<1>3. Keeps(Size) /\ sh_async_exit' = sh_async_exit
  BY <1>2 DEF Falls, eval_exit, traps
<1>4. PICK t : t = Innermost(Exitable)
  OBVIOUS
<1>5. ctl' = (IF t # 0 THEN DoAt("dtor", t, "exit") ELSE DoAt("die", 0, "exit")) /\ ExitAim(t) /\ ctl.op = "exit"
  BY <1>4, ExitCuts, ExitAimed
<1>6. CASE t = 0
  <2>1. ctl' = DoAt("die", 0, "exit")
    BY <1>5, <1>6
  <2>2. ctl'.op = "die"
    BY ONLY <2>1 DEF DoAt
  <2> QED BY <2>2, <1>1, <1>3, CtlRests, AsyncKept DEF Leaving
<1>7. CASE t # 0
  <2>1. ctl' = DoAt("dtor", t, "exit")
    BY <1>5, <1>7
  <2>2. ctl'.op = "dtor" /\ ctl'.n = t /\ ctl'.how = "exit"
    BY ONLY <2>1 DEF DoAt
  <2>3. ~Pending
    BY <1>5 DEF Pending
  <2>4. Exitable \subseteq In(eval)
    BY DEF Exitable
  <2>5. t \in Exitable /\ t \in 1..Size
    BY <2>3, <2>4, <1>1, <1>4, <1>7, InnermostIn
  <2>6. stack[t].jump /\ "ROOT" \in stack[t].flags
    BY <2>5 DEF Exitable
  <2>7. t > ChildAt /\ stack[t].kind \in JumpKinds
    BY <2>5, <2>6, <1>1, JumpFrame
  <2>8. stack[t].kind \in {"line", "subshell", "subst", "eval", "source"} /\ stack[t].kind # "source"
    BY <2>5, <2>6, <2>7, <1>1, OwnFrame, NoSource
  <2>9. stack[t].kind \in ShellKinds
    BY <2>7, <2>8, JumpKindsAre DEF ShellKinds
  <2>10. t \in Live(ShellKinds)'
    BY <2>5, <2>9, <1>2 DEF Live, Size
  <2>11. AimOK(ctl)'
    BY <2>2, <2>10 DEF AimOK
  <2>12. ctl'.op # "jump" /\ ctl'.op # "land"
    BY <2>2
  <2>13. CtlOK'
    BY <2>11, <2>12, Zenon DEF CtlOK
  <2>14. Leaving(ctl')
    BY <2>2 DEF Leaving
  <2> QED BY <2>13, <2>14, <1>1, <1>3, AsyncKept
<1> QED BY <1>6, <1>7

LEMMA AsyncFork ==
  ASSUME EvalInv, ShellTame, AsyncOK, sh_forked
  PROVE  AsyncOK'
<1>1. Types /\ Safe /\ TrapsClear /\ Requested /\ ThensOK
  BY DEF EvalInv, AsyncOK
<1>2. Forks /\ ctl = Run /\ ctl' = Run /\ sh_async_exit' = sh_async_exit
  BY <1>1, ForkIs DEF sh_forked
<1>3. ctl.op = "run" /\ ctl'.op = "run"
  <2>1. Run.op = "run"
    BY DEF Run, Do
  <2> QED BY <2>1, <1>2
<1>4. CtlOK' /\ ~Leaving(ctl)
  BY <1>3, CtlRests, NotLeaving
<1>5. /\ Live({"trap"})' = Live({"trap"}) \cup (IF "child" \in {"trap"} THEN {Size + 1} ELSE {})
      /\ Live({"exittrap"})' = Live({"exittrap"}) \cup (IF "child" \in {"exittrap"} THEN {Size + 1} ELSE {})
      /\ Live(ShellKinds)' = Live(ShellKinds) \cup (IF "child" \in ShellKinds THEN {Size + 1} ELSE {})
      /\ Live({"exittrap"}) \subseteq 1..Size /\ Live({"trap"}) \subseteq 1..Size
  BY <1>1, <1>2, ForkLive, LiveIs
<1>6. Live({"trap"})' = Live({"trap"}) /\ Live({"exittrap"})' = Live({"exittrap"}) /\ Live(ShellKinds)' = Live(ShellKinds)
  BY <1>5 DEF ShellKinds
<1>7. \A i \in 1..Size : stack'[i].then = stack[i].then /\ stack'[i].async = stack[i].async
  BY <1>2 DEF Forks
<1>8. TrapsClear'
  BY <1>1, <1>5, <1>6, <1>7 DEF TrapsClear
<1>9. ThensOK'
  <2>1. ASSUME NEW j \in Live({"exittrap"})', stack'[j].then.op = "unwind" PROVE AimOK(stack[j].then)'
    <3>1. stack'[j].then = stack[j].then /\ j \in Live({"exittrap"})
      BY <1>5, <1>6, <1>7
    <3>2. AimOK(stack[j].then)
      BY <2>1, <3>1, <1>1 DEF ThensOK
    <3> QED BY <3>1, <3>2, <1>6 DEF AimOK
  <2> QED BY <2>1 DEF ThensOK
<1>10. Requested'
  <2>1. SUFFICES ASSUME sh_async_exit' PROVE Live({"trap"})' # {} \/ \E j \in Live({"exittrap"})' : Leaving(stack'[j].then)
    BY DEF Requested, Leaving
  <2>2. Live({"trap"}) # {} \/ \E j \in Live({"exittrap"}) : Leaving(stack[j].then)
    BY <2>1, <1>1, <1>2, <1>4 DEF Requested
  <2> QED BY <2>2, <1>5, <1>6, <1>7
<1> QED BY <1>4, <1>8, <1>9, <1>10 DEF AsyncOK

LEMMA AsyncStep ==
  ASSUME EvalInv, CountsOK, AsyncOK, ShellTame, [Next]_vars
  PROVE  AsyncOK'
<1>1. Types /\ Safe
  BY DEF EvalInv
<1>2. CASE UNCHANGED vars
  <2>1. UNCHANGED <<stack, sh_async_exit, ctl>>
    BY <1>2 DEF vars, traps
  <2>2. \A K : Live(K)' = Live(K)
    BY <2>1 DEF Live, Size
  <2>3. TrapsClear' /\ Requested'
    BY <2>1, <2>2 DEF AsyncOK, TrapsClear, Requested, Leaving
  <2>4. ThensOK'
    BY <2>1, <2>2 DEF AsyncOK, ThensOK, AimOK
  <2>5. AimOK(ctl) => AimOK(ctl)'
    BY <2>1, <2>2 DEF AimOK
  <2>6. CtlOK'
    BY <2>1, <2>2, <2>5 DEF AsyncOK, CtlOK, Top, Size
  <2> QED BY <2>3, <2>4, <2>6 DEF AsyncOK
<1>3. CASE Next
  <2>1. Opens \/ Ending \/ Rests \/ (\E i : Leaps(i)) \/ (\E b : Suspends(b)) \/ (\E t : HangsOn(t)) \/ eval_exit \/ sh_forked
    BY <1>1, <1>3, StepIs
  <2>2. CASE Opens
    BY <2>2, AsyncOpening DEF Opens
  <2> QED BY <2>1, <2>2, AsyncEnding, AsyncRests, AsyncLeaps, AsyncSuspends, AsyncHangs, AsyncExit, AsyncFork
<1> QED BY <1>2, <1>3

LEMMA AsyncInit == Init => AsyncOK
<1> SUFFICES ASSUME Init PROVE AsyncOK
  OBVIOUS
<1>1. (\A K : Live(K) = {}) /\ sh_async_exit = FALSE /\ ctl = Run
  BY DEF Init, Live, Size
<1>2. ctl.op = "run"
  BY ONLY <1>1 DEF Run, Do
<1>3. ctl.op # "jump" /\ ctl.op \notin {"dtor", "unwind"} /\ ctl.op # "land"
  BY <1>2
<1>4. CtlOK
  BY <1>3, Zenon DEF CtlOK
<1> QED BY <1>1, <1>4 DEF AsyncOK, TrapsClear, Requested, ThensOK

LEMMA ShellsAre ==
  ASSUME EvalInv, CountsOK, DepthOK, AsyncOK
  PROVE  ShellsHeld
<1>1. EnvHeld
  BY ChainsAre DEF ChainsHeld
<1>2. DepthHeld
  BY DEF DepthOK, DepthHeld
<1>3. ASSUME ctl = Run, sh_async_exit PROVE Live(TrapKinds) # {}
  <2>1. ctl.op = "run"
    BY ONLY <1>3 DEF Run, Do
  <2>2. ~Leaving(ctl)
    BY <2>1, NotLeaving
  <2>3. Live({"trap"}) # {} \/ Live({"exittrap"}) # {}
    BY <2>2, <1>3 DEF AsyncOK, Requested
  <2> QED BY <2>3 DEF Live, TrapKinds
<1> QED BY <1>1, <1>2, <1>3 DEF ShellsHeld, AsyncHeld

(* For scripts that source no file, whose signal traps leave by exit, by   *)
(* set -e or at their end: an exit that a trap asked for climbs through    *)
(* functions, subshells and substitutions, and wherever a command runs,    *)
(* environments, depth counts and the request are those of the shells      *)
(* that are running.                                                       *)
THEOREM ShellsAlwaysHeld == ShellTame => (Spec => []ShellsHeld)
<1> SUFFICES ASSUME ShellTame PROVE Spec => []ShellsHeld
  OBVIOUS
<1>1. Tame
  BY ShellTameIs
<1>2. Init => Base /\ EvalInv /\ DepthOK /\ AsyncOK
  BY BaseInit, EvalInit, DepthInit, AsyncInit
<1>3. Base /\ EvalInv /\ DepthOK /\ AsyncOK /\ [Next]_vars => (Base /\ EvalInv /\ DepthOK /\ AsyncOK)'
  BY <1>1, BaseStep, EvalStep, DepthStep, AsyncStep DEF Base
<1>4. Base /\ EvalInv /\ DepthOK /\ AsyncOK => ShellsHeld
  BY ShellsAre DEF Base
<1> QED BY <1>2, <1>3, <1>4, PTL DEF Spec

=============================================================================
