-------------------------- MODULE JobControlProofs --------------------------
(***************************************************************************)
(* Proofs about JobControl, for every number of processes, jobs, ring      *)
(* entries, pipeline members, nested calls and signals.                    *)
(***************************************************************************)
EXTENDS JobControl, WellFoundedInduction, SequenceTheorems, TLAPS

-----------------------------------------------------------------------------
(* Least and greatest elements *)

(* The code's "first match" loops: a non-empty set of positions has a      *)
(* least element and Least is it.                                          *)
LEMMA LeastOf ==
  ASSUME NEW S \in SUBSET Nat, S # {}
  PROVE  Least(S) \in S /\ \A h \in S : Least(S) <= h
<1>1. PICK x \in S : \A y \in S : ~(<<y, x>> \in OpToRel(<, Nat))
  BY NatLessThanWellFounded, WFMin, Zenon
<1>2. ASSUME NEW y \in S
      PROVE  x <= y
  <2>1. <<y, x>> \in Nat \X Nat
    OBVIOUS
  <2>2. ~(y < x)
    BY <1>1, <2>1 DEF OpToRel
  <2> QED BY <2>2
<1> QED BY <1>2 DEF Least

(* The code's "last match" loops, over the positions of an array.          *)
LEMMA GreatestOf ==
  ASSUME NEW n \in Nat, NEW S \in SUBSET (0..n), S # {}
  PROVE  Greatest(S) \in S /\ \A h \in S : h <= Greatest(S)
<1> DEFINE T == {n - s : s \in S}
<1>1. T \in SUBSET Nat /\ T # {}
  <2>1. \A s \in S : n - s \in Nat
    OBVIOUS
  <2>2. PICK s \in S : TRUE
    OBVIOUS
  <2>3. n - s \in T
    OBVIOUS
  <2> QED BY <2>1, <2>3
<1>2. Least(T) \in T /\ \A h \in T : Least(T) <= h
  BY <1>1, LeastOf
<1>3. PICK s \in S : n - s = Least(T)
  BY <1>2
<1>4. ASSUME NEW h \in S
      PROVE  h <= s
  <2>1. n - s <= n - h
    BY <1>2, <1>3
  <2> QED BY <2>1
<1> QED BY <1>4 DEF Greatest

-----------------------------------------------------------------------------
(* The job list *)

(* InsertAt and RemoveAt are the sequences they look like.                 *)
LEMMA InsertType ==
  ASSUME NEW S, NEW l \in Seq(S), NEW k \in 1..(Len(l) + 1), NEW r \in S
  PROVE  /\ InsertAt(l, k, r) \in Seq(S)
         /\ Len(InsertAt(l, k, r)) = Len(l) + 1
         /\ \A i \in 1..(Len(l) + 1) : InsertAt(l, k, r)[i] = IF i < k THEN l[i] ELSE IF i = k THEN r ELSE l[i - 1]
BY DEF InsertAt

(* Unlinking position k moves the later addresses up by one.               *)
LEMMA RemoveType ==
  ASSUME NEW S, NEW l \in Seq(S), NEW k \in 1..Len(l)
  PROVE  /\ RemoveAt(l, k) \in Seq(S)
         /\ Len(RemoveAt(l, k)) = Len(l) - 1
         /\ \A i \in 1..(Len(l) - 1) : RemoveAt(l, k)[i] = IF i < k THEN l[i] ELSE l[i + 1]
BY DEF RemoveAt

(* Pos finds a linked address.                                             *)
LEMMA PosOf ==
  ASSUME NEW r, Live(r)
  PROVE  Pos(job_list, r) \in 1..Len(job_list) /\ job_list[Pos(job_list, r)] = r
BY DEF Live, Pos

(* The table's typing and its inductive invariant, together.               *)
TableOK == TableType /\ TableInv

(* The number job_new picks: all smaller numbers are taken, in order, and  *)
(* it is free.                                                             *)
LEMMA NewIdOf ==
  ASSUME TableOK
  PROVE  /\ NewId \in 1..(Len(job_list) + 1)
         /\ \A i \in 1..(NewId - 1) : heap[job_list[i]].id = i
         /\ \A i \in NewId..Len(job_list) : heap[job_list[i]].id >= i + 1
<1> DEFINE S == {k \in 1..Len(job_list) : heap[job_list[k]].id # k} \cup {Len(job_list) + 1}
<1> USE DEF TableOK, TableType
<1>1. Len(job_list) \in Nat /\ S \in SUBSET Nat /\ S # {}
  OBVIOUS
<1>2. NewId \in S /\ \A h \in S : NewId <= h
  BY <1>1, LeastOf DEF NewId
<1>3. NewId \in 1..(Len(job_list) + 1)
  BY <1>1, <1>2
<1>4. \A i \in 1..Len(job_list) : job_list[i] \in Refs /\ heap[job_list[i]].id \in Nat
  BY SMTT(60) DEF Jobs
<1>5. \A i \in 1..(NewId - 1) : heap[job_list[i]].id = i
  BY <1>1, <1>2, <1>3
<1>6. ASSUME NEW i \in NewId..Len(job_list)
      PROVE  heap[job_list[i]].id >= i + 1
  <2>1. NewId \in 1..Len(job_list) /\ heap[job_list[NewId]].id # NewId
    BY <1>1, <1>2, <1>3, <1>6
  <2>2. heap[job_list[NewId]].id >= NewId
    <3>1. /\ heap[job_list[1]].id >= 1
          /\ heap[job_list[NewId]].id - heap[job_list[1]].id >= NewId - 1
      BY <2>1 DEF TableInv, IdGaps
    <3> QED BY <3>1, <2>1, <1>4
  <2>3. heap[job_list[i]].id - heap[job_list[NewId]].id >= i - NewId
    BY <2>1, <1>6 DEF TableInv, IdGaps
  <2> QED BY <2>1, <2>2, <2>3, <1>4
<1> QED BY <1>3, <1>5, <1>6

(* The record job_new fills in is a struct job.                            *)
LEMMA NewJobType ==
  ASSUME NEW n \in Nat, NEW p \in Pids \cup {Nil}, NEW id \in Nat, NEW l \in Int,
         NEW b \in BOOLEAN, NEW c \in BOOLEAN
  PROVE  [id |-> id, n |-> n, level |-> l, bgnd |-> b, pipefail |-> c,
          pid |-> [i \in 1..n |-> p], stat |-> [i \in 1..n |-> RUN]] \in Jobs
BY SMTT(60) DEF Jobs, Statuses

(* job_new keeps the table well-formed and makes its job current.          *)
LEMMA JobNewTable ==
  ASSUME TableOK, sh_subshell \in Int,
         NEW r, NEW n \in Nat, NEW b \in BOOLEAN, NEW c \in BOOLEAN, NEW p \in Pids \cup {Nil},
         job_new(r, n, b, c, p)
  PROVE  TableOK'
<1> DEFINE k == NewId
           L == job_list
           J == [id |-> k, n |-> n, level |-> sh_subshell, bgnd |-> b, pipefail |-> c,
                 pid |-> [i \in 1..n |-> p], stat |-> [i \in 1..n |-> RUN]]
<1>1. /\ k \in 1..(Len(L) + 1)
      /\ \A i \in 1..(k - 1) : heap[L[i]].id = i
      /\ \A i \in k..Len(L) : heap[L[i]].id >= i + 1
  BY NewIdOf
<1>2. /\ heap \in [Refs -> Jobs] /\ L \in Seq(Refs)
      /\ \A i \in 1..Len(L) : L[i] \in Refs /\ heap[L[i]].id \in Nat
  BY SMTT(60) DEF TableOK, TableType, Jobs
<1>3. r \in Refs /\ \A i \in 1..Len(L) : L[i] # r
  BY DEF job_new, Live
<1>4. /\ heap' = [heap EXCEPT ![r] = J]
      /\ job_list' = InsertAt(L, k, r)
      /\ job_pointer' = Slot(L, k)
  BY DEF job_new
<1> HIDE DEF k
<1>a. k \in Nat /\ Len(L) \in Nat
  BY <1>1, <1>2
<1>5. J \in Jobs /\ J.id = k
  BY <1>a, NewJobType
<1> HIDE DEF J
<1>b. /\ InsertAt(L, k, r) \in Seq(Refs)
      /\ Len(InsertAt(L, k, r)) = Len(L) + 1
      /\ \A i \in 1..(Len(L) + 1) : InsertAt(L, k, r)[i] = IF i < k THEN L[i] ELSE IF i = k THEN r ELSE L[i - 1]
  <2>1. L \in Seq(Refs) /\ k \in 1..(Len(L) + 1) /\ r \in Refs
    BY <1>1, <1>2, <1>3
  <2> HIDE DEF L
  <2> QED BY ONLY <2>1 DEF InsertAt
<1>6. /\ job_list' \in Seq(Refs) /\ Len(job_list') = Len(L) + 1
      /\ \A i \in 1..(Len(L) + 1) : job_list'[i] = IF i < k THEN L[i] ELSE IF i = k THEN r ELSE L[i - 1]
  BY <1>b, <1>4
<1>7. /\ heap' \in [Refs -> Jobs] /\ heap'[r].id = k
      /\ \A i \in 1..Len(L) : heap'[L[i]] = heap[L[i]]
  BY <1>2, <1>3, <1>4, <1>5
<1>8. job_pointer' \in Refs \cup {Head0} /\ job_pointer' = Slot(job_list', k)
  BY <1>1, <1>2, <1>4, <1>6 DEF Slot
<1>9. TableType'
  BY <1>6, <1>7, <1>8 DEF TableOK, TableType, job_new
<1>10. ListDistinct'
  <2> SUFFICES ASSUME NEW a \in 1..(Len(L) + 1), NEW d \in 1..(Len(L) + 1), a < d
               PROVE  job_list'[a] # job_list'[d]
    BY <1>6, <1>a DEF ListDistinct
  <2>1. \A x, y \in 1..Len(L) : x # y => L[x] # L[y]
    BY DEF TableOK, TableInv, ListDistinct
  <2>2. CASE d < k
    BY <2>1, <2>2, <1>a, <1>1, <1>6
  <2>3. CASE d = k
    BY <2>3, <1>a, <1>3, <1>6
  <2>4. CASE d > k
    <3>1. d - 1 \in 1..Len(L) /\ job_list'[d] = L[d - 1]
      BY <2>4, <1>a, <1>1, <1>6
    <3>2. CASE a < k
      BY <3>1, <3>2, <2>1, <2>4, <1>a, <1>1, <1>6, SMTT(60)
    <3>3. CASE a = k
      BY <3>1, <3>3, <1>a, <1>3, <1>6
    <3>4. CASE a > k
      <4>1. a - 1 \in 1..Len(L) /\ a - 1 # d - 1 /\ job_list'[a] = L[a - 1]
        BY <3>4, <1>a, <1>1, <1>6
      <4> QED BY <4>1, <3>1, <2>1
    <3> QED BY <3>2, <3>3, <3>4, <1>a
  <2> QED BY <2>2, <2>3, <2>4, <1>a
<1>11. IdGaps'
  <2> SUFFICES ASSUME NEW a \in 1..(Len(L) + 1), NEW d \in 1..(Len(L) + 1), a <= d
               PROVE  /\ heap'[job_list'[a]].id >= 1
                      /\ heap'[job_list'[d]].id - heap'[job_list'[a]].id >= d - a
    BY <1>6 DEF IdGaps
  <2>1. \A i \in 1..(Len(L) + 1) : i < k => heap'[job_list'[i]].id = i
    BY <1>1, <1>2, <1>6, <1>7
  <2>2. heap'[job_list'[k]].id = k
    BY <1>1, <1>6, <1>7
  <2>3. ASSUME NEW i \in 1..(Len(L) + 1), i > k
        PROVE  heap'[job_list'[i]].id = heap[L[i - 1]].id /\ heap[L[i - 1]].id >= i
    <3>1. i - 1 \in k..Len(L) /\ i - 1 \in 1..Len(L) /\ job_list'[i] = L[i - 1]
      BY <2>3, <1>a, <1>1, <1>6, SMTT(60)
    <3> QED BY <3>1, <1>a, <1>1, <1>7, SMTT(60)
  <2>a. \A i \in 1..(Len(L) + 1) : heap'[job_list'[i]].id \in Nat /\ heap'[job_list'[i]].id >= i
    <3> SUFFICES ASSUME NEW i \in 1..(Len(L) + 1)
                 PROVE  heap'[job_list'[i]].id \in Nat /\ heap'[job_list'[i]].id >= i
      OBVIOUS
    <3>1. CASE i <= k
      BY <3>1, <2>1, <2>2, <1>a
    <3>2. CASE i > k
      BY <3>2, <2>3, <1>2, <1>a, <1>1, SMTT(60)
    <3> QED BY <3>1, <3>2, <1>a
  <2>4. CASE a <= k
    <3>1. heap'[job_list'[a]].id = a
      BY <2>1, <2>2, <2>4, <1>a
    <3> QED BY <3>1, <2>a, <1>a
  <2>5. CASE a > k
    <3>1. heap[L[d - 1]].id - heap[L[a - 1]].id >= (d - 1) - (a - 1)
      <4>1. a - 1 \in 1..Len(L) /\ d - 1 \in 1..Len(L) /\ a - 1 <= d - 1
        BY <1>a, <1>1, <2>5
      <4> HIDE DEF L
      <4>2. \A x, y \in 1..Len(L) : x <= y => heap[L[y]].id - heap[L[x]].id >= y - x
        BY DEF TableOK, TableInv, IdGaps, L
      <4> QED BY <4>1, <4>2
    <3>2. heap'[job_list'[a]].id = heap[L[a - 1]].id /\ heap'[job_list'[d]].id = heap[L[d - 1]].id
      BY <2>3, <2>5, <1>a
    <3> QED BY <3>1, <3>2, <2>a, <1>a
  <2> QED BY <2>4, <2>5, <1>a
<1>12. CurrentValid'
  <2>1. job_list' # <<>>
    BY <1>2, <1>6
  <2>2. job_pointer' # NoSlot
    BY <1>8, JobConstants DEF Head0, NoSlot
  <2> QED BY <1>1, <1>6, <1>8, <2>1, <2>2 DEF CurrentValid
<1> QED BY <1>9, <1>10, <1>11, <1>12 DEF TableOK, TableInv

(* A step that only changes processes inside the structs.                  *)
LEMMA HeapOnlyTable ==
  ASSUME TableOK, heap' \in [Refs -> Jobs],
         \A r \in Refs : heap'[r].id = heap[r].id,
         UNCHANGED <<job_list, job_pointer, job_finished, job_finished_n>>
  PROVE  TableOK'
<1>1. TableType'
  BY DEF TableOK, TableType
<1>2. \A i \in 1..Len(job_list) : job_list[i] \in Refs
  BY DEF TableOK, TableType
<1>3. ListDistinct' /\ IdGaps'
  BY <1>2 DEF TableOK, TableInv, ListDistinct, IdGaps
<1>4. CurrentValid'
  BY DEF TableOK, TableInv, CurrentValid, Slot
<1> QED BY <1>1, <1>3, <1>4 DEF TableOK, TableInv

(* A step that leaves the job table alone leaves it well-formed.           *)
LEMMA SameTable ==
  ASSUME TableOK, UNCHANGED table
  PROVE  TableOK'
<1>1. \A r \in Refs : heap'[r].id = heap[r].id
  BY DEF table
<1> QED BY <1>1, HeapOnlyTable DEF table, TableOK, TableType

(* The entry of the ring a job's processes leave is a status of one of     *)
(* them.                                                                   *)
LEMMA RingType ==
  ASSUME TableType, NEW j \in Jobs
  PROVE  RingWith(j) \in [0..(RingSize - 1) -> [pid : Pids \cup {Nil}, status : Statuses]]
<1> SUFFICES ASSUME NEW e \in 0..(RingSize - 1)
             PROVE  LET hits == {i \in 1..j.n : (job_finished_n + i - 1) % RingSize = e}
                    IN  (IF ~j.bgnd \/ hits = {} THEN job_finished[e]
                         ELSE [pid |-> j.pid[Greatest(hits)], status |-> j.stat[Greatest(hits)]])
                          \in [pid : Pids \cup {Nil}, status : Statuses]
  BY DEF RingWith
<1> DEFINE hits == {i \in 1..j.n : (job_finished_n + i - 1) % RingSize = e}
<1>1. CASE ~j.bgnd \/ hits = {}
  BY <1>1 DEF TableType
<1>2. CASE hits # {}
  <2>1. j.n \in Nat /\ hits \in SUBSET (0..j.n)
    BY DEF Jobs
  <2>2. Greatest(hits) \in hits
    BY <1>2, <2>1, GreatestOf
  <2>3. Greatest(hits) \in 1..j.n
    BY <2>2
  <2> HIDE DEF hits
  <2>4. j.pid[Greatest(hits)] \in Pids \cup {Nil} /\ j.stat[Greatest(hits)] \in Statuses
    BY <2>3 DEF Jobs
  <2>5. job_finished[e] \in [pid : Pids \cup {Nil}, status : Statuses]
    BY DEF TableType
  <2> QED BY <2>4, <2>5 DEF hits
<1> QED BY <1>1, <1>2

(* The slot after position k of L is gone, for a slot that was valid.      *)
LEMMA PointerType ==
  ASSUME TableOK, NEW k \in 1..Len(job_list)
  PROVE  /\ PointerAfterDelete(k) \in Refs \cup {Head0, NoSlot}
         /\ (RemoveAt(job_list, k) = <<>>) <=> (PointerAfterDelete(k) = NoSlot)
         /\ RemoveAt(job_list, k) # <<>> =>
              \E i \in 1..Len(RemoveAt(job_list, k)) : PointerAfterDelete(k) = Slot(RemoveAt(job_list, k), i)
<1> DEFINE L == job_list
           l2 == RemoveAt(L, k)
           P == PointerAfterDelete(k)
           Goal == /\ P \in Refs \cup {Head0, NoSlot}
                   /\ (l2 = <<>>) <=> (P = NoSlot)
                   /\ l2 # <<>> => \E i \in 1..Len(l2) : P = Slot(l2, i)
<1> SUFFICES Goal
  OBVIOUS
<1>1. L \in Seq(Refs) /\ Len(L) \in Nat /\ k \in 1..Len(L) /\ \A i \in 1..Len(L) : L[i] \in Refs
  BY DEF TableOK, TableType
<1>2. /\ l2 \in Seq(Refs) /\ Len(l2) = Len(L) - 1
      /\ \A i \in 1..(Len(L) - 1) : l2[i] = IF i < k THEN L[i] ELSE L[i + 1]
  BY <1>1, RemoveType
<1>3. \A x \in Refs : x # Nil /\ x # NoSlot /\ x # Head0
  BY JobConstants
<1>4. Head0 # NoSlot
  BY DEF Head0, NoSlot
<1>5. PICK c \in 1..Len(L) : job_pointer = Slot(L, c)
  BY <1>1 DEF TableOK, TableInv, CurrentValid
<1>6. \A x, y \in 1..Len(L) : x # y => L[x] # L[y]
  BY DEF TableOK, TableInv, ListDistinct
<1> HIDE DEF L, l2
<1>7. P = IF job_pointer = Slot(L, k) THEN (IF l2 = <<>> THEN NoSlot ELSE Slot(l2, Len(l2)))
          ELSE IF job_pointer = L[k] THEN Slot(L, k) ELSE job_pointer
  BY DEF PointerAfterDelete, L, l2
<1> HIDE DEF P
<1>8. \A x, y \in 1..Len(L) : Slot(L, x) = Slot(L, y) => x = y
  BY <1>1, <1>3, <1>6 DEF Slot
<1>9. \A i \in 1..Len(l2) : Slot(l2, i) \in Refs \cup {Head0} /\ Slot(l2, i) # NoSlot
  BY <1>2, <1>3, <1>4 DEF Slot
<1>10. l2 # <<>> => Len(l2) \in 1..Len(l2)
  BY <1>2
<1>11. CASE c = k
  BY <1>5, <1>7, <1>9, <1>10, <1>11, <1>4
<1>12. CASE c # k
  <2>1. job_pointer # Slot(L, k)
    BY <1>1, <1>5, <1>8, <1>12
  <2>2. l2 # <<>> /\ Len(l2) \in Nat /\ Len(l2) >= 1
    BY <1>1, <1>2, <1>5, <1>12
  <2>3. CASE c < k
    <3>1. c \in 1..Len(l2) /\ Slot(l2, c) = Slot(L, c)
      BY <1>1, <1>2, <2>3, <2>2 DEF Slot
    <3>2. job_pointer # L[k]
      BY <1>5, <2>3, <1>1, <1>3, <1>6 DEF Slot
    <3> QED BY <3>1, <3>2, <2>1, <2>2, <1>5, <1>7, <1>9
  <2>4. CASE c = k + 1
    <3>1. job_pointer = L[k]
      BY <1>5, <2>4 DEF Slot
    <3>2. k \in 1..Len(l2) /\ Slot(l2, k) = Slot(L, k)
      BY <1>1, <1>2, <2>4, <2>2 DEF Slot
    <3> QED BY <3>1, <3>2, <2>1, <2>2, <1>7, <1>9
  <2>5. CASE c > k + 1
    <3>1. c - 1 \in 1..Len(l2) /\ Slot(l2, c - 1) = Slot(L, c)
      BY <1>1, <1>2, <2>5, <2>2, SMTT(60) DEF Slot
    <3>2. job_pointer # L[k]
      BY <1>5, <2>5, <1>1, <1>6 DEF Slot
    <3> QED BY <3>1, <3>2, <2>1, <2>2, <1>5, <1>7, <1>9
  <2> QED BY <2>3, <2>4, <2>5, <1>1, <1>12
<1> QED BY <1>11, <1>12

(* job_delete keeps the table well-formed whichever job it unlinks, and    *)
(* unlinks only that one.                                                  *)
LEMMA JobDeleteTable ==
  ASSUME TableOK, NEW r, Live(r), job_delete(r)
  PROVE  TableOK' /\ \A x : Live(x)' <=> (Live(x) /\ x # r)
<1> DEFINE L == job_list
           k == Pos(L, r)
<1>1. /\ heap \in [Refs -> Jobs] /\ L \in Seq(Refs) /\ Len(L) \in Nat
      /\ \A i \in 1..Len(L) : L[i] \in Refs /\ heap[L[i]] \in Jobs /\ heap[L[i]].id \in Nat
  BY SMTT(60) DEF TableOK, TableType, Jobs
<1>2. k \in 1..Len(L) /\ L[k] = r /\ r \in Refs
  BY <1>1, PosOf
<1>3. /\ heap' = [heap EXCEPT ![r] = NoJob]
      /\ job_list' = RemoveAt(L, k)
      /\ job_pointer' = PointerAfterDelete(k)
      /\ job_finished' = RingWith(heap[r])
      /\ job_finished_n' = IF heap[r].bgnd THEN (job_finished_n + heap[r].n) % RingSize ELSE job_finished_n
  BY DEF job_delete, RingNext
<1>4. /\ PointerAfterDelete(k) \in Refs \cup {Head0, NoSlot}
      /\ (RemoveAt(L, k) = <<>>) <=> (PointerAfterDelete(k) = NoSlot)
      /\ RemoveAt(L, k) # <<>> => \E i \in 1..Len(RemoveAt(L, k)) : PointerAfterDelete(k) = Slot(RemoveAt(L, k), i)
  BY <1>2, PointerType
<1> HIDE DEF k
<1>5. /\ RemoveAt(L, k) \in Seq(Refs) /\ Len(RemoveAt(L, k)) = Len(L) - 1
      /\ \A i \in 1..(Len(L) - 1) : RemoveAt(L, k)[i] = IF i < k THEN L[i] ELSE L[i + 1]
  BY <1>1, <1>2, RemoveType
<1>6. /\ job_list' \in Seq(Refs) /\ Len(job_list') = Len(L) - 1
      /\ \A i \in 1..(Len(L) - 1) : job_list'[i] = IF i < k THEN L[i] ELSE L[i + 1]
  BY <1>3, <1>5
<1>7. NoJob \in Jobs
  BY DEF NoJob, Jobs
<1>8. TableType'
  <2>1. RingWith(heap[r]) \in [0..(RingSize - 1) -> [pid : Pids \cup {Nil}, status : Statuses]]
    BY <1>1, <1>2, RingType DEF TableOK
  <2>2. heap' \in [Refs -> Jobs]
    BY <1>1, <1>3, <1>7
  <2>3. job_finished_n' \in 0..(RingSize - 1)
    <3>1. RingSize \in Nat /\ RingSize > 0 /\ heap[r].n \in Nat /\ job_finished_n \in 0..(RingSize - 1)
      BY <1>1, <1>2, JobConstants DEF TableOK, TableType, Jobs
    <3> QED BY <3>1, <1>3
  <2> QED BY <2>1, <2>2, <2>3, <1>3, <1>4, <1>6 DEF TableType
<1>9. \A x, y \in 1..Len(L) : x # y => L[x] # L[y]
  BY DEF TableOK, TableInv, ListDistinct
<1>10. ASSUME NEW i \in 1..(Len(L) - 1)
       PROVE  \E h \in 1..Len(L) : job_list'[i] = L[h] /\ h # k /\ h = (IF i < k THEN i ELSE i + 1)
  BY <1>1, <1>2, <1>6
<1>11. ListDistinct'
  <2> SUFFICES ASSUME NEW a \in 1..(Len(L) - 1), NEW d \in 1..(Len(L) - 1), a # d
               PROVE  job_list'[a] # job_list'[d]
    BY <1>6 DEF ListDistinct
  <2> QED BY <1>1, <1>2, <1>9, <1>10
<1>12. \A i \in 1..(Len(L) - 1) : heap'[job_list'[i]] = heap[job_list'[i]]
  BY <1>1, <1>2, <1>3, <1>9, <1>10
<1>13. IdGaps'
  <2> SUFFICES ASSUME NEW a \in 1..(Len(L) - 1), NEW d \in 1..(Len(L) - 1), a <= d
               PROVE  /\ heap'[job_list'[a]].id >= 1
                      /\ heap'[job_list'[d]].id - heap'[job_list'[a]].id >= d - a
    BY <1>6 DEF IdGaps
  <2>1. PICK x \in 1..Len(L) : job_list'[a] = L[x] /\ x = (IF a < k THEN a ELSE a + 1)
    BY <1>10
  <2>2. PICK y \in 1..Len(L) : job_list'[d] = L[y] /\ y = (IF d < k THEN d ELSE d + 1)
    BY <1>10
  <2>3. x <= y /\ y - x >= d - a
    BY <2>1, <2>2, <1>1, <1>2
  <2>4. heap[L[x]].id >= 1 /\ heap[L[y]].id - heap[L[x]].id >= y - x
    BY <2>3 DEF TableOK, TableInv, IdGaps
  <2>5. heap'[job_list'[a]].id = heap[L[x]].id /\ heap'[job_list'[d]].id = heap[L[y]].id
    BY <2>1, <2>2, <1>12
  <2>6. heap[L[x]].id \in Nat /\ heap[L[y]].id \in Nat
    BY <1>1
  <2> HIDE DEF L
  <2> QED BY <2>3, <2>4, <2>5, <2>6, SMTT(60)
<1>14. CurrentValid'
  BY <1>3, <1>4 DEF CurrentValid, Slot
<1>15. ASSUME NEW x
       PROVE  Live(x)' <=> (Live(x) /\ x # r)
  <2>1. Live(x)' => Live(x) /\ x # r
    BY <1>2, <1>6, <1>9, <1>10 DEF Live
  <2>2. ASSUME Live(x), x # r
        PROVE  Live(x)'
    <3>1. PICK h \in 1..Len(L) : L[h] = x
      BY <2>2 DEF Live
    <3>2. h # k
      BY <3>1, <2>2, <1>2
    <3>3. CASE h < k
      BY <3>1, <3>3, <1>1, <1>2, <1>6 DEF Live
    <3>4. CASE h > k
      <4>1. h - 1 \in 1..(Len(L) - 1) /\ job_list'[h - 1] = L[h]
        BY <3>4, <1>1, <1>2, <1>6
      <4> QED BY <4>1, <3>1, <1>6 DEF Live
    <3> QED BY <3>2, <3>3, <3>4, <1>1, <1>2
  <2> QED BY <2>1, <2>2
<1> QED BY <1>8, <1>11, <1>13, <1>14, <1>15 DEF TableOK, TableInv

(* job_free keeps the table well-formed and takes away at most its job.    *)
LEMMA JobFreeTable ==
  ASSUME TableOK, NEW r, job_free(r)
  PROVE  TableOK' /\ \A x : Live(x)' <=> (Live(x) /\ x # r)
<1>1. CASE Live(r)
  BY <1>1, JobDeleteTable DEF job_free
<1>2. CASE ~Live(r)
  <2>1. UNCHANGED table
    BY <1>2 DEF job_free
  <2>2. \A x : Live(x)' <=> Live(x)
    BY <2>1 DEF table, Live
  <2> QED BY <1>2, <2>1, <2>2, SameTable
<1> QED BY <1>1, <1>2

(* EXCEPT outside the domain changes nothing.                              *)
LEMMA ExceptOutside ==
  ASSUME NEW D, NEW f, f = [x \in D |-> f[x]], NEW m, m \notin D, NEW s
  PROVE  [f EXCEPT ![m] = s] = f
<1>1. DOMAIN f = D
  OBVIOUS
<1>2. [f EXCEPT ![m] = s] = [x \in D |-> IF x = m THEN s ELSE f[x]]
  BY <1>1
<1> QED BY <1>2

(* Overwriting one proc slot of a struct job.                              *)
LEMMA SetStatType ==
  ASSUME NEW j \in Jobs, NEW s \in Statuses, NEW m
  PROVE  [j EXCEPT !.stat[m] = s] \in Jobs /\ [j EXCEPT !.stat[m] = s].id = j.id
<1>1. CASE m \in 1..j.n
  BY <1>1, SMTT(60) DEF Jobs
<1>2. CASE m \notin 1..j.n
  <2>1. j.stat = [x \in 1..j.n |-> j.stat[x]]
    BY DEF Jobs
  <2>2. [j.stat EXCEPT ![m] = s] = j.stat
    BY <1>2, <2>1, ExceptOutside
  <2> QED BY <2>2 DEF Jobs
<1> QED BY <1>1, <1>2

(* job_signal records a status and touches nothing else of the table.      *)
LEMMA JobSignalTable ==
  ASSUME TableOK, NEW p, NEW s \in Statuses, job_signal(p, s), job_signaled \in BOOLEAN
  PROVE  TableOK' /\ job_signaled' \in BOOLEAN /\ job_list' = job_list
<1> DEFINE r == job_bypid(p)
           m == Member(r, p)
<1>1. CASE r = Nil
  BY <1>1, SameTable DEF job_signal, table
<1>2. CASE r # Nil
  <2>1. /\ heap' = [heap EXCEPT ![r].stat[m] = s]
        /\ job_signaled' = TRUE
        /\ UNCHANGED <<job_list, job_pointer, job_finished, job_finished_n>>
    BY <1>2 DEF job_signal
  <2> HIDE DEF r, m
  <2>2. heap \in [Refs -> Jobs]
    BY DEF TableOK, TableType
  <2>3. \A x \in Refs : [heap[x] EXCEPT !.stat[m] = s] \in Jobs /\ [heap[x] EXCEPT !.stat[m] = s].id = heap[x].id
    BY <2>2, SetStatType
  <2>4. \A x \in Refs : heap'[x] = IF x = r THEN [heap[x] EXCEPT !.stat[m] = s] ELSE heap[x]
    BY <2>1, <2>2
  <2>5. heap' = [x \in Refs |-> heap'[x]]
    BY <2>1, <2>2
  <2>6. heap' \in [Refs -> Jobs] /\ \A x \in Refs : heap'[x].id = heap[x].id
    BY <2>2, <2>3, <2>4, <2>5
  <2> QED BY <2>1, <2>6, HeapOnlyTable
<1> QED BY <1>1, <1>2

-----------------------------------------------------------------------------
(* The call chain *)

StackOK(s) == s \in Seq(Frames) /\ StackShape(s)
FrameOK(f) == f \in Frames /\ (f.k = "waitops" /\ f.pc # "next" => f.todo # <<>>)

(* The top of a non-empty call chain is a well-formed frame.               *)
LEMMA TopOf ==
  ASSUME StackOK(stack), stack # <<>>
  PROVE  FrameOK(Top) /\ Len(stack) \in 1..Len(stack)
BY DEF StackOK, StackShape, FrameOK, Top

(* Moving the top call keeps the chain well-formed ...                     *)
LEMMA GotoOf ==
  ASSUME StackOK(stack), stack # <<>>, NEW f, FrameOK(f)
  PROVE  /\ StackOK(Goto(f)) /\ Goto(f) # <<>>
         /\ Goto(f)[Len(Goto(f))] = f
<1>1. /\ stack \in Seq(Frames) /\ Len(stack) \in Nat /\ Len(stack) >= 1 /\ f \in Frames
      /\ Goto(f) = [stack EXCEPT ![Len(stack)] = f]
  BY DEF StackOK, FrameOK, Goto
<1>2. /\ Goto(f) \in Seq(Frames) /\ Len(Goto(f)) = Len(stack)
      /\ Goto(f)[Len(stack)] = f
      /\ \A i \in 1..(Len(stack) - 1) : Goto(f)[i] = stack[i]
  BY <1>1
<1> DEFINE G == Goto(f)
<1> HIDE DEF G
<1>3. /\ G \in Seq(Frames) /\ Len(G) = Len(stack) /\ G[Len(stack)] = f
      /\ \A i \in 1..(Len(stack) - 1) : G[i] = stack[i]
  BY <1>2 DEF G
<1>4. StackShape(G)
  BY <1>1, <1>3 DEF StackOK, StackShape, FrameOK
<1>5. G # <<>>
  BY <1>1, <1>3
<1> QED BY <1>3, <1>4, <1>5 DEF StackOK, G

(* ... so does returning, which uncovers a call at rest ...                *)
LEMMA PopOf ==
  ASSUME StackOK(stack), stack # <<>>
  PROVE  /\ StackOK(Pop(stack))
         /\ Pop(stack) # <<>> => Pop(stack)[Len(Pop(stack))].pc \in Resting
<1>1. /\ stack \in Seq(Frames) /\ Len(stack) \in Nat /\ Len(stack) >= 1
  BY DEF StackOK
<1>2. /\ Pop(stack) \in Seq(Frames) /\ Len(Pop(stack)) = Len(stack) - 1
      /\ \A i \in 1..(Len(stack) - 1) : Pop(stack)[i] = stack[i]
  <2> DEFINE n == Len(stack) - 1
  <2>1. n \in Nat /\ 1 \in Int /\ n \in Int /\ \A i \in 1..n : stack[i] \in Frames
    BY <1>1
  <2> HIDE DEF n
  <2>2. /\ SubSeq(stack, 1, n) \in Seq(Frames)
        /\ Len(SubSeq(stack, 1, n)) = (IF 1 <= n THEN n - 1 + 1 ELSE 0)
        /\ \A i \in 1..(n - 1 + 1) : SubSeq(stack, 1, n)[i] = stack[1 + i - 1]
    BY <2>1, SubSeqProperties
  <2>3. Pop(stack) = SubSeq(stack, 1, n)
    BY DEF Pop, n
  <2>4. Len(SubSeq(stack, 1, n)) = n
    BY <2>1, <2>2
  <2>5. \A i \in 1..n : SubSeq(stack, 1, n)[i] = stack[i]
    BY <2>1, <2>2
  <2> QED BY <2>2, <2>3, <2>4, <2>5 DEF n
<1>3. StackShape(Pop(stack))
  BY <1>1, <1>2 DEF StackOK, StackShape
<1>4. Pop(stack) # <<>> => Len(Pop(stack)) \in 1..(Len(stack) - 1)
  BY <1>1, <1>2
<1> QED BY <1>2, <1>3, <1>4 DEF StackOK, StackShape

(* ... and calling, from no call or from a call at rest.                   *)
LEMMA PushOf ==
  ASSUME NEW s, StackOK(s), NEW f, FrameOK(f),
         s = <<>> \/ s[Len(s)].pc \in Resting
  PROVE  /\ StackOK(Append(s, f)) /\ Append(s, f) # <<>>
         /\ Append(s, f)[Len(Append(s, f))] = f
<1>1. s \in Seq(Frames) /\ Len(s) \in Nat /\ f \in Frames
  BY DEF StackOK, FrameOK
<1>2. /\ Append(s, f) \in Seq(Frames) /\ Len(Append(s, f)) = Len(s) + 1
      /\ Append(s, f)[Len(s) + 1] = f
      /\ \A i \in 1..Len(s) : Append(s, f)[i] = s[i]
  BY <1>1
<1>3. s # <<>> => s[Len(s)].pc \in Resting
  OBVIOUS
<1>4. \A i \in 1..Len(s) : s[i].pc \in Resting
  BY <1>1, <1>3 DEF StackOK, StackShape
<1>5. StackShape(Append(s, f))
  BY <1>1, <1>2, <1>4 DEF StackOK, StackShape, FrameOK
<1> QED BY <1>1, <1>2, <1>5 DEF StackOK

(* The same for a step of the specification, with job_clean's and          *)
(* job_discard's pointer: it only matters while the walk is the top call.  *)
LEMMA MoveTop ==
  ASSUME StackOK(stack), stack # <<>>, NEW f, FrameOK(f), stack' = Goto(f),
         f.pc \notin {"clean", "discard"}
  PROVE  StackOK(stack)' /\ WalkLive'
BY GotoOf DEF StackOK, WalkLive, Top

(* Returning uncovers a call that is no walk over the list.                *)
LEMMA ReturnTop ==
  ASSUME StackOK(stack), stack # <<>>, stack' = Pop(stack)
  PROVE  StackOK(stack)' /\ WalkLive'
BY PopOf DEF StackOK, WalkLive, Top, Resting

(* A call that is no walk may start on top of a call at rest.              *)
LEMMA CallTop ==
  ASSUME NEW s, StackOK(s), NEW f, FrameOK(f), s = <<>> \/ s[Len(s)].pc \in Resting,
         stack' = Append(s, f), f.pc \notin {"clean", "discard"}
  PROVE  StackOK(stack)' /\ WalkLive'
BY PushOf DEF StackOK, WalkLive, Top

(* The chain and the walk stay good while stack and list stand still.      *)
LEMMA SameStack ==
  ASSUME StackOK(stack), WalkLive, stack' = stack, job_list' = job_list
  PROVE  StackOK(stack)' /\ WalkLive'
BY DEF StackOK, WalkLive, Top, Live

(* Frames *)

(* Changing the program counter of a frame keeps it a frame.               *)
LEMMA PcFrame ==
  ASSUME NEW f, FrameOK(f), NEW pc \in Pcs, f.k = "waitops" /\ f.pc = "next" => f.todo # <<>> \/ pc = "next"
  PROVE  FrameOK([f EXCEPT !.pc = pc]) /\ [f EXCEPT !.pc = pc].pc = pc
BY DEF FrameOK, Frames

(* A fresh call is a well-formed frame at its entry point.                 *)
LEMMA CallFrame ==
  ASSUME NEW k \in Calls, NEW pc \in Pcs, k = "waitops" => pc = "next"
  PROVE  FrameOK(Call(k, pc)) /\ Call(k, pc).pc = pc /\ Call(k, pc).k = k /\ Call(k, pc).todo = <<>>
<1>1. 0 \in Statuses /\ <<>> \in Seq(Operand) /\ "body" \in Pcs
  BY JobConstants DEF Statuses, Pcs
<1>3. Call(k, pc) \in Frames
  BY <1>1 DEF Frames, Call
<1>4. Call(k, pc).pc = pc /\ Call(k, pc).k = k /\ Call(k, pc).todo = <<>>
  BY DEF Call
<1> QED BY <1>3, <1>4 DEF FrameOK

(* A call that enters job_wait() becomes a well-formed frame at its top.   *)
LEMMA JobWaitFrame ==
  ASSUME NEW f, f \in Frames, f.k = "waitops" => f.todo # <<>>,
         NEW r \in Refs \cup {Nil}, NEW st \in Statuses \cup {Hangup}, FlagType
  PROVE  FrameOK(JobWait(f, r, st)) /\ JobWait(f, r, st).pc = "top"
<1>1. "top" \in Pcs /\ MaxSpins \in Int /\ trap_run_count \in Nat
  BY JobConstants DEF Pcs, WaitPcs, FlagType
<1>2. JobWait(f, r, st) \in Frames
  BY <1>1 DEF JobWait, Frames
<1>3. /\ JobWait(f, r, st).pc = "top"
      /\ JobWait(f, r, st).k = f.k
      /\ JobWait(f, r, st).todo = f.todo
  BY DEF JobWait, Frames
<1> QED BY <1>2, <1>3 DEF FrameOK

-----------------------------------------------------------------------------
(* The kernel's steps *)

(* What waitpid() reports of a child fits proc.status.                     *)
LEMMA StatusType ==
  ASSUME KernelType, NEW p \in Pids
  PROVE  StatusOf(p) \in Statuses
BY DEF KernelType, StatusOf, Statuses

(* Reaping, forking, continuing and marking a child keep its record.       *)
LEMMA KidTypes ==
  ASSUME KernelType, NEW p \in Pids, NEW S
  PROVE  LET K == [Pids -> [st : KidStates, code : Codes, note : BOOLEAN, bg : BOOLEAN]]
         IN  /\ Reaped(p) \in K /\ Forked(p) \in K /\ Continued(S) \in K
             /\ [kid EXCEPT ![p].bg = TRUE] \in K
<1> DEFINE R == [st : KidStates, code : Codes, note : BOOLEAN, bg : BOOLEAN]
<1>1. kid \in [Pids -> R]
  BY DEF KernelType
<1>2. {"none", "run", "stop", "zombie", "reaped"} \subseteq KidStates /\ 0 \in Codes
  BY JobConstants DEF KidStates
<1>3. Reaped(p) \in [Pids -> R]
  BY <1>1, <1>2 DEF Reaped
<1>4. Forked(p) \in [Pids -> R]
  BY <1>1, <1>2 DEF Forked, NoKid
<1>5. Continued(S) \in [Pids -> R]
  BY <1>1, <1>2 DEF Continued
<1>6. [kid EXCEPT ![p].bg = TRUE] \in [Pids -> R]
  BY <1>1
<1> QED BY <1>3, <1>4, <1>5, <1>6

(* The inductive invariant, in the parts the proofs below work on.         *)
Safe == KernelType /\ TableOK /\ FlagType /\ StackOK(stack) /\ WalkLive

(* A child that ends, stops or continues does not touch the shell.         *)
LEMMA ChildSafe ==
  ASSUME Safe, NEW p \in Pids, (\E c \in Codes : ChildExit(p, c)) \/ ChildStop(p) \/ ChildCont(p)
  PROVE  Safe'
<1> DEFINE R == [st : KidStates, code : Codes, note : BOOLEAN, bg : BOOLEAN]
<1>0. kid \in [Pids -> R] /\ kid[p] \in R
  BY DEF Safe, KernelType
<1>01. "zombie" \in KidStates /\ "stop" \in KidStates
  BY DEF KidStates
<1>1. UNCHANGED <<mask, table, flags, traps, stack>>
  BY DEF ChildExit, ChildStop, ChildCont
<1>2. KernelType'
  <2>1. CASE \E c \in Codes : ChildExit(p, c)
    <3>1. PICK c \in Codes : kid' = [kid EXCEPT ![p] = [@ EXCEPT !.st = "zombie", !.code = c, !.note = FALSE]]
      BY <2>1 DEF ChildExit
    <3>2. [kid[p] EXCEPT !.st = "zombie", !.code = c, !.note = FALSE] \in R
      BY <1>0, <1>01
    <3>3. kid' \in [Pids -> R]
      BY <3>1, <3>2, <1>0
    <3> QED BY <3>3, <2>1, <1>1 DEF ChildExit, Safe, KernelType
  <2>2. CASE ChildStop(p)
    <3>1. [kid[p] EXCEPT !.st = "stop", !.note = TRUE] \in R
      BY <1>0, <1>01
    <3>2. kid' \in [Pids -> R]
      BY <2>2, <3>1, <1>0 DEF ChildStop
    <3> QED BY <3>2, <2>2, <1>1 DEF ChildStop, Safe, KernelType
  <2>3. CASE ChildCont(p)
    BY <2>3, <1>1, KidTypes DEF ChildCont, Safe, KernelType
  <2> QED BY <2>1, <2>2, <2>3
<1>3. TableOK' /\ StackOK(stack)' /\ WalkLive'
  BY <1>1, SameTable, SameStack DEF Safe, table
<1> QED BY <1>1, <1>2, <1>3 DEF Safe, FlagType, flags, traps

(* A blocked waitpid() that a handler ends, or not.                        *)
LEMMA WakeSafe ==
  ASSUME StackOK(stack), WalkLive, NEW c \in BOOLEAN, stack' = WakeIf(c), job_list' = job_list
  PROVE  StackOK(stack)' /\ WalkLive'
<1>1. CASE At("blocked") /\ c
  <2>1. stack # <<>> /\ Top.pc = "blocked" /\ stack' = Goto([Top EXCEPT !.pc = "err"])
    BY <1>1 DEF At, WakeIf
  <2>2. FrameOK([Top EXCEPT !.pc = "err"]) /\ [Top EXCEPT !.pc = "err"].pc = "err"
    BY <2>1, TopOf, PcFrame DEF Pcs, WaitPcs
  <2> QED BY <2>1, <2>2, MoveTop
<1>2. CASE ~(At("blocked") /\ c)
  BY <1>2, SameStack DEF WakeIf
<1> QED BY <1>1, <1>2

(* The SIGCHLD handler, interrupting the shell anywhere, keeps Safe.       *)
LEMMA OnsigSafe ==
  ASSUME Safe, sh_onsig
  PROVE  Safe'
<1>1. KernelType' /\ TableOK' /\ job_signaled' \in BOOLEAN /\ job_list' = job_list
  <2>1. CASE \E p \in Pids : Reapable(p) /\ kid' = Reaped(p) /\ job_signal(p, StatusOf(p))
    <3>1. PICK p \in Pids : kid' = Reaped(p) /\ job_signal(p, StatusOf(p))
      BY <2>1
    <3>2. KernelType'
      BY <3>1, KidTypes DEF sh_onsig, Safe, KernelType
    <3> QED BY <3>1, <3>2, JobSignalTable, StatusType DEF Safe, FlagType
  <2>2. CASE UNCHANGED <<kid, table, job_signaled>>
    BY <2>2, SameTable DEF sh_onsig, Safe, KernelType, FlagType, table
  <2> QED BY <2>1, <2>2 DEF sh_onsig
<1>2. StackOK(stack)' /\ WalkLive'
  BY <1>1, WakeSafe DEF sh_onsig, Safe, FlagType
<1> QED BY <1>1, <1>2 DEF sh_onsig, Safe, FlagType, traps

(* The handler of a trapped signal keeps Safe.                             *)
LEMMA RelaySafe ==
  ASSUME Safe, trap_relay
  PROVE  Safe'
<1>1. UNCHANGED <<kernel, mask, table, flags, trap_run_count, job_wait_interruptible, job_wait_sig>> /\ trap_signaled' = TRUE
  BY DEF trap_relay
<1>2. StackOK(stack)' /\ WalkLive'
  BY <1>1, WakeSafe DEF trap_relay, Safe, table
<1> QED BY <1>1, <1>2, SameTable DEF Safe, KernelType, FlagType, kernel, flags

-----------------------------------------------------------------------------
(* Starting processes *)

(* A command starts when no call is in progress, or from a body.           *)
LEMMA CmdRests ==
  ASSUME NEW c, Cmd(c)
  PROVE  stack = <<>> \/ stack[Len(stack)].pc \in Resting
BY DEF Cmd, At, Top, Resting

(* Registering a job and entering its launcher keeps Safe.                 *)
LEMMA LaunchSafe ==
  ASSUME Safe, NEW n \in Nat, NEW b \in BOOLEAN, NEW c \in BOOLEAN, NEW r \in Refs,
         job_new(r, n, b, c, Nil), UNCHANGED <<kernel, mask, flags, traps>>,
         stack = <<>> \/ stack[Len(stack)].pc \in Resting,
         NEW f, FrameOK(f), f.pc \in {"fork", "body"}, stack' = Append(stack, f)
  PROVE  Safe'
<1>1. TableOK'
  BY JobNewTable DEF Safe, FlagType
<1>2. StackOK(stack)' /\ WalkLive'
  BY CallTop DEF Safe
<1> QED BY <1>1, <1>2 DEF Safe, KernelType, FlagType, kernel, flags, traps

(* "&" keeps Safe.                                                         *)
LEMMA BgndSafe ==
  ASSUME Safe, eval_node_bgnd
  PROVE  Safe'
<1> DEFINE f(r) == [Call("bg", "fork") EXCEPT !.j = r, !.left = 1]
<1>1. PICK r \in Refs : job_new(r, 1, TRUE, FALSE, Nil) /\ stack' = Append(stack, f(r))
  BY DEF eval_node_bgnd, Push
<1>2. FrameOK(Call("bg", "fork")) /\ Call("bg", "fork").pc = "fork" /\ Call("bg", "fork").k = "bg"
  BY CallFrame DEF Calls, Pcs
<1>3. FrameOK(f(r)) /\ f(r).pc = "fork"
  <2> DEFINE g == Call("bg", "fork")
  <2>1. g \in Frames /\ g.pc = "fork" /\ g.k = "bg"
    BY <1>2 DEF FrameOK
  <2> HIDE DEF g
  <2>2. 1 \in Int
    OBVIOUS
  <2>3. [g EXCEPT !.j = r, !.left = 1] \in Frames
    BY <2>1, <2>2 DEF Frames
  <2>4. [g EXCEPT !.j = r, !.left = 1].pc = "fork" /\ [g EXCEPT !.j = r, !.left = 1].k = "bg"
    BY <2>1 DEF Frames
  <2> QED BY <2>3, <2>4 DEF FrameOK, g
<1> QED BY <1>1, <1>3, CmdRests, LaunchSafe DEF eval_node_bgnd

(* Registering a pipeline keeps Safe.                                      *)
LEMMA PipelineSafe ==
  ASSUME Safe, NEW n \in 0..MaxProcs, NEW last \in BOOLEAN, NEW pipefail \in BOOLEAN,
         eval_pipeline(n, last, pipefail)
  PROVE  Safe'
<1>1. n \in Nat
  BY JobConstants
<1> DEFINE pc == IF n > 0 THEN "fork" ELSE "body"
           f(r) == [Call("pipe", pc) EXCEPT !.j = r, !.left = n, !.flag = last]
<1>2. PICK r \in Refs : job_new(r, n, FALSE, pipefail, Nil) /\ stack' = Append(stack, f(r))
  BY DEF eval_pipeline, Push
<1>3. pc \in {"fork", "body"} /\ pc \in Pcs /\ "pipe" \in Calls
  BY DEF Pcs, Calls
<1> HIDE DEF pc
<1>4. FrameOK(Call("pipe", pc)) /\ Call("pipe", pc).pc = pc /\ Call("pipe", pc).k = "pipe"
  BY <1>3, CallFrame
<1>5. n \in Int
  BY <1>1
<1>6. FrameOK(f(r)) /\ f(r).pc = pc
  BY <1>4, <1>5 DEF FrameOK, Frames
<1>7. UNCHANGED <<kernel, mask, flags, traps>> /\ (stack = <<>> \/ stack[Len(stack)].pc \in Resting)
  BY CmdRests DEF eval_pipeline
<1> QED BY <1>1, <1>2, <1>3, <1>6, <1>7, LaunchSafe

(* fork() in job_fork keeps Safe.                                          *)
LEMMA ForkSafe ==
  ASSUME Safe, job_fork
  PROVE  Safe'
<1>1. PICK p \in Pids : kid' = Forked(p) /\ stack' = Goto([Top EXCEPT !.pc = "forked", !.new = p])
  BY DEF job_fork
<1>2. KernelType'
  BY <1>1, KidTypes DEF job_fork, Safe, KernelType
<1>3. stack # <<>> /\ Top.pc = "fork" /\ FrameOK(Top)
  BY TopOf DEF job_fork, At, Safe
<1>4. FrameOK([Top EXCEPT !.pc = "forked", !.new = p]) /\ [Top EXCEPT !.pc = "forked", !.new = p].pc = "forked"
  <2>1. "forked" \in Pcs
    BY DEF Pcs
  <2> QED BY <1>3, <2>1 DEF FrameOK, Frames
<1>5. StackOK(stack)' /\ WalkLive'
  BY <1>1, <1>3, <1>4, MoveTop DEF Safe
<1> QED BY <1>2, <1>5, SameTable DEF job_fork, Safe, FlagType, flags, traps

(* Where a launcher goes next.                                             *)
LEMMA AfterForkSafe ==
  ASSUME StackOK(stack), FlagType, stack # <<>>, NEW f, FrameOK(f), f.k = "waitops" => f.todo # <<>>,
         stack' = AfterFork(f)
  PROVE  StackOK(stack)' /\ WalkLive'
<1>1. CASE Monitor /\ InCmdsub
  <2>1. stack' = Goto([f EXCEPT !.pc = "drain"])
    BY <1>1 DEF AfterFork
  <2>2. FrameOK([f EXCEPT !.pc = "drain"]) /\ [f EXCEPT !.pc = "drain"].pc = "drain"
    BY PcFrame DEF Pcs
  <2> QED BY <2>1, <2>2, MoveTop
<1>2. CASE ~(Monitor /\ InCmdsub) /\ f.k = "bg"
  BY <1>2, ReturnTop DEF AfterFork
<1>3. CASE ~(Monitor /\ InCmdsub) /\ f.k # "bg" /\ f.flag
  <2>1. stack' = Goto([f EXCEPT !.pc = "body"])
    BY <1>3 DEF AfterFork
  <2>2. FrameOK([f EXCEPT !.pc = "body"]) /\ [f EXCEPT !.pc = "body"].pc = "body"
    BY PcFrame DEF Pcs
  <2> QED BY <2>1, <2>2, MoveTop
<1>4. CASE ~(Monitor /\ InCmdsub) /\ f.k # "bg" /\ ~f.flag
  <2>1. stack' = Goto(JobWait(f, f.j, RUN))
    BY <1>4 DEF AfterFork
  <2>2. f \in Frames /\ f.j \in Refs \cup {Nil} /\ RUN \in Statuses \cup {Hangup}
    BY DEF FrameOK, Frames, Statuses
  <2>3. FrameOK(JobWait(f, f.j, RUN)) /\ JobWait(f, f.j, RUN).pc = "top"
    BY <2>2, JobWaitFrame
  <2> QED BY <2>1, <2>3, MoveTop
<1> QED BY <1>1, <1>2, <1>3, <1>4

(* Filling in a proc slot keeps a struct job.                              *)
LEMMA SetPidType ==
  ASSUME NEW j \in Jobs, NEW p \in Pids \cup {Nil}, NEW m
  PROVE  [j EXCEPT !.pid[m] = p] \in Jobs /\ [j EXCEPT !.pid[m] = p].id = j.id
<1>1. CASE m \in 1..j.n
  BY <1>1, SMTT(60) DEF Jobs
<1>2. CASE m \notin 1..j.n
  <2>1. j.pid = [x \in 1..j.n |-> j.pid[x]]
    BY DEF Jobs
  <2>2. [j.pid EXCEPT ![m] = p] = j.pid
    BY <1>2, <2>1, ExceptOutside, ZenonT(60)
  <2> QED BY <2>2 DEF Jobs
<1> QED BY <1>1, <1>2

(* A launcher that goes on: with the next member, or past the last.        *)
LEMMA NextMemberSafe ==
  ASSUME StackOK(stack), FlagType, stack # <<>>, NEW f, FrameOK(f), f.pc \in {"fork", "forked"},
         stack' = IF f.left > 0 THEN Goto([f EXCEPT !.pc = "fork"]) ELSE AfterFork(f)
  PROVE  StackOK(stack)' /\ WalkLive'
<1>1. f.k = "waitops" => f.todo # <<>>
  BY DEF FrameOK
<1>2. FrameOK([f EXCEPT !.pc = "fork"]) /\ [f EXCEPT !.pc = "fork"].pc = "fork"
  BY <1>1, PcFrame DEF Pcs
<1>3. CASE f.left > 0
  BY <1>2, <1>3, MoveTop
<1>4. CASE ~(f.left > 0)
  BY <1>1, <1>4, AfterForkSafe
<1> QED BY <1>3, <1>4

(* The parent half of job_fork keeps Safe.                                 *)
LEMMA ForkParentSafe ==
  ASSUME Safe, job_fork_parent
  PROVE  Safe'
<1> DEFINE f == [Top EXCEPT !.new = Nil, !.left = @ - 1]
           i == Least({x \in 1..heap[f.j].n : heap[f.j].pid[x] = Nil})
<1>1. stack # <<>> /\ Top.pc = "forked" /\ FrameOK(Top)
  BY TopOf DEF job_fork_parent, At, Safe
<1>2. /\ heap' = [heap EXCEPT ![f.j].pid[i] = Top.new, ![f.j].stat[i] = RUN]
      /\ stack' = IF f.left > 0 THEN Goto([f EXCEPT !.pc = "fork"]) ELSE AfterFork(f)
      /\ mask' = FALSE
      /\ IF Top.k = "bg" THEN job_bgpid' = Top.new /\ kid' = [kid EXCEPT ![Top.new].bg = TRUE]
                         ELSE UNCHANGED <<job_bgpid, kid>>
      /\ UNCHANGED <<chld, job_list, job_pointer, job_finished, job_finished_n, job_signaled, sh_subshell, traps>>
  BY DEF job_fork_parent
<1>3. FrameOK(f) /\ f.pc = "forked"
  <2>1. Top \in Frames /\ Top.left - 1 \in Int
    BY <1>1 DEF FrameOK, Frames
  <2>2. f = [Top EXCEPT !.new = Nil, !.left = Top.left - 1]
    BY <2>1 DEF Frames
  <2>3. f \in Frames
    BY <2>1, <2>2 DEF Frames
  <2>4. f.pc = Top.pc /\ f.k = Top.k /\ f.todo = Top.todo
    BY <2>1, <2>2 DEF Frames
  <2> QED BY <1>1, <2>3, <2>4 DEF FrameOK
<1>4. StackOK(stack)' /\ WalkLive'
  BY <1>1, <1>2, <1>3, NextMemberSafe DEF Safe
<1>5. Top.new \in Pids \cup {Nil}
  BY <1>1 DEF FrameOK, Frames
<1>6. TableOK'
  <2> HIDE DEF i, f
  <2>1. heap \in [Refs -> Jobs] /\ RUN \in Statuses
    BY DEF Safe, TableOK, TableType, Statuses
  <2>2. \A x \in Refs : [heap[x] EXCEPT !.pid[i] = Top.new] \in Jobs /\ [heap[x] EXCEPT !.pid[i] = Top.new].id = heap[x].id
    BY <2>1, <1>5, SetPidType
  <2> DEFINE h == [heap EXCEPT ![f.j].pid[i] = Top.new]
  <2>3. h \in [Refs -> Jobs] /\ \A x \in Refs : h[x].id = heap[x].id
    <3>1. \A x \in Refs : h[x] = IF x = f.j THEN [heap[x] EXCEPT !.pid[i] = Top.new] ELSE heap[x]
      BY <2>1
    <3>2. h = [x \in Refs |-> h[x]]
      BY <2>1
    <3> HIDE DEF h
    <3> QED BY <2>1, <2>2, <3>1, <3>2
  <2>4. heap' = [h EXCEPT ![f.j].stat[i] = RUN]
    BY <1>2, Zenon
  <2> HIDE DEF h
  <2>5. \A x \in Refs : [h[x] EXCEPT !.stat[i] = RUN] \in Jobs /\ [h[x] EXCEPT !.stat[i] = RUN].id = h[x].id
    BY <2>1, <2>3, SetStatType
  <2>6. \A x \in Refs : heap'[x] = IF x = f.j THEN [h[x] EXCEPT !.stat[i] = RUN] ELSE h[x]
    BY <2>3, <2>4
  <2>7. heap' = [x \in Refs |-> heap'[x]]
    BY <2>3, <2>4
  <2>8. heap' \in [Refs -> Jobs] /\ \A x \in Refs : heap'[x].id = heap[x].id
    BY <2>3, <2>5, <2>6, <2>7
  <2> QED BY <2>8, <1>2, HeapOnlyTable DEF Safe
<1>7. KernelType' /\ FlagType'
  BY <1>2, <1>5, ZenonT(60) DEF Safe, KernelType, FlagType, traps
<1> QED BY <1>4, <1>6, <1>7 DEF Safe

(* A fork() that fails keeps Safe.                                         *)
LEMMA ForkFailsSafe ==
  ASSUME Safe, job_fork_fails
  PROVE  Safe'
<1>1. stack # <<>> /\ Top.pc = "fork" /\ FrameOK(Top)
  BY TopOf DEF job_fork_fails, At, Safe
<1>2. UNCHANGED <<kernel, flags, traps>> /\ mask' = FALSE
  BY DEF job_fork_fails
<1>3. CASE Top.k = "bg"
  <2>1. job_free(Top.j) /\ stack' = Pop(stack)
    BY <1>3 DEF job_fork_fails
  <2>2. StackOK(stack)' /\ WalkLive'
    BY <2>1, <1>1, ReturnTop DEF Safe
  <2> QED BY <2>1, <2>2, <1>2, JobFreeTable DEF Safe, KernelType, FlagType, kernel, flags, traps
<1>4. CASE Top.k # "bg"
  <2> DEFINE f == [Top EXCEPT !.left = @ - 1]
  <2>1. stack' = (IF f.left > 0 THEN Goto(f) ELSE AfterFork(f)) /\ UNCHANGED table
    BY <1>4 DEF job_fork_fails
  <2>2. FrameOK(f) /\ f.pc = "fork"
    BY <1>1, SMTT(60) DEF FrameOK, Frames
  <2> HIDE DEF f
  <2>3. f.k = "waitops" => f.todo # <<>>
    BY <2>2 DEF FrameOK
  <2>4. StackOK(stack)' /\ WalkLive'
    <3>1. CASE f.left > 0
      BY <3>1, <2>1, <2>2, <1>1, MoveTop DEF Safe
    <3>2. CASE ~(f.left > 0)
      BY <3>2, <2>1, <2>2, <2>3, <1>1, AfterForkSafe DEF Safe
    <3> QED BY <3>1, <3>2
  <2> QED BY <2>1, <2>4, <1>2, SameTable DEF Safe, KernelType, FlagType, kernel, flags, traps
<1> QED BY <1>3, <1>4

(* exec_program up to the fork keeps Safe.                                 *)
LEMMA ExecSafe ==
  ASSUME Safe, NEW bgnd \in BOOLEAN, exec_program(bgnd)
  PROVE  Safe'
<1> DEFINE f(p) == [Call("prog", "forked") EXCEPT !.new = p, !.flag = bgnd]
<1>1. PICK p \in Pids : kid' = Forked(p) /\ stack' = Append(stack, f(p))
  BY DEF exec_program, Push
<1>2. FrameOK(Call("prog", "forked")) /\ Call("prog", "forked").pc = "forked" /\ Call("prog", "forked").k = "prog"
  BY CallFrame DEF Calls, Pcs
<1>3. FrameOK(f(p)) /\ f(p).pc = "forked"
  BY <1>2 DEF FrameOK, Frames
<1>4. StackOK(stack)' /\ WalkLive'
  BY <1>1, <1>3, CmdRests, CallTop DEF exec_program, Safe
<1>5. KernelType'
  BY <1>1, KidTypes DEF exec_program, Safe, KernelType
<1> QED BY <1>4, <1>5, SameTable DEF exec_program, Safe, FlagType, flags, traps

(* exec_program without a process keeps Safe.                              *)
LEMMA ExecFailsSafe ==
  ASSUME Safe, NEW bgnd \in BOOLEAN, exec_program_fails(bgnd)
  PROVE  Safe'
<1>1. UNCHANGED <<kernel, table, flags, traps, stack>> /\ mask' = FALSE
  BY DEF exec_program_fails
<1>2. StackOK(stack)' /\ WalkLive'
  BY <1>1, SameStack DEF Safe, table
<1> QED BY <1>1, <1>2, SameTable DEF Safe, KernelType, FlagType, kernel, flags, traps

(* exec_program registering its child keeps Safe.                          *)
LEMMA ExecParentSafe ==
  ASSUME Safe, exec_program_parent
  PROVE  Safe'
<1>1. stack # <<>> /\ Top.k = "prog" /\ FrameOK(Top)
  BY TopOf DEF exec_program_parent, Running, Safe
<1>2. Top \in Frames /\ Top.new \in Pids \cup {Nil} /\ Top.flag \in BOOLEAN
  BY <1>1 DEF FrameOK, Frames
<1>3. PICK r \in Refs :
        /\ job_new(r, 1, Top.flag, FALSE, Top.new)
        /\ IF Top.flag
           THEN /\ mask' = FALSE /\ job_bgpid' = Top.new /\ stack' = Pop(stack)
                /\ kid' = [kid EXCEPT ![Top.new].bg = TRUE]
           ELSE /\ stack' = Goto(JobWait([Top EXCEPT !.new = Nil], r, Hangup))
                /\ UNCHANGED <<mask, job_bgpid, kid>>
  BY DEF exec_program_parent, Step
<1>4. UNCHANGED <<chld, job_signaled, sh_subshell, traps>>
  BY DEF exec_program_parent
<1>5. TableOK'
  BY <1>2, <1>3, JobNewTable DEF Safe, FlagType
<1>6. KernelType' /\ FlagType'
  BY <1>2, <1>3, <1>4, ZenonT(60) DEF Safe, KernelType, FlagType, traps
<1>7. StackOK(stack)' /\ WalkLive'
  <2>1. CASE Top.flag
    BY <2>1, <1>1, <1>3, ReturnTop DEF Safe
  <2>2. CASE ~Top.flag
    <3> DEFINE f == [Top EXCEPT !.new = Nil]
    <3>1. f \in Frames /\ f.k = "prog"
      BY <1>1, <1>2 DEF Frames
    <3> HIDE DEF f
    <3>2. FrameOK(JobWait(f, r, Hangup)) /\ JobWait(f, r, Hangup).pc = "top"
      BY <3>1, JobWaitFrame DEF Safe
    <3>3. stack' = Goto(JobWait(f, r, Hangup))
      BY <2>2, <1>3 DEF f
    <3> QED BY <3>2, <3>3, <1>1, MoveTop DEF Safe
  <2> QED BY <2>1, <2>2
<1> QED BY <1>5, <1>6, <1>7 DEF Safe

(* job_resume_stopped keeps Safe.                                          *)
LEMMA ResumeStoppedSafe ==
  ASSUME Safe, job_resume_stopped
  PROVE  Safe'
<1>1. PICK p \in Pids : /\ job_signal(p, StatusOf(p))
                        /\ kid' = IF kid[p].st = "zombie" THEN Reaped(p) ELSE Continued({p})
  BY DEF job_resume_stopped
<1>2. KernelType'
  BY <1>1, KidTypes DEF job_resume_stopped, Safe, KernelType
<1>3. TableOK' /\ job_signaled' \in BOOLEAN /\ job_list' = job_list
  BY <1>1, StatusType, JobSignalTable DEF Safe, FlagType
<1>4. StackOK(stack)' /\ WalkLive'
  BY <1>3, SameStack DEF job_resume_stopped, Safe
<1> QED BY <1>2, <1>3, <1>4 DEF job_resume_stopped, Safe, FlagType, traps

-----------------------------------------------------------------------------
(* job_wait *)

(* A step that only moves the top call's program counter ...               *)
LEMMA PcStep ==
  ASSUME StackOK(stack), stack # <<>>, Top.pc # "next",
         NEW pc \in Pcs \ {"clean", "discard"}, stack' = Goto([Top EXCEPT !.pc = pc])
  PROVE  StackOK(stack)' /\ WalkLive'
<1>1. FrameOK([Top EXCEPT !.pc = pc]) /\ [Top EXCEPT !.pc = pc].pc = pc
  BY TopOf, PcFrame
<1> QED BY <1>1, MoveTop

(* ... and its status.                                                     *)
LEMMA PcStatusStep ==
  ASSUME StackOK(stack), stack # <<>>, Top.pc # "next",
         NEW pc \in Pcs \ {"clean", "discard"}, NEW st \in Statuses \cup {Hangup},
         stack' = Goto([Top EXCEPT !.pc = pc, !.st = st])
  PROVE  StackOK(stack)' /\ WalkLive'
<1> DEFINE f == [Top EXCEPT !.pc = pc, !.st = st]
<1>1. FrameOK(Top)
  BY TopOf
<1>2. f \in Frames /\ f.pc = pc /\ f.k = Top.k /\ f.todo = Top.todo
  BY <1>1 DEF FrameOK, Frames
<1>3. FrameOK(f)
  BY <1>1, <1>2 DEF FrameOK
<1> QED BY <1>2, <1>3, MoveTop

(* Nothing but the call chain moves.                                       *)
LEMMA OnlyStack ==
  ASSUME Safe, UNCHANGED <<kernel, mask, table, flags, traps>>, StackOK(stack)', WalkLive'
  PROVE  Safe'
BY SameTable DEF Safe, KernelType, FlagType, kernel, flags, traps

(* The end of a substitution's pipe keeps Safe.                            *)
LEMMA EofSafe ==
  ASSUME Safe, fdstack_data_eof
  PROVE  Safe'
<1>1. stack # <<>> /\ Top.pc = "drain" /\ FrameOK(Top)
  BY TopOf DEF fdstack_data_eof, At, Safe
<1>2. StackOK(stack)' /\ WalkLive'
  <2>1. CASE Top.k = "bg"
    BY <2>1, <1>1, ReturnTop DEF fdstack_data_eof, Safe
  <2>2. CASE Top.k # "bg"
    <3>1. stack' = Goto(JobWait(Top, Top.j, RUN))
      BY <2>2 DEF fdstack_data_eof
    <3>2. Top \in Frames /\ Top.j \in Refs \cup {Nil} /\ RUN \in Statuses \cup {Hangup} /\ (Top.k = "waitops" => Top.todo # <<>>)
      BY <1>1 DEF FrameOK, Frames, Statuses
    <3>3. FrameOK(JobWait(Top, Top.j, RUN)) /\ JobWait(Top, Top.j, RUN).pc = "top"
      BY <3>2, JobWaitFrame DEF Safe
    <3> QED BY <3>1, <3>3, <1>1, MoveTop DEF Safe
  <2> QED BY <2>1, <2>2
<1> QED BY <1>2, OnlyStack DEF fdstack_data_eof

(* Running a trap body on top of a call at rest.                           *)
LEMMA RunTrapSafe ==
  ASSUME Safe, NEW s, StackOK(s), s = <<>> \/ s[Len(s)].pc \in Resting,
         RunTrap(s), UNCHANGED <<kernel, mask, table, flags>>
  PROVE  Safe'
<1>1. FrameOK(Call("trap", "body")) /\ Call("trap", "body").pc = "body"
  BY CallFrame DEF Calls, Pcs
<1>2. StackOK(stack)' /\ WalkLive'
  BY <1>1, CallTop DEF RunTrap
<1>3. FlagType'
  <2>1. trap_run_count' \in Nat
    BY DEF RunTrap, Safe, FlagType
  <2>2. trap_signaled' = FALSE /\ UNCHANGED <<job_wait_interruptible, job_wait_sig>>
    BY DEF RunTrap
  <2> QED BY <2>1, <2>2 DEF Safe, FlagType, flags
<1> QED BY <1>2, <1>3, SameTable DEF Safe, KernelType, kernel

(* job_wait dispatching pending traps keeps Safe.                          *)
LEMMA WaitTrapsSafe ==
  ASSUME Safe, job_wait_traps
  PROVE  Safe'
<1> DEFINE pc == IF Top.pc = "top" THEN "chk" ELSE "rechk"
           f == [Top EXCEPT !.pc = pc]
<1>1. stack # <<>> /\ Top.pc \in {"top", "err"} /\ FrameOK(Top)
  BY TopOf DEF job_wait_traps, Waiting, At, Safe
<1>2. pc \in Pcs \ {"clean", "discard"} /\ pc \in Resting
  BY DEF Pcs, WaitPcs, Resting
<1>3. f = [Top EXCEPT !.pc = IF @ = "top" THEN "chk" ELSE "rechk"]
  BY <1>1 DEF FrameOK, Frames
<1> HIDE DEF pc
<1>4. /\ IF trap_signaled THEN RunTrap(Goto(f)) ELSE stack' = Goto(f) /\ UNCHANGED traps
      /\ UNCHANGED <<kernel, mask, table, flags>>
  BY <1>3 DEF job_wait_traps, Step
<1>5. CASE trap_signaled
  <2>1. FrameOK(f) /\ f.pc = pc
    BY <1>1, <1>2, PcFrame
  <2> HIDE DEF f
  <2>2. StackOK(Goto(f)) /\ Goto(f)[Len(Goto(f))].pc \in Resting
    BY <2>1, <1>1, <1>2, GotoOf DEF Safe
  <2> QED BY <2>2, <1>4, <1>5, RunTrapSafe
<1>6. CASE ~trap_signaled
  <2>1. StackOK(stack)' /\ WalkLive'
    BY <1>1, <1>2, <1>4, <1>6, PcStep DEF Safe
  <2> QED BY <2>1, <1>4, <1>6, OnlyStack
<1> QED BY <1>5, <1>6

(* job_wait looking at trap_run_count keeps Safe.                          *)
LEMMA WaitCheckSafe ==
  ASSUME Safe, job_wait_check
  PROVE  Safe'
<1>1. stack # <<>> /\ Top.pc \in {"chk", "rechk"} /\ FrameOK(Top)
  BY TopOf DEF job_wait_check, Waiting, At, Safe
<1>2. CASE job_wait_interruptible /\ trap_run_count # Top.t0
  <2>1. stack' = Goto([Top EXCEPT !.pc = "ret"]) /\ job_wait_sig' = TRUE
    BY <1>2 DEF job_wait_check, Step
  <2>2. "ret" \in Pcs \ {"clean", "discard"}
    BY DEF Pcs
  <2>3. StackOK(stack)' /\ WalkLive'
    BY <2>1, <2>2, <1>1, PcStep DEF Safe
  <2>4. UNCHANGED <<kernel, mask, table, flags, trap_signaled, trap_run_count, job_wait_interruptible>>
    BY DEF job_wait_check
  <2>5. FlagType'
    BY <2>1, <2>4 DEF Safe, FlagType, flags
  <2> QED BY <2>3, <2>4, <2>5, SameTable DEF Safe, KernelType, kernel
<1>3. CASE ~(job_wait_interruptible /\ trap_run_count # Top.t0)
  <2> DEFINE pc == IF Top.pc = "chk" THEN "scan" ELSE "spin"
  <2>1. stack' = Goto([Top EXCEPT !.pc = IF @ = "chk" THEN "scan" ELSE "spin"])
    BY <1>3 DEF job_wait_check, Step
  <2>2. stack' = Goto([Top EXCEPT !.pc = pc])
    BY <2>1, <1>1 DEF FrameOK, Frames
  <2>3. pc \in Pcs \ {"clean", "discard"}
    BY DEF Pcs, WaitPcs
  <2> HIDE DEF pc
  <2>4. StackOK(stack)' /\ WalkLive'
    BY <2>2, <2>3, <1>1, PcStep DEF Safe
  <2>5. UNCHANGED <<kernel, mask, table, flags, traps>>
    BY <1>3 DEF job_wait_check, traps
  <2> QED BY <2>4, <2>5, OnlyStack
<1> QED BY <1>2, <1>3

(* The status the scan and pipefail pick is one of the members' statuses.  *)
LEMMA ScannedType ==
  ASSUME NEW j \in Jobs, NEW st \in Statuses \cup {Hangup}
  PROVE  Scanned(j, st) \in Statuses \cup {Hangup} /\ PipefailStatus(j, st) \in Statuses \cup {Hangup}
<1>1. j.n \in Nat /\ \A i \in 1..j.n : j.stat[i] \in Statuses
  BY DEF Jobs
<1>2. ASSUME NEW S \in SUBSET (1..j.n), S # {}
      PROVE  j.stat[Greatest(S)] \in Statuses
  <2>1. S \in SUBSET (0..j.n)
    BY <1>1
  <2>2. Greatest(S) \in S
    BY <1>1, <1>2, <2>1, GreatestOf
  <2> QED BY <1>1, <2>2
<1>3. Scanned(j, st) \in Statuses \cup {Hangup}
  BY <1>2 DEF Scanned
<1>4. PipefailStatus(j, st) \in Statuses \cup {Hangup}
  BY <1>2 DEF PipefailStatus
<1> QED BY <1>3, <1>4

(* Inside a command substitution the scan puts stopped members back to     *)
(* running.                                                                *)
LEMMA RestartType ==
  ASSUME NEW j \in Jobs, NEW S
  PROVE  LET j2 == [j EXCEPT !.stat = [i \in 1..j.n |-> IF i \in S THEN RUN ELSE j.stat[i]]]
         IN  j2 \in Jobs /\ j2.id = j.id
<1> DEFINE t == [i \in 1..j.n |-> IF i \in S THEN RUN ELSE j.stat[i]]
<1>1. j.n \in Nat /\ \A i \in 1..j.n : j.stat[i] \in Statuses
  BY DEF Jobs
<1>2. t \in Seq(Statuses) /\ Len(t) = j.n
  BY <1>1 DEF Statuses
<1> HIDE DEF t
<1>3. [j EXCEPT !.stat = t] \in Jobs /\ [j EXCEPT !.stat = t].id = j.id
  BY <1>2 DEF Jobs
<1> QED BY <1>3 DEF t

(* job_wait's scan of the members keeps Safe.                              *)
LEMMA WaitScanSafe ==
  ASSUME Safe, job_wait_scan
  PROVE  Safe'
<1> DEFINE j == heap[Top.j]
           st == Scanned(j, Top.st)
           f == [Top EXCEPT !.st = st]
           ended == {i \in 1..j.n : j.stat[i] = STOP}
<1>1. stack # <<>> /\ Top.pc = "scan" /\ Live(Top.j) /\ FrameOK(Top)
  BY TopOf DEF job_wait_scan, Waiting, At, Safe
<1>2. Top \in Frames /\ Top.j \in Refs /\ heap \in [Refs -> Jobs] /\ j \in Jobs
  BY <1>1 DEF FrameOK, Safe, TableOK, TableType, Live
<1>3. st \in Statuses \cup {Hangup}
  BY <1>2, ScannedType DEF Frames
<1>4. UNCHANGED <<chld, mask, job_list, job_pointer, job_finished, job_finished_n, flags, traps>>
  BY DEF job_wait_scan
<1>5. \A pc \in Pcs : [f EXCEPT !.pc = pc] = [Top EXCEPT !.pc = pc, !.st = st]
  BY <1>2 DEF Frames
<1>6. CASE ended # {} /\ InCmdsub
  <2>1. /\ kid' = Continued(IF Grouped(j) THEN Group(j) ELSE {j.pid[i] : i \in ended})
        /\ heap' = [heap EXCEPT ![Top.j].stat = [i \in 1..j.n |-> IF i \in ended THEN RUN ELSE @[i]]]
        /\ stack' = Goto([f EXCEPT !.pc = "top"])
    BY <1>6 DEF job_wait_scan, Step
  <2>2. KernelType'
    <3> DEFINE S == IF Grouped(j) THEN Group(j) ELSE {j.pid[i] : i \in ended}
    <3>1. kid' = Continued(S)
      BY <2>1
    <3> HIDE DEF S
    <3>2. Continued(S) \in [Pids -> [st : KidStates, code : Codes, note : BOOLEAN, bg : BOOLEAN]]
      BY DEF Continued, Safe, KernelType, KidStates
    <3> QED BY <3>1, <3>2, <1>4 DEF Safe, KernelType
  <2>3. TableOK'
    <3> HIDE DEF ended
    <3> DEFINE j2 == [j EXCEPT !.stat = [i \in 1..j.n |-> IF i \in ended THEN RUN ELSE j.stat[i]]]
    <3>1. j2 \in Jobs /\ j2.id = j.id
      BY <1>2, RestartType
    <3>2. heap' = [heap EXCEPT ![Top.j] = j2]
      BY <2>1, <1>2
    <3> HIDE DEF j2
    <3>3. heap' \in [Refs -> Jobs] /\ \A x \in Refs : heap'[x].id = heap[x].id
      BY <3>1, <3>2, <1>2
    <3> QED BY <3>3, <1>4, HeapOnlyTable DEF Safe
  <2>4. StackOK(stack)' /\ WalkLive'
    <3>1. "top" \in Pcs \ {"clean", "discard"}
      BY SMTT(60) DEF Pcs, WaitPcs
    <3>2. stack' = Goto([Top EXCEPT !.pc = "top", !.st = st])
      BY <2>1, <3>1, <1>5
    <3> QED BY <3>1, <3>2, <1>1, <1>3, PcStatusStep DEF Safe
  <2> QED BY <2>2, <2>3, <2>4, <1>4 DEF Safe, FlagType, flags, traps
<1>7. CASE ~(ended # {} /\ InCmdsub)
  <2> DEFINE pc == IF ended # {} \/ ~job_running(j) THEN "fin" ELSE "call"
  <2>1. stack' = Goto([f EXCEPT !.pc = pc]) /\ UNCHANGED <<kid, heap>>
    BY <1>7 DEF job_wait_scan, Step
  <2>2. pc \in Pcs \ {"clean", "discard"}
    BY SMTT(60) DEF Pcs, WaitPcs
  <2> HIDE DEF pc
  <2>3. stack' = Goto([Top EXCEPT !.pc = pc, !.st = st])
    BY <2>1, <2>2, <1>5
  <2>4. StackOK(stack)' /\ WalkLive'
    BY <2>2, <2>3, <1>1, <1>3, PcStatusStep DEF Safe
  <2> QED BY <2>1, <2>4, <1>4, OnlyStack DEF kernel, table
<1> QED BY <1>6, <1>7

(* waitpid() returning a child to job_wait keeps Safe.                     *)
LEMMA ReapSafe ==
  ASSUME Safe, waitpid_reap
  PROVE  Safe'
<1>1. stack # <<>> /\ Top.pc \in {"call", "blocked"} /\ Live(Top.j) /\ FrameOK(Top)
  BY TopOf DEF waitpid_reap, Waiting, At, Safe
<1>2. heap[Top.j] \in Jobs
  BY <1>1 DEF Safe, TableOK, TableType, Live
<1>3. Group(heap[Top.j]) \subseteq Pids
  BY <1>2 DEF Group, Jobs
<1>4. PICK p \in Pids : /\ kid' = Reaped(p) /\ job_signal(p, StatusOf(p))
                        /\ stack' = Goto([Top EXCEPT !.pc = "top", !.st = StatusOf(p)])
  BY <1>3 DEF waitpid_reap, Step
<1>5. StatusOf(p) \in Statuses
  BY StatusType DEF Safe
<1>6. KernelType'
  BY <1>4, KidTypes DEF waitpid_reap, Safe, KernelType
<1>7. TableOK' /\ job_signaled' \in BOOLEAN
  BY <1>4, <1>5, JobSignalTable DEF Safe, FlagType
<1>8. StackOK(stack)' /\ WalkLive'
  <2>1. "top" \in Pcs \ {"clean", "discard"}
    BY DEF Pcs, WaitPcs
  <2> QED BY <2>1, <1>1, <1>4, <1>5, PcStatusStep DEF Safe
<1> QED BY <1>6, <1>7, <1>8 DEF waitpid_reap, Safe, FlagType, traps

(* waitpid() failing or blocking keeps Safe.                               *)
LEMMA NoneBlockSafe ==
  ASSUME Safe, waitpid_none \/ waitpid_block
  PROVE  Safe'
<1>1. stack # <<>> /\ Top.pc \in {"call", "blocked"} /\ UNCHANGED <<kernel, mask, table, flags, traps>>
  BY DEF waitpid_none, waitpid_block, Waiting, At
<1>2. "err" \in Pcs \ {"clean", "discard"} /\ "blocked" \in Pcs \ {"clean", "discard"}
  BY DEF Pcs, WaitPcs
<1>3. stack' = Goto([Top EXCEPT !.pc = "err"]) \/ stack' = Goto([Top EXCEPT !.pc = "blocked"])
  BY DEF waitpid_none, waitpid_block, Step
<1>4. StackOK(stack)' /\ WalkLive'
  BY <1>1, <1>2, <1>3, PcStep DEF Safe
<1> QED BY <1>1, <1>4, OnlyStack

(* job_wait's retry counter keeps Safe.                                    *)
LEMMA SpinSafe ==
  ASSUME Safe, job_wait_spin
  PROVE  Safe'
<1> DEFINE pc == IF Top.spins <= 1 THEN "fin" ELSE "top"
           f == [Top EXCEPT !.spins = @ - 1, !.pc = pc]
<1>1. stack # <<>> /\ Top.pc = "spin" /\ FrameOK(Top) /\ stack' = Goto(f)
  BY TopOf DEF job_wait_spin, Waiting, At, Step, Safe
<1>2. pc \in Pcs \ {"clean", "discard"}
  BY DEF Pcs, WaitPcs
<1> HIDE DEF pc
<1>3. Top \in Frames /\ Top.spins - 1 \in Int
  BY <1>1 DEF FrameOK, Frames
<1>4. f = [Top EXCEPT !.spins = Top.spins - 1, !.pc = pc]
  BY <1>3 DEF Frames
<1>5. f \in Frames /\ f.pc = pc /\ f.k = Top.k /\ f.todo = Top.todo
  BY <1>2, <1>3, <1>4 DEF Frames
<1>6. FrameOK(f)
  BY <1>1, <1>5 DEF FrameOK
<1>7. StackOK(stack)' /\ WalkLive'
  BY <1>1, <1>2, <1>5, <1>6, MoveTop DEF Safe
<1> QED BY <1>7, OnlyStack DEF job_wait_spin

(* The end of job_wait, which may free the job, keeps Safe.                *)
LEMMA WaitFinishSafe ==
  ASSUME Safe, job_wait_finish
  PROVE  Safe'
<1>1. stack # <<>> /\ Top.pc = "fin" /\ Live(Top.j) /\ FrameOK(Top)
  BY TopOf DEF job_wait_finish, Waiting, At, Safe
<1>2. heap[Top.j] \in Jobs /\ Top.st \in Statuses \cup {Hangup}
  BY <1>1 DEF Safe, TableOK, TableType, Live, FrameOK, Frames
<1>3. PipefailStatus(heap[Top.j], Top.st) \in Statuses \cup {Hangup}
  BY <1>2, ScannedType
<1>4. StackOK(stack)' /\ WalkLive'
  <2>1. "ret" \in Pcs \ {"clean", "discard"}
    BY DEF Pcs
  <2> QED BY <2>1, <1>1, <1>3, PcStatusStep DEF job_wait_finish, Step, Safe
<1>5. TableOK'
  BY JobFreeTable, SameTable DEF job_wait_finish, Safe
<1> QED BY <1>4, <1>5 DEF job_wait_finish, Safe, KernelType, FlagType, kernel, flags, traps

(* Even a job_wait on a freed job leaves the table as it is.               *)
LEMMA DanglingSafe ==
  ASSUME Safe, job_wait_dangling
  PROVE  Safe'
<1>1. stack # <<>> /\ Top.pc # "next"
  BY DEF job_wait_dangling, WaitPcs
<1>2. PICK st \in Codes \cup {RUN} : stack' = Goto([Top EXCEPT !.pc = "ret", !.st = st])
  BY DEF job_wait_dangling, Step
<1>3. st \in Statuses \cup {Hangup} /\ "ret" \in Pcs \ {"clean", "discard"}
  BY DEF Statuses, Pcs
<1>4. StackOK(stack)' /\ WalkLive'
  BY <1>1, <1>2, <1>3, PcStatusStep DEF Safe
<1> QED BY <1>4, OnlyStack DEF job_wait_dangling

-----------------------------------------------------------------------------
(* Returns *)

(* The callers of job_wait, the freeing of a pipeline included, keep Safe. *)
LEMMA ReturnsSafe ==
  ASSUME Safe, eval_pipeline_return \/ exec_program_return \/ fg_return
  PROVE  Safe'
<1>1. stack # <<>> /\ stack' = Pop(stack)
  BY DEF eval_pipeline_return, exec_program_return, fg_return, Running, Return
<1>2. StackOK(stack)' /\ WalkLive'
  BY <1>1, ReturnTop DEF Safe
<1>3. CASE eval_pipeline_return
  <2>1. TableOK'
    BY <1>3, JobFreeTable DEF eval_pipeline_return, Safe
  <2> QED BY <2>1, <1>2, <1>3 DEF eval_pipeline_return, Safe, KernelType, FlagType, kernel, flags, traps
<1>4. CASE exec_program_return
  <2>1. TableOK'
    BY <1>4, SameTable DEF exec_program_return, Safe
  <2> QED BY <2>1, <1>2, <1>4 DEF exec_program_return, Safe, KernelType, FlagType, kernel, flags, traps
<1>5. CASE fg_return
  BY <1>2, <1>5, OnlyStack DEF fg_return
<1> QED BY <1>3, <1>4, <1>5

-----------------------------------------------------------------------------
(* Looking jobs up *)

(* Every lookup yields a linked job or none.                               *)
LEMMA PickHere ==
  ASSUME TableType, NEW S \in SUBSET (1..Len(job_list))
  PROVE  /\ FirstHere(S) = Nil \/ (FirstHere(S) \in Refs /\ Live(FirstHere(S)))
         /\ LastHere(S) = Nil \/ (LastHere(S) \in Refs /\ Live(LastHere(S)))
<1>1. Len(job_list) \in Nat /\ S \in SUBSET Nat /\ S \in SUBSET (0..Len(job_list))
  BY DEF TableType
<1>2. CASE S = {}
  <2>1. FirstHere(S) = Nil /\ LastHere(S) = Nil
    BY <1>2 DEF FirstHere, LastHere
  <2> QED BY <2>1
<1>3. CASE S # {}
  <2>1. Least(S) \in 1..Len(job_list) /\ Greatest(S) \in 1..Len(job_list)
    BY <1>1, <1>3, LeastOf, GreatestOf
  <2>2. FirstHere(S) = job_list[Least(S)] /\ LastHere(S) = job_list[Greatest(S)]
    BY <1>3 DEF FirstHere, LastHere
  <2>3. FirstHere(S) \in Refs /\ LastHere(S) \in Refs
    BY <2>1, <2>2 DEF TableType
  <2>4. Live(FirstHere(S)) /\ Live(LastHere(S))
    BY <2>1, <2>2 DEF Live
  <2> QED BY <2>3, <2>4
<1> QED BY <1>2, <1>3

(* The head of the list is a linked job, if there is one.                  *)
LEMMA FirstLive ==
  ASSUME TableType
  PROVE  First = Nil \/ (First \in Refs /\ Live(First))
<1>1. CASE job_list = <<>>
  <2>1. First = Nil
    BY <1>1 DEF First
  <2> QED BY <2>1
<1>2. CASE job_list # <<>>
  <2>1. 1 \in 1..Len(job_list) /\ job_list[1] \in Refs
    BY <1>2 DEF TableType
  <2>2. First = job_list[1]
    BY <1>2 DEF First
  <2>3. Live(job_list[1])
    BY <2>1 DEF Live
  <2> QED BY <2>1, <2>2, <2>3
<1> QED BY <1>1, <1>2

(* The successor of a linked job is linked, if there is one.               *)
LEMMA AfterLive ==
  ASSUME TableType, NEW r, Live(r)
  PROVE  After(r) = Nil \/ (After(r) \in Refs /\ Live(After(r)))
<1> DEFINE k == Pos(job_list, r)
<1>1. k \in 1..Len(job_list) /\ Len(job_list) \in Nat
  BY PosOf DEF TableType
<1>2. After(r) = IF k < Len(job_list) THEN job_list[k + 1] ELSE Nil
  BY DEF After
<1> HIDE DEF k
<1>3. CASE k < Len(job_list)
  <2>1. k + 1 \in 1..Len(job_list) /\ job_list[k + 1] \in Refs
    BY <1>1, <1>3 DEF TableType
  <2>2. Live(job_list[k + 1])
    BY <2>1 DEF Live
  <2> QED BY <2>1, <2>2, <1>2, <1>3
<1>4. CASE ~(k < Len(job_list))
  BY <1>2, <1>4
<1> QED BY <1>3, <1>4

(* The current job is a linked job, if there is one.                       *)
LEMMA CurrentLive ==
  ASSUME TableOK
  PROVE  job_current = Nil \/ (job_current \in Refs /\ Live(job_current))
<1>1. job_list \in Seq(Refs) /\ Len(job_list) \in Nat /\ \A i \in 1..Len(job_list) : job_list[i] \in Refs
  BY DEF TableOK, TableType
<1>2. First = Nil \/ (First \in Refs /\ Live(First))
  BY FirstLive DEF TableOK
<1>3. ASSUME NEW r, Live(r)
      PROVE  After(r) = Nil \/ (After(r) \in Refs /\ Live(After(r)))
  BY <1>3, AfterLive DEF TableOK
<1>4. CASE job_pointer = NoSlot \/ (job_pointer # Head0 /\ ~Live(job_pointer))
  <2>1. job_current = Nil
    BY <1>4, JobConstants DEF job_current, Head0, NoSlot
  <2> QED BY <2>1
<1>5. CASE job_pointer # NoSlot /\ job_pointer = Head0
  <2>1. job_current = First
    BY <1>5 DEF job_current
  <2> QED BY <1>2, <2>1
<1>6. CASE job_pointer # NoSlot /\ job_pointer # Head0 /\ Live(job_pointer)
  <2>1. job_current = After(job_pointer)
    BY <1>6 DEF job_current
  <2> QED BY <1>3, <1>6, <2>1
<1> QED BY <1>4, <1>5, <1>6

(* job_find returns NULL or a linked job, for every form of operand.       *)
LEMMA FindLive ==
  ASSUME TableOK, NEW spec, spec.by \in {"%%", "%-", "%n", "pid"}
  PROVE  job_find(spec) = Nil \/ (job_find(spec) \in Refs /\ Live(job_find(spec)))
<1>1. TableType
  BY DEF TableOK
<1>2. CASE spec.by = "%%"
  BY <1>2, CurrentLive DEF job_find
<1>3. CASE spec.by = "%-"
  BY <1>3, <1>1, PickHere DEF job_find, Where
<1>4. CASE spec.by = "%n"
  BY <1>4, <1>1, PickHere DEF job_find, Where
<1>5. CASE spec.by = "pid"
  BY <1>5, <1>1, PickHere DEF job_find, Where
<1> QED BY <1>2, <1>3, <1>4, <1>5

(* fg and bg without an operand resolve to NULL or a linked job.           *)
LEMMA ResolveLive ==
  ASSUME TableOK
  PROVE  jobs_resolve = Nil \/ (jobs_resolve \in Refs /\ Live(jobs_resolve))
BY PickHere, CurrentLive DEF jobs_resolve, Where, TableOK

-----------------------------------------------------------------------------
(* wait *)

(* Starting "wait" keeps Safe.                                             *)
LEMMA WaitAllSafe ==
  ASSUME Safe, wait_all
  PROVE  Safe'
<1>1. FrameOK(Call("wait", "next")) /\ Call("wait", "next").pc = "next"
  BY CallFrame DEF Calls, Pcs
<1>2. StackOK(stack)' /\ WalkLive'
  BY <1>1, CmdRests, CallTop DEF wait_all, Push, Safe
<1> QED BY <1>2, OnlyStack DEF wait_all

(* Every operand has a known form and a pid or number.                     *)
LEMMA SpecsType ==
  ASSUME TableType
  PROVE  Specs \subseteq [by : {"%%", "%-", "%n", "pid"}, arg : Pids \cup Nat]
<1>1. \A r \in Refs : heap[r].id \in Nat
  BY DEF TableType, Jobs
<1> QED BY <1>1 DEF Specs

(* Looking up the operands of "wait" keeps Safe.                           *)
LEMMA WaitOperandsSafe ==
  ASSUME Safe, NEW specs \in SpecSeqs, wait_operands(specs)
  PROVE  Safe'
<1> DEFINE todo == [i \in 1..Len(specs) |-> [spec |-> specs[i], j |-> job_find(specs[i])]]
           f == [Call("waitops", "next") EXCEPT !.todo = todo]
<1>1. PICK m \in 1..MaxOperands : specs \in [1..m -> Specs]
  BY DEF SpecSeqs
<1>2. m \in Nat /\ Len(specs) = m /\ \A i \in 1..m : specs[i] \in [by : {"%%", "%-", "%n", "pid"}, arg : Pids \cup Nat]
  BY <1>1, SpecsType, JobConstants DEF Safe, TableOK
<1>3. \A i \in 1..m : job_find(specs[i]) \in Refs \cup {Nil}
  BY <1>2, FindLive DEF Safe
<1>4. todo \in Seq(Operand)
  <2>1. \A i \in 1..m : [spec |-> specs[i], j |-> job_find(specs[i])] \in Operand
    BY <1>2, <1>3 DEF Operand
  <2> QED BY <1>2, <2>1
<1> HIDE DEF todo
<1>5. FrameOK(Call("waitops", "next")) /\ Call("waitops", "next").pc = "next" /\ Call("waitops", "next").k = "waitops"
  BY CallFrame DEF Calls, Pcs
<1>6. FrameOK(f) /\ f.pc = "next"
  BY <1>4, <1>5 DEF FrameOK, Frames
<1>7. StackOK(stack)' /\ WalkLive'
  BY <1>6, CmdRests, CallTop DEF wait_operands, Push, Safe, todo
<1> QED BY <1>7, OnlyStack DEF wait_operands

(* "wait" going on to its next job keeps Safe.                             *)
LEMMA WaitNextSafe ==
  ASSUME Safe, wait_next
  PROVE  Safe'
<1> DEFINE finished == IF Top.k = "wait" THEN job_first = Nil ELSE Top.todo = <<>>
           target   == IF Top.k = "wait" THEN job_first ELSE Head(Top.todo).j
<1>1. stack # <<>> /\ Top.pc = "next" /\ FrameOK(Top) /\ Top.k \in {"wait", "waitops"}
  BY TopOf DEF wait_next, Running, Safe
<1>2. Top \in Frames /\ Top.todo \in Seq(Operand)
  BY <1>1 DEF FrameOK, Frames
<1>3. UNCHANGED <<kernel, mask, table, flags, trap_signaled, trap_run_count>>
  BY DEF wait_next
<1>4. CASE finished /\ Return /\ UNCHANGED <<job_wait_interruptible, job_wait_sig>>
  <2>1. StackOK(stack)' /\ WalkLive'
    BY <1>1, <1>4, ReturnTop DEF Return, Safe
  <2> QED BY <2>1, <1>3, <1>4, OnlyStack DEF traps
<1>5. CASE /\ ~finished /\ target # Nil /\ job_wait_interruptible' = TRUE /\ job_wait_sig' = FALSE
           /\ stack' = Goto(JobWait(Top, target, 0))
  <2>1. target \in Refs \cup {Nil}
    <3>1. CASE Top.k = "wait"
      BY <3>1, PickHere DEF job_first, Where, Safe, TableOK
    <3>2. CASE Top.k # "wait"
      <4>1. Head(Top.todo) \in Operand
        BY <3>2, <1>2, <1>5
      <4> QED BY <3>2, <4>1 DEF Operand
    <3> QED BY <3>1, <3>2
  <2>2. 0 \in Statuses \cup {Hangup} /\ (Top.k = "waitops" => Top.todo # <<>>)
    BY <1>5, JobConstants DEF Statuses
  <2>3. FrameOK(JobWait(Top, target, 0)) /\ JobWait(Top, target, 0).pc = "top"
    BY <1>2, <2>1, <2>2, JobWaitFrame DEF Safe
  <2>4. StackOK(stack)' /\ WalkLive'
    BY <2>3, <1>1, <1>5, MoveTop DEF Safe
  <2>5. FlagType'
    BY <1>3, <1>5 DEF Safe, FlagType, flags
  <2> QED BY <2>4, <2>5, <1>3, SameTable DEF Safe, KernelType, kernel
<1>6. CASE /\ ~finished /\ target = Nil /\ UNCHANGED <<job_wait_interruptible, job_wait_sig>>
           /\ stack' = Goto([Top EXCEPT !.todo = Tail(@)])
  <2>1. Top.k # "wait" /\ Tail(Top.todo) \in Seq(Operand)
    BY <1>2, <1>6
  <2> DEFINE f == [Top EXCEPT !.todo = Tail(Top.todo)]
  <2>2. stack' = Goto(f)
    BY <1>2, <1>6 DEF Frames
  <2>3. FrameOK(f) /\ f.pc = "next"
    BY <2>1, <1>1, <1>2 DEF FrameOK, Frames
  <2>4. StackOK(stack)' /\ WalkLive'
    BY <2>2, <2>3, <1>1, MoveTop DEF Safe
  <2> QED BY <2>4, <1>3, <1>6, OnlyStack DEF traps
<1> QED BY <1>4, <1>5, <1>6 DEF wait_next, Step

(* "wait" taking the status of one job keeps Safe.                         *)
LEMMA WaitReturnSafe ==
  ASSUME Safe, wait_return
  PROVE  Safe'
<1>1. stack # <<>> /\ Top.pc = "ret" /\ FrameOK(Top) /\ Top.k \in {"wait", "waitops"}
  BY TopOf DEF wait_return, Running, Safe
<1>2. Top \in Frames /\ Top.todo \in Seq(Operand) /\ 0 \in Statuses /\ "next" \in Pcs
  BY <1>1, JobConstants DEF FrameOK, Frames, Statuses, Pcs
<1>3. UNCHANGED <<kernel, mask, table, flags, trap_signaled, trap_run_count, job_wait_sig>> /\ job_wait_interruptible' = FALSE
  BY DEF wait_return
<1>4. StackOK(stack)' /\ WalkLive'
  <2>1. CASE job_wait_sig
    BY <2>1, <1>1, ReturnTop DEF wait_return, Return, Safe
  <2>2. CASE ~job_wait_sig
    <3> DEFINE t == IF Top.k = "wait" THEN Top.todo ELSE Tail(Top.todo)
               f == [Top EXCEPT !.pc = "next", !.j = Nil, !.st = 0, !.todo = t]
    <3>1. t \in Seq(Operand)
      BY <1>1, <1>2 DEF FrameOK
    <3>2. stack' = Goto(f)
      BY <2>2, <1>2 DEF wait_return, Step, Frames
    <3> HIDE DEF t
    <3>3. f \in Frames /\ f.pc = "next"
      BY <3>1, <1>2 DEF Frames
    <3>4. FrameOK(f)
      BY <3>3 DEF FrameOK
    <3> QED BY <3>2, <3>3, <3>4, <1>1, MoveTop DEF Safe
  <2> QED BY <2>1, <2>2
<1>5. FlagType'
  BY <1>3 DEF Safe, FlagType, flags
<1> QED BY <1>3, <1>4, <1>5, SameTable DEF Safe, KernelType, kernel

-----------------------------------------------------------------------------
(* jobs, job_update, fg, bg, subshells *)

(* A walk over the list begins at the first job.                           *)
LEMMA WalkStart ==
  ASSUME Safe, NEW s, StackOK(s), NEW f, f \in Frames, f.k # "waitops", f.cur = First,
         s = <<>> \/ s[Len(s)].pc \in Resting, stack' = Append(s, f), job_list' = job_list
  PROVE  StackOK(stack)' /\ WalkLive'
<1>1. FrameOK(f)
  BY DEF FrameOK
<1>2. /\ StackOK(Append(s, f)) /\ Append(s, f) # <<>>
      /\ Append(s, f)[Len(Append(s, f))] = f
  BY <1>1, PushOf
<1>3. f.cur = Nil \/ Live(f.cur)
  BY FirstLive DEF Safe, TableOK
<1>4. f.cur # Nil => Live(f.cur)'
  BY <1>3 DEF Live
<1>5. Top' = f
  BY <1>2 DEF Top
<1>6. WalkLive'
  BY <1>4, <1>5 DEF WalkLive
<1> QED BY <1>2, <1>6 DEF StackOK

(* Starting a walk over the list (jobs, job_update) keeps Safe.            *)
LEMMA ListCommandsSafe ==
  ASSUME Safe, builtin_jobs \/ job_update
  PROVE  Safe'
<1> DEFINE f(k) == [Call(k, "clean") EXCEPT !.cur = First]
<1>1. PICK k \in {"jobs", "update"} : stack' = Append(stack, f(k))
  BY DEF builtin_jobs, job_update, Push
<1>2. Call(k, "clean") \in Frames /\ Call(k, "clean").k = k
  BY CallFrame DEF Calls, Pcs, FrameOK
<1>3. First \in Refs \cup {Nil}
  BY FirstLive DEF Safe, TableOK
<1>4. f(k) \in Frames /\ f(k).k # "waitops" /\ f(k).cur = First
  BY <1>2, <1>3 DEF Frames
<1>5. UNCHANGED <<kernel, table, flags, traps>> /\ mask' \in BOOLEAN
  BY DEF builtin_jobs, job_update, Safe, KernelType
<1>6. StackOK(stack)' /\ WalkLive'
  <2>1. stack = <<>> \/ stack[Len(stack)].pc \in Resting
    BY CmdRests DEF builtin_jobs, job_update
  <2> QED BY <2>1, <1>1, <1>4, <1>5, WalkStart DEF Safe, table
<1> QED BY <1>5, <1>6, SameTable DEF Safe, KernelType, FlagType, kernel, flags, traps

(* One step of a walk: the job at hand may be freed; the next one was      *)
(* taken before and is not the one freed.                                  *)
LEMMA WalkStep ==
  ASSUME Safe, stack # <<>>, Top.pc \in {"clean", "discard"}, Top.cur # Nil,
         job_free(Top.cur) \/ UNCHANGED table,
         stack' = Goto([Top EXCEPT !.cur = After(Top.cur)]),
         UNCHANGED <<kernel, mask, flags, traps>>
  PROVE  Safe'
<1> DEFINE r == Top.cur
           f == [Top EXCEPT !.cur = After(r)]
<1>1. Live(r) /\ FrameOK(Top)
  BY TopOf DEF Safe, WalkLive
<1>2. After(r) = Nil \/ (After(r) \in Refs /\ Live(After(r)))
  BY <1>1, AfterLive DEF Safe, TableOK
<1>3. After(r) # r
  <2> DEFINE k == Pos(job_list, r)
  <2>1. k \in 1..Len(job_list) /\ job_list[k] = r /\ Len(job_list) \in Nat
    BY <1>1, PosOf DEF Safe, TableOK, TableType
  <2>2. After(r) = IF k < Len(job_list) THEN job_list[k + 1] ELSE Nil
    BY DEF After
  <2> HIDE DEF k
  <2>3. CASE k < Len(job_list)
    <3>1. k + 1 \in 1..Len(job_list) /\ k + 1 # k
      BY <2>1, <2>3
    <3>2. job_list[k + 1] # job_list[k]
      BY <3>1, <2>1 DEF Safe, TableOK, TableInv, ListDistinct
    <3> QED BY <3>2, <2>1, <2>2, <2>3
  <2>4. CASE ~(k < Len(job_list))
    BY <2>2, <2>4
  <2> QED BY <2>3, <2>4
<1>4. TableOK' /\ \A x : Live(x) /\ x # r => Live(x)'
  <2>1. CASE job_free(r)
    BY <2>1, JobFreeTable DEF Safe
  <2>2. CASE UNCHANGED table
    BY <2>2, SameTable DEF Safe, table, Live
  <2> QED BY <2>1, <2>2
<1>5. FrameOK(f) /\ f.cur = After(r)
  BY <1>1, <1>2 DEF FrameOK, Frames
<1>a. PICK g : g = f
  OBVIOUS
<1> HIDE DEF f
<1>6. StackOK(stack') /\ stack' # <<>> /\ stack'[Len(stack')] = g
  BY <1>5, <1>a, GotoOf DEF Safe, f
<1>7. Top' = g
  BY <1>6 DEF Top
<1>8. g.cur # Nil => Live(g.cur)'
  <2>1. g.cur = Nil \/ (Live(g.cur) /\ g.cur # r)
    BY <1>2, <1>3, <1>5, <1>a
  <2> QED BY <2>1, <1>4
<1>9. WalkLive'
  BY <1>7, <1>8 DEF WalkLive
<1>10. StackOK(stack)'
  BY <1>6 DEF StackOK
<1> QED BY <1>4, <1>9, <1>10 DEF Safe, KernelType, FlagType, kernel, flags, traps

(* One step of job_clean or job_discard keeps Safe.                        *)
LEMMA CleanSafe ==
  ASSUME Safe, job_clean \/ job_discard
  PROVE  Safe'
<1>1. stack # <<>> /\ Top.pc \in {"clean", "discard"} /\ Top.cur # Nil
  BY DEF job_clean, job_discard, At
<1>2. /\ job_free(Top.cur) \/ UNCHANGED table
      /\ stack' = Goto([Top EXCEPT !.cur = After(Top.cur)])
      /\ UNCHANGED <<kernel, mask, flags, traps>>
  BY DEF job_clean, job_discard, Step
<1> QED BY <1>1, <1>2, WalkStep

(* The end of a walk keeps Safe.                                           *)
LEMMA WalkEndSafe ==
  ASSUME Safe, job_clean_end \/ job_discard_end
  PROVE  Safe'
<1>1. stack # <<>> /\ stack' = Pop(stack) /\ FrameOK(Top)
  BY TopOf DEF job_clean_end, job_discard_end, At, Return, Safe
<1>2. StackOK(stack)' /\ WalkLive'
  BY <1>1, ReturnTop DEF Safe
<1>3. TableOK'
  BY SameTable DEF job_clean_end, job_discard_end, Safe
<1>4. KernelType'
  BY DEF job_clean_end, job_discard_end, Safe, KernelType, kernel
<1>5. FlagType'
  <2>1. Top.new \in Pids \cup {Nil}
    BY <1>1 DEF FrameOK, Frames
  <2>2. CASE job_clean_end
    BY <2>2 DEF job_clean_end, Safe, FlagType, traps
  <2>3. CASE job_discard_end
    BY <2>1, <2>3 DEF job_discard_end, Safe, FlagType, traps
  <2> QED BY <2>2, <2>3
<1> QED BY <1>2, <1>3, <1>4, <1>5 DEF Safe

(* Making a listed job current and setting its stopped members running.    *)
LEMMA ResumeTable ==
  ASSUME Safe, NEW r, r \in Refs, Live(r), NEW b \in BOOLEAN, ResumeAs(r, b)
  PROVE  TableOK' /\ kid' \in [Pids -> [st : KidStates, code : Codes, note : BOOLEAN, bg : BOOLEAN]]
           /\ job_list' = job_list
<1> DEFINE k == Pos(job_list, r)
           j == heap[r]
           t == [i \in DOMAIN j.stat |-> IF j.stat[i] = STOP THEN RUN ELSE j.stat[i]]
           j2 == [j EXCEPT !.bgnd = b, !.stat = t]
<1>1. heap \in [Refs -> Jobs] /\ j \in Jobs /\ job_list \in Seq(Refs)
  BY DEF Safe, TableOK, TableType
<1>2. k \in 1..Len(job_list) /\ job_list[k] = r
  BY PosOf
<1>3. job_list' = job_list /\ job_pointer' = Slot(job_list, k) /\ UNCHANGED <<job_finished, job_finished_n>>
  BY DEF ResumeAs
<1>4. heap' = [heap EXCEPT ![r] = j2]
  BY <1>1 DEF ResumeAs, Jobs
<1>5. j2 \in Jobs /\ j2.id = j.id
  <2>1. j.n \in Nat /\ DOMAIN j.stat = 1..j.n /\ \A i \in 1..j.n : j.stat[i] \in Statuses
    BY <1>1 DEF Jobs
  <2>2. t \in Seq(Statuses) /\ Len(t) = j.n
    BY <2>1 DEF Statuses
  <2> HIDE DEF t
  <2> QED BY <1>1, <2>2 DEF Jobs
<1> HIDE DEF k, j2
<1>6. heap' \in [Refs -> Jobs] /\ \A x \in Refs : heap'[x].id = heap[x].id
  BY <1>1, <1>4, <1>5
<1>7. \A i \in 1..Len(job_list) : job_list[i] \in Refs
  BY <1>1
<1>8. job_pointer' \in Refs \cup {Head0} /\ job_pointer' # NoSlot
  BY <1>2, <1>3, <1>7, JobConstants DEF Slot, Head0, NoSlot
<1>9. TableType'
  BY <1>3, <1>6, <1>8 DEF Safe, TableOK, TableType
<1>10. ListDistinct' /\ IdGaps'
  BY <1>3, <1>6, <1>7 DEF Safe, TableOK, TableInv, ListDistinct, IdGaps
<1>11. CurrentValid'
  <2>1. job_list # <<>>
    BY <1>1, <1>2
  <2> QED BY <2>1, <1>2, <1>3, <1>8 DEF CurrentValid, Slot
<1>12. kid' \in [Pids -> [st : KidStates, code : Codes, note : BOOLEAN, bg : BOOLEAN]]
  <2>1. \A S : Continued(S) \in [Pids -> [st : KidStates, code : Codes, note : BOOLEAN, bg : BOOLEAN]]
    BY DEF Continued, Safe, KernelType, KidStates
  <2> QED BY <2>1 DEF ResumeAs, Safe, KernelType
<1> QED BY <1>3, <1>9, <1>10, <1>11, <1>12 DEF TableOK, TableInv

(* What fg and bg work on is a linked job.                                 *)
LEMMA ResolvedLive ==
  ASSUME Safe, NEW r \in Resolved \ {Nil}
  PROVE  r \in Refs /\ Live(r)
<1>1. CASE r = jobs_resolve
  BY <1>1, ResolveLive DEF Safe
<1>2. CASE \E sp \in Specs : r = job_find(sp)
  <2>1. PICK sp \in Specs : r = job_find(sp)
    BY <1>2
  <2>2. sp.by \in {"%%", "%-", "%n", "pid"}
    BY SpecsType DEF Safe, TableOK
  <2> QED BY <2>1, <2>2, FindLive DEF Safe
<1> QED BY <1>1, <1>2 DEF Resolved

(* fg and bg keep Safe.                                                    *)
LEMMA FgBgSafe ==
  ASSUME Safe, builtin_fg \/ builtin_bg
  PROVE  Safe'
<1>1. CASE builtin_fg
  <2>1. PICK r \in Resolved \ {Nil} : ResumeAs(r, FALSE) /\ stack' = Append(stack, JobWait(Call("fg", "top"), r, 0))
    BY <1>1 DEF builtin_fg, Push
  <2>2. r \in Refs /\ Live(r)
    BY <2>1, ResolvedLive
  <2>3. Call("fg", "top") \in Frames /\ Call("fg", "top").k = "fg"
    BY CallFrame DEF Calls, Pcs, WaitPcs, FrameOK
  <2>4. 0 \in Statuses \cup {Hangup}
    BY JobConstants DEF Statuses
  <2>5. FrameOK(JobWait(Call("fg", "top"), r, 0)) /\ JobWait(Call("fg", "top"), r, 0).pc = "top"
    BY <2>2, <2>3, <2>4, JobWaitFrame DEF Safe
  <2>6. StackOK(stack)' /\ WalkLive'
    BY <2>1, <2>5, <1>1, CmdRests, CallTop DEF builtin_fg, Safe
  <2>7. TableOK' /\ KernelType'
    BY <2>1, <2>2, <1>1, ResumeTable DEF builtin_fg, Safe, KernelType
  <2> QED BY <2>6, <2>7, <1>1 DEF builtin_fg, Safe, FlagType, flags, traps
<1>2. CASE builtin_bg
  <2>1. PICK r \in Resolved \ {Nil} : ResumeAs(r, TRUE)
    BY <1>2 DEF builtin_bg
  <2>2. r \in Refs /\ Live(r)
    BY <2>1, ResolvedLive
  <2>3. TableOK' /\ KernelType' /\ job_list' = job_list
    BY <2>1, <2>2, <1>2, ResumeTable DEF builtin_bg, Safe, KernelType
  <2>4. StackOK(stack)' /\ WalkLive'
    BY <2>3, <1>2, SameStack DEF builtin_bg, Safe
  <2> QED BY <2>3, <2>4, <1>2 DEF builtin_bg, Safe, FlagType, flags, traps
<1> QED BY <1>1, <1>2

(* Entering "( )" or "$( )" keeps Safe.                                    *)
LEMMA SubshellSafe ==
  ASSUME Safe, NEW k \in {"sub", "cmdsub"}, eval_subshell(k)
  PROVE  Safe'
<1> DEFINE f == [Call(k, "body") EXCEPT !.new = job_bgpid]
<1>1. Call(k, "body") \in Frames /\ Call(k, "body").k = k /\ Call(k, "body").pc = "body"
  BY CallFrame DEF Calls, Pcs, FrameOK
<1>2. FrameOK(f) /\ f.pc = "body"
  BY <1>1 DEF FrameOK, Frames, Safe, FlagType
<1>3. stack' = Append(stack, f) /\ sh_subshell' = sh_subshell + 1
  BY DEF eval_subshell, Push
<1>4. StackOK(stack)' /\ WalkLive'
  BY <1>2, <1>3, CmdRests, CallTop DEF eval_subshell, Safe
<1>5. sh_subshell' \in Int
  BY <1>3 DEF Safe, FlagType
<1>6. TableOK'
  BY SameTable DEF eval_subshell, Safe
<1> QED BY <1>4, <1>5, <1>6 DEF eval_subshell, Safe, KernelType, FlagType, kernel, traps

(* The end of a command body keeps Safe.                                   *)
LEMMA BodyEndSafe ==
  ASSUME Safe, body_end
  PROVE  Safe'
<1>1. stack # <<>> /\ Top.pc = "body" /\ FrameOK(Top)
  BY TopOf DEF body_end, At, Safe
<1>2. Top \in Frames /\ Top.j \in Refs \cup {Nil} /\ RUN \in Statuses \cup {Hangup} /\ (Top.k = "waitops" => Top.todo # <<>>)
  BY <1>1 DEF FrameOK, Frames, Statuses
<1>3. UNCHANGED <<kernel, mask, table, job_signaled, job_bgpid, traps>>
  BY DEF body_end
<1>4. CASE Top.k = "trap"
  <2>1. stack' = Pop(stack) /\ UNCHANGED sh_subshell
    BY <1>4 DEF body_end, Return
  <2>2. StackOK(stack)' /\ WalkLive'
    BY <2>1, <1>1, ReturnTop DEF Safe
  <2> QED BY <2>1, <2>2, <1>3, OnlyStack DEF flags
<1>5. CASE Top.k = "pipe"
  <2>1. stack' = Goto(JobWait(Top, Top.j, RUN)) /\ UNCHANGED sh_subshell
    BY <1>5 DEF body_end, Step
  <2>2. FrameOK(JobWait(Top, Top.j, RUN)) /\ JobWait(Top, Top.j, RUN).pc = "top"
    BY <1>2, JobWaitFrame DEF Safe
  <2>3. StackOK(stack)' /\ WalkLive'
    BY <2>1, <2>2, <1>1, MoveTop DEF Safe
  <2> QED BY <2>1, <2>3, <1>3, OnlyStack DEF flags
<1>6. CASE Top.k # "trap" /\ Top.k # "pipe"
  <2> DEFINE f == [Top EXCEPT !.pc = "discard", !.cur = First]
  <2>1. stack' = Goto(f) /\ sh_subshell' = sh_subshell - 1
    BY <1>6 DEF body_end, Step
  <2>2. First = Nil \/ (First \in Refs /\ Live(First))
    BY FirstLive DEF Safe, TableOK
  <2>3. "discard" \in Pcs
    BY DEF Pcs
  <2>4. f \in Frames /\ f.cur = First /\ f.k = Top.k /\ f.todo = Top.todo
    BY <1>2, <2>2, <2>3 DEF Frames
  <2>5. FrameOK(f)
    BY <1>2, <2>4 DEF FrameOK
  <2>6. PICK g : g = f
    OBVIOUS
  <2> HIDE DEF f
  <2>7. StackOK(stack') /\ stack' # <<>> /\ stack'[Len(stack')] = g
    BY <1>1, <2>1, <2>5, <2>6, GotoOf DEF Safe
  <2>8. Top' = g
    BY <2>7 DEF Top
  <2>9. g.cur # Nil => Live(g.cur)'
    <3>1. g.cur # Nil => Live(g.cur)
      BY <2>2, <2>4, <2>6
    <3> QED BY <3>1, <1>3 DEF Live, table
  <2>10. WalkLive' /\ StackOK(stack)'
    BY <2>7, <2>8, <2>9 DEF WalkLive, StackOK
  <2>11. sh_subshell' \in Int
    BY <2>1 DEF Safe, FlagType
  <2> QED BY <2>10, <2>11, <1>3, SameTable DEF Safe, KernelType, FlagType, kernel, traps
<1> QED BY <1>4, <1>5, <1>6

(* Dispatching traps before a command keeps Safe.                          *)
LEMMA RunPendingSafe ==
  ASSUME Safe, trap_run_pending
  PROVE  Safe'
<1>1. stack = <<>> \/ stack[Len(stack)].pc \in Resting
  BY DEF trap_run_pending, At, Top, Resting
<1> QED BY <1>1, RunTrapSafe DEF trap_run_pending, Safe

-----------------------------------------------------------------------------
(* The theorems *)

(* Safe is TableSafe in the grouping the lemmas use.                       *)
LEMMA SafeParts == TableSafe <=> Safe
BY DEF TableSafe, Safe, TypeOK, StackType, TableOK, StackOK

(* The shell starts with an empty, well-formed table.                      *)
LEMMA InitSafe == Init => Safe
<1> SUFFICES ASSUME Init PROVE Safe
  OBVIOUS
<1> USE JobConstants DEF Init
<1>1. KernelType
  BY DEF KernelType, KidStates, NoKid
<1>2. TableType
  <2>1. NoJob \in Jobs
    BY DEF NoJob, Jobs
  <2>2. 0 \in Statuses
    BY DEF Statuses
  <2>3. job_finished_n \in 0..(RingSize - 1)
    OBVIOUS
  <2> QED BY <2>1, <2>2, <2>3 DEF TableType
<1>3. TableInv
  BY DEF TableInv, ListDistinct, IdGaps, CurrentValid
<1>4. FlagType
  <2>1. job_bgpid \in Pids \cup {Nil} /\ sh_subshell \in Int /\ trap_run_count \in Nat
    OBVIOUS
  <2>2. job_signaled = FALSE /\ trap_signaled = FALSE /\ job_wait_interruptible = FALSE /\ job_wait_sig = FALSE
    OBVIOUS
  <2> QED BY ONLY <2>1, <2>2 DEF FlagType
<1>5. StackOK(stack) /\ WalkLive
  BY DEF StackOK, StackShape, WalkLive
<1> QED BY <1>1, <1>2, <1>3, <1>4, <1>5 DEF Safe, TableOK

(* Every step of the shell, the kernel and the handlers keeps Safe.        *)
LEMMA StepSafe == Safe /\ [Next]_vars => Safe'
<1> SUFFICES ASSUME Safe, [Next]_vars PROVE Safe'
  OBVIOUS
<1>1. CASE Script
  <2>1. CASE eval_node_bgnd
    BY <2>1, BgndSafe
  <2>2. CASE \E n \in 0..MaxProcs, last, pipefail \in BOOLEAN : eval_pipeline(n, last, pipefail)
    BY <2>2, PipelineSafe
  <2>3. CASE \E bgnd \in BOOLEAN : exec_program(bgnd) \/ exec_program_fails(bgnd)
    BY <2>3, ExecSafe, ExecFailsSafe
  <2>4. CASE wait_all \/ \E specs \in SpecSeqs : wait_operands(specs)
    BY <2>4, WaitAllSafe, WaitOperandsSafe
  <2>5. CASE builtin_jobs \/ job_update
    BY <2>5, ListCommandsSafe
  <2>6. CASE builtin_fg \/ builtin_bg
    BY <2>6, FgBgSafe
  <2>7. CASE \E k \in {"sub", "cmdsub"} : eval_subshell(k)
    BY <2>7, SubshellSafe
  <2> QED BY <1>1, <2>1, <2>2, <2>3, <2>4, <2>5, <2>6, <2>7 DEF Script
<1>2. CASE Shell
  <2>1. CASE job_fork \/ job_fork_parent \/ job_fork_fails \/ exec_program_parent
    BY <2>1, ForkSafe, ForkParentSafe, ForkFailsSafe, ExecParentSafe
  <2>2. CASE job_resume_stopped \/ fdstack_data_eof
    BY <2>2, ResumeStoppedSafe, EofSafe
  <2>3. CASE job_wait_traps \/ job_wait_check \/ job_wait_scan
    BY <2>3, WaitTrapsSafe, WaitCheckSafe, WaitScanSafe
  <2>4. CASE waitpid_reap \/ waitpid_none \/ waitpid_block
    BY <2>4, ReapSafe, NoneBlockSafe
  <2>5. CASE job_wait_spin \/ job_wait_finish \/ job_wait_dangling
    BY <2>5, SpinSafe, WaitFinishSafe, DanglingSafe
  <2>6. CASE eval_pipeline_return \/ exec_program_return \/ fg_return
    BY <2>6, ReturnsSafe
  <2>7. CASE wait_next \/ wait_return
    BY <2>7, WaitNextSafe, WaitReturnSafe
  <2>8. CASE job_clean \/ job_discard \/ job_clean_end \/ job_discard_end
    BY <2>8, CleanSafe, WalkEndSafe
  <2>9. CASE body_end \/ trap_run_pending
    BY <2>9, BodyEndSafe, RunPendingSafe
  <2> QED BY <1>2, <2>1, <2>2, <2>3, <2>4, <2>5, <2>6, <2>7, <2>8, <2>9 DEF Shell
<1>3. CASE Kernel
  <2>1. CASE \E p \in Pids : (\E c \in Codes : ChildExit(p, c)) \/ ChildStop(p) \/ ChildCont(p)
    BY <2>1, ChildSafe
  <2>2. CASE sh_onsig \/ trap_relay
    BY <2>2, OnsigSafe, RelaySafe
  <2> QED BY <1>3, <2>1, <2>2 DEF Kernel
<1>4. CASE UNCHANGED vars
  <2>1. UNCHANGED <<kernel, mask, table, flags, traps, stack>>
    BY <1>4 DEF vars
  <2>2. StackOK(stack)' /\ WalkLive'
    BY <2>1, SameStack DEF Safe, table
  <2> QED BY <2>1, <2>2, OnlyStack
<1> QED BY <1>1, <1>2, <1>3, <1>4 DEF Next

(* The job table is well-formed in every reachable state, for every number *)
(* of processes, jobs, ring entries, pipeline members, nested calls,       *)
(* signals and operands, with and without job control: the list the job_*  *)
(* functions maintain never links an address twice and stays ordered, the  *)
(* current-job slot always is a slot of it, and the walks of job_clean and *)
(* job_discard never hold a freed job.                                     *)
THEOREM TableSafety == Spec => []TableSafe
<1>1. Init => TableSafe
  BY InitSafe, SafeParts
<1>2. TableSafe /\ [Next]_vars => TableSafe'
  <2>1. TableSafe' <=> Safe'
    BY DEF TableSafe, Safe, TypeOK, StackType, TableOK, StackOK
  <2> QED BY <2>1, SafeParts, StepSafe
<1> QED BY <1>1, <1>2, PTL DEF Spec

(* Every variable of the shell and of the kernel keeps its type.           *)
THEOREM TypeCorrect == Spec => []TypeOK
<1>1. TableSafe => TypeOK
  BY DEF TableSafe
<1> QED BY <1>1, TableSafety, PTL

(* Job numbers ascend strictly along the list, so job_new's walk finds the *)
(* lowest free number and "%n" names at most one job.                      *)
THEOREM NumbersAscend == Spec => []ListOrdered
<1>1. TableSafe => ListOrdered
  <2> SUFFICES ASSUME TableSafe, NEW a \in 1..Len(job_list), NEW b \in 1..Len(job_list), a < b
               PROVE  heap[job_list[a]].id < heap[job_list[b]].id
    BY DEF ListOrdered
  <2>1. heap[job_list[b]].id - heap[job_list[a]].id >= b - a
    BY DEF TableSafe, TableInv, IdGaps
  <2>2. heap \in [Refs -> Jobs] /\ job_list \in Seq(Refs)
    BY DEF TableSafe, TypeOK, TableType
  <2>3. job_list[a] \in Refs /\ job_list[b] \in Refs /\ Len(job_list) \in Nat
    BY <2>2
  <2>4. heap[job_list[a]] \in Jobs /\ heap[job_list[b]] \in Jobs
    BY <2>2, <2>3
  <2>5. heap[job_list[a]].id \in Nat /\ heap[job_list[b]].id \in Nat
    BY <2>4 DEF Jobs
  <2>6. a \in Int /\ b \in Int
    BY <2>3
  <2> QED BY <2>1, <2>5, <2>6
<1> QED BY <1>1, TableSafety, PTL

(* The slot job_pointer, which "%%", fg, bg and job_delete dereference,    *)
(* never dangles: it is NULL exactly when there is no job, and otherwise a *)
(* slot of the list that holds a job.                                      *)
THEOREM SlotNeverDangles == Spec => []CurrentValid
<1>1. TableSafe => CurrentValid
  BY DEF TableSafe, TableInv
<1> QED BY <1>1, TableSafety, PTL
=============================================================================
