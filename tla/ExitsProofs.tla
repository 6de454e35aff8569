---------------------------- MODULE ExitsProofs -----------------------------
(***************************************************************************)
(* No exit of a child is lost or invented (NoExitLost of JobControl), for  *)
(* every number of processes, jobs, pipeline members, nested calls and     *)
(* signals.  Two things are assumed of the constants, because the code     *)
(* fails without them: the kernel does not hand out a process id again,    *)
(* and, under job control, no external program is started inside a command *)
(* substitution, whose drain would reap it before it is registered.        *)
(***************************************************************************)
EXTENDS JobControlProofs

Commands == RootCmds \cup BodyCmds
Programs == {"prog", "progbg"}
NoDrainedFork == Monitor => "cmdsub" \notin Commands \/ Programs \cap Commands = {}

-----------------------------------------------------------------------------
(* The inductive invariant *)

(* What a job records of a member is true of the child.                    *)
Told(r, i) ==
  LET p == heap[r].pid[i] IN p # Nil =>
    /\ heap[r].stat[i] \in {RUN, STOP} => Exists(p)
    /\ heap[r].stat[i] \in Codes => kid[p].st = "reaped" /\ kid[p].code = heap[r].stat[i]
Held == \A r \in Refs : Live(r) => \A i \in 1..heap[r].n : Told(r, i)
(* A process is a member of one job, once: job_signal tells the right one. *)
Once ==
  \A r, s \in Refs : Live(r) /\ Live(s) =>
    \A i \in 1..heap[r].n, m \in 1..heap[s].n :
      heap[r].pid[i] # Nil /\ heap[r].pid[i] = heap[s].pid[m] => r = s /\ i = m
(* Between fork() and its registration a child is nobody's, and SIGCHLD is *)
(* blocked, so that nobody can reap it.                                    *)
Unlisted(p) == \A r \in Refs : Live(r) => \A i \in 1..heap[r].n : heap[r].pid[i] # p
Fresh(p) == p \in Pids /\ Exists(p) /\ Unlisted(p)
ForkOK == stack # <<>> /\ Top.pc = "forked" => mask /\ Fresh(Top.new)
(* A launcher's job is listed and has a free slot per member still to come. *)
Room(r, left) ==
  /\ Live(r) /\ r \in Refs /\ left \in 1..heap[r].n
  /\ \A i \in 1..heap[r].n : i > heap[r].n - left => heap[r].pid[i] = Nil
RoomOK == stack # <<>> /\ Top.pc \in {"fork", "forked"} /\ Top.k \in {"bg", "pipe"} => Room(Top.j, Top.left)
(* Only commands of the script are running.                                *)
Scripted(k) == /\ k = "cmdsub" => "cmdsub" \in Commands
               /\ k = "prog" => Programs \cap Commands # {}
Kinds(s) == \A i \in 1..Len(s) : Scripted(s[i].k)

Exits == Held /\ Once /\ ForkOK /\ RoomOK /\ Kinds(stack)

-----------------------------------------------------------------------------
(* Jobs and children *)

(* A member is a process or not filled in yet, with a status.              *)
LEMMA MemberType ==
  ASSUME TableType, NEW r \in Refs, NEW i \in 1..heap[r].n
  PROVE  heap[r].pid[i] \in Pids \cup {Nil} /\ heap[r].stat[i] \in Statuses
<1>1. heap[r] \in Jobs
  BY DEF TableType
<1> QED BY <1>1 DEF Jobs

(* The number of members is a number.                                      *)
LEMMA SizeType ==
  ASSUME TableType, NEW r \in Refs
  PROVE  heap[r].n \in Nat /\ heap[r] \in Jobs
<1>1. heap[r] \in Jobs
  BY DEF TableType
<1> QED BY <1>1 DEF Jobs

(* What is on the list is an address.                                      *)
LEMMA LiveRef ==
  ASSUME TableType, NEW r, Live(r)
  PROVE  r \in Refs
BY DEF TableType, Live

(* No status is both an exit code and a mark of a process that has not     *)
(* ended.                                                                  *)
LEMMA CodesApart == RUN \notin Codes /\ STOP \notin Codes
BY JobConstants DEF RUN, STOP

(* Steps that reap nobody: a child stays, one that was reaped stays so.    *)
KidKept ==
  \A p \in Pids : /\ Exists(p) => Exists(p)'
                  /\ kid[p].st = "reaped" => kid'[p].st = "reaped" /\ kid'[p].code = kid[p].code
(* Steps that record no exit: jobs may go, members may be resumed.         *)
Unended(s) == s \in {RUN, STOP}
JobKept(r) ==
  /\ heap'[r].n = heap[r].n /\ heap'[r].pid = heap[r].pid
  /\ \A i \in 1..heap[r].n : heap'[r].stat[i] = heap[r].stat[i] \/ (Unended(heap'[r].stat[i]) /\ Unended(heap[r].stat[i]))
TableKept == \A r \in Refs : Live(r)' => Live(r) /\ JobKept(r)

(* Such steps keep every record true.                                      *)
LEMMA KeptHeld ==
  ASSUME TableType, Held, Once, KidKept, TableKept
  PROVE  Held' /\ Once'
<1>1. Held'
  <2> SUFFICES ASSUME NEW r \in Refs, Live(r)', NEW i \in 1..heap'[r].n PROVE Told(r, i)'
    BY DEF Held
  <2>1. Live(r) /\ JobKept(r) /\ i \in 1..heap[r].n
    BY DEF TableKept, JobKept
  <2>2. Told(r, i) /\ heap[r].pid[i] \in Pids \cup {Nil} /\ heap[r].stat[i] \in Statuses
    BY <2>1, MemberType DEF Held
  <2>3. heap'[r].pid[i] = heap[r].pid[i]
    BY <2>1 DEF JobKept
  <2>4. heap'[r].stat[i] = heap[r].stat[i] \/ (heap'[r].stat[i] \in {RUN, STOP} /\ heap[r].stat[i] \in {RUN, STOP})
    BY <2>1 DEF JobKept, Unended
  <2>0. PICK p \in Pids \cup {Nil} : p = heap[r].pid[i]
    BY <2>2
  <2>5. CASE p = Nil
    BY <2>0, <2>3, <2>5 DEF Told
  <2>6. CASE p # Nil
    <3>1. p \in Pids
      BY <2>2, <2>6
    <3>2. /\ Exists(p) => Exists(p)'
          /\ kid[p].st = "reaped" => kid'[p].st = "reaped" /\ kid'[p].code = kid[p].code
      BY <3>1 DEF KidKept
    <3>3. /\ heap[r].stat[i] \in {RUN, STOP} => Exists(p)
          /\ heap[r].stat[i] \in Codes => kid[p].st = "reaped" /\ kid[p].code = heap[r].stat[i]
      BY <2>0, <2>2, <2>6 DEF Told
    <3>4. heap'[r].pid[i] = p
      BY <2>0, <2>3
    <3>5. heap'[r].stat[i] \in {RUN, STOP} => Exists(p)'
      BY <2>4, <3>2, <3>3
    <3>6. heap'[r].stat[i] \in Codes => kid'[p].st = "reaped" /\ kid'[p].code = heap'[r].stat[i]
      BY <2>4, <3>2, <3>3, CodesApart
    <3> QED BY <3>4, <3>5, <3>6 DEF Told, Exists
  <2> QED BY <2>5, <2>6
<1>2. Once'
  <2> SUFFICES ASSUME NEW r \in Refs, NEW s \in Refs, Live(r)', Live(s)',
                      NEW i \in 1..heap'[r].n, NEW m \in 1..heap'[s].n,
                      heap'[r].pid[i] # Nil, heap'[r].pid[i] = heap'[s].pid[m]
               PROVE  r = s /\ i = m
    BY DEF Once
  <2>1. Live(r) /\ Live(s) /\ JobKept(r) /\ JobKept(s)
    BY DEF TableKept
  <2> QED BY <2>1 DEF Once, JobKept
<1> QED BY <1>1, <1>2

(* Nor do they register a child.                                           *)
LEMMA KeptFresh ==
  ASSUME KidKept, TableKept, NEW p, Fresh(p)
  PROVE  Fresh(p)'
<1>1. p \in Pids /\ Exists(p)'
  BY DEF Fresh, KidKept
<1>2. Unlisted(p)'
  <2> SUFFICES ASSUME NEW r \in Refs, Live(r)', NEW i \in 1..heap'[r].n PROVE heap'[r].pid[i] # p
    BY DEF Unlisted
  <2> QED BY DEF TableKept, JobKept, Fresh, Unlisted
<1> QED BY <1>1, <1>2 DEF Fresh

(* An untouched table, and one a job has been taken off, are such steps.   *)
LEMMA SameTableKept ==
  ASSUME heap' = heap, job_list' = job_list
  PROVE  TableKept
BY DEF TableKept, JobKept, Live

LEMMA FreeKept ==
  ASSUME TableOK, NEW r, job_free(r)
  PROVE  TableKept
<1>1. \A x : Live(x)' <=> (Live(x) /\ x # r)
  BY JobFreeTable
<1>2. CASE Live(r)
  <2>1. heap' = [heap EXCEPT ![r] = NoJob]
    BY <1>2 DEF job_free, job_delete
  <2>2. \A x \in Refs : x # r => heap'[x] = heap[x]
    BY <2>1 DEF TableOK, TableType
  <2> QED BY <1>1, <2>2 DEF TableKept, JobKept
<1>3. CASE ~Live(r)
  BY <1>3, SameTableKept DEF job_free, table
<1> QED BY <1>2, <1>3

(* job_signal records the status with the member it is about, if the       *)
(* process is a member of any job, and nowhere else.                       *)
SameMembers == job_list' = job_list /\ \A r \in Refs : heap'[r].n = heap[r].n /\ heap'[r].pid = heap[r].pid
LEMMA SignalRecords ==
  ASSUME TableOK, Once, NEW p \in Pids, NEW s \in Statuses, job_signal(p, s)
  PROVE  /\ SameMembers
         /\ \A r \in Refs : Live(r) => \A i \in 1..heap[r].n :
              heap'[r].stat[i] = IF heap[r].pid[i] = p THEN s ELSE heap[r].stat[i]
<1>0. TableType /\ heap \in [Refs -> Jobs] /\ job_list \in Seq(Refs) /\ p # Nil
  BY JobConstants DEF TableOK, TableType
<1>1. \A r \in Refs : Live(r) => \A i \in 1..heap[r].n : heap[r].pid[i] = p => Owners(p) # {}
  BY DEF Owners, Live
<1>2. CASE Owners(p) = {}
  <2>1. UNCHANGED table
    BY <1>2 DEF job_signal, job_bypid
  <2> QED BY <1>1, <1>2, <2>1 DEF table, SameMembers
<1>3. CASE Owners(p) # {}
  <2>0. Owners(p) \in SUBSET Nat
    BY DEF Owners
  <2> DEFINE k == Least(Owners(p))
             o == job_list[k]
  <2>1. k \in Owners(p)
    BY <2>0, <1>3, LeastOf
  <2>2. k \in 1..Len(job_list) /\ \E i \in 1..heap[o].n : heap[o].pid[i] = p
    BY <2>1, Zenon DEF Owners
  <2>3. job_bypid(p) = o
    BY <1>3 DEF job_bypid
  <2> HIDE DEF k
  <2>4. o \in Refs /\ Live(o)
    BY <1>0, <2>2 DEF Live
  <2> HIDE DEF o
  <2>5. o # Nil
    BY <2>4, JobConstants
  <2> DEFINE m == Member(o, p)
  <2>6. m \in 1..heap[o].n /\ heap[o].pid[m] = p
    <3> DEFINE S == {i \in 1..heap[o].n : heap[o].pid[i] = p}
    <3>1. S \in SUBSET Nat /\ S # {}
      BY <2>2, <2>4, SizeType, <1>0
    <3> HIDE DEF S
    <3>2. Least(S) \in S
      BY <3>1, LeastOf
    <3>3. m = Least(S)
      BY DEF Member, S
    <3> QED BY <3>2, <3>3 DEF S
  <2> HIDE DEF m
  <2>7. heap' = [heap EXCEPT ![o].stat[m] = s] /\ job_list' = job_list
    BY <2>3, <2>5 DEF job_signal, m
  <2>8. \A r \in Refs : r # o => heap'[r] = heap[r]
    BY <1>0, <2>7
  <2>9. heap[o] \in Jobs /\ heap'[o] = [heap[o] EXCEPT !.stat = [heap[o].stat EXCEPT ![m] = s]]
    BY <1>0, <2>4, <2>7
  <2>10. /\ heap'[o].n = heap[o].n /\ heap'[o].pid = heap[o].pid
         /\ heap'[o].stat = [heap[o].stat EXCEPT ![m] = s]
         /\ heap[o].stat \in Seq(Statuses) /\ Len(heap[o].stat) = heap[o].n
    BY <2>9 DEF Jobs
  <2>11. SameMembers
    BY <2>7, <2>8, <2>10 DEF SameMembers
  <2>12. ASSUME NEW r \in Refs, Live(r), NEW i \in 1..heap[r].n
         PROVE  heap'[r].stat[i] = IF heap[r].pid[i] = p THEN s ELSE heap[r].stat[i]
    <3>1. CASE heap[r].pid[i] = p
      <4>1. r = o /\ i = m
        BY <3>1, <2>4, <2>6, <2>12, <1>0 DEF Once
      <4>2. heap'[o].stat[m] = s
        BY <2>6, <2>10
      <4> QED BY <3>1, <4>1, <4>2
    <3>2. CASE heap[r].pid[i] # p /\ r = o
      <4>1. i # m
        BY <3>2, <2>6
      <4> QED BY <4>1, <3>2, <2>10, <2>12
    <3>3. CASE heap[r].pid[i] # p /\ r # o
      BY <3>3, <2>8
    <3> QED BY <3>1, <3>2, <3>3
  <2> QED BY <2>11, <2>12
<1> QED BY <1>2, <1>3

(* What waitpid() does to the child it reports.                            *)
Collected(p) ==
  /\ \A q \in Pids : q # p => kid'[q] = kid[q]
  /\ StatusOf(p) = STOP => Exists(p)'
  /\ StatusOf(p) # STOP => kid'[p].st = "reaped" /\ kid'[p].code = StatusOf(p)
LEMMA Collects ==
  ASSUME KernelType, NEW p \in Pids, Reapable(p),
         kid' = Reaped(p) \/ kid' = IF kid[p].st = "zombie" THEN Reaped(p) ELSE Continued({p})
  PROVE  Collected(p) /\ StatusOf(p) \in Codes \cup {STOP}
<1> DEFINE R == [st : KidStates, code : Codes, note : BOOLEAN, bg : BOOLEAN]
<1>1. kid \in [Pids -> R] /\ kid[p] \in R
  BY DEF KernelType
<1>2. CASE kid[p].st = "zombie"
  <2>1. kid' = [kid EXCEPT ![p] = [kid[p] EXCEPT !.st = "reaped"]]
    BY <1>2 DEF Reaped
  <2>2. kid'[p].st = "reaped" /\ kid'[p].code = kid[p].code
    BY <1>1, <2>1
  <2>3. StatusOf(p) = kid[p].code /\ kid[p].code \in Codes
    BY <1>1, <1>2 DEF StatusOf
  <2>4. \A q \in Pids : q # p => kid'[q] = kid[q]
    BY <1>1, <2>1
  <2> QED BY <2>2, <2>3, <2>4, CodesApart DEF Collected
<1>3. CASE kid[p].st # "zombie"
  <2>1. kid[p].st = "stop" /\ StatusOf(p) = STOP
    BY <1>3 DEF Reapable, StatusOf
  <2>2. /\ \A q \in Pids : q # p => kid'[q] = kid[q]
        /\ kid'[p].st \in {"run", "stop"}
    <3>1. CASE kid' = Reaped(p)
      <4>1. kid' = [kid EXCEPT ![p] = [kid[p] EXCEPT !.note = FALSE]]
        BY <3>1, <1>3 DEF Reaped
      <4> QED BY <1>1, <2>1, <4>1
    <3>2. CASE kid' = Continued({p})
      <4>1. \A q \in Pids : kid'[q] = IF q \in {p} /\ kid[q].st = "stop"
                                      THEN [kid[q] EXCEPT !.st = "run", !.note = FALSE] ELSE kid[q]
        BY <3>2 DEF Continued
      <4> QED BY <1>1, <2>1, <4>1
    <3> QED BY <1>3, <3>1, <3>2
  <2> QED BY <2>1, <2>2 DEF Collected, Exists
<1> QED BY <1>2, <1>3

(* Reaping and recording together keep every record true.                  *)
LEMMA SignalHeld ==
  ASSUME TableOK, Held, Once, NEW p \in Pids, Collected(p), StatusOf(p) \in Codes \cup {STOP},
         job_signal(p, StatusOf(p))
  PROVE  Held' /\ Once' /\ SameMembers
<1> DEFINE s == StatusOf(p)
<1>0. TableType /\ s \in Statuses
  BY DEF TableOK, Statuses
<1>1. /\ SameMembers
      /\ \A r \in Refs : Live(r) => \A i \in 1..heap[r].n :
           heap'[r].stat[i] = IF heap[r].pid[i] = p THEN s ELSE heap[r].stat[i]
  BY <1>0, SignalRecords
<1>2. \A r : Live(r)' <=> Live(r)
  BY <1>1 DEF SameMembers, Live
<1>3. Once'
  BY <1>1, <1>2 DEF Once, SameMembers
<1>4. Held'
  <2> SUFFICES ASSUME NEW r \in Refs, Live(r)', NEW i \in 1..heap'[r].n PROVE Told(r, i)'
    BY DEF Held
  <2>1. Live(r) /\ i \in 1..heap[r].n /\ heap'[r].pid[i] = heap[r].pid[i]
    BY <1>1, <1>2 DEF SameMembers
  <2>2. PICK q \in Pids \cup {Nil} : q = heap[r].pid[i]
    BY <2>1, <1>0, MemberType
  <2>3. Told(r, i)
    BY <2>1 DEF Held
  <2>4. PICK t : t = s
    OBVIOUS
  <2>5. CASE q = p
    <3>1. heap'[r].stat[i] = t /\ heap'[r].pid[i] = p
      BY <1>1, <2>1, <2>2, <2>4, <2>5
    <3>2. t \in Codes \cup {STOP}
      BY <2>4
    <3>3. t = STOP => Exists(p)'
      BY <2>4 DEF Collected
    <3>4. t # STOP => kid'[p].st = "reaped" /\ kid'[p].code = t
      BY <2>4 DEF Collected
    <3> QED BY <3>1, <3>2, <3>3, <3>4, CodesApart DEF Told, Exists
  <2>6. CASE q # p /\ q # Nil
    <3>1. heap'[r].stat[i] = heap[r].stat[i] /\ heap'[r].pid[i] = q
      BY <1>1, <2>1, <2>2, <2>6
    <3>2. kid'[q] = kid[q]
      BY <2>6 DEF Collected
    <3> QED BY <3>1, <3>2, <2>2, <2>3 DEF Told, Exists
  <2>7. CASE q = Nil
    BY <2>1, <2>2, <2>7 DEF Told
  <2> QED BY <2>5, <2>6, <2>7
<1> QED BY <1>1, <1>3, <1>4

(* job_new links its job and leaves the others alone.                      *)
Listed(r, n, p) ==
  /\ r \in Refs /\ ~Live(r)
  /\ \A x : Live(x)' <=> (Live(x) \/ x = r)
  /\ \A x \in Refs : x # r => heap'[x] = heap[x]
  /\ heap'[r].n = n /\ \A i \in 1..n : heap'[r].pid[i] = p /\ heap'[r].stat[i] = RUN
LEMMA NewListed ==
  ASSUME TableOK, NEW r, NEW n \in Nat, NEW b, NEW c, NEW p, job_new(r, n, b, c, p)
  PROVE  Listed(r, n, p)
<1>0. /\ heap \in [Refs -> Jobs] /\ job_list \in Seq(Refs) /\ Len(job_list) \in Nat
      /\ r \in Refs /\ ~Live(r)
  BY DEF TableOK, TableType, job_new
<1> DEFINE k == NewId
           L == InsertAt(job_list, k, r)
<1>1. k \in 1..(Len(job_list) + 1)
  BY NewIdOf
<1> HIDE DEF k, L
<1>2. /\ Len(L) = Len(job_list) + 1
      /\ \A i \in 1..(Len(job_list) + 1) : L[i] = IF i < k THEN job_list[i] ELSE IF i = k THEN r ELSE job_list[i - 1]
  <2>1. job_list \in Seq(Refs) /\ k \in 1..(Len(job_list) + 1) /\ r \in Refs
    BY <1>0, <1>1
  <2> QED BY ONLY <2>1 DEF InsertAt, L
<1>3. job_list' = L
  BY DEF job_new, L, k
<1>4. ASSUME NEW x, Live(x)' PROVE Live(x) \/ x = r
  <2>1. PICK i \in 1..Len(L) : L[i] = x
    BY <1>3, <1>4 DEF Live
  <2>2. CASE i < k
    BY <2>1, <2>2, <1>0, <1>1, <1>2 DEF Live
  <2>3. CASE i = k
    BY <2>1, <2>3, <1>0, <1>1, <1>2
  <2>4. CASE i > k
    <3>1. i - 1 \in 1..Len(job_list) /\ job_list[i - 1] = x
      BY <2>1, <2>4, <1>0, <1>1, <1>2
    <3> QED BY <3>1 DEF Live
  <2> QED BY <2>1, <2>2, <2>3, <2>4, <1>0, <1>1, <1>2
<1>5. ASSUME NEW x, Live(x) \/ x = r PROVE Live(x)'
  <2>1. CASE x = r
    <3>1. k \in 1..Len(L) /\ L[k] = r
      BY <1>0, <1>1, <1>2
    <3> QED BY <3>1, <2>1, <1>3 DEF Live
  <2>2. CASE Live(x)
    <3>1. PICK i \in 1..Len(job_list) : job_list[i] = x
      BY <2>2 DEF Live
    <3>2. CASE i < k
      <4>1. i \in 1..Len(L) /\ L[i] = x
        BY <3>1, <3>2, <1>0, <1>1, <1>2
      <4> QED BY <4>1, <1>3 DEF Live
    <3>3. CASE ~(i < k)
      <4>1. i + 1 \in 1..Len(L) /\ L[i + 1] = x
        BY <3>1, <3>3, <1>0, <1>1, <1>2
      <4> QED BY <4>1, <1>3 DEF Live
    <3> QED BY <3>2, <3>3
  <2> QED BY <1>5, <2>1, <2>2
<1>6. heap' = [heap EXCEPT ![r] = [id |-> NewId, n |-> n, level |-> sh_subshell, bgnd |-> b,
                 pipefail |-> c, pid |-> [i \in 1..n |-> p], stat |-> [i \in 1..n |-> RUN]]]
  BY DEF job_new
<1>7. \A x \in Refs : x # r => heap'[x] = heap[x]
  BY <1>0, <1>6
<1> DEFINE J == [id |-> NewId, n |-> n, level |-> sh_subshell, bgnd |-> b,
                 pipefail |-> c, pid |-> [i \in 1..n |-> p], stat |-> [i \in 1..n |-> RUN]]
<1>8. heap'[r].n = n /\ \A i \in 1..n : heap'[r].pid[i] = p /\ heap'[r].stat[i] = RUN
  <2>1. J.n = n /\ \A i \in 1..n : J.pid[i] = p /\ J.stat[i] = RUN
    OBVIOUS
  <2>2. heap' = [heap EXCEPT ![r] = J]
    BY <1>6
  <2> HIDE DEF J
  <2> QED BY <1>0, <2>1, <2>2
<1> QED BY <1>0, <1>4, <1>5, <1>7, <1>8 DEF Listed

(* A job with no process yet, or with one child that nobody else has.      *)
LEMMA NewHeld ==
  ASSUME TableOK, Held, Once, KidKept, NEW r, NEW n \in Nat, NEW b, NEW c, NEW p, job_new(r, n, b, c, p),
         p = Nil \/ (n = 1 /\ Fresh(p))
  PROVE  Held' /\ Once'
<1>1. /\ r \in Refs /\ ~Live(r)
      /\ \A x : Live(x)' <=> (Live(x) \/ x = r)
      /\ \A x \in Refs : x # r => heap'[x] = heap[x]
      /\ heap'[r].n = n /\ \A i \in 1..n : heap'[r].pid[i] = p /\ heap'[r].stat[i] = RUN
  BY NewListed DEF Listed
<1>2. ASSUME NEW x \in Refs, Live(x), NEW i \in 1..heap[x].n PROVE Told(x, i)' /\ heap'[x] = heap[x]
  <2>1. heap'[x] = heap[x]
    BY <1>1, <1>2
  <2>2. Told(x, i) /\ heap[x].pid[i] \in Pids \cup {Nil} /\ heap[x].stat[i] \in Statuses
    BY <1>2, MemberType DEF Held, TableOK
  <2>3. PICK q \in Pids \cup {Nil} : q = heap[x].pid[i]
    BY <2>2
  <2>4. CASE q = Nil
    BY <2>1, <2>3, <2>4 DEF Told
  <2>5. CASE q # Nil
    <3>1. /\ Exists(q) => Exists(q)'
          /\ kid[q].st = "reaped" => kid'[q].st = "reaped" /\ kid'[q].code = kid[q].code
      BY <2>5 DEF KidKept
    <3>2. /\ heap[x].stat[i] \in {RUN, STOP} => Exists(q)
          /\ heap[x].stat[i] \in Codes => kid[q].st = "reaped" /\ kid[q].code = heap[x].stat[i]
      BY <2>2, <2>3, <2>5 DEF Told
    <3>3. heap'[x].stat[i] \in {RUN, STOP} => Exists(q)'
      BY <2>1, <3>1, <3>2
    <3>4. heap'[x].stat[i] \in Codes => kid'[q].st = "reaped" /\ kid'[q].code = heap'[x].stat[i]
      BY <2>1, <3>1, <3>2
    <3>5. heap'[x].pid[i] = q
      BY <2>1, <2>3
    <3> QED BY <2>1, <3>3, <3>4, <3>5 DEF Told, Exists
  <2> QED BY <2>1, <2>4, <2>5
<1>3. ASSUME NEW i \in 1..n PROVE Told(r, i)'
  <2>1. heap'[r].pid[i] = p /\ heap'[r].stat[i] = RUN
    BY <1>1, <1>3
  <2>2. p # Nil => Exists(p)'
    BY DEF Fresh, KidKept
  <2> QED BY <2>1, <2>2, CodesApart DEF Told, Exists
<1>4. Held'
  <2> SUFFICES ASSUME NEW x \in Refs, Live(x)', NEW i \in 1..heap'[x].n PROVE Told(x, i)'
    BY DEF Held
  <2>1. CASE x = r
    BY <2>1, <1>1, <1>3
  <2>2. CASE x # r
    BY <2>2, <1>1, <1>2
  <2> QED BY <2>1, <2>2
<1>5. Once'
  <2> SUFFICES ASSUME NEW x \in Refs, NEW y \in Refs, Live(x)', Live(y)',
                      NEW i \in 1..heap'[x].n, NEW m \in 1..heap'[y].n,
                      heap'[x].pid[i] # Nil, heap'[x].pid[i] = heap'[y].pid[m]
               PROVE  x = y /\ i = m
    BY DEF Once
  <2>1. CASE x # r /\ y # r
    BY <2>1, <1>1 DEF Once
  <2>2. CASE x = r /\ y = r
    BY <2>2, <1>1
  <2>3. CASE x = r /\ y # r
    <3>1. heap[y].pid[m] = p /\ p # Nil /\ Live(y) /\ m \in 1..heap[y].n
      BY <2>3, <1>1
    <3> QED BY <3>1 DEF Fresh, Unlisted
  <2>4. CASE x # r /\ y = r
    <3>1. heap[x].pid[i] = p /\ p # Nil /\ Live(x) /\ i \in 1..heap[x].n
      BY <2>4, <1>1
    <3> QED BY <3>1 DEF Fresh, Unlisted
  <2> QED BY <2>1, <2>2, <2>3, <2>4
<1> QED BY <1>4, <1>5

(* The parent half of job_fork: a child that nobody has yet goes into a    *)
(* free slot.                                                              *)
Fills(r, i, p) ==
  /\ job_list' = job_list /\ \A x \in Refs : x # r => heap'[x] = heap[x]
  /\ heap'[r].n = heap[r].n
  /\ \A m \in 1..heap[r].n : /\ heap'[r].pid[m] = IF m = i THEN p ELSE heap[r].pid[m]
                             /\ heap'[r].stat[m] = IF m = i THEN RUN ELSE heap[r].stat[m]
LEMMA FillHeld ==
  ASSUME TableType, Held, Once, KidKept, NEW r \in Refs, Live(r), NEW i \in 1..heap[r].n, NEW p, Fresh(p), Fills(r, i, p)
  PROVE  Held' /\ Once'
<1>1. \A x : Live(x)' <=> Live(x)
  BY DEF Fills, Live
<1>2. \A x \in Refs : heap'[x].n = heap[x].n
  BY DEF Fills
<1>3. \A x \in Refs : \A m \in 1..heap[x].n :
        (x # r \/ m # i) => heap'[x].pid[m] = heap[x].pid[m] /\ heap'[x].stat[m] = heap[x].stat[m]
  BY DEF Fills
<1>4. heap'[r].pid[i] = p /\ heap'[r].stat[i] = RUN /\ p \in Pids /\ Exists(p)'
  BY DEF Fills, Fresh, KidKept
<1>5. Held'
  <2> SUFFICES ASSUME NEW x \in Refs, Live(x)', NEW m \in 1..heap'[x].n PROVE Told(x, m)'
    BY DEF Held
  <2>1. CASE x = r /\ m = i
    BY <2>1, <1>4, CodesApart DEF Told, Exists
  <2>2. CASE ~(x = r /\ m = i)
    <3>1. Live(x) /\ m \in 1..heap[x].n
      BY <1>1, <1>2
    <3>2. heap'[x].pid[m] = heap[x].pid[m] /\ heap'[x].stat[m] = heap[x].stat[m]
      BY <2>2, <3>1, <1>3
    <3>3. Told(x, m)
      BY <3>1 DEF Held
    <3>4. PICK q \in Pids \cup {Nil} : q = heap[x].pid[m]
      BY <3>1, MemberType
    <3>5. CASE q = Nil
      BY <3>2, <3>4, <3>5 DEF Told
    <3>6. CASE q # Nil
      <4>1. /\ Exists(q) => Exists(q)'
            /\ kid[q].st = "reaped" => kid'[q].st = "reaped" /\ kid'[q].code = kid[q].code
        BY <3>6 DEF KidKept
      <4>2. /\ heap[x].stat[m] \in {RUN, STOP} => Exists(q)
            /\ heap[x].stat[m] \in Codes => kid[q].st = "reaped" /\ kid[q].code = heap[x].stat[m]
        BY <3>3, <3>4, <3>6 DEF Told
      <4>3. heap'[x].stat[m] \in {RUN, STOP} => Exists(q)'
        BY <3>2, <4>1, <4>2
      <4>4. heap'[x].stat[m] \in Codes => kid'[q].st = "reaped" /\ kid'[q].code = heap'[x].stat[m]
        BY <3>2, <4>1, <4>2
      <4>5. heap'[x].pid[m] = q
        BY <3>2, <3>4
      <4> QED BY <4>3, <4>4, <4>5 DEF Told, Exists
    <3> QED BY <3>5, <3>6
  <2> QED BY <2>1, <2>2
<1>6. Once'
  <2> SUFFICES ASSUME NEW x \in Refs, NEW y \in Refs, Live(x)', Live(y)',
                      NEW m \in 1..heap'[x].n, NEW l \in 1..heap'[y].n,
                      heap'[x].pid[m] # Nil, heap'[x].pid[m] = heap'[y].pid[l]
               PROVE  x = y /\ m = l
    BY DEF Once
  <2>1. Live(x) /\ Live(y) /\ m \in 1..heap[x].n /\ l \in 1..heap[y].n
    BY <1>1, <1>2
  <2>2. CASE ~(x = r /\ m = i) /\ ~(y = r /\ l = i)
    BY <2>1, <2>2, <1>3 DEF Once
  <2>3. CASE (x = r /\ m = i) /\ ~(y = r /\ l = i)
    BY <2>1, <2>3, <1>3, <1>4 DEF Fresh, Unlisted
  <2>4. CASE ~(x = r /\ m = i) /\ (y = r /\ l = i)
    BY <2>1, <2>4, <1>3, <1>4 DEF Fresh, Unlisted
  <2> QED BY <2>2, <2>3, <2>4
<1> QED BY <1>5, <1>6

-----------------------------------------------------------------------------
(* Children that are started, end, stop or go on *)

(* An untouched kernel.                                                    *)
LEMMA SameKids ==
  ASSUME kid' = kid
  PROVE  KidKept
BY DEF KidKept, Exists

(* The shell marks a child as "$!".                                        *)
LEMMA MarkKept ==
  ASSUME KernelType, NEW p, kid' = [kid EXCEPT ![p].bg = TRUE]
  PROVE  KidKept
<1>1. \A q \in Pids : kid'[q].st = kid[q].st /\ kid'[q].code = kid[q].code
  BY DEF KernelType
<1> QED BY <1>1 DEF KidKept, Exists

(* The shell continues stopped children.                                   *)
LEMMA ContinueKept ==
  ASSUME KernelType, NEW S, kid' = Continued(S)
  PROVE  KidKept
<1>1. \A q \in Pids : kid'[q] = IF q \in S /\ kid[q].st = "stop"
                                THEN [kid[q] EXCEPT !.st = "run", !.note = FALSE] ELSE kid[q]
  BY DEF Continued
<1>2. \A q \in Pids : kid[q] \in [st : KidStates, code : Codes, note : BOOLEAN, bg : BOOLEAN]
  BY DEF KernelType
<1>3. \A q \in Pids : /\ q \in S /\ kid[q].st = "stop" => kid'[q].st = "run"
                      /\ ~(q \in S /\ kid[q].st = "stop") => kid'[q] = kid[q]
  BY <1>1, <1>2
<1> QED BY <1>3 DEF KidKept, Exists

(* Children end, stop and continue by themselves.                          *)
LEMMA ChildKept ==
  ASSUME KernelType, NEW p \in Pids, (\E c \in Codes : ChildExit(p, c)) \/ ChildStop(p) \/ ChildCont(p)
  PROVE  KidKept
<1>0. kid \in [Pids -> [st : KidStates, code : Codes, note : BOOLEAN, bg : BOOLEAN]]
  BY DEF KernelType
<1>1. CASE \E c \in Codes : ChildExit(p, c)
  <2>1. PICK c \in Codes : ChildExit(p, c)
    BY <1>1
  <2>2. kid[p].st \in {"run", "stop"} /\ kid'[p].st = "zombie" /\ \A q \in Pids : q # p => kid'[q] = kid[q]
    BY <2>1, <1>0 DEF ChildExit
  <2> QED BY <2>2 DEF KidKept, Exists
<1>2. CASE ChildStop(p)
  <2>1. kid[p].st = "run" /\ kid'[p].st = "stop" /\ \A q \in Pids : q # p => kid'[q] = kid[q]
    BY <1>2, <1>0 DEF ChildStop
  <2> QED BY <2>1 DEF KidKept, Exists
<1>3. CASE ChildCont(p)
  BY <1>3, ContinueKept DEF ChildCont
<1> QED BY <1>1, <1>2, <1>3

(* fork(): the process id is new, so no job can have it.                   *)
LEMMA ForkFresh ==
  ASSUME KernelType, TableType, Held, ~PidReuse, NEW p \in Pids, Forkable(p), kid' = Forked(p),
         heap' = heap, job_list' = job_list
  PROVE  KidKept /\ Fresh(p)'
<1>0. kid \in [Pids -> [st : KidStates, code : Codes, note : BOOLEAN, bg : BOOLEAN]]
  BY DEF KernelType
<1>1. kid[p].st = "none"
  BY DEF Forkable
<1>2. kid'[p].st = "run" /\ \A q \in Pids : q # p => kid'[q] = kid[q]
  BY <1>0 DEF Forked, NoKid
<1>3. KidKept
  BY <1>1, <1>2 DEF KidKept, Exists
<1>4. Unlisted(p)
  <2> SUFFICES ASSUME NEW r \in Refs, Live(r), NEW i \in 1..heap[r].n, heap[r].pid[i] = p PROVE FALSE
    BY DEF Unlisted
  <2>1. Told(r, i) /\ heap[r].stat[i] \in Codes \cup {RUN, STOP} /\ p # Nil
    BY MemberType, JobConstants DEF Held, Statuses
  <2>2. Exists(p) \/ kid[p].st = "reaped"
    BY <2>1 DEF Told
  <2> QED BY <1>1, <2>2 DEF Exists
<1>5. Unlisted(p)'
  BY <1>4 DEF Unlisted, Live
<1> QED BY <1>2, <1>3, <1>5 DEF Fresh, Exists

-----------------------------------------------------------------------------
(* The call chain *)

(* No fork is under way, and only commands of the script are.              *)
Calm(s) == (s # <<>> => s[Len(s)].pc \notin {"fork", "forked"}) /\ Kinds(s)

(* A step of a call that forks nothing.                                    *)
LEMMA KindsGoto ==
  ASSUME StackOK(stack), stack # <<>>, Kinds(stack), NEW f, f.k = Top.k
  PROVE  Kinds(Goto(f)) /\ Goto(f) # <<>> /\ Goto(f)[Len(Goto(f))] = f
<1> DEFINE S == Frames \cup {f}
<1>1. stack \in Seq(Frames) /\ Len(stack) \in Nat /\ Len(stack) >= 1
  BY DEF StackOK
<1>2. stack \in Seq(S) /\ f \in S
  BY <1>1
<1> HIDE DEF S
<1>3. /\ Goto(f) \in Seq(S) /\ Len(Goto(f)) = Len(stack)
      /\ Goto(f)[Len(stack)] = f
      /\ \A i \in 1..(Len(stack) - 1) : Goto(f)[i] = stack[i]
  BY <1>1, <1>2 DEF Goto
<1>4. Scripted(f.k)
  BY <1>1 DEF Kinds, Top
<1>5. Kinds(Goto(f))
  BY <1>1, <1>3, <1>4 DEF Kinds
<1> QED BY <1>1, <1>3, <1>5

LEMMA CalmGoto ==
  ASSUME StackOK(stack), stack # <<>>, Kinds(stack), NEW f, f.k = Top.k, f.pc \notin {"fork", "forked"}
  PROVE  Calm(Goto(f))
BY KindsGoto DEF Calm

(* A return.                                                               *)
LEMMA CalmPop ==
  ASSUME StackOK(stack), stack # <<>>, Kinds(stack)
  PROVE  Calm(Pop(stack))
<1>1. stack \in Seq(Frames) /\ Len(stack) \in Nat /\ Len(stack) >= 1
  BY DEF StackOK
<1>2. Pop(stack) # <<>> => Pop(stack)[Len(Pop(stack))].pc \in Resting
  BY PopOf
<1>3. Len(Pop(stack)) = Len(stack) - 1 /\ \A i \in 1..(Len(stack) - 1) : Pop(stack)[i] = stack[i]
  <2> DEFINE n == Len(stack) - 1
  <2>1. n \in Nat /\ 1 \in Int /\ n \in Int /\ \A i \in 1..n : stack[i] \in Frames
    BY <1>1
  <2> HIDE DEF n
  <2>2. /\ Len(SubSeq(stack, 1, n)) = (IF 1 <= n THEN n - 1 + 1 ELSE 0)
        /\ \A i \in 1..(n - 1 + 1) : SubSeq(stack, 1, n)[i] = stack[1 + i - 1]
    BY <2>1, SubSeqProperties
  <2>3. Len(SubSeq(stack, 1, n)) = n /\ \A i \in 1..n : SubSeq(stack, 1, n)[i] = stack[i]
    BY <2>1, <2>2
  <2> QED BY <2>3 DEF Pop, n
<1>4. Kinds(Pop(stack))
  BY <1>1, <1>3 DEF Kinds
<1> QED BY <1>2, <1>4 DEF Calm, Resting

(* A call.                                                                 *)
LEMMA KindsPush ==
  ASSUME NEW s, s \in Seq(Frames), Kinds(s), NEW f, Scripted(f.k)
  PROVE  Kinds(Append(s, f)) /\ Append(s, f) # <<>> /\ Append(s, f)[Len(Append(s, f))] = f
<1> DEFINE S == Frames \cup {f}
<1>0. s \in Seq(S) /\ f \in S
  OBVIOUS
<1> HIDE DEF S
<1>1. Len(s) \in Nat
  OBVIOUS
<1>2. /\ Len(Append(s, f)) = Len(s) + 1 /\ Append(s, f)[Len(s) + 1] = f
      /\ \A i \in 1..Len(s) : Append(s, f)[i] = s[i]
  BY <1>0
<1>3. Kinds(Append(s, f))
  BY <1>1, <1>2 DEF Kinds
<1> QED BY <1>1, <1>2, <1>3

(* Every step that leaves no fork under way and keeps children and jobs.   *)
LEMMA CalmStep ==
  ASSUME TableType, Exits, KidKept, TableKept, Calm(stack')
  PROVE  Exits'
<1>1. Held' /\ Once'
  BY KeptHeld DEF Exits
<1>2. ForkOK' /\ RoomOK' /\ Kinds(stack)'
  BY DEF ForkOK, RoomOK, Calm, Top, Kinds, Scripted
<1> QED BY <1>1, <1>2 DEF Exits

(* Every step of a call that changes neither children nor jobs.            *)
LEMMA OnlyStackCalm ==
  ASSUME TableType, Exits, kid' = kid, heap' = heap, job_list' = job_list, Calm(stack')
  PROVE  Exits'
BY SameKids, SameTableKept, CalmStep

-----------------------------------------------------------------------------
(* The kernel's steps *)

(* A fork under way is not disturbed by what leaves chain, jobs and mask.  *)
LEMMA StandStill ==
  ASSUME TableType, Exits, KidKept, heap' = heap, job_list' = job_list, stack' = stack, mask' = mask
  PROVE  Exits'
<1>1. TableKept
  BY SameTableKept
<1>2. Held' /\ Once'
  BY <1>1, KeptHeld DEF Exits
<1>3. ForkOK'
  <2> SUFFICES ASSUME stack # <<>>, Top.pc = "forked" PROVE mask' /\ Fresh(Top.new)'
    BY DEF ForkOK, Top
  <2>1. mask /\ Fresh(Top.new)
    BY DEF Exits, ForkOK
  <2>2. PICK p : p = Top.new
    OBVIOUS
  <2>3. Fresh(p)'
    BY <1>1, <2>1, <2>2, KeptFresh
  <2>4. Top' = Top
    BY DEF Top
  <2> QED BY <2>1, <2>2, <2>3, <2>4
<1>4. RoomOK' /\ Kinds(stack)'
  BY DEF Exits, RoomOK, Room, Top, Live, Kinds, Scripted
<1> QED BY <1>2, <1>3, <1>4 DEF Exits

(* Recording an exit moves no job and fills no slot.                       *)
LEMMA SignalStep ==
  ASSUME Exits, Held', Once', SameMembers, stack' = stack, Calm(stack) \/ ~mask
  PROVE  Exits'
<1>1. ForkOK'
  BY DEF Calm, Exits, ForkOK, Top
<1>2. RoomOK'
  <2> SUFFICES ASSUME stack # <<>>, Top.pc \in {"fork", "forked"}, Top.k \in {"bg", "pipe"}
               PROVE  Room(Top.j, Top.left)'
    BY DEF RoomOK, Top
  <2>1. Room(Top.j, Top.left)
    BY DEF Exits, RoomOK
  <2>2. Top' = Top
    BY DEF Top
  <2> QED BY <2>1, <2>2 DEF Room, SameMembers, Live
<1>3. Kinds(stack)'
  BY DEF Exits, Kinds, Scripted
<1> QED BY <1>1, <1>2, <1>3 DEF Exits

LEMMA ChildExits ==
  ASSUME Safe, Exits, NEW p \in Pids, (\E c \in Codes : ChildExit(p, c)) \/ ChildStop(p) \/ ChildCont(p)
  PROVE  Exits'
<1>1. UNCHANGED <<mask, table, stack>>
  BY DEF ChildExit, ChildStop, ChildCont
<1> QED BY <1>1, ChildKept, StandStill DEF Safe, TableOK, table

(* A blocked waitpid() that is woken has no fork under way.                *)
LEMMA WakeCalm ==
  ASSUME StackOK(stack), Kinds(stack), NEW c, WakeIf(c) # stack
  PROVE  Calm(WakeIf(c))
<1>1. At("blocked") /\ c /\ WakeIf(c) = Goto([Top EXCEPT !.pc = "err"])
  BY DEF WakeIf
<1>2. stack # <<>> /\ Top \in Frames
  BY <1>1, TopOf DEF At, FrameOK
<1>3. [Top EXCEPT !.pc = "err"].k = Top.k /\ [Top EXCEPT !.pc = "err"].pc = "err"
  BY <1>2 DEF Frames
<1> QED BY <1>1, <1>2, <1>3, CalmGoto

(* The handler, wherever it interrupts the shell.                          *)
LEMMA OnsigExits ==
  ASSUME Safe, Exits, sh_onsig
  PROVE  Exits'
<1>0. /\ KernelType /\ TableOK /\ TableType /\ StackOK(stack) /\ Held /\ Once /\ Kinds(stack)
      /\ ~mask /\ mask' = mask /\ stack' = WakeIf(trap_signaled)
  BY DEF Safe, TableOK, Exits, sh_onsig
<1>1. CASE \E p \in Pids : Reapable(p) /\ kid' = Reaped(p) /\ job_signal(p, StatusOf(p))
  <2>1. PICK p \in Pids : Reapable(p) /\ kid' = Reaped(p) /\ job_signal(p, StatusOf(p))
    BY <1>1
  <2>2. Held' /\ Once' /\ SameMembers
    BY <1>0, <2>1, Collects, SignalHeld
  <2>3. CASE stack' = stack
    BY <1>0, <2>2, <2>3, SignalStep
  <2>4. CASE stack' # stack
    <3>1. Calm(stack')
      BY <1>0, <2>4, WakeCalm
    <3>2. ForkOK' /\ RoomOK' /\ Kinds(stack)'
      BY <3>1 DEF ForkOK, RoomOK, Calm, Top, Kinds, Scripted
    <3> QED BY <2>2, <3>2 DEF Exits
  <2> QED BY <2>3, <2>4
<1>2. CASE UNCHANGED <<kid, table, job_signaled>>
  <2>1. kid' = kid /\ heap' = heap /\ job_list' = job_list
    BY <1>2 DEF table
  <2>2. CASE stack' = stack
    BY <1>0, <2>1, <2>2, SameKids, StandStill
  <2>3. CASE stack' # stack
    <3>1. Calm(stack')
      BY <1>0, <2>3, WakeCalm
    <3> QED BY <1>0, <2>1, <3>1, OnlyStackCalm
  <2> QED BY <2>2, <2>3
<1> QED BY <1>1, <1>2 DEF sh_onsig

LEMMA RelayExits ==
  ASSUME Safe, Exits, trap_relay
  PROVE  Exits'
<1>1. /\ kid' = kid /\ mask' = mask /\ heap' = heap /\ job_list' = job_list /\ stack' = WakeIf(TRUE)
      /\ TableType /\ StackOK(stack) /\ Kinds(stack)
  BY DEF trap_relay, kernel, table, Safe, TableOK, Exits
<1>2. CASE stack' = stack
  BY <1>1, <1>2, SameKids, StandStill
<1>3. CASE stack' # stack
  <2>1. Calm(stack')
    BY <1>1, <1>3, WakeCalm
  <2> QED BY <1>1, <2>1, OnlyStackCalm
<1> QED BY <1>2, <1>3

-----------------------------------------------------------------------------
(* Starting processes *)

(* What the next-state of the chain's top has to be while a fork is under  *)
(* way.                                                                    *)
Forking(f) ==
  /\ f.pc = "forked" => mask' /\ Fresh(f.new)'
  /\ f.pc \in {"fork", "forked"} /\ f.k \in {"bg", "pipe"} => Room(f.j, f.left)'
LEMMA ForkingStep ==
  ASSUME Held', Once', NEW f, stack' # <<>> => stack'[Len(stack')] = f, Forking(f), Kinds(stack')
  PROVE  Exits'
<1>1. stack' # <<>> => Top' = f
  BY DEF Top
<1>2. Kinds(stack)'
  BY DEF Kinds, Scripted
<1>3. ForkOK' /\ RoomOK'
  <2>1. CASE stack' = <<>>
    BY <2>1 DEF ForkOK, RoomOK
  <2>2. CASE stack' # <<>>
    <3>1. Top' = f
      BY <1>1, <2>2
    <3>2. Top'.pc = "forked" => mask' /\ Fresh(Top.new)'
      BY <3>1 DEF Forking, Fresh, Unlisted, Exists, Live
    <3>3. Top'.pc \in {"fork", "forked"} /\ Top'.k \in {"bg", "pipe"} => Room(Top.j, Top.left)'
      BY <3>1 DEF Forking, Room, Live
    <3> QED BY <3>2, <3>3 DEF ForkOK, RoomOK
  <2> QED BY <2>1, <2>2
<1> QED BY <1>2, <1>3 DEF Exits

(* A launcher registers its job with a free slot per member.               *)
LEMMA LaunchExits ==
  ASSUME Safe, Exits, kid' = kid, NEW r, NEW n \in Nat, NEW b \in BOOLEAN, NEW c \in BOOLEAN, job_new(r, n, b, c, Nil),
         NEW f \in Frames, f.k \in {"bg", "pipe"}, f.pc \in {"fork", "body"}, f.pc = "fork" => n > 0,
         f.j = r, f.left = n, stack' = Append(stack, f)
  PROVE  Exits'
<1>0. TableOK /\ Held /\ Once /\ stack \in Seq(Frames) /\ Kinds(stack)
  BY DEF Safe, Exits, StackOK
<1>1. Held' /\ Once'
  BY <1>0, SameKids, NewHeld
<1>2. /\ r \in Refs /\ Live(r)'
      /\ heap'[r].n = n /\ \A i \in 1..n : heap'[r].pid[i] = Nil
  <2>1. Listed(r, n, Nil)
    BY <1>0, NewListed
  <2> QED BY ONLY <2>1, Zenon DEF Listed
<1>3. Scripted(f.k)
  BY DEF Scripted
<1>4. Kinds(stack') /\ stack'[Len(stack')] = f
  BY <1>0, <1>3, KindsPush
<1>5. f.pc = "fork" => Room(f.j, f.left)'
  <2> SUFFICES ASSUME f.pc = "fork" PROVE Room(f.j, f.left)'
    OBVIOUS
  <2>1. n \in 1..n
    OBVIOUS
  <2> QED BY <1>2, <2>1 DEF Room
<1>6. Forking(f)
  BY <1>5 DEF Forking
<1> QED BY <1>1, <1>4, <1>6, ForkingStep

LEMMA BgndExits ==
  ASSUME Safe, Exits, eval_node_bgnd
  PROVE  Exits'
<1> DEFINE f(r) == [Call("bg", "fork") EXCEPT !.j = r, !.left = 1]
<1>1. PICK r \in Refs : job_new(r, 1, TRUE, FALSE, Nil) /\ stack' = Append(stack, f(r))
  BY DEF eval_node_bgnd, Push
<1>2. Call("bg", "fork") \in Frames /\ Call("bg", "fork").pc = "fork" /\ Call("bg", "fork").k = "bg"
  BY CallFrame DEF Calls, Pcs, FrameOK
<1>3. f(r) \in Frames /\ f(r).k = "bg" /\ f(r).pc = "fork" /\ f(r).j = r /\ f(r).left = 1
  <2> DEFINE g == Call("bg", "fork")
  <2>1. g \in Frames /\ g.pc = "fork" /\ g.k = "bg" /\ 1 \in Int
    BY <1>2
  <2> HIDE DEF g
  <2>2. [g EXCEPT !.j = r, !.left = 1] \in Frames
    BY <2>1 DEF Frames
  <2>3. /\ [g EXCEPT !.j = r, !.left = 1].pc = "fork" /\ [g EXCEPT !.j = r, !.left = 1].k = "bg"
        /\ [g EXCEPT !.j = r, !.left = 1].j = r /\ [g EXCEPT !.j = r, !.left = 1].left = 1
    BY <2>1 DEF Frames
  <2> QED BY <2>2, <2>3 DEF g
<1>4. kid' = kid /\ 1 \in Nat /\ 1 > 0
  BY DEF eval_node_bgnd, kernel
<1> HIDE DEF f
<1> QED BY <1>1, <1>3, <1>4, LaunchExits

LEMMA PipelineExits ==
  ASSUME Safe, Exits, NEW n \in 0..MaxProcs, NEW last \in BOOLEAN, NEW pipefail \in BOOLEAN,
         eval_pipeline(n, last, pipefail)
  PROVE  Exits'
<1>1. n \in Nat /\ n \in Int /\ kid' = kid
  BY JobConstants DEF eval_pipeline, kernel
<1> DEFINE pc == IF n > 0 THEN "fork" ELSE "body"
           f(r) == [Call("pipe", pc) EXCEPT !.j = r, !.left = n, !.flag = last]
<1>2. PICK r \in Refs : job_new(r, n, FALSE, pipefail, Nil) /\ stack' = Append(stack, f(r))
  BY DEF eval_pipeline, Push
<1>3. pc \in {"fork", "body"} /\ pc \in Pcs /\ "pipe" \in Calls /\ (pc = "fork" => n > 0)
  BY DEF Pcs, Calls
<1> HIDE DEF pc
<1>4. Call("pipe", pc) \in Frames /\ Call("pipe", pc).pc = pc /\ Call("pipe", pc).k = "pipe"
  BY <1>3, CallFrame DEF FrameOK
<1>5. f(r) \in Frames /\ f(r).k = "pipe" /\ f(r).pc = pc /\ f(r).j = r /\ f(r).left = n
  BY <1>1, <1>4 DEF Frames
<1> HIDE DEF f
<1> QED BY <1>1, <1>2, <1>3, <1>5, LaunchExits

(* fork() in job_fork: SIGCHLD is blocked and the child is nobody's.       *)
LEMMA ForkExits ==
  ASSUME ~PidReuse, Safe, Exits, job_fork
  PROVE  Exits'
<1>0. /\ KernelType /\ TableType /\ Held /\ Once /\ Kinds(stack) /\ StackOK(stack)
      /\ heap' = heap /\ job_list' = job_list /\ mask' = TRUE
  BY DEF Safe, TableOK, Exits, job_fork, table
<1>1. PICK p \in Pids : Forkable(p) /\ kid' = Forked(p) /\ stack' = Goto([Top EXCEPT !.pc = "forked", !.new = p])
  BY DEF job_fork
<1> DEFINE f == [Top EXCEPT !.pc = "forked", !.new = p]
<1>2. stack # <<>> /\ Top.pc = "fork" /\ Top \in Frames
  BY TopOf DEF job_fork, At, Safe, FrameOK
<1>3. f.pc = "forked" /\ f.new = p /\ f.k = Top.k /\ f.j = Top.j /\ f.left = Top.left
  BY <1>2 DEF Frames
<1>4. PICK r, l : r = Top.j /\ l = Top.left
  OBVIOUS
<1>5. PICK g : g = f
  OBVIOUS
<1>6. KidKept /\ Fresh(p)' /\ TableKept
  BY <1>0, <1>1, ForkFresh, SameTableKept
<1>7. Held' /\ Once'
  BY <1>0, <1>6, KeptHeld
<1>8. g.k \in {"bg", "pipe"} => Room(r, l)'
  BY <1>0, <1>2, <1>3, <1>4, <1>5 DEF Exits, RoomOK, Room, Live
<1>9. Forking(g)
  BY <1>0, <1>3, <1>4, <1>5, <1>6, <1>8 DEF Forking
<1>10. Kinds(stack') /\ stack'[Len(stack')] = g
  BY <1>0, <1>1, <1>2, <1>3, <1>5, KindsGoto
<1> QED BY <1>7, <1>9, <1>10, ForkingStep

(* A launcher whose members have all been started.                         *)
LEMMA AfterForkCalm ==
  ASSUME StackOK(stack), stack # <<>>, Kinds(stack), NEW f \in Frames, f.k = Top.k
  PROVE  Calm(AfterFork(f))
<1>1. [f EXCEPT !.pc = "drain"].k = f.k /\ [f EXCEPT !.pc = "drain"].pc = "drain"
  BY DEF Frames
<1>2. [f EXCEPT !.pc = "body"].k = f.k /\ [f EXCEPT !.pc = "body"].pc = "body"
  BY DEF Frames
<1>3. JobWait(f, f.j, RUN).k = f.k /\ JobWait(f, f.j, RUN).pc = "top"
  BY DEF JobWait, Frames
<1>4. Calm(Goto([f EXCEPT !.pc = "drain"]))
  BY <1>1, CalmGoto
<1>5. Calm(Goto([f EXCEPT !.pc = "body"]))
  BY <1>2, CalmGoto
<1>6. Calm(Goto(JobWait(f, f.j, RUN)))
  BY <1>3, CalmGoto
<1> QED BY <1>4, <1>5, <1>6, CalmPop DEF AfterFork

(* The parent half of job_fork: the first free slot is the child's, and    *)
(* the slots of the members still to come stay free.                       *)
LEMMA ForkParentExits ==
  ASSUME Safe, Exits, job_fork_parent
  PROVE  Exits'
<1> DEFINE f == [Top EXCEPT !.new = Nil, !.left = @ - 1]
           i == Least({x \in 1..heap[f.j].n : heap[f.j].pid[x] = Nil})
<1>0. /\ KernelType /\ TableType /\ Held /\ Once /\ Kinds(stack) /\ StackOK(stack) /\ heap \in [Refs -> Jobs]
  BY DEF Safe, TableOK, TableType, Exits
<1>1. stack # <<>> /\ Top.pc = "forked" /\ Top.k \in {"bg", "pipe"} /\ Top \in Frames
  BY TopOf DEF job_fork_parent, At, Safe, FrameOK
<1>2. /\ heap' = [heap EXCEPT ![f.j].pid[i] = Top.new, ![f.j].stat[i] = RUN]
      /\ stack' = IF f.left > 0 THEN Goto([f EXCEPT !.pc = "fork"]) ELSE AfterFork(f)
      /\ Top.k = "bg" => kid' = [kid EXCEPT ![Top.new].bg = TRUE]
      /\ Top.k # "bg" => kid' = kid
      /\ job_list' = job_list
  BY DEF job_fork_parent
<1>3. Top.left \in Int
  BY <1>1 DEF Frames
<1>4. PICK g \in Frames : g = f /\ g.k = Top.k /\ g.j = Top.j /\ g.left = Top.left - 1
  <2>1. PICK l : l = Top.left - 1
    OBVIOUS
  <2>2. f = [Top EXCEPT !.new = Nil, !.left = l] /\ l \in Int
    BY <1>1, <1>3, <2>1 DEF Frames
  <2> HIDE DEF f
  <2>3. f \in Frames /\ f.k = Top.k /\ f.j = Top.j /\ f.left = l
    BY <1>1, <2>2 DEF Frames
  <2> QED BY <2>1, <2>3
<1>5. PICK r, l, p : r = Top.j /\ l = Top.left /\ p = Top.new
  OBVIOUS
<1>6. Room(r, l) /\ Fresh(p)
  BY <1>1, <1>5 DEF Exits, ForkOK, RoomOK
<1>7. r \in Refs /\ Live(r) /\ heap[r] \in Jobs /\ heap[r].n \in Nat /\ l \in 1..heap[r].n
  BY <1>0, <1>6, SizeType DEF Room
<1>8. PICK m : m = i
  OBVIOUS
<1>9. m \in 1..heap[r].n /\ heap[r].pid[m] = Nil /\ m <= heap[r].n - l + 1
  <2> DEFINE S == {x \in 1..heap[r].n : heap[r].pid[x] = Nil}
  <2>1. heap[r].n - l + 1 \in S
    BY <1>6, <1>7 DEF Room
  <2>2. S \in SUBSET Nat /\ S # {}
    BY <1>7, <2>1
  <2> HIDE DEF S
  <2>3. Least(S) \in S /\ Least(S) <= heap[r].n - l + 1
    BY <2>1, <2>2, LeastOf, Zenon
  <2>4. m = Least(S)
    BY <1>4, <1>5, <1>8 DEF S
  <2> QED BY <2>3, <2>4 DEF S
<1>10. Fills(r, m, p)
  <2>1. heap' = [heap EXCEPT ![r].pid[m] = p, ![r].stat[m] = RUN]
    BY <1>2, <1>4, <1>5, <1>8
  <2> DEFINE j == heap[r]
             j1 == [j EXCEPT !.pid = [j.pid EXCEPT ![m] = p]]
             j2 == [j1 EXCEPT !.stat = [j1.stat EXCEPT ![m] = RUN]]
  <2>2. heap'[r] = j2 /\ \A x \in Refs : x # r => heap'[x] = heap[x]
    BY <1>0, <1>7, <2>1
  <2>3. /\ j.pid \in Seq(Pids \cup {Nil}) /\ j.stat \in Seq(Statuses) /\ Len(j.pid) = j.n /\ Len(j.stat) = j.n
    BY <1>7 DEF Jobs
  <2>4. j1.n = j.n /\ j1.pid = [j.pid EXCEPT ![m] = p] /\ j1.stat = j.stat
    BY <1>7 DEF Jobs
  <2>5. j2.n = j1.n /\ j2.pid = j1.pid /\ j2.stat = [j1.stat EXCEPT ![m] = RUN]
    BY <1>7 DEF Jobs
  <2> HIDE DEF j2, j1
  <2>6. \A x \in 1..j.n : /\ j2.pid[x] = IF x = m THEN p ELSE j.pid[x]
                          /\ j2.stat[x] = IF x = m THEN RUN ELSE j.stat[x]
    BY <1>7, <2>3, <2>4, <2>5
  <2> QED BY <1>2, <2>2, <2>4, <2>5, <2>6, Zenon DEF Fills
<1>11. KidKept
  BY <1>0, <1>2, MarkKept, SameKids
<1>12. Held' /\ Once'
  BY <1>0, <1>6, <1>7, <1>9, <1>10, <1>11, FillHeld
<1>13. CASE g.left > 0
  <2>1. PICK h : h = [g EXCEPT !.pc = "fork"]
    OBVIOUS
  <2>2. h.pc = "fork" /\ h.k = g.k /\ h.j = r /\ h.left = l - 1
    BY <1>4, <1>5, <2>1 DEF Frames
  <2>3. Room(r, l - 1)'
    <3>1. Live(r)' /\ heap'[r].n = heap[r].n
      BY <1>7, <1>10 DEF Fills, Live
    <3>2. l - 1 \in 1..heap[r].n
      BY <1>4, <1>5, <1>7, <1>13
    <3>3. \A x \in 1..heap[r].n : x > heap[r].n - (l - 1) => heap'[r].pid[x] = Nil
      BY <1>6, <1>7, <1>9, <1>10 DEF Fills, Room
    <3> QED BY <1>7, <3>1, <3>2, <3>3 DEF Room
  <2>4. Forking(h)
    BY <2>2, <2>3 DEF Forking
  <2>5. stack' = Goto(h)
    BY <1>2, <1>4, <1>13, <2>1
  <2>6. Kinds(stack') /\ stack'[Len(stack')] = h
    BY <1>0, <1>1, <1>4, <2>2, <2>5, KindsGoto
  <2> QED BY <1>12, <2>4, <2>6, ForkingStep
<1>14. CASE ~(g.left > 0)
  <2>1. stack' = AfterFork(g)
    BY <1>2, <1>4, <1>14
  <2>2. Calm(stack')
    BY <1>0, <1>1, <1>4, <2>1, AfterForkCalm
  <2>3. ForkOK' /\ RoomOK' /\ Kinds(stack)'
    BY <2>2 DEF ForkOK, RoomOK, Calm, Top, Kinds, Scripted
  <2> QED BY <1>12, <2>3 DEF Exits
<1> QED BY <1>13, <1>14

(* A fork() that fails leaves its slot free, or drops the job.             *)
LEMMA ForkFailsExits ==
  ASSUME Safe, Exits, job_fork_fails
  PROVE  Exits'
<1>0. /\ TableOK /\ TableType /\ Held /\ Once /\ Kinds(stack) /\ StackOK(stack) /\ KidKept
  BY SameKids DEF Safe, TableOK, Exits, job_fork_fails, kernel
<1>1. stack # <<>> /\ Top.pc = "fork" /\ Top \in Frames
  BY TopOf DEF job_fork_fails, At, Safe, FrameOK
<1>2. CASE Top.k = "bg"
  <2>1. job_free(Top.j) /\ stack' = Pop(stack)
    BY <1>2 DEF job_fork_fails
  <2> QED BY <2>1, <1>0, <1>1, FreeKept, CalmPop, CalmStep
<1>3. CASE Top.k # "bg"
  <2>1. PICK f : f = [Top EXCEPT !.left = @ - 1]
    OBVIOUS
  <2>2. stack' = (IF f.left > 0 THEN Goto(f) ELSE AfterFork(f)) /\ heap' = heap /\ job_list' = job_list
    BY <1>3, <2>1 DEF job_fork_fails, table
  <2>3. Top.left \in Int
    BY <1>1 DEF Frames
  <2>4. f \in Frames /\ f.pc = "fork" /\ f.k = Top.k /\ f.j = Top.j /\ f.left = Top.left - 1
    BY <1>1, <2>1, <2>3, SMTT(60) DEF Frames
  <2>5. CASE f.left > 0
    <3>1. PICK r, l : r = Top.j /\ l = Top.left
      OBVIOUS
    <3>2. Held' /\ Once'
      BY <1>0, <2>2, SameTableKept, KeptHeld
    <3>3. Top.k = "pipe" => Room(r, l - 1)'
      <4> SUFFICES ASSUME Top.k = "pipe" PROVE Room(r, l - 1)'
        OBVIOUS
      <4>1. Room(r, l)
        BY <1>1, <3>1 DEF Exits, RoomOK
      <4>2. heap[r].n \in Nat /\ l \in 1..heap[r].n
        BY <4>1, <1>0, SizeType DEF Room
      <4>3. l - 1 \in 1..heap[r].n /\ \A x \in 1..heap[r].n : x > heap[r].n - (l - 1) => x > heap[r].n - l
        BY <4>2, <2>4, <2>5, <3>1
      <4> QED BY <4>1, <4>3, <2>2 DEF Room, Live
    <3>4. Forking(f)
      BY <1>3, <2>4, <3>1, <3>3 DEF Forking
    <3>5. Kinds(stack') /\ stack'[Len(stack')] = f
      BY <1>0, <1>1, <2>2, <2>4, <2>5, KindsGoto
    <3> QED BY <3>2, <3>4, <3>5, ForkingStep
  <2>6. CASE ~(f.left > 0)
    BY <2>2, <2>4, <2>6, <1>0, <1>1, AfterForkCalm, SameTableKept, CalmStep
  <2> QED BY <2>5, <2>6
<1> QED BY <1>2, <1>3

(* What runs is one of the script's commands.                              *)
LEMMA CmdScripted ==
  ASSUME NEW c, Cmd(c)
  PROVE  c \in Commands
BY DEF Cmd, Commands

(* exec_program up to its fork.                                            *)
LEMMA ExecExits ==
  ASSUME ~PidReuse, Safe, Exits, NEW bgnd \in BOOLEAN, exec_program(bgnd)
  PROVE  Exits'
<1>0. /\ KernelType /\ TableType /\ Held /\ Once /\ Kinds(stack) /\ stack \in Seq(Frames)
      /\ heap' = heap /\ job_list' = job_list /\ mask' = TRUE
  BY DEF Safe, TableOK, Exits, exec_program, table, StackOK
<1>1. PICK p \in Pids : Forkable(p) /\ kid' = Forked(p) /\ stack' = Append(stack, [Call("prog", "forked") EXCEPT !.new = p, !.flag = bgnd])
  BY DEF exec_program, Push
<1>2. Call("prog", "forked") \in Frames /\ Call("prog", "forked").pc = "forked" /\ Call("prog", "forked").k = "prog"
  BY CallFrame DEF Calls, Pcs, FrameOK
<1>3. PICK f : f = [Call("prog", "forked") EXCEPT !.new = p, !.flag = bgnd]
  OBVIOUS
<1>4. f \in Frames /\ f.pc = "forked" /\ f.k = "prog" /\ f.new = p
  BY <1>2, <1>3 DEF Frames
<1>5. Scripted("prog")
  <2>1. CASE bgnd
    BY <2>1, CmdScripted DEF exec_program, Scripted, Programs
  <2>2. CASE ~bgnd
    BY <2>2, CmdScripted DEF exec_program, Scripted, Programs
  <2> QED BY <2>1, <2>2
<1>6. KidKept /\ Fresh(p)' /\ TableKept
  BY <1>0, <1>1, ForkFresh, SameTableKept
<1>7. Held' /\ Once'
  BY <1>0, <1>6, KeptHeld
<1>8. Forking(f)
  BY <1>0, <1>4, <1>6 DEF Forking
<1>9. Kinds(stack') /\ stack'[Len(stack')] = f
  <2>1. stack' = Append(stack, f) /\ Scripted(f.k)
    BY <1>1, <1>3, <1>4, <1>5, Zenon
  <2> QED BY ONLY <2>1, <1>0, <1>4, KindsPush
<1> QED BY <1>7, <1>8, <1>9, ForkingStep

(* exec_program without a process.                                         *)
LEMMA ExecFailsExits ==
  ASSUME Safe, Exits, NEW bgnd \in BOOLEAN, exec_program_fails(bgnd)
  PROVE  Exits'
<1>1. /\ kid' = kid /\ heap' = heap /\ job_list' = job_list /\ stack' = stack
      /\ stack = <<>> \/ stack[Len(stack)].pc \in Resting
  BY CmdRests DEF exec_program_fails, kernel, table
<1>2. Calm(stack')
  BY <1>1 DEF Calm, Exits, Resting
<1> QED BY <1>1, <1>2, OnlyStackCalm DEF Safe, TableOK

(* exec_program registers its child.                                       *)
LEMMA ExecParentExits ==
  ASSUME Safe, Exits, exec_program_parent
  PROVE  Exits'
<1>0. /\ KernelType /\ TableOK /\ Held /\ Once /\ Kinds(stack) /\ StackOK(stack)
  BY DEF Safe, Exits
<1>1. stack # <<>> /\ Top.k = "prog" /\ Top.pc = "forked" /\ Top \in Frames
  BY TopOf DEF exec_program_parent, Running, Safe, FrameOK
<1>2. PICK r \in Refs :
        /\ job_new(r, 1, Top.flag, FALSE, Top.new)
        /\ IF Top.flag
           THEN /\ stack' = Pop(stack)
                /\ kid' = [kid EXCEPT ![Top.new].bg = TRUE]
           ELSE /\ stack' = Goto(JobWait([Top EXCEPT !.new = Nil], r, Hangup))
                /\ kid' = kid
  BY DEF exec_program_parent
<1>3. PICK p, b : p = Top.new /\ b = Top.flag
  OBVIOUS
<1>4. Fresh(p)
  BY <1>1, <1>3 DEF Exits, ForkOK
<1>5. KidKept
  <2>1. CASE Top.flag
    BY <2>1, <1>0, <1>2, MarkKept
  <2>2. CASE ~Top.flag
    BY <2>2, <1>2, SameKids
  <2> QED BY <2>1, <2>2
<1>6. Held' /\ Once'
  <2>1. job_new(r, 1, b, FALSE, p) /\ 1 \in Nat
    BY <1>2, <1>3
  <2> QED BY <2>1, <1>0, <1>4, <1>5, NewHeld
<1>7. Calm(stack')
  <2>1. CASE Top.flag
    BY <2>1, <1>0, <1>1, <1>2, CalmPop
  <2>2. CASE ~Top.flag
    <3>1. PICK f : f = JobWait([Top EXCEPT !.new = Nil], r, Hangup)
      OBVIOUS
    <3>2. f.k = Top.k /\ f.pc = "top"
      BY <1>1, <3>1 DEF JobWait, Frames
    <3> QED BY <2>2, <1>0, <1>1, <1>2, <3>1, <3>2, CalmGoto
  <2> QED BY <2>1, <2>2
<1>8. ForkOK' /\ RoomOK' /\ Kinds(stack)'
  BY <1>7 DEF ForkOK, RoomOK, Calm, Top, Kinds, Scripted
<1> QED BY <1>6, <1>8 DEF Exits

(* The drain of a substitution does not run between the fork of a program  *)
(* and its registration.                                                   *)
LEMMA ResumeStoppedExits ==
  ASSUME NoDrainedFork, Safe, Exits, job_resume_stopped
  PROVE  Exits'
<1>0. /\ KernelType /\ TableOK /\ Held /\ Once /\ Kinds(stack) /\ StackOK(stack) /\ stack' = stack
  BY DEF Safe, Exits, job_resume_stopped
<1>1. stack # <<>> /\ Top.pc = "drain"
  <2>1. CASE At("drain")
    BY <2>1 DEF At
  <2>2. CASE Running("prog", "forked") /\ Monitor /\ InCmdsub
    <3>1. PICK i \in 1..Len(stack) : stack[i].k = "cmdsub"
      BY <2>2 DEF InCmdsub
    <3>2. "cmdsub" \in Commands
      BY <1>0, <3>1 DEF Kinds, Scripted
    <3>3. stack # <<>> /\ Len(stack) \in 1..Len(stack) /\ stack[Len(stack)].k = "prog"
      BY <2>2, <1>0, TopOf DEF Running, Top
    <3>4. Programs \cap Commands # {}
      BY <1>0, <3>3 DEF Kinds, Scripted
    <3> QED BY <2>2, <3>2, <3>4 DEF NoDrainedFork
  <2> QED BY <2>1, <2>2 DEF job_resume_stopped, Draining
<1>2. PICK p \in Pids : /\ Reapable(p) /\ job_signal(p, StatusOf(p))
                        /\ kid' = IF kid[p].st = "zombie" THEN Reaped(p) ELSE Continued({p})
  BY DEF job_resume_stopped
<1>3. Held' /\ Once' /\ SameMembers
  BY <1>0, <1>2, Collects, SignalHeld
<1>4. Calm(stack)
  BY <1>0, <1>1 DEF Calm, Top
<1> QED BY <1>0, <1>3, <1>4, SignalStep

LEMMA EofExits ==
  ASSUME Safe, Exits, fdstack_data_eof
  PROVE  Exits'
<1>0. /\ TableType /\ Kinds(stack) /\ StackOK(stack) /\ kid' = kid /\ heap' = heap /\ job_list' = job_list
  BY DEF Safe, TableOK, Exits, fdstack_data_eof, kernel, table
<1>1. stack # <<>> /\ Top \in Frames
  BY TopOf DEF fdstack_data_eof, At, Safe, FrameOK
<1>2. JobWait(Top, Top.j, RUN).k = Top.k /\ JobWait(Top, Top.j, RUN).pc = "top"
  BY <1>1 DEF JobWait, Frames
<1>3. Calm(Goto(JobWait(Top, Top.j, RUN)))
  BY <1>0, <1>1, <1>2, CalmGoto
<1>4. Calm(stack')
  BY <1>0, <1>1, <1>3, CalmPop DEF fdstack_data_eof
<1> QED BY <1>0, <1>4, OnlyStackCalm

-----------------------------------------------------------------------------
(* job_wait *)

(* The shell's own variables that the steps below start from.              *)
LEMMA Parts ==
  ASSUME Safe, Exits
  PROVE  KernelType /\ TableOK /\ TableType /\ StackOK(stack) /\ Held /\ Once /\ Kinds(stack)
BY DEF Safe, TableOK, Exits

(* A call with a known entry point, on top of the chain.                   *)
LEMMA CalmPush ==
  ASSUME NEW s, s \in Seq(Frames), Kinds(s), NEW f, Scripted(f.k), f.pc \notin {"fork", "forked"}
  PROVE  Calm(Append(s, f))
BY KindsPush DEF Calm

(* The body of a trap starts.                                              *)
LEMMA TrapCalm ==
  ASSUME NEW s, s \in Seq(Frames), Kinds(s), RunTrap(s)
  PROVE  Calm(stack')
<1>1. FrameOK(Call("trap", "body")) /\ Call("trap", "body").pc = "body" /\ Call("trap", "body").k = "trap"
  BY CallFrame DEF Calls, Pcs
<1>2. Scripted("trap")
  BY DEF Scripted
<1>3. stack' = Append(s, Call("trap", "body"))
  BY DEF RunTrap
<1> QED BY <1>1, <1>2, <1>3, CalmPush DEF FrameOK

LEMMA WaitTrapsExits ==
  ASSUME Safe, Exits, job_wait_traps
  PROVE  Exits'
<1>0. kid' = kid /\ heap' = heap /\ job_list' = job_list
  BY DEF job_wait_traps, kernel, table
<1>1. stack # <<>> /\ Top.pc \in {"top", "err"} /\ FrameOK(Top) /\ Top \in Frames
  BY TopOf DEF job_wait_traps, Waiting, At, Safe, FrameOK
<1>2. PICK f : f = [Top EXCEPT !.pc = IF @ = "top" THEN "chk" ELSE "rechk"]
  OBVIOUS
<1>3. IF trap_signaled THEN RunTrap(Goto(f)) ELSE stack' = Goto(f)
  BY <1>2 DEF job_wait_traps, Step
<1>4. FrameOK(f) /\ f.k = Top.k /\ f.pc \in {"chk", "rechk"}
  <2>1. PICK pc \in {"chk", "rechk"} : f = [Top EXCEPT !.pc = pc]
    BY <1>1, <1>2
  <2>2. pc \in Pcs
    BY DEF Pcs, WaitPcs
  <2>3. FrameOK(f) /\ f.pc = pc
    BY <1>1, <2>1, <2>2, PcFrame
  <2>4. f.k = Top.k
    BY <1>1, <2>1 DEF Frames
  <2> QED BY <2>3, <2>4
<1>5. Calm(Goto(f)) /\ Kinds(Goto(f)) /\ Goto(f) \in Seq(Frames)
  BY <1>1, <1>4, Parts, CalmGoto, KindsGoto, GotoOf DEF StackOK
<1>6. Calm(stack')
  BY <1>3, <1>5, TrapCalm
<1> QED BY <1>0, <1>6, Parts, OnlyStackCalm

LEMMA WaitCheckExits ==
  ASSUME Safe, Exits, job_wait_check
  PROVE  Exits'
<1>0. kid' = kid /\ heap' = heap /\ job_list' = job_list
  BY DEF job_wait_check, kernel, table
<1>1. stack # <<>> /\ Top.pc \in {"chk", "rechk"} /\ Top \in Frames
  BY TopOf DEF job_wait_check, Waiting, At, Safe, FrameOK
<1>2. PICK pc \in {"ret", "scan", "spin"} : stack' = Goto([Top EXCEPT !.pc = pc])
  BY <1>1 DEF job_wait_check, Step
<1>3. [Top EXCEPT !.pc = pc].k = Top.k /\ [Top EXCEPT !.pc = pc].pc = pc
  BY <1>1 DEF Frames
<1> QED BY <1>0, <1>1, <1>2, <1>3, Parts, CalmGoto, OnlyStackCalm

(* The scan, which inside a substitution resumes what has stopped.         *)
LEMMA WaitScanExits ==
  ASSUME Safe, Exits, job_wait_scan
  PROVE  Exits'
<1> DEFINE j == heap[Top.j]
           f == [Top EXCEPT !.st = Scanned(j, Top.st)]
           ended == {i \in 1..j.n : j.stat[i] = STOP}
<1>1. stack # <<>> /\ Top.pc = "scan" /\ Top \in Frames /\ Live(Top.j) /\ job_list' = job_list
  BY TopOf DEF job_wait_scan, Waiting, At, Safe, FrameOK
<1>2. f \in [k : Calls, pc : Pcs, j : Refs \cup {Nil}, cur : Refs \cup {Nil}, left : Int,
             new : Pids \cup {Nil}, st : {Scanned(j, Top.st)}, t0 : Nat, spins : Int,
             todo : Seq(Operand), flag : BOOLEAN] /\ f.k = Top.k
  BY <1>1 DEF Frames
<1>3. \A pc : [f EXCEPT !.pc = pc].k = Top.k /\ [f EXCEPT !.pc = pc].pc = pc
  BY <1>2
<1>4. CASE ended # {} /\ InCmdsub
  <2>1. /\ kid' = Continued(IF Grouped(j) THEN Group(j) ELSE {j.pid[i] : i \in ended})
        /\ heap' = [heap EXCEPT ![Top.j].stat = [i \in 1..j.n |-> IF i \in ended THEN RUN ELSE @[i]]]
        /\ stack' = Goto([f EXCEPT !.pc = "top"])
    BY <1>4 DEF job_wait_scan, Step
  <2>2. KidKept
    BY <2>1, Parts, ContinueKept
  <2>3. Calm(stack')
    BY <1>1, <1>3, <2>1, Parts, CalmGoto
  <2>4. TableKept
    <3>1. PICK r : r = Top.j
      OBVIOUS
    <3>2. r \in Refs /\ heap \in [Refs -> Jobs] /\ heap[r] \in Jobs
      BY <1>1, <3>1, Parts, LiveRef, SizeType DEF TableType
    <3> DEFINE t == [i \in 1..heap[r].n |-> IF i \in ended THEN RUN ELSE heap[r].stat[i]]
    <3>3. heap' = [heap EXCEPT ![r] = [heap[r] EXCEPT !.stat = t]]
      BY <2>1, <3>1, <3>2
    <3>4. \A i \in 1..heap[r].n : t[i] = heap[r].stat[i] \/ (t[i] = RUN /\ heap[r].stat[i] = STOP)
      BY <3>1
    <3> HIDE DEF t
    <3>5. heap'[r].n = heap[r].n /\ heap'[r].pid = heap[r].pid /\ heap'[r].stat = t
      BY <3>2, <3>3 DEF Jobs
    <3>6. \A x \in Refs : x # r => heap'[x] = heap[x]
      BY <3>2, <3>3
    <3>7. JobKept(r)
      BY <3>4, <3>5 DEF JobKept, Unended
    <3>8. \A x \in Refs : Live(x)' => Live(x)
      BY <1>1 DEF Live
    <3> QED BY <3>6, <3>7, <3>8 DEF TableKept, JobKept
  <2> QED BY <2>2, <2>3, <2>4, Parts, CalmStep
<1>5. CASE ~(ended # {} /\ InCmdsub)
  <2>1. /\ stack' = Goto([f EXCEPT !.pc = IF ended # {} \/ ~job_running(j) THEN "fin" ELSE "call"])
        /\ kid' = kid /\ heap' = heap
    BY <1>5 DEF job_wait_scan, Step
  <2>2. PICK pc \in {"fin", "call"} : stack' = Goto([f EXCEPT !.pc = pc])
    BY <2>1
  <2>3. Calm(stack')
    BY <1>1, <1>3, <2>2, Parts, CalmGoto
  <2> QED BY <1>1, <2>1, <2>3, Parts, OnlyStackCalm
<1> QED BY <1>4, <1>5

(* waitpid() reports a child of the job's group.                           *)
LEMMA ReapExits ==
  ASSUME Safe, Exits, waitpid_reap
  PROVE  Exits'
<1>1. stack # <<>> /\ Top \in Frames /\ Live(Top.j)
  BY TopOf DEF waitpid_reap, Waiting, At, Safe, FrameOK
<1>2. PICK p \in Group(heap[Top.j]) :
        /\ Reapable(p) /\ kid' = Reaped(p) /\ job_signal(p, StatusOf(p))
        /\ stack' = Goto([Top EXCEPT !.pc = "top", !.st = StatusOf(p)])
  BY DEF waitpid_reap, Step
<1>3. p \in Pids
  <2>1. PICK r : r = Top.j
    OBVIOUS
  <2>2. r \in Refs /\ \A i \in 1..heap[r].n : heap[r].pid[i] \in Pids \cup {Nil}
    BY <1>1, <2>1, Parts, LiveRef, MemberType
  <2>3. p \in Group(heap[r])
    BY <1>2, <2>1
  <2> QED BY <2>2, <2>3 DEF Group
<1>4. Held' /\ Once' /\ SameMembers
  BY <1>2, <1>3, Parts, Collects, SignalHeld
<1>5. \A st : [Top EXCEPT !.pc = "top", !.st = st].k = Top.k /\ [Top EXCEPT !.pc = "top", !.st = st].pc = "top"
  BY <1>1 DEF Frames
<1>6. Calm(stack')
  BY <1>1, <1>2, <1>5, Parts, CalmGoto
<1>7. ForkOK' /\ RoomOK' /\ Kinds(stack)'
  BY <1>6 DEF ForkOK, RoomOK, Calm, Top, Kinds, Scripted
<1> QED BY <1>4, <1>7 DEF Exits

(* Steps of job_wait() that only move on.                                  *)
LEMMA MoveOnExits ==
  ASSUME Safe, Exits, waitpid_none \/ waitpid_block \/ job_wait_spin \/ job_wait_dangling
  PROVE  Exits'
<1>1. /\ stack # <<>> /\ Top \in Frames /\ kid' = kid /\ heap' = heap /\ job_list' = job_list
  BY TopOf DEF waitpid_none, waitpid_block, job_wait_spin, job_wait_dangling, Waiting, At, Safe, FrameOK, kernel, table
<1>2. PICK f : stack' = Goto(f) /\ f.k = Top.k /\ f.pc \in {"err", "blocked", "fin", "top", "ret"}
  <2>1. CASE waitpid_none
    <3>1. stack' = Goto([Top EXCEPT !.pc = "err"])
      BY <2>1 DEF waitpid_none, Step
    <3> QED BY <1>1, <3>1 DEF Frames
  <2>2. CASE waitpid_block
    <3>1. stack' = Goto([Top EXCEPT !.pc = "blocked"])
      BY <2>2 DEF waitpid_block, Step
    <3> QED BY <1>1, <3>1 DEF Frames
  <2>3. CASE job_wait_spin
    <3>1. PICK pc \in {"fin", "top"} : stack' = Goto([Top EXCEPT !.spins = @ - 1, !.pc = pc])
      BY <2>3 DEF job_wait_spin, Step
    <3>2. PICK f : f = [Top EXCEPT !.spins = @ - 1, !.pc = pc]
      OBVIOUS
    <3>3. f.k = Top.k /\ f.pc = pc
      BY <1>1, <3>2 DEF Frames
    <3> QED BY <3>1, <3>2, <3>3
  <2>4. CASE job_wait_dangling
    <3>1. PICK st : stack' = Goto([Top EXCEPT !.pc = "ret", !.st = st])
      BY <2>4 DEF job_wait_dangling, Step
    <3>2. PICK f : f = [Top EXCEPT !.pc = "ret", !.st = st]
      OBVIOUS
    <3>3. f.k = Top.k /\ f.pc = "ret"
      BY <1>1, <3>2 DEF Frames
    <3> QED BY <3>1, <3>2, <3>3
  <2> QED BY <2>1, <2>2, <2>3, <2>4
<1>3. Calm(stack')
  BY <1>1, <1>2, Parts, CalmGoto
<1> QED BY <1>1, <1>3, Parts, OnlyStackCalm

(* job_wait() frees the job when nothing of it remains.                    *)
LEMMA WaitFinishExits ==
  ASSUME Safe, Exits, job_wait_finish
  PROVE  Exits'
<1>1. stack # <<>> /\ Top \in Frames /\ kid' = kid
  BY TopOf DEF job_wait_finish, Waiting, At, Safe, FrameOK, kernel
<1>2. PICK st : stack' = Goto([Top EXCEPT !.pc = "ret", !.st = st])
  BY DEF job_wait_finish, Step
<1>3. [Top EXCEPT !.pc = "ret", !.st = st].k = Top.k /\ [Top EXCEPT !.pc = "ret", !.st = st].pc = "ret"
  BY <1>1 DEF Frames
<1>4. Calm(stack')
  BY <1>1, <1>2, <1>3, Parts, CalmGoto
<1>5. TableKept
  BY Parts, FreeKept, SameTableKept DEF job_wait_finish, table
<1> QED BY <1>1, <1>4, <1>5, Parts, SameKids, CalmStep

-----------------------------------------------------------------------------
(* What job_wait() returns to, and the other builtins *)

LEMMA ReturnsExits ==
  ASSUME Safe, Exits, eval_pipeline_return \/ exec_program_return \/ fg_return
  PROVE  Exits'
<1>1. stack # <<>> /\ kid' = kid /\ stack' = Pop(stack)
  BY DEF eval_pipeline_return, exec_program_return, fg_return, Running, Return, kernel
<1>2. Calm(stack')
  BY <1>1, Parts, CalmPop
<1>3. TableKept
  BY Parts, FreeKept, SameTableKept DEF eval_pipeline_return, exec_program_return, fg_return, table
<1> QED BY <1>1, <1>2, <1>3, Parts, SameKids, CalmStep

LEMMA WaitStepsExits ==
  ASSUME Safe, Exits, wait_next \/ wait_return
  PROVE  Exits'
<1>1. /\ stack # <<>> /\ Top \in Frames /\ kid' = kid /\ heap' = heap /\ job_list' = job_list
  BY TopOf DEF wait_next, wait_return, Running, Safe, FrameOK, kernel, table
<1>2. stack' = Pop(stack) \/ \E f : stack' = Goto(f) /\ f.k = Top.k /\ f.pc \in {"top", "next"}
  <2>1. CASE wait_next
    <3>1. \/ stack' = Pop(stack)
          \/ \E r : stack' = Goto(JobWait(Top, r, 0))
          \/ \E t : Top.pc = "next" /\ stack' = Goto([Top EXCEPT !.todo = t])
      BY <2>1 DEF wait_next, Step, Return, Running
    <3>2. \A r : JobWait(Top, r, 0).k = Top.k /\ JobWait(Top, r, 0).pc = "top"
      BY <1>1 DEF JobWait, Frames
    <3>3. \A t : [Top EXCEPT !.todo = t].k = Top.k /\ [Top EXCEPT !.todo = t].pc = Top.pc
      BY <1>1 DEF Frames
    <3> QED BY <3>1, <3>2, <3>3
  <2>2. CASE wait_return
    <3>1. \/ stack' = Pop(stack)
          \/ \E t : stack' = Goto([Top EXCEPT !.pc = "next", !.j = Nil, !.st = 0, !.todo = t])
      BY <2>2 DEF wait_return, Step, Return
    <3>2. \A t : /\ [Top EXCEPT !.pc = "next", !.j = Nil, !.st = 0, !.todo = t].k = Top.k
                 /\ [Top EXCEPT !.pc = "next", !.j = Nil, !.st = 0, !.todo = t].pc = "next"
      BY <1>1 DEF Frames
    <3> QED BY <3>1, <3>2
  <2> QED BY <2>1, <2>2
<1>3. Calm(stack')
  BY <1>1, <1>2, Parts, CalmGoto, CalmPop
<1> QED BY <1>1, <1>3, Parts, OnlyStackCalm

(* The walks of job_clean and job_discard free what they stand on.         *)
LEMMA WalksExits ==
  ASSUME Safe, Exits, job_clean \/ job_discard
  PROVE  Exits'
<1>1. stack # <<>> /\ Top \in Frames /\ kid' = kid /\ Top.pc \in {"clean", "discard"}
  BY TopOf DEF job_clean, job_discard, At, Safe, FrameOK, kernel
<1>2. PICK c : stack' = Goto([Top EXCEPT !.cur = c])
  BY DEF job_clean, job_discard, Step
<1>3. [Top EXCEPT !.cur = c].k = Top.k /\ [Top EXCEPT !.cur = c].pc = Top.pc
  BY <1>1 DEF Frames
<1>4. Calm(stack')
  BY <1>1, <1>2, <1>3, Parts, CalmGoto
<1>5. TableKept
  BY Parts, FreeKept, SameTableKept DEF job_clean, job_discard, table
<1> QED BY <1>1, <1>4, <1>5, Parts, SameKids, CalmStep

LEMMA WalkEndsExits ==
  ASSUME Safe, Exits, job_clean_end \/ job_discard_end
  PROVE  Exits'
<1>1. stack # <<>> /\ stack' = Pop(stack) /\ kid' = kid /\ heap' = heap /\ job_list' = job_list
  BY DEF job_clean_end, job_discard_end, At, Return, kernel, table
<1>2. Calm(stack')
  BY <1>1, Parts, CalmPop
<1> QED BY <1>1, <1>2, Parts, OnlyStackCalm

(* The end of a command body.                                              *)
LEMMA BodyEndExits ==
  ASSUME Safe, Exits, body_end
  PROVE  Exits'
<1>1. stack # <<>> /\ Top \in Frames /\ kid' = kid /\ heap' = heap /\ job_list' = job_list
  BY TopOf DEF body_end, At, Safe, FrameOK, kernel, table
<1>2. \/ stack' = Pop(stack)
      \/ stack' = Goto(JobWait(Top, Top.j, RUN))
      \/ stack' = Goto([Top EXCEPT !.pc = "discard", !.cur = First])
  BY DEF body_end, Return, Step
<1>3. JobWait(Top, Top.j, RUN).k = Top.k /\ JobWait(Top, Top.j, RUN).pc = "top"
  BY <1>1 DEF JobWait, Frames
<1>4. PICK c : c = First
  OBVIOUS
<1>5. [Top EXCEPT !.pc = "discard", !.cur = c].k = Top.k /\ [Top EXCEPT !.pc = "discard", !.cur = c].pc = "discard"
  BY <1>1 DEF Frames
<1>6. Calm(stack')
  <2>1. CASE stack' = Pop(stack)
    BY <1>1, <2>1, Parts, CalmPop
  <2>2. CASE stack' = Goto(JobWait(Top, Top.j, RUN))
    BY <1>1, <1>3, <2>2, Parts, CalmGoto
  <2>3. CASE stack' = Goto([Top EXCEPT !.pc = "discard", !.cur = c])
    BY <1>1, <1>5, <2>3, Parts, CalmGoto
  <2> QED BY <1>2, <1>4, <2>1, <2>2, <2>3
<1> QED BY <1>1, <1>6, Parts, OnlyStackCalm

(* Traps run between commands.                                             *)
LEMMA RunPendingExits ==
  ASSUME Safe, Exits, trap_run_pending
  PROVE  Exits'
<1>1. kid' = kid /\ heap' = heap /\ job_list' = job_list /\ RunTrap(stack) /\ stack \in Seq(Frames)
  BY DEF trap_run_pending, kernel, table, Safe, StackOK
<1> QED BY <1>1, Parts, TrapCalm, OnlyStackCalm

(* Commands that only enter a call.                                        *)
LEMMA EnterExits ==
  ASSUME Safe, Exits,
         wait_all \/ (\E specs \in SpecSeqs : wait_operands(specs)) \/ builtin_jobs \/ job_update
           \/ (\E k \in {"sub", "cmdsub"} : eval_subshell(k))
  PROVE  Exits'
<1>1. kid' = kid /\ heap' = heap /\ job_list' = job_list /\ stack \in Seq(Frames)
  BY DEF wait_all, wait_operands, builtin_jobs, job_update, eval_subshell, kernel, table, Safe, StackOK
<1>2. PICK f : stack' = Append(stack, f) /\ Scripted(f.k) /\ f.pc \in {"next", "clean", "body"}
  <2>1. CASE wait_all
    <3>1. stack' = Append(stack, Call("wait", "next"))
      BY <2>1 DEF wait_all, Push
    <3>2. Call("wait", "next").k = "wait" /\ Call("wait", "next").pc = "next"
      BY DEF Call
    <3> QED BY <3>1, <3>2 DEF Scripted
  <2>2. CASE \E specs \in SpecSeqs : wait_operands(specs)
    <3>1. PICK t : stack' = Append(stack, [Call("waitops", "next") EXCEPT !.todo = t])
      BY <2>2 DEF wait_operands, Push
    <3>2. PICK f : f = [Call("waitops", "next") EXCEPT !.todo = t]
      OBVIOUS
    <3>3. f.k = "waitops" /\ f.pc = "next"
      BY <3>2 DEF Call
    <3> QED BY <3>1, <3>2, <3>3 DEF Scripted
  <2>3. CASE builtin_jobs \/ job_update
    <3>0. PICK k \in {"jobs", "update"} : \E c : stack' = Append(stack, [Call(k, "clean") EXCEPT !.cur = c])
      BY <2>3 DEF builtin_jobs, job_update, Push
    <3>1. PICK c : stack' = Append(stack, [Call(k, "clean") EXCEPT !.cur = c])
      BY <3>0
    <3>2. PICK f : f = [Call(k, "clean") EXCEPT !.cur = c]
      OBVIOUS
    <3>3. f.k = k /\ f.pc = "clean"
      BY <3>2 DEF Call
    <3> QED BY <3>1, <3>2, <3>3 DEF Scripted
  <2>4. CASE \E k \in {"sub", "cmdsub"} : eval_subshell(k)
    <3>1. PICK k \in {"sub", "cmdsub"} : eval_subshell(k)
      BY <2>4
    <3>2. PICK b : b = job_bgpid
      OBVIOUS
    <3>3. PICK f : f = [Call(k, "body") EXCEPT !.new = b]
      OBVIOUS
    <3>4. stack' = Append(stack, f) /\ k \in Commands
      BY <3>1, <3>2, <3>3, CmdScripted DEF eval_subshell, Push
    <3>5. f.k = k /\ f.pc = "body"
      BY <3>3 DEF Call
    <3> QED BY <3>4, <3>5 DEF Scripted
  <2> QED BY <2>1, <2>2, <2>3, <2>4
<1>3. Calm(stack')
  BY <1>1, <1>2, Parts, CalmPush
<1> QED BY <1>1, <1>3, Parts, OnlyStackCalm

(* fg and bg resume the stopped members and no others.                     *)
LEMMA ResumeKept ==
  ASSUME Safe, NEW r, r \in Refs, Live(r), NEW b \in BOOLEAN, ResumeAs(r, b)
  PROVE  KidKept /\ TableKept
<1>1. heap \in [Refs -> Jobs] /\ heap[r] \in Jobs /\ job_list' = job_list /\ KernelType
  BY DEF Safe, TableOK, TableType, ResumeAs
<1>2. KidKept
  BY <1>1, SameKids, ContinueKept DEF ResumeAs
<1> DEFINE t == [i \in DOMAIN heap[r].stat |-> IF heap[r].stat[i] = STOP THEN RUN ELSE heap[r].stat[i]]
<1>3. heap' = [heap EXCEPT ![r] = [heap[r] EXCEPT !.bgnd = b, !.stat = t]]
  BY <1>1 DEF ResumeAs, Jobs
<1>4. DOMAIN heap[r].stat = 1..heap[r].n
  BY <1>1 DEF Jobs
<1>5. \A i \in 1..heap[r].n : t[i] = heap[r].stat[i] \/ (t[i] = RUN /\ heap[r].stat[i] = STOP)
  BY <1>4
<1> HIDE DEF t
<1>6. heap'[r].n = heap[r].n /\ heap'[r].pid = heap[r].pid /\ heap'[r].stat = t
  BY <1>1, <1>3 DEF Jobs
<1>7. \A x \in Refs : x # r => heap'[x] = heap[x]
  BY <1>1, <1>3
<1>8. JobKept(r)
  BY <1>5, <1>6 DEF JobKept, Unended
<1>9. TableKept
  BY <1>1, <1>7, <1>8 DEF TableKept, JobKept, Live
<1> QED BY <1>2, <1>9

LEMMA FgBgExits ==
  ASSUME Safe, Exits, builtin_fg \/ builtin_bg
  PROVE  Exits'
<1>1. CASE builtin_fg
  <2>1. PICK r \in Resolved \ {Nil} : ResumeAs(r, FALSE) /\ stack' = Append(stack, JobWait(Call("fg", "top"), r, 0))
    BY <1>1 DEF builtin_fg, Push
  <2>2. KidKept /\ TableKept
    BY <2>1, ResolvedLive, ResumeKept
  <2>3. Call("fg", "top") \in Frames /\ Call("fg", "top").k = "fg" /\ stack \in Seq(Frames)
    BY CallFrame DEF Calls, Pcs, WaitPcs, FrameOK, Safe, StackOK
  <2>4. JobWait(Call("fg", "top"), r, 0).k = "fg" /\ JobWait(Call("fg", "top"), r, 0).pc = "top"
    BY <2>3 DEF JobWait, Frames
  <2>5. Scripted("fg")
    BY DEF Scripted
  <2>6. Calm(stack')
    BY <2>1, <2>3, <2>4, <2>5, Parts, CalmPush
  <2> QED BY <2>2, <2>6, Parts, CalmStep
<1>2. CASE builtin_bg
  <2>1. PICK r \in Resolved \ {Nil} : ResumeAs(r, TRUE)
    BY <1>2 DEF builtin_bg
  <2>2. KidKept /\ TableKept
    BY <2>1, ResolvedLive, ResumeKept
  <2>3. stack = <<>> \/ stack[Len(stack)].pc \in Resting
    BY <1>2, CmdRests DEF builtin_bg
  <2>4. stack' = stack
    BY <1>2 DEF builtin_bg
  <2>5. Calm(stack')
    BY <2>3, <2>4, Parts DEF Calm, Resting
  <2> QED BY <2>2, <2>5, Parts, CalmStep
<1> QED BY <1>1, <1>2

-----------------------------------------------------------------------------
(* The theorem *)

LEMMA InitExits == Init => Exits
<1> SUFFICES ASSUME Init PROVE Exits
  OBVIOUS
<1>1. stack = <<>> /\ Len(stack) = 0
  BY DEF Init
<1>2. \A r : ~Live(r)
  BY DEF Init, Live
<1> QED BY <1>1, <1>2 DEF Exits, Held, Once, ForkOK, RoomOK, Kinds

LEMMA StepExits ==
  ASSUME ~PidReuse, NoDrainedFork
  PROVE  Safe /\ Exits /\ [Next]_vars => Exits'
<1> SUFFICES ASSUME Safe, Exits, [Next]_vars PROVE Exits'
  OBVIOUS
<1>1. CASE Script
  <2>1. CASE eval_node_bgnd
    BY <2>1, BgndExits
  <2>2. CASE \E n \in 0..MaxProcs, last, pipefail \in BOOLEAN : eval_pipeline(n, last, pipefail)
    BY <2>2, PipelineExits
  <2>3. CASE \E bgnd \in BOOLEAN : exec_program(bgnd) \/ exec_program_fails(bgnd)
    BY <2>3, ExecExits, ExecFailsExits
  <2>4. CASE builtin_fg \/ builtin_bg
    BY <2>4, FgBgExits
  <2>5. CASE wait_all \/ (\E specs \in SpecSeqs : wait_operands(specs)) \/ builtin_jobs \/ job_update
               \/ (\E k \in {"sub", "cmdsub"} : eval_subshell(k))
    BY <2>5, EnterExits
  <2> QED BY <1>1, <2>1, <2>2, <2>3, <2>4, <2>5 DEF Script
<1>2. CASE Shell
  <2>1. CASE job_fork \/ job_fork_parent \/ job_fork_fails \/ exec_program_parent
    BY <2>1, ForkExits, ForkParentExits, ForkFailsExits, ExecParentExits
  <2>2. CASE job_resume_stopped \/ fdstack_data_eof
    BY <2>2, ResumeStoppedExits, EofExits
  <2>3. CASE job_wait_traps \/ job_wait_check \/ job_wait_scan
    BY <2>3, WaitTrapsExits, WaitCheckExits, WaitScanExits
  <2>4. CASE waitpid_reap
    BY <2>4, ReapExits
  <2>5. CASE waitpid_none \/ waitpid_block \/ job_wait_spin \/ job_wait_dangling
    BY <2>5, MoveOnExits
  <2>6. CASE job_wait_finish \/ eval_pipeline_return \/ exec_program_return \/ fg_return
    BY <2>6, WaitFinishExits, ReturnsExits
  <2>7. CASE wait_next \/ wait_return
    BY <2>7, WaitStepsExits
  <2>8. CASE job_clean \/ job_discard \/ job_clean_end \/ job_discard_end
    BY <2>8, WalksExits, WalkEndsExits
  <2>9. CASE body_end \/ trap_run_pending
    BY <2>9, BodyEndExits, RunPendingExits
  <2> QED BY <1>2, <2>1, <2>2, <2>3, <2>4, <2>5, <2>6, <2>7, <2>8, <2>9 DEF Shell
<1>3. CASE Kernel
  <2>1. CASE \E p \in Pids : (\E c \in Codes : ChildExit(p, c)) \/ ChildStop(p) \/ ChildCont(p)
    BY <2>1, ChildExits
  <2>2. CASE sh_onsig \/ trap_relay
    BY <2>2, OnsigExits, RelayExits
  <2> QED BY <1>3, <2>1, <2>2 DEF Kernel
<1>4. CASE UNCHANGED vars
  <2>1. kid' = kid /\ heap' = heap /\ job_list' = job_list /\ stack' = stack /\ mask' = mask
    BY <1>4 DEF vars, kernel, table
  <2> QED BY <2>1, Parts, SameKids, StandStill
<1> QED BY <1>1, <1>2, <1>3, <1>4 DEF Next

(* In every reachable state of the job layer, whatever the interleaving of *)
(* children, SIGCHLD handler, waits, drains, traps and the commands that   *)
(* start, resume and drop jobs: while a job is listed, a member recorded   *)
(* as running has been reaped by nobody, and one recorded as ended carries *)
(* the code it really ended with.  This needs job_fork's and               *)
(* exec_program's blocking of SIGCHLD between fork() and registration; it  *)
(* holds for every number of processes, jobs, members, calls and signals,  *)
(* if process ids are not reused and no drain can run in that window.      *)
THEOREM ExitsNeverLost ==
  ASSUME ~PidReuse, NoDrainedFork
  PROVE  Spec => []NoExitLost
<1>1. Init => Safe /\ Exits
  BY InitSafe, InitExits
<1>2. Safe /\ Exits /\ [Next]_vars => (Safe /\ Exits)'
  BY StepSafe, StepExits
<1>3. Safe /\ Exits => NoExitLost
  <2> SUFFICES ASSUME Exits, NEW r \in Refs, Live(r), NEW i \in 1..heap[r].n, heap[r].pid[i] # Nil
               PROVE  /\ heap[r].stat[i] = RUN => Exists(heap[r].pid[i])
                      /\ heap[r].stat[i] \in Codes => /\ kid[heap[r].pid[i]].st = "reaped"
                                                      /\ kid[heap[r].pid[i]].code = heap[r].stat[i]
    BY DEF NoExitLost
  <2>1. Told(r, i)
    BY DEF Exits, Held
  <2> QED BY <2>1 DEF Told
<1> QED BY <1>1, <1>2, <1>3, PTL DEF Spec
=============================================================================
