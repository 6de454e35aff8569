---------------------------- MODULE WaitsProofs -----------------------------
(***************************************************************************)
(* What holds of the calls that wait for jobs, for every number of         *)
(* processes, jobs, nested calls and signals: job_wait() never works on a  *)
(* freed job (NoDanglingWait), a trap ends an interruptible wait           *)
(* (TrapEndsWait), a subshell waits for its own jobs (OwnJobsOnly) and a   *)
(* stopped job stays listed (StoppedJobKept), each under the restriction   *)
(* of the commands in use without which the code breaks it.                *)
(***************************************************************************)
EXTENDS ExitsProofs

-----------------------------------------------------------------------------
(* Calls and what they hold *)

Subs == {"sub", "cmdsub"}
Waits == {"wait", "waitops"}
(* Where in it a call can be.                                              *)
PcsOf(k) ==
  CASE k = "bg" -> {"fork", "forked", "drain"}
    [] k = "pipe" -> {"fork", "forked", "drain", "body", "ret"} \cup WaitPcs
    [] k = "prog" -> {"forked", "ret"} \cup WaitPcs
    [] k \in Waits -> {"next", "ret"} \cup WaitPcs
    [] k = "fg" -> {"ret"} \cup WaitPcs
    [] k \in {"jobs", "update"} -> {"clean"}
    [] k \in Subs -> {"body", "discard"}
    [] k = "trap" -> {"body"}
Placed(f) == f.pc \in PcsOf(f.k) /\ (f.k = "bg" => f.left <= 1)
Places(s) == \A i \in 1..Len(s) : Placed(s[i])

(* A call that will use its job again, or at least free it.                *)
Holding(f) == f.pc \in WaitPcs \/ (f.k \in {"bg", "pipe"} /\ f.pc \in {"fork", "forked", "drain", "body"})
Owning(f)  == Holding(f) \/ (f.k = "pipe" /\ f.pc = "ret")
(* The subshell levels a call stands for.                                  *)
One(f) == IF f.k \in Subs /\ f.pc = "body" THEN 1 ELSE 0

-----------------------------------------------------------------------------
(* What a step does to the call chain: the calls up to n stay, and above   *)
(* them there is nothing, or f, perhaps interrupted by a trap.             *)

TrapBody == Call("trap", "body")
Keeps(n) == n \in 0..Len(stack) /\ Len(stack) <= n + 1 /\ \A i \in 1..n : stack'[i] = stack[i]
Off(n) == Keeps(n) /\ Len(stack') = n
Onto(n, f) == Keeps(n) /\ Len(stack') \in {n + 1, n + 2} /\ stack'[n + 1] = f
                /\ (Len(stack') = n + 2 => stack'[n + 2] = TrapBody)

(* A call that goes on.                                                    *)
LEMMA GotoIs ==
  ASSUME StackOK(stack), stack # <<>>, NEW f
  PROVE  /\ Len(stack) \in Nat /\ Len(stack) >= 1 /\ Len(Goto(f)) = Len(stack)
         /\ Goto(f)[Len(stack)] = f /\ \A i \in 1..(Len(stack) - 1) : Goto(f)[i] = stack[i]
<1> DEFINE S == Frames \cup {f}
<1>1. stack \in Seq(Frames) /\ Len(stack) \in Nat /\ Len(stack) >= 1
  BY DEF StackOK
<1>2. stack \in Seq(S) /\ f \in S
  BY <1>1
<1> HIDE DEF S
<1>3. /\ Goto(f) \in Seq(S) /\ Len(Goto(f)) = Len(stack)
      /\ Goto(f)[Len(stack)] = f
      /\ \A i \in 1..(Len(stack) - 1) : Goto(f)[i] = stack[i]
  BY <1>1, <1>2 DEF Goto
<1> QED BY <1>1, <1>3

LEMMA OntoGoto ==
  ASSUME StackOK(stack), stack # <<>>, NEW f, stack' = Goto(f)
  PROVE  Onto(Len(stack) - 1, f)
<1>1. /\ Len(stack) \in Nat /\ Len(stack) >= 1 /\ Len(stack') = Len(stack)
      /\ stack'[Len(stack)] = f /\ \A i \in 1..(Len(stack) - 1) : stack'[i] = stack[i]
  BY GotoIs
<1> QED BY <1>1 DEF Onto, Keeps

(* A return.                                                               *)
LEMMA OffPop ==
  ASSUME StackOK(stack), stack # <<>>, stack' = Pop(stack)
  PROVE  Off(Len(stack) - 1)
<1> DEFINE n == Len(stack) - 1
<1>1. n \in Nat /\ 1 \in Int /\ n \in Int /\ \A i \in 1..n : stack[i] \in Frames
  BY DEF StackOK
<1>2. Len(stack) = n + 1
  BY <1>1
<1> HIDE DEF n
<1>3. /\ Len(SubSeq(stack, 1, n)) = (IF 1 <= n THEN n - 1 + 1 ELSE 0)
      /\ \A i \in 1..(n - 1 + 1) : SubSeq(stack, 1, n)[i] = stack[1 + i - 1]
  BY <1>1, SubSeqProperties
<1>4. Len(SubSeq(stack, 1, n)) = n /\ \A i \in 1..n : SubSeq(stack, 1, n)[i] = stack[i]
  BY <1>1, <1>3
<1>5. stack' = SubSeq(stack, 1, n)
  BY DEF Pop, n
<1>6. Off(n)
  BY <1>1, <1>2, <1>4, <1>5 DEF Off, Keeps
<1> QED BY <1>6 DEF n

(* A call that starts, on top of any chain.                                *)
LEMMA PushIs ==
  ASSUME NEW S, NEW s \in Seq(S), NEW f
  PROVE  /\ Len(s) \in Nat /\ Len(Append(s, f)) = Len(s) + 1 /\ Append(s, f)[Len(s) + 1] = f
         /\ \A i \in 1..Len(s) : Append(s, f)[i] = s[i]
<1>1. s \in Seq(S \cup {f}) /\ f \in S \cup {f}
  OBVIOUS
<1> QED BY <1>1

LEMMA OntoPush ==
  ASSUME StackOK(stack), NEW f, stack' = Append(stack, f)
  PROVE  Onto(Len(stack), f)
<1>1. stack \in Seq(Frames) /\ Len(stack) \in Nat
  BY DEF StackOK
<1>2. /\ Len(stack') = Len(stack) + 1 /\ stack'[Len(stack) + 1] = f
      /\ \A i \in 1..Len(stack) : stack'[i] = stack[i]
  BY <1>1, PushIs
<1> QED BY <1>1, <1>2 DEF Onto, Keeps

(* A call that is interrupted by a trap.                                   *)
LEMMA OntoTrap ==
  ASSUME StackOK(stack), stack # <<>>, NEW f, FrameOK(f), stack' = Append(Goto(f), TrapBody)
  PROVE  Onto(Len(stack) - 1, f)
<1> DEFINE g == Goto(f)
<1>1. /\ Len(stack) \in Nat /\ Len(stack) >= 1 /\ Len(g) = Len(stack)
      /\ g[Len(stack)] = f /\ \A i \in 1..(Len(stack) - 1) : g[i] = stack[i]
  BY GotoIs
<1>2. g \in Seq(Frames)
  BY GotoOf DEF StackOK
<1> HIDE DEF g
<1>3. /\ Len(stack') = Len(g) + 1 /\ stack'[Len(g) + 1] = TrapBody
      /\ \A i \in 1..Len(g) : stack'[i] = g[i]
  BY <1>2, PushIs DEF g
<1> QED BY <1>1, <1>3 DEF Onto, Keeps

(* Nothing happens to the chain.                                           *)
LEMMA OffSame ==
  ASSUME StackOK(stack), stack' = stack
  PROVE  Off(Len(stack))
<1>1. Len(stack) \in Nat
  BY DEF StackOK
<1> QED BY <1>1 DEF Off, Keeps

-----------------------------------------------------------------------------
(* What a step does to the jobs *)

SameJobs == job_list' = job_list /\ \A r \in Refs : heap'[r].level = heap[r].level
Added(r) ==
  /\ r \in Refs /\ ~Live(r)
  /\ \A x : Live(x)' <=> (Live(x) \/ x = r)
  /\ \A x \in Refs : x # r => heap'[x] = heap[x]
  /\ heap'[r].level = sh_subshell
Dropped(r) ==
  /\ r \in Refs /\ Live(r)
  /\ \A x : Live(x)' <=> (Live(x) /\ x # r)
  /\ \A x \in Refs : x # r => heap'[x] = heap[x]
  /\ heap'[r].level = 0

LEMMA TableJobs ==
  ASSUME UNCHANGED table
  PROVE  SameJobs /\ SameMembers
BY DEF table, SameJobs, SameMembers

LEMMA NewJobs ==
  ASSUME TableOK, NEW r, NEW n \in Nat, NEW b, NEW c, NEW p, job_new(r, n, b, c, p)
  PROVE  Added(r)
<1> DEFINE J == [id |-> NewId, n |-> n, level |-> sh_subshell, bgnd |-> b,
                 pipefail |-> c, pid |-> [i \in 1..n |-> p], stat |-> [i \in 1..n |-> RUN]]
<1>1. Listed(r, n, p)
  BY NewListed
<1>2. heap' = [heap EXCEPT ![r] = J] /\ J.level = sh_subshell /\ heap \in [Refs -> Jobs]
  BY DEF job_new, TableOK, TableType
<1> HIDE DEF J
<1>3. heap'[r].level = sh_subshell
  BY <1>1, <1>2 DEF Listed
<1> QED BY <1>1, <1>3 DEF Listed, Added

LEMMA FreeJobs ==
  ASSUME TableOK, NEW r, job_free(r)
  PROVE  SameJobs \/ Dropped(r)
<1>1. CASE Live(r)
  <2>1. r \in Refs /\ heap \in [Refs -> Jobs]
    BY <1>1, LiveRef DEF TableOK, TableType
  <2>2. heap' = [heap EXCEPT ![r] = NoJob]
    BY <1>1 DEF job_free, job_delete
  <2>3. heap'[r].level = 0 /\ \A x \in Refs : x # r => heap'[x] = heap[x]
    BY <2>1, <2>2 DEF NoJob
  <2> QED BY <1>1, <2>1, <2>3, JobFreeTable DEF Dropped
<1>2. CASE ~Live(r)
  BY <1>2, TableJobs DEF job_free
<1> QED BY <1>1, <1>2

LEMMA SignalJobs ==
  ASSUME TableOK, NEW p, NEW s, job_signal(p, s)
  PROVE  SameJobs /\ SameMembers
<1> DEFINE r == job_bypid(p)
           m == Member(r, p)
<1>1. CASE r = Nil
  BY <1>1, TableJobs DEF job_signal
<1>2. CASE r # Nil
  <2>1. job_list' = job_list /\ heap' = [heap EXCEPT ![r].stat[m] = s] /\ heap \in [Refs -> Jobs]
    BY <1>2 DEF job_signal, TableOK, TableType
  <2> HIDE DEF r, m
  <2>2. \A x \in Refs : heap'[x].level = heap[x].level /\ heap'[x].n = heap[x].n /\ heap'[x].pid = heap[x].pid
    BY <2>1 DEF Jobs
  <2> QED BY <2>1, <2>2 DEF SameJobs, SameMembers
<1> QED BY <1>1, <1>2

LEMMA ResumeJobs ==
  ASSUME TableOK, NEW r \in Refs, NEW b, ResumeAs(r, b)
  PROVE  SameJobs /\ SameMembers
<1>1. heap \in [Refs -> Jobs] /\ job_list' = job_list
  BY DEF TableOK, TableType, ResumeAs
<1>2. PICK t : heap' = [heap EXCEPT ![r].bgnd = b, ![r].stat = t]
  BY DEF ResumeAs
<1>3. \A x \in Refs : heap'[x].level = heap[x].level /\ heap'[x].n = heap[x].n /\ heap'[x].pid = heap[x].pid
  BY <1>1, <1>2 DEF Jobs
<1> QED BY <1>1, <1>3 DEF SameJobs, SameMembers

-----------------------------------------------------------------------------
(* The kinds of step *)

Quiet == UNCHANGED <<sh_subshell, job_wait_interruptible>>
Stays == SameJobs /\ SameMembers /\ Quiet /\ Off(Len(stack))

(* A call goes on with the job it has, and holds nothing new.              *)
Follows(f) ==
  /\ f.k = Top.k /\ Placed(f) /\ One(f) = One(Top)
  /\ Owning(f) => Owning(Top) /\ f.j = Top.j
  /\ Holding(f) => Holding(Top)
  /\ f.k \in Waits \cup {"fg"} /\ f.pc \in WaitPcs => Top.pc \in WaitPcs
  /\ f.todo = Top.todo
  /\ f.pc \notin {"next", "discard", "clean"} /\ (f.k = "bg" => f.pc # "fork")
Goes == stack # <<>> /\ SameJobs /\ Quiet /\ \E f : Follows(f) /\ Onto(Len(stack) - 1, f)

(* A call returns.                                                         *)
Leaves ==
  /\ stack # <<>> /\ SameJobs /\ UNCHANGED sh_subshell
  /\ Top.k \in Waits \/ UNCHANGED job_wait_interruptible
  /\ One(Top) = 0 /\ (Top.k \in Subs => Top.cur = Nil) /\ Off(Len(stack) - 1)

(* A call starts that makes no job.                                        *)
KindOf(c) == IF c = "progbg" THEN "prog" ELSE c
Looked(specs) == [i \in 1..Len(specs) |-> [spec |-> specs[i], j |-> job_find(specs[i])]]
Starts(f) ==
  /\ Placed(f) /\ (f.k = "trap" \/ \E c : Cmd(c) /\ f.k = KindOf(c))
  /\ f.k \notin {"bg", "pipe"} /\ (f.k \in Subs => f.pc = "body")
  /\ f.k \in Waits => f.pc = "next"
  /\ f.k = "waitops" => \E specs \in SpecSeqs : f.todo = Looked(specs)
  /\ f.k = "prog" => f.pc = "forked"
  /\ f.k = "fg" => Monitor /\ f.j \in Resolved \ {Nil}
Begins ==
  /\ SameJobs /\ UNCHANGED job_wait_interruptible
  /\ stack = <<>> \/ At("body")
  /\ \E f : Starts(f) /\ sh_subshell' = sh_subshell + One(f) /\ Onto(Len(stack), f)

(* A call starts that makes a job before it forks, or registers one after. *)
Launches ==
  /\ Quiet /\ (stack = <<>> \/ At("body"))
  /\ \E r, f : /\ Added(r) /\ Onto(Len(stack), f)
               /\ f.k \in {"bg", "pipe"} /\ Cmd(f.k) /\ f.pc \in {"fork", "body"} /\ Placed(f) /\ f.j = r
               /\ f.k = "bg" => heap'[r].n = 1 /\ heap'[r].pid[1] = Nil /\ heap'[r].stat[1] = RUN
Registers ==
  /\ stack # <<>> /\ Top.k = "prog" /\ Quiet
  /\ \E r : /\ Added(r)
            /\ \/ Off(Len(stack) - 1)
               \/ \E f : Onto(Len(stack) - 1, f) /\ f.k = "prog" /\ f.pc = "top" /\ f.j = r

(* A call frees its job, and returns or is about to.                       *)
Frees ==
  /\ stack # <<>> /\ Quiet /\ Owning(Top) /\ Dropped(Top.j)
  /\ job_done(heap[Top.j]) \/ Top.k = "pipe" \/ (Top.k = "bg" /\ Top.pc = "fork")
  /\ \/ Off(Len(stack) - 1)
     \/ \E f : /\ Onto(Len(stack) - 1, f)
               /\ f.k = Top.k /\ f.pc = "ret" /\ Placed(f) /\ f.j = Top.j /\ f.todo = Top.todo

(* "wait" turns to a job, or is done with one.                             *)
Target == IF Top.k = "wait" THEN job_first ELSE Head(Top.todo).j
Turns ==
  /\ stack # <<>> /\ Top.k \in Waits /\ Top.pc = "next" /\ (Top.k = "waitops" => Top.todo # <<>>)
  /\ SameJobs /\ UNCHANGED sh_subshell /\ job_wait_interruptible' = TRUE /\ Target # Nil
  /\ \E f : Onto(Len(stack) - 1, f) /\ f.k = Top.k /\ f.pc = "top" /\ f.todo = Top.todo /\ f.j = Target
Finishes ==
  /\ stack # <<>> /\ Top.k \in Waits /\ (Top.k = "waitops" => Top.todo # <<>>)
  /\ SameJobs /\ UNCHANGED sh_subshell
  /\ \E f : /\ Onto(Len(stack) - 1, f) /\ f.k = Top.k /\ f.pc = "next"
            /\ f.todo = IF Top.k = "wait" THEN Top.todo ELSE Tail(Top.todo)

(* job_clean and job_discard look at one job; a subshell is left.          *)
Walks ==
  /\ stack # <<>> /\ Top.pc \in {"clean", "discard"} /\ Top.cur # Nil /\ Quiet
  /\ \/ SameJobs /\ (Top.pc = "discard" => heap[Top.cur].level <= sh_subshell)
     \/ Dropped(Top.cur) /\ job_list' = RemoveAt(job_list, Pos(job_list, Top.cur))
        /\ (Top.pc = "clean" => job_done(heap[Top.cur]))
  /\ Onto(Len(stack) - 1, [Top EXCEPT !.cur = After(Top.cur)]) /\ Len(stack') = Len(stack)
SubEnds ==
  /\ stack # <<>> /\ Top.k \in Subs /\ Top.pc = "body"
  /\ SameJobs /\ UNCHANGED job_wait_interruptible /\ sh_subshell' = sh_subshell - 1
  /\ Onto(Len(stack) - 1, [Top EXCEPT !.pc = "discard", !.cur = First]) /\ Len(stack') = Len(stack)

StepKind ==
  \/ Stays \/ Goes \/ Leaves \/ Begins \/ Launches \/ Registers \/ Frees
  \/ Turns \/ Finishes \/ Walks \/ SubEnds

-----------------------------------------------------------------------------
(* The kernel's steps *)

(* The top of the chain is a frame at one of its places.                   *)
LEMMA TopPlaced ==
  ASSUME Safe, Places(stack), stack # <<>>
  PROVE  Top \in Frames /\ FrameOK(Top) /\ Placed(Top) /\ StackOK(stack) /\ Len(stack) \in Nat /\ Len(stack) >= 1
<1>1. StackOK(stack)
  BY DEF Safe
<1>2. FrameOK(Top) /\ Len(stack) \in 1..Len(stack)
  BY <1>1, TopOf
<1> QED BY <1>1, <1>2 DEF FrameOK, Places, Top

(* A step that moves the program counter within job_wait, or to its end.   *)
LEMMA WaitFollows ==
  ASSUME Safe, Places(stack), stack # <<>>, Top.pc \in WaitPcs, NEW f, f.k = Top.k, f.j = Top.j, f.todo = Top.todo,
         f.pc \in WaitPcs \cup {"ret"}
  PROVE  Follows(f)
<1>1. Top \in Frames /\ Placed(Top) /\ Top.k \in Calls
  BY TopPlaced DEF Frames
<1>2. Top.k \in {"pipe", "prog", "wait", "waitops", "fg"}
  BY <1>1 DEF Placed, PcsOf, WaitPcs, Waits, Subs, Calls
<1>3. Placed(f)
  BY <1>2 DEF Placed, PcsOf, Waits, Subs
<1>4. One(f) = 0 /\ One(Top) = 0
  BY <1>2 DEF One, Subs
<1>5. Holding(Top) /\ Owning(Top)
  BY DEF Holding, Owning
<1>6. f.pc \notin {"next", "discard", "clean", "fork"}
  BY DEF WaitPcs
<1> QED BY <1>3, <1>4, <1>5, <1>6 DEF Follows

LEMMA WaitGoes ==
  ASSUME Safe, Places(stack), stack # <<>>, Top.pc \in WaitPcs, NEW f, f.k = Top.k, f.j = Top.j, f.todo = Top.todo,
         f.pc \in WaitPcs \cup {"ret"}, stack' = Goto(f), SameJobs, Quiet
  PROVE  Goes
<1>1. Onto(Len(stack) - 1, f)
  BY OntoGoto DEF Safe
<1> QED BY <1>1, WaitFollows DEF Goes

LEMMA ChildKind ==
  ASSUME Safe, NEW p \in Pids, (\E c \in Codes : ChildExit(p, c)) \/ ChildStop(p) \/ ChildCont(p)
  PROVE  Stays
<1>1. UNCHANGED <<mask, table, flags, traps, stack>>
  BY DEF ChildExit, ChildStop, ChildCont
<1> QED BY <1>1, TableJobs, OffSame DEF Stays, Quiet, flags, traps, Safe

LEMMA WakeKind ==
  ASSUME Safe, Places(stack), NEW c, stack' = WakeIf(c), SameJobs, SameMembers, Quiet
  PROVE  Stays \/ Goes
<1>1. CASE At("blocked") /\ c
  <2> DEFINE f == [Top EXCEPT !.pc = "err"]
  <2>1. stack # <<>> /\ Top.pc = "blocked" /\ stack' = Goto(f)
    BY <1>1 DEF At, WakeIf
  <2>2. f.k = Top.k /\ f.j = Top.j /\ f.todo = Top.todo /\ f.pc = "err"
    BY <2>1, TopPlaced DEF Frames
  <2>3. Top.pc \in WaitPcs /\ f.pc \in WaitPcs
    BY <2>1, <2>2 DEF WaitPcs
  <2> HIDE DEF f
  <2> QED BY <2>1, <2>2, <2>3, WaitGoes
<1>2. CASE ~(At("blocked") /\ c)
  BY <1>2, OffSame DEF WakeIf, Stays, Safe
<1> QED BY <1>1, <1>2

LEMMA OnsigKind ==
  ASSUME Safe, Places(stack), sh_onsig
  PROVE  Stays \/ Goes
<1>1. SameJobs /\ SameMembers
  BY SignalJobs, TableJobs DEF sh_onsig, Safe
<1> QED BY <1>1, WakeKind DEF sh_onsig, Quiet, traps

LEMMA RelayKind ==
  ASSUME Safe, Places(stack), trap_relay
  PROVE  Stays \/ Goes
<1>1. SameJobs /\ SameMembers /\ Quiet
  BY TableJobs DEF trap_relay, Quiet, flags
<1> QED BY <1>1, WakeKind DEF trap_relay

-----------------------------------------------------------------------------
(* Commands that start *)

(* A command starts on an empty chain or from a body.                      *)
LEMMA CmdBody ==
  ASSUME NEW c, Cmd(c)
  PROVE  stack = <<>> \/ At("body")
BY DEF Cmd, At

LEMMA BgndKind ==
  ASSUME Safe, eval_node_bgnd
  PROVE  Launches
<1> DEFINE f(r) == [Call("bg", "fork") EXCEPT !.j = r, !.left = 1]
<1>1. PICK r \in Refs : job_new(r, 1, TRUE, FALSE, Nil) /\ stack' = Append(stack, f(r))
  BY DEF eval_node_bgnd, Push
<1>2. f(r).k = "bg" /\ f(r).pc = "fork" /\ f(r).j = r /\ f(r).left = 1
  BY DEF Call
<1>3. Placed(f(r))
  BY <1>2 DEF Placed, PcsOf, Waits, Subs
<1> HIDE DEF f
<1>4. Added(r) /\ Listed(r, 1, Nil)
  BY <1>1, NewJobs, NewListed DEF Safe
<1>5. Onto(Len(stack), f(r))
  BY <1>1, OntoPush DEF Safe
<1>6. heap'[r].n = 1 /\ heap'[r].pid[1] = Nil /\ heap'[r].stat[1] = RUN
  BY <1>4 DEF Listed
<1>7. Quiet /\ Cmd("bg")
  BY DEF eval_node_bgnd, Quiet, flags, traps
<1> QED BY <1>2, <1>3, <1>4, <1>5, <1>6, <1>7, CmdBody DEF Launches

LEMMA PipelineKind ==
  ASSUME Safe, NEW n \in 0..MaxProcs, NEW last \in BOOLEAN, NEW pipefail \in BOOLEAN,
         eval_pipeline(n, last, pipefail)
  PROVE  Launches
<1> DEFINE pc == IF n > 0 THEN "fork" ELSE "body"
           f(r) == [Call("pipe", pc) EXCEPT !.j = r, !.left = n, !.flag = last]
<1>0. n \in Nat
  BY JobConstants
<1>1. PICK r \in Refs : job_new(r, n, FALSE, pipefail, Nil) /\ stack' = Append(stack, f(r))
  BY DEF eval_pipeline, Push
<1>2. f(r).k = "pipe" /\ f(r).pc = pc /\ f(r).j = r /\ pc \in {"fork", "body"}
  BY DEF Call
<1>3. Placed(f(r))
  BY <1>2 DEF Placed, PcsOf, Waits, Subs
<1> HIDE DEF f, pc
<1>4. Added(r)
  BY <1>0, <1>1, NewJobs DEF Safe
<1>5. Onto(Len(stack), f(r))
  BY <1>1, OntoPush DEF Safe
<1>7. Quiet /\ Cmd("pipe")
  BY DEF eval_pipeline, Quiet, flags, traps
<1> QED BY <1>2, <1>3, <1>4, <1>5, <1>7, CmdBody DEF Launches

LEMMA ExecKind ==
  ASSUME Safe, NEW bgnd \in BOOLEAN, exec_program(bgnd)
  PROVE  Begins
<1> DEFINE f(p) == [Call("prog", "forked") EXCEPT !.new = p, !.flag = bgnd]
           c == IF bgnd THEN "progbg" ELSE "prog"
<1>1. PICK p \in Pids : stack' = Append(stack, f(p))
  BY DEF exec_program, Push
<1>2. f(p).k = "prog" /\ f(p).pc = "forked"
  BY DEF Call
<1>3. Cmd(c) /\ KindOf(c) = "prog"
  BY DEF exec_program, KindOf
<1> HIDE DEF f, c
<1>4. Placed(f(p)) /\ One(f(p)) = 0
  BY <1>2 DEF Placed, PcsOf, Subs, Waits, One
<1>5. Starts(f(p))
  BY <1>2, <1>3, <1>4 DEF Starts, Subs, Waits
<1>6. SameJobs /\ Quiet /\ sh_subshell \in Int
  BY TableJobs DEF exec_program, Quiet, flags, traps, Safe, FlagType
<1>7. Onto(Len(stack), f(p))
  BY <1>1, OntoPush DEF Safe
<1> QED BY <1>3, <1>4, <1>5, <1>6, <1>7, CmdBody DEF Begins, Quiet

LEMMA ExecFailsKind ==
  ASSUME Safe, NEW bgnd \in BOOLEAN, exec_program_fails(bgnd)
  PROVE  Stays
<1>1. UNCHANGED <<table, flags, traps, stack>>
  BY DEF exec_program_fails
<1> QED BY <1>1, TableJobs, OffSame DEF Stays, Quiet, flags, traps, Safe

LEMMA WaitAllKind ==
  ASSUME Safe, wait_all
  PROVE  Begins
<1> DEFINE f == Call("wait", "next")
<1>1. stack' = Append(stack, f) /\ Cmd("wait") /\ KindOf("wait") = "wait"
  BY DEF wait_all, Push, KindOf
<1>2. f.k = "wait" /\ f.pc = "next"
  BY DEF Call
<1> HIDE DEF f
<1>4. Placed(f) /\ One(f) = 0
  BY <1>2 DEF Placed, PcsOf, Subs, Waits, One
<1>5. Starts(f)
  BY <1>1, <1>2, <1>4 DEF Starts, Subs, Waits
<1>6. SameJobs /\ Quiet /\ sh_subshell \in Int
  BY TableJobs DEF wait_all, Quiet, flags, traps, Safe, FlagType
<1>7. Onto(Len(stack), f)
  BY <1>1, OntoPush DEF Safe
<1> QED BY <1>1, <1>4, <1>5, <1>6, <1>7, CmdBody DEF Begins, Quiet

LEMMA WaitOperandsKind ==
  ASSUME Safe, NEW specs \in SpecSeqs, wait_operands(specs)
  PROVE  Begins
<1> DEFINE f == [Call("waitops", "next") EXCEPT !.todo = Looked(specs)]
<1>1. stack' = Append(stack, f) /\ Cmd("waitops") /\ KindOf("waitops") = "waitops"
  BY DEF wait_operands, Push, KindOf, Looked
<1>2. f.k = "waitops" /\ f.pc = "next" /\ f.todo = Looked(specs)
  BY DEF Call
<1> HIDE DEF f
<1>4. Placed(f) /\ One(f) = 0
  BY <1>2 DEF Placed, PcsOf, Subs, Waits, One
<1>5. Starts(f)
  BY <1>1, <1>2, <1>4 DEF Starts, Subs, Waits
<1>6. SameJobs /\ Quiet /\ sh_subshell \in Int
  BY TableJobs DEF wait_operands, Quiet, flags, traps, Safe, FlagType
<1>7. Onto(Len(stack), f)
  BY <1>1, OntoPush DEF Safe
<1> QED BY <1>1, <1>4, <1>5, <1>6, <1>7, CmdBody DEF Begins, Quiet

LEMMA ListCommandsKind ==
  ASSUME Safe, builtin_jobs \/ job_update
  PROVE  Begins
<1> DEFINE f(k) == [Call(k, "clean") EXCEPT !.cur = First]
<1>1. PICK k \in {"jobs", "update"} : stack' = Append(stack, f(k)) /\ Cmd(k)
  BY DEF builtin_jobs, job_update, Push
<1>2. f(k).k = k /\ f(k).pc = "clean" /\ KindOf(k) = k
  BY DEF Call, KindOf
<1> HIDE DEF f
<1>4. Placed(f(k)) /\ One(f(k)) = 0
  BY <1>2 DEF Placed, PcsOf, Subs, Waits, One
<1>5. Starts(f(k))
  BY <1>1, <1>2, <1>4 DEF Starts, Subs, Waits
<1>6. SameJobs /\ Quiet /\ sh_subshell \in Int
  BY TableJobs DEF builtin_jobs, job_update, Quiet, flags, traps, Safe, FlagType
<1>7. Onto(Len(stack), f(k))
  BY <1>1, OntoPush DEF Safe
<1> QED BY <1>1, <1>4, <1>5, <1>6, <1>7, CmdBody DEF Begins, Quiet

LEMMA FgKind ==
  ASSUME Safe, builtin_fg
  PROVE  Begins
<1> DEFINE f(r) == JobWait(Call("fg", "top"), r, 0)
<1>1. PICK r \in Resolved \ {Nil} : ResumeAs(r, FALSE) /\ stack' = Append(stack, f(r))
  BY DEF builtin_fg, Push
<1>2. f(r).k = "fg" /\ f(r).pc = "top" /\ f(r).j = r /\ KindOf("fg") = "fg"
  BY DEF Call, JobWait, KindOf
<1> HIDE DEF f
<1>3. Monitor /\ Cmd("fg")
  BY DEF builtin_fg
<1>4. Placed(f(r)) /\ One(f(r)) = 0
  BY <1>2 DEF Placed, PcsOf, Subs, Waits, One, WaitPcs
<1>5. Starts(f(r))
  BY <1>1, <1>2, <1>3, <1>4 DEF Starts, Subs, Waits
<1>6. SameJobs /\ Quiet /\ sh_subshell \in Int
  BY <1>1, ResolvedLive, ResumeJobs DEF builtin_fg, Quiet, flags, traps, Safe, FlagType
<1>7. Onto(Len(stack), f(r))
  BY <1>1, OntoPush DEF Safe
<1> QED BY <1>3, <1>4, <1>5, <1>6, <1>7, CmdBody DEF Begins, Quiet

LEMMA BgKind ==
  ASSUME Safe, builtin_bg
  PROVE  Stays
<1>1. PICK r \in Resolved \ {Nil} : ResumeAs(r, TRUE)
  BY DEF builtin_bg
<1>2. SameJobs /\ SameMembers
  BY <1>1, ResolvedLive, ResumeJobs DEF Safe
<1> QED BY <1>2, OffSame DEF builtin_bg, Stays, Quiet, flags, traps, Safe

LEMMA SubshellKind ==
  ASSUME Safe, NEW k \in {"sub", "cmdsub"}, eval_subshell(k)
  PROVE  Begins
<1> DEFINE f == [Call(k, "body") EXCEPT !.new = job_bgpid]
<1>1. stack' = Append(stack, f) /\ Cmd(k)
  BY DEF eval_subshell, Push
<1>2. f.k = k /\ f.pc = "body" /\ KindOf(k) = k
  BY DEF Call, KindOf
<1> HIDE DEF f
<1>4. Placed(f) /\ One(f) = 1
  BY <1>2 DEF Placed, PcsOf, Subs, Waits, One
<1>5. Starts(f)
  BY <1>1, <1>2, <1>4 DEF Starts, Subs, Waits
<1>6. SameJobs /\ UNCHANGED job_wait_interruptible /\ sh_subshell' = sh_subshell + 1
  BY TableJobs DEF eval_subshell, traps
<1>7. Onto(Len(stack), f)
  BY <1>1, OntoPush DEF Safe
<1> QED BY <1>1, <1>4, <1>5, <1>6, <1>7, CmdBody DEF Begins

LEMMA RunPendingKind ==
  ASSUME Safe, trap_run_pending
  PROVE  Begins
<1>1. stack' = Append(stack, TrapBody) /\ UNCHANGED job_wait_interruptible /\ (stack = <<>> \/ At("body"))
  BY DEF trap_run_pending, RunTrap, TrapBody
<1>2. TrapBody.k = "trap" /\ TrapBody.pc = "body"
  BY DEF TrapBody, Call
<1>4. Placed(TrapBody) /\ One(TrapBody) = 0
  BY <1>2 DEF Placed, PcsOf, Subs, Waits, One
<1>5. Starts(TrapBody)
  BY <1>2, <1>4 DEF Starts, Subs, Waits
<1>6. SameJobs /\ sh_subshell' = sh_subshell /\ sh_subshell \in Int
  BY TableJobs DEF trap_run_pending, flags, Safe, FlagType
<1>7. Onto(Len(stack), TrapBody)
  BY <1>1, OntoPush DEF Safe
<1> QED BY <1>1, <1>4, <1>5, <1>6, <1>7 DEF Begins

-----------------------------------------------------------------------------
(* Launchers *)

LEMMA ForkKind ==
  ASSUME Safe, Places(stack), job_fork
  PROVE  Goes
<1>1. PICK p \in Pids : stack' = Goto([Top EXCEPT !.pc = "forked", !.new = p])
  BY DEF job_fork
<1> DEFINE f == [Top EXCEPT !.pc = "forked", !.new = p]
<1>2. stack # <<>> /\ Top.pc = "fork"
  BY DEF job_fork, At
<1>3. Top \in Frames /\ Placed(Top) /\ StackOK(stack)
  BY <1>2, TopPlaced
<1>4. Top.k \in {"bg", "pipe"}
  BY <1>2, <1>3 DEF Placed, PcsOf, WaitPcs, Waits, Subs, Frames, Calls
<1>5. f.k = Top.k /\ f.pc = "forked" /\ f.j = Top.j /\ f.todo = Top.todo /\ f.left = Top.left
  BY <1>3 DEF Frames
<1> HIDE DEF f
<1>6. Placed(f) /\ One(f) = One(Top) /\ Holding(Top) /\ Owning(Top)
  BY <1>2, <1>3, <1>4, <1>5 DEF Placed, PcsOf, One, Holding, Owning, Subs, Waits
<1>7. Follows(f)
  BY <1>4, <1>5, <1>6 DEF Follows, Waits, WaitPcs
<1>8. SameJobs /\ Quiet
  BY TableJobs DEF job_fork, Quiet, flags, traps
<1> QED BY <1>1, <1>2, <1>3, <1>7, <1>8, OntoGoto DEF Goes, f

(* Where a launcher goes once its last member is recorded.                 *)
LEMMA LauncherMoves ==
  ASSUME Safe, Places(stack), stack # <<>>, Top.pc \in {"fork", "forked", "drain"}, Top.k \in {"bg", "pipe"},
         NEW f, f.k = Top.k, f.pc \in {"fork", "drain", "body", "top"}, f.j = Top.j, f.todo = Top.todo,
         f.k = "bg" => f.pc = "drain" /\ f.left <= 1, stack' = Goto(f), SameJobs, Quiet
  PROVE  Goes
<1>1. Placed(f) /\ One(f) = One(Top) /\ Holding(Top) /\ Owning(Top)
  BY DEF Placed, PcsOf, One, Holding, Owning, Subs, Waits, WaitPcs
<1>2. Follows(f)
  BY <1>1 DEF Follows, Waits
<1> QED BY <1>2, OntoGoto DEF Goes, Safe

LEMMA LauncherLeaves ==
  ASSUME Safe, stack # <<>>, Top.k \notin Subs, stack' = Pop(stack), SameJobs, Quiet
  PROVE  Leaves
BY OffPop DEF Leaves, Quiet, One, Safe

LEMMA JobWaitIs ==
  ASSUME NEW f \in Frames, NEW r, NEW st
  PROVE  /\ JobWait(f, r, st).k = f.k /\ JobWait(f, r, st).pc = "top"
         /\ JobWait(f, r, st).j = r /\ JobWait(f, r, st).todo = f.todo
BY DEF JobWait, Frames

LEMMA AfterForkKind ==
  ASSUME Safe, Places(stack), stack # <<>>, Top.pc \in {"fork", "forked"}, Top.k \in {"bg", "pipe"},
         NEW f \in Frames, f.k = Top.k, f.j = Top.j, f.todo = Top.todo, f.k = "bg" => f.left <= 1,
         stack' = AfterFork(f), SameJobs, Quiet
  PROVE  Goes \/ Leaves
<1>1. CASE Monitor /\ InCmdsub
  <2> DEFINE g == [f EXCEPT !.pc = "drain"]
  <2>1. stack' = Goto(g)
    BY <1>1 DEF AfterFork
  <2>2. g.k = f.k /\ g.pc = "drain" /\ g.j = f.j /\ g.todo = f.todo /\ g.left = f.left
    BY DEF Frames
  <2> HIDE DEF g
  <2> QED BY <2>1, <2>2, LauncherMoves
<1>2. CASE ~(Monitor /\ InCmdsub) /\ f.k = "bg"
  BY <1>2, LauncherLeaves DEF AfterFork, Subs
<1>3. CASE ~(Monitor /\ InCmdsub) /\ f.k # "bg" /\ f.flag
  <2> DEFINE g == [f EXCEPT !.pc = "body"]
  <2>1. stack' = Goto(g)
    BY <1>3 DEF AfterFork
  <2>2. g.k = f.k /\ g.pc = "body" /\ g.j = f.j /\ g.todo = f.todo
    BY DEF Frames
  <2> HIDE DEF g
  <2> QED BY <1>3, <2>1, <2>2, LauncherMoves
<1>4. CASE ~(Monitor /\ InCmdsub) /\ f.k # "bg" /\ ~f.flag
  <2>1. stack' = Goto(JobWait(f, f.j, RUN))
    BY <1>4 DEF AfterFork
  <2> QED BY <1>4, <2>1, JobWaitIs, LauncherMoves
<1> QED BY <1>1, <1>2, <1>3, <1>4

LEMMA ForkParentKind ==
  ASSUME Safe, Places(stack), job_fork_parent
  PROVE  Goes \/ Leaves
<1> DEFINE f == [Top EXCEPT !.new = Nil, !.left = @ - 1]
           i == Least({x \in 1..heap[f.j].n : heap[f.j].pid[x] = Nil})
<1>1. stack # <<>> /\ Top.pc = "forked" /\ Top.k \in {"bg", "pipe"}
  BY DEF job_fork_parent, At
<1>2. Top \in Frames /\ Placed(Top) /\ StackOK(stack)
  BY <1>1, TopPlaced
<1>3. /\ heap' = [heap EXCEPT ![f.j].pid[i] = Top.new, ![f.j].stat[i] = RUN]
      /\ stack' = IF f.left > 0 THEN Goto([f EXCEPT !.pc = "fork"]) ELSE AfterFork(f)
      /\ UNCHANGED <<job_list, sh_subshell, traps>>
  BY DEF job_fork_parent
<1>4. f \in Frames /\ f.k = Top.k /\ f.j = Top.j /\ f.todo = Top.todo /\ f.left = Top.left - 1
  <2>1. f = [Top EXCEPT !.new = Nil, !.left = Top.left - 1] /\ Top.left - 1 \in Int
    BY <1>2 DEF Frames
  <2> QED BY <1>2, <2>1 DEF Frames
<1> HIDE DEF f, i
<1>5. SameJobs /\ Quiet
  <2>1. heap \in [Refs -> Jobs]
    BY DEF Safe, TableOK, TableType
  <2>2. \A x \in Refs : heap'[x].level = heap[x].level
    <3> DEFINE h == [heap EXCEPT ![f.j].pid[i] = Top.new]
    <3>1. heap' = [h EXCEPT ![f.j].stat[i] = RUN]
      BY <1>3, Zenon
    <3>2. DOMAIN h = Refs /\ \A x \in Refs : h[x].level = heap[x].level
      BY <2>1 DEF Jobs
    <3>3. \A x \in Refs : h[x] = IF x = f.j THEN [heap[x] EXCEPT !.pid[i] = Top.new] ELSE heap[x]
      BY <2>1
    <3>4. \A x \in Refs : DOMAIN h[x] = DOMAIN heap[x] /\ "level" \in DOMAIN heap[x]
      BY <2>1, <3>3 DEF Jobs
    <3> HIDE DEF h
    <3> QED BY <3>1, <3>2, <3>4
  <2> QED BY <2>2, <1>3 DEF SameJobs, Quiet, traps
<1>6. CASE f.left > 0 /\ f.k = "pipe"
  <2> DEFINE g == [f EXCEPT !.pc = "fork"]
  <2>1. g.k = f.k /\ g.pc = "fork" /\ g.j = f.j /\ g.todo = f.todo /\ stack' = Goto(g)
    BY <1>3, <1>4, <1>6 DEF Frames
  <2> HIDE DEF g
  <2> QED BY <1>1, <1>4, <1>5, <1>6, <2>1, LauncherMoves
<1>7. CASE ~(f.left > 0)
  <2>1. f.left <= 1
    BY <1>2, <1>4, <1>7 DEF Frames
  <2> QED BY <1>1, <1>3, <1>4, <1>5, <1>7, <2>1, AfterForkKind
<1>8. f.left > 0 => f.k # "bg"
  BY <1>2, <1>4 DEF Placed, Frames
<1> QED BY <1>1, <1>4, <1>6, <1>7, <1>8

LEMMA ForkFailsKind ==
  ASSUME Safe, Places(stack), job_fork_fails
  PROVE  Goes \/ Leaves \/ Frees
<1>1. stack # <<>> /\ Top.pc = "fork"
  BY DEF job_fork_fails, At
<1>2. Top \in Frames /\ Placed(Top) /\ StackOK(stack)
  BY <1>1, TopPlaced
<1>3. Top.k \in {"bg", "pipe"}
  BY <1>1, <1>2 DEF Placed, PcsOf, WaitPcs, Waits, Subs, Frames, Calls
<1>4. Quiet
  BY DEF job_fork_fails, Quiet, flags, traps
<1>5. CASE Top.k = "bg"
  <2>1. job_free(Top.j) /\ stack' = Pop(stack)
    BY <1>5 DEF job_fork_fails
  <2>2. CASE SameJobs
    BY <1>1, <1>4, <1>5, <2>1, <2>2, LauncherLeaves DEF Subs
  <2>3. CASE Dropped(Top.j)
    BY <1>1, <1>2, <1>4, <1>5, <2>1, <2>3, OffPop DEF Frees, Owning, Holding
  <2> QED BY <2>1, <2>2, <2>3, FreeJobs DEF Safe
<1>6. CASE Top.k = "pipe"
  <2> DEFINE f == [Top EXCEPT !.left = @ - 1]
  <2>1. stack' = (IF f.left > 0 THEN Goto(f) ELSE AfterFork(f)) /\ UNCHANGED table
    BY <1>6 DEF job_fork_fails
  <2>2. f \in Frames /\ f.k = "pipe" /\ f.pc = "fork" /\ f.j = Top.j /\ f.todo = Top.todo
    BY <1>1, <1>2, <1>6 DEF Frames
  <2> HIDE DEF f
  <2>3. SameJobs
    BY <2>1, TableJobs
  <2>4. CASE f.left > 0
    BY <1>1, <1>3, <1>4, <1>6, <2>1, <2>2, <2>3, <2>4, LauncherMoves
  <2>5. CASE ~(f.left > 0)
    BY <1>1, <1>3, <1>4, <1>6, <2>1, <2>2, <2>3, <2>5, AfterForkKind
  <2> QED BY <2>4, <2>5
<1> QED BY <1>3, <1>5, <1>6

LEMMA ExecParentKind ==
  ASSUME Safe, Places(stack), exec_program_parent
  PROVE  Registers
<1>1. stack # <<>> /\ Top.pc = "forked" /\ Top.k = "prog"
  BY DEF exec_program_parent, Running
<1>2. Top \in Frames /\ StackOK(stack)
  BY <1>1, TopPlaced
<1> DEFINE h == [Top EXCEPT !.new = Nil]
           g(r) == JobWait(h, r, Hangup)
<1>3. PICK r \in Refs : /\ job_new(r, 1, Top.flag, FALSE, Top.new)
                        /\ stack' = Pop(stack) \/ stack' = Goto(g(r))
  BY DEF exec_program_parent
<1>4. Quiet
  BY DEF exec_program_parent, Quiet, traps
<1>5. Added(r)
  BY <1>3, NewJobs DEF Safe
<1>6. h \in Frames /\ h.k = "prog"
  BY <1>1, <1>2 DEF Frames
<1> HIDE DEF h
<1>7. g(r).k = "prog" /\ g(r).pc = "top" /\ g(r).j = r
  BY <1>6, JobWaitIs
<1> HIDE DEF g
<1>8. CASE stack' = Pop(stack)
  BY <1>1, <1>2, <1>4, <1>5, <1>8, OffPop DEF Registers
<1>9. CASE stack' = Goto(g(r))
  BY <1>1, <1>2, <1>4, <1>5, <1>7, <1>9, OntoGoto DEF Registers
<1> QED BY <1>3, <1>8, <1>9

LEMMA ResumeStoppedKind ==
  ASSUME Safe, job_resume_stopped
  PROVE  Stays
<1>1. SameJobs /\ SameMembers
  BY SignalJobs DEF job_resume_stopped, Safe
<1> QED BY <1>1, OffSame DEF job_resume_stopped, Stays, Quiet, traps, Safe

LEMMA EofKind ==
  ASSUME Safe, Places(stack), fdstack_data_eof
  PROVE  Goes \/ Leaves
<1>1. stack # <<>> /\ Top.pc = "drain"
  BY DEF fdstack_data_eof, At
<1>2. Top \in Frames /\ Placed(Top) /\ StackOK(stack)
  BY <1>1, TopPlaced
<1>3. Top.k \in {"bg", "pipe"}
  BY <1>1, <1>2 DEF Placed, PcsOf, WaitPcs, Waits, Subs, Frames, Calls
<1>4. SameJobs /\ Quiet
  BY TableJobs DEF fdstack_data_eof, Quiet, flags, traps
<1>5. CASE Top.k = "bg"
  BY <1>1, <1>4, <1>5, LauncherLeaves DEF fdstack_data_eof, Subs
<1>6. CASE Top.k = "pipe"
  <2>1. stack' = Goto(JobWait(Top, Top.j, RUN))
    BY <1>6 DEF fdstack_data_eof
  <2> QED BY <1>1, <1>2, <1>4, <1>6, <2>1, JobWaitIs, LauncherMoves
<1> QED BY <1>3, <1>5, <1>6

-----------------------------------------------------------------------------
(* job_wait *)

LEMMA WaitTrapsKind ==
  ASSUME Safe, Places(stack), job_wait_traps
  PROVE  Goes
<1> DEFINE f == [Top EXCEPT !.pc = IF @ = "top" THEN "chk" ELSE "rechk"]
<1>1. stack # <<>> /\ Top.pc \in {"top", "err"}
  BY DEF job_wait_traps, Waiting, At
<1>2. Top \in Frames /\ FrameOK(Top) /\ StackOK(stack)
  BY <1>1, TopPlaced
<1>3. f \in Frames /\ f.k = Top.k /\ f.j = Top.j /\ f.todo = Top.todo /\ f.pc \in {"chk", "rechk"}
  BY <1>1, <1>2 DEF Frames, Pcs, WaitPcs
<1>4. FrameOK(f)
  BY <1>1, <1>2, <1>3 DEF FrameOK
<1>5. SameJobs /\ Quiet
  BY TableJobs DEF job_wait_traps, Quiet, flags, traps, RunTrap
<1>6. stack' = Goto(f) \/ stack' = Append(Goto(f), TrapBody)
  BY DEF job_wait_traps, RunTrap, Step, TrapBody
<1> HIDE DEF f
<1>7. Onto(Len(stack) - 1, f)
  BY <1>1, <1>2, <1>4, <1>6, OntoGoto, OntoTrap
<1>8. Top.pc \in WaitPcs /\ f.pc \in WaitPcs
  BY <1>1, <1>3 DEF WaitPcs
<1> QED BY <1>1, <1>3, <1>5, <1>7, <1>8, WaitFollows DEF Goes

LEMMA WaitCheckKind ==
  ASSUME Safe, Places(stack), job_wait_check
  PROVE  Goes
<1>1. stack # <<>> /\ Top.pc \in {"chk", "rechk"}
  BY DEF job_wait_check, Waiting, At
<1>2. Top \in Frames
  BY <1>1, TopPlaced
<1>3. PICK pc \in {"ret", "scan", "spin"} : stack' = Goto([Top EXCEPT !.pc = pc])
  BY <1>1 DEF job_wait_check, Step
<1> DEFINE f == [Top EXCEPT !.pc = pc]
<1>4. f.k = Top.k /\ f.j = Top.j /\ f.todo = Top.todo /\ f.pc = pc
  BY <1>2 DEF Frames
<1>5. SameJobs /\ Quiet
  BY TableJobs DEF job_wait_check, Quiet, flags
<1> HIDE DEF f
<1>6. stack' = Goto(f) /\ Top.pc \in WaitPcs /\ f.pc \in WaitPcs \cup {"ret"}
  BY <1>1, <1>3, <1>4 DEF WaitPcs, f
<1> QED BY <1>1, <1>4, <1>5, <1>6, WaitGoes

LEMMA WaitScanKind ==
  ASSUME Safe, Places(stack), job_wait_scan
  PROVE  Goes
<1>1. stack # <<>> /\ Top.pc = "scan"
  BY DEF job_wait_scan, Waiting, At
<1>2. Top \in Frames
  BY <1>1, TopPlaced
<1> DEFINE s == Scanned(heap[Top.j], Top.st)
<1>3. PICK pc \in {"top", "fin", "call"} : stack' = Goto([[Top EXCEPT !.st = s] EXCEPT !.pc = pc])
  BY <1>1 DEF job_wait_scan, Step
<1> DEFINE f == [[Top EXCEPT !.st = s] EXCEPT !.pc = pc]
<1> HIDE DEF s
<1>4. f.k = Top.k /\ f.j = Top.j /\ f.todo = Top.todo /\ f.pc = pc
  BY <1>2 DEF Frames
<1> HIDE DEF f
<1>5. SameJobs /\ Quiet
  <2>1. heap \in [Refs -> Jobs] /\ job_list' = job_list
    BY DEF Safe, TableOK, TableType, job_wait_scan
  <2>2. (\E t : heap' = [heap EXCEPT ![Top.j].stat = t]) \/ heap' = heap
    BY DEF job_wait_scan
  <2>3. ASSUME NEW t, heap' = [heap EXCEPT ![Top.j].stat = t]
        PROVE  \A x \in Refs : heap'[x].level = heap[x].level
    BY <2>1, <2>3 DEF Jobs
  <2>4. \A x \in Refs : heap'[x].level = heap[x].level
    BY <2>2, <2>3, Zenon
  <2> QED BY <2>1, <2>4 DEF SameJobs, Quiet, job_wait_scan, flags, traps
<1>6. stack' = Goto(f) /\ Top.pc \in WaitPcs /\ f.pc \in WaitPcs
  BY <1>1, <1>3, <1>4 DEF WaitPcs, f
<1> QED BY <1>1, <1>4, <1>5, <1>6, WaitGoes

LEMMA ReapKind ==
  ASSUME Safe, Places(stack), waitpid_reap
  PROVE  Goes
<1>1. stack # <<>> /\ Top.pc \in {"call", "blocked"}
  BY DEF waitpid_reap, Waiting, At
<1>2. Top \in Frames
  BY <1>1, TopPlaced
<1>3. PICK p \in Group(heap[Top.j]) : /\ job_signal(p, StatusOf(p))
                                      /\ stack' = Goto([Top EXCEPT !.pc = "top", !.st = StatusOf(p)])
  BY DEF waitpid_reap, Step
<1> DEFINE f == [Top EXCEPT !.pc = "top", !.st = StatusOf(p)]
<1>4. f.k = Top.k /\ f.j = Top.j /\ f.todo = Top.todo /\ f.pc = "top"
  BY <1>2 DEF Frames
<1> HIDE DEF f
<1>5. SameJobs /\ Quiet
  BY <1>3, SignalJobs DEF waitpid_reap, Quiet, traps, Safe
<1>6. stack' = Goto(f) /\ Top.pc \in WaitPcs /\ f.pc \in WaitPcs
  BY <1>1, <1>3, <1>4 DEF WaitPcs, f
<1> QED BY <1>1, <1>4, <1>5, <1>6, WaitGoes

(* The steps of job_wait that only move on.                                *)
LEMMA MoveOnKind ==
  ASSUME Safe, Places(stack), waitpid_none \/ waitpid_block \/ job_wait_spin \/ job_wait_dangling
  PROVE  Goes
<1>1. stack # <<>> /\ Top.pc \in WaitPcs
  BY DEF waitpid_none, waitpid_block, job_wait_spin, job_wait_dangling, Waiting, At, WaitPcs
<1>2. Top \in Frames
  BY <1>1, TopPlaced
<1>3. PICK f : stack' = Goto(f) /\ f.k = Top.k /\ f.j = Top.j /\ f.todo = Top.todo /\ f.pc \in WaitPcs \cup {"ret"}
  <2>1. CASE waitpid_none \/ waitpid_block
    <3>1. PICK pc \in {"err", "blocked"} : stack' = Goto([Top EXCEPT !.pc = pc])
      BY <2>1 DEF waitpid_none, waitpid_block, Step
    <3> QED BY <1>2, <3>1 DEF Frames, WaitPcs
  <2>2. CASE job_wait_spin
    <3>1. PICK pc \in {"fin", "top"} : stack' = Goto([Top EXCEPT !.spins = @ - 1, !.pc = pc])
      BY <2>2 DEF job_wait_spin, Step
    <3> DEFINE f == [Top EXCEPT !.spins = @ - 1, !.pc = pc]
    <3>2. f.k = Top.k /\ f.j = Top.j /\ f.todo = Top.todo /\ f.pc = pc /\ pc \in WaitPcs
      BY <1>2 DEF Frames, WaitPcs
    <3> HIDE DEF f
    <3>3. stack' = Goto(f)
      BY <3>1 DEF f
    <3> QED BY <3>2, <3>3
  <2>3. CASE job_wait_dangling
    <3>1. PICK st \in Codes \cup {RUN} : stack' = Goto([Top EXCEPT !.pc = "ret", !.st = st])
      BY <2>3 DEF job_wait_dangling, Step
    <3> DEFINE f == [Top EXCEPT !.pc = "ret", !.st = st]
    <3>2. f.k = Top.k /\ f.j = Top.j /\ f.todo = Top.todo /\ f.pc = "ret"
      BY <1>2 DEF Frames
    <3> HIDE DEF f
    <3>3. stack' = Goto(f)
      BY <3>1 DEF f
    <3> QED BY <3>2, <3>3
  <2> QED BY <2>1, <2>2, <2>3
<1>5. SameJobs /\ Quiet
  BY TableJobs DEF waitpid_none, waitpid_block, job_wait_spin, job_wait_dangling, Quiet, flags, traps
<1> QED BY <1>1, <1>3, <1>5, WaitGoes

LEMMA WaitFinishKind ==
  ASSUME Safe, Places(stack), job_wait_finish
  PROVE  Goes \/ Frees
<1>1. stack # <<>> /\ Top.pc = "fin"
  BY DEF job_wait_finish, Waiting, At
<1>2. Top \in Frames /\ StackOK(stack)
  BY <1>1, TopPlaced
<1> DEFINE s == PipefailStatus(heap[Top.j], Top.st)
           f == [Top EXCEPT !.pc = "ret", !.st = s]
<1>3. stack' = Goto(f)
  BY DEF job_wait_finish, Step
<1> HIDE DEF s
<1>4. f.k = Top.k /\ f.j = Top.j /\ f.todo = Top.todo /\ f.pc = "ret"
  BY <1>2 DEF Frames
<1> HIDE DEF f
<1>5. Quiet /\ Top.pc \in WaitPcs
  BY <1>1 DEF job_wait_finish, Quiet, flags, traps, WaitPcs
<1>6. Follows(f)
  BY <1>1, <1>4, <1>5, WaitFollows
<1>7. Onto(Len(stack) - 1, f)
  BY <1>1, <1>2, <1>3, OntoGoto
<1>8. CASE job_done(heap[Top.j]) /\ Dropped(Top.j)
  BY <1>1, <1>4, <1>5, <1>6, <1>7, <1>8 DEF Frees, Follows, Owning, Holding
<1>9. CASE SameJobs
  BY <1>1, <1>5, <1>6, <1>7, <1>9 DEF Goes
<1>10. (job_done(heap[Top.j]) /\ job_free(Top.j)) \/ UNCHANGED table
  BY DEF job_wait_finish
<1> QED BY <1>8, <1>9, <1>10, FreeJobs, TableJobs DEF Safe

-----------------------------------------------------------------------------
(* Returns, walks and the ends of bodies *)

LEMMA ReturnsKind ==
  ASSUME Safe, Places(stack), eval_pipeline_return \/ exec_program_return \/ fg_return
  PROVE  Leaves \/ Frees
<1>1. stack # <<>> /\ Top.pc = "ret" /\ Top.k \in {"pipe", "prog", "fg"} /\ stack' = Pop(stack) /\ Quiet
  BY DEF eval_pipeline_return, exec_program_return, fg_return, Running, Return, Quiet, flags, traps
<1>2. (Top.k = "pipe" /\ job_free(Top.j)) \/ UNCHANGED table
  BY DEF eval_pipeline_return, exec_program_return, fg_return, Running
<1>3. Top.k \notin Subs
  BY <1>1 DEF Subs
<1>4. CASE SameJobs
  BY <1>1, <1>3, <1>4, LauncherLeaves
<1>5. CASE Top.k = "pipe" /\ Dropped(Top.j)
  BY <1>1, <1>5, OffPop DEF Frees, Owning, Safe
<1> QED BY <1>2, <1>4, <1>5, FreeJobs, TableJobs DEF Safe

LEMMA WaitNextKind ==
  ASSUME Safe, Places(stack), wait_next
  PROVE  Leaves \/ Turns \/ Finishes
<1>1. stack # <<>> /\ Top.k \in Waits /\ Top.pc = "next" /\ SameJobs /\ UNCHANGED sh_subshell
  BY TableJobs DEF wait_next, Running, Waits, flags
<1>2. Top \in Frames /\ StackOK(stack)
  BY <1>1, TopPlaced
<1>3. /\ \/ stack' = Pop(stack)
         \/ /\ job_wait_interruptible' = TRUE /\ Target # Nil
            /\ stack' = Goto(JobWait(Top, Target, 0))
            /\ Top.k = "waitops" => Top.todo # <<>>
         \/ /\ Top.k = "waitops" /\ Top.todo # <<>>
            /\ stack' = Goto([Top EXCEPT !.todo = Tail(@)])
  BY <1>1 DEF wait_next, Return, Step, Target, Waits
<1>4. CASE stack' = Pop(stack)
  <2>1. One(Top) = 0 /\ Top.k \notin Subs
    BY <1>1 DEF One, Subs, Waits
  <2> QED BY <1>1, <1>2, <1>4, <2>1, OffPop DEF Leaves
<1>5. CASE /\ job_wait_interruptible' = TRUE /\ Target # Nil
           /\ stack' = Goto(JobWait(Top, Target, 0))
           /\ Top.k = "waitops" => Top.todo # <<>>
  <2> DEFINE f == JobWait(Top, Target, 0)
  <2>1. f.k = Top.k /\ f.pc = "top" /\ f.j = Target /\ f.todo = Top.todo
    BY <1>2, JobWaitIs
  <2> HIDE DEF f
  <2>2. Onto(Len(stack) - 1, f)
    BY <1>1, <1>2, <1>5, OntoGoto DEF f
  <2> QED BY <1>1, <1>5, <2>1, <2>2 DEF Turns
<1>6. CASE Top.k = "waitops" /\ Top.todo # <<>> /\ stack' = Goto([Top EXCEPT !.todo = Tail(@)])
  <2> DEFINE f == [Top EXCEPT !.todo = Tail(@)]
  <2>1. f.k = Top.k /\ f.pc = "next" /\ f.todo = Tail(Top.todo)
    BY <1>1, <1>2 DEF Frames
  <2> HIDE DEF f
  <2>2. Onto(Len(stack) - 1, f)
    BY <1>1, <1>2, <1>6, OntoGoto DEF f
  <2> QED BY <1>1, <1>6, <2>1, <2>2 DEF Finishes
<1> QED BY <1>3, <1>4, <1>5, <1>6

LEMMA WaitReturnKind ==
  ASSUME Safe, Places(stack), wait_return
  PROVE  Leaves \/ Finishes
<1>1. stack # <<>> /\ Top.k \in Waits /\ Top.pc = "ret" /\ SameJobs /\ UNCHANGED sh_subshell
  BY TableJobs DEF wait_return, Running, Waits, flags
<1>2. Top \in Frames /\ FrameOK(Top) /\ StackOK(stack)
  BY <1>1, TopPlaced
<1> DEFINE t == IF Top.k = "wait" THEN Top.todo ELSE Tail(Top.todo)
           f == [Top EXCEPT !.pc = "next", !.j = Nil, !.st = 0, !.todo = t]
<1>3. stack' = Pop(stack) \/ stack' = Goto(f)
  BY DEF wait_return, Return, Step
<1>4. CASE stack' = Pop(stack)
  <2>1. One(Top) = 0 /\ Top.k \notin Subs
    BY <1>1 DEF One, Subs, Waits
  <2> QED BY <1>1, <1>2, <1>4, <2>1, OffPop DEF Leaves
<1>5. CASE stack' = Goto(f)
  <2>0. PICK u : u = t
    OBVIOUS
  <2> HIDE DEF t
  <2>1. f.k = Top.k /\ f.pc = "next" /\ f.todo = t
    BY <1>2, <2>0 DEF Frames
  <2>3. Top.k = "waitops" => Top.todo # <<>>
    BY <1>1, <1>2 DEF FrameOK
  <2> HIDE DEF f
  <2>2. Onto(Len(stack) - 1, f)
    BY <1>1, <1>2, <1>5, OntoGoto
  <2> QED BY <1>1, <2>1, <2>2, <2>3 DEF Finishes, t
<1> QED BY <1>3, <1>4, <1>5

LEMMA WalksKind ==
  ASSUME Safe, job_clean \/ job_discard
  PROVE  Walks
<1>1. stack # <<>> /\ Top.pc \in {"clean", "discard"} /\ Top.cur # Nil /\ Quiet
  BY DEF job_clean, job_discard, At, Quiet, flags, traps
<1>2. stack' = Goto([Top EXCEPT !.cur = After(Top.cur)]) /\ Live(Top.cur) /\ TableOK /\ StackOK(stack)
  BY <1>1 DEF job_clean, job_discard, Step, Safe, WalkLive
<1>3. Onto(Len(stack) - 1, [Top EXCEPT !.cur = After(Top.cur)]) /\ Len(stack') = Len(stack)
  BY <1>1, <1>2, OntoGoto, GotoIs
<1>4. \/ job_free(Top.cur) /\ (Top.pc = "clean" => job_done(heap[Top.cur]))
      \/ UNCHANGED table /\ (Top.pc = "discard" => ~(heap[Top.cur].level > sh_subshell))
  BY DEF job_clean, job_discard, At
<1>5. CASE job_free(Top.cur) /\ (Top.pc = "clean" => job_done(heap[Top.cur]))
  <2>1. job_list' = RemoveAt(job_list, Pos(job_list, Top.cur))
    BY <1>2, <1>5 DEF job_free, job_delete
  <2>0. PICK c : c = Top.cur
    OBVIOUS
  <2>2. Live(c) /\ ~Live(c)'
    BY <1>2, <1>5, <2>0, JobFreeTable
  <2>4. ~SameJobs
    BY <2>2 DEF SameJobs, Live
  <2>3. Dropped(Top.cur)
    BY <1>2, <1>5, <2>4, FreeJobs
  <2> QED BY <1>1, <1>3, <1>5, <2>1, <2>3 DEF Walks
<1>6. CASE UNCHANGED table /\ (Top.pc = "discard" => ~(heap[Top.cur].level > sh_subshell))
  <2>1. heap[Top.cur].level \in Int /\ sh_subshell \in Int
    BY <1>2, LiveRef DEF Safe, FlagType, TableOK, TableType, Jobs
  <2>2. Top.pc = "discard" => heap[Top.cur].level <= sh_subshell
    BY <1>6, <2>1
  <2> QED BY <1>1, <1>3, <1>6, <2>2, TableJobs DEF Walks
<1> QED BY <1>4, <1>5, <1>6

LEMMA WalkEndsKind ==
  ASSUME Safe, job_clean_end \/ job_discard_end
  PROVE  Leaves
<1>1. stack # <<>> /\ Top.pc \in {"clean", "discard"} /\ Top.cur = Nil /\ stack' = Pop(stack) /\ Quiet /\ SameJobs
  BY TableJobs DEF job_clean_end, job_discard_end, At, Return, Quiet, traps
<1>2. One(Top) = 0
  BY <1>1 DEF One
<1> QED BY <1>1, <1>2, OffPop DEF Leaves, Quiet, Safe

LEMMA BodyEndKind ==
  ASSUME Safe, Places(stack), body_end
  PROVE  Leaves \/ Goes \/ SubEnds
<1>1. stack # <<>> /\ Top.pc = "body" /\ SameJobs /\ UNCHANGED job_wait_interruptible
  BY TableJobs DEF body_end, At, traps
<1>2. Top \in Frames /\ Placed(Top) /\ StackOK(stack)
  BY <1>1, TopPlaced
<1>3. Top.k \in {"pipe", "sub", "cmdsub", "trap"}
  BY <1>1, <1>2 DEF Placed, PcsOf, WaitPcs, Waits, Subs, Frames, Calls
<1>4. CASE Top.k = "trap"
  BY <1>1, <1>2, <1>4, OffPop DEF body_end, Return, Leaves, One, Subs
<1>5. CASE Top.k = "pipe"
  <2> DEFINE f == JobWait(Top, Top.j, RUN)
  <2>1. stack' = Goto(f) /\ UNCHANGED sh_subshell
    BY <1>5 DEF body_end, Step
  <2>2. f.k = Top.k /\ f.pc = "top" /\ f.j = Top.j /\ f.todo = Top.todo
    BY <1>2, JobWaitIs
  <2> HIDE DEF f
  <2>3. Onto(Len(stack) - 1, f)
    BY <1>1, <1>2, <2>1, OntoGoto
  <2>4. Follows(f)
    BY <1>1, <1>5, <2>2 DEF Follows, Placed, PcsOf, One, Owning, Holding, Subs, Waits, WaitPcs
  <2> QED BY <1>1, <2>1, <2>3, <2>4 DEF Goes, Quiet
<1>6. CASE Top.k \in Subs
  <2>1. stack' = Goto([Top EXCEPT !.pc = "discard", !.cur = First]) /\ sh_subshell' = sh_subshell - 1
    BY <1>6 DEF body_end, Step, Subs
  <2> QED BY <1>1, <1>2, <1>6, <2>1, OntoGoto, GotoIs DEF SubEnds
<1> QED BY <1>3, <1>4, <1>5, <1>6 DEF Subs

(* Every step of the job layer is of one of the kinds.                     *)
LEMMA StepIs ==
  ASSUME Safe, Places(stack), [Next]_vars
  PROVE  StepKind
<1>1. CASE Script
  <2>1. CASE eval_node_bgnd
    BY <2>1, BgndKind DEF StepKind
  <2>2. CASE \E n \in 0..MaxProcs, last, pipefail \in BOOLEAN : eval_pipeline(n, last, pipefail)
    BY <2>2, PipelineKind DEF StepKind
  <2>3. CASE \E bgnd \in BOOLEAN : exec_program(bgnd) \/ exec_program_fails(bgnd)
    BY <2>3, ExecKind, ExecFailsKind DEF StepKind
  <2>4. CASE wait_all \/ (\E specs \in SpecSeqs : wait_operands(specs)) \/ builtin_jobs \/ job_update
    BY <2>4, WaitAllKind, WaitOperandsKind, ListCommandsKind DEF StepKind
  <2>5. CASE builtin_fg \/ builtin_bg \/ (\E k \in {"sub", "cmdsub"} : eval_subshell(k))
    BY <2>5, FgKind, BgKind, SubshellKind DEF StepKind
  <2> QED BY <1>1, <2>1, <2>2, <2>3, <2>4, <2>5 DEF Script
<1>2. CASE Shell
  <2>1. CASE job_fork \/ job_fork_parent \/ job_fork_fails \/ exec_program_parent
    BY <2>1, ForkKind, ForkParentKind, ForkFailsKind, ExecParentKind DEF StepKind
  <2>2. CASE job_resume_stopped \/ fdstack_data_eof
    BY <2>2, ResumeStoppedKind, EofKind DEF StepKind
  <2>3. CASE job_wait_traps \/ job_wait_check \/ job_wait_scan \/ waitpid_reap
    BY <2>3, WaitTrapsKind, WaitCheckKind, WaitScanKind, ReapKind DEF StepKind
  <2>4. CASE waitpid_none \/ waitpid_block \/ job_wait_spin \/ job_wait_dangling
    BY <2>4, MoveOnKind DEF StepKind
  <2>5. CASE job_wait_finish \/ eval_pipeline_return \/ exec_program_return \/ fg_return
    BY <2>5, WaitFinishKind, ReturnsKind DEF StepKind
  <2>6. CASE wait_next \/ wait_return
    BY <2>6, WaitNextKind, WaitReturnKind DEF StepKind
  <2>7. CASE job_clean \/ job_discard \/ job_clean_end \/ job_discard_end
    BY <2>7, WalksKind, WalkEndsKind DEF StepKind
  <2>8. CASE body_end \/ trap_run_pending
    BY <2>8, BodyEndKind, RunPendingKind DEF StepKind
  <2> QED BY <1>2, <2>1, <2>2, <2>3, <2>4, <2>5, <2>6, <2>7, <2>8 DEF Shell
<1>3. CASE Kernel
  <2>1. CASE \E p \in Pids : (\E c \in Codes : ChildExit(p, c)) \/ ChildStop(p) \/ ChildCont(p)
    BY <2>1, ChildKind DEF StepKind
  <2>2. CASE sh_onsig \/ trap_relay
    BY <2>2, OnsigKind, RelayKind DEF StepKind
  <2> QED BY <1>3, <2>1, <2>2 DEF Kernel
<1>4. CASE UNCHANGED vars
  <2>1. UNCHANGED <<table, flags, traps, stack>>
    BY <1>4 DEF vars
  <2> QED BY <2>1, TableJobs, OffSame DEF StepKind, Stays, Quiet, flags, traps, Safe
<1> QED BY <1>1, <1>2, <1>3, <1>4 DEF Next

-----------------------------------------------------------------------------
(* Where calls are *)

(* The calls that are there after a step.                                  *)
Below(n, g) == \E i \in 1..n : g = stack[i]

LEMMA OntoAt ==
  ASSUME StackOK(stack), NEW n, NEW f, Onto(n, f), NEW i \in 1..Len(stack')
  PROVE  \/ i \in 1..n /\ Below(n, stack'[i]) /\ stack'[i] = stack[i]
         \/ i = n + 1 /\ stack'[i] = f
         \/ i = n + 2 /\ stack'[i] = TrapBody
<1>1. Len(stack) \in Nat /\ n \in Nat
  BY DEF StackOK, Onto, Keeps
<1>2. i \in 1..n \/ i = n + 1 \/ (i = n + 2 /\ Len(stack') = n + 2)
  BY <1>1 DEF Onto
<1> QED BY <1>1, <1>2 DEF Onto, Keeps, Below

LEMMA OffAt ==
  ASSUME StackOK(stack), NEW n, Off(n), NEW i \in 1..Len(stack')
  PROVE  i \in 1..n /\ Below(n, stack'[i]) /\ stack'[i] = stack[i]
BY DEF Off, Keeps, Below

(* A call with others on top of it is at rest.                             *)
LEMMA BelowRests ==
  ASSUME StackOK(stack), stack # <<>>, NEW g, Below(Len(stack) - 1, g)
  PROVE  g.pc \in Resting /\ Below(Len(stack), g) /\ g \in Frames
BY DEF StackOK, StackShape, Below

LEMMA BelowBody ==
  ASSUME StackOK(stack), stack = <<>> \/ At("body"), NEW g, Below(Len(stack), g)
  PROVE  g.pc \in Resting /\ g \in Frames
<1>1. PICK i \in 1..Len(stack) : g = stack[i]
  BY DEF Below
<1>2. Len(stack) \in Nat /\ stack \in Seq(Frames)
  BY DEF StackOK
<1>3. stack # <<>> /\ At("body")
  BY <1>1, <1>2
<1>4. CASE i = Len(stack)
  BY <1>1, <1>2, <1>3, <1>4 DEF At, Top, Resting
<1>5. CASE i # Len(stack)
  BY <1>1, <1>2, <1>5 DEF StackOK, StackShape
<1> QED BY <1>4, <1>5

LEMMA TrapPlaced == Placed(TrapBody) /\ TrapBody.k = "trap" /\ TrapBody.pc = "body"
<1>1. TrapBody.k = "trap" /\ TrapBody.pc = "body"
  BY DEF TrapBody, Call
<1> QED BY <1>1 DEF Placed, PcsOf, Waits, Subs

LEMMA OntoPlaces ==
  ASSUME StackOK(stack), Places(stack), NEW n, NEW f, Onto(n, f), Placed(f)
  PROVE  Places(stack')
<1> SUFFICES ASSUME NEW i \in 1..Len(stack') PROVE Placed(stack'[i])
  BY DEF Places
<1>1. n \in 0..Len(stack) /\ Len(stack) \in Nat
  BY DEF Onto, Keeps, StackOK
<1> QED BY <1>1, OntoAt, TrapPlaced DEF Places

LEMMA OffPlaces ==
  ASSUME StackOK(stack), Places(stack), NEW n, Off(n)
  PROVE  Places(stack')
<1>1. n \in 0..Len(stack) /\ Len(stack) \in Nat
  BY DEF Off, Keeps, StackOK
<1> QED BY <1>1, OffAt DEF Places

LEMMA WalkerIs ==
  ASSUME Safe, Places(stack), stack # <<>>, NEW f, f = [Top EXCEPT !.cur = After(Top.cur)]
  PROVE  f.k = Top.k /\ f.pc = Top.pc /\ f.left = Top.left /\ f.j = Top.j /\ f.todo = Top.todo /\ f.cur = After(Top.cur)
BY TopPlaced DEF Frames

LEMMA SubEnderIs ==
  ASSUME Safe, Places(stack), stack # <<>>, NEW f, f = [Top EXCEPT !.pc = "discard", !.cur = First]
  PROVE  f.k = Top.k /\ f.pc = "discard" /\ f.j = Top.j /\ f.cur = First /\ f.todo = Top.todo
BY TopPlaced DEF Frames

LEMMA StepPlaces ==
  ASSUME Safe, Places(stack), [Next]_vars
  PROVE  Places(stack')
<1>1. StackOK(stack) /\ StepKind
  BY StepIs DEF Safe
<1>2. CASE Stays \/ Leaves
  BY <1>1, <1>2, OffPlaces DEF Stays, Leaves
<1>3. CASE Goes \/ Begins \/ Launches
  BY <1>1, <1>3, OntoPlaces DEF Goes, Begins, Launches, Follows, Starts
<1>4. CASE Registers
  <2>1. \A f : f.k = "prog" /\ f.pc = "top" => Placed(f)
    BY DEF Placed, PcsOf, Waits, Subs, WaitPcs
  <2> QED BY <1>1, <1>4, <2>1, OntoPlaces, OffPlaces DEF Registers
<1>5. CASE Frees
  BY <1>1, <1>5, OntoPlaces, OffPlaces DEF Frees
<1>6. CASE Turns \/ Finishes
  <2>1. \A f : f.k \in Waits /\ f.pc \in {"top", "next"} => Placed(f)
    BY DEF Placed, PcsOf, Waits, Subs, WaitPcs
  <2> QED BY <1>1, <1>6, <2>1, OntoPlaces DEF Turns, Finishes
<1>7. CASE Walks
  <2>1. PICK f : f = [Top EXCEPT !.cur = After(Top.cur)]
    OBVIOUS
  <2>2. Placed(f)
    BY <1>7, <2>1, WalkerIs, TopPlaced DEF Placed, Walks
  <2> QED BY <1>1, <1>7, <2>1, <2>2, OntoPlaces DEF Walks
<1>8. CASE SubEnds
  <2>1. PICK f : f = [Top EXCEPT !.pc = "discard", !.cur = First]
    OBVIOUS
  <2>2. f.k \in Subs /\ f.pc = "discard"
    BY <1>8, <2>1, SubEnderIs DEF SubEnds
  <2>3. Placed(f)
    BY <2>2 DEF Placed, PcsOf, Waits, Subs
  <2> QED BY <1>1, <1>8, <2>1, <2>3, OntoPlaces DEF SubEnds
<1> QED BY <1>1, <1>2, <1>3, <1>4, <1>5, <1>6, <1>7, <1>8 DEF StepKind

LEMMA InitPlaces == Init => Places(stack)
<1> SUFFICES ASSUME Init PROVE Places(stack)
  OBVIOUS
<1>1. Len(stack) = 0
  BY DEF Init
<1> QED BY <1>1 DEF Places

-----------------------------------------------------------------------------
(* No wait works on a freed job.  Two uses of the commands break this in   *)
(* the code: a wait, fg, jobs or subshell started by a trap or by the last *)
(* stage of a pipeline may free the job an outer call works on, and "wait  *)
(* op1 op2" looks both operands up before it waits for the first.          *)

WaitTame ==
  /\ BodyCmds \subseteq {"prog", "progbg", "bg", "pipe", "bgcmd"}
  /\ "waitops" \in RootCmds => MaxOperands <= 1

(* Calls that only stand on subshells.                                     *)
RootOnly == {"wait", "waitops", "fg", "jobs", "update"} \cup Subs

(* A call has the job it will use again; a "wait" with an operand left has *)
(* found the operand's job; and it can be interrupted while it waits.      *)
FrameWait(f) ==
  /\ Holding(f) => Live(f.j)
  /\ f.k = "waitops" =>
       /\ Len(f.todo) <= 1
       /\ f.pc = "next" /\ f.todo # <<>> /\ Head(f.todo).j # Nil => Live(Head(f.todo).j)
  /\ f.k \in Waits /\ f.pc \in WaitPcs => job_wait_interruptible
(* A call and one above it do not work on the same job.                    *)
PairWait(b, f) ==
  /\ f.k \in RootOnly => b.k \in Subs
  /\ Holding(b) /\ Owning(f) => b.j # f.j
WaitInv ==
  /\ \A i \in 1..Len(stack) : FrameWait(stack[i])
  /\ \A i, m \in 1..Len(stack) : m < i => PairWait(stack[m], stack[i])

(* What a step has to show.                                                *)
LEMMA OffWait ==
  ASSUME StackOK(stack), WaitInv, NEW n, Off(n), \A g : Below(n, g) => FrameWait(g)'
  PROVE  WaitInv'
<1>1. n \in 0..Len(stack) /\ Len(stack) \in Nat /\ Len(stack') = n
  BY DEF Off, Keeps, StackOK
<1>2. \A i \in 1..Len(stack') : FrameWait(stack[i])'
  <2> TAKE i \in 1..Len(stack')
  <2>1. PICK g : g = stack'[i]
    OBVIOUS
  <2>2. FrameWait(g)'
    BY <2>1, OffAt
  <2> QED BY <2>1, <2>2 DEF FrameWait, Live
<1>3. \A i, m \in 1..Len(stack') : m < i => PairWait(stack'[m], stack'[i])
  BY <1>1, OffAt DEF WaitInv
<1> QED BY <1>2, <1>3 DEF WaitInv, PairWait

LEMMA TrapWait == FrameWait(TrapBody)' /\ \A g : PairWait(g, TrapBody)
<1>1. TrapBody.k = "trap" /\ TrapBody.pc = "body"
  BY TrapPlaced
<1>2. ~Holding(TrapBody) /\ ~Owning(TrapBody) /\ TrapBody.k \notin Waits \cup RootOnly
  BY <1>1 DEF Holding, Owning, WaitPcs, Waits, RootOnly, Subs
<1>3. TrapBody' = TrapBody
  BY DEF TrapBody, Call
<1> QED BY <1>1, <1>2, <1>3 DEF FrameWait, PairWait, Waits

LEMMA OntoWait ==
  ASSUME StackOK(stack), WaitInv, NEW n, NEW f, Onto(n, f), \A g : Below(n, g) => FrameWait(g)',
         FrameWait(f)', \A g : Below(n, g) => PairWait(g, f)
  PROVE  WaitInv'
<1>1. n \in 0..Len(stack) /\ Len(stack) \in Nat /\ Len(stack') \in Nat
  BY DEF Onto, Keeps, StackOK
<1>2. \A i \in 1..Len(stack') : FrameWait(stack[i])'
  <2> TAKE i \in 1..Len(stack')
  <2>1. PICK g : g = stack'[i]
    OBVIOUS
  <2>2. FrameWait(g)'
    <3>1. CASE g = TrapBody
      <4>1. TrapBody' = TrapBody
        BY DEF TrapBody, Call
      <4> QED BY <3>1, <4>1, TrapWait DEF FrameWait
    <3>2. CASE g = f
      BY <3>2
    <3>3. CASE Below(n, g)
      BY <3>3
    <3> QED BY <2>1, <3>1, <3>2, <3>3, OntoAt
  <2> QED BY <2>1, <2>2 DEF FrameWait, Live
<1>3. \A i, m \in 1..Len(stack') : m < i => PairWait(stack'[m], stack'[i])
  <2> SUFFICES ASSUME NEW i \in 1..Len(stack'), NEW m \in 1..Len(stack'), m < i
               PROVE  PairWait(stack'[m], stack'[i])
    OBVIOUS
  <2>1. CASE i \in 1..n
    <3>1. m \in 1..n
      BY <1>1, <2>1
    <3>2. stack'[i] = stack[i] /\ stack'[m] = stack[m] /\ i \in 1..Len(stack) /\ m \in 1..Len(stack)
      BY <1>1, <2>1, <3>1 DEF Onto, Keeps
    <3> QED BY <3>2 DEF WaitInv
  <2>2. CASE i = n + 1 /\ stack'[i] = f
    <3>1. m \in 1..n
      BY <1>1, <2>2
    <3>2. Below(n, stack'[m])
      BY <1>1, <3>1 DEF Onto, Keeps, Below
    <3> QED BY <2>2, <3>2
  <2>3. CASE stack'[i] = TrapBody
    BY <2>3, TrapWait
  <2> QED BY <2>1, <2>2, <2>3, OntoAt
<1> QED BY <1>2, <1>3 DEF WaitInv, PairWait

(* A call at rest keeps what it has while its job is listed.               *)
LEMMA RestWait ==
  ASSUME NEW g, FrameWait(g), g.pc \in Resting, Holding(g) => Live(g.j)',
         g.k \in Subs \/ UNCHANGED job_wait_interruptible \/ job_wait_interruptible'
  PROVE  FrameWait(g)'
<1>1. g.pc # "next"
  BY DEF Resting
<1>2. g.k \in Subs => g.k \notin Waits
  BY DEF Subs, Waits
<1> QED BY <1>1, <1>2 DEF FrameWait

(* A subshell holds no job.                                                *)
LEMMA SubHolds ==
  ASSUME NEW g, g.k \in Subs, Placed(g)
  PROVE  ~Holding(g)
BY DEF Placed, PcsOf, Holding, Subs, Waits, WaitPcs

(* What is below the top.                                                  *)
LEMMA BelowWait ==
  ASSUME StackOK(stack), Places(stack), WaitInv, stack # <<>>, NEW g, Below(Len(stack) - 1, g)
  PROVE  /\ FrameWait(g) /\ PairWait(g, Top) /\ g.pc \in Resting /\ FrameWait(Top)
         /\ g.k \in Subs => ~Holding(g)
<1>1. PICK i \in 1..(Len(stack) - 1) : g = stack[i]
  BY DEF Below
<1>2. Len(stack) \in Nat /\ i \in 1..Len(stack) /\ i < Len(stack) /\ Len(stack) \in 1..Len(stack)
  BY <1>1 DEF StackOK
<1>3. FrameWait(g) /\ PairWait(g, Top) /\ Placed(g) /\ FrameWait(Top)
  BY <1>1, <1>2 DEF WaitInv, Top, Places
<1> QED BY <1>3, BelowRests, SubHolds

LEMMA TopWait ==
  ASSUME StackOK(stack), WaitInv, stack # <<>>
  PROVE  FrameWait(Top)
<1>1. Len(stack) \in 1..Len(stack)
  BY DEF StackOK
<1> QED BY <1>1 DEF WaitInv, Top

LEMMA StaysWait ==
  ASSUME Safe, WaitInv, Stays
  PROVE  WaitInv'
<1>1. StackOK(stack)
  BY DEF Safe
<1>2. ASSUME NEW g, Below(Len(stack), g)
      PROVE  FrameWait(g)'
  BY <1>2 DEF Below, WaitInv, FrameWait, Stays, SameJobs, Quiet, Live
<1> QED BY <1>1, <1>2, OffWait DEF Stays

LEMMA GoesWait ==
  ASSUME Safe, Places(stack), WaitInv, Goes
  PROVE  WaitInv'
<1>1. StackOK(stack) /\ stack # <<>> /\ FrameWait(Top) /\ Quiet
  BY TopWait DEF Safe, Goes
<1>2. PICK f : Follows(f) /\ Onto(Len(stack) - 1, f)
  BY DEF Goes
<1>3. \A x : Live(x)' <=> Live(x)
  BY DEF Goes, SameJobs, Live
<1>4. ASSUME NEW g, Below(Len(stack) - 1, g)
      PROVE  FrameWait(g)' /\ PairWait(g, f)
  <2>1. FrameWait(g) /\ PairWait(g, Top) /\ g.pc \in Resting
    BY <1>1, <1>4, BelowWait
  <2>2. FrameWait(g)'
    BY <1>1, <1>3, <2>1, RestWait DEF FrameWait, Quiet
  <2> QED BY <1>2, <2>1, <2>2 DEF PairWait, Follows
<1>5. FrameWait(f)'
  <2>1. Holding(f) => Live(f.j)'
    BY <1>1, <1>2, <1>3 DEF Follows, FrameWait, Owning
  <2>2. f.k = "waitops" => Len(f.todo) <= 1 /\ f.pc # "next"
    BY <1>1, <1>2 DEF Follows, FrameWait
  <2>3. f.k \in Waits /\ f.pc \in WaitPcs => job_wait_interruptible'
    BY <1>1, <1>2 DEF Follows, FrameWait, Quiet
  <2> QED BY <2>1, <2>2, <2>3 DEF FrameWait
<1> QED BY <1>1, <1>2, <1>4, <1>5, OntoWait

LEMMA LeavesWait ==
  ASSUME Safe, Places(stack), WaitInv, Leaves
  PROVE  WaitInv'
<1>1. StackOK(stack) /\ stack # <<>>
  BY DEF Safe, Leaves
<1>3. \A x : Live(x)' <=> Live(x)
  BY DEF Leaves, SameJobs, Live
<1>4. ASSUME NEW g, Below(Len(stack) - 1, g)
      PROVE  FrameWait(g)'
  <2>1. FrameWait(g) /\ PairWait(g, Top) /\ g.pc \in Resting
    BY <1>1, <1>4, BelowWait
  <2>2. g.k \in Subs \/ UNCHANGED job_wait_interruptible
    BY <2>1 DEF Leaves, PairWait, RootOnly, Waits
  <2> QED BY <1>1, <1>3, <2>1, <2>2, RestWait DEF FrameWait
<1> QED BY <1>1, <1>4, OffWait DEF Leaves

(* A command that is not run in bodies starts on subshells only.           *)
LEMMA RootStart ==
  ASSUME Safe, Places(stack), WaitInv, WaitTame, NEW c \in RootOnly, Cmd(c), NEW g, Below(Len(stack), g)
  PROVE  g.k \in Subs /\ ~Holding(g)
<1>1. PICK i \in 1..Len(stack) : g = stack[i]
  BY DEF Below
<1>2. StackOK(stack) /\ Len(stack) \in Nat /\ stack # <<>>
  BY <1>1 DEF Safe, StackOK
<1>3. c \notin BodyCmds
  BY DEF WaitTame, RootOnly, Subs
<1>4. Top.k \in Subs
  BY <1>2, <1>3 DEF Cmd, Subs
<1>5. CASE i = Len(stack)
  BY <1>1, <1>2, <1>4, <1>5, TopPlaced, SubHolds DEF Top
<1>6. CASE i # Len(stack)
  <2>1. Below(Len(stack) - 1, g)
    BY <1>1, <1>2, <1>6 DEF Below
  <2> QED BY <1>2, <1>4, <2>1, BelowWait DEF PairWait, RootOnly
<1> QED BY <1>5, <1>6

LEMMA OperandsLive ==
  ASSUME Safe, WaitTame, Cmd("waitops"), NEW specs \in SpecSeqs
  PROVE  /\ Len(Looked(specs)) <= 1
         /\ Looked(specs) # <<>> /\ Head(Looked(specs)).j # Nil => Live(Head(Looked(specs)).j)
<1>1. MaxOperands <= 1 /\ MaxOperands \in Nat
  BY JobConstants DEF WaitTame, Cmd
<1>2. PICK m \in 1..MaxOperands : specs \in [1..m -> Specs]
  BY DEF SpecSeqs
<1>3. m = 1 /\ specs \in [1..1 -> Specs]
  BY <1>1, <1>2
<1>4. Len(specs) = 1 /\ specs[1] \in Specs
  BY <1>3
<1>5. specs[1].by \in {"%%", "%-", "%n", "pid"}
  BY <1>4 DEF Specs
<1>6. Looked(specs) = [i \in 1..1 |-> [spec |-> specs[i], j |-> job_find(specs[i])]]
  BY <1>4 DEF Looked
<1> DEFINE o(i) == [spec |-> specs[i], j |-> job_find(specs[i])]
           L == [i \in 1..1 |-> o(i)]
<1>7. L \in Seq({o(1)}) /\ Len(L) = 1 /\ L[1] = o(1)
  BY DEF L
<1>8. Head(L) = o(1) /\ o(1).j = job_find(specs[1])
  BY <1>7
<1> HIDE DEF L, o
<1>9. Looked(specs) = L
  BY <1>6 DEF L, o
<1>10. job_find(specs[1]) = Nil \/ Live(job_find(specs[1]))
  BY <1>5, FindLive DEF Safe
<1>11. Head(Looked(specs)).j = job_find(specs[1])
  BY <1>8, <1>9
<1>12. Len(Looked(specs)) = 1
  BY <1>7, <1>9
<1> QED BY <1>10, <1>11, <1>12

(* What is put onto the chain is a frame.                                  *)
LEMMA OntoFrame ==
  ASSUME Safe, Safe', NEW n, NEW f, Onto(n, f)
  PROVE  FrameOK(f)
<1>1. n \in Nat /\ n + 1 \in 1..Len(stack')
  BY DEF Onto, Keeps, Safe, StackOK
<1> QED BY <1>1 DEF Onto, Safe, StackOK, StackShape, FrameOK

(* Only fg starts with a job to wait for.                                  *)
LEMMA StartOwns ==
  ASSUME NEW f \in Frames, Starts(f), f.k # "fg"
  PROVE  ~Owning(f) /\ ~Holding(f)
<1>1. f.k \in {"wait", "waitops", "prog", "jobs", "update", "sub", "cmdsub", "trap"}
  BY DEF Frames, Calls, Starts
<1>2. f.pc \notin WaitPcs
  BY <1>1 DEF Starts, Placed, PcsOf, Waits, Subs, WaitPcs
<1> QED BY <1>1, <1>2 DEF Owning, Holding

LEMMA BeginsWait ==
  ASSUME Safe, Safe', Places(stack), WaitInv, WaitTame, Begins
  PROVE  WaitInv'
<1>1. StackOK(stack) /\ (stack = <<>> \/ At("body")) /\ UNCHANGED job_wait_interruptible
  BY DEF Safe, Begins
<1>2. PICK f : Starts(f) /\ Onto(Len(stack), f)
  BY DEF Begins
<1>3. \A x : Live(x)' <=> Live(x)
  BY DEF Begins, SameJobs, Live
<1>4. f.k \in RootOnly => Cmd(f.k)
  BY <1>2 DEF Starts, KindOf, RootOnly, Subs
<1>5. f.k # "fg" => ~Owning(f) /\ ~Holding(f)
  BY <1>2, OntoFrame, StartOwns DEF FrameOK
<1>6. ASSUME NEW g, Below(Len(stack), g)
      PROVE  FrameWait(g)' /\ PairWait(g, f)
  <2>1. FrameWait(g)
    BY <1>6 DEF WaitInv, Below
  <2>2. g.pc \in Resting
    BY <1>1, <1>6, BelowBody
  <2>3. FrameWait(g)'
    BY <1>1, <1>3, <2>1, <2>2, RestWait DEF FrameWait
  <2>4. f.k \in RootOnly => g.k \in Subs /\ ~Holding(g)
    BY <1>4, <1>6, RootStart
  <2>5. "fg" \in RootOnly
    BY DEF RootOnly
  <2> QED BY <1>5, <2>3, <2>4, <2>5 DEF PairWait
<1>7. FrameWait(f)'
  <2>1. Holding(f) => Live(f.j)
    BY <1>2, <1>5, ResolvedLive DEF Starts
  <2>2. CASE f.k = "waitops"
    <3>1. PICK specs \in SpecSeqs : f.todo = Looked(specs)
      BY <1>2, <2>2 DEF Starts
    <3>2. /\ Len(f.todo) <= 1
          /\ f.todo # <<>> /\ Head(f.todo).j # Nil => Live(Head(f.todo).j)
      BY <1>4, <2>2, <3>1, OperandsLive DEF RootOnly
    <3>3. f.pc \notin WaitPcs
      BY <1>5, <2>2 DEF Holding
    <3> QED BY <1>3, <2>1, <3>2, <3>3 DEF FrameWait
  <2>3. CASE f.k # "waitops"
    <3>1. f.k \in Waits => f.pc \notin WaitPcs
      BY <1>5 DEF Holding, Waits
    <3> QED BY <1>3, <2>1, <2>3, <3>1 DEF FrameWait
  <2> QED BY <2>2, <2>3
<1> QED BY <1>1, <1>2, <1>6, <1>7, OntoWait

LEMMA LaunchesWait ==
  ASSUME Safe, Places(stack), WaitInv, Launches
  PROVE  WaitInv'
<1>1. StackOK(stack) /\ (stack = <<>> \/ At("body")) /\ UNCHANGED job_wait_interruptible
  BY DEF Safe, Launches, Quiet
<1>2. PICK r, f : Added(r) /\ Onto(Len(stack), f) /\ f.k \in {"bg", "pipe"} /\ f.j = r
  BY DEF Launches
<1>3. ~Live(r) /\ \A x : Live(x)' <=> (Live(x) \/ x = r)
  BY <1>2 DEF Added
<1>6. ASSUME NEW g, Below(Len(stack), g)
      PROVE  FrameWait(g)' /\ PairWait(g, f)
  <2>1. FrameWait(g)
    BY <1>6 DEF WaitInv, Below
  <2>2. g.pc \in Resting
    BY <1>1, <1>6, BelowBody
  <2>3. FrameWait(g)'
    BY <1>1, <1>3, <2>1, <2>2, RestWait DEF FrameWait
  <2>4. f.k \notin RootOnly
    BY <1>2 DEF RootOnly, Subs
  <2> QED BY <1>2, <1>3, <2>1, <2>3, <2>4 DEF PairWait, FrameWait
<1>7. FrameWait(f)'
  BY <1>2, <1>3 DEF FrameWait, Waits
<1> QED BY <1>1, <1>2, <1>6, <1>7, OntoWait

LEMMA RegistersWait ==
  ASSUME Safe, Places(stack), WaitInv, Registers
  PROVE  WaitInv'
<1>1. StackOK(stack) /\ stack # <<>> /\ UNCHANGED job_wait_interruptible
  BY DEF Safe, Registers, Quiet
<1>2. PICK r : /\ Added(r)
               /\ \/ Off(Len(stack) - 1)
                  \/ \E f : Onto(Len(stack) - 1, f) /\ f.k = "prog" /\ f.pc = "top" /\ f.j = r
  BY DEF Registers
<1>3. ~Live(r) /\ \A x : Live(x)' <=> (Live(x) \/ x = r)
  BY <1>2 DEF Added
<1>4. ASSUME NEW g, Below(Len(stack) - 1, g)
      PROVE  FrameWait(g) /\ FrameWait(g)'
  <2>1. FrameWait(g) /\ g.pc \in Resting
    BY <1>1, <1>4, BelowWait
  <2> QED BY <1>1, <1>3, <2>1, RestWait DEF FrameWait
<1>5. CASE Off(Len(stack) - 1)
  BY <1>1, <1>4, <1>5, OffWait
<1>6. ASSUME NEW f, Onto(Len(stack) - 1, f), f.k = "prog", f.pc = "top", f.j = r
      PROVE  WaitInv'
  <2>1. FrameWait(f)'
    BY <1>3, <1>6 DEF FrameWait, Waits
  <2>2. \A g : Below(Len(stack) - 1, g) => PairWait(g, f)
    <3>1. f.k \notin RootOnly
      BY <1>6 DEF RootOnly, Subs
    <3> QED BY <1>3, <1>4, <1>6, <3>1 DEF PairWait, FrameWait
  <2> QED BY <1>1, <1>4, <1>6, <2>1, <2>2, OntoWait
<1> QED BY <1>2, <1>5, <1>6

LEMMA FreesWait ==
  ASSUME Safe, Places(stack), WaitInv, Frees
  PROVE  WaitInv'
<1>1. StackOK(stack) /\ stack # <<>> /\ UNCHANGED job_wait_interruptible /\ Owning(Top) /\ FrameWait(Top)
  BY TopWait DEF Safe, Frees, Quiet
<1>2. PICK r : r = Top.j
  OBVIOUS
<1>3. \A x : Live(x)' <=> (Live(x) /\ x # r)
  BY <1>2 DEF Frees, Dropped
<1>4. ASSUME NEW g, Below(Len(stack) - 1, g)
      PROVE  FrameWait(g)' /\ PairWait(g, Top)
  <2>1. FrameWait(g) /\ g.pc \in Resting /\ PairWait(g, Top)
    BY <1>1, <1>4, BelowWait
  <2>2. Holding(g) => g.j # r /\ Live(g.j)
    BY <1>1, <1>2, <2>1 DEF PairWait, FrameWait
  <2> QED BY <1>1, <1>3, <2>1, <2>2, RestWait
<1>5. CASE Off(Len(stack) - 1)
  BY <1>1, <1>4, <1>5, OffWait
<1>6. ASSUME NEW f, Onto(Len(stack) - 1, f), f.k = Top.k, f.pc = "ret", f.j = Top.j, f.todo = Top.todo
      PROVE  WaitInv'
  <2>0. f.pc \notin WaitPcs /\ ~Holding(f)
    BY <1>6 DEF WaitPcs, Holding
  <2>1. FrameWait(f)'
    BY <1>1, <1>6, <2>0 DEF FrameWait
  <2>2. \A g : Below(Len(stack) - 1, g) => PairWait(g, f)
    BY <1>1, <1>4, <1>6 DEF PairWait
  <2> QED BY <1>1, <1>4, <1>6, <2>1, <2>2, OntoWait
<1> QED BY <1>5, <1>6 DEF Frees

(* "wait" stands on subshells only.                                        *)
LEMMA BelowRoot ==
  ASSUME Safe, Places(stack), WaitInv, stack # <<>>, Top.k \in RootOnly, NEW g, Below(Len(stack) - 1, g)
  PROVE  g.k \in Subs /\ ~Holding(g) /\ FrameWait(g)'
<1>1. StackOK(stack)
  BY DEF Safe
<1>2. FrameWait(g) /\ g.pc \in Resting /\ g.k \in Subs /\ ~Holding(g)
  BY <1>1, BelowWait DEF PairWait
<1> QED BY <1>2, RestWait

LEMMA TargetLive ==
  ASSUME Safe, Places(stack), WaitInv, Turns, NEW r, r = Target
  PROVE  Live(r) /\ Live(r)'
<1>1. stack # <<>> /\ Top.k \in Waits /\ Top.pc = "next" /\ (Top.k = "waitops" => Top.todo # <<>>) /\ r # Nil
  BY DEF Turns
<1>2. CASE Top.k = "wait"
  BY <1>1, <1>2, PickHere DEF Target, job_first, Where, Safe, TableOK, Turns, SameJobs, Live
<1>3. CASE Top.k = "waitops"
  BY <1>1, <1>3, TopWait DEF Target, FrameWait, Safe, Turns, SameJobs, Live
<1> QED BY <1>1, <1>2, <1>3 DEF Waits

LEMMA TurnsWait ==
  ASSUME Safe, Places(stack), WaitInv, Turns
  PROVE  WaitInv'
<1>1. StackOK(stack) /\ stack # <<>> /\ job_wait_interruptible' /\ Top.k \in RootOnly /\ FrameWait(Top)
  BY TopWait DEF Safe, Turns, RootOnly, Waits
<1>2. PICK f : Onto(Len(stack) - 1, f) /\ f.k = Top.k /\ f.pc = "top" /\ f.todo = Top.todo /\ f.j = Target
  BY DEF Turns
<1>3. Live(f.j)'
  BY <1>2, TargetLive
<1>4. FrameWait(f)'
  BY <1>1, <1>2, <1>3 DEF FrameWait
<1>5. \A g : Below(Len(stack) - 1, g) => FrameWait(g)' /\ PairWait(g, f)
  BY <1>1, BelowRoot DEF PairWait
<1> QED BY <1>1, <1>2, <1>4, <1>5, OntoWait

LEMMA FinishesWait ==
  ASSUME Safe, Places(stack), WaitInv, Finishes
  PROVE  WaitInv'
<1>1. StackOK(stack) /\ stack # <<>> /\ Top.k \in RootOnly /\ FrameWait(Top) /\ Top \in Frames
  BY TopWait, TopPlaced DEF Safe, Finishes, RootOnly, Waits
<1>2. PICK f : /\ Onto(Len(stack) - 1, f) /\ f.k = Top.k /\ f.pc = "next"
               /\ f.todo = IF Top.k = "wait" THEN Top.todo ELSE Tail(Top.todo)
  BY DEF Finishes
<1>3. f.k = "waitops" => Len(f.todo) <= 1 /\ f.todo = <<>>
  <2> SUFFICES ASSUME f.k = "waitops" PROVE Len(f.todo) <= 1 /\ f.todo = <<>>
    OBVIOUS
  <2>1. Top.todo \in Seq(Operand) /\ Top.todo # <<>> /\ Len(Top.todo) <= 1 /\ f.todo = Tail(Top.todo)
    BY <1>1, <1>2 DEF Finishes, FrameWait, Frames
  <2> QED BY <2>1
<1>4. f.pc \notin WaitPcs /\ ~Holding(f) /\ ~Owning(f)
  BY <1>2 DEF WaitPcs, Holding, Owning
<1>5. FrameWait(f)'
  BY <1>3, <1>4 DEF FrameWait
<1>6. \A g : Below(Len(stack) - 1, g) => FrameWait(g)' /\ PairWait(g, f)
  BY <1>1, <1>4, BelowRoot DEF PairWait
<1> QED BY <1>1, <1>2, <1>5, <1>6, OntoWait

LEMMA WalkersWait ==
  ASSUME Safe, Places(stack), WaitInv, Walks \/ SubEnds
  PROVE  WaitInv'
<1>1. StackOK(stack) /\ stack # <<>> /\ Top.k \in Subs \cup {"jobs", "update"}
  <2>1. CASE Walks
    BY <2>1, TopPlaced DEF Walks, Placed, PcsOf, WaitPcs, Waits, Subs, Frames, Calls, Safe
  <2>2. CASE SubEnds
    BY <2>2 DEF SubEnds, Safe
  <2> QED BY <2>1, <2>2
<1>2. PICK f : Onto(Len(stack) - 1, f) /\ f.k = Top.k /\ f.pc \in {"clean", "discard"}
  <2>1. CASE Walks
    <3>1. PICK f : f = [Top EXCEPT !.cur = After(Top.cur)]
      OBVIOUS
    <3> QED BY <1>1, <2>1, <3>1, WalkerIs DEF Walks
  <2>2. CASE SubEnds
    <3>1. PICK f : f = [Top EXCEPT !.pc = "discard", !.cur = First]
      OBVIOUS
    <3> QED BY <1>1, <2>2, <3>1, SubEnderIs DEF SubEnds
  <2> QED BY <2>1, <2>2
<1>3. f.k \in RootOnly /\ f.k \notin Waits /\ ~Holding(f) /\ ~Owning(f)
  BY <1>1, <1>2 DEF RootOnly, Waits, Subs, Holding, Owning, WaitPcs
<1>4. FrameWait(f)'
  BY <1>3 DEF FrameWait, Waits
<1>5. \A g : Below(Len(stack) - 1, g) => FrameWait(g)' /\ PairWait(g, f)
  BY <1>1, <1>2, <1>3, BelowRoot DEF PairWait
<1> QED BY <1>1, <1>2, <1>4, <1>5, OntoWait

LEMMA StepWait ==
  ASSUME WaitTame, Safe, Safe', Places(stack), WaitInv, [Next]_vars
  PROVE  WaitInv'
BY StepIs, StaysWait, GoesWait, LeavesWait, BeginsWait, LaunchesWait, RegistersWait, FreesWait,
   TurnsWait, FinishesWait, WalkersWait DEF StepKind

LEMMA InitWait == Init => WaitInv
<1> SUFFICES ASSUME Init PROVE WaitInv
  OBVIOUS
<1>1. Len(stack) = 0
  BY DEF Init
<1> QED BY <1>1 DEF WaitInv

LEMMA StepTame ==
  ASSUME WaitTame
  PROVE  Safe /\ Places(stack) /\ WaitInv /\ [Next]_vars => (Safe /\ Places(stack) /\ WaitInv)'
<1> SUFFICES ASSUME Safe, Places(stack), WaitInv, [Next]_vars PROVE (Safe /\ Places(stack) /\ WaitInv)'
  OBVIOUS
<1>1. Safe'
  BY StepSafe
<1>2. Places(stack)'
  BY StepPlaces DEF Places, Placed
<1>3. WaitInv'
  BY <1>1, StepWait
<1> QED BY <1>1, <1>2, <1>3

(* In every reachable state a job_wait() in progress works on a job that   *)
(* is in the list: neither the handler, a trap's commands, a jobs or       *)
(* job_update walk, the end of a subshell nor an outer call has freed it.  *)
(* It holds for every number of processes, jobs, pipeline members, nested  *)
(* calls and signals, with job control or without, with pids reused and    *)
(* forks failing, as long as traps and unforked last stages start programs *)
(* and pipelines but no wait, fg, jobs or subshell, and "wait" has one     *)
(* operand: without either restriction the code can free a job under a     *)
(* wait, as CleanUnderWait.cfg shows.                                      *)
THEOREM WaitsNeverDangle ==
  ASSUME WaitTame
  PROVE  Spec => []NoDanglingWait
<1>1. Init => Safe /\ Places(stack) /\ WaitInv
  BY InitSafe, InitPlaces, InitWait
<1>2. Safe /\ Places(stack) /\ WaitInv /\ [Next]_vars => (Safe /\ Places(stack) /\ WaitInv)'
  BY StepTame
<1>3. Safe /\ Places(stack) /\ WaitInv => NoDanglingWait
  BY TopWait DEF NoDanglingWait, FrameWait, Holding, Safe
<1> QED BY <1>1, <1>2, <1>3, PTL DEF Spec

-----------------------------------------------------------------------------
(* A trap ends an interruptible wait *)

(* At a check for traps only the check itself moves the call.              *)
LEMMA CheckStep ==
  ASSUME stack # <<>>, Top.k \in Waits, Top.pc \in {"chk", "rechk"}, Live(Top.j), [Next]_vars
  PROVE  stack' = stack \/ job_wait_check
<1>0. stack # <<>> /\ ~At("body") /\ ~At("blocked")
  BY DEF At
<1>1. CASE Script
  <2>1. \A c : ~Cmd(c)
    BY <1>0, CmdBody
  <2> QED BY <1>1, <2>1 DEF Script, eval_node_bgnd, eval_pipeline, exec_program, exec_program_fails, wait_all, wait_operands,
            builtin_jobs, job_update, builtin_fg, builtin_bg, eval_subshell
<1>2. CASE Shell
  <2>1. ~(job_fork \/ job_fork_parent \/ job_fork_fails \/ exec_program_parent \/ fdstack_data_eof)
    BY DEF job_fork, job_fork_parent, job_fork_fails, exec_program_parent, fdstack_data_eof, At, Running
  <2>2. job_resume_stopped => stack' = stack
    BY DEF job_resume_stopped
  <2>3. ~(job_wait_traps \/ job_wait_scan \/ waitpid_reap \/ waitpid_none \/ waitpid_block \/ job_wait_spin
            \/ job_wait_finish \/ job_wait_dangling)
    BY DEF job_wait_traps, job_wait_scan, waitpid_reap, waitpid_none, waitpid_block, job_wait_spin,
           job_wait_finish, job_wait_dangling, Waiting, At
  <2>4. ~(eval_pipeline_return \/ exec_program_return \/ fg_return \/ wait_next \/ wait_return)
    BY DEF eval_pipeline_return, exec_program_return, fg_return, wait_next, wait_return, Running
  <2>5. ~(job_clean \/ job_clean_end \/ body_end \/ job_discard \/ job_discard_end \/ trap_run_pending)
    BY <1>0 DEF job_clean, job_clean_end, body_end, job_discard, job_discard_end, trap_run_pending, At
  <2> QED BY <1>2, <2>1, <2>2, <2>3, <2>4, <2>5, SMTT(20) DEF Shell
<1>3. CASE Kernel
  BY <1>0, <1>3 DEF Kernel, ChildExit, ChildStop, ChildCont, sh_onsig, trap_relay, WakeIf
<1>4. CASE UNCHANGED vars
  BY <1>4 DEF vars
<1> QED BY <1>1, <1>2, <1>3, <1>4 DEF Next

LEMMA CheckEnds ==
  ASSUME Safe, Places(stack), WaitInv, stack # <<>>, Top.k \in Waits, Top.pc \in {"chk", "rechk"},
         [Next]_vars, trap_run_count # Top.t0
  PROVE  LET f == stack'[Len(stack)] IN f.pc # Top.pc => f.pc = "ret" /\ job_wait_sig'
<1>1. StackOK(stack) /\ Top \in Frames /\ FrameWait(Top) /\ Top.pc \in WaitPcs
  BY TopWait, TopPlaced DEF Safe, WaitPcs
<1>2. Live(Top.j) /\ job_wait_interruptible
  BY <1>1 DEF FrameWait, Holding
<1>3. CASE stack' = stack
  BY <1>3 DEF Top
<1>4. CASE job_wait_check
  <2> DEFINE f == [Top EXCEPT !.pc = "ret"]
  <2>1. stack' = Goto(f) /\ job_wait_sig'
    BY <1>2, <1>4 DEF job_wait_check, Step
  <2>2. f.pc = "ret"
    BY <1>1 DEF Frames
  <2> HIDE DEF f
  <2>3. stack'[Len(stack)] = f
    BY <1>1, <2>1, GotoIs
  <2> QED BY <2>1, <2>2, <2>3
<1> QED BY <1>2, <1>3, <1>4, CheckStep

(* Once a trap has run during an interruptible "wait", the next thing that *)
(* wait does is to return with job_wait_sig set: it neither scans its job  *)
(* again nor goes back to sleep, whichever of the two checks it is at and  *)
(* whatever the children and the handler do meanwhile.  The restriction is *)
(* the one of WaitsNeverDangle: a "wait" inside the trap would clear       *)
(* job_wait_interruptible for the outer one.                               *)
THEOREM TrapsEndWaits ==
  ASSUME WaitTame
  PROVE  Spec => TrapEndsWait
<1>1. Init => Safe /\ Places(stack) /\ WaitInv
  BY InitSafe, InitPlaces, InitWait
<1>2. Safe /\ Places(stack) /\ WaitInv /\ [Next]_vars => (Safe /\ Places(stack) /\ WaitInv)'
  BY StepTame
<1>3. Safe /\ Places(stack) /\ WaitInv /\ [Next]_vars =>
        [stack # <<>> /\ Top.k \in {"wait", "waitops"} /\ Top.pc \in {"chk", "rechk"} =>
           LET f == stack'[Len(stack)]
           IN  trap_run_count # Top.t0 /\ f.pc # Top.pc => f.pc = "ret" /\ job_wait_sig']_vars
  BY CheckEnds DEF Waits
<1> QED BY <1>1, <1>2, <1>3, PTL DEF Spec, TrapEndsWait

-----------------------------------------------------------------------------
(* A stopped job stays listed.  Two commands drop a job whatever its state *)
(* is: a pipeline frees its own when job_wait() hands it back stopped, and *)
(* a subshell that ends discards the jobs it started.  Under job control   *)
(* the theorem therefore leaves them out; without, no job is ever seen to  *)
(* stop.                                                                   *)

StopTame == Monitor => {"pipe", "sub", "cmdsub"} \cap Commands = {}

(* A member that is not filled in counts as running, and only job control  *)
(* lets a job stop.                                                        *)
StatsOK(j) == \A i \in 1..j.n : (j.pid[i] = Nil => j.stat[i] = RUN) /\ (j.stat[i] = STOP => Monitor)
(* A background job whose process is still to be forked has none.          *)
FreshBg ==
  stack # <<>> /\ Top.k = "bg" /\ Top.pc = "fork" /\ Top.j \in Refs =>
    \A i \in 1..heap[Top.j].n : heap[Top.j].pid[i] = Nil
(* Only commands of the script, and traps, are running.                    *)
Ran(s) == \A i \in 1..Len(s) : s[i].k = "trap" \/ \E c \in Commands : s[i].k = KindOf(c)
StopInv == (\A r \in Refs : StatsOK(heap[r])) /\ FreshBg /\ Ran(stack)

(* What a step may do to the record of a job that keeps its members.       *)
StatStep(r) ==
  /\ heap'[r].n = heap[r].n /\ heap'[r].pid = heap[r].pid
  /\ \A i \in 1..heap[r].n : \/ heap'[r].stat[i] \in {heap[r].stat[i], RUN}
                             \/ heap[r].pid[i] # Nil /\ (heap'[r].stat[i] = STOP => Monitor)
LEMMA StatKept ==
  ASSUME NEW r, StatsOK(heap[r]), StatStep(r)
  PROVE  StatsOK(heap'[r])
<1>1. RUN # STOP
  BY DEF RUN, STOP
<1> QED BY <1>1 DEF StatsOK, StatStep

LEMMA SignalStats ==
  ASSUME TableOK, NEW p \in Pids, NEW s, s = STOP => Monitor, job_signal(p, s), NEW r \in Refs
  PROVE  StatStep(r)
<1> DEFINE o == job_bypid(p)
           m == Member(o, p)
<1>1. CASE o = Nil
  BY <1>1 DEF job_signal, StatStep, table
<1>2. CASE o # Nil
  <2>0. heap \in [Refs -> Jobs] /\ job_list \in Seq(Refs) /\ p # Nil /\ heap[r] \in Jobs
    BY JobConstants DEF TableOK, TableType
  <2>1. heap' = [heap EXCEPT ![o].stat[m] = s]
    BY <1>2 DEF job_signal
  <2>2. heap[o].pid[m] = p
    <3>1. Owners(p) \in SUBSET Nat /\ Owners(p) # {} /\ o = job_list[Least(Owners(p))]
      BY <1>2 DEF Owners, job_bypid
    <3>2. Least(Owners(p)) \in Owners(p)
      BY <3>1, LeastOf, Zenon
    <3> DEFINE S == {i \in 1..heap[o].n : heap[o].pid[i] = p}
    <3>6. PICK q \in 1..Len(job_list) : o = job_list[q] /\ \E i \in 1..heap[job_list[q]].n : heap[job_list[q]].pid[i] = p
      BY <3>1, <3>2, Zenon DEF Owners
    <3>3. o \in Refs /\ S # {}
      <4> HIDE DEF o
      <4> QED BY <2>0, <3>6
    <3>4. S \in SUBSET Nat
      BY <2>0, <3>3 DEF Jobs
    <3> HIDE DEF S
    <3>5. Least(S) \in S
      BY <3>3, <3>4, LeastOf
    <3> QED BY <3>5 DEF S, Member
  <2> HIDE DEF o, m
  <2>3. CASE r # o
    BY <2>0, <2>1, <2>3 DEF StatStep
  <2>4. CASE r = o
    <3>1. heap'[r] = [heap[r] EXCEPT !.stat = [heap[r].stat EXCEPT ![m] = s]]
      BY <2>0, <2>1, <2>4
    <3>2. /\ heap'[r].n = heap[r].n /\ heap'[r].pid = heap[r].pid
          /\ heap'[r].stat = [heap[r].stat EXCEPT ![m] = s] /\ DOMAIN heap[r].stat = 1..heap[r].n
      BY <2>0, <3>1 DEF Jobs
    <3>3. \A i \in 1..heap[r].n : heap'[r].stat[i] = IF i = m THEN s ELSE heap[r].stat[i]
      BY <3>2
    <3> QED BY <2>0, <2>2, <2>4, <3>2, <3>3 DEF StatStep
  <2> QED BY <2>3, <2>4
<1> QED BY <1>1, <1>2

(* Only job control reports stops.                                         *)
LEMMA StopSeen ==
  ASSUME Safe, NEW p \in Pids, Reapable(p)
  PROVE  StatusOf(p) = STOP => Monitor
<1>1. kid[p].code \in Codes
  BY DEF Safe, KernelType
<1> QED BY <1>1, CodesApart DEF Reapable, StatusOf

LEMMA ResumeStats ==
  ASSUME TableOK, NEW x, NEW b, ResumeAs(x, b), NEW r \in Refs
  PROVE  StatStep(r)
<1>1. heap \in [Refs -> Jobs] /\ heap[r] \in Jobs
  BY DEF TableOK, TableType
<1> DEFINE t == [i \in DOMAIN heap[x].stat |-> IF heap[x].stat[i] = STOP THEN RUN ELSE heap[x].stat[i]]
<1>2. CASE r # x
  BY <1>1, <1>2 DEF ResumeAs, StatStep
<1>3. CASE r = x
  <2>1. heap' = [heap EXCEPT ![r] = [heap[r] EXCEPT !.bgnd = b, !.stat = t]]
    BY <1>1, <1>3 DEF ResumeAs, Jobs
  <2>2. DOMAIN heap[r].stat = 1..heap[r].n
    BY <1>1 DEF Jobs
  <2>3. \A i \in 1..heap[r].n : t[i] \in {heap[r].stat[i], RUN}
    BY <1>3, <2>2
  <2> HIDE DEF t
  <2>4. heap'[r].n = heap[r].n /\ heap'[r].pid = heap[r].pid /\ heap'[r].stat = t
    BY <1>1, <2>1 DEF Jobs
  <2> QED BY <2>3, <2>4 DEF StatStep
<1> QED BY <1>2, <1>3

LEMMA ScanStats ==
  ASSUME Safe, job_wait_scan, NEW r \in Refs
  PROVE  StatStep(r)
<1>1. heap \in [Refs -> Jobs] /\ heap[r] \in Jobs
  BY DEF Safe, TableOK, TableType
<1> DEFINE j == heap[Top.j]
           ended == {i \in 1..j.n : j.stat[i] = STOP}
           t == [i \in 1..j.n |-> IF i \in ended THEN RUN ELSE j.stat[i]]
<1>2. heap' = [heap EXCEPT ![Top.j].stat = t] \/ heap' = heap
  <2>1. heap' = [heap EXCEPT ![Top.j].stat = [i \in 1..j.n |-> IF i \in ended THEN RUN ELSE @[i]]] \/ heap' = heap
    BY DEF job_wait_scan
  <2> QED BY <2>1
<1>3. CASE heap' = heap
  BY <1>3 DEF StatStep
<1>4. CASE heap' = [heap EXCEPT ![Top.j].stat = t] /\ r = Top.j
  <2>1. \A i \in 1..heap[r].n : t[i] \in {heap[r].stat[i], RUN}
    BY <1>4
  <2> HIDE DEF t
  <2>2. heap'[r].n = heap[r].n /\ heap'[r].pid = heap[r].pid /\ heap'[r].stat = t
    BY <1>1, <1>4 DEF Jobs
  <2> QED BY <2>1, <2>2 DEF StatStep
<1>5. CASE heap' = [heap EXCEPT ![Top.j].stat = t] /\ r # Top.j
  <2> HIDE DEF t
  <2> QED BY <1>1, <1>5 DEF StatStep
<1> QED BY <1>2, <1>3, <1>4, <1>5

LEMMA FillStats ==
  ASSUME Safe, job_fork_parent, NEW r \in Refs, StatsOK(heap[r])
  PROVE  StatsOK(heap'[r])
<1>1. heap \in [Refs -> Jobs] /\ heap[r] \in Jobs
  BY DEF Safe, TableOK, TableType
<1>2. PICK x, i, p : heap' = [heap EXCEPT ![x].pid[i] = p, ![x].stat[i] = RUN]
  BY DEF job_fork_parent
<1>3. CASE r # x
  BY <1>1, <1>2, <1>3
<1>4. CASE r = x
  <2> DEFINE h == [heap EXCEPT ![x].pid[i] = p]
  <2>1. heap' = [h EXCEPT ![x].stat[i] = RUN]
    BY <1>2, Zenon
  <2>2. DOMAIN h = Refs /\ h[r] = [heap[r] EXCEPT !.pid = [heap[r].pid EXCEPT ![i] = p]]
    BY <1>1, <1>4
  <2> HIDE DEF h
  <2>3. h[r].n = heap[r].n /\ h[r].stat = heap[r].stat /\ h[r].pid = [heap[r].pid EXCEPT ![i] = p]
    BY <1>1, <2>2 DEF Jobs
  <2>4. DOMAIN h[r] = DOMAIN heap[r] /\ {"n", "pid", "stat"} \subseteq DOMAIN heap[r]
    BY <1>1, <2>2 DEF Jobs
  <2>5. heap'[r] = [h[r] EXCEPT !.stat = [h[r].stat EXCEPT ![i] = RUN]]
    BY <1>4, <2>1, <2>2
  <2>6. /\ heap'[r].n = heap[r].n /\ heap'[r].stat = [heap[r].stat EXCEPT ![i] = RUN]
        /\ heap'[r].pid = [heap[r].pid EXCEPT ![i] = p]
    BY <2>3, <2>4, <2>5
  <2>7. DOMAIN heap[r].stat = 1..heap[r].n /\ DOMAIN heap[r].pid = 1..heap[r].n
    BY <1>1 DEF Jobs
  <2>8. \A m \in 1..heap[r].n : /\ heap'[r].stat[m] = IF m = i THEN RUN ELSE heap[r].stat[m]
                                /\ m # i => heap'[r].pid[m] = heap[r].pid[m]
    BY <2>6, <2>7
  <2>9. RUN # STOP
    BY DEF RUN, STOP
  <2> QED BY <2>6, <2>8, <2>9 DEF StatsOK
<1> QED BY <1>3, <1>4

LEMMA NewStats ==
  ASSUME TableOK, NEW x, NEW n \in Nat, NEW b, NEW c, NEW p, job_new(x, n, b, c, p),
         NEW r \in Refs, StatsOK(heap[r])
  PROVE  StatsOK(heap'[r])
<1>1. Listed(x, n, p)
  BY NewListed
<1>2. RUN # STOP
  BY DEF RUN, STOP
<1> QED BY <1>1, <1>2 DEF Listed, StatsOK

LEMMA FreeStats ==
  ASSUME TableOK, NEW x, job_free(x), NEW r \in Refs, StatsOK(heap[r])
  PROVE  StatsOK(heap'[r])
<1>1. CASE UNCHANGED table
  BY <1>1 DEF table
<1>2. CASE job_delete(x)
  <2>1. heap'[r] = IF r = x THEN NoJob ELSE heap[r]
    BY <1>2 DEF job_delete, TableOK, TableType
  <2>2. StatsOK(NoJob)
    BY DEF StatsOK, NoJob
  <2> QED BY <2>1, <2>2
<1> QED BY <1>1, <1>2 DEF job_free

LEMMA StepStats ==
  ASSUME Safe, [Next]_vars, NEW r \in Refs, StatsOK(heap[r])
  PROVE  StatsOK(heap'[r])
<1>0. TableOK
  BY DEF Safe
<1>1. CASE heap' = heap
  BY <1>1
<1>2. ASSUME NEW p \in Pids, Reapable(p), job_signal(p, StatusOf(p))
      PROVE  StatsOK(heap'[r])
  BY <1>0, <1>2, SignalStats, StopSeen, StatKept
<1>3. ASSUME NEW x, NEW b, ResumeAs(x, b)
      PROVE  StatsOK(heap'[r])
  BY <1>0, <1>3, ResumeStats, StatKept
<1>4. ASSUME NEW x, job_free(x)
      PROVE  StatsOK(heap'[r])
  BY <1>0, <1>4, FreeStats
<1>5. ASSUME NEW x, NEW n \in Nat, NEW b, NEW c, NEW p, job_new(x, n, b, c, p)
      PROVE  StatsOK(heap'[r])
  BY <1>0, <1>5, NewStats
<1>6. CASE Script
  <2>1. CASE eval_node_bgnd
    BY <1>5, <2>1 DEF eval_node_bgnd
  <2>2. CASE \E n \in 0..MaxProcs, last, pipefail \in BOOLEAN : eval_pipeline(n, last, pipefail)
    <3>1. PICK n \in 0..MaxProcs, pipefail \in BOOLEAN, x \in Refs : job_new(x, n, FALSE, pipefail, Nil)
      BY <2>2 DEF eval_pipeline
    <3>2. n \in Nat
      BY JobConstants
    <3> QED BY <1>5, <3>1, <3>2
  <2>3. CASE builtin_fg \/ builtin_bg
    BY <1>3, <2>3 DEF builtin_fg, builtin_bg
  <2>4. CASE (\E bgnd \in BOOLEAN : exec_program(bgnd) \/ exec_program_fails(bgnd)) \/ wait_all \/ (\E specs \in SpecSeqs : wait_operands(specs))
               \/ builtin_jobs \/ job_update \/ \E k \in {"sub", "cmdsub"} : eval_subshell(k)
    BY <1>1, <2>4 DEF exec_program, exec_program_fails, wait_all, wait_operands, builtin_jobs, job_update, eval_subshell, table
  <2> QED BY <1>6, <2>1, <2>2, <2>3, <2>4 DEF Script
<1>7. CASE Shell
  <2>1. CASE job_fork \/ fdstack_data_eof \/ job_wait_traps \/ job_wait_check \/ waitpid_none \/ waitpid_block
               \/ job_wait_spin \/ job_wait_dangling
    BY <1>1, <2>1 DEF job_fork, fdstack_data_eof, job_wait_traps, job_wait_check, waitpid_none, waitpid_block,
         job_wait_spin, job_wait_dangling, table
  <2>2. CASE exec_program_return \/ fg_return \/ wait_next \/ wait_return \/ job_clean_end \/ body_end
               \/ job_discard_end \/ trap_run_pending
    BY <1>1, <2>2 DEF exec_program_return, fg_return, wait_next, wait_return, job_clean_end, body_end,
         job_discard_end, trap_run_pending, table
  <2>3. CASE job_fork_parent
    BY <2>3, FillStats
  <2>4. CASE job_fork_fails \/ job_wait_finish \/ eval_pipeline_return \/ job_clean \/ job_discard
    BY <1>1, <1>4, <2>4 DEF job_fork_fails, job_wait_finish, eval_pipeline_return, job_clean, job_discard, table
  <2>5. CASE exec_program_parent
    BY <1>5, <2>5 DEF exec_program_parent
  <2>6. CASE job_resume_stopped
    BY <1>2, <2>6 DEF job_resume_stopped
  <2>7. CASE waitpid_reap
    <3>1. PICK p \in Group(heap[Top.j]) : Reapable(p) /\ job_signal(p, StatusOf(p))
      BY <2>7 DEF waitpid_reap
    <3>2. p \in Pids
      <4>1. Top.j \in Refs
        BY <2>7, LiveRef DEF waitpid_reap, Waiting, Safe, TableOK
      <4>2. heap[Top.j] \in Jobs
        BY <4>1 DEF Safe, TableOK, TableType
      <4> QED BY <3>1, <4>2 DEF Group, Jobs
    <3> QED BY <1>2, <3>1, <3>2
  <2>8. CASE job_wait_scan
    BY <2>8, ScanStats, StatKept
  <2> QED BY <1>7, <2>1, <2>2, <2>3, <2>4, <2>5, <2>6, <2>7, <2>8 DEF Shell
<1>8. CASE Kernel
  <2>1. CASE sh_onsig
    BY <1>1, <1>2, <2>1 DEF sh_onsig, table
  <2>2. CASE trap_relay \/ \E p \in Pids : (\E c \in Codes : ChildExit(p, c)) \/ ChildStop(p) \/ ChildCont(p)
    BY <1>1, <2>2 DEF trap_relay, ChildExit, ChildStop, ChildCont, table
  <2> QED BY <1>8, <2>1, <2>2 DEF Kernel
<1>9. CASE UNCHANGED vars
  BY <1>1, <1>9 DEF vars, table
<1> QED BY <1>6, <1>7, <1>8, <1>9 DEF Next

(* What runs is a command of the script or a trap.                         *)
LEMMA OntoRan ==
  ASSUME StackOK(stack), Ran(stack), NEW n, NEW f, Onto(n, f),
         f.k = "trap" \/ (\E c \in Commands : f.k = KindOf(c)) \/ (stack # <<>> /\ f.k = Top.k)
  PROVE  Ran(stack')
<1>1. n \in 0..Len(stack) /\ Len(stack) \in Nat
  BY DEF Onto, Keeps, StackOK
<1>2. f.k = "trap" \/ (\E c \in Commands : f.k = KindOf(c))
  <2>1. stack # <<>> => Len(stack) \in 1..Len(stack)
    BY DEF StackOK
  <2> QED BY <2>1 DEF Ran, Top
<1> SUFFICES ASSUME NEW i \in 1..Len(stack')
             PROVE  stack'[i].k = "trap" \/ \E c \in Commands : stack'[i].k = KindOf(c)
  BY DEF Ran
<1> QED BY <1>1, <1>2, OntoAt, TrapPlaced DEF Ran

LEMMA OffRan ==
  ASSUME StackOK(stack), Ran(stack), NEW n, Off(n)
  PROVE  Ran(stack')
<1>1. n \in 0..Len(stack) /\ Len(stack) \in Nat
  BY DEF Off, Keeps, StackOK
<1> QED BY <1>1, OffAt DEF Ran

LEMMA StepRan ==
  ASSUME Safe, Places(stack), Ran(stack), [Next]_vars
  PROVE  Ran(stack')
<1>1. StackOK(stack) /\ StepKind
  BY StepIs DEF Safe
<1>2. CASE Stays \/ Leaves
  BY <1>1, <1>2, OffRan DEF Stays, Leaves
<1>3. CASE Goes
  BY <1>1, <1>3, OntoRan DEF Goes, Follows
<1>4. CASE Begins
  BY <1>1, <1>4, OntoRan, CmdScripted DEF Begins, Starts
<1>5. CASE Launches
  <2>1. \A k : k \in {"bg", "pipe"} => KindOf(k) = k
    BY DEF KindOf
  <2> QED BY <1>1, <1>5, <2>1, OntoRan, CmdScripted DEF Launches
<1>6. CASE Registers \/ Frees \/ Turns \/ Finishes
  BY <1>1, <1>6, OntoRan, OffRan DEF Registers, Frees, Turns, Finishes
<1>7. CASE Walks
  <2>1. PICK f : f = [Top EXCEPT !.cur = After(Top.cur)]
    OBVIOUS
  <2> QED BY <1>1, <1>7, <2>1, WalkerIs, OntoRan DEF Walks
<1>8. CASE SubEnds
  <2>1. PICK f : f = [Top EXCEPT !.pc = "discard", !.cur = First]
    OBVIOUS
  <2> QED BY <1>1, <1>8, <2>1, SubEnderIs, OntoRan DEF SubEnds
<1> QED BY <1>1, <1>2, <1>3, <1>4, <1>5, <1>6, <1>7, <1>8 DEF StepKind

(* The top of the chain after a step.                                      *)
LEMMA OntoTop ==
  ASSUME Safe, Safe', NEW n, NEW f, Onto(n, f)
  PROVE  stack' # <<>> /\ Top' \in {f, TrapBody}
<1>1. n \in Nat /\ Len(stack') \in {n + 1, n + 2} /\ Len(stack') \in Nat
  BY DEF Onto, Keeps, Safe, StackOK
<1> QED BY <1>1 DEF Onto, Top

LEMMA OffTop ==
  ASSUME Safe, Safe', stack # <<>>, Off(Len(stack) - 1), stack' # <<>>
  PROVE  Top'.pc \in Resting
<1>1. Len(stack') \in 1..Len(stack') /\ StackOK(stack)
  BY DEF Safe, StackOK
<1>2. Below(Len(stack) - 1, Top')
  BY <1>1, OffAt DEF Top, Off
<1> QED BY <1>1, <1>2, BelowRests

LEMMA StepFresh ==
  ASSUME Safe, Safe', Places(stack), FreshBg, [Next]_vars
  PROVE  FreshBg'
<1>1. StepKind
  BY StepIs
<1>2. CASE Stays
  <2>1. stack' # <<>> => stack # <<>> /\ Top' = Top
    <3>1. Len(stack) \in Nat /\ Len(stack') \in Nat /\ Len(stack') = Len(stack)
      BY <1>2 DEF Stays, Off, Safe, StackOK
    <3>2. stack' # <<>> => stack # <<>> /\ Len(stack) \in 1..Len(stack')
      BY <3>1 DEF Safe, StackOK
    <3> QED BY <1>2, <3>1, <3>2 DEF Stays, Off, Keeps, Top
  <2>2. SameMembers
    BY <1>2 DEF Stays
  <2> QED BY <2>1, <2>2 DEF FreshBg, SameMembers
<1>3. ASSUME stack # <<>>, Off(Len(stack) - 1)
      PROVE  FreshBg'
  BY <1>3, OffTop DEF FreshBg, Resting
<1>4. ASSUME NEW n, NEW f, Onto(n, f), f.k # "bg" \/ f.pc # "fork"
      PROVE  FreshBg'
  BY <1>4, OntoTop, TrapPlaced DEF FreshBg
<1>5. CASE Goes
  BY <1>4, <1>5 DEF Goes, Follows
<1>6. CASE Begins
  BY <1>4, <1>6 DEF Begins, Starts
<1>7. CASE Launches
  <2>1. PICK r, f : /\ Added(r) /\ Onto(Len(stack), f) /\ f.j = r
                    /\ f.k = "bg" => heap'[r].n = 1 /\ heap'[r].pid[1] = Nil
    BY <1>7 DEF Launches
  <2>2. Top' = f \/ Top'.k = "trap"
    BY <2>1, OntoTop, TrapPlaced
  <2>3. f.k = "bg" => \A i \in 1..heap'[r].n : heap'[r].pid[i] = Nil
    BY <2>1
  <2> QED BY <2>1, <2>2, <2>3 DEF FreshBg
<1>8. CASE Leaves \/ Registers \/ Frees
  BY <1>3, <1>4, <1>8 DEF Leaves, Registers, Frees
<1>9. CASE Turns \/ Finishes
  BY <1>4, <1>9 DEF Turns, Finishes
<1>10. CASE Walks
  <2>1. PICK f : f = [Top EXCEPT !.cur = After(Top.cur)]
    OBVIOUS
  <2> QED BY <1>4, <1>10, <2>1, WalkerIs DEF Walks
<1>11. CASE SubEnds
  <2>1. PICK f : f = [Top EXCEPT !.pc = "discard", !.cur = First]
    OBVIOUS
  <2> QED BY <1>4, <1>11, <2>1, SubEnderIs DEF SubEnds
<1> QED BY <1>1, <1>2, <1>5, <1>6, <1>7, <1>8, <1>9, <1>10, <1>11 DEF StepKind

LEMMA InitStop == Init => StopInv
<1> SUFFICES ASSUME Init PROVE StopInv
  OBVIOUS
<1>1. Len(stack) = 0 /\ stack = <<>> /\ \A r \in Refs : heap[r] = NoJob
  BY DEF Init
<1>2. StatsOK(NoJob)
  BY DEF StatsOK, NoJob
<1> QED BY <1>1, <1>2 DEF StopInv, FreshBg, Ran

LEMMA StepStop ==
  Safe /\ Places(stack) /\ StopInv /\ [Next]_vars => (Safe /\ Places(stack) /\ StopInv)'
<1> SUFFICES ASSUME Safe, Places(stack), StopInv, [Next]_vars PROVE (Safe /\ Places(stack) /\ StopInv)'
  OBVIOUS
<1>1. Safe'
  BY StepSafe
<1>2. Places(stack)'
  BY StepPlaces DEF Places, Placed
<1>3. \A r \in Refs : StatsOK(heap[r])'
  BY StepStats DEF StopInv, StatsOK
<1>4. FreshBg'
  BY <1>1, StepFresh DEF StopInv
<1>5. Ran(stack)'
  BY StepRan DEF StopInv, Ran
<1> QED BY <1>1, <1>2, <1>3, <1>4, <1>5 DEF StopInv

LEMMA StoppedKept ==
  ASSUME StopTame, Safe, Places(stack), StopInv, [Next]_vars, NEW r \in Refs, Live(r), job_stopped(heap[r])
  PROVE  Live(r)'
<1>0. Monitor
  BY DEF job_stopped, StopInv, StatsOK
<1>1. stack # <<>> => Top.k \notin {"pipe", "sub", "cmdsub"}
  <2> SUFFICES ASSUME stack # <<>> PROVE Top.k \notin {"pipe", "sub", "cmdsub"}
    OBVIOUS
  <2>1. Len(stack) \in 1..Len(stack)
    BY DEF Safe, StackOK
  <2>2. Top.k = "trap" \/ \E c \in Commands : Top.k = KindOf(c)
    BY <2>1 DEF StopInv, Ran, Top
  <2> QED BY <1>0, <2>2 DEF StopTame, KindOf
<1>2. CASE SameJobs
  BY <1>2 DEF SameJobs, Live
<1>3. CASE \E x : Added(x)
  BY <1>3 DEF Added
<1>4. CASE Frees
  <2>1. CASE job_done(heap[Top.j])
    BY <1>4, <2>1 DEF Frees, Dropped, job_done
  <2>2. CASE Top.k = "bg" /\ Top.pc = "fork"
    <3>1. Top.j \in Refs /\ stack # <<>>
      BY <1>4 DEF Frees, Dropped
    <3>2. ~job_stopped(heap[Top.j])
      <4>1. RUN # STOP
        BY DEF RUN, STOP
      <4> QED BY <2>2, <3>1, <4>1 DEF StopInv, FreshBg, StatsOK, job_stopped
    <3> QED BY <1>4, <3>2 DEF Frees, Dropped
  <2> QED BY <1>1, <1>4, <2>1, <2>2 DEF Frees
<1>5. CASE Walks
  <2>1. stack # <<>> /\ Top.pc = "clean"
    BY <1>1, <1>5, TopPlaced DEF Walks, Placed, PcsOf, WaitPcs, Waits, Subs, Frames, Calls
  <2> QED BY <1>2, <1>5, <2>1 DEF Walks, Dropped, job_done
<1> QED BY <1>2, <1>3, <1>4, <1>5, StepIs DEF StepKind, Stays, Goes, Leaves, Begins, Launches, Registers,
          Turns, Finishes, SubEnds

(* A job with a stopped member is never dropped: job_wait() leaves it in   *)
(* the list when it hands control back, and no later wait, jobs,           *)
(* job_update, failed fork or trap takes it away before something resumes  *)
(* it.  For every number of processes, jobs, calls and signals; under job  *)
(* control for scripts without pipelines and subshells, which do drop      *)
(* stopped jobs (StoppedPipe.cfg).                                         *)
THEOREM StoppedJobsStay ==
  ASSUME StopTame
  PROVE  Spec => StoppedJobKept
<1>1. Init => Safe /\ Places(stack) /\ StopInv
  BY InitSafe, InitPlaces, InitStop
<1>2. Safe /\ Places(stack) /\ StopInv /\ [Next]_vars => (Safe /\ Places(stack) /\ StopInv)'
  BY StepStop
<1>3. Safe /\ Places(stack) /\ StopInv /\ [Next]_vars =>
        [\A r \in Refs : Live(r) /\ job_stopped(heap[r]) => Live(r)']_vars
  BY StoppedKept
<1> QED BY <1>1, <1>2, <1>3, PTL DEF Spec, StoppedJobKept

-----------------------------------------------------------------------------
(* A subshell works on its own jobs.  "%%" and fg look at the current job  *)
(* whatever its level, so they are left out where there are subshells.     *)

NoSubs == Subs \cap Commands = {}
OwnTame == NoSubs \/ ("%%" \notin OperandKinds /\ (Monitor => "fg" \notin Commands))

(* The jobs a call waits for, or will.                                     *)
Claims(f, r) ==
  \/ f.k \in {"waitops", "fg"} /\ f.pc \in WaitPcs /\ f.j = r
  \/ f.k = "waitops" /\ \E i \in 1..Len(f.todo) : f.todo[i].j = r

(* d gives the subshell level of every call; a call claims no job of a     *)
(* level above its own.                                                    *)
DepthOK(d) ==
  /\ d \in [0..Len(stack) -> Nat]
  /\ \A i, m \in 0..Len(stack) : i <= m => d[i] <= d[m]
  /\ \A i \in 1..Len(stack) : d[i] = d[i - 1] + One(stack[i])
  /\ NoSubs => \A i \in 0..Len(stack) : d[i] = 0
  /\ sh_subshell = d[Len(stack)]
  /\ \A i \in 1..Len(stack) : \A r \in Refs : Claims(stack[i], r) /\ Live(r) => heap[r].level >= d[i]

(* No job is deeper than the shell is now, except those that the walk of   *)
(* job_discard still has to visit.                                         *)
LevelsOK ==
  \A k \in 1..Len(job_list) :
    /\ heap[job_list[k]].level >= 0
    /\ \/ heap[job_list[k]].level <= sh_subshell
       \/ At("discard") /\ \E c \in 1..Len(job_list) : job_list[c] = Top.cur /\ c <= k

OwnInv == LevelsOK /\ Ran(stack) /\ \E d : DepthOK(d)

(* A job keeps its level, or is new and of the shell's.                    *)
LevelKept == \A r \in Refs : Live(r)' => \/ Live(r) /\ heap'[r].level = heap[r].level
                                         \/ heap'[r].level >= sh_subshell'

LEMMA OffDepth ==
  ASSUME Safe, Safe', NEW d, DepthOK(d), NEW n, Off(n), sh_subshell' = d[n], LevelKept
  PROVE  \E e : DepthOK(e)'
<1>1. n \in 0..Len(stack) /\ Len(stack) \in Nat /\ Len(stack') = n /\ n \in Nat
  BY DEF Off, Keeps, Safe, StackOK
<1> DEFINE e == [i \in 0..n |-> d[i]]
<1>0. d \in [0..Len(stack) -> Nat]
  BY DEF DepthOK
<1>2. /\ e \in [0..n -> Nat] /\ \A i \in 0..n : e[i] = d[i]
      /\ \A i \in 1..n : i - 1 \in 0..n
  BY <1>0, <1>1
<1> HIDE DEF e
<1>3. \A i, m \in 0..n : i <= m => e[i] <= e[m]
  BY <1>1, <1>2, SMTT(20) DEF DepthOK
<1>4. \A i \in 1..n : stack'[i] = stack[i] /\ i \in 1..Len(stack) /\ i \in 0..n
  BY <1>1 DEF Off, Keeps
<1>5. \A i \in 1..n : e[i] = e[i - 1] + One(stack'[i])
  BY <1>2, <1>4 DEF DepthOK
<1>6. NoSubs => \A i \in 0..n : e[i] = 0
  BY <1>1, <1>2 DEF DepthOK
<1>7. sh_subshell' = e[n]
  BY <1>1, <1>2
<1>8. ASSUME NEW i \in 1..n, NEW r \in Refs, Claims(stack'[i], r), Live(r)'
      PROVE  heap'[r].level >= e[i]
  <2>1. heap'[r].level \in Int /\ e[i] \in Nat /\ sh_subshell' \in Int
    BY <1>2, <1>4 DEF Safe, TableOK, TableType, Jobs, FlagType
  <2>2. CASE Live(r) /\ heap'[r].level = heap[r].level
    BY <1>2, <1>4, <1>8, <2>2 DEF DepthOK
  <2>3. CASE heap'[r].level >= sh_subshell'
    <3>1. e[i] <= e[n]
      BY <1>1, <1>3, <1>4
    <3>2. e[n] \in Nat
      BY <1>1, <1>2
    <3> QED BY <1>7, <2>1, <2>3, <3>1, <3>2
  <2> QED BY <1>8, <2>2, <2>3 DEF LevelKept
<1>9. DepthOK(e)'
  BY <1>1, <1>2, <1>3, <1>5, <1>6, <1>7, <1>8 DEF DepthOK, NoSubs, Claims, One
<1> QED BY <1>9

LEMMA OntoDepth ==
  ASSUME Safe, Safe', NEW d, DepthOK(d), NEW n, NEW f, Onto(n, f), sh_subshell' = d[n] + One(f), LevelKept,
         NoSubs => f.k \notin Subs,
         \A r \in Refs : Claims(f, r) /\ Live(r)' => heap'[r].level >= d[n] + One(f)
  PROVE  \E e : DepthOK(e)'
<1>1. /\ n \in 0..Len(stack) /\ Len(stack) \in Nat /\ n \in Nat /\ Len(stack') \in Nat
      /\ Len(stack') \in {n + 1, n + 2}
  BY DEF Onto, Keeps, Safe, StackOK
<1> DEFINE N == Len(stack')
           v == d[n] + One(f)
<1>0. d \in [0..Len(stack) -> Nat] /\ One(f) \in {0, 1}
  BY DEF DepthOK, One
<1>2. v \in Nat /\ d[n] \in Nat /\ d[n] <= v
  BY <1>0, <1>1
<1>3. PICK e : /\ e \in [0..N -> Nat] /\ \A i \in 0..n : e[i] = d[i]
               /\ \A i \in 0..N : i > n => e[i] = v
  <2> DEFINE g == [i \in 0..N |-> IF i <= n THEN d[i] ELSE v]
  <2>1. /\ g \in [0..N -> Nat] /\ \A i \in 0..n : g[i] = d[i]
        /\ \A i \in 0..N : i > n => g[i] = v
    BY <1>0, <1>1, <1>2
  <2> QED BY <2>1
<1>4. \A i, m \in 0..N : i <= m => e[i] <= e[m]
  <2> SUFFICES ASSUME NEW i \in 0..N, NEW m \in 0..N, i <= m PROVE e[i] <= e[m]
    OBVIOUS
  <2>1. CASE m <= n
    BY <1>1, <1>3, <2>1 DEF DepthOK
  <2>2. CASE m > n /\ i <= n
    <3>1. d[i] <= d[n] /\ d[i] \in Nat
      BY <1>1, <2>2, SMTT(20) DEF DepthOK
    <3> QED BY <1>1, <1>2, <1>3, <2>2, <3>1
  <2>3. CASE i > n
    BY <1>1, <1>2, <1>3, <2>3
  <2> QED BY <1>1, <2>1, <2>2, <2>3
<1> HIDE DEF v
<1>5. \A i \in 1..N : e[i] = e[i - 1] + One(stack'[i])
  <2> SUFFICES ASSUME NEW i \in 1..N PROVE e[i] = e[i - 1] + One(stack'[i])
    OBVIOUS
  <2>1. CASE i \in 1..n
    <3>1. stack'[i] = stack[i] /\ i \in 1..Len(stack) /\ i - 1 \in 0..n /\ i \in 0..n
      BY <1>1, <2>1 DEF Onto, Keeps
    <3> QED BY <1>3, <3>1 DEF DepthOK
  <2>2. CASE i = n + 1
    <3>1. stack'[i] = f /\ i - 1 = n /\ i > n /\ i \in 0..N
      BY <1>1, <2>2 DEF Onto
    <3> QED BY <1>1, <1>3, <3>1, SMTT(20) DEF v
  <2>3. CASE i = n + 2
    <3>1. stack'[i] = TrapBody /\ i > n /\ i - 1 > n /\ i \in 0..N /\ i - 1 \in 0..N
      BY <1>1, <2>3 DEF Onto
    <3>2. One(TrapBody) = 0
      BY TrapPlaced DEF One, Subs
    <3> QED BY <1>2, <1>3, <3>1, <3>2
  <2> QED BY <1>1, <2>1, <2>2, <2>3
<1>6. NoSubs => \A i \in 0..N : e[i] = 0
  <2> SUFFICES ASSUME NoSubs, NEW i \in 0..N PROVE e[i] = 0
    OBVIOUS
  <2>1. One(f) = 0
    BY DEF One
  <2>2. \A m \in 0..n : d[m] = 0
    BY <1>1 DEF DepthOK
  <2>3. v = 0
    BY <1>1, <2>1, <2>2 DEF v
  <2> QED BY <1>1, <1>3, <2>2, <2>3
<1>7. sh_subshell' = e[N]
  BY <1>1, <1>3 DEF v
<1>8. ASSUME NEW i \in 1..N, NEW r \in Refs, Claims(stack'[i], r), Live(r)'
      PROVE  heap'[r].level >= e[i]
  <2>0. i \in 0..N /\ N \in 0..N /\ i <= N
    BY <1>1
  <2>1. heap'[r].level \in Int /\ e[i] \in Nat /\ e[N] \in Nat /\ e[i] <= e[N]
    <3>1. heap'[r].level \in Int
      BY DEF Safe, TableOK, TableType, Jobs
    <3> QED BY <2>0, <3>1, <1>3, <1>4
  <2>2. CASE heap'[r].level >= sh_subshell'
    BY <1>7, <2>1, <2>2
  <2>3. CASE Live(r) /\ heap'[r].level = heap[r].level
    <3>1. CASE i \in 1..n
      <4>1. stack'[i] = stack[i] /\ i \in 1..Len(stack) /\ i \in 0..n
        BY <1>1, <3>1 DEF Onto, Keeps
      <4> QED BY <1>3, <1>8, <2>3, <4>1 DEF DepthOK
    <3>2. CASE i = n + 1
      <4>1. stack'[i] = f /\ i > n /\ i \in 0..N
        BY <1>1, <3>2 DEF Onto
      <4> QED BY <1>3, <1>8, <4>1 DEF v
    <3>3. CASE i = n + 2
      <4>1. stack'[i] = TrapBody
        BY <1>1, <3>3 DEF Onto
      <4> QED BY <1>8, <4>1, TrapPlaced DEF Claims
    <3> QED BY <1>1, <3>1, <3>2, <3>3
  <2> QED BY <1>8, <2>2, <2>3 DEF LevelKept
<1>9. DepthOK(e)'
  <2>1. \A i \in 1..N : e[i] = e[i - 1] + One(stack[i])'
    BY <1>5 DEF One
  <2>2. (\A i \in 1..Len(stack) : \A r \in Refs : Claims(stack[i], r) /\ Live(r) => heap[r].level >= e[i])'
    BY <1>8 DEF Claims
  <2> QED BY <1>3, <1>4, <1>6, <1>7, <2>1, <2>2 DEF DepthOK, NoSubs
<1> QED BY <1>9

(* The top call is one level above what is below it if it is a subshell's  *)
(* body.                                                                   *)
LEMMA TopDepth ==
  ASSUME Safe, stack # <<>>, NEW d, DepthOK(d)
  PROVE  /\ Len(stack) - 1 \in 0..Len(stack) /\ d[Len(stack) - 1] \in Nat
         /\ sh_subshell = d[Len(stack) - 1] + One(Top) /\ One(Top) \in {0, 1}
         /\ \A r \in Refs : Claims(Top, r) /\ Live(r) => heap[r].level >= sh_subshell
<1>1. Len(stack) \in Nat /\ Len(stack) \in 1..Len(stack) /\ Len(stack) - 1 \in 0..Len(stack)
  BY DEF Safe, StackOK
<1>2. d[Len(stack) - 1] \in Nat /\ sh_subshell = d[Len(stack)]
  BY <1>1 DEF DepthOK
<1>3. One(Top) \in {0, 1}
  BY DEF One
<1> QED BY <1>1, <1>2, <1>3 DEF DepthOK, Top

(* A script without subshells never runs one.                              *)
LEMMA NoSubRuns ==
  ASSUME StackOK(stack), Ran(stack), stack # <<>>, NoSubs
  PROVE  Top.k \notin Subs
<1>1. Len(stack) \in 1..Len(stack)
  BY DEF StackOK
<1>2. Top.k = "trap" \/ \E c \in Commands : Top.k = KindOf(c)
  BY <1>1 DEF Ran, Top
<1> QED BY <1>2 DEF NoSubs, KindOf, Subs

LEMMA SameKept ==
  ASSUME SameJobs
  PROVE  LevelKept
BY DEF SameJobs, LevelKept, Live

LEMMA AddedKept ==
  ASSUME NEW r, Added(r), UNCHANGED sh_subshell, sh_subshell \in Int
  PROVE  LevelKept
<1> SUFFICES ASSUME NEW x \in Refs, Live(x)'
             PROVE  \/ Live(x) /\ heap'[x].level = heap[x].level
                    \/ heap'[x].level >= sh_subshell'
  BY DEF LevelKept
<1> QED BY DEF Added

LEMMA DroppedKept ==
  ASSUME NEW r, Dropped(r)
  PROVE  LevelKept
<1> SUFFICES ASSUME NEW x \in Refs, Live(x)'
             PROVE  Live(x) /\ heap'[x].level = heap[x].level
  BY DEF LevelKept
<1> QED BY DEF Dropped

(* The call on top goes on and claims no more than it did.                 *)
LEMMA TopOnto ==
  ASSUME Safe, Safe', Ran(stack), stack # <<>>, NEW d, DepthOK(d), NEW f, Onto(Len(stack) - 1, f), LevelKept,
         f.k = Top.k, One(f) <= One(Top), sh_subshell' = sh_subshell + One(f) - One(Top),
         \A r \in Refs : Claims(f, r) => Claims(Top, r)
  PROVE  \E e : DepthOK(e)'
<1> DEFINE n == Len(stack) - 1
<1>1. /\ d[n] \in Nat /\ sh_subshell = d[n] + One(Top) /\ One(Top) \in {0, 1} /\ One(f) \in {0, 1}
      /\ \A r \in Refs : Claims(Top, r) /\ Live(r) => heap[r].level >= sh_subshell
  BY TopDepth DEF One
<1>2. NoSubs => f.k \notin Subs
  BY NoSubRuns DEF Safe
<1>3. sh_subshell' = d[n] + One(f) /\ sh_subshell' <= sh_subshell /\ sh_subshell' \in Int /\ sh_subshell \in Int
  BY <1>1
<1>4. ASSUME NEW r \in Refs, Claims(f, r), Live(r)'
      PROVE  heap'[r].level >= d[n] + One(f)
  <2>1. heap'[r].level \in Int
    BY DEF Safe, TableOK, TableType, Jobs
  <2>2. CASE Live(r) /\ heap'[r].level = heap[r].level
    BY <1>1, <1>3, <1>4, <2>1, <2>2
  <2>3. CASE heap'[r].level >= sh_subshell'
    BY <1>3, <2>3
  <2> QED BY <1>4, <2>2, <2>3 DEF LevelKept
<1> HIDE DEF n
<1>5. Onto(n, f)
  BY DEF n
<1> QED BY <1>2, <1>3, <1>4, <1>5, OntoDepth

(* The call on top returns.                                                *)
LEMMA TopOff ==
  ASSUME Safe, Safe', stack # <<>>, NEW d, DepthOK(d), Off(Len(stack) - 1), LevelKept,
         One(Top) = 0, UNCHANGED sh_subshell
  PROVE  \E e : DepthOK(e)'
<1>1. sh_subshell' = d[Len(stack) - 1]
  BY TopDepth
<1> QED BY <1>1, OffDepth

LEMMA GoesDepth ==
  ASSUME Safe, Safe', Places(stack), Ran(stack), NEW d, DepthOK(d), Goes
  PROVE  \E e : DepthOK(e)'
<1>1. PICK f : Follows(f) /\ Onto(Len(stack) - 1, f)
  BY DEF Goes
<1>2. stack # <<>> /\ LevelKept /\ UNCHANGED sh_subshell /\ sh_subshell \in Int
  BY SameKept DEF Goes, Quiet, Safe, FlagType
<1>3. One(f) = One(Top) /\ One(f) \in {0, 1}
  BY <1>1 DEF Follows, One
<1>4. ASSUME NEW r \in Refs, Claims(f, r) PROVE Claims(Top, r)
  <2>1. f.k = Top.k /\ f.todo = Top.todo
    BY <1>1 DEF Follows
  <2>2. f.k \in {"waitops", "fg"} /\ f.pc \in WaitPcs => Top.pc \in WaitPcs /\ f.j = Top.j
    BY <1>1 DEF Follows, Owning, Holding, Waits
  <2> QED BY <1>4, <2>1, <2>2 DEF Claims
<1> QED BY <1>1, <1>2, <1>3, <1>4, TopOnto DEF Follows

LEMMA RegistersDepth ==
  ASSUME Safe, Safe', Places(stack), Ran(stack), NEW d, DepthOK(d), Registers
  PROVE  \E e : DepthOK(e)'
<1>1. PICK r : /\ Added(r)
               /\ \/ Off(Len(stack) - 1)
                  \/ \E f : Onto(Len(stack) - 1, f) /\ f.k = "prog"
  BY DEF Registers
<1>2. stack # <<>> /\ Top.k = "prog" /\ UNCHANGED sh_subshell /\ sh_subshell \in Int
  BY DEF Registers, Quiet, Safe, FlagType
<1>3. LevelKept
  BY <1>1, <1>2, AddedKept
<1>4. One(Top) = 0
  BY <1>2 DEF One, Subs
<1>5. CASE Off(Len(stack) - 1)
  BY <1>2, <1>3, <1>4, <1>5, TopOff
<1>6. ASSUME NEW f, Onto(Len(stack) - 1, f), f.k = "prog"
      PROVE  \E e : DepthOK(e)'
  <2>1. One(f) = 0 /\ \A x \in Refs : ~Claims(f, x)
    BY <1>6 DEF One, Subs, Claims
  <2> QED BY <1>2, <1>3, <1>4, <1>6, <2>1, TopOnto
<1> QED BY <1>1, <1>5, <1>6

LEMMA FreesDepth ==
  ASSUME Safe, Safe', Places(stack), Ran(stack), NEW d, DepthOK(d), Frees
  PROVE  \E e : DepthOK(e)'
<1>1. stack # <<>> /\ UNCHANGED sh_subshell /\ sh_subshell \in Int /\ LevelKept
  BY DroppedKept DEF Frees, Quiet, Safe, FlagType
<1>2. One(Top) = 0
  BY DEF Frees, Owning, Holding, One, Subs, WaitPcs
<1>3. CASE Off(Len(stack) - 1)
  BY <1>1, <1>2, <1>3, TopOff
<1>4. ASSUME NEW f, Onto(Len(stack) - 1, f), f.k = Top.k, f.pc = "ret", f.todo = Top.todo
      PROVE  \E e : DepthOK(e)'
  <2>1. One(f) = 0 /\ \A x \in Refs : Claims(f, x) => Claims(Top, x)
    BY <1>4 DEF One, Claims, WaitPcs
  <2> QED BY <1>1, <1>2, <1>4, <2>1, TopOnto
<1> QED BY <1>3, <1>4 DEF Frees

LEMMA TurnsDepth ==
  ASSUME Safe, Safe', Places(stack), Ran(stack), NEW d, DepthOK(d), Turns \/ Finishes
  PROVE  \E e : DepthOK(e)'
<1>1. /\ stack # <<>> /\ UNCHANGED sh_subshell /\ sh_subshell \in Int /\ LevelKept
      /\ Top.k \in Waits /\ (Top.k = "waitops" => Top.todo # <<>>) /\ Top \in Frames
  BY SameKept, TopPlaced DEF Turns, Finishes, Safe, FlagType
<1>2. PICK f : /\ Onto(Len(stack) - 1, f) /\ f.k = Top.k
               /\ \/ f.pc = "top" /\ f.todo = Top.todo /\ f.j = Target
                  \/ f.pc = "next" /\ f.todo = IF Top.k = "wait" THEN Top.todo ELSE Tail(Top.todo)
  BY DEF Turns, Finishes
<1>3. One(Top) = 0 /\ One(f) = 0
  BY <1>1, <1>2 DEF One, Subs, Waits
<1>4. ASSUME NEW r \in Refs, Claims(f, r) PROVE Claims(Top, r)
  <2>1. f.k = "waitops" /\ Top.k = "waitops"
    BY <1>1, <1>2, <1>4 DEF Claims, Waits
  <2>2. Top.todo \in Seq(Operand) /\ Top.todo # <<>>
    BY <1>1, <2>1 DEF Frames
  <2>3. Head(Top.todo) = Top.todo[1] /\ 1 \in 1..Len(Top.todo)
    BY <2>2
  <2>4. \A i \in 1..Len(Tail(Top.todo)) : Tail(Top.todo)[i] = Top.todo[i + 1] /\ i + 1 \in 1..Len(Top.todo)
    BY <2>2
  <2>5. CASE f.pc = "top" /\ f.todo = Top.todo /\ f.j = Target
    BY <1>4, <2>1, <2>3, <2>5 DEF Claims, Target
  <2>6. CASE f.pc = "next" /\ f.todo = Tail(Top.todo)
    <3>1. PICK i \in 1..Len(f.todo) : f.todo[i].j = r
      BY <1>4, <2>6 DEF Claims, WaitPcs
    <3> QED BY <2>1, <2>4, <2>6, <3>1 DEF Claims
  <2> QED BY <1>2, <2>1, <2>5, <2>6
<1> QED BY <1>1, <1>2, <1>3, <1>4, TopOnto

LEMMA WalksDepth ==
  ASSUME Safe, Safe', Places(stack), Ran(stack), NEW d, DepthOK(d), Walks
  PROVE  \E e : DepthOK(e)'
<1>1. stack # <<>> /\ UNCHANGED sh_subshell /\ sh_subshell \in Int /\ LevelKept /\ Top.pc \in {"clean", "discard"}
  BY SameKept, DroppedKept DEF Walks, Quiet, Safe, FlagType
<1>2. PICK f : f = [Top EXCEPT !.cur = After(Top.cur)] /\ Onto(Len(stack) - 1, f)
  BY DEF Walks
<1>0. Top.k # "waitops"
  BY <1>1, TopPlaced DEF Placed, PcsOf, WaitPcs, Waits, Subs, Frames, Calls, Safe
<1>3. f.k = Top.k /\ f.pc = Top.pc /\ Top.k # "waitops"
  BY <1>0, <1>1, <1>2, WalkerIs
<1>4. One(Top) = 0 /\ One(f) = 0 /\ \A r \in Refs : ~Claims(f, r)
  BY <1>1, <1>3 DEF One, Claims, WaitPcs
<1>5. One(f) <= One(Top) /\ sh_subshell' = sh_subshell + One(f) - One(Top)
  BY <1>1, <1>4
<1>6. \A r \in Refs : Claims(f, r) => Claims(Top, r)
  BY <1>4
<1> QED BY <1>1, <1>2, <1>3, <1>5, <1>6, TopOnto

LEMMA SubEndsDepth ==
  ASSUME Safe, Safe', Places(stack), Ran(stack), NEW d, DepthOK(d), SubEnds
  PROVE  \E e : DepthOK(e)'
<1>1. stack # <<>> /\ sh_subshell' = sh_subshell - 1 /\ sh_subshell \in Int /\ LevelKept /\ Top.k \in Subs
  BY SameKept DEF SubEnds, Safe, FlagType
<1>2. PICK f : f = [Top EXCEPT !.pc = "discard", !.cur = First] /\ Onto(Len(stack) - 1, f)
  BY DEF SubEnds
<1>3. f.k = Top.k /\ f.pc = "discard" /\ Top.k # "waitops"
  BY <1>1, <1>2, SubEnderIs DEF Subs
<1>4. One(Top) = 1 /\ One(f) = 0 /\ \A r \in Refs : ~Claims(f, r)
  BY <1>1, <1>3 DEF One, Claims, WaitPcs, SubEnds
<1>5. One(f) <= One(Top) /\ sh_subshell' = sh_subshell + One(f) - One(Top)
  BY <1>1, <1>4
<1>6. \A r \in Refs : Claims(f, r) => Claims(Top, r)
  BY <1>4
<1> QED BY <1>1, <1>2, <1>3, <1>5, <1>6, TopOnto

(* Every form of operand but "%%" looks at jobs of the shell's own level.  *)
LEMMA FindHere ==
  ASSUME TableOK, NEW spec, spec.by \in {"%-", "%n", "pid"}, job_find(spec) # Nil
  PROVE  Here(job_find(spec))
<1>1. ASSUME NEW S, S \subseteq {k \in 1..Len(job_list) : Here(job_list[k])}
      PROVE  (FirstHere(S) # Nil => Here(FirstHere(S))) /\ (LastHere(S) # Nil => Here(LastHere(S)))
  <2>1. Len(job_list) \in Nat /\ S \in SUBSET Nat /\ S \in SUBSET (0..Len(job_list))
    BY <1>1 DEF TableOK, TableType
  <2>2. CASE S = {}
    BY <2>2 DEF FirstHere, LastHere
  <2>3. CASE S # {}
    <3>1. Least(S) \in S /\ Greatest(S) \in S
      BY <2>1, <2>3, LeastOf, GreatestOf
    <3> QED BY <1>1, <2>3, <3>1 DEF FirstHere, LastHere
  <2> QED BY <2>2, <2>3
<1>2. CASE spec.by = "%-"
  BY <1>1, <1>2 DEF job_find, Where
<1>3. CASE spec.by = "%n"
  BY <1>1, <1>3 DEF job_find, Where
<1>4. CASE spec.by = "pid"
  BY <1>1, <1>4 DEF job_find, Where
<1> QED BY <1>2, <1>3, <1>4

(* A call that starts claims jobs of the shell's level, or there is no     *)
(* other.                                                                  *)
LEMMA StartClaims ==
  ASSUME Safe, OwnTame, NEW f, FrameOK(f), Starts(f), ~NoSubs, NEW r \in Refs, Claims(f, r)
  PROVE  heap[r].level = sh_subshell
<1>1. f.k # "trap"
  BY DEF Claims
<1>2. PICK c : Cmd(c) /\ f.k = KindOf(c)
  BY <1>1 DEF Starts
<1>3. f.k # "fg"
  BY <1>2, CmdScripted DEF OwnTame, Starts, KindOf
<1>4. f.k = "waitops" /\ f.pc = "next"
  BY <1>3 DEF Claims, Starts, Waits
<1>5. PICK i \in 1..Len(f.todo) : f.todo[i].j = r
  BY <1>4 DEF Claims, WaitPcs
<1>6. PICK specs \in SpecSeqs : f.todo = Looked(specs)
  BY <1>4 DEF Starts
<1>7. PICK m \in 1..MaxOperands : specs \in [1..m -> Specs]
  BY <1>6 DEF SpecSeqs
<1>8. MaxOperands \in Nat /\ m \in Nat /\ Len(specs) = m
  BY <1>7, JobConstants
<1>9. Len(f.todo) = m /\ \A x \in 1..m : f.todo[x].j = job_find(specs[x])
  <2> DEFINE o(x) == [spec |-> specs[x], j |-> job_find(specs[x])]
  <2>1. f.todo = [x \in 1..m |-> o(x)]
    BY <1>6, <1>8 DEF Looked
  <2>0. \A x : o(x).j = job_find(specs[x])
    OBVIOUS
  <2> HIDE DEF o
  <2>2. Len(f.todo) = m /\ \A x \in 1..m : f.todo[x] = o(x)
    BY <1>8, <2>1
  <2> QED BY <2>0, <2>2
<1>10. i \in 1..m /\ job_find(specs[i]) = r /\ specs[i] \in Specs
  <2>1. i \in 1..m
    BY <1>5, <1>9
  <2>2. f.todo[i].j = job_find(specs[i])
    BY <1>9, <2>1
  <2>3. specs[i] \in Specs
    BY <1>7, <2>1
  <2> QED BY <1>5, <2>1, <2>2, <2>3
<1>13. specs[i].by \in OperandKinds /\ specs[i].by \in {"%%", "%-", "%n", "pid"}
  BY <1>10 DEF Specs
<1>11. specs[i].by \in {"%-", "%n", "pid"}
  BY <1>13 DEF OwnTame
<1>12. r # Nil
  BY JobConstants
<1> QED BY <1>10, <1>11, <1>12, FindHere DEF Here, Safe

(* Levels are never negative.                                              *)
LEMMA LevelNat ==
  ASSUME TableType, LevelsOK, NEW r, Live(r)
  PROVE  heap[r].level >= 0
BY DEF LevelsOK, Live

LEMMA BeginsDepth ==
  ASSUME OwnTame, Safe, Safe', Ran(stack), LevelsOK, NEW d, DepthOK(d), Begins
  PROVE  \E e : DepthOK(e)'
<1>1. PICK f : Starts(f) /\ sh_subshell' = sh_subshell + One(f) /\ Onto(Len(stack), f)
  BY DEF Begins
<1>2. LevelKept /\ FrameOK(f) /\ Len(stack) \in Nat
  BY <1>1, SameKept, OntoFrame DEF Begins, Safe, StackOK
<1>3. sh_subshell = d[Len(stack)] /\ sh_subshell \in Int
  BY DEF DepthOK, Safe, FlagType
<1>4. NoSubs => f.k \notin Subs /\ sh_subshell = 0
  <2>1. NoSubs => f.k \notin Subs
    BY <1>1, CmdScripted DEF Starts, NoSubs, KindOf, Subs
  <2> QED BY <1>2, <2>1 DEF DepthOK
<1>5. ASSUME NEW r \in Refs, Claims(f, r), Live(r)'
      PROVE  heap'[r].level >= d[Len(stack)] + One(f)
  <2>1. One(f) = 0
    BY <1>5 DEF One, Claims, Subs
  <2>2. Live(r) /\ heap'[r].level = heap[r].level
    BY <1>5 DEF Begins, SameJobs, Live
  <2>3. CASE NoSubs
    <3>1. heap[r].level >= 0
      BY <2>2, LevelNat DEF Safe, TableOK
    <3>2. d[Len(stack)] + One(f) = 0
      BY <1>3, <1>4, <2>1, <2>3
    <3> QED BY <2>2, <3>1, <3>2
  <2>4. CASE ~NoSubs
    BY <1>1, <1>2, <1>3, <1>5, <2>1, <2>2, <2>4, StartClaims
  <2> QED BY <2>3, <2>4
<1>6. sh_subshell' = d[Len(stack)] + One(f)
  BY <1>1, <1>3
<1> QED BY <1>1, <1>2, <1>4, <1>5, <1>6, OntoDepth

LEMMA LaunchesDepth ==
  ASSUME Safe, Safe', NEW d, DepthOK(d), Launches
  PROVE  \E e : DepthOK(e)'
<1>1. PICK r, f : Added(r) /\ Onto(Len(stack), f) /\ f.k \in {"bg", "pipe"}
  BY DEF Launches
<1>2. UNCHANGED sh_subshell /\ sh_subshell \in Int /\ sh_subshell = d[Len(stack)]
  BY DEF Launches, Quiet, Safe, FlagType, DepthOK
<1>3. LevelKept
  BY <1>1, <1>2, AddedKept
<1>4. One(f) = 0 /\ f.k \notin Subs /\ \A x \in Refs : ~Claims(f, x)
  BY <1>1 DEF One, Subs, Claims
<1>5. sh_subshell' = d[Len(stack)] + One(f)
  BY <1>2, <1>4
<1> QED BY <1>1, <1>3, <1>4, <1>5, OntoDepth

LEMMA StepDepth ==
  ASSUME OwnTame, Safe, Safe', Places(stack), Ran(stack), LevelsOK, NEW d, DepthOK(d), [Next]_vars
  PROVE  \E e : DepthOK(e)'
<1>1. StepKind
  BY StepIs
<1>2. CASE Stays
  <2>1. sh_subshell' = d[Len(stack)] /\ Off(Len(stack)) /\ LevelKept
    BY <1>2, SameKept DEF Stays, Quiet, DepthOK
  <2> QED BY <2>1, OffDepth
<1>3. CASE Leaves
  <2>1. stack # <<>> /\ Off(Len(stack) - 1) /\ LevelKept /\ One(Top) = 0 /\ UNCHANGED sh_subshell
    BY <1>3, SameKept DEF Leaves
  <2> QED BY <2>1, TopOff
<1> QED BY <1>1, <1>2, <1>3, GoesDepth, BeginsDepth, LaunchesDepth, RegistersDepth, FreesDepth,
           TurnsDepth, WalksDepth, SubEndsDepth DEF StepKind

(* No job is deeper than the shell.                                        *)
Flat == \A r \in Refs : Live(r) => heap[r].level >= 0 /\ heap[r].level <= sh_subshell

LEMMA LevelsFlat ==
  ASSUME TableType, LevelsOK, ~At("discard") \/ Top.cur = Nil
  PROVE  Flat
<1> SUFFICES ASSUME NEW r \in Refs, Live(r) PROVE heap[r].level >= 0 /\ heap[r].level <= sh_subshell
  BY DEF Flat
<1>1. PICK k \in 1..Len(job_list) : job_list[k] = r
  BY DEF Live
<1>2. \A c \in 1..Len(job_list) : job_list[c] # Nil
  BY JobConstants DEF TableType
<1> QED BY <1>1, <1>2 DEF LevelsOK

LEMMA FlatLevels ==
  ASSUME Safe', Flat'
  PROVE  LevelsOK'
<1>1. job_list' \in Seq(Refs)
  BY DEF Safe, TableOK, TableType
<1> SUFFICES ASSUME NEW k \in 1..Len(job_list')
             PROVE  heap'[job_list'[k]].level >= 0 /\ heap'[job_list'[k]].level <= sh_subshell'
  BY DEF LevelsOK
<1>2. PICK r : r = job_list'[k]
  OBVIOUS
<1>3. r \in Refs /\ Live(r)'
  BY <1>1, <1>2 DEF Live
<1> QED BY <1>2, <1>3 DEF Flat

LEMMA SameFlat ==
  ASSUME Safe, Safe', Flat, SameJobs, sh_subshell' >= sh_subshell
  PROVE  Flat'
<1> SUFFICES ASSUME NEW r \in Refs, Live(r)' PROVE heap'[r].level >= 0 /\ heap'[r].level <= sh_subshell'
  BY DEF Flat
<1>1. Live(r) /\ heap'[r].level = heap[r].level
  BY DEF SameJobs, Live
<1>2. heap[r].level \in Int /\ sh_subshell \in Int /\ sh_subshell' \in Int
  BY DEF Safe, TableOK, TableType, Jobs, FlagType
<1> QED BY <1>1, <1>2 DEF Flat

LEMMA AddedFlat ==
  ASSUME Safe, Flat, NEW x, Added(x), UNCHANGED sh_subshell, sh_subshell >= 0
  PROVE  Flat'
<1>1. sh_subshell \in Int
  BY DEF Safe, FlagType
<1> SUFFICES ASSUME NEW r \in Refs, Live(r)' PROVE heap'[r].level >= 0 /\ heap'[r].level <= sh_subshell'
  BY DEF Flat
<1>2. CASE r = x
  BY <1>1, <1>2 DEF Added
<1>3. CASE r # x
  BY <1>1, <1>3 DEF Added, Flat
<1> QED BY <1>2, <1>3

LEMMA DroppedFlat ==
  ASSUME Flat, NEW x, Dropped(x), UNCHANGED sh_subshell
  PROVE  Flat'
<1> SUFFICES ASSUME NEW r \in Refs, Live(r)' PROVE heap'[r].level >= 0 /\ heap'[r].level <= sh_subshell'
  BY DEF Flat
<1> QED BY DEF Dropped, Flat

LEMMA StaysLevels ==
  ASSUME Safe, Safe', LevelsOK, Stays
  PROVE  LevelsOK'
<1>1. job_list' = job_list /\ sh_subshell' = sh_subshell /\ \A r \in Refs : heap'[r].level = heap[r].level
  BY DEF Stays, SameJobs, Quiet
<1>2. At("discard") => At("discard")' /\ Top' = Top
  <2>1. Len(stack) \in Nat /\ Len(stack') \in Nat /\ Len(stack') = Len(stack)
    BY DEF Stays, Off, Safe, StackOK
  <2>2. stack # <<>> => stack' # <<>> /\ Len(stack) \in 1..Len(stack)
    BY <2>1 DEF Safe, StackOK
  <2> QED BY <2>1, <2>2 DEF Stays, Off, Keeps, Top, At
<1>3. \A k \in 1..Len(job_list) : job_list[k] \in Refs
  BY DEF Safe, TableOK, TableType
<1> QED BY <1>1, <1>2, <1>3 DEF LevelsOK

(* The walk of job_discard starts at the first job.                        *)
LEMMA SubEndsLevels ==
  ASSUME Safe, Safe', Places(stack), LevelsOK, SubEnds
  PROVE  LevelsOK'
<1>1. /\ job_list' = job_list /\ \A r \in Refs : heap'[r].level = heap[r].level
      /\ stack # <<>> /\ Top.pc = "body" /\ Len(stack') = Len(stack)
  BY DEF SubEnds, SameJobs
<1>2. PICK f : f = [Top EXCEPT !.pc = "discard", !.cur = First] /\ Onto(Len(stack) - 1, f)
  BY DEF SubEnds
<1>3. f.pc = "discard" /\ f.cur = First
  BY <1>1, <1>2, SubEnderIs
<1>4. stack' # <<>> /\ Top' = f
  <2>1. Len(stack) \in Nat /\ Len(stack) >= 1 /\ (Len(stack) - 1) + 1 = Len(stack)
    BY <1>1 DEF Safe, StackOK
  <2> QED BY <1>1, <1>2, <2>1 DEF Onto, Top
<1>5. job_list \in Seq(Refs) /\ Len(job_list) \in Nat
  BY DEF Safe, TableOK, TableType
<1> SUFFICES ASSUME NEW k \in 1..Len(job_list')
             PROVE  /\ heap'[job_list'[k]].level >= 0
                    /\ At("discard")' /\ 1 \in 1..Len(job_list') /\ job_list'[1] = Top'.cur /\ 1 <= k
  BY DEF LevelsOK
<1>6. heap'[job_list'[k]].level >= 0
  BY <1>1, <1>5 DEF LevelsOK
<1>7. 1 \in 1..Len(job_list') /\ 1 <= k /\ job_list # <<>>
  BY <1>1, <1>5
<1> QED BY <1>1, <1>3, <1>4, <1>6, <1>7 DEF At, First

(* It goes on behind the job it has looked at, which is not deeper or is   *)
(* no longer there.                                                        *)
LEMMA DiscardLevels ==
  ASSUME Safe, Safe', Places(stack), LevelsOK, Walks, Top.pc = "discard"
  PROVE  LevelsOK'
<1>0. /\ stack # <<>> /\ Top.cur # Nil /\ sh_subshell' = sh_subshell /\ Len(stack') = Len(stack)
      /\ \/ SameJobs /\ heap[Top.cur].level <= sh_subshell
         \/ Dropped(Top.cur) /\ job_list' = RemoveAt(job_list, Pos(job_list, Top.cur))
  BY DEF Walks, Quiet
<1>1. PICK r : r = Top.cur
  OBVIOUS
<1>2. PICK f : f = [Top EXCEPT !.cur = After(r)] /\ Onto(Len(stack) - 1, f)
  BY <1>1 DEF Walks
<1>3. f.pc = "discard" /\ f.cur = After(r)
  BY <1>0, <1>1, <1>2, WalkerIs
<1>4. stack' # <<>> /\ Top' = f
  <2>1. Len(stack) \in Nat /\ Len(stack) >= 1 /\ (Len(stack) - 1) + 1 = Len(stack)
    BY <1>0 DEF Safe, StackOK
  <2> QED BY <1>0, <1>2, <2>1 DEF Onto, Top
<1>5. /\ job_list \in Seq(Refs) /\ Len(job_list) \in Nat /\ ListDistinct /\ Live(r)
      /\ sh_subshell \in Int /\ \A x \in Refs : heap[x].level \in Int /\ heap'[x].level \in Int
  <2>1. Live(Top.cur)
    BY <1>0 DEF Safe, WalkLive
  <2>2. ListDistinct /\ sh_subshell \in Int
    BY DEF Safe, TableOK, TableInv, FlagType
  <2>3. \A x \in Refs : heap[x].level \in Int /\ heap'[x].level \in Int
    BY DEF Safe, TableOK, TableType, Jobs
  <2>4. job_list \in Seq(Refs) /\ Len(job_list) \in Nat
    BY DEF Safe, TableOK, TableType
  <2> QED BY <1>1, <2>1, <2>2, <2>3, <2>4
<1>6. PICK c : c = Pos(job_list, r) /\ c \in 1..Len(job_list) /\ job_list[c] = r
  BY <1>5, PosOf
<1>7. After(r) = IF c < Len(job_list) THEN job_list[c + 1] ELSE Nil
  BY <1>6 DEF After
<1>8. \A k \in 1..Len(job_list) : /\ heap[job_list[k]].level >= 0
                                  /\ heap[job_list[k]].level <= sh_subshell \/ c <= k
  <2>1. \A h \in 1..Len(job_list) : job_list[h] = Top.cur => h = c
    BY <1>1, <1>5, <1>6 DEF ListDistinct
  <2> QED BY <2>1 DEF LevelsOK
<1>9. CASE SameJobs /\ heap[Top.cur].level <= sh_subshell
  <2>1. job_list' = job_list /\ \A x \in Refs : heap'[x].level = heap[x].level
    BY <1>9 DEF SameJobs
  <2> SUFFICES ASSUME NEW k \in 1..Len(job_list), ~(heap[job_list[k]].level <= sh_subshell)
               PROVE  c + 1 \in 1..Len(job_list) /\ job_list[c + 1] = After(r) /\ c + 1 <= k
    BY <1>0, <1>3, <1>4, <1>5, <1>8, <2>1 DEF LevelsOK, At
  <2>2. c <= k /\ c # k
    BY <1>1, <1>6, <1>8, <1>9
  <2> QED BY <1>5, <1>6, <1>7, <2>2
<1>10. CASE Dropped(r) /\ job_list' = RemoveAt(job_list, c)
  <2>1. /\ Len(job_list') = Len(job_list) - 1
        /\ \A i \in 1..(Len(job_list) - 1) : job_list'[i] = IF i < c THEN job_list[i] ELSE job_list[i + 1]
    BY <1>5, <1>6, <1>10, RemoveType
  <2>2. ASSUME NEW k \in 1..Len(job_list')
        PROVE  /\ heap'[job_list'[k]].level >= 0
               /\ \/ heap'[job_list'[k]].level <= sh_subshell'
                  \/ c \in 1..Len(job_list') /\ job_list'[c] = After(r) /\ c <= k
    <3>1. PICK h \in 1..Len(job_list) : job_list'[k] = job_list[h] /\ h # c /\ h = IF k < c THEN k ELSE k + 1
      BY <1>5, <1>6, <2>1
    <3>2. job_list[h] \in Refs /\ job_list[h] # r
      BY <1>5, <1>6, <3>1 DEF ListDistinct
    <3>3. heap'[job_list[h]] = heap[job_list[h]]
      BY <1>10, <3>2 DEF Dropped
    <3>4. CASE heap[job_list[h]].level <= sh_subshell
      BY <1>0, <1>8, <3>1, <3>3, <3>4
    <3>5. CASE ~(heap[job_list[h]].level <= sh_subshell)
      <4>1. c <= h
        BY <1>8, <3>5
      <4>2. c <= k /\ c \in 1..Len(job_list')
        BY <1>5, <1>6, <2>1, <3>1, <4>1
      <4>3. job_list'[c] = After(r)
        <5>1. c \in 1..(Len(job_list) - 1) /\ c < Len(job_list) /\ ~(c < c)
          BY <1>5, <1>6, <2>1, <4>2
        <5>2. job_list'[c] = job_list[c + 1]
          BY <2>1, <5>1
        <5> QED BY <1>7, <5>1, <5>2
      <4> QED BY <1>8, <3>1, <3>3, <4>2, <4>3
    <3> QED BY <3>4, <3>5
  <2>3. At("discard")' /\ Top'.cur = After(r)
    BY <1>3, <1>4 DEF At
  <2> QED BY <2>2, <2>3 DEF LevelsOK
<1> QED BY <1>0, <1>1, <1>6, <1>9, <1>10

LEMMA DepthNat ==
  ASSUME Safe, NEW d, DepthOK(d)
  PROVE  sh_subshell >= 0
<1>1. Len(stack) \in 0..Len(stack)
  BY DEF Safe, StackOK
<1> QED BY <1>1 DEF DepthOK

LEMMA StepLevels ==
  ASSUME Safe, Safe', Places(stack), LevelsOK, NEW d, DepthOK(d), [Next]_vars
  PROVE  LevelsOK'
<1>1. StepKind /\ TableType /\ sh_subshell \in Int /\ sh_subshell >= 0
  BY StepIs, DepthNat DEF Safe, TableOK, FlagType
<1>2. ASSUME ~At("discard") \/ Top.cur = Nil PROVE Flat
  BY <1>1, <1>2, LevelsFlat
<1>3. CASE Stays \/ SubEnds
  BY <1>3, StaysLevels, SubEndsLevels
<1>4. CASE Walks
  <2>1. CASE Top.pc = "discard"
    BY <1>4, <2>1, DiscardLevels
  <2>2. CASE Top.pc # "discard"
    <3>1. Flat /\ UNCHANGED sh_subshell
      BY <1>2, <1>4, <2>2 DEF At, Walks, Quiet
    <3>2. Flat'
      BY <1>1, <1>4, <3>1, SameFlat, DroppedFlat DEF Walks
    <3> QED BY <3>2, FlatLevels
  <2> QED BY <2>1, <2>2
<1>5. CASE Goes
  <2>1. PICK f : Follows(f)
    BY <1>5 DEF Goes
  <2>2. stack # <<>> /\ SameJobs /\ UNCHANGED sh_subshell /\ Top \in Frames /\ Placed(Top)
    BY <1>5, TopPlaced DEF Goes, Quiet
  <2>3. ~At("discard")
    <3> SUFFICES ASSUME Top.pc = "discard" PROVE FALSE
      BY DEF At
    <3>1. Top.k \in Subs
      BY <2>2 DEF Placed, PcsOf, WaitPcs, Waits, Subs, Frames, Calls
    <3>2. f.k \in Subs /\ f.pc = "body"
      BY <2>1, <3>1 DEF Follows, Placed, PcsOf, Waits, Subs
    <3> QED BY <2>1, <3>1, <3>2 DEF Follows, One
  <2>4. Flat'
    BY <1>1, <1>2, <2>2, <2>3, SameFlat
  <2> QED BY <2>4, FlatLevels
<1>6. CASE Leaves \/ Turns \/ Finishes
  <2>1. stack # <<>> /\ SameJobs /\ UNCHANGED sh_subshell /\ Top \in Frames /\ Placed(Top)
    BY <1>6, TopPlaced DEF Leaves, Turns, Finishes
  <2>2. Top.pc = "discard" => Top.k \in Subs
    BY <2>1 DEF Placed, PcsOf, WaitPcs, Waits, Subs, Frames, Calls
  <2>3. ~At("discard") \/ Top.cur = Nil
    BY <1>6, <2>2 DEF Leaves, Turns, Finishes, At, Subs, Waits
  <2>4. Flat'
    BY <1>1, <1>2, <2>1, <2>3, SameFlat
  <2> QED BY <2>4, FlatLevels
<1>7. CASE Begins
  <2>1. ~At("discard") /\ SameJobs
    BY <1>7 DEF Begins, At
  <2>2. PICK f : sh_subshell' = sh_subshell + One(f)
    BY <1>7 DEF Begins
  <2>3. sh_subshell' >= sh_subshell
    BY <1>1, <2>2 DEF One
  <2>4. Flat'
    BY <1>2, <2>1, <2>3, SameFlat
  <2> QED BY <2>4, FlatLevels
<1>8. CASE Launches \/ Registers
  <2>1. UNCHANGED sh_subshell /\ \E r : Added(r)
    BY <1>8 DEF Launches, Registers, Quiet
  <2>2. ~At("discard")
    <3>1. CASE Launches
      BY <3>1 DEF Launches, At
    <3>2. CASE Registers
      BY <3>2, TopPlaced DEF Registers, At, Placed, PcsOf, WaitPcs, Waits, Subs
    <3> QED BY <1>8, <3>1, <3>2
  <2>3. Flat'
    BY <1>1, <1>2, <2>1, <2>2, AddedFlat
  <2> QED BY <2>3, FlatLevels
<1>9. CASE Frees
  <2>1. UNCHANGED sh_subshell /\ \E r : Dropped(r)
    BY <1>9 DEF Frees, Quiet
  <2>2. ~At("discard")
    BY <1>9 DEF Frees, Owning, Holding, WaitPcs, At
  <2>3. Flat'
    BY <1>2, <2>1, <2>2, DroppedFlat
  <2> QED BY <2>3, FlatLevels
<1> QED BY <1>1, <1>3, <1>4, <1>5, <1>6, <1>7, <1>8, <1>9 DEF StepKind

LEMMA InitOwn == Init => OwnInv
<1> SUFFICES ASSUME Init PROVE OwnInv
  OBVIOUS
<1>1. Len(stack) = 0 /\ Len(job_list) = 0 /\ sh_subshell = 0
  BY DEF Init
<1>2. LevelsOK /\ Ran(stack)
  BY <1>1 DEF LevelsOK, Ran
<1> DEFINE d == [i \in 0..0 |-> 0]
<1>3. DepthOK(d)
  BY <1>1 DEF DepthOK
<1> QED BY <1>2, <1>3 DEF OwnInv

LEMMA StepOwn ==
  ASSUME OwnTame
  PROVE  Safe /\ Places(stack) /\ OwnInv /\ [Next]_vars => (Safe /\ Places(stack) /\ OwnInv)'
<1> SUFFICES ASSUME Safe, Places(stack), OwnInv, [Next]_vars PROVE (Safe /\ Places(stack) /\ OwnInv)'
  OBVIOUS
<1>1. Safe'
  BY StepSafe
<1>2. Places(stack)'
  BY StepPlaces DEF Places, Placed
<1>3. PICK d : DepthOK(d)
  BY DEF OwnInv
<1>4. LevelsOK /\ Ran(stack)
  BY DEF OwnInv
<1>5. \E e : DepthOK(e)'
  BY <1>1, <1>3, <1>4, StepDepth
<1>6. LevelsOK'
  BY <1>1, <1>3, <1>4, StepLevels
<1>7. Ran(stack)'
  BY <1>4, StepRan DEF Ran
<1> QED BY <1>1, <1>2, <1>5, <1>6, <1>7 DEF OwnInv

LEMMA OwnOf == Safe /\ Places(stack) /\ OwnInv => OwnJobsOnly
<1> SUFFICES ASSUME Safe, Places(stack), OwnInv,
                    stack # <<>>, Top.k \in {"waitops", "fg"}, Top.pc \in WaitPcs, Live(Top.j)
             PROVE  heap[Top.j].level = sh_subshell
  BY DEF OwnJobsOnly
<1>1. PICK d : DepthOK(d)
  BY DEF OwnInv
<1>2. TableType /\ LevelsOK /\ sh_subshell \in Int
  BY DEF OwnInv, Safe, TableOK, FlagType
<1>3. Top.j \in Refs
  BY <1>2, LiveRef
<1>4. heap[Top.j].level \in Int
  BY <1>2, <1>3 DEF TableType, Jobs
<1>5. heap[Top.j].level >= sh_subshell
  BY <1>1, <1>3, TopDepth DEF Claims
<1>6. ~At("discard")
  BY DEF At, WaitPcs
<1>7. heap[Top.j].level <= sh_subshell
  BY <1>2, <1>3, <1>6, LevelsFlat DEF Flat
<1> QED BY <1>2, <1>4, <1>5, <1>7

(* A subshell works on its own jobs: the job that "wait op" or fg waits    *)
(* for is of the level the shell is at, however deep subshells, traps and  *)
(* pipelines are nested, through the discard of the jobs a subshell leaves *)
(* behind and whatever address a new job is given.  For every number of    *)
(* processes, jobs, calls and signals; "%%" and, under job control, fg are *)
(* left out where there are subshells: they take the current job of        *)
(* whatever level (ParentJob.cfg).                                         *)
THEOREM SubshellsOwnJobs ==
  ASSUME OwnTame
  PROVE  Spec => []OwnJobsOnly
<1>1. Init => Safe /\ Places(stack) /\ OwnInv
  BY InitSafe, InitPlaces, InitOwn
<1>2. Safe /\ Places(stack) /\ OwnInv /\ [Next]_vars => (Safe /\ Places(stack) /\ OwnInv)'
  BY StepOwn
<1>3. Safe /\ Places(stack) /\ OwnInv => OwnJobsOnly
  BY OwnOf
<1> QED BY <1>1, <1>2, <1>3, PTL DEF Spec
=============================================================================
