----------------------------- MODULE JobControl -----------------------------
(***************************************************************************)
(* The shell's job layer: the list of jobs and the "current job" slot      *)
(* (src/src/job), the SIGCHLD handler that races the shell's own waitpid   *)
(* calls, and the commands that create, wait for, resume and drop jobs.    *)
(*                                                                         *)
(* Two threads of control meet here.  The shell itself is sequential: its  *)
(* C call chain is the variable `stack', and only the top frame moves.     *)
(* The kernel (children that exit, stop and continue, a coalescing SIGCHLD *)
(* flag and the signal mask) and the handler sh_onsig interleave with it   *)
(* at every step.                                                          *)
(***************************************************************************)
EXTENDS Integers, Sequences, FiniteSets

CONSTANTS
  Pids,       \* process ids the kernel may hand out
  Refs,       \* addresses a struct job may be allocated at
  Codes,      \* exit codes a child may end with
  RingSize,   \* entries of job_finished[] (64 in the code)
  MaxProcs,   \* bound: members of a foreground pipeline
  MaxDepth,   \* bound: depth of the C call chain
  MaxSpins,   \* bound: job_wait's 5000 retries
  MaxSigs,    \* bound: trapped signals that arrive
  MaxOperands,\* bound: operands of one "wait"
  Monitor,    \* set -m (job control): own process groups, stops are seen
  ForkFails,  \* may fork() fail?
  PidReuse,   \* may the kernel hand out the pid of a reaped child again?
  OperandKinds, \* forms of job operand the script uses: "%%" "%-" "%n" "pid"
  RootCmds,   \* commands the script runs at top level and in subshells
  BodyCmds    \* commands run inside a trap body or an unforked last stage

RUN  == -1        \* proc.status of a process not known to have ended
STOP == -2        \* proc.status of a stopped process (WIFSTOPPED)
Nil    == "nil"   \* NULL; also "no process" in a proc slot
Head0  == "head"  \* the slot &job_list, as a value of job_pointer
NoSlot == "null"  \* job_pointer == NULL

ASSUME JobConstants ==
  /\ {Nil, Head0, NoSlot} \cap (Pids \cup Refs) = {}
  /\ Codes \subseteq Nat /\ 0 \in Codes
  /\ RingSize \in Nat \ {0} /\ MaxProcs \in Nat /\ MaxDepth \in Nat
  /\ MaxSpins \in Nat /\ MaxSigs \in Nat /\ MaxOperands \in Nat
  /\ {Monitor, ForkFails, PidReuse} \subseteq BOOLEAN

VARIABLES
  kid,            \* the kernel's view of every child
  chld,           \* SIGCHLD is pending (the kernel keeps one, not a count)
  mask,           \* SIGCHLD is blocked
  heap,           \* the struct job at every address; NoJob when free
  job_list,       \* the addresses linked from job_list, in list order
  job_pointer,    \* the slot (predecessor, or Head0) holding the current job
  job_signaled,
  job_bgpid,      \* "$!"
  job_finished,   \* ring of [pid, status]
  job_finished_n, \* next entry of the ring
  sh_subshell,
  trap_signaled,  \* a trapped signal arrived and was not dispatched yet
  trap_run_count,
  job_wait_interruptible,
  job_wait_sig,   \* the last interruptible wait was ended by a trap
  stack,          \* the C call chain, one frame per call in progress
  obs             \* history: what the last "wait pid" reported, and the truth

kernel == <<kid, chld>>
table  == <<heap, job_list, job_pointer, job_finished, job_finished_n>>
flags  == <<job_signaled, job_bgpid, sh_subshell>>
traps  == <<trap_signaled, trap_run_count, job_wait_interruptible, job_wait_sig>>
vars   == <<kernel, mask, table, flags, traps, stack, obs>>

-----------------------------------------------------------------------------
(* Data *)

NoJob == [id |-> 0, n |-> 0, level |-> 0, bgnd |-> FALSE, pipefail |-> FALSE,
          pid |-> <<>>, stat |-> <<>>]

NoKid == [st |-> "none", code |-> 0, note |-> FALSE, bg |-> FALSE]

(* A frame: which call (k), where in it (pc), and its locals.              *)
Call(k, pc) == [k |-> k, pc |-> pc, j |-> Nil, cur |-> Nil, left |-> 0,
                new |-> Nil, st |-> 0, t0 |-> 0, spins |-> 0, todo |-> <<>>,
                flag |-> FALSE]

Top       == stack[Len(stack)]
Running(k, pc) == stack # <<>> /\ Top.k = k /\ Top.pc = pc
At(pc)    == stack # <<>> /\ Top.pc = pc
Pop(s)    == SubSeq(s, 1, Len(s) - 1)
Goto(f)   == [stack EXCEPT ![Len(stack)] = f]

Least(S)    == CHOOSE k \in S : \A h \in S : k <= h
Greatest(S) == CHOOSE k \in S : \A h \in S : h <= k

First == IF job_list = <<>> THEN Nil ELSE job_list[1]
Pos(l, r) == CHOOSE k \in 1..Len(l) : l[k] = r
Live(r)   == \E k \in 1..Len(job_list) : job_list[k] = r
After(r)  == LET k == Pos(job_list, r) IN IF k < Len(job_list) THEN job_list[k + 1] ELSE Nil

(* The slot a list position is linked from, and the job a slot holds.      *)
Slot(l, k) == IF k = 1 THEN Head0 ELSE l[k - 1]
job_current ==
  IF job_pointer = NoSlot THEN Nil
  ELSE IF job_pointer = Head0 THEN First
  ELSE IF Live(job_pointer) THEN After(job_pointer) ELSE Nil

job_running(j) == \E i \in 1..j.n : j.stat[i] = RUN
job_stopped(j) == \E i \in 1..j.n : j.stat[i] = STOP
(* Mutated: a stopped job counts as done.                                  *)
job_done_or_stopped(j) == ~job_running(j)
job_done(j)    == ~job_running(j) /\ ~job_stopped(j)

(* WAIT_STATUS: what "$?" becomes for a recorded status.  A stop reports   *)
(* its signal number and the -1 of a process that has not ended reports    *)
(* 255.                                                                    *)
StopStatus == 20
Hangup == 129  \* the status 1 a foreground program starts from, read as a signal death
WaitStatus(s) == IF s = RUN THEN 255 ELSE IF s = STOP THEN StopStatus ELSE s

-----------------------------------------------------------------------------
(* The job list: job_new, job_delete, job_free, job_signal, job_find *)

InsertAt(l, k, r) == [i \in 1..(Len(l) + 1) |->
                        IF i < k THEN l[i] ELSE IF i = k THEN r ELSE l[i - 1]]
RemoveAt(l, k)    == [i \in 1..(Len(l) - 1) |-> IF i < k THEN l[i] ELSE l[i + 1]]

(* Mutated: the next number instead of the lowest free one.                *)
NewIdNext == Len(job_list) + 1

(* job_new walks while the ids are 1, 2, 3, ...: the position it stops at  *)
(* is also the id it assigns.                                              *)
NewId == Least({k \in 1..Len(job_list) : heap[job_list[k]].id # k} \cup {Len(job_list) + 1})

job_new(r, n, bgnd, pipefail, pid) ==
  /\ r \in Refs /\ ~Live(r)
  /\ heap' = [heap EXCEPT ![r] =
                [id |-> NewId, n |-> n, level |-> sh_subshell, bgnd |-> bgnd,
                 pipefail |-> pipefail, pid |-> [i \in 1..n |-> pid],
                 stat |-> [i \in 1..n |-> RUN]]]
  /\ job_list' = InsertAt(job_list, NewId, r)
  /\ job_pointer' = Slot(job_list, NewId)
  /\ UNCHANGED <<job_finished, job_finished_n>>

(* Only a job started with "&" leaves its statuses in the ring.            *)
RingWith(j) ==
  [e \in 0..(RingSize - 1) |->
     LET hits == {i \in 1..j.n : (job_finished_n + i - 1) % RingSize = e}
     IN  IF ~j.bgnd \/ hits = {} THEN job_finished[e]
         ELSE [pid |-> j.pid[Greatest(hits)], status |-> j.stat[Greatest(hits)]]]

(* Mutated: the index is used as it is.                                    *)
RingNextUnwrapped(j) == IF j.bgnd THEN job_finished_n + j.n ELSE job_finished_n
RingNext(j) == IF j.bgnd THEN (job_finished_n + j.n) % RingSize ELSE job_finished_n

(* Mutated: a slot inside the job that is freed is forgotten.              *)
PointerKeptInside(k) ==
  LET l2 == RemoveAt(job_list, k)
  IN  IF job_pointer = Slot(job_list, k)
      THEN IF l2 = <<>> THEN NoSlot ELSE Slot(l2, Len(l2))
      ELSE job_pointer

(* The slot that is current once position k of the list is gone.           *)
PointerAfterDelete(k) ==
  LET l2 == RemoveAt(job_list, k)
  IN  IF job_pointer = Slot(job_list, k)
      THEN IF l2 = <<>> THEN NoSlot ELSE Slot(l2, Len(l2))
      ELSE IF job_pointer = job_list[k] THEN Slot(job_list, k)
      ELSE job_pointer

job_delete(r) ==
  LET k == Pos(job_list, r)
  IN  /\ job_finished' = RingWith(heap[r])
      /\ job_finished_n' = RingNext(heap[r])
      /\ job_pointer' = PointerAfterDelete(k)
      /\ job_list' = RemoveAt(job_list, k)
      /\ heap' = [heap EXCEPT ![r] = NoJob]

job_free(r) == IF Live(r) THEN job_delete(r) ELSE UNCHANGED table

(* job_recall: the first entry of the array, in array order.               *)
Recalls(p) == {e \in 0..(RingSize - 1) : job_finished[e].pid = p}
job_recall(p) == job_finished[Least(Recalls(p))].status

(* The first job in list order with a member p, and that member's index.   *)
Owners(p) == {k \in 1..Len(job_list) : \E i \in 1..heap[job_list[k]].n : heap[job_list[k]].pid[i] = p}
job_bypid(p) == IF Owners(p) = {} THEN Nil ELSE job_list[Least(Owners(p))]
Member(r, p) == Least({i \in 1..heap[r].n : heap[r].pid[i] = p})

job_signal(p, s) ==
  IF job_bypid(p) = Nil
  THEN UNCHANGED <<table, job_signaled>>
  ELSE /\ heap' = [heap EXCEPT ![job_bypid(p)].stat[Member(job_bypid(p), p)] = s]
       /\ job_signaled' = TRUE
       /\ UNCHANGED <<job_list, job_pointer, job_finished, job_finished_n>>

(* Mutated: jobs of every level are looked at.                             *)
HereOrAbove(r) == heap[r].level <= sh_subshell

(* job_find: "%%" takes the current job as it is; every other form looks   *)
(* only at jobs of this subshell level.                                    *)
Here(r) == heap[r].level = sh_subshell
FirstHere(S) == IF S = {} THEN Nil ELSE job_list[Least(S)]
LastHere(S)  == IF S = {} THEN Nil ELSE job_list[Greatest(S)]
Where(P(_)) == {k \in 1..Len(job_list) : P(job_list[k])}
job_find(spec) ==
  CASE spec.by = "%%" -> job_current
    [] spec.by = "%-" -> LastHere(Where(LAMBDA r : Here(r) /\ r # job_current))
    [] spec.by = "%n" -> FirstHere(Where(LAMBDA r : Here(r) /\ heap[r].id = spec.arg))
    [] spec.by = "pid" -> FirstHere(Where(LAMBDA r : Here(r) /\ \E i \in 1..heap[r].n : heap[r].pid[i] = spec.arg))
job_first == FirstHere(Where(Here))

(* fg and bg without an operand: the current job, unless it is not stopped *)
(* and another job of this level is.                                       *)
jobs_resolve ==
  LET stopped == Where(LAMBDA r : Here(r) /\ job_stopped(heap[r]))
  IN  IF job_current # Nil /\ job_stopped(heap[job_current]) THEN job_current
      ELSE IF stopped # {} THEN LastHere(stopped) ELSE job_current

-----------------------------------------------------------------------------
(* The kernel and the SIGCHLD handler *)

Exists(p)   == kid[p].st \in {"run", "stop", "zombie"}
Reapable(p) == kid[p].st = "zombie" \/ (Monitor /\ kid[p].st = "stop" /\ kid[p].note)
StatusOf(p) == IF kid[p].st = "zombie" THEN kid[p].code ELSE STOP
Reaped(p)   == [kid EXCEPT ![p] = IF @.st = "zombie" THEN [@ EXCEPT !.st = "reaped"]
                                                     ELSE [@ EXCEPT !.note = FALSE]]
Continued(S) == [p \in Pids |-> IF p \in S /\ kid[p].st = "stop"
                                THEN [kid[p] EXCEPT !.st = "run", !.note = FALSE] ELSE kid[p]]

Forkable(p) == kid[p].st = "none" \/ (PidReuse /\ kid[p].st = "reaped")
Forked(p)   == [kid EXCEPT ![p] = [NoKid EXCEPT !.st = "run"]]

(* A job's process group is its members, once job control gave it one;     *)
(* without, waitpid(-1) asks for any child.                                *)
Grouped(j) == Monitor /\ \E i \in 1..j.n : j.pid[i] # Nil
Group(j) == IF Grouped(j) THEN {j.pid[i] : i \in 1..j.n} \ {Nil} ELSE Pids

ChildExit(p, c) ==
  /\ kid[p].st \in {"run", "stop"}
  /\ kid' = [kid EXCEPT ![p] = [@ EXCEPT !.st = "zombie", !.code = c, !.note = FALSE]]
  /\ chld' = TRUE
  /\ UNCHANGED <<mask, table, flags, traps, stack, obs>>

ChildStop(p) ==
  /\ Monitor /\ kid[p].st = "run"
  /\ kid' = [kid EXCEPT ![p] = [@ EXCEPT !.st = "stop", !.note = TRUE]]
  /\ chld' = TRUE
  /\ UNCHANGED <<mask, table, flags, traps, stack, obs>>

ChildCont(p) ==
  /\ kid[p].st = "stop"
  /\ kid' = Continued({p})
  /\ UNCHANGED <<chld, mask, table, flags, traps, stack, obs>>

(* Is the shell inside waitpid() with something waitpid() will return?     *)
(* Then the system call wins over the handler.                             *)
KernelBusy == At("blocked") /\ \E p \in Group(heap[Top.j]) : Reapable(p)

(* A signal handler that interrupts a blocked waitpid() ends it only when  *)
(* a trapped signal is waiting; otherwise waitpid_nointr() calls again.    *)
WakeIf(c) == IF At("blocked") /\ c THEN Goto([Top EXCEPT !.pc = "err"]) ELSE stack

(* One waitpid(WNOHANG) per delivered signal, however many children ended. *)
sh_onsig ==
  /\ chld /\ ~mask /\ ~KernelBusy
  /\ chld' = FALSE
  /\ \/ \E p \in Pids : Reapable(p) /\ kid' = Reaped(p) /\ job_signal(p, StatusOf(p))
     \/ (\A p \in Pids : ~Reapable(p)) /\ UNCHANGED <<kid, table, job_signaled>>
  /\ stack' = WakeIf(trap_signaled)
  /\ UNCHANGED <<mask, job_bgpid, sh_subshell, traps, obs>>

(* A trapped signal arrives: trap_relay only raises flags.                 *)
trap_relay ==
  /\ ~trap_signaled /\ trap_run_count < MaxSigs
  /\ trap_signaled' = TRUE
  /\ stack' = WakeIf(TRUE)
  /\ UNCHANGED <<kernel, mask, table, flags, trap_run_count, job_wait_interruptible, job_wait_sig, obs>>

-----------------------------------------------------------------------------
(* Starting processes *)

(* The script runs command c next.  eval_tree, eval_cmdlist and sh_loop    *)
(* dispatch pending traps before every command; the unforked last stage of *)
(* a pipeline just starts, and sh_loop's job_update comes before.          *)
Cmd(c) == /\ Len(stack) < MaxDepth
          /\ ~trap_signaled \/ c = "update" \/ Running("pipe", "body")
          /\ IF stack = <<>> \/ (At("body") /\ Top.k \in {"sub", "cmdsub"})
             THEN c \in RootCmds ELSE At("body") /\ c \in BodyCmds
Push(f) == stack' = Append(stack, f)
InCmdsub == \E i \in 1..Len(stack) : stack[i].k = "cmdsub"

(* job_wait(j): its locals on entry.                                       *)
JobWait(f, r, st) == [f EXCEPT !.pc = "top", !.j = r, !.st = st,
                               !.t0 = trap_run_count, !.spins = MaxSpins]

(* "{ ...; } &": the job is registered first, then job_fork()ed.           *)
eval_node_bgnd ==
  /\ Cmd("bg")
  /\ \E r \in Refs : /\ job_new(r, 1, TRUE, FALSE, Nil)
                     /\ Push([Call("bg", "fork") EXCEPT !.j = r, !.left = 1])
  /\ UNCHANGED <<kernel, mask, flags, traps, obs>>

(* A foreground pipeline: n forked members; with `last' the final stage    *)
(* then runs in this shell (lastpipe: only without job control).           *)
eval_pipeline(n, last, pipefail) ==
  /\ Cmd("pipe")
  /\ last => ~Monitor
  /\ ~last => n > 0
  /\ \E r \in Refs : /\ job_new(r, n, FALSE, pipefail, Nil)
                     /\ Push([Call("pipe", IF n > 0 THEN "fork" ELSE "body")
                                EXCEPT !.j = r, !.left = n, !.flag = last])
  /\ UNCHANGED <<kernel, mask, flags, traps, obs>>

(* Where a launcher goes once its last member is recorded.                 *)
AfterFork(f) ==
  IF Monitor /\ InCmdsub THEN Goto([f EXCEPT !.pc = "drain"])
  ELSE IF f.k = "bg" THEN Pop(stack)
  ELSE IF f.flag THEN Goto([f EXCEPT !.pc = "body"])
  ELSE Goto(JobWait(f, f.j, RUN))

(* Mutated: SIGCHLD stays unblocked around fork().                         *)
job_fork_unmasked ==
  /\ At("fork")
  /\ \E p \in Pids : Forkable(p) /\ kid' = Forked(p) /\ stack' = Goto([Top EXCEPT !.pc = "forked", !.new = p])
  /\ UNCHANGED <<chld, mask, table, flags, traps, obs>>

job_fork ==
  /\ At("fork")
  /\ mask' = TRUE
  /\ \E p \in Pids : Forkable(p) /\ kid' = Forked(p) /\ stack' = Goto([Top EXCEPT !.pc = "forked", !.new = p])
  /\ UNCHANGED <<chld, table, flags, traps, obs>>

job_fork_parent ==
  /\ At("forked") /\ Top.k \in {"bg", "pipe"}
  /\ LET f == [Top EXCEPT !.new = Nil, !.left = @ - 1]
         i == Least({i \in 1..heap[f.j].n : heap[f.j].pid[i] = Nil})
     IN  /\ heap' = [heap EXCEPT ![f.j].pid[i] = Top.new, ![f.j].stat[i] = RUN]
         /\ stack' = IF f.left > 0 THEN Goto([f EXCEPT !.pc = "fork"]) ELSE AfterFork(f)
  /\ mask' = FALSE
  /\ IF Top.k = "bg" THEN job_bgpid' = Top.new /\ kid' = [kid EXCEPT ![Top.new].bg = TRUE]
                     ELSE UNCHANGED <<job_bgpid, kid>>
  /\ UNCHANGED <<chld, job_list, job_pointer, job_finished, job_finished_n, job_signaled, sh_subshell, traps, obs>>

(* fork() fails: a background job is dropped again; a pipeline goes on     *)
(* with its next member and leaves a proc slot that no process fills.      *)
(* (It always fails when the kernel has no process id left.)               *)
job_fork_fails ==
  /\ At("fork")
  /\ ForkFails \/ \A p \in Pids : ~Forkable(p)
  /\ IF Top.k = "bg"
     THEN job_free(Top.j) /\ stack' = Pop(stack)
     ELSE /\ LET f == [Top EXCEPT !.left = @ - 1]
             IN  stack' = IF f.left > 0 THEN Goto(f) ELSE AfterFork(f)
          /\ UNCHANGED table
  /\ mask' = FALSE
  /\ UNCHANGED <<kernel, flags, traps, obs>>

(* An external command: fork first, with SIGCHLD blocked, then register.   *)
exec_program(bgnd) ==
  /\ Cmd(IF bgnd THEN "progbg" ELSE "prog")
  /\ \E r \in Refs : ~Live(r)  \* bound: memory for the job it will register
  /\ mask' = TRUE
  /\ \E p \in Pids : /\ Forkable(p) /\ kid' = Forked(p)
                     /\ Push([Call("prog", "forked") EXCEPT !.new = p, !.flag = bgnd])
  /\ UNCHANGED <<chld, table, flags, traps, obs>>

(* No process: the command fails, and SIGCHLD is unblocked whatever it was *)
(* before.                                                                 *)
exec_program_fails(bgnd) ==
  /\ Cmd(IF bgnd THEN "progbg" ELSE "prog")
  /\ ForkFails \/ \A p \in Pids : ~Forkable(p)
  /\ mask' = FALSE
  /\ UNCHANGED <<kernel, table, flags, traps, stack, obs>>

exec_program_parent ==
  /\ Running("prog", "forked")
  /\ \E r \in Refs :
       /\ job_new(r, 1, Top.flag, FALSE, Top.new)
       /\ IF Top.flag
          THEN /\ mask' = FALSE /\ job_bgpid' = Top.new /\ stack' = Pop(stack)
               /\ kid' = [kid EXCEPT ![Top.new].bg = TRUE]
          ELSE /\ stack' = Goto(JobWait([Top EXCEPT !.new = Nil], r, Hangup))
               /\ UNCHANGED <<mask, job_bgpid, kid>>
  /\ UNCHANGED <<chld, job_signaled, sh_subshell, traps, obs>>

(* fdstack_data(), reading a substitution's pipe under job control, looks  *)
(* after stopped children whenever the pipe is idle (job_resume_stopped).  *)
Draining == At("drain") \/ (Running("prog", "forked") /\ Monitor /\ InCmdsub)
(* Mutated: a child that turns out to have ended is reaped and forgotten.  *)
job_resume_forgets ==
  /\ Draining
  /\ \E p \in Pids : /\ Reapable(p)
                     /\ kid' = IF kid[p].st = "zombie" THEN Reaped(p) ELSE Continued({p})
  /\ UNCHANGED <<chld, mask, table, flags, traps, stack, obs>>

job_resume_stopped ==
  /\ Draining
  /\ \E p \in Pids : /\ Reapable(p) /\ job_signal(p, StatusOf(p))
                     /\ kid' = IF kid[p].st = "zombie" THEN Reaped(p) ELSE Continued({p})
  /\ UNCHANGED <<chld, mask, job_bgpid, sh_subshell, traps, stack, obs>>

fdstack_data_eof ==
  /\ At("drain")
  /\ stack' = IF Top.k = "bg" THEN Pop(stack) ELSE Goto(JobWait(Top, Top.j, RUN))
  /\ UNCHANGED <<kernel, mask, table, flags, traps, obs>>

-----------------------------------------------------------------------------
(* job_wait *)

WaitPcs == {"top", "chk", "scan", "call", "blocked", "err", "rechk", "spin", "fin"}
Waiting(pc) == At(pc) /\ Live(Top.j)
Step(f) == stack' = Goto(f)

(* trap_run_pending(): with a signal pending the trap body runs, as calls  *)
(* stacked on top of this one; then the interruptible wait is checked.     *)
RunTrap(s) == /\ trap_signaled' = FALSE /\ trap_run_count' = trap_run_count + 1
              /\ stack' = Append(s, Call("trap", "body"))
              /\ UNCHANGED <<job_wait_interruptible, job_wait_sig>>

job_wait_traps ==
  /\ Waiting("top") \/ Waiting("err")
  /\ LET f == [Top EXCEPT !.pc = IF @ = "top" THEN "chk" ELSE "rechk"]
     IN  IF trap_signaled THEN RunTrap(Goto(f)) ELSE Step(f) /\ UNCHANGED traps
  /\ UNCHANGED <<kernel, mask, table, flags, obs>>

(* Mutated: only the check before the scan is made.                        *)
job_wait_check_once ==
  /\ Waiting("chk") \/ Waiting("rechk")
  /\ IF job_wait_interruptible /\ trap_run_count # Top.t0 /\ At("chk")
     THEN Step([Top EXCEPT !.pc = "ret"]) /\ job_wait_sig' = TRUE
     ELSE /\ Step([Top EXCEPT !.pc = IF @ = "chk" THEN "scan" ELSE "spin"])
          /\ UNCHANGED job_wait_sig
  /\ UNCHANGED <<kernel, mask, table, flags, trap_signaled, trap_run_count, job_wait_interruptible, obs>>

job_wait_check ==
  /\ Waiting("chk") \/ Waiting("rechk")
  /\ IF job_wait_interruptible /\ trap_run_count # Top.t0
     THEN Step([Top EXCEPT !.pc = "ret"]) /\ job_wait_sig' = TRUE
     ELSE /\ Step([Top EXCEPT !.pc = IF @ = "chk" THEN "scan" ELSE "spin"])
          /\ UNCHANGED job_wait_sig
  /\ UNCHANGED <<kernel, mask, table, flags, trap_signaled, trap_run_count, job_wait_interruptible, obs>>


(* The status of the last member that has one.                             *)
Scanned(j, st) == LET known == {i \in 1..j.n : j.stat[i] # RUN}
                  IN  IF known = {} THEN st ELSE j.stat[Greatest(known)]

(* Inside a command substitution a stopped member is continued instead.    *)
job_wait_scan ==
  /\ Waiting("scan")
  /\ LET j == heap[Top.j]
         f == [Top EXCEPT !.st = Scanned(j, Top.st)]
         ended == {i \in 1..j.n : j.stat[i] = STOP}
     IN  IF ended # {} /\ InCmdsub
         THEN /\ kid' = Continued(IF Grouped(j) THEN Group(j) ELSE {j.pid[i] : i \in ended})
              /\ heap' = [heap EXCEPT ![Top.j].stat = [i \in 1..j.n |-> IF i \in ended THEN RUN ELSE @[i]]]
              /\ Step([f EXCEPT !.pc = "top"])
         ELSE /\ Step([f EXCEPT !.pc = IF ended # {} \/ ~job_running(j) THEN "fin" ELSE "call"])
              /\ UNCHANGED <<kid, heap>>
  /\ UNCHANGED <<chld, mask, job_list, job_pointer, job_finished, job_finished_n, flags, traps, obs>>

(* waitpid(), blocking: a child, no child at all, or sleep.                *)
waitpid_reap ==
  /\ Waiting("call") \/ Waiting("blocked")
  /\ \E p \in Group(heap[Top.j]) :
       /\ Reapable(p)
       /\ kid' = Reaped(p)
       /\ job_signal(p, StatusOf(p))
       /\ Step([Top EXCEPT !.pc = "top", !.st = StatusOf(p)])
  /\ UNCHANGED <<chld, mask, job_bgpid, sh_subshell, traps, obs>>

waitpid_none ==
  /\ Waiting("call") \/ Waiting("blocked")
  /\ \A p \in Group(heap[Top.j]) : ~Exists(p)
  /\ Step([Top EXCEPT !.pc = "err"])
  /\ UNCHANGED <<kernel, mask, table, flags, traps, obs>>

waitpid_block ==
  /\ Waiting("call")
  /\ \E p \in Group(heap[Top.j]) : Exists(p)
  /\ \A p \in Group(heap[Top.j]) : ~Reapable(p)
  /\ Step([Top EXCEPT !.pc = "blocked"])
  /\ UNCHANGED <<kernel, mask, table, flags, traps, obs>>

(* Mutated: retries are not counted.                                       *)
job_wait_spin_forever ==
  /\ Waiting("spin")
  /\ Step([Top EXCEPT !.pc = "top"])
  /\ UNCHANGED <<kernel, mask, table, flags, traps, obs>>

job_wait_spin ==
  /\ Waiting("spin")
  /\ Step([Top EXCEPT !.spins = @ - 1, !.pc = IF Top.spins <= 1 THEN "fin" ELSE "top"])
  /\ UNCHANGED <<kernel, mask, table, flags, traps, obs>>

(* pipefail: the rightmost member that failed.                             *)
PipefailStatus(j, st) ==
  LET bad == {i \in 1..j.n : j.stat[i] # RUN /\ WaitStatus(j.stat[i]) # 0}
  IN  IF ~j.pipefail \/ job_stopped(j) \/ bad = {} THEN st
      ELSE j.stat[Greatest(bad)]

(* Mutated: the first finished job is freed, whoever waits for it.         *)
job_wait_finish_any ==
  /\ Waiting("fin")
  /\ Step([Top EXCEPT !.pc = "ret", !.st = PipefailStatus(heap[Top.j], Top.st)])
  /\ LET ended == Where(LAMBDA r : job_done(heap[r]))
     IN  IF ended # {} THEN job_free(FirstHere(ended)) ELSE UNCHANGED table
  /\ UNCHANGED <<kernel, mask, flags, traps, obs>>

job_wait_finish ==
  /\ Waiting("fin")
  /\ Step([Top EXCEPT !.pc = "ret", !.st = PipefailStatus(heap[Top.j], Top.st)])
  /\ IF job_done(heap[Top.j]) THEN job_free(Top.j) ELSE UNCHANGED table
  /\ UNCHANGED <<kernel, mask, flags, traps, obs>>

(* job_wait() goes on with a job that was freed under it: undefined; it    *)
(* may see any status and returns.                                         *)
job_wait_dangling ==
  /\ stack # <<>> /\ Top.pc \in WaitPcs /\ ~Live(Top.j)
  /\ \E st \in Codes \cup {RUN} : Step([Top EXCEPT !.pc = "ret", !.st = st])
  /\ UNCHANGED <<kernel, mask, table, flags, traps, obs>>

-----------------------------------------------------------------------------
(* What job_wait() returns to *)

Return == stack' = Pop(stack)

(* eval_pipeline frees its job whatever job_wait() found.                  *)
eval_pipeline_return ==
  /\ Running("pipe", "ret")
  /\ job_free(Top.j)
  /\ Return
  /\ UNCHANGED <<kernel, mask, flags, traps, obs>>

exec_program_return ==
  /\ Running("prog", "ret")
  /\ mask' = FALSE
  /\ Return
  /\ UNCHANGED <<kernel, table, flags, traps, obs>>

fg_return ==
  /\ Running("fg", "ret")
  /\ Return
  /\ UNCHANGED <<kernel, mask, table, flags, traps, obs>>

(* "wait" without operands: job after job until job_first() finds none.    *)
wait_all == /\ Cmd("wait")
            /\ Push(Call("wait", "next"))
            /\ UNCHANGED <<kernel, mask, table, flags, traps, obs>>

(* "wait op ...": every operand is looked up before the first wait.  The   *)
(* numbers a "%n" names are those of the jobs; 0 stands for any other.     *)
Specs == [by : OperandKinds \cap {"%%", "%-"}, arg : {0}]
           \cup [by : OperandKinds \cap {"%n"}, arg : {heap[r].id : r \in Refs}]
           \cup [by : OperandKinds \cap {"pid"}, arg : {p \in Pids : kid[p].bg}]
SpecSeqs == UNION {[1..m -> Specs] : m \in 1..MaxOperands}

wait_operands(specs) ==
  /\ Cmd("waitops")
  /\ Push([Call("waitops", "next") EXCEPT
             !.todo = [i \in 1..Len(specs) |-> [spec |-> specs[i], j |-> job_find(specs[i])]]])
  /\ UNCHANGED <<kernel, mask, table, flags, traps, obs>>

(* What one operand came to, for the operands that are pids: the status    *)
(* reported, and the code the process really ended with.                   *)
Observe(spec, status) ==
  obs' = IF spec.by = "pid"
         THEN <<status, IF kid[spec.arg].st = "reaped" THEN kid[spec.arg].code ELSE RUN>>
         ELSE obs

wait_next ==
  /\ Running("wait", "next") \/ Running("waitops", "next")
  /\ LET finished == IF Top.k = "wait" THEN job_first = Nil ELSE Top.todo = <<>>
         target   == IF Top.k = "wait" THEN job_first ELSE Head(Top.todo).j
     IN  \/ finished /\ Return /\ UNCHANGED <<job_wait_interruptible, job_wait_sig, obs>>
         \/ /\ ~finished /\ target # Nil
            /\ job_wait_interruptible' = TRUE /\ job_wait_sig' = FALSE
            /\ Step(JobWait(Top, target, 0))
            /\ UNCHANGED obs
         \/ /\ ~finished /\ target = Nil
            /\ LET spec == Head(Top.todo).spec
               IN  Observe(spec, IF spec.by = "pid" /\ Recalls(spec.arg) # {}
                                 THEN WaitStatus(job_recall(spec.arg)) ELSE 127)
            /\ Step([Top EXCEPT !.todo = Tail(@)])
            /\ UNCHANGED <<job_wait_interruptible, job_wait_sig>>
  /\ UNCHANGED <<kernel, mask, table, flags, trap_signaled, trap_run_count>>

wait_return ==
  /\ Running("wait", "ret") \/ Running("waitops", "ret")
  /\ job_wait_interruptible' = FALSE
  /\ IF job_wait_sig
     THEN Return /\ UNCHANGED obs
     ELSE /\ Step([Top EXCEPT !.pc = "next", !.j = Nil, !.st = 0,
                              !.todo = IF Top.k = "wait" THEN @ ELSE Tail(@)])
          /\ IF Top.k = "wait" THEN UNCHANGED obs ELSE Observe(Head(Top.todo).spec, WaitStatus(Top.st))
  /\ UNCHANGED <<kernel, mask, table, flags, trap_signaled, trap_run_count, job_wait_sig>>

-----------------------------------------------------------------------------
(* jobs, job_update, fg, bg, subshells, traps between commands *)

(* job_clean visits the jobs one by one; only job_update blocks SIGCHLD    *)
(* meanwhile.                                                              *)
builtin_jobs ==
  /\ Cmd("jobs")
  /\ Push([Call("jobs", "clean") EXCEPT !.cur = First])
  /\ UNCHANGED <<kernel, mask, table, flags, traps, obs>>

job_update ==
  /\ Cmd("update") /\ job_signaled
  /\ mask' = TRUE
  /\ Push([Call("update", "clean") EXCEPT !.cur = First])
  /\ UNCHANGED <<kernel, table, flags, traps, obs>>

job_clean ==
  /\ At("clean") /\ Top.cur # Nil
  /\ IF job_done(heap[Top.cur]) THEN job_free(Top.cur) ELSE UNCHANGED table
  /\ Step([Top EXCEPT !.cur = After(Top.cur)])
  /\ UNCHANGED <<kernel, mask, flags, traps, obs>>

job_clean_end ==
  /\ At("clean") /\ Top.cur = Nil
  /\ Return
  /\ IF Top.k = "update" THEN mask' = FALSE /\ job_signaled' = FALSE ELSE UNCHANGED <<mask, job_signaled>>
  /\ UNCHANGED <<kernel, table, job_bgpid, sh_subshell, traps, obs>>

(* Mutated: members that had ended are set to running as well.             *)
ResumeAllAs(r, b) ==
  /\ job_pointer' = Slot(job_list, Pos(job_list, r))
  /\ kid' = IF Grouped(heap[r]) THEN Continued(Group(heap[r])) ELSE kid
  /\ heap' = [heap EXCEPT ![r].bgnd = b, ![r].stat = [i \in DOMAIN @ |-> RUN]]
  /\ UNCHANGED <<job_list, job_finished, job_finished_n>>

(* job_setcurrent and job_resume of job r, which then has bgnd = b.        *)
ResumeAs(r, b) ==
  /\ job_pointer' = Slot(job_list, Pos(job_list, r))
  /\ kid' = IF Grouped(heap[r]) THEN Continued(Group(heap[r])) ELSE kid
  /\ heap' = [heap EXCEPT ![r].bgnd = b,
                          ![r].stat = [i \in DOMAIN @ |-> IF @[i] = STOP THEN RUN ELSE @[i]]]
  /\ UNCHANGED <<job_list, job_finished, job_finished_n>>

Resolved == {jobs_resolve} \cup {job_find(sp) : sp \in Specs}

builtin_fg ==
  /\ Monitor /\ Cmd("fg")
  /\ \E r \in Resolved \ {Nil} : /\ ResumeAs(r, FALSE)
                                 /\ Push(JobWait(Call("fg", "top"), r, 0))
  /\ UNCHANGED <<chld, mask, flags, traps, obs>>

builtin_bg ==
  /\ Monitor /\ Cmd("bgcmd")
  /\ \E r \in Resolved \ {Nil} : job_stopped(heap[r]) /\ ResumeAs(r, TRUE)
  /\ UNCHANGED <<chld, mask, flags, traps, stack, obs>>

(* "( )" and "$( )" run in this process, one subshell level deeper.        *)
eval_subshell(k) ==
  /\ k \in {"sub", "cmdsub"} /\ Cmd(k)
  /\ sh_subshell' = sh_subshell + 1
  /\ Push([Call(k, "body") EXCEPT !.new = job_bgpid])
  /\ UNCHANGED <<kernel, mask, table, job_signaled, job_bgpid, traps, obs>>

body_end ==
  /\ At("body")
  /\ CASE Top.k = "trap" -> Return /\ UNCHANGED sh_subshell
       [] Top.k = "pipe" -> Step(JobWait(Top, Top.j, RUN)) /\ UNCHANGED sh_subshell
       [] OTHER -> /\ Step([Top EXCEPT !.pc = "discard", !.cur = First])
                   /\ sh_subshell' = sh_subshell - 1
  /\ UNCHANGED <<kernel, mask, table, job_signaled, job_bgpid, traps, obs>>

(* Mutated: the walk goes on from the job it has just freed.               *)
job_discard_stays ==
  /\ At("discard") /\ Top.cur # Nil
  /\ IF heap[Top.cur].level > sh_subshell
     THEN job_free(Top.cur) /\ UNCHANGED stack
     ELSE UNCHANGED table /\ Step([Top EXCEPT !.cur = After(Top.cur)])
  /\ UNCHANGED <<kernel, mask, flags, traps, obs>>

(* job_discard: the jobs of deeper levels go, one by one; then "( )", and  *)
(* not "$( )", puts "$!" back.                                             *)
job_discard ==
  /\ At("discard") /\ Top.cur # Nil
  /\ IF heap[Top.cur].level > sh_subshell THEN job_free(Top.cur) ELSE UNCHANGED table
  /\ Step([Top EXCEPT !.cur = After(Top.cur)])
  /\ UNCHANGED <<kernel, mask, flags, traps, obs>>

job_discard_end ==
  /\ At("discard") /\ Top.cur = Nil
  /\ job_bgpid' = IF Top.k = "sub" THEN Top.new ELSE job_bgpid
  /\ Return
  /\ UNCHANGED <<kernel, mask, table, job_signaled, sh_subshell, traps, obs>>

(* trap_run_pending() before a command of a list.                          *)
trap_run_pending ==
  /\ stack = <<>> \/ At("body")
  /\ trap_signaled
  /\ RunTrap(stack)
  /\ UNCHANGED <<kernel, mask, table, flags, obs>>

-----------------------------------------------------------------------------
(* Specification *)

Init ==
  /\ kid = [p \in Pids |-> NoKid] /\ chld = FALSE /\ mask = FALSE
  /\ heap = [r \in Refs |-> NoJob] /\ job_list = <<>> /\ job_pointer = NoSlot
  /\ job_finished = [e \in 0..(RingSize - 1) |-> [pid |-> Nil, status |-> 0]]
  /\ job_finished_n = 0
  /\ job_signaled = FALSE /\ job_bgpid = Nil /\ sh_subshell = 0
  /\ trap_signaled = FALSE /\ trap_run_count = 0
  /\ job_wait_interruptible = FALSE /\ job_wait_sig = FALSE
  /\ stack = <<>> /\ obs = <<>>

(* What the script decides to run.                                         *)
Script ==
  \/ eval_node_bgnd
  \/ \E n \in 0..MaxProcs, last, pipefail \in BOOLEAN : eval_pipeline(n, last, pipefail)
  \/ \E bgnd \in BOOLEAN : exec_program(bgnd) \/ exec_program_fails(bgnd)
  \/ wait_all \/ \E specs \in SpecSeqs : wait_operands(specs)
  \/ builtin_jobs \/ job_update \/ builtin_fg \/ builtin_bg
  \/ \E k \in {"sub", "cmdsub"} : eval_subshell(k)

(* The steps of a command that is running: the shell is never idle there.  *)
Shell ==
  \/ job_fork \/ job_fork_parent \/ job_fork_fails \/ exec_program_parent
  \/ job_resume_stopped \/ fdstack_data_eof
  \/ job_wait_traps \/ job_wait_check \/ job_wait_scan
  \/ waitpid_reap \/ waitpid_none \/ waitpid_block
  \/ job_wait_spin \/ job_wait_finish \/ job_wait_dangling
  \/ eval_pipeline_return \/ exec_program_return \/ fg_return
  \/ wait_next \/ wait_return
  \/ job_clean \/ job_clean_end
  \/ body_end \/ job_discard \/ job_discard_end \/ trap_run_pending

Kernel ==
  \/ \E p \in Pids : (\E c \in Codes : ChildExit(p, c)) \/ ChildStop(p) \/ ChildCont(p)
  \/ sh_onsig
  \/ trap_relay

Next == Script \/ Shell \/ Kernel

Spec == Init /\ [][Next]_vars

(* The shell process is scheduled and signals are delivered; nothing is    *)
(* assumed of the children.                                                *)
FairSpec == Spec /\ WF_vars(Shell) /\ WF_vars(sh_onsig)

(* Additionally every child ends sooner or later.                          *)
EndingSpec == FairSpec /\ \A p \in Pids : WF_vars(\E c \in Codes : ChildExit(p, c))

-----------------------------------------------------------------------------
(* Properties *)

Statuses == Codes \cup {RUN, STOP}
Jobs == {j \in [id : Nat, n : Nat, level : Int, bgnd : BOOLEAN, pipefail : BOOLEAN,
                pid : Seq(Pids \cup {Nil}), stat : Seq(Statuses)] :
           Len(j.pid) = j.n /\ Len(j.stat) = j.n}
KidStates == {"none", "run", "stop", "zombie", "reaped"}
Calls == {"bg", "pipe", "prog", "wait", "waitops", "jobs", "update", "fg", "sub", "cmdsub", "trap"}
Pcs   == WaitPcs \cup {"fork", "forked", "drain", "body", "next", "ret", "clean", "discard"}
Operand == [spec : [by : {"%%", "%-", "%n", "pid"}, arg : Pids \cup Nat], j : Refs \cup {Nil}]
Frames == [k : Calls, pc : Pcs, j : Refs \cup {Nil}, cur : Refs \cup {Nil}, left : Int,
           new : Pids \cup {Nil}, st : Statuses \cup {Hangup}, t0 : Nat, spins : Int,
           todo : Seq(Operand), flag : BOOLEAN]

KernelType ==
  /\ kid \in [Pids -> [st : KidStates, code : Codes, note : BOOLEAN, bg : BOOLEAN]]
  /\ chld \in BOOLEAN /\ mask \in BOOLEAN
TableType ==
  /\ heap \in [Refs -> Jobs]
  /\ job_list \in Seq(Refs)
  /\ job_pointer \in Refs \cup {Head0, NoSlot}
  /\ job_finished \in [0..(RingSize - 1) -> [pid : Pids \cup {Nil}, status : Statuses]]
  /\ job_finished_n \in 0..(RingSize - 1)
FlagType ==
  /\ job_bgpid \in Pids \cup {Nil}
  /\ sh_subshell \in Int /\ trap_run_count \in Nat
  /\ job_signaled \in BOOLEAN /\ trap_signaled \in BOOLEAN /\ job_wait_interruptible \in BOOLEAN
  /\ job_wait_sig \in BOOLEAN
StackType == stack \in Seq(Frames)

(* Types of the shell's and the kernel's variables.                        *)
TypeOK == KernelType /\ TableType /\ FlagType /\ StackType

(* The list is in strictly ascending id order whatever mix of job_new,     *)
(* job_clean, job_discard and job_wait built it, so a "%n" names one job   *)
(* and job_new's walk finds the lowest free number.                        *)
ListOrdered ==
  \A a, b \in 1..Len(job_list) : a < b => heap[job_list[a]].id < heap[job_list[b]].id

(* The current-job slot never dangles: it is NULL exactly when there is no *)
(* job, otherwise it is a slot of the list that holds a job.  job_delete   *)
(* has to move it when the job it is embedded in, or the job it holds, is  *)
(* the one freed.                                                          *)
CurrentValid ==
  /\ job_list = <<>> <=> job_pointer = NoSlot
  /\ job_list # <<>> => \E k \in 1..Len(job_list) : job_pointer = Slot(job_list, k)

(* What makes the two inductive.  An address is linked once; ids start at *)
(* 1 and grow at least as fast as positions, so inserting at the first gap *)
(* keeps the order.                                                        *)
ListDistinct == \A a, b \in 1..Len(job_list) : a # b => job_list[a] # job_list[b]
IdGaps ==
  \A a, b \in 1..Len(job_list) :
    a <= b => /\ heap[job_list[a]].id >= 1
              /\ heap[job_list[b]].id - heap[job_list[a]].id >= b - a
TableInv == ListDistinct /\ IdGaps /\ CurrentValid

(* A call that has another on top of it rests in a command body or in the  *)
(* trap check of job_wait; "wait op" has an operand left while it waits.   *)
Resting == {"body", "chk", "rechk"}
StackShape(s) ==
  /\ \A i \in 1..(Len(s) - 1) : s[i].pc \in Resting
  /\ \A i \in 1..Len(s) : s[i].k = "waitops" /\ s[i].pc # "next" => s[i].todo # <<>>

(* job_clean and job_discard hold a pointer to a job that is still there.  *)
WalkLive == stack # <<>> /\ Top.pc \in {"clean", "discard"} /\ Top.cur # Nil => Live(Top.cur)

(* The table is well formed at every step of every call, walks over the    *)
(* list that free what they stand on included.  This is inductive.         *)
TableSafe == TypeOK /\ TableInv /\ StackShape(stack) /\ WalkLive

(* No exit is lost between the kernel, the handler and the shell's own     *)
(* waits: while a job is in the list, a member recorded as running has not *)
(* been reaped by anybody, and a member recorded as ended was reaped and   *)
(* carries the code it really ended with.                                  *)
NoExitLost ==
  \A r \in Refs : Live(r) => \A i \in 1..heap[r].n :
    LET p == heap[r].pid[i] IN p # Nil =>
      /\ heap[r].stat[i] = RUN => Exists(p)
      /\ heap[r].stat[i] \in Codes => kid[p].st = "reaped" /\ kid[p].code = heap[r].stat[i]

(* job_wait() never works on a struct job that has been freed.             *)
NoDanglingWait == stack # <<>> /\ Top.pc \in WaitPcs => Live(Top.j)

(* When job_wait() is about to return because nothing of the job remains,  *)
(* the status it has is the one the members really ended with: the last    *)
(* member's, or under pipefail the rightmost failure.  (A stop it saw is   *)
(* reported as a stop, even if the member has ended since.)                *)
RealCode(j, i) == kid[j.pid[i]].code
WaitResult ==
  At("fin") /\ Live(Top.j) =>
    LET j == heap[Top.j]
        bad == {i \in 1..j.n : RealCode(j, i) # 0}
        sure == IF j.pipefail /\ bad # {} THEN Greatest(bad) ELSE j.n
    IN  job_done(j) /\ j.n > 0 /\ Top.st # STOP => PipefailStatus(j, Top.st) = RealCode(j, sure)

(* "wait $pid" reports the code the process really ended with (or 127, or  *)
(* the stop it is in), whether the handler, this wait or another one       *)
(* reaped it and whether its job is still listed or only in the ring.      *)
WaitTruth == obs # <<>> => obs[1] \in {127, StopStatus, obs[2]}

(* A stopped job stays listed until something resumes it: job_wait()       *)
(* hands control back so that fg or bg can.                                *)
StoppedJobKept == [][\A r \in Refs : Live(r) /\ job_stopped(heap[r]) => Live(r)']_vars

(* The ring holds statuses of processes that have ended.                   *)
RingFinished ==
  \A e \in 0..(RingSize - 1) : LET p == job_finished[e].pid IN
    p # Nil => kid[p].st = "reaped" /\ job_finished[e].status = kid[p].code

(* No exit status is lost, invented or given to another process: in the    *)
(* jobs that are listed, in what job_wait() returns, in what "wait pid"    *)
(* reports and in the ring, whichever of the handler, the waits and the    *)
(* drain of a substitution reaped the process.                             *)
StatusTrue == NoExitLost /\ WaitResult /\ WaitTruth /\ RingFinished

(* A subshell works on its own jobs only.                                  *)
OwnJobsOnly ==
  stack # <<>> /\ Top.k \in {"waitops", "fg"} /\ Top.pc \in WaitPcs /\ Live(Top.j)
    => heap[Top.j].level = sh_subshell

(* "jobs" drops only jobs it has just listed: those of its own level.      *)
JobsDropsListed == [][Running("jobs", "clean") => \A r \in Refs : Live(r) /\ ~Live(r)' => Here(r)]_vars

(* Once a trap has run, the interruptible wait it interrupted returns and  *)
(* does not go back to waiting for its job.                                *)
TrapEndsWait ==
  [][stack # <<>> /\ Top.k \in {"wait", "waitops"} /\ Top.pc \in {"chk", "rechk"} =>
       LET f == stack'[Len(stack)]
       IN  trap_run_count # Top.t0 /\ f.pc # Top.pc => f.pc = "ret" /\ job_wait_sig']_vars

(* A foreground program's command returns only once its child has ended or *)
(* stopped.                                                                *)
ForegroundDone == Running("prog", "ret") /\ Live(Top.j) => ~job_running(heap[Top.j])

(* "wait" without operands waits for background jobs.                      *)
WaitsForBackground == stack # <<>> /\ Top.k = "wait" /\ Top.pc \in WaitPcs /\ Live(Top.j) => heap[Top.j].bgnd

(* Every command the script starts comes to its end.                       *)
CommandsComplete == stack # <<>> ~> stack = <<>>

(* A wait whose job has ended returns, even if other children never end.   *)
WaitsFor(r) == stack # <<>> /\ Top.pc \in WaitPcs /\ Top.j = r /\ Live(r) /\ job_done(heap[r])
FinishedWaitReturns == \A r \in Refs : WaitsFor(r) ~> ~WaitsFor(r)

(* "wait" hands control back when all there is to wait for is stopped.     *)
OnlyStopped == /\ \E i \in 1..Len(stack) : stack[i].k = "wait"
               /\ \A r \in Refs : Live(r) => job_stopped(heap[r])
StoppedWaitReturns == OnlyStopped ~> ~OnlyStopped

(* A trap runs promptly, even while the shell is blocked on a child that   *)
(* keeps running.                                                          *)
TrapPrompt == trap_signaled ~> ~trap_signaled
=============================================================================
