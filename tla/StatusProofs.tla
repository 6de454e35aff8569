---------------------------- MODULE StatusProofs ----------------------------
(***************************************************************************)
(* The statuses the job layer reports are the true ones (StatusTrue of     *)
(* JobControl), for every number of processes, jobs, nested calls and      *)
(* signals: what job_wait() is about to return, what "wait pid" reports    *)
(* and what the ring of finished jobs holds, whoever reaped the process.   *)
(* The conditions on the commands in use, StatusTame, are those without    *)
(* which the code breaks it.                                               *)
(***************************************************************************)
EXTENDS WaitsProofs

(* No reuse of process ids (PidAgain.cfg), no freed job under a wait       *)
(* (WaitTame), no subshells, whose end records running jobs as finished,   *)
(* under job control no pipelines, and fewer signals than job_wait has     *)
(* retries: each of the two makes it return early with an old status.      *)
StatusTame ==
  ~PidReuse /\ WaitTame /\ StopTame /\ NoSubs /\ MaxSigs + 2 <= MaxSpins

-----------------------------------------------------------------------------
(* Children: what was reaped stays reaped, and only a launcher marks the   *)
(* child it has just forked as a background process.                       *)

KidCalm(p) ==
  /\ kid[p].st = "reaped" => kid'[p].st = "reaped" /\ kid'[p].code = kid[p].code
  /\ kid'[p].bg => kid[p].bg
KidStep(p) ==
  /\ kid[p].st = "reaped" => kid'[p].st = "reaped" /\ kid'[p].code = kid[p].code
  /\ kid'[p].bg => kid[p].bg \/ (At("forked") /\ Top.new = p)

LEMMA KidReaped ==
  ASSUME KernelType, NEW p \in Pids, NEW q \in Pids, Reapable(q), kid' = Reaped(q)
  PROVE  KidCalm(p)
<1>1. CASE p = q
  BY <1>1 DEF KidCalm, Reaped, Reapable, KernelType
<1>2. CASE p # q
  BY <1>2 DEF KidCalm, Reaped, KernelType
<1> QED BY <1>1, <1>2

LEMMA KidContinued ==
  ASSUME KernelType, NEW p \in Pids, NEW S, kid' = Continued(S)
  PROVE  KidCalm(p)
BY DEF KidCalm, Continued, KernelType

LEMMA KidForked ==
  ASSUME ~PidReuse, KernelType, NEW p \in Pids, NEW q \in Pids, Forkable(q), kid' = Forked(q)
  PROVE  KidCalm(p)
<1>1. CASE p = q
  BY <1>1 DEF KidCalm, Forked, Forkable, NoKid, KernelType
<1>2. CASE p # q
  BY <1>2 DEF KidCalm, Forked, KernelType
<1> QED BY <1>1, <1>2

LEMMA KidMarked ==
  ASSUME KernelType, NEW p \in Pids, At("forked"), kid' = [kid EXCEPT ![Top.new].bg = TRUE]
  PROVE  KidStep(p)
<1>1. CASE p = Top.new
  BY <1>1 DEF KidStep, KernelType
<1>2. CASE p # Top.new
  BY <1>2 DEF KidStep, KernelType
<1> QED BY <1>1, <1>2

LEMMA KidSame ==
  ASSUME NEW p, kid' = kid
  PROVE  KidCalm(p)
BY DEF KidCalm

LEMMA CalmKid ==
  ASSUME NEW p, KidCalm(p)
  PROVE  KidStep(p)
BY DEF KidCalm, KidStep

LEMMA StepKid ==
  ASSUME ~PidReuse, Safe, [Next]_vars, NEW p \in Pids
  PROVE  KidStep(p)
<1>0. KernelType
  BY DEF Safe
<1>1. CASE Script
  <2>1. CASE \E bgnd \in BOOLEAN : exec_program(bgnd) \/ exec_program_fails(bgnd)
    BY <1>0, <2>1, KidForked, KidSame, CalmKid DEF exec_program, exec_program_fails, kernel
  <2>2. CASE builtin_fg \/ builtin_bg
    <3>1. kid' = kid \/ \E S : kid' = Continued(S)
      BY <2>2 DEF builtin_fg, builtin_bg, ResumeAs
    <3> QED BY <1>0, <3>1, KidSame, CalmKid, KidContinued
  <2>3. CASE eval_node_bgnd \/ (\E n \in 0..MaxProcs, last, pipefail \in BOOLEAN : eval_pipeline(n, last, pipefail))
               \/ wait_all \/ (\E specs \in SpecSeqs : wait_operands(specs))
    BY <2>3, KidSame, CalmKid DEF eval_node_bgnd, eval_pipeline, wait_all, wait_operands, kernel
  <2>4. CASE builtin_jobs \/ job_update \/ \E k \in {"sub", "cmdsub"} : eval_subshell(k)
    BY <2>4, KidSame, CalmKid DEF builtin_jobs, job_update, eval_subshell, kernel
  <2> QED BY <1>1, <2>1, <2>2, <2>3, <2>4 DEF Script
<1>2. CASE Shell
  <2>1. CASE job_fork
    BY <1>0, <2>1, KidForked, CalmKid DEF job_fork
  <2>2. CASE job_fork_parent
    BY <1>0, <2>2, KidSame, CalmKid, KidMarked DEF job_fork_parent
  <2>3. CASE exec_program_parent
    <3>1. At("forked") /\ Top.k = "prog"
      BY <2>3 DEF exec_program_parent, Running, At
    <3> QED BY <1>0, <2>3, <3>1, KidSame, CalmKid, KidMarked DEF exec_program_parent
  <2>4. CASE job_resume_stopped
    <3>1. PICK q \in Pids : Reapable(q) /\ (kid' = Reaped(q) \/ kid' = Continued({q}))
      BY <2>4 DEF job_resume_stopped
    <3> QED BY <1>0, <3>1, KidReaped, CalmKid, KidContinued
  <2>5. CASE job_wait_scan
    <3>1. kid' = kid \/ \E S : kid' = Continued(S)
      BY <2>5 DEF job_wait_scan
    <3> QED BY <1>0, <3>1, KidSame, CalmKid, KidContinued
  <2>6. CASE waitpid_reap
    <3>1. PICK q \in Group(heap[Top.j]) : Reapable(q) /\ kid' = Reaped(q)
      BY <2>6 DEF waitpid_reap
    <3>2. q \in Pids
      <4>1. Top.j \in Refs
        BY <2>6, LiveRef DEF waitpid_reap, Waiting, Safe, TableOK
      <4>2. heap[Top.j] \in Jobs
        BY <4>1 DEF Safe, TableOK, TableType
      <4> QED BY <3>1, <4>2 DEF Group, Jobs
    <3> QED BY <1>0, <3>1, <3>2, KidReaped, CalmKid
  <2>7. CASE job_fork_fails \/ fdstack_data_eof \/ job_wait_traps \/ job_wait_check \/ waitpid_none \/ waitpid_block
               \/ job_wait_spin \/ job_wait_finish \/ job_wait_dangling
    BY <2>7, KidSame, CalmKid DEF job_fork_fails, fdstack_data_eof, job_wait_traps, job_wait_check, waitpid_none, waitpid_block,
         job_wait_spin, job_wait_finish, job_wait_dangling, kernel
  <2>8. CASE eval_pipeline_return \/ exec_program_return \/ fg_return \/ wait_next \/ wait_return \/ job_clean
               \/ job_clean_end \/ body_end \/ job_discard \/ job_discard_end \/ trap_run_pending
    BY <2>8, KidSame, CalmKid DEF eval_pipeline_return, exec_program_return, fg_return, wait_next, wait_return, job_clean,
         job_clean_end, body_end, job_discard, job_discard_end, trap_run_pending, kernel
  <2> QED BY <1>2, <2>1, <2>2, <2>3, <2>4, <2>5, <2>6, <2>7, <2>8 DEF Shell
<1>3. CASE Kernel
  <2>1. CASE \E q \in Pids : (\E c \in Codes : ChildExit(q, c)) \/ ChildStop(q) \/ ChildCont(q)
    <3>1. PICK q \in Pids : (\E c \in Codes : ChildExit(q, c)) \/ ChildStop(q) \/ ChildCont(q)
      BY <2>1
    <3>2. CASE (\E c \in Codes : ChildExit(q, c)) \/ ChildStop(q)
      <4>1. CASE p = q
        BY <1>0, <3>2, <4>1 DEF ChildExit, ChildStop, KidStep, KernelType
      <4>2. CASE p # q
        BY <1>0, <3>2, <4>2 DEF ChildExit, ChildStop, KidStep, KernelType
      <4> QED BY <4>1, <4>2
    <3>3. CASE ChildCont(q)
      BY <1>0, <3>3, KidContinued, CalmKid DEF ChildCont
    <3> QED BY <3>1, <3>2, <3>3
  <2>2. CASE sh_onsig
    BY <1>0, <2>2, KidReaped, KidSame, CalmKid DEF sh_onsig
  <2>3. CASE trap_relay
    BY <2>3, KidSame, CalmKid DEF trap_relay, kernel
  <2> QED BY <1>3, <2>1, <2>2, <2>3 DEF Kernel
<1>4. CASE UNCHANGED vars
  BY <1>4, KidSame, CalmKid DEF vars, kernel
<1> QED BY <1>1, <1>2, <1>3, <1>4 DEF Next

-----------------------------------------------------------------------------
(* Jobs: apart from the launcher that records its child, a step leaves the *)
(* members of a job as they are; a new job has one member, or none filled. *)

KeepsJob(r) ==
  /\ heap'[r].n = heap[r].n /\ heap'[r].pid = heap[r].pid
  /\ Monitor \/ heap'[r].bgnd = heap[r].bgnd
NewJob(r) == heap'[r].n = 1 \/ (~Monitor /\ \A i \in 1..heap'[r].n : heap'[r].pid[i] = Nil)
JobStep(r) ==
  \/ Live(r) /\ KeepsJob(r)
  \/ Live(r) /\ job_fork_parent /\ r = Top.j
  \/ ~Live(r) /\ NewJob(r)

LEMMA SignalKeeps ==
  ASSUME TableOK, NEW p, NEW s, job_signal(p, s), NEW r \in Refs
  PROVE  KeepsJob(r)
<1> DEFINE o == job_bypid(p)
           m == Member(o, p)
<1>1. CASE o = Nil
  BY <1>1 DEF job_signal, table, KeepsJob
<1>2. CASE o # Nil
  <2>1. heap' = [heap EXCEPT ![o].stat[m] = s] /\ heap \in [Refs -> Jobs]
    BY <1>2 DEF job_signal, TableOK, TableType
  <2> HIDE DEF o, m
  <2> QED BY <2>1 DEF KeepsJob, Jobs
<1> QED BY <1>1, <1>2

LEMMA ResumeKeeps ==
  ASSUME TableOK, Monitor, NEW x \in Refs, NEW b, ResumeAs(x, b), NEW r \in Refs
  PROVE  KeepsJob(r)
BY ResumeStats DEF KeepsJob, StatStep

LEMMA ScanKeeps ==
  ASSUME Safe, job_wait_scan, NEW r \in Refs
  PROVE  KeepsJob(r)
<1>1. heap \in [Refs -> Jobs] /\ heap[r] \in Jobs
  BY DEF Safe, TableOK, TableType
<1>2. CASE heap' = heap
  BY <1>2 DEF KeepsJob
<1>3. CASE heap' # heap
  <2> DEFINE t == [i \in 1..heap[Top.j].n |->
                     IF i \in {m \in 1..heap[Top.j].n : heap[Top.j].stat[m] = STOP} THEN RUN ELSE heap[Top.j].stat[i]]
  <2>1. heap' = [heap EXCEPT ![Top.j].stat = t]
    BY <1>3 DEF job_wait_scan
  <2> HIDE DEF t
  <2> QED BY <1>1, <2>1 DEF KeepsJob, Jobs
<1> QED BY <1>2, <1>3

LEMMA FillKeeps ==
  ASSUME Safe, job_fork_parent, NEW r \in Refs, r # Top.j
  PROVE  KeepsJob(r)
<1>1. heap \in [Refs -> Jobs]
  BY SMTT(20) DEF Safe, TableOK, TableType
<1>2. Top \in Frames
  BY TopPlaced DEF job_fork_parent, At, Safe, StackOK, Top
<1>3. [Top EXCEPT !.new = Nil, !.left = Top.left - 1].j = Top.j
  BY <1>2 DEF Frames
<1>4. PICK i, p : heap' = [heap EXCEPT ![Top.j].pid[i] = p, ![Top.j].stat[i] = RUN]
  BY <1>3 DEF job_fork_parent
<1> QED BY <1>1, <1>4 DEF KeepsJob

LEMMA NewSteps ==
  ASSUME TableOK, NEW x, NEW n \in Nat, NEW b, NEW c, NEW p, job_new(x, n, b, c, p), n = 1 \/ (~Monitor /\ p = Nil),
         NEW r \in Refs, Live(r)'
  PROVE  JobStep(r)
<1>1. Listed(x, n, p)
  BY NewListed
<1> QED BY <1>1 DEF Listed, JobStep, KeepsJob, NewJob

LEMMA FreeSteps ==
  ASSUME TableOK, NEW x, job_free(x), NEW r \in Refs, Live(r)'
  PROVE  JobStep(r)
<1>1. CASE Live(x)
  <2>1. heap' = [heap EXCEPT ![x] = NoJob] /\ heap \in [Refs -> Jobs]
    BY <1>1 DEF job_free, job_delete, TableOK, TableType
  <2>2. Live(r) /\ r # x
    BY <1>1, JobFreeTable
  <2>3. heap'[r] = heap[r]
    BY <2>1, <2>2
  <2> QED BY <2>2, <2>3 DEF JobStep, KeepsJob
<1>2. CASE ~Live(x)
  BY <1>2 DEF job_free, table, JobStep, KeepsJob, Live
<1> QED BY <1>1, <1>2

LEMMA StepJobs ==
  ASSUME StopTame, Safe, [Next]_vars, NEW r \in Refs, Live(r)'
  PROVE  JobStep(r)
<1>0. TableOK
  BY DEF Safe
<1>1. ASSUME job_list' = job_list, heap' = heap
      PROVE  JobStep(r)
  BY <1>1 DEF JobStep, KeepsJob, Live
<1>2. ASSUME NEW p, NEW s, job_signal(p, s)
      PROVE  JobStep(r)
  <2>1. job_list' = job_list
    BY <1>2 DEF job_signal, table
  <2> QED BY <1>0, <1>2, <2>1, SignalKeeps DEF JobStep, Live
<1>3. ASSUME NEW x, job_free(x)
      PROVE  JobStep(r)
  BY <1>0, <1>3, FreeSteps
<1>4. CASE Script
  <2>1. CASE eval_node_bgnd
    BY <1>0, <2>1, NewSteps DEF eval_node_bgnd
  <2>2. CASE \E n \in 0..MaxProcs, last, pipefail \in BOOLEAN : eval_pipeline(n, last, pipefail)
    <3>1. PICK n \in 0..MaxProcs, pipefail \in BOOLEAN, x \in Refs : Cmd("pipe") /\ job_new(x, n, FALSE, pipefail, Nil)
      BY <2>2 DEF eval_pipeline
    <3>2. n \in Nat /\ ~Monitor
      BY <3>1, JobConstants, CmdScripted DEF StopTame
    <3> QED BY <1>0, <3>1, <3>2, NewSteps
  <2>3. CASE builtin_fg \/ builtin_bg
    <3>1. PICK x, b : x \in Resolved \ {Nil} /\ Monitor /\ ResumeAs(x, b)
      BY <2>3 DEF builtin_fg, builtin_bg
    <3>2. x \in Refs /\ job_list' = job_list
      BY <1>0, <3>1, ResolvedLive, LiveRef DEF ResumeAs, TableOK
    <3> QED BY <1>0, <3>1, <3>2, ResumeKeeps DEF JobStep, Live
  <2>4. CASE (\E bgnd \in BOOLEAN : exec_program(bgnd) \/ exec_program_fails(bgnd)) \/ wait_all \/ (\E specs \in SpecSeqs : wait_operands(specs))
               \/ builtin_jobs \/ job_update \/ \E k \in {"sub", "cmdsub"} : eval_subshell(k)
    BY <1>1, <2>4 DEF exec_program, exec_program_fails, wait_all, wait_operands, builtin_jobs, job_update, eval_subshell, table
  <2> QED BY <1>4, <2>1, <2>2, <2>3, <2>4 DEF Script
<1>5. CASE Shell
  <2>1. CASE job_fork \/ fdstack_data_eof \/ job_wait_traps \/ job_wait_check \/ waitpid_none \/ waitpid_block
               \/ job_wait_spin \/ job_wait_dangling
    BY <1>1, <2>1 DEF job_fork, fdstack_data_eof, job_wait_traps, job_wait_check, waitpid_none, waitpid_block,
         job_wait_spin, job_wait_dangling, table
  <2>2. CASE exec_program_return \/ fg_return \/ wait_next \/ wait_return \/ job_clean_end \/ body_end
               \/ job_discard_end \/ trap_run_pending
    BY <1>1, <2>2 DEF exec_program_return, fg_return, wait_next, wait_return, job_clean_end, body_end,
         job_discard_end, trap_run_pending, table
  <2>3. CASE job_fork_parent
    <3>1. Live(r)
      BY <2>3 DEF job_fork_parent, Live
    <3> QED BY <2>3, <3>1, FillKeeps DEF JobStep
  <2>4. CASE job_fork_fails \/ job_wait_finish \/ eval_pipeline_return \/ job_clean \/ job_discard
    BY <1>1, <1>3, <2>4 DEF job_fork_fails, job_wait_finish, eval_pipeline_return, job_clean, job_discard, table
  <2>5. CASE exec_program_parent
    BY <1>0, <2>5, NewSteps DEF exec_program_parent
  <2>6. CASE job_resume_stopped \/ waitpid_reap
    BY <1>2, <2>6 DEF job_resume_stopped, waitpid_reap
  <2>7. CASE job_wait_scan
    BY <2>7, ScanKeeps DEF JobStep, Live, job_wait_scan
  <2> QED BY <1>5, <2>1, <2>2, <2>3, <2>4, <2>5, <2>6, <2>7 DEF Shell
<1>6. CASE Kernel
  <2>1. CASE sh_onsig
    BY <1>1, <1>2, <2>1, SMTT(20) DEF sh_onsig, table
  <2>2. CASE trap_relay \/ \E p \in Pids : (\E c \in Codes : ChildExit(p, c)) \/ ChildStop(p) \/ ChildCont(p)
    BY <1>1, <2>2 DEF trap_relay, ChildExit, ChildStop, ChildCont, table
  <2> QED BY <1>6, <2>1, <2>2 DEF Kernel
<1>7. CASE UNCHANGED vars
  BY <1>1, <1>7 DEF vars, table
<1> QED BY <1>4, <1>5, <1>6, <1>7 DEF Next

-----------------------------------------------------------------------------
(* The invariant *)

Filled(r) == \A i \in 1..heap[r].n : heap[r].pid[i] # Nil
Ended(r)  == \A i \in 1..heap[r].n : heap[r].stat[i] \in Codes

(* The retries job_wait has left, not counting those that signals took.    *)
Tries(f) == f.spins + (trap_run_count - f.t0)

(* job_wait() on a job all of whose members were started: it has all its   *)
(* retries as long as its last scan of the job was of one not ended, gives *)
(* one up only for a signal or because the job has ended, and what it      *)
(* returns is the status of the last member.                               *)
WaitStat(f) ==
  f.pc \in WaitPcs /\ Filled(f.j) =>
    /\ Tries(f) >= MaxSpins \/ (f.pc \in {"top", "chk", "scan"} /\ Ended(f.j)) \/ f.pc = "fin"
    /\ f.pc = "err" => trap_signaled \/ Ended(f.j)
    /\ f.pc \in {"rechk", "spin"} => Tries(f) > MaxSpins \/ Ended(f.j)
    /\ f.pc = "fin" /\ heap[f.j].n > 0 => f.st = STOP \/ (f.st = heap[f.j].stat[heap[f.j].n] /\ f.st \in Codes)
(* "wait pid" waits for the one process of its job, and has its code.      *)
OpStat(f) ==
  f.k = "waitops" /\ f.todo # <<>> =>
    /\ f.pc \in WaitPcs => f.j = Head(f.todo).j
    /\ Head(f.todo).spec.by = "pid" =>
         /\ Head(f.todo).spec.arg \in Pids
         /\ f.pc \in {"next"} \cup WaitPcs /\ Head(f.todo).j # Nil =>
              heap[Head(f.todo).j].n = 1 /\ heap[Head(f.todo).j].pid[1] = Head(f.todo).spec.arg
         /\ f.pc = "ret" /\ ~job_wait_sig =>
              f.st = STOP \/ (kid[Head(f.todo).spec.arg].st = "reaped" /\ kid[Head(f.todo).spec.arg].code = f.st)
(* A launcher's job is what it made; its child is not yet marked as one    *)
(* that "wait pid" can name.                                               *)
LaunchStat(f) ==
  /\ f.k = "pipe" /\ Live(f.j) => ~heap[f.j].bgnd
  /\ f.k = "bg" /\ f.pc \in {"fork", "forked"} => heap[f.j].n = 1
  /\ f.pc = "forked" => ~kid[f.new].bg
FrameStat(f) == WaitStat(f) /\ OpStat(f) /\ LaunchStat(f)
FramesOK == \A i \in 1..Len(stack) : FrameStat(stack[i])
(* A process that "wait pid" can name is its job's only one, and so is     *)
(* every process under job control.                                        *)
MembersOK ==
  \A r \in Refs : Live(r) =>
    /\ Monitor => heap[r].n <= 1
    /\ \A i \in 1..heap[r].n : heap[r].pid[i] # Nil /\ kid[heap[r].pid[i]].bg => heap[r].n = 1
CountOK == trap_run_count <= MaxSigs /\ (trap_signaled => trap_run_count < MaxSigs)

Base == Safe /\ Places(stack) /\ WaitInv /\ StopInv /\ Exits
StatInv == FramesOK /\ MembersOK /\ CountOK /\ RingFinished /\ WaitTruth

(* What a job records of an exit stays.                                    *)
LEMMA CodesKept ==
  ASSUME ~PidReuse, Base, Base', [Next]_vars, NEW r \in Refs, Live(r), Live(r)', KeepsJob(r),
         NEW i \in 1..heap[r].n, heap[r].pid[i] # Nil, heap[r].stat[i] \in Codes
  PROVE  heap'[r].stat[i] = heap[r].stat[i]
<1>1. heap[r].pid[i] \in Pids
  BY MemberType DEF Base, Safe, TableOK
<1>2. PICK p \in Pids : p = heap[r].pid[i]
  BY <1>1
<1>3. kid[p].st = "reaped" /\ kid[p].code = heap[r].stat[i]
  BY <1>2 DEF Base, Exits, Held, Told
<1>4. kid'[p].st = "reaped" /\ kid'[p].code = heap[r].stat[i]
  BY <1>3, StepKid DEF Base, KidStep
<1>5. i \in 1..heap'[r].n /\ heap'[r].pid[i] = p /\ p # Nil
  BY <1>2 DEF KeepsJob
<1>6. heap'[r].stat[i] \in Statuses
  <2>1. TableType'
    BY DEF Base, Safe, TableOK
  <2>2. heap'[r] \in Jobs
    BY <2>1 DEF TableType
  <2> QED BY <1>5, <2>2 DEF Jobs
<1>7. Told(r, i)'
  BY <1>5 DEF Base, Exits, Held
<1>8. heap'[r].stat[i] \in {RUN, STOP} => kid'[p].st \in {"run", "stop", "zombie"}
  BY <1>5, <1>7 DEF Told, Exists
<1>9. heap'[r].stat[i] \in Codes => kid'[p].code = heap'[r].stat[i]
  BY <1>5, <1>7 DEF Told
<1> QED BY <1>4, <1>6, <1>8, <1>9 DEF Statuses

LEMMA EndedKept ==
  ASSUME ~PidReuse, Base, Base', [Next]_vars, NEW r \in Refs, Live(r), Live(r)', KeepsJob(r)
  PROVE  /\ Filled(r)' <=> Filled(r)
         /\ Filled(r) /\ Ended(r) => Ended(r)'
         /\ heap'[r].n = heap[r].n
         /\ Filled(r) => \A i \in 1..heap[r].n : heap[r].stat[i] \in Codes => heap'[r].stat[i] = heap[r].stat[i]
<1>1. Filled(r)' <=> Filled(r)
  BY DEF KeepsJob, Filled
<1>2. Filled(r) => \A i \in 1..heap[r].n : heap[r].stat[i] \in Codes => heap'[r].stat[i] = heap[r].stat[i]
  BY CodesKept DEF Filled
<1> QED BY <1>1, <1>2 DEF KeepsJob, Ended

-----------------------------------------------------------------------------
(* Signals, jobs and the ring *)

LEMMA StepCount ==
  ASSUME Safe, CountOK, [Next]_vars
  PROVE  CountOK' /\ trap_run_count' >= trap_run_count
<1>0. trap_run_count \in Nat /\ MaxSigs \in Nat /\ trap_signaled \in BOOLEAN
  BY JobConstants DEF Safe, FlagType
<1>1. CASE UNCHANGED <<trap_signaled, trap_run_count>>
  BY <1>0, <1>1 DEF CountOK
<1>2. CASE trap_relay
  BY <1>0, <1>2 DEF trap_relay, CountOK
<1>3. CASE trap_signaled /\ trap_signaled' = FALSE /\ trap_run_count' = trap_run_count + 1
  BY <1>0, <1>3 DEF CountOK
<1>4. CASE Script
  BY <1>1, <1>4 DEF Script, eval_node_bgnd, eval_pipeline, exec_program, exec_program_fails, wait_all, wait_operands,
          builtin_jobs, job_update, builtin_fg, builtin_bg, eval_subshell, traps
<1>5. CASE Shell
  <2>1. CASE job_fork \/ job_fork_parent \/ job_fork_fails \/ exec_program_parent \/ job_resume_stopped
               \/ fdstack_data_eof \/ job_wait_check \/ job_wait_scan
    BY <1>1, <2>1, Zenon DEF job_fork, job_fork_parent, job_fork_fails, exec_program_parent, job_resume_stopped,
         fdstack_data_eof, job_wait_check, job_wait_scan, traps
  <2>2. CASE waitpid_reap \/ waitpid_none \/ waitpid_block \/ job_wait_spin \/ job_wait_finish \/ job_wait_dangling
               \/ eval_pipeline_return \/ exec_program_return \/ fg_return
    BY <1>1, <2>2 DEF waitpid_reap, waitpid_none, waitpid_block, job_wait_spin, job_wait_finish, job_wait_dangling,
         eval_pipeline_return, exec_program_return, fg_return, traps
  <2>3. CASE wait_next \/ wait_return \/ job_clean \/ job_clean_end \/ body_end \/ job_discard \/ job_discard_end
    BY <1>1, <2>3 DEF wait_next, wait_return, job_clean, job_clean_end, body_end, job_discard, job_discard_end, traps
  <2>4. CASE job_wait_traps \/ trap_run_pending
    BY <1>1, <1>3, <2>4 DEF job_wait_traps, trap_run_pending, RunTrap, traps
  <2> QED BY <1>5, <2>1, <2>2, <2>3, <2>4, Zenon DEF Shell
<1>6. CASE Kernel
  BY <1>1, <1>2, <1>6 DEF Kernel, ChildExit, ChildStop, ChildCont, sh_onsig, traps
<1>7. CASE UNCHANGED vars
  BY <1>1, <1>7 DEF vars, traps
<1> QED BY <1>4, <1>5, <1>6, <1>7 DEF Next

(* The frame on top has what the invariants say of frames.                 *)
LEMMA TopStat ==
  ASSUME Base, FramesOK, stack # <<>>
  PROVE  Top \in Frames /\ Placed(Top) /\ StackOK(stack) /\ FrameStat(Top) /\ FrameWait(Top) /\ FrameOK(Top)
<1>1. Len(stack) \in 1..Len(stack) /\ StackOK(stack)
  BY DEF Base, Safe, StackOK
<1> QED BY <1>1, TopPlaced, TopOf DEF Base, FramesOK, WaitInv, Top, Safe

(* No subshell is among the calls.                                         *)
LEMMA NoSubTop ==
  ASSUME NoSubs, Base, stack # <<>>
  PROVE  Top.k \notin Subs /\ Top.pc # "discard"
<1>1. Len(stack) \in 1..Len(stack)
  BY DEF Base, Safe, StackOK
<1>2. Top.k = "trap" \/ \E c \in Commands : Top.k = KindOf(c)
  BY <1>1 DEF Base, StopInv, Ran, Top
<1>3. Top.k \notin Subs
  BY <1>2 DEF NoSubs, KindOf, Subs
<1> QED BY <1>3, TopPlaced DEF Base, Safe, Placed, PcsOf, WaitPcs, Waits, Subs, Frames, Calls

LEMMA FillMembers ==
  ASSUME Base, job_fork_parent, NEW r, r = Top.j
  PROVE  /\ r \in Refs /\ Live(r) /\ Live(r)'
         /\ heap'[r].n = heap[r].n /\ heap'[r].bgnd = heap[r].bgnd
         /\ \A m \in 1..heap[r].n : heap'[r].pid[m] \in {heap[r].pid[m], Top.new}
<1>0. stack # <<>> /\ Top.pc = "forked" /\ Top.k \in {"bg", "pipe"}
  BY DEF job_fork_parent, At
<1>1. r \in Refs /\ Live(r) /\ Live(r)'
  BY <1>0 DEF Base, Exits, RoomOK, Room, job_fork_parent, Live
<1>2. heap \in [Refs -> Jobs] /\ heap[r] \in Jobs /\ Top \in Frames
  BY <1>0, <1>1, TopPlaced DEF Base, Safe, TableOK, TableType
<1>3. [Top EXCEPT !.new = Nil, !.left = Top.left - 1].j = Top.j
  BY <1>2 DEF Frames
<1>4. PICK i : heap' = [heap EXCEPT ![r].pid[i] = Top.new, ![r].stat[i] = RUN]
  BY <1>3 DEF job_fork_parent
<1>5. PICK p : p = Top.new
  OBVIOUS
<1> DEFINE h == [heap EXCEPT ![r].pid[i] = p]
<1>6. heap' = [h EXCEPT ![r].stat[i] = RUN]
  BY <1>4, <1>5, Zenon
<1>7. DOMAIN h = Refs /\ h[r] = [heap[r] EXCEPT !.pid = [heap[r].pid EXCEPT ![i] = p]]
  BY <1>1, <1>2
<1> HIDE DEF h
<1>8. h[r].n = heap[r].n /\ h[r].bgnd = heap[r].bgnd /\ h[r].pid = [heap[r].pid EXCEPT ![i] = p]
  BY <1>2, <1>7 DEF Jobs
<1>9. DOMAIN h[r] = DOMAIN heap[r] /\ {"n", "pid", "stat", "bgnd"} \subseteq DOMAIN heap[r]
  BY <1>2, <1>7 DEF Jobs
<1>10. heap'[r] = [h[r] EXCEPT !.stat = [h[r].stat EXCEPT ![i] = RUN]]
  BY <1>1, <1>6, <1>7
<1>11. heap'[r].n = heap[r].n /\ heap'[r].bgnd = heap[r].bgnd /\ heap'[r].pid = [heap[r].pid EXCEPT ![i] = p]
  BY <1>8, <1>9, <1>10
<1>12. DOMAIN heap[r].pid = 1..heap[r].n
  BY <1>2 DEF Jobs
<1> QED BY <1>1, <1>5, <1>11, <1>12

LEMMA StepMembers ==
  ASSUME StatusTame, Base, Base', FramesOK, MembersOK, [Next]_vars
  PROVE  MembersOK'
<1> SUFFICES ASSUME NEW r \in Refs, Live(r)'
             PROVE  /\ Monitor => heap'[r].n <= 1
                    /\ \A i \in 1..heap'[r].n : heap'[r].pid[i] # Nil /\ kid'[heap'[r].pid[i]].bg => heap'[r].n = 1
  BY DEF MembersOK
<1>0. StopTame /\ Safe /\ ~PidReuse
  BY DEF StatusTame, Base
<1>1. CASE Live(r) /\ KeepsJob(r)
  <2>1. Monitor => heap'[r].n <= 1
    BY <1>1 DEF MembersOK, KeepsJob
  <2>2. ASSUME NEW i \in 1..heap'[r].n, heap'[r].pid[i] # Nil, kid'[heap'[r].pid[i]].bg
        PROVE  heap'[r].n = 1
    <3>1. i \in 1..heap[r].n /\ heap'[r].pid[i] = heap[r].pid[i]
      BY <1>1, <2>2 DEF KeepsJob
    <3>2. PICK p \in Pids : p = heap[r].pid[i]
      BY <1>0, <2>2, <3>1, MemberType DEF Safe, TableOK
    <3>3. kid[p].bg \/ (At("forked") /\ Top.new = p)
      BY <1>0, <2>2, <3>1, <3>2, StepKid DEF KidStep
    <3>4. ~(At("forked") /\ Top.new = p)
      BY <1>1, <3>1, <3>2 DEF Base, Exits, ForkOK, Fresh, Unlisted, At
    <3> QED BY <1>1, <2>2, <3>1, <3>2, <3>3, <3>4 DEF MembersOK, KeepsJob
  <2> QED BY <2>1, <2>2
<1>2. CASE Live(r) /\ job_fork_parent /\ r = Top.j
  <2>1. /\ heap'[r].n = heap[r].n
        /\ \A m \in 1..heap[r].n : heap'[r].pid[m] \in {heap[r].pid[m], Top.new}
    BY <1>2, FillMembers
  <2>2. stack # <<>> /\ Top.pc = "forked" /\ Top.k \in {"bg", "pipe"}
    BY <1>2 DEF job_fork_parent, At
  <2>3. LaunchStat(Top)
    BY <2>2, TopStat DEF FrameStat
  <2>4. CASE Top.k = "bg"
    BY <1>2, <2>1, <2>2, <2>3, <2>4 DEF LaunchStat
  <2>5. CASE Top.k = "pipe"
    <3>1. kid' = kid
      BY <1>2, <2>5 DEF job_fork_parent
    <3>2. ~kid[Top.new].bg
      BY <2>2, <2>3 DEF LaunchStat
    <3> QED BY <1>2, <2>1, <3>1, <3>2 DEF MembersOK
  <2> QED BY <2>2, <2>4, <2>5
<1>3. CASE ~Live(r) /\ NewJob(r)
  BY <1>3 DEF NewJob
<1> QED BY <1>0, <1>1, <1>2, <1>3, StepJobs DEF JobStep

(* What job_free puts in the ring is true if the job has ended, was not    *)
(* started with "&" or has no process.                                     *)
LEMMA RingFree ==
  ASSUME TableOK, Held, RingFinished, \A p \in Pids : KidStep(p), NEW x, job_free(x),
         Live(x) => ~heap[x].bgnd \/ job_done(heap[x]) \/ \A i \in 1..heap[x].n : heap[x].pid[i] = Nil
  PROVE  RingFinished'
<1> SUFFICES ASSUME NEW e \in 0..(RingSize - 1), NEW p, p = job_finished'[e].pid, p # Nil
             PROVE  kid'[p].st = "reaped" /\ job_finished'[e].status = kid'[p].code
  BY DEF RingFinished
<1>0. TableType
  BY DEF TableOK
<1>1. ASSUME job_finished'[e] = job_finished[e]
      PROVE  kid'[p].st = "reaped" /\ job_finished'[e].status = kid'[p].code
  <2>1. p \in Pids
    BY <1>0, <1>1 DEF TableType
  <2> QED BY <1>1, <2>1 DEF RingFinished, KidStep
<1>2. CASE ~Live(x)
  BY <1>1, <1>2 DEF job_free, table
<1>3. CASE Live(x)
  <2>1. x \in Refs /\ heap[x] \in Jobs /\ heap[x].n \in Nat
    BY <1>0, <1>3, LiveRef, SizeType DEF TableType
  <2>2. job_finished' = RingWith(heap[x])
    BY <1>3 DEF job_free, job_delete
  <2> DEFINE S == {i \in 1..heap[x].n : (job_finished_n + i - 1) % RingSize = e}
  <2>3. \/ job_finished'[e] = job_finished[e]
        \/ heap[x].bgnd /\ S # {} /\ job_finished'[e] = [pid |-> heap[x].pid[Greatest(S)], status |-> heap[x].stat[Greatest(S)]]
    BY <2>2 DEF RingWith
  <2>4. S \in SUBSET (0..heap[x].n) /\ S \subseteq 1..heap[x].n
    BY <2>1
  <2> HIDE DEF S
  <2>5. CASE heap[x].bgnd /\ S # {} /\ job_finished'[e] = [pid |-> heap[x].pid[Greatest(S)], status |-> heap[x].stat[Greatest(S)]]
    <3>1. PICK g : g = Greatest(S)
      OBVIOUS
    <3>2. g \in 1..heap[x].n
      BY <2>1, <2>4, <2>5, <3>1, GreatestOf
    <3>3. p = heap[x].pid[g] /\ job_finished'[e].status = heap[x].stat[g]
      BY <2>5, <3>1
    <3>4. job_done(heap[x])
      BY <1>3, <2>5, <3>2, <3>3
    <3>5. p \in Pids /\ heap[x].stat[g] \in Codes
      BY <1>0, <2>1, <3>2, <3>3, <3>4, MemberType DEF job_done, job_running, job_stopped, Statuses
    <3>6. kid[p].st = "reaped" /\ kid[p].code = heap[x].stat[g]
      BY <1>3, <2>1, <3>2, <3>3, <3>5 DEF Held, Told
    <3> QED BY <3>3, <3>5, <3>6 DEF KidStep
  <2> QED BY <1>1, <2>3, <2>5
<1> QED BY <1>2, <1>3

LEMMA StepRing ==
  ASSUME StatusTame, Base, FramesOK, RingFinished, [Next]_vars
  PROVE  RingFinished'
<1>0. /\ \A p \in Pids : KidStep(p)
      /\ TableOK /\ Held /\ NoSubs
  BY StepKid DEF StatusTame, Base, Exits, Safe
<1>1. ASSUME job_finished' = job_finished
      PROVE  RingFinished'
  <2>1. \A e \in 0..(RingSize - 1) : job_finished[e].pid \in Pids \cup {Nil}
    BY <1>0 DEF TableOK, TableType
  <2> QED BY <1>0, <1>1, <2>1 DEF RingFinished, KidStep
<1>2. CASE Script
  BY <1>1, <1>2 DEF Script, eval_node_bgnd, eval_pipeline, exec_program, exec_program_fails, wait_all, wait_operands, builtin_jobs,
       job_update, builtin_fg, builtin_bg, eval_subshell, table, job_new, ResumeAs
<1>3. CASE Shell
  <2>1. CASE job_fork \/ fdstack_data_eof \/ job_wait_traps \/ job_wait_check \/ waitpid_none \/ waitpid_block
               \/ job_wait_spin \/ job_wait_dangling
    BY <1>1, <2>1 DEF job_fork, fdstack_data_eof, job_wait_traps, job_wait_check, waitpid_none, waitpid_block,
         job_wait_spin, job_wait_dangling, table
  <2>2. CASE exec_program_return \/ fg_return \/ wait_next \/ wait_return \/ job_clean_end \/ body_end
               \/ job_discard_end \/ trap_run_pending
    BY <1>1, <2>2, Zenon DEF exec_program_return, fg_return, wait_next, wait_return, job_clean_end, body_end,
         job_discard_end, trap_run_pending, table
  <2>3. CASE job_fork_parent \/ exec_program_parent \/ job_resume_stopped \/ waitpid_reap \/ job_wait_scan
    BY <1>1, <2>3, Zenon DEF job_fork_parent, exec_program_parent, job_resume_stopped, waitpid_reap, job_wait_scan,
         job_new, job_signal, table
  <2>4. CASE job_fork_fails
    <3>1. CASE Top.k = "bg"
      <4>1. job_free(Top.j) /\ stack # <<>> /\ Top.pc = "fork"
        BY <2>4, <3>1 DEF job_fork_fails, At
      <4>2. Live(Top.j) => \A i \in 1..heap[Top.j].n : heap[Top.j].pid[i] = Nil
        BY <1>0, <3>1, <4>1, LiveRef DEF Base, StopInv, FreshBg, TableOK
      <4> QED BY <1>0, <4>1, <4>2, RingFree
    <3>2. CASE Top.k # "bg"
      BY <1>1, <2>4, <3>2 DEF job_fork_fails, table
    <3> QED BY <3>1, <3>2
  <2>5. CASE job_wait_finish \/ job_clean
    <3>1. UNCHANGED table \/ \E x : job_free(x) /\ job_done(heap[x])
      BY <2>5 DEF job_wait_finish, job_clean
    <3> QED BY <1>0, <1>1, <3>1, RingFree DEF table
  <2>6. CASE eval_pipeline_return
    <3>1. stack # <<>> /\ Top.k = "pipe" /\ job_free(Top.j)
      BY <2>6 DEF eval_pipeline_return, Running
    <3>2. Live(Top.j) => ~heap[Top.j].bgnd
      BY <3>1, TopStat DEF FrameStat, LaunchStat
    <3> QED BY <1>0, <3>1, <3>2, RingFree
  <2>7. CASE job_discard
    BY <1>0, <2>7, NoSubTop DEF job_discard, At
  <2> QED BY <1>3, <2>1, <2>2, <2>3, <2>4, <2>5, <2>6, <2>7 DEF Shell
<1>4. CASE Kernel
  BY <1>1, <1>4 DEF Kernel, sh_onsig, trap_relay, ChildExit, ChildStop, ChildCont, job_signal, table
<1>5. CASE UNCHANGED vars
  BY <1>1, <1>5 DEF vars, table
<1> QED BY <1>2, <1>3, <1>4, <1>5 DEF Next

-----------------------------------------------------------------------------
(* Calls that do not move *)

LEMMA NoPipe ==
  ASSUME StatusTame, Base, NEW i \in 1..Len(stack), stack[i].k = "pipe"
  PROVE  ~Monitor
<1>1. \E c \in Commands : KindOf(c) = "pipe"
  BY DEF Base, StopInv, Ran
<1>2. "pipe" \in Commands
  BY <1>1 DEF KindOf
<1> QED BY <1>2 DEF StatusTame, StopTame

LEMMA FrameKept ==
  ASSUME StatusTame, Base, Base', CountOK, [Next]_vars,
         NEW g \in Frames, Placed(g), FrameWait(g), FrameWait(g)', FrameStat(g),
         \A r \in Refs : Live(r) /\ Live(r)' /\ ((Owning(g) /\ r = g.j) \/ (g.k = "waitops" /\ g.pc = "next")) => KeepsJob(r),
         g.k = "pipe" => ~Monitor /\ (g.pc = "ret" => job_list' = job_list),
         g.pc = "err" => (trap_signaled => trap_signaled'),
         g.pc = "ret" => job_wait_sig' = job_wait_sig,
         g.pc = "forked" => KidCalm(g.new)
  PROVE  FrameStat(g)'
<1>0. ~PidReuse /\ TableType /\ trap_run_count \in Nat /\ trap_run_count' \in Nat /\ trap_run_count' >= trap_run_count
  BY StepCount DEF StatusTame, Base, Safe, TableOK, FlagType
<1>1. WaitStat(g)'
  <2> SUFFICES ASSUME g.pc \in WaitPcs PROVE WaitStat(g)'
    BY DEF WaitStat
  <2>1. Holding(g) /\ Owning(g)
    BY DEF Holding, Owning
  <2>2. Live(g.j) /\ Live(g.j)' /\ g.j \in Refs
    BY <1>0, <2>1, LiveRef DEF FrameWait
  <2>3. KeepsJob(g.j)
    BY <2>1, <2>2
  <2>4. PICK r \in Refs : r = g.j
    BY <2>2
  <2>5. /\ Filled(r)' <=> Filled(r)
        /\ Filled(r) /\ Ended(r) => Ended(r)'
        /\ heap'[r].n = heap[r].n
        /\ Filled(r) => \A i \in 1..heap[r].n : heap[r].stat[i] \in Codes => heap'[r].stat[i] = heap[r].stat[i]
    BY <1>0, <2>2, <2>3, <2>4, EndedKept
  <2>6. g.spins \in Int /\ g.t0 \in Nat /\ MaxSpins \in Nat /\ heap[r].n \in Nat
    BY <1>0, SizeType, JobConstants DEF Frames
  <2>7. /\ Tries(g) >= MaxSpins => Tries(g)' >= MaxSpins
        /\ Tries(g) > MaxSpins => Tries(g)' > MaxSpins
    BY <1>0, <2>6 DEF Tries
  <2>8. WaitStat(g)
    BY DEF FrameStat
  <2>9. Filled(g.j)' = Filled(r)' /\ Ended(g.j)' = Ended(r)'
    BY <2>4
  <2> SUFFICES ASSUME Filled(r)
               PROVE  /\ Tries(g)' >= MaxSpins \/ (g.pc \in {"top", "chk", "scan"} /\ Ended(r)') \/ g.pc = "fin"
                      /\ g.pc = "err" => trap_signaled' \/ Ended(r)'
                      /\ g.pc \in {"rechk", "spin"} => Tries(g)' > MaxSpins \/ Ended(r)'
                      /\ g.pc = "fin" /\ heap'[r].n > 0 => g.st = STOP \/ (g.st = heap'[r].stat[heap'[r].n] /\ g.st \in Codes)
    BY <2>4, <2>5, <2>9 DEF WaitStat
  <2>10. /\ Tries(g) >= MaxSpins \/ (g.pc \in {"top", "chk", "scan"} /\ Ended(r)) \/ g.pc = "fin"
         /\ g.pc = "err" => trap_signaled \/ Ended(r)
         /\ g.pc \in {"rechk", "spin"} => Tries(g) > MaxSpins \/ Ended(r)
         /\ g.pc = "fin" /\ heap[r].n > 0 => g.st = STOP \/ (g.st = heap[r].stat[heap[r].n] /\ g.st \in Codes)
    BY <2>4, <2>8 DEF WaitStat
  <2>11. heap[r].n > 0 => heap[r].n \in 1..heap[r].n
    BY <2>6
  <2> QED BY <2>5, <2>7, <2>10, <2>11
<1>2. OpStat(g)'
  <2> SUFFICES ASSUME g.k = "waitops", g.todo # <<>> PROVE OpStat(g)'
    BY DEF OpStat
  <2> DEFINE o == Head(g.todo)
  <2>1. OpStat(g)
    BY DEF FrameStat
  <2>2. ASSUME o.spec.by = "pid", g.pc \in {"next"} \cup WaitPcs, o.j # Nil
        PROVE  heap'[o.j].n = 1 /\ heap'[o.j].pid[1] = o.spec.arg
    <3>1. Live(o.j) /\ Live(o.j)' /\ ((Owning(g) /\ o.j = g.j) \/ g.pc = "next")
      BY <2>1, <2>2 DEF OpStat, FrameWait, Holding, Owning
    <3>2. KeepsJob(o.j)
      BY <1>0, <3>1, LiveRef
    <3> QED BY <2>1, <2>2, <3>2 DEF OpStat, KeepsJob
  <2>3. ASSUME o.spec.by = "pid", g.pc = "ret", ~job_wait_sig'
        PROVE  g.st = STOP \/ (kid'[o.spec.arg].st = "reaped" /\ kid'[o.spec.arg].code = g.st)
    <3>1. o.spec.arg \in Pids /\ (g.st = STOP \/ (kid[o.spec.arg].st = "reaped" /\ kid[o.spec.arg].code = g.st))
      BY <2>1, <2>3 DEF OpStat
    <3>2. KidStep(o.spec.arg)
      BY <1>0, <3>1, StepKid DEF Base
    <3> QED BY <3>1, <3>2 DEF KidStep
  <2> QED BY <2>1, <2>2, <2>3 DEF OpStat
<1>3. LaunchStat(g)'
  <2>0. LaunchStat(g)
    BY DEF FrameStat
  <2>1. g.k = "pipe" /\ Live(g.j)' => ~heap'[g.j].bgnd
    <3> SUFFICES ASSUME g.k = "pipe", Live(g.j)' PROVE ~heap'[g.j].bgnd
      OBVIOUS
    <3>1. Owning(g)
      BY DEF Placed, PcsOf, Owning, Holding, Waits, Subs
    <3>2. Live(g.j)
      <4>1. CASE g.pc = "ret"
        BY <4>1 DEF Live
      <4>2. CASE g.pc # "ret"
        BY <3>1, <4>2 DEF Owning, FrameWait
      <4> QED BY <4>1, <4>2
    <3>3. KeepsJob(g.j)
      BY <1>0, <3>1, <3>2, LiveRef
    <3> QED BY <2>0, <3>2, <3>3 DEF LaunchStat, KeepsJob
  <2>2. g.k = "bg" /\ g.pc \in {"fork", "forked"} => heap'[g.j].n = 1
    <3> SUFFICES ASSUME g.k = "bg", g.pc \in {"fork", "forked"} PROVE heap'[g.j].n = 1
      OBVIOUS
    <3>1. Owning(g) /\ Live(g.j) /\ Live(g.j)'
      BY DEF Owning, Holding, FrameWait
    <3>2. KeepsJob(g.j)
      BY <1>0, <3>1, LiveRef
    <3> QED BY <2>0, <3>2 DEF LaunchStat, KeepsJob
  <2>3. g.pc = "forked" => ~kid'[g.new].bg
    BY <2>0 DEF LaunchStat, KidCalm
  <2> QED BY <2>1, <2>2, <2>3 DEF LaunchStat
<1> QED BY <1>1, <1>2, <1>3 DEF FrameStat

(* A call with others on top of it, or about to have one.                  *)
LEMMA RestKept ==
  ASSUME StatusTame, Base, Base', StatInv, [Next]_vars,
         NEW i \in 1..Len(stack), NEW g, g = stack[i], g.pc \in Resting, FrameWait(g)'
  PROVE  FrameStat(g)'
<1>1. /\ g \in Frames /\ Placed(g) /\ FrameWait(g) /\ FrameStat(g) /\ CountOK
      /\ Len(stack) \in 1..Len(stack) /\ stack # <<>> /\ StackOK(stack)
  BY DEF Base, Safe, StackOK, Places, WaitInv, StatInv, FramesOK
<1>2. g.k = "pipe" => ~Monitor
  BY NoPipe
<1>3. g.pc \notin {"ret", "err", "forked", "next"}
  BY DEF Resting
<1>4. ASSUME NEW r \in Refs, Live(r), Live(r)', Owning(g), r = g.j
      PROVE  KeepsJob(r)
  <2>1. Holding(g)
    BY <1>3, <1>4 DEF Owning
  <2>2. ASSUME job_fork_parent, r = Top.j
        PROVE  FALSE
    <3>1. Top.pc = "forked" /\ Top.k \in {"bg", "pipe"}
      BY <2>2 DEF job_fork_parent, At
    <3>2. Owning(Top)
      BY <3>1 DEF Owning, Holding
    <3>3. i # Len(stack)
      BY <1>3, <3>1 DEF Top
    <3>4. i < Len(stack)
      BY <1>1, <3>3
    <3>5. PairWait(g, Top)
      BY <1>1, <3>4 DEF Base, WaitInv, Top
    <3> QED BY <1>4, <2>1, <2>2, <3>2, <3>5 DEF PairWait
  <2> QED BY <1>4, <2>2, StepJobs DEF StatusTame, Base, JobStep
<1> QED BY <1>1, <1>2, <1>3, <1>4, FrameKept

-----------------------------------------------------------------------------
(* What a step has to show *)

LEMMA TrapStat == FrameStat(TrapBody)'
<1>1. TrapBody' = TrapBody
  BY DEF TrapBody, Call
<1>2. TrapBody.k = "trap" /\ TrapBody.pc = "body"
  BY TrapPlaced, ZenonT(30)
<1> QED BY <1>1, <1>2 DEF FrameStat, WaitStat, OpStat, LaunchStat, WaitPcs

LEMMA OntoStat ==
  ASSUME StatusTame, Base, Base', StatInv, [Next]_vars, NEW n, NEW f, Onto(n, f),
         (stack # <<>> /\ n = Len(stack) - 1) \/ (n = Len(stack) /\ (stack = <<>> \/ At("body"))),
         FrameStat(f)'
  PROVE  FramesOK'
<1>0. StackOK(stack) /\ Len(stack) \in Nat /\ n \in 0..Len(stack)
  BY DEF Base, Safe, StackOK, Onto, Keeps
<1> SUFFICES ASSUME NEW i \in 1..Len(stack') PROVE FrameStat(stack[i])'
  BY DEF FramesOK
<1>1. PICK g : g = stack'[i]
  OBVIOUS
<1>2. FrameStat(g)'
  <2>1. CASE i \in 1..n /\ Below(n, g) /\ g = stack[i]
    <3>1. g.pc \in Resting
      BY <1>0, <2>1, BelowRests, BelowBody
    <3>2. FrameWait(g)'
      <4>1. FrameWait(stack[i])'
        BY DEF Base, WaitInv
      <4> QED BY <1>1, <4>1 DEF FrameWait, Live
    <3>3. i \in 1..Len(stack)
      BY <1>0, <2>1
    <3> QED BY <2>1, <3>1, <3>2, <3>3, RestKept
  <2>2. CASE g = f
    BY <2>2
  <2>3. CASE g = TrapBody
    <3>1. TrapBody' = TrapBody
      BY SMTT(20) DEF TrapBody, Call
    <3> QED BY <2>3, <3>1, TrapStat DEF FrameStat, WaitStat, OpStat, LaunchStat, Filled, Ended, Tries, Live
  <2> QED BY <1>0, <1>1, <2>1, <2>2, <2>3, OntoAt
<1> QED BY <1>1, <1>2 DEF FrameStat, WaitStat, OpStat, LaunchStat, Filled, Ended, Tries, Live

LEMMA OffStat ==
  ASSUME StatusTame, Base, Base', StatInv, [Next]_vars, stack # <<>>, Off(Len(stack) - 1)
  PROVE  FramesOK'
<1>0. StackOK(stack) /\ Len(stack) \in Nat
  BY DEF Base, Safe, StackOK
<1> SUFFICES ASSUME NEW i \in 1..Len(stack') PROVE FrameStat(stack[i])'
  BY DEF FramesOK
<1>1. PICK g : g = stack'[i]
  OBVIOUS
<1>2. i \in 1..(Len(stack) - 1) /\ Below(Len(stack) - 1, g) /\ g = stack[i]
  BY <1>0, <1>1, OffAt
<1>3. g.pc \in Resting /\ i \in 1..Len(stack)
  BY <1>0, <1>2, BelowRests
<1>4. FrameWait(g)'
  <2>1. FrameWait(stack[i])'
    BY DEF Base, WaitInv
  <2> QED BY <1>1, <2>1 DEF FrameWait, Live
<1>5. FrameStat(g)'
  BY <1>2, <1>3, <1>4, RestKept, SMTT(20)
<1> QED BY <1>1, <1>5 DEF FrameStat, WaitStat, OpStat, LaunchStat, Filled, Ended, Tries, Live

(* The chain stays as it is, and so do the members of the jobs.            *)
LEMMA StayStat ==
  ASSUME StatusTame, Base, Base', StatInv, [Next]_vars, stack' = stack, job_list' = job_list,
         \A r \in Refs : KeepsJob(r), trap_signaled => trap_signaled', job_wait_sig' = job_wait_sig,
         \A p \in Pids : KidCalm(p)
  PROVE  FramesOK'
<1> SUFFICES ASSUME NEW i \in 1..Len(stack') PROVE FrameStat(stack[i])'
  BY DEF FramesOK
<1>1. PICK g : g = stack'[i]
  OBVIOUS
<1>2. g = stack[i] /\ i \in 1..Len(stack) /\ Len(stack) \in Nat
  BY <1>1 DEF Base, Safe, StackOK
<1>3. g \in Frames /\ Placed(g) /\ FrameWait(g) /\ FrameStat(g) /\ CountOK
  BY <1>2 DEF Base, Safe, StackOK, Places, WaitInv, StatInv, FramesOK
<1>4. FrameWait(g)'
  <2>1. FrameWait(stack[i])'
    BY DEF Base, WaitInv
  <2> QED BY <1>1, <2>1 DEF FrameWait, Live
<1>5. g.pc = "forked" => g.new \in Pids
  <2> SUFFICES ASSUME g.pc = "forked" PROVE g.new \in Pids
    OBVIOUS
  <2>1. i = Len(stack)
    BY <1>2 DEF Base, Safe, StackOK, StackShape, Resting
  <2> QED BY <1>2, <2>1 DEF Base, Exits, ForkOK, Fresh, Top
<1>6. FrameStat(g)'
  BY <1>2, <1>3, <1>4, <1>5, NoPipe, FrameKept
<1> QED BY <1>1, <1>6 DEF FrameStat, WaitStat, OpStat, LaunchStat, Filled, Ended, Tries, Live

-----------------------------------------------------------------------------
(* job_wait *)

LEMMA NoCmdsub ==
  ASSUME NoSubs, Base
  PROVE  ~InCmdsub
BY DEF NoSubs, Subs, Base, StopInv, Ran, KindOf, InCmdsub

(* The call that a step leaves at the place of the top one.                *)
LEMMA NewTop ==
  ASSUME Base, Base', stack # <<>>, NEW f, Onto(Len(stack) - 1, f)
  PROVE  FrameWait(f)'
<1>1. PICK i : i = Len(stack)
  OBVIOUS
<1>2. i \in 1..Len(stack') /\ stack'[i] = f
  BY <1>1 DEF Onto, Keeps, Base, Safe, StackOK
<1>3. FrameWait(stack[i])'
  BY <1>2 DEF Base, WaitInv
<1> QED BY <1>2, <1>3 DEF FrameWait, Live

(* The job of the wait on top.                                             *)
LEMMA TopJob ==
  ASSUME StatusTame, Base, Base', StatInv, [Next]_vars, stack # <<>>, Top.pc \in WaitPcs,
         NEW r, r = Top.j, Live(r)'
  PROVE  /\ r \in Refs /\ Live(r) /\ KeepsJob(r) /\ heap[r] \in Jobs /\ heap[r].n \in Nat
         /\ Filled(r)' <=> Filled(r)
         /\ Filled(r) /\ Ended(r) => Ended(r)'
         /\ heap'[r].n = heap[r].n
         /\ Filled(r) => \A i \in 1..heap[r].n : heap[r].stat[i] \in Codes => heap'[r].stat[i] = heap[r].stat[i]
<1>0. FrameWait(Top) /\ TableType
  BY TopStat DEF StatInv, Base, Safe, TableOK
<1>1. Live(r) /\ r \in Refs
  BY <1>0, LiveRef DEF FrameWait, Holding
<1>2. ~job_fork_parent
  BY DEF job_fork_parent, At, WaitPcs
<1>3. KeepsJob(r)
  BY <1>1, <1>2, StepJobs DEF StatusTame, Base, JobStep
<1>4. heap[r] \in Jobs /\ heap[r].n \in Nat
  BY <1>0, <1>1, SizeType DEF TableType
<1> QED BY <1>1, <1>3, <1>4, EndedKept DEF StatusTame

(* A move within job_wait.                                                 *)
LEMMA WaitMoves ==
  ASSUME StatusTame, Base, Base', StatInv, [Next]_vars, stack # <<>>, Top.pc \in WaitPcs,
         NEW f, Onto(Len(stack) - 1, f), f.k = Top.k, f.j = Top.j, f.todo = Top.todo, f.pc \in WaitPcs,
         Live(f.j)' => WaitStat(f)'
  PROVE  FramesOK'
<1>1. Live(f.j)'
  BY NewTop DEF FrameWait, Holding
<1>2. PICK r : r = Top.j
  OBVIOUS
<1>3. KeepsJob(r) /\ Live(r)
  BY <1>1, <1>2, TopJob
<1>4. /\ OpStat(Top) /\ LaunchStat(Top) /\ Placed(Top) /\ Len(stack) \in 1..Len(stack)
  BY TopStat DEF StatInv, FrameStat, Base, Safe, StackOK
<1>5. OpStat(f)'
  BY <1>2, <1>3, <1>4 DEF OpStat, KeepsJob, WaitPcs
<1>6. f.k # "bg" /\ (f.k = "pipe" => ~Monitor)
  BY <1>4, NoPipe DEF Placed, PcsOf, WaitPcs, Waits, Subs, Top
<1>7. LaunchStat(f)'
  BY <1>2, <1>3, <1>4, <1>6 DEF LaunchStat, KeepsJob, WaitPcs
<1>8. FrameStat(f)'
  BY <1>1, <1>5, <1>7 DEF FrameStat
<1> QED BY <1>8, OntoStat

LEMMA WaitTypes ==
  ASSUME StatusTame, Base, StatInv, stack # <<>>
  PROVE  /\ Top \in Frames /\ StackOK(stack) /\ WaitStat(Top) /\ Top.spins \in Int /\ Top.t0 \in Nat
         /\ MaxSpins \in Nat /\ MaxSigs \in Nat /\ MaxSigs + 2 <= MaxSpins
         /\ trap_run_count \in Nat /\ trap_run_count <= MaxSigs
<1>1. Top \in Frames /\ StackOK(stack) /\ FrameStat(Top)
  BY TopStat DEF StatInv
<1>2. Top.spins \in Int /\ Top.t0 \in Nat
  BY <1>1 DEF Frames
<1> QED BY <1>1, <1>2, JobConstants DEF StatusTame, Base, Safe, FlagType, StatInv, CountOK, FrameStat

(* A blocked waitpid() is woken by a signal.                               *)
LEMMA WakeStat ==
  ASSUME StatusTame, Base, Base', StatInv, [Next]_vars, At("blocked"), trap_signaled',
         stack' = Goto([Top EXCEPT !.pc = "err"])
  PROVE  FramesOK'
<1>0. stack # <<>> /\ Top.pc = "blocked" /\ Top.pc \in WaitPcs
  BY DEF At, WaitPcs
<1>1. /\ Top \in Frames /\ StackOK(stack) /\ WaitStat(Top) /\ Top.spins \in Int /\ Top.t0 \in Nat
      /\ MaxSpins \in Nat /\ trap_run_count \in Nat
  BY <1>0, WaitTypes
<1>2. PICK f : f = [Top EXCEPT !.pc = "err"]
  OBVIOUS
<1>3. f.k = Top.k /\ f.j = Top.j /\ f.todo = Top.todo /\ f.pc = "err" /\ f.spins = Top.spins /\ f.t0 = Top.t0
  BY <1>1, <1>2 DEF Frames
<1>4. Onto(Len(stack) - 1, f)
  BY <1>0, <1>1, <1>2, OntoGoto
<1>5. trap_run_count' \in Nat /\ trap_run_count' >= trap_run_count
  BY StepCount DEF Base, StatInv, Safe, FlagType
<1>6. ASSUME Live(f.j)'
      PROVE  WaitStat(f)'
  <2>1. PICK r : r = Top.j
    OBVIOUS
  <2>2. Filled(r)' <=> Filled(r)
    BY <1>0, <1>3, <1>6, <2>1, TopJob
  <2>3. Filled(r) => Tries(Top) >= MaxSpins
    BY <1>0, <1>1, <2>1 DEF WaitStat
  <2>4. Filled(r) => Tries(f)' >= MaxSpins
    BY <1>1, <1>3, <1>5, <2>3 DEF Tries
  <2> QED BY <1>3, <2>1, <2>2, <2>4 DEF WaitStat
<1> QED BY <1>0, <1>3, <1>4, <1>6, WaitMoves DEF WaitPcs

LEMMA TrapsStat ==
  ASSUME StatusTame, Base, Base', StatInv, [Next]_vars, job_wait_traps
  PROVE  FramesOK'
<1>0. stack # <<>> /\ Top.pc \in {"top", "err"} /\ Top.pc \in WaitPcs
  BY DEF job_wait_traps, Waiting, At, WaitPcs
<1>1. /\ Top \in Frames /\ StackOK(stack) /\ WaitStat(Top) /\ Top.spins \in Int /\ Top.t0 \in Nat
      /\ MaxSpins \in Nat /\ trap_run_count \in Nat
  BY <1>0, WaitTypes
<1>2. PICK f : f = [Top EXCEPT !.pc = IF Top.pc = "top" THEN "chk" ELSE "rechk"]
  OBVIOUS
<1>3. /\ f.k = Top.k /\ f.j = Top.j /\ f.todo = Top.todo /\ f.spins = Top.spins /\ f.t0 = Top.t0
      /\ f.pc = IF Top.pc = "top" THEN "chk" ELSE "rechk"
      /\ f \in Frames
  BY <1>0, <1>1, <1>2 DEF Frames, Pcs, WaitPcs
<1>4. IF trap_signaled THEN stack' = Append(Goto(f), TrapBody) /\ trap_run_count' = trap_run_count + 1
      ELSE stack' = Goto(f) /\ trap_run_count' = trap_run_count
  BY <1>1, <1>2 DEF job_wait_traps, RunTrap, Step, TrapBody, traps, Frames
<1>5. FrameOK(f)
  BY <1>0, <1>3, TopStat DEF StatInv, FrameOK
<1>6. Onto(Len(stack) - 1, f)
  BY <1>0, <1>1, <1>4, <1>5, OntoGoto, OntoTrap
<1>7. ASSUME Live(f.j)'
      PROVE  WaitStat(f)'
  <2>1. PICK r : r = Top.j
    OBVIOUS
  <2>2. (Filled(r)' <=> Filled(r)) /\ (Filled(r) /\ Ended(r) => Ended(r)')
    BY <1>0, <1>3, <1>7, <2>1, TopJob
  <2>3. Filled(r) => /\ Tries(Top) >= MaxSpins \/ (Top.pc = "top" /\ Ended(r))
                     /\ Top.pc = "err" => trap_signaled \/ Ended(r)
    BY <1>0, <1>1, <2>1 DEF WaitStat
  <2>4. /\ Tries(Top) >= MaxSpins => Tries(f)' >= MaxSpins
        /\ Tries(Top) >= MaxSpins /\ trap_signaled => Tries(f)' > MaxSpins
    BY <1>1, <1>3, <1>4 DEF Tries
  <2> QED BY <1>0, <1>3, <2>1, <2>2, <2>3, <2>4 DEF WaitStat
<1>8. f.pc \in WaitPcs
  BY <1>3 DEF WaitPcs
<1> QED BY <1>0, <1>3, <1>6, <1>7, <1>8, WaitMoves

(* job_wait returns.                                                       *)
LEMMA WaitReturns ==
  ASSUME StatusTame, Base, Base', StatInv, [Next]_vars, stack # <<>>, Top.pc \in WaitPcs,
         NEW f, Onto(Len(stack) - 1, f), f.k = Top.k, f.j = Top.j, f.todo = Top.todo, f.pc = "ret",
         f.k = "waitops" /\ f.todo # <<>> /\ Head(f.todo).spec.by = "pid" /\ ~job_wait_sig' =>
           f.st = STOP \/ (kid'[Head(f.todo).spec.arg].st = "reaped" /\ kid'[Head(f.todo).spec.arg].code = f.st)
  PROVE  FramesOK'
<1>1. /\ OpStat(Top) /\ LaunchStat(Top) /\ Placed(Top) /\ Len(stack) \in 1..Len(stack)
  BY TopStat DEF StatInv, FrameStat, Base, Safe, StackOK
<1>2. OpStat(f)'
  BY <1>1 DEF OpStat, WaitPcs
<1>3. f.k = "pipe" => ~Monitor
  BY <1>1, NoPipe DEF Top
<1>4. PICK r : r = Top.j
  OBVIOUS
<1>5. Live(r)' => Live(r) /\ KeepsJob(r)
  BY <1>4, TopJob
<1>6. LaunchStat(f)'
  BY <1>1, <1>3, <1>4, <1>5 DEF LaunchStat, KeepsJob
<1>7. WaitStat(f)'
  BY DEF WaitStat, WaitPcs
<1> QED BY <1>2, <1>6, <1>7, OntoStat DEF FrameStat

LEMMA CheckStat ==
  ASSUME StatusTame, Base, Base', StatInv, [Next]_vars, job_wait_check
  PROVE  FramesOK'
<1>0. stack # <<>> /\ Top.pc \in {"chk", "rechk"} /\ Top.pc \in WaitPcs
  BY DEF job_wait_check, Waiting, At, WaitPcs
<1>1. Top \in Frames /\ StackOK(stack) /\ WaitStat(Top)
  BY <1>0, WaitTypes
<1>2. CASE job_wait_interruptible /\ trap_run_count # Top.t0
  <2>1. PICK f : f = [Top EXCEPT !.pc = "ret"]
    OBVIOUS
  <2>2. f.k = Top.k /\ f.j = Top.j /\ f.todo = Top.todo /\ f.pc = "ret"
    BY <1>1, <2>1 DEF Frames
  <2>3. stack' = Goto(f) /\ job_wait_sig' = TRUE
    BY <1>2, <2>1 DEF job_wait_check, Step
  <2>4. Onto(Len(stack) - 1, f)
    BY <1>0, <1>1, <2>3, OntoGoto
  <2> QED BY <1>0, <2>2, <2>3, <2>4, WaitReturns
<1>3. CASE ~(job_wait_interruptible /\ trap_run_count # Top.t0)
  <2>1. PICK f : f = [Top EXCEPT !.pc = IF Top.pc = "chk" THEN "scan" ELSE "spin"]
    OBVIOUS
  <2>2. /\ f.k = Top.k /\ f.j = Top.j /\ f.todo = Top.todo /\ f.spins = Top.spins /\ f.t0 = Top.t0
        /\ f.pc = IF Top.pc = "chk" THEN "scan" ELSE "spin"
    BY <1>1, <2>1 DEF Frames
  <2>3. stack' = Goto(f) /\ trap_run_count' = trap_run_count
    BY <1>1, <1>3, <2>1 DEF job_wait_check, Step, Frames
  <2>4. Onto(Len(stack) - 1, f)
    BY <1>0, <1>1, <2>3, OntoGoto
  <2>5. ASSUME Live(f.j)'
        PROVE  WaitStat(f)'
    <3>1. PICK r : r = Top.j
      OBVIOUS
    <3>2. (Filled(r)' <=> Filled(r)) /\ (Filled(r) /\ Ended(r) => Ended(r)')
      BY <1>0, <2>2, <2>5, <3>1, TopJob
    <3>3. Tries(f)' = Tries(Top)
      BY <2>2, <2>3 DEF Tries
    <3>4. Filled(r) => /\ Tries(Top) >= MaxSpins \/ (Top.pc = "chk" /\ Ended(r))
                       /\ Top.pc = "rechk" => Tries(Top) > MaxSpins \/ Ended(r)
      BY <1>0, <1>1, <3>1 DEF WaitStat
    <3> QED BY <1>0, <2>2, <3>1, <3>2, <3>3, <3>4 DEF WaitStat
  <2>6. f.pc \in WaitPcs
    BY <2>2 DEF WaitPcs
  <2> QED BY <1>0, <2>2, <2>4, <2>5, <2>6, WaitMoves
<1> QED BY <1>2, <1>3

(* What a scan of an ended or stopped job comes to.                        *)
LEMMA ScanEnds ==
  ASSUME Base, MembersOK, NEW r \in Refs, Live(r), NEW s, heap[r].n > 0,
         job_stopped(heap[r]) \/ ~job_running(heap[r])
  PROVE  Scanned(heap[r], s) = STOP \/ (Scanned(heap[r], s) = heap[r].stat[heap[r].n] /\ heap[r].stat[heap[r].n] \in Codes)
<1> DEFINE n == heap[r].n
           known == {i \in 1..n : heap[r].stat[i] # RUN}
<1>0. heap[r] \in Jobs /\ n \in Nat /\ n \in 1..n /\ \A i \in 1..n : heap[r].stat[i] \in Statuses
  <2>1. TableType
    BY DEF Base, Safe, TableOK
  <2>2. heap[r] \in Jobs /\ n \in Nat
    BY <2>1, SizeType DEF TableType
  <2> QED BY <2>1, <2>2, MemberType
<1>1. CASE job_stopped(heap[r])
  <2>1. Monitor
    BY <1>1 DEF job_stopped, Base, StopInv, StatsOK
  <2>2. n = 1
    BY <1>0, <2>1 DEF MembersOK
  <2>3. heap[r].stat[1] = STOP /\ STOP # RUN
    BY <1>1, <2>2 DEF job_stopped, STOP, RUN
  <2>4. known # {} /\ known \in SUBSET (0..n)
    BY <1>0, <2>2, <2>3
  <2>5. Scanned(heap[r], s) = heap[r].stat[Greatest(known)]
    BY <2>4 DEF Scanned
  <2>6. Greatest(known) \in known
    BY <1>0, <2>4, GreatestOf
  <2>7. Greatest(known) = 1
    BY <2>2, <2>6
  <2> QED BY <2>3, <2>5, <2>7
<1>2. CASE ~job_stopped(heap[r]) /\ ~job_running(heap[r])
  <2>1. \A i \in 1..n : heap[r].stat[i] \in Codes /\ heap[r].stat[i] # RUN
    BY <1>0, <1>2 DEF job_stopped, job_running, Statuses
  <2>2. known = 1..n /\ known # {} /\ known \in SUBSET (0..n)
    BY <1>0, <2>1
  <2>3. Scanned(heap[r], s) = heap[r].stat[Greatest(known)]
    BY <2>2 DEF Scanned
  <2>4. Greatest(known) \in known /\ \A h \in known : h <= Greatest(known)
    BY <1>0, <2>2, GreatestOf
  <2>5. PICK g : g = Greatest(known)
    OBVIOUS
  <2>6. g \in 1..n /\ n <= g
    BY <1>0, <2>2, <2>4, <2>5
  <2>7. g = n
    BY <1>0, <2>6
  <2> QED BY <1>0, <2>1, <2>3, <2>5, <2>7
<1> QED BY <1>1, <1>2

LEMMA ScanStat ==
  ASSUME StatusTame, Base, Base', StatInv, [Next]_vars, job_wait_scan
  PROVE  FramesOK'
<1>0. stack # <<>> /\ Top.pc = "scan" /\ Top.pc \in WaitPcs
  BY DEF job_wait_scan, Waiting, At, WaitPcs
<1>1. Top \in Frames /\ StackOK(stack) /\ WaitStat(Top)
  BY <1>0, WaitTypes
<1>2. ~InCmdsub
  BY NoCmdsub DEF StatusTame
<1>3. PICK r : r = Top.j
  OBVIOUS
<1> DEFINE ends == job_stopped(heap[r]) \/ ~job_running(heap[r])
<1>4. PICK f : f = [[Top EXCEPT !.st = Scanned(heap[r], Top.st)] EXCEPT !.pc = IF ends THEN "fin" ELSE "call"]
  OBVIOUS
<1>5. /\ f.k = Top.k /\ f.j = Top.j /\ f.todo = Top.todo /\ f.spins = Top.spins /\ f.t0 = Top.t0
      /\ f.pc = (IF ends THEN "fin" ELSE "call") /\ f.st = Scanned(heap[r], Top.st)
  <2>1. PICK g, q : g = Scanned(heap[r], Top.st) /\ q = IF ends THEN "fin" ELSE "call"
    OBVIOUS
  <2>2. f = [[Top EXCEPT !.st = g] EXCEPT !.pc = q]
    BY <1>4, <2>1
  <2>3. f.k = Top.k /\ f.j = Top.j /\ f.todo = Top.todo /\ f.spins = Top.spins /\ f.t0 = Top.t0 /\ f.pc = q /\ f.st = g
    BY <1>1, <2>2 DEF Frames
  <2> QED BY <2>1, <2>3
<1>6. stack' = Goto(f) /\ heap' = heap /\ trap_run_count' = trap_run_count
  <2>1. ({i \in 1..heap[r].n : heap[r].stat[i] = STOP} # {}) <=> job_stopped(heap[r])
    BY DEF job_stopped
  <2> HIDE DEF ends
  <2>2. ends <=> ({i \in 1..heap[r].n : heap[r].stat[i] = STOP} # {} \/ ~job_running(heap[r]))
    BY <2>1 DEF ends
  <2> QED BY <1>2, <1>3, <1>4, <2>2 DEF job_wait_scan, Step, traps
<1>7. Onto(Len(stack) - 1, f)
  BY <1>0, <1>1, <1>6, OntoGoto
<1>8. ASSUME Live(f.j)'
      PROVE  WaitStat(f)'
  <2>1. r \in Refs /\ Live(r) /\ (Filled(r)' <=> Filled(r))
    BY <1>0, <1>3, <1>5, <1>8, TopJob
  <2>2. CASE ends
    <3>1. heap'[r].n > 0 => f.st = STOP \/ (f.st = heap'[r].stat[heap'[r].n] /\ f.st \in Codes)
      BY <1>5, <1>6, <2>1, <2>2, ScanEnds DEF StatInv
    <3> HIDE DEF ends
    <3> QED BY <1>3, <1>5, <2>2, <3>1 DEF WaitStat
  <2>3. CASE ~ends
    <3>1. ~Ended(r)
      BY <2>3, CodesApart DEF job_running, Ended
    <3>2. Tries(f)' = Tries(Top)
      BY <1>5, <1>6 DEF Tries
    <3>3. Filled(r) => Tries(Top) >= MaxSpins
      BY <1>0, <1>1, <1>3, <3>1 DEF WaitStat
    <3> HIDE DEF ends
    <3> QED BY <1>3, <1>5, <2>1, <2>3, <3>2, <3>3 DEF WaitStat
  <2> QED BY <2>2, <2>3
<1>9. f.pc \in WaitPcs
  BY <1>5 DEF WaitPcs
<1> QED BY <1>0, <1>5, <1>7, <1>8, <1>9, WaitMoves

LEMMA ReapStat ==
  ASSUME StatusTame, Base, Base', StatInv, [Next]_vars, waitpid_reap
  PROVE  FramesOK'
<1>0. stack # <<>> /\ Top.pc \in {"call", "blocked"} /\ Top.pc \in WaitPcs
  BY DEF waitpid_reap, Waiting, At, WaitPcs
<1>1. Top \in Frames /\ StackOK(stack) /\ WaitStat(Top)
  BY <1>0, WaitTypes
<1>2. PICK f, s : f = [Top EXCEPT !.pc = "top", !.st = s] /\ stack' = Goto(f)
  BY DEF waitpid_reap, Step
<1>3. f.k = Top.k /\ f.j = Top.j /\ f.todo = Top.todo /\ f.spins = Top.spins /\ f.t0 = Top.t0 /\ f.pc = "top"
  BY <1>1, <1>2 DEF Frames
<1>4. Onto(Len(stack) - 1, f)
  BY <1>0, <1>1, <1>2, OntoGoto
<1>5. ASSUME Live(f.j)'
      PROVE  WaitStat(f)'
  <2>1. PICK r : r = Top.j
    OBVIOUS
  <2>2. Filled(r)' <=> Filled(r)
    BY <1>0, <1>3, <1>5, <2>1, TopJob
  <2>3. Filled(r) => Tries(Top) >= MaxSpins
    BY <1>0, <1>1, <2>1 DEF WaitStat
  <2>4. Tries(f)' = Tries(Top)
    BY <1>3 DEF Tries, waitpid_reap, traps
  <2> QED BY <1>3, <2>1, <2>2, <2>3, <2>4 DEF WaitStat
<1>6. f.pc \in WaitPcs
  BY <1>3 DEF WaitPcs
<1> QED BY <1>0, <1>3, <1>4, <1>5, <1>6, WaitMoves

LEMMA NoneBlockStat ==
  ASSUME StatusTame, Base, Base', StatInv, [Next]_vars, waitpid_none \/ waitpid_block
  PROVE  FramesOK'
<1>0. stack # <<>> /\ Top.pc \in {"call", "blocked"} /\ Top.pc \in WaitPcs
  BY DEF waitpid_none, waitpid_block, Waiting, At, WaitPcs
<1>1. Top \in Frames /\ StackOK(stack) /\ WaitStat(Top)
  BY <1>0, WaitTypes
<1>2. PICK f, q : f = [Top EXCEPT !.pc = q] /\ q \in {"err", "blocked"} /\ stack' = Goto(f) /\ (q = "err" => waitpid_none)
  BY DEF waitpid_none, waitpid_block, Step
<1>3. f.k = Top.k /\ f.j = Top.j /\ f.todo = Top.todo /\ f.spins = Top.spins /\ f.t0 = Top.t0 /\ f.pc = q
  BY <1>1, <1>2 DEF Frames
<1>4. Onto(Len(stack) - 1, f)
  BY <1>0, <1>1, <1>2, OntoGoto
<1>5. ASSUME Live(f.j)'
      PROVE  WaitStat(f)'
  <2>1. PICK r : r = Top.j
    OBVIOUS
  <2>2. r \in Refs /\ Live(r) /\ heap[r] \in Jobs /\ (Filled(r)' <=> Filled(r)) /\ (Filled(r) /\ Ended(r) => Ended(r)')
    BY <1>0, <1>3, <1>5, <2>1, TopJob
  <2>3. Filled(r) => Tries(Top) >= MaxSpins
    BY <1>0, <1>1, <2>1 DEF WaitStat
  <2>4. Tries(f)' = Tries(Top)
    BY <1>3 DEF Tries, waitpid_none, waitpid_block, traps
  <2>5. q = "err" /\ Filled(r) => Ended(r)
    <3> SUFFICES ASSUME q = "err", Filled(r), NEW i \in 1..heap[r].n PROVE heap[r].stat[i] \in Codes
      BY DEF Ended
    <3>1. heap[r].pid[i] \in Pids /\ heap[r].stat[i] \in Statuses /\ heap[r].pid[i] # Nil
      BY <2>2, MemberType DEF Filled, Base, Safe, TableOK
    <3>2. heap[r].pid[i] \in Group(heap[r])
      BY <3>1 DEF Group
    <3>3. ~Exists(heap[r].pid[i])
      BY <1>2, <2>1, <3>2 DEF waitpid_none
    <3>4. Told(r, i)
      BY <2>2 DEF Base, Exits, Held
    <3> QED BY <3>1, <3>3, <3>4 DEF Told, Statuses
  <2> QED BY <1>2, <1>3, <2>1, <2>2, <2>3, <2>4, <2>5 DEF WaitStat
<1>6. f.pc \in WaitPcs
  BY <1>2, <1>3 DEF WaitPcs
<1> QED BY <1>0, <1>3, <1>4, <1>5, <1>6, WaitMoves

LEMMA SpinStat ==
  ASSUME StatusTame, Base, Base', StatInv, [Next]_vars, job_wait_spin
  PROVE  FramesOK'
<1>0. stack # <<>> /\ Top.pc = "spin" /\ Top.pc \in WaitPcs
  BY DEF job_wait_spin, Waiting, At, WaitPcs
<1>1. /\ Top \in Frames /\ StackOK(stack) /\ WaitStat(Top) /\ Top.spins \in Int /\ Top.t0 \in Nat
      /\ MaxSpins \in Nat /\ MaxSigs \in Nat /\ MaxSigs + 2 <= MaxSpins
      /\ trap_run_count \in Nat /\ trap_run_count <= MaxSigs
  BY <1>0, WaitTypes
<1>2. PICK f, q : f = [Top EXCEPT !.spins = Top.spins - 1, !.pc = q] /\ q = (IF Top.spins <= 1 THEN "fin" ELSE "top") /\ stack' = Goto(f)
  BY <1>1 DEF job_wait_spin, Step, Frames
<1>3. /\ f.k = Top.k /\ f.j = Top.j /\ f.todo = Top.todo /\ f.spins = Top.spins - 1 /\ f.t0 = Top.t0 /\ f.pc = q
  <2>1. PICK m : m = Top.spins - 1
    OBVIOUS
  <2>2. f = [Top EXCEPT !.spins = m, !.pc = q]
    BY <1>2, <2>1
  <2> QED BY <1>1, <2>1, <2>2 DEF Frames
<1>4. Onto(Len(stack) - 1, f)
  BY <1>0, <1>1, <1>2, OntoGoto
<1>5. ASSUME Live(f.j)'
      PROVE  WaitStat(f)'
  <2>1. PICK r : r = Top.j
    OBVIOUS
  <2>2. (Filled(r)' <=> Filled(r)) /\ (Filled(r) /\ Ended(r) => Ended(r)')
    BY <1>0, <1>3, <1>5, <2>1, TopJob
  <2>3. Filled(r) => Tries(Top) >= MaxSpins /\ (Tries(Top) > MaxSpins \/ Ended(r))
    BY <1>0, <1>1, <2>1 DEF WaitStat
  <2>4. Tries(Top) >= MaxSpins => ~(Top.spins <= 1)
    BY <1>1 DEF Tries
  <2>5. Tries(Top) > MaxSpins => Tries(f)' >= MaxSpins
    BY <1>1, <1>3 DEF Tries, job_wait_spin, traps
  <2> QED BY <1>2, <1>3, <2>1, <2>2, <2>3, <2>4, <2>5 DEF WaitStat
<1>6. f.pc \in WaitPcs
  BY <1>2, <1>3 DEF WaitPcs
<1> QED BY <1>0, <1>3, <1>4, <1>5, <1>6, WaitMoves

(* What job_wait() returns for the one process of a job.                   *)
LEMMA FinishStat ==
  ASSUME StatusTame, Base, Base', StatInv, [Next]_vars, job_wait_finish
  PROVE  FramesOK'
<1>0. stack # <<>> /\ Top.pc = "fin" /\ Top.pc \in WaitPcs /\ Live(Top.j)
  BY DEF job_wait_finish, Waiting, At, WaitPcs
<1>1. Top \in Frames /\ StackOK(stack) /\ FrameStat(Top)
  BY <1>0, TopStat DEF StatInv
<1>2. PICK f, s : f = [Top EXCEPT !.pc = "ret", !.st = s] /\ s = PipefailStatus(heap[Top.j], Top.st) /\ stack' = Goto(f)
  BY DEF job_wait_finish, Step
<1>3. f.k = Top.k /\ f.j = Top.j /\ f.todo = Top.todo /\ f.pc = "ret" /\ f.st = s
  BY <1>1, <1>2 DEF Frames
<1>4. Onto(Len(stack) - 1, f)
  BY <1>0, <1>1, <1>2, OntoGoto
<1>5. ASSUME f.k = "waitops", f.todo # <<>>, Head(f.todo).spec.by = "pid"
      PROVE  f.st = STOP \/ (kid'[Head(f.todo).spec.arg].st = "reaped" /\ kid'[Head(f.todo).spec.arg].code = f.st)
  <2>1. PICK r, p : r = Top.j /\ p = Head(f.todo).spec.arg
    OBVIOUS
  <2>2. r \in Refs /\ Live(r) /\ TableType
    BY <1>0, <2>1, LiveRef DEF Base, Safe, TableOK
  <2>3. p \in Pids /\ heap[r].n = 1 /\ heap[r].pid[1] = p
    <3>1. OpStat(Top) /\ Top.j # Nil
      BY <1>1, <2>1, <2>2, JobConstants DEF FrameStat
    <3> QED BY <1>0, <1>3, <1>5, <2>1, <3>1 DEF OpStat
  <2>4. p # Nil /\ Filled(r)
    BY <2>3, JobConstants DEF Filled
  <2>5. Top.st = STOP \/ (Top.st = heap[r].stat[1] /\ Top.st \in Codes)
    BY <1>0, <1>1, <2>1, <2>3, <2>4 DEF FrameStat, WaitStat
  <2>6. heap[r].stat[1] \in Codes => kid[p].st = "reaped" /\ kid[p].code = heap[r].stat[1]
    <3>1. Told(r, 1)
      BY <2>2, <2>3 DEF Base, Exits, Held
    <3> QED BY <2>3, <2>4, <3>1 DEF Told
  <2>7. s = Top.st \/ (s = heap[r].stat[1] /\ s \in Codes)
    <3> DEFINE bad == {i \in 1..heap[r].n : heap[r].stat[i] # RUN /\ WaitStatus(heap[r].stat[i]) # 0}
    <3>3. /\ bad = {} \/ job_stopped(heap[r]) => s = Top.st
          /\ s \in {Top.st, heap[r].stat[Greatest(bad)]}
      BY <1>2, <2>1, Zenon DEF PipefailStatus
    <3>4. bad \in SUBSET (0..1) /\ \A i \in bad : i = 1 /\ heap[r].stat[i] # RUN
      BY <2>3
    <3> HIDE DEF bad
    <3>1. CASE bad = {} \/ job_stopped(heap[r])
      BY <3>3, <3>1
    <3>2. CASE bad # {} /\ ~job_stopped(heap[r])
      <4>1. s \in {Top.st, heap[r].stat[Greatest(bad)]}
        BY <3>3
      <4>2. bad \in SUBSET (0..1)
        BY <3>4
      <4>3. Greatest(bad) \in bad
        BY <3>2, <4>2, GreatestOf
      <4>4. Greatest(bad) = 1 /\ heap[r].stat[1] # RUN
        BY <3>4, <4>3
      <4>5. heap[r].stat[1] \in Codes
        BY <2>2, <2>3, <3>2, <4>4, MemberType DEF job_stopped, Statuses
      <4> QED BY <4>1, <4>4, <4>5
    <3> QED BY <3>1, <3>2
  <2>8. kid' = kid
    BY DEF job_wait_finish, kernel
  <2> QED BY <1>3, <2>1, <2>5, <2>6, <2>7, <2>8
<1> QED BY <1>0, <1>3, <1>4, <1>5, WaitReturns

-----------------------------------------------------------------------------
(* Calls that start, go on and return *)

LEMMA IdleStat ==
  ASSUME NEW f, f.pc \notin WaitPcs \cup {"forked"}, f.k \notin {"waitops", "pipe", "bg"}
  PROVE  FrameStat(f)'
BY DEF FrameStat, WaitStat, OpStat, LaunchStat

(* A wait begins with all its retries.                                     *)
LEMMA EnterStat ==
  ASSUME Safe, NEW h \in Frames, h.k # "bg", NEW r, NEW s, NEW f, f = JobWait(h, r, s), trap_run_count' = trap_run_count,
         h.k = "pipe" /\ Live(r)' => ~heap'[r].bgnd, h.k = "waitops" => OpStat(f)'
  PROVE  FrameStat(f)'
<1>1. f.k = h.k /\ f.pc = "top" /\ f.j = r
  BY JobWaitIs
<1>2. f.t0 = trap_run_count /\ f.spins = MaxSpins
  BY DEF JobWait, Frames
<1>3. Tries(f)' = MaxSpins /\ MaxSpins \in Nat
  BY <1>2, JobConstants DEF Tries, Safe, FlagType
<1>4. WaitStat(f)'
  BY <1>1, <1>3 DEF WaitStat
<1>5. LaunchStat(f)'
  BY <1>1 DEF LaunchStat
<1>6. OpStat(f)'
  BY <1>1 DEF OpStat
<1> QED BY <1>4, <1>5, <1>6 DEF FrameStat

LEMMA PushStat ==
  ASSUME StatusTame, Base, Base', StatInv, [Next]_vars, NEW c, Cmd(c), NEW f, stack' = Append(stack, f), FrameStat(f)'
  PROVE  FramesOK'
<1>1. stack = <<>> \/ At("body")
  BY CmdBody
<1>2. Onto(Len(stack), f)
  BY OntoPush DEF Base, Safe
<1> QED BY <1>1, <1>2, OntoStat

LEMMA GotoStat ==
  ASSUME StatusTame, Base, Base', StatInv, [Next]_vars, stack # <<>>, NEW f, stack' = Goto(f), FrameStat(f)'
  PROVE  FramesOK'
<1>1. Onto(Len(stack) - 1, f)
  BY OntoGoto DEF Base, Safe
<1> QED BY <1>1, OntoStat

LEMMA PopStat ==
  ASSUME StatusTame, Base, Base', StatInv, [Next]_vars, stack # <<>>, stack' = Pop(stack)
  PROVE  FramesOK'
BY OffPop, OffStat DEF Base, Safe

-----------------------------------------------------------------------------
(* The kernel's steps, and others that leave the chain alone *)

LEMMA ChildStat ==
  ASSUME StatusTame, Base, Base', StatInv, [Next]_vars, NEW q \in Pids,
         (\E c \in Codes : ChildExit(q, c)) \/ ChildStop(q) \/ ChildCont(q)
  PROVE  FramesOK'
<1>0. KernelType
  BY DEF Base, Safe
<1>1. UNCHANGED <<table, traps, stack>>
  BY DEF ChildExit, ChildStop, ChildCont
<1>2. ASSUME NEW p \in Pids
      PROVE  KidCalm(p)
  <2>1. CASE (\E c \in Codes : ChildExit(q, c)) \/ ChildStop(q)
    <3>1. CASE p = q
      BY <1>0, <2>1, <3>1 DEF ChildExit, ChildStop, KidCalm, KernelType
    <3>2. CASE p # q
      BY <1>0, <2>1, <3>2 DEF ChildExit, ChildStop, KidCalm, KernelType
    <3> QED BY <3>1, <3>2
  <2>2. CASE ChildCont(q)
    BY <1>0, <2>2, KidContinued DEF ChildCont
  <2> QED BY <2>1, <2>2
<1>3. \A r \in Refs : KeepsJob(r)
  BY <1>1 DEF KeepsJob, table
<1> QED BY <1>1, <1>2, <1>3, StayStat DEF table, traps

LEMMA OnsigStat ==
  ASSUME StatusTame, Base, Base', StatInv, [Next]_vars, sh_onsig
  PROVE  FramesOK'
<1>0. KernelType /\ TableOK
  BY DEF Base, Safe
<1>1. CASE At("blocked") /\ trap_signaled
  <2>1. stack' = Goto([Top EXCEPT !.pc = "err"]) /\ trap_signaled'
    BY <1>1 DEF sh_onsig, WakeIf, traps
  <2> QED BY <1>1, <2>1, WakeStat
<1>2. CASE ~(At("blocked") /\ trap_signaled)
  <2>1. stack' = stack /\ UNCHANGED traps
    BY <1>2 DEF sh_onsig, WakeIf
  <2>2. \A p \in Pids : KidCalm(p)
    BY <1>0, KidReaped, KidSame DEF sh_onsig
  <2>3. job_list' = job_list /\ \A r \in Refs : KeepsJob(r)
    <3>1. CASE UNCHANGED table
      BY <3>1 DEF table, KeepsJob
    <3>2. CASE \E p \in Pids : job_signal(p, StatusOf(p))
      BY <1>0, <3>2, SignalKeeps DEF job_signal, table
    <3> QED BY <3>1, <3>2 DEF sh_onsig, table
  <2> QED BY <2>1, <2>2, <2>3, StayStat DEF traps
<1> QED BY <1>1, <1>2

LEMMA RelayStat ==
  ASSUME StatusTame, Base, Base', StatInv, [Next]_vars, trap_relay
  PROVE  FramesOK'
<1>1. CASE At("blocked")
  <2>1. stack' = Goto([Top EXCEPT !.pc = "err"]) /\ trap_signaled'
    BY <1>1 DEF trap_relay, WakeIf
  <2> QED BY <1>1, <2>1, WakeStat
<1>2. CASE ~At("blocked")
  <2>1. stack' = stack /\ UNCHANGED <<kernel, table, job_wait_sig>> /\ trap_signaled'
    BY <1>2 DEF trap_relay, WakeIf
  <2>2. \A p \in Pids : KidCalm(p)
    BY <2>1, KidSame DEF kernel
  <2>3. \A r \in Refs : KeepsJob(r)
    BY <2>1 DEF table, KeepsJob
  <2> QED BY <2>1, <2>2, <2>3, StayStat DEF table
<1> QED BY <1>1, <1>2

LEMMA QuietStat ==
  ASSUME StatusTame, Base, Base', StatInv, [Next]_vars, builtin_bg \/ job_resume_stopped \/ (\E bgnd \in BOOLEAN : exec_program_fails(bgnd)) \/ UNCHANGED vars
  PROVE  FramesOK'
<1>0. KernelType /\ TableOK
  BY DEF Base, Safe
<1>1. UNCHANGED <<stack, job_list, traps>>
  BY DEF builtin_bg, job_resume_stopped, exec_program_fails, vars, ResumeAs, job_signal, table
<1>2. CASE builtin_bg
  <2>1. PICK x \in Resolved \ {Nil} : Monitor /\ ResumeAs(x, TRUE)
    BY <1>2 DEF builtin_bg
  <2>2. x \in Refs
    BY <2>1, ResolvedLive DEF Base
  <2>3. kid' = kid \/ \E S : kid' = Continued(S)
    BY <2>1 DEF ResumeAs
  <2>4. \A p \in Pids : KidCalm(p)
    BY <1>0, <2>3, KidSame, KidContinued
  <2> QED BY <1>0, <1>1, <2>1, <2>2, <2>4, ResumeKeeps, StayStat DEF traps
<1>3. CASE job_resume_stopped
  <2>1. PICK q \in Pids : Reapable(q) /\ job_signal(q, StatusOf(q)) /\ (kid' = Reaped(q) \/ kid' = Continued({q}))
    BY <1>3 DEF job_resume_stopped
  <2>2. \A p \in Pids : KidCalm(p)
    BY <1>0, <2>1, KidReaped, KidContinued
  <2> QED BY <1>0, <1>1, <2>1, <2>2, SignalKeeps, StayStat DEF traps
<1>4. CASE (\E bgnd \in BOOLEAN : exec_program_fails(bgnd)) \/ UNCHANGED vars
  <2>0. UNCHANGED <<kernel, table>>
    BY <1>4 DEF exec_program_fails, vars
  <2>1. (\A p \in Pids : KidCalm(p)) /\ \A r \in Refs : KeepsJob(r)
    BY <2>0, KidSame DEF kernel, table, KeepsJob
  <2> QED BY <1>1, <2>1, StayStat DEF traps
<1> QED BY <1>2, <1>3, <1>4

-----------------------------------------------------------------------------
(* Commands that start *)

LEMMA BgndStat ==
  ASSUME StatusTame, Base, Base', StatInv, [Next]_vars, eval_node_bgnd
  PROVE  FramesOK'
<1>1. PICK r, f : /\ r \in Refs /\ job_new(r, 1, TRUE, FALSE, Nil) /\ Cmd("bg")
                  /\ f = [Call("bg", "fork") EXCEPT !.j = r, !.left = 1] /\ stack' = Append(stack, f)
  BY DEF eval_node_bgnd, Push
<1>2. f.k = "bg" /\ f.pc = "fork" /\ f.j = r
  BY <1>1 DEF Call
<1>3. heap'[r].n = 1
  BY <1>1, NewListed DEF Listed, Base, Safe
<1>4. FrameStat(f)'
  BY <1>2, <1>3 DEF FrameStat, WaitStat, OpStat, LaunchStat, WaitPcs
<1> QED BY <1>1, <1>4, PushStat

LEMMA PipelineStat ==
  ASSUME StatusTame, Base, Base', StatInv, [Next]_vars, NEW n \in 0..MaxProcs, NEW last \in BOOLEAN,
         NEW pipefail \in BOOLEAN, eval_pipeline(n, last, pipefail)
  PROVE  FramesOK'
<1>1. PICK r, pc, f :
        /\ r \in Refs /\ pc \in {"fork", "body"}
        /\ job_new(r, n, FALSE, pipefail, Nil) /\ Cmd("pipe")
        /\ f = [Call("pipe", pc) EXCEPT !.j = r, !.left = n, !.flag = last] /\ stack' = Append(stack, f)
  BY DEF eval_pipeline, Push
<1>2. f.k = "pipe" /\ f.pc = pc /\ f.j = r
  BY <1>1 DEF Call
<1>3. ~heap'[r].bgnd
  <2>1. heap \in [Refs -> Jobs]
    BY DEF Base, Safe, TableOK, TableType
  <2> QED BY <1>1, <2>1 DEF job_new
<1>4. FrameStat(f)'
  BY <1>1, <1>2, <1>3 DEF FrameStat, WaitStat, OpStat, LaunchStat, WaitPcs
<1> QED BY <1>1, <1>4, PushStat

LEMMA ExecStat ==
  ASSUME StatusTame, Base, Base', StatInv, [Next]_vars, NEW bgnd \in BOOLEAN, exec_program(bgnd)
  PROVE  FramesOK'
<1>1. PICK p, f : /\ p \in Pids /\ Forkable(p) /\ kid' = Forked(p)
                  /\ f = [Call("prog", "forked") EXCEPT !.new = p, !.flag = bgnd] /\ stack' = Append(stack, f)
  BY DEF exec_program, Push
<1>2. f.k = "prog" /\ f.pc = "forked" /\ f.new = p
  BY <1>1 DEF Call
<1>3. ~kid'[p].bg
  BY <1>1 DEF Forked, NoKid, Base, Safe, KernelType
<1>4. FrameStat(f)'
  BY <1>2, <1>3 DEF FrameStat, WaitStat, OpStat, LaunchStat, WaitPcs
<1>5. \E c : Cmd(c)
  BY DEF exec_program
<1> QED BY <1>1, <1>4, <1>5, PushStat

LEMMA ListsStat ==
  ASSUME StatusTame, Base, Base', StatInv, [Next]_vars, wait_all \/ builtin_jobs \/ job_update
  PROVE  FramesOK'
<1>1. PICK c, f : Cmd(c) /\ stack' = Append(stack, f)
                  /\ \/ f = Call("wait", "next")
                     \/ f = [Call("jobs", "clean") EXCEPT !.cur = First]
                     \/ f = [Call("update", "clean") EXCEPT !.cur = First]
  BY DEF wait_all, builtin_jobs, job_update, Push
<1>2. f.k \in {"wait", "jobs", "update"} /\ f.pc \in {"next", "clean"}
  BY <1>1 DEF Call
<1>3. FrameStat(f)'
  BY <1>2, IdleStat DEF WaitPcs
<1> QED BY <1>1, <1>3, PushStat

(* The job that has a process.                                             *)
LEMMA FindPid ==
  ASSUME TableOK, NEW spec, spec.by = "pid", job_find(spec) # Nil
  PROVE  \E i \in 1..heap[job_find(spec)].n : heap[job_find(spec)].pid[i] = spec.arg
<1> DEFINE S == {k \in 1..Len(job_list) : Here(job_list[k]) /\ \E i \in 1..heap[job_list[k]].n : heap[job_list[k]].pid[i] = spec.arg}
<1>1. job_find(spec) = FirstHere(S)
  BY DEF job_find, Where
<1>2. S \in SUBSET Nat
  BY DEF TableOK, TableType
<1> HIDE DEF S
<1>3. S # {} /\ FirstHere(S) = job_list[Least(S)]
  BY <1>1 DEF FirstHere
<1>4. Least(S) \in S
  BY <1>2, <1>3, LeastOf
<1>5. PICK k : k = Least(S)
  OBVIOUS
<1>6. k \in S
  BY <1>4, <1>5
<1>7. job_find(spec) = job_list[k]
  BY <1>1, <1>3, <1>5
<1> QED BY <1>6, <1>7 DEF S

LEMMA OperandsStat ==
  ASSUME StatusTame, Base, Base', StatInv, [Next]_vars, NEW specs \in SpecSeqs, wait_operands(specs)
  PROVE  FramesOK'
<1>0. TableOK /\ MembersOK /\ Cmd("waitops") /\ UNCHANGED <<heap, kid>>
  BY DEF wait_operands, Base, Safe, StatInv, table, kernel
<1>1. PICK t, f : t = Looked(specs) /\ f = [Call("waitops", "next") EXCEPT !.todo = t] /\ stack' = Append(stack, f)
  BY DEF wait_operands, Push, Looked
<1>2. f.k = "waitops" /\ f.pc = "next" /\ f.todo = t
  BY <1>1 DEF Call
<1>3. PICK m \in 1..MaxOperands : specs \in [1..m -> Specs]
  BY DEF SpecSeqs
<1>4. m \in Nat /\ m >= 1 /\ Len(specs) = m /\ specs[1] \in Specs
  BY <1>3, JobConstants
<1> DEFINE o(i) == [spec |-> specs[i], j |-> job_find(specs[i])]
<1>5. t = [i \in 1..m |-> o(i)]
  BY <1>1, <1>4 DEF Looked
<1>6. PICK p, x : p = specs[1] /\ x = job_find(specs[1])
  OBVIOUS
<1>7. o(1).spec = p /\ o(1).j = x
  BY <1>6
<1> HIDE DEF o
<1>8. t \in Seq({o(i) : i \in 1..m}) /\ t[1] = o(1) /\ Len(t) = m
  BY <1>4, <1>5
<1>9. Head(t).spec = p /\ Head(t).j = x
  BY <1>4, <1>7, <1>8
<1>10. p.by = "pid" => p.arg \in Pids /\ kid[p.arg].bg
  BY <1>4, <1>6 DEF Specs
<1>11. ASSUME p.by = "pid", x # Nil
       PROVE  heap[x].n = 1 /\ heap[x].pid[1] = p.arg
  <2>1. PICK i \in 1..heap[x].n : heap[x].pid[i] = p.arg
    BY <1>0, <1>6, <1>11, FindPid
  <2>2. x \in Refs /\ Live(x)
    BY <1>0, <1>6, <1>11, FindLive
  <2>3. p.arg # Nil /\ kid[heap[x].pid[i]].bg
    BY <1>10, <1>11, <2>1, JobConstants
  <2>4. heap[x].n = 1
    BY <1>0, <2>1, <2>2, <2>3 DEF MembersOK
  <2>5. i = 1
    BY <2>4
  <2> QED BY <2>1, <2>4, <2>5
<1>12. OpStat(f)'
  BY <1>0, <1>2, <1>9, <1>10, <1>11 DEF OpStat, WaitPcs
<1>13. FrameStat(f)'
  BY <1>2, <1>12 DEF FrameStat, WaitStat, LaunchStat, WaitPcs
<1> QED BY <1>0, <1>1, <1>13, PushStat

LEMMA FgStat ==
  ASSUME StatusTame, Base, Base', StatInv, [Next]_vars, builtin_fg
  PROVE  FramesOK'
<1>1. PICK r, h, f : r \in Resolved \ {Nil} /\ h = Call("fg", "top") /\ f = JobWait(h, r, 0) /\ stack' = Append(stack, f)
  BY DEF builtin_fg, Push
<1>2. h \in Frames /\ h.k = "fg"
  <2>1. {} \in SUBSET Operand /\ <<>> \in Seq(Operand)
    OBVIOUS
  <2> QED BY <1>1, JobConstants DEF Call, Frames, Calls, Pcs, WaitPcs, Statuses
<1>3. trap_run_count' = trap_run_count /\ Cmd("fg") /\ Safe
  BY DEF builtin_fg, traps, Base
<1>4. FrameStat(f)'
  BY <1>1, <1>2, <1>3, EnterStat
<1> QED BY <1>1, <1>3, <1>4, PushStat

LEMMA TrapRunStat ==
  ASSUME StatusTame, Base, Base', StatInv, [Next]_vars, trap_run_pending
  PROVE  FramesOK'
<1>1. PICK f : f = TrapBody /\ stack' = Append(stack, f)
  BY DEF trap_run_pending, RunTrap, TrapBody
<1>2. FrameStat(f)'
  BY <1>1, TrapPlaced, IdleStat DEF WaitPcs
<1>3. Onto(Len(stack), f) /\ (stack = <<>> \/ At("body"))
  BY <1>1, OntoPush DEF Base, Safe, trap_run_pending
<1> QED BY <1>2, <1>3, OntoStat

-----------------------------------------------------------------------------
(* Launchers *)

LEMMA ForkStat ==
  ASSUME StatusTame, Base, Base', StatInv, [Next]_vars, job_fork
  PROVE  FramesOK'
<1>0. stack # <<>> /\ Top.pc = "fork" /\ UNCHANGED <<heap, job_list>>
  BY DEF job_fork, At, table
<1>1. Top \in Frames /\ Placed(Top) /\ LaunchStat(Top)
  BY <1>0, TopStat DEF StatInv, FrameStat
<1>2. Top.k \in {"bg", "pipe"}
  BY <1>0, <1>1 DEF Placed, PcsOf, WaitPcs, Waits, Subs, Frames, Calls
<1>3. PICK p, f : p \in Pids /\ kid' = Forked(p) /\ f = [Top EXCEPT !.pc = "forked", !.new = p] /\ stack' = Goto(f)
  BY DEF job_fork
<1>4. f.k = Top.k /\ f.pc = "forked" /\ f.j = Top.j /\ f.new = p
  BY <1>1, <1>3 DEF Frames
<1>5. ~kid'[p].bg
  BY <1>3 DEF Forked, NoKid, Base, Safe, KernelType
<1>6. LaunchStat(f)'
  BY <1>0, <1>1, <1>4, <1>5 DEF LaunchStat, Live
<1>7. FrameStat(f)'
  BY <1>2, <1>4, <1>6 DEF FrameStat, WaitStat, OpStat, WaitPcs
<1> QED BY <1>0, <1>3, <1>7, GotoStat

(* Where a launcher goes once its last member is recorded.                 *)
LEMMA AfterStat ==
  ASSUME StatusTame, Base, Base', StatInv, [Next]_vars, stack # <<>>, NEW f \in Frames, f.k \in {"bg", "pipe"},
         stack' = AfterFork(f), f.k = "pipe" /\ Live(f.j)' => ~heap'[f.j].bgnd, trap_run_count' = trap_run_count
  PROVE  FramesOK'
<1>1. ~InCmdsub
  BY NoCmdsub DEF StatusTame
<1>2. CASE f.k = "bg"
  BY <1>1, <1>2, PopStat DEF AfterFork
<1>3. CASE f.k = "pipe" /\ f.flag
  <2>1. PICK g : g = [f EXCEPT !.pc = "body"] /\ stack' = Goto(g)
    BY <1>1, <1>3 DEF AfterFork
  <2>2. g.k = "pipe" /\ g.pc = "body" /\ g.j = f.j
    BY <1>3, <2>1 DEF Frames
  <2>3. FrameStat(g)'
    BY <1>3, <2>2 DEF FrameStat, WaitStat, OpStat, LaunchStat, WaitPcs
  <2> QED BY <2>1, <2>3, GotoStat
<1>4. CASE f.k = "pipe" /\ ~f.flag
  <2>1. PICK r, g : r = f.j /\ g = JobWait(f, r, RUN) /\ stack' = Goto(g)
    BY <1>1, <1>4 DEF AfterFork
  <2>2. FrameStat(g)'
    BY <1>4, <2>1, EnterStat DEF Base
  <2> QED BY <2>1, <2>2, GotoStat
<1> QED BY <1>2, <1>3, <1>4

LEMMA ForkParentStat ==
  ASSUME StatusTame, Base, Base', StatInv, [Next]_vars, job_fork_parent
  PROVE  FramesOK'
<1>0. stack # <<>> /\ Top.pc = "forked" /\ Top.k \in {"bg", "pipe"} /\ trap_run_count' = trap_run_count
  BY DEF job_fork_parent, At, traps
<1>1. Top \in Frames /\ LaunchStat(Top)
  BY <1>0, TopStat DEF StatInv, FrameStat
<1>2. PICK m, f : /\ m = Top.left - 1 /\ f = [Top EXCEPT !.new = Nil, !.left = m]
                  /\ stack' = IF f.left > 0 THEN Goto([f EXCEPT !.pc = "fork"]) ELSE AfterFork(f)
  BY DEF job_fork_parent
<1>3. f \in Frames /\ f.k = Top.k /\ f.j = Top.j
  <2>1. m \in Int
    BY <1>1, <1>2 DEF Frames
  <2> QED BY <1>1, <1>2, <2>1 DEF Frames
<1>4. PICK r : r = Top.j
  OBVIOUS
<1>5. Live(r) /\ heap'[r].n = heap[r].n /\ heap'[r].bgnd = heap[r].bgnd
  BY <1>4, FillMembers
<1>6. /\ f.k = "pipe" => ~heap'[f.j].bgnd
      /\ f.k = "bg" => heap'[f.j].n = 1
  BY <1>0, <1>1, <1>3, <1>4, <1>5 DEF LaunchStat
<1>7. CASE f.left > 0
  <2>1. PICK g : g = [f EXCEPT !.pc = "fork"] /\ stack' = Goto(g)
    BY <1>2, <1>7
  <2>2. g.k = f.k /\ g.pc = "fork" /\ g.j = f.j
    BY <1>3, <2>1 DEF Frames
  <2>3. LaunchStat(g)'
    BY <1>6, <2>2 DEF LaunchStat
  <2>4. FrameStat(g)'
    BY <1>0, <1>3, <2>2, <2>3 DEF FrameStat, WaitStat, OpStat, WaitPcs
  <2> QED BY <1>0, <2>1, <2>4, GotoStat
<1>8. CASE ~(f.left > 0)
  BY <1>0, <1>2, <1>3, <1>6, <1>8, AfterStat
<1> QED BY <1>7, <1>8

LEMMA ForkFailsStat ==
  ASSUME StatusTame, Base, Base', StatInv, [Next]_vars, job_fork_fails
  PROVE  FramesOK'
<1>0. stack # <<>> /\ Top.pc = "fork" /\ trap_run_count' = trap_run_count
  BY DEF job_fork_fails, At, traps
<1>1. Top \in Frames /\ Placed(Top) /\ LaunchStat(Top)
  BY <1>0, TopStat DEF StatInv, FrameStat
<1>2. CASE Top.k = "bg"
  BY <1>0, <1>2, PopStat DEF job_fork_fails
<1>3. CASE Top.k # "bg"
  <2>0. Top.k = "pipe"
    BY <1>0, <1>1, <1>3 DEF Placed, PcsOf, WaitPcs, Waits, Subs, Frames, Calls
  <2>1. PICK m, f : /\ m = Top.left - 1 /\ f = [Top EXCEPT !.left = m]
                    /\ stack' = (IF f.left > 0 THEN Goto(f) ELSE AfterFork(f)) /\ UNCHANGED table
    BY <1>3 DEF job_fork_fails
  <2>2. f \in Frames /\ f.k = "pipe" /\ f.pc = "fork" /\ f.j = Top.j
    <3>1. m \in Int
      BY <1>1, <2>1 DEF Frames
    <3> QED BY <1>0, <1>1, <2>0, <2>1, <3>1 DEF Frames
  <2>3. Live(f.j)' => ~heap'[f.j].bgnd
    BY <1>1, <2>0, <2>1, <2>2 DEF LaunchStat, table, Live
  <2>4. CASE f.left > 0
    <3>1. FrameStat(f)'
      BY <2>2, <2>3 DEF FrameStat, WaitStat, OpStat, LaunchStat, WaitPcs
    <3> QED BY <1>0, <2>1, <2>4, <3>1, GotoStat
  <2>5. CASE ~(f.left > 0)
    BY <1>0, <2>1, <2>2, <2>3, <2>5, AfterStat
  <2> QED BY <2>4, <2>5
<1> QED BY <1>2, <1>3

LEMMA ExecParentStat ==
  ASSUME StatusTame, Base, Base', StatInv, [Next]_vars, exec_program_parent
  PROVE  FramesOK'
<1>0. stack # <<>> /\ Top.k = "prog" /\ trap_run_count' = trap_run_count
  BY DEF exec_program_parent, Running, traps
<1>1. CASE stack' = Pop(stack)
  BY <1>0, <1>1, PopStat
<1>2. CASE stack' # Pop(stack)
  <2>1. PICK r, h, f : h = [Top EXCEPT !.new = Nil] /\ f = JobWait(h, r, Hangup) /\ stack' = Goto(f)
    BY <1>2 DEF exec_program_parent
  <2>2. h \in Frames /\ h.k = "prog"
    BY <1>0, <2>1, TopStat DEF StatInv, Frames
  <2>3. FrameStat(f)'
    BY <1>0, <2>1, <2>2, EnterStat DEF Base
  <2> QED BY <1>0, <2>1, <2>3, GotoStat
<1> QED BY <1>1, <1>2

(* A pipeline waits for its job.                                           *)
LEMMA PipeWaits ==
  ASSUME StatusTame, Base, Base', StatInv, [Next]_vars, stack # <<>>, Top.k = "pipe", stack' = Goto(JobWait(Top, Top.j, RUN)),
         UNCHANGED <<table, traps>>
  PROVE  FramesOK'
<1>1. Top \in Frames /\ LaunchStat(Top)
  BY TopStat DEF StatInv, FrameStat
<1>2. PICK h, r, f : h = Top /\ r = Top.j /\ f = JobWait(h, r, RUN)
  OBVIOUS
<1>3. Live(r)' => ~heap'[r].bgnd
  BY <1>1, <1>2 DEF LaunchStat, table, Live
<1>4. FrameStat(f)'
  BY <1>1, <1>2, <1>3, EnterStat DEF Base, traps
<1> QED BY <1>2, <1>4, GotoStat

LEMMA EofStat ==
  ASSUME StatusTame, Base, Base', StatInv, [Next]_vars, fdstack_data_eof
  PROVE  FramesOK'
<1>0. stack # <<>> /\ Top.pc = "drain" /\ UNCHANGED <<table, traps>>
  BY DEF fdstack_data_eof, At
<1>1. Top.k \in {"bg", "pipe"}
  BY <1>0, TopStat DEF StatInv, Placed, PcsOf, WaitPcs, Waits, Subs, Frames, Calls
<1> QED BY <1>0, <1>1, PopStat, PipeWaits DEF fdstack_data_eof

LEMMA BodyEndStat ==
  ASSUME StatusTame, Base, Base', StatInv, [Next]_vars, body_end
  PROVE  FramesOK'
<1>0. stack # <<>> /\ Top.pc = "body" /\ UNCHANGED <<table, traps>>
  BY DEF body_end, At
<1>1. Top.k \in {"pipe", "trap"}
  <2>1. Top.k \in {"pipe", "sub", "cmdsub", "trap"}
    BY <1>0, TopStat DEF StatInv, Placed, PcsOf, WaitPcs, Waits, Subs, Frames, Calls
  <2> QED BY <1>0, <2>1, NoSubTop DEF StatusTame, Subs
<1>2. CASE Top.k = "trap"
  BY <1>0, <1>2, PopStat DEF body_end, Return
<1>3. CASE Top.k = "pipe"
  BY <1>0, <1>3, PipeWaits DEF body_end, Step
<1> QED BY <1>1, <1>2, <1>3

-----------------------------------------------------------------------------
(* Returns and walks *)

LEMMA ReturnStat ==
  ASSUME StatusTame, Base, Base', StatInv, [Next]_vars,
         eval_pipeline_return \/ exec_program_return \/ fg_return \/ job_clean_end \/ job_discard_end
  PROVE  FramesOK'
<1>1. stack # <<>> /\ stack' = Pop(stack)
  BY DEF eval_pipeline_return, exec_program_return, fg_return, job_clean_end, job_discard_end, Running, At, Return
<1> QED BY <1>1, PopStat

LEMMA CleanStat ==
  ASSUME StatusTame, Base, Base', StatInv, [Next]_vars, job_clean
  PROVE  FramesOK'
<1>0. stack # <<>> /\ Top.pc = "clean"
  BY DEF job_clean, At
<1>1. Top \in Frames /\ Placed(Top)
  BY <1>0, TopStat DEF StatInv
<1>2. Top.k \in {"jobs", "update"}
  BY <1>0, <1>1 DEF Placed, PcsOf, WaitPcs, Waits, Subs, Frames, Calls
<1>3. PICK c, f : f = [Top EXCEPT !.cur = c] /\ stack' = Goto(f)
  BY DEF job_clean, Step
<1>4. f.k = Top.k /\ f.pc = "clean"
  BY <1>0, <1>1, <1>3 DEF Frames
<1>5. FrameStat(f)'
  BY <1>2, <1>4, IdleStat DEF WaitPcs
<1> QED BY <1>0, <1>3, <1>5, GotoStat

LEMMA NextStat ==
  ASSUME StatusTame, Base, Base', StatInv, [Next]_vars, wait_next
  PROVE  FramesOK'
<1>0. /\ stack # <<>> /\ Top.k \in Waits /\ Top.pc = "next"
      /\ UNCHANGED <<heap, kid, trap_run_count>>
  BY DEF wait_next, Running, Waits, table, kernel
<1>1. Top \in Frames /\ FrameWait(Top) /\ OpStat(Top)
  BY <1>0, TopStat DEF StatInv, FrameStat
<1>2. CASE stack' = Pop(stack)
  BY <1>0, <1>2, PopStat
<1>3. CASE Target # Nil /\ stack' = Goto(JobWait(Top, Target, 0))
  <2>1. PICK h, r, f : h = Top /\ r = Target /\ f = JobWait(h, r, 0)
    OBVIOUS
  <2>2. f.k = Top.k /\ f.pc = "top" /\ f.j = r /\ f.todo = Top.todo
    <3>1. h \in Frames
      BY <1>1, <2>1, Zenon
    <3>2. /\ JobWait(h, r, 0).k = h.k /\ JobWait(h, r, 0).pc = "top"
          /\ JobWait(h, r, 0).j = r /\ JobWait(h, r, 0).todo = h.todo
      BY <3>1, JobWaitIs
    <3> QED BY <2>1, <3>2, Zenon
  <2>3. f.k = "waitops" => OpStat(f)'
    BY <1>0, <1>1, <1>3, <2>1, <2>2, Zenon DEF OpStat, Target, WaitPcs
  <2>4. h.k \notin {"bg", "pipe"} /\ h \in Frames /\ h.k = f.k
    BY <1>0, <1>1, <2>1, <2>2 DEF Waits
  <2>5. FrameStat(f)'
    BY <1>0, <2>1, <2>3, <2>4, EnterStat DEF Base
  <2> QED BY <1>0, <1>3, <2>1, <2>5, GotoStat
<1>4. CASE Top.k = "waitops" /\ Top.todo # <<>> /\ stack' = Goto([Top EXCEPT !.todo = Tail(@)])
  <2>1. PICK t, f : t = Tail(Top.todo) /\ f = [Top EXCEPT !.todo = t]
    OBVIOUS
  <2>2. f.k = "waitops" /\ f.pc = "next" /\ f.todo = t
    BY <1>0, <1>1, <1>4, <2>1 DEF Frames
  <2>3. t = <<>>
    BY <1>1, <1>4, <2>1 DEF FrameWait, Frames
  <2>4. FrameStat(f)'
    BY <2>2, <2>3 DEF FrameStat, WaitStat, OpStat, LaunchStat, WaitPcs
  <2> QED BY <1>0, <1>4, <2>1, <2>4, GotoStat
<1> QED BY <1>0, <1>2, <1>3, <1>4 DEF wait_next, Return, Step, Target, Waits

LEMMA ReturnedStat ==
  ASSUME StatusTame, Base, Base', StatInv, [Next]_vars, wait_return
  PROVE  FramesOK'
<1>0. stack # <<>> /\ Top.k \in Waits /\ Top.pc = "ret"
  BY DEF wait_return, Running, Waits
<1>1. Top \in Frames /\ FrameWait(Top) /\ FrameOK(Top)
  BY <1>0, TopStat DEF StatInv
<1>2. CASE stack' = Pop(stack)
  BY <1>0, <1>2, PopStat
<1>3. CASE stack' # Pop(stack)
  <2>1. PICK t, f : /\ t = (IF Top.k = "wait" THEN Top.todo ELSE Tail(Top.todo))
                    /\ f = [Top EXCEPT !.pc = "next", !.j = Nil, !.st = 0, !.todo = t]
                    /\ stack' = Goto(f)
    BY <1>3 DEF wait_return, Return, Step
  <2>2. f.k = Top.k /\ f.pc = "next" /\ f.todo = t
    BY <1>1, <2>1 DEF Frames
  <2>3. f.k = "waitops" => t = <<>>
    BY <1>0, <1>1, <2>1, <2>2 DEF FrameWait, FrameOK, Frames
  <2>4. FrameStat(f)'
    BY <1>0, <2>2, <2>3 DEF FrameStat, WaitStat, OpStat, LaunchStat, WaitPcs, Waits
  <2> QED BY <1>0, <2>1, <2>4, GotoStat
<1> QED BY <1>2, <1>3

-----------------------------------------------------------------------------
(* Every step *)

LEMMA StepFrames ==
  ASSUME StatusTame, Base, Base', StatInv, [Next]_vars
  PROVE  FramesOK'
<1>1. CASE Script
  <2>1. CASE \E k \in {"sub", "cmdsub"} : eval_subshell(k)
    BY <2>1, CmdScripted DEF eval_subshell, StatusTame, NoSubs, Subs
  <2> QED BY <1>1, <2>1, BgndStat, PipelineStat, ExecStat, ListsStat, OperandsStat, FgStat, QuietStat DEF Script
<1>2. CASE Shell
  <2>1. ~job_discard
    BY NoSubTop DEF job_discard, At, StatusTame
  <2>2. ~job_wait_dangling
    BY TopStat DEF job_wait_dangling, FrameWait, Holding, StatInv
  <2>3. CASE job_fork \/ job_fork_parent \/ job_fork_fails \/ exec_program_parent \/ job_resume_stopped \/ fdstack_data_eof
    BY <2>3, ForkStat, ForkParentStat, ForkFailsStat, ExecParentStat, QuietStat, EofStat
  <2>4. CASE job_wait_traps \/ job_wait_check \/ job_wait_scan \/ waitpid_reap \/ waitpid_none \/ waitpid_block
               \/ job_wait_spin \/ job_wait_finish
    BY <2>4, TrapsStat, CheckStat, ScanStat, ReapStat, NoneBlockStat, SpinStat, FinishStat
  <2>5. CASE eval_pipeline_return \/ exec_program_return \/ fg_return \/ wait_next \/ wait_return \/ job_clean
               \/ job_clean_end \/ body_end \/ job_discard_end \/ trap_run_pending
    BY <2>5, ReturnStat, NextStat, ReturnedStat, CleanStat, BodyEndStat, TrapRunStat
  <2> QED BY <1>2, <2>1, <2>2, <2>3, <2>4, <2>5 DEF Shell
<1>3. CASE Kernel
  BY <1>3, ChildStat, OnsigStat, RelayStat DEF Kernel
<1>4. CASE UNCHANGED vars
  BY <1>4, QuietStat
<1> QED BY <1>1, <1>2, <1>3, <1>4 DEF Next

(* What "wait pid" reports, from the ring or from job_wait().              *)
LEMMA StepTruth ==
  ASSUME Base, StatInv, [Next]_vars
  PROVE  WaitTruth'
<1>1. ASSUME obs' = obs
      PROVE  WaitTruth'
  BY <1>1 DEF StatInv, WaitTruth
<1>2. ASSUME NEW p \in Pids, NEW s, s = 127 \/ s = StopStatus \/ (kid[p].st = "reaped" /\ s = kid[p].code),
             obs' = <<s, IF kid[p].st = "reaped" THEN kid[p].code ELSE RUN>>
      PROVE  WaitTruth'
  BY <1>2 DEF WaitTruth
<1>3. \A c \in Codes : WaitStatus(c) = c
  BY CodesApart DEF WaitStatus
<1>4. \A p \in Pids : kid[p].code \in Codes
  BY DEF Base, Safe, KernelType
<1>5. CASE wait_next
  <2>1. CASE obs' = obs
    BY <1>1, <2>1
  <2>2. CASE obs' # obs
    <3>0. stack # <<>> /\ Top.k = "waitops" /\ Top.todo # <<>>
      BY <1>5, <2>2 DEF wait_next, Running
    <3>1. PICK sp : sp = Head(Top.todo).spec
      OBVIOUS
    <3>2. /\ sp.by = "pid"
          /\ obs' = <<IF Recalls(sp.arg) # {} THEN WaitStatus(job_recall(sp.arg)) ELSE 127,
                      IF kid[sp.arg].st = "reaped" THEN kid[sp.arg].code ELSE RUN>>
      BY <1>5, <2>2, <3>0, <3>1 DEF wait_next, Observe
    <3>3. sp.arg \in Pids
      BY <3>0, <3>1, <3>2, TopStat DEF StatInv, FrameStat, OpStat
    <3>4. PICK p \in Pids : p = sp.arg
      BY <3>3
    <3>5. CASE Recalls(p) = {}
      BY <1>2, <3>2, <3>4, <3>5
    <3>6. CASE Recalls(p) # {}
      <4>1. Recalls(p) \in SUBSET Nat
        BY JobConstants DEF Recalls
      <4>2. PICK e : e = Least(Recalls(p))
        OBVIOUS
      <4>3. e \in 0..(RingSize - 1) /\ job_finished[e].pid = p
        BY <3>6, <4>1, <4>2, LeastOf DEF Recalls
      <4>4. kid[p].st = "reaped" /\ job_finished[e].status = kid[p].code
        BY <4>3, JobConstants DEF StatInv, RingFinished
      <4>5. job_recall(p) = kid[p].code
        BY <4>2, <4>4 DEF job_recall
      <4>6. WaitStatus(job_recall(p)) = kid[p].code
        BY <1>3, <1>4, <4>5
      <4> QED BY <1>2, <3>2, <3>4, <3>6, <4>4, <4>6
    <3> QED BY <3>5, <3>6
  <2> QED BY <2>1, <2>2
<1>6. CASE wait_return
  <2>1. CASE obs' = obs
    BY <1>1, <2>1
  <2>2. CASE obs' # obs
    <3>0. stack # <<>> /\ Top.k = "waitops" /\ Top.pc = "ret" /\ ~job_wait_sig
      BY <1>6, <2>2 DEF wait_return, Running
    <3>1. PICK sp : sp = Head(Top.todo).spec
      OBVIOUS
    <3>2. /\ sp.by = "pid"
          /\ obs' = <<WaitStatus(Top.st), IF kid[sp.arg].st = "reaped" THEN kid[sp.arg].code ELSE RUN>>
      BY <1>6, <2>2, <3>0, <3>1 DEF wait_return, Observe
    <3>3. Top.todo # <<>>
      BY <3>0, TopStat DEF StatInv, FrameOK
    <3>4. sp.arg \in Pids /\ (Top.st = STOP \/ (kid[sp.arg].st = "reaped" /\ kid[sp.arg].code = Top.st))
      BY <3>0, <3>1, <3>2, <3>3, TopStat DEF StatInv, FrameStat, OpStat
    <3>5. PICK p \in Pids : p = sp.arg
      BY <3>4
    <3>6. WaitStatus(STOP) = StopStatus
      BY DEF WaitStatus, STOP, RUN
    <3>7. WaitStatus(Top.st) = StopStatus \/ (kid[p].st = "reaped" /\ WaitStatus(Top.st) = kid[p].code)
      BY <1>3, <1>4, <3>4, <3>5, <3>6
    <3> QED BY <1>2, <3>2, <3>5, <3>7
  <2> QED BY <2>1, <2>2
<1>7. CASE Script
  BY <1>1, <1>7 DEF Script, eval_node_bgnd, eval_pipeline, exec_program, exec_program_fails, wait_all, wait_operands,
          builtin_jobs, job_update, builtin_fg, builtin_bg, eval_subshell
<1>8. CASE Shell /\ ~wait_next /\ ~wait_return
  <2>1. CASE job_fork \/ job_fork_parent \/ job_fork_fails \/ exec_program_parent \/ job_resume_stopped
               \/ fdstack_data_eof \/ job_wait_check \/ job_wait_scan
    BY <1>1, <2>1, Zenon DEF job_fork, job_fork_parent, job_fork_fails, exec_program_parent, job_resume_stopped,
         fdstack_data_eof, job_wait_check, job_wait_scan
  <2>2. CASE waitpid_reap \/ waitpid_none \/ waitpid_block \/ job_wait_spin \/ job_wait_finish \/ job_wait_dangling
               \/ eval_pipeline_return \/ exec_program_return \/ fg_return \/ job_wait_traps
    BY <1>1, <2>2 DEF waitpid_reap, waitpid_none, waitpid_block, job_wait_spin, job_wait_finish, job_wait_dangling,
         eval_pipeline_return, exec_program_return, fg_return, job_wait_traps
  <2>3. CASE job_clean \/ job_clean_end \/ body_end \/ job_discard \/ job_discard_end \/ trap_run_pending
    BY <1>1, <2>3 DEF job_clean, job_clean_end, body_end, job_discard, job_discard_end, trap_run_pending
  <2> QED BY <1>8, <2>1, <2>2, <2>3, Zenon DEF Shell
<1>9. CASE Kernel
  BY <1>1, <1>9 DEF Kernel, ChildExit, ChildStop, ChildCont, sh_onsig, trap_relay
<1>10. CASE UNCHANGED vars
  BY <1>1, <1>10 DEF vars
<1> QED BY <1>5, <1>6, <1>7, <1>8, <1>9, <1>10 DEF Next

LEMMA InitStat == Init => Base /\ StatInv
<1> SUFFICES ASSUME Init PROVE Base /\ StatInv
  OBVIOUS
<1>1. Base
  BY InitSafe, InitPlaces, InitWait, InitStop, InitExits DEF Base
<1>2. Len(stack) = 0 /\ (\A r : ~Live(r)) /\ obs = <<>>
  BY DEF Init, Live
<1>3. CountOK
  BY JobConstants DEF Init, CountOK
<1>4. RingFinished
  BY DEF Init, RingFinished
<1> QED BY <1>1, <1>2, <1>3, <1>4 DEF StatInv, FramesOK, MembersOK, WaitTruth

LEMMA StepStat ==
  ASSUME StatusTame
  PROVE  Base /\ StatInv /\ [Next]_vars => (Base /\ StatInv)'
<1> SUFFICES ASSUME Base, StatInv, [Next]_vars PROVE (Base /\ StatInv)'
  OBVIOUS
<1>1. ~PidReuse /\ WaitTame /\ NoDrainedFork
  BY DEF StatusTame, NoSubs, Subs, NoDrainedFork
<1>2. Base'
  BY <1>1, StepTame, StepStop, StepExits DEF Base
<1>3. FramesOK'
  BY <1>2, StepFrames
<1>4. MembersOK' /\ RingFinished'
  BY <1>2, StepMembers, StepRing DEF StatInv
<1>5. CountOK' /\ WaitTruth'
  BY StepCount, StepTruth DEF StatInv, Base
<1> QED BY <1>2, <1>3, <1>4, <1>5 DEF StatInv

(* What job_wait() is about to return.                                     *)
LEMMA ResultTrue ==
  ASSUME Base, StatInv
  PROVE  WaitResult
<1> SUFFICES ASSUME At("fin"), NEW r, r = Top.j, Live(r), NEW j, j = heap[r], job_done(j), j.n > 0, Top.st # STOP,
                    NEW bad, bad = {i \in 1..j.n : RealCode(j, i) # 0}
             PROVE  PipefailStatus(j, Top.st) = RealCode(j, IF j.pipefail /\ bad # {} THEN Greatest(bad) ELSE j.n)
  BY DEF WaitResult
<1>0. stack # <<>> /\ Top.pc = "fin" /\ Top.pc \in WaitPcs
  BY DEF At, WaitPcs
<1>1. TableType /\ r \in Refs /\ j.n \in Nat /\ j.n \in 1..j.n
  BY LiveRef, SizeType DEF Base, Safe, TableOK
<1>2. ASSUME NEW i \in 1..j.n
      PROVE  j.stat[i] \in Codes /\ j.stat[i] # RUN /\ j.pid[i] # Nil /\ RealCode(j, i) = j.stat[i]
             /\ WaitStatus(j.stat[i]) = j.stat[i]
  <2>1. j.stat[i] \in Codes /\ j.stat[i] # RUN
    BY <1>1, <1>2, MemberType DEF job_done, job_running, job_stopped, Statuses
  <2>2. j.pid[i] # Nil
    BY <1>1, <1>2, <2>1 DEF Base, StopInv, StatsOK
  <2>3. Told(r, i)
    BY <1>1, <1>2 DEF Base, Exits, Held
  <2> QED BY <2>1, <2>2, <2>3, CodesApart DEF Told, RealCode, WaitStatus
<1>3. Top.st = j.stat[j.n]
  <2>1. Filled(r)
    BY <1>2 DEF Filled
  <2>2. WaitStat(Top)
    BY <1>0, TopStat DEF StatInv, FrameStat
  <2> QED BY <1>0, <2>1, <2>2 DEF WaitStat
<1>4. bad = {i \in 1..j.n : j.stat[i] # RUN /\ WaitStatus(j.stat[i]) # 0}
  BY <1>2
<1>5. PipefailStatus(j, Top.st) = IF ~j.pipefail \/ job_stopped(j) \/ bad = {} THEN Top.st ELSE j.stat[Greatest(bad)]
  BY <1>4 DEF PipefailStatus
<1>6. ~job_stopped(j)
  BY DEF job_done
<1>7. CASE j.pipefail /\ bad # {}
  <2>1. bad \in SUBSET (0..j.n)
    BY <1>1
  <2>2. PICK g : g = Greatest(bad)
    OBVIOUS
  <2>3. g \in 1..j.n
    BY <1>1, <1>7, <2>1, <2>2, GreatestOf
  <2> QED BY <1>2, <1>5, <1>6, <1>7, <2>2, <2>3
<1>8. CASE ~(j.pipefail /\ bad # {})
  BY <1>1, <1>2, <1>3, <1>5, <1>8
<1> QED BY <1>7, <1>8

(* The statuses are the true ones in every reachable state: the recorded   *)
(* status of a listed job's process, the one job_wait() is about to return *)
(* for a finished job (the last member's, or under pipefail the rightmost  *)
(* failure), the one "wait pid" reported and those in the ring.  For every *)
(* number of processes, jobs, pipeline members, nested calls and ring      *)
(* entries, any order of exits, stops, handlers and traps, and forks that  *)
(* fail; for scripts as StatusTame says.                                   *)
THEOREM StatusesTrue ==
  ASSUME StatusTame
  PROVE  Spec => []StatusTrue
<1>1. Init => Base /\ StatInv
  BY InitStat
<1>2. Base /\ StatInv /\ [Next]_vars => (Base /\ StatInv)'
  BY StepStat
<1>3. Base /\ StatInv => StatusTrue
  <2> SUFFICES ASSUME Base, StatInv PROVE StatusTrue
    OBVIOUS
  <2>1. NoExitLost
    <3> SUFFICES ASSUME NEW r \in Refs, Live(r), NEW i \in 1..heap[r].n, heap[r].pid[i] # Nil
                 PROVE  /\ heap[r].stat[i] = RUN => Exists(heap[r].pid[i])
                        /\ heap[r].stat[i] \in Codes => kid[heap[r].pid[i]].st = "reaped" /\ kid[heap[r].pid[i]].code = heap[r].stat[i]
      BY DEF NoExitLost
    <3> QED BY DEF Base, Exits, Held, Told
  <2> QED BY <2>1, ResultTrue DEF StatusTrue, StatInv
<1> QED BY <1>1, <1>2, <1>3, PTL DEF Spec
=============================================================================
