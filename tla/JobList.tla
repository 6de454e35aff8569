------------------------------ MODULE JobList -------------------------------
(***************************************************************************)
(* The list of jobs at the level of its pointers (job/job_new.c,           *)
(* job_free.c, job_clean.c, job_update.c), with SIGCHLD's handler, which   *)
(* walks the list (job_bypid) wherever it may interrupt: between any two   *)
(* writes of the shell when the signal is not blocked.  JobControl takes   *)
(* each of the list's operations as one step; here each write is one.      *)
(*                                                                         *)
(* Slot 0 is &job_list, slot a is &job[a].next; a job has one process.     *)
(***************************************************************************)
EXTENDS Naturals

CONSTANTS MaxJobs,           \* structs that can be allocated, and processes
          Careful            \* no job is freed unmasked while a child is left

VARIABLES job_list, job,     \* the head, and the structs: [next, id, pid, done, live]
          kid,               \* the kernel's children: "none", "run" or "zombie"
          chld, blocked,     \* SIGCHLD pending, SIGCHLD blocked
          job_signaled,
          at                 \* what the shell is doing: [k, j, slot, pid, fg, mask]

listVars == <<job_list, job, kid, chld, blocked, job_signaled, at>>
Jobs == 1..MaxJobs
NewJob(i) == [next |-> 0, id |-> i, pid |-> 0, done |-> FALSE, live |-> TRUE]
Idle == [k |-> "idle", j |-> 0, slot |-> 0, pid |-> 0, fg |-> FALSE, mask |-> FALSE]
At(k) == at.k = k
Go(k) == at' = [at EXCEPT !.k = k]

Slot(s) == IF s = 0 THEN job_list ELSE job[s].next
Store(s, j) ==
  IF s = 0 THEN job_list' = j /\ UNCHANGED job
  ELSE job' = [job EXCEPT ![s].next = j] /\ UNCHANGED job_list
(* The structs that a walk from a comes to, freed ones included.           *)
RECURSIVE WalkFrom(_, _)
WalkFrom(a, seen) == IF a = 0 \/ a \in seen THEN seen ELSE WalkFrom(job[a].next, seen \cup {a})
Walk == WalkFrom(job_list, {})
(* The slot of the first job whose number is not its place in the list.    *)
RECURSIVE GapFrom(_, _)
GapFrom(s, i) == IF Slot(s) = 0 \/ job[Slot(s)].id # i THEN [slot |-> s, id |-> i] ELSE GapFrom(Slot(s), i + 1)
RECURSIVE SlotOf(_, _)
SlotOf(j, s) == IF Slot(s) = j THEN s ELSE SlotOf(j, Slot(s))

Quiet == \A p \in Jobs : kid[p] = "none"
Free == {a \in Jobs : ~job[a].live}
Pids == {p \in Jobs : kid[p] = "none" /\ \A a \in Jobs : job[a].live => job[a].pid # p}
Lowest(s) == CHOOSE a \in s : \A b \in s : a <= b

ListInit ==
  /\ job_list = 0 /\ job = [a \in Jobs |-> [NewJob(0) EXCEPT !.live = FALSE]]
  /\ kid = [p \in Jobs |-> "none"]
  /\ chld = FALSE /\ blocked = FALSE /\ job_signaled = FALSE
  /\ at = Idle

-----------------------------------------------------------------------------
(* The first half of job_new: the struct and its place.                    *)
Allocate(pid, fg) ==
  LET a == Lowest(Free) gap == GapFrom(0, 1) IN
  /\ Free # {}
  /\ job' = [job EXCEPT ![a] = NewJob(gap.id)]
  /\ at' = [k |-> "next", j |-> a, slot |-> gap.slot, pid |-> pid, fg |-> fg, mask |-> FALSE]
(* eval_node_bgnd and eval_pipeline make the job before they fork.         *)
NewThenFork(fg) ==
  /\ At("idle") /\ Pids # {} /\ (Careful /\ fg => Quiet)
  /\ Allocate(0, fg)
  /\ UNCHANGED <<job_list, kid, chld, blocked, job_signaled>>
(* exec_program forks first, with SIGCHLD blocked.                         *)
ForkThenNew(fg) ==
  /\ At("idle") /\ Pids # {} /\ (Careful /\ fg => Quiet)
  /\ Allocate(Lowest(Pids), fg)
  /\ kid' = [kid EXCEPT ![Lowest(Pids)] = "run"] /\ blocked' = TRUE
  /\ UNCHANGED <<job_list, chld, job_signaled>>

(* The job points to its successor, then its slot to the job.              *)
job_new_next ==
  /\ At("next")
  /\ Store(at.j, Slot(at.slot))
  /\ Go("link")
  /\ UNCHANGED <<kid, chld, blocked, job_signaled>>
job_new_link ==
  /\ At("link")
  /\ Store(at.slot, at.j)
  /\ Go(IF at.pid = 0 THEN "fork" ELSE "record")
  /\ UNCHANGED <<kid, chld, blocked, job_signaled>>

(* job_fork with SIGCHLD blocked; when it fails the job is freed (that of  *)
(* a pipeline after a wait that finds nothing to wait for).                *)
job_fork ==
  LET p == Lowest(Pids) IN
  /\ At("fork") /\ Pids # {}
  /\ kid' = [kid EXCEPT ![p] = "run"] /\ blocked' = TRUE
  /\ at' = [at EXCEPT !.k = "record", !.pid = p]
  /\ UNCHANGED <<job_list, job, chld, job_signaled>>
ForkFails ==
  /\ At("fork") /\ (Careful => Quiet)
  /\ at' = [at EXCEPT !.k = "free", !.slot = SlotOf(at.j, 0), !.fg = TRUE]
  /\ UNCHANGED <<job_list, job, kid, chld, blocked, job_signaled>>
Record ==
  /\ At("record")
  /\ job' = [job EXCEPT ![at.j].pid = at.pid]
  /\ blocked' = FALSE
  /\ at' = IF at.fg THEN [at EXCEPT !.k = "wait"] ELSE Idle
  /\ UNCHANGED <<job_list, kid, chld, job_signaled>>

(* job_signal: the status goes to the job that the walk finds.             *)
Signalled(p) == {a \in Walk : job[a].pid = p}
job_signal(p) ==
  /\ kid' = [kid EXCEPT ![p] = "none"]
  /\ job' = [a \in Jobs |-> IF a \in Signalled(p) THEN [job[a] EXCEPT !.done = TRUE] ELSE job[a]]
  /\ job_signaled' = (job_signaled \/ Signalled(p) # {})
(* job_wait reaps what has ended until its own job is done, and frees it.  *)
WaitReaps(p) ==
  /\ At("wait") /\ ~job[at.j].done /\ kid[p] = "zombie"
  /\ job_signal(p)
  /\ UNCHANGED <<job_list, chld, blocked, at>>
WaitFrees ==
  /\ At("wait") /\ job[at.j].done
  /\ at' = [at EXCEPT !.k = "free", !.slot = SlotOf(at.j, 0)]
  /\ UNCHANGED <<job_list, job, kid, chld, blocked, job_signaled>>

(* job_delete: the struct is freed, then its slot gets the next job, which *)
(* was read before.  Afterwards the walk of job_clean goes on with that    *)
(* job; any other caller is finished.                                      *)
job_delete_free ==
  /\ At("free")
  /\ job' = [job EXCEPT ![at.j].live = FALSE]
  /\ Go("unlink")
  /\ UNCHANGED <<job_list, kid, chld, blocked, job_signaled>>
job_delete_unlink ==
  /\ At("unlink")
  /\ Store(at.slot, job[at.j].next)
  /\ at' = IF at.fg THEN Idle ELSE [at EXCEPT !.k = "clean", !.j = job[at.j].next]
  /\ UNCHANGED <<kid, chld, blocked, job_signaled>>

(* job_update cleans with SIGCHLD blocked, the jobs builtin without.       *)
Clean(mask) == at' = [Idle EXCEPT !.k = "clean", !.j = job_list, !.mask = mask]
(* What a mutated job_update would do: SIGCHLD stays unblocked.            *)
job_update_unmasked == At("idle") /\ job_signaled /\ Clean(TRUE) /\ UNCHANGED <<job_list, job, kid, chld, blocked, job_signaled>>
job_update ==
  /\ At("idle") /\ job_signaled
  /\ Clean(TRUE) /\ blocked' = TRUE
  /\ UNCHANGED <<job_list, job, kid, chld, job_signaled>>
builtin_jobs ==
  /\ At("idle") /\ (Careful => Quiet)
  /\ Clean(FALSE)
  /\ UNCHANGED <<job_list, job, kid, chld, blocked, job_signaled>>
job_clean ==
  /\ At("clean") /\ at.j # 0
  /\ at' = IF job[at.j].done THEN [at EXCEPT !.k = "free", !.slot = SlotOf(at.j, 0)] ELSE [at EXCEPT !.j = job[at.j].next]
  /\ UNCHANGED <<job_list, job, kid, chld, blocked, job_signaled>>
CleanEnds ==
  /\ At("clean") /\ at.j = 0
  /\ at' = IF at.mask THEN [Idle EXCEPT !.k = "unblock"] ELSE Idle
  /\ job_signaled' = (job_signaled /\ ~at.mask)
  /\ UNCHANGED <<job_list, job, kid, chld, blocked>>
Unblock ==
  /\ At("unblock")
  /\ blocked' = FALSE /\ at' = Idle
  /\ UNCHANGED <<job_list, job, kid, chld, job_signaled>>

-----------------------------------------------------------------------------
ChildEnds(p) ==
  /\ kid[p] = "run"
  /\ kid' = [kid EXCEPT ![p] = "zombie"] /\ chld' = TRUE
  /\ UNCHANGED <<job_list, job, blocked, job_signaled, at>>
(* One child is reaped per delivery; there may be none left.               *)
sh_onsig ==
  /\ chld /\ ~blocked
  /\ chld' = FALSE
  /\ \/ \E p \in Jobs : kid[p] = "zombie" /\ job_signal(p)
     \/ (\A p \in Jobs : kid[p] # "zombie") /\ UNCHANGED <<kid, job, job_signaled>>
  /\ UNCHANGED <<job_list, blocked, at>>

ListNext ==
  \/ \E fg \in BOOLEAN : NewThenFork(fg) \/ ForkThenNew(fg)
  \/ job_new_next \/ job_new_link \/ job_fork \/ ForkFails \/ Record
  \/ \E p \in Jobs : WaitReaps(p)
  \/ WaitFrees \/ job_delete_free \/ job_delete_unlink
  \/ job_update \/ builtin_jobs \/ job_clean \/ CleanEnds \/ Unblock
  \/ \E p \in Jobs : ChildEnds(p)
  \/ sh_onsig

-----------------------------------------------------------------------------
Interruptible == ~blocked /\ ~Quiet
(* Wherever the handler may run, its walk meets no freed struct: no job is *)
(* freed before it is unlinked unless SIGCHLD is blocked.                  *)
WalkSafe == Interruptible => \A a \in Walk : job[a].live
(* And it finds the job of every child: one on its way into the list hides *)
(* none that are behind it.                                                *)
NoneMissed == Interruptible => \A p \in Jobs : kid[p] # "none" => Signalled(p) # {}
(* A finished job is not left on the list with job_signaled clear: no      *)
(* status the handler records is overtaken by job_update's reset.          *)
DoneNoticed == \A a \in Walk : job[a].live /\ job[a].done => job_signaled
=============================================================================
