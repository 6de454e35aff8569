----------------------------- MODULE EvalStack ------------------------------
(***************************************************************************)
(* How a running script nests and how break, continue, return, exit and    *)
(* "set -e" cut through the nesting (src/src/eval).                        *)
(*                                                                         *)
(* Every construct runs in a C activation.  Some push a struct eval (a     *)
(* possible longjmp target) on the chain `eval', and a scope, linked by    *)
(* address, on the chains fdstack, varstack, source and sh; some count     *)
(* themselves in a global.  A jump leaves activations without running      *)
(* their clean-up code, so whoever jumps must undo what they pushed.  The  *)
(* script is arbitrary: any construct may run wherever the grammar lets it.*)
(***************************************************************************)
EXTENDS Naturals, Sequences, FiniteSets

CONSTANTS
  Constructs,    \* constructs the scripts use
  Controls,      \* of "break" "continue" "return" "exit" "fail": the ones they use
  TrapControls,  \* the ones they use in the body of a signal's trap
  ExitControls,  \* ... and of the EXIT trap
  MaxStack,      \* bound: activations nested by the script
  MaxLevels,     \* bound: operand of break and continue
  MaxCount,      \* bound: errexit_suppress and functions_running
  SetsExitTrap,  \* do the scripts run "trap ... EXIT"?
  Errexit        \* set -e

ASSUME EvalConstants ==
  /\ Controls \cup TrapControls \cup ExitControls
       \subseteq {"break", "continue", "return", "exit", "fail"}
  /\ MaxStack \in Nat /\ MaxLevels \in Nat /\ MaxCount \in Nat
  /\ {SetsExitTrap, Errexit} \subseteq BOOLEAN

VARIABLES
  stack,             \* the C activations, outermost first
  eval,              \* chain of struct eval: positions in stack
  fdstack, varstack, source, sh,  \* chains of scopes, likewise; <<>> is the root
  errexit_suppress, functions_running, exec_subshell_depth, sh_subshell,
  sh_async_exit,     \* an exit has to end the process, not a subshell
  exit_trap,         \* the EXIT trap in force: "none", "set" or "running"
  ctl                \* what the C code is doing

chains   == <<eval, fdstack, varstack, source, sh>>
counters == <<errexit_suppress, functions_running, exec_subshell_depth, sh_subshell>>
traps    == <<sh_async_exit, exit_trap>>
vars     == <<stack, chains, counters, traps, ctl>>

-----------------------------------------------------------------------------
(* Which construct pushes what, and the flags of its struct eval.          *)

FdKinds     == {"redir", "pipe", "subshell", "subst"}
VarKinds    == {"prefix", "function", "subshell", "subst"}
SourceKinds == {"eval", "source"}
EnvKinds    == {"function", "subshell", "subst", "exittrap"}
TestKinds   == {"test", "cond"}
LoopKinds   == {"while", "for"}
ShellKinds  == {"subshell", "subst"}

FrameFlags ==
  [line |-> {"ROOT"}, while |-> {"LOOP"}, for |-> {"LOOP"}, function |-> {"FUNCTION"},
   subshell |-> {"ROOT"}, subst |-> {"ROOT"}, eval |-> {"ROOT", "EVAL"},
   source |-> {"ROOT", "SOURCE"}, trap |-> {}, exittrap |-> {}]
FrameKinds == DOMAIN FrameFlags
JumpKinds  == LoopKinds \cup ShellKinds \cup {"function", "source"}
Kinds      == FdKinds \cup VarKinds \cup TestKinds \cup FrameKinds \cup {"child"}

Do(op)          == [op |-> op, n |-> 0, how |-> ""]
DoAt(op, n, how) == [op |-> op, n |-> n, how |-> how]
Run  == Do("run")
Done == Do("done")

Size   == Len(stack)
Top    == stack[Size]
In(s)  == {s[k] : k \in 1..Len(s)}
Kind(i) == IF i \in 1..Size THEN stack[i].kind ELSE "dead"
Highest(S) == CHOOSE k \in S : \A h \in S : h <= k
(* A chain is popped until its head is below i, or down to a mark.         *)
Under(s, i) == SubSeq(s, 1, Highest({0} \cup {k \in 1..Len(s) : s[k] < i}))
Cut(s, n)   == SubSeq(s, 1, IF n < Len(s) THEN n ELSE Len(s))

TrapKinds == {"trap", "exittrap"}
InTrap    == \E i \in 1..Size : stack[i].kind \in TrapKinds
Body      == Kind(Highest({0} \cup {i \in 1..Size : stack[i].kind \in TrapKinds}))
Child     == \E i \in 1..Size : stack[i].kind = "child"
Commands  == ctl = Run /\ stack # <<>> /\ Top.kind # "source"
Room(n)   == Size + n <= MaxStack
May(c)    == Commands /\ Top.kind # "prefix"
             /\ c \in (CASE Body = "trap" -> TrapControls
                         [] Body = "exittrap" -> ExitControls
                         [] OTHER -> Controls)

-----------------------------------------------------------------------------
(* Entering a construct.  eval_push() records in the new frame how far     *)
(* every chain reaches; all of them push their scopes before it.           *)

Pushed(s, K, k) == IF k \in K THEN Append(s, Size + 1) ELSE s

eval_push(k, then) ==
  /\ fdstack' = Pushed(fdstack, FdKinds, k)
  /\ varstack' = Pushed(varstack, VarKinds, k)
  /\ source' = Pushed(source, SourceKinds, k)
  /\ sh' = Pushed(sh, EnvKinds, k)
  /\ eval' = Pushed(eval, FrameKinds, k)
  /\ stack' = Append(stack,
       [kind |-> k,
        flags |-> (IF k \in FrameKinds THEN FrameFlags[k] ELSE {})
                  \cup (IF k = "line" /\ stack # <<>> THEN {"EVAL"} ELSE {}),
        jump |-> k \in JumpKinds, dtor |-> FALSE, pending |-> 0, pendcont |-> FALSE,
        fd |-> Len(fdstack'), var |-> Len(varstack'), src |-> Len(source'),
        traps |-> exit_trap, async |-> sh_async_exit, then |-> then])

Enter(k) == Commands /\ k \in Constructs /\ Room(1) /\ eval_push(k, Run)
            /\ (Top.kind = "prefix" => k = "function")

(* sh_loop() runs the next line, of the script or of a sourced file.       *)
sh_loop ==
  /\ ctl = Run /\ Kind(Size) \in {"dead", "source"}
  /\ eval_push("line", Run)
  /\ UNCHANGED <<counters, traps, ctl>>

(* Redirections of a command, prefix assignments, a pipeline whose last    *)
(* stage runs in the shell, the eval builtin, ". file", a for loop.        *)
eval_command  == Enter("redir")  /\ UNCHANGED <<counters, traps, ctl>>
prefix_scope  == Enter("prefix") /\ UNCHANGED <<counters, traps, ctl>>
eval_pipeline == Enter("pipe")   /\ UNCHANGED <<counters, traps, ctl>>
builtin_eval  == Enter("eval")   /\ UNCHANGED <<counters, traps, ctl>>
builtin_source ==
  Enter("source") /\ Room(2) /\ UNCHANGED <<counters, traps, ctl>>
eval_for      == Enter("for")    /\ UNCHANGED <<counters, traps, ctl>>

(* A while loop goes to its test first.                                    *)
eval_loop == /\ Enter("while") /\ Room(2) /\ errexit_suppress < MaxCount
             /\ ctl' = Do("test") /\ UNCHANGED <<counters, traps>>

loop_test ==
  /\ ctl.op = "test" /\ eval_push("cond", Run)
  /\ errexit_suppress' = errexit_suppress + 1 /\ ctl' = Run
  /\ UNCHANGED <<functions_running, exec_subshell_depth, sh_subshell, traps>>

(* The test of an if or elif, the left operand of && and ||, the operand   *)
(* of ! and time.                                                          *)
eval_if ==
  /\ Enter("test") /\ errexit_suppress < MaxCount
  /\ errexit_suppress' = errexit_suppress + 1
  /\ UNCHANGED <<functions_running, exec_subshell_depth, sh_subshell, traps, ctl>>

exec_function ==
  /\ Enter("function") /\ functions_running < MaxCount
  /\ functions_running' = functions_running + 1
  /\ UNCHANGED <<errexit_suppress, exec_subshell_depth, sh_subshell, traps, ctl>>

eval_subshell ==
  /\ \E k \in ShellKinds : Enter(k)
  /\ exec_subshell_depth' = exec_subshell_depth + 1 /\ sh_subshell' = sh_subshell + 1
  /\ UNCHANGED <<errexit_suppress, functions_running, traps, ctl>>

(* The body of a trap on a real signal, dispatched between two commands.   *)
trap_handler ==
  /\ ctl = Run /\ Kind(Size) # "prefix" /\ ~InTrap
  /\ "trap" \in Constructs /\ Room(1) /\ eval_push("trap", Run) /\ sh_async_exit' = TRUE
  /\ UNCHANGED <<counters, exit_trap, ctl>>

(* "trap ... EXIT" hangs trap_exit() on the nearest frame flagged E_ROOT.  *)
builtin_trap ==
  /\ Commands /\ SetsExitTrap /\ ~InTrap /\ Top.kind # "prefix" /\ exit_trap' = "set"
  /\ LET R == {i \in In(eval) : "ROOT" \in stack[i].flags} IN
     stack' = [stack EXCEPT ![Highest(R)].dtor = TRUE]
  /\ UNCHANGED <<chains, counters, sh_async_exit, ctl>>

(* A forked member of a pipeline or background job evaluates its part and  *)
(* exits: the inherited frames are no longer jump targets, the environment *)
(* becomes the root one.                                                   *)
(* Mutated: the inherited frames stay jump targets.                        *)
sh_forked_armed ==
  /\ Enter("child") /\ ~Child /\ exit_trap' = "none" /\ UNCHANGED <<counters, sh_async_exit, ctl>>
sh_forked ==
  /\ Commands /\ "child" \in Constructs /\ Room(1) /\ ~Child /\ Top.kind # "prefix"
  /\ sh' = <<>>
  /\ stack' = Append([i \in 1..Size |-> [stack[i] EXCEPT !.jump = FALSE,
                        !.flags = IF sh # <<>> /\ i = sh[Len(sh)] THEN @ \ {"FUNCTION"} ELSE @]],
                     [Top EXCEPT !.kind = "child", !.flags = {}, !.jump = FALSE, !.dtor = FALSE,
                                 !.then = Run])
  /\ exit_trap' = "none"
  /\ UNCHANGED <<eval, fdstack, varstack, source, counters, sh_async_exit, ctl>>

-----------------------------------------------------------------------------
(* Jumps.  eval_jump() counts loop frames outward.  A function, a subshell *)
(* or a line of the script ends the search; a sourced file does too, and   *)
(* without a match inside it the file is left first.                       *)

Leap(i, how) ==
  /\ stack' = SubSeq(stack, 1, i) /\ eval' = Under(eval, i + 1)
  /\ fdstack' = Cut(fdstack, stack[i].fd)
  /\ varstack' = Cut(varstack, stack[i].var)
  /\ source' = Cut(source, stack[i].src)
  /\ ctl' = DoAt("land", 0, how)

Bounds == {i \in In(eval) : \/ {"SOURCE", "FUNCTION"} \cap stack[i].flags # {}
                            \/ "ROOT" \in stack[i].flags /\ "EVAL" \notin stack[i].flags}
Innermost(S) == Highest({0} \cup S)
Loops(b) == {i \in In(eval) : i > b /\ stack[i].jump /\ "LOOP" \in stack[i].flags}
(* The n-th loop outward of the set L, or the outermost when L has fewer.  *)
NthLoop(L, n) ==
  CHOOSE i \in L : LET out == {h \in L : h >= i} IN
    Cardinality(out) = n \/ (Cardinality(L) < n /\ out = L)

builtin_break ==
  \E c \in {"break", "continue"}, n \in 1..MaxLevels :
    /\ May(c) /\ errexit_suppress < MaxCount /\ ctl' = DoAt("jump", n, c)
    /\ UNCHANGED <<stack, chains, counters, traps>>

(* Mutated: the search passes functions and subshells.                     *)
eval_jump_far ==
  /\ ctl.op = "jump"
  /\ LET L == Loops(0) IN
     \/ L # {} /\ Leap(NthLoop(L, ctl.n), ctl.how) /\ UNCHANGED sh
     \/ L = {} /\ ctl' = Run /\ UNCHANGED <<stack, chains>>
  /\ UNCHANGED <<counters, traps>>
(* Mutated: the redirections jumped over stay in force.                    *)
eval_jump_keeps ==
  /\ ctl.op = "jump"
  /\ LET L == Loops(Innermost(Bounds)) IN
     \/ /\ L # {} /\ ctl' = DoAt("land", 0, ctl.how)
        /\ LET i == NthLoop(L, ctl.n) IN
           /\ stack' = SubSeq(stack, 1, i) /\ eval' = Under(eval, i + 1)
           /\ varstack' = Cut(varstack, stack[i].var) /\ source' = Cut(source, stack[i].src)
        /\ UNCHANGED <<fdstack, sh>>
     \/ L = {} /\ ctl' = Run /\ UNCHANGED <<stack, chains>>
  /\ UNCHANGED <<counters, traps>>
eval_jump ==
  /\ ctl.op = "jump"
  /\ LET b == Innermost(Bounds)
         L == Loops(b)
     IN \/ L # {} /\ Leap(NthLoop(L, ctl.n), ctl.how) /\ UNCHANGED sh
        \/ /\ L = {} /\ b # 0 /\ "SOURCE" \in stack[b].flags
           /\ stack' = [SubSeq(stack, 1, b) EXCEPT ![b].pending = ctl.n,
                                                    ![b].pendcont = ctl.how = "continue"]
           /\ ctl' = DoAt("land", 0, "pending") /\ UNCHANGED chains
        \/ /\ L = {} /\ (b # 0 => "SOURCE" \notin stack[b].flags)
           /\ ctl' = Run /\ UNCHANGED <<stack, chains>>
  /\ UNCHANGED <<counters, traps>>

(* eval_return(): the nearest function, subshell or sourced file.          *)
Returnable == {i \in In(eval) : stack[i].jump /\ {"FUNCTION", "ROOT"} \cap stack[i].flags # {}}
eval_return ==
  /\ May("return")
  /\ LET f == Innermost(Returnable) IN
     ctl' = IF f = 0 THEN Run ELSE DoAt("dtor", f, "return")
  /\ UNCHANGED <<stack, chains, counters, traps>>

builtin_exit ==
  May("exit") /\ ctl' = DoAt("exit", 0, "exit") /\ UNCHANGED <<stack, chains, counters, traps>>

(* A command fails: set -e exits, except under a test.                     *)
errexit ==
  /\ May("fail") /\ Errexit /\ errexit_suppress = 0
  /\ ctl' = DoAt("exit", 0, "errexit") /\ UNCHANGED <<stack, chains, counters, traps>>

(* sh_exit() and eval_exit(): the nearest frame flagged E_ROOT that can be *)
(* jumped to; on the way one environment is popped per function frame.     *)
(* Without one, the process ends: sh_exit() first checks that only         *)
(* function environments lie above the root, and returns if not.           *)
Exitable == {i \in In(eval) : stack[i].jump /\ "ROOT" \in stack[i].flags}
(* Mutated: the environments of the functions left behind stay.            *)
eval_exit_keeps_env ==
  /\ ctl.op = "exit"
  /\ LET t == Innermost(Exitable) IN
     ctl' = IF t = 0 THEN DoAt("die", 0, "exit") ELSE DoAt("dtor", t, "exit")
  /\ UNCHANGED <<stack, chains, counters, traps>>
(* Mutated: the calls jumped over are taken off the count, all of them.    *)
eval_exit_uncounts ==
  /\ ctl.op = "exit" /\ functions_running' = 0
  /\ LET t == Innermost(Exitable) IN
     ctl' = IF t = 0 THEN DoAt("die", 0, "exit") ELSE DoAt("dtor", t, "exit")
  /\ UNCHANGED <<stack, chains, traps, errexit_suppress, exec_subshell_depth, sh_subshell>>
eval_exit ==
  /\ ctl.op = "exit"
  /\ LET t    == Innermost(Exitable)
         pops == Cardinality({i \in In(eval) : i > t /\ "FUNCTION" \in stack[i].flags})
         n    == IF pops < Len(sh) THEN Len(sh) - pops ELSE 0
     IN /\ sh' = SubSeq(sh, 1, n)
        /\ IF n < Len(sh) /\ sh[n + 1] <= Size
           THEN /\ fdstack' = Cut(fdstack, stack[sh[n + 1]].fd)
                /\ varstack' = Cut(varstack, stack[sh[n + 1]].var)
           ELSE UNCHANGED <<fdstack, varstack>>
        /\ ctl' = IF t # 0 THEN DoAt("dtor", t, "exit")
                  ELSE IF exit_trap = "running" \/ \A i \in In(sh) : Kind(i) = "function"
                  THEN DoAt("die", 0, "exit") ELSE DoAt("die", 0, "stray")
  /\ UNCHANGED <<stack, eval, source, counters, traps>>

(* The target's destructor: trap_exit() runs the EXIT trap, unless it is   *)
(* running already, in an environment of its own; then the jump goes on.   *)
AfterDtor == IF ctl.how = "end" THEN Do("leave") ELSE DoAt("unwind", ctl.n, ctl.how)
destructor ==
  /\ ctl.op = "dtor"
  /\ IF stack[ctl.n].dtor /\ exit_trap = "set"
     THEN eval_push("exittrap", AfterDtor) /\ exit_trap' = "running" /\ ctl' = Run
     ELSE ctl' = AfterDtor /\ UNCHANGED <<stack, chains, exit_trap>>
  /\ UNCHANGED <<counters, sh_async_exit>>

unwind ==
  /\ ctl.op = "unwind" /\ Leap(ctl.n, ctl.how)
  /\ UNCHANGED <<sh, counters, traps>>

(* The process ends, after the EXIT trap: the shell's own, or the one a    *)
(* background job has set when the job reaches its end.  With a stray      *)
(* environment sh_exit() returns to its caller instead.                    *)
sh_exit ==
  /\ ctl.op = "die"
  /\ LET then == IF ctl.how = "stray" THEN Run ELSE Done IN
     IF exit_trap = "set" /\ (~Child \/ ctl.how = "end")
     THEN eval_push("exittrap", then) /\ exit_trap' = "running" /\ ctl' = Run
     ELSE ctl' = then /\ UNCHANGED <<stack, chains, exit_trap>>
  /\ UNCHANGED <<counters, sh_async_exit>>

-----------------------------------------------------------------------------
(* Leaving an activation.  eval_pop() takes the chains back to the marks   *)
(* of its frame; then the activation pops its own scopes.  sh_pop(env)     *)
(* and the prefix scope are popped only when they are on top.              *)

Dropped(s, mark) == Under(IF Top.kind \in FrameKinds THEN Cut(s, mark) ELSE s, Size)
IfTop(s) == IF s # <<>> /\ s[Len(s)] = Size THEN SubSeq(s, 1, Len(s) - 1) ELSE s

eval_pop ==
  /\ stack' = SubSeq(stack, 1, Size - 1) /\ eval' = Under(eval, Size)
  /\ fdstack' = Dropped(fdstack, Top.fd) /\ source' = Dropped(source, Top.src)
  /\ varstack' = IF Top.kind = "prefix" THEN IfTop(varstack) ELSE Dropped(varstack, Top.var)
  /\ sh' = IfTop(sh)

(* A line, a redirection, a prefix, a pipeline, eval or for comes to its   *)
(* end; the end of a while body leads to the test.                         *)
command_end ==
  /\ ctl = Run /\ stack # <<>>
  /\ Top.kind \in {"line", "redir", "prefix", "pipe", "eval", "for"} /\ eval_pop
  /\ UNCHANGED <<counters, traps, ctl>>
loop_again == /\ ctl = Run /\ stack # <<>> /\ Top.kind = "while"
              /\ ctl' = Do("test")
              /\ UNCHANGED <<stack, chains, counters, traps>>

(* A test comes to its end; a loop's test ends the loop or runs its body.  *)
test_end ==
  /\ ctl = Run /\ stack # <<>> /\ Top.kind \in TestKinds /\ eval_pop
  /\ errexit_suppress' = errexit_suppress - 1
  /\ \/ ctl' = Run
     \/ Top.kind = "cond" /\ ctl' = Do("leave")
  /\ UNCHANGED <<functions_running, exec_subshell_depth, sh_subshell, traps>>
loop_end ==
  /\ ctl.op = "leave" /\ Top.kind = "while" /\ eval_pop /\ ctl' = Run
  /\ UNCHANGED <<counters, traps>>

(* break and continue arrive: the test again, the next word or the end.    *)
loop_land ==
  /\ ctl.op = "land" /\ Top.kind \in LoopKinds
  /\ IF ctl.how = "break" THEN eval_pop /\ ctl' = Run
     ELSE /\ ctl' = (IF Top.kind = "while" THEN Do("test") ELSE Run)
          /\ UNCHANGED <<stack, chains>>
  /\ UNCHANGED <<counters, traps>>

function_leave ==
  /\ ctl = Run \/ ctl.op = "land"
  /\ stack # <<>> /\ Top.kind = "function" /\ eval_pop
  /\ functions_running' = functions_running - 1 /\ ctl' = Run
  /\ UNCHANGED <<errexit_suppress, exec_subshell_depth, sh_subshell, traps>>

(* The end of a subshell's list calls the destructor itself, that of a     *)
(* command substitution does not.                                          *)
subshell_end ==
  /\ ctl = Run /\ stack # <<>> /\ Top.kind \in ShellKinds
  /\ ctl' = IF Top.kind = "subshell" THEN DoAt("dtor", Size, "end") ELSE Do("leave")
  /\ UNCHANGED <<stack, chains, counters, traps>>

(* The traps are put back; when the jump was an exit (or "return 0", which *)
(* looks the same) from a signal's trap, it goes on outside.               *)
subshell_leave ==
  /\ ctl.op \in {"land", "leave"} /\ Top.kind \in ShellKinds /\ eval_pop
  /\ exit_trap' = Top.traps
  /\ exec_subshell_depth' = exec_subshell_depth - 1 /\ sh_subshell' = sh_subshell - 1
  /\ \/ ctl.how # "exit" /\ ctl' = Run
     \/ /\ ctl.how \in {"exit", "return"}
        /\ ctl' = IF sh_async_exit THEN Do("exit") ELSE Run
  /\ UNCHANGED <<errexit_suppress, functions_running, sh_async_exit>>

(* The end of a sourced file, or a jump to it; a file that does not end in *)
(* a newline leaves by sh_exit().  A break or continue goes on outside.    *)
source_end ==
  /\ ctl = Run /\ stack # <<>> /\ Top.kind = "source"
  /\ \/ eval_pop /\ ctl' = Run
     \/ ctl' = Do("exit") /\ UNCHANGED <<stack, chains>>
  /\ UNCHANGED <<counters, traps>>
source_land ==
  /\ ctl.op = "land" /\ Top.kind = "source" /\ eval_pop
  /\ ctl' = IF Top.pending = 0 THEN Run
            ELSE DoAt("jump", Top.pending, IF Top.pendcont THEN "continue" ELSE "break")
  /\ UNCHANGED <<counters, traps>>

trap_end ==
  /\ ctl = Run /\ stack # <<>> /\ Top.kind = "trap" /\ eval_pop
  /\ sh_async_exit' = Top.async
  /\ UNCHANGED <<counters, exit_trap, ctl>>
trap_exit_end ==
  /\ ctl = Run /\ stack # <<>> /\ Top.kind = "exittrap" /\ eval_pop
  /\ exit_trap' = "set" /\ ctl' = Top.then
  /\ UNCHANGED <<counters, sh_async_exit>>

(* A background job comes to its end; a member of a pipeline leaves by     *)
(* sh_exit() after its last command, as does the script.                   *)
child_end ==
  /\ ctl = Run /\ stack # <<>> /\ Top.kind = "child"
  /\ ctl' \in {DoAt("die", 0, "end"), Do("exit")}
  /\ UNCHANGED <<stack, chains, counters, traps>>
script_end ==
  /\ ctl = Run /\ stack = <<>> /\ ctl' = Do("exit")
  /\ UNCHANGED <<stack, chains, counters, traps>>
Exited == ctl = Done /\ UNCHANGED vars

-----------------------------------------------------------------------------
Init ==
  /\ stack = <<>> /\ eval = <<>> /\ fdstack = <<>> /\ varstack = <<>>
  /\ source = <<>> /\ sh = <<>>
  /\ errexit_suppress = 0 /\ functions_running = 0
  /\ exec_subshell_depth = 0 /\ sh_subshell = 0
  /\ sh_async_exit = FALSE /\ exit_trap = "none" /\ ctl = Run

Next ==
  \/ sh_loop \/ eval_command \/ prefix_scope \/ eval_pipeline \/ builtin_eval
  \/ builtin_source \/ eval_for \/ eval_loop \/ loop_test \/ eval_if
  \/ exec_function \/ eval_subshell \/ trap_handler \/ builtin_trap \/ sh_forked
  \/ builtin_break \/ eval_jump \/ eval_return \/ builtin_exit \/ errexit
  \/ eval_exit \/ destructor \/ unwind \/ sh_exit
  \/ command_end \/ loop_again \/ test_end \/ loop_end \/ loop_land
  \/ function_leave \/ subshell_end \/ subshell_leave \/ source_end \/ source_land
  \/ trap_end \/ trap_exit_end \/ child_end \/ script_end \/ Exited

Spec == Init /\ [][Next]_vars

-----------------------------------------------------------------------------
(* The parts of the state are well formed: chains of positions, counters   *)
(* that never go below zero, and a pending break only in a sourced file.   *)
Ops == {"run", "done", "test", "jump", "exit", "dtor", "unwind", "die", "leave", "land"}
TypeOK ==
  /\ \A i \in 1..Size : /\ stack[i].kind \in Kinds
                       /\ stack[i].pending > 0 => stack[i].kind = "source"
  /\ \A s \in {eval, fdstack, varstack, source, sh} : In(s) \subseteq Nat \ {0}
  /\ {errexit_suppress, functions_running, exec_subshell_depth, sh_subshell} \subseteq Nat
  /\ sh_async_exit \in BOOLEAN /\ exit_trap \in {"none", "set", "running"}
  /\ ctl.op \in Ops

Live(K) == {i \in 1..Size : stack[i].kind \in K}
(* Activations that an exit or return is leaving while the EXIT trap runs: *)
(* their scopes may be gone already.                                       *)
Doomed(i) == \E j \in Live({"exittrap"}) :
               i < j /\ \/ stack[j].then.op = "unwind" /\ i > stack[j].then.n
                        \/ stack[j].then.op = "done"
(* Every scope of the chain belongs to a live activation of its kind and   *)
(* is linked once, and every live activation's scope is linked.            *)
Held(s, K, from) ==
  /\ In(s) \subseteq Live(K) /\ Cardinality(In(s)) = Len(s)
  /\ \A i \in Live(K) : i > from /\ ~Doomed(i) => i \in In(s)

(* When a command runs, the redirections, variable scopes and inputs in    *)
(* force are exactly those of the constructs it is nested in, whatever     *)
(* break, continue, return, exit or set -e did before (eval_jump(),        *)
(* eval_return(), eval_exit() and eval_pop() undo what they jump over).    *)
ScopesHeld ==
  ctl = Run => /\ Held(fdstack, FdKinds, 0) /\ Held(varstack, VarKinds, 0)
               /\ Held(source, SourceKinds, 0)

(* When a command runs, sh is the environment of the innermost function,   *)
(* subshell or EXIT trap that is still running, never one whose C frame is *)
(* gone (sh_pop() in eval_exit()); a forked child starts again at the root.*)
ChildAt == Highest({0} \cup Live({"child"}))
EnvHeld == ctl = Run => Held(sh, EnvKinds, ChildAt)

(* When a command runs, the chain of struct eval holds the live frames and *)
(* no other: a jump is never taken to a frame that has returned.           *)
EvalHeld == ctl = Run => Held(eval, FrameKinds, 0)

(* Whenever a command runs, all chains that the evaluator keeps, those of  *)
(* redirections, variables, inputs, environments and frames, are those of  *)
(* the constructs around it, however the ones before it were left.         *)
ChainsHeld == TypeOK /\ ScopesHeld /\ EnvHeld /\ EvalHeld

(* eval_pop()'s assertion: the frame popped is the current one.            *)
PopsCurrent ==
  ctl.op \in {"land", "leave"} => eval # <<>> /\ eval[Len(eval)] = Size

(* Function bodies and traps may be freed only outside subshells: the      *)
(* depth counters never lose track of the subshells that are running.      *)
DepthHeld ==
  ctl = Run => /\ exec_subshell_depth = Cardinality(Live(ShellKinds))
               /\ sh_subshell = Cardinality(Live(ShellKinds))

(* exec_function_leave() frees retired function bodies when the count of   *)
(* calls reaches zero: it never does while a call is still running.        *)
BodiesKept == functions_running >= Cardinality(Live({"function"}))

(* set -e is exempt inside tests only: the count is that of the tests the  *)
(* running command is nested in (eval.h).                                  *)
SuppressHeld == ctl = Run => errexit_suppress = Cardinality(Live(TestKinds))

(* Only while the body of a trap runs, or the exit it asked for is under   *)
(* way, does an exit end the process instead of a subshell (sh.h).         *)
AsyncHeld == ctl = Run /\ sh_async_exit => Live(TrapKinds) # {}

(* set -e never exits from a command that a test is waiting for, through   *)
(* any number of functions, subshells and loops in between (eval.h).       *)
ErrexitExempt == ctl.how = "errexit" => Live(TestKinds) = {}

(* What the evaluator counts instead of looking up is right where it is    *)
(* relied on: no running function body is freed, and set -e does not fire  *)
(* under a test, after any jump over the code that counts down.            *)
CountsHeld == BodiesKept /\ ErrexitExempt

(* An exit that a trap asked for climbs through functions, subshells and   *)
(* substitutions to the end of the process: on the way environments, depth *)
(* and the request itself are those of the shells that are still running.  *)
ShellsHeld == EnvHeld /\ DepthHeld /\ AsyncHeld

(* break and continue never leave a function call, a subshell, a command   *)
(* substitution or a forked child.                                         *)
BreakStays ==
  [][ctl.op = "jump" =>
       \A i \in Live(ShellKinds \cup {"function", "child"}) : i \in DOMAIN stack']_vars

(* No jump leaves a forked child: it never goes on with the script of the  *)
(* shell that forked it, whose frames it inherits.                         *)
ChildStays == [][Child => Child']_vars

(* A process does not end before the EXIT trap that it has set has run.    *)
TrapBeforeEnd == [][ctl.op = "die" /\ ctl' = Done => exit_trap # "set"]_vars
=============================================================================
