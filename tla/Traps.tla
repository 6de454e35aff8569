------------------------------- MODULE Traps -------------------------------
(***************************************************************************)
(* Traps for real signals (src/builtin/builtin_trap.c, lib/sig): the list  *)
(* of traps, the handler that only notes a signal, the loop that runs the  *)
(* bodies between commands, and the subshells of this shell, which share   *)
(* its process and so its list and its dispositions.                       *)
(*                                                                         *)
(* A signal is its number.  A trap is an element of node, alive until it   *)
(* is freed: [sig, body (FALSE: the signal is ignored), running, orphan,   *)
(* freed].  frames is the call stack: "sub", a subshell with the list it   *)
(* saved; "loop", trap_run_pending at signal `at`; "body", trap_handler    *)
(* running trap `at`.                                                      *)
(***************************************************************************)
EXTENDS Naturals, Sequences, SequencesExt, FiniteSets

CONSTANTS Sigs,              \* 1..n
          ShellSigs,         \* of these the ones an interactive shell ignores
          SIGSTACKSIZE,
          sh_interactive,
          MaxNodes, MaxFrames,
          Careful            \* no body is begun again while it runs, no subshell
                             \* undoes a trap of the shell around it, and an
                             \* interactive shell enters none with a body on a
                             \* signal of ShellSigs

(* Signals are numbered from 1, and lib/sig has room to save a handler.    *)
ASSUME TrapConstants == Sigs \subseteq Nat \ {0} /\ SIGSTACKSIZE \in Nat \ {0}

VARIABLES node, traps, disp, sigstack, sig_ignored, pending, deferred, signaled, frames, over

trapVars == <<node, traps, disp, sigstack, sig_ignored, pending, deferred, signaled, frames, over>>

Frame(kind, at, saved) == [kind |-> kind, at |-> at, saved |-> saved]
Top == frames[Len(frames)]
Subs == {i \in DOMAIN frames : frames[i].kind = "sub"}
trap_snap_depth == Cardinality(Subs)
(* The list the outermost subshell saved.                                  *)
trap_outer == IF Subs = {} THEN <<>> ELSE frames[Min(Subs)].saved
(* The trap of a signal in a list, 0 when there is none.                   *)
trap_find_in(ts, s) == LET at == SelectInSeq(ts, LAMBDA i : node[i].sig = s) IN IF at = 0 THEN 0 ELSE ts[at]
trap_find(s) == trap_find_in(traps, s)
(* Between two commands of a script, a body or a subshell.                 *)
Ready == over = "" /\ (frames # <<>> => Top.kind # "loop")

-----------------------------------------------------------------------------
(* lib/sig: [disp, stack] of one signal.                                   *)
sig_push(k, handler) == IF Len(k.stack) >= SIGSTACKSIZE THEN k
                        ELSE [disp |-> handler, stack |-> Append(k.stack, k.disp)]
sig_pop(k) == IF k.stack = <<>> THEN k ELSE [disp |-> Last(k.stack), stack |-> Front(k.stack)]
Of(s) == [disp |-> disp[s], stack |-> sigstack[s]]
Sets(s, k) == disp' = [disp EXCEPT ![s] = k.disp] /\ sigstack' = [sigstack EXCEPT ![s] = k.stack]

(* "trap - SIG" of a signal the shell itself ignores, or found ignored.    *)
Resets(s) == IF s \in ShellSigs /\ sh_interactive /\ trap_snap_depth > 0 THEN "dfl"
             ELSE IF s \in sig_ignored /\ sh_interactive THEN IF s \in ShellSigs THEN "ign" ELSE "dfl"
             ELSE ""
trap_reset_entry_ignore(s, k) == IF Resets(s) = "" THEN k ELSE [k EXCEPT !.disp = Resets(s)]
(* A signal ignored on entry to a script stays so.                         *)
Fixed(s) == s \in sig_ignored /\ ~sh_interactive
(* What a mutated Unlinked would do: a running body too.                   *)
FreedOnUninstall(n) == IF trap_snap_depth = 0 THEN [n EXCEPT !.freed = TRUE] ELSE n
Unlinked(n) == IF n.running THEN [n EXCEPT !.orphan = TRUE]
               ELSE IF trap_snap_depth = 0 THEN [n EXCEPT !.freed = TRUE] ELSE n
(* What trap_uninstall leaves: the kernel's side, the trap and the list.   *)
Uninstalled(s) ==
  LET t == trap_find(s)
  IN  IF t = 0 THEN [k |-> trap_reset_entry_ignore(s, Of(s)), node |-> node, traps |-> traps]
      ELSE [k |-> trap_reset_entry_ignore(s, sig_pop(Of(s))), node |-> [node EXCEPT ![t] = Unlinked(@)],
            traps |-> RemoveFirst(traps, t)]
Discards(s) == pending' = IF trap_find(s) = 0 THEN pending ELSE pending \ {s}
Unignored(s) == sig_ignored' = IF Resets(s) = "" THEN sig_ignored ELSE sig_ignored \ {s}

(* Careful: a subshell leaves alone what the shell around it has trapped.  *)
Allowed(s) == Careful => \A i \in Subs : trap_find_in(frames[i].saved, s) = 0

trap_uninstall(s) ==
  /\ Ready /\ Allowed(s) /\ ~Fixed(s)
  /\ LET u == Uninstalled(s) IN Sets(s, u.k) /\ node' = u.node /\ traps' = u.traps
  /\ Discards(s) /\ Unignored(s)
  /\ UNCHANGED <<deferred, signaled, frames, over>>
trap_install(s, body) ==
  LET u == Uninstalled(s)
      new == Len(node) + 1
      pushed == sig_push(u.k, IF body THEN "relay" ELSE "ign")
  IN  /\ Ready /\ Allowed(s) /\ ~Fixed(s) /\ new <= MaxNodes
      /\ node' = Append(u.node, [sig |-> s, body |-> body, running |-> FALSE, orphan |-> FALSE, freed |-> FALSE])
      /\ traps' = <<new>> \o u.traps
      /\ Sets(s, IF body THEN [pushed EXCEPT !.disp = "relay"] ELSE pushed)      \* trap_arm
      /\ Discards(s) /\ Unignored(s)
      /\ UNCHANGED <<deferred, signaled, frames, over>>
(* trap - SIG, trap '' SIG, trap CODE SIG.                                 *)
builtin_trap(s, code) == CASE code = "-" -> trap_uninstall(s) [] code = "" -> trap_install(s, FALSE) [] code = "code" -> trap_install(s, TRUE)

-----------------------------------------------------------------------------
(* A signal, at any moment.  Careful: not one whose body is being run.     *)
Running(s) == \E i \in DOMAIN frames : frames[i].kind = "body" /\ node[frames[i].at].sig = s
trap_relay(s) ==
  /\ over = "" /\ (Careful => ~Running(s))
  /\ CASE disp[s] = "dfl" -> over' = "killed" /\ UNCHANGED <<pending, signaled>>
       [] disp[s] = "ign" -> UNCHANGED <<over, pending, signaled>>
       [] disp[s] = "relay" -> pending' = pending \cup {s} /\ signaled' = TRUE /\ UNCHANGED over
  /\ UNCHANGED <<node, traps, disp, sigstack, sig_ignored, deferred, frames>>
(* kill -s SIG $$ in a subshell: for the shell around it, if that has a    *)
(* trap; else it is really sent.                                           *)
trap_signal_parent(s) ==
  LET t == trap_find_in(trap_outer, s)
  IN  /\ Ready /\ (Careful => ~Running(s))
      /\ t # 0
      /\ deferred' = IF node[t].body THEN deferred \cup {s} ELSE deferred
      /\ UNCHANGED <<node, traps, disp, sigstack, sig_ignored, pending, signaled, frames, over>>

(* What a mutated trap_run_pending would do: the first signal is skipped.  *)
run_pending_from_2 == /\ Ready /\ signaled /\ Len(frames) < MaxFrames
                      /\ signaled' = FALSE
                      /\ frames' = Append(frames, Frame("loop", 2, <<>>))
                      /\ UNCHANGED <<node, traps, disp, sigstack, sig_ignored, pending, deferred, over>>
trap_run_pending == /\ Ready /\ signaled /\ Len(frames) < MaxFrames
                    /\ signaled' = FALSE
                    /\ frames' = Append(frames, Frame("loop", 1, <<>>))
                    /\ UNCHANGED <<node, traps, disp, sigstack, sig_ignored, pending, deferred, over>>
(* The trap is the outer shell's and this is a subshell: not now.  What a  *)
(* command of the subshell sent is meant for the subshell, where the trap  *)
(* is reset: it has the default effect.                                    *)
trap_scope_defer(s) == trap_snap_depth > 0 /\ trap_find(s) \in ToSet(trap_outer)
LoopOn(s) == frames' = [frames EXCEPT ![Len(frames)].at = s + 1]
trap_handler(s) ==
  LET t == trap_find(s) IN
  CASE t = 0 -> over' = "stray" /\ UNCHANGED <<frames, node>>               \* sh_exit(1)
    [] t # 0 /\ ~node[t].body -> LoopOn(s) /\ UNCHANGED <<over, node>>
    [] OTHER -> /\ frames' = Append([frames EXCEPT ![Len(frames)].at = s + 1], Frame("body", t, <<>>))
                /\ node' = [node EXCEPT ![t].running = TRUE]
                /\ UNCHANGED over
LoopStep ==
  /\ over = "" /\ frames # <<>> /\ Top.kind = "loop"
  /\ LET due == {s \in pending : s >= Top.at} IN
     IF due = {} THEN frames' = Front(frames) /\ UNCHANGED <<pending, deferred, node, over>>
     ELSE \E s \in due :
            /\ \A r \in due : s <= r
            /\ pending' = pending \ {s}
            /\ \/ /\ trap_scope_defer(s) /\ LoopOn(s) /\ UNCHANGED node
                  /\ \/ deferred' = deferred \cup {s} /\ UNCHANGED over
                     \/ over' = "killed" /\ UNCHANGED deferred
               \/ ~trap_scope_defer(s) /\ trap_handler(s) /\ UNCHANGED deferred
  /\ UNCHANGED <<traps, disp, sigstack, sig_ignored, signaled>>
(* The body has run: an orphan is freed by whoever ran it.                 *)
EndBody ==
  /\ over = "" /\ frames # <<>> /\ Top.kind = "body"
  /\ node' = [node EXCEPT ![Top.at].running = FALSE, ![Top.at].freed = @ \/ node[Top.at].orphan]
  /\ frames' = Front(frames)
  /\ UNCHANGED <<traps, disp, sigstack, sig_ignored, pending, deferred, signaled, over>>

-----------------------------------------------------------------------------
(* A subshell of an interactive shell does not inherit that the shell      *)
(* ignores INT, QUIT and TERM: they are set to default when it begins and  *)
(* ignored again when it ends.  This spares "trap '' SIG", not a body.     *)
trap_ignores(s) == trap_find(s) # 0 /\ ~node[trap_find(s)].body
Restores(s) == sh_interactive /\ s \in ShellSigs \ sig_ignored /\ ~trap_ignores(s)
sh_sigrestore == disp' = [s \in Sigs |-> IF Restores(s) THEN "dfl" ELSE disp[s]]
sh_sigignore(s, k) == IF sh_interactive /\ s \in ShellSigs \ sig_ignored /\ k.disp = "dfl"
                      THEN [k EXCEPT !.disp = "ign"] ELSE k
trap_snapshot_save == /\ Ready /\ Len(frames) < MaxFrames
                      /\ Careful => \A s \in Sigs : Restores(s) => trap_find(s) = 0
                      /\ frames' = Append(frames, Frame("sub", 0, traps))
                      /\ sh_sigrestore
                      /\ UNCHANGED <<node, traps, sigstack, sig_ignored, pending, deferred, signaled, over>>
(* The traps the subshell set go, with their place on lib/sig's stack; the *)
(* bodies of the saved list are armed again, what it ignored is not;       *)
(* sh_sigignore() follows; and the outermost shell gets the signals that   *)
(* were meant for it.                                                      *)
Popped(new, s) == IF \E i \in new : node[i].sig = s THEN sig_pop(Of(s)) ELSE Of(s)
Rearmed(saved, s, k) == IF trap_find_in(saved, s) # 0 /\ node[trap_find_in(saved, s)].body THEN [k EXCEPT !.disp = "relay"] ELSE k
Restored(saved) ==
  LET new == ToSet(traps) \ ToSet(saved)
      k(s) == sh_sigignore(s, Rearmed(saved, s, Popped(new, s)))
  IN  /\ traps' = saved
      /\ node' = [i \in DOMAIN node |-> IF i \notin new THEN node[i]
                                        ELSE IF node[i].running THEN [node[i] EXCEPT !.orphan = TRUE]
                                        ELSE [node[i] EXCEPT !.freed = TRUE]]
      /\ disp' = [s \in Sigs |-> k(s).disp] /\ sigstack' = [s \in Sigs |-> k(s).stack]
Handed == IF trap_snap_depth = 1 THEN deferred ELSE {}
trap_snapshot_restore ==
  /\ over = "" /\ frames # <<>> /\ Top.kind = "sub"
  /\ Restored(Top.saved)
  /\ frames' = Front(frames)
  /\ LET left == pending \ {node[i].sig : i \in ToSet(traps) \ ToSet(Top.saved)}
     IN  /\ pending' = left \cup Handed
         /\ deferred' = deferred \ Handed
         /\ signaled' = (signaled \/ Handed # {})
  /\ UNCHANGED <<sig_ignored, over>>

-----------------------------------------------------------------------------
(* sig_snapshot, then sh_sigignore.                                        *)
Entry == [s \in Sigs |-> IF s \in sig_ignored \/ (sh_interactive /\ s \in ShellSigs) THEN "ign" ELSE "dfl"]
TrapInit ==
  /\ sig_ignored \in SUBSET Sigs
  /\ disp = Entry
  /\ node = <<>> /\ traps = <<>> /\ sigstack = [s \in Sigs |-> <<>>]
  /\ pending = {} /\ deferred = {} /\ signaled = FALSE /\ frames = <<>> /\ over = ""
TrapNext ==
  \/ \E s \in Sigs : trap_relay(s) \/ trap_signal_parent(s) \/ \E code \in {"-", "", "code"} : builtin_trap(s, code)
  \/ trap_run_pending \/ LoopStep \/ EndBody \/ trap_snapshot_save \/ trap_snapshot_restore
TrapSpec == TrapInit /\ [][TrapNext]_trapVars

-----------------------------------------------------------------------------
(* Types; a signal is on the list once: a new trap replaces, not stacks.   *)
TrapTypeOK ==
  /\ ToSet(traps) \subseteq DOMAIN node /\ \A i \in DOMAIN node : node[i].sig \in Sigs
  /\ \A i, j \in ToSet(traps) : node[i].sig = node[j].sig => i = j
  /\ disp \in [Sigs -> {"dfl", "ign", "relay"}]
  /\ pending \cup deferred \cup sig_ignored \subseteq Sigs
  /\ signaled \in BOOLEAN /\ over \in {"", "killed", "stray"}
(* lib/sig's small stack is in step with the list: one place per trap, so  *)
(* that no sequence of traps, in subshells or not, exhausts it.            *)
StackMatches == \A s \in Sigs : Len(sigstack[s]) = IF trap_find(s) = 0 THEN 0 ELSE 1
(* The tree of a body that is being run is not freed under it, whatever    *)
(* the body does to its own trap or in a subshell.                         *)
BodyLives == \A i \in DOMAIN frames : frames[i].kind = "body" => ~node[frames[i].at].freed
(* Nor is a trap that the list, or the list a subshell will put back,      *)
(* still holds.                                                            *)
ListLives == \A ts \in {traps} \cup {frames[i].saved : i \in DOMAIN frames} : \A i \in ToSet(ts) : ~node[i].freed
(* The kernel does what the list says: a body is called for, an ignored    *)
(* signal ignored, one without a trap has its default effect again.        *)
Promised(s) == LET t == trap_find(s) IN IF t = 0 THEN {"dfl", "ign"} ELSE IF node[t].body THEN {"relay"} ELSE {"ign"}
DispositionKept == \A s \in Sigs : disp[s] \in Promised(s)
(* No INT, QUIT or TERM kills an interactive shell between its commands,   *)
(* whatever the subshells that have ended did with them.                   *)
PromptSafe == (Subs = {} /\ sh_interactive) => \A s \in ShellSigs \cap Sigs : disp[s] # "dfl"
(* A signal that is waiting has been noted, or a loop has still to come to *)
(* it: none is forgotten.                                                  *)
PendingNoticed ==
  \A s \in pending : signaled \/ \E i \in DOMAIN frames : frames[i].kind = "loop" /\ frames[i].at <= s
(* A signal kept for the outer shell is handed over when the subshell ends. *)
DeferredKept == deferred # {} => trap_snap_depth > 0
(* No signal is dispatched when its trap is gone.                          *)
NoStraySignal == over # "stray"

(* No trap is freed while its body runs, while the list holds it, or while *)
(* a list that a subshell will put back does; a signal has one at a time.  *)
TrapsLive == TrapTypeOK /\ BodyLives /\ ListLives
(* No signal that arrived is forgotten, kept from the shell it was for, or *)
(* dispatched when its trap is gone; the kernel and lib/sig have what the  *)
(* list says; and none that an interactive shell ignores kills it.         *)
SignalsKept == PendingNoticed /\ DeferredKept /\ NoStraySignal /\ DispositionKept /\ StackMatches /\ PromptSafe
=============================================================================
