---------------------------- MODULE TrapsProofs ----------------------------
(***************************************************************************)
(* Proofs about Traps, for every set of signals and any number of traps,   *)
(* nested bodies and subshells: no trap is freed that is still needed, no  *)
(* signal is lost, and the kernel does what the list of traps says.        *)
(***************************************************************************)
EXTENDS Traps, ListLemmas

-----------------------------------------------------------------------------
(* The inductive invariant *)

Nodes == [sig : Sigs, body : BOOLEAN, running : BOOLEAN, orphan : BOOLEAN, freed : BOOLEAN]
FrameSet == [kind : {"sub", "loop", "body"}, at : Nat, saved : Seq(Nat)]
Default == {"dfl", "ign"}

(* A list of traps: one per signal, none of them freed or an orphan.       *)
ListIn(l, nd) ==
  /\ l \in Seq(DOMAIN nd) /\ Distinct(l)
  /\ \A x, y \in ToSet(l) : nd[x].sig = nd[y].sig => x = y
  /\ \A x \in ToSet(l) : ~nd[x].freed /\ ~nd[x].orphan

TypesOK ==
  /\ node \in Seq(Nodes) /\ frames \in Seq(FrameSet)
  /\ disp \in [Sigs -> Default \cup {"relay"}] /\ sigstack \in [Sigs -> Seq(Default)]
  /\ sig_ignored \subseteq Sigs /\ pending \subseteq Sigs /\ deferred \subseteq Sigs
  /\ signaled \in BOOLEAN /\ over \in {"", "killed", "stray"}

(* A body that runs says so, and no two are of the same signal.            *)
Bodies == {i \in DOMAIN frames : frames[i].kind = "body"}
BodiesOK ==
  /\ \A i \in Bodies : frames[i].at \in DOMAIN node /\ node[frames[i].at].running /\ ~node[frames[i].at].freed
  /\ \A i, j \in Bodies : node[frames[i].at].sig = node[frames[j].at].sig => i = j

(* Each subshell found the traps of those around it, and has kept them.    *)
ListsOK ==
  /\ ListIn(traps, node)
  /\ \A i \in DOMAIN frames \ Subs : frames[i].saved = <<>>
  /\ \A i \in Subs : ListIn(frames[i].saved, node) /\ ToSet(frames[i].saved) \subseteq ToSet(traps)
  /\ \A i, j \in Subs : i < j => ToSet(frames[i].saved) \subseteq ToSet(frames[j].saved)

(* A signal that waits has a trap, in this shell or in the outermost, and  *)
(* its body is not running.                                                *)
WaitingOK ==
  /\ \A s \in pending : \E i \in ToSet(traps) : node[i].sig = s
  /\ \A s \in deferred : Subs # {} /\ \E i \in ToSet(trap_outer) : node[i].sig = s
  /\ \A s \in pending \cup deferred : ~Running(s)

(* The kernel's side of a signal, with and without a trap.                 *)
KernelOK ==
  \A s \in Sigs :
    /\ \A i \in ToSet(traps) : node[i].sig = s => Len(sigstack[s]) = 1 /\ disp[s] = IF node[i].body THEN "relay" ELSE "ign"
    /\ (\A i \in ToSet(traps) : node[i].sig # s) => sigstack[s] = <<>> /\ disp[s] \in Default

(* An interactive shell ignores INT, QUIT and TERM where it has no trap    *)
(* for them: now, outside of subshells, and again when the trap it has     *)
(* goes.  What was ignored on entry is, until a trap is set.               *)
PromptOK ==
  sh_interactive => \A s \in ShellSigs \cap Sigs :
    /\ s \in sig_ignored => disp[s] = "ign" /\ sigstack[s] = <<>>
    /\ (Subs = {} \/ \E i \in ToSet(trap_outer) : node[i].sig = s) => sigstack[s] \in Seq({"ign"})
    /\ Subs = {} => disp[s] # "dfl"

TrapInv == TypesOK /\ BodiesOK /\ ListsOK /\ WaitingOK /\ KernelOK /\ PromptOK /\ PendingNoticed /\ NoStraySignal

-----------------------------------------------------------------------------
(* Finding traps *)

(* trap_find_in, on a list with one trap per signal.                       *)
FindIn(ts, nd, s) == LET at == SelectInSeq(ts, LAMBDA i : nd[i].sig = s) IN IF at = 0 THEN 0 ELSE ts[at]
LEMMA FoundIn ==
  ASSUME NEW nd, NEW l, ListIn(l, nd), DOMAIN nd \subseteq Nat \ {0}, NEW s
  PROVE  /\ (\A x \in ToSet(l) : nd[x].sig # s) => FindIn(l, nd, s) = 0
         /\ \A x \in ToSet(l) : nd[x].sig = s => FindIn(l, nd, s) = x
         /\ FindIn(l, nd, s) # 0 => FindIn(l, nd, s) \in ToSet(l) /\ nd[FindIn(l, nd, s)].sig = s
<1> DEFINE I == {a \in 1..Len(l) : nd[l[a]].sig = s}
<1>1. l \in Seq(DOMAIN nd) /\ DOMAIN l = 1..Len(l) /\ Len(l) \in Nat
  BY DEF ListIn
<1>2. FindIn(l, nd, s) = LET at == IF I # {} THEN Min(I) ELSE 0 IN IF at = 0 THEN 0 ELSE l[at]
  BY DEF FindIn, SelectInSeq
<1>3. CASE I = {}
  <2>1. FindIn(l, nd, s) = 0
    BY <1>2, <1>3, Zenon
  <2>2. \A x \in ToSet(l) : nd[x].sig # s
    BY <1>1, <1>3 DEF ToSet
  <2> QED BY <2>1, <2>2
<1>4. CASE I # {}
  <2>1. Min(I) \in I
    <3>1. I \in SUBSET Nat
      OBVIOUS
    <3> QED BY <3>1, <1>4, MinOf
  <2>2. FindIn(l, nd, s) = l[Min(I)]
    BY <2>1, <1>2, <1>4
  <2>3. l[Min(I)] \in ToSet(l) /\ nd[l[Min(I)]].sig = s
    BY <2>1, <1>1 DEF ToSet
  <2> HIDE DEF I
  <2>4. \A x \in ToSet(l) : nd[x].sig = s => x = l[Min(I)]
    BY <2>3 DEF ListIn
  <2> QED BY <2>2, <2>3, <2>4
<1> QED BY <1>3, <1>4

(* What trap_find_in answers for a list of traps.                          *)
LEMMA FindIs ==
  ASSUME node \in Seq(Nodes), NEW l, ListIn(l, node), NEW s
  PROVE  /\ (\A x \in ToSet(l) : node[x].sig # s) => trap_find_in(l, s) = 0
         /\ \A x \in ToSet(l) : node[x].sig = s => trap_find_in(l, s) = x
         /\ trap_find_in(l, s) # 0 => trap_find_in(l, s) \in ToSet(l) /\ node[trap_find_in(l, s)].sig = s
         /\ \A x \in ToSet(l) : x \in DOMAIN node /\ x # 0 /\ x \in Nat
<1>1. trap_find_in(l, s) = FindIn(l, node, s)
  BY DEF trap_find_in, FindIn
<1>2. DOMAIN node \subseteq Nat \ {0}
  OBVIOUS
<1>3. \A x \in ToSet(l) : x \in DOMAIN node
  BY DEF ListIn, ToSet
<1> QED BY <1>1, <1>2, <1>3, FoundIn

(* The list of the outermost subshell is one of the saved ones.            *)
LEMMA OuterIs ==
  ASSUME frames \in Seq(FrameSet), ListsOK
  PROVE  /\ Subs = {} => trap_outer = <<>>
         /\ Subs # {} => Min(Subs) \in Subs /\ (\A i \in Subs : Min(Subs) <= i) /\ trap_outer = frames[Min(Subs)].saved
         /\ ListIn(trap_outer, node) /\ ToSet(trap_outer) \subseteq ToSet(traps)
         /\ \A i \in Subs : ToSet(trap_outer) \subseteq ToSet(frames[i].saved)
<1>1. Subs \in SUBSET Nat
  BY DEF Subs
<1>2. CASE Subs = {}
  <2>1. trap_outer = <<>>
    BY <1>2 DEF trap_outer
  <2>2. ListIn(<<>>, node) /\ ToSet(<<>>) = {}
    BY DEF ListIn, ToSet, Distinct
  <2> QED BY <1>2, <2>1, <2>2
<1>3. CASE Subs # {}
  <2>1. Min(Subs) \in Subs /\ \A i \in Subs : Min(Subs) <= i
    BY <1>1, <1>3, MinOf
  <2>2. trap_outer = frames[Min(Subs)].saved
    BY <1>3 DEF trap_outer
  <2>3. \A i \in Subs : ToSet(trap_outer) \subseteq ToSet(frames[i].saved)
    <3> SUFFICES ASSUME NEW i \in Subs PROVE ToSet(trap_outer) \subseteq ToSet(frames[i].saved)
      OBVIOUS
    <3>1. Min(Subs) = i \/ Min(Subs) < i
      <4>1. Min(Subs) \in Nat /\ i \in Nat /\ Min(Subs) <= i
        BY <2>1, <1>1
      <4> HIDE DEF Subs
      <4> QED BY <4>1
    <3> QED BY <2>1, <2>2, <3>1 DEF ListsOK
  <2> QED BY <1>3, <2>1, <2>2, <2>3 DEF ListsOK
<1> QED BY <1>2, <1>3

LEMMA DepthIs ==
  ASSUME frames \in Seq(FrameSet)
  PROVE  /\ trap_snap_depth \in Nat
         /\ trap_snap_depth = 0 <=> Subs = {}
         /\ trap_snap_depth <= 1 <=> \A i, j \in Subs : i = j
<1>1. Subs \in SUBSET (1..Len(frames)) /\ Len(frames) \in Nat
  BY DEF Subs
<1> QED BY <1>1, Counting DEF trap_snap_depth

-----------------------------------------------------------------------------
(* The call stack *)

(* Something is entered: a loop, a body, a subshell.                       *)
LEMMA PushFrame ==
  ASSUME NEW fr \in Seq(FrameSet), NEW c \in FrameSet, NEW n, n = Len(fr) + 1
  PROVE  /\ Append(fr, c) \in Seq(FrameSet) /\ n \in Nat \ {0}
         /\ DOMAIN Append(fr, c) = DOMAIN fr \cup {n} /\ Append(fr, c)[n] = c
         /\ \A k \in DOMAIN fr : k \in Nat /\ k < n /\ Append(fr, c)[k] = fr[k]
<1>1. DOMAIN fr = 1..Len(fr) /\ Len(fr) \in Nat
  OBVIOUS
<1>2. /\ Append(fr, c) \in Seq(FrameSet) /\ Len(Append(fr, c)) = Len(fr) + 1
      /\ \A k \in 1..Len(fr) : Append(fr, c)[k] = fr[k] /\ Append(fr, c)[Len(fr) + 1] = c
      /\ Append(fr, c)[Len(fr) + 1] = c
  OBVIOUS
<1>3. DOMAIN Append(fr, c) = 1..(Len(fr) + 1)
  BY <1>2
<1> QED BY <1>1, <1>2, <1>3

(* trap_run_pending goes on to the signals after s.                        *)
LEMMA LoopFrame ==
  ASSUME frames \in Seq(FrameSet), frames # <<>>, NEW s \in Nat
  PROVE  LET fr == [frames EXCEPT ![Len(frames)].at = s + 1]
         IN  /\ fr \in Seq(FrameSet) /\ Len(fr) = Len(frames) /\ DOMAIN fr = DOMAIN frames
             /\ Len(frames) \in DOMAIN frames /\ Len(frames) \in Nat
             /\ \A k \in DOMAIN frames : fr[k].kind = frames[k].kind /\ fr[k].saved = frames[k].saved
             /\ \A k \in DOMAIN frames \ {Len(frames)} : fr[k] = frames[k]
             /\ fr[Len(frames)].at = s + 1
<1> DEFINE n == Len(frames)
           c == [frames[n] EXCEPT !.at = s + 1]
           fr == [frames EXCEPT ![n].at = s + 1]
<1>1. n \in DOMAIN frames /\ n \in Nat
  OBVIOUS
<1>2. frames[n] \in FrameSet
  BY <1>1
<1>3. c \in FrameSet /\ c.kind = frames[n].kind /\ c.saved = frames[n].saved /\ c.at = s + 1
  <2> DEFINE f == frames[n]
             g == [kind |-> f.kind, at |-> s + 1, saved |-> f.saved]
  <2>1. f.kind \in {"sub", "loop", "body"} /\ f.saved \in Seq(Nat) /\ f = [kind |-> f.kind, at |-> f.at, saved |-> f.saved]
    BY <1>2 DEF FrameSet
  <2> HIDE DEF f
  <2>2. [f EXCEPT !.at = s + 1] = g
    BY <2>1
  <2>3. s + 1 \in Nat
    OBVIOUS
  <2>4. g \in FrameSet
    BY <2>1, <2>3, Zenon DEF FrameSet
  <2> QED BY <2>2, <2>4 DEF f
<1>4. fr = [frames EXCEPT ![n] = c]
  OBVIOUS
<1> HIDE DEF c, fr
<1>5. fr \in Seq(FrameSet)
  BY <1>1, <1>3, <1>4
<1>6. DOMAIN fr = DOMAIN frames /\ \A k \in DOMAIN frames : fr[k] = IF k = n THEN c ELSE frames[k]
  BY <1>4
<1>7. Len(fr) = n
  BY <1>5, <1>6
<1>8. /\ \A k \in DOMAIN frames : fr[k].kind = frames[k].kind /\ fr[k].saved = frames[k].saved
      /\ \A k \in DOMAIN frames \ {n} : fr[k] = frames[k]
      /\ fr[n].at = s + 1
  BY <1>1, <1>3, <1>6
<1> QED BY <1>1, <1>5, <1>6, <1>7, <1>8 DEF fr

-----------------------------------------------------------------------------
(* What each operation keeps *)

(* What does not change when the traps and the call stack do not.          *)
LEMMA SameTraps ==
  ASSUME BodiesOK, ListsOK, UNCHANGED <<node, traps, frames>>
  PROVE  /\ BodiesOK' /\ ListsOK' /\ Subs' = Subs /\ trap_outer' = trap_outer
         /\ \A s : Running(s)' = Running(s)
<1>1. Subs' = Subs /\ Bodies' = Bodies
  BY DEF Subs, Bodies
<1>2. BodiesOK'
  BY <1>1 DEF BodiesOK
<1>3. ListsOK'
  BY <1>1 DEF ListsOK
<1>4. trap_outer' = trap_outer
  BY <1>1 DEF trap_outer
<1>5. \A s : Running(s)' = Running(s)
  BY DEF Running
<1> QED BY <1>1, <1>2, <1>3, <1>4, <1>5

(* Nor when no disposition, no subshell and no trap's signal changes.      *)
LEMMA PromptKept ==
  ASSUME PromptOK, UNCHANGED <<disp, sigstack, sig_ignored>>, Subs' = Subs, trap_outer' = trap_outer,
         \A i \in ToSet(trap_outer) : node'[i].sig = node[i].sig
  PROVE  PromptOK'
BY DEF PromptOK

(* A signal arrives.                                                       *)
LEMMA RelaySafe ==
  ASSUME Careful, TrapInv, NEW s \in Sigs, trap_relay(s)
  PROVE  TrapInv'
<1>1. /\ UNCHANGED <<node, traps, disp, sigstack, sig_ignored, deferred, frames>>
      /\ ~Running(s)
      /\ \/ UNCHANGED <<pending, signaled>> /\ (over' = "killed" \/ over' = over)
         \/ disp[s] = "relay" /\ pending' = pending \cup {s} /\ signaled' = TRUE /\ over' = over
  <2>1. disp[s] \in {"dfl", "ign", "relay"}
    BY DEF TrapInv, TypesOK, Default
  <2> QED BY <2>1 DEF trap_relay
<1>2. TypesOK /\ BodiesOK /\ ListsOK /\ WaitingOK /\ KernelOK /\ PendingNoticed /\ NoStraySignal
  BY DEF TrapInv
<1>3. BodiesOK' /\ ListsOK' /\ Subs' = Subs /\ trap_outer' = trap_outer /\ \A r : Running(r)' = Running(r)
  BY <1>1, <1>2, SameTraps
<1>4. TypesOK'
  BY <1>1, <1>2 DEF TypesOK
<1>5. KernelOK'
  BY <1>1, <1>2 DEF KernelOK
<1>6. disp[s] = "relay" => \E i \in ToSet(traps) : node[i].sig = s
  BY <1>2 DEF KernelOK, Default
<1>7. WaitingOK'
  BY <1>1, <1>2, <1>3, <1>6 DEF WaitingOK
<1>8. PendingNoticed'
  BY <1>1, <1>2 DEF PendingNoticed
<1>9. NoStraySignal'
  BY <1>1, <1>2 DEF NoStraySignal
<1>10. PromptOK'
  BY <1>1, <1>3, PromptKept DEF TrapInv
<1> QED BY <1>3, <1>4, <1>5, <1>7, <1>8, <1>9, <1>10 DEF TrapInv

(* A subshell sends a signal to the shell.                                 *)
LEMMA ParentSafe ==
  ASSUME Careful, TrapInv, NEW s \in Sigs, trap_signal_parent(s)
  PROVE  TrapInv'
<1>1. /\ UNCHANGED <<node, traps, disp, sigstack, sig_ignored, pending, signaled, frames, over>>
      /\ ~Running(s) /\ trap_find_in(trap_outer, s) # 0 /\ deferred' \subseteq deferred \cup {s}
  BY DEF trap_signal_parent
<1>2. TypesOK /\ BodiesOK /\ ListsOK /\ WaitingOK /\ KernelOK /\ PendingNoticed /\ NoStraySignal
  BY DEF TrapInv
<1>3. BodiesOK' /\ ListsOK' /\ Subs' = Subs /\ trap_outer' = trap_outer /\ \A r : Running(r)' = Running(r)
  BY <1>1, <1>2, SameTraps
<1>4. TypesOK'
  BY <1>1, <1>2 DEF TypesOK
<1>5. KernelOK'
  BY <1>1, <1>2 DEF KernelOK
<1>6. Subs # {} /\ \E i \in ToSet(trap_outer) : node[i].sig = s
  <2>1. node \in Seq(Nodes) /\ frames \in Seq(FrameSet)
    BY <1>2 DEF TypesOK
  <2>2. ListIn(trap_outer, node) /\ (Subs = {} => trap_outer = <<>>)
    BY <2>1, <1>2, OuterIs
  <2>3. \E i \in ToSet(trap_outer) : node[i].sig = s
    BY <2>1, <2>2, <1>1, FindIs
  <2> QED BY <2>2, <2>3 DEF ToSet
<1>7. WaitingOK'
  BY <1>1, <1>2, <1>3, <1>6 DEF WaitingOK
<1>8. PendingNoticed'
  BY <1>1, <1>2 DEF PendingNoticed
<1>9. NoStraySignal'
  BY <1>1, <1>2 DEF NoStraySignal
<1>10. PromptOK'
  BY <1>1, <1>3, PromptKept DEF TrapInv
<1> QED BY <1>3, <1>4, <1>5, <1>7, <1>8, <1>9, <1>10 DEF TrapInv

(* One of the signals that an interactive shell ignores, outside of        *)
(* subshells.                                                              *)
AtPrompt(s) == sh_interactive /\ s \in ShellSigs /\ Subs = {}

(* What trap_uninstall leaves: the signal has no trap and no place on      *)
(* lib/sig's stack; no list holds the trap it had, and no body that runs   *)
(* is freed.  The shell ignores it again if it is one of its own.          *)
LEMMA UninstallIs ==
  ASSUME Careful, TrapInv, NEW s \in Sigs, Allowed(s)
  PROVE  LET u == Uninstalled(s)
         IN  /\ u.node \in Seq(Nodes) /\ DOMAIN u.node = DOMAIN node
             /\ \A i \in DOMAIN node : /\ u.node[i].sig = node[i].sig /\ u.node[i].body = node[i].body
                                       /\ u.node[i].running = node[i].running
                                       /\ node[i].running => u.node[i].freed = node[i].freed
             /\ u.traps \in Seq(DOMAIN node) /\ Distinct(u.traps)
             /\ ToSet(u.traps) = {x \in ToSet(traps) : node[x].sig # s}
             /\ \A x \in ToSet(traps) : node[x].sig # s => u.node[x] = node[x]
             /\ \A i \in Subs : \A x \in ToSet(frames[i].saved) : node[x].sig # s
             /\ u.k.disp \in Default /\ u.k.stack = <<>>
             /\ AtPrompt(s) => u.k.disp = "ign"
<1> DEFINE t == trap_find(s)
           u == Uninstalled(s)
<1>1. /\ node \in Seq(Nodes) /\ frames \in Seq(FrameSet) /\ ListIn(traps, node)
      /\ disp \in [Sigs -> Default \cup {"relay"}] /\ sigstack \in [Sigs -> Seq(Default)]
      /\ \A i \in Subs : ListIn(frames[i].saved, node)
  BY DEF TrapInv, TypesOK, ListsOK
<1>2. \A i \in Subs : \A x \in ToSet(frames[i].saved) : node[x].sig # s
  <2> SUFFICES ASSUME NEW i \in Subs, NEW x \in ToSet(frames[i].saved), node[x].sig = s PROVE FALSE
    OBVIOUS
  <2>1. trap_find_in(frames[i].saved, s) = x /\ x # 0
    BY <1>1, FindIs
  <2>2. trap_find_in(frames[i].saved, s) = 0
    BY DEF Allowed
  <2> QED BY <2>1, <2>2
<1>3. /\ t = 0 => \A x \in ToSet(traps) : node[x].sig # s
      /\ t # 0 => t \in ToSet(traps) /\ node[t].sig = s /\ \A x \in ToSet(traps) : node[x].sig = s => x = t
      /\ \A x \in ToSet(traps) : x \in DOMAIN node
  <2>1. /\ \A x \in ToSet(traps) : node[x].sig = s => t = x /\ x # 0
        /\ t # 0 => t \in ToSet(traps) /\ node[t].sig = s
        /\ \A x \in ToSet(traps) : x \in DOMAIN node
    BY <1>1, FindIs DEF trap_find
  <2> QED BY <2>1
<1>4. traps \in Seq(DOMAIN node) /\ Distinct(traps)
  BY <1>1 DEF ListIn
<1>5. ASSUME NEW d \in Default
      PROVE  /\ trap_reset_entry_ignore(s, [disp |-> d, stack |-> <<>>]).disp \in Default
             /\ trap_reset_entry_ignore(s, [disp |-> d, stack |-> <<>>]).stack = <<>>
             /\ AtPrompt(s) /\ d = "ign" => trap_reset_entry_ignore(s, [disp |-> d, stack |-> <<>>]).disp = "ign"
  <2> DEFINE k == [disp |-> d, stack |-> <<>>]
             r == Resets(s)
  <2>1. r \in Default \cup {""}
    BY DEF Resets, Default
  <2>8. AtPrompt(s) => r \in {"ign", ""}
    <3>1. Subs = {} => trap_snap_depth = 0
      BY <1>1, DepthIs
    <3> HIDE DEF trap_snap_depth
    <3> QED BY <3>1 DEF AtPrompt, Resets
  <2>2. trap_reset_entry_ignore(s, k) = IF r = "" THEN k ELSE [k EXCEPT !.disp = r]
    BY DEF trap_reset_entry_ignore
  <2> HIDE DEF r
  <2>3. [k EXCEPT !.disp = r] = [disp |-> r, stack |-> <<>>]
    OBVIOUS
  <2>4. trap_reset_entry_ignore(s, k) = [disp |-> IF r = "" THEN d ELSE r, stack |-> <<>>]
    BY <2>2, <2>3
  <2>5. (IF r = "" THEN d ELSE r) \in Default
    BY <2>1, <1>5
  <2> DEFINE x == trap_reset_entry_ignore(s, k)
             e == IF r = "" THEN d ELSE r
  <2>6. x = [disp |-> e, stack |-> <<>>] /\ e \in Default
    BY <2>4, <2>5
  <2> HIDE DEF x, e
  <2>7. x.disp \in Default /\ x.stack = <<>> /\ x.disp = e
    BY <2>6
  <2>9. AtPrompt(s) /\ d = "ign" => e = "ign"
    BY <2>8 DEF e
  <2> QED BY <2>7, <2>9 DEF x
<1> HIDE DEF t
<1>8. AtPrompt(s) => disp[s] # "dfl" /\ sigstack[s] \in Seq({"ign"})
  BY DEF TrapInv, PromptOK, AtPrompt
<1>6. CASE t = 0
  <2>1. u = [k |-> trap_reset_entry_ignore(s, Of(s)), node |-> node, traps |-> traps]
    BY <1>6 DEF Uninstalled, t
  <2>2. sigstack[s] = <<>> /\ disp[s] \in Default
    BY <1>3, <1>6 DEF TrapInv, KernelOK
  <2>3. Of(s) = [disp |-> disp[s], stack |-> <<>>]
    BY <2>2 DEF Of
  <2>4. trap_reset_entry_ignore(s, Of(s)).disp \in Default /\ trap_reset_entry_ignore(s, Of(s)).stack = <<>>
    BY <2>2, <2>3, <1>5
  <2>6. AtPrompt(s) => trap_reset_entry_ignore(s, Of(s)).disp = "ign"
    BY <2>2, <2>3, <1>5, <1>8 DEF Default
  <2>5. u.node = node /\ u.traps = traps /\ u.k.disp \in Default /\ u.k.stack = <<>> /\ (AtPrompt(s) => u.k.disp = "ign")
    BY <2>1, <2>4, <2>6
  <2> HIDE DEF u
  <2> QED BY <2>5, <1>1, <1>2, <1>3, <1>4, <1>6 DEF u
<1>7. CASE t # 0
  <2> DEFINE k == trap_reset_entry_ignore(s, sig_pop(Of(s)))
             nd == [node EXCEPT ![t] = Unlinked(node[t])]
             ts == RemoveFirst(traps, t)
  <2>1. u = [k |-> k, node |-> nd, traps |-> ts]
    BY <1>7 DEF Uninstalled, t
  <2>2. t \in DOMAIN node /\ t \in ToSet(traps) /\ node[t].sig = s
    BY <1>3, <1>7
  <2>3. ts \in Seq(DOMAIN node) /\ Distinct(ts) /\ ToSet(ts) = ToSet(traps) \ {t}
    BY <1>4, Unlinking
  <2>4. ToSet(ts) = {x \in ToSet(traps) : node[x].sig # s}
    BY <2>2, <2>3, <1>3, <1>7
  <2>5. /\ Unlinked(node[t]) \in Nodes /\ Unlinked(node[t]).sig = node[t].sig /\ Unlinked(node[t]).body = node[t].body
        /\ Unlinked(node[t]).running = node[t].running
        /\ node[t].running => Unlinked(node[t]).freed = node[t].freed
    <3>1. node[t] \in Nodes
      BY <2>2, <1>1
    <3> QED BY <3>1 DEF Unlinked, Nodes
  <2>6. /\ sig_pop(Of(s)).disp \in Default /\ (AtPrompt(s) => sig_pop(Of(s)).disp = "ign")
        /\ sig_pop(Of(s)) = [disp |-> sig_pop(Of(s)).disp, stack |-> <<>>]
    <3>1. Len(sigstack[s]) = 1 /\ sigstack[s] \in Seq(Default)
      BY <2>2, <1>1 DEF TrapInv, KernelOK
    <3>2. sigstack[s] # <<>> /\ Last(sigstack[s]) \in Default
      BY <3>1 DEF Last
    <3>3. Front(sigstack[s]) = <<>>
      BY <3>1 DEF Front
    <3>4. sig_pop(Of(s)) = [disp |-> Last(sigstack[s]), stack |-> Front(sigstack[s])]
      BY <3>2 DEF sig_pop, Of
    <3>5. sigstack[s] \in Seq({"ign"}) => Last(sigstack[s]) = "ign"
      BY <3>1 DEF Last
    <3> QED BY <3>2, <3>3, <3>4, <3>5, <1>8
  <2>7. k.disp \in Default /\ k.stack = <<>> /\ (AtPrompt(s) => k.disp = "ign")
    BY <2>6, <1>5
  <2> HIDE DEF k, ts
  <2> DEFINE n == Unlinked(node[t])
  <2> HIDE DEF n
  <2>8. nd = [node EXCEPT ![t] = n]
    BY DEF n
  <2> HIDE DEF nd
  <2>9. nd \in Seq(Nodes)
    BY <2>2, <2>5, <2>8, <1>1 DEF n
  <2>10. DOMAIN nd = DOMAIN node /\ \A i \in DOMAIN node : nd[i] = IF i = t THEN n ELSE node[i]
    BY <2>8
  <2>11. \A i \in DOMAIN node : /\ nd[i].sig = node[i].sig /\ nd[i].body = node[i].body
                                /\ nd[i].running = node[i].running
                                /\ node[i].running => nd[i].freed = node[i].freed
    BY <2>5, <2>10 DEF n
  <2>12. \A x \in ToSet(traps) : node[x].sig # s => nd[x] = node[x]
    BY <2>2, <2>10, <1>3
  <2>13. u.k = k /\ u.node = nd /\ u.traps = ts
    BY <2>1
  <2> HIDE DEF u
  <2> QED BY <2>3, <2>4, <2>7, <2>9, <2>10, <2>11, <2>12, <2>13, <1>2 DEF u
<1> QED BY <1>6, <1>7

(* What depends on the call stack and on the signals of the traps alone.   *)
LEMMA SameStack ==
  ASSUME BodiesOK, frames' = frames, DOMAIN node \subseteq DOMAIN node',
         \A i \in DOMAIN node : /\ node'[i].sig = node[i].sig /\ node'[i].running = node[i].running
                                /\ node[i].running => node'[i].freed = node[i].freed
  PROVE  BodiesOK' /\ Subs' = Subs /\ trap_outer' = trap_outer /\ \A s : Running(s)' = Running(s)
<1>1. Subs' = Subs /\ Bodies' = Bodies
  BY DEF Subs, Bodies
<1>2. trap_outer' = trap_outer
  BY <1>1 DEF trap_outer
<1>3. \A i \in Bodies : frames[i].at \in DOMAIN node /\ node[frames[i].at].running /\ ~node[frames[i].at].freed
  BY DEF BodiesOK
<1>4. \A i \in Bodies : node'[frames[i].at].sig = node[frames[i].at].sig
  BY <1>3
<1>5. BodiesOK'
  BY <1>1, <1>3, <1>4 DEF BodiesOK
<1>6. \A s : Running(s)' = Running(s)
  <2>1. \A s : Running(s) <=> \E i \in Bodies : node[frames[i].at].sig = s
    BY DEF Running, Bodies
  <2>2. \A s : Running(s)' <=> \E i \in Bodies : node'[frames[i].at].sig = s
    BY DEF Running, Bodies
  <2>3. \A s : Running(s)' <=> Running(s)
    BY <2>1, <2>2, <1>4
  <2> QED BY <2>3 DEF Running
<1> QED BY <1>1, <1>2, <1>5, <1>6

(* The trap of one signal is taken away or replaced (N: the new trap).     *)
Replaced(s, N, d, st) ==
  /\ node' \in Seq(Nodes) /\ DOMAIN node' = DOMAIN node \cup N
  /\ \A i \in DOMAIN node : /\ node'[i].sig = node[i].sig /\ node'[i].running = node[i].running
                            /\ node[i].running => node'[i].freed = node[i].freed
  /\ traps' \in Seq(DOMAIN node') /\ Distinct(traps')
  /\ ToSet(traps') = {x \in ToSet(traps) : node[x].sig # s} \cup N
  /\ \A x \in ToSet(traps) : node[x].sig # s => node'[x] = node[x]
  /\ \A x \in N : x \notin DOMAIN node /\ node'[x].sig = s /\ ~node'[x].freed /\ ~node'[x].orphan
  /\ \A x, y \in N : x = y
  /\ \A i \in Subs : \A x \in ToSet(frames[i].saved) : node[x].sig # s
  /\ disp' = [disp EXCEPT ![s] = d] /\ sigstack' = [sigstack EXCEPT ![s] = st] /\ st \in Seq(Default)
  /\ N = {} => st = <<>> /\ d \in Default
  /\ \A x \in N : Len(st) = 1 /\ d = IF node'[x].body THEN "relay" ELSE "ign"
  /\ AtPrompt(s) => d # "dfl" /\ st \in Seq({"ign"})
  /\ pending' \subseteq pending \ {s} /\ sig_ignored' \subseteq sig_ignored /\ (sh_interactive => s \notin sig_ignored')
  /\ UNCHANGED <<deferred, signaled, frames, over>>

LEMMA ReplaceSafe ==
  ASSUME TrapInv, NEW s \in Sigs, NEW N, NEW d, NEW st, Replaced(s, N, d, st)
  PROVE  TrapInv'
<1>1. /\ node' \in Seq(Nodes) /\ DOMAIN node' = DOMAIN node \cup N /\ frames' = frames
      /\ \A i \in DOMAIN node : /\ node'[i].sig = node[i].sig /\ node'[i].running = node[i].running
                                /\ node[i].running => node'[i].freed = node[i].freed
      /\ pending' \subseteq pending \ {s} /\ sig_ignored' \subseteq sig_ignored
      /\ UNCHANGED <<deferred, signaled, over>>
  BY DEF Replaced
<1>2. /\ traps' \in Seq(DOMAIN node') /\ Distinct(traps')
      /\ ToSet(traps') = {x \in ToSet(traps) : node[x].sig # s} \cup N
      /\ \A x \in ToSet(traps) : node[x].sig # s => node'[x] = node[x]
      /\ \A x \in N : x \notin DOMAIN node /\ node'[x].sig = s /\ ~node'[x].freed /\ ~node'[x].orphan
      /\ \A x, y \in N : x = y
      /\ \A i \in Subs : \A x \in ToSet(frames[i].saved) : node[x].sig # s
  BY DEF Replaced
<1>3. /\ disp' = [disp EXCEPT ![s] = d] /\ sigstack' = [sigstack EXCEPT ![s] = st] /\ st \in Seq(Default)
      /\ N = {} => st = <<>> /\ d \in Default
      /\ \A x \in N : Len(st) = 1 /\ d = IF node'[x].body THEN "relay" ELSE "ign"
  BY DEF Replaced
<1>4. TypesOK /\ BodiesOK /\ ListsOK /\ WaitingOK /\ KernelOK /\ PendingNoticed /\ NoStraySignal
  BY DEF TrapInv
<1>5. BodiesOK' /\ Subs' = Subs /\ trap_outer' = trap_outer /\ \A r : Running(r)' = Running(r)
  BY <1>1, <1>4, SameStack
<1>6. /\ ListIn(traps, node) /\ \A x \in ToSet(traps) : x \in DOMAIN node
      /\ \A i \in Subs : ListIn(frames[i].saved, node) /\ ToSet(frames[i].saved) \subseteq ToSet(traps)
  <2>1. ListIn(traps, node) /\ \A i \in Subs : ListIn(frames[i].saved, node) /\ ToSet(frames[i].saved) \subseteq ToSet(traps)
    BY <1>4 DEF ListsOK
  <2>2. traps \in Seq(DOMAIN node)
    BY <2>1 DEF ListIn
  <2>3. \A x \in ToSet(traps) : x \in DOMAIN node
    BY <2>2 DEF ToSet
  <2> QED BY <2>1, <2>3
<1>7. ListIn(traps', node')
  <2>1. \A x \in ToSet(traps') : ~node'[x].freed /\ ~node'[x].orphan
    BY <1>2, <1>6 DEF ListIn
  <2>2. \A x, y \in ToSet(traps') : node'[x].sig = node'[y].sig => x = y
    BY <1>2, <1>6 DEF ListIn
  <2> QED BY <1>2, <2>1, <2>2 DEF ListIn
<1>8. \A i \in Subs : ListIn(frames[i].saved, node') /\ ToSet(frames[i].saved) \subseteq ToSet(traps')
  <2> SUFFICES ASSUME NEW i \in Subs
               PROVE  ListIn(frames[i].saved, node') /\ ToSet(frames[i].saved) \subseteq ToSet(traps')
    OBVIOUS
  <2> DEFINE l == frames[i].saved
  <2>1. ListIn(l, node) /\ ToSet(l) \subseteq ToSet(traps) /\ \A x \in ToSet(l) : node[x].sig # s
    BY <1>2, <1>6
  <2> HIDE DEF l
  <2>2. \A x \in ToSet(l) : x \in ToSet(traps) /\ node'[x] = node[x]
    BY <2>1, <1>2
  <2>3. l \in Seq(DOMAIN node')
    <3>1. l \in Seq(DOMAIN node) /\ DOMAIN node \subseteq DOMAIN node'
      BY <2>1, <1>1 DEF ListIn
    <3> QED BY <3>1
  <2>4. ListIn(l, node')
    BY <2>1, <2>2, <2>3 DEF ListIn
  <2> QED BY <2>1, <2>2, <2>4, <1>2 DEF l
<1>9. ListsOK'
  BY <1>1, <1>4, <1>5, <1>7, <1>8 DEF ListsOK
<1>10. TypesOK'
  <2>1. d \in Default \cup {"relay"}
    BY <1>3 DEF Default
  <2> QED BY <2>1, <1>1, <1>3, <1>4 DEF TypesOK
<1>11. WaitingOK'
  <2>1. \A r \in pending' : \E i \in ToSet(traps') : node'[i].sig = r
    <3> SUFFICES ASSUME NEW r \in pending' PROVE \E i \in ToSet(traps') : node'[i].sig = r
      OBVIOUS
    <3>1. PICK i \in ToSet(traps) : node[i].sig = r /\ r # s
      BY <1>1, <1>4 DEF WaitingOK
    <3> QED BY <3>1, <1>2
  <2>2. \A r \in deferred' : Subs' # {} /\ \E i \in ToSet(trap_outer') : node'[i].sig = r
    <3>1. \A i \in ToSet(trap_outer) : node'[i].sig = node[i].sig
      <4>1. ToSet(trap_outer) \subseteq ToSet(traps)
        BY <1>4, OuterIs DEF TypesOK
      <4> QED BY <4>1, <1>1, <1>6
    <3> QED BY <3>1, <1>1, <1>4, <1>5 DEF WaitingOK
  <2>3. \A r \in pending' \cup deferred' : ~Running(r)'
    BY <1>1, <1>4, <1>5 DEF WaitingOK
  <2> QED BY <2>1, <2>2, <2>3 DEF WaitingOK
<1>12. KernelOK'
  <2> SUFFICES ASSUME NEW r \in Sigs
               PROVE  /\ \A i \in ToSet(traps') : node'[i].sig = r => Len(sigstack'[r]) = 1 /\ disp'[r] = IF node'[i].body THEN "relay" ELSE "ign"
                      /\ (\A i \in ToSet(traps') : node'[i].sig # r) => sigstack'[r] = <<>> /\ disp'[r] \in Default
    BY DEF KernelOK
  <2>1. CASE r = s
    <3>1. disp'[r] = d /\ sigstack'[r] = st
      BY <2>1, <1>3, <1>4 DEF TypesOK
    <3>2. \A i \in ToSet(traps') : node'[i].sig = r => i \in N
      BY <2>1, <1>2, <1>6
    <3>3. N \subseteq ToSet(traps') /\ \A i \in N : node'[i].sig = r
      BY <2>1, <1>2
    <3> QED BY <3>1, <3>2, <3>3, <1>3
  <2>2. CASE r # s
    <3>1. disp'[r] = disp[r] /\ sigstack'[r] = sigstack[r]
      BY <2>2, <1>3, <1>4 DEF TypesOK
    <3>2. \A i \in ToSet(traps') : node'[i].sig = r => i \in ToSet(traps) /\ node[i].sig = r /\ node'[i] = node[i]
      BY <2>2, <1>2, <1>6
    <3>3. \A i \in ToSet(traps) : node[i].sig = r => i \in ToSet(traps') /\ node'[i].sig = r
      BY <2>2, <1>2, <1>6
    <3> QED BY <3>1, <3>2, <3>3, <1>4 DEF KernelOK
  <2> QED BY <2>1, <2>2
<1>13. PendingNoticed'
  BY <1>1, <1>4 DEF PendingNoticed
<1>14. NoStraySignal'
  BY <1>1, <1>4 DEF NoStraySignal
<1>15. PromptOK'
  <2> SUFFICES ASSUME sh_interactive, NEW r \in ShellSigs \cap Sigs
               PROVE  /\ r \in sig_ignored' => disp'[r] = "ign" /\ sigstack'[r] = <<>>
                      /\ (Subs' = {} \/ \E i \in ToSet(trap_outer') : node'[i].sig = r) => sigstack'[r] \in Seq({"ign"})
                      /\ Subs' = {} => disp'[r] # "dfl"
    BY DEF PromptOK
  <2>1. PromptOK /\ (AtPrompt(s) => d # "dfl" /\ st \in Seq({"ign"})) /\ s \notin sig_ignored'
    BY DEF TrapInv, Replaced
  <2>2. ToSet(trap_outer) \subseteq ToSet(traps) /\ \A i \in ToSet(trap_outer) : node[i].sig # s
    <3>1. frames \in Seq(FrameSet)
      BY <1>4 DEF TypesOK
    <3>2. CASE Subs = {}
      BY <3>1, <3>2, <1>4, OuterIs DEF ToSet
    <3>3. CASE Subs # {}
      BY <3>1, <3>3, <1>2, <1>4, OuterIs
    <3> QED BY <3>2, <3>3
  <2>3. \A i \in ToSet(trap_outer) : node'[i].sig = node[i].sig
    BY <2>2, <1>1, <1>6
  <2>4. CASE r = s
    <3>1. disp'[r] = d /\ sigstack'[r] = st
      BY <2>4, <1>3, <1>4 DEF TypesOK
    <3> QED BY <3>1, <2>1, <2>2, <2>3, <2>4, <1>5 DEF AtPrompt
  <2>5. CASE r # s
    <3>1. disp'[r] = disp[r] /\ sigstack'[r] = sigstack[r]
      BY <2>5, <1>3, <1>4 DEF TypesOK
    <3> QED BY <3>1, <2>1, <2>3, <1>1, <1>5 DEF PromptOK
  <2> QED BY <2>4, <2>5
<1> QED BY <1>5, <1>9, <1>10, <1>11, <1>12, <1>13, <1>14, <1>15 DEF TrapInv

(* What trap_uninstall makes of pending and sig_ignored.                   *)
LEMMA Forgets ==
  ASSUME TrapInv, NEW s \in Sigs, Discards(s), Unignored(s)
  PROVE  pending' \subseteq pending \ {s} /\ sig_ignored' \subseteq sig_ignored /\ (sh_interactive => s \notin sig_ignored')
<1>1. node \in Seq(Nodes) /\ ListIn(traps, node)
  BY DEF TrapInv, TypesOK, ListsOK
<1>2. s \in pending => trap_find(s) # 0
  <2>1. s \in pending => \E i \in ToSet(traps) : node[i].sig = s
    BY DEF TrapInv, WaitingOK
  <2> QED BY <1>1, <2>1, FindIs DEF trap_find
<1>3. sh_interactive /\ s \in sig_ignored => Resets(s) # ""
  BY DEF Resets
<1> QED BY <1>2, <1>3 DEF Discards, Unignored

LEMMA UninstallSafe ==
  ASSUME Careful, TrapInv, NEW s \in Sigs, trap_uninstall(s)
  PROVE  TrapInv'
<1> DEFINE u == Uninstalled(s)
           d == u.k.disp
           st == u.k.stack
<1>1. /\ Allowed(s) /\ disp' = [disp EXCEPT ![s] = d] /\ sigstack' = [sigstack EXCEPT ![s] = st]
      /\ node' = u.node /\ traps' = u.traps /\ Discards(s) /\ Unignored(s)
      /\ UNCHANGED <<deferred, signaled, frames, over>>
  BY DEF trap_uninstall, Sets
<1>2. pending' \subseteq pending \ {s} /\ sig_ignored' \subseteq sig_ignored /\ (sh_interactive => s \notin sig_ignored')
  BY <1>1, Forgets
<1>3. /\ u.node \in Seq(Nodes) /\ DOMAIN u.node = DOMAIN node
      /\ \A i \in DOMAIN node : /\ u.node[i].sig = node[i].sig /\ u.node[i].body = node[i].body
                                /\ u.node[i].running = node[i].running
                                /\ node[i].running => u.node[i].freed = node[i].freed
      /\ u.traps \in Seq(DOMAIN node) /\ Distinct(u.traps)
      /\ ToSet(u.traps) = {x \in ToSet(traps) : node[x].sig # s}
      /\ \A x \in ToSet(traps) : node[x].sig # s => u.node[x] = node[x]
      /\ \A i \in Subs : \A x \in ToSet(frames[i].saved) : node[x].sig # s
      /\ d \in Default /\ st = <<>> /\ (AtPrompt(s) => d = "ign")
  BY <1>1, UninstallIs
<1> HIDE DEF u, d, st
<1>4. Replaced(s, {}, d, st)
  BY <1>1, <1>2, <1>3 DEF Replaced
<1> QED BY <1>4, ReplaceSafe

LEMMA InstallSafe ==
  ASSUME Careful, TrapInv, NEW s \in Sigs, NEW body \in BOOLEAN, trap_install(s, body)
  PROVE  TrapInv'
<1> DEFINE u == Uninstalled(s)
           new == Len(node) + 1
           c == [sig |-> s, body |-> body, running |-> FALSE, orphan |-> FALSE, freed |-> FALSE]
           h == IF body THEN "relay" ELSE "ign"
           pushed == sig_push(u.k, h)
           k == IF body THEN [pushed EXCEPT !.disp = "relay"] ELSE pushed
           ud == u.k.disp
           us == u.k.stack
<1>1. /\ Allowed(s) /\ disp' = [disp EXCEPT ![s] = k.disp] /\ sigstack' = [sigstack EXCEPT ![s] = k.stack]
      /\ node' = Append(u.node, c) /\ traps' = <<new>> \o u.traps /\ Discards(s) /\ Unignored(s)
      /\ UNCHANGED <<deferred, signaled, frames, over>>
  BY DEF trap_install, Sets
<1>2. pending' \subseteq pending \ {s} /\ sig_ignored' \subseteq sig_ignored /\ (sh_interactive => s \notin sig_ignored')
  BY <1>1, Forgets
<1>3. /\ u.node \in Seq(Nodes) /\ DOMAIN u.node = DOMAIN node
      /\ \A i \in DOMAIN node : /\ u.node[i].sig = node[i].sig /\ u.node[i].body = node[i].body
                                /\ u.node[i].running = node[i].running
                                /\ node[i].running => u.node[i].freed = node[i].freed
      /\ u.traps \in Seq(DOMAIN node) /\ Distinct(u.traps)
      /\ ToSet(u.traps) = {x \in ToSet(traps) : node[x].sig # s}
      /\ \A x \in ToSet(traps) : node[x].sig # s => u.node[x] = node[x]
      /\ \A i \in Subs : \A x \in ToSet(frames[i].saved) : node[x].sig # s
      /\ ud \in Default /\ us = <<>> /\ (AtPrompt(s) => ud = "ign")
  BY <1>1, UninstallIs
<1>4. k.disp = h /\ k.stack = <<ud>>
  <2>1. ~(Len(us) >= SIGSTACKSIZE)
    BY <1>3, TrapConstants
  <2>2. pushed = [disp |-> h, stack |-> Append(us, ud)]
    BY <2>1 DEF sig_push
  <2>3. Append(us, ud) = <<ud>>
    <3> HIDE DEF us, ud
    <3> QED BY <1>3
  <2> HIDE DEF pushed, ud, us
  <2>4. pushed = [disp |-> h, stack |-> <<ud>>]
    BY <2>2, <2>3
  <2> QED BY <2>4
<1> HIDE DEF k, ud, us
<1>5. node \in Seq(Nodes)
  BY DEF TrapInv, TypesOK
<1> DEFINE un == u.node
           ut == u.traps
<1> HIDE DEF u, un, ut
<1>6. /\ un \in Seq(Nodes) /\ DOMAIN un = DOMAIN node /\ node' = Append(un, c)
      /\ ut \in Seq(DOMAIN node) /\ Distinct(ut) /\ traps' = <<new>> \o ut
      /\ ToSet(ut) = {x \in ToSet(traps) : node[x].sig # s}
      /\ \A x \in ToSet(traps) : node[x].sig # s => un[x] = node[x]
      /\ \A i \in DOMAIN node : /\ un[i].sig = node[i].sig
                                /\ un[i].running = node[i].running
                                /\ node[i].running => un[i].freed = node[i].freed
  BY <1>1, <1>3 DEF un, ut
<1>7. c \in Nodes /\ c.sig = s /\ c.body = body /\ ~c.freed /\ ~c.orphan
  BY DEF Nodes
<1> HIDE DEF c
<1>8. /\ node' \in Seq(Nodes) /\ DOMAIN node' = DOMAIN node \cup {new} /\ new \notin DOMAIN node
      /\ node'[new] = c /\ \A i \in DOMAIN node : node'[i] = un[i]
  <2>1. Len(un) = Len(node) /\ DOMAIN node = 1..Len(node) /\ Len(node) \in Nat /\ DOMAIN un = 1..Len(un)
    BY <1>5, <1>6
  <2>2. Append(un, c) \in Seq(Nodes) /\ Len(Append(un, c)) = Len(un) + 1 /\ Append(un, c)[Len(un) + 1] = c
        /\ \A i \in 1..Len(un) : Append(un, c)[i] = un[i]
    BY <1>6, <1>7
  <2>3. DOMAIN Append(un, c) = 1..(Len(un) + 1)
    BY <2>2
  <2> QED BY <2>1, <2>2, <2>3, <1>6
<1>9. \A x \in ToSet(ut) : x \in DOMAIN node
  BY <1>6 DEF ToSet
<1>10. traps' \in Seq(DOMAIN node') /\ Distinct(traps') /\ ToSet(traps') = ToSet(ut) \cup {new}
  <2> HIDE DEF new
  <2>1. ut \in Seq(DOMAIN node') /\ new \in DOMAIN node' /\ new \notin ToSet(ut)
    BY <1>6, <1>8, <1>9
  <2> QED BY <2>1, <1>6, Linking
<1> DEFINE st == <<ud>>
<1>11. st \in Seq(Default) /\ Len(st) = 1 /\ (AtPrompt(s) => st \in Seq({"ign"})) /\ h # "dfl"
  BY <1>3
<1> HIDE DEF new, h, st
<1>12. disp' = [disp EXCEPT ![s] = h] /\ sigstack' = [sigstack EXCEPT ![s] = st]
  BY <1>1, <1>4 DEF st
<1>13. h = IF node'[new].body THEN "relay" ELSE "ign"
  BY <1>7, <1>8 DEF h
<1>14. \A x \in ToSet(traps) : node[x].sig # s => node'[x] = node[x]
  BY <1>6, <1>8, <1>9
<1>15. Replaced(s, {new}, h, st)
  <2>1. /\ \A x \in {new} : x \notin DOMAIN node /\ node'[x].sig = s /\ ~node'[x].freed /\ ~node'[x].orphan
        /\ \A x \in {new} : Len(st) = 1 /\ h = IF node'[x].body THEN "relay" ELSE "ign"
    BY <1>7, <1>8, <1>11, <1>13
  <2>2. \A i \in DOMAIN node : /\ node'[i].sig = node[i].sig /\ node'[i].running = node[i].running
                               /\ node[i].running => node'[i].freed = node[i].freed
    BY <1>6, <1>8
  <2>3. ToSet(traps') = {x \in ToSet(traps) : node[x].sig # s} \cup {new}
    BY <1>6, <1>10
  <2> QED BY <2>1, <2>2, <2>3, <1>1, <1>2, <1>3, <1>8, <1>10, <1>11, <1>12, <1>14 DEF Replaced
<1> QED BY <1>15, ReplaceSafe

(* The builtin trap.                                                       *)
LEMMA BuiltinSafe ==
  ASSUME Careful, TrapInv, NEW s \in Sigs, NEW code \in {"-", "", "code"}, builtin_trap(s, code)
  PROVE  TrapInv'
<1>1. trap_uninstall(s) \/ trap_install(s, FALSE) \/ trap_install(s, TRUE)
  BY DEF builtin_trap
<1> QED BY <1>1, UninstallSafe, InstallSafe

(* A list of traps stays one when nothing happens to the traps on it.      *)
LEMMA ListKept ==
  ASSUME NEW nd, NEW new, NEW l, ListIn(l, nd), DOMAIN new = DOMAIN nd,
         \A x \in ToSet(l) : new[x].sig = nd[x].sig /\ ~new[x].freed /\ ~new[x].orphan
  PROVE  ListIn(l, new)
BY DEF ListIn

(* The same stack but for the place where a loop is.                       *)
Alike(fr) ==
  /\ fr \in Seq(FrameSet) /\ DOMAIN fr = DOMAIN frames /\ Len(fr) = Len(frames)
  /\ \A k \in DOMAIN frames : fr[k].kind = frames[k].kind /\ fr[k].saved = frames[k].saved
  /\ \A k \in DOMAIN frames : frames[k].kind # "loop" => fr[k].at = frames[k].at

LEMMA Moved ==
  ASSUME Alike(frames')
  PROVE  Subs' = Subs /\ trap_outer' = trap_outer /\ Bodies' = Bodies /\ \A i \in Bodies : frames'[i].at = frames[i].at
<1>1. Subs' = Subs
  BY DEF Alike, Subs
<1>2. Subs \subseteq DOMAIN frames
  BY DEF Subs
<1>3. trap_outer' = trap_outer
  <2>1. CASE Subs = {}
    BY <2>1, <1>1 DEF trap_outer
  <2>2. CASE Subs # {}
    <3>1. Min(Subs) \in Subs
      <4>1. frames' \in Seq(FrameSet) /\ DOMAIN frames = DOMAIN frames' /\ DOMAIN frames' = 1..Len(frames')
        BY DEF Alike
      <4>2. Subs \in SUBSET Nat
        BY <4>1, <1>2
      <4> QED BY <4>2, <2>2, MinOf
    <3> QED BY <3>1, <2>2, <1>1, <1>2 DEF trap_outer, Alike
  <2> QED BY <2>1, <2>2
<1>4. Bodies' = Bodies
  BY DEF Alike, Bodies
<1>5. \A i \in Bodies : frames'[i].at = frames[i].at
  BY DEF Bodies, Alike
<1> QED BY <1>1, <1>3, <1>4, <1>5

(* The outermost subshell stays the outermost when another is entered.     *)
LEMMA MinStays ==
  ASSUME NEW S \in SUBSET Nat, S # {}, NEW n \in Nat, \A k \in S : k < n
  PROVE  Min(S \cup {n}) = Min(S)
<1> DEFINE a == Min(S)
           b == Min(S \cup {n})
<1>1. a \in S /\ \A k \in S : a <= k
  BY MinOf
<1>2. b \in S \cup {n} /\ \A k \in S \cup {n} : b <= k
  <2>1. S \cup {n} \in SUBSET Nat /\ S \cup {n} # {}
    OBVIOUS
  <2> QED BY <2>1, MinOf
<1> HIDE DEF a, b
<1>3. b <= a /\ a < n /\ b \in Nat /\ a \in Nat
  BY <1>1, <1>2
<1>4. b \in S
  BY <1>2, <1>3
<1>5. a <= b
  BY <1>1, <1>4
<1>6. a = b
  BY <1>3, <1>5
<1> QED BY <1>6 DEF a, b

(* The stack after a push, c on top of fr.                                 *)
PushedOn(fr, c, n) ==
  /\ frames' \in Seq(FrameSet) /\ n \in Nat /\ n \notin DOMAIN frames /\ DOMAIN frames' = DOMAIN frames \cup {n}
  /\ frames'[n] = c /\ \A k \in DOMAIN frames : k \in Nat /\ k < n /\ frames'[k] = fr[k]
  /\ Subs' = Subs \cup (IF c.kind = "sub" THEN {n} ELSE {})
  /\ Bodies' = Bodies \cup (IF c.kind = "body" THEN {n} ELSE {})
  /\ \A i \in Bodies : frames'[i].at = frames[i].at
  /\ \A i \in Subs : frames'[i].saved = frames[i].saved
  /\ c.kind # "sub" \/ Subs # {} => trap_outer' = trap_outer

LEMMA Pushed ==
  ASSUME frames \in Seq(FrameSet), NEW fr, Alike(fr), NEW c \in FrameSet, frames' = Append(fr, c), NEW n, n = Len(frames) + 1
  PROVE  PushedOn(fr, c, n)
<1>1. fr \in Seq(FrameSet) /\ DOMAIN fr = DOMAIN frames /\ n = Len(fr) + 1
  BY DEF Alike
<1>2. /\ frames' \in Seq(FrameSet) /\ n \in Nat /\ DOMAIN frames' = DOMAIN frames \cup {n} /\ frames'[n] = c
      /\ \A k \in DOMAIN frames : k \in Nat /\ k < n /\ frames'[k] = fr[k]
  BY <1>1, PushFrame
<1>3. n \notin DOMAIN frames
  BY <1>2
<1>4. Subs' = Subs \cup (IF c.kind = "sub" THEN {n} ELSE {})
  BY <1>2, <1>3 DEF Subs, Alike
<1>5. Bodies' = Bodies \cup (IF c.kind = "body" THEN {n} ELSE {})
  BY <1>2, <1>3 DEF Bodies, Alike
<1>6. \A i \in Bodies : frames'[i].at = frames[i].at
  BY <1>2 DEF Bodies, Alike
<1>7. \A i \in Subs : frames'[i].saved = frames[i].saved
  BY <1>2 DEF Subs, Alike
<1>8. ASSUME c.kind # "sub" \/ Subs # {}
      PROVE  trap_outer' = trap_outer
  <2>1. CASE Subs = {}
    BY <2>1, <1>4, <1>8 DEF trap_outer
  <2>2. CASE Subs # {}
    <3>1. Subs \in SUBSET Nat /\ \A k \in Subs : k < n
      BY <1>2 DEF Subs
    <3>2. Min(Subs') = Min(Subs)
      BY <3>1, <2>2, <1>2, <1>4, MinStays
    <3>3. Min(Subs) \in Subs
      BY <3>1, <2>2, MinOf
    <3> QED BY <3>2, <3>3, <2>2, <1>4, <1>7 DEF trap_outer
  <2> QED BY <2>1, <2>2
<1> QED BY <1>2, <1>3, <1>4, <1>5, <1>6, <1>7, <1>8 DEF PushedOn

LEMMA PoppedFrame ==
  ASSUME frames \in Seq(FrameSet), frames # <<>>, frames' = Front(frames), NEW n, n = Len(frames)
  PROVE  /\ frames' \in Seq(FrameSet) /\ n \in DOMAIN frames /\ n \in Nat /\ DOMAIN frames' = DOMAIN frames \ {n}
         /\ \A k \in DOMAIN frames \ {n} : k \in Nat /\ k < n /\ frames'[k] = frames[k]
         /\ Subs' = Subs \ {n} /\ Bodies' = Bodies \ {n}
         /\ n \notin Subs \/ Subs \ {n} # {} => trap_outer' = trap_outer
<1>1. /\ frames' \in Seq(FrameSet) /\ n \in DOMAIN frames /\ n \in Nat /\ DOMAIN frames' = DOMAIN frames \ {n}
      /\ \A k \in DOMAIN frames \ {n} : k \in Nat /\ k < n /\ frames'[k] = frames[k]
  <2>1. n \in Nat \ {0} /\ DOMAIN frames = 1..n
    BY FrontOf
  <2>2. n \in DOMAIN frames
    BY <2>1
  <2> QED BY <2>1, <2>2, FrontOf
<1>2. Subs' = Subs \ {n}
  BY <1>1 DEF Subs
<1>3. Bodies' = Bodies \ {n}
  BY <1>1 DEF Bodies
<1>4. ASSUME n \notin Subs \/ Subs \ {n} # {}
      PROVE  trap_outer' = trap_outer
  <2>1. CASE Subs = {}
    BY <2>1, <1>2 DEF trap_outer
  <2>2. CASE Subs # {}
    <3>1. Subs' \in SUBSET Nat /\ \A k \in Subs' : k < n
      BY <1>1 DEF Subs
    <3>2. Subs' # {} /\ (Subs = Subs' \/ Subs = Subs' \cup {n})
      BY <2>2, <1>2, <1>4
    <3>3. Min(Subs') = Min(Subs)
      <4> DEFINE S == Subs'
      <4> HIDE DEF S
      <4>1. S \in SUBSET Nat /\ S # {} /\ \A k \in S : k < n
        BY <3>1, <3>2 DEF S
      <4>2. Min(S \cup {n}) = Min(S)
        BY <4>1, <1>1, MinStays
      <4> QED BY <4>2, <3>2 DEF S
    <3>4. Min(Subs') \in Subs'
      BY <3>1, <3>2, MinOf
    <3>5. frames'[Min(Subs')] = frames[Min(Subs')]
      BY <3>4, <1>1, <1>2 DEF Subs
    <3> QED BY <3>2, <3>3, <3>5, <2>2 DEF trap_outer
  <2> QED BY <2>1, <2>2
<1> QED BY <1>1, <1>2, <1>3, <1>4

(* The bodies that run, when one more call is not a body.                  *)
LEMMA RunningIs ==
  ASSUME NEW s
  PROVE  Running(s) <=> \E i \in Bodies : node[frames[i].at].sig = s
BY DEF Running, Bodies

(* The bodies that run stay as they are.                                   *)
LEMMA BodiesKept ==
  ASSUME BodiesOK, Bodies' \subseteq Bodies,
         \A i \in Bodies' : /\ frames'[i].at = frames[i].at /\ frames[i].at \in DOMAIN node'
                            /\ node'[frames[i].at].sig = node[frames[i].at].sig
                            /\ node'[frames[i].at].running /\ ~node'[frames[i].at].freed
  PROVE  BodiesOK' /\ \A s : Running(s)' => Running(s)
<1>1. \A i, j \in Bodies' : node'[frames'[i].at].sig = node'[frames'[j].at].sig => i = j
  BY DEF BodiesOK
<1>2. \A i \in Bodies' : frames'[i].at \in DOMAIN node' /\ node'[frames'[i].at].running /\ ~node'[frames'[i].at].freed
  OBVIOUS
<1>3. BodiesOK'
  BY <1>1, <1>2 DEF BodiesOK
<1>4. ASSUME NEW s
      PROVE  Running(s)' => Running(s)
  <2>1. Running(s)' <=> \E i \in Bodies' : node'[frames'[i].at].sig = s
    BY DEF Running, Bodies
  <2> QED BY <2>1, RunningIs
<1> QED BY <1>3, <1>4

(* trap_run_pending: the loop starts at the first signal.                  *)
LEMMA RunPendingSafe ==
  ASSUME TrapInv, trap_run_pending
  PROVE  TrapInv'
<1> DEFINE c == Frame("loop", 1, <<>>)
           n == Len(frames) + 1
<1>1. /\ frames' = Append(frames, c)
      /\ UNCHANGED <<node, traps, disp, sigstack, sig_ignored, pending, deferred, over>> /\ signaled' = FALSE
  BY DEF trap_run_pending
<1>2. TypesOK /\ BodiesOK /\ ListsOK /\ WaitingOK /\ KernelOK /\ NoStraySignal
  BY DEF TrapInv
<1>3. frames \in Seq(FrameSet)
  BY <1>2 DEF TypesOK
<1>4. c \in FrameSet /\ c.kind = "loop" /\ c.at = 1 /\ c.saved = <<>>
  BY DEF Frame, FrameSet
<1>5. Alike(frames)
  BY <1>3 DEF Alike
<1> HIDE DEF c, n
<1>6. n = Len(frames) + 1
  BY DEF n
<1>7. /\ frames' \in Seq(FrameSet) /\ n \in Nat /\ n \notin DOMAIN frames /\ DOMAIN frames' = DOMAIN frames \cup {n}
      /\ frames'[n] = c /\ \A k \in DOMAIN frames : k \in Nat /\ k < n /\ frames'[k] = frames[k]
      /\ Subs' = Subs /\ Bodies' = Bodies
      /\ \A i \in Bodies : frames'[i].at = frames[i].at
      /\ \A i \in Subs : frames'[i].saved = frames[i].saved
      /\ trap_outer' = trap_outer
  <2>1. PushedOn(frames, c, n)
    BY <1>1, <1>3, <1>4, <1>5, <1>6, Pushed
  <2> QED BY <2>1, <1>4 DEF PushedOn
<1>8. TypesOK'
  BY <1>1, <1>2, <1>7 DEF TypesOK
<1>9. BodiesOK' /\ \A s : Running(s)' => Running(s)
  <2>1. \A i \in Bodies : frames[i].at \in DOMAIN node /\ node[frames[i].at].running /\ ~node[frames[i].at].freed
    BY <1>2 DEF BodiesOK
  <2> QED BY <2>1, <1>1, <1>2, <1>7, BodiesKept
<1>10. ListsOK'
  <2>1. \A i \in DOMAIN frames' \ Subs' : frames'[i].saved = <<>>
    BY <1>2, <1>4, <1>7 DEF ListsOK
  <2>2. \A i \in Subs : frames'[i].saved = frames[i].saved
    BY <1>7
  <2>3. \A i \in Subs : ListIn(frames'[i].saved, node) /\ ToSet(frames'[i].saved) \subseteq ToSet(traps)
    BY <2>2, <1>2 DEF ListsOK
  <2>4. \A i, j \in Subs : i < j => ToSet(frames'[i].saved) \subseteq ToSet(frames'[j].saved)
    BY <2>2, <1>2 DEF ListsOK
  <2>5. ListIn(traps, node) /\ Subs' = Subs /\ node' = node /\ traps' = traps
    BY <1>1, <1>2, <1>7 DEF ListsOK
  <2> QED BY <2>1, <2>3, <2>4, <2>5 DEF ListsOK
<1>11. WaitingOK'
  BY <1>1, <1>2, <1>7, <1>9 DEF WaitingOK
<1>15. PromptOK'
  BY <1>1, <1>7, PromptKept DEF TrapInv
<1>12. KernelOK'
  BY <1>1, <1>2 DEF KernelOK
<1>13. PendingNoticed'
  <2>1. pending' \subseteq Nat \ {0}
    BY <1>1, <1>2, TrapConstants DEF TypesOK
  <2>2. \A s \in Nat \ {0} : 1 <= s
    OBVIOUS
  <2> QED BY <2>1, <2>2, <1>4, <1>7 DEF PendingNoticed
<1>14. NoStraySignal'
  BY <1>1, <1>2 DEF NoStraySignal
<1> QED BY <1>8, <1>9, <1>10, <1>11, <1>12, <1>13, <1>14, <1>15 DEF TrapInv

(* A subshell is entered, and keeps the list it found.                     *)
LEMMA SaveSafe ==
  ASSUME Careful, TrapInv, trap_snapshot_save
  PROVE  TrapInv'
<1> DEFINE c == Frame("sub", 0, traps)
           n == Len(frames) + 1
<1>1. /\ frames' = Append(frames, c)
      /\ disp' = [s \in Sigs |-> IF Restores(s) THEN "dfl" ELSE disp[s]]
      /\ \A s \in Sigs : Restores(s) => trap_find(s) = 0
      /\ UNCHANGED <<node, traps, sigstack, sig_ignored, pending, deferred, signaled, over>>
  BY DEF trap_snapshot_save, sh_sigrestore
<1>2. TypesOK /\ BodiesOK /\ ListsOK /\ WaitingOK /\ KernelOK /\ PendingNoticed /\ NoStraySignal
  BY DEF TrapInv
<1>3. frames \in Seq(FrameSet) /\ node \in Seq(Nodes)
  BY <1>2 DEF TypesOK
<1>4. c \in FrameSet /\ c.kind = "sub" /\ c.saved = traps
  <2>1. traps \in Seq(DOMAIN node)
    BY <1>2 DEF ListsOK, ListIn
  <2>2. DOMAIN node \subseteq Nat
    BY <1>3
  <2>3. traps \in Seq(Nat)
    BY <2>1, <2>2
  <2> QED BY <2>3 DEF Frame, FrameSet
<1>5. Alike(frames)
  BY <1>3 DEF Alike
<1> HIDE DEF c, n
<1>6. n = Len(frames) + 1
  BY DEF n
<1>7. /\ frames' \in Seq(FrameSet) /\ n \in Nat /\ n \notin DOMAIN frames /\ DOMAIN frames' = DOMAIN frames \cup {n}
      /\ frames'[n] = c /\ \A k \in DOMAIN frames : k \in Nat /\ k < n /\ frames'[k] = frames[k]
      /\ Subs' = Subs \cup {n} /\ Bodies' = Bodies
      /\ \A i \in Bodies : frames'[i].at = frames[i].at
      /\ \A i \in Subs : frames'[i].saved = frames[i].saved
      /\ Subs # {} => trap_outer' = trap_outer
  <2>1. PushedOn(frames, c, n)
    BY <1>1, <1>3, <1>4, <1>5, <1>6, Pushed
  <2> QED BY <2>1, <1>4 DEF PushedOn
<1>8. TypesOK'
  <2>1. disp' \in [Sigs -> Default \cup {"relay"}]
    BY <1>1, <1>2 DEF TypesOK, Default
  <2> QED BY <2>1, <1>1, <1>2, <1>7 DEF TypesOK
<1>9. BodiesOK' /\ \A s : Running(s)' => Running(s)
  <2>1. \A i \in Bodies : frames[i].at \in DOMAIN node /\ node[frames[i].at].running /\ ~node[frames[i].at].freed
    BY <1>2 DEF BodiesOK
  <2> QED BY <2>1, <1>1, <1>2, <1>7, BodiesKept
<1>10. ListsOK'
  <2>1. \A i \in DOMAIN frames' \ Subs' : frames'[i].saved = <<>>
    BY <1>2, <1>7 DEF ListsOK
  <2>2. \A i \in Subs' : ListIn(frames'[i].saved, node') /\ ToSet(frames'[i].saved) \subseteq ToSet(traps')
    BY <1>1, <1>2, <1>4, <1>7 DEF ListsOK
  <2>3. ASSUME NEW i \in Subs', NEW j \in Subs', i < j
        PROVE  ToSet(frames'[i].saved) \subseteq ToSet(frames'[j].saved)
    <3>1. i \in Subs
      <4>1. Subs \subseteq DOMAIN frames
        BY DEF Subs
      <4>2. i \in Nat /\ j \in Nat /\ (i = n => j <= i)
        BY <4>1, <1>7
      <4> QED BY <4>2, <2>3, <1>7
    <3>2. CASE j \in Subs
      BY <3>1, <3>2, <2>3, <1>2, <1>7 DEF ListsOK
    <3>3. CASE j = n
      BY <3>1, <3>3, <1>2, <1>4, <1>7 DEF ListsOK
    <3> QED BY <3>2, <3>3, <1>7
  <2> QED BY <2>1, <2>2, <2>3, <1>1, <1>2 DEF ListsOK
<1>11. WaitingOK'
  BY <1>1, <1>2, <1>7, <1>9 DEF WaitingOK
<1>12. KernelOK'
  <2>1. \A s \in Sigs : Restores(s) => \A x \in ToSet(traps) : node[x].sig # s
    <3>1. \A s \in Sigs : \A x \in ToSet(traps) : node[x].sig = s => trap_find(s) # 0
      BY <1>2, <1>3, FindIs DEF trap_find, ListsOK
    <3> QED BY <3>1, <1>1
  <2>2. \A s \in Sigs : disp'[s] = IF Restores(s) THEN "dfl" ELSE disp[s]
    BY <1>1
  <2> QED BY <2>1, <2>2, <1>1, <1>2 DEF KernelOK, Default
<1>15. PromptOK'
  <2> SUFFICES ASSUME sh_interactive, NEW s \in ShellSigs \cap Sigs
               PROVE  /\ s \in sig_ignored => disp'[s] = "ign" /\ sigstack[s] = <<>>
                      /\ (\E i \in ToSet(trap_outer') : node[i].sig = s) => sigstack[s] \in Seq({"ign"})
    BY <1>1, <1>7 DEF PromptOK
  <2>1. PromptOK
    BY DEF TrapInv
  <2>2. s \in sig_ignored => disp'[s] = disp[s]
    BY <1>1 DEF Restores
  <2>3. Subs = {} \/ trap_outer' = trap_outer
    BY <1>7
  <2> QED BY <2>1, <2>2, <2>3 DEF PromptOK
<1>13. PendingNoticed'
  BY <1>1, <1>2, <1>7 DEF PendingNoticed
<1>14. NoStraySignal'
  BY <1>1, <1>2 DEF NoStraySignal
<1> QED BY <1>8, <1>9, <1>10, <1>11, <1>12, <1>13, <1>14, <1>15 DEF TrapInv

(* A loop has come to signal s.                                            *)
Due(s) ==
  /\ frames # <<>> /\ Top.kind = "loop"
  /\ s \in pending /\ Top.at <= s /\ \A r \in pending : Top.at <= r => s <= r

(* It goes on behind it, and passes over no other.                         *)
LEMMA LoopGoesOn ==
  ASSUME TypesOK, PendingNoticed, NEW s, Due(s), pending' = pending \ {s}, signaled' = signaled,
         NEW n, n = Len(frames), \A k \in DOMAIN frames : k \in DOMAIN frames' /\ frames'[k].kind = frames[k].kind,
         \A k \in DOMAIN frames \ {n} : frames'[k].at = frames[k].at, frames'[n].at = s + 1
  PROVE  PendingNoticed'
<1>1. pending \subseteq Nat /\ s \in Nat /\ Top = frames[n] /\ n \in DOMAIN frames
  <2>1. frames \in Seq(FrameSet) /\ frames # <<>> /\ s \in pending /\ pending \subseteq Nat
    BY TrapConstants DEF TypesOK, Due
  <2> QED BY <2>1 DEF Top
<1> SUFFICES ASSUME NEW r \in pending', ~signaled'
             PROVE  \E i \in DOMAIN frames' : frames'[i].kind = "loop" /\ frames'[i].at <= r
  BY DEF PendingNoticed
<1>2. r \in pending /\ r # s /\ ~signaled /\ r \in Nat
  BY <1>1
<1>3. PICK i \in DOMAIN frames : frames[i].kind = "loop" /\ frames[i].at <= r
  BY <1>2 DEF PendingNoticed
<1>4. CASE i = n
  <2>1. s <= r
    BY <1>1, <1>2, <1>3, <1>4 DEF Due
  <2>2. s + 1 <= r
    BY <2>1, <1>1, <1>2
  <2> QED BY <2>2, <1>3, <1>4
<1>5. CASE i # n
  BY <1>3, <1>5
<1> QED BY <1>4, <1>5

(* LoopOn: fr is the stack it leaves.                                      *)
LEMMA LoopOnIs ==
  ASSUME TypesOK, NEW s, Due(s), NEW fr, fr = [frames EXCEPT ![Len(frames)].at = s + 1]
  PROVE  /\ Alike(fr) /\ Len(frames) \in DOMAIN frames /\ fr[Len(frames)].at = s + 1
         /\ \A k \in DOMAIN frames \ {Len(frames)} : fr[k] = frames[k]
<1>1. frames \in Seq(FrameSet) /\ frames # <<>> /\ s \in Nat
  BY TrapConstants DEF TypesOK, Due
<1>2. frames[Len(frames)].kind = "loop"
  BY DEF Due, Top
<1>3. /\ fr \in Seq(FrameSet) /\ Len(fr) = Len(frames) /\ DOMAIN fr = DOMAIN frames
      /\ Len(frames) \in DOMAIN frames
      /\ \A k \in DOMAIN frames : fr[k].kind = frames[k].kind /\ fr[k].saved = frames[k].saved
      /\ \A k \in DOMAIN frames \ {Len(frames)} : fr[k] = frames[k]
      /\ fr[Len(frames)].at = s + 1
  BY <1>1, LoopFrame
<1>4. \A k \in DOMAIN frames : frames[k].kind # "loop" => fr[k].at = frames[k].at
  BY <1>2, <1>3
<1> QED BY <1>3, <1>4 DEF Alike

(* The signal is kept for the outer shell, kills, or is ignored.           *)
Passed(s) ==
  /\ LoopOn(s) /\ pending' = pending \ {s} /\ over' \in {over, "killed"}
  /\ deferred' = deferred \/ (trap_scope_defer(s) /\ deferred' = deferred \cup {s})
  /\ UNCHANGED <<node, traps, disp, sigstack, sig_ignored, signaled>>
LEMMA LoopOnSafe ==
  ASSUME TrapInv, NEW s \in pending, Due(s), Passed(s)
  PROVE  TrapInv'
<1> USE DEF Passed
<1>1. TypesOK /\ BodiesOK /\ ListsOK /\ WaitingOK /\ KernelOK /\ PendingNoticed /\ NoStraySignal
  BY DEF TrapInv
<1> DEFINE n == Len(frames)
<1>2. /\ Alike(frames') /\ n \in DOMAIN frames /\ frames'[n].at = s + 1
      /\ \A k \in DOMAIN frames \ {n} : frames'[k] = frames[k]
  BY <1>1, LoopOnIs DEF LoopOn
<1>3. Subs' = Subs /\ trap_outer' = trap_outer /\ Bodies' = Bodies /\ \A i \in Bodies : frames'[i].at = frames[i].at
  BY <1>2, Moved
<1>4. BodiesOK' /\ \A r : Running(r)' => Running(r)
  <2>1. \A i \in Bodies : frames[i].at \in DOMAIN node /\ node[frames[i].at].running /\ ~node[frames[i].at].freed
    BY <1>1 DEF BodiesOK
  <2> QED BY <2>1, <1>1, <1>3, BodiesKept
<1>5. s \in Sigs /\ frames' \in Seq(FrameSet) /\ over' \in {"", "killed", "stray"}
  BY <1>1, <1>2 DEF TypesOK, Alike
<1>6. deferred' \subseteq deferred \cup {s}
  OBVIOUS
<1>7. TypesOK'
  BY <1>1, <1>5, <1>6 DEF TypesOK
<1>8. ListsOK'
  <2>1. DOMAIN frames' = DOMAIN frames /\ \A k \in DOMAIN frames : frames'[k].saved = frames[k].saved
    BY <1>2 DEF Alike
  <2>2. Subs \subseteq DOMAIN frames
    BY DEF Subs
  <2> QED BY <2>1, <2>2, <1>1, <1>3 DEF ListsOK
<1>9. trap_scope_defer(s) => Subs # {} /\ \E i \in ToSet(trap_outer) : node[i].sig = s
  <2> SUFFICES ASSUME trap_scope_defer(s) PROVE Subs # {} /\ \E i \in ToSet(trap_outer) : node[i].sig = s
    OBVIOUS
  <2>1. frames \in Seq(FrameSet) /\ node \in Seq(Nodes) /\ ListIn(traps, node)
    BY <1>1 DEF TypesOK, ListsOK
  <2>2. Subs # {}
    BY <2>1, DepthIs DEF trap_scope_defer
  <2>3. PICK x \in ToSet(traps) : node[x].sig = s
    BY <1>1 DEF WaitingOK
  <2>4. trap_find(s) = x
    BY <2>1, <2>3, FindIs DEF trap_find
  <2> QED BY <2>2, <2>3, <2>4 DEF trap_scope_defer
<1>10. WaitingOK'
  BY <1>1, <1>3, <1>4, <1>6, <1>9 DEF WaitingOK
<1>11. KernelOK'
  BY <1>1 DEF KernelOK
<1>12. PendingNoticed'
  <2>1. \A k \in DOMAIN frames : k \in DOMAIN frames' /\ frames'[k].kind = frames[k].kind
    BY <1>2 DEF Alike
  <2> QED BY <2>1, <1>1, <1>2, LoopGoesOn
<1>13. NoStraySignal'
  BY <1>1 DEF NoStraySignal
<1>14. PromptOK'
  BY <1>3, PromptKept DEF TrapInv
<1> QED BY <1>4, <1>7, <1>8, <1>10, <1>11, <1>12, <1>13, <1>14 DEF TrapInv

(* trap_run_pending has come to the last signal.                           *)
LEMMA LoopEndSafe ==
  ASSUME TrapInv, frames # <<>>, Top.kind = "loop", \A s \in pending : ~(Top.at <= s), frames' = Front(frames),
         UNCHANGED <<node, traps, disp, sigstack, sig_ignored, pending, deferred, signaled, over>>
  PROVE  TrapInv'
<1>1. TypesOK /\ BodiesOK /\ ListsOK /\ WaitingOK /\ KernelOK /\ PendingNoticed /\ NoStraySignal
  BY DEF TrapInv
<1> DEFINE n == Len(frames)
<1>2. frames[n].kind = "loop" /\ \A s \in pending : ~(frames[n].at <= s)
  BY DEF Top
<1> HIDE DEF n
<1>3. n \notin Subs /\ n \notin Bodies
  BY <1>2 DEF Subs, Bodies
<1>4. /\ frames' \in Seq(FrameSet) /\ DOMAIN frames' = DOMAIN frames \ {n}
      /\ \A k \in DOMAIN frames \ {n} : frames'[k] = frames[k]
      /\ Subs' = Subs /\ Bodies' = Bodies /\ trap_outer' = trap_outer
  <2>1. frames \in Seq(FrameSet) /\ n = Len(frames)
    BY <1>1 DEF TypesOK, n
  <2>2. /\ frames' \in Seq(FrameSet) /\ DOMAIN frames' = DOMAIN frames \ {n}
        /\ \A k \in DOMAIN frames \ {n} : frames'[k] = frames[k]
        /\ Subs' = Subs \ {n} /\ Bodies' = Bodies \ {n}
        /\ n \notin Subs \/ Subs \ {n} # {} => trap_outer' = trap_outer
    BY <2>1, PoppedFrame, Zenon
  <2>3. Subs \ {n} = Subs /\ Bodies \ {n} = Bodies
    BY <1>3
  <2> QED BY <2>2, <2>3, <1>3
<1>5. BodiesOK' /\ \A r : Running(r)' => Running(r)
  <2>1. \A i \in Bodies : frames[i].at \in DOMAIN node /\ node[frames[i].at].running /\ ~node[frames[i].at].freed
    BY <1>1 DEF BodiesOK
  <2>2. \A i \in Bodies : frames'[i] = frames[i]
    BY <1>3, <1>4 DEF Bodies
  <2> QED BY <2>1, <2>2, <1>1, <1>4, BodiesKept
<1>6. TypesOK'
  BY <1>1, <1>4 DEF TypesOK
<1>7. ListsOK'
  <2>1. \A i \in Subs : i \in DOMAIN frames \ {n} /\ frames'[i] = frames[i]
    BY <1>3, <1>4 DEF Subs
  <2> QED BY <2>1, <1>1, <1>4 DEF ListsOK
<1>8. WaitingOK'
  BY <1>1, <1>4, <1>5 DEF WaitingOK
<1>9. KernelOK'
  BY <1>1 DEF KernelOK
<1>10. PendingNoticed'
  BY <1>1, <1>2, <1>4 DEF PendingNoticed
<1>11. NoStraySignal'
  BY <1>1 DEF NoStraySignal
<1>12. PromptOK'
  BY <1>4, PromptKept DEF TrapInv
<1> QED BY <1>5, <1>6, <1>7, <1>8, <1>9, <1>10, <1>11, <1>12 DEF TrapInv

(* One field of a trap is set.                                             *)
LEMMA SetNode ==
  ASSUME node \in Seq(Nodes), NEW t \in DOMAIN node, NEW g \in Nodes, node' = [node EXCEPT ![t] = g],
         g.sig = node[t].sig, g.body = node[t].body, g.orphan = node[t].orphan
  PROVE  /\ node' \in Seq(Nodes) /\ DOMAIN node' = DOMAIN node
         /\ \A i \in DOMAIN node : node'[i].sig = node[i].sig /\ node'[i].body = node[i].body /\ node'[i].orphan = node[i].orphan
         /\ \A i \in DOMAIN node : i # t => node'[i] = node[i]
         /\ node'[t] = g
<1>1. DOMAIN node' = DOMAIN node /\ \A i \in DOMAIN node : node'[i] = IF i = t THEN g ELSE node[i]
  OBVIOUS
<1>2. node' \in Seq(Nodes)
  OBVIOUS
<1> QED BY <1>1, <1>2

(* What the lists and the kernel say, when only who runs and who is freed  *)
(* changes and no trap on a list is freed.                                 *)
LEMMA ListsKept ==
  ASSUME ListsOK, KernelOK, DOMAIN node' = DOMAIN node, UNCHANGED <<traps, disp, sigstack>>,
         \A i \in DOMAIN node : node'[i].sig = node[i].sig /\ node'[i].body = node[i].body /\ node'[i].orphan = node[i].orphan,
         \A x \in ToSet(traps) : ~node'[x].freed,
         Subs' = Subs, Subs \subseteq DOMAIN frames, \A i \in Subs : frames'[i].saved = frames[i].saved,
         \A i \in DOMAIN frames' \ Subs' : frames'[i].saved = <<>>
  PROVE  ListsOK' /\ KernelOK' /\ \A x \in ToSet(traps) : x \in DOMAIN node
<1>1. ListIn(traps, node) /\ \A x \in ToSet(traps) : x \in DOMAIN node
  <2>1. ListIn(traps, node)
    BY DEF ListsOK
  <2> QED BY <2>1 DEF ListIn, ToSet
<1>2. \A x \in ToSet(traps) : node'[x].sig = node[x].sig /\ ~node'[x].freed /\ ~node'[x].orphan
  BY <1>1 DEF ListIn
<1>3. ListIn(traps, node')
  BY <1>1, <1>2, ListKept
<1>4. \A i \in Subs : ListIn(frames[i].saved, node') /\ ToSet(frames[i].saved) \subseteq ToSet(traps)
  <2> SUFFICES ASSUME NEW i \in Subs PROVE ListIn(frames[i].saved, node') /\ ToSet(frames[i].saved) \subseteq ToSet(traps)
    OBVIOUS
  <2>1. ListIn(frames[i].saved, node) /\ ToSet(frames[i].saved) \subseteq ToSet(traps)
    BY DEF ListsOK
  <2> QED BY <2>1, <1>2, ListKept
<1>5. ListsOK'
  BY <1>3, <1>4 DEF ListsOK
<1>6. KernelOK'
  BY <1>1 DEF KernelOK
<1> QED BY <1>1, <1>5, <1>6

(* trap_handler begins to run a body.                                      *)
LEMMA BodySafe ==
  ASSUME TrapInv, NEW s \in pending, Due(s), ~trap_scope_defer(s), NEW t, t = trap_find(s), t # 0,
         frames' = Append([frames EXCEPT ![Len(frames)].at = s + 1], Frame("body", t, <<>>)),
         node' = [node EXCEPT ![t].running = TRUE], pending' = pending \ {s},
         UNCHANGED <<traps, disp, sigstack, sig_ignored, signaled, deferred, over>>
  PROVE  TrapInv'
<1>1. TypesOK /\ BodiesOK /\ ListsOK /\ WaitingOK /\ KernelOK /\ PendingNoticed /\ NoStraySignal
  BY DEF TrapInv
<1>2. node \in Seq(Nodes) /\ frames \in Seq(FrameSet) /\ ListIn(traps, node)
  BY <1>1 DEF TypesOK, ListsOK
<1>3. t \in ToSet(traps) /\ node[t].sig = s /\ t \in DOMAIN node /\ t \in Nat
  BY <1>2, FindIs DEF trap_find
<1>4. ~node[t].freed
  BY <1>2, <1>3 DEF ListIn
<1> DEFINE g == [node[t] EXCEPT !.running = TRUE]
           fr == [frames EXCEPT ![Len(frames)].at = s + 1]
           c == Frame("body", t, <<>>)
           n == Len(frames) + 1
           m == Len(frames)
<1>5. node' = [node EXCEPT ![t] = g]
  OBVIOUS
<1>6. g \in Nodes /\ g.sig = node[t].sig /\ g.body = node[t].body /\ g.orphan = node[t].orphan /\ g.freed = node[t].freed /\ g.running
  <2>1. node[t] \in Nodes
    BY <1>2, <1>3
  <2> QED BY <2>1 DEF Nodes
<1> HIDE DEF g
<1>7. /\ node' \in Seq(Nodes) /\ DOMAIN node' = DOMAIN node
      /\ \A i \in DOMAIN node : node'[i].sig = node[i].sig /\ node'[i].body = node[i].body /\ node'[i].orphan = node[i].orphan
      /\ \A i \in DOMAIN node : i # t => node'[i] = node[i]
      /\ node'[t] = g
  <2>1. /\ node \in Seq(Nodes) /\ t \in DOMAIN node /\ g \in Nodes /\ node' = [node EXCEPT ![t] = g]
        /\ g.sig = node[t].sig /\ g.body = node[t].body /\ g.orphan = node[t].orphan
    BY <1>2, <1>3, <1>5, <1>6, Zenon
  <2> QED BY <2>1, SetNode, Zenon
<1>8. \A i \in DOMAIN node : (node'[i].running <=> node[i].running \/ i = t) /\ (node'[i].freed <=> node[i].freed)
  <2> SUFFICES ASSUME NEW i \in DOMAIN node
               PROVE  (node'[i].running <=> node[i].running \/ i = t) /\ (node'[i].freed <=> node[i].freed)
    OBVIOUS
  <2>1. CASE i = t
    BY <2>1, <1>6, <1>7, Zenon
  <2>2. CASE i # t
    BY <2>2, <1>7, Zenon
  <2> QED BY <2>1, <2>2
<1>9. /\ Alike(fr) /\ m \in DOMAIN frames /\ fr[m].at = s + 1
      /\ \A k \in DOMAIN frames \ {m} : fr[k] = frames[k]
  BY <1>1, LoopOnIs
<1>10. c \in FrameSet /\ c.kind = "body" /\ c.at = t /\ c.saved = <<>>
  BY <1>3 DEF Frame, FrameSet
<1> HIDE DEF fr, c, n, m
<1>11. PushedOn(fr, c, n)
  <2>1. frames' = Append(fr, c) /\ n = Len(frames) + 1
    BY DEF fr, c, n
  <2> QED BY <2>1, <1>2, <1>9, <1>10, Pushed
<1>12. /\ frames' \in Seq(FrameSet) /\ n \notin DOMAIN frames /\ DOMAIN frames' = DOMAIN frames \cup {n}
       /\ frames'[n] = c /\ \A k \in DOMAIN frames : frames'[k] = fr[k]
       /\ Subs' = Subs /\ Bodies' = Bodies \cup {n}
       /\ \A i \in Bodies : frames'[i].at = frames[i].at
       /\ \A i \in Subs : frames'[i].saved = frames[i].saved
       /\ trap_outer' = trap_outer
  BY <1>10, <1>11 DEF PushedOn
<1>13. \A i \in Bodies : node[frames[i].at].sig # s
  BY <1>1, RunningIs DEF WaitingOK
<1>14. BodiesOK'
  <2>1. \A i \in Bodies : /\ frames'[i].at \in DOMAIN node' /\ node'[frames'[i].at].running /\ ~node'[frames'[i].at].freed
                          /\ node'[frames'[i].at].sig = node[frames[i].at].sig
    <3> SUFFICES ASSUME NEW i \in Bodies
                 PROVE  /\ frames'[i].at \in DOMAIN node' /\ node'[frames'[i].at].running /\ ~node'[frames'[i].at].freed
                        /\ node'[frames'[i].at].sig = node[frames[i].at].sig
      OBVIOUS
    <3>1. frames[i].at \in DOMAIN node /\ node[frames[i].at].running /\ ~node[frames[i].at].freed
      BY <1>1 DEF BodiesOK
    <3>2. frames'[i].at = frames[i].at
      BY <1>12
    <3> DEFINE x == frames[i].at
    <3>3. x \in DOMAIN node /\ node[x].running /\ ~node[x].freed /\ frames'[i].at = x
      BY <3>1, <3>2
    <3> HIDE DEF x
    <3>4. x \in DOMAIN node' /\ node'[x].running /\ ~node'[x].freed /\ node'[x].sig = node[x].sig
      BY <3>3, <1>7, <1>8, Zenon
    <3>5. node'[x].sig = node[frames[i].at].sig
      BY <3>4 DEF x
    <3> QED BY <3>3, <3>4, <3>5
  <2>2. /\ frames'[n].at \in DOMAIN node' /\ node'[frames'[n].at].running /\ ~node'[frames'[n].at].freed
        /\ node'[frames'[n].at].sig = s
    BY <1>3, <1>4, <1>6, <1>7, <1>10, <1>12
  <2>3. \A i, j \in Bodies' : node'[frames'[i].at].sig = node'[frames'[j].at].sig => i = j
    <3>1. \A i, j \in Bodies : node'[frames'[i].at].sig = node'[frames'[j].at].sig => i = j
      <4>1. \A i, j \in Bodies : node[frames[i].at].sig = node[frames[j].at].sig => i = j
        BY <1>1 DEF BodiesOK
      <4>2. \A i \in Bodies : node'[frames'[i].at].sig = node[frames[i].at].sig
        BY <2>1
      <4>3. SUFFICES ASSUME NEW i \in Bodies, NEW j \in Bodies, node'[frames'[i].at].sig = node'[frames'[j].at].sig
                     PROVE  i = j
        OBVIOUS
      <4>4. node'[frames'[i].at].sig = node[frames[i].at].sig /\ node'[frames'[j].at].sig = node[frames[j].at].sig
        BY <4>2
      <4>5. node[frames[i].at].sig = node[frames[j].at].sig
        BY <4>3, <4>4
      <4> QED BY <4>1, <4>5
    <3>2. \A i \in Bodies : node'[frames'[i].at].sig # node'[frames'[n].at].sig
      BY <2>1, <2>2, <1>13
    <3>3. Bodies' = Bodies \cup {n}
      BY <1>12
    <3>4. \A i \in Bodies : node'[frames'[n].at].sig # node'[frames'[i].at].sig
      BY <3>2
    <3> SUFFICES ASSUME NEW i \in Bodies', NEW j \in Bodies', node'[frames'[i].at].sig = node'[frames'[j].at].sig
                 PROVE  i = j
      OBVIOUS
    <3>5. CASE i \in Bodies /\ j \in Bodies
      BY <3>1, <3>5, Zenon
    <3>6. CASE i = n /\ j \in Bodies
      BY <3>4, <3>6, Zenon
    <3>7. CASE i \in Bodies /\ j = n
      BY <3>2, <3>7, Zenon
    <3> QED BY <3>3, <3>5, <3>6, <3>7, Zenon
  <2>4. \A i \in Bodies' : frames'[i].at \in DOMAIN node' /\ node'[frames'[i].at].running /\ ~node'[frames'[i].at].freed
    BY <2>1, <2>2, <1>12
  <2> QED BY <2>3, <2>4 DEF BodiesOK
<1>15. \A r : Running(r)' => Running(r) \/ r = s
  <2> SUFFICES ASSUME NEW r, Running(r)' PROVE Running(r) \/ r = s
    OBVIOUS
  <2>1. PICK i \in Bodies' : node'[frames'[i].at].sig = r
    BY DEF Running, Bodies
  <2>2. CASE i = n
    BY <2>1, <2>2, <1>3, <1>7, <1>10, <1>12
  <2>3. CASE i \in Bodies
    <3>1. frames[i].at \in DOMAIN node
      BY <2>3, <1>1 DEF BodiesOK
    <3>2. frames'[i].at = frames[i].at
      BY <2>3, <1>12
    <3>3. node'[frames[i].at].sig = node[frames[i].at].sig
      BY <3>1, <1>7
    <3>4. node[frames[i].at].sig = r
      BY <2>1, <3>2, <3>3
    <3> QED BY <2>3, <3>4, RunningIs
  <2> QED BY <2>1, <2>2, <2>3, <1>12
<1>16. ListsOK' /\ KernelOK' /\ \A x \in ToSet(traps) : x \in DOMAIN node
  <2>1. \A x \in ToSet(traps) : x \in DOMAIN node /\ ~node'[x].freed
    <3>1. \A x \in ToSet(traps) : x \in DOMAIN node
      BY <1>2 DEF ListIn, ToSet
    <3> QED BY <3>1, <1>2, <1>8 DEF ListIn
  <2>2. \A i \in DOMAIN frames' \ Subs' : frames'[i].saved = <<>>
    <3>1. \A k \in DOMAIN frames : frames'[k].saved = frames[k].saved
      BY <1>9, <1>12 DEF Alike
    <3> QED BY <3>1, <1>1, <1>10, <1>12 DEF ListsOK
  <2>3. Subs \subseteq DOMAIN frames
    BY DEF Subs
  <2> QED BY <2>1, <2>2, <2>3, <1>1, <1>7, <1>12, ListsKept
<1>17. s \notin deferred
  <2> SUFFICES ASSUME s \in deferred PROVE FALSE
    OBVIOUS
  <2>1. Subs # {} /\ \E i \in ToSet(trap_outer) : node[i].sig = s
    BY <1>1 DEF WaitingOK
  <2>2. ToSet(trap_outer) \subseteq ToSet(traps)
    BY <1>1, <1>2, OuterIs
  <2>3. t \in ToSet(trap_outer)
    BY <2>1, <2>2, <1>2, <1>3 DEF ListIn
  <2>4. trap_snap_depth > 0
    <3>1. trap_snap_depth \in Nat /\ trap_snap_depth # 0
      BY <2>1, <1>2, DepthIs
    <3> HIDE DEF trap_snap_depth
    <3> QED BY <3>1
  <2> QED BY <2>3, <2>4 DEF trap_scope_defer
<1>18. WaitingOK'
  <2>1. \A r \in pending' : \E i \in ToSet(traps') : node'[i].sig = r
    BY <1>1, <1>7, <1>16 DEF WaitingOK
  <2>2. \A r \in deferred' : Subs' # {} /\ \E i \in ToSet(trap_outer') : node'[i].sig = r
    <3>1. ToSet(trap_outer) \subseteq ToSet(traps)
      BY <1>1, <1>2, OuterIs
    <3> QED BY <3>1, <1>1, <1>7, <1>12, <1>16 DEF WaitingOK
  <2>3. \A r \in pending' \cup deferred' : ~Running(r)'
    BY <1>1, <1>15, <1>17 DEF WaitingOK
  <2> QED BY <2>1, <2>2, <2>3 DEF WaitingOK
<1>19. PendingNoticed'
  <2>1. \A k \in DOMAIN frames : k \in DOMAIN frames' /\ frames'[k].kind = frames[k].kind
    BY <1>9, <1>12 DEF Alike
  <2>2. frames'[m].at = s + 1 /\ \A k \in DOMAIN frames \ {m} : frames'[k].at = frames[k].at
    BY <1>9, <1>12
  <2>3. m = Len(frames)
    BY DEF m
  <2> QED BY <2>1, <2>2, <2>3, <1>1, LoopGoesOn
<1>20. TypesOK'
  BY <1>1, <1>7, <1>12 DEF TypesOK
<1>21. NoStraySignal'
  BY <1>1 DEF NoStraySignal
<1>22. PromptOK'
  <2>1. ToSet(trap_outer) \subseteq ToSet(traps)
    BY <1>1, <1>2, OuterIs
  <2>2. \A i \in ToSet(trap_outer) : node'[i].sig = node[i].sig
    BY <2>1, <1>7, <1>16
  <2> QED BY <2>2, <1>12, PromptKept DEF TrapInv
<1> QED BY <1>14, <1>16, <1>18, <1>19, <1>20, <1>21, <1>22 DEF TrapInv

LEMMA LoopStepSafe ==
  ASSUME TrapInv, LoopStep
  PROVE  TrapInv'
<1>1. TypesOK /\ BodiesOK /\ ListsOK /\ WaitingOK
  BY DEF TrapInv
<1>2. frames # <<>> /\ Top.kind = "loop" /\ UNCHANGED <<traps, disp, sigstack, sig_ignored, signaled>>
  BY DEF LoopStep
<1>3. \A s \in pending : s \in Nat
  BY <1>1, TrapConstants DEF TypesOK
<1>4. Top.at \in Nat
  <2>1. frames \in Seq(FrameSet)
    BY <1>1 DEF TypesOK
  <2>2. Top \in FrameSet
    BY <2>1, <1>2 DEF Top
  <2> QED BY <2>2 DEF FrameSet
<1> DEFINE due == {s \in pending : s >= Top.at}
<1>5. \A s \in pending : s >= Top.at <=> Top.at <= s
  BY <1>3, <1>4
<1>6. CASE due = {}
  <2>1. frames' = Front(frames) /\ UNCHANGED <<pending, deferred, node, over>>
    BY <1>6 DEF LoopStep
  <2>2. \A s \in pending : ~(Top.at <= s)
    BY <1>5, <1>6
  <2> QED BY <2>1, <2>2, <1>2, LoopEndSafe
<1>7. CASE due # {}
  <2>1. PICK s \in due :
            /\ \A r \in due : s <= r
            /\ pending' = pending \ {s}
            /\ \/ /\ trap_scope_defer(s) /\ LoopOn(s) /\ UNCHANGED node
                  /\ \/ deferred' = deferred \cup {s} /\ UNCHANGED over
                     \/ over' = "killed" /\ UNCHANGED deferred
               \/ ~trap_scope_defer(s) /\ trap_handler(s) /\ UNCHANGED deferred
    BY <1>7 DEF LoopStep
  <2>2. Due(s) /\ s \in pending
    BY <2>1, <1>2, <1>5 DEF Due
  <2>3. CASE /\ trap_scope_defer(s) /\ LoopOn(s) /\ UNCHANGED node
             /\ \/ deferred' = deferred \cup {s} /\ UNCHANGED over
                \/ over' = "killed" /\ UNCHANGED deferred
    <3>1. Passed(s)
      BY <2>1, <2>3, <1>2 DEF Passed
    <3> QED BY <3>1, <2>2, LoopOnSafe
  <2>4. CASE ~trap_scope_defer(s) /\ trap_handler(s) /\ UNCHANGED deferred
    <3> DEFINE t == trap_find(s)
    <3>1. t # 0
      <4>1. \E i \in ToSet(traps) : node[i].sig = s
        BY <2>2, <1>1 DEF WaitingOK
      <4>2. node \in Seq(Nodes) /\ ListIn(traps, node)
        BY <1>1 DEF TypesOK, ListsOK
      <4> QED BY <4>1, <4>2, FindIs DEF trap_find
    <3>2. CASE ~node[t].body
      <4>1. LoopOn(s) /\ UNCHANGED <<over, node>>
        BY <3>1, <3>2, <2>4 DEF trap_handler
      <4>2. Passed(s)
        BY <4>1, <2>1, <2>4, <1>2 DEF Passed
      <4> QED BY <4>2, <2>2, LoopOnSafe
    <3>3. CASE node[t].body
      <4>1. /\ frames' = Append([frames EXCEPT ![Len(frames)].at = s + 1], Frame("body", t, <<>>))
            /\ node' = [node EXCEPT ![t].running = TRUE] /\ UNCHANGED over
        BY <3>1, <3>3, <2>4 DEF trap_handler
      <4> HIDE DEF t
      <4>2. t = trap_find(s)
        BY DEF t
      <4> QED BY <4>1, <4>2, <3>1, <2>1, <2>2, <2>4, <1>2, BodySafe
    <3> QED BY <3>2, <3>3
  <2> QED BY <2>1, <2>3, <2>4
<1> QED BY <1>6, <1>7

Ended(v, b) == [v EXCEPT !.running = FALSE, !.freed = b]
LEMMA EndedNode ==
  ASSUME NEW v \in Nodes, NEW b \in BOOLEAN, NEW g, g = Ended(v, b)
  PROVE  g \in Nodes /\ g.sig = v.sig /\ g.body = v.body /\ g.orphan = v.orphan /\ g.freed = b
<1>1. v \in [sig : Sigs, body : BOOLEAN, running : BOOLEAN, orphan : BOOLEAN, freed : BOOLEAN]
  BY DEF Nodes
<1> DEFINE w == [v EXCEPT !.running = FALSE]
<1>2. w \in Nodes /\ w.sig = v.sig /\ w.body = v.body /\ w.orphan = v.orphan
  BY <1>1 DEF Nodes
<1>3. g = [w EXCEPT !.freed = b]
  BY <1>1 DEF Ended
<1> HIDE DEF w
<1>4. g \in Nodes /\ g.sig = w.sig /\ g.body = w.body /\ g.orphan = w.orphan /\ g.freed = b
  BY <1>2, <1>3 DEF Nodes
<1> QED BY <1>2, <1>4

(* A body has run: an orphan is freed, and no list holds it.               *)
LEMMA EndBodySafe ==
  ASSUME TrapInv, EndBody
  PROVE  TrapInv'
<1> DEFINE n == Len(frames)
           t == frames[n].at
           v == node[t]
           g == [v EXCEPT !.running = FALSE, !.freed = v.freed \/ v.orphan]
<1>1. /\ frames # <<>> /\ frames[n].kind = "body" /\ frames' = Front(frames)
      /\ node' = [node EXCEPT ![t].running = FALSE, ![t].freed = @ \/ node[t].orphan]
      /\ UNCHANGED <<traps, disp, sigstack, sig_ignored, pending, deferred, signaled, over>>
  BY DEF EndBody, Top
<1>2. TypesOK /\ BodiesOK /\ ListsOK /\ WaitingOK /\ KernelOK /\ PendingNoticed /\ NoStraySignal
  BY DEF TrapInv
<1>3. node \in Seq(Nodes) /\ frames \in Seq(FrameSet) /\ ListIn(traps, node)
  BY <1>2 DEF TypesOK, ListsOK
<1>4. n \in DOMAIN frames /\ n \in Bodies
  <2>1. n \in DOMAIN frames
    BY <1>1, <1>3
  <2> QED BY <2>1, <1>1 DEF Bodies
<1>5. t \in DOMAIN node /\ v.running /\ ~v.freed
  BY <1>2, <1>4 DEF BodiesOK
<1>6. v \in Nodes
  BY <1>3, <1>5
<1>7. g \in Nodes /\ g.sig = v.sig /\ g.body = v.body /\ g.orphan = v.orphan /\ (g.freed <=> v.orphan)
  <2>1. v.orphan \in BOOLEAN /\ v.freed \in BOOLEAN
    <3> HIDE DEF v
    <3> QED BY <1>6 DEF Nodes
  <2> DEFINE b == v.freed \/ v.orphan
  <2>2. b \in BOOLEAN /\ g = Ended(v, b)
    BY <2>1 DEF Ended
  <2>3. b <=> v.orphan
    BY <1>5
  <2> HIDE DEF v, b, g
  <2>4. g \in Nodes /\ g.sig = v.sig /\ g.body = v.body /\ g.orphan = v.orphan /\ g.freed = b
    BY <2>2, <1>6, EndedNode, Zenon
  <2> QED BY <2>4, <2>3, Zenon
<1>8. node' = [node EXCEPT ![t] = g]
  BY <1>1, <1>5
<1> HIDE DEF g, t
<1>9. /\ node' \in Seq(Nodes) /\ DOMAIN node' = DOMAIN node
      /\ \A i \in DOMAIN node : node'[i].sig = node[i].sig /\ node'[i].body = node[i].body /\ node'[i].orphan = node[i].orphan
      /\ \A i \in DOMAIN node : i # t => node'[i] = node[i]
      /\ node'[t] = g
  BY <1>3, <1>5, <1>7, <1>8, SetNode
<1>10. \A x \in ToSet(traps) : x \in DOMAIN node /\ ~node'[x].freed
  <2>1. \A x \in ToSet(traps) : x \in DOMAIN node
    BY <1>3 DEF ListIn, ToSet
  <2>2. \A x \in ToSet(traps) : ~node[x].freed /\ ~node[x].orphan
    BY <1>3 DEF ListIn
  <2>3. ASSUME NEW x \in ToSet(traps), x = t
        PROVE  ~node'[x].freed
    <3>1. ~v.orphan
      BY <2>2, <2>3 DEF v
    <3>2. node'[x] = g
      BY <2>3, <1>9
    <3> QED BY <3>1, <3>2, <1>7
  <2>4. ASSUME NEW x \in ToSet(traps), x # t
        PROVE  ~node'[x].freed
    BY <2>1, <2>2, <2>4, <1>9
  <2> QED BY <2>1, <2>3, <2>4
<1> HIDE DEF v
<1>11. n \notin Subs
  BY <1>1 DEF Subs
<1>12. /\ frames' \in Seq(FrameSet) /\ DOMAIN frames' = DOMAIN frames \ {n}
       /\ \A k \in DOMAIN frames \ {n} : frames'[k] = frames[k]
       /\ Subs' = Subs /\ Bodies' = Bodies \ {n} /\ trap_outer' = trap_outer
  <2>1. n = Len(frames)
    OBVIOUS
  <2> HIDE DEF n
  <2>2. /\ frames' \in Seq(FrameSet) /\ DOMAIN frames' = DOMAIN frames \ {n}
        /\ \A k \in DOMAIN frames \ {n} : frames'[k] = frames[k]
        /\ Subs' = Subs \ {n} /\ Bodies' = Bodies \ {n}
        /\ n \notin Subs \/ Subs \ {n} # {} => trap_outer' = trap_outer
    BY <2>1, <1>1, <1>3, PoppedFrame, Zenon
  <2>3. Subs \ {n} = Subs
    BY <1>11
  <2> QED BY <2>2, <2>3, <1>11
<1> HIDE DEF n
<1>13. BodiesOK' /\ \A s : Running(s)' => Running(s)
  <2>1. ASSUME NEW i \in Bodies'
        PROVE  /\ frames'[i].at = frames[i].at /\ frames[i].at \in DOMAIN node'
               /\ node'[frames[i].at].sig = node[frames[i].at].sig
               /\ node'[frames[i].at].running /\ ~node'[frames[i].at].freed
    <3>1. i \in Bodies /\ i # n /\ i \in DOMAIN frames
      BY <1>12 DEF Bodies
    <3>2. frames[i].at \in DOMAIN node /\ node[frames[i].at].running /\ ~node[frames[i].at].freed
      BY <3>1, <1>2 DEF BodiesOK
    <3>3. frames[i].at # t
      BY <3>1, <1>2, <1>4 DEF BodiesOK, t
    <3>4. node'[frames[i].at] = node[frames[i].at]
      BY <3>2, <3>3, <1>9
    <3>5. frames'[i].at = frames[i].at
      BY <3>1, <1>12
    <3> QED BY <3>2, <3>4, <3>5, <1>9
  <2>2. Bodies' \subseteq Bodies
    BY <1>12
  <2> QED BY <2>1, <2>2, <1>2, BodiesKept
<1>14. ListsOK' /\ KernelOK'
  <2>1. Subs \subseteq DOMAIN frames \ {n}
    BY <1>11 DEF Subs
  <2>2. \A i \in Subs : frames'[i].saved = frames[i].saved
    BY <2>1, <1>12
  <2>3. \A i \in DOMAIN frames' \ Subs' : frames'[i].saved = <<>>
    BY <1>2, <1>12 DEF ListsOK
  <2> QED BY <2>1, <2>2, <2>3, <1>1, <1>2, <1>9, <1>10, <1>12, ListsKept
<1>15. WaitingOK'
  <2>1. \A s \in pending' : \E i \in ToSet(traps') : node'[i].sig = s
    BY <1>1, <1>2, <1>9, <1>10 DEF WaitingOK
  <2>2. \A s \in deferred' : Subs' # {} /\ \E i \in ToSet(trap_outer') : node'[i].sig = s
    <3>1. ToSet(trap_outer) \subseteq ToSet(traps)
      BY <1>2, <1>3, OuterIs
    <3> QED BY <3>1, <1>1, <1>2, <1>9, <1>10, <1>12 DEF WaitingOK
  <2>3. \A s \in pending' \cup deferred' : ~Running(s)'
    BY <1>1, <1>2, <1>13 DEF WaitingOK
  <2> QED BY <2>1, <2>2, <2>3 DEF WaitingOK
<1>16. TypesOK'
  BY <1>1, <1>2, <1>9, <1>12 DEF TypesOK
<1>17. PendingNoticed'
  <2>1. \A i \in DOMAIN frames : frames[i].kind = "loop" => i \in DOMAIN frames' /\ frames'[i] = frames[i]
    BY <1>1, <1>12 DEF n
  <2> QED BY <2>1, <1>1, <1>2 DEF PendingNoticed
<1>18. NoStraySignal'
  BY <1>1, <1>2 DEF NoStraySignal
<1>19. PromptOK'
  <2>1. ToSet(trap_outer) \subseteq ToSet(traps)
    BY <1>2, <1>3, OuterIs
  <2>2. \A i \in ToSet(trap_outer) : node'[i].sig = node[i].sig
    BY <2>1, <1>9, <1>10
  <2> QED BY <2>2, <1>1, <1>12, PromptKept DEF TrapInv
<1> QED BY <1>13, <1>14, <1>15, <1>16, <1>17, <1>18, <1>19 DEF TrapInv

(* What a restore does to one trap of the subshell.                        *)
Dropped(v) == IF v.running THEN [v EXCEPT !.orphan = TRUE] ELSE [v EXCEPT !.freed = TRUE]
LEMMA DroppedNode ==
  ASSUME NEW v \in Nodes, NEW g, g = Dropped(v)
  PROVE  g \in Nodes /\ g.sig = v.sig /\ g.body = v.body /\ g.running = v.running /\ (v.running => g.freed = v.freed)
<1>1. v \in [sig : Sigs, body : BOOLEAN, running : BOOLEAN, orphan : BOOLEAN, freed : BOOLEAN]
  BY DEF Nodes
<1>2. CASE v.running
  BY <1>1, <1>2 DEF Nodes, Dropped
<1>3. CASE ~v.running
  BY <1>1, <1>3 DEF Nodes, Dropped
<1> QED BY <1>2, <1>3

(* The kernel's side k of a signal after the restore of list l.            *)
KernelIs(l, s, k) ==
  /\ \A i \in ToSet(l) : node[i].sig = s => Len(k.stack) = 1 /\ k.disp = IF node[i].body THEN "relay" ELSE "ign"
  /\ (\A i \in ToSet(l) : node[i].sig # s) => k.stack = <<>> /\ k.disp \in Default
  /\ k.disp \in Default \cup {"relay"} /\ k.stack \in Seq(Default) /\ k = [disp |-> k.disp, stack |-> k.stack]
  /\ (\E i \in ToSet(l) : node[i].sig = s) => k.stack = sigstack[s]
  /\ sigstack[s] = <<>> => k.disp = disp[s]
LEMMA KernelRestored ==
  ASSUME TrapInv, NEW l, ListIn(l, node), ToSet(l) \subseteq ToSet(traps), NEW s \in Sigs,
         NEW k, k = Rearmed(l, s, Popped(ToSet(traps) \ ToSet(l), s))
  PROVE  KernelIs(l, s, k)
<1> USE DEF KernelIs
<1>1. TypesOK /\ ListsOK /\ KernelOK
  BY DEF TrapInv
<1>2. node \in Seq(Nodes) /\ ListIn(traps, node) /\ disp[s] \in Default \cup {"relay"} /\ sigstack[s] \in Seq(Default)
  BY <1>1 DEF TypesOK, ListsOK
<1> DEFINE new == ToSet(traps) \ ToSet(l)
           p == Popped(new, s)
<1>3. Of(s).disp = disp[s] /\ Of(s).stack = sigstack[s]
  BY DEF Of
<1>4. CASE \E i \in ToSet(l) : node[i].sig = s
  <2>1. PICK i \in ToSet(l) : node[i].sig = s
    BY <1>4
  <2>2. i \in ToSet(traps) /\ Len(sigstack[s]) = 1 /\ disp[s] = IF node[i].body THEN "relay" ELSE "ign"
    BY <2>1, <1>1 DEF KernelOK
  <2>3. \A j \in new : node[j].sig # s
    BY <2>1, <2>2, <1>2 DEF ListIn
  <2>4. p = [disp |-> disp[s], stack |-> sigstack[s]]
    BY <2>3 DEF Popped, Of
  <2>5. trap_find_in(l, s) = i /\ i # 0
    BY <2>1, <1>2, FindIs
  <2> HIDE DEF p
  <2>6. k = IF node[i].body THEN [p EXCEPT !.disp = "relay"] ELSE p
    BY <2>5 DEF Rearmed, p
  <2>7. [p EXCEPT !.disp = "relay"] = [disp |-> "relay", stack |-> sigstack[s]]
    BY <2>4
  <2>8. k = [disp |-> disp[s], stack |-> sigstack[s]]
    BY <2>2, <2>4, <2>6, <2>7
  <2>9. k.disp = disp[s] /\ k.stack = sigstack[s]
    BY <2>8
  <2>10. \A j \in ToSet(l) : node[j].sig = s => j = i
    BY <2>1 DEF ListIn
  <2> QED BY <2>1, <2>2, <2>8, <2>9, <2>10, <1>2
<1>5. CASE \A i \in ToSet(l) : node[i].sig # s
  <2>1. trap_find_in(l, s) = 0
    BY <1>2, <1>5, FindIs
  <2>2. k = p
    BY <2>1 DEF Rearmed
  <2>3. /\ p.stack = <<>> /\ p.disp \in Default /\ p = [disp |-> p.disp, stack |-> p.stack]
        /\ sigstack[s] = <<>> => p.disp = disp[s]
    <3>1. CASE \E j \in new : node[j].sig = s
      <4>1. Len(sigstack[s]) = 1
        BY <3>1, <1>1 DEF KernelOK
      <4>2. sigstack[s] # <<>> /\ Last(sigstack[s]) \in Default
        BY <4>1, <1>2 DEF Last
      <4>3. Front(sigstack[s]) = <<>>
        BY <4>1, <1>2 DEF Front
      <4>4. p = sig_pop(Of(s))
        BY <3>1 DEF Popped
      <4>5. p = [disp |-> Last(sigstack[s]), stack |-> Front(sigstack[s])]
        BY <4>2, <4>4, <1>3 DEF sig_pop
      <4> HIDE DEF p
      <4> QED BY <4>2, <4>3, <4>5
    <3>2. CASE \A j \in new : node[j].sig # s
      <4>1. \A j \in ToSet(traps) : node[j].sig # s
        BY <3>2, <1>5
      <4>2. sigstack[s] = <<>> /\ disp[s] \in Default
        BY <4>1, <1>1 DEF KernelOK
      <4>3. p = Of(s)
        BY <3>2 DEF Popped
      <4> HIDE DEF p
      <4>4. Of(s) = [disp |-> disp[s], stack |-> sigstack[s]]
        BY DEF Of
      <4> QED BY <4>2, <4>3, <4>4
    <3> QED BY <3>1, <3>2
  <2>4. /\ k.stack = <<>> /\ k.disp \in Default /\ k = [disp |-> k.disp, stack |-> k.stack]
        /\ sigstack[s] = <<>> => k.disp = disp[s]
    BY <2>2, <2>3
  <2>5. <<>> \in Seq(Default)
    OBVIOUS
  <2> QED BY <2>4, <2>5, <1>5
<1> QED BY <1>4, <1>5

(* The same once sh_sigignore() has seen to it.                            *)
LEMMA KernelIgnored ==
  ASSUME TrapInv, NEW l, ListIn(l, node), ToSet(l) \subseteq ToSet(traps), NEW s \in Sigs,
         NEW k, k = sh_sigignore(s, Rearmed(l, s, Popped(ToSet(traps) \ ToSet(l), s)))
  PROVE  /\ \A i \in ToSet(l) : node[i].sig = s => Len(k.stack) = 1 /\ k.disp = IF node[i].body THEN "relay" ELSE "ign"
         /\ (\A i \in ToSet(l) : node[i].sig # s) => k.stack = <<>> /\ k.disp \in Default
         /\ k.disp \in Default \cup {"relay"} /\ k.stack \in Seq(Default)
         /\ (\E i \in ToSet(l) : node[i].sig = s) => k.stack = sigstack[s]
         /\ sh_interactive /\ s \in ShellSigs => k.disp # "dfl" /\ (s \in sig_ignored => k.disp = "ign" /\ k.stack = <<>>)
<1> DEFINE r == Rearmed(l, s, Popped(ToSet(traps) \ ToSet(l), s))
           b == sh_interactive /\ s \in ShellSigs \ sig_ignored /\ r.disp = "dfl"
<1>1. k = IF b THEN [r EXCEPT !.disp = "ign"] ELSE r
  BY DEF sh_sigignore
<1>0. r = Rearmed(l, s, Popped(ToSet(traps) \ ToSet(l), s))
  OBVIOUS
<1> HIDE DEF r
<1>2. KernelIs(l, s, r)
  BY <1>0, KernelRestored
<1> DEFINE rd == r.disp
           rs == r.stack
<1>3. r = [disp |-> rd, stack |-> rs]
  BY <1>2 DEF KernelIs
<1> HIDE DEF rd, rs
<1>4. [r EXCEPT !.disp = "ign"] = [disp |-> "ign", stack |-> rs]
  BY <1>3
<1>5. k.stack = rs /\ k.disp = IF b THEN "ign" ELSE rd
  BY <1>1, <1>3, <1>4
<1>6. b => rd = "dfl"
  BY DEF rd
<1>7. sh_interactive /\ s \in ShellSigs => b \/ rd # "dfl" \/ s \in sig_ignored
  BY DEF rd
<1>8. sh_interactive /\ s \in ShellSigs /\ s \in sig_ignored => disp[s] = "ign" /\ sigstack[s] = <<>>
  BY DEF TrapInv, PromptOK
<1>9. s \in sig_ignored => ~b
  OBVIOUS
<1>10. /\ \A i \in ToSet(l) : node[i].sig = s => Len(rs) = 1 /\ rd = IF node[i].body THEN "relay" ELSE "ign"
       /\ (\A i \in ToSet(l) : node[i].sig # s) => rs = <<>> /\ rd \in Default
       /\ rd \in Default \cup {"relay"} /\ rs \in Seq(Default)
       /\ (\E i \in ToSet(l) : node[i].sig = s) => rs = sigstack[s]
       /\ sigstack[s] = <<>> => rd = disp[s]
  BY <1>2 DEF KernelIs, rd, rs
<1> HIDE DEF b
<1>11. \A i \in ToSet(l) : node[i].sig = s => rd # "dfl" /\ Len(sigstack[s]) = 1
  BY <1>10
<1>12. s \in sig_ignored /\ sh_interactive /\ s \in ShellSigs => rd = "ign" /\ rs = <<>>
  <2>1. Len(<<>>) # 1
    OBVIOUS
  <2> QED BY <2>1, <1>8, <1>10, <1>11
<1> QED BY <1>5, <1>6, <1>7, <1>9, <1>10, <1>11, <1>12 DEF Default

(* A subshell ends.                                                        *)
LEMMA RestoreSafe ==
  ASSUME TrapInv, trap_snapshot_restore
  PROVE  TrapInv'
<1> DEFINE n == Len(frames)
           l == frames[n].saved
           new == ToSet(traps) \ ToSet(l)
           K(s) == sh_sigignore(s, Rearmed(l, s, Popped(new, s)))
<1>1. /\ frames # <<>> /\ frames[n].kind = "sub" /\ frames' = Front(frames) /\ traps' = l
      /\ node' = [i \in DOMAIN node |-> IF i \notin new THEN node[i] ELSE Dropped(node[i])]
      /\ disp' = [s \in Sigs |-> K(s).disp] /\ sigstack' = [s \in Sigs |-> K(s).stack]
      /\ UNCHANGED <<sig_ignored, over>>
  BY DEF trap_snapshot_restore, Top, Restored, Dropped
<1>2. /\ pending' = (pending \ {node[i].sig : i \in new}) \cup Handed
      /\ deferred' = deferred \ Handed
      /\ signaled' = (signaled \/ Handed # {})
  BY DEF trap_snapshot_restore, Top
<1>3. TypesOK /\ BodiesOK /\ ListsOK /\ WaitingOK /\ KernelOK /\ PendingNoticed /\ NoStraySignal
  BY DEF TrapInv
<1>4. node \in Seq(Nodes) /\ frames \in Seq(FrameSet) /\ ListIn(traps, node)
  BY <1>3 DEF TypesOK, ListsOK
<1>5. n \in DOMAIN frames /\ n \in Subs /\ n \notin Bodies
  <2>1. n \in DOMAIN frames
    BY <1>1, <1>4
  <2> QED BY <2>1, <1>1 DEF Subs, Bodies
<1>6. ListIn(l, node) /\ ToSet(l) \subseteq ToSet(traps) /\ \A i \in Subs : i < n => ToSet(frames[i].saved) \subseteq ToSet(l)
  BY <1>3, <1>5 DEF ListsOK
<1>7. \A x \in ToSet(traps) : x \in DOMAIN node
  BY <1>4 DEF ListIn, ToSet
<1>8. /\ frames' \in Seq(FrameSet) /\ DOMAIN frames' = DOMAIN frames \ {n}
      /\ \A k \in DOMAIN frames \ {n} : k \in Nat /\ k < n /\ frames'[k] = frames[k]
      /\ Subs' = Subs \ {n} /\ Bodies' = Bodies
      /\ Subs \ {n} # {} => trap_outer' = trap_outer
  <2>1. n = Len(frames) /\ frames # <<>> /\ frames' = Front(frames) /\ frames \in Seq(FrameSet)
    BY <1>1, <1>4
  <2>2. n \in Subs /\ n \notin Bodies
    BY <1>5
  <2> HIDE DEF n
  <2>3. /\ frames' \in Seq(FrameSet) /\ DOMAIN frames' = DOMAIN frames \ {n}
        /\ \A k \in DOMAIN frames \ {n} : k \in Nat /\ k < n /\ frames'[k] = frames[k]
        /\ Subs' = Subs \ {n} /\ Bodies' = Bodies \ {n}
        /\ n \notin Subs \/ Subs \ {n} # {} => trap_outer' = trap_outer
    BY <2>1, PoppedFrame, Zenon
  <2>4. Bodies \ {n} = Bodies
    BY <2>2
  <2> QED BY <2>3, <2>4
<1> HIDE DEF n, l, new, K
<1>9. /\ DOMAIN node' = DOMAIN node
      /\ \A i \in DOMAIN node : node'[i] = IF i \notin new THEN node[i] ELSE Dropped(node[i])
  BY <1>1
<1>10. \A i \in DOMAIN node : /\ node'[i] \in Nodes /\ node'[i].sig = node[i].sig /\ node'[i].body = node[i].body
                              /\ node'[i].running = node[i].running
                              /\ node[i].running => node'[i].freed = node[i].freed
  <2> SUFFICES ASSUME NEW i \in DOMAIN node
               PROVE  /\ node'[i] \in Nodes /\ node'[i].sig = node[i].sig /\ node'[i].body = node[i].body
                      /\ node'[i].running = node[i].running
                      /\ node[i].running => node'[i].freed = node[i].freed
    OBVIOUS
  <2>1. node[i] \in Nodes
    BY <1>4
  <2>2. CASE i \notin new
    BY <2>1, <2>2, <1>9
  <2>3. CASE i \in new
    <3>1. node'[i] = Dropped(node[i])
      BY <2>3, <1>9
    <3> QED BY <2>1, <3>1, DroppedNode
  <2> QED BY <2>2, <2>3
<1>11. node' \in Seq(Nodes)
  <2>1. DOMAIN node' = 1..Len(node) /\ Len(node) \in Nat /\ \A i \in 1..Len(node) : node'[i] \in Nodes
    BY <1>4, <1>9, <1>10
  <2>2. node' = [i \in 1..Len(node) |-> node'[i]]
    <3>1. node' = [i \in DOMAIN node |-> node'[i]]
      BY <1>1
    <3> QED BY <3>1, <2>1, <1>9
  <2> QED BY <2>1, <2>2
<1>12. \A x \in ToSet(l) : x \in DOMAIN node /\ node'[x] = node[x]
  BY <1>6, <1>7, <1>9 DEF new
<1>13. BodiesOK' /\ \A s : Running(s)' => Running(s)
  <2>1. ASSUME NEW i \in Bodies'
        PROVE  /\ frames'[i].at = frames[i].at /\ frames[i].at \in DOMAIN node'
               /\ node'[frames[i].at].sig = node[frames[i].at].sig
               /\ node'[frames[i].at].running /\ ~node'[frames[i].at].freed
    <3>1. i \in Bodies /\ i \in DOMAIN frames \ {n}
      BY <1>5, <1>8 DEF Bodies
    <3>2. frames[i].at \in DOMAIN node /\ node[frames[i].at].running /\ ~node[frames[i].at].freed
      BY <3>1, <1>3 DEF BodiesOK
    <3>3. frames'[i].at = frames[i].at
      BY <3>1, <1>8
    <3> DEFINE x == frames[i].at
    <3>4. x \in DOMAIN node /\ node[x].running /\ ~node[x].freed
      BY <3>2
    <3> HIDE DEF x
    <3>5. x \in DOMAIN node' /\ node'[x].sig = node[x].sig /\ node'[x].running /\ ~node'[x].freed
      BY <3>4, <1>9, <1>10, Zenon
    <3> QED BY <3>3, <3>5 DEF x
  <2> QED BY <2>1, <1>3, <1>8, BodiesKept
<1>14. ListsOK'
  <2>1. ASSUME NEW i \in Subs'
        PROVE  /\ i \in Subs /\ i < n /\ frames'[i].saved = frames[i].saved /\ ToSet(frames[i].saved) \subseteq ToSet(l)
               /\ ListIn(frames[i].saved, node')
    <3>1. i \in Subs /\ i \in DOMAIN frames \ {n}
      BY <1>8 DEF Subs
    <3>2. i < n /\ frames'[i].saved = frames[i].saved
      BY <3>1, <1>8
    <3>3. ToSet(frames[i].saved) \subseteq ToSet(l)
      BY <3>1, <3>2, <1>6
    <3>4. ListIn(frames[i].saved, node)
      BY <3>1, <1>3 DEF ListsOK
    <3>5. \A x \in ToSet(frames[i].saved) : node'[x].sig = node[x].sig /\ ~node'[x].freed /\ ~node'[x].orphan
      BY <3>3, <3>4, <1>12 DEF ListIn
    <3>6. ListIn(frames[i].saved, node')
      BY <3>4, <3>5, <1>9, ListKept
    <3> QED BY <3>1, <3>2, <3>3, <3>6
  <2>2. ListIn(traps', node')
    <3>1. \A x \in ToSet(l) : node'[x].sig = node[x].sig /\ ~node'[x].freed /\ ~node'[x].orphan
      BY <1>6, <1>12 DEF ListIn
    <3> QED BY <3>1, <1>1, <1>6, <1>9, ListKept
  <2>3. \A i \in DOMAIN frames' \ Subs' : frames'[i].saved = <<>>
    BY <1>3, <1>8 DEF ListsOK
  <2>4. \A i, j \in Subs' : i < j => ToSet(frames'[i].saved) \subseteq ToSet(frames'[j].saved)
    BY <2>1, <1>3 DEF ListsOK
  <2>5. \A i \in Subs' : ListIn(frames'[i].saved, node') /\ ToSet(frames'[i].saved) \subseteq ToSet(traps')
    BY <2>1, <1>1
  <2> QED BY <2>2, <2>3, <2>4, <2>5 DEF ListsOK
<1>15. /\ Handed \subseteq deferred
       /\ Handed # {} => trap_outer = l
       /\ deferred \ Handed # {} => Subs \ {n} # {}
  <2>1. /\ trap_snap_depth \in Nat /\ trap_snap_depth # 0
        /\ trap_snap_depth <= 1 <=> \A i, j \in Subs : i = j
    BY <1>4, <1>5, DepthIs
  <2>2. trap_snap_depth = 1 <=> Subs = {n}
    <3>1. trap_snap_depth = 1 <=> trap_snap_depth <= 1
      <4> HIDE DEF trap_snap_depth
      <4> QED BY <2>1
    <3> QED BY <3>1, <2>1, <1>5
  <2>3. Subs = {n} => trap_outer = l
    <3>1. Subs # {} => Min(Subs) \in Subs /\ trap_outer = frames[Min(Subs)].saved
      BY <1>3, <1>4, OuterIs
    <3> QED BY <3>1, <1>5 DEF l
  <2> QED BY <2>2, <2>3, <1>5 DEF Handed
<1>16. WaitingOK'
  <2>1. \A s \in pending' : \E i \in ToSet(traps') : node'[i].sig = s
    <3> SUFFICES ASSUME NEW s \in pending' PROVE \E i \in ToSet(l) : node'[i].sig = s
      BY <1>1
    <3>1. CASE s \in Handed
      BY <3>1, <1>3, <1>12, <1>15 DEF WaitingOK
    <3>2. CASE s \in pending /\ \A i \in new : node[i].sig # s
      <4>1. PICK i \in ToSet(traps) : node[i].sig = s
        BY <3>2, <1>3 DEF WaitingOK
      <4>2. i \in ToSet(l)
        BY <4>1, <3>2 DEF new
      <4> QED BY <4>1, <4>2, <1>12
    <3> QED BY <3>1, <3>2, <1>2
  <2>2. \A s \in deferred' : Subs' # {} /\ \E i \in ToSet(trap_outer') : node'[i].sig = s
    <3> SUFFICES ASSUME NEW s \in deferred' PROVE Subs' # {} /\ \E i \in ToSet(trap_outer') : node'[i].sig = s
      OBVIOUS
    <3>1. s \in deferred /\ Subs' # {} /\ trap_outer' = trap_outer
      BY <1>2, <1>8, <1>15
    <3>2. PICK i \in ToSet(trap_outer) : node[i].sig = s
      BY <3>1, <1>3 DEF WaitingOK
    <3>3. i \in DOMAIN node
      <4>1. ToSet(trap_outer) \subseteq ToSet(traps)
        BY <1>3, <1>4, OuterIs
      <4> QED BY <4>1, <1>7
    <3> QED BY <3>1, <3>2, <3>3, <1>10
  <2>3. \A s \in pending' \cup deferred' : ~Running(s)'
    BY <1>2, <1>3, <1>13, <1>15 DEF WaitingOK
  <2> QED BY <2>1, <2>2, <2>3 DEF WaitingOK
<1>17. \A s \in Sigs :
         /\ \A i \in ToSet(l) : node[i].sig = s => Len(K(s).stack) = 1 /\ K(s).disp = IF node[i].body THEN "relay" ELSE "ign"
         /\ (\A i \in ToSet(l) : node[i].sig # s) => K(s).stack = <<>> /\ K(s).disp \in Default
         /\ K(s).disp \in Default \cup {"relay"} /\ K(s).stack \in Seq(Default)
         /\ (\E i \in ToSet(l) : node[i].sig = s) => K(s).stack = sigstack[s]
         /\ sh_interactive /\ s \in ShellSigs => K(s).disp # "dfl" /\ (s \in sig_ignored => K(s).disp = "ign" /\ K(s).stack = <<>>)
  BY <1>6, KernelIgnored DEF K, new
<1>18. \A s \in Sigs : disp'[s] = K(s).disp /\ sigstack'[s] = K(s).stack
  BY <1>1
<1>19. KernelOK'
  <2>1. traps' = l /\ \A i \in ToSet(l) : node'[i].sig = node[i].sig /\ node'[i].body = node[i].body
    BY <1>1, <1>12
  <2> QED BY <2>1, <1>17, <1>18 DEF KernelOK
<1>20. TypesOK'
  <2>1. disp' \in [Sigs -> Default \cup {"relay"}] /\ sigstack' \in [Sigs -> Seq(Default)]
    BY <1>1, <1>17
  <2>2. pending' \subseteq Sigs /\ deferred' \subseteq Sigs
    BY <1>2, <1>3, <1>15 DEF TypesOK
  <2>3. signaled' \in BOOLEAN
    BY <1>2
  <2> QED BY <2>1, <2>2, <2>3, <1>1, <1>3, <1>8, <1>11 DEF TypesOK
<1>21. PendingNoticed'
  <2> SUFFICES ASSUME NEW s \in pending', ~signaled'
               PROVE  \E i \in DOMAIN frames' : frames'[i].kind = "loop" /\ frames'[i].at <= s
    BY DEF PendingNoticed
  <2>1. s \in pending /\ ~signaled
    BY <1>2
  <2>2. PICK i \in DOMAIN frames : frames[i].kind = "loop" /\ frames[i].at <= s
    BY <2>1, <1>3 DEF PendingNoticed
  <2>3. i # n
    BY <2>2, <1>1 DEF n
  <2> QED BY <2>2, <2>3, <1>8
<1>22. NoStraySignal'
  BY <1>1, <1>3 DEF NoStraySignal
<1>23. PromptOK'
  <2> SUFFICES ASSUME sh_interactive, NEW s \in ShellSigs \cap Sigs
               PROVE  /\ s \in sig_ignored => disp'[s] = "ign" /\ sigstack'[s] = <<>>
                      /\ (Subs' = {} \/ \E i \in ToSet(trap_outer') : node'[i].sig = s) => sigstack'[s] \in Seq({"ign"})
                      /\ disp'[s] # "dfl"
    BY <1>1 DEF PromptOK
  <2>1. disp'[s] # "dfl" /\ (s \in sig_ignored => disp'[s] = "ign" /\ sigstack'[s] = <<>>)
    BY <1>17, <1>18
  <2>2. CASE \A i \in ToSet(l) : node[i].sig # s
    <3>1. sigstack'[s] = <<>>
      BY <2>2, <1>17, <1>18
    <3>2. <<>> \in Seq({"ign"})
      OBVIOUS
    <3> QED BY <3>1, <3>2, <2>1
  <2>3. CASE \E i \in ToSet(l) : node[i].sig = s
    <3>1. sigstack'[s] = sigstack[s]
      BY <2>3, <1>17, <1>18
    <3>2. CASE Subs' = {}
      <4>1. Subs = {n}
        BY <3>2, <1>5, <1>8
      <4>2. trap_outer = l
        <5>1. Min(Subs) \in Subs /\ trap_outer = frames[Min(Subs)].saved
          BY <4>1, <1>3, <1>4, OuterIs
        <5> QED BY <4>1, <5>1 DEF l
      <4> QED BY <4>2, <3>1, <2>1, <2>3 DEF TrapInv, PromptOK
    <3>3. CASE \E i \in ToSet(trap_outer') : node'[i].sig = s
      <4>1. CASE Subs' # {}
        <5>1. trap_outer' = trap_outer
          BY <4>1, <1>8
        <5>2. ToSet(trap_outer) \subseteq ToSet(traps)
          BY <1>3, <1>4, OuterIs
        <5>3. \E i \in ToSet(trap_outer) : node[i].sig = s
          BY <3>3, <5>1, <5>2, <1>7, <1>10
        <5> QED BY <5>3, <3>1, <2>1 DEF TrapInv, PromptOK
      <4> QED BY <4>1, <3>2
    <3> QED BY <3>1, <3>2, <3>3, <2>1
  <2> QED BY <2>2, <2>3
<1> QED BY <1>13, <1>14, <1>16, <1>19, <1>20, <1>21, <1>22, <1>23 DEF TrapInv

-----------------------------------------------------------------------------
(* The theorems *)

LEMMA TrapInvStarts ==
  ASSUME TrapInit
  PROVE  TrapInv
<1>1. /\ node = <<>> /\ traps = <<>> /\ frames = <<>> /\ pending = {} /\ deferred = {} /\ signaled = FALSE /\ over = ""
      /\ sigstack = [s \in Sigs |-> <<>>] /\ disp = Entry /\ sig_ignored \subseteq Sigs
  BY DEF TrapInit
<1>2. DOMAIN frames = {} /\ DOMAIN traps = {} /\ ToSet(traps) = {} /\ Distinct(traps)
  <2>1. DOMAIN <<>> = {} /\ ToSet(<<>>) = {} /\ Distinct(<<>>)
    BY DEF ToSet, Distinct
  <2> QED BY <2>1, <1>1
<1>3. Subs = {} /\ Bodies = {}
  BY <1>2 DEF Subs, Bodies
<1>4. disp \in [Sigs -> Default]
  BY <1>1 DEF Entry, Default
<1>5. TypesOK
  <2>1. <<>> \in Seq(Nodes) /\ <<>> \in Seq(FrameSet) /\ <<>> \in Seq(Default)
    OBVIOUS
  <2> QED BY <2>1, <1>1, <1>4 DEF TypesOK
<1>6. ListsOK
  <2>1. ListIn(traps, node)
    <3>1. <<>> \in Seq(DOMAIN node)
      OBVIOUS
    <3> QED BY <3>1, <1>1, <1>2 DEF ListIn
  <2> QED BY <2>1, <1>3, <1>2 DEF ListsOK
<1>7. KernelOK
  BY <1>1, <1>4, <1>2 DEF KernelOK
<1>8. PromptOK
  <2>1. \A s \in ShellSigs \cap Sigs : sigstack[s] = <<>>
    BY <1>1
  <2>3. <<>> \in Seq({"ign"})
    OBVIOUS
  <2>2. sh_interactive => \A s \in ShellSigs \cap Sigs : disp[s] = "ign"
    BY <1>1 DEF Entry
  <2> QED BY <2>1, <2>2, <2>3 DEF PromptOK
<1> QED BY <1>1, <1>3, <1>5, <1>6, <1>7, <1>8 DEF TrapInv, BodiesOK, WaitingOK, PendingNoticed, NoStraySignal

LEMMA TrapInvStays ==
  ASSUME Careful, TrapInv, [TrapNext]_trapVars
  PROVE  TrapInv'
<1>1. CASE UNCHANGED trapVars
  <2>1. UNCHANGED <<node, traps, disp, sigstack, sig_ignored, pending, deferred, signaled, frames, over>>
    BY <1>1 DEF trapVars
  <2>2. TypesOK /\ BodiesOK /\ ListsOK /\ WaitingOK /\ KernelOK /\ PendingNoticed /\ NoStraySignal
    BY DEF TrapInv
  <2>3. BodiesOK' /\ ListsOK' /\ Subs' = Subs /\ trap_outer' = trap_outer /\ \A s : Running(s)' = Running(s)
    BY <2>1, <2>2, SameTraps
  <2>4. WaitingOK'
    BY <2>1, <2>2, <2>3 DEF WaitingOK
  <2>5. TypesOK' /\ KernelOK' /\ NoStraySignal'
    BY <2>1, <2>2 DEF TypesOK, KernelOK, NoStraySignal
  <2>6. PendingNoticed'
    BY <2>1, <2>2 DEF PendingNoticed
  <2>7. PromptOK'
    BY <2>1, <2>3, PromptKept DEF TrapInv
  <2> QED BY <2>3, <2>4, <2>5, <2>6, <2>7 DEF TrapInv
<1>2. ASSUME NEW s \in Sigs, trap_relay(s) PROVE TrapInv'
  BY <1>2, RelaySafe
<1>3. ASSUME NEW s \in Sigs, trap_signal_parent(s) PROVE TrapInv'
  BY <1>3, ParentSafe
<1>4. ASSUME NEW s \in Sigs, NEW code \in {"-", "", "code"}, builtin_trap(s, code) PROVE TrapInv'
  BY <1>4, BuiltinSafe
<1>5. CASE trap_run_pending
  BY <1>5, RunPendingSafe
<1>6. CASE LoopStep
  BY <1>6, LoopStepSafe
<1>7. CASE EndBody
  BY <1>7, EndBodySafe
<1>8. CASE trap_snapshot_save
  BY <1>8, SaveSafe
<1>9. CASE trap_snapshot_restore
  BY <1>9, RestoreSafe
<1> QED BY <1>1, <1>2, <1>3, <1>4, <1>5, <1>6, <1>7, <1>8, <1>9 DEF TrapNext

LEMMA TrapInvHolds ==
  ASSUME Careful
  PROVE  TrapSpec => []TrapInv
BY TrapInvStarts, TrapInvStays, PTL DEF TrapSpec

(* What trap_find answers, whatever the signal.                            *)
LEMMA Found ==
  ASSUME TrapInv, NEW s \in Sigs
  PROVE  /\ trap_find(s) = 0 => sigstack[s] = <<>> /\ disp[s] \in Default
         /\ trap_find(s) # 0 => Len(sigstack[s]) = 1 /\ disp[s] = IF node[trap_find(s)].body THEN "relay" ELSE "ign"
<1>1. node \in Seq(Nodes) /\ ListIn(traps, node) /\ KernelOK
  BY DEF TrapInv, TypesOK, ListsOK
<1> DEFINE t == trap_find(s)
<1>2. /\ t = 0 => \A x \in ToSet(traps) : node[x].sig # s
      /\ t # 0 => t \in ToSet(traps) /\ node[t].sig = s
  BY <1>1, FindIs DEF trap_find
<1> HIDE DEF t
<1>3. /\ t = 0 => sigstack[s] = <<>> /\ disp[s] \in Default
      /\ t # 0 => Len(sigstack[s]) = 1 /\ disp[s] = IF node[t].body THEN "relay" ELSE "ign"
  BY <1>1, <1>2 DEF KernelOK
<1> QED BY <1>3 DEF t

(* No sequence of traps set, replaced and reset, in bodies and in nested   *)
(* subshells, frees a trap that trap_uninstall, trap_handler or            *)
(* trap_snapshot_restore will still use: neither the body being run, nor   *)
(* one on the list, nor one on a list a subshell will put back.            *)
THEOREM TrapsNeverFreed ==
  ASSUME Careful
  PROVE  TrapSpec => []TrapsLive
<1>1. ASSUME TrapInv
      PROVE  TrapsLive
  <2>1. TypesOK /\ BodiesOK /\ ListsOK
    BY <1>1 DEF TrapInv
  <2>2. ListIn(traps, node) /\ node \in Seq(Nodes)
    BY <2>1 DEF ListsOK, TypesOK
  <2>3. TrapTypeOK
    <3>1. ToSet(traps) \subseteq DOMAIN node
      BY <2>2 DEF ListIn, ToSet
    <3>2. \A i \in DOMAIN node : node[i].sig \in Sigs
      <4>1. \A i \in DOMAIN node : node[i] \in Nodes
        BY <2>2
      <4> QED BY <4>1 DEF Nodes
    <3>3. \A i, j \in ToSet(traps) : node[i].sig = node[j].sig => i = j
      BY <2>2 DEF ListIn
    <3>4. disp \in [Sigs -> {"dfl", "ign", "relay"}]
      <4>1. Default \cup {"relay"} = {"dfl", "ign", "relay"}
        BY DEF Default
      <4> QED BY <4>1, <2>1 DEF TypesOK
    <3>5. pending \cup deferred \cup sig_ignored \subseteq Sigs /\ signaled \in BOOLEAN /\ over \in {"", "killed", "stray"}
      BY <2>1 DEF TypesOK
    <3> QED BY <3>1, <3>2, <3>3, <3>4, <3>5 DEF TrapTypeOK
  <2>4. BodyLives
    BY <2>1 DEF BodyLives, BodiesOK, Bodies
  <2>5. ListLives
    <3>1. \A i \in ToSet(traps) : ~node[i].freed
      BY <2>2 DEF ListIn
    <3>2. ASSUME NEW k \in DOMAIN frames, NEW i \in ToSet(frames[k].saved)
          PROVE  ~node[i].freed
      <4>1. CASE k \in Subs
        BY <4>1, <3>2, <2>1 DEF ListsOK, ListIn
      <4>2. CASE k \notin Subs
        <5>1. frames[k].saved = <<>>
          BY <4>2, <2>1 DEF ListsOK
        <5> QED BY <5>1, <3>2 DEF ToSet
      <4> QED BY <4>1, <4>2
    <3> QED BY <3>1, <3>2 DEF ListLives
  <2> QED BY <2>3, <2>4, <2>5 DEF TrapsLive
<1> QED BY <1>1, TrapInvHolds, PTL

(* No signal that arrived is lost: trap_run_pending, or a loop that is     *)
(* running, will come to it, however the bodies and subshells nest; what a *)
(* subshell defers is handed over by trap_snapshot_restore; trap_handler   *)
(* never meets a signal whose trap is gone; and sig_push and sig_pop stay  *)
(* in step with the list, so that the kernel does what the list says.      *)
THEOREM SignalsNeverLost ==
  ASSUME Careful
  PROVE  TrapSpec => []SignalsKept
<1>1. ASSUME TrapInv
      PROVE  SignalsKept
  <2>1. TypesOK /\ WaitingOK /\ PendingNoticed /\ NoStraySignal
    BY <1>1 DEF TrapInv
  <2>2. DeferredKept
    <3>1. frames \in Seq(FrameSet)
      BY <2>1 DEF TypesOK
    <3>2. deferred # {} => Subs # {}
      BY <2>1 DEF WaitingOK
    <3>3. trap_snap_depth \in Nat /\ (trap_snap_depth = 0 <=> Subs = {})
      BY <3>1, DepthIs
    <3> HIDE DEF trap_snap_depth
    <3> QED BY <3>2, <3>3 DEF DeferredKept
  <2>3. DispositionKept
    <3> SUFFICES ASSUME NEW s \in Sigs PROVE disp[s] \in Promised(s)
      BY DEF DispositionKept
    <3> DEFINE t == trap_find(s)
    <3>1. /\ t = 0 => disp[s] \in Default
          /\ t # 0 => disp[s] = IF node[t].body THEN "relay" ELSE "ign"
      BY <1>1, Found
    <3>2. Promised(s) = IF t = 0 THEN Default ELSE IF node[t].body THEN {"relay"} ELSE {"ign"}
      BY DEF Promised, Default
    <3> HIDE DEF t
    <3> QED BY <3>1, <3>2
  <2>4. StackMatches
    <3> SUFFICES ASSUME NEW s \in Sigs PROVE Len(sigstack[s]) = IF trap_find(s) = 0 THEN 0 ELSE 1
      BY DEF StackMatches
    <3>1. Len(<<>>) = 0
      OBVIOUS
    <3> QED BY <3>1, <1>1, Found
  <2>5. PromptSafe
    BY <1>1 DEF TrapInv, PromptOK, PromptSafe
  <2> QED BY <2>1, <2>2, <2>3, <2>4, <2>5 DEF SignalsKept
<1> QED BY <1>1, TrapInvHolds, PTL

=============================================================================
