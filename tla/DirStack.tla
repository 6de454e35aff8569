------------------------------ MODULE DirStack ------------------------------
(***************************************************************************)
(* The directory stack (builtin/extra/builtin_dirstack.c) and the current  *)
(* directory (builtin/builtin_cd.c, sh/sh_push.c, sh/sh_pop.c): one list   *)
(* of nodes for the whole process.  The first change inside a subshell's   *)
(* environment records a fence, and leaving that environment frees the     *)
(* nodes the fence owns and puts the saved list back.                      *)
(*                                                                         *)
(* Nodes and fences are cells that are used again once freed; fence 0 is   *)
(* root_fence.  An environment is named by its depth; a subshell has its   *)
(* own variables, a function that of the nearest subshell or shell.        *)
(***************************************************************************)
EXTENDS Naturals, SequencesExt, FiniteSets

CONSTANTS Dirs,
          Volatile,              \* the directories that may be removed
          MaxNodes, MaxFences,   \* cells that can be allocated
          MaxEnvs, MaxForks      \* bounds: nested environments with forks, forks

VARIABLES ds,                \* [head, top, node, fence]: the statics of the builtin
          envs,              \* the environments: [cwd, fin, fn, pwd, left], fin: its
                             \* finalizers, fn: of a function, left: a function has left
                             \* the directory it went to
          proc,              \* the process: [pid, cwd]
          there,             \* the directories that exist
          stray              \* whether sh_pop could not change back

dirVars == <<ds, envs, proc, there, stray>>
depthOf == Len(envs)
sh == Last(envs)
(* Whose variables an assignment sets: that of a function is not local.    *)
Holder == CHOOSE i \in DOMAIN envs : ~envs[i].fn /\ \A j \in DOMAIN envs : j > i => envs[j].fn

FreeNode == [path |-> "free", next |-> 0, owner |-> 0]
FreeFence == [up |-> 0, env |-> 0, pid |-> 0, saved |-> 0]
RootFence == [up |-> 0, env |-> 1, pid |-> 0, saved |-> 0]
Fence(S, f) == IF f = 0 THEN RootFence ELSE S.fence[f]
Unused(cells, free) == {c \in DOMAIN cells : cells[c] = free}
Lowest(s) == CHOOSE c \in s : \A d \in s : c <= d

RECURSIVE PathsOf(_, _)
PathsOf(S, n) == IF n = 0 THEN <<>> ELSE <<S.node[n].path>> \o PathsOf(S, S.node[n].next)

-----------------------------------------------------------------------------
(* The nodes at the front that fence f allocated are freed.                *)
RECURSIVE FreeOwned(_, _)
FreeOwned(S, f) ==
  IF S.head # 0 /\ S.node[S.head].owner = f
  THEN FreeOwned([S EXCEPT !.head = S.node[S.head].next, !.node[S.head] = FreeNode], f) ELSE S
fence_drop(S) == [FreeOwned(S, S.top) EXCEPT !.head = Fence(S, S.top).saved, !.top = Fence(S, S.top).up, !.fence[S.top] = FreeFence]

env_within(e) == e <= depthOf
RECURSIVE DropGone(_)
DropGone(S) == IF S.top # 0 /\ ~env_within(Fence(S, S.top).env) THEN DropGone(fence_drop(S)) ELSE S
(* A fence for the current environment, and the finalizer hung on it.      *)
fence_enter(S) ==
  LET own == IF S.top # 0 /\ Fence(S, S.top).pid # proc.pid THEN [S EXCEPT !.top = 0] ELSE S
      R == DropGone(own)
      f == Lowest(Unused(R.fence, FreeFence))
  IN  IF Fence(R, R.top).env = depthOf THEN [S |-> R, fin |-> FALSE]
      ELSE [S |-> [R EXCEPT !.fence[f] = [up |-> R.top, env |-> depthOf, pid |-> proc.pid, saved |-> R.head], !.top = f], fin |-> TRUE]

node_new(S, path, next) ==
  LET n == Lowest(Unused(S.node, FreeNode)) IN [S |-> [S EXCEPT !.node[n] = [path |-> path, next |-> next, owner |-> S.top]], n |-> n]
RECURSIVE NewChain(_, _)
NewChain(S, v) ==
  IF v = <<>> THEN [S |-> S, n |-> 0]
  ELSE LET rest == NewChain(S, Tail(v)) IN node_new(rest.S, v[1], rest.n)
(* Replaces the whole stack.  v is read before the old nodes are freed.    *)
stack_set(S, v) == LET c == NewChain(S, v) IN [FreeOwned(c.S, S.top) EXCEPT !.head = c.n]
stack_push(S, d) == LET c == node_new(S, d, S.head) IN [c.S EXCEPT !.head = c.n]
(* What a mutated stack_pop would do: it frees a node the enclosing        *)
(* environment still lists.                                                *)
pop_frees(S) == [S EXCEPT !.head = S.node[S.head].next, !.node[S.head] = FreeNode]
stack_pop(S) ==
  [S EXCEPT !.head = S.node[S.head].next, !.node[S.head] = IF @.owner = S.top THEN FreeNode ELSE @]

-----------------------------------------------------------------------------
(* builtin_cd: what a successful change leaves; a directory that is gone   *)
(* leaves everything as it was.  PWD is the variable of the holder.        *)
cd_to(d, es) == [[es EXCEPT ![Holder].pwd = d, ![Holder].left = FALSE] EXCEPT ![depthOf].cwd = d]
Arrive(d) == proc' = [proc EXCEPT !.cwd = d] /\ stray' = FALSE
Stay == UNCHANGED <<proc, stray>>
(* The stack changes by Op, which takes n new nodes, and the environments  *)
(* are es but for the finalizer.                                           *)
Change(n, Op(_), es) ==
  LET f == fence_enter(ds)
  IN  /\ Cardinality(Unused(ds.node, FreeNode)) >= n
      /\ Unused(ds.fence, FreeFence) # {}
      /\ ds' = Op(f.S)
      /\ envs' = [es EXCEPT ![depthOf].fin = IF f.fin THEN @ + 1 ELSE @]
      /\ UNCHANGED there

Entries == <<sh.cwd>> \o PathsOf(ds, ds.head)
(* cd d; cd -, which goes to OLDPWD, is a cd to any directory.             *)
builtin_cd(d) ==
  /\ d \in there
  /\ envs' = cd_to(d, envs) /\ Arrive(d)
  /\ UNCHANGED <<ds, there>>
builtin_pushd(d) == d \in there /\ Change(1, LAMBDA S : stack_push(S, sh.cwd), cd_to(d, envs)) /\ Arrive(d)
PushdOnly(d) == Change(1, LAMBDA S : stack_push(S, d), envs) /\ Stay
exchange ==
  /\ ds.head # 0
  /\ LET d == Entries[2]
     IN  d \in there /\ Change(Len(Entries) - 1, LAMBDA S : stack_set(S, <<sh.cwd>> \o SubSeq(Entries, 3, Len(Entries))), cd_to(d, envs)) /\ Arrive(d)
rotate(i) ==
  LET d == Entries[i + 1]
  IN  /\ d \in there
      /\ Change(Len(Entries) - 1, LAMBDA S : stack_set(S, SubSeq(Entries, i + 2, Len(Entries)) \o SubSeq(Entries, 1, i)), cd_to(d, envs))
      /\ Arrive(d)
builtin_popd == ds.head # 0 /\ Entries[2] \in there /\ Change(0, stack_pop, cd_to(Entries[2], envs)) /\ Arrive(Entries[2])
PopdOnly == ds.head # 0 /\ Change(0, stack_pop, envs) /\ Stay
remove_at(i) == Change(Len(Entries) - 2, LAMBDA S : stack_set(S, RemoveAt(Tail(Entries), i)), envs) /\ Stay
builtin_dirs == Change(0, LAMBDA S : stack_set(S, <<>>), envs) /\ Stay

-----------------------------------------------------------------------------
(* Environments, processes and the file system.                            *)
(* A subshell or a call of a function.                                     *)
sh_push(fn) ==
  /\ depthOf + proc.pid < MaxEnvs
  /\ fn => depthOf = 1 /\ proc.pid = 0     \* a bound too: functions are called by the outermost shell
  /\ envs' = Append(envs, IF fn THEN [cwd |-> sh.cwd, fin |-> 0, fn |-> TRUE] ELSE [envs[Holder] EXCEPT !.cwd = sh.cwd, !.fin = 0])
  /\ UNCHANGED <<ds, proc, there, stray>>
RECURSIVE Finalized(_, _)
Finalized(S, n) == IF n = 0 THEN S ELSE Finalized(fence_drop(S), n - 1)
(* What a mutated ChdirBack would do: it stays where the subshell was.     *)
ChdirNever(cwd) == [to |-> proc.cwd, ok |-> TRUE]
ChdirBack(cwd) ==
  IF sh.cwd = cwd THEN [to |-> proc.cwd, ok |-> ~stray] ELSE IF cwd \in there THEN [to |-> cwd, ok |-> TRUE] ELSE [to |-> proc.cwd, ok |-> FALSE]
sh_pop ==
  LET outer == Front(envs)
      back == ChdirBack(Last(outer).cwd)
  IN  /\ depthOf > 1
      /\ ds' = Finalized(ds, sh.fin)
      /\ envs' = IF sh.fn /\ sh.cwd # Last(outer).cwd THEN [outer EXCEPT ![Holder].left = TRUE] ELSE outer
      /\ proc' = [proc EXCEPT !.cwd = back.to] /\ stray' = ~back.ok
      /\ UNCHANGED there
(* The child of a fork goes on from here, in an environment that is now    *)
(* the root's.                                                             *)
sh_forked ==
  /\ proc.pid < MaxForks
  /\ proc' = [proc EXCEPT !.pid = @ + 1]
  /\ envs' = <<[envs[Holder] EXCEPT !.cwd = sh.cwd, !.fin = 0]>>
  /\ UNCHANGED <<ds, there, stray>>
DirectoryGoes(d) ==
  /\ d \in Volatile \cap there
  /\ there' = there \ {d}
  /\ UNCHANGED <<ds, envs, proc, stray>>

DirInit ==
  /\ ds = [head |-> 0, top |-> 0, node |-> [n \in 1..MaxNodes |-> FreeNode], fence |-> [f \in 1..MaxFences |-> FreeFence]]
  /\ there = Dirs /\ stray = FALSE
  /\ \E d \in Dirs \ Volatile : /\ envs = <<[cwd |-> d, fin |-> 0, fn |-> FALSE, pwd |-> d, left |-> FALSE]>>
                                /\ proc = [pid |-> 0, cwd |-> d]
DirNext ==
  \/ \E d \in Dirs : builtin_cd(d) \/ builtin_pushd(d) \/ PushdOnly(d) \/ DirectoryGoes(d)
  \/ exchange \/ builtin_popd \/ PopdOnly \/ builtin_dirs
  \/ \E i \in 1..(Len(Entries) - 1) : rotate(i) \/ remove_at(i)
  \/ (\E fn \in BOOLEAN : sh_push(fn)) \/ sh_pop \/ sh_forked
DirSpec == DirInit /\ [][DirNext]_dirVars

-----------------------------------------------------------------------------
(* The list environment e had when the environments in it were entered.    *)
RECURSIVE OutermostIn(_, _)
OutermostIn(e, f) ==
  IF f = 0 \/ Fence(ds, f).env <= e THEN 0
  ELSE LET o == OutermostIn(e, Fence(ds, f).up) IN IF o # 0 THEN o ELSE f
(* The fences of a parent process are not its child's.                     *)
OwnTop == IF ds.top # 0 /\ Fence(ds, ds.top).pid # proc.pid THEN 0 ELSE ds.top
HeadOf(e) == LET f == OutermostIn(e, OwnTop) IN IF f = 0 THEN ds.head ELSE Fence(ds, f).saved
Lists == SubSeq([e \in 1..depthOf |-> <<envs[e].cwd>> \o PathsOf(ds, HeadOf(e))], 1, depthOf)
Promise == INSTANCE DirList WITH lists <- Lists

(* Whatever subshells and forked children do with cd, pushd, popd and      *)
(* dirs, each environment has the list it built itself: a subshell's       *)
(* changes end with it, the nodes of the enclosing list are never freed    *)
(* under it, and a failed change leaves everything (fence_enter,           *)
(* fence_drop, stack_set in builtin_dirstack.c).                           *)
DirsPromised == Promise!ListSpec
(* The process is in the directory sh->cwd names, unless that directory    *)
(* was gone when a subshell was left (the chdir in sh_pop); and so does    *)
(* $PWD, unless a function went elsewhere: sh_pop then brings sh->cwd back *)
(* and leaves PWD.                                                         *)
CwdHeld == (~stray => proc.cwd = sh.cwd) /\ (~envs[Holder].left => envs[Holder].pwd = sh.cwd)
=============================================================================
