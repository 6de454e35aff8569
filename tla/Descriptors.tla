---------------------------- MODULE Descriptors ----------------------------
(***************************************************************************)
(* Redirections at work: the evaluator's use of the descriptor layer.      *)
(* Each action is one command of a script, or the opening or leaving of a  *)
(* scope: { ...; } list, ( ... ) and $( ... ), none of which forks.  A     *)
(* simple command redirects lazily, runs a builtin in the process or a     *)
(* program in a child, and undoes its redirections; exec keeps them.       *)
(***************************************************************************)
EXTENDS FdTable

CONSTANTS
  Nums,        \* descriptor numbers scripts use
  Sinks,       \* collectors of $( ), one per nesting depth
  Groups,      \* redirection lists of compound commands
  Simples,     \* of simple commands
  Execs,       \* of exec
  MaxDepth,    \* how deep scopes nest
  MaxExec,     \* how many exec commands a script runs
  Beneath,     \* may exec run inside a redirected { }?
  RedirectAll(_, _, _, _), OpenAll(_), PipeAll(_), ExecAll(_)
               \* the layer as scripts use it: RedirAll and OpenStd below,
               \* fdstack_pipe and fdtable_exec of FdTable

VARIABLES
  io,          \* the descriptor layer, see FdTable
  env,         \* sh->fdstack of the nested shell environments
  frames,      \* kinds of the open scopes
  execs,       \* number of exec commands run
  saved        \* history: what each open scope must give back

fdVars == <<io, env, frames, execs, saved>>

-----------------------------------------------------------------------------
(* What number n means to a command that runs in this process.             *)
BufFile(s, b) == IF b.sa # "none" THEN b.sa ELSE IF b.fd >= 0 THEN s.k[b.fd].f ELSE "none"
Meaning(s, n) ==
  LET d == Top(s, n)
      x == s.fd[d]
      pend(y) == "OPEN" \in s.fd[y].mode
  IN  CASE d = 0 -> "none"
        [] d # 0 /\ "NULL" \in x.mode -> "none"
        [] d # 0 /\ "NULL" \notin x.mode /\ pend(d) -> x.name
        [] d # 0 /\ "NULL" \notin x.mode /\ ~pend(d) /\ x.dup # 0 /\ pend(x.dup) -> s.fd[x.dup].name
        [] OTHER -> IF "W" \in x.mode THEN BufFile(s, s.fd[x.w].wb) ELSE BufFile(s, s.fd[x.r].rb)
Meanings(s) == [n \in Nums |-> Meaning(s, n)]

-----------------------------------------------------------------------------
(* redir_preopen: exec opens the file before the struct it replaces goes,  *)
(* and not on the number that is being replaced.                           *)
Opened(r) == [f |-> r.file, end |-> IF r.dir = "W" THEN "w" ELSE "r"]
redir_preopen(s, r) ==
  LET e == Lowest(s)
      a == Put(s, e, Opened(r))
      m == Lowest(a)
  IN  IF e # r.n THEN [io |-> a, r |-> e]
      ELSE [io |-> KClose(Put(a, m, Opened(r)), {e}), r |-> m]

(* redir_open and redir_dup, on the new struct d.  lev = 0: not persistent *)
redir_open(s, d, r, lev, now, pre) ==
  LET a == fd_open(s, d, r.file)
  IN  IF lev # 0 THEN [io |-> fdtable_openfd(a, d, pre), r |-> DONE]
      ELSE IF now THEN fdtable_open(a, d, {"MOVE"}, {}) ELSE [io |-> a, r |-> DONE]
redir_dup(s, d, r, lev) ==
  LET x == fd_dup(s, d, r.src)
  IN  IF r.act = "close" THEN [io |-> fd_null(s, d), r |-> DONE]
      ELSE IF r.src = r.n THEN [io |-> s, r |-> ERROR]
      ELSE IF x.r # ERROR /\ lev # 0 /\ x.io.fd[d].e >= 0
           THEN fdtable_dup(x.io, d, {"FORCE", "CLOSE"}, {})
      ELSE x

(* redir_eval: one redirection, on a fresh struct of the current level or, *)
(* for exec, on a struct of the environment's level lev.                   *)
redir_eval(s, r, lev, now) ==
  LET keep == lev # 0
      pre == IF keep /\ r.act = "open" THEN redir_preopen(s, r) ELSE [io |-> s, r |-> -1]
      self == r.act = "dup" /\ r.src = r.n
      root == IF self /\ Top(s, r.n) # 0 THEN DupRoot(s, Top(s, r.n)) ELSE 0
      a == IF keep THEN fdtable_newfd(pre.io, r.n, lev, {r.dir}) ELSE fd_push(pre.io, r.n, {r.dir})
      d == Top(a, r.n)
      x == CASE r.act = "open" -> redir_open(a, d, r, lev, now, pre.r)
             [] r.act = "here" -> [io |-> fd_here(a, d, r.file), r |-> DONE]
             [] OTHER -> redir_dup(a, d, r, lev)
  IN  IF keep /\ r.act = "open" /\ r.file = Missing THEN [io |-> s, ok |-> FALSE]
      ELSE IF self /\ root # d THEN [io |-> IF root = 0 THEN a ELSE Alias(a, d, root), ok |-> TRUE]
      ELSE [io |-> x.io, ok |-> x.r # ERROR]

RedirAll(s, list, lev, now) ==
  FoldLeft(LAMBDA x, r : IF x.ok THEN redir_eval(x.io, r, lev, now) ELSE x, [io |-> s, ok |-> TRUE], list)

-----------------------------------------------------------------------------
(* What the list asks for, independently of how it is carried out.         *)
Want(m, r) == [m EXCEPT ![r.n] = CASE r.act = "dup" -> m[r.src] [] r.act = "close" -> "none" [] OTHER -> r.file]
Wants(m, list) == FoldLeft(Want, m, list)
Opens(list) == \A i \in DOMAIN list : list[i].file # Missing

Std == <<"tty0", "tty1", "tty2">>
FdInit ==
      /\ io = [k |-> [e \in Fds |-> IF e <= 2 THEN [f |-> Std[e + 1], end |-> IF e = 0 THEN "r" ELSE "w"] ELSE None],
               cx |-> {},
               fd |-> [d \in Ids |-> IF d <= 3
                         THEN [Struct(d, d - 1, IF d = 1 THEN {"R"} ELSE {"W"}) EXCEPT
                                 !.e = d - 1, !.rb.fd = IF d = 1 THEN 0 ELSE -1, !.wb.fd = IF d = 1 THEN -1 ELSE d - 1]
                         ELSE Unused],
               vt |-> [n \in Fds |-> IF n <= 2 THEN <<n + 1>> ELSE <<>>],
               lv |-> << <<1, 2, 3>> >>,
               ls |-> [e \in Fds |-> IF e <= 2 THEN e + 1 ELSE 0],
               ex |-> 3, sc |-> <<>>]
      /\ env = <<1>> /\ frames = <<>> /\ execs = 0 /\ saved = <<>>

(* eval_command: a compound command's redirections are performed at once;  *)
(* if one fails they are undone and the command does not run.              *)
eval_command(list) ==
  LET x == RedirectAll(fdstack_push(io), list, 0, TRUE)
  IN  /\ Len(frames) < MaxDepth
      /\ io' = IF x.ok THEN x.io ELSE fdstack_pop(x.io)
      /\ IF x.ok
         THEN /\ frames' = Append(frames, "group")
              /\ saved' = Append(saved, [n \in {list[i].n : i \in DOMAIN list} |-> Meaning(io, n)])
         ELSE UNCHANGED <<frames, saved>>
      /\ UNCHANGED <<env, execs>>

(* eval_subshell up to its body.                                           *)
eval_subshell ==
  /\ Len(frames) < MaxDepth
  /\ io' = fd_state_save(fdstack_push(io))
  /\ env' = Append(env, Len(io'.lv))
  /\ frames' = Append(frames, "sub")
  /\ saved' = Append(saved, Meanings(io))
  /\ UNCHANGED execs

(* expand_command up to its body: number 1 collects.                       *)
expand_command ==
  LET depth == Cardinality({i \in DOMAIN frames : frames[i] = "subst"})
      a == fd_push(fd_state_save(fdstack_push(io)), 1, {"W"})
  IN  /\ Len(frames) < MaxDepth /\ depth < Len(Sinks)
      /\ io' = fdstack_push(fd_subst(a, Top(a, 1), Sinks[depth + 1]))
      /\ env' = Append(env, Len(io'.lv))
      /\ frames' = Append(frames, "subst")
      /\ saved' = Append(saved, Meanings(io))
      /\ UNCHANGED execs

(* The end of each of the three.                                           *)
Leave ==
  /\ frames # <<>>
  /\ io' = CASE Last(frames) = "group" -> fdstack_pop(io)
             [] Last(frames) = "sub"   -> fd_state_restore(fdstack_pop(io))
             [] OTHER                  -> fd_state_restore(fdstack_pop(fdstack_pop(io)))
  /\ env' = IF Last(frames) = "group" THEN env ELSE Front(env)
  /\ frames' = Front(frames)
  /\ saved' = Front(saved)
  /\ UNCHANGED execs

(* exec list: no level of its own; the structs are the environment's.  An  *)
(* interactive shell goes on after a failure, with what came before it.    *)
exec_redirect(list) ==
  /\ execs < MaxExec
  /\ Beneath \/ "group" \notin Range(frames)
  /\ io' = RedirectAll(io, list, Last(env), TRUE).io
  /\ execs' = execs + 1
  /\ UNCHANGED <<env, frames, saved>>

(* exec_command for a builtin: numbers 0 to 2, and what they duplicate,    *)
(* are opened; if that fails the builtin does not run.                     *)
OpenStd(s) ==
  LET open(x, d) == IF d = 0 THEN x
                    ELSE LET y == fdtable_open(x.io, d, {"MOVE"}, {})
                         IN  [io |-> y.io, ok |-> x.ok /\ y.r # ERROR]
      both(x, n) == LET d == Top(x.io, n)
                    IN  IF d = 0 THEN x
                        ELSE open(open(x, IF "DUP" \in x.io.fd[d].mode THEN x.io.fd[d].dup ELSE 0), d)
  IN  FoldLeft(both, [io |-> s, ok |-> TRUE], <<0, 1, 2>>)

Scoped(s, list) == IF list = <<>> THEN s ELSE fdstack_push(s)
Unscoped(s, list) == IF list = <<>> THEN s ELSE fdstack_pop(s)

InBuiltin(s, list) ==
  LET a == RedirectAll(Scoped(s, list), list, 0, FALSE) IN IF a.ok THEN OpenAll(a.io) ELSE a

Builtin(list) == /\ io' = Unscoped(InBuiltin(io, list).io, list)
                 /\ UNCHANGED <<env, frames, execs, saved>>

(* exec_program: pipes for what is collected in memory, fork; the child    *)
(* maps every number onto itself, drops the rest and runs the program; the *)
(* parent closes the write ends and reads until nobody writes.             *)
Piped(s, list) ==
  LET b == fdstack_push(RedirectAll(Scoped(s, list), list, 0, FALSE).io)
  IN  IF fdstack_npipes(b) > 0 THEN PipeAll(b) ELSE b
InProgram(s, list) == fdstack_flatten(ExecAll(DropReadEnd(Piped(s, list))).io)
Draining(s, list) == fdstack_pop(Piped(s, list))

Program(list) ==
  LET a == RedirectAll(Scoped(io, list), list, 0, FALSE)
      parent == Draining(io, list)
      done == IF fdstack_npipes(fdstack_push(a.io)) > 0 THEN DropReadEnd(parent) ELSE parent
  IN  /\ io' = Unscoped(IF a.ok THEN done ELSE a.io, list)
      /\ UNCHANGED <<env, frames, execs, saved>>

FdNext == \/ \E list \in Groups : eval_command(list)
          \/ eval_subshell \/ expand_command \/ Leave
          \/ \E list \in Execs : exec_redirect(list)
          \/ \E list \in Simples : Builtin(list) \/ Program(list)

FdSpec == FdInit /\ [][FdNext]_fdVars

-----------------------------------------------------------------------------
(* fd_list, the levels and the chains agree: a struct is on one level, its *)
(* chain is that of its number, and the owner fd_list names sits there.    *)
FdTypeOK ==
  /\ DOMAIN io.k = Fds /\ \A e \in Fds : io.ls[e] \in 0..MaxStruct
  /\ \A n \in Fds : \A i \in DOMAIN io.vt[n] : io.fd[io.vt[n][i]].n = n
  /\ Len(env) = 1 + Len(SelectSeq(frames, LAMBDA f : f # "group"))
  /\ Len(io.sc) = Len(env) - 1

(* A program run now, with any redirections of its own, finds on every     *)
(* number exactly what they and those around it say, though the shell kept *)
(* the files on other kernel descriptors until fdtable_exec(); and finds   *)
(* nothing else open.                                                      *)
Runs(list) == Opens(list) /\ RedirectAll(Scoped(io, list), list, 0, FALSE).ok
Visible(s, e) == IF e \in s.cx THEN "none" ELSE s.k[e].f
ProgramSees ==
  \A list \in Simples : Runs(list) =>
    LET child == InProgram(io, list)
        want == Wants(Meanings(io), list)
    IN  \A e \in Fds : Visible(child, e) = IF e \in Nums THEN want[e] ELSE "none"

(* A builtin, which runs before anything is forced onto its number, reads  *)
(* and writes the same files a program would.                              *)
BuiltinSees ==
  \A list \in Simples : LET x == InBuiltin(io, list)
                       IN  x.ok /\ Opens(list) => Meanings(x.io) = Wants(Meanings(io), list)

(* fdstack_data() reads until end of file: the shell itself must not hold  *)
(* the write end of a pipe it drains, or it waits for itself.              *)
Ends(s, end) == {s.k[e].f : e \in {e \in Fds : s.k[e].end = end}} \cap Range(Sinks)
NotHeld == \A list \in Simples : LET s == Draining(io, list) IN Ends(s, "r") \cap Ends(s, "w") = {}

(* The struct fd_list[] names as the owner of an open kernel descriptor    *)
(* really sits on it: otherwise fdtable_gap() and fd_close() act for the   *)
(* wrong owner.                                                            *)
Owners == \A e \in Fds : io.ls[e] # 0 => io.k[e] # None /\ io.fd[io.ls[e]].e = e

(* Every descriptor the shell has open is known: nothing is left behind by *)
(* the commands that were undone.                                          *)
NoStray == \A e \in Fds : io.k[e] # None => io.ls[e] # 0

(* What scopes promise (DescriptorScopes), with the files behind numbers   *)
(* as current meanings and the history of meanings as what is given back.  *)
Promise == INSTANCE DescriptorScopes WITH
             cur <- Meanings(io), Files <- Range(Std), Closed <- "none",
             Sinks <- Range(Sinks), Lists <- UNION {Prefixes(list) : list \in Groups \cup Execs}
ScopesKept == Promise!ScopeSpec
=============================================================================
