------------------------------ MODULE Commands ------------------------------
(***************************************************************************)
(* Which command a name stands for (src/exec, eval_function, unset -f,     *)
(* hash): builtins, the list of functions, programs along PATH, and the    *)
(* cache of all three in front of them.  A subshell of this shell shares   *)
(* the list and the cache with the shell around it.                        *)
(*                                                                         *)
(* A function is an element of fnode, [name, freed]; functions is the      *)
(* list, newest first.  calls is the call stack: "call" of function `at`,  *)
(* "sub" with the list it saved.  A found command is [id, at]: a builtin,  *)
(* the function `at`, the program in directory `at`; at = 0 is no command. *)
(***************************************************************************)
EXTENDS Naturals, Sequences, SequencesExt, FiniteSets

CONSTANTS CmdNames,
          PathDirs,                        \* 1..n
          Paths,                           \* the values PATH may have: sequences of PathDirs
          MaxFns, MaxCalls,
          CarefulCmds        \* no subshell takes a function away, no program comes
                             \* back after its absence was noticed, and hash -p is
                             \* not given the name of a function or a builtin

(* A directory is a number, so that 0 is none.                             *)
ASSUME CmdConstants == PathDirs \subseteq Nat \ {0} /\ Paths \subseteq Seq(PathDirs)

VARIABLES fnode, functions, functions_retired, calls, exec_hashtbl,
          hashall, path, exec_hash_path_seen, files,
          builtins            \* "builtin", "sbuiltin" (special), "exec" (before any mask), or "no" builtin

cmdVars == <<fnode, functions, functions_retired, calls, exec_hashtbl, hashall, path, exec_hash_path_seen, files, builtins>>
fileVars == <<path, files, builtins>>

None == [id |-> "program", at |-> 0]
(* What lookups are asked to leave out.                                    *)
Masks == {{}, {"function"}, {"builtin", "sbuiltin"}, {"function", "builtin", "sbuiltin"}}
Stale == {"stale"}
NoEntry == [cmd |-> None, mask |-> {"none"}]

-----------------------------------------------------------------------------
find_function(n) == LET at == SelectInSeq(functions, LAMBDA i : fnode[i].name = n) IN IF at = 0 THEN 0 ELSE functions[at]
(* The first directory of PATH that has the program.                       *)
exec_path(n) == LET at == SelectInSeq(path, LAMBDA d : <<d, n>> \in files) IN IF at = 0 THEN None ELSE [id |-> "program", at |-> path[at]]
exec_search(n, mask) ==
  LET exec == builtins[n] = "exec"
      special == builtins[n] = "sbuiltin" /\ "sbuiltin" \notin mask
      function == find_function(n) # 0 /\ "function" \notin mask
      builtin == builtins[n] = "builtin" /\ "builtin" \notin mask
  IN  CASE exec -> [id |-> "exec", at |-> 1]
        [] special -> [id |-> "sbuiltin", at |-> 1]
        [] ~exec /\ ~special /\ function -> [id |-> "function", at |-> find_function(n)]
        [] ~exec /\ ~special /\ ~function /\ builtin -> [id |-> "builtin", at |-> 1]
        [] OTHER -> exec_path(n)

exec_hash_invalidate_all(t) == [n \in CmdNames |-> IF t[n] = NoEntry THEN NoEntry ELSE [t[n] EXCEPT !.mask = Stale]]
Seen == IF exec_hash_path_seen = path THEN exec_hashtbl ELSE exec_hash_invalidate_all(exec_hashtbl)
(* [cmd, t]: the command, and the cache after the lookup.  What is found   *)
(* is remembered; so is, in an entry there is already, that nothing is.    *)
Gone(e, n) == e.cmd.id = "program" /\ e.cmd.at # 0 /\ <<e.cmd.at, n>> \notin files
exec_hash(n, mask) ==
  LET e == Seen[n]
      hit == e.mask = mask /\ ~Gone(e, n)
      cmd == IF hit THEN e.cmd ELSE exec_search(n, mask)
  IN  IF ~hashall THEN [cmd |-> exec_search(n, mask), t |-> Seen]
      ELSE [cmd |-> cmd, t |-> IF e = NoEntry /\ cmd.at = 0 THEN Seen ELSE [Seen EXCEPT ![n] = [cmd |-> cmd, mask |-> mask]]]
Looks(n, mask) == exec_hashtbl' = exec_hash(n, mask).t /\ exec_hash_path_seen' = path

-----------------------------------------------------------------------------
Framed(kind) == {k \in DOMAIN calls : calls[k].kind = kind}
exec_subshell_depth == Cardinality(Framed("sub"))
functions_running == Cardinality(Framed("call"))
Forgets(n) == exec_hashtbl' = [exec_hashtbl EXCEPT ![n] = IF @ = NoEntry THEN @ ELSE [@ EXCEPT !.mask = Stale]]
(* A body that may be running waits on the list of the retired.            *)
exec_function_retire(fs, i) ==
  IF functions_running > 0 THEN fnode' = fs /\ functions_retired' = functions_retired \cup {i}
  ELSE fnode' = [fs EXCEPT ![i].freed = TRUE] /\ UNCHANGED functions_retired
Without(i) == RemoveFirst(functions, i)

(* set -h: the commands of the body are looked up as it is defined.        *)
hash_commands_in_node(n, body) ==
  LET hashing == hashall /\ body # {}
      t == IF hashing THEN [m \in CmdNames |-> IF m \in body THEN exec_hash(m, {}).t[m] ELSE Seen[m]] ELSE exec_hashtbl
  IN  /\ exec_hashtbl' = [t EXCEPT ![n] = IF @ = NoEntry THEN @ ELSE [@ EXCEPT !.mask = Stale]]
      /\ exec_hash_path_seen' = IF hashing THEN path ELSE exec_hash_path_seen
(* f() { ... }: the old one is retired, in a subshell leaked.              *)
(* What a mutated eval_function would do: it frees the old one in a        *)
(* subshell too.                                                           *)
DefineRetires(n, body) ==
  LET i == find_function(n)
      new == Append(fnode, [name |-> n, freed |-> FALSE])
  IN  /\ Len(fnode) < MaxFns
      /\ functions' = <<Len(new)>> \o Without(i)
      /\ IF i # 0 THEN exec_function_retire(new, i) ELSE fnode' = new /\ UNCHANGED functions_retired
      /\ hash_commands_in_node(n, body)
      /\ UNCHANGED <<calls, hashall, fileVars>>
eval_function(n, body) ==
  LET i == find_function(n)
      new == Append(fnode, [name |-> n, freed |-> FALSE])
  IN  /\ Len(fnode) < MaxFns
      /\ functions' = <<Len(new)>> \o Without(i)
      /\ IF i # 0 /\ exec_subshell_depth = 0 THEN exec_function_retire(new, i) ELSE fnode' = new /\ UNCHANGED functions_retired
      /\ hash_commands_in_node(n, body)
      /\ UNCHANGED <<calls, hashall, fileVars>>
(* unset -f, which does not ask whether this is a subshell.                *)
builtin_unset(n) ==
  /\ find_function(n) # 0 /\ (CarefulCmds => exec_subshell_depth = 0)
  /\ functions' = Without(find_function(n))
  /\ exec_function_retire(fnode, find_function(n))
  /\ Forgets(n)
  /\ UNCHANGED <<calls, hashall, exec_hash_path_seen, fileVars>>

(* The name as a command; type n and hash n look it up and run nothing,    *)
(* command n leaves functions out.                                         *)
Run(n) ==
  LET cmd == exec_hash(n, {}).cmd
  IN  /\ Looks(n, {})
      /\ \/ cmd.id = "function" /\ Len(calls) < MaxCalls /\ calls' = Append(calls, [kind |-> "call", at |-> cmd.at, saved |-> <<>>])
         \/ UNCHANGED calls
      /\ UNCHANGED <<fnode, functions, functions_retired, hashall, fileVars>>
builtin_command(n, mask) == Looks(n, mask) /\ UNCHANGED <<fnode, functions, functions_retired, calls, hashall, fileVars>>
exec_function_leave ==
  /\ calls # <<>> /\ Last(calls).kind = "call"
  /\ calls' = Front(calls)
  /\ IF functions_running > 1 THEN UNCHANGED <<fnode, functions_retired>>
     ELSE /\ fnode' = [i \in DOMAIN fnode |-> IF i \in functions_retired THEN [fnode[i] EXCEPT !.freed = TRUE] ELSE fnode[i]]
          /\ functions_retired' = {}
  /\ UNCHANGED <<functions, exec_hashtbl, hashall, exec_hash_path_seen, fileVars>>

exec_functions_save ==
  /\ Len(calls) < MaxCalls
  /\ calls' = Append(calls, [kind |-> "sub", at |-> 0, saved |-> functions])
  /\ UNCHANGED <<fnode, functions, functions_retired, exec_hashtbl, hashall, exec_hash_path_seen, fileVars>>
(* The functions of the cache are forgotten with the list.                 *)
(* What a mutated FunctionsForgotten would do: the cache keeps the         *)
(* functions of the subshell.                                              *)
RestoreKeepsCache(t) == t
FunctionsForgotten(t) == [n \in CmdNames |-> IF t[n].cmd.id = "function" THEN [t[n] EXCEPT !.mask = Stale] ELSE t[n]]
exec_functions_restore ==
  /\ calls # <<>> /\ Last(calls).kind = "sub"
  /\ functions' = Last(calls).saved /\ calls' = Front(calls)
  /\ exec_hashtbl' = FunctionsForgotten(exec_hashtbl)
  /\ UNCHANGED <<fnode, functions_retired, hashall, exec_hash_path_seen, fileVars>>

-----------------------------------------------------------------------------
(* hash -r, hash -d name, hash -p dir/name name.                           *)
hash_forget_all == /\ exec_hashtbl' = [n \in CmdNames |-> NoEntry]
                   /\ UNCHANGED <<fnode, functions, functions_retired, calls, hashall, exec_hash_path_seen, fileVars>>
hash_forget(n) == /\ exec_hashtbl' = [exec_hashtbl EXCEPT ![n] = NoEntry]
                  /\ UNCHANGED <<fnode, functions, functions_retired, calls, hashall, exec_hash_path_seen, fileVars>>
hash_set(n, d) == /\ CarefulCmds => find_function(n) = 0 /\ builtins[n] = "no"
                  /\ exec_hashtbl' = [exec_hashtbl EXCEPT ![n] = [cmd |-> [id |-> "program", at |-> d], mask |-> {}]]
                  /\ UNCHANGED <<fnode, functions, functions_retired, calls, hashall, exec_hash_path_seen, fileVars>>
set_h == hashall' = ~hashall /\ UNCHANGED <<fnode, functions, functions_retired, calls, exec_hashtbl, exec_hash_path_seen, fileVars>>
(* PATH=..., even to what it is: var_create forgets at once.               *)
SetPath(p) == /\ path' = p /\ exec_hashtbl' = exec_hash_invalidate_all(exec_hashtbl)
              /\ UNCHANGED <<fnode, functions, functions_retired, calls, hashall, exec_hash_path_seen, files, builtins>>
(* Programs come and go.                                                   *)
NotMissed(n) == exec_hashtbl[n].mask \in Masks => exec_hashtbl[n].cmd.at # 0
Install(d, n) == /\ CarefulCmds => NotMissed(n)
                 /\ files' = files \cup {<<d, n>>}
                 /\ UNCHANGED <<fnode, functions, functions_retired, calls, exec_hashtbl, hashall, path, exec_hash_path_seen, builtins>>
Deinstall(d, n) == /\ files' = files \ {<<d, n>>}
                /\ UNCHANGED <<fnode, functions, functions_retired, calls, exec_hashtbl, hashall, path, exec_hash_path_seen, builtins>>

CmdInit == /\ fnode = <<>> /\ functions = <<>> /\ functions_retired = {} /\ calls = <<>>
           /\ exec_hashtbl = [n \in CmdNames |-> NoEntry] /\ hashall = TRUE
           /\ path \in Paths /\ exec_hash_path_seen = <<>> /\ files = {}
           /\ builtins \in [CmdNames -> {"no", "builtin", "sbuiltin", "exec"}]
CmdNext == \/ \E n \in CmdNames : (\E body \in SUBSET CmdNames : eval_function(n, body)) \/ builtin_unset(n) \/ Run(n) \/ hash_forget(n)
           \/ \E n \in CmdNames, mask \in Masks \ {{}} : builtin_command(n, mask)
           \/ \E n \in CmdNames, d \in PathDirs : hash_set(n, d) \/ Install(d, n) \/ Deinstall(d, n)
           \/ hash_forget_all \/ set_h \/ \E p \in Paths : SetPath(p)
           \/ exec_function_leave \/ exec_functions_save \/ exec_functions_restore
CmdSpec == CmdInit /\ [][CmdNext]_cmdVars

-----------------------------------------------------------------------------
(* A function that runs, that the list holds or a subshell will put back   *)
(* on it, or that the cache would call, has not been freed.                *)
FunctionsLive ==
  /\ \A i \in ToSet(functions) : ~fnode[i].freed
  /\ \A k \in DOMAIN calls : /\ calls[k].kind = "call" => ~fnode[calls[k].at].freed
                              /\ \A i \in ToSet(calls[k].saved) : ~fnode[i].freed
  /\ \A n \in CmdNames : exec_hashtbl[n].mask \in Masks /\ exec_hashtbl[n].cmd.id = "function" => ~fnode[exec_hashtbl[n].cmd.at].freed
(* The cache never changes what a name stands for: a lookup (exec_hash)    *)
(* has the outcome of a search.  A program may be one PATH now has another *)
(* in front of, as long as it is there.  Only hash -p of the name of a     *)
(* function or a builtin changes it, which CarefulCmds leaves out.         *)
LookupRight ==
  \A n \in CmdNames, mask \in Masks :
    LET c == exec_hash(n, mask).cmd  s == exec_search(n, mask)
    IN  c = s \/ (c.id = "program" /\ s.id = "program" /\ <<c.at, n>> \in files)
=============================================================================
