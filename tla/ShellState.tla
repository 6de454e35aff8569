----------------------------- MODULE ShellState -----------------------------
(***************************************************************************)
(* What a shell keeps from one command to the next, and what a subshell,   *)
(* which is run in the same process, has to give back: the list of jobs,   *)
(* descriptors, variables and the table that holds them, traps, functions  *)
(* and the cache of commands, the directory stack, the history.  None of   *)
(* these reaches into another; a behaviour exercises one of them, part     *)
(* says which, and the others rest as they began.                          *)
(***************************************************************************)
EXTENDS Traps, Commands

CONSTANTS Parts,
          MaxJobs,
          MaxFd, MaxStruct, Missing, Nums, Sinks, Groups, Simples, Execs, MaxDepth, MaxExec, Beneath,
          RedirectAll(_, _, _, _), OpenAll(_), PipeAll(_), ExecAll(_),
          Names, Values, NoText, MaxTabs,
          VarNames, VAR_CHAR, VAR_BITS, MaxLevels, MaxEntries,
          Dirs, Volatile, MaxCells, MaxFences, MaxEnvs, MaxForks,
          Shells, Lines, HistSizes, Browsers, DEFAULT_HISTSIZE, MaxTyped

VARIABLES part,
          job_list, job, kid, chld, blocked, job_signaled, at,
          io, env, scopes, execs, saved,
          tabs, vars, allexport, gone,
          buckets, glist, rnd,
          ds, envs, proc, there, stray,
          file, sh, typed

J == INSTANCE JobList
F == INSTANCE Descriptors WITH frames <- scopes
V == INSTANCE Variables
B == INSTANCE VarTable
S == INSTANCE DirStack WITH MaxNodes <- MaxCells
H == INSTANCE History WITH Commands <- Lines

jobVars == <<job_list, job, kid, chld, blocked, job_signaled, at>>
fdVars == <<io, env, scopes, execs, saved>>
varVars == <<tabs, vars, allexport, gone>>
tableVars == <<buckets, glist, rnd>>
dirVars == <<ds, envs, proc, there, stray>>
histVars == <<file, sh, typed>>
allVars == <<part, jobVars, fdVars, varVars, tableVars, trapVars, cmdVars, dirVars, histVars>>

(* Of the parts that are not exercised one initial state is enough.        *)
Init ==
  /\ part \in Parts
  /\ J!ListInit /\ F!FdInit /\ V!VarInit /\ B!TableInit /\ TrapInit /\ CmdInit /\ S!DirInit /\ H!HistInit
  /\ part # "variables" => vars = <<>>
  /\ part # "table" => rnd = FALSE
  /\ part # "traps" => sig_ignored = {}
  /\ part # "commands" => path = (CHOOSE p \in Paths : TRUE) /\ builtins = [n \in CmdNames |-> "no"]

Next ==
  /\ UNCHANGED part
  /\ \/ part = "jobs" /\ J!ListNext /\ UNCHANGED <<fdVars, varVars, tableVars, trapVars, cmdVars, dirVars, histVars>>
     \/ part = "descriptors" /\ F!FdNext /\ UNCHANGED <<jobVars, varVars, tableVars, trapVars, cmdVars, dirVars, histVars>>
     \/ part = "variables" /\ V!VarNext /\ UNCHANGED <<jobVars, fdVars, tableVars, trapVars, cmdVars, dirVars, histVars>>
     \/ part = "table" /\ B!TableNext /\ UNCHANGED <<jobVars, fdVars, varVars, trapVars, cmdVars, dirVars, histVars>>
     \/ part = "traps" /\ TrapNext /\ UNCHANGED <<jobVars, fdVars, varVars, tableVars, cmdVars, dirVars, histVars>>
     \/ part = "commands" /\ CmdNext /\ UNCHANGED <<jobVars, fdVars, varVars, tableVars, trapVars, dirVars, histVars>>
     \/ part = "dirs" /\ S!DirNext /\ UNCHANGED <<jobVars, fdVars, varVars, tableVars, trapVars, cmdVars, histVars>>
     \/ part = "history" /\ H!HistNext /\ UNCHANGED <<jobVars, fdVars, varVars, tableVars, trapVars, cmdVars, dirVars>>
Spec == Init /\ [][Next]_allVars

-----------------------------------------------------------------------------
(* SIGCHLD's handler may run between any two writes to the list of jobs:   *)
(* it meets no freed struct, finds the job of every child, one that is     *)
(* being linked included, and what it records is not overlooked by         *)
(* job_update (job_new, job_delete, job_update).                           *)
HandlerSafe == part = "jobs" => J!WalkSafe /\ J!NoneMissed /\ J!DoneNoticed

(* A program run now finds on every number what its redirections and those *)
(* around it say, and a builtin, which runs before anything is on its      *)
(* number, uses the same files (fdtable_exec, fdtable_resolve).  For that  *)
(* the books agree: levels, chains and owners; no descriptor is left over, *)
(* and none holds the write end of a pipe the shell reads to the end.      *)
DescriptorsRight ==
  part = "descriptors" => /\ F!FdTypeOK /\ F!Owners
                          /\ F!ProgramSees /\ F!BuiltinSees
                          /\ F!NoStray /\ F!NotHeld
(* Leaving a scope gives back the meaning of every number: the descriptor  *)
(* layer implements DescriptorScopes.                                      *)
ScopesKept == F!Promise!ScopeInit /\ [][part = "descriptors" => [F!Promise!ScopeNext]_(F!Promise!scopeVars)]_fdVars

(* Variables stay where they belong: each on a table that is there, on a   *)
(* chain of shadowing with both ends right, so that vartab_cleanup's       *)
(* assertion holds and a subshell changes nothing outside it; and in its   *)
(* bucket a name that was assigned is found again and never made twice.    *)
VarsSound ==
  /\ part = "variables" => V!VarTypeOK /\ V!ChainKept /\ V!NoAssert /\ V!SubshellIsolated
  /\ part = "table" => B!FoundAgain /\ B!HeldOnce
(* The tables implement the environment of ShellEnv: assignments, local,   *)
(* readonly, export, unset and the scopes of functions and subshells.      *)
VarsPromised == V!Promised!EnvInit /\ [][part = "variables" => [V!Promised!EnvNext]_(V!Promised!envVars)]_varVars

(* The process is in the directory the innermost environment names, and so *)
(* is $PWD (builtin_cd, sh_pop), but for a directory that is gone and a    *)
(* function that changed directory and returned.                           *)
CwdHeld == part = "dirs" => S!CwdHeld
(* Each environment keeps the directory list it built: the stack with its  *)
(* fences implements DirList.                                              *)
DirsPromised == S!Promise!ListInit /\ [][part = "dirs" => [S!Promise!ListNext]_(S!Lists)]_dirVars

(* The file has every command of every shell, each once and in order;      *)
(* scrolling back shows every command, newest first, as it was typed, and  *)
(* back at the live position the line that was being typed                 *)
(* (history_file_append, history_prev, history_next).                      *)
HistoryKept == part = "history" => H!Persisted /\ H!RecallRight /\ H!LiveKept
=============================================================================
