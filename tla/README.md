# shish in TLA+

A verification development for shish, a POSIX-like shell in C. The shell does
not fork for `( )`, `$( )`, functions or chains of filters: one process holds
several shells at a time, shares one job list, one table of descriptors, one
list of traps, one stack of variables between them, leaves nested C activations
by `longjmp`, and is interrupted by a SIGCHLD handler that works on the same
data. Most of this project is about whether each of those shells gets back what
belongs to it. The rest checks the algorithms that turn text into something
else (parser, expansion, arithmetic, patterns, regular expressions, sed, awk,
filters) against definitions of what they should compute.

Paths below are relative to the repository (`src/…` is its source directory).

| modules | what they are |
|---|---|
| `JobControl`, `MCJobControl` | job table, waits, SIGCHLD handler, wait/jobs/fg/bg, levels, traps during waits; instances |
| – `JobControlProofs`, `ExitsProofs`, `WaitsProofs`, `StatusProofs` | theorems: the table is well formed; no exit is lost; waits hold their job, end on traps, keep stopped jobs and stay in their subshell; reported statuses are the true ones |
| `EvalStack`, `EvalProofs` | nesting of constructs, scopes, jumps, exit, traps, forked shells; theorems |
| `ShellState`, `MCShellState` | what a shell holds between commands; composes the modules of the next block |
| – `JobList` | the job list pointer by pointer, against the handler |
| – `FdTable`, `Descriptors`, `DescriptorScopes` | descriptor layer; scripts that redirect; what redirections promise |
| – `Variables`, `ShellEnv`, `VarTable` | stack of variable tables; what variables promise; lookup in a bucket |
| – `Traps`, `TrapsProofs` | the list of traps, pending and deferred signals, subshell snapshots, `lib/sig`; theorems |
| – `Commands`, `CommandsProofs` | functions, their retirement, PATH, the command cache; theorems |
| – `ListLemmas` | lemmas on lists that the two proof modules share |
| – `DirStack`, `DirList` | pushd, popd, cd across subshells and forks; what they promise |
| – `History` | session ring, shared file, scrolling, kills |
| `Language`, `MCLanguage` | text into trees and fields; composes `Grammar`, `Expansion`, `Patterns`, `Arithmetic` |
| `Utilities`, `MCUtilities` | text tools in the shell; composes `Regex`, `Sed`, `AwkParse`, `AwkInput`, `AwkFields` (with `AwkRecord`), `Filters` |
| `*.cfg` | one TLC configuration per question |
| `PROJECT.json` | components, runs, mutants, map from definitions to source lines, findings, hazards, theorems |

`Language` and `Utilities` state what is compared and how inputs grow; the
algorithms they compare (`sh_loop`, `expand_args`, `dfa_compile`, `sed_run`, …
and what each should give) are constant operators of theirs, which the MC module
and the cfg bind to the definitions of `Grammar`, `Expansion`, `Regex`, `Sed`, ….
`Descriptors` takes the longest operations of `FdTable` the same way.

## 1. Inventory

### What the system is made of

| component | state it keeps | operations | hard because |
|---|---|---|---|
| job table (`src/job`) | `job_list`, `job_pointer` (the slot of the current job), `job_finished[64]`, `$!` | `job_new`, `job_free`/`job_delete`, `job_signal`, `job_clean`, `job_update`, `job_find`, `job_discard`, `job_recall` | elements are freed while the list is walked; `job_pointer` may point into the freed one; the handler reads and writes the same list |
| job processes (`job_fork`, `job_wait`, `exec_program`, `lib/wait`) | children, signal mask, `job_wait_interruptible` | fork and register, wait, drain of a substitution (`job_resume_stopped`) | fork/exit/handler/waitpid races, one pending SIGCHLD for many exits, stops, fork failure |
| job builtins | – | `wait`, `jobs`, `fg`, `bg` | operands resolved before a wait and used after it |
| signals and traps (`builtin_trap.c`, `sh_onsig`, `lib/sig`) | pending flags, list of traps, stacks of handlers, `sh_async_exit` | relay, dispatch, EXIT/RETURN/DEBUG, snapshots around subshells, INT, QUIT and TERM ignored by an interactive shell and reset in its subshells | bodies run in the middle of a wait, replace themselves, may be left by a jump |
| evaluator (`src/eval`) | chain of `struct eval`, `errexit_suppress` | one function per construct; `eval_jump`, `eval_return`, `eval_exit` | jumps skip clean-up code |
| shell process (`src/sh`) | chain of `struct env` (on the C stack), `sh_subshell`, `sh_child` | `sh_push`, `sh_pop`, `sh_forked`, `sh_exit`, `sh_loop` | one process holds several shells |
| functions and commands (`src/exec`) | function list, retired list, hash, `functions_running`, `exec_subshell_depth` | lookup, call, snapshot/restore, program | bodies redefined while they run; the cache outlives what it was made from |
| descriptors (`src/fd`, `fdstack`, `fdtable`, `redir`) | levels of virtual descriptors, table of real ones | push, pop, resolve, redirect | opening is postponed and descriptors move about; virtual and real ones must agree at every fork and exec |
| variables (`src/var`, `src/vartab`) | chain of variable tables, shadowing links, hash buckets | push, pop, set, local, export, readonly, unset | transient scopes that share names |
| directories (`builtin_dirstack.c`, `builtin_cd.c`) | one list of nodes, fences | `cd`, `pushd`, `popd`, `dirs` | nodes owned by several environments; directories vanish |
| history (`src/history`) | ring, mapped file, cursor, stash | add, scroll, clear, resize | several shells and a crash between two writes |
| input (`src/source`) | chain of inputs | push, pop, read | left open by jumps; aliases are inputs |
| parser, tree (`src/parse`, `src/tree`) | token, flags, pending here-documents | text to tree and back | context decides keyword, alias, body |
| expansion (`src/expand`, `wordlist`, `path_fnmatch`) | parts with escapes and flags | tree to fields | flags outlive the piece they came with |
| regular expressions, sed (`text/dfa`, `text/sed`) | program, ranges, hold space, line ahead | compile, match, replace, cycle | shifted targets, empty matches, last line |
| awk (`text/awk`) | stream table, record, fields | parse, getline, close, split, join | lazy splitting; slots that move |
| filters (`src/filter`, `builtin/filter`) | window, spill, operands | pull chain instead of processes | reads end anywhere |
| terminal, prompt; utility builtins; `lib/` | terminal mode; – ; – | – | terminal and file system I/O |

Interactions: a construct calls `eval_tree`; a pipeline, a `&` or a program
calls `job_new`/`job_fork` and then `job_wait`; `job_wait` runs trap bodies,
which are scripts again; SIGCHLD calls `job_signal` at any instruction where it
is not masked; a subshell or substitution runs in the same process, one level
deeper, and at its end discards its jobs and puts back functions, traps,
descriptors, variables and directory; `exit` in a trap climbs through all of
them.

### What makes each part correct

* Table: list, numbers and current slot agree at every moment, also in the
  middle of a walk and to a handler that interrupts any write; nothing freed is
  used.
* Waiting: no exit status is lost or invented; a wait ends when its job does;
  an interrupted wait returns; a stopped job is kept.
* Levels: a subshell sees its own jobs and gives back everything it changed.
* Control flow: whenever a command runs, the scopes in force are those of the
  constructs around it; jumps stop where the language says; a forked shell
  never returns into its parent's script; `set -e` is off exactly inside tests.
* Signals: one that arrives runs its trap once, in the shell it was for.
* Text: printing and parsing a script are inverse; expansion, arithmetic,
  patterns, regular expressions, sed, awk and filters compute what their
  language says.

`PROJECT.json` lists every hazard with its line.

## 2. JobControl

**Correspondence.** The shell is sequential: `stack` is its C call chain, one
record per call in progress (`k` the call, `pc` where it is, the rest its
locals), and only the top moves. A `struct job` is a record in `heap` at an
address from `Refs`; `job_list` is the sequence of linked addresses;
`job_pointer`, in the code a pointer to a pointer, is the *predecessor* whose
`next` field holds the current job (or the list head), so freeing that
predecessor can leave it dangling in the model as in the code. Addresses are
reused after a free. `kid` is the kernel's view of each child, `chld` the one
pending SIGCHLD, `mask` whether it is blocked.

Each action is one uninterruptible piece of a C function: `job_fork` (mask and
fork) and `job_fork_parent` (record and unmask), `job_fork_fails` (unmask and give up); `exec_program` likewise; the
wait loop as `job_wait_traps`, `job_wait_check`, `job_wait_scan`, `waitpid_*`,
`job_wait_spin`, `job_wait_finish`; `job_clean` and `job_discard` once per list
element. Between any two of them children end, stop and continue, `sh_onsig`
reaps *one* child into its job when SIGCHLD is pending and not masked, and
`trap_relay` records a trapped signal. External: fork, waitpid, kill and the
children themselves.

The exit codes are a small set, `-1` (running) and a stop are separate values,
`WaitStatus` is the code's conversion of them to `$?`. Command text, banners
and terminal hand-over are left out.

**Bounds.** `MaxDepth` (nested calls), `MaxProcs` (pipeline members),
`MaxSpins` (5000 retries in the code), `MaxSigs`, `MaxOperands`, and the sets of
process ids and addresses; `RingSize` is 64 in the code and 1 or 2 in the runs,
so that it wraps. Two or three processes suffice for the races in question: one
awaited, one that ends meanwhile, one started in between.

**Fairness.** `FairSpec`: the shell process is scheduled (`WF` on the shell's
own steps) and a deliverable signal is delivered (`WF` on the handler) – both
guaranteed by the operating system. `EndingSpec` adds that each child ends
sooner or later, which is an assumption on the programs and is used only for
`CommandsComplete`.

| run | questions |
|---|---|
| `JobsScript` | 3 processes, ring of 1, `&`, pipelines, programs, `jobs`, `wait` with and without operands: `TypeOK`, `ListOrdered`, `StatusTrue` |
| `JobsMonitor` | job control with stops, `fg`, `bg`: `StatusTrue`, `StoppedJobKept` |
| `JobsSubshell` | levels, discard, fork failure, two operands: `TableSafe` (the inductive invariant), `CurrentValid`, `OwnJobsOnly` |
| `JobsTraps` | two trapped signals at any point, bodies that run programs, fork failure, children that end: `NoDanglingWait`, `TrapEndsWait`, `CommandsComplete` |
| `JobsDrain` | substitutions drained under job control: `NoExitLost` |
| `Wakeup` (violated) | `FinishedWaitReturns`: a wait whose job the handler completed between scan and `waitpid(-1)` stays blocked while an unrelated job runs |

`StatusTrue` is the conjunction of `NoExitLost` (a reaped exit is in its job or
in the ring), `WaitResult` (what `job_wait` returns is the members' status),
`WaitTruth` (what `wait pid` reports is what the process ended with) and
`RingFinished` (the ring holds only what ended).

No passing run sets both job control and a program inside a substitution, a trap
body that runs `jobs` or `wait`, `wait %%` in a subshell, or a process id twice:
the properties fail there, as section 8 shows one by one.

Symmetry over process ids and addresses is used in the safety runs only; the
model compares them and nothing else.

## 3. EvalStack

**Correspondence.** `stack` is the chain of C activations of constructs. An
activation has a kind (`line`, `redir`, `prefix`, `pipe`, `eval`, `source`,
`for`, `while`, `test`/`cond`, `function`, `subshell`, `subst`, `trap`,
`exittrap`, `child`), and, where the code pushes a `struct eval`, its flags, its
`jump` bit, its destructor and its marks (how far each chain reached at
`eval_push`). The chains `eval`, `fdstack`, `varstack`, `source` and `sh` hold
positions of `stack`, because in the code they link records that live in those C
frames: a position above the top is a dangling pointer, and a later activation
at the same position is the reused stack memory. The counters
`errexit_suppress`, `functions_running`, `exec_subshell_depth` and `sh_subshell`
and the flags `sh_async_exit` and the EXIT trap are as in the code.

The script is arbitrary: at each point any construct in `Constructs` may start
and any control in `Controls` may be executed (`TrapControls`, `ExitControls` in
the two kinds of trap body). Truth values of tests and whether a command fails
are chosen freely. `ctl` says what C code is running: a command (`run`), a search
for a target (`jump`, `exit`), the target's destructor (`dtor`), the unwinding
(`unwind`), the code after `setjmp` (`land`), the clean-up (`leave`), the end of
the process (`die`, `done`).

`eval_jump`, `eval_return` and `eval_exit` are modelled with their different
searches and their different unwinding: `eval_jump` to a sourced file takes no
chain back and does not look at `jump`; `eval_exit` pops one environment per
function frame; `eval_pop` takes the chains back to the frame's marks;
`sh_pop(env)` does nothing unless `env` is on top.
The model goes on where `eval_pop`'s assertion would stop a debug build, as the
default build (`MinSizeRel`, `NDEBUG`) does.

**Left out:** statuses, RETURN and DEBUG traps, nested signal traps, `exec`,
syntax errors, the values in the scopes, the arena of the expander.

**Bounds.** `MaxStack` activations (6 and 5: a loop in a function in a loop with
a redirection and a test fits), `MaxLevels` for the operand of `break`, and
`MaxCount` on the two counters that jumps can leave too high, which bounds how
many tests are entered and jumped out of.

| run | questions |
|---|---|
| `EvalScopes` | all constructs but pipelines, substitutions and traps, all controls, six activations: `ChainsHeld` (types; redirections, variable scopes, inputs; environments; jump frames), `CountsHeld` (function bodies are kept while called; `set -e` never fires under a test), `BreakStays` |
| `EvalTraps` | signal traps left by `exit`, EXIT traps, substitutions, pipelines, forked shells: `ShellsHeld` (environments, subshell depths, `sh_async_exit`), `ChildStays` |

While an EXIT trap runs because of an `exit` or `return`, the activations
between it and the target are still on the C stack although their environments
are already popped. `Doomed` names them; the scope invariants ask nothing of
them. A script can always stop (`Exited` stutters), so deadlock is checked.

## 4. ShellState: what a shell holds between commands

`ShellState` composes eight machines that do not share variables; each
behaviour chooses one of them (`part`) and leaves the others at rest, so one
run covers the parts one after the other. It extends `Traps` and `Commands`,
whose properties are also proved, and instantiates the other six. All of them are about the same
question: subshells, functions, traps and children use one process-wide
structure, and each must find its own share again.

A constant `Careful` (`CarefulCmds` in `Commands`) restricts what scripts do where the code is known to break
the property (section 8). With `Careful = FALSE` the same configuration finds
the counterexample; with `TRUE` it shows that nothing else breaks it.

| part | state | one action is | property |
|---|---|---|---|
| `jobs` (`JobList`) | `job[a].next`, `job_list`, children, SIGCHLD pending and blocked, the program counter `at` of `job_new`, `job_delete`, `job_clean`, `job_update` | one write of the shell, a child's end, or a whole walk of the handler | `HandlerSafe`: the handler meets no freed struct, finds every child's job, and what it records is not overlooked |
| `descriptors` (`Descriptors` on `FdTable`) | the record `io`: kernel table, structs, chains per number, levels, owners, `fd_expected`, saved scopes | a command with its redirections, `exec`, entering or leaving `{ }`, `( )`, `$( )` | `DescriptorsRight`, `ScopesKept` |
| `variables` (`Variables`) | tables, variables with flags and shadowing links, `set -a` | an assignment, `read`, `local`, `export`, `readonly`, `unset`, entering or leaving a function, prefix or subshell | `VarsSound`, `VarsPromised` |
| `table` (`VarTable`) | one bucket per table, the global list | an assignment that finds or makes a variable, a function's table | `VarsSound` |
| `traps` (`Traps`) | trap nodes with `running`, `orphan`, `freed`; kernel dispositions; `lib/sig`'s stacks; pending and deferred signals | `trap` in its forms, a signal at any moment, one step of `trap_run_pending`, end of a body, entering and leaving a subshell | `TrapsLive`, `SignalsKept` |
| `commands` (`Commands`) | function nodes, list, retired list, cache, PATH, files | definition, call, return, `unset -f`, lookup with its masks, `hash`, PATH and file changes, subshells | `FunctionsLive`, `LookupRight` |
| `dirs` (`DirStack`) | nodes, fences, environments with `sh->cwd` and `$PWD`, the directory of the process, which directories exist | `cd`, `pushd`, `popd`, rotation, subshells, calls of functions, a fork, whose child has one environment left, a directory removed | `CwdHeld`, `DirsPromised` |
| `history` (`History`) | per shell: ring, mapped file, cursor, stash, line; the file | typing, Return (two writes), Up, Down, Ctrl-C, clear, start, exit or kill | `HistoryKept` |

**What the properties consist of.**

* `HandlerSafe`: `WalkSafe`, `NoneMissed`, `DoneNoticed`. `JobControl` takes
  every list operation as one step with respect to the handler; this part is
  what justifies that, and where it does not hold.
* `DescriptorsRight`: `FdTypeOK`, `Owners` (the books agree), `ProgramSees` (a
  program run now finds on every number what the redirections around it say),
  `BuiltinSees` (a builtin, which runs before anything is on its number, uses
  the same files), `NoStray` (nothing is left open), `NotHeld` (the shell does
  not hold the write end of what it reads to the end).
  `ScopesKept` is the refinement: `Descriptors` implements `DescriptorScopes`,
  in which a number means a file and a scope gives back what it overrode. The
  mapping reads, for each number, the file its current struct leads to.
* `VarsSound`: `VarTypeOK`, `ChainKept`, `NoAssert` (the assertion of
  `vartab_cleanup`), `SubshellIsolated`; for the bucket `FoundAgain` and
  `HeldOnce`. `VarsPromised`: `Variables` implements `ShellEnv`.
* `TrapsLive`: `TrapTypeOK`, `BodyLives`, `ListLives`. `SignalsKept`:
  `PendingNoticed`, `DeferredKept`, `NoStraySignal`, `DispositionKept` (a signal
  with a trap has that trap's disposition), `StackMatches`, `PromptSafe` (outside
  subshells an interactive shell is not killed by INT, QUIT or TERM it has no trap
  for, although every subshell sets them to their default, `sh_sigrestore`).
* `FunctionsLive`: no freed function runs, is listed, saved or cached.
  `LookupRight`: with the cache every name means what it means without.
* `DirsPromised`: `DirStack` implements `DirList`, one list per environment.
  `CwdHeld`: the process is in the directory `sh->cwd` names, or `stray` tells
  that the directory was gone when a subshell was left; and `$PWD` names it too,
  unless a function changed directory and returned (`left`): `sh_pop` goes back
  and leaves PWD, which belongs to the scope around the function (`Holder`).
* `HistoryKept`: `Persisted`, `RecallRight`, `LiveKept`.

**What `Careful` keeps out.** jobs: no job is freed unmasked while a child is
left. variables: `Keeps`, scripts that unset, assign or `local` across the scope
they are in. traps: no second start of a running body, no subshell that removes
its parent's trap, and in an interactive shell no subshell while INT, QUIT or TERM
has a trap body. commands: no `unset -f` in a subshell, no program that appears after
its absence was noticed, no `hash -p` of the name of a function or a builtin. history: no other writer and no kill between the two
writes, no Ctrl-C while browsing, no Up on an empty history with a line typed.
`Beneath = FALSE`: no `exec` redirection inside a redirected `{ }`.

**Bounds.** Three jobs and processes (one freed, its two neighbours); 12 kernel
descriptors, 16 structs, three nested scopes and one `exec`, so that moved
descriptors collide with new ones; four variable tables over one name with two values, since names do not interact there; nine names of at
most three characters in buckets whose hash has the code's shape with 2-bit
characters and 5 bits; two signals, three traps, three frames (bodies, dispatch loops and
subshells), a handler stack of two; two functions and two nested calls or
subshells; two directories, one of which may vanish, two nodes and two fences,
three environments less one for the child of the one fork, functions called by
the outermost shell before it; two shells with
four commands in all and a ring of two, so that it wraps.

The scripts may stop at any point, and each part stops at its bounds; deadlock
is therefore not checked.

## 5. Language: text into trees, fields and numbers

The behaviours of `Language` build inputs: from a seed unit by unit over a
vocabulary (`MaxUnits`), or by replacing a stem by one of the forms the grammar
has (`MaxForms`). A state is one input; the invariants compare what the code
makes of it with a definition that is read off the language. Characters are
units; a parameter up to its word is one unit.

| parts | code | invariant |
|---|---|---|
| `tokens`, `scripts`, `docs` | `Grammar`: parser above words, here-documents, printer | `ScriptsKept`: a script that parses is printed to text that parses to the same tree (`RoundTrip`), and every word, assignment, redirection and body that was written is in the tree (`NothingDropped`) |
| `aliases` | `Grammar`: alias substitution | `AliasesReplaced` |
| `patterns`, `classes` | `Patterns`: `path_fnmatch` | `PatternsMatch`: it accepts what the pattern means (`Means`, by decomposition of the string) |
| `words`, `tildes`, `braces` | `Expansion`: parts, `expand_args`, `wordlist_cat`, `expand_brace` | `WordsRight`: the fields are those of a reference that reads quoting and splitting off the text (`FieldsRight`), also tildes (`TildesRight`) and braces (`BracesRight`) |
| `arith` | `Arithmetic`: parser and evaluation in `Width` bits | `ArithRight`: grouped as C groups (`ArithGrouped`) exactly when the operators climb, and then with C's value, errors and assignments (`ArithValue`) |

Bounds: all sequences of four units (five for bracket expressions, seven for
braces), three nested forms. Six worlds for expansion differ in IFS, parameters,
files and `set -f`. `Width = 5` bits make overflow and the most negative number
reachable.

## 6. Utilities: the text tools in the shell

| parts | code | property |
|---|---|---|
| `ere`, `bre`, `chars` | `Regex`: compiler to splits, jumps and saves, thread machine, backtracker, replacement | `RegexRight`: what compiles (`Compiles`), what is found and its groups (`Finds`), text outside matches is kept (`ReplaceKeeps`), which matches are replaced (`ReplaceRight`) |
| `sed`, `list` | `Sed`: flat program, cycle with one line read ahead | `SedRight`: a direct reading of the script gives the same output (`SedMeans`), but for scripts in which N finds output of `a` or `r` queued (`early`); `l` can be undone and keeps its width (`ListRight`) |
| `awk` | `AwkParse` | `AwkParsed`: the tree written with the parentheses the precedence table asks for is the text, with no parenthesis that was not there |
| `streams` | `AwkInput`: operands, stream table, buffers inside slots | `AwkReads`: `EveryLineRead`, `RecordsInOrder` |
| `record` | `AwkFields` | `RecordPromised`: implements `AwkRecord`, where `$0`, fields and NF follow each other at once |
| `pipes` | `Filters`: chain of in-process stages, window, spill, operands, cat, head, tail, uniq, cut, grep | `PipesMean`: output as with one command after the other (`PipesRight`), pipefail status (`PipefailRight`), but for `grep -c` and `-L` with an operand that has no line (`Lineless`) |

`AwkGetline` is the same specification with `Parts = {"streams"}` and
`Careful = FALSE`; it violates `EveryLineRead`. Bounds: three nested regular
expression forms or three characters against seven subjects; scripts of three
sed commands over inputs of 0, 1 and 3 lines; two nested awk forms; files of
three lines with a buffer of two; pipelines of two stages over texts of three
units cut into reads at every place.

## 7. Proofs

Each theorem is about the component's own `Spec` and holds for all values of the
constants that satisfy the module's `ASSUME` (`JobConstants`, `TrapConstants`,
`CmdConstants`, `EvalConstants`; TLC evaluates them in the runs)
and the hypotheses named here. A hypothesis is there because the code breaks the
property without it: section 8 has the counterexample.

| theorem | states | assumes |
|---|---|---|
| `JobControlProofs`: `TableSafety`, `TypeCorrect`, `NumbersAscend`, `SlotNeverDangles` | `[]TableSafe`, `[]TypeOK`, `[]ListOrdered`, `[]CurrentValid` | – |
| `ExitsProofs`: `ExitsNeverLost` | `[]NoExitLost` | `~PidReuse` (`PidAgain`), `NoDrainedFork` (`JobsDrain` with `prog`) |
| `WaitsProofs`: `WaitsNeverDangle`, `TrapsEndWaits` | `[]NoDanglingWait`, `TrapEndsWait` | `WaitTame` (`CleanUnderWait`, also with `wait` in the body; `wait p p`) |
| `WaitsProofs`: `StoppedJobsStay` | `StoppedJobKept` | `StopTame` (`StoppedPipe`) |
| `WaitsProofs`: `SubshellsOwnJobs` | `[]OwnJobsOnly` | `OwnTame` (`ParentJob`) |
| `StatusProofs`: `StatusesTrue` | `[]StatusTrue` | `StatusTame`: `~PidReuse` (`PidAgain`), `WaitTame`, `StopTame` (`StoppedPipe` with `bgcmd`), no subshells (`RingFinished` after `PidAgain`), `MaxSigs + 2 <= MaxSpins` (`WaitResult`) |
| `EvalProofs`: `CountsNeverLow` | `[]CountsHeld` | – |
| `EvalProofs`: `ChainsAlwaysHeld`, `BreaksStayInside`, `ChildrenStayInside` | `[]ChainsHeld`, `BreakStays`, `ChildStays` | `Tame` (section 8, `SourceBreak` and below) |
| `EvalProofs`: `ShellsAlwaysHeld` | `[]ShellsHeld` | `ShellTame` (the same) |
| `TrapsProofs`: `TrapsNeverFreed`, `SignalsNeverLost` | `[]TrapsLive`, `[]SignalsKept` | `Careful` (section 8, `{"traps"}`) |
| `CommandsProofs`: `FunctionsNeverFreed`, `LookupsRight` | `[]FunctionsLive`, `[]LookupRight` | `CarefulCmds` (section 8, `{"commands"}`) |

**The table** (`JobControlProofs`). `ListOrdered` and `CurrentValid` are not
inductive. `job_new` inserts at the first position whose number differs from the
position; that keeps the order only because numbers grow at least as fast as
positions (`IdGaps`), and the slot it sets is right only if an address is linked
once (`ListDistinct`). `job_clean` and `job_discard` keep a pointer into the list
from one step to the next, which must still be linked (`WalkLive`); that no trap
body runs in the middle of a walk follows from the shape of the call chain
(`StackShape`). Together with the types these form `TableSafe`, which
`JobsSubshell` also checks with TLC. The argument: lemmas on the list operators
(`LeastOf`, `NewIdOf`, `PosOf`, `InsertType`, `RemoveType`); the three operations
that change the table keep `TableInv` (`JobNewTable`, `JobDeleteTable`,
`JobSignalTable`); lemmas on the call chain (`MoveTop`, `ReturnTop`, `CallTop`);
one lemma per action (`…Safe`); `InitSafe`, `StepSafe`, and the four theorems.

**Exits** (`ExitsProofs`). The invariant `Exits`, on top of `TableSafe`, says why
nobody can take a status away from its job. `Held` is `NoExitLost` for stopped
members too. `Once`: a process is a member of one job only, so that `job_signal`,
which stops at the first it finds, tells the right one; without reuse of ids this
follows from `Held`, since the process a fork returns was never reaped.
`ForkOK`: between `fork()` and registration the child exists, is in no job, and
SIGCHLD is blocked, so neither the handler nor a wait (the shell is not waiting)
can reap it; only the drain of a substitution could, which `NoDrainedFork`
excludes. `RoomOK`: the launcher's job is still listed and has one empty slot per
member to come, so that `job_fork_parent` overwrites no member, also after failed
forks. `Kinds`: only commands of the script run. Steps that reap nobody and record
no exit are treated once (`KidKept`, `TableKept`, `KeptHeld`), reaping together
with recording once (`Collects`, `SignalRecords`, `SignalHeld`), then one lemma
per action.

**Waits** (`WaitsProofs`). What a step does to the calls and the list is one of
eleven kinds (`StepKind`, proved of all actions by `StepIs`): nothing, a move within
the call on top, its end, the start of a command, of a launcher's first fork, a
registration, the release of a job, a turn of `wait` to its next job, the end of a
job's wait, a walk over the list, the end of a subshell. Each of the three
invariants has one argument per kind.

`WaitInv`: every call that will use its job again has it listed (`FrameWait`), and
of two calls one above the other no two hold the same job (`PairWait`), so that what
the upper one frees is not what the lower one waits for. A `wait`, `fg`, `jobs` or
subshell only stands on subshells; this is where `WaitTame` is used. The same
invariant says that a `wait` that is interrupted still finds `job_wait_interruptible`
set, which is what `TrapsEndWaits` needs of the calls in between.

`StopInv`: a slot not filled in counts as running and only job control records a
stop (`StatsOK`); the job that a failed fork of `&` releases has no process yet
(`FreshBg`); only commands of the script run (`Ran`), so that `StopTame` excludes
the two operations that free a job whatever its state.

`OwnInv`: there is a function from the calls to subshell levels, which grows by one
at each subshell that runs its body, ends at `sh_subshell`, and bounds from below
the level of every job a call waits for or has looked up (`DepthOK`, `Claims`). A
job that is freed and whose address is given to a new one stays above the bound,
since a new job has the level of the shell, the deepest of all. `LevelsOK`: no
listed job is deeper than the shell, except those `job_discard` has still to visit
when the level has already been lowered.

**Statuses** (`StatusProofs`). `NoExitLost` says that what is recorded is true; that
what is returned is, too, needs `StatInv` on top of the three invariants above.
`WaitStat`: a `job_wait` whose job has all its processes has all its retries left,
not counting those that traps took (`Tries`), until a scan sees the job ended;
when it is about to return, its status is the one of the last member. A retry is
taken only when `waitpid` fails, by a signal or because another reaped the child
and `Held` then says that the job has ended; hence `CountOK` and
`MaxSigs + 2 <= MaxSpins`. `OpStat`: the job that `wait pid` waits for has that one
process, since only `&` makes processes a script knows the id of (`MembersOK`); `LaunchStat`: the
job of a pipeline is not a background one, that of `&` has one member, and a child
just forked cannot be named yet. `RingFree`:
what `job_free` puts into the ring is true when the job has ended, was not started
with `&`, or has no process; one lemma shows this for every caller. The steps are
again one lemma per kind of step of `StepIs` (`PushStat`, `PopStat`, `OntoStat`, …), with the
moves inside `job_wait` one lemma per action.

**The evaluator** (`EvalProofs`). `Tame` allows no control in the body of an EXIT
trap, and no forked child where files are sourced; `ShellTame` also allows no
sourced file at all, and in a signal's trap only `exit` and commands that fail.
Every control in an EXIT trap breaks `ChainsHeld` and `ShellsHeld`; a sourced file
around a child breaks `BreakStays` and `ChildStays`; a sourced file, `break` or
`return` around or in a signal's trap breaks `AsyncHeld`. Whether the two action
properties also need `ExitControls = {}` is open: their proofs take it from the
invariant.

`ChainsHeld` speaks of moments when a command runs; between them a jump may have
cut a chain and not yet the stack, or an EXIT trap may run on top of activations
that are half left. `EvalInv` says what holds then. `Safe`: chains ascend and reach
no further than the stack, the target of a jump and of a suspended jump is on the
stack. `ChainsOK`: each chain links every live activation of its kind except
those about to be left (`Gone`), and the marks of every frame that is not about to be
left say how much of each chain lies at or below it (`MarksOK`), so that `Cut` by
count (`eval_jump`) and `Under` by address (`eval_pop`) leave the same chain
(`UnderIs`, `CutIs`, `MarkUnique`). `ShapeOK`: flags and jump bits are those of the
kind above the innermost fork and a subset below it. `PhaseOK`: where the C code
is (`ctl`) fits the stack, above all that a jump under way has a target above
the fork with no subshell and no environment beyond it (`Aimed`).
That `eval_exit`, which pops one environment per function frame by number,
arrives at the environment of its target is `ExitCuts`: the environments
above the target are exactly those of the calls above it, and `CountAbove` counts
both. `CountsOK` is the inductive form of `CountsHeld`, for all four counters.
`DepthOK` makes the two depths exact. `AsyncOK` follows the request to end the
process: it is set only while a signal's trap is on the stack, an exit is under way
(`Leaving`), or one is held up by an EXIT trap; a trap that was entered saw it
clear; and an exit in progress is aimed at a subshell or substitution, whose end
passes it on.

The 39 actions fall into eight kinds of step (`StepIs`): something opens
(`Opening`), ends (`Ending`), leaves the stack alone (`Rests`), jumps (`Leaps`),
leaves a sourced file with a break pending (`Suspends`), starts the EXIT trap
(`HangsOn`), `eval_exit`, and `sh_forked`. Each invariant has one lemma per kind.
The invariants were checked with TLC before (`AsyncOK` on 2.1 million states).

**Traps** (`TrapsProofs`). `TrapInv` says that the current list of traps and the
one each subshell has saved hold one trap per signal, none of them freed, and
that what was saved is still on the current list (`ListsOK`: a subshell under
`Careful` hides its parent's traps and removes none); that the bodies that run
are of different signals and none is freed (`BodiesOK`); that a signal waits only
if it has a trap, in this shell or in the outermost, whose body is not running
(`WaitingOK`); that disposition and handler stack of each signal are those of its
trap or of having none (`KernelOK`); that an interactive shell outside subshells
has none of INT, QUIT and TERM at its default, that what `lib/sig` will put back
under a trap of the outermost shell is an ignore, and that what was ignored on
entry still is (`PromptOK`); and, from the property itself,
`PendingNoticed` and `NoStraySignal`.

**Commands** (`CommandsProofs`). `CmdInv` says that the list of functions and the
one each subshell has saved hold one function per name, none freed or retired,
and that the names a subshell found are still there (`SavedOK`: `CarefulCmds` has no
`unset -f` in a subshell); that running calls are of functions not freed
(`CallsOK`); and that a cache entry not marked stale is what a search would find
now, but for the directory of a program (`CacheRight`). `ListLemmas` has the facts
on lists (insertion, removal, elements) that this and the previous proof cite.

Only model-checked: the
other six parts of `ShellState`, `Language` and `Utilities`, the refinements included; and liveness (`CommandsComplete`, `FinishedWaitReturns`,
`StoppedWaitReturns`, `TrapPrompt`), which the prover does not handle. `Grammar`,
`Expansion`, `Patterns`, `Arithmetic`, `Regex`, `Sed`, `AwkParse`, `AwkInput`,
`Filters`, `FdTable`, `DirStack`, `JobList` and `History`, and the modules that
compose them, use RECURSIVE operators and are out of the prover's reach.

## 8. Where code and comments disagree

### Configurations that end with a counterexample

`tlc -config X.cfg M`, `M` being `MCJobControl` or `EvalStack`. A row that
begins with "– with" is the configuration named last, with the changes given and
the row's own property.

| configuration | property | what the code does |
|---|---|---|
| `StoppedPipe` | `StoppedJobKept` | `eval_pipeline` frees the stopped job that `job_wait` has just left for `fg` |
| – with `MaxDepth = 3`, `MaxSigs = 1`, `BodyCmds = {"bgcmd"}` | `RingFinished` | `bg` in a trap body makes the stopped pipeline a background job; it stops again, `eval_pipeline` frees it, and the ring records a process that has not ended |
| `CleanUnderWait` | `NoDanglingWait` | `jobs` in a trap body frees the finished job that the interrupted `job_wait` goes on to scan; `job_wait.c` recomputes "on every pass" from the freed struct |
| – with `MaxSigs = 2`, `RootCmds = {"bg", "wait"}`, `BodyCmds = {"prog"}` | `ForegroundDone` | a program run by a trap body inside `wait` is abandoned when the next trap runs |
| – with `RootCmds = {"bg", "wait"}`, `BodyCmds = {"wait"}` | `TrapEndsWait` | a `wait` in a trap body clears `job_wait_interruptible`; `job.h`: "job_wait() returns as soon as a trap has run" |
| – with `MaxSigs = 0`, `RootCmds = {"bg", "sub", "jobs"}`, `BodyCmds = {}` | `JobsDropsListed` | `jobs` in a subshell drops finished jobs of the parent that it did not list |
| `PidAgain` | `WaitTruth` | a reused process id gets the status of its previous owner |
| – with `PidReuse = FALSE`, `MaxOperands = 2`, `RootCmds = {"bg", "waitops"}` | `WaitTruth` | `wait p p` reads a freed job for the second operand |
| – with `PidReuse = FALSE`, `RootCmds = {"bg", "sub"}` | `RingFinished` | leaving a subshell records its running job as finished |
| – with `PidReuse = FALSE`, `MaxSigs = 1`, `RootCmds = {"pipe"}` | `WaitResult` | when signals and `waitpid` errors have used up the retries (5000 in the code), `job_wait` returns the status of an earlier scan |
| – with `PidReuse = FALSE`, `RootCmds = {"pipe"}`, `BodyCmds = {"wait"}` | `WaitsForBackground` | `… \| wait` waits for its own pipeline |
| `JobsDrain` with `Codes = {0, 1}`, `RootCmds = {"cmdsub", "prog"}` | `NoExitLost` | the drain inside `exec_program`, between fork and `job_new`, reaps the program |
| `TrapLate` | `TrapPrompt` | a signal between `trap_run_pending()` and `waitpid()` waits for the child; `builtin_trap.c`: "fires promptly even while blocked on a long-running external command" |
| – with `MaxSigs = 0`, `Monitor = TRUE`, `RootCmds = {"bg", "wait"}` | `StoppedWaitReturns` | `wait` with only a stopped job left never returns; `job_wait.c`: "hand control back to the caller right away" |
| `ParentJob` | `OwnJobsOnly` | `wait %%` in a subshell reaches the parent's job; `job.h`: "a ( ) or $( ) does not see its parent's jobs" |
| `SourceBreak` | `PopsCurrent` | `break` in a sourced file fails `assert(e == eval)` in `eval_pop` |
| – with `Constructs = {"source", "child"}` | `ChildStays` | `break` in a child forked by a sourced file lands in the file's frame and runs the caller's script again |
| – with `Constructs = {"subshell"}`, `Controls = {"exit"}`, `ExitControls = {"exit"}`, `SetsExitTrap = TRUE` | `EnvHeld` | `exit` in a subshell's EXIT trap leaves `sh` at a dead environment |
| – with `Constructs = {"for", "test"}`, `Controls = {"break", "fail"}`, `Errexit = TRUE` | `SuppressHeld` | `break` out of a test skips `errexit_suppress--`: `set -e` stays off (`eval.h`) |
| – with `Constructs = {"function", "subshell", "trap"}`, `Controls = {"exit"}`, `TrapControls = {"return"}` | `AsyncHeld` | a trap body left by `return` skips the restore of `sh_async_exit`: a later `(exit)` ends the whole shell; so does `TrapControls = {"break"}` with `"for"` |
| – with `Constructs = {"source", "trap"}`, `TrapControls = {"exit"}` | `AsyncHeld` | `exit` in a trap that fires in a sourced file leaves the file only, and the request stays |
| – with `Constructs = {"child"}`, `Controls = {"exit"}`, `SetsExitTrap = TRUE` | `TrapBeforeEnd` | a child that calls `exit`, or is a member of a pipeline, never runs the EXIT trap it set (`sh_exit.c`) |
| `ShellState` with `Parts = {"jobs"}`, `Careful = FALSE` | `HandlerSafe` | `job_free.c:44` frees the struct before it is unlinked; the handler walks into it |
| – `{"variables"}`, `Careful = FALSE` | `VarsSound` | `(unset x)` unsets the outer x; the assertion in `vartab_cleanup.c` is reachable |
| – `{"table"}`, `MaxLevels = 2` | `VarsSound` | `jl=1; j=2; f(){ local jde=3; j=5; }; f` makes a second `j`; `vartab_add.c`: "its already in this table? wtf?" |
| – `{"traps"}`, `Careful = FALSE` | `TrapsLive` | a trap body entered again while it runs is freed by the inner call |
| – `{"traps"}`, `Careful = FALSE` | `SignalsKept` | in an interactive shell with `trap … INT` a subshell sets INT to its default (`sh_sigignore.c:81`) and the next one kills the shell; `builtin_trap.c:798`: "its handler stays and trap_scope_defer() holds the signal back" |
| – `{"commands"}`, `CarefulCmds = FALSE` | `LookupRight` | `f() { :; }; hash -p /bin/ls f; f` runs the program: `builtin_hash.c:113` overwrites an entry "of any kind" |
| – `{"commands"}`, `CarefulCmds = FALSE` | `FunctionsLive` | `k() { (unset -f a); }` and the like run freed bodies |
| – `{"history"}`, `Careful = FALSE` | `HistoryKept` | an append is two writes; `history.h`: concurrent shells "append their own entries without clobbering each other's" |
| – `{"descriptors"}`, `Beneath = TRUE` | `ScopesKept` | `{ exec 3>k; echo hi; } 1>f` writes to k |
| `Utilities` with `Parts = {"pipes"}`, `INVARIANT FunctionFed` | `FunctionFed` | `cat() { /bin/cat; }; head f \| cat` gives the function the shell's own input (`eval_pipeline.c:102`) |

Three exemptions are written into a property; without the operator named here
the run of the second column finds the counterexample.

| operator | run, property | what the code does |
|---|---|---|
| `left` (`DirStack`) | `ShellState`, `CwdHeld` | `f() { cd /tmp; }; f` leaves `$PWD` at /tmp (`builtin_cd.c:183`), while `sh_pop.c:43` takes the shell back |
| `early` (`Sed`) | `Utilities`, `SedRight` | `/a/a Y` followed by `N` writes Y at the end of the cycle; `sed_internal.h:79`: the queue is "flushed just before the next line is read (by n/N …)" |
| `Lineless` (`Filters`) | `Utilities`, `PipesMean` | `grep -c` and `-L` are silent on an operand without a line; `builtin_grep.c:282`: "-c yields one count per operand" |

### Inputs the references are not asked about

Met while the references were written; the operators that exempt them
(`Agreed`, `Flat`, `Climbs`, `Usual`, `Plain`, `Stops`, …) name the class.

* Descriptors: `{ P 1>&-; } 2>&1 1>f`; `{ P 3>&1 1>&2 2>&3 3>&-; } 2>&1 1>f`;
  `x=$( { /bin/true; echo E >&2; } 2>&1 1>f )` loses E;
  `exec 4>&2; x=$(exec 4>&2; P); P >h 2>&1` leaks 5; `exec_program` ignores an
  error of `fdtable_exec`.
* Variables: `(x=2)` in a function with a local x, a nested `local`, `x=2 cmd`
  with a local x, `export x` or `readonly x` in a function; `local x` sets the
  empty string; `$((x=1))` ignores `set -a`.
* Traps and commands: `trap '' USR1; (trap - USR1)` and the same with a body
  change the outer disposition; a missing program stays "not found" after it is
  installed; `(unset -f ps; ps); type ps`.
* Printer: `{ a; b &⏎ c; }`, `if a & then`, `f() echo hi`, empty bodies,
  `f() {…} &`, `if … elif … fi >f`. Parser: `a && ;` is accepted.
* Words: `echo *"a"` and `*$x` lose the glob flag; `\*$x`, `a"$x"`, a HOME with
  `\*`, `v=\:~`, `${u=""}`, `"$@"$@`; nested braces.
* Arithmetic: `1+1*2*3` is 9, `1||0||1` is a syntax error, `x++`, `x/=0` (a
  signal; `expand_arith_binary.c:50` has the guard for `/`), `1+` is 1,
  `(1,2)` is 1, a comma at top level is rejected.
* Regular expressions: `^(a*|cab)$` matches `acab` (`dfa.h`: "POSIX
  leftmost-longest"); `grep -i '[^a]'`; `a$\{2\}`; `\(a*\)*\1`; `a*{2}`; more
  than 64 alternatives.
* awk: `END{print NR}` with no rule reads nothing; uninitialised scalars passed
  by reference; `exit` in a function skips END; `print "a" 1/0`; a stray
  character ends the program; `a && b=2` and `c ? x=1 : y` are syntax errors;
  OFS and FS are applied late.
* Filters: grep reads an unterminated last line after the next operand is open;
  pipefail with `cat /nonexistent | true`; `printf a | cat -b`. An
  unknown option (`cat -Z`) gives 2, in the code and in its test;
  `filter_run.c:9` and `filter.h:170` say that a usage error returns 1.
* History: Ctrl-C while browsing leaves the cursor; Up with an empty history
  loses the typed line.

## 9. Not modelled

* Terminal, line editing and prompt text; tracing; WASI glue; the utility
  builtins that are straight-line programs over the file system (`ls`, `find`,
  `cp`, `printf`, …); most of `lib/`, which is a copy of libowfat.
* awk's evaluation of expressions, `printf` and built-in functions; the filters
  sort, tr, paste, nl and compress; getopts, read's own parsing, umask, kill.
* Buffers of descriptors and their flushing, pipes between forked members of a
  pipeline, `#!` handling, RETURN and DEBUG traps, `set -x`.
* Jobs: the pump of a filter chain before a forked last stage, a child that forks
  and is waited for by itself (`eval_pipeline.c:142`); between `killpg` and the reset of the
  recorded stops in `fg` and `bg` the handler does not run, which would do no
  harm, since only recorded stops are reset (`builtin_jobs.c:147`). Builds
  without `fork`, where pipeline stages run in the shell.
* Data left to an abstraction whose properties do not tell it apart. Variables:
  the table of a redirection without a command, which `var_chflg` would pass.
  `FdTable`: structs with a negative number, and a close of a descriptor with
  neither mode. `Grammar`: `time -p`, and a function whose body is missing, which
  the parser dereferences and the model takes as an error. `Arithmetic`: the
  conversion of a variable's text, and assignment to a readonly one. `Expansion`:
  tildes in the word of a parameter, `${x=w}` on a readonly x or on IFS; after an error
  no further word is expanded. `Regex`: character escapes, `\s`, `\S`, and the case operators of a
  replacement. `AwkParse`: `func` for `function`, regular expressions that do not
  compile. `AwkInput`: growth of the stream table, which moves open readers as a
  close does. `Filters`: read errors, tail's trim while it reads and its `-q`,
  `-v`, `-f`. `DirStack`: OLDPWD (`cd -` is a `cd` to any directory).
* Single characters below the token: `$'…'`, error messages, positions.
* The modules of sections 2 to 6 are not composed with each other beyond
  `ShellState`: that a jump of `EvalStack` calls the pops of `Descriptors` and
  `Variables` in the right number is stated there with positions instead.

## 10. Plan

1. Done: `JobControl`, `EvalStack`, the eight parts of
   `ShellState` with three refinements, `Language`, `Utilities` with one.
2. Done: theorems on `JobControl` (all safety properties of its runs),
   `EvalStack` (all properties of its passing runs), `Traps` and
   `Commands`. Next, in this order: `AwkFields` implements `AwkRecord`; `Variables` (`ChainKept`); `JobList` (`WalkSafe`) with its walk written as a
   recursive function.
3. `StructuredScopes`: the scopes a structured language would have, implemented
   by `EvalStack` when no jump leaves a trap body.
4. awk's evaluator and the remaining filters.
