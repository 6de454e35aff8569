---------------------------- MODULE MCShellState ----------------------------
(* Values for the constants of ShellState.                                 *)
EXTENDS ShellState

MCParts == {"jobs", "descriptors", "variables", "table", "traps", "commands", "dirs", "history"}

(* Redirection lists that scripts use.                                     *)
R(n, dir, act, name, src) == [n |-> n, dir |-> dir, act |-> act, file |-> name, src |-> src]
Out(n, f) == R(n, "W", "open", f, 0)
In(n, f) == R(n, "R", "open", f, 0)
Dup(n, m) == R(n, "W", "dup", "none", m)
Shut(n) == R(n, "W", "close", "none", 0)
Here(n) == R(n, "R", "here", "doc", 0)

MCNums == 0..4
MCSinks == <<"sub1", "sub2">>
MCGroups == { <<Out(1, "f")>>, <<Out(3, "g")>>, <<Out(1, "f"), Dup(2, 1)>>, <<In(0, "i")>>, <<In(0, "no")>> }
MCSimples == { <<>>, <<Dup(3, 1), Dup(1, 2), Dup(2, 3), Shut(3)>>, <<Dup(2, 1), Out(1, "h")>>, <<In(0, "no")>>, <<Out(1, "h"), Dup(2, 1)>>, <<Here(0)>>, <<Shut(3)>>, <<In(0, "i")>> }
MCExecs == { <<Out(3, "k")>>, <<Dup(4, 2)>>, <<Out(1, "k")>>, <<Shut(3)>>, <<In(0, "no")>>, <<In(0, "i")>> }

MCRedirect(s, list, lev, now) == F!RedirAll(s, list, lev, now)
MCOpenAll(s) == F!OpenStd(s)
MCPipeAll(s) == F!fdstack_pipe(s)
MCExecAll(s) == F!fdtable_exec(s)

MCVarNames == {<<1>>, <<1, 1>>, <<1, 2>>, <<1, 3>>, <<1, 1, 1>>, <<1, 1, 2>>, <<1, 2, 1>>, <<1, 2, 3>>, <<1, 3, 3>>}
MCPaths == {<<1, 2>>, <<2>>}
MCLines == <<{<<"a">>, <<"bs", "n", "nl">>}, {<<"a">>}>>
MCHistSizes == <<{0, 1}, {}>>
=============================================================================
