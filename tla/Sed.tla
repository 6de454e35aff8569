-------------------------------- MODULE Sed --------------------------------
(***************************************************************************)
(* The stream editor (text/sed): the script compiled to one flat list of   *)
(* commands with jumps, the cycle that runs it over input lines read one   *)
(* ahead, and what the script means, read off its text.                    *)
(*                                                                         *)
(* A script is a sequence of commands [l, a1, a2, neg, arg]: the letter,   *)
(* the addresses, an odd number of !, the argument.  A line of input is    *)
(* [t, nl]: its characters and whether a newline ended it.                 *)
(***************************************************************************)
EXTENDS Integers, Sequences, SequencesExt

CONSTANTS Alphabet, DFA_MAXDUP, DFA_MAXSTEPS,
          Regexes,      \* the patterns a script may hold
          Files,        \* what a file r names holds; others are missing
          SED_MAXNEST, MaxSedSteps

Re == INSTANCE Regex

NoAddr == [k |-> "none", n |-> 0, step |-> 0, re |-> <<>>]
Line(n) == [NoAddr EXCEPT !.k = "line", !.n = n]
LastLine == [NoAddr EXCEPT !.k = "last"]
Step(n, m) == [NoAddr EXCEPT !.k = "step", !.n = n, !.step = m]
Mult(m) == [NoAddr EXCEPT !.k = "mult", !.step = m]
Rx(p) == [NoAddr EXCEPT !.k = "regex", !.re = p]
NoArg == [name |-> "", text |-> <<>>, n |-> 0, re |-> <<>>, to |-> <<>>, global |-> FALSE, print |-> FALSE]
Cmd(l, a1, a2, neg, arg) == [l |-> l, a1 |-> a1, a2 |-> a2, neg |-> neg, arg |-> arg]
Compiled == [p \in Regexes |-> Re!dfa_compile(p, {})]
naddr(c) == IF c.a1.k = "none" THEN 0 ELSE IF c.a2.k = "none" THEN 1 ELSE 2

-----------------------------------------------------------------------------
max_addr(l) == IF l \in {"a", "i", "q", "Q", "r", "="} THEN 1 ELSE IF l = ":" THEN 0 ELSE 2
sed_addr_parse(a) == a.k = "regex" /\ a.re # <<>> => Compiled[a.re].err = ""
sed_subst_parse(s) == s.re # <<>> => Compiled[s.re].err = ""
sed_y_parse(y) == Len(y.re) = Len(y.to)
sed_wfile_intern(ws, name) == IF Contains(ws, name) THEN ws ELSE Append(ws, name)
push_cmd(b, c) == [b EXCEPT !.cmds = Append(@, [l |-> c.l, a1 |-> c.a1, a2 |-> c.a2, neg |-> c.neg, arg |-> c.arg, jump |-> 0])]
(* A closing brace is no command: it tells its partner where to go.        *)
Close(b) == [b EXCEPT !.cmds[Last(b.brace)].jump = Len(b.cmds) + 1, !.brace = Front(@)]
label_push(b, name) == [b EXCEPT !.labels = Append(@, [name |-> name, cmd |-> Len(b.cmds)])]
fixup_push(b, name) == [b EXCEPT !.fixups = Append(@, [name |-> name, cmd |-> Len(b.cmds)])]
sed_parse_command(b, c) ==
  LET p == push_cmd(b, c)
      err(e) == [p EXCEPT !.err = e]
  IN  IF b.err # "" THEN b
      ELSE IF ~sed_addr_parse(c.a1) \/ ~sed_addr_parse(c.a2) THEN err("regex")
      ELSE IF naddr(c) > max_addr(c.l) THEN err("cmd")
      ELSE CASE c.l = "{" -> IF Len(b.brace) = SED_MAXNEST THEN err("size") ELSE [p EXCEPT !.brace = Append(@, Len(p.cmds))]
             [] c.l = "}" -> IF naddr(c) > 0 \/ c.neg \/ b.brace = <<>> THEN err("brace") ELSE Close(b)
             [] c.l = ":" -> IF c.arg.name = "" THEN err("label") ELSE label_push(p, c.arg.name)
             [] c.l \in {"b", "t", "T"} -> fixup_push(p, c.arg.name)
             [] c.l = "s" -> IF ~sed_subst_parse(c.arg) THEN err("regex")
                             ELSE IF c.arg.name = "" THEN p ELSE [p EXCEPT !.wfiles = sed_wfile_intern(@, c.arg.name)]
             [] c.l = "y" -> IF sed_y_parse(c.arg) THEN p ELSE err("delim")
             [] c.l = "w" -> [p EXCEPT !.wfiles = sed_wfile_intern(@, c.arg.name)]
             [] OTHER -> p
(* [cmds, wfiles, err]: the program, or why there is none.                 *)
sed_parse(script) ==
  LET b == FoldLeft(sed_parse_command, [cmds |-> <<>>, brace |-> <<>>, labels |-> <<>>, fixups |-> <<>>, wfiles |-> <<>>, err |-> ""], script)
      named(f) == {j \in DOMAIN b.labels : b.labels[j].name = f.name}
      target(f) == IF f.name = "" THEN Len(b.cmds) + 1 ELSE b.labels[CHOOSE j \in named(f) : \A k \in named(f) : j <= k].cmd
      fix(cmds, f) == [cmds EXCEPT ![f.cmd].jump = target(f)]
      err == IF b.err # "" THEN b.err ELSE IF b.brace # <<>> THEN "brace"
             ELSE IF \E i \in DOMAIN b.fixups : b.fixups[i].name # "" /\ named(b.fixups[i]) = {} THEN "label" ELSE ""
  IN  [cmds |-> IF err # "" THEN <<>> ELSE FoldLeft(fix, b.cmds, b.fixups), wfiles |-> b.wfiles, err |-> err]

-----------------------------------------------------------------------------
(* The state of a run: the input not read yet and the line read ahead, the *)
(* spaces, what was written, and per command its range.                    *)
sed_state_new(prog, lines, quiet) ==
  [prog |-> prog.cmds, rest |-> lines, next |-> <<>>, pat |-> <<>>, hold |-> <<>>, lineno |-> 0, nl |-> FALSE, last |-> FALSE,
   supp |-> FALSE, tflag |-> FALSE, lre |-> <<>>, pend |-> <<>>, quit |-> FALSE, status |-> 0, out |-> <<>>,
   w |-> [i \in DOMAIN prog.wfiles |-> <<>>], names |-> prog.wfiles, in |-> {}, upto |-> [i \in DOMAIN prog.cmds |-> 0],
   pc |-> 1, quiet |-> quiet, steps |-> 0, restart |-> FALSE]
Emit(st, text) == [st EXCEPT !.out = @ \o text]
NL == <<"nl">>
pending_drain(st) ==
  LET item(p) == IF ~p.file THEN p.text \o NL ELSE IF p.name \in DOMAIN Files THEN Files[p.name] ELSE <<>>
  IN  [Emit(st, FlattenSeq([i \in DOMAIN st.pend |-> item(st.pend[i])])) EXCEPT !.pend = <<>>]
sed_pending_push(st, file, arg) == [st EXCEPT !.pend = Append(@, [file |-> file, text |-> arg.text, name |-> arg.name])]
sed_out_pattern(st) == Emit(st, st.pat \o (IF st.nl THEN NL ELSE <<>>))
Decimal(n) == <<ToString(n)>>                          \* one digit here
sed_out_lineno(st) == Emit(st, Decimal(st.lineno) \o NL)
sed_out_wfile_line(st, name) == LET i == CHOOSE j \in DOMAIN st.names : st.names[j] = name IN [st EXCEPT !.w[i] = @ \o st.pat \o NL]
find_nl(s) == IF "nl" \in Range(s) THEN CHOOSE i \in DOMAIN s : s[i] = "nl" /\ ~Contains(SubSeq(s, 1, i - 1), "nl") ELSE Len(s) + 1
(* l: escapes, folded to a width (0: not at all), a $ at the end.          *)
Piece(c) == IF c = "nl" THEN <<"\\", "n">> ELSE IF c = "\\" THEN <<"\\", "\\">> ELSE IF c = "del" THEN <<"\\", "1", "7", "7">> ELSE <<c>>
FoldPiece(a, c, width) ==
  LET p == Piece(c)
      full == width > 0 /\ a.col + Len(p) > width - 1
  IN  [out |-> (IF full THEN a.out \o <<"\\", "nl">> ELSE a.out) \o p, col |-> (IF full THEN 0 ELSE a.col) + Len(p)]
sed_do_list(s, width) == FoldLeft(LAMBDA a, c : FoldPiece(a, c, width), [out |-> <<>>, col |-> 0], s).out \o <<"$", "nl">>

(* One line into the pattern space (append: behind what is there), and the *)
(* next one read ahead to know whether this is the last.                   *)
read(st) == IF st.rest = <<>> THEN st ELSE [st EXCEPT !.next = <<Head(st.rest)>>, !.rest = Tail(@)]
(* What a mutated fetch_line would do: the line read ahead is forgotten    *)
(* when it asks whether this one is the last.                              *)
fetch_line_early(st, append) ==
  LET a == IF st.next = <<>> THEN read(st) ELSE st
      line == a.next[1]
      b == read([a EXCEPT !.next = <<>>])
  IN  IF a.next = <<>> THEN [a EXCEPT !.quit = TRUE]
      ELSE [b EXCEPT !.pat = IF append THEN @ \o NL \o line.t ELSE line.t, !.nl = line.nl, !.last = b.rest = <<>>, !.lineno = @ + 1]
fetch_line(st, append) ==
  LET a == IF st.next = <<>> THEN read(st) ELSE st
      line == a.next[1]
      b == read([a EXCEPT !.next = <<>>])
  IN  IF a.next = <<>> THEN [a EXCEPT !.quit = TRUE]
      ELSE [b EXCEPT !.pat = IF append THEN @ \o NL \o line.t ELSE line.t, !.nl = line.nl, !.last = b.next = <<>>, !.lineno = @ + 1]

(* [m, lre]: whether the address holds, and the last regex used.           *)
sed_addr_match(a, st) ==
  LET re == IF a.re # <<>> THEN a.re ELSE st.lre
      is(b) == [m |-> b, lre |-> st.lre]
  IN  CASE a.k = "line" -> is(st.lineno = a.n)
        [] a.k = "last" -> is(st.last)
        [] a.k = "step" -> is(IF a.step = 0 THEN st.lineno = a.n ELSE st.lineno >= a.n /\ (st.lineno - a.n) % a.step = 0)
        [] a.k = "regex" -> IF re = <<>> THEN is(FALSE) ELSE [m |-> Re!dfa_search(Compiled[re], st.pat, 1).ok, lre |-> re]
        [] OTHER -> is(FALSE)
(* [m, st]: whether command st.pc is selected, with its range carried on.  *)
sed_range_match(st) ==
  LET c == st.prog[st.pc]
      zero == c.a1.k = "line" /\ c.a1.n = 0 /\ c.a2.k = "regex" /\ st.lineno = 1
      in == st.pc \in st.in \/ (naddr(c) = 2 /\ zero)
      a1 == sed_addr_match(c.a1, st)
      a2 == sed_addr_match(c.a2, st)
      next == st.lineno - (st.lineno % c.a2.step) + c.a2.step
      atonce == CASE c.a2.k = "line" -> c.a2.n <= st.lineno [] c.a2.k = "last" -> st.last
                  [] c.a2.k = "mult" -> c.a2.step = 0 [] OTHER -> FALSE
      close == CASE c.a2.k = "line" -> st.lineno >= c.a2.n [] c.a2.k = "last" -> st.last
                 [] c.a2.k = "mult" -> st.lineno >= st.upto[st.pc] [] OTHER -> a2.m
      opened == [st EXCEPT !.lre = a1.lre, !.in = IF a1.m /\ ~atonce THEN @ \cup {st.pc} ELSE @ \ {st.pc},
                           !.upto[st.pc] = IF a1.m /\ c.a2.k = "mult" /\ c.a2.step > 0 THEN next ELSE @]
      kept == [st EXCEPT !.lre = IF c.a2.k = "regex" THEN a2.lre ELSE @, !.in = IF close THEN @ \ {st.pc} ELSE @ \cup {st.pc}]
      r == IF naddr(c) = 0 THEN [m |-> TRUE, st |-> st]
           ELSE IF naddr(c) = 1 THEN [m |-> a1.m, st |-> [st EXCEPT !.lre = a1.lre]]
           ELSE IF ~in THEN [m |-> a1.m, st |-> opened] ELSE [m |-> TRUE, st |-> kept]
  IN  [r EXCEPT !.m = @ # c.neg]
sed_subst_exec(st, s) ==
  LET re == IF s.re # <<>> THEN s.re ELSE st.lre
      r == Re!dfa_replace(Compiled[re], Re!dfa_repl_compile(s.to), st.pat, s.n, s.global)
  IN  IF re = <<>> THEN [ok |-> FALSE, st |-> st]
      ELSE IF r.n = 0 THEN [ok |-> FALSE, st |-> [st EXCEPT !.lre = re]]
      ELSE [ok |-> TRUE, st |-> [st EXCEPT !.lre = re, !.pat = r.out, !.tflag = TRUE]]
subst(st, s) ==
  LET r == sed_subst_exec(st, s)
      p == IF r.ok /\ s.print THEN sed_out_pattern(r.st) ELSE r.st
  IN  IF r.ok /\ s.name # "" THEN sed_out_wfile_line(p, s.name) ELSE p

y_map(arg, c) ==               \* the last of several mentions counts
  LET at == {j \in DOMAIN arg.re : arg.re[j] = c} IN IF at = {} THEN c ELSE arg.to[CHOOSE j \in at : \A k \in at : k <= j]

(* The commands that only change the spaces or write.                      *)
Edits == {"=", "a", "i", "g", "G", "h", "H", "l", "p", "P", "z", "r", "s", "w", "x", "y", ":", "{"}
edit(st, l, arg) ==
  CASE l = "=" -> sed_out_lineno(st)
    [] l = "a" -> sed_pending_push(st, FALSE, arg)
    [] l = "r" -> sed_pending_push(st, TRUE, arg)
    [] l = "i" -> Emit(st, arg.text \o NL)
    [] l = "g" -> [st EXCEPT !.pat = st.hold]
    [] l = "G" -> [st EXCEPT !.pat = @ \o NL \o st.hold]
    [] l = "h" -> [st EXCEPT !.hold = st.pat]
    [] l = "H" -> [st EXCEPT !.hold = @ \o NL \o st.pat]
    [] l = "x" -> [st EXCEPT !.pat = st.hold, !.hold = st.pat]
    [] l = "z" -> [st EXCEPT !.pat = <<>>]
    [] l = "l" -> Emit(st, sed_do_list(st.pat, arg.n))
    [] l = "p" -> sed_out_pattern(st)
    [] l = "P" -> Emit(st, SubSeq(st.pat, 1, find_nl(st.pat) - 1) \o NL)
    [] l = "s" -> subst(st, arg)
    [] l = "w" -> sed_out_wfile_line(st, arg.name)
    [] l = "y" -> [st EXCEPT !.pat = SubSeq([i \in DOMAIN @ |-> y_map(arg, @[i])], 1, Len(@))]
    [] OTHER -> st
rest_of(s) == SubSeq(s, find_nl(s) + 1, Len(s))
end_cycle(st, supp, quit, status) ==
  LET printed == IF ~supp /\ ~st.quiet THEN sed_out_pattern(st) ELSE st
  IN  [pending_drain(printed) EXCEPT !.quit = quit, !.status = status, !.pc = 0]
RECURSIVE run_one_cycle(_)
run_one_cycle(s0) ==
  LET c == s0.prog[s0.pc]
      r == sed_range_match(s0)
      st == [r.st EXCEPT !.steps = @ + 1]
      on(x) == run_one_cycle([x EXCEPT !.pc = @ + 1])
      to(x, pc) == run_one_cycle([x EXCEPT !.pc = pc])
      fires == naddr(c) < 2 \/ c.neg \/ st.pc \notin st.in
      line(x) == IF c.l = "N" THEN fetch_line(x, TRUE)
                 ELSE fetch_line(pending_drain(IF x.quiet THEN x ELSE sed_out_pattern(x)), FALSE)
  IN  IF s0.steps > MaxSedSteps THEN s0
      ELSE IF s0.pc > Len(s0.prog) THEN end_cycle(s0, FALSE, FALSE, 0)
      ELSE IF ~r.m THEN to(st, IF c.l = "{" THEN c.jump ELSE st.pc + 1)
      ELSE CASE c.l \in Edits -> on(edit(st, c.l, c.arg))
             [] c.l = "c" -> end_cycle([IF fires THEN Emit(st, c.arg.text \o NL) ELSE st EXCEPT !.pat = <<>>], TRUE, FALSE, 0)
             [] c.l = "d" -> end_cycle(st, TRUE, FALSE, 0)
             [] c.l = "D" -> IF find_nl(st.pat) > Len(st.pat) THEN end_cycle(st, TRUE, FALSE, 0)
                             ELSE to([st EXCEPT !.pat = rest_of(@)], 1)
             [] c.l \in {"n", "N"} -> LET f == line(st) IN IF f.quit THEN end_cycle(f, TRUE, TRUE, 0) ELSE on(f)
             [] c.l \in {"q", "Q"} -> end_cycle(st, c.l = "Q", TRUE, c.arg.n)
             [] c.l = "b" -> to(st, c.jump)
             [] c.l = "t" -> IF st.tflag THEN to([st EXCEPT !.tflag = FALSE], c.jump) ELSE on(st)
             [] c.l = "T" -> IF st.tflag THEN on([st EXCEPT !.tflag = FALSE]) ELSE to(st, c.jump)
RECURSIVE sed_run(_)
sed_run(st) ==
  LET f == fetch_line(st, FALSE)
      c == run_one_cycle([f EXCEPT !.tflag = FALSE, !.pc = 1])
  IN  IF f.quit THEN [f EXCEPT !.quit = FALSE] ELSE IF c.quit \/ c.steps > MaxSedSteps THEN c ELSE sed_run(c)

-----------------------------------------------------------------------------
(* What a script means: its text is walked, a command that is not selected *)
(* passed over, with a { all up to its }, a label looked up where it is    *)
(* named; the last line is the one with nothing behind it.  An r extends   *)
(* the state by from: the line each range was opened on, -1 if it is not   *)
(* open.                                                                   *)
Depth(script, i, j) == Len(SelectSeq(SubSeq(script, i, j), LAMBDA c : c.l = "{")) - Len(SelectSeq(SubSeq(script, i, j), LAMBDA c : c.l = "}"))
Partner(script, i) == CHOOSE j \in i..Len(script) : Depth(script, i, j) = 0 /\ \A k \in i..j - 1 : Depth(script, i, k) > 0
Labelled(script, name) == {j \in DOMAIN script : script[j].l = ":" /\ script[j].arg.name = name}
Goto(script, name) == IF name = "" THEN Len(script) + 1 ELSE CHOOSE j \in Labelled(script, name) : \A k \in Labelled(script, name) : j <= k
WellFormed(script) ==
  /\ Depth(script, 1, Len(script)) = 0 /\ \A i \in DOMAIN script : Depth(script, 1, i) \in 0..SED_MAXNEST
  /\ \A i \in DOMAIN script : LET c == script[i] IN
       /\ c.l = "}" => naddr(c) = 0 /\ ~c.neg
       /\ naddr(c) <= max_addr(c.l)
       /\ c.l \in {"b", "t", "T"} /\ c.arg.name # "" => Labelled(script, c.arg.name) # {}
       /\ c.l = "y" => Len(c.arg.re) = Len(c.arg.to)
(* A range goes on until a line that ends it: never the one it was opened  *)
(* on for a regular expression, or the same one for a number passed.       *)
Over(c, from, x, m2) ==
  CASE c.a2.k = "line" -> x.lineno >= c.a2.n
    [] c.a2.k = "last" -> x.rest = <<>>
    [] c.a2.k = "regex" -> from # x.lineno /\ m2
    [] c.a2.k = "mult" -> c.a2.step = 0 \/ (x.lineno > from /\ \E n \in from + 1..x.lineno : n % c.a2.step = 0)
Selects(script, x) ==
  LET c == script[x.pc]
      y == [x EXCEPT !.last = x.rest = <<>>]
      a1 == sed_addr_match(c.a1, y)
      first == c.a1.k = "line" /\ c.a1.n = 0 /\ c.a2.k = "regex" /\ x.lineno = 1
      from == IF x.from[x.pc] >= 0 THEN x.from[x.pc] ELSE IF first THEN 0 ELSE x.lineno
      open == x.from[x.pc] >= 0 \/ first
      tests2 == open /\ c.a2.k = "regex"
      a2 == sed_addr_match(c.a2, y)
      over == Over(c, from, y, tests2 /\ a2.m)
      lre == IF naddr(c) = 0 THEN x.lre ELSE IF tests2 THEN a2.lre ELSE IF open THEN x.lre ELSE a1.lre
      in == naddr(c) = 0 \/ open \/ a1.m
  IN  [m |-> in # c.neg,
       st |-> [y EXCEPT !.lre = lre, !.from[x.pc] = IF naddr(c) = 2 /\ in /\ ~over THEN from ELSE -1]]
(* One more line; what a and r have queued goes out before it is read.     *)
(* early notes that an N met such a queue, which run_one_cycle keeps.      *)
Another(x, l) ==
  LET p == IF l = "n" /\ ~x.quiet THEN sed_out_pattern(x) ELSE x
      q == pending_drain([p EXCEPT !.early = @ \/ (l = "N" /\ p.pend # <<>>)])
      t == Head(q.rest)
  IN  [q EXCEPT !.pat = IF l = "N" THEN @ \o NL \o t.t ELSE t.t, !.nl = t.nl, !.rest = Tail(@), !.lineno = @ + 1]
RECURSIVE Means(_, _)
Means(script, x0) ==
  LET c == script[x0.pc]
      s == Selects(script, x0)
      x == [s.st EXCEPT !.steps = @ + 1]
      at(y, pc) == Means(script, [y EXCEPT !.pc = pc])
      on(y) == at(y, y.pc + 1)
      (* the end of a cycle, and the next one *)
      over(y, prints) ==
        LET d == pending_drain(IF prints /\ ~y.quiet THEN sed_out_pattern(y) ELSE y)
        IN  IF d.quit \/ d.rest = <<>> THEN d
            ELSE at([d EXCEPT !.pat = Head(d.rest).t, !.nl = Head(d.rest).nl, !.rest = Tail(@), !.lineno = @ + 1, !.tflag = FALSE], 1)
      last == naddr(c) < 2 \/ c.neg \/ x.from[x.pc] < 0
  IN  IF x0.steps > 2 * MaxSedSteps THEN x0
      ELSE IF x0.pc > Len(script) THEN over(x0, TRUE)
      ELSE IF ~s.m THEN at(x, IF c.l = "{" THEN Partner(script, x.pc) + 1 ELSE x.pc + 1)
      ELSE CASE c.l \in Edits -> on(edit(x, c.l, c.arg))
             [] c.l = "}" -> on(x)
             [] c.l = "c" -> over(IF last THEN Emit(x, c.arg.text \o NL) ELSE x, FALSE)
             [] c.l = "d" \/ (c.l = "D" /\ "nl" \notin Range(x.pat)) -> over(x, FALSE)
             [] c.l = "D" /\ "nl" \in Range(x.pat) -> at([x EXCEPT !.pat = rest_of(@)], 1)
             [] c.l = "N" /\ x.rest = <<>> -> over([x EXCEPT !.quit = TRUE], FALSE)
             [] c.l = "n" /\ x.rest = <<>> -> over([x EXCEPT !.quit = TRUE], TRUE)
             [] c.l \in {"n", "N"} /\ x.rest # <<>> -> on(Another(x, c.l))
             [] c.l \in {"q", "Q"} -> over([x EXCEPT !.quit = TRUE, !.status = c.arg.n], c.l = "q")
             [] c.l = "b" -> at(x, Goto(script, c.arg.name))
             [] c.l \in {"t", "T"} -> IF x.tflag = (c.l = "t") THEN at([x EXCEPT !.tflag = FALSE], Goto(script, c.arg.name)) ELSE on([x EXCEPT !.tflag = FALSE])
Meaning(script, lines, quiet) ==
  LET x == sed_state_new(sed_parse(script), lines, quiet) @@ [from |-> SubSeq([i \in DOMAIN script |-> -1], 1, Len(script)), early |-> FALSE]
  IN  IF lines = <<>> THEN x
      ELSE Means(script, [x EXCEPT !.pat = Head(lines).t, !.nl = Head(lines).nl, !.rest = Tail(lines), !.lineno = 1])
=============================================================================
