------------------------------- MODULE Filters ------------------------------
(***************************************************************************)
(* Builtin filters chained inside the shell (src/filter, fd/fd_filter.c,   *)
(* builtin/filter and the chain of eval/eval_pipeline.c): each stage pulls *)
(* its input from the stage before it, one unit at a time, instead of      *)
(* through a process and a pipe.                                           *)
(*                                                                         *)
(* A text is a sequence of units, "nl" ends a line.  The world is          *)
(* [src, link, st]: the reads the shell's standard input still gives, the  *)
(* window of each link (link[0]: standard input's buffer, link[j]: the     *)
(* unit stage j yielded last), and the contexts of the stages.  A context  *)
(* has the fields of struct filter_in, and in x those of its own.          *)
(***************************************************************************)
EXTENDS Naturals, SequencesExt, FiniteSets, TLC

CONSTANTS FileText,          \* the files: name -> text; any other name cannot be opened
          RawSize            \* sizeof(struct cat.raw)

Command(name, flags, n, files) == [name |-> name, flags |-> flags, n |-> n, files |-> files]
Monus(a, b) == IF a > b THEN a - b ELSE 0
Least(a, b) == IF a < b THEN a ELSE b

-----------------------------------------------------------------------------
(* Contexts: filter_init() and the setup() of each filter.                 *)
NoState == [line |-> 1, bol |-> TRUE, blank |-> FALSE, left |-> 0, started |-> FALSE, all |-> <<>>, count |-> 0, have |-> FALSE,
            prev |-> <<>>, open |-> FALSE, skip |-> 0, buf |-> <<>>, head |-> <<>>, lineno |-> 1, matches |-> 0, nsel |-> 0,
            pending |-> FALSE, name |-> "-", had_match |-> FALSE, done |-> FALSE, closing |-> FALSE]
grep_setup(c) == [NoState EXCEPT !.done = "m" \in c.flags /\ c.n = 0]
filter_init(c) ==
  [c |-> c, i |-> 0, done_any |-> FALSE, had_error |-> FALSE, newfile |-> FALSE, cur |-> "none", win |-> <<>>, spill |-> <<>>,
   spilling |-> FALSE, empty |-> FALSE, keepempty |-> c.name \in {"head", "tail"},
   x |-> IF c.name = "grep" THEN grep_setup(c) ELSE NoState]
Has(s, o) == o \in s.c.flags
Put(w, k, s) == [w EXCEPT !.st[k] = s]

(* The bytes buffered in the active source, and consuming n of them.       *)
Window(w, k) == IF w.st[k].cur = "file" THEN w.st[k].win ELSE w.link[k - 1]
Rest(t, n) == SubSeq(t, n + 1, Len(t))
filter_in_skip(w, k, n) ==
  CASE w.st[k].cur = "file" -> [w EXCEPT !.st[k].win = Rest(@, n)]
    [] w.st[k].cur = "up" -> [w EXCEPT !.link[k - 1] = Rest(@, n)]
    [] OTHER -> w
filter_in_name(s) == IF s.c.files = <<>> THEN "-" ELSE s.c.files[s.i]
(* What a mutated filter_in_close would do: it drops the line being        *)
(* collected.                                                              *)
CloseDrops(s) == [s EXCEPT !.cur = "none", !.win = <<>>, !.spill = <<>>]
filter_in_close(s) == [s EXCEPT !.cur = "none", !.win = <<>>, !.spill = IF s.spilling THEN @ ELSE <<>>]
Closed(w, k) == Put(w, k, filter_in_close(w.st[k]))

RECURSIVE filter_in_next(_)
filter_in_next(s) ==
  LET c == filter_in_close(s)
      n == [c EXCEPT !.i = IF c.c.files = <<>> THEN 0 ELSE @ + 1, !.done_any = TRUE, !.newfile = TRUE]
      name == IF c.c.files = <<>> THEN "-" ELSE c.c.files[n.i]
  IN  CASE IF c.c.files = <<>> THEN c.done_any ELSE c.i = Len(c.c.files) -> [ok |-> FALSE, s |-> c]
        [] OTHER -> CASE name = "-" -> [ok |-> TRUE, s |-> [n EXCEPT !.cur = "up"]]
                      [] name \in DOMAIN FileText -> [ok |-> TRUE, s |-> [n EXCEPT !.cur = "file", !.win = FileText[name]]]
                      [] OTHER -> filter_in_next([n EXCEPT !.had_error = TRUE])

(* A link whose window is empty takes the next unit that is not.           *)
RECURSIVE step(_, _)
RECURSIVE fd_filter_op(_, _)
fd_filter_op(w, j) ==
  LET r == step(w, j)
  IN  IF ~r.more THEN r.w ELSE IF r.unit = <<>> THEN fd_filter_op(r.w, j) ELSE [r.w EXCEPT !.link[j] = r.unit]
buffer_feed(w, k) ==
  CASE w.st[k].cur = "file" \/ Window(w, k) # <<>> -> w
    [] w.st[k].cur = "up" /\ Window(w, k) = <<>> /\ k = 1 ->
         IF w.src = <<>> THEN w ELSE [w EXCEPT !.link[0] = Head(w.src), !.src = Tail(w.src)]
    [] OTHER -> fd_filter_op(w, k - 1)
RECURSIVE ReadyFrom(_, _)
ReadyFrom(w, k) ==
  LET s == w.st[k]
      n == IF s.cur = "none" THEN filter_in_next(s) ELSE [ok |-> TRUE, s |-> s]
      f == buffer_feed(Put(w, k, n.s), k)
  IN  CASE ~n.ok -> [ok |-> FALSE, w |-> Put(w, k, n.s)]
        [] n.ok -> IF Window(f, k) # <<>> THEN [ok |-> TRUE, w |-> f]
                   ELSE IF s.keepempty /\ n.s.newfile THEN [ok |-> TRUE, w |-> [f EXCEPT !.st[k].empty = TRUE]]
                   ELSE ReadyFrom(Closed(f, k), k)
filter_in_ready(w, k) == ReadyFrom([w EXCEPT !.st[k].empty = FALSE], k)

-----------------------------------------------------------------------------
(* Reading: [w, ok, p] and for a line whether a newline ended it.          *)
filter_in_peek(w, k) ==
  LET r == filter_in_ready(w, k) IN [w |-> r.w, ok |-> r.ok, p |-> IF r.ok THEN Window(r.w, k) ELSE <<>>]
NewlineAt(t) == SelectInSeq(t, LAMBDA u : u = "nl")
RECURSIVE filter_in_peek_lines(_, _)
filter_in_peek_lines(t, lines) ==
  LET e == NewlineAt(t) IN
  IF lines = 0 \/ t = <<>> THEN [n |-> 0, left |-> lines] ELSE IF e = 0 THEN [n |-> Len(t), left |-> lines]
  ELSE LET r == filter_in_peek_lines(Rest(t, e), lines - 1) IN [r EXCEPT !.n = @ + e]
filter_in_spill(w, k, t) == [w EXCEPT !.st[k].spill = @ \o t]
RECURSIVE LineFrom(_, _)
LineFrom(w, k) ==
  LET s == w.st[k]
      r == filter_in_ready([w EXCEPT !.st[k].spilling = s.spill # <<>>], k)
      a == [r.w EXCEPT !.st[k].spilling = FALSE]
      t == Window(a, k)
      e == NewlineAt(t)
      ended == s.spill # <<>> /\ (~r.ok \/ a.st[k].i # s.i)
  IN  CASE ended -> [w |-> a, ok |-> TRUE, p |-> a.st[k].spill, nl |-> FALSE]
        [] ~ended /\ ~r.ok -> [w |-> a, ok |-> FALSE, p |-> <<>>, nl |-> FALSE]
        [] OTHER -> IF e # 0
                    THEN [w |-> filter_in_skip(a, k, e), ok |-> TRUE, p |-> a.st[k].spill \o SubSeq(t, 1, e - 1), nl |-> TRUE]
                    ELSE LineFrom(filter_in_skip(filter_in_spill(a, k, t), k, Len(t)), k)
filter_in_line(w, k) == LineFrom([w EXCEPT !.st[k].spill = <<>>], k)
(* At most RawSize units of one operand, up to a newline.                  *)
RECURSIVE GetUntil(_, _, _)
GetUntil(w, k, got) ==
  LET f == buffer_feed(w, k)
      u == Window(f, k)[1]
      all == Append(got, u)
      g == filter_in_skip(f, k, 1)
  IN  IF Window(f, k) = <<>> THEN [w |-> f, p |-> got]
      ELSE IF u = "nl" \/ Len(all) = RawSize THEN [w |-> g, p |-> all] ELSE GetUntil(g, k, all)
filter_in_get(w, k) ==
  LET r == filter_in_ready(w, k) IN IF r.ok THEN GetUntil(r.w, k, <<>>) ELSE [w |-> r.w, p |-> <<>>]

-----------------------------------------------------------------------------
(* The filters.  A step is [w, more, unit]; Own sets fields of x.          *)
Yield(w, k, x, unit) == [w |-> [w EXCEPT !.st[k].x = x], more |-> TRUE, unit |-> unit]
End(w, k, x) == [w |-> [w EXCEPT !.st[k].x = x], more |-> FALSE, unit |-> <<>>]
Number(n) == <<ToString(n)>>

RECURSIVE cat_step(_, _)
cat_step(w, k) ==
  LET g == filter_in_get(w, k)
      s == g.w.st[k]
      x == s.x
      empty == g.p = <<"nl">>
      again == Has(s, "s") /\ x.bol /\ empty /\ x.blank
      numbered == x.bol /\ (Has(s, "n") \/ (Has(s, "b") /\ Len(g.p) > 1))
      shown == IF Has(s, "E") /\ Last(g.p) = "nl" THEN Front(g.p) \o <<"$", "nl">> ELSE g.p
      y == [x EXCEPT !.blank = IF x.bol THEN Has(s, "s") /\ empty ELSE @, !.line = IF numbered THEN @ + 1 ELSE @, !.bol = Last(g.p) = "nl"]
  IN  CASE g.p = <<>> -> End(g.w, k, x)
        [] g.p # <<>> /\ again -> cat_step([g.w EXCEPT !.st[k].newfile = FALSE], k)
        [] OTHER -> Yield([g.w EXCEPT !.st[k].newfile = FALSE], k, y, (IF numbered THEN Number(x.line) ELSE <<>>) \o shown)

ShowsNames(s) == Len(s.c.files) > 1
Header(s, started) == IF ~ShowsNames(s) THEN <<>> ELSE (IF started THEN <<"nl">> ELSE <<>>) \o <<"==>", filter_in_name(s), "<==", "nl">>
(* The text without its last n lines.                                      *)
RECURSIVE Without(_, _)
Without(t, n) ==
  LET ends == {i \in 1..(Len(t) - 1) : t[i] = "nl"}
  IN  IF n = 0 \/ t = <<>> THEN t
      ELSE Without(IF ends = {} THEN <<>> ELSE SubSeq(t, 1, CHOOSE e \in ends : \A d \in ends : d <= e), n - 1)
RECURSIVE Rested(_, _, _)
Rested(w, k, all) ==
  LET p == filter_in_peek(w, k)
  IN  IF p.p # <<>> /\ ~p.w.st[k].newfile THEN Rested(filter_in_skip(p.w, k, Len(p.p)), k, all \o p.p) ELSE [w |-> p.w, all |-> all]
RECURSIVE head_step(_, _)
head_step(w, k) ==
  LET p == filter_in_peek(w, k)
      s == p.w.st[k]
      x == IF s.newfile THEN [s.x EXCEPT !.left = s.c.n, !.started = TRUE] ELSE s.x
      header == IF s.newfile THEN Header(s, s.x.started) ELSE <<>>
      v == [p.w EXCEPT !.st[k].newfile = FALSE, !.st[k].x = x]
      rest == Rested(filter_in_skip(v, k, Len(p.p)), k, p.p)
      keep == IF Has(s, "c") THEN SubSeq(rest.all, 1, Monus(Len(rest.all), s.c.n)) ELSE Without(rest.all, s.c.n)
      some == IF Has(s, "c") THEN [n |-> Least(Len(p.p), x.left), left |-> Monus(x.left, Len(p.p))] ELSE filter_in_peek_lines(p.p, x.left)
  IN  CASE ~p.ok -> End(p.w, k, s.x)
        [] p.ok /\ header # <<>> -> Yield(v, k, x, header)
        [] p.ok /\ header = <<>> /\ p.p = <<>> -> head_step(Closed(v, k), k)
        [] OTHER -> IF Has(s, "neg") THEN (IF keep = <<>> THEN head_step(rest.w, k) ELSE Yield(rest.w, k, rest.w.st[k].x, keep))
                    ELSE IF x.left = 0 THEN head_step(Closed(v, k), k)
                    ELSE Yield(filter_in_skip(v, k, some.n), k, [x EXCEPT !.left = some.left], SubSeq(p.p, 1, some.n))

(* The last count lines, or bytes; an unterminated last line is a line.    *)
RECURSIVE DropLines(_, _)
DropLines(t, n) == IF n = 0 \/ t = <<>> THEN t ELSE IF NewlineAt(t) = 0 THEN <<>> ELSE DropLines(Rest(t, NewlineAt(t)), n - 1)
Newlines(t) == Len(SelectSeq(t, LAMBDA u : u = "nl"))
tail_trim(s, t) ==
  IF Has(s, "c") THEN Rest(t, Monus(Len(t), s.c.n))
  ELSE DropLines(t, Monus(Newlines(t) + (IF t # <<>> /\ Last(t) # "nl" THEN 1 ELSE 0), s.c.n))
tail_done(s) == s.x.head \o tail_trim(s, s.x.buf)
RECURSIVE tail_step(_, _)
tail_step(w, k) ==
  LET p == filter_in_peek(w, k)
      s == p.w.st[k]
      x == s.x
      shut == [x EXCEPT !.open = FALSE, !.buf = <<>>, !.started = TRUE]
      plus == Has(s, "plus")
      show == x.open /\ ~plus
      y == [(IF show THEN shut ELSE x) EXCEPT !.open = TRUE, !.skip = Monus(s.c.n, 1), !.started = TRUE]
      header == Header(s, (IF show THEN shut ELSE x).started)
      v == [p.w EXCEPT !.st[k].newfile = FALSE, !.st[k].x = [y EXCEPT !.head = IF plus THEN <<>> ELSE header]]
      eaten == IF Has(s, "c") THEN [n |-> Least(Len(p.p), x.skip), left |-> Monus(x.skip, Len(p.p))] ELSE filter_in_peek_lines(p.p, x.skip)
  IN  CASE ~p.ok -> IF show /\ tail_done(s) # <<>> THEN Yield(p.w, k, shut, tail_done(s)) ELSE End(p.w, k, [x EXCEPT !.open = FALSE])
        [] p.ok /\ s.newfile ->
             IF show /\ tail_done(s) # <<>> THEN Yield(p.w, k, shut, tail_done(s))
             ELSE IF plus /\ header # <<>> THEN [w |-> v, more |-> TRUE, unit |-> header] ELSE tail_step(v, k)
        [] p.ok /\ ~s.newfile /\ p.p = <<>> -> tail_step(Closed(p.w, k), k)
        [] OTHER -> IF ~plus THEN tail_step(filter_in_skip([p.w EXCEPT !.st[k].x.buf = @ \o p.p], k, Len(p.p)), k)
                    ELSE IF x.skip # 0 THEN tail_step(filter_in_skip([p.w EXCEPT !.st[k].x.skip = eaten.left], k, eaten.n), k)
                    ELSE Yield(filter_in_skip(p.w, k, Len(p.p)), k, x, p.p)

(* The group of equal lines that is complete, if it is wanted.             *)
uniq_format(s) ==
  LET x == s.x
      d == Has(s, "d") /\ x.count > 1
      u == Has(s, "u") /\ x.count = 1
  IN  IF ~x.have \/ (("d" \in s.c.flags \/ "u" \in s.c.flags) /\ ~d /\ ~u) THEN <<>>
      ELSE (IF Has(s, "c") THEN Number(x.count) ELSE <<>>) \o x.prev \o <<"nl">>
RECURSIVE uniq_step(_, _)
uniq_step(w, k) ==
  LET l == filter_in_line(w, k)
      s == l.w.st[k]
      out == uniq_format(s)
      begun == [s.x EXCEPT !.prev = l.p, !.count = 1, !.have = TRUE]
  IN  CASE ~l.ok -> IF out # <<>> THEN Yield(l.w, k, [s.x EXCEPT !.have = FALSE], out) ELSE End(l.w, k, [s.x EXCEPT !.have = FALSE])
        [] l.ok /\ s.x.have /\ s.x.prev = l.p -> uniq_step([l.w EXCEPT !.st[k].x.count = @ + 1], k)
        [] OTHER -> IF out # <<>> THEN Yield(l.w, k, begun, out) ELSE uniq_step([l.w EXCEPT !.st[k].x = begun], k)

(* -f n with "," between fields; n is a field, "to": and all after it.     *)
RECURSIVE FieldsOf(_)
FieldsOf(t) ==
  LET e == SelectInSeq(t, LAMBDA u : u = ",") IN IF e = 0 THEN <<t>> ELSE <<SubSeq(t, 1, e - 1)>> \o FieldsOf(Rest(t, e))
RECURSIVE Joined(_)
Joined(fs) == IF fs = <<>> THEN <<>> ELSE IF Len(fs) = 1 THEN fs[1] ELSE fs[1] \o <<",">> \o Joined(Tail(fs))
cut_fields(s, t) ==
  LET fs == FieldsOf(t) IN
  Joined(IF Has(s, "to") THEN SubSeq(fs, s.c.n, Len(fs)) ELSE IF s.c.n <= Len(fs) THEN <<fs[s.c.n]>> ELSE <<>>)
RECURSIVE cut_step(_, _)
cut_step(w, k) ==
  LET l == filter_in_line(w, k)
      s == l.w.st[k]
      plain == Len(FieldsOf(l.p)) = 1
  IN  CASE ~l.ok -> End(l.w, k, s.x)
        [] l.ok /\ plain /\ Has(s, "s") -> cut_step(l.w, k)
        [] OTHER -> Yield(l.w, k, s.x, Append(IF plain THEN l.p ELSE cut_fields(s, l.p), "nl"))

(* The pattern is "a".  The count or the name owed for the operand before. *)
grep_test(t) == Contains(t, "a")
grep_select(s, t) == grep_test(t) # Has(s, "v")
Owed(s) ==
  CASE Has(s, "c") /\ s.x.pending -> (IF ShowsNames(s) THEN <<s.x.name, ":">> ELSE <<>>) \o Number(s.x.matches) \o <<"nl">>
    [] Has(s, "L") /\ s.x.pending /\ s.x.matches = 0 -> <<s.x.name, "nl">>
    [] OTHER -> <<>>
Prefix(s, lineno) ==
  (IF ShowsNames(s) THEN <<filter_in_name(s), ":">> ELSE <<>>) \o (IF Has(s, "n") THEN Number(lineno) \o <<":">> ELSE <<>>)
RECURSIVE grep_lines(_, _)
grep_lines(w, k) ==
  LET l == filter_in_line(w, k)
      s == l.w.st[k]
      due == IF s.newfile THEN Owed(s) ELSE <<>>
      x == IF s.newfile THEN [s.x EXCEPT !.lineno = 2, !.nsel = 0, !.name = filter_in_name(s), !.pending = TRUE, !.matches = 0]
           ELSE [s.x EXCEPT !.lineno = @ + 1]
      v == [l.w EXCEPT !.st[k].newfile = FALSE, !.st[k].x = x]
      m == [x EXCEPT !.had_match = TRUE]
      full == Has(s, "m") /\ x.nsel + 1 >= s.c.n
      counted == [m EXCEPT !.nsel = @ + 1, !.matches = @ + 1]
      After(u, y) == IF due # <<>> THEN Yield(u, k, y, due) ELSE grep_lines([u EXCEPT !.st[k].x = y], k)
  IN  CASE ~l.ok ->
             LET y == [s.x EXCEPT !.pending = FALSE, !.matches = 0] IN
             IF Owed(s) # <<>> /\ ~Has(s, "q") THEN Yield(l.w, k, y, Owed(s)) ELSE End(l.w, k, y)
        [] l.ok /\ ~grep_select(s, l.p) -> After(v, x)
        [] OTHER -> CASE Has(s, "L") -> After(Closed(v, k), [m EXCEPT !.matches = 1])
                      [] ~Has(s, "L") /\ Has(s, "q") -> End(v, k, [m EXCEPT !.done = TRUE])
                      [] ~Has(s, "L") /\ Has(s, "l") -> Yield(Closed(v, k), k, m, <<filter_in_name(s), "nl">>)
                      [] OTHER -> IF Has(s, "c") THEN After(IF full THEN Closed(v, k) ELSE v, counted)
                                  ELSE Yield(v, k, [m EXCEPT !.nsel = @ + 1, !.closing = full], Prefix(s, x.lineno - 1) \o l.p \o <<"nl">>)
grep_step(w, k) ==
  LET x == w.st[k].x
  IN  IF x.done THEN End(w, k, x)
      ELSE grep_lines(IF x.closing THEN [Closed(w, k) EXCEPT !.st[k].x.closing = FALSE] ELSE w, k)

step(w, k) ==
  CASE w.st[k].c.name = "cat" -> cat_step(w, k) [] w.st[k].c.name = "head" -> head_step(w, k) [] w.st[k].c.name = "tail" -> tail_step(w, k)
    [] w.st[k].c.name = "uniq" -> uniq_step(w, k) [] w.st[k].c.name = "cut" -> cut_step(w, k) [] w.st[k].c.name = "grep" -> grep_step(w, k)
filter_status(s) == IF s.c.name = "grep" THEN (IF s.x.had_match THEN 0 ELSE 1) ELSE IF s.had_error THEN 1 ELSE 0

-----------------------------------------------------------------------------
(* eval_pipeline: the stages before the last are chained if all of them    *)
(* are filters that open; else each runs by itself and its output is piped *)
(* to the next.  How a stage is written is in its flags: "expands" (a word *)
(* that is not literal), "redirected", "program" (the path of the program  *)
(* of that name), "function" (a function of that name runs the program),   *)
(* "bad" (an option the filter rejects).                                   *)
World(cmds, chunks) ==
  [src |-> chunks, link |-> [j \in 0..Len(cmds) |-> <<>>], st |-> [k \in 1..Len(cmds) |-> filter_init(cmds[k])]]
RECURSIVE filter_drain(_, _, _)
filter_drain(w, k, units) ==
  LET r == step(w, k) IN IF r.more THEN filter_drain(r.w, k, Append(units, r.unit)) ELSE [w |-> r.w, units |-> units]
pipeline_word_literal(c) == "expands" \notin c.flags
pipeline_filter_builtin(c) == {"program", "function"} \cap c.flags = {}
pipeline_filter_prepare(c) == "redirected" \notin c.flags /\ pipeline_word_literal(c) /\ pipeline_filter_builtin(c)
pipeline_filter_prepare_chain(cmds) == Len(cmds) > 1 /\ \A k \in 1..(Len(cmds) - 1) : pipeline_filter_prepare(cmds[k])
pipeline_last_reads_in_process(c) == "program" \notin c.flags
filter_open(c) == "bad" \notin c.flags
(* filter_run() of one stage whose standard input gives these reads.       *)
filter_run(c, chunks) ==
  LET d == filter_drain(World(<<c>>, chunks), 1, <<>>)
  IN  IF "bad" \in c.flags THEN [units |-> <<>>, status |-> 2] ELSE [units |-> d.units, status |-> filter_status(d.w.st[1])]
RECURSIVE Forked(_, _, _)
Forked(cmds, chunks, sts) ==
  IF cmds = <<>> THEN [out |-> FlattenSeq(chunks), sts |-> sts]
  ELSE LET r == filter_run(Head(cmds), SelectSeq(chunks, LAMBDA t : t # <<>>)) IN Forked(Tail(cmds), r.units, Append(sts, r.status))
Statuses(w, n) == [k \in 1..n |-> filter_status(w.st[k])]
(* A child drains the chain into a pipe for a last command of its own.     *)
pipeline_chain_pump(cmds, chunks) ==
  LET d == filter_drain(World(cmds, chunks), Len(cmds), <<>>) IN [units |-> d.units, sts |-> Statuses(d.w, Len(cmds))]
(* The last stage in the shell: a builtin pulls the chain, a program a     *)
(* function runs inherits the shell's own descriptor 0.                    *)
Chained(cmds, chunks) ==
  LET n == Len(cmds)
      d == filter_drain(World(cmds, chunks), n, <<>>)
      alone == filter_run(cmds[n], chunks)
      idle == Statuses(World(cmds, chunks), n - 1)
  IN  IF filter_open(cmds[n]) /\ pipeline_filter_builtin(cmds[n])
      THEN [out |-> FlattenSeq(d.units), sts |-> Statuses(d.w, n)]
      ELSE [out |-> FlattenSeq(alone.units), sts |-> Append(idle, alone.status)]
(* The rightmost status that is not zero.                                  *)
Pipefail(sts) == LET bad == {k \in DOMAIN sts : sts[k] # 0} IN IF bad = {} THEN 0 ELSE sts[CHOOSE k \in bad : \A j \in bad : j <= k]
eval_pipeline(cmds, chunks) ==
  LET early == Front(cmds)
      chain == pipeline_filter_prepare_chain(cmds) /\ \A k \in DOMAIN early : filter_open(early[k])
      pumped == pipeline_chain_pump(early, chunks)
      r == CASE ~chain -> Forked(cmds, chunks, <<>>)
             [] chain /\ ~pipeline_last_reads_in_process(Last(cmds)) -> Forked(<<Last(cmds)>>, pumped.units, pumped.sts)
             [] OTHER -> Chained(cmds, chunks)
  IN  [out |-> r.out, status |-> Pipefail(r.sts)]

-----------------------------------------------------------------------------
(* What the filters are for, said of whole texts.                          *)
RECURSIVE Pieces(_)
Pieces(t) == IF t = <<>> THEN <<>> ELSE IF NewlineAt(t) = 0 THEN <<t>> ELSE <<SubSeq(t, 1, NewlineAt(t))>> \o Pieces(Rest(t, NewlineAt(t)))
LineTexts(t) == [i \in DOMAIN Pieces(t) |-> SelectSeq(Pieces(t)[i], LAMBDA u : u # "nl")]
(* The operands that can be read, "-" the first time the input.            *)
OperandsOf(c, up) ==
  LET text(k) == IF c.files[k] = "-" THEN (IF \E j \in 1..(k - 1) : c.files[j] = "-" THEN <<>> ELSE up) ELSE FileText[c.files[k]]
      all == [k \in DOMAIN c.files |-> IF c.files[k] \in {"-"} \cup DOMAIN FileText THEN [name |-> c.files[k], text |-> text(k)] ELSE [name |-> "", text |-> <<>>]]
  IN  IF c.files = <<>> THEN <<[name |-> "-", text |-> up]>> ELSE SelectSeq(all, LAMBDA o : o.name # "")
CatMeans(c, t) ==
  LET ps == Pieces(t)
      kept == [i \in DOMAIN ps |-> "s" \notin c.flags \/ i = 1 \/ ps[i] # <<"nl">> \/ ps[i - 1] # <<"nl">>]
      counts(i) == kept[i] /\ ("n" \in c.flags \/ ps[i] # <<"nl">>)
      number(i) == Number(Cardinality({j \in 1..i : counts(j)}))
      ends(i) == IF "E" \in c.flags /\ Last(ps[i]) = "nl" THEN Front(ps[i]) \o <<"$", "nl">> ELSE ps[i]
  IN  FlattenSeq([i \in DOMAIN ps |->
        IF ~kept[i] THEN <<>> ELSE (IF {"n", "b"} \cap c.flags # {} /\ counts(i) THEN number(i) ELSE <<>>) \o ends(i)])
HeadMeans(c, t) ==
  LET u == IF "c" \in c.flags THEN [i \in DOMAIN t |-> <<t[i]>>] ELSE Pieces(t)
  IN  FlattenSeq(IF "neg" \in c.flags THEN SubSeq(u, 1, Monus(Len(u), c.n)) ELSE SubSeq(u, 1, Least(Len(u), c.n)))
TailMeans(c, t) ==
  LET u == IF "c" \in c.flags THEN [i \in DOMAIN t |-> <<t[i]>>] ELSE Pieces(t)
  IN  FlattenSeq(Rest(u, IF "plus" \in c.flags THEN Monus(c.n, 1) ELSE Monus(Len(u), c.n)))
UniqMeans(c, t) ==
  LET ls == LineTexts(t)
      starts(i) == i = 1 \/ ls[i] # ls[i - 1]
      count(i) == Cardinality({j \in i..Len(ls) : \A m \in i..j : ls[m] = ls[i]})
      wanted(i) == {"d", "u"} \cap c.flags = {} \/ ("d" \in c.flags /\ count(i) > 1) \/ ("u" \in c.flags /\ count(i) = 1)
  IN  FlattenSeq([i \in DOMAIN ls |->
        IF ~starts(i) \/ ~wanted(i) THEN <<>> ELSE (IF "c" \in c.flags THEN Number(count(i)) ELSE <<>>) \o ls[i] \o <<"nl">>])
CutMeans(c, t) ==
  LET ls == LineTexts(t)
      sel(l) == LET fs == FieldsOf(l) IN IF Len(fs) = 1 THEN l ELSE Joined(IF "to" \in c.flags THEN Rest(fs, c.n - 1) ELSE SubSeq(fs, c.n, c.n))
  IN  FlattenSeq([i \in DOMAIN ls |-> IF "s" \in c.flags /\ ~Contains(ls[i], ",") THEN <<>> ELSE Append(sel(ls[i]), "nl")])
Selected(c, t) ==
  LET ls == LineTexts(t)
      all == {i \in DOMAIN ls : Contains(ls[i], "a") # ("v" \in c.flags)}
  IN  IF "m" \in c.flags THEN {i \in all : Cardinality({j \in all : j <= i}) <= c.n} ELSE all
GrepMeans(c, o) ==
  LET sel == Selected(c, o.text)
      name == IF Len(c.files) > 1 THEN <<o.name, ":">> ELSE <<>>
      ls == LineTexts(o.text)
  IN  CASE "q" \in c.flags -> <<>>
        [] OTHER -> CASE "c" \in c.flags -> name \o Number(Cardinality(sel)) \o <<"nl">>
                      [] "l" \in c.flags -> IF sel = {} THEN <<>> ELSE <<o.name, "nl">>
                      [] "L" \in c.flags -> IF sel = {} THEN <<o.name, "nl">> ELSE <<>>
                      [] OTHER -> FlattenSeq([i \in DOMAIN ls |-> IF i \notin sel THEN <<>>
                                    ELSE name \o (IF "n" \in c.flags THEN Number(i) \o <<":">> ELSE <<>>) \o ls[i] \o <<"nl">>])
Means(c, up) ==
  LET os == OperandsOf(c, up)
      whole == FlattenSeq([i \in DOMAIN os |-> os[i].text])
      headed(F(_, _)) == FlattenSeq([i \in DOMAIN os |->
        (IF Len(c.files) <= 1 THEN <<>> ELSE (IF i > 1 THEN <<"nl">> ELSE <<>>) \o <<"==>", os[i].name, "<==", "nl">>) \o F(c, os[i].text)])
  IN  CASE "bad" \in c.flags -> <<>>
        [] OTHER -> CASE c.name = "cat" -> CatMeans(c, whole)
                      [] c.name = "head" -> headed(HeadMeans)
                      [] c.name = "tail" -> headed(TailMeans)
                      [] c.name = "uniq" -> UniqMeans(c, whole)
                      [] c.name = "cut" -> FlattenSeq([i \in DOMAIN os |-> CutMeans(c, os[i].text)])
                      [] c.name = "grep" -> FlattenSeq([i \in DOMAIN os |-> GrepMeans(c, os[i])])
StatusMeans(c, up) ==
  LET os == OperandsOf(c, up)
  IN  CASE "bad" \in c.flags -> 2
        [] OTHER -> IF c.name = "grep" THEN (IF \E i \in DOMAIN os : Selected(c, os[i].text) # {} THEN 0 ELSE 1)
                    ELSE IF c.files # <<>> /\ Len(os) < Len(c.files) THEN 1 ELSE 0
(* grep -c and -L report on every operand, one without a line too; where a *)
(* stage meets such an operand is noted, as grep_step does not.            *)
Lineless(c, up) == c.name = "grep" /\ {"c", "L"} \cap c.flags # {} /\ \E i \in DOMAIN OperandsOf(c, up) : OperandsOf(c, up)[i].text = <<>>
RECURSIVE PipelineMeans(_, _, _, _)
PipelineMeans(cmds, text, sts, lineless) ==
  IF cmds = <<>> THEN [out |-> text, status |-> Pipefail(sts), lineless |-> lineless]
  ELSE LET c == Head(cmds) IN PipelineMeans(Tail(cmds), Means(c, text), Append(sts, StatusMeans(c, text)), lineless \/ Lineless(c, text))
=============================================================================
