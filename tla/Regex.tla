------------------------------- MODULE Regex -------------------------------
(***************************************************************************)
(* Regular expressions (text/dfa): the compiler to a program of splits,    *)
(* jumps and saves, the thread machine and the backtracker that run it,    *)
(* and s/re/text/ on top of them; against what an expression means.        *)
(*                                                                         *)
(* A pattern and a subject are sequences of characters, places count from  *)
(* 1.  flags is a set of "ERE", "ICASE", "MULTI", "NOTBOL".  An            *)
(* instruction is [op, x, y, set]; CHAR, ANY and SET are one "eat" with    *)
(* the characters it accepts.  A target 0 is one not known yet.            *)
(***************************************************************************)
EXTENDS Integers, SequencesExt, FiniteSets

CONSTANTS Alphabet,     \* every character of a pattern or subject
          DFA_MAXDUP, DFA_MAXSTEPS

Digits == [c \in {"0", "1", "2", "3"} |-> CASE c = "0" -> 0 [] c = "1" -> 1 [] c = "2" -> 2 [] c = "3" -> 3]
Letters == {"a", "b", "A"}
Swap(c) == IF c = "a" THEN "A" ELSE IF c = "A" THEN "a" ELSE c
Order == <<"0", "1", "2", "3", "A", "a", "b">>        \* for ranges
byteset_icase(set) == set \cup {Swap(c) : c \in set}
byteset_range(lo, hi) ==
  LET at(c) == IF c \in ToSet(Order) THEN CHOOSE i \in DOMAIN Order : Order[i] = c ELSE 0
  IN  IF lo = hi THEN {lo} ELSE {c \in ToSet(Order) : at(lo) > 0 /\ at(lo) <= at(c) /\ at(c) <= at(hi)}

-----------------------------------------------------------------------------
Inst(op, x, y, set) == [op |-> op, x |-> x, y |-> y, set |-> set]
Ch(ps, k) == IF ps.p + k <= ps.end THEN ps.pat[ps.p + k] ELSE "end"
Two(ps, c) == Ch(ps, 0) = "\\" /\ Ch(ps, 1) = c
Err(ps, e) == [ps EXCEPT !.err = e]
Adv(ps, n) == [ps EXCEPT !.p = @ + n]
dfa_emit(ps, op, x, y, set) == IF ps.err # "" THEN ps ELSE [ps EXCEPT !.prog = Append(@, Inst(op, x, y, set))]
Eat(ps, set) == dfa_emit(ps, "eat", 0, 0, set)
Literal(ps, c) == Eat(ps, IF "ICASE" \in ps.flags THEN byteset_icase({c}) ELSE {c})

(* What a mutated insert_split would do: targets of pos itself move too.   *)
ShiftAll(ps, pos) ==
  LET up(t) == IF t >= pos THEN t + 1 ELSE t
      moved(i) == IF i.op \in {"split", "jmp"} THEN [i EXCEPT !.x = up(@), !.y = up(@)] ELSE i
      front == [i \in 1..pos - 1 |-> moved(ps.prog[i])]
  IN  [ps EXCEPT !.prog = front \o <<Inst("split", pos + 1, 0, {})>> \o [i \in 1..Len(ps.prog) - pos + 1 |-> moved(ps.prog[i + pos - 1])]]
(* A split is put in front of the body at pos; a target of exactly pos     *)
(* goes on meaning "what comes next", now the split.                       *)
insert_split(ps, pos) ==
  LET up(t) == IF t > pos THEN t + 1 ELSE t
      moved(i) == IF i.op \in {"split", "jmp"} THEN [i EXCEPT !.x = up(@), !.y = up(@)] ELSE i
      front == [i \in 1..pos - 1 |-> moved(ps.prog[i])]
  IN  [ps EXCEPT !.prog = front \o <<Inst("split", pos + 1, 0, {})>> \o [i \in 1..Len(ps.prog) - pos + 1 |-> moved(ps.prog[i + pos - 1])]]
End(ps) == Len(ps.prog) + 1
wrap_optional(ps, body, skip) ==
  LET q == insert_split(ps, body) IN [q EXCEPT !.prog[body].x = IF skip THEN End(q) ELSE body + 1, !.prog[body].y = End(q)]
wrap_star(ps, body) ==
  LET q == dfa_emit(wrap_optional(ps, body, FALSE), "jmp", body, 0, {}) IN [q EXCEPT !.prog[body].y = End(q)]
wrap_plus(ps, body) == dfa_emit(ps, "split", body, End(ps) + 1, {})
alt_len(ps) == IF "ERE" \in ps.flags THEN IF Ch(ps, 0) = "|" THEN 1 ELSE 0 ELSE IF Two(ps, "|") THEN 2 ELSE 0

(* The number of the group whose parenthesis is at src: one that is read   *)
(* again for an interval keeps its number.                                 *)
group_index(ps, src) == IF Contains(ps.gsrc, src) THEN ps ELSE [ps EXCEPT !.gsrc = Append(@, src)]
GroupAt(ps, src) == CHOOSE i \in DOMAIN ps.gsrc : ps.gsrc[i] = src

(* [set, p, err]: the bracket expression at ps.p.                          *)
RECURSIVE BracketFrom(_, _, _, _)
BracketFrom(ps, k, first, set) ==
  LET q == Adv(ps, k)
      ends == {i \in 2..ps.end - q.p - 1 : Ch(q, i) = Ch(q, 1) /\ Ch(q, i + 1) = "]"}
      e == CHOOSE i \in ends : \A j \in ends : i <= j
      bad(why) == [set |-> {}, n |-> k, err |-> why]
  IN  IF Ch(q, 0) = "end" THEN bad("bracket")
      ELSE IF Ch(q, 0) = "]" /\ ~first THEN [set |-> set, n |-> k + 1, err |-> ""]
      ELSE IF Ch(q, 0) = "[" /\ Ch(q, 1) \in {":", ".", "="}
           THEN IF ends = {} THEN bad("bracket")
                ELSE IF Ch(q, 1) = ":" THEN IF e = 3 /\ Ch(q, 2) = "alpha" THEN BracketFrom(ps, k + e + 2, FALSE, set \cup Letters) ELSE bad("class")
                ELSE IF e # 3 THEN bad("bracket") ELSE BracketFrom(ps, k + e + 2, FALSE, set \cup {Ch(q, 2)})
      ELSE IF Ch(q, 1) = "-" /\ Ch(q, 2) \notin {"]", "end"}
           THEN IF byteset_range(Ch(q, 0), Ch(q, 2)) = {} THEN bad("range")
                ELSE BracketFrom(ps, k + 3, FALSE, set \cup byteset_range(Ch(q, 0), Ch(q, 2)))
      ELSE BracketFrom(ps, k + 1, FALSE, set \cup {Ch(q, 0)})
dfa_bracket_compile(ps) ==
  LET neg == Ch(ps, 1) = "^"
      b == BracketFrom(ps, IF neg THEN 2 ELSE 1, TRUE, {})
      set == IF neg THEN Alphabet \ b.set ELSE b.set
  IN  IF b.err # "" THEN Err(ps, b.err) ELSE Eat(Adv(ps, b.n), IF "ICASE" \in ps.flags THEN byteset_icase(set) ELSE set)

RECURSIVE parse_alt(_)
parse_group(ps, ere) ==
  LET src == ps.p
      g == group_index(Adv(ps, IF ere THEN 1 ELSE 2), src)
      n == GroupAt(g, src)
      body == parse_alt(dfa_emit(g, "save", 2 * n - 1, 0, {}))
      closed == IF ere THEN Ch(body, 0) = ")" ELSE Two(body, ")")
  IN  IF body.err # "" THEN body ELSE IF ~closed THEN Err(body, "paren")
      ELSE dfa_emit(Adv(body, IF ere THEN 1 ELSE 2), "save", 2 * n, 0, {})
WordEscapes == [c \in {"b", "B", "<", ">"} |-> CASE c = "b" -> 0 [] c = "B" -> 1 [] c = "<" -> 2 [] c = ">" -> 3]
parse_atom(ps) ==
  LET ere == "ERE" \in ps.flags
      c == Ch(ps, 0)
      e == Ch(ps, 1)
      w == Letters \cup DOMAIN Digits
  IN  CASE c = "end" -> Err(ps, "badrpt")
        [] c = "." -> Eat(Adv(ps, 1), Alphabet)
        [] c = "[" -> dfa_bracket_compile(ps)
        [] (ere /\ c = "(") \/ (~ere /\ Two(ps, "(")) -> parse_group(ps, ere)
        [] c = "^" /\ (ere \/ ps.p = 1) -> dfa_emit(Adv(ps, 1), "bol", 0, 0, {})
        [] c = "$" /\ (ere \/ ps.p = ps.end) -> dfa_emit(Adv(ps, 1), "eol", 0, 0, {})
        [] c = "\\" /\ (ere \/ e # "(") ->
             CASE e = "end" -> Err(ps, "escape")
               [] e \in DOMAIN Digits \ {"0"} ->
                    IF Digits[e] > Len(ps.gsrc) THEN Err(ps, "subreg") ELSE dfa_emit([Adv(ps, 2) EXCEPT !.back = TRUE], "ref", Digits[e], 0, {})
               [] e \in DOMAIN WordEscapes -> dfa_emit(Adv(ps, 2), "word", WordEscapes[e], 0, {})
               [] e = "w" -> Eat(Adv(ps, 2), w)
               [] e = "W" -> Eat(Adv(ps, 2), Alphabet \ w)
               [] OTHER -> Literal(Adv(ps, 2), e)
        [] OTHER -> Literal(Adv(ps, 1), c)

(* m,n behind the opening brace: [m, n, k, ok], k characters read, n = -1  *)
(* without an upper bound.                                                 *)
RECURSIVE Number(_, _, _)
Number(ps, k, v) == IF Ch(ps, k) \in DOMAIN Digits THEN Number(ps, k + 1, 10 * v + Digits[Ch(ps, k)]) ELSE [v |-> v, k |-> k]
parse_interval_spec(ps) ==
  LET a == Number(ps, 0, 0)
      comma == Ch(ps, a.k) = ","
      b == Number(ps, a.k + 1, 0)
      n == IF ~comma THEN a.v ELSE IF b.k = a.k + 1 THEN -1 ELSE b.v
  IN  [m |-> a.v, n |-> n, k |-> IF comma THEN b.k ELSE a.k,
       ok |-> (a.k > 0 \/ comma) /\ a.v <= DFA_MAXDUP /\ n <= DFA_MAXDUP /\ ~(n >= 0 /\ n < a.v)]
(* One more copy of the atom, from its source: within it the pattern ends  *)
(* where the atom does.                                                    *)
Copy(ps, src, srcend) == LET q == parse_atom([ps EXCEPT !.p = src, !.end = srcend]) IN [q EXCEPT !.p = ps.p, !.end = ps.end]
apply_interval(ps, body, src, srcend, m, n) ==
  LET copy(q, i) == Copy(q, src, srcend)
      maybe(q, i) == LET r == Copy(q, src, srcend) IN IF r.err # "" THEN r ELSE wrap_optional(r, End(q), FALSE)
      first == IF m = 0 THEN wrap_optional(ps, body, FALSE) ELSE ps
      must == FoldLeft(copy, first, [i \in 1..(IF m > 0 THEN m - 1 ELSE 0) |-> i])
      more == Copy(must, src, srcend)
  IN  IF m = 0 /\ n = 0 THEN wrap_optional(ps, body, TRUE)
      ELSE IF must.err # "" THEN must
      ELSE IF n < 0 THEN IF more.err # "" THEN more ELSE wrap_star(more, End(must))
      ELSE FoldLeft(maybe, must, [i \in 1..n - (IF m > 0 THEN m ELSE 1) |-> i])
RECURSIVE RepeatsFrom(_, _)
RepeatsFrom(ps, body) ==
  LET ere == "ERE" \in ps.flags
      is(c) == (ere /\ Ch(ps, 0) = c) \/ (~ere /\ Two(ps, c))
      n == IF ere THEN 1 ELSE 2
  IN  IF Ch(ps, 0) = "*" THEN RepeatsFrom(wrap_star(Adv(ps, 1), body), body)
      ELSE IF is("+") THEN RepeatsFrom(wrap_plus(Adv(ps, n), body), body)
      ELSE IF is("?") THEN RepeatsFrom(wrap_optional(Adv(ps, n), body, FALSE), body)
      ELSE ps
parse_piece(ps) ==
  LET ere == "ERE" \in ps.flags
      atom == parse_atom(ps)
      s == RepeatsFrom(atom, End(ps))
      open == IF ere THEN Ch(s, 0) = "{" /\ (Ch(s, 1) \in DOMAIN Digits \/ Ch(s, 1) = ",") ELSE Two(s, "{")
      in == Adv(s, IF ere THEN 1 ELSE 2)
      spec == parse_interval_spec(in)
      out == Adv(in, spec.k)
      closed == IF ere THEN Ch(out, 0) = "}" ELSE Two(out, "}")
  IN  IF atom.err # "" \/ (~ere /\ ps.p = 1 /\ Ch(ps, 0) = "^") THEN atom
      ELSE IF ~open THEN s
      ELSE IF ~spec.ok \/ ~closed THEN Err(s, "brace")
      ELSE apply_interval(Adv(out, IF ere THEN 1 ELSE 2), End(ps), ps.p, atom.p - 1, spec.m, spec.n)
RECURSIVE parse_seq(_)
parse_seq(ps) ==
  LET close == IF "ERE" \in ps.flags THEN Ch(ps, 0) = ")" ELSE Two(ps, ")")
  IN  IF ps.err # "" \/ Ch(ps, 0) = "end" \/ alt_len(ps) > 0 \/ close THEN ps ELSE parse_seq(parse_piece(ps))
(* Every branch but the last ends in a jump to the end, patched last.      *)
RECURSIVE Branches(_, _, _)
Branches(ps, split, jmps) ==
  LET j == dfa_emit(ps, "jmp", 0, 0, {})
      q == [j EXCEPT !.prog[split].y = End(j)]
      b == parse_seq(Adv(q, alt_len(q)))
      all == Append(jmps, End(ps))
      patch(r) == [r EXCEPT !.prog = [i \in DOMAIN r.prog |-> IF Contains(all, i) THEN [r.prog[i] EXCEPT !.x = End(r)] ELSE r.prog[i]]]
  IN  IF b.err # "" THEN b ELSE IF alt_len(b) = 0 THEN patch(b) ELSE Branches(insert_split(b, End(q)), End(q), all)
parse_alt(ps) ==
  LET s == parse_seq(ps)
  IN  IF s.err # "" \/ alt_len(s) = 0 THEN s ELSE Branches(insert_split(s, End(ps)), End(ps), <<>>)
dfa_compile(pat, flags) ==
  LET r == parse_alt([pat |-> pat, p |-> 1, end |-> Len(pat), flags |-> flags, err |-> "", gsrc |-> <<>>, prog |-> <<>>, back |-> FALSE])
  IN  IF r.err = "" /\ r.p <= Len(pat) THEN Err(r, "paren") ELSE dfa_emit(r, "match", 0, 0, {})

-----------------------------------------------------------------------------
(* The assertions, at place pos of s.                                      *)
IsWord(s, i) == i \in DOMAIN s /\ s[i] \in Letters \cup DOMAIN Digits
dfa_wordok(kind, s, pos) ==
  LET before == IsWord(s, pos - 1)
      after == IsWord(s, pos)
  IN  CASE kind = 0 -> before # after [] kind = 1 -> before = after [] kind = 2 -> ~before /\ after [] kind = 3 -> before /\ ~after
Holds(d, i, s, pos, notbol) ==
  LET multi == "MULTI" \in d.flags
  IN  CASE i.op = "bol" -> (pos = 1 /\ ~notbol) \/ (multi /\ pos > 1 /\ s[pos - 1] = "nl")
        [] i.op = "eol" -> pos > Len(s) \/ (multi /\ s[pos] = "nl")
        [] i.op = "word" -> dfa_wordok(i.x, s, pos)

(* addthread: everything reachable without input, in order of preference;  *)
(* a place of the program is entered once per step.                        *)
RECURSIVE addthread(_, _, _, _, _, _, _)
addthread(d, l, pc, save, s, pos, notbol) ==
  LET i == d.prog[pc]
      seen == [l EXCEPT !.mark = @ \cup {pc}]
      next(sv) == addthread(d, seen, pc + 1, sv, s, pos, notbol)
  IN  IF pc \in l.mark THEN l
      ELSE CASE i.op = "jmp" -> addthread(d, seen, i.x, save, s, pos, notbol)
             [] i.op = "split" -> addthread(d, addthread(d, seen, i.x, save, s, pos, notbol), i.y, save, s, pos, notbol)
             [] i.op = "save" -> next([save EXCEPT ![i.x] = pos])
             [] i.op \in {"bol", "eol", "word"} -> IF Holds(d, i, s, pos, notbol) THEN next(save) ELSE seen
             [] OTHER -> [seen EXCEPT !.t = Append(@, [pc |-> pc, save |-> save])]
NoThreads == [t |-> <<>>, mark |-> {}]
Unset(d) == SubSeq([i \in 1..2 * Len(d.gsrc) |-> 0], 1, 2 * Len(d.gsrc))
(* The threads of one start, character by character, to the last; the      *)
(* longest match wins.                                                     *)
RECURSIVE Threads(_, _, _, _, _, _)
Threads(d, l, s, pos, notbol, best) ==
  LET matched == {k \in DOMAIN l.t : d.prog[l.t[k].pc].op = "match"}
      b == IF matched # {} /\ pos > best.end THEN [end |-> pos, save |-> l.t[CHOOSE k \in matched : \A m \in matched : k <= m].save] ELSE best
      step(r, t) == IF d.prog[t.pc].op = "eat" /\ pos <= Len(s) /\ s[pos] \in d.prog[t.pc].set
                    THEN addthread(d, r, t.pc + 1, t.save, s, pos + 1, notbol) ELSE r
  IN  IF l.t = <<>> THEN best ELSE IF pos > Len(s) THEN b
      ELSE Threads(d, FoldLeft(step, NoThreads, l.t), s, pos + 1, notbol, b)
NoMatch == [ok |-> FALSE, start |-> 0, end |-> 0, save |-> <<>>]
RECURSIVE dfa_run(_, _, _, _, _)
dfa_run(d, s, from, anchored, notbol) ==
  LET r == Threads(d, addthread(d, NoThreads, 1, Unset(d), s, from, notbol), s, from, notbol, [end |-> 0, save |-> <<>>])
  IN  IF r.end > 0 THEN [ok |-> TRUE, start |-> from, end |-> r.end, save |-> r.save]
      ELSE IF anchored \/ from > Len(s) THEN NoMatch
      ELSE dfa_run(d, s, from + 1, anchored, notbol)

(* The backtracker: the choices not taken are kept with the saves of their *)
(* moment (the undo stack); too many steps are no match.                   *)
RECURSIVE bt_match(_, _, _, _, _, _, _, _)
bt_match(d, s, notbol, pc, pos, save, cs, steps) ==
  LET i == d.prog[pc]
      go(p, q, sv) == bt_match(d, s, notbol, p, q, sv, cs, steps + 1)
      back == IF cs = <<>> THEN NoMatch ELSE LET c == Last(cs) IN bt_match(d, s, notbol, c.pc, c.pos, c.save, Front(cs), steps + 1)
      gs == save[2 * i.x - 1]
      ge == save[2 * i.x]
      n == ge - gs
  IN  IF steps >= DFA_MAXSTEPS THEN NoMatch
      ELSE CASE i.op = "eat" -> IF pos <= Len(s) /\ s[pos] \in i.set THEN go(pc + 1, pos + 1, save) ELSE back
             [] i.op = "jmp" -> go(i.x, pos, save)
             [] i.op = "split" -> bt_match(d, s, notbol, i.x, pos, save, Append(cs, [pc |-> i.y, pos |-> pos, save |-> save]), steps + 1)
             [] i.op = "save" -> go(pc + 1, pos, [save EXCEPT ![i.x] = pos])
             [] i.op \in {"bol", "eol", "word"} -> IF Holds(d, i, s, pos, notbol) THEN go(pc + 1, pos, save) ELSE back
             [] i.op = "ref" -> IF gs > 0 /\ ge >= gs /\ pos + n <= Len(s) + 1 /\ SubSeq(s, pos, pos + n - 1) = SubSeq(s, gs, ge - 1)
                                THEN go(pc + 1, pos + n, save) ELSE back
             [] i.op = "match" -> [ok |-> TRUE, start |-> 0, end |-> pos, save |-> save]
RECURSIVE dfa_bt_run(_, _, _, _, _)
dfa_bt_run(d, s, from, anchored, notbol) ==
  LET r == bt_match(d, s, notbol, 1, from, Unset(d), <<>>, 0)
  IN  IF r.ok THEN [r EXCEPT !.start = from]
      ELSE IF anchored \/ from > Len(s) THEN NoMatch
      ELSE dfa_bt_run(d, s, from + 1, anchored, notbol)
Run(d, s, from, anchored, notbol) == IF d.back THEN dfa_bt_run(d, s, from, anchored, notbol) ELSE dfa_run(d, s, from, anchored, notbol)
dfa_search(d, s, from) == Run(d, s, from, FALSE, "NOTBOL" \in d.flags)
dfa_prefix(d, s) == LET m == Run(d, s, 1, TRUE, FALSE) IN IF m.ok THEN m.end - 1 ELSE -1
dfa_submatch(d, s, m) ==
  LET g == Run(d, s, m.start, TRUE, "NOTBOL" \in d.flags) IN [ok |-> g.ok /\ g.end = m.end, save |-> g.save]
Span(save, g) == IF 2 * g <= Len(save) /\ save[2 * g - 1] > 0 /\ save[2 * g] > 0 THEN <<save[2 * g - 1], save[2 * g]>> ELSE <<0, 0>>
Caps(save, n) == SubSeq([g \in 1..n |-> Span(save, g)], 1, n)

(* The replacement is a sequence of [group] (0: the whole match) and       *)
(* [text] items.                                                           *)
Item(g, t) == [group |-> g, text |-> t]
RECURSIVE dfa_repl_compile(_)
dfa_repl_compile(t) ==
  IF t = <<>> THEN <<>>
  ELSE IF Head(t) = "&" THEN <<Item(0, <<>>)>> \o dfa_repl_compile(Tail(t))
  ELSE IF Head(t) = "\\" /\ Len(t) > 1
       THEN <<IF t[2] \in DOMAIN Digits \ {"0"} THEN Item(Digits[t[2]], <<>>) ELSE Item(-1, <<IF t[2] = "n" THEN "nl" ELSE t[2]>>)>>
            \o dfa_repl_compile(SubSeq(t, 3, Len(t)))
  ELSE <<Item(-1, <<Head(t)>>)>> \o dfa_repl_compile(Tail(t))
dfa_repl_apply(r, s, m, save) ==
  FlattenSeq([i \in DOMAIN r |->
    LET g == Span(save, r[i].group)
    IN  CASE r[i].group < 0 -> r[i].text
          [] r[i].group = 0 -> SubSeq(s, m.start, m.end - 1)
          [] r[i].group > 0 -> SubSeq(s, g[1], g[2] - 1)])
(* The loop of s/re/r/: pos in s, prev the end of the last match, k its    *)
(* number, out and n what was written and replaced.  Behind an empty match *)
(* one character is copied, so that the search goes on.                    *)
Stepped(a, s) == [a EXCEPT !.out = Append(@, s[a.pos]), !.pos = @ + 1]
Adjacent(m, prev) == m.start = m.end /\ m.start = prev
RECURSIVE ReplaceFrom(_, _, _, _, _, _, _, _)
ReplaceFrom(d, r, s, nth, global, a, prev, k) ==
  LET m == dfa_search(d, s, a.pos)
      empty == m.start = m.end
      last == m.start > Len(s)
      upto(p) == [a EXCEPT !.out = @ \o SubSeq(s, a.pos, p - 1), !.pos = p]
      finish(b) == [b EXCEPT !.out = @ \o SubSeq(s, b.pos, Len(s))]
      on(b, pr, kk) == ReplaceFrom(d, r, s, nth, global, b, pr, kk)
      over(b) == IF empty THEN Stepped(b, s) ELSE b
      put == [upto(m.start) EXCEPT !.out = @ \o dfa_repl_apply(r, s, m, dfa_submatch(d, s, m).save), !.n = @ + 1, !.pos = m.end]
  IN  IF a.pos > Len(s) + 1 \/ ~m.ok \/ (Adjacent(m, prev) /\ last) THEN finish(a)
      ELSE IF Adjacent(m, prev) THEN on(over(upto(m.start)), prev, k)
      ELSE IF k + 1 < nth THEN IF empty /\ last THEN finish(upto(m.end)) ELSE on(over(upto(m.end)), m.end, k + 1)
      ELSE IF ~global \/ (empty /\ last) THEN finish(put)
      ELSE on(over(put), m.end, k + 1)
dfa_replace(d, r, s, nth, global) == ReplaceFrom(d, r, s, nth, global, [pos |-> 1, out |-> <<>>, n |-> 0], 0, 0)

-----------------------------------------------------------------------------
(* What an expression means.  It is cut into tokens, alike for both        *)
(* dialects, and read into a tree; Ways are the places (and the text of    *)
(* the groups) a node can get to from a place.                             *)
Tok(t, set, v, n) == [t |-> t, set |-> set, v |-> v, w |-> -1, n |-> n]
Fold(set, flags) == IF "ICASE" \in flags THEN byteset_icase(set) ELSE set
Token(pat, i, prev, flags) ==
  LET ere == "ERE" \in flags
      ps == [pat |-> pat, p |-> i, end |-> Len(pat), flags |-> flags]
      esc == Ch(ps, 0) = "\\"
      c == IF esc THEN Ch(ps, 1) ELSE Ch(ps, 0)
      n == IF esc THEN 2 ELSE 1
      special == esc # ere
      leads == prev \in {"(", "|", "start"}            \* nothing to repeat yet
      neg == Ch(ps, 1) = "^"
      b == BracketFrom(ps, IF neg THEN 2 ELSE 1, TRUE, {})
      spec == parse_interval_spec(Adv(ps, n))
      close == Adv(ps, n + spec.k)
      closed == IF ere THEN Ch(close, 0) = "}" ELSE Two(close, "}")
      num == Ch(ps, 1) \in DOMAIN Digits \/ Ch(ps, 1) = ","
      lit == Tok("set", Fold({c}, flags), 0, n)
      w == Letters \cup DOMAIN Digits
  IN  CASE c = "end" -> Tok("bad", {}, 0, n)
        [] ~esc /\ c = "." -> Tok("set", Alphabet, 0, 1)
        [] ~esc /\ c = "[" -> IF b.err # "" THEN Tok("bad", {}, 0, 1)
                              ELSE Tok("set", IF neg THEN Alphabet \ Fold(b.set, flags) ELSE Fold(b.set, flags), 0, b.n)
        [] special /\ c \in {"(", ")", "|"} -> Tok(c, {}, 0, n)
        [] ~esc /\ c = "*" /\ ~leads /\ ~(~ere /\ prev = "bol") -> Tok("rep", {}, 0, 1)
        [] special /\ c = "+" /\ ~leads /\ ~(~ere /\ prev = "bol") -> Tok("rep", {}, 1, n)
        [] special /\ c = "?" /\ ~leads /\ ~(~ere /\ prev = "bol") -> [Tok("rep", {}, 0, n) EXCEPT !.w = 1]
        [] special /\ c = "{" /\ ~leads /\ ~(~ere /\ prev = "bol") /\ (ere => num) ->
             IF spec.ok /\ closed THEN [Tok("dup", {}, spec.m, n + spec.k + n) EXCEPT !.w = spec.n] ELSE Tok("bad", {}, 0, n)
        [] ~esc /\ c = "^" /\ (ere \/ i = 1) -> Tok("bol", {}, 0, 1)
        [] ~esc /\ c = "$" /\ (ere \/ i = Len(pat)) -> Tok("eol", {}, 0, 1)
        [] esc /\ c \in DOMAIN Digits \ {"0"} -> Tok("ref", {}, Digits[c], 2)
        [] esc /\ c \in DOMAIN WordEscapes -> Tok("word", {}, WordEscapes[c], 2)
        [] esc /\ c \in {"w", "W"} -> Tok("set", IF c = "w" THEN w ELSE Alphabet \ w, 0, 2)
        [] OTHER -> lit
RECURSIVE Tokens(_, _, _, _)
Tokens(pat, i, prev, flags) ==
  IF i > Len(pat) THEN <<>> ELSE LET t == Token(pat, i, prev, flags) IN <<t>> \o Tokens(pat, i + t.n, t.t, flags)

T(k, a, set, v, w) == [k |-> k, a |-> a, set |-> set, v |-> v, w |-> w]
(* [n, i, g, bad]: a tree, the token behind it, the groups opened so far.  *)
RECURSIVE Alt(_, _, _)
RECURSIVE Seq1(_, _, _, _)
RECURSIVE Repeated(_, _, _)
Repeated(toks, i, n) ==
  IF i <= Len(toks) /\ toks[i].t \in {"rep", "dup"} THEN Repeated(toks, i + 1, T("rep", <<n>>, {}, toks[i].v, toks[i].w)) ELSE [n |-> n, i |-> i]
Seq1(toks, i, g, list) ==
  LET t == toks[i]
      in == Alt(toks, i + 1, g + 1)
      grp == t.t = "("
      bad == t.t = "bad" \/ (t.t = "ref" /\ t.v > g) \/ (grp /\ (in.bad \/ in.i > Len(toks)))
      atom == IF grp THEN T("grp", <<in.n>>, {}, g + 1, 0) ELSE T(t.t, <<>>, t.set, t.v, 0)
      r == Repeated(toks, IF grp THEN in.i + 1 ELSE i + 1, atom)
  IN  IF i > Len(toks) \/ t.t \in {"|", ")"} THEN [n |-> T("seq", list, {}, 0, 0), i |-> i, g |-> g, bad |-> FALSE]
      ELSE IF bad THEN [n |-> T("seq", <<>>, {}, 0, 0), i |-> i, g |-> g, bad |-> TRUE]
      ELSE Seq1(toks, r.i, IF grp THEN in.g ELSE g, Append(list, r.n))
Alt(toks, i, g) ==
  LET b == Seq1(toks, i, g, <<>>)
      rest == Alt(toks, b.i + 1, b.g)
  IN  IF b.bad \/ b.i > Len(toks) \/ toks[b.i].t = ")" THEN [b EXCEPT !.n = T("alt", <<b.n>>, {}, 0, 0)]
      ELSE [rest EXCEPT !.n = T("alt", <<b.n>> \o rest.n.a, {}, 0, 0)]
Tree(pat, flags) == LET toks == Tokens(pat, 1, "start", flags)
                        r == Alt(toks, 1, 0)
                    IN  [n |-> r.n, g |-> r.g, bad |-> r.bad \/ r.i <= Len(toks), toks |-> toks]

RECURSIVE Ways(_, _, _, _)
From(n, f, s, S) == UNION {Ways(n, f, s, x) : x \in S}
RECURSIVE Loop(_, _, _, _)
Loop(n, f, s, S) == LET more == S \cup From(n, f, s, S) IN IF more = S THEN S ELSE Loop(n, f, s, more)
Ways(n, f, s, x) ==              \* x is [pos, cap]
  LET one == {x}
      times(k) == FoldLeft(LAMBDA S, i : From(n.a[1], f, s, S), one, [i \in 1..k |-> i])
      cap == x.cap[n.v]
      len == cap[2] - cap[1]
      i == [op |-> n.k, x |-> n.v]
  IN  CASE n.k = "set" -> IF x.pos <= Len(s) /\ s[x.pos] \in n.set THEN {[x EXCEPT !.pos = @ + 1]} ELSE {}
        [] n.k = "seq" -> FoldLeft(LAMBDA S, m : From(m, f, s, S), one, n.a)
        [] n.k = "alt" -> UNION {Ways(n.a[j], f, s, x) : j \in DOMAIN n.a}
        [] n.k = "rep" -> IF n.w < 0 THEN Loop(n.a[1], f, s, times(n.v)) ELSE UNION {times(k) : k \in n.v..n.w}
        [] n.k = "grp" -> {[y EXCEPT !.cap[n.v] = <<x.pos, y.pos>>] : y \in Ways(n.a[1], f, s, x)}
        [] n.k = "ref" -> IF cap[1] > 0 /\ x.pos + len <= Len(s) + 1 /\ SubSeq(s, x.pos, x.pos + len - 1) = SubSeq(s, cap[1], cap[2] - 1)
                          THEN {[x EXCEPT !.pos = @ + len]} ELSE {}
        [] OTHER -> IF Holds([flags |-> f], i, s, x.pos, "NOTBOL" \in f) THEN one ELSE {}
Matches(t, f, s, i) == Ways(t.n, f, s, [pos |-> i, cap |-> Caps(<<>>, t.g)])
Ends(t, f, s, i) == {x.pos : x \in Matches(t, f, s, i)}
(* The leftmost longest match from place i on.                             *)
RECURSIVE Best(_, _, _, _)
Best(t, f, s, i) ==
  LET e == Ends(t, f, s, i)
  IN  IF i > Len(s) + 1 THEN <<0, 0>> ELSE IF e = {} THEN Best(t, f, s, i + 1) ELSE <<i, CHOOSE k \in e : \A l \in e : l <= k>>
(* All matches from p on, an empty one not right behind another.           *)
RECURSIVE AllFrom(_, _, _, _, _)
AllFrom(t, f, s, p, prev) ==
  LET m == Best(t, f, s, p)
  IN  IF m[1] = 0 THEN <<>>
      ELSE IF m[1] = m[2] /\ m[1] = prev THEN AllFrom(t, f, s, m[1] + 1, prev)
      ELSE <<m>> \o AllFrom(t, f, s, IF m[1] = m[2] THEN m[2] + 1 ELSE m[2], m[2])
RECURSIVE Nodes(_)
Nodes(n) == {n} \cup UNION {Nodes(n.a[i]) : i \in DOMAIN n.a}
RECURSIVE Nullable(_)
Nullable(n) == CASE n.k = "set" -> FALSE
                 [] n.k = "seq" -> \A i \in DOMAIN n.a : Nullable(n.a[i])
                 [] n.k \in {"alt", "grp"} -> \E i \in DOMAIN n.a : Nullable(n.a[i])
                 [] n.k = "rep" -> n.v = 0 \/ Nullable(n.a[1])
                 [] OTHER -> TRUE
EmptyLoop(t) == \E n \in Nodes(t.n) : n.k = "rep" /\ n.w < 0 /\ Nullable(n.a[1])
LoopFirst(t) == \E n \in Nodes(t.n) : n.k = "alt" /\ \E i \in 1..Len(n.a) - 1 : n.a[i].a # <<>> /\ n.a[i].a[1].k = "rep" /\ n.a[i].a[1].w < 0
(* Left out: a loop that begins a branch (its way back leads to the split  *)
(* that chooses the branch), an interval next to another repetition (the   *)
(* copies are made of the bare atom; what follows an interval is literal), *)
(* a dollar that is repeated (it ends the copies, BRE), a group that       *)
(* refers to itself, and a complemented bracket without case (it is        *)
(* complemented, then folded).                                             *)
Usual(pat, t, flags) ==
  /\ ~LoopFirst(t)
  /\ \A i \in DOMAIN t.toks : t.toks[i].t = "dup" => (i = 1 \/ t.toks[i - 1].t \notin {"rep", "dup"}) /\ (i = Len(t.toks) \/ t.toks[i + 1].t \notin {"rep", "dup"})
  /\ "ERE" \in flags \/ \A i \in 1..Len(t.toks) - 1 : t.toks[i + 1].t = "dup" => "$" \notin t.toks[i].set \/ t.toks[i].set = Alphabet
  /\ \A n \in Nodes(t.n) : n.k = "grp" => \A m \in Nodes(n) : ~(m.k = "ref" /\ m.v = n.v)
  /\ "ICASE" \in flags => ~\E i \in 1..Len(pat) - 1 : pat[i] = "[" /\ pat[i + 1] = "^"
=============================================================================
