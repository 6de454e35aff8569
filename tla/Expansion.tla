----------------------------- MODULE Expansion -----------------------------
(***************************************************************************)
(* Words: the parts parse_word() makes of their text (src/parse) and the   *)
(* fields expand_args() makes of the parts (src/expand, src/wordlist).     *)
(*                                                                         *)
(* Text is a sequence of characters ("qq", "apos", "bquo": the quotes); a  *)
(* parameter up to its word is one unit described by Params ("$x", "${u-", *)
(* ...; "}" ends the word).  The parser keeps a backslash in front of      *)
(* every C_ESC character that is to be literal; what is unescaped when,    *)
(* and what is split, is decided chunk by chunk in wordlist_cat().         *)
(*                                                                         *)
(* A part is [k, q, s, fl, u, w]: "str", "param" or "cmd"; quoting "un",   *)
(* "sq" or "dq"; text; S_GLOB, S_ESCAPED, S_QUOTEDEMPTY; unit; word.       *)
(* The world is [var, args, ifs, noglob, files, out].                      *)
(***************************************************************************)
EXTENDS Patterns

CONSTANT Params      \* unit -> [name, op, colon, word]

esc == {"sp", "*", "?", "[", "\\", "]"}
desc == {"qq", "$", "bquo"} \cup DOMAIN Params
First(s) == IF s = <<>> THEN <<>> ELSE <<Head(s)>>
ctrl == {";", "&", "|", "(", ")"}

-----------------------------------------------------------------------------
Part(k, q, s, fl) == [k |-> k, q |-> q, s |-> s, fl |-> fl, u |-> "", w |-> <<>>, has |-> FALSE]
Parser(in, sw, dqs) == [in |-> in, sw |-> sw, dqs |-> dqs, q |-> "un", sa |-> <<>>, fl |-> {}, br |-> FALSE,
                        parts |-> <<>>, st |-> "run"]

(* What a mutated parse_string would do: an empty string makes no part,    *)
(* quoted or not.                                                          *)
StringNeverEmpty(p, fl) ==
  IF p.sa = <<>> THEN p ELSE [p EXCEPT !.parts = Append(@, Part("str", p.q, p.sa, fl)), !.sa = <<>>]
(* parse_string: flush the text into a part of the current quoting.        *)
parse_string(p, fl) ==
  LET n == Len(p.parts)
      same == n > 0 /\ p.parts[n].k = "str" /\ p.parts[n].q = p.q
  IN  IF p.sa = <<>> /\ p.q = "un" THEN p
      ELSE IF same THEN [p EXCEPT !.parts[n].s = @ \o p.sa, !.parts[n].fl = @ \cup fl, !.sa = <<>>]
      ELSE [p EXCEPT !.parts = Append(@, Part("str", p.q, p.sa, fl)), !.sa = <<>>]
Take(p, n) == [p EXCEPT !.in = SubSeq(@, n + 1, Len(@))]
AddText(p, s) == [p EXCEPT !.sa = @ \o s]
Enter(p, q) == parse_string([Take(parse_string(p, {}), 1) EXCEPT !.q = q], {})

RECURSIVE parse_word(_)
(* parse_param and parse_bquoted: an empty unquoted part gives way.        *)
parse_param(p) ==
  LET u == Head(p.in)
      n == Len(p.parts)
      front == IF n > 0 /\ p.parts[n].k = "str" /\ p.parts[n].s = <<>> /\ p.parts[n].q = "un" THEN SubSeq(p.parts, 1, n - 1) ELSE p.parts
      dqs == p.q = "dq" /\ Params[u].op \notin {"%", "%%", "#", "##"}
      w == parse_word(Parser(Tail(p.in), TRUE, dqs))
      part == [Part(IF u = "$()" THEN "cmd" ELSE "param", p.q, <<>>, {}) EXCEPT !.u = u]
  IN  IF ~Params[u].word THEN [p EXCEPT !.in = Tail(@), !.parts = Append(front, part)]
      ELSE [p EXCEPT !.in = w.in, !.st = IF w.st = "end" THEN "run" ELSE "bad",
                     !.parts = Append(front, [part EXCEPT !.w = w.parts, !.has = w.parts # <<>>])]

(* The text so far is the start of a tilde-prefix.                         *)
parse_in_tilde_prefix(p) ==
  p.parts = <<>> /\ \E i \in DOMAIN p.sa : /\ p.sa[i] = "~" /\ (i = 1 \/ p.sa[i - 1] \in {"=", ":"})
                                          /\ \A k \in i..Len(p.sa) : p.sa[k] \notin {"/", ":", "="}
(* The escape of parse_unquoted; some characters become quoted chunks.     *)
Escaped(p) ==
  LET c == p.in[2]
      own == ~p.dqs /\ ((p.sw /\ c = "sp") \/ c = "~" \/ (~p.sw /\ (c = "/" \/ parse_in_tilde_prefix(p))))
      lead == (IF p.dqs /\ c \notin desc \cup {"\\"} THEN <<"\\", "\\">> ELSE <<>>)
      q == AddText(p, lead)
      fl == p.fl \cup {"ESCAPED"}
      chunk == [parse_string([parse_string([q EXCEPT !.fl = fl], fl) EXCEPT !.q = "sq", !.sa = <<c>>], {}) EXCEPT !.q = "un"]
  IN  IF own THEN Take(chunk, 2)
      ELSE Take(AddText([q EXCEPT !.fl = fl], (IF c \in esc THEN <<"\\">> ELSE <<>>) \o <<c>>), 2)

(* One character outside quotes.  Only the flush at the end of the word    *)
(* passes the flags collected since the last quote.                        *)
parse_unquoted(p) ==
  LET c == Head(p.in)
      end(q) == [q EXCEPT !.st = "end"]
  IN  CASE p.in = <<>> -> IF p.sw THEN [p EXCEPT !.st = "bad"] ELSE end(parse_string(p, p.fl))
        [] OTHER ->
     CASE c = "\\" -> IF Len(p.in) = 1 THEN [p EXCEPT !.st = "bad"] ELSE Escaped(p)
        [] c = "qq" -> [Enter(p, "dq") EXCEPT !.fl = {}, !.br = FALSE]
        [] ~p.dqs /\ c = "apos" -> [Enter(p, "sq") EXCEPT !.fl = {}, !.br = FALSE]
        [] c \in DOMAIN Params -> parse_param(parse_string(p, {}))
        [] p.sw /\ c = "}" -> end(parse_string(Take(p, 1), p.fl))
        [] ~p.sw /\ (c = "sp" \/ c \in ctrl) -> end(parse_string(p, p.fl))
        [] ~p.sw /\ c = "[" -> Take(AddText([p EXCEPT !.br = TRUE], <<c>>), 1)
        [] ~p.sw /\ c = "]" -> Take(AddText([p EXCEPT !.fl = IF p.br THEN @ \cup {"GLOB"} ELSE @, !.br = FALSE], <<c>>), 1)
        [] ~p.sw /\ c \in esc \ {"sp", "[", "]", "\\"} -> Take(AddText([p EXCEPT !.fl = @ \cup {"GLOB"}], <<c>>), 1)
        [] OTHER -> Take(AddText(p, <<c>>), 1)

parse_dquoted(p) ==
  LET c == Head(p.in)
      n == Len(p.parts)
      last == p.parts[n]
      closed == parse_string(Take(p, 1), {})
      empty == p.sa = <<>> /\ n > 0 /\ Len(closed.parts) = n /\ last.k = "str" /\ last.s = <<>>
      two == Len(p.in) > 1 /\ (p.in[2] \in desc \/ p.in[2] = "\\")
      lit(d, k) == Take(AddText(p, (IF d \in esc THEN <<"\\">> ELSE <<>>) \o <<d>>), k)
  IN  CASE p.in = <<>> -> [p EXCEPT !.st = "bad"]
        [] OTHER ->
     CASE c = "\\" -> IF Len(p.in) = 1 THEN [p EXCEPT !.st = "bad"] ELSE IF two THEN lit(p.in[2], 2) ELSE lit("\\", 1)
        [] c \in DOMAIN Params -> parse_param(parse_string(p, {}))
        [] c = "qq" -> [closed EXCEPT !.q = "un", !.parts[n].fl = IF empty THEN @ \cup {"QUOTEDEMPTY"} ELSE @]
        [] OTHER -> lit(c, 1)

parse_squoted(p) ==
  LET c == Head(p.in)
  IN  CASE p.in = <<>> -> [p EXCEPT !.st = "bad"]
        [] OTHER ->
     IF c = "apos" THEN [parse_string(Take(p, 1), {}) EXCEPT !.q = "un"]
     ELSE Take(AddText(p, (IF c \in esc THEN <<"\\">> ELSE <<>>) \o <<c>>), 1)

parse_word(p) ==
  IF p.st # "run" THEN p
  ELSE parse_word(CASE p.q = "dq" -> parse_dquoted(p) [] p.q = "sq" -> parse_squoted(p) [] OTHER -> parse_unquoted(p))

(* The words of a line, blanks between them skipped; bad: a quote or brace *)
(* is not closed.                                                          *)
RECURSIVE LineWords(_)
LineWords(in) ==
  LET w == parse_word(Parser(in, FALSE, FALSE))
      rest == LineWords(w.in)
  IN  IF in = <<>> THEN [ok |-> TRUE, words |-> <<>>]
      ELSE IF Head(in) = "sp" THEN LineWords(Tail(in))
      ELSE IF w.st = "bad" \/ Head(in) \in ctrl THEN [ok |-> FALSE, words |-> <<>>]
      ELSE [ok |-> rest.ok, words |-> <<w.parts>> \o rest.words]

-----------------------------------------------------------------------------
(* struct wordlist: closed fields v, the open field cur with its X_ bits   *)
(* st; str is the string mode (ar == NULL).  w is the world.               *)
wordlist_init(world) == [v |-> <<>>, cur |-> <<>>, st |-> {}, has |-> FALSE, closed |-> FALSE, pend |-> FALSE,
                         str |-> FALSE, err |-> FALSE, ifs |-> world.ifs, w |-> world]
wordlist_init_str(world) == [wordlist_init(world) EXCEPT !.str = TRUE, !.has = TRUE, !.ifs = <<>>]

RECURSIVE expand_unescape(_)
expand_unescape(b) ==
  IF b = <<>> THEN <<>>
  ELSE IF Head(b) = "\\" /\ Len(b) > 1 /\ b[2] \in esc THEN <<b[2]>> \o expand_unescape(SubSeq(b, 3, Len(b)))
  ELSE <<Head(b)>> \o expand_unescape(Tail(b))

sibling(wl) == [wl EXCEPT !.pend = FALSE, !.closed = FALSE, !.st = {"SPLIT"}, !.cur = <<>>]
start(wl) == IF ~wl.has THEN [wl EXCEPT !.has = TRUE, !.closed = FALSE, !.st = {}, !.cur = <<>>]
             ELSE IF wl.closed THEN sibling(wl) ELSE wl
wordlist_push(wl) == [wl EXCEPT !.v = Append(@, wl.cur), !.cur = <<>>,
                                !.pend = wl.cur = <<>> /\ wl.st \cap {"QUOTED", "NOSPLIT", "SPLIT"} = {}]
wordlist_settle(wl) == IF wl.pend THEN [wl EXCEPT !.v = Front(@), !.pend = FALSE] ELSE wl
wordlist_break(wl) ==
  IF wl.str \/ ~wl.has THEN wl
  ELSE [wordlist_settle(IF wl.closed THEN wl ELSE wordlist_push(wl)) EXCEPT !.has = FALSE, !.closed = FALSE]

(* wordlist_glob: all matches but the last become fields.                  *)
Glob(world, pat) == SelectSeq(world.files, LAMBDA f : Means(pat, f))
wordlist_glob(wl, flags) ==
  LET raw == "GLOBRES" \in flags
      got == Glob(wl.w, wl.cur)
      add(r, i) == LET x == [r EXCEPT !.cur = IF "NOSPLIT" \in flags THEN @ \o (IF i > 1 THEN First(wl.ifs) ELSE <<>>) \o got[i] ELSE got[i]]
                   IN  IF i = Len(got) THEN x
                       ELSE [(IF "NOSPLIT" \in flags THEN x ELSE wordlist_push(x)) EXCEPT !.st = @ \cup flags]
  IN  IF raw /\ (wl.w.noglob \/ ToSet(wl.cur) \cap {"*", "?", "["} = {}) THEN wl
      ELSE IF ~wl.w.noglob /\ got # <<>> THEN FoldLeft(add, [wl EXCEPT !.cur = <<>>], [i \in DOMAIN got |-> i])
      ELSE IF raw THEN wl ELSE [wl EXCEPT !.cur = expand_unescape(@)]
finish(wl, flags) ==
  LET x == IF "GLOB" \in flags THEN wordlist_glob(wl, flags \ {"GLOB"})
           ELSE IF "GLOBRES" \in flags THEN wordlist_glob(wl, flags)
           ELSE IF "LITERAL" \in flags THEN [wl EXCEPT !.cur = expand_unescape(@), !.st = @ \ {"GLOB"}] ELSE wl
  IN  [wordlist_push(x) EXCEPT !.closed = TRUE]

(* The splitting loop of wordlist_cat, from character i of b on.           *)
RECURSIVE Split(_, _, _, _, _)
Split(wl, b, i, have, flags) ==
  LET ifs == ToSet(wl.ifs)
      run(k, in) == IF \A l \in k..Len(b) : (b[l] \in ifs) = in THEN Len(b) + 1
                    ELSE CHOOSE l \in k..Len(b) : (b[l] \in ifs) # in /\ \A m \in k..l - 1 : (b[m] \in ifs) = in
      e == run(i, FALSE)
      x == IF e = i THEN wl
           ELSE LET y == IF have THEN wl ELSE start(wl) IN [y EXCEPT !.cur = @ \o SubSeq(b, i, e - 1), !.st = @ \cup flags]
      open == have \/ e > i
      j == run(e, TRUE)
      nws == Cardinality({l \in e..j - 1 : b[l] # "sp"})
      more(r, k) == finish(sibling(r), flags)
  IN  IF e > Len(b) THEN x
      ELSE IF nws = 0
           THEN IF open \/ (x.has /\ ~x.closed /\ x.st \cap {"QUOTED", "NOSPLIT"} # {})
                THEN Split(finish(x, flags), b, j, FALSE, flags) ELSE Split(x, b, j, open, flags)
      ELSE Split(FoldLeft(more, finish(IF open THEN x ELSE start(x), flags), [k \in 1..nws - 1 |-> k]), b, j, FALSE, flags)

wordlist_cat(wl, b, fl) ==
  LET flags == fl \cup (IF wl.str THEN {"NOSPLIT"} ELSE {})
      o == start(wl)
      lit == "LITERAL" \in flags /\ "PATTERN" \notin flags
      due == lit /\ "LITERAL" \in o.st /\ o.st \cap {"UNESCAPED", "GLOB"} = {}
      cur == IF due THEN expand_unescape(o.cur) ELSE o.cur
      guard == FoldLeft(LAMBDA s, c : s \o (IF c \in {"\\", "*", "?", "["} THEN <<"\\", c>> ELSE <<c>>), <<>>, b)
      now == "UNESCAPED" \in o.st /\ flags \cap {"GLOB", "PATTERN"} = {}
  IN  IF flags \cap {"NOSPLIT", "QUOTED"} # {}
      THEN IF lit THEN [o EXCEPT !.cur = cur \o expand_unescape(b), !.st = @ \cup flags \cup {"UNESCAPED"}]
           ELSE [o EXCEPT !.cur = cur \o (IF {"PATTERN", "QUOTED"} \subseteq flags /\ "LITERAL" \notin flags THEN guard ELSE b),
                          !.st = @ \cup flags]
      ELSE IF "LITERAL" \in flags /\ "SUBWORD" \notin flags
      THEN [o EXCEPT !.cur = @ \o (IF now THEN expand_unescape(b) ELSE b), !.st = @ \cup flags]
      ELSE IF b = <<>> THEN wl
      ELSE Split(wl, b, 1, wl.has /\ ~wl.closed /\ wl.cur # <<>>, flags)

wordlist_close(wl) ==
  LET back == wl.closed /\ ~wl.pend /\ wl.v # <<>> /\ wl.st \cap {"GLOB", "GLOBRES", "LITERAL"} # {}
      r == IF back THEN [wl EXCEPT !.cur = Last(wl.v), !.v = Front(@), !.closed = FALSE] ELSE wl
      g == IF "GLOB" \in r.st THEN wordlist_glob(r, r.st \ {"GLOB"})
           ELSE IF "GLOBRES" \in r.st THEN wordlist_glob(r, r.st)
           ELSE IF "LITERAL" \in r.st /\ "UNESCAPED" \notin r.st THEN [r EXCEPT !.cur = expand_unescape(@)] ELSE r
  IN  IF wl.str THEN wl
      ELSE [wordlist_settle(IF r.has /\ ~r.closed THEN wordlist_push(g) ELSE r) EXCEPT !.has = FALSE, !.closed = FALSE]

-----------------------------------------------------------------------------
Quoted(part) == part.q # "un"
expand_globres_ok(parts) ==
  \A i \in DOMAIN parts :
    /\ Quoted(parts[i]) => parts[i].k = "str" /\ ToSet(parts[i].s) \cap {"*", "?", "["} = {}
    /\ ~Quoted(parts[i]) /\ parts[i].k = "param" => ~parts[i].has

RECURSIVE expand_arg(_, _, _)
StrOf(parts, flags, world) == expand_arg(parts, wordlist_init_str(world), flags \cup {"NOSPLIT"}).cur

(* expand_param, in its parts: the value, "$@", and the operators.         *)
ValueOf(wl, u) ==
  LET w == wl.w
      join == FoldLeft(LAMBDA s, i : s \o (IF i > 1 THEN First(w.ifs) ELSE <<>>) \o w.args[i], <<>>, [i \in DOMAIN w.args |-> i])
      n == Params[u].name
      none == [set |-> FALSE, val |-> <<>>]
      v == IF n = "*" THEN [set |-> TRUE, val |-> join] ELSE w.var[n]
  IN  IF Params[u].colon /\ v.val = <<>> THEN none ELSE v
Each(wl, flags) ==
  LET add(r, i) == LET x == wordlist_cat(r, wl.w.args[i], flags) IN IF i < Len(wl.w.args) THEN wordlist_break(x) ELSE x
  IN  FoldLeft(add, wl, [i \in DOMAIN wl.w.args |-> i])
Trimmed(wl, part, v) ==
  LET op == Params[part.u].op
      pat == StrOf(part.w, {"PATTERN"}, wl.w)
      n == Len(v)
      fits == {i \in 0..n : IF op \in {"%", "%%"} THEN path_fnmatch(pat, SubSeq(v, i + 1, n)) ELSE path_fnmatch(pat, SubSeq(v, 1, i))}
      i == CHOOSE k \in fits : \A l \in fits : IF op \in {"%", "##"} THEN l <= k ELSE k <= l
  IN  IF fits = {} THEN v ELSE IF op \in {"%", "%%"} THEN SubSeq(v, 1, i) ELSE SubSeq(v, i + 1, n)
(* ${p=word}: the word is added to the open field, the bytes it added are  *)
(* assigned, and unquoted they are taken back and added again, splitting.  *)
AssignDefault(wl, part, flags) ==
  LET before == IF wl.has /\ ~wl.closed THEN Len(wl.cur) ELSE 0
      x == expand_arg(part.w, wl, flags \cup {"NOSPLIT"})
      val == SubSeq(x.cur, before + 1, Len(x.cur))
      y == [x EXCEPT !.w.var[Params[part.u].name] = [set |-> TRUE, val |-> val]]
      undone == [y EXCEPT !.has = wl.has, !.closed = wl.closed, !.pend = wl.pend, !.st = wl.st, !.cur = SubSeq(@, 1, before)]
  IN  IF flags \cap {"NOSPLIT", "QUOTED"} = {} /\ val # <<>> THEN wordlist_cat(undone, val, flags) ELSE y
expand_param(part, wl, flags) ==
  LET u == Params[part.u]
      each == u.name = "@" \/ (u.name = "*" /\ ~Quoted(part) /\ "NOSPLIT" \notin flags /\ wl.w.ifs = <<>>)
      v == ValueOf(wl, part.u)
      word == expand_arg(part.w, wl, flags \cup {"SUBWORD"})
  IN  IF each THEN Each(wl, flags)
      ELSE CASE u.op = "+" -> IF v.set THEN word ELSE wl
             [] u.op \in {"%", "%%", "#", "##"} -> IF v.val # <<>> THEN wordlist_cat(wl, Trimmed(wl, part, v.val), flags) ELSE wl
             [] u.op \in {"", "-", "=", "?"} /\ v.set -> wordlist_cat(wl, v.val, flags)
             [] u.op = "" /\ ~v.set -> wl
             [] u.op = "-" /\ ~v.set -> word
             [] u.op = "=" /\ ~v.set -> AssignDefault(wl, part, flags)
             [] u.op = "?" /\ ~v.set -> [wl EXCEPT !.err = TRUE]

expand_arg(parts, wl, flags) ==
  LET globres == expand_globres_ok(parts)
      lf(p) == flags \cup (IF Quoted(p) THEN {"QUOTED"} ELSE {}) \cup (IF "GLOB" \in p.fl THEN {"GLOB"} ELSE {})
               \cup (IF globres /\ ~Quoted(p) /\ "QUOTED" \notin flags /\ p.k # "str" THEN {"GLOBRES"} ELSE {})
      step(r, p) == IF r.err THEN r
                    ELSE IF p.k = "param" THEN expand_param(p, r, lf(p))
                    ELSE IF p.k = "cmd" THEN wordlist_cat(r, r.w.out, lf(p))
                    ELSE wordlist_cat(r, p.s, IF p.s # <<>> THEN lf(p) \cup {"LITERAL"} ELSE lf(p))
  IN  FoldLeft(step, wl, parts)

(* Braces: the first balanced group with a comma of its own, {} if none.   *)
DepthAt(t, i, k) == Cardinality({l \in i..k : t[l] = "{"}) - Cardinality({l \in i..k : t[l] = "}"})
RECURSIVE FindGroup(_, _)
FindGroup(t, i) ==
  LET ends == {k \in i..Len(t) : t[k] = "}" /\ DepthAt(t, i, k) = 0}
      close == CHOOSE k \in ends : \A l \in ends : k <= l
  IN  IF i > Len(t) THEN <<>>
      ELSE IF t[i] # "{" THEN FindGroup(t, i + 1)
      ELSE IF ends = {} THEN <<>>
      ELSE IF \E k \in i..close : t[k] = "," /\ DepthAt(t, i, k) = 1 THEN <<i, close>> ELSE FindGroup(t, close + 1)
find_valid_group(t) == FindGroup(t, 1)
RECURSIVE expand_brace_text(_)
expand_brace_text(t) ==
  LET g == find_valid_group(t)
      tails == expand_brace_text(SubSeq(t, g[2] + 1, Len(t)))
      seps == SelectSeq([k \in DOMAIN t |-> k], LAMBDA k : k \in {g[1], g[2]} \/ (k \in g[1]..g[2] /\ t[k] = "," /\ DepthAt(t, g[1], k) = 1))
      piece(n) == [i \in DOMAIN tails |-> SubSeq(t, 1, g[1] - 1) \o SubSeq(t, seps[n] + 1, seps[n + 1] - 1) \o tails[i]]
  IN  IF g = <<>> THEN <<t>> ELSE FlattenSeq([n \in 1..Len(seps) - 1 |-> piece(n)])
expand_brace_word(parts) ==
  LET out == expand_brace_text(parts[1].s)
  IN  IF Len(parts) = 1 /\ parts[1].k = "str" /\ parts[1].q = "un" /\ "{" \in ToSet(parts[1].s) /\ Len(out) > 1
      THEN [i \in DOMAIN out |-> <<[parts[1] EXCEPT !.s = out[i], !.fl = @ \cap {"GLOB"}]>>] ELSE <<parts>>
expand_brace_args(words) == FlattenSeq([i \in DOMAIN words |-> expand_brace_word(words[i])])

(* Tildes: the length of the prefix at character i of t, 0 if none.        *)
TildeEnd(t, i, colon) ==
  LET stops == {k \in i..Len(t) : t[k] = "/" \/ (colon /\ t[k] = ":")}
  IN  IF stops = {} THEN Len(t) ELSE (CHOOSE k \in stops : \A l \in stops : k <= l) - 1
expand_tilde_lookup(t, i, colon, world) ==
  IF i <= Len(t) /\ t[i] = "~" /\ SubSeq(t, i + 1, TildeEnd(t, i, colon)) \in DOMAIN world.home THEN TildeEnd(t, i, colon) - i + 1 ELSE 0
HomeAt(t, i, n, world) == world.home[SubSeq(t, i + 1, i + n - 1)]
expand_tilde_word(parts, world) ==
  LET p == parts[1]
      n == expand_tilde_lookup(p.s, 1, FALSE, world)
  IN  IF parts = <<>> \/ p.k # "str" \/ p.q # "un" THEN parts
      ELSE IF n = 0 \/ (n = Len(p.s) /\ Len(parts) > 1) THEN parts
      ELSE <<[p EXCEPT !.q = "dq", !.s = HomeAt(p.s, 1, n, world), !.fl = {}], [p EXCEPT !.s = SubSeq(@, n + 1, Len(@))]>> \o Tail(parts)
RECURSIVE TildesFrom(_, _, _, _, _)
TildesFrom(parts, j, i, boundary, world) ==      \* part j, character i
  LET t == parts[j].s
      n == IF boundary THEN expand_tilde_lookup(t, i, TRUE, world) ELSE 0
      use == n > 0 /\ ~(i + n - 1 = Len(t) /\ j < Len(parts))
      home == HomeAt(t, i, n, world)
      done == [parts EXCEPT ![j].s = SubSeq(t, 1, i - 1) \o home \o SubSeq(t, i + n, Len(t))]
      after(ps, k) == TildesFrom(ps, j, k + 1, k <= Len(ps[j].s) /\ ps[j].s[k] = ":", world)
  IN  IF j > Len(parts) THEN parts
      ELSE IF parts[j].k # "str" \/ parts[j].q # "un" THEN TildesFrom(parts, j + 1, 1, FALSE, world)
      ELSE IF i > Len(t) THEN TildesFrom(parts, j + 1, 1, boundary, world)
      ELSE IF use THEN after(done, i + Len(home)) ELSE after(parts, i)
expand_tilde_assign(parts, world) ==
  LET eq == {k \in DOMAIN parts[1].s : parts[1].s[k] = "="}
  IN  IF parts = <<>> \/ parts[1].k # "str" \/ parts[1].q # "un" THEN parts
      ELSE IF eq = {} THEN parts
      ELSE TildesFrom(parts, 1, (CHOOSE k \in eq : \A l \in eq : k <= l) + 1, TRUE, world)

(* expand_is_empty_at: only "$@" and empty quotes, and no parameters.      *)
expand_is_empty_at(parts, world) ==
  /\ world.args = <<>>
  /\ \E i \in DOMAIN parts : parts[i].k = "param"
  /\ \A i \in DOMAIN parts :
       \/ parts[i].k = "str" /\ parts[i].s = <<>> /\ "QUOTEDEMPTY" \notin parts[i].fl /\ parts[i].q # "sq"
       \/ parts[i].k = "param" /\ parts[i].q = "dq" /\ Params[parts[i].u].name = "@" /\ Params[parts[i].u].op = ""
expand_args(words, world) ==
  LET word(r, parts) == IF r.err \/ expand_is_empty_at(parts, r.w) THEN r
                        ELSE wordlist_close(expand_arg(expand_tilde_word(parts, r.w), r, {}))
  IN  FoldLeft(word, wordlist_init(world), expand_brace_args(words))
expand_vars(words, world) ==
  LET word(r, parts) == LET x == expand_arg(expand_tilde_assign(parts, r.w), r, {"NOSPLIT"})
                        IN  wordlist_close([x EXCEPT !.st = @ \ {"GLOB", "GLOBRES"}])
  IN  FoldLeft(word, wordlist_init(world), words)

-----------------------------------------------------------------------------
(* What a line means (POSIX 2.6): every character that comes out carries   *)
(* where it is from: "lit" the text itself, "exp" an expansion, "quo"      *)
(* anything quoted.  "nul" marks a pair of quotes, "brk" the end of a      *)
(* positional parameter.                                                   *)
Ch(c, m) == [c |-> c, m |-> m]
Chars(s, m) == [i \in DOMAIN s |-> Ch(s[i], m)]
Ats(world, m) ==
  FoldLeft(LAMBDA s, i : s \o (IF i > 1 THEN <<Ch("", "brk")>> ELSE <<>>) \o (IF m = "quo" THEN <<Ch("", "nul")>> ELSE <<>>)
                          \o Chars(world.args[i], m), <<>>, [i \in DOMAIN world.args |-> i])

(* Read(in, q, sub, world): q the quoting, sub "" / "un" / "dq": in the    *)
(* word of a parameter that itself is unquoted or quoted.                  *)
RECURSIVE Read(_, _, _, _)
ReadParam(in, m, sub, world) ==
  LET u == Params[Head(in)]
      w == Read(Tail(in), "un", IF m = "quo" /\ u.op \notin {"%", "%%", "#", "##"} THEN "dq" ELSE "un", world)
      v == world.var[u.name]
      plain == FoldLeft(LAMBDA s, x : IF x.c = "" THEN s ELSE Append(s, x.c), <<>>, w.out)
      pat == FoldLeft(LAMBDA s, x : IF x.c = "" THEN s ELSE IF x.m = "quo" THEN s \o <<"\\", x.c>> ELSE Append(s, x.c), <<>>, w.out)
      n == Len(v.val)
      cuts == {i \in 0..n : Means(pat, SubSeq(v.val, i + 1, n))}
      cut == IF cuts = {} THEN v.val ELSE SubSeq(v.val, 1, CHOOSE i \in cuts : \A l \in cuts : l <= i)
  IN  CASE Head(in) = "$()" -> [out |-> Chars(world.out, m), in |-> Tail(in)]
        [] u.name = "@" -> [out |-> Ats(world, m), in |-> Tail(in)]
        [] u.name = "*" -> [out |-> IF m = "exp" THEN Ats(world, m)
                                    ELSE Chars(ValueOf([w |-> world], Head(in)).val, m), in |-> Tail(in)]
        [] u.op = "" /\ u.name \notin {"@", "*"} /\ Head(in) # "$()" -> [out |-> Chars(v.val, m), in |-> Tail(in)]
        [] u.op = "+" -> [out |-> IF v.set /\ (u.colon => v.val # <<>>) THEN w.out ELSE <<>>, in |-> w.in]
        [] u.op = "-" -> [out |-> IF v.set /\ (u.colon => v.val # <<>>) THEN Chars(v.val, m) ELSE w.out, in |-> w.in]
        [] u.op = "=" -> [out |-> Chars(IF v.set /\ (u.colon => v.val # <<>>) THEN v.val ELSE plain, m), in |-> w.in]
        [] u.op = "%" -> [out |-> Chars(cut, m), in |-> w.in]
Read(in, q, sub, world) ==
  LET c == Head(in)
      then(out, rest, q2) == LET r == Read(rest, q2, sub, world) IN [out |-> out \o r.out, in |-> r.in]
      m == IF q # "un" \/ sub = "dq" THEN "quo" ELSE "exp"
      x == ReadParam(in, m, sub, world)
      onlyAt == world.args = <<>> /\ Len(in) > 2 /\ Params[in[2]].name = "@" /\ in[3] = "qq"
      special == desc \cup {"\\"}
  IN  IF in = <<>> THEN [out |-> <<>>, in |-> <<>>]
      ELSE CASE q = "sq" -> IF c = "apos" THEN then(<<>>, Tail(in), "un") ELSE then(<<Ch(c, "quo")>>, Tail(in), "sq")
             [] q # "sq" /\ c = "\\" ->
                  IF (q = "un" /\ sub # "dq") \/ in[2] \in special
                  THEN then(<<Ch(in[2], "quo")>>, SubSeq(in, 3, Len(in)), q) ELSE then(<<Ch(c, "quo")>>, Tail(in), q)
             [] q # "sq" /\ c \in DOMAIN Params -> then(x.out, x.in, q)
             [] q = "dq" /\ c = "qq" -> then(<<>>, Tail(in), "un")
             [] q = "dq" /\ c # "qq" /\ c # "\\" /\ c \notin DOMAIN Params -> then(<<Ch(c, "quo")>>, Tail(in), q)
             [] q = "un" /\ c = "qq" -> IF Len(in) > 2 /\ in[2] \in DOMAIN Params /\ onlyAt THEN then(<<>>, SubSeq(in, 4, Len(in)), "un")
                                        ELSE then(<<Ch("", "nul")>>, Tail(in), "dq")
             [] q = "un" /\ c = "apos" /\ sub # "dq" -> then(<<Ch("", "nul")>>, Tail(in), "sq")
             [] q = "un" /\ c = "}" /\ sub # "" -> [out |-> <<>>, in |-> Tail(in)]
             [] q = "un" /\ c = "sp" /\ sub = "" -> [out |-> <<>>, in |-> in]
             [] OTHER -> then(<<Ch(c, IF sub = "dq" THEN "quo" ELSE IF sub = "un" THEN "exp" ELSE "lit")>>, Tail(in), q)

(* Field splitting of what came out of one word.                           *)
Fields(out, ifs) ==
  LET end(a) == [a EXCEPT !.fs = Append(@, a.cur), !.cur = <<>>, !.on = FALSE]
      add(a, x) ==
        CASE x.m = "nul" -> [a EXCEPT !.on = TRUE, !.ws = FALSE]
          [] x.m = "brk" -> [(IF a.on THEN end(a) ELSE a) EXCEPT !.ws = FALSE]
          [] x.m = "exp" /\ x.c \in ToSet(ifs) /\ x.c = "sp" -> IF a.on THEN [end(a) EXCEPT !.ws = TRUE] ELSE a
          [] x.m = "exp" /\ x.c \in ToSet(ifs) /\ x.c # "sp" -> IF a.ws THEN [a EXCEPT !.ws = FALSE] ELSE end(a)
          [] OTHER -> [a EXCEPT !.cur = Append(@, x), !.on = TRUE, !.ws = FALSE]
      a == FoldLeft(add, [fs |-> <<>>, cur |-> <<>>, on |-> FALSE, ws |-> FALSE], out)
  IN  IF a.on THEN Append(a.fs, a.cur) ELSE a.fs
Plainly(f) == [i \in DOMAIN f |-> f[i].c]
Globbed(f, world) ==
  LET pat == FoldLeft(LAMBDA s, x : IF x.m = "quo" THEN s \o <<"\\", x.c>> ELSE Append(s, x.c), <<>>, f)
      active == \E i \in DOMAIN f : f[i].m # "quo" /\ f[i].c \in {"*", "?", "["}
  IN  IF active /\ ~world.noglob /\ Glob(world, pat) # <<>> THEN Glob(world, pat) ELSE <<Plainly(f)>>
(* A tilde-prefix: nothing in it is quoted, escaped or expanded.           *)
TildeName(in, stop) == SelectInSeq(in, LAMBDA c : c \in stop)
Tilde(in, stop, world) ==
  LET k == TildeName(in, stop \cup {"sp"})
      name == SubSeq(in, 2, IF k = 0 THEN Len(in) ELSE k - 1)
      known == in # <<>> /\ Head(in) = "~" /\ name \in DOMAIN world.home
  IN  [out |-> IF known THEN Chars(world.home[name], "quo") ELSE <<>>, in |-> IF known THEN SubSeq(in, Len(name) + 2, Len(in)) ELSE in]
RECURSIVE LineFields(_, _)
LineFields(in, world) ==
  LET t == Tilde(in, {"/"}, world)
      r == Read(t.in, "un", "", world)
      fs == Fields(t.out \o r.out, world.ifs)
  IN  IF in = <<>> THEN <<>>
      ELSE IF Head(in) = "sp" THEN LineFields(Tail(in), world)
      ELSE FlattenSeq([i \in DOMAIN fs |-> Globbed(fs[i], world)]) \o LineFields(r.in, world)

(* The value of an assignment: a tilde-prefix may begin it and follow any  *)
(* colon that is neither quoted nor escaped (those Bare has in at; bs: a   *)
(* backslash stands outside quotes).                                       *)
Bare(in) ==
  FoldLeft(LAMBDA a, c : CASE a.esc -> [a EXCEPT !.esc = FALSE, !.n = @ + 1]
                           [] ~a.esc /\ c = "\\" /\ a.q # "apos" ->
                                [a EXCEPT !.esc = TRUE, !.n = @ + 1, !.bs = @ \/ a.q = ""]
                           [] ~a.esc /\ c \in {"qq", "apos"} /\ a.q \in {"", c} -> [a EXCEPT !.q = IF a.q = "" THEN c ELSE "", !.n = @ + 1]
                           [] OTHER -> [a EXCEPT !.at = IF a.q = "" THEN @ \cup {a.n + 1} ELSE @, !.n = @ + 1],
           [esc |-> FALSE, q |-> "", n |-> 0, at |-> {}, bs |-> FALSE], in)
RECURSIVE Value(_, _, _)
Value(in, i, world) ==
  LET begins(k) == k = 1 \/ (in[k - 1] = ":" /\ k - 1 \in Bare(in).at)
      next == {k \in i + 1..Len(in) : begins(k)}
      j == IF next = {} THEN Len(in) + 1 ELSE CHOOSE k \in next : \A l \in next : k <= l
      t == Tilde(SubSeq(in, i, j - 1), {"/", ":"}, world)
  IN  IF i > Len(in) THEN <<>> ELSE t.out \o Read(t.in, "un", "", world).out \o Value(in, j, world)
AssignMeans(name, in, world) == <<name \o Plainly(SelectSeq(Value(in, 1, world), LAMBDA x : x.c # ""))>>

(* A word of literal text and groups that hold no group: the n-th of the   *)
(* words is that of the n-th choice, the last group turning fastest.       *)
RECURSIVE Segments(_)
Segments(t) ==
  LET o == SelectInSeq(t, LAMBDA c : c = "{")
      c == SelectInSeq(t, LAMBDA d : d = "}")
      in == SubSeq(t, o + 1, c - 1)
      cuts == <<0>> \o SelectSeq([i \in DOMAIN in |-> IF in[i] = "," THEN i ELSE 0], LAMBDA i : i > 0) \o <<Len(in) + 1>>
  IN  IF o = 0 \/ c < o THEN <<<<t>>>>
      ELSE <<<<SubSeq(t, 1, o - 1)>>,
             IF Len(cuts) = 2 THEN <<SubSeq(t, o, c)>> ELSE [i \in 1..Len(cuts) - 1 |-> SubSeq(in, cuts[i] + 1, cuts[i + 1] - 1)]>>
           \o Segments(SubSeq(t, c + 1, Len(t)))
RECURSIVE Picks(_)
Picks(segs) == IF segs = <<>> THEN <<<<>>>>
                 ELSE FlattenSeq([i \in DOMAIN segs[1] |-> [j \in DOMAIN Picks(Tail(segs)) |-> segs[1][i] \o Picks(Tail(segs))[j]]])
BraceWords(t) == Picks(Segments(t))
(* Groups are closed, in order, and hold none: deeper ones are left as     *)
(* they are by expand_brace_text.                                          *)
Flat(t) == DepthAt(t, 1, Len(t)) = 0 /\ \A i \in DOMAIN t : DepthAt(t, 1, i) \in 0..1

(* Lines on which the two must agree.  Left out is what the code does      *)
(* otherwise: an escape or a pattern character whose word goes on with a   *)
(* quote or an expansion (parse_unquoted flushes it without its flags and  *)
(* wordlist_cat keeps the escape), the positional parameters inside ${...},*)
(* a second "$@" when there are none, the results that                     *)
(* expand_globres_ok() keeps from being patterns, and text next to a value *)
(* with a backslash (wordlist_close unescapes the whole field), and quotes *)
(* in the word ${x=word} assigns (a field, though the value is empty).     *)
Agreed(in, world) ==
  LET bare == {in[i] : i \in Bare(in).at}
      units == SelectSeq(in, LAMBDA c : c \in DOMAIN Params)
      all(n) == {i \in DOMAIN units : Params[units[i]].name \in n}
      quotes == ToSet(in) \cap {"qq", "apos"} # {}
  IN  /\ Bare(in).bs => units = <<>>
      /\ "*" \in bare => units = <<>> /\ ~quotes
      /\ all({"@", "*"}) # {} => \A i \in DOMAIN units : ~Params[units[i]].word
      /\ "\\" \in ToSet(world.out) => units = <<>> \/ ToSet(in) \subseteq DOMAIN Params \cup {"sp", "qq"}
      /\ quotes => \A i \in DOMAIN units : Params[units[i]].op # "="
      /\ world.args = <<>> => Cardinality(all({"@", "*"})) < 2
      /\ ~world.noglob => Len(units) < 2 /\ (units # <<>> => ~quotes /\ ~Params[units[1]].word)
=============================================================================
