------------------------------ MODULE Grammar ------------------------------
(***************************************************************************)
(* The shell grammar: src/parse above the level of words, the pending      *)
(* here-documents of src/redir, alias substitution of src/source, and the  *)
(* printer of src/tree that turns a tree back into a script (history, job  *)
(* names, the formatter).                                                  *)
(*                                                                         *)
(* The text is a sequence of lexical units: operators, "nl", words,        *)
(* redirections with their operand ("<<E" has delimiter Delim["<<E"]) and, *)
(* where a here-document's body stands, its lines.  struct parser is the   *)
(* record p passed through the operators:                                  *)
(*   in    what is left to read, alias text included                       *)
(*   tok, w, pb   current token, its word, and whether it is pushed back   *)
(*   fl    P_NOKEYWD, P_NOASSIGN, P_SKIPNL      ok  alias_ok               *)
(*   blank alias_scan.blank                                                *)
(*   pend  redir_list: <<document, delimiter>>; doc their bodies           *)
(*   err   a syntax error ended the shell; cut: at the end of the input    *)
(* A parse_ operator returns [p, n], n the node or NULL.                   *)
(***************************************************************************)
EXTENDS Integers, Sequences, SequencesExt, FiniteSets, Functions

CONSTANTS Names, Words, Assigns,  \* classes of words
          Redirs,                 \* redirections other than here-documents
          Delim,                  \* here-document operators and their delimiters
          Aliases                 \* name -> [text, blank]

Keywords == {"case", "do", "done", "elif", "else", "esac", "fi", "for", "if",
             "in", "then", "until", "while", "{", "}", "!"}
Operators == {"nl", ";", ";;", "&", "&&", "|", "||", "(", ")"}
Unit(t) == [t |-> t, end |-> "", blank |-> FALSE]
Units(s) == [i \in DOMAIN s |-> Unit(s[i])]
NULL == [k |-> "null", s |-> <<>>, c |-> <<>>, rd |-> <<>>, bg |-> FALSE]
Node(k, s, c) == [k |-> k, s |-> s, c |-> c, rd |-> <<>>, bg |-> FALSE]

parse_init(s) == [in |-> Units(s), tok |-> "eof", w |-> "", pb |-> FALSE, fl |-> {}, ok |-> TRUE,
                  blank |-> FALSE, pend |-> <<>>, doc |-> <<>>, err |-> FALSE, cut |-> FALSE]
Fail(p) == [p EXCEPT !.err = TRUE, !.cut = @ \/ (p.tok = "eof" /\ ~p.err), !.in = <<>>, !.tok = "eof", !.pb = FALSE]
Push(p) == [p EXCEPT !.pb = TRUE]

-----------------------------------------------------------------------------
(* parse_here, for every pending document in turn (redir_source): lines up *)
(* to the delimiter, or to the end of the input.                           *)
RECURSIVE redir_source(_)
redir_source(p) ==
  IF p.pend = <<>> THEN p
  ELSE LET d == Head(p.pend)
           ends == {i \in DOMAIN p.in : p.in[i].t = d[2]}
           n == IF ends = {} THEN Len(p.in) ELSE (CHOOSE i \in ends : \A j \in ends : i <= j) - 1
           rest == IF ends = {} THEN n ELSE n + 1
       IN  redir_source([p EXCEPT !.pend = Tail(@), !.in = SubSeq(@, rest + 1, Len(@)),
                                  !.doc[d[1]] = [i \in 1..n |-> p.in[i].t]])

(* The text of an alias replaces the word and is followed by a mark where  *)
(* it ends; while the mark is still to be read, the alias is being read    *)
(* and its name is not expanded again (source_alias_active).               *)
source_alias_active(p, a) == \E i \in DOMAIN p.in : p.in[i].end = a
source_alias_push(p, a) ==
  [p EXCEPT !.in = Units(Aliases[a].text) \o <<[t |-> "", end |-> a, blank |-> Aliases[a].blank]>> \o @]

(* parse_alias_next: does a command word come next?                        *)
(* What a mutated one would do: a redirection ends the lookup.             *)
AliasNextForgetsRedir(tok, cur) ==
  tok \in {"nl", ";", "&", "&&", "||", "|", "(", ")", "!", "if", "then", "elif", "else", "while", "until", "do", "{"}
parse_alias_next(tok, cur) ==
  \/ tok \in {"nl", ";", "&", "&&", "||", "|", "(", ")", "!", "if", "then", "elif", "else", "while", "until", "do", "{"}
  \/ tok \in {"assign", "redir"} /\ cur

parse_keyword(t, use) ==
  IF t \in Keywords /\ "NOKEYWD" \notin use
  THEN IF use \cap {"KWIN", "KWDO"} = {} \/ (t = "in" /\ "KWIN" \in use) \/ (t = "do" /\ "KWDO" \in use)
       THEN t ELSE "name"
  ELSE IF t \in Assigns THEN "assign"
  ELSE IF t \in Names \/ t \in Keywords \ {"{", "}", "!"} THEN "name" ELSE "word"

(* parse_simpletok and parse_word: the next unit and its token.            *)
RECURSIVE Scan(_, _, _)
Scan(p, use, aliasok) ==
  LET t == Head(p.in).t
      q == [p EXCEPT !.in = Tail(@)]
      got(r, tok) == [r EXCEPT !.tok = tok, !.blank = FALSE, !.ok = parse_alias_next(tok, p.ok)]
      nl == redir_source(q)
      kw == parse_keyword(t, use)
      word == [q EXCEPT !.w = t]
      here == [q EXCEPT !.w = t, !.pend = Append(@, <<Len(q.doc) + 1, Delim[t]>>), !.doc = Append(@, <<>>)]
  IN  IF p.in = <<>> THEN got(p, "eof")
      ELSE IF Head(p.in).end # "" THEN Scan([q EXCEPT !.blank = @ \/ Head(p.in).blank], use, aliasok)
      ELSE IF t = "nl" THEN IF "SKIPNL" \in use THEN Scan(nl, use, aliasok) ELSE got(nl, "nl")
      ELSE IF t \in Operators THEN got(q, t)
      ELSE IF t \in Redirs THEN got(word, "redir")
      ELSE IF t \in DOMAIN Delim THEN got(here, "redir")
      ELSE IF kw \in {"name", "word"} /\ t \in DOMAIN Aliases /\ (aliasok \/ p.blank)
              /\ "NOALIAS" \notin use /\ ~source_alias_active(q, t)
           THEN Scan(source_alias_push([q EXCEPT !.blank = FALSE], t), use, TRUE)
      ELSE got(word, kw)

parse_gettok(p, flags) ==
  LET use == p.fl \cup flags
  IN  IF p.pb /\ ~("SKIPNL" \in use /\ p.tok = "nl") THEN [p EXCEPT !.pb = FALSE]
      ELSE Scan([p EXCEPT !.pb = FALSE], use, p.ok)

parse_expect(p, flags, toks) ==
  LET t == parse_gettok(p, flags) IN IF t.tok \in toks THEN t ELSE Fail(t)

RECURSIVE SkipNl(_, _)
SkipNl(p, flags) == LET t == parse_gettok(p, flags) IN IF t.tok = "nl" THEN SkipNl(t, flags) ELSE Push(t)

(* A redirection node: its unit, and the document it will be given.        *)
Redir(p) == [t |-> p.w, doc |-> IF p.w \in DOMAIN Delim THEN Len(p.doc) ELSE 0]

RECURSIVE RedirsFrom(_, _)
RedirsFrom(p, n) ==
  LET t == parse_gettok(p, {})
  IN  IF t.tok = "redir" THEN RedirsFrom(t, [n EXCEPT !.rd = Append(@, Redir(t))]) ELSE [p |-> Push(t), n |-> n]

-----------------------------------------------------------------------------
RECURSIVE parse_command(_, _)
RECURSIVE parse_compound_list(_, _)

(* parse_pipeline                                                          *)
RECURSIVE PipeFrom(_, _)
PipeFrom(p, cmds) ==
  LET x == parse_command(p, {"SKIPNL"})
      t == parse_gettok(x.p, {})
  IN  IF x.n = NULL THEN [p |-> Fail(x.p), n |-> NULL]
      ELSE IF t.tok = "|" THEN PipeFrom(t, Append(cmds, x.n))
      ELSE [p |-> Push(t), n |-> Node("pipe", <<>>, <<Append(cmds, x.n)>>)]
RECURSIVE Prefixed(_, _, _)
Prefixed(p, neg, timed) ==          \* any number of "!", at most one "time"
  LET t == parse_gettok(p, {})
  IN  IF t.tok = "!" THEN Prefixed(t, ~neg, timed)
      ELSE IF t.tok = "name" /\ t.w = "time" /\ ~timed THEN Prefixed(t, neg, TRUE)
      ELSE [p |-> Push(t), neg |-> neg, timed |-> timed]
parse_pipeline(p) ==
  LET pre == Prefixed(p, FALSE, FALSE)
      x == parse_command(pre.p, {})
      t == parse_gettok(x.p, {})
      y == IF t.tok = "|" THEN PipeFrom(t, <<x.n>>) ELSE [p |-> Push(t), n |-> x.n]
      tm == IF pre.timed THEN Node("time", <<>>, <<<<y.n>>>>) ELSE y.n
  IN  IF x.n = NULL THEN [p |-> IF pre.timed THEN Fail(x.p) ELSE x.p, n |-> NULL]
      ELSE IF y.n = NULL THEN y
      ELSE [p |-> y.p, n |-> IF pre.neg THEN Node("!", <<>>, <<<<tm>>>>) ELSE tm]

(* parse_and_or.  An operator with nothing behind it is forgotten.         *)
RECURSIVE AndOrFrom(_, _)
AndOrFrom(p, left) ==
  LET t == parse_gettok(p, {})
      x == parse_pipeline(SkipNl(t, {"SKIPNL"}))
  IN  IF t.tok \notin {"&&", "||"} THEN [p |-> Push(t), n |-> left]
      ELSE IF x.n = NULL THEN [p |-> Push(x.p), n |-> left]
      ELSE AndOrFrom(x.p, Node(t.tok, <<>>, <<<<left>>, <<x.n>>>>))
parse_and_or(p) == LET x == parse_pipeline(p) IN IF x.n = NULL THEN x ELSE AndOrFrom(x.p, x.n)

(* parse_list: and-or lists up to a newline; "&" marks the one before it.  *)
RECURSIVE ListFrom(_, _)
ListFrom(p, cmds) ==
  LET x == parse_and_or(p)
      t == parse_gettok(x.p, {})
  IN  IF x.n = NULL THEN [p |-> x.p, n |-> cmds]
      ELSE IF t.tok \in {";", "&"} THEN ListFrom(t, Append(cmds, [x.n EXCEPT !.bg = t.tok = "&"]))
      ELSE [p |-> IF t.tok = "nl" THEN t ELSE Push(t), n |-> Append(cmds, x.n)]
parse_list(p) ==
  LET x == ListFrom(p, <<>>)
  IN  [p |-> x.p, n |-> CASE Len(x.n) = 0 -> NULL [] Len(x.n) = 1 -> x.n[1] [] OTHER -> Node("list", <<>>, <<x.n>>)]

RECURSIVE CompoundFrom(_, _, _)
CompoundFrom(p, end, lists) ==
  LET a == SkipNl(IF end = "}" THEN [p EXCEPT !.fl = {}] ELSE p, {})
      x == parse_list(a)
      b == IF x.p.tok = "nl" THEN SkipNl([x.p EXCEPT !.pb = FALSE], {}) ELSE Push(x.p)
  IN  IF a.tok = end THEN [p |-> a, n |-> lists]
      ELSE IF x.n = NULL THEN [p |-> b, n |-> lists]
      ELSE CompoundFrom(b, end, Append(lists, x.n))
parse_compound_list(p, end) == CompoundFrom(p, end, <<>>)

(* parse_simple_command: once there is an argument, neither keywords nor   *)
(* assignments are looked for.                                             *)
RECURSIVE SimpleFrom(_, _)
SimpleFrom(p, n) ==
  LET t == parse_gettok(p, {})
      plain == [t EXCEPT !.fl = @ \ {"SKIPNL"}]
      arg == [t EXCEPT !.fl = (@ \cup {"NOKEYWD", "NOASSIGN"}) \ {"SKIPNL"}]
  IN  IF t.tok = "assign" /\ "NOASSIGN" \notin t.fl THEN SimpleFrom(plain, [n EXCEPT !.s[1] = Append(@, t.w)])
      ELSE IF t.tok \in {"name", "word", "assign"} THEN SimpleFrom(arg, [n EXCEPT !.s[2] = Append(@, t.w)])
      ELSE IF t.tok = "redir" THEN SimpleFrom(plain, [n EXCEPT !.rd = Append(@, Redir(t))])
      ELSE [p |-> [Push(t) EXCEPT !.fl = @ \ {"NOKEYWD", "NOASSIGN"}], n |-> n]
parse_simple_command(p) == SimpleFrom(p, Node("cmd", <<<<>>, <<>>>>, <<>>))

parse_grouping(p, flags) ==
  LET t == parse_expect(p, flags, {"(", "{"})
      close == IF t.tok = "(" THEN ")" ELSE "}"
      x == parse_compound_list(t, close)
      e == parse_expect(x.p, {}, {close})
  IN  IF t.err \/ e.err THEN [p |-> e, n |-> NULL]
      ELSE IF x.n = <<>> THEN [p |-> e, n |-> NULL]
      ELSE RedirsFrom(e, Node(IF close = ")" THEN "sub" ELSE "grp", <<>>, <<x.n>>))

(* parse_if: elif nests in the else branch.                                *)
RECURSIVE parse_if(_)
parse_if(p) ==
  LET c == parse_compound_list(p, "then")
      b == parse_compound_list(parse_expect(c.p, {}, {"then"}), "none")
      t == parse_gettok(b.p, {})
      elif == parse_if(t)
      else == parse_compound_list(t, "fi")
      node(rest) == Node("if", <<>>, <<c.n, b.n, rest>>)
      fi(q, rest) == [p |-> parse_expect(q, {}, {"fi"}), n |-> node(rest)]
  IN  IF b.p.err THEN [p |-> b.p, n |-> NULL]
      ELSE IF t.tok = "elif" THEN [p |-> elif.p, n |-> IF elif.n = NULL THEN NULL ELSE node(<<elif.n>>)]
      ELSE IF t.tok = "else" THEN fi(else.p, else.n) ELSE fi(Push(t), <<>>)

parse_loop(p) ==
  LET c == parse_compound_list(p, "do")
      b == parse_compound_list(parse_expect(c.p, {}, {"do"}), "done")
  IN  [p |-> parse_expect(b.p, {}, {"done"}), n |-> Node(p.tok, <<>>, <<c.n, b.n>>)]

RECURSIVE ArgsFrom(_, _)
ArgsFrom(p, args) ==
  LET t == parse_gettok(p, {"NOKEYWD"})
  IN  IF t.tok \in {"word", "name", "assign"} THEN ArgsFrom(t, Append(args, t.w)) ELSE [p |-> Push(t), n |-> args]
parse_for(p) ==
  LET v == parse_expect(p, {"NOKEYWD"}, {"name"})
      i == parse_gettok(v, {"SKIPNL", "KWIN", "KWDO"})
      a == IF i.tok = "in" THEN ArgsFrom(i, <<>>) ELSE [p |-> Push(i), n |-> <<>>]
      s == parse_gettok(a.p, {"KWDO"})
      d == parse_expect(IF s.tok = ";" THEN s ELSE Push(s), {"SKIPNL", "KWDO"}, {"do"})
      b == parse_compound_list(d, "done")
  IN  [p |-> parse_expect(b.p, {}, {"done"}),
       n |-> Node(IF i.tok = "in" THEN "forin" ELSE "for", <<<<v.w>>, a.n>>, <<b.n>>)]

(* parse_case: patterns, with or without "(", up to ")".                   *)
RECURSIVE PatsFrom(_, _)
PatsFrom(p, pats) ==
  LET t == parse_gettok(p, {"SKIPNL", "NOKEYWD"})
      b == parse_gettok(t, {"NOKEYWD"})
      mute(q) == [q EXCEPT !.ok = FALSE]
  IN  IF t.tok = "(" THEN PatsFrom(mute(t), pats)
      ELSE IF t.tok \notin {"word", "name", "assign"} THEN [p |-> Push(t), n |-> pats]
      ELSE IF b.tok = "|" THEN PatsFrom(mute(b), Append(pats, t.w))
      ELSE [p |-> Push(b), n |-> Append(pats, t.w)]
RECURSIVE ItemsFrom(_, _)
ItemsFrom(p, items) ==
  LET t == parse_gettok(p, {"SKIPNL"})
      first == IF t.tok = "(" THEN [t EXCEPT !.ok = FALSE]
               ELSE Push(IF t.tok \in {"word", "name", "assign"} THEN t
                         ELSE [t EXCEPT !.tok = "name", !.w = IF t.tok \in Keywords THEN @ ELSE ""])
      x == PatsFrom(first, <<>>)
      r == parse_expect(x.p, {"NOKEYWD"}, {")", "|"})
      b == parse_compound_list(r, "none")
      e == parse_expect(b.p, {}, {"esac", ";;"})
      all == Append(items, Node("item", <<x.n>>, <<b.n>>))
  IN  IF p.err THEN [p |-> p, n |-> NULL]
      ELSE IF t.tok = "esac" THEN [p |-> t, n |-> items]
      ELSE IF r.err \/ e.err THEN [p |-> e, n |-> <<>>]
      ELSE IF e.tok = "esac" THEN [p |-> e, n |-> all]
      ELSE ItemsFrom(e, all)
parse_case(p) ==
  LET w == parse_expect(p, {"NOKEYWD"}, {"word", "name", "assign"})
      i == parse_expect(w, {"SKIPNL", "KWIN"}, {"in"})
      x == ItemsFrom([i EXCEPT !.ok = FALSE], <<>>)
  IN  IF i.err \/ x.p.err THEN [p |-> Fail(p), n |-> NULL]
      ELSE [p |-> x.p, n |-> Node("case", <<<<w.w>>>>, <<x.n>>)]

(* parse_function: newlines and names before the body are skipped over.    *)
RECURSIVE SkipNames(_)
SkipNames(p) == LET t == parse_gettok(p, {}) IN IF t.tok \in {"nl", "name"} THEN SkipNames(t) ELSE Push(t)
parse_function(p) ==
  LET t == parse_gettok(SkipNames(p), {"SKIPNL"})
      x == IF t.tok \in {"(", "{"} THEN parse_grouping(Push(t), {"SKIPNL"}) ELSE parse_command(Push(t), {})
      r == RedirsFrom(x.p, x.n)
  IN  IF x.n = NULL THEN x
      ELSE [p |-> r.p, n |-> Node("fun", <<<<p.w>>>>, <<<<r.n>>>>)]

parse_command(p, flags) ==
  LET t == parse_gettok(p, flags)
      call == Len(t.in) >= 2 /\ t.in[1].t = "(" /\ t.in[2].t = ")"
      x == CASE t.tok = "for" -> parse_for(t)
             [] t.tok = "case" -> parse_case(t)
             [] t.tok = "if" -> parse_if(t)
             [] t.tok \in {"while", "until"} -> parse_loop(t)
             [] t.tok \in {"(", "{"} -> parse_grouping(Push(t), {})
             [] OTHER -> parse_simple_command(Push(t))
  IN  IF t.tok \notin {"for", "case", "if", "while", "until", "(", "{", "name", "word", "redir", "assign"}
      THEN [p |-> Push(t), n |-> NULL]
      ELSE IF t.tok = "name" /\ call THEN parse_function([t EXCEPT !.in = SubSeq(@, 3, Len(@))])
      ELSE IF x.n = NULL \/ x.p.err THEN [p |-> Push(x.p), n |-> NULL]
      ELSE RedirsFrom(x.p, x.n)

(* sh_loop: one list after another until the end of the input; a token     *)
(* that cannot follow a list is a syntax error.                            *)
RECURSIVE LoopFrom(_, _)
LoopFrom(p, lists) ==
  LET t == parse_gettok(p, {})
      x == parse_list(Push(t))
      all == IF x.n = NULL THEN lists ELSE Append(lists, x.n)
  IN  IF t.tok = "eof" THEN [p |-> t, n |-> lists]
      ELSE IF x.p.err THEN [p |-> x.p, n |-> lists]
      ELSE IF x.p.tok \in {"nl", ";", "&"} THEN LoopFrom([x.p EXCEPT !.pb = FALSE], all)
      ELSE [p |-> IF x.p.tok = "eof" THEN x.p ELSE Fail(x.p), n |-> all]
sh_loop(s) == LoopFrom(parse_init(s), <<>>)

-----------------------------------------------------------------------------
(* The printer.  o.out is what was printed, o.here the bodies that wait    *)
(* for the end of their line (tree_here).                                  *)
tree_isbgnd(n) == n.bg /\ n.k \notin {"fun", "list", "item"}
Cat(o, s) == [o EXCEPT !.out = @ \o s]
tree_here_leave(o) == IF o.here = <<>> THEN o ELSE [out |-> o.out \o <<"nl">> \o o.here, here |-> <<>>]
(* What a mutated tree_catseparator would do: here-document bodies wait    *)
(* on.                                                                     *)
SeparatorKeepsBodies(o, sep) == Cat(o, sep)
tree_catseparator(o, sep) ==
  LET cat(r, t) == IF t = "nl" THEN [out |-> Append(r.out, "nl") \o r.here, here |-> <<>>] ELSE Cat(r, <<t>>)
  IN  FoldLeft(cat, o, sep)
CatRedirs(o, rd, doc) ==
  LET cat(r, x) == IF x.doc = 0 THEN Cat(r, <<x.t>>)
                   ELSE [out |-> Append(r.out, x.t), here |-> r.here \o doc[x.doc] \o <<Delim[x.t]>>]
  IN  FoldLeft(cat, o, rd)

RECURSIVE tree_cat_n(_, _, _, _)
(* Every statement but the last is followed by the separator; the "&" of a *)
(* background statement takes the place of a ";".                          *)
tree_catlist_n(o, list, sep, doc) ==
  LET stmt(r, i) ==
        LET n == list[i]
            b == IF tree_isbgnd(n) THEN Cat(tree_cat_n(r, n, <<>>, doc), <<"&">>) ELSE tree_cat_n(r, n, <<>>, doc)
        IN  IF i = Len(list) THEN b
            ELSE tree_catseparator(b, IF tree_isbgnd(n) /\ sep = <<";">> THEN <<>> ELSE sep)
  IN  FoldLeft(stmt, o, [i \in DOMAIN list |-> i])

RECURSIVE LastBgnd(_)
LastBgnd(list) == list # <<>> /\ IF Last(list).k = "list" THEN LastBgnd(Last(list).c[1]) ELSE tree_isbgnd(Last(list))

(* N_IF: an else branch that is one if alone becomes elif, and the         *)
(* redirections printed after fi are those of the if printed last.         *)
RECURSIVE CatIf(_, _, _, _)
CatIf(o, if, n, doc) ==
  LET c == tree_catlist_n(Cat(o, <<if>>), n.c[1], <<";">>, doc)
      b == IF n.c[2] = <<>> THEN c ELSE tree_catlist_n(tree_catseparator(c, <<";", "then", "nl">>), n.c[2], <<"nl">>, doc)
      fi(r) == CatRedirs(Cat(tree_catseparator(r, <<"nl">>), <<"fi">>), n.rd, doc)
  IN  IF n.c[3] = <<>> THEN fi(b)
      ELSE IF Len(n.c[3]) = 1 /\ n.c[3][1].k = "if" THEN CatIf(tree_catseparator(b, <<"nl">>), "elif", n.c[3][1], doc)
      ELSE fi(tree_catlist_n(tree_catseparator(b, <<"nl", "else", "nl">>), n.c[3], <<"nl">>, doc))

(* tree_cat_n; sep is not empty for the body of a function.                *)
tree_cat_n(o, n, sep, doc) ==
  LET or(d) == IF sep = <<>> THEN d ELSE sep
      rd(r) == CatRedirs(r, n.rd, doc)
      bodysep(r) == IF LastBgnd(n.c[1]) THEN r ELSE Cat(r, <<";">>)
      member(r, i) == LET x == n.c[1][i] y == tree_cat_n(r, x, <<>>, doc)
                      IN Cat(y, (IF tree_isbgnd(x) THEN <<"&">> ELSE <<>>) \o IF i < Len(n.c[1]) THEN <<"|">> ELSE <<>>)
      pats == FoldLeft(LAMBDA s, i : s \o (IF i = 1 THEN <<>> ELSE <<"|">>) \o <<n.s[1][i]>>, <<>>,
                       [i \in 1..Len(n.s[1]) |-> i])
      line(r, i) == tree_catlist_n(r, n.c[i], <<";">>, doc)
  IN  CASE n.k = "null" -> o
        [] n.k = "cmd" -> rd(Cat(o, n.s[1] \o n.s[2]))
        [] n.k = "pipe" -> FoldLeft(member, o, [i \in DOMAIN n.c[1] |-> i])
        [] n.k = "if" -> CatIf(o, "if", n, doc)
        [] n.k \in {"for", "forin"} ->
             LET h == Cat(o, <<"for">> \o n.s[1] \o (IF n.k = "forin" THEN <<"in">> \o n.s[2] ELSE <<>>) \o <<";", "do">>)
                 b == line(h, 1)
             IN  rd(Cat(IF Last(b.out) = "&" THEN b ELSE Cat(b, <<";">>), <<"done">>))
        [] n.k \in {"while", "until"} ->
             LET h == tree_catseparator(line(Cat(o, <<n.k>>), 1), <<";", "do", "nl">>)
             IN  rd(Cat(tree_catseparator(tree_catlist_n(h, n.c[2], <<"nl">>, doc), or(<<"nl">>)), <<"done">>))
        [] n.k = "case" ->
             LET h == tree_catseparator(Cat(o, <<"case">> \o n.s[1] \o <<"in">>), or(<<"nl">>))
             IN  rd(Cat(tree_catseparator(tree_catlist_n(h, n.c[1], or(<<"nl">>), doc), or(<<"nl">>)), <<"esac">>))
        [] n.k = "item" -> Cat(tree_catlist_n(Cat(o, pats \o <<")">>), n.c[1], or(<<"nl">>), doc), <<";;">>)
        [] n.k = "time" -> line(Cat(o, <<"time">>), 1)
        [] n.k = "!" -> line(Cat(o, <<"!">>), 1)
        [] n.k \in {"&&", "||"} -> line(Cat(line(o, 1), <<n.k>>), 2)
        [] n.k = "list" -> line(o, 1)
        [] n.k = "sub" -> rd(Cat(tree_catlist_n(Cat(o, <<"(">>), n.c[1], <<"nl">>, doc), <<")">>))
        [] n.k = "grp" ->
             LET h == tree_catseparator(Cat(o, <<"{">>), or(<<"nl">>))
             IN  rd(Cat(tree_catseparator(bodysep(tree_catlist_n(h, n.c[1], or(<<";">>), doc)), or(<<"nl">>)), <<"}">>))
        [] n.k = "fun" -> tree_cat_n(Cat(o, n.s[1] \o <<"(", ")">>), n.c[1][1], <<"nl">>, doc)
tree_cat(n, doc) ==
  LET o == tree_cat_n([out |-> <<>>, here |-> <<>>], n, <<>>, doc)
  IN  tree_here_leave(IF tree_isbgnd(n) THEN Cat(o, <<"&">>) ELSE o).out

-----------------------------------------------------------------------------
(* What a tree means, lists of lists flattened and documents in place.     *)
RECURSIVE Meaning(_, _)
Meaning(list, doc) ==
  LET of(n) == [n EXCEPT !.c = [i \in DOMAIN n.c |-> Meaning(n.c[i], doc)],
                         !.rd = [i \in DOMAIN n.rd |-> [t |-> n.rd[i].t, doc |-> IF n.rd[i].doc = 0 THEN <<>> ELSE doc[n.rd[i].doc]]]]
  IN  FlattenSeq([i \in DOMAIN list |-> IF list[i].k = "list" THEN Meaning(list[i].c[1], doc) ELSE <<of(list[i])>>])

(* The nodes of a list of trees.                                           *)
RECURSIVE NodesOf(_)
NodesOf(list) == UNION {{list[i]} \cup UNION {NodesOf(list[i].c[j]) : j \in DOMAIN list[i].c} : i \in DOMAIN list}
=============================================================================
