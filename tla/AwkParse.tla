------------------------------ MODULE AwkParse ------------------------------
(***************************************************************************)
(* The lexer and the parser of the awk language (text/awk/awk_lex.c,       *)
(* awk_parse.c, awk_compile.c), and the writing of a parsed program with   *)
(* the parentheses POSIX's precedence table asks for.                      *)
(*                                                                         *)
(* Text is a sequence of units: one for each character of an operator, "sp"*)
(* and "nl", and one for a whole name, number, string or keyword.  A token *)
(* is [k, s]: its kind (an operator is its own kind) and its unit.  A node *)
(* is [op, s, a]: operation, name or variant, operands.  A parser is       *)
(* [toks, i, err, no_gt]; an error moves it to the end, since the code     *)
(* reports the first one and uses nothing of the tree.                     *)
(***************************************************************************)
EXTENDS Naturals, SequencesExt

CONSTANTS AwkNames, AwkNumbers, AwkStrings

Keywords == {"BEGIN", "END", "function", "if", "else", "while", "for", "do", "break", "continue", "next", "nextfile", "exit", "return",
             "delete", "in", "print", "printf", "getline"}
Builtins == {"length", "substr", "sub"}

-----------------------------------------------------------------------------
(* The lexer.  A "/" begins a regular expression where no operand can end. *)
ends_operand(k) == k \in {"name", "number", "string", "ere", ")", "]", "++", "--", "builtin", "$"}
Two == {<<"^", "=", "^=">>, <<"%", "=", "%=">>, <<"=", "=", "==">>, <<"!", "=", "!=">>, <<"!", "~", "!~">>, <<"<", "=", "<=">>,
        <<">", "=", ">=">>, <<">", ">", ">>">>, <<"+", "+", "++">>, <<"+", "=", "+=">>, <<"-", "-", "--">>, <<"-", "=", "-=">>,
        <<"*", "*", "^">>, <<"*", "=", "*=">>, <<"&", "&", "&&">>, <<"|", "|", "||">>, <<"/", "=", "/=">>}
One == {"{", "}", "(", ")", "[", "]", ";", ",", "$", "~", "?", ":", "^", "%", "=", "!", "<", ">", "+", "-", "*", "|", "/"}
At(in, i) == IF i <= Len(in) THEN in[i] ELSE "eof"
Tok(k, s) == [k |-> k, s |-> s]

(* [t, i]: the token at i, and where the next begins.                      *)
lex_op(in, i) ==
  LET two == {d \in Two : d[1] = At(in, i) /\ d[2] = At(in, i + 1)}
      power == At(in, i) = "*" /\ At(in, i + 1) = "*" /\ At(in, i + 2) = "="
  IN  CASE power -> [t |-> Tok("^=", "^="), i |-> i + 3]
        [] ~power /\ two # {} -> LET d == CHOOSE d \in two : TRUE IN [t |-> Tok(d[3], d[3]), i |-> i + 2]
        [] ~power /\ two = {} /\ At(in, i) \in One -> [t |-> Tok(At(in, i), At(in, i)), i |-> i + 1]
        [] OTHER -> [t |-> Tok("eof", ""), i |-> i + 1]
lex_ere(in, i) ==
  LET end == SelectInSubSeq(in, i + 1, Len(in), LAMBDA u : u \in {"/", "nl"})
  IN  IF end = 0 \/ At(in, end) = "nl" THEN [t |-> Tok("eof", ""), i |-> Len(in) + 1]
      ELSE [t |-> Tok("ere", "ere"), i |-> end + 1]
lex_name(in, i) ==
  LET u == At(in, i)
  IN  [t |-> Tok(CASE u \in Keywords -> u [] u \in Builtins -> "builtin"
                   [] OTHER -> IF At(in, i + 1) = "(" THEN "func" ELSE "name", u),
       i |-> i + 1]
lex_one(in, i, prev) ==
  LET u == At(in, i)
  IN  CASE u = "eof" -> [t |-> Tok("eof", ""), i |-> i]
        [] u = "nl" -> [t |-> Tok("nl", "nl"), i |-> i + 1]
        [] u \in AwkStrings -> [t |-> Tok("string", u), i |-> i + 1]
        [] u \in AwkNumbers -> [t |-> Tok("number", u), i |-> i + 1]
        [] u \in AwkNames \cup Keywords \cup Builtins -> lex_name(in, i)
        [] u = "/" /\ ~ends_operand(prev) -> lex_ere(in, i)
        [] OTHER -> lex_op(in, i)
(* The tokens of a text, up to the end or to something that is no token,   *)
(* which reads as the end.  A token depends on the one before it.          *)
RECURSIVE Lexed(_, _, _)
Lexed(in, i, prev) ==
  LET l == lex_one(in, i, prev)
  IN  IF At(in, i) = "sp" THEN Lexed(in, i + 1, prev)
      ELSE IF l.t.k = "eof" THEN <<>> ELSE <<l.t>> \o Lexed(in, l.i, l.t.k)

-----------------------------------------------------------------------------
cur(p) == IF p.i <= Len(p.toks) THEN p.toks[p.i].k ELSE "eof"
Sval(p) == p.toks[p.i].s
advance(p) == [p EXCEPT !.i = IF @ > Len(p.toks) THEN @ ELSE @ + 1]
Fail(p) == [p EXCEPT !.err = TRUE, !.i = Len(p.toks) + 1]
expect(p, k) == IF cur(p) = k THEN advance(p) ELSE Fail(p)
RECURSIVE SkipIn(_, _)
SkipIn(p, ks) == IF cur(p) \in ks THEN SkipIn(advance(p), ks) ELSE p
skip_newlines(p) == SkipIn(p, {"nl"})
skip_terms(p) == SkipIn(p, {"nl", ";"})
at_stmt_end(p) == cur(p) \in {"eof", ";", "nl", "}"}
Node(op, s, a) == [op |-> op, s |-> s, a |-> a]
Null == Node("null", "", <<>>)
Got(n, p) == [n |-> n, p |-> p]
mk_var(s) == Node("var", s, <<>>)
is_lvalue(n) == n.op \in {"var", "index", "field"}
Gt(p, no_gt) == [p EXCEPT !.no_gt = no_gt]

RECURSIVE parse_expr(_)
RECURSIVE parse_ternary(_)
RECURSIVE parse_unary(_)
RECURSIVE parse_primary(_)
RECURSIVE parse_stmt(_)

(* The expressions of a list, up to where no comma follows; ">" compares   *)
(* inside parentheses and brackets.                                        *)
RECURSIVE ListFrom(_, _)
ListFrom(p, list) ==
  LET e == parse_expr(p)
      all == Append(list, e.n)
  IN  IF cur(e.p) = "," THEN ListFrom(skip_newlines(advance(e.p)), all) ELSE Got(all, e.p)
Enclosed(p, open, close, none) ==
  LET q == Gt(expect(p, open), FALSE)
      l == IF none /\ cur(q) = close THEN Got(<<>>, q) ELSE ListFrom(q, <<>>)
  IN  Got(l.n, Gt(expect(l.p, close), p.no_gt))
parse_paren_list(p) ==
  LET l == Enclosed(p, "(", ")", FALSE) IN Got(IF Len(l.n) = 1 THEN l.n[1] ELSE Node("group", "", l.n), l.p)
parse_subscripts(p) == Enclosed(p, "[", "]", FALSE)
parse_call_args(p) == Enclosed(p, "(", ")", TRUE)

(* A name, or an element of the array it names.                            *)
NameOf(p) ==
  LET v == mk_var(Sval(p))
      q == advance(p)
      sub == parse_subscripts(q)
  IN  IF cur(q) = "[" THEN Got(Node("index", "", <<v>> \o sub.n), sub.p) ELSE Got(v, q)
FieldOf(p) == LET e == parse_primary(advance(p)) IN Got(Node("field", "", <<e.n>>), e.p)
parse_lvalue_opt(p) == CASE cur(p) = "$" -> FieldOf(p) [] cur(p) = "name" -> NameOf(p) [] OTHER -> Got(Null, p)
parse_getline(p) ==
  LET v == parse_lvalue_opt(advance(p))
      file == parse_unary(advance(v.p))
  IN  IF cur(v.p) = "<" THEN Got(Node("getline", "file", <<v.n, file.n>>), file.p)
      ELSE Got(Node("getline", "", <<v.n>>), v.p)
parse_primary(p) ==
  LET k == cur(p)
      operand == parse_primary(advance(p))
      args == parse_call_args(advance(p))
  IN  CASE k \in {"number", "string", "ere"} -> Got(Node(k, Sval(p), <<>>), advance(p))
        [] k = "$" -> FieldOf(p)
        [] k \in {"++", "--"} -> Got(Node("pre", k, <<operand.n>>), IF is_lvalue(operand.n) THEN operand.p ELSE Fail(operand.p))
        [] k = "(" -> parse_paren_list(p)
        [] k = "name" -> NameOf(p)
        [] k = "func" -> Got(Node("call", Sval(p), args.n), args.p)
        [] k = "builtin" -> IF cur(advance(p)) = "(" THEN Got(Node("builtin", Sval(p), args.n), args.p)
                            ELSE Got(Node("builtin", Sval(p), <<>>), advance(p))
        [] k = "getline" -> parse_getline(p)
        [] OTHER -> Got(Null, Fail(p))
RECURSIVE Postfixed(_)
Postfixed(r) ==
  IF is_lvalue(r.n) /\ cur(r.p) \in {"++", "--"} THEN Postfixed(Got(Node("post", cur(r.p), <<r.n>>), advance(r.p))) ELSE r
parse_postfix(p) == Postfixed(parse_primary(p))
parse_pow(p) ==
  LET base == parse_postfix(p)
      rhs == parse_unary(advance(base.p))
  IN  IF cur(base.p) = "^" THEN Got(Node("pow", "^", <<base.n, rhs.n>>), rhs.p) ELSE base
parse_unary(p) ==
  LET e == parse_unary(advance(p))
  IN  IF cur(p) \in {"!", "+", "-"} THEN Got(Node("unary", cur(p), <<e.n>>), e.p) ELSE parse_pow(p)

(* What follows an operand at one level of operators that group to the     *)
(* left.                                                                   *)
LeftOps(level) == CASE level = "mul" -> {"*", "/", "%"} [] level = "add" -> {"+", "-"} [] level = "match" -> {"~", "!~"}
                    [] level = "and" -> {"&&"} [] level = "or" -> {"||"}
RECURSIVE parse_mul(_)
RECURSIVE parse_rel(_)
RECURSIVE parse_in(_)
RECURSIVE parse_and(_)
Operand(level, p) ==
  CASE level = "mul" -> parse_unary(p) [] level = "add" -> parse_mul(p) [] level = "match" -> parse_rel(p)
    [] level = "and" -> parse_in(skip_newlines(p)) [] level = "or" -> parse_and(skip_newlines(p))
(* What a mutated level would do: group to the right.                      *)
RECURSIVE MoreRight(_, _)
MoreRight(level, r) ==
  LET rhs == MoreRight(level, Operand(level, advance(r.p)))
  IN  IF cur(r.p) \in LeftOps(level) THEN Got(Node(level, cur(r.p), <<r.n, rhs.n>>), rhs.p) ELSE r
RECURSIVE More(_, _)
More(level, r) ==
  LET rhs == Operand(level, advance(r.p))
  IN  IF cur(r.p) \in LeftOps(level) THEN More(level, Got(Node(level, cur(r.p), <<r.n, rhs.n>>), rhs.p)) ELSE r
parse_mul(p) == More("mul", parse_unary(p))
parse_add(p) == More("add", parse_mul(p))
starts_concat_operand(k) ==
  k \in {"number", "string", "ere", "name", "func", "builtin", "$", "!", "++", "--", "(", "getline"}
RECURSIVE Concats(_)
Concats(r) ==
  LET rhs == parse_add(r.p)
  IN  IF starts_concat_operand(cur(r.p)) THEN Concats(Got(Node("concat", "", <<r.n, rhs.n>>), rhs.p)) ELSE r
parse_concat(p) == Concats(parse_add(p))
Piped(r) ==
  LET v == parse_lvalue_opt(expect(advance(r.p), "getline"))
  IN  IF cur(r.p) = "|" THEN Got(Node("getline", "cmd", <<v.n, r.n>>), v.p) ELSE r
(* ">" is left to print when it follows print's arguments.                 *)
Compares(p) == cur(p) \in {"<", "<=", ">=", "==", "!="} \/ (cur(p) = ">" /\ ~p.no_gt)
parse_rel(p) ==
  LET left == Piped(parse_concat(p))
      right == parse_concat(advance(left.p))
  IN  IF Compares(left.p) THEN Got(Node("cmp", cur(left.p), <<left.n, right.n>>), right.p) ELSE left
parse_match(p) == More("match", parse_rel(p))
RECURSIVE Ins(_)
Ins(r) ==
  LET q == advance(r.p)
      sub == IF r.n.op = "group" THEN r.n.a ELSE <<r.n>>
  IN  CASE cur(r.p) # "in" -> r
        [] cur(r.p) = "in" /\ cur(q) # "name" -> Got(r.n, Fail(q))
        [] OTHER -> Ins(Got(Node("in", Sval(q), sub), advance(q)))
parse_in(p) == Ins(parse_match(p))
parse_and(p) == More("and", parse_in(p))
parse_or(p) == More("or", parse_and(p))
parse_ternary(p) ==
  LET c == parse_or(p)
      a == parse_ternary(skip_newlines(advance(c.p)))
      b == parse_ternary(skip_newlines(expect(skip_newlines(a.p), ":")))
  IN  IF cur(c.p) = "?" THEN Got(Node("cond", "", <<c.n, a.n, b.n>>), b.p) ELSE c
parse_expr(p) ==
  LET left == parse_ternary(p)
      rhs == parse_expr(advance(left.p))
  IN  IF is_lvalue(left.n) /\ cur(left.p) \in {"=", "+=", "-=", "*=", "/=", "%=", "^="}
      THEN Got(Node("assign", cur(left.p), <<left.n, rhs.n>>), rhs.p) ELSE left

-----------------------------------------------------------------------------
RECURSIVE StmtsFrom(_, _)
StmtsFrom(p, list) ==
  LET s == parse_stmt(p)
  IN  IF cur(p) \in {"}", "eof"} THEN Got(list, p)
      ELSE StmtsFrom(skip_terms(s.p), IF s.n = Null THEN list ELSE Append(list, s.n))
parse_block(p) ==
  LET l == StmtsFrom(skip_terms(expect(p, "{")), <<>>) IN Got(Node("block", "", l.n), expect(l.p, "}"))
(* print's arguments and where they go.  A single list in parentheses      *)
(* stands for the arguments.                                               *)
PrintList(p) ==
  LET l == ListFrom(p, <<>>) IN IF Len(l.n) = 1 /\ l.n[1].op = "group" THEN Got(l.n[1].a, l.p) ELSE l
parse_print_args(p, k) ==
  LET q == Gt(p, TRUE)
      none == at_stmt_end(q) \/ cur(q) \in {">", ">>", "|"}
      l == IF none THEN Got(<<>>, q) ELSE PrintList(q)
      r == Gt(l.p, FALSE)
      target == parse_ternary(advance(r))
  IN  IF cur(r) \in {">", ">>", "|"} THEN Got(Node(k, cur(r), Append(l.n, target.n)), target.p) ELSE Got(Node(k, "", l.n), r)
(* "(" expr ")" and a statement.                                           *)
Condition(p) == LET c == parse_expr(expect(p, "(")) IN Got(c.n, expect(c.p, ")"))
parse_if(p) ==
  LET c == Condition(advance(p))
      then == parse_stmt(skip_newlines(c.p))
      q == skip_terms(then.p)
      else == parse_stmt(skip_newlines(advance(q)))
  IN  IF cur(q) = "else" THEN Got(Node("if", "else", <<c.n, then.n, else.n>>), else.p) ELSE Got(Node("if", "", <<c.n, then.n>>), q)
parse_while(p) ==
  LET c == Condition(advance(p))
      body == parse_stmt(skip_newlines(c.p))
  IN  Got(Node("while", "", <<c.n, body.n>>), body.p)
parse_do(p) ==
  LET body == parse_stmt(skip_newlines(advance(p)))
      c == Condition(expect(skip_terms(body.p), "while"))
  IN  Got(Node("do", "", <<body.n, c.n>>), c.p)
(* "name in name )" is looked for first; without it the text is read again *)
(* as the three parts of a loop.                                           *)
IsForIn(p) == \A j \in 0..3 : p.i + j <= Len(p.toks) /\ p.toks[p.i + j].k = <<"name", "in", "name", ")">>[j + 1]
Opt(p, stop, Parse(_)) == IF cur(p) = stop THEN Got(Null, p) ELSE Parse(p)
parse_for(p) ==
  LET q == expect(advance(p), "(")
      in == parse_stmt(skip_newlines([q EXCEPT !.i = @ + 4]))
      init == Opt(q, ";", parse_stmt)
      c == Opt(skip_newlines(expect(init.p, ";")), ";", parse_expr)
      post == Opt(skip_newlines(expect(c.p, ";")), ")", parse_stmt)
      body == parse_stmt(skip_newlines(expect(post.p, ")")))
  IN  IF IsForIn(q) THEN Got(Node("forin", "", <<mk_var(q.toks[q.i].s), mk_var(q.toks[q.i + 2].s), in.n>>), in.p)
      ELSE Got(Node("for", "", <<init.n, c.n, post.n, body.n>>), body.p)
parse_delete(p) ==
  LET q == advance(p)
      v == NameOf(q)
  IN  IF cur(q) # "name" THEN Got(Null, Fail(q)) ELSE Got(Node("delete", "", <<v.n>>), v.p)
parse_stmt(p) ==
  LET k == cur(p)
      e == parse_expr(p)
      value == parse_expr(advance(p))
  IN  CASE k = "{" -> parse_block(p)
        [] k = "if" -> parse_if(p)
        [] k = "while" -> parse_while(p)
        [] k = "do" -> parse_do(p)
        [] k = "for" -> parse_for(p)
        [] k \in {"break", "continue", "next", "nextfile"} -> Got(Node(k, "", <<>>), advance(p))
        [] k \in {"exit", "return"} -> IF at_stmt_end(advance(p)) THEN Got(Node(k, "", <<>>), advance(p)) ELSE Got(Node(k, "", <<value.n>>), value.p)
        [] k = "delete" -> parse_delete(p)
        [] k \in {"print", "printf"} -> parse_print_args(advance(p), k)
        [] k = ";" -> Got(Null, p)
        [] OTHER -> Got(Node("expr", "", <<e.n>>), e.p)

-----------------------------------------------------------------------------
RECURSIVE ParamsFrom(_, _)
ParamsFrom(p, list) ==
  LET all == Append(list, mk_var(Sval(p)))
      q == advance(p)
  IN  IF cur(p) # "name" THEN Got(list, Fail(p))
      ELSE IF cur(q) = "," THEN ParamsFrom(skip_newlines(advance(q)), all) ELSE Got(all, q)
parse_function(p) ==
  LET q == advance(p)
      r == expect(advance(q), "(")
      params == IF cur(r) = ")" THEN Got(<<>>, r) ELSE ParamsFrom(r, <<>>)
      body == parse_block(skip_newlines(expect(params.p, ")")))
  IN  IF cur(q) \notin {"name", "func"} THEN Got(Null, Fail(q)) ELSE Got(Node("function", Sval(q), Append(params.n, body.n)), body.p)
parse_rule(p) ==
  LET first == IF cur(p) = "{" THEN Got(<<>>, p) ELSE LET e == parse_expr(p) IN Got(<<e.n>>, e.p)
      second == parse_expr(skip_newlines(advance(first.p)))
      pats == IF cur(p) # "{" /\ cur(first.p) = "," THEN Got(Append(first.n, second.n), second.p) ELSE first
      action == parse_block(pats.p)
      kind == <<"always", "pattern", "range">>[Len(pats.n) + 1]
  IN  IF cur(pats.p) = "{" THEN Got(Node("rule", kind, Append(pats.n, action.n)), action.p)
      ELSE Got(Node("rule", kind, pats.n), pats.p)
parse_item(p) ==
  LET b == parse_block(skip_newlines(advance(p)))
  IN  CASE cur(p) \in {"BEGIN", "END"} -> Got(Node(cur(p), "", <<b.n>>), b.p)
        [] cur(p) = "function" -> parse_function(p)
        [] OTHER -> parse_rule(p)
RECURSIVE ItemsFrom(_, _)
ItemsFrom(p, list) ==
  LET it == parse_item(p) IN IF cur(p) = "eof" THEN Got(list, p) ELSE ItemsFrom(skip_terms(it.p), Append(list, it.n))

RECURSIVE Within(_)
Within(n) == {n} \cup UNION {Within(n.a[i]) : i \in DOMAIN n.a}
(* Every function that is called is defined.                               *)
walk_calls(items) ==
  \A i \in DOMAIN items : \A n \in Within(items[i]) : n.op = "call" => \E j \in DOMAIN items : items[j].op = "function" /\ items[j].s = n.s
(* Records are read when there is a rule, or a getline of the main input   *)
(* that has no variable.                                                   *)
walk_uses_input(items) ==
  \E i \in DOMAIN items : items[i].op = "rule" \/ \E n \in Within(items[i]) : n.op = "getline" /\ n.s = "" /\ n.a = <<Null>>
awk_parse_program(in) ==
  LET r == ItemsFrom(skip_terms([toks |-> Lexed(in, 1, "nl"), i |-> 1, err |-> FALSE, no_gt |-> FALSE]), <<>>)
  IN  [items |-> r.n, err |-> r.p.err \/ ~walk_calls(r.n), input |-> walk_uses_input(r.n)]

-----------------------------------------------------------------------------
(* The tokens of a tree, with the parentheses that POSIX's table of        *)
(* precedences asks for.                                                   *)
Prec(n) ==
  CASE n.op = "assign" -> 1 [] n.op = "cond" -> 2 [] n.op = "or" -> 3 [] n.op = "and" -> 4 [] n.op = "in" -> 5 [] n.op = "match" -> 6
    [] n.op = "cmp" -> 7 [] n.op = "getline" /\ n.s = "cmd" -> 7 [] n.op = "concat" -> 8 [] n.op = "add" -> 9 [] n.op = "mul" -> 10
    [] n.op = "unary" -> 11 [] n.op = "pow" -> 12 [] n.op \in {"pre", "post"} -> 13 [] OTHER -> 14
(* The least precedence operand i may have without parentheses.            *)
Least(n, i) ==
  CASE n.op \in {"or", "and", "match", "concat", "add", "mul"} -> Prec(n) + i - 1
    [] n.op = "cmp" -> IF i = 1 /\ n.a[1].op = "getline" THEN 7 ELSE 8
    [] n.op = "cond" -> IF i = 1 THEN 3 ELSE 2
    [] n.op = "in" -> IF Len(n.a) = 1 THEN 5 ELSE 1
    [] n.op = "unary" -> 11
    [] n.op = "pow" -> IF i = 1 THEN 13 ELSE 11
    [] n.op \in {"pre", "post"} -> 14
    [] n.op = "field" -> IF n.a[1].op = "pre" THEN 13 ELSE 14
    [] n.op = "assign" -> IF i = 1 THEN 14 ELSE 1
    [] n.op = "getline" -> IF n.s = "cmd" THEN 8 ELSE 11
    [] OTHER -> 1
RECURSIVE Show(_)
Signed(s) == s # <<>> /\ s[1] \in {"+", "-"}
Operands(n) ==
  [i \in DOMAIN n.a |->
     LET s == Show(n.a[i]) IN
     IF Prec(n.a[i]) < Least(n, i) \/ (n.op = "concat" /\ i = 2 /\ Signed(s)) THEN <<"(">> \o s \o <<")">> ELSE s]
RECURSIVE Commas(_)
Commas(ls) == IF ls = <<>> THEN <<>> ELSE IF Len(ls) = 1 THEN ls[1] ELSE ls[1] \o <<",">> \o Commas(Tail(ls))
ShowPrint(n, o) ==
  IF n.s = "" THEN <<n.op>> \o Commas(o)
  ELSE <<n.op>> \o Commas(SubSeq(o, 1, Len(o) - 1)) \o <<n.s>> \o o[Len(o)]
Show(n) ==
  LET o == Operands(n)
      all == FlattenSeq(o)
      op == n.op
  IN  CASE op = "null" -> <<>>
        [] op \in {"number", "string", "ere", "var"} -> <<n.s>>
        [] op \in {"mul", "add", "match", "and", "or", "cmp", "pow", "assign", "concat"} -> o[1] \o (IF n.s = "" THEN <<>> ELSE <<n.s>>) \o o[2]
        [] op \in {"unary", "pre"} -> <<n.s>> \o o[1]
        [] op = "post" -> Append(o[1], n.s)
        [] op = "field" -> <<"$">> \o o[1]
        [] op = "in" -> (IF Len(o) = 1 THEN o[1] ELSE <<"(">> \o Commas(o) \o <<")">>) \o <<"in", n.s>>
        [] op = "cond" -> o[1] \o <<"?">> \o o[2] \o <<":">> \o o[3]
        [] op = "group" -> <<"(">> \o Commas(o) \o <<")">>
        [] op = "index" -> o[1] \o <<"[">> \o Commas(Tail(o)) \o <<"]">>
        [] op = "getline" -> CASE n.s = "cmd" -> o[2] \o <<"|", "getline">> \o o[1] [] n.s = "file" -> <<"getline">> \o o[1] \o <<"<">> \o o[2]
                               [] OTHER -> <<"getline">> \o o[1]
        [] op = "call" -> <<n.s, "(">> \o Commas(o) \o <<")">>
        [] op = "builtin" -> IF o = <<>> THEN <<n.s>> ELSE <<n.s, "(">> \o Commas(o) \o <<")">>
        [] op = "block" -> <<"{">> \o all \o <<"}">>
        [] op = "if" -> <<"if", "(">> \o o[1] \o <<")">> \o o[2] \o (IF n.s = "else" THEN <<"else">> \o o[3] ELSE <<>>)
        [] op = "while" -> <<"while", "(">> \o o[1] \o <<")">> \o o[2]
        [] op = "do" -> <<"do">> \o o[1] \o <<"while", "(">> \o o[2] \o <<")">>
        [] op = "for" -> <<"for", "(">> \o o[1] \o <<";">> \o o[2] \o <<";">> \o o[3] \o <<")">> \o o[4]
        [] op = "forin" -> <<"for", "(">> \o o[1] \o <<"in">> \o o[2] \o <<")">> \o o[3]
        [] op \in {"print", "printf"} -> ShowPrint(n, o)
        [] op = "function" -> <<"function", n.s, "(">> \o Commas(SubSeq(o, 1, Len(o) - 1)) \o <<")">> \o o[Len(o)]
        [] op = "rule" -> IF n.s = "range" THEN o[1] \o <<",">> \o FlattenSeq(Tail(o)) ELSE all
        [] op = "expr" -> all
        [] OTHER -> <<op>> \o all
ShowAll(items) == FlattenSeq([i \in DOMAIN items |-> Show(items[i])])
Bare(s) == SelectSeq(s, LAMBDA u : u \notin {"(", ")", ";", "nl"})
Texts(toks) == [i \in DOMAIN toks |-> toks[i].s]
=============================================================================
