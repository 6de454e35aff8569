----------------------------- MODULE Arithmetic -----------------------------
(***************************************************************************)
(* Arithmetic expansion: the parser of $((...)) and the evaluation of its  *)
(* tree (parse_arith and expand_arith with their helpers), against the     *)
(* grammar and the meaning C gives an expression.                          *)
(*                                                                         *)
(* Text is a sequence of units: the characters of operators, blanks "sp",  *)
(* the numbers of Num and the names of Vars.  A node is [k, a, v, s]: its  *)
(* kind, its operands, its number, its name; Null is the null pointer.      *)
(* Integers are two's complement of Width bits.                            *)
(***************************************************************************)
EXTENDS Integers, SequencesExt, Bitwise

CONSTANTS Num, Vars, Width

ARITH_PREC_TOP == 11
IntMin == -(2 ^ (Width - 1))
Wrapped(n) == ((n - IntMin) % (2 ^ Width)) + IntMin
Bits(n) == n % (2 ^ Width)
Truth(b) == IF b THEN 1 ELSE 0
Quot(a, b) == LET q == (IF a < 0 THEN -a ELSE a) \div (IF b < 0 THEN -b ELSE b) IN IF (a < 0) = (b < 0) THEN q ELSE -q
(* What the C operators compute.                                           *)
Computed(op, a, b) ==
  Wrapped(CASE op = "||" -> Truth(a # 0 \/ b # 0) [] op = "&&" -> Truth(a # 0 /\ b # 0)
            [] op = "|" -> Bits(a) | Bits(b) [] op = "^" -> Bits(a) ^^ Bits(b) [] op = "&" -> Bits(a) & Bits(b)
            [] op = "==" -> Truth(a = b) [] op = "!=" -> Truth(a # b) [] op = "<" -> Truth(a < b) [] op = ">" -> Truth(a > b)
            [] op = ">=" -> Truth(a >= b) [] op = "<=" -> Truth(a <= b)
            [] op = "<<" -> a * (2 ^ (b % Width)) [] op = ">>" -> a \div (2 ^ (b % Width))
            [] op = "+" -> a + b [] op = "-" -> a - b [] op = "*" -> a * b
            [] op = "/" -> Quot(a, b) [] op = "%" -> a - b * Quot(a, b) [] op = "**" -> a ^ b)
Undefined(op, a, b) == op \in {"/", "%"} /\ (b = 0 \/ (b = -1 /\ a = IntMin))

Peek(in, i) == IF i <= Len(in) THEN in[i] ELSE "end"
Skip(in, n) == SubSeq(in, n + 1, Len(in))
RECURSIVE SkipSpace(_)
SkipSpace(in) == IF Peek(in, 1) = "sp" THEN SkipSpace(Tail(in)) ELSE in
N(k, a, v) == [k |-> k, a |-> a, v |-> v, s |-> ""]
Named(k, a, s) == [k |-> k, a |-> a, v |-> 0, s |-> s]
Null == N("null", <<>>, 0)
Got(n, in) == [n |-> n, in |-> in]

-----------------------------------------------------------------------------
RECURSIVE parse_arith_expr(_)
RECURSIVE ParenFrom(_, _)
ParenFrom(in, list) ==
  LET e == parse_arith_expr(in)
  IN  IF e.n = Null \/ e.in = <<>> THEN Got(Null, e.in)
      ELSE IF Head(e.in) = "," THEN ParenFrom(Tail(e.in), Append(list, e.n))
      ELSE IF Head(e.in) # ")" THEN Got(Null, e.in)
      ELSE Got(N("paren", Append(list, e.n), 0), Tail(e.in))
parse_arith_paren(in) == ParenFrom(SkipSpace(Tail(in)), <<>>)
parse_arith_value(in) ==
  LET c == Peek(in, 1)
  IN  CASE c = "(" -> parse_arith_paren(in)
        [] c \in DOMAIN Num -> Got(N("num", <<>>, Num[c]), Tail(in))
        [] c \in Vars -> Got(Named("param", <<>>, c), Tail(in))
        [] OTHER -> Got(Null, in)

(* A value followed by ++ or -- is dropped and what follows takes its      *)
(* place.                                                                  *)
RECURSIVE parse_arith_unary(_)
parse_arith_unary(in) ==
  LET c == Peek(in, 1)
      c2 == Peek(in, 2)
      v == parse_arith_value(in)
      post == v.n # Null /\ Peek(v.in, 1) \in {"+", "-"} /\ Peek(v.in, 2) = Peek(v.in, 1)
      signed(k, rest, pre) ==
        LET o == IF pre THEN parse_arith_value(SkipSpace(rest)) ELSE parse_arith_unary(SkipSpace(rest))
        IN  Got(N(k, <<o.n>>, 0), o.in)
  IN  CASE c = "!" -> signed("not", Tail(in), FALSE)
        [] c = "~" -> signed("bnot", Tail(in), FALSE)
        [] c \in {"+", "-"} /\ c2 = c -> signed(IF c = "-" THEN "predecr" ELSE "preincr", Skip(in, 2), TRUE)
        [] c \in {"+", "-"} /\ c2 # c -> signed(IF c = "-" THEN "neg" ELSE "pos", Tail(in), FALSE)
        [] OTHER -> IF post THEN signed(IF Peek(v.in, 1) = "-" THEN "postdecr" ELSE "postincr", Skip(v.in, 2), FALSE) ELSE v

(* The operator of level l that stands at the front, "" if none.           *)
OpAt(l, in) ==
  LET a == Peek(in, 1)
      b == Peek(in, 2)
  IN  CASE l = 1 -> IF a = "*" /\ b = "*" THEN "**" ELSE ""
        [] l = 2 -> IF a \in {"*", "/", "%"} /\ b # "=" THEN a ELSE ""
        [] l = 3 -> IF a \in {"+", "-"} /\ b # "=" THEN a ELSE ""
        [] l = 4 -> IF Peek(in, 3) # "=" /\ a \in {"<", ">"} /\ a = b THEN IF a = "<" THEN "<<" ELSE ">>" ELSE ""
        [] l = 5 -> IF a = ">" /\ b # ">" THEN IF b = "=" THEN ">=" ELSE ">"
                    ELSE IF a = "<" /\ b # "<" THEN IF b = "=" THEN "<=" ELSE "<" ELSE ""
        [] l = 6 -> IF b = "=" /\ a \in {"=", "!"} THEN IF a = "!" THEN "!=" ELSE "==" ELSE ""
        [] l = 7 -> IF a = "&" /\ b \notin {"&", "="} THEN a ELSE ""
        [] l = 8 -> IF a = "^" /\ b # "=" THEN a ELSE ""
        [] l = 9 -> IF a = "|" /\ b \notin {"|", "="} THEN a ELSE ""
        [] l = 10 -> IF a = "&" /\ b = "&" THEN "&&" ELSE ""
        [] l = 11 -> IF a = "|" /\ b = "|" THEN "||" ELSE ""
Wide(op) == IF op \in {"**", "<<", ">>", ">=", "<=", "==", "!=", "&&", "||"} THEN 2 ELSE 1

(* Each level takes one operator, of its own or of a tighter level.        *)
RECURSIVE parse_arith_binary(_, _)
BinaryOp(precedence, l) ==
  LET in == SkipSpace(l.in)
      at == {k \in 1..precedence : OpAt(k, in) # ""}
      k == CHOOSE m \in at : \A o \in at : o <= m
      rest == SkipSpace(Skip(in, Wide(OpAt(k, in))))
      r1 == parse_arith_binary(rest, k - 1)
      r == IF r1.n = Null THEN parse_arith_value(r1.in) ELSE r1
  IN  IF l.n = Null THEN l
      ELSE IF Peek(in, 1) \in {"+", "-"} /\ Peek(in, 2) = Peek(in, 1) THEN Got(Null, in)
      ELSE IF at = {} THEN Got(l.n, in)
      ELSE Got(IF r.n = Null THEN l.n ELSE N(OpAt(k, in), <<l.n, r.n>>, 0), r.in)
parse_arith_binary(in, precedence) ==
  IF precedence < 1 THEN parse_arith_unary(in) ELSE BinaryOp(precedence, parse_arith_binary(in, precedence - 1))

RECURSIVE parse_arith_ternary(_)
parse_arith_ternary(in) ==
  LET cond == parse_arith_binary(in, ARITH_PREC_TOP)
      q == SkipSpace(cond.in)
      ontrue == parse_arith_expr(SkipSpace(Tail(q)))
      col == SkipSpace(ontrue.in)
      onfalse == parse_arith_ternary(SkipSpace(Tail(col)))
  IN  IF cond.n = Null \/ Peek(q, 1) # "?" THEN Got(cond.n, q)
      ELSE IF ontrue.n = Null \/ Peek(col, 1) # ":" THEN Got(Null, ontrue.in)
      ELSE Got(IF onfalse.n = Null THEN Null ELSE N("tern", <<cond.n, ontrue.n, onfalse.n>>, 0), onfalse.in)

RECURSIVE parse_arith_assign(_)
parse_arith_assign(in) ==
  LET t == parse_arith_ternary(in)
      s == SkipSpace(t.in)
      c == Peek(s, 1)
      id == IF c = "=" THEN <<"=", 1>>
            ELSE IF c \in {"<", ">"} /\ Peek(s, 2) = c /\ Peek(s, 3) = "=" THEN <<IF c = "<" THEN "<<" ELSE ">>", 3>>
            ELSE IF c \in {"*", "/", "%", "+", "-", "&", "^", "|"} /\ Peek(s, 2) = "=" THEN <<c, 2>> ELSE <<"", 0>>
      r == parse_arith_assign(SkipSpace(Skip(s, id[2])))
  IN  IF t.n.k # "param" \/ id[2] = 0 THEN Got(t.n, IF t.n.k = "param" THEN s ELSE t.in)
      ELSE Got(Named("set", <<t.n, r.n>>, id[1]), r.in)
parse_arith_expr(in) ==
  LET a == parse_arith_assign(SkipSpace(in))
      u == parse_arith_unary(a.in)
  IN  IF SkipSpace(in) = <<>> THEN Got(Null, <<>>) ELSE IF a.n # Null THEN a ELSE IF u.n # Null THEN u ELSE parse_arith_value(u.in)
parse_arith(in) ==
  LET e == parse_arith_expr(in \o <<")", ")">>)
      rest == SkipSpace(e.in)
  IN  IF e.n # Null /\ Peek(rest, 1) = ")" /\ Peek(Skip(rest, 1), 1) = ")" /\ Len(rest) = 2 THEN e.n ELSE Null

-----------------------------------------------------------------------------
Val(v, env) == [st |-> "ok", v |-> v, env |-> env]
Bad(st, env) == [st |-> st, v |-> 0, env |-> env]
RECURSIVE expand_arith_expr(_, _)
(* What a mutated expand_arith_binary would do: both sides are always      *)
(* evaluated.                                                              *)
BinaryEager(n, env) ==
  LET l == expand_arith_expr(n.a[1], env)
      r == expand_arith_expr(n.a[2], l.env)
  IN  IF l.st # "ok" THEN l ELSE IF r.st # "ok" THEN r
      ELSE IF Undefined(n.k, l.v, r.v) THEN Bad("err", r.env) ELSE Val(Computed(n.k, l.v, r.v), r.env)
expand_arith_binary(n, env) ==
  LET l == expand_arith_expr(n.a[1], env)
      r == expand_arith_expr(n.a[2], l.env)
  IN  IF l.st # "ok" THEN l
      ELSE IF n.k = "&&" /\ l.v = 0 THEN Val(0, l.env)
      ELSE IF n.k = "||" /\ l.v # 0 THEN Val(1, l.env)
      ELSE IF r.st # "ok" THEN r
      ELSE IF Undefined(n.k, l.v, r.v) THEN Bad("err", r.env)
      ELSE Val(Computed(n.k, l.v, r.v), r.env)
expand_arith_ternary(n, env) ==
  LET c == expand_arith_expr(n.a[1], env)
  IN  IF c.st # "ok" THEN c ELSE expand_arith_expr(IF c.v # 0 THEN n.a[2] ELSE n.a[3], c.env)
(* An operand that is no variable has no name to assign to.                *)
expand_arith_unary(n, env) ==
  LET o == expand_arith_expr(n.a[1], env)
      step == CASE n.k \in {"preincr", "postincr"} -> 1 [] n.k \in {"predecr", "postdecr"} -> -1 [] OTHER -> 0
      v == Wrapped(o.v + step)
  IN  IF o.st # "ok" THEN o
      ELSE IF step # 0 THEN IF n.a[1].k # "param" THEN Bad("undef", o.env)
                            ELSE Val(IF n.k \in {"preincr", "predecr"} THEN v ELSE o.v, [o.env EXCEPT ![n.a[1].s] = v])
      ELSE Val(CASE n.k = "neg" -> Wrapped(-o.v) [] n.k = "pos" -> o.v [] n.k = "not" -> Truth(o.v = 0) [] n.k = "bnot" -> -o.v - 1, o.env)
(* The old value is read before the right side is evaluated; an error on   *)
(* the right counts as 0; / and % divide without asking.                   *)
expand_arith_assign(n, env) ==
  LET name == n.a[1].s
      left == env[name]
      x == expand_arith_expr(n.a[2], env)
      r == IF x.st = "err" THEN 0 ELSE x.v
      v == IF n.s = "=" THEN r ELSE Computed(n.s, left, r)
  IN  IF x.st \notin {"ok", "err"} \/ Undefined(n.s, left, r) THEN Bad("crash", x.env) ELSE Val(v, [x.env EXCEPT ![name] = v])
expand_arith_expr(n, env) ==
  CASE n.k = "null" -> Bad("err", env)
    [] n.k = "num" -> Val(n.v, env)
    [] n.k = "param" -> Val(env[n.s], env)
    [] n.k = "paren" -> expand_arith_expr(n.a[1], env)
    [] n.k = "tern" -> expand_arith_ternary(n, env)
    [] n.k = "set" -> expand_arith_assign(n, env)
    [] n.k \in {"neg", "pos", "not", "bnot", "preincr", "predecr", "postincr", "postdecr"} -> expand_arith_unary(n, env)
    [] OTHER -> expand_arith_binary(n, env)
expand_arith(n, env) == expand_arith_expr(n, env)

-----------------------------------------------------------------------------
(* The grammar of C: tokens are as long as they can be, operators of one   *)
(* level associate to the left, a conditional and an assignment to the     *)
(* right.                                                                  *)
Twice == [c \in {"<", ">", "&", "|", "+", "-"} |-> CASE c = "<" -> "<<" [] c = ">" -> ">>" [] c = "&" -> "&&" [] c = "|" -> "||" [] c = "+" -> "++" [] c = "-" -> "--"]
Equal == [c \in {"<", ">", "=", "!"} |-> CASE c = "<" -> "<=" [] c = ">" -> ">=" [] c = "=" -> "==" [] c = "!" -> "!="]
(* The token at the front: an operator, an assignment ("set") or a unit.   *)
Token(in) ==
  LET c == Peek(in, 1)
      two == c \in DOMAIN Twice /\ Peek(in, 2) = c
      asg(n) == Peek(in, n + 1) = "="
      tok(t, op, n) == [t |-> t, op |-> op, rest |-> SkipSpace(Skip(in, n))]
  IN  IF two /\ c \in {"<", ">"} /\ asg(2) THEN tok("set", Twice[c], 3)
      ELSE IF two THEN tok(Twice[c], "", 2)
      ELSE IF c \in DOMAIN Equal /\ asg(1) THEN tok(Equal[c], "", 2)
      ELSE IF c \in {"*", "/", "%", "+", "-", "&", "^", "|"} /\ asg(1) THEN tok("set", c, 2)
      ELSE IF c = "=" THEN tok("set", "=", 1) ELSE IF c = "end" THEN [t |-> c, op |-> "", rest |-> <<>>] ELSE tok(c, "", 1)
Level(t) == CASE t \in {"*", "/", "%"} -> 2 [] t \in {"+", "-"} -> 3 [] t \in {"<<", ">>"} -> 4 [] t \in {"<", ">", "<=", ">="} -> 5
              [] t \in {"==", "!="} -> 6 [] t = "&" -> 7 [] t = "^" -> 8 [] t = "|" -> 9 [] t = "&&" -> 10 [] t = "||" -> 11 [] OTHER -> 0
RECURSIVE CAssign(_)
RECURSIVE CUnary(_)
CUnary(in) ==
  LET k == Token(in)
      o == CUnary(k.rest)
      e == CAssign(k.rest)
      post == Token(k.rest)
  IN  CASE k.t \in {"!", "~", "-", "+"} ->
             Got(IF o.n = Null THEN Null ELSE N(CASE k.t = "!" -> "not" [] k.t = "~" -> "bnot" [] k.t = "-" -> "neg" [] OTHER -> "pos", <<o.n>>, 0), o.in)
        [] k.t \in {"++", "--"} -> Got(IF o.n.k # "param" THEN Null ELSE N(IF k.t = "++" THEN "preincr" ELSE "predecr", <<o.n>>, 0), o.in)
        [] k.t = "(" -> IF e.n # Null /\ Token(e.in).t = ")" THEN Got(N("paren", <<e.n>>, 0), Token(e.in).rest) ELSE Got(Null, in)
        [] k.t \in DOMAIN Num -> Got(N("num", <<>>, Num[k.t]), k.rest)
        [] k.t \in Vars -> IF post.t \in {"++", "--"} THEN Got(N(IF post.t = "++" THEN "postincr" ELSE "postdecr", <<Named("param", <<>>, k.t)>>, 0), post.rest)
                            ELSE Got(Named("param", <<>>, k.t), k.rest)
        [] OTHER -> Got(Null, in)
RECURSIVE CBinary(_, _)
RECURSIVE CLoop(_, _)
CLoop(l, level) ==
  LET k == Token(l.in)
      r == CBinary(k.rest, level - 1)
  IN  IF l.n = Null \/ Level(k.t) # level THEN l
      ELSE CLoop(Got(IF r.n = Null THEN Null ELSE N(k.t, <<l.n, r.n>>, 0), r.in), level)
CBinary(in, level) == IF level = 1 THEN CUnary(in) ELSE CLoop(CBinary(in, level - 1), level)
RECURSIVE CTernary(_)
CTernary(in) ==
  LET c == CBinary(in, 11)
      t == CAssign(Token(c.in).rest)
      f == CTernary(Token(t.in).rest)
  IN  IF c.n = Null \/ Token(c.in).t # "?" THEN c
      ELSE IF t.n = Null \/ Token(t.in).t # ":" \/ f.n = Null THEN Got(Null, in) ELSE Got(N("tern", <<c.n, t.n, f.n>>, 0), f.in)
CAssign(in) ==
  LET t == CTernary(in)
      k == Token(t.in)
      r == CAssign(k.rest)
  IN  IF k.t # "set" THEN t
      ELSE Got(IF t.n.k # "param" \/ r.n = Null THEN Null ELSE Named("set", <<t.n, r.n>>, k.op), r.in)
CTree(in) == LET e == CAssign(SkipSpace(in)) IN IF e.in = <<>> THEN e.n ELSE Null

(* The operators a call of parse_arith_binary(p, precedence) can take:     *)
(* one per level, so a chain of them must climb.                           *)
RECURSIVE Spine(_)
Spine(n) == IF Level(n.k) = 0 THEN <<>> ELSE Append(Spine(n.a[1]), Level(n.k))
Taken(n, precedence) == FoldLeft(LAMBDA k, l : IF l > k THEN l ELSE k + 1, 0, Spine(n)) <= precedence
RECURSIVE Climbs(_, _)
Climbs(n, precedence) ==
  /\ Taken(n, precedence)
  /\ \A i \in DOMAIN n.a : Climbs(n.a[i], IF Level(n.k) = 0 THEN 11 ELSE IF i = 2 THEN Level(n.k) - 1 ELSE 11)
RECURSIVE Kinds(_)
Kinds(n) == {n.k} \cup UNION {Kinds(n.a[i]) : i \in DOMAIN n.a}

(* What C computes from the tree; dividing by zero is an error wherever it *)
(* is written.                                                             *)
RECURSIVE CValue(_, _)
CValue(n, env) ==
  LET x == CValue(n.a[1], env)
      y == CValue(n.a[2], x.env)
      old(e) == e[n.a[1].s]
      r == CValue(n.a[2], env)
      up(d) == [env EXCEPT ![n.a[1].s] = Wrapped(old(env) + d)]
  IN  CASE n.k = "num" -> Val(n.v, env)
        [] n.k = "param" -> Val(env[n.s], env)
        [] n.k \in {"paren", "pos"} -> x
        [] n.k \in {"neg", "not", "bnot"} ->
             IF x.st # "ok" THEN x ELSE Val(CASE n.k = "neg" -> Wrapped(-x.v) [] n.k = "not" -> Truth(x.v = 0) [] OTHER -> -x.v - 1, x.env)
        [] n.k \in {"preincr", "predecr"} -> LET e == up(IF n.k = "preincr" THEN 1 ELSE -1) IN Val(old(e), e)
        [] n.k \in {"postincr", "postdecr"} -> Val(old(env), up(IF n.k = "postincr" THEN 1 ELSE -1))
        [] n.k = "tern" -> IF x.st # "ok" THEN x ELSE CValue(n.a[IF x.v # 0 THEN 2 ELSE 3], x.env)
        [] n.k = "set" -> IF r.st # "ok" THEN r
                          ELSE IF Undefined(n.s, old(env), r.v) THEN Bad("err", r.env)
                          ELSE LET v == IF n.s = "=" THEN r.v ELSE Computed(n.s, old(env), r.v) IN Val(v, [r.env EXCEPT ![n.a[1].s] = v])
        [] OTHER -> IF x.st # "ok" THEN x
                    ELSE IF (n.k = "&&" /\ x.v = 0) \/ (n.k = "||" /\ x.v # 0) THEN Val(Truth(x.v # 0), x.env)
                    ELSE IF y.st # "ok" THEN y
                    ELSE IF Undefined(n.k, x.v, y.v) THEN Bad("err", y.env) ELSE Val(Computed(n.k, x.v, y.v), y.env)
=============================================================================
