------------------------------ MODULE Patterns ------------------------------
(***************************************************************************)
(* Pattern matching: lib/path/path_fnmatch.c as the shell calls it (flags  *)
(* 0: case, ${v%pat}, find -name), and what a pattern means.               *)
(*                                                                         *)
(* A pattern and a string are sequences of characters; the name of a       *)
(* character class is one unit.                                            *)
(***************************************************************************)
EXTENDS Integers, Sequences, SequencesExt, FiniteSets, Functions

(* The characters used, in their order.                                    *)
Ascii == <<"sp", "!", "*", "-", ".", ":", "=", "?", "[", "\\", "]", "a", "b">>
Ord(c) == CHOOSE i \in DOMAIN Ascii : Ascii[i] = c
Between(lo, c, hi) == c \in ToSet(Ascii) /\ lo \in ToSet(Ascii) /\ hi \in ToSet(Ascii) /\ Ord(lo) <= Ord(c) /\ Ord(c) <= Ord(hi)
path_fnmatch_class(name, c) == name = "alpha" /\ c \in {"a", "b"}

At(p, i) == IF i \in DOMAIN p THEN p[i] ELSE "end"
Opens(p, i) == At(p, i) = "[" /\ At(p, i + 1) \in {":", ".", "="}

(* Length of the "[:class:]" at i, 0 when it is not closed.                *)
path_fnmatch_subexpr_len(p, i) ==
  LET ends == {k \in i + 2..Len(p) - 1 : p[k] = p[i + 1] /\ p[k + 1] = "]"}
  IN  IF ends = {} THEN 0 ELSE (CHOOSE k \in ends : \A l \in ends : k <= l) + 2 - i

(* The second end of a range whose "-" would stand at i.                   *)
path_fnmatch_range_end(p, i) ==
  LET n == path_fnmatch_subexpr_len(p, i + 1)
      none == [ok |-> FALSE, end |-> "", skip |-> 0]
  IN  IF At(p, i) # "-" \/ At(p, i + 1) \in {"]", "end"} THEN none
      ELSE IF At(p, i + 1) = "[" /\ At(p, i + 2) \in {".", "="}
           THEN IF n = 5 THEN [ok |-> TRUE, end |-> p[i + 3], skip |-> 1 + n] ELSE none
      ELSE [ok |-> TRUE, end |-> p[i + 1], skip |-> 2]

(* Has the "[" at i a closing "]"?                                         *)
RECURSIVE CloseFrom(_, _)
CloseFrom(p, j) ==
  IF j > Len(p) THEN FALSE
  ELSE IF p[j] = "\\" THEN CloseFrom(p, j + 2)
  ELSE IF Opens(p, j) /\ path_fnmatch_subexpr_len(p, j) > 0 THEN CloseFrom(p, j + path_fnmatch_subexpr_len(p, j))
  ELSE p[j] = "]" \/ CloseFrom(p, j + 1)
path_fnmatch_has_close(p, i) == CloseFrom(p, i + (IF At(p, i + 1) = "!" THEN 3 ELSE 2))

(* What a mutated AfterClass would do: the member that matched is taken    *)
(* for the last one.                                                       *)
AfterClassNext(p, i) == i + 1
(* What is left of a bracket expression once it has matched.               *)
RECURSIVE AfterClass(_, _)
AfterClass(p, i) ==
  IF i > Len(p) THEN i
  ELSE IF p[i] = "]" THEN i + 1
  ELSE IF p[i] = "\\" /\ i < Len(p) THEN AfterClass(p, i + 2)
  ELSE IF Opens(p, i) /\ path_fnmatch_subexpr_len(p, i) > 0 THEN AfterClass(p, i + path_fnmatch_subexpr_len(p, i))
  ELSE AfterClass(p, i + 1)

(* The members from i on against c: the place behind the expression, or 0  *)
(* when c does not match.                                                  *)
RECURSIVE ClassFrom(_, _, _, _, _)
ClassFrom(p, i, start, neg, c) ==
  LET esc == At(p, i) = "\\" /\ i < Len(p)
      k == IF esc THEN i + 1 ELSE i
      n == path_fnmatch_subexpr_len(p, k)
      after == path_fnmatch_range_end(p, k + n)
      range == path_fnmatch_range_end(p, k + 1)
      m == IF ~esc /\ Opens(p, k)
           THEN CASE n = 0 -> [res |-> p[k] = c, next |-> k + 1]
                  [] n > 0 /\ p[k + 1] = ":" -> [res |-> n = 5 /\ path_fnmatch_class(p[k + 2], c), next |-> k + n]
                  [] n = 5 /\ p[k + 1] # ":" /\ after.ok -> [res |-> Between(p[k + 2], c, after.end), next |-> k + n + after.skip]
                  [] OTHER -> [res |-> n = 5 /\ p[k + 2] = c, next |-> k + n]
           ELSE IF ~esc /\ range.ok THEN [res |-> Between(p[k], c, range.end), next |-> k + 1 + range.skip]
           ELSE [res |-> p[k] = c, next |-> k + 1]
  IN  IF i > Len(p) \/ (~esc /\ p[k] = "]" /\ k # start) THEN 0
      ELSE IF (m.res /\ ~neg) \/ (~m.res /\ neg /\ At(p, m.next) = "]") THEN AfterClass(p, m.next)
      ELSE IF m.res /\ neg THEN 0
      ELSE ClassFrom(p, m.next, start, neg, c)

(* The matcher: i and j are the places in pattern and string, star where   *)
(* the last "*" was left, <<0, 0>> when there was none.  On a mismatch it  *)
(* takes one character more.                                               *)
RECURSIVE MatchFrom(_, _, _, _, _)
MatchFrom(p, s, i, j, star) ==
  LET fail == star # <<0, 0>> /\ star[2] <= Len(s) /\ MatchFrom(p, s, star[1], star[2] + 1, <<star[1], star[2] + 1>>)
      stars(k) == IF \A l \in k..Len(p) : p[l] = "*" THEN Len(p) + 1 ELSE CHOOSE l \in k..Len(p) : p[l] # "*" /\ \A m \in k..l - 1 : p[m] = "*"
      literal(k) == IF p[k] = s[j] THEN MatchFrom(p, s, k + 1, j + 1, star) ELSE fail
      neg == At(p, i + 1) = "!"
      first == i + (IF neg THEN 2 ELSE 1)
      class == ClassFrom(p, first, first, neg, s[j])
  IN  IF j > Len(s) THEN stars(i) > Len(p) \/ fail
      ELSE IF i > Len(p) THEN fail
      ELSE CASE p[i] = "[" /\ path_fnmatch_has_close(p, i) -> IF class = 0 THEN fail ELSE MatchFrom(p, s, class, j + 1, star)
             [] p[i] = "\\" -> IF i < Len(p) THEN literal(i + 1) ELSE fail
             [] p[i] = "*" -> MatchFrom(p, s, stars(i), j, <<stars(i), j>>)
             [] p[i] = "?" -> MatchFrom(p, s, i + 1, j + 1, star)
             [] OTHER -> literal(i)
path_fnmatch(p, s) == MatchFrom(p, s, 1, 1, <<0, 0>>)

-----------------------------------------------------------------------------
(* What a pattern means.  It is read once into elements, each a set of     *)
(* characters or "*"; a string matches when it can be cut accordingly.     *)
AnyChar == ToSet(Ascii)
Star == [star |-> TRUE, set |-> {}]
One(set) == [star |-> FALSE, set |-> set]
Closed(p, i) ==                  \* the bracket at i, its first member read like the others
  LET k == i + (IF At(p, i + 1) = "!" THEN 2 ELSE 1)
  IN  CloseFrom(p, IF At(p, k) = "\\" THEN k + 2
                   ELSE IF Opens(p, k) THEN k + (IF path_fnmatch_subexpr_len(p, k) = 0 THEN 1 ELSE path_fnmatch_subexpr_len(p, k))
                   ELSE k + 1)
RECURSIVE Members(_, _)
Members(p, i) ==                 \* [set, next]: members up to the closing bracket
  LET esc == p[i] = "\\" /\ i < Len(p)
      sub == ~esc /\ Opens(p, i) /\ path_fnmatch_subexpr_len(p, i) > 0
      n == IF sub THEN path_fnmatch_subexpr_len(p, i) ELSE IF esc THEN 2 ELSE 1
      lo == IF sub THEN IF n = 5 /\ p[i + 1] # ":" THEN p[i + 2] ELSE "end" ELSE p[i + n - 1]
      r == path_fnmatch_range_end(p, i + n)
      ranged == ~esc /\ lo # "end" /\ r.ok
      own == IF ranged THEN {c \in AnyChar : Between(lo, c, r.end)}
             ELSE IF lo # "end" THEN {lo} ELSE {c \in AnyChar : n = 5 /\ path_fnmatch_class(p[i + 2], c)}
      next == i + n + (IF ranged THEN r.skip ELSE 0)
      rest == Members(p, next)
  IN  IF At(p, next) \in {"]", "end"} THEN [set |-> own, next |-> next + 1]
      ELSE [set |-> own \cup rest.set, next |-> rest.next]
RECURSIVE Elements(_, _)
Elements(p, i) ==
  LET neg == At(p, i + 1) = "!"
      b == Members(p, i + (IF neg THEN 2 ELSE 1))
  IN  IF i > Len(p) THEN <<>>
      ELSE CASE p[i] = "*" -> <<Star>> \o Elements(p, i + 1)
             [] p[i] = "?" -> <<One(AnyChar)>> \o Elements(p, i + 1)
             [] p[i] = "[" /\ Closed(p, i) ->
                  <<One(IF neg THEN AnyChar \ b.set ELSE b.set)>> \o Elements(p, b.next)
             [] p[i] = "\\" -> <<One(IF i < Len(p) THEN {p[i + 1]} ELSE {})>> \o Elements(p, i + 2)
             [] OTHER -> <<One({p[i]})>> \o Elements(p, i + 1)
RECURSIVE Fits(_, _)
Fits(e, s) ==
  IF e = <<>> THEN s = <<>>
  ELSE IF Head(e).star THEN \E k \in 0..Len(s) : Fits(Tail(e), SubSeq(s, k + 1, Len(s)))
  ELSE s # <<>> /\ Head(s) \in Head(e).set /\ Fits(Tail(e), Tail(s))
Means(p, s) == Fits(Elements(p, 1), s)
(* Brackets whose end path_fnmatch_has_close sees where it is.             *)
Plain(p) == \A i \in DOMAIN p : p[i] = "[" => (path_fnmatch_has_close(p, i) <=> Closed(p, i))
=============================================================================
