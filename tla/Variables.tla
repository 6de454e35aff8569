----------------------------- MODULE Variables -----------------------------
(***************************************************************************)
(* Shell variables (src/var, src/vartab, export, readonly, local, unset):  *)
(* the stack of variable tables on which functions, prefix assignments and *)
(* the subshells of this shell, which do not fork, keep their own.         *)
(*                                                                         *)
(* A variable is a key <<level, name, k>> of vars (k = 2 when a table      *)
(* holds the name already) and [text, off, unset, exp, loc, ro, parent,    *)
(* child]: its string behind the name (NoText: the name alone), whether    *)
(* the offset of the value is past the =, the flags, and the variables it  *)
(* shadows and is shadowed by.                                             *)
(***************************************************************************)
EXTENDS Naturals, Sequences, SequencesExt, FiniteSets

CONSTANTS Names, Values, NoText, MaxTabs,
          sh_interactive,
          Careful       \* only scripts that keep to their own scope, see Keeps

VARIABLES tabs,         \* the tables, outermost first: [fn, sub, was]
          vars, allexport,
          gone          \* "": running, "exit", or "assert" when one failed

varVars == <<tabs, vars, allexport, gone>>

NoKey == <<0, "", 0>>
top == Len(tabs)

-----------------------------------------------------------------------------
var_search_in(vs, l, n) ==
  LET ks == {k \in DOMAIN vs : k[2] = n /\ k[1] <= l}
  IN  IF ks = {} THEN NoKey ELSE CHOOSE k \in ks : \A j \in ks : j[1] < k[1] \/ (j[1] = k[1] /\ j[3] <= k[3])
var_search(vs, n) == var_search_in(vs, top, n)
(* What $n shows: a wrong offset leaves the = in front.                    *)
Shown(v) == IF v.text = NoText THEN <<"", "">> ELSE <<IF v.off THEN "" ELSE "=", v.text>>
EnvAt(vs, l) == [n \in Names |-> LET k == var_search_in(vs, l, n) IN
                  IF k = NoKey THEN [val |-> <<"none", "">>, ro |-> FALSE] ELSE [val |-> Shown(vs[k]), ro |-> vs[k].ro]]

Fresh == [text |-> NoText, off |-> FALSE, unset |-> TRUE, exp |-> FALSE, loc |-> FALSE, ro |-> FALSE, parent |-> NoKey, child |-> NoKey]
var_import(t) == [Fresh EXCEPT !.text = t, !.off = TRUE, !.unset = FALSE, !.exp = TRUE]    \* the environment's
Without(vs, ks) == [k \in DOMAIN vs \ ks |-> vs[k]]
With(vs, k, v) == [j \in DOMAIN vs \cup {k} |-> IF j = k THEN v ELSE vs[j]]

(* The innermost table that is not a function's.                           *)
Base(ts) == CHOOSE l \in DOMAIN ts : ~ts[l].fn /\ \A m \in l + 1..Len(ts) : ts[m].fn
(* [vs, k]: the variable to assign to, made if need be; a new one that     *)
(* shadows another borrows its string, with the offset of a fresh one.     *)
var_create(ts, vs, n, local) ==
  LET v == var_search_in(vs, Len(ts), n)
      l == IF local THEN Len(ts) ELSE Base(ts)
      k == <<l, n, IF <<l, n, 1>> \in DOMAIN vs THEN 2 ELSE 1>>
      new == IF v = NoKey THEN Fresh ELSE [Fresh EXCEPT !.text = vs[v].text, !.ro = vs[v].ro, !.parent = v]
      linked == IF v = NoKey THEN vs ELSE [vs EXCEPT ![v].child = k]
  IN  IF v # NoKey /\ (v[1] = Len(ts) \/ vs[v].loc \/ (~local /\ v[1] = Base(ts))) THEN [vs |-> vs, k |-> v]
      ELSE [vs |-> With(linked, k, new), k |-> k]
(* [vs, ok]: name=text, unless it is readonly.                             *)
Put(c, text, exp, local) ==
  LET v == c.vs[c.k]
  IN  IF v.ro THEN [vs |-> c.vs, ok |-> FALSE]
      ELSE [vs |-> [c.vs EXCEPT ![c.k] = [v EXCEPT !.text = text, !.off = TRUE, !.unset = FALSE,
                                                   !.exp = @ \/ exp, !.loc = @ \/ local]], ok |-> TRUE]
var_setsa(ts, vs, n, text, exp, local) == Put(var_create(ts, vs, n, local), text, exp \/ allexport, local)
var_setv(vs, n, text, local) == Put(var_create(tabs, vs, n, local), text, allexport, local)
var_setvint(vs, n, text) == Put(var_create(tabs, vs, n, FALSE), text, FALSE, FALSE)     \* set -a is not asked
var_copys(ts, vs, n, text) ==            \* no flag is applied, none is asked
  LET c == var_create(ts, vs, n, FALSE) IN [c.vs EXCEPT ![c.k] = [@ EXCEPT !.text = text, !.off = TRUE, !.unset = FALSE]]
(* A flag of a variable of an outer table is not changed; its being set    *)
(* again only makes it count as set.                                       *)
var_chflg(ts, vs, n, flag, set) ==
  LET c == var_create(ts, vs, n, FALSE)
      v == c.vs[c.k]
  IN  IF c.k[1] = Len(ts) THEN [c.vs EXCEPT ![c.k] = IF flag = "ro" THEN [v EXCEPT !.ro = set] ELSE [v EXCEPT !.exp = set]]
      ELSE IF v.ro THEN c.vs ELSE [c.vs EXCEPT ![c.k].unset = FALSE]
(* Every shadowed level goes too.                                          *)
Chain(vs, k) == {j \in DOMAIN vs : j[2] = k[2] /\ j[1] <= k[1]}
var_unset(vs, n) == LET k == var_search(vs, n) IN IF k = NoKey THEN vs ELSE Without(vs, Chain(vs, k))
(* The environment of a program: exported, assigned, innermost.            *)
var_export(vs) ==
  LET ks == {k \in DOMAIN vs : k = var_search(vs, k[2]) /\ vs[k].exp /\ ~vs[k].unset}
  IN  [n \in {k[2] : k \in ks} |-> vs[var_search(vs, n)].text]

vartab_push(fn) == Append(tabs, [fn |-> fn, sub |-> ~fn, was |-> IF fn THEN <<>> ELSE EnvAt(vars, top)])
(* Tables down to level l go; a variable still shadowed fails vartab_cleanup's assertion. *)
At(vs, l) == {k \in DOMAIN vs : k[1] >= l}
(* What a mutated vartab_pop would do: the variables of the table stay.    *)
vartab_pop_keeps(vs, l) ==
  [k \in DOMAIN vs |-> [vs[k] EXCEPT !.child = IF @[1] >= l THEN NoKey ELSE @]]
vartab_pop(vs, l) == LET rest == Without(vs, At(vs, l)) IN [k \in DOMAIN rest |-> [rest[k] EXCEPT !.child = IF @[1] >= l THEN NoKey ELSE @]]
Asserted(vs, l) == \A k \in At(vs, l) : vs[k].child = NoKey \/ vs[k].child[1] > k[1]

-----------------------------------------------------------------------------
Running == gone = ""
Down(vs, l) ==
  /\ tabs' = SubSeq(tabs, 1, l - 1)
  /\ vars' = vartab_pop(vs, l)
  /\ gone' = IF Asserted(vs, l) THEN "" ELSE "assert"
(* A failed assignment or special builtin leaves a shell that reads a      *)
(* script: the subshell, or the process.                                   *)
Subs == {l \in 1..top : tabs[l].sub}
Fail(vs) ==
  IF sh_interactive THEN vars' = vs /\ UNCHANGED <<tabs, gone>>
  ELSE IF Subs = {} THEN gone' = "exit" /\ UNCHANGED <<tabs, vars>>
  ELSE Down(vs, CHOOSE l \in Subs : \A m \in Subs : m <= l)
Assigned(r) == IF r.ok THEN vars' = r.vs /\ UNCHANGED <<tabs, gone>> ELSE Fail(r.vs)

(* What a careful script keeps to: a name is local once on the stack, not  *)
(* used in a subshell below or in front of a command there, not readonly;  *)
(* attributes and unset are for a variable of the current scope alone.     *)
Found(n) == var_search(vars, n)
Readonly(n) == Found(n) # NoKey /\ vars[Found(n)].ro
Reaches(n) == Found(n) # NoKey /\ vars[Found(n)].loc => ~\E l \in Found(n)[1] + 1..top : tabs[l].sub
Keeps(op, n) ==
  Careful => CASE op = "set" -> Reaches(n) /\ (Readonly(n) => Found(n)[1] >= Base(tabs))
               [] op = "setflag" -> Reaches(n)
               [] op = "flag" -> Found(n)[1] = top
               [] op = "unset" -> Found(n) # NoKey => Reaches(n) /\ Found(n)[1] = Base(tabs) /\ Cardinality(Chain(vars, Found(n))) = 1
               [] op = "local" -> Found(n) # NoKey => ~vars[Found(n)].ro /\ (vars[Found(n)].loc => Found(n)[1] = top)
               [] op = "prefix" -> Found(n) # NoKey => ~vars[Found(n)].loc

Assign(n, t) == Running /\ Keeps("set", n) /\ Assigned(var_setsa(tabs, vars, n, t, FALSE, FALSE)) /\ UNCHANGED allexport
(* read, for, ${n=t} and $((n=t)); and $((n++)): a failure is reported,    *)
(* no more.                                                                *)
Store(n, t) == /\ Running /\ Keeps("set", n)
               /\ vars' = var_setv(vars, n, t, FALSE).vs
               /\ UNCHANGED <<tabs, allexport, gone>>
Count(n, t) == /\ Running /\ Keeps("set", n)
               /\ vars' = var_setvint(vars, n, t).vs
               /\ UNCHANGED <<tabs, allexport, gone>>
builtin_local(n, t) == /\ Running /\ Keeps("local", n)
                       /\ vars' = var_setv(vars, n, t, TRUE).vs
                       /\ UNCHANGED <<tabs, allexport, gone>>
(* export and readonly, with a value or without.                           *)
builtin_flag(n, flag, set) == /\ Running /\ Keeps("flag", n)
                              /\ vars' = var_chflg(tabs, vars, n, flag, set)
                              /\ UNCHANGED <<tabs, allexport, gone>>
builtin_setflag(n, t, flag) ==
  /\ Running /\ Keeps("setflag", n) /\ UNCHANGED allexport
  /\ IF Readonly(n) THEN Fail(vars)
     ELSE vars' = var_chflg(tabs, var_copys(tabs, vars, n, t), n, flag, TRUE) /\ UNCHANGED <<tabs, gone>>
builtin_unset(n) ==
  /\ Running /\ Keeps("unset", n) /\ UNCHANGED allexport
  /\ IF Readonly(n) THEN Fail(vars) ELSE vars' = var_unset(vars, n) /\ UNCHANGED <<tabs, gone>>
set_a == Running /\ allexport' = ~allexport /\ UNCHANGED <<tabs, vars, gone>>

Function == Running /\ top < MaxTabs /\ tabs' = vartab_push(TRUE) /\ UNCHANGED <<vars, allexport, gone>>
Subshell == Running /\ top < MaxTabs /\ tabs' = vartab_push(FALSE) /\ UNCHANGED <<vars, allexport, gone>>
(* n=t in front of a command: a table of its own, exported.                *)
Prefix(n, t) ==
  LET ts == vartab_push(TRUE)
      r == var_setsa(ts, vars, n, t, TRUE, TRUE)
  IN  /\ Running /\ top < MaxTabs /\ Keeps("prefix", n) /\ UNCHANGED allexport
      /\ IF r.ok THEN tabs' = ts /\ vars' = r.vs /\ UNCHANGED gone
         ELSE Fail(vartab_pop(r.vs, Len(ts)))
Return == Running /\ top > 1 /\ Down(vars, top) /\ UNCHANGED allexport

VarInit == /\ tabs = <<[fn |-> FALSE, sub |-> FALSE, was |-> <<>>]>>
           /\ \E environ \in SUBSET Names, t \in Values : vars = [k \in {<<1, n, 1>> : n \in environ} |-> var_import(t)]
           /\ allexport = FALSE /\ gone = ""
VarNext ==
  \/ \E n \in Names, t \in Values :
       \/ Assign(n, t) \/ Store(n, t) \/ Count(n, t) \/ builtin_local(n, t) \/ Prefix(n, t)
       \/ \E flag \in {"exp", "ro"} : builtin_setflag(n, t, flag)
  \/ \E n \in Names : builtin_unset(n) \/ \E flag \in {"exp", "ro"}, set \in BOOLEAN : (set \/ flag = "exp") /\ builtin_flag(n, flag, set)
  \/ set_a \/ Function \/ Subshell \/ Return
VarSpec == VarInit /\ [][VarNext]_varVars

-----------------------------------------------------------------------------
(* The variables of this shell keep what variables promise.                *)
Frames == [i \in 1..top - 1 |-> IF tabs[i + 1].sub THEN EnvAt(vars, i)
                                ELSE [n \in {k[2] : k \in {j \in DOMAIN vars : j[1] = i + 1}} |-> EnvAt(vars, i)[n]]]
Promised == INSTANCE ShellEnv WITH
              env <- EnvAt(vars, top), frames <- SubSeq(Frames, 1, top - 1),
              Texts <- {<<"", t>> : t \in Values}, Nil <- <<"none", "">>
VarsPromised == Promised!EnvSpec

(* A subshell, which runs in this process, changes no variable outside.    *)
SubshellIsolated == \A l \in DOMAIN tabs : tabs[l].sub => EnvAt(vars, l - 1) = tabs[l].was
(* No table is given up while a variable of it is still shadowed: the      *)
(* assertion in vartab_cleanup.                                            *)
NoAssert == gone # "assert"
VarTypeOK == /\ top \in 1..MaxTabs /\ gone \in {"", "exit", "assert"} /\ allexport \in BOOLEAN
             /\ \A k \in DOMAIN vars : k[1] \in 1..top /\ k[2] \in Names
(* Shadowing is a chain: who shadows a variable is shadowing just that.    *)
ChainKept == gone = "" => \A k \in DOMAIN vars :
               /\ vars[k].child # NoKey => vars[k].child \in DOMAIN vars /\ vars[vars[k].child].parent = k
               /\ vars[k].parent # NoKey => vars[k].parent \in DOMAIN vars /\ vars[vars[k].parent].child = k
=============================================================================
