------------------------------ MODULE VarTable ------------------------------
(***************************************************************************)
(* How a variable is found by its name (src/var, src/vartab): a table is   *)
(* hash buckets, each a list that var_hsearch orders by a hash made of the *)
(* first characters and var_bsearch by the name; one list of all is        *)
(* ordered likewise.  The model is one bucket per table, the case that can *)
(* go wrong, and the two extremes of the other hash: rndhash tells all     *)
(* names of one length apart, or none.                                     *)
(*                                                                         *)
(* A character is a number 1..2^VAR_CHAR - 1, as reduce() makes it, a name *)
(* a sequence of them.                                                     *)
(***************************************************************************)
EXTENDS Integers, Sequences, SequencesExt, FiniteSets, FiniteSetsExt

CONSTANTS VarNames, VAR_CHAR, VAR_BITS,
          MaxLevels,    \* 1: the shell's own table, 2: a function's on top of it
          MaxEntries

VARIABLES buckets,      \* the bucket of each table, outermost first: a list of names
          glist,        \* the list of all: <<level, name>>
          rnd           \* does rndhash tell names apart

tableVars == <<buckets, glist, rnd>>

VAR_CHARS == VAR_BITS \div VAR_CHAR
HashMax == 2 ^ VAR_BITS - 1              \* (VAR_HASH)-1

-----------------------------------------------------------------------------
(* The first VAR_CHARS characters, and what bits are left of the next one. *)
var_lexhash(v) ==
  LET shift(i) == VAR_BITS - VAR_CHAR * i
      bits(i) == IF shift(i) < 0 THEN v[i] \div 2 ^ (0 - shift(i)) ELSE v[i] * 2 ^ shift(i)
  IN  FoldLeftDomain(LAMBDA h, i : IF shift(i) > 0 - VAR_CHAR THEN h + bits(i) ELSE h, 0, v)
var_rndhash(v) == IF rnd THEN v ELSE <<>>

First(lo, hi, P(_)) == Min({i \in lo..hi : P(i)} \cup {hi + 1})
(* From position p on, the first entry that is not smaller; an exact       *)
(* search passes over those of another length or rndhash.                  *)
var_hsearch(list, p, v, exact) ==
  First(p, Len(list), LAMBDA i : /\ var_lexhash(list[i]) >= var_lexhash(v)
                                 /\ exact => Len(list[i]) = Len(v) /\ var_rndhash(list[i]) = var_rndhash(v))
HashDistance(list, p, v) == IF p > Len(list) THEN HashMax ELSE var_lexhash(list[p]) - var_lexhash(v)
(* What a mutated Passed would do: a longer name is not passed over.       *)
PassedSmaller(m, w) ==
  LET d == First(1, Min({Len(m), Len(w)}), LAMBDA i : m[i] # w[i])
  IN  d <= Len(m) /\ d <= Len(w) /\ m[d] < w[d]
(* The first entry that is the name, a prefix of it or greater: an entry   *)
(* the name is a prefix of is passed over.                                 *)
Passed(m, w) == LET d == First(1, Min({Len(m), Len(w)}), LAMBDA i : m[i] # w[i])
                IN  IF d > Len(m) THEN FALSE ELSE d > Len(w) \/ m[d] < w[d]
var_bsearch(list, p, v) == First(p, Len(list), LAMBDA i : ~Passed(list[i], v))

(* [at, pos, hdist]: where the name is in the bucket (0: nowhere), where a *)
(* new one goes, and the least hash distance met so far.                   *)
PlaceFrom(list, v, exact, hdist, p) ==       \* p: where the hash leads
  LET dist == HashDistance(list, p, v)
      q == var_bsearch(list, p, v)
      Not(pos, h) == [at |-> 0, pos |-> pos, hdist |-> h]
  IN  CASE list = <<>> -> Not(1, hdist)
        [] dist = 0 /\ (Len(v) < VAR_CHARS \/ (Len(v) <= VAR_CHARS /\ Len(list[p]) <= VAR_CHARS))
             -> [at |-> p, pos |-> 1, hdist |-> hdist]
        [] dist # 0 /\ exact -> Not(1, hdist)
        [] dist > hdist -> Not(p, hdist)
        [] q <= Len(list) /\ list[q] = v -> [at |-> q, pos |-> 1, hdist |-> Min({dist, hdist})]
        [] OTHER -> Not(q, Min({dist, hdist}))
vartab_search(list, v, exact, hdist) == PlaceFrom(list, v, exact, hdist, var_hsearch(list, 1, v, exact))
(* All tables from the innermost on, with one context: [l, at, pos].       *)
SearchFrom[l \in Nat, v \in Seq(Nat), exact \in BOOLEAN, hdist \in Nat] ==
  LET With(s) == IF s.at > 0 THEN [l |-> l, at |-> s.at, pos |-> [k \in {} |-> 0]]
                 ELSE IF l = 1 THEN [l |-> 0, at |-> 0, pos |-> [k \in {1} |-> s.pos]]
                 ELSE [SearchFrom[l - 1, v, exact, s.hdist] EXCEPT !.pos = [k \in DOMAIN @ \cup {l} |-> IF k = l THEN s.pos ELSE @[k]]]
  IN  With(vartab_search(buckets[l], v, exact, hdist))
var_search(v, exact) == SearchFrom[Len(buckets), v, exact, HashMax]

-----------------------------------------------------------------------------
(* The new entry takes the place of the one it shadows in the list of all, *)
(* or goes where the hash, then the name, puts it.                         *)
GlobalAt(v) == LET names == SubSeq([i \in DOMAIN glist |-> glist[i][2]], 1, Len(glist))
                   p == var_hsearch(names, 1, v, FALSE)
               IN  IF HashDistance(names, p, v) = 0 THEN var_bsearch(names, p, v) ELSE p
vartab_add(l, v, pos, parent) ==
  /\ buckets' = [buckets EXCEPT ![l] = InsertAt(@, pos, v)]
  /\ glist' = IF parent > 0 THEN [i \in DOMAIN glist |-> IF glist[i] = <<parent, v>> THEN <<l, v>> ELSE glist[i]]
              ELSE InsertAt(glist, GlobalAt(v), <<l, v>>)
  /\ UNCHANGED rnd
(* An assignment to v, in a function local or not; what it finds it takes. *)
Entries == FoldSeq(LAMBDA b, n : Len(b) + n, 0, buckets)
Assign(v, local) == \E s \in {var_search(v, FALSE)} :
  LET l == IF local THEN Len(buckets) ELSE 1
  IN  /\ Entries < MaxEntries
      /\ IF s.l = Len(buckets) \/ s.l = l \/ s.l > 1 THEN UNCHANGED tableVars
         ELSE vartab_add(l, v, s.pos[l], s.l)
(* unset takes the name off every table it is shadowed on, innermost first. *)
Unset(v) == \E s \in {var_search(v, TRUE)} :
  LET At(l) == IF l = s.l THEN s.at ELSE First(1, Len(buckets[l]), LAMBDA i : buckets[l][i] = v)
  IN  /\ s.l > 0
      /\ buckets' = [l \in DOMAIN buckets |-> IF l <= s.l /\ v \in Range(buckets[l]) THEN RemoveAt(buckets[l], At(l)) ELSE buckets[l]]
      /\ glist' = SelectSeq(glist, LAMBDA e : e # <<s.l, v>>)
      /\ UNCHANGED rnd
Call == Len(buckets) < MaxLevels /\ buckets' = Append(buckets, <<>>) /\ UNCHANGED <<glist, rnd>>
(* vartab_cleanup: what a table shadowed is back in its place.             *)
Return ==
  /\ Len(buckets) > 1
  /\ LET l == Len(buckets)
         back == [i \in DOMAIN glist |-> IF glist[i][1] < l THEN glist[i]
                                         ELSE <<IF glist[i][2] \in Range(buckets[1]) THEN 1 ELSE 0, glist[i][2]>>]
     IN  /\ buckets' = Front(buckets)
         /\ glist' = SelectSeq(SubSeq(back, 1, Len(glist)), LAMBDA e : e[1] > 0)
  /\ UNCHANGED rnd

TableInit == buckets = <<<<>>>> /\ glist = <<>> /\ rnd \in BOOLEAN
TableNext == \/ \E v \in VarNames : Unset(v) \/ \E local \in BOOLEAN : Assign(v, local)
             \/ Call \/ Return
TableSpec == TableInit /\ [][TableNext]_tableVars

-----------------------------------------------------------------------------
(* A name assigned to is found again, whatever else was assigned before,   *)
(* between and after: by the search that reads and by the one that writes, *)
(* in the innermost table that has it; and a name that was not, is not.    *)
Holders(v) == {l \in DOMAIN buckets : v \in Range(buckets[l])}
FoundAgain == \A v \in VarNames, exact \in BOOLEAN :
                var_search(v, exact).l = IF Holders(v) = {} THEN 0 ELSE Max(Holders(v))
(* No table holds a name twice, and the list of all holds each name once:  *)
(* an assignment never makes a second variable beside the one there is.    *)
HeldOnce == /\ \A l \in DOMAIN buckets : IsInjective(buckets[l])
            /\ IsInjective(SubSeq([i \in DOMAIN glist |-> glist[i][2]], 1, Len(glist)))
            /\ \A v \in VarNames : Holders(v) # {} <=> <<Max(Holders(v) \cup {0}), v>> \in Range(glist)
=============================================================================
