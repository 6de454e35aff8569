--------------------------- MODULE CommandsProofs ---------------------------
(***************************************************************************)
(* Proofs about Commands, for every set of names, directories and values   *)
(* of PATH, and any number of functions, calls and nested subshells: no    *)
(* function is freed that may still be called, and the cache never changes *)
(* what a name stands for.                                                 *)
(***************************************************************************)
EXTENDS Commands, ListLemmas

-----------------------------------------------------------------------------
(* The inductive invariant *)

Ids == {"program", "function", "builtin", "sbuiltin", "exec"}
Entries == [cmd : [id : Ids, at : Nat], mask : SUBSET {"function", "builtin", "sbuiltin", "stale", "none"}]
FnSet == [name : CmdNames, freed : BOOLEAN]
FrameSet == [kind : {"call", "sub"}, at : Nat, saved : Seq(Nat)]
CmdTypeOK ==
  /\ fnode \in Seq(FnSet)
  /\ calls \in Seq(FrameSet)
  /\ exec_hashtbl \in [CmdNames -> Entries]
  /\ hashall \in BOOLEAN
  /\ path \in Paths
  /\ files \subseteq PathDirs \X CmdNames
  /\ builtins \in [CmdNames -> {"no", "builtin", "sbuiltin", "exec"}]

(* A list of functions: one of each name, none of them freed or retired.   *)
ListIn(l, fs, retired) ==
  /\ l \in Seq(DOMAIN fs)
  /\ \A a, b \in DOMAIN l : fs[l[a]].name = fs[l[b]].name => a = b
  /\ \A a \in DOMAIN l : ~fs[l[a]].freed /\ l[a] \notin retired
NamesOf(l, fs) == {fs[l[a]].name : a \in DOMAIN l}

(* What is called is there; the lists that subshells saved are lists of    *)
(* functions, and the deeper one of two has the names of the other.        *)
CallsOK == \A k \in Framed("call") : calls[k].at \in DOMAIN fnode /\ ~fnode[calls[k].at].freed /\ calls[k].saved = <<>>
SavedOK ==
  /\ \A k \in Framed("sub") : /\ ListIn(calls[k].saved, fnode, functions_retired)
                              /\ NamesOf(calls[k].saved, fnode) \subseteq NamesOf(functions, fnode)
  /\ \A j, k \in Framed("sub") : j < k => NamesOf(calls[j].saved, fnode) \subseteq NamesOf(calls[k].saved, fnode)

(* What exec_search answers, from the function, the builtin and the        *)
(* program of the name.                                                    *)
Choice(found, b, prog, mask) ==
  IF b = "exec" THEN [id |-> "exec", at |-> 1]
  ELSE IF b = "sbuiltin" /\ "sbuiltin" \notin mask THEN [id |-> "sbuiltin", at |-> 1]
  ELSE IF found # 0 /\ "function" \notin mask THEN [id |-> "function", at |-> found]
  ELSE IF b = "builtin" /\ "builtin" \notin mask THEN [id |-> "builtin", at |-> 1]
  ELSE prog
(* An entry of the cache that is not stale tells what a search would find, *)
(* but for the directory of a program.                                     *)
EntryRight(e, found, b, prog) ==
  e.mask \in Masks =>
    IF e.cmd.id = "program" THEN /\ Choice(found, b, prog, e.mask) = prog
                                 /\ e.cmd.at = 0 => prog = None
    ELSE e.cmd = Choice(found, b, prog, e.mask)
CacheRight == \A n \in CmdNames : EntryRight(exec_hashtbl[n], find_function(n), builtins[n], exec_path(n))

ListsOK == functions_retired \subseteq DOMAIN fnode /\ ListIn(functions, fnode, functions_retired) /\ CallsOK /\ SavedOK
CmdInv == CmdTypeOK /\ ListsOK /\ CacheRight

-----------------------------------------------------------------------------
(* Lists *)

(* find_function, on a list that holds no name twice.                      *)
Found(l, fs, n) == LET at == SelectInSeq(l, LAMBDA i : fs[i].name = n) IN IF at = 0 THEN 0 ELSE l[at]
LEMMA FoundIn ==
  ASSUME NEW fs, NEW l, NEW retired, ListIn(l, fs, retired), DOMAIN fs \subseteq Nat \ {0}, NEW n
  PROVE  /\ n \notin NamesOf(l, fs) => Found(l, fs, n) = 0
         /\ \A a \in DOMAIN l : fs[l[a]].name = n => Found(l, fs, n) = l[a]
         /\ Found(l, fs, n) # 0 => \E a \in DOMAIN l : fs[l[a]].name = n /\ Found(l, fs, n) = l[a]
<1> DEFINE I == {a \in 1..Len(l) : fs[l[a]].name = n}
<1>1. l \in Seq(DOMAIN fs) /\ DOMAIN l = 1..Len(l) /\ Len(l) \in Nat
  BY DEF ListIn
<1>2. Found(l, fs, n) = LET at == IF I # {} THEN Min(I) ELSE 0 IN IF at = 0 THEN 0 ELSE l[at]
  BY DEF Found, SelectInSeq
<1>3. CASE I = {}
  <2>1. Found(l, fs, n) = 0
    BY <1>2, <1>3, Zenon
  <2>2. ~ \E a \in DOMAIN l : fs[l[a]].name = n
    BY <1>1, <1>3
  <2> QED BY <2>1, <2>2
<1>4. CASE I # {}
  <2>1. Min(I) \in I
    <3>1. I \in SUBSET Nat
      OBVIOUS
    <3> QED BY <3>1, <1>4, MinOf
  <2>2. Found(l, fs, n) = l[Min(I)]
    BY <2>1, <1>2, <1>4
  <2>3. Min(I) \in DOMAIN l /\ fs[l[Min(I)]].name = n
    BY <2>1, <1>1
  <2>4. n \in NamesOf(l, fs)
    BY <2>3 DEF NamesOf
  <2>5. \A a \in DOMAIN l : fs[l[a]].name = n => a = Min(I)
    BY <2>3 DEF ListIn
  <2> QED BY <2>2, <2>3, <2>4, <2>5
<1> QED BY <1>3, <1>4

(* The same with sets: names tell the functions of a list apart.           *)
LEMMA ListAsSet ==
  ASSUME NEW l, NEW fs, NEW r
  PROVE  ListIn(l, fs, r) <=> /\ l \in Seq(DOMAIN fs) /\ Distinct(l)
                              /\ \A x, y \in ToSet(l) : fs[x].name = fs[y].name => x = y
                              /\ \A x \in ToSet(l) : ~fs[x].freed /\ x \notin r
BY DEF ListIn, Distinct, ToSet

(* A list without element i is a list, with all other elements.            *)
LEMMA RemoveIn ==
  ASSUME NEW fs, NEW l, NEW retired, ListIn(l, fs, retired), NEW i
  PROVE  /\ ListIn(RemoveFirst(l, i), fs, retired)
         /\ \A a \in DOMAIN RemoveFirst(l, i) : RemoveFirst(l, i)[a] # i /\ \E b \in DOMAIN l : RemoveFirst(l, i)[a] = l[b]
         /\ \A b \in DOMAIN l : l[b] # i => \E a \in DOMAIN RemoveFirst(l, i) : RemoveFirst(l, i)[a] = l[b]
<1> DEFINE R == RemoveFirst(l, i)
<1>1. l \in Seq(DOMAIN fs) /\ Distinct(l)
  BY ListAsSet
<1>2. R \in Seq(DOMAIN fs) /\ Distinct(R) /\ ToSet(R) = ToSet(l) \ {i}
  BY <1>1, Unlinking
<1> HIDE DEF R
<1>3. ListIn(R, fs, retired)
  <2>1. /\ \A x, y \in ToSet(l) : fs[x].name = fs[y].name => x = y
        /\ \A x \in ToSet(l) : ~fs[x].freed /\ x \notin retired
    BY ListAsSet
  <2>2. /\ \A x, y \in ToSet(R) : fs[x].name = fs[y].name => x = y
        /\ \A x \in ToSet(R) : ~fs[x].freed /\ x \notin retired
    BY <2>1, <1>2
  <2> QED BY <2>2, <1>2, ListAsSet
<1>4. /\ \A a \in DOMAIN R : R[a] # i /\ \E b \in DOMAIN l : R[a] = l[b]
      /\ \A b \in DOMAIN l : l[b] # i => \E a \in DOMAIN R : R[a] = l[b]
  BY <1>2 DEF ToSet
<1> QED BY <1>3, <1>4 DEF R

-----------------------------------------------------------------------------
(* Lookups *)

(* A stale entry, and no entry, have no mask that a lookup asks for.       *)
LEMMA NoMask == Stale \notin Masks /\ NoEntry.mask \notin Masks
<1>1. "stale" \notin {"function", "builtin", "sbuiltin"} /\ "none" \notin {"function", "builtin", "sbuiltin"}
  OBVIOUS
<1>2. \A m \in Masks : m \subseteq {"function", "builtin", "sbuiltin"}
  BY DEF Masks
<1> QED BY <1>1, <1>2 DEF Stale, NoEntry

(* exec_search chooses between the function, the builtin and the program.  *)
LEMMA SearchIs ==
  ASSUME NEW n, NEW mask
  PROVE  exec_search(n, mask) = Choice(find_function(n), builtins[n], exec_path(n), mask)
BY DEF exec_search, Choice

(* The program of a name is nowhere, or where the file is.                 *)
Program(p, fl, n) == LET at == SelectInSeq(p, LAMBDA d : <<d, n>> \in fl) IN IF at = 0 THEN None ELSE [id |-> "program", at |-> p[at]]
LEMMA ProgramIn ==
  ASSUME NEW p \in Paths, NEW fl, NEW n
  PROVE  /\ Program(p, fl, n) = None <=> \A a \in 1..Len(p) : <<p[a], n>> \notin fl
         /\ Program(p, fl, n) = None \/ \E d \in PathDirs : Program(p, fl, n) = [id |-> "program", at |-> d] /\ <<d, n>> \in fl
         /\ Program(p, fl, n).id = "program" /\ Program(p, fl, n).at \in Nat
         /\ Program(p, fl, n).at = 0 <=> Program(p, fl, n) = None
<1> DEFINE I == {a \in 1..Len(p) : <<p[a], n>> \in fl}
<1>1. p \in Seq(PathDirs) /\ PathDirs \subseteq Nat \ {0}
  BY CmdConstants
<1>2. Program(p, fl, n) = LET at == IF I # {} THEN Min(I) ELSE 0 IN IF at = 0 THEN None ELSE [id |-> "program", at |-> p[at]]
  BY DEF Program, SelectInSeq
<1>3. CASE I = {}
  <2>1. Program(p, fl, n) = None
    BY <1>2, <1>3, Zenon
  <2>2. \A a \in 1..Len(p) : <<p[a], n>> \notin fl
    BY <1>3
  <2> QED BY <2>1, <2>2 DEF None
<1>4. CASE I # {}
  <2>1. I \in SUBSET Nat
    OBVIOUS
  <2>2. Min(I) \in I
    BY <2>1, <1>4, MinOf
  <2>3. Min(I) \in 1..Len(p) /\ Min(I) # 0 /\ <<p[Min(I)], n>> \in fl
    BY <2>2
  <2> HIDE DEF I
  <2>4. Program(p, fl, n) = [id |-> "program", at |-> p[Min(I)]]
    <3>1. Program(p, fl, n) = IF Min(I) = 0 THEN None ELSE [id |-> "program", at |-> p[Min(I)]]
      BY <1>2, <1>4, Zenon
    <3> QED BY <2>3, <3>1
  <2>5. p[Min(I)] \in PathDirs /\ p[Min(I)] # 0 /\ p[Min(I)] \in Nat
    <3>1. \A a \in 1..Len(p) : p[a] \in PathDirs
      BY <1>1
    <3>2. \A d \in PathDirs : d # 0 /\ d \in Nat
      BY <1>1
    <3> QED BY <2>3, <3>1, <3>2
  <2> DEFINE d == p[Min(I)]
  <2>6. Program(p, fl, n).id = "program" /\ Program(p, fl, n).at = d
    BY <2>4
  <2>7. d \in PathDirs /\ <<d, n>> \in fl /\ Program(p, fl, n) = [id |-> "program", at |-> d]
    BY <2>3, <2>4, <2>5
  <2>8. Program(p, fl, n) # None
    BY <2>5, <2>6 DEF None
  <2> QED BY <2>3, <2>5, <2>6, <2>7, <2>8
<1> QED BY <1>3, <1>4

LEMMA PathIs ==
  ASSUME path \in Paths, NEW n
  PROVE  /\ exec_path(n) = None \/ \E d \in PathDirs : exec_path(n) = [id |-> "program", at |-> d] /\ <<d, n>> \in files
         /\ exec_path(n).id = "program" /\ exec_path(n).at \in Nat
         /\ exec_path(n).at = 0 <=> exec_path(n) = None
<1> DEFINE e == exec_path(n)
<1>1. e = Program(path, files, n)
  BY DEF exec_path, Program
<1> HIDE DEF e
<1>2. /\ e = None \/ \E d \in PathDirs : e = [id |-> "program", at |-> d] /\ <<d, n>> \in files
      /\ e.id = "program" /\ e.at \in Nat
      /\ e.at = 0 <=> e = None
  BY <1>1, ProgramIn
<1> QED BY <1>2 DEF e

(* The function of a name is on the list.                                  *)
LEMMA FunctionIs ==
  ASSUME CmdInv, NEW n
  PROVE  /\ n \notin NamesOf(functions, fnode) => find_function(n) = 0
         /\ \A a \in DOMAIN functions : fnode[functions[a]].name = n => find_function(n) = functions[a]
         /\ find_function(n) # 0 => \E a \in DOMAIN functions : fnode[functions[a]].name = n /\ find_function(n) = functions[a]
         /\ find_function(n) \in Nat
<1>1. find_function(n) = Found(functions, fnode, n)
  BY DEF find_function, Found
<1>2. ListIn(functions, fnode, functions_retired) /\ DOMAIN fnode \subseteq Nat \ {0}
  BY DEF CmdInv, ListsOK, CmdTypeOK
<1>3. /\ n \notin NamesOf(functions, fnode) => find_function(n) = 0
      /\ \A a \in DOMAIN functions : fnode[functions[a]].name = n => find_function(n) = functions[a]
      /\ find_function(n) # 0 => \E a \in DOMAIN functions : fnode[functions[a]].name = n /\ find_function(n) = functions[a]
  BY <1>1, <1>2, FoundIn
<1>4. \A a \in DOMAIN functions : functions[a] \in Nat
  BY <1>2 DEF ListIn
<1> QED BY <1>3, <1>4

(* Forgetting leaves no entry that a lookup would take.                    *)
LEMMA Invalidated ==
  ASSUME NEW t \in [CmdNames -> Entries]
  PROVE  /\ exec_hash_invalidate_all(t) \in [CmdNames -> Entries]
         /\ \A n \in CmdNames : exec_hash_invalidate_all(t)[n].mask \notin Masks
<1>1. ASSUME NEW n \in CmdNames
      PROVE  exec_hash_invalidate_all(t)[n] \in Entries /\ exec_hash_invalidate_all(t)[n].mask \notin Masks
  <2>1. exec_hash_invalidate_all(t)[n] = IF t[n] = NoEntry THEN NoEntry ELSE [t[n] EXCEPT !.mask = Stale]
    BY DEF exec_hash_invalidate_all
  <2>2. CASE t[n] = NoEntry
    BY <2>1, <2>2, NoMask
  <2>3. CASE t[n] # NoEntry
    <3>1. [t[n] EXCEPT !.mask = Stale] = [cmd |-> t[n].cmd, mask |-> Stale]
      BY DEF Entries
    <3>2. [cmd |-> t[n].cmd, mask |-> Stale] \in Entries
      BY DEF Entries, Stale
    <3> QED BY <2>1, <2>3, <3>1, <3>2, NoMask
  <2> QED BY <2>2, <2>3
<1> QED BY <1>1 DEF exec_hash_invalidate_all

(* The cache as a lookup finds it.                                         *)
LEMMA SeenRight ==
  ASSUME CmdInv
  PROVE  /\ Seen \in [CmdNames -> Entries]
         /\ \A n \in CmdNames : EntryRight(Seen[n], find_function(n), builtins[n], exec_path(n))
<1>1. exec_hashtbl \in [CmdNames -> Entries]
  BY DEF CmdInv, CmdTypeOK
<1>2. CASE exec_hash_path_seen = path
  BY <1>1, <1>2 DEF Seen, CmdInv, CacheRight
<1>3. CASE exec_hash_path_seen # path
  <2>1. Seen = exec_hash_invalidate_all(exec_hashtbl)
    BY <1>3 DEF Seen
  <2> QED BY <1>1, <2>1, Invalidated DEF EntryRight
<1> QED BY <1>2, <1>3

(* A lookup has the outcome of a search, and leaves the cache right.       *)
LEMMA HashRight ==
  ASSUME CmdInv, NEW n \in CmdNames, NEW mask \in Masks
  PROVE  /\ exec_hash(n, mask).t \in [CmdNames -> Entries]
         /\ \A m \in CmdNames : EntryRight(exec_hash(n, mask).t[m], find_function(m), builtins[m], exec_path(m))
         /\ LET c == exec_hash(n, mask).cmd  s == exec_search(n, mask)
            IN  c = s \/ (c.id = "program" /\ s.id = "program" /\ <<c.at, n>> \in files)
<1> DEFINE e == Seen[n]
           s == exec_search(n, mask)
           hit == e.mask = mask /\ ~Gone(e, n)
           cmd == IF hit THEN e.cmd ELSE s
           new == [cmd |-> cmd, mask |-> mask]
<1>1. /\ Seen \in [CmdNames -> Entries]
      /\ \A m \in CmdNames : EntryRight(Seen[m], find_function(m), builtins[m], exec_path(m))
  BY SeenRight
<1>2. s = Choice(find_function(n), builtins[n], exec_path(n), mask)
  BY SearchIs
<1>3. path \in Paths
  BY DEF CmdInv, CmdTypeOK
<1>4. /\ exec_path(n) = None \/ \E d \in PathDirs : exec_path(n) = [id |-> "program", at |-> d] /\ <<d, n>> \in files
      /\ exec_path(n).id = "program" /\ exec_path(n).at \in Nat
      /\ exec_path(n).at = 0 <=> exec_path(n) = None
  BY <1>3, PathIs
<1>5. find_function(n) \in Nat
  BY FunctionIs
<1>6. mask \in SUBSET {"function", "builtin", "sbuiltin", "stale", "none"}
  BY DEF Masks
<1>7. e \in Entries /\ EntryRight(e, find_function(n), builtins[n], exec_path(n))
  BY <1>1
<1> HIDE DEF e, s
<1>8. s \in [id : Ids, at : Nat]
  <2>1. exec_path(n) \in [id : Ids, at : Nat]
    BY <1>3, <1>4, PathIs, CmdConstants DEF Ids, None
  <2> QED BY <2>1, <1>2, <1>5 DEF Choice, Ids
<1> DEFINE Agree == cmd = s \/ (cmd.id = "program" /\ s.id = "program" /\ <<cmd.at, n>> \in files)
           Right == EntryRight(new, find_function(n), builtins[n], exec_path(n))
<1>9. cmd \in [id : Ids, at : Nat] /\ Agree /\ Right
  <2>1. CASE hit
    <3>1. e.mask = mask /\ cmd = e.cmd /\ cmd \in [id : Ids, at : Nat]
      BY <2>1, <1>7 DEF Entries
    <3>2. Right
      BY <3>1, <1>7 DEF EntryRight
    <3>3. CASE cmd.id = "program"
      <4>1. s = exec_path(n) /\ (cmd.at = 0 => s = None)
        BY <3>1, <3>3, <1>2, <1>7 DEF EntryRight
      <4>2. cmd = [id |-> "program", at |-> cmd.at]
        BY <3>1, <3>3
      <4>3. CASE cmd.at = 0
        <5>1. s = cmd
          BY <4>1, <4>2, <4>3 DEF None
        <5> QED BY <5>1, <3>1, <3>2
      <4>4. CASE cmd.at # 0
        <5>1. <<cmd.at, n>> \in files
          BY <4>4, <3>1, <3>3, <2>1 DEF Gone
        <5>2. s.id = "program"
          BY <4>1, <1>4
        <5> QED BY <5>1, <5>2, <3>1, <3>2, <3>3
      <4> QED BY <4>3, <4>4
    <3>4. CASE cmd.id # "program"
      <4>1. cmd = s
        BY <3>1, <3>4, <1>2, <1>7 DEF EntryRight
      <4> QED BY <4>1, <3>1, <3>2
    <3> QED BY <3>3, <3>4
  <2>2. CASE ~hit
    <3>1. cmd = s
      BY <2>2
    <3>2. Right
      <4>1. new.cmd = s /\ new.mask = mask
        BY <3>1
      <4>2. s.id = "program" => s = exec_path(n)
        BY <1>2 DEF Choice
      <4> HIDE DEF new
      <4> QED BY <4>1, <4>2, <1>2, <1>4 DEF EntryRight
    <3> QED BY <3>1, <3>2, <1>8
  <2> QED BY <2>1, <2>2
<1>10. new \in Entries
  BY <1>6, <1>9 DEF Entries
<1> HIDE DEF cmd, hit
<1>11. CASE ~hashall
  <2>1. exec_hash(n, mask) = [cmd |-> s, t |-> Seen]
    BY <1>11 DEF exec_hash, s
  <2> QED BY <2>1, <1>1 DEF s
<1>12. CASE hashall
  <2> DEFINE t == IF e = NoEntry /\ cmd.at = 0 THEN Seen ELSE [Seen EXCEPT ![n] = new]
  <2>1. exec_hash(n, mask) = [cmd |-> cmd, t |-> t]
    BY <1>12 DEF exec_hash, s, e, cmd, hit
  <2> HIDE DEF new
  <2>2. t \in [CmdNames -> Entries]
    BY <1>1, <1>10
  <2>3. ASSUME NEW m \in CmdNames
        PROVE  EntryRight(t[m], find_function(m), builtins[m], exec_path(m))
    <3>1. t[m] = Seen[m] \/ (m = n /\ t[m] = new)
      BY <1>1
    <3> HIDE DEF t
    <3> QED BY <3>1, <1>1, <1>9
  <2> HIDE DEF t
  <2>4. exec_hash(n, mask).cmd = cmd /\ exec_hash(n, mask).t = t
    BY <2>1
  <2> QED BY <2>2, <2>3, <2>4, <1>9 DEF s
<1> QED BY <1>11, <1>12

-----------------------------------------------------------------------------
(* What the lists become *)

(* A list stays a list when the functions on it keep their names and none  *)
(* of them is freed or retired.                                            *)
LEMMA ListKept ==
  ASSUME NEW l, NEW fs, NEW gs, NEW r, NEW q, ListIn(l, fs, r),
         DOMAIN fs \subseteq DOMAIN gs, \A j \in DOMAIN fs : gs[j].name = fs[j].name,
         \A a \in DOMAIN l : ~gs[l[a]].freed /\ l[a] \notin q
  PROVE  ListIn(l, gs, q) /\ NamesOf(l, gs) = NamesOf(l, fs)
<1>1. l \in Seq(DOMAIN gs) /\ \A a \in DOMAIN l : l[a] \in DOMAIN fs
  BY DEF ListIn
<1>2. \A a \in DOMAIN l : gs[l[a]].name = fs[l[a]].name
  BY <1>1
<1> QED BY <1>1, <1>2 DEF ListIn, NamesOf

(* A new function of a name no other has goes in front.                    *)
NewName(i, l, fs) == \A a \in DOMAIN l : fs[l[a]].name # fs[i].name
LEMMA ConsIn ==
  ASSUME NEW l, NEW fs, NEW r, NEW i, ListIn(l, fs, r), i \in DOMAIN fs, ~fs[i].freed, i \notin r, NewName(i, l, fs)
  PROVE  /\ ListIn(<<i>> \o l, fs, r)
         /\ ToSet(<<i>> \o l) = ToSet(l) \cup {i}
<1> DEFINE L == <<i>> \o l
<1>1. /\ l \in Seq(DOMAIN fs) /\ Distinct(l)
      /\ \A x, y \in ToSet(l) : fs[x].name = fs[y].name => x = y
      /\ \A x \in ToSet(l) : ~fs[x].freed /\ x \notin r
  BY ListAsSet
<1>2. \A x \in ToSet(l) : fs[x].name # fs[i].name
  BY DEF NewName, ToSet
<1>3. L \in Seq(DOMAIN fs) /\ Distinct(L) /\ ToSet(L) = ToSet(l) \cup {i}
  BY <1>1, <1>2, Linking
<1> HIDE DEF L
<1>4. /\ \A x, y \in ToSet(L) : fs[x].name = fs[y].name => x = y
      /\ \A x \in ToSet(L) : ~fs[x].freed /\ x \notin r
  BY <1>1, <1>2, <1>3
<1>5. ListIn(L, fs, r)
  BY <1>3, <1>4, ListAsSet
<1> QED BY <1>3, <1>5 DEF L

(* A name stands for the same function on two lists that agree on it.      *)
LEMMA SameFound ==
  ASSUME NEW l, NEW fs, NEW r, ListIn(l, fs, r), DOMAIN fs \subseteq Nat \ {0},
         NEW k, NEW gs, NEW q, ListIn(k, gs, q), DOMAIN gs \subseteq Nat \ {0},
         NEW n,
         \A j : (\E a \in DOMAIN l : l[a] = j /\ fs[j].name = n) <=> (\E a \in DOMAIN k : k[a] = j /\ gs[j].name = n)
  PROVE  Found(l, fs, n) = Found(k, gs, n)
<1>1. CASE n \in NamesOf(l, fs)
  <2>1. PICK a \in DOMAIN l : fs[l[a]].name = n
    BY <1>1 DEF NamesOf
  <2>2. PICK b \in DOMAIN k : k[b] = l[a] /\ gs[l[a]].name = n
    BY <2>1
  <2>3. Found(l, fs, n) = l[a]
    BY <2>1, FoundIn
  <2>4. Found(k, gs, n) = k[b]
    BY <2>2, FoundIn
  <2> QED BY <2>2, <2>3, <2>4
<1>2. CASE n \notin NamesOf(l, fs)
  <2>1. ~ \E a \in DOMAIN l : fs[l[a]].name = n
    BY <1>2 DEF NamesOf
  <2>2. n \notin NamesOf(k, gs)
    BY <2>1 DEF NamesOf
  <2>3. Found(l, fs, n) = 0
    BY <1>2, FoundIn
  <2>4. Found(k, gs, n) = 0
    BY <2>2, FoundIn
  <2> QED BY <2>3, <2>4
<1> QED BY <1>1, <1>2

(* How many calls, and how many subshells, there are.                      *)
LEMMA Counted ==
  ASSUME calls \in Seq(FrameSet), NEW kind
  PROVE  /\ Cardinality(Framed(kind)) \in Nat
         /\ Cardinality(Framed(kind)) = 0 <=> Framed(kind) = {}
         /\ ~(Cardinality(Framed(kind)) > 1) => \A a, b \in Framed(kind) : a = b
<1>1. Framed(kind) \in SUBSET (1..Len(calls)) /\ Len(calls) \in Nat
  BY DEF Framed
<1>2. /\ Cardinality(Framed(kind)) \in Nat
      /\ Cardinality(Framed(kind)) = 0 <=> Framed(kind) = {}
      /\ Cardinality(Framed(kind)) <= 1 <=> \A a, b \in Framed(kind) : a = b
  BY <1>1, Counting
<1>3. ~(Cardinality(Framed(kind)) > 1) => Cardinality(Framed(kind)) <= 1
  BY <1>2
<1> QED BY <1>2, <1>3

(* Entering and leaving a call or a subshell.                              *)
LEMMA PushFrame ==
  ASSUME calls \in Seq(FrameSet), NEW c \in FrameSet, calls' = Append(calls, c)
  PROVE  /\ calls' \in Seq(FrameSet) /\ Len(calls') = Len(calls) + 1 /\ calls'[Len(calls) + 1] = c
         /\ Len(calls) \in Nat /\ Len(calls) + 1 \in Framed(c.kind)'
         /\ \A kind : Framed(kind)' = IF c.kind = kind THEN Framed(kind) \cup {Len(calls) + 1} ELSE Framed(kind)
         /\ \A kind : \A k \in Framed(kind) : k <= Len(calls) /\ calls'[k] = calls[k]
<1>1. /\ calls' \in Seq(FrameSet) /\ Len(calls') = Len(calls) + 1 /\ Len(calls) \in Nat
      /\ \A k \in 1..Len(calls) : calls'[k] = calls[k]
      /\ calls'[Len(calls) + 1] = c
  OBVIOUS
<1>2. DOMAIN calls = 1..Len(calls) /\ DOMAIN calls' = 1..(Len(calls) + 1)
  BY <1>1
<1>3. DOMAIN calls' = DOMAIN calls \cup {Len(calls) + 1}
  BY <1>1, <1>2
<1>4. \A kind : \A k \in Framed(kind) : k <= Len(calls) /\ calls'[k] = calls[k]
  BY <1>1, <1>2 DEF Framed
<1>5. ASSUME NEW kind
      PROVE  Framed(kind)' = IF c.kind = kind THEN Framed(kind) \cup {Len(calls) + 1} ELSE Framed(kind)
  BY <1>1, <1>2, <1>3 DEF Framed
<1>6. Len(calls) + 1 \in Framed(c.kind)'
  BY <1>1, <1>3 DEF Framed
<1> QED BY <1>1, <1>4, <1>5, <1>6

LEMMA PopFrame ==
  ASSUME calls \in Seq(FrameSet), calls # <<>>, calls' = Front(calls)
  PROVE  /\ calls' \in Seq(FrameSet) /\ Len(calls) \in Framed(Last(calls).kind)
         /\ \A kind : Framed(kind)' = Framed(kind) \ {Len(calls)}
         /\ \A kind : \A k \in Framed(kind) \ {Len(calls)} : k < Len(calls) /\ calls'[k] = calls[k]
<1>1. /\ calls' \in Seq(FrameSet) /\ Len(calls) \in Nat \ {0} /\ Last(calls) = calls[Len(calls)]
      /\ DOMAIN calls = 1..Len(calls) /\ DOMAIN calls' = DOMAIN calls \ {Len(calls)}
      /\ \A k \in DOMAIN calls \ {Len(calls)} : k < Len(calls) /\ calls'[k] = calls[k]
  BY FrontOf
<1>4. \A kind : \A k \in Framed(kind) \ {Len(calls)} : k < Len(calls) /\ calls'[k] = calls[k]
  BY <1>1 DEF Framed
<1>5. \A kind : Framed(kind)' = Framed(kind) \ {Len(calls)}
  BY <1>1 DEF Framed
<1>6. Len(calls) \in Framed(Last(calls).kind)
  BY <1>1 DEF Framed
<1> QED BY <1>1, <1>4, <1>5, <1>6

-----------------------------------------------------------------------------
(* What each operation keeps *)

(* The lists are right as long as nobody touches them.                     *)
LEMMA ListsSame ==
  ASSUME ListsOK, UNCHANGED <<fnode, functions, functions_retired, calls>>
  PROVE  ListsOK'
BY DEF ListsOK, CallsOK, SavedOK, Framed

LEMMA SameFunction ==
  ASSUME UNCHANGED <<fnode, functions>>, NEW n
  PROVE  find_function(n)' = find_function(n)
BY DEF find_function, SelectInSeq

LEMMA SameProgram ==
  ASSUME UNCHANGED <<path, files>>, NEW n
  PROVE  exec_path(n)' = exec_path(n)
BY DEF exec_path, SelectInSeq

(* The cache is right when its entries are, for what the names stand for.  *)
LEMMA CacheSame ==
  ASSUME \A n \in CmdNames : /\ find_function(n)' = find_function(n) /\ exec_path(n)' = exec_path(n)
                             /\ EntryRight(exec_hashtbl'[n], find_function(n), builtins[n], exec_path(n)),
         UNCHANGED builtins
  PROVE  CacheRight'
BY DEF CacheRight

(* A lookup.                                                               *)
LEMMA LooksSafe ==
  ASSUME CmdInv, NEW n \in CmdNames, NEW mask \in Masks,
         Looks(n, mask), UNCHANGED <<fnode, functions, functions_retired, hashall, fileVars>>
  PROVE  exec_hashtbl' \in [CmdNames -> Entries] /\ CacheRight'
<1>1. exec_hashtbl' = exec_hash(n, mask).t
  BY DEF Looks
<1>2. /\ exec_hashtbl' \in [CmdNames -> Entries]
      /\ \A m \in CmdNames : EntryRight(exec_hashtbl'[m], find_function(m), builtins[m], exec_path(m))
  BY <1>1, HashRight
<1>3. \A m \in CmdNames : find_function(m)' = find_function(m) /\ exec_path(m)' = exec_path(m)
  BY SameFunction, SameProgram DEF fileVars
<1> QED BY <1>2, <1>3, CacheSame DEF fileVars

LEMMA CommandSafe ==
  ASSUME CmdInv, NEW n \in CmdNames, NEW mask \in Masks, builtin_command(n, mask)
  PROVE  CmdInv'
<1>1. exec_hashtbl' \in [CmdNames -> Entries] /\ CacheRight'
  BY LooksSafe DEF builtin_command
<1>2. ListsOK'
  BY ListsSame DEF builtin_command, CmdInv
<1>3. CmdTypeOK'
  BY <1>1 DEF builtin_command, CmdInv, CmdTypeOK, fileVars
<1> QED BY <1>1, <1>2, <1>3 DEF CmdInv

(* What a lookup calls a function is one that may be called.               *)
LEMMA RunSafe ==
  ASSUME CmdInv, NEW n \in CmdNames, Run(n)
  PROVE  CmdInv'
<1> DEFINE cmd == exec_hash(n, {}).cmd
<1>1. {} \in Masks
  BY DEF Masks
<1>2. exec_hashtbl' \in [CmdNames -> Entries] /\ CacheRight'
  BY <1>1, LooksSafe DEF Run
<1>3. CASE UNCHANGED calls
  <2>1. ListsOK'
    BY <1>3, ListsSame DEF Run, CmdInv
  <2>2. CmdTypeOK'
    BY <1>2, <1>3 DEF Run, CmdInv, CmdTypeOK, fileVars
  <2> QED BY <1>2, <2>1, <2>2 DEF CmdInv
<1>4. CASE cmd.id = "function" /\ calls' = Append(calls, [kind |-> "call", at |-> cmd.at, saved |-> <<>>])
  <2> DEFINE c == [kind |-> "call", at |-> cmd.at, saved |-> <<>>]
  <2>1. cmd = exec_search(n, {})
    BY <1>1, <1>4, HashRight
  <2>2. path \in Paths
    BY DEF CmdInv, CmdTypeOK
  <2>3. exec_path(n).id = "program"
    BY <2>2, PathIs
  <2>4. cmd.at = find_function(n) /\ find_function(n) # 0
    <3>1. cmd = Choice(find_function(n), builtins[n], exec_path(n), {})
      BY <2>1, SearchIs
    <3> HIDE DEF cmd
    <3> QED BY <3>1, <2>3, <1>4 DEF Choice
  <2>5. PICK a \in DOMAIN functions : cmd.at = functions[a]
    BY <2>4, FunctionIs
  <2>6. cmd.at \in DOMAIN fnode /\ ~fnode[cmd.at].freed /\ cmd.at \in Nat
    <3>1. ListIn(functions, fnode, functions_retired) /\ DOMAIN fnode \subseteq Nat
      BY DEF CmdInv, ListsOK, CmdTypeOK
    <3> HIDE DEF cmd
    <3> QED BY <2>5, <3>1 DEF ListIn
  <2>7. c \in FrameSet
    BY <2>6 DEF FrameSet
  <2>8. calls' = Append(calls, c)
    BY <1>4
  <2>9. UNCHANGED <<fnode, functions, functions_retired, hashall, fileVars>>
    BY DEF Run
  <2> HIDE DEF cmd
  <2>10. calls \in Seq(FrameSet)
    BY DEF CmdInv, CmdTypeOK
  <2>11. /\ c.kind = "call" /\ c.at = cmd.at /\ c.saved = <<>>
    OBVIOUS
  <2> HIDE DEF c
  <2>12. /\ calls' \in Seq(FrameSet) /\ Len(calls') = Len(calls) + 1 /\ calls'[Len(calls) + 1] = c
         /\ Framed("call")' = Framed("call") \cup {Len(calls) + 1} /\ Framed("sub")' = Framed("sub")
         /\ \A k \in Framed("call") \cup Framed("sub") : calls'[k] = calls[k]
    BY <2>7, <2>8, <2>10, <2>11, PushFrame
  <2>14. CallsOK'
    BY <2>6, <2>9, <2>11, <2>12 DEF CallsOK, CmdInv, ListsOK
  <2>15. SavedOK'
    BY <2>9, <2>12 DEF SavedOK, CmdInv, ListsOK
  <2>16. ListsOK'
    BY <2>9, <2>14, <2>15 DEF CmdInv, ListsOK
  <2>17. CmdTypeOK'
    BY <1>2, <2>9, <2>12 DEF CmdInv, CmdTypeOK, fileVars
  <2> QED BY <1>2, <2>16, <2>17 DEF CmdInv
<1> QED BY <1>3, <1>4 DEF Run

(* The last call to return frees what was retired while it ran.            *)
LEMMA LeaveSafe ==
  ASSUME CmdInv, exec_function_leave
  PROVE  CmdInv'
<1>1. calls \in Seq(FrameSet) /\ calls # <<>> /\ calls' = Front(calls) /\ Last(calls).kind = "call"
  BY DEF CmdInv, CmdTypeOK, exec_function_leave
<1>2. /\ calls' \in Seq(FrameSet) /\ Len(calls) \in Framed("call")
      /\ Framed("call")' = Framed("call") \ {Len(calls)} /\ Framed("sub")' = Framed("sub") \ {Len(calls)}
      /\ \A k \in Framed("call")' \cup Framed("sub")' : calls'[k] = calls[k]
      /\ Framed("sub")' \subseteq Framed("sub")
  BY <1>1, PopFrame
<1>3. UNCHANGED <<functions, exec_hashtbl, hashall, exec_hash_path_seen, path, files, builtins>>
  BY DEF exec_function_leave, fileVars
<1>4. fnode \in Seq(FnSet)
  BY DEF CmdInv, CmdTypeOK
<1>5. /\ fnode' \in Seq(FnSet) /\ DOMAIN fnode' = DOMAIN fnode
      /\ \A j \in DOMAIN fnode : fnode'[j].name = fnode[j].name
      /\ \A j \in DOMAIN fnode : fnode'[j].freed => fnode[j].freed \/ j \in functions_retired
      /\ functions_retired' \subseteq functions_retired
      /\ Framed("call")' # {} => UNCHANGED <<fnode, functions_retired>>
  <2>1. CASE functions_running > 1
    <3>1. UNCHANGED <<fnode, functions_retired>>
      BY <2>1 DEF exec_function_leave
    <3> QED BY <3>1, <1>4
  <2>2. CASE ~(functions_running > 1)
    <3>1. Framed("call")' = {}
      BY <2>2, <1>1, <1>2, Counted DEF functions_running
    <3>2. /\ fnode' = [i \in DOMAIN fnode |-> IF i \in functions_retired THEN [fnode[i] EXCEPT !.freed = TRUE] ELSE fnode[i]]
          /\ functions_retired' = {}
      BY <2>2 DEF exec_function_leave
    <3>3. \A i \in DOMAIN fnode : /\ fnode'[i] \in FnSet /\ fnode'[i].name = fnode[i].name
                                  /\ fnode'[i].freed => fnode[i].freed \/ i \in functions_retired
      <4> TAKE i \in DOMAIN fnode
      <4>1. fnode[i] \in FnSet
        BY <1>4
      <4>2. CASE i \in functions_retired
        <5>1. fnode'[i] = [fnode[i] EXCEPT !.freed = TRUE]
          BY <3>2, <4>2
        <5> QED BY <4>1, <4>2, <5>1 DEF FnSet
      <4>3. CASE i \notin functions_retired
        <5>1. fnode'[i] = fnode[i]
          BY <3>2, <4>3
        <5> QED BY <4>1, <5>1
      <4> QED BY <4>2, <4>3
    <3>4. fnode' \in Seq(FnSet) /\ DOMAIN fnode' = DOMAIN fnode
      BY <3>2, <3>3, <1>4
    <3> QED BY <3>1, <3>2, <3>3, <3>4
  <2> QED BY <2>1, <2>2
<1>6. ASSUME NEW l, ListIn(l, fnode, functions_retired)
      PROVE  ListIn(l, fnode', functions_retired') /\ NamesOf(l, fnode') = NamesOf(l, fnode)
  <2>1. \A a \in DOMAIN l : l[a] \in DOMAIN fnode /\ ~fnode[l[a]].freed /\ l[a] \notin functions_retired
    BY <1>6 DEF ListIn
  <2>2. \A a \in DOMAIN l : ~fnode'[l[a]].freed /\ l[a] \notin functions_retired'
    BY <2>1, <1>5
  <2> QED BY <2>2, <1>5, <1>6, ListKept
<1>7. ListIn(functions, fnode, functions_retired) /\ CallsOK /\ SavedOK
  BY DEF CmdInv, ListsOK
<1>8. ListIn(functions', fnode', functions_retired') /\ NamesOf(functions', fnode') = NamesOf(functions, fnode)
  BY <1>3, <1>6, <1>7
<1>9. CallsOK'
  BY <1>2, <1>5, <1>7 DEF CallsOK
<1>10. SavedOK'
  BY <1>2, <1>6, <1>7, <1>8, ZenonT(40) DEF SavedOK
<1>11. functions_retired' \subseteq DOMAIN fnode'
  BY <1>5 DEF CmdInv, ListsOK
<1>12. CmdTypeOK'
  BY <1>2, <1>3, <1>5 DEF CmdInv, CmdTypeOK
<1>13. ASSUME NEW n \in CmdNames
       PROVE  find_function(n)' = find_function(n) /\ exec_path(n)' = exec_path(n)
  <2>1. find_function(n) = Found(functions, fnode, n) /\ find_function(n)' = Found(functions, fnode', n)
    BY <1>3 DEF find_function, Found, SelectInSeq
  <2>2. DOMAIN fnode \subseteq Nat \ {0} /\ DOMAIN fnode' \subseteq Nat \ {0}
    BY <1>4, <1>5
  <2>3. ListIn(functions, fnode', functions_retired')
    BY <1>3, <1>8
  <2>4. \A j : (\E a \in DOMAIN functions : functions[a] = j /\ fnode[j].name = n)
               <=> (\E a \in DOMAIN functions : functions[a] = j /\ fnode'[j].name = n)
    <3>1. \A a \in DOMAIN functions : functions[a] \in DOMAIN fnode
      BY <1>7 DEF ListIn
    <3> QED BY <3>1, <1>5
  <2>5. Found(functions, fnode, n) = Found(functions, fnode', n)
    BY <2>2, <2>3, <2>4, <1>7, SameFound
  <2> QED BY <2>1, <2>5, <1>3, SameProgram
<1>14. CacheRight'
  BY <1>3, <1>13, CacheSame DEF CmdInv, CacheRight
<1> QED BY <1>8, <1>9, <1>10, <1>11, <1>12, <1>14 DEF CmdInv, ListsOK

LEMMA SaveSafe ==
  ASSUME CmdInv, exec_functions_save
  PROVE  CmdInv'
<1> DEFINE c == [kind |-> "sub", at |-> 0, saved |-> functions]
<1>1. /\ calls' = Append(calls, c)
      /\ UNCHANGED <<fnode, functions, functions_retired, exec_hashtbl, hashall, exec_hash_path_seen, path, files, builtins>>
  BY DEF exec_functions_save, fileVars
<1>2. calls \in Seq(FrameSet) /\ fnode \in Seq(FnSet) /\ ListIn(functions, fnode, functions_retired)
  BY DEF CmdInv, CmdTypeOK, ListsOK
<1>3. c \in FrameSet /\ c.kind = "sub" /\ c.saved = functions
  <2>1. functions \in Seq(DOMAIN fnode) /\ DOMAIN fnode \subseteq Nat
    BY <1>2 DEF ListIn
  <2>2. functions \in Seq(Nat)
    BY <2>1
  <2> QED BY <2>2 DEF FrameSet
<1> HIDE DEF c
<1>4. /\ calls' \in Seq(FrameSet) /\ calls'[Len(calls) + 1] = c /\ Len(calls) \in Nat
      /\ Framed("call")' = Framed("call") /\ Framed("sub")' = Framed("sub") \cup {Len(calls) + 1}
      /\ \A k \in Framed("call") \cup Framed("sub") : calls'[k] = calls[k] /\ k <= Len(calls)
  BY <1>1, <1>2, <1>3, PushFrame
<1>5. CallsOK /\ SavedOK
  BY DEF CmdInv, ListsOK
<1>6. CallsOK'
  BY <1>1, <1>4, <1>5 DEF CallsOK
<1>7. SavedOK'
  <2>1. \A k \in Framed("sub")' : /\ ListIn(calls'[k].saved, fnode, functions_retired)
                                  /\ NamesOf(calls'[k].saved, fnode) \subseteq NamesOf(functions, fnode)
    BY <1>2, <1>3, <1>4, <1>5 DEF SavedOK
  <2>2. ASSUME NEW j \in Framed("sub")', NEW k \in Framed("sub")', j < k
        PROVE  NamesOf(calls'[j].saved, fnode) \subseteq NamesOf(calls'[k].saved, fnode)
    <3>1. j \in Framed("sub")
      <4>1. k \in Nat /\ k <= Len(calls) + 1
        BY <1>4 DEF Framed
      <4> QED BY <4>1, <1>4, <2>2
    <3>2. CASE k \in Framed("sub")
      BY <3>1, <3>2, <2>2, <1>4, <1>5 DEF SavedOK
    <3>3. CASE k = Len(calls) + 1
      BY <3>1, <3>3, <2>1, <1>3, <1>4
    <3> QED BY <3>2, <3>3, <1>4
  <2> QED BY <1>1, <2>1, <2>2 DEF SavedOK
<1>8. CmdTypeOK'
  BY <1>1, <1>4 DEF CmdInv, CmdTypeOK
<1>9. CacheRight'
  BY <1>1, SameFunction, SameProgram, CacheSame DEF CmdInv, CacheRight
<1> QED BY <1>1, <1>6, <1>7, <1>8, <1>9 DEF CmdInv, ListsOK

(* The list a subshell found is put back.  It has no name the subshell did *)
(* not have, so an entry that is no function stays right.                  *)
LEMMA RestoreSafe ==
  ASSUME CmdInv, exec_functions_restore
  PROVE  CmdInv'
<1>1. /\ calls # <<>> /\ calls' = Front(calls) /\ Last(calls).kind = "sub"
      /\ functions' = Last(calls).saved /\ exec_hashtbl' = FunctionsForgotten(exec_hashtbl)
      /\ UNCHANGED <<fnode, functions_retired, hashall, exec_hash_path_seen, path, files, builtins>>
  BY DEF exec_functions_restore, fileVars
<1>2. /\ calls \in Seq(FrameSet) /\ fnode \in Seq(FnSet) /\ exec_hashtbl \in [CmdNames -> Entries]
      /\ ListIn(functions, fnode, functions_retired) /\ CallsOK /\ SavedOK /\ CacheRight
  BY DEF CmdInv, CmdTypeOK, ListsOK
<1>3. /\ calls' \in Seq(FrameSet) /\ Len(calls) \in Framed("sub")
      /\ Framed("call")' = Framed("call") \ {Len(calls)} /\ Framed("sub")' = Framed("sub") \ {Len(calls)}
      /\ \A k \in Framed("call")' \cup Framed("sub")' : calls'[k] = calls[k] /\ k < Len(calls)
  BY <1>1, <1>2, PopFrame
<1>4. functions' = calls[Len(calls)].saved
  BY <1>1 DEF Last
<1>5. ListIn(functions', fnode, functions_retired) /\ NamesOf(functions', fnode) \subseteq NamesOf(functions, fnode)
  BY <1>2, <1>3, <1>4 DEF SavedOK
<1>6. CallsOK'
  BY <1>1, <1>2, <1>3 DEF CallsOK
<1>7. SavedOK'
  BY <1>1, <1>2, <1>3, <1>4 DEF SavedOK
<1>8. ASSUME NEW n \in CmdNames
      PROVE  /\ exec_hashtbl'[n] \in Entries
             /\ EntryRight(exec_hashtbl'[n], find_function(n)', builtins'[n], exec_path(n)')
  <2>1. exec_hashtbl'[n] = IF exec_hashtbl[n].cmd.id = "function" THEN [exec_hashtbl[n] EXCEPT !.mask = Stale] ELSE exec_hashtbl[n]
    BY <1>1 DEF FunctionsForgotten
  <2>2. exec_hashtbl[n] \in Entries
    BY <1>2
  <2>3. CASE exec_hashtbl[n].cmd.id = "function"
    <3>1. exec_hashtbl'[n] = [exec_hashtbl[n] EXCEPT !.mask = Stale]
      BY <2>1, <2>3
    <3>2. exec_hashtbl'[n] \in Entries /\ exec_hashtbl'[n].mask = Stale
      BY <3>1, <2>2 DEF Entries, Stale
    <3> QED BY <3>2, NoMask DEF EntryRight
  <2>4. CASE exec_hashtbl[n].cmd.id # "function"
    <3> DEFINE e == exec_hashtbl[n]
    <3>1. exec_hashtbl'[n] = e
      BY <2>1, <2>4
    <3>2. EntryRight(e, find_function(n), builtins[n], exec_path(n))
      BY <1>2 DEF CacheRight
    <3>3. find_function(n)' = 0 \/ find_function(n) # 0
      <4>1. ASSUME find_function(n) = 0
            PROVE  n \notin NamesOf(functions, fnode)
        <5>1. \A a \in DOMAIN functions : functions[a] # 0
          BY <1>2 DEF ListIn
        <5>2. \A a \in DOMAIN functions : fnode[functions[a]].name # n
          BY <4>1, <5>1, FunctionIs
        <5> QED BY <5>2 DEF NamesOf
      <4>2. find_function(n)' = Found(functions', fnode, n)
        BY <1>1 DEF find_function, Found, SelectInSeq
      <4>3. DOMAIN fnode \subseteq Nat \ {0}
        BY <1>2
      <4>4. n \notin NamesOf(functions', fnode) => Found(functions', fnode, n) = 0
        BY <4>3, <1>5, FoundIn
      <4> QED BY <4>1, <4>2, <4>4, <1>5
    <3>4. exec_path(n)' = exec_path(n) /\ builtins' = builtins
      BY <1>1, SameProgram
    <3>5. exec_path(n).id = "program"
      BY PathIs DEF CmdInv, CmdTypeOK
    <3> HIDE DEF e
    <3>6. e.cmd.id # "function"
      BY <2>4 DEF e
    <3>7. EntryRight(e, find_function(n)', builtins[n], exec_path(n))
      BY <3>2, <3>3, <3>5, <3>6 DEF EntryRight, Choice
    <3> QED BY <3>1, <3>4, <3>7, <2>2 DEF e
  <2> QED BY <2>3, <2>4
<1>9. exec_hashtbl' \in [CmdNames -> Entries]
  BY <1>1, <1>8 DEF FunctionsForgotten
<1>10. CmdTypeOK'
  BY <1>1, <1>3, <1>9 DEF CmdInv, CmdTypeOK
<1>11. CacheRight'
  BY <1>8 DEF CacheRight
<1>12. functions_retired' \subseteq DOMAIN fnode'
  BY <1>1 DEF CmdInv, ListsOK
<1> QED BY <1>1, <1>5, <1>6, <1>7, <1>10, <1>11, <1>12 DEF CmdInv, ListsOK

(* hash -r, hash -d, hash -p and set -h.                                   *)
LEMMA HashSafe ==
  ASSUME CarefulCmds, CmdInv,
         hash_forget_all \/ set_h \/ \E n \in CmdNames : hash_forget(n) \/ \E d \in PathDirs : hash_set(n, d)
  PROVE  CmdInv'
<1>1. UNCHANGED <<fnode, functions, functions_retired, calls, exec_hash_path_seen, path, files, builtins>>
  BY DEF hash_forget_all, set_h, hash_forget, hash_set, fileVars
<1>2. exec_hashtbl \in [CmdNames -> Entries] /\ CacheRight /\ hashall' \in BOOLEAN
  BY DEF CmdInv, CmdTypeOK, hash_forget_all, set_h, hash_forget, hash_set
<1>3. NoEntry \in Entries
  BY DEF NoEntry, Entries, None, Ids
<1>4. ASSUME NEW n \in CmdNames
      PROVE  EntryRight(NoEntry, find_function(n), builtins[n], exec_path(n))
  BY NoMask DEF EntryRight
<1>5. /\ exec_hashtbl' \in [CmdNames -> Entries]
      /\ \A n \in CmdNames : EntryRight(exec_hashtbl'[n], find_function(n), builtins[n], exec_path(n))
  <2>1. CASE hash_forget_all
    BY <2>1, <1>3, <1>4 DEF hash_forget_all
  <2>2. CASE set_h
    BY <2>2, <1>2 DEF set_h, CacheRight
  <2>3. ASSUME NEW n \in CmdNames, hash_forget(n)
        PROVE  <1>5!1 /\ <1>5!2
    BY <2>3, <1>2, <1>3, <1>4 DEF hash_forget, CacheRight
  <2>4. ASSUME NEW n \in CmdNames, NEW d \in PathDirs, hash_set(n, d)
        PROVE  <1>5!1 /\ <1>5!2
    <3> DEFINE e == [cmd |-> [id |-> "program", at |-> d], mask |-> {}]
    <3>1. exec_hashtbl' = [exec_hashtbl EXCEPT ![n] = e] /\ find_function(n) = 0 /\ builtins[n] = "no"
      BY <2>4 DEF hash_set
    <3>2. d \in Nat /\ d # 0
      BY CmdConstants
    <3>3. e \in Entries
      BY <3>2 DEF Entries, Ids
    <3>4. e.cmd.id = "program" /\ e.cmd.at # 0
      BY <3>2
    <3> HIDE DEF e
    <3>5. EntryRight(e, find_function(n), builtins[n], exec_path(n))
      BY <3>1, <3>4 DEF EntryRight, Choice
    <3> QED BY <3>1, <3>3, <3>5, <1>2 DEF CacheRight
  <2> QED BY <2>1, <2>2, <2>3, <2>4
<1>6. CmdTypeOK'
  BY <1>1, <1>2, <1>5 DEF CmdInv, CmdTypeOK
<1>7. ListsOK'
  BY <1>1, ListsSame DEF CmdInv
<1>8. CacheRight'
  BY <1>1, <1>5, SameFunction, SameProgram, CacheSame
<1> QED BY <1>6, <1>7, <1>8 DEF CmdInv

(* A new value of PATH.                                                    *)
LEMMA SetPathSafe ==
  ASSUME CmdInv, NEW p \in Paths, SetPath(p)
  PROVE  CmdInv'
<1>1. /\ path' = p /\ exec_hashtbl' = exec_hash_invalidate_all(exec_hashtbl)
      /\ UNCHANGED <<fnode, functions, functions_retired, calls, hashall, exec_hash_path_seen, files, builtins>>
  BY DEF SetPath
<1>2. exec_hashtbl' \in [CmdNames -> Entries] /\ \A n \in CmdNames : exec_hashtbl'[n].mask \notin Masks
  BY <1>1, Invalidated DEF CmdInv, CmdTypeOK
<1>3. ListsOK'
  BY <1>1, ListsSame DEF CmdInv
<1>4. CmdTypeOK'
  BY <1>1, <1>2 DEF CmdInv, CmdTypeOK
<1>5. CacheRight'
  BY <1>2 DEF CacheRight, EntryRight
<1> QED BY <1>3, <1>4, <1>5 DEF CmdInv

(* A program that comes or goes changes only where its name is found.  An  *)
(* entry that says there is none stays right.                              *)
LEMMA FilesSafe ==
  ASSUME CarefulCmds, CmdInv, NEW n \in CmdNames, NEW d \in PathDirs, Install(d, n) \/ Deinstall(d, n)
  PROVE  CmdInv'
<1>1. UNCHANGED <<fnode, functions, functions_retired, calls, exec_hashtbl, hashall, path, exec_hash_path_seen, builtins>>
  BY DEF Install, Deinstall
<1>2. path \in Paths /\ files \subseteq PathDirs \X CmdNames /\ exec_hashtbl \in [CmdNames -> Entries] /\ CacheRight
  BY DEF CmdInv, CmdTypeOK
<1>3. files' \subseteq PathDirs \X CmdNames
  BY <1>2 DEF Install, Deinstall
<1>4. CmdTypeOK'
  BY <1>1, <1>3 DEF CmdInv, CmdTypeOK
<1>5. ListsOK'
  BY <1>1, ListsSame DEF CmdInv
<1>6. ASSUME NEW m \in CmdNames
      PROVE  EntryRight(exec_hashtbl'[m], find_function(m)', builtins'[m], exec_path(m)')
  <2>1. exec_path(m) = Program(path, files, m) /\ exec_path(m)' = Program(path, files', m)
    BY <1>1 DEF exec_path, Program, SelectInSeq
  <2>2. exec_path(m).id = "program" /\ exec_path(m)'.id = "program"
    BY <2>1, <1>2, ProgramIn
  <2>3. find_function(m)' = find_function(m)
    BY <1>1, SameFunction
  <2> DEFINE e == exec_hashtbl[m]
  <2>4. EntryRight(e, find_function(m), builtins[m], exec_path(m))
    BY <1>2 DEF CacheRight
  <2>5. e.mask \in Masks /\ e.cmd.at = 0 /\ exec_path(m) = None => exec_path(m)' = None
    <3>1. SUFFICES ASSUME e.mask \in Masks, e.cmd.at = 0, exec_path(m) = None
                   PROVE  exec_path(m)' = None
      OBVIOUS
    <3>2. \A a \in 1..Len(path) : <<path[a], m>> \notin files
      BY <2>1, <3>1, <1>2, ProgramIn
    <3>3. \A a \in 1..Len(path) : <<path[a], m>> \notin files'
      <4>1. CASE Install(d, n)
        <5>1. NotMissed(n) /\ files' = files \cup {<<d, n>>}
          BY <4>1 DEF Install
        <5>2. m # n
          BY <5>1, <3>1 DEF NotMissed
        <5> QED BY <5>1, <5>2, <3>2
      <4>2. CASE Deinstall(d, n)
        BY <4>2, <3>2 DEF Deinstall
      <4> QED BY <4>1, <4>2
    <3> QED BY <3>3, <2>1, <1>2, ProgramIn
  <2> HIDE DEF e
  <2>6. EntryRight(e, find_function(m), builtins[m], exec_path(m)')
    BY <2>2, <2>4, <2>5 DEF EntryRight, Choice
  <2> QED BY <1>1, <2>3, <2>6 DEF e
<1>7. CacheRight'
  BY <1>6 DEF CacheRight
<1> QED BY <1>4, <1>5, <1>7 DEF CmdInv

(* A function that is retired where no subshell is running is on no list,  *)
(* so freeing it, now or when the last call returns, takes it from nobody. *)
(* fs is fnode, or fnode and one more.                                     *)
LEMMA RetireSafe ==
  ASSUME CmdInv, NEW fs \in Seq(FnSet), DOMAIN fnode \subseteq DOMAIN fs, \A j \in DOMAIN fnode : fs[j] = fnode[j],
         NEW i \in DOMAIN fnode, Framed("sub") = {}, exec_function_retire(fs, i), UNCHANGED calls
  PROVE  /\ fnode' \in Seq(FnSet) /\ DOMAIN fnode' = DOMAIN fs
         /\ \A j \in DOMAIN fs : fnode'[j].name = fs[j].name
         /\ \A j \in DOMAIN fs \ {i} : fnode'[j] = fs[j]
         /\ functions_retired' \subseteq functions_retired \cup {i}
         /\ CallsOK' /\ SavedOK'
<1>1. calls \in Seq(FrameSet) /\ CallsOK /\ SavedOK /\ functions_retired \subseteq DOMAIN fnode
  BY DEF CmdInv, CmdTypeOK, ListsOK
<1>2. Framed("call")' = Framed("call") /\ Framed("sub")' = {}
  BY DEF Framed
<1>3. SavedOK'
  BY <1>2 DEF SavedOK
<1>4. CASE functions_running > 0
  <2>1. fnode' = fs /\ functions_retired' = functions_retired \cup {i}
    BY <1>4 DEF exec_function_retire
  <2>2. CallsOK'
    BY <1>1, <1>2, <2>1 DEF CallsOK
  <2> QED BY <2>1, <2>2, <1>3
<1>5. CASE ~(functions_running > 0)
  <2>1. fnode' = [fs EXCEPT ![i].freed = TRUE] /\ functions_retired' = functions_retired
    BY <1>5 DEF exec_function_retire
  <2>2. Framed("call") = {}
    BY <1>1, <1>5, Counted DEF functions_running
  <2>3. CallsOK'
    BY <2>2, <1>2 DEF CallsOK
  <2>4. i \in DOMAIN fs /\ fs[i] \in FnSet
    OBVIOUS
  <2>5. [fs[i] EXCEPT !.freed = TRUE] \in FnSet /\ [fs[i] EXCEPT !.freed = TRUE].name = fs[i].name
    BY <2>4 DEF FnSet
  <2>6. /\ fnode' \in Seq(FnSet) /\ DOMAIN fnode' = DOMAIN fs /\ \A j \in DOMAIN fs \ {i} : fnode'[j] = fs[j]
        /\ fnode'[i].name = fs[i].name
    <3> DEFINE g == [fs[i] EXCEPT !.freed = TRUE]
    <3>1. fnode' = [fs EXCEPT ![i] = g] /\ g \in FnSet /\ g.name = fs[i].name
      BY <2>1, <2>5
    <3> HIDE DEF g
    <3>2. fnode' \in Seq(FnSet)
      BY <3>1, <2>4
    <3>3. DOMAIN fnode' = DOMAIN fs /\ \A j \in DOMAIN fs : fnode'[j] = IF j = i THEN g ELSE fs[j]
      BY <3>1
    <3> QED BY <3>1, <3>2, <3>3, <2>4
  <2> QED BY <2>1, <2>3, <2>6, <1>3
<1> QED BY <1>4, <1>5

(* unset -f, outside subshells: the name is nobody's, and its entry stale. *)
LEMMA UnsetSafe ==
  ASSUME CarefulCmds, CmdInv, NEW n \in CmdNames, builtin_unset(n)
  PROVE  CmdInv'
<1> DEFINE i == find_function(n)
<1>1. /\ i # 0 /\ exec_subshell_depth = 0 /\ functions' = RemoveFirst(functions, i)
      /\ exec_function_retire(fnode, i) /\ Forgets(n)
      /\ UNCHANGED <<calls, hashall, exec_hash_path_seen, path, files, builtins>>
  BY DEF builtin_unset, Without, fileVars
<1>2. /\ calls \in Seq(FrameSet) /\ fnode \in Seq(FnSet) /\ exec_hashtbl \in [CmdNames -> Entries]
      /\ ListIn(functions, fnode, functions_retired) /\ functions_retired \subseteq DOMAIN fnode /\ CacheRight
  BY DEF CmdInv, CmdTypeOK, ListsOK
<1>3. Framed("sub") = {}
  BY <1>1, <1>2, Counted DEF exec_subshell_depth
<1>4. i \in DOMAIN fnode /\ fnode[i].name = n /\ \A a \in DOMAIN functions : fnode[functions[a]].name = n => functions[a] = i
  <2>1. \A a \in DOMAIN functions : functions[a] \in DOMAIN fnode
    BY <1>2 DEF ListIn
  <2> QED BY <1>1, <2>1, FunctionIs
<1> HIDE DEF i
<1>5. /\ fnode' \in Seq(FnSet) /\ DOMAIN fnode' = DOMAIN fnode
      /\ \A j \in DOMAIN fnode : fnode'[j].name = fnode[j].name
      /\ \A j \in DOMAIN fnode \ {i} : fnode'[j] = fnode[j]
      /\ functions_retired' \subseteq functions_retired \cup {i}
      /\ CallsOK' /\ SavedOK'
  BY <1>1, <1>2, <1>3, <1>4, RetireSafe
<1> DEFINE R == functions'
<1>6. /\ ListIn(R, fnode, functions_retired)
      /\ \A a \in DOMAIN R : R[a] # i /\ \E b \in DOMAIN functions : R[a] = functions[b]
      /\ \A b \in DOMAIN functions : functions[b] # i => \E a \in DOMAIN R : R[a] = functions[b]
  BY <1>1, <1>2, RemoveIn
<1> HIDE DEF R
<1>7. ListIn(R, fnode', functions_retired')
  <2>1. \A a \in DOMAIN R : R[a] \in DOMAIN fnode \ {i} /\ ~fnode[R[a]].freed /\ R[a] \notin functions_retired
    BY <1>6 DEF ListIn
  <2>2. \A a \in DOMAIN R : ~fnode'[R[a]].freed /\ R[a] \notin functions_retired'
    BY <2>1, <1>5
  <2> QED BY <2>2, <1>5, <1>6, ListKept
<1>8. ASSUME NEW m \in CmdNames, m # n
      PROVE  find_function(m)' = find_function(m)
  <2>1. find_function(m) = Found(functions, fnode, m) /\ find_function(m)' = Found(R, fnode', m)
    BY DEF find_function, Found, SelectInSeq, R
  <2>2. DOMAIN fnode \subseteq Nat \ {0} /\ DOMAIN fnode' \subseteq Nat \ {0}
    BY <1>2, <1>5
  <2>3. ASSUME NEW j
        PROVE  (\E a \in DOMAIN functions : functions[a] = j /\ fnode[j].name = m) <=> (\E a \in DOMAIN R : R[a] = j /\ fnode'[j].name = m)
    <3>1. \A a \in DOMAIN functions : functions[a] \in DOMAIN fnode
      BY <1>2 DEF ListIn
    <3> QED BY <3>1, <1>4, <1>5, <1>6, <1>8
  <2>4. Found(functions, fnode, m) = Found(R, fnode', m)
    BY <2>2, <2>3, <1>2, <1>7, SameFound
  <2> QED BY <2>1, <2>4
<1>9. ASSUME NEW m \in CmdNames
      PROVE  /\ exec_hashtbl'[m] \in Entries
             /\ EntryRight(exec_hashtbl'[m], find_function(m)', builtins'[m], exec_path(m)')
  <2>1. CASE m = n
    <3>1. exec_hashtbl'[n] = IF exec_hashtbl[n] = NoEntry THEN NoEntry ELSE [exec_hashtbl[n] EXCEPT !.mask = Stale]
      BY <1>1, <1>2 DEF Forgets
    <3>2. exec_hashtbl'[n] \in Entries /\ exec_hashtbl'[n].mask \notin Masks
      <4>1. [exec_hashtbl[n] EXCEPT !.mask = Stale] \in Entries /\ [exec_hashtbl[n] EXCEPT !.mask = Stale].mask = Stale
        BY <1>2 DEF Entries, Stale
      <4> QED BY <3>1, <4>1, <1>2, NoMask
    <3> QED BY <2>1, <3>2 DEF EntryRight
  <2>2. CASE m # n
    <3>1. exec_hashtbl'[m] = exec_hashtbl[m]
      BY <1>1, <1>2, <2>2 DEF Forgets
    <3>2. find_function(m)' = find_function(m) /\ exec_path(m)' = exec_path(m) /\ builtins' = builtins
      BY <1>1, <1>8, <2>2, SameProgram
    <3> QED BY <3>1, <3>2, <1>2 DEF CacheRight
  <2> QED BY <2>1, <2>2
<1>10. exec_hashtbl' \in [CmdNames -> Entries]
  BY <1>1, <1>2, <1>9 DEF Forgets
<1>11. CmdTypeOK'
  BY <1>1, <1>5, <1>10 DEF CmdInv, CmdTypeOK
<1>12. functions_retired' \subseteq DOMAIN fnode'
  BY <1>2, <1>4, <1>5
<1>13. CacheRight'
  BY <1>9 DEF CacheRight
<1> QED BY <1>5, <1>7, <1>11, <1>12, <1>13 DEF CmdInv, ListsOK, R

(* set -h: looking up the commands of a body leaves the cache right, and   *)
(* the name that is being defined has no entry a lookup would take.        *)
LEMMA BodyHashed ==
  ASSUME CmdInv, NEW n \in CmdNames, NEW body \in SUBSET CmdNames, hash_commands_in_node(n, body)
  PROVE  /\ exec_hashtbl' \in [CmdNames -> Entries]
         /\ exec_hashtbl'[n].mask \notin Masks
         /\ \A m \in CmdNames \ {n} : EntryRight(exec_hashtbl'[m], find_function(m), builtins[m], exec_path(m))
<1> DEFINE hashing == hashall /\ body # {}
           t == IF hashing THEN [m \in CmdNames |-> IF m \in body THEN exec_hash(m, {}).t[m] ELSE Seen[m]] ELSE exec_hashtbl
<1>1. exec_hashtbl' = [t EXCEPT ![n] = IF @ = NoEntry THEN @ ELSE [@ EXCEPT !.mask = Stale]]
  BY DEF hash_commands_in_node
<1>2. ASSUME NEW m \in CmdNames
      PROVE  t[m] \in Entries /\ EntryRight(t[m], find_function(m), builtins[m], exec_path(m))
  <2>1. {} \in Masks
    BY DEF Masks
  <2>2. exec_hash(m, {}).t[m] \in Entries /\ EntryRight(exec_hash(m, {}).t[m], find_function(m), builtins[m], exec_path(m))
    BY <2>1, HashRight
  <2>3. Seen[m] \in Entries /\ EntryRight(Seen[m], find_function(m), builtins[m], exec_path(m))
    BY SeenRight
  <2>4. exec_hashtbl[m] \in Entries /\ EntryRight(exec_hashtbl[m], find_function(m), builtins[m], exec_path(m))
    BY DEF CmdInv, CmdTypeOK, CacheRight
  <2>5. t[m] = exec_hash(m, {}).t[m] \/ t[m] = Seen[m] \/ t[m] = exec_hashtbl[m]
    OBVIOUS
  <2> HIDE DEF t
  <2> QED BY <2>2, <2>3, <2>4, <2>5
<1>3. t \in [CmdNames -> Entries]
  <2>1. exec_hashtbl \in [CmdNames -> Entries]
    BY DEF CmdInv, CmdTypeOK
  <2>2. DOMAIN t = CmdNames /\ t = [m \in CmdNames |-> t[m]]
    BY <2>1
  <2> HIDE DEF t
  <2> QED BY <2>2, <1>2
<1> HIDE DEF t
<1> DEFINE f == IF t[n] = NoEntry THEN t[n] ELSE [t[n] EXCEPT !.mask = Stale]
<1>4. f \in Entries /\ f.mask \notin Masks
  <2>1. [t[n] EXCEPT !.mask = Stale] \in Entries /\ [t[n] EXCEPT !.mask = Stale].mask = Stale
    BY <1>3 DEF Entries, Stale
  <2> QED BY <2>1, <1>3, NoMask
<1>5. exec_hashtbl' = [t EXCEPT ![n] = f]
  BY <1>1
<1> HIDE DEF f
<1> QED BY <1>2, <1>3, <1>4, <1>5

(* f() { ... }: the new function takes the place of the old one.           *)
LEMMA DefineSafe ==
  ASSUME CmdInv, NEW n \in CmdNames, NEW body \in SUBSET CmdNames, eval_function(n, body)
  PROVE  CmdInv'
<1> DEFINE i == find_function(n)
           g == [name |-> n, freed |-> FALSE]
           new == Append(fnode, g)
           N == Len(fnode) + 1
           R == RemoveFirst(functions, i)
<1>1. /\ functions' = <<Len(new)>> \o R
      /\ IF i # 0 /\ exec_subshell_depth = 0 THEN exec_function_retire(new, i) ELSE fnode' = new /\ UNCHANGED functions_retired
      /\ hash_commands_in_node(n, body)
      /\ UNCHANGED <<calls, hashall, path, files, builtins>>
  BY DEF eval_function, Without, fileVars
<1>2. /\ calls \in Seq(FrameSet) /\ fnode \in Seq(FnSet) /\ exec_hashtbl \in [CmdNames -> Entries]
      /\ ListIn(functions, fnode, functions_retired) /\ functions_retired \subseteq DOMAIN fnode
      /\ CallsOK /\ SavedOK /\ CacheRight
  BY DEF CmdInv, CmdTypeOK, ListsOK
<1>3. /\ i # 0 => i \in DOMAIN fnode
      /\ \A a \in DOMAIN functions : fnode[functions[a]].name = n => functions[a] = i
      /\ i # 0 => fnode[i].name = n
  <2>1. \A a \in DOMAIN functions : functions[a] \in DOMAIN fnode
    BY <1>2 DEF ListIn
  <2> QED BY <2>1, FunctionIs
<1>4. g \in FnSet /\ g.name = n /\ ~g.freed
  BY DEF FnSet
<1> HIDE DEF i, g
<1>5. /\ new \in Seq(FnSet) /\ Len(new) = N /\ N \in Nat \ {0} /\ N \notin DOMAIN fnode
      /\ DOMAIN new = DOMAIN fnode \cup {N} /\ new[N] = g
      /\ \A j \in DOMAIN fnode : new[j] = fnode[j]
  BY <1>2, <1>4
<1> HIDE DEF new, N
<1>6. /\ fnode' \in Seq(FnSet) /\ DOMAIN fnode' = DOMAIN fnode \cup {N}
      /\ \A j \in DOMAIN fnode : fnode'[j].name = fnode[j].name
      /\ \A j \in DOMAIN fnode \ {i} : fnode'[j] = fnode[j]
      /\ fnode'[N] = g
      /\ functions_retired' \subseteq functions_retired \cup {i} /\ functions_retired' \subseteq DOMAIN fnode
      /\ CallsOK'
      /\ Framed("sub") # {} => functions_retired' = functions_retired /\ \A j \in DOMAIN fnode : fnode'[j] = fnode[j]
  <2>1. CASE i # 0 /\ exec_subshell_depth = 0
    <3>1. exec_function_retire(new, i) /\ UNCHANGED calls
      BY <1>1, <2>1
    <3>2. Framed("sub") = {}
      BY <2>1, <1>2, Counted DEF exec_subshell_depth
    <3>3. /\ fnode' \in Seq(FnSet) /\ DOMAIN fnode' = DOMAIN new
          /\ \A j \in DOMAIN new : fnode'[j].name = new[j].name
          /\ \A j \in DOMAIN new \ {i} : fnode'[j] = new[j]
          /\ functions_retired' \subseteq functions_retired \cup {i}
          /\ CallsOK'
      BY <3>1, <3>2, <2>1, <1>2, <1>3, <1>5, RetireSafe
    <3>4. i \in DOMAIN fnode
      BY <2>1, <1>3
    <3> QED BY <3>2, <3>3, <3>4, <1>2, <1>5
  <2>2. CASE ~(i # 0 /\ exec_subshell_depth = 0)
    <3>1. fnode' = new /\ functions_retired' = functions_retired /\ calls' = calls
      BY <1>1, <2>2
    <3>2. CallsOK'
      BY <3>1, <1>2, <1>5 DEF CallsOK, Framed
    <3> QED BY <3>1, <3>2, <1>2, <1>5
  <2> QED BY <2>1, <2>2
<1>7. /\ ListIn(R, fnode, functions_retired)
      /\ \A a \in DOMAIN R : R[a] # i /\ \E b \in DOMAIN functions : R[a] = functions[b]
      /\ \A b \in DOMAIN functions : functions[b] # i => \E a \in DOMAIN R : R[a] = functions[b]
  BY <1>2, RemoveIn
<1> HIDE DEF R
<1>8. \A a \in DOMAIN R : R[a] \in DOMAIN fnode \ {i} /\ fnode[R[a]].name # n /\ R[a] # N
  <2>1. \A a \in DOMAIN R : R[a] \in DOMAIN fnode
    BY <1>7 DEF ListIn
  <2> QED BY <2>1, <1>3, <1>5, <1>7
<1>9. ListIn(R, fnode', functions_retired')
  <2>1. \A a \in DOMAIN R : ~fnode[R[a]].freed /\ R[a] \notin functions_retired
    BY <1>7 DEF ListIn
  <2>2. \A a \in DOMAIN R : ~fnode'[R[a]].freed /\ R[a] \notin functions_retired'
    BY <2>1, <1>6, <1>8
  <2> QED BY <2>2, <1>6, <1>7, ListKept
<1>10. /\ ListIn(functions', fnode', functions_retired')
       /\ \A j : (\E a \in DOMAIN functions' : functions'[a] = j) <=> (j = N \/ \E a \in DOMAIN R : R[a] = j)
  <2>1. functions' = <<N>> \o R
    BY <1>1, <1>5
  <2>2. N \in DOMAIN fnode' /\ ~fnode'[N].freed /\ N \notin functions_retired'
    BY <1>4, <1>5, <1>6
  <2>3. \A a \in DOMAIN R : fnode'[R[a]].name # fnode'[N].name
    BY <1>4, <1>6, <1>8
  <2>4. NewName(N, R, fnode')
    BY <2>3 DEF NewName
  <2>5. ListIn(<<N>> \o R, fnode', functions_retired') /\ ToSet(<<N>> \o R) = ToSet(R) \cup {N}
    BY <2>2, <2>4, <1>9, ConsIn
  <2>6. ListIn(functions', fnode', functions_retired') /\ ToSet(functions') = ToSet(R) \cup {N}
    BY <2>1, <2>5
  <2> QED BY <2>6 DEF ToSet
<1>11. NamesOf(functions, fnode) \subseteq NamesOf(functions', fnode')
  <2>1. SUFFICES ASSUME NEW b \in DOMAIN functions
                 PROVE  \E a \in DOMAIN functions' : fnode'[functions'[a]].name = fnode[functions[b]].name
    BY DEF NamesOf
  <2>2. functions[b] \in DOMAIN fnode
    BY <1>2 DEF ListIn
  <2>3. CASE functions[b] = i
    <3>1. i # 0
      BY <2>2, <2>3, <1>2
    <3>2. PICK a \in DOMAIN functions' : functions'[a] = N
      BY <1>10
    <3> QED BY <2>3, <3>1, <3>2, <1>3, <1>4, <1>6
  <2>4. CASE functions[b] # i
    <3>1. PICK a \in DOMAIN R : R[a] = functions[b]
      BY <2>4, <1>7
    <3>2. PICK c \in DOMAIN functions' : functions'[c] = functions[b]
      BY <3>1, <1>10
    <3> QED BY <3>2, <2>2, <1>6
  <2> QED BY <2>3, <2>4
<1>12. SavedOK'
  <2>1. CASE Framed("sub") = {}
    <3>1. Framed("sub")' = {}
      BY <2>1, <1>1 DEF Framed
    <3> QED BY <3>1 DEF SavedOK
  <2>2. CASE Framed("sub") # {}
    <3>1. functions_retired' = functions_retired /\ \A j \in DOMAIN fnode : fnode'[j] = fnode[j]
      BY <2>2, <1>6
    <3>2. ASSUME NEW l, ListIn(l, fnode, functions_retired)
          PROVE  ListIn(l, fnode', functions_retired') /\ NamesOf(l, fnode') = NamesOf(l, fnode)
      <4>1. \A a \in DOMAIN l : l[a] \in DOMAIN fnode /\ ~fnode[l[a]].freed /\ l[a] \notin functions_retired
        BY <3>2 DEF ListIn
      <4>2. \A a \in DOMAIN l : ~fnode'[l[a]].freed /\ l[a] \notin functions_retired'
        BY <4>1, <3>1
      <4> QED BY <4>2, <3>2, <1>6, ListKept
    <3>3. Framed("sub")' = Framed("sub") /\ calls' = calls
      BY <1>1 DEF Framed
    <3>4. \A k \in Framed("sub") : /\ ListIn(calls[k].saved, fnode, functions_retired)
                                   /\ NamesOf(calls[k].saved, fnode) \subseteq NamesOf(functions, fnode)
      BY <1>2 DEF SavedOK
    <3>5. \A k \in Framed("sub") : /\ ListIn(calls[k].saved, fnode', functions_retired')
                                   /\ NamesOf(calls[k].saved, fnode') = NamesOf(calls[k].saved, fnode)
      BY <3>2, <3>4
    <3>6. \A k \in Framed("sub") : NamesOf(calls[k].saved, fnode') \subseteq NamesOf(functions', fnode')
      BY <3>4, <3>5, <1>11
    <3>7. \A j, k \in Framed("sub") : j < k => NamesOf(calls[j].saved, fnode') \subseteq NamesOf(calls[k].saved, fnode')
      BY <3>5, <1>2 DEF SavedOK
    <3> QED BY <3>3, <3>5, <3>6, <3>7 DEF SavedOK
  <2> QED BY <2>1, <2>2
<1>13. ASSUME NEW m \in CmdNames, m # n
       PROVE  find_function(m)' = find_function(m)
  <2>1. find_function(m) = Found(functions, fnode, m) /\ find_function(m)' = Found(functions', fnode', m)
    BY DEF find_function, Found, SelectInSeq
  <2>2. DOMAIN fnode \subseteq Nat \ {0} /\ DOMAIN fnode' \subseteq Nat \ {0}
    <3>1. fnode \in Seq(FnSet) /\ fnode' \in Seq(FnSet)
      BY <1>2, <1>6
    <3> QED BY <3>1
  <2>3. ASSUME NEW j
        PROVE  (\E a \in DOMAIN functions : functions[a] = j /\ fnode[j].name = m)
               <=> (\E a \in DOMAIN functions' : functions'[a] = j /\ fnode'[j].name = m)
    <3>1. \A a \in DOMAIN functions : functions[a] \in DOMAIN fnode
      BY <1>2 DEF ListIn
    <3>2. (\E a \in DOMAIN functions : functions[a] = j /\ fnode[j].name = m) <=> (\E a \in DOMAIN R : R[a] = j /\ fnode[j].name = m)
      <4>1. ASSUME NEW a \in DOMAIN functions, functions[a] = j, fnode[j].name = m
            PROVE  \E b \in DOMAIN R : R[b] = j
        <5>1. j # 0
          BY <3>1, <4>1, <2>2
        <5>2. functions[a] # i
          BY <4>1, <5>1, <1>3, <1>13
        <5> QED BY <4>1, <5>2, <1>7
      <4>2. ASSUME NEW b \in DOMAIN R, R[b] = j
            PROVE  \E a \in DOMAIN functions : functions[a] = j
        BY <4>2, <1>7
      <4> QED BY <4>1, <4>2
    <3>3. fnode'[N].name # m
      BY <1>4, <1>6, <1>13
    <3>4. \A a \in DOMAIN R : fnode'[R[a]].name = fnode[R[a]].name
      BY <1>6, <1>8
    <3>5. (\E a \in DOMAIN functions' : functions'[a] = j /\ fnode'[j].name = m) <=> (\E a \in DOMAIN R : R[a] = j /\ fnode'[j].name = m)
      BY <3>3, <1>10
    <3> QED BY <3>2, <3>4, <3>5
  <2>4. Found(functions, fnode, m) = Found(functions', fnode', m)
    BY <2>2, <2>3, <1>2, <1>10, SameFound
  <2> QED BY <2>1, <2>4
<1>14. /\ exec_hashtbl' \in [CmdNames -> Entries]
       /\ exec_hashtbl'[n].mask \notin Masks
       /\ \A m \in CmdNames \ {n} : EntryRight(exec_hashtbl'[m], find_function(m), builtins[m], exec_path(m))
  BY <1>1, BodyHashed
<1>15. ASSUME NEW m \in CmdNames
       PROVE  EntryRight(exec_hashtbl'[m], find_function(m)', builtins'[m], exec_path(m)')
  <2>1. CASE m = n
    BY <2>1, <1>14 DEF EntryRight
  <2>2. CASE m # n
    <3>1. find_function(m)' = find_function(m) /\ exec_path(m)' = exec_path(m) /\ builtins' = builtins
      BY <1>1, <1>13, <2>2, SameProgram
    <3> QED BY <3>1, <2>2, <1>14
  <2> QED BY <2>1, <2>2
<1>16. CmdTypeOK'
  BY <1>1, <1>6, <1>14 DEF CmdInv, CmdTypeOK
<1>17. CacheRight'
  BY <1>15 DEF CacheRight
<1>18. functions_retired' \subseteq DOMAIN fnode'
  BY <1>6
<1> QED BY <1>6, <1>10, <1>12, <1>16, <1>17, <1>18 DEF CmdInv, ListsOK

-----------------------------------------------------------------------------
(* The theorems *)

LEMMA CmdInvHolds ==
  ASSUME CarefulCmds
  PROVE  CmdSpec => []CmdInv
<1>1. CmdInit => CmdInv
  <2> SUFFICES ASSUME CmdInit PROVE CmdInv
    OBVIOUS
  <2>1. Framed("sub") = {} /\ Framed("call") = {} /\ DOMAIN fnode = {}
    BY DEF CmdInit, Framed
  <2>2. CmdTypeOK
    BY DEF CmdInit, CmdTypeOK, NoEntry, Entries, None, Ids
  <2>3. ListIn(functions, fnode, functions_retired)
    BY DEF CmdInit, ListIn
  <2>4. CallsOK /\ SavedOK
    BY <2>1 DEF CallsOK, SavedOK
  <2>5. CacheRight
    BY NoMask DEF CmdInit, CacheRight, EntryRight
  <2> QED BY <2>1, <2>2, <2>3, <2>4, <2>5 DEF CmdInv, ListsOK, CmdInit
<1>2. CmdInv /\ [CmdNext]_cmdVars => CmdInv'
  <2> SUFFICES ASSUME CmdInv, [CmdNext]_cmdVars PROVE CmdInv'
    OBVIOUS
  <2>1. ASSUME NEW n \in CmdNames, NEW body \in SUBSET CmdNames, eval_function(n, body) PROVE CmdInv'
    BY <2>1, DefineSafe
  <2>2. ASSUME NEW n \in CmdNames, builtin_unset(n) PROVE CmdInv'
    BY <2>2, UnsetSafe
  <2>3. ASSUME NEW n \in CmdNames, Run(n) PROVE CmdInv'
    BY <2>3, RunSafe
  <2>4. ASSUME NEW n \in CmdNames, NEW mask \in Masks, builtin_command(n, mask) PROVE CmdInv'
    BY <2>4, CommandSafe
  <2>5. ASSUME hash_forget_all \/ set_h \/ \E n \in CmdNames : hash_forget(n) \/ \E d \in PathDirs : hash_set(n, d) PROVE CmdInv'
    BY <2>5, HashSafe
  <2>6. ASSUME NEW n \in CmdNames, NEW d \in PathDirs, Install(d, n) \/ Deinstall(d, n) PROVE CmdInv'
    BY <2>6, FilesSafe
  <2>7. ASSUME NEW p \in Paths, SetPath(p) PROVE CmdInv'
    BY <2>7, SetPathSafe
  <2>8. CASE exec_function_leave
    BY <2>8, LeaveSafe
  <2>9. CASE exec_functions_save
    BY <2>9, SaveSafe
  <2>10. CASE exec_functions_restore
    BY <2>10, RestoreSafe
  <2>11. CASE UNCHANGED cmdVars
    <3>1. UNCHANGED <<fnode, functions, functions_retired, calls, exec_hashtbl, hashall, path, exec_hash_path_seen, files, builtins>>
      BY <2>11 DEF cmdVars
    <3>2. CmdTypeOK'
      BY <3>1 DEF CmdInv, CmdTypeOK
    <3>3. ListsOK'
      BY <3>1, ListsSame DEF CmdInv
    <3>4. CacheRight'
      BY <3>1, SameFunction, SameProgram, CacheSame DEF CmdInv, CacheRight
    <3> QED BY <3>2, <3>3, <3>4 DEF CmdInv
  <2> QED BY <2>1, <2>2, <2>3, <2>4, <2>5, <2>6, <2>7, <2>8, <2>9, <2>10, <2>11 DEF CmdNext
<1> QED BY <1>1, <1>2, PTL DEF CmdSpec

(* No function is freed that runs, that the list holds, that a subshell    *)
(* will put back or that the cache would call (exec_function_retire,       *)
(* exec_function_leave, exec_functions_restore): for every number of       *)
(* functions, calls and nested subshells.                                  *)
THEOREM FunctionsNeverFreed ==
  ASSUME CarefulCmds
  PROVE  CmdSpec => []FunctionsLive
<1>1. ASSUME CmdInv
      PROVE  FunctionsLive
  <2>1. /\ calls \in Seq(FrameSet) /\ ListIn(functions, fnode, functions_retired) /\ CallsOK /\ SavedOK /\ CacheRight
        /\ path \in Paths
    BY <1>1 DEF CmdInv, CmdTypeOK, ListsOK
  <2>2. \A i \in ToSet(functions) : ~fnode[i].freed
    BY <2>1 DEF ListIn, ToSet
  <2>3. ASSUME NEW k \in DOMAIN calls
        PROVE  /\ calls[k].kind = "call" => ~fnode[calls[k].at].freed
               /\ \A i \in ToSet(calls[k].saved) : ~fnode[i].freed
    <3>1. k \in Framed("call") \/ k \in Framed("sub")
      <4>1. calls[k] \in FrameSet
        BY <2>1
      <4>2. calls[k].kind \in {"call", "sub"}
        BY <4>1 DEF FrameSet
      <4> QED BY <4>2 DEF Framed
    <3>2. CASE k \in Framed("call")
      BY <3>2, <2>1 DEF CallsOK, ToSet
    <3>3. CASE k \in Framed("sub")
      <4>1. calls[k].kind # "call"
        BY <3>3 DEF Framed
      <4>2. ListIn(calls[k].saved, fnode, functions_retired)
        BY <3>3, <2>1 DEF SavedOK
      <4> QED BY <4>1, <4>2 DEF ListIn, ToSet
    <3> QED BY <3>1, <3>2, <3>3
  <2>4. ASSUME NEW n \in CmdNames, exec_hashtbl[n].mask \in Masks, exec_hashtbl[n].cmd.id = "function"
        PROVE  ~fnode[exec_hashtbl[n].cmd.at].freed
    <3> DEFINE e == exec_hashtbl[n]
    <3>1. exec_path(n).id = "program"
      BY <2>1, PathIs
    <3>2. e.cmd = Choice(find_function(n), builtins[n], exec_path(n), e.mask)
      BY <2>1, <2>4 DEF CacheRight, EntryRight
    <3> HIDE DEF e
    <3>3. e.cmd.id = "function"
      BY <2>4 DEF e
    <3>4. e.cmd.at = find_function(n) /\ find_function(n) # 0
      BY <3>1, <3>2, <3>3 DEF Choice
    <3>5. PICK a \in DOMAIN functions : e.cmd.at = functions[a]
      BY <3>4, <1>1, FunctionIs
    <3> QED BY <3>5, <2>1 DEF ListIn, e
  <2> QED BY <2>2, <2>3, <2>4 DEF FunctionsLive
<1>2. CmdSpec => []CmdInv
  BY CmdInvHolds
<1> QED BY <1>1, <1>2, PTL

(* The cache never changes what a name stands for (exec_hash, the          *)
(* invalidations of exec_hash_invalidate_all, unset -f, function           *)
(* definitions and exec_functions_restore): for every PATH and every set   *)
(* of names.                                                               *)
THEOREM LookupsRight ==
  ASSUME CarefulCmds
  PROVE  CmdSpec => []LookupRight
<1>1. ASSUME CmdInv
      PROVE  LookupRight
  BY <1>1, HashRight DEF LookupRight
<1>2. CmdSpec => []CmdInv
  BY CmdInvHolds
<1> QED BY <1>1, <1>2, PTL
=============================================================================
