------------------------------ MODULE FdTable ------------------------------
(***************************************************************************)
(* The descriptor layer of shish: src/fd, src/fdstack, src/fdtable.        *)
(*                                                                         *)
(* A numbered ("virtual") descriptor n is a struct fd.  fdtable[n] is a    *)
(* chain of structs, the top one being current; the same structs are       *)
(* listed on the stack level that created them.  A struct sits on a kernel *)
(* descriptor e, which need not be n: opening is postponed, and kernel     *)
(* descriptors are moved about until a program is run, when fdtable_exec() *)
(* forces e = n everywhere.  fd_list[e] names the struct that owns kernel  *)
(* descriptor e and fd_expected is the lowest descriptor the shell         *)
(* believes to be free.                                                    *)
(*                                                                         *)
(* All of this state is one record io, passed through the operators:       *)
(*   k    kernel table: what each kernel descriptor is open on             *)
(*   cx   the kernel descriptors marked close-on-exec                      *)
(*   fd   the structs, by identity (0 is NULL)                             *)
(*   vt   fdtable: per number, the chain of structs, top first             *)
(*   lv   fdstack: the levels, root first; each lists its structs by n     *)
(*   ls   fd_list,  ex  fd_expected                                        *)
(*   sc   fd_scope: the open non-forking scopes (fd_state_save)            *)
(* An operator that can fail returns [io, r] with r as in fdtable.h.       *)
(***************************************************************************)
EXTENDS Integers, Sequences, SequencesExt, FiniteSets, FiniteSetsExt

CONSTANTS MaxFd,      \* highest kernel descriptor (FD_MAX - 1)
          MaxStruct,  \* how many structs may be alive
          Missing     \* a file that cannot be opened

DONE == -1
ERROR == -2
PENDING == -3

Fds == 0..MaxFd
Ids == 1..MaxStruct
None == [f |-> "none", end |-> "none"]
Buf(e) == [fd |-> e, sa |-> "none"]
(* What access an open kernel descriptor grants (fdtable_check).           *)
fdtable_check(x) == CASE x.end = "r" -> {"R"} [] x.end = "w" -> {"W"}
                      [] x.end = "rw" -> {"R", "W"} [] OTHER -> {}
Struct(d, n, mode) == [n |-> n, e |-> -1, mode |-> mode, dup |-> 0, name |-> "none",
                       rb |-> Buf(-1), wb |-> Buf(-1), r |-> d, w |-> d]
Unused == Struct(0, -1, {})

Top(io, n) == IF io.vt[n] = <<>> THEN 0 ELSE Head(io.vt[n])
LevelOf(io, d) == CHOOSE i \in DOMAIN io.lv : \E j \in DOMAIN io.lv[i] : io.lv[i][j] = d
Walk(io) == FlattenSeq(Reverse(io.lv))
Lowest(io) == Min({e \in Fds : io.k[e] = None})
Put(io, e, x) == [io EXCEPT !.k[e] = x, !.cx = @ \ {e}]
KClose(io, E) == [io EXCEPT !.k = [e \in Fds |-> IF e \in E THEN None ELSE @[e]], !.cx = @ \ E]

-----------------------------------------------------------------------------
(* fdtable_untrack: e is free again.                                       *)
Untrack(io, e) == [io EXCEPT !.ex = IF e >= 0 /\ e < @ THEN e ELSE @]

(* fdtable_up: the next number no struct of the stack sits on.             *)
fdtable_up(io) ==
  LET used == {io.fd[d].e : d \in Range(Walk(io))}
  IN  [io EXCEPT !.ex = Min({e \in (io.ex + 1)..(MaxFd + 1) : e \notin used})]

(* fd_scope_note: a scope that does not fork remembers what it changes of  *)
(* an outer level.                                                         *)
fd_scope_note(io, d) ==
  IF io.sc = <<>> THEN io
  ELSE LET s == Last(io.sc)
           x == io.fd[d]
       IN  IF LevelOf(io, d) >= s.level \/ \E i \in DOMAIN s.notes : s.notes[i].d = d THEN io
           ELSE [io EXCEPT !.sc[Len(io.sc)].notes =
                   <<[d |-> d, e |-> x.e, rfd |-> x.rb, wfd |-> x.wb, r |-> x.r, w |-> x.w]>> \o @]

(* fdstack_update: duplicates follow the descriptor they duplicate.        *)
fdstack_update(io, d) ==
  FoldLeft(LAMBDA a, x : IF a.fd[x].dup = d
                         THEN [fd_scope_note(a, x) EXCEPT !.fd[x].e = a.fd[d].e] ELSE a,
           io, Walk(io))

(* fd_setfd: put struct d on kernel descriptor e.                          *)
fd_setfd(io, d, e) ==
  LET a == fd_scope_note(io, d)
      s == a.fd[d]
      on(io1, way, buf, ptr) == IF way \in s.mode THEN [io1 EXCEPT !.fd[d][buf] = Buf(e), !.fd[d][ptr] = d]
                                ELSE io1
      b == [on(on(a, "R", "rb", "r"), "W", "wb", "w") EXCEPT
              !.ls = [x \in Fds |-> IF x = s.e /\ s.e # e /\ @[x] = d THEN 0 ELSE @[x]],
              !.fd[d].e = e]
      c == fdstack_update(b, d)
  IN  IF e >= 0 THEN [c EXCEPT !.ls[e] = d] ELSE c

(* fdstack_unref: when d goes, the first of its duplicates takes over the  *)
(* buffers and the others point there.                                     *)
fdstack_unref(io, d) ==
  LET dups == SelectSeq(Walk(io), LAMBDA x : x # d /\ io.fd[x].dup = d)
      s == io.fd[d]
      new == Head(dups)
      moved == [io EXCEPT !.fd[new].rb = io.fd[s.r].rb, !.fd[new].wb = io.fd[s.w].wb,
                          !.fd[new].r = new, !.fd[new].w = new,
                          !.fd[d].rb.fd = -1, !.fd[d].wb.fd = -1]
  IN  IF dups = <<>> THEN io
      ELSE FoldLeft(LAMBDA a, x : [a EXCEPT !.fd[x].r = a.fd[new].r, !.fd[x].w = a.fd[new].w],
                    moved, Tail(dups))

(* fd_close.  A kernel descriptor that another struct has claimed since is *)
(* not ours to close.                                                      *)
fd_close(io, d) ==
  LET s == io.fd[d]
      a == IF "DUP" \in s.mode THEN io
           ELSE [Untrack(io, s.e) EXCEPT !.ls = [x \in Fds |-> IF x = s.e /\ @[x] = d THEN 0 ELSE @[x]]]
      b == IF s.rb.fd # s.wb.fd /\ s.rb.fd > 2 THEN Untrack(a, s.rb.fd) ELSE a
      c == IF s.wb.fd > 2 THEN Untrack(b, s.wb.fd) ELSE b
      own(x) == IF x >= 0 /\ c.ls[x] \notin {0, d} THEN -1 ELSE x
      rfd == own(s.rb.fd)
      wfd == own(s.wb.fd)
      gone == (IF rfd # wfd /\ rfd # -1 /\ "R" \in s.mode THEN {rfd} ELSE {})
              \cup (IF wfd # -1 /\ "W" \in s.mode THEN {wfd} ELSE {})
  IN  fdstack_unref([KClose(c, gone) EXCEPT !.fd[d].rb.fd = rfd, !.fd[d].wb.fd = wfd], d)

(* fd_pop: close, unlink from table and level, free.                       *)
fd_pop(io, d) ==
  IF d = 0 THEN io
  ELSE LET a == fd_close(io, d)
       IN  [a EXCEPT !.vt[io.fd[d].n] = SelectSeq(@, LAMBDA x : x # d),
                     !.lv[LevelOf(io, d)] = SelectSeq(@, LAMBDA x : x # d),
                     !.fd[d] = Unused]

(* fd_reinit: the struct is taken over for a new descriptor.               *)
fd_reinit(io, d, mode) ==
  LET a == fd_close(io, d) IN [a EXCEPT !.fd[d] = Struct(d, io.fd[d].n, mode)]

(* fdtable_link + fdstack_link: a new struct, at position pos of its       *)
(* chain, on a level sorted by n.                                          *)
Link(io, n, lev, pos, mode) ==
  LET d == Min({x \in Ids : io.fd[x] = Unused})
      at == Cardinality({i \in DOMAIN io.lv[lev] : io.fd[io.lv[lev][i]].n <= n}) + 1
  IN  [io EXCEPT !.fd[d] = Struct(d, n, mode), !.vt[n] = InsertAt(@, pos, d),
                 !.lv[lev] = InsertAt(@, at, d)]
fd_push(io, n, mode) == Link(io, n, Len(io.lv), 1, mode)

(* fdtable_newfd (with fdstack_search): reuse the current struct if it is  *)
(* of that level.                                                          *)
fdtable_newfd(io, n, lev, mode) ==
  IF Top(io, n) # 0 /\ LevelOf(io, Top(io, n)) = lev
  THEN fd_reinit(io, Top(io, n), mode)
  ELSE Link(io, n, lev, 1, mode)

(* fdtable_unexpected: descriptors below a new one that are open without a *)
(* struct get one on the root level.                                       *)
fdtable_unexpected(io, from, u) ==
  FoldLeft(LAMBDA a, e : IF a.ls[e] # 0 \/ a.k[e] = None THEN a
                         ELSE LET b == fdtable_newfd(a, e, 1, fdtable_check(a.k[e]))
                              IN  fd_setfd(b, Top(b, e), e),
           io, [i \in 1..(u - from) |-> from + i - 1])

(* fdtable_track: the kernel just handed out descriptor n.                 *)
fdtable_track(io, n, flags) ==
  LET a == Untrack(io, n)
      from == IF "FORCE" \in flags THEN a.ex + 1 ELSE a.ex
  IN  fdtable_up(IF n > a.ex /\ from < n THEN fdtable_unexpected(a, from, n) ELSE a)

(* What a mutated Relocate would do: what is in the way is closed.         *)
RelocateByClosing(io, d) == fd_pop(fd_setfd(io, d, -1), d)
(* A shadowed struct that would lose kernel descriptor e is moved away.    *)
Relocate(io, d) == LET e == Lowest(io) IN fd_setfd(Put(io, e, io.k[io.fd[d].e]), d, e)

-----------------------------------------------------------------------------
(* The resolver.  its stack of numbers (fdtable_resolve_stack) is st.      *)
RECURSIVE fdtable_resolve(_, _, _, _)
RECURSIVE CloseBelow(_, _, _, _)

Forced(flags) == flags \cap {"MOVE", "FORCE"} # {}

fdtable_lazy(io, e, flags, st) ==
  LET d == IF io.ex \in Fds THEN Top(io, io.ex) ELSE 0
      x == fdtable_resolve(io, d, flags, st)
      end(a) == [io |-> a, r |-> IF e = a.ex THEN DONE ELSE PENDING]
  IN  IF e = io.ex \/ d = 0 THEN end(io)
      ELSE IF x.r = PENDING THEN end(x.io) ELSE x

fdtable_gap(io, e, flags, st) ==
  LET g == io.ls[e]
      done == IF "NOCLOSE" \in flags THEN e ELSE DONE
  IN  CASE g = 0 -> [io |-> io, r |-> DONE]
        [] g # 0 /\ "CLOSE" \in io.fd[g].mode ->
             [io |-> fd_pop(fd_setfd(io, g, -1), g), r |-> done]
        [] g # 0 /\ "CLOSE" \notin io.fd[g].mode /\ "FORCE" \in flags /\ g # Top(io, io.fd[g].n) ->
             [io |-> Relocate(io, g), r |-> done]
        [] g # 0 /\ "CLOSE" \notin io.fd[g].mode /\ "FORCE" \in flags /\ g = Top(io, io.fd[g].n) ->
             fdtable_resolve(io, g, (flags \ {"FORCE"}) \cup {"MOVE"}, st)
        [] OTHER -> [io |-> io, r |-> PENDING]

fdtable_wish(io, e, flags, st) ==
  CASE e > io.ex -> fdtable_lazy(io, e, flags, st)
    [] e < io.ex /\ "CLOSE" \in flags -> [io |-> io, r |-> e]
    [] e < io.ex /\ "CLOSE" \notin flags -> fdtable_gap(io, e, flags, st)
    [] OTHER -> [io |-> io, r |-> DONE]

(* fdtable_open and fdtable_here share their beginning: wish for n, and    *)
(* close it when the wish says so.                                         *)
Wished(io, d, flags, st, then(_, _)) ==
  LET n == io.fd[d].n
      w == fdtable_wish(io, n, flags, st)
  IN  IF w.io.fd[d].e = n THEN [io |-> w.io, r |-> DONE]
      ELSE IF w.r = PENDING /\ ~Forced(flags) THEN w
      ELSE then(IF w.r = n THEN Untrack(KClose(w.io, {n}), n) ELSE w.io, w.r)

fdtable_open(io, d, flags, st) ==
  LET n == io.fd[d].n
      open(a, state) ==
        IF a.fd[d].name = Missing THEN [io |-> a, r |-> ERROR]
        ELSE LET e == Lowest(a)
                 x == [f |-> a.fd[d].name, end |-> IF "W" \in a.fd[d].mode THEN "w" ELSE "r"]
                 b == fd_setfd(fdtable_track(Put(a, e, x), e, flags), d, e)
             IN  [io |-> [b EXCEPT !.fd[d].mode = @ \ {"OPEN"}],
                  r |-> IF n = e THEN DONE ELSE IF state >= DONE THEN n ELSE PENDING]
  IN  IF "OPEN" \notin io.fd[d].mode THEN [io |-> io, r |-> DONE]
      ELSE Wished(io, d, flags, st, open)

(* fdtable_here with fd_tempfile: the document moves to an unlinked file.  *)
fdtable_here(io, d, flags, st) ==
  LET n == io.fd[d].n
      drop(a, state) ==
        LET e == Lowest(a)
            b == fdtable_track(Put(a, e, [f |-> a.fd[d].rb.sa, end |-> "rw"]), e, {})
            c == fd_setfd([b EXCEPT !.fd[d].mode = {"W"}], d, e)
        IN  [io |-> [c EXCEPT !.fd[d].rb = Buf(e), !.fd[d].wb = Buf(-1), !.fd[d].mode = {"R"}],
             r |-> IF e = n \/ "FORCE" \notin flags THEN DONE ELSE n]
  IN  Wished(io, d, flags, st, drop)

(* fdtable_dup: move or duplicate d's descriptor o towards n.  dup() is a  *)
(* bet that n is the lowest free descriptor; when it misses and the place  *)
(* is forced, dup2() follows.                                              *)
fdtable_dup(io, d, flags, st) ==
  LET n == io.fd[d].n
      o == io.fd[d].e
      w == IF "CLOSE" \in flags THEN [io |-> io, r |-> o]
           ELSE fdtable_wish(io, n, flags \cup {"NOCLOSE"}, st)
      a == w.io
      bet == n = a.ex \/ w.r = DONE \/ "MOVE" \in flags
      land(b, e) ==               \* the new descriptor e: track, evict, take
        LET c == IF e > 2 /\ e # n THEN [b EXCEPT !.cx = @ \cup {e}] ELSE b
            t == IF e <= c.ex THEN fdtable_track(c, e, flags) ELSE c
            v == t.ls[e]
            u == IF v = 0 THEN t ELSE fd_pop(fd_setfd(t, v, -1), v)
        IN  fd_setfd(u, d, e)
      spare(b) ==                 \* whoever is only shadowed moves away first
        LET occ == b.ls[n]
        IN  IF occ # 0 /\ occ # d /\ "CLOSE" \notin b.fd[occ].mode
               /\ (b.fd[occ].n # n \/ occ # Top(b, b.fd[occ].n))
            THEN Relocate(b, occ) ELSE b
      force(b) == LET c == spare(b) IN land(Put(c, n, c.k[o]), n)
      first == land(Put(a, Lowest(a), a.k[o]), Lowest(a))
      missed == LET e == first.fd[d].e
                    b == [first EXCEPT !.ls[e] = IF @ = d THEN 0 ELSE @]
                IN  force(Untrack(KClose(b, {e}), e))
      res == IF ~bet THEN force(a)
             ELSE IF first.fd[d].e # n /\ "FORCE" \in flags THEN missed ELSE first
  IN  IF o = n \/ a.fd[d].e = n THEN [io |-> a, r |-> DONE]
      ELSE IF ~(bet \/ w.r = n \/ "FORCE" \in flags) THEN [io |-> a, r |-> ERROR]
      ELSE IF o = -1 THEN [io |-> IF bet THEN a ELSE spare(a), r |-> ERROR]
      ELSE IF "DUP" \notin res.fd[d].mode THEN [io |-> res, r |-> o]
      ELSE [io |-> [res EXCEPT !.fd[d].mode = @ \ {"DUP"}, !.fd[d].dup = 0], r |-> DONE]

(* fdtable_close: resolve what sits on fd_expected first, then let go of e *)
CloseBelow(io, e, flags, st) ==
  IF io.ex \notin Fds \/ e >= io.ex THEN [io |-> io, r |-> DONE]
  ELSE IF Top(io, io.ex) = 0 THEN [io |-> io, r |-> DONE]
  ELSE LET x == fdtable_resolve(io, Top(io, io.ex), flags, st)
       IN  IF x.r = DONE THEN CloseBelow(x.io, e, flags, st)
           ELSE [x EXCEPT !.r = IF @ = ERROR THEN ERROR ELSE DONE]
fdtable_close(io, e, flags, st) ==
  LET a == CloseBelow(io, e, flags, st)
  IN  IF a.r = ERROR THEN a
      ELSE IF "NOCLOSE" \notin flags /\ Top(a.io, e) # 0
           THEN fdtable_resolve(a.io, Top(a.io, e), flags \cup {"CLOSE"}, st)
      ELSE [io |-> Untrack(IF "NOCLOSE" \in flags THEN a.io ELSE KClose(a.io, {e}), e), r |-> DONE]

(* fdtable_resolve_1, one step per kind of struct.                         *)
Settle(io, d, state, flags, st) ==    \* not done yet: force the number
  IF state = DONE THEN [io |-> io, r |-> DONE]
  ELSE LET x == fdtable_dup(io, d, IF state >= 0 THEN flags \cup {"CLOSE"} ELSE flags, st)
           z == IF x.io.ex < x.r THEN fdtable_lazy(x.io, -1, flags, st) ELSE x
       IN  IF x.r < 0 THEN x
           ELSE IF z.r = ERROR THEN z
           ELSE [io |-> Untrack(KClose(z.io, {x.r}), x.r), r |-> DONE]

Resolve1(io, d, flags, st) ==
  LET s == io.fd[d]
      shadow == Forced(flags) /\ d # Top(io, s.n)
      a == IF shadow THEN [io EXCEPT !.fd[d].mode = {"CLOSE"}] ELSE io
      todo == a.fd[d].mode \cap {"OPEN", "CLOSE", "SA"}
      src == IF {"SA", "R"} \subseteq a.fd[s.dup].mode THEN fdtable_here(a, s.dup, flags, st).io ELSE a
      x == CASE todo = {"CLOSE"} -> fdtable_close(a, s.n, flags, st)
             [] todo = {"OPEN"} -> fdtable_open(a, d, flags, st)
             [] todo = {"SA"} /\ "R" \in s.mode /\ "DUP" \in s.mode /\ s.dup # 0 ->
                  [io |-> [src EXCEPT !.fd[d].e = src.fd[s.dup].e], r |-> PENDING]
             [] todo = {"SA"} /\ "R" \in s.mode /\ ~("DUP" \in s.mode /\ s.dup # 0) ->
                  fdtable_here(a, d, flags, st)
             [] OTHER -> [io |-> a, r |-> PENDING]
  IN  IF s.e = s.n THEN [io |-> io, r |-> DONE]
      ELSE IF "NULL" \in s.mode
           THEN [io |-> IF Forced(flags) /\ "NOCLOSE" \notin flags THEN KClose(io, {s.n}) ELSE io, r |-> DONE]
      ELSE IF ~Forced(flags) /\ s.mode \cap {"OPEN", "CLOSE", "SA"} # {} THEN [io |-> io, r |-> PENDING]
      ELSE Settle(x.io, d, x.r, flags, st)

fdtable_resolve(io, d, flags, st) ==
  IF io.fd[d].n \in st THEN [io |-> io, r |-> ERROR]
  ELSE Resolve1(io, d, flags, st \cup {io.fd[d].n})

-----------------------------------------------------------------------------
(* fd_dup: n>&m.  The root of the chain of duplicates is what is copied.   *)
RECURSIVE DupRoot(_, _)
DupRoot(io, d) == IF io.fd[d].dup = 0 THEN d ELSE DupRoot(io, io.fd[d].dup)
Types == {"SA", "PIPE"}
Alias(io, d, src) ==
  LET s == io.fd[src]
  IN  [io EXCEPT !.fd[d].r = s.r, !.fd[d].w = s.w, !.fd[d].name = s.name, !.fd[d].dup = src,
                 !.fd[d].e = s.e, !.fd[d].mode = @ \cup (s.mode \cap Types) \cup {"DUP"}]
fd_dup(io, d, m) ==
  LET src == DupRoot(io, Top(io, m))
  IN  IF Top(io, m) = 0 \/ src = d
         \/ \E way \in {"R", "W"} : way \in io.fd[d].mode /\ way \notin io.fd[src].mode
      THEN [io |-> io, r |-> ERROR]
      ELSE [io |-> Alias(io, d, src), r |-> 0]

fd_null(io, d) == [io EXCEPT !.fd[d].mode = (@ \ {"R", "W"}) \cup {"NULL"}]
fd_open(io, d, name) == [io EXCEPT !.fd[d].mode = @ \cup {"OPEN"}, !.fd[d].name = name]
fd_here(io, d, doc) == [io EXCEPT !.fd[d].mode = {"SA", "R"}, !.fd[d].rb.sa = doc, !.fd[d].e = -1]
fd_subst(io, d, sink) == [io EXCEPT !.fd[d].mode = {"SA", "W"}, !.fd[d].wb.sa = sink]

(* What a mutated fdtable_openfd would do: the descriptor moved from stays *)
(* open.                                                                   *)
fdtable_openfd_leaks(io, d, e) == LET n == io.fd[d].n IN fd_setfd(fdtable_track(Put(io, n, io.k[e]), n, {"MOVE"}), d, n)
(* fdtable_openfd: kernel descriptor e, open already, is put on number n.  *)
fdtable_openfd(io, d, e) ==
  LET n == io.fd[d].n
      occ == io.ls[n]
      a == IF occ # 0 /\ occ # d /\ "CLOSE" \notin io.fd[occ].mode /\ occ # Top(io, io.fd[occ].n)
           THEN Relocate(io, occ) ELSE io
      b == IF e = n THEN io ELSE Untrack(KClose(Put(a, n, a.k[e]), {e}), e)
      c == fd_setfd(fdtable_track(b, n, {"MOVE"}), d, n)
  IN  [c EXCEPT !.fd[d].mode = @ \ {"OPEN"}]

-----------------------------------------------------------------------------
(* Levels.                                                                 *)
fdstack_push(io) == [io EXCEPT !.lv = Append(@, <<>>)]
fdstack_pop(io) == LET a == FoldLeft(fd_pop, io, Last(io.lv)) IN [a EXCEPT !.lv = Front(@)]
fdstack_flatten(io) ==
  FoldLeft(LAMBDA a, d : IF d = Top(a, a.fd[d].n) THEN a ELSE fd_pop(a, d), io, Walk(io))

(* fd_state_save / fd_state_restore: a scope that shares the process.      *)
fd_state_save(io) ==
  [io EXCEPT !.sc = Append(@, [level |-> Len(io.lv), notes |-> <<>>, ex |-> io.ex, ls |-> io.ls])]
fd_state_restore(io) ==
  LET s == Last(io.sc)
      undo(a, n) ==
        LET x == a.fd[n.d]
            b == IF x.e # n.e /\ "DUP" \notin x.mode /\ n.e >= 0 /\ x.e >= 0
                 THEN KClose(Put(a, n.e, a.k[x.e]), {x.e}) ELSE a
        IN  [b EXCEPT !.fd[n.d].e = n.e, !.fd[n.d].rb.fd = n.rfd.fd, !.fd[n.d].wb.fd = n.wfd.fd,
                      !.fd[n.d].r = n.r, !.fd[n.d].w = n.w]
  IN  [FoldLeft(undo, io, s.notes) EXCEPT !.sc = Front(@), !.ex = s.ex, !.ls = s.ls]

-----------------------------------------------------------------------------
(* Programs.  A substitution's output, collected in memory, needs a pipe.  *)
IsSubst(s) == "DUP" \notin s.mode /\ {"SA", "W"} \subseteq s.mode
IsHere(s) == "DUP" \notin s.mode /\ {"SA", "R"} \subseteq s.mode
Collects(io) == {i \in DOMAIN io.lv : \E j \in DOMAIN io.lv[i] :
                   IsSubst(io.fd[io.lv[i][j]]) \/ IsHere(io.fd[io.lv[i][j]])}
fdstack_npipes(io) ==
  IF Collects(io) = {} THEN 0
  ELSE LET l == io.lv[Max(Collects(io))]
       IN  Cardinality({j \in DOMAIN l : IsSubst(io.fd[l[j]]) \/ IsHere(io.fd[l[j]])})

(* fdstack_pipe for one target t of level lev, with fd_pipe: the write end *)
(* becomes a struct of the current level, the read end is t's own.         *)
PipeFor(io, lev, t) ==
  LET n == io.fd[t].n
      near == FlattenSeq([i \in 1..(Len(io.lv) - lev) |-> io.lv[lev + i]])
      owned == \E j \in DOMAIN near : io.fd[near[j]].n = n /\ io.fd[near[j]].dup # t
      aliased == \E d \in Range(Walk(io)) : io.fd[d].dup = t /\ d = Top(io, io.fd[d].n)
      pos == IF owned THEN CHOOSE i \in DOMAIN io.vt[n] : io.vt[n][i] = t ELSE 1
      a == Link(io, n, Len(io.lv), pos, {"W", "PIPE"})
      p == a.vt[n][pos]
      e0 == Lowest(a)
      b == Put(a, e0, [f |-> io.fd[t].wb.sa, end |-> "r"])
      e1 == Lowest(b)
      c == fdtable_track(fdtable_track(Put(b, e1, [f |-> io.fd[t].wb.sa, end |-> "w"]), e0, {}), e1, {})
      f == fd_setfd(c, p, e1)
      g == [f EXCEPT !.fd[t].rb = Buf(e0), !.fd[t].mode = @ \cup {"R"}, !.ls[e0] = t,
                     !.fd = [d \in Ids |-> IF d \in Range(Walk(f)) /\ @[d].dup = t
                                           THEN [@[d] EXCEPT !.dup = p] ELSE @[d]]]
      \* EXCEPT applies the clauses in order, so the last one sees the first
  IN  IF owned /\ ~aliased THEN io ELSE fdstack_update(g, p)
fdstack_pipe(io) ==
  LET levs == {i \in DOMAIN io.lv : \E j \in DOMAIN io.lv[i] : IsSubst(io.fd[io.lv[i][j]])}
      lev == Max(levs)
      targets == SelectSeq(io.lv[lev], LAMBDA d : IsSubst(io.fd[d]))
  IN  IF levs = {} THEN io ELSE FoldLeft(LAMBDA a, t : PipeFor(a, lev, t), io, targets)

(* fdstack_data in the parent and fdstack_closerd in the child drop the    *)
(* read end.                                                               *)
DropReadEnd(io) ==
  FoldLeft(LAMBDA a, d :
             LET s == a.fd[d]
                 b == [a EXCEPT !.ls = [x \in Fds |-> IF x = s.rb.fd /\ @[x] = d THEN 0 ELSE @[x]]]
                 c == IF s.rb.fd > 2 THEN Untrack(b, s.rb.fd) ELSE b
             IN  IF {"SA", "W", "R"} \subseteq s.mode
                 THEN [KClose(c, {s.rb.fd}) EXCEPT !.fd[d].rb.fd = -1, !.fd[d].mode = @ \ {"R"}]
                 ELSE a,
           io, Walk(io))

(* fdtable_exec: open what is pending, then force every number.            *)
ForEach(io, step(_, _)) ==
  FoldLeft(LAMBDA x, n : IF x.r = ERROR \/ Top(x.io, n) = 0 THEN x ELSE step(x.io, Top(x.io, n)),
           [io |-> io, r |-> DONE], [i \in 1..(MaxFd + 1) |-> i - 1])
fdtable_exec(io) ==
  LET open(a, d) == fdtable_open(a, d, {"MOVE"}, {})
      force(a, d) == fdtable_resolve(a, d, {"FORCE"}, {})
      x == ForEach(io, open)
  IN  IF x.r = ERROR THEN x ELSE ForEach(x.io, force)
=============================================================================
