------------------------------- MODULE History ------------------------------
(***************************************************************************)
(* The interactive history (src/history, called from sh/sh_loop.c and the  *)
(* line editor in src/term): a ring of this session's commands bounded by  *)
(* HISTSIZE, the history file of earlier sessions, mapped when the shell   *)
(* starts and scanned backwards as far as the user scrolls, and an append  *)
(* to that file for each command.  Several shells share the file, and a    *)
(* shell may be killed at any step.                                        *)
(*                                                                         *)
(* A text is a sequence of units: "nl" is a newline, "bs" a backslash.     *)
(* mine and seen, what a shell has recorded and what had been recorded     *)
(* when it started, are kept to say what the history should be.            *)
(***************************************************************************)
EXTENDS Naturals, SequencesExt, TLC

CONSTANTS Shells,
          Commands,          \* Commands[s]: the texts typed in shell s
          HistSizes,         \* HistSizes[s]: its values of HISTSIZE, 0: not a number
          Browsers,          \* the shells whose user scrolls, gives up a line and clears
          DEFAULT_HISTSIZE,
          MaxTyped,          \* bound on the commands recorded
          Careful            \* TRUE: see the guards that use it

VARIABLES file,              \* the history file
          sh,                \* the shells
          typed              \* the commands recorded so far, by any shell

histVars == <<file, sh, typed>>
LastN(q, n) == SubSeq(q, IF Len(q) > n THEN Len(q) - n + 1 ELSE 1, Len(q))

-----------------------------------------------------------------------------
(* One entry is one line of the file.                                      *)
Escaped(u) == CASE u = "bs" -> <<"bs", "bs">> [] u = "nl" -> <<"bs", "n">> [] OTHER -> <<u>>
history_encode(t) == FlattenSeq([i \in DOMAIN t |-> Escaped(t[i])])
RECURSIVE history_decode(_)
history_decode(t) ==
  CASE t = <<>> -> <<>>
    [] t # <<>> /\ (t[1] # "bs" \/ Len(t) = 1) -> <<t[1]>> \o history_decode(Tail(t))
    [] OTHER -> (CASE t[2] = "n" -> <<"nl">> [] t[2] = "bs" -> <<"bs">> [] OTHER -> <<"bs", t[2]>>) \o history_decode(SubSeq(t, 3, Len(t)))

(* Backwards: one more line is cached.  Forwards: all of them.             *)
NewlinesBefore(m, p) == {i \in 1..p : m[i] = "nl"}
LastOf(s) == CHOOSE i \in s : \A j \in s : j <= i
history_cache_extend(h) ==
  LET nl == NewlinesBefore(h.map, h.scanpos)
      at == LastOf(nl)
  IN  IF h.exhausted \/ h.scanpos = 0 THEN [h EXCEPT !.exhausted = TRUE]
      ELSE IF nl = {} THEN [h EXCEPT !.cache = Append(@, SubSeq(h.map, 1, h.scanpos)), !.scanpos = 0, !.exhausted = TRUE]
      ELSE [h EXCEPT !.cache = Append(@, SubSeq(h.map, at + 1, h.scanpos)), !.scanpos = at - 1]
RECURSIVE history_file_entry(_, _)
history_file_entry(h, index) ==
  IF index < Len(h.cache) \/ h.exhausted THEN h ELSE history_file_entry(history_cache_extend(h), index)
RECURSIVE history_file_next(_)
history_file_next(m) ==
  LET nl == SelectInSeq(m, LAMBDA u : u = "nl")
  IN  IF m = <<>> THEN <<>> ELSE IF nl = 0 THEN <<m>> ELSE <<SubSeq(m, 1, nl - 1)>> \o history_file_next(SubSeq(m, nl + 1, Len(m)))

-----------------------------------------------------------------------------
(* The session's ring.                                                     *)
Slot(h, i) == (h.head + i) % h.cap
history_session_resize(h) ==
  LET newcap == IF h.histsize = 0 THEN DEFAULT_HISTSIZE ELSE h.histsize
      n == IF h.count > newcap THEN newcap ELSE h.count
  IN  IF newcap = h.cap THEN h
      ELSE [h EXCEPT !.ring = [i \in 0..(newcap - 1) |-> IF i < n THEN h.ring[Slot(h, h.count - n + i)] ELSE <<>>],
                     !.cap = newcap, !.count = n, !.head = 0]
(* What a mutated Pushed would do: it overwrites the newest entry of a     *)
(* full ring.                                                              *)
PushedOverNewest(h, t) == IF h.count = h.cap THEN [h EXCEPT !.ring[Slot(h, h.count - 1)] = t]
                          ELSE [h EXCEPT !.ring[Slot(h, h.count)] = t, !.count = @ + 1]
Pushed(h, t) ==
  LET r == IF h.count = h.cap THEN [h EXCEPT !.head = Slot(h, 1), !.count = @ - 1] ELSE h
  IN  [r EXCEPT !.ring[Slot(r, r.count)] = t, !.count = @ + 1]

(* The line history_show puts on the screen, and the cache it leaves.      *)
history_show(h, cursor) ==
  LET f == history_file_entry(h, cursor - h.count - 1)
  IN  IF cursor \in 1..h.count THEN [h EXCEPT !.line = h.ring[Slot(h, h.count - cursor)]]
      ELSE IF cursor - h.count <= Len(f.cache) THEN [f EXCEPT !.line = history_decode(f.cache[cursor - h.count])] ELSE f
history_print(h) ==
  LET old == history_file_next(h.map)
  IN  [i \in DOMAIN old |-> history_decode(old[i])] \o [i \in 1..h.count |-> h.ring[Slot(h, i - 1)]]

-----------------------------------------------------------------------------
(* The shells.                                                             *)
Gone == [up |-> FALSE, map |-> <<>>, ring |-> <<>>, cap |-> 0, count |-> 0, head |-> 0, cache |-> <<>>, scanpos |-> 0, exhausted |-> FALSE,
         cursor |-> 0, pending |-> <<>>, line |-> <<>>, histsize |-> 0, appending |-> FALSE, mine |-> <<>>, seen |-> <<>>, live |-> <<>>]
Becomes(s, h) == sh' = [sh EXCEPT ![s] = h]
AtPrompt(s) == sh[s].up /\ ~sh[s].appending
Alone(s) == \A r \in Shells \ {s} : ~sh[r].appending

history_init(s) ==
  /\ ~sh[s].up
  /\ \E n \in HistSizes[s] :
       Becomes(s, history_session_resize([Gone EXCEPT !.up = TRUE, !.map = file, !.histsize = n, !.seen = typed,
         !.scanpos = IF file # <<>> /\ Last(file) = "nl" THEN Len(file) - 1 ELSE Len(file)]))
  /\ UNCHANGED <<file, typed>>
(* The user edits the line; assigns HISTSIZE.                              *)
Edit(s, t) ==
  /\ AtPrompt(s)
  /\ Becomes(s, [sh[s] EXCEPT !.line = t, !.live = IF sh[s].cursor = 0 THEN t ELSE @])
  /\ UNCHANGED <<file, typed>>
AssignSize(s, n) == AtPrompt(s) /\ Becomes(s, [sh[s] EXCEPT !.histsize = n]) /\ UNCHANGED <<file, typed>>
(* Control-C, a line without a command or with a syntax error: history_add *)
(* is not called.                                                          *)
Discard(s) ==
  /\ AtPrompt(s)
  /\ Careful => sh[s].cursor = 0
  /\ Becomes(s, [sh[s] EXCEPT !.line = <<>>, !.live = <<>>])
  /\ UNCHANGED <<file, typed>>
(* Return: history_add, whose append is one write for the line and one for *)
(* its newline.  Another shell may write, or this one be killed, between.  *)
history_add(s) ==
  /\ AtPrompt(s) /\ sh[s].line # <<>> /\ Len(typed) < MaxTyped
  /\ Careful => Alone(s)
  /\ LET h == Pushed(history_session_resize(sh[s]), sh[s].line)
     IN  Becomes(s, [h EXCEPT !.appending = TRUE, !.mine = LastN(Append(@, h.line), h.cap)])
  /\ file' = file \o history_encode(sh[s].line)
  /\ typed' = Append(typed, sh[s].line)
history_file_append(s) ==
  /\ sh[s].appending
  /\ file' = Append(file, "nl")
  /\ Becomes(s, [sh[s] EXCEPT !.appending = FALSE, !.cursor = 0, !.pending = <<>>, !.line = <<>>, !.live = <<>>])
  /\ UNCHANGED typed
history_clear(s) ==
  /\ AtPrompt(s) /\ sh[s].cursor = 0
  /\ Becomes(s, [sh[s] EXCEPT !.count = 0, !.head = 0, !.pending = <<>>, !.mine = <<>>])
  /\ UNCHANGED <<file, typed>>
Stashed(h) == IF h.cursor = 0 THEN [h EXCEPT !.pending = h.line] ELSE h
(* Nothing further back: the line was handed to term_getline() and is lost.*)
history_prev(s) ==
  LET h == Stashed(sh[s])
      next == h.cursor + 1
      f == history_file_entry(h, next - h.count - 1)
      found == next <= h.count \/ next - h.count <= Len(f.cache)
  IN  /\ AtPrompt(s)
      /\ Careful => found \/ h.cursor # 0 \/ h.line = <<>>
      /\ Becomes(s, IF found THEN [history_show(h, next) EXCEPT !.cursor = next]
                    ELSE IF h.cursor = 0 /\ h.line # <<>> THEN [f EXCEPT !.line = <<"junk">>] ELSE f)
      /\ UNCHANGED <<file, typed>>
history_next(s) ==
  LET h == [sh[s] EXCEPT !.cursor = @ - 1]
  IN  /\ AtPrompt(s) /\ sh[s].cursor # 0
      /\ Becomes(s, IF h.cursor = 0 THEN [h EXCEPT !.line = h.pending] ELSE history_show(h, h.cursor))
      /\ UNCHANGED <<file, typed>>
(* The shell exits, or is killed.                                          *)
history_shutdown(s) ==
  /\ sh[s].up
  /\ Careful => ~sh[s].appending
  /\ Becomes(s, Gone)
  /\ UNCHANGED <<file, typed>>

HistInit == file = <<>> /\ typed = <<>> /\ sh = [s \in Shells |-> Gone]
HistNext ==
  \E s \in Shells :
    \/ history_init(s) \/ history_add(s) \/ history_file_append(s) \/ history_shutdown(s)
    \/ s \in Browsers /\ (Discard(s) \/ history_clear(s) \/ history_prev(s) \/ history_next(s))
    \/ \E t \in Commands[s] : Edit(s, t)
    \/ \E n \in HistSizes[s] : AssignSize(s, n)
HistSpec == HistInit /\ [][HistNext]_histVars

-----------------------------------------------------------------------------
(* Scrolling back shows this session's commands, newest first and as many  *)
(* as HISTSIZE has kept, then all commands recorded before the shell       *)
(* started, each as it was typed; and history lists the same, oldest first *)
(* (history_show, history_cache_extend, history_session_resize).           *)
RecallRight ==
  \A s \in Shells : AtPrompt(s) =>
    LET all == sh[s].seen \o sh[s].mine
        n == Len(all)
    IN  /\ \A k \in 1..n : history_show(sh[s], k).line = all[n + 1 - k]
        /\ Len(history_file_entry(sh[s], n).cache) = Len(sh[s].seen)
        /\ history_print(sh[s]) = all
(* Whenever no append is under way the file holds every command recorded   *)
(* by any shell, one entry each, in order (history_add.c; history.h).      *)
Persisted == (\A s \in Shells : ~sh[s].appending) =>
               LET lines == history_file_next(file) IN [i \in DOMAIN lines |-> history_decode(lines[i])] = typed
(* The line at the live position is the one the user was editing before    *)
(* browsing started (history_prev, history_next and history_pending).      *)
LiveKept == \A s \in Shells : AtPrompt(s) /\ sh[s].cursor = 0 => sh[s].line = sh[s].live
=============================================================================
