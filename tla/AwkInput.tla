------------------------------ MODULE AwkInput ------------------------------
(***************************************************************************)
(* awk's input and output (text/awk/awk_io.c and the loop over the records *)
(* in awk_run.c): the table of the files a program has open by name, with  *)
(* the buffer each reader has inside its slot, and the main input, which   *)
(* runs through the operands.                                              *)
(*                                                                         *)
(* slot[1..nstreams] are the streams, in an array that closing compacts by *)
(* copying the last slot; slot[0] is the main input's.  A reader's buffer  *)
(* rb is [x, p, n, cookie]: the slot whose rbuf it reads from, and the     *)
(* slot whose handle fills it.  A line is a number, 0 a line made of bytes *)
(* that were never read; a handle is [name, off].  A record separator is a *)
(* newline.                                                                *)
(***************************************************************************)
EXTENDS Naturals, Sequences, SequencesExt, FiniteSets

CONSTANTS FileNames,
          Contents,              \* the lines a file of this name has at first; none of it: no file
          ArgLists,              \* the operands it may be run with: seqs of [kind, name],
                                 \* "file" or "assign" (a value of the variable)
          BufLines,              \* how many lines fit in rbuf
          StreamCap,             \* the size the array of streams starts with
          MaxReads, MaxPrints,
          Careful                \* no reader's slot is moved

VARIABLES argv, disk, slot, nstreams, cur_open, cur_argi, any_input_used, assigned,
          nr, fnr, taken, main, skipped, unwind, reads, prints
awkVars == <<argv, disk, slot, nstreams, cur_open, cur_argi, any_input_used, assigned, nr, fnr, taken, main, skipped, unwind, reads, prints>>

NoHandle == [name |-> "", off |-> 0]
NoBuffer == [x |-> 0, p |-> 0, n |-> 0, cookie |-> 0]
Empty == [name |-> "", is_write |-> FALSE, h |-> NoHandle, rb |-> NoBuffer, rbuf |-> <<>>, eof |-> FALSE]
Stdin == "-"

InputInit ==
  /\ argv \in ArgLists
  /\ disk = Contents
  /\ slot = [i \in 0..StreamCap |-> Empty]
  /\ nstreams = 0 /\ cur_open = FALSE /\ cur_argi = 1 /\ any_input_used = FALSE /\ assigned = "none"
  /\ nr = 0 /\ fnr = 0 /\ unwind = FALSE /\ reads = 0 /\ prints = 0
  /\ taken = [n \in FileNames |-> <<>>] /\ main = <<>> /\ skipped = {}

-----------------------------------------------------------------------------
Exists(n) == n \in DOMAIN disk
open_read(n) == IF Exists(n) THEN [name |-> n, off |-> 0] ELSE NoHandle
stream_init_reader(s, i) == [s EXCEPT ![i].rb = [NoBuffer EXCEPT !.x = i, !.cookie = i]]
find_stream(n) == SelectInSeq([i \in 1..nstreams |-> slot[i]], LAMBDA s : s.name = n)

(* What a mutated buffer_feed would do: refill before the buffer is empty *)
RefillsEarly(rb) == rb.p + 1 >= rb.n
Refills(rb) == rb.p = rb.n
(* buffer_feed: an empty buffer reads through its cookie's handle, into    *)
(* the rbuf it points to.                                                  *)
buffer_feed(s, i) ==
  LET rb == s[i].rb
      h == s[rb.cookie].h
      k == IF Exists(h.name) /\ ~s[rb.cookie].is_write
           THEN LET left == Len(disk[h.name]) - h.off IN IF h.off >= Len(disk[h.name]) THEN 0 ELSE IF left < BufLines THEN left ELSE BufLines
           ELSE 0
      lines == IF k = 0 THEN <<>> ELSE SubSeq(disk[h.name], h.off + 1, h.off + k)
  IN  IF ~Refills(rb) THEN s
      ELSE [[[s EXCEPT ![rb.x].rbuf = lines \o SubSeq(@, k + 1, Len(@))]
                EXCEPT ![rb.cookie].h.off = @ + k] EXCEPT ![i].rb = [rb EXCEPT !.p = 0, !.n = k]]

(* [r, line, s]: 1 and a line, 0 at the end, -1 (here 2) if never opened.  *)
stream_getline(s, i) ==
  LET t == buffer_feed(s, i)
      rb == t[i].rb
  IN  CASE s[i].h = NoHandle -> [r |-> 2, line |-> 0, s |-> s]
        [] s[i].h # NoHandle /\ s[i].eof -> [r |-> 0, line |-> 0, s |-> s]
        [] s[i].h # NoHandle /\ ~s[i].eof /\ rb.p = rb.n -> [r |-> 0, line |-> 0, s |-> [t EXCEPT ![i].eof = TRUE]]
        [] OTHER -> [r |-> 1, line |-> IF rb.p < Len(t[rb.x].rbuf) THEN t[rb.x].rbuf[rb.p + 1] ELSE 0,
                     s |-> [t EXCEPT ![i].rb.p = @ + 1]]

new_stream(n, wr, h) == [slot EXCEPT ![nstreams + 1] = [Empty EXCEPT !.name = n, !.is_write = wr, !.h = h]]
awk_stream_for_read(n) ==
  IF find_stream(n) # 0 THEN [i |-> find_stream(n), s |-> slot]
  ELSE [i |-> nstreams + 1, s |-> stream_init_reader(new_stream(n, FALSE, open_read(n)), nstreams + 1)]

runtime_error == unwind' = TRUE /\ UNCHANGED <<disk, slot, nstreams, cur_open, cur_argi, any_input_used, assigned, nr, fnr, taken, main, skipped>>
mainVars == <<cur_open, cur_argi, any_input_used, assigned, nr, fnr, main, skipped>>
Reads == reads < MaxReads /\ reads' = reads + 1 /\ UNCHANGED prints
Prints == prints < MaxPrints /\ prints' = prints + 1 /\ UNCHANGED reads

(* getline var < name                                                      *)
awk_getline_from(n) ==
  LET at == awk_stream_for_read(n)
      g == stream_getline(at.s, at.i)
  IN  /\ ~unwind /\ Reads
      /\ IF find_stream(n) # 0 /\ slot[find_stream(n)].is_write THEN runtime_error
         ELSE /\ at.i <= StreamCap
              /\ slot' = g.s
              /\ nstreams' = IF at.i > nstreams THEN at.i ELSE nstreams
              /\ taken' = IF g.r = 1 THEN [taken EXCEPT ![n] = Append(@, g.line)] ELSE taken
              /\ UNCHANGED <<disk, unwind, mainVars>>

(* print > name (append: print >> name)                                    *)
awk_stream_for_write(n, append) ==
  /\ ~unwind /\ Prints
  /\ IF find_stream(n) # 0 /\ ~slot[find_stream(n)].is_write THEN runtime_error
     ELSE /\ find_stream(n) # 0 \/ nstreams < StreamCap
          /\ slot' = IF find_stream(n) # 0 THEN slot ELSE new_stream(n, TRUE, [name |-> n, off |-> 0])
          /\ nstreams' = IF find_stream(n) # 0 THEN nstreams ELSE nstreams + 1
          /\ disk' = [m \in DOMAIN disk \cup {n} |->
                        IF m # n THEN disk[m]
                        ELSE Append(IF Exists(n) /\ (append \/ find_stream(n) # 0) THEN disk[n] ELSE <<>>, 10 + prints)]
          /\ UNCHANGED <<unwind, taken, mainVars>>

(* close(name): the last slot is copied over the one that is closed.       *)
Moved(i) == i < nstreams /\ ~slot[nstreams].is_write /\ slot[nstreams].h # NoHandle
awk_stream_close(n) ==
  LET i == find_stream(n)
  IN  /\ ~unwind /\ i # 0
      /\ Careful => ~Moved(i)
      /\ slot' = [slot EXCEPT ![i] = slot[nstreams]]
      /\ nstreams' = nstreams - 1
      /\ taken' = [taken EXCEPT ![n] = <<>>]
      /\ UNCHANGED <<disk, unwind, reads, prints, mainVars>>

-----------------------------------------------------------------------------
(* What main_input_nextline sees: [s, open, argi, used, fnr, assigned].    *)
Input == [s |-> slot, open |-> cur_open, argi |-> cur_argi, used |-> any_input_used, fnr |-> fnr, assigned |-> assigned, from |-> 0]
open_argv_operand(in, n) ==
  [in EXCEPT !.s = stream_init_reader([in.s EXCEPT ![0] = [Empty EXCEPT !.name = n, !.h = open_read(n)]], 0),
             !.open = TRUE, !.fnr = 0]
Unused(in) == ~in.used
RECURSIVE open_next_operand(_)
open_next_operand(in) ==
  LET o == argv[in.argi]
      next == [in EXCEPT !.argi = @ + 1]
  IN  IF in.argi > Len(argv)
      THEN IF Unused(in) THEN open_argv_operand([in EXCEPT !.used = TRUE], Stdin) ELSE in
      ELSE CASE o.kind = "assign" -> open_next_operand([next EXCEPT !.assigned = o.name])
             [] o.kind = "file" /\ Exists(o.name) -> open_argv_operand([next EXCEPT !.used = TRUE], o.name)
             [] OTHER -> open_next_operand([next EXCEPT !.used = TRUE])

RECURSIVE main_input_nextline(_)
main_input_nextline(in) ==
  LET g == stream_getline(in.s, 0)
      opened == open_next_operand(in)
  IN  CASE in.open /\ g.r = 1 -> [r |-> 1, line |-> g.line, in |-> [in EXCEPT !.s = g.s, !.fnr = @ + 1]]
        [] in.open /\ g.r # 1 -> main_input_nextline([in EXCEPT !.s = g.s, !.open = FALSE])
        [] ~in.open /\ opened.open -> main_input_nextline(opened)
        [] OTHER -> [r |-> 0, line |-> 0, in |-> opened]

Source(in) == IF in.s[0].name = Stdin THEN 0 ELSE in.argi - 1
awk_getrecord ==
  LET m == main_input_nextline(Input)
  IN  /\ ~unwind /\ Reads
      /\ slot' = m.in.s /\ cur_open' = m.in.open /\ cur_argi' = m.in.argi
      /\ any_input_used' = m.in.used /\ assigned' = m.in.assigned /\ fnr' = m.in.fnr
      /\ nr' = nr + m.r
      /\ main' = IF m.r = 1 THEN Append(main, [from |-> Source(m.in), line |-> m.line, var |-> m.in.assigned]) ELSE main
      /\ UNCHANGED <<disk, nstreams, taken, skipped, unwind>>

(* nextfile                                                                *)
close_current_file ==
  /\ ~unwind /\ cur_open
  /\ cur_open' = FALSE
  /\ skipped' = skipped \cup {Source(Input)}
  /\ UNCHANGED <<disk, slot, nstreams, cur_argi, any_input_used, assigned, nr, fnr, taken, main, unwind, reads, prints>>

InputNext == UNCHANGED argv /\
  (\/ \E n \in FileNames : awk_getline_from(n) \/ awk_stream_close(n) \/ \E append \in BOOLEAN : awk_stream_for_write(n, append)
   \/ awk_getrecord
   \/ close_current_file)
InputSpec == InputInit /\ [][InputNext]_awkVars

-----------------------------------------------------------------------------
(* getline reads every line of a file, in order, each once, whatever else  *)
(* is opened, read and closed in between.                                  *)
EveryLineRead ==
  \A n \in FileNames : LET i == find_stream(n) IN
    (i # 0 /\ ~slot[i].is_write) =>
       /\ Exists(n) => IsPrefix(taken[n], disk[n])
       /\ slot[i].eof => taken[n] = disk[n]
(* The records of the main input are the lines of the operands in order,   *)
(* an assignment among them done when the next file's first line is read.  *)
Lines(k) == SelectSeq(main, LAMBDA m : m.from = k)
Before(k) == LET as == SelectSeq(SubSeq(argv, 1, k - 1), LAMBDA o : o.kind = "assign")
             IN  IF as = <<>> THEN "none" ELSE as[Len(as)].name
NamesFile == \E k \in 1..Len(argv) : argv[k].kind = "file"
RecordsInOrder ==
  /\ nr = Len(main)
  /\ \A i \in 1..(Len(main) - 1) : main[i].from <= main[i + 1].from
  /\ \A i \in 1..Len(main) : (main[i].from = 0) <=> ~NamesFile
  /\ \A k \in 1..Len(argv) : argv[k].kind = "file" /\ Lines(k) # <<>> =>
       LET lines == [j \in 1..Len(Lines(k)) |-> Lines(k)[j].line]
           whole == disk[argv[k].name]
           kept == whole = Contents[argv[k].name]
       IN  /\ \A j \in 1..Len(lines) : Lines(k)[j].var = Before(k)
           /\ kept => IsPrefix(lines, whole)
           /\ kept /\ cur_argi - 1 > k /\ k \notin skipped => lines = whole
=============================================================================
