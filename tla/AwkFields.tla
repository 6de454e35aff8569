------------------------------ MODULE AwkFields -----------------------------
(***************************************************************************)
(* Records and fields of the awk interpreter (text/awk/awk_field.c, and    *)
(* the assignments through awk_lvalue in awk_exec.c).  A record is split   *)
(* when a field or NF is first asked for, and $0 put together again when   *)
(* it is read after a field was assigned.                                  *)
(*                                                                         *)
(* f[i] is field i, Uninit where nothing is stored; NF is awk's variable,  *)
(* nf the number the record keeps.                                         *)
(***************************************************************************)
EXTENDS Naturals, Sequences, SequencesExt, FiniteSetsExt

CONSTANTS Texts, Blank, FieldValues, Separators, MaxNF,
          Careful           \* FS is assigned when the record is split, OFS when $0 is up to date

VARIABLES line, f, nf, NF, split_done, dirty, FS, OFS, got
fieldVars == <<line, f, nf, NF, split_done, dirty, FS, OFS, got>>

Uninit == <<"uninit">>
Cap == MaxNF + 2
FieldsInit ==
  /\ line = <<>> /\ f = [i \in 1..Cap |-> Uninit] /\ nf = 0 /\ NF = 0
  /\ split_done = FALSE /\ dirty = FALSE /\ FS = Blank /\ OFS = Blank /\ got = <<>>

-----------------------------------------------------------------------------
(* Spans of s from i on: runs of other characters than blanks, or what     *)
(* each separator ends.                                                    *)
NextBlank(s, i) == Min({j \in i..Len(s) : s[j] = Blank} \cup {Len(s) + 1})
NextText(s, i) == Min({j \in i..Len(s) : s[j] # Blank} \cup {Len(s) + 1})
NextSep(s, i, c) == Min({j \in i..Len(s) : s[j] = c} \cup {Len(s) + 1})
awk_split(s, c) ==
  LET runs[i \in 1..(Len(s) + 2)] ==
        LET a == NextText(s, i) IN
        IF i > Len(s) \/ a > Len(s) THEN <<>> ELSE <<SubSeq(s, a, NextBlank(s, a) - 1)>> \o runs[NextBlank(s, a)]
      spans[i \in 1..(Len(s) + 2)] ==
        LET e == NextSep(s, i, c) IN
        IF e > Len(s) THEN <<SubSeq(s, i, Len(s))>> ELSE <<SubSeq(s, i, e - 1)>> \o spans[e + 1]
  IN  CASE c = "" -> [i \in 1..Len(s) |-> <<s[i]>>]
        [] c = Blank -> runs[1]
        [] OTHER -> IF s = <<>> THEN <<>> ELSE spans[1]

Record == [line |-> line, f |-> f, nf |-> nf, NF |-> NF, split_done |-> split_done, dirty |-> dirty]
awk_rec_ensure_split(r) ==
  LET sp == awk_split(r.line, FS)
      (* cells past the fields are freed up to the first that is empty *)
      end == Min({i \in (Len(sp) + 1)..Cap : r.f[i] = Uninit} \cup {Cap + 1})
  IN  IF r.split_done THEN r
      ELSE [r EXCEPT !.f = [i \in 1..Cap |-> IF i <= Len(sp) THEN sp[i] ELSE IF i < end THEN Uninit ELSE @[i]],
                     !.nf = Len(sp), !.NF = Len(sp), !.split_done = TRUE, !.dirty = FALSE]
Str(c) == IF c = Uninit THEN <<>> ELSE c
rec_rebuild(r) ==
  [r EXCEPT !.line = FlattenSeq([i \in 1..r.nf |-> IF i = 1 THEN Str(r.f[i]) ELSE <<OFS>> \o Str(r.f[i])]), !.dirty = FALSE]
Store(r) == line' = r.line /\ f' = r.f /\ nf' = r.nf /\ NF' = r.NF /\ split_done' = r.split_done /\ dirty' = r.dirty

awk_rec_setline(s) ==
  /\ Store([Record EXCEPT !.line = s, !.split_done = FALSE, !.dirty = FALSE, !.nf = 0])
  /\ got' = <<>> /\ UNCHANGED <<FS, OFS>>
awk_rec_field(n) ==
  LET r == IF n = 0 THEN (IF dirty THEN rec_rebuild(Record) ELSE Record) ELSE awk_rec_ensure_split(Record)
  IN  Store(r) /\ got' = (IF n = 0 THEN r.line ELSE Str(r.f[n])) /\ UNCHANGED <<FS, OFS>>
(* A number, as something to compare with a text.                          *)
Unary(n) == [i \in 1..n |-> "#"]
(* NF is looked up by resolve_var().                                       *)
resolve_NF ==
  LET r == awk_rec_ensure_split(Record) IN Store(r) /\ got' = Unary(r.NF) /\ UNCHANGED <<FS, OFS>>

Gap(r, n) == [i \in 1..Cap |-> IF i \in (r.nf + 1)..n THEN <<>> ELSE r.f[i]]
awk_rec_field_for_write(n, v) ==
  LET r == awk_rec_ensure_split(Record)
      grown == IF n > r.nf THEN n ELSE r.nf
  IN  /\ Store([r EXCEPT !.f = [Gap(r, n) EXCEPT ![n] = v], !.nf = grown, !.NF = IF n > r.nf THEN n ELSE @, !.dirty = TRUE])
      /\ got' = <<>> /\ UNCHANGED <<FS, OFS>>
(* What a mutated awk_rec_setnf would do: shrinking keeps the cells.       *)
ShrunkKept(r, n) == r.f
Shrunk(r, n) == [i \in 1..Cap |-> IF i \in (n + 1)..r.nf THEN Uninit ELSE r.f[i]]
awk_rec_setnf(n) ==
  LET r == awk_rec_ensure_split(Record)
  IN  /\ Store([r EXCEPT !.f = Gap([r EXCEPT !.f = Shrunk(r, n)], n), !.nf = n, !.NF = n, !.dirty = TRUE])
      /\ got' = <<>> /\ UNCHANGED <<FS, OFS>>
AssignFS(c) == (Careful => split_done) /\ FS' = c /\ UNCHANGED <<line, f, nf, NF, split_done, dirty, OFS>> /\ got' = <<>>
AssignOFS(c) == (Careful => ~dirty) /\ OFS' = c /\ UNCHANGED <<line, f, nf, NF, split_done, dirty, FS>> /\ got' = <<>>

FieldsNext ==
  \/ \E s \in Texts : awk_rec_setline(s)
  \/ \E n \in 0..MaxNF : awk_rec_field(n) \/ awk_rec_setnf(n)
  \/ resolve_NF
  \/ \E n \in 1..MaxNF, v \in FieldValues : awk_rec_field_for_write(n, v)
  \/ \E c \in Separators : AssignFS(c) \/ (c # "" /\ AssignOFS(c))
FieldsSpec == FieldsInit /\ [][FieldsNext]_fieldVars

-----------------------------------------------------------------------------
Abstract == INSTANCE AwkRecord WITH
  text <- IF dirty THEN rec_rebuild(Record).line ELSE line,
  fields <- LET r == awk_rec_ensure_split(Record) IN [i \in 1..r.nf |-> Str(r.f[i])],
  fs <- FS, ofs <- OFS
(* However late a record is split and $0 put together, a program cannot    *)
(* tell: every read gives what the record of AwkRecord has.                *)
RecordPromised == Abstract!RecordSpec
=============================================================================
