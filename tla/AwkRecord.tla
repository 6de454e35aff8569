------------------------------ MODULE AwkRecord -----------------------------
(***************************************************************************)
(* What an awk record promises: the text of $0, its fields, and NF, each   *)
(* following the others at once.  AwkFields, which splits and joins only   *)
(* when asked, implements it.                                              *)
(***************************************************************************)
EXTENDS Naturals, Sequences, SequencesExt, FiniteSetsExt

CONSTANTS Texts, Blank, FieldValues, Separators, MaxNF

VARIABLES text, fields, fs, ofs, got
recordVars == <<text, fields, fs, ofs, got>>

(* The k-th stretch of s without separators has k - 1 of them before it;   *)
(* a character makes a field of each, blanks of those that are not empty.  *)
Cuts(s, c) == {i \in 1..Len(s) : s[i] = c}
Stretch(s, c, k) ==
  LET at == {i \in 1..Len(s) : s[i] # c /\ Cardinality({j \in Cuts(s, c) : j < i}) = k - 1}
  IN  IF at = {} THEN <<>> ELSE SubSeq(s, Min(at), Max(at))
Between(s, c) == [k \in 1..(Cardinality(Cuts(s, c)) + 1) |-> Stretch(s, c, k)]
Fields(s, c) ==
  CASE c = "" -> [i \in 1..Len(s) |-> <<s[i]>>]
    [] c = Blank -> SelectSeq(Between(s, c), LAMBDA f : f # <<>>)
    [] OTHER -> IF s = <<>> THEN <<>> ELSE Between(s, c)
Join(fl, c) == [i \in 1..Len(fl) |-> IF i = 1 THEN fl[i] ELSE <<c>> \o fl[i]]
Text(fl, c) == FlattenSeq(Join(fl, c))
Padded(fl, n) == [i \in 1..n |-> IF i <= Len(fl) THEN fl[i] ELSE <<>>]

(* A number, as something to compare with a text.                          *)
Unary(n) == [i \in 1..n |-> "#"]

Record(s) == text' = s /\ fields' = Fields(s, fs) /\ got' = <<>> /\ UNCHANGED <<fs, ofs>>
ReadField(n) ==
  /\ got' = IF n = 0 THEN text ELSE IF n <= Len(fields) THEN fields[n] ELSE <<>>
  /\ UNCHANGED <<text, fields, fs, ofs>>
ReadNF == got' = Unary(Len(fields)) /\ UNCHANGED <<text, fields, fs, ofs>>
Fills(fl) == fields' = fl /\ text' = Text(fl, ofs) /\ got' = <<>> /\ UNCHANGED <<fs, ofs>>
AssignField(n, v) == Fills([Padded(fields, Max({n, Len(fields)})) EXCEPT ![n] = v])
AssignNF(n) == Fills(Padded(SubSeq(fields, 1, Min({n, Len(fields)})), n))
SetFS(c) == fs' = c /\ got' = <<>> /\ UNCHANGED <<text, fields, ofs>>
SetOFS(c) == ofs' = c /\ got' = <<>> /\ UNCHANGED <<text, fields, fs>>

RecordInit == text = <<>> /\ fields = <<>> /\ fs = Blank /\ ofs = Blank /\ got = <<>>
RecordNext ==
  \/ \E s \in Texts : Record(s)
  \/ \E n \in 0..MaxNF : ReadField(n) \/ AssignNF(n)
  \/ ReadNF
  \/ \E n \in 1..MaxNF, v \in FieldValues : AssignField(n, v)
  \/ \E c \in Separators : SetFS(c) \/ (c # "" /\ SetOFS(c))
RecordSpec == RecordInit /\ [][RecordNext]_recordVars
=============================================================================
