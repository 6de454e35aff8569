------------------------------ MODULE Utilities -----------------------------
(***************************************************************************)
(* The text tools built into the shell: regular expressions, sed, awk and  *)
(* the filters that a pipeline chains without processes.  What compiles or *)
(* runs a text is checked on every input up to a bound; an input grows     *)
(* unit by unit (units, sed commands, stages of a pipeline) or by          *)
(* replacing its stem by a form.  What keeps state between calls, awk's    *)
(* streams and awk's record, takes its own steps.                          *)
(***************************************************************************)
EXTENDS Integers, Sequences, SequencesExt

CONSTANTS Parts,                              \* the parts to run
          Vocabulary, MaxUnits,               \* part -> units, bound
          Forms, Seed, Stem, MaxForms,        \* part -> forms, first input, what they replace, bound
          ReFlags, ReAlphabet, Subjects, ReSteps,
          SedAlphabet, Regexes, Files, Inputs, SED_MAXNEST, MaxSedSteps, DFA_MAXDUP,
          ListWidths,
          AwkNames, AwkNumbers, AwkStrings,
          FileText, RawSize, Units, MaxText, MaxStages,  \* what is piped in, and how far
          FileNames, Contents, ArgLists, BufLines, StreamCap, MaxReads, MaxPrints,
          RecordTexts, Blank, FieldValues, Separators, MaxNF,
          Careful,                            \* awk: no reader's slot moves, no separator changes late
          Compile(_, _), Search(_, _), Submatch(_, _, _), Replace(_, _, _, _, _),   \* dfa_compile, dfa_search, dfa_submatch, dfa_replace
          ReMeant(_, _), AllMatches(_, _, _), \* what an expression means: its tree; what it should find
          ParseSed(_), RunSed(_, _, _), SedMeant(_, _, _),   \* sed_parse, sed_run on an input, and what it should do
          ParseAwk(_), ShowAwk(_), AwkText(_),   \* awk_parse_program, its tree as text, the text
          RunPipe(_, _), PipeMeant(_, _)      \* eval_pipeline on stages and input, and what they should do

VARIABLES part, input, grown, mode, chunks,
          argv, disk, slot, nstreams, cur_open, cur_argi, any_input_used, assigned,
          nr, fnr, taken, main, skipped, unwind, reads, prints,
          line, f, nf, NF, split_done, dirty, FS, OFS, got

R == INSTANCE Regex WITH Alphabet <- ReAlphabet, DFA_MAXSTEPS <- ReSteps
S == INSTANCE Sed WITH Alphabet <- SedAlphabet, DFA_MAXSTEPS <- ReSteps
W == INSTANCE AwkParse
P == INSTANCE Filters
I == INSTANCE AwkInput
D == INSTANCE AwkFields WITH Texts <- RecordTexts

textVars == <<part, input, grown, mode, chunks>>
inputVars == <<argv, disk, slot, nstreams, cur_open, cur_argi, any_input_used, assigned, nr, fnr, taken, main, skipped, unwind, reads, prints>>
fieldVars == <<line, f, nf, NF, split_done, dirty, FS, OFS, got>>

Init ==
  /\ part \in Parts /\ grown = 0 /\ chunks = <<>>
  /\ mode \in (IF part \in DOMAIN ReFlags THEN ReFlags[part] ELSE {{}})
  /\ input = IF part \in DOMAIN Forms THEN Seed[part] ELSE <<>>
  /\ I!InputInit /\ (part = "streams" \/ argv = CHOOSE a \in ArgLists : TRUE)
  /\ D!FieldsInit

Type(t) ==
  /\ grown < MaxUnits[part] /\ (part = "pipes" => Len(input) < MaxStages)
  /\ grown' = grown + 1
  /\ input' = Append(input, t)
  /\ UNCHANGED <<part, mode, chunks, inputVars, fieldVars>>
Derive(i, form) ==
  /\ grown < MaxForms[part]
  /\ input[i] = Stem[part]
  /\ grown' = grown + 1
  /\ input' = SubSeq(input, 1, i - 1) \o form \o SubSeq(input, i + 1, Len(input))
  /\ UNCHANGED <<part, mode, chunks, inputVars, fieldVars>>
(* One more unit of what is piped in, in a read of its own or in the last. *)
Feed(u, apart) ==
  /\ part = "pipes" /\ input = <<>> /\ grown < MaxText
  /\ grown' = grown + 1
  /\ chunks' = IF apart THEN Append(chunks, <<u>>) ELSE [chunks EXCEPT ![Len(chunks)] = Append(@, u)]
  /\ UNCHANGED <<part, input, mode, inputVars, fieldVars>>
Next ==
  \/ part \in DOMAIN Vocabulary /\ \E t \in Vocabulary[part] : Type(t)
  \/ part \in DOMAIN Forms /\ \E form \in Forms[part] : \E i \in DOMAIN input : Derive(i, form)
  \/ part = "pipes" /\ \E u \in Units : Feed(u, TRUE) \/ (chunks # <<>> /\ Feed(u, FALSE))
  \/ part = "streams" /\ I!InputNext /\ UNCHANGED <<textVars, fieldVars>>
  \/ part = "record" /\ D!FieldsNext /\ UNCHANGED <<textVars, inputVars>>
Spec == Init /\ [][Next]_<<textVars, inputVars, fieldVars>>

-----------------------------------------------------------------------------
Pattern == part \in DOMAIN ReFlags
Program == Compile(input, mode)
Meant == ReMeant(input, mode)

(* dfa_compile() accepts an expression exactly when it is one: groups and  *)
(* brackets closed, intervals in order, references to groups there are.    *)
Compiles == Pattern => LET t == Meant IN R!Usual(input, t, mode) => (Program.err = "" <=> ~t.bad)

(* What dfa_search() finds is the leftmost and, of those, the longest      *)
(* match, whatever splits, jumps and copies of intervals the expression    *)
(* was compiled to; the groups dfa_submatch() gives for it are those of    *)
(* one way to match.  With references only some match is promised.         *)
Finds ==
  Pattern =>
    LET d == Program
        t == Meant
    IN  d.err = "" /\ R!Usual(input, t, mode) => \A s \in Subjects :
          LET m == Search(d, s)
              b == R!Best(t, mode, s, 1)
              g == Submatch(d, s, m)
          IN  /\ m.ok => g.ok /\ [pos |-> m.end, cap |-> R!Caps(g.save, Len(d.gsrc))] \in R!Matches(t, mode, s, m.start)
              /\ ~d.back => <<m.start, m.end>> = b
              /\ d.back /\ ~R!EmptyLoop(t) => m.start = b[1]

(* s/re/&/ changes nothing, whichever match it begins with: every          *)
(* character is copied or matched once, those between empty matches too.   *)
ReplaceKeeps ==
  Pattern => LET d == Program
             IN  d.err = "" => \A s \in Subjects, nth \in 1..2, global \in BOOLEAN :
                   Replace(d, <<R!Item(0, <<>>)>>, s, nth, global).out = s

(* s/re/X/n and s/re/X/ng replace the matches from the n-th on, where an   *)
(* empty match right behind another is none.                               *)
RECURSIVE Spliced(_, _, _, _)
Spliced(s, ms, p, k) ==           \* ms: [from, to, hit] for each match; k is the next
  IF k > Len(ms) THEN SubSeq(s, p, Len(s))
  ELSE SubSeq(s, p, ms[k].from - 1) \o (IF ms[k].hit THEN <<"X">> ELSE SubSeq(s, ms[k].from, ms[k].to - 1)) \o Spliced(s, ms, ms[k].to, k + 1)
ReplaceRight ==
  Pattern =>
    LET d == Program
        t == Meant
    IN  d.err = "" /\ ~d.back /\ R!Usual(input, t, mode) => \A s \in Subjects : LET all == AllMatches(t, mode, s) IN
          \A nth \in 1..2, global \in BOOLEAN :
            LET ms == [k \in DOMAIN all |-> [from |-> all[k][1], to |-> all[k][2], hit |-> k = nth \/ (global /\ k > nth)]]
            IN  Replace(d, <<R!Item(-1, <<"X">>)>>, s, nth, global).out = Spliced(s, ms, 1, 1)

(* Regular expressions mean what they say: what compiles, what is found,   *)
(* which groups, and what is replaced (dfa_compile, dfa_search,            *)
(* dfa_submatch, dfa_replace).                                             *)
RegexRight == Compiles /\ Finds /\ ReplaceKeeps /\ ReplaceRight

-----------------------------------------------------------------------------
(* A sed script is accepted exactly when it is well formed, and then does  *)
(* what its text says: the flat program with its jumps, the ranges kept    *)
(* per command and the line read ahead make no difference.  Not asked of a *)
(* run in which an N finds output queued, which it leaves in the queue.    *)
SedMeans ==
  part = "sed" =>
    LET p == ParseSed(input)
    IN  /\ p.err = "" <=> S!WellFormed(input)
        /\ p.err = "" => \A lines \in Inputs, quiet \in BOOLEAN :
             LET st == RunSed(p, lines, quiet)
                 m == SedMeant(input, lines, quiet)
             IN  st.steps <= MaxSedSteps /\ ~m.early => st.out = m.out /\ st.w = m.w /\ st.status = m.status

(* The l command folds a text into lines no longer than the width asked    *)
(* for, in a way that can be undone, never within an escape.               *)
Folds(out) == {i \in 1..Len(out) - 1 : out[i] = "\\" /\ out[i + 1] = "nl"}
Unfolded(out) == LET keep(a, i) == IF i \in Folds(out) \/ i - 1 \in Folds(out) THEN a ELSE Append(a, out[i])
                 IN  FoldLeft(keep, <<>>, [i \in 1..Len(out) |-> i])
LineLengths(out) ==
  LET ends == {0} \cup {i \in DOMAIN out : out[i] = "nl"}
  IN  {b - a - 1 : <<a, b>> \in {e \in ends \X ends : e[1] < e[2] /\ ~\E m \in ends : e[1] < m /\ m < e[2]}}
ListRight ==
  part = "list" => \A w \in ListWidths :
    LET out == S!sed_do_list(input, w)
    IN  /\ Unfolded(out) = FlattenSeq([i \in DOMAIN input |-> S!Piece(input[i])]) \o <<"$", "nl">>
        /\ w > 0 => \A n \in LineLengths(out) : n <= w

(* sed's scripts and its l command do what they say (sed_run, sed_do_list).*)
SedRight == SedMeans /\ ListRight

-----------------------------------------------------------------------------
(* An awk program that parses has the tree its text says: written out with *)
(* the parentheses POSIX's precedences ask for, it is the text again, and  *)
(* needs no parenthesis that was not there.                                *)
Opened(s) == Len(SelectSeq(s, LAMBDA u : u = "("))
AwkParsed ==
  part = "awk" =>
    LET r == ParseAwk(input)
        shown == ShowAwk(r.items)
        text == AwkText(input)
    IN  ~r.err => W!Bare(shown) = W!Bare(text) /\ Opened(shown) <= Opened(text)

(* getline var < file reads every line of the file, in order, each once,   *)
(* whatever else is opened, read and closed in between.                    *)
EveryLineRead == I!EveryLineRead

(* The records of the main input are the lines of the operands in order,   *)
(* standard input only if none names a file, an assignment among them done *)
(* before the next file's first line.                                      *)
RecordsInOrder == I!RecordsInOrder

(* Whatever an awk program reads, by main input or getline, comes complete *)
(* and in order (awk_next_record, awk_getline, awk_stream_close).          *)
AwkReads == EveryLineRead /\ RecordsInOrder

(* The record that is split late and put together late is, to a program,   *)
(* the one of AwkRecord.                                                   *)
RecordPromised == D!RecordPromised

-----------------------------------------------------------------------------
Reads(c) == c.files = <<>> \/ Contains(c.files, "-")
Stops(c) == ~Reads(c) \/ c.name = "head" \/ {"q", "m", "l", "L"} \cap c.flags # {}
(* The last stage is a function with the name of a builtin filter.         *)
Shadowed == P!pipeline_filter_prepare_chain(input) /\ "function" \in Last(input).flags

(* A pipeline whose stages are chained writes what it would write with     *)
(* processes and pipes, however its input arrives, wherever it is cut into *)
(* operands and whichever stages cannot be chained.  Not asked where a     *)
(* grep -c or -L meets an operand without a line, which it passes over.    *)
PipesRight ==
  part = "pipes" /\ input # <<>> =>
    LET m == PipeMeant(input, chunks) IN ~Shadowed /\ ~m.lineless => RunPipe(input, chunks).out = m.out

(* The same of a pipeline ending in a function.                            *)
FunctionFed ==
  part = "pipes" /\ input # <<>> => LET m == PipeMeant(input, chunks) IN ~m.lineless => RunPipe(input, chunks).out = m.out

(* With pipefail its status is that of the last stage that failed, as long *)
(* as every stage behind it reads to the end.                              *)
PipefailRight ==
  part = "pipes" /\ input # <<>> =>
    LET m == PipeMeant(input, chunks)
    IN  ~Shadowed /\ ~m.lineless /\ (\A k \in 2..Len(input) : ~Stops(input[k])) => RunPipe(input, chunks).status = m.status
(* A chain of filters inside the shell cannot be told from processes: what *)
(* it writes and what it returns (eval_pipeline, filter_run).              *)
PipesMean == PipesRight /\ PipefailRight
=============================================================================
