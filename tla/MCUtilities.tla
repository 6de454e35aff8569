---------------------------- MODULE MCUtilities -----------------------------
(* Utilities with the tools' own operators in the place of its constant    *)
(* operators, and values for the other constants.                          *)
EXTENDS Integers, SequencesExt, TLC

CONSTANTS Parts, Vocabulary, MaxUnits, Forms, Seed, Stem, MaxForms, ReFlags, ReAlphabet, Subjects, ReSteps,
          SedAlphabet, Regexes, Files, Inputs, SED_MAXNEST, MaxSedSteps, DFA_MAXDUP, ListWidths, AwkNames, AwkNumbers, AwkStrings,
          FileText, RawSize, Units, MaxText, MaxStages, FileNames, Contents, ArgLists, BufLines, StreamCap, MaxReads, MaxPrints,
          RecordTexts, Blank, FieldValues, Separators, MaxNF, Careful,
          Compile(_, _), Search(_, _), Submatch(_, _, _), Replace(_, _, _, _, _), ReMeant(_, _), AllMatches(_, _, _), ParseSed(_), RunSed(_, _, _), SedMeant(_, _, _),
          ParseAwk(_), ShowAwk(_), AwkText(_), RunPipe(_, _), PipeMeant(_, _)
VARIABLES part, input, grown, mode, chunks,
          argv, disk, slot, nstreams, cur_open, cur_argi, any_input_used, assigned,
          nr, fnr, taken, main, skipped, unwind, reads, prints,
          line, f, nf, NF, split_done, dirty, FS, OFS, got

U == INSTANCE Utilities
R == INSTANCE Regex WITH Alphabet <- ReAlphabet, DFA_MAXSTEPS <- ReSteps
S == INSTANCE Sed WITH Alphabet <- SedAlphabet, DFA_MAXSTEPS <- ReSteps
W == INSTANCE AwkParse
P == INSTANCE Filters

MCCompile(pat, flags) == R!dfa_compile(pat, flags)
MCSearch(d, s) == R!dfa_search(d, s, 1)
MCSubmatch(d, s, m) == R!dfa_submatch(d, s, m)
MCReplace(d, to, s, nth, global) == R!dfa_replace(d, to, s, nth, global)
MCReMeant(pat, flags) == R!Tree(pat, flags)
MCAllMatches(t, flags, s) == R!AllFrom(t, flags, s, 1, 0)
MCParseSed(cmds) == S!sed_parse(cmds)
MCRunSed(p, lines, quiet) == S!sed_run(S!sed_state_new(p, lines, quiet))
MCSedMeant(cmds, lines, quiet) == S!Meaning(cmds, lines, quiet)
MCParseAwk(s) == W!awk_parse_program(s)
MCShowAwk(items) == W!ShowAll(items)
MCAwkText(s) == W!Texts(W!Lexed(s, 1, "nl"))
MCRunPipe(cmds, pieces) == P!eval_pipeline(cmds, pieces)
MCPipeMeant(cmds, pieces) == P!PipelineMeans(cmds, FlattenSeq(pieces), <<>>, FALSE)

Spec == U!Spec

(* Regular expressions mean what they say: what compiles, what is found,   *)
(* which groups, and what is replaced (dfa_compile, dfa_search,            *)
(* dfa_submatch, dfa_replace).                                             *)
RegexRight == U!RegexRight

(* sed's scripts and its l command do what they say (sed_run, sed_do_list).*)
SedRight == U!SedRight

(* An awk program that parses has the tree its text says                   *)
(* (awk_parse_program).                                                    *)
AwkParsed == U!AwkParsed

(* getline var < file reads every line of the file, in order, each once,   *)
(* whatever else is opened, read and closed in between.                    *)
EveryLineRead == U!EveryLineRead

(* Whatever an awk program reads, by main input or getline, comes complete *)
(* and in order (awk_next_record, awk_getline, awk_stream_close).          *)
AwkReads == U!AwkReads

(* The record that is split late and put together late is, to a program,   *)
(* the one of AwkRecord.                                                   *)
RecordPromised == U!RecordPromised

(* A chain of filters inside the shell cannot be told from processes: what *)
(* it writes and what it returns (eval_pipeline, filter_run).              *)
PipesMean == U!PipesMean

(* A pipeline that ends in a function writes what processes would write.   *)
FunctionFed == U!FunctionFed

MCParts == {"ere", "bre", "chars", "sed", "list", "awk", "pipes", "streams", "record"}

MCReFlags == [p \in {"ere", "bre", "chars"} |->
                CASE p = "ere" -> {{"ERE"}, {"ERE", "ICASE", "MULTI"}} [] p = "bre" -> {{}, {"NOTBOL"}} [] p = "chars" -> {{}, {"ERE"}}]
Ere == {<<"a", "b">>, <<"a", "a">>, <<"a", "*">>, <<"a", "+">>, <<"a", "?">>, <<"(", "a", ")">>, <<"a", "|", "a">>, <<"b">>, <<".">>, <<"[", "^", "a", "]">>,
        <<"a", "{", "2", "}">>, <<"a", "{", "0", ",", "1", "}">>, <<"a", "{", "1", ",", "}">>, <<"a", "{", "0", "}">>, <<"^", "a">>, <<"a", "$">>,
        <<"\\", "b", "a">>, <<"a", "\\", "1">>}
Bre == {<<"a", "b">>, <<"a", "a">>, <<"a", "*">>, <<"a", "\\", "?">>, <<"\\", "(", "a", "\\", ")">>, <<"a", "\\", "|", "a">>, <<".">>,
        <<"a", "\\", "{", "2", "\\", "}">>, <<"a", "\\", "{", "1", ",", "\\", "}">>, <<"^", "a">>, <<"a", "$">>, <<"a", "\\", "1">>}
Awk == {<<"x", o, "x">> : o \in {"-", "*", "^", "~", "<", ">", ",", "?", "=", "|"}} \cup
  {<<"x", "+", "+">>, <<"+", "+", "x">>, <<"!", "x">>, <<"-", "x">>, <<"$", "x">>, <<"x", "1">>, <<"x", "sp", "x">>, <<"x", "&", "&", "x">>,
   <<"x", "in", "a">>, <<"x", "?", "x", ":", "x">>, <<"(", "x", ")">>, <<"a", "[", "x", "]">>, <<"getline", "x">>, <<"getline", "<", "x">>,
   <<"(", "x", ",", "x", ")", "in", "a">>, <<"print", "x">>, <<"{", "x", ";", "x", "}">>, <<"if", "(", "x", ")", "x", "else", "x">>,
   <<"if", "(", "x", ")", "x">>, <<"while", "(", "x", ")", "x">>, <<"do", "x", "while", "(", "x", ")">>, <<"for", "(", "x", ";", "x", ";", "x", ")", "x">>,
   <<"for", "(", "x", "in", "a", ")", "x">>, <<"exit", "x">>, <<"delete", "a", "[", "x", "]">>, <<"x", "nl", "x">>, <<"print", "x", ",", "x", ">", "x">>,
   <<"length">>, <<"/", "x", "/">>}
MCForms == [p \in {"ere", "bre", "awk"} |-> CASE p = "ere" -> Ere [] p = "bre" -> Bre [] p = "awk" -> Awk]
MCStem == [p \in {"ere", "bre", "awk"} |-> IF p = "awk" THEN "x" ELSE "a"]
MCSeed == [p \in {"ere", "bre", "awk"} |-> IF p = "awk" THEN <<"BEGIN", "{", "x", "}">> ELSE <<"a">>]
MCMaxForms == [p \in {"ere", "bre", "awk"} |-> IF p = "awk" THEN 2 ELSE 3]
MCReAlphabet == {"a", "b", "A", "nl", "sp", "*", "(", ")", "|", "\\", "[", "]", "^", "$", "{", "}", "1", "2", ",", "+", "?"}
MCSubjects == {<<>>, <<"b", "a">>, <<"a", "a", "b">>, <<"a", "nl", "a">>, <<"A", "sp", "a", "a">>, <<"a", "a", "a", "a">>, <<"b", "a", "a", "b", "a">>}

A == <<"a">>
NoAddr == S!NoAddr
C(l, a1, a2, neg, arg) == S!Cmd(l, a1, a2, neg, arg)
C1(l, a1, arg) == C(l, a1, NoAddr, FALSE, arg)
None == S!NoArg
MCSed ==
  {C1(l, NoAddr, None) : l \in {"}", "D", "N", "G", "x", "n"}} \cup
  {C1("{", S!Line(2), None), C("N", S!LastLine, NoAddr, TRUE, None), C("p", S!Line(0), S!Rx(A), FALSE, None), C("p", S!Rx(A), S!Line(2), FALSE, None),
   C("d", S!Line(1), S!Rx(<<>>), FALSE, None), C("c", S!Line(1), S!Line(2), FALSE, [None EXCEPT !.text = <<"X">>]),
   C1("a", S!Rx(A), [None EXCEPT !.text = <<"Y">>]), C1(":", NoAddr, [None EXCEPT !.name = "L"]), C1("t", NoAddr, [None EXCEPT !.name = "L"]),
   C1("b", S!LastLine, None), C1("s", NoAddr, [None EXCEPT !.re = A, !.to = <<"b">>]),
   C1("s", NoAddr, [None EXCEPT !.to = <<"&", "c">>, !.name = "F", !.print = TRUE]), C1("q", S!Line(2), [None EXCEPT !.n = 3]),
   C("p", S!Step(1, 2), S!Mult(2), TRUE, None), C1("y", NoAddr, [None EXCEPT !.re = A, !.to = <<"b">>]), C1("r", S!Rx(A), [None EXCEPT !.name = "F"])}
MCSedAlphabet == {"a", "b", "nl"}
MCRegexes == {A}
MCFiles == [n \in {"F"} |-> <<"f", "nl">>]
MCInputs == {<<>>, <<[t |-> A, nl |-> FALSE]>>, <<[t |-> A, nl |-> TRUE], [t |-> <<"b">>, nl |-> TRUE], [t |-> A, nl |-> TRUE]>>}

MCFileText == [f |-> <<"a", "nl", "b", "nl">>, g |-> <<"b", "nl", "a", "nl">>, e |-> <<>>, u |-> <<"a">>]
K(name, flags, n, files) == P!Command(name, flags, n, files)
MCPipes ==
  {K("cat", {}, 0, <<"u", "-", "f">>), K("cat", {"n", "E"}, 0, <<"-", "x">>), K("cat", {"s"}, 0, <<>>), K("cat", {"b"}, 0, <<"f">>),
   K("head", {}, 1, <<>>), K("head", {"neg"}, 1, <<>>), K("head", {"c"}, 2, <<>>), K("head", {}, 1, <<"f", "e", "-">>), K("head", {"neg"}, 1, <<"f", "e", "-">>),
   K("tail", {}, 1, <<>>), K("tail", {"plus"}, 2, <<>>), K("tail", {"c", "plus"}, 2, <<>>), K("tail", {"c"}, 1, <<>>), K("tail", {}, 1, <<"u", "e", "x", "-">>),
   K("tail", {"plus"}, 2, <<"f", "e", "-">>), K("uniq", {}, 0, <<>>), K("uniq", {"c"}, 0, <<>>), K("uniq", {"d"}, 0, <<>>), K("uniq", {"u"}, 0, <<"-">>),
   K("cut", {}, 2, <<>>), K("cut", {"s", "to"}, 2, <<"u", "-">>), K("grep", {"n"}, 0, <<>>), K("grep", {"v", "m"}, 1, <<>>), K("grep", {"c"}, 0, <<"f", "-">>),
   K("grep", {"n"}, 0, <<"f", "g">>), K("grep", {"l"}, 0, <<"f", "g", "-">>), K("grep", {"L"}, 0, <<"f", "-">>), K("grep", {"q"}, 0, <<>>),
   K("grep", {"c", "m"}, 1, <<"g", "-">>), K("grep", {"c"}, 0, <<>>), K("cat", {"bad"}, 0, <<>>), K("cat", {"expands"}, 0, <<>>),
   K("cat", {"redirected"}, 0, <<>>), K("cat", {"program"}, 0, <<>>), K("cat", {"function"}, 0, <<>>)}

MCVocabulary == [p \in {"chars", "sed", "list", "pipes"} |->
  CASE p = "chars" -> {"a", "*", "(", ")", "|", "\\", "[", "]", "^", "$", "{", "}", "1", ",", "+"}
    [] p = "sed" -> MCSed [] p = "list" -> {"a", "nl", "\\", "del"} [] p = "pipes" -> MCPipes]
MCMaxUnits == [p \in {"chars", "sed", "list", "pipes"} |-> CASE p \in {"chars", "sed"} -> 3 [] p = "list" -> 5 [] p = "pipes" -> 4]

MCContents == ("a" :> <<1, 2, 3>>) @@ ("b" :> <<4, 5, 6>>) @@ ("-" :> <<7>>)
Operand(kind, name) == [kind |-> kind, name |-> name]
MCArgLists == {<<Operand("assign", "v"), Operand("file", "b"), Operand("file", "z"), Operand("assign", "w"), Operand("file", "a")>>,
               <<Operand("assign", "v")>>, <<Operand("file", "z")>>}
MCRecordTexts == {<<"a">>, <<",", "a">>, <<"a", " ", " ", "b">>}
MCFieldValues == {<<"b">>}
=============================================================================
