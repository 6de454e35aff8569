----------------------------- MODULE MCLanguage -----------------------------
(* Language with the shell's algorithms in the place of its operators, and *)
(* values for the other constants.                                         *)
EXTENDS Grammar, Expansion

CONSTANTS Vocabulary, Seed, MaxUnits, Forms, Stem, MaxForms, Num, Vars, Width, Worlds, Strings,
          Parse(_), Expand(_, _), ExpandVars(_, _), FieldsMeant(_, _), ValuesMeant(_, _, _), Agree(_, _),
          ArithTree(_), ArithMeant(_), Climb(_, _)
VARIABLES part, input, grown

L == INSTANCE Language
A == INSTANCE Arithmetic
Spec == L!Spec

(* Parsing and printing keep a script: nothing that was written is dropped *)
(* by the parser, nothing that was parsed is changed by the printer.       *)
ScriptsKept == L!ScriptsKept

(* Wherever a command may begin, its word is looked up as an alias, and    *)
(* nowhere else (parse_gettok, parse_simpletok).                           *)
AliasesReplaced == L!AliasesReplaced

(* path_fnmatch() accepts a string exactly when the pattern means it.      *)
PatternsMatch == L!PatternsMatch

(* Words expand to what POSIX says: fields, tildes and, before them, braces*)
(* (expand_args, expand_vars, expand_brace).                               *)
WordsRight == L!WordsRight

(* $(( )) computes what C does wherever it groups as C does, and groups    *)
(* so exactly when the operators climb (parse_arith, expand_arith).        *)
ArithRight == L!ArithRight

MCTree(s) == A!parse_arith(s)
MCCTree(s) == A!CTree(s)
MCClimb(n, prec) == A!Climbs(n, prec)

MCNames == {"a", "x", "ll", "sudo", "rec", "time"}
MCWords == {"-w"}
MCAssigns == {"v=1"}
MCRedirs == {">f"}
MCDelim == [t \in {"<<E", "<<F"} |-> IF t = "<<E" THEN "E" ELSE "F"]
MCAliases == [t \in {"ll", "sudo", "rec"} |->
  [text |-> CASE t = "ll" -> <<"a", "-w">> [] t = "sudo" -> <<"a">> [] t = "rec" -> <<"rec", "ll">>, blank |-> t = "sudo"]]
P(n, o, w) == [name |-> n, op |-> o, colon |-> FALSE, word |-> w]
MCParams == [u \in {"$x", "${x+", "${u-", "${u=", "${x%", "$@", "$*", "$()"} |->
  CASE u = "$x" -> P("x", "", FALSE) [] u = "${x+" -> P("x", "+", TRUE) [] u = "${u-" -> P("u", "-", TRUE) [] u = "${u=" -> P("u", "=", TRUE)
    [] u = "${x%" -> P("x", "%", TRUE) [] u = "$@" -> P("@", "", FALSE) [] u = "$*" -> P("*", "", FALSE) [] u = "$()" -> P("x", "", FALSE)]
World(x, args, ifs, noglob) ==
  [var |-> [n \in {"x", "u"} |-> IF n = "x" THEN [set |-> TRUE, val |-> x] ELSE [set |-> FALSE, val |-> <<>>]], args |-> args, ifs |-> ifs,
   noglob |-> noglob, files |-> <<<<"a">>, <<"a", "b">>>>, out |-> x,
   home |-> [n \in {<<>>, <<"a">>} |-> IF n = <<>> THEN <<"/", "*">> ELSE <<"a", "sp", "b">>]]
MCWorlds == {World(<<"a", "sp", "b">>, <<>>, <<"sp">>, TRUE), World(<<"sp", "a">>, <<<<"a">>, <<>>>>, <<"sp">>, TRUE),
  World(<<"a", ":", "sp", ":">>, <<<<"a", "sp", "b">>, <<"b">>>>, <<":", "sp">>, TRUE), World(<<"\\", "*">>, <<<<"*">>, <<"\\">>>>, <<>>, TRUE),
  World(<<"*">>, <<<<"a">>, <<"*">>>>, <<"sp">>, FALSE), World(<<>>, <<<<>>, <<"b">>>>, <<"sp">>, FALSE)}
MCStrings == UNION {[1..n -> {"a", "b", "-", "]"}] : n \in 0..2}
MCNum == [u \in {"0", "1", "2"} |-> CASE u = "0" -> 0 [] u = "1" -> 1 [] u = "2" -> 2]
MCVocabulary == [
  tokens |-> Operators \cup Keywords \cup {"a", ">f", "v=1", "<<E"},
  patterns |-> {"a", "*", "[", "]", "!", "-", "\\", "b", "?"},
  classes |-> {"[", "]", ":", "alpha", ".", "-", "a", "b"},
  words |-> {"a", "sp", "qq", "apos", "\\", "*", "}"} \cup DOMAIN MCParams,
  tildes |-> {"~", "a", "/", ":", "qq", "\\", "$x"},
  braces |-> {"{", "}", ",", "a"}]
MCSeed == [p \in DOMAIN MCVocabulary |-> IF p = "classes" THEN <<"[", "[">> ELSE <<>>]
MCMaxUnits == [p \in DOMAIN MCVocabulary |-> CASE p = "braces" -> 7 [] p = "classes" -> 5 [] OTHER -> 4]
MCForms == [
  scripts |-> {<<"a", ";", "a">>, <<"a", "&">>, <<"a", "nl", "a">>, <<"a", "&&", "a">>, <<"a", "|", "a">>, <<"!", "a">>,
     <<"time", "a">>, <<"v=1", "a", "-w">>, <<"a", "if">>,
     <<"(", "a", ")">>, <<"{", "a", ";", "}">>, <<"{", "a", "nl", "}", ">f">>,
     <<"if", "a", ";", "then", "a", ";", "fi">>, <<"if", "a", ";", "then", "a", ";", "else", "a", ";", "fi">>,
     <<"while", "a", ";", "do", "a", ";", "done">>, <<"for", "x", "in", "-w", ";", "do", "a", ";", "done">>, <<"for", "x", "do", "a", ";", "done", ">f">>,
     <<"case", "x", "in", "x", ")", "a", ";;", "esac">>, <<"case", "x", "in", "(", "x", "|", "-w", ")", "a", ";;", "-w", ")", "esac">>,
     <<"x", "(", ")", "{", "a", ";", "}">>},
  docs |-> {<<"a", ";", "a">>, <<"a", "|", "a">>, <<"a", "<<E", "nl", "-w", "E">>, <<"a", "<<E", ";", "a", "<<F", "nl", "E", "-w", "F">>,
     <<"(", "a", ")">>, <<"{", "a", ";", "}">>, <<"if", "a", ";", "then", "a", ";", "fi">>,
     <<"while", "a", ";", "do", "a", ";", "done">>, <<"for", "x", "do", "a", ";", "done">>},
  aliases |-> {<<"ll">>, <<"sudo", "ll">>, <<"sudo", "sudo", "x", "ll">>, <<"rec">>, <<"a", ";", "ll">>, <<"v=1", ">f", "ll">>, <<"!", "a">>, <<"(", "a", ")">>,
     <<"{", "a", ";", "}">>, <<"if", "a", ";", "then", "a", ";", "fi">>, <<"x", "(", ")", "{", "a", ";", "}">>,
     <<"while", "a", ";", "do", "a", ";", "done">>, <<"for", "ll", "in", "ll", ";", "do", "a", ";", "done">>, <<"a", "&&", "nl", "a">>,
     <<"case", "x", "in", "ll", ")", "a", ";;", "ll", "|", "ll", ")", "a", ";;", "esac">>},
  arith |-> {<<"1", o, "1">> : o \in {"-", "*", "/", "<", "&", "|"}} \cup {<<"1", "<", "<", "1">>, <<"1", "=", "=", "1">>, <<"1", "&", "&", "1">>, <<"1", "|", "|", "1">>,
     <<"-", "1">>, <<"!", "1">>, <<"(", "1", ")">>, <<"1", "?", "1", ":", "1">>, <<"x", "=", "1">>, <<"x", "*", "=", "1">>, <<"x", "/", "=", "1">>,
     <<"+", "+", "x">>, <<"x", "-", "-">>, <<"2">>, <<"0">>, <<"x">>, <<"sp", "1">>}]
MCStem == [p \in DOMAIN MCForms |-> IF p = "arith" THEN "1" ELSE "a"]
MCMaxForms == [p \in DOMAIN MCForms |-> 3]
=============================================================================
