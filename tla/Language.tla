------------------------------ MODULE Language ------------------------------
(***************************************************************************)
(* The parts of the shell that turn text into something else, each checked *)
(* on every input up to a bound: the grammar and its printer, patterns,    *)
(* words and their expansion, arithmetic.  An input grows in two ways:     *)
(* unit by unit from a seed, a script only while it may still become one,  *)
(* and by replacing its stem by one of the forms it may have.              *)
(***************************************************************************)
EXTENDS Grammar, Expansion

CONSTANTS Vocabulary, Seed, MaxUnits,   \* part -> units, first input, bound
          Forms, Stem, MaxForms,        \* part -> forms, what they replace, bound
          Num, Vars, Width,
          Worlds, Strings,
          Parse(_),                     \* sh_loop
          Expand(_, _), ExpandVars(_, _), \* expand_args, expand_vars
          FieldsMeant(_, _), ValuesMeant(_, _, _),     \* what they should give: LineFields, AssignMeans
          Agree(_, _),                  \* and where the two are compared: Agreed
          ArithTree(_), ArithMeant(_), Climb(_, _)     \* parse_arith, C's tree of the text, Climbs

A == INSTANCE Arithmetic

VARIABLES part, input, grown
langVars == <<part, input, grown>>

Init == \/ part \in DOMAIN Vocabulary /\ input = Seed[part] /\ grown = 0
        \/ part \in DOMAIN Forms /\ input = <<Stem[part]>> /\ grown = 0

Viable(s) == LET r == Parse(s).p IN ~r.err \/ r.cut
Type(t) ==
  /\ grown < MaxUnits[part]
  /\ grown' = grown + 1
  /\ part = "tokens" => Viable(Append(input, t))
  /\ input' = Append(input, t)
  /\ UNCHANGED part
Derive(i, f) ==
  /\ grown < MaxForms[part]
  /\ input[i] = Stem[part]
  /\ grown' = grown + 1
  /\ input' = SubSeq(input, 1, i - 1) \o f \o SubSeq(input, i + 1, Len(input))
  /\ UNCHANGED part
Next == \/ part \in DOMAIN Vocabulary /\ \E t \in Vocabulary[part] : Type(t)
        \/ part \in DOMAIN Forms /\ \E f \in Forms[part] : \E i \in DOMAIN input : Derive(i, f)
Spec == Init /\ [][Next]_langVars

Printable(n) ==
  /\ \A j \in DOMAIN n.c : \A i \in 1..Len(n.c[j]) - 1 : n.c[j][i].k = "list" => ~LastBgnd(<<n.c[j][i]>>)
  /\ n.k \in {"if", "while", "until"} => n.c[1] # <<>> /\ n.c[2] # <<>> /\ ~LastBgnd(n.c[1])
  /\ n.k \in {"for", "forin"} => n.c[1] # <<>>
  /\ n.k = "fun" => ~n.bg /\ n.c[1][1].k # "cmd"
  /\ n.k = "if" /\ Len(n.c[3]) = 1 /\ n.c[3][1].k = "if" => n.rd = <<>> /\ n.c[3][1].rd = <<>> /\ ~n.c[3][1].bg
Script == part \in {"tokens", "scripts", "docs"}

(* A script printed from its tree is the same script: a job's command line,*)
(* a function shown by set or type and the output of the formatter mean    *)
(* what was parsed, here-documents included.                               *)
RoundTrip ==
  LET r == Parse(input)
  IN  Script => r.p.err \/ \A i \in DOMAIN r.n :
        LET q == Parse(tree_cat(r.n[i], r.p.doc))
        IN  (\A x \in NodesOf(<<r.n[i]>>) : Printable(x)) =>
            ~q.p.err /\ Meaning(q.n, q.p.doc) = Meaning(<<r.n[i]>>, r.p.doc)

(* Every word, assignment and redirection of a script that parses is in    *)
(* its tree, as often as it was written; here-document lines are in a body.*)
RECURSIVE Leaves(_)
Leaves(list) ==
  FlattenSeq([i \in DOMAIN list |-> FlattenSeq(list[i].s) \o [j \in DOMAIN list[i].rd |-> list[i].rd[j].t]
                                    \o FlattenSeq([j \in DOMAIN list[i].c |-> Leaves(list[i].c[j])])])
Occurs(t, s) == Cardinality({i \in DOMAIN s : s[i] = t})
NothingDropped ==
  LET r == Parse(input)
      kept == Leaves(r.n) \o FlattenSeq(r.p.doc)
  IN  Script => r.p.err \/ (\E x \in NodesOf(r.n) : x.k = "fun" /\ x.c[1][1].k = "cmd")
      \/ \A t \in (Names \ {"time"}) \cup Words \cup Assigns \cup Redirs \cup DOMAIN Delim : Occurs(t, input) = Occurs(t, kept)

(* Parsing and printing keep a script: nothing that was written is dropped *)
(* by the parser, nothing that was parsed is changed by the printer.       *)
ScriptsKept == RoundTrip /\ NothingDropped

(* Wherever a command may begin, its word is looked up as an alias: after  *)
(* operators, keywords, assignments and redirections, and after a word     *)
(* that was an alias ending in a blank.  Only a name that its own text     *)
(* leads back to may stay; patterns and loop variables are left alone.     *)
Leads(t) == LET once(T) == T \cup UNION {ToSet(Aliases[u].text) \cap DOMAIN Aliases : u \in T}
            IN  once(once(ToSet(Aliases[t].text) \cap DOMAIN Aliases))
AliasesReplaced ==
  LET r == Parse(input)
      ns == NodesOf(r.n)
  IN  part = "aliases" => r.p.err \/
        /\ \A n \in ns : n.k = "cmd" /\ n.s[2] # <<>> /\ n.s[2][1] \in DOMAIN Aliases => n.s[2][1] \in Leads(n.s[2][1])
        /\ Occurs("for", input) = 0 /\ Occurs("case", input) = 0 /\ Occurs("x", input) = 0 =>
             \A n \in ns : \A j \in DOMAIN n.s : \A i \in DOMAIN n.s[j] : n.s[j][i] = "ll" => Occurs("rec", input) > 0
        /\ \A n \in ns : n.k \in {"item", "forin"} => \A j \in DOMAIN n.s : \A i \in DOMAIN n.s[j] : n.s[j][i] # "a"

(* path_fnmatch(), which case, ${x%p} and find match with, goes through    *)
(* pattern and string once with one place to fall back to; it accepts what *)
(* the pattern means, and never what it does not.                          *)
PatternsMatch == part \in {"patterns", "classes"} /\ Plain(input) => \A s \in Strings : path_fnmatch(input, s) = Means(input, s)

(* A command line becomes the fields POSIX says it becomes: quotes removed *)
(* only where they were written, expansions split and globbed only outside *)
(* quotes, an empty quoted word kept, "$@" one field per parameter.  The   *)
(* code decides this piece by piece with escapes and flags that outlive    *)
(* the piece they came with.                                               *)
FieldsRight ==
  LET l == LineWords(input)
  IN  part = "words" /\ l.ok => \A w \in Worlds : Agree(input, w) => Expand(l.words, w).v = FieldsMeant(input, w)

(* A tilde is a home directory exactly at the start of a word or, in an    *)
(* assignment, after = and unquoted colons; what is quoted or escaped in   *)
(* the prefix keeps it as it is, and a home directory is never a pattern.  *)
TildesRight ==
  LET v == <<"v", "=">>
      l == LineWords(v \o input)
      w == LineWords(input)
      escaped == \E i \in 1..Len(input) - 1 : input[i] = "\\" /\ input[i + 1] = ":"
  IN  part = "tildes" => \A x \in Worlds :
        /\ l.ok /\ ~escaped => ExpandVars(l.words, x).v = ValuesMeant(v, input, x)
        /\ w.ok /\ Agree(input, x) => Expand(w.words, x).v = FieldsMeant(input, x)

(* Brace expansion makes every combination of the alternatives, in order.  *)
BracesRight == part = "braces" /\ Flat(input) => expand_brace_text(input) = BraceWords(input)

(* Words expand to what POSIX says: fields, tildes and, before them, braces*)
(* (expand_args, expand_vars, expand_brace).                               *)
WordsRight == FieldsRight /\ TildesRight /\ BracesRight

(* An arithmetic expression is grouped as C groups it as long as its       *)
(* operators climb (Climbs), and only then; then its value, its errors and *)
(* the variables it assigns are what C computes, in Width bits.            *)
Start == [v \in Vars |-> 3]
ArithGrouped ==
  LET n == ArithTree(input)
      c == ArithMeant(input)
  IN  part = "arith" /\ c # A!Null /\ A!Kinds(c) \cap {"postincr", "postdecr"} = {} => (n = c <=> Climb(c, A!ARITH_PREC_TOP))
ArithValue ==
  LET n == ArithTree(input)
      got == A!expand_arith(n, Start)
  IN  part = "arith" /\ n # A!Null /\ n = ArithMeant(input) =>
        got = A!CValue(n, Start) \/ ("set" \in A!Kinds(n) /\ A!CValue(n, Start).st = "err")
(* $(( )) computes what C does wherever it groups as C does, and groups    *)
(* so exactly when the operators climb (parse_arith, expand_arith).        *)
ArithRight == ArithGrouped /\ ArithValue
=============================================================================
