----------------------------- MODULE MCSession -----------------------------
(***************************************************************************)
(* Scripts for Session.  Words, lines and blocks are written down as what  *)
(* they mean and rendered to text in several layouts, so that what runs    *)
(* can be compared with what was written.  The habits are ways of writing  *)
(* that the program does not read as they are meant.                       *)
(***************************************************************************)
EXTENDS Session, Blocks

CONSTANT Habits \* which habits the scripts have

MCSymbols == STRING
MCVariables == (<<"HOME">> :> <<"/", "root">>) @@ (<<"x">> :> <<"X">>)
MCDirectory == (<<"*">> :> <<<<"f1">>, <<"f2">>>>)
MCTestFiles == {<<"-f", <<"a">>>>, <<"-e", <<"a">>>>, <<"-e", <<"1">>>>, <<"-d", <<"1">>>>}
MCDefaults == <<<<<<"ll">>, <<"echo", " ", "l">>>>>>
MCBuiltins == {<<w>> : w \in {"alias", "unalias", "type", "source", "test", "[", "cd"}}
MCPrograms == {<<w>> : w \in {"echo", "true", "false", "e"}}

Script(lines, files, means, test) ==
    [lines |-> lines, files |-> files, means |-> means, test |-> test]
OneLine(line, means) == Script(<<line>>, <<>>, means, None)

-----------------------------------------------------------------------------
(* Words: a text and the words that it means.                              *)

Piece(text, words) == [text |-> text, words |-> words]
DQ == "\""

PlainPieces == {
    Piece(<<"a">>, <<<<"a">>>>),
    Piece(<<"a", "2">>, <<<<"a", "2">>>>),
    Piece(<<"*">>, <<<<"f1">>, <<"f2">>>>),
    Piece(<<"~">>, <<<<"/", "root">>>>),
    Piece(<<"$", "x">>, <<<<"X">>>>),
    Piece(<<"$", "{", "x", "}", "b">>, <<<<"X", "b">>>>),
    Piece(<<"$", "?">>, <<<<"0">>>>),
    Piece(<<"a", "\\", " ", "b">>, <<<<"a", " ", "b">>>>),
    Piece(<<"a", "\\", "|", "b">>, <<<<"a", "|", "b">>>>),
    Piece(<<"$", "(", "e", " ", "a", ";", "$", "(", "b", " ", "&", "&", " ", "c", ")", ")">>,
          <<Output(<<"e", " ", "a", ";", "$", "(", "b", " ", "&", "&", " ", "c", ")">>)>>),
    Piece(<<"$", "(", "e", " ", "'", ")", "'", ")">>, <<Output(<<"e", " ", "'", ")", "'">>)>>),
    Piece(<<Backquote, "e", " ", "|", "|", "a", Backquote>>,
          <<Output(<<"e", " ", "|", "|", "a">>)>>)}

QuotedPieces == {
    Piece(<<DQ, DQ>>, <<<<>>>>),
    Piece(<<"'", "a", " ", ";", "$", "x", "&", "&", "'">>,
          <<<<"a", " ", ";", "$", "x", "&", "&">>>>),
    Piece(<<DQ, "$", "x", "|", "|", "'", DQ>>, <<<<"X", "|", "|", "'">>>>),
    Piece(<<DQ, "\\", "$", "x", ">", "f", DQ>>, <<<<"$", "x", ">", "f">>>>),
    Piece(<<DQ, "a", "\\", DQ, "#", "\\", DQ, DQ>>, <<<<"a", DQ, "#", DQ>>>>),
    Piece(<<DQ, "$", "(", "e", ";", "a", ")", "b", DQ>>, <<Output(<<"e", ";", "a">>) \o <<"b">>>>),
    Piece(<<"'", "~", "'">>, <<<<"~">>>>)}

HabitPieces ==
    (IF "quoted glob" \in Habits THEN {Piece(<<"'", "*", "'">>, <<<<"*">>>>)} ELSE {})
    \cup (IF "escaped operator" \in Habits THEN {Piece(<<"\\", "|">>, <<<<"|">>>>)} ELSE {})
    \cup (IF "quote in substitution in quotes" \in Habits
          THEN {Piece(<<DQ, "$", "(", "e", " ", DQ, "a", ";", DQ, ")", DQ>>,
                      <<Output(<<"e", " ", DQ, "a", ";", DQ>>)>>)} ELSE {})

Pieces2 == PlainPieces \cup QuotedPieces \cup HabitPieces

\* Two pieces side by side make one word of the last and the first of their words.
Beside(p, q) ==
    Piece(p.text \o q.text,
          Front(p.words) \o <<Last(p.words) \o Head(q.words)>> \o Tail(q.words))
Apart(p, q) == Piece(p.text \o <<" ">> \o q.text, p.words \o q.words)

Bare(w) == Piece(<<w>>, <<<<w>>>>)
Command(p) == [text |-> p.text, cmd |-> [NoCommand EXCEPT !.argv = p.words]]

\* Redirections: what is written behind a command, and what it does to it.
Behind(c, text, cmd) == [text |-> c.text \o text, cmd |-> cmd]
Redirections(c) == {
    Behind(c, <<" ", ">", " ", "f">>, [c.cmd EXCEPT !.outfile = <<"f">>]),
    Behind(c, <<">", ">", "f">>, [c.cmd EXCEPT !.outfile = <<"f">>, !.append = TRUE]),
    Behind(c, <<" ", "2", ">", "f">>, [c.cmd EXCEPT !.errfile = <<"f">>]),
    Behind(c, <<" ", "2", ">", ">", " ", "'", ";", "'">>,
           [c.cmd EXCEPT !.errfile = <<";">>, !.err_append = TRUE]),
    Behind(c, <<" ", "2", ">", "&", "1", " ", "<", "i">>,
           [c.cmd EXCEPT !.dup = <<"2", "1">>, !.infile = <<"i">>]),
    Behind(c, <<" ", ">", ">", "g", " ", "1", ">", "$", "x">>, [c.cmd EXCEPT !.outfile = <<"X">>]),
    Behind(c, <<" ", "#", " ", "a", ">", "b">>, c.cmd)}

Pipe(cmds) == [cmds |-> cmds, background |-> FALSE, bad |-> FALSE]
StatusOf(cmd) == IF cmd.argv = <<<<"false">>>> THEN 1 ELSE 0
Runs(cmds) == Did("program", Pipe(cmds), StatusOf(Last(cmds)))

CommandLines ==
    LET Echo(p) == Command(Apart(Bare("echo"), p))
        \* ~a, a*, $xa mean something else
        abut == {p \in Pieces2 : p.text \notin {<<"~">>, <<"*">>, <<"$", "x">>}}
        words == {Echo(Apart(p, q)) : p \in Pieces2, q \in Pieces2}
                 \cup {Echo(Beside(p, q)) : p \in abut,
                                             q \in {r \in Pieces2 : r.text # <<"~">> /\ r.text # <<"*">>}}
        redirected == UNION {Redirections(Echo(p)) : p \in Pieces2}
    IN  {OneLine(c.text, <<Runs(<<c.cmd>>)>>) : c \in words \cup redirected}
        \cup {OneLine(<<"echo", " ">> \o p.text \o <<" ", "&">>,
                      <<[Runs(<<[NoCommand EXCEPT !.argv = <<<<"echo">>>> \o p.words]>>)
                            EXCEPT !.pipeline.background = TRUE]>>) : p \in Pieces2}

\* Three commands that && || ; or | join, tight or with blanks.
ChainLines ==
    LET commands == {Command(Bare("true")), Command(Bare("false")),
                     Command(Apart(Bare("echo"), Piece(<<"'", ";", "'">>, <<<<";">>>>)))}
        joins == {<<"&", "&">>, <<"|", "|">>, <<";">>, <<"|">>}
        Loose(j, loose) == IF loose THEN <<" ">> \o j \o <<" ">> ELSE j
        Text(a, i, b, j, c, loose) ==
            a.text \o Loose(i, loose) \o b.text \o Loose(j, loose) \o c.text
        \* the pipelines, and what joins each to the one before
        Joined3(a, i, b, j, c) ==
            CASE i = <<"|">> /\ j = <<"|">> -> <<<<<<";">>, <<a.cmd, b.cmd, c.cmd>>>>>>
              [] i = <<"|">> /\ j # <<"|">> -> <<<<<<";">>, <<a.cmd, b.cmd>>>>, <<j, <<c.cmd>>>>>>
              [] i # <<"|">> /\ j = <<"|">> -> <<<<<<";">>, <<a.cmd>>>>, <<i, <<b.cmd, c.cmd>>>>>>
              [] OTHER -> <<<<<<";">>, <<a.cmd>>>>, <<i, <<b.cmd>>>>, <<j, <<c.cmd>>>>>>
        \* those that run
        Run(pipelines) ==
            FoldLeft(LAMBDA r, p :
                         LET status == IF r = <<>> THEN 0 ELSE Last(r).status
                         IN  IF \/ p[1] = <<"&", "&">> /\ status # 0
                                \/ p[1] = <<"|", "|">> /\ status = 0
                             THEN r ELSE Append(r, Runs(p[2])),
                     <<>>, pipelines)
    IN  {OneLine(Text(a, i, b, j, c, loose), Run(Joined3(a, i, b, j, c))) :
            a \in commands, b \in commands, c \in commands,
            i \in joins, j \in joins, loose \in BOOLEAN}

-----------------------------------------------------------------------------
(* Blocks: trees rendered in a layout.  A layout says what stands before a *)
(* keyword, what after it, and how a line in the block is indented.        *)

Layouts == {
    [before |-> <<";", " ">>, after |-> <<" ">>, indent |-> <<>>],
    [before |-> <<"nl">>, after |-> <<"nl">>, indent |-> <<" ">>],
    [before |-> <<" ", ";">>, after |-> <<"nl">>, indent |-> <<" ">>]}

\* A written statement: what runs, and its text in a layout.  In the text "KW"
\* and "GO" stand for what the layout puts before and after a keyword, "IN" for
\* the indentation of a line.
Statement(tree, text) == [tree |-> tree, text |-> text]

Line(c) == Statement([do |-> "line", parts |-> <<[pipeline |-> Pipe(<<c.cmd>>), after |-> ";"]>>],
                     c.text)

\* Several statements; a line ends at a newline, a block also at a ;.
TextOf(list) ==
    FlattenSeq([i \in DOMAIN list |->
        IF i = Len(list) THEN list[i].text
        ELSE list[i].text \o (IF list[i].tree.do = "line" THEN <<"nl", "IN">> ELSE <<"KW">>)])
TreesOf(list) == [i \in DOMAIN list |-> list[i].tree]

\* A block as Tree has it; conditions, patterns and bodies of its clauses.
Block(opener, head, clauses) == [do |-> opener, head |-> head, clauses |-> clauses]
Clause(cond, body) == [cond |-> TreesOf(cond), patterns |-> <<>>, body |-> TreesOf(body)]
Then(cond, body) == <<" ">> \o TextOf(cond) \o <<"KW", "then", "GO">> \o TextOf(body) \o <<"KW">>
If(cond, body) ==
    Statement(Block("if", <<>>, <<Clause(cond, body)>>), <<"if">> \o Then(cond, body) \o <<"fi">>)
IfElse(cond, body, other) ==
    Statement(Block("if", <<>>, <<Clause(cond, body), Clause(<<>>, other)>>),
              <<"if">> \o Then(cond, body) \o <<"else", "GO">> \o TextOf(other) \o <<"KW", "fi">>)
IfElif(cond, body, cond2, body2) ==
    Statement(Block("if", <<>>, <<Clause(cond, body), Clause(cond2, body2)>>),
              <<"if">> \o Then(cond, body) \o <<"elif">> \o Then(cond2, body2) \o <<"fi">>)
Do(body) == <<"KW", "do", "GO">> \o TextOf(body) \o <<"KW", "done">>
Loop(opener, cond, body) ==
    Statement(Block(opener, <<>>, <<Clause(cond, body)>>), <<opener, " ">> \o TextOf(cond) \o Do(body))
For(words, body) ==
    Statement(Block("for", <<"v">>, <<[Clause(<<>>, body) EXCEPT !.cond = words.words]>>),
              <<"for", " ", "v", " ", "in", " ">> \o words.text \o Do(body))
Case(body, body2) ==
    Statement(Block("case", <<"X">>,
                    <<[Clause(<<>>, body) EXCEPT !.patterns = <<<<"a">>, <<"*">>>>],
                      [Clause(<<>>, body2) EXCEPT !.patterns = <<<<"X">>>>]>>),
              <<"case", " ", "$", "x", " ", "in", "GO", "a", " ", "|", "*", ")", " ">>
                  \o TextOf(body) \o <<" ", ";", ";", "GO", "(", "$", "x", ")", "GO">>
                  \o TextOf(body2) \o <<"KW", "esac">>)

\* The lines of a text in a layout: as many as it has newlines.
RECURSIVE Laid(_, _), LinesOf(_)
Laid(text, layout) ==
    IF text = <<>> THEN <<>>
    ELSE (CASE Head(text) = "KW" -> layout.before
            [] Head(text) = "GO" -> layout.after \o layout.indent
            [] Head(text) = "IN" -> layout.indent
            [] OTHER -> <<Head(text)>>) \o Laid(Tail(text), layout)
LinesOf(text) ==
    LET nl == NextOf(text, 1, Len(text) + 1, {"nl"})
    IN  IF nl = 0 THEN <<text>>
        ELSE <<SubSeq(text, 1, nl - 1)>> \o LinesOf(SubSeq(text, nl + 1, Len(text)))

\* Lines in blocks: a keyword, a ; or a newline in them is quoted.
EchoLine(p) == Line(Command(Apart(Bare("echo"), p)))
A == EchoLine(Piece(<<"'", "done", "'">>, <<<<"done">>>>))
B == EchoLine(Piece(<<DQ, "then", ";", " ", "fi", " ", ";", ";", DQ>>,
                    <<<<"then", ";", " ", "fi", " ", ";", ";">>>>))
C == EchoLine(Piece(<<"'", "a", "nl", "esac", "'">>, <<<<"a", "nl", "esac">>>>))
T == Line(Command(Bare("true")))
ForPieces == {Piece(<<"a", " ", "*">>, <<<<"a">>, <<"f1">>, <<"f2">>>>),
              Piece(<<"$", "(", "e", " ", "a", ";", "b", ")", " ", "$", "x">>,
                    <<<<"<out">> \o <<"e">>, <<"a", ";", "b", "out>">>, <<"X">>>>)}

HabitLines ==
    (IF "keyword as argument" \in Habits THEN {EchoLine(Piece(<<"done">>, <<<<"done">>>>))} ELSE {})
    \cup (IF "quote inside a word" \in Habits
          THEN {EchoLine(Piece(<<"a", DQ, "b", " ", "fi", " ", "c", DQ>>,
                           <<<<"a", "b", " ", "fi", " ", "c">>>>))}
          ELSE {})

\* One block of each kind around the lists.
Around(list, other) ==
    {If(list, other), If(other, list), IfElse(other, list, other), IfElse(other, other, list),
     IfElif(other, other, list, other), IfElif(other, list, other, other),
     Loop("while", list, other), Loop("until", other, list), Case(list, other), Case(other, list)}
    \cup {For(w, list) : w \in ForPieces}

Flat == UNION {Around(<<l>>, <<T>>) : l \in {A, B, C} \cup HabitLines}
Inner == Around(<<A>>, <<T>>)
Nested == UNION {Around(list, <<T>>) : list \in UNION {{<<b>>, <<T, b>>, <<b, A>>} : b \in Inner}}

BlockScripts ==
    {LET indented == IF "indented block" \in Habits THEN <<" ">> ELSE <<>>
         behind == IF "text behind a block" \in Habits THEN <<";", " ", "true">> ELSE <<>>
         run == [i \in 1..2 |-> T.tree.parts[1].pipeline]
     IN  Script(LinesOf(indented \o Laid(s.text, layout) \o behind) \o <<<<"true">>>>, <<>>,
                <<RanBlock(s.tree)>> \o (IF behind = <<>> THEN <<>> ELSE <<Did("program", run[1], 0)>>)
                    \o <<Did("program", run[1], 0)>>, None) :
        s \in Flat \cup Nested, layout \in Layouts}

-----------------------------------------------------------------------------
(* Aliases, functions and files.                                           *)

Prog(words) == Did("program", Pipe(<<[NoCommand EXCEPT !.argv = words]>>),
                   StatusOf([NoCommand EXCEPT !.argv = words]))
Built(words) == [Prog(words) EXCEPT !.as = "builtin"]
Begins(as, words) == Did(as, Pipe(<<[NoCommand EXCEPT !.argv = words]>>), Begun)
W(w) == <<w>>
Defines(name, body) == DefinedAs(W(name), body)
AliasG == <<W("alias"), <<"g", "=", "echo", " ", "a">>>>
AliasLine == <<"alias", " ", "g", "=", "'", "echo", " ", "a", "'">>

\* An alias is seen by the next segment of its own line, and until unalias.
AliasScript ==
    Script(<<AliasLine \o <<" ", ";", " ", "g", " ", "b", "&", "&", "unalias", " ", "g", ";", "g">>,
             <<"ll", " ", "|", " ", "ll">>>>, <<>>,
           <<Built(AliasG), Prog(<<W("echo"), W("a"), W("b")>>), Built(<<W("unalias"), W("g")>>),
             [Prog(<<W("g")>>) EXCEPT !.status = 127],
             Did("program", Pipe(<<[NoCommand EXCEPT !.argv = <<W("echo"), W("l")>>],
                                   [NoCommand EXCEPT !.argv = <<W("ll")>>]>>), 127)>>, None)

\* A function in three layouts, that calls another one, defined later, with
\* parameters, and holds a block and braces in quotes.
InFunction == If(<<T>>, <<A>>)
BodyG(layout) ==
    layout.after \o Laid(InFunction.text, layout) \o layout.before
        \o <<"h", " ", "a", " ", "'", "}", "'", " ", "$", "2">> \o layout.before
BodyH(layout) ==
    layout.after \o <<"echo", " ", "$", "2", "$", "1", " ", "$", "#", "|", "|", "g">> \o layout.before
FunctionScript(layout) ==
    LET Lines(name, body) == LinesOf(<<name, "(", ")", " ", "{">> \o body \o <<"}">>)
    IN  Script(Lines("g", BodyG(layout)) \o Lines("h", BodyH(layout))
                  \o <<<<"g", " ", "'", "u", "'", " ", "x", "&", "&", "h", " ", "c">>>>, <<>>,
               <<Defines("g", BodyG(layout)), Defines("h", BodyH(layout)),
                 Begins("function", <<W("g"), W("u"), W("x")>>), RanBlock(InFunction.tree),
                 Begins("function", <<W("h"), W("a"), W("}"), W("x")>>),
                 Prog(<<W("echo"), <<"}", "a">>, W("3")>>),
                 Begins("function", <<W("h"), W("c")>>),
                 Prog(<<W("echo"), W("c"), W("1")>>)>>, None)

\* A file that is sourced in a line, or in a function, and that sources another:
\* the blocks of each are read from it; one ends inside a block.
SourceBody == <<" ", "source", " ", "one", ";", " ", "echo", " ", "b", " ">>
SourceScript(layout, open, inFunction) ==
    LET branch == IfElse(<<T>>, <<B>>, <<A>>)
        loop == Loop("while", <<T>>, <<A>>)
        branchLines == LinesOf(Laid(branch.text, layout))
    IN  Script((IF inFunction THEN <<<<"g", "(", ")", "{">> \o SourceBody \o <<"}">>, <<"g">>>>
                ELSE <<Trim(SourceBody)>>)
                  \o LinesOf(Laid(loop.text, layout)),
               (W("one") :> (<<<<"true">>, <<"source", " ", "two">>>>
                               \o (IF open THEN Front(branchLines) ELSE branchLines)))
                 @@ (W("two") :> LinesOf(Laid(loop.text, layout))),
               (IF inFunction THEN <<Defines("g", SourceBody), Begins("function", <<W("g")>>)>>
                ELSE <<>>)
                  \o <<Begins("builtin", <<W("source"), W("one")>>), Prog(<<W("true")>>),
                       Begins("builtin", <<W("source"), W("two")>>), RanBlock(loop.tree)>>
                  \o (IF open /\ Len(branchLines) = 1 THEN <<>>
                      ELSE IF open THEN <<Rejected>> ELSE <<RanBlock(branch.tree)>>)
                  \o <<Prog(<<W("echo"), W("b")>>), RanBlock(loop.tree)>>, None)

\* Lines that do not parse stop their own chain only; a comment is no command.
BadScript ==
    Script(<<<<"echo", " ", "'", "a">>, <<"true", ";", "echo", " ", ">", ";", "echo", " ", "b">>,
             <<" ", "#", " ", "a">>, <<"true">>>>, <<>>,
           <<Prog(<<W("true")>>), Rejected, Prog(<<W("true")>>)>>, None)

\* Assignments: their status, and the value that later words see.
AssignScript ==
    LET set == <<<<"y", "=", "b">>>>
        sub == <<<<"y", "=">> \o Output(<<"e">>)>>
    IN  Script(<<<<"false", ";", "y", "=", "b", "&", "&", "echo", " ", "$", "y", "$", "?">>,
                 <<"false", ";", "y", "=", "$", "(", "e", ")", ";", "echo", " ", "$", "?">>>>, <<>>,
               <<Prog(<<W("false")>>), [Prog(set) EXCEPT !.as = "assignment"],
                 Prog(<<W("echo"), <<"b", "0">>>>), Prog(<<W("false")>>),
                 [Prog(sub) EXCEPT !.as = "assignment"], Prog(<<W("echo"), W("0")>>)>>, None)

\* Sessions of lines that define, remove and use names; what they mean is what
\* NameMap says.
KeyLines == {
    AliasLine, <<"alias", " ", "h", "=", "g", " ", "g", "=", "h">>, <<"alias", " ", "cd", "=", "true">>,
    <<"unalias", " ", "ll">>, <<"unalias", " ", "g", " ", "h">>,
    <<"g", "(", ")", " ", "{", "h", ";", "}">>, <<"h", "(", ")", "{", "h", ";", "g", "}">>,
    <<" ", "cd", " ", "(", " ", ")", "{", "true", "}">>, <<"g", ";", "h">>, <<"type", " ", "g", " ", "cd">>,
    <<"cd", " ", ">", " ", "f">>, <<"unalias">>,
    <<"x", "=", "a", " ", "alias", " ", "g", "=", "g", " ", "g">>}
NameScripts == {Script(<<a, b, c, <<"unalias", " ", "g", ";", "g">>>>, <<>>, None, None) :
                    a \in KeyLines, b \in KeyLines, c \in KeyLines}

-----------------------------------------------------------------------------
(* Expressions of test, rendered with [ or test, their words quoted or not. *)

Operands == {<<>>, <<"a">>, <<"1">>, <<"1", "0">>, <<"-", "1">>}
Strings == {[nots |-> 0, is |-> "string", arg |-> w] : w \in Operands}
Unaries == {[nots |-> 0, is |-> "unary", op |-> o, arg |-> w] :
               o \in {"-z", "-n", "-f", "-d"}, w \in Operands}
Binaries == {[nots |-> 0, is |-> "binary", op |-> o, left |-> l, right |-> r] :
                o \in {"=", "==", "!=", "-eq", "-lt", "-ge"}, l \in Operands, r \in Operands}
Terms == Strings \cup Unaries \cup Binaries
Not(t) == [t EXCEPT !.nots = @ + 1]
Few == {t \in Strings \cup Unaries : t.arg \in {<<>>, <<"1">>}}
        \cup {t \in Binaries : t.left = <<"1">> /\ t.right \in {<<"a">>, <<"1", "0">>}}
Expressions ==
    {Single(t) : t \in Terms \cup {Not(u) : u \in Terms} \cup {Not(Not(u)) : u \in Few}}
    \cup {Both(l, o, r) : l \in Few \cup {Not(t) : t \in Few}, o \in {"-a", "-o"},
                                     r \in Few}

Quoted(w) == <<DQ>> \o w \o <<DQ>>
TestLine(e, bracket) ==
    LET words == WordsOf(e)
        texts == [i \in DOMAIN words |-> IF words[i] = <<>> THEN Quoted(<<>>) ELSE words[i]]
    IN  Joined(<<W(IF bracket THEN "[" ELSE "test")>> \o texts
                  \o (IF bracket THEN <<W("]")>> ELSE <<>>))
TestScripts == {Script(<<TestLine(e, bracket)>>, <<>>, None, e) :
                    e \in Expressions, bracket \in BOOLEAN}

MCScripts ==
    CommandLines \cup ChainLines \cup BlockScripts \cup TestScripts \cup NameScripts
        \cup {AliasScript, BadScript, AssignScript}
        \cup {FunctionScript(l) : l \in Layouts}
        \cup {SourceScript(l, open, f) : l \in Layouts, open \in BOOLEAN, f \in BOOLEAN}

\* What the proofs suppose of the operators holds of the lines of these scripts,
\* alone and together, and of all short texts, most of which make no sense.
Texture == {"a", "1", "=", " ", "'", DQ, "$", "(", ")", "{", "}", ";", "|", "&", ">", "<", "\\",
            "#", "@", "?", "~", "*", Backquote, "nl", "if", "then", "elif", "else", "fi", "while",
            "for", "in", "do", "done", "case", "esac", "function", SQ_START, SQ_END, ESCAPED_DOLLAR}
TextsUpTo(n, symbols) == UNION {[1..k -> symbols] : k \in 0..n}
ShortTexts ==
    TextsUpTo(2, Texture)
        \cup UNION {TextsUpTo(4, symbols) : symbols \in {
                        {"a", "nl", "if", "then", "fi", "'"}, {"nl", "case", "esac", "in", ")", ";"},
                        {"nl", "for", "in", "do", "done", ";"}, {"a", "(", ")", "{", "}", "$"},
                        {"a", "\\", "'", DQ, "$", ESCAPED_DOLLAR}, {"2", ">", "&", "|", ";", "1"}}}
ASSUME TextsAreGood ==
    LET start == [var |-> MCVariables, status |-> 0, args |-> <<W("a"), <<>>>>, files |-> MCDirectory]
        Together(lines) == FlattenSeq([i \in DOMAIN lines |-> Append(lines[i], "nl")])
    IN  /\ GoodOn(ShortTexts, {start})
        /\ \A s \in CommandLines \cup NameScripts \cup BlockScripts \cup {BadScript, AssignScript}
                      \cup {FunctionScript(l) : l \in Layouts} :
               GoodOn(ToSet(s.lines) \cup {Together(s.lines)}, {start})

\* The proof about test supposes that its scripts are read as one command.
ASSUME TestScriptsAreRead == TestsAreRead
=============================================================================
