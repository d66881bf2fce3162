------------------------------ MODULE Session ------------------------------
(***************************************************************************)
(* A script as text: how acsh reads its lines (run_line, run_script_file   *)
(* and read_more_line_from_current_source, src/main.c), collects those of  *)
(* a block or a function (src/control_flow.c, src/functions.c), cuts and   *)
(* parses them, expands aliases, and finds what a name runs                *)
(* (execute_chain and execute_pipeline, src/executor.c; alias, unalias,    *)
(* type, source and test, src/builtins.c).  Lines come from the file that  *)
(* is being read, which a sourced file replaces for a while.               *)
(*                                                                         *)
(* How a text is cut and parsed is the business of Words and Blocks; here  *)
(* it is given by operators, which those modules define for the runs.      *)
(* Blocks run in LoopControl; so a block's commands are programs, which    *)
(* change nothing that the shell keeps.                                    *)
(***************************************************************************)
EXTENDS NameTables, TestExpr

CONSTANTS
    FirstOf(_),             \* FirstWord of a line
    OpensFunction(_),       \* StartsFunction of a line
    Segments(_),            \* parse_chain of a text
    Pipeline(_, _),         \* parse_line of a segment, in an environment
    Closed(_, _),           \* HasCloser of an opener and the text of its block
    Braced(_),              \* HasBody of a function's text
    CloserIn(_, _, _, _),   \* CloseOf of an opener in a stretch of a text
    TreeIn(_, _, _, _, _),  \* Tree of a block in an environment
    NameOf(_),              \* FunctionName of a text
    BodyOf(_),              \* FunctionBody of a text
    StatementIn(_, _, _)    \* StatementAt a position of a text

\* A script: its lines, the files it may source, and what a reader says that it
\* means, when that was written down: the items that run, or a test expression.
\* It holds no command without words, like `> f`.
CONSTANTS
    Scripts,       \* what may be run: see Script
    AliasSlots,    \* ACSH_MAX_ALIASES
    FunctionSlots, \* ACSH_MAX_FUNCTIONS
    MaxCallDepth,  \* ACSH_MAX_CALL_DEPTH
    Builtins,      \* the names that try_run_builtin knows
    Programs,      \* the names on PATH
    Directory,     \* the words that a pattern becomes
    TestFiles,     \* which paths pass which file tests
    Defaults,      \* alias_load_defaults: <<name, value>>s
    Variables,     \* the environment at the start
    None           \* no block, nothing that was written down

ASSUME SessionAssumption ==
    /\ {AliasSlots, FunctionSlots, MaxCallDepth} \subseteq Nat
    /\ Builtins \cup Programs \subseteq Texts
    /\ Defaults \in Seq(Texts \X Texts)
    /\ DOMAIN Variables \subseteq Texts /\ Variables \in [DOMAIN Variables -> Texts]
    /\ \A s \in Scripts :
           s.lines \in Seq(Texts) /\ \A name \in DOMAIN s.files : s.files[name] \in Seq(Texts)

\* What execute_chain and parse_line get, and the statuses.
SegmentRecord == [text : Texts, after : {";", "&&", "||"}]
CommandRecord == [argv : Seq(Texts), infile : Texts, outfile : Texts, append : BOOLEAN,
                  errfile : Texts, err_append : BOOLEAN, dup : Texts]
PipelineRecord == [cmds : Seq(CommandRecord), background : BOOLEAN, bad : BOOLEAN]
Statuses == {0, 1, 2, 127}

\* The operators give texts, segments, pipelines and positions for the texts of T,
\* in the environments of E.
GoodOn(T, E) ==
    \A t \in T :
        /\ Segments(t) \in Seq(SegmentRecord)
        /\ \A env \in E : Pipeline(t, env) \in PipelineRecord
        /\ NameOf(t) \in Texts /\ BodyOf(t) \in Texts
        /\ \A p \in 1..Len(t) + 1 :
               LET s == StatementIn(t, p, Len(t) + 1)
               IN  /\ s.opener \in Openers \cup {""}
                   /\ s.from \in p..Len(t) + 1
                   /\ s.close \in IF s.opener = "" THEN s.from..Len(t) + 1 ELSE 0..Len(t)

VARIABLES
    script,      \* the script that was started
    frames,      \* the loops over files, chains and bodies that are running
    rest,        \* for every open file, the lines that fgets has not returned
    current,     \* current_input_source: which of them
    block,       \* the block or function that is being collected
    aliases,     \* alias_table
    functions,   \* function_table
    var,         \* the variables
    last_status, \* $?
    ran          \* history: what ran, and was defined or rejected, in order

vars == <<script, frames, rest, current, block, aliases, functions, var, last_status, ran>>

\* A mutant: the source is saved after it was replaced.
FileSavedLate == [is |-> "file", saved |-> Len(rest) + 1]
\* A mutant: a sourced file always gives back to the script.
FileForgets == [is |-> "file", saved |-> 1]

\* The kinds of frames: run_script_file, execute_chain, and run_statements in a
\* function_call.
File == [is |-> "file", saved |-> current]
Chain(segments) == [is |-> "chain", todo |-> segments, status |-> 0]
Body(text, args) == [is |-> "body", text |-> text, at |-> 1, status |-> 0, args |-> args]

Depth == Len(frames)
Top == frames[Depth]
Calls == {i \in DOMAIN frames : frames[i].is = "body"}
Args == IF Calls = {} THEN <<>> ELSE frames[Max(Calls)].args
Env == [var |-> var, status |-> last_status, args |-> Args, files |-> Directory]

\* What is kept of a command, a definition, a block and a syntax error; of a
\* command how it was run, and its status: a function or a file only begins.
Did(as, pl, status) == [do |-> "run", as |-> as, pipeline |-> pl, status |-> status]
Begun == -1
DefinedAs(name, body) == [do |-> "define", name |-> name, body |-> body]
RanBlock(tree) == [do |-> "block", tree |-> tree]
Rejected == [do |-> "error"]

\* alias_load_defaults.
FirstAliases == ApplyAll(Empty(AliasSlots), Defaults)

\* execute_pipeline and run_statements return to the frame that called them.
Return(stack, status) ==
    IF stack # <<>> /\ Last(stack).is \in {"chain", "body"}
    THEN [stack EXCEPT ![Len(stack)].status = status] ELSE stack

Init ==
    /\ script \in Scripts
    /\ rest = <<script.lines>>
    /\ current = 1
    /\ frames = <<[is |-> "file", saved |-> 0]>>
    /\ block = None
    /\ aliases = FirstAliases
    /\ functions = Empty(FunctionSlots)
    /\ var = Variables
    /\ last_status = 0
    /\ ran = <<>>

-----------------------------------------------------------------------------
(* Lines.                                                                  *)

Reading == frames # <<>> /\ Top.is = "file" /\ block = None
Innermost == Len(rest)

\* run_script_file reads a line, and run_line looks at its first word.
ReadLine ==
    LET line == Head(rest[Innermost])
        opener == FirstOf(line)
    IN  /\ Reading
        /\ rest[Innermost] # <<>>
        /\ rest' = [rest EXCEPT ![Innermost] = Tail(@)]
        /\ IF opener \in Openers \/ OpensFunction(line)
           THEN /\ block' = [opener |-> IF opener \in Openers THEN opener ELSE "function",
                             text |-> Append(line, "nl"), file |-> Innermost]
                /\ UNCHANGED frames
           ELSE /\ frames' = IF Segments(line) = <<>> THEN frames
                             ELSE Append(frames, Chain(Segments(line)))
                /\ UNCHANGED block
        /\ UNCHANGED <<script, current, aliases, functions, var, last_status, ran>>

\* The end of a file: run_script_file puts back the one before it.
EndOfFile ==
    /\ Reading
    /\ rest[Innermost] = <<>>
    /\ rest' = Front(rest)
    /\ current' = Top.saved
    /\ frames' = Return(Front(frames), 0)
    /\ last_status' = IF Depth > 1 THEN 0 ELSE last_status
    /\ UNCHANGED <<script, block, aliases, functions, var, ran>>

Complete == IF block.opener = "function" THEN Braced(block.text)
            ELSE Closed(block.opener, block.text)

\* One more line of a block, from current_input_source.
ReadMore ==
    /\ block # None
    /\ ~Complete
    /\ rest[current] # <<>>
    /\ block' = [block EXCEPT !.text = Append(@ \o Head(rest[current]), "nl")]
    /\ rest' = [rest EXCEPT ![current] = Tail(@)]
    /\ UNCHANGED <<script, frames, current, aliases, functions, var, last_status, ran>>

\* The file ends inside the block: a syntax error.
EndInBlock ==
    /\ block # None
    /\ ~Complete
    /\ rest[current] = <<>>
    /\ block' = None
    /\ last_status' = 1
    /\ ran' = Append(ran, Rejected)
    /\ UNCHANGED <<script, frames, rest, current, aliases, functions, var>>

\* Just past its closer.
BlockEnd == CloserIn(block.opener, block.text, 1, Len(block.text) + 1) + 1

\* A complete block runs, with any status; what follows its closer is dropped.
RunBlock ==
    /\ block # None
    /\ block.opener # "function"
    /\ Complete
    /\ ran' = Append(ran, RanBlock(TreeIn(block.opener, block.text, 1, BlockEnd, Env)))
    /\ last_status' \in {0, 1}
    /\ block' = None
    /\ UNCHANGED <<script, frames, rest, current, aliases, functions, var>>

\* run_function_definition.
DefineFunction ==
    /\ block # None
    /\ block.opener = "function"
    /\ Complete
    /\ functions' = Store(functions, NameOf(block.text), BodyOf(block.text))
    /\ ran' = Append(ran, DefinedAs(NameOf(block.text), BodyOf(block.text)))
    /\ last_status' = 0
    /\ block' = None
    /\ UNCHANGED <<script, frames, rest, current, aliases, var>>

-----------------------------------------------------------------------------
(* What a command does.                                                    *)

IsAssignment(word) == Len(word) > 1 /\ word[1] \notin NotInName /\ word[2] = "="
                      /\ word[1] \notin ToSet(Digits)

\* is_assignment_word of the leading words: the first that is none, and the
\* words from there on.
CommandAt(words) ==
    LET at == SelectInSeq(words, LAMBDA w : ~IsAssignment(w))
    IN  IF at = 0 THEN Len(words) + 1 ELSE at
CommandIn(words) == SubSeq(words, CommandAt(words), Len(words))

\* What execute_pipeline runs for a single command, and in which order it looks.
HasRedirection(cmd) == cmd.infile # <<>> \/ cmd.outfile # <<>>
                       \/ cmd.errfile # <<>> \/ cmd.dup # <<>>
Resolve(name, redirected) ==
    IF Defined(functions, name) /\ ~redirected THEN "function"
    ELSE IF name \in Builtins THEN "builtin"
    ELSE IF Defined(functions, name) THEN "function"
    ELSE IF name \in Programs THEN "program"
    ELSE "nothing"

\* A mutant: builtins before functions.
TypeOfBuiltinFirst(name) ==
    IF Defined(aliases, name) THEN "alias"
    ELSE IF name \in Builtins THEN "builtin"
    ELSE Resolve(name, FALSE)

\* builtin_type.
TypeOf(name) ==
    IF Defined(aliases, name) THEN "alias"
    ELSE IF Defined(functions, name) THEN "function"
    ELSE IF name \in Builtins THEN "builtin"
    ELSE IF name \in Programs THEN "program"
    ELSE "nothing"

\* builtin_alias: a word NAME=VALUE defines, another is only shown; builtin_unalias.
Equals(w) == SelectInSeq(w, LAMBDA c : c = "=")
Setting(w) ==
    IF Equals(w) > 0 THEN <<SubSeq(w, 1, Equals(w) - 1), SubSeq(w, Equals(w) + 1, Len(w))>>
    ELSE <<>>
AliasOperations(argv) ==
    CASE argv[1] = <<"alias">> -> [i \in 1..Len(argv) - 1 |-> Setting(argv[i + 1])]
      [] argv[1] = <<"unalias">> -> [i \in 1..Len(argv) - 1 |-> <<argv[i + 1]>>]
      [] OTHER -> <<>>

\* The status of the builtins of this module and of the programs.
BuiltinStatus(argv) ==
    LET name == argv[1][1]
    IN  CASE name \in {"test", "["} -> builtin_test(argv, TestFiles)
          [] name = "unalias" /\ Len(argv) < 2 -> 1
          [] name = "type" -> IF Len(argv) > 1 /\ \A i \in 2..Len(argv) : TypeOf(argv[i]) # "nothing"
                              THEN 0 ELSE 1
          [] name = "source" -> 1 \* without a file that can be read
          [] OTHER -> 0
ProgramStatus(argv) ==
    IF argv = <<>> \/ (argv # <<>> /\ argv[1] \notin Programs) THEN 127
    ELSE IF argv = <<<<"false">>>> THEN 1 ELSE 0

Sources(argv) == argv[1] = <<"source">> /\ Len(argv) > 1 /\ argv[2] \in DOMAIN script.files

\* $? once the words are expanded: every command substitution sets it, here to 0.
ExpandedStatus(pl) ==
    IF \E i \in DOMAIN pl.cmds : \E w \in ToSet(pl.cmds[i].argv) : Contains(w, "<out")
    THEN 0 ELSE last_status

\* execute_pipeline's check of the raw text of a line that only assigns.
HasSubstitution(text) ==
    \E i \in DOMAIN text : text[i] = Backquote \/ (text[i] = "$" /\ At(text, i + 1) = "(")

\* The chain that is running, with a segment less.
Rest == [Top EXCEPT !.todo = Tail(@)]
Finish(status) ==
    /\ frames' = [frames EXCEPT ![Depth] = [Rest EXCEPT !.status = status]]
    /\ last_status' = status

\* apply_assignment of the words NAME=VALUE.
SetBy(v, w) ==
    [name \in DOMAIN v \cup {<<w[1]>>} |->
        IF name = <<w[1]>> THEN SubSeq(w, 3, Len(w)) ELSE v[name]]
Assigned(words) ==
    LET after[i \in 0..Len(words)] == IF i = 0 THEN var ELSE SetBy(after[i - 1], words[i])
    IN  after[Len(words)]

\* A pipeline of one command that only assigns.
Assign(pl, text) ==
    /\ Finish(IF HasSubstitution(text) THEN ExpandedStatus(pl) ELSE 0)
    /\ ran' = Append(ran, Did("assignment", pl, last_status'))
    /\ UNCHANGED <<rest, current, aliases>>

\* A function: its statements run before the chain goes on.
Call(pl, argv) ==
    /\ IF Cardinality(Calls) >= MaxCallDepth
       THEN Finish(1)
       ELSE /\ frames' = Append([frames EXCEPT ![Depth] = Rest],
                                Body(Get(functions, argv[1]), Tail(argv)))
            /\ UNCHANGED last_status
    /\ ran' = Append(ran, Did("function", pl, Begun))
    /\ UNCHANGED <<rest, current, aliases>>

\* source: the file is opened and becomes current_input_source.
Source(pl, argv) ==
    /\ rest' = Append(rest, script.files[argv[2]])
    /\ current' = Len(rest')
    /\ frames' = Append([frames EXCEPT ![Depth] = Rest], File)
    /\ ran' = Append(ran, Did("builtin", pl, Begun))
    /\ UNCHANGED <<aliases, last_status>>

Builtin(pl, argv) ==
    /\ aliases' = ApplyAll(aliases, AliasOperations(argv))
    /\ Finish(BuiltinStatus(argv))
    /\ ran' = Append(ran, Did("builtin", pl, last_status'))
    /\ UNCHANGED <<rest, current>>

\* Programs, in the foreground or not; a builtin or function in a pipe changes
\* only the child that it runs in.
Program(pl, argv) ==
    /\ Finish(IF pl.background THEN 0 ELSE ProgramStatus(argv))
    /\ ran' = Append(ran, Did("program", pl, last_status'))
    /\ UNCHANGED <<rest, current, aliases>>

\* execute_pipeline: the words behind the assignments are shifted down.
SingleCommand(pl, text, words, argv) ==
    LET shifted == [pl EXCEPT !.cmds[1].argv = argv]
        how == IF argv = <<>> THEN "nothing"
               ELSE Resolve(argv[1], HasRedirection(pl.cmds[1]))
    IN  CASE argv = <<>> /\ words # <<>> -> Assign(pl, text)
          [] how = "function" -> Call(shifted, argv)
          [] how = "builtin" -> IF Sources(argv) THEN Source(shifted, argv)
                                ELSE Builtin(shifted, argv)
          [] OTHER -> Program(shifted, argv)
Execute(pl, text, words) ==
    IF Len(pl.cmds) > 1 THEN Program(pl, Last(pl.cmds).argv) /\ UNCHANGED var
    ELSE /\ var' = Assigned(SubSeq(words, 1, CommandAt(words) - 1))
         /\ SingleCommand(pl, text, words, CommandIn(words))

-----------------------------------------------------------------------------
(* execute_chain and run_statements.                                       *)

InChain == frames # <<>> /\ Top.is = "chain"
Skipped(segment) ==
    \/ segment.after = "&&" /\ Top.status # 0
    \/ segment.after = "||" /\ Top.status = 0

\* The next segment: skipped, or its alias expanded and parsed now and run.
RunParsed(pl, text) ==
    CASE pl.bad ->
           /\ frames' = [frames EXCEPT ![Depth].todo = <<>>]
           /\ ran' = Append(ran, Rejected)
           /\ UNCHANGED <<rest, current, aliases, var, last_status>>
      [] ~pl.bad /\ pl.cmds = <<>> ->
           /\ frames' = [frames EXCEPT ![Depth] = Rest]
           /\ UNCHANGED <<rest, current, aliases, var, last_status, ran>>
      [] OTHER -> Execute(pl, text, pl.cmds[1].argv)
RunText(text) == RunParsed(Pipeline(text, Env), text)
RunSegment ==
    /\ InChain
    /\ Top.todo # <<>>
    /\ IF Skipped(Head(Top.todo))
       THEN /\ frames' = [frames EXCEPT ![Depth] = Rest]
            /\ UNCHANGED <<rest, current, aliases, var, last_status, ran>>
       ELSE RunText(alias_expand_line(Head(Top.todo).text, MapOf(aliases)))
    /\ UNCHANGED <<script, block, functions>>

\* A chain is over; run_statements takes $? for its status.
EndChain ==
    /\ InChain
    /\ Top.todo = <<>>
    /\ frames' = Return(Front(frames), last_status)
    /\ UNCHANGED <<script, rest, current, block, aliases, functions, var, last_status, ran>>

InBody == frames # <<>> /\ Top.is = "body"
NextStatement == StatementIn(Top.text, Top.at, Len(Top.text) + 1)
MoreStatements == NextStatement.from <= Len(Top.text)

\* run_statements in a function: a line of commands is parsed and runs now.
RunLine ==
    /\ InBody
    /\ MoreStatements
    /\ LET s == NextStatement
           segments == Segments(SubSeq(Top.text, s.from, s.close - 1))
           moved == [frames EXCEPT ![Depth].at = s.close]
       IN  /\ s.opener = ""
           /\ frames' = IF segments = <<>> THEN moved ELSE Append(moved, Chain(segments))
    /\ UNCHANGED <<script, rest, current, block, aliases, functions, var, last_status, ran>>

\* A block in a function; without its closer the function ends.
RunNested ==
    /\ InBody
    /\ MoreStatements
    /\ LET s == NextStatement
           closed == s.close > 0
           after == IF closed THEN s.close + 1 ELSE Len(Top.text) + 1
       IN  /\ s.opener # ""
           /\ ran' = Append(ran, IF closed
                                 THEN RanBlock(TreeIn(s.opener, Top.text, s.from, after, Env))
                                 ELSE Rejected)
           /\ last_status' \in IF closed THEN {0, 1} ELSE {last_status}
           /\ \E status \in IF closed THEN {0, 1} ELSE {1} :
                  frames' = [frames EXCEPT ![Depth].at = after, ![Depth].status = status]
    /\ UNCHANGED <<script, rest, current, block, aliases, functions, var>>

\* The function returns to its chain.
EndBody ==
    /\ InBody
    /\ ~MoreStatements
    /\ frames' = Return(Front(frames), Top.status)
    /\ last_status' = Top.status
    /\ UNCHANGED <<script, rest, current, block, aliases, functions, var, ran>>

\* main returns.
Ended == frames = <<>> /\ UNCHANGED vars

Next ==
    \/ ReadLine \/ EndOfFile \/ ReadMore \/ EndInBlock \/ RunBlock \/ DefineFunction
    \/ RunSegment \/ EndChain \/ RunLine \/ RunNested \/ EndBody \/ Ended

Spec == Init /\ [][Next]_vars

-----------------------------------------------------------------------------
(* Properties.                                                             *)

\* What the variables hold.
TypeOK ==
    /\ \A i \in DOMAIN frames : frames[i].is \in {"file", "chain", "body"}
    /\ current \in 0..Len(rest)
    /\ block # None => block.opener \in Openers \cup {"function"} /\ block.file \in DOMAIN rest
    /\ aliases \in Tables(AliasSlots)
    /\ functions \in Tables(FunctionSlots)
    /\ last_status \in {0, 1, 2, 127}

\* The scanners of blocks, the one of chains, the tokenizer and the expansions
\* read a text one after the other: whatever way it is laid out, quoted, nested
\* and spread over lines and files, what runs is what was written, item by item,
\* nothing is left out, and no line is eaten by another construct.
EachStatementAsWritten ==
    script.means # None =>
        /\ IsPrefix(ran, script.means)
        /\ frames = <<>> => ran = script.means

\* A block is read from the file in which it began ("Runs every line of the file
\* at `path`", main.c:109), also when a file is sourced inside another.
ReadsOwnFile == block # None => current = block.file

\* What an item asked of the aliases, and defined as a function.
Asked(item) ==
    IF item.do = "run" /\ item.as = "builtin"
    THEN AliasOperations(item.pipeline.cmds[1].argv) ELSE <<>>
Definition(item) == IF item.do = "define" THEN <<<<item.name, item.body>>>> ELSE <<>>

AliasMap == INSTANCE NameMap WITH
    Room <- AliasSlots, map <- MapOf(aliases), Defaults <- Defaults,
    operations <- FlattenSeq([i \in DOMAIN ran |-> Asked(ran[i])])
FunctionMap == INSTANCE NameMap WITH
    Room <- FunctionSlots, map <- MapOf(functions), Defaults <- <<>>,
    operations <- FlattenSeq([i \in DOMAIN ran |-> Definition(ran[i])])

\* After any session the tables of slots of aliases and functions, which are
\* searched and filled from the first slot and have holes, stand for what the
\* commands so far define (alias_set, alias_unset, store_function): the last
\* value, none that comes back after unalias, none lost while there is room.
NamesRefined == AliasMap!Spec /\ FunctionMap!Spec

\* type says "how acsh itself would actually resolve and run it"
\* (builtins.c:327-331): what it answers is what the bare name runs, after alias
\* expansion, in execute_pipeline.
ToldTruly(name) ==
    LET expanded == alias_expand_line(name, MapOf(aliases))
    IN  IF TypeOf(name) = "alias" THEN expanded = MapOf(aliases)[name]
        ELSE expanded = name /\ TypeOf(name) = Resolve(name, FALSE)
BareNames(S) == {name \in S : name # <<>> /\ ~Contains(name, " ")}
TypeTellsTruth ==
    \A name \in BareNames(NamesIn(aliases) \cup NamesIn(functions) \cup Builtins \cup Programs) :
        ToldTruly(name)

\* test and [ have the status that their comment gives the expression, whatever
\* way its words are quoted.
TestAsDocumented ==
    script.test # None /\ ran # <<>> =>
        Last(ran).status = Meaning(script.test, TestFiles)

\* A script that tests is read as one command, of the words of its expression.
AtStart == [var |-> Variables, status |-> 0, args |-> <<>>, files |-> Directory]
TestIsRead(s) ==
    LET line == s.lines[1]
        segments == Segments(line)
        pl == Pipeline(alias_expand_line(segments[1].text, MapOf(FirstAliases)), AtStart)
    IN  /\ Len(s.lines) = 1 /\ FirstOf(line) \notin Openers /\ ~OpensFunction(line)
        /\ Len(segments) = 1 /\ segments[1].after = ";"
        /\ ~pl.bad /\ Len(pl.cmds) = 1
        /\ IsExpression(s.test)
        /\ \E name \in TestNames \cap Builtins : pl.cmds[1].argv = TestCommand(name, s.test)
TestsAreRead == \A s \in Scripts : s.test # None => TestIsRead(s)
=============================================================================
