---------------------------- MODULE LoopControl ----------------------------
(***************************************************************************)
(* The interpreter of src/control_flow.c: if, while, until, for and case   *)
(* blocks, break and continue, with the &&/||/; chains (execute_chain),    *)
(* functions, eval and sourced files that nest them.  The C stack is a     *)
(* sequence of frames; one step is one statement started, one segment of a *)
(* chain, or the end of one activation.  The text of a script is whatever  *)
(* it may be: every statement is chosen when it is reached, and a span may *)
(* end after any of its statements.                                        *)
(***************************************************************************)
EXTENDS Integers, Sequences, FiniteSets

CONSTANTS
    MaxLoopIterations,  \* ACSH_MAX_LOOP_ITERATIONS
    MaxCallDepth,       \* ACSH_MAX_CALL_DEPTH
    MaxLevel,           \* bound on the N of `break N` and `continue N`
    MaxSpan,            \* bound on the statements of a span, a chain or a file
    MaxStack,           \* bound on the frames of the C stack
    WordLists,          \* what the word lists of for loops expand to
    Constructs,         \* which blocks and commands the scripts use
    Habits              \* which unusual uses of break and continue they make:
                        \*   "excess"     more levels than there are loops
                        \*   "condition"  inside the condition of a loop
                        \*   "after"      with code after them on the line, or
                        \*                in the sourced file

Blocks   == {"if", "case", "while", "until", "for"}
Commands == {"break", "continue", "function", "source", "eval"}

ASSUME LoopControlAssumption ==
    /\ MaxLoopIterations \in Nat \ {0}
    /\ MaxCallDepth \in Nat
    /\ MaxLevel \in Nat \ {0}
    /\ MaxSpan \in Nat \ {0}
    /\ MaxStack \in Nat \ {0}
    /\ WordLists \subseteq Seq(Nat)
    /\ Constructs \subseteq Blocks \cup Commands
    /\ Habits \subseteq {"excess", "condition", "after"}

VARIABLES
    stack,              \* the activations, the main loop's first
    loop_signal,        \* src/control_flow.c: loop_signal
    loop_signal_level,  \* src/control_flow.c: loop_signal_level
    active_loop_depth,  \* src/control_flow.c: active_loop_depth
    status,             \* `status` of the activation at the top, then its result
    last_status         \* $?

vars == <<stack, loop_signal, loop_signal_level, active_loop_depth, status,
          last_status>>

signal == <<loop_signal, loop_signal_level>>

-----------------------------------------------------------------------------
(* Activations.                                                            *)

LoopKinds == {"while", "until", "for"}

\* "script" is run_script_file or the main loop, "chain" execute_chain; every
\* other frame is a block, or the body of a function, whose phase says which
\* span of its text run_statements is in ("head": a for loop between words).
\* `words` holds, for each word a for loop has left, the number of the raw word
\* it comes from, the current one first.
Frame ==
    [kind   : {"script", "chain", "function"} \cup Blocks,
     phase  : {"head", "condition", "body"},
     left   : Nat,        \* statements the span may still have
     rounds : Nat,        \* `iterations`, or the conditions an if has tried
     result : {0, 1},     \* result_status
     words  : Seq(Nat)]

New(kind, phase) ==
    [kind |-> kind, phase |-> phase, left |-> MaxSpan, rounds |-> 0,
     result |-> 0, words |-> << >>]

Top   == stack[Len(stack)]
Under == SubSeq(stack, 1, Len(stack) - 1)

\* Whether run_statements is what runs in f.
InSpan(f) == f.kind \notin {"script", "chain"} /\ f.phase # "head"

\* The main loop's input does not end.
Take(s) == [s EXCEPT ![Len(s)].left = IF Len(s) = 1 THEN @ ELSE @ - 1]

Enter(f) == /\ Len(stack) < MaxStack
            /\ stack' = Append(Take(stack), f)

GoOn(f) == stack' = [stack EXCEPT ![Len(stack)] = f]

\* run_line and execute_chain store the result of what they ran in $?.
Stores(f) == f.kind \in {"script", "chain"}

Return(s) ==
    /\ Len(stack) > 1
    /\ stack' = Under
    /\ status' = s
    /\ last_status' = IF Stores(stack[Len(stack) - 1]) THEN s ELSE last_status

Loops(s)  == {i \in DOMAIN s : s[i].kind \in LoopKinds}
Calls(s)  == {i \in DOMAIN s : s[i].kind = "function"}
Bodies(s) == {i \in Loops(s) : s[i].phase = "body"}

-----------------------------------------------------------------------------
(* The habits of the scripts.                                              *)

MayGoOn == loop_signal = "none" \/ "after" \in Habits

MayRaise(level) ==
    /\ "excess" \in Habits \/ level <= active_loop_depth
    /\ "condition" \in Habits \/ Loops(stack) = Bodies(stack)

-----------------------------------------------------------------------------
(* run_statements and run_line: one statement.                             *)

Init ==
    /\ stack = <<New("script", "body")>>
    /\ loop_signal = "none"
    /\ loop_signal_level = 0
    /\ active_loop_depth = 0
    /\ status = 0
    /\ last_status = 0

\* A mutant: run_statements does not look either.
AtStatementUnguarded ==
    \/ InSpan(Top) /\ Top.left > 0
    \/ Top.kind = "script" /\ (Len(stack) = 1 \/ (Top.left > 0 /\ MayGoOn))

\* run_statements stops when a signal is pending; run_line does not look.
AtStatement ==
    \/ InSpan(Top) /\ Top.left > 0 /\ loop_signal = "none"
    \/ Top.kind = "script" /\ (Len(stack) = 1 \/ (Top.left > 0 /\ MayGoOn))

StartIf ==
    /\ AtStatement
    /\ "if" \in Constructs
    /\ Enter(New("if", "condition"))
    /\ status' = 0
    /\ UNCHANGED <<signal, active_loop_depth, last_status>>

\* A clause matches; without one, as with a chain of no segments, nothing runs.
StartCase ==
    /\ AtStatement
    /\ "case" \in Constructs
    /\ Enter(New("case", "body"))
    /\ status' = 0
    /\ UNCHANGED <<signal, active_loop_depth, last_status>>

NoClauseMatches ==
    /\ AtStatement
    /\ "case" \in Constructs
    /\ stack' = Take(stack)
    /\ status' = 0
    /\ last_status' = IF Stores(Top) THEN 0 ELSE last_status
    /\ UNCHANGED <<signal, active_loop_depth>>

StartLoop ==
    /\ AtStatement
    /\ \E kind \in Constructs \cap {"while", "until"} : Enter(New(kind, "condition"))
    /\ active_loop_depth' = active_loop_depth + 1
    /\ status' = 0
    /\ UNCHANGED <<signal, last_status>>

StartFor ==
    /\ AtStatement
    /\ "for" \in Constructs
    /\ \E words \in WordLists : Enter([New("for", "head") EXCEPT !.words = words])
    /\ active_loop_depth' = active_loop_depth + 1
    /\ status' = 0
    /\ UNCHANGED <<signal, last_status>>

\* A plain line, run by execute_chain.
StartLine ==
    /\ AtStatement
    /\ Enter(New("chain", "body"))
    /\ status' = 0
    /\ UNCHANGED <<signal, active_loop_depth, last_status>>

\* A block without its `then`, `do` or `in`: it has status 1 and is passed over.
Malformed ==
    /\ AtStatement
    /\ stack' = Take(stack)
    /\ status' = 1
    /\ last_status' = IF Stores(Top) THEN 1 ELSE last_status
    /\ UNCHANGED <<signal, active_loop_depth>>

\* A line parse_chain rejects, or an empty one, changes no status.
LineRejected ==
    /\ AtStatement
    /\ stack' = Take(stack)
    /\ UNCHANGED <<signal, active_loop_depth, status, last_status>>

-----------------------------------------------------------------------------
(* The end of a span: its text ends or a signal is pending.                *)

\* run_if_block: the condition decides; elif, else or fi follows.
IfDecides ==
    /\ Top.kind = "if" /\ Top.phase = "condition"
    /\ \/ /\ status = 0
          /\ GoOn([Top EXCEPT !.phase = "body", !.left = MaxSpan])
          /\ UNCHANGED <<status, last_status>>
       \/ /\ status # 0 /\ Top.rounds < MaxSpan
          /\ \E phase \in {"condition", "body"} :
                GoOn([Top EXCEPT !.phase = phase, !.left = MaxSpan, !.rounds = @ + 1])
          /\ status' = 0
          /\ UNCHANGED last_status
       \/ status # 0 /\ Return(0)
    /\ UNCHANGED <<signal, active_loop_depth>>

\* The body of an if, a case clause or a function ends.
BodyEnds ==
    /\ Top.kind \in {"if", "case", "function"} /\ Top.phase = "body"
    /\ \/ Return(status)
       \/ Top.kind = "if" /\ Return(1)  \* a later clause is malformed
    /\ UNCHANGED <<signal, active_loop_depth>>

\* An unterminated block: run_statements gives up with status 1 and the
\* construct around it goes on with that.
Unterminated ==
    /\ InSpan(Top) /\ AtStatement
    /\ GoOn([Top EXCEPT !.left = 0])
    /\ status' = 1
    /\ UNCHANGED <<signal, active_loop_depth, last_status>>

\* A mutant: the return of a loop that is broken out of misses the decrement.
LeaveLoopEarly(result) ==
    /\ Return(result)
    /\ active_loop_depth' =
          IF loop_signal # "none" THEN active_loop_depth ELSE active_loop_depth - 1

LeaveLoop(result) ==
    /\ Return(result)
    /\ active_loop_depth' = active_loop_depth - 1

Holds(kind) == IF kind = "until" THEN status # 0 ELSE status = 0

\* A mutant: the loop is not capped.
LoopConditionUncapped ==
    /\ Top.kind \in {"while", "until"} /\ Top.phase = "condition"
    /\ IF Holds(Top.kind)
       THEN /\ GoOn([Top EXCEPT !.phase = "body", !.left = MaxSpan])
            /\ status' = 0
            /\ UNCHANGED <<active_loop_depth, last_status>>
       ELSE LeaveLoop(Top.result)
    /\ UNCHANGED signal

\* run_loop_block: the condition has been run.
LoopConditionEnds ==
    /\ Top.kind \in {"while", "until"} /\ Top.phase = "condition"
    /\ IF Holds(Top.kind) /\ Top.rounds < MaxLoopIterations
       THEN /\ GoOn([Top EXCEPT !.phase = "body", !.left = MaxSpan, !.rounds = @ + 1])
            /\ status' = 0
            /\ UNCHANGED <<active_loop_depth, last_status>>
       ELSE LeaveLoop(Top.result)
    /\ UNCHANGED signal

\* Mutants: the level is always counted down, or is passed on whole.
ConsumeOneLevel ==
    /\ loop_signal' = IF loop_signal_level <= 1 THEN "none" ELSE loop_signal
    /\ loop_signal_level' = loop_signal_level - 1

ConsumeWhole ==
    /\ loop_signal' = IF loop_signal_level <= 1 THEN "none" ELSE loop_signal
    /\ loop_signal_level' = IF loop_signal_level <= 1 THEN 0 ELSE loop_signal_level

\* A pending signal of one level is this loop's and is cleared; one of more
\* levels loses one and is passed on.
ConsumeSignal ==
    /\ loop_signal' = IF loop_signal_level <= 1 THEN "none" ELSE loop_signal
    /\ loop_signal_level' = IF loop_signal_level <= 1 THEN 0 ELSE loop_signal_level - 1

LeavesLoop == \/ loop_signal = "break"
              \/ loop_signal = "continue" /\ loop_signal_level > 1

LoopBodyEnds ==
    /\ Top.kind \in {"while", "until"} /\ Top.phase = "body"
    /\ ConsumeSignal
    /\ IF LeavesLoop
       THEN LeaveLoop(status)
       ELSE /\ GoOn([Top EXCEPT !.phase = "condition", !.left = MaxSpan, !.result = status])
            /\ status' = 0
            /\ UNCHANGED <<active_loop_depth, last_status>>

\* run_for_block: the next word, or the end of the list.  (The loop variable it
\* sets and restores is in FunctionScope.)
ForHead ==
    /\ Top.kind = "for" /\ Top.phase = "head"
    /\ IF Top.words # << >>
       THEN /\ GoOn([Top EXCEPT !.phase = "body", !.left = MaxSpan])
            /\ status' = 0
            /\ UNCHANGED <<active_loop_depth, last_status>>
       ELSE LeaveLoop(Top.result)
    /\ UNCHANGED signal

NextWord(words) == SubSeq(words, 2, Len(words))

\* goto next_raw_word: the other words of the current raw word are not run.
SkipRawWord(words) ==
    SubSeq(words, 1 + Cardinality({i \in DOMAIN words : words[i] = words[1]}), Len(words))

ForBodyEnds ==
    /\ Top.kind = "for" /\ Top.phase = "body"
    /\ ConsumeSignal
    /\ IF LeavesLoop
       THEN LeaveLoop(status)
       ELSE /\ GoOn([Top EXCEPT !.phase = "head", !.result = status,
                               !.words = IF loop_signal = "continue"
                                         THEN SkipRawWord(@) ELSE NextWord(@)])
            /\ UNCHANGED <<status, active_loop_depth, last_status>>

-----------------------------------------------------------------------------
(* execute_chain: the segments of a line.  It does not look at loop_signal.*)
(* && and || only choose which of the segments are run, and each is        *)
(* whatever it may be, so a chain is the segments it runs.                 *)

AtSegment == Top.kind = "chain" /\ Top.left > 0 /\ MayGoOn

Segment(s) ==
    /\ stack' = Take(stack)
    /\ status' = s
    /\ last_status' = s

SimpleCommand ==
    /\ AtSegment
    /\ \E s \in {0, 1} : Segment(s)
    /\ UNCHANGED <<signal, active_loop_depth>>

BreakOrContinue ==
    /\ AtSegment
    /\ \E command \in Constructs \cap {"break", "continue"}, level \in 1..MaxLevel :
          IF active_loop_depth <= 0
          THEN UNCHANGED signal
          ELSE /\ MayRaise(level)
               /\ loop_signal' = command
               /\ loop_signal_level' = level
    /\ Segment(0)
    /\ UNCHANGED active_loop_depth

CallFunction ==
    /\ AtSegment
    /\ "function" \in Constructs
    /\ IF Cardinality(Calls(stack)) >= MaxCallDepth
       THEN Segment(1)
       ELSE /\ Enter(New("function", "body"))
            /\ status' = 0
            /\ UNCHANGED last_status
    /\ UNCHANGED <<signal, active_loop_depth>>

\* source: a file that cannot be opened, or one whose lines run_line runs.
Source ==
    /\ AtSegment
    /\ "source" \in Constructs
    /\ \/ Segment(1)
       \/ Enter(New("script", "body")) /\ UNCHANGED <<status, last_status>>
    /\ UNCHANGED <<signal, active_loop_depth>>

Eval ==
    /\ AtSegment
    /\ "eval" \in Constructs
    /\ \/ Segment(0)
       \/ Enter(New("chain", "body")) /\ status' = 0 /\ UNCHANGED last_status
    /\ UNCHANGED <<signal, active_loop_depth>>

\* The last segment, or one that parse_line rejects.
ChainEnds ==
    /\ Top.kind = "chain"
    /\ Return(last_status)
    /\ UNCHANGED <<signal, active_loop_depth>>

ScriptEnds ==
    /\ Top.kind = "script"
    /\ Return(0)
    /\ UNCHANGED <<signal, active_loop_depth>>

Statement == StartIf \/ StartCase \/ NoClauseMatches \/ StartLoop \/ StartFor
                \/ StartLine \/ Malformed \/ LineRejected
SpanEnd   == IfDecides \/ BodyEnds \/ Unterminated \/ LoopConditionEnds
                \/ LoopBodyEnds \/ ForHead \/ ForBodyEnds
ChainStep == SimpleCommand \/ BreakOrContinue \/ CallFunction \/ Source \/ Eval
                \/ ChainEnds \/ ScriptEnds

Next == Statement \/ SpanEnd \/ ChainStep

Spec == Init /\ [][Next]_vars

\* The interpreter is one thread that goes on as long as it can; the programs
\* it runs end.
FairSpec == Spec /\ WF_vars(Next)

-----------------------------------------------------------------------------
(* Properties.                                                             *)

\* Every variable has its type, and the main loop is at the bottom.
TypeOK ==
    /\ stack \in Seq(Frame)
    /\ Len(stack) >= 1
    /\ stack[1].kind = "script"
    /\ loop_signal \in {"none", "break", "continue"}
    /\ loop_signal_level \in Nat
    /\ active_loop_depth \in Int
    /\ status \in {0, 1}
    /\ last_status \in {0, 1}

\* active_loop_depth, by which break and continue decide whether they are in a
\* loop, counts exactly the loops on the stack, however they end.
DepthIsNesting == active_loop_depth = Cardinality(Loops(stack))

\* A signal is pending exactly when it has levels left: no loop clears the one
\* without the other.
SignalHasLevel == (loop_signal = "none") <=> (loop_signal_level = 0)

\* A pending signal never asks for more loops than are in their body, so a
\* loop that consumes it is always there (the level the user gave was within
\* the loops, and none was in its condition).
PendingInsideLoop == loop_signal_level <= Cardinality(Bodies(stack))

\* When no loop is running no break or continue is left over to swallow the
\* statements that follow.
NothingPendingOutside == active_loop_depth = 0 => loop_signal = "none"

\* No command runs between a break or continue and the loop it is for.
NoCommandWhilePending == [][loop_signal # "none" => ~SimpleCommand]_vars

\* A for loop goes on with the next of its words after a continue, without
\* losing any.
ContinueSkipsNothing ==
    [][ForBodyEnds /\ ~LeavesLoop => Top'.words = Tail(Top.words)]_vars

\* Every statement typed at the prompt comes to an end, whatever its loops do.
PromptComesBack == []<>(Len(stack) = 1)

-----------------------------------------------------------------------------
(* The nest of loops that the code has in mind: those a pending signal is  *)
(* going to leave are no longer in it.                                     *)

Owed == CASE loop_signal = "none"     -> 0
          [] loop_signal = "break"    -> loop_signal_level
          [] loop_signal = "continue" -> loop_signal_level - 1

RoundsLeft(f) ==
    IF f.kind = "for" THEN Len(f.words) - (IF f.phase = "body" THEN 1 ELSE 0)
    ELSE MaxLoopIterations - f.rounds

\* How many of the positions S are up to i, and the k-th of them.
Rank(S, i) == Cardinality({j \in S : j <= i})
Nth(S, k)  == CHOOSE i \in {j \in S : Rank(S, j) = k} : TRUE

Nested(f) == [kind |-> f.kind, rest |-> RoundsLeft(f)]

Nest ==
    [k \in 1..(Cardinality(Loops(stack)) - Owed) |-> Nested(stack[Nth(Loops(stack), k)])]

Abstract == INSTANCE LoopNest WITH nest <- Nest, MaxRounds <- MaxLoopIterations

\* break n and continue n act on the nest of loops as one step: until the loop
\* they are for has its turn nothing of the nest changes, and every loop makes
\* its rounds one by one.
NestRefined == Abstract!Spec
=============================================================================
