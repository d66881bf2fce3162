-------------------------------- MODULE Repl --------------------------------
(***************************************************************************)
(* The main loop of acsh, its chains of && || ; and its traps: main,       *)
(* run_line, run_script_file and run_as_script (src/main.c), execute_chain *)
(* (src/executor.c), the SIGINT handler and the trap runners               *)
(* (src/signals.c), builtin_trap, builtin_exit and builtin_exec            *)
(* (src/builtins.c).  Traps, children and the exit re-enter execute_chain, *)
(* so what runs is a stack of chains; Ctrl+C may come between any two      *)
(* steps.  Loops and functions are in LoopControl and FunctionScope.       *)
(***************************************************************************)
EXTENDS Integers, Sequences

CONSTANTS
    Lines,      \* the chains that are typed, or stand in a file
    ChildLines, \* the chains of command substitutions and pipeline stages
    IntLines,   \* the commands given to `trap ... INT`
    ExitLines,  \* the commands given to `trap ... EXIT`
    None,       \* no trap command
    MaxLines,   \* bound on the lines that are read
    MaxCtrlC,   \* bound on Ctrl+C
    MaxStack    \* bound on the chains in each other

\* A segment of a chain, and how it is connected to the one before it.  The
\* empty chain stands for a line that parse_chain rejects or finds empty.
Commands ==
    {"run", "empty", "bad", "trap", "exit", "exec", "stage", "substitution"}
Segments == [cmd : Commands, op : {"seq", "and", "or"}]

ASSUME ReplAssumption ==
    /\ Lines \cup ChildLines \cup IntLines \cup ExitLines \subseteq Seq(Segments)
    /\ None \notin Seq(Segments)
    /\ MaxLines \in Nat /\ MaxCtrlC \in Nat /\ MaxStack \in Nat

VARIABLES
    source,      \* where the lines come from: "rc", "terminal", "script"
    pc,          \* "read", "check" (the INT trap), "run", "ended"
    line,        \* the line that fgets returned
    stack,       \* the execute_chain that are running, innermost last
    traps,       \* int_trap_command, int_trap_pending, exit_trap_command
    last_status, \* $?
    exit_status, \* of the shell, once it has ended
    count,       \* bounds and history: lines read, lines not run, Ctrl+C that
                 \* the handler recorded, runs of the EXIT trap
    leaving      \* history: the EXIT trap, the code and $? when the shell began
                 \* to exit

vars == <<source, pc, line, stack, traps, last_status, exit_status, count, leaving>>

Statuses == {0, 1}
Staying == [trap |-> None, code |-> -1, status |-> 0, began |-> FALSE]
NoTraps == [int |-> None, pending |-> FALSE, exit |-> None]

\* An activation of execute_chain: a line, a trap, or a child.  The traps that
\* a child was forked with are its own; `kept` are those of its parent.
Chain(kind, todo, code) ==
    [kind |-> kind, todo |-> todo, status |-> 0, code |-> code, kept |-> NoTraps]

Children == {"stage", "substitution"}
Top == stack[Len(stack)]
ChildrenAt == {i \in DOMAIN stack : stack[i].kind \in Children}
InChild == ChildrenAt # {}
FirstChild == CHOOSE i \in ChildrenAt : \A j \in ChildrenAt : i <= j
LastChild  == CHOOSE i \in ChildrenAt : \A j \in ChildrenAt : i >= j

Init ==
    /\ source \in {"rc", "script"}
    /\ pc = "read"
    /\ line = << >>
    /\ stack = << >>
    /\ traps = NoTraps
    /\ last_status = 0
    /\ exit_status = -1
    /\ count = [lines |-> 0, dropped |-> 0, ctrlc |-> 0, exit |-> 0]
    /\ leaving = Staying

-----------------------------------------------------------------------------
(* Reading lines.                                                          *)

\* A mutant: a line that does not parse is run all the same.
run_lineUnparsed(l) ==
    pc' = "run" /\ stack' = IF l = << >> THEN stack ELSE <<Chain("line", l, -1)>>

\* run_line: a line that is empty or does not parse is over at once.
run_line(l) ==
    IF l = << >> THEN pc' = "read" /\ UNCHANGED stack
    ELSE pc' = "run" /\ stack' = <<Chain("line", l, -1)>>

\* run_script_file, of ~/.acshrc or of a script.
ReadFile ==
    /\ pc = "read" /\ source # "terminal" /\ count.lines < MaxLines
    /\ \E l \in Lines : line' = l /\ run_line(l)
    /\ count' = [count EXCEPT !.lines = @ + 1]
    /\ UNCHANGED <<source, traps, last_status, exit_status, leaving>>

RcEnds ==
    /\ pc = "read" /\ source = "rc"
    /\ source' = "terminal"
    /\ UNCHANGED <<pc, line, stack, traps, last_status, exit_status, count, leaving>>

\* fgets in main; SA_RESTART makes it go on after a Ctrl+C.
ReadTerminal ==
    /\ pc = "read" /\ source = "terminal" /\ count.lines < MaxLines
    /\ \E l \in Lines : line' = l
    /\ pc' = "check"
    /\ count' = [count EXCEPT !.lines = @ + 1]
    /\ UNCHANGED <<source, stack, traps, last_status, exit_status, leaving>>

\* A mutant: the flag is not cleared.
CheckKeepsPending ==
    /\ pc = "check" /\ traps.pending
    /\ IF traps.int \in {None, << >>}
       THEN pc' = "read" /\ UNCHANGED stack
       ELSE pc' = "run" /\ stack' = <<Chain("int", traps.int, -1)>>
    /\ count' = [count EXCEPT !.dropped = @ + 1]
    /\ UNCHANGED <<source, line, traps, last_status, exit_status, leaving>>

\* trap_check_and_run_int: when the flag is up main goes on to the next line,
\* whatever became of the trap.
CheckPending ==
    /\ pc = "check" /\ traps.pending
    /\ traps' = [traps EXCEPT !.pending = FALSE]
    /\ IF traps.int \in {None, << >>}
       THEN pc' = "read" /\ UNCHANGED stack
       ELSE pc' = "run" /\ stack' = <<Chain("int", traps.int, -1)>>
    /\ count' = [count EXCEPT !.dropped = @ + 1]
    /\ UNCHANGED <<source, line, last_status, exit_status, leaving>>

CheckNothing ==
    /\ pc = "check" /\ ~traps.pending
    /\ run_line(line)
    /\ UNCHANGED <<source, line, traps, last_status, exit_status, count, leaving>>

-----------------------------------------------------------------------------
(* execute_chain.                                                          *)

AtSegment == pc = "run" /\ Top.todo # << >>
Segment == Head(Top.todo)

\* `&&` after a failure and `||` after a success.
Skipped == \/ Segment.op = "and" /\ Top.status # 0
           \/ Segment.op = "or" /\ Top.status = 0

At(c) == AtSegment /\ ~Skipped /\ Segment.cmd = c

\* The segment of frame k is over, with status st.
Done(f, st) == [f EXCEPT !.todo = Tail(f.todo), !.status = st]
Over(k, st) == [SubSeq(stack, 1, k) EXCEPT ![k] = Done(@, st)]
Finish(st) == stack' = Over(Len(stack), st) /\ last_status' = st

Skip ==
    /\ AtSegment /\ Skipped
    /\ stack' = Over(Len(stack), Top.status)
    /\ UNCHANGED <<source, pc, line, traps, last_status, exit_status, count, leaving>>

\* A segment that expands to no command.
Empty ==
    /\ At("empty")
    /\ stack' = Over(Len(stack), Top.status)
    /\ UNCHANGED <<source, pc, line, traps, last_status, exit_status, count, leaving>>

\* parse_line fails: the rest of the chain is dropped and $? stays.
Bad ==
    /\ At("bad")
    /\ stack' = [stack EXCEPT ![Len(stack)].todo = << >>]
    /\ UNCHANGED <<source, pc, line, traps, last_status, exit_status, count, leaving>>

\* A program, or a builtin that changes none of this.
Run ==
    /\ At("run")
    /\ \E st \in Statuses : Finish(st)
    /\ UNCHANGED <<source, pc, line, traps, exit_status, count, leaving>>

\* builtin_trap; `-` and the empty string clear the trap, not the flag.
Trap ==
    /\ At("trap")
    /\ \/ \E c \in IntLines \cup {None} : traps' = [traps EXCEPT !.int = c]
       \/ \E c \in ExitLines \cup {None} : traps' = [traps EXCEPT !.exit = c]
    /\ Finish(0)
    /\ UNCHANGED <<source, pc, line, exit_status, count, leaving>>

\* A stage of a pipeline that is a builtin or function, or a substitution that
\* is expanded while the segment is parsed: both run in a forked child, with
\* the traps of the shell.
ForkChild ==
    /\ \E k \in Children, l \in ChildLines :
          /\ At(k)
          /\ Len(stack) < MaxStack
          /\ stack' = Append(stack, [Chain(k, l, -1) EXCEPT !.kept = traps])
    /\ UNCHANGED <<source, pc, line, traps, last_status, exit_status, count, leaving>>

\* The substitution of a segment has been expanded: what is left is to run it.
Expanded(f) == [f EXCEPT !.todo = <<[Head(@) EXCEPT !.cmd = "run"]>> \o Tail(@)]

\* A pipeline that cannot be forked fails, a substitution expands to nothing.
ForkFails ==
    /\ \/ At("stage") /\ Finish(1)
       \/ /\ At("substitution")
          /\ stack' = [stack EXCEPT ![Len(stack)] = Expanded(@)]
          /\ UNCHANGED last_status
    /\ UNCHANGED <<source, pc, line, traps, exit_status, count, leaving>>

-----------------------------------------------------------------------------
(* The end of a process.                                                   *)

\* The parent of the child at k goes on: a pipeline with the status of its
\* last stage, a substitution with that of the subshell, and its segment still
\* has to be run.
ParentGoesOn(k, code) ==
    /\ traps' = stack[k].kept
    /\ IF stack[k].kind = "stage"
       THEN \E st \in Statuses : stack' = Over(k - 1, st) /\ last_status' = st
       ELSE /\ stack' = [SubSeq(stack, 1, k - 1) EXCEPT ![k - 1] = Expanded(@)]
            /\ last_status' = code
    /\ UNCHANGED <<source, pc, line, exit_status, count, leaving>>

\* A mutant: the process returns $?, whatever exit was told.
ProcessEndsWithStatus(code) ==
    IF InChild THEN ParentGoesOn(LastChild, last_status)
    ELSE /\ pc' = "ended"
         /\ stack' = << >>
         /\ exit_status' = last_status
         /\ UNCHANGED <<source, line, traps, last_status, count>>

\* exit(code) or the return from main; a script returns $? as it is by then.
ProcessEnds(code) ==
    IF InChild THEN ParentGoesOn(LastChild, code)
    ELSE /\ pc' = "ended"
         /\ stack' = << >>
         /\ exit_status' = IF code = -1 THEN last_status ELSE code
         /\ UNCHANGED <<source, line, traps, last_status, count>>

\* The shell has begun to exit (a child does not count).
Begins(code) ==
    leaving' = IF InChild \/ leaving.began THEN leaving
               ELSE [trap |-> traps.exit, code |-> code, status |-> last_status, began |-> TRUE]

\* A mutant: exit without the EXIT trap.
LeaveAtOnce(code) ==
    /\ Begins(code)
    /\ ProcessEnds(code)

\* trap_run_exit and the exit that follows it.
Leave(code) ==
    /\ Begins(code)
    /\ IF traps.exit \in {None, << >>} THEN ProcessEnds(code)
       ELSE /\ Len(stack) < MaxStack
            /\ stack' = Append(stack, Chain("exit", traps.exit, code))
            /\ pc' = "run"
            /\ count' = IF InChild THEN count ELSE [count EXCEPT !.exit = @ + 1]
            /\ UNCHANGED <<source, line, traps, last_status, exit_status>>

\* builtin_exit, and builtin_exec when the program cannot be run.
Exit ==
    /\ At("exit") \/ At("exec")
    /\ \E code \in (IF Segment.cmd = "exec" THEN {1} ELSE Statuses) : Leave(code)

\* builtin_exec replaces the process; no trap is run.
ExecReplaces ==
    /\ At("exec")
    /\ \E code \in Statuses : ProcessEnds(code)
    /\ UNCHANGED leaving

\* The end of the terminal's input, or of the script.
EndOfInput ==
    /\ pc = "read" /\ source # "rc"
    /\ Leave(IF source = "script" THEN -1 ELSE 0)

\* A mutant: a process that has run its EXIT trap leaves once more.
ChainEndsAgain ==
    /\ pc = "run" /\ Top.todo = << >>
    /\ IF Top.kind = "exit" /\ traps.exit \notin {None, << >>}
       THEN /\ stack' = [stack EXCEPT ![Len(stack)].todo = traps.exit]
            /\ UNCHANGED <<source, pc, line, traps, last_status, exit_status, count>>
       ELSE CASE Top.kind \in {"line", "int"} ->
                   /\ pc' = "read" /\ stack' = << >>
                   /\ UNCHANGED <<source, line, traps, last_status, exit_status, count>>
              [] Top.kind = "exit" -> ProcessEnds(Top.code)
              [] Top.kind \in Children -> ProcessEnds(last_status)
    /\ UNCHANGED leaving

ChainEnds ==
    /\ pc = "run" /\ Top.todo = << >>
    /\ CASE Top.kind \in {"line", "int"} ->
              /\ pc' = "read" /\ stack' = << >>
              /\ UNCHANGED <<source, line, traps, last_status, exit_status, count>>
         [] Top.kind = "exit" -> ProcessEnds(Top.code)
         [] Top.kind \in Children -> ProcessEnds(last_status)
    /\ UNCHANGED leaving

-----------------------------------------------------------------------------
(* Ctrl+C.  It reaches the whole process group of the shell: the shell and, *)
(* inside each other, the substitutions it reads from.                      *)

StagesAt == {i \in ChildrenAt : stack[i].kind = "stage"}
FirstStage == CHOOSE i \in StagesAt : \A j \in StagesAt : i <= j

\* The traps of the shell itself, of which a child has a copy.
ShellTraps == IF InChild THEN stack[FirstChild].kept ELSE traps

Raised(t) == [t EXCEPT !.pending = TRUE]

\* sigint_handler in the shell: it records the signal if there is a trap, unless
\* a pipeline is in the foreground to be sent it.
Recording ==
    /\ InChild => stack[FirstChild].kind # "stage"
    /\ ShellTraps.int # None

\* The pipeline that the innermost of these processes waits for is ended by the
\* signal, or lives on and ends.
CtrlC ==
    /\ pc # "ended"
    /\ Recording \/ StagesAt # {}
    /\ Recording => count.ctrlc < MaxCtrlC
    /\ count' = IF Recording THEN [count EXCEPT !.ctrlc = @ + 1] ELSE count
    /\ \E st \in Statuses :
          LET left == IF StagesAt = {} THEN stack ELSE Over(FirstStage - 1, st)
              own  == IF StagesAt = {} THEN traps ELSE stack[FirstStage].kept
          IN /\ stack' = IF Recording /\ InChild
                         THEN [left EXCEPT ![FirstChild].kept = Raised(@)] ELSE left
             /\ traps' = IF Recording /\ ~InChild
                         THEN Raised(own) ELSE own
             /\ last_status' = IF StagesAt = {} THEN last_status ELSE st
    /\ UNCHANGED <<source, pc, line, exit_status, leaving>>

Reading == ReadFile \/ RcEnds \/ ReadTerminal \/ EndOfInput
Checking == CheckPending \/ CheckNothing
Executing ==
    \/ Skip \/ Empty \/ Bad \/ Run \/ Trap \/ ForkChild \/ ForkFails
    \/ Exit \/ ExecReplaces \/ ChainEnds

Next == Reading \/ Checking \/ Executing \/ CtrlC

Spec == Init /\ [][Next]_vars

\* The shell takes its steps, and the programs it waits for end.
FairSpec == Spec /\ WF_vars(Checking \/ Executing)

-----------------------------------------------------------------------------
(* Properties.                                                             *)

TrapCommands ==
    [int : IntLines \cup {None}, pending : BOOLEAN, exit : ExitLines \cup {None}]

Activation ==
    [kind : {"line", "int", "exit"} \cup Children, todo : Seq(Segments),
     status : Statuses, code : {-1, 0, 1}, kept : TrapCommands]

\* Every variable has its type, and a chain is running exactly when the shell
\* is in execute_chain.
TypeOK ==
    /\ source \in {"rc", "terminal", "script"}
    /\ pc \in {"read", "check", "run", "ended"}
    /\ line \in Lines \cup {<< >>}
    /\ stack \in Seq(Activation)
    /\ pc = "run" <=> stack # << >>
    /\ traps \in TrapCommands
    /\ last_status \in Statuses
    /\ exit_status \in {-1, 0, 1}
    /\ count \in [lines : Nat, dropped : Nat, ctrlc : Nat, exit : Nat]
    /\ leaving \in [trap : ExitLines \cup {None}, code : {-1, 0, 1},
                    status : Statuses, began : BOOLEAN]

\* A line that was typed is lost to the INT trap only for a Ctrl+C of its own:
\* several lines never pay for one, through children, exits and traps that
\* change the traps.
LostForACtrlC ==
    count.dropped + (IF ShellTraps.pending THEN 1 ELSE 0) <= count.ctrlc

\* Whichever way the shell exits, the EXIT trap it had by then has been run,
\* and once, provided that no EXIT trap exits itself.
ExitTrapOnce ==
    /\ count.exit <= 1
    /\ pc = "ended" /\ leaving.began /\ leaving.trap \notin {None, << >>} => count.exit = 1

\* The shell ends with the code it was told, also when the EXIT trap runs
\* commands after that.
ExitCodeKept ==
    pc = "ended" /\ leaving.began /\ leaving.code # -1 => exit_status = leaving.code

\* A script ends with the status of its last command.
ScriptStatusKept ==
    pc = "ended" /\ leaving.began /\ leaving.code = -1 => exit_status = leaving.status

\* The shell comes back to read a line or ends, whatever its traps do.
PromptOrEnd == []<>(pc \in {"read", "ended"})

\* Every line that is read is run.
NoLineLost == count.dropped = 0
=============================================================================
