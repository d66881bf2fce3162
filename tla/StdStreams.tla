---------------------------- MODULE StdStreams -----------------------------
(***************************************************************************)
(* Standard input, output and error of acsh and of the processes it forks: *)
(* redirections around builtins and functions, which run in the shell      *)
(* itself, pipelines, command substitutions, and the stdio buffer that     *)
(* each process has of its own and a fork copies (src/executor.c,          *)
(* src/subst.c, builtin_exit and builtin_exec).                            *)
(***************************************************************************)
EXTENDS Integers, FiniteSets, SequencesExt

CONSTANTS
    MaxProcs,          \* bound on the processes, the shell is 1
    MaxFd,             \* the largest descriptor a process may have
    MaxPrints,         \* bound on the lines that builtins print
    MaxFrames,         \* bound on redirected builtins and functions in each other
    MaxStages,         \* ACSH_MAX_CMDS
    LineBuffered,      \* stdio's mode of stdout: a terminal, or a file or pipe
    Redirections,      \* the redirections of the commands
    Habits             \* what the scripts do and what fails

ASSUME StdStreamsAssumption ==
    /\ MaxProcs \in Nat \ {0}
    /\ MaxFd \in Nat /\ MaxFd >= 3
    /\ MaxPrints \in Nat
    /\ MaxFrames \in Nat
    /\ MaxStages \in Nat \ {0}
    /\ LineBuffered \in BOOLEAN
    /\ Redirections \subseteq
         [files : [0..2 -> {"none", "opens", "missing"}],
          dup   : {<< >>} \cup ((0..2) \X (0..2))]
    /\ Habits \subseteq {"stage", "subst", "exec", "fail"}

Procs == 1..MaxProcs
FD    == 0..MaxFd
Shell == 1
None  == -1

\* What a descriptor stands for; a pipe is named for the process that made it
\* and the number of processes there were by then.
Std(k)         == [kind |-> k, by |-> 0, at |-> 0]
ReadEnd(p, n)  == [kind |-> "read", by |-> p, at |-> n]
WriteEnd(p, n) == [kind |-> "write", by |-> p, at |-> n]
Closed == Std("closed")
Places == {Std(k) : k \in {"closed", "stdin", "stdout", "stderr", "file"}}
          \cup [kind : {"read", "write"}, by : Procs, at : Procs]

VARIABLES
    fds,      \* the descriptors of each process
    buf,      \* the lines in its stdio buffer of stdout
    frames,   \* the RedirectSave of each redirected command it is running
    state,    \* what it is doing
    job,      \* the pipeline or substitution it is building or waiting for
    home,     \* history: the descriptors it began with
    belongs,  \* history: where stdout was when each line was printed
    written   \* history: the places each line was written to

vars == <<fds, buf, frames, state, job, home, belongs, written>>

States == {"none", "running", "building", "waiting", "reading", "child",
           "external", "dead"}
Saves  == [0..2 -> FD \cup {None}]
Jobs   == [left : 0..MaxStages, prev : FD \cup {None}, kids : SUBSET Procs]
NoJob  == [left |-> 0, prev |-> None, kids |-> {}]
Lines  == 1..MaxPrints

Free(d)    == {x \in FD : d[x] = Closed}
Lowest(S)  == CHOOSE x \in S : \A y \in S : x <= y
Forked     == Cardinality({p \in Procs : state[p] # "none"})
Live(p)    == state[p] \notin {"none", "external", "dead"}
Running(p) == state[p] = "running"

-----------------------------------------------------------------------------
(* Redirections.                                                           *)

\* Descriptor x becomes `place`; what it was is kept in `saved`, if that is not
\* None.
Replace(acc, x, saved, place) ==
    LET d == IF saved = None THEN acc.fds ELSE [acc.fds EXCEPT ![saved] = acc.fds[x]]
    IN  [acc EXCEPT !.fds = [d EXCEPT ![x] = place],
                    !.save = IF saved = None THEN @ ELSE [@ EXCEPT ![x] = saved]]

\* open, dup of what the descriptor was if it is kept, dup2 and close, as far
\* as there are descriptors; an open that fails ends it.
OpenFile(acc, x, file) ==
    LET free  == Free(acc.fds)
        rest  == free \ {Lowest(free)}
        saved == IF acc.keep /\ rest # {} THEN Lowest(rest) ELSE None
    IN  IF acc.failed \/ file = "none" THEN acc
        ELSE IF file = "missing" \/ free = {} THEN [acc EXCEPT !.failed = TRUE]
        ELSE Replace(acc, x, saved, Std("file"))

\* infile, outfile and errfile.
Opened(d, r, keep) ==
    LET start == [fds |-> d, save |-> [x \in 0..2 |-> None], failed |-> FALSE, keep |-> keep]
        in    == OpenFile(start, 0, r.files[0])
        out   == OpenFile(in, 1, r.files[1])
    IN  OpenFile(out, 2, r.files[2])

\* A mutant: N>&M saves nothing.
DuplicateUnsaved(acc, r) ==
    IF acc.failed \/ r.dup = << >> THEN acc
    ELSE [acc EXCEPT !.fds[r.dup[1]] = acc.fds[r.dup[2]]]

\* N>&M comes last: saved unless the file redirection did, and never for 0.
Duplicate(acc, r) ==
    IF acc.failed \/ r.dup = << >> THEN acc
    ELSE LET from  == r.dup[1]
             free  == Free(acc.fds)
             saved == IF acc.keep /\ from \in {1, 2} /\ acc.save[from] = None /\ free # {}
                      THEN Lowest(free) ELSE None
         IN  Replace(acc, from, saved, acc.fds[r.dup[2]])

apply_redirection_with_restore(d, r) == Duplicate(Opened(d, r, TRUE), r)

\* In a forked stage nothing is saved; what cannot be opened ends it.
apply_redirection(d, r) == Duplicate(Opened(d, r, FALSE), r)

redirect_restore(d, save) ==
    [x \in FD |-> IF x \in 0..2 /\ save[x] # None THEN d[save[x]]
                  ELSE IF \E y \in 0..2 : save[y] = x THEN Closed
                  ELSE d[x]]

-----------------------------------------------------------------------------
(* stdio.                                                                  *)

fflush(p) ==
    /\ written' = [t \in DOMAIN written |->
          IF \E i \in DOMAIN buf[p] : buf[p][i] = t
          THEN Append(written[t], fds[p][1]) ELSE written[t]]
    /\ buf' = [buf EXCEPT ![p] = << >>]

\* A builtin prints a line: it stays in the buffer until a flush or until the
\* buffer is full, which may be now.
PrintLine(p) ==
    /\ Running(p)
    /\ Len(belongs) < MaxPrints
    /\ belongs' = Append(belongs, fds[p][1])
    /\ LET t == Len(belongs) + 1
       IN  \/ /\ ~LineBuffered
              /\ buf' = [buf EXCEPT ![p] = Append(@, t)]
              /\ written' = Append(written, << >>)
           \/ /\ written' = Append([u \in DOMAIN written |->
                    IF \E i \in DOMAIN buf[p] : buf[p][i] = u
                    THEN Append(written[u], fds[p][1]) ELSE written[u]], <<fds[p][1]>>)
              /\ buf' = [buf EXCEPT ![p] = << >>]
    /\ UNCHANGED <<fds, frames, state, job, home>>

-----------------------------------------------------------------------------
Init ==
    /\ fds = [p \in Procs |-> [x \in FD |->
                IF p # Shell \/ x > 2 THEN Closed
                ELSE Std(CASE x = 0 -> "stdin" [] x = 1 -> "stdout" [] OTHER -> "stderr")]]
    /\ buf = [p \in Procs |-> << >>]
    /\ frames = [p \in Procs |-> << >>]
    /\ state = [p \in Procs |-> IF p = Shell THEN "running" ELSE "none"]
    /\ job = [p \in Procs |-> NoJob]
    /\ home = fds
    /\ belongs = << >>
    /\ written = << >>

(* A builtin or function with redirections; `Begin`, what it does, `End`.  *)

\* A mutant: no flush before the descriptors change.
BeginUnflushed(p, r) ==
    /\ Running(p) /\ Len(frames[p]) < MaxFrames
    /\ LET applied == apply_redirection_with_restore(fds[p], r)
       IN  /\ fds' = [fds EXCEPT ![p] = applied.fds]
           /\ frames' = [frames EXCEPT ![p] = Append(@, applied.save)]
    /\ UNCHANGED <<buf, written, state, job, home, belongs>>

Begin(p, r) ==
    /\ Running(p) /\ Len(frames[p]) < MaxFrames
    /\ fflush(p)
    /\ LET applied == apply_redirection_with_restore(fds[p], r)
       IN  /\ fds' = [fds EXCEPT ![p] = applied.fds]
           /\ frames' = [frames EXCEPT ![p] = Append(@, applied.save)]
    /\ UNCHANGED <<state, job, home, belongs>>

\* A mutant: stdout is not flushed before it is put back.
EndUnflushed(p) ==
    /\ Running(p) /\ frames[p] # << >>
    /\ fds' = [fds EXCEPT ![p] = redirect_restore(@, Last(frames[p]))]
    /\ frames' = [frames EXCEPT ![p] = Front(@)]
    /\ UNCHANGED <<buf, written, state, job, home, belongs>>

End(p) ==
    /\ Running(p) /\ frames[p] # << >>
    /\ fflush(p)
    /\ fds' = [fds EXCEPT ![p] = redirect_restore(@, Last(frames[p]))]
    /\ frames' = [frames EXCEPT ![p] = Front(@)]
    /\ UNCHANGED <<state, job, home, belongs>>

-----------------------------------------------------------------------------
(* Pipelines.  A child sets its descriptors up before it does anything that *)
(* another process could see, so a fork and the set-up are one step.       *)

\* A mutant: the loop over the commands goes one too far.
StartPipelineOneMore(p, n) ==
    /\ Running(p)
    /\ state' = [state EXCEPT ![p] = "building"]
    /\ job' = [job EXCEPT ![p] = [left |-> n + 1, prev |-> None, kids |-> {}]]
    /\ UNCHANGED <<fds, buf, frames, home, belongs, written>>

StartPipeline(p, n) ==
    /\ Running(p)
    /\ state' = [state EXCEPT ![p] = "building"]
    /\ job' = [job EXCEPT ![p] = [left |-> n, prev |-> None, kids |-> {}]]
    /\ UNCHANGED <<fds, buf, frames, home, belongs, written>>

Abort(p, d) ==
    /\ fds' = [fds EXCEPT ![p] = d]
    /\ state' = [state EXCEPT ![p] = "running"]
    /\ job' = [job EXCEPT ![p] = NoJob]
    /\ UNCHANGED <<buf, frames, home, belongs, written>>

HaveNext(p) == job[p].left > 1

PipeFails(p) ==
    /\ state[p] = "building" /\ HaveNext(p)
    /\ Cardinality(Free(fds[p])) < 2 \/ "fail" \in Habits
    /\ Abort(p, fds[p])

\* The descriptors with the pipe that this stage writes to, if another follows.
PipeEnds(p)  == LET a == Lowest(Free(fds[p])) IN <<a, Lowest(Free(fds[p]) \ {a})>>
WithPipe(p) ==
    IF HaveNext(p)
    THEN [fds[p] EXCEPT ![PipeEnds(p)[1]] = ReadEnd(p, Forked),
                        ![PipeEnds(p)[2]] = WriteEnd(p, Forked)]
    ELSE fds[p]

CanFork(p) ==
    /\ state[p] = "building" /\ job[p].left > 0
    /\ HaveNext(p) => Cardinality(Free(fds[p])) >= 2

ForkFails(p) ==
    /\ CanFork(p) /\ "fail" \in Habits
    /\ Abort(p, WithPipe(p))

\* What the child makes of prev_read_fd and pipefd.
StageFds(p) ==
    LET d == WithPipe(p)
        in(x) == IF job[p].prev = None THEN x
                 ELSE [x EXCEPT ![0] = d[job[p].prev], ![job[p].prev] = Closed]
        out(x) == IF HaveNext(p)
                  THEN [x EXCEPT ![1] = WriteEnd(p, Forked),
                                 ![PipeEnds(p)[1]] = Closed, ![PipeEnds(p)[2]] = Closed]
                  ELSE x
    IN  out(in(d))

\* What the shell keeps: the read end, for the next stage.
KeptFds(p) ==
    LET d == WithPipe(p)
        old(x) == IF job[p].prev = None THEN x ELSE [x EXCEPT ![job[p].prev] = Closed]
    IN  old(IF HaveNext(p) THEN [d EXCEPT ![PipeEnds(p)[2]] = Closed] ELSE d)

\* The last fork: the shell waits, unless it is `&` or the job is stopped.
AfterFork(p) == IF HaveNext(p) THEN {"building"} ELSE {"waiting", "running"}

\* A child gets a copy of the descriptors and of the buffer.
Child(p, q, s, its, kept) ==
    /\ q = Forked + 1 /\ q \in Procs
    /\ fds' = [fds EXCEPT ![p] = kept, ![q] = its]
    /\ home' = [home EXCEPT ![q] = its]
    /\ buf' = [buf EXCEPT ![q] = buf[p]]
    /\ state' = [state EXCEPT ![p] = s[1], ![q] = s[2]]
    /\ UNCHANGED <<frames, belongs, written>>

Stage(p, q) ==
    /\ CanFork(p)
    /\ \E s \in AfterFork(p) : Child(p, q, <<s, "child">>, StageFds(p), KeptFds(p))
    /\ job' = [job EXCEPT
                 ![p] = [left |-> @.left - 1,
                         prev |-> IF HaveNext(p) THEN PipeEnds(p)[1] ELSE None,
                         kids |-> @.kids \cup {q}],
                 ![q] = [NoJob EXCEPT !.left = job[p].left + Cardinality(job[p].kids)]]

\* waitpid has seen every stage.
Waited(p) ==
    /\ state[p] = "waiting"
    /\ \A q \in job[p].kids : state[q] = "dead"
    /\ state' = [state EXCEPT ![p] = "running"]
    /\ job' = [job EXCEPT ![p] = NoJob]
    /\ UNCHANGED <<fds, buf, frames, home, belongs, written>>

-----------------------------------------------------------------------------
(* The ways a process ends.                                                *)

Gone(p) == /\ state' = [state EXCEPT ![p] = "dead"]
           /\ fds' = [fds EXCEPT ![p] = [x \in FD |-> Closed]]
           /\ UNCHANGED <<frames, job, home, belongs>>

\* A mutant: a child that cannot run its program uses exit.
ChildFailsExit(p, r) ==
    /\ state[p] = "child"
    /\ fflush(p) /\ Gone(p)

\* A file that cannot be opened, or a program that is not found: _exit.
ChildFails(p, r) ==
    /\ state[p] = "child"
    /\ buf' = [buf EXCEPT ![p] = << >>] /\ Gone(p)
    /\ UNCHANGED written

\* The stage is a program: its image replaces the buffer.
ChildExecs(p, r) ==
    /\ state[p] = "child" /\ ~apply_redirection(fds[p], r).failed
    /\ fds' = [fds EXCEPT ![p] = apply_redirection(@, r).fds]
    /\ state' = [state EXCEPT ![p] = "external"]
    /\ buf' = [buf EXCEPT ![p] = << >>]
    /\ UNCHANGED <<frames, job, home, belongs, written>>

\* The stage is a builtin or a function, and not the only command.
ChildRuns(p, r) ==
    /\ state[p] = "child" /\ ~apply_redirection(fds[p], r).failed
    /\ "stage" \in Habits /\ job[p].left > 1
    /\ fds' = [fds EXCEPT ![p] = apply_redirection(@, r).fds]
    /\ home' = [home EXCEPT ![p] = fds'[p]]
    /\ state' = [state EXCEPT ![p] = "running"]
    /\ job' = [job EXCEPT ![p] = NoJob]
    /\ UNCHANGED <<buf, frames, belongs, written>>

ExternalExits(p) ==
    /\ state[p] = "external"
    /\ Gone(p) /\ UNCHANGED <<buf, written>>

\* A mutant: the end of the shell without a flush.
ExitAtOnce(p) ==
    /\ Running(p)
    /\ buf' = [buf EXCEPT ![p] = << >>] /\ Gone(p)
    /\ UNCHANGED written

\* `exit`, the end of the input, and the end of a forked stage or substitution.
Exit(p) == Running(p) /\ fflush(p) /\ Gone(p)

\* `exec PROGRAM`, found.
Exec(p) ==
    /\ "exec" \in Habits
    /\ Running(p)
    /\ state' = [state EXCEPT ![p] = "external"]
    /\ buf' = [buf EXCEPT ![p] = << >>]
    /\ UNCHANGED <<fds, frames, job, home, belongs, written>>

-----------------------------------------------------------------------------
(* command_substitute.                                                     *)

\* A mutant: the shell does not close the end that the subshell writes to.
SubstituteHolding(p, q) ==
    /\ "subst" \in Habits
    /\ Running(p)
    /\ Cardinality(Free(fds[p])) >= 2
    /\ LET r == PipeEnds(p)[1]
       IN  /\ Child(p, q, <<"reading", "running">>,
                    [fds[p] EXCEPT ![1] = WriteEnd(p, Forked)],
                    [fds[p] EXCEPT ![r] = ReadEnd(p, Forked),
                                   ![PipeEnds(p)[2]] = WriteEnd(p, Forked)])
           /\ job' = [job EXCEPT ![p] = [left |-> 0, prev |-> r, kids |-> {q}]]

Substitute(p, q) ==
    /\ "subst" \in Habits
    /\ Running(p)
    /\ Cardinality(Free(fds[p])) >= 2
    /\ LET r == PipeEnds(p)[1]
       IN  /\ Child(p, q, <<"reading", "running">>,
                    [fds[p] EXCEPT ![1] = WriteEnd(p, Forked)],
                    [fds[p] EXCEPT ![r] = ReadEnd(p, Forked)])
           /\ job' = [job EXCEPT ![p] = [left |-> 0, prev |-> r, kids |-> {q}]]

\* End of file, and then waitpid of the subshell.
EndOfFile(p) ==
    LET end == [fds[p][job[p].prev] EXCEPT !.kind = "write"]
    IN  \A q \in Procs, x \in FD : fds[q][x] # end

Substituted(p) ==
    /\ state[p] = "reading"
    /\ EndOfFile(p)
    /\ \A q \in job[p].kids : state[q] = "dead"
    /\ fds' = [fds EXCEPT ![p][job[p].prev] = Closed]
    /\ state' = [state EXCEPT ![p] = "running"]
    /\ job' = [job EXCEPT ![p] = NoJob]
    /\ UNCHANGED <<buf, frames, home, belongs, written>>

Next ==
    \E p \in Procs :
        \/ PrintLine(p) \/ End(p) \/ PipeFails(p) \/ ForkFails(p) \/ Waited(p)
        \/ ExternalExits(p) \/ Exit(p) \/ Exec(p) \/ Substituted(p)
        \/ \E r \in Redirections : Begin(p, r)
        \/ \E n \in 1..MaxStages : StartPipeline(p, n)
        \/ \E q \in Procs : Stage(p, q) \/ Substitute(p, q)
        \/ \E r \in Redirections :
              ChildFails(p, r) \/ ChildExecs(p, r) \/ ChildRuns(p, r)

Spec == Init /\ [][Next]_vars

-----------------------------------------------------------------------------
(* Properties.                                                             *)

\* Every variable has its type; each line is in at most one place of a buffer.
TypeOK ==
    /\ fds \in [Procs -> [FD -> Places]] /\ home \in [Procs -> [FD -> Places]]
    /\ \A p \in Procs : \A x \in 0..2 : Live(p) => fds[p][x] # Closed
    /\ buf \in [Procs -> Seq(Lines)]
    /\ \A p \in Procs : IsInjective(buf[p])
    /\ frames \in [Procs -> Seq(Saves)]
    /\ state \in [Procs -> States]
    /\ job \in [Procs -> Jobs]
    /\ belongs \in Seq(Places) /\ written \in Seq(Seq(Places))
    /\ Len(written) = Len(belongs) /\ Len(belongs) <= MaxPrints

\* What a builtin prints goes where stdout was when it printed it, not to what
\* stdout became later or to a process forked later.
WrittenWhereItBelongs ==
    \A t \in DOMAIN written : \A i \in DOMAIN written[t] : written[t][i] = belongs[t]

\* No line is written by two processes.
AtMostOnce == \A t \in DOMAIN written : Len(written[t]) <= 1

\* A line that is not written yet is still in a buffer that will be flushed.
NothingLost ==
    \A t \in DOMAIN written : written[t] = << >> =>
        \E p \in Procs : Live(p) /\ \E i \in DOMAIN buf[p] : buf[p][i] = t

\* Outside redirected commands, pipelines and substitutions a process has the
\* descriptors it began with: the streams are put back and nothing is left open.
DescriptorsRestored ==
    \A p \in Procs : Running(p) /\ frames[p] = << >> => fds[p] = home[p]

\* While a process waits for a pipeline or reads a substitution, it holds no
\* end of a pipe that it made but the one it reads, so readers get to the end
\* of the file and writers are told that nobody reads.
OwnPipesClosed ==
    \A p \in Procs : state[p] \in {"waiting", "reading"} =>
        \A x \in FD : fds[p][x].by = p => state[p] = "reading" /\ x = job[p].prev

=============================================================================
