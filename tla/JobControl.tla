----------------------------- MODULE JobControl -----------------------------
(***************************************************************************)
(* Job control in acsh: the main thread of control (execute_pipeline, fg,  *)
(* bg, jobs, command), the SIGCHLD handler that interrupts it, and the     *)
(* children.  The main program is cut into one step per point at which the *)
(* handler, a child or the keyboard can act: its system calls and its      *)
(* writes to state the handler reads.  The kernel's processes, groups and  *)
(* waitpid are external, modelled as the code uses them.                   *)
(***************************************************************************)
EXTENDS JobTable, FiniteSets

CONSTANTS
    ShellPgrp,  \* the process group of the shell itself, the terminal's group
    MaxStages,  \* ACSH_MAX_CMDS, the longest pipeline
    ExitCodes,  \* the exit values of the programs that are run
    UserCmds,   \* which kinds of command the user types
    EnvEvents,  \* which of "ctrlc", "ctrlz", "stop", "cont", "kill" occur
    MayFail,    \* whether pipe() and fork() may fail
    PidReuse,   \* whether the kernel hands out the pid of a reaped process again
    MaxJobId    \* bound on next_job_id, for TLC only

ASSUME JobControlAssumption ==
    /\ ShellPgrp \notin Pids \cup {NoPid}
    /\ MaxStages \in Nat \ {0}
    /\ ExitCodes \subseteq 0..255
    /\ UserCmds \subseteq {"run", "run&", "fg", "bg", "jobs", "command"}
    /\ EnvEvents \subseteq {"ctrlc", "ctrlz", "stop", "cont", "kill"}
    /\ MayFail \in BOOLEAN
    /\ PidReuse \in BOOLEAN
    /\ MaxJobId \in Nat

VARIABLES
    pc,               \* where the main program is
    job_table,        \* src/jobs.c: job_table
    next_job_id,      \* src/jobs.c: next_job_id
    foreground_pgid,  \* src/signals.c: foreground_pgid
    sigchld_blocked,  \* SIGCHLD is in the shell's signal mask
    sigchld_pending,  \* SIGCHLD has been raised and not yet delivered
    in_handler,       \* the main program is interrupted by sigchld_handler
    proc,             \* the kernel's view of each child
    pl,               \* locals of the pipeline, fg or command being run
    last_status       \* $?

vars == <<pc, job_table, next_job_id, foreground_pgid, sigchld_blocked,
          sigchld_pending, in_handler, proc, pl, last_status>>

-----------------------------------------------------------------------------
(* The kernel: children, groups, wait statuses.                            *)

SIGINT  == 2
SIGKILL == 9

Exited(c)   == [kind |-> "exited", val |-> c]
Signaled(s) == [kind |-> "signaled", val |-> s]

Statuses == {Exited(c) : c \in ExitCodes \cup {0}}
                \cup {Signaled(s) : s \in {SIGINT, SIGKILL}}

\* "forked" has not yet called reset_child_signals and setpgid; "stopped" has
\* a stop report to give and "parked" has given it; "zombie" is to be reaped.
ProcStates == {"free", "forked", "running", "stopped", "parked", "zombie", "reaped"}

Alive(p)      == proc[p].st \in {"forked", "running", "stopped", "parked"}
Unreaped(p)   == Alive(p) \/ proc[p].st = "zombie"
Reportable(p) == proc[p].st \in {"stopped", "zombie"}

InGroup(g) == {p \in Pids : Unreaped(p) /\ proc[p].pgrp = g}

\* What getpgid(p) returns in the process map pr: it fails once p is reaped.
getpgid(pr, p) == IF pr[p].st \in {"free", "reaped"} THEN NoPid ELSE pr[p].pgrp

\* A pid is not handed out while a process, or a group named by it, exists.
PidAvailable(p) ==
    \/ proc[p].st = "free"
    \/ PidReuse /\ proc[p].st = "reaped" /\ InGroup(p) = {}

\* fork: the child starts in the shell's group, and will move itself to tgt.
Fork(p, tgt) ==
    proc' = [proc EXCEPT ![p] = [st |-> "forked", pgrp |-> ShellPgrp,
                                 target |-> tgt, status |-> Exited(0)]]

\* The report on p is taken by some waitpid: a zombie goes, a stop is reported.
Taken(p) ==
    [proc EXCEPT ![p] = IF @.st = "zombie"
                        THEN [@ EXCEPT !.st = "reaped", !.pgrp = NoPid]
                        ELSE [@ EXCEPT !.st = "parked"]]

\* What waitpid(-g, WUNTRACED) can return now; NoPid is ECHILD.
waitpid(g) ==
    IF InGroup(g) = {} THEN {NoPid} ELSE {p \in InGroup(g) : Reportable(p)}

\* kill(-g, SIGCONT); a process that is resumed raises SIGCHLD in its parent.
Continue(g) ==
    /\ proc' = [p \in Pids |->
                  IF p \in InGroup(g) /\ proc[p].st \in {"stopped", "parked"}
                  THEN [proc[p] EXCEPT !.st = "running"] ELSE proc[p]]
    /\ sigchld_pending' = (sigchld_pending
          \/ \E p \in InGroup(g) : proc[p].st \in {"stopped", "parked"})

status_to_exit_code(status) ==
    IF status.kind = "exited" THEN status.val ELSE 128 + status.val

-----------------------------------------------------------------------------
(* The main program at its prompt.                                         *)

NoPipeline == [n |-> 0, background |-> FALSE, pids |-> <<>>, pgid |-> NoPid,
               remaining |-> 0, code |-> 0]

Init ==
    /\ pc = "prompt"
    /\ job_table = [i \in Slots |-> NoJob]
    /\ next_job_id = 1
    /\ foreground_pgid = NoPid
    /\ sigchld_blocked = FALSE
    /\ sigchld_pending = FALSE
    /\ in_handler = FALSE
    /\ proc = [p \in Pids |-> [st |-> "free", pgrp |-> NoPid,
                               target |-> NoPid, status |-> Exited(0)]]
    /\ pl = NoPipeline
    /\ last_status = 0

\* A waitpid that is already in the kernel takes the report that woke it up
\* before the signal is delivered.
WaitpidTakesIt ==
    \/ pc = "fgwait" /\ waitpid(pl.pgid) # {}
    \/ pc = "cmdwait" /\ proc[pl.pids[1]].st = "zombie"

\* Otherwise an unblocked SIGCHLD interrupts the main program before its next
\* step; sigprocmask delivers one that was pending before it returns.
Deliverable == sigchld_pending /\ ~sigchld_blocked /\ ~WaitpidTakesIt

At(label) == pc = label /\ ~in_handler /\ ~Deliverable

\* Back to the prompt: execute_chain stores the status of the pipeline in $?.
Return(status) ==
    /\ pc' = "prompt"
    /\ pl' = NoPipeline
    /\ last_status' = status

-----------------------------------------------------------------------------
(* execute_pipeline, from block_sigchld on: one external command per stage. *)

\* Mutants: SIGCHLD is not blocked at all, or for foreground pipelines only.
StartPipelineWith(Block(_)) ==
    /\ At("prompt")
    /\ next_job_id <= MaxJobId
    /\ \E n \in 1..MaxStages, bg \in BOOLEAN :
        /\ (IF bg THEN "run&" ELSE "run") \in UserCmds
        /\ pl' = [NoPipeline EXCEPT !.n = n, !.background = bg]
        /\ sigchld_blocked' = Block(bg)
    /\ pc' = "fork"
    /\ UNCHANGED <<job_table, next_job_id, foreground_pgid, sigchld_pending,
                   in_handler, proc, last_status>>

StartUnblocked == StartPipelineWith(LAMBDA bg : FALSE)
StartBackgroundUnblocked == StartPipelineWith(LAMBDA bg : ~bg)


StartPipeline ==
    /\ At("prompt")
    /\ next_job_id <= MaxJobId
    /\ \E n \in 1..MaxStages, bg \in BOOLEAN :
        /\ (IF bg THEN "run&" ELSE "run") \in UserCmds
        /\ pl' = [NoPipeline EXCEPT !.n = n, !.background = bg]
    /\ pc' = "fork"
    /\ sigchld_blocked' = TRUE
    /\ UNCHANGED <<job_table, next_job_id, foreground_pgid, sigchld_pending,
                   in_handler, proc, last_status>>

\* Mutant: the first child's pid is not kept as the group's.
ForkStageNoPgid ==
    /\ At("fork")
    /\ \E p \in Pids :
        /\ PidAvailable(p)
        /\ Fork(p, IF pl.pgid = NoPid THEN p ELSE pl.pgid)
        /\ pl' = [pl EXCEPT !.pids = Append(@, p)]
    /\ pc' = "setpgid"
    /\ UNCHANGED <<job_table, next_job_id, foreground_pgid, sigchld_blocked,
                   sigchld_pending, in_handler, last_status>>


ForkStage ==
    /\ At("fork")
    /\ \E p \in Pids :
        /\ PidAvailable(p)
        /\ Fork(p, IF pl.pgid = NoPid THEN p ELSE pl.pgid)
        /\ pl' = [pl EXCEPT !.pids = Append(@, p),
                            !.pgid = IF @ = NoPid THEN p ELSE @]
    /\ pc' = "setpgid"
    /\ UNCHANGED <<job_table, next_job_id, foreground_pgid, sigchld_blocked,
                   sigchld_pending, in_handler, last_status>>

\* Mutant: the error path forgets unblock_sigchld.
ForkFailsBlocked ==
    /\ At("fork")
    /\ MayFail \/ \A p \in Pids : ~PidAvailable(p)
    /\ Return(1)
    /\ UNCHANGED <<job_table, next_job_id, foreground_pgid, sigchld_blocked,
                   sigchld_pending, in_handler, proc>>

\* pipe() or fork() fails: the stages already forked are left on their own.
ForkFails ==
    /\ At("fork")
    /\ MayFail \/ \A p \in Pids : ~PidAvailable(p)
    /\ sigchld_blocked' = FALSE
    /\ Return(1)
    /\ UNCHANGED <<job_table, next_job_id, foreground_pgid, sigchld_pending,
                   in_handler, proc>>

\* setpgid(pid, g) succeeds when it makes a group or joins one that exists.
CanJoin(p, g) == g = p \/ g = ShellPgrp \/ InGroup(g) # {}

Moved(p, g) ==
    IF CanJoin(p, g) THEN [proc EXCEPT ![p].pgrp = g] ELSE proc

\* Mutant: only the child calls setpgid.
ChildOnlySetpgid ==
    /\ At("setpgid")
    /\ pc' = IF Len(pl.pids) < pl.n THEN "fork"
             ELSE IF pl.background THEN "background" ELSE "setfg"
    /\ UNCHANGED <<job_table, next_job_id, foreground_pgid, sigchld_blocked,
                   sigchld_pending, in_handler, proc, pl, last_status>>


ParentSetpgid ==
    /\ At("setpgid")
    /\ LET p == pl.pids[Len(pl.pids)] IN
        proc' = IF Unreaped(p) THEN Moved(p, pl.pgid) ELSE proc
    /\ pc' = IF Len(pl.pids) < pl.n THEN "fork"
             ELSE IF pl.background THEN "background" ELSE "setfg"
    /\ UNCHANGED <<job_table, next_job_id, foreground_pgid, sigchld_blocked,
                   sigchld_pending, in_handler, pl, last_status>>

\* `cmd &`: register the job, unblock SIGCHLD, and report success at once.
RegisterBackground ==
    /\ At("background")
    /\ job_table' = jobs_add(job_table, next_job_id, pl.pgid, pl.pids)
    /\ next_job_id' = IdAfterAdd(job_table, next_job_id)
    /\ sigchld_blocked' = FALSE
    /\ Return(0)
    /\ UNCHANGED <<foreground_pgid, sigchld_pending, in_handler, proc>>

SetForeground ==
    /\ At("setfg")
    /\ foreground_pgid' = pl.pgid
    /\ pl' = [pl EXCEPT !.remaining = pl.n]
    /\ pc' = "wait"
    /\ UNCHANGED <<job_table, next_job_id, sigchld_blocked, sigchld_pending,
                   in_handler, proc, last_status>>

\* One turn of the wait loop in which waitpid reports an exit, or fails.
WaitExit ==
    /\ At("wait")
    /\ \E w \in waitpid(pl.pgid) :
        IF w = NoPid
        THEN pc' = "unblock" /\ UNCHANGED <<proc, pl>>
        ELSE /\ proc[w].st = "zombie"
             /\ proc' = Taken(w)
             /\ pl' = [pl EXCEPT
                    !.remaining = @ - 1,
                    !.code = IF w = pl.pids[pl.n]
                             THEN status_to_exit_code(proc[w].status) ELSE @]
             /\ pc' = IF pl.remaining = 1 THEN "unblock" ELSE "wait"
    /\ UNCHANGED <<job_table, next_job_id, foreground_pgid, sigchld_blocked,
                   sigchld_pending, in_handler, last_status>>

\* Mutants: the stopped job is marked before it is registered; the loop goes
\* on waiting after a stop.
WaitStopWith(tbl, next) ==
    /\ At("wait")
    /\ \E w \in waitpid(pl.pgid) \ {NoPid} :
        /\ proc[w].st = "stopped"
        /\ proc' = Taken(w)
    /\ job_table' = tbl
    /\ next_job_id' = IdAfterAdd(job_table, next_job_id)
    /\ pc' = next
    /\ UNCHANGED <<foreground_pgid, sigchld_blocked, sigchld_pending,
                   in_handler, pl, last_status>>

MarkThenAdd ==
    WaitStopWith(jobs_add(jobs_mark_stopped(job_table, pl.pgid), next_job_id,
                          pl.pgid, pl.pids), "unblock")
KeepWaiting ==
    WaitStopWith(jobs_mark_stopped(jobs_add(job_table, next_job_id, pl.pgid,
                                            pl.pids), pl.pgid), "wait")

\* One turn in which a stage has stopped: register a stopped job and go on.
WaitStop ==
    /\ At("wait")
    /\ \E w \in waitpid(pl.pgid) \ {NoPid} :
        /\ proc[w].st = "stopped"
        /\ proc' = Taken(w)
    /\ job_table' = jobs_mark_stopped(
            jobs_add(job_table, next_job_id, pl.pgid, pl.pids), pl.pgid)
    /\ next_job_id' = IdAfterAdd(job_table, next_job_id)
    /\ pc' = "unblock"
    /\ UNCHANGED <<foreground_pgid, sigchld_blocked, sigchld_pending,
                   in_handler, pl, last_status>>

Unblock ==
    /\ At("unblock")
    /\ sigchld_blocked' = FALSE
    /\ pc' = "clearfg"
    /\ UNCHANGED <<job_table, next_job_id, foreground_pgid, sigchld_pending,
                   in_handler, proc, pl, last_status>>

ClearForeground ==
    /\ At("clearfg")
    /\ foreground_pgid' = NoPid
    /\ Return(pl.code)
    /\ UNCHANGED <<job_table, next_job_id, sigchld_blocked, sigchld_pending,
                   in_handler, proc>>

-----------------------------------------------------------------------------
(* fg, bg, jobs and command.  j->pgid and j->num_pids do not change while  *)
(* fg or bg holds the job, so its group is kept in pl.                     *)

\* resolve_job_arg: argument 0 stands for no argument, the most recent job.
resolve_job_arg(arg) ==
    IF arg = 0 THEN jobs_find_most_recent(job_table)
               ELSE jobs_find_by_id(job_table, arg)

\* fg and bg up to kill(-pgid, SIGCONT), which goes to the whole group.
Resume(cmd, next) ==
    /\ At("prompt")
    /\ cmd \in UserCmds
    /\ \E arg \in 0..MaxJobId + 1 : \E j \in resolve_job_arg(arg) :
        /\ Continue(job_table[j].pgid)
        /\ pl' = [NoPipeline EXCEPT !.n = Len(job_table[j].pids),
                                    !.pgid = job_table[j].pgid]
    /\ pc' = next
    /\ UNCHANGED <<job_table, next_job_id, foreground_pgid, sigchld_blocked,
                   in_handler, last_status>>

NoSuchJob ==
    /\ At("prompt")
    /\ UserCmds \cap {"fg", "bg"} # {}
    /\ \E arg \in 0..MaxJobId + 1 : resolve_job_arg(arg) = {}
    /\ Return(1)
    /\ UNCHANGED <<job_table, next_job_id, foreground_pgid, sigchld_blocked,
                   sigchld_pending, in_handler, proc>>

BgResume == Resume("bg", "bgmark")
FgResume == Resume("fg", "fgmark")

BgMark ==
    /\ At("bgmark")
    /\ job_table' = jobs_mark_running(job_table, pl.pgid)
    /\ Return(0)
    /\ UNCHANGED <<next_job_id, foreground_pgid, sigchld_blocked,
                   sigchld_pending, in_handler, proc>>

FgMark ==
    /\ At("fgmark")
    /\ job_table' = jobs_mark_running(job_table, pl.pgid)
    /\ pc' = "fgset"
    /\ UNCHANGED <<next_job_id, foreground_pgid, sigchld_blocked,
                   sigchld_pending, in_handler, proc, pl, last_status>>

FgSet ==
    /\ At("fgset")
    /\ foreground_pgid' = pl.pgid
    /\ pl' = [pl EXCEPT !.remaining = pl.n]
    /\ pc' = "fgcall"
    /\ UNCHANGED <<job_table, next_job_id, sigchld_blocked, sigchld_pending,
                   in_handler, proc, last_status>>

\* fg leaves SIGCHLD open, so the handler may still run before waitpid is in
\* the kernel ("fgcall"); once there ("fgwait") waitpid takes a report first.
FgCall ==
    /\ At("fgcall")
    /\ pc' = "fgwait"
    /\ UNCHANGED <<job_table, next_job_id, foreground_pgid, sigchld_blocked,
                   sigchld_pending, in_handler, proc, pl, last_status>>

FgExit ==
    /\ At("fgwait")
    /\ \E w \in waitpid(pl.pgid) \ {NoPid} :
        /\ proc[w].st = "zombie"
        /\ proc' = Taken(w)
    /\ pl' = [pl EXCEPT !.remaining = @ - 1]
    /\ pc' = IF pl.remaining = 1 THEN "fgclear" ELSE "fgcall"
    /\ UNCHANGED <<job_table, next_job_id, foreground_pgid, sigchld_blocked,
                   sigchld_pending, in_handler, last_status>>

FgStop ==
    /\ At("fgwait")
    /\ \E w \in waitpid(pl.pgid) \ {NoPid} :
        /\ proc[w].st = "stopped"
        /\ proc' = Taken(w)
    /\ job_table' = jobs_mark_stopped(job_table, pl.pgid)
    /\ pc' = "fgclear"
    /\ UNCHANGED <<next_job_id, foreground_pgid, sigchld_blocked,
                   sigchld_pending, in_handler, pl, last_status>>

\* Mutant: the loop of fg does not stop when waitpid fails.
FgEchildGoesOn ==
    /\ At("fgwait")
    /\ NoPid \in waitpid(pl.pgid)
    /\ pc' = "fgcall"
    /\ UNCHANGED <<job_table, next_job_id, foreground_pgid, sigchld_blocked,
                   sigchld_pending, in_handler, proc, pl, last_status>>


FgEchild ==
    /\ At("fgwait")
    /\ NoPid \in waitpid(pl.pgid)
    /\ pc' = "fgclear"
    /\ UNCHANGED <<job_table, next_job_id, foreground_pgid, sigchld_blocked,
                   sigchld_pending, in_handler, proc, pl, last_status>>

FgClear ==
    /\ At("fgclear")
    /\ foreground_pgid' = NoPid
    /\ Return(0)
    /\ UNCHANGED <<job_table, next_job_id, sigchld_blocked, sigchld_pending,
                   in_handler, proc>>

Jobs ==
    /\ At("prompt")
    /\ "jobs" \in UserCmds
    /\ job_table' = jobs_cleanup_done(job_table)
    /\ Return(0)
    /\ UNCHANGED <<next_job_id, foreground_pgid, sigchld_blocked,
                   sigchld_pending, in_handler, proc>>

\* `command NAME`: the child stays in the shell's group, SIGCHLD stays open.
CommandFork ==
    /\ At("prompt")
    /\ "command" \in UserCmds
    /\ next_job_id <= MaxJobId
    /\ \E p \in Pids :
        /\ PidAvailable(p)
        /\ Fork(p, ShellPgrp)
        /\ pl' = [NoPipeline EXCEPT !.n = 1, !.pids = <<p>>]
    /\ pc' = "cmdcall"
    /\ UNCHANGED <<job_table, next_job_id, foreground_pgid, sigchld_blocked,
                   sigchld_pending, in_handler, last_status>>

CommandForkFails ==
    /\ At("prompt")
    /\ "command" \in UserCmds
    /\ MayFail
    /\ Return(1)
    /\ UNCHANGED <<job_table, next_job_id, foreground_pgid, sigchld_blocked,
                   sigchld_pending, in_handler, proc>>

CommandCall ==
    /\ At("cmdcall")
    /\ pc' = "cmdwait"
    /\ UNCHANGED <<job_table, next_job_id, foreground_pgid, sigchld_blocked,
                   sigchld_pending, in_handler, proc, pl, last_status>>

\* waitpid(pid, &status, 0) returns the child's exit and nothing else.
CommandExit ==
    /\ At("cmdwait")
    /\ LET p == pl.pids[1] IN
        /\ proc[p].st = "zombie"
        /\ proc' = Taken(p)
        /\ Return(IF proc[p].status.kind = "exited" THEN proc[p].status.val ELSE 1)
    /\ UNCHANGED <<job_table, next_job_id, foreground_pgid, sigchld_blocked,
                   sigchld_pending, in_handler>>

\* The handler took the child: status was never written, and holds anything.
CommandEchild ==
    /\ At("cmdwait")
    /\ proc[pl.pids[1]].st = "reaped"
    /\ \E garbage \in ExitCodes \cup {1} : Return(garbage)
    /\ UNCHANGED <<job_table, next_job_id, foreground_pgid, sigchld_blocked,
                   sigchld_pending, in_handler, proc>>

ShellStep ==
    \/ ForkStage \/ ForkFails \/ ParentSetpgid \/ RegisterBackground
    \/ SetForeground \/ WaitExit \/ WaitStop \/ Unblock \/ ClearForeground
    \/ BgMark \/ FgMark \/ FgSet \/ FgCall \/ FgExit \/ FgStop \/ FgEchild \/ FgClear
    \/ CommandCall \/ CommandExit \/ CommandEchild

UserStep ==
    \/ StartPipeline \/ BgResume \/ FgResume \/ NoSuchJob \/ Jobs
    \/ CommandFork \/ CommandForkFails

-----------------------------------------------------------------------------
(* sigchld_handler, which interrupts the main program.                     *)

HandlerEnter ==
    /\ Deliverable
    /\ ~in_handler
    /\ in_handler' = TRUE
    /\ sigchld_pending' = FALSE
    /\ UNCHANGED <<pc, job_table, next_job_id, foreground_pgid,
                   sigchld_blocked, proc, pl, last_status>>

\* Mutant: every report is taken for an exit.
HandlerReapAnyExit ==
    /\ in_handler
    /\ \E p \in Pids :
        /\ Reportable(p)
        /\ proc' = Taken(p)
        /\ job_table' = jobs_mark_done(job_table, p)
    /\ UNCHANGED <<pc, next_job_id, foreground_pgid, sigchld_blocked,
                   sigchld_pending, in_handler, pl, last_status>>

\* One turn of the loop: waitpid(-1, WNOHANG | WUNTRACED), then getpgid,
\* which fails for a process that this very waitpid has reaped.
HandlerReap ==
    /\ in_handler
    /\ \E p \in Pids :
        /\ Reportable(p)
        /\ proc' = Taken(p)
        /\ LET g == getpgid(Taken(p), p)
               pgid == IF g = NoPid THEN p ELSE g
           IN  job_table' = IF proc[p].st = "stopped"
                            THEN jobs_mark_stopped(job_table, pgid)
                            ELSE jobs_mark_done(job_table, pgid)
    /\ UNCHANGED <<pc, next_job_id, foreground_pgid, sigchld_blocked,
                   sigchld_pending, in_handler, pl, last_status>>

\* Mutant: waitpid is called once per signal instead of in a loop.
HandlerReturnEarly ==
    /\ in_handler
    /\ in_handler' = FALSE
    /\ UNCHANGED <<pc, job_table, next_job_id, foreground_pgid,
                   sigchld_blocked, sigchld_pending, proc, pl, last_status>>


HandlerReturn ==
    /\ in_handler
    /\ \A p \in Pids : ~Reportable(p)
    /\ in_handler' = FALSE
    /\ UNCHANGED <<pc, job_table, next_job_id, foreground_pgid,
                   sigchld_blocked, sigchld_pending, proc, pl, last_status>>

HandlerStep == HandlerEnter \/ HandlerReap \/ HandlerReturn

-----------------------------------------------------------------------------
(* The children and the keyboard.                                          *)

shellVars == <<pc, job_table, next_job_id, foreground_pgid, sigchld_blocked,
               in_handler, pl, last_status>>

\* The child's reset_child_signals and setpgid(0, my_pgid), then its program.
ChildSetup(p) ==
    /\ proc[p].st = "forked"
    /\ proc' = [Moved(p, proc[p].target) EXCEPT ![p].st = "running"]
    /\ UNCHANGED <<shellVars, sigchld_pending>>

Die(S, status) ==
    proc' = [p \in Pids |-> IF p \in S THEN [proc[p] EXCEPT !.st = "zombie",
                                                            !.status = status]
                                       ELSE proc[p]]

ChildExit(p) ==
    /\ proc[p].st = "running"
    /\ \E c \in ExitCodes : Die({p}, Exited(c))
    /\ sigchld_pending' = TRUE
    /\ UNCHANGED shellVars

\* kill -KILL from elsewhere.
Killed(p) ==
    /\ "kill" \in EnvEvents
    /\ Alive(p)
    /\ Die({p}, Signaled(SIGKILL))
    /\ sigchld_pending' = TRUE
    /\ UNCHANGED shellVars

\* kill -STOP from elsewhere, or a read from the terminal in the background.
StoppedBySignal(p) ==
    /\ "stop" \in EnvEvents
    /\ proc[p].st = "running"
    /\ proc' = [proc EXCEPT ![p].st = "stopped"]
    /\ sigchld_pending' = TRUE
    /\ UNCHANGED shellVars

\* kill -CONT from elsewhere.
ContinuedBySignal(p) ==
    /\ "cont" \in EnvEvents
    /\ proc[p].st \in {"stopped", "parked"}
    /\ proc' = [proc EXCEPT ![p].st = "running"]
    /\ sigchld_pending' = TRUE
    /\ UNCHANGED shellVars

\* The terminal signals the shell's group, and the handlers of the shell pass
\* the signal on to the foreground group.
KeyboardReaches == InGroup(ShellPgrp)
    \cup (IF foreground_pgid = NoPid THEN {} ELSE InGroup(foreground_pgid))

\* A child that has not reset its handlers ignores the key, as the shell does;
\* a stage that has reset them, and not yet moved to its group, does not: any
\* of the stages still setting up.  A stopped process holds SIGINT until it is
\* continued.
KeyboardTakes ==
    {S \in SUBSET KeyboardReaches :
        /\ S # {}
        /\ \A p \in KeyboardReaches : proc[p].st = "running" => p \in S
        /\ \A p \in S : \/ proc[p].st = "running"
                        \/ proc[p].st = "forked" /\ proc[p].target # ShellPgrp}

CtrlC ==
    /\ "ctrlc" \in EnvEvents
    /\ \E S \in KeyboardTakes : Die(S, Signaled(SIGINT))
    /\ sigchld_pending' = TRUE
    /\ UNCHANGED shellVars

CtrlZ ==
    /\ "ctrlz" \in EnvEvents
    /\ \E S \in KeyboardTakes :
        proc' = [p \in Pids |-> IF p \in S THEN [proc[p] EXCEPT !.st = "stopped"]
                                            ELSE proc[p]]
    /\ sigchld_pending' = TRUE
    /\ UNCHANGED shellVars

ChildStep(p) == ChildSetup(p) \/ ChildExit(p)

EnvStep ==
    \/ CtrlC \/ CtrlZ
    \/ \E p \in Pids : Killed(p) \/ StoppedBySignal(p) \/ ContinuedBySignal(p)

-----------------------------------------------------------------------------
Next == ShellStep \/ UserStep \/ HandlerStep \/ EnvStep \/ \E p \in Pids : ChildStep(p)

Spec == Init /\ [][Next]_vars

\* The kernel runs the shell, delivers its signals, and runs its children.
\* That programs exit when they run is an assumption on the programs.
Fairness ==
    /\ WF_vars(ShellStep)
    /\ WF_vars(HandlerStep)
    /\ \A p \in Pids : WF_vars(ChildStep(p))

FairSpec == Spec /\ Fairness

-----------------------------------------------------------------------------
(* Properties.                                                             *)

Procs == [st : ProcStates, pgrp : Pids \cup {NoPid, ShellPgrp},
          target : Pids \cup {NoPid, ShellPgrp}, status : Statuses]

Labels == {"prompt", "fork", "setpgid", "background", "setfg", "wait", "unblock",
           "clearfg", "bgmark", "fgmark", "fgset", "fgcall", "fgwait", "fgclear",
           "cmdcall", "cmdwait"}

PipelineLocals == [n : Nat, background : BOOLEAN, pids : Seq(Pids),
                   pgid : Pids \cup {NoPid}, remaining : Int, code : Nat]

\* Every variable keeps the type its C declaration gives it.
TypeOK ==
    /\ pc \in Labels
    /\ job_table \in Tables
    /\ next_job_id \in Nat \ {0}
    /\ foreground_pgid \in Pids \cup {NoPid}
    /\ sigchld_blocked \in BOOLEAN
    /\ sigchld_pending \in BOOLEAN
    /\ in_handler \in BOOLEAN
    /\ proc \in [Pids -> Procs]
    /\ pl \in PipelineLocals
    /\ last_status \in Nat

\* The signal state is right on every path back to the prompt, the paths on
\* which pipe() or fork() fails included: SIGCHLD is blocked exactly while a
\* pipeline is being forked and waited for, the keyboard is routed to a group
\* exactly while that group is in the foreground, and a blocked SIGCHLD is
\* never being handled (execute_pipeline, builtin_fg).
Building    == {"fork", "setpgid", "background", "setfg"}
BlockedAt   == Building \cup {"wait", "unblock"}
ForegroundAt == {"wait", "unblock", "clearfg", "fgcall", "fgwait", "fgclear"}

SignalState ==
    /\ sigchld_blocked <=> pc \in BlockedAt
    /\ foreground_pgid # NoPid => pc \in ForegroundAt
    /\ pc \in ForegroundAt => foreground_pgid = pl.pgid
    /\ ~(sigchld_blocked /\ in_handler)

\* No report of a child is ever forgotten: while a child has exited or stopped
\* and nobody has taken its status, SIGCHLD is pending or its handler is
\* running, also when SIGCHLD was raised during the handler's last turn or
\* while it was blocked (sigchld_handler's loop, block_sigchld).
NoLostSigchld ==
    (\E p \in Pids : Reportable(p)) => sigchld_pending \/ in_handler

\* While a pipeline is being forked, no stage of it has been reaped and every
\* stage is in the one group named after the first, whoever called setpgid
\* first and however fast a stage exits (execute_pipeline 321-336, 362-368,
\* 429-437).
Settled == IF pc = "setpgid" THEN Len(pl.pids) - 1 ELSE Len(pl.pids)

StagesHeld ==
    pc \in Building =>
        /\ \A k \in 1..Len(pl.pids) :
            /\ Unreaped(pl.pids[k])
            /\ k <= Settled => proc[pl.pids[k]].pgrp = pl.pgid
        /\ pl.pids # <<>> => pl.pgid = pl.pids[1]

\* A foreground pipeline's children are waited for by execute_pipeline alone:
\* at every turn of its loop the stages still to be reported are exactly the
\* remaining ones, all in the pipeline's group, so waitpid never fails with
\* ECHILD; and when all are in, the pipeline's status is its last stage's.
ForegroundStatus ==
    LET left == {k \in 1..Len(pl.pids) : Unreaped(pl.pids[k])} IN
    /\ pc = "wait" =>
        /\ Cardinality(left) = pl.remaining
        /\ \A k \in left : proc[pl.pids[k]].pgrp = pl.pgid
    /\ pc = "unblock" /\ pl.remaining = 0 =>
        /\ left = {}
        /\ pl.code = status_to_exit_code(proc[pl.pids[pl.n]].status)

\* A foreground pipeline that stops is in the job table as stopped, under its
\* own group, before the prompt comes back (execute_pipeline 485-494).
StopRegistered ==
    pc = "unblock" /\ pl.remaining > 0 =>
        \E i \in InUse(job_table) :
            /\ job_table[i].pgid = pl.pgid
            /\ job_table[i].pids = pl.pids
            /\ job_table[i].state = "Stopped"

\* Whenever every report has been taken, the table shows a one-process job as
\* it is: running, stopped, or done, through stops, exits and kills that race
\* registration, the foreground wait and the handler.
StateShown(st) ==
    CASE st \in {"forked", "running"} -> "Running"
      [] st = "parked"                -> "Stopped"
      [] st = "reaped"                -> "Done"

JobAccuracy ==
    ~in_handler /\ (\A p \in Pids : ~Reportable(p)) =>
        \A i \in InUse(job_table) :
            Len(job_table[i].pids) = 1 =>
                job_table[i].state = StateShown(proc[job_table[i].pids[1]].st)

\* A job is shown as done only once its leader has exited and been reaped,
\* whatever stops, resumptions and lost races came before.
DoneMeansLeaderReaped ==
    \A i \in InUse(job_table) :
        job_table[i].state = "Done" => proc[job_table[i].pgid].st = "reaped"

\* The prompt always comes back: no foreground wait outlives its children.
PromptReturns == pc # "prompt" ~> pc = "prompt"

\* Every child that exits is reaped, background jobs and the stages that a
\* failed fork left behind included.
ZombiesReaped == \A p \in Pids : proc[p].st = "zombie" ~> proc[p].st # "zombie"

-----------------------------------------------------------------------------
(* What comments of the source say, and the code does not do.              *)

\* A job is marked done when its group has finished (signals.c 104-106).
DoneMeansFinished ==
    \A i \in InUse(job_table) :
        job_table[i].state = "Done" =>
            \A k \in 1..Len(job_table[i].pids) : ~Unreaped(job_table[i].pids[k])

\* When every child has been reaped, no job is shown as running
\* (signals.c 104-106, acsh.h's Job states).
NothingRunning ==
    ~in_handler /\ pc = "prompt" /\ (\A p \in Pids : ~Unreaped(p)) =>
        \A i \in InUse(job_table) : job_table[i].state = "Done"

\* `command NAME` reports the exit status of NAME (builtins.c 401-406).
CommandStatus ==
    [][pc = "cmdwait" /\ pc' = "prompt" =>
        LET st == proc[pl.pids[1]].status IN
            last_status' = IF st.kind = "exited" THEN st.val ELSE 1]_vars

\* fg waits for a job until it is done or stopped, "like any foreground
\* pipeline" (builtins.c 140-141, executor.c 465-466).
FgGroupStopped ==
    /\ pc \in {"fgcall", "fgwait"}
    /\ InGroup(pl.pgid) # {}
    /\ \A p \in InGroup(pl.pgid) : proc[p].st \in {"stopped", "parked"}

FgReturns == FgGroupStopped ~> ~FgGroupStopped
=============================================================================
