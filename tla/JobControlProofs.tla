-------------------------- MODULE JobControlProofs --------------------------
(***************************************************************************)
(* What holds of job control for every set of process ids, every table     *)
(* size and every choice of events.                                        *)
(***************************************************************************)
EXTENDS JobControl, FiniteSetTheorems, WellFoundedInduction, TLAPS

\* The shape of pl at the labels that use it: a pipeline that has forked is
\* known by its first stage, fg and bg hold a job's group, command its child.
PipelineShape ==
    /\ pc = "fork" => \/ pl.pids = <<>> /\ pl.pgid = NoPid
                      \/ pl.pids # <<>> /\ pl.pgid = pl.pids[1]
    /\ pc \in {"setpgid", "background", "setfg", "wait", "unblock", "clearfg"} =>
        /\ pl.pids # <<>>
        /\ pl.pgid = pl.pids[1]
    /\ pc \in {"bgmark", "fgmark", "fgset", "fgcall", "fgwait", "fgclear"} =>
        pl.pgid \in Pids
    /\ pc \in {"cmdcall", "cmdwait"} => pl.pids # <<>>

Typed == TypeOK /\ PipelineShape

LEMMA JobsAddType ==
    ASSUME NEW tbl \in Tables, NEW id \in Nat \ {0}, NEW g \in Pids,
           NEW ps \in Seq(Pids)
    PROVE  jobs_add(tbl, id, g, ps) \in Tables
BY DEF Tables, jobs_add, Job

LEMMA SetStateType ==
    ASSUME NEW tbl \in Tables, NEW g, NEW st \in {"Running", "Stopped", "Done"}
    PROVE  SetState(tbl, g, st) \in Tables
<1> SUFFICES ASSUME NEW i \in Slots, FirstOf(i, OfGroup(tbl, g))
             PROVE  [tbl[i] EXCEPT !.state = st] \in Job
    BY DEF SetState, Tables
<1>1. tbl[i] \in Job
    BY DEF FirstOf, OfGroup, InUse, Tables, NoJob, Job
<1> QED BY <1>1 DEF Job

LEMMA CleanupType ==
    ASSUME NEW tbl \in Tables PROVE jobs_cleanup_done(tbl) \in Tables
BY DEF Tables, jobs_cleanup_done

LEMMA TakenType ==
    ASSUME TypeOK, NEW p \in Pids PROVE Taken(p) \in [Pids -> Procs]
BY DEF TypeOK, Taken, Procs, ProcStates

LEMMA MovedType ==
    ASSUME TypeOK, NEW p \in Pids, NEW g \in Pids \cup {NoPid, ShellPgrp}
    PROVE  Moved(p, g) \in [Pids -> Procs]
BY DEF TypeOK, Moved, Procs

LEMMA DieType ==
    ASSUME TypeOK, NEW S, NEW status \in Statuses, Die(S, status)
    PROVE  proc' \in [Pids -> Procs]
BY DEF TypeOK, Die, Procs, ProcStates

LEMMA ForkType ==
    ASSUME TypeOK, NEW p \in Pids, NEW g \in Pids \cup {NoPid, ShellPgrp}, Fork(p, g)
    PROVE  proc' \in [Pids -> Procs]
<1>1. Exited(0) \in Statuses
    BY DEF Statuses
<1> QED BY <1>1 DEF TypeOK, Fork, Procs, ProcStates

LEMMA ContinueType ==
    ASSUME TypeOK, NEW g, Continue(g)
    PROVE  proc' \in [Pids -> Procs] /\ sigchld_pending' \in BOOLEAN
BY DEF TypeOK, Continue, Procs, ProcStates

LEMMA StatusType ==
    ASSUME NEW status \in Statuses
    PROVE  /\ status_to_exit_code(status) \in Nat
           /\ status.kind = "exited" => status.val \in Nat
BY JobControlAssumption DEF Statuses, status_to_exit_code, Exited, Signaled, SIGINT, SIGKILL

LEMMA NoPipelineType == NoPipeline \in PipelineLocals
BY DEF NoPipeline, PipelineLocals

LEMMA CountAndCodeType ==
    ASSUME NEW r \in PipelineLocals, NEW k \in Int, NEW c \in Nat
    PROVE  [r EXCEPT !.remaining = k, !.code = c] \in PipelineLocals
BY DEF PipelineLocals

\* Return leaves the locals of the pipeline empty.
LEMMA ReturnTyped ==
    ASSUME TypeOK, NEW status \in Nat, Return(status)
    PROVE  /\ pl' \in PipelineLocals
           /\ pc' = "prompt"
           /\ last_status' \in Nat
           /\ PipelineShape'
BY NoPipelineType DEF Return, PipelineShape

LEMMA InitTyped == Init => Typed
<1> SUFFICES ASSUME Init PROVE Typed
    OBVIOUS
<1>1. job_table \in Tables
    BY DEF Init, Tables
<1>2. proc \in [Pids -> Procs]
    BY DEF Init, Procs, ProcStates, Statuses
<1>3. PipelineShape
    BY DEF Init, PipelineShape
<1>4. pl \in PipelineLocals
    BY NoPipelineType DEF Init
<1>5. /\ pc \in Labels /\ next_job_id \in Nat \ {0} /\ last_status \in Nat
      /\ foreground_pgid \in Pids \cup {NoPid}
    BY DEF Init, Labels
<1>6. /\ sigchld_blocked \in BOOLEAN /\ sigchld_pending \in BOOLEAN
      /\ in_handler \in BOOLEAN
    BY DEF Init
<1> QED BY <1>1, <1>2, <1>3, <1>4, <1>5, <1>6 DEF Typed, TypeOK


\* The main program's steps inside execute_pipeline.
LEMMA PipelineTyped ==
    ASSUME Typed,
           \/ StartPipeline \/ ForkStage \/ ForkFails \/ ParentSetpgid
           \/ RegisterBackground \/ SetForeground \/ WaitExit \/ WaitStop
           \/ Unblock \/ ClearForeground
    PROVE  Typed'
<1>0. TypeOK /\ PipelineShape
    BY DEF Typed
<1>1. CASE StartPipeline
  <2> PICK n \in 1..MaxStages, bg \in BOOLEAN :
        pl' = [NoPipeline EXCEPT !.n = n, !.background = bg]
    BY <1>1 DEF StartPipeline
  <2>1. pl' \in PipelineLocals
    <3>1. n \in Nat
      BY JobControlAssumption
    <3> QED BY <3>1, NoPipelineType DEF PipelineLocals
  <2>2. pl'.pids = <<>> /\ pl'.pgid = NoPid
    BY DEF NoPipeline
  <2> QED BY <1>0, <1>1, <2>1, <2>2 DEF StartPipeline, Typed, TypeOK, PipelineShape, Labels
<1>2. CASE ForkStage
  <2> PICK p \in Pids :
        /\ Fork(p, IF pl.pgid = NoPid THEN p ELSE pl.pgid)
        /\ pl' = [pl EXCEPT !.pids = Append(@, p),
                            !.pgid = IF @ = NoPid THEN p ELSE @]
    BY <1>2 DEF ForkStage
  <2> DEFINE ps == Append(pl.pids, p)
             g  == IF pl.pgid = NoPid THEN p ELSE pl.pgid
  <2>1. /\ pl \in PipelineLocals /\ pl.pids \in Seq(Pids)
        /\ \/ pl.pids = <<>> /\ pl.pgid = NoPid
           \/ pl.pids # <<>> /\ pl.pgid = pl.pids[1]
    BY <1>0, <1>2 DEF ForkStage, At, TypeOK, PipelineLocals, PipelineShape
  <2>2. ps \in Seq(Pids) /\ ps # <<>> /\ g = ps[1] /\ g \in Pids
    BY <2>1, JobTableAssumption
  <2>3. proc' \in [Pids -> Procs]
    BY <1>0, <2>2, ForkType
  <2>4. pl' = [pl EXCEPT !.pids = ps, !.pgid = g]
    OBVIOUS
  <2> HIDE DEF ps, g
  <2>5. pl' \in PipelineLocals
    <3>1. [pl EXCEPT !.pids = ps, !.pgid = g] \in PipelineLocals
      BY <2>1, <2>2 DEF PipelineLocals
    <3> QED BY <2>4, <3>1
  <2>6. pl'.pids = ps /\ pl'.pgid = g
    <3> DEFINE e == [pl EXCEPT !.pids = ps, !.pgid = g]
    <3>1. e.pids = ps /\ e.pgid = g
      BY <2>1 DEF PipelineLocals
    <3>2. pl' = e
      BY <2>4
    <3> QED BY <3>1, <3>2
  <2> QED BY <1>0, <1>2, <2>2, <2>3, <2>5, <2>6 DEF ForkStage, Typed, TypeOK, PipelineShape, Labels
<1>3. CASE ForkFails
  BY <1>0, <1>3, ReturnTyped DEF ForkFails, Typed, TypeOK, Labels
<1>4. CASE ParentSetpgid
  <2>1. proc' \in [Pids -> Procs]
    BY <1>0, <1>4, MovedType DEF ParentSetpgid, At, TypeOK, PipelineShape, PipelineLocals
  <2> QED BY <1>0, <1>4, <2>1 DEF ParentSetpgid, At, Typed, TypeOK, PipelineShape, Labels
<1>5. CASE RegisterBackground
  <2>1. pl.pgid \in Pids
    BY <1>0, <1>5 DEF RegisterBackground, At, TypeOK, PipelineShape, PipelineLocals
  <2>2. job_table' \in Tables /\ next_job_id' \in Nat \ {0}
    BY <1>0, <1>5, <2>1, JobsAddType DEF RegisterBackground, IdAfterAdd, TypeOK, PipelineLocals
  <2> QED BY <1>0, <1>5, <2>2, ReturnTyped DEF RegisterBackground, Typed, TypeOK, Labels
<1>6. CASE SetForeground
  <2>1. pl' \in PipelineLocals
    BY <1>0, <1>6 DEF SetForeground, TypeOK, PipelineLocals
  <2>2. foreground_pgid' \in Pids \cup {NoPid}
    BY <1>0, <1>6 DEF SetForeground, TypeOK, PipelineLocals
  <2>3. pl'.pids = pl.pids /\ pl'.pgid = pl.pgid
    BY <1>0, <1>6 DEF SetForeground, TypeOK, PipelineLocals
  <2> QED BY <1>0, <1>6, <2>1, <2>2, <2>3 DEF SetForeground, At, Typed, TypeOK, PipelineShape, Labels
<1>7. CASE WaitExit
  <2>1. PICK w \in waitpid(pl.pgid) :
            IF w = NoPid
            THEN pc' = "unblock" /\ UNCHANGED <<proc, pl>>
            ELSE /\ proc[w].st = "zombie"
                 /\ proc' = Taken(w)
                 /\ pl' = [pl EXCEPT
                        !.remaining = @ - 1,
                        !.code = IF w = pl.pids[pl.n]
                                 THEN status_to_exit_code(proc[w].status) ELSE @]
                 /\ pc' = IF pl.remaining = 1 THEN "unblock" ELSE "wait"
    BY <1>7 DEF WaitExit
  <2>2. w # NoPid => w \in Pids
    BY DEF waitpid, InGroup
  <2>3. proc' \in [Pids -> Procs]
    BY <1>0, <2>1, <2>2, TakenType DEF TypeOK
  <2>4. w # NoPid => status_to_exit_code(proc[w].status) \in Nat
    BY <1>0, <2>2, StatusType DEF TypeOK, Procs
  <2>5. pl' \in PipelineLocals /\ pl'.pids = pl.pids /\ pl'.pgid = pl.pgid
    <3>1. pl \in PipelineLocals
      BY <1>0 DEF TypeOK
    <3>2. CASE w = NoPid
      BY <2>1, <3>1, <3>2
    <3>3. CASE w # NoPid
      <4> DEFINE c == IF w = pl.pids[pl.n] THEN status_to_exit_code(proc[w].status)
                                           ELSE pl.code
                 r == pl.remaining - 1
      <4>1. c \in Nat /\ r \in Int
        BY <2>4, <3>1, <3>3 DEF PipelineLocals
      <4>2. pl' = [pl EXCEPT !.remaining = r, !.code = c]
        BY <2>1, <3>3
      <4> HIDE DEF c, r
      <4>3. pl' \in PipelineLocals
        BY <3>1, <4>1, <4>2, CountAndCodeType
      <4> QED BY <3>1, <4>2, <4>3 DEF PipelineLocals
    <3> QED BY <3>2, <3>3
  <2>6. pc' \in {"unblock", "wait"}
    BY <2>1
  <2> QED BY <1>0, <1>7, <2>3, <2>5, <2>6 DEF WaitExit, At, Typed, TypeOK, PipelineShape, Labels
<1>8. CASE WaitStop
  <2>1. pl.pgid \in Pids
    BY <1>0, <1>8 DEF WaitStop, At, TypeOK, PipelineShape, PipelineLocals
  <2>2. job_table' \in Tables /\ next_job_id' \in Nat \ {0}
    <3>1. jobs_add(job_table, next_job_id, pl.pgid, pl.pids) \in Tables
      BY <1>0, <2>1, JobsAddType DEF TypeOK, PipelineLocals
    <3> QED BY <1>0, <1>8, <3>1, SetStateType DEF WaitStop, IdAfterAdd, jobs_mark_stopped, TypeOK
  <2>3. proc' \in [Pids -> Procs]
    BY <1>0, <1>8, TakenType DEF WaitStop, waitpid, InGroup
  <2> QED BY <1>0, <1>8, <2>2, <2>3 DEF WaitStop, At, Typed, TypeOK, PipelineShape, Labels
<1>9. CASE Unblock
  BY <1>0, <1>9 DEF Unblock, At, Typed, TypeOK, PipelineShape, Labels
<1>10. CASE ClearForeground
  <2>1. pl.code \in Nat
    BY <1>0 DEF TypeOK, PipelineLocals
  <2> QED BY <1>0, <1>10, <2>1, ReturnTyped DEF ClearForeground, Typed, TypeOK, Labels
<1> QED BY <1>1, <1>2, <1>3, <1>4, <1>5, <1>6, <1>7, <1>8, <1>9, <1>10

\* The builtins.
LEMMA BuiltinTyped ==
    ASSUME Typed,
           \/ BgResume \/ FgResume \/ NoSuchJob \/ BgMark \/ FgMark \/ FgSet
           \/ FgCall \/ FgExit \/ FgStop \/ FgEchild \/ FgClear \/ Jobs
           \/ CommandFork \/ CommandForkFails \/ CommandCall \/ CommandExit
           \/ CommandEchild
    PROVE  Typed'
<1>0. TypeOK /\ PipelineShape
    BY DEF Typed
<1>1. ASSUME NEW cmd, NEW next \in {"bgmark", "fgmark"}, Resume(cmd, next)
      PROVE  Typed'
  <2> PICK arg \in 0..MaxJobId + 1 : \E j \in resolve_job_arg(arg) :
            /\ Continue(job_table[j].pgid)
            /\ pl' = [NoPipeline EXCEPT !.n = Len(job_table[j].pids),
                                        !.pgid = job_table[j].pgid]
    BY <1>1 DEF Resume
  <2>1. PICK j \in resolve_job_arg(arg) :
            /\ Continue(job_table[j].pgid)
            /\ pl' = [NoPipeline EXCEPT !.n = Len(job_table[j].pids),
                                        !.pgid = job_table[j].pgid]
    OBVIOUS
  <2>2. j \in InUse(job_table)
    BY DEF resolve_job_arg, jobs_find_most_recent, jobs_find_by_id
  <2>3. job_table[j] \in Job
    BY <1>0, <2>2 DEF TypeOK, Tables, InUse, NoJob
  <2>4. job_table[j].pgid \in Pids /\ Len(job_table[j].pids) \in Nat
    BY <2>3 DEF Job
  <2>5. pl' \in PipelineLocals /\ pl'.pgid \in Pids
    BY <2>1, <2>4, NoPipelineType DEF PipelineLocals
  <2>6. proc' \in [Pids -> Procs] /\ sigchld_pending' \in BOOLEAN
    BY <1>0, <2>1, ContinueType
  <2> QED BY <1>0, <1>1, <2>5, <2>6 DEF Resume, Typed, TypeOK, PipelineShape, Labels
<1>2. CASE NoSuchJob
  BY <1>0, <1>2, ReturnTyped DEF NoSuchJob, Typed, TypeOK, Labels
<1>3. CASE BgMark
  <2>1. job_table' \in Tables
    BY <1>0, <1>3, SetStateType DEF BgMark, jobs_mark_running, TypeOK
  <2> QED BY <1>0, <1>3, <2>1, ReturnTyped DEF BgMark, Typed, TypeOK, Labels
<1>4. CASE FgMark
  <2>1. job_table' \in Tables
    BY <1>0, <1>4, SetStateType DEF FgMark, jobs_mark_running, TypeOK
  <2> QED BY <1>0, <1>4, <2>1 DEF FgMark, At, Typed, TypeOK, PipelineShape, Labels
<1>5. CASE FgSet
  <2>1. pl' \in PipelineLocals /\ pl'.pgid = pl.pgid
    BY <1>0, <1>5 DEF FgSet, TypeOK, PipelineLocals
  <2>2. foreground_pgid' \in Pids \cup {NoPid}
    BY <1>0, <1>5 DEF FgSet, TypeOK, PipelineLocals
  <2> QED BY <1>0, <1>5, <2>1, <2>2 DEF FgSet, At, Typed, TypeOK, PipelineShape, Labels
<1>6. CASE FgCall
  BY <1>0, <1>6 DEF FgCall, At, Typed, TypeOK, PipelineShape, Labels
<1>7. CASE FgExit
  <2>1. pl' \in PipelineLocals /\ pl'.pgid = pl.pgid
    BY <1>0, <1>7 DEF FgExit, TypeOK, PipelineLocals
  <2>2. proc' \in [Pids -> Procs]
    BY <1>0, <1>7, TakenType DEF FgExit, waitpid, InGroup
  <2>3. pc' \in {"fgclear", "fgcall"}
    BY <1>7 DEF FgExit
  <2> QED BY <1>0, <1>7, <2>1, <2>2, <2>3 DEF FgExit, At, Typed, TypeOK, PipelineShape, Labels
<1>8. CASE FgStop
  <2>1. job_table' \in Tables
    BY <1>0, <1>8, SetStateType DEF FgStop, jobs_mark_stopped, TypeOK
  <2>2. proc' \in [Pids -> Procs]
    BY <1>0, <1>8, TakenType DEF FgStop, waitpid, InGroup
  <2> QED BY <1>0, <1>8, <2>1, <2>2 DEF FgStop, At, Typed, TypeOK, PipelineShape, Labels
<1>9. CASE FgEchild
  BY <1>0, <1>9 DEF FgEchild, At, Typed, TypeOK, PipelineShape, Labels
<1>10. CASE FgClear
  BY <1>0, <1>10, ReturnTyped DEF FgClear, Typed, TypeOK, Labels
<1>11. CASE Jobs
  BY <1>0, <1>11, CleanupType, ReturnTyped DEF Jobs, Typed, TypeOK, Labels
<1>12. CASE CommandFork
  <2> PICK p \in Pids :
        /\ Fork(p, ShellPgrp)
        /\ pl' = [NoPipeline EXCEPT !.n = 1, !.pids = <<p>>]
    BY <1>12 DEF CommandFork
  <2>1. proc' \in [Pids -> Procs]
    BY <1>0, ForkType
  <2>2. pl' \in PipelineLocals /\ pl'.pids # <<>>
    <3>1. <<p>> \in Seq(Pids)
      OBVIOUS
    <3> QED BY <3>1, NoPipelineType DEF PipelineLocals
  <2> QED BY <1>0, <1>12, <2>1, <2>2 DEF CommandFork, Typed, TypeOK, PipelineShape, Labels
<1>13. CASE CommandForkFails
  BY <1>0, <1>13, ReturnTyped DEF CommandForkFails, Typed, TypeOK, Labels
<1>14. CASE CommandCall
  BY <1>0, <1>14 DEF CommandCall, At, Typed, TypeOK, PipelineShape, Labels
<1>15. CASE CommandExit
  <2> DEFINE p == pl.pids[1]
  <2>1. p \in Pids
    BY <1>0, <1>15 DEF CommandExit, At, TypeOK, PipelineShape, PipelineLocals
  <2>2. proc' \in [Pids -> Procs]
    BY <1>0, <1>15, <2>1, TakenType DEF CommandExit
  <2>3. (IF proc[p].status.kind = "exited" THEN proc[p].status.val ELSE 1) \in Nat
    BY <1>0, <2>1, StatusType DEF TypeOK, Procs
  <2> QED BY <1>0, <1>15, <2>2, <2>3, ReturnTyped DEF CommandExit, Typed, TypeOK, Labels
<1>16. CASE CommandEchild
  <2> PICK garbage \in ExitCodes \cup {1} : Return(garbage)
    BY <1>16 DEF CommandEchild
  <2>1. garbage \in Nat
    BY JobControlAssumption
  <2> QED BY <1>0, <1>16, <2>1, ReturnTyped DEF CommandEchild, Typed, TypeOK, Labels
<1> QED BY <1>1, <1>2, <1>3, <1>4, <1>5, <1>6, <1>7, <1>8, <1>9, <1>10, <1>11,
           <1>12, <1>13, <1>14, <1>15, <1>16 DEF BgResume, FgResume

\* The handler, the children and the keyboard.
LEMMA OthersTyped ==
    ASSUME Typed,
           \/ HandlerEnter \/ HandlerReap \/ HandlerReturn \/ EnvStep
           \/ \E p \in Pids : ChildStep(p)
    PROVE  Typed'
<1>0. TypeOK /\ PipelineShape
    BY DEF Typed
<1>a. ASSUME UNCHANGED shellVars, proc' \in [Pids -> Procs], sigchld_pending' \in BOOLEAN
      PROVE  Typed'
  BY <1>0, <1>a DEF shellVars, Typed, TypeOK, PipelineShape
<1>1. CASE HandlerEnter
  BY <1>0, <1>1 DEF HandlerEnter, Typed, TypeOK, PipelineShape
<1>2. CASE HandlerReap
  <2>1. job_table' \in Tables
    BY <1>0, <1>2, SetStateType DEF HandlerReap, jobs_mark_stopped, jobs_mark_done, TypeOK
  <2>2. proc' \in [Pids -> Procs]
    BY <1>0, <1>2, TakenType DEF HandlerReap
  <2> QED BY <1>0, <1>2, <2>1, <2>2 DEF HandlerReap, Typed, TypeOK, PipelineShape
<1>3. CASE HandlerReturn
  BY <1>0, <1>3 DEF HandlerReturn, Typed, TypeOK, PipelineShape
<1>s. Signaled(SIGINT) \in Statuses /\ Signaled(SIGKILL) \in Statuses
  BY DEF Statuses
<1>4. CASE CtrlC
  BY <1>0, <1>4, <1>a, <1>s, DieType DEF CtrlC
<1>5. CASE CtrlZ
  <2>1. proc' \in [Pids -> Procs]
    BY <1>0, <1>5 DEF CtrlZ, TypeOK, Procs, ProcStates
  <2> QED BY <1>5, <1>a, <2>1 DEF CtrlZ
<1>6. ASSUME NEW p \in Pids, Killed(p) PROVE Typed'
  BY <1>0, <1>6, <1>a, <1>s, DieType DEF Killed
<1>7. ASSUME NEW p \in Pids, StoppedBySignal(p) \/ ContinuedBySignal(p) PROVE Typed'
  <2>1. proc' \in [Pids -> Procs]
    BY <1>0, <1>7 DEF StoppedBySignal, ContinuedBySignal, TypeOK, Procs, ProcStates
  <2> QED BY <1>7, <1>a, <2>1 DEF StoppedBySignal, ContinuedBySignal
<1>8. ASSUME NEW p \in Pids, ChildSetup(p) PROVE Typed'
  <2>1. proc[p].target \in Pids \cup {NoPid, ShellPgrp}
    BY <1>0 DEF TypeOK, Procs
  <2>2. Moved(p, proc[p].target) \in [Pids -> Procs]
    BY <1>0, <2>1, MovedType
  <2>3. proc' \in [Pids -> Procs]
    BY <1>8, <2>2 DEF ChildSetup, Procs, ProcStates
  <2> QED BY <1>0, <1>8, <1>a, <2>3 DEF ChildSetup, TypeOK
<1>9. ASSUME NEW p \in Pids, ChildExit(p) PROVE Typed'
  <2> PICK c \in ExitCodes : Die({p}, Exited(c))
    BY <1>9 DEF ChildExit
  <2>1. Exited(c) \in Statuses
    BY DEF Statuses
  <2> QED BY <1>0, <1>9, <1>a, <2>1, DieType DEF ChildExit
<1> QED BY <1>1, <1>2, <1>3, <1>4, <1>5, <1>6, <1>7, <1>8, <1>9 DEF EnvStep, ChildStep

LEMMA TypedStep == Typed /\ [Next]_vars => Typed'
<1> SUFFICES ASSUME Typed, [Next]_vars PROVE Typed'
    OBVIOUS
<1>1. CASE UNCHANGED vars
  BY <1>1 DEF vars, Typed, TypeOK, PipelineShape
<1>2. CASE ShellStep \/ UserStep
  BY <1>2, PipelineTyped, BuiltinTyped DEF ShellStep, UserStep
<1>3. CASE HandlerStep \/ EnvStep \/ \E p \in Pids : ChildStep(p)
  BY <1>3, OthersTyped DEF HandlerStep
<1> QED BY <1>1, <1>2, <1>3 DEF Next

\* Every variable of job control keeps its type, for any processes and events
\* (src/jobs.c, src/signals.c, execute_pipeline and the job builtins).
THEOREM TypeCorrect == Spec => []TypeOK
<1>1. Typed => TypeOK
    BY DEF Typed
<1> QED BY <1>1, InitTyped, TypedStep, PTL DEF Spec

-----------------------------------------------------------------------------
(* The signal mask, the foreground group and the handler.                  *)

LEMMA SignalInit == Init => SignalState
BY DEF Init, SignalState, BlockedAt, Building, ForegroundAt

LEMMA SignalStep == Typed /\ SignalState /\ [Next]_vars => SignalState'
<1> SUFFICES ASSUME Typed, SignalState, [Next]_vars PROVE SignalState'
    OBVIOUS
<1> USE DEF SignalState, BlockedAt, Building, ForegroundAt
<1>0. pl \in PipelineLocals
    BY DEF Typed, TypeOK
<1>1. CASE StartPipeline
  BY <1>1 DEF StartPipeline, At
<1>2. CASE ForkStage
  BY <1>2 DEF ForkStage, At
<1>3. CASE ForkFails
  BY <1>3 DEF ForkFails, At, Return
<1>4. CASE ParentSetpgid
  BY <1>4 DEF ParentSetpgid, At
<1>5. CASE RegisterBackground
  BY <1>5 DEF RegisterBackground, At, Return
<1>6. CASE SetForeground
  <2>1. pl'.pgid = pl.pgid
    BY <1>0, <1>6 DEF SetForeground, PipelineLocals
  <2> QED BY <1>6, <2>1 DEF SetForeground, At
<1>7. CASE WaitExit
  <2>1. pl'.pgid = pl.pgid
    BY <1>0, <1>7 DEF WaitExit, PipelineLocals
  <2> QED BY <1>7, <2>1 DEF WaitExit, At
<1>8. CASE WaitStop
  BY <1>8 DEF WaitStop, At
<1>9. CASE Unblock
  BY <1>9 DEF Unblock, At
<1>10. CASE ClearForeground
  BY <1>10 DEF ClearForeground, At, Return
<1>11. CASE BgResume \/ FgResume
  <2>1. /\ pc = "prompt" /\ pc' \in {"bgmark", "fgmark"}
        /\ UNCHANGED <<foreground_pgid, sigchld_blocked, in_handler>>
    BY <1>11 DEF BgResume, FgResume, Resume, At
  <2> QED BY <2>1
<1>12. CASE NoSuchJob
  BY <1>12 DEF NoSuchJob, At, Return
<1>13. CASE BgMark \/ FgMark
  BY <1>13 DEF BgMark, FgMark, At, Return
<1>14. CASE FgSet
  <2>1. pl'.pgid = pl.pgid
    BY <1>0, <1>14 DEF FgSet, PipelineLocals
  <2> QED BY <1>14, <2>1 DEF FgSet, At
<1>15. CASE FgExit
  <2>1. pl'.pgid = pl.pgid
    BY <1>0, <1>15 DEF FgExit, PipelineLocals
  <2> QED BY <1>15, <2>1 DEF FgExit, At
<1>16. CASE FgCall \/ FgStop \/ FgEchild
  BY <1>16 DEF FgCall, FgStop, FgEchild, At
<1>17. CASE FgClear
  BY <1>17 DEF FgClear, At, Return
<1>18. CASE Jobs
  BY <1>18 DEF Jobs, At, Return
<1>19. CASE CommandFork \/ CommandForkFails
  <2>1. /\ pc = "prompt" /\ pc' \in {"prompt", "cmdcall"}
        /\ UNCHANGED <<foreground_pgid, sigchld_blocked, in_handler>>
    BY <1>19 DEF CommandFork, CommandForkFails, At, Return
  <2> QED BY <2>1
<1>20. CASE CommandCall \/ CommandExit \/ CommandEchild
  BY <1>20 DEF CommandCall, CommandExit, CommandEchild, At, Return
<1>21. CASE HandlerStep
  BY <1>21 DEF HandlerStep, HandlerEnter, HandlerReap, HandlerReturn, Deliverable
<1>22. CASE EnvStep \/ \E p \in Pids : ChildStep(p)
  <2>1. UNCHANGED shellVars
    BY <1>22 DEF EnvStep, ChildStep, CtrlC, CtrlZ, Killed, StoppedBySignal,
                 ContinuedBySignal, ChildSetup, ChildExit, shellVars
  <2> QED BY <2>1 DEF shellVars
<1>23. CASE UNCHANGED vars
  BY <1>23 DEF vars
<1> QED BY <1>1, <1>2, <1>3, <1>4, <1>5, <1>6, <1>7, <1>8, <1>9, <1>10, <1>11,
           <1>12, <1>13, <1>14, <1>15, <1>16, <1>17, <1>18, <1>19, <1>20,
           <1>21, <1>22, <1>23 DEF Next, ShellStep, UserStep

\* On every path back to the prompt SIGCHLD is unblocked and the keyboard goes
\* to no group; in between both follow the pipeline (execute_pipeline, fg).
THEOREM SignalStateCorrect == Spec => []SignalState
BY InitTyped, TypedStep, SignalInit, SignalStep, PTL DEF Spec

-----------------------------------------------------------------------------
(* No report is lost.                                                      *)

LEMMA NoLostInit == Init => NoLostSigchld
BY DEF Init, NoLostSigchld, Reportable

\* Taking a report leaves no new one.
LEMMA TakenReports ==
    ASSUME TypeOK, NEW p \in Pids, proc' = Taken(p), NEW q \in Pids, Reportable(q)'
    PROVE  Reportable(q)
BY DEF TypeOK, Taken, Procs, Reportable

LEMMA ForkReports ==
    ASSUME TypeOK, NEW p \in Pids, NEW g, Fork(p, g), NEW q \in Pids, Reportable(q)'
    PROVE  Reportable(q)
BY DEF TypeOK, Fork, Procs, Reportable

LEMMA MovedReports ==
    ASSUME TypeOK, NEW p \in Pids, NEW g, NEW q \in Pids
    PROVE  Moved(p, g)[q].st = proc[q].st
BY DEF TypeOK, Moved, Procs

LEMMA NoLostStep == Typed /\ NoLostSigchld /\ [Next]_vars => NoLostSigchld'
<1> SUFFICES ASSUME Typed, NoLostSigchld, [Next]_vars PROVE NoLostSigchld'
    OBVIOUS
<1> USE DEF NoLostSigchld
<1>0. TypeOK
    BY DEF Typed
<1>a. ASSUME \A q \in Pids : Reportable(q)' => Reportable(q),
             sigchld_pending \/ in_handler => sigchld_pending' \/ in_handler'
      PROVE  NoLostSigchld'
    BY <1>a
<1>b. ASSUME UNCHANGED <<proc, sigchld_pending, in_handler>> PROVE NoLostSigchld'
    BY <1>b DEF Reportable
<1>1. CASE StartPipeline \/ ForkFails \/ RegisterBackground \/ SetForeground
           \/ Unblock \/ ClearForeground
  BY <1>1, <1>b DEF StartPipeline, ForkFails, RegisterBackground, SetForeground,
                    Unblock, ClearForeground
<1>2. CASE NoSuchJob \/ BgMark \/ FgMark \/ FgSet \/ FgCall \/ FgEchild \/ FgClear
           \/ Jobs \/ CommandForkFails \/ CommandCall \/ CommandEchild
  BY <1>2, <1>b DEF NoSuchJob, BgMark, FgMark, FgSet, FgCall, FgEchild, FgClear,
                    Jobs, CommandForkFails, CommandCall, CommandEchild
<1>3. CASE ForkStage \/ CommandFork
  BY <1>0, <1>3, <1>a, ForkReports DEF ForkStage, CommandFork
<1>4. CASE ParentSetpgid
  <2>1. pl.pids[Len(pl.pids)] \in Pids
    BY <1>4 DEF Typed, TypeOK, PipelineShape, PipelineLocals, ParentSetpgid, At
  <2>2. \A q \in Pids : Reportable(q)' => Reportable(q)
    BY <1>0, <1>4, <2>1, MovedReports DEF ParentSetpgid, Reportable
  <2> QED BY <1>4, <1>a, <2>2 DEF ParentSetpgid
<1>5. CASE WaitExit
  <2>1. PICK w \in waitpid(pl.pgid) :
            IF w = NoPid THEN UNCHANGED proc ELSE proc' = Taken(w)
    BY <1>5 DEF WaitExit
  <2>2. \A q \in Pids : Reportable(q)' => Reportable(q)
    <3>1. CASE w = NoPid
      BY <2>1, <3>1 DEF Reportable
    <3>2. CASE w # NoPid
      <4>1. w \in Pids
        BY <3>2 DEF waitpid, InGroup
      <4> QED BY <1>0, <2>1, <3>2, <4>1, TakenReports
    <3> QED BY <3>1, <3>2
  <2> QED BY <1>5, <1>a, <2>2 DEF WaitExit
<1>6. CASE WaitStop \/ FgExit \/ FgStop
  <2>1. PICK w \in waitpid(pl.pgid) \ {NoPid} : proc' = Taken(w)
    BY <1>6 DEF WaitStop, FgExit, FgStop
  <2>2. w \in Pids
    BY DEF waitpid, InGroup
  <2>3. \A q \in Pids : Reportable(q)' => Reportable(q)
    BY <1>0, <2>1, <2>2, TakenReports
  <2> QED BY <1>6, <1>a, <2>3 DEF WaitStop, FgExit, FgStop
<1>7. CASE CommandExit
  <2>1. pl.pids[1] \in Pids
    BY <1>7 DEF Typed, TypeOK, PipelineShape, PipelineLocals, CommandExit, At
  <2> QED BY <1>0, <1>7, <1>a, <2>1, TakenReports DEF CommandExit
<1>8. CASE BgResume \/ FgResume
  <2>1. PICK g : Continue(g)
    BY <1>8 DEF BgResume, FgResume, Resume
  <2>2. \A q \in Pids : Reportable(q)' => Reportable(q)
    BY <1>0, <2>1 DEF Continue, TypeOK, Procs, Reportable
  <2>3. sigchld_pending => sigchld_pending'
    BY <2>1 DEF Continue
  <2>4. in_handler' = in_handler
    BY <1>8 DEF BgResume, FgResume, Resume
  <2> QED BY <1>a, <2>2, <2>3, <2>4
<1>9. CASE HandlerEnter
  BY <1>9 DEF HandlerEnter
<1>10. CASE HandlerReap
  BY <1>10 DEF HandlerReap
<1>11. CASE HandlerReturn
  BY <1>11 DEF HandlerReturn, Reportable
<1>12. CASE EnvStep
  BY <1>12 DEF EnvStep, CtrlC, CtrlZ, Killed, StoppedBySignal, ContinuedBySignal
<1>13. ASSUME NEW p \in Pids, ChildStep(p) PROVE NoLostSigchld'
  <2>1. CASE ChildSetup(p)
    <3>1. \A q \in Pids : Reportable(q)' => Reportable(q)
      <4>1. proc[p].target \in Pids \cup {NoPid, ShellPgrp}
        BY <1>0 DEF TypeOK, Procs
      <4>2. Moved(p, proc[p].target) \in [Pids -> Procs]
        BY <1>0, <4>1, MovedType
      <4> QED BY <1>0, <2>1, <4>2, MovedReports DEF ChildSetup, Reportable, Procs
    <3> QED BY <1>a, <2>1, <3>1 DEF ChildSetup, shellVars
  <2>2. CASE ChildExit(p)
    BY <2>2 DEF ChildExit
  <2> QED BY <1>13, <2>1, <2>2 DEF ChildStep
<1>14. CASE UNCHANGED vars
  BY <1>14, <1>b DEF vars
<1> QED BY <1>1, <1>2, <1>3, <1>4, <1>5, <1>6, <1>7, <1>8, <1>9, <1>10, <1>11,
           <1>12, <1>13, <1>14 DEF Next, ShellStep, UserStep, HandlerStep

\* A child that has exited or stopped is never forgotten: SIGCHLD is pending or
\* being handled until its report is taken (sigchld_handler, block_sigchld).
THEOREM NoLostSigchldCorrect == Spec => []NoLostSigchld
BY InitTyped, TypedStep, NoLostInit, NoLostStep, PTL DEF Spec

-----------------------------------------------------------------------------
(* The stages of a pipeline that is being forked.                          *)

\* StagesHeld with the group each stage is going to move itself to.
UnreapedStates == {"forked", "running", "stopped", "parked", "zombie"}

StagesInv ==
    pc \in Building => \A k \in 1..Len(pl.pids) :
        /\ proc[pl.pids[k]].st \in UnreapedStates
        /\ proc[pl.pids[k]].target = pl.pgid
        /\ k <= Settled => proc[pl.pids[k]].pgrp = pl.pgid

LEMMA StagesInit == Init => StagesInv
BY DEF Init, StagesInv, Building

\* Whatever the children and the keyboard do, a child stays in its group or
\* moves to the one it was forked for, and only a waitpid reaps it.
LEMMA OutsideKeepsStages ==
    ASSUME TypeOK, EnvStep \/ \E p \in Pids : ChildStep(p),
           NEW q \in Pids, proc[q].st \in UnreapedStates
    PROVE  /\ proc'[q].st \in UnreapedStates
           /\ proc'[q].target = proc[q].target
           /\ proc'[q].pgrp = proc[q].pgrp \/ proc'[q].pgrp = proc[q].target
<1>0. proc \in [Pids -> Procs]
    BY DEF TypeOK
<1> USE DEF UnreapedStates
<1>1. CASE CtrlC \/ \E p \in Pids : Killed(p)
  <2>1. PICK S, status : Die(S, status)
    BY <1>1 DEF CtrlC, Killed
  <2> QED BY <1>0, <2>1 DEF Die, Procs
<1>2. CASE CtrlZ
  <2>1. PICK S \in KeyboardTakes :
            proc' = [p \in Pids |-> IF p \in S THEN [proc[p] EXCEPT !.st = "stopped"]
                                                ELSE proc[p]]
    BY <1>2 DEF CtrlZ
  <2> QED BY <1>0, <2>1 DEF Procs
<1>5. CASE \E p \in Pids : StoppedBySignal(p) \/ ContinuedBySignal(p)
  BY <1>0, <1>5 DEF StoppedBySignal, ContinuedBySignal, Procs
<1>3. CASE \E p \in Pids : ChildSetup(p)
  <2>1. PICK p \in Pids : ChildSetup(p)
    BY <1>3
  <2> DEFINE g == proc[p].target
  <2>2. CASE CanJoin(p, g)
    <3>1. proc' = [[proc EXCEPT ![p].pgrp = g] EXCEPT ![p].st = "running"]
      BY <2>1, <2>2 DEF ChildSetup, Moved
    <3> QED BY <1>0, <3>1 DEF Procs
  <2>3. CASE ~CanJoin(p, g)
    <3>1. proc' = [proc EXCEPT ![p].st = "running"]
      BY <2>1, <2>3 DEF ChildSetup, Moved
    <3> QED BY <1>0, <3>1 DEF Procs
  <2> QED BY <2>2, <2>3
<1>4. CASE \E p \in Pids : ChildExit(p)
  <2>1. PICK S, status : Die(S, status)
    BY <1>4 DEF ChildExit
  <2> QED BY <1>0, <2>1 DEF Die, Procs
<1> QED BY <1>1, <1>2, <1>3, <1>4, <1>5 DEF EnvStep, ChildStep

LEMMA StagesStep ==
    Typed /\ SignalState /\ StagesInv /\ [Next]_vars => StagesInv'
<1> SUFFICES ASSUME Typed, SignalState, StagesInv, [Next]_vars, pc' \in Building
             PROVE  StagesInv'
    BY DEF StagesInv
<1>0. /\ TypeOK /\ PipelineShape /\ proc \in [Pids -> Procs]
      /\ pl \in PipelineLocals /\ pl.pids \in Seq(Pids)
    BY DEF Typed, TypeOK, PipelineLocals
<1>1. CASE StartPipeline
  <2>1. pl'.pids = <<>>
    BY <1>1 DEF StartPipeline, NoPipeline
  <2> QED BY <2>1 DEF StagesInv
<1>2. CASE ForkStage
  <2>1. PICK p \in Pids :
            /\ PidAvailable(p)
            /\ Fork(p, IF pl.pgid = NoPid THEN p ELSE pl.pgid)
            /\ pl' = [pl EXCEPT !.pids = Append(@, p),
                                !.pgid = IF @ = NoPid THEN p ELSE @]
    BY <1>2 DEF ForkStage
  <2> DEFINE g == IF pl.pgid = NoPid THEN p ELSE pl.pgid
             n == Len(pl.pids)
  <2>2. pl'.pids = Append(pl.pids, p) /\ pl'.pgid = g
    <3> DEFINE ps == Append(pl.pids, p)
    <3>1. pl' = [pl EXCEPT !.pids = ps, !.pgid = g]
      BY <2>1
    <3> HIDE DEF ps, g
    <3>2. [pl EXCEPT !.pids = ps, !.pgid = g].pids = ps
      BY <1>0 DEF PipelineLocals
    <3>3. [pl EXCEPT !.pids = ps, !.pgid = g].pgid = g
      BY <1>0 DEF PipelineLocals
    <3>4. pl'.pids = ps /\ pl'.pgid = g
      BY <3>1, <3>2, <3>3
    <3> QED BY <3>4 DEF ps
  <2>3. pc = "fork" /\ pc' = "setpgid"
    BY <1>2 DEF ForkStage, At
  <2>4. n \in Nat /\ Len(pl'.pids) = n + 1 /\ pl'.pids[n + 1] = p
        /\ \A k \in 1..n : pl'.pids[k] = pl.pids[k] /\ pl.pids[k] \in Pids
    BY <1>0, <2>2
  <2>5. proc'[p].st = "forked" /\ proc'[p].target = g
    BY <1>0, <2>1 DEF Fork
  <2>6. \A q \in Pids \ {p} : proc'[q] = proc[q]
    BY <1>0, <2>1 DEF Fork
  <2>7. ASSUME NEW k \in 1..n
        PROVE  /\ pl.pids[k] # p
               /\ proc[pl.pids[k]].st \in UnreapedStates /\ proc[pl.pids[k]].target = pl.pgid
               /\ proc[pl.pids[k]].pgrp = pl.pgid
               /\ pl.pgid = g
    <3>1. /\ proc[pl.pids[k]].st \in UnreapedStates /\ proc[pl.pids[k]].target = pl.pgid
          /\ proc[pl.pids[k]].pgrp = pl.pgid
      BY <2>3, <2>4 DEF StagesInv, Building, Settled
    <3>2. proc[p].st \notin UnreapedStates
      BY <2>1 DEF PidAvailable, UnreapedStates
    <3>3. pl.pids # <<>> /\ pl.pids[1] \in Pids
      BY <1>0, <2>4
    <3>4. pl.pgid \in Pids
      BY <1>0, <2>3, <3>3 DEF PipelineShape
    <3> QED BY <3>1, <3>2, <3>4, JobTableAssumption
  <2>8. ASSUME NEW k \in 1..n + 1
        PROVE  /\ proc'[pl'.pids[k]].st \in UnreapedStates
               /\ proc'[pl'.pids[k]].target = pl'.pgid
               /\ k <= n => proc'[pl'.pids[k]].pgrp = pl'.pgid
    <3>1. CASE k = n + 1
      BY <2>2, <2>4, <2>5, <3>1 DEF UnreapedStates
    <3>2. CASE k \in 1..n
      <4>1. pl'.pids[k] = pl.pids[k] /\ proc'[pl.pids[k]] = proc[pl.pids[k]]
        BY <2>4, <2>6, <2>7, <3>2
      <4>2. proc'[pl.pids[k]].st \in UnreapedStates
        BY <2>7, <3>2, <4>1
      <4> QED BY <2>2, <2>7, <3>2, <4>1, <4>2
    <3> QED BY <2>4, <3>1, <3>2
  <2>9. Settled' = n
    BY <2>3, <2>4 DEF Settled
  <2> HIDE DEF n, g
  <2> QED BY <2>4, <2>8, <2>9 DEF StagesInv
<1>3. CASE ParentSetpgid
  <2> DEFINE n == Len(pl.pids)
             p == pl.pids[n]
  <2>1. pc = "setpgid" /\ pl.pids # <<>> /\ pl.pgid = pl.pids[1] /\ UNCHANGED pl
    BY <1>0, <1>3 DEF ParentSetpgid, At, PipelineShape
  <2>2. n \in Nat \ {0} /\ \A k \in 1..n : pl.pids[k] \in Pids
    BY <1>0, <2>1
  <2>3. \A k \in 1..n : /\ proc[pl.pids[k]].st \in UnreapedStates
                        /\ proc[pl.pids[k]].target = pl.pgid
                        /\ k <= n - 1 => proc[pl.pids[k]].pgrp = pl.pgid
    BY <2>1 DEF StagesInv, Building, Settled
  <2>4. CanJoin(p, pl.pgid)
    <3>1. CASE n = 1
      BY <2>1, <3>1 DEF CanJoin
    <3>2. CASE n # 1
      <4>0. 1 \in 1..n /\ 1 <= n - 1
        <5>1. n \in Nat \ {0} /\ n # 1
          BY <2>2, <3>2
        <5> HIDE DEF n
        <5> QED BY <5>1
      <4>1. pl.pids[1] \in InGroup(pl.pgid)
        BY <2>2, <2>3, <4>0 DEF InGroup, Unreaped, Alive, UnreapedStates
      <4> QED BY <4>1 DEF CanJoin
    <3> QED BY <3>1, <3>2
  <2>5. Unreaped(p)
    BY <2>2, <2>3 DEF Unreaped, Alive, UnreapedStates
  <2>6. proc' = [proc EXCEPT ![p].pgrp = pl.pgid]
    BY <1>3, <2>4, <2>5 DEF ParentSetpgid, Moved
  <2>7. ASSUME NEW k \in 1..n
        PROVE  /\ proc'[pl.pids[k]].st \in UnreapedStates
               /\ proc'[pl.pids[k]].target = pl.pgid
               /\ proc'[pl.pids[k]].pgrp = pl.pgid
    <3> DEFINE q == pl.pids[k]
    <3>1. q \in Pids /\ p \in Pids
      BY <2>2
    <3>2. q = p \/ proc[q].pgrp = pl.pgid
      BY <2>2, <2>3
    <3>3. proc'[q].st = proc[q].st /\ proc'[q].target = proc[q].target
      BY <1>0, <2>6, <3>1 DEF Procs
    <3>4. proc'[q].pgrp = pl.pgid
      BY <1>0, <2>6, <3>1, <3>2 DEF Procs
    <3> HIDE DEF q
    <3>5. proc'[q].st \in UnreapedStates
      BY <2>3, <3>3 DEF q
    <3> QED BY <2>1, <2>3, <3>3, <3>4, <3>5 DEF q
  <2> QED BY <2>1, <2>7 DEF StagesInv
<1>4. CASE EnvStep \/ \E p \in Pids : ChildStep(p)
  <2>1. UNCHANGED <<pc, pl>>
    BY <1>4 DEF EnvStep, ChildStep, CtrlC, CtrlZ, Killed, StoppedBySignal,
                ContinuedBySignal, ChildSetup, ChildExit, shellVars
  <2>2. Settled' = Settled
    BY <2>1 DEF Settled
  <2> SUFFICES ASSUME NEW k \in 1..Len(pl.pids)
               PROVE  /\ proc'[pl.pids[k]].st \in UnreapedStates
                      /\ proc'[pl.pids[k]].target = pl.pgid
                      /\ k <= Settled => proc'[pl.pids[k]].pgrp = pl.pgid
    BY <2>1, <2>2 DEF StagesInv
  <2>3. pl.pids[k] \in Pids
    BY <1>0
  <2>4. /\ proc[pl.pids[k]].st \in UnreapedStates /\ proc[pl.pids[k]].target = pl.pgid
        /\ k <= Settled => proc[pl.pids[k]].pgrp = pl.pgid
    BY <2>1 DEF StagesInv
  <2>5. proc'[pl.pids[k]].st \in UnreapedStates /\ proc'[pl.pids[k]].target = proc[pl.pids[k]].target
        /\ (\/ proc'[pl.pids[k]].pgrp = proc[pl.pids[k]].pgrp
            \/ proc'[pl.pids[k]].pgrp = proc[pl.pids[k]].target)
    BY <1>0, <1>4, <2>1, <2>3, <2>4, OutsideKeepsStages
  <2> QED BY <2>4, <2>5
<1>5. CASE UNCHANGED vars
  BY <1>5 DEF vars, StagesInv, Settled
\* The handler cannot run while SIGCHLD is blocked.
<1>6. CASE HandlerStep
  <2>1. pc' = pc
    BY <1>6 DEF HandlerStep, HandlerEnter, HandlerReap, HandlerReturn
  <2> QED BY <1>6, <2>1 DEF HandlerStep, HandlerEnter, HandlerReap, HandlerReturn,
                           Deliverable, SignalState, BlockedAt, Building
\* Every other step leaves the fork loop.
<1>7. CASE \/ ForkFails \/ RegisterBackground \/ SetForeground \/ WaitExit
           \/ WaitStop \/ Unblock \/ ClearForeground
  BY <1>7 DEF ForkFails, RegisterBackground, SetForeground, WaitExit, WaitStop,
              Unblock, ClearForeground, Return, Building
<1>8. CASE \/ BgResume \/ FgResume \/ NoSuchJob \/ BgMark \/ FgMark \/ FgSet
           \/ FgCall \/ FgExit \/ FgStop \/ FgEchild \/ FgClear
  BY <1>8 DEF BgResume, FgResume, Resume, NoSuchJob, BgMark, FgMark, FgSet,
              FgCall, FgExit, FgStop, FgEchild, FgClear, Return, Building
<1>9. CASE \/ Jobs \/ CommandFork \/ CommandForkFails \/ CommandCall
           \/ CommandExit \/ CommandEchild
  BY <1>9 DEF Jobs, CommandFork, CommandForkFails, CommandCall, CommandExit,
              CommandEchild, Return, Building
<1> QED BY <1>1, <1>2, <1>3, <1>4, <1>5, <1>6, <1>7, <1>8, <1>9
        DEF Next, ShellStep, UserStep

LEMMA StagesInvHeld == Typed /\ StagesInv => StagesHeld
BY DEF Typed, TypeOK, PipelineLocals, PipelineShape, StagesInv, StagesHeld, Building,
       Unreaped, Alive, UnreapedStates

\* While a pipeline is being forked no stage is reaped, and all are in the one
\* group of the first, whoever calls setpgid first (execute_pipeline 321-448).
THEOREM StagesHeldCorrect == Spec => []StagesHeld
BY InitTyped, TypedStep, SignalInit, SignalStep, StagesInit, StagesStep,
   StagesInvHeld, PTL DEF Spec

-----------------------------------------------------------------------------
(* What a step does to the children.                                       *)

\* What every step but a fork leaves true of q.
Lives(q) ==
    /\ proc'[q].st \in UnreapedStates =>
        /\ proc[q].st \in UnreapedStates
        /\ proc'[q].target = proc[q].target
        /\ proc'[q].pgrp \in {proc[q].pgrp, proc[q].target}
    /\ proc[q].st \notin UnreapedStates => proc'[q] = proc[q]
    /\ proc'[q].st = "free" => proc[q].st = "free"

LEMMA TakenLives ==
    ASSUME TypeOK, NEW p \in Pids, Reportable(p), proc' = Taken(p), NEW q \in Pids
    PROVE  Lives(q)
BY DEF TypeOK, Taken, Procs, Reportable, Lives, UnreapedStates

LEMMA DieLives ==
    ASSUME TypeOK, NEW S, \A p \in S : p \in Pids => Alive(p), NEW status, Die(S, status),
           NEW q \in Pids
    PROVE  Lives(q)
BY DEF TypeOK, Die, Procs, Alive, Lives, UnreapedStates

LEMMA KeyboardAlive ==
    ASSUME NEW S \in KeyboardTakes, NEW p \in S, p \in Pids PROVE Alive(p)
BY DEF KeyboardTakes, Alive

LEMMA ContinueLives ==
    ASSUME TypeOK, NEW g, Continue(g), NEW q \in Pids PROVE Lives(q)
BY DEF TypeOK, Continue, Procs, Lives, UnreapedStates

LEMMA SameLives == ASSUME UNCHANGED proc, NEW q \in Pids PROVE Lives(q)
BY DEF Lives

LEMMA OutsideLives ==
    ASSUME TypeOK, EnvStep \/ \E p \in Pids : ChildStep(p), NEW q \in Pids
    PROVE  Lives(q)
<1>0. proc \in [Pids -> Procs]
    BY DEF TypeOK
<1>1. CASE CtrlC
  BY <1>1, DieLives, KeyboardAlive DEF CtrlC
<1>2. CASE CtrlZ
  <2>1. PICK S \in KeyboardTakes :
            proc' = [p \in Pids |-> IF p \in S THEN [proc[p] EXCEPT !.st = "stopped"]
                                                ELSE proc[p]]
    BY <1>2 DEF CtrlZ
  <2>2. q \in S => Alive(q)
    BY KeyboardAlive
  <2> QED BY <1>0, <2>1, <2>2 DEF Procs, Alive, Lives, UnreapedStates
<1>3. CASE \E p \in Pids : Killed(p)
  BY <1>3, DieLives DEF Killed
<1>4. CASE \E p \in Pids : StoppedBySignal(p) \/ ContinuedBySignal(p)
  BY <1>0, <1>4 DEF StoppedBySignal, ContinuedBySignal, Procs, Lives, UnreapedStates
<1>5. CASE \E p \in Pids : ChildSetup(p)
  <2>1. PICK p \in Pids : ChildSetup(p)
    BY <1>5
  <2> DEFINE g == proc[p].target
  <2>2. CASE CanJoin(p, g)
    <3>1. proc' = [[proc EXCEPT ![p].pgrp = g] EXCEPT ![p].st = "running"]
      BY <2>1, <2>2 DEF ChildSetup, Moved
    <3>2. proc[p].st = "forked"
      BY <2>1 DEF ChildSetup
    <3> QED BY <1>0, <3>1, <3>2 DEF Procs, Lives, UnreapedStates
  <2>3. CASE ~CanJoin(p, g)
    <3>1. proc' = [proc EXCEPT ![p].st = "running"] /\ proc[p].st = "forked"
      BY <2>1, <2>3 DEF ChildSetup, Moved
    <3> QED BY <1>0, <3>1 DEF Procs, Lives, UnreapedStates
  <2> QED BY <2>2, <2>3
<1>6. CASE \E p \in Pids : ChildExit(p)
  BY <1>6, DieLives DEF ChildExit, Alive
<1> QED BY <1>1, <1>2, <1>3, <1>4, <1>5, <1>6 DEF EnvStep, ChildStep

\* The steps at which SIGCHLD is blocked: the handler is not one of them.
Quiet ==
    /\ EnvStep \/ (\E p \in Pids : ChildStep(p)) \/ UNCHANGED vars
    /\ UNCHANGED <<pc, pl, job_table>>

LEMMA BlockedSteps ==
    ASSUME SignalState, [Next]_vars, pc \in BlockedAt \/ pc' \in BlockedAt
    PROVE  \/ StartPipeline \/ ForkStage \/ ForkFails \/ ParentSetpgid
           \/ RegisterBackground \/ SetForeground \/ WaitExit \/ WaitStop
           \/ Unblock \/ Quiet
<1> USE DEF BlockedAt, Building
<1>1. CASE HandlerStep
  BY <1>1 DEF HandlerStep, HandlerEnter, HandlerReap, HandlerReturn, Deliverable, SignalState
<1>2. CASE EnvStep \/ (\E p \in Pids : ChildStep(p)) \/ UNCHANGED vars
  BY <1>2 DEF Quiet, vars, EnvStep, ChildStep, CtrlC, CtrlZ, Killed, StoppedBySignal,
              ContinuedBySignal, ChildSetup, ChildExit, shellVars
<1>3. CASE \/ BgResume \/ FgResume \/ NoSuchJob \/ BgMark \/ FgMark \/ FgSet
           \/ FgCall \/ FgExit \/ FgStop \/ FgEchild \/ FgClear
  BY <1>3 DEF BgResume, FgResume, Resume, NoSuchJob, BgMark, FgMark, FgSet,
              FgCall, FgExit, FgStop, FgEchild, FgClear, Return, At
<1>4. CASE \/ Jobs \/ CommandFork \/ CommandForkFails \/ CommandCall
           \/ CommandExit \/ CommandEchild
  BY <1>4 DEF Jobs, CommandFork, CommandForkFails, CommandCall, CommandExit,
              CommandEchild, Return, At
<1>5. CASE ClearForeground
  BY <1>5 DEF ClearForeground, Return, At
<1> QED BY <1>1, <1>2, <1>3, <1>4, <1>5 DEF Next, ShellStep, UserStep

LEMMA StepLives ==
    ASSUME Typed, StagesInv, [Next]_vars, ~ForkStage, ~CommandFork, NEW q \in Pids
    PROVE  Lives(q)
<1>0. TypeOK /\ PipelineShape /\ proc \in [Pids -> Procs]
    BY DEF Typed, TypeOK
<1>1. CASE UNCHANGED proc
  BY <1>1, SameLives
<1>2. CASE ParentSetpgid
  <2> DEFINE n == Len(pl.pids)
             p == pl.pids[n]
  <2>1. pc = "setpgid" /\ pl.pids # <<>> /\ pl.pids \in Seq(Pids)
    BY <1>0, <1>2 DEF ParentSetpgid, At, PipelineShape, TypeOK, PipelineLocals
  <2>2. n \in 1..n /\ p \in Pids
    BY <2>1
  <2> HIDE DEF n
  <2>3. proc[p].st \in UnreapedStates /\ proc[p].target = pl.pgid
    BY <2>1, <2>2 DEF StagesInv, Building, n
  <2>4. proc' = proc \/ proc' = [proc EXCEPT ![p].pgrp = pl.pgid]
    BY <1>2 DEF ParentSetpgid, Moved, n
  <2> HIDE DEF p
  <2>5. CASE proc' = [proc EXCEPT ![p].pgrp = pl.pgid]
    BY <1>0, <2>2, <2>3, <2>5 DEF Procs, Lives, UnreapedStates
  <2> QED BY <2>4, <2>5, SameLives
<1>3. CASE WaitExit
  <2>1. PICK w \in waitpid(pl.pgid) :
            IF w = NoPid THEN UNCHANGED proc ELSE proc[w].st = "zombie" /\ proc' = Taken(w)
    BY <1>3 DEF WaitExit
  <2>2. w # NoPid => w \in Pids
    BY DEF waitpid, InGroup
  <2> QED BY <1>0, <2>1, <2>2, SameLives, TakenLives DEF Reportable
<1>4. CASE WaitStop \/ FgExit \/ FgStop
  <2>1. PICK w \in waitpid(pl.pgid) \ {NoPid} :
            proc[w].st \in {"zombie", "stopped"} /\ proc' = Taken(w)
    BY <1>4 DEF WaitStop, FgExit, FgStop
  <2>2. w \in Pids
    BY DEF waitpid, InGroup
  <2> QED BY <1>0, <2>1, <2>2, TakenLives DEF Reportable
<1>5. CASE CommandExit
  <2>1. pl.pids[1] \in Pids
    BY <1>0, <1>5 DEF TypeOK, PipelineShape, PipelineLocals, CommandExit, At
  <2> QED BY <1>0, <1>5, <2>1, TakenLives DEF CommandExit, Reportable
<1>6. CASE BgResume \/ FgResume
  BY <1>0, <1>6, ContinueLives DEF BgResume, FgResume, Resume
<1>7. CASE HandlerReap
  BY <1>0, <1>7, TakenLives DEF HandlerReap
<1>8. CASE EnvStep \/ \E p \in Pids : ChildStep(p)
  BY <1>0, <1>8, OutsideLives
<1>9. CASE \/ StartPipeline \/ ForkFails \/ RegisterBackground \/ SetForeground
           \/ Unblock \/ ClearForeground \/ NoSuchJob \/ BgMark \/ FgMark \/ FgSet
           \/ FgCall \/ FgEchild \/ FgClear \/ Jobs \/ CommandForkFails
           \/ CommandCall \/ CommandEchild \/ HandlerEnter \/ HandlerReturn
  BY <1>1, <1>9 DEF StartPipeline, ForkFails, RegisterBackground, SetForeground,
        Unblock, ClearForeground, NoSuchJob, BgMark, FgMark, FgSet, FgCall,
        FgEchild, FgClear, Jobs, CommandForkFails, CommandCall, CommandEchild,
        HandlerEnter, HandlerReturn
<1>10. CASE UNCHANGED vars
  BY <1>1, <1>10 DEF vars
<1> QED BY <1>2, <1>3, <1>4, <1>5, <1>6, <1>7, <1>8, <1>9, <1>10
        DEF Next, ShellStep, UserStep, HandlerStep

\* What the two steps that fork leave true: the pid was no child's, and no
\* child is in a group of that name.
Forks(p, g) ==
    /\ p \in Pids
    /\ PidAvailable(p)
    /\ proc'[p].st = "forked" /\ proc'[p].pgrp = ShellPgrp /\ proc'[p].target = g
    /\ \A q \in Pids \ {p} : proc'[q] = proc[q]

LEMMA StageForked ==
    ASSUME Typed, ForkStage
    PROVE  \E p \in Pids :
              /\ Forks(p, IF pl.pgid = NoPid THEN p ELSE pl.pgid)
              /\ pl'.pids = Append(pl.pids, p)
              /\ pl'.pgid = IF pl.pgid = NoPid THEN p ELSE pl.pgid
              /\ pl'.n = pl.n
<1>0. proc \in [Pids -> Procs] /\ pl \in PipelineLocals
    BY DEF Typed, TypeOK
<1>1. PICK p \in Pids :
          /\ PidAvailable(p)
          /\ Fork(p, IF pl.pgid = NoPid THEN p ELSE pl.pgid)
          /\ pl' = [pl EXCEPT !.pids = Append(@, p),
                              !.pgid = IF @ = NoPid THEN p ELSE @]
    BY DEF ForkStage
<1> DEFINE g  == IF pl.pgid = NoPid THEN p ELSE pl.pgid
           ps == Append(pl.pids, p)
           e  == [pl EXCEPT !.pids = ps, !.pgid = g]
<1>2. pl' = e
    BY <1>1
<1>3. Forks(p, g)
    BY <1>0, <1>1 DEF Fork, Forks
<1> HIDE DEF g, ps
<1>4. e.pids = ps /\ e.pgid = g /\ e.n = pl.n
    BY <1>0 DEF PipelineLocals
<1>5. pl'.pids = ps /\ pl'.pgid = g /\ pl'.n = pl.n
    BY <1>2, <1>4
<1> QED BY <1>3, <1>5 DEF g, ps

LEMMA CommandForked ==
    ASSUME Typed, CommandFork
    PROVE  \E p \in Pids : Forks(p, ShellPgrp)
<1>0. proc \in [Pids -> Procs]
    BY DEF Typed, TypeOK
<1> QED BY <1>0 DEF CommandFork, Fork, Forks

\* Every child is in the group it was forked for, or is the stage the parent is
\* about to put there; and a group is named after a pid that was handed out.
Placed(q) ==
    /\ proc[q].target \in Pids \cup {ShellPgrp}
    /\ proc[q].target # ShellPgrp => proc[proc[q].target].st # "free"
    /\ \/ proc[q].pgrp = proc[q].target
       \/ proc[q].pgrp = ShellPgrp /\ pc = "setpgid" /\ q = pl.pids[Len(pl.pids)]

Groups == \A q \in Pids : proc[q].st \in UnreapedStates => Placed(q)

LEMMA GroupsInit == Init => Groups
BY DEF Init, Groups, UnreapedStates

LEMMA FreshGroup ==
    ASSUME Groups, pc # "setpgid", NEW p \in Pids, PidAvailable(p),
           NEW q \in Pids, proc[q].st \in UnreapedStates
    PROVE  q # p /\ proc[q].target # p
BY JobControlAssumption
   DEF Groups, Placed, PidAvailable, InGroup, Unreaped, Alive, UnreapedStates

LEMMA GroupsStep == Typed /\ SignalState /\ StagesInv /\ StagesInv' /\ Groups /\ [Next]_vars => Groups'
<1> SUFFICES ASSUME Typed, SignalState, StagesInv, StagesInv', Groups, [Next]_vars PROVE Groups'
    OBVIOUS
<1>0. proc \in [Pids -> Procs] /\ pl.pids \in Seq(Pids) /\ PipelineShape
    BY DEF Typed, TypeOK, PipelineLocals
<1> SUFFICES ASSUME NEW q \in Pids, proc'[q].st \in UnreapedStates PROVE Placed(q)'
    BY DEF Groups
\* A fork: its child waits for setpgid, the others are where they were.
<1>a. ASSUME NEW p, NEW g \in Pids \cup {ShellPgrp}, Forks(p, g), pc # "setpgid",
             g = ShellPgrp \/ (pc' = "setpgid" /\ p = pl'.pids[Len(pl'.pids)]),
             g \in {ShellPgrp, p} \/ proc[g].st # "free"
      PROVE  Placed(q)'
  <2>1. CASE q = p
    BY <1>a, <2>1 DEF Forks, Placed
  <2>2. CASE q # p
    <3>1. proc'[q] = proc[q]
      BY <1>a, <2>2 DEF Forks
    <3>2. Placed(q)
      BY <3>1 DEF Groups
    <3>3. proc[q].pgrp = proc[q].target
      BY <1>a, <3>2 DEF Placed
    <3>4. proc[q].target \in Pids \ {p} => proc'[proc[q].target] = proc[proc[q].target]
      BY <1>a DEF Forks
    <3>5. proc'[p].st = "forked"
      BY <1>a DEF Forks
    <3> QED BY <3>1, <3>2, <3>3, <3>4, <3>5 DEF Placed
  <2> QED BY <2>1, <2>2
<1>1. CASE ForkStage
  <2>1. PICK p \in Pids :
              /\ Forks(p, IF pl.pgid = NoPid THEN p ELSE pl.pgid)
              /\ pl'.pids = Append(pl.pids, p)
    BY <1>1, StageForked
  <2>2. p = pl'.pids[Len(pl'.pids)]
    BY <1>0, <2>1
  <2>3. pc = "fork" /\ pc' = "setpgid"
    BY <1>1 DEF ForkStage, At
  <2>4. pl.pgid # NoPid => pl.pgid \in Pids /\ proc[pl.pgid].st # "free"
    <3>1. SUFFICES ASSUME pl.pgid # NoPid
                   PROVE  pl.pgid \in Pids /\ proc[pl.pgid].st # "free"
      OBVIOUS
    <3>2. pl.pids # <<>> /\ pl.pgid = pl.pids[1]
      BY <1>0, <2>3, <3>1 DEF PipelineShape
    <3>3. 1 \in 1..Len(pl.pids)
      BY <1>0, <3>2
    <3> QED BY <1>0, <2>3, <3>2, <3>3 DEF StagesInv, Building, UnreapedStates
  <2> QED BY <1>a, <2>1, <2>2, <2>3, <2>4
<1>2. CASE CommandFork
  BY <1>2, <1>a, CommandForked DEF CommandFork, At
<1>3. CASE ~ForkStage /\ ~CommandFork
  <2>1. \A r \in Pids : Lives(r)
    BY <1>3, StepLives
  <2>2. /\ proc[q].st \in UnreapedStates /\ proc'[q].target = proc[q].target
        /\ proc'[q].pgrp \in {proc[q].pgrp, proc[q].target}
    BY <2>1 DEF Lives
  <2>3. Placed(q)
    BY <2>2 DEF Groups
  <2>4. /\ proc'[q].target \in Pids \cup {ShellPgrp}
        /\ proc'[q].target # ShellPgrp => proc'[proc'[q].target].st # "free"
    BY <2>1, <2>2, <2>3 DEF Placed, Lives
  <2>5. \/ proc'[q].pgrp = proc'[q].target
        \/ proc'[q].pgrp = ShellPgrp /\ pc' = "setpgid" /\ q = pl'.pids[Len(pl'.pids)]
    <3>1. CASE proc[q].pgrp = proc[q].target
      BY <2>2, <3>1
    <3>2. CASE proc[q].pgrp = ShellPgrp /\ pc = "setpgid" /\ q = pl.pids[Len(pl.pids)]
      <4>1. CASE ParentSetpgid
        <5>1. pc' \in Building \ {"setpgid"} /\ pl' = pl
          BY <4>1 DEF ParentSetpgid, Building
        <5>2. pl.pids # <<>>
          BY <1>0, <3>2 DEF PipelineShape
        <5>3. Len(pl.pids) \in 1..Len(pl.pids)
          BY <1>0, <5>2
        <5> QED BY <3>2, <5>1, <5>3 DEF StagesInv, Settled
      <4>2. CASE Quiet
        BY <2>2, <3>2, <4>2 DEF Quiet
      <4>3. ParentSetpgid \/ Quiet
        BY <1>3, <3>2, BlockedSteps DEF StartPipeline, ForkFails, RegisterBackground,
              SetForeground, WaitExit, WaitStop, Unblock, At, BlockedAt, Building
      <4> QED BY <4>1, <4>2, <4>3
    <3> QED BY <2>3, <3>1, <3>2 DEF Placed
  <2> QED BY <2>4, <2>5 DEF Placed
<1> QED BY <1>1, <1>2, <1>3

-----------------------------------------------------------------------------
(* The stages that a foreground pipeline waits for.                        *)

\* The pipeline's group holds no process but its stages.
OwnGroup ==
    pc \in BlockedAt /\ pl.pids # <<>> =>
        \A q \in Pids : proc[q].st \in UnreapedStates /\ proc[q].target = pl.pgid =>
            \E k \in 1..Len(pl.pids) : q = pl.pids[k]

Apart(pids) == \A k, l \in 1..Len(pids) : pids[k] = pids[l] => k = l

Counted ==
    /\ pc \in BlockedAt => Apart(pl.pids)
    /\ pc = "fork" => Len(pl.pids) < pl.n
    /\ pc = "setpgid" => Len(pl.pids) <= pl.n
    /\ pc \in BlockedAt \ {"fork", "setpgid"} => Len(pl.pids) = pl.n

LEMMA OwnGroupInit == Init => OwnGroup /\ Counted
BY DEF Init, OwnGroup, Counted, BlockedAt, Building

LEMMA AppendApart ==
    ASSUME NEW s \in Seq(Pids), Apart(s), NEW p \in Pids,
           \A k \in 1..Len(s) : s[k] # p
    PROVE  Apart(Append(s, p))
BY DEF Apart

LEMMA CountedStep ==
    Typed /\ SignalState /\ StagesInv /\ Groups /\ OwnGroup /\ Counted /\ [Next]_vars
        => OwnGroup' /\ Counted'
<1> SUFFICES ASSUME Typed, SignalState, StagesInv, Groups, OwnGroup, Counted, [Next]_vars,
                    pc' \in BlockedAt
             PROVE  OwnGroup' /\ Counted'
    BY DEF OwnGroup, Counted, BlockedAt, Building
<1>0. /\ proc \in [Pids -> Procs] /\ pl \in PipelineLocals /\ pl.pids \in Seq(Pids)
      /\ PipelineShape /\ pl.n \in Nat
    BY DEF Typed, TypeOK, PipelineLocals
<1>1. CASE StartPipeline
  <2>1. PICK n \in 1..MaxStages, bg \in BOOLEAN :
            pl' = [NoPipeline EXCEPT !.n = n, !.background = bg]
    BY <1>1 DEF StartPipeline
  <2>2. pl'.pids = <<>> /\ pl'.n = n
    BY <2>1 DEF NoPipeline
  <2>3. n \in Nat /\ 0 < n
    BY JobControlAssumption
  <2>4. pc' = "fork"
    BY <1>1 DEF StartPipeline
  <2> QED BY <2>2, <2>3, <2>4 DEF OwnGroup, Counted, Apart
<1>2. CASE ForkStage
  <2>1. PICK p \in Pids :
              /\ Forks(p, IF pl.pgid = NoPid THEN p ELSE pl.pgid)
              /\ pl'.pids = Append(pl.pids, p)
              /\ pl'.pgid = IF pl.pgid = NoPid THEN p ELSE pl.pgid
              /\ pl'.n = pl.n
    BY <1>2, StageForked
  <2>2. pc = "fork" /\ pc' = "setpgid"
    BY <1>2 DEF ForkStage, At
  <2>3. \A k \in 1..Len(pl.pids) : pl.pids[k] \in Pids /\ pl.pids[k] # p
    <3>1. \A k \in 1..Len(pl.pids) : proc[pl.pids[k]].st \in UnreapedStates
      BY <2>2 DEF StagesInv, Building
    <3>2. proc[p].st \notin UnreapedStates
      BY <2>1 DEF Forks, PidAvailable, UnreapedStates
    <3> QED BY <1>0, <3>1, <3>2
  <2>4. Apart(pl'.pids) /\ Len(pl'.pids) <= pl'.n
    <3>1. Apart(pl.pids) /\ Len(pl.pids) < pl.n
      BY <2>2 DEF Counted, BlockedAt, Building
    <3>2. Apart(pl'.pids)
      BY <1>0, <2>1, <2>3, <3>1, AppendApart
    <3> QED BY <1>0, <2>1, <3>1, <3>2
  <2>5. ASSUME NEW q \in Pids, proc'[q].st \in UnreapedStates, proc'[q].target = pl'.pgid
        PROVE  \E k \in 1..Len(pl'.pids) : q = pl'.pids[k]
    <3>1. CASE q = p
      <4>1. Len(pl'.pids) \in 1..Len(pl'.pids) /\ pl'.pids[Len(pl'.pids)] = p
        BY <1>0, <2>1
      <4> QED BY <3>1, <4>1
    <3>2. CASE q # p
      <4>1. proc'[q] = proc[q]
        BY <2>1, <3>2 DEF Forks
      <4>2. proc[q].st \in UnreapedStates /\ proc[q].target = pl'.pgid
        BY <2>5, <4>1
      <4>3. proc[q].target # p
        BY <2>1, <2>2, <4>2, FreshGroup DEF Forks
      <4>4. pl'.pgid = pl.pgid /\ pl.pgid # NoPid
        BY <2>1, <4>2, <4>3
      <4>5. pl.pids # <<>>
        BY <1>0, <2>2, <4>4 DEF PipelineShape
      <4>6. PICK k \in 1..Len(pl.pids) : q = pl.pids[k]
        BY <2>2, <4>2, <4>4, <4>5 DEF OwnGroup, BlockedAt, Building
      <4>7. k \in 1..Len(pl'.pids) /\ pl'.pids[k] = pl.pids[k]
        BY <1>0, <2>1, <4>6
      <4> QED BY <4>6, <4>7
    <3> QED BY <3>1, <3>2
  <2>6. OwnGroup'
    BY <2>5 DEF OwnGroup
  <2> QED BY <2>2, <2>4, <2>6 DEF Counted
\* Every other step keeps the pids, and only moves or reaps children.
<1>3. CASE ~ForkStage /\ ~StartPipeline
  <2>1. /\ pc \in BlockedAt
        /\ ParentSetpgid \/ SetForeground \/ WaitExit \/ WaitStop \/ Quiet
    <3>1. \/ ParentSetpgid \/ SetForeground \/ WaitExit \/ WaitStop \/ Quiet
      BY <1>3, BlockedSteps DEF ForkFails, RegisterBackground, Unblock, Return, BlockedAt, Building
    <3> QED BY <3>1 DEF ParentSetpgid, SetForeground, WaitExit, WaitStop, Quiet, At, BlockedAt, Building
  <2>2. pl'.pids = pl.pids /\ pl'.pgid = pl.pgid /\ pl'.n = pl.n
    BY <1>0, <2>1 DEF ParentSetpgid, SetForeground, WaitExit, WaitStop, Quiet, PipelineLocals
  <2>3. ~CommandFork
    BY <2>1 DEF CommandFork, At, BlockedAt, Building
  <2>4. \A q \in Pids : Lives(q)
    BY <1>3, <2>3, StepLives
  <2>5. OwnGroup'
    BY <2>1, <2>2, <2>4 DEF OwnGroup, Lives
  <2>6. /\ pc' = "fork" => Len(pl.pids) < pl.n
        /\ pc' = "setpgid" => Len(pl.pids) <= pl.n
        /\ pc' \in BlockedAt \ {"fork", "setpgid"} => Len(pl.pids) = pl.n
    <3>1. CASE ParentSetpgid
      <4>1. pc = "setpgid" /\ Len(pl.pids) <= pl.n /\ Len(pl.pids) \in Nat
        BY <1>0, <3>1 DEF ParentSetpgid, At, Counted
      <4> QED BY <1>0, <3>1, <4>1 DEF ParentSetpgid
    <3>2. CASE Quiet
      BY <2>1, <3>2 DEF Quiet, Counted
    <3>3. CASE SetForeground \/ WaitExit \/ WaitStop
      BY <2>1, <3>3 DEF SetForeground, WaitExit, WaitStop, At, Counted, BlockedAt, Building
    <3> QED BY <2>1, <3>1, <3>2, <3>3
  <2>7. Apart(pl'.pids)
    BY <2>1, <2>2 DEF Counted
  <2> QED BY <2>2, <2>5, <2>6, <2>7 DEF Counted
<1> QED BY <1>1, <1>2, <1>3

\* The stages whose exit has not been reported.
Left == {k \in 1..Len(pl.pids) : proc[pl.pids[k]].st \in UnreapedStates}

Awaited ==
    /\ pc \in {"wait", "unblock"} =>
        /\ \A k \in Left : proc[pl.pids[k]].target = pl.pgid
        /\ pl.n \in Left \/ pl.code = status_to_exit_code(proc[pl.pids[pl.n]].status)
    /\ pc = "wait" => Cardinality(Left) = pl.remaining
    /\ pc = "unblock" /\ pl.remaining = 0 => Left = {}

LEMMA AwaitedInit == Init => Awaited
BY DEF Init, Awaited

LEMMA LeftFinite == Typed => IsFiniteSet(Left) /\ Cardinality(Left) \in Nat
<1> SUFFICES ASSUME Typed PROVE IsFiniteSet(Left)
    BY FS_CardinalityType
<1>1. Len(pl.pids) \in Int
    BY DEF Typed, TypeOK, PipelineLocals
<1>2. IsFiniteSet(1..Len(pl.pids))
    BY <1>1, FS_Interval
<1> QED BY <1>2, FS_Subset DEF Left

\* Outside the handler only a waitpid of the wait loop takes a stage off the list.
LEMMA QuietLeft ==
    ASSUME Typed, Quiet
    PROVE  /\ Left' = Left
           /\ \A k \in 1..Len(pl.pids) :
                /\ proc'[pl.pids[k]].target = proc[pl.pids[k]].target
                /\ k \notin Left => proc'[pl.pids[k]].status = proc[pl.pids[k]].status
<1>0. TypeOK /\ pl.pids \in Seq(Pids) /\ pl' = pl
    BY DEF Typed, TypeOK, PipelineLocals, Quiet
<1>1. ASSUME NEW k \in 1..Len(pl.pids)
      PROVE  /\ proc'[pl.pids[k]].st \in UnreapedStates <=> proc[pl.pids[k]].st \in UnreapedStates
             /\ proc'[pl.pids[k]].target = proc[pl.pids[k]].target
             /\ k \notin Left => proc'[pl.pids[k]].status = proc[pl.pids[k]].status
  <2>1. pl.pids[k] \in Pids
    BY <1>0
  <2>2. CASE UNCHANGED vars
    BY <2>2 DEF vars
  <2>3. CASE EnvStep \/ \E p \in Pids : ChildStep(p)
    <3>1. Lives(pl.pids[k])
      BY <1>0, <2>1, <2>3, OutsideLives
    <3>2. proc[pl.pids[k]].st \in UnreapedStates => proc'[pl.pids[k]].st \in UnreapedStates
      BY <1>0, <2>1, <2>3, OutsideKeepsStages
    <3> QED BY <3>1, <3>2 DEF Lives, Left
  <2> QED BY <2>2, <2>3 DEF Quiet
<1> QED BY <1>0, <1>1 DEF Left

LEMMA AwaitedStep ==
    Typed /\ SignalState /\ StagesInv /\ Groups /\ OwnGroup /\ Counted /\ Awaited
        /\ [Next]_vars => Awaited'
<1> SUFFICES ASSUME Typed, SignalState, StagesInv, Groups, OwnGroup, Counted, Awaited,
                    [Next]_vars, pc' \in {"wait", "unblock"}
             PROVE  Awaited'
    BY DEF Awaited
<1>0. /\ proc \in [Pids -> Procs] /\ pl \in PipelineLocals /\ pl.pids \in Seq(Pids)
      /\ PipelineShape /\ pl.n \in Nat /\ pl.remaining \in Int
    BY DEF Typed, TypeOK, PipelineLocals
<1>1. SetForeground \/ WaitExit \/ WaitStop \/ (Quiet /\ pc \in {"wait", "unblock"})
  <2>1. pc' \in BlockedAt
    BY DEF BlockedAt
  <2> QED BY <2>1, BlockedSteps DEF StartPipeline, ForkStage, ForkFails, ParentSetpgid,
        RegisterBackground, Unblock, Return, Quiet
<1>2. CASE SetForeground
  <2>1. pc = "setfg" /\ pc' = "wait" /\ proc' = proc
    BY <1>2 DEF SetForeground, At
  <2>2. /\ pl'.pids = pl.pids /\ pl'.pgid = pl.pgid /\ pl'.n = pl.n
        /\ pl'.remaining = pl.n
    BY <1>0, <1>2 DEF SetForeground, PipelineLocals
  <2>3. Len(pl.pids) = pl.n /\ pl.pids # <<>>
    BY <1>0, <2>1 DEF Counted, BlockedAt, Building, PipelineShape
  <2>4. \A k \in 1..pl.n : proc[pl.pids[k]].st \in UnreapedStates
                           /\ proc[pl.pids[k]].target = pl.pgid
    BY <2>1, <2>3 DEF StagesInv, Building
  <2>5. Left' = 1..pl.n
    BY <2>1, <2>2, <2>3, <2>4 DEF Left
  <2>6. Cardinality(1..pl.n) = pl.n /\ pl.n \in 1..pl.n
    <3>1. pl.n \in Int /\ 1 \in Int /\ pl.n >= 1
      BY <1>0, <2>3
    <3>2. Cardinality(1..pl.n) = IF 1 > pl.n THEN 0 ELSE pl.n - 1 + 1
      BY <3>1, FS_Interval, Zenon
    <3> QED BY <3>1, <3>2
  <2> QED BY <2>1, <2>2, <2>4, <2>5, <2>6 DEF Awaited
<1>3. CASE WaitExit \/ WaitStop
  <2>1. /\ pc = "wait" /\ Cardinality(Left) = pl.remaining
        /\ \A k \in Left : proc[pl.pids[k]].target = pl.pgid
        /\ pl.n \in Left \/ pl.code = status_to_exit_code(proc[pl.pids[pl.n]].status)
    BY <1>3 DEF WaitExit, WaitStop, At, Awaited
  <2>2. Len(pl.pids) = pl.n /\ Apart(pl.pids) /\ pl.pids # <<>> /\ pl.pgid = pl.pids[1]
    BY <1>0, <2>1 DEF Counted, BlockedAt, Building, PipelineShape
  <2>3. IsFiniteSet(Left) /\ Cardinality(Left) \in Nat
    BY LeftFinite
  <2>4. \A k \in Left : pl.pids[k] \in InGroup(pl.pgid)
    <3>1. SUFFICES ASSUME NEW k \in Left PROVE pl.pids[k] \in InGroup(pl.pgid)
      OBVIOUS
    <3>2. pl.pids[k] \in Pids /\ proc[pl.pids[k]].st \in UnreapedStates
      BY <1>0 DEF Left
    <3>3. proc[pl.pids[k]].pgrp = pl.pgid
      BY <2>1, <3>2 DEF Groups, Placed
    <3> QED BY <3>2, <3>3 DEF InGroup, Unreaped, Alive, UnreapedStates
  <2>5. \A w \in InGroup(pl.pgid) : \E j \in Left : w = pl.pids[j]
    <3>1. SUFFICES ASSUME NEW w \in InGroup(pl.pgid) PROVE \E j \in Left : w = pl.pids[j]
      OBVIOUS
    <3>2. w \in Pids /\ proc[w].st \in UnreapedStates /\ proc[w].pgrp = pl.pgid
      BY DEF InGroup, Unreaped, Alive, UnreapedStates
    <3>3. proc[w].target = pl.pgid
      BY <2>1, <3>2 DEF Groups, Placed
    <3>4. PICK j \in 1..Len(pl.pids) : w = pl.pids[j]
      BY <2>1, <2>2, <3>2, <3>3 DEF OwnGroup, BlockedAt
    <3> QED BY <3>2, <3>4 DEF Left
  <2>6. CASE WaitStop
    <3>1. PICK w \in waitpid(pl.pgid) \ {NoPid} : proc[w].st = "stopped" /\ proc' = Taken(w)
      BY <2>6 DEF WaitStop
    <3>2. w \in InGroup(pl.pgid) /\ w \in Pids
      BY <3>1 DEF waitpid, InGroup
    <3>3. Left # {}
      BY <2>5, <3>2
    <3>4. pl.remaining # 0
      BY <2>1, <2>3, <3>3, FS_EmptySet
    <3>5. proc' = [proc EXCEPT ![w].st = "parked"]
      BY <3>1 DEF Taken
    <3>6. \A q \in Pids : /\ proc'[q].target = proc[q].target
                          /\ proc'[q].status = proc[q].status
                          /\ proc'[q].st \in UnreapedStates <=> proc[q].st \in UnreapedStates
      BY <1>0, <3>1, <3>2, <3>5 DEF Procs, UnreapedStates
    <3>7. pl' = pl /\ pc' = "unblock"
      BY <2>6 DEF WaitStop
    <3>8. Left' = Left
      BY <1>0, <3>6, <3>7 DEF Left
    <3>9. pl.n \in 1..Len(pl.pids) /\ \A k \in 1..Len(pl.pids) : pl.pids[k] \in Pids
      BY <1>0, <2>2
    <3>10. Left \subseteq 1..Len(pl.pids)
      BY DEF Left
    <3> QED BY <2>1, <3>4, <3>6, <3>7, <3>8, <3>9, <3>10 DEF Awaited
  <2>7. CASE WaitExit
    <3>1. PICK w \in waitpid(pl.pgid) :
            IF w = NoPid
            THEN pc' = "unblock" /\ UNCHANGED <<proc, pl>>
            ELSE /\ proc[w].st = "zombie"
                 /\ proc' = Taken(w)
                 /\ pl' = [pl EXCEPT
                        !.remaining = @ - 1,
                        !.code = IF w = pl.pids[pl.n]
                                 THEN status_to_exit_code(proc[w].status) ELSE @]
                 /\ pc' = IF pl.remaining = 1 THEN "unblock" ELSE "wait"
      BY <2>7 DEF WaitExit
    <3>2. CASE w = NoPid
      <4>1. InGroup(pl.pgid) = {}
        BY <3>1, <3>2, JobTableAssumption DEF waitpid, InGroup
      <4>2. Left = {}
        BY <2>4, <4>1
      <4>3. pc' = "unblock" /\ UNCHANGED <<proc, pl>>
        BY <3>1, <3>2
      <4>4. Left' = Left
        BY <4>3 DEF Left
      <4> QED BY <2>1, <4>2, <4>3, <4>4 DEF Awaited
    <3>3. CASE w # NoPid
      <4> DEFINE c == IF w = pl.pids[pl.n] THEN status_to_exit_code(proc[w].status)
                                           ELSE pl.code
                 r == pl.remaining - 1
      <4>1. w \in InGroup(pl.pgid) /\ w \in Pids
        BY <3>3 DEF waitpid, InGroup
      <4>2. PICK j \in Left : w = pl.pids[j]
        BY <2>5, <4>1
      <4>3. proc' = [proc EXCEPT ![w].st = "reaped", ![w].pgrp = NoPid]
        <5>1. proc' = [proc EXCEPT ![w] = [@ EXCEPT !.st = "reaped", !.pgrp = NoPid]]
          BY <3>1, <3>3 DEF Taken
        <5> QED BY <1>0, <4>1, <5>1 DEF Procs
      <4>4. pl' = [pl EXCEPT !.remaining = r, !.code = c]
        BY <3>1, <3>3
      <4>5. pc' = IF pl.remaining = 1 THEN "unblock" ELSE "wait"
        BY <3>1, <3>3
      <4>6. \A q \in Pids : /\ proc'[q].target = proc[q].target
                            /\ proc'[q].status = proc[q].status
                            /\ q # w => proc'[q].st = proc[q].st
        BY <1>0, <4>1, <4>3 DEF Procs
      <4>7. proc'[w].st \notin UnreapedStates
        BY <1>0, <4>1, <4>3 DEF Procs, UnreapedStates
      <4>8. pl.n \in 1..Len(pl.pids) /\ \A k \in 1..Len(pl.pids) : pl.pids[k] \in Pids
        BY <1>0, <2>2
      <4>9. r \in Int /\ (w = pl.pids[pl.n] => c = status_to_exit_code(proc[w].status))
            /\ (w # pl.pids[pl.n] => c = pl.code) /\ pl.remaining = r + 1
        BY <1>0
      <4> HIDE DEF c, r
      <4>10. /\ pl'.pids = pl.pids /\ pl'.pgid = pl.pgid /\ pl'.n = pl.n
             /\ pl'.remaining = r /\ pl'.code = c
        BY <1>0, <4>4 DEF PipelineLocals
      <4>11. Left' = Left \ {j}
        <5>1. ASSUME NEW k \in 1..Len(pl.pids), k # j
              PROVE  proc'[pl.pids[k]].st = proc[pl.pids[k]].st
          <6>1. j \in 1..Len(pl.pids)
            BY DEF Left
          <6>2. pl.pids[k] # w
            BY <2>2, <4>2, <5>1, <6>1 DEF Apart
          <6> QED BY <4>6, <4>8, <6>2
        <5>2. proc'[pl.pids[j]].st \notin UnreapedStates
          BY <4>2, <4>7
        <5>3. Left' = {k \in 1..Len(pl.pids) : proc'[pl.pids[k]].st \in UnreapedStates}
          BY <4>10 DEF Left
        <5> QED BY <5>1, <5>2, <5>3 DEF Left
      <4>12. Cardinality(Left') = r
        <5>1. Cardinality(Left \ {j}) = Cardinality(Left) - 1
          BY <2>3, FS_RemoveElement
        <5> DEFINE C == Cardinality(Left \ {j})
                   D == Cardinality(Left)
        <5>2. C = D - 1 /\ D = pl.remaining /\ Cardinality(Left') = C
          BY <2>1, <4>11, <5>1
        <5> HIDE DEF C, D
        <5> QED BY <4>9, <5>2
      <4>13. IsFiniteSet(Left')
        BY <2>3, <4>11, FS_RemoveElement
      <4>14. pc' = "unblock" => Left' = {}
        <5>1. pc' = "unblock" => r = 0
          BY <4>5, <4>9
        <5> QED BY <4>12, <4>13, <5>1, FS_EmptySet
      <4>15. pl.n \in Left' \/ c = status_to_exit_code(proc'[pl.pids[pl.n]].status)
        <5>1. CASE w = pl.pids[pl.n]
          BY <4>1, <4>6, <4>9, <5>1
        <5>2. CASE w # pl.pids[pl.n]
          <6>1. pl.n # j
            BY <4>2, <5>2
          <6> QED BY <2>1, <4>6, <4>8, <4>9, <4>11, <5>2, <6>1
        <5> QED BY <5>1, <5>2
      <4>16. \A k \in Left' : proc'[pl.pids[k]].target = pl.pgid
        <5>1. Left \subseteq 1..Len(pl.pids)
          BY DEF Left
        <5> QED BY <2>1, <4>6, <4>8, <4>11, <5>1
      <4> QED BY <4>10, <4>12, <4>14, <4>15, <4>16 DEF Awaited
    <3> QED BY <3>2, <3>3
  <2> QED BY <1>3, <2>6, <2>7
<1>4. CASE Quiet /\ pc \in {"wait", "unblock"}
  <2>1. pc' = pc /\ pl' = pl
    BY <1>4 DEF Quiet
  <2>2. Len(pl.pids) = pl.n /\ pl.pids # <<>>
    BY <1>0, <1>4 DEF Counted, BlockedAt, Building, PipelineShape
  <2>3. pl.n \in 1..Len(pl.pids) /\ Left \subseteq 1..Len(pl.pids)
    BY <1>0, <2>2 DEF Left
  <2>4. /\ Left' = Left
        /\ \A k \in 1..Len(pl.pids) :
             /\ proc'[pl.pids[k]].target = proc[pl.pids[k]].target
             /\ k \notin Left => proc'[pl.pids[k]].status = proc[pl.pids[k]].status
    BY <1>4, QuietLeft
  <2> QED BY <1>4, <2>1, <2>3, <2>4 DEF Awaited
<1> QED BY <1>1, <1>2, <1>3, <1>4

LEMMA AwaitedHeld == Typed /\ Groups /\ Counted /\ Awaited => ForegroundStatus
<1> SUFFICES ASSUME Typed, Groups, Counted, Awaited PROVE ForegroundStatus
    OBVIOUS
<1>0. pl.pids \in Seq(Pids) /\ pl.n \in Nat /\ PipelineShape
    BY DEF Typed, TypeOK, PipelineLocals
<1>1. {k \in 1..Len(pl.pids) : Unreaped(pl.pids[k])} = Left
    BY DEF Left, Unreaped, Alive, UnreapedStates
<1>2. pc \in {"wait", "unblock"} => pl.n \in 1..Len(pl.pids)
    BY <1>0 DEF Counted, BlockedAt, Building, PipelineShape
<1>3. pc = "wait" => \A k \in Left : proc[pl.pids[k]].pgrp = pl.pgid
    BY <1>0 DEF Awaited, Left, Groups, Placed
<1> QED BY <1>1, <1>2, <1>3 DEF ForegroundStatus, Awaited

\* A foreground pipeline's stages are reaped by its own wait loop alone, which
\* never meets ECHILD, and its status is its last stage's (execute_pipeline
\* 462-512), for any pipeline, also when the kernel uses pids again.
THEOREM ForegroundStatusCorrect == Spec => []ForegroundStatus
<1>1. Init => Groups /\ OwnGroup /\ Counted /\ Awaited
    BY GroupsInit, OwnGroupInit, AwaitedInit
<1> QED BY <1>1, InitTyped, TypedStep, SignalInit, SignalStep, StagesInit, StagesStep,
           GroupsStep, CountedStep, AwaitedStep, AwaitedHeld, PTL DEF Spec

-----------------------------------------------------------------------------
(* The job table, when no pid is handed out twice.                         *)

\* A table that is not full has a first free slot: of the intervals that end
\* in a free slot one is the least.
LEMMA FreeSlot ==
    ASSUME NEW tbl, ~TableFull(tbl)
    PROVE  \E i \in Slots : FirstOf(i, Slots \ InUse(tbl))
<1> DEFINE S == Slots \ InUse(tbl)
           F == {1..i : i \in S}
           R == StrictSubsetOrdering(Int)
<1>1. S # {} /\ S \subseteq Slots /\ \A i \in S : i \in Nat \ {0}
    BY JobTableAssumption DEF TableFull, Slots, InUse
<1>2. \A i \in S : IsFiniteSet(1..i) /\ 1..i \in SUBSET Int
    BY <1>1, FS_Interval
<1>3. F \subseteq FiniteSubsetsOf(Int) /\ F # {}
    BY <1>1, <1>2 DEF FiniteSubsetsOf
<1>4. IsWellFoundedOn(R, FiniteSubsetsOf(Int))
    BY FS_StrictSubsetOrderingWellFounded
<1>5. PICK s \in F : \A t \in F : <<t, s>> \notin R
    <2> HIDE DEF F, R
    <2> QED BY <1>3, <1>4, WFMin
<1>6. PICK i \in S : s = 1..i
    OBVIOUS
<1>7. ASSUME NEW k \in S, ~(i <= k) PROVE FALSE
    <2>1. 1..k \in F /\ 1..k \in SUBSET Int /\ 1..i \in SUBSET Int
        BY <1>2
    <2>2. 1..k \subseteq 1..i /\ i \in 1..i /\ i \notin 1..k
        BY <1>1, <1>7
    <2>3. <<1..k, 1..i>> \in R
        BY <2>1, <2>2 DEF StrictSubsetOrdering
    <2> QED BY <1>5, <1>6, <2>1, <2>3
<1> QED BY <1>1, <1>6, <1>7 DEF FirstOf

\* What the two operations of the table leave of a slot.
NewEntry(e, g, ps) == e.pgid = g /\ e.pids = ps /\ e.state = "Running"

LEMMA AddKeeps ==
    ASSUME NEW tbl, NEW id, NEW g, NEW ps, NEW T, T = jobs_add(tbl, id, g, ps),
           NEW i \in Slots
    PROVE  IF FirstOf(i, Slots \ InUse(tbl)) THEN NewEntry(T[i], g, ps) ELSE T[i] = tbl[i]
BY DEF jobs_add, NewEntry

LEMMA SetStateKeeps ==
    ASSUME NEW tbl \in Tables, NEW g, NEW st \in {"Running", "Stopped", "Done"}, NEW i \in Slots
    PROVE  /\ SetState(tbl, g, st)[i].pgid = tbl[i].pgid
           /\ SetState(tbl, g, st)[i].pids = tbl[i].pids
           /\ i \in InUse(SetState(tbl, g, st)) <=> i \in InUse(tbl)
           /\ IF FirstOf(i, OfGroup(tbl, g)) THEN SetState(tbl, g, st)[i].state = st
                                             ELSE SetState(tbl, g, st)[i] = tbl[i]
<1>1. tbl[i] \in Job \/ tbl[i] = NoJob
    BY DEF Tables
<1>2. CASE FirstOf(i, OfGroup(tbl, g))
  <2>1. i \in InUse(tbl)
    BY <1>2 DEF FirstOf, OfGroup
  <2>2. tbl[i] \in Job
    BY <1>1, <2>1 DEF InUse, NoJob
  <2>3. SetState(tbl, g, st)[i] = [tbl[i] EXCEPT !.state = st]
    BY <1>2 DEF SetState
  <2> QED BY <1>2, <2>1, <2>2, <2>3 DEF InUse, Job
<1>3. CASE ~FirstOf(i, OfGroup(tbl, g))
  <2>1. SetState(tbl, g, st)[i] = tbl[i]
    BY <1>3 DEF SetState
  <2> QED BY <1>3, <2>1 DEF InUse
<1> QED BY <1>2, <1>3

LEMMA CleanupKeeps ==
    ASSUME NEW tbl, NEW i \in InUse(jobs_cleanup_done(tbl))
    PROVE  i \in InUse(tbl) /\ jobs_cleanup_done(tbl)[i] = tbl[i]
BY DEF jobs_cleanup_done, InUse, NoJob

\* An entry of the next table was there before, or is the pipeline's.
Kept(i) ==
    /\ i \in InUse(job_table)
    /\ job_table'[i].pgid = job_table[i].pgid
    /\ job_table'[i].pids = job_table[i].pids

Added(i) ==
    /\ FirstOf(i, Slots \ InUse(job_table))
    /\ job_table'[i].pgid = pl.pgid
    /\ job_table'[i].pids = pl.pids
    /\ RegisterBackground \/ WaitStop

LEMMA TableSteps ==
    ASSUME Typed, [Next]_vars, NEW i \in Slots, i \in InUse(job_table')
    PROVE  Kept(i) \/ Added(i)
<1>0. job_table \in Tables /\ next_job_id \in Nat \ {0} /\ pl \in PipelineLocals
    BY DEF Typed, TypeOK
<1>1. CASE job_table' = job_table
  BY <1>1 DEF Kept
<1>2. ASSUME NEW g, NEW st \in {"Running", "Stopped", "Done"},
             job_table' = SetState(job_table, g, st)
      PROVE  Kept(i)
  BY <1>0, <1>2, SetStateKeeps DEF Kept
<1>3. CASE RegisterBackground
  <2>1. job_table' = jobs_add(job_table, next_job_id, pl.pgid, pl.pids)
    BY <1>3 DEF RegisterBackground
  <2>2. IF FirstOf(i, Slots \ InUse(job_table))
        THEN NewEntry(job_table'[i], pl.pgid, pl.pids) ELSE job_table'[i] = job_table[i]
    BY <2>1, AddKeeps
  <2> QED BY <1>3, <2>2 DEF NewEntry, Added, Kept, InUse
<1>4. CASE WaitStop
  <2> DEFINE T == jobs_add(job_table, next_job_id, pl.pgid, pl.pids)
  <2>1. job_table' = SetState(T, pl.pgid, "Stopped")
    BY <1>4 DEF WaitStop, jobs_mark_stopped
  <2>2. T \in Tables
    <3>1. pl.pgid \in Pids /\ pl.pids \in Seq(Pids)
      BY <1>0, <1>4 DEF WaitStop, At, Typed, PipelineShape, PipelineLocals
    <3> QED BY <1>0, <3>1, JobsAddType
  <2>3. IF FirstOf(i, Slots \ InUse(job_table))
        THEN NewEntry(T[i], pl.pgid, pl.pids) ELSE T[i] = job_table[i]
    BY AddKeeps
  <2> HIDE DEF T
  <2>4. job_table'[i].pgid = T[i].pgid /\ job_table'[i].pids = T[i].pids /\ i \in InUse(T)
    BY <2>1, <2>2, SetStateKeeps
  <2> QED BY <1>4, <2>3, <2>4 DEF NewEntry, Added, Kept, InUse
<1>5. CASE BgMark \/ FgMark
  BY <1>2, <1>5 DEF BgMark, FgMark, jobs_mark_running
<1>6. CASE FgStop
  BY <1>2, <1>6 DEF FgStop, jobs_mark_stopped
<1>7. CASE HandlerReap
  BY <1>2, <1>7 DEF HandlerReap, jobs_mark_stopped, jobs_mark_done
<1>8. CASE Jobs
  BY <1>8, CleanupKeeps DEF Jobs, Kept
<1>9. CASE \/ StartPipeline \/ ForkStage \/ ForkFails \/ ParentSetpgid \/ SetForeground
           \/ WaitExit \/ Unblock \/ ClearForeground \/ NoSuchJob \/ FgSet \/ FgCall
           \/ FgExit \/ FgEchild \/ FgClear \/ CommandFork \/ CommandForkFails
           \/ CommandCall \/ CommandExit \/ CommandEchild \/ HandlerEnter \/ HandlerReturn
  BY <1>1, <1>9 DEF StartPipeline, ForkStage, ForkFails, ParentSetpgid, SetForeground,
        WaitExit, Unblock, ClearForeground, NoSuchJob, FgSet, FgCall, FgExit, FgEchild,
        FgClear, CommandFork, CommandForkFails, CommandCall, CommandExit, CommandEchild,
        HandlerEnter, HandlerReturn
<1>10. CASE BgResume \/ FgResume
  BY <1>1, <1>10 DEF BgResume, FgResume, Resume
<1>11. CASE EnvStep \/ (\E p \in Pids : ChildStep(p)) \/ UNCHANGED vars
  BY <1>1, <1>11 DEF vars, EnvStep, ChildStep, CtrlC, CtrlZ, Killed, StoppedBySignal,
              ContinuedBySignal, ChildSetup, ChildExit, shellVars
<1> QED BY <1>3, <1>4, <1>5, <1>6, <1>7, <1>8, <1>9, <1>10, <1>11
        DEF Next, ShellStep, UserStep, HandlerStep

\* A process that has been reaped stays so, its pid is not used again.
LEMMA ReapedStays ==
    ASSUME ~PidReuse, Typed, StagesInv, [Next]_vars, NEW q \in Pids,
           proc[q].st \in {"reaped"}
    PROVE  proc'[q].st = "reaped"
<1>1. CASE ForkStage
  <2>1. PICK p \in Pids : \E g : Forks(p, g)
    BY <1>1, StageForked
  <2> QED BY <2>1 DEF Forks, PidAvailable
<1>2. CASE CommandFork
  <2>1. PICK p \in Pids : \E g : Forks(p, g)
    BY <1>2, CommandForked
  <2> QED BY <2>1 DEF Forks, PidAvailable
<1>3. CASE ~ForkStage /\ ~CommandFork
  BY <1>3, StepLives DEF Lives, UnreapedStates
<1> QED BY <1>1, <1>2, <1>3

\* Only the handler marks a job as done, when it has reaped the leader.
LEMMA DoneStep ==
    ASSUME ~PidReuse, Typed, StagesInv, DoneMeansLeaderReaped, [Next]_vars
    PROVE  DoneMeansLeaderReaped'
<1>0. job_table \in Tables /\ proc \in [Pids -> Procs]
    BY DEF Typed, TypeOK
<1> SUFFICES ASSUME NEW i \in Slots, i \in InUse(job_table'), job_table'[i].state = "Done"
             PROVE  proc'[job_table'[i].pgid].st = "reaped"
    BY DEF DoneMeansLeaderReaped, InUse
<1>a. ASSUME i \in InUse(job_table), job_table[i].state = "Done",
             job_table'[i].pgid = job_table[i].pgid
      PROVE  proc'[job_table'[i].pgid].st = "reaped"
  <2>1. job_table[i].pgid \in Pids
    BY <1>0, <1>a DEF Tables, InUse, Job, NoJob
  <2> QED BY <1>a, <2>1, ReapedStays DEF DoneMeansLeaderReaped
<1>b. ASSUME NEW tbl \in Tables, NEW g, NEW st \in {"Running", "Stopped"},
             job_table' = SetState(tbl, g, st)
      PROVE  tbl[i] = job_table'[i]
  BY <1>b, SetStateKeeps
<1>1. CASE HandlerReap
  <2>1. PICK p \in Pids :
            /\ Reportable(p)
            /\ proc' = Taken(p)
            /\ LET g == getpgid(Taken(p), p)
                   pgid == IF g = NoPid THEN p ELSE g
               IN  job_table' = IF proc[p].st = "stopped"
                                THEN jobs_mark_stopped(job_table, pgid)
                                ELSE jobs_mark_done(job_table, pgid)
    BY <1>1 DEF HandlerReap
  <2>2. CASE proc[p].st = "stopped"
    <3>1. PICK g : job_table' = SetState(job_table, g, "Stopped")
      BY <2>1, <2>2 DEF jobs_mark_stopped
    <3>2. job_table[i] = job_table'[i]
      BY <1>0, <1>b, <3>1
    <3> QED BY <1>a, <3>2 DEF InUse
  <2>3. CASE proc[p].st # "stopped"
    <3>1. proc'[p].st = "reaped"
      BY <1>0, <2>1, <2>3 DEF Taken, Reportable, Procs
    <3>2. getpgid(Taken(p), p) = NoPid
      BY <2>1, <3>1 DEF getpgid
    <3>3. job_table' = SetState(job_table, p, "Done")
      BY <2>1, <2>3, <3>2 DEF jobs_mark_done
    <3>4. CASE FirstOf(i, OfGroup(job_table, p))
      <4>1. job_table[i].pgid = p
        BY <3>4 DEF FirstOf, OfGroup
      <4>2. job_table'[i].pgid = p
        BY <1>0, <3>3, <4>1, SetStateKeeps
      <4> QED BY <3>1, <4>2
    <3>5. CASE ~FirstOf(i, OfGroup(job_table, p))
      <4>1. job_table'[i] = job_table[i]
        BY <1>0, <3>3, <3>5, SetStateKeeps
      <4> QED BY <1>a, <4>1 DEF InUse
    <3> QED BY <3>4, <3>5
  <2> QED BY <2>2, <2>3
<1>2. CASE WaitStop
  <2> DEFINE T == jobs_add(job_table, next_job_id, pl.pgid, pl.pids)
  <2>1. job_table' = SetState(T, pl.pgid, "Stopped")
    BY <1>2 DEF WaitStop, jobs_mark_stopped
  <2>2. T \in Tables
    <3>1. pl.pgid \in Pids /\ pl.pids \in Seq(Pids) /\ next_job_id \in Nat \ {0}
      BY <1>2 DEF WaitStop, At, Typed, TypeOK, PipelineShape, PipelineLocals
    <3> QED BY <1>0, <3>1, JobsAddType
  <2>3. IF FirstOf(i, Slots \ InUse(job_table))
        THEN NewEntry(T[i], pl.pgid, pl.pids) ELSE T[i] = job_table[i]
    BY AddKeeps
  <2> HIDE DEF T
  <2>4. T[i] = job_table'[i]
    BY <1>b, <2>1, <2>2
  <2> QED BY <1>a, <2>3, <2>4 DEF InUse, NewEntry
<1>3. CASE RegisterBackground
  <2>0. job_table' = jobs_add(job_table, next_job_id, pl.pgid, pl.pids)
    BY <1>3 DEF RegisterBackground
  <2>1. IF FirstOf(i, Slots \ InUse(job_table))
        THEN NewEntry(job_table'[i], pl.pgid, pl.pids) ELSE job_table'[i] = job_table[i]
    BY <2>0, AddKeeps
  <2> QED BY <1>a, <2>1 DEF InUse, NewEntry
<1>4. CASE BgMark \/ FgMark \/ FgStop
  <2>1. PICK st \in {"Running", "Stopped"} : job_table' = SetState(job_table, pl.pgid, st)
    BY <1>4 DEF BgMark, FgMark, FgStop, jobs_mark_running, jobs_mark_stopped
  <2>2. job_table[i] = job_table'[i]
    BY <1>0, <1>b, <2>1
  <2> QED BY <1>a, <2>2 DEF InUse
<1>5. CASE Jobs
  <2>1. i \in InUse(job_table) /\ job_table'[i] = job_table[i]
    BY <1>5, CleanupKeeps DEF Jobs
  <2> QED BY <1>a, <2>1
<1>6. CASE job_table' = job_table
  BY <1>a, <1>6 DEF InUse
<1>7. CASE \/ StartPipeline \/ ForkStage \/ ForkFails \/ ParentSetpgid \/ SetForeground
           \/ WaitExit \/ Unblock \/ ClearForeground \/ NoSuchJob \/ FgSet \/ FgCall
           \/ FgExit \/ FgEchild \/ FgClear \/ CommandFork \/ CommandForkFails
           \/ CommandCall \/ CommandExit \/ CommandEchild \/ HandlerEnter \/ HandlerReturn
  BY <1>6, <1>7 DEF StartPipeline, ForkStage, ForkFails, ParentSetpgid, SetForeground,
        WaitExit, Unblock, ClearForeground, NoSuchJob, FgSet, FgCall, FgExit, FgEchild,
        FgClear, CommandFork, CommandForkFails, CommandCall, CommandExit, CommandEchild,
        HandlerEnter, HandlerReturn
<1>8. CASE BgResume \/ FgResume
  BY <1>6, <1>8 DEF BgResume, FgResume, Resume
<1>9. CASE EnvStep \/ (\E p \in Pids : ChildStep(p)) \/ UNCHANGED vars
  BY <1>6, <1>9 DEF vars, EnvStep, ChildStep, CtrlC, CtrlZ, Killed, StoppedBySignal,
              ContinuedBySignal, ChildSetup, ChildExit, shellVars
<1> QED BY <1>1, <1>2, <1>3, <1>4, <1>5, <1>7, <1>8, <1>9
        DEF Next, ShellStep, UserStep, HandlerStep

\* A job is shown as done only when the handler has reaped its leader, whatever
\* happened before, as long as the kernel hands out no pid twice
\* (sigchld_handler, jobs_mark_done).
THEOREM DoneMeansLeaderReapedCorrect ==
    ASSUME ~PidReuse PROVE Spec => []DoneMeansLeaderReaped
<1>1. Init => DoneMeansLeaderReaped
    BY DEF Init, DoneMeansLeaderReaped, InUse, NoJob
<1>2. Typed /\ StagesInv /\ DoneMeansLeaderReaped /\ [Next]_vars => DoneMeansLeaderReaped'
    BY DoneStep
<1> QED BY <1>1, <1>2, InitTyped, TypedStep, SignalInit, SignalStep, StagesInit,
           StagesStep, PTL DEF Spec

\* The group g of an entry with the stages ps holds no process but these, and
\* its leader has it for its own.
Owned(g, ps) ==
    /\ ps # <<>>
    /\ ps[1] = g
    /\ proc[g].st # "free"
    /\ proc[g].st \in UnreapedStates => proc[g].target = g
    /\ \A q \in Pids : proc[q].st \in UnreapedStates /\ proc[q].target = g =>
            \E k \in 1..Len(ps) : q = ps[k]

\* Before a pipeline is registered no entry has its group.
NoEntryYet ==
    pc \in BlockedAt \ {"unblock"} /\ pl.pids # <<>> =>
        \A i \in InUse(job_table) : job_table[i].pgid # pl.pgid

OneEntryPerGroup ==
    \A i, k \in InUse(job_table) : job_table[i].pgid = job_table[k].pgid => i = k

TableInv ==
    /\ \A i \in InUse(job_table) : Owned(job_table[i].pgid, job_table[i].pids)
    /\ OneEntryPerGroup
    /\ NoEntryYet

LEMMA EntryType ==
    ASSUME Typed, NEW i \in InUse(job_table)
    PROVE  job_table[i] \in Job /\ job_table[i].pgid \in Pids /\ i \in Slots
BY DEF Typed, TypeOK, Tables, InUse, NoJob, Job

LEMMA OwnedStep ==
    ASSUME ~PidReuse, Typed, StagesInv, [Next]_vars,
           NEW g \in Pids, NEW ps, Owned(g, ps),
           ForkStage /\ pl.pids # <<>> => pl.pgid # g
    PROVE  Owned(g, ps)'
<1>0. proc \in [Pids -> Procs] /\ PipelineShape
    BY DEF Typed, TypeOK
<1>a. ASSUME NEW p, NEW h, Forks(p, h), h # g \/ h = p PROVE Owned(g, ps)'
  <2>1. p \in Pids /\ p # g
    BY <1>a DEF Forks, PidAvailable, Owned
  <2>2. proc'[p].target = h /\ \A q \in Pids \ {p} : proc'[q] = proc[q]
    BY <1>a DEF Forks
  <2> QED BY <1>a, <2>1, <2>2 DEF Owned
<1>1. CASE ForkStage
  <2>1. PICK p \in Pids : Forks(p, IF pl.pgid = NoPid THEN p ELSE pl.pgid)
    BY <1>1, StageForked
  <2>2. pl.pgid # NoPid => pl.pids # <<>>
    BY <1>0, <1>1 DEF ForkStage, At, PipelineShape
  <2> QED BY <1>1, <1>a, <2>1, <2>2
<1>2. CASE CommandFork
  BY <1>2, <1>a, CommandForked, JobControlAssumption
<1>3. CASE ~ForkStage /\ ~CommandFork
  <2>1. \A q \in Pids : Lives(q)
    BY <1>3, StepLives
  <2> QED BY <2>1 DEF Owned, Lives
<1> QED BY <1>1, <1>2, <1>3

\* The pipeline owns its group when it is registered.
LEMMA PipelineOwned ==
    ASSUME Typed, StagesInv, OwnGroup, Counted, Awaited, pc \in {"background", "wait"},
           pc = "wait" => proc[pl.pids[1]].st # "free"
    PROVE  Owned(pl.pgid, pl.pids)
<1>1. /\ pl.pids # <<>> /\ pl.pids \in Seq(Pids) /\ pl.pgid = pl.pids[1]
    BY DEF Typed, TypeOK, PipelineLocals, PipelineShape
<1>2. 1 \in 1..Len(pl.pids)
    BY <1>1
<1>3. CASE pc = "background"
  BY <1>1, <1>2, <1>3 DEF Owned, StagesInv, OwnGroup, Building, BlockedAt, UnreapedStates
<1>4. CASE pc = "wait"
  BY <1>1, <1>2, <1>4 DEF Owned, OwnGroup, Awaited, Left, BlockedAt
<1> QED BY <1>3, <1>4

\* The stages that are waited for were all forked.
Forked == pc = "wait" => \A k \in 1..Len(pl.pids) : proc[pl.pids[k]].st # "free"

LEMMA ForkedStep ==
    ASSUME Typed, SignalState, StagesInv, Forked, [Next]_vars
    PROVE  Forked'
<1> SUFFICES ASSUME pc' = "wait" PROVE Forked'
    BY DEF Forked
<1>0. pl \in PipelineLocals /\ pl.pids \in Seq(Pids)
    BY DEF Typed, TypeOK, PipelineLocals
<1>1. SetForeground \/ WaitExit \/ (Quiet /\ pc = "wait")
  <2>1. pc' \in BlockedAt
    BY DEF BlockedAt
  <2> QED BY <2>1, BlockedSteps DEF StartPipeline, ForkStage, ForkFails, ParentSetpgid,
        RegisterBackground, WaitStop, Unblock, Return, Quiet
<1>2. \A k \in 1..Len(pl.pids) : proc[pl.pids[k]].st # "free"
  BY <1>1 DEF SetForeground, WaitExit, At, StagesInv, Building, UnreapedStates, Forked
<1>3. pl'.pids = pl.pids
  BY <1>0, <1>1 DEF SetForeground, WaitExit, Quiet, PipelineLocals
<1>4. ~ForkStage /\ ~CommandFork
  BY DEF ForkStage, CommandFork
<1>5. \A q \in Pids : Lives(q)
  BY <1>4, StepLives
<1> QED BY <1>0, <1>2, <1>3, <1>5 DEF Forked, Lives

LEMMA TableStep ==
    ASSUME ~PidReuse, Typed, Typed', SignalState, StagesInv, OwnGroup, Counted, Awaited,
           Forked, TableInv, [Next]_vars
    PROVE  TableInv'
<1>0. /\ PipelineShape /\ pl \in PipelineLocals /\ pl.pids \in Seq(Pids)
    BY DEF Typed, TypeOK, PipelineLocals
<1>1. \A i \in InUse(job_table') : i \in Slots /\ (Kept(i) \/ Added(i))
    BY TableSteps DEF InUse
<1>2. ASSUME NEW i \in Slots, Added(i)
      PROVE  /\ pc \in {"background", "wait"} /\ pl.pids # <<>> /\ pl.pgid \in Pids
             /\ Owned(pl.pgid, pl.pids)
             /\ \A k \in InUse(job_table) : job_table[k].pgid # pl.pgid
  <2>1. pc \in {"background", "wait"}
    BY <1>2 DEF Added, RegisterBackground, WaitStop, At
  <2>2. pl.pids # <<>> /\ pl.pgid = pl.pids[1] /\ pl.pgid \in Pids
    BY <1>0, <2>1 DEF PipelineShape
  <2>3. Owned(pl.pgid, pl.pids)
    <3>1. 1 \in 1..Len(pl.pids)
      BY <1>0, <2>2
    <3> QED BY <2>1, <3>1, PipelineOwned DEF Forked
  <2> QED BY <2>1, <2>2, <2>3 DEF TableInv, NoEntryYet, BlockedAt, Building
<1>3. ASSUME NEW i \in InUse(job_table')
      PROVE  Owned(job_table[i].pgid, job_table[i].pids)'
  <2>1. CASE Kept(i)
    <3> DEFINE g == job_table[i].pgid
               ps == job_table[i].pids
    <3>1. i \in InUse(job_table) /\ job_table'[i].pgid = g /\ job_table'[i].pids = ps
      BY <2>1 DEF Kept
    <3>2. g \in Pids
      BY <3>1, EntryType
    <3>3. Owned(g, ps)
      BY <3>1 DEF TableInv
    <3>4. ForkStage /\ pl.pids # <<>> => pl.pgid # g
      BY <3>1 DEF ForkStage, At, TableInv, NoEntryYet, BlockedAt, Building
    <3>5. ASSUME NEW h \in Pids, NEW qs, h = g, qs = ps PROVE Owned(h, qs)'
      BY <3>3, <3>4, <3>5, OwnedStep
    <3> QED BY <3>1, <3>2, <3>5
  <2>2. CASE Added(i)
    <3>1. i \in Slots
      BY <1>1
    <3>2. job_table'[i].pgid = pl.pgid /\ job_table'[i].pids = pl.pids
      BY <2>2 DEF Added
    <3>3. ~ForkStage
      BY <1>2, <2>2, <3>1 DEF ForkStage, At
    <3>4. ASSUME NEW h \in Pids, NEW qs, h = pl.pgid, qs = pl.pids PROVE Owned(h, qs)'
      BY <1>2, <2>2, <3>1, <3>3, <3>4, OwnedStep
    <3> QED BY <1>2, <2>2, <3>1, <3>2, <3>4
  <2> QED BY <1>1, <2>1, <2>2
<1>4. ASSUME NEW i \in InUse(job_table'), NEW k \in InUse(job_table'),
             job_table'[i].pgid = job_table'[k].pgid
      PROVE  i = k
  <2>1. i \in Slots /\ k \in Slots
    BY <1>1
  <2>2. CASE Kept(i) /\ Kept(k)
    BY <1>4, <2>2 DEF Kept, TableInv, OneEntryPerGroup
  <2>3. CASE Added(i) /\ Added(k)
    BY <2>1, <2>3, JobTableAssumption DEF Added, FirstOf, Slots
  <2>4. CASE Kept(i) /\ Added(k)
    BY <1>2, <1>4, <2>1, <2>4 DEF Kept, Added
  <2>5. CASE Added(i) /\ Kept(k)
    BY <1>2, <1>4, <2>1, <2>5 DEF Kept, Added
  <2> QED BY <1>1, <2>2, <2>3, <2>4, <2>5
<1>5. NoEntryYet'
  <2> SUFFICES ASSUME pc' \in BlockedAt \ {"unblock"}, pl'.pids # <<>>,
                      NEW i \in InUse(job_table')
               PROVE  job_table'[i].pgid # pl'.pgid
    BY DEF NoEntryYet
  <2>1. ForkStage \/ ParentSetpgid \/ SetForeground \/ WaitExit \/ Quiet
    BY BlockedSteps DEF StartPipeline, NoPipeline, ForkFails, RegisterBackground,
                        WaitStop, Unblock, Return, BlockedAt, Building
  <2>2. job_table' = job_table
    BY <2>1 DEF ForkStage, ParentSetpgid, SetForeground, WaitExit, Quiet
  <2>3. CASE ForkStage
    <3>1. PICK p \in Pids :
              /\ PidAvailable(p)
              /\ pl'.pgid = IF pl.pgid = NoPid THEN p ELSE pl.pgid
      BY <2>3, StageForked DEF Forks
    <3>2. CASE pl.pgid = NoPid
      BY <2>2, <3>1, <3>2 DEF PidAvailable, TableInv, Owned
    <3>3. CASE pl.pgid # NoPid
      <4>1. pl.pids # <<>>
        BY <1>0, <2>3, <3>3 DEF ForkStage, At, PipelineShape
      <4> QED BY <2>2, <2>3, <3>1, <3>3, <4>1
              DEF ForkStage, At, TableInv, NoEntryYet, BlockedAt, Building
    <3> QED BY <3>2, <3>3
  <2>4. CASE ParentSetpgid \/ SetForeground \/ WaitExit \/ Quiet
    <3>1. pl'.pids = pl.pids /\ pl'.pgid = pl.pgid
      BY <1>0, <2>4 DEF ParentSetpgid, SetForeground, WaitExit, Quiet, PipelineLocals
    <3>2. pc \in BlockedAt \ {"unblock"}
      BY <2>4 DEF ParentSetpgid, SetForeground, WaitExit, Quiet, At, BlockedAt, Building
    <3> QED BY <2>2, <3>1, <3>2 DEF TableInv, NoEntryYet
  <2> QED BY <2>1, <2>3, <2>4
<1> QED BY <1>3, <1>4, <1>5 DEF TableInv, OneEntryPerGroup

-----------------------------------------------------------------------------
(* A foreground pipeline that stops is registered.                         *)

\* The one case in which the table takes no new job.
FullOfOthers ==
    TableFull(job_table) /\ \A i \in Slots : job_table[i].pgid # pl.pgid

Registered == StopRegistered \/ FullOfOthers

\* The entry that jobs_add has made is the one that jobs_mark_stopped finds.
LEMMA MarkedStopped ==
    ASSUME Typed, TableInv, WaitStop
    PROVE  /\ \A i \in Slots : FirstOf(i, Slots \ InUse(job_table)) =>
                  /\ i \in InUse(job_table')
                  /\ job_table'[i].pgid = pl.pgid /\ job_table'[i].pids = pl.pids
                  /\ job_table'[i].state = "Stopped"
           /\ \A i \in InUse(job_table) : job_table'[i] = job_table[i]
<1>0. job_table \in Tables /\ next_job_id \in Nat \ {0} /\ pl \in PipelineLocals
    BY DEF Typed, TypeOK
<1> DEFINE T == jobs_add(job_table, next_job_id, pl.pgid, pl.pids)
<1>1. job_table' = SetState(T, pl.pgid, "Stopped")
    BY DEF WaitStop, jobs_mark_stopped
<1>2. pl.pgid \in Pids /\ pl.pids \in Seq(Pids) /\ pl.pids # <<>> /\ pc = "wait"
    BY <1>0 DEF WaitStop, At, Typed, PipelineShape, PipelineLocals
<1>3. T \in Tables
    BY <1>0, <1>2, JobsAddType
<1>4. \A i \in Slots : IF FirstOf(i, Slots \ InUse(job_table))
                       THEN NewEntry(T[i], pl.pgid, pl.pids) ELSE T[i] = job_table[i]
    BY AddKeeps
<1> HIDE DEF T
<1>5. \A i \in InUse(job_table) : job_table[i].pgid # pl.pgid
    BY <1>2 DEF TableInv, NoEntryYet, BlockedAt
<1>6. \A i \in Slots : i \in OfGroup(T, pl.pgid) <=> FirstOf(i, Slots \ InUse(job_table))
    BY <1>4, <1>5 DEF OfGroup, InUse, NewEntry
<1>7. ASSUME NEW i \in Slots, FirstOf(i, Slots \ InUse(job_table))
      PROVE  /\ i \in InUse(job_table')
             /\ job_table'[i].pgid = pl.pgid /\ job_table'[i].pids = pl.pids
             /\ job_table'[i].state = "Stopped"
  <2>1. FirstOf(i, OfGroup(T, pl.pgid))
    <3>1. \A k \in Slots : FirstOf(k, Slots \ InUse(job_table)) => i <= k
      BY <1>7 DEF FirstOf
    <3>2. OfGroup(T, pl.pgid) \subseteq Slots
      BY DEF OfGroup, InUse
    <3> QED BY <1>6, <1>7, <3>1, <3>2 DEF FirstOf
  <2>2. NewEntry(T[i], pl.pgid, pl.pids)
    BY <1>4, <1>7
  <2>3. i \in InUse(T)
    BY <2>2 DEF InUse, NewEntry
  <2>4. /\ SetState(T, pl.pgid, "Stopped")[i].pgid = T[i].pgid
        /\ SetState(T, pl.pgid, "Stopped")[i].pids = T[i].pids
        /\ i \in InUse(SetState(T, pl.pgid, "Stopped")) <=> i \in InUse(T)
        /\ SetState(T, pl.pgid, "Stopped")[i].state = "Stopped"
    BY <1>3, <2>1, SetStateKeeps
  <2> QED BY <1>1, <2>2, <2>3, <2>4 DEF NewEntry
<1>8. ASSUME NEW i \in InUse(job_table) PROVE job_table'[i] = job_table[i]
  <2>1. i \in Slots /\ ~FirstOf(i, Slots \ InUse(job_table))
    BY DEF InUse, FirstOf
  <2>2. ~FirstOf(i, OfGroup(T, pl.pgid))
    BY <1>6, <2>1 DEF FirstOf
  <2>3. SetState(T, pl.pgid, "Stopped")[i] = T[i]
    BY <1>3, <2>1, <2>2, SetStateKeeps
  <2> QED BY <1>1, <1>4, <2>1, <2>3
<1> QED BY <1>7, <1>8

LEMMA RegisteredStep ==
    ASSUME Typed, SignalState, ForegroundStatus, TableInv, Registered, [Next]_vars
    PROVE  Registered'
<1>0. pl \in PipelineLocals /\ pl.pids \in Seq(Pids) /\ pl.remaining \in Int
    BY DEF Typed, TypeOK, PipelineLocals
<1> SUFFICES ASSUME pc' = "unblock", pl'.remaining > 0 PROVE Registered'
    BY DEF Registered, StopRegistered
<1>1. WaitExit \/ WaitStop \/ (Quiet /\ pc = "unblock")
  <2>1. pc' \in BlockedAt
    BY DEF BlockedAt
  <2> QED BY <2>1, BlockedSteps DEF StartPipeline, ForkStage, ForkFails, ParentSetpgid,
        RegisterBackground, SetForeground, Unblock, Return, Quiet
<1>2. CASE Quiet /\ pc = "unblock"
  BY <1>2 DEF Quiet, Registered, StopRegistered, FullOfOthers
<1>3. CASE WaitStop
  <2>1. pl' = pl
    BY <1>3 DEF WaitStop
  <2>2. CASE TableFull(job_table)
    <3>1. \A i \in Slots : job_table'[i] = job_table[i]
      BY <1>3, <2>2, MarkedStopped DEF TableFull
    <3>2. \A i \in InUse(job_table) : job_table[i].pgid # pl.pgid
      <4>1. pc = "wait" /\ pl.pids # <<>>
        BY <1>3 DEF WaitStop, At, Typed, PipelineShape
      <4> QED BY <4>1 DEF TableInv, NoEntryYet, BlockedAt
    <3>3. FullOfOthers'
      BY <2>1, <2>2, <3>1, <3>2 DEF FullOfOthers, TableFull, InUse
    <3> QED BY <3>3 DEF Registered
  <2>3. CASE ~TableFull(job_table)
    <3>1. PICK i \in Slots : FirstOf(i, Slots \ InUse(job_table))
      BY <2>3, FreeSlot
    <3>2. /\ i \in InUse(job_table')
          /\ job_table'[i].pgid = pl.pgid /\ job_table'[i].pids = pl.pids
          /\ job_table'[i].state = "Stopped"
      BY <1>3, <3>1, MarkedStopped
    <3>3. StopRegistered'
      BY <2>1, <3>2 DEF StopRegistered
    <3> QED BY <3>3 DEF Registered
  <2> QED BY <2>2, <2>3
\* The loop is left with stages to come only because one of them stopped.
<1>4. CASE WaitExit
  <2>1. pc = "wait"
    BY <1>4 DEF WaitExit, At
  <2>2. PICK w \in waitpid(pl.pgid) :
            IF w = NoPid THEN UNCHANGED pl
            ELSE /\ pl' = [pl EXCEPT
                        !.remaining = @ - 1,
                        !.code = IF w = pl.pids[pl.n]
                                 THEN status_to_exit_code(proc[w].status) ELSE @]
                 /\ pc' = IF pl.remaining = 1 THEN "unblock" ELSE "wait"
    BY <1>4 DEF WaitExit
  <2>3. CASE w = NoPid
    <3> DEFINE left == {k \in 1..Len(pl.pids) : Unreaped(pl.pids[k])}
    <3>1. InGroup(pl.pgid) = {}
      BY <2>2, <2>3, JobTableAssumption DEF waitpid, InGroup
    <3>2. Cardinality(left) = pl.remaining /\ \A k \in left : proc[pl.pids[k]].pgrp = pl.pgid
      BY <2>1 DEF ForegroundStatus
    <3>3. left = {}
      BY <1>0, <3>1, <3>2 DEF InGroup
    <3> HIDE DEF left
    <3>4. pl.remaining = 0
      BY <3>2, <3>3, FS_EmptySet
    <3> QED BY <2>2, <2>3, <3>4
  <2>4. CASE w # NoPid
    <3> DEFINE c == IF w = pl.pids[pl.n] THEN status_to_exit_code(proc[w].status)
                                         ELSE pl.code
               r == pl.remaining - 1
    <3>1. pl' = [pl EXCEPT !.remaining = r, !.code = c]
      BY <2>2, <2>4
    <3>2. pc' = "unblock" => r = 0
      BY <2>2, <2>4
    <3> HIDE DEF c, r
    <3>3. pl'.remaining = r
      BY <1>0, <3>1 DEF PipelineLocals
    <3> QED BY <3>2, <3>3
  <2> QED BY <2>3, <2>4
<1> QED BY <1>1, <1>2, <1>3, <1>4

\* What holds of the groups, the wait loop and the table together.
Tracked ==
    /\ Typed /\ SignalState /\ StagesInv /\ Groups /\ OwnGroup /\ Counted /\ Awaited
    /\ Forked /\ TableInv

LEMMA TrackedInit == Init => Tracked /\ Registered
<1> SUFFICES ASSUME Init PROVE Tracked /\ Registered
    OBVIOUS
<1>1. TableInv
    BY DEF Init, TableInv, OneEntryPerGroup, NoEntryYet, InUse, NoJob, BlockedAt, Building
<1>2. Forked /\ Registered
    BY DEF Init, Forked, Registered, StopRegistered
<1> QED BY <1>1, <1>2, InitTyped, SignalInit, StagesInit, GroupsInit, OwnGroupInit,
           AwaitedInit DEF Tracked

LEMMA TrackedStep ==
    ASSUME ~PidReuse, Tracked, [Next]_vars PROVE Tracked'
<1> USE DEF Tracked
<1>1. Typed' /\ SignalState' /\ StagesInv'
    BY TypedStep, SignalStep, StagesStep
<1>2. Groups' /\ OwnGroup' /\ Counted' /\ Awaited'
    BY <1>1, GroupsStep, CountedStep, AwaitedStep
<1>3. Forked' /\ TableInv'
    BY <1>1, ForkedStep, TableStep
<1> QED BY <1>1, <1>2, <1>3

\* A foreground pipeline that stops is in the table as stopped when the prompt
\* comes back, unless the table was full (execute_pipeline 485-494, jobs_add),
\* as long as the kernel hands out no pid twice.
THEOREM StopRegisteredCorrect ==
    ASSUME ~PidReuse PROVE Spec => [](StopRegistered \/ FullOfOthers)
<1>1. Tracked /\ [Next]_vars => Tracked'
    BY TrackedStep
<1>2. Tracked /\ Registered /\ [Next]_vars => Registered'
    BY RegisteredStep, AwaitedHeld DEF Tracked
<1>3. Registered => StopRegistered \/ FullOfOthers
    BY DEF Registered
<1> QED BY <1>1, <1>2, <1>3, TrackedInit, PTL DEF Spec

-----------------------------------------------------------------------------
(* The state that the table shows of a one-process job.                    *)

\* Also while a report is still to be taken.
Shown(st, state) ==
    \/ state = "Running" /\ st \in {"forked", "running", "stopped", "zombie"}
    \/ state = "Stopped" /\ st \in {"parked", "zombie"}
    \/ state = "Done" /\ st = "reaped"

\* Nobody continues a stopped process.
NeverContinued == UserCmds \cap {"fg", "bg"} = {} /\ "cont" \notin EnvEvents

Resuming == {"bgmark", "fgmark", "fgset", "fgcall", "fgwait", "fgclear"}

CommandApart ==
    pc \in {"cmdcall", "cmdwait"} /\ proc[pl.pids[1]].st \in UnreapedStates =>
        proc[pl.pids[1]].target = ShellPgrp

NoneParked ==
    pc \in BlockedAt \ {"unblock"} =>
        \A k \in 1..Len(pl.pids) : proc[pl.pids[k]].st # "parked"

AsShown ==
    \A i \in InUse(job_table) :
        Len(job_table[i].pids) = 1 => Shown(proc[job_table[i].pgid].st, job_table[i].state)

Accurate == pc \notin Resuming /\ CommandApart /\ NoneParked /\ AsShown

LEMMA OutsideShown ==
    ASSUME TypeOK, "cont" \notin EnvEvents, EnvStep \/ \E p \in Pids : ChildStep(p),
           NEW q \in Pids
    PROVE  /\ \A state : Shown(proc[q].st, state) => Shown(proc'[q].st, state)
           /\ proc'[q].st = "parked" => proc[q].st = "parked"
<1>0. proc \in [Pids -> Procs]
    BY DEF TypeOK
<1> USE DEF Shown
<1>a. ASSUME NEW S, NEW status, Die(S, status), q \in S => Alive(q)
      PROVE  /\ \A state : Shown(proc[q].st, state) => Shown(proc'[q].st, state)
             /\ proc'[q].st = "parked" => proc[q].st = "parked"
  <2>1. \/ proc'[q].st = proc[q].st
        \/ proc[q].st \in {"forked", "running", "stopped", "parked"} /\ proc'[q].st = "zombie"
    BY <1>0, <1>a DEF Die, Procs, Alive
  <2> QED BY <2>1
<1>1. CASE CtrlC
  <2>1. PICK S \in KeyboardTakes : Die(S, Signaled(SIGINT))
    BY <1>1 DEF CtrlC
  <2>2. q \in S => Alive(q)
    BY KeyboardAlive
  <2> QED BY <1>a, <2>1, <2>2
<1>2. CASE CtrlZ
  <2>1. PICK S \in KeyboardTakes :
            proc' = [p \in Pids |-> IF p \in S THEN [proc[p] EXCEPT !.st = "stopped"]
                                                ELSE proc[p]]
    BY <1>2 DEF CtrlZ
  <2>2. q \in S => proc[q].st \in {"running", "forked"}
    BY DEF KeyboardTakes
  <2>3. \/ proc'[q].st = proc[q].st
        \/ proc[q].st \in {"running", "forked"} /\ proc'[q].st = "stopped"
    BY <1>0, <2>1, <2>2 DEF Procs
  <2> QED BY <2>3
<1>3. CASE \E p \in Pids : Killed(p)
  <2>1. PICK p \in Pids : Alive(p) /\ Die({p}, Signaled(SIGKILL))
    BY <1>3 DEF Killed
  <2> QED BY <1>a, <2>1
<1>4. CASE \E p \in Pids : StoppedBySignal(p) \/ ContinuedBySignal(p)
  <2>1. PICK p \in Pids : proc[p].st = "running" /\ proc' = [proc EXCEPT ![p].st = "stopped"]
    BY <1>4 DEF StoppedBySignal, ContinuedBySignal
  <2>2. \/ proc'[q].st = proc[q].st
        \/ proc[q].st = "running" /\ proc'[q].st = "stopped"
    BY <1>0, <2>1 DEF Procs
  <2> QED BY <2>2
<1>5. CASE \E p \in Pids : ChildSetup(p)
  <2>1. PICK p \in Pids : /\ proc[p].st = "forked"
                          /\ proc' = [Moved(p, proc[p].target) EXCEPT ![p].st = "running"]
    BY <1>5 DEF ChildSetup
  <2> DEFINE M == Moved(p, proc[p].target)
  <2>2. M \in [Pids -> Procs]
    BY <1>0, MovedType DEF TypeOK, Procs
  <2>3. M[q].st = proc[q].st
    BY MovedReports
  <2> HIDE DEF M
  <2>4. \/ proc'[q].st = proc[q].st
        \/ proc[q].st = "forked" /\ proc'[q].st = "running"
    BY <1>0, <2>1, <2>2, <2>3 DEF Procs, M
  <2> QED BY <2>4
<1>6. CASE \E p \in Pids : ChildExit(p)
  <2>1. PICK p \in Pids, c \in ExitCodes : proc[p].st = "running" /\ Die({p}, Exited(c))
    BY <1>6 DEF ChildExit
  <2> QED BY <1>a, <2>1 DEF Alive
<1> QED BY <1>1, <1>2, <1>3, <1>4, <1>5, <1>6 DEF EnvStep, ChildStep

LEMMA CommandApartStep ==
    ASSUME Typed, StagesInv, CommandApart, [Next]_vars PROVE CommandApart'
<1> SUFFICES ASSUME pc' \in {"cmdcall", "cmdwait"} PROVE CommandApart'
    BY DEF CommandApart
<1>0. proc \in [Pids -> Procs] /\ pl.pids \in Seq(Pids)
    BY DEF Typed, TypeOK, PipelineLocals
<1>1. CASE CommandFork
  <2>1. PICK p \in Pids : Fork(p, ShellPgrp) /\ pl' = [NoPipeline EXCEPT !.n = 1, !.pids = <<p>>]
    BY <1>1 DEF CommandFork
  <2>2. pl'.pids[1] = p
    BY <2>1 DEF NoPipeline
  <2>3. proc'[p].target = ShellPgrp
    BY <1>0, <2>1 DEF Fork
  <2> QED BY <2>2, <2>3 DEF CommandApart
<1>2. CASE ~CommandFork
  <2>1. /\ pc \in {"cmdcall", "cmdwait"} /\ pl' = pl
    <3>1. CASE ShellStep
      BY <3>1 DEF ShellStep, ForkStage, ForkFails, ParentSetpgid, RegisterBackground,
            SetForeground, WaitExit, WaitStop, Unblock, ClearForeground, BgMark, FgMark,
            FgSet, FgCall, FgExit, FgStop, FgEchild, FgClear, CommandCall, CommandExit,
            CommandEchild, Return, At
    <3>2. CASE UserStep
      BY <1>2, <3>2 DEF UserStep, StartPipeline, BgResume, FgResume, Resume, NoSuchJob,
            Jobs, CommandForkFails, Return
    <3>3. CASE HandlerStep \/ EnvStep \/ (\E p \in Pids : ChildStep(p)) \/ UNCHANGED vars
      BY <3>3 DEF HandlerStep, HandlerEnter, HandlerReap, HandlerReturn, vars, EnvStep,
            ChildStep, CtrlC, CtrlZ, Killed, StoppedBySignal, ContinuedBySignal,
            ChildSetup, ChildExit, shellVars
    <3> QED BY <3>1, <3>2, <3>3 DEF Next
  <2>2. pl.pids[1] \in Pids
    BY <1>0, <2>1 DEF Typed, PipelineShape
  <2>3. ~ForkStage
    BY <2>1 DEF ForkStage, At
  <2>4. Lives(pl.pids[1])
    BY <1>2, <2>2, <2>3, StepLives
  <2> QED BY <2>1, <2>4 DEF CommandApart, Lives
<1> QED BY <1>1, <1>2

\* While SIGCHLD is blocked a stop is only taken by the turn that ends the wait.
LEMMA NoneParkedStep ==
    ASSUME Typed, SignalState, StagesInv, NoneParked, "cont" \notin EnvEvents, [Next]_vars
    PROVE  NoneParked'
<1> SUFFICES ASSUME pc' \in BlockedAt \ {"unblock"}, NEW k \in 1..Len(pl'.pids)
             PROVE  proc'[pl'.pids[k]].st # "parked"
    BY DEF NoneParked
<1>0. TypeOK /\ proc \in [Pids -> Procs] /\ pl \in PipelineLocals /\ pl.pids \in Seq(Pids)
    BY DEF Typed, TypeOK, PipelineLocals
<1>1. ForkStage \/ ParentSetpgid \/ SetForeground \/ WaitExit \/ Quiet
  <2>1. ~StartPipeline
    <3>1. StartPipeline => pl'.pids = <<>>
      BY DEF StartPipeline, NoPipeline
    <3> QED BY <3>1
  <2> QED BY <2>1, BlockedSteps DEF ForkFails, RegisterBackground, WaitStop, Unblock,
        Return, BlockedAt, Building
<1>2. pc \in BlockedAt \ {"unblock"}
  BY <1>1 DEF ForkStage, ParentSetpgid, SetForeground, WaitExit, Quiet, At, BlockedAt, Building
<1>3. \A j \in 1..Len(pl.pids) : pl.pids[j] \in Pids /\ proc[pl.pids[j]].st # "parked"
  BY <1>0, <1>2 DEF NoneParked
<1>4. CASE ForkStage
  <2>1. PICK p \in Pids : (\E g : Forks(p, g)) /\ pl'.pids = Append(pl.pids, p)
    BY <1>4, StageForked
  <2>2. proc'[p].st = "forked" /\ \A q \in Pids \ {p} : proc'[q] = proc[q]
    BY <2>1 DEF Forks
  <2>3. pl'.pids[k] = p \/ (k \in 1..Len(pl.pids) /\ pl'.pids[k] = pl.pids[k])
    BY <1>0, <2>1
  <2> QED BY <1>3, <2>2, <2>3
<1>5. CASE ParentSetpgid \/ SetForeground \/ WaitExit \/ Quiet
  <2>1. pl'.pids = pl.pids
    BY <1>0, <1>5 DEF ParentSetpgid, SetForeground, WaitExit, Quiet, PipelineLocals
  <2> DEFINE q == pl.pids[k]
  <2>2. q \in Pids /\ proc[q].st # "parked"
    BY <1>3, <2>1
  <2> HIDE DEF q
  <2>3. proc'[q].st # "parked"
    <3>1. CASE ParentSetpgid
      <4>1. pl.pids # <<>>
        BY <3>1 DEF ParentSetpgid, At, Typed, PipelineShape
      <4>2. pl.pids[Len(pl.pids)] \in Pids
        BY <1>0, <4>1
      <4> QED BY <1>0, <2>2, <3>1, <4>2, MovedReports DEF ParentSetpgid
    <3>2. CASE WaitExit
      <4>1. PICK w \in waitpid(pl.pgid) :
                IF w = NoPid THEN UNCHANGED proc ELSE proc[w].st = "zombie" /\ proc' = Taken(w)
        BY <3>2 DEF WaitExit
      <4>2. w # NoPid => w \in Pids
        BY DEF waitpid, InGroup
      <4> QED BY <1>0, <2>2, <4>1, <4>2 DEF Taken, Procs
    <3>3. CASE SetForeground
      BY <2>2, <3>3 DEF SetForeground
    <3>4. CASE Quiet
      BY <1>0, <2>2, <3>4, OutsideShown DEF Quiet, vars
    <3> QED BY <1>5, <3>1, <3>2, <3>3, <3>4
  <2> QED BY <2>1, <2>3 DEF q
<1> QED BY <1>1, <1>4, <1>5

\* The handler's turn: it takes p's report and marks p's group.
LEMMA HandlerShown ==
    ASSUME Tracked, AsShown, HandlerReap,
           NEW i \in InUse(job_table), Len(job_table[i].pids) = 1
    PROVE  Shown(proc'[job_table[i].pgid].st, job_table'[i].state)
<1>0. /\ job_table \in Tables /\ proc \in [Pids -> Procs] /\ TypeOK
    BY DEF Tracked, Typed, TypeOK
<1> DEFINE g == job_table[i].pgid
<1>1. g \in Pids /\ i \in Slots /\ Owned(g, job_table[i].pids)
    BY EntryType DEF Tracked, TableInv
<1>2. Shown(proc[g].st, job_table[i].state)
    BY DEF AsShown
<1>3. \A q \in Pids : proc[q].st \in UnreapedStates /\ proc[q].target = g => q = g
    BY <1>1 DEF Owned
<1>4. \A k \in InUse(job_table) : job_table[k].pgid = g => k = i
    BY DEF Tracked, TableInv, OneEntryPerGroup
<1>5. FirstOf(i, OfGroup(job_table, g))
    BY <1>1, <1>4, JobTableAssumption DEF FirstOf, OfGroup, Slots
<1>6. PICK p \in Pids :
            /\ Reportable(p)
            /\ proc' = Taken(p)
            /\ LET h == getpgid(Taken(p), p)
                   pgid == IF h = NoPid THEN p ELSE h
               IN  job_table' = IF proc[p].st = "stopped"
                                THEN jobs_mark_stopped(job_table, pgid)
                                ELSE jobs_mark_done(job_table, pgid)
    BY DEF HandlerReap
<1>7. proc[p].st \in UnreapedStates
    BY <1>6 DEF Reportable, UnreapedStates
<1>8. proc[p].pgrp = proc[p].target
    <2>1. pc # "setpgid"
      BY DEF HandlerReap, Tracked, SignalState, BlockedAt, Building
    <2> QED BY <1>7, <2>1 DEF Tracked, Groups, Placed
<1>9. \A q \in Pids \ {p} : proc'[q] = proc[q]
    BY <1>0, <1>6 DEF Taken
\* A mark for another group does not reach this entry.
<1>a. ASSUME NEW h, h # g, NEW st \in {"Stopped", "Done"}, job_table' = SetState(job_table, h, st)
      PROVE  job_table'[i] = job_table[i]
  <2>1. ~FirstOf(i, OfGroup(job_table, h))
    BY <1>a DEF FirstOf, OfGroup
  <2> QED BY <1>0, <1>1, <1>a, <2>1, SetStateKeeps
<1>b. ASSUME NEW st \in {"Stopped", "Done"}, job_table' = SetState(job_table, g, st)
      PROVE  job_table'[i].state = st
  BY <1>0, <1>1, <1>5, <1>b, SetStateKeeps
<1> HIDE DEF g
<1>10. CASE proc[p].st = "stopped"
  <2>1. proc' = [proc EXCEPT ![p].st = "parked"] /\ Taken(p) = proc'
    BY <1>6, <1>10 DEF Taken
  <2>2. proc'[p].st = "parked" /\ proc'[p].pgrp = proc[p].pgrp
    BY <1>0, <2>1 DEF Procs
  <2>3. getpgid(Taken(p), p) = proc[p].pgrp
    BY <2>1, <2>2 DEF getpgid
  <2>4. proc[p].pgrp # NoPid
    BY <1>7, <1>8, JobTableAssumption, JobControlAssumption DEF Tracked, Groups, Placed
  <2>5. job_table' = SetState(job_table, proc[p].pgrp, "Stopped")
    BY <1>6, <1>10, <2>3, <2>4 DEF jobs_mark_stopped
  <2>6. CASE p = g
    <3>1. proc[p].pgrp = g
      BY <1>1, <1>7, <1>8, <2>6 DEF Owned
    <3> QED BY <1>b, <2>2, <2>5, <2>6, <3>1 DEF Shown, g
  <2>7. CASE p # g
    <3>1. proc[p].pgrp # g
      BY <1>3, <1>7, <1>8, <2>7
    <3>2. job_table'[i] = job_table[i]
      BY <1>a, <2>5, <3>1
    <3> QED BY <1>1, <1>2, <1>9, <2>7, <3>2 DEF g
  <2> QED BY <2>6, <2>7
<1>11. CASE proc[p].st # "stopped"
  <2>1. proc'[p].st = "reaped" /\ Taken(p) = proc'
    BY <1>0, <1>6, <1>11 DEF Taken, Reportable, Procs
  <2>2. getpgid(Taken(p), p) = NoPid
    BY <2>1 DEF getpgid
  <2>3. job_table' = SetState(job_table, p, "Done")
    BY <1>6, <1>11, <2>2 DEF jobs_mark_done
  <2>4. CASE p = g
    BY <1>b, <2>1, <2>3, <2>4 DEF Shown, g
  <2>5. CASE p # g
    <3>1. job_table'[i] = job_table[i]
      BY <1>a, <2>3, <2>5
    <3> QED BY <1>1, <1>2, <1>9, <2>5, <3>1 DEF g
  <2> QED BY <2>4, <2>5
<1> QED BY <1>10, <1>11

\* A job that is registered is shown as its only stage is.
LEMMA AddedShown ==
    ASSUME Tracked, NoneParked, NEW i \in Slots, Added(i), i \in InUse(job_table'),
           Len(pl.pids) = 1
    PROVE  Shown(proc'[pl.pgid].st, job_table'[i].state)
<1>0. /\ proc \in [Pids -> Procs] /\ pl.pids \in Seq(Pids) /\ PipelineShape /\ TypeOK
    BY DEF Tracked, Typed, TypeOK, PipelineLocals
<1>1. pl.pids # <<>> /\ pl.pgid = pl.pids[1] /\ pl.pgid \in Pids /\ 1 \in 1..Len(pl.pids)
    BY <1>0 DEF Added, RegisterBackground, WaitStop, At, PipelineShape
<1>2. CASE RegisterBackground
  <2>1. proc[pl.pgid].st \in UnreapedStates /\ proc[pl.pgid].st # "parked" /\ proc' = proc
    BY <1>1, <1>2 DEF RegisterBackground, At, Tracked, StagesInv, NoneParked, BlockedAt, Building
  <2>2. job_table' = jobs_add(job_table, next_job_id, pl.pgid, pl.pids)
    BY <1>2 DEF RegisterBackground
  <2>3. NewEntry(job_table'[i], pl.pgid, pl.pids)
    BY <2>2, AddKeeps DEF Added
  <2> QED BY <2>1, <2>3 DEF NewEntry, Shown, UnreapedStates
<1>3. CASE WaitStop
  <2>1. PICK w \in waitpid(pl.pgid) \ {NoPid} : proc[w].st = "stopped" /\ proc' = Taken(w)
    BY <1>3 DEF WaitStop
  <2>2. w \in Pids /\ proc[w].st \in UnreapedStates /\ proc[w].pgrp = pl.pgid
    BY <2>1 DEF waitpid, InGroup, Unreaped, Alive, UnreapedStates
  <2>3. pc = "wait"
    BY <1>3 DEF WaitStop, At
  <2>4. proc[w].target = pl.pgid
    BY <2>2, <2>3 DEF Tracked, Groups, Placed
  <2>5. w = pl.pgid
    BY <1>1, <2>2, <2>3, <2>4 DEF Tracked, OwnGroup, BlockedAt
  <2>6. proc'[w].st = "parked"
    BY <1>0, <2>1, <2>2 DEF Taken, Procs
  <2>7. job_table'[i].state = "Stopped"
    BY <1>3, MarkedStopped DEF Tracked, Added
  <2> QED BY <2>5, <2>6, <2>7 DEF Shown
<1> QED BY <1>2, <1>3 DEF Added

LEMMA AsShownStep ==
    ASSUME ~PidReuse, NeverContinued, Tracked, Accurate, [Next]_vars
    PROVE  AsShown'
<1>0. /\ job_table \in Tables /\ proc \in [Pids -> Procs] /\ TypeOK /\ PipelineShape
      /\ Typed /\ pl \in PipelineLocals /\ pl.pids \in Seq(Pids) /\ StagesInv
    BY DEF Tracked, Typed, TypeOK, PipelineLocals
<1> SUFFICES ASSUME NEW i \in InUse(job_table'), Len(job_table'[i].pids) = 1
             PROVE  Shown(proc'[job_table'[i].pgid].st, job_table'[i].state)
    BY DEF AsShown
<1>1. i \in Slots /\ (Kept(i) \/ Added(i))
    BY <1>0, TableSteps DEF InUse
<1>2. CASE Added(i)
  BY <1>1, <1>2, AddedShown DEF Accurate, Added
<1>3. CASE Kept(i) /\ ~Added(i)
  <2> DEFINE g == job_table[i].pgid
  <2>1. /\ i \in InUse(job_table) /\ Len(job_table[i].pids) = 1
        /\ job_table'[i].pgid = g
    BY <1>3 DEF Kept
  <2>2. g \in Pids /\ Owned(g, job_table[i].pids) /\ Shown(proc[g].st, job_table[i].state)
    BY <1>0, <2>1, EntryType DEF Tracked, TableInv, Accurate, AsShown
  <2>3. proc[g].st \in UnreapedStates => proc[g].target = g
    BY <2>2 DEF Owned
  <2>4. SUFFICES Shown(proc'[g].st, job_table'[i].state)
    BY <2>1
\* No step but the handler's touches the entry.
  <2>5. CASE HandlerReap
    BY <2>1, <2>5, HandlerShown DEF Accurate
  <2>6. ASSUME ~HandlerReap PROVE job_table'[i] = job_table[i]
    <3>1. CASE WaitStop
      BY <2>1, <3>1, MarkedStopped DEF Tracked
    <3>2. CASE RegisterBackground
      <4>1. job_table' = jobs_add(job_table, next_job_id, pl.pgid, pl.pids)
        BY <3>2 DEF RegisterBackground
      <4>2. ~FirstOf(i, Slots \ InUse(job_table))
        BY <2>1 DEF FirstOf
      <4> QED BY <1>1, <4>1, <4>2, AddKeeps
    <3>3. CASE Jobs
      BY <3>3, CleanupKeeps DEF Jobs
    <3>4. CASE \/ BgMark \/ FgMark \/ FgStop \/ BgResume \/ FgResume
      BY <3>4 DEF BgMark, FgMark, FgStop, BgResume, FgResume, Resume, At,
            NeverContinued, Accurate, Resuming
    <3>5. CASE \/ StartPipeline \/ ForkStage \/ ForkFails \/ ParentSetpgid \/ SetForeground
               \/ WaitExit \/ Unblock \/ ClearForeground \/ NoSuchJob \/ FgSet \/ FgCall
               \/ FgExit \/ FgEchild \/ FgClear \/ CommandFork \/ CommandForkFails
               \/ CommandCall \/ CommandExit \/ CommandEchild \/ HandlerEnter \/ HandlerReturn
      BY <3>5 DEF StartPipeline, ForkStage, ForkFails, ParentSetpgid, SetForeground,
            WaitExit, Unblock, ClearForeground, NoSuchJob, FgSet, FgCall, FgExit, FgEchild,
            FgClear, CommandFork, CommandForkFails, CommandCall, CommandExit, CommandEchild,
            HandlerEnter, HandlerReturn
    <3>6. CASE EnvStep \/ (\E p \in Pids : ChildStep(p)) \/ UNCHANGED vars
      BY <3>6 DEF vars, EnvStep, ChildStep, CtrlC, CtrlZ, Killed, StoppedBySignal,
                  ContinuedBySignal, ChildSetup, ChildExit, shellVars
    <3> QED BY <2>6, <3>1, <3>2, <3>3, <3>4, <3>5, <3>6
            DEF Next, ShellStep, UserStep, HandlerStep
  <2> HIDE DEF g
\* A child that takes no report, and is not taken, stays as shown.
  <2>7. ASSUME ~HandlerReap, proc'[g].st = proc[g].st
        PROVE  Shown(proc'[g].st, job_table'[i].state)
    BY <2>2, <2>6, <2>7
  <2>8. CASE ForkStage \/ CommandFork
    <3>1. PICK p \in Pids : \E h : Forks(p, h)
      BY <1>0, <2>8, StageForked, CommandForked
    <3>2. p # g
      BY <2>2, <3>1 DEF Forks, PidAvailable, Owned
    <3>3. proc'[g].st = proc[g].st
      BY <2>2, <3>1, <3>2 DEF Forks
    <3>4. ~HandlerReap
      BY <2>8 DEF ForkStage, CommandFork, At, HandlerReap
    <3> QED BY <2>7, <3>3, <3>4
  <2>9. CASE ParentSetpgid
    <3>1. pl.pids # <<>>
      BY <1>0, <2>9 DEF ParentSetpgid, At, PipelineShape
    <3>2. pl.pids[Len(pl.pids)] \in Pids
      BY <1>0, <3>1
    <3>3. proc'[g].st = proc[g].st
      BY <1>0, <2>2, <2>9, <3>2, MovedReports DEF ParentSetpgid
    <3> QED BY <2>7, <2>9, <3>3 DEF ParentSetpgid, At, HandlerReap
  <2>10. CASE WaitExit \/ WaitStop
    <3>1. PICK w \in waitpid(pl.pgid) : IF w = NoPid THEN proc' = proc ELSE proc' = Taken(w)
      BY <2>10 DEF WaitExit, WaitStop
    <3>2. pc = "wait" /\ ~in_handler /\ pl.pids # <<>>
      BY <1>0, <2>10 DEF WaitExit, WaitStop, At, PipelineShape
    <3>3. CASE w = NoPid
      BY <2>7, <3>1, <3>2, <3>3 DEF HandlerReap
    <3>4. CASE w # NoPid
      <4>1. w \in Pids /\ proc[w].st \in UnreapedStates /\ proc[w].pgrp = pl.pgid
        BY <3>4 DEF waitpid, InGroup, Unreaped, Alive, UnreapedStates
      <4>2. proc[w].target = pl.pgid
        BY <3>2, <4>1 DEF Tracked, Groups, Placed
      <4>3. g # pl.pgid
        BY <2>1, <3>2 DEF Tracked, TableInv, NoEntryYet, BlockedAt, g
      <4>4. w # g
        BY <2>3, <4>1, <4>2, <4>3
      <4>5. proc'[g].st = proc[g].st
        BY <1>0, <2>2, <3>1, <3>4, <4>4 DEF Taken
      <4> QED BY <2>7, <3>2, <4>5 DEF HandlerReap
    <3> QED BY <3>3, <3>4
  <2>11. CASE CommandExit
    <3> DEFINE p == pl.pids[1]
    <3>1. /\ pc = "cmdwait" /\ ~in_handler /\ proc[p].st = "zombie" /\ proc' = Taken(p)
      BY <2>11 DEF CommandExit, At
    <3>2. p \in Pids
      BY <1>0, <3>1 DEF PipelineShape
    <3>3. proc[p].target = ShellPgrp
      BY <3>1 DEF Accurate, CommandApart, UnreapedStates
    <3>4. p # g
      BY <2>2, <2>3, <3>1, <3>3, JobControlAssumption DEF UnreapedStates
    <3> HIDE DEF p
    <3>5. proc'[g].st = proc[g].st
      BY <1>0, <2>2, <3>1, <3>2, <3>4 DEF Taken
    <3> QED BY <2>7, <3>1, <3>5 DEF HandlerReap
  <2>12. CASE EnvStep \/ \E p \in Pids : ChildStep(p)
    <3>1. Shown(proc'[g].st, job_table[i].state)
      BY <1>0, <2>2, <2>12, OutsideShown DEF NeverContinued
    <3>2. job_table' = job_table
      BY <2>12 DEF EnvStep, ChildStep, CtrlC, CtrlZ, Killed, StoppedBySignal,
                   ContinuedBySignal, ChildSetup, ChildExit, shellVars
    <3> QED BY <3>1, <3>2
  <2>13. CASE \/ StartPipeline \/ ForkFails \/ RegisterBackground \/ SetForeground
              \/ Unblock \/ ClearForeground \/ NoSuchJob \/ Jobs \/ FgSet \/ FgCall \/ FgEchild
              \/ FgClear \/ CommandForkFails \/ CommandCall \/ CommandEchild
    <3>1. UNCHANGED proc /\ ~in_handler
      BY <2>13 DEF StartPipeline, ForkFails, RegisterBackground, SetForeground, Unblock,
            ClearForeground, NoSuchJob, Jobs, FgSet, FgCall, FgEchild, FgClear,
            CommandForkFails, CommandCall, CommandEchild, At
    <3> QED BY <2>7, <3>1 DEF HandlerReap
  <2>14. CASE \/ BgMark \/ FgMark \/ FgStop \/ FgExit \/ BgResume \/ FgResume
    BY <2>14 DEF BgMark, FgMark, FgStop, FgExit, BgResume, FgResume, Resume, At,
            NeverContinued, Accurate, Resuming
  <2>15. CASE HandlerEnter \/ HandlerReturn \/ UNCHANGED vars
    <3>1. UNCHANGED <<proc, job_table>>
      BY <2>15 DEF HandlerEnter, HandlerReturn, vars
    <3> QED BY <2>2, <3>1 DEF g
  <2> QED BY <2>5, <2>8, <2>9, <2>10, <2>11, <2>12, <2>13, <2>14, <2>15
          DEF Next, ShellStep, UserStep, HandlerStep
<1> QED BY <1>1, <1>2, <1>3

LEMMA AccurateStep ==
    ASSUME ~PidReuse, NeverContinued, Tracked, Accurate, [Next]_vars
    PROVE  Accurate'
<1>1. pc' \notin Resuming
  <2>1. CASE ShellStep
    BY <2>1 DEF Accurate, Resuming, ShellStep, ForkStage, ForkFails, ParentSetpgid,
          RegisterBackground, SetForeground, WaitExit, WaitStop, Unblock, ClearForeground,
          BgMark, FgMark, FgSet, FgCall, FgExit, FgStop, FgEchild, FgClear, CommandCall,
          CommandExit, CommandEchild, Return, At
  <2>2. CASE UserStep
    BY <2>2 DEF NeverContinued, Resuming, UserStep, StartPipeline, BgResume, FgResume,
          Resume, NoSuchJob, Jobs, CommandFork, CommandForkFails, Return
  <2>3. CASE HandlerStep \/ EnvStep \/ (\E p \in Pids : ChildStep(p)) \/ UNCHANGED vars
    BY <2>3 DEF Accurate, HandlerStep, HandlerEnter, HandlerReap, HandlerReturn, vars,
          EnvStep, ChildStep, CtrlC, CtrlZ, Killed, StoppedBySignal, ContinuedBySignal,
          ChildSetup, ChildExit, shellVars
  <2> QED BY <2>1, <2>2, <2>3 DEF Next
<1>2. CommandApart'
  BY CommandApartStep DEF Tracked, Accurate
<1>3. NoneParked'
  BY NoneParkedStep DEF Tracked, Accurate, NeverContinued
<1>4. AsShown'
  BY AsShownStep
<1> QED BY <1>1, <1>2, <1>3, <1>4 DEF Accurate

LEMMA AccurateHeld == Tracked /\ Accurate => JobAccuracy
<1> SUFFICES ASSUME Tracked, Accurate, \A p \in Pids : ~Reportable(p),
                    NEW i \in InUse(job_table), Len(job_table[i].pids) = 1
             PROVE  job_table[i].state = StateShown(proc[job_table[i].pids[1]].st)
    BY DEF JobAccuracy
<1> DEFINE st == proc[job_table[i].pgid].st
<1>1. job_table[i].pgid \in Pids /\ job_table[i].pids[1] = job_table[i].pgid
    BY EntryType DEF Tracked, TableInv, Owned
<1>2. Shown(st, job_table[i].state) /\ st \notin {"stopped", "zombie"}
    BY <1>1 DEF Accurate, AsShown, Reportable
<1> HIDE DEF st
<1>3. job_table[i].state = StateShown(st)
    BY <1>2 DEF Shown, StateShown
<1> QED BY <1>1, <1>3 DEF st

\* When every report has been taken the table shows each one-process job as it
\* is, whatever stops, exits and kills race its registration, the wait and the
\* handler: as long as no pid is handed out twice and nobody continues a stopped
\* process (fg and bg mark the job after the signal, the handler never does).
THEOREM JobAccuracyCorrect ==
    ASSUME ~PidReuse, NeverContinued PROVE Spec => []JobAccuracy
<1>1. Init => Accurate
    BY DEF Init, Accurate, Resuming, CommandApart, NoneParked, AsShown, BlockedAt, Building,
           InUse, NoJob
<1>2. Tracked /\ [Next]_vars => Tracked'
    BY TrackedStep
<1>3. Tracked /\ Accurate /\ [Next]_vars => Accurate'
    BY AccurateStep
<1> QED BY <1>1, <1>2, <1>3, TrackedInit, AccurateHeld, PTL DEF Spec
=============================================================================
