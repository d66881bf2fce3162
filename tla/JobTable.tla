------------------------------ MODULE JobTable ------------------------------
(***************************************************************************)
(* The job table of src/jobs.c as operators on a table value: a fixed      *)
(* array of MaxJobs slots, searched from slot 1 upwards.  A free slot      *)
(* (in_use = 0) is the value NoJob; the command line kept for display is   *)
(* left out.                                                               *)
(***************************************************************************)
EXTENDS Integers, Sequences

CONSTANTS
    Pids,       \* process ids the kernel hands out to the shell's children
    NoPid,      \* 0 where the code has "no process", -1 where a call fails
    MaxJobs     \* ACSH_MAX_JOBS

ASSUME JobTableAssumption ==
    /\ NoPid \notin Pids
    /\ MaxJobs \in Nat \ {0}

Slots == 1..MaxJobs

NoJob == [id |-> 0, pgid |-> NoPid, pids |-> <<>>, state |-> "Free"]

\* struct Job: pids is the whole pipeline, its length is num_pids.
Job == [id : Nat \ {0}, pgid : Pids, pids : Seq(Pids),
        state : {"Running", "Stopped", "Done"}]

Tables == [Slots -> Job \cup {NoJob}]

InUse(tbl) == {i \in Slots : tbl[i].state # "Free"}

\* i is the slot at which a loop over the array that looks for S stops.
FirstOf(i, S) == i \in S /\ \A k \in S : i <= k

\* jobs_add: the first free slot takes the job; a full table is unchanged.
TableFull(tbl) == InUse(tbl) = Slots

jobs_add(tbl, id, pgid, pids) ==
    [i \in Slots |->
        IF FirstOf(i, Slots \ InUse(tbl))
        THEN [id |-> id, pgid |-> pgid, pids |-> pids, state |-> "Running"]
        ELSE tbl[i]]

\* next_job_id++ happens only when a slot was found.
IdAfterAdd(tbl, id) == IF TableFull(tbl) THEN id ELSE id + 1

\* find_by_pgid as the set of matching slots; the code takes the first.
OfGroup(tbl, pgid) == {i \in InUse(tbl) : tbl[i].pgid = pgid}

SetState(tbl, pgid, st) ==
    [i \in Slots |->
        IF FirstOf(i, OfGroup(tbl, pgid)) THEN [tbl[i] EXCEPT !.state = st]
                                          ELSE tbl[i]]

jobs_mark_done(tbl, pgid)    == SetState(tbl, pgid, "Done")
jobs_mark_stopped(tbl, pgid) == SetState(tbl, pgid, "Stopped")
jobs_mark_running(tbl, pgid) == SetState(tbl, pgid, "Running")

jobs_cleanup_done(tbl) ==
    [i \in Slots |-> IF tbl[i].state = "Done" THEN NoJob ELSE tbl[i]]

\* The two lookups return {} for NULL, and one slot otherwise.
jobs_find_by_id(tbl, id) ==
    {i \in InUse(tbl) : FirstOf(i, {k \in InUse(tbl) : tbl[k].id = id})}

jobs_find_most_recent(tbl) ==
    {i \in InUse(tbl) :
        \A k \in InUse(tbl) : tbl[k].id < tbl[i].id \/ (tbl[k].id = tbl[i].id /\ i <= k)}
=============================================================================
