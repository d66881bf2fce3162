---------------------------- MODULE MCJobControl ----------------------------
(* JobControl on small sets of process ids, for TLC.                       *)
EXTENDS JobControl, TLC

PidSymmetry == Permutations(Pids)
=============================================================================
