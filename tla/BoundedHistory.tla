--------------------------- MODULE BoundedHistory ---------------------------
(***************************************************************************)
(* What a command history of bounded size promises: it lists the last Size *)
(* lines it was given, oldest first.                                       *)
(***************************************************************************)
EXTENDS Integers, Sequences

CONSTANTS
    Shells,  \* the shells, each with a history in memory
    Lines,   \* the lines that are typed
    Size     \* how many of them a history keeps

VARIABLE
    entries  \* what `history` lists, of each shell

LastOf(s, n) == IF Len(s) > n THEN SubSeq(s, Len(s) - n + 1, Len(s)) ELSE s

Init == entries = [s \in Shells |-> << >>]

Push(s, l) == entries' = [entries EXCEPT ![s] = LastOf(Append(@, l), Size)]

\* A new session starts from nothing.
Forget(s) == entries' = [entries EXCEPT ![s] = << >>]

Next == \E s \in Shells : Forget(s) \/ \E l \in Lines : Push(s, l)

Spec == Init /\ [][Next]_entries
=============================================================================
