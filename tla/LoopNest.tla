------------------------------ MODULE LoopNest ------------------------------
(***************************************************************************)
(* What break and continue promise, without the signal that implements     *)
(* them: the loops being run form a nest, `break n` leaves the n innermost *)
(* of them in one step, and `continue n` leaves n - 1 and goes on with the *)
(* next round of the one that is then innermost.                           *)
(***************************************************************************)
EXTENDS Integers, Sequences

CONSTANTS
    MaxRounds  \* the rounds that a while or until loop can make

VARIABLES
    nest  \* the loops being run, outermost first, with the rounds left to each

Loop == [kind : {"while", "until", "for"}, rest : Nat]

TypeOK == nest \in Seq(Loop)

Init == nest = << >>

Innermost == nest[Len(nest)]

Drop(n) == SubSeq(nest, 1, Len(nest) - n)

\* A loop not yet run: a while or until loop has all its rounds.
Fresh == {l \in Loop : l.kind # "for" => l.rest = MaxRounds}

Enter ==
    /\ Len(nest') = Len(nest) + 1
    /\ nest = SubSeq(nest', 1, Len(nest))
    /\ nest'[Len(nest')] \in Fresh

\* The next round of the innermost loop.
Round ==
    /\ nest # << >>
    /\ Innermost.rest > 0
    /\ nest' = [nest EXCEPT ![Len(nest)].rest = @ - 1]

\* The innermost loop ends by itself; a for loop only after its last word.
Leave ==
    /\ nest # << >>
    /\ Innermost.kind = "for" => Innermost.rest = 0
    /\ nest' = Drop(1)

Break(n) == nest' = Drop(n)

Continue(n) == nest' = Drop(n - 1)

Next ==
    \/ Enter \/ Round \/ Leave
    \/ \E n \in 1..Len(nest) : Break(n) \/ Continue(n)

Spec == Init /\ [][Next]_nest
=============================================================================
