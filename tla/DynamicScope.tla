---------------------------- MODULE DynamicScope ----------------------------
(***************************************************************************)
(* What functions and `local` promise: every call has a scope of its own,  *)
(* a name is looked up in the innermost scope that declares it, and a      *)
(* return discards the scope of the call with its parameters.  Values are  *)
(* kept where they are declared, not in one environment.                   *)
(***************************************************************************)
EXTENDS Integers, Sequences, FiniteSets

CONSTANTS
    Names,   \* the names of the shell variables
    Values,  \* what they can hold
    Unset,   \* the value of a name that is declared and not set
    Free     \* stands for a name that a scope does not declare

VARIABLES
    scopes,  \* the global scope, then that of each call, innermost last
    params   \* the positional parameters of each call

Scope == [Names -> Values \cup {Unset, Free}]

TypeOK == scopes \in Seq(Scope) /\ params \in Seq(Seq(Values))

Calls == Len(params)
Inner == Len(scopes)

\* The innermost scope that declares n.
Binds(k, n) == /\ scopes[k][n] # Free
               /\ \A j \in (k + 1)..Inner : scopes[j][n] = Free

Init ==
    /\ \E global \in [Names -> Values \cup {Unset}] : scopes = <<global>>
    /\ params = << >>

\* An assignment, `unset`, or a loop variable: where the name is declared.
Assign ==
    /\ \E n \in Names, k \in 1..Inner, v \in Values \cup {Unset} :
          Binds(k, n) /\ scopes' = [scopes EXCEPT ![k][n] = v]
    /\ UNCHANGED params

\* `local n`: the name is declared in the scope of the call, and has no value
\* the first time unless it is given one.
Declare ==
    /\ Calls > 0
    /\ \E n \in Names, v \in Values \cup {Unset} :
          /\ v = Unset => scopes[Inner][n] = Free
          /\ scopes' = [scopes EXCEPT ![Inner][n] = v]
    /\ UNCHANGED params

Call ==
    /\ scopes' = Append(scopes, [n \in Names |-> Free])
    /\ Len(params') = Calls + 1
    /\ params = SubSeq(params', 1, Calls)

Return ==
    /\ Calls > 0
    /\ scopes' = SubSeq(scopes, 1, Inner - 1)
    /\ params' = SubSeq(params, 1, Calls - 1)

\* `set --` and `shift` touch the parameters of the innermost call alone.
ChangeParams ==
    /\ Calls > 0
    /\ Len(params') = Calls
    /\ SubSeq(params', 1, Calls - 1) = SubSeq(params, 1, Calls - 1)
    /\ UNCHANGED scopes

Next == Assign \/ Declare \/ Call \/ Return \/ ChangeParams

Spec == Init /\ [][Next]_<<scopes, params>>
=============================================================================
