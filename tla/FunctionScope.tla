--------------------------- MODULE FunctionScope ---------------------------
(***************************************************************************)
(* Variables and positional parameters in acsh: one environment, with the  *)
(* values that `local` shadowed kept per call in locals_stack, those that  *)
(* a for loop overwrote kept by the loop, and the parameters of each call  *)
(* in positional_stack (src/env.c, src/functions.c, run_for_block).        *)
(***************************************************************************)
EXTENDS Integers, Sequences, FiniteSets

CONSTANTS
    Names,             \* the names of the variables
    Values,            \* the values they are given
    Empty,             \* the empty string, one of the values
    Unset,             \* what getenv says of a name that is not set
    Free,              \* for the abstract scopes: a name not declared in one
    MaxCallDepth,      \* ACSH_MAX_CALL_DEPTH
    MaxParams,         \* ACSH_MAX_POSITIONAL_PARAMS
    MaxLocals,         \* ACSH_MAX_LOCALS_PER_FRAME
    MaxActivations,    \* bound on the calls and for loops nested in each other
    LongNames,         \* the names of more than 63 characters
    Prefix,            \* the first 63 characters of those
    Statements,        \* what the scripts do
    LocalInLoop        \* whether they declare a loop variable local in its loop

ASSUME FunctionScopeAssumption ==
    /\ Empty \in Values
    /\ Unset \notin Values
    /\ Free \notin Values \cup {Unset}
    /\ MaxCallDepth \in Nat \ {0}
    /\ MaxParams \in Nat
    /\ MaxLocals \in Nat
    /\ MaxActivations \in Nat
    /\ LongNames \subseteq Names
    /\ Prefix \in Names \ LongNames
    /\ Statements \subseteq {"assign", "export", "unset", "local", "for", "params"}
    /\ LocalInLoop \in BOOLEAN

VARIABLES
    env,               \* the environment, acsh's only store of variables
    positional_stack,  \* src/env.c: positional_stack, as deep as
                       \* positional_stack_depth says
    locals_stack,      \* src/env.c: locals_stack, up to locals_count_stack
    activations,       \* the calls and for loops being run, innermost last
    status             \* what the last statement returned

vars == <<env, positional_stack, locals_stack, activations, status>>

Frames == 1..MaxCallDepth
Stored == Values \cup {Unset}
Entry  == [name : Names, prior : Stored]
Args   == UNION {[1..k -> Values] : k \in 0..(MaxParams + 1)}

Depth == Len(positional_stack)

Calls == [kind |-> "call", name |-> Prefix, saved |-> Unset]
Loop(n, v) == [kind |-> "for", name |-> n, saved |-> v]

Innermost == activations[Len(activations)]
Outer     == SubSeq(activations, 1, Len(activations) - 1)

Enter(a) == /\ Len(activations) < MaxActivations
            /\ activations' = Append(activations, a)

\* The for loops of the current call.
LoopVariables ==
    {activations[i].name : i \in {j \in DOMAIN activations :
        \A k \in j..Len(activations) : activations[k].kind = "for"}}

-----------------------------------------------------------------------------
Init ==
    /\ env = [n \in Names |-> Unset]
    /\ positional_stack = << >>
    /\ locals_stack = [f \in Frames |-> << >>]
    /\ activations = << >>
    /\ status = 0

setenv(n, v) == env' = [env EXCEPT ![n] = v]

\* NAME=value on a line of its own, export NAME=value.
Assign ==
    /\ "assign" \in Statements
    /\ \E n \in Names, v \in Values : setenv(n, v)
    /\ status' = 0
    /\ UNCHANGED <<positional_stack, locals_stack, activations>>

ExportBare ==
    /\ "export" \in Statements
    /\ \E n \in Names : setenv(n, IF env[n] = Unset THEN Empty ELSE env[n])
    /\ status' = 0
    /\ UNCHANGED <<positional_stack, locals_stack, activations>>

UnsetName ==
    /\ "unset" \in Statements
    /\ \E n \in Names : setenv(n, Unset)
    /\ status' = 0
    /\ UNCHANGED <<positional_stack, locals_stack, activations>>

-----------------------------------------------------------------------------
(* env_declare_local.                                                      *)

\* strncpy into 64 bytes.
StoredName(n) == IF n \in LongNames THEN Prefix ELSE n

DeclaredIn(f, n) == \E i \in DOMAIN locals_stack[f] : locals_stack[f][i].name = n

Remember(f, n) ==
    locals_stack' = [locals_stack EXCEPT ![f] =
                        Append(@, [name |-> StoredName(n), prior |-> env[n]])]

LocalFails(n) ==
    Depth > 0 => /\ ~DeclaredIn(Depth, n)
                 /\ Len(locals_stack[Depth]) >= MaxLocals

\* A mutant: the value before a second declaration is remembered as well.
LocalAgain(n, v) ==
    /\ "local" \in Statements
    /\ LocalInLoop \/ n \notin LoopVariables
    /\ ~LocalFails(n)
    /\ Remember(Depth, n) /\ setenv(n, v)
    /\ status' = 0
    /\ UNCHANGED <<positional_stack, activations>>

\* `local n` (v is Unset) and `local n=v`; bare again, it changes nothing.
Local(n, v) ==
    /\ "local" \in Statements
    /\ LocalInLoop \/ n \notin LoopVariables
    /\ ~LocalFails(n)
    /\ IF DeclaredIn(Depth, n)
       THEN /\ setenv(n, IF v = Unset THEN env[n] ELSE v)
            /\ UNCHANGED locals_stack
       ELSE Remember(Depth, n) /\ setenv(n, v)
    /\ status' = 0
    /\ UNCHANGED <<positional_stack, activations>>

LocalRefused ==
    /\ "local" \in Statements
    /\ \E n \in Names : LocalFails(n)
    /\ status' = 1
    /\ UNCHANGED <<env, positional_stack, locals_stack, activations>>

-----------------------------------------------------------------------------
(* function_call: parameters, then locals; and back in the other order.    *)

Capped(args) == SubSeq(args, 1, IF Len(args) > MaxParams THEN MaxParams ELSE Len(args))

\* A mutant: function_call relies on the cap of env_push_positional_params,
\* which then pushes nothing, and the locals of the caller are forgotten.
CallUnchecked(args) ==
    /\ Enter(Calls)
    /\ positional_stack' = IF Depth >= MaxCallDepth THEN positional_stack
                                                    ELSE Append(positional_stack, Capped(args))
    /\ locals_stack' = [locals_stack EXCEPT ![Len(positional_stack')] = << >>]
    /\ status' = 0
    /\ UNCHANGED env

Call(args) ==
    /\ Depth < MaxCallDepth
    /\ Enter(Calls)
    /\ positional_stack' = Append(positional_stack, Capped(args))
    /\ locals_stack' = [locals_stack EXCEPT ![Depth + 1] = << >>]
    /\ status' = 0
    /\ UNCHANGED env

CallTooDeep ==
    /\ Depth >= MaxCallDepth
    /\ status' = 1
    /\ UNCHANGED <<env, positional_stack, locals_stack, activations>>

\* What env_pop_locals_frame restores of the names of frame f, in their order.
Restored(f) ==
    [n \in Names |->
        IF DeclaredIn(f, n)
        THEN LET i == CHOOSE i \in DOMAIN locals_stack[f] :
                        /\ locals_stack[f][i].name = n
                        /\ \A j \in (i + 1)..Len(locals_stack[f]) :
                              locals_stack[f][j].name # n
             IN  locals_stack[f][i].prior
        ELSE env[n]]

PopPositional == SubSeq(positional_stack, 1, Depth - 1)

\* A mutant: the parameters are popped first.
ReturnParamsFirst ==
    /\ activations # << >> /\ Innermost.kind = "call"
    /\ activations' = Outer
    /\ positional_stack' = PopPositional
    /\ IF Depth > 1
       THEN /\ env' = Restored(Depth - 1)
            /\ locals_stack' = [locals_stack EXCEPT ![Depth - 1] = << >>]
       ELSE UNCHANGED <<env, locals_stack>>
    /\ status' \in {0, 1}

Return ==
    /\ activations # << >> /\ Innermost.kind = "call"
    /\ activations' = Outer
    /\ env' = Restored(Depth)
    /\ locals_stack' = [locals_stack EXCEPT ![Depth] = << >>]
    /\ positional_stack' = PopPositional
    /\ status' \in {0, 1}

-----------------------------------------------------------------------------
(* set -- and shift.                                                       *)

SetParams ==
    /\ "params" \in Statements
    /\ IF Depth = 0
       THEN status' = 1 /\ UNCHANGED positional_stack
       ELSE /\ \E args \in Args : positional_stack' = [positional_stack EXCEPT ![Depth] = Capped(args)]
            /\ status' = 0
    /\ UNCHANGED <<env, locals_stack, activations>>

\* n < 0 is refused like n > $#.
ShiftRefused(n) == Depth = 0 \/ n > Len(positional_stack[Depth])

Shift ==
    /\ "params" \in Statements
    /\ \E n \in 0..(MaxParams + 1) :
          IF ShiftRefused(n)
          THEN status' = 1 /\ UNCHANGED positional_stack
          ELSE /\ positional_stack' = [positional_stack EXCEPT ![Depth] =
                                          SubSeq(@, n + 1, Len(@))]
               /\ status' = 0
    /\ UNCHANGED <<env, locals_stack, activations>>

-----------------------------------------------------------------------------
(* run_for_block: the loop variable is an ordinary variable whose value    *)
(* before the loop is put back at the end.                                 *)

ForStart(n) ==
    /\ "for" \in Statements
    /\ n \notin LongNames
    /\ Enter(Loop(n, env[n]))
    /\ UNCHANGED <<env, positional_stack, locals_stack, status>>

ForWord(v) ==
    /\ activations # << >> /\ Innermost.kind = "for"
    /\ setenv(Innermost.name, v)
    /\ UNCHANGED <<positional_stack, locals_stack, activations, status>>

\* A mutant: a variable that had no value keeps the last word.
ForEndKeeps ==
    /\ activations # << >> /\ Innermost.kind = "for"
    /\ activations' = Outer
    /\ setenv(Innermost.name, IF Innermost.saved = Unset THEN env[Innermost.name]
                                                         ELSE Innermost.saved)
    /\ status' \in {0, 1}
    /\ UNCHANGED <<positional_stack, locals_stack>>

ForEnd ==
    /\ activations # << >> /\ Innermost.kind = "for"
    /\ activations' = Outer
    /\ setenv(Innermost.name, Innermost.saved)
    /\ status' \in {0, 1}
    /\ UNCHANGED <<positional_stack, locals_stack>>

Next ==
    \/ Assign \/ ExportBare \/ UnsetName \/ LocalRefused \/ CallTooDeep \/ Return
    \/ SetParams \/ Shift \/ ForEnd
    \/ \E n \in Names, v \in Stored : Local(n, v)
    \/ \E args \in Args : Call(args)
    \/ \E n \in Names : ForStart(n)
    \/ \E v \in Values : ForWord(v)

Spec == Init /\ [][Next]_vars

-----------------------------------------------------------------------------
(* Properties.                                                             *)

\* Every variable has its type; the parameters stay within their arrays.
TypeOK ==
    /\ env \in [Names -> Stored]
    /\ positional_stack \in Seq(Seq(Values))
    /\ Depth <= MaxCallDepth
    /\ \A d \in 1..Depth : Len(positional_stack[d]) <= MaxParams
    /\ locals_stack \in [Frames -> Seq(Entry)]
    /\ \A f \in Frames : Len(locals_stack[f]) <= MaxLocals
    /\ activations \in Seq({Calls} \cup {Loop(n, v) : n \in Names, v \in Stored})
    /\ status \in {0, 1}

\* Each running call has its own frame of parameters and locals, also when
\* calls were refused at the limit, and no frame above holds anything.
FramesMatchCalls ==
    /\ Depth = Cardinality({i \in DOMAIN activations : activations[i].kind = "call"})
    /\ \A f \in Frames : f > Depth => locals_stack[f] = << >>

\* When every call and loop is over, the variables that scripts only declared
\* local or looped over are what they were at the start.
NothingLeaks == activations = << >> => env = [n \in Names |-> Unset]

-----------------------------------------------------------------------------
(* The scopes that env and the shadowed values stand for: a value is in    *)
(* env unless a frame further in remembers it.                             *)

Shadow(f, n) == CHOOSE v \in Stored :
    \E i \in DOMAIN locals_stack[f] : locals_stack[f][i] = [name |-> n, prior |-> v]

ValueAt(f, n) ==
    LET above == {g \in (f + 1)..Depth : DeclaredIn(g, n)}
    IN  IF above = {} THEN env[n]
        ELSE Shadow(CHOOSE g \in above : \A h \in above : g <= h, n)

Scopes ==
    [k \in 1..(Depth + 1) |-> [n \in Names |->
        IF k > 1 /\ ~DeclaredIn(k - 1, n) THEN Free ELSE ValueAt(k - 1, n)]]

Abstract == INSTANCE DynamicScope WITH scopes <- Scopes, params <- positional_stack

\* Saving and restoring one environment gives every call the variables and the
\* parameters of its own scope.
ScopesRefined == Abstract!Spec
=============================================================================
