------------------------ MODULE FunctionScopeProofs ------------------------
(***************************************************************************)
(* What holds of variables and parameters for every limit on calls,        *)
(* parameters and locals and whatever the scripts do: the arrays are never *)
(* overrun, each running call has its own frame in both stacks, and one    *)
(* environment with saved values implements DynamicScope.                  *)
(***************************************************************************)
EXTENDS FunctionScope, FiniteSetTheorems, WellFoundedInduction, TLAPS

USE FunctionScopeAssumption

Activation == {Calls} \cup {Loop(n, v) : n \in Names, v \in Stored}

CallsIn(a) == {i \in DOMAIN a : a[i].kind = "call"}

IInv == TypeOK /\ FramesMatchCalls

-----------------------------------------------------------------------------
(* The operators.                                                          *)

\* A set of positions has a last one: the sets of positions from one of them
\* on are finite, and the least of them is that of the last.
LEMMA LastPosition ==
    ASSUME NEW n \in Nat, NEW T, T \subseteq 1..n, T # {}
    PROVE  \E i \in T : \A j \in T : j <= i
<1> DEFINE F == {i..n : i \in T}
           R == StrictSubsetOrdering(Int)
<1>1. \A i \in T : IsFiniteSet(i..n) /\ i..n \in SUBSET Int
    BY FS_Interval
<1>2. F \subseteq FiniteSubsetsOf(Int) /\ F # {}
    BY <1>1 DEF FiniteSubsetsOf
<1>3. IsWellFoundedOn(R, FiniteSubsetsOf(Int))
    BY FS_StrictSubsetOrderingWellFounded
<1>4. PICK s \in F : \A t \in F : <<t, s>> \notin R
    <2> HIDE DEF F, R
    <2> QED BY <1>2, <1>3, WFMin
<1>5. PICK i \in T : s = i..n
    OBVIOUS
<1>6. ASSUME NEW j \in T, j > i PROVE FALSE
    <2>1. j..n \in F /\ j..n \in SUBSET Int /\ i..n \in SUBSET Int
        BY <1>1
    <2>2. j..n \subseteq i..n /\ i \in i..n /\ i \notin j..n
        BY <1>6
    <2>3. <<j..n, i..n>> \in R
        BY <2>1, <2>2 DEF StrictSubsetOrdering
    <2> QED BY <1>4, <1>5, <2>1, <2>3
<1> QED BY <1>6

LEMMA CappedType ==
    ASSUME NEW args \in Args
    PROVE  Capped(args) \in Seq(Values) /\ Len(Capped(args)) <= MaxParams
<1>1. PICK k \in 0..(MaxParams + 1) : args \in [1..k -> Values]
    BY DEF Args
<1>2. args \in Seq(Values) /\ Len(args) = k /\ k \in Nat
    BY <1>1
<1> QED BY <1>2 DEF Capped

\* What a return puts back are values that were stored: each declared name has
\* a last entry.
LEMMA RestoredType ==
    ASSUME TypeOK, NEW f \in Frames
    PROVE  Restored(f) \in [Names -> Stored]
<1> DEFINE L == locals_stack[f]
<1>1. L \in Seq(Entry) /\ Len(L) \in Nat /\ DOMAIN L = 1..Len(L)
    BY DEF TypeOK
<1>2. ASSUME NEW n \in Names, DeclaredIn(f, n)
      PROVE  \E i \in DOMAIN L : /\ L[i].name = n
                                 /\ \A j \in (i + 1)..Len(L) : L[j].name # n
    <2> DEFINE T == {i \in 1..Len(L) : L[i].name = n}
    <2>1. T \subseteq 1..Len(L) /\ T # {}
        BY <1>1, <1>2 DEF DeclaredIn
    <2>2. PICK i \in T : \A j \in T : j <= i
        <3> HIDE DEF T, L
        <3> QED BY <1>1, <2>1, LastPosition
    <2> HIDE DEF L
    <2>3. ASSUME NEW j \in (i + 1)..Len(L) PROVE L[j].name # n
        <3>1. j \in 1..Len(L) /\ ~(j <= i)
            BY <1>1, <2>3
        <3> QED BY <2>2, <3>1
    <2>4. i \in DOMAIN L /\ L[i].name = n
        BY <1>1, <2>2
    <2> HIDE DEF T
    <2> QED BY <2>3, <2>4
<1>3. \A i \in DOMAIN L : L[i].prior \in Stored
    <2>1. \A i \in DOMAIN L : L[i] \in Entry
        BY <1>1
    <2> HIDE DEF L
    <2> QED BY <2>1 DEF Entry
<1>4. ASSUME NEW n \in Names, DeclaredIn(f, n)
      PROVE  Restored(f)[n] \in Stored
    BY <1>2, <1>3, <1>4 DEF Restored
<1>5. ASSUME NEW n \in Names, ~DeclaredIn(f, n)
      PROVE  Restored(f)[n] \in Stored
    BY <1>5 DEF Restored, TypeOK
<1>6. \A n \in Names : Restored(f)[n] \in Stored
    BY <1>4, <1>5
<1>7. Restored(f) = [n \in Names |-> Restored(f)[n]]
    BY DEF Restored
<1> HIDE DEF L
<1> QED BY <1>6, <1>7

-----------------------------------------------------------------------------
(* Calls and loops begin and end at the end of the activations.            *)

LEMMA EnterCalls ==
    ASSUME TypeOK, NEW a \in Activation, Enter(a)
    PROVE  /\ activations' \in Seq(Activation)
           /\ CallsIn(activations') = IF a.kind = "call"
                                      THEN CallsIn(activations) \cup {Len(activations) + 1}
                                      ELSE CallsIn(activations)
<1> DEFINE n == Len(activations)
<1>1. activations \in Seq(Activation) /\ n \in Nat /\ DOMAIN activations = 1..n
    BY DEF TypeOK, Activation
<1>2. activations' = Append(activations, a)
    BY DEF Enter
<1> HIDE DEF Activation, n
<1>3. /\ activations' \in Seq(Activation)
      /\ DOMAIN activations' = 1..(n + 1)
      /\ \A i \in 1..n : activations'[i] = activations[i]
      /\ activations'[n + 1] = a
    BY <1>1, <1>2 DEF n
<1>4. 1..(n + 1) = (1..n) \cup {n + 1} /\ n + 1 \notin 1..n
    BY <1>1
<1> HIDE DEF Activation
<1>5. CallsIn(activations') = IF a.kind = "call" THEN CallsIn(activations) \cup {n + 1}
                                                 ELSE CallsIn(activations)
    BY <1>1, <1>3, <1>4 DEF CallsIn
<1> QED BY <1>3, <1>5 DEF n

LEMMA LeaveCalls ==
    ASSUME TypeOK, activations # << >>, activations' = Outer
    PROVE  /\ activations' \in Seq(Activation)
           /\ CallsIn(activations') = CallsIn(activations) \ {Len(activations)}
<1> DEFINE n == Len(activations)
<1>1. activations \in Seq(Activation) /\ n \in Nat \ {0} /\ DOMAIN activations = 1..n
    BY DEF TypeOK, Activation
<1> HIDE DEF Activation, n
<1>2. /\ activations' \in Seq(Activation)
      /\ DOMAIN activations' = 1..(n - 1)
      /\ \A i \in 1..(n - 1) : activations'[i] = activations[i]
    BY <1>1 DEF Outer, n
<1>3. 1..(n - 1) = (1..n) \ {n}
    BY <1>1
<1>4. CallsIn(activations') = CallsIn(activations) \ {n}
    BY <1>1, <1>2, <1>3 DEF CallsIn
<1> QED BY <1>2, <1>4 DEF n

LEMMA CallsFinite ==
    ASSUME TypeOK
    PROVE  /\ IsFiniteSet(CallsIn(activations))
           /\ Cardinality(CallsIn(activations)) \in Nat
           /\ Len(activations) + 1 \notin CallsIn(activations)
<1>1. Len(activations) \in Nat /\ DOMAIN activations = 1..Len(activations)
    BY DEF TypeOK
<1>2. CallsIn(activations) \subseteq 1..Len(activations)
    BY <1>1 DEF CallsIn
<1>3. IsFiniteSet(CallsIn(activations))
    <2>1. IsFiniteSet(1..Len(activations))
        BY <1>1, FS_Interval
    <2> QED BY <1>2, <2>1, FS_Subset
<1>4. Len(activations) + 1 \notin 1..Len(activations)
    BY <1>1
<1> QED BY <1>2, <1>3, <1>4, FS_CardinalityType
-----------------------------------------------------------------------------
(* The steps.                                                              *)

LEMMA InitInvariant == Init => IInv
<1> SUFFICES ASSUME Init PROVE IInv
    OBVIOUS
<1>1. TypeOK
    BY DEF Init, TypeOK, Stored, Depth, Frames
<1>2. CallsIn(activations) = {}
    BY DEF Init, CallsIn
<1>3. FramesMatchCalls
    BY <1>2, FS_EmptySet DEF Init, FramesMatchCalls, CallsIn, Depth, Frames
<1> QED BY <1>1, <1>3 DEF IInv

\* A step that changes the environment alone, or nothing.
LEMMA EnvironmentStep ==
    ASSUME IInv, env' \in [Names -> Stored], status' \in {0, 1},
           UNCHANGED <<positional_stack, locals_stack, activations>>
    PROVE  IInv'
<1>1. TypeOK'
    BY DEF IInv, TypeOK, Depth
<1>2. FramesMatchCalls'
    BY DEF IInv, FramesMatchCalls, Depth
<1> QED BY <1>1, <1>2 DEF IInv

LEMMA SetenvType ==
    ASSUME TypeOK, NEW n \in Names, NEW v \in Stored, setenv(n, v)
    PROVE  env' \in [Names -> Stored]
BY DEF TypeOK, setenv

LEMMA LocalsUpdate ==
    ASSUME TypeOK, NEW k \in Frames, NEW L \in Seq(Entry), Len(L) <= MaxLocals,
           locals_stack' = [locals_stack EXCEPT ![k] = L]
    PROVE  /\ locals_stack' \in [Frames -> Seq(Entry)]
           /\ \A f \in Frames : Len(locals_stack'[f]) <= MaxLocals
           /\ \A f \in Frames : locals_stack'[f] = IF f = k THEN L ELSE locals_stack[f]
BY DEF TypeOK

\* The innermost call's parameters are replaced.
LEMMA ParamsStep ==
    ASSUME IInv, Depth > 0, NEW params \in Seq(Values), Len(params) <= MaxParams,
           positional_stack' = [positional_stack EXCEPT ![Depth] = params],
           status' \in {0, 1}, UNCHANGED <<env, locals_stack, activations>>
    PROVE  IInv'
<1>1. /\ positional_stack' \in Seq(Seq(Values))
      /\ Len(positional_stack') = Depth
      /\ \A d \in 1..Depth : Len(positional_stack'[d]) <= MaxParams
    BY DEF IInv, TypeOK, Depth
<1>2. Depth' = Depth
    BY <1>1 DEF Depth
<1> QED BY <1>1, <1>2 DEF IInv, TypeOK, FramesMatchCalls

\* A loop begins or ends.
LEMMA LoopStep ==
    ASSUME IInv, env' \in [Names -> Stored], status' \in {0, 1},
           activations' \in Seq(Activation),
           CallsIn(activations') = CallsIn(activations),
           UNCHANGED <<positional_stack, locals_stack>>
    PROVE  IInv'
<1>1. TypeOK'
    BY DEF IInv, TypeOK, Depth, Activation
<1>2. FramesMatchCalls'
    BY DEF IInv, FramesMatchCalls, CallsIn, Depth
<1> QED BY <1>1, <1>2 DEF IInv

LEMMA LocalStep ==
    ASSUME IInv, NEW n \in Names, NEW v \in Stored, Local(n, v)
    PROVE  IInv'
<1>1. Depth \in Frames /\ Depth > 0
    BY DEF IInv, TypeOK, Local, LocalFails, Depth, Frames
<1>2. CASE DeclaredIn(Depth, n)
    <2>1. env' \in [Names -> Stored]
        BY <1>2, SetenvType DEF IInv, TypeOK, Local, setenv
    <2> QED BY <1>2, <2>1, EnvironmentStep DEF Local
<1>3. CASE ~DeclaredIn(Depth, n)
    <2> DEFINE L == locals_stack[Depth]
               e == [name |-> StoredName(n), prior |-> env[n]]
    <2>1. L \in Seq(Entry) /\ Len(L) < MaxLocals
        BY <1>1, <1>3 DEF IInv, TypeOK, Local, LocalFails
    <2>2. e \in Entry
        BY DEF IInv, TypeOK, Entry, StoredName
    <2>3. locals_stack' = [locals_stack EXCEPT ![Depth] = Append(L, e)]
        BY <1>3 DEF Local, Remember
    <2>4. env' \in [Names -> Stored]
        BY <1>3, SetenvType DEF IInv, Local
    <2> HIDE DEF L, e
    <2>5. Append(L, e) \in Seq(Entry) /\ Len(Append(L, e)) <= MaxLocals
        BY <2>1, <2>2
    <2>6. /\ locals_stack' \in [Frames -> Seq(Entry)]
          /\ \A f \in Frames : Len(locals_stack'[f]) <= MaxLocals
          /\ \A f \in Frames : f > Depth => locals_stack'[f] = locals_stack[f]
        <3>1. \A f \in Frames : f > Depth => f # Depth
            BY <1>1 DEF Frames
        <3> QED BY <1>1, <2>3, <2>5, <3>1, LocalsUpdate DEF IInv
    <2>7. UNCHANGED <<positional_stack, activations>> /\ status' = 0
        BY DEF Local
    <2>8. TypeOK'
        BY <2>4, <2>6, <2>7 DEF IInv, TypeOK, Depth
    <2>9. FramesMatchCalls'
        BY <2>6, <2>7 DEF IInv, FramesMatchCalls, Depth
    <2> QED BY <2>8, <2>9 DEF IInv
<1> QED BY <1>2, <1>3

LEMMA CallStep ==
    ASSUME IInv, NEW args \in Args, Call(args)
    PROVE  IInv'
<1> DEFINE p == Capped(args)
           C == CallsIn(activations)
<1>1. p \in Seq(Values) /\ Len(p) <= MaxParams
    BY CappedType
<1>2. positional_stack' = Append(positional_stack, p)
    BY DEF Call
<1> HIDE DEF p
<1>3. /\ positional_stack' \in Seq(Seq(Values))
      /\ Depth' = Depth + 1
      /\ Depth \in Nat /\ Depth < MaxCallDepth
      /\ \A d \in 1..(Depth + 1) : Len(positional_stack'[d]) <= MaxParams
    BY <1>1, <1>2 DEF IInv, TypeOK, Depth, Call
<1>4. Depth + 1 \in Frames
    BY <1>3 DEF Frames
<1>5. locals_stack' = [locals_stack EXCEPT ![Depth + 1] = << >>]
    BY DEF Call
<1>6. /\ locals_stack' \in [Frames -> Seq(Entry)]
      /\ \A f \in Frames : Len(locals_stack'[f]) <= MaxLocals
      /\ \A f \in Frames : f > Depth + 1 => locals_stack'[f] = << >>
    <2>1. << >> \in Seq(Entry) /\ Len(<< >>) <= MaxLocals
        OBVIOUS
    <2>2. \A f \in Frames : f > Depth + 1 => f > Depth
        BY <1>3 DEF Frames
    <2> QED BY <1>4, <1>5, <2>1, <2>2, LocalsUpdate DEF IInv, FramesMatchCalls
<1>7. /\ activations' \in Seq(Activation)
      /\ CallsIn(activations') = C \cup {Len(activations) + 1}
    <2>1. Calls \in Activation /\ Calls.kind = "call"
        BY DEF Activation, Calls
    <2> QED BY <2>1, EnterCalls DEF IInv, Call
<1>8. IsFiniteSet(C) /\ Len(activations) + 1 \notin C /\ Depth = Cardinality(C)
    BY CallsFinite DEF IInv, FramesMatchCalls, CallsIn
<1>9. Cardinality(CallsIn(activations')) = Depth + 1
    <2> HIDE DEF C
    <2> QED BY <1>7, <1>8, FS_AddElement
<1>10. env' = env /\ status' = 0
    BY DEF Call
<1>11. TypeOK'
    BY <1>3, <1>6, <1>7, <1>10 DEF IInv, TypeOK, Activation
<1>12. FramesMatchCalls'
    BY <1>3, <1>6, <1>9 DEF FramesMatchCalls, CallsIn
<1> QED BY <1>11, <1>12 DEF IInv

LEMMA ReturnStep ==
    ASSUME IInv, Return
    PROVE  IInv'
<1> DEFINE C == CallsIn(activations)
           n == Len(activations)
<1>1. n \in Nat \ {0} /\ n \in C
    BY DEF IInv, TypeOK, Return, Innermost, CallsIn
<1>2. IsFiniteSet(C) /\ Cardinality(C) \in Nat /\ Depth = Cardinality(C)
    BY CallsFinite DEF IInv, FramesMatchCalls, CallsIn
<1>3. /\ activations' \in Seq(Activation)
      /\ CallsIn(activations') = C \ {n}
    BY LeaveCalls DEF IInv, Return
<1>4. Cardinality(C \ {n}) = Depth - 1 /\ Depth > 0
    <2> HIDE DEF C, n
    <2>1. C # {}
        BY <1>1
    <2> QED BY <1>1, <1>2, <2>1, FS_RemoveElement, FS_EmptySet
<1>5. Depth \in Frames
    BY <1>2, <1>4 DEF IInv, TypeOK, Frames
<1>6. env' \in [Names -> Stored]
    BY <1>5, RestoredType DEF IInv, Return
<1>7. /\ positional_stack' \in Seq(Seq(Values))
      /\ Depth' = Depth - 1
      /\ \A d \in 1..(Depth - 1) : Len(positional_stack'[d]) <= MaxParams
    BY <1>2, <1>4 DEF IInv, TypeOK, Return, PopPositional, Depth
<1>8. locals_stack' = [locals_stack EXCEPT ![Depth] = << >>]
    BY DEF Return
<1>9. /\ locals_stack' \in [Frames -> Seq(Entry)]
      /\ \A f \in Frames : Len(locals_stack'[f]) <= MaxLocals
      /\ \A f \in Frames : f > Depth - 1 => locals_stack'[f] = << >>
    <2>1. << >> \in Seq(Entry) /\ Len(<< >>) <= MaxLocals
        OBVIOUS
    <2>2. \A f \in Frames : f > Depth - 1 => f = Depth \/ f > Depth
        BY <1>2 DEF Frames
    <2> QED BY <1>5, <1>8, <2>1, <2>2, LocalsUpdate DEF IInv, FramesMatchCalls
<1>10. status' \in {0, 1}
    BY DEF Return
<1>11. TypeOK'
    BY <1>2, <1>3, <1>5, <1>6, <1>7, <1>9, <1>10 DEF IInv, TypeOK, Activation, Frames
<1>12. FramesMatchCalls'
    BY <1>3, <1>4, <1>7, <1>9 DEF FramesMatchCalls, CallsIn
<1> QED BY <1>11, <1>12 DEF IInv

LEMMA StepInvariant == IInv /\ [Next]_vars => IInv'
<1> SUFFICES ASSUME IInv, [Next]_vars PROVE IInv'
    OBVIOUS
<1>t. TypeOK
    BY DEF IInv
<1>1. CASE Assign
    BY <1>1, <1>t, SetenvType, EnvironmentStep DEF Assign, Stored
<1>2. CASE ExportBare
    <2>1. \A n \in Names : (IF env[n] = Unset THEN Empty ELSE env[n]) \in Stored
        BY <1>t DEF TypeOK, Stored
    <2> QED BY <1>2, <1>t, <2>1, SetenvType, EnvironmentStep DEF ExportBare
<1>3. CASE UnsetName
    BY <1>3, <1>t, SetenvType, EnvironmentStep DEF UnsetName, Stored
<1>4. CASE LocalRefused \/ CallTooDeep
    BY <1>4, <1>t, EnvironmentStep DEF LocalRefused, CallTooDeep, TypeOK
<1>5. CASE Return
    BY <1>5, ReturnStep
<1>6. CASE SetParams
    <2>1. CASE Depth = 0
        BY <1>6, <1>t, <2>1, EnvironmentStep DEF SetParams, TypeOK
    <2>2. CASE Depth # 0
        <3>1. PICK args \in Args :
                positional_stack' = [positional_stack EXCEPT ![Depth] = Capped(args)]
            BY <1>6, <2>2 DEF SetParams
        <3>2. Depth > 0
            BY <1>t, <2>2 DEF TypeOK, Depth
        <3> QED BY <1>6, <2>2, <3>1, <3>2, CappedType, ParamsStep DEF SetParams
    <2> QED BY <2>1, <2>2
<1>7. CASE Shift
    <2>1. PICK n \in 0..(MaxParams + 1) :
            IF ShiftRefused(n)
            THEN status' = 1 /\ UNCHANGED positional_stack
            ELSE /\ positional_stack' = [positional_stack EXCEPT ![Depth] =
                                            SubSeq(@, n + 1, Len(@))]
                 /\ status' = 0
        BY <1>7 DEF Shift
    <2>2. CASE ShiftRefused(n)
        BY <1>7, <1>t, <2>1, <2>2, EnvironmentStep DEF Shift, TypeOK
    <2>3. CASE ~ShiftRefused(n)
        <3> DEFINE p == positional_stack[Depth]
                   q == SubSeq(p, n + 1, Len(p))
        <3>1. Depth > 0 /\ Depth \in 1..Depth
            BY <1>t, <2>3 DEF TypeOK, Depth, ShiftRefused
        <3>2. p \in Seq(Values) /\ Len(p) <= MaxParams /\ n \in Nat /\ n <= Len(p)
            BY <1>t, <2>3, <3>1 DEF TypeOK, Depth, ShiftRefused
        <3>3. positional_stack' = [positional_stack EXCEPT ![Depth] = q]
            BY <2>1, <2>3
        <3> HIDE DEF p
        <3>4. q \in Seq(Values) /\ Len(q) <= MaxParams
            BY <3>2
        <3> HIDE DEF q
        <3> QED BY <1>7, <2>1, <2>3, <3>1, <3>3, <3>4, ParamsStep DEF Shift
    <2> QED BY <2>2, <2>3
<1>8. CASE ForEnd
    <2>1. Innermost \in Activation /\ Len(activations) \in Nat \ {0}
        BY <1>8, <1>t DEF ForEnd, TypeOK, Innermost, Activation
    <2>2. Innermost.name \in Names /\ Innermost.saved \in Stored
        BY <2>1 DEF Activation, Calls, Loop, Stored
    <2>3. env' \in [Names -> Stored]
        BY <1>8, <1>t, <2>2, SetenvType DEF ForEnd
    <2>4. Len(activations) \notin CallsIn(activations)
        BY <1>8 DEF ForEnd, CallsIn, Innermost
    <2> QED BY <1>8, <1>t, <2>3, <2>4, LeaveCalls, LoopStep DEF ForEnd
<1>9. ASSUME NEW n \in Names, NEW v \in Stored, Local(n, v) PROVE IInv'
    BY <1>9, LocalStep
<1>10. ASSUME NEW args \in Args, Call(args) PROVE IInv'
    BY <1>10, CallStep
<1>11. ASSUME NEW n \in Names, ForStart(n) PROVE IInv'
    <2>1. env[n] \in Stored
        BY <1>t DEF TypeOK
    <2>2. Loop(n, env[n]) \in Activation /\ Loop(n, env[n]).kind = "for"
        BY <2>1 DEF Activation, Loop
    <2> QED BY <1>11, <1>t, <2>2, EnterCalls, LoopStep DEF ForStart, TypeOK
<1>12. ASSUME NEW v \in Values, ForWord(v) PROVE IInv'
    <2>1. Innermost \in Activation
        BY <1>12, <1>t DEF ForWord, TypeOK, Innermost, Activation
    <2>2. Innermost.name \in Names
        BY <2>1 DEF Activation, Calls, Loop
    <2> QED BY <1>12, <1>t, <2>2, SetenvType, EnvironmentStep DEF ForWord, Stored, TypeOK
<1>13. CASE UNCHANGED vars
    BY <1>13, <1>t, EnvironmentStep DEF vars, TypeOK
<1> QED BY <1>1, <1>2, <1>3, <1>4, <1>5, <1>6, <1>7, <1>8, <1>9, <1>10, <1>11, <1>12, <1>13
        DEF Next

-----------------------------------------------------------------------------
(* The theorems.                                                           *)

\* TypeOK needs that a return finds a frame, and that needs FramesMatchCalls.
THEOREM Invariant == Spec => []IInv
<1> QED BY InitInvariant, StepInvariant, PTL DEF Spec

\* No call, declaration, `set --` or shift overruns positional_stack,
\* locals_stack or a frame of them, and what is put back was stored (src/env.c).
THEOREM TypeCorrect == Spec => []TypeOK
<1>1. IInv => TypeOK
    BY DEF IInv
<1> QED BY <1>1, Invariant, PTL

\* positional_stack_depth is the number of calls that run, refused calls
\* leaving it alone, and no frame above it holds locals (function_call,
\* env_push_positional_params, env_push_locals_frame).
THEOREM FramesMatchCallsCorrect == Spec => []FramesMatchCalls
<1>1. IInv => FramesMatchCalls
    BY DEF IInv
<1> QED BY <1>1, Invariant, PTL

-----------------------------------------------------------------------------
(* The scopes that the environment and the frames of locals stand for.     *)

\* No name is declared twice in one frame: a second `local` assigns.
OnceEach(L) == \A i, j \in DOMAIN L : L[i].name = L[j].name => i = j
Distinct == \A f \in Frames : OnceEach(locals_stack[f])

\* The frames further in than f that declare n.
Above(f, n) == {g \in (f + 1)..Depth : DeclaredIn(g, n)}

\* The value that the entries L of a frame keep of n.
Kept(L, n) == CHOOSE v \in Stored : \E i \in DOMAIN L : L[i] = [name |-> n, prior |-> v]

\* The first of them.
Least(T) == CHOOSE g \in T : \A h \in T : g <= h

\* What the k-th scope holds of n.
ScopeAt(k, n) == IF k > 1 /\ ~DeclaredIn(k - 1, n) THEN Free ELSE ValueAt(k - 1, n)

\* The names are kept whole.
ShortNames == LongNames = {}

\* A set of positions has a first one.
LEMMA FirstPosition ==
    ASSUME NEW n \in Nat, NEW T, T \subseteq 1..n, T # {}
    PROVE  \E i \in T : \A j \in T : i <= j
<1> DEFINE U == {n + 1 - i : i \in T}
<1>0. \A i \in T : i \in 1..n /\ n + 1 - i \in 1..n
    OBVIOUS
<1>1. U \subseteq 1..n /\ U # {}
    BY <1>0
<1>2. PICK k \in U : \A j \in U : j <= k
    <2> HIDE DEF U
    <2> QED BY <1>1, LastPosition
<1>3. PICK i \in T : k = n + 1 - i
    BY <1>2
<1>4. ASSUME NEW j \in T PROVE i <= j
    <2>1. n + 1 - j <= k
        BY <1>2
    <2> QED BY <1>3, <2>1
<1> QED BY <1>4

\* The first of a set is the one before all others.
LEMMA LeastIs ==
    ASSUME NEW T, T \subseteq Int, NEW g \in T, \A h \in T : g <= h
    PROVE  Least(T) = g
<1> DEFINE P(x) == x \in T /\ \A h \in T : x <= h
<1>1. P(g)
    OBVIOUS
<1>2. Least(T) = CHOOSE x : P(x)
    BY Zenon DEF Least
<1>3. P(Least(T))
    BY <1>1, <1>2, Zenon
<1>4. Least(T) <= g /\ g <= Least(T) /\ Least(T) \in Int /\ g \in Int
    BY <1>3
<1> QED BY <1>4

\* A set of frames has one.
LEMMA LeastExists ==
    ASSUME NEW n \in Nat, NEW T, T \subseteq 1..n, T # {}
    PROVE  Least(T) \in T /\ \A h \in T : Least(T) <= h
<1>1. PICK g \in T : \A h \in T : g <= h
    BY FirstPosition
<1>2. T \subseteq Int
    OBVIOUS
<1>3. Least(T) = g
    BY <1>1, <1>2, LeastIs
<1> QED BY <1>1, <1>3

\* The frames further in are frames of the stack.
LEMMA AboveType ==
    ASSUME TypeOK, NEW f \in Nat, NEW n \in Names
    PROVE  /\ Depth \in Nat /\ Depth <= MaxCallDepth
           /\ Above(f, n) \subseteq 1..Depth
           /\ Above(f, n) \subseteq Frames
<1>1. Depth \in Nat /\ Depth <= MaxCallDepth
    BY DEF TypeOK, Depth
<1> QED BY <1>1 DEF Above, Frames

\* A value is in the environment, or in the first frame further in that
\* declares the name.
LEMMA ValueAtAs ==
    ASSUME NEW f, NEW n
    PROVE  ValueAt(f, n) = IF Above(f, n) = {} THEN env[n]
                           ELSE Kept(locals_stack[Least(Above(f, n))], n)
BY DEF ValueAt, Above, Least, Shadow, Kept

\* The same after a step.
LEMMA ValueAtNext ==
    ASSUME NEW f, NEW n
    PROVE  ValueAt(f, n)' = IF Above(f, n)' = {} THEN env'[n]
                            ELSE Kept(locals_stack'[Least(Above(f, n)')], n)
BY DEF ValueAt, Above, Least, Shadow, Kept

\* A frame that declares each name once keeps one value of it.
LEMMA KeptIs ==
    ASSUME NEW L \in Seq(Entry), OnceEach(L), NEW i \in DOMAIN L
    PROVE  Kept(L, L[i].name) = L[i].prior /\ L[i].prior \in Stored
<1> DEFINE n == L[i].name
<1>1. L[i] \in Entry
    OBVIOUS
<1>2. L[i].prior \in Stored /\ L[i] = [name |-> n, prior |-> L[i].prior]
    BY <1>1 DEF Entry
<1>3. ASSUME NEW v, NEW j \in DOMAIN L, L[j] = [name |-> n, prior |-> v]
      PROVE  v = L[i].prior
    <2>1. L[j].name = n /\ L[j].prior = v
        BY <1>3
    <2>2. j = i
        BY <2>1 DEF OnceEach
    <2> QED BY <2>1, <2>2
<1> HIDE DEF n
<1>4. Kept(L, n) = L[i].prior
    BY <1>2, <1>3 DEF Kept
<1> QED BY <1>2, <1>4 DEF n

\* That value was stored.
LEMMA KeptType ==
    ASSUME TypeOK, Distinct, NEW f \in Frames, NEW n, DeclaredIn(f, n)
    PROVE  Kept(locals_stack[f], n) \in Stored
<1>1. PICK i \in DOMAIN locals_stack[f] : locals_stack[f][i].name = n
    BY DEF DeclaredIn
<1>2. locals_stack[f] \in Seq(Entry) /\ OnceEach(locals_stack[f])
    BY DEF TypeOK, Distinct
<1> QED BY <1>1, <1>2, KeptIs

\* What a name stands for is a value, or nothing.
LEMMA ValueAtType ==
    ASSUME TypeOK, Distinct, NEW f \in Nat, NEW n \in Names
    PROVE  ValueAt(f, n) \in Stored
<1>1. CASE Above(f, n) = {}
    BY <1>1, ValueAtAs DEF TypeOK
<1>2. CASE Above(f, n) # {}
    <2> DEFINE g == Least(Above(f, n))
    <2>1. g \in Above(f, n)
        BY <1>2, AboveType, LeastExists
    <2>2. g \in Frames /\ DeclaredIn(g, n)
        BY <2>1, AboveType DEF Above
    <2>3. ValueAt(f, n) = Kept(locals_stack[g], n)
        BY <1>2, ValueAtAs
    <2> HIDE DEF g
    <2> QED BY <2>2, <2>3, KeptType
<1> QED BY <1>1, <1>2

\* There is a global scope, and one for each call.
LEMMA ScopesType ==
    ASSUME TypeOK, Distinct
    PROVE  /\ Scopes \in Seq(Abstract!Scope)
           /\ Len(Scopes) = Depth + 1
           /\ Depth \in Nat
           /\ DOMAIN Scopes = 1..(Depth + 1)
           /\ \A k \in 1..(Depth + 1) : Scopes[k] = [n \in Names |-> ScopeAt(k, n)]
<1>1. Depth \in Nat
    BY DEF TypeOK, Depth
<1>2. ASSUME NEW k \in 1..(Depth + 1), NEW n \in Names
      PROVE  ScopeAt(k, n) \in Values \cup {Unset, Free}
    <2>1. k - 1 \in Nat
        OBVIOUS
    <2>2. ValueAt(k - 1, n) \in Stored
        BY <2>1, ValueAtType
    <2> QED BY <2>2 DEF ScopeAt, Stored
<1>3. Scopes = [k \in 1..(Depth + 1) |-> [n \in Names |-> ScopeAt(k, n)]]
    BY DEF Scopes, ScopeAt
<1>4. \A k \in 1..(Depth + 1) : [n \in Names |-> ScopeAt(k, n)] \in Abstract!Scope
    BY <1>2 DEF Abstract!Scope
<1> QED BY <1>1, <1>3, <1>4

\* What a name stands for in a scope does not change when the frames further in
\* stay the same, nor the value in the environment if none of them declares it.
LEMMA ValueKept ==
    ASSUME TypeOK, NEW f \in Nat, NEW n \in Names,
           Above(f, n)' = Above(f, n),
           \A g \in Above(f, n) : Kept(locals_stack'[g], n) = Kept(locals_stack[g], n),
           Above(f, n) = {} => env'[n] = env[n]
    PROVE  ValueAt(f, n)' = ValueAt(f, n)
<1>1. ValueAt(f, n)' = IF Above(f, n) = {} THEN env'[n]
                       ELSE Kept(locals_stack'[Least(Above(f, n))], n)
    BY ValueAtNext
<1>2. Above(f, n) # {} => Least(Above(f, n)) \in Above(f, n)
    BY AboveType, LeastExists
<1> QED BY <1>1, <1>2, ValueAtAs

\* A frame further in than all of T is not the first to declare the name.
LEMMA LeastOfMore ==
    ASSUME NEW n \in Nat, NEW T, T \subseteq 1..n, T # {}, NEW d \in Int, \A t \in T : t < d
    PROVE  Least(T \cup {d}) = Least(T)
<1> DEFINE g == Least(T)
<1>1. g \in T /\ \A h \in T : g <= h
    BY LeastExists
<1> HIDE DEF g
<1>2. T \cup {d} \subseteq Int /\ g \in T \cup {d} /\ \A h \in T \cup {d} : g <= h
    BY <1>1
<1>3. Least(T \cup {d}) = g
    BY <1>2, LeastIs
<1> QED BY <1>3 DEF g

\* So the scope keeps it.
LEMMA ScopeKept ==
    ASSUME TypeOK, NEW k \in Nat \ {0}, NEW n \in Names,
           DeclaredIn(k - 1, n)' = DeclaredIn(k - 1, n),
           ~(k > 1 /\ ~DeclaredIn(k - 1, n)) => ValueAt(k - 1, n)' = ValueAt(k - 1, n)
    PROVE  ScopeAt(k, n)' = ScopeAt(k, n)
BY DEF ScopeAt

\* One name changes in one scope.
LEMMA SetInScope ==
    ASSUME TypeOK, Distinct, Depth' = Depth,
           NEW k \in 1..(Depth + 1), NEW n \in Names, NEW v,
           \A j \in 1..(Depth + 1), m \in Names :
               ScopeAt(j, m)' = IF j = k /\ m = n THEN v ELSE ScopeAt(j, m)
    PROVE  Scopes' = [Scopes EXCEPT ![k][n] = v]
<1>1. /\ DOMAIN Scopes = 1..(Depth + 1)
      /\ \A j \in 1..(Depth + 1) : Scopes[j] = [m \in Names |-> ScopeAt(j, m)]
      /\ Scopes \in Seq(Abstract!Scope)
    BY ScopesType
<1> DEFINE S == Scopes
           T == [S EXCEPT ![k][n] = v]
<1>2. Scopes' = [j \in 1..(Depth + 1) |-> [m \in Names |-> ScopeAt(j, m)']]
    BY DEF Scopes, ScopeAt
<1>3. ASSUME NEW j \in 1..(Depth + 1)
      PROVE  T[j] = [m \in Names |-> IF j = k /\ m = n THEN v ELSE ScopeAt(j, m)]
    <2>1. S[j] = [m \in Names |-> ScopeAt(j, m)]
        BY <1>1
    <2>2. T[j] = IF j = k THEN [S[j] EXCEPT ![n] = v] ELSE S[j]
        BY <1>1
    <2> HIDE DEF S, T
    <2> QED BY <2>1, <2>2
<1>4. T = [j \in 1..(Depth + 1) |-> T[j]]
    BY <1>1
<1> HIDE DEF T, S
<1>5. T = [j \in 1..(Depth + 1) |-> [m \in Names |-> ScopeAt(j, m)']]
    BY <1>3, <1>4
<1>6. Scopes' = T
    BY <1>2, <1>5
<1> QED BY <1>6 DEF T, S

\* A value is put into the environment: it is the innermost declaration of the
\* name that changes.
LEMMA AssignRefined ==
    ASSUME TypeOK, Distinct, NEW n \in Names, NEW v \in Stored, setenv(n, v),
           UNCHANGED <<positional_stack, locals_stack>>
    PROVE  Abstract!Assign
<1> DEFINE D == {g \in 1..Depth : DeclaredIn(g, n)}
<1>1. /\ Depth \in Nat /\ Depth' = Depth
      /\ Scopes \in Seq(Abstract!Scope) /\ Len(Scopes) = Depth + 1
      /\ \A k \in 1..(Depth + 1) : Scopes[k] = [m \in Names |-> ScopeAt(k, m)]
    BY ScopesType DEF Depth
<1>2. PICK k \in 1..(Depth + 1) : /\ k > 1 => DeclaredIn(k - 1, n)
                                  /\ \A g \in k..Depth : ~DeclaredIn(g, n)
    <2>1. CASE D = {}
        BY <1>1, <2>1
    <2>2. CASE D # {}
        <3>1. PICK g \in D : \A h \in D : h <= g
            <4>1. D \subseteq 1..Depth
                OBVIOUS
            <4> HIDE DEF D
            <4> QED BY <1>1, <2>2, <4>1, LastPosition
        <3>2. g + 1 \in 1..(Depth + 1) /\ (g + 1) - 1 = g /\ DeclaredIn(g, n)
            BY <1>1, <3>1
        <3>3. \A h \in (g + 1)..Depth : ~DeclaredIn(h, n)
            BY <1>1, <3>1
        <3> QED BY <3>2, <3>3
    <2> QED BY <2>1, <2>2
<1>4. \A f, m : DeclaredIn(f, m)' = DeclaredIn(f, m)
    BY DEF DeclaredIn
<1>5. \A f, m : Above(f, m)' = Above(f, m)
    BY <1>1, <1>4 DEF Above
<1>6. Above(k - 1, n) = {}
    BY <1>1, <1>2 DEF Above
<1>7. \A m \in Names : env'[m] = IF m = n THEN v ELSE env[m]
    BY DEF setenv, TypeOK
<1>8. ScopeAt(k, n)' = v /\ ScopeAt(k, n) \in Stored
    <2>1. ValueAt(k - 1, n)' = v
        BY <1>5, <1>6, <1>7, ValueAtNext
    <2>2. ValueAt(k - 1, n) \in Stored
        BY <1>1, ValueAtType
    <2> QED BY <1>2, <1>4, <2>1, <2>2 DEF ScopeAt
<1>9. \A j \in (k + 1)..(Depth + 1) : ScopeAt(j, n) = Free /\ ScopeAt(j, n)' = Free
    <2> SUFFICES ASSUME NEW j \in (k + 1)..(Depth + 1)
                 PROVE  ScopeAt(j, n) = Free /\ ScopeAt(j, n)' = Free
        OBVIOUS
    <2>1. j > 1 /\ j - 1 \in k..Depth
        BY <1>1
    <2>2. ~DeclaredIn(j - 1, n)
        BY <1>2, <2>1
    <2> QED BY <1>4, <2>1, <2>2 DEF ScopeAt
<1>10. ASSUME NEW j \in 1..(Depth + 1), NEW m \in Names
       PROVE  ScopeAt(j, m)' = IF j = k /\ m = n THEN v ELSE ScopeAt(j, m)
    <2>1. CASE m = n /\ j = k
        BY <1>8, <2>1
    <2>2. CASE m = n /\ j > k
        <3>1. j \in (k + 1)..(Depth + 1)
            BY <1>1, <2>2
        <3>2. j # k
            BY <2>2
        <3> QED BY <1>9, <2>2, <3>1, <3>2
    <2>3. CASE m = n /\ j < k
        <3>1. k - 1 \in Above(j - 1, n)
            BY <1>1, <1>2, <2>3 DEF Above
        <3>2. ValueAt(j - 1, n)' = ValueAt(j - 1, n)
            BY <1>1, <1>5, <3>1, ValueKept
        <3>3. j # k
            BY <2>3
        <3> QED BY <1>1, <1>4, <2>3, <3>2, <3>3, ScopeKept
    <2>4. CASE m # n
        <3>1. ValueAt(j - 1, m)' = ValueAt(j - 1, m)
            BY <1>1, <1>5, <1>7, <2>4, ValueKept
        <3> QED BY <1>1, <1>4, <2>4, <3>1, ScopeKept
    <2> QED BY <1>1, <2>1, <2>2, <2>3, <2>4
<1>11. Scopes' = [Scopes EXCEPT ![k][n] = v]
    BY <1>1, <1>10, SetInScope
<1>12. Abstract!Binds(k, n)
    <2>1. Scopes[k][n] # Free
        BY <1>1, <1>8 DEF Stored
    <2>2. \A j \in (k + 1)..(Depth + 1) : Scopes[j][n] = Free
        BY <1>1, <1>9
    <2> QED BY <1>1, <2>1, <2>2 DEF Abstract!Binds, Abstract!Inner
<1>13. k \in 1..Abstract!Inner
    BY <1>1 DEF Abstract!Inner
<1> QED BY <1>11, <1>12, <1>13 DEF Abstract!Assign, Stored

\* A first `local` puts the value it shadows into the frame of the call.
LEMMA DeclareRefined ==
    ASSUME ShortNames, IInv, Distinct, NEW n \in Names, NEW v \in Stored, Local(n, v),
           Depth > 0, ~DeclaredIn(Depth, n)
    PROVE  Abstract!Declare /\ Distinct'
<1> DEFINE d == Depth
           L == locals_stack[d]
           e == [name |-> n, prior |-> env[n]]
           M == Append(L, e)
<1>1. /\ d \in Nat /\ d \in Frames
      /\ Scopes \in Seq(Abstract!Scope) /\ Len(Scopes) = d + 1
      /\ \A k \in 1..(d + 1) : Scopes[k] = [m \in Names |-> ScopeAt(k, m)]
    BY ScopesType DEF IInv, TypeOK, Depth, Frames
<1>2. L \in Seq(Entry) /\ e \in Entry /\ OnceEach(L)
    <2>1. L \in Seq(Entry) /\ OnceEach(L)
        BY <1>1 DEF IInv, TypeOK, Distinct
    <2>2. env[n] \in Stored
        BY DEF IInv, TypeOK
    <2> QED BY <2>1, <2>2 DEF Entry
<1>3. /\ locals_stack' = [locals_stack EXCEPT ![d] = M]
      /\ positional_stack' = positional_stack
      /\ env' = [env EXCEPT ![n] = v]
    BY DEF Local, Remember, StoredName, ShortNames, setenv
<1>4. Depth' = d
    BY <1>3 DEF Depth
<1>5. \A i \in DOMAIN L : L[i].name # n
    BY DEF DeclaredIn
<1> HIDE DEF d, L
<1>6. /\ M \in Seq(Entry) /\ DOMAIN M = 1..(Len(L) + 1) /\ DOMAIN L = 1..Len(L)
      /\ Len(L) \in Nat
      /\ \A i \in 1..Len(L) : M[i] = L[i]
      /\ M[Len(L) + 1] = e /\ e.name = n /\ e.prior = env[n]
    BY <1>2
<1> HIDE DEF M, e
<1>7. OnceEach(M)
    <2> SUFFICES ASSUME NEW i \in 1..(Len(L) + 1), NEW j \in 1..(Len(L) + 1),
                        M[i].name = M[j].name
                 PROVE  i = j
        BY <1>6 DEF OnceEach
    <2>1. \A k \in 1..Len(L) : M[k].name # n
        BY <1>5, <1>6
    <2>2. i = Len(L) + 1 \/ i \in 1..Len(L)
        BY <1>6
    <2>3. j = Len(L) + 1 \/ j \in 1..Len(L)
        BY <1>6
    <2> QED BY <2>1, <2>2, <2>3, <1>2, <1>6 DEF OnceEach
<1>8. \A f \in Frames : locals_stack'[f] = IF f = d THEN M ELSE locals_stack[f]
    BY <1>1, <1>3 DEF IInv, TypeOK
<1>9. Distinct'
    BY <1>7, <1>8 DEF Distinct
<1>10. Kept(M, n) = env[n]
    <2>1. Len(L) + 1 \in DOMAIN M
        BY <1>6
    <2> QED BY <2>1, <1>6, <1>7, KeptIs
<1>11. ASSUME NEW m, m # n PROVE Kept(M, m) = Kept(L, m)
    <2>1. \A x : (\E i \in DOMAIN M : M[i] = [name |-> m, prior |-> x])
                 <=> (\E i \in DOMAIN L : L[i] = [name |-> m, prior |-> x])
        <3> SUFFICES ASSUME NEW x
                     PROVE  (\E i \in DOMAIN M : M[i] = [name |-> m, prior |-> x])
                            <=> (\E i \in DOMAIN L : L[i] = [name |-> m, prior |-> x])
            OBVIOUS
        <3>1. e # [name |-> m, prior |-> x]
            BY <1>6, <1>11
        <3>2. 1..(Len(L) + 1) = (1..Len(L)) \cup {Len(L) + 1}
            BY <1>6
        <3> QED BY <1>6, <3>1, <3>2
    <2> QED BY <2>1 DEF Kept
<1>12. \A f \in Frames, m \in Names :
            DeclaredIn(f, m)' <=> DeclaredIn(f, m) \/ (f = d /\ m = n)
    <2> SUFFICES ASSUME NEW f \in Frames, NEW m \in Names
                 PROVE  DeclaredIn(f, m)' <=> DeclaredIn(f, m) \/ (f = d /\ m = n)
        OBVIOUS
    <2>1. DeclaredIn(f, m)' <=> \E i \in DOMAIN locals_stack'[f] : locals_stack'[f][i].name = m
        BY DEF DeclaredIn
    <2>2. DeclaredIn(f, m) <=> \E i \in DOMAIN locals_stack[f] : locals_stack[f][i].name = m
        BY DEF DeclaredIn
    <2>3. CASE f # d
        BY <1>8, <2>1, <2>2, <2>3
    <2>4. CASE f = d
        <3>1. locals_stack'[f] = M /\ locals_stack[f] = L
            BY <1>8, <2>4 DEF L
        <3>2. 1..(Len(L) + 1) = (1..Len(L)) \cup {Len(L) + 1}
            BY <1>6
        <3> QED BY <1>6, <2>1, <2>2, <2>4, <3>1, <3>2
    <2> QED BY <2>3, <2>4
<1>13. \A f \in 0..d, m \in Names :
            Above(f, m)' = IF m = n /\ f < d THEN Above(f, m) \cup {d} ELSE Above(f, m)
    <2> SUFFICES ASSUME NEW f \in 0..d, NEW m \in Names
                 PROVE  Above(f, m)' = IF m = n /\ f < d THEN Above(f, m) \cup {d}
                                                       ELSE Above(f, m)
        OBVIOUS
    <2>1. Above(f, m)' = {g \in (f + 1)..d : DeclaredIn(g, m)'}
        BY <1>4 DEF Above
    <2>2. Above(f, m) = {g \in (f + 1)..d : DeclaredIn(g, m)}
        BY DEF Above, d
    <2>3. (f + 1)..d \subseteq Frames /\ (f < d <=> d \in (f + 1)..d)
        BY <1>1 DEF Frames
    <2> QED BY <1>12, <2>1, <2>2, <2>3
<1>14. \A m \in Names : env'[m] = IF m = n THEN v ELSE env[m]
    BY <1>3 DEF IInv, TypeOK
<1>15. ASSUME NEW j \in 1..(d + 1), NEW m \in Names
       PROVE  ScopeAt(j, m)' = IF j = d + 1 /\ m = n THEN v ELSE ScopeAt(j, m)
    <2>1. j - 1 \in 0..d /\ j - 1 \in Nat
        BY <1>1
    <2>2. Above(j - 1, m) \subseteq Frames /\ Above(j - 1, m) \subseteq 1..d
          /\ \A g \in Above(j - 1, m) : DeclaredIn(g, m)
        BY <2>1, AboveType DEF IInv, Above, d
    <2>3. \A g \in Frames : ~(m = n /\ g = d) =>
                Kept(locals_stack'[g], m) = Kept(locals_stack[g], m)
        BY <1>8, <1>11 DEF L
    <2>4. CASE m # n
        <3>1. ValueAt(j - 1, m)' = ValueAt(j - 1, m)
            BY <1>13, <1>14, <2>1, <2>2, <2>3, <2>4, ValueKept DEF IInv
        <3>2. j > 1 => (DeclaredIn(j - 1, m)' <=> DeclaredIn(j - 1, m))
            <4>1. j > 1 => j - 1 \in Frames
                BY <1>1, <2>1 DEF Frames
            <4> QED BY <1>12, <2>4, <4>1
        <3> QED BY <2>4, <3>1, <3>2 DEF ScopeAt
    <2>5. CASE m = n /\ j = d + 1
        <3>0. j - 1 = d
            BY <1>1, <2>5
        <3>1. Above(j - 1, m)' = {}
            <4>1. (d + 1)..d = {} /\ ~(d < d)
                BY <1>1
            <4>2. Above(j - 1, m) = {}
                BY <3>0, <4>1 DEF Above, d
            <4> QED BY <1>13, <2>1, <3>0, <4>1, <4>2
        <3>2. ValueAt(j - 1, m)' = v
            BY <1>14, <2>5, <3>1, ValueAtNext
        <3>3. DeclaredIn(j - 1, m)'
            BY <1>1, <1>12, <2>5, <3>0
        <3> QED BY <2>5, <3>2, <3>3 DEF ScopeAt
    <2>6. CASE m = n /\ j # d + 1
        <3>1. j - 1 < d
            BY <1>1, <2>6
        <3>2. j > 1 => (DeclaredIn(j - 1, n)' <=> DeclaredIn(j - 1, n))
            <4>1. j > 1 => j - 1 \in Frames /\ j - 1 # d
                BY <1>1, <2>1, <3>1 DEF Frames
            <4> QED BY <1>12, <4>1
        <3>3. d \notin Above(j - 1, n)
            BY <2>2, <2>6 DEF d
        <3>4. Above(j - 1, n)' = Above(j - 1, n) \cup {d}
            BY <1>13, <2>1, <3>1
        <3>5. ValueAt(j - 1, n)' = ValueAt(j - 1, n)
            <4>1. CASE Above(j - 1, n) = {}
                <5>1. Above(j - 1, n)' = {d}
                    BY <3>4, <4>1
                <5>2. Least({d}) = d
                    <6>1. {d} \subseteq Int /\ d \in {d} /\ \A h \in {d} : d <= h
                        BY <1>1
                    <6> QED BY <6>1, LeastIs
                <5>3. ValueAt(j - 1, n)' = Kept(locals_stack'[d], n)
                    BY <5>1, <5>2, ValueAtNext
                <5>4. ValueAt(j - 1, n) = env[n]
                    BY <4>1, ValueAtAs
                <5> QED BY <1>1, <1>8, <1>10, <5>3, <5>4
            <4>2. CASE Above(j - 1, n) # {}
                <5> DEFINE A == Above(j - 1, n)
                <5>1. A \subseteq 1..d /\ \A g \in A : g < d
                    BY <1>1, <2>2, <2>6, <3>3
                <5>2. Least(A \cup {d}) = Least(A) /\ Least(A) \in A
                    <6>1. A # {} /\ d \in Int
                        BY <1>1, <4>2
                    <6> HIDE DEF A
                    <6>2. Least(A) \in A
                        BY <1>1, <5>1, <6>1, LeastExists
                    <6>3. Least(A \cup {d}) = Least(A)
                        BY <1>1, <5>1, <6>1, LeastOfMore
                    <6> QED BY <6>2, <6>3
                <5>3. ValueAt(j - 1, n)' = Kept(locals_stack'[Least(A)], n)
                    <6>1. Above(j - 1, n)' # {}
                        BY <3>4
                    <6> QED BY <3>4, <5>2, <6>1, ValueAtNext
                <5>4. ValueAt(j - 1, n) = Kept(locals_stack[Least(A)], n)
                    BY <4>2, ValueAtAs
                <5>5. Least(A) \in Frames /\ Least(A) # d
                    BY <2>2, <2>6, <3>3, <5>2
                <5> QED BY <1>8, <5>3, <5>4, <5>5
            <4> QED BY <4>1, <4>2
        <3> QED BY <2>6, <3>2, <3>5 DEF ScopeAt
    <2> QED BY <2>4, <2>5, <2>6
<1>16. Scopes' = [Scopes EXCEPT ![d + 1][n] = v]
    <2>1. d + 1 \in 1..(Depth + 1) /\ Depth = d /\ Depth' = Depth
        BY <1>1, <1>4 DEF d
    <2> QED BY <1>15, <2>1, SetInScope DEF IInv
<1>17. Scopes[d + 1][n] = Free
    <2>1. d + 1 \in 1..(d + 1) /\ d + 1 > 1 /\ (d + 1) - 1 = d
        BY <1>1 DEF d
    <2>2. ScopeAt(d + 1, n) = Free
        BY <2>1 DEF ScopeAt, d
    <2> QED BY <1>1, <2>1, <2>2
<1>18. Abstract!Inner = d + 1 /\ Abstract!Calls > 0
    BY <1>1 DEF Abstract!Inner, Abstract!Calls, Depth
<1> QED BY <1>3, <1>9, <1>16, <1>17, <1>18 DEF Abstract!Declare, Stored

\* Nothing changes but the parameters of the innermost call.
LEMMA ScopesSame ==
    ASSUME UNCHANGED <<env, locals_stack>>, Depth' = Depth
    PROVE  Scopes' = Scopes
BY DEF Scopes, ValueAt, Shadow, DeclaredIn

\* A call has a scope that declares nothing: its frame was left empty.
LEMMA CallRefined ==
    ASSUME IInv, Distinct, NEW args \in Args, Call(args)
    PROVE  Abstract!Call /\ Distinct'
<1> DEFINE d == Depth
           p == Capped(args)
<1>1. /\ d \in Nat /\ d + 1 \in Frames
      /\ Scopes \in Seq(Abstract!Scope) /\ Len(Scopes) = d + 1
      /\ DOMAIN Scopes = 1..(d + 1)
      /\ \A k \in 1..(d + 1) : Scopes[k] = [m \in Names |-> ScopeAt(k, m)]
    BY ScopesType DEF IInv, TypeOK, Call, Depth, Frames
<1>2. locals_stack[d + 1] = << >>
    <2>1. d + 1 > Depth
        BY <1>1
    <2>2. \A f \in Frames : f > Depth => locals_stack[f] = << >>
        BY DEF IInv, FramesMatchCalls
    <2> HIDE DEF d
    <2> QED BY <1>1, <2>1, <2>2
<1>3. locals_stack' = locals_stack /\ env' = env
    BY <1>1, <1>2 DEF Call, IInv, TypeOK
<1>4. /\ Len(positional_stack') = d + 1
      /\ positional_stack = SubSeq(positional_stack', 1, d)
      /\ Depth' = d + 1
    <2> DEFINE q == positional_stack
    <2>1. p \in Seq(Values) /\ q \in Seq(Seq(Values)) /\ Len(q) = d
          /\ positional_stack' = Append(q, p)
        BY CappedType DEF IInv, TypeOK, Call, Depth
    <2> HIDE DEF p, q, d
    <2>2. Len(Append(q, p)) = d + 1 /\ q = SubSeq(Append(q, p), 1, d)
        BY <2>1
    <2> QED BY <2>1, <2>2 DEF Depth, q
<1>5. \A f, m : DeclaredIn(f, m)' <=> DeclaredIn(f, m)
    BY <1>3 DEF DeclaredIn
<1>6. \A m : ~DeclaredIn(d + 1, m)
    BY <1>2 DEF DeclaredIn
<1> HIDE DEF d
<1>7. ASSUME NEW f \in 0..d, NEW m \in Names PROVE Above(f, m)' = Above(f, m)
    <2>1. Above(f, m)' = {g \in (f + 1)..(d + 1) : DeclaredIn(g, m)}
        BY <1>4, <1>5 DEF Above
    <2>2. Above(f, m) = {g \in (f + 1)..d : DeclaredIn(g, m)}
        BY DEF Above, d
    <2>3. (f + 1)..(d + 1) = ((f + 1)..d) \cup {d + 1}
        BY <1>1
    <2> QED BY <1>6, <2>1, <2>2, <2>3
<1>8. ASSUME NEW j \in 1..(d + 1), NEW m \in Names PROVE ScopeAt(j, m)' = ScopeAt(j, m)
    <2>1. j - 1 \in 0..d /\ j - 1 \in Nat
        BY <1>1
    <2>2. ValueAt(j - 1, m)' = ValueAt(j - 1, m)
        BY <1>3, <1>7, <2>1, ValueKept DEF IInv
    <2> QED BY <1>5, <2>2 DEF ScopeAt
<1>9. ASSUME NEW j \in {d + 2}, NEW m \in Names PROVE ScopeAt(j, m)' = Free
    <2>1. j > 1 /\ j - 1 = d + 1
        BY <1>1
    <2>2. ~DeclaredIn(j - 1, m)
        BY <1>6, <2>1
    <2>3. ~DeclaredIn(j - 1, m)'
        BY <1>5, <2>2
    <2> QED BY <2>1, <2>3 DEF ScopeAt
<1>10. Scopes' = Append(Scopes, [m \in Names |-> Free])
    <2> DEFINE S == Scopes
               N == [m \in Names |-> Free]
               T == Append(S, N)
    <2>1. Scopes' = [j \in 1..(d + 2) |-> [m \in Names |-> ScopeAt(j, m)']]
        <3>1. Depth' + 1 = d + 2
            BY <1>1, <1>4
        <3>2. Scopes' = [j \in 1..(Depth' + 1) |-> [m \in Names |-> ScopeAt(j, m)']]
            BY DEF Scopes, ScopeAt
        <3> QED BY <3>1, <3>2
    <2>2. /\ DOMAIN T = 1..(d + 2)
          /\ \A j \in 1..(d + 1) : T[j] = S[j]
          /\ T[d + 2] = N
          /\ T = [j \in 1..(d + 2) |-> T[j]]
        <3>1. S \in Seq(Abstract!Scope) /\ Len(S) = d + 1 /\ N \in Abstract!Scope
            BY <1>1 DEF Abstract!Scope
        <3> HIDE DEF S, N
        <3>2. T \in Seq(Abstract!Scope) /\ Len(T) = d + 2 /\ T[d + 2] = N
            BY <1>1, <3>1
        <3>3. \A j \in 1..(d + 1) : T[j] = S[j]
            BY <1>1, <3>1
        <3> HIDE DEF T
        <3> QED BY <1>1, <3>2, <3>3
    <2> HIDE DEF T
    <2>3. \A j \in 1..(d + 2) : T[j] = [m \in Names |-> ScopeAt(j, m)']
        <3> SUFFICES ASSUME NEW j \in 1..(d + 2)
                     PROVE  T[j] = [m \in Names |-> ScopeAt(j, m)']
            OBVIOUS
        <3>1. CASE j = d + 2
            <4>1. [m \in Names |-> ScopeAt(j, m)'] = N
                BY <1>9, <3>1
            <4> QED BY <2>2, <3>1, <4>1
        <3>2. CASE j # d + 2
            <4>1. j \in 1..(d + 1)
                BY <1>1, <3>2
            <4>2. S[j] = [m \in Names |-> ScopeAt(j, m)]
                BY <1>1, <4>1
            <4>3. [m \in Names |-> ScopeAt(j, m)] = [m \in Names |-> ScopeAt(j, m)']
                BY <1>8, <4>1
            <4> QED BY <2>2, <4>1, <4>2, <4>3
        <3> QED BY <3>1, <3>2
    <2>4. Scopes' = T
        BY <2>1, <2>2, <2>3
    <2> QED BY <2>4 DEF T
<1>11. Abstract!Call
    BY <1>4, <1>10 DEF Abstract!Call, Abstract!Calls, Depth, d
<1>12. Distinct'
    BY <1>3 DEF Distinct
<1> QED BY <1>11, <1>12

\* A return puts back, for each name that the call declared, the value that the
\* scopes further out see.
LEMMA ReturnRefined ==
    ASSUME IInv, Distinct, Return
    PROVE  Abstract!Return /\ Distinct'
<1> DEFINE d == Depth
           L == locals_stack[d]
<1>1. /\ d \in Nat /\ Scopes \in Seq(Abstract!Scope) /\ Len(Scopes) = d + 1
      /\ DOMAIN Scopes = 1..(d + 1)
      /\ \A k \in 1..(d + 1) : Scopes[k] = [m \in Names |-> ScopeAt(k, m)]
    BY ScopesType DEF IInv
<1>2. d > 0 /\ d \in Frames
    <2>1. Len(activations) \in CallsIn(activations)
        BY DEF IInv, TypeOK, Return, Innermost, CallsIn
    <2>2. Cardinality(CallsIn(activations)) # 0
        <3> DEFINE C == CallsIn(activations)
        <3> HIDE DEF C
        <3>1. C # {} /\ IsFiniteSet(C)
            BY <2>1, CallsFinite DEF IInv, C
        <3>2. Cardinality(C) # 0
            BY <3>1, FS_EmptySet
        <3> QED BY <3>2 DEF C
    <2>3. d = Cardinality(CallsIn(activations))
        BY DEF IInv, FramesMatchCalls, CallsIn
    <2> QED BY <1>1, <2>2, <2>3 DEF IInv, TypeOK, Frames
<1>3. L \in Seq(Entry) /\ OnceEach(L)
    BY <1>2 DEF IInv, TypeOK, Distinct
<1>4. /\ locals_stack' = [locals_stack EXCEPT ![d] = << >>]
      /\ env' = Restored(d)
      /\ positional_stack' = SubSeq(positional_stack, 1, d - 1)
    BY DEF Return, PopPositional
<1>5. Depth' = d - 1
    <2> DEFINE q == positional_stack
    <2>1. q \in Seq(Seq(Values)) /\ Len(q) = d
        BY DEF IInv, TypeOK, Depth
    <2> HIDE DEF q, d
    <2>2. Len(SubSeq(q, 1, d - 1)) = d - 1
        BY <1>1, <1>2, <2>1
    <2> QED BY <1>4, <2>2 DEF Depth, q
<1>6. \A f \in Frames : locals_stack'[f] = IF f = d THEN << >> ELSE locals_stack[f]
    BY <1>2, <1>4 DEF IInv, TypeOK
<1>7. Distinct'
    <2>1. OnceEach(<< >>)
        BY DEF OnceEach
    <2> QED BY <1>6, <2>1 DEF Distinct
<1>8. ASSUME NEW m \in Names, DeclaredIn(d, m) PROVE env'[m] = Kept(L, m)
    <2>1. PICK i \in DOMAIN L : L[i].name = m
        BY <1>8 DEF DeclaredIn
    <2> DEFINE Q(k) == k \in DOMAIN L /\ L[k].name = m
                       /\ \A j \in (k + 1)..Len(L) : L[j].name # m
    <2>2. \A k \in DOMAIN L : L[k].name = m => k = i
        BY <1>3, <2>1 DEF OnceEach
    <2>3. Q(i)
        <3> HIDE DEF L
        <3>1. \A j \in (i + 1)..Len(L) : j \in DOMAIN L /\ j # i
            BY <1>3, <2>1
        <3> QED BY <2>1, <2>2, <3>1
    <2>4. env'[m] = L[CHOOSE k \in DOMAIN L : /\ L[k].name = m
                                 /\ \A j \in (k + 1)..Len(L) : L[j].name # m].prior
        BY <1>4, <1>8 DEF Restored
    <2> HIDE DEF L
    <2>5. (CHOOSE k \in DOMAIN L : /\ L[k].name = m
                                 /\ \A j \in (k + 1)..Len(L) : L[j].name # m) = i
        BY <2>1, <2>2, <2>3
    <2>6. env'[m] = L[i].prior
        BY <2>4, <2>5
    <2> QED BY <1>3, <2>1, <2>6, KeptIs
<1>9. ASSUME NEW m \in Names, ~DeclaredIn(d, m) PROVE env'[m] = env[m]
    BY <1>4, <1>9 DEF Restored
<1>10. \A f \in Frames \ {d} : \A m : DeclaredIn(f, m)' = DeclaredIn(f, m)
    BY <1>6 DEF DeclaredIn
<1> HIDE DEF d, L
<1>11. ASSUME NEW f \in 0..(d - 1), NEW m \in Names PROVE Above(f, m)' = Above(f, m) \ {d}
    <2>1. Above(f, m)' = {g \in (f + 1)..(d - 1) : DeclaredIn(g, m)'}
        BY <1>5 DEF Above
    <2>2. Above(f, m) = {g \in (f + 1)..d : DeclaredIn(g, m)}
        BY DEF Above, d
    <2>3. (f + 1)..(d - 1) = ((f + 1)..d) \ {d}
        BY <1>1, <1>2
    <2>4. (f + 1)..(d - 1) \subseteq Frames \ {d}
        BY <1>1, <1>2 DEF Frames
    <2> QED BY <1>10, <2>1, <2>2, <2>3, <2>4
<1>12. ASSUME NEW j \in 1..d, NEW m \in Names PROVE ScopeAt(j, m)' = ScopeAt(j, m)
    <2> DEFINE A == Above(j - 1, m)
    <2>1. j - 1 \in 0..(d - 1) /\ j - 1 \in Nat
        BY <1>1
    <2>2. A \subseteq Frames /\ A \subseteq 1..d
        BY <2>1, AboveType DEF IInv, d
    <2>3. Above(j - 1, m)' = A \ {d}
        BY <1>11, <2>1
    <2>4. j > 1 => DeclaredIn(j - 1, m)' = DeclaredIn(j - 1, m)
        <3>1. j > 1 => j - 1 \in Frames \ {d}
            BY <1>1, <1>2, <2>1 DEF Frames
        <3> QED BY <1>10, <3>1
    <2>5. d \in A <=> DeclaredIn(d, m)
        <3>1. d \in (j - 1 + 1)..d
            BY <1>1
        <3> QED BY <3>1 DEF Above, d
    <2>6. ValueAt(j - 1, m) = IF A = {} THEN env[m] ELSE Kept(locals_stack[Least(A)], m)
        BY ValueAtAs
    <2>7. ValueAt(j - 1, m)' = IF A \ {d} = {} THEN env'[m]
                               ELSE Kept(locals_stack'[Least(A \ {d})], m)
        BY <2>3, ValueAtNext
    <2> HIDE DEF A
    <2>8. A \ {d} # {} => Least(A) = Least(A \ {d}) /\ Least(A) \in Frames \ {d}
        <3> SUFFICES ASSUME A \ {d} # {}
                     PROVE  Least(A) = Least(A \ {d}) /\ Least(A) \in Frames \ {d}
            OBVIOUS
        <3> DEFINE B == A \ {d}
        <3>1. B \subseteq 1..d /\ B # {} /\ B \subseteq Frames \ {d}
            BY <2>2
        <3>6. \A t \in B : t < d
            BY <1>1, <2>2
        <3>2. A = IF d \in A THEN B \cup {d} ELSE B
            OBVIOUS
        <3> HIDE DEF B
        <3>3. Least(B) \in B
            BY <1>1, <3>1, LeastExists
        <3>4. Least(B \cup {d}) = Least(B)
            <4>1. d \in Int
                BY <1>1
            <4> QED BY <1>1, <3>1, <3>6, <4>1, LeastOfMore
        <3>5. Least(A) = Least(B)
            BY <3>2, <3>4
        <3> QED BY <3>1, <3>3, <3>5 DEF B
    <2>9. ValueAt(j - 1, m)' = ValueAt(j - 1, m)
        <3>1. CASE A \ {d} # {}
            <4>1. A # {}
                BY <3>1
            <4>2. locals_stack'[Least(A)] = locals_stack[Least(A)]
                BY <1>6, <2>8, <3>1
            <4> QED BY <2>6, <2>7, <2>8, <3>1, <4>1, <4>2
        <3>2. CASE A = {}
            <4>1. ~DeclaredIn(d, m)
                BY <2>5, <3>2
            <4> QED BY <1>9, <2>6, <2>7, <3>2, <4>1
        <3>3. CASE A = {d}
            <4>1. DeclaredIn(d, m) /\ A # {} /\ A \ {d} = {}
                BY <2>5, <3>3
            <4>2. Least({d}) = d
                <5>1. {d} \subseteq Int /\ d \in {d} /\ \A h \in {d} : d <= h
                    BY <1>1
                <5> QED BY <5>1, LeastIs
            <4> QED BY <1>8, <2>6, <2>7, <3>3, <4>1, <4>2 DEF L
        <3> QED BY <3>1, <3>2, <3>3
    <2> QED BY <2>4, <2>9 DEF ScopeAt
<1>13. Scopes' = SubSeq(Scopes, 1, d)
    <2> DEFINE S == Scopes
               T == SubSeq(S, 1, d)
    <2>1. Scopes' = [j \in 1..d |-> [m \in Names |-> ScopeAt(j, m)']]
        <3>1. Depth' + 1 = d
            BY <1>1, <1>5
        <3>2. Scopes' = [j \in 1..(Depth' + 1) |-> [m \in Names |-> ScopeAt(j, m)']]
            BY DEF Scopes, ScopeAt
        <3> QED BY <3>1, <3>2
    <2>2. T = [j \in 1..d |-> S[j]]
        <3>1. S \in Seq(Abstract!Scope) /\ Len(S) = d + 1
            BY <1>1
        <3> HIDE DEF S
        <3> QED BY <1>1, <3>1
    <2>3. \A j \in 1..d : S[j] = [m \in Names |-> ScopeAt(j, m)']
        BY <1>1, <1>12
    <2> HIDE DEF S, T
    <2>4. Scopes' = T
        BY <2>1, <2>2, <2>3
    <2> QED BY <2>4 DEF T, S
<1>14. Abstract!Inner - 1 = d /\ Abstract!Calls = d /\ d > 0
    BY <1>1, <1>2 DEF Abstract!Inner, Abstract!Calls, Depth, d
<1>15. Abstract!Return
    BY <1>4, <1>13, <1>14 DEF Abstract!Return
<1> QED BY <1>7, <1>15

\* `set --` and `shift` change the parameters of the innermost call.
LEMMA ParamsRefined ==
    ASSUME IInv, Distinct, Depth > 0, NEW p,
           positional_stack' = [positional_stack EXCEPT ![Depth] = p],
           UNCHANGED <<env, locals_stack>>
    PROVE  Abstract!ChangeParams /\ Distinct'
<1> DEFINE q == positional_stack
           r == [q EXCEPT ![Depth] = p]
<1>1. q \in Seq(Seq(Values)) /\ Depth = Len(q)
    BY DEF IInv, TypeOK, Depth
<1>2. Len(r) = Depth /\ SubSeq(r, 1, Depth - 1) = SubSeq(q, 1, Depth - 1)
    <2> DEFINE d == Depth
    <2>1. d = Len(q) /\ d \in Nat /\ d > 0
        BY <1>1
    <2> HIDE DEF q, d
    <2>2. DOMAIN r = 1..d /\ Len(r) = d /\ \A i \in 1..(d - 1) : r[i] = q[i]
        BY <1>1, <2>1 DEF d
    <2> HIDE DEF r
    <2>3. SubSeq(r, 1, d - 1) = SubSeq(q, 1, d - 1)
        BY <1>1, <2>1, <2>2
    <2> QED BY <2>2, <2>3 DEF d
<1>3. Depth' = Depth
    BY <1>2 DEF Depth
<1>4. Scopes' = Scopes
    BY <1>3, ScopesSame
<1>5. Distinct'
    BY DEF Distinct
<1> QED BY <1>2, <1>4, <1>5 DEF Abstract!ChangeParams, Abstract!Calls, Depth

\* What has to be shown of a step.
Refined == Distinct' /\ [Abstract!Next]_<<Scopes, positional_stack>>

\* A step that touches neither variables nor parameters.
LEMMA NothingRefined ==
    ASSUME Distinct, UNCHANGED <<env, positional_stack, locals_stack>>
    PROVE  Refined
<1>1. Scopes' = Scopes
    BY ScopesSame DEF Depth
<1>2. Distinct'
    BY DEF Distinct
<1> QED BY <1>1, <1>2 DEF Refined

\* A step that puts one value into the environment.
LEMMA SetenvRefined ==
    ASSUME IInv, Distinct, NEW n \in Names, NEW v \in Stored, setenv(n, v),
           UNCHANGED <<positional_stack, locals_stack>>
    PROVE  Refined
<1>1. Distinct'
    BY DEF Distinct
<1> QED BY <1>1, AssignRefined DEF IInv, Abstract!Next, Refined

\* At first there is the global scope.
LEMMA InitRefined == Init => Abstract!Init /\ Distinct
<1> SUFFICES ASSUME Init PROVE Abstract!Init /\ Distinct
    OBVIOUS
<1>1. Depth = 0
    BY DEF Init, Depth
<1>2. \A n \in Names : ValueAt(0, n) = Unset
    <2>1. (0 + 1)..0 = {}
        OBVIOUS
    <2>2. \A n \in Names : Above(0, n) = {}
        BY <1>1, <2>1 DEF Above
    <2> QED BY <2>2, ValueAtAs DEF Init
<1>3. Scopes = <<[n \in Names |-> Unset]>>
    <2>1. Scopes = [k \in 1..1 |-> [n \in Names |-> ScopeAt(k, n)]]
        BY <1>1 DEF Scopes, ScopeAt
    <2>2. \A n \in Names : ScopeAt(1, n) = Unset
        BY <1>2 DEF ScopeAt
    <2> QED BY <2>1, <2>2
<1>4. [n \in Names |-> Unset] \in [Names -> Values \cup {Unset}]
    OBVIOUS
<1>5. Abstract!Init
    BY <1>3, <1>4 DEF Abstract!Init, Init
<1>6. Distinct
    BY DEF Distinct, OnceEach, Init
<1> QED BY <1>5, <1>6

\* Each action is a step on the scopes, or none.
LEMMA StepRefined ==
    ASSUME ShortNames, IInv, Distinct, [Next]_vars
    PROVE  Refined
<1>t. TypeOK
    BY DEF IInv
<1>1. ASSUME NEW n \in Names, NEW v \in Stored, setenv(n, v),
             UNCHANGED <<positional_stack, locals_stack>>
      PROVE  Refined
    BY <1>1, SetenvRefined
<1>2. ASSUME UNCHANGED <<env, positional_stack, locals_stack>> PROVE Refined
    BY <1>2, NothingRefined
<1>3. CASE Assign
    BY <1>1, <1>3 DEF Assign, Stored
<1>4. CASE ExportBare
    <2>1. \A n \in Names : (IF env[n] = Unset THEN Empty ELSE env[n]) \in Stored
        BY <1>t DEF TypeOK, Stored
    <2> QED BY <1>1, <1>4, <2>1 DEF ExportBare
<1>5. CASE UnsetName
    BY <1>1, <1>5 DEF UnsetName, Stored
<1>6. CASE LocalRefused \/ CallTooDeep
    BY <1>2, <1>6 DEF LocalRefused, CallTooDeep
<1>7. CASE Return
    BY <1>7, ReturnRefined DEF Refined, Abstract!Next
<1>8. CASE SetParams
    <2>1. CASE Depth = 0
        BY <1>2, <1>8, <2>1 DEF SetParams
    <2>2. CASE Depth # 0
        <3>1. Depth > 0
            BY <1>t, <2>2 DEF TypeOK, Depth
        <3> QED BY <1>8, <2>2, <3>1, ParamsRefined DEF SetParams, Refined, Abstract!Next
    <2> QED BY <2>1, <2>2
<1>9. CASE Shift
    <2>1. PICK n \in 0..(MaxParams + 1) :
            IF ShiftRefused(n)
            THEN status' = 1 /\ UNCHANGED positional_stack
            ELSE /\ positional_stack' = [positional_stack EXCEPT ![Depth] =
                                            SubSeq(@, n + 1, Len(@))]
                 /\ status' = 0
        BY <1>9 DEF Shift
    <2>2. CASE ShiftRefused(n)
        BY <1>2, <1>9, <2>1, <2>2 DEF Shift
    <2>3. CASE ~ShiftRefused(n)
        <3> DEFINE p == SubSeq(positional_stack[Depth], n + 1, Len(positional_stack[Depth]))
        <3>1. Depth > 0
            BY <1>t, <2>3 DEF TypeOK, Depth, ShiftRefused
        <3>2. positional_stack' = [positional_stack EXCEPT ![Depth] = p]
            BY <2>1, <2>3
        <3> HIDE DEF p
        <3> QED BY <1>9, <3>1, <3>2, ParamsRefined DEF Shift, Refined, Abstract!Next
    <2> QED BY <2>2, <2>3
<1>10. CASE ForEnd
    <2>1. Innermost \in Activation /\ Len(activations) \in Nat \ {0}
        BY <1>10, <1>t DEF ForEnd, TypeOK, Innermost, Activation
    <2>2. Innermost.name \in Names /\ Innermost.saved \in Stored
        BY <2>1 DEF Activation, Calls, Loop, Stored
    <2> QED BY <1>1, <1>10, <2>2 DEF ForEnd
<1>11. ASSUME NEW n \in Names, NEW v \in Stored, Local(n, v) PROVE Refined
    <2>1. CASE DeclaredIn(Depth, n)
        <3>1. (IF v = Unset THEN env[n] ELSE v) \in Stored
            BY <1>t DEF TypeOK
        <3> QED BY <1>1, <1>11, <2>1, <3>1 DEF Local
    <2>2. CASE ~DeclaredIn(Depth, n)
        <3>1. Depth > 0
            BY <1>t, <1>11 DEF Local, LocalFails, TypeOK, Depth
        <3> QED BY <1>11, <2>2, <3>1, DeclareRefined DEF Refined, Abstract!Next
    <2> QED BY <2>1, <2>2
<1>12. ASSUME NEW args \in Args, Call(args) PROVE Refined
    BY <1>12, CallRefined DEF Refined, Abstract!Next
<1>13. ASSUME NEW n \in Names, ForStart(n) PROVE Refined
    BY <1>2, <1>13 DEF ForStart
<1>14. ASSUME NEW v \in Values, ForWord(v) PROVE Refined
    <2>1. Innermost \in Activation
        BY <1>14, <1>t DEF ForWord, TypeOK, Innermost, Activation
    <2>2. Innermost.name \in Names /\ v \in Stored
        BY <2>1 DEF Activation, Calls, Loop, Stored
    <2> QED BY <1>1, <1>14, <2>2 DEF ForWord
<1>15. CASE UNCHANGED vars
    BY <1>2, <1>15 DEF vars
<1> QED
    BY <1>3, <1>4, <1>5, <1>6, <1>7, <1>8, <1>9, <1>10, <1>11, <1>12, <1>13, <1>14, <1>15
    DEF Next

\* One environment, with the values that `local` shadows kept in frames and put
\* back by the return, gives each call the variables of its own scope, and the
\* parameters too: for every limit on calls and locals, and whatever the scripts
\* do, as long as no name is cut when it is remembered.
THEOREM ScopesRefinedCorrect ==
    ASSUME ShortNames
    PROVE  Spec => ScopesRefined
<1>1. Init => Abstract!Init /\ Distinct
    BY InitRefined
<1>2. IInv /\ Distinct /\ [Next]_vars
      => Distinct' /\ [Abstract!Next]_<<Scopes, positional_stack>>
    BY StepRefined DEF Refined
<1>3. Spec => []IInv
    BY Invariant
<1> QED BY <1>1, <1>2, <1>3, PTL DEF Spec, ScopesRefined, Abstract!Spec
=============================================================================
