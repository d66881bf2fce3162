------------------------- MODULE LoopControlProofs -------------------------
(***************************************************************************)
(* What holds of the interpreter for every bound on loops, calls, levels,  *)
(* spans and the stack.  The steps that preserve the invariants are        *)
(* grouped by what they do to the stack: Enter pushes a frame, GoOn moves  *)
(* the one at the top on, Return pops it, Take leaves their shape.         *)
(***************************************************************************)
EXTENDS LoopControl, FiniteSetTheorems, FunctionTheorems, TLAPS

USE LoopControlAssumption DEF Blocks, Commands, LoopKinds

-----------------------------------------------------------------------------
(* Frames and stacks.                                                      *)

Stacks == {s \in Seq(Frame) : Len(s) >= 1 /\ s[1].kind = "script"}

LEMMA TopType == ASSUME stack \in Stacks PROVE Top \in Frame /\ Len(stack) \in Nat \ {0}
BY DEF Stacks, Top

LEMMA NewType ==
    ASSUME NEW kind \in {"script", "chain", "function"} \cup Blocks,
           NEW phase \in {"head", "condition", "body"}
    PROVE  /\ New(kind, phase) \in Frame
           /\ New(kind, phase).kind = kind
           /\ New(kind, phase).phase = phase
BY DEF New, Frame

\* A statement of the main loop is not counted, any other only while some is left.
Countable == Len(stack) = 1 \/ Top.left > 0

LEMMA TakeStack ==
    ASSUME stack \in Stacks, Countable
    PROVE  /\ Take(stack) \in Stacks
           /\ Len(Take(stack)) = Len(stack)
           /\ \A i \in 1..Len(stack) : /\ Take(stack)[i].kind = stack[i].kind
                                       /\ Take(stack)[i].phase = stack[i].phase
<1> DEFINE n == IF Len(stack) = 1 THEN Top.left ELSE Top.left - 1
           f == [Top EXCEPT !.left = n]
<1>1. Top \in Frame /\ Len(stack) \in Nat \ {0}
    BY TopType
<1>2. n \in Nat
    BY <1>1 DEF Countable, Frame
<1>3. f \in Frame /\ f.kind = Top.kind /\ f.phase = Top.phase
    <2> HIDE DEF n
    <2> QED BY <1>1, <1>2 DEF Frame
<1>4. Take(stack) = [stack EXCEPT ![Len(stack)] = f]
    BY <1>1 DEF Take, Top, Stacks
<1> HIDE DEF f
<1> QED BY <1>1, <1>3, <1>4 DEF Stacks, Top

LEMMA TakeLoops ==
    ASSUME stack \in Stacks, Countable
    PROVE  /\ Loops(Take(stack)) = Loops(stack)
           /\ Bodies(Take(stack)) = Bodies(stack)
<1>1. DOMAIN Take(stack) = DOMAIN stack /\ DOMAIN stack = 1..Len(stack)
    BY TakeStack DEF Stacks
<1>2. \A i \in DOMAIN stack : /\ Take(stack)[i].kind = stack[i].kind
                              /\ Take(stack)[i].phase = stack[i].phase
    BY TakeStack, <1>1
<1> HIDE DEF LoopKinds
<1>3. Loops(Take(stack)) = Loops(stack)
    BY <1>1, <1>2 DEF Loops
<1> QED BY <1>1, <1>2, <1>3 DEF Loops, Bodies

LEMMA EnterStack ==
    ASSUME stack \in Stacks, Countable, NEW f \in Frame, Enter(f)
    PROVE  /\ stack' \in Stacks
           /\ Loops(stack') = IF f.kind \in LoopKinds
                              THEN Loops(stack) \cup {Len(stack) + 1} ELSE Loops(stack)
           /\ Bodies(stack') = IF f.kind \in LoopKinds /\ f.phase = "body"
                               THEN Bodies(stack) \cup {Len(stack) + 1} ELSE Bodies(stack)
<1> DEFINE t == Take(stack)
           n == Len(stack)
<1>1. t \in Seq(Frame) /\ Len(t) = n /\ n \in Nat \ {0} /\ t[1].kind = "script"
    BY TakeStack, TopType DEF Stacks
<1>2. stack' = Append(t, f)
    BY DEF Enter
<1>3. Loops(t) = Loops(stack) /\ Bodies(t) = Bodies(stack)
    BY TakeLoops
<1> HIDE DEF t, n, LoopKinds
<1>4. /\ stack' \in Seq(Frame)
      /\ Len(stack') = n + 1
      /\ \A i \in 1..n : stack'[i] = t[i]
      /\ stack'[n + 1] = f
    BY <1>1, <1>2
<1>5. DOMAIN stack' = 1..(n + 1) /\ DOMAIN t = 1..n
    BY <1>1, <1>4
<1>6. stack' \in Stacks
    BY <1>1, <1>4 DEF Stacks
<1>7. 1..(n + 1) = (1..n) \cup {n + 1} /\ n + 1 \notin 1..n
    BY <1>1
<1>8. Loops(stack') = IF f.kind \in LoopKinds THEN Loops(t) \cup {n + 1} ELSE Loops(t)
    BY <1>4, <1>5, <1>7 DEF Loops
<1>9. Bodies(stack') = IF f.kind \in LoopKinds /\ f.phase = "body"
                       THEN Bodies(t) \cup {n + 1} ELSE Bodies(t)
    BY <1>4, <1>5, <1>7, <1>8 DEF Loops, Bodies
<1> QED BY <1>3, <1>6, <1>8, <1>9 DEF n

LEMMA GoOnStack ==
    ASSUME stack \in Stacks, NEW f \in Frame, f.kind = Top.kind, GoOn(f)
    PROVE  /\ stack' \in Stacks
           /\ Loops(stack') = Loops(stack)
           /\ Bodies(stack') = IF f.kind \in LoopKinds /\ f.phase = "body"
                               THEN Bodies(stack) \cup {Len(stack)}
                               ELSE Bodies(stack) \ {Len(stack)}
<1> DEFINE n == Len(stack)
<1>1. n \in Nat \ {0} /\ stack \in Seq(Frame) /\ stack[1].kind = "script"
    BY TopType DEF Stacks
<1>2. /\ stack' \in Seq(Frame)
      /\ Len(stack') = n
      /\ \A i \in 1..n : stack'[i] = IF i = n THEN f ELSE stack[i]
    BY <1>1 DEF GoOn
<1> HIDE DEF LoopKinds
<1>3. DOMAIN stack' = 1..n /\ DOMAIN stack = 1..n
    BY <1>1, <1>2
<1>4. f.kind = stack[n].kind
    BY DEF Top
<1> HIDE DEF n
<1>5. stack' \in Stacks
    BY <1>1, <1>2, <1>4 DEF Stacks
<1>6. Loops(stack') = Loops(stack)
    BY <1>2, <1>3, <1>4 DEF Loops
<1>7. Bodies(stack') = IF f.kind \in LoopKinds /\ f.phase = "body"
                       THEN Bodies(stack) \cup {n} ELSE Bodies(stack) \ {n}
    BY <1>1, <1>2, <1>3, <1>4, <1>6 DEF Loops, Bodies
<1> QED BY <1>5, <1>6, <1>7 DEF n

LEMMA ReturnStack ==
    ASSUME stack \in Stacks, NEW s, Return(s)
    PROVE  /\ stack' \in Stacks
           /\ Loops(stack') = Loops(stack) \ {Len(stack)}
           /\ Bodies(stack') = Bodies(stack) \ {Len(stack)}
<1> DEFINE n == Len(stack)
<1>1. n \in Nat /\ n > 1 /\ stack \in Seq(Frame) /\ stack[1].kind = "script"
    BY DEF Stacks, Return
<1>2. stack' = SubSeq(stack, 1, n - 1)
    BY DEF Return, Under
<1>3. /\ stack' \in Seq(Frame)
      /\ Len(stack') = n - 1
      /\ \A i \in 1..(n - 1) : stack'[i] = stack[i]
    BY <1>1, <1>2
<1> HIDE DEF LoopKinds, n
<1>4. DOMAIN stack' = 1..(n - 1) /\ DOMAIN stack = 1..n
    BY <1>1, <1>3 DEF n
<1>5. stack' \in Stacks
    BY <1>1, <1>3 DEF Stacks
<1>6. 1..(n - 1) = (1..n) \ {n}
    BY <1>1
<1>7. Loops(stack') = Loops(stack) \ {n}
    BY <1>3, <1>4, <1>6 DEF Loops
<1>8. Bodies(stack') = Bodies(stack) \ {n}
    BY <1>3, <1>4, <1>6, <1>7 DEF Loops, Bodies
<1> QED BY <1>5, <1>7, <1>8 DEF n

LEMMA LoopsFinite ==
    ASSUME stack \in Stacks
    PROVE  /\ IsFiniteSet(Loops(stack)) /\ Cardinality(Loops(stack)) \in Nat
           /\ IsFiniteSet(Bodies(stack)) /\ Cardinality(Bodies(stack)) \in Nat
           /\ Bodies(stack) \subseteq Loops(stack)
           /\ Len(stack) \in Nat
           /\ Len(stack) + 1 \notin Loops(stack)
           /\ Len(stack) \in Loops(stack) <=> Top.kind \in LoopKinds
           /\ Len(stack) \in Bodies(stack) <=>
                Top.kind \in LoopKinds /\ Top.phase = "body"
<1> HIDE DEF LoopKinds
<1>1. Len(stack) \in Nat \ {0} /\ DOMAIN stack = 1..Len(stack)
    BY DEF Stacks
<1>2. Loops(stack) \subseteq 1..Len(stack) /\ Bodies(stack) \subseteq Loops(stack)
    BY <1>1 DEF Loops, Bodies
<1>3. IsFiniteSet(1..Len(stack))
    BY <1>1, FS_Interval
<1>4. IsFiniteSet(Loops(stack))
    BY <1>2, <1>3, FS_Subset
<1>5. IsFiniteSet(Bodies(stack))
    BY <1>2, <1>4, FS_Subset
<1>6. Len(stack) \in Loops(stack) <=> Top.kind \in LoopKinds
    BY <1>1 DEF Loops, Top
<1>7. Len(stack) \in Bodies(stack) <=> Top.kind \in LoopKinds /\ Top.phase = "body"
    BY <1>6 DEF Bodies, Top
<1>8. Len(stack) + 1 \notin Loops(stack)
    BY <1>1, <1>2
<1> QED BY <1>1, <1>2, <1>4, <1>5, <1>6, <1>7, <1>8, FS_CardinalityType

LEMMA SkipType ==
    ASSUME NEW w \in Seq(Nat)
    PROVE  SkipRawWord(w) \in Seq(Nat) /\ NextWord(w) \in Seq(Nat)
<1> DEFINE S == {i \in DOMAIN w : w[i] = w[1]}
<1>1. IsFiniteSet(DOMAIN w)
    BY FS_Interval
<1>2. Cardinality(S) \in Nat
    BY <1>1, FS_Subset, FS_CardinalityType
<1>3. SkipRawWord(w) = SubSeq(w, 1 + Cardinality(S), Len(w))
    BY DEF SkipRawWord
<1> HIDE DEF S
<1> QED BY <1>2, <1>3 DEF NextWord

-----------------------------------------------------------------------------
(* Type correctness.                                                       *)

LEMMA CountableAt == ASSUME stack \in Stacks, AtStatement \/ AtSegment PROVE Countable
BY DEF AtStatement, AtSegment, Countable

LEMMA ReturnTypes ==
    ASSUME TypeOK, NEW s \in {0, 1}, Return(s)
    PROVE  stack' \in Stacks /\ status' \in {0, 1} /\ last_status' \in {0, 1}
BY ReturnStack DEF TypeOK, Stacks, Return

LEMMA TopTypes ==
    ASSUME TypeOK
    PROVE  /\ Top \in Frame /\ Len(stack) \in Nat \ {0} /\ stack \in Stacks
           /\ Top.rounds + 1 \in Nat
           /\ SkipRawWord(Top.words) \in Seq(Nat)
           /\ NextWord(Top.words) \in Seq(Nat)
           /\ MaxSpan \in Nat /\ 0 \in Nat /\ 0 \in {0, 1} /\ status \in {0, 1}
<1>1. Top \in Frame /\ stack \in Stacks
    BY TopType DEF TypeOK, Stacks
<1> QED BY <1>1, TopType, SkipType DEF Frame, TypeOK

\* What the end of a span that does not return does to the frame at the top.
LEMMA GoOnTypes ==
    ASSUME TypeOK, NEW phase \in {"head", "condition", "body"}, NEW g,
           GoOn(g),
           \/ g = [Top EXCEPT !.left = 0] /\ phase = Top.phase
           \/ g = [Top EXCEPT !.phase = phase, !.left = MaxSpan]
           \/ g = [Top EXCEPT !.phase = phase, !.left = MaxSpan, !.rounds = Top.rounds + 1]
           \/ g = [Top EXCEPT !.phase = phase, !.left = MaxSpan, !.result = status]
           \/ g = [Top EXCEPT !.phase = phase, !.result = status, !.words = SkipRawWord(Top.words)]
           \/ g = [Top EXCEPT !.phase = phase, !.result = status, !.words = NextWord(Top.words)]
    PROVE  /\ stack' \in Stacks
           /\ Loops(stack') = Loops(stack)
           /\ Bodies(stack') = IF Top.kind \in LoopKinds /\ phase = "body"
                               THEN Bodies(stack) \cup {Len(stack)}
                               ELSE Bodies(stack) \ {Len(stack)}
<1> DEFINE r == Top.rounds + 1
           w1 == SkipRawWord(Top.words)
           w2 == NextWord(Top.words)
<1> HIDE DEF r, w1, w2
<1>1. Top \in Frame /\ stack \in Stacks /\ MaxSpan \in Nat /\ status \in {0, 1}
      /\ r \in Nat /\ w1 \in Seq(Nat) /\ w2 \in Seq(Nat)
    BY TopTypes DEF r, w1, w2
<1>2. g \in Frame /\ g.kind = Top.kind /\ g.phase = phase
    <2>1. CASE g = [Top EXCEPT !.left = 0] /\ phase = Top.phase
        BY <1>1, <2>1 DEF Frame
    <2>2. CASE g = [Top EXCEPT !.phase = phase, !.left = MaxSpan]
        BY <1>1, <2>2 DEF Frame
    <2>3. CASE g = [Top EXCEPT !.phase = phase, !.left = MaxSpan, !.rounds = r]
        BY <1>1, <2>3 DEF Frame
    <2>4. CASE g = [Top EXCEPT !.phase = phase, !.left = MaxSpan, !.result = status]
        BY <1>1, <2>4 DEF Frame
    <2>5. CASE g = [Top EXCEPT !.phase = phase, !.result = status, !.words = w1]
        BY <1>1, <2>5 DEF Frame
    <2>6. CASE g = [Top EXCEPT !.phase = phase, !.result = status, !.words = w2]
        BY <1>1, <2>6 DEF Frame
    <2> QED BY <2>1, <2>2, <2>3, <2>4, <2>5, <2>6 DEF r, w1, w2
<1> QED BY <1>1, <1>2, GoOnStack

-----------------------------------------------------------------------------
(* What a step can do to the loops on the stack and to the signal.         *)

Typed == stack' \in Stacks /\ status' \in {0, 1} /\ last_status' \in {0, 1}

Depth(d) == active_loop_depth' = active_loop_depth + d

Stays ==
    /\ Loops(stack') = Loops(stack) /\ Bodies(stack') = Bodies(stack)
    /\ Depth(0) /\ UNCHANGED signal

Raises ==
    /\ Loops(stack') = Loops(stack) /\ Bodies(stack') = Bodies(stack)
    /\ Depth(0)
    /\ loop_signal' \in {"break", "continue"}
    /\ loop_signal_level' \in 1..MaxLevel
    /\ MayRaise(loop_signal_level')

Begins ==
    /\ Loops(stack') = Loops(stack) \cup {Len(stack) + 1}
    /\ Bodies(stack') = Bodies(stack)
    /\ Depth(1) /\ UNCHANGED signal

StartsBody ==
    /\ Loops(stack') = Loops(stack)
    /\ Bodies(stack') = Bodies(stack) \cup {Len(stack)}
    /\ Depth(0) /\ UNCHANGED signal

Finishes ==
    /\ Top.kind \in LoopKinds /\ Top.phase # "body"
    /\ Loops(stack') = Loops(stack) \ {Len(stack)}
    /\ Bodies(stack') = Bodies(stack) \ {Len(stack)}
    /\ Depth(-1) /\ UNCHANGED signal

BreaksOut ==
    /\ Top.kind \in LoopKinds /\ Top.phase = "body"
    /\ LeavesLoop /\ ConsumeSignal
    /\ Loops(stack') = Loops(stack) \ {Len(stack)}
    /\ Bodies(stack') = Bodies(stack) \ {Len(stack)}
    /\ Depth(-1)

GoesRound ==
    /\ ~LeavesLoop /\ ConsumeSignal
    /\ Loops(stack') = Loops(stack)
    /\ Bodies(stack') = Bodies(stack) \ {Len(stack)}
    /\ Depth(0)

Effect == Stays \/ Raises \/ Begins \/ StartsBody \/ Finishes \/ BreaksOut \/ GoesRound

\* The steps that return to another activation without ending a loop.
LEMMA ReturnEffect ==
    ASSUME TypeOK, NEW s \in {0, 1}, Return(s), Top.kind \notin LoopKinds,
           UNCHANGED <<signal, active_loop_depth>>
    PROVE  Typed /\ Effect
<1>1. stack \in Stacks
    BY TopTypes
<1>2. Loops(stack) \ {Len(stack)} = Loops(stack) /\ Bodies(stack) \ {Len(stack)} = Bodies(stack)
    BY <1>1, LoopsFinite
<1>3. Loops(stack') = Loops(stack) /\ Bodies(stack') = Bodies(stack)
    BY <1>1, <1>2, ReturnStack
<1>4. Stays
    BY <1>3 DEF Stays, Depth, TypeOK
<1> QED BY <1>4, ReturnTypes DEF Typed, Effect

\* The steps that push a frame that is not a loop's.
LEMMA EnterEffect ==
    ASSUME TypeOK, Countable, NEW f \in Frame, f.kind \notin LoopKinds, Enter(f),
           status' \in {0, 1}, last_status' \in {0, 1},
           UNCHANGED <<signal, active_loop_depth>>
    PROVE  Typed /\ Effect
<1>1. stack \in Stacks
    BY TopTypes
<1> QED BY <1>1, EnterStack DEF Typed, Effect, Stays, Depth, TypeOK

LEMMA TakeEffect ==
    ASSUME TypeOK, Countable, stack' = Take(stack),
           status' \in {0, 1}, last_status' \in {0, 1},
           UNCHANGED <<signal, active_loop_depth>>
    PROVE  Typed /\ Effect
<1>1. stack \in Stacks
    BY TopTypes
<1> QED BY <1>1, TakeStack, TakeLoops DEF Typed, Effect, Stays, Depth, TypeOK

LEMMA BeginEffect ==
    ASSUME TypeOK, Countable, NEW f \in Frame, f.kind \in LoopKinds, f.phase # "body",
           Enter(f), Depth(1), status' \in {0, 1}, last_status' \in {0, 1}, UNCHANGED signal
    PROVE  Typed /\ Effect
<1>1. stack \in Stacks
    BY TopTypes
<1> QED BY <1>1, EnterStack DEF Typed, Effect, Begins

LEMMA StatementEffect == ASSUME TypeOK, Statement PROVE Typed /\ Effect
<1>1. AtStatement /\ Countable /\ status \in {0, 1} /\ last_status \in {0, 1}
    BY CountableAt, TopTypes DEF TypeOK, Statement, StartIf, StartCase, NoClauseMatches,
       StartLoop, StartFor, StartLine, Malformed, LineRejected
<1>2. CASE StartIf
    BY <1>1, <1>2, NewType, EnterEffect DEF StartIf
<1>3. CASE StartCase
    BY <1>1, <1>3, NewType, EnterEffect DEF StartCase
<1>4. CASE NoClauseMatches
    BY <1>1, <1>4, TakeEffect DEF NoClauseMatches
<1>5. CASE StartLoop
    <2>1. PICK kind \in Constructs \cap {"while", "until"} : Enter(New(kind, "condition"))
        BY <1>5 DEF StartLoop
    <2> QED BY <1>1, <1>5, <2>1, NewType, BeginEffect DEF StartLoop, Depth
<1>6. CASE StartFor
    <2>1. PICK words \in WordLists : Enter([New("for", "head") EXCEPT !.words = words])
        BY <1>6 DEF StartFor
    <2> DEFINE f == [New("for", "head") EXCEPT !.words = words]
    <2>2. f \in Frame /\ f.kind = "for" /\ f.phase = "head"
        BY <2>1 DEF New, Frame
    <2> HIDE DEF f
    <2> QED BY <1>1, <1>6, <2>1, <2>2, BeginEffect DEF StartFor, Depth, f
<1>7. CASE StartLine
    BY <1>1, <1>7, NewType, EnterEffect DEF StartLine
<1>8. CASE Malformed
    BY <1>1, <1>8, TakeEffect DEF Malformed
<1>9. CASE LineRejected
    BY <1>1, <1>9, TakeEffect DEF LineRejected
<1> QED BY <1>2, <1>3, <1>4, <1>5, <1>6, <1>7, <1>8, <1>9 DEF Statement

LEMMA LeaveEffect ==
    ASSUME TypeOK, NEW s \in {0, 1}, LeaveLoop(s), Top.kind \in LoopKinds,
           \/ Top.phase # "body" /\ UNCHANGED signal
           \/ Top.phase = "body" /\ LeavesLoop /\ ConsumeSignal
    PROVE  Typed /\ Effect
<1>1. stack \in Stacks /\ Return(s)
    BY TopTypes DEF LeaveLoop
<1>2. /\ Loops(stack') = Loops(stack) \ {Len(stack)}
      /\ Bodies(stack') = Bodies(stack) \ {Len(stack)}
    BY <1>1, ReturnStack
<1>3. Depth(-1)
    BY DEF LeaveLoop, Depth, TypeOK
<1>4. Finishes \/ BreaksOut
    BY <1>2, <1>3 DEF Finishes, BreaksOut
<1> QED BY <1>1, <1>4, ReturnTypes DEF Typed, Effect

LEMMA IfDecidesEffect == ASSUME TypeOK, IfDecides PROVE Typed /\ Effect
<1>1. stack \in Stacks /\ Top.kind = "if" /\ status \in {0, 1} /\ last_status \in {0, 1}
    BY TopTypes DEF IfDecides, TypeOK
<1>2. Bodies(stack) \ {Len(stack)} = Bodies(stack)
    BY <1>1, LoopsFinite
<1>3. CASE Return(0)
    BY <1>1, <1>3, ReturnEffect DEF IfDecides
<1>4. ASSUME NEW phase \in {"condition", "body"},
             \/ GoOn([Top EXCEPT !.phase = phase, !.left = MaxSpan])
             \/ GoOn([Top EXCEPT !.phase = phase, !.left = MaxSpan, !.rounds = Top.rounds + 1])
      PROVE  stack' \in Stacks /\ Loops(stack') = Loops(stack) /\ Bodies(stack') = Bodies(stack)
    BY <1>1, <1>2, <1>4, GoOnTypes
<1>5. CASE \E phase \in {"condition", "body"} :
              \/ GoOn([Top EXCEPT !.phase = phase, !.left = MaxSpan])
              \/ GoOn([Top EXCEPT !.phase = phase, !.left = MaxSpan, !.rounds = Top.rounds + 1])
    <2>1. stack' \in Stacks /\ Loops(stack') = Loops(stack) /\ Bodies(stack') = Bodies(stack)
        BY <1>4, <1>5
    <2>2. UNCHANGED <<signal, active_loop_depth>>
          /\ ((UNCHANGED <<status, last_status>>) \/ (status' = 0 /\ UNCHANGED last_status) \/ Return(0))
        BY DEF IfDecides
    <2> QED BY <1>1, <1>3, <2>1, <2>2 DEF Typed, Effect, Stays, Depth, TypeOK
<1> QED BY <1>3, <1>5 DEF IfDecides

LEMMA LoopConditionEffect == ASSUME TypeOK, LoopConditionEnds PROVE Typed /\ Effect
<1>1. /\ stack \in Stacks /\ Top.kind \in LoopKinds /\ Top.phase = "condition"
      /\ status \in {0, 1} /\ last_status \in {0, 1} /\ Top.result \in {0, 1} /\ UNCHANGED signal
    BY TopTypes DEF LoopConditionEnds, TypeOK, Frame
<1>2. CASE LeaveLoop(Top.result)
    BY <1>1, <1>2, LeaveEffect
<1>3. CASE /\ GoOn([Top EXCEPT !.phase = "body", !.left = MaxSpan, !.rounds = Top.rounds + 1])
           /\ status' = 0
           /\ UNCHANGED <<active_loop_depth, last_status>>
    <2>1. stack' \in Stacks /\ Loops(stack') = Loops(stack)
          /\ Bodies(stack') = Bodies(stack) \cup {Len(stack)}
        BY <1>1, <1>3, GoOnTypes
    <2> QED BY <1>1, <1>3, <2>1 DEF Typed, Effect, StartsBody, Depth, TypeOK
<1> QED BY <1>2, <1>3 DEF LoopConditionEnds

LEMMA LoopBodyEffect == ASSUME TypeOK, LoopBodyEnds PROVE Typed /\ Effect
<1>1. /\ stack \in Stacks /\ Top.kind \in LoopKinds /\ Top.phase = "body"
      /\ status \in {0, 1} /\ last_status \in {0, 1} /\ ConsumeSignal
    BY TopTypes DEF LoopBodyEnds, TypeOK
<1>2. CASE LeavesLoop /\ LeaveLoop(status)
    BY <1>1, <1>2, LeaveEffect
<1>3. CASE /\ ~LeavesLoop
           /\ GoOn([Top EXCEPT !.phase = "condition", !.left = MaxSpan, !.result = status])
           /\ status' = 0
           /\ UNCHANGED <<active_loop_depth, last_status>>
    <2>1. stack' \in Stacks /\ Loops(stack') = Loops(stack)
          /\ Bodies(stack') = Bodies(stack) \ {Len(stack)}
        BY <1>1, <1>3, GoOnTypes
    <2> QED BY <1>1, <1>3, <2>1 DEF Typed, Effect, GoesRound, Depth, TypeOK
<1> QED BY <1>2, <1>3 DEF LoopBodyEnds

LEMMA ForHeadEffect == ASSUME TypeOK, ForHead PROVE Typed /\ Effect
<1>1. /\ stack \in Stacks /\ Top.kind \in LoopKinds /\ Top.phase = "head"
      /\ status \in {0, 1} /\ last_status \in {0, 1} /\ Top.result \in {0, 1} /\ UNCHANGED signal
    BY TopTypes DEF ForHead, TypeOK, Frame
<1>2. CASE LeaveLoop(Top.result)
    BY <1>1, <1>2, LeaveEffect
<1>3. CASE /\ GoOn([Top EXCEPT !.phase = "body", !.left = MaxSpan])
           /\ status' = 0
           /\ UNCHANGED <<active_loop_depth, last_status>>
    <2>1. stack' \in Stacks /\ Loops(stack') = Loops(stack)
          /\ Bodies(stack') = Bodies(stack) \cup {Len(stack)}
        BY <1>1, <1>3, GoOnTypes
    <2> QED BY <1>1, <1>3, <2>1 DEF Typed, Effect, StartsBody, Depth, TypeOK
<1> QED BY <1>2, <1>3 DEF ForHead

LEMMA ForBodyEffect == ASSUME TypeOK, ForBodyEnds PROVE Typed /\ Effect
<1>1. /\ stack \in Stacks /\ Top.kind \in LoopKinds /\ Top.phase = "body"
      /\ status \in {0, 1} /\ last_status \in {0, 1} /\ ConsumeSignal
    BY TopTypes DEF ForBodyEnds, TypeOK
<1>2. CASE LeavesLoop /\ LeaveLoop(status)
    BY <1>1, <1>2, LeaveEffect
<1>3. CASE /\ ~LeavesLoop
           /\ \/ GoOn([Top EXCEPT !.phase = "head", !.result = status,
                                  !.words = SkipRawWord(Top.words)])
              \/ GoOn([Top EXCEPT !.phase = "head", !.result = status,
                                  !.words = NextWord(Top.words)])
           /\ UNCHANGED <<status, active_loop_depth, last_status>>
    <2>1. stack' \in Stacks /\ Loops(stack') = Loops(stack)
          /\ Bodies(stack') = Bodies(stack) \ {Len(stack)}
        BY <1>1, <1>3, GoOnTypes
    <2> QED BY <1>1, <1>3, <2>1 DEF Typed, Effect, GoesRound, Depth, TypeOK
<1> QED BY <1>2, <1>3 DEF ForBodyEnds

LEMMA UnterminatedEffect == ASSUME TypeOK, Unterminated PROVE Typed /\ Effect
<1>1. stack \in Stacks /\ Top \in Frame /\ last_status \in {0, 1}
    BY TopTypes DEF TypeOK
<1>2. Top.phase \in {"head", "condition", "body"}
    BY <1>1 DEF Frame
<1>3. /\ stack' \in Stacks /\ Loops(stack') = Loops(stack)
      /\ Bodies(stack') = IF Top.kind \in LoopKinds /\ Top.phase = "body"
                          THEN Bodies(stack) \cup {Len(stack)}
                          ELSE Bodies(stack) \ {Len(stack)}
    BY <1>1, <1>2, GoOnTypes DEF Unterminated
<1>4. Bodies(stack') = Bodies(stack)
    BY <1>1, <1>3, LoopsFinite
<1> QED BY <1>1, <1>3, <1>4 DEF Unterminated, Typed, Effect, Stays, Depth, TypeOK

LEMMA SpanEndEffect == ASSUME TypeOK, SpanEnd PROVE Typed /\ Effect
<1>1. CASE BodyEnds
    <2>1. status \in {0, 1} /\ (Return(status) \/ Return(1)) /\ Top.kind \notin LoopKinds
          /\ UNCHANGED <<signal, active_loop_depth>>
        BY <1>1, TopTypes DEF BodyEnds
    <2> QED BY <2>1, ReturnEffect
<1> QED
    BY <1>1, IfDecidesEffect, UnterminatedEffect, LoopConditionEffect, LoopBodyEffect,
       ForHeadEffect, ForBodyEffect DEF SpanEnd

LEMMA BreakEffect == ASSUME TypeOK, BreakOrContinue PROVE Typed /\ Effect
<1>1. stack \in Stacks /\ Countable /\ stack' = Take(stack)
    BY TopTypes, CountableAt DEF BreakOrContinue, Segment
<1>2. status' \in {0, 1} /\ last_status' \in {0, 1} /\ Depth(0)
    BY DEF BreakOrContinue, Segment, Depth, TypeOK
<1>3. stack' \in Stacks /\ Loops(stack') = Loops(stack) /\ Bodies(stack') = Bodies(stack)
    BY <1>1, TakeStack, TakeLoops
<1>4. PICK command \in Constructs \cap {"break", "continue"}, level \in 1..MaxLevel :
          IF active_loop_depth <= 0
          THEN UNCHANGED signal
          ELSE MayRaise(level) /\ loop_signal' = command /\ loop_signal_level' = level
    BY DEF BreakOrContinue
<1>5. Stays \/ Raises
    BY <1>2, <1>3, <1>4 DEF Stays, Raises
<1> QED BY <1>2, <1>3, <1>5 DEF Typed, Effect

LEMMA ChainEffect == ASSUME TypeOK, ChainStep PROVE Typed /\ Effect
<1>1. /\ stack \in Stacks /\ status \in {0, 1} /\ last_status \in {0, 1}
      /\ AtSegment => Countable
    BY TopTypes, CountableAt DEF TypeOK
<1>2. CASE SimpleCommand
    BY <1>1, <1>2, TakeEffect DEF SimpleCommand, Segment
<1>3. CASE BreakOrContinue
    BY <1>3, BreakEffect
<1>4. CASE CallFunction
    BY <1>1, <1>4, TakeEffect, NewType, EnterEffect DEF CallFunction, Segment
<1>5. CASE Source
    BY <1>1, <1>5, TakeEffect, NewType, EnterEffect DEF Source, Segment
<1>6. CASE Eval
    BY <1>1, <1>6, TakeEffect, NewType, EnterEffect DEF Eval, Segment
<1>7. CASE ChainEnds
    BY <1>1, <1>7, ReturnEffect DEF ChainEnds
<1>8. CASE ScriptEnds
    BY <1>1, <1>8, ReturnEffect DEF ScriptEnds
<1> QED BY <1>2, <1>3, <1>4, <1>5, <1>6, <1>7, <1>8 DEF ChainStep

LEMMA NextEffect == ASSUME TypeOK, Next PROVE Typed /\ Effect
BY StatementEffect, SpanEndEffect, ChainEffect DEF Next

-----------------------------------------------------------------------------
(* The theorems.                                                           *)

\* Every variable keeps its type: no span runs past its statements, no level
\* becomes negative, and the main loop stays at the bottom of the stack.
THEOREM TypeCorrect == Spec => []TypeOK
<1>1. Init => TypeOK
    BY NewType DEF Init, TypeOK
<1>2. TypeOK /\ [Next]_vars => TypeOK'
    <2> SUFFICES ASSUME TypeOK, [Next]_vars PROVE TypeOK'
        OBVIOUS
    <2>1. CASE Next
        <3>1. stack' \in Stacks /\ status' \in {0, 1} /\ last_status' \in {0, 1}
            BY <2>1, NextEffect DEF Typed
        <3>2. /\ loop_signal' \in {"none", "break", "continue"}
              /\ loop_signal_level' \in Nat
              /\ active_loop_depth' \in Int
            BY <2>1, NextEffect DEF Effect, Stays, Raises, Begins, StartsBody, Finishes,
               BreaksOut, GoesRound, Depth, ConsumeSignal, TypeOK, signal
        <3> QED BY <3>1, <3>2 DEF TypeOK, Stacks
    <2>2. CASE UNCHANGED vars
        BY <2>2 DEF vars, TypeOK
    <2> QED BY <2>1, <2>2
<1> QED BY <1>1, <1>2, PTL DEF Spec

\* break and continue know how many loops surround them: active_loop_depth is
\* the number of loops on the stack, by whichever way they were left.
THEOREM NestingCorrect == Spec => []DepthIsNesting
<1>1. Init => DepthIsNesting
    <2> SUFFICES ASSUME Init PROVE DepthIsNesting
        OBVIOUS
    <2>1. Loops(stack) = {}
        BY NewType DEF Init, Loops
    <2> QED BY <2>1, FS_EmptySet DEF Init, DepthIsNesting
<1>2. TypeOK /\ DepthIsNesting /\ [Next]_vars => DepthIsNesting'
    <2> SUFFICES ASSUME TypeOK, DepthIsNesting, [Next]_vars PROVE DepthIsNesting'
        OBVIOUS
    <2> DEFINE n == Cardinality(Loops(stack))
    <2>1. CASE Next
        <3>1. /\ IsFiniteSet(Loops(stack)) /\ n \in Nat /\ active_loop_depth = n
              /\ Len(stack) + 1 \notin Loops(stack)
              /\ Top.kind \in LoopKinds => Len(stack) \in Loops(stack)
            BY TopTypes, LoopsFinite DEF DepthIsNesting
        <3>a. Cardinality(Loops(stack) \cup {Len(stack) + 1}) = n + 1
            BY <3>1, FS_AddElement
        <3> HIDE DEF LoopKinds
        <3>2. Top.kind \in LoopKinds => Cardinality(Loops(stack) \ {Len(stack)}) = n - 1
            BY <3>1, FS_RemoveElement
        <3> HIDE DEF n
        <3>3. CASE Loops(stack') = Loops(stack) /\ Depth(0)
            BY <3>1, <3>3 DEF DepthIsNesting, Depth, n
        <3>4. CASE Begins
            BY <3>1, <3>a, <3>4 DEF Begins, DepthIsNesting, Depth
        <3>5. CASE Finishes \/ BreaksOut
            BY <3>1, <3>2, <3>5 DEF Finishes, BreaksOut, DepthIsNesting, Depth
        <3> QED BY <2>1, <3>3, <3>4, <3>5, NextEffect
                DEF Effect, Stays, Raises, StartsBody, GoesRound
    <2>2. CASE UNCHANGED vars
        BY <2>2 DEF vars, DepthIsNesting
    <2> QED BY <2>1, <2>2
<1> QED BY <1>1, <1>2, TypeCorrect, PTL DEF Spec

\* A signal and its level are set and cleared together.
THEOREM SignalCorrect == Spec => []SignalHasLevel
<1>1. Init => SignalHasLevel
    BY DEF Init, SignalHasLevel
<1>2. TypeOK /\ SignalHasLevel /\ [Next]_vars => SignalHasLevel'
    BY NextEffect DEF Effect, Stays, Raises, Begins, StartsBody, Finishes, BreaksOut, GoesRound,
       ConsumeSignal, signal, vars, SignalHasLevel, TypeOK
<1> QED BY <1>1, <1>2, TypeCorrect, PTL DEF Spec

\* With scripts that ask for no more loops than there are, and do so outside
\* conditions, a pending signal always has a running loop that consumes it;
\* also when other code runs before that loop has its turn.
THEOREM LevelsCorrect ==
    ASSUME "excess" \notin Habits, "condition" \notin Habits
    PROVE  Spec => []PendingInsideLoop
<1>1. Init => PendingInsideLoop
    <2> SUFFICES ASSUME Init PROVE PendingInsideLoop
        OBVIOUS
    <2>1. Bodies(stack) = {}
        BY NewType DEF Init, Loops, Bodies
    <2>2. Cardinality(Bodies(stack)) = 0
        BY <2>1, FS_EmptySet
    <2> QED BY <2>2 DEF Init, PendingInsideLoop
<1>2. TypeOK /\ SignalHasLevel /\ DepthIsNesting /\ PendingInsideLoop /\ [Next]_vars
        => PendingInsideLoop'
    <2> SUFFICES ASSUME TypeOK, SignalHasLevel, DepthIsNesting, PendingInsideLoop, [Next]_vars
                 PROVE  PendingInsideLoop'
        OBVIOUS
    <2> DEFINE n == Cardinality(Bodies(stack))
    <2>1. CASE Next
        <3>1. /\ IsFiniteSet(Bodies(stack)) /\ n \in Nat
              /\ loop_signal_level \in Nat /\ loop_signal_level <= n
              /\ Top.kind \in LoopKinds /\ Top.phase = "body" => Len(stack) \in Bodies(stack)
              /\ Top.phase # "body" => Len(stack) \notin Bodies(stack)
            BY TopTypes, LoopsFinite DEF PendingInsideLoop, TypeOK
        <3>2. Cardinality(Bodies(stack) \cup {Len(stack)}) \in {n, n + 1}
            BY <3>1, FS_AddElement
        <3>3. /\ Cardinality(Bodies(stack) \ {Len(stack)}) \in Nat
              /\ Cardinality(Bodies(stack) \ {Len(stack)}) =
                    IF Len(stack) \in Bodies(stack) THEN n - 1 ELSE n
            BY <3>1, FS_RemoveElement, FS_CardinalityType
        <3> HIDE DEF n, LoopKinds
        <3>4. CASE Stays \/ Begins
            BY <3>1, <3>4 DEF Stays, Begins, signal, PendingInsideLoop, n
        <3>5. CASE Raises
            BY <3>1, <3>5 DEF Raises, MayRaise, DepthIsNesting, PendingInsideLoop, n
        <3>6. CASE StartsBody
            BY <3>1, <3>2, <3>6 DEF StartsBody, signal, PendingInsideLoop
        <3>7. CASE Finishes
            BY <3>1, <3>3, <3>7 DEF Finishes, signal, PendingInsideLoop
        <3>8. CASE BreaksOut
            BY <3>1, <3>3, <3>8 DEF BreaksOut, ConsumeSignal, PendingInsideLoop
        <3>9. CASE GoesRound
            <4>1. loop_signal_level' = 0
                BY <3>1, <3>9 DEF GoesRound, ConsumeSignal, LeavesLoop, SignalHasLevel, TypeOK
            <4>2. Cardinality(Bodies(stack')) \in Nat
                BY <3>3, <3>9 DEF GoesRound
            <4> QED BY <4>1, <4>2 DEF PendingInsideLoop
        <3> QED BY <2>1, <3>4, <3>5, <3>6, <3>7, <3>8, <3>9, NextEffect DEF Effect
    <2>2. CASE UNCHANGED vars
        BY <2>2 DEF vars, PendingInsideLoop
    <2> QED BY <2>1, <2>2
<1> QED BY <1>1, <1>2, TypeCorrect, SignalCorrect, NestingCorrect, PTL DEF Spec
-----------------------------------------------------------------------------
(* The interpreter implements the nest of loops of LoopNest, for every     *)
(* bound and every script that uses break and continue as the code         *)
(* expects.  First the mapping (the k-th loop of a stack, what a push, a   *)
(* pop or a step of the top does to the nest of a stack), then what each   *)
(* action does to the frames (NestEffect), then the steps of LoopNest.     *)

HIDE LoopControlAssumption DEF Blocks, Commands, LoopKinds

-----------------------------------------------------------------------------
(* Positions.                                                              *)

\* The k-th position of a set is in it, and every position has its own rank.
LEMMA NthIsIn ==
    ASSUME NEW n \in Nat, NEW S \in SUBSET (1..n), NEW k \in 1..Cardinality(S)
    PROVE  Nth(S, k) \in S /\ Rank(S, Nth(S, k)) = k
<1> DEFINE c == Cardinality(S)
           upTo(i) == {j \in S : j <= i}
           rank == [i \in S |-> Rank(S, i)]
<1>0. IsFiniteSet(1..n)
    BY FS_Interval
<1>1. IsFiniteSet(S) /\ c \in Nat
    BY <1>0, FS_Subset, FS_CardinalityType
<1>2. \A i \in S : IsFiniteSet(upTo(i)) /\ Cardinality(upTo(i)) \in 1..c
    <2> SUFFICES ASSUME NEW i \in S PROVE IsFiniteSet(upTo(i)) /\ Cardinality(upTo(i)) \in 1..c
        OBVIOUS
    <2>1. upTo(i) \in SUBSET S
        OBVIOUS
    <2>2. IsFiniteSet(upTo(i)) /\ Cardinality(upTo(i)) <= c /\ Cardinality(upTo(i)) \in Nat
        BY <1>1, <2>1, FS_Subset, FS_CardinalityType
    <2>3. i \in upTo(i)
        OBVIOUS
    <2>4. Cardinality(upTo(i)) # 0
        BY <2>2, <2>3, FS_EmptySet
    <2> QED BY <1>1, <2>2, <2>4
<1>3. \A i, j \in S : i < j => Rank(S, i) # Rank(S, j)
    <2> SUFFICES ASSUME NEW i \in S, NEW j \in S, i < j PROVE Rank(S, i) # Rank(S, j)
        OBVIOUS
    <2>a. i \in Int /\ j \in Int /\ \A x \in S : x \in Int
        OBVIOUS
    <2>b. \A x \in S : x <= i => x <= j
        BY <2>a
    <2>c. ~(j <= i) /\ j <= j
        BY <2>a
    <2>1. upTo(i) \in SUBSET upTo(j) /\ j \in upTo(j) /\ j \notin upTo(i)
        BY <2>b, <2>c, Zenon
    <2>2. Cardinality(upTo(j)) = Cardinality(upTo(i)) => upTo(j) = upTo(i)
        BY <1>2, <2>1, FS_Subset
    <2> QED BY <2>1, <2>2 DEF Rank
<1> HIDE DEF c
<1>4. rank \in [S -> 1..c]
    BY <1>2 DEF Rank
<1>5. \A i, j \in S : rank[i] = rank[j] => i = j
    BY <1>3
<1>6. rank \in Injection(S, 1..c)
    BY <1>4, <1>5, Fun_IsInj
<1>7. IsFiniteSet(1..c) /\ Cardinality(1..c) = c
    BY <1>1, FS_Interval
<1>8. rank \in Surjection(S, 1..c)
    BY <1>6, <1>7, FS_Injection DEF c
<1>9. \E i \in S : Rank(S, i) = k
    <2>1. k \in 1..c
        BY DEF c
    <2>2. \A i \in S : rank[i] = Rank(S, i)
        OBVIOUS
    <2> HIDE DEF rank
    <2>3. \A t \in 1..c : \E i \in S : rank[i] = t
        BY <1>8, Fun_SurjectionProperties
    <2> QED BY <2>1, <2>2, <2>3
<1> QED BY <1>9 DEF Nth

\* A position behind all others is the last one and changes no other.
LEMMA NthOfMore ==
    ASSUME NEW n \in Nat, NEW S \in SUBSET (1..n)
    PROVE  /\ Cardinality(S) \in Nat
           /\ Cardinality(S \cup {n + 1}) = Cardinality(S) + 1
           /\ \A k \in 1..Cardinality(S) : Nth(S \cup {n + 1}, k) = Nth(S, k)
           /\ Nth(S \cup {n + 1}, Cardinality(S) + 1) = n + 1
<1> DEFINE c == Cardinality(S)
           T == S \cup {n + 1}
<1>0. IsFiniteSet(1..n)
    BY FS_Interval
<1>1. IsFiniteSet(S) /\ c \in Nat
    BY <1>0, FS_Subset, FS_CardinalityType
<1>a. n + 1 \notin S
    OBVIOUS
<1>2. Cardinality(T) = c + 1
    BY <1>1, <1>a, FS_AddElement
<1>3. Rank(T, n + 1) = c + 1
    <2>1. \A j \in T : j <= n + 1
        OBVIOUS
    <2>2. {j \in T : j <= n + 1} = T
        BY <2>1
    <2> QED BY <1>2, <2>2 DEF Rank
<1>4. \A i \in S : Rank(T, i) = Rank(S, i) /\ Rank(S, i) \in 0..c
    <2> SUFFICES ASSUME NEW i \in S PROVE Rank(T, i) = Rank(S, i) /\ Rank(S, i) \in 0..c
        OBVIOUS
    <2>1. {j \in T : j <= i} = {j \in S : j <= i}
        OBVIOUS
    <2>2. Cardinality({j \in S : j <= i}) \in 0..c
        BY <1>1, FS_Subset, FS_CardinalityType
    <2> QED BY <2>1, <2>2 DEF Rank
<1> HIDE DEF c
<1>5. \A k \in 1..c : Nth(T, k) = Nth(S, k)
    <2> SUFFICES ASSUME NEW k \in 1..c PROVE Nth(T, k) = Nth(S, k)
        OBVIOUS
    <2>0. \A j \in S : Rank(T, j) = Rank(S, j)
        BY <1>4
    <2>a. Rank(T, n + 1) # k
        BY <1>1, <1>3
    <2>1. {j \in T : Rank(T, j) = k} = {j \in S : Rank(S, j) = k}
        BY <2>0, <2>a, Zenon
    <2> QED BY <2>1 DEF Nth
<1>6. Nth(T, c + 1) = n + 1
    <2>b. \A r \in 0..c : r # c + 1
        BY <1>1
    <2>0. \A j \in S : Rank(T, j) # c + 1
        BY <1>4, <2>b
    <2>1. {j \in T : Rank(T, j) = c + 1} = {n + 1}
        BY <1>3, <2>0, Zenon
    <2> QED BY <2>1 DEF Nth
<1> QED BY <1>1, <1>2, <1>5, <1>6 DEF c

-----------------------------------------------------------------------------
(* The nest of a stack from which `owed` loops are going to be left.       *)

NestOf(s, owed) ==
    [k \in 1..(Cardinality(Loops(s)) - owed) |-> Nested(s[Nth(Loops(s), k)])]

LEMMA LoopPositions ==
    ASSUME NEW s \in Seq(Frame)
    PROVE  /\ Loops(s) \in SUBSET (1..Len(s)) /\ Len(s) \in Nat
           /\ Cardinality(Loops(s)) \in Nat
           /\ \A k \in 1..Cardinality(Loops(s)) : Nth(Loops(s), k) \in Loops(s)
<1>1. Len(s) \in Nat /\ DOMAIN s = 1..Len(s)
    OBVIOUS
<1>2. Loops(s) \in SUBSET (1..Len(s))
    BY <1>1 DEF Loops
<1>3. IsFiniteSet(1..Len(s))
    BY <1>1, FS_Interval
<1>4. Cardinality(Loops(s)) \in Nat
    BY <1>2, <1>3, FS_Subset, FS_CardinalityType
<1> QED BY <1>1, <1>2, <1>4, NthIsIn

\* The frame at the top is the last of the loops, if it is one.
LEMMA TopIsLast ==
    ASSUME NEW s \in Seq(Frame), Len(s) \in Loops(s)
    PROVE  LET c == Cardinality(Loops(s)) IN
           /\ c \in Nat \ {0} /\ Nth(Loops(s), c) = Len(s)
           /\ Cardinality(Loops(s) \ {Len(s)}) = c - 1
           /\ \A k \in 1..(c - 1) : /\ Nth(Loops(s) \ {Len(s)}, k) = Nth(Loops(s), k)
                                    /\ Nth(Loops(s), k) \in Loops(s) \ {Len(s)}
<1> DEFINE n == Len(s)
           S == Loops(s) \ {n}
<1>1. Loops(s) \in SUBSET (1..n) /\ n \in Nat
    BY LoopPositions
<1>2. n \in Loops(s)
    OBVIOUS
<1> HIDE DEF n
<1>3. PICK m \in Nat : n = m + 1
    BY <1>1, <1>2
<1> DEFINE T == S \cup {m + 1}
<1>a. S \in SUBSET (1..m) /\ Loops(s) = T
    BY <1>1, <1>2, <1>3
<1> HIDE DEF S
<1>b. /\ Cardinality(S) \in Nat
      /\ Cardinality(T) = Cardinality(S) + 1
      /\ \A k \in 1..Cardinality(S) : Nth(T, k) = Nth(S, k)
      /\ Nth(T, Cardinality(S) + 1) = m + 1
    BY <1>3, <1>a, NthOfMore
<1> HIDE DEF T
<1>4. /\ Cardinality(S) \in Nat
      /\ Cardinality(Loops(s)) = Cardinality(S) + 1
      /\ \A k \in 1..Cardinality(S) : Nth(Loops(s), k) = Nth(S, k)
      /\ Nth(Loops(s), Cardinality(S) + 1) = m + 1
    BY <1>a, <1>b
<1>5. \A k \in 1..Cardinality(S) : Nth(S, k) \in S
    BY <1>3, <1>a, NthIsIn
<1> DEFINE c == Cardinality(Loops(s))
<1>6. c \in Nat \ {0} /\ Cardinality(S) = c - 1 /\ Nth(Loops(s), c) = n
    BY <1>3, <1>4
<1>7. \A k \in 1..(c - 1) : Nth(S, k) = Nth(Loops(s), k) /\ Nth(Loops(s), k) \in S
    BY <1>4, <1>5, <1>6
<1> QED BY <1>6, <1>7 DEF S, n

LEMMA NestIsSeq ==
    ASSUME NEW s \in Seq(Frame), NEW o \in Nat, o <= Cardinality(Loops(s))
    PROVE  LET m == Cardinality(Loops(s)) - o IN
           /\ m \in Nat
           /\ NestOf(s, o) \in Seq({Nested(f) : f \in Frame})
           /\ Len(NestOf(s, o)) = m
           /\ \A k \in 1..m : NestOf(s, o)[k] = Nested(s[Nth(Loops(s), k)])
<1> DEFINE m == Cardinality(Loops(s)) - o
           view(k) == Nested(s[Nth(Loops(s), k)])
<1>1. m \in Nat /\ \A k \in 1..m : k \in 1..Cardinality(Loops(s))
    BY LoopPositions
<1>2. \A k \in 1..m : s[Nth(Loops(s), k)] \in Frame
    BY <1>1, LoopPositions
<1>3. \A k \in 1..m : view(k) \in {Nested(f) : f \in Frame}
    BY <1>2
<1>4. NestOf(s, o) = [k \in 1..m |-> view(k)]
    BY DEF NestOf
<1> HIDE DEF m, view
<1>5. /\ NestOf(s, o) \in Seq({Nested(f) : f \in Frame})
      /\ Len(NestOf(s, o)) = m
      /\ \A k \in 1..m : NestOf(s, o)[k] = view(k)
    BY <1>1, <1>3, <1>4
<1> QED BY <1>1, <1>5 DEF m, view

LEMMA NestWhole ==
    ASSUME NEW s \in Seq(Frame)
    PROVE  LET c == Cardinality(Loops(s)) IN
           /\ NestOf(s, 0) \in Seq({Nested(f) : f \in Frame})
           /\ c \in Nat /\ Len(NestOf(s, 0)) = c
           /\ \A k \in 1..c : NestOf(s, 0)[k] = Nested(s[Nth(Loops(s), k)])
<1> DEFINE c == Cardinality(Loops(s))
<1>1. c \in Nat
    BY LoopPositions
<1> HIDE DEF c
<1>2. 0 \in Nat /\ 0 <= c /\ c - 0 = c
    BY <1>1
<1> QED BY <1>1, <1>2, NestIsSeq DEF c

\* A stack with the same loops, or without the one at the top, has the outer
\* part of the nest.
Outer(s, t) ==
    /\ \/ Loops(t) = Loops(s)
       \/ Len(s) \in Loops(s) /\ Loops(t) = Loops(s) \ {Len(s)}
    /\ \A i \in Loops(t) : Nested(t[i]) = Nested(s[i])

LEMMA NestCut ==
    ASSUME NEW s \in Seq(Frame), NEW t \in Seq(Frame), Outer(s, t),
           NEW o \in Nat, o <= Cardinality(Loops(s)),
           NEW p \in Nat, p <= Cardinality(Loops(t)),
           NEW m, m = Cardinality(Loops(t)) - p, m <= Cardinality(Loops(s)) - o
    PROVE  NestOf(t, p) = SubSeq(NestOf(s, o), 1, m)
<1> DEFINE n == Cardinality(Loops(s)) - o
           a == NestOf(s, o)
           b == NestOf(t, p)
<1>1. /\ m \in Nat /\ n \in Nat /\ m <= n /\ Len(a) = n /\ Len(b) = m
      /\ a \in Seq({Nested(f) : f \in Frame}) /\ b \in Seq({Nested(f) : f \in Frame})
    BY NestIsSeq
<1>2. ASSUME NEW k \in 1..m
      PROVE  Nth(Loops(t), k) \in Loops(t) /\ Nth(Loops(t), k) = Nth(Loops(s), k)
    <2>1. k \in 1..Cardinality(Loops(t))
        BY <1>2, LoopPositions
    <2>2. Nth(Loops(t), k) \in Loops(t)
        BY <2>1, LoopPositions
    <2>3. CASE Len(s) \in Loops(s) /\ Loops(t) = Loops(s) \ {Len(s)}
        BY <2>1, <2>2, <2>3, TopIsLast
    <2> QED BY <2>2, <2>3 DEF Outer
<1>3. \A k \in 1..m : b[k] = a[k]
    <2> SUFFICES ASSUME NEW k \in 1..m PROVE b[k] = a[k]
        OBVIOUS
    <2>1. k \in 1..n
        BY <1>1
    <2>2. b[k] = Nested(t[Nth(Loops(t), k)])
        BY NestIsSeq
    <2>3. a[k] = Nested(s[Nth(Loops(s), k)])
        BY <2>1, NestIsSeq
    <2> QED BY <1>2, <2>2, <2>3 DEF Outer
<1> HIDE DEF a, b, n
<1>4. b = SubSeq(a, 1, m)
    BY <1>1, <1>3
<1> QED BY <1>4 DEF a, b

\* A loop pushed on the stack is innermost.
LEMMA NestPush ==
    ASSUME NEW s \in Seq(Frame), NEW t \in Seq(Frame),
           Loops(t) = Loops(s) \cup {Len(s) + 1},
           \A i \in Loops(s) : Nested(t[i]) = Nested(s[i])
    PROVE  LET a == NestOf(s, 0)
               b == NestOf(t, 0)
           IN  /\ Len(b) = Len(a) + 1
               /\ a = SubSeq(b, 1, Len(a))
               /\ b[Len(b)] = Nested(t[Len(s) + 1])
<1> DEFINE c == Cardinality(Loops(s))
           a == NestOf(s, 0)
           b == NestOf(t, 0)
<1>0. Len(s) \in Nat /\ Loops(s) \in SUBSET (1..Len(s))
    BY LoopPositions
<1> DEFINE T == Loops(s) \cup {Len(s) + 1}
<1>a. Loops(t) = T
    OBVIOUS
<1>b. /\ c \in Nat
      /\ Cardinality(T) = c + 1
      /\ \A k \in 1..c : Nth(T, k) = Nth(Loops(s), k)
      /\ Nth(T, c + 1) = Len(s) + 1
    BY <1>0, NthOfMore
<1> HIDE DEF T
<1>1. /\ Cardinality(Loops(t)) = c + 1 /\ c \in Nat
      /\ \A k \in 1..c : Nth(Loops(t), k) = Nth(Loops(s), k)
      /\ Nth(Loops(t), c + 1) = Len(s) + 1
    BY <1>a, <1>b
<1>2. /\ a \in Seq({Nested(f) : f \in Frame}) /\ Len(a) = c
      /\ b \in Seq({Nested(f) : f \in Frame}) /\ Len(b) = c + 1
    BY <1>1, NestWhole
<1>3. \A k \in 1..c : b[k] = a[k]
    <2> SUFFICES ASSUME NEW k \in 1..c PROVE b[k] = a[k]
        OBVIOUS
    <2>1. k \in 1..(c + 1) /\ Nth(Loops(s), k) \in Loops(s)
        BY <1>1, LoopPositions
    <2>2. b[k] = Nested(t[Nth(Loops(t), k)])
        BY <1>1, <2>1, NestWhole
    <2>3. a[k] = Nested(s[Nth(Loops(s), k)])
        BY <1>1, NestWhole
    <2> QED BY <1>1, <2>1, <2>2, <2>3
<1>4. b[c + 1] = Nested(t[Len(s) + 1])
    <2>1. c + 1 \in 1..(c + 1)
        BY <1>1
    <2>2. b[c + 1] = Nested(t[Nth(Loops(t), c + 1)])
        BY <1>1, <2>1, NestWhole
    <2> QED BY <1>1, <2>2
<1> HIDE DEF a, b, c
<1>5. a = SubSeq(b, 1, Len(a))
    BY <1>1, <1>2, <1>3
<1> QED BY <1>1, <1>2, <1>4, <1>5 DEF a, b

\* When the frame at the top is a loop that moves on, only the innermost loop
\* of the nest changes.
LEMMA NestTop ==
    ASSUME NEW s \in Seq(Frame), NEW t \in Seq(Frame),
           Len(s) \in Loops(s), Loops(t) = Loops(s),
           \A i \in Loops(s) \ {Len(s)} : Nested(t[i]) = Nested(s[i])
    PROVE  LET a == NestOf(s, 0)
               b == NestOf(t, 0)
           IN  /\ a \in Seq({Nested(f) : f \in Frame}) /\ Len(a) > 0
               /\ a[Len(a)] = Nested(s[Len(s)])
               /\ b = [a EXCEPT ![Len(a)] = Nested(t[Len(s)])]
<1> DEFINE c == Cardinality(Loops(s))
           a == NestOf(s, 0)
           b == NestOf(t, 0)
<1>1. /\ c \in Nat \ {0} /\ Nth(Loops(s), c) = Len(s)
      /\ \A k \in 1..(c - 1) : Nth(Loops(s), k) \in Loops(s) \ {Len(s)}
    BY TopIsLast
<1>2. /\ a \in Seq({Nested(f) : f \in Frame}) /\ Len(a) = c
      /\ b \in Seq({Nested(f) : f \in Frame}) /\ Len(b) = c
      /\ \A k \in 1..c : a[k] = Nested(s[Nth(Loops(s), k)])
      /\ \A k \in 1..c : b[k] = Nested(t[Nth(Loops(s), k)])
    BY <1>1, NestWhole
<1> HIDE DEF a, b, c
<1>3. \A k \in 1..(c - 1) : b[k] = a[k]
    BY <1>1, <1>2
<1>4. a[c] = Nested(s[Len(s)]) /\ b[c] = Nested(t[Len(s)])
    BY <1>1, <1>2
<1>5. b = [a EXCEPT ![c] = Nested(t[Len(s)])]
    BY <1>1, <1>2, <1>3, <1>4
<1> QED BY <1>1, <1>2, <1>4, <1>5 DEF a, b

-----------------------------------------------------------------------------
(* The frames of for loops.                                                *)

Different(w) == \A i, j \in DOMAIN w : w[i] = w[j] => i = j

\* A for loop has no condition; in its body it has a word; each of its words
\* comes from a raw word of its own.
Shape(f) ==
    f.kind = "for" => /\ f.phase # "condition"
                      /\ f.phase = "body" => f.words # << >>
                      /\ Different(f.words)

Shapes == \A i \in DOMAIN stack : Shape(stack[i])

LEMMA NextWordIs ==
    ASSUME NEW w \in Seq(Nat), w # << >>, Different(w)
    PROVE  /\ SkipRawWord(w) = NextWord(w)
           /\ NextWord(w) \in Seq(Nat) /\ Len(NextWord(w)) = Len(w) - 1
           /\ Different(NextWord(w))
<1>1. Len(w) \in Nat \ {0} /\ DOMAIN w = 1..Len(w)
    OBVIOUS
<1>2. {i \in DOMAIN w : w[i] = w[1]} = {1}
    BY <1>1 DEF Different
<1> DEFINE c == Cardinality({i \in DOMAIN w : w[i] = w[1]})
<1>3. c = 1
    BY <1>2, FS_Singleton
<1>a. SkipRawWord(w) = SubSeq(w, 1 + c, Len(w))
    BY DEF SkipRawWord
<1> HIDE DEF c
<1>4. SkipRawWord(w) = NextWord(w)
    BY <1>3, <1>a DEF NextWord
<1> DEFINE v == NextWord(w)
<1>5. /\ v \in Seq(Nat) /\ Len(v) = Len(w) - 1
      /\ \A i \in 1..Len(v) : v[i] = w[i + 1]
    BY <1>1 DEF NextWord
<1> HIDE DEF v
<1>6. DOMAIN v = 1..Len(v) /\ \A i \in 1..Len(v) : i + 1 \in DOMAIN w
    BY <1>1, <1>5
<1>7. Different(v)
    <2> SUFFICES ASSUME NEW i \in 1..Len(v), NEW j \in 1..Len(v), v[i] = v[j] PROVE i = j
        BY <1>6 DEF Different
    <2>1. i + 1 = j + 1
        BY <1>5, <1>6 DEF Different
    <2> QED BY <2>1
<1> QED BY <1>4, <1>5, <1>7 DEF v

\* What a frame whose kind, phase, rounds and words are those of another has
\* in common with it.
Same(f, g) == /\ f.kind = g.kind /\ f.phase = g.phase
              /\ f.rounds = g.rounds /\ f.words = g.words

LEMMA SameIs == ASSUME NEW f, NEW g, Same(f, g), Shape(f) PROVE Shape(g) /\ Nested(g) = Nested(f)
BY DEF Same, Shape, Nested, RoundsLeft

-----------------------------------------------------------------------------
(* What the operations on the stack do to the frames.                      *)

LEMMA TakeSame ==
    ASSUME stack \in Stacks, Countable
    PROVE  /\ Take(stack) \in Seq(Frame) /\ Len(Take(stack)) = Len(stack)
           /\ \A i \in 1..Len(stack) : Same(stack[i], Take(stack)[i])
<1> DEFINE n == IF Len(stack) = 1 THEN Top.left ELSE Top.left - 1
           f == [Top EXCEPT !.left = n]
<1>1. Top \in Frame /\ Len(stack) \in Nat \ {0} /\ stack \in Seq(Frame)
    BY TopType DEF Stacks
<1>3. Same(Top, f)
    <2> HIDE DEF n
    <2> QED BY <1>1 DEF Frame, Same
<1>4. Take(stack) = [stack EXCEPT ![Len(stack)] = f]
    BY <1>1 DEF Take, Top
<1>5. \A i \in 1..Len(stack) : Same(stack[i], stack[i])
    BY DEF Same
<1> HIDE DEF f
<1>6. \A i \in 1..Len(stack) : Same(stack[i], Take(stack)[i])
    BY <1>1, <1>3, <1>4, <1>5 DEF Top
<1> QED BY <1>6, TakeStack DEF Stacks

LEMMA EnterSame ==
    ASSUME stack \in Stacks, Countable, NEW f, Enter(f)
    PROVE  /\ Len(stack') = Len(stack) + 1 /\ stack'[Len(stack) + 1] = f
           /\ DOMAIN stack' = 1..(Len(stack) + 1)
           /\ \A i \in 1..Len(stack) : Same(stack[i], stack'[i])
<1> DEFINE t == Take(stack)
<1>1. /\ t \in Seq(Frame) /\ Len(t) = Len(stack) /\ Len(stack) \in Nat
      /\ \A i \in 1..Len(stack) : Same(stack[i], t[i])
    BY TakeSame DEF Stacks
<1>2. stack' = Append(t, f)
    BY DEF Enter
<1> HIDE DEF t
<1>3. /\ Len(stack') = Len(t) + 1 /\ stack'[Len(t) + 1] = f
      /\ DOMAIN stack' = 1..(Len(t) + 1)
      /\ \A i \in 1..Len(t) : stack'[i] = t[i]
    BY <1>1, <1>2
<1> QED BY <1>1, <1>3

LEMMA GoOnSame ==
    ASSUME stack \in Stacks, NEW f, GoOn(f)
    PROVE  /\ Len(stack) \in Nat /\ DOMAIN stack = 1..Len(stack) /\ DOMAIN stack' = 1..Len(stack)
           /\ Len(stack) \in DOMAIN stack /\ stack'[Len(stack)] = f
           /\ \A i \in (1..Len(stack)) \ {Len(stack)} : stack'[i] = stack[i]
BY TopType DEF Stacks, GoOn

LEMMA ReturnSame ==
    ASSUME stack \in Stacks, NEW s, Return(s)
    PROVE  /\ Len(stack) \in Nat /\ DOMAIN stack = 1..Len(stack)
           /\ DOMAIN stack' = (1..Len(stack)) \ {Len(stack)}
           /\ \A i \in DOMAIN stack' : stack'[i] = stack[i]
<1> DEFINE n == Len(stack)
<1>1. n \in Nat /\ n > 1 /\ stack \in Seq(Frame)
    BY DEF Stacks, Return
<1>2. stack' = SubSeq(stack, 1, n - 1)
    BY DEF Return, Under
<1>3. /\ DOMAIN stack' = 1..(n - 1) /\ DOMAIN stack = 1..n
      /\ \A i \in 1..(n - 1) : stack'[i] = stack[i]
    BY <1>1, <1>2
<1>4. 1..(n - 1) = (1..n) \ {n}
    BY <1>1
<1> QED BY <1>1, <1>3, <1>4

USE LoopControlAssumption DEF Blocks, Commands, LoopKinds

-----------------------------------------------------------------------------
(* What a step can do to the nest, for scripts that use break and continue *)
(* as the code expects, and word lists whose raw words are one word each.  *)

PlainScripts == Habits = {} /\ \A w \in WordLists : Different(w)

\* With a signal pending every loop is in its body.
PendingInBodies == loop_signal # "none" => Loops(stack) = Bodies(stack)

NestInv ==
    TypeOK /\ SignalHasLevel /\ DepthIsNesting /\ PendingInsideLoop /\ PendingInBodies /\ Shapes

Views(S) == \A i \in S : Nested(stack'[i]) = Nested(stack[i])

Idles == Loops(stack') = Loops(stack) /\ Views(Loops(stack)) /\ UNCHANGED signal

Asks ==
    /\ Loops(stack') = Loops(stack) /\ Views(Loops(stack))
    /\ loop_signal = "none" /\ loop_signal' \in {"break", "continue"}
    /\ loop_signal_level' \in 1..Cardinality(Loops(stack))

Opens ==
    /\ loop_signal = "none" /\ UNCHANGED signal
    /\ Loops(stack') = Loops(stack) \cup {Len(stack) + 1} /\ Views(Loops(stack))
    /\ Nested(stack'[Len(stack) + 1]) \in Abstract!Fresh

Advances ==
    /\ loop_signal = "none" /\ UNCHANGED signal
    /\ Len(stack) \in Loops(stack)
    /\ Loops(stack') = Loops(stack) /\ Views(Loops(stack) \ {Len(stack)})
    /\ RoundsLeft(Top) > 0
    /\ Nested(stack'[Len(stack)]) = [kind |-> Top.kind, rest |-> RoundsLeft(Top) - 1]

Closes ==
    /\ loop_signal = "none" /\ UNCHANGED signal
    /\ Len(stack) \in Loops(stack)
    /\ Loops(stack') = Loops(stack) \ {Len(stack)} /\ Views(Loops(stack'))
    /\ Top.kind = "for" => RoundsLeft(Top) = 0

Unwinds ==
    /\ Len(stack) \in Loops(stack)
    /\ Loops(stack') = Loops(stack) \ {Len(stack)} /\ Views(Loops(stack'))
    /\ LeavesLoop /\ ConsumeSignal

Repeats ==
    /\ Loops(stack') = Loops(stack) /\ Views(Loops(stack))
    /\ ~LeavesLoop /\ ConsumeSignal

NestEffect == Idles \/ Asks \/ Opens \/ Advances \/ Closes \/ Unwinds \/ Repeats

LEMMA LoopsAreIn ==
    ASSUME TypeOK
    PROVE  /\ Loops(stack) \subseteq 1..Len(stack) /\ DOMAIN stack = 1..Len(stack)
           /\ Len(stack) \in Nat \ {0} /\ stack \in Stacks /\ Top \in Frame
BY TopTypes DEF Loops, Stacks

\* Where a statement or a segment starts no signal is pending.
LEMMA QuietAt ==
    ASSUME NestInv, PlainScripts, AtStatement \/ AtSegment
    PROVE  loop_signal = "none" /\ Countable
<1>1. CASE Len(stack) = 1
    <2>1. stack[1].kind = "script" /\ DOMAIN stack = {1}
        BY <1>1, LoopsAreIn DEF NestInv, TypeOK
    <2>2. Bodies(stack) = {}
        BY <2>1 DEF Bodies, Loops
    <2>3. loop_signal_level = 0
        BY <2>2, FS_EmptySet DEF NestInv, PendingInsideLoop, TypeOK
    <2> QED BY <1>1, <2>3 DEF NestInv, SignalHasLevel, Countable
<1>2. CASE Len(stack) # 1
    BY <1>2 DEF AtStatement, AtSegment, MayGoOn, PlainScripts, Countable
<1> QED BY <1>1, <1>2

\* The steps that leave the frames as they are.
LEMMA TakeIdles ==
    ASSUME TypeOK, Shapes, Countable, stack' = Take(stack)
    PROVE  Loops(stack') = Loops(stack) /\ Views(Loops(stack)) /\ Shapes'
<1>1. \A i \in 1..Len(stack) : Same(stack[i], stack'[i])
    BY LoopsAreIn, TakeSame
<1>2. DOMAIN stack' = 1..Len(stack)
    BY LoopsAreIn, TakeSame
<1>3. \A i \in 1..Len(stack) : Shape(stack'[i]) /\ Nested(stack'[i]) = Nested(stack[i])
    BY <1>1, LoopsAreIn, SameIs DEF Shapes
<1> QED BY <1>2, <1>3, LoopsAreIn, TakeLoops DEF Views, Shapes

LEMMA EnterIdles ==
    ASSUME TypeOK, Shapes, Countable, NEW f \in Frame, Shape(f), Enter(f)
    PROVE  /\ Views(Loops(stack)) /\ Shapes'
           /\ stack'[Len(stack) + 1] = f
           /\ Loops(stack') = IF f.kind \in LoopKinds
                              THEN Loops(stack) \cup {Len(stack) + 1} ELSE Loops(stack)
<1> DEFINE n == Len(stack)
<1>1. /\ stack'[n + 1] = f /\ DOMAIN stack' = 1..(n + 1)
      /\ \A i \in 1..n : Same(stack[i], stack'[i])
    BY LoopsAreIn, EnterSame
<1>2. Loops(stack') = IF f.kind \in LoopKinds THEN Loops(stack) \cup {n + 1} ELSE Loops(stack)
    BY LoopsAreIn, EnterStack
<1>3. n \in Nat /\ Loops(stack) \subseteq 1..n /\ DOMAIN stack = 1..n
    BY LoopsAreIn
<1> HIDE DEF n, LoopKinds
<1>4. \A i \in 1..n : Shape(stack'[i]) /\ Nested(stack'[i]) = Nested(stack[i])
    BY <1>1, <1>3, SameIs DEF Shapes
<1>5. \A i \in 1..(n + 1) : i \in 1..n \/ i = n + 1
    BY <1>3
<1>6. Shapes'
    BY <1>1, <1>4, <1>5 DEF Shapes
<1>7. Views(Loops(stack))
    BY <1>3, <1>4 DEF Views
<1> QED BY <1>1, <1>2, <1>6, <1>7 DEF n

LEMMA GoOnIdles ==
    ASSUME TypeOK, Shapes, NEW g \in Frame, g.kind = Top.kind, Shape(g), GoOn(g)
    PROVE  /\ Views(Loops(stack) \ {Len(stack)}) /\ Shapes'
           /\ stack'[Len(stack)] = g
           /\ Loops(stack') = Loops(stack)
<1>1. Loops(stack') = Loops(stack)
    BY LoopsAreIn, GoOnStack
<1> DEFINE n == Len(stack)
<1>2. /\ n \in Nat /\ DOMAIN stack = 1..n /\ DOMAIN stack' = 1..n /\ n \in 1..n /\ stack'[n] = g
      /\ \A i \in (1..n) \ {n} : stack'[i] = stack[i]
    BY LoopsAreIn, GoOnSame
<1>3. Loops(stack) \subseteq 1..n
    BY LoopsAreIn
<1> HIDE DEF n
<1>4. Shapes'
    BY <1>2 DEF Shapes
<1>5. Views(Loops(stack) \ {n})
    BY <1>2, <1>3 DEF Views
<1> QED BY <1>1, <1>2, <1>4, <1>5 DEF n

LEMMA ReturnIdles ==
    ASSUME TypeOK, Shapes, NEW s, Return(s)
    PROVE  /\ Loops(stack') = Loops(stack) \ {Len(stack)}
           /\ Views(Loops(stack')) /\ Shapes'
<1>1. Loops(stack') = Loops(stack) \ {Len(stack)}
    BY LoopsAreIn, ReturnStack
<1>2. /\ DOMAIN stack = 1..Len(stack)
      /\ DOMAIN stack' = (1..Len(stack)) \ {Len(stack)}
      /\ \A i \in DOMAIN stack' : stack'[i] = stack[i]
    BY LoopsAreIn, ReturnSame
<1>3. Loops(stack') \subseteq DOMAIN stack'
    BY <1>1, <1>2, LoopsAreIn
<1> QED BY <1>1, <1>2, <1>3 DEF Views, Shapes

LEMMA NewFrames ==
    ASSUME NEW kind \in {"script", "chain", "function", "if", "case"}, NEW phase \in {"condition", "body"}
    PROVE  /\ New(kind, phase) \in Frame /\ Shape(New(kind, phase))
           /\ New(kind, phase).kind \notin LoopKinds
BY NewType DEF New, Shape

\* The steps that put a frame on the stack that is not a loop's.
LEMMA PushIdles ==
    ASSUME TypeOK, Shapes, Countable, UNCHANGED signal,
           NEW kind \in {"script", "chain", "function", "if", "case"}, NEW phase \in {"condition", "body"},
           Enter(New(kind, phase))
    PROVE  NestEffect /\ Shapes'
<1> DEFINE f == New(kind, phase)
<1>1. f \in Frame /\ Shape(f) /\ f.kind \notin LoopKinds
    BY NewFrames
<1>2. Enter(f)
    OBVIOUS
<1> HIDE DEF f, LoopKinds
<1>3. Views(Loops(stack)) /\ Shapes' /\ Loops(stack') = Loops(stack)
    BY <1>1, <1>2, EnterIdles
<1> QED BY <1>3 DEF NestEffect, Idles

LEMMA PassIdles ==
    ASSUME TypeOK, Shapes, Countable, stack' = Take(stack), UNCHANGED signal
    PROVE  NestEffect /\ Shapes'
BY TakeIdles DEF NestEffect, Idles

LEMMA PopIdles ==
    ASSUME TypeOK, Shapes, NEW s, Return(s), Top.kind \notin LoopKinds, UNCHANGED signal
    PROVE  NestEffect /\ Shapes'
<1>1. Len(stack) \notin Loops(stack)
    BY LoopsAreIn, LoopsFinite
<1>2. Loops(stack') = Loops(stack)
    BY <1>1, ReturnIdles
<1> QED BY <1>2, ReturnIdles DEF NestEffect, Idles

\* A loop frame that begins.
LEMMA LoopOpens ==
    ASSUME TypeOK, Shapes, Countable, loop_signal = "none", UNCHANGED signal,
           NEW f \in Frame, Shape(f), Enter(f), f.kind \in LoopKinds,
           f.rounds = 0, f.kind = "for" => f.phase = "head"
    PROVE  NestEffect /\ Shapes'
<1>1. /\ Views(Loops(stack)) /\ Shapes' /\ stack'[Len(stack) + 1] = f
      /\ Loops(stack') = Loops(stack) \cup {Len(stack) + 1}
    BY EnterIdles
<1>2. RoundsLeft(f) \in Nat /\ (f.kind # "for" => RoundsLeft(f) = MaxLoopIterations)
    BY DEF RoundsLeft, Frame
<1>3. Nested(f) \in Abstract!Fresh
    BY <1>2 DEF Nested, Abstract!Fresh, Abstract!Loop
<1> QED BY <1>1, <1>3 DEF NestEffect, Opens

LEMMA StatementNest ==
    ASSUME NestInv, PlainScripts, Statement PROVE NestEffect /\ Shapes'
<1>1. AtStatement
    BY DEF Statement, StartIf, StartCase, NoClauseMatches,
       StartLoop, StartFor, StartLine, Malformed, LineRejected
<1>2. TypeOK /\ Shapes /\ Countable /\ loop_signal = "none" /\ UNCHANGED signal
    BY <1>1, QuietAt DEF NestInv, Statement, StartIf, StartCase, NoClauseMatches,
       StartLoop, StartFor, StartLine, Malformed, LineRejected
<1>3. CASE \/ Enter(New("if", "condition")) \/ Enter(New("case", "body"))
           \/ Enter(New("chain", "body"))
    BY <1>2, <1>3, PushIdles
<1>4. CASE stack' = Take(stack)
    BY <1>2, <1>4, PassIdles
<1>5. CASE StartLoop
    <2>1. PICK kind \in Constructs \cap {"while", "until"} : Enter(New(kind, "condition"))
        BY <1>5 DEF StartLoop
    <2> DEFINE f == New(kind, "condition")
    <2>2. f \in Frame /\ Shape(f) /\ f.kind \in LoopKinds /\ f.rounds = 0 /\ f.kind # "for"
        BY <2>1, NewType DEF New, Shape
    <2> HIDE DEF f
    <2> QED BY <1>2, <2>1, <2>2, LoopOpens DEF f
<1>6. CASE StartFor
    <2>1. PICK words \in WordLists : Enter([New("for", "head") EXCEPT !.words = words])
        BY <1>6 DEF StartFor
    <2> DEFINE f == [New("for", "head") EXCEPT !.words = words]
    <2>2. words \in Seq(Nat) /\ Different(words)
        BY <2>1 DEF PlainScripts
    <2>3. f \in Frame /\ f.kind = "for" /\ f.phase = "head" /\ f.rounds = 0 /\ f.words = words
        BY <2>2 DEF New, Frame
    <2>4. Enter(f)
        BY <2>1
    <2> HIDE DEF f
    <2>5. Shape(f)
        BY <2>2, <2>3 DEF Shape
    <2> QED BY <1>2, <2>3, <2>4, <2>5, LoopOpens
<1> QED BY <1>3, <1>4, <1>5, <1>6 DEF Statement, StartIf, StartCase, NoClauseMatches,
       StartLine, Malformed, LineRejected

\* A frame that goes on with the same rounds left.
LEMMA GoOnSameView ==
    ASSUME TypeOK, Shapes, NEW g \in Frame, g.kind = Top.kind, Shape(g), GoOn(g),
           Top.kind \in LoopKinds => Nested(g) = Nested(Top)
    PROVE  Loops(stack') = Loops(stack) /\ Views(Loops(stack)) /\ Shapes'
<1>1. /\ Views(Loops(stack) \ {Len(stack)}) /\ Shapes' /\ stack'[Len(stack)] = g
      /\ Loops(stack') = Loops(stack)
    BY GoOnIdles
<1>2. Len(stack) \in Loops(stack) => Nested(stack'[Len(stack)]) = Nested(stack[Len(stack)])
    BY <1>1, LoopsAreIn, LoopsFinite DEF Top
<1> QED BY <1>1, <1>2 DEF Views

\* A loop that starts its next round.
LEMMA LoopAdvances ==
    ASSUME TypeOK, Shapes, loop_signal = "none", UNCHANGED signal, Top.kind \in LoopKinds,
           NEW g \in Frame, g.kind = Top.kind, Shape(g), GoOn(g), RoundsLeft(Top) > 0,
           RoundsLeft(g) = RoundsLeft(Top) - 1
    PROVE  NestEffect /\ Shapes'
<1>1. /\ Views(Loops(stack) \ {Len(stack)}) /\ Shapes' /\ stack'[Len(stack)] = g
      /\ Loops(stack') = Loops(stack)
    BY GoOnIdles
<1>2. Len(stack) \in Loops(stack)
    BY LoopsAreIn, LoopsFinite
<1>3. Nested(g) = [kind |-> Top.kind, rest |-> RoundsLeft(Top) - 1]
    BY DEF Nested
<1> HIDE DEF LoopKinds
<1> QED BY <1>1, <1>2, <1>3 DEF NestEffect, Advances

LEMMA LoopLeaves ==
    ASSUME TypeOK, Shapes, Top.kind \in LoopKinds, NEW s, LeaveLoop(s),
           \/ /\ loop_signal = "none" /\ UNCHANGED signal
              /\ Top.kind = "for" => RoundsLeft(Top) = 0
           \/ LeavesLoop /\ ConsumeSignal
    PROVE  NestEffect /\ Shapes'
<1>1. /\ Loops(stack') = Loops(stack) \ {Len(stack)}
      /\ Views(Loops(stack')) /\ Shapes'
    BY ReturnIdles DEF LeaveLoop
<1>2. Len(stack) \in Loops(stack)
    BY LoopsAreIn, LoopsFinite
<1> HIDE DEF LoopKinds
<1> QED BY <1>1, <1>2 DEF NestEffect, Closes, Unwinds

LEMMA PendingIsBody ==
    ASSUME NestInv, Top.kind \in LoopKinds, Top.phase # "body"
    PROVE  loop_signal = "none"
<1>1. Len(stack) \in Loops(stack) /\ Len(stack) \notin Bodies(stack)
    BY LoopsAreIn, LoopsFinite DEF NestInv
<1> QED BY <1>1 DEF NestInv, PendingInBodies

LEMMA TopShape == ASSUME NestInv PROVE Shape(Top)
BY LoopsAreIn DEF NestInv, Shapes, Top

LEMMA LoopConditionNest ==
    ASSUME NestInv, LoopConditionEnds PROVE NestEffect /\ Shapes'
<1>1. /\ Top \in Frame /\ Top.kind \in LoopKinds \ {"for"} /\ Top.phase = "condition"
      /\ TypeOK /\ Shapes /\ UNCHANGED signal
    BY LoopsAreIn DEF LoopConditionEnds, NestInv
<1>2. loop_signal = "none"
    BY <1>1, PendingIsBody
<1>3. CASE LeaveLoop(Top.result)
    BY <1>1, <1>2, <1>3, LoopLeaves
<1>4. CASE /\ Top.rounds < MaxLoopIterations
           /\ GoOn([Top EXCEPT !.phase = "body", !.left = MaxSpan, !.rounds = Top.rounds + 1])
    <2> DEFINE r == Top.rounds + 1
               g == [Top EXCEPT !.phase = "body", !.left = MaxSpan, !.rounds = r]
    <2>1. r \in Nat
        BY <1>1 DEF Frame
    <2> HIDE DEF r
    <2>2. g \in Frame /\ g.kind = Top.kind /\ g.rounds = r
        BY <1>1, <2>1 DEF Frame
    <2>3. GoOn(g)
        BY <1>4 DEF r
    <2> HIDE DEF g
    <2>4. Shape(g) /\ RoundsLeft(Top) > 0 /\ RoundsLeft(g) = RoundsLeft(Top) - 1
        BY <1>1, <1>4, <2>2 DEF Shape, RoundsLeft, r, Frame
    <2> QED BY <1>1, <1>2, <2>2, <2>3, <2>4, LoopAdvances
<1> QED BY <1>3, <1>4 DEF LoopConditionEnds

LEMMA LoopBodyNest ==
    ASSUME NestInv, LoopBodyEnds PROVE NestEffect /\ Shapes'
<1>1. /\ Top \in Frame /\ Top.kind \in LoopKinds \ {"for"} /\ status \in {0, 1}
      /\ TypeOK /\ Shapes /\ ConsumeSignal
    BY LoopsAreIn DEF LoopBodyEnds, NestInv, TypeOK
<1>2. CASE LeavesLoop /\ LeaveLoop(status)
    BY <1>1, <1>2, LoopLeaves
<1>3. CASE /\ ~LeavesLoop
           /\ GoOn([Top EXCEPT !.phase = "condition", !.left = MaxSpan, !.result = status])
    <2> DEFINE g == [Top EXCEPT !.phase = "condition", !.left = MaxSpan, !.result = status]
    <2>1. g \in Frame /\ g.kind = Top.kind /\ g.rounds = Top.rounds
        BY <1>1 DEF Frame
    <2>2. GoOn(g)
        BY <1>3
    <2> HIDE DEF g
    <2>3. Shape(g) /\ Nested(g) = Nested(Top)
        BY <1>1, <2>1 DEF Shape, Nested, RoundsLeft
    <2>4. Loops(stack') = Loops(stack) /\ Views(Loops(stack)) /\ Shapes'
        BY <1>1, <2>1, <2>2, <2>3, GoOnSameView
    <2> QED BY <1>1, <1>3, <2>4 DEF NestEffect, Repeats
<1> QED BY <1>2, <1>3 DEF LoopBodyEnds

LEMMA ForHeadNest ==
    ASSUME NestInv, ForHead PROVE NestEffect /\ Shapes'
<1>1. /\ Top \in Frame /\ Top.kind = "for" /\ Top.phase = "head"
      /\ TypeOK /\ Shapes /\ UNCHANGED signal /\ Shape(Top)
    BY LoopsAreIn, TopShape DEF ForHead, NestInv
<1>2. loop_signal = "none"
    BY <1>1, PendingIsBody
<1>w. Top.words \in Seq(Nat)
    BY <1>1 DEF Frame
<1>3. CASE Top.words = << >> /\ LeaveLoop(Top.result)
    <2>1. RoundsLeft(Top) = 0
        BY <1>1, <1>3 DEF RoundsLeft
    <2> QED BY <1>1, <1>2, <1>3, <2>1, LoopLeaves
<1>4. CASE /\ Top.words # << >>
           /\ GoOn([Top EXCEPT !.phase = "body", !.left = MaxSpan])
    <2> DEFINE g == [Top EXCEPT !.phase = "body", !.left = MaxSpan]
    <2>1. g \in Frame /\ g.kind = "for" /\ g.phase = "body" /\ g.words = Top.words
        BY <1>1 DEF Frame
    <2>2. GoOn(g)
        BY <1>4
    <2> HIDE DEF g
    <2>a. Len(Top.words) \in Nat \ {0}
        BY <1>4, <1>w
    <2>3. Shape(g) /\ RoundsLeft(Top) > 0 /\ RoundsLeft(g) = RoundsLeft(Top) - 1
        BY <1>1, <1>4, <2>a, <2>1 DEF Shape, RoundsLeft
    <2> QED BY <1>1, <1>2, <2>1, <2>2, <2>3, LoopAdvances
<1> QED BY <1>3, <1>4 DEF ForHead

LEMMA ForBodyNest ==
    ASSUME NestInv, ForBodyEnds PROVE NestEffect /\ Shapes'
<1>1. /\ Top \in Frame /\ Top.kind = "for" /\ Top.phase = "body" /\ status \in {0, 1}
      /\ TypeOK /\ Shapes /\ ConsumeSignal /\ Shape(Top)
    BY LoopsAreIn, TopShape DEF ForBodyEnds, NestInv, TypeOK
<1>2. CASE LeavesLoop /\ LeaveLoop(status)
    BY <1>1, <1>2, LoopLeaves
<1>3. CASE /\ ~LeavesLoop
           /\ \/ GoOn([Top EXCEPT !.phase = "head", !.result = status,
                                  !.words = SkipRawWord(Top.words)])
              \/ GoOn([Top EXCEPT !.phase = "head", !.result = status,
                                  !.words = NextWord(Top.words)])
    <2> DEFINE w == NextWord(Top.words)
               g == [Top EXCEPT !.phase = "head", !.result = status, !.words = w]
    <2>1. Top.words \in Seq(Nat) /\ Top.words # << >> /\ Different(Top.words)
        BY <1>1 DEF Frame, Shape
    <2>2. /\ w \in Seq(Nat) /\ Different(w) /\ Len(w) = Len(Top.words) - 1
          /\ SkipRawWord(Top.words) = w
        BY <2>1, NextWordIs
    <2>3. GoOn(g)
        BY <1>3, <2>2
    <2> HIDE DEF w
    <2>4. g \in Frame /\ g.kind = "for" /\ g.phase = "head" /\ g.words = w
        BY <1>1, <2>2 DEF Frame
    <2> HIDE DEF g
    <2>5. Shape(g)
        BY <2>2, <2>4 DEF Shape
    <2>6. RoundsLeft(g) = RoundsLeft(Top)
        BY <1>1, <2>2, <2>4, <2>1 DEF RoundsLeft
    <2>7. Nested(g) = Nested(Top)
        BY <1>1, <2>4, <2>6 DEF Nested
    <2>8. Loops(stack') = Loops(stack) /\ Views(Loops(stack)) /\ Shapes'
        BY <1>1, <2>3, <2>4, <2>5, <2>7, GoOnSameView
    <2> QED BY <1>1, <1>3, <2>8 DEF NestEffect, Repeats
<1> QED BY <1>2, <1>3 DEF ForBodyEnds

LEMMA IfDecidesNest ==
    ASSUME NestInv, IfDecides PROVE NestEffect /\ Shapes'
<1>1. /\ Top \in Frame /\ Top.kind = "if" /\ TypeOK /\ Shapes /\ UNCHANGED signal
    BY LoopsAreIn DEF IfDecides, NestInv
<1>2. CASE Return(0)
    BY <1>1, <1>2, PopIdles
<1>3. ASSUME NEW g, GoOn(g), NEW phase \in {"condition", "body"},
             \/ g = [Top EXCEPT !.phase = phase, !.left = MaxSpan]
             \/ g = [Top EXCEPT !.phase = phase, !.left = MaxSpan, !.rounds = Top.rounds + 1]
      PROVE  NestEffect /\ Shapes'
    <2> DEFINE r == Top.rounds + 1
    <2>1. r \in Nat
        BY <1>1 DEF Frame
    <2> HIDE DEF r
    <2>2. g \in Frame /\ g.kind = "if"
        <3>1. CASE g = [Top EXCEPT !.phase = phase, !.left = MaxSpan]
            BY <1>1, <3>1 DEF Frame
        <3>2. CASE g = [Top EXCEPT !.phase = phase, !.left = MaxSpan, !.rounds = r]
            BY <1>1, <2>1, <3>2 DEF Frame
        <3> QED BY <1>3, <3>1, <3>2 DEF r
    <2>3. Loops(stack') = Loops(stack) /\ Views(Loops(stack)) /\ Shapes'
        BY <1>1, <1>3, <2>2, GoOnSameView DEF Shape
    <2> QED BY <1>1, <2>3 DEF NestEffect, Idles
<1>4. \/ Return(0)
      \/ \E phase \in {"condition", "body"} :
            \/ GoOn([Top EXCEPT !.phase = phase, !.left = MaxSpan])
            \/ GoOn([Top EXCEPT !.phase = phase, !.left = MaxSpan, !.rounds = Top.rounds + 1])
    BY DEF IfDecides
<1> QED BY <1>2, <1>3, <1>4

LEMMA UnterminatedNest ==
    ASSUME NestInv, Unterminated PROVE NestEffect /\ Shapes'
<1>1. Top \in Frame /\ TypeOK /\ Shapes /\ UNCHANGED signal /\ Shape(Top)
    BY LoopsAreIn, TopShape DEF Unterminated, NestInv
<1> DEFINE g == [Top EXCEPT !.left = 0]
<1>2. g \in Frame /\ Same(Top, g)
    BY <1>1 DEF Frame, Same
<1>3. GoOn(g)
    BY DEF Unterminated
<1> HIDE DEF g
<1>4. Shape(g) /\ Nested(g) = Nested(Top)
    BY <1>1, <1>2, SameIs
<1>5. g.kind = Top.kind
    BY <1>2 DEF Same
<1>6. Loops(stack') = Loops(stack) /\ Views(Loops(stack)) /\ Shapes'
    BY <1>1, <1>2, <1>3, <1>4, <1>5, GoOnSameView
<1> QED BY <1>1, <1>6 DEF NestEffect, Idles

LEMMA SpanEndNest == ASSUME NestInv, SpanEnd PROVE NestEffect /\ Shapes'
<1>1. CASE BodyEnds
    <2>1. (Return(status) \/ Return(1)) /\ Top.kind \notin LoopKinds /\ UNCHANGED signal
        BY <1>1 DEF BodyEnds
    <2> QED BY <2>1, PopIdles DEF NestInv
<1> QED BY <1>1, IfDecidesNest, UnterminatedNest, LoopConditionNest, LoopBodyNest,
           ForHeadNest, ForBodyNest DEF SpanEnd

LEMMA BreakNest ==
    ASSUME NestInv, PlainScripts, BreakOrContinue PROVE NestEffect /\ Shapes'
<1>1. /\ TypeOK /\ Shapes /\ DepthIsNesting /\ Countable /\ loop_signal = "none"
      /\ stack' = Take(stack)
    BY QuietAt DEF BreakOrContinue, NestInv, Segment
<1>2. Loops(stack') = Loops(stack) /\ Views(Loops(stack)) /\ Shapes'
    BY <1>1, TakeIdles
<1>3. PICK command \in Constructs \cap {"break", "continue"}, level \in 1..MaxLevel :
          IF active_loop_depth <= 0
          THEN UNCHANGED signal
          ELSE MayRaise(level) /\ loop_signal' = command /\ loop_signal_level' = level
    BY DEF BreakOrContinue
<1>4. CASE UNCHANGED signal
    BY <1>2, <1>4 DEF NestEffect, Idles
<1>5. CASE MayRaise(level) /\ loop_signal' = command /\ loop_signal_level' = level
    <2>1. level <= active_loop_depth
        BY <1>5 DEF MayRaise, PlainScripts
    <2>2. level \in 1..Cardinality(Loops(stack))
        BY <1>1, <1>3, <2>1, LoopsAreIn, LoopsFinite DEF DepthIsNesting
    <2> QED BY <1>1, <1>2, <1>5, <2>2 DEF NestEffect, Asks
<1> QED BY <1>3, <1>4, <1>5

LEMMA ChainNest == ASSUME NestInv, PlainScripts, ChainStep PROVE NestEffect /\ Shapes'
<1>1. TypeOK /\ Shapes /\ (AtSegment => Countable)
    BY QuietAt DEF NestInv
<1>2. CASE SimpleCommand
    BY <1>1, <1>2, PassIdles DEF SimpleCommand, Segment
<1>3. CASE BreakOrContinue
    BY <1>3, BreakNest
<1>4. CASE CallFunction
    BY <1>1, <1>4, PassIdles, PushIdles DEF CallFunction, Segment
<1>5. CASE Source
    BY <1>1, <1>5, PassIdles, PushIdles DEF Source, Segment
<1>6. CASE Eval
    BY <1>1, <1>6, PassIdles, PushIdles DEF Eval, Segment
<1>7. CASE ChainEnds
    BY <1>1, <1>7, PopIdles DEF ChainEnds
<1>8. CASE ScriptEnds
    BY <1>1, <1>8, PopIdles DEF ScriptEnds
<1> QED BY <1>2, <1>3, <1>4, <1>5, <1>6, <1>7, <1>8 DEF ChainStep

LEMMA NextNest == ASSUME NestInv, PlainScripts, Next PROVE NestEffect /\ Shapes'
BY StatementNest, SpanEndNest, ChainNest DEF Next

LEMMA PendingStaysInside ==
    ASSUME NestInv, PlainScripts, [Next]_vars
    PROVE  PendingInBodies'
<1>1. CASE UNCHANGED vars
    BY <1>1 DEF vars, NestInv, PendingInBodies
<1>2. CASE Next
    <2>1. /\ stack' \in Stacks /\ Effect /\ NestEffect
        BY <1>2, NextEffect, NextNest DEF NestInv, Typed
    <2>2. Bodies(stack') \subseteq Loops(stack') /\ Len(stack) + 1 \notin Loops(stack)
        BY LoopsAreIn, LoopsFinite DEF NestInv, Bodies
    <2>3. loop_signal # "none" => Loops(stack) = Bodies(stack)
        BY DEF NestInv, PendingInBodies
    <2> HIDE DEF LoopKinds
    <2>4. CASE Stays \/ StartsBody \/ Finishes
        BY <2>2, <2>3, <2>4 DEF Stays, StartsBody, Finishes, PendingInBodies, signal
    <2>5. CASE Raises
        BY <2>5 DEF Raises, MayRaise, PlainScripts, PendingInBodies
    <2>6. CASE Begins
        <3>1. Opens
            BY <2>1, <2>2, <2>6 DEF Begins, NestEffect, Idles, Asks, Advances, Closes, Unwinds, Repeats
        <3> QED BY <3>1 DEF Opens, signal, PendingInBodies
    <2>7. CASE BreaksOut
        <3>1. loop_signal # "none"
            BY <2>7 DEF BreaksOut, LeavesLoop
        <3> QED BY <2>3, <2>7, <3>1 DEF BreaksOut, PendingInBodies
    <2>8. CASE GoesRound
        <3>1. loop_signal' = "none"
            BY <2>8 DEF GoesRound, ConsumeSignal, LeavesLoop, NestInv, SignalHasLevel, TypeOK
        <3> QED BY <3>1 DEF PendingInBodies
    <2> QED BY <2>1, <2>4, <2>5, <2>6, <2>7, <2>8 DEF Effect
<1> QED BY <1>1, <1>2

-----------------------------------------------------------------------------
(* The refinement.                                                         *)

OwedInNest ==
    /\ Owed \in 0..Cardinality(Loops(stack))
    /\ stack \in Seq(Frame) /\ Cardinality(Loops(stack)) \in Nat
    /\ loop_signal = "none" => Owed = 0

LEMMA OwedBound == NestInv => OwedInNest
<1> SUFFICES ASSUME NestInv PROVE OwedInNest
    OBVIOUS
<1>1. /\ stack \in Stacks /\ loop_signal_level \in Nat
      /\ loop_signal \in {"none", "break", "continue"}
      /\ loop_signal # "none" => loop_signal_level # 0
      /\ loop_signal_level <= Cardinality(Bodies(stack))
    BY LoopsAreIn DEF NestInv, TypeOK, SignalHasLevel, PendingInsideLoop
<1>2. /\ IsFiniteSet(Loops(stack)) /\ Cardinality(Loops(stack)) \in Nat
      /\ Bodies(stack) \in SUBSET Loops(stack) /\ Cardinality(Bodies(stack)) \in Nat
    BY <1>1, LoopsFinite
<1>3. Cardinality(Bodies(stack)) <= Cardinality(Loops(stack))
    BY <1>2, FS_Subset
<1>4. Owed \in 0..Cardinality(Loops(stack)) /\ (loop_signal = "none" => Owed = 0)
    BY <1>1, <1>2, <1>3 DEF Owed
<1> QED BY <1>1, <1>2, <1>4 DEF Stacks, OwedInNest

\* Consuming the signal takes one of the loops that are owed.
LEMMA OwedConsumed ==
    ASSUME NestInv, ConsumeSignal
    PROVE  /\ LeavesLoop => Owed' = Owed - 1
           /\ ~LeavesLoop => Owed = 0 /\ Owed' = 0
<1>1. /\ loop_signal_level \in Nat
      /\ loop_signal \in {"none", "break", "continue"}
      /\ loop_signal # "none" <=> loop_signal_level # 0
    BY DEF NestInv, TypeOK, SignalHasLevel
<1>2. CASE loop_signal_level <= 1
    <2>1. loop_signal' = "none" /\ Owed' = 0
        BY <1>2 DEF ConsumeSignal, Owed
    <2> QED BY <1>1, <1>2, <2>1 DEF LeavesLoop, Owed
<1>3. CASE loop_signal_level > 1
    <2>1. loop_signal' = loop_signal /\ loop_signal_level' = loop_signal_level - 1
        BY <1>1, <1>3 DEF ConsumeSignal
    <2>2. CASE loop_signal = "break"
        BY <1>1, <1>3, <2>1, <2>2 DEF LeavesLoop, Owed
    <2>3. CASE loop_signal = "continue"
        BY <1>1, <1>3, <2>1, <2>3 DEF LeavesLoop, Owed
    <2> QED BY <1>1, <1>3, <2>2, <2>3
<1> QED BY <1>1, <1>2, <1>3

LEMMA NestIs == Nest = NestOf(stack, Owed)
BY DEF Nest, NestOf

LEMMA NextImplementsNest ==
    ASSUME NestInv, NestInv', PlainScripts, Next
    PROVE  [Abstract!Next]_Nest
<1> DEFINE s == stack
           t == stack'
           o == Owed
           p == Owed'
           c == Cardinality(Loops(s))
           N == {Nested(f) : f \in Frame}
<1>1. /\ s \in Seq(Frame) /\ c \in Nat /\ o \in Nat /\ o <= c
      /\ loop_signal = "none" => o = 0
    BY OwedBound DEF OwedInNest
<1>2. /\ t \in Seq(Frame) /\ Cardinality(Loops(t)) \in Nat /\ p \in Nat /\ p <= Cardinality(Loops(t))
      /\ loop_signal' = "none" => p = 0
    <2>1. (NestInv => OwedInNest)'
        BY OwedBound, PTL
    <2> QED BY <2>1 DEF OwedInNest
<1>3. Nest = NestOf(s, o) /\ Nest' = NestOf(t, p)
    BY NestIs DEF Nest, NestOf
<1>4. NestOf(s, o) \in Seq(N) /\ Len(NestOf(s, o)) = c - o
    BY <1>1, NestIsSeq
<1>5. NestEffect
    BY NextNest
<1>6. CASE Loops(t) = Loops(s) /\ Views(Loops(s)) /\ p = o
    <2>a. Cardinality(Loops(t)) = c
        BY <1>6, Zenon
    <2>b. Cardinality(Loops(t)) - p = c - o /\ c - o <= c - o
        BY <1>1, <1>6, <2>a
    <2>c. Outer(s, t)
        BY <1>6 DEF Outer, Views
    <2>1. NestOf(t, p) = SubSeq(NestOf(s, o), 1, c - o)
        BY <1>1, <1>2, <2>b, <2>c, NestCut
    <2> HIDE DEF s, t, o, p, c, N
    <2>2. NestOf(t, p) = NestOf(s, o)
        BY <1>4, <2>1
    <2> QED BY <1>3, <2>2
<1>7. CASE Idles
    BY <1>6, <1>7 DEF Idles, signal, Owed
<1>8. CASE Repeats
    BY <1>6, <1>8, OwedConsumed DEF Repeats
<1>9. CASE Asks
    <2>1. o = 0 /\ loop_signal_level' \in 1..c /\ p \in {loop_signal_level', loop_signal_level' - 1}
        BY <1>1, <1>9 DEF Asks, Owed
    <2>a. Cardinality(Loops(t)) = c /\ Loops(t) = Loops(s)
        BY <1>9, Zenon DEF Asks
    <2>b. Cardinality(Loops(t)) - p = c - p /\ c - p <= c - o
        BY <1>1, <1>2, <2>1, <2>a
    <2>c. Outer(s, t)
        BY <1>9 DEF Outer, Asks, Views
    <2>2. NestOf(t, p) = SubSeq(NestOf(s, o), 1, c - p)
        BY <1>1, <1>2, <2>b, <2>c, NestCut
    <2> DEFINE n == loop_signal_level'
    <2> HIDE DEF s, t, o, p, c, N, n
    <2>3. Len(Nest) = c /\ n \in 1..Len(Nest)
        BY <1>1, <1>3, <1>4, <2>1 DEF n
    <2>4. CASE p = n
        BY <1>3, <2>1, <2>2, <2>3, <2>4 DEF Abstract!Next, Abstract!Break, Abstract!Drop
    <2>5. CASE p = n - 1
        BY <1>3, <2>1, <2>2, <2>3, <2>5 DEF Abstract!Next, Abstract!Continue, Abstract!Drop
    <2> QED BY <2>1, <2>4, <2>5 DEF n
<1>10. CASE Opens
    <2>1. o = 0 /\ p = 0
        BY <1>1, <1>2, <1>10 DEF Opens, signal
    <2>2. /\ Len(NestOf(t, 0)) = Len(NestOf(s, 0)) + 1
          /\ NestOf(s, 0) = SubSeq(NestOf(t, 0), 1, Len(NestOf(s, 0)))
          /\ NestOf(t, 0)[Len(NestOf(t, 0))] = Nested(t[Len(s) + 1])
        BY <1>1, <1>2, <1>10, NestPush DEF Opens, Views
    <2>3. Nested(t[Len(s) + 1]) \in Abstract!Fresh
        BY <1>10 DEF Opens
    <2> HIDE DEF s, t, o, p, c, N
    <2> QED BY <1>3, <2>1, <2>2, <2>3 DEF Abstract!Next, Abstract!Enter
<1>11. CASE Advances
    <2>1. o = 0 /\ p = 0
        BY <1>1, <1>2, <1>11 DEF Advances, signal
    <2> DEFINE a == NestOf(s, 0)
               b == NestOf(t, 0)
    <2>2. /\ a \in Seq(N) /\ Len(a) > 0
          /\ a[Len(a)] = Nested(s[Len(s)])
          /\ b = [a EXCEPT ![Len(a)] = Nested(t[Len(s)])]
        BY <1>1, <1>2, <1>11, NestTop DEF Advances, Views
    <2>3. /\ RoundsLeft(Top) > 0 /\ Nested(s[Len(s)]) = [kind |-> Top.kind, rest |-> RoundsLeft(Top)]
          /\ Nested(t[Len(s)]) = [kind |-> Top.kind, rest |-> RoundsLeft(Top) - 1]
        BY <1>11 DEF Advances, Top, Nested
    <2> HIDE DEF s, t, o, p, c, N, a, b
    <2>4. a # << >> /\ a[Len(a)].rest > 0
        BY <2>2, <2>3
    <2>5. Nested(t[Len(s)]) = [a[Len(a)] EXCEPT !.rest = @ - 1]
        BY <2>2, <2>3
    <2>6. b = [a EXCEPT ![Len(a)].rest = @ - 1]
        BY <2>2, <2>5
    <2>7. Nest = a /\ Nest' = b
        BY <1>3, <2>1 DEF a, b
    <2> QED BY <2>4, <2>6, <2>7 DEF Abstract!Next, Abstract!Round, Abstract!Innermost
<1>12. CASE Closes
    <2>1. o = 0 /\ p = 0
        BY <1>1, <1>2, <1>12 DEF Closes, signal
    <2>a. Cardinality(Loops(t)) = Cardinality(Loops(s) \ {Len(s)})
        BY <1>12, Zenon DEF Closes
    <2>d. Len(s) \in Loops(s)
        BY <1>12 DEF Closes
    <2>e. Cardinality(Loops(s) \ {Len(s)}) = c - 1 /\ c \in Nat \ {0}
        BY <1>1, <2>d, TopIsLast
    <2>2. Cardinality(Loops(t)) = c - 1 /\ c > 0
        BY <2>a, <2>e
    <2>b. Cardinality(Loops(t)) - p = c - 1 /\ c - 1 <= c - o
        BY <1>1, <2>1, <2>2
    <2>c. Outer(s, t)
        BY <1>12 DEF Outer, Closes, Views
    <2>3. NestOf(t, p) = SubSeq(NestOf(s, o), 1, c - 1)
        BY <1>1, <1>2, <2>b, <2>c, NestCut
    <2>4. NestOf(s, 0)[Len(NestOf(s, 0))] = Nested(Top)
        BY <1>1, <1>12, NestTop DEF Closes, Top
    <2>5. Nested(Top).kind = "for" => Nested(Top).rest = 0
        BY <1>12 DEF Closes, Nested
    <2> HIDE DEF s, t, o, p, c, N
    <2>6. Len(Nest) = c /\ Nest # << >>
        BY <1>1, <1>3, <1>4, <2>1, <2>2
    <2> QED BY <1>3, <2>1, <2>3, <2>4, <2>5, <2>6
            DEF Abstract!Next, Abstract!Leave, Abstract!Innermost, Abstract!Drop
<1>13. CASE Unwinds
    <2>1. p = o - 1
        BY <1>13, OwedConsumed DEF Unwinds
    <2>a. Cardinality(Loops(t)) = Cardinality(Loops(s) \ {Len(s)})
        BY <1>13, Zenon DEF Unwinds
    <2>2. Cardinality(Loops(t)) = c - 1
        BY <1>1, <1>13, <2>a, TopIsLast DEF Unwinds
    <2>3. Cardinality(Loops(t)) - p = c - o /\ c - o <= c - o
        BY <1>1, <1>2, <2>1, <2>2
    <2>c. Outer(s, t)
        BY <1>13 DEF Outer, Unwinds, Views
    <2>4. NestOf(t, p) = SubSeq(NestOf(s, o), 1, c - o)
        BY <1>1, <1>2, <2>3, <2>c, NestCut
    <2> HIDE DEF s, t, o, p, c, N
    <2>5. NestOf(t, p) = NestOf(s, o)
        BY <1>4, <2>4
    <2> QED BY <1>3, <2>5
<1> HIDE DEF s, t, o, p, c, N
<1> QED BY <1>5, <1>7, <1>8, <1>9, <1>10, <1>11, <1>12, <1>13 DEF NestEffect

\* The interpreter implements the nest of loops, in which `break n` leaves n
\* loops and `continue n` n - 1 in one step: while the signal is passed from
\* loop to loop nothing else of the nest changes, whatever is between the loops.
THEOREM NestIsRefined == ASSUME PlainScripts PROVE Spec => NestRefined
<1>1. Init => PendingInBodies /\ Shapes /\ Abstract!Init
    <2> SUFFICES ASSUME Init PROVE PendingInBodies /\ Shapes /\ Abstract!Init
        OBVIOUS
    <2>1. Shapes
        BY DEF Init, Shapes, Shape, New
    <2>2. Loops(stack) = {} /\ Owed = 0
        BY DEF Init, Loops, New, Owed
    <2>3. Cardinality(Loops(stack)) = 0
        BY <2>2, FS_EmptySet
    <2>4. Nest = << >>
        BY <2>2, <2>3 DEF Nest
    <2> QED BY <2>1, <2>4 DEF Init, PendingInBodies, Abstract!Init
<1>2. TypeOK /\ SignalHasLevel /\ DepthIsNesting /\ PendingInsideLoop
        /\ PendingInBodies /\ Shapes /\ [Next]_vars => PendingInBodies' /\ Shapes'
    <2>1. NestInv /\ UNCHANGED vars => Shapes'
        BY DEF NestInv, vars, Shapes
    <2> QED BY <2>1, PendingStaysInside, NextNest DEF NestInv
<1>3. NestInv /\ NestInv' /\ [Next]_vars => [Abstract!Next]_Nest
    <2>1. UNCHANGED vars => Nest' = Nest
        BY DEF vars, Nest, Owed
    <2> QED BY <2>1, NextImplementsNest
<1>4. Spec => []PendingInsideLoop
    BY LevelsCorrect DEF PlainScripts
<1> QED BY <1>1, <1>2, <1>3, <1>4, TypeCorrect, SignalCorrect, NestingCorrect, PTL DEF Spec, NestRefined, Abstract!Spec, NestInv
=============================================================================
