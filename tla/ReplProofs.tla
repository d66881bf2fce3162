----------------------------- MODULE ReplProofs -----------------------------
(***************************************************************************)
(* What holds of the main loop, its chains and its traps for all lines,    *)
(* traps and children, and every bound.  A step cuts the stack of chains   *)
(* to some length and moves the chain that is then at the top on, or puts  *)
(* one more chain on it, or ends the shell.                                *)
(***************************************************************************)
EXTENDS Repl, FiniteSetTheorems, WellFoundedInduction, TLAPS

-----------------------------------------------------------------------------
(* Sequences and records.                                                  *)

LEMMA AppendType ==
    ASSUME NEW S, NEW q \in Seq(S), NEW e \in S
    PROVE  Append(q, e) \in Seq(S) /\ Append(q, e) # << >>
<1>1. Append(q, e) \in Seq(S) /\ Len(Append(q, e)) = Len(q) + 1 /\ Len(q) \in Nat
    OBVIOUS
<1>2. Len(Append(q, e)) # 0
    BY <1>1
<1> QED BY <1>1, <1>2

LEMMA ChangeType ==
    ASSUME NEW S, NEW q \in Seq(S), NEW k \in 1..Len(q), NEW e \in S,
           NEW s, s = [q EXCEPT ![k] = e]
    PROVE  /\ s \in Seq(S) /\ Len(s) = Len(q)
           /\ \A i \in 1..Len(q) : s[i] = IF i = k THEN e ELSE q[i]
OBVIOUS

LEMMA CutType ==
    ASSUME NEW S, NEW q \in Seq(S), NEW k \in 1..Len(q), NEW e \in S,
           NEW s, s = [SubSeq(q, 1, k) EXCEPT ![k] = e]
    PROVE  /\ s \in Seq(S) /\ Len(s) = k /\ k \in 0..Len(q)
           /\ \A i \in 1..k : s[i] = IF i = k THEN e ELSE q[i]
<1> DEFINE r == SubSeq(q, 1, k)
<1>1. k \in Nat /\ Len(q) \in Nat /\ k \in 0..Len(q)
    OBVIOUS
<1>2. r \in Seq(S) /\ Len(r) = k /\ \A i \in 1..k : r[i] = q[i]
    OBVIOUS
<1>3. s = [r EXCEPT ![k] = e]
    OBVIOUS
<1> HIDE DEF r
<1> QED BY <1>1, <1>2, <1>3

Counts == [lines : Nat, dropped : Nat, ctrlc : Nat, exit : Nat]

\* Of the counts c, one is one more, or only that of EXIT traps changes.
LEMMA CountsType ==
    ASSUME NEW c \in Counts
    PROVE  /\ [c EXCEPT !.lines = @ + 1] \in Counts
           /\ [c EXCEPT !.dropped = @ + 1] \in Counts
           /\ [c EXCEPT !.exit = @ + 1] \in Counts
           /\ [c EXCEPT !.lines = @ + 1].exit = c.exit
           /\ [c EXCEPT !.dropped = @ + 1].exit = c.exit
           /\ [c EXCEPT !.exit = @ + 1].exit = c.exit + 1
           /\ [c EXCEPT !.exit = c.exit] = c
BY DEF Counts

USE ReplAssumption DEF Statuses, Children

-----------------------------------------------------------------------------
(* Stacks of chains.                                                       *)

\* A line or the INT trap is outermost, a child has a parent, and a chain with
\* another above it still has the segment that this one belongs to.  Only the
\* EXIT trap at the end of the input may be without a code.
Nested ==
    \A i \in DOMAIN stack :
        /\ stack[i].kind \in {"line", "int"} => i = 1
        /\ stack[i].kind \in Children => i > 1
        /\ stack[i].kind = "exit" /\ i > 1 => stack[i].code \in Statuses
        /\ i < Len(stack) => stack[i].todo # << >>

\* b is a after some of its segments, or their expansion.
Goes(a, b) ==
    /\ b.kind = a.kind /\ b.code = a.code
    /\ \A j \in DOMAIN b.todo :
          b.todo[j].cmd = "run" \/ \E k \in DOMAIN a.todo : b.todo[j].cmd = a.todo[k].cmd

\* s is the stack without the chains above n.
Cut(s, n) ==
    /\ s \in Seq(Activation) /\ n \in 0..Len(stack) /\ Len(s) = n
    /\ \A i \in 1..n : Goes(stack[i], s[i])
    /\ \A i \in 1..n : i < n => s[i].todo = stack[i].todo

SameTraps(s, n) == \A i \in 1..n : s[i].kept = stack[i].kept

LEMMA SegmentTypes == ASSUME NEW q \in Seq(Segments), q # << >>
                      PROVE  /\ Tail(q) \in Seq(Segments)
                             /\ \A j \in DOMAIN Tail(q) : \E k \in DOMAIN q : Tail(q)[j].cmd = q[k].cmd
<1>1. \A j \in DOMAIN Tail(q) : j + 1 \in DOMAIN q /\ Tail(q)[j] = q[j + 1]
    OBVIOUS
<1> QED BY <1>1

LEMMA DoneType ==
    ASSUME NEW f \in Activation, f.todo # << >>, NEW st \in Statuses
    PROVE  Done(f, st) \in Activation /\ Goes(f, Done(f, st)) /\ Done(f, st).kept = f.kept
<1> DEFINE q == Tail(f.todo)
<1>1. q \in Seq(Segments) /\ \A j \in DOMAIN q : \E k \in DOMAIN f.todo : q[j].cmd = f.todo[k].cmd
    BY SegmentTypes DEF Activation
<1>2. Done(f, st) = [f EXCEPT !.todo = q, !.status = st]
    BY DEF Done
<1> HIDE DEF q
<1>3. Done(f, st) = [kind |-> f.kind, todo |-> q, status |-> st, code |-> f.code, kept |-> f.kept]
    BY <1>2 DEF Activation
<1> QED BY <1>1, <1>3 DEF Activation, Goes

LEMMA ExpandedType ==
    ASSUME NEW f \in Activation, f.todo # << >>
    PROVE  Expanded(f) \in Activation /\ Goes(f, Expanded(f)) /\ Expanded(f).kept = f.kept
<1> DEFINE a == Head(f.todo)
           h == [a EXCEPT !.cmd = "run"]
           q == <<h>> \o Tail(f.todo)
<1>1. a \in Segments /\ f.todo \in Seq(Segments)
    BY DEF Activation
<1>2. h \in Segments /\ h.cmd = "run"
    BY <1>1 DEF Segments, Commands
<1>3. Expanded(f) = [f EXCEPT !.todo = q]
    BY DEF Expanded
<1> HIDE DEF h, a
<1>4. q \in Seq(Segments)
    BY <1>1, <1>2, SegmentTypes
<1>5. \A j \in DOMAIN q : q[j] = IF j = 1 THEN h ELSE f.todo[j]
    BY <1>1, <1>2
<1>6. DOMAIN q = DOMAIN f.todo
    BY <1>1, <1>2
<1> HIDE DEF q
<1>7. Expanded(f) = [kind |-> f.kind, todo |-> q, status |-> f.status, code |-> f.code, kept |-> f.kept]
    BY <1>3 DEF Activation
<1> QED BY <1>2, <1>4, <1>5, <1>6, <1>7 DEF Activation, Goes

\* A frame at k that goes on when those above it are gone.
LEMMA CutAt ==
    ASSUME stack \in Seq(Activation), NEW k \in 1..Len(stack),
           NEW b \in Activation, Goes(stack[k], b), b.kept = stack[k].kept,
           NEW s, s = [SubSeq(stack, 1, k) EXCEPT ![k] = b]
    PROVE  Cut(s, k) /\ SameTraps(s, k)
<1>1. /\ s \in Seq(Activation) /\ Len(s) = k /\ k \in 0..Len(stack)
      /\ \A i \in 1..k : s[i] = IF i = k THEN b ELSE stack[i]
    BY CutType, SMTT(30)
<1>2. \A i \in 1..k : Goes(stack[i], s[i]) /\ s[i].kept = stack[i].kept
    BY <1>1 DEF Goes
<1>3. \A i \in 1..k : i < k => s[i].todo = stack[i].todo
    BY <1>1
<1> HIDE DEF Goes
<1> QED BY <1>1, <1>2, <1>3 DEF Cut, SameTraps

LEMMA OverCuts ==
    ASSUME stack \in Seq(Activation), NEW k \in 1..Len(stack), stack[k].todo # << >>,
           NEW st \in Statuses
    PROVE  Cut(Over(k, st), k) /\ SameTraps(Over(k, st), k)
<1>1. stack[k] \in Activation /\ SubSeq(stack, 1, k)[k] = stack[k]
    OBVIOUS
<1>2. Over(k, st) = [SubSeq(stack, 1, k) EXCEPT ![k] = Done(stack[k], st)]
    BY <1>1 DEF Over
<1> QED BY <1>1, <1>2, DoneType, CutAt

LEMMA TopCuts ==
    ASSUME stack \in Seq(Activation), stack # << >>,
           NEW b \in Activation, Goes(Top, b), b.kept = Top.kept,
           NEW s, s = [stack EXCEPT ![Len(stack)] = b]
    PROVE  Cut(s, Len(stack)) /\ SameTraps(s, Len(stack))
<1>1. SubSeq(stack, 1, Len(stack)) = stack /\ Len(stack) \in 1..Len(stack)
    OBVIOUS
<1> HIDE DEF Activation, Goes
<1> QED BY <1>1, CutAt DEF Top

\* A set of positions has a first one and a last one: the intervals from one of
\* them to either end are finite, and one of them has no smaller one.
LEMMA FirstAndLast ==
    ASSUME NEW n \in Nat, NEW T, T \subseteq 1..n, T # {}
    PROVE  /\ \E i \in T : \A j \in T : i <= j
           /\ \E i \in T : \A j \in T : i >= j
<1> DEFINE R == StrictSubsetOrdering(Int)
<1>1. ASSUME NEW f, f \in [T -> FiniteSubsetsOf(Int)]
      PROVE  \E i \in T : \A j \in T : ~(f[j] \subseteq f[i] /\ f[j] # f[i])
    <2> DEFINE F == {f[i] : i \in T}
    <2>1. F \subseteq FiniteSubsetsOf(Int) /\ F # {}
        BY <1>1
    <2>2. IsWellFoundedOn(R, FiniteSubsetsOf(Int))
        BY FS_StrictSubsetOrderingWellFounded
    <2>3. PICK s \in F : \A t \in F : <<t, s>> \notin R
        <3> HIDE DEF F, R
        <3> QED BY <2>1, <2>2, WFMin
    <2>4. PICK i \in T : s = f[i]
        OBVIOUS
    <2>5. ASSUME NEW j \in T, f[j] \subseteq f[i], f[j] # f[i] PROVE FALSE
        <3>1. f[j] \in SUBSET Int /\ f[i] \in SUBSET Int
            BY <1>1 DEF FiniteSubsetsOf
        <3>2. <<f[j], f[i]>> \in R
            BY <2>5, <3>1 DEF StrictSubsetOrdering
        <3> QED BY <2>3, <2>4, <3>2
    <2> QED BY <2>5
<1>2. \E i \in T : \A j \in T : i <= j
    <2> DEFINE f == [i \in T |-> 1..i]
    <2>1. f \in [T -> FiniteSubsetsOf(Int)]
        BY FS_Interval DEF FiniteSubsetsOf
    <2>2. PICK i \in T : \A j \in T : ~(f[j] \subseteq f[i] /\ f[j] # f[i])
        <3> HIDE DEF f
        <3> QED BY <1>1, <2>1
    <2>3. ASSUME NEW j \in T, j < i PROVE f[j] \subseteq f[i] /\ i \in f[i] /\ i \notin f[j]
        BY <2>3
    <2> QED BY <2>2, <2>3
<1>3. \E i \in T : \A j \in T : i >= j
    <2> DEFINE f == [i \in T |-> i..n]
    <2>1. f \in [T -> FiniteSubsetsOf(Int)]
        BY FS_Interval DEF FiniteSubsetsOf
    <2>2. PICK i \in T : \A j \in T : ~(f[j] \subseteq f[i] /\ f[j] # f[i])
        <3> HIDE DEF f
        <3> QED BY <1>1, <2>1
    <2>3. ASSUME NEW j \in T, j > i PROVE f[j] \subseteq f[i] /\ i \in f[i] /\ i \notin f[j]
        BY <2>3
    <2> QED BY <2>2, <2>3
<1> QED BY <1>2, <1>3

LEMMA ChildPositions ==
    ASSUME stack \in Seq(Activation)
    PROVE  /\ InChild => FirstChild \in ChildrenAt /\ \A j \in ChildrenAt : FirstChild <= j
           /\ InChild => LastChild \in ChildrenAt /\ \A j \in ChildrenAt : LastChild >= j
           /\ StagesAt # {} => FirstStage \in StagesAt /\ \A j \in StagesAt : FirstStage <= j
           /\ StagesAt \subseteq ChildrenAt /\ ChildrenAt \subseteq 1..Len(stack)
           /\ Len(stack) \in Nat
<1>1. StagesAt \subseteq ChildrenAt /\ ChildrenAt \subseteq 1..Len(stack) /\ Len(stack) \in Nat
    BY DEF StagesAt, ChildrenAt
<1>2. InChild => \E i \in ChildrenAt : \A j \in ChildrenAt : i <= j
    BY <1>1, FirstAndLast DEF InChild
<1>3. InChild => \E i \in ChildrenAt : \A j \in ChildrenAt : i >= j
    BY <1>1, FirstAndLast DEF InChild
<1>4. StagesAt # {} => \E i \in StagesAt : \A j \in StagesAt : i <= j
    <2>1. StagesAt \subseteq 1..Len(stack)
        BY <1>1
    <2> QED BY <1>1, <2>1, FirstAndLast
<1> HIDE DEF InChild
<1> QED BY <1>1, <1>2, <1>3, <1>4 DEF FirstChild, LastChild, FirstStage

-----------------------------------------------------------------------------
(* What a step does to the stack and to the exit of the shell.             *)

Continues == pc # "ended" /\ pc' # "ended" /\ UNCHANGED leaving /\ count'.exit = count.exit

\* The chain at n goes on: there is none above it, or a child has ended.
Cuts(n) == Cut(stack', n) /\ (n = Len(stack) \/ n + 1 \in ChildrenAt)

LineEnds == stack' = << >> /\ Len(stack) = 1 /\ Top.kind \in {"line", "int"}

Starts ==
    \E f \in Activation :
        stack = << >> /\ stack' = <<f>> /\ f.kind \in {"line", "int"} /\ f.kept = NoTraps

Forks ==
    \E f \in Activation :
        /\ stack # << >> /\ Top.todo # << >>
        /\ stack' = Append(stack, f) /\ f.kind \in Children /\ f.kept = traps

\* The shell or a child is told to exit, or has no more input.
AtExit == stack = << >> \/ (stack # << >> /\ AtSegment /\ Segment.cmd \in {"exit", "exec"})

RunsExitTrap(code) ==
    /\ AtExit /\ Begins(code) /\ traps.exit \notin {None, << >>} /\ pc # "ended" /\ pc' = "run"
    /\ stack # << >> => code \in Statuses
    /\ stack' = Append(stack, Chain("exit", traps.exit, code))
    /\ count'.exit = IF InChild THEN count.exit ELSE count.exit + 1

Ends(code) ==
    /\ ~InChild /\ pc # "ended" /\ pc' = "ended" /\ stack' = << >>
    /\ exit_status' = IF code = -1 THEN last_status ELSE code
    /\ count'.exit = count.exit
    /\ \/ AtExit /\ Begins(code) /\ traps.exit \in {None, << >>}
       \/ AtExit /\ stack # << >> /\ UNCHANGED leaving
       \/ stack # << >> /\ Top.kind = "exit" /\ code = Top.code /\ UNCHANGED leaving

Effect ==
    \/ Continues /\ (LineEnds \/ Starts \/ Forks \/ \E n \in 0..Len(stack) : Cuts(n))
    \/ \E code \in {-1, 0, 1} : RunsExitTrap(code) \/ Ends(code)

LEMMA TopFacts ==
    ASSUME TypeOK, stack # << >>
    PROVE  /\ Len(stack) \in Nat \ {0} /\ Len(stack) \in DOMAIN stack
           /\ Top \in Activation /\ Top = stack[Len(stack)]
           /\ Top.todo \in Seq(Segments) /\ Top.status \in Statuses /\ pc = "run"
<1>1. stack \in Seq(Activation) /\ pc = "run"
    BY DEF TypeOK
<1>2. /\ Len(stack) \in Nat \ {0} /\ Len(stack) \in DOMAIN stack
      /\ stack[Len(stack)] \in Activation
    BY <1>1
<1> QED BY <1>1, <1>2 DEF Top, Activation

\* The steps that move the chain at the top on.
LEMMA TopGoesOn ==
    ASSUME TypeOK, stack # << >>, NEW b \in Activation, Goes(Top, b), b.kept = Top.kept,
           stack' = [stack EXCEPT ![Len(stack)] = b]
    PROVE  /\ Cuts(Len(stack)) /\ SameTraps(stack', Len(stack))
           /\ stack' \in Seq(Activation) /\ stack' # << >>
<1>1. stack \in Seq(Activation) /\ Len(stack) \in Nat \ {0}
    BY TopFacts DEF TypeOK
<1>2. Cut(stack', Len(stack)) /\ SameTraps(stack', Len(stack))
    BY <1>1, TopCuts
<1> QED BY <1>1, <1>2 DEF Cuts, Cut

LEMMA OverTop ==
    ASSUME TypeOK, AtSegment, NEW st \in Statuses, stack' = Over(Len(stack), st)
    PROVE  /\ Cuts(Len(stack)) /\ SameTraps(stack', Len(stack))
           /\ stack' \in Seq(Activation) /\ stack' # << >>
<1>1. stack # << >> /\ Top.todo # << >> /\ stack \in Seq(Activation)
    BY DEF AtSegment, TypeOK
<1>2. Cut(stack', Len(stack)) /\ SameTraps(stack', Len(stack)) /\ Len(stack) \in Nat \ {0}
    BY <1>1, OverCuts, TopFacts
<1> QED BY <1>2 DEF Cuts, Cut

LEMMA ExpandTop ==
    ASSUME TypeOK, AtSegment, stack' = [stack EXCEPT ![Len(stack)] = Expanded(@)]
    PROVE  /\ Cuts(Len(stack)) /\ SameTraps(stack', Len(stack))
           /\ stack' \in Seq(Activation) /\ stack' # << >>
<1>1. stack # << >> /\ Top.todo # << >>
    BY DEF AtSegment, TypeOK
<1>2. Top \in Activation /\ stack' = [stack EXCEPT ![Len(stack)] = Expanded(Top)]
    BY <1>1, TopFacts
<1> QED BY <1>1, <1>2, ExpandedType, TopGoesOn

\* A segment that is over, or not run.
LEMMA SegmentEffect ==
    ASSUME TypeOK, Skip \/ Empty \/ Bad \/ Run \/ Trap \/ ForkFails
    PROVE  TypeOK' /\ Continues /\ Cuts(Len(stack)) /\ SameTraps(stack', Len(stack))
<1>1. AtSegment /\ stack # << >> /\ Top \in Activation /\ Top.status \in Statuses
      /\ Len(stack) \in Nat
    <2>1. AtSegment
        BY DEF Skip, Empty, Bad, Run, Trap, ForkFails, At
    <2>2. stack # << >>
        BY <2>1 DEF AtSegment, TypeOK
    <2> QED BY <2>1, <2>2, TopFacts
<1>2. /\ Cuts(Len(stack)) /\ SameTraps(stack', Len(stack))
      /\ stack' \in Seq(Activation) /\ stack' # << >>
    <2>1. CASE Skip \/ Empty
        BY <1>1, <2>1, OverTop DEF Skip, Empty
    <2>2. CASE Bad
        <3> DEFINE b == [Top EXCEPT !.todo = << >>]
        <3>a. b = [kind |-> Top.kind, todo |-> << >>, status |-> Top.status,
                   code |-> Top.code, kept |-> Top.kept]
            BY <1>1 DEF Activation
        <3>b. << >> \in Seq(Segments) /\ DOMAIN << >> = {}
            OBVIOUS
        <3>1. b \in Activation /\ Goes(Top, b) /\ b.kept = Top.kept
            BY <1>1, <3>a, <3>b DEF Activation, Goes
        <3>2. stack' = [stack EXCEPT ![Len(stack)] = b]
            BY <2>2 DEF Bad, Top
        <3> HIDE DEF b
        <3> QED BY <1>1, <3>1, <3>2, TopGoesOn
    <2>3. CASE Run \/ Trap
        BY <1>1, <2>3, OverTop DEF Run, Trap, Finish
    <2>4. CASE ForkFails
        BY <1>1, <2>4, OverTop, ExpandTop DEF ForkFails, Finish
    <2> QED BY <2>1, <2>2, <2>3, <2>4
<1>3. traps' \in TrapCommands
    <2>1. CASE Trap
        BY <2>1 DEF Trap, TypeOK, TrapCommands
    <2>2. CASE UNCHANGED traps
        BY <2>2 DEF TypeOK
    <2> QED BY <2>1, <2>2 DEF Skip, Empty, Bad, Run, ForkFails
<1>4. last_status' \in Statuses
    BY DEF Skip, Empty, Bad, Run, Trap, ForkFails, Finish, TypeOK
<1>5. pc = "run" /\ UNCHANGED <<source, pc, line, exit_status, count, leaving>>
    BY <1>1 DEF Skip, Empty, Bad, Run, Trap, ForkFails, AtSegment
<1> QED BY <1>2, <1>3, <1>4, <1>5 DEF TypeOK, Continues

LEMMA ChainType ==
    ASSUME NEW kind \in {"line", "int", "exit"} \cup Children, NEW todo \in Seq(Segments),
           NEW code \in {-1, 0, 1}
    PROVE  /\ Chain(kind, todo, code) \in Activation
           /\ Chain(kind, todo, code).kind = kind /\ Chain(kind, todo, code).todo = todo
           /\ Chain(kind, todo, code).code = code /\ Chain(kind, todo, code).kept = NoTraps
BY DEF Chain, Activation, NoTraps, TrapCommands

\* A line is read, or nothing is run.
LEMMA ReadEffect ==
    ASSUME TypeOK, ReadFile \/ RcEnds \/ ReadTerminal \/ Checking
    PROVE  TypeOK' /\ Continues /\ stack = << >> /\ (Starts \/ UNCHANGED stack)
<1>1. stack = << >> /\ pc \in {"read", "check"} /\ leaving' = leaving
      /\ UNCHANGED <<last_status, exit_status>>
    BY DEF ReadFile, RcEnds, ReadTerminal, Checking, CheckPending, CheckNothing, TypeOK
<1>2. source' \in {"rc", "terminal", "script"}
    BY DEF ReadFile, RcEnds, ReadTerminal, Checking, CheckPending, CheckNothing, TypeOK
<1>3. line' \in Lines \cup {<< >>}
    BY DEF ReadFile, RcEnds, ReadTerminal, Checking, CheckPending, CheckNothing, TypeOK
<1>4. traps' \in TrapCommands
    BY DEF ReadFile, RcEnds, ReadTerminal, Checking, CheckPending, CheckNothing, TypeOK,
           TrapCommands
<1>5. count' \in [lines : Nat, dropped : Nat, ctrlc : Nat, exit : Nat] /\ count'.exit = count.exit
    <2>1. count \in Counts
        BY DEF TypeOK, Counts
    <2>2. \/ count' = [count EXCEPT !.lines = @ + 1] \/ count' = [count EXCEPT !.dropped = @ + 1]
          \/ UNCHANGED count
        BY DEF ReadFile, RcEnds, ReadTerminal, Checking, CheckPending, CheckNothing
    <2> QED BY <2>1, <2>2, CountsType DEF Counts
<1> DEFINE Read == /\ pc' \in {"read", "check", "run"}
                   /\ pc' = "run" <=> stack' # << >>
                   /\ stack' \in Seq(Activation)
                   /\ Starts \/ UNCHANGED stack
<1>6. Read
    <2>1. ASSUME NEW l \in Lines \cup {<< >>}, run_line(l) PROVE Read
        <3>1. CASE l = << >>
            BY <1>1, <2>1, <3>1 DEF run_line
        <3>2. CASE l # << >>
            <4>1. Chain("line", l, -1) \in Activation /\ Chain("line", l, -1).kind = "line"
                  /\ Chain("line", l, -1).kept = NoTraps
                BY <3>2, ChainType
            <4>2. stack' = <<Chain("line", l, -1)>> /\ pc' = "run"
                BY <2>1, <3>2 DEF run_line
            <4> QED BY <1>1, <4>1, <4>2 DEF Starts
        <3> QED BY <3>1, <3>2
    <2>2. CASE ReadFile
        BY <2>1, <2>2 DEF ReadFile
    <2>3. CASE CheckNothing
        BY <2>1, <2>3 DEF CheckNothing, TypeOK
    <2>4. CASE RcEnds \/ ReadTerminal
        <3>1. pc' \in {"read", "check"} /\ UNCHANGED stack
            BY <2>4 DEF RcEnds, ReadTerminal
        <3> QED BY <1>1, <3>1
    <2>5. CASE CheckPending
        <3>1. CASE traps.int \in {None, << >>}
            BY <1>1, <2>5, <3>1 DEF CheckPending
        <3>2. CASE traps.int \notin {None, << >>}
            <4>1. traps.int \in Seq(Segments)
                BY <3>2 DEF TypeOK, TrapCommands
            <4>2. Chain("int", traps.int, -1) \in Activation
                  /\ Chain("int", traps.int, -1).kind = "int"
                  /\ Chain("int", traps.int, -1).kept = NoTraps
                BY <4>1, ChainType
            <4>3. stack' = <<Chain("int", traps.int, -1)>> /\ pc' = "run"
                BY <2>5, <3>2 DEF CheckPending
            <4> QED BY <1>1, <4>2, <4>3 DEF Starts
        <3> QED BY <3>1, <3>2
    <2> QED BY <2>2, <2>3, <2>4, <2>5 DEF Checking
<1> QED BY <1>1, <1>2, <1>3, <1>4, <1>5, <1>6 DEF TypeOK, Continues

\* The end of a child.
LEMMA ParentEffect ==
    ASSUME TypeOK, Nested, InChild, NEW code \in Statuses, ParentGoesOn(LastChild, code)
    PROVE  /\ TypeOK' /\ Cuts(LastChild - 1) /\ SameTraps(stack', LastChild - 1)
           /\ LastChild - 1 \in 0..Len(stack) /\ pc = "run" /\ pc' = "run"
           /\ UNCHANGED <<count, leaving, exit_status>>
           /\ traps' = stack[LastChild].kept
<1> DEFINE k == LastChild
           p == k - 1
<1>1. stack \in Seq(Activation) /\ Len(stack) \in Nat
    BY DEF TypeOK
<1>2. k \in ChildrenAt /\ k \in 1..Len(stack) /\ k > 1 /\ ChildrenAt \subseteq DOMAIN stack
    <2>1. k \in ChildrenAt /\ ChildrenAt \subseteq DOMAIN stack
        BY <1>1, ChildPositions DEF ChildrenAt
    <2> HIDE DEF k
    <2>2. stack[k].kind \in Children
        BY <2>1 DEF ChildrenAt
    <2> QED BY <1>1, <2>1, <2>2 DEF Nested
<1>3. p \in 1..Len(stack) /\ stack[p].todo # << >> /\ stack[p] \in Activation
      /\ p + 1 \in ChildrenAt
    BY <1>1, <1>2 DEF Nested
<1>4. traps' = stack[k].kept /\ stack[k].kept \in TrapCommands
    <2>1. stack[k] \in Activation
        BY <1>1, <1>2
    <2>2. traps' = stack[k].kept
        BY DEF ParentGoesOn
    <2> QED BY <2>1, <2>2 DEF Activation
<1>5. Cut(stack', p) /\ SameTraps(stack', p) /\ last_status' \in Statuses
    <2>1. CASE stack[k].kind = "stage"
        BY <1>1, <1>3, <2>1, OverCuts DEF ParentGoesOn
    <2>2. CASE stack[k].kind # "stage"
        <3>1. stack' = [SubSeq(stack, 1, p) EXCEPT ![p] = Expanded(stack[p])] /\ last_status' = code
            <4>1. SubSeq(stack, 1, p)[p] = stack[p]
                BY <1>1, <1>3
            <4> QED BY <2>2, <4>1 DEF ParentGoesOn
        <3> HIDE DEF p
        <3> QED BY <1>1, <1>3, <3>1, ExpandedType, CutAt
    <2> QED BY <2>1, <2>2
<1>6. pc = "run" /\ UNCHANGED <<source, pc, line, exit_status, count, leaving>>
    BY <1>1, <1>2 DEF ParentGoesOn, TypeOK
<1>7. stack' \in Seq(Activation) /\ stack' # << >> /\ p \in 0..Len(stack)
    BY <1>1, <1>3, <1>5 DEF Cut
<1> HIDE DEF p, k
<1>8. TypeOK'
    BY <1>4, <1>5, <1>6, <1>7 DEF TypeOK
<1> QED BY <1>3, <1>4, <1>5, <1>6, <1>7, <1>8 DEF Cuts, p, k

\* A process ends: a child, or the shell.
LEMMA ProcessEffect ==
    ASSUME TypeOK, Nested, stack # << >> \/ ~InChild, pc # "ended",
           NEW code \in {-1, 0, 1}, InChild => code \in Statuses, ProcessEnds(code),
           leaving' \in [trap : ExitLines \cup {None}, code : {-1, 0, 1},
                         status : Statuses, began : BOOLEAN]
    PROVE  /\ TypeOK'
           /\ UNCHANGED count
           /\ InChild => /\ Cuts(LastChild - 1) /\ SameTraps(stack', LastChild - 1)
                         /\ LastChild - 1 \in 0..Len(stack) /\ traps' = stack[LastChild].kept
                         /\ UNCHANGED leaving /\ Continues
           /\ ~InChild => /\ pc' = "ended" /\ stack' = << >> /\ UNCHANGED traps
                          /\ exit_status' = IF code = -1 THEN last_status ELSE code
<1>1. CASE InChild
    BY <1>1, ParentEffect DEF ProcessEnds, Continues
<1>2. CASE ~InChild
    BY <1>2 DEF ProcessEnds, TypeOK
<1> QED BY <1>1, <1>2

LEMMA LeavingType ==
    ASSUME TypeOK, NEW code \in {-1, 0, 1}, Begins(code)
    PROVE  leaving' \in [trap : ExitLines \cup {None}, code : {-1, 0, 1},
                         status : Statuses, began : BOOLEAN]
BY DEF Begins, TypeOK, TrapCommands

\* What the end of a process does, however it came to it.
Left(code) ==
    \/ RunsExitTrap(code) /\ UNCHANGED traps
    \/ Ends(code) /\ UNCHANGED traps
    \/ /\ InChild /\ Continues /\ Cuts(LastChild - 1) /\ LastChild - 1 \in 0..Len(stack)
       /\ SameTraps(stack', LastChild - 1) /\ traps' = stack[LastChild].kept

\* A process that is told to exit runs its EXIT trap or ends.
LEMMA LeaveEffect ==
    ASSUME TypeOK, Nested, AtExit, stack # << >> \/ ~InChild, pc # "ended",
           NEW code \in {-1, 0, 1}, stack # << >> => code \in Statuses, Leave(code)
    PROVE  /\ TypeOK' /\ Left(code)
           /\ count' = [count EXCEPT !.exit = count'.exit]
<1>a. InChild => code \in Statuses
    BY DEF InChild, ChildrenAt
<1>1. CASE traps.exit \in {None, << >>}
    <2>1. ProcessEnds(code) /\ Begins(code)
        BY <1>1 DEF Leave
    <2>2. count' = [count EXCEPT !.exit = count'.exit]
        BY <1>a, <2>1, ProcessEffect, LeavingType DEF TypeOK
    <2> QED BY <1>1, <2>1, <2>2, <1>a, ProcessEffect, LeavingType DEF Ends, Left
<1>2. CASE traps.exit \notin {None, << >>}
    <2> DEFINE f == Chain("exit", traps.exit, code)
    <2>1. /\ Begins(code) /\ stack' = Append(stack, f) /\ pc' = "run"
          /\ count' = IF InChild THEN count ELSE [count EXCEPT !.exit = @ + 1]
          /\ UNCHANGED <<source, line, traps, last_status, exit_status>>
        BY <1>2 DEF Leave
    <2>2. f \in Activation
        BY <1>2, ChainType DEF TypeOK, TrapCommands
    <2>3. stack' \in Seq(Activation) /\ stack' # << >>
        BY <2>1, <2>2 DEF TypeOK
    <2>4. /\ count' \in [lines : Nat, dropped : Nat, ctrlc : Nat, exit : Nat]
          /\ count'.exit = IF InChild THEN count.exit ELSE count.exit + 1
          /\ count' = [count EXCEPT !.exit = count'.exit]
        <3>1. count \in Counts
            BY DEF TypeOK, Counts
        <3>2. count' = count \/ count' = [count EXCEPT !.exit = @ + 1]
            BY <2>1
        <3>3. count' \in Counts /\ count' = [count EXCEPT !.exit = count'.exit]
            BY <3>1, <3>2, CountsType
        <3>4. count'.exit = IF InChild THEN count.exit ELSE count.exit + 1
            BY <2>1, <3>1, CountsType
        <3> QED BY <3>3, <3>4 DEF Counts
    <2>5. TypeOK'
        BY <2>1, <2>3, <2>4, LeavingType DEF TypeOK
    <2> QED BY <1>2, <2>1, <2>4, <2>5 DEF RunsExitTrap, Left
<1> QED BY <1>1, <1>2

SameCounts == count'.dropped = count.dropped /\ count'.ctrlc = count.ctrlc

LEMMA ExitEffect ==
    ASSUME TypeOK, Nested, Exit \/ EndOfInput
    PROVE  TypeOK' /\ SameCounts /\ \E code \in {-1, 0, 1} : Left(code)
<1>1. CASE Exit
    <2>1. PICK code \in Statuses : Leave(code) /\ AtSegment /\ Segment.cmd \in {"exit", "exec"}
        BY <1>1 DEF Exit, At
    <2>2. AtExit /\ stack # << >> /\ pc # "ended"
        BY <2>1 DEF AtExit, AtSegment, TypeOK
    <2>3. TypeOK' /\ Left(code) /\ count' = [count EXCEPT !.exit = count'.exit]
        BY <2>1, <2>2, LeaveEffect
    <2> QED BY <2>3 DEF SameCounts, TypeOK
<1>2. CASE EndOfInput
    <2>1. PICK code \in {-1, 0} : Leave(code)
        BY <1>2 DEF EndOfInput
    <2>2. stack = << >> /\ AtExit /\ ~InChild /\ pc # "ended"
        BY <1>2 DEF EndOfInput, TypeOK, AtExit, InChild, ChildrenAt
    <2>3. TypeOK' /\ Left(code) /\ count' = [count EXCEPT !.exit = count'.exit]
        BY <2>1, <2>2, LeaveEffect
    <2> QED BY <2>3 DEF SameCounts, TypeOK
<1> QED BY <1>1, <1>2

LEMMA ExecEffect ==
    ASSUME TypeOK, Nested, ExecReplaces
    PROVE  TypeOK' /\ SameCounts /\ \E code \in {-1, 0, 1} : Left(code)
<1>1. PICK code \in Statuses : ProcessEnds(code) /\ UNCHANGED leaving
    BY DEF ExecReplaces
<1>2. AtSegment /\ Segment.cmd = "exec" /\ stack # << >> /\ pc # "ended"
    BY DEF ExecReplaces, At, AtSegment, TypeOK
<1>3. leaving' \in [trap : ExitLines \cup {None}, code : {-1, 0, 1},
                    status : Statuses, began : BOOLEAN]
    BY <1>1 DEF TypeOK
<1>4. TypeOK' /\ Left(code) /\ UNCHANGED count
    BY <1>1, <1>2, <1>3, ProcessEffect DEF Left, Ends, AtExit
<1> QED BY <1>4 DEF SameCounts

\* A chain is over: a line, or a process that has run its EXIT trap or was forked
\* for the chain.
LEMMA EndEffect ==
    ASSUME TypeOK, Nested, ChainEnds
    PROVE  /\ TypeOK' /\ SameCounts
           /\ \/ Continues /\ LineEnds /\ UNCHANGED traps
              \/ \E code \in {-1, 0, 1} : Left(code)
<1>1. /\ stack # << >> /\ Top \in Activation /\ pc = "run" /\ UNCHANGED leaving
      /\ Len(stack) \in DOMAIN stack /\ Top = stack[Len(stack)] /\ Len(stack) \in Nat
    BY TopFacts DEF ChainEnds, TypeOK
<1>2. leaving' \in [trap : ExitLines \cup {None}, code : {-1, 0, 1},
                    status : Statuses, began : BOOLEAN]
    BY <1>1 DEF TypeOK
<1>3. CASE Top.kind \in {"line", "int"}
    <2>1. Len(stack) = 1
        BY <1>1, <1>3 DEF Nested
    <2>2. /\ pc' = "read" /\ stack' = << >>
          /\ UNCHANGED <<source, line, traps, last_status, exit_status, count>>
        BY <1>3 DEF ChainEnds
    <2> QED BY <1>1, <1>3, <2>1, <2>2 DEF TypeOK, SameCounts, Continues, LineEnds
<1>4. CASE Top.kind = "exit"
    <2>1. ProcessEnds(Top.code) /\ Top.code \in {-1, 0, 1}
        BY <1>1, <1>4 DEF ChainEnds, Activation
    <2>2. InChild => Top.code \in Statuses
        <3>1. InChild => Len(stack) > 1
            <4> SUFFICES ASSUME NEW i \in ChildrenAt PROVE Len(stack) > 1
                BY DEF InChild
            <4>1. i \in DOMAIN stack /\ stack[i].kind \in Children
                BY DEF ChildrenAt
            <4>2. i > 1 /\ i \in 1..Len(stack)
                BY <4>1 DEF Nested, TypeOK
            <4> QED BY <1>1, <4>2
        <3> QED BY <1>1, <1>4, <3>1 DEF Nested
    <2>3. TypeOK' /\ Left(Top.code) /\ UNCHANGED count
        BY <1>1, <1>2, <1>4, <2>1, <2>2, ProcessEffect DEF Left, Ends
    <2> QED BY <2>1, <2>3 DEF SameCounts
<1>5. CASE Top.kind \in Children
    <2>1. ProcessEnds(last_status) /\ last_status \in Statuses
        BY <1>5 DEF ChainEnds, TypeOK
    <2>2. InChild
        BY <1>1, <1>5 DEF InChild, ChildrenAt
    <2>3. TypeOK' /\ Left(last_status) /\ UNCHANGED count
        BY <1>1, <1>2, <2>1, <2>2, ProcessEffect DEF Left
    <2> QED BY <2>1, <2>3 DEF SameCounts
<1> QED BY <1>1, <1>3, <1>4, <1>5 DEF Activation

LEMMA ForkEffect ==
    ASSUME TypeOK, ForkChild
    PROVE  TypeOK' /\ Continues /\ Forks /\ SameCounts /\ UNCHANGED traps
<1>1. PICK k \in Children, l \in ChildLines :
          At(k) /\ stack' = Append(stack, [Chain(k, l, -1) EXCEPT !.kept = traps])
    BY DEF ForkChild
<1>2. UNCHANGED <<source, pc, line, traps, last_status, exit_status, count, leaving>>
    BY DEF ForkChild
<1> DEFINE f == [Chain(k, l, -1) EXCEPT !.kept = traps]
<1>3. f = [kind |-> k, todo |-> l, status |-> 0, code |-> -1, kept |-> traps]
    BY DEF Chain
<1> HIDE DEF f
<1>4. f \in Activation /\ f.kind \in Children /\ f.kept = traps
    BY <1>3 DEF Activation, TypeOK
<1>5. stack # << >> /\ Top.todo # << >> /\ pc = "run"
    BY <1>1 DEF At, AtSegment, TypeOK
<1>6. stack' = Append(stack, f)
    BY <1>1 DEF f
<1>7. stack' \in Seq(Activation) /\ stack' # << >>
    <2>1. stack \in Seq(Activation)
        BY DEF TypeOK
    <2> QED BY <1>4, <1>6, <2>1, AppendType
<1> QED BY <1>2, <1>4, <1>5, <1>6, <1>7 DEF TypeOK, Continues, Forks, SameCounts

\* Ctrl+C ends the pipeline that is waited for, if there is one.
LEMMA CtrlCEffect ==
    ASSUME TypeOK, Nested, CtrlC
    PROVE  /\ TypeOK' /\ Continues
           /\ count'.dropped = count.dropped
           /\ \E n \in 0..Len(stack) : Cuts(n)
           /\ \/ count'.ctrlc = count.ctrlc + 1
              \/ /\ count'.ctrlc = count.ctrlc /\ FirstStage \in ChildrenAt
                 /\ Cuts(FirstStage - 1) /\ SameTraps(stack', FirstStage - 1)
                 /\ FirstStage - 1 \in 0..Len(stack) /\ traps' = stack[FirstStage].kept
<1> DEFINE n == IF StagesAt = {} THEN Len(stack) ELSE FirstStage - 1
           left(st) == IF StagesAt = {} THEN stack ELSE Over(FirstStage - 1, st)
           own == IF StagesAt = {} THEN traps ELSE stack[FirstStage].kept
<1>1. PICK st \in Statuses :
          /\ stack' = IF Recording /\ InChild
                      THEN [left(st) EXCEPT ![FirstChild].kept = Raised(@)] ELSE left(st)
          /\ traps' = IF Recording /\ ~InChild THEN Raised(own) ELSE own
          /\ last_status' = IF StagesAt = {} THEN last_status ELSE st
    BY DEF CtrlC
<1>2. /\ pc # "ended" /\ (Recording \/ StagesAt # {})
      /\ count' = IF Recording THEN [count EXCEPT !.ctrlc = @ + 1] ELSE count
      /\ UNCHANGED <<source, pc, line, exit_status, leaving>>
    BY DEF CtrlC
<1>3. stack \in Seq(Activation) /\ Len(stack) \in Nat /\ traps \in TrapCommands
    BY DEF TypeOK
<1> DEFINE Stage == /\ FirstStage \in ChildrenAt /\ stack[FirstStage].kind = "stage"
                    /\ FirstStage \in 1..Len(stack) /\ FirstStage - 1 \in 1..Len(stack)
                    /\ stack[FirstStage - 1].todo # << >>
                    /\ stack[FirstStage].kept \in TrapCommands
<1>4. StagesAt # {} => Stage
    <2> SUFFICES ASSUME StagesAt # {} PROVE Stage
        OBVIOUS
    <2>1. FirstStage \in StagesAt /\ StagesAt \subseteq ChildrenAt
        BY <1>3, ChildPositions
    <2> DEFINE k == FirstStage
    <2> HIDE DEF k
    <2>2. k \in StagesAt /\ k = FirstStage
        BY <2>1 DEF k
    <2>3. k \in ChildrenAt /\ k \in DOMAIN stack /\ stack[k].kind = "stage"
        BY <2>1, <2>2 DEF StagesAt, ChildrenAt
    <2>4. k > 1 /\ k \in 1..Len(stack)
        <3>1. stack[k].kind \in Children
            BY <2>3
        <3> QED BY <1>3, <2>3, <3>1 DEF Nested
    <2>5. k - 1 \in DOMAIN stack /\ k - 1 < Len(stack)
        BY <1>3, <2>4
    <2>6. stack[k - 1].todo # << >>
        BY <2>5 DEF Nested
    <2>7. stack[k] \in Activation
        BY <1>3, <2>4
    <2> QED BY <1>3, <2>2, <2>3, <2>4, <2>5, <2>6, <2>7 DEF Activation
<1> DEFINE l == left(st)
<1>5. Cut(l, n) /\ SameTraps(l, n) /\ n \in 0..Len(stack) /\ own \in TrapCommands
    <2>1. CASE StagesAt = {}
        <3>1. \A i \in 1..Len(stack) : Goes(stack[i], stack[i])
            BY DEF Goes
        <3> QED BY <1>3, <2>1, <3>1 DEF Cut, SameTraps
    <2>2. CASE StagesAt # {}
        <3>1. Cut(Over(FirstStage - 1, st), FirstStage - 1)
              /\ SameTraps(Over(FirstStage - 1, st), FirstStage - 1)
            BY <1>3, <1>4, <2>2, OverCuts
        <3> QED BY <1>3, <1>4, <2>2, <3>1
    <2> QED BY <2>1, <2>2
<1>6. n = Len(stack) \/ n + 1 \in ChildrenAt
    BY <1>3, <1>4
<1>7. StagesAt # {} => n = FirstStage - 1 /\ own = stack[FirstStage].kept
    OBVIOUS
<1>8. Recording /\ InChild => FirstChild \in 1..n
    <2> SUFFICES ASSUME Recording, InChild PROVE FirstChild \in 1..n
        OBVIOUS
    <2>1. FirstChild \in 1..Len(stack) /\ \A j \in ChildrenAt : FirstChild <= j
        BY <1>3, ChildPositions
    <2>2. stack[FirstChild].kind # "stage"
        BY DEF Recording
    <2>3. StagesAt # {} => FirstChild <= FirstStage /\ FirstChild # FirstStage
        BY <1>4, <2>1, <2>2
    <2> QED BY <1>3, <1>4, <2>1, <2>3
<1> HIDE DEF n, l, own, left, Stage
<1>9. stack' \in Seq(Activation) /\ Cut(stack', n)
    <2>1. CASE Recording /\ InChild
        <3> DEFINE c == FirstChild
        <3> HIDE DEF c
        <3>1. c \in 1..n /\ l \in Seq(Activation) /\ Len(l) = n /\ n \in Nat
            BY <1>3, <1>5, <1>8, <2>1 DEF Cut, c
        <3>2. l[c] \in Activation /\ l[c].kept \in TrapCommands
            <4>1. l[c] \in Activation
                BY <3>1
            <4> QED BY <4>1 DEF Activation
        <3> DEFINE r == Raised(l[c].kept)
                   b == [l[c] EXCEPT !.kept = r]
        <3>3. r \in TrapCommands
            BY <3>2 DEF Raised, TrapCommands
        <3>4. stack' = [l EXCEPT ![c] = b]
            BY <1>1, <2>1 DEF l, c
        <3> HIDE DEF r
        <3>5. b \in Activation /\ b.kind = l[c].kind /\ b.code = l[c].code /\ b.todo = l[c].todo
            BY <3>2, <3>3 DEF Activation
        <3> HIDE DEF b
        <3>6. /\ stack' \in Seq(Activation) /\ Len(stack') = n
              /\ \A i \in 1..n : /\ stack'[i].kind = l[i].kind /\ stack'[i].code = l[i].code
                                 /\ stack'[i].todo = l[i].todo
            <4>1. c \in 1..Len(l)
                BY <3>1
            <4>2. /\ stack' \in Seq(Activation) /\ Len(stack') = Len(l)
                  /\ \A i \in 1..Len(l) : stack'[i] = IF i = c THEN b ELSE l[i]
                BY <3>1, <3>4, <3>5, <4>1, ChangeType
            <4> QED BY <3>1, <3>5, <4>2
        <3> QED BY <1>5, <3>6 DEF Cut, Goes
    <2>2. CASE ~(Recording /\ InChild)
        BY <1>1, <1>5, <2>2 DEF l, Cut
    <2> QED BY <2>1, <2>2
<1>10. traps' \in TrapCommands /\ last_status' \in Statuses
    BY <1>1, <1>5 DEF TypeOK, Raised, TrapCommands, own
<1>11. pc = "run" <=> stack' # << >>
    <2>1. n = 0 <=> Len(stack) = 0
        BY <1>3, <1>4 DEF n, Stage
    <2> QED BY <1>3, <1>9, <2>1 DEF TypeOK, Cut
<1>12. TypeOK' /\ Continues /\ count'.dropped = count.dropped
    BY <1>2, <1>9, <1>10, <1>11, SMTT(30) DEF TypeOK, Continues
<1>13. CASE Recording
    <2>1. count'.ctrlc = count.ctrlc + 1
        BY <1>2, <1>13 DEF TypeOK
    <2> QED BY <1>5, <1>6, <1>9, <1>12, <2>1 DEF Cuts
<1>14. CASE ~Recording
    <2>1. stack' = l /\ traps' = own /\ UNCHANGED count
        BY <1>1, <1>2, <1>14 DEF l, own
    <2>2. StagesAt # {} /\ n = FirstStage - 1
        BY <1>2, <1>7, <1>14
    <2>3. FirstStage \in ChildrenAt
        BY <1>4, <2>2 DEF Stage
    <2> QED BY <1>5, <1>6, <1>7, <1>9, <1>12, <2>1, <2>2, <2>3 DEF Cuts
<1> QED BY <1>13, <1>14

LEMMA NextEffect ==
    ASSUME TypeOK, Nested, Next
    PROVE  TypeOK' /\ Effect
<1>1. ASSUME NEW code \in {-1, 0, 1}, Left(code) PROVE Effect
    BY <1>1 DEF Left, Effect
<1>2. CASE ReadFile \/ RcEnds \/ ReadTerminal \/ Checking
    <2>1. TypeOK' /\ Continues /\ stack = << >> /\ (Starts \/ UNCHANGED stack)
        BY <1>2, ReadEffect
    <2>2. stack = << >> /\ UNCHANGED stack => Cuts(0) /\ 0 \in 0..Len(stack)
        BY DEF Cuts, Cut
    <2> QED BY <2>1, <2>2 DEF Effect
<1>3. CASE Skip \/ Empty \/ Bad \/ Run \/ Trap \/ ForkFails
    <2>1. TypeOK' /\ Continues /\ Cuts(Len(stack))
        BY <1>3, SegmentEffect
    <2> QED BY <2>1 DEF Effect, Cuts, Cut
<1>4. CASE Exit \/ EndOfInput
    BY <1>1, <1>4, ExitEffect
<1>5. CASE ExecReplaces
    BY <1>1, <1>5, ExecEffect
<1>6. CASE ChainEnds
    BY <1>1, <1>6, EndEffect DEF Effect
<1>7. CASE ForkChild
    BY <1>7, ForkEffect DEF Effect
<1>8. CASE CtrlC
    BY <1>8, CtrlCEffect DEF Effect
<1> QED BY <1>2, <1>3, <1>4, <1>5, <1>6, <1>7, <1>8 DEF Next, Reading, Executing

-----------------------------------------------------------------------------
(* Types, and the order of the chains.                                     *)

LEMMA NestedStep == ASSUME TypeOK, Nested, TypeOK', Effect PROVE Nested'
<1>1. /\ stack \in Seq(Activation) /\ Len(stack) \in Nat /\ DOMAIN stack = 1..Len(stack)
      /\ stack' \in Seq(Activation) /\ DOMAIN stack' = 1..Len(stack')
    BY DEF TypeOK
<1>2. CASE LineEnds \/ \E code \in {-1, 0, 1} : Ends(code)
    <2>1. stack' = << >>
        BY <1>2 DEF LineEnds, Ends
    <2> QED BY <2>1 DEF Nested
<1>3. CASE Starts
    BY <1>3 DEF Starts, Nested
<1>4. ASSUME NEW n \in 0..Len(stack), Cuts(n) PROVE Nested'
    <2>1. /\ DOMAIN stack' = 1..n /\ Len(stack') = n
          /\ \A i \in 1..n : i \in 1..Len(stack) /\ i \in DOMAIN stack
          /\ \A i \in 1..n : stack'[i].kind = stack[i].kind /\ stack'[i].code = stack[i].code
          /\ \A i \in 1..n : i < n => stack'[i].todo = stack[i].todo /\ i < Len(stack)
        <3>1. Cut(stack', n)
            BY <1>4 DEF Cuts
        <3>2. \A i \in 1..n : stack'[i].kind = stack[i].kind /\ stack'[i].code = stack[i].code
            BY <3>1 DEF Cut, Goes
        <3>3. Len(stack') = n /\ \A i \in 1..n : i < n => stack'[i].todo = stack[i].todo
            BY <3>1 DEF Cut
        <3> QED BY <1>1, <3>2, <3>3
    <2>2. ASSUME NEW i \in 1..n
          PROVE  /\ stack'[i].kind \in {"line", "int"} => i = 1
                 /\ stack'[i].kind \in Children => i > 1
                 /\ stack'[i].kind = "exit" /\ i > 1 => stack'[i].code \in Statuses
                 /\ i < n => stack'[i].todo # << >>
        <3>1. i \in DOMAIN stack /\ stack'[i].kind = stack[i].kind /\ stack'[i].code = stack[i].code
              /\ (i < n => stack'[i].todo = stack[i].todo /\ i < Len(stack))
            BY <2>1
        <3> QED BY <3>1 DEF Nested
    <2> QED BY <2>1, <2>2 DEF Nested
<1>5. ASSUME NEW f, stack' = Append(stack, f), f.kind \in Children \cup {"exit"},
             stack = << >> => f.kind = "exit",
             stack # << >> /\ f.kind = "exit" => f.code \in Statuses,
             stack # << >> => Top.todo # << >>
      PROVE  Nested'
    <2>1. /\ Len(stack') = Len(stack) + 1
          /\ \A i \in 1..Len(stack) : stack'[i] = stack[i] /\ i \in DOMAIN stack
          /\ stack'[Len(stack) + 1] = f
        BY <1>1, <1>5
    <2>2. ASSUME NEW i \in 1..Len(stack)
          PROVE  /\ stack'[i].kind \in {"line", "int"} => i = 1
                 /\ stack'[i].kind \in Children => i > 1
                 /\ stack'[i].kind = "exit" /\ i > 1 => stack'[i].code \in Statuses
                 /\ stack'[i].todo # << >>
        <3>1. CASE i = Len(stack)
            BY <1>1, <1>5, <2>1, <3>1 DEF Nested, Top
        <3>2. CASE i < Len(stack)
            BY <2>1, <3>2 DEF Nested
        <3> QED BY <1>1, <3>1, <3>2
    <2>3. Len(stack) + 1 > 1 <=> stack # << >>
        BY <1>1
    <2> QED BY <1>1, <1>5, <2>1, <2>2, <2>3 DEF Nested
<1>6. CASE Forks
    BY <1>5, <1>6 DEF Forks
<1>7. CASE \E code \in {-1, 0, 1} : RunsExitTrap(code)
    <2>1. PICK code \in {-1, 0, 1} : RunsExitTrap(code)
        BY <1>7
    <2>2. traps.exit \in Seq(Segments)
        BY <2>1 DEF RunsExitTrap, TypeOK, TrapCommands
    <2>3. Chain("exit", traps.exit, code).kind = "exit" /\ Chain("exit", traps.exit, code).code = code
        BY <2>2, ChainType
    <2>4. stack # << >> => Top.todo # << >> /\ code \in Statuses
        BY <2>1 DEF RunsExitTrap, AtExit, AtSegment
    <2> QED BY <1>5, <2>1, <2>3, <2>4 DEF RunsExitTrap
<1> QED BY <1>2, <1>3, <1>4, <1>6, <1>7 DEF Effect

LEMMA NestedCorrect == Spec => [](TypeOK /\ Nested)
<1>1. Init => TypeOK /\ Nested
    BY DEF Init, TypeOK, Nested, NoTraps, TrapCommands, Staying
<1>2. TypeOK /\ Nested /\ [Next]_vars => (TypeOK /\ Nested)'
    <2> SUFFICES ASSUME TypeOK, Nested, [Next]_vars PROVE (TypeOK /\ Nested)'
        OBVIOUS
    <2>1. CASE Next
        BY <2>1, NextEffect, NestedStep
    <2>2. CASE UNCHANGED vars
        BY <2>2 DEF vars, TypeOK, Nested
    <2> QED BY <2>1, <2>2
<1> QED BY <1>1, <1>2, PTL DEF Spec

\* The main loop, the chains and the traps keep their types, whatever lines,
\* traps and children there are.
THEOREM TypeCorrect == Spec => []TypeOK
BY NestedCorrect, PTL

-----------------------------------------------------------------------------
(* Lines lost to the INT trap.                                             *)

\* The traps of the shell itself are those that the first child on the stack
\* was forked with, and its own if there is no child.
ShellOf(s, t, r) ==
    \/ (\A i \in DOMAIN s : s[i].kind \notin Children) /\ r = t
    \/ \E i \in DOMAIN s :
          /\ s[i].kind \in Children /\ r = s[i].kept
          /\ \A j \in DOMAIN s : s[j].kind \in Children => i <= j

LEMMA ShellIs == stack \in Seq(Activation) => ShellOf(stack, traps, ShellTraps)
<1> SUFFICES ASSUME stack \in Seq(Activation) PROVE ShellOf(stack, traps, ShellTraps)
    OBVIOUS
<1>1. CASE InChild
    <2>1. FirstChild \in ChildrenAt /\ \A j \in ChildrenAt : FirstChild <= j
        BY <1>1, ChildPositions
    <2>2. ShellTraps = stack[FirstChild].kept
        BY <1>1 DEF ShellTraps
    <2> DEFINE c == FirstChild
    <2> HIDE DEF c
    <2>3. /\ c \in DOMAIN stack /\ stack[c].kind \in Children /\ ShellTraps = stack[c].kept
          /\ \A j \in DOMAIN stack : stack[j].kind \in Children => c <= j
        BY <2>1, <2>2 DEF ChildrenAt, c
    <2> QED BY <2>3 DEF ShellOf
<1>2. CASE ~InChild
    BY <1>2 DEF InChild, ChildrenAt, ShellTraps, ShellOf
<1> QED BY <1>1, <1>2

LEMMA ShellNext == stack' \in Seq(Activation) => ShellOf(stack', traps', ShellTraps')
<1>1. (stack \in Seq(Activation) => ShellOf(stack, traps, ShellTraps))'
    BY ShellIs, PTL
<1> QED BY <1>1

\* No child is on the stack: the traps are those of the shell.
LEMMA NoChild ==
    ASSUME NEW s, NEW t, NEW r, ShellOf(s, t, r), \A i \in DOMAIN s : s[i].kind \notin Children
    PROVE  r = t
BY DEF ShellOf

LEMMA CutShell ==
    ASSUME TypeOK, TypeOK', NEW n \in 0..Len(stack), Cuts(n), SameTraps(stack', n),
           n # Len(stack) => traps' = stack[n + 1].kept
    PROVE  \/ ShellTraps' = ShellTraps
           \/ ~InChild /\ ShellTraps = traps /\ ShellTraps' = traps'
<1> DEFINE m == Len(stack)
<1>1. /\ m \in Nat /\ n \in Nat /\ n <= m /\ DOMAIN stack = 1..m /\ DOMAIN stack' = 1..n
      /\ ShellOf(stack, traps, ShellTraps) /\ ShellOf(stack', traps', ShellTraps')
    <2>1. stack \in Seq(Activation) /\ stack' \in Seq(Activation) /\ Len(stack') = n
        BY DEF TypeOK, Cuts, Cut
    <2>2. m \in Nat /\ n \in Nat /\ n <= m /\ DOMAIN stack = 1..m /\ DOMAIN stack' = 1..n
        BY <2>1
    <2> QED BY <2>1, <2>2, ShellIs, ShellNext
<1>2. \A i \in 1..n : stack'[i].kind = stack[i].kind /\ stack'[i].kept = stack[i].kept
    BY DEF Cuts, Cut, Goes, SameTraps
<1>3. n # m => n + 1 \in 1..m /\ stack[n + 1].kind \in Children /\ traps' = stack[n + 1].kept
    BY <1>1 DEF Cuts, ChildrenAt
<1> HIDE DEF m
<1>4. CASE \A i \in 1..m : stack[i].kind \notin Children
    <2>1. \A i \in 1..n : stack'[i].kind \notin Children
        BY <1>1, <1>2, <1>4
    <2>2. ~InChild
        BY <1>1, <1>4 DEF InChild, ChildrenAt
    <2> QED BY <1>1, <1>4, <2>1, <2>2, NoChild
<1>5. CASE \E i \in 1..m : stack[i].kind \in Children
    <2>1. PICK c \in 1..m :
              /\ stack[c].kind \in Children /\ ShellTraps = stack[c].kept
              /\ \A j \in 1..m : stack[j].kind \in Children => c <= j
        BY <1>1, <1>5 DEF ShellOf
    <2>2. CASE c <= n
        <3>1. c \in 1..n /\ stack'[c].kind \in Children /\ stack'[c].kept = ShellTraps
            BY <1>1, <1>2, <2>1, <2>2
        <3>2. \A j \in 1..n : stack'[j].kind \in Children => c <= j
            BY <1>1, <1>2, <2>1
        <3>3. PICK d \in 1..n :
                  /\ stack'[d].kind \in Children /\ ShellTraps' = stack'[d].kept
                  /\ \A j \in 1..n : stack'[j].kind \in Children => d <= j
            BY <1>1, <3>1 DEF ShellOf
        <3>4. c <= d /\ d <= c
            BY <3>1, <3>2, <3>3
        <3>5. c = d
            BY <1>1, <3>4
        <3> QED BY <3>1, <3>3, <3>5
    <2>3. CASE ~(c <= n)
        <3>1. n # m /\ c <= n + 1
            BY <1>1, <1>3, <2>1, <2>3
        <3>2. c = n + 1
            BY <1>1, <2>1, <2>3, <3>1
        <3>3. ASSUME NEW i \in 1..n PROVE stack'[i].kind \notin Children
            <4>1. i \in 1..m /\ stack'[i].kind = stack[i].kind /\ ~(c <= i)
                BY <1>1, <1>2, <3>2
            <4> QED BY <2>1, <4>1
        <3>4. ShellTraps' = traps'
            BY <1>1, <3>3, NoChild
        <3> QED BY <1>3, <2>1, <3>1, <3>2, <3>4
    <2> QED BY <2>2, <2>3
<1> QED BY <1>4, <1>5

LEMMA PushShell ==
    ASSUME TypeOK, TypeOK', UNCHANGED traps,
           NEW f, stack' = Append(stack, f), f.kind \in Children => f.kept = traps
    PROVE  ShellTraps' = ShellTraps
<1> DEFINE n == Len(stack)
<1>1. /\ n \in Nat /\ DOMAIN stack = 1..n /\ DOMAIN stack' = 1..(n + 1)
      /\ ShellOf(stack, traps, ShellTraps) /\ ShellOf(stack', traps', ShellTraps')
      /\ stack'[n + 1] = f /\ \A i \in 1..n : stack'[i] = stack[i]
    <2>1. stack \in Seq(Activation) /\ stack' \in Seq(Activation)
        BY DEF TypeOK
    <2>2. /\ n \in Nat /\ DOMAIN stack = 1..n /\ Len(stack') = n + 1
          /\ stack'[n + 1] = f /\ \A i \in 1..n : stack'[i] = stack[i]
        BY <2>1
    <2> QED BY <2>1, <2>2, ShellIs, ShellNext
<1> HIDE DEF n
<1>2. CASE \E i \in 1..n : stack[i].kind \in Children
    <2>1. PICK c \in 1..n :
              /\ stack[c].kind \in Children /\ ShellTraps = stack[c].kept
              /\ \A j \in 1..n : stack[j].kind \in Children => c <= j
        BY <1>1, <1>2 DEF ShellOf
    <2>2. PICK d \in 1..(n + 1) :
              /\ stack'[d].kind \in Children /\ ShellTraps' = stack'[d].kept
              /\ \A j \in 1..(n + 1) : stack'[j].kind \in Children => d <= j
        BY <1>1, <2>1 DEF ShellOf
    <2>3. d <= c
        BY <1>1, <2>1, <2>2
    <2>4. d \in 1..n /\ stack'[d] = stack[d]
        BY <1>1, <2>1, <2>2, <2>3
    <2>5. c <= d
        BY <2>1, <2>2, <2>4
    <2>6. c = d
        BY <1>1, <2>3, <2>4, <2>5
    <2> QED BY <2>1, <2>2, <2>4, <2>6
<1>3. CASE \A i \in 1..n : stack[i].kind \notin Children
    <2>1. ShellTraps = traps
        BY <1>1, <1>3, NoChild
    <2>2. ShellTraps' = traps' \/ ShellTraps' = traps
        BY <1>1, <1>3 DEF ShellOf
    <2> QED BY <2>1, <2>2
<1> QED BY <1>2, <1>3

\* What becomes of a Ctrl+C that is recorded and not yet paid for by a line.
Keeps ==
    /\ ShellTraps'.pending = ShellTraps.pending
    /\ count'.dropped = count.dropped /\ count'.ctrlc = count.ctrlc

Drops ==
    /\ ShellTraps.pending /\ ~ShellTraps'.pending
    /\ count'.dropped = count.dropped + 1 /\ count'.ctrlc = count.ctrlc

Records == count'.dropped = count.dropped /\ count'.ctrlc = count.ctrlc + 1

LEMMA LeftKeeps ==
    ASSUME TypeOK, TypeOK', SameCounts, NEW code \in {-1, 0, 1}, Left(code)
    PROVE  Keeps
<1>1. CASE RunsExitTrap(code) /\ UNCHANGED traps
    <2>1. traps.exit \in Seq(Segments)
        BY <1>1 DEF RunsExitTrap, TypeOK, TrapCommands
    <2>2. Chain("exit", traps.exit, code).kind = "exit"
        BY <2>1, ChainType
    <2>3. ShellTraps' = ShellTraps
        BY <1>1, <2>2, PushShell DEF RunsExitTrap
    <2> QED BY <2>3 DEF Keeps, SameCounts
<1>2. CASE Ends(code) /\ UNCHANGED traps
    <2>1. stack' = << >> /\ ~InChild /\ traps' = traps
        BY <1>2 DEF Ends
    <2>2. ShellTraps = traps
        BY <2>1 DEF ShellTraps
    <2>3. ShellTraps' = traps'
        BY <2>1, ShellNext, NoChild DEF TypeOK
    <2> QED BY <2>1, <2>2, <2>3 DEF Keeps, SameCounts
<1>3. CASE /\ InChild /\ Cuts(LastChild - 1) /\ LastChild - 1 \in 0..Len(stack)
           /\ SameTraps(stack', LastChild - 1) /\ traps' = stack[LastChild].kept
    <2>1. LastChild \in ChildrenAt
        BY <1>3, ChildPositions DEF TypeOK
    <2>2. (LastChild - 1) + 1 = LastChild
        BY <2>1, ChildPositions DEF TypeOK
    <2>3. ShellTraps' = ShellTraps
        BY <1>3, <2>2, CutShell
    <2> QED BY <2>3 DEF Keeps, SameCounts
<1> QED BY <1>1, <1>2, <1>3 DEF Left

LEMMA PendingEffect ==
    ASSUME TypeOK, Nested, TypeOK', Next
    PROVE  Keeps \/ Drops \/ Records
<1>1. CASE ReadFile \/ RcEnds \/ ReadTerminal \/ Checking
    <2>1. stack = << >> /\ (Starts \/ UNCHANGED stack)
        BY <1>1, ReadEffect
    <2>2. ShellTraps = traps
        BY <2>1, ShellIs, NoChild DEF TypeOK
    <2>3. \A i \in DOMAIN stack' : stack'[i].kind \notin Children
        BY <2>1 DEF Starts
    <2>4. ShellTraps' = traps'
        BY <2>3, ShellNext, NoChild DEF TypeOK
    <2>5. CASE CheckPending
        BY <2>2, <2>4, <2>5 DEF CheckPending, Drops, TypeOK, TrapCommands
    <2>6. CASE ~CheckPending
        BY <1>1, <2>2, <2>4, <2>6
           DEF ReadFile, RcEnds, ReadTerminal, Checking, CheckNothing, Keeps, TypeOK
    <2> QED BY <2>5, <2>6
<1>2. CASE Skip \/ Empty \/ Bad \/ Run \/ Trap \/ ForkFails
    <2>1. Cuts(Len(stack)) /\ SameTraps(stack', Len(stack)) /\ Len(stack) \in 0..Len(stack)
        BY <1>2, SegmentEffect DEF TypeOK
    <2>2. ShellTraps' = ShellTraps \/ (ShellTraps = traps /\ ShellTraps' = traps')
        BY <2>1, CutShell
    <2>3. UNCHANGED count
        BY <1>2 DEF Skip, Empty, Bad, Run, Trap, ForkFails
    <2>4. traps'.pending = traps.pending
        <3>1. traps \in TrapCommands
            BY DEF TypeOK
        <3>2. CASE Trap
            BY <3>1, <3>2 DEF Trap, TrapCommands
        <3>3. CASE UNCHANGED traps
            BY <3>3
        <3>4. Trap \/ UNCHANGED traps
            BY <1>2 DEF Skip, Empty, Bad, Run, ForkFails
        <3> QED BY <3>2, <3>3, <3>4
    <2> QED BY <2>2, <2>3, <2>4 DEF Keeps
<1>3. ASSUME NEW code \in {-1, 0, 1}, Left(code), SameCounts PROVE Keeps
    BY <1>3, LeftKeeps
<1>4. CASE Exit \/ EndOfInput \/ ExecReplaces
    BY <1>3, <1>4, ExitEffect, ExecEffect
<1>5. CASE ChainEnds
    <2>1. CASE LineEnds /\ UNCHANGED traps /\ SameCounts
        <3>1. \A i \in DOMAIN stack : stack[i].kind \notin Children
            BY <2>1, TopFacts, SMTT(30) DEF LineEnds, Top, TypeOK
        <3>2. ShellTraps = traps
            BY <3>1, ShellIs, NoChild DEF TypeOK
        <3>3. ShellTraps' = traps'
            BY <2>1, ShellNext, NoChild DEF LineEnds, TypeOK
        <3> QED BY <2>1, <3>2, <3>3 DEF Keeps, SameCounts
    <2> QED BY <1>3, <1>5, <2>1, EndEffect
<1>6. CASE ForkChild
    <2>1. Forks /\ SameCounts /\ UNCHANGED traps
        BY <1>6, ForkEffect
    <2>2. ShellTraps' = ShellTraps
        BY <2>1, PushShell DEF Forks
    <2> QED BY <2>1, <2>2 DEF Keeps, SameCounts
<1>7. CASE CtrlC
    <2>1. CASE count'.ctrlc = count.ctrlc + 1
        BY <1>7, <2>1, CtrlCEffect DEF Records
    <2>2. CASE count'.ctrlc # count.ctrlc + 1
        <3>1. /\ FirstStage \in ChildrenAt
              /\ Cuts(FirstStage - 1) /\ SameTraps(stack', FirstStage - 1)
              /\ FirstStage - 1 \in 0..Len(stack) /\ traps' = stack[FirstStage].kept
              /\ SameCounts
            BY <1>7, <2>2, CtrlCEffect DEF SameCounts
        <3>2. FirstStage \in Nat /\ InChild
            <4>1. ChildrenAt \subseteq 1..Len(stack)
                BY ChildPositions DEF TypeOK
            <4> QED BY <3>1, <4>1 DEF InChild
        <3>3. (FirstStage - 1) + 1 = FirstStage
            BY <3>2
        <3>4. ShellTraps' = ShellTraps
            BY <3>1, <3>2, <3>3, CutShell
        <3> QED BY <3>1, <3>4 DEF Keeps, SameCounts
    <2> QED BY <2>1, <2>2
<1> QED BY <1>1, <1>2, <1>4, <1>5, <1>6, <1>7 DEF Next, Reading, Executing

\* A line that was typed is lost to the INT trap only for a Ctrl+C of its own,
\* through any children, exits and changes of the traps.
THEOREM LostForACtrlCCorrect == Spec => []LostForACtrlC
<1>1. Init => LostForACtrlC
    BY DEF Init, LostForACtrlC, ShellTraps, InChild, ChildrenAt, NoTraps
<1>2. TypeOK /\ Nested /\ LostForACtrlC /\ [Next]_vars => LostForACtrlC'
    <2> SUFFICES ASSUME TypeOK, Nested, LostForACtrlC, [Next]_vars PROVE LostForACtrlC'
        OBVIOUS
    <2>1. CASE Next
        <3>1. TypeOK' /\ (Keeps \/ Drops \/ Records)
            BY <2>1, NextEffect, PendingEffect
        <3>2. count.dropped \in Nat /\ count.ctrlc \in Nat
            BY DEF TypeOK
        <3> QED BY <3>1, <3>2 DEF LostForACtrlC, Keeps, Drops, Records
    <2>2. CASE UNCHANGED vars
        BY <2>2 DEF vars, LostForACtrlC, ShellTraps, InChild, ChildrenAt, FirstChild
    <2> QED BY <2>1, <2>2
<1> QED BY <1>1, <1>2, NestedCorrect, PTL DEF Spec

-----------------------------------------------------------------------------
(* The exit of the shell.                                                  *)

\* No EXIT trap exits: with one that does, trap_run_exit runs it again.
ExitLinesQuiet ==
    \A l \in ExitLines : \A i \in DOMAIN l : l[i].cmd \notin {"exit", "exec"}

ExitTrapsQuiet ==
    \A i \in DOMAIN stack : stack[i].kind = "exit" =>
        \A j \in DOMAIN stack[i].todo : stack[i].todo[j].cmd \notin {"exit", "exec"}

\* The chain at i is of the shell itself.
Own(i) == \A j \in 1..i : stack[j].kind \notin Children

OwnExit(i) == stack[i].kind = "exit" /\ Own(i)

\* The EXIT trap that the shell runs is the one of its only exit, and nothing
\* but its children runs above it.
OneExit ==
    \A i \in DOMAIN stack : OwnExit(i) =>
        /\ leaving.began /\ stack[i].code = leaving.code
        /\ i < Len(stack) => stack[i + 1].kind \in Children

ExitRuns == leaving.began /\ pc # "ended" => \E i \in DOMAIN stack : OwnExit(i)

TrapsCounted == count.exit = IF leaving.began /\ leaving.trap \notin {None, << >>} THEN 1 ELSE 0

ExitInv == ExitTrapsQuiet /\ OneExit /\ ExitRuns /\ TrapsCounted /\ ExitCodeKept

LEMMA OneChain == ASSUME NEW f, NEW s, s = <<f>> PROVE \A i \in DOMAIN s : i = 1 /\ s[i] = f
OBVIOUS

\* A cut keeps the kinds and the codes.
LEMMA CutKinds ==
    ASSUME NEW n \in 0..Len(stack), Cuts(n), stack \in Seq(Activation), stack' \in Seq(Activation)
    PROVE  /\ n \in Nat /\ n <= Len(stack) /\ DOMAIN stack' = 1..n /\ Len(stack') = n
           /\ \A i \in 1..n : /\ stack'[i].kind = stack[i].kind /\ stack'[i].code = stack[i].code
                              /\ i \in DOMAIN stack
           /\ n = Len(stack) \/ stack[n + 1].kind \in Children
<1>1. Cut(stack', n) /\ (n = Len(stack) \/ stack[n + 1].kind \in Children)
    BY DEF Cuts, ChildrenAt
<1>2. \A i \in 1..n : stack'[i].kind = stack[i].kind /\ stack'[i].code = stack[i].code
    BY <1>1 DEF Cut, Goes
<1>3. Len(stack') = n
    BY <1>1 DEF Cut
<1> QED BY <1>1, <1>2, <1>3

LEMMA QuietStep ==
    ASSUME ExitLinesQuiet, TypeOK, TypeOK', ExitTrapsQuiet, Effect
    PROVE  ExitTrapsQuiet'
<1> DEFINE m == Len(stack)
<1>1. /\ stack \in Seq(Activation) /\ m \in Nat /\ DOMAIN stack = 1..m
      /\ stack' \in Seq(Activation) /\ DOMAIN stack' = 1..Len(stack')
    BY DEF TypeOK
<1>2. CASE LineEnds \/ \E code \in {-1, 0, 1} : Ends(code)
    <2>1. stack' = << >>
        BY <1>2 DEF LineEnds, Ends
    <2> QED BY <2>1 DEF ExitTrapsQuiet
<1>3. CASE Starts
    <2>1. PICK f \in Activation : stack' = <<f>> /\ f.kind \in {"line", "int"}
        BY <1>3 DEF Starts
    <2>2. \A i \in DOMAIN stack' : stack'[i] = f
        BY <2>1, OneChain
    <2> QED BY <2>1, <2>2 DEF ExitTrapsQuiet
<1>4. ASSUME NEW n \in 0..m, Cuts(n) PROVE ExitTrapsQuiet'
    <2>1. Cut(stack', n)
        BY <1>4 DEF Cuts
    <2>a. \A i \in 1..n : Goes(stack[i], stack'[i])
        BY <2>1 DEF Cut
    <2>2. DOMAIN stack' = 1..n /\ \A i \in 1..n : Goes(stack[i], stack'[i]) /\ i \in 1..m
        BY <1>1, <1>4, <2>a, CutKinds
    <2> HIDE DEF m
    <2>3. ASSUME NEW i \in 1..n, stack'[i].kind = "exit", NEW j \in DOMAIN stack'[i].todo
          PROVE  stack'[i].todo[j].cmd \notin {"exit", "exec"}
        <3>1. stack[i].kind = "exit" /\ i \in DOMAIN stack
            BY <1>1, <2>2, <2>3 DEF Goes
        <3>2. stack'[i].todo[j].cmd = "run"
              \/ \E k \in DOMAIN stack[i].todo : stack'[i].todo[j].cmd = stack[i].todo[k].cmd
            BY <2>2, <2>3 DEF Goes
        <3> QED BY <3>1, <3>2 DEF ExitTrapsQuiet
    <2> QED BY <2>2, <2>3 DEF ExitTrapsQuiet
<1>5. ASSUME NEW f, stack' = Append(stack, f),
             f.kind = "exit" => \A j \in DOMAIN f.todo : f.todo[j].cmd \notin {"exit", "exec"}
      PROVE  ExitTrapsQuiet'
    <2>1. DOMAIN stack' = 1..(m + 1) /\ stack'[m + 1] = f /\ \A i \in 1..m : stack'[i] = stack[i]
        BY <1>1, <1>5
    <2> HIDE DEF m
    <2>2. ASSUME NEW i \in 1..(m + 1), stack'[i].kind = "exit", NEW j \in DOMAIN stack'[i].todo
          PROVE  stack'[i].todo[j].cmd \notin {"exit", "exec"}
        <3>1. CASE i = m + 1
            BY <1>5, <2>1, <2>2, <3>1
        <3>2. CASE i # m + 1
            <4>1. i \in 1..m
                BY <1>1, <3>2
            <4> QED BY <1>1, <2>1, <2>2, <4>1 DEF ExitTrapsQuiet
        <3> QED BY <3>1, <3>2
    <2> QED BY <2>1, <2>2 DEF ExitTrapsQuiet
<1>6. CASE Forks
    BY <1>5, <1>6 DEF Forks
<1>7. CASE \E code \in {-1, 0, 1} : RunsExitTrap(code)
    <2>1. PICK code \in {-1, 0, 1} : RunsExitTrap(code)
        BY <1>7
    <2>2. traps.exit \in ExitLines /\ traps.exit \in Seq(Segments)
        BY <2>1 DEF RunsExitTrap, TypeOK, TrapCommands
    <2>3. Chain("exit", traps.exit, code).todo = traps.exit
        BY <2>2, ChainType
    <2> QED BY <1>5, <2>1, <2>2, <2>3 DEF RunsExitTrap, ExitLinesQuiet
<1> QED BY <1>2, <1>3, <1>4, <1>6, <1>7 DEF Effect

\* The shell begins to exit once.
LEMMA NotLeaving ==
    ASSUME TypeOK, ExitTrapsQuiet, OneExit, ExitRuns, AtExit, ~InChild, pc # "ended"
    PROVE  ~leaving.began
<1> SUFFICES ASSUME leaving.began PROVE FALSE
    OBVIOUS
<1>1. PICK i \in DOMAIN stack : OwnExit(i)
    BY DEF ExitRuns
<1>2. stack # << >> /\ AtSegment /\ Segment.cmd \in {"exit", "exec"}
    BY <1>1 DEF AtExit
<1>3. Len(stack) \in Nat /\ DOMAIN stack = 1..Len(stack) /\ Top = stack[Len(stack)]
      /\ Top.todo \in Seq(Segments) /\ Top.todo # << >>
    BY <1>2, TopFacts DEF AtSegment, TypeOK
<1>4. ~(i < Len(stack))
    <2> SUFFICES ASSUME i < Len(stack) PROVE FALSE
        OBVIOUS
    <2>1. stack[i + 1].kind \in Children
        BY <1>1 DEF OneExit
    <2>2. i + 1 \in DOMAIN stack
        BY <1>3
    <2> QED BY <2>1, <2>2 DEF InChild, ChildrenAt
<1>5. i = Len(stack)
    BY <1>3, <1>4
<1>6. 1 \in DOMAIN Top.todo /\ Segment = Top.todo[1]
    BY <1>3 DEF Segment
<1> QED BY <1>1, <1>2, <1>3, <1>5, <1>6 DEF OwnExit, ExitTrapsQuiet

LEMMA ExitStep ==
    ASSUME TypeOK, TypeOK', ExitTrapsQuiet, OneExit, ExitRuns, TrapsCounted, Effect
    PROVE  (OneExit /\ ExitRuns /\ TrapsCounted /\ ExitCodeKept)'
<1>0. PICK m \in Nat : m = Len(stack)
    BY DEF TypeOK
<1>1. /\ stack \in Seq(Activation) /\ m = Len(stack) /\ DOMAIN stack = 1..m
      /\ stack' \in Seq(Activation) /\ DOMAIN stack' = 1..Len(stack')
    BY <1>0 DEF TypeOK
<1>2. CASE Continues /\ \E n \in 0..m : Cuts(n)
    <2>1. PICK n \in 0..m : Cuts(n)
        BY <1>2
    <2>2. /\ n \in Nat /\ n <= m /\ DOMAIN stack' = 1..n /\ Len(stack') = n
          /\ \A i \in 1..n : /\ stack'[i].kind = stack[i].kind /\ stack'[i].code = stack[i].code
                             /\ i \in 1..m
        BY <1>1, <2>1, CutKinds
    <2>3. n = m \/ stack[n + 1].kind \in Children
        BY <1>1, <2>1, CutKinds
    <2>4. UNCHANGED leaving /\ count'.exit = count.exit /\ pc # "ended" /\ pc' # "ended"
        BY <1>2 DEF Continues
    <2>5. ASSUME NEW i \in 1..n PROVE OwnExit(i)' <=> OwnExit(i)
        <3>1. 1..i \subseteq 1..n
            BY <2>2
        <3> QED BY <2>2, <3>1 DEF OwnExit, Own
    <2>6. OneExit'
        <3> SUFFICES ASSUME NEW i \in 1..n, OwnExit(i)'
                     PROVE  /\ leaving'.began /\ stack'[i].code = leaving'.code
                            /\ i < n => stack'[i + 1].kind \in Children
            BY <2>2 DEF OneExit
        <3>1. OwnExit(i) /\ i \in DOMAIN stack
            BY <1>1, <2>2, <2>5
        <3>2. i < n => i < m /\ i + 1 \in 1..n
            <4>1. i \in Nat /\ 1 <= i
                BY <2>2
            <4> QED BY <1>1, <2>2, <4>1
        <3> QED BY <1>1, <2>2, <2>4, <3>1, <3>2 DEF OneExit
    <2>7. ExitRuns'
        <3> SUFFICES ASSUME leaving.began PROVE \E i \in 1..n : OwnExit(i)'
            BY <2>2, <2>4 DEF ExitRuns
        <3>1. PICK i \in 1..m : OwnExit(i)
            BY <1>1, <2>4 DEF ExitRuns
        <3>2. i <= n
            <4> SUFFICES ASSUME i > n PROVE FALSE
                BY <2>2
            <4>1. n + 1 \in 1..i /\ n # m
                BY <2>2
            <4> QED BY <2>3, <3>1, <4>1 DEF OwnExit, Own
        <3> QED BY <2>2, <2>5, <3>1, <3>2
    <2> QED BY <2>4, <2>6, <2>7 DEF TrapsCounted, ExitCodeKept
<1>3. CASE Continues /\ (LineEnds \/ Starts)
    <2>1. \A i \in DOMAIN stack : stack[i].kind \in {"line", "int"}
        BY <1>1, <1>3 DEF LineEnds, Starts, Top
    <2>2. ~leaving.began
        BY <1>3, <2>1 DEF ExitRuns, OwnExit, Continues
    <2>3. \A i \in DOMAIN stack' : stack'[i].kind \in {"line", "int"}
        BY <1>3 DEF LineEnds, Starts
    <2> QED BY <1>3, <2>2, <2>3
            DEF OneExit, ExitRuns, OwnExit, TrapsCounted, ExitCodeKept, Continues
<1>4. ASSUME NEW f, stack' = Append(stack, f)
      PROVE  /\ DOMAIN stack' = 1..(m + 1) /\ Len(stack') = m + 1 /\ stack'[m + 1] = f
             /\ \A i \in 1..m : stack'[i] = stack[i] /\ (OwnExit(i)' <=> OwnExit(i))
             /\ OwnExit(m + 1)' <=> f.kind = "exit" /\ Own(m)
    <2>1. DOMAIN stack' = 1..(m + 1) /\ stack'[m + 1] = f /\ \A i \in 1..m : stack'[i] = stack[i]
        BY <1>1, <1>4
    <2>a. Len(stack') = m + 1
        BY <1>1, <1>4
    <2>2. ASSUME NEW i \in 1..m PROVE OwnExit(i)' <=> OwnExit(i)
        <3>1. 1..i \subseteq 1..m
            BY <1>1
        <3> QED BY <2>1, <3>1 DEF OwnExit, Own
    <2>3. 1..(m + 1) = (1..m) \cup {m + 1}
        BY <1>1
    <2>4. OwnExit(m + 1)' <=> f.kind = "exit" /\ Own(m)
        <3>1. OwnExit(m + 1)' <=> f.kind = "exit" /\ \A j \in 1..(m + 1) : stack'[j].kind \notin Children
            BY <2>1 DEF OwnExit, Own
        <3>2. (\A j \in 1..(m + 1) : stack'[j].kind \notin Children)
              <=> f.kind \notin Children /\ Own(m)
            BY <2>1, <2>3 DEF Own
        <3> QED BY <3>1, <3>2
    <2> HIDE DEF OwnExit
    <2> QED BY <2>1, <2>a, <2>2, <2>4
<1>5. ~InChild <=> Own(m)
    BY <1>1 DEF Own, InChild, ChildrenAt
<1>6. ASSUME InChild, NEW i \in 1..m, OwnExit(i)
      PROVE  leaving.began /\ stack[i].code = leaving.code /\ i < m /\ stack[i + 1].kind \in Children
    <2>1. leaving.began /\ stack[i].code = leaving.code /\ (i < m => stack[i + 1].kind \in Children)
        BY <1>1, <1>6 DEF OneExit
    <2>2. i # m
        BY <1>5, <1>6 DEF OwnExit
    <2> QED BY <1>1, <2>1, <2>2
<1>7. CASE Continues /\ Forks
    <2>1. PICK f : stack' = Append(stack, f) /\ f.kind \in Children /\ stack # << >>
        BY <1>7 DEF Forks
    <2>2. /\ DOMAIN stack' = 1..(m + 1) /\ Len(stack') = m + 1 /\ stack'[m + 1] = f
          /\ \A i \in 1..m : stack'[i] = stack[i] /\ (OwnExit(i)' <=> OwnExit(i))
          /\ ~OwnExit(m + 1)'
        BY <1>4, <2>1
    <2>3. UNCHANGED leaving /\ count'.exit = count.exit /\ pc # "ended" /\ pc' # "ended"
        BY <1>7 DEF Continues
    <2>4. ASSUME NEW i \in 1..(m + 1), OwnExit(i)'
          PROVE  /\ leaving'.began /\ stack'[i].code = leaving'.code
                 /\ i < m + 1 => stack'[i + 1].kind \in Children
        <3>1. i \in 1..m
            BY <1>0, <2>2, <2>4
        <3>2. i = m \/ (i < m /\ i + 1 \in 1..m)
            BY <1>0, <3>1
        <3>3. OwnExit(i) /\ i \in DOMAIN stack
            BY <1>1, <2>2, <2>4, <3>1
        <3> QED BY <1>1, <2>1, <2>2, <2>3, <3>1, <3>2, <3>3 DEF OneExit
    <2>5. OneExit'
        BY <2>2, <2>4 DEF OneExit
    <2>6. ExitRuns'
        BY <1>0, <1>1, <2>2, <2>3 DEF ExitRuns
    <2> QED BY <2>3, <2>5, <2>6 DEF TrapsCounted, ExitCodeKept
<1>8. ASSUME NEW code \in {-1, 0, 1}, RunsExitTrap(code)
      PROVE  (OneExit /\ ExitRuns /\ TrapsCounted /\ ExitCodeKept)'
    <2> DEFINE f == Chain("exit", traps.exit, code)
    <2>1. f.kind = "exit" /\ f.code = code
        <3>1. traps.exit \in Seq(Segments)
            BY <1>8 DEF RunsExitTrap, TypeOK, TrapCommands
        <3> QED BY <3>1, ChainType
    <2>2. stack' = Append(stack, f) /\ pc # "ended" /\ pc' = "run"
        BY <1>8 DEF RunsExitTrap
    <2> HIDE DEF f
    <2>3. /\ DOMAIN stack' = 1..(m + 1) /\ Len(stack') = m + 1 /\ stack'[m + 1] = f
          /\ \A i \in 1..m : stack'[i] = stack[i] /\ (OwnExit(i)' <=> OwnExit(i))
          /\ OwnExit(m + 1)' <=> Own(m)
        BY <1>4, <2>1, <2>2
    <2>4. CASE InChild
        <3>1. UNCHANGED leaving /\ count'.exit = count.exit
            BY <1>8, <2>4 DEF RunsExitTrap, Begins
        <3>2. ~OwnExit(m + 1)'
            BY <1>5, <2>3, <2>4
        <3>3. ASSUME NEW i \in 1..(m + 1), OwnExit(i)'
              PROVE  /\ leaving'.began /\ stack'[i].code = leaving'.code
                     /\ i < m + 1 => stack'[i + 1].kind \in Children
            <4>1. i \in 1..m
                BY <1>0, <3>2, <3>3
            <4>2. OwnExit(i)
                BY <2>3, <3>3, <4>1
            <4>3. i < m /\ leaving.began /\ stack[i].code = leaving.code /\ stack[i + 1].kind \in Children
                BY <1>6, <2>4, <4>1, <4>2
            <4>4. i + 1 \in 1..m
                BY <1>0, <4>1, <4>3
            <4> QED BY <2>3, <3>1, <4>1, <4>3, <4>4
        <3>4. OneExit'
            BY <2>3, <3>3 DEF OneExit
        <3>5. ExitRuns'
            BY <1>0, <1>1, <2>2, <2>3, <3>1 DEF ExitRuns
        <3> QED BY <2>2, <3>1, <3>4, <3>5 DEF TrapsCounted, ExitCodeKept
    <2>5. CASE ~InChild
        <3>1. ~leaving.began
            BY <1>8, <2>5, NotLeaving DEF RunsExitTrap
        <3>2. /\ leaving'.began /\ leaving'.code = code /\ leaving'.trap \notin {None, << >>}
              /\ count'.exit = 1
            BY <1>8, <2>5, <3>1 DEF RunsExitTrap, Begins, TrapsCounted
        <3>3. \A i \in 1..m : ~OwnExit(i)
            BY <1>1, <3>1 DEF OneExit
        <3>4. OwnExit(m + 1)' /\ m + 1 \in 1..(m + 1)
            BY <1>0, <1>5, <2>3, <2>5
        <3>5. \A i \in 1..(m + 1) : OwnExit(i)' => i = m + 1
            BY <1>0, <2>3, <3>3
        <3>6. OneExit'
            BY <1>0, <2>1, <2>3, <3>2, <3>5 DEF OneExit
        <3>7. ExitRuns'
            BY <2>3, <3>4 DEF ExitRuns
        <3> QED BY <2>2, <3>2, <3>6, <3>7 DEF TrapsCounted, ExitCodeKept
    <2> QED BY <2>4, <2>5
<1>9. ASSUME NEW code \in {-1, 0, 1}, Ends(code)
      PROVE  (OneExit /\ ExitRuns /\ TrapsCounted /\ ExitCodeKept)'
    <2>1. /\ ~InChild /\ pc # "ended" /\ pc' = "ended" /\ stack' = << >>
          /\ exit_status' = (IF code = -1 THEN last_status ELSE code) /\ count'.exit = count.exit
        BY <1>9 DEF Ends
    <2>2. OneExit' /\ ExitRuns'
        BY <2>1 DEF OneExit, ExitRuns
    <2>3. CASE AtExit /\ Begins(code) /\ traps.exit \in {None, << >>}
        <3>1. ~leaving.began
            BY <2>1, <2>3, NotLeaving
        <3>2. leaving'.trap \in {None, << >>} /\ leaving'.code = code
            BY <2>1, <2>3, <3>1 DEF Begins
        <3> QED BY <2>1, <2>2, <3>1, <3>2 DEF TrapsCounted, ExitCodeKept
    <2>4. CASE AtExit /\ UNCHANGED leaving
        <3>1. ~leaving.began
            BY <2>1, <2>4, NotLeaving
        <3> QED BY <2>1, <2>2, <2>4, <3>1 DEF TrapsCounted, ExitCodeKept
    <2>5. CASE stack # << >> /\ Top.kind = "exit" /\ code = Top.code /\ UNCHANGED leaving
        <3>1. m \in 1..m /\ Top = stack[m]
            BY <1>0, <1>1, <2>5, TopFacts
        <3>2. OwnExit(m)
            BY <1>5, <2>1, <2>5, <3>1 DEF OwnExit
        <3>3. code = leaving.code
            BY <1>1, <2>5, <3>1, <3>2 DEF OneExit
        <3> QED BY <2>1, <2>2, <2>5, <3>3 DEF TrapsCounted, ExitCodeKept
    <2> QED BY <1>9, <2>3, <2>4, <2>5 DEF Ends
<1> QED BY <1>1, <1>2, <1>3, <1>7, <1>8, <1>9 DEF Effect

LEMMA ExitCorrect == ASSUME ExitLinesQuiet PROVE Spec => []ExitInv
<1>1. Init => ExitInv
    BY DEF Init, ExitInv, ExitTrapsQuiet, OneExit, ExitRuns, TrapsCounted, ExitCodeKept, Staying
<1>2. TypeOK /\ Nested /\ ExitInv /\ [Next]_vars => ExitInv'
    <2> SUFFICES ASSUME TypeOK, Nested, ExitInv, [Next]_vars PROVE ExitInv'
        OBVIOUS
    <2>1. CASE Next
        <3>1. TypeOK' /\ Effect
            BY <2>1, NextEffect
        <3> QED BY <3>1, QuietStep, ExitStep DEF ExitInv
    <2>2. CASE UNCHANGED vars
        BY <2>2 DEF vars, ExitInv, ExitTrapsQuiet, OneExit, ExitRuns, OwnExit, Own, TrapsCounted,
                    ExitCodeKept
    <2> QED BY <2>1, <2>2
<1> QED BY <1>1, <1>2, NestedCorrect, PTL DEF Spec

\* On every way out of the shell, at any depth of chains, traps and children,
\* the EXIT trap it had by then is run, and once, if no EXIT trap exits itself.
THEOREM ExitTrapOnceCorrect == ASSUME ExitLinesQuiet PROVE Spec => []ExitTrapOnce
<1>1. ExitInv => ExitTrapOnce
    BY DEF ExitInv, TrapsCounted, ExitTrapOnce
<1> QED BY <1>1, ExitCorrect, PTL

\* The shell ends with the code that exit was told, whatever the EXIT trap and
\* its children do to $? after that.
THEOREM ExitCodeKeptCorrect == ASSUME ExitLinesQuiet PROVE Spec => []ExitCodeKept
<1>1. ExitInv => ExitCodeKept
    BY DEF ExitInv
<1> QED BY <1>1, ExitCorrect, PTL
=============================================================================
