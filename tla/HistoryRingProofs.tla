------------------------- MODULE HistoryRingProofs -------------------------
(***************************************************************************)
(* Proofs about HistoryRing, for every size of the ring, number of shells  *)
(* and length of the file: the ring stays well formed, it implements       *)
(* BoundedHistory, and what a shell lists is in its file, at the end of it *)
(* as long as no other shell writes there.  The argument is PushEffect:    *)
(* what history_push does to the listed lines, when the ring is full and   *)
(* when it is not.                                                         *)
(***************************************************************************)
EXTENDS HistoryRing, TLAPS

USE HistoryRingAssumption

\* The invariant that is inductive: a shell that loads has a file to load, and
\* one that saves has a line to save.
Ready ==
    \A s \in Shells : /\ pc[s] = "load" => home[s] \in Homes
                      /\ pc[s] = "save" => history_count[s] > 0

RingTyped ==
    /\ history_buf \in [Shells -> [Slots -> Lines \cup {Nothing}]]
    /\ history_count \in [Shells -> 0..Size]
    /\ history_start \in [Shells -> Slots]

IInv == TypeOK /\ RingFilled /\ Ready

\* The index arithmetic of the ring goes around once at most.
LEMMA WrapValue ==
    ASSUME NEW i \in 0..(2 * Size - 1)
    PROVE  Wrap(i) = IF i < Size THEN i ELSE i - Size
<1>1. CASE i < Size
  BY <1>1, SMTT(30) DEF Wrap
<1>2. CASE i >= Size
  BY <1>2, SMTT(30) DEF Wrap
<1> QED BY <1>1, <1>2

\* When the ring is not full it starts in slot 0, and the line goes behind the
\* last one.
LEMMA PushBehind ==
    ASSUME RingTyped, RingFilled, NEW s \in Shells, NEW l \in Lines,
           history_push(s, l), history_count[s] < Size
    PROVE  /\ history_buf' = [history_buf EXCEPT ![s][history_count[s]] = l]
           /\ history_count' = [history_count EXCEPT ![s] = @ + 1]
           /\ history_start' = history_start
<1>1. history_start[s] = 0
  BY DEF RingFilled
<1>2. history_count[s] \in 0..(Size - 1)
  BY DEF RingTyped
<1>3. Wrap(history_count[s]) = history_count[s]
  BY <1>2, WrapValue
<1>4. Wrap(history_start[s] + Wrap(history_count[s])) = history_count[s]
  BY <1>1, <1>2, <1>3
<1>5. ~(history_count[s] >= Size)
  BY <1>2
<1>6. history_buf' = [history_buf EXCEPT ![s][history_count[s]] = l]
  BY <1>4, <1>5 DEF history_push
<1>7. history_count' = [history_count EXCEPT ![s] = @ + 1]
  BY <1>5 DEF history_push
<1>8. history_start' = [history_start EXCEPT ![s] = @]
  BY <1>5 DEF history_push
<1> QED
  BY <1>6, <1>7, <1>8 DEF RingTyped

\* When it is full the line takes the place of the oldest, and the next one is
\* then the oldest.
LEMMA PushOver ==
    ASSUME RingTyped, RingFilled, NEW s \in Shells, NEW l \in Lines,
           history_push(s, l), ~(history_count[s] < Size)
    PROVE  /\ history_buf' = [history_buf EXCEPT ![s][history_start[s]] = l]
           /\ history_count' = history_count
           /\ history_count[s] = Size
           /\ history_start' = [history_start EXCEPT ![s] = Wrap(@ + 1)]
<1>1. history_count[s] = Size
  <2>1. history_count[s] \in 0..Size
    BY DEF RingTyped
  <2> QED BY <2>1
<1>2. history_count[s] >= Size
  BY <1>1
<1>3. history_buf' = [history_buf EXCEPT ![s][history_start[s]] = l]
  BY <1>2 DEF history_push
<1>4. history_count' = [history_count EXCEPT ![s] = @]
  BY <1>2 DEF history_push
<1>5. history_start' = [history_start EXCEPT ![s] = Wrap(@ + 1)]
  BY <1>2 DEF history_push
<1> QED
  BY <1>1, <1>3, <1>4, <1>5 DEF RingTyped

\* A push keeps the ring well formed, and leaves a line in it.
LEMMA PushTyped ==
    ASSUME RingTyped, RingFilled, NEW s \in Shells, NEW l \in Lines, history_push(s, l)
    PROVE  RingTyped' /\ RingFilled' /\ history_count'[s] > 0
<1>1. CASE history_count[s] < Size
  <2>1. /\ history_buf' = [history_buf EXCEPT ![s][history_count[s]] = l]
        /\ history_count' = [history_count EXCEPT ![s] = @ + 1]
        /\ history_start' = history_start
    BY <1>1, PushBehind
  <2>2. history_count[s] \in Slots
    BY <1>1 DEF RingTyped, Slots
  <2> QED
    BY <1>1, <2>1, <2>2 DEF RingTyped, RingFilled, Slots
<1>2. CASE ~(history_count[s] < Size)
  <2>1. /\ history_buf' = [history_buf EXCEPT ![s][history_start[s]] = l]
        /\ history_count' = history_count
        /\ history_count[s] = Size
        /\ history_start' = [history_start EXCEPT ![s] = Wrap(@ + 1)]
    BY <1>2, PushOver
  <2>2. Wrap(history_start[s] + 1) \in Slots
    <3>1. history_start[s] + 1 \in 0..(2 * Size - 1)
      BY DEF RingTyped, Slots
    <3> QED BY <3>1, WrapValue DEF RingTyped, Slots
  <2> QED
    BY <2>1, <2>2 DEF RingTyped, RingFilled, Slots
<1> QED BY <1>1, <1>2

\* What a slot holds, and so what is listed.
Held == Lines \cup {Nothing}

\* What `history` prints is read from slots of the ring, one for each line that
\* is counted.
LEMMA ListedTyped ==
    ASSUME RingTyped, NEW s \in Shells
    PROVE  /\ Listed(s) \in Seq(Held) /\ Len(Listed(s)) = history_count[s]
           /\ history_count[s] \in 0..Size
<1> DEFINE c  == history_count[s]
           st == history_start[s]
<1>1. c \in 0..Size /\ st \in 0..(Size - 1)
  BY DEF RingTyped, Slots
<1>2. ASSUME NEW i \in 1..c PROVE history_buf[s][Wrap(st + i - 1)] \in Held
  <2>1. st + i - 1 \in 0..(2 * Size - 1)
    BY <1>1
  <2>2. Wrap(st + i - 1) \in Slots
    BY <2>1, <1>1, WrapValue DEF Slots
  <2> QED BY <2>2 DEF RingTyped, Held
<1> QED BY <1>1, <1>2 DEF Listed

\* What is listed after a push: the lines before, without the oldest if there
\* were Size of them, and the new one.
LEMMA PushEffect ==
    ASSUME RingTyped, RingFilled, NEW s \in Shells, NEW l \in Lines, history_push(s, l)
    PROVE  /\ Listed(s)' = List!LastOf(Append(Listed(s), l), Size)
           /\ \A t \in Shells \ {s} : Listed(t)' = Listed(t)
<1> DEFINE c  == history_count[s]
           st == history_start[s]
<1>a. /\ c \in 0..Size /\ st \in 0..(Size - 1)
      /\ Listed(s) \in Seq(Lines \cup {Nothing}) /\ Len(Listed(s)) = c
  BY ListedTyped DEF RingTyped, Slots, Held
<1>b. \A i \in 1..c : Listed(s)[i] = history_buf[s][IF st + i - 1 < Size THEN st + i - 1
                                                                     ELSE st + i - 1 - Size]
  <2> SUFFICES ASSUME NEW i \in 1..c
               PROVE  Listed(s)[i] = history_buf[s][IF st + i - 1 < Size THEN st + i - 1
                                                                        ELSE st + i - 1 - Size]
    OBVIOUS
  <2>1. st + i - 1 \in 0..(2 * Size - 1)
    BY <1>a
  <2>2. Wrap(st + i - 1) = IF st + i - 1 < Size THEN st + i - 1 ELSE st + i - 1 - Size
    BY <1>a, <2>1, WrapValue
  <2>3. Listed(s)[i] = history_buf[s][Wrap(st + i - 1)]
    BY DEF Listed
  <2> QED BY <2>2, <2>3
<1>1. \A t \in Shells \ {s} : Listed(t)' = Listed(t)
  BY DEF history_push, Listed, RingTyped
<1>2. CASE c < Size
  <2>1. /\ history_buf' = [history_buf EXCEPT ![s][c] = l]
        /\ history_count' = [history_count EXCEPT ![s] = @ + 1]
        /\ history_start' = history_start /\ st = 0
    BY <1>2, PushBehind DEF RingFilled
  <2>2. Listed(s)' = [i \in 1..(c + 1) |-> history_buf'[s][Wrap(st + i - 1)]]
    BY <2>1 DEF Listed, RingTyped
  <2>3. ASSUME NEW i \in 1..(c + 1)
        PROVE  history_buf'[s][Wrap(st + i - 1)] = Append(Listed(s), l)[i]
    <3>1. Wrap(st + i - 1) = i - 1
      <4>1. st + i - 1 \in 0..(2 * Size - 1) /\ st + i - 1 = i - 1 /\ i - 1 < Size
        BY <2>1, <1>2, <1>a
      <4> QED BY <4>1, WrapValue
    <3>2. history_buf'[s][i - 1] = IF i - 1 = c THEN l ELSE history_buf[s][i - 1]
      BY <2>1, <1>2, <1>a DEF RingTyped, Slots
    <3>3. i \in 1..c => Listed(s)[i] = history_buf[s][i - 1]
      BY <2>1, <1>b, <1>a, <1>2
    <3>4. Append(Listed(s), l)[i] = IF i = c + 1 THEN l ELSE Listed(s)[i]
      BY <1>a
    <3> QED BY <3>1, <3>2, <3>3, <3>4, <1>a
  <2>4. Append(Listed(s), l) = [i \in 1..(c + 1) |-> Append(Listed(s), l)[i]]
    <3> DEFINE all == Append(Listed(s), l)
    <3>1. all \in Seq(Lines \cup {Nothing}) /\ Len(all) = c + 1
      BY <1>a
    <3> HIDE DEF all
    <3> SUFFICES all = [i \in 1..(c + 1) |-> all[i]]
      BY DEF all
    <3> QED BY <3>1
  <2>5. Listed(s)' = Append(Listed(s), l)
    BY <2>2, <2>3, <2>4
  <2>6. Len(Append(Listed(s), l)) = c + 1
    BY <1>a
  <2> QED BY <1>1, <1>2, <1>a, <2>5, <2>6 DEF List!LastOf
<1>3. CASE ~(c < Size)
  <2>1. /\ history_buf' = [history_buf EXCEPT ![s][st] = l]
        /\ history_count' = history_count /\ c = Size
        /\ history_start' = [history_start EXCEPT ![s] = Wrap(@ + 1)]
    BY <1>3, PushOver
  <2> DEFINE next == Wrap(st + 1)
             all  == Append(Listed(s), l)
  <2>2. next = IF st + 1 < Size THEN st + 1 ELSE 0
    <3>1. st + 1 \in 0..(2 * Size - 1)
      BY <1>a
    <3> QED BY <3>1, <1>a, WrapValue
  <2>3. Listed(s)' = [i \in 1..Size |-> history_buf'[s][Wrap(next + i - 1)]]
    BY <2>1 DEF Listed, RingTyped
  <2>4. /\ Len(all) = Size + 1
        /\ SubSeq(all, 2, Size + 1) = [i \in 1..Size |-> all[i + 1]]
    <3>1. all \in Seq(Lines \cup {Nothing}) /\ Len(all) = Size + 1
      BY <1>a, <2>1
    <3> HIDE DEF all
    <3> QED BY <3>1
  <2>5. ASSUME NEW i \in 1..Size
        PROVE  history_buf'[s][Wrap(next + i - 1)] = all[i + 1]
    <3> DEFINE at == Wrap(next + i - 1)
    <3>1. at = IF i = Size THEN st ELSE IF st + i < Size THEN st + i ELSE st + i - Size
      <4>1. next + i - 1 \in 0..(2 * Size - 1)
        BY <2>2, <1>a
      <4>2. at = IF next + i - 1 < Size THEN next + i - 1 ELSE next + i - 1 - Size
        <5>1. next \in Int
          BY <2>2, <1>a
        <5> HIDE DEF next
        <5> QED BY <5>1, <4>1, WrapValue
      <4> HIDE DEF at, next
      <4> QED BY <4>2, <2>2, <1>a, SMTT(30)
    <3>2. history_buf'[s][at] = IF at = st THEN l ELSE history_buf[s][at]
      <4>1. at \in Slots
        BY <3>1, <1>a DEF Slots
      <4> HIDE DEF at
      <4> QED BY <4>1, <2>1 DEF RingTyped
    <3>3. all[i + 1] = IF i = Size THEN l ELSE Listed(s)[i + 1]
      BY <1>a, <2>1
    <3>4. i < Size => Listed(s)[i + 1] = history_buf[s][at]
      <4> HAVE i < Size
      <4>1. i + 1 \in 1..c
        BY <2>1
      <4>2. Listed(s)[i + 1] = history_buf[s][IF st + (i + 1) - 1 < Size THEN st + (i + 1) - 1
                                             ELSE st + (i + 1) - 1 - Size]
        BY <4>1, <1>b
      <4>3. at = IF st + i < Size THEN st + i ELSE st + i - Size
        BY <3>1, <1>a
      <4>4. st + (i + 1) - 1 = st + i
        BY <1>a
      <4> HIDE DEF at
      <4> QED BY <4>2, <4>3, <4>4
    <3>5. i < Size => at # st
      <4> HIDE DEF at
      <4> QED BY <3>1, <1>a
    <3>6. CASE i = Size
      <4>1. at = st /\ all[i + 1] = l
        BY <3>6, <3>1, <3>3
      <4> QED BY <4>1, <3>2
    <3>7. CASE i < Size
      <4>1. at # st /\ all[i + 1] = Listed(s)[i + 1] /\ Listed(s)[i + 1] = history_buf[s][at]
        <5>1. i # Size
          BY <3>7
        <5> HIDE DEF at, all
        <5> QED BY <5>1, <3>3, <3>4, <3>5, <3>7
      <4> QED BY <4>1, <3>2
    <3>8. i = Size \/ i < Size
      OBVIOUS
    <3> QED BY <3>6, <3>7, <3>8
  <2>6. Listed(s)' = SubSeq(all, 2, Size + 1)
    <3> HIDE DEF all, next
    <3> QED BY <2>3, <2>4, <2>5
  <2>7. List!LastOf(all, Size) = SubSeq(all, 2, Size + 1)
    <3> HIDE DEF all
    <3> QED BY <2>4 DEF List!LastOf
  <2> QED BY <1>1, <2>6, <2>7
<1> QED BY <1>2, <1>3

-----------------------------------------------------------------------------
LEMMA InitInvariant == Init => IInv
<1> SUFFICES ASSUME Init PROVE IInv
  OBVIOUS
<1>1. 0 \in Slots /\ 0 \in 0..Size
  BY DEF Slots
<1> QED BY <1>1 DEF Init, IInv, TypeOK, RingFilled, Ready, Slots

\* The line that is saved is one that was typed.
LEMMA LastLineType ==
    ASSUME IInv, NEW s \in Shells, history_count[s] > 0
    PROVE  LastLine(s) \in Lines
<1> DEFINE c  == history_count[s]
           st == history_start[s]
           at == Wrap(st + c - 1)
<1>1. c \in 1..Size /\ st \in 0..(Size - 1)
  BY DEF IInv, TypeOK, Slots
<1>2. st + c - 1 \in 0..(2 * Size - 1)
  BY <1>1
<1>3. at = IF st + c - 1 < Size THEN st + c - 1 ELSE st + c - 1 - Size
  BY <1>1, <1>2, WrapValue
<1>4. c < Size => st = 0
  BY DEF IInv, RingFilled
<1>5. at \in Slots /\ at < c
  <2>1. CASE c < Size
    BY <2>1, <1>1, <1>3, <1>4 DEF Slots
  <2>2. CASE c = Size
    BY <2>2, <1>1, <1>3 DEF Slots
  <2> QED BY <1>1, <2>1, <2>2
<1>6. history_buf[s][at] \in Lines
  <2> HIDE DEF at
  <2> QED BY <1>5 DEF IInv, RingFilled
<1> QED BY <1>6 DEF LastLine

\* A step either records one line in one shell, empties one ring, or leaves
\* the rings alone.
Records(s, l) == history_push(s, l)
Empties(s) ==
    /\ history_count' = [history_count EXCEPT ![s] = 0]
    /\ history_start' = [history_start EXCEPT ![s] = 0]
    /\ history_buf' = [history_buf EXCEPT ![s] = [i \in Slots |-> Nothing]]

LEMMA StepEffect ==
    ASSUME IInv, Next
    PROVE  \/ \E s \in Shells, l \in Lines : Records(s, l)
           \/ \E s \in Shells : Empties(s)
           \/ UNCHANGED ring
<1> PICK s \in Shells : Session(s)
  BY DEF Next
<1>1. CASE LoadLine(s)
  <2>1. home[s] \in Homes /\ pos[s] \in Nat /\ pos[s] < Len(file[home[s]])
        /\ file[home[s]] \in Seq(Lines)
    BY <1>1 DEF LoadLine, IInv, Ready, TypeOK
  <2>2. file[home[s]][pos[s] + 1] \in Lines
    BY <2>1
  <2> QED BY <1>1, <2>2 DEF LoadLine, Records
<1>2. CASE \E l \in Lines : Type(s, l)
  BY <1>2 DEF Type, Records
<1>3. CASE Stop(s)
  BY <1>3 DEF Stop, Empties
<1>4. CASE Start(s) \/ LoadEnds(s) \/ Save(s) \/ SaveSkipped(s) \/ ChangeHome(s)
  BY <1>4 DEF Start, LoadEnds, Save, SaveSkipped, ChangeHome
<1> QED BY <1>1, <1>2, <1>3, <1>4 DEF Session

LEMMA RingStep ==
    ASSUME IInv, [Next]_vars
    PROVE  RingTyped' /\ RingFilled'
<1>0. RingTyped /\ RingFilled
  BY DEF IInv, TypeOK, RingTyped
<1>1. ASSUME NEW s \in Shells, NEW l \in Lines, Records(s, l) PROVE RingTyped' /\ RingFilled'
  BY <1>0, <1>1, PushTyped DEF Records
<1>2. ASSUME NEW s \in Shells, Empties(s) PROVE RingTyped' /\ RingFilled'
  <2>1. 0 \in Slots /\ 0 \in 0..Size
    BY DEF Slots
  <2>2. RingTyped'
    BY <1>0, <1>2, <2>1 DEF Empties, RingTyped
  <2>3. RingFilled'
    <3> SUFFICES ASSUME NEW t \in Shells
                 PROVE  /\ history_count'[t] < Size => history_start'[t] = 0
                        /\ \A i \in Slots : i < history_count'[t] => history_buf'[t][i] \in Lines
      BY DEF RingFilled
    <3>1. CASE t = s
      BY <3>1, <1>0, <1>2 DEF Empties, RingTyped, Slots
    <3>2. CASE t # s
      BY <3>2, <1>0, <1>2 DEF Empties, RingTyped, RingFilled
    <3> QED BY <3>1, <3>2
  <2> QED BY <2>2, <2>3
<1>3. CASE UNCHANGED ring
  BY <1>0, <1>3 DEF ring, RingTyped, RingFilled
<1>4. CASE UNCHANGED vars
  BY <1>3, <1>4 DEF vars, ring
<1> QED BY <1>1, <1>2, <1>3, <1>4, StepEffect

LEMMA TieTyped ==
    ASSUME tie \in [Shells -> {"end", "part", "none"}], [Next]_vars
    PROVE  tie' \in [Shells -> {"end", "part", "none"}]
<1>1. ASSUME NEW S, Loosen(S) PROVE tie' \in [Shells -> {"end", "part", "none"}]
  BY <1>1 DEF Loosen
<1>2. ASSUME NEW s \in Shells, Session(s)
      PROVE  tie' \in [Shells -> {"end", "part", "none"}]
  <2>1. CASE Start(s) \/ SaveSkipped(s) \/ ChangeHome(s)
    BY <2>1 DEF Start, SaveSkipped, ChangeHome
  <2>2. CASE LoadLine(s) \/ LoadEnds(s) \/ Stop(s)
    BY <2>2 DEF LoadLine, LoadEnds, Stop
  <2>3. CASE Save(s) \/ \E l \in Lines : Type(s, l)
    BY <1>1, <2>3 DEF Save, Type
  <2> QED BY <1>2, <2>1, <2>2, <2>3 DEF Session
<1>3. CASE UNCHANGED vars
  BY <1>3 DEF vars
<1> QED BY <1>2, <1>3 DEF Next

LEMMA StepInvariant == IInv /\ [Next]_vars => IInv'
<1> SUFFICES ASSUME IInv, [Next]_vars PROVE IInv'
  OBVIOUS
<1>1. RingTyped' /\ RingFilled'
  BY RingStep
<1>2. RingTyped /\ RingFilled /\ TypeOK /\ Ready
  BY DEF IInv, TypeOK, RingTyped
<1> DEFINE Rest == /\ pc \in [Shells -> {"off", "load", "prompt", "save"}]
                     /\ pos \in [Shells -> Nat]
                     /\ home \in [Shells -> Homes \cup {NoHome}]
                     /\ file \in [Homes -> Seq(Lines)]
<1>3. Rest
  BY <1>2 DEF TypeOK
<1>4. ASSUME NEW s \in Shells, Session(s) PROVE Rest' /\ Ready'
  <2>1. CASE Start(s)
    BY <1>2, <1>3, <2>1 DEF Start, ring, Ready, TypeOK
  <2>2. CASE LoadLine(s)
    <3>1. Rest'
      BY <1>3, <2>2 DEF LoadLine
    <3>2. \A t \in Shells \ {s} : history_count'[t] = history_count[t]
      BY <1>2, <2>2 DEF LoadLine, history_push, RingTyped
    <3>3. pc[s] = "load" /\ pc' = pc /\ home' = home
      BY <2>2 DEF LoadLine
    <3>4. Ready'
      BY <1>2, <3>2, <3>3 DEF Ready
    <3> QED BY <3>1, <3>4
  <2>3. CASE LoadEnds(s)
    BY <1>2, <1>3, <2>3 DEF LoadEnds, ring, Ready, TypeOK
  <2>4. CASE Save(s)
    <3>1. history_count[s] > 0 /\ home[s] \in Homes
      BY <1>2, <2>4 DEF Save, Ready, TypeOK
    <3>2. LastLine(s) \in Lines
      BY <3>1, LastLineType
    <3>3. Rest'
      BY <1>3, <2>4, <3>1, <3>2 DEF Save
    <3>4. Ready'
      BY <1>2, <2>4 DEF Save, ring, Ready, TypeOK
    <3> QED BY <3>3, <3>4
  <2>5. CASE SaveSkipped(s)
    BY <1>2, <1>3, <2>5 DEF SaveSkipped, ring, Ready, TypeOK
  <2>6. CASE ChangeHome(s)
    BY <1>2, <1>3, <2>6 DEF ChangeHome, ring, Ready, TypeOK
  <2>7. CASE Stop(s)
    BY <1>2, <1>3, <2>7 DEF Stop, Ready, TypeOK
  <2>8. ASSUME NEW l \in Lines, Type(s, l) PROVE Rest' /\ Ready'
    <3>1. Rest'
      BY <1>3, <2>8 DEF Type
    <3>2. history_count'[s] > 0
      <4>1. CASE Repeats(s, l)
        BY <2>8, <4>1 DEF Type, Repeats, ring
      <4>2. CASE ~Repeats(s, l)
        BY <1>2, <2>8, <4>2, PushTyped DEF Type
      <4> QED BY <4>1, <4>2
    <3>3. \A t \in Shells \ {s} : history_count'[t] = history_count[t]
      BY <1>2, <2>8 DEF Type, history_push, ring, RingTyped
    <3>4. Ready'
      BY <1>2, <2>8, <3>2, <3>3 DEF Type, Ready, TypeOK
    <3> QED BY <3>1, <3>4
  <2> QED BY <1>4, <2>1, <2>2, <2>3, <2>4, <2>5, <2>6, <2>7, <2>8 DEF Session
<1>5. ASSUME UNCHANGED vars PROVE Rest' /\ Ready'
  <2>1. UNCHANGED <<pc, pos, home, file, history_count>>
    BY <1>5 DEF vars, ring
  <2>2. Rest'
    BY <1>3, <2>1
  <2>3. Ready'
    BY <1>2, <2>1 DEF Ready
  <2> QED BY <2>2, <2>3
<1>6. tie' \in [Shells -> {"end", "part", "none"}]
  BY <1>2, TieTyped DEF TypeOK
<1> QED BY <1>1, <1>4, <1>5, <1>6 DEF IInv, TypeOK, RingTyped, Next

THEOREM Invariant == Spec => []IInv
BY InitInvariant, StepInvariant, PTL DEF Spec

\* Every variable of the history keeps its type, with any number of shells and
\* any size of the ring.
THEOREM TypeCorrect == Spec => []TypeOK
BY Invariant, PTL DEF IInv

\* `history` and history_save_append never read a slot that was not written.
THEOREM RingFilledCorrect == Spec => []RingFilled
BY Invariant, PTL DEF IInv

-----------------------------------------------------------------------------
LEMMA InitRefined == Init => List!Init
<1> SUFFICES ASSUME Init, NEW s \in Shells PROVE Listed(s) = << >>
  BY DEF List!Init
<1>1. history_count[s] = 0
  BY DEF Init
<1>2. 1..0 = {}
  OBVIOUS
<1> QED BY <1>1, <1>2 DEF Listed

LEMMA StepRefined ==
    IInv /\ [Next]_vars => [List!Next]_([s \in Shells |-> Listed(s)])
<1> SUFFICES ASSUME IInv, [Next]_vars
             PROVE  [List!Next]_([s \in Shells |-> Listed(s)])
  OBVIOUS
<1>0. RingTyped /\ RingFilled
  BY DEF IInv, TypeOK, RingTyped
<1>1. ASSUME NEW s \in Shells, NEW l \in Lines, Records(s, l) PROVE List!Next
  <2>1. /\ Listed(s)' = List!LastOf(Append(Listed(s), l), Size)
        /\ \A t \in Shells \ {s} : Listed(t)' = Listed(t)
    BY <1>0, <1>1, PushEffect DEF Records
  <2>2. List!Push(s, l)
    BY <2>1 DEF List!Push
  <2> QED BY <2>2 DEF List!Next
<1>2. ASSUME NEW s \in Shells, Empties(s) PROVE List!Next
  <2>1. Listed(s)' = << >>
    <3>1. history_count'[s] = 0
      BY <1>0, <1>2 DEF Empties, RingTyped
    <3>2. 1..0 = {}
      OBVIOUS
    <3> QED BY <3>1, <3>2 DEF Listed
  <2>2. \A t \in Shells \ {s} : Listed(t)' = Listed(t)
    BY <1>0, <1>2 DEF Empties, Listed, RingTyped
  <2>3. List!Forget(s)
    BY <2>1, <2>2 DEF List!Forget
  <2> QED BY <2>3 DEF List!Next
<1>3. CASE UNCHANGED ring
  BY <1>3 DEF ring, Listed
<1>4. CASE UNCHANGED vars
  BY <1>3, <1>4 DEF vars, ring
<1> QED BY <1>1, <1>2, <1>3, <1>4, StepEffect

\* The ring with its modular indices implements the list of the last Size
\* lines, through loading, typing, repeated lines, crashes and restarts.
THEOREM RingIsListCorrect == Spec => RingIsList
BY Invariant, InitRefined, StepRefined, PTL DEF Spec, RingIsList, List!Spec

-----------------------------------------------------------------------------
(* Suffixes and subsequences, of any sequences.                            *)

\* The last n elements, by position.
LEMMA LastOfValue ==
    ASSUME NEW S, NEW x \in Seq(S), NEW n \in Nat
    PROVE  /\ List!LastOf(x, n) \in Seq(S)
           /\ Len(List!LastOf(x, n)) = IF Len(x) > n THEN n ELSE Len(x)
           /\ \A i \in 1..Len(List!LastOf(x, n)) :
                 List!LastOf(x, n)[i] = x[Len(x) - Len(List!LastOf(x, n)) + i]
<1>1. CASE Len(x) > n
  <2> DEFINE y == SubSeq(x, Len(x) - n + 1, Len(x))
  <2>1. List!LastOf(x, n) = y
    BY <1>1 DEF List!LastOf
  <2>2. y \in Seq(S) /\ Len(y) = n /\ \A i \in 1..n : y[i] = x[Len(x) - n + i]
    BY <1>1
  <2> HIDE DEF y
  <2> QED BY <1>1, <2>1, <2>2
<1>2. CASE ~(Len(x) > n)
  BY <1>2 DEF List!LastOf
<1> QED BY <1>1, <1>2

\* Two sequences are the same when their lengths and elements are.
LEMMA SameSequence ==
    ASSUME NEW S, NEW x \in Seq(S), NEW y \in Seq(S), Len(x) = Len(y),
           \A i \in 1..Len(x) : x[i] = y[i]
    PROVE  x = y
OBVIOUS

\* To cut after every line or at the end leaves the same lines.
LEMMA LastOfAppend ==
    ASSUME NEW S, NEW x \in Seq(S), NEW e \in S, NEW n \in Nat \ {0}
    PROVE  List!LastOf(Append(List!LastOf(x, n), e), n) = List!LastOf(Append(x, e), n)
<1> DEFINE a == List!LastOf(x, n)
           b == Append(a, e)
           c == Append(x, e)
           k == IF Len(x) > n THEN n ELSE Len(x)
           p == List!LastOf(b, n)
           q == List!LastOf(c, n)
<1>1. a \in Seq(S) /\ Len(a) = k /\ \A i \in 1..Len(a) : a[i] = x[Len(x) - Len(a) + i]
  BY LastOfValue
<1>2. b \in Seq(S) /\ Len(b) = k + 1
      /\ \A i \in 1..(k + 1) : b[i] = IF i = k + 1 THEN e ELSE a[i]
  <2> HIDE DEF a
  <2> QED BY <1>1
<1>3. c \in Seq(S) /\ Len(c) = Len(x) + 1
      /\ \A i \in 1..(Len(x) + 1) : c[i] = IF i = Len(x) + 1 THEN e ELSE x[i]
  OBVIOUS
<1>4. /\ p \in Seq(S) /\ Len(p) = IF Len(b) > n THEN n ELSE Len(b)
      /\ \A i \in 1..Len(p) : p[i] = b[Len(b) - Len(p) + i]
  <2> HIDE DEF b
  <2> QED BY <1>2, LastOfValue
<1>5. /\ q \in Seq(S) /\ Len(q) = IF Len(c) > n THEN n ELSE Len(c)
      /\ \A i \in 1..Len(q) : q[i] = c[Len(c) - Len(q) + i]
  <2> HIDE DEF c
  <2> QED BY <1>3, LastOfValue
<1> HIDE DEF a, b, c, p, q
<1>6. /\ k \in Nat /\ k <= Len(x) /\ Len(x) \in Nat
      /\ Len(b) = k + 1 /\ Len(c) = Len(x) + 1
      /\ Len(p) = Len(q) /\ Len(p) \in Nat /\ Len(p) <= k + 1
  BY <1>2, <1>3, <1>4, <1>5
<1> HIDE DEF k
<1>7. ASSUME NEW i \in 1..Len(p) PROVE p[i] = q[i]
  <2> DEFINE u == Len(b) - Len(p) + i
             v == Len(c) - Len(q) + i
  <2>1. p[i] = b[u] /\ q[i] = c[v]
    BY <1>4, <1>5, <1>6
  <2>2. u \in 1..(k + 1) /\ v \in 1..(Len(x) + 1) /\ v = Len(x) - k + u
    BY <1>6
  <2>3. b[u] = (IF u = k + 1 THEN e ELSE a[u])
    BY <1>2, <2>2
  <2>4. c[v] = (IF v = Len(x) + 1 THEN e ELSE x[v])
    BY <1>3, <2>2
  <2>5. u # k + 1 => a[u] = x[Len(x) - k + u]
    <3> HIDE DEF u, v
    <3>1. u # k + 1 => u \in 1..Len(a)
      BY <1>1, <1>6, <2>2
    <3> QED BY <1>1, <3>1
  <2> HIDE DEF u, v
  <2>6. v = Len(x) - k + u /\ (u = k + 1 <=> v = Len(x) + 1)
    BY <1>6, <2>2
  <2> QED BY <2>1, <2>3, <2>4, <2>5, <2>6
<1>8. p = q
  BY <1>4, <1>5, <1>6, <1>7, SameSequence
<1> QED BY <1>8 DEF p, q, b, c, a

\* A suffix, by position.
LEMMA SuffixValue ==
    ASSUME NEW S, NEW x \in Seq(S), NEW y \in Seq(S)
    PROVE  IsSuffix(x, y) <=> /\ Len(x) <= Len(y)
                              /\ \A i \in 1..Len(x) : x[i] = y[Len(y) - Len(x) + i]
<1> SUFFICES ASSUME Len(x) <= Len(y)
             PROVE  x = SubSeq(y, Len(y) - Len(x) + 1, Len(y))
                    <=> \A i \in 1..Len(x) : x[i] = y[Len(y) - Len(x) + i]
  BY DEF IsSuffix
<1> DEFINE z == SubSeq(y, Len(y) - Len(x) + 1, Len(y))
<1>1. z \in Seq(S) /\ Len(z) = Len(x) /\ \A i \in 1..Len(x) : z[i] = y[Len(y) - Len(x) + i]
  OBVIOUS
<1> HIDE DEF z
<1>2. x = z <=> \A i \in 1..Len(x) : x[i] = y[Len(y) - Len(x) + i]
  <2>1. ASSUME \A i \in 1..Len(x) : x[i] = y[Len(y) - Len(x) + i] PROVE x = z
    BY <1>1, <2>1, SameSequence
  <2> QED BY <1>1, <2>1
<1> QED BY <1>2 DEF z

\* The end of the end of a sequence is an end of it.
LEMMA SuffixOfSuffix ==
    ASSUME NEW S, NEW x \in Seq(S), NEW y \in Seq(S), NEW z \in Seq(S),
           IsSuffix(x, y), IsSuffix(y, z)
    PROVE  IsSuffix(x, z)
<1>1. Len(x) <= Len(y) /\ \A i \in 1..Len(x) : x[i] = y[Len(y) - Len(x) + i]
  BY SuffixValue
<1>2. Len(y) <= Len(z) /\ \A i \in 1..Len(y) : y[i] = z[Len(z) - Len(y) + i]
  BY SuffixValue
<1>3. ASSUME NEW i \in 1..Len(x) PROVE x[i] = z[Len(z) - Len(x) + i]
  <2>1. Len(y) - Len(x) + i \in 1..Len(y)
    BY <1>1
  <2>2. y[Len(y) - Len(x) + i] = z[Len(z) - Len(y) + (Len(y) - Len(x) + i)]
    BY <2>1, <1>2
  <2>3. Len(z) - Len(y) + (Len(y) - Len(x) + i) = Len(z) - Len(x) + i
    BY <1>1, <1>2
  <2> QED BY <1>1, <2>2, <2>3
<1> QED BY <1>1, <1>2, <1>3, SuffixValue

\* One line more at the end of both.
LEMMA SuffixAppend ==
    ASSUME NEW S, NEW x \in Seq(S), NEW y \in Seq(S), NEW e \in S, IsSuffix(x, y)
    PROVE  IsSuffix(Append(x, e), Append(y, e))
<1> DEFINE p == Append(x, e)
           q == Append(y, e)
<1>1. Len(x) <= Len(y) /\ \A i \in 1..Len(x) : x[i] = y[Len(y) - Len(x) + i]
  BY SuffixValue
<1>2. p \in Seq(S) /\ Len(p) = Len(x) + 1
      /\ \A i \in 1..(Len(x) + 1) : p[i] = IF i = Len(x) + 1 THEN e ELSE x[i]
  OBVIOUS
<1>3. q \in Seq(S) /\ Len(q) = Len(y) + 1
      /\ \A i \in 1..(Len(y) + 1) : q[i] = IF i = Len(y) + 1 THEN e ELSE y[i]
  OBVIOUS
<1> HIDE DEF p, q
<1>4. ASSUME NEW i \in 1..Len(p) PROVE p[i] = q[Len(q) - Len(p) + i]
  <2> DEFINE j == Len(y) - Len(x) + i
  <2>1. Len(q) - Len(p) + i = j /\ j \in 1..(Len(y) + 1) /\ (j = Len(y) + 1 <=> i = Len(x) + 1)
    BY <1>1, <1>2, <1>3
  <2>2. i # Len(x) + 1 => x[i] = y[j]
    BY <1>1, <1>2
  <2> HIDE DEF j
  <2>3. q[j] = IF i = Len(x) + 1 THEN e ELSE y[j]
    BY <1>3, <2>1
  <2>4. p[i] = IF i = Len(x) + 1 THEN e ELSE x[i]
    BY <1>2
  <2> QED BY <2>1, <2>2, <2>3, <2>4
<1>5. p \in Seq(S) /\ q \in Seq(S) /\ Len(p) <= Len(q)
  BY <1>1, <1>2, <1>3
<1>6. IsSuffix(p, q)
  BY <1>4, <1>5, SuffixValue
<1> QED BY <1>6 DEF p, q

\* The last n elements are a suffix.
LEMMA LastOfIsSuffix ==
    ASSUME NEW S, NEW x \in Seq(S), NEW n \in Nat
    PROVE  IsSuffix(List!LastOf(x, n), x)
<1> DEFINE y == List!LastOf(x, n)
<1>1. /\ y \in Seq(S) /\ Len(y) <= Len(x)
      /\ \A i \in 1..Len(y) : y[i] = x[Len(x) - Len(y) + i]
  BY LastOfValue
<1> HIDE DEF y
<1>2. IsSuffix(y, x)
  BY <1>1, SuffixValue
<1> QED BY <1>2 DEF y

\* A suffix is there in the same order.
LEMMA SuffixIsSubsequence ==
    ASSUME NEW S, NEW x \in Seq(S), NEW y \in Seq(S), IsSuffix(x, y)
    PROVE  IsSubsequence(x, y)
<1>1. Len(x) <= Len(y) /\ \A i \in 1..Len(x) : x[i] = y[Len(y) - Len(x) + i]
  BY SuffixValue
<1> DEFINE f == [i \in DOMAIN x |-> Len(y) - Len(x) + i]
<1>2. f \in [DOMAIN x -> DOMAIN y]
  BY <1>1
<1>3. \A i, j \in DOMAIN x : i < j => f[i] < f[j]
  OBVIOUS
<1>4. \A i \in DOMAIN x : f[i] = Len(y) - Len(x) + i /\ i \in 1..Len(x)
  OBVIOUS
<1> HIDE DEF f
<1>5. \A i \in DOMAIN x : x[i] = y[f[i]]
  BY <1>1, <1>4
<1> QED BY <1>2, <1>3, <1>5 DEF IsSubsequence

\* Being there in the same order is transitive.
LEMMA SubsequenceOfSubsequence ==
    ASSUME NEW x, NEW y, NEW z, IsSubsequence(x, y), IsSubsequence(y, z)
    PROVE  IsSubsequence(x, z)
<1>1. PICK f \in [DOMAIN x -> DOMAIN y] :
             /\ \A i, j \in DOMAIN x : i < j => f[i] < f[j]
             /\ \A i \in DOMAIN x : x[i] = y[f[i]]
  BY DEF IsSubsequence
<1>2. PICK g \in [DOMAIN y -> DOMAIN z] :
             /\ \A i, j \in DOMAIN y : i < j => g[i] < g[j]
             /\ \A i \in DOMAIN y : y[i] = z[g[i]]
  BY DEF IsSubsequence
<1> DEFINE h == [i \in DOMAIN x |-> g[f[i]]]
<1>3. h \in [DOMAIN x -> DOMAIN z]
  OBVIOUS
<1>4. \A i, j \in DOMAIN x : i < j => h[i] < h[j]
  BY <1>1, <1>2
<1>5. \A i \in DOMAIN x : x[i] = z[h[i]]
  BY <1>1, <1>2
<1> QED BY <1>3, <1>4, <1>5 DEF IsSubsequence

\* One line more at the end of both.
LEMMA SubsequenceAppend ==
    ASSUME NEW S, NEW x \in Seq(S), NEW y \in Seq(S), NEW e \in S, IsSubsequence(x, y)
    PROVE  IsSubsequence(Append(x, e), Append(y, e))
<1> DEFINE p == Append(x, e)
           q == Append(y, e)
<1>1. PICK f \in [DOMAIN x -> DOMAIN y] :
             /\ \A i, j \in DOMAIN x : i < j => f[i] < f[j]
             /\ \A i \in DOMAIN x : x[i] = y[f[i]]
  BY DEF IsSubsequence
<1>2. DOMAIN x = 1..Len(x) /\ DOMAIN y = 1..Len(y) /\ Len(x) \in Nat /\ Len(y) \in Nat
  OBVIOUS
<1>3. DOMAIN p = 1..(Len(x) + 1)
      /\ \A i \in 1..(Len(x) + 1) : p[i] = IF i = Len(x) + 1 THEN e ELSE x[i]
  OBVIOUS
<1>4. DOMAIN q = 1..(Len(y) + 1)
      /\ \A i \in 1..(Len(y) + 1) : q[i] = IF i = Len(y) + 1 THEN e ELSE y[i]
  OBVIOUS
<1> HIDE DEF p, q
<1> DEFINE g == [i \in DOMAIN p |-> IF i = Len(x) + 1 THEN Len(y) + 1 ELSE f[i]]
<1>5. \A i \in DOMAIN p : i # Len(x) + 1 => i \in DOMAIN x /\ f[i] \in DOMAIN y
  BY <1>2, <1>3
<1>6. g \in [DOMAIN p -> DOMAIN q]
  BY <1>2, <1>3, <1>4, <1>5
<1>7. ASSUME NEW i \in DOMAIN p, NEW j \in DOMAIN p, i < j PROVE g[i] < g[j]
  <2>1. i \in 1..(Len(x) + 1) /\ j \in 1..(Len(x) + 1) /\ i # Len(x) + 1
    BY <1>2, <1>3, <1>7
  <2>2. f[i] \in 1..Len(y)
    BY <1>2, <1>5, <2>1
  <2>3. CASE j = Len(x) + 1
    BY <1>2, <2>1, <2>2, <2>3
  <2>4. CASE j # Len(x) + 1
    BY <1>1, <1>5, <1>7, <2>1, <2>4
  <2> QED BY <2>3, <2>4
<1>8. ASSUME NEW i \in DOMAIN p PROVE p[i] = q[g[i]]
  <2>1. CASE i = Len(x) + 1
    <3>1. g[i] = Len(y) + 1 /\ p[i] = e
      BY <2>1, <1>3
    <3>2. q[Len(y) + 1] = e
      BY <1>2, <1>4
    <3> HIDE DEF g
    <3> QED BY <3>1, <3>2
  <2>2. CASE i # Len(x) + 1
    <3>1. i \in DOMAIN x /\ g[i] = f[i] /\ f[i] \in 1..Len(y) /\ p[i] = x[i]
      BY <2>2, <1>2, <1>3, <1>5
    <3>2. q[f[i]] = y[f[i]]
      BY <3>1, <1>2, <1>4
    <3> HIDE DEF g
    <3> QED BY <3>1, <3>2, <1>1
  <2> QED BY <2>1, <2>2
<1>9. IsSubsequence(p, q)
  <2> HIDE DEF g
  <2> QED BY <1>6, <1>7, <1>8 DEF IsSubsequence
<1> QED BY <1>9 DEF p, q

\* A file that grows still has the lines that it had.
LEMMA SubsequenceOfLonger ==
    ASSUME NEW S, NEW y \in Seq(S), NEW e \in S
    PROVE  IsSubsequence(y, Append(y, e))
<1> DEFINE q == Append(y, e)
           f == [i \in DOMAIN y |-> i]
<1>1. DOMAIN y \subseteq DOMAIN q /\ \A i \in DOMAIN y : y[i] = q[i]
  OBVIOUS
<1>2. f \in [DOMAIN y -> DOMAIN q] /\ \A i \in DOMAIN y : f[i] = i
  BY <1>1
<1> HIDE DEF f, q
<1>3. IsSubsequence(y, q)
  BY <1>1, <1>2 DEF IsSubsequence
<1> QED BY <1>3 DEF q

\* A sequence without its last elements.
LEMMA FrontIsSubsequence ==
    ASSUME NEW S, NEW x \in Seq(S), NEW n \in 0..Len(x)
    PROVE  IsSubsequence(SubSeq(x, 1, n), x)
<1> DEFINE p == SubSeq(x, 1, n)
           f == [i \in DOMAIN p |-> i]
<1>1. DOMAIN p \subseteq DOMAIN x /\ \A i \in DOMAIN p : p[i] = x[i]
  OBVIOUS
<1>2. f \in [DOMAIN p -> DOMAIN x] /\ \A i \in DOMAIN p : f[i] = i
  BY <1>1
<1> HIDE DEF f, p
<1>3. IsSubsequence(p, x)
  BY <1>1, <1>2 DEF IsSubsequence
<1> QED BY <1>3 DEF p

-----------------------------------------------------------------------------
(* What a shell lists and what its file holds.                             *)

\* A shell that loads lists the end of what it has read, and nobody has cut it
\* loose from its file; one that is off lists nothing.
Loading(s) ==
    pc[s] = "load" =>
        /\ tie[s] = "end"
        /\ pos[s] <= Len(file[home[s]])
        /\ Listed(s) = List!LastOf(SubSeq(file[home[s]], 1, pos[s]), Size)

Idle(s) == pc[s] = "off" => history_count[s] = 0

\* SurvivesCrash and AllInFile, of one shell.
AtEnd(s) ==
    pc[s] \in {"prompt", "save"} /\ home[s] # NoHome /\ tie[s] = "end" =>
        /\ IsSuffix(Kept(s), file[home[s]])
        /\ Len(Kept(s)) < Size - 1 => Kept(s) = file[home[s]]

Within(s) ==
    home[s] # NoHome /\ tie[s] # "none" => IsSubsequence(Kept(s), file[home[s]])

Tied(s) == Loading(s) /\ Idle(s) /\ AtEnd(s) /\ Within(s)

\* A file holds lines.
LEMMA FileTyped ==
    ASSUME file \in [Homes -> Seq(Lines)], NEW h \in Homes
    PROVE  file[h] \in Seq(Held)
<1>1. file[h] \in Seq(Lines)
  OBVIOUS
<1> QED BY <1>1 DEF Held

\* Every line counts, except one that waits to be saved.
LEMMA KeptSaved ==
    ASSUME RingTyped, NEW s \in Shells, pc[s] # "save"
    PROVE  Kept(s) = Listed(s)
<1> DEFINE l == Listed(s)
<1>1. l \in Seq(Held) /\ Len(l) = history_count[s]
  BY ListedTyped
<1> HIDE DEF l
<1>2. SubSeq(l, 1, Len(l)) = l
  BY <1>1
<1>3. history_count[s] - 0 = Len(l)
  BY <1>1
<1> QED BY <1>2, <1>3 DEF Kept, l

LEMMA KeptUnsaved ==
    ASSUME RingTyped, NEW s \in Shells, pc[s] = "save", history_count[s] > 0
    PROVE  /\ Kept(s) \in Seq(Held) /\ Len(Kept(s)) = history_count[s] - 1
           /\ IsSubsequence(Kept(s), Listed(s))
           /\ LastLine(s) \in Held
           /\ Listed(s) = Append(Kept(s), LastLine(s))
<1> DEFINE l == Listed(s)
           n == history_count[s] - 1
           k == SubSeq(l, 1, n)
           e == l[n + 1]
<1>1. l \in Seq(Held) /\ Len(l) = n + 1 /\ n \in Nat
  BY ListedTyped
<1>2. Kept(s) = k
  BY DEF Kept
<1>3. LastLine(s) = e
  <2>1. history_count[s] \in 1..history_count[s] /\ history_count[s] = n + 1
        /\ history_start[s] \in Int
    BY ListedTyped DEF RingTyped, Slots
  <2> QED BY <2>1 DEF LastLine, Listed
<1> HIDE DEF l, n
<1>4. k \in Seq(Held) /\ Len(k) = n /\ e \in Held /\ \A i \in 1..n : k[i] = l[i]
  BY <1>1
<1>5. IsSubsequence(k, l)
  BY <1>1, FrontIsSubsequence
<1>6. l = Append(k, e)
  <2> DEFINE a == Append(k, e)
  <2>1. a \in Seq(Held) /\ Len(a) = n + 1
    BY <1>1, <1>4
  <2>2. \A i \in 1..(n + 1) : a[i] = l[i]
    <3> HIDE DEF k, e
    <3>1. \A i \in 1..(n + 1) : a[i] = IF i = n + 1 THEN e ELSE k[i]
      BY <1>1, <1>4
    <3>2. e = l[n + 1]
      BY DEF e
    <3> HIDE DEF a
    <3> QED BY <3>1, <3>2, <1>1, <1>4
  <2> HIDE DEF a
  <2>3. a = l
    BY <1>1, <2>1, <2>2, SameSequence
  <2> QED BY <2>3 DEF a
<1> QED BY <1>2, <1>3, <1>4, <1>5, <1>6 DEF l, n

\* A shell that lists nothing.
LEMMA NothingListed ==
    ASSUME RingTyped, NEW s \in Shells, history_count[s] = 0
    PROVE  Listed(s) = << >>
<1>1. 1..0 = {}
  OBVIOUS
<1> QED BY <1>1 DEF Listed

\* Nothing is in every file.
LEMMA NothingIsSubsequence ==
    ASSUME NEW S, NEW y \in Seq(S)
    PROVE  IsSubsequence(<< >>, y)
<1>1. SubSeq(y, 1, 0) = << >> /\ 0 \in 0..Len(y)
  OBVIOUS
<1>2. IsSubsequence(SubSeq(y, 1, 0), y)
  BY <1>1, FrontIsSubsequence
<1> QED BY <1>1, <1>2

-----------------------------------------------------------------------------
(* The shell that takes a step.                                            *)

\* A session starts with an empty list, and has read nothing.
LEMMA StartTied ==
    ASSUME IInv, NEW s \in Shells, Tied(s), Start(s)
    PROVE  Tied(s)'
<1>0. RingTyped /\ TypeOK
  BY DEF IInv, TypeOK, RingTyped
<1>1. /\ pc[s] = "off" /\ pc'[s] = (IF home[s] = NoHome THEN "prompt" ELSE "load")
      /\ pos'[s] = 0 /\ tie'[s] = "end" /\ UNCHANGED <<ring, home, file>>
  BY <1>0 DEF Start, TypeOK
<1>2. history_count[s] = 0
  BY <1>1 DEF Tied, Idle
<1>3. Listed(s) = << >> /\ Listed(s)' = Listed(s)
  BY <1>0, <1>1, <1>2, NothingListed DEF Listed, ring
<1>4. CASE home[s] = NoHome
  BY <1>1, <1>4 DEF Tied, Loading, Idle, AtEnd, Within
<1>5. CASE home[s] # NoHome
  <2> DEFINE f == file[home[s]]
  <2>1. f \in Seq(Held) /\ home'[s] = home[s] /\ file' = file
    BY <1>0, <1>1, <1>5, FileTyped DEF TypeOK
  <2>2. pc'[s] = "load"
    BY <1>1, <1>5
  <2>3. Kept(s)' = << >>
    <3>1. Kept(s)' = SubSeq(<< >>, 1, 0)
      BY <1>1, <1>2, <1>3, <2>2 DEF Kept, ring
    <3> QED BY <3>1
  <2>4. SubSeq(f, 1, 0) = << >> /\ 0 <= Len(f)
    BY <2>1
  <2>5. List!LastOf(<< >>, Size) = << >>
    BY DEF List!LastOf
  <2>6. IsSubsequence(<< >>, f)
    BY <2>1, NothingIsSubsequence
  <2>7. Loading(s)'
    BY <1>1, <1>3, <2>1, <2>4, <2>5 DEF Loading
  <2>8. Within(s)'
    BY <2>1, <2>3, <2>6 DEF Within
  <2> QED BY <2>2, <2>7, <2>8 DEF Tied, Idle, AtEnd
<1> QED BY <1>4, <1>5

\* A line that is loaded follows, in the list as in what has been read.
LEMMA LoadLineTied ==
    ASSUME IInv, NEW s \in Shells, Tied(s), LoadLine(s)
    PROVE  Tied(s)'
<1>0. RingTyped /\ RingFilled /\ TypeOK
  BY DEF IInv, TypeOK, RingTyped
<1> DEFINE f == file[home[s]]
           n == pos[s]
           e == f[n + 1]
           p == SubSeq(f, 1, n)
           q == SubSeq(f, 1, n + 1)
<1>1. pc[s] = "load" /\ home[s] \in Homes
  BY DEF LoadLine, IInv, Ready
<1>2. f \in Seq(Lines) /\ f \in Seq(Held) /\ n \in Nat /\ n < Len(f) /\ e \in Lines
  BY <1>0, <1>1, FileTyped DEF LoadLine, TypeOK
<1>3. /\ pc'[s] = "load" /\ home'[s] = home[s] /\ file' = file
      /\ pos'[s] = n + 1 /\ tie'[s] = tie[s] /\ tie[s] = "end"
  BY <1>0, <1>1 DEF LoadLine, TypeOK, Tied, Loading
<1>4. Listed(s)' = List!LastOf(Append(Listed(s), e), Size)
  BY <1>0, <1>2, PushEffect DEF LoadLine
<1>5. Listed(s) = List!LastOf(p, Size)
  BY <1>1 DEF Tied, Loading
<1> HIDE DEF f, n
<1>6. p \in Seq(Held) /\ q \in Seq(Held) /\ e \in Held /\ q = Append(p, e)
  <2>1. p \in Seq(Held) /\ Len(p) = n /\ \A i \in 1..n : p[i] = f[i]
    BY <1>2
  <2>2. q \in Seq(Held) /\ Len(q) = n + 1 /\ \A i \in 1..(n + 1) : q[i] = f[i]
    BY <1>2
  <2>3. e \in Held
    BY <1>2 DEF Held
  <2> DEFINE a == Append(p, e)
  <2>4. a \in Seq(Held) /\ Len(a) = n + 1
        /\ \A i \in 1..(n + 1) : a[i] = IF i = n + 1 THEN e ELSE p[i]
    <3> HIDE DEF p, e
    <3> QED BY <2>1, <2>3, <1>2
  <2>5. e = f[n + 1]
    OBVIOUS
  <2> HIDE DEF p, q, e, a
  <2>6. \A i \in 1..(n + 1) : a[i] = q[i]
    BY <1>2, <2>1, <2>2, <2>4, <2>5
  <2>7. a = q
    BY <2>2, <2>4, <2>6, SameSequence
  <2> QED BY <2>1, <2>2, <2>3, <2>7 DEF a
<1> HIDE DEF p, q, e
<1>7. Listed(s)' = List!LastOf(q, Size)
  BY <1>4, <1>5, <1>6, LastOfAppend
<1>8. Loading(s)'
  BY <1>2, <1>3, <1>7 DEF Loading, q, f
<1>9. Kept(s)' = Listed(s)'
  <2>1. RingTyped'
    BY <1>0, <1>2, PushTyped DEF LoadLine, e, f, n
  <2>2. (RingTyped /\ pc[s] # "save" => Kept(s) = Listed(s))'
    BY KeptSaved, PTL
  <2> QED BY <1>3, <2>1, <2>2
<1>10. IsSubsequence(List!LastOf(q, Size), f)
  <2>1. IsSuffix(List!LastOf(q, Size), q) /\ List!LastOf(q, Size) \in Seq(Held)
    BY <1>6, LastOfIsSuffix, LastOfValue
  <2>2. IsSubsequence(List!LastOf(q, Size), q)
    BY <1>6, <2>1, SuffixIsSubsequence
  <2>3. n + 1 \in 0..Len(f)
    BY <1>2
  <2>4. IsSubsequence(q, f)
    BY <1>2, <2>3, FrontIsSubsequence DEF q
  <2> QED BY <2>2, <2>4, SubsequenceOfSubsequence
<1>11. Within(s)'
  BY <1>3, <1>7, <1>9, <1>10 DEF Within, f
<1> QED BY <1>3, <1>8, <1>11 DEF Tied, Idle, AtEnd

\* The last line read is the end of the file.
LEMMA LoadEndsTied ==
    ASSUME IInv, NEW s \in Shells, Tied(s), LoadEnds(s)
    PROVE  Tied(s)'
<1>0. RingTyped /\ TypeOK
  BY DEF IInv, TypeOK, RingTyped
<1> DEFINE f == file[home[s]]
<1>1. pc[s] = "load" /\ home[s] \in Homes /\ pos[s] = Len(f)
  BY DEF LoadEnds, IInv, Ready
<1>2. /\ pc'[s] = "prompt" /\ home' = home /\ file' = file /\ tie' = tie
      /\ Listed(s)' = Listed(s)
      /\ history_count' = history_count
  BY <1>0 DEF LoadEnds, TypeOK, Listed, ring
<1>3. f \in Seq(Held)
  BY <1>0, <1>1, FileTyped DEF TypeOK
<1>4. Kept(s) = Listed(s)
  BY <1>0, <1>1, KeptSaved
<1>5. Kept(s)' = Kept(s)
  BY <1>1, <1>2 DEF Kept
<1>6. Listed(s) = List!LastOf(SubSeq(f, 1, Len(f)), Size)
  BY <1>1 DEF Tied, Loading
<1> HIDE DEF f
<1>7. SubSeq(f, 1, Len(f)) = f
  BY <1>3
<1>8. IsSuffix(Listed(s), f)
  BY <1>3, <1>6, <1>7, LastOfIsSuffix
<1>9. Len(Listed(s)) < Size - 1 => Listed(s) = f
  <2>1. Len(f) > Size => Len(Listed(s)) = Size
    BY <1>3, <1>6, <1>7, LastOfValue
  <2>2. Size \in Nat /\ ~(Size < Size - 1)
    OBVIOUS
  <2>3. Len(Listed(s)) < Size - 1 => ~(Len(f) > Size)
    BY <2>1, <2>2
  <2>4. ~(Len(f) > Size) => List!LastOf(f, Size) = f
    BY DEF List!LastOf
  <2> QED BY <2>3, <2>4, <1>6, <1>7
<1>10. AtEnd(s)'
  BY <1>2, <1>4, <1>5, <1>8, <1>9 DEF AtEnd, f
<1>11. Within(s)'
  BY <1>2, <1>5 DEF Tied, Within
<1> QED BY <1>2, <1>10, <1>11 DEF Tied, Idle, Loading

\* A line that is typed does not count until it is saved, but it may cost the
\* oldest one.
LEMMA TypeTied ==
    ASSUME IInv, NEW s \in Shells, NEW e \in Lines, Tied(s), Type(s, e)
    PROVE  Tied(s)'
<1>0. RingTyped /\ RingFilled /\ TypeOK
  BY DEF IInv, TypeOK, RingTyped
<1> DEFINE l == Listed(s)
           f == file[home[s]]
<1>1. pc[s] = "prompt" /\ pc'[s] = "save" /\ home' = home /\ file' = file
  BY <1>0 DEF Type, TypeOK
<1>2. l \in Seq(Held) /\ Len(l) = history_count[s] /\ Len(l) \in 0..Size /\ Kept(s) = l
  BY <1>0, <1>1, ListedTyped, KeptSaved
<1>3. CASE Repeats(s, e)
  <2>1. /\ Listed(s)' = l /\ history_count' = history_count /\ history_count[s] > 0
        /\ tie'[s] \in {"part", "none"} /\ (tie'[s] = "none" <=> tie[s] = "none")
    BY <1>0, <1>3 DEF Type, Repeats, ring, Listed, Loosen, TypeOK
  <2>2. Kept(s)' = SubSeq(l, 1, Len(l) - 1)
    BY <1>1, <1>2, <2>1 DEF Kept
  <2>3. IsSubsequence(SubSeq(l, 1, Len(l) - 1), l)
    <3>1. Len(l) - 1 \in 0..Len(l)
      BY <1>2, <2>1
    <3> HIDE DEF l
    <3> QED BY <1>2, <3>1, FrontIsSubsequence
  <2>4. Within(s)'
    <3>1. home[s] # NoHome /\ tie[s] # "none" => IsSubsequence(l, f)
      BY <1>2 DEF Tied, Within
    <3>2. home'[s] # NoHome /\ tie'[s] # "none" => IsSubsequence(Kept(s)', f)
      <4> HIDE DEF l, f
      <4> QED BY <1>1, <2>1, <2>2, <2>3, <3>1, SubsequenceOfSubsequence
    <3> QED BY <1>1, <3>2 DEF Within
  <2> QED BY <1>1, <2>1, <2>4 DEF Tied, Idle, Loading, AtEnd
<1>4. CASE ~Repeats(s, e)
  <2>1. history_push(s, e) /\ tie'[s] = tie[s]
    BY <1>0, <1>4 DEF Type, Loosen, TypeOK
  <2>2. Listed(s)' = List!LastOf(Append(l, e), Size)
    BY <1>0, <2>1, PushEffect
  <2>3. e \in Held
    BY DEF Held
  <2> DEFINE a == Append(l, e)
             k == List!LastOf(l, Size - 1)
  <2>4. a \in Seq(Held) /\ Len(a) = Len(l) + 1
        /\ \A i \in 1..(Len(l) + 1) : a[i] = IF i = Len(l) + 1 THEN e ELSE l[i]
    <3> HIDE DEF l
    <3> QED BY <1>2, <2>3
  <2>5. /\ k \in Seq(Held) /\ Len(k) = IF Len(l) = Size THEN Size - 1 ELSE Len(l)
        /\ \A i \in 1..Len(k) : k[i] = l[Len(l) - Len(k) + i]
        /\ IsSuffix(k, l)
    <3>1. Size - 1 \in Nat /\ (Len(l) > Size - 1 <=> Len(l) = Size)
      BY <1>2
    <3> HIDE DEF l
    <3>2. k \in Seq(Held) /\ Len(k) = IF Len(l) > Size - 1 THEN Size - 1 ELSE Len(l)
      BY <1>2, <3>1, LastOfValue
    <3>3. \A i \in 1..Len(k) : k[i] = l[Len(l) - Len(k) + i]
      BY <1>2, <3>1, LastOfValue
    <3>4. IsSuffix(k, l)
      BY <1>2, <3>1, LastOfIsSuffix
    <3> QED BY <3>1, <3>2, <3>3, <3>4
  <2> DEFINE n == IF Len(l) = Size THEN Size ELSE Len(l) + 1
  <2>6. history_count'[s] = n
    <3>1. CASE history_count[s] < Size
      BY <1>0, <1>2, <2>1, <3>1, PushBehind DEF RingTyped
    <3>2. CASE ~(history_count[s] < Size)
      BY <1>0, <1>2, <2>1, <3>2, PushOver
    <3> QED BY <3>1, <3>2
  <2> DEFINE b == List!LastOf(a, Size)
  <2>7. /\ b \in Seq(Held) /\ Len(b) = n
        /\ \A i \in 1..n : b[i] = a[Len(a) - n + i]
    <3> HIDE DEF a, l
    <3>1. b \in Seq(Held) /\ Len(b) = IF Len(a) > Size THEN Size ELSE Len(a)
      BY <2>4, LastOfValue
    <3>2. \A i \in 1..Len(b) : b[i] = a[Len(a) - Len(b) + i]
      BY <2>4, LastOfValue
    <3>3. Len(b) = n
      BY <1>2, <2>4, <3>1
    <3> QED BY <3>1, <3>2, <3>3
  <2> HIDE DEF a, b, k
  <2>8. Kept(s)' = SubSeq(b, 1, n - 1)
    BY <1>1, <2>2, <2>6 DEF Kept, a, b
  <2> DEFINE c == SubSeq(b, 1, n - 1)
  <2>9. c = k
    <3> HIDE DEF l
    <3>1. n \in Nat /\ n > 0 /\ Len(k) = n - 1 /\ Len(a) - n = Len(l) - Len(k)
      BY <1>2, <2>4, <2>5
    <3> HIDE DEF n
    <3>2. c \in Seq(Held) /\ Len(c) = n - 1 /\ \A i \in 1..(n - 1) : c[i] = b[i]
      BY <2>7, <3>1
    <3>3. ASSUME NEW i \in 1..(n - 1) PROVE c[i] = k[i]
      <4> DEFINE j == Len(l) - Len(k) + i
      <4>1. c[i] = a[j] /\ k[i] = l[j]
        <5>1. i \in 1..n /\ i \in 1..Len(k) /\ Len(a) - n + i = j
          BY <2>4, <3>1
        <5>2. c[i] = b[i] /\ b[i] = a[Len(a) - n + i]
          BY <2>7, <3>2, <5>1
        <5> QED BY <2>5, <5>1, <5>2
      <4>2. j \in 1..(Len(l) + 1) /\ j # Len(l) + 1
        <5>1. Len(l) \in Nat /\ Len(k) \in Nat /\ Len(k) <= Len(l) /\ i \in 1..Len(k)
          BY <1>2, <2>5, <3>1
        <5> QED BY <5>1
      <4> HIDE DEF j
      <4> QED BY <2>4, <4>1, <4>2
    <3> HIDE DEF c
    <3> QED BY <2>5, <3>1, <3>2, <3>3, SameSequence
  <2>10. Kept(s)' = k
    BY <2>8, <2>9
  <2>11. home'[s] = home[s] /\ file'[home'[s]] = f
    BY <1>1
  <2>12. home[s] # NoHome => f \in Seq(Held)
    BY <1>0, FileTyped DEF TypeOK
  <2>13. AtEnd(s)'
    <3> SUFFICES ASSUME home[s] # NoHome, tie[s] = "end"
                 PROVE  IsSuffix(k, f) /\ (Len(k) < Size - 1 => k = f)
      BY <2>1, <2>10, <2>11 DEF AtEnd
    <3>1. IsSuffix(l, f) /\ (Len(l) < Size - 1 => l = f)
      BY <1>1, <1>2 DEF Tied, AtEnd
    <3> HIDE DEF l, f
    <3>2. IsSuffix(k, f)
      BY <1>2, <2>5, <2>12, <3>1, SuffixOfSuffix
    <3>3. ASSUME Len(k) < Size - 1 PROVE k = f
      <4>1. Len(l) # Size /\ Len(l) < Size - 1
        BY <1>2, <2>5, <3>3
      <4>2. k = l
        <5>1. ~(Len(l) > Size - 1)
          BY <1>2, <4>1
        <5> QED BY <5>1 DEF k, List!LastOf
      <4> QED BY <3>1, <4>1, <4>2
    <3> QED BY <3>2, <3>3
  <2>14. Within(s)'
    <3> SUFFICES ASSUME home[s] # NoHome, tie[s] # "none"
                 PROVE  IsSubsequence(k, f)
      BY <2>1, <2>10, <2>11 DEF Within
    <3>1. IsSubsequence(l, f)
      BY <1>2 DEF Tied, Within
    <3> HIDE DEF l, f
    <3>2. IsSubsequence(k, l)
      BY <1>2, <2>5, SuffixIsSubsequence
    <3> QED BY <3>1, <3>2, SubsequenceOfSubsequence
  <2> QED BY <1>1, <2>13, <2>14 DEF Tied, Idle, Loading
<1> QED BY <1>3, <1>4

\* The line that was typed ends the file as it ends the list.
LEMMA SaveTied ==
    ASSUME IInv, NEW s \in Shells, Tied(s), Save(s)
    PROVE  Tied(s)'
<1>0. RingTyped /\ TypeOK
  BY DEF IInv, TypeOK, RingTyped
<1> DEFINE f == file[home[s]]
           e == LastLine(s)
           k == Kept(s)
<1>1. /\ pc[s] = "save" /\ pc'[s] = "prompt" /\ home' = home /\ home[s] \in Homes
      /\ file'[home[s]] = Append(f, e)
      /\ Listed(s)' = Listed(s) /\ history_count' = history_count
      /\ tie'[s] = tie[s]
  BY <1>0 DEF Save, TypeOK, Listed, ring, Loosen, Others
<1>2. history_count[s] > 0
  BY <1>1 DEF IInv, Ready
<1>3. k \in Seq(Held) /\ e \in Held /\ Listed(s) = Append(k, e) /\ f \in Seq(Held)
  BY <1>0, <1>1, <1>2, KeptUnsaved, FileTyped DEF TypeOK
<1>4. Kept(s)' = Append(k, e)
  <2>1. Kept(s)' = SubSeq(Listed(s), 1, history_count[s] - 0)
    BY <1>1 DEF Kept
  <2>2. Listed(s) \in Seq(Held) /\ history_count[s] - 0 = Len(Listed(s))
    BY <1>0, ListedTyped
  <2> DEFINE l == Listed(s)
  <2>3. SubSeq(l, 1, Len(l)) = l
    <3>1. l \in Seq(Held)
      BY <2>2
    <3> HIDE DEF l
    <3> QED BY <3>1
  <2> QED BY <1>3, <2>1, <2>2, <2>3
<1>5. AtEnd(s)'
  <2> SUFFICES ASSUME home[s] # NoHome, tie[s] = "end"
               PROVE  /\ IsSuffix(Append(k, e), Append(f, e))
                      /\ Len(Append(k, e)) < Size - 1 => Append(k, e) = Append(f, e)
    BY <1>1, <1>4 DEF AtEnd
  <2>1. IsSuffix(k, f) /\ (Len(k) < Size - 1 => k = f)
    BY <1>1 DEF Tied, AtEnd
  <2> HIDE DEF k, e, f
  <2>2. IsSuffix(Append(k, e), Append(f, e))
    BY <1>3, <2>1, SuffixAppend
  <2>3. Len(Append(k, e)) = Len(k) + 1 /\ Len(k) \in Nat
    BY <1>3
  <2> QED BY <2>1, <2>2, <2>3
<1>6. Within(s)'
  <2> SUFFICES ASSUME home[s] # NoHome, tie[s] # "none"
               PROVE  IsSubsequence(Append(k, e), Append(f, e))
    BY <1>1, <1>4 DEF Within
  <2>1. IsSubsequence(k, f)
    BY <1>1 DEF Tied, Within
  <2> HIDE DEF k, e, f
  <2> QED BY <1>3, <2>1, SubsequenceAppend
<1> QED BY <1>1, <1>5, <1>6 DEF Tied, Idle, Loading

\* A shell that is killed lists nothing.
LEMMA StopTied ==
    ASSUME IInv, NEW s \in Shells, Tied(s), Stop(s)
    PROVE  Tied(s)'
<1>0. RingTyped /\ TypeOK
  BY DEF IInv, TypeOK, RingTyped
<1>1. pc'[s] = "off" /\ history_count'[s] = 0 /\ home' = home /\ file' = file
  BY <1>0 DEF Stop, TypeOK
<1>2. Listed(s)' = << >>
  <2>1. 1..0 = {}
    OBVIOUS
  <2> QED BY <1>1, <2>1 DEF Listed
<1>3. Kept(s)' = << >>
  <2>1. Kept(s)' = SubSeq(<< >>, 1, 0)
    BY <1>1, <1>2 DEF Kept
  <2> QED BY <2>1
<1>4. ASSUME home[s] # NoHome PROVE IsSubsequence(<< >>, file[home[s]])
  BY <1>0, <1>4, FileTyped, NothingIsSubsequence DEF TypeOK
<1>5. Within(s)'
  BY <1>1, <1>3, <1>4 DEF Within
<1> QED BY <1>1, <1>5 DEF Tied, Idle, Loading, AtEnd

\* A line that could not be saved, and another HOME, untie a shell.
LEMMA UntiedTied ==
    ASSUME IInv, NEW s \in Shells, SaveSkipped(s) \/ ChangeHome(s)
    PROVE  Tied(s)'
<1>1. pc'[s] = "prompt" /\ tie'[s] = "none"
  BY DEF IInv, TypeOK, SaveSkipped, ChangeHome
<1> QED BY <1>1 DEF Tied, Loading, Idle, AtEnd, Within

-----------------------------------------------------------------------------
(* The shells that look on.                                                *)

\* Nothing of t changes, except that its file may grow by a line; a shell that
\* has loaded it is then no longer tied to its end.
Looks(t) ==
    /\ Listed(t)' = Listed(t)
    /\ history_count'[t] = history_count[t]
    /\ pc'[t] = pc[t]
    /\ pos'[t] = pos[t]
    /\ home'[t] = home[t]
    /\ tie'[t] = tie[t] \/ (tie[t] = "end" /\ tie'[t] = "part" /\ pc[t] # "load")

Grows(t) ==
    /\ \E e \in Held : file'[home[t]] = Append(file[home[t]], e)
    /\ pc[t] \in {"prompt", "save"} => tie'[t] # "end"

LEMMA LookerTied ==
    ASSUME IInv, NEW t \in Shells, Tied(t), Looks(t),
           home[t] # NoHome => file'[home[t]] = file[home[t]] \/ Grows(t)
    PROVE  Tied(t)'
<1>0. TypeOK /\ Ready
  BY DEF IInv
<1> DEFINE f == file[home[t]]
<1>1. home[t] # NoHome => home[t] \in Homes /\ f \in Seq(Held)
  BY <1>0, FileTyped DEF TypeOK
<1>2. Kept(t)' = Kept(t)
  BY DEF Looks, Kept
<1>3. Idle(t)'
  BY DEF Tied, Idle, Looks
<1>4. CASE home[t] = NoHome
  <2>1. pc[t] # "load"
    BY <1>0, <1>4 DEF Ready
  <2> QED BY <1>3, <1>4, <2>1 DEF Tied, Loading, AtEnd, Within, Looks
<1>5. CASE home[t] # NoHome /\ file'[home[t]] = f
  <2>1. Loading(t)'
    BY <1>5 DEF Tied, Loading, Looks
  <2>2. AtEnd(t)'
    BY <1>2, <1>5 DEF Tied, AtEnd, Looks
  <2>3. Within(t)'
    BY <1>2, <1>5 DEF Tied, Within, Looks
  <2> QED BY <1>3, <2>1, <2>2, <2>3 DEF Tied
<1>6. CASE home[t] # NoHome /\ Grows(t)
  <2>1. PICK e \in Held : file'[home[t]] = Append(f, e)
    BY <1>6 DEF Grows
  <2>2. f \in Seq(Held) /\ home[t] \in Homes
    BY <1>1, <1>6
  <2>3. Loading(t)'
    <3> SUFFICES ASSUME pc[t] = "load"
                 PROVE  /\ tie'[t] = "end" /\ pos[t] <= Len(Append(f, e))
                        /\ Listed(t) = List!LastOf(SubSeq(Append(f, e), 1, pos[t]), Size)
      BY <2>1 DEF Loading, Looks
    <3>1. tie'[t] = "end" /\ pos[t] <= Len(f)
          /\ Listed(t) = List!LastOf(SubSeq(f, 1, pos[t]), Size)
      BY DEF Tied, Loading, Looks
    <3>2. pos[t] \in Nat
      BY <1>0 DEF TypeOK
    <3> DEFINE n == pos[t]
    <3> HIDE DEF f, n
    <3>3. n \in Nat /\ n <= Len(f)
      BY <3>1, <3>2 DEF n
    <3>4. n <= Len(Append(f, e)) /\ SubSeq(Append(f, e), 1, n) = SubSeq(f, 1, n)
      BY <2>2, <3>3
    <3> QED BY <3>1, <3>4 DEF n
  <2>4. AtEnd(t)'
    BY <1>6 DEF AtEnd, Grows, Looks
  <2>5. Within(t)'
    <3> SUFFICES ASSUME tie'[t] # "none"
                 PROVE  IsSubsequence(Kept(t), Append(f, e))
      BY <1>2, <2>1 DEF Within, Looks
    <3>1. IsSubsequence(Kept(t), f)
      BY <1>6 DEF Tied, Within, Looks
    <3> HIDE DEF f
    <3> QED BY <2>2, <3>1, SubsequenceOfLonger, SubsequenceOfSubsequence
  <2> QED BY <1>3, <2>3, <2>4, <2>5 DEF Tied
<1> QED BY <1>4, <1>5, <1>6

\* What a step of s does to another shell.
LEMMA OthersLook ==
    ASSUME IInv, NEW s \in Shells, Session(s), NEW t \in Shells \ {s}
    PROVE  /\ Looks(t)
           /\ home[t] # NoHome => file'[home[t]] = file[home[t]] \/ Grows(t)
<1>0. RingTyped /\ RingFilled /\ TypeOK
  BY DEF IInv, TypeOK, RingTyped
<1>1. Listed(t)' = Listed(t) /\ history_count'[t] = history_count[t]
  <2>1. ASSUME NEW l \in Lines, history_push(s, l)
        PROVE  Listed(t)' = Listed(t) /\ history_count'[t] = history_count[t]
    <3>1. Listed(t)' = Listed(t)
      BY <1>0, <2>1, PushEffect
    <3>2. history_count'[t] = history_count[t]
      BY <1>0, <2>1 DEF history_push, RingTyped
    <3> QED BY <3>1, <3>2
  <2>2. CASE UNCHANGED ring
    BY <2>2 DEF ring, Listed
  <2>3. CASE Stop(s)
    BY <1>0, <2>3 DEF Stop, Listed, RingTyped
  <2>4. CASE LoadLine(s)
    <3>1. home[s] \in Homes /\ file[home[s]] \in Seq(Lines) /\ pos[s] \in Nat
          /\ pos[s] < Len(file[home[s]])
      BY <1>0, <2>4 DEF LoadLine, TypeOK, IInv, Ready
    <3>2. file[home[s]][pos[s] + 1] \in Lines
      BY <3>1
    <3> QED BY <2>1, <2>4, <3>2 DEF LoadLine
  <2>5. ASSUME NEW l \in Lines, Type(s, l)
        PROVE  Listed(t)' = Listed(t) /\ history_count'[t] = history_count[t]
    BY <2>1, <2>2, <2>5 DEF Type
  <2>6. CASE Start(s) \/ LoadEnds(s) \/ Save(s) \/ SaveSkipped(s) \/ ChangeHome(s)
    BY <2>2, <2>6 DEF Start, LoadEnds, Save, SaveSkipped, ChangeHome
  <2> QED BY <2>3, <2>4, <2>5, <2>6 DEF Session
<1>2. pc'[t] = pc[t] /\ pos'[t] = pos[t] /\ home'[t] = home[t]
  <2>1. CASE Start(s) \/ LoadLine(s) \/ LoadEnds(s)
    BY <1>0, <2>1 DEF Start, LoadLine, LoadEnds, TypeOK
  <2>2. CASE Save(s) \/ SaveSkipped(s) \/ ChangeHome(s)
    BY <1>0, <2>2 DEF Save, SaveSkipped, ChangeHome, TypeOK
  <2>3. CASE Stop(s) \/ \E l \in Lines : Type(s, l)
    BY <1>0, <2>3 DEF Stop, Type, TypeOK
  <2> QED BY <2>1, <2>2, <2>3 DEF Session
<1>3. CASE Save(s)
  <2>1. tie'[t] = (IF t \in Others(s) /\ tie[t] = "end" THEN "part" ELSE tie[t])
    BY <1>3 DEF Save, Loosen
  <2>2. t \in Others(s) <=> home[t] = home[s] /\ pc[t] \in {"prompt", "save"}
    BY DEF Others
  <2>3. Looks(t)
    BY <1>1, <1>2, <2>1, <2>2 DEF Looks
  <2>4. ASSUME home[t] # home[s], home[t] # NoHome PROVE file'[home[t]] = file[home[t]]
    BY <1>0, <1>3, <2>4 DEF Save, TypeOK
  <2>5. ASSUME home[t] = home[s] PROVE Grows(t)
    <3>1. pc[s] = "save" /\ home[s] \in Homes /\ history_count[s] > 0
      BY <1>0, <1>3 DEF Save, TypeOK, IInv, Ready
    <3>2. LastLine(s) \in Held
      BY <1>0, <3>1, KeptUnsaved
    <3>3. file'[home[t]] = Append(file[home[t]], LastLine(s))
      BY <1>0, <1>3, <2>5, <3>1 DEF Save, TypeOK
    <3>4. pc[t] \in {"prompt", "save"} => tie'[t] # "end"
      BY <2>1, <2>2, <2>5
    <3> QED BY <3>2, <3>3, <3>4 DEF Grows
  <2> QED BY <2>3, <2>4, <2>5
<1>4. ASSUME NEW l \in Lines, Type(s, l) PROVE tie'[t] = tie[t] /\ file' = file
  BY <1>4 DEF Type, Loosen
<1>5. CASE Start(s) \/ LoadLine(s) \/ LoadEnds(s) \/ SaveSkipped(s)
  BY <1>0, <1>1, <1>2, <1>5
  DEF Start, LoadLine, LoadEnds, SaveSkipped, TypeOK, Looks
<1>6. CASE ChangeHome(s) \/ Stop(s)
  BY <1>0, <1>1, <1>2, <1>6 DEF ChangeHome, Stop, TypeOK, Looks
<1>7. CASE \E l \in Lines : Type(s, l)
  BY <1>1, <1>2, <1>4, <1>7 DEF Looks
<1> QED BY <1>3, <1>5, <1>6, <1>7 DEF Session

-----------------------------------------------------------------------------
\* The invariant that is inductive together with IInv.
TiedInv == \A s \in Shells : Tied(s)

\* At first every shell is off.
LEMMA InitTied == Init => TiedInv
<1> SUFFICES ASSUME Init, NEW s \in Shells PROVE Tied(s)
  BY DEF TiedInv
<1>1. IInv
  BY InitInvariant
<1>2. RingTyped /\ TypeOK
  BY <1>1 DEF IInv, TypeOK, RingTyped
<1>3. pc[s] = "off" /\ history_count[s] = 0
  BY DEF Init
<1>4. Kept(s) = << >>
  BY <1>2, <1>3, NothingListed, KeptSaved
<1>5. home[s] # NoHome => IsSubsequence(<< >>, file[home[s]])
  BY <1>2, FileTyped, NothingIsSubsequence DEF TypeOK
<1> QED BY <1>3, <1>4, <1>5 DEF Tied, Loading, Idle, AtEnd, Within

\* Each action ties the shell that takes it, and the others look on.
LEMMA StepTied == IInv /\ TiedInv /\ [Next]_vars => TiedInv'
<1> SUFFICES ASSUME IInv, TiedInv, [Next]_vars PROVE TiedInv'
  OBVIOUS
<1>1. ASSUME NEW s \in Shells, Session(s) PROVE TiedInv'
  <2>1. Tied(s)
    BY DEF TiedInv
  <2>2. Tied(s)'
    BY <1>1, <2>1, StartTied, LoadLineTied, LoadEndsTied, TypeTied, SaveTied, StopTied,
       UntiedTied DEF Session
  <2>3. ASSUME NEW t \in Shells \ {s} PROVE Tied(t)'
    BY <1>1, OthersLook, LookerTied DEF TiedInv
  <2> QED BY <2>2, <2>3 DEF TiedInv
<1>2. CASE UNCHANGED vars
  <2>1. ASSUME NEW t \in Shells PROVE Tied(t)'
    <3>1. Looks(t) /\ file' = file
      BY <1>2 DEF vars, ring, Looks, Listed
    <3> QED BY <3>1, LookerTied DEF TiedInv
  <2> QED BY <2>1 DEF TiedInv
<1> QED BY <1>1, <1>2 DEF Next

\* Tied is an invariant, together with the ring's.
LEMMA TiedInvariant == Spec => [](IInv /\ TiedInv)
BY InitInvariant, StepInvariant, InitTied, StepTied, PTL DEF Spec

\* Wherever a shell is killed, what it has in memory is the end of its file,
\* but for the line being recorded, unless another session wrote there: with
\* any number of shells, and any size of the ring and of the file.
THEOREM SurvivesCrashCorrect == Spec => []SurvivesCrash
<1>1. TiedInv => SurvivesCrash
  BY DEF TiedInv, Tied, AtEnd, SurvivesCrash
<1> QED BY <1>1, TiedInvariant, PTL

\* However the appends of the shells interleave, the file has every line that
\* one of them lists, in the order in which it lists them.
THEOREM AllInFileCorrect == Spec => []AllInFile
<1>1. TiedInv => AllInFile
  BY DEF TiedInv, Tied, Within, AllInFile
<1> QED BY <1>1, TiedInvariant, PTL
=============================================================================
