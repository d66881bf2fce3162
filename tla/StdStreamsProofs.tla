-------------------------- MODULE StdStreamsProofs --------------------------
(***************************************************************************)
(* Proofs about StdStreams, for every number of processes, descriptors,    *)
(* stages and redirected commands in each other.  The argument is Sound:   *)
(* in every process the standard descriptors are open, and each copy that  *)
(* a redirected command keeps is open, above them and shared with no other *)
(* frame, nor with the end of a pipe.  On it rest where lines are written, *)
(* what becomes of the ends of pipes, and that redirect_restore undoes     *)
(* what its command did.  The hypotheses of the theorems are defined below *)
(* by name; where one is missing, TLC shows what goes wrong.               *)
(***************************************************************************)
EXTENDS StdStreams, FiniteSetTheorems, WellFoundedInduction, TLAPS

Descriptors == [FD -> Places]

\* The three standard descriptors are open.
Open(d) == \A x \in 0..2 : d[x] # Closed

\* The saved copies of one frame: open, above the standard three, one each.
Holds(d, save) ==
    \A x \in 0..2 : save[x] # None => save[x] > 2 /\ d[save[x]] # Closed
OneEach(save) ==
    \A x, y \in 0..2 : save[x] = save[y] => x = y \/ save[x] = None

\* Two frames share no copy.
Apart(save, other) ==
    \A x, y \in 0..2 : save[x] = other[y] => save[x] = None

\* The descriptors d of a process with the frames fs that keeps the read end prev.
Sound(d, fs, prev) ==
    /\ Open(d)
    /\ \A i \in DOMAIN fs : Holds(d, fs[i]) /\ OneEach(fs[i])
    /\ \A i, j \in DOMAIN fs : i # j => Apart(fs[i], fs[j])
    /\ prev # None => /\ prev > 2 /\ d[prev] # Closed
                      /\ \A i \in DOMAIN fs, x \in 0..2 : fs[i][x] # prev

-----------------------------------------------------------------------------
(* The descriptor table.                                                   *)

\* The standard descriptors, and what they may stand for.
LEMMA Standard ==
    /\ 0..2 \subseteq FD /\ FD \subseteq Int /\ None \notin FD
    /\ \A x \in FD : x \notin 0..2 => x > 2
    /\ Closed \in Places /\ Std("file") \in Places /\ Std("file") # Closed
    /\ \A p, n \in Procs : /\ ReadEnd(p, n) \in Places /\ WriteEnd(p, n) \in Places
                           /\ ReadEnd(p, n) # Closed /\ WriteEnd(p, n) # Closed
<1>1. 0..2 \subseteq FD /\ FD \subseteq Int /\ None \notin FD /\ \A x \in FD : x \notin 0..2 => x > 2
    BY StdStreamsAssumption DEF FD, None
<1>2. Closed \in Places /\ Std("file") \in Places /\ Std("file") # Closed
    BY DEF Places, Closed, Std
<1>3. ASSUME NEW p \in Procs, NEW n \in Procs
      PROVE  /\ ReadEnd(p, n) \in Places /\ WriteEnd(p, n) \in Places
             /\ ReadEnd(p, n) # Closed /\ WriteEnd(p, n) # Closed
    BY DEF Places, Closed, Std, ReadEnd, WriteEnd
<1> QED BY <1>1, <1>2, <1>3

\* The free descriptors are finitely many.
LEMMA FreeFinite ==
    ASSUME NEW d
    PROVE  /\ Free(d) \subseteq FD /\ FD \subseteq Nat
           /\ IsFiniteSet(Free(d)) /\ Cardinality(Free(d)) \in Nat
<1>1. Free(d) \subseteq FD /\ FD \subseteq Nat
    BY StdStreamsAssumption DEF Free, FD
<1>2. IsFiniteSet(FD)
    BY StdStreamsAssumption, FS_Interval DEF FD
<1>3. IsFiniteSet(Free(d))
    BY <1>1, <1>2, FS_Subset
<1> QED BY <1>1, <1>3, FS_CardinalityType

\* A set of descriptors has a lowest.
LEMMA LowestIn ==
    ASSUME NEW S, S \subseteq FD, S # {}
    PROVE  Lowest(S) \in S
<1> DEFINE F == {0..x : x \in S}
           R == StrictSubsetOrdering(Int)
<1>0. FD \subseteq Nat
    BY FreeFinite
<1>1. \A x \in S : IsFiniteSet(0..x) /\ 0..x \in SUBSET Int
    BY <1>0, FS_Interval
<1>2. F \subseteq FiniteSubsetsOf(Int) /\ F # {}
    BY <1>1 DEF FiniteSubsetsOf
<1>3. IsWellFoundedOn(R, FiniteSubsetsOf(Int))
    BY FS_StrictSubsetOrderingWellFounded
<1>4. PICK s \in F : \A t \in F : <<t, s>> \notin R
    <2> HIDE DEF F, R
    <2> QED BY <1>2, <1>3, WFMin
<1>5. PICK x \in S : s = 0..x
    OBVIOUS
<1>6. ASSUME NEW y \in S, ~(x <= y) PROVE FALSE
    <2>1. 0..y \in F /\ 0..y \in SUBSET Int /\ 0..x \in SUBSET Int
        BY <1>1
    <2>2. 0..y \subseteq 0..x /\ x \in 0..x /\ x \notin 0..y
        BY <1>0, <1>6
    <2>3. <<0..y, 0..x>> \in R
        BY <2>1, <2>2 DEF StrictSubsetOrdering
    <2> QED BY <1>4, <1>5, <2>1, <2>3
<1>7. \E z \in S : \A y \in S : z <= y
    BY <1>6
<1> QED BY <1>7 DEF Lowest

\* Two free descriptors make a pipe.
LEMMA TwoFree ==
    ASSUME NEW d, Cardinality(Free(d)) >= 2
    PROVE  /\ Lowest(Free(d)) \in Free(d)
           /\ Lowest(Free(d) \ {Lowest(Free(d))}) \in Free(d) \ {Lowest(Free(d))}
<1> DEFINE F == Free(d)
           a == Lowest(F)
<1>1. F \subseteq FD /\ IsFiniteSet(F) /\ Cardinality(F) >= 2
    BY FreeFinite
<1>2. F # {}
    BY <1>1, FS_EmptySet
<1>3. a \in F
    BY <1>1, <1>2, LowestIn
<1>4. Cardinality(F \ {a}) = Cardinality(F) - 1 /\ Cardinality(F) \in Nat
    BY <1>1, <1>3, FS_RemoveElement, FS_CardinalityType
<1>5. F \ {a} # {}
    <2>1. Cardinality(F \ {a}) >= 1
        <3> HIDE DEF F, a
        <3> QED BY <1>1, <1>4
    <2> QED BY <2>1, FS_EmptySet
<1>6. Lowest(F \ {a}) \in F \ {a}
    BY <1>1, <1>5, LowestIn
<1> QED BY <1>3, <1>6

-----------------------------------------------------------------------------
(* Redirections, and what puts the streams back.                           *)

Accumulators == [fds : Descriptors, save : Saves, failed : BOOLEAN, keep : BOOLEAN]

\* What redirections make of the descriptors d: the standard ones stay open, a
\* copy is kept where d had nothing, and nothing else is opened or changed.
Applied(acc, d) ==
    /\ acc \in Accumulators /\ Open(acc.fds)
    /\ \A x \in 0..2 : acc.save[x] # None =>
          acc.save[x] > 2 /\ d[acc.save[x]] = Closed /\ acc.fds[acc.save[x]] # Closed
    /\ OneEach(acc.save)
    /\ \A s \in FD : s > 2 /\ d[s] # Closed => acc.fds[s] = d[s]
    /\ \A s \in FD : s > 2 /\ acc.fds[s] # Closed =>
          d[s] # Closed \/ \E y \in 0..2 : acc.save[y] = s
    /\ acc.keep \/ \A y \in 0..2 : acc.save[y] = None
    /\ \A s \in FD : acc.fds[s] = Std("file") \/ \E y \in FD : acc.fds[s] = d[y]

\* What d had in 0, 1 and 2 is there still, or in the copy that was kept.
Undoable(acc, d) ==
    /\ \A x \in 0..2 : IF acc.save[x] = None THEN acc.fds[x] = d[x]
                       ELSE acc.fds[acc.save[x]] = d[x]
    /\ \A s \in FD : s > 2 /\ (\A y \in 0..2 : acc.save[y] # s) => acc.fds[s] = d[s]

\* What one replacement does, descriptor by descriptor.
LEMMA Replaced ==
    ASSUME NEW acc \in Accumulators, NEW x \in 0..2, NEW place \in Places,
           NEW saved \in Free(acc.fds) \cup {None}, Open(acc.fds)
    PROVE  LET new == Replace(acc, x, saved, place)
           IN  /\ new \in Accumulators
               /\ new.failed = acc.failed /\ new.keep = acc.keep
               /\ saved # None => saved \in FD /\ saved > 2 /\ acc.fds[saved] = Closed
               /\ \A s \in FD : new.fds[s] = IF s = x THEN place
                                             ELSE IF s = saved THEN acc.fds[x]
                                             ELSE acc.fds[s]
               /\ \A y \in 0..2 : new.save[y] = IF y = x /\ saved # None THEN saved
                                                ELSE acc.save[y]
<1> DEFINE new == Replace(acc, x, saved, place)
<1>1. /\ x \in FD /\ acc.fds \in Descriptors /\ acc.save \in Saves
      /\ saved # None => saved \in FD /\ acc.fds[saved] = Closed
    BY Standard DEF Accumulators, Free
<1>2. saved # None => saved > 2 /\ saved # x
    BY <1>1, Standard DEF Open
<1>3. CASE saved = None
  <2>1. new = [acc EXCEPT !.fds = [acc.fds EXCEPT ![x] = place], !.save = acc.save]
      BY <1>3 DEF Replace
  <2>2. /\ new.fds = [acc.fds EXCEPT ![x] = place] /\ new.save = acc.save
        /\ new.failed = acc.failed /\ new.keep = acc.keep
        /\ new = [fds |-> new.fds, save |-> new.save, failed |-> acc.failed, keep |-> acc.keep]
      BY <2>1 DEF Accumulators
  <2>3. new.fds \in Descriptors
      BY <2>2, <1>1 DEF Descriptors
  <2>4. new \in Accumulators
      <3> HIDE DEF new
      <3> QED BY <2>2, <2>3, <1>1 DEF Accumulators
  <2>5. \A s \in FD : new.fds[s] = IF s = x THEN place
                                   ELSE IF s = saved THEN acc.fds[x] ELSE acc.fds[s]
      <3> HIDE DEF new
      <3> QED BY <2>2, <1>1, <1>3, Standard DEF Descriptors
  <2> QED
      <3> HIDE DEF new
      <3>1. \A y \in 0..2 : new.save[y] = IF y = x /\ saved # None THEN saved ELSE acc.save[y]
          BY <2>2, <1>3
      <3> QED BY <2>2, <2>4, <2>5, <3>1, <1>1, <1>2 DEF new
<1>4. CASE saved # None
  <2> DEFINE d == [acc.fds EXCEPT ![saved] = acc.fds[x]]
  <2>1. new = [acc EXCEPT !.fds = [d EXCEPT ![x] = place], !.save = [acc.save EXCEPT ![x] = saved]]
      BY <1>4 DEF Replace
  <2>0. d \in Descriptors /\ [d EXCEPT ![x] = place] \in Descriptors
      BY <1>1 DEF Descriptors
  <2>2. /\ new.fds = [d EXCEPT ![x] = place] /\ new.save = [acc.save EXCEPT ![x] = saved]
        /\ new.failed = acc.failed /\ new.keep = acc.keep
        /\ new = [fds |-> new.fds, save |-> new.save, failed |-> acc.failed, keep |-> acc.keep]
      BY <2>1 DEF Accumulators
  <2>3. new.save \in Saves
      BY <2>2, <1>1, <1>4 DEF Saves
  <2>4. new \in Accumulators
      <3> HIDE DEF new, d
      <3> QED BY <2>0, <2>2, <2>3 DEF Accumulators
  <2>5. \A s \in FD : new.fds[s] = IF s = x THEN place
                                   ELSE IF s = saved THEN acc.fds[x] ELSE acc.fds[s]
      <3>1. \A s \in FD : d[s] = IF s = saved THEN acc.fds[x] ELSE acc.fds[s]
          BY <1>1, <1>4 DEF Descriptors
      <3> HIDE DEF new, d
      <3> QED BY <2>0, <2>2, <3>1 DEF Descriptors
  <2>6. \A y \in 0..2 : new.save[y] = IF y = x /\ saved # None THEN saved ELSE acc.save[y]
      <3> HIDE DEF new
      <3> QED BY <2>2, <1>1, <1>4 DEF Saves
  <2> QED
      <3> HIDE DEF new
      <3> QED BY <2>2, <2>4, <2>5, <2>6, <1>1, <1>2, <1>4 DEF new
<1> QED BY <1>3, <1>4

\* A replacement leaves what redirections leave.
LEMMA ReplaceApplies ==
    ASSUME NEW d \in Descriptors, NEW acc, Applied(acc, d),
           NEW x \in 0..2, NEW place \in Places, place # Closed,
           place = Std("file") \/ \E y \in FD : place = d[y],
           NEW saved \in Free(acc.fds) \cup {None}, saved # None => acc.keep /\ acc.save[x] = None
    PROVE  Applied(Replace(acc, x, saved, place), d)
<1> DEFINE new == Replace(acc, x, saved, place)
<1> HIDE DEF new
<1>1. /\ acc \in Accumulators /\ acc.fds \in Descriptors /\ acc.save \in Saves /\ Open(acc.fds)
    BY DEF Applied, Accumulators
<1>2. /\ new \in Accumulators /\ new.keep = acc.keep
      /\ saved # None => saved \in FD /\ saved > 2 /\ acc.fds[saved] = Closed
      /\ \A s \in FD : new.fds[s] = IF s = x THEN place
                                    ELSE IF s = saved THEN acc.fds[x] ELSE acc.fds[s]
      /\ \A y \in 0..2 : new.save[y] = IF y = x /\ saved # None THEN saved ELSE acc.save[y]
    BY <1>1, Replaced DEF new
<1>3. x \in FD /\ 0..2 \subseteq FD /\ FD \subseteq Int /\ None \notin FD
    BY Standard
<1>4. Open(new.fds)
    BY <1>1, <1>2, <1>3 DEF Open
\* A free descriptor is no copy that is kept, and d had nothing there.
<1>5. saved # None => d[saved] = Closed /\ \A y \in 0..2 : acc.save[y] # saved
    BY <1>2 DEF Applied
<1>6. ASSUME NEW y \in 0..2, new.save[y] # None
      PROVE  new.save[y] > 2 /\ d[new.save[y]] = Closed /\ new.fds[new.save[y]] # Closed
  <2>1. CASE y = x /\ saved # None
      BY <2>1, <1>1, <1>2, <1>3, <1>5 DEF Open
  <2>2. CASE ~(y = x /\ saved # None)
    <3>1. new.save[y] = acc.save[y] /\ acc.save[y] \in FD
        BY <2>2, <1>1, <1>2, <1>6 DEF Saves
    <3>2. acc.save[y] > 2 /\ d[acc.save[y]] = Closed /\ acc.fds[acc.save[y]] # Closed
        BY <3>1, <1>6 DEF Applied
    <3>3. acc.save[y] # x /\ acc.save[y] # saved
        BY <3>1, <3>2, <1>2, <1>3, <1>5
    <3> QED BY <3>1, <3>2, <3>3, <1>2
  <2> QED BY <2>1, <2>2
<1>7. OneEach(new.save)
    BY <1>2, <1>5 DEF Applied, OneEach
<1>8. ASSUME NEW s \in FD, s > 2, d[s] # Closed
      PROVE  new.fds[s] = d[s]
  <2>1. s # x /\ s # saved
      BY <1>8, <1>3, <1>5
  <2> QED BY <2>1, <1>2, <1>8 DEF Applied
<1>9. ASSUME NEW s \in FD
      PROVE  new.fds[s] = Std("file") \/ \E y \in FD : new.fds[s] = d[y]
    BY <1>2, <1>3 DEF Applied
<1>10. ASSUME NEW s \in FD, s > 2, new.fds[s] # Closed
       PROVE  d[s] # Closed \/ \E y \in 0..2 : new.save[y] = s
  <2>1. CASE s = saved
      BY <2>1, <1>2, <1>3
  <2>2. CASE s # saved
    <3>1. acc.fds[s] # Closed
        BY <2>2, <1>2, <1>3, <1>10
    <3>2. CASE d[s] # Closed
        BY <3>2
    <3>3. CASE d[s] = Closed
      <4>1. PICK y \in 0..2 : acc.save[y] = s
          BY <3>1, <3>3, <1>10 DEF Applied
      <4>2. new.save[y] = s
          BY <4>1, <1>2, <1>3
      <4> QED BY <4>2
    <3> QED BY <3>2, <3>3
  <2> QED BY <2>1, <2>2
<1>11. new.keep \/ \A y \in 0..2 : new.save[y] = None
    BY <1>2 DEF Applied
<1>12. Applied(new, d)
    BY <1>2, <1>4, <1>6, <1>7, <1>8, <1>9, <1>10, <1>11 DEF Applied
<1> QED BY <1>12 DEF new

\* It can be undone when what is replaced is kept, now or before.
LEMMA ReplaceUndoable ==
    ASSUME NEW d \in Descriptors, NEW acc, Applied(acc, d), Undoable(acc, d),
           NEW x \in 0..2, NEW place \in Places,
           NEW saved \in Free(acc.fds) \cup {None},
           IF saved = None THEN acc.save[x] # None ELSE acc.save[x] = None
    PROVE  Undoable(Replace(acc, x, saved, place), d)
<1> DEFINE new == Replace(acc, x, saved, place)
<1> HIDE DEF new
<1>1. /\ acc \in Accumulators /\ acc.fds \in Descriptors /\ acc.save \in Saves /\ Open(acc.fds)
    BY DEF Applied, Accumulators
<1>2. /\ saved # None => saved \in FD /\ saved > 2 /\ acc.fds[saved] = Closed
      /\ \A s \in FD : new.fds[s] = IF s = x THEN place
                                    ELSE IF s = saved THEN acc.fds[x] ELSE acc.fds[s]
      /\ \A y \in 0..2 : new.save[y] = IF y = x /\ saved # None THEN saved ELSE acc.save[y]
    BY <1>1, Replaced DEF new
<1>3. x \in FD /\ 0..2 \subseteq FD /\ FD \subseteq Int /\ None \notin FD
    BY Standard
<1>4. \A y \in 0..2 : acc.save[y] # None =>
         acc.save[y] \in FD /\ acc.save[y] > 2 /\ acc.save[y] # saved /\ acc.save[y] # x
    BY <1>1, <1>2 DEF Applied, Saves
<1>5. ASSUME NEW y \in 0..2
      PROVE  IF new.save[y] = None THEN new.fds[y] = d[y] ELSE new.fds[new.save[y]] = d[y]
  <2>1. CASE y = x /\ saved # None
    <3>1. new.save[y] = saved /\ saved # x /\ saved \in FD
        BY <2>1, <1>2
    <3>2. new.fds[saved] = acc.fds[x] /\ acc.save[x] = None
        BY <2>1, <3>1, <1>2
    <3>3. acc.fds[x] = d[x]
        BY <3>2 DEF Undoable
    <3> QED BY <2>1, <3>1, <3>2, <3>3
  <2>2. CASE ~(y = x /\ saved # None)
    <3>1. new.save[y] = acc.save[y]
        BY <2>2, <1>2
    <3>2. CASE acc.save[y] = None
      <4>1. y # x /\ y # saved /\ y \in FD
          BY <2>2, <3>2, <1>2, <1>3
      <4> QED BY <4>1, <3>1, <3>2, <1>2 DEF Undoable
    <3>3. CASE acc.save[y] # None
        BY <3>1, <3>3, <1>2, <1>4 DEF Undoable
    <3> QED BY <3>2, <3>3
  <2> QED BY <2>1, <2>2
<1>6. ASSUME NEW s \in FD, s > 2, \A y \in 0..2 : new.save[y] # s
      PROVE  new.fds[s] = d[s]
  <2>1. s # x /\ (saved # None => s # saved) /\ s # None
      BY <1>2, <1>3, <1>6
  <2>2. new.fds[s] = acc.fds[s]
      BY <2>1, <1>2
  <2>3. \A y \in 0..2 : acc.save[y] # s
    <3>1. ASSUME NEW y \in 0..2, acc.save[y] = s PROVE FALSE
      <4>1. new.save[y] # s /\ acc.save[y] # None
          BY <1>6, <3>1, <2>1
      <4>2. y = x /\ saved # None
          BY <4>1, <3>1, <1>2
      <4> QED BY <4>1, <4>2
    <3> QED BY <3>1
  <2> QED BY <2>2, <2>3, <1>6 DEF Undoable
<1>7. Undoable(new, d)
    BY <1>5, <1>6 DEF Undoable
<1> QED BY <1>7 DEF new

Files == {"none", "opens", "missing"}

\* How many files a redirection opens.
One(file) == IF file = "none" THEN 0 ELSE 1
Needed(r) == One(r.files[0]) + One(r.files[1]) + One(r.files[2])

\* A file is opened, or nothing more is.
LEMMA OpenFileApplies ==
    ASSUME NEW d \in Descriptors, NEW acc, Applied(acc, d),
           NEW x \in 0..2, acc.save[x] = None, NEW file \in Files
    PROVE  LET new == OpenFile(acc, x, file)
           IN  /\ Applied(new, d) /\ new.keep = acc.keep
               /\ \A y \in 0..2 : y # x => new.save[y] = acc.save[y]
<1> DEFINE new == OpenFile(acc, x, file)
           free == Free(acc.fds)
           rest == free \ {Lowest(free)}
           saved == IF acc.keep /\ rest # {} THEN Lowest(rest) ELSE None
<1> HIDE DEF new, free, rest, saved
<1>1. /\ acc \in Accumulators /\ acc.save \in Saves /\ Open(acc.fds)
    BY DEF Applied, Accumulators
<1>2. saved \in free \cup {None}
  <2>1. rest \subseteq FD
      BY FreeFinite DEF free, rest
  <2> QED BY <2>1, LowestIn DEF saved, rest
<1>3. CASE acc.failed \/ file = "none"
  <2>1. new = acc
      BY <1>3 DEF new, OpenFile
  <2> QED BY <2>1 DEF new
<1>4. CASE ~(acc.failed \/ file = "none") /\ (file = "missing" \/ free = {})
  <2>1. new = [acc EXCEPT !.failed = TRUE]
      BY <1>4 DEF new, OpenFile, free
  <2>2. /\ new.fds = acc.fds /\ new.save = acc.save /\ new.keep = acc.keep
        /\ new \in Accumulators
      BY <2>1, <1>1 DEF Accumulators
  <2>3. Applied(new, d)
      BY <2>2 DEF Applied
  <2> QED BY <2>2, <2>3 DEF new
<1>5. CASE ~(acc.failed \/ file = "none") /\ ~(file = "missing" \/ free = {})
  <2>1. new = Replace(acc, x, saved, Std("file"))
      BY <1>5 DEF new, OpenFile, free, rest, saved
  <2>2. Applied(new, d)
    <3>1. saved # None => acc.keep
        BY DEF saved
    <3> QED BY <1>2, <2>1, <3>1, Standard, ReplaceApplies DEF free
  <2>3. /\ new.keep = acc.keep
        /\ \A y \in 0..2 : new.save[y] = IF y = x /\ saved # None THEN saved ELSE acc.save[y]
      BY <1>1, <1>2, <2>1, Standard, Replaced DEF free
  <2> QED BY <2>2, <2>3 DEF new
<1> QED BY <1>3, <1>4, <1>5

\* Of two lists of descriptors that differ in one that is taken, one has one
\* free descriptor less.
LEMMA OneLess ==
    ASSUME NEW d \in Descriptors, NEW e \in Descriptors, NEW s \in FD,
           Free(e) = Free(d) \ {s}, NEW n \in Nat, Cardinality(Free(d)) >= n
    PROVE  Cardinality(Free(e)) >= n - 1
<1> DEFINE F == Free(d)
           E == Free(e)
<1>1. IsFiniteSet(F) /\ Cardinality(F) \in Nat /\ E = F \ {s} /\ Cardinality(F) >= n
    BY FreeFinite
<1> HIDE DEF F, E
<1>2. Cardinality(F \ {s}) = IF s \in F THEN Cardinality(F) - 1 ELSE Cardinality(F)
    BY <1>1, FS_RemoveElement
<1>3. Cardinality(E) = Cardinality(F \ {s})
    BY <1>1, Zenon
<1>4. Cardinality(E) >= n - 1
    BY <1>1, <1>2, <1>3
<1> QED BY <1>4 DEF E

\* With two free descriptors what a file replaces is kept.
LEMMA OpenFileUndoable ==
    ASSUME NEW d \in Descriptors, NEW acc, Applied(acc, d), Undoable(acc, d), acc.keep,
           NEW x \in 0..2, acc.save[x] = None, NEW file \in Files,
           NEW n \in Nat, Cardinality(Free(acc.fds)) >= n, n > One(file)
    PROVE  LET new == OpenFile(acc, x, file)
           IN  Undoable(new, d) /\ Cardinality(Free(new.fds)) >= n - One(file)
<1> DEFINE new == OpenFile(acc, x, file)
           free == Free(acc.fds)
           rest == free \ {Lowest(free)}
           saved == IF acc.keep /\ rest # {} THEN Lowest(rest) ELSE None
<1> HIDE DEF new, free, rest, saved
<1>1. /\ acc \in Accumulators /\ acc.save \in Saves /\ Open(acc.fds) /\ acc.fds \in Descriptors
    BY DEF Applied, Accumulators
<1>0. Cardinality(free) \in Nat
    BY FreeFinite DEF free
<1>3. CASE acc.failed \/ file = "none"
  <2>1. new = acc
      BY <1>3 DEF new, OpenFile
  <2>2. Cardinality(free) >= n - One(file)
      BY <1>0 DEF One, free
  <2> QED BY <2>1, <2>2 DEF new, free
<1>4. CASE ~(acc.failed \/ file = "none") /\ (file = "missing" \/ free = {})
  <2>1. new = [acc EXCEPT !.failed = TRUE]
      BY <1>4 DEF new, OpenFile, free
  <2>2. /\ new.fds = acc.fds /\ new.save = acc.save
      BY <2>1, <1>1 DEF Accumulators
  <2>3. Undoable(new, d)
      BY <2>2 DEF Undoable
  <2>4. Cardinality(free) >= n - One(file)
      BY <1>0 DEF One, free
  <2> QED BY <2>2, <2>3, <2>4 DEF new, free
<1>5. CASE ~(acc.failed \/ file = "none") /\ ~(file = "missing" \/ free = {})
  <2>0. Cardinality(free) >= 2 /\ One(file) = 1
      BY <1>0, <1>5 DEF One, free
  <2>1. new = Replace(acc, x, saved, Std("file"))
      BY <1>5 DEF new, OpenFile, free, rest, saved
  <2>2. saved \in free /\ saved # None /\ saved \in FD
      BY <2>0, TwoFree, FreeFinite, Standard DEF free, rest, saved
  <2>3. Undoable(new, d)
      BY <2>1, <2>2, Standard, ReplaceUndoable DEF free
  <2>4. /\ new \in Accumulators /\ saved > 2
        /\ \A s \in FD : new.fds[s] = IF s = x THEN Std("file")
                                      ELSE IF s = saved THEN acc.fds[x] ELSE acc.fds[s]
      BY <1>1, <2>1, <2>2, Standard, Replaced DEF free
  <2>5. Free(new.fds) = Free(acc.fds) \ {saved}
    <3>1. x \in FD /\ acc.fds[x] # Closed /\ Std("file") # Closed
        BY <1>1, Standard DEF Open
    <3> QED BY <2>4, <3>1 DEF Free
  <2>6. new.fds \in Descriptors
      BY <2>4 DEF Accumulators
  <2>7. Cardinality(Free(new.fds)) >= n - 1
      BY <1>1, <2>2, <2>5, <2>6, OneLess
  <2> QED BY <2>0, <2>3, <2>7 DEF new
<1> QED BY <1>3, <1>4, <1>5

\* N>&M copies one of the standard descriptors.
LEMMA DuplicateApplies ==
    ASSUME NEW d \in Descriptors, NEW acc, Applied(acc, d), NEW r \in Redirections
    PROVE  Applied(Duplicate(acc, r), d) /\ Duplicate(acc, r).keep = acc.keep
<1>1. /\ acc \in Accumulators /\ acc.save \in Saves /\ Open(acc.fds) /\ acc.fds \in Descriptors
    BY DEF Applied, Accumulators
<1>2. r.dup = << >> \/ r.dup \in (0..2) \X (0..2)
    BY StdStreamsAssumption
<1>3. CASE acc.failed \/ r.dup = << >>
    BY <1>3 DEF Duplicate
<1>4. CASE ~(acc.failed \/ r.dup = << >>)
  <2> DEFINE from == r.dup[1]
             place == acc.fds[r.dup[2]]
             free == Free(acc.fds)
             saved == IF acc.keep /\ from \in {1, 2} /\ acc.save[from] = None /\ free # {}
                      THEN Lowest(free) ELSE None
  <2>1. from \in 0..2 /\ r.dup[2] \in 0..2 /\ r.dup[2] \in FD
      BY <1>2, <1>4, Standard
  <2>2. /\ place \in Places /\ place # Closed
        /\ place = Std("file") \/ \E y \in FD : place = d[y]
      BY <1>1, <2>1 DEF Descriptors, Open, Applied
  <2>3. saved \in free \cup {None} /\ (saved # None => acc.keep /\ acc.save[from] = None)
    <3>1. free \subseteq FD
        BY FreeFinite
    <3> QED BY <3>1, LowestIn
  <2>4. Duplicate(acc, r) = Replace(acc, from, saved, place)
      BY <1>4 DEF Duplicate
  <2> HIDE DEF from, place, saved
  <2>5. Applied(Duplicate(acc, r), d)
      BY <2>1, <2>2, <2>3, <2>4, ReplaceApplies
  <2>6. Duplicate(acc, r).keep = acc.keep
      BY <1>1, <2>1, <2>2, <2>3, <2>4, Replaced
  <2> QED BY <2>5, <2>6
<1> QED BY <1>3, <1>4

\* It is kept, unless the file redirection did or it is standard input.
LEMMA DuplicateUndoable ==
    ASSUME NEW d \in Descriptors, NEW acc, Applied(acc, d), Undoable(acc, d), acc.keep,
           NEW r \in Redirections, r.dup # << >> => r.dup[1] # 0,
           Cardinality(Free(acc.fds)) >= 1
    PROVE  Undoable(Duplicate(acc, r), d)
<1>1. /\ acc \in Accumulators /\ acc.save \in Saves /\ Open(acc.fds) /\ acc.fds \in Descriptors
    BY DEF Applied, Accumulators
<1>2. r.dup = << >> \/ r.dup \in (0..2) \X (0..2)
    BY StdStreamsAssumption
<1>3. CASE acc.failed \/ r.dup = << >>
    BY <1>3 DEF Duplicate
<1>4. CASE ~(acc.failed \/ r.dup = << >>)
  <2> DEFINE from == r.dup[1]
             place == acc.fds[r.dup[2]]
             free == Free(acc.fds)
             saved == IF acc.keep /\ from \in {1, 2} /\ acc.save[from] = None /\ free # {}
                      THEN Lowest(free) ELSE None
  <2>1. from \in 0..2 /\ from # 0 /\ r.dup[2] \in 0..2 /\ r.dup[2] \in FD
      BY <1>2, <1>4, Standard
  <2>2. place \in Places
      BY <1>1, <2>1 DEF Descriptors
  <2>3. free # {} /\ Lowest(free) \in free /\ Lowest(free) # None
    <3>1. free \subseteq FD /\ Cardinality(free) # 0
        BY FreeFinite
    <3>2. free # {}
        BY <3>1, FS_EmptySet, Zenon
    <3> QED BY <3>1, <3>2, LowestIn, Standard
  <2>4. Duplicate(acc, r) = Replace(acc, from, saved, place)
      BY <1>4 DEF Duplicate
  <2>5. from \in {1, 2}
      BY <2>1
  <2>6. saved \in free \cup {None} /\ IF saved = None THEN acc.save[from] # None ELSE acc.save[from] = None
      BY <2>3, <2>5
  <2> HIDE DEF from, place, saved
  <2> QED BY <2>1, <2>2, <2>4, <2>6, ReplaceUndoable
<1> QED BY <1>3, <1>4

Start(d, keep) ==
    [fds |-> d, save |-> [x \in 0..2 |-> None], failed |-> FALSE, keep |-> keep]

\* Before the first redirection nothing has changed.
LEMMA StartApplied ==
    ASSUME NEW d \in Descriptors, Open(d), NEW keep \in BOOLEAN
    PROVE  LET start == Start(d, keep)
           IN  /\ Applied(start, d) /\ Undoable(start, d) /\ start.fds = d /\ start.keep = keep
               /\ \A x \in 0..2 : start.save[x] = None
<1> DEFINE start == Start(d, keep)
<1>1. start \in Accumulators
    BY DEF Start, Accumulators, Saves
<1>2. /\ start.fds = d /\ start.keep = keep /\ \A x \in 0..2 : start.save[x] = None
    BY DEF Start
<1> HIDE DEF start
<1>3. \A x \in 0..2 : x \in FD
    BY Standard
<1>4. Applied(start, d)
    BY <1>1, <1>2, <1>3 DEF Applied, OneEach
<1>5. Undoable(start, d)
    BY <1>1, <1>2, <1>3 DEF Undoable
<1> QED BY <1>2, <1>4, <1>5 DEF start

\* Whatever the redirections, and whatever could not be opened or kept.
LEMMA RedirectionsApply ==
    ASSUME NEW d \in Descriptors, Open(d), NEW r \in Redirections
    PROVE  /\ Applied(apply_redirection_with_restore(d, r), d)
           /\ Applied(apply_redirection(d, r), d) /\ ~apply_redirection(d, r).keep
<1>1. ASSUME NEW keep \in BOOLEAN
      PROVE  /\ Applied(Duplicate(Opened(d, r, keep), r), d)
             /\ Duplicate(Opened(d, r, keep), r).keep = keep
  <2> DEFINE start == Start(d, keep)
             in == OpenFile(start, 0, r.files[0])
             out == OpenFile(in, 1, r.files[1])
             err == OpenFile(out, 2, r.files[2])
  <2>1. r.files[0] \in Files /\ r.files[1] \in Files /\ r.files[2] \in Files
      BY StdStreamsAssumption DEF Files
  <2>2. 0 \in 0..2 /\ 1 \in 0..2 /\ 2 \in 0..2
      OBVIOUS
  <2>3. Opened(d, r, keep) = err
      BY DEF Opened, Start
  <2> HIDE DEF start, in, out, err
  <2>4. Applied(start, d) /\ start.keep = keep /\ start.save[0] = None /\ start.save[1] = None /\ start.save[2] = None
      BY <2>2, StartApplied DEF start
  <2>5. Applied(in, d) /\ in.keep = keep /\ in.save[1] = None /\ in.save[2] = None
      BY <2>1, <2>2, <2>4, OpenFileApplies DEF in
  <2>6. Applied(out, d) /\ out.keep = keep /\ out.save[2] = None
      BY <2>1, <2>2, <2>5, OpenFileApplies DEF out
  <2>7. Applied(err, d) /\ err.keep = keep
      BY <2>1, <2>2, <2>6, OpenFileApplies DEF err
  <2> QED BY <2>3, <2>7, DuplicateApplies
<1> QED BY <1>1 DEF apply_redirection_with_restore, apply_redirection

\* With descriptors enough to keep what is replaced, and no N>&M for input.
LEMMA RedirectionsUndoable ==
    ASSUME NEW d \in Descriptors, Open(d), NEW r \in Redirections,
           r.dup # << >> => r.dup[1] # 0, Cardinality(Free(d)) > Needed(r)
    PROVE  Undoable(apply_redirection_with_restore(d, r), d)
<1> DEFINE start == Start(d, TRUE)
           in == OpenFile(start, 0, r.files[0])
           out == OpenFile(in, 1, r.files[1])
           err == OpenFile(out, 2, r.files[2])
           n == Needed(r) + 1
           n1 == n - One(r.files[0])
           n2 == n1 - One(r.files[1])
           n3 == n2 - One(r.files[2])
<1>1. r.files[0] \in Files /\ r.files[1] \in Files /\ r.files[2] \in Files
    BY StdStreamsAssumption DEF Files
<1>2. 0 \in 0..2 /\ 1 \in 0..2 /\ 2 \in 0..2
    OBVIOUS
<1>3. apply_redirection_with_restore(d, r) = Duplicate(err, r)
    BY DEF apply_redirection_with_restore, Opened, Start
<1>n. /\ n \in Nat /\ n > One(r.files[0])
      /\ n1 \in Nat /\ n1 > One(r.files[1])
      /\ n2 \in Nat /\ n2 > One(r.files[2])
      /\ n3 = 1
    BY DEF Needed, One
<1>c. Cardinality(Free(d)) >= n
  <2>1. Cardinality(Free(d)) \in Nat /\ Needed(r) \in Nat
      BY FreeFinite DEF Needed, One
  <2> QED BY <2>1
<1> HIDE DEF start, in, out, err, n, n1, n2, n3
<1>4. /\ Applied(start, d) /\ Undoable(start, d) /\ start.fds = d /\ start.keep
      /\ start.save[0] = None /\ start.save[1] = None /\ start.save[2] = None
    BY <1>2, StartApplied DEF start
<1>5. Applied(in, d) /\ in.save[1] = None /\ in.save[2] = None /\ in.keep
    BY <1>1, <1>2, <1>4, OpenFileApplies DEF in
<1>6. Undoable(in, d) /\ Cardinality(Free(in.fds)) >= n1
    BY <1>1, <1>2, <1>4, <1>n, <1>c, OpenFileUndoable DEF in, n1
<1>7. Applied(out, d) /\ out.save[2] = None /\ out.keep
    BY <1>1, <1>2, <1>5, OpenFileApplies DEF out
<1>8. Undoable(out, d) /\ Cardinality(Free(out.fds)) >= n2
    BY <1>1, <1>2, <1>5, <1>6, <1>n, OpenFileUndoable DEF out, n2
<1>9. Applied(err, d) /\ err.keep
    BY <1>1, <1>2, <1>7, OpenFileApplies DEF err
<1>10. Undoable(err, d) /\ Cardinality(Free(err.fds)) >= n3
    BY <1>1, <1>2, <1>7, <1>8, <1>n, OpenFileUndoable DEF err, n3
<1> QED BY <1>3, <1>9, <1>10, <1>n, DuplicateUndoable

\* Then redirect_restore puts every descriptor back.
LEMMA RestoreUndoes ==
    ASSUME NEW d \in Descriptors, NEW acc, Applied(acc, d), Undoable(acc, d)
    PROVE  redirect_restore(acc.fds, acc.save) = d
<1>1. acc.fds \in Descriptors /\ acc.save \in Saves
    BY DEF Applied, Accumulators
<1>2. /\ \A y \in 0..2 : acc.save[y] # None =>
            acc.save[y] > 2 /\ d[acc.save[y]] = Closed /\ acc.save[y] \in FD
      /\ FD \subseteq Int /\ \A x \in FD : x \notin 0..2 => x > 2
      /\ None \notin FD
    BY <1>1, Standard DEF Applied, Saves
<1>3. ASSUME NEW x \in FD
      PROVE  redirect_restore(acc.fds, acc.save)[x] = d[x]
  <2>1. CASE x \in 0..2 /\ acc.save[x] # None
      BY <2>1 DEF redirect_restore, Undoable
  <2>2. CASE x \in 0..2 /\ acc.save[x] = None
    <3>1. ~ \E y \in 0..2 : acc.save[y] = x
        BY <1>2, <2>2
    <3> QED BY <2>2, <3>1 DEF redirect_restore, Undoable
  <2>3. CASE x \notin 0..2 /\ \E y \in 0..2 : acc.save[y] = x
      BY <1>2, <2>3 DEF redirect_restore
  <2>4. CASE x \notin 0..2 /\ ~ \E y \in 0..2 : acc.save[y] = x
      BY <1>2, <2>4 DEF redirect_restore, Undoable
  <2> QED BY <2>1, <2>2, <2>3, <2>4
<1>4. redirect_restore(acc.fds, acc.save) = [x \in FD |-> redirect_restore(acc.fds, acc.save)[x]]
    BY DEF redirect_restore
<1>5. d = [x \in FD |-> d[x]]
    BY DEF Descriptors
<1> QED BY <1>3, <1>4, <1>5, Zenon

\* A redirected command keeps the copies of the frames around it.
LEMMA BeginSound ==
    ASSUME NEW d \in Descriptors, NEW fs \in Seq(Saves), Sound(d, fs, None),
           NEW acc, Applied(acc, d)
    PROVE  Sound(acc.fds, Append(fs, acc.save), None)
<1> DEFINE fs2 == Append(fs, acc.save)
<1>1. acc.fds \in Descriptors /\ acc.save \in Saves /\ Open(acc.fds)
    BY DEF Applied, Accumulators
<1>2. /\ Len(fs2) = Len(fs) + 1 /\ DOMAIN fs2 = 1..Len(fs) + 1 /\ DOMAIN fs = 1..Len(fs)
      /\ Len(fs) \in Nat
      /\ \A i \in 1..Len(fs) : fs2[i] = fs[i]
      /\ fs2[Len(fs) + 1] = acc.save
    BY <1>1
<1> HIDE DEF fs2
<1>3. Holds(acc.fds, acc.save) /\ OneEach(acc.save)
    BY DEF Applied, Holds
<1>4. ASSUME NEW i \in DOMAIN fs
      PROVE  Holds(acc.fds, fs[i]) /\ OneEach(fs[i])
             /\ Apart(fs[i], acc.save) /\ Apart(acc.save, fs[i])
  <2>1. Holds(d, fs[i]) /\ OneEach(fs[i]) /\ fs[i] \in Saves
      BY <1>4 DEF Sound
  <2>2. ASSUME NEW x \in 0..2, fs[i][x] # None
        PROVE  /\ fs[i][x] > 2 /\ acc.fds[fs[i][x]] # Closed
               /\ \A y \in 0..2 : acc.save[y] # fs[i][x]
    <3>1. fs[i][x] \in FD /\ fs[i][x] > 2 /\ d[fs[i][x]] # Closed
        BY <2>1, <2>2 DEF Holds, Saves
    <3>2. acc.fds[fs[i][x]] = d[fs[i][x]]
        BY <3>1 DEF Applied
    <3>3. \A y \in 0..2 : acc.save[y] # fs[i][x]
        BY <3>1, <2>2 DEF Applied
    <3> QED BY <3>1, <3>2, <3>3
  <2> QED BY <2>1, <2>2 DEF Holds, Apart
<1>5. ASSUME NEW i \in DOMAIN fs2
      PROVE  Holds(acc.fds, fs2[i]) /\ OneEach(fs2[i])
    BY <1>2, <1>3, <1>4
<1>6. ASSUME NEW i \in DOMAIN fs2, NEW j \in DOMAIN fs2, i # j
      PROVE  Apart(fs2[i], fs2[j])
  <2>1. CASE i \in DOMAIN fs /\ j \in DOMAIN fs
      BY <2>1, <1>2, <1>6 DEF Sound
  <2>2. CASE i \in DOMAIN fs /\ j = Len(fs) + 1
      BY <2>2, <1>2, <1>4
  <2>3. CASE i = Len(fs) + 1 /\ j \in DOMAIN fs
      BY <2>3, <1>2, <1>4
  <2> QED BY <2>1, <2>2, <2>3, <1>2, <1>6
<1>7. Sound(acc.fds, fs2, None)
    BY <1>1, <1>5, <1>6 DEF Sound
<1> QED BY <1>7 DEF fs2

\* And so does what puts the streams back.
LEMMA EndSound ==
    ASSUME NEW d \in Descriptors, NEW fs \in Seq(Saves), fs # << >>, Sound(d, fs, None)
    PROVE  /\ redirect_restore(d, Last(fs)) \in Descriptors
           /\ Front(fs) \in Seq(Saves)
           /\ Sound(redirect_restore(d, Last(fs)), Front(fs), None)
<1> DEFINE n == Len(fs)
           fs2 == Front(fs)
           save == Last(fs)
           e == redirect_restore(d, save)
<1>1. /\ n \in Nat \ {0} /\ DOMAIN fs = 1..n /\ n \in DOMAIN fs
      /\ save = fs[n] /\ save \in Saves
    BY DEF Last
<1>2. /\ DOMAIN fs2 = 1..n - 1 /\ fs2 \in Seq(Saves)
      /\ \A i \in 1..n - 1 : fs2[i] = fs[i]
    BY <1>1 DEF Front
<1>3. Holds(d, save)
    BY <1>1 DEF Sound
<1>4. e \in Descriptors
  <2>1. \A x \in 0..2 : save[x] # None => save[x] \in FD
      BY <1>1 DEF Saves
  <2> QED BY <2>1, Standard DEF redirect_restore, Descriptors
<1> HIDE DEF fs2, save
<1>5. ASSUME NEW x \in 0..2
      PROVE  e[x] # Closed
  <2>1. x \in FD
      BY Standard
  <2>2. CASE save[x] # None
      BY <2>1, <2>2, <1>3 DEF Holds, redirect_restore
  <2>3. CASE save[x] = None
    <3>1. ~ \E y \in 0..2 : save[y] = x
        BY <1>3, <2>1, Standard DEF Holds
    <3>2. e[x] = d[x]
        BY <2>1, <2>3, <3>1 DEF redirect_restore
    <3> QED BY <3>2 DEF Sound, Open
  <2> QED BY <2>2, <2>3
<1>6. ASSUME NEW i \in 1..n - 1
      PROVE  Holds(e, fs[i]) /\ OneEach(fs[i])
  <2>0. i \in DOMAIN fs /\ i # n /\ fs[i] \in Saves
    <3>1. i \in 1..n /\ i # n
      <4> HIDE DEF n
      <4> QED BY <1>1
    <3>2. i \in DOMAIN fs
        BY <1>1, <3>1
    <3> QED BY <3>1, <3>2
  <2>1. Holds(d, fs[i]) /\ OneEach(fs[i])
      BY <2>0 DEF Sound
  <2>2. Apart(fs[i], save)
      BY <1>1, <2>0 DEF Sound
  <2>3. ASSUME NEW x \in 0..2, fs[i][x] # None
        PROVE  e[fs[i][x]] # Closed
    <3>1. fs[i][x] \in FD /\ fs[i][x] > 2 /\ d[fs[i][x]] # Closed
        BY <2>0, <2>1, <2>3 DEF Holds, Saves
    <3>2. ~ \E y \in 0..2 : save[y] = fs[i][x]
        BY <2>2, <2>3 DEF Apart
    <3> QED BY <3>1, <3>2 DEF redirect_restore
  <2> QED BY <2>1, <2>3 DEF Holds
<1>7. ASSUME NEW i \in 1..n - 1, NEW j \in 1..n - 1, i # j
      PROVE  Apart(fs[i], fs[j])
    BY <1>1, <1>7 DEF Sound
<1>8. Sound(e, fs2, None)
  <2> HIDE DEF e, n
  <2> QED BY <1>2, <1>5, <1>6, <1>7 DEF Sound, Open
<1> QED BY <1>2, <1>4, <1>8 DEF fs2, save

-----------------------------------------------------------------------------
(* Pipelines and substitutions.                                            *)

\* A pipe takes two free descriptors, above the standard ones.
LEMMA PipeEndsFree ==
    ASSUME NEW p \in Procs, Cardinality(Free(fds[p])) >= 2, Open(fds[p])
    PROVE  /\ PipeEnds(p)[1] \in FD /\ PipeEnds(p)[1] > 2 /\ fds[p][PipeEnds(p)[1]] = Closed
           /\ PipeEnds(p)[2] \in FD /\ PipeEnds(p)[2] > 2 /\ fds[p][PipeEnds(p)[2]] = Closed
           /\ PipeEnds(p)[1] # PipeEnds(p)[2]
<1>1. /\ PipeEnds(p)[1] \in Free(fds[p]) /\ PipeEnds(p)[2] \in Free(fds[p])
      /\ PipeEnds(p)[1] # PipeEnds(p)[2]
    BY TwoFree DEF PipeEnds
<1>2. \A x \in Free(fds[p]) : x \in FD /\ x > 2 /\ fds[p][x] = Closed
    BY Standard DEF Free, Open
<1> QED BY <1>1, <1>2

\* What the shell has after a fork, descriptor by descriptor.
LEMMA KeptIs ==
    ASSUME NEW p \in Procs, CanFork(p), Forked \in Procs,
           fds[p] \in Descriptors, Sound(fds[p], frames[p], job[p].prev),
           job[p].prev \in FD \cup {None}
    PROVE  /\ KeptFds(p) \in Descriptors
           /\ \A x \in FD : KeptFds(p)[x] =
                 IF HaveNext(p) /\ x = PipeEnds(p)[1] THEN ReadEnd(p, Forked)
                 ELSE IF x = job[p].prev THEN Closed ELSE fds[p][x]
<1> DEFINE a == PipeEnds(p)[1]
           b == PipeEnds(p)[2]
           prev == job[p].prev
           d == WithPipe(p)
           e == IF HaveNext(p) THEN [d EXCEPT ![b] = Closed] ELSE d
           k == IF prev = None THEN e ELSE [e EXCEPT ![prev] = Closed]
<1>1. KeptFds(p) = k
    BY DEF KeptFds
<1>2. prev # None => prev \in FD /\ fds[p][prev] # Closed
    BY DEF Sound
<1>3. HaveNext(p) => a \in FD /\ b \in FD /\ a # b /\ fds[p][a] = Closed /\ fds[p][b] = Closed
    BY PipeEndsFree DEF CanFork, Sound
<1>4. ReadEnd(p, Forked) \in Places /\ WriteEnd(p, Forked) \in Places /\ Closed \in Places
    BY Standard
<1>5. CASE HaveNext(p)
  <2>1. d = [fds[p] EXCEPT ![a] = ReadEnd(p, Forked), ![b] = WriteEnd(p, Forked)]
      BY <1>5 DEF WithPipe
  <2> HIDE DEF a, b, prev
  <2>2. d \in Descriptors
      BY <2>1, <1>4 DEF Descriptors
  <2> HIDE DEF d
  <2>3. e = [d EXCEPT ![b] = Closed] /\ e \in Descriptors
      BY <1>4, <1>5, <2>2 DEF Descriptors
  <2>4. \A x \in FD : e[x] = IF x = a THEN ReadEnd(p, Forked) ELSE fds[p][x]
      BY <1>3, <1>5, <2>1, <2>2, <2>3 DEF Descriptors
  <2> HIDE DEF e
  <2>5. k \in Descriptors
      BY <1>4, <2>3 DEF Descriptors
  <2>6. \A x \in FD : k[x] = IF x = a THEN ReadEnd(p, Forked)
                             ELSE IF x = prev THEN Closed ELSE fds[p][x]
    <3>1. CASE prev = None
        BY <3>1, <2>4, Standard
    <3>2. CASE prev # None
      <4>1. k = [e EXCEPT ![prev] = Closed] /\ prev # a
          BY <3>2, <1>2, <1>3, <1>5
      <4> QED BY <4>1, <2>3, <2>4 DEF Descriptors
    <3> QED BY <3>1, <3>2
  <2> HIDE DEF k
  <2> QED BY <1>1, <1>5, <2>5, <2>6 DEF a, prev
<1>6. CASE ~HaveNext(p)
  <2>1. e = fds[p]
      BY <1>6 DEF WithPipe
  <2>2. k \in Descriptors
      BY <1>4, <2>1 DEF Descriptors
  <2>3. \A x \in FD : k[x] = IF x = prev THEN Closed ELSE fds[p][x]
      BY <2>1, <1>2, Standard DEF Descriptors
  <2> HIDE DEF k
  <2> QED BY <1>1, <1>6, <2>2, <2>3
<1> QED BY <1>5, <1>6

\* And what the stage has.
LEMMA StageIs ==
    ASSUME NEW p \in Procs, CanFork(p), Forked \in Procs,
           fds[p] \in Descriptors, Sound(fds[p], frames[p], job[p].prev),
           job[p].prev \in FD \cup {None}
    PROVE  /\ StageFds(p) \in Descriptors
           /\ \A x \in FD : StageFds(p)[x] =
                 IF HaveNext(p) /\ x = 1 THEN WriteEnd(p, Forked)
                 ELSE IF job[p].prev # None /\ x = 0 THEN fds[p][job[p].prev]
                 ELSE IF x = job[p].prev THEN Closed ELSE fds[p][x]
<1> DEFINE a == PipeEnds(p)[1]
           b == PipeEnds(p)[2]
           prev == job[p].prev
           d == WithPipe(p)
           e == IF prev = None THEN d ELSE [d EXCEPT ![0] = d[prev], ![prev] = Closed]
           k == IF HaveNext(p)
                THEN [e EXCEPT ![1] = WriteEnd(p, Forked), ![a] = Closed, ![b] = Closed]
                ELSE e
<1>1. StageFds(p) = k
    BY DEF StageFds
<1>2. prev # None => prev \in FD /\ fds[p][prev] # Closed /\ prev > 2 /\ fds[p][prev] \in Places
    BY DEF Sound, Descriptors
<1>3. HaveNext(p) => /\ a \in FD /\ b \in FD /\ a # b /\ fds[p][a] = Closed /\ fds[p][b] = Closed
                     /\ a > 2 /\ b > 2
    BY PipeEndsFree DEF CanFork, Sound
<1>4. /\ ReadEnd(p, Forked) \in Places /\ WriteEnd(p, Forked) \in Places /\ Closed \in Places
      /\ 0 \in FD /\ 1 \in FD /\ None \notin FD
    BY Standard
<1>5. CASE HaveNext(p)
  <2>1. d = [fds[p] EXCEPT ![a] = ReadEnd(p, Forked), ![b] = WriteEnd(p, Forked)]
      BY <1>5 DEF WithPipe
  <2> HIDE DEF a, b, prev
  <2>2. d \in Descriptors
      BY <2>1, <1>4 DEF Descriptors
  <2>3. \A x \in FD : d[x] = IF x = a THEN ReadEnd(p, Forked)
                             ELSE IF x = b THEN WriteEnd(p, Forked) ELSE fds[p][x]
      BY <1>3, <1>5, <2>1 DEF Descriptors
  <2> HIDE DEF d
  <2>4. /\ e \in Descriptors
        /\ \A x \in FD : e[x] = IF prev # None /\ x = 0 THEN fds[p][prev]
                                ELSE IF x = prev THEN Closed ELSE d[x]
    <3>1. CASE prev = None
        BY <3>1, <2>2, <1>4
    <3>2. CASE prev # None
      <4>1. d[prev] = fds[p][prev] /\ prev # 0
          BY <3>2, <1>2, <1>3, <1>5, <2>3
      <4>2. e = [d EXCEPT ![0] = fds[p][prev], ![prev] = Closed]
          BY <3>2, <4>1
      <4>3. e \in Descriptors
          BY <3>2, <4>2, <2>2, <1>2, <1>4 DEF Descriptors
      <4> HIDE DEF e
      <4>4. \A x \in FD : e[x] = IF x = 0 THEN fds[p][prev] ELSE IF x = prev THEN Closed ELSE d[x]
          BY <4>1, <4>2, <2>2, <1>2, <1>4, <3>2 DEF Descriptors
      <4> QED BY <4>3, <4>4, <3>2
    <3> QED BY <3>1, <3>2
  <2> HIDE DEF e
  <2>5. k = [e EXCEPT ![1] = WriteEnd(p, Forked), ![a] = Closed, ![b] = Closed]
      BY <1>5
  <2>6. k \in Descriptors
      BY <2>4, <2>5, <1>4 DEF Descriptors
  <2> HIDE DEF k
  <2>7. \A x \in FD : k[x] = IF x = 1 THEN WriteEnd(p, Forked)
                             ELSE IF x = a \/ x = b THEN Closed ELSE e[x]
      BY <2>4, <2>5, <1>3, <1>4, <1>5 DEF Descriptors
  <2>8. \A x \in FD : k[x] =
                 IF x = 1 THEN WriteEnd(p, Forked)
                 ELSE IF prev # None /\ x = 0 THEN fds[p][prev]
                 ELSE IF x = prev THEN Closed ELSE fds[p][x]
      BY <2>3, <2>4, <2>7, <1>2, <1>3, <1>5
  <2> QED BY <1>1, <1>5, <2>6, <2>8 DEF prev
<1>6. CASE ~HaveNext(p)
  <2>1. d = fds[p]
      BY <1>6 DEF WithPipe
  <2>2. k = e
      BY <1>6
  <2>3. CASE prev = None
      BY <1>1, <1>4, <1>6, <2>1, <2>2, <2>3
  <2>4. CASE prev # None
    <3>1. e = [fds[p] EXCEPT ![0] = fds[p][prev], ![prev] = Closed] /\ prev # 0
        BY <2>1, <2>4, <1>2
    <3>2. e \in Descriptors
        BY <3>1, <2>4, <1>2, <1>4 DEF Descriptors
    <3> HIDE DEF e
    <3>3. \A x \in FD : e[x] = IF x = 0 THEN fds[p][prev]
                               ELSE IF x = prev THEN Closed ELSE fds[p][x]
        BY <3>1, <1>2, <1>4, <2>4 DEF Descriptors
    <3> HIDE DEF prev, k
    <3> QED BY <1>1, <1>6, <2>2, <2>4, <3>2, <3>3 DEF prev
  <2> QED BY <2>3, <2>4
<1> QED BY <1>5, <1>6

\* A stage begins with the standard descriptors open, and the shell with its
\* frames as they were.
LEMMA StageSound ==
    ASSUME NEW p \in Procs, CanFork(p), Forked \in Procs,
           fds[p] \in Descriptors, frames[p] \in Seq(Saves),
           Sound(fds[p], frames[p], job[p].prev), job[p].prev \in FD \cup {None}
    PROVE  /\ Open(StageFds(p))
           /\ Sound(KeptFds(p), frames[p], IF HaveNext(p) THEN PipeEnds(p)[1] ELSE None)
<1> DEFINE a == PipeEnds(p)[1]
           prev == job[p].prev
           fs == frames[p]
           d == fds[p]
           e == KeptFds(p)
           next == IF HaveNext(p) THEN a ELSE None
<1>1. /\ 0..2 \subseteq FD /\ FD \subseteq Int /\ None \notin FD /\ 0 \in FD /\ 1 \in FD
      /\ ReadEnd(p, Forked) # Closed /\ WriteEnd(p, Forked) # Closed
    BY Standard
<1>2. prev # None => prev \in FD /\ d[prev] # Closed /\ prev > 2
    BY DEF Sound
<1>3. HaveNext(p) => a \in FD /\ d[a] = Closed /\ a > 2
    BY PipeEndsFree DEF CanFork, Sound
<1>4. Open(d) /\ \A x \in 0..2 : x # prev
    BY <1>1, <1>2 DEF Sound
<1>5. Open(StageFds(p))
  <2>1. ASSUME NEW x \in 0..2 PROVE StageFds(p)[x] # Closed
      BY <1>1, <1>2, <1>4, StageIs DEF Open
  <2> QED BY <2>1 DEF Open
<1>6. \A x \in FD : e[x] = IF HaveNext(p) /\ x = a THEN ReadEnd(p, Forked)
                           ELSE IF x = prev THEN Closed ELSE d[x]
    BY KeptIs
<1> HIDE DEF a, prev, fs, d, e, next
<1>7. Open(e)
    BY <1>1, <1>3, <1>4, <1>6 DEF Open
<1>8. Sound(d, fs, prev) /\ fs \in Seq(Saves)
    BY DEF d, fs, prev
<1>9. ASSUME NEW i \in DOMAIN fs
      PROVE  Holds(e, fs[i]) /\ OneEach(fs[i]) /\ \A x \in 0..2 : next # None => fs[i][x] # next
  <2>1. Holds(d, fs[i]) /\ OneEach(fs[i]) /\ fs[i] \in Saves
      BY <1>8 DEF Sound
  <2>2. ASSUME NEW x \in 0..2, fs[i][x] # None
        PROVE  e[fs[i][x]] # Closed /\ (next # None => fs[i][x] # next)
    <3>1. fs[i][x] \in FD /\ fs[i][x] > 2 /\ d[fs[i][x]] # Closed
        BY <2>1, <2>2 DEF Holds, Saves
    <3>2. fs[i][x] # prev
        BY <1>8, <2>2 DEF Sound
    <3> QED BY <3>1, <3>2, <1>3, <1>6 DEF next
  <2> QED BY <2>1, <2>2 DEF Holds
<1>10. next # None => next > 2 /\ e[next] # Closed
    BY <1>1, <1>3, <1>6 DEF next
<1>11. Sound(e, fs, next)
    BY <1>7, <1>8, <1>9, <1>10 DEF Sound
<1> QED BY <1>5, <1>11 DEF e, fs, next, a

\* The same of a substitution.
LEMMA SubstituteSound ==
    ASSUME NEW p \in Procs, Cardinality(Free(fds[p])) >= 2, Forked \in Procs,
           fds[p] \in Descriptors, frames[p] \in Seq(Saves), Sound(fds[p], frames[p], None)
    PROVE  LET r     == PipeEnds(p)[1]
               kept  == [fds[p] EXCEPT ![r] = ReadEnd(p, Forked)]
               child == [fds[p] EXCEPT ![1] = WriteEnd(p, Forked)]
           IN  /\ r \in FD /\ kept \in Descriptors /\ child \in Descriptors
               /\ Sound(kept, frames[p], r) /\ Open(child)
<1> DEFINE r == PipeEnds(p)[1]
           d == fds[p]
           fs == frames[p]
           kept == [d EXCEPT ![r] = ReadEnd(p, Forked)]
           child == [d EXCEPT ![1] = WriteEnd(p, Forked)]
<1>1. /\ 0..2 \subseteq FD /\ FD \subseteq Int /\ None \notin FD /\ 1 \in FD
      /\ ReadEnd(p, Forked) # Closed /\ WriteEnd(p, Forked) # Closed
      /\ ReadEnd(p, Forked) \in Places /\ WriteEnd(p, Forked) \in Places
    BY Standard
<1>2. Open(d) /\ r \in FD /\ r > 2 /\ d[r] = Closed
    BY PipeEndsFree DEF Sound
<1>3. kept \in Descriptors /\ child \in Descriptors
    BY <1>1 DEF Descriptors
<1>4. /\ \A x \in FD : kept[x] = IF x = r THEN ReadEnd(p, Forked) ELSE d[x]
      /\ \A x \in FD : child[x] = IF x = 1 THEN WriteEnd(p, Forked) ELSE d[x]
    BY <1>2 DEF Descriptors
<1> HIDE DEF r, d, kept, child, fs
<1>5. Open(kept) /\ Open(child)
    BY <1>1, <1>2, <1>4 DEF Open
<1>6. Sound(d, fs, None) /\ fs \in Seq(Saves)
    BY DEF d, fs
<1>7. ASSUME NEW i \in DOMAIN fs
      PROVE  Holds(kept, fs[i]) /\ OneEach(fs[i]) /\ \A x \in 0..2 : fs[i][x] # r
  <2>1. Holds(d, fs[i]) /\ OneEach(fs[i]) /\ fs[i] \in Saves
      BY <1>6 DEF Sound
  <2>2. ASSUME NEW x \in 0..2, fs[i][x] # None
        PROVE  kept[fs[i][x]] # Closed /\ fs[i][x] # r
    <3>1. fs[i][x] \in FD /\ fs[i][x] > 2 /\ d[fs[i][x]] # Closed
        BY <2>1, <2>2 DEF Holds, Saves
    <3> QED BY <3>1, <1>2, <1>4
  <2> QED BY <1>1, <1>2, <2>1, <2>2 DEF Holds
<1>8. Sound(kept, fs, r)
    BY <1>1, <1>2, <1>4, <1>5, <1>6, <1>7 DEF Sound
<1> QED BY <1>2, <1>3, <1>5, <1>8 DEF r, d, kept, child, fs

\* What was kept of a pipe may be closed again.
LEMMA CloseSound ==
    ASSUME NEW d \in Descriptors, NEW fs \in Seq(Saves), NEW prev \in FD, Sound(d, fs, prev)
    PROVE  LET e == [d EXCEPT ![prev] = Closed]
           IN  e \in Descriptors /\ Sound(e, fs, None)
<1> DEFINE e == [d EXCEPT ![prev] = Closed]
<1>1. prev > 2 /\ Open(d)
    BY Standard DEF Sound
<1>2. e \in Descriptors /\ \A x \in FD : e[x] = IF x = prev THEN Closed ELSE d[x]
    BY Standard DEF Descriptors
<1> HIDE DEF e
<1>3. Open(e)
    BY <1>1, <1>2, Standard DEF Open
<1>4. ASSUME NEW i \in DOMAIN fs
      PROVE  Holds(e, fs[i]) /\ OneEach(fs[i])
  <2>1. Holds(d, fs[i]) /\ OneEach(fs[i]) /\ fs[i] \in Saves
      BY DEF Sound
  <2>2. ASSUME NEW x \in 0..2, fs[i][x] # None
        PROVE  e[fs[i][x]] # Closed
    <3>1. fs[i][x] \in FD /\ d[fs[i][x]] # Closed
        BY <2>1, <2>2 DEF Holds, Saves
    <3>2. fs[i][x] # prev
        BY Standard DEF Sound
    <3> QED BY <3>1, <3>2, <1>2
  <2> QED BY <2>1, <2>2 DEF Holds
<1>5. Sound(e, fs, None)
    BY <1>3, <1>4 DEF Sound
<1> QED BY <1>2, <1>5 DEF e

\* A process without frames has the standard descriptors open.
LEMMA FreshSound ==
    ASSUME NEW d, Open(d)
    PROVE  Sound(d, << >>, None)
BY DEF Sound

\* A copy that is kept open does not depend on the read end.
LEMMA ForgetSound ==
    ASSUME NEW d, NEW fs, NEW prev, Sound(d, fs, prev)
    PROVE  Sound(d, fs, None)
BY DEF Sound

-----------------------------------------------------------------------------
(* What every process keeps.                                               *)

\* The processes are numbered as they are forked.
InOrder == \E k \in Procs : \A q \in Procs : state[q] # "none" <=> q <= k

Shapes ==
    /\ fds \in [Procs -> Descriptors] /\ home \in [Procs -> Descriptors]
    /\ buf \in [Procs -> Seq(Lines)]
    /\ frames \in [Procs -> Seq(Saves)]
    /\ state \in [Procs -> States]
    /\ job \in [Procs -> Jobs]
    /\ belongs \in Seq(Places) /\ written \in Seq(Seq(Places))
    /\ Len(written) = Len(belongs) /\ Len(belongs) <= MaxPrints

\* Of one process: what its frames keep is open, what waits in its buffer was
\* printed, and a pipeline it builds has no more stages than it may.
Fit(p) ==
    /\ Live(p) => Sound(fds[p], frames[p], job[p].prev)
    /\ state[p] \in {"none", "child"} => frames[p] = << >> /\ job[p].prev = None
    /\ state[p] = "running" => job[p].prev = None
    /\ state[p] = "building" =>
          job[p].left > 0 /\ job[p].left + Cardinality(job[p].kids) <= MaxStages
    /\ IsInjective(buf[p])
    /\ \A i \in DOMAIN buf[p] : buf[p][i] <= Len(belongs)

Inv == Shapes /\ InOrder /\ \A p \in Procs : Fit(p)

\* A process that another one's step leaves alone.
Same(q) ==
    /\ fds'[q] = fds[q] /\ buf'[q] = buf[q] /\ frames'[q] = frames[q]
    /\ state'[q] = state[q] /\ job'[q] = job[q]

\* The elements of a sequence.
LEMMA ElementIn ==
    ASSUME NEW S, NEW s \in Seq(S)
    PROVE  /\ Len(s) \in Nat /\ DOMAIN s = 1..Len(s)
           /\ \A i \in DOMAIN s : s[i] \in S
OBVIOUS

\* A process that nothing happens to stays as it should be.
LEMMA SameFits ==
    ASSUME NEW q \in Procs, Fit(q), Same(q), Shapes, Shapes', Len(belongs) <= Len(belongs')
    PROVE  Fit(q)'
<1>1. \A i \in DOMAIN buf[q] : buf[q][i] \in Int
  <2>1. buf[q] \in Seq(Lines) /\ Lines \subseteq Int
      BY StdStreamsAssumption DEF Shapes, Lines
  <2> QED BY <2>1, ElementIn
<1>2. Len(belongs) \in Int /\ Len(belongs') \in Int
    BY DEF Shapes
<1>3. \A i \in DOMAIN buf[q] : buf[q][i] <= Len(belongs')
  <2> DEFINE m == Len(belongs)
             n == Len(belongs')
  <2>1. \A i \in DOMAIN buf[q] : buf[q][i] <= m
      BY DEF Fit
  <2>2. m \in Int /\ n \in Int /\ m <= n
      BY <1>2
  <2> HIDE DEF m, n
  <2>3. \A i \in DOMAIN buf[q] : buf[q][i] <= n
      BY <1>1, <2>1, <2>2
  <2> QED BY <2>3 DEF n
<1> QED BY <1>3 DEF Fit, Same, Live

\* The number of the processes there are.
LEMMA ForkedIs ==
    ASSUME InOrder
    PROVE  Forked \in Procs /\ \A q \in Procs : state[q] # "none" <=> q <= Forked
<1>1. PICK k \in Procs : \A q \in Procs : state[q] # "none" <=> q <= k
    BY DEF InOrder
<1> DEFINE S == {p \in Procs : state[p] # "none"}
<1>2. k \in Nat /\ k >= 1
    BY StdStreamsAssumption DEF Procs
<1>3. S = 1..k
    BY <1>1, StdStreamsAssumption DEF Procs
<1>4. Cardinality(1..k) = k
    BY <1>2, FS_Interval
<1>5. Forked = Cardinality(S)
    BY DEF Forked
<1> HIDE DEF S
<1>6. Forked = k
    BY <1>3, <1>4, <1>5, Zenon
<1> QED BY <1>1, <1>6

\* A step of one process that forks none.
LEMMA AloneStep ==
    ASSUME Inv, NEW p \in Procs, Shapes', \A q \in Procs \ {p} : Same(q), Fit(p)',
           Len(belongs) <= Len(belongs'), state[p] # "none", state'[p] # "none"
    PROVE  Inv'
<1>1. \A q \in Procs : Fit(q)'
    BY SameFits DEF Inv
<1>2. \A q \in Procs : state'[q] # "none" <=> state[q] # "none"
    BY DEF Same
<1>3. InOrder'
    BY <1>2 DEF InOrder, Inv
<1> QED BY <1>1, <1>3 DEF Inv

\* And one that forks.
LEMMA ForkStep ==
    ASSUME Inv, NEW p \in Procs, NEW q \in Procs, q = Forked + 1, Shapes',
           \A o \in Procs \ {p, q} : Same(o), Fit(p)', Fit(q)',
           belongs' = belongs, state[p] # "none", state'[p] # "none", state'[q] # "none"
    PROVE  Inv'
<1>1. Len(belongs) <= Len(belongs')
    BY DEF Inv, Shapes
<1>2. \A o \in Procs : Fit(o)'
    BY <1>1, SameFits DEF Inv
<1>3. /\ Forked \in Procs /\ Procs \subseteq Int
      /\ \A o \in Procs : state[o] # "none" <=> o <= Forked
    BY ForkedIs, StdStreamsAssumption DEF Inv, Procs
<1>4. \A o \in Procs : state'[o] # "none" <=> o <= q
    BY <1>3 DEF Same
<1>5. InOrder'
    BY <1>4 DEF InOrder
<1> QED BY <1>2, <1>5 DEF Inv

\* A child that is forked is none that there was.
LEMMA ChildIsNew ==
    ASSUME Inv, NEW p \in Procs, state[p] # "none", NEW q \in Procs, q = Forked + 1
    PROVE  q # p /\ state[q] = "none" /\ q # Shell
<1>1. /\ Forked \in Procs /\ Procs \subseteq Int /\ \A x \in Procs : x >= 1
      /\ \A o \in Procs : state[o] # "none" <=> o <= Forked
    BY ForkedIs, StdStreamsAssumption DEF Inv, Procs
<1> QED BY <1>1 DEF Shell

-----------------------------------------------------------------------------
(* stdio.                                                                  *)

InBuffer(p, t) == \E i \in DOMAIN buf[p] : buf[p][i] = t

\* What a flush does to the lines and to the buffers.
LEMMA FlushShape ==
    ASSUME Shapes, NEW p \in Procs, fflush(p)
    PROVE  /\ written' \in Seq(Seq(Places)) /\ Len(written') = Len(written)
           /\ DOMAIN written' = DOMAIN written
           /\ \A t \in DOMAIN written : written'[t] = IF InBuffer(p, t)
                 THEN Append(written[t], fds[p][1]) ELSE written[t]
           /\ buf' \in [Procs -> Seq(Lines)] /\ buf'[p] = << >>
           /\ \A q \in Procs \ {p} : buf'[q] = buf[q]
<1>1. /\ written \in Seq(Seq(Places)) /\ fds[p][1] \in Places
      /\ buf \in [Procs -> Seq(Lines)]
    BY Standard DEF Shapes, Descriptors
<1>2. written' = [t \in DOMAIN written |->
          IF InBuffer(p, t) THEN Append(written[t], fds[p][1]) ELSE written[t]]
    BY DEF fflush, InBuffer
<1>3. Len(written) \in Nat /\ DOMAIN written = 1..Len(written)
      /\ \A t \in DOMAIN written : written[t] \in Seq(Places)
    BY <1>1
<1>4. \A t \in DOMAIN written :
          (IF InBuffer(p, t) THEN Append(written[t], fds[p][1]) ELSE written[t]) \in Seq(Places)
    BY <1>1, <1>3
<1>5. written' \in [1..Len(written) -> Seq(Places)]
    BY <1>2, <1>3, <1>4
<1>6. written' \in Seq(Seq(Places)) /\ Len(written') = Len(written)
    BY <1>3, <1>5
<1>7. buf' = [buf EXCEPT ![p] = << >>]
    BY DEF fflush
<1> QED BY <1>1, <1>2, <1>3, <1>5, <1>6, <1>7

\* Written so that what a flush writes is written for PrintLine, too.
LEMMA PrintShape ==
    ASSUME Shapes, NEW p \in Procs, PrintLine(p)
    PROVE  LET t == Len(belongs) + 1
           IN  /\ Len(belongs) \in Nat /\ DOMAIN written = 1..Len(belongs)
               /\ DOMAIN written' = 1..t /\ DOMAIN belongs' = 1..t
               /\ belongs' \in Seq(Places) /\ Len(belongs') = t /\ t \in Lines
               /\ \A u \in 1..Len(belongs) : belongs'[u] = belongs[u]
               /\ belongs'[t] = fds[p][1]
               /\ written' \in Seq(Seq(Places)) /\ Len(written') = t
               /\ \/ /\ ~LineBuffered
                     /\ buf' = [buf EXCEPT ![p] = Append(@, t)]
                     /\ written'[t] = << >>
                     /\ \A u \in 1..Len(belongs) : written'[u] = written[u]
                  \/ /\ buf' = [buf EXCEPT ![p] = << >>]
                     /\ written'[t] = <<fds[p][1]>>
                     /\ \A u \in 1..Len(belongs) : written'[u] =
                           IF InBuffer(p, u) THEN Append(written[u], fds[p][1]) ELSE written[u]
<1> DEFINE t == Len(belongs) + 1
           m == Len(belongs)
           w == [u \in DOMAIN written |->
                    IF InBuffer(p, u) THEN Append(written[u], fds[p][1]) ELSE written[u]]
<1>1. /\ belongs \in Seq(Places) /\ written \in Seq(Seq(Places)) /\ Len(written) = m
      /\ m < MaxPrints /\ fds[p][1] \in Places
    BY Standard DEF Shapes, Descriptors, PrintLine
<1>2. m \in Nat /\ DOMAIN written = 1..m /\ t \in Lines /\ DOMAIN belongs = 1..m
  <2>1. m \in Nat /\ DOMAIN written = 1..m /\ DOMAIN belongs = 1..m
      BY <1>1
  <2> QED BY <1>1, <2>1, StdStreamsAssumption DEF Lines
<1>3. belongs' = Append(belongs, fds[p][1])
    BY DEF PrintLine
<1>4. /\ belongs' \in Seq(Places) /\ Len(belongs') = t /\ belongs'[t] = fds[p][1]
      /\ \A u \in 1..m : belongs'[u] = belongs[u]
      /\ DOMAIN belongs' = 1..t
    BY <1>1, <1>2, <1>3
<1>5. \/ /\ ~LineBuffered /\ buf' = [buf EXCEPT ![p] = Append(@, t)]
         /\ written' = Append(written, << >>)
      \/ buf' = [buf EXCEPT ![p] = << >>] /\ written' = Append(w, <<fds[p][1]>>)
    BY DEF PrintLine, InBuffer
<1>6. w \in Seq(Seq(Places)) /\ Len(w) = m
  <2>1. \A u \in 1..m : written[u] \in Seq(Places)
      BY <1>1, <1>2
  <2>2. \A u \in 1..m : (IF InBuffer(p, u) THEN Append(written[u], fds[p][1]) ELSE written[u]) \in Seq(Places)
      BY <1>1, <2>1
  <2>3. w \in [1..m -> Seq(Places)]
      BY <1>2, <2>2
  <2> HIDE DEF w, m
  <2> QED BY <1>2, <2>3
<1>7. \A u \in 1..m : w[u] = IF InBuffer(p, u) THEN Append(written[u], fds[p][1]) ELSE written[u]
    BY <1>2
<1>8. /\ << >> \in Seq(Places) /\ <<fds[p][1]>> \in Seq(Places)
    BY <1>1
<1> HIDE DEF w
<1>9. CASE /\ ~LineBuffered /\ buf' = [buf EXCEPT ![p] = Append(@, t)]
           /\ written' = Append(written, << >>)
  <2>1. /\ written' \in Seq(Seq(Places)) /\ Len(written') = t /\ DOMAIN written' = 1..t
        /\ written'[t] = << >> /\ \A u \in 1..m : written'[u] = written[u]
      BY <1>1, <1>2, <1>8, <1>9
  <2> QED BY <1>2, <1>4, <1>9, <2>1
<1>10. CASE buf' = [buf EXCEPT ![p] = << >>] /\ written' = Append(w, <<fds[p][1]>>)
  <2>1. /\ written' \in Seq(Seq(Places)) /\ Len(written') = t /\ DOMAIN written' = 1..t
        /\ written'[t] = <<fds[p][1]>> /\ \A u \in 1..m : written'[u] = w[u]
      BY <1>2, <1>6, <1>8, <1>10
  <2> QED BY <1>2, <1>4, <1>7, <1>10, <2>1
<1> QED BY <1>5, <1>9, <1>10

\* Each action keeps the invariant: a builtin prints,
LEMMA PrintStep ==
    ASSUME Inv, NEW p \in Procs, PrintLine(p)
    PROVE  Inv'
<1> DEFINE t == Len(belongs) + 1
<1>1. Shapes /\ Fit(p) /\ state[p] = "running"
    BY DEF Inv, PrintLine, Running
<1>2. /\ Len(belongs) \in Nat /\ t \in Lines /\ Len(belongs') = t
      /\ belongs' \in Seq(Places) /\ written' \in Seq(Seq(Places)) /\ Len(written') = t
      /\ \/ buf' = [buf EXCEPT ![p] = Append(@, t)]
         \/ buf' = [buf EXCEPT ![p] = << >>]
    BY <1>1, PrintShape
<1>3. /\ UNCHANGED <<fds, frames, state, job, home>>
      /\ Len(belongs) < MaxPrints
    BY DEF PrintLine
<1> DEFINE b == buf[p]
           n == Len(belongs)
<1>4. b \in Seq(Lines) /\ buf \in [Procs -> Seq(Lines)] /\ IsInjective(b)
      /\ \A i \in DOMAIN b : b[i] <= n
    BY <1>1 DEF Shapes, Fit
<1> HIDE DEF b
<1>5. /\ buf' \in [Procs -> Seq(Lines)] /\ \A q \in Procs \ {p} : buf'[q] = buf[q]
      /\ buf'[p] = Append(b, t) \/ buf'[p] = << >>
  <2>1. Append(b, t) \in Seq(Lines) /\ << >> \in Seq(Lines)
      BY <1>2, <1>4
  <2>2. PICK c \in {Append(b, t), << >>} : buf' = [buf EXCEPT ![p] = c]
      BY <1>2 DEF b
  <2>3. c \in Seq(Lines)
      BY <2>1, <2>2
  <2> QED BY <1>4, <2>2, <2>3
<1>6. IsInjective(buf'[p]) /\ \A i \in DOMAIN buf'[p] : buf'[p][i] <= Len(belongs')
  <2>1. CASE buf'[p] = << >>
      BY <2>1 DEF IsInjective
  <2>2. CASE buf'[p] = Append(b, t)
    <3>1. /\ Len(b) \in Nat /\ DOMAIN b = 1..Len(b) /\ \A i \in DOMAIN b : b[i] \in Lines
          /\ Lines \subseteq Int
        BY <1>4, ElementIn, StdStreamsAssumption DEF Lines
    <3> DEFINE c == Append(b, t)
    <3>2. /\ DOMAIN c = 1..Len(b) + 1 /\ c[Len(b) + 1] = t
          /\ \A i \in 1..Len(b) : c[i] = b[i]
        BY <1>2, <1>4, <3>1
    <3> HIDE DEF c
    <3>3. \A i \in 1..Len(b) : b[i] < t /\ b[i] <= t
      <4>1. n \in Int /\ t = n + 1
          BY <1>2
      <4>2. \A i \in 1..Len(b) : b[i] \in Int /\ b[i] <= n
          BY <1>4, <3>1
      <4> HIDE DEF n, t
      <4> QED BY <4>1, <4>2
    <3>4. \A i, j \in 1..Len(b) : b[i] = b[j] => i = j
        BY <1>4, <3>1 DEF IsInjective
    <3>5. \A i \in DOMAIN c : i \in 1..Len(b) \/ i = Len(b) + 1
        BY <3>1, <3>2
    <3>6. t \in Int
        BY <1>2
    <3> HIDE DEF t
    <3>7. \A i \in DOMAIN c : c[i] <= t
        BY <3>2, <3>3, <3>5, <3>6
    <3>8. IsInjective(c)
      <4>1. ASSUME NEW i \in DOMAIN c, NEW j \in DOMAIN c, c[i] = c[j] PROVE i = j
        <5>1. CASE i \in 1..Len(b) /\ j \in 1..Len(b)
            BY <5>1, <4>1, <3>2, <3>4
        <5>2. CASE i = Len(b) + 1 /\ j \in 1..Len(b)
          <6>1. b[j] = t /\ b[j] < t
              BY <5>2, <4>1, <3>2, <3>3
          <6> QED BY <6>1, <3>6
        <5>3. CASE i \in 1..Len(b) /\ j = Len(b) + 1
          <6>1. b[i] = t /\ b[i] < t
              BY <5>3, <4>1, <3>2, <3>3
          <6> QED BY <6>1, <3>6
        <5>4. CASE i = Len(b) + 1 /\ j = Len(b) + 1
            BY <5>4
        <5> QED BY <3>5, <5>1, <5>2, <5>3, <5>4
      <4> QED BY <4>1 DEF IsInjective
    <3> QED BY <2>2, <3>7, <3>8, <1>2 DEF c
  <2> QED BY <1>5, <2>1, <2>2
<1>7. Shapes'
    BY <1>1, <1>2, <1>3, <1>5, StdStreamsAssumption DEF Shapes
<1>8. \A q \in Procs \ {p} : Same(q)
    BY <1>3, <1>5 DEF Same
<1>9. Fit(p)'
    BY <1>1, <1>3, <1>6 DEF Fit, Live
<1>10. Len(belongs) <= Len(belongs') /\ state'[p] = "running"
    BY <1>1, <1>2, <1>3
<1> QED BY <1>1, <1>7, <1>8, <1>9, <1>10, AloneStep

\* What stays when only the process changes, and what it did not print.
LEMMA EmptyBuffer ==
    ASSUME NEW p \in Procs, buf'[p] = << >>
    PROVE  IsInjective(buf'[p]) /\ \A i \in DOMAIN buf'[p] : buf'[p][i] <= Len(belongs')
BY DEF IsInjective

\* a redirected command begins,
LEMMA BeginStep ==
    ASSUME Inv, NEW p \in Procs, NEW r \in Redirections, Begin(p, r)
    PROVE  Inv'
<1> DEFINE acc == apply_redirection_with_restore(fds[p], r)
<1>1. /\ Shapes /\ Fit(p) /\ state[p] = "running" /\ fflush(p)
      /\ fds' = [fds EXCEPT ![p] = acc.fds]
      /\ frames' = [frames EXCEPT ![p] = Append(@, acc.save)]
      /\ UNCHANGED <<state, job, home, belongs>>
    BY DEF Inv, Begin, Running
<1>2. /\ fds[p] \in Descriptors /\ frames[p] \in Seq(Saves) /\ job[p].prev = None
      /\ Sound(fds[p], frames[p], None)
    BY <1>1 DEF Shapes, Fit, Live
<1>3. Applied(acc, fds[p])
    BY <1>2, RedirectionsApply DEF Sound
<1> HIDE DEF acc
<1>4. acc.fds \in Descriptors /\ acc.save \in Saves
    BY <1>3 DEF Applied, Accumulators
<1>5. Sound(acc.fds, Append(frames[p], acc.save), None)
    BY <1>2, <1>3, BeginSound
<1>6. /\ written' \in Seq(Seq(Places)) /\ Len(written') = Len(written)
      /\ buf' \in [Procs -> Seq(Lines)] /\ buf'[p] = << >>
      /\ \A q \in Procs \ {p} : buf'[q] = buf[q]
    BY <1>1, FlushShape
<1>7. /\ fds' \in [Procs -> Descriptors] /\ frames' \in [Procs -> Seq(Saves)]
      /\ fds'[p] = acc.fds /\ frames'[p] = Append(frames[p], acc.save)
      /\ \A q \in Procs \ {p} : fds'[q] = fds[q] /\ frames'[q] = frames[q]
    BY <1>1, <1>2, <1>4 DEF Shapes
<1>8. Shapes'
    BY <1>1, <1>6, <1>7 DEF Shapes
<1>9. \A q \in Procs \ {p} : Same(q)
    BY <1>1, <1>6, <1>7 DEF Same
<1>10. Fit(p)'
  <2>1. state'[p] = "running" /\ job'[p].prev = None
      BY <1>1, <1>2
  <2> QED BY <1>5, <1>6, <1>7, <2>1, EmptyBuffer DEF Fit, Live
<1>11. Len(belongs) <= Len(belongs')
    BY <1>1 DEF Shapes
<1> QED BY <1>1, <1>8, <1>9, <1>10, <1>11, AloneStep

\* or ends,
LEMMA EndStep ==
    ASSUME Inv, NEW p \in Procs, End(p)
    PROVE  Inv'
<1> DEFINE e == redirect_restore(fds[p], Last(frames[p]))
<1>1. /\ Shapes /\ Fit(p) /\ state[p] = "running" /\ fflush(p) /\ frames[p] # << >>
      /\ fds' = [fds EXCEPT ![p] = e]
      /\ frames' = [frames EXCEPT ![p] = Front(@)]
      /\ UNCHANGED <<state, job, home, belongs>>
    BY DEF Inv, End, Running
<1>2. /\ fds[p] \in Descriptors /\ frames[p] \in Seq(Saves) /\ job[p].prev = None
      /\ Sound(fds[p], frames[p], None)
    BY <1>1 DEF Shapes, Fit, Live
<1>3. e \in Descriptors /\ Front(frames[p]) \in Seq(Saves) /\ Sound(e, Front(frames[p]), None)
    BY <1>1, <1>2, EndSound
<1> HIDE DEF e
<1>6. /\ written' \in Seq(Seq(Places)) /\ Len(written') = Len(written)
      /\ buf' \in [Procs -> Seq(Lines)] /\ buf'[p] = << >>
      /\ \A q \in Procs \ {p} : buf'[q] = buf[q]
    BY <1>1, FlushShape
<1>7. /\ fds' \in [Procs -> Descriptors] /\ frames' \in [Procs -> Seq(Saves)]
      /\ fds'[p] = e /\ frames'[p] = Front(frames[p])
      /\ \A q \in Procs \ {p} : fds'[q] = fds[q] /\ frames'[q] = frames[q]
    BY <1>1, <1>2, <1>3 DEF Shapes
<1>8. Shapes'
    BY <1>1, <1>6, <1>7 DEF Shapes
<1>9. \A q \in Procs \ {p} : Same(q)
    BY <1>1, <1>6, <1>7 DEF Same
<1>10. Fit(p)'
  <2>1. state'[p] = "running" /\ job'[p].prev = None
      BY <1>1, <1>2
  <2> QED BY <1>3, <1>6, <1>7, <2>1, EmptyBuffer DEF Fit, Live
<1>11. Len(belongs) <= Len(belongs')
    BY <1>1 DEF Shapes
<1> QED BY <1>1, <1>8, <1>9, <1>10, <1>11, AloneStep

-----------------------------------------------------------------------------
(* The steps of pipelines, of substitutions and of the end of a process.   *)

\* A step that leaves frames and history alone and at most empties the buffer.
LEMMA PlainStep ==
    ASSUME Inv, NEW p \in Procs, NEW d \in Descriptors, NEW s \in States, NEW j \in Jobs,
           fds' = [fds EXCEPT ![p] = d], state' = [state EXCEPT ![p] = s],
           job' = [job EXCEPT ![p] = j], state[p] # "none", s # "none", s # "child",
           buf' = buf \/ buf' = [buf EXCEPT ![p] = << >>],
           written' = written \/ fflush(p),
           home' \in [Procs -> Descriptors], UNCHANGED <<frames, belongs>>,
           s \notin {"external", "dead"} => Sound(d, frames[p], j.prev),
           s = "running" => j.prev = None,
           s = "building" => j.left > 0 /\ j.left + Cardinality(j.kids) <= MaxStages
    PROVE  Inv'
<1>1. Shapes /\ Fit(p)
    BY DEF Inv
<1>2. /\ fds' \in [Procs -> Descriptors] /\ fds'[p] = d
      /\ state' \in [Procs -> States] /\ state'[p] = s
      /\ job' \in [Procs -> Jobs] /\ job'[p] = j
      /\ \A q \in Procs \ {p} : fds'[q] = fds[q] /\ state'[q] = state[q] /\ job'[q] = job[q]
    BY <1>1 DEF Shapes
<1>3. written' \in Seq(Seq(Places)) /\ Len(written') = Len(written)
    BY <1>1, FlushShape DEF Shapes
<1>4. /\ buf' \in [Procs -> Seq(Lines)] /\ buf'[p] \in {buf[p], << >>}
      /\ \A q \in Procs \ {p} : buf'[q] = buf[q]
  <2>1. << >> \in Seq(Lines)
      OBVIOUS
  <2> QED BY <1>1, <2>1 DEF Shapes
<1>5. Shapes'
    BY <1>1, <1>2, <1>3, <1>4 DEF Shapes
<1>6. \A q \in Procs \ {p} : Same(q)
    BY <1>2, <1>4 DEF Same
<1>7. /\ IsInjective(buf'[p]) /\ \A i \in DOMAIN buf'[p] : buf'[p][i] <= Len(belongs')
    BY <1>1, <1>4 DEF IsInjective, Fit
<1>8. Fit(p)'
    BY <1>2, <1>7 DEF Fit, Live
<1>9. Len(belongs) <= Len(belongs')
    BY <1>1 DEF Shapes
<1> QED BY <1>2, <1>5, <1>6, <1>8, <1>9, AloneStep

\* One stage more is one process more.
LEMMA KidsCount ==
    ASSUME NEW K, K \subseteq Procs
    PROVE  /\ IsFiniteSet(K) /\ Cardinality(K) \in Nat
           /\ \A q \in Procs : Cardinality(K \cup {q}) <= Cardinality(K) + 1
<1>1. IsFiniteSet(Procs)
    BY StdStreamsAssumption, FS_Interval DEF Procs
<1>2. IsFiniteSet(K)
    BY <1>1, FS_Subset
<1>3. Cardinality(K) \in Nat
    BY <1>2, FS_CardinalityType
<1>4. ASSUME NEW q \in Procs PROVE Cardinality(K \cup {q}) <= Cardinality(K) + 1
  <2>1. Cardinality(K \cup {q}) = IF q \in K THEN Cardinality(K) ELSE Cardinality(K) + 1
      BY <1>2, FS_AddElement
  <2> QED BY <1>3, <2>1
<1> QED BY <1>2, <1>3, <1>4

\* No pipeline and no substitution.
LEMMA NoJobIs == NoJob \in Jobs /\ NoJob.prev = None /\ NoJob.left = 0
BY StdStreamsAssumption DEF NoJob, Jobs

\* The type of what one process has.
LEMMA JobIs ==
    ASSUME Shapes, NEW p \in Procs
    PROVE  /\ job[p] \in Jobs /\ job[p].left \in 0..MaxStages /\ job[p].kids \subseteq Procs
           /\ job[p].prev \in FD \cup {None} /\ fds[p] \in Descriptors
           /\ frames[p] \in Seq(Saves)
BY DEF Shapes, Jobs

\* a pipeline begins,
LEMMA StartStep ==
    ASSUME Inv, NEW p \in Procs, NEW n \in 1..MaxStages, StartPipeline(p, n)
    PROVE  Inv'
<1> DEFINE j == [left |-> n, prev |-> None, kids |-> {}]
<1>1. /\ Shapes /\ Fit(p) /\ state[p] = "running"
      /\ state' = [state EXCEPT ![p] = "building"] /\ job' = [job EXCEPT ![p] = j]
      /\ UNCHANGED <<fds, buf, frames, home, belongs, written>>
    BY DEF Inv, StartPipeline, Running
<1>2. j \in Jobs /\ "building" \in States /\ j.left > 0 /\ j.prev = None /\ j.kids = {}
    BY StdStreamsAssumption DEF Jobs, States
<1>3. Sound(fds[p], frames[p], None)
    BY <1>1 DEF Fit, Live
<1>4. j.left + Cardinality(j.kids) <= MaxStages
    BY FS_EmptySet, StdStreamsAssumption
<1>5. fds[p] \in Descriptors /\ fds' = [fds EXCEPT ![p] = fds[p]] /\ home' \in [Procs -> Descriptors]
    BY <1>1 DEF Shapes
<1> HIDE DEF j
<1> QED BY <1>1, <1>2, <1>3, <1>4, <1>5, PlainStep

\* is given up,
LEMMA AbortStep ==
    ASSUME Inv, NEW p \in Procs, NEW d \in Descriptors, Abort(p, d), state[p] = "building",
           Sound(d, frames[p], None)
    PROVE  Inv'
<1>1. /\ Shapes /\ fds' = [fds EXCEPT ![p] = d]
      /\ state' = [state EXCEPT ![p] = "running"] /\ job' = [job EXCEPT ![p] = NoJob]
      /\ UNCHANGED <<buf, frames, home, belongs, written>>
    BY DEF Inv, Abort
<1>2. "running" \in States /\ home' \in [Procs -> Descriptors]
    BY <1>1 DEF States, Shapes
<1> QED BY <1>1, <1>2, NoJobIs, PlainStep

\* A pipe adds two descriptors.
LEMMA PipeSound ==
    ASSUME Shapes, NEW p \in Procs, CanFork(p), Forked \in Procs,
           Sound(fds[p], frames[p], job[p].prev)
    PROVE  WithPipe(p) \in Descriptors /\ Sound(WithPipe(p), frames[p], None)
<1> DEFINE a == PipeEnds(p)[1]
           b == PipeEnds(p)[2]
           d == fds[p]
           e == WithPipe(p)
           fs == frames[p]
<1>1. d \in Descriptors /\ fs \in Seq(Saves) /\ Sound(d, fs, None)
    BY JobIs, ForgetSound
<1>2. CASE ~HaveNext(p)
    BY <1>1, <1>2 DEF WithPipe
<1>3. CASE HaveNext(p)
  <2>1. /\ a \in FD /\ a > 2 /\ d[a] = Closed /\ b \in FD /\ b > 2 /\ d[b] = Closed /\ a # b
      BY <1>1, <1>3, PipeEndsFree DEF CanFork, Sound
  <2>2. e = [d EXCEPT ![a] = ReadEnd(p, Forked), ![b] = WriteEnd(p, Forked)]
      BY <1>3 DEF WithPipe
  <2> HIDE DEF a, b, d, e, fs
  <2>3. /\ e \in Descriptors
        /\ \A x \in FD : d[x] # Closed => e[x] = d[x]
      BY <1>1, <2>1, <2>2, Standard DEF Descriptors
  <2>4. Open(e)
      BY <1>1, <2>3, Standard DEF Sound, Open
  <2>5. ASSUME NEW i \in DOMAIN fs
        PROVE  Holds(e, fs[i]) /\ OneEach(fs[i])
    <3>1. Holds(d, fs[i]) /\ OneEach(fs[i]) /\ fs[i] \in Saves
        BY <1>1 DEF Sound
    <3>2. \A x \in 0..2 : fs[i][x] # None => fs[i][x] \in FD /\ d[fs[i][x]] # Closed
        BY <3>1 DEF Holds, Saves
    <3> QED BY <2>3, <3>1, <3>2 DEF Holds
  <2>6. Sound(e, fs, None)
      BY <1>1, <2>4, <2>5 DEF Sound
  <2> QED BY <2>3, <2>6 DEF e, fs
<1> QED BY <1>2, <1>3

\* for want of a pipe
LEMMA PipeFailsStep ==
    ASSUME Inv, NEW p \in Procs, PipeFails(p)
    PROVE  Inv'
<1>1. state[p] = "building" /\ Abort(p, fds[p]) /\ Shapes
    BY DEF PipeFails, Inv
<1>2. Sound(fds[p], frames[p], None) /\ fds[p] \in Descriptors
    BY <1>1, ForgetSound, JobIs DEF Inv, Fit, Live
<1> QED BY <1>1, <1>2, AbortStep

\* or of a process,
LEMMA ForkFailsStep ==
    ASSUME Inv, NEW p \in Procs, ForkFails(p)
    PROVE  Inv'
<1>1. state[p] = "building" /\ CanFork(p) /\ Abort(p, WithPipe(p)) /\ Shapes
    BY DEF ForkFails, CanFork, Inv
<1>2. Sound(fds[p], frames[p], job[p].prev)
    BY <1>1 DEF Inv, Fit, Live
<1>3. WithPipe(p) \in Descriptors /\ Sound(WithPipe(p), frames[p], None)
    BY <1>1, <1>2, PipeSound, ForkedIs DEF Inv
<1> QED BY <1>1, <1>3, AbortStep

\* has been waited for;
LEMMA WaitedStep ==
    ASSUME Inv, NEW p \in Procs, Waited(p)
    PROVE  Inv'
<1>1. /\ Shapes /\ state[p] = "waiting"
      /\ state' = [state EXCEPT ![p] = "running"] /\ job' = [job EXCEPT ![p] = NoJob]
      /\ UNCHANGED <<fds, buf, frames, home, belongs, written>>
    BY DEF Inv, Waited
<1>2. Sound(fds[p], frames[p], None)
    BY <1>1, ForgetSound DEF Inv, Fit, Live
<1>3. /\ fds[p] \in Descriptors /\ fds' = [fds EXCEPT ![p] = fds[p]]
      /\ "running" \in States /\ home' \in [Procs -> Descriptors]
    BY <1>1 DEF Shapes, States
<1> QED BY <1>1, <1>2, <1>3, NoJobIs, PlainStep

\* the text of a substitution is read;
LEMMA SubstitutedStep ==
    ASSUME Inv, NEW p \in Procs, Substituted(p)
    PROVE  Inv'
<1> DEFINE prev == job[p].prev
           d == IF prev = None THEN fds[p] ELSE [fds[p] EXCEPT ![prev] = Closed]
<1>1. /\ Shapes /\ state[p] = "reading"
      /\ fds' = [fds EXCEPT ![p][prev] = Closed]
      /\ state' = [state EXCEPT ![p] = "running"] /\ job' = [job EXCEPT ![p] = NoJob]
      /\ UNCHANGED <<buf, frames, home, belongs, written>>
    BY DEF Inv, Substituted
<1>2. /\ Sound(fds[p], frames[p], prev) /\ fds[p] \in Descriptors /\ frames[p] \in Seq(Saves)
      /\ prev \in FD \cup {None}
    BY <1>1, JobIs DEF Inv, Fit, Live
<1>3. d \in Descriptors /\ Sound(d, frames[p], None)
    BY <1>2, CloseSound
<1>4. fds' = [fds EXCEPT ![p] = d]
  <2>1. CASE prev # None
      BY <1>1, <2>1 DEF Shapes
  <2>2. CASE prev = None
    <3>1. [fds[p] EXCEPT ![prev] = Closed] = fds[p]
        BY <1>2, <2>2, Standard DEF Descriptors
    <3> QED BY <1>1, <2>2, <3>1 DEF Shapes
  <2> QED BY <2>1, <2>2
<1>5. "running" \in States /\ home' \in [Procs -> Descriptors]
    BY <1>1 DEF Shapes, States
<1> HIDE DEF d
<1> QED BY <1>1, <1>3, <1>4, <1>5, NoJobIs, PlainStep

NothingOpen == [x \in FD |-> Closed]

\* a process ends,
LEMMA GoneStep ==
    ASSUME Inv, NEW p \in Procs, Gone(p), state[p] # "none",
           buf' = buf \/ buf' = [buf EXCEPT ![p] = << >>], written' = written \/ fflush(p)
    PROVE  Inv'
<1>1. /\ Shapes /\ state' = [state EXCEPT ![p] = "dead"]
      /\ fds' = [fds EXCEPT ![p] = NothingOpen]
      /\ UNCHANGED <<frames, job, home, belongs>>
    BY DEF Inv, Gone, NothingOpen
<1>2. NothingOpen \in Descriptors
    BY Standard DEF NothingOpen, Descriptors
<1>3. /\ job[p] \in Jobs /\ job' = [job EXCEPT ![p] = job[p]]
      /\ "dead" \in States /\ home' \in [Procs -> Descriptors]
    BY <1>1 DEF Shapes, States
<1> QED BY <1>1, <1>2, <1>3, PlainStep

\* before it has begun;
LEMMA ChildFailsStep ==
    ASSUME Inv, NEW p \in Procs, NEW r \in Redirections, ChildFails(p, r)
    PROVE  Inv'
BY GoneStep DEF ChildFails

\* a program takes its place,
LEMMA ExecStep ==
    ASSUME Inv, NEW p \in Procs, Exec(p)
    PROVE  Inv'
<1>1. /\ Shapes /\ "external" \in States
      /\ state[p] # "none" /\ state' = [state EXCEPT ![p] = "external"]
      /\ buf' = [buf EXCEPT ![p] = << >>]
      /\ UNCHANGED <<fds, frames, job, home, belongs, written>>
    BY DEF Inv, States, Exec, Running
<1>2. /\ fds[p] \in Descriptors /\ job[p] \in Jobs /\ fds = [fds EXCEPT ![p] = fds[p]]
      /\ job = [job EXCEPT ![p] = job[p]] /\ home \in [Procs -> Descriptors]
    BY <1>1 DEF Shapes
<1> QED BY <1>1, <1>2, PlainStep

\* or the stage is one,
LEMMA ChildExecsStep ==
    ASSUME Inv, NEW p \in Procs, NEW r \in Redirections, ChildExecs(p, r)
    PROVE  Inv'
<1> DEFINE d == apply_redirection(fds[p], r).fds
<1>1. /\ Shapes /\ Fit(p) /\ "external" \in States
      /\ state[p] = "child" /\ state' = [state EXCEPT ![p] = "external"]
      /\ fds' = [fds EXCEPT ![p] = d]
      /\ buf' = [buf EXCEPT ![p] = << >>]
      /\ UNCHANGED <<frames, job, home, belongs, written>>
    BY DEF Inv, States, ChildExecs
<1>2. Applied(apply_redirection(fds[p], r), fds[p])
    BY <1>1, JobIs, RedirectionsApply DEF Fit, Live, Sound
<1>3. d \in Descriptors
    BY <1>2 DEF Applied, Accumulators
<1>4. job[p] \in Jobs /\ job = [job EXCEPT ![p] = job[p]] /\ home \in [Procs -> Descriptors]
    BY <1>1 DEF Shapes
<1> HIDE DEF d
<1> QED BY <1>1, <1>3, <1>4, PlainStep

\* or a builtin;
LEMMA ChildRunsStep ==
    ASSUME Inv, NEW p \in Procs, NEW r \in Redirections, ChildRuns(p, r)
    PROVE  Inv'
<1> DEFINE d == apply_redirection(fds[p], r).fds
<1>1. /\ Shapes /\ Fit(p) /\ state[p] = "child" /\ "running" \in States
      /\ fds' = [fds EXCEPT ![p] = d] /\ home' = [home EXCEPT ![p] = fds'[p]]
      /\ state' = [state EXCEPT ![p] = "running"] /\ job' = [job EXCEPT ![p] = NoJob]
      /\ UNCHANGED <<buf, frames, belongs, written>>
    BY DEF Inv, ChildRuns, States
<1>2. Applied(apply_redirection(fds[p], r), fds[p])
    BY <1>1, JobIs, RedirectionsApply DEF Fit, Live, Sound
<1>3. d \in Descriptors /\ Open(d)
    BY <1>2 DEF Applied, Accumulators
<1> HIDE DEF d
<1>4. frames[p] = << >> /\ Sound(d, << >>, None)
    BY <1>1, <1>3, FreshSound DEF Fit
<1>5. home' \in [Procs -> Descriptors]
    BY <1>1, <1>3 DEF Shapes
<1> QED BY <1>1, <1>3, <1>4, <1>5, NoJobIs, PlainStep

\* A fork: the shell goes on as s, the child begins as c with its own
\* descriptors, a copy of the buffer and no frames.
LEMMA ChildStep ==
    ASSUME Inv, NEW p \in Procs, NEW q \in Procs, NEW s \in States, NEW c \in {"child", "running"},
           NEW its \in Descriptors, NEW kept \in Descriptors, NEW j \in Jobs, NEW k \in Jobs,
           Child(p, q, <<s, c>>, its, kept), state[p] # "none", s \notin {"none", "child"},
           job' = [job EXCEPT ![p] = j, ![q] = k], k.prev = None,
           Open(its), Sound(kept, frames[p], j.prev),
           s = "running" => j.prev = None,
           s = "building" => j.left > 0 /\ j.left + Cardinality(j.kids) <= MaxStages
    PROVE  Inv'
<1>1. /\ Shapes /\ Fit(p) /\ Fit(q) /\ q = Forked + 1
      /\ fds' = [fds EXCEPT ![p] = kept, ![q] = its]
      /\ home' = [home EXCEPT ![q] = its]
      /\ buf' = [buf EXCEPT ![q] = buf[p]]
      /\ state' = [state EXCEPT ![p] = s, ![q] = c]
      /\ UNCHANGED <<frames, belongs, written>>
    BY DEF Inv, Child
<1>2. q # p /\ state[q] = "none"
    BY <1>1, ChildIsNew
<1>3. c \in States
    BY DEF States
<1>4. /\ fds' \in [Procs -> Descriptors] /\ fds'[p] = kept /\ fds'[q] = its
      /\ home' \in [Procs -> Descriptors]
      /\ buf' \in [Procs -> Seq(Lines)] /\ buf'[p] = buf[p] /\ buf'[q] = buf[p]
      /\ state' \in [Procs -> States] /\ state'[p] = s /\ state'[q] = c
      /\ job' \in [Procs -> Jobs] /\ job'[p] = j /\ job'[q] = k
      /\ frames' = frames /\ belongs' = belongs
      /\ \A o \in Procs \ {p, q} : /\ fds'[o] = fds[o] /\ buf'[o] = buf[o]
                                   /\ state'[o] = state[o] /\ job'[o] = job[o]
    BY <1>1, <1>2, <1>3 DEF Shapes
<1>5. Shapes'
    BY <1>1, <1>4 DEF Shapes
<1>6. \A o \in Procs \ {p, q} : Same(o)
    BY <1>4 DEF Same
<1>7. Fit(p)'
    BY <1>1, <1>4 DEF Fit, Live
<1>8. frames[q] = << >>
    BY <1>1, <1>2 DEF Fit
<1>9. Fit(q)'
    BY <1>1, <1>4, <1>8, FreshSound DEF Fit, Live
<1> QED BY <1>1, <1>4, <1>5, <1>6, <1>7, <1>9, ForkStep

\* a stage is forked,
LEMMA StageStep ==
    ASSUME Inv, NEW p \in Procs, NEW q \in Procs, Stage(p, q)
    PROVE  Inv'
<1> DEFINE n == IF HaveNext(p) THEN PipeEnds(p)[1] ELSE None
           j == [left |-> job[p].left - 1, prev |-> n, kids |-> job[p].kids \cup {q}]
           k == [NoJob EXCEPT !.left = job[p].left + Cardinality(job[p].kids)]
<1>1. PICK s \in AfterFork(p) : Child(p, q, <<s, "child">>, StageFds(p), KeptFds(p))
    BY DEF Stage
<1>2. /\ CanFork(p) /\ state[p] = "building" /\ job[p].left > 0
      /\ job' = [job EXCEPT
                 ![p] = [left |-> @.left - 1,
                         prev |-> IF HaveNext(p) THEN PipeEnds(p)[1] ELSE None,
                         kids |-> @.kids \cup {q}],
                 ![q] = [NoJob EXCEPT !.left = job[p].left + Cardinality(job[p].kids)]]
    BY DEF Stage, CanFork
<1>3. Shapes /\ Fit(p) /\ Forked \in Procs /\ q = Forked + 1
    BY <1>1, ForkedIs DEF Inv, Child
<1>4. /\ job[p] \in Jobs /\ job[p].left \in 0..MaxStages /\ job[p].kids \subseteq Procs
      /\ job[p].prev \in FD \cup {None} /\ fds[p] \in Descriptors /\ frames[p] \in Seq(Saves)
      /\ Sound(fds[p], frames[p], job[p].prev)
      /\ job[p].left + Cardinality(job[p].kids) <= MaxStages
    BY <1>2, <1>3, JobIs DEF Fit, Live
<1>5. /\ KeptFds(p) \in Descriptors /\ StageFds(p) \in Descriptors
      /\ Open(StageFds(p)) /\ Sound(KeptFds(p), frames[p], n)
    BY <1>2, <1>3, <1>4, KeptIs, StageIs, StageSound
<1>6. n \in FD \cup {None}
    BY <1>2, <1>4, PipeEndsFree DEF CanFork, Sound
<1>7. q # p
    BY <1>2, <1>3, ChildIsNew
<1>8. job' = [job EXCEPT ![p] = j, ![q] = k]
    BY <1>2, <1>3, <1>7 DEF Shapes
<1> DEFINE c == Cardinality(job[p].kids)
           c2 == Cardinality(job[p].kids \cup {q})
<1>9. c \in Nat /\ c2 \in Nat /\ c2 <= c + 1
    BY <1>4, KidsCount
<1>10. job[p].left - 1 \in 0..MaxStages /\ job[p].left + c \in 0..MaxStages /\ job[p].left \in Nat
    BY <1>2, <1>4, <1>9, StdStreamsAssumption
<1>11. j \in Jobs /\ j.prev = n /\ j.left = job[p].left - 1 /\ j.kids = job[p].kids \cup {q}
    BY <1>4, <1>6, <1>10 DEF Jobs
<1>12. k \in Jobs /\ k.prev = None
    BY <1>10, NoJobIs DEF Jobs
<1>13. j.left + c2 <= MaxStages
  <2> HIDE DEF c, c2, j
  <2>1. job[p].left + c <= MaxStages
      BY <1>4 DEF c
  <2> QED BY <2>1, <1>9, <1>10, <1>11, StdStreamsAssumption
<1>14. Cardinality(j.kids) = c2
    BY <1>11
<1>15. /\ s \in States /\ s \notin {"none", "child"}
       /\ s = "running" => n = None
       /\ s = "building" => job[p].left > 1
    BY <1>1 DEF AfterFork, HaveNext, States
<1>16. s = "building" => j.left > 0
    BY <1>10, <1>11, <1>15
<1>17. /\ Sound(KeptFds(p), frames[p], j.prev) /\ (s = "running" => j.prev = None)
       /\ s = "building" => j.left > 0 /\ j.left + Cardinality(j.kids) <= MaxStages
  <2> HIDE DEF n, j, c, c2
  <2> QED BY <1>5, <1>11, <1>13, <1>14, <1>15, <1>16
<1>18. state[p] # "none" /\ "child" \in {"child", "running"}
    BY <1>2
<1> HIDE DEF n, j, k, c, c2
<1> QED BY <1>1, <1>5, <1>8, <1>11, <1>12, <1>15, <1>17, <1>18, ChildStep

\* and a subshell for a substitution.
LEMMA SubstituteStep ==
    ASSUME Inv, NEW p \in Procs, NEW q \in Procs, Substitute(p, q)
    PROVE  Inv'
<1> DEFINE r == PipeEnds(p)[1]
           its == [fds[p] EXCEPT ![1] = WriteEnd(p, Forked)]
           kept == [fds[p] EXCEPT ![r] = ReadEnd(p, Forked)]
           j == [left |-> 0, prev |-> r, kids |-> {q}]
<1>1. /\ state[p] = "running" /\ Cardinality(Free(fds[p])) >= 2
      /\ Child(p, q, <<"reading", "running">>, its, kept)
      /\ job' = [job EXCEPT ![p] = j]
    BY DEF Substitute, Running
<1>2. Shapes /\ Fit(p) /\ Fit(q) /\ Forked \in Procs /\ q = Forked + 1
    BY <1>1, ForkedIs DEF Inv, Child
<1>3. Sound(fds[p], frames[p], None) /\ fds[p] \in Descriptors /\ frames[p] \in Seq(Saves)
    BY <1>1, <1>2, JobIs DEF Fit, Live
<1>4. /\ r \in FD /\ kept \in Descriptors /\ its \in Descriptors
      /\ Sound(kept, frames[p], r) /\ Open(its)
    BY <1>1, <1>2, <1>3, SubstituteSound
<1>5. q # p /\ state[q] = "none"
    BY <1>1, <1>2, ChildIsNew
<1>6. job[q] \in Jobs /\ job[q].prev = None
    BY <1>2, <1>5, JobIs DEF Fit
<1>7. j \in Jobs /\ j.prev = r
    BY <1>4, StdStreamsAssumption DEF Jobs
<1> HIDE DEF r, its, kept, j
<1>8. job' = [job EXCEPT ![p] = j, ![q] = job[q]]
    BY <1>1, <1>2, <1>5 DEF Shapes
<1>9. /\ "reading" \in States \ {"none", "child", "running", "building"}
      /\ "running" \in {"child", "running"}
    BY DEF States
<1>10. Sound(kept, frames[p], j.prev) /\ state[p] # "none"
    BY <1>1, <1>4, <1>7
<1> QED BY <1>1, <1>4, <1>6, <1>7, <1>8, <1>9, <1>10, ChildStep

\* The shell begins with its three descriptors.
LEMMA InitInv == Init => Inv
<1> SUFFICES ASSUME Init PROVE Inv
    OBVIOUS
<1> DEFINE d(p) == [x \in FD |-> IF p # Shell \/ x > 2 THEN Closed
                ELSE Std(CASE x = 0 -> "stdin" [] x = 1 -> "stdout" [] OTHER -> "stderr")]
<1>1. \A x \in FD : Std(CASE x = 0 -> "stdin" [] x = 1 -> "stdout" [] OTHER -> "stderr") \in Places
    BY DEF Places
<1>2. \A p \in Procs : d(p) \in Descriptors
    BY <1>1, Standard DEF Descriptors
<1>3. fds = [p \in Procs |-> d(p)]
    BY DEF Init
<1>4. fds \in [Procs -> Descriptors]
    BY <1>2, <1>3
<1>5. /\ state \in [Procs -> States] /\ buf \in [Procs -> Seq(Lines)]
      /\ frames \in [Procs -> Seq(Saves)] /\ job \in [Procs -> Jobs]
      /\ belongs = << >> /\ written = << >> /\ home = fds
  <2>1. << >> \in Seq(Lines) /\ << >> \in Seq(Saves)
      OBVIOUS
  <2> QED BY <2>1, NoJobIs DEF Init, States
<1>6. Shapes
  <2>1. belongs \in Seq(Places) /\ written \in Seq(Seq(Places)) /\ Len(belongs) = 0 /\ Len(written) = 0
      BY <1>5
  <2> QED BY <1>4, <1>5, <2>1, StdStreamsAssumption DEF Shapes
<1>7. \A p \in Procs : /\ state[p] = (IF p = Shell THEN "running" ELSE "none")
                       /\ frames[p] = << >> /\ buf[p] = << >> /\ job[p].prev = None
    BY NoJobIs DEF Init
<1>8. InOrder
  <2>1. Shell \in Procs /\ \A q \in Procs : q # Shell => q > 1
      BY StdStreamsAssumption DEF Procs, Shell
  <2>2. \A q \in Procs : state[q] # "none" <=> q <= Shell
      BY <1>7, <2>1, StdStreamsAssumption DEF Procs, Shell
  <2> QED BY <2>1, <2>2 DEF InOrder
<1>9. Shell \in Procs => Open(fds[Shell])
  <2>1. ASSUME Shell \in Procs, NEW x \in 0..2 PROVE fds[Shell][x] # Closed
    <3>1. x \in FD /\ ~(x > 2)
        BY Standard
    <3>2. fds[Shell][x] = Std(CASE x = 0 -> "stdin" [] x = 1 -> "stdout" [] OTHER -> "stderr")
        BY <1>3, <2>1, <3>1
    <3> QED BY <2>1, <3>2 DEF Std, Closed
  <2> QED BY <2>1 DEF Open
<1>10. ASSUME NEW p \in Procs PROVE Fit(p)
    BY <1>7, <1>9, FreshSound DEF Fit, Live, IsInjective
<1> QED BY <1>6, <1>8, <1>10 DEF Inv

\* Every step keeps the invariant.
LEMMA NextInv == Inv /\ [Next]_vars => Inv'
<1> SUFFICES ASSUME Inv, [Next]_vars PROVE Inv'
    OBVIOUS
<1>1. CASE UNCHANGED vars
    BY <1>1 DEF Inv, Shapes, InOrder, Fit, Live, vars
<1>2. CASE Next
  <2>1. PICK p \in Procs :
            \/ PrintLine(p) \/ End(p) \/ PipeFails(p) \/ ForkFails(p) \/ Waited(p)
            \/ ExternalExits(p) \/ Exit(p) \/ Exec(p) \/ Substituted(p)
            \/ \E r \in Redirections : Begin(p, r)
            \/ \E n \in 1..MaxStages : StartPipeline(p, n)
            \/ \E q \in Procs : Stage(p, q) \/ Substitute(p, q)
            \/ \E r \in Redirections : ChildFails(p, r) \/ ChildExecs(p, r) \/ ChildRuns(p, r)
      BY <1>2 DEF Next
  <2>2. CASE PrintLine(p)
      BY <2>2, PrintStep
  <2>3. CASE End(p)
      BY <2>3, EndStep
  <2>4. CASE PipeFails(p) \/ ForkFails(p) \/ Waited(p) \/ Substituted(p)
      BY <2>4, PipeFailsStep, ForkFailsStep, WaitedStep, SubstitutedStep
  <2>5. CASE ExternalExits(p) \/ Exit(p)
      BY <2>5, GoneStep DEF ExternalExits, Exit, Running, fflush
  <2>6. CASE Exec(p)
      BY <2>6, ExecStep
  <2>7. CASE \E r \in Redirections : Begin(p, r)
      BY <2>7, BeginStep
  <2>8. CASE \E n \in 1..MaxStages : StartPipeline(p, n)
      BY <2>8, StartStep
  <2>9. CASE \E q \in Procs : Stage(p, q) \/ Substitute(p, q)
      BY <2>9, StageStep, SubstituteStep
  <2>10. CASE \E r \in Redirections : ChildFails(p, r) \/ ChildExecs(p, r) \/ ChildRuns(p, r)
      BY <2>10, ChildFailsStep, ChildExecsStep, ChildRunsStep
  <2> QED BY <2>1, <2>2, <2>3, <2>4, <2>5, <2>6, <2>7, <2>8, <2>9, <2>10
<1> QED BY <1>1, <1>2

\* It has the types in it.
LEMMA InvTypeOK == Inv => TypeOK
<1> SUFFICES ASSUME Inv PROVE TypeOK
    OBVIOUS
<1>1. ASSUME NEW p \in Procs, NEW x \in 0..2, Live(p) PROVE fds[p][x] # Closed
    BY <1>1 DEF Inv, Fit, Sound, Open
<1>2. \A p \in Procs : IsInjective(buf[p])
    BY DEF Inv, Fit
<1> QED BY <1>1, <1>2 DEF Inv, Shapes, TypeOK, Descriptors

\* The invariant holds.
LEMMA SpecInv == Spec => []Inv
BY InitInv, NextInv, PTL DEF Spec

\* Every variable has its type, the standard descriptors of every live process
\* are open, and no line is twice in a buffer.
THEOREM TypeCorrect == Spec => []TypeOK
BY SpecInv, InvTypeOK, PTL

-----------------------------------------------------------------------------
(* Lines that wait in a buffer.                                            *)

Active == {"running", "building", "waiting", "reading"}

\* Nobody but the shell has lines in a buffer: there is none, or nobody else
\* runs builtins.
Unshared == LineBuffered \/ {"stage", "subst"} \cap Habits = {}

\* Each line was written where it belongs or not yet; those the shell has in
\* its buffer were not, and belong where its stdout is now.
Buffered ==
    /\ LineBuffered => \A p \in Procs : buf[p] = << >>
    /\ ~LineBuffered => \A p \in Procs \ {Shell} : state[p] \notin Active
    /\ state[Shell] \notin {"none", "child"}
    /\ state[Shell] \in Active => \A t \in DOMAIN written : InBuffer(Shell, t) =>
          written[t] = << >> /\ belongs[t] = fds[Shell][1]
    /\ \A t \in DOMAIN written : written[t] \in {<< >>, <<belongs[t]>>}

\* What is not written is in the shell's buffer, and the shell still runs.
Pending ==
    \A t \in DOMAIN written : written[t] = << >> =>
        ~LineBuffered /\ state[Shell] \in Active /\ InBuffer(Shell, t)

\* A step that writes and prints nothing.
Calm ==
    /\ UNCHANGED <<belongs, written>>
    /\ LineBuffered => \A q \in Procs : buf'[q] = << >>
    /\ ~LineBuffered => \A q \in Procs \ {Shell} : state'[q] \notin Active
    /\ state'[Shell] \notin {"none", "child"}
    /\ state'[Shell] \in Active =>
          state[Shell] \in Active /\ fds'[Shell][1] = fds[Shell][1] /\ buf'[Shell] = buf[Shell]

\* And leaves the shell its buffer.
Patient == state[Shell] \in Active => state'[Shell] \in Active /\ buf'[Shell] = buf[Shell]

\* Such a step changes nothing for the lines.
LEMMA CalmKeeps ==
    ASSUME Buffered, Calm
    PROVE  Buffered' /\ (Pending /\ (Patient \/ LineBuffered) => Pending')
BY DEF Buffered, Calm, Pending, Patient, InBuffer

\* The shell is a process.
LEMMA ShellIs == Shell \in Procs
BY StdStreamsAssumption DEF Shell, Procs

\* The steps of one process that fork none and do not flush.
LEMMA CalmAlone ==
    ASSUME Inv, Buffered, NEW p \in Procs, NEW d, NEW s,
           fds' = [fds EXCEPT ![p] = d], state' = [state EXCEPT ![p] = s],
           buf' = buf \/ buf' = [buf EXCEPT ![p] = << >>], UNCHANGED <<belongs, written>>,
           p # Shell => s \notin Active \/ state[p] \in Active \/ LineBuffered,
           p = Shell => /\ s \notin {"none", "child"}
                        /\ s \in Active =>
                              state[p] \in Active /\ d[1] = fds[p][1] /\ buf' = buf
    PROVE  Calm
<1>1. /\ fds \in [Procs -> Descriptors] /\ buf \in [Procs -> Seq(Lines)] /\ state \in [Procs -> States]
      /\ Shell \in Procs
    BY ShellIs DEF Inv, Shapes
<1>2. /\ fds'[p] = d /\ state'[p] = s /\ buf'[p] \in {buf[p], << >>}
      /\ \A q \in Procs \ {p} : fds'[q] = fds[q] /\ state'[q] = state[q] /\ buf'[q] = buf[q]
    BY <1>1
<1>3. LineBuffered => \A q \in Procs : buf'[q] = << >>
    BY <1>2 DEF Buffered
<1>4. ~LineBuffered => \A q \in Procs \ {Shell} : state'[q] \notin Active
    BY <1>2 DEF Buffered
<1>5. /\ state'[Shell] \notin {"none", "child"}
      /\ state'[Shell] \in Active =>
          state[Shell] \in Active /\ fds'[Shell][1] = fds[Shell][1] /\ buf'[Shell] = buf[Shell]
    BY <1>1, <1>2 DEF Buffered
<1> QED BY <1>3, <1>4, <1>5 DEF Calm

\* Nor does a fork, when the child has no buffer to flush.
LEMMA CalmChild ==
    ASSUME Inv, Buffered, NEW p \in Procs, NEW q \in Procs, NEW s \in Active, NEW c, NEW its, NEW kept,
           Child(p, q, <<s, c>>, its, kept), state[p] \in Active, kept[1] = fds[p][1],
           c \notin Active \/ LineBuffered
    PROVE  Calm /\ Patient
<1>1. /\ fds \in [Procs -> Descriptors] /\ buf \in [Procs -> Seq(Lines)] /\ state \in [Procs -> States]
      /\ Shell \in Procs
    BY ShellIs DEF Inv, Shapes
<1>2. q # p /\ q # Shell
    BY ChildIsNew DEF Child, Active
<1>3. /\ fds'[p] = kept /\ state'[p] = s /\ state'[q] = c /\ buf'[q] = buf[p] /\ buf'[p] = buf[p]
      /\ \A o \in Procs \ {p, q} : fds'[o] = fds[o] /\ state'[o] = state[o] /\ buf'[o] = buf[o]
      /\ UNCHANGED <<belongs, written>>
    BY <1>1, <1>2 DEF Child
<1>4. LineBuffered => \A o \in Procs : buf'[o] = << >>
    BY <1>3 DEF Buffered
<1>5. ~LineBuffered => \A o \in Procs \ {Shell} : state'[o] \notin Active
    BY <1>3 DEF Buffered
<1>6. /\ state'[Shell] \notin {"none", "child"} /\ buf'[Shell] = buf[Shell]
      /\ fds'[Shell][1] = fds[Shell][1] /\ (state'[Shell] \in Active <=> state[Shell] \in Active)
    BY <1>1, <1>2, <1>3 DEF Buffered, Active
<1>7. Calm
    BY <1>3, <1>4, <1>5, <1>6 DEF Calm
<1> QED BY <1>6, <1>7 DEF Patient

\* A step of one process leaves the shell its buffer, if it is not the shell's end.
LEMMA PatientAlone ==
    ASSUME Inv, Buffered, NEW p \in Procs, NEW s, state' = [state EXCEPT ![p] = s],
           buf' = buf \/ buf' = [buf EXCEPT ![p] = << >>],
           p = Shell /\ state[p] \in Active => s \in Active /\ buf' = buf
    PROVE  Patient
<1>1. buf \in [Procs -> Seq(Lines)] /\ state \in [Procs -> States] /\ Shell \in Procs
    BY ShellIs DEF Inv, Shapes
<1> QED BY <1>1 DEF Patient

\* A flush by a process that runs.
LEMMA FlushKeeps ==
    ASSUME Inv, Buffered, NEW p \in Procs, state[p] = "running", fflush(p), belongs' = belongs,
           \A q \in Procs \ {p} : fds'[q] = fds[q] /\ state'[q] = state[q],
           state'[p] \in {"running", "dead"}
    PROVE  Buffered' /\ (Pending => Pending')
<1>1. /\ DOMAIN written' = DOMAIN written
      /\ \A t \in DOMAIN written : written'[t] = IF InBuffer(p, t)
            THEN Append(written[t], fds[p][1]) ELSE written[t]
      /\ buf'[p] = << >> /\ \A q \in Procs \ {p} : buf'[q] = buf[q]
    BY FlushShape DEF Inv
<1>2. Shell \in Procs /\ (p = Shell \/ LineBuffered)
    BY ShellIs DEF Buffered, Active
<1>3. /\ LineBuffered => \A q \in Procs : buf'[q] = << >>
      /\ ~LineBuffered => \A q \in Procs \ {Shell} : state'[q] \notin Active
      /\ state'[Shell] \notin {"none", "child"}
    BY <1>1, <1>2 DEF Buffered, Active
<1>4. ASSUME NEW t \in DOMAIN written
      PROVE  /\ written'[t] \in {<< >>, <<belongs[t]>>}
             /\ written'[t] = << >> => written[t] = << >> /\ ~InBuffer(p, t)
  <2>1. CASE ~InBuffer(p, t)
      BY <1>1, <2>1 DEF Buffered
  <2>2. CASE InBuffer(p, t)
    <3>1. p = Shell /\ ~LineBuffered
        BY <1>2, <2>2 DEF InBuffer, Buffered
    <3>2. written[t] = << >> /\ belongs[t] = fds[p][1]
        BY <2>2, <3>1 DEF Buffered, Active
    <3>3. written'[t] = <<belongs[t]>>
        BY <1>1, <2>2, <3>2
    <3> QED BY <2>2, <3>3
  <2> QED BY <2>1, <2>2
<1>5. \A t \in DOMAIN written : ~InBuffer(Shell, t)'
    BY <1>1, <1>2, <1>3 DEF InBuffer
<1>6. Buffered'
    BY <1>1, <1>3, <1>4, <1>5 DEF Buffered
<1>7. ASSUME Pending PROVE Pending'
  <2>1. ASSUME NEW t \in DOMAIN written', written'[t] = << >> PROVE FALSE
    <3>1. t \in DOMAIN written /\ written[t] = << >> /\ ~InBuffer(p, t)
        BY <1>1, <1>4, <2>1
    <3>2. ~LineBuffered /\ InBuffer(Shell, t)
        BY <1>7, <3>1 DEF Pending
    <3> QED BY <1>2, <3>1, <3>2
  <2> QED BY <2>1 DEF Pending
<1> QED BY <1>6, <1>7

\* A line that is printed waits, or goes where stdout is.
LEMMA PrintKeeps ==
    ASSUME Inv, Buffered, NEW p \in Procs, PrintLine(p)
    PROVE  Buffered' /\ (Pending => Pending')
<1> DEFINE n == Len(belongs)
           t == n + 1
<1>1. /\ n \in Nat /\ DOMAIN written = 1..n
      /\ DOMAIN written' = 1..t
      /\ \A u \in 1..n : belongs'[u] = belongs[u]
      /\ belongs'[t] = fds[p][1]
      /\ \/ /\ ~LineBuffered
            /\ buf' = [buf EXCEPT ![p] = Append(@, t)]
            /\ written'[t] = << >>
            /\ \A u \in 1..n : written'[u] = written[u]
         \/ /\ buf' = [buf EXCEPT ![p] = << >>]
            /\ written'[t] = <<fds[p][1]>>
            /\ \A u \in 1..n : written'[u] =
                  IF InBuffer(p, u) THEN Append(written[u], fds[p][1]) ELSE written[u]
    BY PrintShape DEF Inv
<1>2. /\ UNCHANGED <<fds, state>> /\ state[p] = "running" /\ buf \in [Procs -> Seq(Lines)]
      /\ Shell \in Procs
    BY ShellIs DEF PrintLine, Running, Inv, Shapes
<1>3. p = Shell \/ LineBuffered
    BY <1>2 DEF Buffered, Active
<1>4. \A u \in DOMAIN written' : u \in 1..n \/ u = t
    BY <1>1
<1>5. /\ ~LineBuffered => \A q \in Procs \ {Shell} : state'[q] \notin Active
      /\ state'[Shell] \notin {"none", "child"}
    BY <1>2 DEF Buffered
<1>6. CASE /\ ~LineBuffered
           /\ buf' = [buf EXCEPT ![p] = Append(@, t)]
           /\ written'[t] = << >>
           /\ \A u \in 1..n : written'[u] = written[u]
  <2>1. p = Shell /\ state[Shell] \in Active /\ buf'[Shell] = Append(buf[Shell], t)
      BY <1>2, <1>3, <1>6 DEF Active
  <2> DEFINE b == buf[Shell]
             c == buf'[Shell]
  <2>2. /\ b \in Seq(Lines) /\ Len(b) \in Nat /\ DOMAIN b = 1..Len(b)
        /\ DOMAIN c = 1..Len(b) + 1 /\ c[Len(b) + 1] = t
        /\ \A i \in 1..Len(b) : c[i] = b[i]
    <3>1. b \in Seq(Lines)
        BY <1>2
    <3>2. t \in Lines
        BY PrintShape DEF Inv
    <3> HIDE DEF t, b
    <3>3. c = Append(b, t)
        BY <2>1 DEF b
    <3> HIDE DEF c
    <3> QED BY <3>1, <3>2, <3>3
  <2>3. \A i \in DOMAIN c : i \in 1..Len(b) \/ i = Len(b) + 1
      BY <2>2
  <2>4. Len(b) + 1 \in DOMAIN c /\ \A i \in DOMAIN b : i \in DOMAIN c
      BY <2>2
  <2>5. \A u \in 1..n : InBuffer(Shell, u)' <=> InBuffer(Shell, u)
    <3>1. ASSUME NEW u \in 1..n, InBuffer(Shell, u)' PROVE InBuffer(Shell, u)
      <4>1. PICK i \in DOMAIN c : c[i] = u
          BY <3>1 DEF InBuffer
      <4>2. u # t
          BY <1>1
      <4>3. i \in DOMAIN b /\ b[i] = u
          BY <2>2, <2>3, <4>1, <4>2
      <4> QED BY <4>3 DEF InBuffer
    <3>2. ASSUME NEW u \in 1..n, InBuffer(Shell, u) PROVE InBuffer(Shell, u)'
      <4>1. PICK i \in DOMAIN b : b[i] = u
          BY <3>2 DEF InBuffer
      <4>2. i \in DOMAIN c /\ c[i] = u
          BY <2>2, <2>4, <4>1
      <4> QED BY <4>2 DEF InBuffer
    <3> QED BY <3>1, <3>2
  <2>6. \E i \in DOMAIN c : c[i] = t
      BY <2>2, <2>4
  <2>7. ASSUME NEW u \in DOMAIN written'
        PROVE  /\ InBuffer(Shell, u)' => written'[u] = << >> /\ belongs'[u] = fds'[Shell][1]
               /\ written'[u] \in {<< >>, <<belongs'[u]>>}
    <3>1. CASE u = t
        BY <3>1, <1>1, <1>2, <1>6, <2>1
    <3>2. CASE u \in 1..n
      <4>1. /\ written'[u] = written[u] /\ belongs'[u] = belongs[u] /\ u \in DOMAIN written
            /\ fds' = fds
          BY <3>2, <1>1, <1>2, <1>6
      <4>2. InBuffer(Shell, u)' <=> InBuffer(Shell, u)
          BY <3>2, <2>5
      <4> QED BY <2>1, <4>1, <4>2 DEF Buffered
    <3> QED BY <1>4, <3>1, <3>2
  <2>8. Buffered'
      BY <1>5, <1>6, <2>7 DEF Buffered
  <2>9. ASSUME Pending PROVE Pending'
    <3>1. ASSUME NEW u \in DOMAIN written', written'[u] = << >> PROVE InBuffer(Shell, u)'
      <4>1. CASE u = t
          BY <4>1, <2>6 DEF InBuffer
      <4>2. CASE u \in 1..n
        <5>1. InBuffer(Shell, u)
            BY <4>2, <2>9, <3>1, <1>1, <1>6 DEF Pending
        <5> QED BY <4>2, <5>1, <2>5
      <4> QED BY <1>4, <4>1, <4>2
    <3>2. state'[Shell] \in Active
        BY <1>2, <2>1
    <3> QED BY <1>6, <3>1, <3>2 DEF Pending
  <2> QED BY <2>8, <2>9
<1>7. CASE /\ buf' = [buf EXCEPT ![p] = << >>]
           /\ written'[t] = <<fds[p][1]>>
           /\ \A u \in 1..n : written'[u] =
                 IF InBuffer(p, u) THEN Append(written[u], fds[p][1]) ELSE written[u]
  <2>1. /\ buf'[p] = << >> /\ \A q \in Procs \ {p} : buf'[q] = buf[q]
      BY <1>2, <1>7
  <2>2. LineBuffered => \A q \in Procs : buf'[q] = << >>
      BY <2>1 DEF Buffered
  <2>3. \A u \in DOMAIN written' : ~InBuffer(Shell, u)'
      BY <1>2, <1>3, <2>1, <2>2 DEF InBuffer
  <2>4. ASSUME NEW u \in DOMAIN written'
        PROVE  /\ written'[u] \in {<< >>, <<belongs'[u]>>}
               /\ written'[u] = << >> => u \in DOMAIN written /\ written[u] = << >> /\ ~InBuffer(p, u)
    <3>1. CASE u = t
        BY <3>1, <1>1, <1>7
    <3>2. CASE u \in 1..n
      <4>0. u \in DOMAIN written /\ belongs'[u] = belongs[u]
          BY <3>2, <1>1
      <4>1. CASE ~InBuffer(p, u)
          BY <3>2, <4>0, <4>1, <1>7 DEF Buffered
      <4>2. CASE InBuffer(p, u)
        <5>1. p = Shell /\ ~LineBuffered
            BY <1>3, <4>2 DEF InBuffer, Buffered
        <5>2. written[u] = << >> /\ belongs[u] = fds[p][1]
            BY <4>0, <4>2, <5>1, <1>2 DEF Buffered, Active
        <5>3. written'[u] = Append(written[u], fds[p][1])
            BY <3>2, <4>2, <1>7
        <5>4. written'[u] = <<belongs[u]>>
            BY <5>2, <5>3
        <5> QED BY <4>0, <5>4
      <4> QED BY <4>1, <4>2
    <3> QED BY <1>4, <3>1, <3>2
  <2>5. Buffered'
      BY <1>5, <2>2, <2>3, <2>4 DEF Buffered
  <2>6. ASSUME Pending PROVE Pending'
    <3>1. ASSUME NEW u \in DOMAIN written', written'[u] = << >> PROVE FALSE
      <4>1. u \in DOMAIN written /\ written[u] = << >> /\ ~InBuffer(p, u)
          BY <2>4, <3>1
      <4>2. ~LineBuffered /\ InBuffer(Shell, u)
          BY <2>6, <4>1 DEF Pending
      <4> QED BY <1>3, <4>1, <4>2
    <3> QED BY <3>1 DEF Pending
  <2> QED BY <2>5, <2>6
<1> QED BY <1>1, <1>6, <1>7

\* `exec` throws the buffer away.
Flushed == LineBuffered \/ "exec" \notin Habits

\* The steps that neither print nor flush.
LEMMA CalmSteps ==
    ASSUME Unshared, Inv, Buffered, NEW p \in Procs,
           \/ PipeFails(p) \/ ForkFails(p) \/ Waited(p) \/ ExternalExits(p) \/ Exec(p)
           \/ Substituted(p)
           \/ \E n \in 1..MaxStages : StartPipeline(p, n)
           \/ \E q \in Procs : Stage(p, q) \/ Substitute(p, q)
           \/ \E r \in Redirections : ChildFails(p, r) \/ ChildExecs(p, r) \/ ChildRuns(p, r)
    PROVE  Calm /\ (Flushed => Patient \/ LineBuffered)
<1>1. /\ Shapes /\ Fit(p) /\ Shell \in Procs /\ 1 \in FD /\ 1 \in 0..2
      /\ fds \in [Procs -> Descriptors] /\ state \in [Procs -> States] /\ fds[p] \in Descriptors
      /\ fds = [fds EXCEPT ![p] = fds[p]]
    BY ShellIs, Standard DEF Inv, Shapes
<1>2. state[p] = "child" => p # Shell
    BY DEF Buffered
<1>3. Live(p) => Sound(fds[p], frames[p], job[p].prev) /\ Open(fds[p])
    BY <1>1 DEF Fit, Sound
<1>4. CASE PipeFails(p)
  <2>1. /\ state[p] = "building" /\ fds' = [fds EXCEPT ![p] = fds[p]]
        /\ state' = [state EXCEPT ![p] = "running"] /\ UNCHANGED <<buf, belongs, written>>
      BY <1>4 DEF PipeFails, Abort
  <2> QED BY <2>1, CalmAlone, PatientAlone DEF Active
<1>5. CASE ForkFails(p)
  <2> DEFINE d == WithPipe(p)
  <2>1. /\ state[p] = "building" /\ fds' = [fds EXCEPT ![p] = d] /\ CanFork(p)
        /\ state' = [state EXCEPT ![p] = "running"] /\ UNCHANGED <<buf, belongs, written>>
      BY <1>5 DEF ForkFails, Abort, CanFork
  <2>2. d[1] = fds[p][1]
    <3>1. CASE ~HaveNext(p)
        BY <3>1 DEF WithPipe
    <3>2. CASE HaveNext(p)
      <4>1. PipeEnds(p)[1] # 1 /\ PipeEnds(p)[2] # 1
          BY <1>3, <2>1, <3>2, PipeEndsFree DEF CanFork, Live
      <4>2. d = [fds[p] EXCEPT ![PipeEnds(p)[1]] = ReadEnd(p, Forked),
                               ![PipeEnds(p)[2]] = WriteEnd(p, Forked)]
          BY <3>2 DEF WithPipe
      <4> HIDE DEF d
      <4> QED BY <1>1, <4>1, <4>2 DEF Descriptors
    <3> QED BY <3>1, <3>2
  <2> HIDE DEF d
  <2> QED BY <2>1, <2>2, CalmAlone, PatientAlone DEF Active
<1>6. CASE Waited(p)
  <2>1. /\ state[p] = "waiting" /\ fds' = [fds EXCEPT ![p] = fds[p]]
        /\ state' = [state EXCEPT ![p] = "running"] /\ UNCHANGED <<buf, belongs, written>>
      BY <1>1, <1>6 DEF Waited
  <2> QED BY <2>1, CalmAlone, PatientAlone DEF Active
<1>7. CASE ExternalExits(p)
  <2>1. /\ state[p] = "external" /\ fds' = [fds EXCEPT ![p] = NothingOpen]
        /\ state' = [state EXCEPT ![p] = "dead"] /\ UNCHANGED <<buf, belongs, written>>
      BY <1>7 DEF ExternalExits, Gone, NothingOpen
  <2> QED BY <2>1, CalmAlone, PatientAlone DEF Active
<1>8. CASE Exec(p)
  <2>1. /\ state[p] = "running" /\ fds' = [fds EXCEPT ![p] = fds[p]] /\ "exec" \in Habits
        /\ state' = [state EXCEPT ![p] = "external"] /\ buf' = [buf EXCEPT ![p] = << >>]
        /\ UNCHANGED <<belongs, written>>
      BY <1>1, <1>8 DEF Exec, Running
  <2> QED BY <2>1, CalmAlone DEF Active, Flushed
<1>9. CASE Substituted(p)
  <2> DEFINE d == [fds[p] EXCEPT ![job[p].prev] = Closed]
  <2>1. /\ state[p] = "reading" /\ fds' = [fds EXCEPT ![p] = d]
        /\ state' = [state EXCEPT ![p] = "running"] /\ UNCHANGED <<buf, belongs, written>>
      BY <1>1, <1>9 DEF Substituted
  <2>2. job[p].prev # 1
      BY <1>3, <2>1 DEF Sound, Live, None
  <2>3. d[1] = fds[p][1]
      BY <1>1, <2>2 DEF Descriptors
  <2> HIDE DEF d
  <2> QED BY <2>1, <2>3, CalmAlone, PatientAlone DEF Active
<1>10. CASE \E n \in 1..MaxStages : StartPipeline(p, n)
  <2>1. /\ state[p] = "running" /\ fds' = [fds EXCEPT ![p] = fds[p]]
        /\ state' = [state EXCEPT ![p] = "building"] /\ UNCHANGED <<buf, belongs, written>>
      BY <1>1, <1>10 DEF StartPipeline, Running
  <2> QED BY <2>1, CalmAlone, PatientAlone DEF Active
<1>11. ASSUME NEW q \in Procs, Stage(p, q) PROVE Calm /\ Patient
  <2>1. PICK s \in AfterFork(p) : Child(p, q, <<s, "child">>, StageFds(p), KeptFds(p))
      BY <1>11 DEF Stage
  <2>2. CanFork(p) /\ state[p] = "building" /\ s \in Active /\ Forked \in Procs
      BY <1>11, <2>1, ForkedIs DEF Stage, CanFork, AfterFork, Active, Inv
  <2>3. KeptFds(p)[1] = fds[p][1]
    <3>1. Sound(fds[p], frames[p], job[p].prev)
        BY <1>3, <2>2 DEF Live
    <3>2. job[p].prev # 1
        BY <3>1 DEF Sound, None
    <3>3. HaveNext(p) => PipeEnds(p)[1] # 1
        BY <3>1, <2>2, PipeEndsFree DEF Sound, CanFork
    <3> QED BY <1>1, <2>2, <3>1, <3>2, <3>3, KeptIs, JobIs
  <2>4. state[p] \in Active /\ "child" \notin Active
      BY <2>2 DEF Active
  <2> QED BY <2>1, <2>2, <2>3, <2>4, CalmChild
<1>12. ASSUME NEW q \in Procs, Substitute(p, q) PROVE Calm /\ Patient
  <2> DEFINE kept == [fds[p] EXCEPT ![PipeEnds(p)[1]] = ReadEnd(p, Forked)]
             its == [fds[p] EXCEPT ![1] = WriteEnd(p, Forked)]
  <2>1. /\ state[p] = "running" /\ Cardinality(Free(fds[p])) >= 2 /\ "subst" \in Habits
        /\ Child(p, q, <<"reading", "running">>, its, kept)
      BY <1>12 DEF Substitute, Running
  <2>2. PipeEnds(p)[1] # 1
      BY <1>3, <2>1, PipeEndsFree DEF Live
  <2>3. kept[1] = fds[p][1]
      BY <1>1, <2>2 DEF Descriptors
  <2>4. LineBuffered /\ "reading" \in Active /\ state[p] \in Active
      BY <2>1 DEF Unshared, Active
  <2> HIDE DEF kept, its
  <2> QED BY <2>1, <2>3, <2>4, CalmChild
<1>13. ASSUME NEW r \in Redirections, ChildFails(p, r) PROVE Calm /\ Patient
  <2>1. /\ state[p] = "child" /\ fds' = [fds EXCEPT ![p] = NothingOpen]
        /\ state' = [state EXCEPT ![p] = "dead"] /\ buf' = [buf EXCEPT ![p] = << >>]
        /\ UNCHANGED <<belongs, written>>
      BY <1>13 DEF ChildFails, Gone, NothingOpen
  <2> QED BY <1>2, <2>1, CalmAlone, PatientAlone DEF Active
<1>14. ASSUME NEW r \in Redirections, ChildExecs(p, r) PROVE Calm /\ Patient
  <2> DEFINE d == apply_redirection(fds[p], r).fds
  <2>1. /\ state[p] = "child" /\ fds' = [fds EXCEPT ![p] = d]
        /\ state' = [state EXCEPT ![p] = "external"] /\ buf' = [buf EXCEPT ![p] = << >>]
        /\ UNCHANGED <<belongs, written>>
      BY <1>14 DEF ChildExecs
  <2> HIDE DEF d
  <2> QED BY <1>2, <2>1, CalmAlone, PatientAlone DEF Active
<1>15. ASSUME NEW r \in Redirections, ChildRuns(p, r) PROVE Calm /\ Patient
  <2> DEFINE d == apply_redirection(fds[p], r).fds
  <2>1. /\ state[p] = "child" /\ fds' = [fds EXCEPT ![p] = d] /\ "stage" \in Habits
        /\ state' = [state EXCEPT ![p] = "running"] /\ UNCHANGED <<buf, belongs, written>>
      BY <1>15 DEF ChildRuns
  <2>2. LineBuffered
      BY <2>1 DEF Unshared
  <2> HIDE DEF d
  <2> QED BY <1>2, <2>1, <2>2, CalmAlone, PatientAlone DEF Active
<1> QED BY <1>4, <1>5, <1>6, <1>7, <1>8, <1>9, <1>10, <1>11, <1>12, <1>13, <1>14, <1>15

\* Every step keeps what is known of the lines.
LEMMA BufferedNext ==
    ASSUME Unshared, Inv, Buffered, [Next]_vars
    PROVE  Buffered' /\ (Flushed /\ Pending => Pending')
<1>1. CASE UNCHANGED vars
    BY <1>1 DEF Buffered, Pending, InBuffer, vars
<1>2. CASE Next
  <2>1. PICK p \in Procs :
            \/ PrintLine(p) \/ End(p) \/ PipeFails(p) \/ ForkFails(p) \/ Waited(p)
            \/ ExternalExits(p) \/ Exit(p) \/ Exec(p) \/ Substituted(p)
            \/ \E r \in Redirections : Begin(p, r)
            \/ \E n \in 1..MaxStages : StartPipeline(p, n)
            \/ \E q \in Procs : Stage(p, q) \/ Substitute(p, q)
            \/ \E r \in Redirections : ChildFails(p, r) \/ ChildExecs(p, r) \/ ChildRuns(p, r)
      BY <1>2 DEF Next
  <2>2. CASE PrintLine(p)
      BY <2>2, PrintKeeps
  <2>3. CASE End(p) \/ Exit(p) \/ \E r \in Redirections : Begin(p, r)
    <3>1. fds \in [Procs -> Descriptors] /\ state \in [Procs -> States]
        BY DEF Inv, Shapes
    <3>2. /\ state[p] = "running" /\ fflush(p) /\ belongs' = belongs
          /\ \E d : fds' = [fds EXCEPT ![p] = d]
          /\ \E s \in {"running", "dead"} : state' = [state EXCEPT ![p] = s]
      <4>1. CASE End(p)
          BY <3>1, <4>1 DEF End, Running
      <4>2. CASE Exit(p)
          BY <4>2 DEF Exit, Running, Gone
      <4>3. CASE \E r \in Redirections : Begin(p, r)
          BY <3>1, <4>3 DEF Begin, Running
      <4> QED BY <2>3, <4>1, <4>2, <4>3
    <3>3. /\ \A q \in Procs \ {p} : fds'[q] = fds[q] /\ state'[q] = state[q]
          /\ state'[p] \in {"running", "dead"}
        BY <3>1, <3>2
    <3> QED BY <3>2, <3>3, FlushKeeps
  <2>4. CASE \/ PipeFails(p) \/ ForkFails(p) \/ Waited(p) \/ ExternalExits(p) \/ Exec(p)
             \/ Substituted(p)
             \/ \E n \in 1..MaxStages : StartPipeline(p, n)
             \/ \E q \in Procs : Stage(p, q) \/ Substitute(p, q)
             \/ \E r \in Redirections : ChildFails(p, r) \/ ChildExecs(p, r) \/ ChildRuns(p, r)
    <3>1. Calm /\ (Flushed => Patient \/ LineBuffered)
        BY <2>4, CalmSteps
    <3> QED BY <3>1, CalmKeeps
  <2> QED BY <2>1, <2>2, <2>3, <2>4
<1> QED BY <1>1, <1>2

\* Nothing was printed at first.
LEMMA BufferedInit == Init => Buffered /\ Pending
<1> SUFFICES ASSUME Init PROVE Buffered /\ Pending
    OBVIOUS
<1>1. /\ written = << >> /\ \A p \in Procs : buf[p] = << >>
      /\ \A p \in Procs : state[p] = IF p = Shell THEN "running" ELSE "none"
      /\ Shell \in Procs
    BY ShellIs DEF Init
<1>2. DOMAIN written = {}
    BY <1>1
<1> QED BY <1>1, <1>2 DEF Buffered, Pending, Active

\* So lines are where they belong, and there once.
LEMMA BufferedWhere ==
    ASSUME Inv, Buffered
    PROVE  WrittenWhereItBelongs /\ AtMostOnce
<1>1. ASSUME NEW t \in DOMAIN written
      PROVE  /\ \A i \in DOMAIN written[t] : written[t][i] = belongs[t]
             /\ Len(written[t]) <= 1
  <2>1. written[t] = << >> \/ written[t] = <<belongs[t]>>
      BY DEF Buffered
  <2> QED BY <2>1
<1> QED BY <1>1 DEF WrittenWhereItBelongs, AtMostOnce

\* And those not written are in a buffer of a process that runs.
LEMMA PendingKept ==
    ASSUME Pending
    PROVE  NothingLost
<1>1. state[Shell] \in Active => Live(Shell)
    BY DEF Active, Live
<1> QED BY <1>1, ShellIs DEF Pending, NothingLost, InBuffer

\* That is always so.
LEMMA SpecBuffered ==
    ASSUME Unshared
    PROVE  Spec => []Buffered
<1>1. Inv /\ Buffered /\ [Next]_vars => Buffered'
    BY BufferedNext
<1>2. Init => Buffered
    BY BufferedInit
<1> QED BY <1>1, <1>2, SpecInv, PTL DEF Spec

\* Lines in a buffer when stdout is a file or a pipe are written to what stdout
\* was when they were printed.
THEOREM WrittenWhereItBelongsCorrect ==
    ASSUME Unshared
    PROVE  Spec => []WrittenWhereItBelongs
<1>1. Inv /\ Buffered => WrittenWhereItBelongs
    BY BufferedWhere
<1>2. Spec => []Buffered
    BY SpecBuffered
<1> QED BY <1>1, <1>2, SpecInv, PTL

\* And they are written once.
THEOREM AtMostOnceCorrect ==
    ASSUME Unshared
    PROVE  Spec => []AtMostOnce
<1>1. Inv /\ Buffered => AtMostOnce
    BY BufferedWhere
<1>2. Spec => []Buffered
    BY SpecBuffered
<1> QED BY <1>1, <1>2, SpecInv, PTL

\* None is thrown away, whatever redirections, pipes and forks fail.
THEOREM NothingLostCorrect ==
    ASSUME Unshared, Flushed
    PROVE  Spec => []NothingLost
<1>1. Inv /\ Buffered /\ Pending /\ [Next]_vars => Pending'
    BY BufferedNext
<1>2. Init => Pending
    BY BufferedInit
<1>3. Pending => NothingLost
    BY PendingKept
<1>4. Spec => []Buffered
    BY SpecBuffered
<1> QED BY <1>1, <1>2, <1>3, <1>4, SpecInv, PTL DEF Spec

\* A pipe in the middle of a pipeline finds two descriptors.
PipesFit ==
    \A p \in Procs : state[p] = "building" /\ HaveNext(p) /\ job[p].prev # None =>
        Cardinality(Free(fds[p])) >= 2

\* A redirected command finds one for each file and one more.
SavesFit ==
    \A p \in Procs : Running(p) /\ Len(frames[p]) < MaxFrames =>
        \A r \in Redirections : Cardinality(Free(fds[p])) > Needed(r)

NoFailure == "fail" \notin Habits

-----------------------------------------------------------------------------
(* The ends of pipes a process made.                                       *)

\* Every pipe was made by a process there is; a process has none of its own but
\* the read end it keeps.
Forks(p) == \A x \in FD : fds[p][x].by # 0 =>
                fds[p][x].by \in Procs /\ state[fds[p][x].by] # "none"
Owns(p) ==
    state[p] \in Active \cup {"child"} =>
        \A x \in FD : fds[p][x].by = p =>
            state[p] \in {"building", "reading"} /\ x = job[p].prev

PipesOwned == \A p \in Procs : Forks(p) /\ Owns(p)

\* Every descriptor of e is none of a pipe, or what d has somewhere; of a pipe
\* of p, too; none is of a pipe of p, or only the one that is kept.
From(e, d)        == \A x \in FD : e[x].by = 0 \/ \E y \in FD : e[x] = d[y]
FromOr(e, d, p)   == \A x \in FD : e[x].by \in {0, p} \/ \E y \in FD : e[x] = d[y]
NoneOf(e, p)      == \A x \in FD : e[x].by # p
OneOf(e, p, s, r) == \A x \in FD : e[x].by = p => s \in {"building", "reading"} /\ x = r

\* A step of one process that adds no pipe.
LEMMA OwnsAlone ==
    ASSUME Inv, PipesOwned, NEW p \in Procs, NEW d, NEW s, NEW j,
           fds' = [fds EXCEPT ![p] = d], state' = [state EXCEPT ![p] = s],
           job' = [job EXCEPT ![p] = j], state[p] # "none", s # "none",
           From(d, fds[p]), s \in Active \cup {"child"} => OneOf(d, p, s, j.prev)
    PROVE  PipesOwned'
<1>1. /\ fds \in [Procs -> Descriptors] /\ state \in [Procs -> States] /\ job \in [Procs -> Jobs]
    BY DEF Inv, Shapes
<1>2. /\ fds'[p] = d /\ state'[p] = s /\ job'[p] = j
      /\ \A q \in Procs \ {p} : fds'[q] = fds[q] /\ state'[q] = state[q] /\ job'[q] = job[q]
    BY <1>1
<1>3. \A q \in Procs : state[q] # "none" => state'[q] # "none"
    BY <1>2
<1>4. ASSUME NEW q \in Procs PROVE Forks(q)' /\ Owns(q)'
  <2>1. CASE q # p
      BY <1>2, <1>3, <2>1 DEF PipesOwned, Forks, Owns
  <2>2. CASE q = p
    <3>1. Forks(p)'
        BY <1>2, <1>3 DEF PipesOwned, Forks, From
    <3>2. Owns(p)'
        BY <1>2 DEF Owns, OneOf
    <3> QED BY <2>2, <3>1, <3>2
  <2> QED BY <2>1, <2>2
<1> QED BY <1>4 DEF PipesOwned

\* A fork: the child has a pipe of the process that forks it, or what that had.
LEMMA OwnsChild ==
    ASSUME Inv, PipesOwned, NEW p \in Procs, NEW q \in Procs, NEW s, NEW c,
           NEW its, NEW kept, NEW j, NEW k,
           Child(p, q, <<s, c>>, its, kept), state[p] # "none", s # "none", c # "none",
           job' = [job EXCEPT ![p] = j, ![q] = k],
           FromOr(kept, fds[p], p), FromOr(its, fds[p], p), OneOf(kept, p, s, j.prev)
    PROVE  PipesOwned'
<1>1. /\ fds \in [Procs -> Descriptors] /\ state \in [Procs -> States] /\ job \in [Procs -> Jobs]
      /\ Procs \subseteq Int
    BY StdStreamsAssumption DEF Inv, Shapes, Procs
<1>2. q # p /\ state[q] = "none" /\ q # 0
    BY ChildIsNew, StdStreamsAssumption DEF Child, Procs
<1>3. /\ fds'[p] = kept /\ state'[p] = s /\ fds'[q] = its /\ state'[q] = c
      /\ job'[p] = j
      /\ \A o \in Procs \ {p, q} : fds'[o] = fds[o] /\ state'[o] = state[o] /\ job'[o] = job[o]
    BY <1>1, <1>2 DEF Child
<1>4. \A o \in Procs : state[o] # "none" => state'[o] # "none"
    BY <1>2, <1>3
<1>5. ASSUME NEW o \in Procs PROVE Forks(o)' /\ Owns(o)'
  <2>1. CASE o \in Procs \ {p, q}
    <3>1. fds'[o] = fds[o] /\ state'[o] = state[o] /\ job'[o] = job[o]
        BY <1>3, <2>1
    <3>2. Forks(o) /\ Owns(o)
        BY DEF PipesOwned
    <3>3. Forks(o)'
        BY <1>4, <3>1, <3>2 DEF Forks
    <3>4. Owns(o)'
        BY <3>1, <3>2 DEF Owns
    <3> QED BY <3>3, <3>4
  <2>2. CASE o = p
    <3>1. Forks(p)'
        BY <1>3, <1>4 DEF PipesOwned, Forks, FromOr
    <3>2. Owns(p)'
        BY <1>3 DEF Owns, OneOf
    <3> QED BY <2>2, <3>1, <3>2
  <2>3. CASE o = q
    <3>1. Forks(q)'
        BY <1>3, <1>4 DEF PipesOwned, Forks, FromOr
    <3>2. ASSUME NEW x \in FD PROVE its[x].by # q
        BY <1>2 DEF PipesOwned, Forks, FromOr
    <3>3. Owns(q)'
        BY <1>3, <3>2 DEF Owns
    <3> QED BY <2>3, <3>1, <3>3
  <2> QED BY <2>1, <2>2, <2>3
<1> QED BY <1>5 DEF PipesOwned

\* What redirections leave is a file or what there was.
LEMMA AppliedFrom ==
    ASSUME NEW d, NEW acc, Applied(acc, d)
    PROVE  From(acc.fds, d)
<1>1. Std("file").by = 0
    BY DEF Std
<1>2. ASSUME NEW x \in FD PROVE acc.fds[x].by = 0 \/ \E y \in FD : acc.fds[x] = d[y]
  <2>1. acc.fds[x] = Std("file") \/ \E y \in FD : acc.fds[x] = d[y]
      BY DEF Applied
  <2> QED BY <1>1, <2>1
<1> QED BY <1>2 DEF From

\* What redirect_restore leaves was there before.
LEMMA RestoredFrom ==
    ASSUME NEW d, NEW save \in Saves
    PROVE  From(redirect_restore(d, save), d)
<1> DEFINE e == redirect_restore(d, save)
<1>1. Closed.by = 0
    BY DEF Closed, Std
<1>2. ASSUME NEW x \in FD PROVE e[x].by = 0 \/ \E y \in FD : e[x] = d[y]
  <2>1. CASE x \in 0..2 /\ save[x] # None
    <3>1. e[x] = d[save[x]] /\ save[x] \in FD
        BY <2>1 DEF redirect_restore, Saves
    <3> QED BY <3>1
  <2>2. CASE ~(x \in 0..2 /\ save[x] # None)
    <3>1. e[x] = Closed \/ e[x] = d[x]
        BY <2>2 DEF redirect_restore
    <3> QED BY <1>1, <3>1
  <2> QED BY <2>1, <2>2
<1> QED BY <1>2 DEF From

\* The processes that neither build nor read have no pipe of their own.
LEMMA NoneOwned ==
    ASSUME PipesOwned, NEW p \in Procs, state[p] \in {"running", "waiting", "child"}
    PROVE  NoneOf(fds[p], p)
BY DEF PipesOwned, Owns, Active, NoneOf

\* Moving descriptors about makes none of a pipe.
LEMMA OwnedFrom ==
    ASSUME NEW p \in Procs, NEW d, NEW e, NoneOf(d, p), From(e, d)
    PROVE  NoneOf(e, p)
BY StdStreamsAssumption DEF Procs, NoneOf, From

\* A process with no pipe of its own has at most one end.
LEMMA NoneIsOne ==
    ASSUME NEW p, NEW e, NoneOf(e, p)
    PROVE  \A s, r : OneOf(e, p, s, r)
BY DEF NoneOf, OneOf

\* Every step keeps PipesOwned.
LEMMA OwnedNext ==
    ASSUME NoFailure, PipesFit, Inv, PipesOwned, Next
    PROVE  PipesOwned'
<1>0. PICK p \in Procs :
            \/ PrintLine(p) \/ End(p) \/ PipeFails(p) \/ ForkFails(p) \/ Waited(p)
            \/ ExternalExits(p) \/ Exit(p) \/ Exec(p) \/ Substituted(p)
            \/ \E r \in Redirections : Begin(p, r)
            \/ \E n \in 1..MaxStages : StartPipeline(p, n)
            \/ \E q \in Procs : Stage(p, q) \/ Substitute(p, q)
            \/ \E r \in Redirections : ChildFails(p, r) \/ ChildExecs(p, r) \/ ChildRuns(p, r)
    BY DEF Next
<1>1. /\ Shapes /\ Fit(p) /\ fds[p] \in Descriptors /\ frames[p] \in Seq(Saves)
      /\ fds = [fds EXCEPT ![p] = fds[p]] /\ state = [state EXCEPT ![p] = state[p]]
      /\ job = [job EXCEPT ![p] = job[p]]
      /\ From(fds[p], fds[p])
    BY DEF Inv, Shapes, From
<1>2. Closed.by = 0 /\ None \notin FD /\ \A n \in Procs : ReadEnd(p, n).by = p /\ WriteEnd(p, n).by = p
    BY Standard DEF Closed, Std, ReadEnd, WriteEnd
<1>3. Live(p) => Sound(fds[p], frames[p], job[p].prev) /\ Open(fds[p])
    BY <1>1 DEF Fit, Sound
<1>4. CASE PrintLine(p)
  <2>1. state[p] = "running" /\ UNCHANGED <<fds, state, job>>
      BY <1>4 DEF PrintLine, Running
  <2> QED BY <1>1, <2>1, OwnsAlone, NoneOwned, NoneIsOne
<1>5. CASE End(p)
  <2> DEFINE e == redirect_restore(fds[p], Last(frames[p]))
  <2>1. /\ state[p] = "running" /\ fds' = [fds EXCEPT ![p] = e] /\ UNCHANGED <<state, job>>
      BY <1>5 DEF End, Running
  <2>2. Last(frames[p]) \in Saves
      BY <1>1, <1>5 DEF End, Last
  <2>3. From(e, fds[p])
      BY <2>2, RestoredFrom
  <2> HIDE DEF e
  <2>4. NoneOf(e, p)
      BY <2>1, <2>3, NoneOwned, OwnedFrom
  <2> QED BY <1>1, <2>1, <2>3, <2>4, NoneIsOne, OwnsAlone
<1>6. CASE \E r \in Redirections : Begin(p, r)
  <2>0. PICK r \in Redirections : Begin(p, r)
      BY <1>6
  <2> DEFINE acc == apply_redirection_with_restore(fds[p], r)
             e == acc.fds
  <2>1. /\ state[p] = "running" /\ fds' = [fds EXCEPT ![p] = e] /\ UNCHANGED <<state, job>>
      BY <2>0 DEF Begin, Running
  <2>2. Applied(acc, fds[p])
      BY <1>1, <1>3, <2>1, RedirectionsApply DEF Live
  <2>3. From(e, fds[p])
      BY <2>2, AppliedFrom
  <2> HIDE DEF e
  <2>4. NoneOf(e, p)
      BY <2>1, <2>3, NoneOwned, OwnedFrom
  <2> QED BY <1>1, <2>1, <2>3, <2>4, NoneIsOne, OwnsAlone
\* With descriptors for a pipe only the first one fails, when none is kept.
<1>7. CASE PipeFails(p)
  <2>1. /\ state[p] = "building" /\ HaveNext(p) /\ fds' = [fds EXCEPT ![p] = fds[p]]
        /\ state' = [state EXCEPT ![p] = "running"] /\ job' = [job EXCEPT ![p] = NoJob]
        /\ Cardinality(Free(fds[p])) < 2
      BY <1>7 DEF PipeFails, Abort, NoFailure
  <2>2. job[p].prev = None
    <3>1. Cardinality(Free(fds[p])) \in Nat
        BY FreeFinite
    <3> QED BY <2>1, <3>1 DEF PipesFit
  <2>3. NoneOf(fds[p], p)
      BY <1>2, <2>1, <2>2 DEF PipesOwned, Owns, Active, NoneOf
  <2> QED BY <1>1, <2>1, <2>3, NoneIsOne, OwnsAlone
<1>8. CASE ForkFails(p)
    BY <1>8 DEF ForkFails, NoFailure
<1>9. CASE Waited(p)
  <2>1. /\ state[p] = "waiting" /\ fds' = [fds EXCEPT ![p] = fds[p]]
        /\ state' = [state EXCEPT ![p] = "running"] /\ job' = [job EXCEPT ![p] = NoJob]
      BY <1>1, <1>9 DEF Waited
  <2> QED BY <1>1, <2>1, NoneOwned, NoneIsOne, OwnsAlone
<1>10. CASE ExternalExits(p) \/ Exit(p) \/ \E r \in Redirections : ChildFails(p, r)
  <2>1. /\ state[p] # "none" /\ Gone(p)
      BY <1>10 DEF ExternalExits, Exit, ChildFails, Running
  <2>2. /\ fds' = [fds EXCEPT ![p] = NothingOpen] /\ state' = [state EXCEPT ![p] = "dead"]
        /\ job' = [job EXCEPT ![p] = job[p]]
      BY <1>1, <2>1 DEF Gone, NothingOpen
  <2>3. From(NothingOpen, fds[p])
      BY <1>2 DEF NothingOpen, From
  <2> QED BY <2>1, <2>2, <2>3, OwnsAlone DEF Active
<1>11. CASE Exec(p)
  <2>1. /\ state[p] # "none" /\ fds' = [fds EXCEPT ![p] = fds[p]]
        /\ state' = [state EXCEPT ![p] = "external"] /\ job' = [job EXCEPT ![p] = job[p]]
      BY <1>1, <1>11 DEF Exec, Running
  <2> QED BY <1>1, <2>1, OwnsAlone DEF Active
<1>12. CASE Substituted(p)
  <2> DEFINE d == [fds[p] EXCEPT ![job[p].prev] = Closed]
  <2>1. /\ state[p] = "reading" /\ fds' = [fds EXCEPT ![p] = d]
        /\ state' = [state EXCEPT ![p] = "running"] /\ job' = [job EXCEPT ![p] = NoJob]
      BY <1>1, <1>12 DEF Substituted, Shapes
  <2>2. \A x \in FD : d[x] = IF x = job[p].prev THEN Closed ELSE fds[p][x]
      BY <1>1 DEF Descriptors
  <2> HIDE DEF d
  <2>3. From(d, fds[p])
      BY <1>2, <2>2 DEF From
  <2>4. NoneOf(d, p)
    <3>1. ASSUME NEW x \in FD PROVE d[x].by # p
      <4>1. CASE x = job[p].prev
          BY <4>1, <1>2, <2>2, StdStreamsAssumption DEF Procs
      <4>2. CASE x # job[p].prev
          BY <4>2, <2>1, <2>2 DEF PipesOwned, Owns, Active
      <4> QED BY <4>1, <4>2
    <3> QED BY <3>1 DEF NoneOf
  <2> QED BY <2>1, <2>3, <2>4, NoneIsOne, OwnsAlone
<1>13. CASE \E n \in 1..MaxStages : StartPipeline(p, n)
  <2>1. PICK n \in 1..MaxStages : StartPipeline(p, n)
      BY <1>13
  <2>2. /\ state[p] = "running" /\ fds' = [fds EXCEPT ![p] = fds[p]]
        /\ state' = [state EXCEPT ![p] = "building"]
        /\ job' = [job EXCEPT ![p] = [left |-> n, prev |-> None, kids |-> {}]]
      BY <1>1, <2>1 DEF StartPipeline, Running
  <2> QED BY <1>1, <2>2, NoneOwned, NoneIsOne, OwnsAlone
<1>14. ASSUME NEW q \in Procs, Stage(p, q) PROVE PipesOwned'
  <2> DEFINE n == IF HaveNext(p) THEN PipeEnds(p)[1] ELSE None
             j == [left |-> job[p].left - 1, prev |-> n, kids |-> job[p].kids \cup {q}]
             k == [NoJob EXCEPT !.left = job[p].left + Cardinality(job[p].kids)]
             kept == KeptFds(p)
             its == StageFds(p)
             prev == job[p].prev
  <2>1. PICK s \in AfterFork(p) : Child(p, q, <<s, "child">>, its, kept)
      BY <1>14 DEF Stage
  <2>2. CanFork(p) /\ state[p] = "building" /\ Forked \in Procs /\ q # p
    <3>1. CanFork(p) /\ state[p] = "building" /\ Forked \in Procs
        BY <1>14, ForkedIs DEF Stage, CanFork, Inv
    <3> QED BY <2>1, <3>1, ChildIsNew DEF Child
  <2>3. job' = [job EXCEPT ![p] = j, ![q] = k]
      BY <1>1, <1>14, <2>2 DEF Stage, Shapes
  <2>4. Sound(fds[p], frames[p], prev) /\ prev \in FD \cup {None}
      BY <1>1, <1>3, <2>2, JobIs DEF Live
  <2>5. \A x \in FD : kept[x] =
                 IF HaveNext(p) /\ x = PipeEnds(p)[1] THEN ReadEnd(p, Forked)
                 ELSE IF x = prev THEN Closed ELSE fds[p][x]
      BY <1>1, <2>2, <2>4, KeptIs
  <2>6. \A x \in FD : its[x] =
                 IF HaveNext(p) /\ x = 1 THEN WriteEnd(p, Forked)
                 ELSE IF prev # None /\ x = 0 THEN fds[p][prev]
                 ELSE IF x = prev THEN Closed ELSE fds[p][x]
      BY <1>1, <2>2, <2>4, StageIs
  <2>7. j.prev = n /\ s # "none" /\ (HaveNext(p) => s = "building")
      BY <2>1 DEF AfterFork
  <2>8. \A x \in FD : fds[p][x].by = p => x = prev
      BY <2>2 DEF PipesOwned, Owns, Active
  <2> HIDE DEF kept, its, j, k, prev
  <2>9. FromOr(kept, fds[p], p)
      BY <1>2, <2>2, <2>5 DEF FromOr
  <2>10. FromOr(its, fds[p], p)
      BY <1>2, <2>2, <2>4, <2>6 DEF FromOr
  <2>11. ASSUME NEW x \in FD, kept[x].by = p
         PROVE  s \in {"building", "reading"} /\ x = j.prev
    <3>1. CASE HaveNext(p) /\ x = PipeEnds(p)[1]
        BY <3>1, <2>7
    <3>2. CASE ~(HaveNext(p) /\ x = PipeEnds(p)[1])
      <4>1. kept[x] = IF x = prev THEN Closed ELSE fds[p][x]
          BY <2>5, <3>2
      <4>2. CASE x = prev
          BY <4>1, <4>2, <1>2, <2>11, StdStreamsAssumption DEF Procs
      <4>3. CASE x # prev
          BY <4>1, <4>3, <2>8, <2>11
      <4> QED BY <4>2, <4>3
    <3> QED BY <3>1, <3>2
  <2>12. OneOf(kept, p, s, j.prev)
      BY <2>11 DEF OneOf
  <2> QED BY <2>1, <2>2, <2>3, <2>7, <2>9, <2>10, <2>12, OwnsChild
<1>15. ASSUME NEW q \in Procs, Substitute(p, q) PROVE PipesOwned'
  <2> DEFINE r == PipeEnds(p)[1]
             its == [fds[p] EXCEPT ![1] = WriteEnd(p, Forked)]
             kept == [fds[p] EXCEPT ![r] = ReadEnd(p, Forked)]
             j == [left |-> 0, prev |-> r, kids |-> {q}]
  <2>1. /\ state[p] = "running" /\ Child(p, q, <<"reading", "running">>, its, kept)
        /\ job' = [job EXCEPT ![p] = j]
      BY <1>15 DEF Substitute, Running
  <2>2. q # p /\ Forked \in Procs
      BY <2>1, ChildIsNew, ForkedIs DEF Child, Inv
  <2>3. job' = [job EXCEPT ![p] = j, ![q] = job[q]]
      BY <1>1, <2>1, <2>2 DEF Shapes
  <2>4. /\ \A x \in FD : kept[x] = IF x = r THEN ReadEnd(p, Forked) ELSE fds[p][x]
        /\ \A x \in FD : its[x] = IF x = 1 THEN WriteEnd(p, Forked) ELSE fds[p][x]
      BY <1>1 DEF Descriptors
  <2>5. j.prev = r
      OBVIOUS
  <2>6. NoneOf(fds[p], p)
      BY <2>1, NoneOwned
  <2> HIDE DEF kept, its, j, r
  <2>7. FromOr(kept, fds[p], p) /\ FromOr(its, fds[p], p)
      BY <1>2, <2>2, <2>4 DEF FromOr
  <2>8. OneOf(kept, p, "reading", j.prev)
      BY <2>4, <2>5, <2>6 DEF OneOf, NoneOf
  <2> QED BY <2>1, <2>3, <2>7, <2>8, OwnsChild
<1>16. CASE \E r \in Redirections : ChildExecs(p, r) \/ ChildRuns(p, r)
  <2>1. PICK r \in Redirections : ChildExecs(p, r) \/ ChildRuns(p, r)
      BY <1>16
  <2> DEFINE acc == apply_redirection(fds[p], r)
             e == acc.fds
  <2>2. /\ state[p] = "child" /\ fds' = [fds EXCEPT ![p] = e]
        /\ \E s \in {"external", "running"} : state' = [state EXCEPT ![p] = s]
        /\ \E j \in {job[p], NoJob} : job' = [job EXCEPT ![p] = j]
    <3>1. CASE ChildExecs(p, r)
        BY <1>1, <3>1 DEF ChildExecs
    <3>2. CASE ChildRuns(p, r)
        BY <3>2 DEF ChildRuns
    <3> QED BY <2>1, <3>1, <3>2
  <2>3. Applied(acc, fds[p])
      BY <1>1, <1>3, <2>2, RedirectionsApply DEF Live
  <2>4. From(e, fds[p])
      BY <2>3, AppliedFrom
  <2> HIDE DEF e
  <2>5. NoneOf(e, p)
      BY <2>2, <2>4, NoneOwned, OwnedFrom
  <2> QED BY <2>2, <2>4, <2>5, NoneIsOne, OwnsAlone
<1> QED BY <1>0, <1>4, <1>5, <1>6, <1>7, <1>8, <1>9, <1>10, <1>11, <1>12, <1>13, <1>14, <1>15, <1>16

\* At first there is no pipe.
LEMMA OwnedInit == Init => PipesOwned
<1> SUFFICES ASSUME Init PROVE PipesOwned
    OBVIOUS
<1>1. ASSUME NEW p \in Procs, NEW x \in FD PROVE fds[p][x].by = 0
    BY DEF Init, Closed, Std
<1>2. \A p \in Procs : p # 0
    BY StdStreamsAssumption DEF Procs
<1> QED BY <1>1, <1>2 DEF PipesOwned, Forks, Owns

\* No process that waits for a pipeline or reads a substitution keeps a stage
\* or a subshell from its end: with descriptors for the pipes, and forks that
\* succeed, it has closed what it made but the read end.
THEOREM OwnPipesClosedCorrect ==
    ASSUME NoFailure
    PROVE  Spec /\ []PipesFit => []OwnPipesClosed
<1>1. Inv /\ PipesOwned /\ PipesFit /\ [Next]_vars => PipesOwned'
  <2>1. Inv /\ PipesOwned /\ PipesFit /\ Next => PipesOwned'
      BY OwnedNext
  <2>2. PipesOwned /\ UNCHANGED vars => PipesOwned'
      BY DEF PipesOwned, Forks, Owns, vars
  <2> QED BY <2>1, <2>2
<1>2. PipesOwned => OwnPipesClosed
    BY DEF PipesOwned, Owns, OwnPipesClosed, Active
<1> QED BY <1>1, <1>2, OwnedInit, SpecInv, PTL DEF Spec

\* `0>&M` is not kept for the end of the command.
NoInputDup == \A r \in Redirections : r.dup # << >> => r.dup[1] # 0

-----------------------------------------------------------------------------
(* The descriptors a process began with.                                   *)

\* The restores that are due, the last command's first, lead from d to h.
Unwinds(h, fs, d) ==
    \E base \in [0..Len(fs) -> Descriptors] :
        /\ base[0] = h /\ base[Len(fs)] = d
        /\ \A i \in 1..Len(fs) : redirect_restore(base[i], fs[i]) = base[i - 1]

\* Without the read end that is kept for the next stage or for `$(`.
Settled(d, prev) == [x \in FD |-> IF x = prev THEN Closed ELSE d[x]]

Homes ==
    \A p \in Procs :
        /\ state[p] \in Active => Unwinds(home[p], frames[p], Settled(fds[p], job[p].prev))
        /\ state[p] = "waiting" => job[p].prev = None

\* What a process becomes in a step of its own, and that it fits.
Becomes(p, d, fs, s, j, h) ==
    /\ fds' = [fds EXCEPT ![p] = d] /\ frames' = [frames EXCEPT ![p] = fs]
    /\ state' = [state EXCEPT ![p] = s] /\ job' = [job EXCEPT ![p] = j]
    /\ home' = [home EXCEPT ![p] = h]

Due(d, fs, s, j, h) ==
    /\ s \in Active => Unwinds(h, fs, Settled(d, j.prev))
    /\ s = "waiting" => j.prev = None

\* Nothing is kept outside pipelines.
LEMMA SettledIs ==
    ASSUME NEW d \in Descriptors
    PROVE  Settled(d, None) = d
<1>1. \A x \in FD : x # None
    BY Standard
<1>2. d = [x \in FD |-> d[x]]
    BY DEF Descriptors
<1> QED BY <1>1, <1>2 DEF Settled

\* Without frames a process has what it began with.
LEMMA NothingDue ==
    ASSUME NEW d \in Descriptors, NEW h
    PROVE  Unwinds(h, << >>, d) <=> h = d
<1>1. Len(<< >>) = 0
    OBVIOUS
<1>2. ASSUME h = d PROVE Unwinds(h, << >>, d)
  <2> DEFINE base == [i \in 0..0 |-> d]
  <2>1. base \in [0..0 -> Descriptors] /\ base[0] = d
      OBVIOUS
  <2> HIDE DEF base
  <2> QED BY <1>1, <1>2, <2>1 DEF Unwinds
<1>3. ASSUME Unwinds(h, << >>, d) PROVE h = d
    BY <1>1, <1>3 DEF Unwinds
<1> QED BY <1>2, <1>3

\* One more command, which can be undone.
LEMMA OneMoreDue ==
    ASSUME NEW h, NEW fs \in Seq(Saves), NEW d \in Descriptors, Unwinds(h, fs, d),
           NEW e \in Descriptors, NEW save \in Saves, redirect_restore(e, save) = d
    PROVE  Unwinds(h, Append(fs, save), e)
<1> DEFINE n == Len(fs)
           fs2 == Append(fs, save)
<1>1. /\ n \in Nat /\ Len(fs2) = n + 1 /\ fs2[n + 1] = save
      /\ \A i \in 1..n : fs2[i] = fs[i]
    OBVIOUS
<1>2. PICK base \in [0..n -> Descriptors] :
         /\ base[0] = h /\ base[n] = d
         /\ \A i \in 1..n : redirect_restore(base[i], fs[i]) = base[i - 1]
    BY DEF Unwinds
<1> DEFINE more == [i \in 0..n + 1 |-> IF i = n + 1 THEN e ELSE base[i]]
<1> HIDE DEF n, fs2
<1>3. /\ \A i \in 0..n : i \in 0..n + 1 /\ i # n + 1
      /\ n + 1 \in 0..n + 1 /\ 0 \in 0..n /\ n \in 0..n
      /\ \A i \in 0..n + 1 : i # n + 1 => i \in 0..n
    BY <1>1
<1>4. more \in [0..n + 1 -> Descriptors] /\ more[n + 1] = e /\ \A i \in 0..n : more[i] = base[i]
    BY <1>2, <1>3
<1> HIDE DEF more
<1>5. ASSUME NEW i \in 1..n + 1 PROVE redirect_restore(more[i], fs2[i]) = more[i - 1]
  <2>1. CASE i = n + 1
    <3>1. i - 1 = n
        BY <1>1, <2>1
    <3>2. more[i - 1] = d
        BY <1>2, <1>3, <1>4, <3>1
    <3> QED BY <1>1, <1>4, <2>1, <3>2
  <2>2. CASE i \in 1..n
    <3>1. i \in 0..n /\ i - 1 \in 0..n
        BY <1>1, <2>2
    <3>2. more[i] = base[i] /\ more[i - 1] = base[i - 1] /\ fs2[i] = fs[i]
        BY <1>1, <1>4, <2>2, <3>1
    <3> QED BY <1>2, <2>2, <3>2
  <2>3. i = n + 1 \/ i \in 1..n
      BY <1>1
  <2> QED BY <2>1, <2>2, <2>3
<1>6. more[0] = h
    BY <1>2, <1>3, <1>4
<1>7. Unwinds(h, fs2, e)
    BY <1>1, <1>4, <1>5, <1>6 DEF Unwinds
<1> QED BY <1>7 DEF fs2

\* And what the end of a command leaves to do.
LEMMA OneLessDue ==
    ASSUME NEW h, NEW fs \in Seq(Saves), fs # << >>, NEW d, Unwinds(h, fs, d)
    PROVE  Unwinds(h, Front(fs), redirect_restore(d, Last(fs)))
<1> DEFINE n == Len(fs)
           fs2 == Front(fs)
           save == Last(fs)
<1>1. n \in Nat \ {0} /\ save = fs[n]
    BY DEF Last
<1>2. Len(fs2) = n - 1 /\ \A i \in 1..n - 1 : fs2[i] = fs[i]
  <2>1. /\ DOMAIN fs2 = 1..n - 1 /\ fs2 \in Seq(Saves)
        /\ \A i \in 1..n - 1 : fs2[i] = fs[i]
      BY <1>1 DEF Front
  <2> HIDE DEF n, fs2
  <2> QED BY <1>1, <2>1
<1>3. PICK base \in [0..n -> Descriptors] :
         /\ base[0] = h /\ base[n] = d
         /\ \A i \in 1..n : redirect_restore(base[i], fs[i]) = base[i - 1]
    BY DEF Unwinds
<1> DEFINE less == [i \in 0..n - 1 |-> base[i]]
<1> HIDE DEF n, fs2, save
<1>4. /\ \A i \in 0..n - 1 : i \in 0..n
      /\ \A i \in 1..n - 1 : i \in 1..n /\ i \in 0..n - 1 /\ i - 1 \in 0..n - 1
      /\ n \in 1..n /\ 0 \in 0..n - 1 /\ n - 1 \in 0..n - 1
    BY <1>1
<1>5. less \in [0..n - 1 -> Descriptors] /\ \A i \in 0..n - 1 : less[i] = base[i]
    BY <1>3, <1>4
<1> HIDE DEF less
<1>6. less[0] = h /\ less[n - 1] = redirect_restore(d, save)
    BY <1>1, <1>3, <1>4, <1>5
<1>7. ASSUME NEW i \in 1..n - 1 PROVE redirect_restore(less[i], fs2[i]) = less[i - 1]
  <2>1. i \in 1..n /\ i \in 0..n - 1 /\ i - 1 \in 0..n - 1
      BY <1>4
  <2>2. less[i] = base[i] /\ less[i - 1] = base[i - 1] /\ fs2[i] = fs[i]
      BY <1>2, <1>5, <2>1
  <2> QED BY <1>3, <2>1, <2>2
<1>8. Unwinds(h, fs2, redirect_restore(d, save))
    BY <1>2, <1>5, <1>6, <1>7 DEF Unwinds
<1> QED BY <1>8 DEF fs2, save

-----------------------------------------------------------------------------
\* A step of one process that forks none.
LEMMA HomesAlone ==
    ASSUME Inv, Homes, NEW p \in Procs, NEW d, NEW fs, NEW s, NEW j, NEW h,
           Becomes(p, d, fs, s, j, h), Due(d, fs, s, j, h)
    PROVE  Homes'
<1>1. /\ fds \in [Procs -> Descriptors] /\ home \in [Procs -> Descriptors]
      /\ frames \in [Procs -> Seq(Saves)] /\ state \in [Procs -> States] /\ job \in [Procs -> Jobs]
    BY DEF Inv, Shapes
<1>2. /\ fds'[p] = d /\ frames'[p] = fs /\ state'[p] = s /\ job'[p] = j /\ home'[p] = h
      /\ \A q \in Procs \ {p} : /\ fds'[q] = fds[q] /\ frames'[q] = frames[q]
                                /\ state'[q] = state[q] /\ job'[q] = job[q] /\ home'[q] = home[q]
    BY <1>1 DEF Becomes
<1>3. ASSUME NEW q \in Procs
      PROVE  /\ state'[q] \in Active =>
                    Unwinds(home'[q], frames'[q], Settled(fds'[q], job'[q].prev))
             /\ state'[q] = "waiting" => job'[q].prev = None
  <2>1. CASE q = p
      BY <1>2, <2>1 DEF Due
  <2>2. CASE q \in Procs \ {p}
      BY <1>2, <2>2 DEF Homes
  <2> QED BY <2>1, <2>2
<1> QED BY <1>3 DEF Homes

\* A fork: the child begins with what it is given.
LEMMA HomesChild ==
    ASSUME Inv, Homes, NEW p \in Procs, NEW q \in Procs, NEW s, NEW c,
           NEW its \in Descriptors, NEW kept, NEW j, NEW k,
           Child(p, q, <<s, c>>, its, kept), state[p] \in Active,
           job' = [job EXCEPT ![p] = j, ![q] = k],
           Settled(kept, j.prev) = Settled(fds[p], job[p].prev),
           s = "waiting" => j.prev = None, c # "waiting", c \in Active => k.prev = None
    PROVE  Homes'
<1>1. /\ fds \in [Procs -> Descriptors] /\ home \in [Procs -> Descriptors]
      /\ frames \in [Procs -> Seq(Saves)] /\ state \in [Procs -> States] /\ job \in [Procs -> Jobs]
    BY DEF Inv, Shapes
<1>2. q # p /\ state[q] = "none" /\ frames[q] = << >>
  <2>1. q # p /\ state[q] = "none"
      BY ChildIsNew DEF Child, Active
  <2> QED BY <2>1 DEF Inv, Fit
<1>3. /\ fds'[p] = kept /\ frames'[p] = frames[p] /\ state'[p] = s /\ job'[p] = j
      /\ home'[p] = home[p]
      /\ fds'[q] = its /\ frames'[q] = << >> /\ state'[q] = c /\ job'[q] = k /\ home'[q] = its
      /\ \A o \in Procs \ {p, q} : /\ fds'[o] = fds[o] /\ frames'[o] = frames[o]
                                   /\ state'[o] = state[o] /\ job'[o] = job[o] /\ home'[o] = home[o]
    BY <1>1, <1>2 DEF Child
<1>4. ASSUME NEW o \in Procs
      PROVE  /\ state'[o] \in Active =>
                    Unwinds(home'[o], frames'[o], Settled(fds'[o], job'[o].prev))
             /\ state'[o] = "waiting" => job'[o].prev = None
  <2>1. CASE o = p
      BY <1>3, <2>1 DEF Homes
  <2>2. CASE o = q
    <3>1. c \in Active => Unwinds(its, << >>, Settled(its, k.prev))
        BY SettledIs, NothingDue
    <3> QED BY <1>3, <2>2, <3>1
  <2>3. CASE o \in Procs \ {p, q}
      BY <1>3, <2>3 DEF Homes
  <2> QED BY <2>1, <2>2, <2>3
<1> QED BY <1>4 DEF Homes

\* Every step keeps the way back.
LEMMA HomesNext ==
    ASSUME NoFailure, NoInputDup, PipesFit, SavesFit, Inv, Homes, Next
    PROVE  Homes'
<1>0. PICK p \in Procs :
            \/ PrintLine(p) \/ End(p) \/ PipeFails(p) \/ ForkFails(p) \/ Waited(p)
            \/ ExternalExits(p) \/ Exit(p) \/ Exec(p) \/ Substituted(p)
            \/ \E r \in Redirections : Begin(p, r)
            \/ \E n \in 1..MaxStages : StartPipeline(p, n)
            \/ \E q \in Procs : Stage(p, q) \/ Substitute(p, q)
            \/ \E r \in Redirections : ChildFails(p, r) \/ ChildExecs(p, r) \/ ChildRuns(p, r)
    BY DEF Next
<1>1. /\ Shapes /\ Fit(p) /\ fds[p] \in Descriptors /\ frames[p] \in Seq(Saves)
      /\ job[p].prev \in FD \cup {None}
    BY JobIs DEF Inv
<1>2. /\ fds = [fds EXCEPT ![p] = fds[p]] /\ state = [state EXCEPT ![p] = state[p]]
      /\ job = [job EXCEPT ![p] = job[p]] /\ frames = [frames EXCEPT ![p] = frames[p]]
      /\ home = [home EXCEPT ![p] = home[p]]
    BY <1>1 DEF Shapes
<1>3. Live(p) => Sound(fds[p], frames[p], job[p].prev) /\ Open(fds[p])
    BY <1>1 DEF Fit, Sound
<1>4. state[p] \in {"running", "waiting"} =>
          /\ job[p].prev = None /\ Settled(fds[p], None) = fds[p]
          /\ Unwinds(home[p], frames[p], fds[p])
    BY <1>1, SettledIs DEF Fit, Homes, Active
<1>5. NoJob.prev = None
    BY NoJobIs
<1>6. CASE PrintLine(p)
  <2>1. state[p] = "running" /\ UNCHANGED <<fds, frames, state, job, home>>
      BY <1>6 DEF PrintLine, Running
  <2>b. Becomes(p, fds[p], frames[p], state[p], job[p], home[p])
      BY <1>2, <2>1 DEF Becomes
  <2>d. Due(fds[p], frames[p], state[p], job[p], home[p])
      BY <1>4, <2>1 DEF Due
  <2> QED BY <2>b, <2>d, HomesAlone
<1>7. CASE End(p)
  <2> DEFINE fs == Front(frames[p])
             e == redirect_restore(fds[p], Last(frames[p]))
  <2>1. /\ state[p] = "running" /\ frames[p] # << >>
        /\ fds' = [fds EXCEPT ![p] = e] /\ frames' = [frames EXCEPT ![p] = fs]
        /\ UNCHANGED <<state, job, home>>
      BY <1>7 DEF End, Running
  <2>2. e \in Descriptors
      BY <1>1, <1>3, <1>4, <2>1, EndSound DEF Live
  <2>3. Unwinds(home[p], fs, e)
      BY <1>1, <1>4, <2>1, OneLessDue
  <2> HIDE DEF fs, e
  <2>4. Settled(e, job[p].prev) = e
      BY <1>4, <2>1, <2>2, SettledIs
  <2>b. Becomes(p, e, fs, state[p], job[p], home[p])
      BY <1>2, <2>1 DEF Becomes
  <2>d. Due(e, fs, state[p], job[p], home[p])
      BY <2>1, <2>3, <2>4 DEF Due
  <2> QED BY <2>b, <2>d, HomesAlone
<1>8. CASE \E r \in Redirections : Begin(p, r)
  <2>0. PICK r \in Redirections : Begin(p, r)
      BY <1>8
  <2> DEFINE acc == apply_redirection_with_restore(fds[p], r)
             e == acc.fds
             fs == Append(frames[p], acc.save)
  <2>1. /\ Running(p) /\ state[p] = "running" /\ Len(frames[p]) < MaxFrames
        /\ fds' = [fds EXCEPT ![p] = e] /\ frames' = [frames EXCEPT ![p] = fs]
        /\ UNCHANGED <<state, job, home>>
      BY <2>0 DEF Begin, Running
  <2>2. Applied(acc, fds[p])
      BY <1>1, <1>3, <2>1, RedirectionsApply DEF Live
  <2>3. Cardinality(Free(fds[p])) > Needed(r) /\ (r.dup # << >> => r.dup[1] # 0)
      BY <2>1 DEF SavesFit, NoInputDup
  <2>4. Undoable(acc, fds[p])
      BY <1>1, <1>3, <2>1, <2>3, RedirectionsUndoable DEF Live
  <2>5. redirect_restore(e, acc.save) = fds[p] /\ e \in Descriptors /\ acc.save \in Saves
      BY <1>1, <2>2, <2>4, RestoreUndoes DEF Applied, Accumulators
  <2>6. Unwinds(home[p], fs, e)
      BY <1>1, <1>4, <2>1, <2>5, OneMoreDue
  <2>7. Settled(e, job[p].prev) = e
      BY <1>4, <2>1, <2>5, SettledIs
  <2> HIDE DEF acc, fs, e
  <2>b. Becomes(p, e, fs, state[p], job[p], home[p])
      BY <1>2, <2>1 DEF Becomes
  <2>d. Due(e, fs, state[p], job[p], home[p])
      BY <2>1, <2>6, <2>7 DEF Due
  <2> QED BY <2>b, <2>d, HomesAlone
\* With descriptors for a pipe only the first one fails, when none is kept.
<1>9. CASE PipeFails(p)
  <2>1. /\ state[p] = "building" /\ HaveNext(p) /\ fds' = fds
        /\ state' = [state EXCEPT ![p] = "running"] /\ job' = [job EXCEPT ![p] = NoJob]
        /\ UNCHANGED <<frames, home>> /\ Cardinality(Free(fds[p])) < 2
      BY <1>2, <1>9 DEF PipeFails, Abort, NoFailure
  <2>2. job[p].prev = None
    <3>1. Cardinality(Free(fds[p])) \in Nat
        BY FreeFinite
    <3> QED BY <2>1, <3>1 DEF PipesFit
  <2>3. Unwinds(home[p], frames[p], Settled(fds[p], NoJob.prev))
      BY <1>5, <2>1, <2>2 DEF Homes, Active
  <2>b. Becomes(p, fds[p], frames[p], "running", NoJob, home[p])
      BY <1>2, <2>1 DEF Becomes
  <2>d. Due(fds[p], frames[p], "running", NoJob, home[p])
      BY <2>3 DEF Due
  <2> QED BY <2>b, <2>d, HomesAlone
<1>10. CASE ForkFails(p)
    BY <1>10 DEF ForkFails, NoFailure
<1>11. CASE Waited(p)
  <2>1. /\ state[p] = "waiting" /\ UNCHANGED <<fds, frames, home>>
        /\ state' = [state EXCEPT ![p] = "running"] /\ job' = [job EXCEPT ![p] = NoJob]
      BY <1>11 DEF Waited
  <2>2. Unwinds(home[p], frames[p], Settled(fds[p], NoJob.prev))
      BY <1>4, <1>5, <2>1
  <2>b. Becomes(p, fds[p], frames[p], "running", NoJob, home[p])
      BY <1>2, <2>1 DEF Becomes
  <2>d. Due(fds[p], frames[p], "running", NoJob, home[p])
      BY <2>2 DEF Due
  <2> QED BY <2>b, <2>d, HomesAlone
<1>12. CASE ExternalExits(p) \/ Exit(p) \/ \E r \in Redirections : ChildFails(p, r)
  <2>1. /\ fds' = [fds EXCEPT ![p] = NothingOpen] /\ state' = [state EXCEPT ![p] = "dead"]
        /\ UNCHANGED <<frames, job, home>>
      BY <1>12 DEF ExternalExits, Exit, ChildFails, Gone, NothingOpen
  <2>b. Becomes(p, NothingOpen, frames[p], "dead", job[p], home[p])
      BY <1>2, <2>1 DEF Becomes
  <2>d. Due(NothingOpen, frames[p], "dead", job[p], home[p])
      BY DEF Due, Active
  <2> QED BY <2>b, <2>d, HomesAlone
<1>13. CASE Exec(p)
  <2>1. state' = [state EXCEPT ![p] = "external"] /\ UNCHANGED <<fds, frames, job, home>>
      BY <1>13 DEF Exec
  <2>b. Becomes(p, fds[p], frames[p], "external", job[p], home[p])
      BY <1>2, <2>1 DEF Becomes
  <2>d. Due(fds[p], frames[p], "external", job[p], home[p])
      BY DEF Due, Active
  <2> QED BY <2>b, <2>d, HomesAlone
<1>14. CASE Substituted(p)
  <2> DEFINE prev == job[p].prev
             d == [fds[p] EXCEPT ![prev] = Closed]
  <2>1. /\ state[p] = "reading" /\ fds' = [fds EXCEPT ![p] = d] /\ UNCHANGED <<frames, home>>
        /\ state' = [state EXCEPT ![p] = "running"] /\ job' = [job EXCEPT ![p] = NoJob]
      BY <1>1, <1>14 DEF Substituted, Shapes
  <2>2. d = Settled(fds[p], prev)
      BY <1>1 DEF Descriptors, Settled
  <2>3. d \in Descriptors
      BY <1>1, Standard DEF Descriptors
  <2>4. Unwinds(home[p], frames[p], d)
      BY <2>1, <2>2 DEF Homes, Active
  <2> HIDE DEF d, prev
  <2>5. Settled(d, NoJob.prev) = d
      BY <1>5, <2>3, SettledIs
  <2>b. Becomes(p, d, frames[p], "running", NoJob, home[p])
      BY <1>2, <2>1 DEF Becomes
  <2>d. Due(d, frames[p], "running", NoJob, home[p])
      BY <2>4, <2>5 DEF Due
  <2> QED BY <2>b, <2>d, HomesAlone
<1>15. CASE \E n \in 1..MaxStages : StartPipeline(p, n)
  <2>0. PICK n \in 1..MaxStages : StartPipeline(p, n)
      BY <1>15
  <2> DEFINE j == [left |-> n, prev |-> None, kids |-> {}]
  <2>1. /\ state[p] = "running" /\ UNCHANGED <<fds, frames, home>>
        /\ state' = [state EXCEPT ![p] = "building"] /\ job' = [job EXCEPT ![p] = j]
      BY <2>0 DEF StartPipeline, Running
  <2>2. Unwinds(home[p], frames[p], Settled(fds[p], j.prev))
      BY <1>4, <2>1
  <2> HIDE DEF j
  <2>b. Becomes(p, fds[p], frames[p], "building", j, home[p])
      BY <1>2, <2>1 DEF Becomes
  <2>d. Due(fds[p], frames[p], "building", j, home[p])
      BY <2>2 DEF Due
  <2> QED BY <2>b, <2>d, HomesAlone
<1>16. ASSUME NEW q \in Procs, Stage(p, q) PROVE Homes'
  <2> DEFINE a == PipeEnds(p)[1]
             n == IF HaveNext(p) THEN a ELSE None
             j == [left |-> job[p].left - 1, prev |-> n, kids |-> job[p].kids \cup {q}]
             k == [NoJob EXCEPT !.left = job[p].left + Cardinality(job[p].kids)]
             kept == KeptFds(p)
             its == StageFds(p)
             prev == job[p].prev
  <2>1. PICK s \in AfterFork(p) : Child(p, q, <<s, "child">>, its, kept)
      BY <1>16 DEF Stage
  <2>2. CanFork(p) /\ state[p] = "building" /\ state[p] \in Active /\ Forked \in Procs /\ q # p
    <3>1. CanFork(p) /\ state[p] = "building" /\ Forked \in Procs
        BY <1>16, ForkedIs DEF Stage, CanFork, Inv
    <3>2. state[p] \in Active
        BY <3>1 DEF Active
    <3> QED BY <2>1, <3>1, <3>2, ChildIsNew DEF Child
  <2>3. job' = [job EXCEPT ![p] = j, ![q] = k]
      BY <1>1, <1>16, <2>2 DEF Stage, Shapes
  <2>4. Sound(fds[p], frames[p], prev) /\ Open(fds[p])
      BY <1>3, <2>2 DEF Live
  <2>5. \A x \in FD : kept[x] = IF HaveNext(p) /\ x = a THEN ReadEnd(p, Forked)
                                ELSE IF x = prev THEN Closed ELSE fds[p][x]
      BY <1>1, <2>2, <2>4, KeptIs
  <2>6. its \in Descriptors
      BY <1>1, <2>2, <2>4, StageIs
  <2>7. HaveNext(p) => a \in FD /\ fds[p][a] = Closed
      BY <2>2, <2>4, PipeEndsFree DEF CanFork
  <2>8. j.prev = n /\ (HaveNext(p) => s = "building")
      BY <2>1 DEF AfterFork
  <2> HIDE DEF kept, its, j, k, prev, a
  <2>9. \A x \in FD : (IF x = n THEN Closed ELSE kept[x]) = IF x = prev THEN Closed ELSE fds[p][x]
    <3>1. \A x \in FD : x # None
        BY Standard
    <3> QED BY <2>5, <2>7, <3>1
  <2>10. Settled(kept, j.prev) = Settled(fds[p], job[p].prev)
    <3>1. Settled(kept, n) = Settled(fds[p], prev)
        BY <2>9 DEF Settled
    <3> QED BY <2>8, <3>1 DEF prev
  <2>11. s = "waiting" => j.prev = None
      BY <2>8
  <2>12. "child" \notin Active
      BY DEF Active
  <2> QED BY <2>1, <2>2, <2>3, <2>6, <2>10, <2>11, <2>12, HomesChild
<1>17. ASSUME NEW q \in Procs, Substitute(p, q) PROVE Homes'
  <2> DEFINE r == PipeEnds(p)[1]
             its == [fds[p] EXCEPT ![1] = WriteEnd(p, Forked)]
             kept == [fds[p] EXCEPT ![r] = ReadEnd(p, Forked)]
             j == [left |-> 0, prev |-> r, kids |-> {q}]
  <2>1. /\ state[p] = "running" /\ Child(p, q, <<"reading", "running">>, its, kept)
        /\ job' = [job EXCEPT ![p] = j] /\ Cardinality(Free(fds[p])) >= 2
      BY <1>17 DEF Substitute, Running
  <2>2. q # p /\ Forked \in Procs /\ state[q] = "none" /\ state[p] \in Active
    <3>1. q = Forked + 1 /\ state[p] # "none" /\ state[p] \in Active /\ Forked \in Procs
        BY <2>1, ForkedIs DEF Child, Inv, Active
    <3> QED BY <3>1, ChildIsNew
  <2>3. job' = [job EXCEPT ![p] = j, ![q] = job[q]] /\ job[q].prev = None
    <3>1. job' = [job EXCEPT ![p] = j, ![q] = job[q]]
        BY <1>1, <2>1, <2>2 DEF Shapes
    <3> QED BY <2>2, <3>1 DEF Inv, Fit
  <2>4. r \in FD /\ fds[p][r] = Closed
      BY <1>3, <2>1, PipeEndsFree DEF Live
  <2>5. its \in Descriptors
      BY <1>1, <2>2, Standard DEF Descriptors
  <2>6. \A x \in FD : kept[x] = IF x = r THEN ReadEnd(p, Forked) ELSE fds[p][x]
      BY <1>1 DEF Descriptors
  <2>7. j.prev = r
      OBVIOUS
  <2> HIDE DEF kept, its, j, r
  <2>8. Settled(kept, j.prev) = Settled(fds[p], job[p].prev)
    <3>1. \A x \in FD : x # None
        BY Standard
    <3>2. job[p].prev = None
        BY <1>4, <2>1
    <3>3. \A x \in FD : (IF x = r THEN Closed ELSE kept[x]) = IF x = None THEN Closed ELSE fds[p][x]
        BY <2>4, <2>6, <3>1
    <3>4. Settled(kept, r) = Settled(fds[p], None)
        BY <3>3 DEF Settled
    <3> QED BY <2>7, <3>2, <3>4
  <2> DEFINE s == "reading"
             c == "running"
             k == job[q]
  <2>9. /\ Child(p, q, <<s, c>>, its, kept) /\ job' = [job EXCEPT ![p] = j, ![q] = k]
        /\ s = "waiting" => j.prev = None
        /\ c # "waiting"
        /\ c \in Active => k.prev = None
      BY <2>1, <2>3
  <2> HIDE DEF s, c, k
  <2> QED BY <2>2, <2>5, <2>8, <2>9, HomesChild
<1>18. CASE \E r \in Redirections : ChildExecs(p, r)
  <2>0. PICK r \in Redirections : ChildExecs(p, r)
      BY <1>18
  <2> DEFINE e == apply_redirection(fds[p], r).fds
  <2>1. /\ fds' = [fds EXCEPT ![p] = e] /\ state' = [state EXCEPT ![p] = "external"]
        /\ UNCHANGED <<frames, job, home>>
      BY <2>0 DEF ChildExecs
  <2>b. Becomes(p, e, frames[p], "external", job[p], home[p])
      BY <1>2, <2>1 DEF Becomes
  <2>d. Due(e, frames[p], "external", job[p], home[p])
      BY DEF Due, Active
  <2> QED BY <2>b, <2>d, HomesAlone
\* A builtin that is a stage begins anew with what it has then.
<1>19. CASE \E r \in Redirections : ChildRuns(p, r)
  <2>0. PICK r \in Redirections : ChildRuns(p, r)
      BY <1>19
  <2> DEFINE acc == apply_redirection(fds[p], r)
             e == acc.fds
  <2>1. /\ state[p] = "child" /\ fds' = [fds EXCEPT ![p] = e]
        /\ state' = [state EXCEPT ![p] = "running"] /\ job' = [job EXCEPT ![p] = NoJob]
        /\ home' = [home EXCEPT ![p] = fds'[p]] /\ UNCHANGED frames
      BY <2>0 DEF ChildRuns
  <2>2. fds'[p] = e /\ frames[p] = << >>
      BY <1>1, <2>1 DEF Shapes, Fit
  <2>3. Applied(acc, fds[p])
      BY <1>1, <1>3, <2>1, RedirectionsApply DEF Live
  <2>4. e \in Descriptors
      BY <2>3 DEF Applied, Accumulators
  <2> HIDE DEF e
  <2>5. Unwinds(e, frames[p], Settled(e, NoJob.prev))
      BY <1>5, <2>2, <2>4, SettledIs, NothingDue
  <2>6. home' = [home EXCEPT ![p] = e]
      BY <2>1, <2>2
  <2>b. Becomes(p, e, frames[p], "running", NoJob, e)
      BY <1>2, <2>1, <2>6 DEF Becomes
  <2>d. Due(e, frames[p], "running", NoJob, e)
      BY <2>5 DEF Due
  <2> QED BY <2>b, <2>d, HomesAlone
<1> QED BY <1>0, <1>6, <1>7, <1>8, <1>9, <1>10, <1>11, <1>12, <1>13, <1>14, <1>15, <1>16,
           <1>17, <1>18, <1>19

\* The shell begins at home.
LEMMA HomesInit == Init => Homes
<1> SUFFICES ASSUME Init PROVE Homes
    OBVIOUS
<1>1. ASSUME NEW p \in Procs
      PROVE  /\ frames[p] = << >> /\ job[p].prev = None /\ home[p] = fds[p]
             /\ fds[p] \in Descriptors
    BY InitInv, NoJobIs DEF Init, Inv, Shapes
<1>2. ASSUME NEW p \in Procs
      PROVE  Unwinds(home[p], frames[p], Settled(fds[p], job[p].prev))
    BY <1>1, SettledIs, NothingDue
<1> QED BY <1>1, <1>2 DEF Homes

\* A process has the descriptors it began with whenever no redirected command,
\* pipeline or substitution is under way: with descriptors for every copy and
\* pipe, forks that succeed and no `0>&M`, each redirect_restore undoes exactly
\* what its command did, and pipelines leave nothing.
THEOREM DescriptorsRestoredCorrect ==
    ASSUME NoFailure, NoInputDup
    PROVE  Spec /\ []PipesFit /\ []SavesFit => []DescriptorsRestored
<1>1. Inv /\ Homes /\ PipesFit /\ SavesFit /\ [Next]_vars => Homes'
  <2>1. Inv /\ Homes /\ PipesFit /\ SavesFit /\ Next => Homes'
      BY HomesNext
  <2>2. Homes /\ UNCHANGED vars => Homes'
      BY DEF Homes, vars
  <2> QED BY <2>1, <2>2
<1>2. Inv /\ Homes => DescriptorsRestored
  <2> SUFFICES ASSUME Inv, Homes, NEW p \in Procs, Running(p), frames[p] = << >>
               PROVE  fds[p] = home[p]
      BY DEF DescriptorsRestored
  <2>1. fds[p] \in Descriptors /\ job[p].prev = None
      BY DEF Inv, Shapes, Fit, Running
  <2>2. Unwinds(home[p], << >>, Settled(fds[p], None))
      BY <2>1 DEF Homes, Active, Running
  <2> QED BY <2>1, <2>2, SettledIs, NothingDue
<1> QED BY <1>1, <1>2, HomesInit, SpecInv, PTL DEF Spec

\* What a process adds to the descriptors it began with: the copies of its
\* frames and one read end.
Share == 3 * MaxFrames + 1

\* Descriptors for all that processes forked one by another can add, and to
\* spare for the redirections of one more command.
Roomy == MaxFd >= MaxProcs * Share + 6

-----------------------------------------------------------------------------
(* How many descriptors are open.                                          *)

InUse(d)  == {x \in FD : d[x] # Closed}
Copies(fs) == {fs[i][x] : i \in 1..Len(fs), x \in 0..2}

\* A process that began with h: what is open was open then, is the copy of a
\* frame or is the read end that is kept.
Accounted(d, fs, prev, h) == InUse(d) \subseteq InUse(h) \cup Copies(fs) \cup {prev}

Within(p, d, fs, prev, h) ==
    /\ Len(fs) <= MaxFrames
    /\ Open(h) /\ Cardinality(InUse(h)) <= 3 + (p - 1) * Share
    /\ Accounted(d, fs, prev, h)

Over == {"none", "dead", "external"}

Holdings ==
    \A p \in Procs :
        /\ state[p] \notin Over => Within(p, fds[p], frames[p], job[p].prev, home[p])
        /\ state[p] = "waiting" => job[p].prev = None

\* What is not free is open.
LEMMA InUseFinite ==
    ASSUME NEW d
    PROVE  /\ IsFiniteSet(InUse(d)) /\ Cardinality(InUse(d)) \in Nat
           /\ Cardinality(Free(d)) = MaxFd + 1 - Cardinality(InUse(d))
<1> DEFINE F == Free(d)
           U == InUse(d)
<1>1. FD = 0..MaxFd /\ MaxFd \in Nat
    BY StdStreamsAssumption DEF FD
<1>2. IsFiniteSet(FD) /\ Cardinality(FD) = MaxFd + 1
  <2> DEFINE c == Cardinality(0..MaxFd)
  <2>1. IsFiniteSet(0..MaxFd) /\ c = IF 0 > MaxFd THEN 0 ELSE MaxFd - 0 + 1
      BY <1>1, FS_Interval
  <2>2. c = Cardinality(FD) /\ IsFiniteSet(FD)
      BY <1>1, <2>1, Zenon
  <2> HIDE DEF c
  <2>3. c = MaxFd + 1
      BY <1>1, <2>1
  <2> QED BY <2>2, <2>3
<1>3. F = FD \ U /\ FD \cap U = U /\ U \subseteq FD
    BY DEF Free, InUse
<1> HIDE DEF F, U
<1>4. IsFiniteSet(U) /\ Cardinality(U) \in Nat
    BY <1>2, <1>3, FS_Subset, FS_CardinalityType
<1>5. Cardinality(FD \ U) = Cardinality(FD) - Cardinality(FD \cap U)
    BY <1>2, FS_Difference
<1>6. Cardinality(F) = Cardinality(FD) - Cardinality(U)
    BY <1>3, <1>5, Zenon
<1>7. Cardinality(F) = MaxFd + 1 - Cardinality(U)
    BY <1>1, <1>2, <1>4, <1>6
<1> QED BY <1>4, <1>7 DEF F, U

\* Three copies a frame, at most.
LEMMA CopiesFew ==
    ASSUME NEW fs \in Seq(Saves)
    PROVE  IsFiniteSet(Copies(fs)) /\ Cardinality(Copies(fs)) <= 3 * Len(fs)
           /\ Cardinality(Copies(fs)) \in Nat
<1> DEFINE n == Len(fs)
           I == 1..n
           X == 0..2
           S == I \X X
           C == Copies(fs)
           f == [z \in S |-> fs[z[1]][z[2]]]
<1>1. n \in Nat
    OBVIOUS
<1>2. f \in Surjection(S, C)
  <2>1. \A z \in S : z[1] \in I /\ z[2] \in X /\ fs[z[1]][z[2]] \in C
      BY DEF Copies
  <2>2. f \in [S -> C]
      BY <2>1
  <2>3. ASSUME NEW c \in C PROVE \E z \in S : f[z] = c
    <3>1. PICK i \in I, x \in X : c = fs[i][x]
        BY DEF Copies
    <3>2. <<i, x>> \in S /\ f[<<i, x>>] = c
        BY <3>1
    <3> QED BY <3>2
  <2> HIDE DEF f, S, C
  <2> QED BY <2>2, <2>3 DEF Surjection
<1>3. IsFiniteSet(I) /\ Cardinality(I) = n
  <2> HIDE DEF n
  <2>1. IsFiniteSet(1..n) /\ Cardinality(1..n) = IF 1 > n THEN 0 ELSE n - 1 + 1
      BY <1>1, FS_Interval
  <2> QED BY <1>1, <2>1
<1>4. IsFiniteSet(X) /\ Cardinality(X) = 3
  <2>1. 0 \in Int /\ 2 \in Int
      OBVIOUS
  <2> DEFINE c == Cardinality(0..2)
  <2>2. IsFiniteSet(0..2) /\ c = IF 0 > 2 THEN 0 ELSE 2 - 0 + 1
      BY <2>1, FS_Interval
  <2>3. c = Cardinality(X)
      OBVIOUS
  <2> HIDE DEF c
  <2>4. c = 3
      BY <2>2
  <2> QED BY <2>2, <2>3, <2>4
<1> HIDE DEF I, X
<1>5. IsFiniteSet(S) /\ Cardinality(S) = Cardinality(I) * Cardinality(X)
    BY <1>3, <1>4, FS_Product
<1> HIDE DEF S, f, C, n
<1>6. IsFiniteSet(C) /\ Cardinality(C) <= Cardinality(S)
    BY <1>2, <1>5, FS_Surjection
<1>7. Cardinality(S) = 3 * n
    BY <1>1, <1>3, <1>4, <1>5
<1>8. Cardinality(C) \in Nat
    BY <1>6, FS_CardinalityType
<1> QED BY <1>6, <1>7, <1>8 DEF C, n

\* So a process has at most a share more than it began with.
LEMMA FewInUse ==
    ASSUME NEW d, NEW h, NEW fs \in Seq(Saves), Len(fs) <= MaxFrames, NEW prev,
           Accounted(d, fs, prev, h)
    PROVE  Cardinality(InUse(d)) <= Cardinality(InUse(h)) + Share
<1> DEFINE D == InUse(d)
           H == InUse(h)
           C == Copies(fs)
           S == H \cup C
           T == S \cup {prev}
           n == Len(fs)
<1>1. /\ IsFiniteSet(D) /\ Cardinality(D) \in Nat /\ IsFiniteSet(H) /\ Cardinality(H) \in Nat
      /\ IsFiniteSet(C) /\ Cardinality(C) \in Nat /\ Cardinality(C) <= 3 * n /\ n \in Nat
      /\ n <= MaxFrames /\ MaxFrames \in Nat
    BY InUseFinite, CopiesFew, StdStreamsAssumption
<1>2. D \subseteq T
    BY DEF Accounted
<1> HIDE DEF D, H, C, n
<1>3. /\ IsFiniteSet(S) /\ Cardinality(S) = Cardinality(H) + Cardinality(C) - Cardinality(H \cap C)
      /\ IsFiniteSet(H \cap C)
    BY <1>1, FS_Union, FS_Intersection
<1>4. IsFiniteSet({prev}) /\ Cardinality({prev}) = 1
    BY FS_Singleton
<1> DEFINE P == {prev}
           U == S \cup P
<1>5. D \subseteq U
    BY <1>2
<1> HIDE DEF S, T, P
<1>6. /\ IsFiniteSet(U) /\ Cardinality(U) = Cardinality(S) + Cardinality(P) - Cardinality(S \cap P)
      /\ IsFiniteSet(S \cap P) /\ Cardinality(P) = 1
  <2>1. IsFiniteSet(P) /\ Cardinality(P) = 1
      BY <1>4 DEF P
  <2> QED BY <2>1, <1>3, FS_Union, FS_Intersection
<1> HIDE DEF U
<1>7. Cardinality(D) <= Cardinality(U)
    BY <1>5, <1>6, FS_Subset
<1>8. /\ Cardinality(H \cap C) \in Nat /\ Cardinality(S \cap P) \in Nat
      /\ Cardinality(S) \in Nat /\ Cardinality(U) \in Nat
    BY <1>3, <1>6, FS_CardinalityType
<1>9. Cardinality(D) <= Cardinality(H) + 3 * MaxFrames + 1
    BY <1>1, <1>3, <1>6, <1>7, <1>8
<1> QED BY <1>9, <1>1 DEF D, H, Share

\* The arithmetic of shares.
LEMMA Shares ==
    /\ Share \in Nat
    /\ \A p \in Procs : (p - 1) * Share + Share = p * Share
    /\ \A p, q \in Procs : p < q => p * Share <= (q - 1) * Share
    /\ \A p \in Procs : p * Share <= MaxProcs * Share
<1>1. Share \in Nat
    BY StdStreamsAssumption DEF Share
<1>2. \A p \in Procs : p \in Nat /\ p >= 1 /\ p <= MaxProcs
    BY StdStreamsAssumption DEF Procs
<1>3. \A a, b, k \in Nat : a <= b => a * k <= b * k
    OBVIOUS
<1> DEFINE k == Share
<1> HIDE DEF k
<1>4. ASSUME NEW p \in Nat, p >= 1 PROVE (p - 1) * k + k = p * k
    BY <1>1, <1>4 DEF k
<1>5. ASSUME NEW p \in Procs, NEW q \in Procs, p < q PROVE p * Share <= (q - 1) * Share
  <2>1. p \in Nat /\ q - 1 \in Nat /\ p <= q - 1
      BY <1>2, <1>5
  <2> QED BY <1>1, <1>3, <2>1
<1>6. ASSUME NEW p \in Procs PROVE p * Share <= MaxProcs * Share
    BY <1>1, <1>2, <1>3, StdStreamsAssumption
<1> QED BY <1>1, <1>2, <1>4, <1>5, <1>6 DEF k

\* With the room there is, four descriptors are free.
LEMMA FourFree ==
    ASSUME Roomy, Inv, Holdings, NEW p \in Procs, state[p] \notin Over
    PROVE  /\ Cardinality(Free(fds[p])) >= 4
           /\ Cardinality(InUse(fds[p])) <= 3 + p * Share
<1>1. /\ frames[p] \in Seq(Saves) /\ Len(frames[p]) <= MaxFrames
      /\ Accounted(fds[p], frames[p], job[p].prev, home[p])
      /\ Cardinality(InUse(home[p])) <= 3 + (p - 1) * Share
    BY DEF Inv, Shapes, Holdings, Within
<1>2. Cardinality(InUse(fds[p])) <= Cardinality(InUse(home[p])) + Share
    BY <1>1, FewInUse
<1> DEFINE a == Cardinality(InUse(fds[p]))
           b == Cardinality(InUse(home[p]))
           c == (p - 1) * Share
           e == p * Share
           m == MaxProcs * Share
           f == Cardinality(Free(fds[p]))
<1>3. /\ a \in Nat /\ b \in Nat /\ f = MaxFd + 1 - a /\ c + Share = e /\ e <= m
      /\ MaxFd >= m + 6 /\ a <= b + Share /\ b <= 3 + c /\ Share \in Nat /\ MaxFd \in Nat
    BY <1>1, <1>2, InUseFinite, Shares, StdStreamsAssumption DEF Roomy
<1>4. c \in Int /\ e \in Int /\ m \in Int
  <2>1. p \in Int /\ MaxProcs \in Int /\ Share \in Int
      BY <1>3, StdStreamsAssumption DEF Procs
  <2> QED BY <2>1
<1> HIDE DEF a, b, c, e, m, f
<1>5. f >= 4 /\ a <= 3 + e
    BY <1>3, <1>4
<1> QED BY <1>5 DEF f, a, e

\* A step of one process that forks none.
LEMMA WithinAlone ==
    ASSUME Inv, Holdings, NEW p \in Procs, NEW d, NEW fs, NEW s, NEW j, NEW h,
           Becomes(p, d, fs, s, j, h), s \notin Over => Within(p, d, fs, j.prev, h),
           s = "waiting" => j.prev = None
    PROVE  Holdings'
<1>1. /\ fds \in [Procs -> Descriptors] /\ home \in [Procs -> Descriptors]
      /\ frames \in [Procs -> Seq(Saves)] /\ state \in [Procs -> States] /\ job \in [Procs -> Jobs]
    BY DEF Inv, Shapes
<1>2. /\ fds'[p] = d /\ frames'[p] = fs /\ state'[p] = s /\ job'[p] = j /\ home'[p] = h
      /\ \A q \in Procs \ {p} : /\ fds'[q] = fds[q] /\ frames'[q] = frames[q]
                                /\ state'[q] = state[q] /\ job'[q] = job[q] /\ home'[q] = home[q]
    BY <1>1 DEF Becomes
<1>3. ASSUME NEW q \in Procs
      PROVE  /\ state'[q] \notin Over =>
                    Within(q, fds'[q], frames'[q], job'[q].prev, home'[q])
             /\ state'[q] = "waiting" => job'[q].prev = None
  <2>1. CASE q = p
      BY <1>2, <2>1
  <2>2. CASE q \in Procs \ {p}
      BY <1>2, <2>2 DEF Holdings
  <2> QED BY <2>1, <2>2
<1> QED BY <1>3 DEF Holdings

\* A child begins with no more than its parent has.
LEMMA WithinChild ==
    ASSUME Roomy, Inv, Holdings, NEW p \in Procs, NEW q \in Procs, NEW s, NEW c,
           NEW its \in Descriptors, NEW kept, NEW j, NEW k,
           Child(p, q, <<s, c>>, its, kept), state[p] \in Active,
           job' = [job EXCEPT ![p] = j, ![q] = k],
           Accounted(kept, frames[p], j.prev, home[p]),
           Open(its), InUse(its) \subseteq InUse(fds[p]),
           s = "waiting" => j.prev = None, c # "waiting"
    PROVE  Holdings'
<1>1. /\ fds \in [Procs -> Descriptors] /\ home \in [Procs -> Descriptors]
      /\ frames \in [Procs -> Seq(Saves)] /\ state \in [Procs -> States] /\ job \in [Procs -> Jobs]
    BY DEF Inv, Shapes
<1>2. q # p /\ state[q] = "none" /\ frames[q] = << >> /\ q = Forked + 1 /\ state[p] # "none"
  <2>1. q # p /\ state[q] = "none" /\ q = Forked + 1 /\ state[p] # "none"
      BY ChildIsNew DEF Child, Active
  <2> QED BY <2>1 DEF Inv, Fit
<1>3. /\ fds'[p] = kept /\ frames'[p] = frames[p] /\ state'[p] = s /\ job'[p] = j
      /\ home'[p] = home[p]
      /\ fds'[q] = its /\ frames'[q] = << >> /\ state'[q] = c /\ job'[q] = k /\ home'[q] = its
      /\ \A o \in Procs \ {p, q} : /\ fds'[o] = fds[o] /\ frames'[o] = frames[o]
                                   /\ state'[o] = state[o] /\ job'[o] = job[o] /\ home'[o] = home[o]
    BY <1>1, <1>2 DEF Child
<1>4. Within(p, kept, frames[p], j.prev, home[p])
  <2>1. state[p] \notin Over
      BY DEF Active, Over
  <2> QED BY <2>1 DEF Holdings, Within
<1>5. Within(q, its, << >>, k.prev, its)
  <2>1. Cardinality(InUse(fds[p])) <= 3 + p * Share
      BY FourFree DEF Active, Over
  <2>2. p * Share <= (q - 1) * Share
    <3>1. /\ Forked \in Procs /\ Procs \subseteq Int
          /\ \A o \in Procs : state[o] # "none" <=> o <= Forked
        BY ForkedIs, StdStreamsAssumption DEF Inv, Procs
    <3>2. p < q
        BY <1>2, <3>1
    <3> QED BY <3>2, Shares
  <2>3. Cardinality(InUse(its)) <= 3 + (q - 1) * Share
    <3> DEFINE a == Cardinality(InUse(its))
               b == Cardinality(InUse(fds[p]))
               c1 == p * Share
               c2 == (q - 1) * Share
    <3>1. a <= b
        BY InUseFinite, FS_Subset
    <3>2. a \in Nat /\ b \in Nat /\ c1 \in Int /\ c2 \in Int
      <4>1. p \in Int /\ q \in Int /\ Share \in Int
          BY Shares, StdStreamsAssumption DEF Procs
      <4>2. c1 \in Int /\ c2 \in Int
          BY <4>1
      <4> QED BY <4>2, InUseFinite
    <3>3. b <= 3 + c1 /\ c1 <= c2
        BY <2>1, <2>2
    <3> HIDE DEF a, b, c1, c2
    <3>4. a <= 3 + c2
        BY <3>1, <3>2, <3>3
    <3> QED BY <3>4 DEF a, c2
  <2>4. Len(<< >>) <= MaxFrames
      BY StdStreamsAssumption
  <2>5. Accounted(its, << >>, k.prev, its)
      BY DEF Accounted
  <2> QED BY <2>3, <2>4, <2>5 DEF Within
<1>6. ASSUME NEW o \in Procs
      PROVE  /\ state'[o] \notin Over =>
                    Within(o, fds'[o], frames'[o], job'[o].prev, home'[o])
             /\ state'[o] = "waiting" => job'[o].prev = None
  <2>1. CASE o = p
      BY <1>3, <1>4, <2>1
  <2>2. CASE o = q
      BY <1>3, <1>5, <2>2
  <2>3. CASE o \in Procs \ {p, q}
      BY <1>3, <2>3 DEF Holdings
  <2> QED BY <2>1, <2>2, <2>3
<1> QED BY <1>6 DEF Holdings

\* The copies a redirected command keeps are those of its frame.
LEMMA BeginAccounted ==
    ASSUME NEW d \in Descriptors, NEW fs \in Seq(Saves), NEW h, Accounted(d, fs, None, h), Open(h),
           NEW acc, Applied(acc, d)
    PROVE  Accounted(acc.fds, Append(fs, acc.save), None, h)
<1> DEFINE n == Len(fs)
           fs2 == Append(fs, acc.save)
<1>1. acc.save \in Saves /\ n \in Nat
    BY DEF Applied, Accumulators
<1>2. /\ Len(fs2) = n + 1 /\ fs2[n + 1] = acc.save /\ \A i \in 1..n : fs2[i] = fs[i]
      /\ n + 1 \in 1..n + 1 /\ \A i \in 1..n : i \in 1..n + 1
    BY <1>1
<1> HIDE DEF n, fs2
<1>3. ASSUME NEW x \in InUse(acc.fds) PROVE x \in InUse(h) \cup Copies(fs2) \cup {None}
  <2>1. x \in FD /\ acc.fds[x] # Closed
      BY <1>3 DEF InUse
  <2>2. CASE x \in 0..2
      BY <2>1, <2>2 DEF Open, InUse
  <2>3. CASE x > 2 /\ d[x] # Closed
    <3>1. x \in InUse(h) \cup Copies(fs) \cup {None}
        BY <2>1, <2>3 DEF InUse, Accounted
    <3>2. ASSUME x \in Copies(fs) PROVE x \in Copies(fs2)
      <4>1. PICK i \in 1..n, y \in 0..2 : x = fs[i][y]
          BY <3>2 DEF Copies, n
      <4>2. i \in 1..Len(fs2) /\ x = fs2[i][y]
          BY <1>2, <4>1
      <4> QED BY <4>2 DEF Copies
    <3> QED BY <3>1, <3>2
  <2>4. CASE \E y \in 0..2 : acc.save[y] = x
    <3>1. PICK y \in 0..2 : fs2[n + 1][y] = x
        BY <1>2, <2>4
    <3>2. n + 1 \in 1..Len(fs2)
        BY <1>2
    <3> QED BY <3>1, <3>2 DEF Copies
  <2>5. x \in 0..2 \/ x > 2
      BY <2>1, Standard
  <2> QED BY <2>1, <2>2, <2>3, <2>4, <2>5 DEF Applied
<1>4. Accounted(acc.fds, fs2, None, h)
    BY <1>3 DEF Accounted
<1> QED BY <1>4 DEF fs2

\* They are closed when it ends.
LEMMA EndAccounted ==
    ASSUME NEW d \in Descriptors, NEW fs \in Seq(Saves), fs # << >>, NEW h,
           Accounted(d, fs, None, h), Open(h)
    PROVE  Accounted(redirect_restore(d, Last(fs)), Front(fs), None, h)
<1> DEFINE n == Len(fs)
           fs2 == Front(fs)
           save == Last(fs)
           e == redirect_restore(d, save)
<1>1. /\ n \in Nat \ {0} /\ save = fs[n]
    BY DEF Last
<1>2. Len(fs2) = n - 1 /\ \A i \in 1..n - 1 : fs2[i] = fs[i]
  <2>1. /\ DOMAIN fs2 = 1..n - 1 /\ fs2 \in Seq(Saves)
        /\ \A i \in 1..n - 1 : fs2[i] = fs[i]
      BY <1>1 DEF Front
  <2> HIDE DEF n, fs2
  <2> QED BY <1>1, <2>1
<1> HIDE DEF n, fs2, save
<1>3. ASSUME NEW x \in InUse(e) PROVE x \in InUse(h) \cup Copies(fs2) \cup {None}
  <2>1. x \in FD /\ e[x] # Closed
      BY <1>3 DEF InUse
  <2> HIDE DEF e
  <2>2. CASE x \in 0..2
      BY <2>1, <2>2 DEF Open, InUse
  <2>3. CASE x \notin 0..2
    <3>1. (\A y \in 0..2 : save[y] # x) /\ d[x] # Closed
        BY <2>1, <2>3 DEF e, redirect_restore
    <3>2. x \in InUse(h) \cup Copies(fs) \cup {None}
        BY <2>1, <3>1 DEF InUse, Accounted
    <3>3. ASSUME x \in Copies(fs) PROVE x \in Copies(fs2)
      <4>1. PICK i \in 1..n, y \in 0..2 : x = fs[i][y]
          BY <3>3 DEF Copies, n
      <4>2. i # n
          BY <1>1, <3>1, <4>1
      <4>3. i \in 1..n - 1
          BY <1>1, <4>1, <4>2
      <4>4. i \in 1..Len(fs2) /\ x = fs2[i][y]
          BY <1>2, <4>1, <4>3
      <4> QED BY <4>4 DEF Copies
    <3> QED BY <3>2, <3>3
  <2> QED BY <2>2, <2>3
<1>4. Accounted(e, fs2, None, h)
    BY <1>3 DEF Accounted
<1> QED BY <1>4 DEF e, fs2, save

\* Every step keeps to the shares.
LEMMA HoldingsNext ==
    ASSUME Roomy, NoFailure, Inv, Holdings, Next
    PROVE  Holdings'
<1>0. PICK p \in Procs :
            \/ PrintLine(p) \/ End(p) \/ PipeFails(p) \/ ForkFails(p) \/ Waited(p)
            \/ ExternalExits(p) \/ Exit(p) \/ Exec(p) \/ Substituted(p)
            \/ \E r \in Redirections : Begin(p, r)
            \/ \E n \in 1..MaxStages : StartPipeline(p, n)
            \/ \E q \in Procs : Stage(p, q) \/ Substitute(p, q)
            \/ \E r \in Redirections : ChildFails(p, r) \/ ChildExecs(p, r) \/ ChildRuns(p, r)
    BY DEF Next
<1>1. /\ Shapes /\ Fit(p) /\ fds[p] \in Descriptors /\ frames[p] \in Seq(Saves)
      /\ job[p].prev \in FD \cup {None}
    BY JobIs DEF Inv
<1>2. /\ fds = [fds EXCEPT ![p] = fds[p]] /\ state = [state EXCEPT ![p] = state[p]]
      /\ job = [job EXCEPT ![p] = job[p]] /\ frames = [frames EXCEPT ![p] = frames[p]]
      /\ home = [home EXCEPT ![p] = home[p]]
    BY <1>1 DEF Shapes
<1>3. Live(p) => Sound(fds[p], frames[p], job[p].prev) /\ Open(fds[p])
    BY <1>1 DEF Fit, Sound
<1>4. state[p] \notin Over => Within(p, fds[p], frames[p], job[p].prev, home[p])
    BY DEF Holdings
<1>5. state[p] \in {"running", "waiting"} => job[p].prev = None
    BY <1>1 DEF Fit, Holdings
<1>6. NoJob.prev = None
    BY NoJobIs
<1>7. \A s \in Active \cup {"child"} : s \notin Over
    BY DEF Active, Over
<1>8. "running" \in Active /\ "waiting" \in Active /\ "building" \in Active /\ "reading" \in Active
    BY DEF Active
<1>9. CASE PrintLine(p)
  <2>1. state[p] = "running" /\ UNCHANGED <<fds, frames, state, job, home>>
      BY <1>9 DEF PrintLine, Running
  <2>2. Becomes(p, fds[p], frames[p], state[p], job[p], home[p])
      BY <1>2, <2>1 DEF Becomes
  <2> QED BY <1>4, <1>5, <2>1, <2>2, WithinAlone
<1>10. CASE End(p)
  <2> DEFINE fs == Front(frames[p])
             e == redirect_restore(fds[p], Last(frames[p]))
  <2>1. /\ state[p] = "running" /\ frames[p] # << >>
        /\ fds' = [fds EXCEPT ![p] = e] /\ frames' = [frames EXCEPT ![p] = fs]
        /\ UNCHANGED <<state, job, home>>
      BY <1>10 DEF End, Running
  <2>2. Within(p, fds[p], frames[p], None, home[p])
      BY <1>4, <1>5, <1>7, <1>8, <2>1
  <2>3. Accounted(e, fs, None, home[p])
      BY <1>1, <2>1, <2>2, EndAccounted DEF Within
  <2>4. Len(fs) <= MaxFrames
      BY <1>1, <2>1, <2>2, StdStreamsAssumption DEF Within, Front
  <2>5. Within(p, e, fs, job[p].prev, home[p])
      BY <1>5, <2>1, <2>2, <2>3, <2>4 DEF Within
  <2>6. Becomes(p, e, fs, state[p], job[p], home[p])
      BY <1>2, <2>1 DEF Becomes
  <2> QED BY <1>5, <2>1, <2>5, <2>6, WithinAlone
<1>11. CASE \E r \in Redirections : Begin(p, r)
  <2>0. PICK r \in Redirections : Begin(p, r)
      BY <1>11
  <2> DEFINE acc == apply_redirection_with_restore(fds[p], r)
             e == acc.fds
             fs == Append(frames[p], acc.save)
  <2>1. /\ state[p] = "running" /\ Len(frames[p]) < MaxFrames
        /\ fds' = [fds EXCEPT ![p] = e] /\ frames' = [frames EXCEPT ![p] = fs]
        /\ UNCHANGED <<state, job, home>>
      BY <2>0 DEF Begin, Running
  <2>2. Within(p, fds[p], frames[p], None, home[p])
      BY <1>4, <1>5, <1>7, <1>8, <2>1
  <2>3. Applied(acc, fds[p])
      BY <1>1, <1>3, <2>1, RedirectionsApply DEF Live
  <2>4. Accounted(e, fs, None, home[p])
      BY <1>1, <2>2, <2>3, BeginAccounted DEF Within
  <2>5. Len(fs) <= MaxFrames
      BY <1>1, <2>1, StdStreamsAssumption
  <2>6. Within(p, e, fs, job[p].prev, home[p])
      BY <1>5, <2>1, <2>2, <2>4, <2>5 DEF Within
  <2>7. Becomes(p, e, fs, state[p], job[p], home[p])
      BY <1>2, <2>1 DEF Becomes
  <2> QED BY <1>5, <2>1, <2>6, <2>7, WithinAlone
\* Neither fails: a pipe finds its descriptors, and forks succeed.
<1>12. CASE PipeFails(p) \/ ForkFails(p)
  <2>1. state[p] = "building" /\ Cardinality(Free(fds[p])) < 2
      BY <1>12 DEF PipeFails, ForkFails, NoFailure
  <2>2. Cardinality(Free(fds[p])) >= 4 /\ Cardinality(Free(fds[p])) \in Nat
      BY <1>7, <1>8, <2>1, FourFree, FreeFinite
  <2> QED BY <2>1, <2>2
<1>13. CASE Waited(p)
  <2>1. /\ state[p] = "waiting" /\ UNCHANGED <<fds, frames, home>>
        /\ state' = [state EXCEPT ![p] = "running"] /\ job' = [job EXCEPT ![p] = NoJob]
      BY <1>13 DEF Waited
  <2>2. Within(p, fds[p], frames[p], NoJob.prev, home[p])
      BY <1>4, <1>5, <1>6, <1>7, <1>8, <2>1
  <2>3. Becomes(p, fds[p], frames[p], "running", NoJob, home[p])
      BY <1>2, <2>1 DEF Becomes
  <2> QED BY <1>6, <2>2, <2>3, WithinAlone
<1>14. CASE ExternalExits(p) \/ Exit(p) \/ \E r \in Redirections : ChildFails(p, r)
  <2>1. /\ fds' = [fds EXCEPT ![p] = NothingOpen] /\ state' = [state EXCEPT ![p] = "dead"]
        /\ UNCHANGED <<frames, job, home>>
      BY <1>14 DEF ExternalExits, Exit, ChildFails, Gone, NothingOpen
  <2>2. Becomes(p, NothingOpen, frames[p], "dead", job[p], home[p])
      BY <1>2, <2>1 DEF Becomes
  <2>3. "dead" \in Over /\ "dead" # "waiting"
      BY DEF Over
  <2> QED BY <2>2, <2>3, WithinAlone
<1>15. CASE Exec(p) \/ \E r \in Redirections : ChildExecs(p, r)
  <2>1. PICK e : /\ fds' = [fds EXCEPT ![p] = e] /\ state' = [state EXCEPT ![p] = "external"]
                 /\ UNCHANGED <<frames, job, home>>
    <3>1. CASE Exec(p)
        BY <1>2, <3>1 DEF Exec
    <3>2. ASSUME NEW r \in Redirections, ChildExecs(p, r)
          PROVE  /\ fds' = [fds EXCEPT ![p] = apply_redirection(fds[p], r).fds]
                 /\ state' = [state EXCEPT ![p] = "external"] /\ UNCHANGED <<frames, job, home>>
        BY <3>2 DEF ChildExecs
    <3> QED BY <1>15, <3>1, <3>2
  <2>2. Becomes(p, e, frames[p], "external", job[p], home[p])
      BY <1>2, <2>1 DEF Becomes
  <2>3. "external" \in Over /\ "external" # "waiting"
      BY DEF Over
  <2> QED BY <2>2, <2>3, WithinAlone
<1>16. CASE Substituted(p)
  <2> DEFINE prev == job[p].prev
             d == [fds[p] EXCEPT ![prev] = Closed]
  <2>1. /\ state[p] = "reading" /\ fds' = [fds EXCEPT ![p] = d] /\ UNCHANGED <<frames, home>>
        /\ state' = [state EXCEPT ![p] = "running"] /\ job' = [job EXCEPT ![p] = NoJob]
      BY <1>1, <1>16 DEF Substituted, Shapes
  <2>2. \A x \in FD : d[x] = IF x = prev THEN Closed ELSE fds[p][x]
      BY <1>1 DEF Descriptors
  <2>3. Within(p, fds[p], frames[p], prev, home[p])
      BY <1>4, <1>7, <1>8, <2>1
  <2> HIDE DEF d, prev
  <2>4. Accounted(d, frames[p], None, home[p])
      BY <2>2, <2>3 DEF Within, Accounted, InUse
  <2>5. Within(p, d, frames[p], NoJob.prev, home[p])
      BY <1>6, <2>3, <2>4 DEF Within
  <2>6. Becomes(p, d, frames[p], "running", NoJob, home[p])
      BY <1>2, <2>1 DEF Becomes
  <2> QED BY <1>6, <2>5, <2>6, WithinAlone
<1>17. CASE \E n \in 1..MaxStages : StartPipeline(p, n)
  <2>0. PICK n \in 1..MaxStages : StartPipeline(p, n)
      BY <1>17
  <2> DEFINE j == [left |-> n, prev |-> None, kids |-> {}]
  <2>1. /\ state[p] = "running" /\ UNCHANGED <<fds, frames, home>>
        /\ state' = [state EXCEPT ![p] = "building"] /\ job' = [job EXCEPT ![p] = j]
      BY <2>0 DEF StartPipeline, Running
  <2>2. Within(p, fds[p], frames[p], j.prev, home[p]) /\ j.prev = None
      BY <1>4, <1>5, <1>7, <1>8, <2>1
  <2> HIDE DEF j
  <2>3. Becomes(p, fds[p], frames[p], "building", j, home[p])
      BY <1>2, <2>1 DEF Becomes
  <2> QED BY <2>2, <2>3, WithinAlone
<1>18. ASSUME NEW q \in Procs, Stage(p, q) PROVE Holdings'
  <2> DEFINE a == PipeEnds(p)[1]
             n == IF HaveNext(p) THEN a ELSE None
             j == [left |-> job[p].left - 1, prev |-> n, kids |-> job[p].kids \cup {q}]
             k == [NoJob EXCEPT !.left = job[p].left + Cardinality(job[p].kids)]
             kept == KeptFds(p)
             its == StageFds(p)
             prev == job[p].prev
  <2>1. PICK s \in AfterFork(p) : Child(p, q, <<s, "child">>, its, kept)
      BY <1>18 DEF Stage
  <2>2. CanFork(p) /\ state[p] = "building" /\ state[p] \in Active /\ Forked \in Procs /\ q # p
    <3>1. CanFork(p) /\ state[p] = "building" /\ Forked \in Procs
        BY <1>18, ForkedIs DEF Stage, CanFork, Inv
    <3> QED BY <1>8, <2>1, <3>1, ChildIsNew DEF Child
  <2>3. job' = [job EXCEPT ![p] = j, ![q] = k]
      BY <1>1, <1>18, <2>2 DEF Stage, Shapes
  <2>4. Sound(fds[p], frames[p], prev) /\ Open(fds[p])
      BY <1>3, <2>2 DEF Live
  <2>5. \A x \in FD : kept[x] = IF HaveNext(p) /\ x = a THEN ReadEnd(p, Forked)
                                ELSE IF x = prev THEN Closed ELSE fds[p][x]
      BY <1>1, <2>2, <2>4, KeptIs
  <2>6. /\ its \in Descriptors
        /\ \A x \in FD : its[x] =
                 IF HaveNext(p) /\ x = 1 THEN WriteEnd(p, Forked)
                 ELSE IF prev # None /\ x = 0 THEN fds[p][prev]
                 ELSE IF x = prev THEN Closed ELSE fds[p][x]
      BY <1>1, <2>2, <2>4, StageIs
  <2>7. Open(its)
      BY <1>1, <2>2, <2>4, StageSound
  <2>8. j.prev = n /\ (HaveNext(p) => s = "building")
      BY <2>1 DEF AfterFork
  <2>9. Within(p, fds[p], frames[p], prev, home[p])
      BY <1>4, <1>7, <2>2
  <2> HIDE DEF kept, its, j, k, prev, a
  <2>10. Accounted(kept, frames[p], n, home[p])
      BY <2>5, <2>9 DEF Within, Accounted, InUse
  <2>11. InUse(its) \subseteq InUse(fds[p])
    <3>1. ASSUME NEW x \in FD, its[x] # Closed PROVE fds[p][x] # Closed
      <4>1. CASE x \in 0..2
          BY <4>1, <2>4 DEF Open
      <4>2. CASE x \notin 0..2
        <5>1. x # 0 /\ x # 1
            BY <4>2
        <5> QED BY <2>6, <3>1, <5>1
      <4> QED BY <4>1, <4>2
    <3> QED BY <3>1 DEF InUse
  <2>12. s = "waiting" => j.prev = None
      BY <2>8
  <2>13. Accounted(kept, frames[p], j.prev, home[p])
      BY <2>8, <2>10
  <2>14. "child" # "waiting"
      OBVIOUS
  <2> QED BY <2>1, <2>2, <2>3, <2>6, <2>7, <2>11, <2>12, <2>13, <2>14, WithinChild
<1>19. ASSUME NEW q \in Procs, Substitute(p, q) PROVE Holdings'
  <2> DEFINE r == PipeEnds(p)[1]
             its == [fds[p] EXCEPT ![1] = WriteEnd(p, Forked)]
             kept == [fds[p] EXCEPT ![r] = ReadEnd(p, Forked)]
             j == [left |-> 0, prev |-> r, kids |-> {q}]
             k == job[q]
             s == "reading"
             c == "running"
  <2>1. /\ state[p] = "running" /\ Child(p, q, <<s, c>>, its, kept)
        /\ job' = [job EXCEPT ![p] = j] /\ Cardinality(Free(fds[p])) >= 2
      BY <1>19 DEF Substitute, Running
  <2>2. q # p /\ Forked \in Procs /\ state[p] \in Active
    <3>1. q = Forked + 1 /\ state[p] # "none" /\ state[p] \in Active /\ Forked \in Procs
        BY <1>8, <2>1, ForkedIs DEF Child, Inv
    <3> QED BY <3>1, ChildIsNew
  <2>3. job' = [job EXCEPT ![p] = j, ![q] = k]
      BY <1>1, <2>1, <2>2 DEF Shapes
  <2>4. Open(fds[p]) /\ Within(p, fds[p], frames[p], None, home[p])
      BY <1>3, <1>4, <1>5, <1>7, <1>8, <2>1 DEF Live
  <2>5. /\ its \in Descriptors
        /\ \A x \in FD : its[x] = IF x = 1 THEN WriteEnd(p, Forked) ELSE fds[p][x]
      BY <1>1, <2>2, Standard DEF Descriptors
  <2>6. \A x \in FD : kept[x] = IF x = r THEN ReadEnd(p, Forked) ELSE fds[p][x]
      BY <1>1 DEF Descriptors
  <2>7. j.prev = r /\ s # "waiting" /\ c # "waiting"
      OBVIOUS
  <2> HIDE DEF kept, its, j, r, k, s, c
  <2>8. Open(its)
    <3>1. ASSUME NEW x \in 0..2 PROVE its[x] # Closed
        BY <2>2, <2>4, <2>5, Standard DEF Open
    <3> QED BY <3>1 DEF Open
  <2>9. InUse(its) \subseteq InUse(fds[p])
    <3>1. 1 \in 0..2
        OBVIOUS
    <3> QED BY <2>4, <2>5, <3>1 DEF Open, InUse
  <2>10. Accounted(kept, frames[p], j.prev, home[p])
    <3>1. \A x \in FD : x # None
        BY Standard
    <3> QED BY <2>4, <2>6, <2>7, <3>1 DEF Within, Accounted, InUse
  <2>11. /\ Child(p, q, <<s, c>>, its, kept) /\ its \in Descriptors /\ state[p] \in Active
         /\ s = "waiting" => j.prev = None
      BY <2>1, <2>2, <2>5, <2>7
  <2> QED BY <2>3, <2>7, <2>8, <2>9, <2>10, <2>11, WithinChild
<1>20. CASE \E r \in Redirections : ChildRuns(p, r)
  <2>0. PICK r \in Redirections : ChildRuns(p, r)
      BY <1>20
  <2> DEFINE acc == apply_redirection(fds[p], r)
             e == acc.fds
  <2>1. /\ state[p] = "child" /\ fds' = [fds EXCEPT ![p] = e]
        /\ state' = [state EXCEPT ![p] = "running"] /\ job' = [job EXCEPT ![p] = NoJob]
        /\ home' = [home EXCEPT ![p] = fds'[p]] /\ UNCHANGED frames
      BY <2>0 DEF ChildRuns
  <2>2. fds'[p] = e /\ frames[p] = << >> /\ job[p].prev = None
      BY <1>1, <2>1 DEF Shapes, Fit
  <2>3. Applied(acc, fds[p]) /\ ~acc.keep /\ Open(fds[p])
      BY <1>1, <1>3, <2>1, RedirectionsApply DEF Live
  <2>4. Within(p, fds[p], << >>, None, home[p])
      BY <1>4, <1>7, <2>1, <2>2
  <2> HIDE DEF acc
  <2>5. Open(e)
      BY <2>3 DEF Applied
  <2>6. InUse(e) \subseteq InUse(home[p])
    <3>1. ASSUME NEW x \in InUse(e) PROVE x \in InUse(home[p])
      <4>1. x \in FD /\ e[x] # Closed /\ x # None
          BY <3>1, Standard DEF InUse
      <4>2. \A y \in 0..2 : acc.save[y] # x
          BY <2>3, <4>1 DEF Applied
      <4>3. fds[p][x] # Closed
        <5>1. CASE x \in 0..2
            BY <5>1, <2>3 DEF Open
        <5>2. CASE x > 2
            BY <5>2, <2>3, <4>1, <4>2 DEF Applied
        <5> QED BY <4>1, <5>1, <5>2, Standard
      <4>4. x \in InUse(home[p]) \cup Copies(<< >>) \cup {None}
          BY <2>4, <4>1, <4>3 DEF Within, Accounted, InUse
      <4>5. x \notin Copies(<< >>)
          BY DEF Copies
      <4> QED BY <4>1, <4>4, <4>5
    <3> QED BY <3>1
  <2> HIDE DEF e
  <2>7. Cardinality(InUse(e)) <= 3 + (p - 1) * Share
    <3> DEFINE a == Cardinality(InUse(e))
               b == Cardinality(InUse(home[p]))
               c == (p - 1) * Share
    <3>1. a <= b
        BY <2>6, InUseFinite, FS_Subset
    <3>2. a \in Nat /\ b \in Nat /\ c \in Int
      <4>1. p \in Int /\ Share \in Int
          BY Shares, StdStreamsAssumption DEF Procs
      <4>2. c \in Int
          BY <4>1
      <4> QED BY <4>2, InUseFinite
    <3>3. b <= 3 + c
        BY <2>4 DEF Within
    <3> HIDE DEF a, b, c
    <3>4. a <= 3 + c
        BY <3>1, <3>2, <3>3
    <3> QED BY <3>4 DEF a, c
  <2>8. Within(p, e, frames[p], NoJob.prev, e)
      BY <2>2, <2>4, <2>5, <2>7 DEF Within, Accounted
  <2>9. Becomes(p, e, frames[p], "running", NoJob, e)
      BY <1>2, <2>1, <2>2 DEF Becomes
  <2> QED BY <1>6, <2>8, <2>9, WithinAlone
<1> QED BY <1>0, <1>9, <1>10, <1>11, <1>12, <1>13, <1>14, <1>15, <1>16, <1>17, <1>18, <1>19, <1>20

\* The shell begins with three.
LEMMA HoldingsInit == Init => Holdings
<1> SUFFICES ASSUME Init, NEW p \in Procs, state[p] # "none"
             PROVE  /\ state[p] \notin Over => Within(p, fds[p], frames[p], job[p].prev, home[p])
                    /\ state[p] = "waiting" => job[p].prev = None
    BY DEF Holdings, Init, Over
<1>1. p = Shell /\ frames[p] = << >> /\ home[p] = fds[p] /\ state[p] = "running"
    BY DEF Init
<1>2. Open(fds[p])
    BY InitInv, <1>1 DEF Inv, Fit, Live, Sound
<1>3. InUse(fds[p]) \subseteq 0..2
    BY <1>1, Standard DEF Init, InUse
<1>4. Cardinality(InUse(fds[p])) <= 3 + (p - 1) * Share
  <2> DEFINE a == Cardinality(InUse(fds[p]))
             c == Cardinality(0..2)
  <2>1. 0 \in Int /\ 2 \in Int
      OBVIOUS
  <2>2. IsFiniteSet(0..2) /\ c = IF 0 > 2 THEN 0 ELSE 2 - 0 + 1
      BY <2>1, FS_Interval
  <2>3. a <= c
      BY <1>3, <2>2, FS_Subset
  <2>4. p - 1 = 0 /\ Share \in Nat
      BY <1>1, Shares DEF Shell
  <2>5. 0 * Share = 0
      BY <2>4
  <2>6. a \in Nat
      BY InUseFinite
  <2> HIDE DEF a, c
  <2>7. a <= 3
      BY <2>2, <2>3, <2>6
  <2>8. 3 + (p - 1) * Share = 3
      BY <2>4, <2>5
  <2> QED BY <2>7, <2>8 DEF a
<1>5. Accounted(fds[p], << >>, job[p].prev, fds[p])
    BY DEF Accounted
<1>6. Len(<< >>) <= MaxFrames
    BY StdStreamsAssumption
<1> QED BY <1>1, <1>2, <1>4, <1>5, <1>6 DEF Within

\* With enough descriptors for the processes there may be, and forks that
\* succeed, no pipe and no copy of a standard descriptor ever lacks one: what
\* processes hand on to those they fork does not grow beyond a share each.
THEOREM RoomIsEnough ==
    ASSUME Roomy, NoFailure
    PROVE  Spec => [](PipesFit /\ SavesFit)
<1>1. Inv /\ Holdings /\ [Next]_vars => Holdings'
  <2>1. Inv /\ Holdings /\ Next => Holdings'
      BY HoldingsNext
  <2>2. Holdings /\ UNCHANGED vars => Holdings'
      BY DEF Holdings, vars
  <2> QED BY <2>1, <2>2
<1>2. Inv /\ Holdings => PipesFit /\ SavesFit
  <2> SUFFICES ASSUME Inv, Holdings, NEW p \in Procs
               PROVE  /\ state[p] = "building" => Cardinality(Free(fds[p])) >= 2
                      /\ Running(p) => \A r \in Redirections : Cardinality(Free(fds[p])) > Needed(r)
      BY DEF PipesFit, SavesFit
  <2>1. state[p] \in {"building", "running"} =>
            Cardinality(Free(fds[p])) >= 4 /\ Cardinality(Free(fds[p])) \in Nat
      BY FourFree, FreeFinite DEF Over
  <2>2. \A r \in Redirections : Needed(r) \in 0..3
      BY DEF Needed, One
  <2> QED BY <2>1, <2>2 DEF Running
<1> QED BY <1>1, <1>2, HoldingsInit, SpecInv, PTL DEF Spec

\* So then every process has its own descriptors back after each command, and
\* holds no pipe while it waits.
COROLLARY StreamsKept ==
    ASSUME Roomy, NoFailure, NoInputDup
    PROVE  Spec => [](DescriptorsRestored /\ OwnPipesClosed)
<1>1. Spec => [](PipesFit /\ SavesFit)
    BY RoomIsEnough
<1>2. Spec /\ []PipesFit => []OwnPipesClosed
    BY OwnPipesClosedCorrect
<1>3. Spec /\ []PipesFit /\ []SavesFit => []DescriptorsRestored
    BY DescriptorsRestoredCorrect
<1> QED BY <1>1, <1>2, <1>3, PTL

=============================================================================
