--------------------------- MODULE TestExprProofs ---------------------------
(***************************************************************************)
(* test gives every expression the status that its comment promises, with  *)
(* any number of !s and any operands that are not operators.               *)
(***************************************************************************)
EXTENDS TestExpr, FiniteSetTheorems, WellFoundedInduction, TLAPS

-----------------------------------------------------------------------------
(* Recursive functions over a stretch of numbers: they exist, and take     *)
(* their values where a step stays.                                        *)

\* A set of numbers up to n has a least one.
LEMMA HasLeast ==
    ASSUME NEW n \in Nat, NEW T, T \subseteq 1..n, T # {}
    PROVE  \E i \in T : \A j \in T : i <= j
<1> DEFINE F == {1..i : i \in T}
           R == StrictSubsetOrdering(Int)
<1>1. \A i \in T : IsFiniteSet(1..i) /\ 1..i \in SUBSET Int
    BY FS_Interval
<1>2. F \subseteq FiniteSubsetsOf(Int) /\ F # {}
    BY <1>1 DEF FiniteSubsetsOf
<1>3. IsWellFoundedOn(R, FiniteSubsetsOf(Int))
    BY FS_StrictSubsetOrderingWellFounded
<1>4. PICK s \in F : \A u \in F : <<u, s>> \notin R
    <2> HIDE DEF F, R
    <2> QED BY <1>2, <1>3, WFMin
<1>5. PICK i \in T : s = 1..i
    OBVIOUS
<1>6. ASSUME NEW j \in T, j < i PROVE FALSE
    <2>1. 1..j \in F /\ 1..j \in SUBSET Int /\ 1..i \in SUBSET Int
        BY <1>1
    <2>2. 1..j \subseteq 1..i /\ i \in 1..i /\ i \notin 1..j
        BY <1>6
    <2>3. <<1..j, 1..i>> \in R
        BY <2>1, <2>2 DEF StrictSubsetOrdering
    <2> QED BY <1>4, <1>5, <2>1, <2>3
<1> QED BY <1>6

\* Induction, upwards from 0.
LEMMA Upwards ==
    ASSUME NEW n \in Nat, NEW S, 0 \in S, \A k \in 1..n : k - 1 \in S => k \in S
    PROVE  \A k \in 0..n : k \in S
<1> DEFINE T == {k \in 1..n : k \notin S}
<1>1. SUFFICES ASSUME T # {} PROVE FALSE
    BY Z3
<1>2. PICK i \in T : \A j \in T : i <= j
    <2> HIDE DEF T
    <2>1. T \subseteq 1..n
        BY DEF T
    <2> QED BY <1>1, <2>1, HasLeast
<1>3. i - 1 \in 0..n /\ i - 1 \notin T
    BY <1>2
<1> QED BY <1>2, <1>3

\* What a recursion that begins with v and takes the step F makes of the numbers
\* up to n.
Runs(f, n, v, F) == f[0] = v /\ \A i \in 1..n : f[i] = F[<<f[i - 1], i>>]

LEMMA RunExists ==
    ASSUME NEW n \in Nat, NEW V, NEW v \in V, NEW F,
           \A u \in V : \A i \in 1..n : F[<<u, i>>] \in V
    PROVE  \E f \in [0..n -> V] : Runs(f, n, v, F)
<1> DEFINE S == {k \in 0..n : \E f \in [0..k -> V] : Runs(f, k, v, F)}
<1>1. 0 \in S
    <2>1. [i \in 0..0 |-> v] \in [0..0 -> V] /\ Runs([i \in 0..0 |-> v], 0, v, F)
        BY DEF Runs
    <2> QED BY <2>1
<1>2. ASSUME NEW k \in 1..n, k - 1 \in S PROVE k \in S
    <2>1. PICK f \in [0..k - 1 -> V] : Runs(f, k - 1, v, F)
        BY <1>2
    <2> DEFINE g == [i \in 0..k |-> IF i = k THEN F[<<f[k - 1], k>>] ELSE f[i]]
    <2>2. f[k - 1] \in V /\ \A i \in 0..k - 1 : f[i] \in V
        BY <2>1
    <2>3. g \in [0..k -> V]
        BY <2>2
    <2>4. g[k] = F[<<g[k - 1], k>>] /\ g[0] = v /\ \A i \in 0..k - 1 : g[i] = f[i]
        BY <2>1 DEF Runs
    <2>5. \A i \in 1..k - 1 : g[i] = F[<<g[i - 1], i>>]
        <3> HIDE DEF g
        <3> QED BY <2>1, <2>4 DEF Runs
    <2>6. Runs(g, k, v, F)
        <3> HIDE DEF g
        <3> QED BY <2>4, <2>5 DEF Runs
    <2> QED BY <2>3, <2>6
<1>3. \A k \in 0..n : k \in S
    <2> HIDE DEF S
    <2> QED BY <1>1, <1>2, Upwards
<1> QED BY <1>3

-----------------------------------------------------------------------------
(* Primaries.                                                              *)

\* A result seen through some !s.
Through(m, r) == IF r.error THEN Malformed ELSE IF m % 2 = 0 THEN r ELSE Value(~r.val, r.at)

LEMMA NegatedIsResult ==
    ASSUME NEW E, NEW x \in E \cup {Negated(r) : r \in E} \cup {Negated(Negated(r)) : r \in E}
    PROVE  Negated(x) \in E \cup {Negated(r) : r \in E} \cup {Negated(Negated(r)) : r \in E}
<1>1. ASSUME NEW r \in E PROVE Negated(Negated(Negated(r))) = Negated(r)
    BY DEF Negated, Malformed, Value
<1> QED BY <1>1

\* eval_primary calls itself behind every !.
LEMMA PrimarySteps ==
    ASSUME NEW a, NEW n \in Nat, Len(a) = n, NEW files, NEW j \in 1..n
    PROVE  eval_primary(a, j, files) =
               IF IsOp(a[j], {"!"}) THEN Negated(eval_primary(a, j + 1, files))
               ELSE EvalSimple(a, j, files)
<1> DEFINE E == {EvalSimple(a, k, files) : k \in 1..n + 1}
           V == E \cup {Negated(r) : r \in E} \cup {Negated(Negated(r)) : r \in E}
           v == EvalSimple(a, n + 1, files)
           Step(u, k) == IF IsOp(a[k], {"!"}) THEN Negated(u) ELSE EvalSimple(a, k, files)
           F == [p \in V \X (1..n) |-> Step(p[1], n + 1 - p[2])]
           primary[k \in 1..n + 1] ==
               IF k <= n /\ IsOp(a[k], {"!"}) THEN Negated(primary[k + 1])
               ELSE EvalSimple(a, k, files)
<1>1. v \in V
    OBVIOUS
<1>2. ASSUME NEW u \in V, NEW k \in 1..n PROVE F[<<u, k>>] = Step(u, n + 1 - k) /\ F[<<u, k>>] \in V
    <2>1. n + 1 - k \in 1..n + 1
        OBVIOUS
    <2>2. Negated(u) \in V
        BY NegatedIsResult
    <2>3. Step(u, n + 1 - k) \in V
        BY <2>1, <2>2
    <2> QED BY <2>3
<1>3. PICK f \in [0..n -> V] : Runs(f, n, v, F)
    <2> HIDE DEF F, V, v
    <2> QED BY <1>1, <1>2, RunExists
<1> DEFINE g == [k \in 1..n + 1 |-> f[n + 1 - k]]
<1>4. ASSUME NEW k \in 1..n PROVE g[k] = Step(g[k + 1], k)
    <2> HIDE DEF F, V, v, Step
    <2>1. n + 1 - k \in 1..n /\ (n + 1 - k) - 1 = n + 1 - (k + 1) /\ n + 1 - (n + 1 - k) = k
          /\ k \in 1..n + 1 /\ k + 1 \in 1..n + 1 /\ n + 1 - (k + 1) \in 0..n
        OBVIOUS
    <2>2. f[n + 1 - k] = F[<<f[(n + 1 - k) - 1], n + 1 - k>>]
        BY <1>3, <2>1 DEF Runs
    <2>3. f[n + 1 - (k + 1)] \in V
        BY <1>3, <2>1
    <2>4. f[n + 1 - k] = Step(f[n + 1 - (k + 1)], n + 1 - (n + 1 - k))
        BY <1>2, <2>1, <2>2, <2>3
    <2>5. f[n + 1 - k] = Step(f[n + 1 - (k + 1)], k)
        BY <2>1, <2>4
    <2> QED BY <2>1, <2>5
<1>5. g[n + 1] = v
    <2> HIDE DEF F, V, v
    <2> QED BY <1>3 DEF Runs
<1>6. g = [k \in 1..n + 1 |-> IF k <= n /\ IsOp(a[k], {"!"}) THEN Negated(g[k + 1])
                              ELSE EvalSimple(a, k, files)]
    <2>1. ASSUME NEW k \in 1..n + 1
          PROVE  g[k] = IF k <= n /\ IsOp(a[k], {"!"}) THEN Negated(g[k + 1])
                        ELSE EvalSimple(a, k, files)
        <3> HIDE DEF g
        <3>1. CASE k \in 1..n
            BY <1>4, <3>1
        <3>2. CASE k = n + 1
            BY <1>5, <3>2
        <3> QED BY <3>1, <3>2
    <2> QED BY <2>1
<1>7. primary = [k \in 1..n + 1 |-> IF k <= n /\ IsOp(a[k], {"!"}) THEN Negated(primary[k + 1])
                                    ELSE EvalSimple(a, k, files)]
    <2> HIDE DEF g
    <2> QED BY <1>6
<1>8. \A k \in 1..n + 1 : eval_primary(a, k, files) = primary[k]
    BY DEF eval_primary
<1> HIDE DEF primary
<1>9. j \in 1..n + 1 /\ j + 1 \in 1..n + 1
    OBVIOUS
<1> QED BY <1>7, <1>8, <1>9

Results == {Malformed} \cup {Value(b, k) : b \in BOOLEAN, k \in Nat}

LEMMA ThroughOneMore ==
    ASSUME NEW r \in Results, NEW k \in Nat
    PROVE  Through(0, r) = r /\ Through(k + 1, r) = Negated(Through(k, r))
<1>1. CASE r = Malformed
    BY <1>1 DEF Through, Malformed, Negated
<1>2. CASE r \in {Value(b, l) : b \in BOOLEAN, l \in Nat}
    <2>1. PICK b \in BOOLEAN, l \in Nat : r = Value(b, l)
        BY <1>2
    <2>2. ~r.error /\ r.val = b /\ r.at = l
        BY <2>1 DEF Value
    <2>3. Through(0, r) = r
        BY <2>2 DEF Through
    <2>4. CASE k % 2 = 0
        <3>1. (k + 1) % 2 # 0
            BY <2>4
        <3> QED BY <2>2, <2>4, <3>1 DEF Through, Negated
    <2>5. CASE k % 2 # 0
        <3>1. (k + 1) % 2 = 0
            BY <2>5
        <3>2. Through(k + 1, r) = r
            BY <2>2, <2>5, <3>1 DEF Through
        <3>3. Negated(Through(k, r)) = Negated(Value(~b, l))
            BY <2>2, <2>5 DEF Through
        <3>4. Negated(Value(~b, l)) = Value(b, l)
            <4>1. CASE b = TRUE
                BY <4>1 DEF Negated, Value
            <4>2. CASE b = FALSE
                BY <4>2 DEF Negated, Value
            <4> QED BY <4>1, <4>2
        <3> QED BY <2>1, <2>3, <3>2, <3>3, <3>4
    <2> QED BY <2>4, <2>5
<1> QED BY <1>1, <1>2 DEF Results

\* Any number of !s.
LEMMA BehindNots ==
    ASSUME NEW a, NEW n \in Nat, Len(a) = n, NEW files, NEW i \in 1..n, NEW m \in Nat, i + m <= n,
           \A k \in i..i + m - 1 : IsOp(a[k], {"!"}), ~IsOp(a[i + m], {"!"}),
           EvalSimple(a, i + m, files) \in Results
    PROVE  eval_primary(a, i, files) = Through(m, EvalSimple(a, i + m, files))
<1> DEFINE r == EvalSimple(a, i + m, files)
           S == {k \in 0..m : eval_primary(a, i + m - k, files) = Through(k, r)}
<1>1. 0 \in S
    <2>1. i + m \in 1..n /\ i + m - 0 = i + m
        OBVIOUS
    <2>2. eval_primary(a, i + m, files) = r
        BY <2>1, PrimarySteps
    <2>3. Through(0, r) = r
        BY ThroughOneMore
    <2> HIDE DEF r
    <2> QED BY <2>1, <2>2, <2>3
<1>2. ASSUME NEW k \in 1..m, k - 1 \in S PROVE k \in S
    <2>1. i + m - k \in 1..n /\ i + m - k \in i..i + m - 1
          /\ (i + m - k) + 1 = i + m - (k - 1) /\ k - 1 \in Nat /\ (k - 1) + 1 = k
        OBVIOUS
    <2>2. IsOp(a[i + m - k], {"!"})
        BY <2>1
    <2>3. eval_primary(a, i + m - k, files) = Negated(eval_primary(a, (i + m - k) + 1, files))
        BY <2>1, <2>2, PrimarySteps
    <2>4. eval_primary(a, i + m - (k - 1), files) = Through(k - 1, r)
        BY <1>2
    <2>5. Through((k - 1) + 1, r) = Negated(Through(k - 1, r))
        BY <2>1, ThroughOneMore
    <2> HIDE DEF r
    <2>6. eval_primary(a, i + m - k, files) = Through(k, r)
        BY <2>1, <2>3, <2>4, <2>5
    <2> QED BY <2>6
<1>3. \A k \in 0..m : k \in S
    <2> HIDE DEF S
    <2> QED BY <1>1, <1>2, Upwards
<1>4. m \in 0..m /\ i + m - m = i
    OBVIOUS
<1> HIDE DEF r
<1> QED BY <1>3, <1>4 DEF r

\* The operator that == is read as.
AsRead(op) == IF op = "==" THEN "=" ELSE op

\* The words of t, as they are read, stand at j, and no test of two operands.
Width(t) == IF t.is = "string" THEN 1 ELSE IF t.is = "unary" THEN 2 ELSE 3
Fits(a, n, j, t) ==
    /\ j + Width(t) <= n + 1
    /\ t.is = "string" => a[j] = t.arg /\ (j < n => ~IsOp(a[j + 1], BinaryOps))
    /\ t.is = "unary" => a[j] = <<t.op>> /\ a[j + 1] = t.arg
    /\ t.is = "binary" => a[j] = t.left /\ a[j + 1] = <<AsRead(t.op)>> /\ a[j + 2] = t.right

\* What a meaning is as a result.
ResultOf(meaning, at) == IF meaning = 2 THEN Malformed ELSE Value(meaning = 0, at)

LEMMA ResultType ==
    ASSUME NEW meaning, NEW at \in Nat
    PROVE  ResultOf(meaning, at) \in Results
<1>1. (meaning = 0) \in BOOLEAN
    OBVIOUS
<1>2. \A b \in BOOLEAN : Value(b, at) \in Results
    BY DEF Results
<1>3. Malformed \in Results
    BY DEF Results
<1>4. Value(meaning = 0, at) \in Results
    BY <1>1, <1>2, Zenon
<1> QED BY <1>3, <1>4 DEF ResultOf

LEMMA TruthResult ==
    ASSUME NEW b \in BOOLEAN, NEW at
    PROVE  ResultOf(Truth(b), at) = Value(b, at)
<1>1. Truth(b) \in {0, 1} /\ (Truth(b) = 0 <=> b)
    BY DEF Truth
<1>2. ResultOf(Truth(b), at) = Value(Truth(b) = 0, at)
    BY <1>1 DEF ResultOf
<1>3. (Truth(b) = 0) = b
    BY <1>1
<1> QED BY <1>2, <1>3

LEMMA StringEvaluates ==
    ASSUME NEW a, NEW n \in Nat, Len(a) = n, NEW files, NEW j \in 1..n,
           NEW t, IsTerm(t), t.is = "string", Fits(a, n, j, t)
    PROVE  /\ EvalSimple(a, j, files) = ResultOf(SimpleMeaning(t, files), j + 1)
           /\ SimpleMeaning(t, files) \in {0, 1} /\ ~IsOp(a[j], {"!"})
<1>1. a[j] = t.arg /\ InFront(t.arg) /\ (j < n => ~IsOp(a[j + 1], BinaryOps))
    BY DEF IsTerm, Fits
<1>2. ~IsOp(a[j], UnaryOps) /\ ~IsOp(a[j], {"!"})
    BY <1>1 DEF InFront, IsOp
<1>3. ~IsBinary(a, j)
    BY <1>1 DEF IsBinary
<1>4. EvalSimple(a, j, files) = Value(t.arg # <<>>, j + 1)
    BY <1>1, <1>2, <1>3 DEF EvalSimple
<1>5. SimpleMeaning(t, files) = Truth(t.arg # <<>>)
    BY DEF SimpleMeaning
<1> QED BY <1>2, <1>4, <1>5 DEF Truth, ResultOf

LEMMA UnaryEvaluates ==
    ASSUME NEW a, NEW n \in Nat, Len(a) = n, NEW files, NEW j \in 1..n,
           NEW t, IsTerm(t), t.is = "unary", Fits(a, n, j, t)
    PROVE  /\ EvalSimple(a, j, files) = ResultOf(SimpleMeaning(t, files), j + 2)
           /\ SimpleMeaning(t, files) \in {0, 1} /\ ~IsOp(a[j], {"!"})
<1>1. a[j] = <<t.op>> /\ a[j + 1] = t.arg /\ t.op \in UnaryOps /\ j < n
    BY DEF IsTerm, Fits, Width
<1>2. IsOp(a[j], UnaryOps) /\ ~IsOp(a[j], {"!"}) /\ a[j][1] = t.op
    BY <1>1 DEF IsOp, UnaryOps, FileTests
<1>3. EvalSimple(a, j, files) = Value(Holds(t.op, t.arg, files), j + 2)
    BY <1>1, <1>2 DEF EvalSimple
<1>4. SimpleMeaning(t, files) = Truth(Holds(t.op, t.arg, files))
    BY <1>1 DEF SimpleMeaning, Holds, Truth, UnaryOps, FileTests
<1>5. Holds(t.op, t.arg, files) \in BOOLEAN
    <2>1. CASE t.op = "-z"
        <3>1. Holds(t.op, t.arg, files) = (t.arg = <<>>)
            BY <2>1 DEF Holds
        <3> QED BY <3>1
    <2>2. CASE t.op = "-n"
        <3>1. Holds(t.op, t.arg, files) = (t.arg # <<>>)
            BY <2>2 DEF Holds
        <3> QED BY <3>1
    <2>3. CASE t.op # "-z" /\ t.op # "-n"
        <3>1. Holds(t.op, t.arg, files) = (<<t.op, t.arg>> \in files)
            BY <2>3 DEF Holds
        <3> QED BY <3>1
    <2> QED BY <2>1, <2>2, <2>3
<1> QED BY <1>2, <1>3, <1>4, <1>5 DEF Truth, ResultOf

LEMMA CompareType ==
    ASSUME NEW op \in Comparisons, NEW l, NEW r
    PROVE  Compare(op, l, r) \in BOOLEAN
<1>1. CASE op = "-eq"
    <2>1. Compare(op, l, r) = (l = r)
        BY <1>1 DEF Compare
    <2> QED BY <2>1
<1>2. CASE op = "-ne"
    <2>1. Compare(op, l, r) = (l # r)
        BY <1>2 DEF Compare
    <2> QED BY <2>1
<1>3. CASE op = "-lt"
    <2>1. Compare(op, l, r) = (l < r)
        BY <1>3 DEF Compare
    <2> QED BY <2>1
<1>4. CASE op = "-le"
    <2>1. Compare(op, l, r) = (l <= r)
        BY <1>4 DEF Compare
    <2> QED BY <2>1
<1>5. CASE op = "-gt"
    <2>1. Compare(op, l, r) = (l > r)
        BY <1>5 DEF Compare
    <2> QED BY <2>1
<1>6. CASE op = "-ge"
    <2>1. Compare(op, l, r) = (l >= r)
        BY <1>6 DEF Compare
    <2> QED BY <2>1
<1> QED BY <1>1, <1>2, <1>3, <1>4, <1>5, <1>6 DEF Comparisons

LEMMA BinaryEvaluates ==
    ASSUME NEW a, NEW n \in Nat, Len(a) = n, NEW files, NEW j \in 1..n,
           NEW t, IsTerm(t), t.is = "binary", Fits(a, n, j, t)
    PROVE  /\ EvalSimple(a, j, files) = ResultOf(SimpleMeaning(t, files), j + 3)
           /\ SimpleMeaning(t, files) \in {0, 1, 2} /\ ~IsOp(a[j], {"!"})
<1> DEFINE op == AsRead(t.op)
<1>1. a[j] = t.left /\ a[j + 1] = <<op>> /\ a[j + 2] = t.right /\ InFront(t.left)
      /\ t.op \in BinaryOps \cup {"=="} /\ j + 1 < n
    BY DEF IsTerm, Fits, Width
<1>2. ~IsOp(a[j], UnaryOps) /\ ~IsOp(a[j], {"!"})
    BY <1>1 DEF InFront, IsOp
<1>3. op \in BinaryOps /\ a[j + 1][1] = op
    BY <1>1 DEF AsRead, BinaryOps
<1>4. IsBinary(a, j)
    BY <1>1, <1>3 DEF IsBinary, IsOp
<1>5. EvalSimple(a, j, files) = EvalBinary(a, j)
    BY <1>2, <1>4 DEF EvalSimple
<1>6. CASE op = "="
    <2>1. EvalBinary(a, j) = Value(t.left = t.right, j + 3)
        BY <1>1, <1>3, <1>6 DEF EvalBinary
    <2>2. t.op \in {"=", "=="}
        BY <1>6 DEF AsRead
    <2>3. SimpleMeaning(t, files) = Truth(t.left = t.right)
        BY <2>2 DEF SimpleMeaning, Comparisons, Truth
    <2> QED BY <1>2, <1>5, <2>1, <2>3 DEF Truth, ResultOf
<1>7. CASE op = "!="
    <2>1. EvalBinary(a, j) = Value(t.left # t.right, j + 3)
        BY <1>1, <1>3, <1>7 DEF EvalBinary
    <2>2. t.op = "!="
        BY <1>7 DEF AsRead
    <2>3. SimpleMeaning(t, files) = Truth(t.left # t.right)
        BY <2>2 DEF SimpleMeaning, Comparisons, Truth
    <2> QED BY <1>2, <1>5, <2>1, <2>3 DEF Truth, ResultOf
<1>8. CASE op \in Comparisons
    <2> DEFINE numeric == is_numeric(t.left) /\ is_numeric(t.right)
               compared == Compare(op, atol(t.left), atol(t.right))
    <2>1. t.op = op /\ t.op \in Comparisons
        BY <1>8 DEF AsRead, Comparisons
    <2>2. EvalBinary(a, j) = IF numeric THEN Value(compared, j + 3) ELSE Malformed
        BY <1>1, <1>3, <1>8 DEF EvalBinary, Comparisons
    <2>3. SimpleMeaning(t, files) = IF numeric THEN Truth(compared) ELSE 2
        BY <2>1 DEF SimpleMeaning
    <2>4. compared \in BOOLEAN
        BY <1>8, CompareType
    <2> HIDE DEF compared, numeric
    <2> QED BY <1>2, <1>5, <2>2, <2>3, <2>4 DEF Truth, ResultOf
<1> QED BY <1>3, <1>6, <1>7, <1>8 DEF BinaryOps

LEMMA SimpleEvaluates ==
    ASSUME NEW a, NEW n \in Nat, Len(a) = n, NEW files, NEW j \in 1..n,
           NEW t, IsTerm(t), Fits(a, n, j, t)
    PROVE  /\ EvalSimple(a, j, files) = ResultOf(SimpleMeaning(t, files), j + Width(t))
           /\ SimpleMeaning(t, files) \in {0, 1, 2} /\ ~IsOp(a[j], {"!"})
<1>1. CASE t.is = "string"
    <2>1. Width(t) = 1
        BY <1>1 DEF Width
    <2>2. /\ EvalSimple(a, j, files) = ResultOf(SimpleMeaning(t, files), j + 1)
          /\ SimpleMeaning(t, files) \in {0, 1} /\ ~IsOp(a[j], {"!"})
        BY <1>1, StringEvaluates
    <2> QED BY <2>1, <2>2
<1>2. CASE t.is = "unary"
    <2>1. Width(t) = 2
        BY <1>2 DEF Width
    <2>2. /\ EvalSimple(a, j, files) = ResultOf(SimpleMeaning(t, files), j + 2)
          /\ SimpleMeaning(t, files) \in {0, 1} /\ ~IsOp(a[j], {"!"})
        BY <1>2, UnaryEvaluates
    <2> QED BY <2>1, <2>2
<1>3. CASE t.is = "binary"
    <2>1. Width(t) = 3
        BY <1>3 DEF Width
    <2>2. /\ EvalSimple(a, j, files) = ResultOf(SimpleMeaning(t, files), j + 3)
          /\ SimpleMeaning(t, files) \in {0, 1, 2} /\ ~IsOp(a[j], {"!"})
        BY <1>3, BinaryEvaluates
    <2> QED BY <2>1, <2>2
<1> QED BY <1>1, <1>2, <1>3 DEF IsTerm

-----------------------------------------------------------------------------
(* Terms and expressions.                                                  *)

\* The words of t, as they are read, stand at i.
TermFits(a, n, i, t) ==
    /\ \A k \in i..i + t.nots - 1 : a[k] = <<"!">>
    /\ Fits(a, n, i + t.nots, t)

LEMMA ThroughMeaning ==
    ASSUME NEW m \in {0, 1, 2}, NEW at \in Nat, NEW k \in Nat
    PROVE  Through(k, ResultOf(m, at)) = ResultOf(IF m = 2 \/ k % 2 = 0 THEN m ELSE 1 - m, at)
<1>1. CASE m = 2
    <2>1. Through(k, Malformed) = Malformed /\ ResultOf(2, at) = Malformed
        BY DEF Through, ResultOf, Malformed
    <2> QED BY <1>1, <2>1
<1>2. CASE m # 2
    <2>1. ResultOf(m, at) = Value(m = 0, at) /\ ResultOf(1 - m, at) = Value(m # 0, at)
        BY <1>2 DEF ResultOf
    <2>2. Through(k, Value(m = 0, at)) = IF k % 2 = 0 THEN Value(m = 0, at) ELSE Value(m # 0, at)
        BY DEF Through, Value
    <2> QED BY <1>2, <2>1, <2>2
<1> QED BY <1>1, <1>2

LEMMA TermEvaluates ==
    ASSUME NEW a, NEW n \in Nat, Len(a) = n, NEW files, NEW i \in 1..n,
           NEW t, IsTerm(t), TermFits(a, n, i, t)
    PROVE  /\ eval_primary(a, i, files) = ResultOf(TermMeaning(t, files), i + t.nots + Width(t))
           /\ TermMeaning(t, files) \in {0, 1, 2}
<1> DEFINE m == t.nots
           simple == SimpleMeaning(t, files)
           at == i + m + Width(t)
<1>1. m \in Nat /\ Width(t) \in {1, 2, 3} /\ i + m + Width(t) <= n + 1
    BY DEF IsTerm, TermFits, Fits, Width
<1>2. i + m \in 1..n /\ at \in Nat
    BY <1>1
<1>3. EvalSimple(a, i + m, files) = ResultOf(simple, at) /\ simple \in {0, 1, 2}
      /\ ~IsOp(a[i + m], {"!"})
    <2>1. Fits(a, n, i + m, t)
        BY DEF TermFits
    <2> QED BY <1>2, <2>1, SimpleEvaluates
<1>4. \A k \in i..i + m - 1 : IsOp(a[k], {"!"})
    <2>1. IsOp(<<"!">>, {"!"})
        BY DEF IsOp
    <2> QED BY <2>1 DEF TermFits
<1>5. EvalSimple(a, i + m, files) \in Results
    BY <1>2, <1>3, ResultType
<1> HIDE DEF m, simple, at
<1>6. eval_primary(a, i, files) = Through(m, ResultOf(simple, at))
    BY <1>1, <1>2, <1>3, <1>4, <1>5, BehindNots
<1>7. TermMeaning(t, files) = IF simple = 2 \/ m % 2 = 0 THEN simple ELSE 1 - simple
    BY DEF TermMeaning, simple, m
<1> QED BY <1>1, <1>2, <1>3, <1>6, <1>7, ThroughMeaning DEF at, m

\* A term alone.
LEMMA SingleEvaluates ==
    ASSUME NEW a, NEW n \in Nat, Len(a) = n, NEW files, NEW t, IsTerm(t),
           TermFits(a, n, 1, t), n = t.nots + Width(t)
    PROVE  eval_test(a, files) = ResultOf(TermMeaning(t, files), n + 1)
<1>1. t.nots \in Nat /\ Width(t) \in {1, 2, 3}
    BY DEF IsTerm, Width
<1>2. 1 \in 1..n /\ 1 + t.nots + Width(t) = n + 1
    BY <1>1
<1>3. eval_primary(a, 1, files) = ResultOf(TermMeaning(t, files), n + 1)
    BY <1>2, TermEvaluates
<1>4. LET left == ResultOf(TermMeaning(t, files), n + 1) IN left.error \/ left.at > n
    BY DEF ResultOf, Malformed, Value
<1> QED BY <1>3, <1>4 DEF eval_test

\* Two terms and what joins them, which stands at p.
LEMMA BothEvaluates ==
    ASSUME NEW a, NEW n \in Nat, Len(a) = n, NEW files, NEW e, IsExpression(e), e.is = "both",
           NEW p \in 2..n - 1, p = 1 + e.left.nots + Width(e.left), a[p] = <<e.op>>,
           n = p + e.right.nots + Width(e.right),
           TermFits(a, n, 1, e.left), TermFits(a, n, p + 1, e.right)
    PROVE  eval_test(a, files) = ResultOf(Meaning(e, files), n + 1)
<1> DEFINE l == TermMeaning(e.left, files)
           r == TermMeaning(e.right, files)
           left == eval_primary(a, 1, files)
           right == eval_primary(a, left.at + 1, files)
<1>1. e.op \in {"-a", "-o"} /\ IsTerm(e.left) /\ IsTerm(e.right)
    BY DEF IsExpression
<1>2. left = ResultOf(l, p) /\ l \in {0, 1, 2}
    <2>1. 1 \in 1..n
        OBVIOUS
    <2>2. left = ResultOf(l, 1 + e.left.nots + Width(e.left)) /\ l \in {0, 1, 2}
        BY <1>1, <2>1, TermEvaluates
    <2> QED BY <2>2
<1>3. eval_primary(a, p + 1, files) = ResultOf(r, n + 1) /\ r \in {0, 1, 2}
    <2>1. p + 1 \in 1..n /\ e.right.nots \in Nat /\ Width(e.right) \in Nat
        BY <1>1 DEF IsTerm, Width
    <2>2. (p + 1) + e.right.nots + Width(e.right) = n + 1
        BY <2>1
    <2> QED BY <1>1, <2>1, <2>2, TermEvaluates
<1>4. Meaning(e, files) = IF l = 2 \/ r = 2 THEN 2
                          ELSE IF e.op = "-a" THEN Truth(l = 0 /\ r = 0)
                          ELSE Truth(l = 0 \/ r = 0)
    BY DEF Meaning
<1>5. eval_test(a, files) =
          IF left.error \/ left.at > n THEN left
          ELSE IF ~IsOp(a[left.at], {"-a", "-o"}) \/ right.error THEN Malformed
          ELSE Value(IF a[left.at] = <<"-a">> THEN left.val /\ right.val
                     ELSE left.val \/ right.val, right.at)
    BY DEF eval_test
<1> HIDE DEF l, r, left, right
<1>6. CASE l = 2
    BY <1>2, <1>4, <1>5, <1>6 DEF ResultOf, Malformed
<1>7. CASE l # 2
    <2>1. ~left.error /\ left.at = p /\ left.val = (l = 0)
        BY <1>2, <1>7 DEF ResultOf, Value
    <2>2. right = ResultOf(r, n + 1)
        BY <1>3, <2>1 DEF right
    <2>3. IsOp(a[p], {"-a", "-o"}) /\ (a[p] = <<"-a">> <=> e.op = "-a")
        BY <1>1 DEF IsOp
    <2>4. CASE r = 2
        BY <1>4, <1>5, <2>1, <2>2, <2>4 DEF ResultOf, Malformed
    <2>5. CASE r # 2
        <3>1. ~right.error /\ right.at = n + 1 /\ right.val = (r = 0)
            BY <2>2, <2>5 DEF ResultOf, Value
        <3>2. CASE e.op = "-a"
            <4>1. eval_test(a, files) = Value(left.val /\ right.val, n + 1)
                BY <1>5, <2>1, <2>3, <3>1, <3>2
            <4>2. Meaning(e, files) = Truth(l = 0 /\ r = 0)
                BY <1>4, <1>7, <2>5, <3>2
            <4>3. ResultOf(Truth(l = 0 /\ r = 0), n + 1) = Value(l = 0 /\ r = 0, n + 1)
                BY TruthResult
            <4> QED BY <2>1, <3>1, <4>1, <4>2, <4>3
        <3>3. CASE e.op = "-o"
            <4>1. eval_test(a, files) = Value(left.val \/ right.val, n + 1)
                BY <1>5, <2>1, <2>3, <3>1, <3>3
            <4>2. Meaning(e, files) = Truth(l = 0 \/ r = 0)
                BY <1>4, <1>7, <2>5, <3>3
            <4>3. ResultOf(Truth(l = 0 \/ r = 0), n + 1) = Value(l = 0 \/ r = 0, n + 1)
                BY TruthResult
            <4> QED BY <2>1, <3>1, <4>1, <4>2, <4>3
        <3> QED BY <1>1, <3>2, <3>3
    <2> QED BY <2>4, <2>5
<1> QED BY <1>6, <1>7

-----------------------------------------------------------------------------
(* The words of a command.                                                 *)

OpWords == {<<op>> : op \in UnaryOps \cup BinaryOps \cup {"!", "-a", "-o"}} \cup {<<"=", "=">>}
Brackets == {[i \in DOMAIN name |-> "]"] : name \in TestNames}
CommandWords == Texts \cup OpWords \cup TestNames \cup Brackets

\* == is read as =.
Read(word) == IF word = <<"=", "=">> THEN <<"=">> ELSE word

LEMMA ReadOp ==
    /\ \A op : Read(<<op>>) = <<op>>
    /\ \A op : Read(OpWord(op)) = <<AsRead(op)>>
    /\ \A w : Operand(w) => Read(w) = w
BY DEF Read, OpWord, AsRead, Operand

LEMMA SimpleWordsType ==
    ASSUME NEW t, IsTerm(t)
    PROVE  SimpleWords(t) \in Seq(CommandWords) /\ Len(SimpleWords(t)) = Width(t)
<1>1. /\ \A op \in UnaryOps : <<op>> \in CommandWords
      /\ \A op \in BinaryOps \cup {"=="} : OpWord(op) \in CommandWords
    BY DEF OpWord, CommandWords, OpWords
<1>2. \A w : Operand(w) => w \in CommandWords
    BY DEF Operand, CommandWords
<1>3. CASE t.is = "string"
    <2>1. SimpleWords(t) = <<t.arg>> /\ t.arg \in CommandWords
        BY <1>2, <1>3 DEF SimpleWords, IsTerm, InFront
    <2> QED BY <1>3, <2>1 DEF Width
<1>4. CASE t.is = "unary"
    <2>1. SimpleWords(t) = <<<<t.op>>, t.arg>> /\ <<t.op>> \in CommandWords /\ t.arg \in CommandWords
        BY <1>1, <1>2, <1>4 DEF SimpleWords, IsTerm
    <2> QED BY <1>4, <2>1 DEF Width
<1>5. CASE t.is = "binary"
    <2>1. SimpleWords(t) = <<t.left, OpWord(t.op), t.right>>
          /\ t.left \in CommandWords /\ OpWord(t.op) \in CommandWords /\ t.right \in CommandWords
        BY <1>1, <1>2, <1>5 DEF SimpleWords, IsTerm, InFront
    <2> QED BY <1>5, <2>1 DEF Width
<1> QED BY <1>3, <1>4, <1>5 DEF IsTerm

LEMMA TermWordsType ==
    ASSUME NEW t, IsTerm(t)
    PROVE  /\ TermWords(t) \in Seq(CommandWords) /\ Len(TermWords(t)) = t.nots + Width(t)
           /\ t.nots \in Nat /\ Width(t) \in {1, 2, 3}
           /\ \A k \in 1..t.nots : TermWords(t)[k] = <<"!">>
           /\ \A k \in 1..Width(t) : TermWords(t)[t.nots + k] = SimpleWords(t)[k]
<1> DEFINE m == t.nots
           nots == [i \in 1..m |-> <<"!">>]
           s == SimpleWords(t)
<1>1. m \in Nat /\ Width(t) \in {1, 2, 3}
    BY DEF IsTerm, Width
<1>2. s \in Seq(CommandWords) /\ Len(s) = Width(t)
    BY SimpleWordsType
<1>3. <<"!">> \in CommandWords
    BY DEF CommandWords, OpWords
<1> HIDE DEF m, s
<1>4. nots \in Seq(CommandWords) /\ Len(nots) = m
    BY <1>1, <1>3
<1>5. \A k \in 1..m : nots[k] = <<"!">>
    OBVIOUS
<1>6. TermWords(t) = nots \o s
    BY DEF TermWords, m, s
<1> HIDE DEF nots
<1>7. nots \o s \in Seq(CommandWords) /\ Len(nots \o s) = m + Len(s)
    BY <1>2, <1>4
<1>8. /\ \A k \in 1..m : (nots \o s)[k] = nots[k]
      /\ \A k \in 1..Len(s) : (nots \o s)[m + k] = s[k]
    BY <1>2, <1>4
<1> QED BY <1>1, <1>2, <1>5, <1>6, <1>7, <1>8 DEF m, s

LEMMA SimpleFits ==
    ASSUME NEW a, NEW n \in Nat, NEW j \in Nat, NEW t, IsTerm(t), j + Width(t) <= n + 1,
           \A k \in 1..Width(t) : a[j + k - 1] = Read(SimpleWords(t)[k]),
           j + Width(t) <= n => ~IsOp(a[j + Width(t)], BinaryOps)
    PROVE  Fits(a, n, j, t)
<1>1. CASE t.is = "string"
    <2>1. Width(t) = 1 /\ SimpleWords(t)[1] = t.arg
        BY <1>1 DEF Width, SimpleWords
    <2>2. a[j] = Read(t.arg) /\ (j + 1 <= n => ~IsOp(a[j + 1], BinaryOps))
        BY <2>1
    <2>3. Read(t.arg) = t.arg
        BY <1>1, ReadOp DEF IsTerm, InFront
    <2> QED BY <1>1, <2>1, <2>2, <2>3 DEF Fits
<1>2. CASE t.is = "unary"
    <2>1. Width(t) = 2 /\ SimpleWords(t)[1] = <<t.op>> /\ SimpleWords(t)[2] = t.arg
        BY <1>2 DEF Width, SimpleWords
    <2>2. a[j] = Read(<<t.op>>) /\ a[j + 1] = Read(t.arg)
        BY <2>1
    <2>3. Read(t.arg) = t.arg /\ Read(<<t.op>>) = <<t.op>>
        BY <1>2, ReadOp DEF IsTerm
    <2> QED BY <1>2, <2>1, <2>2, <2>3 DEF Fits
<1>3. CASE t.is = "binary"
    <2>1. Width(t) = 3 /\ SimpleWords(t)[1] = t.left /\ SimpleWords(t)[2] = OpWord(t.op)
          /\ SimpleWords(t)[3] = t.right
        BY <1>3 DEF Width, SimpleWords
    <2>2. a[j] = Read(t.left) /\ a[j + 1] = Read(OpWord(t.op)) /\ a[j + 2] = Read(t.right)
        BY <2>1
    <2>3. Read(t.left) = t.left /\ Read(t.right) = t.right /\ Read(OpWord(t.op)) = <<AsRead(t.op)>>
        BY <1>3, ReadOp DEF IsTerm, InFront
    <2> QED BY <1>3, <2>1, <2>2, <2>3 DEF Fits
<1> QED BY <1>1, <1>2, <1>3 DEF IsTerm

LEMMA TermStands ==
    ASSUME NEW a, NEW n \in Nat, NEW i \in 1..n, NEW t, IsTerm(t), i + t.nots + Width(t) <= n + 1,
           \A k \in 1..t.nots + Width(t) : a[i + k - 1] = Read(TermWords(t)[k]),
           i + t.nots + Width(t) <= n => ~IsOp(a[i + t.nots + Width(t)], BinaryOps)
    PROVE  TermFits(a, n, i, t)
<1> DEFINE m == t.nots
           w == Width(t)
<1>1. m \in Nat /\ w \in {1, 2, 3}
    BY TermWordsType
<1>2. \A k \in 1..m : TermWords(t)[k] = <<"!">>
    BY TermWordsType
<1>3. \A k \in 1..w : TermWords(t)[m + k] = SimpleWords(t)[k]
    BY TermWordsType
<1>4. \A k \in 1..m + w : a[i + k - 1] = Read(TermWords(t)[k])
    OBVIOUS
<1>5. i + m + w <= n + 1 /\ (i + m + w <= n => ~IsOp(a[i + m + w], BinaryOps))
    OBVIOUS
<1> HIDE DEF m, w
<1>6. ASSUME NEW k \in i..i + m - 1 PROVE a[k] = <<"!">>
    <2> DEFINE l == k - i + 1
    <2>1. l \in 1..m /\ l \in 1..m + w /\ i + l - 1 = k
        BY <1>1
    <2> HIDE DEF l
    <2>2. a[k] = Read(<<"!">>)
        BY <1>2, <1>4, <2>1
    <2> QED BY <2>2, ReadOp
<1>7. ASSUME NEW k \in 1..w PROVE a[(i + m) + k - 1] = Read(SimpleWords(t)[k])
    <2>1. m + k \in 1..m + w /\ i + (m + k) - 1 = (i + m) + k - 1
        BY <1>1
    <2> QED BY <1>3, <1>4, <2>1
<1>8. Fits(a, n, i + m, t)
    <2>1. i + m \in Nat /\ (i + m) + w <= n + 1 /\ ((i + m) + w <= n => ~IsOp(a[(i + m) + w], BinaryOps))
        BY <1>1, <1>5
    <2> QED BY <1>7, <2>1, SimpleFits DEF w
<1> QED BY <1>6, <1>8 DEF TermFits, m

LEMMA Concatenated ==
    ASSUME NEW s \in Seq(CommandWords), NEW u \in Seq(CommandWords)
    PROVE  /\ s \o u \in Seq(CommandWords) /\ Len(s \o u) = Len(s) + Len(u)
           /\ Len(s) \in Nat /\ Len(u) \in Nat
           /\ \A k \in 1..Len(s) : (s \o u)[k] = s[k]
           /\ \A k \in 1..Len(u) : (s \o u)[Len(s) + k] = u[k]
OBVIOUS

LEMMA WordsOfTerm ==
    ASSUME NEW e, IsExpression(e), e.is = "term"
    PROVE  WordsOf(e) = TermWords(e.left) /\ IsTerm(e.left)
BY DEF WordsOf, IsExpression

LEMMA WordsOfBoth ==
    ASSUME NEW e, IsExpression(e), e.is = "both",
           NEW p, p = 1 + e.left.nots + Width(e.left)
    PROVE  /\ WordsOf(e) \in Seq(CommandWords) /\ p \in Nat
           /\ Len(WordsOf(e)) = p + e.right.nots + Width(e.right)
           /\ \A k \in 1..p - 1 : WordsOf(e)[k] = TermWords(e.left)[k]
           /\ WordsOf(e)[p] = <<e.op>>
           /\ \A k \in 1..e.right.nots + Width(e.right) : WordsOf(e)[p + k] = TermWords(e.right)[k]
<1> DEFINE l == TermWords(e.left)
           r == TermWords(e.right)
           o == <<<<e.op>>>>
<1>1. e.op \in {"-a", "-o"} /\ IsTerm(e.left) /\ IsTerm(e.right)
    BY DEF IsExpression
<1>2. /\ l \in Seq(CommandWords) /\ Len(l) = e.left.nots + Width(e.left)
      /\ e.left.nots \in Nat /\ Width(e.left) \in {1, 2, 3}
    BY <1>1, TermWordsType
<1>3. /\ r \in Seq(CommandWords) /\ Len(r) = e.right.nots + Width(e.right)
      /\ e.right.nots \in Nat /\ Width(e.right) \in {1, 2, 3}
    BY <1>1, TermWordsType
<1>4. <<e.op>> \in CommandWords
    BY <1>1 DEF CommandWords, OpWords
<1>5. o \in Seq(CommandWords) /\ Len(o) = 1 /\ o[1] = <<e.op>>
    BY <1>4
<1>6. WordsOf(e) = l \o o \o r
    BY DEF WordsOf
<1> DEFINE lo == l \o o
<1> HIDE DEF l, o, r
<1>7. /\ lo \in Seq(CommandWords) /\ Len(lo) = Len(l) + Len(o) /\ Len(l) \in Nat
      /\ \A k \in 1..Len(l) : lo[k] = l[k]
      /\ \A k \in 1..Len(o) : lo[Len(l) + k] = o[k]
    BY <1>2, <1>5, Concatenated
<1>8. lo \in Seq(CommandWords)
    BY <1>7
<1> HIDE DEF lo
<1>9. /\ lo \o r \in Seq(CommandWords) /\ Len(lo \o r) = Len(lo) + Len(r) /\ Len(lo) \in Nat
      /\ \A k \in 1..Len(lo) : (lo \o r)[k] = lo[k]
      /\ \A k \in 1..Len(r) : (lo \o r)[Len(lo) + k] = r[k]
    BY <1>3, <1>8, Concatenated
<1>10. p \in Nat /\ Len(l) = p - 1 /\ Len(l) + 1 = p
    <2>1. Len(l) \in Nat
        BY <1>7
    <2>2. p = 1 + Len(l)
        BY <1>2
    <2> QED BY <2>1, <2>2
<1>11. Len(lo) = p /\ 1 \in 1..Len(o) /\ p \in 1..p /\ \A k \in 1..p - 1 : k \in 1..p
    BY <1>5, <1>7, <1>10
<1>12. lo[p] = <<e.op>>
    BY <1>5, <1>7, <1>10, <1>11
<1>13. WordsOf(e) = lo \o r
    BY <1>6 DEF lo
<1>14. Len(WordsOf(e)) = p + e.right.nots + Width(e.right)
    BY <1>3, <1>9, <1>10, <1>11, <1>13
<1>15. \A k \in 1..p - 1 : WordsOf(e)[k] = l[k]
    BY <1>7, <1>9, <1>10, <1>11, <1>13
<1>16. WordsOf(e)[p] = <<e.op>>
    BY <1>9, <1>11, <1>12, <1>13
<1>17. \A k \in 1..e.right.nots + Width(e.right) : WordsOf(e)[p + k] = r[k]
    BY <1>3, <1>9, <1>11, <1>13
<1> QED BY <1>9, <1>10, <1>13, <1>14, <1>15, <1>16, <1>17 DEF l, r

\* The words as they are read.
ReadAll(words) == [i \in DOMAIN words |-> Read(words[i])]

LEMMA ReadAllType ==
    ASSUME NEW words \in Seq(CommandWords)
    PROVE  /\ Len(ReadAll(words)) = Len(words) /\ Len(words) \in Nat
           /\ \A i \in 1..Len(words) : ReadAll(words)[i] = Read(words[i])
<1>1. \A i \in 1..Len(words) : Read(words[i]) \in CommandWords
    BY DEF Read, CommandWords, OpWords, BinaryOps
<1>2. ReadAll(words) \in Seq(CommandWords) /\ Len(ReadAll(words)) = Len(words)
    BY <1>1 DEF ReadAll
<1> QED BY <1>2 DEF ReadAll

LEMMA TermRead ==
    ASSUME NEW e, IsExpression(e), e.is = "term", NEW files
    PROVE  /\ WordsOf(e) \in Seq(CommandWords) /\ WordsOf(e) # <<>>
           /\ eval_test(ReadAll(WordsOf(e)), files) = ResultOf(Meaning(e, files), Len(WordsOf(e)) + 1)
           /\ Meaning(e, files) \in {0, 1, 2}
<1> DEFINE t == e.left
           words == WordsOf(e)
           a == ReadAll(words)
           n == Len(words)
<1>1. words = TermWords(t) /\ IsTerm(t)
    BY WordsOfTerm
<1>2. words \in Seq(CommandWords) /\ n = t.nots + Width(t) /\ t.nots \in Nat /\ Width(t) \in {1, 2, 3}
    BY <1>1, TermWordsType
<1>3. Len(a) = n /\ n \in Nat /\ \A i \in 1..n : a[i] = Read(words[i])
    BY <1>2, ReadAllType
<1>4. Meaning(e, files) = TermMeaning(t, files)
    BY DEF Meaning
<1> HIDE DEF words, a, n
<1>5. 1 \in 1..n /\ 1 + t.nots + Width(t) = n + 1 /\ ~(1 + t.nots + Width(t) <= n)
    BY <1>2, <1>3
<1>6. \A k \in 1..t.nots + Width(t) : a[1 + k - 1] = Read(TermWords(t)[k])
    BY <1>1, <1>2, <1>3
<1>7. TermFits(a, n, 1, t)
    BY <1>1, <1>3, <1>5, <1>6, TermStands
<1>8. eval_test(a, files) = ResultOf(TermMeaning(t, files), n + 1)
    BY <1>1, <1>2, <1>3, <1>7, SingleEvaluates
<1>9. TermMeaning(t, files) \in {0, 1, 2}
    BY <1>1, <1>3, <1>5, <1>7, TermEvaluates
<1>10. words # <<>>
    BY <1>2, <1>5 DEF n
<1> QED BY <1>2, <1>4, <1>8, <1>9, <1>10 DEF words, a, n

LEMMA BothRead ==
    ASSUME NEW e, IsExpression(e), e.is = "both", NEW files
    PROVE  /\ WordsOf(e) \in Seq(CommandWords) /\ WordsOf(e) # <<>>
           /\ eval_test(ReadAll(WordsOf(e)), files) = ResultOf(Meaning(e, files), Len(WordsOf(e)) + 1)
           /\ Meaning(e, files) \in {0, 1, 2}
<1> DEFINE l == e.left
           r == e.right
           leftWidth == l.nots + Width(l)
           rightWidth == r.nots + Width(r)
           p == 1 + leftWidth
           words == WordsOf(e)
           a == ReadAll(words)
           n == Len(words)
<1>1. e.op \in {"-a", "-o"} /\ IsTerm(l) /\ IsTerm(r)
    BY DEF IsExpression
<1>2. l.nots \in Nat /\ Width(l) \in {1, 2, 3} /\ r.nots \in Nat /\ Width(r) \in {1, 2, 3}
    BY <1>1, TermWordsType
<1>3. leftWidth \in Nat \ {0} /\ rightWidth \in Nat \ {0}
      /\ \A i \in Nat : i + l.nots + Width(l) = i + leftWidth /\ i + r.nots + Width(r) = i + rightWidth
    BY <1>2
<1>4. p = 1 + l.nots + Width(l)
    BY <1>2
<1>5. /\ words \in Seq(CommandWords) /\ p \in Nat
      /\ n = p + r.nots + Width(r)
      /\ \A k \in 1..p - 1 : words[k] = TermWords(l)[k]
      /\ words[p] = <<e.op>>
      /\ \A k \in 1..rightWidth : words[p + k] = TermWords(r)[k]
    <2> HIDE DEF p, words, n
    <2> QED BY <1>4, WordsOfBoth DEF words, n
<1>6. Len(a) = n /\ n \in Nat /\ \A i \in 1..n : a[i] = Read(words[i])
    BY <1>5, ReadAllType
<1> HIDE DEF words, a, n, leftWidth, rightWidth
<1>7. n = p + rightWidth /\ p - 1 = leftWidth
    <2>1. p = 1 + leftWidth
        OBVIOUS
    <2> HIDE DEF p
    <2>2. p + r.nots + Width(r) = p + rightWidth
        BY <1>3, <1>5
    <2> QED BY <1>3, <1>5, <2>1, <2>2
<1> HIDE DEF p
<1>8. p \in 2..n - 1 /\ 1 \in 1..n /\ p + 1 \in 1..n /\ p \in 1..n /\ p \in Nat
    <2>1. leftWidth \in Nat /\ leftWidth >= 1 /\ rightWidth \in Nat /\ rightWidth >= 1
        BY <1>3
    <2>2. p \in Nat /\ n = p + rightWidth /\ p - 1 = leftWidth
        BY <1>5, <1>7
    <2>3. p >= 2 /\ p + 1 <= n /\ n \in Nat
        BY <2>1, <2>2
    <2> QED BY <2>2, <2>3
<1>9. a[p] = <<e.op>>
    BY <1>5, <1>6, <1>8, ReadOp
<1>10. TermFits(a, n, 1, l)
    <2>1. \A k \in 1..leftWidth : a[1 + k - 1] = Read(TermWords(l)[k])
        <3>1. ASSUME NEW k \in 1..leftWidth
              PROVE  1 + k - 1 = k /\ k \in 1..p - 1 /\ k \in 1..n
            BY <1>3, <1>7, <1>8
        <3> QED BY <1>5, <1>6, <3>1
    <2>2. ~IsOp(a[p], BinaryOps)
        BY <1>1, <1>9 DEF IsOp, BinaryOps, Comparisons
    <2>3. p <= n + 1
        BY <1>6, <1>8
    <2> QED BY <1>1, <1>4, <1>6, <1>8, <2>1, <2>2, <2>3, TermStands DEF leftWidth
<1>11. TermFits(a, n, p + 1, r)
    <2>1. \A k \in 1..rightWidth : a[(p + 1) + k - 1] = Read(TermWords(r)[k])
        <3>1. ASSUME NEW k \in 1..rightWidth
              PROVE  (p + 1) + k - 1 = p + k /\ p + k \in 1..n
            BY <1>3, <1>7, <1>8
        <3> QED BY <1>5, <1>6, <3>1
    <2>2. (p + 1) + r.nots + Width(r) = (p + 1) + rightWidth
        BY <1>3, <1>8
    <2>3. (p + 1) + rightWidth = n + 1 /\ n + 1 <= n + 1 /\ ~(n + 1 <= n)
        BY <1>3, <1>6, <1>7, <1>8
    <2> QED BY <1>1, <1>6, <1>8, <2>1, <2>2, <2>3, TermStands DEF rightWidth
<1>12. eval_test(a, files) = ResultOf(Meaning(e, files), n + 1)
    <2>1. p = 1 + e.left.nots + Width(e.left) /\ n = p + e.right.nots + Width(e.right)
        BY <1>4, <1>5
    <2>2. p \in 2..n - 1 /\ n \in Nat /\ Len(a) = n
        BY <1>6, <1>8
    <2>3. TermFits(a, n, 1, e.left) /\ TermFits(a, n, p + 1, e.right)
        BY <1>10, <1>11
    <2> HIDE DEF l, r
    <2> QED BY <1>9, <2>1, <2>2, <2>3, BothEvaluates
<1>13. Meaning(e, files) \in {0, 1, 2}
    <2>1. \A b : Truth(b) \in {0, 1}
        BY DEF Truth
    <2> QED BY <2>1 DEF Meaning
<1>14. words # <<>>
    BY <1>6, <1>8 DEF n
<1> QED BY <1>5, <1>12, <1>13, <1>14 DEF words, a, n

-----------------------------------------------------------------------------
(* The command: its name in front, and behind [ the bracket that closes it. *)

CommandOf(name, words) == <<name>> \o words \o EndingBracket(name)

LEMMA CommandStands ==
    ASSUME NEW words \in Seq(CommandWords), NEW name \in TestNames,
           NEW argv, argv = CommandOf(name, words)
    PROVE  /\ Len(argv) = Len(words) + 1 + Len(EndingBracket(name)) /\ Len(words) \in Nat
           /\ argv[1] = name
           /\ SubSeq(argv, 2, Len(words) + 1) = words
           /\ name # <<"test">> => /\ Len(EndingBracket(name)) = 1
                                   /\ Last(argv) = [i \in DOMAIN name |-> "]"]
           /\ name = <<"test">> => Len(EndingBracket(name)) = 0
<1> DEFINE c == EndingBracket(name)
           front == <<name>> \o words
           m == Len(words)
<1>1. <<name>> \in Seq(CommandWords) /\ Len(<<name>>) = 1 /\ <<name>>[1] = name
    BY DEF CommandWords
<1>2. c \in Seq(CommandWords)
    <2>1. [i \in DOMAIN name |-> "]"] \in CommandWords
        BY DEF CommandWords, Brackets
    <2> QED BY <2>1 DEF EndingBracket
<1>3. /\ name = <<"test">> => Len(c) = 0
      /\ name # <<"test">> => Len(c) = 1 /\ c[1] = [i \in DOMAIN name |-> "]"]
    BY DEF EndingBracket
<1> HIDE DEF c
<1>4. /\ front \in Seq(CommandWords) /\ Len(front) = 1 + m /\ m \in Nat
      /\ front[1] = name
      /\ \A k \in 1..m : front[1 + k] = words[k]
    BY <1>1, Concatenated
<1> HIDE DEF front
<1>5. /\ front \o c \in Seq(CommandWords)
      /\ Len(front \o c) = Len(front) + Len(c) /\ Len(c) \in Nat
      /\ \A k \in 1..Len(front) : (front \o c)[k] = front[k]
      /\ \A k \in 1..Len(c) : (front \o c)[Len(front) + k] = c[k]
    BY <1>2, <1>4, Concatenated
<1>6. argv = front \o c
    BY DEF front, c, CommandOf
<1> HIDE DEF m
<1>7. argv \in Seq(CommandWords) /\ Len(argv) = m + 1 + Len(c) /\ argv[1] = name
    <2>1. Len(argv) = Len(front) + Len(c) /\ 1 \in 1..Len(front)
        BY <1>4, <1>5, <1>6
    <2>2. argv[1] = front[1]
        BY <1>5, <1>6, <2>1
    <2>3. Len(argv) = m + 1 + Len(c)
        BY <1>4, <1>5, <2>1
    <2> QED BY <1>4, <1>5, <1>6, <2>2, <2>3
<1>8. \A k \in 1..m : argv[k + 1] = words[k]
    <2>1. ASSUME NEW k \in 1..m PROVE k + 1 \in 1..1 + m /\ k + 1 = 1 + k
        BY <1>4
    <2> QED BY <1>4, <1>5, <1>6, <2>1
<1>9. SubSeq(argv, 2, m + 1) = words
    <2>1. /\ SubSeq(argv, 2, m + 1) \in Seq(CommandWords)
          /\ Len(SubSeq(argv, 2, m + 1)) = m
          /\ \A k \in 1..m : SubSeq(argv, 2, m + 1)[k] = argv[k + 1]
        BY <1>4, <1>5, <1>7
    <2> QED BY <1>8, <2>1 DEF m
<1>10. ASSUME name # <<"test">> PROVE Last(argv) = [i \in DOMAIN name |-> "]"]
    <2>1. Len(c) = 1 /\ 1 \in 1..Len(c) /\ Len(argv) = 1 + m + 1
        <3>1. Len(c) = 1
            BY <1>3, <1>10
        <3>2. m + 1 + Len(c) = 1 + m + 1
            BY <1>4, <3>1
        <3> QED BY <1>7, <3>1, <3>2
    <2>2. argv[Len(argv)] = c[1]
        BY <1>4, <1>5, <1>6, <2>1
    <2> QED BY <1>3, <1>10, <2>2 DEF Last
<1> QED BY <1>3, <1>4, <1>7, <1>9, <1>10 DEF m, c

LEMMA CommandRun ==
    ASSUME NEW words \in Seq(CommandWords), words # <<>>, NEW name \in TestNames, NEW files,
           NEW result, result = eval_test(ReadAll(words), files)
    PROVE  builtin_test(CommandOf(name, words), files)
               = IF result.error THEN 2 ELSE Truth(result.val)
<1> DEFINE argv == CommandOf(name, words)
           m == Len(words)
<1>1. /\ Len(argv) = m + 1 + Len(EndingBracket(name)) /\ m \in Nat /\ argv[1] = name
      /\ SubSeq(argv, 2, m + 1) = words
      /\ name # <<"test">> => /\ Len(EndingBracket(name)) = 1
                              /\ Last(argv) = [i \in DOMAIN name |-> "]"]
      /\ name = <<"test">> => Len(EndingBracket(name)) = 0
    BY CommandStands
<1> HIDE DEF argv, m
<1> DEFINE bracket == argv[1] \in {<<"[">>, <<"[", "[">>}
           closed == Len(argv) > 1 /\ Last(argv) = [i \in DOMAIN argv[1] |-> "]"]
           inner == SubSeq(argv, 2, IF bracket THEN Len(argv) - 1 ELSE Len(argv))
           normalized == [i \in DOMAIN inner |-> IF inner[i] = <<"=", "=">> THEN <<"=">> ELSE inner[i]]
<1>2. bracket <=> name # <<"test">>
    <2>1. <<"test">> # <<"[">> /\ <<"test">> # <<"[", "[">>
        OBVIOUS
    <2> QED BY <1>1, <2>1 DEF TestNames
<1>3. bracket => closed
    <2>1. name # <<"test">> => Len(argv) > 1
        BY <1>1
    <2> QED BY <1>1, <1>2, <2>1
<1>4. inner = words
    <2>1. (IF bracket THEN Len(argv) - 1 ELSE Len(argv)) = m + 1
        <3> HIDE DEF bracket
        <3>1. CASE name = <<"test">>
            <4>1. Len(EndingBracket(name)) = 0 /\ ~bracket
                BY <1>1, <1>2, <3>1
            <4> QED BY <1>1, <4>1
        <3>2. CASE name # <<"test">>
            <4>1. Len(EndingBracket(name)) = 1 /\ bracket
                BY <1>1, <1>2, <3>2
            <4>2. Len(argv) = m + 1 + 1
                BY <1>1, <4>1
            <4> QED BY <1>1, <4>1, <4>2
        <3> QED BY <3>1, <3>2
    <2> QED BY <1>1, <2>1
<1> HIDE DEF bracket, closed, inner
<1>5. normalized = ReadAll(words)
    BY <1>4 DEF ReadAll, Read
<1>6. builtin_test(argv, files)
          = IF bracket /\ ~closed THEN 2
            ELSE IF inner = <<>> THEN 1
            ELSE IF eval_test(normalized, files).error THEN 2
            ELSE Truth(eval_test(normalized, files).val)
    BY DEF builtin_test, bracket, closed, inner, normalized
<1> HIDE DEF normalized
<1> QED BY <1>3, <1>4, <1>5, <1>6 DEF argv

\* Whatever expression it is given, of any words, test (and [ with its bracket)
\* ends with the status that its comment promises: 0 or 1 as the expression is
\* true or false, an even number of !s changing nothing, and 2 for a comparison of
\* what is no number.  (src/src/test_builtin.c: builtin_test)
THEOREM TestCorrect ==
    ASSUME NEW e, IsExpression(e), NEW name \in TestNames, NEW files
    PROVE  builtin_test(TestCommand(name, e), files) = Meaning(e, files)
<1> DEFINE words == WordsOf(e)
           n == Len(words)
           result == eval_test(ReadAll(words), files)
<1>1. /\ words \in Seq(CommandWords) /\ words # <<>>
      /\ result = ResultOf(Meaning(e, files), n + 1)
      /\ Meaning(e, files) \in {0, 1, 2}
    <2>1. CASE e.is = "term"
        BY <2>1, TermRead
    <2>2. CASE e.is = "both"
        BY <2>2, BothRead
    <2> QED BY <2>1, <2>2 DEF IsExpression
<1> HIDE DEF words, n, result
<1>2. builtin_test(TestCommand(name, e), files) = IF result.error THEN 2 ELSE Truth(result.val)
    <2>1. result = eval_test(ReadAll(words), files)
        BY DEF result
    <2>2. TestCommand(name, e) = CommandOf(name, words)
        BY DEF TestCommand, CommandOf, words
    <2> QED BY <1>1, <2>1, <2>2, CommandRun
<1>3. CASE Meaning(e, files) = 2
    <2>1. result.error
        BY <1>1, <1>3 DEF ResultOf, Malformed
    <2> QED BY <1>2, <1>3, <2>1
<1>4. CASE Meaning(e, files) \in {0, 1}
    <2>1. ~result.error /\ (result.val <=> Meaning(e, files) = 0)
        <3> DEFINE m == Meaning(e, files)
        <3>1. m # 2 /\ (m = 0) \in BOOLEAN
            BY <1>4
        <3> HIDE DEF m
        <3>2. result = Value(m = 0, n + 1)
            <4>1. result = ResultOf(m, n + 1)
                BY <1>1 DEF m
            <4> QED BY <3>1, <4>1 DEF ResultOf
        <3>3. result.val = (m = 0) /\ result.error = FALSE
            BY <3>2, Zenon DEF Value
        <3> QED BY <3>1, <3>3 DEF m
    <2>2. Truth(result.val) = Meaning(e, files)
        BY <1>4, <2>1 DEF Truth
    <2> QED BY <1>2, <2>1, <2>2
<1> QED BY <1>1, <1>3, <1>4
=============================================================================
