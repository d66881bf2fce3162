------------------------------ MODULE TestExpr ------------------------------
(***************************************************************************)
(* test and [ (src/test_builtin.c): a primary, or two joined by -a or -o,  *)
(* read from the words of a command.  Beside it, what its comment and that *)
(* of the code say that an expression means, as a tree.                    *)
(***************************************************************************)
EXTENDS Scanning

FileTests == {"-f", "-d", "-e", "-r", "-w", "-x", "-s"}
Comparisons == {"-eq", "-ne", "-lt", "-le", "-gt", "-ge"}
BinaryOps == {"=", "!="} \cup Comparisons

\* A word that is one symbol, as every operator is.
IsOp(word, S) == Len(word) = 1 /\ word[1] \in S

Unsigned(word) == IF At(word, 1) \in {"-", "+"} THEN Tail(word) ELSE word
is_numeric(word) == Unsigned(word) # <<>> /\ ToSet(Unsigned(word)) \subseteq ToSet(Digits)
atol(word) ==
    LET n == FoldLeft(LAMBDA v, c : 10 * v + SelectInSeq(Digits, LAMBDA d : d = c) - 1,
                      0, Unsigned(word))
    IN  IF word[1] = "-" THEN 0 - n ELSE n

Compare(op, l, r) ==
    CASE op = "-eq" -> l = r
      [] op = "-ne" -> l # r
      [] op = "-lt" -> l < r
      [] op = "-le" -> l <= r
      [] op = "-gt" -> l > r
      [] op = "-ge" -> l >= r

\* What eval_primary leaves: its value, *idx and *error.
Value(val, at) == [val |-> val, at |-> at, error |-> FALSE]
Malformed == [val |-> FALSE, at |-> 0, error |-> TRUE]

UnaryOps == {"-z", "-n"} \cup FileTests
IsBinary(a, i) == i + 1 < Len(a) /\ IsOp(a[i + 1], BinaryOps)

\* A unary test of a word; files says which paths pass which file test.
Holds(op, word, files) ==
    IF op = "-z" THEN word = <<>> ELSE IF op = "-n" THEN word # <<>> ELSE <<op, word>> \in files

\* The binary test at i.
EvalBinary(a, i) ==
    LET l == a[i]
        r == a[i + 2]
        op == a[i + 1][1]
    IN  CASE op = "=" -> Value(l = r, i + 3)
          [] op = "!=" -> Value(l # r, i + 3)
          [] OTHER -> IF is_numeric(l) /\ is_numeric(r)
                      THEN Value(Compare(op, atol(l), atol(r)), i + 3) ELSE Malformed

\* eval_primary behind its !s, and at i: a ! negates what follows it.
EvalSimple(a, i, files) ==
    CASE i > Len(a) -> Malformed
      [] i <= Len(a) /\ IsOp(a[i], UnaryOps) ->
           IF i = Len(a) THEN Malformed ELSE Value(Holds(a[i][1], a[i + 1], files), i + 2)
      [] i <= Len(a) /\ ~IsOp(a[i], UnaryOps) /\ IsBinary(a, i) -> EvalBinary(a, i)
      [] OTHER -> Value(a[i] # <<>>, i + 1)
Negated(inner) == IF inner.error THEN Malformed ELSE Value(~inner.val, inner.at)
eval_primary(a, i, files) ==
    LET primary[j \in 1..Len(a) + 1] ==
            IF j <= Len(a) /\ IsOp(a[j], {"!"}) THEN Negated(primary[j + 1])
            ELSE EvalSimple(a, j, files)
    IN  primary[i]

\* A mutant: -o does not look at its right operand when the left one is true.
eval_test_lazy(a, files) ==
    LET left == eval_primary(a, 1, files)
        right == eval_primary(a, left.at + 1, files)
    IN  IF left.error \/ left.at > Len(a) \/ (a[left.at] = <<"-o">> /\ left.val) THEN left
        ELSE IF ~IsOp(a[left.at], {"-a", "-o"}) \/ right.error THEN Malformed
        ELSE Value(IF a[left.at] = <<"-a">> THEN left.val /\ right.val
                   ELSE right.val, right.at)

eval_test(a, files) ==
    LET left == eval_primary(a, 1, files)
        right == eval_primary(a, left.at + 1, files)
    IN  IF left.error \/ left.at > Len(a) THEN left
        ELSE IF ~IsOp(a[left.at], {"-a", "-o"}) \/ right.error THEN Malformed
        ELSE Value(IF a[left.at] = <<"-a">> THEN left.val /\ right.val
                   ELSE left.val \/ right.val, right.at)

Truth(b) == IF b THEN 0 ELSE 1

\* builtin_test: the status of the command argv.
builtin_test(argv, files) ==
    LET bracket == argv[1] \in {<<"[">>, <<"[", "[">>}
        closed == Len(argv) > 1 /\ Last(argv) = [i \in DOMAIN argv[1] |-> "]"]
        inner == SubSeq(argv, 2, IF bracket THEN Len(argv) - 1 ELSE Len(argv))
        normalized == [i \in DOMAIN inner |-> IF inner[i] = <<"=", "=">> THEN <<"=">> ELSE inner[i]]
        result == eval_test(normalized, files)
    IN  IF bracket /\ ~closed THEN 2
        ELSE IF inner = <<>> THEN 1
        ELSE IF result.error THEN 2 ELSE Truth(result.val)

-----------------------------------------------------------------------------
(* The documented meaning.  An expression is a term, or two that -a or -o  *)
(* joins; a term is a string or a test of words, behind any number of !s.  *)

Single(term) == [is |-> "term", left |-> term]
Both(left, op, right) == [is |-> "both", left |-> left, op |-> op, right |-> right]

\* An operand is not ==, which is read as = wherever it stands; one in front is
\* no operator that stands in front either.
Operand(w) == w \in Texts /\ w # <<"=", "=">>
InFront(w) == Operand(w) /\ ~IsOp(w, UnaryOps \cup {"!"})
IsTerm(t) ==
    /\ t.nots \in Nat
    /\ \/ t.is = "string" /\ InFront(t.arg)
       \/ t.is = "unary" /\ t.op \in UnaryOps /\ Operand(t.arg)
       \/ t.is = "binary" /\ t.op \in BinaryOps \cup {"=="} /\ InFront(t.left) /\ Operand(t.right)
IsExpression(e) ==
    \/ e.is = "term" /\ IsTerm(e.left)
    \/ e.is = "both" /\ e.op \in {"-a", "-o"} /\ IsTerm(e.left) /\ IsTerm(e.right)

\* The words of an expression, and of a command that tests it.
OpWord(op) == IF op = "==" THEN <<"=", "=">> ELSE <<op>>
SimpleWords(t) ==
    CASE t.is = "string" -> <<t.arg>>
      [] t.is = "unary" -> <<<<t.op>>, t.arg>>
      [] t.is = "binary" -> <<t.left, OpWord(t.op), t.right>>
TermWords(t) == [i \in 1..t.nots |-> <<"!">>] \o SimpleWords(t)
WordsOf(e) ==
    CASE e.is = "term" -> TermWords(e.left)
      [] e.is = "both" -> TermWords(e.left) \o <<<<e.op>>>> \o TermWords(e.right)
TestNames == {<<"test">>, <<"[">>, <<"[", "[">>}
EndingBracket(name) == IF name = <<"test">> THEN <<>> ELSE <<[i \in DOMAIN name |-> "]"]>>
TestCommand(name, e) == <<name>> \o WordsOf(e) \o EndingBracket(name)

\* 0, 1, or 2 for a comparison of what is no number.
SimpleMeaning(t, files) ==
    CASE t.is = "string" -> Truth(t.arg # <<>>)
      [] t.is = "unary" -> Truth(\/ t.op = "-z" /\ t.arg = <<>>
                                 \/ t.op = "-n" /\ t.arg # <<>>
                                 \/ t.op \in FileTests /\ <<t.op, t.arg>> \in files)
      [] t.is = "binary" ->
           IF t.op \in Comparisons
           THEN IF is_numeric(t.left) /\ is_numeric(t.right)
                THEN Truth(Compare(t.op, atol(t.left), atol(t.right))) ELSE 2
           ELSE Truth((t.left = t.right) = (t.op # "!="))
TermMeaning(t, files) ==
    LET m == SimpleMeaning(t, files)
    IN  IF m = 2 \/ t.nots % 2 = 0 THEN m ELSE 1 - m
Meaning(e, files) ==
    LET l == TermMeaning(e.left, files)
        r == TermMeaning(e.right, files)
    IN  CASE e.is = "term" -> l
          [] e.is = "both" -> IF l = 2 \/ r = 2 THEN 2
                              ELSE IF e.op = "-a" THEN Truth(l = 0 /\ r = 0)
                              ELSE Truth(l = 0 \/ r = 0)
=============================================================================
