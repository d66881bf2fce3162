------------------------------ MODULE Scanning ------------------------------
(***************************************************************************)
(* What the scanners of acsh share.  A text is a sequence of symbols: a    *)
(* blank, a newline, a quote, a bracket, an operator, or a word without    *)
(* any of them ("while", "echo"), which stands for its characters.  As in  *)
(* the code a scan goes from a position to a limit that it does not reach, *)
(* and answers 0, the code's NULL, when it finds nothing.                  *)
(***************************************************************************)
EXTENDS Integers, Sequences, SequencesExt

CONSTANT Symbols

ASSUME ScanningAssumption == "nl" \in Symbols

Texts == Seq(Symbols)

Quotes == {"'", "\""}
Blanks == {" ", "nl", ";"}
Backquote == "bq"
EndOfText == "end"
Digits == <<"0", "1", "2", "3", "4", "5", "6", "7", "8", "9">>

\* The words that begin a block.
Openers == {"if", "while", "until", "for", "case"}

\* What read_word puts for the quotes of '...', and for an escaped $.
SQ_START == "<sq"
SQ_END == "sq>"
ESCAPED_DOLLAR == "<$"

\* What is_var_char does not accept.
NotInName == {" ", "$", "{", "}", "(", ")", "'", "\"", Backquote, "/", "*", "?", "#", "@", ";", "&",
              "|", "<", ">", "\\", "~", "=", "nl", ESCAPED_DOLLAR, SQ_START, SQ_END}

\* *p of a string: its symbol, or the end.
At(t, p) == IF p \in DOMAIN t THEN t[p] ELSE EndOfText

\* The first symbol of S from p on, quoted or not.
NextOf(t, p, limit, S) == SelectInSubSeq(t, p, limit - 1, LAMBDA c : c \in S)

\* A mutant: a quote is a character like another.
QuoteIgnored(t, p, limit) == p + 1

\* in_quote of every scan: just past the quote that closes the one at p, or the
\* limit when none does.
AfterQuote(t, p, limit) ==
    LET close == NextOf(t, p + 1, limit, {t[p]}) IN
    IF close = 0 THEN limit ELSE close + 1
=============================================================================
