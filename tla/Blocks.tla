------------------------------- MODULE Blocks -------------------------------
(***************************************************************************)
(* How acsh finds the parts of a block in its text: the keyword scanners   *)
(* of src/control_flow.c, the way run_statements and the run_*_block       *)
(* functions cut a text with them, when a block that is read line by line  *)
(* is complete, and the braces of a function (src/functions.c).            *)
(* LoopControl says what then runs; here is what is run: a tree.           *)
(***************************************************************************)
EXTENDS Words

\* The words that only one scanner knows: those that open and close a nested
\* block, those it looks for, the ones whose whole block it jumps over, and what
\* a word stands between.
IfBlock == [open |-> {"if"}, close |-> {"fi"}, wanted |-> {"then", "elif", "else", "fi"},
            opaque |-> {"case"}, between |-> Blanks]
LoopBlock == [open |-> {"while", "until", "for", "if"}, close |-> {"done", "fi"},
              wanted |-> {"do", "done"}, opaque |-> {"case"}, between |-> Blanks]
CaseBlock == [open |-> {"case"}, close |-> {"esac"}, wanted |-> {"esac"}, opaque |-> {},
              between |-> Blanks \cup {"(", ")"}]

\* Just past the word that starts at p.
WordEnd(t, p, limit, between) ==
    LET next == NextOf(t, p, limit, between) IN IF next = 0 THEN limit ELSE next

\* The word at p when it is a single symbol: only such a word is a keyword.
WordAt(t, p, limit, between) ==
    IF WordEnd(t, p, limit, between) = p + 1 THEN t[p] ELSE ""

\* The loop of find_next_keyword, has_top_level_fi, find_next_do_done,
\* has_top_level_done and skip_case_block at p: the next wanted keyword of this
\* block.  A word is passed over whole, quotes in it included, and a case to
\* behind its esac, or to the limit when it has none.
Past(esac, limit) == IF esac = 0 THEN limit ELSE esac + 1
RECURSIVE Scan(_, _, _, _, _, _), ScanWord(_, _, _, _, _, _, _)
Scan(t, buf, p, limit, depth, block) ==
    CASE p >= limit -> 0
      [] p < limit /\ t[p] \in Quotes -> Scan(t, buf, AfterQuote(t, p, limit), limit, depth, block)
      [] p < limit /\ t[p] \notin Quotes /\ p # buf /\ At(t, p - 1) \notin block.between ->
           Scan(t, buf, p + 1, limit, depth, block)
      [] OTHER -> ScanWord(t, buf, p, WordEnd(t, p, limit, block.between), limit, depth, block)
ScanWord(t, buf, p, end, limit, depth, block) ==
    LET word == IF end = p + 1 THEN t[p] ELSE ""
        next == IF word \in block.opaque
                THEN Past(Scan(t, p + 1, p + 1, limit, 0, CaseBlock), limit)
                ELSE IF end = p THEN p + 1 ELSE end
        nested == IF word \in block.open THEN depth + 1
                  ELSE IF word \in block.close THEN depth - 1 ELSE depth
    IN  IF word \in block.wanted \ block.open /\ depth = 0 THEN p
        ELSE Scan(t, buf, next, limit, IF nested < 0 THEN 0 ELSE nested, block)

\* find_next_keyword and find_next_do_done from p on.
NextKeyword(t, p, limit, block) == Scan(t, p, p, limit, 0, block)

\* The loop that goes from keyword to keyword, the next one at found, until one
\* closes the block.
RECURSIVE Closer(_, _, _, _, _)
Closer(t, found, limit, block, keyword) ==
    IF found = 0 \/ At(t, found) = keyword THEN found
    ELSE Closer(t, NextKeyword(t, found + 1, limit, block), limit, block, keyword)

BlockOf(opener) == IF opener = "if" THEN IfBlock ELSE LoopBlock
CloserOf(opener) == IF opener = "if" THEN "fi" ELSE "done"

-----------------------------------------------------------------------------
(* The parts of a block, as stretches [from, end) of its text.             *)

Stretch(from, end) == [from |-> from, end |-> end]
Nothing == Stretch(0, 0)

\* A clause: what it tests, statements or patterns, and what it then runs.
Part(cond, patterns, body) == [cond |-> cond, patterns |-> patterns, body |-> body]
Broken == Part(Nothing, Nothing, Stretch(0, 1))

\* The first position from p on that is not one of S.
Skip(t, p, limit, S) ==
    LET next == SelectInSubSeq(t, p, limit - 1, LAMBDA c : c \notin S)
    IN  IF next = 0 THEN limit ELSE next

\* run_if_block from the condition at p on; else has no condition.
RECURSIVE IfParts(_, _, _, _)
ElsePart(t, from, fi) ==
    IF At(t, fi) = "fi" THEN <<Part(Nothing, Nothing, Stretch(from, fi))>> ELSE <<Broken>>
AfterThen(t, p, then, stop, end) ==
    LET part == Part(Stretch(p, then), Nothing, Stretch(then + 1, stop))
        Keyword(q) == NextKeyword(t, q, end, IfBlock)
    IN  CASE At(t, stop) = "fi" -> <<part>>
          [] At(t, stop) = "else" -> <<part>> \o ElsePart(t, stop + 1, Keyword(stop + 1))
          [] At(t, stop) = "elif" -> <<part>> \o IfParts(t, stop + 1, Keyword(stop + 1), end)
          [] At(t, stop) = "then" -> <<part>> \o IfParts(t, stop, Keyword(stop), end)
          [] OTHER -> <<Broken>>
IfParts(t, p, then, end) ==
    IF At(t, then) # "then" THEN <<Broken>>
    ELSE AfterThen(t, p, then, NextKeyword(t, then + 1, end, IfBlock), end)

\* `WORD in` after for and case: the word, and the position after in.
Header(t, start, end, in, limit) ==
    [word |-> SubSeq(t, start, end - 1),
     after |-> IF start < end /\ in < limit /\ WordAt(t, in, limit, Blanks) = "in"
               THEN in + 1 ELSE 0]
HeaderFrom(t, start, end, limit) == Header(t, start, end, Skip(t, end, limit, {" ", "nl"}), limit)
HeaderAt(t, start, limit) == HeaderFrom(t, start, WordEnd(t, start, limit, {" ", "nl"}), limit)

\* run_loop_block, and run_for_block, whose words are its condition here.
LoopParts(t, from, do, done) ==
    IF At(t, do) # "do" \/ At(t, done) # "done" THEN <<Broken>>
    ELSE <<Part(Stretch(from, do), Nothing, Stretch(do + 1, done))>>
LoopFrom(t, from, do, end) == LoopParts(t, from, do, NextKeyword(t, do + 1, end, LoopBlock))

\* Where the body of a clause ends: ;; or esac, past any nested case.
RECURSIVE BodyEnd(_, _, _, _)
BodyEnd(t, body, q, end) ==
    LET atWordStart == q = body \/ t[q - 1] \in Blanks
    IN  IF q >= end THEN q
        ELSE IF t[q] = ";" /\ q + 1 < end /\ At(t, q + 1) = ";" THEN q
        ELSE IF t[q] = "esac" /\ atWordStart THEN q
        ELSE BodyEnd(t, body,
               CASE t[q] \in Quotes -> AfterQuote(t, q, end)
                 [] t[q] = "case" /\ atWordStart ->
                      Past(NextKeyword(t, q + 1, end, CaseBlock), end + 1)
                 [] OTHER -> q + 1, end)

\* The clauses of run_case_block from start on; a nested case without an esac
\* takes the body past the end.
RECURSIVE CaseParts(_, _, _)
CasePart(t, first, paren, stop, end) ==
    IF paren = 0 \/ stop > end THEN <<Broken>>
    ELSE <<Part(Nothing, Stretch(first, paren), Stretch(paren + 1, stop))>>
            \o CaseParts(t, Skip(t, IF At(t, stop) = ";" THEN stop + 2 ELSE stop, end, Blanks), end)
CaseFrom(t, first, paren, end) ==
    CasePart(t, first, paren, BodyEnd(t, paren + 1, paren + 1, end), end)
CaseParts(t, start, end) ==
    LET first == IF At(t, start) = "(" THEN start + 1 ELSE start
    IN  IF start >= end \/ At(t, start) = "esac" THEN <<>>
        ELSE CaseFrom(t, first, FindUnquoted(t, first, end, {")"}), end)

\* skip_case_block: the esac of the case at p.
skip_case_block(t, p, limit) == NextKeyword(t, p + 1, limit, CaseBlock)

\* Where run_statements and the run_*_statement functions find its closer.
CloseOf(opener, t, p, limit) ==
    IF opener = "case" THEN skip_case_block(t, p, limit)
    ELSE Closer(t, NextKeyword(t, p + 1, limit, BlockOf(opener)), limit,
                BlockOf(opener), CloserOf(opener))

\* The statement that run_statements finds from p on: a block, if it is closed,
\* or a line, up to a newline outside quotes.
StatementAt(t, from, end) ==
    LET p == Skip(t, from, end, Blanks)
        word == WordAt(t, p, end, Blanks)
        nl == FindUnquoted(t, p, end, {"nl"})
    IN  IF p < end /\ word \in Openers
        THEN [opener |-> word, from |-> p, close |-> CloseOf(word, t, p, end)]
        ELSE [opener |-> "", from |-> p, close |-> IF nl = 0 THEN end ELSE nl]

-----------------------------------------------------------------------------
(* The tree of a text.                                                     *)

SyntaxError == [do |-> "error"]

\* A line of commands, each with what joins it to the one before.
LineOf(segments, env) ==
    [do |-> "line",
     parts |-> [i \in DOMAIN segments |->
                   [pipeline |-> parse_line(segments[i].text, env), after |-> segments[i].after]]]
Commands(t, env) == LineOf(parse_chain(t), env)

\* The patterns of a clause, split at | outside quotes and trimmed.
RECURSIVE Patterns(_, _, _, _)
Patterns(t, p, limit, env) ==
    LET bar == FindUnquoted(t, p, limit, {"|"})
        end == IF bar = 0 THEN limit ELSE bar
    IN  IF p >= limit THEN <<>>
        ELSE <<env_expand(Trim(SubSeq(t, p, end - 1)), env)>> \o Patterns(t, end + 1, limit, env)

\* The raw words of a for: quotes, $(...) and backquotes are not split.
RECURSIVE ForWordEnd(_, _, _, _, _)
ForWordEnd(t, p, limit, depth, tick) ==
    LET c == At(t, p)
        opens == c = "$" /\ p + 1 < limit /\ At(t, p + 1) = "("
        inner == IF opens \/ (depth > 0 /\ c = "(") THEN depth + 1
                 ELSE IF depth > 0 /\ c = ")" THEN depth - 1 ELSE depth
    IN  IF p >= limit THEN limit
        ELSE IF c \in Blanks /\ depth = 0 /\ ~tick THEN p
        ELSE ForWordEnd(t, IF c \in Quotes THEN AfterQuote(t, p, limit)
                           ELSE IF opens THEN p + 2 ELSE p + 1,
                        limit, inner, tick # (c = Backquote))

\* A text cut at blanks, from the word at start on.
RECURSIVE PiecesFrom(_, _, _)
PiecesFrom(t, start, end) ==
    IF start > Len(t) THEN <<>>
    ELSE <<SubSeq(t, start, end - 1)>>
            \o PiecesFrom(t, Skip(t, end, Len(t) + 1, {" "}),
                          WordEnd(t, Skip(t, end, Len(t) + 1, {" "}), Len(t) + 1, {" "}))
Pieces(t) == Tail(PiecesFrom(t, 1, 1))

\* The values that the loop variable takes: each raw word expanded, cut at
\* blanks again, then matched against the files.
Globbed(pieces, env) ==
    FlattenSeq([i \in DOMAIN pieces |-> glob_expand(pieces[i], env)])
RECURSIVE ForWords(_, _, _, _)
ForWordsFrom(t, start, end, limit, env) ==
    IF start >= limit THEN <<>>
    ELSE Globbed(Pieces(env_expand(SubSeq(t, start, end - 1), env)), env)
            \o ForWords(t, Skip(t, end, limit, Blanks), limit, env)
ForWords(t, start, limit, env) ==
    ForWordsFrom(t, start, ForWordEnd(t, start, limit, 0, FALSE), limit, env)

\* The statements of a text, as run_statements finds them, and those of their
\* parts.  A block whose first symbol, its opener, is at p ends before end.
RECURSIVE Statements(_, _, _, _), Tree(_, _, _, _, _)
ClauseOf(opener, t, part, env) ==
    IF part = Broken THEN SyntaxError
    ELSE [cond |-> IF opener = "for"
                   THEN ForWords(t, Skip(t, part.cond.from, part.cond.end, Blanks), part.cond.end, env)
                   ELSE Statements(t, part.cond.from, part.cond.end, env),
          patterns |-> Patterns(t, part.patterns.from, part.patterns.end, env),
          body |-> Statements(t, part.body.from, part.body.end, env)]
TreeOf(opener, t, header, parts, env) ==
    IF header.after = 0 THEN SyntaxError
    ELSE [do |-> opener,
          head |-> IF opener = "case" THEN env_expand(header.word, env) ELSE header.word,
          clauses |-> [i \in DOMAIN parts |-> ClauseOf(opener, t, parts[i], env)]]
PartsOf(opener, t, from, end) ==
    CASE opener = "if" -> IfParts(t, from, NextKeyword(t, from, end, IfBlock), end)
      [] opener = "case" -> CaseParts(t, Skip(t, from, end, Blanks), end)
      [] OTHER -> LoopFrom(t, from, NextKeyword(t, from, end, LoopBlock), end)
HeadedTree(opener, t, header, end, env) ==
    TreeOf(opener, t, header, PartsOf(opener, t, header.after, end), env)
Tree(opener, t, p, end, env) ==
    HeadedTree(opener, t, IF opener \in {"case", "for"}
                          THEN HeaderAt(t, Skip(t, p + 1, end, {" "}), end)
                          ELSE [word |-> <<>>, after |-> p + 1], end, env)
StatementsFrom(t, s, end, env) ==
    IF s.from >= end THEN <<>>
    ELSE IF s.close = 0 THEN <<SyntaxError>>
    ELSE IF s.opener = "" THEN <<Commands(SubSeq(t, s.from, s.close - 1), env)>>
                                  \o Statements(t, s.close, end, env)
    ELSE <<Tree(s.opener, t, s.from, s.close + 1, env)>> \o Statements(t, s.close + 1, end, env)
Statements(t, from, end, env) == StatementsFrom(t, StatementAt(t, from, end), end, env)

-----------------------------------------------------------------------------
(* A block that is read line by line.  Its scans start as many characters  *)
(* into the first line as its opener has: just past the opener or, as the  *)
(* first symbol may be the indentation, before it.                         *)

\* The first word of a line: is_if_statement, ..., is_case_statement.
FirstWord(line) ==
    LET end == Len(line) + 1 IN WordAt(line, Skip(line, 1, end, {" "}), end, Blanks)

\* has_top_level_fi, has_top_level_done and skip_case_block of the lines so far.
HasCloser(opener, t) ==
    IF opener = "case" THEN skip_case_block(t, 1, Len(t) + 1) > 0
    ELSE NextKeyword(t, 2, Len(t) + 1,
                     [BlockOf(opener) EXCEPT !.wanted = {CloserOf(opener)}]) > 0

\* is_function_definition: a name, then ( and ), with blanks before each.
AfterBlanks(t, p) == Skip(t, p, Len(t) + 1, {" "})
FunctionName(t) == SubSeq(t, AfterBlanks(t, 1), AfterName(t, AfterBlanks(t, 1)) - 1)
StartsFunction(line) ==
    LET open == AfterBlanks(line, AfterName(line, AfterBlanks(line, 1)))
    IN  FunctionName(line) # <<>> /\ At(line, open) = "("
            /\ At(line, AfterBlanks(line, open + 1)) = ")"

\* run_function_definition: the first brace, quoted or not, and its match.
OpenBrace(t) == SelectInSeq(t, LAMBDA c : c = "{")
CloseBrace(t) == MatchingClose(t, OpenBrace(t) + 1, "{", "}", 1)
HasBody(t) == OpenBrace(t) > 0 /\ CloseBrace(t) > 0
FunctionBody(t) == SubSeq(t, OpenBrace(t) + 1, CloseBrace(t) - 1)
=============================================================================
