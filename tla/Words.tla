-------------------------------- MODULE Words --------------------------------
(***************************************************************************)
(* From a line to the commands that run: parse_chain, tokenize, read_word  *)
(* and parse_line (src/parser.c), env_expand (src/env.c) and glob_expand   *)
(* (src/glob.c).  Four scanners read the same text one after the other,    *)
(* each with its own idea of quotes, and pass each other marks in the      *)
(* words.  The limits on lengths and counts (ACSH_MAX_LINE, _ARGS, _CMDS,  *)
(* _CHAIN) are left out.                                                   *)
(***************************************************************************)
EXTENDS Scanning

QUOTED_FIRST == "<q1"
Marks == {SQ_START, SQ_END, QUOTED_FIRST}

\* The first symbol of S outside quotes.
RECURSIVE FindUnquoted(_, _, _, _)
FindUnquoted(t, p, limit, S) ==
    LET hit == NextOf(t, p, limit, S \cup Quotes) IN
    IF hit = 0 \/ t[hit] \in S THEN hit
    ELSE FindUnquoted(t, AfterQuote(t, hit, limit), limit, S)

\* The bracket that closes the one just before p: nested pairs are counted,
\* quotes are skipped (find_matching_brace, the scan after "$(" of env_expand
\* and of copy_command_substitution).
RECURSIVE MatchingClose(_, _, _, _, _)
MatchingClose(t, p, open, close, depth) ==
    LET hit == FindUnquoted(t, p, Len(t) + 1, {open, close}) IN
    IF hit = 0 THEN 0
    ELSE IF t[hit] = open THEN MatchingClose(t, hit + 1, open, close, depth + 1)
    ELSE IF depth = 1 THEN hit
    ELSE MatchingClose(t, hit + 1, open, close, depth - 1)

\* Without the blanks at both ends.
Trim(t) ==
    LET NotBlank(c) == c # " "
        first == SelectInSeq(t, NotBlank)
    IN  IF first = 0 THEN <<>> ELSE SubSeq(t, first, SelectLastInSeq(t, NotBlank))

-----------------------------------------------------------------------------
(* parse_chain: where && || and ; cut a line.                              *)

\* The loop of parse_chain at p, in the segment that starts at from: the
\* segments that are left, the last with the end or an open quote.
RECURSIVE Cuts(_, _, _, _, _, _)
Cuts(t, p, from, quote, depth, tick) ==
    LET c == At(t, p)
        Segment(op) == [text |-> Trim(SubSeq(t, from, p - 1)), op |-> op]
        Step(k, q, d, b) == Cuts(t, p + k, from, q, d, b)
        Cut(k, op) == <<Segment(op)>> \o Cuts(t, p + k, p + k, "", 0, FALSE)
        twice == c = At(t, p + 1)
    IN  IF c = EndOfText THEN <<Segment(IF quote = "" THEN "end" ELSE "open quote")>>
        ELSE IF quote # "" THEN Step(1, IF c = quote THEN "" ELSE quote, depth, tick)
        ELSE IF c = Backquote THEN Step(1, "", depth, ~tick)
        ELSE IF c = "$" /\ At(t, p + 1) = "(" THEN Step(2, "", depth + 1, tick)
        ELSE IF c = ")" /\ depth > 0 THEN Step(1, "", depth - 1, tick)
        ELSE IF c \in Quotes THEN Step(1, c, depth, tick)
        ELSE IF c = "&" /\ twice /\ depth = 0 /\ ~tick THEN Cut(2, "&&")
        ELSE IF c = "|" /\ twice /\ depth = 0 /\ ~tick THEN Cut(2, "||")
        ELSE IF c = ";" /\ depth = 0 /\ ~tick THEN Cut(1, ";")
        ELSE Step(1, "", depth, tick)

\* The segments that execute_chain gets, each with the operator that is kept with
\* the one before it: none after a syntax error.
parse_chain(t) ==
    LET cuts == Cuts(t, 1, 1, "", 0, FALSE)
        kept == SelectSeq(cuts, LAMBDA s : s.text # <<>>)
    IN  IF Last(cuts).op = "open quote" THEN <<>>
        ELSE [i \in DOMAIN kept |-> [text |-> kept[i].text,
                                     after |-> IF i = 1 THEN ";" ELSE kept[i - 1].op]]

-----------------------------------------------------------------------------
(* tokenize and read_word: a segment's words and operators.                *)

Unterminated == -1

\* copy_command_substitution: just past the region that starts at p, 0 if none
\* does, Unterminated if it does not end.
AfterSubstitution(t, p) ==
    LET Past(close) == IF close = 0 THEN Unterminated ELSE close + 1
    IN  CASE t[p] = "$" /\ At(t, p + 1) = "(" -> Past(MatchingClose(t, p + 2, "(", ")", 1))
          [] t[p] = Backquote -> Past(NextOf(t, p + 1, Len(t) + 1, {Backquote}))
          [] OTHER -> 0

\* A chunk of a word as it goes into the buffer, and the position after it.
Chunk(buf, at) == [buf |-> buf, at |-> at]
BadWord == Chunk(<<>>, 0)

\* A character, an escape or a substitution, the same inside and outside "...";
\* escape says what a backslash leaves of the character behind it.
PlainChunk(t, p, after, escape) ==
    CASE after = Unterminated -> BadWord
      [] after > 0 -> Chunk(SubSeq(t, p, after - 1), after)
      [] after = 0 /\ t[p] = "\\" /\ escape # <<>> -> Chunk(escape, p + 2)
      [] OTHER -> Chunk(<<t[p]>>, p + 1)

\* The inside of "..." from p on, appended to buf.
InDouble(t, p) ==
    PlainChunk(t, p, AfterSubstitution(t, p),
               CASE At(t, p + 1) = "$" -> <<ESCAPED_DOLLAR>>
                 [] At(t, p + 1) \in {"\"", "\\"} -> <<t[p + 1]>>
                 [] OTHER -> <<>>)
RECURSIVE ReadDouble(_, _, _)
ReadDouble(t, chunk, buf) ==
    IF chunk = BadWord \/ chunk.at > Len(t) THEN BadWord
    ELSE IF t[chunk.at] = "\"" THEN Chunk(buf \o chunk.buf, chunk.at + 1)
    ELSE ReadDouble(t, InDouble(t, chunk.at), buf \o chunk.buf)

\* The chunk of an unquoted word at p: '...', "..." or a plain one.
InSingle(t, p, close) ==
    IF close = 0 THEN BadWord
    ELSE Chunk(<<SQ_START>> \o SubSeq(t, p + 1, close - 1) \o <<SQ_END>>, close + 1)
InWord(t, p) ==
    CASE t[p] = "'" -> InSingle(t, p, NextOf(t, p + 1, Len(t) + 1, {"'"}))
      [] t[p] = "\"" -> ReadDouble(t, Chunk(<<>>, p + 1), <<>>)
      [] OTHER -> PlainChunk(t, p, AfterSubstitution(t, p),
                             IF p = Len(t) THEN <<>> ELSE <<t[p + 1]>>)

\* read_word, once a chunk is read: until a blank, an operator or the end.
RECURSIVE ReadWord(_, _, _)
ReadWord(t, chunk, buf) ==
    IF chunk = BadWord THEN BadWord
    ELSE IF At(t, chunk.at) \in {EndOfText, " ", "|", "<", ">", "&"} THEN
           Chunk(buf \o chunk.buf, chunk.at)
    ELSE ReadWord(t, InWord(t, chunk.at), buf \o chunk.buf)

Descriptors == {"0", "1", "2"}
BadToken == <<EndOfText>>

\* The token at p, an operator of one to four characters or a word, and where
\* the next begins; a word that begins with a quote has a mark.
Operator(t, p, width) == Chunk(SubSeq(t, p, p + width - 1), p + width)
TokenAt(t, p) ==
    IF t[p] \in Descriptors /\ At(t, p + 1) \in {"<", ">"} THEN
           Operator(t, p, IF t[p + 1] = ">" /\ At(t, p + 2) = "&" /\ At(t, p + 3) \in Descriptors
                          THEN 4 ELSE IF t[p + 1] = ">" /\ At(t, p + 2) = ">" THEN 3 ELSE 2)
    ELSE IF t[p] = ">" /\ At(t, p + 1) = ">" THEN Operator(t, p, 2)
    ELSE IF t[p] \in {"|", "<", ">", "&"} THEN Operator(t, p, 1)
    ELSE ReadWord(t, InWord(t, p), IF t[p] \in Quotes THEN <<QUOTED_FIRST>> ELSE <<>>)

\* tokenize, once token is read; the last one is BadToken after a syntax error.
RECURSIVE Tokens(_, _)
Tokens(t, token) ==
    IF token = BadWord THEN <<BadToken>>
    ELSE IF At(t, token.at) \in {EndOfText, "#"} THEN <<token.buf>>
    ELSE IF At(t, token.at) = " " THEN Tokens(t, [token EXCEPT !.at = @ + 1])
    ELSE <<token.buf>> \o Tokens(t, TokenAt(t, token.at))
tokenize(t) == Tail(Tokens(t, Chunk(<<>>, 1)))

-----------------------------------------------------------------------------
(* env_expand and glob_expand.  An environment gives the value of a name,  *)
(* $?, the positional parameters, and the files that `*` matches.          *)

\* What a command substitution puts in a word: the output of that command, which
\* command_substitute runs in a child.
Output(command) == <<"<out">> \o command \o <<"out>">>

ValueOf(name, env) == IF name \in DOMAIN env.var THEN env.var[name] ELSE <<>>
Positional(i, env) == IF i \in DOMAIN env.args THEN env.args[i] ELSE <<>>

\* Every parameter joined by a blank.
Joined(words) ==
    FoldLeft(LAMBDA all, w : IF all = <<>> THEN w ELSE all \o <<" ">> \o w, <<>>, words)

\* Just past the name that starts at p.
AfterName(w, p) ==
    LET next == NextOf(w, p, Len(w) + 1, NotInName) IN IF next = 0 THEN Len(w) + 1 ELSE next

RECURSIVE ExpandFrom(_, _, _, _)
ExpandFrom(w, p, single, env) ==
    LET c == At(w, p)
        d == At(w, p + 1)
        Rest(q) == ExpandFrom(w, q, single, env)
        Put(value, q) == value \o Rest(q)
        tick == NextOf(w, p + 1, Len(w) + 1, {Backquote})
        paren == MatchingClose(w, p + 2, "(", ")", 1)
        brace == NextOf(w, p + 2, Len(w) + 1, {"}"})
        braced == IF brace = 0 THEN Len(w) + 1 ELSE brace
        Name(from, end, q) ==
            IF end = from THEN Put(<<"$">>, q) ELSE Put(ValueOf(SubSeq(w, from, end - 1), env), q)
    IN  IF c = EndOfText THEN <<>>
        ELSE IF c = SQ_START THEN ExpandFrom(w, p + 1, TRUE, env)
        ELSE IF c = SQ_END THEN ExpandFrom(w, p + 1, FALSE, env)
        ELSE IF c = ESCAPED_DOLLAR THEN Put(<<"$">>, p + 1)
        ELSE IF c = Backquote /\ ~single /\ tick > 0 THEN
             Put(Output(SubSeq(w, p + 1, tick - 1)), tick + 1)
        ELSE IF c # "$" \/ single THEN Put(<<c>>, p + 1)
        ELSE IF d = "(" /\ paren > 0 THEN Put(Output(SubSeq(w, p + 2, paren - 1)), paren + 1)
        ELSE IF d \in ToSet(Tail(Digits)) THEN
               Put(Positional(SelectInSeq(Tail(Digits), LAMBDA n : n = d), env), p + 2)
        ELSE IF d = "#" THEN Put(<<ToString(Len(env.args))>>, p + 2)
        ELSE IF d = "@" THEN Put(Joined(env.args), p + 2)
        ELSE IF d = "?" THEN Put(<<ToString(env.status)>>, p + 2)
        ELSE IF d = "{" THEN Name(p + 2, braced, braced + 1)
        ELSE Name(p + 1, AfterName(w, p + 1), AfterName(w, p + 1))

env_expand(word, env) ==
    LET quoted == At(word, 1) = QUOTED_FIRST
        w == IF quoted THEN Tail(word) ELSE word
        home == ~quoted /\ At(w, 1) = "~" /\ At(w, 2) \in {"/", EndOfText}
    IN  ExpandFrom(IF home THEN ValueOf(<<"HOME">>, env) \o Tail(w) ELSE w, 1, FALSE, env)

GlobSymbols == {"*", "?", "["}

\* has_unquoted_glob_chars: outside the marks of single quotes.
HasUnquotedGlob(w) ==
    \E i \in DOMAIN w :
        /\ w[i] \in GlobSymbols
        /\ SelectLastInSubSeq(w, 1, i, LAMBDA c : c = SQ_START)
             <= SelectLastInSubSeq(w, 1, i, LAMBDA c : c = SQ_END)

\* glob_expand: the words that a word becomes.
glob_expand(w, env) ==
    LET pattern == SelectSeq(w, LAMBDA c : c \notin Marks)
    IN  IF HasUnquotedGlob(w) /\ pattern \in DOMAIN env.files
        THEN env.files[pattern] ELSE <<pattern>>

-----------------------------------------------------------------------------
(* parse_line: the commands of a pipeline.                                 *)

NoFile == <<>>
NoCommand == [argv |-> <<>>, infile |-> NoFile, outfile |-> NoFile, append |-> FALSE,
              errfile |-> NoFile, err_append |-> FALSE, dup |-> <<>>]
NoPipeline == [cmds |-> <<>>, background |-> FALSE, bad |-> FALSE]

IsRedirect(tok) ==
    \/ tok \in {<<"<">>, <<">">>, <<">", ">">>}
    \/ Len(tok) \in {2, 3} /\ tok[1] \in Descriptors /\ tok[2] \in {"<", ">"}
IsDuplication(tok) ==
    Len(tok) = 4 /\ tok[1] \in Descriptors /\ tok[2] = ">" /\ tok[3] = "&"
                 /\ tok[4] \in Descriptors

\* A command with one more redirection; a later one of the same kind replaces it.
Redirected(cmd, tok, file) ==
    LET append == Len(tok) > 1 /\ tok[Len(tok) - 1] = ">"
    IN  CASE Last(tok) = "<" -> [cmd EXCEPT !.infile = file]
          [] Last(tok) = ">" /\ tok[1] = "2" ->
               [cmd EXCEPT !.errfile = file, !.err_append = append]
          [] OTHER -> [cmd EXCEPT !.outfile = file, !.append = append]

\* The tokens from i on, into the last command of pl.
RECURSIVE ParseTokens(_, _, _, _)
ParseTokens(toks, i, pl, env) ==
    LET tok == toks[i]
        last == Len(pl.cmds)
        Next(k, next) == ParseTokens(toks, i + k, next, env)
        WithCommand(cmd) == [pl EXCEPT !.cmds[last] = cmd]
        cur == pl.cmds[last]
    IN  IF i > Len(toks) THEN pl
        ELSE IF tok = <<"|">> THEN Next(1, [pl EXCEPT !.cmds = Append(@, NoCommand)])
        ELSE IF IsDuplication(tok) THEN
               Next(1, WithCommand([cur EXCEPT !.dup = <<tok[1], tok[4]>>]))
        ELSE IF IsRedirect(tok) THEN
               IF i = Len(toks) THEN [NoPipeline EXCEPT !.bad = TRUE]
               ELSE Next(2, WithCommand(Redirected(cur, tok, env_expand(toks[i + 1], env))))
        ELSE IF tok = <<"&">> THEN Next(1, [pl EXCEPT !.background = TRUE])
        ELSE Next(1, WithCommand(
               [cur EXCEPT !.argv = @ \o glob_expand(env_expand(tok, env), env)]))

Parsed(toks, env) ==
    IF toks = <<>> THEN NoPipeline
    ELSE IF Last(toks) = BadToken THEN [NoPipeline EXCEPT !.bad = TRUE]
    ELSE ParseTokens(toks, 1, [NoPipeline EXCEPT !.cmds = <<NoCommand>>], env)
parse_line(t, env) == Parsed(tokenize(t), env)
=============================================================================
