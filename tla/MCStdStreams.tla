--------------------------- MODULE MCStdStreams ----------------------------
EXTENDS StdStreams

\* The files for descriptors 0 to 2, and N>&M.
R(in, out, err, dup) ==
    [files |-> [x \in 0..2 |-> IF x = 0 THEN in ELSE IF x = 1 THEN out ELSE err],
     dup   |-> dup]

Nothing == R("none", "none", "none", << >>)

\* `< f > f 2>&1`, `> no`, and nothing.
Some == {R("opens", "opens", "none", <<2, 1>>), R("none", "missing", "none", << >>), Nothing}

\* `2> f 1>&2` and nothing.
Fewest == {R("none", "none", "opens", <<1, 2>>), Nothing}

\* `> f`, `2>&1`, and nothing.
Few == {R("none", "opens", "none", << >>), R("none", "none", "none", <<2, 1>>), Nothing}

\* `0>&1`.
StdinDup == {R("none", "none", "none", <<0, 1>>)}
=============================================================================
