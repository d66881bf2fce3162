--------------------------- MODULE MCLoopControl ---------------------------
EXTENDS LoopControl

\* A list of one raw word that expands to nothing, of two raw words, and of
\* `$LIST x` where LIST holds two words.
PlainLists == {<< >>, <<1, 2>>}
SplitLists == {<<1, 1, 2>>}
AllLists   == PlainLists \cup SplitLists
=============================================================================
