------------------------------- MODULE MCRepl -------------------------------
EXTENDS Repl

First(c) == [cmd |-> c, op |-> "seq"]
And(c)   == [cmd |-> c, op |-> "and"]
Or(c)    == [cmd |-> c, op |-> "or"]

\* `trap ...`, `run && exit || run; run`, `exec`, `a | b; $EMPTY && trap ...`,
\* `$(...) && exit`, `run; run | | run; exit`, and an empty line.
TypedLines ==
    {<<First("trap")>>,
     <<First("run"), And("exit"), Or("run"), First("run")>>,
     <<First("exec")>>,
     <<First("stage"), First("empty"), And("trap")>>,
     <<First("substitution"), And("exit")>>,
     <<First("run"), First("bad"), First("exit")>>,
     << >>}

\* What children do: `run && trap ...`, a pipeline of their own, nothing.
QuietChildren == {<<First("run"), And("trap")>>, <<First("stage")>>, << >>}

\* `run`, `trap ... INT; run`, `exit`, and a command that does not parse.
IntCommands ==
    {<<First("run")>>, <<First("trap"), And("run")>>, <<First("exit")>>, << >>}

\* `run`, and a chain with a child in it.
ExitCommands == {<<First("run")>>, <<First("substitution"), First("trap")>>, << >>}

\* `exit` alone.
ExitingCommands == {<<First("exit")>>}

\* `trap run EXIT`, and a program.
ScriptLines == {<<First("trap")>>, <<First("run")>>}
=============================================================================
