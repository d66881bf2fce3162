------------------------------ MODULE NameMap ------------------------------
(***************************************************************************)
(* What a table of names promises: a map of a bounded number of names to   *)
(* values, which is what the definitions and removals so far make of it,   *)
(* in their order.  Defining a name replaces what it stood for, a new name *)
(* that has no room changes nothing, a removed name stands for nothing.    *)
(***************************************************************************)
EXTENDS Naturals, Sequences, SequencesExt, FiniteSets

CONSTANTS
    Room,      \* how many names fit
    Defaults   \* the operations at the start

VARIABLES
    map,       \* a function on the names that are defined
    operations \* so far: <<name, value>> defines, <<name>> removes, <<>> only looks

\* With NAME defined as VALUE, if it fits.
With(m, name, value) ==
    IF name \in DOMAIN m \/ Cardinality(DOMAIN m) < Room
    THEN [n \in DOMAIN m \cup {name} |-> IF n = name THEN value ELSE m[n]]
    ELSE m

Without(m, name) == [n \in DOMAIN m \ {name} |-> m[n]]

\* After an operation, and after several in their order.
After(m, op) ==
    CASE Len(op) = 2 -> With(m, op[1], op[2])
      [] Len(op) = 1 -> Without(m, op[1])
      [] OTHER -> m
AfterAll(m, ops) ==
    LET after[i \in 0..Len(ops)] ==
            IF i = 0 THEN m ELSE After(after[i - 1], ops[i])
    IN  after[Len(ops)]

Init == map = AfterAll([n \in {} |-> n], Defaults) /\ operations = <<>>

\* One command may ask for several operations.
Next ==
    \E asked \in {SubSeq(operations', Len(operations) + 1, Len(operations'))} :
        /\ operations' = operations \o asked
        /\ map' = AfterAll(map, asked)

Spec == Init /\ [][Next]_<<map, operations>>
=============================================================================
