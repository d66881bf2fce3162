----------------------------- MODULE NameTables -----------------------------
(***************************************************************************)
(* The table of aliases (src/alias.c) and that of functions                *)
(* (src/functions.c): arrays of slots that are searched from the first.    *)
(* An alias that is removed leaves a hole, which the next new name fills;  *)
(* a function is never removed.  Names have fewer than 64 characters: the  *)
(* callers refuse longer ones.                                             *)
(***************************************************************************)
EXTENDS Scanning

CONSTANT Free \* a slot with in_use = 0

Entry == [name : Texts, value : Texts]

ASSUME NameTablesAssumption == Free \notin Entry

\* A table of n slots.
Tables(n) == [1..n -> Entry \cup {Free}]
Empty(n) == [i \in 1..n |-> Free]

FreeSlots(table) == {i \in DOMAIN table : table[i] = Free}
Holders(table, name) == {i \in DOMAIN table : table[i] # Free /\ table[i].name = name}
First(S) == CHOOSE i \in S : \A j \in S : i <= j

\* A mutant: a free slot is taken although a later one holds the name.
StoreInFirst(table, name, value) ==
    LET slots == FreeSlots(table) \cup Holders(table, name)
    IN  IF slots = {} THEN table
        ELSE [table EXCEPT ![First(slots)] = [name |-> name, value |-> value]]

\* alias_set, store_function: the slot that holds the name, else the first free
\* one, else a message and no change.
Store(table, name, value) ==
    LET held == Holders(table, name)
        slots == IF held # {} THEN held ELSE FreeSlots(table)
    IN  IF slots = {} THEN table
        ELSE [table EXCEPT ![First(slots)] = [name |-> name, value |-> value]]

\* alias_unset.
Unset(table, name) ==
    IF Holders(table, name) = {} THEN table
    ELSE [table EXCEPT ![First(Holders(table, name))] = Free]

\* alias_get, find_function: what the first slot with the name holds.
Defined(table, name) == Holders(table, name) # {}
Get(table, name) == table[First(Holders(table, name))].value

\* What a search finds: the map that the table stands for.
NamesIn(table) == {table[i].name : i \in {j \in DOMAIN table : table[j] # Free}}
MapOf(table) == [name \in NamesIn(table) |-> Get(table, name)]

\* <<name, value>> defines a name, <<name>> removes it, <<>> only looks.
Apply(table, op) ==
    CASE Len(op) = 2 -> Store(table, op[1], op[2])
      [] Len(op) = 1 -> Unset(table, op[1])
      [] OTHER -> table

\* The loops of builtin_alias, builtin_unalias and alias_load_defaults.
ApplyAll(table, ops) ==
    LET after[i \in 0..Len(ops)] ==
            IF i = 0 THEN table ELSE Apply(after[i - 1], ops[i])
    IN  after[Len(ops)]

\* alias_expand_line: the first word of a text, up to a blank, and what it stands
\* for; the text as it is when it is no alias.
alias_expand_line(t, alias) ==
    LET blank == NextOf(t, 1, Len(t) + 1, {" "})
        after == IF blank = 0 THEN Len(t) + 1 ELSE blank
        first == SubSeq(t, 1, after - 1)
    IN  IF first # <<>> /\ first \in DOMAIN alias
        THEN alias[first] \o SubSeq(t, after, Len(t)) ELSE t
=============================================================================
