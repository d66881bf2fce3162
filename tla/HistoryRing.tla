---------------------------- MODULE HistoryRing ----------------------------
(***************************************************************************)
(* The command history of acsh (src/history.c, run_line and main): a ring  *)
(* buffer in each shell, and one file per home directory to which every    *)
(* shell appends a line as it is typed and from which the next session     *)
(* loads.  Shells run side by side and may be killed at any point.         *)
(***************************************************************************)
EXTENDS Integers, FiniteSets, Sequences

CONSTANTS
    Shells,    \* the shells that run side by side
    Lines,     \* the lines that are typed, none of them blank
    Size,      \* ACSH_HISTORY_SIZE
    Homes,     \* the values of HOME
    NoHome,    \* HOME is not set
    Nothing,   \* what a slot of the ring holds before it is used
    MaxFile,   \* bound on the length of a history file
    Habits     \* "repeat": a line is typed twice in a row; "home": HOME is
               \* changed; "fail": the file cannot be opened for a write

ASSUME HistoryRingAssumption ==
    /\ Size \in Nat \ {0}
    /\ MaxFile \in Nat
    /\ NoHome \notin Homes
    /\ Nothing \notin Lines
    /\ Habits \subseteq {"repeat", "home", "fail"}

VARIABLES
    history_buf,    \* src/history.c: the ring
    history_count,  \* src/history.c
    history_start,  \* src/history.c
    pc,             \* where each shell is
    pos,            \* the lines it has read from the file it loads
    home,           \* HOME in each shell
    file,           \* ~/.acsh_history of each home
    tie             \* history: what ties the memory of a shell to its file

ring == <<history_buf, history_count, history_start>>
vars == <<ring, pc, pos, home, file, tie>>

Slots == 0..(Size - 1)

Init ==
    /\ history_buf = [s \in Shells |-> [i \in Slots |-> Nothing]]
    /\ history_count = [s \in Shells |-> 0]
    /\ history_start = [s \in Shells |-> 0]
    /\ pc = [s \in Shells |-> "off"]
    /\ pos = [s \in Shells |-> 0]
    /\ home \in [Shells -> Homes]
    /\ file = [h \in Homes |-> << >>]
    /\ tie = [s \in Shells |-> "end"]

Wrap(i) == i % Size

-----------------------------------------------------------------------------
\* A mutant: the oldest line is overwritten and still taken for the oldest.
PushNoAdvance(s, l) ==
    LET full == history_count[s] >= Size
        idx  == IF full THEN history_start[s]
                ELSE Wrap(history_start[s] + Wrap(history_count[s]))
    IN  /\ history_buf' = [history_buf EXCEPT ![s][idx] = l]
        /\ history_count' = [history_count EXCEPT ![s] = IF full THEN @ ELSE @ + 1]
        /\ UNCHANGED history_start

\* A mutant: a new line goes one slot too far.
PushOffByOne(s, l) ==
    LET full == history_count[s] >= Size
        idx  == IF full THEN history_start[s]
                ELSE Wrap(history_start[s] + Wrap(history_count[s] + 1))
    IN  /\ history_buf' = [history_buf EXCEPT ![s][idx] = l]
        /\ history_count' = [history_count EXCEPT ![s] = IF full THEN @ ELSE @ + 1]
        /\ history_start' = [history_start EXCEPT ![s] = IF full THEN Wrap(@ + 1) ELSE @]

\* A mutant: the count goes on past the size.
PushUnbounded(s, l) ==
    LET full == history_count[s] >= Size
        idx  == IF full THEN history_start[s]
                ELSE Wrap(history_start[s] + Wrap(history_count[s]))
    IN  /\ history_buf' = [history_buf EXCEPT ![s][idx] = l]
        /\ history_count' = [history_count EXCEPT ![s] = @ + 1]
        /\ history_start' = [history_start EXCEPT ![s] = IF full THEN Wrap(@ + 1) ELSE @]

history_push(s, l) ==
    LET full == history_count[s] >= Size
        idx  == IF full THEN history_start[s]
                ELSE Wrap(history_start[s] + Wrap(history_count[s]))
    IN  /\ history_buf' = [history_buf EXCEPT ![s][idx] = l]
        /\ history_count' = [history_count EXCEPT ![s] = IF full THEN @ ELSE @ + 1]
        /\ history_start' = [history_start EXCEPT ![s] = IF full THEN Wrap(@ + 1) ELSE @]

\* The line last recorded; only asked for when there is one.
LastLine(s) == history_buf[s][Wrap(history_start[s] + history_count[s] - 1)]

\* What `history` prints.
Listed(s) ==
    [i \in 1..history_count[s] |-> history_buf[s][Wrap(history_start[s] + i - 1)]]

-----------------------------------------------------------------------------
(* A session: the file is loaded line by line, while others append to it.  *)

Start(s) ==
    /\ pc[s] = "off"
    /\ pc' = [pc EXCEPT ![s] = IF home[s] = NoHome THEN "prompt" ELSE "load"]
    /\ pos' = [pos EXCEPT ![s] = 0]
    /\ tie' = [tie EXCEPT ![s] = "end"]
    /\ UNCHANGED <<ring, home, file>>

LoadLine(s) ==
    /\ pc[s] = "load"
    /\ pos[s] < Len(file[home[s]])
    /\ history_push(s, file[home[s]][pos[s] + 1])
    /\ pos' = [pos EXCEPT ![s] = @ + 1]
    /\ UNCHANGED <<pc, home, file, tie>>

LoadEnds(s) ==
    /\ pc[s] = "load"
    /\ pos[s] = Len(file[home[s]])
    /\ pc' = [pc EXCEPT ![s] = "prompt"]
    /\ UNCHANGED <<ring, pos, home, file, tie>>

Repeats(s, l) == history_count[s] > 0 /\ LastLine(s) = l

\* The file has lines that the shells in S do not have.
Loosen(S) ==
    tie' = [t \in Shells |-> IF t \in S /\ tie[t] = "end" THEN "part" ELSE tie[t]]

\* history_add, of a line typed at the prompt.
Type(s, l) ==
    /\ pc[s] = "prompt"
    /\ Repeats(s, l) => "repeat" \in Habits
    /\ IF Repeats(s, l) THEN UNCHANGED ring ELSE history_push(s, l)
    /\ Loosen(IF Repeats(s, l) THEN {s} ELSE {})
    /\ pc' = [pc EXCEPT ![s] = "save"]
    /\ UNCHANGED <<pos, home, file>>

\* The other sessions on the file of s that have loaded it.
Others(s) ==
    {t \in Shells \ {s} : home[t] = home[s] /\ pc[t] \in {"prompt", "save"}}

\* A mutant: the oldest line is appended, not the newest.
SaveOldest(s) ==
    /\ pc[s] = "save"
    /\ home[s] # NoHome
    /\ Len(file[home[s]]) < MaxFile
    /\ file' = [file EXCEPT ![home[s]] = Append(@, Listed(s)[1])]
    /\ pc' = [pc EXCEPT ![s] = "prompt"]
    /\ Loosen(Others(s))
    /\ UNCHANGED <<ring, pos, home>>

\* history_save_append; one short write to a file opened for appending.
Save(s) ==
    /\ pc[s] = "save"
    /\ home[s] # NoHome
    /\ Len(file[home[s]]) < MaxFile
    /\ file' = [file EXCEPT ![home[s]] = Append(@, LastLine(s))]
    /\ pc' = [pc EXCEPT ![s] = "prompt"]
    /\ Loosen(Others(s))
    /\ UNCHANGED <<ring, pos, home>>

SaveSkipped(s) ==
    /\ pc[s] = "save"
    /\ home[s] = NoHome \/ "fail" \in Habits
    /\ pc' = [pc EXCEPT ![s] = "prompt"]
    /\ tie' = [tie EXCEPT ![s] = "none"]
    /\ UNCHANGED <<ring, pos, home, file>>

\* A command that the line runs: export HOME=..., unset HOME.
ChangeHome(s) ==
    /\ "home" \in Habits
    /\ pc[s] = "prompt"
    /\ \E h \in Homes \cup {NoHome} : home' = [home EXCEPT ![s] = h]
    /\ tie' = [tie EXCEPT ![s] = "none"]
    /\ UNCHANGED <<ring, pc, pos, file>>

\* The shell exits or is killed, at any point; the next session starts empty.
Stop(s) ==
    /\ pc[s] # "off"
    /\ pc' = [pc EXCEPT ![s] = "off"]
    /\ history_count' = [history_count EXCEPT ![s] = 0]
    /\ history_start' = [history_start EXCEPT ![s] = 0]
    /\ history_buf' = [history_buf EXCEPT ![s] = [i \in Slots |-> Nothing]]
    /\ pos' = [pos EXCEPT ![s] = 0]
    /\ UNCHANGED <<home, file, tie>>

Session(s) ==
    \/ Start(s) \/ LoadLine(s) \/ LoadEnds(s) \/ Save(s) \/ SaveSkipped(s)
    \/ ChangeHome(s) \/ Stop(s) \/ \E l \in Lines : Type(s, l)

Next == \E s \in Shells : Session(s)

Spec == Init /\ [][Next]_vars

-----------------------------------------------------------------------------
(* Properties.                                                             *)

\* Every variable has its type; a slot is Nothing only while it is not used.
TypeOK ==
    /\ history_buf \in [Shells -> [Slots -> Lines \cup {Nothing}]]
    /\ history_count \in [Shells -> 0..Size]
    /\ history_start \in [Shells -> Slots]
    /\ pc \in [Shells -> {"off", "load", "prompt", "save"}]
    /\ pos \in [Shells -> Nat]
    /\ home \in [Shells -> Homes \cup {NoHome}]
    /\ file \in [Homes -> Seq(Lines)]
    /\ tie \in [Shells -> {"end", "part", "none"}]

\* The ring starts in slot 0 until it is full, and every slot it counts holds
\* a line: `history` never prints a slot that was not written.
RingFilled ==
    \A s \in Shells :
        /\ history_count[s] < Size => history_start[s] = 0
        /\ \A i \in Slots : i < history_count[s] => history_buf[s][i] \in Lines

List == INSTANCE BoundedHistory WITH entries <- [s \in Shells |-> Listed(s)]

\* The ring is a list of the last Size lines, oldest first, whether they were
\* loaded or typed.
RingIsList == List!Spec

\* The lines before the one that waits to be saved.
Kept(s) ==
    SubSeq(Listed(s), 1, history_count[s] - (IF pc[s] = "save" THEN 1 ELSE 0))

IsSuffix(x, y) == /\ Len(x) <= Len(y)
                  /\ x = SubSeq(y, Len(y) - Len(x) + 1, Len(y))

\* What a shell has in memory is the end of its file unless another session
\* has written there since (or a line was repeated, or could not be saved): a
\* session that is killed at any point costs at most the line being recorded,
\* and the next one lists the same lines.
SurvivesCrash ==
    \A s \in Shells :
        pc[s] \in {"prompt", "save"} /\ home[s] # NoHome /\ tie[s] = "end" =>
            /\ IsSuffix(Kept(s), file[home[s]])
            /\ Len(Kept(s)) < Size - 1 => Kept(s) = file[home[s]]

\* x is y without some of its elements.
IsSubsequence(x, y) ==
    \E f \in [DOMAIN x -> DOMAIN y] :
        /\ \A i, j \in DOMAIN x : i < j => f[i] < f[j]
        /\ \A i \in DOMAIN x : x[i] = y[f[i]]

\* With shells side by side, and also when they repeat lines: no line that one
\* of them lists is missing from the file, and they are there in its order.
AllInFile ==
    \A s \in Shells :
        home[s] # NoHome /\ tie[s] # "none" => IsSubsequence(Kept(s), file[home[s]])

\* No two lines next to each other are the same.
NoRepeats ==
    \A s \in Shells : \A i \in 1..(history_count[s] - 1) : Listed(s)[i] # Listed(s)[i + 1]
=============================================================================
