--------------------------- MODULE SessionProofs ---------------------------
(***************************************************************************)
(* What holds of every session, for any scripts, any number of slots and   *)
(* any way of cutting and parsing texts.                                   *)
(***************************************************************************)
EXTENDS Session, TestExprProofs

-----------------------------------------------------------------------------
(* Tables of slots: one whose slots have different names stays one, and    *)
(* what an operation does to the slots the operation of the map does to    *)
(* what a search finds.                                                    *)

\* No two slots hold the same name.
NamesApart(table) ==
    \A i, j \in DOMAIN table :
        table[i] # Free /\ table[j] # Free /\ table[i].name = table[j].name => i = j

Table(size) == {t \in Tables(size) : NamesApart(t)}

-----------------------------------------------------------------------------
(* Slots.                                                                  *)

\* A set of slots has a first one.
LEMMA FirstIsLeast ==
    ASSUME NEW size \in Nat, NEW T, T \subseteq 1..size, T # {}
    PROVE  First(T) \in T /\ \A j \in T : First(T) <= j
<1>1. PICK i \in T : \A j \in T : i <= j
    BY HasLeast
<1> QED BY <1>1 DEF First

LEMMA SlotsOfTable ==
    ASSUME NEW size \in Nat, NEW t \in Tables(size), NEW name
    PROVE  /\ DOMAIN t = 1..size
           /\ FreeSlots(t) \subseteq 1..size
           /\ Holders(t, name) \subseteq 1..size
           /\ \A i \in 1..size : t[i] # Free => t[i] \in Entry
BY DEF Tables, FreeSlots, Holders

\* The slot that a name has is the one that a search finds.
LEMMA HolderIsOne ==
    ASSUME NEW size \in Nat, NEW t \in Table(size), NEW name, NEW k \in Holders(t, name)
    PROVE  Holders(t, name) = {k} /\ First(Holders(t, name)) = k
<1>1. t \in Tables(size) /\ NamesApart(t)
    BY DEF Table
<1>2. Holders(t, name) = {k}
    BY <1>1 DEF NamesApart, Holders
<1>3. Holders(t, name) \subseteq 1..size /\ Holders(t, name) # {}
    BY <1>1, SlotsOfTable
<1>4. First(Holders(t, name)) \in Holders(t, name)
    BY <1>3, FirstIsLeast
<1> QED BY <1>2, <1>4

\* What a name means is what its slot holds.
LEMMA Found ==
    ASSUME NEW size \in Nat, NEW t \in Table(size), NEW name
    PROVE  /\ name \in DOMAIN MapOf(t) <=> Holders(t, name) # {}
           /\ \A k \in Holders(t, name) : MapOf(t)[name] = t[k].value
<1>1. name \in DOMAIN MapOf(t) <=> Holders(t, name) # {}
    BY DEF MapOf, NamesIn, Holders
<1>2. ASSUME NEW k \in Holders(t, name) PROVE MapOf(t)[name] = t[k].value
    <2>1. First(Holders(t, name)) = k
        BY HolderIsOne
    <2>2. name \in NamesIn(t)
        BY <1>1, <1>2 DEF MapOf
    <2> QED BY <2>1, <2>2 DEF MapOf, Get
<1> QED BY <1>1, <1>2

\* As many names are defined as slots are in use; so there is room for another
\* exactly when a slot is free.
LEMMA RoomIsFreeSlot ==
    ASSUME NEW size \in Nat, NEW t \in Table(size)
    PROVE  Cardinality(DOMAIN MapOf(t)) < size <=> FreeSlots(t) # {}
<1> DEFINE U == (1..size) \ FreeSlots(t)
           D == DOMAIN MapOf(t)
           f == [i \in U |-> t[i].name]
<1>0. t \in Tables(size) /\ NamesApart(t) /\ DOMAIN t = 1..size
    BY SlotsOfTable DEF Table
<1>1. \A i \in U : t[i] # Free /\ t[i].name \in Texts /\ i \in Holders(t, t[i].name)
    BY <1>0, SlotsOfTable DEF FreeSlots, Holders, Entry
<1>2. f \in [U -> D]
    BY <1>1, Found
<1>3. \A i, j \in U : f[i] = f[j] => i = j
    BY <1>0, <1>1 DEF NamesApart
<1>4. \A m \in D : \E i \in U : f[i] = m
    <2> TAKE m \in D
    <2>1. PICK i \in Holders(t, m) : TRUE
        BY Found
    <2>2. i \in U /\ t[i].name = m
        BY <1>0 DEF Holders, FreeSlots
    <2> QED BY <2>2
<1>5. f \in Bijection(U, D)
    <2> HIDE DEF U, D, f
    <2> QED BY <1>2, <1>3, <1>4 DEF Bijection, Injection, Surjection, IsInjective
<1>6. IsFiniteSet(1..size) /\ Cardinality(1..size) = size
    BY FS_Interval
<1>7. IsFiniteSet(U) /\ Cardinality(U) <= size /\ (Cardinality(U) = size => U = 1..size)
    BY <1>6, FS_Subset
<1>8. Cardinality(D) = Cardinality(U)
    <2> HIDE DEF U, D, f
    <2> QED BY <1>5, <1>7, FS_Bijection DEF ExistsBijection
<1>9. FreeSlots(t) \subseteq 1..size
    BY <1>0, SlotsOfTable
<1>10. Cardinality(U) \in Nat
    BY <1>7, FS_CardinalityType
<1>11. U = 1..size <=> FreeSlots(t) = {}
    BY <1>9
<1>12. U = 1..size => Cardinality(U) = size
    BY <1>6
<1> HIDE DEF U, D
<1>13. Cardinality(D) < size <=> U # 1..size
    BY <1>7, <1>8, <1>10, <1>12
<1> QED BY <1>11, <1>13 DEF D

\* The table of functions at the start, and that of aliases before its defaults:
\* no slot is in use, and no name means anything.
LEMMA EmptyIsTable ==
    ASSUME NEW size \in Nat
    PROVE  Empty(size) \in Table(size) /\ DOMAIN MapOf(Empty(size)) = {}
<1>1. Empty(size) \in Tables(size) /\ DOMAIN Empty(size) = 1..size
    BY DEF Empty, Tables
<1>2. \A i \in 1..size : Empty(size)[i] = Free
    BY DEF Empty
<1>3. NamesApart(Empty(size))
    BY <1>1, <1>2 DEF NamesApart
<1> QED BY <1>1, <1>2, <1>3 DEF Table, MapOf, NamesIn

-----------------------------------------------------------------------------
(* Defining a name.                                                        *)

\* A slot is written, and a map has a name set, whether there is room or not.
Written(t, k, name, value) == [t EXCEPT ![k] = [name |-> name, value |-> value]]
Bound(m, name, value) == [n \in DOMAIN m \cup {name} |-> IF n = name THEN value ELSE m[n]]
With(size, m, name, value) ==
    IF name \in DOMAIN m \/ Cardinality(DOMAIN m) < size THEN Bound(m, name, value) ELSE m

\* Writing a slot that holds the name, or a free one when none does.
LEMMA SlotWritten ==
    ASSUME NEW size \in Nat, NEW t \in Table(size), NEW name \in Texts, NEW value \in Texts,
           NEW k \in 1..size,
           Holders(t, name) = {k} \/ (Holders(t, name) = {} /\ k \in FreeSlots(t))
    PROVE  /\ Written(t, k, name, value) \in Table(size)
           /\ MapOf(Written(t, k, name, value)) = Bound(MapOf(t), name, value)
<1> DEFINE e == [name |-> name, value |-> value]
           u == Written(t, k, name, value)
<1>1. t \in Tables(size) /\ NamesApart(t) /\ DOMAIN t = 1..size
    BY SlotsOfTable DEF Table
<1>2. e \in Entry /\ e # Free /\ e.name = name /\ e.value = value
    BY NameTablesAssumption DEF Entry
<1>3. u \in Tables(size) /\ DOMAIN u = 1..size /\ u[k] = e
      /\ \A i \in 1..size : i # k => u[i] = t[i]
    <2>1. u = [t EXCEPT ![k] = e]
        BY DEF Written
    <2> HIDE DEF e, u
    <2> QED BY <1>1, <1>2, <2>1 DEF Tables
<1> HIDE DEF u, e
<1>4. \A i \in 1..size : i # k /\ t[i] # Free => t[i].name # name
    BY <1>1 DEF Holders
<1>5. \A i \in 1..size : i = k /\ t[i] # Free => t[i].name = name
    BY <1>1 DEF Holders, FreeSlots
<1>6. NamesApart(u)
    BY <1>1, <1>2, <1>3, <1>4 DEF NamesApart
<1>7. u \in Table(size)
    BY <1>3, <1>6 DEF Table
<1>8. k \in Holders(u, name)
    BY <1>2, <1>3 DEF Holders
<1>9. \A m : m # name => Holders(u, m) = Holders(t, m) /\ k \notin Holders(t, m)
    BY <1>1, <1>2, <1>3, <1>5 DEF Holders
<1>10. DOMAIN MapOf(u) = DOMAIN MapOf(t) \cup {name}
    <2>1. \A m : m \in DOMAIN MapOf(u) <=> m \in DOMAIN MapOf(t) \cup {name}
        BY <1>7, <1>8, <1>9, Found
    <2> QED BY <2>1
<1>11. MapOf(u)[name] = value
    BY <1>2, <1>3, <1>7, <1>8, Found
<1>12. ASSUME NEW m \in DOMAIN MapOf(t), m # name
       PROVE  MapOf(u)[m] = MapOf(t)[m]
    <2>1. PICK i \in Holders(t, m) : TRUE
        BY Found
    <2>2. i \in Holders(u, m) /\ i # k /\ i \in 1..size
        BY <1>1, <1>9, <1>12 DEF Holders
    <2>3. MapOf(u)[m] = u[i].value /\ MapOf(t)[m] = t[i].value
        BY <1>7, <2>1, <2>2, Found
    <2> QED BY <1>3, <2>2, <2>3
<1>13. MapOf(u) = [m \in DOMAIN MapOf(u) |-> MapOf(u)[m]]
    BY DEF MapOf
<1>14. MapOf(u) = Bound(MapOf(t), name, value)
    BY <1>10, <1>11, <1>12, <1>13 DEF Bound
<1> QED BY <1>7, <1>14 DEF u, e

\* alias_set and store_function: a table stays one in which the names differ, and
\* what a search finds afterwards is the map with the name defined, or the same
\* map when there is no room; so a hole that an alias left is neither lost nor
\* filled with a second value of a name.
LEMMA StoreIsWith ==
    ASSUME NEW size \in Nat, NEW t \in Table(size), NEW name \in Texts, NEW value \in Texts
    PROVE  /\ Store(t, name, value) \in Table(size)
           /\ MapOf(Store(t, name, value)) = With(size, MapOf(t), name, value)
<1>1. t \in Tables(size)
    BY DEF Table
<1> DEFINE W == Bound(MapOf(t), name, value)
<1>2. With(size, MapOf(t), name, value) =
          IF name \in DOMAIN MapOf(t) \/ Cardinality(DOMAIN MapOf(t)) < size
          THEN W ELSE MapOf(t)
    BY DEF With, Bound
<1> HIDE DEF W
<1>3. CASE Holders(t, name) # {}
    <2>1. PICK k \in Holders(t, name) : TRUE
        BY <1>3
    <2>2. Holders(t, name) = {k} /\ First(Holders(t, name)) = k /\ k \in 1..size
        BY <1>1, HolderIsOne, SlotsOfTable
    <2>3. Store(t, name, value) = Written(t, k, name, value)
        BY <1>3, <2>2 DEF Store, Written
    <2>4. Store(t, name, value) \in Table(size) /\ MapOf(Store(t, name, value)) = W
        BY <2>2, <2>3, SlotWritten DEF W
    <2>5. name \in DOMAIN MapOf(t)
        BY <1>3, Found
    <2> QED BY <1>2, <2>4, <2>5
<1>4. CASE Holders(t, name) = {} /\ FreeSlots(t) # {}
    <2> DEFINE k == First(FreeSlots(t))
    <2>1. FreeSlots(t) \subseteq 1..size
        BY <1>1, SlotsOfTable
    <2>2. k \in FreeSlots(t) /\ k \in 1..size
        BY <1>4, <2>1, FirstIsLeast
    <2>3. Store(t, name, value) = Written(t, k, name, value)
        BY <1>4 DEF Store, Written
    <2>4. Store(t, name, value) \in Table(size) /\ MapOf(Store(t, name, value)) = W
        <3> HIDE DEF k
        <3> QED BY <1>4, <2>2, <2>3, SlotWritten DEF W
    <2>5. Cardinality(DOMAIN MapOf(t)) < size
        BY <1>4, RoomIsFreeSlot
    <2> QED BY <1>2, <2>4, <2>5
<1>5. CASE Holders(t, name) = {} /\ FreeSlots(t) = {}
    <2>1. Store(t, name, value) = t
        BY <1>5 DEF Store
    <2>2. name \notin DOMAIN MapOf(t)
        BY <1>5, Found
    <2>3. ~(Cardinality(DOMAIN MapOf(t)) < size)
        BY <1>5, RoomIsFreeSlot
    <2> QED BY <1>2, <2>1, <2>2, <2>3
<1> QED BY <1>3, <1>4, <1>5

-----------------------------------------------------------------------------
(* Removing a name.                                                        *)

Without(m, name) == [n \in DOMAIN m \ {name} |-> m[n]]

\* alias_unset: a table stays one in which the names differ, and what a search
\* finds afterwards is the map without the name: nothing that the name stood for
\* comes back from a later slot.
LEMMA UnsetIsWithout ==
    ASSUME NEW size \in Nat, NEW t \in Table(size), NEW name \in Texts
    PROVE  /\ Unset(t, name) \in Table(size)
           /\ MapOf(Unset(t, name)) = Without(MapOf(t), name)
<1>1. t \in Tables(size) /\ NamesApart(t) /\ DOMAIN t = 1..size
    BY SlotsOfTable DEF Table
<1>2. MapOf(t) = [m \in DOMAIN MapOf(t) |-> MapOf(t)[m]]
    BY DEF MapOf
<1>3. CASE Holders(t, name) = {}
    <2>1. Unset(t, name) = t /\ name \notin DOMAIN MapOf(t)
        BY <1>3, Found DEF Unset
    <2>2. DOMAIN MapOf(t) \ {name} = DOMAIN MapOf(t)
        BY <2>1
    <2> QED BY <1>2, <2>1, <2>2 DEF Without
<1>4. CASE Holders(t, name) # {}
    <2>1. PICK k \in Holders(t, name) : TRUE
        BY <1>4
    <2>2. Holders(t, name) = {k} /\ First(Holders(t, name)) = k /\ k \in 1..size
        BY <1>1, HolderIsOne, SlotsOfTable
    <2> DEFINE u == [t EXCEPT ![k] = Free]
    <2>3. Unset(t, name) = u
        BY <1>4, <2>2 DEF Unset
    <2>4. u \in Tables(size) /\ DOMAIN u = 1..size /\ u[k] = Free
          /\ \A i \in 1..size : i # k => u[i] = t[i]
        BY <1>1, <2>2 DEF Tables
    <2> HIDE DEF u
    <2>5. u \in Table(size)
        <3>1. NamesApart(u)
            BY <1>1, <2>4 DEF NamesApart
        <3> QED BY <2>4, <3>1 DEF Table
    <2>6. Holders(u, name) = {}
        BY <1>1, <2>2, <2>4 DEF Holders
    <2>7. t[k] # Free /\ t[k].name = name
        BY <2>1 DEF Holders
    <2>8. \A m : m # name => Holders(u, m) = Holders(t, m) /\ k \notin Holders(t, m)
        BY <1>1, <2>4, <2>7 DEF Holders
    <2>9. DOMAIN MapOf(u) = DOMAIN MapOf(t) \ {name}
        <3>1. \A m : m \in DOMAIN MapOf(u) <=> m \in DOMAIN MapOf(t) \ {name}
            BY <2>5, <2>6, <2>8, Found
        <3> QED BY <3>1
    <2>10. ASSUME NEW m \in DOMAIN MapOf(t), m # name
           PROVE  MapOf(u)[m] = MapOf(t)[m]
        <3>1. PICK i \in Holders(t, m) : TRUE
            BY Found
        <3>2. i \in Holders(u, m) /\ i # k /\ i \in 1..size
            BY <1>1, <2>8, <2>10 DEF Holders
        <3>3. MapOf(u)[m] = u[i].value /\ MapOf(t)[m] = t[i].value
            BY <2>5, <3>1, <3>2, Found
        <3> QED BY <2>4, <3>2, <3>3
    <2>11. MapOf(u) = [m \in DOMAIN MapOf(u) |-> MapOf(u)[m]]
        BY DEF MapOf
    <2>12. MapOf(u) = Without(MapOf(t), name)
        BY <2>9, <2>10, <2>11 DEF Without
    <2> QED BY <2>3, <2>5, <2>12
<1> QED BY <1>3, <1>4

-----------------------------------------------------------------------------
(* The operations of the map, and several of them in their order.          *)

Operations == Seq(Texts)

\* alias_load_defaults asks for operations like any other.
LEMMA DefaultsType ==
    ASSUME NEW pairs \in Seq(Texts \X Texts)
    PROVE  pairs \in Seq(Operations)
<1>1. ASSUME NEW p \in Texts \X Texts PROVE p \in Operations
    <2>1. PICK a \in Texts, b \in Texts : p = <<a, b>>
        OBVIOUS
    <2>2. <<a, b>> \in Seq(Texts)
        OBVIOUS
    <2> QED BY <2>1, <2>2 DEF Operations
<1>2. Len(pairs) \in Nat /\ \A i \in 1..Len(pairs) : pairs[i] \in Operations
    BY <1>1
<1> QED BY <1>2

LEMMA ApplyOne ==
    ASSUME NEW t, NEW op
    PROVE  /\ Len(op) = 2 => Apply(t, op) = Store(t, op[1], op[2])
           /\ Len(op) = 1 => Apply(t, op) = Unset(t, op[1])
           /\ Len(op) # 2 /\ Len(op) # 1 => Apply(t, op) = t
BY DEF Apply

LEMMA ApplyIsTable ==
    ASSUME NEW size \in Nat, NEW t \in Table(size), NEW op \in Operations
    PROVE  Apply(t, op) \in Table(size)
<1>1. \A i \in 1..Len(op) : op[i] \in Texts
    BY DEF Operations
<1>2. CASE Len(op) = 2
    BY <1>1, <1>2, ApplyOne, StoreIsWith
<1>3. CASE Len(op) = 1
    BY <1>1, <1>3, ApplyOne, UnsetIsWithout
<1> QED BY <1>2, <1>3, ApplyOne

LEMMA ApplyAllSteps ==
    ASSUME NEW size \in Nat, NEW t \in Table(size), NEW ops \in Seq(Operations)
    PROVE  \E f \in [0..Len(ops) -> Table(size)] :
               /\ f[0] = t
               /\ \A i \in 1..Len(ops) : f[i] = Apply(f[i - 1], ops[i])
               /\ ApplyAll(t, ops) = f[Len(ops)]
<1> DEFINE n == Len(ops)
           F == [p \in Table(size) \X (1..n) |-> Apply(p[1], ops[p[2]])]
           after[i \in 0..n] == IF i = 0 THEN t ELSE Apply(after[i - 1], ops[i])
<1>1. n \in Nat /\ \A i \in 1..n : ops[i] \in Operations
    OBVIOUS
<1>2. \A u \in Table(size) : \A i \in 1..n : F[<<u, i>>] = Apply(u, ops[i]) /\ F[<<u, i>>] \in Table(size)
    BY <1>1, ApplyIsTable
<1>3. PICK f \in [0..n -> Table(size)] : Runs(f, n, t, F)
    <2> HIDE DEF F, n
    <2> QED BY <1>1, <1>2, RunExists
<1>4. ASSUME NEW i \in 1..n PROVE f[i] = Apply(f[i - 1], ops[i])
    <2> HIDE DEF F, n
    <2>1. f[i - 1] \in Table(size) /\ f[i] = F[<<f[i - 1], i>>]
        BY <1>1, <1>3 DEF Runs
    <2> QED BY <1>2, <2>1
<1>5. f = [i \in 0..n |-> IF i = 0 THEN t ELSE Apply(f[i - 1], ops[i])]
    BY <1>3, <1>4 DEF Runs
<1>6. after = [i \in 0..n |-> IF i = 0 THEN t ELSE Apply(after[i - 1], ops[i])]
    BY <1>5
<1> QED OBVIOUS

\* The same for a map with room for size names.
AfterOn(size, m, op) ==
    CASE Len(op) = 2 -> With(size, m, op[1], op[2])
      [] Len(op) = 1 -> Without(m, op[1])
      [] OTHER -> m
AfterAllOn(size, m, ops) ==
    LET after[i \in 0..Len(ops)] ==
            IF i = 0 THEN m ELSE AfterOn(size, after[i - 1], ops[i])
    IN  after[Len(ops)]

LEMMA AfterOne ==
    ASSUME NEW size, NEW m, NEW op
    PROVE  /\ Len(op) = 2 => AfterOn(size, m, op) = With(size, m, op[1], op[2])
           /\ Len(op) = 1 => AfterOn(size, m, op) = Without(m, op[1])
           /\ Len(op) # 2 /\ Len(op) # 1 => AfterOn(size, m, op) = m
BY DEF AfterOn

\* alias, unalias and a definition of a function do to the slots what the map says.
LEMMA ApplyIsAfter ==
    ASSUME NEW size \in Nat, NEW t \in Table(size), NEW op \in Operations
    PROVE  MapOf(Apply(t, op)) = AfterOn(size, MapOf(t), op)
<1>1. \A i \in 1..Len(op) : op[i] \in Texts
    BY DEF Operations
<1>2. CASE Len(op) = 2
    BY <1>1, <1>2, ApplyOne, AfterOne, StoreIsWith
<1>3. CASE Len(op) = 1
    BY <1>1, <1>3, ApplyOne, AfterOne, UnsetIsWithout
<1> QED BY <1>2, <1>3, ApplyOne, AfterOne

LEMMA ApplyAllIsAfterAll ==
    ASSUME NEW size \in Nat, NEW t \in Table(size), NEW ops \in Seq(Operations)
    PROVE  /\ ApplyAll(t, ops) \in Table(size)
           /\ MapOf(ApplyAll(t, ops)) = AfterAllOn(size, MapOf(t), ops)
<1> DEFINE n == Len(ops)
           m == MapOf(t)
           after[i \in 0..n] == IF i = 0 THEN m ELSE AfterOn(size, after[i - 1], ops[i])
<1>1. n \in Nat /\ \A i \in 1..n : ops[i] \in Operations
    OBVIOUS
<1>2. PICK f \in [0..n -> Table(size)] :
          /\ f[0] = t
          /\ \A i \in 1..n : f[i] = Apply(f[i - 1], ops[i])
          /\ ApplyAll(t, ops) = f[n]
    BY ApplyAllSteps
<1> DEFINE g == [i \in 0..n |-> MapOf(f[i])]
<1>3. ASSUME NEW i \in 1..n PROVE g[i] = AfterOn(size, g[i - 1], ops[i])
    <2> HIDE DEF n
    <2>1. f[i - 1] \in Table(size) /\ i - 1 \in 0..n
        BY <1>1, <1>2
    <2>2. MapOf(Apply(f[i - 1], ops[i])) = AfterOn(size, MapOf(f[i - 1]), ops[i])
        BY <1>1, <2>1, ApplyIsAfter
    <2> QED BY <1>2, <2>1, <2>2
<1>4. g[0] = m
    BY <1>2
<1>5. g = [i \in 0..n |-> IF i = 0 THEN m ELSE AfterOn(size, g[i - 1], ops[i])]
    <2> HIDE DEF m, n
    <2>1. \A i \in 0..n : g[i] = IF i = 0 THEN m ELSE AfterOn(size, g[i - 1], ops[i])
        <3> HIDE DEF g
        <3> QED BY <1>1, <1>3, <1>4
    <2> QED BY <2>1
<1>6. after = [i \in 0..n |-> IF i = 0 THEN m ELSE AfterOn(size, after[i - 1], ops[i])]
    <2> HIDE DEF g
    <2> QED BY <1>5
<1>7. \A k \in 0..n : k \in {i \in 0..n : after[i] = g[i]}
    <2> DEFINE S == {i \in 0..n : after[i] = g[i]}
    <2>1. 0 \in S
        <3> HIDE DEF g, after
        <3> QED BY <1>1, <1>4, <1>6
    <2>2. ASSUME NEW k \in 1..n, k - 1 \in S PROVE k \in S
        <3> HIDE DEF g, after, m, n
        <3>1. after[k] = AfterOn(size, after[k - 1], ops[k])
            BY <1>1, <1>6
        <3>2. after[k - 1] = g[k - 1]
            BY <2>2
        <3> QED BY <1>1, <1>3, <3>1, <3>2
    <2> HIDE DEF S, n
    <2>3. \A k \in 0..n : k \in S
        BY <1>1, <2>1, <2>2, Upwards
    <2> QED BY <2>3 DEF S
<1>8. AfterAllOn(size, MapOf(t), ops) = after[n]
    BY DEF AfterAllOn
<1>9. after[n] = MapOf(f[n]) /\ f[n] \in Table(size)
    <2> HIDE DEF after, n
    <2> QED BY <1>1, <1>2, <1>7
<1> QED BY <1>2, <1>8, <1>9

\* No operation changes nothing.
LEMMA AfterNone == ASSUME NEW size, NEW m PROVE AfterAllOn(size, m, <<>>) = m
<1> DEFINE after[i \in 0..0] == IF i = 0 THEN m ELSE AfterOn(size, after[i - 1], <<>>[i])
           g == [i \in 0..0 |-> m]
<1>1. g = [i \in 0..0 |-> IF i = 0 THEN m ELSE AfterOn(size, g[i - 1], <<>>[i])]
    OBVIOUS
<1>2. after = [i \in 0..0 |-> IF i = 0 THEN m ELSE AfterOn(size, after[i - 1], <<>>[i])]
    <2> HIDE DEF g
    <2> QED BY <1>1
<1>3. after[0] = m
    <2> HIDE DEF after
    <2> QED BY <1>2
<1>4. Len(<<>>) = 0
    OBVIOUS
<1> QED BY <1>3, <1>4 DEF AfterAllOn

-----------------------------------------------------------------------------
(* What a session asked for, item by item.                                 *)

LEMMA FlattenSteps ==
    ASSUME NEW S, NEW s \in Seq(Seq(S))
    PROVE  \E f \in [0..Len(s) -> Seq(S)] :
               /\ f[0] = <<>>
               /\ \A i \in 1..Len(s) : f[i] = f[i - 1] \o s[i]
               /\ FlattenSeq(s) = f[Len(s)]
<1> DEFINE n == Len(s)
           F == [p \in Seq(S) \X (1..n) |-> p[1] \o s[p[2]]]
           flatten[i \in 1..n] == IF i = 1 THEN s[i] ELSE flatten[i - 1] \o s[i]
<1>1. n \in Nat /\ \A i \in 1..n : s[i] \in Seq(S)
    OBVIOUS
<1>2. ASSUME NEW u \in Seq(S), NEW i \in 1..n
      PROVE  F[<<u, i>>] = u \o s[i] /\ F[<<u, i>>] \in Seq(S)
    <2>1. F[<<u, i>>] = u \o s[i]
        BY DEF F
    <2>2. s[i] \in Seq(S)
        BY <1>1
    <2>3. u \o s[i] \in Seq(S)
        BY <2>2
    <2> QED BY <2>1, <2>3
<1>3. PICK f \in [0..n -> Seq(S)] : Runs(f, n, <<>>, F)
    <2> HIDE DEF F, n
    <2>1. <<>> \in Seq(S)
        OBVIOUS
    <2> QED BY <1>1, <1>2, <2>1, RunExists
<1>4. ASSUME NEW i \in 1..n PROVE f[i] = f[i - 1] \o s[i]
    <2> HIDE DEF F, n
    <2>1. f[i - 1] \in Seq(S) /\ f[i] = F[<<f[i - 1], i>>]
        BY <1>1, <1>3 DEF Runs
    <2> QED BY <1>2, <2>1
<1>5. f[0] = <<>>
    BY <1>3 DEF Runs
<1>6. CASE n = 0
    <2>1. s = <<>> /\ FlattenSeq(s) = s
        BY <1>6 DEF FlattenSeq
    <2> QED BY <1>4, <1>5, <1>6, <2>1
<1>7. CASE n # 0
    <2> DEFINE g == [i \in 1..n |-> f[i]]
    <2>1. f[1] = s[1]
        <3> HIDE DEF n
        <3>1. 1 \in 1..n /\ s[1] \in Seq(S)
            BY <1>1, <1>7
        <3>2. f[1] = f[1 - 1] \o s[1]
            BY <1>4, <3>1
        <3>3. 1 - 1 = 0
            OBVIOUS
        <3>4. f[1] = <<>> \o s[1]
            BY <1>5, <3>2, <3>3
        <3> QED BY <3>1, <3>4
    <2>2. g = [i \in 1..n |-> IF i = 1 THEN s[i] ELSE g[i - 1] \o s[i]]
        <3> HIDE DEF n
        <3>1. ASSUME NEW i \in 1..n PROVE g[i] = IF i = 1 THEN s[i] ELSE g[i - 1] \o s[i]
            <4>1. CASE i = 1
                BY <2>1, <4>1
            <4>2. CASE i # 1
                <5>1. i - 1 \in 1..n
                    BY <1>1, <4>2
                <5>2. g[i] = f[i] /\ g[i - 1] = f[i - 1]
                    BY <5>1
                <5> QED BY <1>4, <4>2, <5>2
            <4> QED BY <4>1, <4>2
        <3> QED BY <3>1
    <2>3. flatten = [i \in 1..n |-> IF i = 1 THEN s[i] ELSE flatten[i - 1] \o s[i]]
        <3> HIDE DEF g
        <3> QED BY <2>2
    <2> DEFINE T == {k \in 0..n : k > 0 => flatten[k] = f[k]}
    <2>4. 0 \in T
        BY <1>1
    <2>5. ASSUME NEW k \in 1..n, k - 1 \in T PROVE k \in T
        <3> HIDE DEF flatten, n
        <3>1. CASE k = 1
            BY <1>1, <2>1, <2>3, <3>1
        <3>2. CASE k > 1
            <4>1. k \in 1..n /\ k # 1
                BY <1>1, <3>2
            <4>2. flatten[k] = flatten[k - 1] \o s[k]
                BY <2>3, <4>1
            <4>3. flatten[k - 1] = f[k - 1]
                BY <1>1, <2>5, <3>2
            <4>4. f[k] = f[k - 1] \o s[k]
                BY <1>4
            <4>5. flatten[k] = f[k]
                BY <4>2, <4>3, <4>4
            <4> QED BY <1>1, <4>5
        <3> QED BY <1>1, <3>1, <3>2
    <2>6. \A k \in 0..n : k \in T
        <3> HIDE DEF T, n
        <3> QED BY <1>1, <2>4, <2>5, Upwards
    <2>7. flatten[n] = f[n]
        <3> HIDE DEF flatten, n
        <3> QED BY <1>1, <1>7, <2>6
    <2>8. FlattenSeq(s) = flatten[n]
        BY <1>7 DEF FlattenSeq
    <2> QED BY <1>4, <1>5, <2>7, <2>8
<1> QED BY <1>6, <1>7

LEMMA FlattenAppend ==
    ASSUME NEW S, NEW s \in Seq(Seq(S)), NEW x \in Seq(S)
    PROVE  /\ FlattenSeq(s) \in Seq(S)
           /\ FlattenSeq(Append(s, x)) = FlattenSeq(s) \o x
<1> DEFINE n == Len(s)
           t == Append(s, x)
<1>1. n \in Nat /\ t \in Seq(Seq(S)) /\ Len(t) = n + 1 /\ t[n + 1] = x
      /\ \A i \in 1..n : t[i] = s[i]
    OBVIOUS
<1>2. PICK f \in [0..n -> Seq(S)] :
          f[0] = <<>> /\ (\A i \in 1..n : f[i] = f[i - 1] \o s[i]) /\ FlattenSeq(s) = f[n]
    BY FlattenSteps
<1> HIDE DEF t
<1>3. PICK h \in [0..Len(t) -> Seq(S)] :
          h[0] = <<>> /\ (\A i \in 1..Len(t) : h[i] = h[i - 1] \o t[i])
          /\ FlattenSeq(t) = h[Len(t)]
    BY <1>1, FlattenSteps
<1> HIDE DEF n
<1> DEFINE T == {k \in 0..n : h[k] = f[k]}
<1>4. 0 \in T
    BY <1>1, <1>2, <1>3
<1>5. ASSUME NEW k \in 1..n, k - 1 \in T PROVE k \in T
    <2>1. f[k] = f[k - 1] \o s[k]
        BY <1>2
    <2>2. k \in 1..Len(t) /\ t[k] = s[k]
        BY <1>1
    <2>3. h[k] = h[k - 1] \o s[k]
        BY <1>3, <2>2
    <2>4. h[k - 1] = f[k - 1]
        BY <1>5
    <2>5. h[k] = f[k]
        BY <2>1, <2>3, <2>4
    <2> QED BY <1>1, <2>5
<1>6. \A k \in 0..n : k \in T
    <2> HIDE DEF T
    <2> QED BY <1>1, <1>4, <1>5, Upwards
<1>7. n + 1 \in 1..Len(t) /\ (n + 1) - 1 = n /\ n \in 0..n
    BY <1>1
<1>8. h[n + 1] = h[n] \o x
    <2>1. h[n + 1] = h[(n + 1) - 1] \o t[n + 1]
        BY <1>3, <1>7
    <2> QED BY <1>1, <1>7, <2>1
<1>9. h[n] = f[n] /\ f[n] \in Seq(S)
    BY <1>2, <1>6, <1>7
<1> QED BY <1>1, <1>2, <1>3, <1>8, <1>9 DEF t

-----------------------------------------------------------------------------
(* What the helpers return.                                                *)

\* The environments that a command can be parsed in.
Maps == UNION {[D -> Texts] : D \in SUBSET Texts}
Environments == [var : Maps, status : Statuses, args : Seq(Texts), files : {Directory}]

LEMMA MinIsLeast ==
    ASSUME NEW n \in Nat, NEW I, I \subseteq 1..n, I # {}
    PROVE  Min(I) \in I /\ \A i \in I : Min(I) <= i
<1>1. Min(I) = First(I)
    BY DEF Min, First
<1> QED BY <1>1, FirstIsLeast

LEMMA NextOfType ==
    ASSUME NEW t \in Texts, NEW S
    PROVE  NextOf(t, 1, Len(t) + 1, S) \in 0..Len(t)
<1> DEFINE I == {i \in 1..(Len(t) + 1) - 1 : t[i] \in S}
<1>1. Len(t) \in Nat /\ I \subseteq 1..Len(t)
    BY DEF Texts
<1>2. NextOf(t, 1, Len(t) + 1, S) = IF I # {} THEN Min(I) ELSE 0
    BY DEF NextOf, SelectInSubSeq
<1> HIDE DEF I
<1>3. CASE I = {}
    BY <1>1, <1>2, <1>3
<1>4. CASE I # {}
    <2>1. Min(I) \in I
        BY <1>1, <1>4, MinIsLeast
    <2>2. NextOf(t, 1, Len(t) + 1, S) = Min(I)
        BY <1>2, <1>4
    <2>3. Min(I) \in 1..Len(t)
        BY <1>1, <2>1, Zenon
    <2>4. \A i \in 1..Len(t) : i \in 0..Len(t)
        BY <1>1
    <2> QED BY <2>2, <2>3, <2>4
<1> QED BY <1>3, <1>4

LEMMA NextOfNone ==
    ASSUME NEW t \in Texts, NEW c, ~Contains(t, c)
    PROVE  NextOf(t, 1, Len(t) + 1, {c}) = 0
<1> DEFINE I == {i \in 1..(Len(t) + 1) - 1 : t[i] \in {c}}
<1>1. I = {}
    BY DEF Contains, Texts
<1>2. NextOf(t, 1, Len(t) + 1, {c}) = IF I # {} THEN Min(I) ELSE 0
    BY DEF NextOf, SelectInSubSeq
<1> QED BY <1>1, <1>2

LEMMA SubText ==
    ASSUME NEW S, NEW t \in Seq(S), NEW i \in 1..Len(t) + 1, NEW j \in 0..Len(t)
    PROVE  SubSeq(t, i, j) \in Seq(S)
OBVIOUS

LEMMA AppendNewline == ASSUME NEW t \in Texts PROVE Append(t, "nl") \in Texts
BY ScanningAssumption DEF Texts

LEMMA Leading ==
    ASSUME NEW S, NEW t \in Seq(S), NEW j \in 0..Len(t)
    PROVE  /\ SubSeq(t, 1, j) \in Seq(S)
           /\ Len(SubSeq(t, 1, j)) = j
           /\ \A i \in 1..j : SubSeq(t, 1, j)[i] = t[i]
OBVIOUS

\* What a table gives for a name.
LEMMA MapType ==
    ASSUME NEW size \in Nat, NEW t \in Table(size), NEW name \in DOMAIN MapOf(t)
    PROVE  name \in Texts /\ MapOf(t)[name] \in Texts
<1>1. PICK k \in Holders(t, name) : TRUE
    BY Found
<1>2. k \in 1..size /\ t[k] \in Entry /\ t[k].name = name
    BY SlotsOfTable DEF Table, Holders
<1>3. MapOf(t)[name] = t[k].value
    BY Found
<1> QED BY <1>2, <1>3 DEF Entry

LEMMA AliasExpandType ==
    ASSUME NEW size \in Nat, NEW t \in Table(size), NEW text \in Texts
    PROVE  alias_expand_line(text, MapOf(t)) \in Texts
<1> DEFINE blank == NextOf(text, 1, Len(text) + 1, {" "})
           after == IF blank = 0 THEN Len(text) + 1 ELSE blank
           first == SubSeq(text, 1, after - 1)
           tail == SubSeq(text, after, Len(text))
<1>1. Len(text) \in Nat /\ after \in 1..Len(text) + 1
    <2>1. blank \in 0..Len(text)
        BY NextOfType
    <2>2. Len(text) \in Nat
        BY DEF Texts
    <2> HIDE DEF blank
    <2> QED BY <2>1, <2>2
<1>2. tail \in Texts
    <2> HIDE DEF after
    <2> QED BY <1>1, SubText DEF Texts
<1>3. first \in DOMAIN MapOf(t) => MapOf(t)[first] \o tail \in Texts
    <2> HIDE DEF tail, first
    <2>1. \A u \in Texts : u \o tail \in Texts
        BY <1>2 DEF Texts
    <2> QED BY <2>1, MapType
<1>4. alias_expand_line(text, MapOf(t)) =
          IF first # <<>> /\ first \in DOMAIN MapOf(t) THEN MapOf(t)[first] \o tail ELSE text
    BY DEF alias_expand_line
<1> HIDE DEF first, tail
<1> QED BY <1>3, <1>4

LEMMA CommandAtType ==
    ASSUME NEW words \in Seq(Texts)
    PROVE  /\ CommandAt(words) \in 1..Len(words) + 1
           /\ \A i \in 1..CommandAt(words) - 1 : IsAssignment(words[i])
<1> DEFINE I == {i \in 1..Len(words) : ~IsAssignment(words[i])}
           at == IF I # {} THEN Min(I) ELSE 0
<1>1. Len(words) \in Nat /\ I \subseteq 1..Len(words)
    OBVIOUS
<1>2. CommandAt(words) = IF at = 0 THEN Len(words) + 1 ELSE at
    BY DEF CommandAt, SelectInSeq
<1>3. CASE I = {}
    <2>1. CommandAt(words) = Len(words) + 1
        <3> HIDE DEF I
        <3> QED BY <1>2, <1>3
    <2>2. \A i \in 1..Len(words) : IsAssignment(words[i])
        BY <1>3
    <2> QED BY <1>1, <2>1, <2>2
<1>4. CASE I # {}
    <2>1. Min(I) \in I /\ \A i \in I : Min(I) <= i
        <3> HIDE DEF I
        <3> QED BY <1>1, <1>4, MinIsLeast
    <2> DEFINE m == Min(I)
    <2>2. m \in 1..Len(words) /\ \A i \in I : m <= i
        <3> HIDE DEF I
        <3> QED BY <1>1, <2>1
    <2>3. CommandAt(words) = m
        <3> HIDE DEF I
        <3>1. at = Min(I)
            BY <1>4
        <3>2. Min(I) # 0
            BY <1>1, <2>2
        <3> QED BY <1>2, <3>1, <3>2
    <2>4. ASSUME NEW i \in 1..m - 1 PROVE IsAssignment(words[i])
        <3> HIDE DEF m
        <3>1. i \in 1..Len(words) /\ ~(m <= i)
            BY <1>1, <2>2
        <3>2. i \notin I
            BY <2>2, <3>1
        <3> QED BY <3>1, <3>2
    <2> HIDE DEF I, m
    <2> QED BY <1>1, <2>2, <2>3, <2>4
<1> QED BY <1>3, <1>4

LEMMA CommandInType ==
    ASSUME NEW words \in Seq(Texts)
    PROVE  CommandIn(words) \in Seq(Texts)
BY CommandAtType, SubText DEF CommandIn

\* The words NAME=VALUE: an assignment keeps the environment one.
LEMMA SetByType ==
    ASSUME NEW v \in Maps, NEW w \in Texts, Len(w) > 1
    PROVE  SetBy(v, w) \in Maps
<1> DEFINE D == DOMAIN v \cup {<<w[1]>>}
           value == SubSeq(w, 3, Len(w))
<1>1. DOMAIN v \subseteq Texts /\ \A name \in DOMAIN v : v[name] \in Texts
    BY DEF Maps
<1>2. <<w[1]>> \in Texts
    BY DEF Texts
<1>3. value \in Texts
    BY DEF Texts
<1>4. \A name \in D : (IF name = <<w[1]>> THEN value ELSE v[name]) \in Texts
    BY <1>1, <1>3
<1>5. SetBy(v, w) = [name \in D |-> IF name = <<w[1]>> THEN value ELSE v[name]]
    BY DEF SetBy
<1>6. D \in SUBSET Texts
    BY <1>1, <1>2
<1> HIDE DEF D, value
<1> QED BY <1>4, <1>5, <1>6 DEF Maps

LEMMA AssignedType ==
    ASSUME var \in Maps, NEW words \in Seq(Texts), \A i \in 1..Len(words) : Len(words[i]) > 1
    PROVE  Assigned(words) \in Maps
<1> DEFINE n == Len(words)
           F == [p \in Maps \X (1..n) |-> SetBy(p[1], words[p[2]])]
           after[i \in 0..n] == IF i = 0 THEN var ELSE SetBy(after[i - 1], words[i])
<1>1. n \in Nat /\ \A i \in 1..n : words[i] \in Texts /\ Len(words[i]) > 1
    OBVIOUS
<1>2. \A u \in Maps : \A i \in 1..n : F[<<u, i>>] = SetBy(u, words[i]) /\ F[<<u, i>>] \in Maps
    BY <1>1, SetByType
<1>3. PICK f \in [0..n -> Maps] : Runs(f, n, var, F)
    <2> HIDE DEF F, n
    <2> QED BY <1>1, <1>2, RunExists
<1>4. ASSUME NEW i \in 1..n PROVE f[i] = SetBy(f[i - 1], words[i])
    <2> HIDE DEF F, n
    <2>1. f[i - 1] \in Maps /\ f[i] = F[<<f[i - 1], i>>]
        BY <1>1, <1>3 DEF Runs
    <2> QED BY <1>2, <2>1
<1>5. f = [i \in 0..n |-> IF i = 0 THEN var ELSE SetBy(f[i - 1], words[i])]
    BY <1>3, <1>4 DEF Runs
<1>6. after = [i \in 0..n |-> IF i = 0 THEN var ELSE SetBy(after[i - 1], words[i])]
    BY <1>5
<1>7. \A k \in 0..n : k \in {i \in 0..n : after[i] \in Maps}
    <2> DEFINE S == {i \in 0..n : after[i] \in Maps}
    <2>1. 0 \in S
        <3> HIDE DEF after, n
        <3> QED BY <1>1, <1>6
    <2>2. ASSUME NEW k \in 1..n, k - 1 \in S PROVE k \in S
        <3> HIDE DEF after, n
        <3>1. after[k] = SetBy(after[k - 1], words[k])
            BY <1>1, <1>6
        <3>2. after[k - 1] \in Maps
            BY <2>2
        <3> QED BY <1>1, <3>1, <3>2, SetByType
    <2> HIDE DEF S, n
    <2>3. \A k \in 0..n : k \in S
        BY <1>1, <2>1, <2>2, Upwards
    <2> QED BY <2>3 DEF S
<1>8. Assigned(words) = after[n]
    BY DEF Assigned
<1> HIDE DEF after, n
<1> QED BY <1>1, <1>7, <1>8

LEMMA LeadingAssignments ==
    ASSUME var \in Maps, NEW words \in Seq(Texts)
    PROVE  Assigned(SubSeq(words, 1, CommandAt(words) - 1)) \in Maps
<1> DEFINE at == CommandAt(words)
           leading == SubSeq(words, 1, at - 1)
<1>1. at \in 1..Len(words) + 1 /\ Len(words) \in Nat /\ \A i \in 1..at - 1 : IsAssignment(words[i])
    BY CommandAtType
<1> HIDE DEF at
<1>2. leading \in Seq(Texts) /\ Len(leading) = at - 1 /\ \A i \in 1..at - 1 : leading[i] = words[i]
    BY <1>1
<1>3. \A i \in 1..Len(leading) : Len(leading[i]) > 1
    BY <1>1, <1>2 DEF IsAssignment
<1> HIDE DEF leading
<1> QED BY <1>2, <1>3, AssignedType DEF leading, at

LEMMA TestStatus == ASSUME NEW argv, NEW files PROVE builtin_test(argv, files) \in {0, 1, 2}
<1>1. \A b : Truth(b) \in {0, 1}
    BY DEF Truth
<1> QED BY <1>1 DEF builtin_test

LEMMA CommandStatus ==
    ASSUME NEW argv
    PROVE  BuiltinStatus(argv) \in Statuses /\ ProgramStatus(argv) \in Statuses
<1>1. \A name \in {"test", "["} : builtin_test(argv, TestFiles) \in Statuses
    BY TestStatus DEF Statuses
<1>2. BuiltinStatus(argv) \in {builtin_test(argv, TestFiles), 0, 1}
    BY DEF BuiltinStatus
<1>3. ProgramStatus(argv) \in {127, 1, 0}
    BY DEF ProgramStatus
<1> QED BY <1>1, <1>2, <1>3 DEF Statuses

\* What alias and unalias ask for.
LEMMA SettingType == ASSUME NEW w \in Texts PROVE Setting(w) \in Operations
<1> DEFINE I == {i \in 1..Len(w) : w[i] = "="}
           e == IF I # {} THEN Min(I) ELSE 0
<1>1. Equals(w) = e
    BY DEF Equals, SelectInSeq
<1>2. Len(w) \in Nat /\ I \subseteq 1..Len(w)
    BY DEF Texts
<1>3. e \in 0..Len(w)
    <2> HIDE DEF I
    <2>1. CASE I = {}
        BY <1>2, <2>1
    <2>2. CASE I # {}
        <3>1. Min(I) \in I
            BY <1>2, <2>2, MinIsLeast
        <3>2. Min(I) \in 1..Len(w)
            BY <1>2, <3>1, Zenon
        <3>3. \A i \in 1..Len(w) : i \in 0..Len(w)
            BY <1>2
        <3> QED BY <2>2, <3>2, <3>3
    <2> QED BY <2>1, <2>2
<1> HIDE DEF e
<1>4. e > 0 => SubSeq(w, 1, e - 1) \in Texts /\ SubSeq(w, e + 1, Len(w)) \in Texts
    BY <1>2, <1>3 DEF Texts
<1>5. \A a, b \in Texts : <<a, b>> \in Seq(Texts)
    OBVIOUS
<1>6. <<>> \in Operations
    BY DEF Operations
<1>7. CASE e > 0
    BY <1>1, <1>4, <1>5, <1>7 DEF Setting, Operations
<1>8. CASE ~(e > 0)
    BY <1>1, <1>6, <1>8 DEF Setting
<1> QED BY <1>7, <1>8

LEMMA AliasOperationsType ==
    ASSUME NEW argv \in Seq(Texts), argv # <<>>
    PROVE  AliasOperations(argv) \in Seq(Operations)
<1> DEFINE set == [i \in 1..Len(argv) - 1 |-> Setting(argv[i + 1])]
           unset == [i \in 1..Len(argv) - 1 |-> <<argv[i + 1]>>]
<1>1. Len(argv) - 1 \in Nat /\ \A i \in 1..Len(argv) - 1 : argv[i + 1] \in Texts
    OBVIOUS
<1>2. set \in Seq(Operations)
    BY <1>1, SettingType
<1>3. unset \in Seq(Operations)
    <2>1. \A a \in Texts : <<a>> \in Operations
        BY DEF Operations
    <2> QED BY <1>1, <2>1
<1>4. <<>> \in Seq(Operations)
    OBVIOUS
<1>5. AliasOperations(argv) \in {set, unset, <<>>}
    BY DEF AliasOperations
<1> HIDE DEF set, unset
<1> QED BY <1>2, <1>3, <1>4, <1>5

-----------------------------------------------------------------------------
(* The stack of loops: its frames have their types, it has a frame of a    *)
(* file for each of the n files that are open, and each of these gives     *)
(* back to the file below it.                                              *)

FileFrames == [is : {"file"}, saved : Nat]
ChainFrames == [is : {"chain"}, todo : Seq(SegmentRecord), status : Statuses]
BodyFrames == {f \in [is : {"body"}, text : Texts, at : Nat, status : Statuses, args : Seq(Texts)] :
                   f.at \in 1..Len(f.text) + 1}
Frames == FileFrames \cup ChainFrames \cup BodyFrames

FilesUpTo(s, i) == {j \in 1..i : s[j].is = "file"}
Stacked(s, n) ==
    /\ s \in Seq(Frames)
    /\ Cardinality(FilesUpTo(s, Len(s))) = n
    /\ \A i \in DOMAIN s : s[i].is = "file" => s[i].saved = Cardinality(FilesUpTo(s, i - 1))

LEMMA FrameKinds ==
    ASSUME NEW f \in Frames
    PROVE  /\ f.is \in {"file", "chain", "body"}
           /\ f.is = "file" => f \in FileFrames
           /\ f.is = "chain" => f \in ChainFrames
           /\ f.is = "body" => f \in BodyFrames
BY DEF Frames, FileFrames, ChainFrames, BodyFrames

\* Files of stacks that agree are the same.
LEMMA FilesAgree ==
    ASSUME NEW s, NEW t, NEW i \in Int, \A j \in 1..i : t[j].is = s[j].is
    PROVE  FilesUpTo(t, i) = FilesUpTo(s, i)
BY DEF FilesUpTo

LEMMA FilesFinite ==
    ASSUME NEW s, NEW i \in Nat
    PROVE  IsFiniteSet(FilesUpTo(s, i)) /\ Cardinality(FilesUpTo(s, i)) \in Nat
<1>1. IsFiniteSet(1..i) /\ FilesUpTo(s, i) \subseteq 1..i
    BY FS_Interval DEF FilesUpTo
<1> QED BY <1>1, FS_Subset, FS_CardinalityType

\* One more frame.
LEMMA FilesNext ==
    ASSUME NEW s, NEW i \in Nat \ {0}
    PROVE  Cardinality(FilesUpTo(s, i)) =
               Cardinality(FilesUpTo(s, i - 1)) + (IF s[i].is = "file" THEN 1 ELSE 0)
<1> DEFINE P == FilesUpTo(s, i - 1)
<1>1. IsFiniteSet(P) /\ Cardinality(P) \in Nat
    BY FilesFinite
<1>2. i \notin P
    BY DEF FilesUpTo
<1>3. s[i].is = "file" => FilesUpTo(s, i) = P \cup {i}
    BY DEF FilesUpTo
<1>4. s[i].is # "file" => FilesUpTo(s, i) = P
    BY DEF FilesUpTo
<1> HIDE DEF P
<1>5. Cardinality(P \cup {i}) = Cardinality(P) + 1
    BY <1>1, <1>2, FS_AddElement
<1> QED BY <1>1, <1>3, <1>4, <1>5 DEF P

LEMMA Pushed ==
    ASSUME NEW n, NEW s, Stacked(s, n), NEW f \in Frames, f.is = "file" => f.saved = n
    PROVE  /\ Append(s, f) # <<>>
           /\ n \in Nat
           /\ Stacked(Append(s, f), n + (IF f.is = "file" THEN 1 ELSE 0))
<1> DEFINE t == Append(s, f)
           k == Len(s)
<1>1. k \in Nat /\ s \in Seq(Frames) /\ t \in Seq(Frames) /\ Len(t) = k + 1 /\ t[k + 1] = f
      /\ \A i \in 1..k : t[i] = s[i]
    BY DEF Stacked
<1>2. DOMAIN t = 1..k + 1 /\ DOMAIN s = 1..k /\ t # <<>>
    BY <1>1
<1> HIDE DEF t, k
<1>3. \A i \in 0..k : FilesUpTo(t, i) = FilesUpTo(s, i)
    BY <1>1, FilesAgree
<1>4. n = Cardinality(FilesUpTo(s, k)) /\ n \in Nat
    BY <1>1, FilesFinite DEF Stacked, k
<1>5. Cardinality(FilesUpTo(t, k + 1)) = n + (IF f.is = "file" THEN 1 ELSE 0)
    <2>1. Cardinality(FilesUpTo(t, k + 1)) =
              Cardinality(FilesUpTo(t, (k + 1) - 1)) + (IF t[k + 1].is = "file" THEN 1 ELSE 0)
        <3>1. k + 1 \in Nat \ {0}
            BY <1>1
        <3> QED BY <3>1, FilesNext
    <2>2. (k + 1) - 1 = k /\ k \in 0..k
        BY <1>1
    <2> QED BY <1>1, <1>3, <1>4, <2>1, <2>2
<1>6. ASSUME NEW i \in DOMAIN t, t[i].is = "file"
      PROVE  t[i].saved = Cardinality(FilesUpTo(t, i - 1))
    <2>1. i - 1 \in 0..k
        BY <1>1, <1>2
    <2>2. CASE i = k + 1
        <3>1. i - 1 = k
            BY <1>1, <2>2
        <3> QED BY <1>1, <1>3, <1>4, <1>6, <2>1, <2>2, <3>1
    <2>3. CASE i # k + 1
        <3>1. i \in DOMAIN s /\ t[i] = s[i]
            BY <1>1, <1>2, <2>3
        <3> QED BY <1>3, <1>6, <2>1, <3>1 DEF Stacked
    <2> QED BY <2>2, <2>3
<1>7. Stacked(t, n + (IF f.is = "file" THEN 1 ELSE 0))
    BY <1>1, <1>5, <1>6 DEF Stacked
<1> QED BY <1>2, <1>4, <1>7 DEF t

LEMMA Popped ==
    ASSUME NEW n, NEW s, Stacked(s, n), s # <<>>
    PROVE  /\ n \in Nat
           /\ Last(s) \in Frames
           /\ Last(s).is = "file" => n > 0 /\ Last(s).saved = n - 1
           /\ Stacked(Front(s), n - (IF Last(s).is = "file" THEN 1 ELSE 0))
<1> DEFINE t == Front(s)
           k == Len(s)
<1>0. s \in Seq(Frames) /\ k \in Nat \ {0} /\ t = SubSeq(s, 1, k - 1)
    BY DEF Stacked, Front
<1>1. s \in Seq(Frames) /\ k \in Nat \ {0} /\ t \in Seq(Frames) /\ Len(t) = k - 1
      /\ \A i \in 1..k - 1 : t[i] = s[i]
    <2>1. k - 1 \in 0..k
        BY <1>0
    <2> HIDE DEF t
    <2> QED BY <1>0, <2>1, Leading
<1>2. DOMAIN t = 1..k - 1 /\ DOMAIN s = 1..k /\ Last(s) = s[k] /\ s[k] \in Frames
    BY <1>1 DEF Last
<1> HIDE DEF t, k
<1>3. \A i \in 0..k - 1 : FilesUpTo(t, i) = FilesUpTo(s, i)
    BY <1>1, FilesAgree
<1>4. n = Cardinality(FilesUpTo(s, k)) /\ n \in Nat
    BY <1>1, FilesFinite DEF Stacked, k
<1>5. n = Cardinality(FilesUpTo(s, k - 1)) + (IF s[k].is = "file" THEN 1 ELSE 0)
      /\ Cardinality(FilesUpTo(s, k - 1)) \in Nat
    BY <1>1, <1>4, FilesNext, FilesFinite
<1>6. s[k].is = "file" => s[k].saved = Cardinality(FilesUpTo(s, k - 1))
    BY <1>1, <1>2 DEF Stacked
<1>7. Cardinality(FilesUpTo(t, k - 1)) = n - (IF s[k].is = "file" THEN 1 ELSE 0)
    <2>1. k - 1 \in 0..k - 1
        BY <1>1
    <2>2. FilesUpTo(t, k - 1) = FilesUpTo(s, k - 1)
        BY <1>3, <2>1
    <2> QED BY <1>4, <1>5, <2>2
<1>8. ASSUME NEW i \in DOMAIN t, t[i].is = "file"
      PROVE  t[i].saved = Cardinality(FilesUpTo(t, i - 1))
    <2>1. i - 1 \in 0..k - 1 /\ i \in DOMAIN s /\ t[i] = s[i]
        BY <1>1, <1>2
    <2> QED BY <1>3, <1>8, <2>1 DEF Stacked
<1>9. Stacked(t, n - (IF s[k].is = "file" THEN 1 ELSE 0))
    BY <1>1, <1>7, <1>8 DEF Stacked
<1> QED BY <1>2, <1>4, <1>5, <1>6, <1>9 DEF t

\* A frame that is no file's changes.
LEMMA Changed ==
    ASSUME NEW n, NEW s, Stacked(s, n), NEW k \in DOMAIN s, NEW f \in Frames,
           f.is = s[k].is, f.is # "file"
    PROVE  Stacked([s EXCEPT ![k] = f], n)
<1> DEFINE t == [s EXCEPT ![k] = f]
<1>1. s \in Seq(Frames) /\ Len(s) \in Nat /\ DOMAIN s = 1..Len(s)
    BY DEF Stacked
<1>2. t \in Seq(Frames) /\ Len(t) = Len(s) /\ DOMAIN t = DOMAIN s /\ t[k] = f
      /\ \A i \in DOMAIN s : i # k => t[i] = s[i]
    BY <1>1
<1> HIDE DEF t
<1>3. \A i \in DOMAIN s : t[i].is = s[i].is
    BY <1>2
<1>4. \A i \in 0..Len(s) : FilesUpTo(t, i) = FilesUpTo(s, i)
    BY <1>1, <1>3, FilesAgree
<1>5. ASSUME NEW i \in DOMAIN t, t[i].is = "file"
      PROVE  t[i].saved = Cardinality(FilesUpTo(t, i - 1))
    <2>1. i - 1 \in 0..Len(s) /\ i \in DOMAIN s /\ i # k
        BY <1>1, <1>2, <1>5
    <2>2. t[i] = s[i]
        BY <1>2, <2>1
    <2> QED BY <1>4, <1>5, <2>1, <2>2 DEF Stacked
<1>6. Cardinality(FilesUpTo(t, Len(t))) = n
    BY <1>1, <1>2, <1>4 DEF Stacked
<1>7. Stacked(t, n)
    BY <1>2, <1>5, <1>6 DEF Stacked
<1> QED BY <1>7 DEF t

LEMMA Returned ==
    ASSUME NEW n, NEW s, Stacked(s, n), NEW status \in Statuses
    PROVE  Stacked(Return(s, status), n)
<1>1. CASE s # <<>> /\ Last(s).is \in {"chain", "body"}
    <2> DEFINE k == Len(s)
               f == [s[k] EXCEPT !.status = status]
    <2>1. k \in DOMAIN s /\ s[k] \in Frames /\ s[k].is \in {"chain", "body"}
        BY <1>1 DEF Stacked, Last
    <2>2. f \in Frames /\ f.is = s[k].is
        <3>1. s[k] \in ChainFrames \cup BodyFrames
            BY <2>1, FrameKinds
        <3> HIDE DEF k
        <3>2. CASE s[k] \in ChainFrames
            <4>1. f \in ChainFrames /\ f.is = s[k].is
                BY <3>2 DEF ChainFrames
            <4> QED BY <4>1 DEF Frames
        <3>3. CASE s[k] \in BodyFrames
            <4>1. f \in BodyFrames /\ f.is = s[k].is
                BY <3>3 DEF BodyFrames
            <4> QED BY <4>1 DEF Frames
        <3> QED BY <3>1, <3>2, <3>3
    <2>3. Return(s, status) = [s EXCEPT ![k] = f]
        BY <1>1, <2>1 DEF Return
    <2>4. f.is = s[k].is /\ f.is # "file"
        BY <2>1, <2>2
    <2> HIDE DEF f, k
    <2>5. Stacked([s EXCEPT ![k] = f], n)
        BY <2>1, <2>2, <2>4, Changed
    <2> QED BY <2>3, <2>5
<1>2. CASE ~(s # <<>> /\ Last(s).is \in {"chain", "body"})
    BY <1>2 DEF Return
<1> QED BY <1>1, <1>2

-----------------------------------------------------------------------------
(* The invariant.                                                          *)

BlockRecord == [opener : Openers \cup {"function"}, text : Texts, file : Nat]

\* What is read: a block is collected only in the loop over the innermost file.
Inputs ==
    /\ script \in Scripts
    /\ rest \in Seq(Seq(Texts))
    /\ current = Len(rest)
    /\ Stacked(frames, Len(rest))
    /\ block # None => /\ block \in BlockRecord
                       /\ frames # <<>> /\ Top.is = "file"
                       /\ block.file = Len(rest)
Values == var \in Maps /\ last_status \in Statuses
Tabled == aliases \in Table(AliasSlots) /\ functions \in Table(FunctionSlots)
Recallable(item) == Asked(item) \in Seq(Operations) /\ Definition(item) \in Seq(Operations)
Recall == \E S : ran \in Seq(S) /\ \A item \in S : Recallable(item)
Inv == Inputs /\ Values /\ Tabled /\ Recall

\* What a step does to the tables is what its item says.
Recorded ==
    \/ UNCHANGED <<aliases, functions, ran>>
    \/ \E item :
           /\ ran' = Append(ran, item)
           /\ Recallable(item)
           /\ aliases' = ApplyAll(aliases, Asked(item))
           /\ functions' = ApplyAll(functions, Definition(item))

Good == GoodOn(Texts, Environments)

LEMMA SlotsType == AliasSlots \in Nat /\ FunctionSlots \in Nat
BY SessionAssumption

LEMMA ApplyNone ==
    ASSUME NEW size \in Nat, NEW t \in Table(size)
    PROVE  ApplyAll(t, <<>>) = t
<1> DEFINE ops == <<>>
<1>1. ops \in Seq(Operations) /\ Len(ops) = 0
    OBVIOUS
<1> HIDE DEF ops
<1>2. PICK f \in [0..Len(ops) -> Table(size)] :
          /\ f[0] = t
          /\ \A i \in 1..Len(ops) : f[i] = Apply(f[i - 1], ops[i])
          /\ ApplyAll(t, ops) = f[Len(ops)]
    BY <1>1, ApplyAllSteps
<1> QED BY <1>1, <1>2 DEF ops

LEMMA ApplySingle ==
    ASSUME NEW size \in Nat, NEW t \in Table(size), NEW op \in Operations
    PROVE  ApplyAll(t, <<op>>) = Apply(t, op)
<1> DEFINE ops == <<op>>
<1>1. ops \in Seq(Operations) /\ Len(ops) = 1 /\ ops[1] = op
    OBVIOUS
<1> HIDE DEF ops
<1>2. PICK f \in [0..1 -> Table(size)] :
          /\ f[0] = t
          /\ \A i \in 1..1 : f[i] = Apply(f[i - 1], ops[i])
          /\ ApplyAll(t, ops) = f[1]
    BY <1>1, ApplyAllSteps
<1>3. f[1] = Apply(f[1 - 1], ops[1]) /\ 1 - 1 = 0
    BY <1>2
<1> QED BY <1>1, <1>2, <1>3 DEF ops

\* Items that define nothing.
LEMMA RecordsNothing ==
    ASSUME Inv, NEW item, Asked(item) = <<>>, Definition(item) = <<>>,
           ran' = Append(ran, item), UNCHANGED <<aliases, functions>>
    PROVE  Recorded
<1>1. Recallable(item)
    BY DEF Recallable
<1>2. aliases' = ApplyAll(aliases, Asked(item)) /\ functions' = ApplyAll(functions, Definition(item))
    BY SlotsType, ApplyNone DEF Inv, Tabled
<1> QED BY <1>1, <1>2 DEF Recorded

LEMMA CommandItem ==
    ASSUME NEW as, NEW pl, NEW status
    PROVE  /\ Definition(Did(as, pl, status)) = <<>>
           /\ Asked(Did(as, pl, status)) =
                  IF as = "builtin" THEN AliasOperations(pl.cmds[1].argv) ELSE <<>>
BY DEF Asked, Definition, Did

LEMMA BlockItem ==
    ASSUME NEW tree
    PROVE  Asked(RanBlock(tree)) = <<>> /\ Definition(RanBlock(tree)) = <<>>
BY DEF Asked, Definition, RanBlock

LEMMA ErrorItem == Asked(Rejected) = <<>> /\ Definition(Rejected) = <<>>
BY DEF Asked, Definition, Rejected

\* The history and the tables stay what they are.
LEMMA RecordedKeeps ==
    ASSUME Inv, Recorded
    PROVE  Tabled' /\ Recall'
<1>1. CASE UNCHANGED <<aliases, functions, ran>>
    BY <1>1 DEF Inv, Tabled, Recall
<1>2. CASE ~(UNCHANGED <<aliases, functions, ran>>)
    <2>1. PICK item :
              /\ ran' = Append(ran, item)
              /\ Recallable(item)
              /\ aliases' = ApplyAll(aliases, Asked(item))
              /\ functions' = ApplyAll(functions, Definition(item))
        BY <1>2 DEF Recorded
    <2>2. Tabled'
        BY <2>1, SlotsType, ApplyAllIsAfterAll DEF Inv, Tabled, Recallable
    <2>3. PICK S : ran \in Seq(S) /\ \A x \in S : Recallable(x)
        BY DEF Inv, Recall
    <2>4. Append(ran, item) \in Seq(S \cup {item})
        BY <2>3
    <2>5. \A x \in S \cup {item} : Recallable(x)
        BY <2>1, <2>3
    <2>6. Recall'
        BY <2>1, <2>4, <2>5 DEF Recall, Recallable, Asked, Definition
    <2> QED BY <2>2, <2>6
<1> QED BY <1>1, <1>2

-----------------------------------------------------------------------------
(* The top of the stack.                                                   *)

LEMMA TopType ==
    ASSUME Inputs, frames # <<>>
    PROVE  /\ Depth \in DOMAIN frames /\ Depth \in Nat \ {0}
           /\ Top = Last(frames) /\ Top \in Frames
BY DEF Inputs, Stacked, Depth, Top, Last

LEMMA NoBlock == ASSUME Inputs, frames # <<>>, Top.is # "file" PROVE block = None
BY DEF Inputs

LEMMA TopChanged ==
    ASSUME Inputs, frames # <<>>, NEW f \in Frames, f.is = Top.is, f.is # "file"
    PROVE  Stacked([frames EXCEPT ![Depth] = f], Len(rest))
<1>1. Depth \in DOMAIN frames /\ Top = frames[Depth]
    BY TopType DEF Top
<1> QED BY <1>1, Changed DEF Inputs

LEMMA MaxIsGreatest ==
    ASSUME NEW n \in Nat, NEW I, I \subseteq 1..n, I # {}
    PROVE  Max(I) \in I
<1> DEFINE J == {(n + 1) - i : i \in I}
           m == (n + 1) - First(J)
<1>1. J \subseteq 1..n /\ J # {}
    OBVIOUS
<1>2. First(J) \in J /\ \A j \in J : First(J) <= j
    <2> HIDE DEF J
    <2> QED BY <1>1, FirstIsLeast
<1>3. PICK k \in I : First(J) = (n + 1) - k
    BY <1>2
<1>4. \A i \in I : First(J) <= (n + 1) - i
    BY <1>2
<1>5. \A i \in I : k >= i
    <2> HIDE DEF J
    <2> QED BY <1>3, <1>4
<1> QED BY <1>5 DEF Max

LEMMA EnvType == ASSUME Inputs, Values PROVE Env \in Environments
<1>1. Args \in Seq(Texts)
    <2>1. CASE Calls = {}
        BY <2>1 DEF Args
    <2>2. CASE Calls # {}
        <3>1. Calls \subseteq 1..Len(frames) /\ Len(frames) \in Nat
            BY DEF Calls, Inputs, Stacked
        <3>2. Max(Calls) \in Calls
            BY <2>2, <3>1, MaxIsGreatest
        <3>3. frames[Max(Calls)] \in Frames /\ frames[Max(Calls)].is = "body"
            BY <3>2 DEF Calls, Inputs, Stacked
        <3>4. frames[Max(Calls)].args \in Seq(Texts)
            BY <3>3, FrameKinds DEF BodyFrames
        <3> QED BY <2>2, <3>4 DEF Args
    <2> QED BY <2>1, <2>2
<1> QED BY <1>1 DEF Env, Environments, Values

-----------------------------------------------------------------------------
(* Lines.                                                                  *)

LEMMA LinesType ==
    ASSUME Good, NEW line \in Texts
    PROVE  Segments(line) \in Seq(SegmentRecord)
BY DEF Good, GoodOn

LEMMA ChainType ==
    ASSUME NEW segments \in Seq(SegmentRecord)
    PROVE  Chain(segments) \in Frames /\ Chain(segments).is = "chain"
BY DEF Chain, Frames, ChainFrames, Statuses

\* A file of rest loses its first line.
LEMMA LineRead ==
    ASSUME NEW r \in Seq(Seq(Texts)), NEW k \in 1..Len(r), r[k] # <<>>
    PROVE  /\ Head(r[k]) \in Texts
           /\ [r EXCEPT ![k] = Tail(@)] \in Seq(Seq(Texts))
           /\ Len([r EXCEPT ![k] = Tail(@)]) = Len(r)
<1>1. r[k] \in Seq(Texts)
    OBVIOUS
<1>2. Head(r[k]) \in Texts /\ Tail(r[k]) \in Seq(Texts)
    BY <1>1
<1> QED BY <1>2

LEMMA ReadLineKeeps ==
    ASSUME Good, Inv, ReadLine
    PROVE  Inputs' /\ Values' /\ Recorded
<1> DEFINE n == Len(rest)
           line == Head(rest[n])
           opener == FirstOf(line)
           collected == [opener |-> IF opener \in Openers THEN opener ELSE "function",
                         text |-> Append(line, "nl"), file |-> n]
<1>1. Inputs /\ Values /\ frames # <<>> /\ Top.is = "file" /\ block = None
    BY DEF ReadLine, Inv, Reading
<1>2. n \in Nat /\ n > 0 /\ rest \in Seq(Seq(Texts)) /\ rest[n] # <<>>
    <2>1. n > 0
        BY <1>1, TopType, Popped DEF Inputs
    <2> QED BY <1>1, <2>1 DEF ReadLine, Innermost, Inputs
<1>3. line \in Texts /\ rest' \in Seq(Seq(Texts)) /\ Len(rest') = n
    <2>1. rest' = [rest EXCEPT ![n] = Tail(@)]
        BY DEF ReadLine, Innermost
    <2> HIDE DEF n
    <2>2. n \in 1..Len(rest)
        BY <1>2 DEF n
    <2> QED BY <1>2, <2>1, <2>2, LineRead DEF n
<1>4. UNCHANGED <<script, current, aliases, functions, var, last_status, ran>>
    BY DEF ReadLine
<1>5. Values' /\ Recorded
    BY <1>1, <1>4 DEF Values, Recorded
<1>6. CASE opener \in Openers \/ OpensFunction(line)
    <2>1. block' = collected /\ frames' = frames
        BY <1>6 DEF ReadLine, Innermost
    <2>2. collected \in BlockRecord /\ collected.file = n
        <3> HIDE DEF line, opener
        <3>1. Append(line, "nl") \in Texts
            BY <1>3, AppendNewline
        <3> QED BY <1>2, <3>1 DEF BlockRecord
    <2> HIDE DEF collected
    <2>3. Inputs'
        BY <1>1, <1>3, <1>4, <2>1, <2>2 DEF Inputs, Top, Depth, n
    <2> QED BY <1>5, <2>3
<1>7. CASE ~(opener \in Openers \/ OpensFunction(line))
    <2>1. block' = None
          /\ frames' = IF Segments(line) = <<>> THEN frames ELSE Append(frames, Chain(Segments(line)))
        BY <1>1, <1>7 DEF ReadLine, Innermost
    <2> HIDE DEF line, opener
    <2>2. Stacked(frames, n) /\ n + 0 = n
        BY <1>1, <1>2 DEF Inputs
    <2> HIDE DEF n
    <2>3. Stacked(frames', n)
        BY <1>3, <2>1, <2>2, LinesType, ChainType, Pushed
    <2>4. Inputs'
        BY <1>1, <1>3, <1>4, <2>1, <2>3 DEF Inputs, n
    <2> QED BY <1>5, <2>4
<1> QED BY <1>6, <1>7

\* The innermost file, while its loop is at the top.
LEMMA FileIsOpen ==
    ASSUME Inputs, frames # <<>>, Top.is = "file"
    PROVE  /\ Len(rest) \in 1..Len(rest) /\ Len(rest) \in Nat \ {0}
           /\ rest \in Seq(Seq(Texts))
           /\ Top.saved = Len(rest) - 1
           /\ Stacked(Front(frames), Len(rest) - 1)
BY TopType, Popped DEF Inputs

LEMMA EndOfFileKeeps ==
    ASSUME Inv, EndOfFile
    PROVE  Inputs' /\ Values' /\ Recorded
<1> DEFINE n == Len(rest)
<1>1. Inputs /\ Values /\ frames # <<>> /\ Top.is = "file" /\ block = None
    BY DEF EndOfFile, Inv, Reading
<1>2. n \in Nat \ {0} /\ rest \in Seq(Seq(Texts)) /\ Top.saved = n - 1
      /\ Stacked(Front(frames), n - 1)
    BY <1>1, FileIsOpen
<1>3. /\ rest' = SubSeq(rest, 1, n - 1) /\ current' = n - 1
      /\ frames' = Return(Front(frames), 0)
      /\ last_status' = IF Depth > 1 THEN 0 ELSE last_status
      /\ UNCHANGED <<script, block, aliases, functions, var, ran>>
    BY <1>2 DEF EndOfFile, Front
<1>4. rest' \in Seq(Seq(Texts)) /\ Len(rest') = n - 1
    <2>1. n - 1 \in 0..Len(rest)
        BY <1>2
    <2> HIDE DEF n
    <2> QED BY <1>2, <1>3, <2>1, Leading
<1>5. Stacked(frames', n - 1)
    <2>1. 0 \in Statuses
        BY DEF Statuses
    <2> HIDE DEF n
    <2> QED BY <1>2, <1>3, <2>1, Returned
<1>6. Values' /\ Recorded
    BY <1>1, <1>3 DEF Values, Recorded, Statuses
<1>7. Inputs'
    BY <1>1, <1>3, <1>4, <1>5 DEF Inputs
<1> QED BY <1>6, <1>7

\* What a step that leaves the files and the stack does to the block.
LEMMA BlockEnds ==
    ASSUME Inputs, block' = None, UNCHANGED <<script, rest, current, frames>>
    PROVE  Inputs'
BY DEF Inputs, Stacked

LEMMA ReadMoreKeeps ==
    ASSUME Inv, ReadMore
    PROVE  Inputs' /\ Values' /\ Recorded
<1> DEFINE n == Len(rest)
           line == Head(rest[n])
           text == Append(block.text \o line, "nl")
<1>1. Inputs /\ Values /\ block \in BlockRecord /\ frames # <<>> /\ Top.is = "file"
      /\ block.file = n /\ current = n
    BY DEF ReadMore, Inv, Inputs
<1>2. n \in 1..Len(rest) /\ rest \in Seq(Seq(Texts)) /\ rest[n] # <<>>
    BY <1>1, FileIsOpen DEF ReadMore
<1>3. /\ block' = [block EXCEPT !.text = text]
      /\ rest' = [rest EXCEPT ![n] = Tail(@)]
      /\ UNCHANGED <<script, frames, current, aliases, functions, var, last_status, ran>>
    BY <1>1 DEF ReadMore
<1>4. line \in Texts /\ rest' \in Seq(Seq(Texts)) /\ Len(rest') = n
    <2> HIDE DEF n
    <2> QED BY <1>2, <1>3, LineRead DEF n
<1>5. text \in Texts
    <2>1. block.text \in Texts
        BY <1>1 DEF BlockRecord
    <2> HIDE DEF line
    <2>2. block.text \o line \in Texts
        BY <1>4, <2>1 DEF Texts
    <2> QED BY <2>2, AppendNewline
<1> HIDE DEF text, line
<1>6. block' \in BlockRecord /\ block'.file = n
    BY <1>1, <1>3, <1>5 DEF BlockRecord
<1>7. Inputs'
    BY <1>1, <1>3, <1>4, <1>6 DEF Inputs, Top, Depth
<1> QED BY <1>1, <1>3, <1>7 DEF Values, Recorded

LEMMA EndInBlockKeeps ==
    ASSUME Inv, EndInBlock
    PROVE  Inputs' /\ Values' /\ Recorded
<1>1. /\ block' = None /\ last_status' = 1 /\ ran' = Append(ran, Rejected)
      /\ UNCHANGED <<script, frames, rest, current, aliases, functions, var>>
    BY DEF EndInBlock
<1>2. Inputs'
    BY <1>1, BlockEnds DEF Inv
<1>3. Values'
    BY <1>1 DEF Inv, Values, Statuses
<1>4. Recorded
    BY <1>1, RecordsNothing, ErrorItem
<1> QED BY <1>2, <1>3, <1>4

LEMMA RunBlockKeeps ==
    ASSUME Inv, RunBlock
    PROVE  Inputs' /\ Values' /\ Recorded
<1> DEFINE tree == TreeIn(block.opener, block.text, 1, BlockEnd, Env)
<1>1. /\ block' = None /\ last_status' \in {0, 1} /\ ran' = Append(ran, RanBlock(tree))
      /\ UNCHANGED <<script, frames, rest, current, aliases, functions, var>>
    BY DEF RunBlock
<1> HIDE DEF tree
<1>2. Inputs'
    BY <1>1, BlockEnds DEF Inv
<1>3. Values'
    BY <1>1 DEF Inv, Values, Statuses
<1>4. Recorded
    BY <1>1, RecordsNothing, BlockItem
<1> QED BY <1>2, <1>3, <1>4

LEMMA DefineFunctionKeeps ==
    ASSUME Good, Inv, DefineFunction
    PROVE  Inputs' /\ Values' /\ Recorded
<1> DEFINE name == NameOf(block.text)
           body == BodyOf(block.text)
           item == DefinedAs(name, body)
<1>1. /\ block' = None /\ last_status' = 0 /\ ran' = Append(ran, item)
      /\ functions' = Store(functions, name, body)
      /\ UNCHANGED <<script, frames, rest, current, aliases, var>>
    BY DEF DefineFunction
<1>2. Inputs'
    BY <1>1, BlockEnds DEF Inv
<1>3. Values'
    BY <1>1 DEF Inv, Values, Statuses
<1>4. name \in Texts /\ body \in Texts
    <2>1. block.text \in Texts
        BY DEF DefineFunction, Inv, Inputs, BlockRecord
    <2> QED BY <2>1 DEF Good, GoodOn
<1>5. Asked(item) = <<>> /\ Definition(item) = <<<<name, body>>>>
    BY DEF Asked, Definition, DefinedAs
<1> HIDE DEF name, body, item
<1>6. <<name, body>> \in Operations /\ Len(<<name, body>>) = 2
    BY <1>4 DEF Operations
<1>7. Definition(item) \in Seq(Operations) /\ Asked(item) \in Seq(Operations)
    BY <1>5, <1>6
<1>8. ApplyAll(functions, Definition(item)) = Store(functions, name, body)
    <2>1. Apply(functions, <<name, body>>) = Store(functions, name, body)
        BY <1>6, ApplyOne
    <2> QED BY <1>5, <1>6, <2>1, SlotsType, ApplySingle DEF Inv, Tabled
<1>9. ApplyAll(aliases, Asked(item)) = aliases
    BY <1>5, SlotsType, ApplyNone DEF Inv, Tabled
<1>10. Recorded
    BY <1>1, <1>7, <1>8, <1>9 DEF Recorded, Recallable
<1> QED BY <1>2, <1>3, <1>10

-----------------------------------------------------------------------------
(* Commands.                                                               *)

\* A segment of the chain at the top is running.
Running == Inv /\ InChain /\ Top.todo # <<>> /\ UNCHANGED <<script, block, functions>>

LEMMA ChainAtTop ==
    ASSUME Running
    PROVE  /\ Inputs /\ frames # <<>> /\ Top \in ChainFrames /\ Top.is = "chain" /\ block = None
           /\ Rest \in Frames /\ Rest.is = "chain"
           /\ \A status \in Statuses :
                  [Rest EXCEPT !.status = status] \in Frames
                  /\ [Rest EXCEPT !.status = status].is = "chain"
           /\ [Top EXCEPT !.todo = <<>>] \in Frames /\ [Top EXCEPT !.todo = <<>>].is = "chain"
<1>1. Inputs /\ frames # <<>> /\ Top.is = "chain" /\ Top.todo # <<>>
    BY DEF Running, Inv, InChain
<1>2. Top \in ChainFrames /\ block = None
    BY <1>1, TopType, FrameKinds, NoBlock
<1>3. Top.todo \in Seq(SegmentRecord) /\ Tail(Top.todo) \in Seq(SegmentRecord)
    BY <1>1, <1>2 DEF ChainFrames
<1>4. Rest = [Top EXCEPT !.todo = Tail(Top.todo)]
    BY DEF Rest
<1>5. Rest \in ChainFrames /\ Rest.is = "chain"
    BY <1>2, <1>3, <1>4 DEF ChainFrames
<1>6. ASSUME NEW status \in Statuses
      PROVE  [Rest EXCEPT !.status = status] \in ChainFrames
             /\ [Rest EXCEPT !.status = status].is = "chain"
    BY <1>5 DEF ChainFrames
<1>7. [Top EXCEPT !.todo = <<>>] \in ChainFrames /\ [Top EXCEPT !.todo = <<>>].is = "chain"
    <2>1. <<>> \in Seq(SegmentRecord)
        OBVIOUS
    <2> QED BY <1>1, <1>2, <2>1 DEF ChainFrames
<1> QED BY <1>1, <1>2, <1>5, <1>6, <1>7 DEF Frames

LEMMA StackKept ==
    ASSUME Running, Stacked(frames', Len(rest)), UNCHANGED <<rest, current>>
    PROVE  Inputs'
BY ChainAtTop DEF Running, Inputs

LEMMA FinishKeeps ==
    ASSUME Running, NEW status \in Statuses, Finish(status), UNCHANGED <<rest, current>>
    PROVE  Inputs' /\ last_status' \in Statuses
<1>1. frames' = [frames EXCEPT ![Depth] = [Rest EXCEPT !.status = status]] /\ last_status' = status
    BY DEF Finish
<1>2. Stacked(frames', Len(rest))
    BY <1>1, ChainAtTop, TopChanged
<1> QED BY <1>1, <1>2, StackKept

LEMMA ProgramKeeps ==
    ASSUME Running, NEW pl, NEW argv, Program(pl, argv)
    PROVE  Inputs' /\ last_status' \in Statuses /\ Recorded
<1> DEFINE status == IF pl.background THEN 0 ELSE ProgramStatus(argv)
           item == Did("program", pl, last_status')
<1>1. Finish(status) /\ ran' = Append(ran, item) /\ UNCHANGED <<rest, current, aliases>>
    BY DEF Program
<1>2. status \in Statuses
    BY CommandStatus DEF Statuses
<1>3. Asked(item) = <<>> /\ Definition(item) = <<>>
    BY CommandItem
<1> HIDE DEF item, status
<1>4. Recorded
    BY <1>1, <1>3, RecordsNothing DEF Running
<1> QED BY <1>1, <1>2, <1>4, FinishKeeps

LEMMA AssignKeeps ==
    ASSUME Running, NEW pl, NEW text, Assign(pl, text)
    PROVE  Inputs' /\ last_status' \in Statuses /\ Recorded
<1> DEFINE status == IF HasSubstitution(text) THEN ExpandedStatus(pl) ELSE 0
           item == Did("assignment", pl, last_status')
<1>1. Finish(status) /\ ran' = Append(ran, item) /\ UNCHANGED <<rest, current, aliases>>
    BY DEF Assign
<1>2. status \in Statuses
    <2>1. last_status \in Statuses /\ 0 \in Statuses
        BY DEF Running, Inv, Values, Statuses
    <2> QED BY <2>1 DEF ExpandedStatus
<1>3. Asked(item) = <<>> /\ Definition(item) = <<>>
    BY CommandItem
<1> HIDE DEF item, status
<1>4. Recorded
    BY <1>1, <1>3, RecordsNothing DEF Running
<1> QED BY <1>1, <1>2, <1>4, FinishKeeps

\* The chain goes on later: another loop is begun above it.
LEMMA BeginKeeps ==
    ASSUME Running, NEW f \in Frames, f.is = "file" => f.saved = Len(rest)
    PROVE  Stacked(Append([frames EXCEPT ![Depth] = Rest], f),
                   Len(rest) + (IF f.is = "file" THEN 1 ELSE 0))
<1>1. Stacked([frames EXCEPT ![Depth] = Rest], Len(rest))
    BY ChainAtTop, TopChanged
<1> QED BY <1>1, Pushed

LEMMA CallKeeps ==
    ASSUME Running, NEW pl, NEW argv \in Seq(Texts), argv # <<>>, Defined(functions, argv[1]),
           Call(pl, argv)
    PROVE  Inputs' /\ last_status' \in Statuses /\ Recorded
<1> DEFINE item == Did("function", pl, Begun)
           f == Body(Get(functions, argv[1]), Tail(argv))
<1>1. ran' = Append(ran, item) /\ UNCHANGED <<rest, current, aliases>>
    BY DEF Call
<1>2. Asked(item) = <<>> /\ Definition(item) = <<>>
    BY CommandItem
<1> HIDE DEF item
<1>3. Recorded
    BY <1>1, <1>2, RecordsNothing DEF Running
<1>4. CASE Cardinality(Calls) >= MaxCallDepth
    <2>1. Finish(1) /\ 1 \in Statuses
        BY <1>4 DEF Call, Statuses
    <2> QED BY <1>1, <1>3, <2>1, FinishKeeps
<1>5. CASE ~(Cardinality(Calls) >= MaxCallDepth)
    <2>1. frames' = Append([frames EXCEPT ![Depth] = Rest], f) /\ last_status' = last_status
        BY <1>5 DEF Call
    <2>2. Get(functions, argv[1]) \in Texts
        <3>1. argv[1] \in DOMAIN MapOf(functions) /\ functions \in Table(FunctionSlots)
            BY Found, SlotsType DEF Defined, Running, Inv, Tabled
        <3>2. MapOf(functions)[argv[1]] = Get(functions, argv[1])
            BY <3>1 DEF MapOf
        <3> QED BY <3>1, <3>2, SlotsType, MapType
    <2>3. f \in BodyFrames /\ f.is = "body"
        <3>1. Tail(argv) \in Seq(Texts)
            OBVIOUS
        <3>2. Len(Get(functions, argv[1])) \in Nat
            BY <2>2 DEF Texts
        <3>3. 1 \in 1..Len(Get(functions, argv[1])) + 1
            BY <3>2
        <3> QED BY <2>2, <3>1, <3>3 DEF BodyFrames, Body, Statuses
    <2> HIDE DEF f
    <2>4. Len(rest) \in Nat /\ Len(rest) + 0 = Len(rest)
        BY DEF Running, Inv, Inputs
    <2>5. Stacked(frames', Len(rest))
        BY <2>1, <2>3, <2>4, BeginKeeps DEF Frames
    <2>6. last_status' \in Statuses
        BY <2>1 DEF Running, Inv, Values
    <2> QED BY <1>1, <1>3, <2>5, <2>6, StackKept
<1> QED BY <1>4, <1>5

LEMMA SourceKeeps ==
    ASSUME Running, NEW pl, NEW argv, pl.cmds[1].argv = argv, Sources(argv), Source(pl, argv)
    PROVE  Inputs' /\ last_status' \in Statuses /\ Recorded
<1> DEFINE n == Len(rest)
           item == Did("builtin", pl, Begun)
           lines == script.files[argv[2]]
<1>1. /\ rest' = Append(rest, lines)
      /\ current' = Len(rest')
      /\ frames' = Append([frames EXCEPT ![Depth] = Rest], File)
      /\ ran' = Append(ran, item)
      /\ UNCHANGED <<aliases, last_status>>
    BY DEF Source
<1>2. Asked(item) = <<>> /\ Definition(item) = <<>>
    <2>1. AliasOperations(argv) = <<>>
        <3>1. argv[1] = <<"source">> /\ <<"source">> # <<"alias">> /\ <<"source">> # <<"unalias">>
            BY DEF Sources
        <3> QED BY <3>1 DEF AliasOperations
    <2> QED BY <2>1, CommandItem
<1> HIDE DEF item
<1>3. Recorded
    BY <1>1, <1>2, RecordsNothing DEF Running
<1>4. lines \in Seq(Texts)
    BY SessionAssumption DEF Sources, Running, Inv, Inputs
<1> HIDE DEF lines
<1>5. n \in Nat /\ current = n /\ rest \in Seq(Seq(Texts))
    BY DEF Running, Inv, Inputs
<1>6. rest' \in Seq(Seq(Texts)) /\ Len(rest') = n + 1
    BY <1>1, <1>4, <1>5
<1>7. File \in Frames /\ File.is = "file" /\ File.saved = n
    BY <1>5 DEF File, Frames, FileFrames
<1>8. Stacked(frames', n + 1)
    <2>1. Stacked(Append([frames EXCEPT ![Depth] = Rest], File),
                  Len(rest) + (IF File.is = "file" THEN 1 ELSE 0))
        BY <1>7, BeginKeeps
    <2> QED BY <1>1, <1>7, <2>1
<1>9. Inputs'
    BY <1>1, <1>6, <1>8, ChainAtTop DEF Running, Inputs
<1> QED BY <1>1, <1>3, <1>9 DEF Running, Inv, Values

LEMMA BuiltinKeeps ==
    ASSUME Running, NEW pl, NEW argv \in Seq(Texts), argv # <<>>, pl.cmds[1].argv = argv,
           Builtin(pl, argv)
    PROVE  Inputs' /\ last_status' \in Statuses /\ Recorded
<1> DEFINE item == Did("builtin", pl, last_status')
<1>1. /\ aliases' = ApplyAll(aliases, AliasOperations(argv))
      /\ Finish(BuiltinStatus(argv))
      /\ ran' = Append(ran, item)
      /\ UNCHANGED <<rest, current>>
    BY DEF Builtin
<1>2. Asked(item) = AliasOperations(argv) /\ Definition(item) = <<>>
    BY CommandItem
<1>3. BuiltinStatus(argv) \in Statuses
    BY CommandStatus
<1> HIDE DEF item
<1>4. Recallable(item)
    BY <1>2, AliasOperationsType DEF Recallable
<1>5. functions' = ApplyAll(functions, Definition(item))
    BY <1>2, SlotsType, ApplyNone DEF Running, Inv, Tabled
<1>6. Recorded
    BY <1>1, <1>2, <1>4, <1>5 DEF Recorded
<1> QED BY <1>1, <1>3, <1>6, FinishKeeps

\* A command of its own, with the words that follow its assignments.
LEMMA SingleKeeps ==
    ASSUME Running, NEW pl \in PipelineRecord, pl.cmds # <<>>, NEW text, NEW words \in Seq(Texts),
           NEW argv \in Seq(Texts), SingleCommand(pl, text, words, argv)
    PROVE  Inputs' /\ last_status' \in Statuses /\ Recorded
<1> DEFINE shifted == [pl EXCEPT !.cmds[1].argv = argv]
           how == IF argv = <<>> THEN "nothing"
                  ELSE Resolve(argv[1], HasRedirection(pl.cmds[1]))
<1>1. shifted.cmds[1].argv = argv
    <2>1. pl.cmds \in Seq(CommandRecord) /\ 1 \in DOMAIN pl.cmds /\ pl.cmds[1] \in CommandRecord
        BY DEF PipelineRecord
    <2>2. shifted = [pl EXCEPT !.cmds = [pl.cmds EXCEPT ![1] = [pl.cmds[1] EXCEPT !.argv = argv]]]
        OBVIOUS
    <2> QED BY <2>1, <2>2 DEF PipelineRecord, CommandRecord
<1>2. how = "function" => argv # <<>> /\ Defined(functions, argv[1])
    BY DEF Resolve
<1>3. how = "builtin" => argv # <<>>
    OBVIOUS
<1>4. \/ Assign(pl, text)
      \/ how = "function" /\ Call(shifted, argv)
      \/ how = "builtin" /\ Sources(argv) /\ Source(shifted, argv)
      \/ how = "builtin" /\ ~Sources(argv) /\ Builtin(shifted, argv)
      \/ Program(shifted, argv)
    BY DEF SingleCommand
<1> HIDE DEF shifted, how
<1>5. CASE Assign(pl, text)
    BY <1>5, AssignKeeps
<1>6. CASE how = "function" /\ Call(shifted, argv)
    BY <1>2, <1>6, CallKeeps
<1>7. CASE how = "builtin" /\ Sources(argv) /\ Source(shifted, argv)
    BY <1>1, <1>7, SourceKeeps
<1>8. CASE how = "builtin" /\ ~Sources(argv) /\ Builtin(shifted, argv)
    BY <1>1, <1>3, <1>8, BuiltinKeeps
<1>9. CASE Program(shifted, argv)
    BY <1>9, ProgramKeeps
<1> QED BY <1>4, <1>5, <1>6, <1>7, <1>8, <1>9

LEMMA ExecuteKeeps ==
    ASSUME Running, NEW pl \in PipelineRecord, pl.cmds # <<>>, NEW text,
           Execute(pl, text, pl.cmds[1].argv)
    PROVE  Inputs' /\ Values' /\ Recorded
<1> DEFINE words == pl.cmds[1].argv
<1>1. words \in Seq(Texts)
    <2>1. pl.cmds[1] \in CommandRecord
        BY DEF PipelineRecord
    <2> QED BY <2>1 DEF CommandRecord
<1>2. var \in Maps
    BY DEF Running, Inv, Values
<1> HIDE DEF words
<1>3. CASE Len(pl.cmds) > 1
    <2>1. Program(pl, Last(pl.cmds).argv) /\ UNCHANGED var
        BY <1>3 DEF Execute
    <2> QED BY <1>2, <2>1, ProgramKeeps DEF Values
<1>4. CASE ~(Len(pl.cmds) > 1)
    <2>1. /\ var' = Assigned(SubSeq(words, 1, CommandAt(words) - 1))
          /\ SingleCommand(pl, text, words, CommandIn(words))
        BY <1>4 DEF Execute, words
    <2>2. var' \in Maps
        BY <1>1, <1>2, <2>1, LeadingAssignments
    <2>3. Inputs' /\ last_status' \in Statuses /\ Recorded
        BY <1>1, <2>1, CommandInType, SingleKeeps
    <2> QED BY <2>2, <2>3 DEF Values
<1> QED BY <1>3, <1>4

LEMMA RunParsedKeeps ==
    ASSUME Running, NEW pl \in PipelineRecord, NEW text, RunParsed(pl, text)
    PROVE  Inputs' /\ Values' /\ Recorded
<1>1. \/ /\ frames' = [frames EXCEPT ![Depth].todo = <<>>]
         /\ ran' = Append(ran, Rejected)
         /\ UNCHANGED <<rest, current, aliases, var, last_status>>
      \/ /\ frames' = [frames EXCEPT ![Depth] = Rest]
         /\ UNCHANGED <<rest, current, aliases, var, last_status, ran>>
      \/ pl.cmds # <<>> /\ Execute(pl, text, pl.cmds[1].argv)
    BY DEF RunParsed
<1>2. CASE /\ frames' = [frames EXCEPT ![Depth].todo = <<>>]
           /\ ran' = Append(ran, Rejected)
           /\ UNCHANGED <<rest, current, aliases, var, last_status>>
    <2>1. frames' = [frames EXCEPT ![Depth] = [Top EXCEPT !.todo = <<>>]]
        BY <1>2 DEF Top
    <2>2. Inputs'
        BY <1>2, <2>1, ChainAtTop, TopChanged, StackKept
    <2>3. Recorded
        BY <1>2, RecordsNothing, ErrorItem DEF Running
    <2> QED BY <1>2, <2>2, <2>3 DEF Running, Inv, Values
<1>3. CASE /\ frames' = [frames EXCEPT ![Depth] = Rest]
           /\ UNCHANGED <<rest, current, aliases, var, last_status, ran>>
    <2>1. Inputs'
        BY <1>3, ChainAtTop, TopChanged, StackKept
    <2> QED BY <1>3, <2>1 DEF Running, Inv, Values, Recorded
<1>4. CASE pl.cmds # <<>> /\ Execute(pl, text, pl.cmds[1].argv)
    BY <1>4, ExecuteKeeps
<1> QED BY <1>1, <1>2, <1>3, <1>4

LEMMA RunSegmentKeeps ==
    ASSUME Good, Inv, RunSegment
    PROVE  Inputs' /\ Values' /\ Recorded
<1>1. Running
    BY DEF RunSegment, Running
<1>2. Top \in ChainFrames
    BY <1>1, ChainAtTop
<1>3. CASE Skipped(Head(Top.todo))
    <2>1. /\ frames' = [frames EXCEPT ![Depth] = Rest]
          /\ UNCHANGED <<rest, current, aliases, var, last_status, ran>>
        BY <1>3 DEF RunSegment
    <2>2. Inputs'
        BY <1>1, <2>1, ChainAtTop, TopChanged, StackKept
    <2> QED BY <1>1, <2>1, <2>2 DEF Running, Inv, Values, Recorded
<1>4. CASE ~Skipped(Head(Top.todo))
    <2> DEFINE text == alias_expand_line(Head(Top.todo).text, MapOf(aliases))
               pl == Pipeline(text, Env)
    <2>1. RunParsed(pl, text)
        BY <1>4 DEF RunSegment, RunText
    <2>2. text \in Texts
        <3>1. Head(Top.todo) \in SegmentRecord
            BY <1>1, <1>2 DEF ChainFrames, Running
        <3>2. Head(Top.todo).text \in Texts
            BY <3>1 DEF SegmentRecord
        <3> QED BY <3>2, SlotsType, AliasExpandType DEF Inv, Tabled
    <2>3. Env \in Environments
        BY EnvType DEF Inv
    <2> HIDE DEF text
    <2>4. pl \in PipelineRecord
        BY <2>2, <2>3 DEF Good, GoodOn
    <2> QED BY <1>1, <2>1, <2>4, RunParsedKeeps
<1> QED BY <1>3, <1>4

-----------------------------------------------------------------------------
(* The loops over chains and bodies.                                       *)

\* A step that only moves the stack.
LEMMA StackMoves ==
    ASSUME Inv, frames # <<>>, Top.is # "file", Stacked(frames', Len(rest)),
           UNCHANGED <<script, rest, current, block>>
    PROVE  Inputs'
BY NoBlock DEF Inv, Inputs

\* A loop that is no file's ends.
LEMMA LoopEnds ==
    ASSUME Inputs, frames # <<>>, Top.is # "file", NEW status \in Statuses
    PROVE  Stacked(Return(Front(frames), status), Len(rest))
<1>1. Last(frames) = Top /\ Stacked(frames, Len(rest))
    BY TopType DEF Inputs
<1>2. Len(rest) \in Nat /\ Len(rest) - 0 = Len(rest)
    BY DEF Inputs
<1>3. Stacked(Front(frames), Len(rest))
    BY <1>1, <1>2, Popped
<1> QED BY <1>3, Returned

LEMMA EndChainKeeps ==
    ASSUME Inv, EndChain
    PROVE  Inputs' /\ Values' /\ Recorded
<1>1. frames # <<>> /\ Top.is # "file"
    BY DEF EndChain, InChain
<1>2. /\ frames' = Return(Front(frames), last_status)
      /\ UNCHANGED <<script, rest, current, block, aliases, functions, var, last_status, ran>>
    BY DEF EndChain
<1>3. last_status \in Statuses
    BY DEF Inv, Values
<1>4. Inputs'
    BY <1>1, <1>2, <1>3, LoopEnds, StackMoves DEF Inv
<1> QED BY <1>2, <1>4 DEF Inv, Values, Recorded

\* The body at the top, and the statement that is next.
LEMMA Within ==
    ASSUME NEW n \in Nat, NEW at \in 1..n + 1, NEW from \in at..n + 1, from <= n
    PROVE  from \in 1..n /\ \A close \in from..n + 1 : close \in 1..n + 1
OBVIOUS

LEMMA BodyAtTop ==
    ASSUME Good, Inputs, InBody, MoreStatements
    PROVE  /\ frames # <<>> /\ Top \in BodyFrames /\ Top.is = "body"
           /\ \A at \in 1..Len(Top.text) + 1 :
                  /\ [Top EXCEPT !.at = at] \in Frames
                  /\ [Top EXCEPT !.at = at].is = "body"
                  /\ \A status \in Statuses :
                         /\ [Top EXCEPT !.at = at, !.status = status] \in Frames
                         /\ [Top EXCEPT !.at = at, !.status = status].is = "body"
           /\ NextStatement.opener = "" => NextStatement.close \in 1..Len(Top.text) + 1
           /\ NextStatement.opener # "" => NextStatement.close \in 0..Len(Top.text)
           /\ NextStatement.from \in 1..Len(Top.text)
           /\ Len(Top.text) \in Nat
<1>1. frames # <<>> /\ Top.is = "body"
    BY DEF InBody
<1>2. Top \in BodyFrames
    BY <1>1, TopType, FrameKinds
<1>3. Top.text \in Texts /\ Top.at \in 1..Len(Top.text) + 1 /\ Len(Top.text) \in Nat
    BY <1>2 DEF BodyFrames, Texts
<1>4. NextStatement.from \in Top.at..Len(Top.text) + 1
      /\ NextStatement.close \in IF NextStatement.opener = ""
                                 THEN NextStatement.from..Len(Top.text) + 1
                                 ELSE 0..Len(Top.text)
    BY <1>3 DEF NextStatement, Good, GoodOn
<1>5. NextStatement.from <= Len(Top.text)
    BY DEF MoreStatements
<1>6. ASSUME NEW at \in 1..Len(Top.text) + 1
      PROVE  /\ [Top EXCEPT !.at = at] \in BodyFrames
             /\ [Top EXCEPT !.at = at].is = "body"
    <2>1. at \in Nat
        BY <1>3
    <2> QED BY <1>1, <1>2, <2>1 DEF BodyFrames
<1>7. ASSUME NEW at \in 1..Len(Top.text) + 1, NEW status \in Statuses
      PROVE  /\ [Top EXCEPT !.at = at, !.status = status] \in BodyFrames
             /\ [Top EXCEPT !.at = at, !.status = status].is = "body"
    <2>1. at \in Nat
        BY <1>3
    <2> QED BY <1>1, <1>2, <2>1 DEF BodyFrames
<1>8. NextStatement.from \in 1..Len(Top.text)
      /\ \A close \in NextStatement.from..Len(Top.text) + 1 : close \in 1..Len(Top.text) + 1
    BY <1>3, <1>4, <1>5, Within
<1>9. NextStatement.opener = "" => NextStatement.close \in 1..Len(Top.text) + 1
    BY <1>4, <1>8
<1> QED BY <1>1, <1>2, <1>3, <1>4, <1>6, <1>7, <1>8, <1>9 DEF Frames

LEMMA RunLineKeeps ==
    ASSUME Good, Inv, RunLine
    PROVE  Inputs' /\ Values' /\ Recorded
<1> DEFINE s == NextStatement
           line == SubSeq(Top.text, s.from, s.close - 1)
           f == [Top EXCEPT !.at = s.close]
           moved == [frames EXCEPT ![Depth].at = s.close]
<1>1. InBody /\ MoreStatements /\ Inputs /\ s.opener = ""
      /\ UNCHANGED <<script, rest, current, block, aliases, functions, var, last_status, ran>>
    BY DEF RunLine, Inv
<1>2. frames' = IF Segments(line) = <<>> THEN moved ELSE Append(moved, Chain(Segments(line)))
    BY DEF RunLine
<1>3. frames # <<>> /\ Top \in BodyFrames /\ Top.is = "body"
      /\ s.from \in 1..Len(Top.text) /\ s.close \in 1..Len(Top.text) + 1 /\ Len(Top.text) \in Nat
      /\ f \in Frames /\ f.is = "body"
    BY <1>1, BodyAtTop
<1>4. line \in Texts
    <2>1. Top.text \in Texts
        BY <1>3 DEF BodyFrames
    <2>2. s.from \in 1..Len(Top.text) + 1 /\ s.close - 1 \in 0..Len(Top.text)
        BY <1>3
    <2> HIDE DEF s
    <2> QED BY <2>1, <2>2, SubText DEF Texts
<1>5. moved = [frames EXCEPT ![Depth] = f]
    BY DEF Top
<1>6. Stacked(moved, Len(rest))
    <2> HIDE DEF f, moved
    <2> QED BY <1>1, <1>3, <1>5, TopChanged
<1>7. Stacked(frames', Len(rest))
    <2> DEFINE c == Chain(Segments(line))
               n == Len(rest)
    <2> HIDE DEF line, moved
    <2>1. n \in Nat
        <3>1. Inputs
            BY <1>1
        <3> QED BY <3>1 DEF Inputs
    <2>2. c \in Frames /\ c.is = "chain"
        BY <1>4, LinesType, ChainType
    <2> HIDE DEF c, n
    <2>3. Stacked(Append(moved, c), n + (IF c.is = "file" THEN 1 ELSE 0))
        BY <1>6, <2>2, Pushed DEF n
    <2>4. Stacked(Append(moved, c), n)
        BY <2>1, <2>2, <2>3
    <2> QED BY <1>2, <1>6, <2>4 DEF c, n
<1>8. Inputs'
    BY <1>1, <1>3, <1>7, StackMoves
<1> QED BY <1>1, <1>8 DEF Inv, Values, Recorded

LEMMA RunNestedKeeps ==
    ASSUME Good, Inv, RunNested
    PROVE  Inputs' /\ Values' /\ Recorded
<1> DEFINE s == NextStatement
           closed == s.close > 0
           after == IF closed THEN s.close + 1 ELSE Len(Top.text) + 1
           item == IF closed THEN RanBlock(TreeIn(s.opener, Top.text, s.from, after, Env))
                   ELSE Rejected
<1>1. InBody /\ MoreStatements /\ Inputs /\ s.opener # ""
      /\ UNCHANGED <<script, rest, current, block, aliases, functions, var>>
    BY DEF RunNested, Inv
<1>2. ran' = Append(ran, item) /\ last_status' \in IF closed THEN {0, 1} ELSE {last_status}
    BY DEF RunNested
<1>3. PICK status \in {0, 1} :
          frames' = [frames EXCEPT ![Depth].at = after, ![Depth].status = status]
    BY DEF RunNested
<1> DEFINE f == [Top EXCEPT !.at = after, !.status = status]
<1>4. frames # <<>> /\ Top.is = "body" /\ Top \in BodyFrames
      /\ s.close \in 0..Len(Top.text) /\ Len(Top.text) \in Nat
    BY <1>1, BodyAtTop
<1>5. after \in 1..Len(Top.text) + 1 /\ status \in Statuses
    <2> HIDE DEF s
    <2> QED BY <1>4 DEF Statuses
<1>6. f \in Frames /\ f.is = "body"
    <2> HIDE DEF after
    <2> QED BY <1>1, <1>5, BodyAtTop
<1>7. frames' = [frames EXCEPT ![Depth] = f]
    <2> HIDE DEF after
    <2>1. Depth \in DOMAIN frames
        BY <1>1, <1>4, TopType
    <2> QED BY <1>3, <2>1 DEF Top
<1> HIDE DEF f
<1>8. Stacked(frames', Len(rest))
    BY <1>1, <1>4, <1>6, <1>7, TopChanged
<1>9. Inputs'
    BY <1>1, <1>4, <1>8, StackMoves
<1>10. Asked(item) = <<>> /\ Definition(item) = <<>>
    BY BlockItem, ErrorItem
<1> HIDE DEF item
<1>11. Recorded
    BY <1>1, <1>2, <1>10, RecordsNothing
<1>12. Values'
    BY <1>1, <1>2 DEF Inv, Values, Statuses
<1> QED BY <1>9, <1>11, <1>12

LEMMA EndBodyKeeps ==
    ASSUME Inv, EndBody
    PROVE  Inputs' /\ Values' /\ Recorded
<1>1. frames # <<>> /\ Top.is = "body" /\ Inputs
    BY DEF EndBody, InBody, Inv
<1>2. /\ frames' = Return(Front(frames), Top.status)
      /\ last_status' = Top.status
      /\ UNCHANGED <<script, rest, current, block, aliases, functions, var, ran>>
    BY DEF EndBody
<1>3. Top.status \in Statuses
    BY <1>1, TopType, FrameKinds DEF BodyFrames
<1>4. Inputs'
    BY <1>1, <1>2, <1>3, LoopEnds, StackMoves
<1> QED BY <1>2, <1>3, <1>4 DEF Inv, Values, Recorded

-----------------------------------------------------------------------------
(* The invariant holds.                                                    *)

LEMMA StepKeeps ==
    ASSUME Good, Inv, [Next]_vars
    PROVE  Inputs' /\ Values' /\ Recorded
<1>1. CASE UNCHANGED vars
    BY <1>1 DEF vars, Inv, Inputs, Stacked, Values, Recorded, Top, Depth
<1>2. CASE ReadLine \/ EndOfFile \/ ReadMore \/ EndInBlock \/ RunBlock \/ DefineFunction
    BY <1>2, ReadLineKeeps, EndOfFileKeeps, ReadMoreKeeps, EndInBlockKeeps, RunBlockKeeps,
       DefineFunctionKeeps
<1>3. CASE RunSegment \/ EndChain \/ RunLine \/ RunNested \/ EndBody
    BY <1>3, RunSegmentKeeps, EndChainKeeps, RunLineKeeps, RunNestedKeeps, EndBodyKeeps
<1>4. CASE Ended
    BY <1>1, <1>4 DEF Ended
<1> QED BY <1>1, <1>2, <1>3, <1>4 DEF Next

LEMMA InvInit == Init => Inv
<1> SUFFICES ASSUME Init PROVE Inv
    OBVIOUS
<1>1. Inputs
    <2> DEFINE f == [is |-> "file", saved |-> 0]
    <2>1. script \in Scripts /\ rest = <<script.lines>> /\ current = 1 /\ block = None
          /\ frames = <<f>>
        BY DEF Init
    <2>2. script.lines \in Seq(Texts)
        BY <2>1, SessionAssumption
    <2>3. rest \in Seq(Seq(Texts)) /\ Len(rest) = 1
        BY <2>1, <2>2
    <2>4. f \in Frames /\ f.is = "file" /\ f.saved = 0
        BY DEF Frames, FileFrames
    <2> HIDE DEF f
    <2>5. FilesUpTo(frames, 0) = {} /\ Len(frames) = 1 /\ frames[1] = f /\ frames \in Seq(Frames)
        BY <2>1, <2>4 DEF FilesUpTo
    <2>6. FilesUpTo(frames, 1) = {1}
        BY <2>4, <2>5 DEF FilesUpTo
    <2>7. Cardinality({}) = 0 /\ Cardinality({1}) = 1
        BY FS_EmptySet, FS_Singleton
    <2>8. \A i \in DOMAIN frames : i = 1 /\ i - 1 = 0
        BY <2>5
    <2>9. Stacked(frames, 1)
        BY <2>4, <2>5, <2>6, <2>7, <2>8 DEF Stacked
    <2> QED BY <2>1, <2>3, <2>9 DEF Inputs
<1>2. Values
    BY SessionAssumption DEF Init, Values, Maps, Statuses
<1>3. Tabled
    <2>1. Defaults \in Seq(Operations)
        BY SessionAssumption, DefaultsType
    <2> QED BY <2>1, SlotsType, EmptyIsTable, ApplyAllIsAfterAll DEF Init, Tabled, FirstAliases
<1>4. Recall
    BY DEF Init, Recall
<1> QED BY <1>1, <1>2, <1>3, <1>4 DEF Inv

LEMMA InvNext ==
    ASSUME Good, Inv, [Next]_vars
    PROVE  Inv'
BY StepKeeps, RecordedKeeps DEF Inv

LEMMA InvHolds == ASSUME Good PROVE Spec => []Inv
<1>1. ASSUME Inv, [Next]_vars PROVE Inv'
    BY <1>1, InvNext
<1> QED BY <1>1, InvInit, PTL DEF Spec

\* What the variables hold, for any scripts and any way of cutting and parsing
\* that gives texts, segments, pipelines and positions in the text.
THEOREM TypeCorrect == ASSUME GoodOn(Texts, Environments) PROVE Spec => []TypeOK
<1>1. Inv => TypeOK
    <2> SUFFICES ASSUME Inv PROVE TypeOK
        OBVIOUS
    <2>1. \A i \in DOMAIN frames : frames[i].is \in {"file", "chain", "body"}
        BY FrameKinds DEF Inv, Inputs, Stacked
    <2>2. current \in 0..Len(rest) /\ Len(rest) \in Nat
        BY DEF Inv, Inputs
    <2>3. block # None => block.opener \in Openers \cup {"function"} /\ block.file \in DOMAIN rest
        <3> SUFFICES ASSUME block # None
                     PROVE  block.opener \in Openers \cup {"function"} /\ block.file \in DOMAIN rest
            OBVIOUS
        <3>1. block \in BlockRecord /\ block.file = Len(rest) /\ rest \in Seq(Seq(Texts))
            BY DEF Inv, Inputs
        <3>2. Len(rest) \in 1..Len(rest)
            BY FileIsOpen DEF Inv, Inputs
        <3> QED BY <3>1, <3>2 DEF BlockRecord
    <2>4. aliases \in Tables(AliasSlots) /\ functions \in Tables(FunctionSlots)
        BY DEF Inv, Tabled, Table
    <2> QED BY <2>1, <2>2, <2>3, <2>4 DEF TypeOK, Inv, Values, Statuses
<1>2. Good
    BY DEF Good
<1> QED BY <1>1, <1>2, InvHolds, PTL

\* A block is collected from the file in which it began, however deep files are
\* sourced inside chains, functions and other files (run_script_file,
\* read_more_line_from_current_source).  The stack has a loop for every file that
\* is open, and each gives back to the file below it; a block is collected only
\* while the loop over the innermost file is at the top.
THEOREM ReadsOwnFileCorrect == ASSUME GoodOn(Texts, Environments) PROVE Spec => []ReadsOwnFile
<1>1. Inv => ReadsOwnFile
    BY DEF Inv, Inputs, ReadsOwnFile
<1>2. Good
    BY DEF Good
<1> QED BY <1>1, <1>2, InvHolds, PTL

-----------------------------------------------------------------------------
(* type tells the truth.                                                   *)

LEMMA OneMore == \A n \in Nat : (n + 1) - 1 = n
OBVIOUS

LEMMA Whole ==
    ASSUME NEW S, NEW t \in Seq(S)
    PROVE  /\ Len(t) \in Nat
           /\ SubSeq(t, 1, Len(t)) = t
           /\ SubSeq(t, Len(t) + 1, Len(t)) = <<>>
           /\ t \o <<>> = t
OBVIOUS

LEMMA ExpandedName ==
    ASSUME NEW size \in Nat, NEW t \in Table(size),
           NEW name \in Texts, name # <<>>, ~Contains(name, " ")
    PROVE  alias_expand_line(name, MapOf(t)) =
               IF Defined(t, name) THEN MapOf(t)[name] ELSE name
<1> DEFINE blank == NextOf(name, 1, Len(name) + 1, {" "})
           after == IF blank = 0 THEN Len(name) + 1 ELSE blank
           first == SubSeq(name, 1, after - 1)
           tail == SubSeq(name, after, Len(name))
<1>1. blank = 0
    BY NextOfNone
<1>2. after = Len(name) + 1 /\ Len(name) \in Nat /\ (Len(name) + 1) - 1 = Len(name)
    <2> HIDE DEF blank, first, tail
    <2>1. Len(name) \in Nat
        BY Whole DEF Texts
    <2>2. after = Len(name) + 1
        BY <1>1
    <2> HIDE DEF after
    <2> QED BY <2>1, <2>2, OneMore, Zenon
<1> HIDE DEF after
<1>3. first = name
    BY <1>2, Whole DEF Texts
<1>4. tail = <<>>
    BY <1>2, Whole DEF Texts
<1>5. alias_expand_line(name, MapOf(t)) =
          IF first # <<>> /\ first \in DOMAIN MapOf(t) THEN MapOf(t)[first] \o tail ELSE name
    BY DEF alias_expand_line, after
<1> HIDE DEF first, tail
<1>6. name \in DOMAIN MapOf(t) <=> Defined(t, name)
    BY Found DEF Defined
<1>7. CASE Defined(t, name)
    <2>1. MapOf(t)[name] \in Texts
        BY <1>6, <1>7, MapType
    <2>2. MapOf(t)[name] \o <<>> = MapOf(t)[name]
        BY <2>1, Whole DEF Texts
    <2> QED BY <1>3, <1>4, <1>5, <1>6, <1>7, <2>2
<1>8. CASE ~Defined(t, name)
    BY <1>3, <1>5, <1>6, <1>8
<1> QED BY <1>7, <1>8

LEMMA TypeIsResolve ==
    ASSUME NEW name
    PROVE  /\ Defined(aliases, name) => TypeOf(name) = "alias"
           /\ ~Defined(aliases, name) => TypeOf(name) = Resolve(name, FALSE) /\ TypeOf(name) # "alias"
<1> DEFINE isAlias == Holders(aliases, name) # {}
           isFunction == Holders(functions, name) # {}
           how == IF isFunction THEN "function"
                  ELSE IF name \in Builtins THEN "builtin"
                  ELSE IF name \in Programs THEN "program" ELSE "nothing"
<1>1. isAlias => TypeOf(name) = "alias"
    BY DEF TypeOf, Defined
<1>2. ~isAlias => TypeOf(name) = how
    BY DEF TypeOf, Defined
<1>3. Resolve(name, FALSE) = how
    BY DEF Resolve, Defined
<1>4. how # "alias"
    OBVIOUS
<1> HIDE DEF how
<1> QED BY <1>1, <1>2, <1>3, <1>4 DEF Defined

\* What type answers for a name is what execute_pipeline runs for it, after the
\* expansion of aliases ("how acsh itself would actually resolve and run it",
\* builtins.c:327-331), in every state of every session.
THEOREM TypeTellsTruthCorrect == ASSUME GoodOn(Texts, Environments) PROVE Spec => []TypeTellsTruth
<1>1. ASSUME Inv PROVE TypeTellsTruth
    <2> SUFFICES ASSUME NEW name \in BareNames(NamesIn(aliases) \cup NamesIn(functions)
                                                   \cup Builtins \cup Programs)
                 PROVE  ToldTruly(name)
        BY DEF TypeTellsTruth
    <2>1. aliases \in Table(AliasSlots) /\ functions \in Table(FunctionSlots)
        BY <1>1 DEF Inv, Tabled
    <2>2. NamesIn(aliases) \subseteq Texts /\ NamesIn(functions) \subseteq Texts
        BY <2>1, SlotsType, MapType DEF MapOf
    <2>3. name \in Texts /\ name # <<>> /\ ~Contains(name, " ")
        BY <2>2, SessionAssumption DEF BareNames
    <2>4. alias_expand_line(name, MapOf(aliases)) =
              IF Defined(aliases, name) THEN MapOf(aliases)[name] ELSE name
        BY <2>1, <2>3, SlotsType, ExpandedName
    <2>5. CASE Defined(aliases, name)
        BY <2>4, <2>5, TypeIsResolve DEF ToldTruly
    <2>6. CASE ~Defined(aliases, name)
        BY <2>4, <2>6, TypeIsResolve DEF ToldTruly
    <2> QED BY <2>5, <2>6
<1>2. Good
    BY DEF Good
<1> QED BY <1>1, <1>2, InvHolds, PTL

-----------------------------------------------------------------------------
(* The tables stand for the maps.                                          *)

LEMMA MapSteps ==
    ASSUME NEW m, NEW ops
    PROVE  /\ AliasMap!AfterAll(m, ops) = AfterAllOn(AliasSlots, m, ops)
           /\ FunctionMap!AfterAll(m, ops) = AfterAllOn(FunctionSlots, m, ops)
BY DEF Cardinality, AliasMap!Cardinality, FunctionMap!Cardinality,
   AliasMap!AfterAll, AliasMap!After, AliasMap!With, AliasMap!Without,
   FunctionMap!AfterAll, FunctionMap!After, FunctionMap!With, FunctionMap!Without,
   AfterAllOn, AfterOn, With, Without, Bound

\* The operations so far.
AskedSoFar == FlattenSeq([i \in DOMAIN ran |-> Asked(ran[i])])
DefinedSoFar == FlattenSeq([i \in DOMAIN ran |-> Definition(ran[i])])

\* One element more.
LEMMA FlattenMore ==
    ASSUME NEW T, NEW n \in Nat, NEW f \in [1..n -> Seq(T)], NEW g \in [1..n + 1 -> Seq(T)],
           \A i \in 1..n : g[i] = f[i]
    PROVE  /\ FlattenSeq(f) \in Seq(T)
           /\ FlattenSeq(g) = FlattenSeq(f) \o g[n + 1]
<1>1. n + 1 \in 1..n + 1 /\ g[n + 1] \in Seq(T)
    OBVIOUS
<1>2. f \in Seq(Seq(T)) /\ Len(f) = n
    OBVIOUS
<1> DEFINE x == g[n + 1]
<1>3. x \in Seq(T)
    BY <1>1
<1> HIDE DEF x
<1>4. g = Append(f, x)
    <2> DEFINE h == Append(f, x)
    <2>1. h \in Seq(Seq(T)) /\ Len(h) = n + 1
        BY <1>2, <1>3
    <2>2. h[n + 1] = x /\ \A i \in 1..n : h[i] = f[i]
        BY <1>2, <1>3
    <2> HIDE DEF h
    <2>3. h \in [1..n + 1 -> Seq(T)]
        BY <2>1
    <2>4. ASSUME NEW i \in 1..n + 1 PROVE g[i] = h[i]
        <3>1. CASE i = n + 1
            BY <2>2, <3>1 DEF x
        <3>2. CASE i # n + 1
            <4>1. i \in 1..n
                BY <3>2
            <4> QED BY <2>2, <4>1
        <3> QED BY <3>1, <3>2
    <2>5. g = h
        BY <2>3, <2>4
    <2> QED BY <2>5 DEF h
<1> QED BY <1>2, <1>3, <1>4, FlattenAppend DEF x

LEMMA SoFarGrows ==
    ASSUME Recall, NEW item, Recallable(item), ran' = Append(ran, item)
    PROVE  /\ AskedSoFar \in Seq(Operations) /\ AskedSoFar' = AskedSoFar \o Asked(item)
           /\ DefinedSoFar \in Seq(Operations) /\ DefinedSoFar' = DefinedSoFar \o Definition(item)
<1>1. PICK S : ran \in Seq(S) /\ \A x \in S : Recallable(x)
    BY DEF Recall
<1> DEFINE n == Len(ran)
<1>2. n \in Nat /\ DOMAIN ran = 1..n /\ DOMAIN ran' = 1..n + 1 /\ ran'[n + 1] = item
      /\ \A i \in 1..n : ran'[i] = ran[i] /\ Recallable(ran[i])
    BY <1>1
<1> HIDE DEF n
<1>3. \A i \in 1..n + 1 : Recallable(ran'[i])
    BY <1>2
<1>4. n + 1 \in 1..n + 1
    BY <1>2
<1>5. /\ AskedSoFar \in Seq(Operations)
      /\ AskedSoFar' = AskedSoFar \o Asked(item)
    <2> DEFINE f == [i \in 1..n |-> Asked(ran[i])]
               g == [i \in 1..n + 1 |-> Asked(ran'[i])]
    <2>1. f \in [1..n -> Seq(Operations)] /\ g \in [1..n + 1 -> Seq(Operations)]
        BY <1>2, <1>3 DEF Recallable
    <2>2. (\A i \in 1..n : g[i] = f[i]) /\ g[n + 1] = Asked(item)
        BY <1>2, <1>4
    <2>3. AskedSoFar = FlattenSeq(f)
        BY <1>2 DEF AskedSoFar
    <2>4. AskedSoFar' = FlattenSeq(g)
        BY <1>2 DEF AskedSoFar, Asked
    <2> HIDE DEF f, g
    <2> QED BY <1>2, <2>1, <2>2, <2>3, <2>4, FlattenMore
<1>6. /\ DefinedSoFar \in Seq(Operations)
      /\ DefinedSoFar' = DefinedSoFar \o Definition(item)
    <2> DEFINE f == [i \in 1..n |-> Definition(ran[i])]
               g == [i \in 1..n + 1 |-> Definition(ran'[i])]
    <2>1. f \in [1..n -> Seq(Operations)] /\ g \in [1..n + 1 -> Seq(Operations)]
        BY <1>2, <1>3 DEF Recallable
    <2>2. (\A i \in 1..n : g[i] = f[i]) /\ g[n + 1] = Definition(item)
        BY <1>2, <1>4
    <2>3. DefinedSoFar = FlattenSeq(f)
        BY <1>2 DEF DefinedSoFar
    <2>4. DefinedSoFar' = FlattenSeq(g)
        BY <1>2 DEF DefinedSoFar, Definition
    <2> HIDE DEF f, g
    <2> QED BY <1>2, <2>1, <2>2, <2>3, <2>4, FlattenMore
<1> QED BY <1>5, <1>6

LEMMA Appended ==
    ASSUME NEW S, NEW s \in Seq(S), NEW x \in Seq(S)
    PROVE  SubSeq(s \o x, Len(s) + 1, Len(s \o x)) = x
<1>1. Len(s) \in Nat /\ Len(x) \in Nat /\ s \o x \in Seq(S) /\ Len(s \o x) = Len(s) + Len(x)
    OBVIOUS
<1>2. \A i \in 1..Len(x) : (s \o x)[Len(s) + i] = x[i]
    OBVIOUS
<1> DEFINE y == SubSeq(s \o x, Len(s) + 1, Len(s \o x))
<1>3. y \in Seq(S) /\ Len(y) = Len(x)
    BY <1>1
<1>4. \A i \in 1..Len(x) : y[i] = x[i]
    BY <1>1, <1>2
<1> HIDE DEF y
<1>5. y = x
    BY <1>1, <1>3, <1>4
<1> QED BY <1>5 DEF y

LEMMA NothingSoFar == ran = <<>> => AskedSoFar = <<>> /\ DefinedSoFar = <<>>
<1> SUFFICES ASSUME ran = <<>> PROVE AskedSoFar = <<>> /\ DefinedSoFar = <<>>
    OBVIOUS
<1>1. DOMAIN ran = {} /\ <<>> = [i \in {} |-> 0]
    OBVIOUS
<1>2. [i \in DOMAIN ran |-> Asked(ran[i])] = <<>> /\ [i \in DOMAIN ran |-> Definition(ran[i])] = <<>>
    BY <1>1
<1>3. FlattenSeq(<<>>) = <<>>
    BY DEF FlattenSeq
<1> QED BY <1>2, <1>3 DEF AskedSoFar, DefinedSoFar

LEMMA MapsStart == Init => AliasMap!Init /\ FunctionMap!Init
<1> SUFFICES ASSUME Init PROVE AliasMap!Init /\ FunctionMap!Init
    OBVIOUS
<1>1. ran = <<>> /\ aliases = ApplyAll(Empty(AliasSlots), Defaults) /\ functions = Empty(FunctionSlots)
    BY DEF Init, FirstAliases
<1>2. \A size \in Nat : MapOf(Empty(size)) = [n \in {} |-> n]
    <2> TAKE size \in Nat
    <2>1. DOMAIN MapOf(Empty(size)) = {}
        BY EmptyIsTable
    <2>2. MapOf(Empty(size)) = [n \in DOMAIN MapOf(Empty(size)) |-> MapOf(Empty(size))[n]]
        BY DEF MapOf
    <2> QED BY <2>1, <2>2
<1>3. Defaults \in Seq(Operations)
    BY SessionAssumption, DefaultsType
<1>4. MapOf(aliases) = AliasMap!AfterAll([n \in {} |-> n], Defaults)
    BY <1>1, <1>2, <1>3, SlotsType, EmptyIsTable, ApplyAllIsAfterAll, MapSteps
<1>5. MapOf(functions) = FunctionMap!AfterAll([n \in {} |-> n], <<>>)
    BY <1>1, <1>2, SlotsType, AfterNone, MapSteps
<1> QED BY <1>1, <1>4, <1>5, NothingSoFar DEF AliasMap!Init, FunctionMap!Init, AskedSoFar, DefinedSoFar

LEMMA MapsStep ==
    ASSUME Inv, Recorded
    PROVE  /\ AliasMap!Next \/ UNCHANGED <<MapOf(aliases), AskedSoFar>>
           /\ FunctionMap!Next \/ UNCHANGED <<MapOf(functions), DefinedSoFar>>
<1>1. CASE UNCHANGED <<aliases, functions, ran>>
    BY <1>1 DEF MapOf, NamesIn, Get, Holders, First, AskedSoFar, DefinedSoFar, Asked, Definition
<1>2. CASE ~(UNCHANGED <<aliases, functions, ran>>)
    <2>1. PICK item :
              /\ ran' = Append(ran, item)
              /\ Recallable(item)
              /\ aliases' = ApplyAll(aliases, Asked(item))
              /\ functions' = ApplyAll(functions, Definition(item))
        BY <1>2 DEF Recorded
    <2>2. /\ AskedSoFar \in Seq(Operations) /\ AskedSoFar' = AskedSoFar \o Asked(item)
          /\ DefinedSoFar \in Seq(Operations) /\ DefinedSoFar' = DefinedSoFar \o Definition(item)
        BY <2>1, SoFarGrows DEF Inv
    <2>3. Asked(item) \in Seq(Operations) /\ Definition(item) \in Seq(Operations)
        BY <2>1 DEF Recallable
    <2>4. SubSeq(AskedSoFar', Len(AskedSoFar) + 1, Len(AskedSoFar')) = Asked(item)
          /\ SubSeq(DefinedSoFar', Len(DefinedSoFar) + 1, Len(DefinedSoFar')) = Definition(item)
        BY <2>2, <2>3, Appended
    <2>5. MapOf(aliases') = AliasMap!AfterAll(MapOf(aliases), Asked(item))
          /\ MapOf(functions') = FunctionMap!AfterAll(MapOf(functions), Definition(item))
        BY <2>1, <2>3, SlotsType, ApplyAllIsAfterAll, MapSteps DEF Inv, Tabled
    <2>6. MapOf(aliases)' = MapOf(aliases') /\ MapOf(functions)' = MapOf(functions')
        BY DEF MapOf, NamesIn, Get, Holders, First
    <2>7. AliasMap!Next
        BY <2>2, <2>4, <2>5, <2>6 DEF AliasMap!Next, AskedSoFar
    <2>8. FunctionMap!Next
        BY <2>2, <2>4, <2>5, <2>6 DEF FunctionMap!Next, DefinedSoFar
    <2> QED BY <2>7, <2>8
<1> QED BY <1>1, <1>2

\* Over whole sessions the tables of aliases and functions, arrays that are
\* searched from the first slot and have holes (alias_set, alias_unset,
\* store_function), are a map of at most as many names as there are slots: every
\* command does to them what it asked for, in its order, a name that has no room
\* changes nothing, and nothing else touches them.
THEOREM NamesRefinedCorrect == ASSUME GoodOn(Texts, Environments) PROVE Spec => NamesRefined
<1>1. ASSUME Inv, [Next]_vars
      PROVE  /\ [AliasMap!Next]_<<MapOf(aliases), AskedSoFar>>
             /\ [FunctionMap!Next]_<<MapOf(functions), DefinedSoFar>>
    <2>1. Recorded
        BY <1>1, StepKeeps DEF Good
    <2> QED BY <1>1, <2>1, MapsStep
<1>2. Spec => []Inv
    BY InvHolds DEF Good
<1> QED BY <1>1, <1>2, MapsStart, PTL DEF Spec, NamesRefined, AliasMap!Spec, FunctionMap!Spec,
    AskedSoFar, DefinedSoFar

-----------------------------------------------------------------------------
(* test has the documented status.  A script that tests goes through five  *)
(* stages: nothing is read; its line is read; its command ran; the chain   *)
(* is over; the file is.                                                   *)

Bottom == [is |-> "file", saved |-> 0]
Untouched ==
    /\ functions = Empty(FunctionSlots) /\ aliases = FirstAliases
    /\ var = Variables /\ last_status = 0 /\ ran = <<>>
RanOnce == Len(ran) = 1 /\ ran[1].status = Meaning(script.test, TestFiles)

Unread == frames = <<Bottom>> /\ rest = <<script.lines>> /\ Untouched
LineIsRead == frames = <<Bottom, Chain(Segments(script.lines[1]))>> /\ rest = <<<<>>>> /\ Untouched
CommandRan ==
    /\ Len(frames) = 2 /\ frames[1] = Bottom
    /\ frames[2].is = "chain" /\ frames[2].todo = <<>>
    /\ rest = <<<<>>>> /\ RanOnce
ChainIsOver == frames = <<Bottom>> /\ rest = <<<<>>>> /\ RanOnce
FileIsOver == frames = <<>> /\ RanOnce

TestStages == Unread \/ LineIsRead \/ CommandRan \/ ChainIsOver \/ FileIsOver
TestInv == script.test # None => block = None /\ TestStages
Testing == Inv /\ block = None /\ TestIsRead(script)

\* Without a block the top of the stack says what may happen.
LEMMA NextByTop ==
    ASSUME Next, block = None
    PROVE  /\ frames = <<>> => UNCHANGED vars
           /\ frames # <<>> /\ Top.is = "file" => ReadLine \/ EndOfFile
           /\ frames # <<>> /\ Top.is = "chain" => RunSegment \/ EndChain
BY DEF Next, ReadLine, EndOfFile, ReadMore, EndInBlock, RunBlock, DefineFunction, RunSegment,
       EndChain, RunLine, RunNested, EndBody, Ended, Reading, InChain, InBody

LEMMA OnTop ==
    /\ frames = <<Bottom>> => frames # <<>> /\ Depth = 1 /\ Top = Bottom /\ Top.is = "file"
    /\ \A f : frames = <<Bottom, f>> => frames # <<>> /\ Depth = 2 /\ Top = f
BY DEF Top, Depth, Bottom

LEMMA OnlyOne ==
    ASSUME NEW S, NEW s \in Seq(S), Len(s) = 1
    PROVE  s # <<>> /\ Head(s) = s[1] /\ Tail(s) = <<>>
<1>1. s # <<>>
    OBVIOUS
<1>2. Tail(s) \in Seq(S) /\ Len(Tail(s)) = 0
    BY <1>1
<1>3. \A u \in Seq(S) : Len(u) = 0 => u = <<>>
    OBVIOUS
<1>4. Head(s) = s[1]
    BY <1>1
<1> QED BY <1>1, <1>2, <1>3, <1>4, Zenon

LEMMA OnlyTwo ==
    ASSUME NEW f, NEW g
    PROVE  Append(<<f>>, g) = <<f, g>>
<1> DEFINE S == {f, g}
           t == Append(<<f>>, g)
<1>1. <<f>> \in Seq(S) /\ Len(<<f>>) = 1 /\ <<f>>[1] = f
    OBVIOUS
<1>2. t \in Seq(S) /\ Len(t) = 2 /\ t[1] = f /\ t[2] = g
    BY <1>1
<1>3. <<f, g>> \in Seq(S) /\ Len(<<f, g>>) = 2 /\ <<f, g>>[1] = f /\ <<f, g>>[2] = g
    OBVIOUS
<1> HIDE DEF t, S
<1>4. \A u, w \in Seq(S) : Len(u) = 2 /\ Len(w) = 2 /\ u[1] = w[1] /\ u[2] = w[2] => u = w
    OBVIOUS
<1>5. t = <<f, g>>
    BY <1>2, <1>3, <1>4
<1> QED BY <1>5 DEF t

LEMMA AfterUnread ==
    ASSUME Testing, Unread, Next
    PROVE  block' = None /\ LineIsRead'
<1> DEFINE line == script.lines[1]
<1>1. frames = <<Bottom>> /\ rest = <<script.lines>> /\ Len(script.lines) = 1
      /\ FirstOf(line) \notin Openers /\ ~OpensFunction(line) /\ Len(Segments(line)) = 1
    BY DEF Testing, Unread, TestIsRead
<1>2. script.lines \in Seq(Texts)
    BY SessionAssumption DEF Testing, Inv, Inputs
<1>3. Innermost = 1 /\ rest[1] = script.lines /\ rest[Innermost] # <<>>
      /\ Head(rest[Innermost]) = line /\ Tail(rest[1]) = <<>>
    <2>1. Innermost = 1 /\ rest[1] = script.lines
        BY <1>1 DEF Innermost
    <2>2. script.lines # <<>> /\ Head(script.lines) = line /\ Tail(script.lines) = <<>>
        BY <1>1, <1>2, OnlyOne
    <2> HIDE DEF line
    <2> QED BY <2>1, <2>2
<1>4. ReadLine
    <2>1. frames # <<>> /\ Top.is = "file"
        BY <1>1, OnTop
    <2>2. ReadLine \/ EndOfFile
        BY <2>1, NextByTop DEF Testing
    <2>3. EndOfFile => rest[Innermost] = <<>>
        BY DEF EndOfFile
    <2> QED BY <1>3, <2>2, <2>3
<1>5. Segments(line) # <<>>
    BY <1>1
<1>6. /\ rest' = [rest EXCEPT ![1] = Tail(@)]
      /\ frames' = Append(frames, Chain(Segments(line)))
      /\ UNCHANGED <<block, script, current, aliases, functions, var, last_status, ran>>
    <2> HIDE DEF line
    <2>1. Innermost = 1 /\ Head(rest[1]) = line
        BY <1>3
    <2>2. ~(FirstOf(line) \in Openers \/ OpensFunction(line))
        BY <1>1
    <2>3. /\ rest' = [rest EXCEPT ![Innermost] = Tail(@)]
          /\ frames' = IF Segments(line) = <<>> THEN frames ELSE Append(frames, Chain(Segments(line)))
          /\ UNCHANGED <<block, script, current, aliases, functions, var, last_status, ran>>
        BY <1>4, <2>1, <2>2, Zenon DEF ReadLine
    <2> QED BY <1>5, <2>1, <2>3
<1>7. rest' = <<<<>>>>
    <2>1. rest' = [rest EXCEPT ![1] = <<>>]
        BY <1>3, <1>6
    <2>2. rest \in Seq(Seq(Texts)) /\ Len(rest) = 1
        BY <1>1, <1>2
    <2>3. rest' \in Seq(Seq(Texts)) /\ Len(rest') = 1 /\ rest'[1] = <<>>
        BY <2>1, <2>2
    <2> QED BY <2>3
<1>8. frames' = <<Bottom, Chain(Segments(line))>>
    <2> HIDE DEF line
    <2>1. Append(<<Bottom>>, Chain(Segments(line))) = <<Bottom, Chain(Segments(line))>>
        BY OnlyTwo
    <2> QED BY <1>1, <1>6, <2>1, Zenon
<1> QED BY <1>6, <1>7, <1>8 DEF LineIsRead, Unread, Untouched, Testing

\* Nothing is expanded or assigned in front of test, and no function is defined.
LEMMA TestIsBuiltin ==
    ASSUME NEW name \in TestNames \cap Builtins, NEW words \in Seq(Texts),
           words # <<>>, words[1] = name, functions = Empty(FunctionSlots), NEW redirected
    PROVE  /\ CommandIn(words) = words /\ ~Sources(words)
           /\ Resolve(name, redirected) = "builtin"
           /\ BuiltinStatus(words) = builtin_test(words, TestFiles)
<1>1. ~IsAssignment(name)
    <2>1. Len(<<"test">>) = 1 /\ Len(<<"[">>) = 1 /\ <<"[", "[">>[2] # "="
        OBVIOUS
    <2> QED BY <2>1 DEF TestNames, IsAssignment
<1>2. CommandAt(words) = 1
    <2>1. CommandAt(words) \in 1..Len(words) + 1 /\ Len(words) \in Nat
          /\ \A i \in 1..CommandAt(words) - 1 : IsAssignment(words[i])
        BY CommandAtType
    <2>2. 1 \notin 1..CommandAt(words) - 1
        BY <1>1, <2>1
    <2> QED BY <2>1, <2>2
<1>3. CommandIn(words) = words
    BY <1>2, Whole DEF CommandIn
<1>4. <<"test">> # <<"source">> /\ <<"[">> # <<"source">> /\ <<"[", "[">> # <<"source">>
      /\ name[1] \in {"test", "["}
    BY DEF TestNames
<1>5. ~Sources(words)
    BY <1>4 DEF Sources, TestNames
<1>6. ~Defined(functions, name)
    BY DEF Defined, Holders, Empty
<1>7. Resolve(name, redirected) = "builtin"
    BY <1>6 DEF Resolve
<1>8. BuiltinStatus(words) = builtin_test(words, TestFiles)
    BY <1>4 DEF BuiltinStatus
<1> QED BY <1>3, <1>5, <1>7, <1>8

LEMMA TestCommandBegins ==
    ASSUME NEW e, IsExpression(e), NEW name \in TestNames
    PROVE  TestCommand(name, e)[1] = name /\ Len(TestCommand(name, e)) > 0
<1> DEFINE words == WordsOf(e)
<1>1. words \in Seq(CommandWords)
    BY TermRead, BothRead DEF IsExpression
<1> HIDE DEF words
<1>2. TestCommand(name, e) = CommandOf(name, words)
    BY DEF TestCommand, CommandOf, words
<1>3. /\ Len(CommandOf(name, words)) = Len(words) + 1 + Len(EndingBracket(name)) /\ Len(words) \in Nat
      /\ CommandOf(name, words)[1] = name
      /\ Len(EndingBracket(name)) \in {0, 1}
    BY <1>1, CommandStands
<1> QED BY <1>2, <1>3

LEMMA AfterLineIsRead ==
    ASSUME Good, Testing, LineIsRead, Next
    PROVE  block' = None /\ CommandRan'
<1> DEFINE segments == Segments(script.lines[1])
           text == alias_expand_line(segments[1].text, MapOf(FirstAliases))
           pl == Pipeline(text, AtStart)
           words == pl.cmds[1].argv
           expected == Meaning(script.test, TestFiles)
<1>1. Len(segments) = 1 /\ Len(pl.cmds) = 1
    BY DEF Testing, TestIsRead
<1>21. segments[1].after = ";" /\ ~pl.bad
    BY DEF Testing, TestIsRead
<1>22. IsExpression(script.test)
    BY DEF Testing, TestIsRead
<1>20. PICK name \in TestNames \cap Builtins : words = TestCommand(name, script.test)
    BY DEF Testing, TestIsRead
<1>2. /\ frames = <<Bottom, Chain(segments)>> /\ rest = <<<<>>>>
      /\ functions = Empty(FunctionSlots) /\ aliases = FirstAliases
      /\ var = Variables /\ last_status = 0 /\ ran = <<>> /\ block = None
    BY DEF LineIsRead, Untouched, Testing
<1> HIDE DEF segments, text, pl, words, expected
<1>3. /\ frames # <<>> /\ Depth = 2 /\ Top = Chain(segments)
      /\ Top.is = "chain" /\ Top.todo = segments /\ Top.status = 0 /\ InChain
    BY <1>2, OnTop DEF Chain, InChain
<1>4. Running /\ RunSegment
    <2>1. RunSegment \/ EndChain
        BY <1>2, <1>3, NextByTop
    <2>2. EndChain => Top.todo = <<>>
        BY DEF EndChain
    <2>3. segments # <<>>
        BY <1>1
    <2>4. RunSegment
        BY <1>3, <2>1, <2>2, <2>3
    <2> QED BY <2>4 DEF RunSegment, Running, Testing
<1>5. segments \in Seq(SegmentRecord)
    BY <1>3, <1>4, ChainAtTop DEF ChainFrames
<1>6. Head(Top.todo) = segments[1] /\ Tail(Top.todo) = <<>>
    BY <1>1, <1>3, <1>5, OnlyOne
<1>7. ~Skipped(Head(Top.todo))
    BY <1>3, <1>6, <1>21 DEF Skipped
<1>8. Env = AtStart
    <2>1. Calls = {}
        BY <1>2 DEF Calls, Bottom, Chain
    <2> QED BY <1>2, <2>1 DEF Env, Args, AtStart
<1>9. RunParsed(pl, text)
    <2>1. RunText(alias_expand_line(Head(Top.todo).text, MapOf(aliases)))
        BY <1>4, <1>7 DEF RunSegment
    <2> QED BY <1>2, <1>6, <1>8, <2>1 DEF RunText, pl, text
<1>10. Execute(pl, text, words)
    <2>1. pl.cmds # <<>>
        BY <1>1
    <2> QED BY <1>9, <1>21, <2>1 DEF RunParsed, words
<1>11. pl \in PipelineRecord /\ words \in Seq(Texts)
    <2>1. Env \in Environments
        BY EnvType DEF Testing, Inv
    <2>2. segments[1].text \in Texts
        <3>1. segments[1] \in SegmentRecord
            BY <1>1, <1>5
        <3> QED BY <3>1 DEF SegmentRecord
    <2>3. text \in Texts
        BY <1>2, <2>2, SlotsType, AliasExpandType DEF text, Testing, Inv, Tabled
    <2>4. pl \in PipelineRecord
        BY <1>8, <2>1, <2>3 DEF Good, GoodOn, pl
    <2>5. pl.cmds[1] \in CommandRecord
        <3>1. pl.cmds \in Seq(CommandRecord) /\ Len(pl.cmds) = 1
            BY <1>1, <2>4 DEF PipelineRecord
        <3> QED BY <3>1
    <2> QED BY <2>4, <2>5 DEF CommandRecord, words
<1>13. words # <<>> /\ words[1] = name
    <2>1. words[1] = name /\ Len(words) > 0
        BY <1>20, <1>22, TestCommandBegins
    <2> QED BY <1>11, <2>1
<1>14. /\ CommandIn(words) = words /\ ~Sources(words)
       /\ Resolve(words[1], HasRedirection(pl.cmds[1])) = "builtin"
       /\ BuiltinStatus(words) = expected
    <2>1. /\ CommandIn(words) = words /\ ~Sources(words)
          /\ Resolve(name, HasRedirection(pl.cmds[1])) = "builtin"
          /\ BuiltinStatus(words) = builtin_test(words, TestFiles)
        BY <1>2, <1>11, <1>13, TestIsBuiltin
    <2>2. builtin_test(words, TestFiles) = expected
        BY <1>20, <1>22, TestCorrect DEF expected
    <2> QED BY <1>13, <2>1, <2>2
<1>15. PICK shifted : Builtin(shifted, words)
    <2>1. SingleCommand(pl, text, words, words)
        <3>1. ~(Len(pl.cmds) > 1)
            BY <1>1
        <3> QED BY <1>10, <1>14, <3>1 DEF Execute
    <2> QED BY <1>13, <1>14, <2>1 DEF SingleCommand
<1>16. /\ frames' = [frames EXCEPT ![2] = [Rest EXCEPT !.status = expected]]
       /\ last_status' = expected
       /\ ran' = Append(ran, Did("builtin", shifted, expected))
       /\ UNCHANGED <<rest, current>>
    BY <1>3, <1>14, <1>15 DEF Builtin, Finish
<1>17. Len(frames') = 2 /\ frames'[1] = Bottom /\ frames'[2].is = "chain" /\ frames'[2].todo = <<>>
    <2>1. Rest = [Top EXCEPT !.todo = <<>>]
        BY <1>6 DEF Rest
    <2>2. [Rest EXCEPT !.status = expected] = [is |-> "chain", todo |-> <<>>, status |-> expected]
        <3>1. Top = [is |-> "chain", todo |-> segments, status |-> 0]
            BY <1>3 DEF Chain
        <3>2. Rest = [is |-> "chain", todo |-> <<>>, status |-> 0]
            BY <2>1, <3>1
        <3> QED BY <3>2
    <2>3. frames \in Seq(Frames) /\ Len(frames) = 2 /\ frames[1] = Bottom
        BY <1>2 DEF Testing, Inv, Inputs, Stacked
    <2> QED BY <1>16, <2>2, <2>3
<1>18. Len(ran') = 1 /\ ran'[1].status = expected
    BY <1>2, <1>16 DEF Did
<1>19. script' = script /\ block' = None
    BY <1>2, <1>4 DEF Running
<1> QED BY <1>2, <1>16, <1>17, <1>18, <1>19 DEF CommandRan, RanOnce, expected

LEMMA AfterCommandRan ==
    ASSUME Testing, CommandRan, Next
    PROVE  block' = None /\ ChainIsOver'
<1>1. frames \in Seq(Frames) /\ Len(frames) = 2
    BY DEF Testing, Inv, Inputs, Stacked, CommandRan
<1>2. frames # <<>> /\ Top = frames[2] /\ Front(frames) = <<Bottom>>
    <2>1. Depth = 2 /\ frames # <<>>
        BY <1>1 DEF Depth
    <2>2. frames[1] = Bottom
        BY DEF CommandRan
    <2>3. SubSeq(frames, 1, 1) = <<frames[1]>>
        <3> DEFINE t == SubSeq(frames, 1, 1)
        <3>1. t \in Seq(Frames) /\ Len(t) = 1 /\ t[1] = frames[1] /\ frames[1] \in Frames
            BY <1>1
        <3> HIDE DEF t
        <3>2. t = <<frames[1]>>
            BY <3>1
        <3> QED BY <3>2 DEF t
    <2>4. Front(frames) = SubSeq(frames, 1, 1)
        BY <1>1 DEF Front
    <2> QED BY <2>1, <2>2, <2>3, <2>4 DEF Top
<1>3. EndChain
    <2>1. RunSegment \/ EndChain
        BY <1>2, NextByTop DEF Testing, CommandRan
    <2>2. RunSegment => Top.todo # <<>>
        BY DEF RunSegment
    <2> QED BY <1>2, <2>1, <2>2 DEF CommandRan
<1>4. Return(<<Bottom>>, last_status) = <<Bottom>>
    BY DEF Return, Bottom, Last
<1>5. frames' = <<Bottom>> /\ UNCHANGED <<script, rest, block, ran>>
    BY <1>2, <1>3, <1>4 DEF EndChain
<1> QED BY <1>5 DEF ChainIsOver, CommandRan, RanOnce, Testing

LEMMA AfterChainIsOver ==
    ASSUME Testing, ChainIsOver, Next
    PROVE  block' = None /\ FileIsOver'
<1>1. rest[Innermost] = <<>>
    BY DEF ChainIsOver, Innermost
<1>2. EndOfFile
    <2>1. ReadLine \/ EndOfFile
        BY OnTop, NextByTop DEF Testing, ChainIsOver
    <2>2. ReadLine => rest[Innermost] # <<>>
        BY DEF ReadLine
    <2> QED BY <1>1, <2>1, <2>2
<1>3. Front(frames) = <<>>
    <2>1. SubSeq(<<Bottom>>, 1, 0) = <<>>
        OBVIOUS
    <2> QED BY <2>1 DEF Front, ChainIsOver
<1>4. frames' = <<>> /\ UNCHANGED <<script, block, ran>>
    BY <1>2, <1>3 DEF EndOfFile, Return
<1> QED BY <1>4 DEF FileIsOver, ChainIsOver, RanOnce, Testing

LEMMA TestInvNext ==
    ASSUME Good, TestsAreRead, Inv, TestInv, [Next]_vars
    PROVE  TestInv'
<1>1. CASE UNCHANGED vars
    BY <1>1 DEF vars, TestInv, TestStages, Unread, LineIsRead, CommandRan, ChainIsOver, FileIsOver,
                Untouched, RanOnce
<1>2. CASE Next
    <2>1. script' = script
        BY <1>2 DEF Next, ReadLine, EndOfFile, ReadMore, EndInBlock, RunBlock, DefineFunction,
                    RunSegment, EndChain, RunLine, RunNested, EndBody, Ended, vars
    <2> SUFFICES ASSUME script.test # None PROVE block' = None /\ TestStages'
        BY <2>1 DEF TestInv
    <2>2. Testing
        BY DEF Testing, TestInv, TestsAreRead, Inv, Inputs
    <2>3. CASE Unread
        BY <1>2, <2>2, <2>3, AfterUnread DEF TestStages
    <2>4. CASE LineIsRead
        BY <1>2, <2>2, <2>4, AfterLineIsRead DEF TestStages
    <2>5. CASE CommandRan
        BY <1>2, <2>2, <2>5, AfterCommandRan DEF TestStages
    <2>6. CASE ChainIsOver
        BY <1>2, <2>2, <2>6, AfterChainIsOver DEF TestStages
    <2>7. CASE FileIsOver
        <3>1. UNCHANGED vars
            BY <1>2, <2>2, <2>7, NextByTop DEF FileIsOver, Testing
        <3> QED BY <2>2, <2>7, <3>1 DEF vars, TestStages, FileIsOver, RanOnce, Testing
    <2> QED BY <2>3, <2>4, <2>5, <2>6, <2>7 DEF TestInv, TestStages
<1> QED BY <1>1, <1>2

\* A script whose only command is test or [, with any expression, ends it with the
\* status that the comment of the program promises (builtin_test), and what runs
\* in between, the expansion of aliases, the search for a function and the
\* assignments in front, does not keep it from being the builtin that runs
\* (execute_chain, execute_pipeline).
THEOREM TestAsDocumentedCorrect ==
    ASSUME GoodOn(Texts, Environments), TestsAreRead
    PROVE  Spec => []TestAsDocumented
<1>1. Init => TestInv
    BY DEF Init, TestInv, TestStages, Unread, Bottom, Untouched
<1>2. Good
    BY DEF Good
<1>3. Inv /\ TestInv /\ [Next]_vars => TestInv'
    BY <1>2, TestInvNext
<1>4. TestInv => TestAsDocumented
    <2> SUFFICES ASSUME TestInv, script.test # None, ran # <<>>
                 PROVE  Last(ran).status = Meaning(script.test, TestFiles)
        BY DEF TestAsDocumented
    <2>1. RanOnce
        BY DEF TestInv, TestStages, Unread, LineIsRead, CommandRan, ChainIsOver, FileIsOver, Untouched
    <2> QED BY <2>1 DEF RanOnce, Last
<1> QED BY <1>1, <1>2, <1>3, <1>4, InvHolds, PTL DEF Spec
=============================================================================
