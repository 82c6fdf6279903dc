---------------------------- MODULE Collections ----------------------------
(* What arrays, tables, vectors, dynamic strings, memory files and weak      *)
(* references promise a program.  An array is a sequence, a table a function *)
(* from keys to values; vectors and dynamic strings are sequences of         *)
(* numbers, and a memory file has a position in one.  An object exists as    *)
(* long as another one or a static variable owns it, and a weak reference to *)
(* it is nil from the moment it does not.                                    *)
EXTENDS Integers, Sequences, SequencesExt, FiniteSets, FiniteSetsExt, Functions

CONSTANTS
    Arrays, Tables, Vectors, Dstrings, Files, Statics, Keys,
    Ranges      \* the numbers that a vector may contain

Objects == Arrays \union Tables \union Vectors \union Dstrings \union Files

Nil == [kind |-> "nil"]
Strong(o) == [kind |-> "strong", o |-> o]
Weak(o) == [kind |-> "weak", o |-> o]

\* Reading a value makes a strong reference of a weak one.
Read(v) == IF v = Nil THEN Nil ELSE Strong(v.o)

\* The array without items, and the table without keys.
Empty == << >>

\* Nothing exists.  A program sees the objects that exist, its static variables
\* and what they contain: arrays, tables and files (their strings) values,
\* vectors and strings numbers.
Nothing ==
    [live |-> {}, static |-> [s \in Statics |-> Nil], contents |-> [o \in Objects |-> Empty],
     numbers |-> [o \in Vectors \union Dstrings |-> << >>], position |-> [f \in Files |-> 0]]

-----------------------------------------------------------------------------
\* Changes of what the program sees; Settled is what they lead to.

Set(p, s, v) == [p EXCEPT !.static[s] = v]
Becomes(p, o, contents) == [p EXCEPT !.contents[o] = contents]
Created(p, s, o, contents) ==
    Set([Becomes(p, o, contents) EXCEPT !.live = @ \union {o}], s, Strong(o))

\* An item beyond the end of an array leaves the items between them nil.
ItemSet(items, i, v) ==
    [j \in 1..(IF i > Len(items) THEN i ELSE Len(items)) |->
        IF j = i THEN v ELSE IF j <= Len(items) THEN items[j] ELSE Nil]

ItemsRemoved(items, i, j) == SubSeq(items, 1, i - 1) \o SubSeq(items, j + 1, Len(items))

KeySet(table, key, v) == [k \in DOMAIN table \union {key} |-> IF k = key THEN v ELSE table[k]]
KeyRemoved(table, key) == [k \in DOMAIN table \ {key} |-> table[k]]

\* A table and what another one has at its keys, which comes first.
TablesAdded(table, other) ==
    [k \in DOMAIN table \union DOMAIN other |->
        IF k \in DOMAIN other THEN Read(other[k]) ELSE table[k]]

\* Numbers of vectors wrap around.
Wrapped(v, n) == CHOOSE k \in Ranges[v] : (k - n) % Cardinality(Ranges[v]) = 0

NumbersBecome(p, o, numbers) == [p EXCEPT !.numbers[o] = numbers]
At(p, f, position) == [p EXCEPT !.position[f] = position]

\* Numbers that are skipped are 0.
NumbersSet(numbers, i, new) ==
    [j \in 1..Max({Len(numbers), i + Len(new) - 1}) |->
        IF j >= i /\ j < i + Len(new) THEN new[j - i + 1]
        ELSE IF j <= Len(numbers) THEN numbers[j] ELSE 0]

NumbersInserted(numbers, i, new) ==
    SubSeq(numbers, 1, i - 1) \o new \o SubSeq(numbers, i, Len(numbers))

\* A vector that others are too short for is combined with 0 there.
Combined(op, v, numbers, others) ==
    [i \in DOMAIN numbers |-> Wrapped(v,
        LET x == numbers[i]
            y == IF i <= Len(others) THEN others[i] ELSE 0
        IN  CASE op = "add" -> x + y [] op = "sub" -> x - y [] op = "mul" -> x * y)]

\* Objects go that no static variable and no other object owns, then those that
\* only they owned, and so on.
Owned(p, set) ==
    {o \in set : Strong(o) \in Range(p.static)
                 \/ \E q \in set : Strong(o) \in Range(p.contents[q])}

Settled(p) ==
    LET kept[set \in SUBSET Objects] ==
            IF Owned(p, set) = set THEN set ELSE kept[Owned(p, set)]
        live == kept[p.live]
        Now(v) == IF v.kind = "weak" /\ v.o \notin live THEN Nil ELSE v
    IN  [live |-> live,
         static |-> [s \in Statics |-> Now(p.static[s])],
         contents |-> [o \in Objects |->
            IF o \in live THEN [i \in DOMAIN p.contents[o] |-> Now(p.contents[o][i])]
                          ELSE Empty],
         numbers |-> [o \in DOMAIN p.numbers |-> IF o \in live THEN p.numbers[o] ELSE << >>],
         position |-> [f \in Files |-> IF f \in live THEN p.position[f] ELSE 0]]
=============================================================================
