----------------------------- MODULE Containers -----------------------------
(* Arrays (e_array.c), tables (e_table.c), vectors (e_vector.c), dynamic     *)
(* strings (e_dstring.c), memory files (eel_io.c), and the weak references   *)
(* to them in arrays, in tables and in static variables (e_object.h).  An    *)
(* object has a vector of the places of all weak references to it, and each  *)
(* of them knows its index in that vector; items move within a block, and    *)
(* blocks move in memory.  Next to what the code does (heap) the module      *)
(* keeps what it promises (promised, see Collections).                       *)
EXTENDS Buffers, FiniteSets, Functions

CONSTANTS
    Arrays, Tables,     \* bound: objects.  An empty array serves as a plain object
    Dstrings, Files,    \* bound: dynamic strings and memory files
    Together,           \* bound: the sets of objects that exist at a time
    Statics,            \* bound: static variables, all that a program starts from
    Keys,               \* strings to be used as keys of tables
    HashOf,             \* their hash codes, which may be equal
    ArrayBase, TableBase, RefsBase,     \* EEL_ARRAY_SIZEBASE and so on
    LinearLimit,        \* size from which tables are searched with t__binary_find
    MaxLive,            \* bound: objects at a time
    MaxItems,           \* bound: items in all arrays and tables
    MaxIndex,           \* bound: length of arrays
    MaxLength,          \* bound: length of vectors and dynamic strings
    Numbers,            \* numbers and bytes that the program uses
    NumberBytes,        \* what a number is in a memory file
    Risky               \* "addGone": adding tables whose values are gone by then

Ranges == [v \in Vectors |-> IF v \in Signed THEN -(2^(Bits[v] - 1))..2^(Bits[v] - 1) - 1
                                            ELSE 0..2^Bits[v] - 1]

P == INSTANCE Collections

Objects == P!Objects

ASSUME ContainersAssumption ==
    /\ LET classes == <<Arrays, Tables, Vectors, Dstrings, Files>>
       IN  \A i, j \in 1..5 : i # j => classes[i] \cap classes[j] = {}
    /\ Together \subseteq SUBSET Objects
    /\ IsFiniteSet(Objects) /\ IsFiniteSet(Statics)
    /\ HashOf \in [Keys -> Nat]
    /\ {ArrayBase, TableBase, RefsBase, LinearLimit} \subseteq Nat \ {0}
    /\ {MaxLive, MaxItems, MaxIndex, MaxLength} \subseteq Nat
    /\ Numbers \subseteq Nat /\ NumberBytes \in Seq(Nat)
    /\ Risky \subseteq {"addGone"}

VARIABLES
    heap,       \* see Fresh
    promised    \* what Collections makes of the same statements

vars == <<heap, promised>>

-----------------------------------------------------------------------------
(* Values.  The places that hold them are static variables, <<s>>, and the   *)
(* items of arrays, tables and files, <<c, i>>.  A file has one: its string, *)
(* if it is open.  When the block of items of c is moved in memory, what     *)
(* pointed to them points nowhere.                                           *)

Nil == [kind |-> "nil"]
Strong(o) == [kind |-> "strong", o |-> o]
Weak(o, i) == [kind |-> "weak", o |-> o, index |-> i]
Number(n) == [kind |-> "number", n |-> n]      \* only as an operand
Unwired == -1       \* EEL_WEAKREF_UNWIRED, index of a weak reference in a register

Item(key, v) == [key |-> key, value |-> v]     \* the key is Nil if not in a table
Nowhere == << >>
NoBlock == Block(<< >>, 0)

Fresh ==
    [live |-> {},
     count |-> [o \in Objects |-> 0],           \* refcounts
     keys |-> [k \in Keys |-> 0],               \* refcounts of the strings
     refs |-> [o \in Objects |-> << >>],        \* places of the weak references
     room |-> [o \in Objects |-> 0],            \* size of that vector
     static |-> [s \in Statics |-> Nil],
     items |-> [o \in Objects |-> << >>],
     size |-> [o \in Objects |-> 0],            \* maxlength of arrays, asize of tables
     block |-> [o \in Vectors \union Dstrings |-> NoBlock],     \* see Buffers
     position |-> [f \in Files |-> 0]]

Value == [kind : {"nil"}] \union [kind : {"strong"}, o : Objects]
         \union [kind : {"weak"}, o : Objects, index : Nat]

Place == {Nowhere} \union {<<s>> : s \in Statics} \union (Objects \X Nat)

\* The types of the parts of a heap
Heap ==
    [live : SUBSET Objects, count : [Objects -> Int], keys : [Keys -> Int],
     refs : [Objects -> Seq(Place)], room : [Objects -> Nat],
     static : [Statics -> Value],
     items : [Objects -> Seq([key : Keys \union {Nil}, value : Value])],
     size : [Objects -> Nat], block : [Vectors \union Dstrings -> Blocks],
     position : [Files -> Nat]]

ValueAt(h, p) == IF Len(p) = 1 THEN h.static[p[1]] ELSE h.items[p[1]][p[2]].value

\* Writing nowhere, or beyond the items, changes nothing that can be seen.
Put(h, p, v) ==
    CASE Len(p) = 1 -> [h EXCEPT !.static[p[1]] = v]
      [] Len(p) = 2 /\ p[2] \in DOMAIN h.items[p[1]] -> [h EXCEPT !.items[p[1]][p[2]].value = v]
      [] OTHER -> h

-----------------------------------------------------------------------------
(* Weak references.                                                          *)

Attach(h, p, o) ==
    LET n == Len(h.refs[o])
        wired == [h EXCEPT !.refs[o] = Append(@, p),
                           !.room[o] = IF @ < n + 1 THEN CalcResize(RefsBase, @, n + 1) ELSE @]
    IN  Put(wired, p, Weak(o, n))

Shrunk(room, n) ==
    IF n < room \div 2 /\ room > RefsBase THEN room \div 2
    ELSE IF n = 0 THEN 0
    ELSE room

\* Mutation: the reference that is moved within the vector keeps its index.
DetachKeepIndex(h, p) ==
    LET v == ValueAt(h, p)
        n == Len(h.refs[v.o])
        last == h.refs[v.o][n]
        left == [k \in 1..n - 1 |-> IF k = v.index + 1 THEN last ELSE h.refs[v.o][k]]
    IN  Put([h EXCEPT !.refs[v.o] = left, !.room[v.o] = Shrunk(@, n - 1)], p, Nil)

\* The last reference of the vector takes the place of the one that goes.
Detach(h, p) ==
    LET v == ValueAt(h, p)
        n == Len(h.refs[v.o])
        last == h.refs[v.o][n]
        left == [k \in 1..n - 1 |-> IF k = v.index + 1 THEN last ELSE h.refs[v.o][k]]
        cut == [h EXCEPT !.refs[v.o] = left, !.room[v.o] = Shrunk(@, n - 1)]
    IN  Put(Put(cut, last, Weak(v.o, v.index)), p, Nil)

\* Mutation: weak references are not told that they have been moved.
RelocateNothing(h, c) == h

\* The array or table has been moved, as a whole or item by item.
Relocated(h, c) ==
    LET Has(i, o, k) == h.items[c][i].value = Weak(o, k - 1)
    IN  [h EXCEPT !.refs = [o \in Objects |-> [k \in DOMAIN @[o] |->
            IF \E i \in DOMAIN h.items[c] : Has(i, o, k)
            THEN <<c, CHOOSE i \in DOMAIN h.items[c] : Has(i, o, k)>>
            ELSE @[o][k]]]]

KillWeakrefs(h, o) ==
    LET n == Len(h.refs[o])
        after[k \in 0..n] == IF k = 0 THEN h ELSE Put(after[k - 1], h.refs[o][k], Nil)
    IN  [after[n] EXCEPT !.refs[o] = << >>, !.room[o] = 0]

-----------------------------------------------------------------------------
(* Ownership.  Strings are not destroyed when nobody owns them, but cached.  *)

Own(h, o) == [h EXCEPT !.count[o] = @ + 1]
OwnKey(h, key) == [h EXCEPT !.keys[key] = @ + 1]
DisownKey(h, key) == [h EXCEPT !.keys[key] = @ - 1]

\* eel_v_copy: only an unwired weak reference is one afterwards.
Copy(h, p, v) ==
    CASE v.kind = "nil" -> Put(h, p, Nil)
      [] v.kind = "weak" /\ v.index = Unwired -> Attach(h, p, v.o)
      [] OTHER -> Own(Put(h, p, Strong(v.o)), v.o)

\* eel_v_clone
Clone(h, p, v) == IF v.kind = "weak" THEN Attach(h, p, v.o) ELSE Copy(h, p, v)

\* eel_v_disown_nz: what is left at the place is not used any more.  disown is
\* what a reference less does to each object.
DisownAt(disown, h, p) ==
    LET v == ValueAt(h, p)
    IN  CASE v.kind = "strong" -> disown[v.o][h]
          [] v.kind = "weak" -> Detach(h, p)
          [] OTHER -> h

DisownItem(disown, h, c, i) ==
    DisownAt(disown,
             IF c \in Tables THEN DisownKey(h, h.items[c][i].key) ELSE h,
             <<c, i>>)

DisownItems(disown, h, c, from, to) ==
    LET after[n \in 0..to - from + 1] ==
            IF n = 0 THEN h ELSE DisownItem(disown, after[n - 1], c, from + n - 1)
    IN  after[to - from + 1]

Freed(h, o) ==
    [h EXCEPT !.live = @ \ {o}, !.items[o] = << >>, !.size[o] = 0,
              !.block = [b \in DOMAIN @ |-> IF b = o THEN NoBlock ELSE @[b]],
              !.position = [f \in Files |-> IF f = o THEN 0 ELSE @[f]]]

Destroyed(disown, h, o) ==
    Freed(KillWeakrefs(DisownItems(disown, h, o, 1, Len(h.items[o])), o), o)

DisownOnce(disown, h, o) ==
    LET less == [h EXCEPT !.count[o] = @ - 1]
    IN  IF h.count[o] > 1 THEN less ELSE Destroyed(disown, less, o)

\* Destructors disown what the object owned, and so on: each is within that of
\* another object.
Disown ==
    LET within[depth \in 0..Cardinality(Objects)] ==
            [o \in Objects |-> [h \in Heap |->
                IF depth = 0 THEN h ELSE DisownOnce(within[depth - 1], h, o)]]
    IN  within[Cardinality(Objects)]

-----------------------------------------------------------------------------
(* Blocks of items.  realloc() may leave a block where it is: taken is the    *)
(* harder case, that it always gives it a new address.                       *)

Base(c) == IF c \in Arrays THEN ArrayBase ELSE TableBase

\* The block of items has a new address.
Moved(h, c) ==
    LET Lost(p) == IF Len(p) = 2 /\ p[1] = c THEN Nowhere ELSE p
    IN  [h EXCEPT !.refs = [o \in Objects |-> [k \in DOMAIN @[o] |-> Lost(@[o][k])]]]

\* a_setsize and t_setsize, when items are those that are kept
Resized(h, c, length) ==
    LET size == CalcResize(Base(c), h.size[c], length)
        g == [h EXCEPT !.size[c] = size]
    IN  IF size = h.size[c] THEN g
        ELSE Relocated(Moved(g, c), c)

\* Mutation: weak references do not learn that items have made place.
InsertedUnmoved(h, c, i, key, v) ==
    LET g == Resized(h, c, Len(h.items[c]) + 1)
        owned == IF c \in Tables THEN OwnKey(g, key) ELSE g
    IN  Copy([owned EXCEPT !.items[c] = InsertAt(@, i, Item(key, Nil))],
             <<c, i>>, v)

\* Items from position i on make place for a new one.
Inserted(h, c, i, key, v) ==
    LET g == Resized(h, c, Len(h.items[c]) + 1)
        owned == IF c \in Tables THEN OwnKey(g, key) ELSE g
        shifted == [owned EXCEPT !.items[c] = InsertAt(@, i, Item(key, Nil))]
    IN  Copy(Relocated(shifted, c), <<c, i>>, v)

Removed(h, c, from, to) ==
    LET g == DisownItems(Disown, h, c, from, to)
        items == P!ItemsRemoved(g.items[c], from, to)
    IN  Resized(Relocated([g EXCEPT !.items[c] = items], c), c, Len(items))

Replaced(h, c, i, v) == Copy(DisownAt(Disown, h, <<c, i>>), <<c, i>>, v)

Allocated(h, o, size) ==
    [h EXCEPT !.live = @ \union {o}, !.count[o] = 1, !.size[o] = size]

\* a_set_index: skipped items are nil.
SetItem(h, a, i, v) ==
    LET g == Resized(h, a, i)
        grown == h.items[a] \o [j \in 1..i - Len(h.items[a]) |-> Item(Nil, Nil)]
    IN  IF i <= Len(h.items[a]) THEN Replaced(h, a, i, v)
        ELSE Copy([g EXCEPT !.items[a] = grown], <<a, i>>, v)

\* A new array or table with items from to to of another one.
CloneItem(h, o, item) ==
    LET owned == IF o \in Tables THEN OwnKey(h, item.key) ELSE h
        longer == [owned EXCEPT !.items[o] = Append(@, Item(item.key, Nil))]
    IN  Clone(longer, <<o, Len(longer.items[o])>>, item.value)

Cloned(h, o, c, from, to) ==
    LET after[n \in 0..to - from + 1] ==
            IF n = 0 THEN Allocated(h, o, to - from + 1)
                     ELSE CloneItem(after[n - 1], o, h.items[c][from + n - 1])
    IN  after[to - from + 1]

-----------------------------------------------------------------------------
(* Tables are sorted by hash code.                                           *)

Hash(h, t, i) == HashOf[h.items[t][i].key]

\* A turn of the loop of t__binary_find, positions counted from 0
Mid(span) == (span.low + span.high + 1) \div 2

Narrowed(h, t, hash, span) ==
    LET at == Hash(h, t, Mid(span) + 1)
    IN  IF span.high < span.low \/ hash = at THEN span
        ELSE IF hash < at THEN [span EXCEPT !.high = Mid(span) - 1]
        ELSE [span EXCEPT !.low = Mid(span) + 1]

\* Where the search ends, and whether it is at a hit
BinaryFind(h, t, hash) ==
    LET length == Len(h.items[t])
        after[n \in 0..length] ==
            IF n = 0 THEN [low |-> 0, high |-> length - 1]
                     ELSE Narrowed(h, t, hash, after[n - 1])
    IN  [hit |-> after[length].low <= after[length].high, at |-> Mid(after[length])]

\* The first item with the hash code, or where to insert one.
FirstWith(h, t, hash) ==
    LET n == Len(h.items[t])
        found == BinaryFind(h, t, hash)
    IN  IF n < LinearLimit THEN Min({i \in 1..n : Hash(h, t, i) >= hash} \union {n + 1})
        ELSE IF found.hit
        THEN Min({i \in 1..found.at + 1 : \A j \in i..found.at + 1 : Hash(h, t, j) = hash})
        ELSE found.at + 1

\* Mutation: only the first key with the hash code is looked at.
FindInGroupOfOne(h, t, key) ==
    LET at == FirstWith(h, t, HashOf[key])
    IN  [hit |-> at \in DOMAIN h.items[t] /\ h.items[t][at].key = key, at |-> at]

\* The item with the key, among those with its hash code, which begin at first:
\* keys are the same if they are the same string.
FindFrom(h, t, key, first) ==
    LET hits == {i \in first..Len(h.items[t]) :
                    /\ \A j \in first..i : Hash(h, t, j) = HashOf[key]
                    /\ h.items[t][i].key = key}
    IN  IF hits # {} THEN [hit |-> TRUE, at |-> Min(hits)] ELSE [hit |-> FALSE, at |-> first]

\* t__find
Find(h, t, key) == FindFrom(h, t, key, FirstWith(h, t, HashOf[key]))

TableSet(h, t, key, v) ==
    LET found == Find(h, t, key)
    IN  IF found.hit THEN Replaced(h, t, found.at, v)
                     ELSE Inserted(h, t, found.at, key, v)

\* insert_items: weak references become strong ones.  The value is read from
\* where it is in u after the one it replaces has been disowned.
AddItem(h, t, u, i) ==
    LET item == h.items[u][i]
        found == Find(h, t, item.key)
        cleared == DisownAt(Disown, h, <<t, found.at>>)
    IN  IF found.hit THEN Copy(cleared, <<t, found.at>>, ValueAt(cleared, <<u, i>>))
                     ELSE Inserted(h, t, found.at, item.key, item.value)

ItemsAdded(h, t, u) ==
    LET after[n \in 0..Len(h.items[u])] ==
            IF n = 0 THEN h ELSE AddItem(after[n - 1], t, u, n)
    IN  after[Len(h.items[u])]

-----------------------------------------------------------------------------
(* A statement of the program.  What it reads is in limbo until the function *)
(* it is in returns, which it does at once: used are these objects, in the   *)
(* order they are read, and made is a new one.  Only objects in static       *)
(* variables are used; SETVAR stores results in one of them.                 *)

Abs(v) == IF v.kind = "weak" THEN P!Weak(v.o) ELSE v

Using(used) ==
    [heap EXCEPT !.count = [o \in Objects |-> IF o \in Range(used) THEN @[o] + 1 ELSE @[o]]]

\* The function returns: what is in its limbo list is disowned.
Returned(h, limbo) ==
    LET after[n \in 0..Len(limbo)] ==
            IF n = 0 THEN h ELSE Disown[limbo[n]][after[n - 1]]
    IN  after[Len(limbo)]

\* done is what the operation makes of Using(used).
Statement(used, made, done, promise) ==
    LET limbo == IF Cardinality(Range(used)) < Len(used) THEN <<used[1]>> ELSE Reverse(used)
    IN  /\ heap' = Returned(done, made \o limbo)
        /\ Cardinality({p \in heap'.live \X (1..MaxItems + 1) :
                           p[2] <= Len(heap'.items[p[1]])}) <= MaxItems
        /\ \A a \in Arrays : Len(heap'.items[a]) <= MaxIndex
        /\ \A b \in Vectors \union Dstrings : heap'.block[b].length <= MaxLength
        /\ promised' = P!Settled(promise)

Named == {heap.static[s].o : s \in {s \in Statics : heap.static[s].kind # "nil"}}
Given == {Strong(o) : o \in Named}
Stored == Given \union {Weak(o, Unwired) : o \in Named}
ReadAt(h, p) == IF ValueAt(h, p).kind = "nil" THEN Nil ELSE Strong(ValueAt(h, p).o)
Uses(v) == IF v.kind \in {"nil", "number"} THEN << >> ELSE <<v.o>>

Store(h, s, v) == Copy(DisownAt(Disown, h, <<s>>), <<s>>, v)

Contents(c) == promised.contents[c]
NamedArrays == Named \cap Arrays
NamedTables == Named \cap Tables
NamedVectors == Named \cap Vectors
NamedDstrings == Named \cap Dstrings
NamedFiles == Named \cap Files
Spare(set) ==
    {o \in set \ heap.live : /\ Cardinality(heap.live) < MaxLive
                             /\ \E all \in Together : heap.live \union {o} \subseteq all}

\* s = v and s (=) v
Assign(s, v) ==
    Statement(Uses(v), << >>, Store(Using(Uses(v)), s, v), P!Set(promised, s, Abs(v)))

\* What an expression made is given to a static variable.
Make(s, o, used, made, contents) ==
    Statement(used, <<o>>, Store(made, s, Strong(o)),
              P!Created(promised, s, o, contents))

\* A statement that changes an array or a table, with an operand.
Operands(c, v) == <<c>> \o Uses(v)
Change(c, v, changed, contents) ==
    Statement(Operands(c, v), << >>, changed, P!Becomes(promised, c, contents))

-----------------------------------------------------------------------------
(* Arrays.  Indices count from 1.                                            *)

\* s = a[i]
GetItem(s, a, i) ==
    LET v == ReadAt(heap, <<a, i>>)
    IN  Statement(Operands(a, v), << >>, Store(Using(Operands(a, v)), s, v),
                  P!Set(promised, s, P!Read(Contents(a)[i])))

\* s = [] and s = [v]
MakeArray(s, o) ==
    Make(s, o, << >>, Allocated(heap, o, ArrayBase), P!Empty)

MakeArrayOf(s, o, v) ==
    Make(s, o, Uses(v),
         Copy([Allocated(Using(Uses(v)), o, 1) EXCEPT !.items[o] = <<Item(Nil, Nil)>>],
              <<o, 1>>, v),
         <<Abs(v)>>)

\* s = copy(a, from, n)
MakeCopy(s, o, a, from, to) ==
    Make(s, o, <<a>>, Cloned(Using(<<a>>), o, a, from, to), SubSeq(Contents(a), from, to))

\* s = a + v
MakeLonger(s, o, a, v) ==
    Make(s, o, Operands(a, v),
         SetItem(Cloned(Using(Operands(a, v)), o, a, 1, Len(heap.items[a])),
                 o, Len(heap.items[a]) + 1, v),
         Append(Contents(a), Abs(v)))

\* a[i] = v and a[i] (=) v; with v at the end also a.+ v
ChangeItem(a, i, v) ==
    Change(a, v, SetItem(Using(Operands(a, v)), a, i, v), P!ItemSet(Contents(a), i, Abs(v)))

\* insert(a, i, v): an index beyond the end of the array is left out.
InsertItem(a, i, v) ==
    Change(a, v, Inserted(Using(Operands(a, v)), a, i, Nil, v),
           InsertAt(Contents(a), i, Abs(v)))

\* delete(a, from, n) and delete(a): the index of the end of the array, which
\* eel_get_delete_range lets pass, is left out.
DeleteItems(a, from, to) ==
    Change(a, Nil, Removed(Using(<<a>>), a, from, to),
           P!ItemsRemoved(Contents(a), from, to))

\* delete(a, v), where v is an object.  An item that was a weak reference is
\* nil but keeps the address of its object, and is found if v got the same
\* address; items that are nil before v are left out.
DeleteObject(a, o) ==
    LET at == {i \in DOMAIN heap.items[a] : heap.items[a][i].value.kind # "nil"
                                             /\ heap.items[a][i].value.o = o}
    IN  /\ at # {}
        /\ \A i \in 1..Min(at) : heap.items[a][i].value.kind # "nil"
        /\ Change(a, Strong(o), Removed(Using(<<a, o>>), a, Min(at), Min(at)),
                     RemoveAt(Contents(a), CHOOSE i \in DOMAIN Contents(a) :
                        /\ Contents(a)[i].o = o
                        /\ \A j \in 1..i - 1 : Contents(a)[j].o # o))

-----------------------------------------------------------------------------
(* Tables.                                                                   *)

\* s = t.key; a key that is not found is an exception.
GetKey(s, t, key) ==
    LET found == Find(heap, t, key)
        v == ReadAt(heap, <<t, found.at>>)
    IN  /\ found.hit
        /\ Statement(Operands(t, v), << >>, Store(Using(Operands(t, v)), s, v),
                     P!Set(promised, s, P!Read(Contents(t)[key])))

\* s = {} and s = {.key v}
MakeTable(s, o) == Make(s, o, << >>, Allocated(heap, o, 0), P!Empty)

MakeTableOf(s, o, key, v) ==
    Make(s, o, Uses(v), TableSet(Allocated(Using(Uses(v)), o, 0), o, key, v),
         P!KeySet(P!Empty, key, Abs(v)))

\* s = clone t
MakeClone(s, o, t) ==
    Make(s, o, <<t>>, Cloned(Using(<<t>>), o, t, 1, Len(heap.items[t])), Contents(t))

\* s = t + u
MakeSum(s, o, t, u) ==
    Make(s, o, <<t, u>>,
         ItemsAdded(Cloned(Using(<<t, u>>), o, t, 1, Len(heap.items[t])), o, u),
         P!TablesAdded(Contents(t), Contents(u)))

\* t.key = v and t.key (=) v
ChangeKey(t, key, v) ==
    Change(t, v, TableSet(Using(Operands(t, v)), t, key, v),
           P!KeySet(Contents(t), key, Abs(v)))

\* insert(t, key, v): a key that is found is an exception.
InsertKey(t, key, v) ==
    LET found == Find(heap, t, key)
    IN  /\ ~found.hit
        /\ Change(t, v, Inserted(Using(Operands(t, v)), t, found.at, key, v),
                     P!KeySet(Contents(t), key, Abs(v)))

\* delete(t, key)
DeleteKey(t, key) ==
    LET found == Find(heap, t, key)
    IN  /\ found.hit
        /\ Change(t, Nil, Removed(Using(<<t>>), t, found.at, found.at),
                     P!KeyRemoved(Contents(t), key))

\* delete(t)
DeleteKeys(t) ==
    Change(t, Nil, Removed(Using(<<t>>), t, 1, Len(heap.items[t])), P!Empty)

\* An object to which u refers weakly has no owner but what t drops.
LastOwner(t, u) ==
    LET shared == {i \in DOMAIN heap.items[t] : Find(heap, u, heap.items[t][i].key).hit}
        dropped == FoldLeft(LAMBDA g, i : DisownAt(Disown, g, <<t, i>>), Using(<<t, u>>),
                            SetToSeq(shared))
    IN  \E item \in Range(heap.items[u]) :
            item.value.kind = "weak" /\ item.value.o \notin dropped.live

\* t.+ u: values that go with those they replace, as all do when a table is
\* added to itself, are nil, or copied when they are gone.
AddTable(t, u) ==
    /\ t = u \/ LastOwner(t, u) => "addGone" \in Risky
    /\ Change(t, Strong(u), ItemsAdded(Using(<<t, u>>), t, u),
                 P!TablesAdded(Contents(t), Contents(u)))

-----------------------------------------------------------------------------
(* Vectors.  Operands are nil, which is 0, numbers, and vectors.             *)

SameClass(o, v) == Bits[o] = Bits[v] /\ (o \in Signed <=> v \in Signed)

\* The object o gets a block, and the static variable s the object.
MakeBuffer(s, o, used, block, numbers) ==
    Statement(used, <<o>>,
              Store([Allocated(Using(used), o, 0) EXCEPT !.block[o] = block], s, Strong(o)),
              P!NumbersBecome(P!Created(promised, s, o, P!Empty), o, numbers))

ChangeBuffer(o, x, block, numbers) ==
    Statement(Operands(o, x), << >>, [Using(Operands(o, x)) EXCEPT !.block[o] = block],
              P!NumbersBecome(promised, o, numbers))

\* The numbers of an operand: n of them, or those of a vector
NumbersOf(x, n) ==
    CASE x.kind = "nil" -> Zeroes(n)
      [] x.kind = "number" -> [i \in 1..n |-> x.n]
      [] OTHER -> [i \in 1..heap.block[x.o].length |-> ItemOf(x.o, heap.block[x.o].cells[i])]

\* get_ivalue: items beyond the end are 0.
Extended(ns, n) == [i \in 1..n |-> IF i <= Len(ns) THEN ns[i] ELSE 0]

PromisedOf(x, n) ==
    CASE x.kind = "nil" -> Zeroes(n)
      [] x.kind = "number" -> [i \in 1..n |-> x.n]
      [] OTHER -> promised.numbers[x.o]

InCells(v, ns) == [i \in DOMAIN ns |-> Cell(v, ns[i])]
InRange(v, ns) == [i \in DOMAIN ns |-> P!Wrapped(v, ns[i])]

\* s = vector [] and s = vector [x]
MakeVector(s, o, ns) ==
    MakeBuffer(s, o, << >>, NewVector(InCells(o, ns)), InRange(o, ns))

\* s = copy(v, from, n) and s = clone v
CopyVector(s, o, v, from, to) ==
    /\ SameClass(o, v)
    /\ MakeBuffer(s, o, <<v>>, NewVector(Cells(heap.block[v], from, to - from + 1)),
                  SubSeq(promised.numbers[v], from, to))

\* s = v #+ x, s = v #- x and s = v #* x
MakeCombined(s, o, op, v, x) ==
    LET items == Items(heap.block[v])
        n == Len(items)
    IN  /\ SameClass(o, v)
        /\ MakeBuffer(s, o, Operands(v, x),
                      NewVector(VOp(op, o, items, Extended(NumbersOf(x, n), n))),
                      P!Combined(op, v, promised.numbers[v], PromisedOf(x, n)))

\* v #+= x, v #-= x and v #*= x; the last does nothing if x is nil, which is
\* left out.
Combine(op, v, x) ==
    LET items == Items(heap.block[v])
        n == Len(items)
    IN  /\ op = "mul" => x # Nil
        /\ ChangeBuffer(v, x, Write(heap.block[v], 1,
                                    VOp(op, v, items, Extended(NumbersOf(x, n), n))),
                        P!Combined(op, v, promised.numbers[v], PromisedOf(x, n)))

\* v[i] = x.  If x is no number a vector may have become longer.
SetNumber(v, i, x) ==
    ChangeBuffer(v, x, VectorSet(heap.block[v], i, InCells(v, NumbersOf(x, 1))[1]),
                 P!NumbersSet(promised.numbers[v], i, InRange(v, PromisedOf(x, 1))))

\* insert(v, i, x): an index beyond the end is left out.
InsertNumber(v, i, x) ==
    ChangeBuffer(v, x, VectorInsert(heap.block[v], i, InCells(v, NumbersOf(x, 1))[1]),
                 P!NumbersInserted(promised.numbers[v], i, InRange(v, PromisedOf(x, 1))))

\* delete(v, from, n) and delete(v), which need not have items
DeleteNumbers(v, from, to) ==
    ChangeBuffer(v, Nil, VectorDelete(heap.block[v], from, to),
                 P!ItemsRemoved(promised.numbers[v], from, to))

\* v.+ x, when x is also the vector itself.  s = v + x does this to v as well
\* and makes a clone of what v was, and is left out.
AppendNumbers(v, x) ==
    ChangeBuffer(v, x, VectorAppend(heap.block[v], InCells(v, NumbersOf(x, 1))),
                 promised.numbers[v] \o InRange(v, PromisedOf(x, 1)))

-----------------------------------------------------------------------------
(* Dynamic strings.  Operands are bytes and dynamic strings.                 *)

BytesOf(x) == IF x.kind = "number" THEN <<x.n>> ELSE Items(heap.block[x.o])
PromisedBytes(x) == IF x.kind = "number" THEN <<x.n>> ELSE promised.numbers[x.o]

Terminated(d) == heap.block[d].cells[heap.block[d].length + 1] = 0

\* s = dstring [] and s = dstring [x]
MakeDstring(s, o, bytes) == MakeBuffer(s, o, << >>, NewDstring(bytes), bytes)

\* s = copy(d, from, n) and s = clone d
CopyDstring(s, o, d, from, to) ==
    MakeBuffer(s, o, <<d>>, NewDstring(Cells(heap.block[d], from, to - from + 1)),
               SubSeq(promised.numbers[d], from, to))

\* s = d + x
MakeJoined(s, o, d, x) ==
    MakeBuffer(s, o, Operands(d, x), NewDstring(Items(heap.block[d]) \o BytesOf(x)),
               promised.numbers[d] \o PromisedBytes(x))

\* d[i] = x.  What read() returns has no terminator; an index that would make a
\* byte of the garbage in its place is left out.
SetByte(d, i, n) ==
    /\ i > heap.block[d].length + 1 => Terminated(d)
    /\ ChangeBuffer(d, Nil, DstringSet(heap.block[d], i, n),
                    P!NumbersSet(promised.numbers[d], i, <<n>>))

\* insert(d, i, x): inserting a string into itself, which reads the block that
\* has been moved, and an index beyond the end are left out.
InsertBytes(d, i, x) ==
    /\ x # Strong(d)
    /\ ChangeBuffer(d, x, DstringInsert(heap.block[d], i, BytesOf(x)),
                    P!NumbersInserted(promised.numbers[d], i, PromisedBytes(x)))

\* delete(d, from, n) and delete(d), which need not have bytes
DeleteBytes(d, from, to) ==
    ChangeBuffer(d, Nil, DstringDelete(heap.block[d], from, to),
                 P!ItemsRemoved(promised.numbers[d], from, to))

\* d.+ x: a string that is added to itself is left out if its block is moved.
AppendBytes(d, x) ==
    LET b == heap.block[d]
        longer == IF x.kind = "number" THEN DstringSet(b, b.length + 1, x.n)
                                       ELSE DstringAppend(b, BytesOf(x))
    IN  /\ x = Strong(d) => Len(longer.cells) = Len(b.cells)
        /\ ChangeBuffer(d, x, longer, promised.numbers[d] \o PromisedBytes(x))

-----------------------------------------------------------------------------
(* Memory files.  Positions count from 0.                                    *)

BufferOf(f) == ValueAt(heap, <<f, 1>>)
IsOpen(f) == BufferOf(f) # Nil
Contained(f) == heap.block[BufferOf(f).o]

\* The position is changed, and what the string contains.
ChangeFile(f, x, position, block, numbers) ==
    LET d == BufferOf(f).o
    IN  Statement(Operands(f, x), << >>,
                  [Using(Operands(f, x)) EXCEPT !.block[d] = block, !.position[f] = position],
                  P!At(P!NumbersBecome(promised, d, numbers), f, position))

\* The string of a file is another one, or none.
Rewound(h, f) == [h EXCEPT !.position[f] = 0]
ChangeOfBuffer(f, v, changed, now) ==
    Statement(Operands(f, v), << >>, Rewound(changed, f),
              P!At(P!Becomes(promised, f, <<now>>), f, 0))

\* s = memfile [d] and s = memfile [], which makes a string, d
MakeFile(s, o, d) ==
    LET created == [Allocated(Using(<<d>>), o, 1) EXCEPT !.items[o] = <<Item(Nil, Nil)>>]
    IN  Make(s, o, <<d>>, Copy(created, <<o, 1>>, Strong(d)), <<Strong(d)>>)

MakeFileAndString(s, o, d) ==
    LET string == [Allocated(heap, d, 0) EXCEPT !.block[d] = NewDstring(<< >>)]
    IN  /\ \E all \in Together : heap.live \union {o, d} \subseteq all
        /\ Statement(<< >>, <<o>>,
                     Store([Allocated(string, o, 1) EXCEPT !.items[o] = <<Item(Nil, Strong(d))>>],
                           s, Strong(o)),
                     P!Created([promised EXCEPT !.live = @ \union {d}], s, o, <<Strong(d)>>))

\* s = f.buffer
GetBuffer(s, f) ==
    LET used == Operands(f, BufferOf(f))
    IN  /\ IsOpen(f)
        /\ Statement(used, << >>, Store(Using(used), s, BufferOf(f)),
                     P!Set(promised, s, Contents(f)[1]))

\* f.buffer = d, which opens a file that is closed
SetBuffer(f, d) ==
    ChangeOfBuffer(f, Strong(d), Replaced(Using(<<f, d>>), f, 1, Strong(d)), Strong(d))

\* f.position = n
Seek(f, n) ==
    /\ IsOpen(f) /\ n <= Contained(f).length
    /\ ChangeFile(f, Nil, n, Contained(f), promised.numbers[BufferOf(f).o])

\* s = read(f, n): no bytes at the end are an exception.
ReadBytes(s, o, f, n) ==
    LET at == heap.position[f]
        d == BufferOf(f).o
        got == Min({n, Contained(f).length - at})
        bytes == IF n = 0 THEN << >> ELSE Cells(Contained(f), at + 1, got)
        read == [Allocated(Using(<<f>>), o, 0) EXCEPT !.block[o] = ReadDstring(n, bytes),
                                                     !.position[f] = at + Len(bytes)]
        numbers == promised.numbers[d]
        end == IF n = 0 THEN at ELSE Min({at + n, Len(numbers)})
    IN  /\ IsOpen(f) /\ (n = 0 \/ at < Contained(f).length)
        /\ Statement(<<f>>, <<o>>, Store(read, s, Strong(o)),
                     P!At(P!NumbersBecome(P!Created(promised, s, o, P!Empty), o,
                                          SubSeq(numbers, at + 1, end)), f, end))

\* read(f, integer) and read(f, real)
ReadNumber(f) ==
    LET end == heap.position[f] + Len(NumberBytes)
    IN  /\ IsOpen(f) /\ end <= Contained(f).length
        /\ ChangeFile(f, Nil, end, Contained(f), promised.numbers[BufferOf(f).o])

\* write(f, x): a string that is written to the file of which it is the buffer
\* is left out, as its block may be moved.
WriteBytes(f, x) ==
    LET at == heap.position[f]
        bytes == IF x.kind = "number" THEN NumberBytes ELSE BytesOf(x)
    IN  /\ IsOpen(f) /\ x # BufferOf(f)
        /\ ChangeFile(f, x, at + Len(bytes), DstringWrite(Contained(f), at, bytes),
                      P!NumbersSet(promised.numbers[BufferOf(f).o], at + 1, bytes))

\* close(f): the string is freed, whoever owns it or refers to it; left out if
\* it is not the file alone.
CloseFile(f) ==
    LET d == BufferOf(f).o
        freed == Freed([Using(<<f>>) EXCEPT !.count[d] = @ - 1], d)
    IN  /\ IsOpen(f) /\ heap.count[d] = 1 /\ heap.refs[d] = << >>
        /\ ChangeOfBuffer(f, Nil, Put(freed, <<f, 1>>, Nil), Nil)

-----------------------------------------------------------------------------
Init == heap = Fresh /\ promised = P!Nothing

Single == {Nil} \union {Number(n) : n \in Numbers}
Addends == Single \union {Strong(v) : v \in NamedVectors}
Bytes == {Number(n) : n \in Numbers} \union {Strong(d) : d \in NamedDstrings}

ArrayStatement ==
    \/ \E s \in Statics, a \in NamedArrays : \E i \in DOMAIN heap.items[a] : GetItem(s, a, i)
    \/ \E s \in Statics, o \in Spare(Arrays) :
          \/ MakeArray(s, o)
          \/ \E v \in Given : MakeArrayOf(s, o, v)
          \/ \E a \in NamedArrays :
                \/ \E from, to \in DOMAIN heap.items[a] : from <= to /\ MakeCopy(s, o, a, from, to)
                \/ \E v \in Given : MakeLonger(s, o, a, v)
    \/ \E a \in NamedArrays :
          \/ \E i \in 1..Len(heap.items[a]) + 2, v \in Stored : ChangeItem(a, i, v)
          \/ \E i \in 1..Len(heap.items[a]) + 1, v \in Given : InsertItem(a, i, v)
          \/ \E from, to \in DOMAIN heap.items[a] : from <= to /\ DeleteItems(a, from, to)
          \/ \E o \in Named : DeleteObject(a, o)

TableStatement ==
    \/ \E s \in Statics, t \in NamedTables, key \in Keys : GetKey(s, t, key)
    \/ \E s \in Statics, o \in Spare(Tables) :
          \/ MakeTable(s, o)
          \/ \E key \in Keys, v \in Given : MakeTableOf(s, o, key, v)
          \/ \E t \in NamedTables : MakeClone(s, o, t) \/ \E u \in NamedTables : MakeSum(s, o, t, u)
    \/ \E t \in NamedTables :
          \/ \E key \in Keys, v \in Stored : ChangeKey(t, key, v)
          \/ \E key \in Keys, v \in Given : InsertKey(t, key, v)
          \/ \E key \in Keys : DeleteKey(t, key)
          \/ DeleteKeys(t)
          \/ \E u \in NamedTables : AddTable(t, u)

VectorStatement ==
    \/ \E s \in Statics, o \in Spare(Vectors) :
          \/ MakeVector(s, o, << >>)
          \/ \E n \in Numbers : MakeVector(s, o, <<n>>)
          \/ \E v \in NamedVectors :
                \/ \E from \in 1..heap.block[v].length + 1 :
                      \E to \in from - 1..heap.block[v].length : CopyVector(s, o, v, from, to)
                \/ \E op \in {"add", "sub", "mul"}, x \in Addends : MakeCombined(s, o, op, v, x)
    \/ \E v \in NamedVectors :
          \/ \E op \in {"add", "sub", "mul"}, x \in Addends : Combine(op, v, x)
          \/ \E i \in 1..MaxLength, x \in Single : SetNumber(v, i, x)
          \/ \E i \in 1..heap.block[v].length + 1, x \in Single : InsertNumber(v, i, x)
          \/ \E from, to \in 1..heap.block[v].length : from <= to /\ DeleteNumbers(v, from, to)
          \/ DeleteNumbers(v, 1, heap.block[v].length)
          \/ \E x \in Addends : AppendNumbers(v, x)

DstringStatement ==
    \/ \E s \in Statics, o \in Spare(Dstrings) :
          \/ MakeDstring(s, o, << >>)
          \/ \E n \in Numbers : MakeDstring(s, o, <<n>>)
          \/ \E d \in NamedDstrings :
                \/ \E from \in 1..heap.block[d].length + 1 :
                      \E to \in from - 1..heap.block[d].length : CopyDstring(s, o, d, from, to)
                \/ \E x \in Bytes : MakeJoined(s, o, d, x)
    \/ \E d \in NamedDstrings :
          \/ \E i \in 1..MaxLength, n \in Numbers : SetByte(d, i, n)
          \/ \E i \in 1..heap.block[d].length + 1, x \in Bytes : InsertBytes(d, i, x)
          \/ \E from, to \in 1..heap.block[d].length : from <= to /\ DeleteBytes(d, from, to)
          \/ DeleteBytes(d, 1, heap.block[d].length)
          \/ \E x \in Bytes : AppendBytes(d, x)

FileStatement ==
    \/ \E s \in Statics, o \in Spare(Files) :
          \/ \E d \in NamedDstrings : MakeFile(s, o, d)
          \/ \E d \in Spare(Dstrings) : MakeFileAndString(s, o, d)
    \/ \E f \in NamedFiles :
          \/ \E s \in Statics : GetBuffer(s, f)
          \/ \E s \in Statics, o \in Spare(Dstrings), n \in 0..MaxLength : ReadBytes(s, o, f, n)
          \/ \E d \in NamedDstrings : SetBuffer(f, d)
          \/ \E n \in 0..MaxLength : Seek(f, n)
          \/ ReadNumber(f)
          \/ \E x \in Bytes : WriteBytes(f, x)
          \/ CloseFile(f)

Next ==
    \/ \E s \in Statics, v \in {Nil} \union Stored : Assign(s, v)
    \/ ArrayStatement
    \/ TableStatement
    \/ VectorStatement
    \/ DstringStatement
    \/ FileStatement

Spec == Init /\ [][Next]_vars

-----------------------------------------------------------------------------
TypeOK ==
    /\ heap \in Heap
    /\ \A c \in Objects : heap.items[c] # << >> => c \in heap.live
    /\ \A t \in heap.live \cap Tables : \A item \in Range(heap.items[t]) : item.key \in Keys
    /\ \A o \in Objects : heap.count[o] \in Nat /\ (o \in heap.live <=> heap.count[o] > 0)

\* The places where there is a weak reference to an object.
WeakPlaces(o) ==
    {<<s>> : s \in {s \in Statics : heap.static[s].kind = "weak" /\ heap.static[s].o = o}}
    \union UNION {{<<c, i>> : i \in {i \in DOMAIN heap.items[c] :
                        LET v == heap.items[c][i].value IN v.kind = "weak" /\ v.o = o}} :
                   c \in heap.live}

\* The vector of an object knows where all weak references to it are, wherever
\* they have been moved, and each of them knows its index there; vectors and
\* items stay within the memory they have (eel_weakref_attach, _detach,
\* _relocate, eel_kill_weakrefs, eel_calcresize).
Wired ==
    /\ \A o \in Objects :
          /\ Range(heap.refs[o]) = WeakPlaces(o)
          /\ \A k \in DOMAIN heap.refs[o] : ValueAt(heap, heap.refs[o][k]) = Weak(o, k - 1)
          /\ Len(heap.refs[o]) <= heap.room[o]
    /\ \A c \in Objects : Len(heap.items[c]) <= heap.size[c]

StrongPlaces(o) ==
    {<<s>> : s \in {s \in Statics : heap.static[s] = Strong(o)}}
    \union UNION {{<<c, i>> : i \in {i \in DOMAIN heap.items[c] :
                        heap.items[c][i].value = Strong(o)}} : c \in heap.live}

\* The items of tables of which a string is the key.
KeySlots(k) ==
    UNION {{<<t, i>> : i \in {i \in DOMAIN heap.items[t] : heap.items[t][i].key = k}} :
           t \in heap.live \cap Tables}

\* Refcounts are the numbers of strong references, also to the strings that are
\* keys, whatever went when something was destroyed.
CountsExact ==
    /\ \A o \in Objects : heap.count[o] = Cardinality(StrongPlaces(o))
    /\ \A k \in Keys : heap.keys[k] = Cardinality(KeySlots(k))

\* The blocks of vectors and strings contain what the same statements make of
\* sequences of numbers; nothing is read or written outside of them.
BytesAsPromised ==
    /\ \A b \in heap.live \cap (Vectors \union Dstrings) :
          heap.block[b].within /\ heap.block[b].length <= Len(heap.block[b].cells)
    /\ \A v \in heap.live \cap Vectors : NumbersOf(Strong(v), 0) = promised.numbers[v]
    /\ \A d \in heap.live \cap Dstrings : BytesOf(Strong(d)) = promised.numbers[d]
    /\ heap.position = promised.position

\* Arrays and vectors are sequences, tables are functions, memory files have a
\* position in a sequence: what the code makes of moving, searching and
\* destroying is what the same statements make of those, and the search for a
\* key ends at it if the table has it (t__find).
BehavesAsPromised ==
    /\ heap.live = promised.live
    /\ \A s \in Statics : Abs(heap.static[s]) = promised.static[s]
    /\ \A c \in heap.live :
          /\ Len(heap.items[c]) = Cardinality(DOMAIN Contents(c))
          /\ \A i \in DOMAIN heap.items[c] :
                LET item == heap.items[c][i]
                    key == IF c \in Tables THEN item.key ELSE i
                IN  key \in DOMAIN Contents(c) /\ Contents(c)[key] = Abs(item.value)
    /\ \A t \in heap.live \cap Tables, k \in Keys :
          Find(heap, t, k).hit <=> k \in DOMAIN Contents(t)
    /\ BytesAsPromised
=============================================================================
