----------------------- MODULE ContainersHeap_proofs ------------------------
(* Proofs about the heap of Containers: weak references and their vectors,   *)
(* references and their counts, and the operations that statements are made  *)
(* of.  What all of them keep is Books: the vectors know where the weak      *)
(* references are, and the counts are what the owners add up to, when those  *)
(* places are left out that have been disowned and not yet overwritten.      *)
EXTENDS Containers, SequenceTheorems, FiniteSetTheorems, WellFoundedInduction, TLAPS

-----------------------------------------------------------------------------
(* Loops: functions on 0 .. m that start somewhere and take one turn after  *)
(* the other.  Inductions rest on the least-number principle, over sets.    *)

\* The least-number principle, over a set: what the inductions here rest on.
LEMMA LeastNat ==
    ASSUME NEW T, T \subseteq Nat, T # {}
    PROVE  \E k \in T : \A j \in T : k <= j
<1>1. PICK k \in T : \A j \in T : ~(<<j, k>> \in OpToRel(<, Nat))
  BY NatLessThanWellFounded, WFMin
<1>2. \A j \in T : ~(j < k)
  BY <1>1 DEF OpToRel
<1> QED
  BY <1>2

\* f runs from s, turn by turn, through the sets J.
IsLoop(f, turn, J, s, m) ==
    /\ f = [n \in 0 .. m |-> IF n = 0 THEN s ELSE turn[n][f[n - 1]]]
    /\ \A n \in 0 .. m : f[n] \in J[n]

\* Such a loop exists if each turn leads from a set to the next one.
LEMMA LoopRuns ==
    ASSUME NEW J, NEW s \in J[0], NEW m \in Nat, NEW turn,
           \A n \in 1 .. m : turn[n] \in [J[n - 1] -> J[n]]
    PROVE  \E f : IsLoop(f, turn, J, s, m)
<1> DEFINE none == {k \in 0 .. m : ~\E f : IsLoop(f, turn, J, s, k)}
<1>1. SUFFICES ASSUME m \in none PROVE FALSE
  OBVIOUS
<1>2. PICK k \in none : \A j \in none : k <= j
  <2>1. none \subseteq Nat
    OBVIOUS
  <2> HIDE DEF none
  <2> QED
    BY <1>1, <2>1, LeastNat
<1>3. CASE k = 0
  <2> DEFINE g == [n \in 0 .. 0 |-> s]
  <2>1. g[0] = s /\ \A n \in 0 .. 0 : n = 0
    OBVIOUS
  <2>2. g = [n \in 0 .. 0 |-> IF n = 0 THEN s ELSE turn[n][g[n - 1]]]
    OBVIOUS
  <2> HIDE DEF g
  <2>3. IsLoop(g, turn, J, s, 0)
    BY <2>1, <2>2 DEF IsLoop
  <2> QED
    BY <1>2, <1>3, <2>3
<1>4. CASE k # 0
  <2>1. k \in 1 .. m /\ k - 1 \in 0 .. m /\ k - 1 < k
    BY <1>2, <1>4
  <2>2. k - 1 \notin none
    BY <1>2, <2>1
  <2>3. PICK f : IsLoop(f, turn, J, s, k - 1)
    BY <2>1, <2>2
  <2> DEFINE g == [n \in 0 .. k |-> IF n = k THEN turn[k][f[k - 1]] ELSE f[n]]
  <2>4. /\ \A n \in 0 .. k - 1 : f[n] = IF n = 0 THEN s ELSE turn[n][f[n - 1]]
        /\ \A n \in 0 .. k - 1 : f[n] \in J[n]
    BY <2>3 DEF IsLoop
  <2>5. /\ \A n \in 0 .. k - 1 : g[n] = f[n]
        /\ g[k] = turn[k][f[k - 1]]
        /\ g = [n \in 0 .. k |-> g[n]]
    BY <2>1
  <2> HIDE DEF g
  <2>6. ASSUME NEW n \in 0 .. k
        PROVE  g[n] = (IF n = 0 THEN s ELSE turn[n][g[n - 1]]) /\ g[n] \in J[n]
    <3>1. CASE n = 0
      <4>1. n \in 0 .. k - 1
        BY <2>1, <3>1
      <4> QED
        BY <3>1, <4>1, <2>4, <2>5
    <3>2. CASE n = k
      <4>1. k - 1 \in 0 .. k - 1 /\ g[k - 1] = f[k - 1] /\ f[k - 1] \in J[k - 1]
        BY <2>1, <2>4, <2>5
      <4>2. turn[k] \in [J[k - 1] -> J[k]]
        BY <2>1
      <4> QED
        BY <3>2, <4>1, <4>2, <2>1, <2>5
    <3>3. CASE n # 0 /\ n # k
      <4>1. n \in 0 .. k - 1 /\ n - 1 \in 0 .. k - 1
        BY <3>3, <2>1
      <4> QED
        BY <3>3, <4>1, <2>4, <2>5
    <3> QED
      BY <3>1, <3>2, <3>3
  <2>7. IsLoop(g, turn, J, s, k)
    <3>1. g = [n \in 0 .. k |-> IF n = 0 THEN s ELSE turn[n][g[n - 1]]]
      BY <2>5, <2>6
    <3> QED
      BY <2>6, <3>1 DEF IsLoop
  <2> QED
    BY <2>7, <1>2
<1> QED
  BY <1>3, <1>4

\* What holds at first and is kept by each turn holds at the end.
LEMMA LoopKeeps ==
    ASSUME NEW f, NEW N \in Nat, NEW S, f[0] \in S[0],
           \A n \in 1 .. N : f[n - 1] \in S[n - 1] => f[n] \in S[n]
    PROVE  f[N] \in S[N]
<1> DEFINE bad == {n \in 0 .. N : f[n] \notin S[n]}
<1>1. SUFFICES ASSUME N \in bad PROVE FALSE
  OBVIOUS
<1>2. PICK k \in bad : \A j \in bad : k <= j
  <2>1. bad \subseteq Nat
    OBVIOUS
  <2> HIDE DEF bad
  <2> QED
    BY <1>1, <2>1, LeastNat
<1>3. k \in 1 .. N /\ k - 1 \in 0 .. N /\ k - 1 \notin bad
  BY <1>2
<1> QED
  BY <1>2, <1>3

-----------------------------------------------------------------------------
(* Places, values and keys of a heap.                                       *)

\* The places where there are values, and the values there.
Places(h) ==
    {<<s>> : s \in Statics} \union {p \in Objects \X Nat : p[2] \in 1..Len(h.items[p[1]])}
At(h) == [p \in Places(h) |-> ValueAt(h, p)]

\* The places where there are keys, and the keys there.
Slots(h) == {p \in Objects \X Nat : p[1] \in Tables /\ p[2] \in 1..Len(h.items[p[1]])}
KeyAt(h) == [p \in Slots(h) |-> h.items[p[1]][p[2]].key]

Items1 == [key : Keys \union {Nil}, value : Value]

\* The types of the parts of a heap.
LEMMA HeapFields ==
    ASSUME NEW h \in Heap
    PROVE  /\ h.live \in SUBSET Objects /\ h.count \in [Objects -> Int] /\ h.keys \in [Keys -> Int]
           /\ h.refs \in [Objects -> Seq(Place)] /\ h.room \in [Objects -> Nat]
           /\ h.static \in [Statics -> Value] /\ h.items \in [Objects -> Seq(Items1)]
           /\ h.size \in [Objects -> Nat] /\ h.block \in [Vectors \union Dstrings -> Blocks]
           /\ h.position \in [Files -> Nat]
           /\ \A c \in Objects : h.items[c] \in Seq(Items1) /\ Len(h.items[c]) \in Nat
                                 /\ DOMAIN h.items[c] = 1..Len(h.items[c])
           /\ \A c \in Objects : \A i \in 1..Len(h.items[c]) :
                 /\ h.items[c][i] \in Items1
                 /\ h.items[c][i].value \in Value
                 /\ h.items[c][i].key \in Keys \union {Nil}
                 /\ h.items[c][i] = [key |-> h.items[c][i].key, value |-> h.items[c][i].value]
           /\ \A c \in Objects : h.refs[c] \in Seq(Place) /\ Len(h.refs[c]) \in Nat
                                 /\ DOMAIN h.refs[c] = 1..Len(h.refs[c])
<1>1. /\ h.live \in SUBSET Objects /\ h.count \in [Objects -> Int] /\ h.keys \in [Keys -> Int]
           /\ h.refs \in [Objects -> Seq(Place)] /\ h.room \in [Objects -> Nat]
           /\ h.static \in [Statics -> Value] /\ h.items \in [Objects -> Seq(Items1)]
           /\ h.size \in [Objects -> Nat] /\ h.block \in [Vectors \union Dstrings -> Blocks]
           /\ h.position \in [Files -> Nat]
  BY DEF Heap, Items1
<1>2. \A c \in Objects : h.items[c] \in Seq(Items1) /\ Len(h.items[c]) \in Nat
                                 /\ DOMAIN h.items[c] = 1..Len(h.items[c])
  BY <1>1
<1>3. \A c \in Objects : \A i \in 1..Len(h.items[c]) : h.items[c][i] \in Items1
  BY <1>2
<1>4. \A x \in Items1 : x.value \in Value /\ x.key \in Keys \union {Nil} /\ x = [key |-> x.key, value |-> x.value]
  BY DEF Items1
<1>5. \A c \in Objects : h.refs[c] \in Seq(Place) /\ Len(h.refs[c]) \in Nat
                                 /\ DOMAIN h.refs[c] = 1..Len(h.refs[c])
  BY <1>1
<1> QED
  BY <1>1, <1>2, <1>3, <1>4, <1>5

\* The places are the static variables and the items; what is at them.
LEMMA PlacesAre ==
    ASSUME NEW h \in Heap
    PROVE  /\ \A s \in Statics : <<s>> \in Places(h) /\ Len(<<s>>) = 1 /\ ValueAt(h, <<s>>) = h.static[s]
           /\ \A c \in Objects : \A i \in 1..Len(h.items[c]) :
                <<c, i>> \in Places(h) /\ ValueAt(h, <<c, i>>) = h.items[c][i].value
           /\ \A c, i : <<c, i>> \in Places(h) => c \in Objects /\ i \in 1..Len(h.items[c])
           /\ \A p \in Places(h) :
                \/ \E s \in Statics : p = <<s>> /\ Len(p) = 1
                \/ \E c \in Objects : \E i \in 1..Len(h.items[c]) :
                        p = <<c, i>> /\ Len(p) = 2 /\ p[1] = c /\ p[2] = i
           /\ DOMAIN At(h) = Places(h)
           /\ \A p \in Places(h) : At(h)[p] = ValueAt(h, p) /\ At(h)[p] \in Value
           /\ Places(h) \subseteq Place
<1>1. \A s \in Statics : <<s>> \in Places(h) /\ Len(<<s>>) = 1 /\ ValueAt(h, <<s>>) = h.static[s]
  BY DEF Places, ValueAt
<1>2. \A c \in Objects : \A i \in 1..Len(h.items[c]) :
                <<c, i>> \in Places(h) /\ ValueAt(h, <<c, i>>) = h.items[c][i].value
  BY HeapFields DEF Places, ValueAt
<1>3. \A c, i : <<c, i>> \in Places(h) => c \in Objects /\ i \in 1..Len(h.items[c])
  BY DEF Places
<1>4. \A p \in Places(h) :
                \/ \E s \in Statics : p = <<s>> /\ Len(p) = 1
                \/ \E c \in Objects : \E i \in 1..Len(h.items[c]) :
                        p = <<c, i>> /\ Len(p) = 2 /\ p[1] = c /\ p[2] = i
  BY DEF Places
<1>5. DOMAIN At(h) = Places(h) /\ \A p \in Places(h) : At(h)[p] = ValueAt(h, p)
  BY DEF At
<1>6. \A p \in Places(h) : ValueAt(h, p) \in Value
  <2> TAKE p \in Places(h)
  <2>1. CASE \E s \in Statics : p = <<s>> /\ Len(p) = 1
    BY <1>1, <2>1, HeapFields
  <2>2. CASE \E c \in Objects : \E i \in 1..Len(h.items[c]) : p = <<c, i>>
    <3>1. PICK c \in Objects : \E i \in 1..Len(h.items[c]) : p = <<c, i>>
      BY <2>2
    <3>2. PICK i \in 1..Len(h.items[c]) : p = <<c, i>>
      BY <3>1
    <3>3. h.items[c][i].value \in Value
      BY HeapFields
    <3>4. ValueAt(h, <<c, i>>) = h.items[c][i].value
      BY <1>2
    <3> QED
      BY <3>2, <3>3, <3>4
  <2> QED
    BY <1>4, <2>1, <2>2
<1>7. Places(h) \subseteq Place
  BY DEF Places, Place
<1> QED
  BY <1>1, <1>2, <1>3, <1>4, <1>5, <1>6, <1>7

\* Values are nil, strong references or weak ones, and these are told apart.
LEMMA ValueFacts ==
    /\ Nil \in Value /\ Nil.kind = "nil" /\ Nil.kind # "weak" /\ Nil.kind # "strong"
    /\ \A o \in Objects : Strong(o) \in Value /\ Strong(o).kind = "strong" /\ Strong(o).o = o
                          /\ Strong(o).kind # "weak" /\ Strong(o) # Nil /\ Strong(o).kind # "nil"
    /\ \A o \in Objects, i \in Nat :
          Weak(o, i) \in Value /\ Weak(o, i).kind = "weak" /\ Weak(o, i).o = o /\ Weak(o, i).index = i
          /\ Weak(o, i) # Nil
    /\ \A v \in Value : v.kind \in {"nil", "strong", "weak"}
    /\ \A v \in Value : v.kind = "nil" <=> v = Nil
    /\ \A v \in Value : v.kind = "strong" => v.o \in Objects /\ v = Strong(v.o)
    /\ \A v \in Value : v.kind = "weak" => v.o \in Objects /\ v.index \in Nat /\ v = Weak(v.o, v.index)
    /\ \A o \in Objects, q \in Objects, i \in Nat : Strong(o) # Weak(q, i)
  BY DEF Value, Nil, Strong, Weak

\* What a change leaves alone.
SameLayout(g, h) ==
    /\ g.size = h.size /\ KeyAt(g) = KeyAt(h) /\ Slots(g) = Slots(h) /\ Places(g) = Places(h)
    /\ \A c \in Objects : Len(g.items[c]) = Len(h.items[c])
SameCounts(g, h) == g.live = h.live /\ g.count = h.count /\ g.keys = h.keys
SameBlocks(g, h) == g.block = h.block /\ g.position = h.position
SameRefs(g, h) == g.refs = h.refs /\ g.room = h.room

\* Layouts are the same if lengths and keys are.
LEMMA LayoutFrom ==
    ASSUME NEW g \in Heap, NEW h \in Heap, g.size = h.size,
           \A c \in Objects : /\ Len(g.items[c]) = Len(h.items[c])
                              /\ \A i \in 1..Len(h.items[c]) : g.items[c][i].key = h.items[c][i].key
    PROVE  SameLayout(g, h)
<1>1. Places(g) = Places(h)
  BY DEF Places
<1>2. Slots(g) = Slots(h)
  BY DEF Slots
<1>3. \A p \in Slots(h) : g.items[p[1]][p[2]].key = h.items[p[1]][p[2]].key
  BY DEF Slots
<1>4. KeyAt(g) = KeyAt(h)
  BY <1>2, <1>3 DEF KeyAt
<1> QED
  BY <1>1, <1>2, <1>4 DEF SameLayout

\* A value that is written to a place changes that place only.
LEMMA PutDoes ==
    ASSUME NEW h \in Heap, NEW p \in Places(h), NEW v \in Value
    PROVE  LET g == Put(h, p, v)
           IN  /\ g \in Heap
               /\ SameLayout(g, h) /\ SameCounts(g, h) /\ SameBlocks(g, h) /\ SameRefs(g, h)
               /\ \A q \in Places(h) : ValueAt(g, q) = IF q = p THEN v ELSE ValueAt(h, q)
<1> DEFINE g == Put(h, p, v)
<1>0. /\ h \in Heap /\ h.static \in [Statics -> Value] /\ h.items \in [Objects -> Seq(Items1)]
  BY HeapFields
<1>1. CASE \E s \in Statics : p = <<s>> /\ Len(p) = 1
  <2>1. PICK s \in Statics : p = <<s>> /\ Len(p) = 1
    BY <1>1
  <2>2. g = [h EXCEPT !.static[s] = v]
    BY <2>1 DEF Put
  <2> HIDE DEF g
  <2>3. g \in Heap /\ g.items = h.items /\ g.size = h.size
    BY <2>2 DEF Heap
  <2>4. SameCounts(g, h) /\ SameBlocks(g, h) /\ SameRefs(g, h)
    BY <2>2 DEF Heap, SameCounts, SameBlocks, SameRefs
  <2>5. SameLayout(g, h)
    BY <2>3, LayoutFrom
  <2>6. \A t \in Statics : g.static[t] = IF t = s THEN v ELSE h.static[t]
    BY <2>2, <1>0 DEF Heap
  <2>7. ASSUME NEW q \in Places(h)
        PROVE  ValueAt(g, q) = IF q = p THEN v ELSE ValueAt(h, q)
    <3>1. CASE \E t \in Statics : q = <<t>> /\ Len(q) = 1
      <4>1. PICK t \in Statics : q = <<t>> /\ Len(q) = 1
        BY <3>1
      <4>2. ValueAt(g, q) = g.static[t] /\ ValueAt(h, q) = h.static[t]
        BY <4>1 DEF ValueAt
      <4>3. q = p <=> t = s
        BY <4>1, <2>1
      <4> QED
        BY <4>2, <4>3, <2>6
    <3>2. CASE \E c \in Objects : \E i \in 1..Len(h.items[c]) : q = <<c, i>> /\ Len(q) = 2
      <4>1. Len(q) = 2
        BY <3>2
      <4>2. ValueAt(g, q) = ValueAt(h, q)
        BY <4>1, <2>3 DEF ValueAt
      <4> QED
        BY <4>1, <4>2, <2>1
    <3> QED
      BY <3>1, <3>2, PlacesAre
  <2> QED
    BY <2>3, <2>4, <2>5, <2>7 DEF g
<1>2. CASE \E c \in Objects : \E i \in 1..Len(h.items[c]) : p = <<c, i>> /\ Len(p) = 2
  <2>1. PICK c \in Objects : \E i \in 1..Len(h.items[c]) : p = <<c, i>> /\ Len(p) = 2
    BY <1>2
  <2>2. PICK i \in 1..Len(h.items[c]) : p = <<c, i>> /\ Len(p) = 2
    BY <2>1
  <2>a. DOMAIN h.items[c] = 1..Len(h.items[c]) /\ h.items[c] \in Seq(Items1) /\ h.items[c][i] \in Items1
    BY HeapFields
  <2>3. g = [h EXCEPT !.items[c][i].value = v]
    BY <2>2, <2>a DEF Put
  <2> DEFINE new == [h.items[c] EXCEPT ![i].value = v]
  <2>4. /\ new \in Seq(Items1) /\ Len(new) = Len(h.items[c])
        /\ \A j \in 1..Len(h.items[c]) :
              /\ new[j].key = h.items[c][j].key
              /\ new[j].value = IF j = i THEN v ELSE h.items[c][j].value
    BY <2>a DEF Items1
  <2>5. g = [h EXCEPT !.items[c] = new]
    BY <2>3
  <2> HIDE DEF g, new
  <2>6. g \in Heap /\ g.size = h.size /\ g.static = h.static
    BY <2>4, <2>5 DEF Heap, Items1
  <2>7. SameCounts(g, h) /\ SameBlocks(g, h) /\ SameRefs(g, h)
    BY <2>5 DEF Heap, SameCounts, SameBlocks, SameRefs
  <2>8. \A d \in Objects : g.items[d] = IF d = c THEN new ELSE h.items[d]
    BY <2>5, <1>0 DEF Heap
  <2>9. SameLayout(g, h)
    BY <2>6, <2>8, <2>4, LayoutFrom
  <2>10. ASSUME NEW q \in Places(h)
         PROVE  ValueAt(g, q) = IF q = p THEN v ELSE ValueAt(h, q)
    <3>1. CASE \E t \in Statics : q = <<t>> /\ Len(q) = 1
      <4>1. Len(q) = 1
        BY <3>1
      <4>2. ValueAt(g, q) = ValueAt(h, q)
        BY <4>1, <2>6 DEF ValueAt
      <4> QED
        BY <4>1, <4>2, <2>2
    <3>2. CASE \E d \in Objects : \E j \in 1..Len(h.items[d]) : q = <<d, j>> /\ Len(q) = 2
      <4>1. PICK d \in Objects : \E j \in 1..Len(h.items[d]) : q = <<d, j>> /\ Len(q) = 2
        BY <3>2
      <4>2. PICK j \in 1..Len(h.items[d]) : q = <<d, j>> /\ Len(q) = 2
        BY <4>1
      <4>3. ValueAt(g, q) = g.items[d][j].value /\ ValueAt(h, q) = h.items[d][j].value
        BY <4>2 DEF ValueAt
      <4>4. q = p <=> d = c /\ j = i
        BY <4>2, <2>2
      <4> QED
        BY <4>3, <4>4, <2>8, <2>4
    <3> QED
      BY <3>1, <3>2, PlacesAre
  <2> QED
    BY <2>6, <2>7, <2>9, <2>10 DEF g
<1> QED
  BY <1>1, <1>2, PlacesAre

-----------------------------------------------------------------------------
(* Sizes: eel_calcresize.                                                   *)

\* Half of three times a size is not less than the size.
LEMMA Threes == \A n \in Nat : (n * 3) \div 2 \in Nat /\ (n * 3) \div 2 >= n
<1> TAKE n \in Nat
<1>1. (n * 3) \div 2 \in Int /\ 2 * ((n * 3) \div 2) + 1 >= n * 3
  OBVIOUS
<1> QED
  BY <1>1

\* Sizes that grow by half and a base get anywhere: the function that
\* eel_calcresize computes exists, and its values are large enough.
LEMMA Grows ==
    ASSUME NEW base \in Nat \ {0}, NEW requested \in Nat
    PROVE  LET grown == CHOOSE f : f = [n \in Nat |->
                            IF n >= requested THEN n ELSE f[(n * 3) \div 2 + base]]
           IN  \A n \in Nat : grown[n] \in Nat /\ grown[n] >= requested
<1> DEFINE next(n) == (n * 3) \div 2 + base
           From(m) == {n \in Nat : n + m >= requested}
           Good(f, m) == /\ f \in [From(m) -> {n \in Nat : n >= requested}]
                         /\ \A n \in From(m) : f[n] = IF n >= requested THEN n ELSE f[next(n)]
           none == {m \in Nat : ~\E f : Good(f, m)}
           grown == CHOOSE f : f = [n \in Nat |->
                            IF n >= requested THEN n ELSE f[(n * 3) \div 2 + base]]
<1>1. \A n \in Nat : next(n) \in Nat /\ next(n) > n
  BY Threes
<1> HIDE DEF next
<1>2. none = {}
  <2>1. SUFFICES ASSUME none # {} PROVE FALSE
    OBVIOUS
  <2>2. none \subseteq Nat
    OBVIOUS
  <2> HIDE DEF none
  <2>3. PICK m \in none : \A j \in none : m <= j
    BY <2>1, <2>2, LeastNat
  <2>4. m \in Nat /\ ~\E f : Good(f, m)
    BY <2>3 DEF none
  <2>5. CASE m = 0
    <3>1. Good([n \in From(m) |-> n], m)
      BY <2>5
    <3> QED
      BY <3>1, <2>4
  <2>6. CASE m # 0
    <3>1. m - 1 \in Nat /\ m - 1 \notin none
      BY <2>2, <2>3, <2>4, <2>6
    <3>2. PICK f : Good(f, m - 1)
      BY <3>1 DEF none
    <3> DEFINE g == [n \in From(m) |-> IF n >= requested THEN n ELSE f[next(n)]]
    <3>3. \A n \in From(m) : n >= requested \/ next(n) \in From(m - 1)
      BY <1>1, <2>4, <3>1
    <3>4. g \in [From(m) -> {n \in Nat : n >= requested}]
      <4> SUFFICES ASSUME NEW n \in From(m) PROVE g[n] \in {k \in Nat : k >= requested}
        OBVIOUS
      <4>1. CASE n >= requested
        BY <4>1
      <4>2. CASE ~(n >= requested)
        <5>1. g[n] = f[next(n)] /\ next(n) \in From(m - 1)
          BY <4>2, <3>3
        <5>2. f \in [From(m - 1) -> {k \in Nat : k >= requested}]
          BY <3>2
        <5> QED
          BY <5>1, <5>2
      <4> QED
        BY <4>1, <4>2
    <3>5. \A n \in From(m - 1) : n \in From(m) /\ g[n] = f[n]
      BY <3>1, <3>2, <2>4
    <3>6. \A n \in From(m) : g[n] = IF n >= requested THEN n ELSE g[next(n)]
      BY <3>3, <3>5
    <3>7. Good(g, m)
      BY <3>4, <3>6
    <3> QED
      BY <3>7, <2>4
  <2> QED
    BY <2>5, <2>6
<1>3. PICK f : Good(f, requested)
  BY <1>2
<1>4. From(requested) = Nat
  OBVIOUS
<1>5. f = [n \in Nat |-> IF n >= requested THEN n ELSE f[(n * 3) \div 2 + base]]
  BY <1>3, <1>4 DEF next
<1>6. grown = [n \in Nat |-> IF n >= requested THEN n ELSE grown[(n * 3) \div 2 + base]]
  BY <1>5
<1> HIDE DEF grown
<1>7. \A n \in Nat : grown[n] = IF n >= requested THEN n ELSE grown[next(n)]
  BY <1>6 DEF next
<1> DEFINE bad == {m \in Nat : \E n \in Nat : n + m >= requested /\ ~(grown[n] \in Nat /\ grown[n] >= requested)}
<1>8. bad = {}
  <2>1. SUFFICES ASSUME bad # {} PROVE FALSE
    OBVIOUS
  <2>2. bad \subseteq Nat
    OBVIOUS
  <2> HIDE DEF bad
  <2>3. PICK m \in bad : \A j \in bad : m <= j
    BY <2>1, <2>2, LeastNat
  <2>4. PICK n \in Nat : n + m >= requested /\ ~(grown[n] \in Nat /\ grown[n] >= requested)
    BY <2>3 DEF bad
  <2>5. m \in Nat
    BY <2>2, <2>3
  <2>6. n < requested /\ grown[n] = grown[next(n)]
    BY <1>7, <2>4
  <2>7. m - 1 \in Nat /\ next(n) \in Nat /\ next(n) + (m - 1) >= requested
    BY <2>4, <2>5, <2>6, <1>1
  <2>8. m - 1 \in bad
    BY <2>4, <2>6, <2>7 DEF bad
  <2> QED
    BY <2>8, <2>3, <2>5
<1>9. \A n \in Nat : n + requested >= requested
  OBVIOUS
<1>10. \A n \in Nat : grown[n] \in Nat /\ grown[n] >= requested
  BY <1>8, <1>9
<1> QED
  BY <1>10 DEF grown

\* eel_calcresize never gives less than what is asked for.
LEMMA CalcResizeDoes ==
    ASSUME NEW base \in Nat \ {0}, NEW current \in Nat, NEW requested \in Nat
    PROVE  CalcResize(base, current, requested) \in Nat
           /\ CalcResize(base, current, requested) >= requested
<1> DEFINE grown == CHOOSE f : f = [n \in Nat |->
                            IF n >= requested THEN n ELSE f[(n * 3) \div 2 + base]]
           start == IF current > 0 THEN current ELSE base
           half == current \div 2
<1>1. \A n \in Nat : grown[n] \in Nat /\ grown[n] >= requested
  BY Grows
<1>2. CalcResize(base, current, requested) =
        IF requested > current THEN grown[start]
        ELSE IF requested > half THEN current
        ELSE IF half < base THEN base
        ELSE half
  BY DEF CalcResize
<1> HIDE DEF grown
<1> QED
  BY <1>1, <1>2

-----------------------------------------------------------------------------
(* Wiring: weak references and the vectors that know where they are.        *)

\* The vector of each object has the places of all weak references to it, and
\* they have their indices in it.
Wiring(h) ==
    /\ \A o \in Objects : \A k \in 1..Len(h.refs[o]) :
          h.refs[o][k] \in Places(h) /\ ValueAt(h, h.refs[o][k]) = Weak(o, k - 1)
    /\ \A p \in Places(h) : ValueAt(h, p).kind = "weak" =>
          LET v == ValueAt(h, p)
          IN  v.index + 1 \in 1..Len(h.refs[v.o]) /\ h.refs[v.o][v.index + 1] = p
RoomForRefs(h) == \A o \in Objects : Len(h.refs[o]) <= h.room[o]

\* The bases of the sizes are positive numbers.
LEMMA BasesAre ==
    /\ RefsBase \in Nat \ {0} /\ ArrayBase \in Nat \ {0} /\ TableBase \in Nat \ {0}
    /\ LinearLimit \in Nat \ {0} /\ VectorBase \in Nat \ {0} /\ DstringBase \in Nat \ {0}
<1>1. {ArrayBase, TableBase, RefsBase, LinearLimit} \subseteq Nat \ {0}
  BY ContainersAssumption
<1>2. {VectorBase, DstringBase} \subseteq Nat \ {0}
  BY BuffersAssumption
<1> QED
  BY <1>1, <1>2

\* eel_weakref_attach: the reference is the last one of the vector, the others are
\* as they were.
LEMMA AttachDoes ==
    ASSUME NEW h \in Heap, Wiring(h), RoomForRefs(h), NEW o \in Objects,
           NEW p \in Places(h), ValueAt(h, p).kind # "weak"
    PROVE  LET g == Attach(h, p, o)
           IN  /\ g \in Heap /\ Wiring(g) /\ RoomForRefs(g)
               /\ SameLayout(g, h) /\ SameCounts(g, h) /\ SameBlocks(g, h)
               /\ \A q \in Places(h) : ValueAt(g, q) =
                    IF q = p THEN Weak(o, Len(h.refs[o])) ELSE ValueAt(h, q)
               /\ \A x \in Objects : x # o => g.refs[x] = h.refs[x]
<1> DEFINE n == Len(h.refs[o])
           wired == [h EXCEPT !.refs[o] = Append(@, p),
                              !.room[o] = IF @ < n + 1 THEN CalcResize(RefsBase, @, n + 1) ELSE @]
           g == Put(wired, p, Weak(o, n))
           more == Append(h.refs[o], p)
           room == IF h.room[o] < n + 1 THEN CalcResize(RefsBase, h.room[o], n + 1) ELSE h.room[o]
<1>0. /\ n \in Nat /\ h.refs[o] \in Seq(Place) /\ p \in Place /\ h.room[o] \in Nat
      /\ h.refs \in [Objects -> Seq(Place)] /\ h.room \in [Objects -> Nat]
  BY HeapFields, PlacesAre
<1>1. more \in Seq(Place) /\ Len(more) = n + 1 /\ more[n + 1] = p
      /\ \A k \in 1..n : more[k] = h.refs[o][k]
  BY <1>0
<1>2. room \in Nat /\ room >= n + 1
  <2>1. n + 1 \in Nat /\ h.room[o] \in Nat /\ RefsBase \in Nat \ {0}
    BY <1>0, BasesAre
  <2>2. CalcResize(RefsBase, h.room[o], n + 1) \in Nat /\ CalcResize(RefsBase, h.room[o], n + 1) >= n + 1
    BY <2>1, CalcResizeDoes
  <2> QED
    BY <2>1, <2>2
<1>3. wired = [h EXCEPT !.refs[o] = more, !.room[o] = room]
  OBVIOUS
<1>4. Attach(h, p, o) = g
  BY DEF Attach
<1> HIDE DEF n, more, room, wired
<1>5. /\ wired \in Heap /\ wired.items = h.items /\ wired.static = h.static /\ wired.size = h.size
      /\ SameCounts(wired, h) /\ SameBlocks(wired, h)
  BY <1>1, <1>2, <1>3 DEF Heap, SameCounts, SameBlocks
<1>6. /\ \A x \in Objects : wired.refs[x] = IF x = o THEN more ELSE h.refs[x]
      /\ \A x \in Objects : wired.room[x] = IF x = o THEN room ELSE h.room[x]
  BY <1>0, <1>3 DEF Heap
<1>7. SameLayout(wired, h) /\ \A q : ValueAt(wired, q) = ValueAt(h, q)
  BY <1>5, LayoutFrom DEF ValueAt
<1>8. p \in Places(wired) /\ Weak(o, n) \in Value
  BY <1>7, <1>0, ValueFacts DEF SameLayout
<1>9. /\ g \in Heap
      /\ SameLayout(g, wired) /\ SameCounts(g, wired) /\ SameBlocks(g, wired) /\ SameRefs(g, wired)
      /\ \A q \in Places(wired) : ValueAt(g, q) = IF q = p THEN Weak(o, n) ELSE ValueAt(wired, q)
  BY <1>5, <1>8, PutDoes
<1> HIDE DEF g
<1>10. SameLayout(g, h) /\ SameCounts(g, h) /\ SameBlocks(g, h)
  BY <1>5, <1>7, <1>9 DEF SameLayout, SameCounts, SameBlocks
<1>11. \A q \in Places(h) : ValueAt(g, q) = IF q = p THEN Weak(o, n) ELSE ValueAt(h, q)
  BY <1>7, <1>9 DEF SameLayout
<1>12. \A x \in Objects : g.refs[x] = (IF x = o THEN more ELSE h.refs[x])
                          /\ g.room[x] = IF x = o THEN room ELSE h.room[x]
  BY <1>6, <1>9 DEF SameRefs
<1>13. Places(g) = Places(h)
  BY <1>10 DEF SameLayout
<1>14. RoomForRefs(g)
  BY <1>12, <1>1, <1>2, HeapFields DEF RoomForRefs
<1>15. ASSUME NEW x \in Objects, NEW k \in 1..Len(g.refs[x])
       PROVE  g.refs[x][k] \in Places(g) /\ ValueAt(g, g.refs[x][k]) = Weak(x, k - 1)
  <2>1. CASE x = o /\ k = n + 1
    BY <2>1, <1>12, <1>1, <1>11, <1>13, <1>0
  <2>2. CASE ~(x = o /\ k = n + 1)
    <3>1. k \in 1..Len(h.refs[x]) /\ g.refs[x][k] = h.refs[x][k]
      BY <2>2, <1>12, <1>1, <1>0, HeapFields DEF n
    <3>2. h.refs[x][k] \in Places(h) /\ ValueAt(h, h.refs[x][k]) = Weak(x, k - 1)
      BY <3>1 DEF Wiring
    <3>3. k - 1 \in Nat
      BY <3>1, HeapFields
    <3>4. h.refs[x][k] # p
      BY <3>2, <3>3, ValueFacts
    <3> QED
      BY <3>1, <3>2, <3>4, <1>11, <1>13
  <2> QED
    BY <2>1, <2>2
<1>16. ASSUME NEW q \in Places(g), ValueAt(g, q).kind = "weak"
       PROVE  LET v == ValueAt(g, q)
              IN  v.index + 1 \in 1..Len(g.refs[v.o]) /\ g.refs[v.o][v.index + 1] = q
  <2>1. CASE q = p
    <3>1. ValueAt(g, q) = Weak(o, n) /\ Weak(o, n).o = o /\ Weak(o, n).index = n
      BY <2>1, <1>11, <1>0, ValueFacts
    <3>2. g.refs[o] = more
      BY <1>12
    <3> QED
      BY <3>1, <3>2, <1>1, <2>1, <1>0
  <2>2. CASE q # p
    <3> DEFINE v == ValueAt(h, q)
    <3>1. ValueAt(g, q) = v /\ q \in Places(h) /\ v.kind = "weak"
      BY <2>2, <1>11, <1>13, <1>16
    <3>2. v.index + 1 \in 1..Len(h.refs[v.o]) /\ h.refs[v.o][v.index + 1] = q
      BY <3>1 DEF Wiring
    <3>3. v \in Value
      BY <3>1, PlacesAre
    <3>4. v.o \in Objects /\ v.index \in Nat
      BY <3>1, <3>3, ValueFacts
    <3> HIDE DEF v
    <3>5. g.refs[v.o] = (IF v.o = o THEN more ELSE h.refs[v.o])
      BY <1>12, <3>4
    <3>6. v.index + 1 \in 1..Len(g.refs[v.o]) /\ g.refs[v.o][v.index + 1] = q
      <4>1. CASE v.o = o
        BY <4>1, <3>2, <3>5, <1>1, <1>0, <3>4 DEF n
      <4>2. CASE v.o # o
        BY <4>2, <3>2, <3>5
      <4> QED
        BY <4>1, <4>2
    <3> QED
      BY <3>1, <3>6
  <2> QED
    BY <2>1, <2>2
<1>17. Wiring(g)
  BY <1>15, <1>16 DEF Wiring
<1> QED
  BY <1>4, <1>9, <1>10, <1>11, <1>12, <1>14, <1>17 DEF n

-----------------------------------------------------------------------------
(* The loops of the model, as loops through sets of heaps.                  *)

\* The loop of eel_kill_weakrefs.
LEMMA KillLoop ==
    ASSUME NEW h, NEW o, Len(h.refs[o]) \in Nat, NEW J, h \in J[0],
           \A n \in 1..Len(h.refs[o]) : \A g \in J[n - 1] : Put(g, h.refs[o][n], Nil) \in J[n]
    PROVE  LET after[n \in 0..Len(h.refs[o])] ==
                    IF n = 0 THEN h ELSE Put(after[n - 1], h.refs[o][n], Nil)
           IN  after[Len(h.refs[o])] \in J[Len(h.refs[o])]
<1> DEFINE N == Len(h.refs[o])
           start == h
           turn == [n \in 1..N |-> [g \in J[n - 1] |-> Put(g, h.refs[o][n], Nil)]]
           after[n \in 0..N] == IF n = 0 THEN start ELSE Put(after[n - 1], h.refs[o][n], Nil)
<1>1. N \in Nat /\ start \in J[0]
  OBVIOUS
<1>2. \A n \in 1..N : /\ turn[n] \in [J[n - 1] -> J[n]]
                      /\ \A g \in J[n - 1] : turn[n][g] = Put(g, h.refs[o][n], Nil)
  OBVIOUS
<1> HIDE DEF N, start, turn, after
<1>3. PICK f : IsLoop(f, turn, J, start, N)
  BY <1>1, <1>2, LoopRuns
<1>4. \A n \in 0..N : n # 0 => n \in 1..N /\ n - 1 \in 0..N
  BY <1>1
<1>5. f = [n \in 0..N |-> IF n = 0 THEN start ELSE Put(f[n - 1], h.refs[o][n], Nil)]
  <2>1. f = [n \in 0..N |-> IF n = 0 THEN start ELSE turn[n][f[n - 1]]]
        /\ \A n \in 0..N : f[n] \in J[n]
    BY <1>3 DEF IsLoop
  <2>2. ASSUME NEW n \in 0..N, n # 0
        PROVE  turn[n][f[n - 1]] = Put(f[n - 1], h.refs[o][n], Nil)
    BY <1>2, <1>4, <2>1, <2>2
  <2> QED
    BY <2>1, <2>2
<1>6. after = [n \in 0..N |-> IF n = 0 THEN start ELSE Put(after[n - 1], h.refs[o][n], Nil)]
  <2>1. \E k : k = [n \in 0..N |-> IF n = 0 THEN start ELSE Put(k[n - 1], h.refs[o][n], Nil)]
    BY <1>5
  <2> QED
    BY <2>1, Zenon DEF after
<1>7. \A n \in 0..N : after[n] = IF n = 0 THEN start ELSE Put(after[n - 1], h.refs[o][n], Nil)
  BY <1>6
<1>8. after[0] \in J[0]
  <2>1. 0 \in 0..N
    BY <1>1
  <2>2. after[0] = start
    BY <2>1, <1>7, Zenon
  <2> QED
    BY <2>2, <1>1
<1>9. \A n \in 1..N : after[n - 1] \in J[n - 1] => after[n] \in J[n]
  <2> SUFFICES ASSUME NEW n \in 1..N, after[n - 1] \in J[n - 1] PROVE after[n] \in J[n]
    OBVIOUS
  <2>1. n \in 0..N /\ n # 0 /\ after[n] = Put(after[n - 1], h.refs[o][n], Nil)
    BY <1>1, <1>7
  <2>2. turn[n][after[n - 1]] = after[n] /\ turn[n][after[n - 1]] \in J[n]
    BY <1>2, <2>1
  <2> QED
    BY <2>2
<1>10. after[N] \in J[N]
  BY <1>1, <1>8, <1>9, LoopKeeps
<1> QED
  BY <1>10 DEF N, start, after

\* The loop of destructors.
LEMMA DisownItemsLoop ==
    ASSUME NEW disown, NEW h, NEW c, NEW from \in Int, NEW to \in Int, (to - from + 1) \in Nat, NEW J, h \in J[0],
           \A n \in 1..(to - from + 1) : \A g \in J[n - 1] : DisownItem(disown, g, c, from + n - 1) \in J[n]
    PROVE  LET after[n \in 0..(to - from + 1)] ==
                    IF n = 0 THEN h ELSE DisownItem(disown, after[n - 1], c, from + n - 1)
           IN  after[(to - from + 1)] \in J[(to - from + 1)]
<1> DEFINE N == (to - from + 1)
           start == h
           turn == [n \in 1..N |-> [g \in J[n - 1] |-> DisownItem(disown, g, c, from + n - 1)]]
           after[n \in 0..N] == IF n = 0 THEN start ELSE DisownItem(disown, after[n - 1], c, from + n - 1)
<1>1. N \in Nat /\ start \in J[0]
  OBVIOUS
<1>2. \A n \in 1..N : /\ turn[n] \in [J[n - 1] -> J[n]]
                      /\ \A g \in J[n - 1] : turn[n][g] = DisownItem(disown, g, c, from + n - 1)
  OBVIOUS
<1> HIDE DEF N, start, turn, after
<1>3. PICK f : IsLoop(f, turn, J, start, N)
  BY <1>1, <1>2, LoopRuns
<1>4. \A n \in 0..N : n # 0 => n \in 1..N /\ n - 1 \in 0..N
  BY <1>1
<1>5. f = [n \in 0..N |-> IF n = 0 THEN start ELSE DisownItem(disown, f[n - 1], c, from + n - 1)]
  <2>1. f = [n \in 0..N |-> IF n = 0 THEN start ELSE turn[n][f[n - 1]]]
        /\ \A n \in 0..N : f[n] \in J[n]
    BY <1>3 DEF IsLoop
  <2>2. ASSUME NEW n \in 0..N, n # 0
        PROVE  turn[n][f[n - 1]] = DisownItem(disown, f[n - 1], c, from + n - 1)
    BY <1>2, <1>4, <2>1, <2>2
  <2> QED
    BY <2>1, <2>2
<1>6. after = [n \in 0..N |-> IF n = 0 THEN start ELSE DisownItem(disown, after[n - 1], c, from + n - 1)]
  <2>1. \E k : k = [n \in 0..N |-> IF n = 0 THEN start ELSE DisownItem(disown, k[n - 1], c, from + n - 1)]
    BY <1>5
  <2> QED
    BY <2>1, Zenon DEF after
<1>7. \A n \in 0..N : after[n] = IF n = 0 THEN start ELSE DisownItem(disown, after[n - 1], c, from + n - 1)
  BY <1>6
<1>8. after[0] \in J[0]
  <2>1. 0 \in 0..N
    BY <1>1
  <2>2. after[0] = start
    BY <2>1, <1>7, Zenon
  <2> QED
    BY <2>2, <1>1
<1>9. \A n \in 1..N : after[n - 1] \in J[n - 1] => after[n] \in J[n]
  <2> SUFFICES ASSUME NEW n \in 1..N, after[n - 1] \in J[n - 1] PROVE after[n] \in J[n]
    OBVIOUS
  <2>1. n \in 0..N /\ n # 0 /\ after[n] = DisownItem(disown, after[n - 1], c, from + n - 1)
    BY <1>1, <1>7
  <2>2. turn[n][after[n - 1]] = after[n] /\ turn[n][after[n - 1]] \in J[n]
    BY <1>2, <2>1
  <2> QED
    BY <2>2
<1>10. after[N] \in J[N]
  BY <1>1, <1>8, <1>9, LoopKeeps
<1> QED
  BY <1>10 DEF N, start, after

\* The loop of t__clone and a_copy.
LEMMA ClonedLoop ==
    ASSUME NEW h, NEW o, NEW c, NEW from \in Int, NEW to \in Int, (to - from + 1) \in Nat, NEW J,
           Allocated(h, o, to - from + 1) \in J[0],
           \A n \in 1..(to - from + 1) : \A g \in J[n - 1] : CloneItem(g, o, h.items[c][from + n - 1]) \in J[n]
    PROVE  Cloned(h, o, c, from, to) \in J[(to - from + 1)]
<1> DEFINE N == (to - from + 1)
           start == Allocated(h, o, to - from + 1)
           turn == [n \in 1..N |-> [g \in J[n - 1] |-> CloneItem(g, o, h.items[c][from + n - 1])]]
           after[n \in 0..N] == IF n = 0 THEN start ELSE CloneItem(after[n - 1], o, h.items[c][from + n - 1])
<1>1. N \in Nat /\ start \in J[0]
  OBVIOUS
<1>2. \A n \in 1..N : /\ turn[n] \in [J[n - 1] -> J[n]]
                      /\ \A g \in J[n - 1] : turn[n][g] = CloneItem(g, o, h.items[c][from + n - 1])
  OBVIOUS
<1> HIDE DEF N, start, turn, after
<1>3. PICK f : IsLoop(f, turn, J, start, N)
  BY <1>1, <1>2, LoopRuns
<1>4. \A n \in 0..N : n # 0 => n \in 1..N /\ n - 1 \in 0..N
  BY <1>1
<1>5. f = [n \in 0..N |-> IF n = 0 THEN start ELSE CloneItem(f[n - 1], o, h.items[c][from + n - 1])]
  <2>1. f = [n \in 0..N |-> IF n = 0 THEN start ELSE turn[n][f[n - 1]]]
        /\ \A n \in 0..N : f[n] \in J[n]
    BY <1>3 DEF IsLoop
  <2>2. ASSUME NEW n \in 0..N, n # 0
        PROVE  turn[n][f[n - 1]] = CloneItem(f[n - 1], o, h.items[c][from + n - 1])
    BY <1>2, <1>4, <2>1, <2>2
  <2> QED
    BY <2>1, <2>2
<1>6. after = [n \in 0..N |-> IF n = 0 THEN start ELSE CloneItem(after[n - 1], o, h.items[c][from + n - 1])]
  <2>1. \E k : k = [n \in 0..N |-> IF n = 0 THEN start ELSE CloneItem(k[n - 1], o, h.items[c][from + n - 1])]
    BY <1>5
  <2> QED
    BY <2>1, Zenon DEF after
<1>7. \A n \in 0..N : after[n] = IF n = 0 THEN start ELSE CloneItem(after[n - 1], o, h.items[c][from + n - 1])
  BY <1>6
<1>8. after[0] \in J[0]
  <2>1. 0 \in 0..N
    BY <1>1
  <2>2. after[0] = start
    BY <2>1, <1>7, Zenon
  <2> QED
    BY <2>2, <1>1
<1>9. \A n \in 1..N : after[n - 1] \in J[n - 1] => after[n] \in J[n]
  <2> SUFFICES ASSUME NEW n \in 1..N, after[n - 1] \in J[n - 1] PROVE after[n] \in J[n]
    OBVIOUS
  <2>1. n \in 0..N /\ n # 0 /\ after[n] = CloneItem(after[n - 1], o, h.items[c][from + n - 1])
    BY <1>1, <1>7
  <2>2. turn[n][after[n - 1]] = after[n] /\ turn[n][after[n - 1]] \in J[n]
    BY <1>2, <2>1
  <2> QED
    BY <2>2
<1>10. after[N] \in J[N]
  BY <1>1, <1>8, <1>9, LoopKeeps
<1>11. Cloned(h, o, c, from, to) = after[N]
  BY DEF Cloned, after, N, start
<1> QED
  BY <1>10, <1>11 DEF N

\* The loop of insert_items.
LEMMA ItemsAddedLoop ==
    ASSUME NEW h, NEW t, NEW u, Len(h.items[u]) \in Nat, NEW J, h \in J[0],
           \A n \in 1..Len(h.items[u]) : \A g \in J[n - 1] : AddItem(g, t, u, n) \in J[n]
    PROVE  ItemsAdded(h, t, u) \in J[Len(h.items[u])]
<1> DEFINE N == Len(h.items[u])
           start == h
           turn == [n \in 1..N |-> [g \in J[n - 1] |-> AddItem(g, t, u, n)]]
           after[n \in 0..N] == IF n = 0 THEN start ELSE AddItem(after[n - 1], t, u, n)
<1>1. N \in Nat /\ start \in J[0]
  OBVIOUS
<1>2. \A n \in 1..N : /\ turn[n] \in [J[n - 1] -> J[n]]
                      /\ \A g \in J[n - 1] : turn[n][g] = AddItem(g, t, u, n)
  OBVIOUS
<1> HIDE DEF N, start, turn, after
<1>3. PICK f : IsLoop(f, turn, J, start, N)
  BY <1>1, <1>2, LoopRuns
<1>4. \A n \in 0..N : n # 0 => n \in 1..N /\ n - 1 \in 0..N
  BY <1>1
<1>5. f = [n \in 0..N |-> IF n = 0 THEN start ELSE AddItem(f[n - 1], t, u, n)]
  <2>1. f = [n \in 0..N |-> IF n = 0 THEN start ELSE turn[n][f[n - 1]]]
        /\ \A n \in 0..N : f[n] \in J[n]
    BY <1>3 DEF IsLoop
  <2>2. ASSUME NEW n \in 0..N, n # 0
        PROVE  turn[n][f[n - 1]] = AddItem(f[n - 1], t, u, n)
    BY <1>2, <1>4, <2>1, <2>2
  <2> QED
    BY <2>1, <2>2
<1>6. after = [n \in 0..N |-> IF n = 0 THEN start ELSE AddItem(after[n - 1], t, u, n)]
  <2>1. \E k : k = [n \in 0..N |-> IF n = 0 THEN start ELSE AddItem(k[n - 1], t, u, n)]
    BY <1>5
  <2> QED
    BY <2>1, Zenon DEF after
<1>7. \A n \in 0..N : after[n] = IF n = 0 THEN start ELSE AddItem(after[n - 1], t, u, n)
  BY <1>6
<1>8. after[0] \in J[0]
  <2>1. 0 \in 0..N
    BY <1>1
  <2>2. after[0] = start
    BY <2>1, <1>7, Zenon
  <2> QED
    BY <2>2, <1>1
<1>9. \A n \in 1..N : after[n - 1] \in J[n - 1] => after[n] \in J[n]
  <2> SUFFICES ASSUME NEW n \in 1..N, after[n - 1] \in J[n - 1] PROVE after[n] \in J[n]
    OBVIOUS
  <2>1. n \in 0..N /\ n # 0 /\ after[n] = AddItem(after[n - 1], t, u, n)
    BY <1>1, <1>7
  <2>2. turn[n][after[n - 1]] = after[n] /\ turn[n][after[n - 1]] \in J[n]
    BY <1>2, <2>1
  <2> QED
    BY <2>2
<1>10. after[N] \in J[N]
  BY <1>1, <1>8, <1>9, LoopKeeps
<1>11. ItemsAdded(h, t, u) = after[N]
  BY DEF ItemsAdded, after, N, start
<1> QED
  BY <1>10, <1>11 DEF N

\* The loop of limbo_clean.
LEMMA ReturnedLoop ==
    ASSUME NEW h, NEW limbo, Len(limbo) \in Nat, NEW J, h \in J[0],
           \A n \in 1..Len(limbo) : \A g \in J[n - 1] : Disown[limbo[n]][g] \in J[n]
    PROVE  Returned(h, limbo) \in J[Len(limbo)]
<1> DEFINE N == Len(limbo)
           start == h
           turn == [n \in 1..N |-> [g \in J[n - 1] |-> Disown[limbo[n]][g]]]
           after[n \in 0..N] == IF n = 0 THEN start ELSE Disown[limbo[n]][after[n - 1]]
<1>1. N \in Nat /\ start \in J[0]
  OBVIOUS
<1>2. \A n \in 1..N : /\ turn[n] \in [J[n - 1] -> J[n]]
                      /\ \A g \in J[n - 1] : turn[n][g] = Disown[limbo[n]][g]
  OBVIOUS
<1> HIDE DEF N, start, turn, after
<1>3. PICK f : IsLoop(f, turn, J, start, N)
  BY <1>1, <1>2, LoopRuns
<1>4. \A n \in 0..N : n # 0 => n \in 1..N /\ n - 1 \in 0..N
  BY <1>1
<1>5. f = [n \in 0..N |-> IF n = 0 THEN start ELSE Disown[limbo[n]][f[n - 1]]]
  <2>1. f = [n \in 0..N |-> IF n = 0 THEN start ELSE turn[n][f[n - 1]]]
        /\ \A n \in 0..N : f[n] \in J[n]
    BY <1>3 DEF IsLoop
  <2>2. ASSUME NEW n \in 0..N, n # 0
        PROVE  turn[n][f[n - 1]] = Disown[limbo[n]][f[n - 1]]
    BY <1>2, <1>4, <2>1, <2>2
  <2> QED
    BY <2>1, <2>2
<1>6. after = [n \in 0..N |-> IF n = 0 THEN start ELSE Disown[limbo[n]][after[n - 1]]]
  <2>1. \E k : k = [n \in 0..N |-> IF n = 0 THEN start ELSE Disown[limbo[n]][k[n - 1]]]
    BY <1>5
  <2> QED
    BY <2>1, Zenon DEF after
<1>7. \A n \in 0..N : after[n] = IF n = 0 THEN start ELSE Disown[limbo[n]][after[n - 1]]
  BY <1>6
<1>8. after[0] \in J[0]
  <2>1. 0 \in 0..N
    BY <1>1
  <2>2. after[0] = start
    BY <2>1, <1>7, Zenon
  <2> QED
    BY <2>2, <1>1
<1>9. \A n \in 1..N : after[n - 1] \in J[n - 1] => after[n] \in J[n]
  <2> SUFFICES ASSUME NEW n \in 1..N, after[n - 1] \in J[n - 1] PROVE after[n] \in J[n]
    OBVIOUS
  <2>1. n \in 0..N /\ n # 0 /\ after[n] = Disown[limbo[n]][after[n - 1]]
    BY <1>1, <1>7
  <2>2. turn[n][after[n - 1]] = after[n] /\ turn[n][after[n - 1]] \in J[n]
    BY <1>2, <2>1
  <2> QED
    BY <2>2
<1>10. after[N] \in J[N]
  BY <1>1, <1>8, <1>9, LoopKeeps
<1>11. Returned(h, limbo) = after[N]
  BY DEF Returned, after, N, start
<1> QED
  BY <1>10, <1>11 DEF N

-----------------------------------------------------------------------------
(* Detaching, killing and relocating weak references.                       *)

\* eel_weakref_detach: the value is nil, and no other place is attached to another
\* object than before; only an index may differ.
LEMMA DetachDoes ==
    ASSUME NEW h \in Heap, Wiring(h), RoomForRefs(h),
           NEW p \in Places(h), ValueAt(h, p).kind = "weak"
    PROVE  LET g == Detach(h, p)
           IN  /\ g \in Heap /\ Wiring(g) /\ RoomForRefs(g)
               /\ SameLayout(g, h) /\ SameCounts(g, h) /\ SameBlocks(g, h)
               /\ ValueAt(g, p) = Nil
               /\ \A q \in Places(h) : q # p =>
                    \/ ValueAt(g, q) = ValueAt(h, q)
                    \/ ValueAt(g, q).kind = "weak" /\ ValueAt(h, q).kind = "weak"
                       /\ ValueAt(g, q).o = ValueAt(h, q).o
               /\ \A x \in Objects : h.refs[x] = << >> => g.refs[x] = << >>
<1> DEFINE v == ValueAt(h, p)
           o == v.o
           n == Len(h.refs[o])
           last == h.refs[o][n]
           left == [k \in 1..n - 1 |-> IF k = v.index + 1 THEN last ELSE h.refs[o][k]]
           room == Shrunk(h.room[o], n - 1)
           cut == [h EXCEPT !.refs[o] = left, !.room[o] = room]
           g1 == Put(cut, last, Weak(o, v.index))
           g == Put(g1, p, Nil)
<1>0. Detach(h, p) = g
  BY DEF Detach
<1>a. v \in Value /\ o \in Objects /\ v.index \in Nat /\ v = Weak(o, v.index)
  BY PlacesAre, ValueFacts
<1>b. v.index + 1 \in 1..n /\ h.refs[o][v.index + 1] = p
  BY DEF Wiring
<1> HIDE DEF o
<1>1. /\ n \in Nat /\ n >= 1 /\ h.refs[o] \in Seq(Place) /\ h.room[o] \in Nat /\ n <= h.room[o]
      /\ h.refs \in [Objects -> Seq(Place)] /\ h.room \in [Objects -> Nat]
  BY <1>a, <1>b, HeapFields DEF RoomForRefs
<1>2. /\ \A k \in 1..n : h.refs[o][k] \in Places(h) /\ ValueAt(h, h.refs[o][k]) = Weak(o, k - 1)
      /\ last \in Places(h) /\ ValueAt(h, last) = Weak(o, n - 1)
  BY <1>a, <1>1 DEF Wiring
<1> HIDE DEF n
<1>3. /\ left \in Seq(Place) /\ Len(left) = n - 1
      /\ \A k \in 1..n - 1 : left[k] = IF k = v.index + 1 THEN last ELSE h.refs[o][k]
  <2>1. \A k \in 1..n : h.refs[o][k] \in Place
    BY <1>2, PlacesAre
  <2> HIDE DEF v
  <2>2. \A k \in 1..n - 1 : left[k] \in Place
    BY <2>1, <1>1
  <2>3. left \in [1..n - 1 -> Place] /\ n - 1 \in Nat
    BY <2>2, <1>1
  <2> QED
    BY <2>3
<1>4. room \in Nat /\ n - 1 <= room
  <2>1. RefsBase \in Nat \ {0}
    BY BasesAre
  <2> QED
    BY <1>1, <2>1 DEF Shrunk
<1> HIDE DEF last, left, room, cut, v
<1>5. /\ cut \in Heap /\ cut.items = h.items /\ cut.static = h.static /\ cut.size = h.size
      /\ SameCounts(cut, h) /\ SameBlocks(cut, h)
  BY <1>3, <1>4, <1>a DEF Heap, SameCounts, SameBlocks, cut
<1>6. /\ \A x \in Objects : cut.refs[x] = IF x = o THEN left ELSE h.refs[x]
      /\ \A x \in Objects : cut.room[x] = IF x = o THEN room ELSE h.room[x]
  BY <1>1 DEF Heap, cut
<1>7. SameLayout(cut, h) /\ \A q : ValueAt(cut, q) = ValueAt(h, q)
  BY <1>5, LayoutFrom DEF ValueAt
<1>8. last \in Places(cut) /\ Weak(o, v.index) \in Value
  BY <1>7, <1>2, <1>a, ValueFacts DEF SameLayout
<1>9. /\ g1 \in Heap
      /\ SameLayout(g1, cut) /\ SameCounts(g1, cut) /\ SameBlocks(g1, cut) /\ SameRefs(g1, cut)
      /\ \A q \in Places(cut) : ValueAt(g1, q) = IF q = last THEN Weak(o, v.index) ELSE ValueAt(cut, q)
  BY <1>5, <1>8, PutDoes
<1> HIDE DEF g1
<1>10. p \in Places(g1) /\ Nil \in Value
  BY <1>7, <1>9, ValueFacts DEF SameLayout
<1>11. /\ g \in Heap
      /\ SameLayout(g, g1) /\ SameCounts(g, g1) /\ SameBlocks(g, g1) /\ SameRefs(g, g1)
      /\ \A q \in Places(g1) : ValueAt(g, q) = IF q = p THEN Nil ELSE ValueAt(g1, q)
  BY <1>9, <1>10, PutDoes
<1> HIDE DEF g
<1>12. SameLayout(g, h) /\ SameCounts(g, h) /\ SameBlocks(g, h)
  BY <1>5, <1>7, <1>9, <1>11 DEF SameLayout, SameCounts, SameBlocks
<1>13. Places(g) = Places(h)
  BY <1>12 DEF SameLayout
<1>14. \A q \in Places(h) : ValueAt(g, q) =
          IF q = p THEN Nil ELSE IF q = last THEN Weak(o, v.index) ELSE ValueAt(h, q)
  BY <1>7, <1>9, <1>11 DEF SameLayout
<1>15. \A x \in Objects : g.refs[x] = (IF x = o THEN left ELSE h.refs[x])
                          /\ g.room[x] = IF x = o THEN room ELSE h.room[x]
  BY <1>6, <1>9, <1>11 DEF SameRefs
<1>16. RoomForRefs(g)
  BY <1>15, <1>3, <1>4 DEF RoomForRefs
<1>17. ASSUME NEW x \in Objects, NEW k \in 1..Len(g.refs[x])
       PROVE  g.refs[x][k] \in Places(g) /\ ValueAt(g, g.refs[x][k]) = Weak(x, k - 1)
  <2>1. CASE x = o
    <3>1. k \in 1..n - 1 /\ k \in 1..n /\ k - 1 \in Nat /\ n - 1 \in Nat /\ g.refs[x] = left
      BY <2>1, <1>15, <1>3, <1>1
    <3>2. CASE k = v.index + 1
      <4>1. g.refs[x][k] = last /\ k - 1 = v.index
        BY <3>1, <3>2, <1>3, <1>a
      <4>2. last # p
        <5>1. Weak(o, n - 1) # Weak(o, v.index)
          BY <3>1, <3>2, <1>a, ValueFacts
        <5> QED
          BY <5>1, <1>2, <1>a DEF v
      <4> QED
        BY <4>1, <4>2, <1>2, <1>13, <1>14, <2>1
    <3>3. CASE k # v.index + 1
      <4> DEFINE r == h.refs[o][k]
      <4>1. g.refs[x][k] = r /\ r \in Places(h) /\ ValueAt(h, r) = Weak(o, k - 1)
        BY <3>1, <3>3, <1>3, <1>2
      <4>2. Weak(o, k - 1) # Weak(o, v.index) /\ Weak(o, k - 1) # Weak(o, n - 1)
        BY <3>1, <3>3, <1>a, ValueFacts
      <4>3. r # p /\ r # last
        BY <4>1, <4>2, <1>2, <1>a DEF v
      <4> QED
        BY <4>1, <4>3, <1>13, <1>14, <2>1
    <3> QED
      BY <3>2, <3>3
  <2>2. CASE x # o
    <3> DEFINE r == h.refs[x][k]
    <3>1. g.refs[x][k] = r /\ k \in 1..Len(h.refs[x])
      BY <2>2, <1>15
    <3>2. r \in Places(h) /\ ValueAt(h, r) = Weak(x, k - 1) /\ k - 1 \in Nat
      BY <3>1, HeapFields DEF Wiring
    <3>3. Weak(x, k - 1) # Weak(o, v.index) /\ Weak(x, k - 1) # Weak(o, n - 1)
      BY <3>2, <2>2, <1>1, <1>a, ValueFacts
    <3>4. r # p /\ r # last
      BY <3>2, <3>3, <1>2, <1>a DEF v
    <3> QED
      BY <3>1, <3>2, <3>4, <1>13, <1>14
  <2> QED
    BY <2>1, <2>2
<1>18. ASSUME NEW q \in Places(g), ValueAt(g, q).kind = "weak"
       PROVE  LET w == ValueAt(g, q)
              IN  w.index + 1 \in 1..Len(g.refs[w.o]) /\ g.refs[w.o][w.index + 1] = q
  <2>1. q # p /\ q \in Places(h)
    BY <1>13, <1>14, <1>18, ValueFacts
  <2>2. CASE q = last
    <3>1. ValueAt(g, q) = Weak(o, v.index) /\ Weak(o, v.index).o = o /\ Weak(o, v.index).index = v.index
      BY <2>1, <2>2, <1>14, <1>a, ValueFacts
    <3>2. v.index + 1 # n
      BY <2>1, <2>2, <1>b DEF n, last
    <3>3. v.index + 1 \in 1..n - 1
      BY <3>2, <1>b, <1>1, <1>a DEF n
    <3>4. left[v.index + 1] = last /\ g.refs[o] = left
      BY <3>3, <1>3, <1>15, <1>a
    <3> QED
      BY <3>1, <3>3, <3>4, <1>3, <2>2
  <2>3. CASE q # last
    <3> DEFINE w == ValueAt(h, q)
    <3>1. ValueAt(g, q) = w /\ w.kind = "weak" /\ w \in Value
      BY <2>1, <2>3, <1>14, <1>18, PlacesAre
    <3>2. w.index + 1 \in 1..Len(h.refs[w.o]) /\ h.refs[w.o][w.index + 1] = q
      BY <3>1, <2>1 DEF Wiring
    <3>3. w.o \in Objects /\ w.index \in Nat
      BY <3>1, ValueFacts
    <3> HIDE DEF w
    <3>4. CASE w.o = o
      <4>1. w.index + 1 # n /\ w.index + 1 # v.index + 1
        BY <3>2, <3>4, <2>1, <2>3, <1>b DEF last
      <4>2. w.index + 1 \in 1..n - 1
        BY <4>1, <3>2, <3>3, <3>4, <1>1 DEF n
      <4>3. left[w.index + 1] = h.refs[o][w.index + 1] /\ g.refs[o] = left
        BY <4>1, <4>2, <1>3, <1>15, <1>a
      <4> QED
        BY <4>2, <4>3, <3>1, <3>2, <3>4, <1>3
    <3>5. CASE w.o # o
      BY <3>5, <3>1, <3>2, <3>3, <1>15
    <3> QED
      BY <3>4, <3>5
  <2> QED
    BY <2>2, <2>3
<1>19. Wiring(g)
  BY <1>17, <1>18 DEF Wiring
<1>20. ASSUME NEW q \in Places(h), q # p
       PROVE  \/ ValueAt(g, q) = ValueAt(h, q)
              \/ ValueAt(g, q).kind = "weak" /\ ValueAt(h, q).kind = "weak"
                       /\ ValueAt(g, q).o = ValueAt(h, q).o
  <2>1. /\ Weak(o, v.index).kind = "weak" /\ Weak(o, v.index).o = o
        /\ Weak(o, n - 1).kind = "weak" /\ Weak(o, n - 1).o = o
    BY <1>1, <1>a, ValueFacts
  <2> QED
    BY <2>1, <1>2, <1>14, <1>20
<1>21. \A x \in Objects : h.refs[x] = << >> => g.refs[x] = << >>
  <2>1. h.refs[o] # << >>
    BY <1>1 DEF n
  <2> QED
    BY <2>1, <1>15
<1> QED
  BY <1>0, <1>11, <1>12, <1>14, <1>16, <1>19, <1>20, <1>21

\* eel_kill_weakrefs: all weak references to the object are nil, and only these.
LEMMA KillDoes ==
    ASSUME NEW h \in Heap, Wiring(h), RoomForRefs(h), NEW o \in Objects
    PROVE  LET g == KillWeakrefs(h, o)
           IN  /\ g \in Heap /\ Wiring(g) /\ RoomForRefs(g)
               /\ SameLayout(g, h) /\ SameCounts(g, h) /\ SameBlocks(g, h)
               /\ \A q \in Places(h) : ValueAt(g, q) =
                    IF ValueAt(h, q).kind = "weak" /\ ValueAt(h, q).o = o THEN Nil ELSE ValueAt(h, q)
               /\ \A x \in Objects : g.refs[x] = IF x = o THEN << >> ELSE h.refs[x]
<1> DEFINE n == Len(h.refs[o])
           J == [k \in 0..n |-> {g \in Heap :
                    /\ SameLayout(g, h) /\ SameCounts(g, h) /\ SameBlocks(g, h) /\ SameRefs(g, h)
                    /\ \A q \in Places(h) : ValueAt(g, q) =
                        IF \E j \in 1..k : h.refs[o][j] = q THEN Nil ELSE ValueAt(h, q)}]
           after[k \in 0..n] == IF k = 0 THEN h ELSE Put(after[k - 1], h.refs[o][k], Nil)
           f == after[n]
           g == [f EXCEPT !.refs[o] = << >>, !.room[o] = 0]
<1>0. KillWeakrefs(h, o) = g
  BY DEF KillWeakrefs
<1>1. n \in Nat
  BY HeapFields
<1>2. \A k \in 0..n : \A x : x \in J[k] <=>
        /\ x \in Heap
        /\ SameLayout(x, h) /\ SameCounts(x, h) /\ SameBlocks(x, h) /\ SameRefs(x, h)
        /\ \A q \in Places(h) : ValueAt(x, q) =
              IF \E j \in 1..k : h.refs[o][j] = q THEN Nil ELSE ValueAt(h, q)
  OBVIOUS
<1> HIDE DEF J
<1>3. h \in J[0]
  <2>1. 0 \in 0..n
    BY <1>1
  <2> QED
    BY <1>2, <2>1 DEF SameLayout, SameCounts, SameBlocks, SameRefs
<1>4. ASSUME NEW k \in 1..n, NEW x \in J[k - 1]
      PROVE  Put(x, h.refs[o][k], Nil) \in J[k]
  <2> DEFINE p == h.refs[o][k]
             y == Put(x, p, Nil)
  <2>1. k \in 0..n /\ k - 1 \in 0..n
    BY <1>1
  <2>2. /\ x \in Heap
        /\ SameLayout(x, h) /\ SameCounts(x, h) /\ SameBlocks(x, h) /\ SameRefs(x, h)
        /\ \A q \in Places(h) : ValueAt(x, q) =
              IF \E j \in 1..k - 1 : h.refs[o][j] = q THEN Nil ELSE ValueAt(h, q)
    BY <1>2, <2>1
  <2>3. p \in Places(h) /\ p \in Places(x)
    BY <2>2 DEF Wiring, SameLayout
  <2>4. /\ y \in Heap
        /\ SameLayout(y, x) /\ SameCounts(y, x) /\ SameBlocks(y, x) /\ SameRefs(y, x)
        /\ \A q \in Places(x) : ValueAt(y, q) = IF q = p THEN Nil ELSE ValueAt(x, q)
    BY <2>2, <2>3, PutDoes, ValueFacts
  <2> HIDE DEF y
  <2>5. SameLayout(y, h) /\ SameCounts(y, h) /\ SameBlocks(y, h) /\ SameRefs(y, h)
    BY <2>2, <2>4 DEF SameLayout, SameCounts, SameBlocks, SameRefs
  <2>6. ASSUME NEW q \in Places(h)
        PROVE  ValueAt(y, q) = IF \E j \in 1..k : h.refs[o][j] = q THEN Nil ELSE ValueAt(h, q)
    <3>1. ValueAt(y, q) = IF q = p THEN Nil ELSE ValueAt(x, q)
      BY <2>2, <2>4 DEF SameLayout
    <3>2. (\E j \in 1..k : h.refs[o][j] = q) <=> (q = p \/ \E j \in 1..k - 1 : h.refs[o][j] = q)
      <4>1. \A j \in 1..k : j = k \/ j \in 1..k - 1
        BY <1>1
      <4>2. k \in 1..k /\ \A j \in 1..k - 1 : j \in 1..k
        BY <1>1
      <4> QED
        BY <4>1, <4>2
    <3> QED
      BY <3>1, <3>2, <2>2
  <2> QED
    BY <1>2, <2>1, <2>4, <2>5, <2>6 DEF y
<1>5. f \in J[n]
  BY <1>1, <1>3, <1>4, KillLoop
<1> HIDE DEF f, after
<1>6. /\ f \in Heap
      /\ SameLayout(f, h) /\ SameCounts(f, h) /\ SameBlocks(f, h) /\ SameRefs(f, h)
      /\ \A q \in Places(h) : ValueAt(f, q) =
              IF \E j \in 1..n : h.refs[o][j] = q THEN Nil ELSE ValueAt(h, q)
  BY <1>1, <1>2, <1>5
<1>7. << >> \in Seq(Place) /\ Len(<< >>) = 0
  OBVIOUS
<1>8. /\ g \in Heap /\ g.items = f.items /\ g.static = f.static /\ g.size = f.size
      /\ SameCounts(g, f) /\ SameBlocks(g, f)
  BY <1>6, <1>7 DEF Heap, SameCounts, SameBlocks
<1>9. /\ \A x \in Objects : g.refs[x] = IF x = o THEN << >> ELSE h.refs[x]
      /\ \A x \in Objects : g.room[x] = IF x = o THEN 0 ELSE h.room[x]
  <2>1. f.refs \in [Objects -> Seq(Place)] /\ f.room \in [Objects -> Nat]
    BY <1>6, HeapFields
  <2>2. \A x \in Objects : g.refs[x] = (IF x = o THEN << >> ELSE f.refs[x])
                           /\ g.room[x] = IF x = o THEN 0 ELSE f.room[x]
    BY <2>1, <1>6 DEF Heap
  <2> QED
    BY <2>2, <1>6 DEF SameRefs
<1> HIDE DEF g
<1>10. SameLayout(g, f) /\ \A q : ValueAt(g, q) = ValueAt(f, q)
  BY <1>6, <1>8, LayoutFrom DEF ValueAt
<1>11. SameLayout(g, h) /\ SameCounts(g, h) /\ SameBlocks(g, h)
  BY <1>6, <1>8, <1>10 DEF SameLayout, SameCounts, SameBlocks
<1>12. ASSUME NEW q \in Places(h)
       PROVE  (\E j \in 1..n : h.refs[o][j] = q)
                <=> ValueAt(h, q).kind = "weak" /\ ValueAt(h, q).o = o
  <2>1. ASSUME NEW j \in 1..n, h.refs[o][j] = q
        PROVE  ValueAt(h, q).kind = "weak" /\ ValueAt(h, q).o = o
    <3>1. ValueAt(h, q) = Weak(o, j - 1)
      BY <2>1 DEF Wiring
    <3>2. j - 1 \in Nat
      BY <1>1
    <3> QED
      BY <3>1, <3>2, ValueFacts
  <2>2. ASSUME ValueAt(h, q).kind = "weak", ValueAt(h, q).o = o
        PROVE  \E j \in 1..n : h.refs[o][j] = q
    <3>1. ValueAt(h, q).index + 1 \in 1..Len(h.refs[o]) /\ h.refs[o][ValueAt(h, q).index + 1] = q
      BY <2>2 DEF Wiring
    <3> QED
      BY <3>1
  <2> QED
    BY <2>1, <2>2
<1>13. \A q \in Places(h) : ValueAt(g, q) =
                    IF ValueAt(h, q).kind = "weak" /\ ValueAt(h, q).o = o THEN Nil ELSE ValueAt(h, q)
  BY <1>6, <1>10, <1>12
<1>14. Places(g) = Places(h)
  BY <1>11 DEF SameLayout
<1>15. RoomForRefs(g)
  BY <1>9, <1>7 DEF RoomForRefs
<1>16. ASSUME NEW x \in Objects, NEW k \in 1..Len(g.refs[x])
       PROVE  g.refs[x][k] \in Places(g) /\ ValueAt(g, g.refs[x][k]) = Weak(x, k - 1)
  <2>1. x # o
    BY <1>7, <1>9
  <2>2. k \in 1..Len(h.refs[x]) /\ g.refs[x][k] = h.refs[x][k]
    BY <2>1, <1>9
  <2>3. h.refs[x][k] \in Places(h) /\ ValueAt(h, h.refs[x][k]) = Weak(x, k - 1)
    BY <2>2 DEF Wiring
  <2>4. k - 1 \in Nat
    BY <2>2, HeapFields
  <2>5. Weak(x, k - 1).o = x
    BY <2>4, ValueFacts
  <2> QED
    BY <2>1, <2>2, <2>3, <2>5, <1>13, <1>14
<1>17. ASSUME NEW q \in Places(g), ValueAt(g, q).kind = "weak"
       PROVE  LET w == ValueAt(g, q)
              IN  w.index + 1 \in 1..Len(g.refs[w.o]) /\ g.refs[w.o][w.index + 1] = q
  <2>1. q \in Places(h) /\ ValueAt(g, q) = ValueAt(h, q) /\ ValueAt(h, q).o # o
    BY <1>13, <1>14, <1>17, ValueFacts
  <2>2. ValueAt(h, q) \in Value
    BY <2>1, PlacesAre
  <2>3. ValueAt(h, q).o \in Objects
    BY <2>1, <2>2, <1>17, ValueFacts
  <2>4. g.refs[ValueAt(h, q).o] = h.refs[ValueAt(h, q).o]
    BY <2>1, <2>3, <1>9
  <2> QED
    BY <2>1, <2>4, <1>17 DEF Wiring
<1>18. Wiring(g)
  BY <1>16, <1>17 DEF Wiring
<1> QED
  BY <1>0, <1>8, <1>9, <1>11, <1>13, <1>15, <1>18

\* eel_weakref_relocate, for items of c that have been moved about: the vectors
\* are right if no weak reference has been lost, made or doubled.
LEMMA RelocatedDoes ==
    ASSUME NEW h \in Heap, Wiring(h), RoomForRefs(h), NEW g0 \in Heap, NEW c \in Objects,
           g0.static = h.static, g0.room = h.room,
           \A d \in Objects : d # c => g0.items[d] = h.items[d],
           \A o \in Objects : Len(g0.refs[o]) = Len(h.refs[o]),
           \A o \in Objects : \A k \in 1..Len(h.refs[o]) :
              (\A i \in 1..Len(h.items[c]) : h.refs[o][k] # <<c, i>>)
              => g0.refs[o][k] = h.refs[o][k],
           \A j \in 1..Len(g0.items[c]) : g0.items[c][j].value.kind = "weak" =>
              \E i \in 1..Len(h.items[c]) : h.items[c][i].value = g0.items[c][j].value,
           \A i \in 1..Len(h.items[c]) : h.items[c][i].value.kind = "weak" =>
              \E j \in 1..Len(g0.items[c]) : h.items[c][i].value = g0.items[c][j].value,
           \A j, l \in 1..Len(g0.items[c]) :
              g0.items[c][j].value.kind = "weak" /\ g0.items[c][j].value = g0.items[c][l].value
              => j = l
    PROVE  LET g == Relocated(g0, c)
           IN  /\ g \in Heap /\ Wiring(g) /\ RoomForRefs(g)
               /\ g.static = g0.static /\ g.items = g0.items /\ g.size = g0.size /\ g.room = g0.room
               /\ SameCounts(g, g0) /\ SameBlocks(g, g0)
               /\ \A o \in Objects : Len(g.refs[o]) = Len(h.refs[o])
<1> DEFINE Has(i, o, k) == g0.items[c][i].value = Weak(o, k - 1)
           Now(o, k) == IF \E i \in DOMAIN g0.items[c] : Has(i, o, k)
                        THEN <<c, CHOOSE i \in DOMAIN g0.items[c] : Has(i, o, k)>>
                        ELSE g0.refs[o][k]
           refs == [o \in Objects |-> [k \in DOMAIN g0.refs[o] |-> Now(o, k)]]
           g == [g0 EXCEPT !.refs = refs]
<1>a. /\ \A o \in Objects : DOMAIN g0.refs[o] = 1..Len(g0.refs[o]) /\ Len(g0.refs[o]) \in Nat
                            /\ g0.refs[o] \in Seq(Place)
      /\ \A d \in Objects : DOMAIN g0.items[d] = 1..Len(g0.items[d]) /\ Len(g0.items[d]) \in Nat
      /\ g0.refs \in [Objects -> Seq(Place)]
  BY HeapFields
<1>0. Relocated(g0, c) = g
  BY DEF Relocated
<1>1. ASSUME NEW o \in Objects, NEW k \in 1..Len(g0.refs[o])
      PROVE  /\ Now(o, k) \in Place
             /\ (\E i \in 1..Len(g0.items[c]) : Has(i, o, k)) =>
                    \E i \in 1..Len(g0.items[c]) : Has(i, o, k) /\ Now(o, k) = <<c, i>>
             /\ ~(\E i \in 1..Len(g0.items[c]) : Has(i, o, k)) => Now(o, k) = g0.refs[o][k]
  <2>1. CASE \E i \in 1..Len(g0.items[c]) : Has(i, o, k)
    <3> DEFINE at == CHOOSE x \in DOMAIN g0.items[c] : Has(x, o, k)
    <3>0. \E i \in DOMAIN g0.items[c] : Has(i, o, k)
      BY <2>1, <1>a
    <3>1. at \in 1..Len(g0.items[c]) /\ Has(at, o, k)
      BY <3>0, <1>a
    <3>2. Now(o, k) = <<c, at>>
      BY <3>0
    <3> HIDE DEF at, Now
    <3>3. <<c, at>> \in Place
      BY <3>1, <1>a DEF Place
    <3> QED
      BY <3>1, <3>2, <3>3, <2>1
  <2>2. CASE ~\E i \in 1..Len(g0.items[c]) : Has(i, o, k)
    <3>1. g0.refs[o][k] \in Place
      BY <1>a
    <3>2. ~\E i \in DOMAIN g0.items[c] : Has(i, o, k)
      BY <2>2, <1>a
    <3> QED
      BY <2>2, <3>1, <3>2
  <2> QED
    BY <2>1, <2>2
<1> HIDE DEF Now
<1>2. /\ refs \in [Objects -> Seq(Place)]
      /\ \A o \in Objects : /\ refs[o] = [k \in 1..Len(g0.refs[o]) |-> Now(o, k)]
                            /\ Len(refs[o]) = Len(g0.refs[o])
                            /\ \A k \in 1..Len(g0.refs[o]) : refs[o][k] = Now(o, k)
  <2>1. ASSUME NEW o \in Objects
        PROVE  /\ refs[o] = [k \in 1..Len(g0.refs[o]) |-> Now(o, k)]
               /\ refs[o] \in Seq(Place) /\ Len(refs[o]) = Len(g0.refs[o])
    <3>1. refs[o] = [k \in 1..Len(g0.refs[o]) |-> Now(o, k)]
      BY <1>a
    <3>2. refs[o] \in [1..Len(g0.refs[o]) -> Place]
      BY <3>1, <1>1
    <3>3. Len(g0.refs[o]) \in Nat
      BY <1>a
    <3> HIDE DEF refs
    <3> QED
      BY <3>1, <3>2, <3>3
  <2> QED
    BY <2>1
<1> HIDE DEF refs
<1>3. /\ g \in Heap /\ g.static = g0.static /\ g.items = g0.items /\ g.size = g0.size
      /\ g.room = g0.room /\ g.refs = refs
      /\ SameCounts(g, g0) /\ SameBlocks(g, g0)
  BY <1>2 DEF Heap, SameCounts, SameBlocks
<1> HIDE DEF g
<1>4. \A o \in Objects : Len(g.refs[o]) = Len(h.refs[o])
  BY <1>2, <1>3
<1>5. RoomForRefs(g)
  BY <1>3, <1>4 DEF RoomForRefs
<1>b. g.items = g0.items /\ g.static = h.static
  BY <1>3
\* Places that are not in c, and their values, are what they were.
<1>6. ASSUME NEW q, \A i : q # <<c, i>>
      PROVE  /\ q \in Places(g) <=> q \in Places(h)
             /\ q \in Places(h) => ValueAt(g, q) = ValueAt(h, q)
  <2>1. ASSUME NEW k1 \in Heap, NEW k2 \in Heap, k1.static = k2.static,
               \A d \in Objects : d # c => k1.items[d] = k2.items[d], q \in Places(k2)
        PROVE  q \in Places(k1) /\ ValueAt(k1, q) = ValueAt(k2, q)
    <3>1. CASE \E s \in Statics : q = <<s>> /\ Len(q) = 1
      <4>1. PICK s \in Statics : q = <<s>> /\ Len(q) = 1
        BY <3>1
      <4> QED
        BY <4>1, <2>1, PlacesAre
    <3>2. CASE \E d \in Objects : \E i \in 1..Len(k2.items[d]) : q = <<d, i>> /\ Len(q) = 2
      <4>1. PICK d \in Objects : \E i \in 1..Len(k2.items[d]) : q = <<d, i>> /\ Len(q) = 2
        BY <3>2
      <4>2. PICK i \in 1..Len(k2.items[d]) : q = <<d, i>>
        BY <4>1
      <4>3. k1.items[d] = k2.items[d]
        BY <4>2, <1>6, <2>1
      <4>4. /\ <<d, i>> \in Places(k1) /\ ValueAt(k1, <<d, i>>) = k1.items[d][i].value
            /\ ValueAt(k2, <<d, i>>) = k2.items[d][i].value
        BY <4>3, <4>1, <4>2, PlacesAre
      <4> QED
        BY <4>2, <4>3, <4>4
    <3>3. \/ \E s \in Statics : q = <<s>> /\ Len(q) = 1
          \/ \E d \in Objects : \E i \in 1..Len(k2.items[d]) : q = <<d, i>> /\ Len(q) = 2
      BY <2>1, PlacesAre
    <3> QED
      BY <3>1, <3>2, <3>3
  <2>2. \A d \in Objects : d # c => g.items[d] = h.items[d]
    BY <1>b
  <2> QED
    BY <2>1, <2>2, <1>b, <1>3
<1>7. ASSUME NEW x \in Objects, NEW k \in 1..Len(h.refs[x])
      PROVE  g.refs[x][k] \in Places(g) /\ ValueAt(g, g.refs[x][k]) = Weak(x, k - 1)
  <2> DEFINE r == h.refs[x][k]
  <2>1. r \in Places(h) /\ ValueAt(h, r) = Weak(x, k - 1)
    BY DEF Wiring
  <2>2. k - 1 \in Nat /\ k \in 1..Len(g0.refs[x])
    BY HeapFields
  <2>3. g.refs[x][k] = Now(x, k)
    BY <1>2, <1>3, <2>2
  <2>4. CASE \E i \in 1..Len(g0.items[c]) : Has(i, x, k)
    <3>1. PICK i \in 1..Len(g0.items[c]) : Has(i, x, k) /\ Now(x, k) = <<c, i>>
      BY <2>2, <2>4, <1>1
    <3>2. i \in 1..Len(g.items[c]) /\ g.items[c][i].value = Weak(x, k - 1)
      BY <3>1, <1>b
    <3>3. <<c, i>> \in Places(g) /\ ValueAt(g, <<c, i>>) = Weak(x, k - 1)
      BY <3>2, <1>3, PlacesAre
    <3> QED
      BY <3>1, <3>3, <2>3
  <2>5. CASE ~\E i \in 1..Len(g0.items[c]) : Has(i, x, k)
    <3>1. Now(x, k) = g0.refs[x][k]
      BY <2>2, <2>5, <1>1
    <3>2. \A i : r # <<c, i>>
      <4>1. SUFFICES ASSUME NEW i, r = <<c, i>> PROVE FALSE
        OBVIOUS
      <4>2. i \in 1..Len(h.items[c]) /\ ValueAt(h, <<c, i>>) = h.items[c][i].value
        BY <4>1, <2>1, PlacesAre
      <4>3. h.items[c][i].value = Weak(x, k - 1) /\ Weak(x, k - 1).kind = "weak"
        BY <4>1, <4>2, <2>1, <2>2, ValueFacts
      <4>4. \E j \in 1..Len(g0.items[c]) : h.items[c][i].value = g0.items[c][j].value
        BY <4>2, <4>3
      <4> QED
        BY <4>3, <4>4, <2>5
    <3>3. g0.refs[x][k] = r
      BY <3>2
    <3> QED
      BY <3>1, <3>2, <3>3, <2>1, <2>3, <1>6
  <2> QED
    BY <2>4, <2>5
<1>8. ASSUME NEW q \in Places(g), ValueAt(g, q).kind = "weak"
      PROVE  LET w == ValueAt(g, q)
             IN  w.index + 1 \in 1..Len(g.refs[w.o]) /\ g.refs[w.o][w.index + 1] = q
  <2> DEFINE w == ValueAt(g, q)
  <2>1. w \in Value
    BY <1>3, PlacesAre
  <2>2. w.o \in Objects /\ w.index \in Nat /\ w = Weak(w.o, w.index)
    BY <2>1, <1>8, ValueFacts
  <2>3. (w.index + 1) - 1 = w.index
    BY <2>2
  <2>4. CASE \E i : q = <<c, i>>
    <3>1. PICK i : q = <<c, i>>
      BY <2>4
    <3>2. i \in 1..Len(g.items[c]) /\ ValueAt(g, <<c, i>>) = g.items[c][i].value
      BY <3>1, <1>3, PlacesAre
    <3>3. i \in 1..Len(g0.items[c]) /\ g0.items[c][i].value = w
      BY <3>1, <3>2, <1>b
    <3>4. PICK l \in 1..Len(h.items[c]) : h.items[c][l].value = w
      BY <3>3, <1>8
    <3>5. <<c, l>> \in Places(h) /\ ValueAt(h, <<c, l>>) = w
      BY <3>4, PlacesAre
    <3> HIDE DEF w
    <3>6. w.index + 1 \in 1..Len(h.refs[w.o])
      BY <3>5, <1>8 DEF Wiring, w
    <3>7. Has(i, w.o, w.index + 1)
      BY <3>3, <2>2, <2>3
    <3>8. w.index + 1 \in 1..Len(g0.refs[w.o])
      BY <3>6, <2>2
    <3>9. PICK j \in 1..Len(g0.items[c]) :
              Has(j, w.o, w.index + 1) /\ Now(w.o, w.index + 1) = <<c, j>>
      BY <3>3, <3>7, <3>8, <2>2, <1>1
    <3>10. g0.items[c][j].value = w
      BY <3>9, <2>2, <2>3
    <3>11. j = i
      BY <3>3, <3>10, <1>8 DEF w
    <3>12. g.refs[w.o][w.index + 1] = q
      BY <3>1, <3>8, <3>9, <3>11, <2>2, <1>2, <1>3
    <3> QED
      BY <3>6, <3>12, <2>2, <1>4 DEF w
  <2>5. CASE ~\E i : q = <<c, i>>
    <3>1. q \in Places(h) /\ ValueAt(h, q) = w
      BY <2>5, <1>6
    <3> HIDE DEF w
    <3>2. w.index + 1 \in 1..Len(h.refs[w.o]) /\ h.refs[w.o][w.index + 1] = q
      BY <3>1, <1>8 DEF Wiring, w
    <3>3. w.index + 1 \in 1..Len(g0.refs[w.o])
      BY <3>2, <2>2
    <3>4. ~\E i \in 1..Len(g0.items[c]) : Has(i, w.o, w.index + 1)
      <4>1. SUFFICES ASSUME NEW i \in 1..Len(g0.items[c]), Has(i, w.o, w.index + 1) PROVE FALSE
        OBVIOUS
      <4>2. g0.items[c][i].value = w
        BY <4>1, <2>2, <2>3
      <4>3. PICK l \in 1..Len(h.items[c]) : h.items[c][l].value = w
        BY <4>2, <1>8 DEF w
      <4>4. <<c, l>> \in Places(h) /\ ValueAt(h, <<c, l>>) = w
        BY <4>3, PlacesAre
      <4>5. h.refs[w.o][w.index + 1] = <<c, l>>
        BY <4>4, <1>8 DEF Wiring, w
      <4> QED
        BY <4>5, <3>2, <2>5
    <3>5. Now(w.o, w.index + 1) = g0.refs[w.o][w.index + 1]
      BY <3>3, <3>4, <2>2, <1>1
    <3>6. g0.refs[w.o][w.index + 1] = h.refs[w.o][w.index + 1]
      <4>1. \A i \in 1..Len(h.items[c]) : q # <<c, i>>
        BY <2>5
      <4> DEFINE k == w.index + 1
                 x == w.o
      <4>2. x \in Objects /\ k \in 1..Len(h.refs[x]) /\ h.refs[x][k] = q
        BY <3>2, <2>2
      <4> HIDE DEF k, x
      <4>3. g0.refs[x][k] = h.refs[x][k]
        BY <4>1, <4>2
      <4> QED
        BY <4>3 DEF k, x
    <3>7. g.refs[w.o][w.index + 1] = q
      BY <3>2, <3>3, <3>5, <3>6, <2>2, <1>2, <1>3
    <3> QED
      BY <3>2, <3>7, <2>2, <1>4 DEF w
  <2> QED
    BY <2>4, <2>5
<1>9. Wiring(g)
  BY <1>4, <1>7, <1>8 DEF Wiring
<1> QED
  BY <1>0, <1>3, <1>4, <1>5, <1>9

-----------------------------------------------------------------------------
(* Blocks of items that become longer or shorter.                           *)

\* a_setsize and t_setsize: the items are moved as a whole, and the weak references
\* among them are told so.
LEMMA ResizedDoes ==
    ASSUME NEW h \in Heap, Wiring(h), RoomForRefs(h), NEW c \in Objects, NEW length \in Nat
    PROVE  LET g == Resized(h, c, length)
           IN  /\ g \in Heap /\ Wiring(g) /\ RoomForRefs(g)
               /\ g.static = h.static /\ g.items = h.items /\ g.room = h.room
               /\ SameCounts(g, h) /\ SameBlocks(g, h)
               /\ g.size[c] >= length
               /\ \A d \in Objects : d # c => g.size[d] = h.size[d]
               /\ \A o \in Objects : Len(g.refs[o]) = Len(h.refs[o])
<1> DEFINE size == CalcResize(Base(c), h.size[c], length)
           f == [h EXCEPT !.size[c] = size]
           Lost(p) == IF Len(p) = 2 /\ p[1] = c THEN Nowhere ELSE p
           refs == [o \in Objects |-> [k \in DOMAIN f.refs[o] |-> Lost(f.refs[o][k])]]
           m == [f EXCEPT !.refs = refs]
           g == Relocated(m, c)
<1>0. Resized(h, c, length) = IF size = h.size[c] THEN f ELSE g
  BY DEF Resized, Moved
<1>1. size \in Nat /\ size >= length
  <2>1. Base(c) \in Nat \ {0} /\ h.size[c] \in Nat
    BY BasesAre, HeapFields DEF Base
  <2> QED
    BY <2>1, CalcResizeDoes
<1>a. /\ h.size \in [Objects -> Nat] /\ h.refs \in [Objects -> Seq(Place)]
      /\ \A o \in Objects : DOMAIN h.refs[o] = 1..Len(h.refs[o]) /\ Len(h.refs[o]) \in Nat
                            /\ h.refs[o] \in Seq(Place)
  BY HeapFields
<1> HIDE DEF size
<1>2. /\ f \in Heap /\ f.static = h.static /\ f.items = h.items /\ f.room = h.room /\ f.refs = h.refs
      /\ SameCounts(f, h) /\ SameBlocks(f, h)
      /\ \A d \in Objects : f.size[d] = IF d = c THEN size ELSE h.size[d]
  BY <1>1, <1>a DEF Heap, SameCounts, SameBlocks
<1> HIDE DEF f
<1>3. Wiring(f) /\ RoomForRefs(f)
  <2>1. Places(f) = Places(h) /\ \A q : ValueAt(f, q) = ValueAt(h, q)
    BY <1>2 DEF Places, ValueAt
  <2>2. RoomForRefs(f)
    BY <1>2 DEF RoomForRefs
  <2>3. \A o \in Objects : \A k \in 1..Len(f.refs[o]) :
          f.refs[o][k] \in Places(f) /\ ValueAt(f, f.refs[o][k]) = Weak(o, k - 1)
    BY <1>2, <2>1 DEF Wiring
  <2>4. \A p \in Places(f) : ValueAt(f, p).kind = "weak" =>
          LET v == ValueAt(f, p)
          IN  v.index + 1 \in 1..Len(f.refs[v.o]) /\ f.refs[v.o][v.index + 1] = p
    BY <1>2, <2>1 DEF Wiring
  <2> QED
    BY <2>2, <2>3, <2>4 DEF Wiring
<1>4. ASSUME NEW p \in Place PROVE Lost(p) \in Place
  BY DEF Place
<1>5. \A o \in Objects : \A k \in 1..Len(h.refs[o]) :
        (\A i \in 1..Len(h.items[c]) : h.refs[o][k] # <<c, i>>) => Lost(h.refs[o][k]) = h.refs[o][k]
  <2> SUFFICES ASSUME NEW o \in Objects, NEW k \in 1..Len(h.refs[o]),
                      \A i \in 1..Len(h.items[c]) : h.refs[o][k] # <<c, i>>
               PROVE  Lost(h.refs[o][k]) = h.refs[o][k]
    OBVIOUS
  <2> DEFINE r == h.refs[o][k]
  <2>1. r \in Places(h)
    BY DEF Wiring
  <2> HIDE DEF r
  <2>2. \/ \E s \in Statics : r = <<s>> /\ Len(r) = 1
        \/ \E d \in Objects : \E i \in 1..Len(h.items[d]) :
              r = <<d, i>> /\ Len(r) = 2 /\ r[1] = d /\ r[2] = i
    BY <2>1, PlacesAre
  <2>3. Len(r) = 2 => r[1] # c
    BY <2>2 DEF r
  <2> QED
    BY <2>3 DEF r
<1> HIDE DEF Lost
<1>6. /\ refs \in [Objects -> Seq(Place)]
      /\ \A o \in Objects : /\ Len(refs[o]) = Len(h.refs[o])
                            /\ \A k \in 1..Len(h.refs[o]) : refs[o][k] = Lost(h.refs[o][k])
  <2>1. ASSUME NEW o \in Objects
        PROVE  /\ refs[o] = [k \in 1..Len(h.refs[o]) |-> Lost(h.refs[o][k])]
               /\ refs[o] \in Seq(Place) /\ Len(refs[o]) = Len(h.refs[o])
    <3>1. refs[o] = [k \in 1..Len(h.refs[o]) |-> Lost(h.refs[o][k])]
      BY <1>a, <1>2
    <3>2. refs[o] \in [1..Len(h.refs[o]) -> Place]
      BY <3>1, <1>4, <1>a
    <3>3. Len(h.refs[o]) \in Nat
      BY <1>a
    <3> HIDE DEF refs
    <3> QED
      BY <3>1, <3>2, <3>3
  <2> QED
    BY <2>1
<1> HIDE DEF refs
<1>7. /\ m \in Heap /\ m.static = h.static /\ m.items = h.items /\ m.room = h.room
      /\ m.size = f.size /\ m.refs = refs
      /\ SameCounts(m, h) /\ SameBlocks(m, h)
  BY <1>2, <1>6 DEF Heap, SameCounts, SameBlocks
<1> HIDE DEF m
<1>8. \A j, l \in 1..Len(m.items[c]) :
              m.items[c][j].value.kind = "weak" /\ m.items[c][j].value = m.items[c][l].value => j = l
  <2> SUFFICES ASSUME NEW j \in 1..Len(h.items[c]), NEW l \in 1..Len(h.items[c]),
                      h.items[c][j].value.kind = "weak", h.items[c][j].value = h.items[c][l].value
               PROVE  j = l
    BY <1>7
  <2>1. /\ <<c, j>> \in Places(h) /\ ValueAt(h, <<c, j>>) = h.items[c][j].value
        /\ <<c, l>> \in Places(h) /\ ValueAt(h, <<c, l>>) = h.items[c][l].value
    BY PlacesAre
  <2>2. <<c, j>> = <<c, l>>
    BY <2>1 DEF Wiring
  <2> QED
    BY <2>2
<1>9. /\ g \in Heap /\ Wiring(g) /\ RoomForRefs(g)
      /\ g.static = m.static /\ g.items = m.items /\ g.size = m.size /\ g.room = m.room
      /\ SameCounts(g, m) /\ SameBlocks(g, m)
      /\ \A o \in Objects : Len(g.refs[o]) = Len(h.refs[o])
  <2>1. \A o \in Objects : Len(m.refs[o]) = Len(h.refs[o])
    BY <1>6, <1>7
  <2>2. \A o \in Objects : \A k \in 1..Len(h.refs[o]) :
              (\A i \in 1..Len(h.items[c]) : h.refs[o][k] # <<c, i>>)
              => m.refs[o][k] = h.refs[o][k]
    BY <1>5, <1>6, <1>7
  <2>3. \A d \in Objects : d # c => m.items[d] = h.items[d]
    BY <1>7
  <2>4. /\ \A j \in 1..Len(m.items[c]) : m.items[c][j].value.kind = "weak" =>
              \E i \in 1..Len(h.items[c]) : h.items[c][i].value = m.items[c][j].value
        /\ \A i \in 1..Len(h.items[c]) : h.items[c][i].value.kind = "weak" =>
              \E j \in 1..Len(m.items[c]) : h.items[c][i].value = m.items[c][j].value
    BY <1>7
  <2> HIDE DEF g
  <2> QED
    BY <1>7, <1>8, <2>1, <2>2, <2>3, <2>4, RelocatedDoes DEF g
<1> HIDE DEF g
<1>10. SameCounts(g, h) /\ SameBlocks(g, h)
  BY <1>7, <1>9 DEF SameCounts, SameBlocks
<1>11. f.size[c] = size /\ \A d \in Objects : d # c => f.size[d] = h.size[d]
  BY <1>2
<1>12. CASE size = h.size[c]
  BY <1>0, <1>1, <1>2, <1>3, <1>11, <1>12
<1>13. CASE size # h.size[c]
  <2>1. g.static = h.static /\ g.items = h.items /\ g.room = h.room /\ g.size = f.size
    BY <1>7, <1>9
  <2> QED
    BY <1>0, <1>1, <1>9, <1>10, <1>11, <1>13, <2>1
<1> QED
  BY <1>12, <1>13

-----------------------------------------------------------------------------
(* The books: who owns what, while an operation is under way.               *)

\* The places, other than X, whose values own o, and the slots, other than Z,
\* that own the string k.
Owners(h, X, o) == {p \in Places(h) \ X : ValueAt(h, p) = Strong(o)}
Holders(h, Z, k) == {p \in Slots(h) \ Z : KeyAt(h)[p] = k}
OneIf(b) == IF b THEN 1 ELSE 0
Positive(h) == {o \in Objects : h.count[o] > 0}

\* Refcounts are the numbers of owners, with those in the limbo list L.
Counted(h, L, X, Z) ==
    /\ \A o \in Objects : h.count[o] = Cardinality(Owners(h, X, o)) + OneIf(o \in L)
    /\ \A k \in Keys : h.keys[k] = Cardinality(Holders(h, Z, k))

\* Objects live as long as they are owned, and while their destructors run (Y).
Living(h, Y) ==
    /\ Y \subseteq Objects /\ Y \cap Positive(h) = {}
    /\ h.live = Positive(h) \union Y
    /\ \A o \in Objects \ h.live : Len(h.items[o]) = 0 /\ Len(h.refs[o]) = 0

\* Places and slots whose values and keys have been disowned: they will not be
\* looked at any more, as only what is in limbo and what is being destroyed
\* has any.
HeldBy(P1, S) == \A p \in P1 : Len(p) = 2 => p[1] \in S
Stale(h, L, X, Z, Y) ==
    /\ L \subseteq Objects /\ X \subseteq Places(h) /\ Z \subseteq Slots(h)
    /\ \A p \in X : ValueAt(h, p).kind # "weak"
    /\ HeldBy(X, L \union Y) /\ HeldBy(Z, L \union Y)

FileValue(v) == v = Nil \/ \E d \in Dstrings : v = Strong(d)
Shapes(h) ==
    /\ \A c \in Objects : Len(h.items[c]) <= h.size[c]
    /\ \A t \in Tables : \A i \in 1..Len(h.items[t]) : h.items[t][i].key \in Keys
    /\ \A b \in Vectors \union Dstrings : Len(h.items[b]) = 0
    /\ \A f \in Files : f \in h.live => Len(h.items[f]) = 1 /\ FileValue(h.items[f][1].value)

\* What blocks contain is within them; strings have room for a terminator.
Fits(b) == b.within /\ b.length >= 0 /\ b.length <= Len(b.cells)
BlocksFit(h) ==
    /\ \A b \in Vectors \union Dstrings : Fits(h.block[b])
    /\ \A d \in Dstrings : d \in h.live => h.block[d].length < Len(h.block[d].cells)

\* Tables are sorted by hash code, and have no key twice.
InOrder(h, t) ==
    \A i, j \in 1..Len(h.items[t]) : i < j =>
        /\ HashOf[h.items[t][i].key] <= HashOf[h.items[t][j].key]
        /\ h.items[t][i].key # h.items[t][j].key
Ordered(h) == \A t \in Tables : InOrder(h, t)

Books(h, L, X, Z, Y) ==
    /\ h \in Heap /\ Wiring(h) /\ RoomForRefs(h)
    /\ Counted(h, L, X, Z) /\ Living(h, Y) /\ Stale(h, L, X, Z, Y)
    /\ Shapes(h) /\ BlocksFit(h) /\ Ordered(h)

\* The order of tables is that of their keys.
LEMMA OrderKept ==
    ASSUME NEW h, NEW g, Ordered(h),
           \A t \in Tables : \/ g.items[t] = h.items[t]
                            \/ /\ Len(g.items[t]) = Len(h.items[t])
                               /\ \A i \in 1..Len(h.items[t]) : g.items[t][i].key = h.items[t][i].key
    PROVE  Ordered(g)
<1> SUFFICES ASSUME NEW t \in Tables PROVE InOrder(g, t)
  BY DEF Ordered
<1>1. InOrder(h, t)
  BY DEF Ordered
<1>2. CASE g.items[t] = h.items[t]
  BY <1>1, <1>2 DEF InOrder
<1>3. CASE /\ Len(g.items[t]) = Len(h.items[t])
           /\ \A i \in 1..Len(h.items[t]) : g.items[t][i].key = h.items[t][i].key
  BY <1>1, <1>3 DEF InOrder
<1> QED
  BY <1>2, <1>3

\* Heaps with the same layout have the same keys, and so the same order.
LEMMA LayoutKeys ==
    ASSUME NEW h \in Heap, NEW g, SameLayout(g, h), NEW t \in Tables
    PROVE  /\ Len(g.items[t]) = Len(h.items[t])
           /\ \A i \in 1..Len(h.items[t]) : g.items[t][i].key = h.items[t][i].key
<1>1. t \in Objects
  BY DEF Objects, P!Objects
<1>2. Len(g.items[t]) = Len(h.items[t]) /\ KeyAt(g) = KeyAt(h) /\ Slots(g) = Slots(h)
  BY <1>1 DEF SameLayout
<1>3. Len(h.items[t]) \in Nat
  BY <1>1, HeapFields
<1> SUFFICES ASSUME NEW i \in 1..Len(h.items[t]) PROVE g.items[t][i].key = h.items[t][i].key
  BY <1>2
<1>4. <<t, i>> \in Slots(h) /\ <<t, i>> \in Slots(g)
  BY <1>1, <1>2, <1>3 DEF Slots
<1>5. KeyAt(g)[<<t, i>>] = g.items[t][i].key /\ KeyAt(h)[<<t, i>>] = h.items[t][i].key
  BY <1>4 DEF KeyAt
<1> QED
  BY <1>2, <1>5

\* Writing values over values keeps tables in order.
LEMMA LayoutOrder ==
    ASSUME NEW h \in Heap, NEW g, SameLayout(g, h), Ordered(h)
    PROVE  Ordered(g)
BY LayoutKeys, OrderKept

\* There are finitely many places and slots.
LEMMA PlacesFinite ==
    ASSUME NEW h \in Heap
    PROVE  IsFiniteSet(Places(h)) /\ IsFiniteSet(Slots(h))
<1> DEFINE all == UNION {{c} \X (1..Len(h.items[c])) : c \in Objects}
           f == [c \in Objects |-> {c} \X (1..Len(h.items[c]))]
           T == {{c} \X (1..Len(h.items[c])) : c \in Objects}
           one == [s \in Statics |-> <<s>>]
           ones == {<<s>> : s \in Statics}
<1>0. IsFiniteSet(Objects) /\ IsFiniteSet(Statics)
  BY ContainersAssumption
<1>1. f \in Surjection(Objects, T)
  BY DEF Surjection
<1>2. one \in Surjection(Statics, ones)
  BY DEF Surjection
<1>3. \A c \in Objects : Len(h.items[c]) \in Nat
  BY HeapFields
<1>4. \A t \in T : IsFiniteSet(t)
  <2> SUFFICES ASSUME NEW c \in Objects PROVE IsFiniteSet({c} \X (1..Len(h.items[c])))
    OBVIOUS
  <2>1. 1 \in Int /\ Len(h.items[c]) \in Int
    BY <1>3
  <2>2. IsFiniteSet({c}) /\ IsFiniteSet(1..Len(h.items[c]))
    BY <2>1, FS_Singleton, FS_Interval
  <2> QED
    BY <2>2, FS_Product
<1>5. /\ Places(h) \subseteq ones \union all /\ Slots(h) \subseteq all
  BY DEF Places, Slots
<1> HIDE DEF f, one, T, ones
<1>6. IsFiniteSet(T) /\ IsFiniteSet(ones)
  BY <1>0, <1>1, <1>2, FS_Surjection
<1>7. IsFiniteSet(UNION T)
  BY <1>4, <1>6, FS_UNION
<1>8. IsFiniteSet(all)
  BY <1>7 DEF T
<1> HIDE DEF all
<1>9. IsFiniteSet(ones \union all)
  BY <1>6, <1>8, FS_Union
<1> QED
  BY <1>5, <1>8, <1>9, FS_Subset

\* An object has finitely many owners, a string finitely many slots.
LEMMA OwnersFinite ==
    ASSUME NEW h \in Heap
    PROVE  /\ \A X, o : IsFiniteSet(Owners(h, X, o)) /\ Cardinality(Owners(h, X, o)) \in Nat
           /\ \A Z, k : IsFiniteSet(Holders(h, Z, k)) /\ Cardinality(Holders(h, Z, k)) \in Nat
<1>1. IsFiniteSet(Places(h)) /\ IsFiniteSet(Slots(h))
  BY PlacesFinite
<1>2. \A X, o : Owners(h, X, o) \in SUBSET Places(h)
  BY DEF Owners
<1>3. \A Z, k : Holders(h, Z, k) \in SUBSET Slots(h)
  BY DEF Holders
<1>4. \A X, o : IsFiniteSet(Owners(h, X, o))
  BY <1>1, <1>2, FS_Subset
<1>5. \A Z, k : IsFiniteSet(Holders(h, Z, k))
  BY <1>1, <1>3, FS_Subset
<1> QED
  BY <1>4, <1>5, FS_CardinalityType

\* A place, or a slot, more that is left out.
LEMMA OwnersLess ==
    ASSUME NEW h \in Heap, NEW X, NEW o, NEW p \in Places(h), p \notin X
    PROVE  Cardinality(Owners(h, X, o))
             = Cardinality(Owners(h, X \union {p}, o)) + OneIf(ValueAt(h, p) = Strong(o))
<1>1. Owners(h, X \union {p}, o) = Owners(h, X, o) \ {p}
  BY DEF Owners
<1>2. p \in Owners(h, X, o) <=> ValueAt(h, p) = Strong(o)
  BY DEF Owners
<1>3. IsFiniteSet(Owners(h, X, o)) /\ Cardinality(Owners(h, X, o)) \in Nat
  BY OwnersFinite
<1>4. Cardinality(Owners(h, X, o) \ {p}) =
        IF p \in Owners(h, X, o) THEN Cardinality(Owners(h, X, o)) - 1 ELSE Cardinality(Owners(h, X, o))
  BY <1>3, FS_RemoveElement
<1> DEFINE a == Cardinality(Owners(h, X, o))
           b == Cardinality(Owners(h, X \union {p}, o))
<1>5. b = (IF ValueAt(h, p) = Strong(o) THEN a - 1 ELSE a) /\ a \in Nat
  BY <1>1, <1>2, <1>3, <1>4
<1> HIDE DEF a, b
<1>6. a = b + OneIf(ValueAt(h, p) = Strong(o))
  BY <1>5 DEF OneIf
<1> QED
  BY <1>6 DEF a, b

\* A slot that is left out is one less, if it held the key.
LEMMA HoldersLess ==
    ASSUME NEW h \in Heap, NEW Z, NEW k, NEW p \in Slots(h), p \notin Z
    PROVE  Cardinality(Holders(h, Z, k))
             = Cardinality(Holders(h, Z \union {p}, k)) + OneIf(KeyAt(h)[p] = k)
<1>1. Holders(h, Z \union {p}, k) = Holders(h, Z, k) \ {p}
  BY DEF Holders
<1>2. p \in Holders(h, Z, k) <=> KeyAt(h)[p] = k
  BY DEF Holders
<1>3. IsFiniteSet(Holders(h, Z, k)) /\ Cardinality(Holders(h, Z, k)) \in Nat
  BY OwnersFinite
<1>4. Cardinality(Holders(h, Z, k) \ {p}) =
        IF p \in Holders(h, Z, k) THEN Cardinality(Holders(h, Z, k)) - 1 ELSE Cardinality(Holders(h, Z, k))
  BY <1>3, FS_RemoveElement
<1> DEFINE a == Cardinality(Holders(h, Z, k))
           b == Cardinality(Holders(h, Z \union {p}, k))
<1>5. b = (IF KeyAt(h)[p] = k THEN a - 1 ELSE a) /\ a \in Nat
  BY <1>1, <1>2, <1>3, <1>4
<1> HIDE DEF a, b
<1>6. a = b + OneIf(KeyAt(h)[p] = k)
  BY <1>5 DEF OneIf
<1> QED
  BY <1>6 DEF a, b

\* What the books say of the objects.
LEMMA BooksSay ==
    ASSUME NEW h, NEW L, NEW X, NEW Z, NEW Y, Books(h, L, X, Z, Y)
    PROVE  /\ h \in Heap /\ h.live \subseteq Objects
           /\ \A o \in L : o \in Objects /\ h.count[o] >= 1 /\ o \in h.live /\ o \notin Y
           /\ \A p \in Places(h) : ValueAt(h, p).kind = "weak" =>
                ValueAt(h, p).o \in h.live
           /\ \A p \in Places(h) \ X : ValueAt(h, p).kind = "strong" =>
                LET o == ValueAt(h, p).o
                IN  o \in Objects /\ h.count[o] >= 1 + OneIf(o \in L) /\ o \in h.live /\ o \notin Y
           /\ \A c, i : <<c, i>> \in Places(h) => c \in h.live
<1>1. h \in Heap /\ h.live \subseteq Objects /\ L \subseteq Objects
  BY HeapFields DEF Books, Stale
<1>2. \A o \in Objects : h.count[o] = Cardinality(Owners(h, X, o)) + OneIf(o \in L)
                         /\ Cardinality(Owners(h, X, o)) \in Nat
  BY <1>1, OwnersFinite DEF Books, Counted
<1>3. \A o \in Objects : h.count[o] >= 1 => o \in h.live /\ o \notin Y
  <2>1. h.live = Positive(h) \union Y /\ Y \cap Positive(h) = {}
    BY DEF Books, Living
  <2>2. \A o \in Objects : h.count[o] \in Int
    BY <1>1, HeapFields
  <2> QED
    BY <2>1, <2>2 DEF Positive
<1>4. \A o \in L : o \in Objects /\ h.count[o] >= 1
  BY <1>1, <1>2 DEF OneIf
<1>5. ASSUME NEW p \in Places(h), ValueAt(h, p).kind = "weak"
      PROVE  ValueAt(h, p).o \in h.live
  <2> DEFINE v == ValueAt(h, p)
  <2>1. v \in Value
    BY <1>1, PlacesAre
  <2>2. v.o \in Objects
    BY <2>1, <1>5, ValueFacts
  <2>3. v.index + 1 \in 1..Len(h.refs[v.o])
    BY <1>5 DEF Books, Wiring
  <2>4. Len(h.refs[v.o]) # 0
    BY <2>3
  <2> QED
    BY <2>2, <2>4 DEF Books, Living
<1>6. ASSUME NEW p \in Places(h), p \notin X, ValueAt(h, p).kind = "strong"
      PROVE  LET o == ValueAt(h, p).o
             IN  o \in Objects /\ h.count[o] >= 1 + OneIf(o \in L)
  <2> DEFINE o == ValueAt(h, p).o
  <2>1. ValueAt(h, p) \in Value
    BY <1>1, PlacesAre
  <2>2. o \in Objects /\ ValueAt(h, p) = Strong(o)
    BY <2>1, <1>6, ValueFacts
  <2>3. Cardinality(Owners(h, X, o)) = Cardinality(Owners(h, X \union {p}, o)) + 1
    BY <2>2, <1>1, <1>6, OwnersLess DEF OneIf
  <2>4. Cardinality(Owners(h, X \union {p}, o)) \in Nat
    BY <1>1, OwnersFinite
  <2> HIDE DEF o
  <2>5. h.count[o] >= 1 + OneIf(o \in L)
    BY <2>2, <2>3, <2>4, <1>2 DEF OneIf
  <2> QED
    BY <2>2, <2>5 DEF o
<1>7. ASSUME NEW p \in Places(h), p \notin X, ValueAt(h, p).kind = "strong"
      PROVE  LET o == ValueAt(h, p).o
             IN  o \in Objects /\ h.count[o] >= 1 + OneIf(o \in L) /\ o \in h.live /\ o \notin Y
  <2> DEFINE o == ValueAt(h, p).o
  <2>1. o \in Objects /\ h.count[o] >= 1 + OneIf(o \in L)
    BY <1>6, <1>7
  <2> HIDE DEF o
  <2>2. h.count[o] >= 1
    BY <2>1, <1>1, HeapFields DEF OneIf
  <2> QED
    BY <2>1, <2>2, <1>3 DEF o
<1>8. \A c, i : <<c, i>> \in Places(h) => c \in h.live
  <2> SUFFICES ASSUME NEW c, NEW i, <<c, i>> \in Places(h) PROVE c \in h.live
    OBVIOUS
  <2>1. c \in Objects /\ i \in 1..Len(h.items[c])
    BY <1>1, PlacesAre
  <2>2. Len(h.items[c]) # 0
    BY <2>1
  <2> QED
    BY <2>1, <2>2 DEF Books, Living
<1> QED
  BY <1>1, <1>3, <1>4, <1>5, <1>7, <1>8

\* A change of values only, that leaves the owners that are counted.
LEMMA ValuesChanged ==
    ASSUME NEW h, NEW L, NEW X, NEW Z, NEW Y, Books(h, L, X, Z, Y), NEW X2,
           NEW g \in Heap, Wiring(g), RoomForRefs(g),
           SameLayout(g, h), SameCounts(g, h), SameBlocks(g, h),
           \A o \in Objects \ h.live : Len(g.refs[o]) = 0,
           \A o \in Objects : Owners(g, X2, o) = Owners(h, X, o),
           X2 \subseteq Places(h), \A p \in X2 : ValueAt(g, p).kind # "weak",
           HeldBy(X2, L \union Y),
           \A f \in Files : f \in h.live => FileValue(ValueAt(g, <<f, 1>>))
    PROVE  Books(g, L, X2, Z, Y)
<1>0. h \in Heap
  BY DEF Books
<1>1. /\ g.live = h.live /\ g.count = h.count /\ g.keys = h.keys /\ g.block = h.block
      /\ g.size = h.size /\ KeyAt(g) = KeyAt(h) /\ Slots(g) = Slots(h) /\ Places(g) = Places(h)
      /\ \A c \in Objects : Len(g.items[c]) = Len(h.items[c])
  BY DEF SameLayout, SameCounts, SameBlocks
<1>2. Counted(g, L, X2, Z)
  <2>1. \A k : Holders(g, Z, k) = Holders(h, Z, k)
    BY <1>1 DEF Holders
  <2>2. Counted(h, L, X, Z)
    BY DEF Books
  <2> QED
    BY <2>1, <2>2, <1>1 DEF Counted
<1>3. Living(g, Y)
  <2>1. Positive(g) = Positive(h)
    BY <1>1 DEF Positive
  <2> QED
    BY <2>1, <1>1 DEF Living, Books
<1>4. Stale(g, L, X2, Z, Y)
  BY <1>1 DEF Stale, Books
<1>5. Shapes(g)
  <2>1. Shapes(h)
    BY DEF Books
  <2>2. ASSUME NEW t \in Tables, NEW i \in 1..Len(g.items[t])
        PROVE  g.items[t][i].key \in Keys
    <3>1. t \in Objects
      BY DEF Objects, P!Objects
    <3>2. i \in 1..Len(h.items[t]) /\ i \in Nat
      BY <1>1, <1>0, <3>1, HeapFields
    <3>3. <<t, i>> \in Slots(h)
      BY <3>1, <3>2 DEF Slots
    <3>4. KeyAt(g)[<<t, i>>] = g.items[t][i].key /\ KeyAt(h)[<<t, i>>] = h.items[t][i].key
      BY <3>3, <1>1 DEF KeyAt
    <3> QED
      BY <3>2, <3>4, <1>1, <2>1 DEF Shapes
  <2>3. ASSUME NEW f \in Files, f \in g.live
        PROVE  Len(g.items[f]) = 1 /\ FileValue(g.items[f][1].value)
    <3>1. f \in Objects /\ Len(h.items[f]) = 1
      BY <2>1, <2>3, <1>1 DEF Objects, P!Objects, Shapes
    <3>2. 1 \in 1..Len(g.items[f])
      BY <1>1, <3>1
    <3>3. ValueAt(g, <<f, 1>>) = g.items[f][1].value
      BY <3>1, <3>2, PlacesAre
    <3> QED
      BY <3>1, <3>3, <2>3, <1>1
  <2>4. Objects = Arrays \union Tables \union Vectors \union Dstrings \union Files
    BY DEF Objects, P!Objects
  <2> QED
    BY <1>1, <2>1, <2>2, <2>3, <2>4 DEF Shapes
<1>6. BlocksFit(g)
  BY <1>1 DEF BlocksFit, Books
<1>7. Ordered(g)
  BY <1>0, LayoutOrder DEF Books
<1> QED
  BY <1>2, <1>3, <1>4, <1>5, <1>6, <1>7 DEF Books

-----------------------------------------------------------------------------
(* What is disowned: heaps fade.                                            *)

\* An owner less of o is due: afterwards the books are in order, with o among
\* the objects that are destroyed if that was the last.
Due(h, o, L, X, Z, Y) ==
    /\ h \in Heap /\ o \in Objects /\ h.count[o] >= 1 /\ o \notin Y
    /\ HeldBy(X, L \union Y) /\ HeldBy(Z, L \union Y)
    /\ Books([h EXCEPT !.count[o] = @ - 1], L, X, Z, IF h.count[o] = 1 THEN Y \union {o} ELSE Y)

\* What surviving objects keep when others are destroyed.
Fades(h, g) ==
    /\ g.live \subseteq h.live /\ Positive(g) \subseteq Positive(h)
    /\ \A c \in Objects : c \in g.live =>
          /\ Len(g.items[c]) = Len(h.items[c])
          /\ c \in Tables => \A i \in 1..Len(h.items[c]) : g.items[c][i].key = h.items[c][i].key

\* disown does what a reference less shall do, when up to d objects are owned.
DownsWell(disown, d) ==
    \A h, o, L, X, Z, Y :
        Due(h, o, L, X, Z, Y) /\ Cardinality(Positive(h)) <= d
        => Books(disown[o][h], L, X, Z, Y) /\ Fades(h, disown[o][h])

\* A heap fades to itself.
LEMMA FadesItself == \A h : Fades(h, h)
  BY DEF Fades

\* What fades, and fades on, has faded.
LEMMA FadesOn ==
    ASSUME NEW f, NEW g, NEW h, Fades(f, g), Fades(g, h)
    PROVE  Fades(f, h)
<1>1. h.live \subseteq f.live /\ Positive(h) \subseteq Positive(f)
  BY DEF Fades
<1>2. ASSUME NEW c \in Objects, c \in h.live
      PROVE  /\ Len(h.items[c]) = Len(f.items[c])
             /\ c \in Tables => \A i \in 1..Len(f.items[c]) : h.items[c][i].key = f.items[c][i].key
  <2>1. /\ Len(h.items[c]) = Len(g.items[c])
        /\ c \in Tables => \A i \in 1..Len(g.items[c]) : h.items[c][i].key = g.items[c][i].key
    BY <1>2 DEF Fades
  <2>2. /\ Len(g.items[c]) = Len(f.items[c])
        /\ c \in Tables => \A i \in 1..Len(f.items[c]) : g.items[c][i].key = f.items[c][i].key
    BY <1>2 DEF Fades
  <2> QED
    BY <2>1, <2>2
<1> QED
  BY <1>1, <1>2 DEF Fades

\* Where objects, counts and layout are the same nothing has been made.
LEMMA FadesSame ==
    ASSUME NEW h \in Heap, NEW g \in Heap, SameLayout(g, h), g.live = h.live, g.count = h.count
    PROVE  Fades(h, g)
<1>1. Positive(g) = Positive(h)
  BY DEF Positive
<1>2. ASSUME NEW c \in Objects, NEW i \in 1..Len(h.items[c])
      PROVE  c \in Tables => g.items[c][i].key = h.items[c][i].key
  <2>1. i \in Nat
    BY <1>2, HeapFields
  <2>2. c \in Tables => <<c, i>> \in Slots(h) /\ <<c, i>> \in Slots(g)
    BY <2>1, <1>2 DEF Slots, SameLayout
  <2>3. c \in Tables => KeyAt(g)[<<c, i>>] = g.items[c][i].key /\ KeyAt(h)[<<c, i>>] = h.items[c][i].key
    BY <2>2 DEF KeyAt
  <2> QED
    BY <2>3 DEF SameLayout
<1> QED
  BY <1>1, <1>2 DEF Fades, SameLayout

\* The books are due one reference less to o, if the owners that are left out, the
\* limbo list and o itself add up to what they were.
LEMMA CountsLess ==
    ASSUME NEW h, NEW L, NEW X, NEW Z, NEW Y, Books(h, L, X, Z, Y),
           NEW o \in Objects, h.count[o] >= 1, NEW L2, L2 \subseteq Objects,
           NEW X2, X2 \subseteq Places(h), \A p \in X2 : ValueAt(h, p).kind # "weak",
           HeldBy(X2, L2 \union Y), HeldBy(Z, L2 \union Y),
           \A q \in Objects : Cardinality(Owners(h, X, q)) + OneIf(q \in L) =
                Cardinality(Owners(h, X2, q)) + OneIf(q \in L2) + OneIf(q = o)
    PROVE  Due(h, o, L2, X2, Z, Y)
<1> DEFINE g == [h EXCEPT !.count[o] = @ - 1]
           Y2 == IF h.count[o] = 1 THEN Y \union {o} ELSE Y
<1>0. h \in Heap /\ h.count \in [Objects -> Int]
  BY HeapFields DEF Books
<1>1. /\ g \in Heap /\ g.live = h.live /\ g.keys = h.keys /\ g.refs = h.refs /\ g.room = h.room
      /\ g.static = h.static /\ g.items = h.items /\ g.size = h.size /\ g.block = h.block
      /\ g.position = h.position
      /\ \A q \in Objects : g.count[q] = IF q = o THEN h.count[o] - 1 ELSE h.count[q]
  <2> DEFINE counts == [h.count EXCEPT ![o] = @ - 1]
  <2>1. counts \in [Objects -> Int] /\ \A q \in Objects : counts[q] = IF q = o THEN h.count[o] - 1 ELSE h.count[q]
    BY <1>0
  <2>2. g = [h EXCEPT !.count = counts]
    OBVIOUS
  <2> HIDE DEF counts, g
  <2> QED
    BY <2>1, <2>2, <1>0 DEF Heap
<1> HIDE DEF g
<1>2. Places(g) = Places(h) /\ Slots(g) = Slots(h) /\ KeyAt(g) = KeyAt(h)
  BY <1>1 DEF Places, Slots, KeyAt
<1>3. \A p : ValueAt(g, p) = ValueAt(h, p)
  BY <1>1 DEF ValueAt
<1>4. \A W, q : Owners(g, W, q) = Owners(h, W, q)
  BY <1>2, <1>3 DEF Owners
<1>5. \A k : Holders(g, Z, k) = Holders(h, Z, k)
  BY <1>2 DEF Holders
<1>6. Counted(g, L2, X2, Z)
  <2>1. ASSUME NEW q \in Objects
        PROVE  g.count[q] = Cardinality(Owners(g, X2, q)) + OneIf(q \in L2)
    <3>1. h.count[q] = Cardinality(Owners(h, X, q)) + OneIf(q \in L)
      BY DEF Books, Counted
    <3>2. Cardinality(Owners(h, X2, q)) \in Nat
      BY <1>0, OwnersFinite
    <3>3. g.count[q] = h.count[q] - OneIf(q = o)
      BY <1>0, <1>1 DEF OneIf
    <3>4. Owners(g, X2, q) = Owners(h, X2, q)
      BY <1>4
    <3>5. OneIf(q \in L2) \in Nat /\ OneIf(q = o) \in Nat
      BY DEF OneIf
    <3>6. h.count[q] = Cardinality(Owners(h, X2, q)) + OneIf(q \in L2) + OneIf(q = o)
      BY <3>1
    <3> QED
      BY <3>2, <3>3, <3>4, <3>5, <3>6
  <2>2. \A k \in Keys : g.keys[k] = Cardinality(Holders(g, Z, k))
    BY <1>1, <1>5 DEF Books, Counted
  <2> QED
    BY <2>1, <2>2 DEF Counted
<1>7. o \notin Y /\ o \in Positive(h)
  BY <1>0 DEF Books, Living, Positive
<1>8. Positive(g) = IF h.count[o] = 1 THEN Positive(h) \ {o} ELSE Positive(h)
  BY <1>0, <1>1 DEF Positive
<1>9. Living(g, Y2)
  BY <1>1, <1>7, <1>8 DEF Books, Living
<1>10. Stale(g, L2, X2, Z, Y2)
  BY <1>2, <1>3 DEF Stale, Books, HeldBy
<1>11. Shapes(g) /\ BlocksFit(g) /\ RoomForRefs(g)
  BY <1>1 DEF Shapes, BlocksFit, RoomForRefs, Books
<1>12. Wiring(g)
  BY <1>1, <1>2, <1>3 DEF Wiring, Books
<1>a. Ordered(g)
  BY <1>1, OrderKept DEF Books
<1>13. Books(g, L2, X2, Z, Y2)
  BY <1>1, <1>6, <1>9, <1>10, <1>11, <1>12, <1>a DEF Books
<1> QED
  BY <1>0, <1>7, <1>13 DEF Due, g

\* The owner less is a value that has been disowned.
LEMMA DueAtPlace ==
    ASSUME NEW h, NEW L, NEW X, NEW Z, NEW Y, Books(h, L, X, Z, Y),
           NEW p \in Places(h), p \notin X, NEW o, ValueAt(h, p) = Strong(o), o \in Objects,
           Len(p) = 2 => p[1] \in L \union Y
    PROVE  Due(h, o, L, X \union {p}, Z, Y)
<1>0. h \in Heap /\ Stale(h, L, X, Z, Y)
  BY DEF Books
<1>1. Strong(o).kind = "strong" /\ Strong(o).o = o /\ Strong(o).kind # "weak"
  BY ValueFacts
<1>2. h.count[o] >= 1
  <2>1. h.count[o] >= 1 + OneIf(o \in L) /\ h.count[o] \in Int
    BY <1>0, <1>1, BooksSay, HeapFields
  <2> QED
    BY <2>1 DEF OneIf
<1>3. ASSUME NEW q \in Objects
      PROVE  Cardinality(Owners(h, X, q)) + OneIf(q \in L) =
                Cardinality(Owners(h, X \union {p}, q)) + OneIf(q \in L) + OneIf(q = o)
  <2>1. Cardinality(Owners(h, X, q))
             = Cardinality(Owners(h, X \union {p}, q)) + OneIf(ValueAt(h, p) = Strong(q))
    BY <1>0, OwnersLess
  <2>2. ValueAt(h, p) = Strong(q) <=> q = o
    BY <1>1, ValueFacts
  <2>3. OneIf(ValueAt(h, p) = Strong(q)) = OneIf(q = o)
    BY <2>2 DEF OneIf
  <2>4. Cardinality(Owners(h, X \union {p}, q)) \in Nat /\ OneIf(q = o) \in Nat /\ OneIf(q \in L) \in Nat
    BY <1>0, OwnersFinite DEF OneIf
  <2> QED
    BY <2>1, <2>3, <2>4
<1> DEFINE X2 == X \union {p}
<1>4. /\ X2 \subseteq Places(h) /\ L \subseteq Objects
      /\ \A q \in X2 : ValueAt(h, q).kind # "weak"
      /\ HeldBy(X2, L \union Y) /\ HeldBy(Z, L \union Y)
  BY <1>0, <1>1 DEF Stale, HeldBy
<1>5. \A q \in Objects : Cardinality(Owners(h, X, q)) + OneIf(q \in L) =
                Cardinality(Owners(h, X2, q)) + OneIf(q \in L) + OneIf(q = o)
  BY <1>3
<1> HIDE DEF X2
<1>6. Due(h, o, L, X2, Z, Y)
  BY <1>2, <1>4, <1>5, CountsLess
<1> QED
  BY <1>6 DEF X2

\* The owner less is the limbo list.
LEMMA DueInLimbo ==
    ASSUME NEW h, NEW L, NEW Y, Books(h, L, {}, {}, Y), NEW o \in L
    PROVE  Due(h, o, L \ {o}, {}, {}, Y)
<1>0. h \in Heap /\ Stale(h, L, {}, {}, Y)
  BY DEF Books
<1>1. o \in Objects /\ h.count[o] >= 1 /\ L \ {o} \subseteq Objects
  BY BooksSay
<1>2. ASSUME NEW q \in Objects
      PROVE  Cardinality(Owners(h, {}, q)) + OneIf(q \in L) =
                Cardinality(Owners(h, {}, q)) + OneIf(q \in L \ {o}) + OneIf(q = o)
  <2>1. Cardinality(Owners(h, {}, q)) \in Nat
    BY <1>0, OwnersFinite
  <2>2. OneIf(q \in L) = OneIf(q \in L \ {o}) + OneIf(q = o) /\ OneIf(q \in L \ {o}) \in Nat /\ OneIf(q = o) \in Nat
    BY DEF OneIf
  <2> QED
    BY <2>1, <2>2
<1> QED
  BY <1>1, <1>2, CountsLess DEF HeldBy

\* eel_v_disown_nz, when disown does well.
LEMMA DisownAtDoes ==
    ASSUME NEW disown, NEW d \in Nat, DownsWell(disown, d),
           NEW h, NEW L, NEW X, NEW Z, NEW Y, Books(h, L, X, Z, Y), Cardinality(Positive(h)) <= d,
           NEW p \in Places(h), p \notin X, Len(p) = 2 => p[1] \in L \union Y
    PROVE  /\ Books(DisownAt(disown, h, p), L, X \union {p}, Z, Y)
           /\ Fades(h, DisownAt(disown, h, p))
<1> DEFINE v == ValueAt(h, p)
           g == DisownAt(disown, h, p)
<1>0. h \in Heap /\ Stale(h, L, X, Z, Y) /\ Wiring(h) /\ RoomForRefs(h) /\ Living(h, Y) /\ Shapes(h)
  BY DEF Books
<1>1. v \in Value /\ v.kind \in {"nil", "strong", "weak"}
  BY <1>0, PlacesAre, ValueFacts
<1>2. CASE v.kind = "strong"
  <2>1. g = disown[v.o][h]
    BY <1>2 DEF DisownAt
  <2>2. v.o \in Objects /\ v = Strong(v.o)
    BY <1>1, <1>2, ValueFacts
  <2>3. Due(h, v.o, L, X \union {p}, Z, Y)
    BY <2>2, DueAtPlace
  <2> HIDE DEF v, g
  <2> QED
    BY <2>1, <2>3 DEF DownsWell, g
<1> HIDE DEF g
<1>3. ASSUME g \in Heap, Wiring(g), RoomForRefs(g), SameLayout(g, h), SameCounts(g, h),
             SameBlocks(g, h), ValueAt(g, p).kind = "nil" \/ g = h, v.kind # "strong",
             v.kind # "weak" \/ ValueAt(g, p).kind = "nil",
             \A q \in Places(h) : q # p =>
                \/ ValueAt(g, q) = ValueAt(h, q)
                \/ ValueAt(g, q).kind = "weak" /\ ValueAt(h, q).kind = "weak",
             \A x \in Objects \ h.live : Len(g.refs[x]) = 0
      PROVE  Books(g, L, X \union {p}, Z, Y) /\ Fades(h, g)
  <2>1. ASSUME NEW o \in Objects
        PROVE  Owners(g, X \union {p}, o) = Owners(h, X, o)
    <3>0. Strong(o).kind = "strong" /\ Strong(o).kind # "weak"
      BY ValueFacts
    <3>1. Places(g) = Places(h)
      BY <1>3 DEF SameLayout
    <3>2. \A q \in Places(h) : q # p => (ValueAt(g, q) = Strong(o) <=> ValueAt(h, q) = Strong(o))
      BY <1>3, <3>0
    <3>3. ValueAt(h, p) # Strong(o)
      BY <1>3, <3>0 DEF v
    <3> QED
      BY <3>1, <3>2, <3>3 DEF Owners
  <2>2. X \union {p} \subseteq Places(h) /\ \A q \in X \union {p} : ValueAt(g, q).kind # "weak"
    BY <1>0, <1>3 DEF Stale, v
  <2>3. HeldBy(X \union {p}, L \union Y)
    BY <1>0 DEF Stale, HeldBy
  <2>4. ASSUME NEW f \in Files, f \in h.live
        PROVE  FileValue(ValueAt(g, <<f, 1>>))
    <3>1. f \in Objects /\ Len(h.items[f]) = 1 /\ FileValue(h.items[f][1].value)
      BY <1>0, <2>4 DEF Shapes, Objects, P!Objects
    <3>2. <<f, 1>> \in Places(h) /\ ValueAt(h, <<f, 1>>) = h.items[f][1].value
      BY <1>0, <3>1, PlacesAre
    <3>3. ValueAt(h, <<f, 1>>).kind # "weak"
      BY <3>1, <3>2, ValueFacts DEF FileValue, Objects, P!Objects
    <3>4. CASE <<f, 1>> # p
      BY <1>3, <3>1, <3>2, <3>3, <3>4
    <3>5. CASE <<f, 1>> = p
      <4>1. ValueAt(g, p) \in Value
        BY <1>3, PlacesAre DEF SameLayout
      <4>2. ValueAt(g, p) = Nil \/ g = h
        BY <1>3, <4>1, ValueFacts
      <4> QED
        BY <4>2, <3>1, <3>2, <3>5 DEF FileValue
    <3> QED
      BY <3>4, <3>5
  <2>5. Fades(h, g)
    BY <1>0, <1>3, FadesSame DEF SameCounts
  <2>6. Books(g, L, X \union {p}, Z, Y)
    BY <1>3, <2>1, <2>2, <2>3, <2>4, ValuesChanged
  <2> QED
    BY <2>5, <2>6
<1>4. CASE v.kind = "weak"
  <2>1. g = Detach(h, p)
    BY <1>4 DEF DisownAt, g
  <2>2. /\ g \in Heap /\ Wiring(g) /\ RoomForRefs(g)
        /\ SameLayout(g, h) /\ SameCounts(g, h) /\ SameBlocks(g, h)
        /\ ValueAt(g, p) = Nil
        /\ \A q \in Places(h) : q # p =>
              \/ ValueAt(g, q) = ValueAt(h, q)
              \/ ValueAt(g, q).kind = "weak" /\ ValueAt(h, q).kind = "weak"
                 /\ ValueAt(g, q).o = ValueAt(h, q).o
        /\ \A x \in Objects : h.refs[x] = << >> => g.refs[x] = << >>
    BY <2>1, <1>0, <1>4, DetachDoes
  <2>3. \A x \in Objects \ h.live : Len(g.refs[x]) = 0
    <3>1. \A x \in Objects \ h.live : Len(h.refs[x]) = 0 /\ h.refs[x] \in Seq(Place)
      BY <1>0, HeapFields DEF Living
    <3>2. \A x \in Objects \ h.live : h.refs[x] = << >>
      BY <3>1
    <3> QED
      BY <3>2, <2>2
  <2>4. ValueAt(g, p).kind = "nil" /\ v.kind # "strong"
    BY <2>2, <1>4, ValueFacts
  <2> QED
    BY <2>2, <2>3, <2>4, <1>3, <1>4 DEF g
<1>5. CASE v.kind = "nil"
  <2>1. g = h
    BY <1>5 DEF DisownAt, g
  <2>2. SameLayout(h, h) /\ SameCounts(h, h) /\ SameBlocks(h, h)
    BY DEF SameLayout, SameCounts, SameBlocks
  <2>3. \A x \in Objects \ h.live : Len(h.refs[x]) = 0
    BY <1>0 DEF Living
  <2> QED
    BY <2>1, <2>2, <2>3, <1>0, <1>3, <1>5 DEF g
<1> QED
  BY <1>1, <1>2, <1>4, <1>5 DEF g

\* Vectors, places and values make the wiring, nothing else does.
LEMMA WiringSame ==
    ASSUME NEW h, NEW g, Wiring(h), g.refs = h.refs, Places(g) = Places(h),
           \A q : ValueAt(g, q) = ValueAt(h, q)
    PROVE  Wiring(g)
<1>1. \A o \in Objects : \A k \in 1..Len(h.refs[o]) :
          h.refs[o][k] \in Places(h) /\ ValueAt(h, h.refs[o][k]) = Weak(o, k - 1)
  BY DEF Wiring
<1>2. \A o \in Objects : \A k \in 1..Len(g.refs[o]) :
          g.refs[o][k] \in Places(g) /\ ValueAt(g, g.refs[o][k]) = Weak(o, k - 1)
  BY <1>1
<1>3. \A p \in Places(h) : ValueAt(h, p).kind = "weak" =>
          LET v == ValueAt(h, p)
          IN  v.index + 1 \in 1..Len(h.refs[v.o]) /\ h.refs[v.o][v.index + 1] = p
  BY DEF Wiring
<1>4. \A p \in Places(g) : ValueAt(g, p).kind = "weak" =>
          LET v == ValueAt(g, p)
          IN  v.index + 1 \in 1..Len(g.refs[v.o]) /\ g.refs[v.o][v.index + 1] = p
  BY <1>3
<1> QED
  BY <1>2, <1>4 DEF Wiring

\* The string that was the key of a slot has an owner less.
LEMMA KeyLess ==
    ASSUME NEW h, NEW L, NEW X, NEW Z, NEW Y, Books(h, L, X, Z, Y),
           NEW p \in Slots(h), p \notin Z, p[1] \in L \union Y
    PROVE  LET g == DisownKey(h, KeyAt(h)[p])
           IN  Books(g, L, X, Z \union {p}, Y) /\ Fades(h, g) /\ SameLayout(g, h)
<1> DEFINE key == KeyAt(h)[p]
           g == DisownKey(h, key)
           keys == [h.keys EXCEPT ![key] = @ - 1]
<1>0. h \in Heap /\ h.keys \in [Keys -> Int]
  BY HeapFields DEF Books
<1>1. key \in Keys /\ KeyAt(h)[p] = key
  <2>1. p[1] \in Tables /\ p[2] \in 1..Len(h.items[p[1]])
    BY DEF Slots
  <2>2. Shapes(h)
    BY DEF Books
  <2> QED
    BY <2>1, <2>2 DEF Shapes, KeyAt
<1> HIDE DEF key
<1>2. keys \in [Keys -> Int] /\ \A k \in Keys : keys[k] = IF k = key THEN h.keys[key] - 1 ELSE h.keys[k]
  BY <1>0, <1>1
<1>3. g = [h EXCEPT !.keys = keys]
  BY DEF key, DisownKey
<1> HIDE DEF keys, g
<1>4. /\ g \in Heap /\ g.live = h.live /\ g.count = h.count /\ g.refs = h.refs /\ g.room = h.room
      /\ g.static = h.static /\ g.items = h.items /\ g.size = h.size /\ g.block = h.block
      /\ g.position = h.position /\ g.keys = keys
  BY <1>0, <1>2, <1>3 DEF Heap
<1>5. Places(g) = Places(h) /\ Slots(g) = Slots(h) /\ KeyAt(g) = KeyAt(h) /\ Positive(g) = Positive(h)
  BY <1>4 DEF Places, Slots, KeyAt, Positive
<1>6. \A q : ValueAt(g, q) = ValueAt(h, q)
  BY <1>4 DEF ValueAt
<1>7. \A o : Owners(g, X, o) = Owners(h, X, o)
  BY <1>5, <1>6 DEF Owners
<1>8. ASSUME NEW k \in Keys
      PROVE  g.keys[k] = Cardinality(Holders(g, Z \union {p}, k))
  <2>1. h.keys[k] = Cardinality(Holders(h, Z, k)) /\ h.keys[k] \in Int
    BY <1>0 DEF Books, Counted
  <2>2. Cardinality(Holders(h, Z, k)) = Cardinality(Holders(h, Z \union {p}, k)) + OneIf(key = k)
    BY <1>0, <1>1, HoldersLess
  <2>3. Holders(g, Z \union {p}, k) = Holders(h, Z \union {p}, k)
    BY <1>5 DEF Holders
  <2>4. Cardinality(Holders(h, Z \union {p}, k)) \in Nat
    BY <1>0, OwnersFinite
  <2>5. g.keys[k] = h.keys[k] - OneIf(key = k)
    BY <1>2, <1>4, <2>1 DEF OneIf
  <2>6. OneIf(key = k) \in Nat
    BY DEF OneIf
  <2> QED
    BY <2>1, <2>2, <2>3, <2>4, <2>5, <2>6
<1>9. Counted(g, L, X, Z \union {p})
  BY <1>4, <1>7, <1>8 DEF Counted, Books
<1>10. Living(g, Y)
  BY <1>4, <1>5 DEF Living, Books
<1>11. Stale(g, L, X, Z \union {p}, Y)
  BY <1>1, <1>5, <1>6 DEF Stale, Books, HeldBy
<1>12. Shapes(g) /\ BlocksFit(g) /\ RoomForRefs(g)
  BY <1>4 DEF Shapes, BlocksFit, RoomForRefs, Books
<1>13. Wiring(g)
  BY <1>4, <1>5, <1>6, WiringSame DEF Books
<1>14. Fades(h, g)
  BY <1>4, <1>5 DEF Fades
<1>15. SameLayout(g, h)
  BY <1>4, <1>5 DEF SameLayout
<1>16. Ordered(g)
  BY <1>4, OrderKept DEF Books
<1> QED
  BY <1>4, <1>9, <1>10, <1>11, <1>12, <1>13, <1>14, <1>15, <1>16 DEF Books, g, key

\* The positions from a to b of a container.
Span(c, a, b) == {p \in Objects \X Nat : p[1] = c /\ p[2] \in a..b}
KeySpan(c, a, b) == IF c \in Tables THEN Span(c, a, b) ELSE {}

\* No more objects than there are have references to them.
LEMMA PositiveFinite ==
    ASSUME NEW h \in Heap
    PROVE  IsFiniteSet(Positive(h)) /\ Cardinality(Positive(h)) \in Nat
           /\ Cardinality(Positive(h)) <= Cardinality(Objects) /\ Cardinality(Objects) \in Nat
<1>1. IsFiniteSet(Objects) /\ Positive(h) \in SUBSET Objects
  BY ContainersAssumption DEF Positive
<1> QED
  BY <1>1, FS_Subset, FS_CardinalityType

\* While heaps fade no object comes to be owned.
LEMMA FewerPositive ==
    ASSUME NEW h \in Heap, NEW g \in Heap, Fades(h, g)
    PROVE  Cardinality(Positive(g)) <= Cardinality(Positive(h))
  BY PositiveFinite, FS_Subset DEF Fades

\* An item that a destructor or a removal disowns is left out of the books, and
\* what it owned has been dealt with.
LEMMA DisownItemDoes ==
    ASSUME NEW disown, NEW d \in Nat, DownsWell(disown, d),
           NEW h, NEW L, NEW X, NEW Z, NEW Y, Books(h, L, X, Z, Y), Cardinality(Positive(h)) <= d,
           NEW c \in L \union Y, NEW i \in 1..Len(h.items[c]), <<c, i>> \notin X, <<c, i>> \notin Z
    PROVE  LET g == DisownItem(disown, h, c, i)
           IN  /\ Books(g, L, X \union {<<c, i>>}, IF c \in Tables THEN Z \union {<<c, i>>} ELSE Z, Y)
               /\ Fades(h, g)
<1> DEFINE p == <<c, i>>
           k == IF c \in Tables THEN DisownKey(h, h.items[c][i].key) ELSE h
           Z2 == IF c \in Tables THEN Z \union {p} ELSE Z
           g == DisownAt(disown, k, p)
<1>0. h \in Heap /\ c \in Objects /\ i \in Nat
  BY HeapFields DEF Books, Stale, Living
<1>1. p \in Places(h) /\ Len(p) = 2 /\ p[1] = c /\ p[2] = i /\ p \notin Z /\ p \notin X
  BY <1>0, PlacesAre
<1>2. Books(k, L, X, Z2, Y) /\ Fades(h, k) /\ SameLayout(k, h)
  <2>1. CASE c \in Tables
    <3>1. Books(k, L, X, Z \union {p}, Y) /\ Fades(h, k) /\ SameLayout(k, h)
      <4>1. p \in Slots(h) /\ KeyAt(h)[p] = h.items[c][i].key
        BY <1>0, <2>1 DEF Slots, KeyAt
      <4>2. k = DisownKey(h, KeyAt(h)[p]) /\ p[1] \in L \union Y /\ p \notin Z
        BY <1>1, <2>1, <4>1
      <4> HIDE DEF k, p
      <4> QED
        BY <4>1, <4>2, KeyLess
    <3> HIDE DEF k, p
    <3> QED
      BY <3>1, <2>1
  <2>2. CASE c \notin Tables
    <3>1. k = h /\ Z2 = Z
      BY <2>2
    <3>2. SameLayout(h, h)
      BY DEF SameLayout
    <3> HIDE DEF k, Z2
    <3> QED
      BY <3>1, <3>2, FadesItself
  <2> QED
    BY <2>1, <2>2
<1>3. DisownItem(disown, h, c, i) = g
  BY DEF DisownItem
<1> HIDE DEF k, g, Z2, p
<1>4. Books(g, L, X \union {p}, Z2, Y) /\ Fades(k, g)
  <2>1. p \in Places(k)
    BY <1>1, <1>2 DEF SameLayout
  <2>2. Cardinality(Positive(k)) <= d
    <3>1. k \in Heap
      BY <1>2 DEF Books
    <3>2. Cardinality(Positive(k)) <= Cardinality(Positive(h)) /\ Cardinality(Positive(k)) \in Nat
          /\ Cardinality(Positive(h)) \in Nat
      BY <3>1, <1>0, <1>2, FewerPositive, PositiveFinite
    <3> QED
      BY <3>2
  <2>3. Len(p) = 2 => p[1] \in L \union Y
    BY <1>1
  <2> QED
    BY <1>1, <1>2, <2>1, <2>2, <2>3, DisownAtDoes DEF g
<1>5. Fades(h, g)
  BY <1>2, <1>4, FadesOn
<1> QED
  BY <1>3, <1>4, <1>5 DEF Z2, p

\* So are the items from one position to another: the loop of the destructor.
LEMMA DisownItemsDoes ==
    ASSUME NEW disown, NEW d \in Nat, DownsWell(disown, d),
           NEW h, NEW L, NEW X, NEW Z, NEW Y, Books(h, L, X, Z, Y), Cardinality(Positive(h)) <= d,
           NEW c \in L \union Y, NEW from \in Nat \ {0}, NEW to \in Nat, to <= Len(h.items[c]), from <= to + 1,
           \A i : <<c, i>> \notin X /\ <<c, i>> \notin Z
    PROVE  LET g == DisownItems(disown, h, c, from, to)
           IN  /\ Books(g, L, X \union Span(c, from, to), Z \union KeySpan(c, from, to), Y)
               /\ Fades(h, g)
<1> DEFINE N == to - from + 1
           XX(n) == X \union Span(c, from, from + n - 1)
           ZZ(n) == Z \union KeySpan(c, from, from + n - 1)
           J == [n \in 0..N |-> {g \in Heap : Books(g, L, XX(n), ZZ(n), Y) /\ Fades(h, g)}]
<1>0. h \in Heap /\ c \in Objects /\ Len(h.items[c]) \in Nat /\ from \in Int /\ to \in Int /\ N \in Nat
  BY HeapFields DEF Books, Stale, Living
<1>1. h \in J[0]
  <2>1. Span(c, from, from + 0 - 1) = {} /\ KeySpan(c, from, from + 0 - 1) = {}
    BY DEF Span, KeySpan
  <2>2. XX(0) = X /\ ZZ(0) = Z
    BY <2>1
  <2>3. 0 \in 0..N
    BY <1>0
  <2> HIDE DEF XX, ZZ
  <2> QED
    BY <1>0, <2>2, <2>3, FadesItself
<1>2. ASSUME NEW n \in 1..N, NEW g \in J[n - 1]
      PROVE  DisownItem(disown, g, c, from + n - 1) \in J[n]
  <2> DEFINE i == from + n - 1
             p == <<c, i>>
  <2>1. n - 1 \in 0..N /\ n \in 0..N /\ i \in Nat /\ i \in 1..Len(h.items[c]) /\ from + (n - 1) - 1 = i - 1
    BY <1>0
  <2>2. g \in Heap /\ Books(g, L, XX(n - 1), ZZ(n - 1), Y) /\ Fades(h, g)
    BY <2>1
  <2>3. Len(g.items[c]) = Len(h.items[c])
    <3>1. c \in g.live
      <4>1. c \in L => c \in g.live
        BY <2>2, BooksSay
      <4>2. c \in Y => c \in g.live
        BY <2>2 DEF Books, Living
      <4> QED
        BY <4>1, <4>2
    <3> QED
      BY <3>1, <1>0, <2>2 DEF Fades
  <2>4. Span(c, from, i) = Span(c, from, i - 1) \union {p} /\ p \notin Span(c, from, i - 1)
    BY <2>1, <1>0 DEF Span
  <2>5. p \notin XX(n - 1) /\ p \notin ZZ(n - 1)
    BY <2>1, <2>4 DEF KeySpan
  <2>6. Cardinality(Positive(g)) <= d
    <3>1. Cardinality(Positive(g)) <= Cardinality(Positive(h)) /\ Cardinality(Positive(g)) \in Nat
          /\ Cardinality(Positive(h)) \in Nat
      BY <1>0, <2>2, FewerPositive, PositiveFinite
    <3> QED
      BY <3>1
  <2>7. XX(n) = XX(n - 1) \union {p} /\ ZZ(n) = IF c \in Tables THEN ZZ(n - 1) \union {p} ELSE ZZ(n - 1)
    BY <2>1, <2>4 DEF KeySpan
  <2> DEFINE g2 == DisownItem(disown, g, c, i)
  <2> HIDE DEF XX, ZZ, i, p
  <2>8. i \in 1..Len(g.items[c])
    BY <2>1, <2>3
  <2>9. Books(g2, L, XX(n), ZZ(n), Y) /\ Fades(g, g2)
    <3>1. /\ Books(g2, L, XX(n - 1) \union {<<c, i>>},
                   IF c \in Tables THEN ZZ(n - 1) \union {<<c, i>>} ELSE ZZ(n - 1), Y)
          /\ Fades(g, g2)
      <4>1. <<c, i>> \notin XX(n - 1) /\ <<c, i>> \notin ZZ(n - 1)
        BY <2>5 DEF p
      <4> DEFINE X1 == XX(n - 1)
                 Z1 == ZZ(n - 1)
      <4>2. Books(g, L, X1, Z1, Y) /\ <<c, i>> \notin X1 /\ <<c, i>> \notin Z1
        BY <2>2, <4>1
      <4> HIDE DEF X1, Z1
      <4>3. /\ Books(g2, L, X1 \union {<<c, i>>}, IF c \in Tables THEN Z1 \union {<<c, i>>} ELSE Z1, Y)
            /\ Fades(g, g2)
        BY <4>2, <2>6, <2>8, DisownItemDoes
      <4> QED
        BY <4>3 DEF X1, Z1
    <3> QED
      BY <3>1, <2>7 DEF p
  <2>10. Fades(h, g2)
    BY <2>2, <2>9, FadesOn
  <2>11. g2 \in Heap
    BY <2>9 DEF Books
  <2> HIDE DEF g2
  <2>12. g2 \in J[n]
    BY <2>1, <2>9, <2>10, <2>11
  <2> QED
    BY <2>12 DEF g2, i
<1> DEFINE after[n \in 0..N] == IF n = 0 THEN h ELSE DisownItem(disown, after[n - 1], c, from + n - 1)
<1>3. after[N] \in J[N]
  <2> HIDE DEF J
  <2> QED
    BY <1>0, <1>1, <1>2, DisownItemsLoop
<1>4. DisownItems(disown, h, c, from, to) = after[N]
  BY DEF DisownItems
<1> HIDE DEF after
<1>5. from + N - 1 = to /\ N \in 0..N
  BY <1>0
<1>6. Books(after[N], L, XX(N), ZZ(N), Y) /\ Fades(h, after[N])
  BY <1>3, <1>5
<1> QED
  BY <1>4, <1>5, <1>6

\* The last object that is being destroyed goes, when its items have been
\* disowned and its weak references killed.
LEMMA Gone ==
    ASSUME NEW k, NEW L, NEW X, NEW Z, NEW Y, NEW o \in Objects, o \notin Y,
           NEW n \in Nat, Len(k.items[o]) = n, Len(k.refs[o]) = 0,
           Books(k, L, X \union Span(o, 1, n), Z \union KeySpan(o, 1, n), Y \union {o}),
           HeldBy(X, L \union Y), HeldBy(Z, L \union Y)
    PROVE  LET g == Freed(k, o)
           IN  Books(g, L, X, Z, Y) /\ Fades(k, g)
<1> DEFINE X1 == X \union Span(o, 1, n)
           Z1 == Z \union KeySpan(o, 1, n)
           items == [k.items EXCEPT ![o] = << >>]
           size == [k.size EXCEPT ![o] = 0]
           block == [b \in Vectors \union Dstrings |-> IF b = o THEN NoBlock ELSE k.block[b]]
           position == [f \in Files |-> IF f = o THEN 0 ELSE k.position[f]]
           g == Freed(k, o)
<1>0. /\ k \in Heap /\ k.items \in [Objects -> Seq(Items1)] /\ k.size \in [Objects -> Nat]
      /\ k.block \in [Vectors \union Dstrings -> Blocks] /\ k.position \in [Files -> Nat]
      /\ k.live \in SUBSET Objects /\ k.count \in [Objects -> Int]
  BY HeapFields DEF Books
<1>a. /\ Wiring(k) /\ RoomForRefs(k) /\ Counted(k, L, X1, Z1) /\ Living(k, Y \union {o})
      /\ Stale(k, L, X1, Z1, Y \union {o}) /\ Shapes(k) /\ BlocksFit(k) /\ Ordered(k)
  BY DEF Books
<1>1. NoBlock \in Blocks /\ NoBlock.within /\ NoBlock.length = 0 /\ Len(NoBlock.cells) = 0
  BY DEF NoBlock, Block, Blocks
<1>2. /\ items \in [Objects -> Seq(Items1)] /\ size \in [Objects -> Nat]
      /\ block \in [Vectors \union Dstrings -> Blocks] /\ position \in [Files -> Nat]
      /\ \A c \in Objects : items[c] = IF c = o THEN << >> ELSE k.items[c]
      /\ \A c \in Objects : size[c] = IF c = o THEN 0 ELSE k.size[c]
  BY <1>0, <1>1
<1>3. g = [k EXCEPT !.live = @ \ {o}, !.items = items, !.size = size, !.block = block, !.position = position]
  BY <1>0 DEF Freed
<1>b. \A b \in Vectors \union Dstrings : block[b] = IF b = o THEN NoBlock ELSE k.block[b]
  OBVIOUS
<1> HIDE DEF items, size, block, position, g
<1>4. /\ g \in Heap /\ g.live = k.live \ {o} /\ g.count = k.count /\ g.keys = k.keys /\ g.refs = k.refs
      /\ g.room = k.room /\ g.static = k.static /\ g.items = items /\ g.size = size /\ g.block = block
  BY <1>0, <1>2, <1>3 DEF Heap, Items1
<1>5. \A p : p \in Places(g) <=> p \in Places(k) /\ p \notin Span(o, 1, n)
  <2> SUFFICES ASSUME NEW p PROVE p \in Places(g) <=> p \in Places(k) /\ p \notin Span(o, 1, n)
    OBVIOUS
  <2>1. CASE \E s \in Statics : p = <<s>>
    <3>1. p \in Places(g) /\ p \in Places(k)
      BY <2>1 DEF Places
    <3>2. p \notin Objects \X Nat
      BY <2>1
    <3> QED
      BY <3>1, <3>2 DEF Span
  <2>2. CASE ~\E s \in Statics : p = <<s>>
    <3>1. CASE p \in Objects \X Nat
      <4>1. g.items[p[1]] = IF p[1] = o THEN << >> ELSE k.items[p[1]]
        BY <3>1, <1>2, <1>4
      <4>2. p[1] = o => p[2] \notin 1..Len(g.items[p[1]])
        BY <4>1, <3>1
      <4>3. p \in Places(g) <=> p[2] \in 1..Len(g.items[p[1]])
        BY <2>2, <3>1 DEF Places
      <4>4. p \in Places(k) <=> p[2] \in 1..Len(k.items[p[1]])
        BY <2>2, <3>1 DEF Places
      <4>5. p \in Span(o, 1, n) <=> p[1] = o /\ p[2] \in 1..n
        BY <3>1 DEF Span
      <4> QED
        BY <4>1, <4>2, <4>3, <4>4, <4>5
    <3>2. CASE p \notin Objects \X Nat
      BY <2>2, <3>2 DEF Places
    <3> QED
      BY <3>1, <3>2
  <2> QED
    BY <2>1, <2>2
<1>6. \A p \in Places(g) : ValueAt(g, p) = ValueAt(k, p)
  <2> SUFFICES ASSUME NEW p \in Places(g) PROVE ValueAt(g, p) = ValueAt(k, p)
    OBVIOUS
  <2>1. CASE \E s \in Statics : p = <<s>> /\ Len(p) = 1
    BY <2>1, <1>4 DEF ValueAt
  <2>2. CASE \E c \in Objects : \E i \in 1..Len(g.items[c]) : p = <<c, i>> /\ Len(p) = 2
    <3>1. PICK c \in Objects : \E i \in 1..Len(g.items[c]) : p = <<c, i>> /\ Len(p) = 2
      BY <2>2
    <3>2. PICK i \in 1..Len(g.items[c]) : p = <<c, i>> /\ Len(p) = 2
      BY <3>1
    <3>3. c # o
      BY <3>2, <1>2, <1>4
    <3>4. g.items[c] = k.items[c]
      BY <3>3, <1>2, <1>4
    <3> QED
      BY <3>2, <3>4 DEF ValueAt
  <2> QED
    BY <1>4, <2>1, <2>2, PlacesAre
<1>7. \A p \in X \union Z : p \notin Span(o, 1, n)
  <2> SUFFICES ASSUME NEW p \in X \union Z, p \in Span(o, 1, n) PROVE FALSE
    OBVIOUS
  <2>1. Len(p) = 2 /\ p[1] = o
    BY DEF Span
  <2>2. o \in L
    BY <2>1 DEF HeldBy
  <2> QED
    BY <2>2, BooksSay
<1>8. \A q \in Objects : Owners(g, X, q) = Owners(k, X1, q)
  BY <1>5, <1>6 DEF Owners
<1>9. \A p : p \in Slots(g) <=> p \in Slots(k) /\ p \notin KeySpan(o, 1, n)
  <2> SUFFICES ASSUME NEW p PROVE p \in Slots(g) <=> p \in Slots(k) /\ p \notin KeySpan(o, 1, n)
    OBVIOUS
  <2>1. CASE p \notin Objects \X Nat
    BY <2>1 DEF Slots
  <2>2. CASE p \in Objects \X Nat
    <3>1. g.items[p[1]] = IF p[1] = o THEN << >> ELSE k.items[p[1]]
      BY <2>2, <1>2, <1>4
    <3>2. p[1] = o => p[2] \notin 1..Len(g.items[p[1]])
      BY <3>1, <2>2
    <3>3. p \in Slots(g) <=> p[1] \in Tables /\ p[2] \in 1..Len(g.items[p[1]])
      BY <2>2 DEF Slots
    <3>4. p \in Slots(k) <=> p[1] \in Tables /\ p[2] \in 1..Len(k.items[p[1]])
      BY <2>2 DEF Slots
    <3>5. p \in KeySpan(o, 1, n) <=> o \in Tables /\ p[1] = o /\ p[2] \in 1..n
      BY <2>2 DEF KeySpan, Span
    <3> QED
      BY <3>1, <3>2, <3>3, <3>4, <3>5
  <2> QED
    BY <2>1, <2>2
<1>10. \A p \in Slots(g) : KeyAt(g)[p] = KeyAt(k)[p]
  <2> SUFFICES ASSUME NEW p \in Slots(g) PROVE KeyAt(g)[p] = KeyAt(k)[p]
    OBVIOUS
  <2>1. p[1] \in Objects /\ p[2] \in 1..Len(g.items[p[1]])
    BY DEF Slots
  <2>2. p[1] # o
    BY <2>1, <1>2, <1>4
  <2>3. g.items[p[1]] = k.items[p[1]] /\ p \in Slots(k)
    BY <2>1, <2>2, <1>2, <1>4, <1>9
  <2> QED
    BY <2>3 DEF KeyAt
<1>11. \A key : Holders(g, Z, key) = Holders(k, Z1, key)
  BY <1>9, <1>10 DEF Holders
<1>12. Counted(g, L, X, Z)
  BY <1>4, <1>8, <1>11, <1>a DEF Counted
<1>13. Living(g, Y)
  <2>1. Positive(g) = Positive(k)
    BY <1>4 DEF Positive
  <2>2. /\ Y \union {o} \subseteq Objects /\ (Y \union {o}) \cap Positive(k) = {}
        /\ k.live = Positive(k) \union Y \union {o}
        /\ \A x \in Objects \ k.live : Len(k.items[x]) = 0 /\ Len(k.refs[x]) = 0
    BY <1>a DEF Living
  <2>3. g.live = Positive(g) \union Y
    BY <2>1, <2>2, <1>4
  <2>4. \A x \in Objects \ g.live : Len(g.items[x]) = 0 /\ Len(g.refs[x]) = 0
    <3> SUFFICES ASSUME NEW x \in Objects \ g.live PROVE Len(g.items[x]) = 0 /\ Len(g.refs[x]) = 0
      OBVIOUS
    <3>1. CASE x = o
      BY <3>1, <1>2, <1>4
    <3>2. CASE x # o
      <4>1. x \in Objects \ k.live
        BY <3>2, <1>4
      <4>2. g.items[x] = k.items[x] /\ g.refs[x] = k.refs[x]
        BY <3>2, <4>1, <1>2, <1>4
      <4>3. Len(k.items[x]) = 0 /\ Len(k.refs[x]) = 0
        BY <4>1, <2>2
      <4> QED
        BY <4>2, <4>3
    <3> QED
      BY <3>1, <3>2
  <2> QED
    BY <2>1, <2>2, <2>3, <2>4 DEF Living
<1>14. Stale(g, L, X, Z, Y)
  <2>1. X \subseteq Places(k) /\ Z \subseteq Slots(k) /\ L \subseteq Objects
        /\ \A p \in X : ValueAt(k, p).kind # "weak"
    BY <1>a DEF Stale
  <2>2. X \subseteq Places(g)
    BY <2>1, <1>5, <1>7
  <2>3. Z \subseteq Slots(g)
    <3>1. \A p : p \in KeySpan(o, 1, n) => p \in Span(o, 1, n)
      BY DEF KeySpan
    <3> QED
      BY <2>1, <3>1, <1>9, <1>7
  <2> QED
    BY <2>1, <2>2, <2>3, <1>6 DEF Stale
<1>15. Shapes(g)
  <2>1. \A c \in Objects : Len(g.items[c]) <= g.size[c]
    <3> SUFFICES ASSUME NEW c \in Objects PROVE Len(g.items[c]) <= g.size[c]
      OBVIOUS
    <3>1. CASE c = o
      BY <3>1, <1>2, <1>4
    <3>2. CASE c # o
      BY <3>2, <1>2, <1>4, <1>a DEF Shapes
    <3> QED
      BY <3>1, <3>2
  <2>2. ASSUME NEW t \in Tables, NEW i \in 1..Len(g.items[t]) PROVE g.items[t][i].key \in Keys
    <3>1. t \in Objects
      BY DEF Objects, P!Objects
    <3>2. t # o
      BY <3>1, <1>2, <1>4
    <3> QED
      BY <3>1, <3>2, <1>2, <1>4, <1>a DEF Shapes
  <2>3. \A b \in Vectors \union Dstrings : Len(g.items[b]) = 0
    <3>1. \A b \in Vectors \union Dstrings : b \in Objects
      BY DEF Objects, P!Objects
    <3> QED
      BY <3>1, <1>2, <1>4, <1>a DEF Shapes
  <2>4. ASSUME NEW f \in Files, f \in g.live
        PROVE  Len(g.items[f]) = 1 /\ FileValue(g.items[f][1].value)
    <3>1. f \in Objects /\ f # o /\ f \in k.live
      BY <2>4, <1>4 DEF Objects, P!Objects
    <3> QED
      BY <3>1, <1>2, <1>4, <1>a DEF Shapes
  <2> QED
    BY <2>1, <2>2, <2>3, <2>4 DEF Shapes
<1>16. BlocksFit(g)
  BY <1>1, <1>4, <1>b, <1>a DEF BlocksFit, Fits
<1>17. RoomForRefs(g)
  BY <1>4, <1>a DEF RoomForRefs
<1>18. Wiring(g)
  <2>1. ASSUME NEW x \in Objects, NEW j \in 1..Len(g.refs[x])
        PROVE  g.refs[x][j] \in Places(g) /\ ValueAt(g, g.refs[x][j]) = Weak(x, j - 1)
    <3> DEFINE r == k.refs[x][j]
    <3>1. j \in 1..Len(k.refs[x]) /\ g.refs[x][j] = r
      BY <1>4
    <3>2. r \in Places(k) /\ ValueAt(k, r) = Weak(x, j - 1)
      BY <3>1, <1>a DEF Wiring
    <3>3. Weak(x, j - 1).kind = "weak"
      BY DEF Weak
    <3>4. r \notin X1
      BY <3>2, <3>3, <1>a DEF Stale
    <3> HIDE DEF r
    <3>5. r \in Places(g)
      BY <3>2, <3>4, <1>5
    <3> QED
      BY <3>1, <3>2, <3>5, <1>6
  <2>2. ASSUME NEW p \in Places(g), ValueAt(g, p).kind = "weak"
        PROVE  LET v == ValueAt(g, p)
               IN  v.index + 1 \in 1..Len(g.refs[v.o]) /\ g.refs[v.o][v.index + 1] = p
    <3>1. p \in Places(k) /\ ValueAt(k, p) = ValueAt(g, p)
      BY <1>5, <1>6
    <3> QED
      BY <3>1, <2>2, <1>4, <1>a DEF Wiring
  <2> QED
    BY <2>1, <2>2 DEF Wiring
<1>18a. Ordered(g)
  <2> SUFFICES ASSUME NEW t \in Tables PROVE InOrder(g, t)
    BY DEF Ordered
  <2>1. t \in Objects
    BY DEF Objects, P!Objects
  <2>2. CASE t = o
    <3>1. Len(g.items[t]) = 0
      BY <2>2, <2>1, <1>2, <1>4
    <3> QED
      BY <3>1 DEF InOrder
  <2>3. CASE t # o
    <3>1. g.items[t] = k.items[t]
      BY <2>3, <2>1, <1>2, <1>4
    <3>2. InOrder(k, t)
      BY <1>a DEF Ordered
    <3> QED
      BY <3>1, <3>2 DEF InOrder
  <2> QED
    BY <2>2, <2>3
<1>19. Books(g, L, X, Z, Y)
  BY <1>4, <1>12, <1>13, <1>14, <1>15, <1>16, <1>17, <1>18, <1>18a DEF Books
<1>20. Fades(k, g)
  <2>1. Positive(g) = Positive(k)
    BY <1>4 DEF Positive
  <2> QED
    BY <2>1, <1>2, <1>4 DEF Fades
<1> QED
  BY <1>19, <1>20 DEF g

\* What a destructor does, when those of other objects do well.
LEMMA DestroyedDoes ==
    ASSUME NEW disown, NEW d \in Nat, DownsWell(disown, d),
           NEW h, NEW L, NEW X, NEW Z, NEW Y, NEW o \in Objects, o \notin Y,
           Books(h, L, X, Z, Y \union {o}), Cardinality(Positive(h)) <= d,
           HeldBy(X, L \union Y), HeldBy(Z, L \union Y)
    PROVE  LET g == Destroyed(disown, h, o)
           IN  Books(g, L, X, Z, Y) /\ Fades(h, g)
<1> DEFINE n == Len(h.items[o])
           f == DisownItems(disown, h, o, 1, n)
           k == KillWeakrefs(f, o)
           g == Freed(k, o)
           Y1 == Y \union {o}
           X1 == X \union Span(o, 1, n)
           Z1 == Z \union KeySpan(o, 1, n)
<1>0. h \in Heap /\ n \in Nat /\ o \notin L
  BY HeapFields, BooksSay DEF Books
<1>1. Destroyed(disown, h, o) = g
  BY DEF Destroyed
<1>2. Books(f, L, X1, Z1, Y1) /\ Fades(h, f)
  <2>1. ASSUME NEW i PROVE <<o, i>> \notin X /\ <<o, i>> \notin Z
    <3>1. Len(<<o, i>>) = 2 /\ <<o, i>>[1] = o
      OBVIOUS
    <3>2. o \notin L \union Y
      BY <1>0
    <3> DEFINE p == <<o, i>>
    <3>3. Len(p) = 2 /\ p[1] = o
      BY <3>1
    <3> HIDE DEF p
    <3>4. p \notin X /\ p \notin Z
      BY <3>2, <3>3 DEF HeldBy
    <3> QED
      BY <3>4 DEF p
  <2>2. 1 \in Nat \ {0} /\ n <= Len(h.items[o]) /\ 1 <= n + 1 /\ o \in L \union Y1
    BY <1>0
  <2> HIDE DEF n, Y1
  <2>3. Books(f, L, X \union Span(o, 1, n), Z \union KeySpan(o, 1, n), Y1) /\ Fades(h, f)
    BY <1>0, <2>1, <2>2, DisownItemsDoes DEF Y1
  <2> QED
    BY <2>3
<1> HIDE DEF f
<1>3. Wiring(f) /\ RoomForRefs(f) /\ f \in Heap /\ Stale(f, L, X1, Z1, Y1) /\ Living(f, Y1) /\ Shapes(f)
  BY <1>2 DEF Books
<1>4. /\ k \in Heap /\ Wiring(k) /\ RoomForRefs(k)
      /\ SameLayout(k, f) /\ SameCounts(k, f) /\ SameBlocks(k, f)
      /\ \A q \in Places(f) : ValueAt(k, q) =
            IF ValueAt(f, q).kind = "weak" /\ ValueAt(f, q).o = o THEN Nil ELSE ValueAt(f, q)
      /\ \A x \in Objects : k.refs[x] = IF x = o THEN << >> ELSE f.refs[x]
  BY <1>3, KillDoes
<1> HIDE DEF k
<1>5. Books(k, L, X1, Z1, Y1)
  <2>1. \A x \in Objects \ f.live : Len(k.refs[x]) = 0
    <3>1. \A x \in Objects \ f.live : Len(f.refs[x]) = 0
      BY <1>3 DEF Living
    <3>2. Len(<< >>) = 0
      OBVIOUS
    <3> QED
      BY <3>1, <3>2, <1>4
  <2>2. ASSUME NEW q \in Objects PROVE Owners(k, X1, q) = Owners(f, X1, q)
    <3>1. Strong(q).kind = "strong" /\ Strong(q) # Nil /\ Strong(q).kind # "weak"
      BY ValueFacts
    <3>2. Places(k) = Places(f)
      BY <1>4 DEF SameLayout
    <3>3. \A p \in Places(f) : ValueAt(k, p) = Strong(q) <=> ValueAt(f, p) = Strong(q)
      BY <1>4, <3>1
    <3> HIDE DEF X1
    <3> QED
      BY <3>2, <3>3 DEF Owners
  <2>3. X1 \subseteq Places(f) /\ HeldBy(X1, L \union Y1)
    BY <1>3 DEF Stale
  <2>4. \A p \in X1 : ValueAt(k, p).kind # "weak"
    <3>1. \A p \in X1 : p \in Places(f) /\ ValueAt(f, p).kind # "weak"
      BY <1>3 DEF Stale
    <3> QED
      BY <3>1, <1>4, ValueFacts
  <2>5. ASSUME NEW x \in Files, x \in f.live PROVE FileValue(ValueAt(k, <<x, 1>>))
    <3>1. x \in Objects /\ Len(f.items[x]) = 1 /\ FileValue(f.items[x][1].value)
      BY <1>3, <2>5 DEF Shapes, Objects, P!Objects
    <3>2. <<x, 1>> \in Places(f) /\ ValueAt(f, <<x, 1>>) = f.items[x][1].value
      BY <1>3, <3>1, PlacesAre
    <3>3. ValueAt(f, <<x, 1>>).kind # "weak"
      BY <3>1, <3>2, ValueFacts DEF FileValue, Objects, P!Objects
    <3> QED
      BY <3>1, <3>2, <3>3, <1>4
  <2> HIDE DEF X1, Z1, Y1
  <2> QED
    BY <1>2, <1>4, <2>1, <2>2, <2>3, <2>4, <2>5, ValuesChanged
<1>6. Fades(f, k)
  BY <1>3, <1>4, FadesSame DEF SameCounts
<1>7. Len(k.items[o]) = n /\ Len(k.refs[o]) = 0
  <2>1. o \in f.live
    BY <1>3 DEF Living
  <2>2. Len(f.items[o]) = n
    BY <1>2, <2>1 DEF Fades
  <2>3. Len(k.refs[o]) = 0
    <3>1. k.refs[o] = << >>
      BY <1>4
    <3> QED
      BY <3>1
  <2> QED
    BY <2>2, <2>3, <1>4 DEF SameLayout
<1>8. Books(g, L, X, Z, Y) /\ Fades(k, g)
  <2> HIDE DEF n
  <2> QED
    BY <1>0, <1>5, <1>7, Gone
<1> HIDE DEF g
<1>9. Fades(h, g)
  BY <1>2, <1>6, <1>8, FadesOn
<1> QED
  BY <1>1, <1>8, <1>9

\* A destructor is run if the last owner goes.
LEMMA DisownOnceDoes ==
    ASSUME NEW disown, NEW d \in Nat, DownsWell(disown, d),
           NEW h, NEW L, NEW X, NEW Z, NEW Y, NEW o, Due(h, o, L, X, Z, Y),
           Cardinality(Positive(h)) <= d + 1
    PROVE  LET g == DisownOnce(disown, h, o)
           IN  Books(g, L, X, Z, Y) /\ Fades(h, g)
<1> DEFINE less == [h EXCEPT !.count[o] = @ - 1]
           g == DisownOnce(disown, h, o)
<1>0. /\ h \in Heap /\ o \in Objects /\ h.count[o] >= 1 /\ o \notin Y
      /\ HeldBy(X, L \union Y) /\ HeldBy(Z, L \union Y)
      /\ h.count[o] \in Int /\ h.count \in [Objects -> Int]
      /\ Books(less, L, X, Z, IF h.count[o] = 1 THEN Y \union {o} ELSE Y)
  BY HeapFields DEF Due
<1>1. g = IF h.count[o] > 1 THEN less ELSE Destroyed(disown, less, o)
  BY DEF DisownOnce
<1>2. /\ less.live = h.live /\ less.items = h.items
      /\ \A q \in Objects : less.count[q] = IF q = o THEN h.count[o] - 1 ELSE h.count[q]
  BY <1>0 DEF Heap
<1> HIDE DEF less, g
<1>3. Positive(less) = IF h.count[o] = 1 THEN Positive(h) \ {o} ELSE Positive(h)
  BY <1>0, <1>2 DEF Positive
<1>4. Fades(h, less)
  BY <1>2, <1>3 DEF Fades
<1>5. CASE h.count[o] > 1
  <2>1. g = less /\ h.count[o] # 1
    BY <1>0, <1>1, <1>5
  <2> QED
    BY <2>1, <1>0, <1>4 DEF g
<1>6. CASE h.count[o] = 1
  <2>1. g = Destroyed(disown, less, o) /\ Books(less, L, X, Z, Y \union {o})
    BY <1>0, <1>1, <1>6
  <2>2. Cardinality(Positive(less)) <= d
    <3>1. o \in Positive(h) /\ Positive(less) = Positive(h) \ {o}
      BY <1>0, <1>3, <1>6 DEF Positive
    <3>2. IsFiniteSet(Positive(h)) /\ Cardinality(Positive(h)) \in Nat
      BY <1>0, PositiveFinite
    <3>3. Cardinality(Positive(h) \ {o}) = Cardinality(Positive(h)) - 1
      BY <3>1, <3>2, FS_RemoveElement
    <3> QED
      BY <3>1, <3>2, <3>3
  <2>3. Books(g, L, X, Z, Y) /\ Fades(less, g)
    BY <2>1, <2>2, <1>0, DestroyedDoes
  <2>4. Fades(h, g)
    BY <2>3, <1>4, FadesOn
  <2> QED
    BY <2>3, <2>4 DEF g
<1> QED
  BY <1>0, <1>5, <1>6

-----------------------------------------------------------------------------
(* Disowning what an operation gives up.                                    *)

\* One more depth of destructors.
Down(depth, within) ==
    [o \in Objects |-> [h \in Heap |-> IF depth = 0 THEN h ELSE DisownOnce(within, h, o)]]

\* The function of which the last value is Disown exists.
LEMMA WithinExists ==
    ASSUME NEW N \in Nat
    PROVE  \E f : f = [depth \in 0..N |-> Down(depth, f[depth - 1])]
<1> DEFINE Is(f, k) == f = [depth \in 0..k |-> Down(depth, f[depth - 1])]
           none == {k \in 0..N : ~\E f : Is(f, k)}
<1>1. SUFFICES ASSUME N \in none PROVE FALSE
  OBVIOUS
<1>2. PICK k \in none : \A j \in none : k <= j
  <2>1. none \subseteq Nat
    OBVIOUS
  <2> HIDE DEF none
  <2> QED
    BY <1>1, <2>1, LeastNat
<1>3. \A w, x : Down(0, w) = Down(0, x)
  BY DEF Down
<1>4. CASE k = 0
  <2> DEFINE f == [depth \in 0..0 |-> Down(0, 0)]
  <2>1. Is(f, 0)
    <3>1. \A depth \in 0..0 : Down(depth, f[depth - 1]) = Down(0, 0)
      <4>1. \A depth \in 0..0 : depth = 0
        OBVIOUS
      <4> HIDE DEF f
      <4> QED
        BY <4>1, <1>3
    <3> HIDE DEF Down
    <3> QED
      BY <3>1
  <2> HIDE DEF Is, f
  <2> QED
    BY <2>1, <1>2, <1>4
<1>5. CASE k # 0
  <2>1. k \in 1..N /\ k - 1 \in 0..N /\ k - 1 < k
    BY <1>2, <1>5
  <2>2. k - 1 \notin none
    BY <1>2, <2>1
  <2>3. PICK f : f = [depth \in 0..k - 1 |-> Down(depth, f[depth - 1])]
    BY <2>1, <2>2
  <2> DEFINE g == [depth \in 0..k |-> IF depth = k THEN Down(k, f[k - 1]) ELSE f[depth]]
  <2>4. \A depth \in 0..k : g[depth] = IF depth = k THEN Down(k, f[k - 1]) ELSE f[depth]
    OBVIOUS
  <2>5. \A depth \in 0..k - 1 : f[depth] = Down(depth, f[depth - 1])
    BY <2>3
  <2>6. ASSUME NEW depth \in 0..k PROVE g[depth] = Down(depth, g[depth - 1])
    <3> HIDE DEF g
    <3>1. CASE depth = 0
      <4>1. g[0] = f[0] /\ f[0] = Down(0, f[0 - 1])
        <5>1. 0 \in 0..k /\ 0 # k /\ 0 \in 0..k - 1
          BY <2>1
        <5> QED
          BY <5>1, <2>4, <2>5
      <4> QED
        BY <3>1, <4>1, <1>3
    <3>2. CASE depth # 0
      <4>1. depth - 1 \in 0..k /\ depth - 1 # k
        BY <3>2, <2>1
      <4>2. g[depth - 1] = f[depth - 1]
        BY <4>1, <2>4
      <4>3. CASE depth = k
        BY <4>2, <4>3, <2>4
      <4>4. CASE depth # k
        <5>1. depth \in 0..k - 1
          BY <4>4, <2>1
        <5>2. g[depth] = f[depth]
          BY <4>4, <2>4
        <5> QED
          BY <5>1, <5>2, <4>2, <2>5
      <4> QED
        BY <4>3, <4>4
    <3> QED
      BY <3>1, <3>2
  <2>7. DOMAIN g = 0..k /\ g = [depth \in 0..k |-> g[depth]]
    OBVIOUS
  <2> HIDE DEF g, none
  <2>8. Is(g, k)
    <3>1. g = [depth \in 0..k |-> Down(depth, g[depth - 1])]
      <4> DEFINE r == [depth \in 0..k |-> Down(depth, g[depth - 1])]
      <4>1. DOMAIN r = 0..k /\ \A depth \in 0..k : r[depth] = g[depth]
        BY <2>6
      <4>2. r = [depth \in 0..k |-> r[depth]]
        OBVIOUS
      <4> HIDE DEF r
      <4>3. r = g
        BY <4>1, <4>2, <2>7
      <4> QED
        BY <4>3 DEF r
    <3> QED
      BY <3>1
  <2>9. k \notin none
    BY <2>8 DEF none
  <2> QED
    BY <2>9, <1>2
<1> QED
  BY <1>4, <1>5

\* So destructors of destructors do what they shall, however deep.
LEMMA DisownDownsWell == DownsWell(Disown, Cardinality(Objects))
<1> DEFINE N == Cardinality(Objects)
           within[depth \in 0..N] ==
            [o \in Objects |-> [h \in Heap |->
                IF depth = 0 THEN h ELSE DisownOnce(within[depth - 1], h, o)]]
<1>0. N \in Nat
  BY ContainersAssumption, FS_CardinalityType
<1>1. Disown = within[N]
  BY DEF Disown
<1>2. within = [depth \in 0..N |-> Down(depth, within[depth - 1])]
  <2> DEFINE body(f) == [depth \in 0..N |-> Down(depth, f[depth - 1])]
  <2>1. \E f : f = body(f)
    BY <1>0, WithinExists
  <2>2. within = CHOOSE f : f = body(f)
    BY DEF Down
  <2> HIDE DEF within, body
  <2>3. within = body(within)
    BY <2>1, <2>2
  <2> QED
    BY <2>3 DEF body
<1> HIDE DEF within
<1>3. \A depth \in 0..N : within[depth] = Down(depth, within[depth - 1])
  BY <1>2
<1> DEFINE bad == {k \in 0..N : ~DownsWell(within[k], k)}
<1>4. SUFFICES ASSUME N \in bad PROVE FALSE
  BY <1>0, <1>1
<1>5. PICK k \in bad : \A j \in bad : k <= j
  <2>1. bad \subseteq Nat
    OBVIOUS
  <2> HIDE DEF bad
  <2> QED
    BY <1>4, <2>1, LeastNat
<1>6. k \in 0..N /\ ~DownsWell(within[k], k) /\ k \in Nat
  BY <1>5
<1>7. ASSUME NEW h, NEW o, NEW L, NEW X, NEW Z, NEW Y, Due(h, o, L, X, Z, Y)
      PROVE  /\ h \in Heap /\ o \in Objects /\ Cardinality(Positive(h)) \in Nat
             /\ Cardinality(Positive(h)) >= 1
  <2>1. h \in Heap /\ o \in Objects /\ h.count[o] >= 1 /\ h.count[o] \in Int
    BY <1>7, HeapFields DEF Due
  <2>2. o \in Positive(h)
    BY <2>1 DEF Positive
  <2>3. IsFiniteSet(Positive(h)) /\ Cardinality(Positive(h)) \in Nat
    BY <2>1, PositiveFinite
  <2>4. Cardinality(Positive(h)) # 0
    BY <2>2, <2>3, FS_EmptySet
  <2> QED
    BY <2>1, <2>3, <2>4
<1>8. CASE k = 0
  <2>1. ASSUME NEW h, NEW o, NEW L, NEW X, NEW Z, NEW Y, Due(h, o, L, X, Z, Y)
        PROVE  ~(Cardinality(Positive(h)) <= k)
    BY <1>7, <1>8, <2>1
  <2>2. DownsWell(within[k], k)
    BY <2>1 DEF DownsWell
  <2> QED
    BY <2>2, <1>6
<1>9. CASE k # 0
  <2>1. k - 1 \in 0..N /\ k - 1 \in Nat /\ k - 1 < k
    BY <1>0, <1>6, <1>9
  <2>2. DownsWell(within[k - 1], k - 1)
    BY <2>1, <1>5
  <2> DEFINE w == within[k - 1]
             d == k - 1
  <2>3. d \in Nat /\ DownsWell(w, d) /\ d + 1 = k
    BY <2>1, <2>2
  <2>4. within[k] = Down(k, w)
    BY <1>3, <1>6
  <2> HIDE DEF w, d
  <2>5. ASSUME NEW h, NEW o, NEW L, NEW X, NEW Z, NEW Y, Due(h, o, L, X, Z, Y),
               Cardinality(Positive(h)) <= k
        PROVE  Books(within[k][o][h], L, X, Z, Y) /\ Fades(h, within[k][o][h])
    <3>1. h \in Heap /\ o \in Objects
      BY <1>7, <2>5
    <3>2. within[k][o][h] = DisownOnce(w, h, o)
      BY <3>1, <2>4, <1>9 DEF Down
    <3>3. Books(DisownOnce(w, h, o), L, X, Z, Y) /\ Fades(h, DisownOnce(w, h, o))
      BY <2>3, <2>5, DisownOnceDoes
    <3> QED
      BY <3>2, <3>3
  <2>6. DownsWell(within[k], k)
    BY <2>5 DEF DownsWell
  <2> QED
    BY <2>6, <1>6
<1> QED
  BY <1>8, <1>9

\* What a statement disowns: something in its limbo list, what is at a place,
\* and items of what it changes.
LEMMA DisownDoes ==
    ASSUME NEW h, NEW L, NEW o, Books(h, L, {}, {}, {}), o \in L
    PROVE  /\ Books(Disown[o][h], L \ {o}, {}, {}, {})
           /\ Fades(h, Disown[o][h])
<1>1. Due(h, o, L \ {o}, {}, {}, {})
  BY DueInLimbo
<1>2. Cardinality(Positive(h)) <= Cardinality(Objects)
  BY PositiveFinite DEF Books
<1> QED
  BY <1>1, <1>2, DisownDownsWell DEF DownsWell

\* eel_v_disown_nz of a place keeps the books but for the place itself.
LEMMA PlaceDisowned ==
    ASSUME NEW h, NEW L, Books(h, L, {}, {}, {}),
           NEW p \in Places(h), Len(p) = 2 => p[1] \in L
    PROVE  /\ Books(DisownAt(Disown, h, p), L, {p}, {}, {})
           /\ Fades(h, DisownAt(Disown, h, p))
<1>1. Cardinality(Positive(h)) <= Cardinality(Objects) /\ Cardinality(Objects) \in Nat
  BY PositiveFinite DEF Books
<1>2. {} \union {p} = {p} /\ L \union {} = L
  OBVIOUS
<1> DEFINE X == {}
           Y == {}
           g == DisownAt(Disown, h, p)
<1>3. p \notin X /\ (Len(p) = 2 => p[1] \in L \union Y) /\ Books(h, L, X, {}, Y)
  BY <1>2
<1> HIDE DEF X, Y
<1>4. Books(g, L, X \union {p}, {}, Y) /\ Fades(h, g)
  BY <1>1, <1>3, DisownDownsWell, DisownAtDoes
<1> QED
  BY <1>2, <1>4 DEF X, Y

\* Items of an object that is in limbo are disowned.
LEMMA ItemsDisowned ==
    ASSUME NEW h, NEW L, Books(h, L, {}, {}, {}), NEW c \in L,
           NEW from \in Nat \ {0}, NEW to \in Nat, to <= Len(h.items[c]), from <= to + 1
    PROVE  LET g == DisownItems(Disown, h, c, from, to)
           IN  Books(g, L, Span(c, from, to), KeySpan(c, from, to), {}) /\ Fades(h, g)
<1>1. Cardinality(Positive(h)) <= Cardinality(Objects) /\ Cardinality(Objects) \in Nat
  BY PositiveFinite DEF Books
<1> DEFINE X == {}
           g == DisownItems(Disown, h, c, from, to)
<1>2. c \in L \union X /\ Books(h, L, X, X, X)
  OBVIOUS
<1>3. \A i : <<c, i>> \notin X
  OBVIOUS
<1>4. X \union Span(c, from, to) = Span(c, from, to) /\ X \union KeySpan(c, from, to) = KeySpan(c, from, to)
  OBVIOUS
<1> HIDE DEF X
<1>5. Books(g, L, X \union Span(c, from, to), X \union KeySpan(c, from, to), X) /\ Fades(h, g)
  BY <1>1, <1>2, <1>3, DisownDownsWell, DisownItemsDoes
<1> QED
  BY <1>4, <1>5 DEF X

-----------------------------------------------------------------------------
(* Values that are copied, and items that are moved about.                  *)

\* The items of c in g are those of h that are not at places in X, moved
\* about: the one at j was at from[j]; those in new are new, and nil.
Rearranged(h, g, c, X, new, from) ==
    LET at == 1..Len(g.items[c])
        kept == {i \in 1..Len(h.items[c]) : <<c, i>> \notin X}
    IN  /\ new \subseteq at
        /\ from \in [at \ new -> kept]
        /\ \A j, l \in at \ new : from[j] = from[l] => j = l
        /\ \A i \in kept : \E j \in at \ new : from[j] = i
        /\ \A j \in at \ new : g.items[c][j] = h.items[c][from[j]]
        /\ \A j \in new : g.items[c][j].value = Nil /\ (c \in Tables => g.items[c][j].key \in Keys)
        /\ \A k \in Keys : g.keys[k] =
              h.keys[k] + Cardinality({j \in new : c \in Tables /\ g.items[c][j].key = k})

\* What else is as it was.
Otherwise(h, g, c) ==
    /\ g.live = h.live /\ g.count = h.count /\ g.static = h.static /\ SameBlocks(g, h)
    /\ \A d \in Objects : d # c => g.items[d] = h.items[d] /\ g.size[d] = h.size[d]

\* A function that takes one set to another makes no difference to its size.
LEMMA AsMany ==
    ASSUME NEW S, NEW T, IsFiniteSet(S), NEW f \in [S -> T],
           \A x, y \in S : f[x] = f[y] => x = y, \A y \in T : \E x \in S : f[x] = y
    PROVE  IsFiniteSet(T) /\ Cardinality(S) = Cardinality(T)
<1>1. f \in Bijection(S, T)
  BY DEF Bijection, Injection, IsInjective, Surjection
<1> QED
  BY <1>1, FS_Bijection DEF ExistsBijection

\* Owners and holders are as many as there were, and those of new keys.
LEMMA RearrangedCounts ==
    ASSUME NEW h \in Heap, NEW g \in Heap, NEW c \in Objects, NEW L, NEW new, NEW from,
           NEW X, NEW Z, Counted(h, L, X, Z), Otherwise(h, g, c), Rearranged(h, g, c, X, new, from),
           \A p \in X \union Z : \E i : p = <<c, i>>,
           \A i \in 1..Len(h.items[c]) : c \in Tables => (<<c, i>> \in X <=> <<c, i>> \in Z)
    PROVE  Counted(g, L, {}, {})
<1> DEFINE at == 1..Len(g.items[c])
           kept == {i \in 1..Len(h.items[c]) : <<c, i>> \notin X}
           To(p) == IF Len(p) = 2 /\ p[1] = c THEN <<c, from[p[2]]>> ELSE p
           H(q) == Owners(h, X, q)
           G(q) == Owners(g, {}, q)
<1>0. /\ new \subseteq at /\ from \in [at \ new -> kept]
      /\ \A j, l \in at \ new : from[j] = from[l] => j = l
      /\ \A i \in kept : \E j \in at \ new : from[j] = i
      /\ \A j \in at \ new : g.items[c][j] = h.items[c][from[j]]
      /\ \A j \in new : g.items[c][j].value = Nil /\ (c \in Tables => g.items[c][j].key \in Keys)
      /\ \A k \in Keys : g.keys[k] =
            h.keys[k] + Cardinality({j \in new : c \in Tables /\ g.items[c][j].key = k})
  BY DEF Rearranged
<1>a. /\ \A p : p \in Places(g) /\ ~(Len(p) = 2 /\ p[1] = c) <=> p \in Places(h) /\ ~(Len(p) = 2 /\ p[1] = c)
      /\ \A p \in Places(g) : ~(Len(p) = 2 /\ p[1] = c) => ValueAt(g, p) = ValueAt(h, p)
      /\ \A p \in Places(g) : Len(p) = 2 /\ p[1] = c => \E j \in at : p = <<c, j>>
      /\ \A p \in Places(h) : Len(p) = 2 /\ p[1] = c => \E i \in 1..Len(h.items[c]) : p = <<c, i>>
  <2>1. ASSUME NEW k1 \in Heap, NEW k2 \in Heap, k1.static = k2.static,
               \A d \in Objects : d # c => k1.items[d] = k2.items[d],
               NEW p \in Places(k1), ~(Len(p) = 2 /\ p[1] = c)
        PROVE  p \in Places(k2) /\ ValueAt(k1, p) = ValueAt(k2, p)
    <3>1. CASE \E s \in Statics : p = <<s>> /\ Len(p) = 1
      BY <3>1, <2>1, PlacesAre
    <3>2. CASE \E d \in Objects : \E i \in 1..Len(k1.items[d]) :
                  p = <<d, i>> /\ Len(p) = 2 /\ p[1] = d /\ p[2] = i
      <4>1. PICK d \in Objects : \E i \in 1..Len(k1.items[d]) :
                  p = <<d, i>> /\ Len(p) = 2 /\ p[1] = d /\ p[2] = i
        BY <3>2
      <4>2. PICK i \in 1..Len(k1.items[d]) : p = <<d, i>> /\ Len(p) = 2 /\ p[1] = d /\ p[2] = i
        BY <4>1
      <4>3. k1.items[d] = k2.items[d]
        BY <4>2, <2>1
      <4>4. ValueAt(k1, <<d, i>>) = k1.items[d][i].value
        BY <4>2, PlacesAre
      <4>5. <<d, i>> \in Places(k2) /\ ValueAt(k2, <<d, i>>) = k2.items[d][i].value
        BY <4>2, <4>3, PlacesAre
      <4> QED
        BY <4>2, <4>3, <4>4, <4>5
    <3> QED
      BY <2>1, <3>1, <3>2, PlacesAre
  <2>2. g.static = h.static /\ \A d \in Objects : d # c => g.items[d] = h.items[d] /\ h.items[d] = g.items[d]
    BY DEF Otherwise
  <2>3. ASSUME NEW k1 \in Heap, NEW p \in Places(k1), Len(p) = 2, p[1] = c
        PROVE  \E i \in 1..Len(k1.items[c]) : p = <<c, i>>
    BY <2>3, PlacesAre
  <2>4. \A p : p \in Places(g) /\ ~(Len(p) = 2 /\ p[1] = c) => p \in Places(h) /\ ValueAt(g, p) = ValueAt(h, p)
    BY <2>1, <2>2
  <2>5. \A p : p \in Places(h) /\ ~(Len(p) = 2 /\ p[1] = c) => p \in Places(g)
    BY <2>1, <2>2
  <2> QED
    BY <2>3, <2>4, <2>5
<1>b. \A j \in at : <<c, j>> \in Places(g) /\ ValueAt(g, <<c, j>>) = g.items[c][j].value
  BY PlacesAre
<1>c. \A i \in 1..Len(h.items[c]) : <<c, i>> \in Places(h) /\ ValueAt(h, <<c, i>>) = h.items[c][i].value
  BY PlacesAre
<1>d. \A i : Len(<<c, i>>) = 2 /\ <<c, i>>[1] = c /\ <<c, i>>[2] = i
  OBVIOUS
<1>e. \A p \in X : Len(p) = 2 /\ p[1] = c
  BY <1>d
<1>1. ASSUME NEW q \in Objects
      PROVE  Cardinality(G(q)) = Cardinality(H(q))
  <2> DEFINE f == [p \in G(q) |-> To(p)]
  <2>0. Strong(q) # Nil
    BY ValueFacts
  <2>1. \A p \in G(q) : p \in Places(g) /\ ValueAt(g, p) = Strong(q)
    BY DEF Owners
  <2>2. \A p \in H(q) : p \in Places(h) /\ p \notin X /\ ValueAt(h, p) = Strong(q)
    BY DEF Owners
  <2>3. ASSUME NEW p \in G(q), Len(p) = 2, p[1] = c
        PROVE  \E j \in at \ new : p = <<c, j>> /\ To(p) = <<c, from[j]>> /\ To(p) \in H(q)
    <3>1. PICK j \in at : p = <<c, j>>
      BY <2>1, <2>3, <1>a
    <3>2. g.items[c][j].value = Strong(q)
      BY <3>1, <2>1, <1>b
    <3>3. j \notin new
      BY <3>2, <1>0, <2>0
    <3>4. from[j] \in kept /\ h.items[c][from[j]].value = Strong(q)
      BY <3>1, <3>2, <3>3, <1>0
    <3>5. <<c, from[j]>> \in H(q)
      BY <3>4, <1>c DEF Owners
    <3>6. To(p) = <<c, from[j]>>
      BY <3>1, <1>d
    <3> QED
      BY <3>1, <3>3, <3>5, <3>6
  <2>4. ASSUME NEW p \in G(q), ~(Len(p) = 2 /\ p[1] = c)
        PROVE  To(p) = p /\ To(p) \in H(q)
    <3>1. p \in Places(h) /\ ValueAt(h, p) = Strong(q)
      BY <2>1, <2>4, <1>a
    <3>2. p \notin X
      BY <2>4, <1>e
    <3> QED
      BY <2>4, <3>1, <3>2 DEF Owners
  <2> HIDE DEF To, G, H
  <2>5. f \in [G(q) -> H(q)]
    BY <2>3, <2>4
  <2>6. ASSUME NEW x \in G(q), NEW y \in G(q), f[x] = f[y] PROVE x = y
    <3>1. CASE Len(x) = 2 /\ x[1] = c
      <4>1. PICK j \in at \ new : x = <<c, j>> /\ f[x] = <<c, from[j]>>
        BY <2>3, <3>1
      <4>2. CASE Len(y) = 2 /\ y[1] = c
        <5>1. PICK l \in at \ new : y = <<c, l>> /\ f[y] = <<c, from[l]>>
          BY <2>3, <4>2
        <5>2. from[j] = from[l]
          BY <4>1, <5>1, <2>6, <1>d
        <5>3. j = l
          BY <5>2, <1>0
        <5> QED
          BY <4>1, <5>1, <5>3
      <4>3. CASE ~(Len(y) = 2 /\ y[1] = c)
        <5>1. f[y] = y
          BY <2>4, <4>3
        <5> QED
          BY <4>1, <4>3, <5>1, <2>6, <1>d
      <4> QED
        BY <4>2, <4>3
    <3>2. CASE ~(Len(x) = 2 /\ x[1] = c)
      <4>1. f[x] = x
        BY <2>4, <3>2
      <4>2. CASE Len(y) = 2 /\ y[1] = c
        <5>1. PICK l \in at \ new : f[y] = <<c, from[l]>>
          BY <2>3, <4>2
        <5> QED
          BY <4>1, <3>2, <5>1, <2>6, <1>d
      <4>3. CASE ~(Len(y) = 2 /\ y[1] = c)
        <5>1. f[y] = y
          BY <2>4, <4>3
        <5> QED
          BY <4>1, <5>1, <2>6
      <4> QED
        BY <4>2, <4>3
    <3> QED
      BY <3>1, <3>2
  <2>7. ASSUME NEW y \in H(q) PROVE \E x \in G(q) : f[x] = y
    <3>1. CASE Len(y) = 2 /\ y[1] = c
      <4>1. PICK i \in 1..Len(h.items[c]) : y = <<c, i>>
        BY <2>2, <3>1, <1>a
      <4>2. i \in kept /\ h.items[c][i].value = Strong(q)
        BY <4>1, <2>2, <1>c
      <4>3. PICK j \in at \ new : from[j] = i
        BY <4>2, <1>0
      <4>4. g.items[c][j].value = Strong(q)
        BY <4>2, <4>3, <1>0
      <4>5. <<c, j>> \in G(q)
        BY <4>3, <4>4, <1>b DEF Owners, G
      <4>6. To(<<c, j>>) = <<c, i>>
        BY <4>3, <1>d DEF To
      <4> QED
        BY <4>1, <4>5, <4>6
    <3>2. CASE ~(Len(y) = 2 /\ y[1] = c)
      <4>1. y \in Places(g) /\ ValueAt(g, y) = Strong(q)
        BY <2>2, <3>2, <1>a
      <4>2. y \in G(q)
        BY <4>1 DEF Owners, G
      <4> QED
        BY <4>2, <2>4, <3>2
    <3> QED
      BY <3>1, <3>2
  <2>8. IsFiniteSet(G(q))
    BY OwnersFinite DEF G
  <2> HIDE DEF f
  <2> QED
    BY <2>5, <2>6, <2>7, <2>8, AsMany
<1>2. ASSUME NEW k \in Keys
      PROVE  g.keys[k] = Cardinality(Holders(g, {}, k))
  <2> DEFINE A == {p \in Holders(g, {}, k) : p[1] # c \/ p[2] \notin new}
             B == {p \in Holders(g, {}, k) : p[1] = c /\ p[2] \in new}
             N == {j \in new : c \in Tables /\ g.items[c][j].key = k}
             T == Holders(h, Z, k)
             f == [p \in A |-> IF p[1] = c THEN <<c, from[p[2]]>> ELSE p]
             b == [p \in B |-> p[2]]
  <2>1. IsFiniteSet(Holders(g, {}, k)) /\ A \in SUBSET Holders(g, {}, k) /\ B \in SUBSET Holders(g, {}, k)
    BY OwnersFinite
  <2>2. IsFiniteSet(A) /\ IsFiniteSet(B)
    BY <2>1, FS_Subset
  <2>3. A \union B = Holders(g, {}, k) /\ A \cap B = {}
    OBVIOUS
  <2>4. \A p \in Holders(g, {}, k) : /\ p \in Objects \X Nat /\ p[1] \in Tables /\ p[2] \in 1..Len(g.items[p[1]])
                                     /\ g.items[p[1]][p[2]].key = k
    BY DEF Holders, Slots, KeyAt
  <2>5. \A p \in Objects \X Nat : p[1] \in Tables /\ p[2] \in 1..Len(g.items[p[1]])
                                  /\ g.items[p[1]][p[2]].key = k => p \in Holders(g, {}, k)
    BY DEF Holders, Slots, KeyAt
  <2>6. \A p \in T : /\ p \in Objects \X Nat /\ p[1] \in Tables /\ p[2] \in 1..Len(h.items[p[1]])
                     /\ h.items[p[1]][p[2]].key = k /\ p \notin Z
    BY DEF Holders, Slots, KeyAt
  <2>7. \A p \in Objects \X Nat : p[1] \in Tables /\ p[2] \in 1..Len(h.items[p[1]])
                                  /\ h.items[p[1]][p[2]].key = k /\ p \notin Z => p \in T
    BY DEF Holders, Slots, KeyAt
  <2>8. \A p \in Objects \X Nat : p = <<p[1], p[2]>>
    OBVIOUS
  <2>9. Len(h.items[c]) \in Nat /\ Len(g.items[c]) \in Nat
    BY HeapFields
  <2>10. \A p \in Z : p[1] = c
    BY <1>d
  <2>11. \A d \in Objects : d # c => g.items[d] = h.items[d]
    BY DEF Otherwise
  <2> HIDE DEF T
  <2>12. ASSUME NEW p \in A, p[1] = c
         PROVE  p[2] \in at \ new /\ f[p] = <<c, from[p[2]]>> /\ f[p] \in T
    <3>1. p[2] \in at \ new /\ p \in Objects \X Nat /\ c \in Tables /\ g.items[c][p[2]].key = k
      BY <2>4, <2>12
    <3>2. from[p[2]] \in kept /\ h.items[c][from[p[2]]].key = k
      BY <3>1, <1>0
    <3>3. from[p[2]] \in 1..Len(h.items[c]) /\ from[p[2]] \in Nat
      BY <3>2, <2>9
    <3>4. <<c, from[p[2]]>> \notin Z
      BY <3>1, <3>2, <3>3
    <3>5. <<c, from[p[2]]>> \in T
      <4> DEFINE r == <<c, from[p[2]]>>
      <4>1. r \in Objects \X Nat /\ r[1] = c /\ r[2] = from[p[2]]
        BY <3>3
      <4> HIDE DEF r
      <4>2. r \in T
        BY <4>1, <3>1, <3>2, <3>3, <3>4, <2>7 DEF r
      <4> QED
        BY <4>2 DEF r
    <3> QED
      BY <3>1, <3>5, <2>12
  <2>13. ASSUME NEW p \in A, p[1] # c
         PROVE  f[p] = p /\ p \in T
    <3>1. p \in Objects \X Nat /\ p[1] \in Tables /\ p[2] \in 1..Len(h.items[p[1]]) /\ h.items[p[1]][p[2]].key = k
      BY <2>4, <2>11, <2>13
    <3>2. p \notin Z
      BY <2>10, <2>13
    <3> QED
      BY <3>1, <3>2, <2>7, <2>13
  <2>14. Cardinality(A) = Cardinality(T)
    <3>1. f \in [A -> T]
      BY <2>12, <2>13
    <3>2. ASSUME NEW x \in A, NEW y \in A, f[x] = f[y] PROVE x = y
      <4>0. x = <<x[1], x[2]>> /\ y = <<y[1], y[2]>>
        BY <2>4, <2>8
      <4>1. CASE x[1] = c /\ y[1] = c
        <5>1. from[x[2]] = from[y[2]]
          BY <2>12, <4>1, <3>2, <1>d
        <5>2. x[2] = y[2]
          BY <5>1, <4>1, <2>12, <1>0
        <5> QED
          BY <4>0, <4>1, <5>2
      <4>2. CASE x[1] = c /\ y[1] # c
        BY <4>2, <3>2, <2>12, <2>13, <1>d
      <4>3. CASE x[1] # c /\ y[1] = c
        BY <4>3, <3>2, <2>12, <2>13, <1>d
      <4>4. CASE x[1] # c /\ y[1] # c
        BY <4>4, <3>2, <2>13
      <4> QED
        BY <4>1, <4>2, <4>3, <4>4
    <3>3. ASSUME NEW y \in T PROVE \E x \in A : f[x] = y
      <4>1. CASE y[1] = c
        <5>1. y[2] \in 1..Len(h.items[c]) /\ c \in Tables /\ y = <<c, y[2]>> /\ h.items[c][y[2]].key = k /\ y \notin Z
          BY <2>6, <2>8, <4>1
        <5>2. y[2] \in kept
          BY <5>1
        <5>3. PICK j \in at \ new : from[j] = y[2]
          BY <5>2, <1>0
        <5>4. g.items[c][j].key = k
          BY <5>1, <5>3, <1>0
        <5> DEFINE x == <<c, j>>
        <5>5. x \in Objects \X Nat /\ x[1] = c /\ x[2] = j
          BY <2>9
        <5> HIDE DEF x
        <5>6. x \in A
          BY <5>1, <5>3, <5>4, <5>5, <2>5
        <5>7. f[x] = <<c, from[j]>>
          BY <5>5, <5>6, <2>12
        <5> QED
          BY <5>1, <5>3, <5>6, <5>7
      <4>2. CASE y[1] # c
        <5>1. y \in A
          BY <2>6, <4>2, <2>11, <2>5
        <5> QED
          BY <5>1, <4>2, <2>13
      <4> QED
        BY <4>1, <4>2
    <3> HIDE DEF f, A
    <3> QED
      BY <3>1, <3>2, <3>3, <2>2, AsMany
  <2>15. IsFiniteSet(N) /\ Cardinality(B) = Cardinality(N)
    <3>1. b \in [B -> N]
      BY <2>4
    <3>2. ASSUME NEW x \in B, NEW y \in B, b[x] = b[y] PROVE x = y
      <4>1. x = <<x[1], x[2]>> /\ y = <<y[1], y[2]>> /\ x[1] = c /\ y[1] = c
        BY <2>4, <2>8
      <4>2. x[2] = y[2]
        BY <3>2
      <4> QED
        BY <4>1, <4>2
    <3>3. ASSUME NEW j \in N PROVE \E x \in B : b[x] = j
      <4> DEFINE x == <<c, j>>
      <4>1. j \in at /\ c \in Tables /\ g.items[c][j].key = k
        BY <1>0
      <4>2. x \in Objects \X Nat /\ x[1] = c /\ x[2] = j
        BY <2>9, <4>1
      <4> HIDE DEF x
      <4>3. x \in B
        BY <4>1, <4>2, <2>5
      <4> QED
        BY <4>2, <4>3
    <3> HIDE DEF b, B, N
    <3> QED
      BY <3>1, <3>2, <3>3, <2>2, AsMany
  <2>16. Cardinality(Holders(g, {}, k)) = Cardinality(A) + Cardinality(B)
    <3>1. Cardinality(A \union B) = Cardinality(A) + Cardinality(B) - Cardinality(A \cap B)
      BY <2>2, FS_Union
    <3>2. Cardinality(A \cap B) = 0
      BY <2>3, FS_EmptySet
    <3>3. Cardinality(A) \in Nat /\ Cardinality(B) \in Nat
      BY <2>2, FS_CardinalityType
    <3> DEFINE m == Cardinality(A)
               n == Cardinality(B)
               z == Cardinality(A \cap B)
               all == Cardinality(A \union B)
    <3>4. all = m + n - z /\ z = 0 /\ m \in Nat /\ n \in Nat
      BY <3>1, <3>2, <3>3
    <3>5. all = Cardinality(Holders(g, {}, k))
      BY <2>3
    <3> HIDE DEF m, n, z, all
    <3>6. all = m + n
      BY <3>4
    <3> QED
      BY <3>5, <3>6 DEF m, n
  <2>17. h.keys[k] = Cardinality(T)
    BY DEF Counted, T
  <2>18. g.keys[k] = h.keys[k] + Cardinality(N)
    BY <1>0
  <2> HIDE DEF A, B, N
  <2> QED
    BY <2>14, <2>15, <2>16, <2>17, <2>18
<1> HIDE DEF G, H
<1>3. \A q \in Objects : g.count[q] = Cardinality(Owners(g, {}, q)) + OneIf(q \in L)
  <2>1. \A q \in Objects : h.count[q] = Cardinality(H(q)) + OneIf(q \in L)
    BY DEF Counted, H
  <2>2. g.count = h.count
    BY DEF Otherwise
  <2> QED
    BY <2>1, <2>2, <1>1 DEF G
<1> QED
  BY <1>2, <1>3 DEF Counted

\* Disjointness and membership of the kinds of objects.
LEMMA Kinds ==
    /\ Arrays \subseteq Objects /\ Tables \subseteq Objects /\ Vectors \subseteq Objects
    /\ Dstrings \subseteq Objects /\ Files \subseteq Objects
    /\ \A o \in Objects : o \in Arrays \/ o \in Tables \/ o \in Vectors \/ o \in Dstrings \/ o \in Files
    /\ \A o \in Arrays : o \notin Tables /\ o \notin Vectors /\ o \notin Dstrings /\ o \notin Files
    /\ \A o \in Tables : o \notin Arrays /\ o \notin Vectors /\ o \notin Dstrings /\ o \notin Files
    /\ \A o \in Vectors : o \notin Arrays /\ o \notin Tables /\ o \notin Dstrings /\ o \notin Files
    /\ \A o \in Dstrings : o \notin Arrays /\ o \notin Tables /\ o \notin Vectors /\ o \notin Files
    /\ \A o \in Files : o \notin Arrays /\ o \notin Tables /\ o \notin Vectors /\ o \notin Dstrings
<1>1. \A i, j \in 1..5 : i # j => <<Arrays, Tables, Vectors, Dstrings, Files>>[i]
                                   \cap <<Arrays, Tables, Vectors, Dstrings, Files>>[j] = {}
  BY ContainersAssumption
<1>2. Objects = Arrays \union Tables \union Vectors \union Dstrings \union Files
  BY DEF Objects, P!Objects
<1>3. 1 \in 1..5 /\ 2 \in 1..5 /\ 3 \in 1..5 /\ 4 \in 1..5 /\ 5 \in 1..5
  OBVIOUS
<1>4. /\ Arrays \cap Tables = {} /\ Arrays \cap Vectors = {} /\ Arrays \cap Dstrings = {}
      /\ Arrays \cap Files = {}
  BY <1>1, <1>3
<1>5. Tables \cap Vectors = {} /\ Tables \cap Dstrings = {} /\ Tables \cap Files = {}
  BY <1>1, <1>3
<1>6. Vectors \cap Dstrings = {} /\ Vectors \cap Files = {} /\ Dstrings \cap Files = {}
  BY <1>1, <1>3
<1> QED
  BY <1>2, <1>4, <1>5, <1>6

\* Items of c are moved about, some are dropped that have been disowned: the books
\* are right again without anything left out.
LEMMA RearrangedDoes ==
    ASSUME NEW h, NEW L, NEW X, NEW Z, Books(h, L, X, Z, {}), NEW c \in L, c \in Arrays \union Tables,
           NEW g \in Heap, Wiring(g), RoomForRefs(g), NEW new, NEW from,
           Otherwise(h, g, c), Rearranged(h, g, c, X, new, from),
           \A p \in X \union Z : \E i : p = <<c, i>>,
           \A i \in 1..Len(h.items[c]) : c \in Tables => (<<c, i>> \in X <=> <<c, i>> \in Z),
           Len(g.items[c]) <= g.size[c], \A o \in Objects : Len(g.refs[o]) = Len(h.refs[o]),
           c \in Tables => InOrder(g, c)
    PROVE  Books(g, L, {}, {}, {})
<1>0. h \in Heap /\ c \in Objects /\ Counted(h, L, X, Z) /\ Living(h, {}) /\ Shapes(h) /\ BlocksFit(h)
      /\ L \subseteq Objects /\ Ordered(h)
  BY BooksSay DEF Books, Stale
<1>1. Counted(g, L, {}, {})
  BY <1>0, RearrangedCounts
<1>2. /\ g.live = h.live /\ g.count = h.count /\ g.block = h.block
      /\ \A d \in Objects : d # c => g.items[d] = h.items[d] /\ g.size[d] = h.size[d]
  BY DEF Otherwise, SameBlocks
<1>3. c \in h.live
  BY BooksSay
<1>4. Living(g, {})
  <2>1. Positive(g) = Positive(h)
    BY <1>2 DEF Positive
  <2>2. ASSUME NEW o \in Objects \ g.live PROVE Len(g.items[o]) = 0 /\ Len(g.refs[o]) = 0
    <3>1. o \in Objects \ h.live /\ o # c
      BY <1>2, <1>3
    <3>2. Len(h.items[o]) = 0 /\ Len(h.refs[o]) = 0
      BY <3>1, <1>0 DEF Living
    <3>3. g.items[o] = h.items[o] /\ Len(g.refs[o]) = Len(h.refs[o])
      BY <3>1, <1>2
    <3> QED
      BY <3>2, <3>3
  <2> QED
    BY <2>1, <2>2, <1>0, <1>2 DEF Living
<1>5. Stale(g, L, {}, {}, {})
  BY <1>0 DEF Stale, HeldBy
<1>6. Shapes(g)
  <2>1. \A d \in Objects : Len(g.items[d]) <= g.size[d]
    BY <1>0, <1>2 DEF Shapes
  <2>2. ASSUME NEW t \in Tables, NEW i \in 1..Len(g.items[t]) PROVE g.items[t][i].key \in Keys
    <3>1. CASE t = c
      <4>1. CASE i \in new
        BY <3>1, <4>1 DEF Rearranged
      <4>2. CASE i \notin new
        <5>1. from[i] \in 1..Len(h.items[c]) /\ g.items[c][i] = h.items[c][from[i]]
          BY <3>1, <4>2 DEF Rearranged
        <5> QED
          BY <5>1, <3>1, <1>0 DEF Shapes
      <4> QED
        BY <4>1, <4>2
    <3>2. CASE t # c
      BY <3>2, <1>0, <1>2, Kinds DEF Shapes
    <3> QED
      BY <3>1, <3>2
  <2>3. \A b \in Vectors \union Dstrings : b \in Objects /\ b # c
    BY Kinds
  <2>4. \A f \in Files : f \in Objects /\ f # c
    BY Kinds
  <2>5. \A b \in Vectors \union Dstrings : Len(g.items[b]) = 0
    BY <2>3, <1>0, <1>2 DEF Shapes
  <2>6. \A f \in Files : f \in g.live => Len(g.items[f]) = 1 /\ FileValue(g.items[f][1].value)
    BY <2>4, <1>0, <1>2 DEF Shapes
  <2> QED
    BY <2>1, <2>2, <2>5, <2>6 DEF Shapes
<1>7. BlocksFit(g)
  BY <1>0, <1>2 DEF BlocksFit
<1>8. Ordered(g)
  <2> SUFFICES ASSUME NEW t \in Tables, t # c PROVE InOrder(g, t)
    BY DEF Ordered
  <2>1. t \in Objects /\ g.items[t] = h.items[t]
    BY <1>2, Kinds
  <2>2. InOrder(h, t)
    BY <1>0 DEF Ordered
  <2> QED
    BY <2>1, <2>2 DEF InOrder
<1> QED
  BY <1>1, <1>4, <1>5, <1>6, <1>7, <1>8 DEF Books

\* Items are moved, and their weak references told so.
LEMMA MovesDo ==
    ASSUME NEW h, NEW L, NEW X, NEW Z, Books(h, L, X, Z, {}), NEW c \in L, c \in Arrays \union Tables,
           NEW g0 \in Heap, g0.refs = h.refs, g0.room = h.room, NEW new, NEW from,
           Otherwise(h, g0, c), Rearranged(h, g0, c, X, new, from),
           \A p \in X \union Z : \E i : p = <<c, i>>,
           \A i \in 1..Len(h.items[c]) : c \in Tables => (<<c, i>> \in X <=> <<c, i>> \in Z),
           Len(g0.items[c]) <= g0.size[c], c \in Tables => InOrder(g0, c)
    PROVE  LET g == Relocated(g0, c)
           IN  Books(g, L, {}, {}, {}) /\ g.items = g0.items /\ g.size = g0.size /\ g.live = h.live
<1> DEFINE g == Relocated(g0, c)
           at == 1..Len(g0.items[c])
           kept == {i \in 1..Len(h.items[c]) : <<c, i>> \notin X}
<1>0. h \in Heap /\ Wiring(h) /\ RoomForRefs(h) /\ c \in Objects /\ Stale(h, L, X, Z, {})
  BY DEF Books, Stale
<1>1. /\ new \subseteq at /\ from \in [at \ new -> kept]
      /\ \A j, l \in at \ new : from[j] = from[l] => j = l
      /\ \A i \in kept : \E j \in at \ new : from[j] = i
      /\ \A j \in at \ new : g0.items[c][j] = h.items[c][from[j]]
      /\ \A j \in new : g0.items[c][j].value = Nil
  BY DEF Rearranged
<1>2. g0.static = h.static /\ \A d \in Objects : d # c => g0.items[d] = h.items[d]
  BY DEF Otherwise
<1>3. \A i \in 1..Len(h.items[c]) : <<c, i>> \in Places(h) /\ ValueAt(h, <<c, i>>) = h.items[c][i].value
  BY <1>0, PlacesAre
<1>4. \A j \in at : g0.items[c][j].value.kind = "weak" => j \notin new
  BY <1>1, ValueFacts
<1>5. \A j \in at : g0.items[c][j].value.kind = "weak" =>
         \E i \in 1..Len(h.items[c]) : h.items[c][i].value = g0.items[c][j].value
  <2> SUFFICES ASSUME NEW j \in at, g0.items[c][j].value.kind = "weak"
               PROVE \E i \in 1..Len(h.items[c]) : h.items[c][i].value = g0.items[c][j].value
    OBVIOUS
  <2>1. from[j] \in kept /\ g0.items[c][j] = h.items[c][from[j]]
    BY <1>1, <1>4
  <2> QED
    BY <2>1
<1>6. \A i \in 1..Len(h.items[c]) : h.items[c][i].value.kind = "weak" =>
         \E j \in at : h.items[c][i].value = g0.items[c][j].value
  <2> SUFFICES ASSUME NEW i \in 1..Len(h.items[c]), h.items[c][i].value.kind = "weak"
               PROVE \E j \in at : h.items[c][i].value = g0.items[c][j].value
    OBVIOUS
  <2>1. <<c, i>> \notin X
    BY <1>0, <1>3 DEF Stale
  <2>2. PICK j \in at \ new : from[j] = i
    BY <1>1, <2>1
  <2> QED
    BY <2>2, <1>1
<1>7. \A j, l \in at : g0.items[c][j].value.kind = "weak" /\ g0.items[c][j].value = g0.items[c][l].value => j = l
  <2> SUFFICES ASSUME NEW j \in at, NEW l \in at, g0.items[c][j].value.kind = "weak",
                      g0.items[c][j].value = g0.items[c][l].value
               PROVE  j = l
    OBVIOUS
  <2>1. j \in at \ new /\ l \in at \ new
    BY <1>4
  <2> DEFINE i == from[j]
             m == from[l]
  <2>2. /\ i \in 1..Len(h.items[c]) /\ m \in 1..Len(h.items[c])
        /\ h.items[c][i].value.kind = "weak" /\ h.items[c][i].value = h.items[c][m].value
    BY <1>1, <2>1
  <2> HIDE DEF i, m
  <2>3. /\ <<c, i>> \in Places(h) /\ ValueAt(h, <<c, i>>) = h.items[c][i].value
        /\ <<c, m>> \in Places(h) /\ ValueAt(h, <<c, m>>) = h.items[c][m].value
    BY <2>2, <1>3
  <2>4. <<c, i>> = <<c, m>>
    <3> DEFINE p == <<c, i>>
               q == <<c, m>>
    <3>1. p \in Places(h) /\ q \in Places(h) /\ ValueAt(h, p) = ValueAt(h, q) /\ ValueAt(h, p).kind = "weak"
      BY <2>2, <2>3
    <3> HIDE DEF p, q
    <3>2. p = q
      BY <3>1, <1>0 DEF Wiring
    <3> QED
      BY <3>2 DEF p, q
  <2>5. i = m
    BY <2>4
  <2> QED
    BY <2>1, <2>5, <1>1 DEF i, m
<1>8. /\ g \in Heap /\ Wiring(g) /\ RoomForRefs(g)
      /\ g.static = g0.static /\ g.items = g0.items /\ g.size = g0.size /\ g.room = g0.room
      /\ SameCounts(g, g0) /\ SameBlocks(g, g0)
      /\ \A o \in Objects : Len(g.refs[o]) = Len(h.refs[o])
  <2> HIDE DEF g
  <2>1. \A o \in Objects : Len(g0.refs[o]) = Len(h.refs[o])
    OBVIOUS
  <2>2. \A o \in Objects : \A k \in 1..Len(h.refs[o]) :
            (\A i \in 1..Len(h.items[c]) : h.refs[o][k] # <<c, i>>) => g0.refs[o][k] = h.refs[o][k]
    OBVIOUS
  <2> QED
    BY <1>0, <1>2, <1>5, <1>6, <1>7, <2>1, <2>2, RelocatedDoes DEF g
<1> HIDE DEF g
<1>9. Otherwise(h, g, c) /\ g.live = h.live
  BY <1>8 DEF Otherwise, SameCounts, SameBlocks
<1>10. Rearranged(h, g, c, X, new, from)
  <2>1. g.items[c] = g0.items[c] /\ g.keys = g0.keys
    BY <1>8 DEF SameCounts
  <2> QED
    BY <2>1 DEF Rearranged
<1>11. Len(g.items[c]) <= g.size[c]
  BY <1>8
<1>11a. c \in Tables => InOrder(g, c)
  BY <1>8 DEF InOrder
<1>12. Books(g, L, {}, {}, {})
  BY <1>8, <1>9, <1>10, <1>11, <1>11a, RearrangedDoes
<1> QED
  BY <1>8, <1>9, <1>12 DEF g

\* Items are added at the end.
LEMMA GrowsBooks ==
    ASSUME NEW h, NEW L, Books(h, L, {}, {}, {}), NEW c \in L, c \in Arrays \union Tables,
           NEW g \in Heap, g.refs = h.refs, g.room = h.room, NEW new, NEW from,
           Otherwise(h, g, c), Rearranged(h, g, c, {}, new, from),
           \A j \in DOMAIN from : from[j] = j,
           Len(g.items[c]) <= g.size[c], c \in Tables => InOrder(g, c)
    PROVE  Books(g, L, {}, {}, {})
<1> DEFINE at == 1..Len(g.items[c])
           kept == 1..Len(h.items[c])
<1>0. h \in Heap /\ Wiring(h) /\ RoomForRefs(h) /\ c \in Objects
  BY DEF Books, Stale
<1>1. /\ new \subseteq at /\ from \in [at \ new -> kept]
      /\ \A i \in kept : \E j \in at \ new : from[j] = i
      /\ \A j \in at \ new : g.items[c][j] = h.items[c][from[j]]
      /\ \A j \in new : g.items[c][j].value = Nil
  BY DEF Rearranged
<1>2. g.static = h.static /\ \A d \in Objects : d # c => g.items[d] = h.items[d]
  BY DEF Otherwise
<1>3. /\ \A i \in kept : i \in at \ new
      /\ \A j \in at \ new : j \in kept /\ g.items[c][j] = h.items[c][j]
  BY <1>1
<1>4. \A p \in Places(h) : p \in Places(g) /\ ValueAt(g, p) = ValueAt(h, p)
  <2> SUFFICES ASSUME NEW p \in Places(h) PROVE p \in Places(g) /\ ValueAt(g, p) = ValueAt(h, p)
    OBVIOUS
  <2>1. CASE \E s \in Statics : p = <<s>> /\ Len(p) = 1
    BY <2>1, <1>0, <1>2, PlacesAre
  <2>2. CASE \E d \in Objects : \E i \in 1..Len(h.items[d]) : p = <<d, i>>
    <3>1. PICK d \in Objects : \E i \in 1..Len(h.items[d]) : p = <<d, i>>
      BY <2>2
    <3>2. PICK i \in 1..Len(h.items[d]) : p = <<d, i>>
      BY <3>1
    <3>3. i \in 1..Len(g.items[d]) /\ g.items[d][i] = h.items[d][i]
      BY <3>2, <1>2, <1>3
    <3>4. ValueAt(h, <<d, i>>) = h.items[d][i].value
      BY <1>0, PlacesAre
    <3>5. <<d, i>> \in Places(g) /\ ValueAt(g, <<d, i>>) = g.items[d][i].value
      BY <3>3, PlacesAre
    <3> QED
      BY <3>2, <3>3, <3>4, <3>5
  <2> QED
    BY <1>0, <2>1, <2>2, PlacesAre
<1>5. \A p \in Places(g) : p \in Places(h) \/ ValueAt(g, p) = Nil
  <2> SUFFICES ASSUME NEW p \in Places(g) PROVE p \in Places(h) \/ ValueAt(g, p) = Nil
    OBVIOUS
  <2>1. CASE \E s \in Statics : p = <<s>> /\ Len(p) = 1
    BY <2>1, <1>0, PlacesAre
  <2>2. CASE \E d \in Objects : \E i \in 1..Len(g.items[d]) : p = <<d, i>>
    <3>1. PICK d \in Objects : \E i \in 1..Len(g.items[d]) : p = <<d, i>>
      BY <2>2
    <3>2. PICK i \in 1..Len(g.items[d]) : p = <<d, i>>
      BY <3>1
    <3>3. i \in 1..Len(h.items[d]) \/ (d = c /\ i \in new)
      BY <3>2, <1>2, <1>3
    <3>4. ValueAt(g, <<d, i>>) = g.items[d][i].value
      BY PlacesAre
    <3>5. i \in 1..Len(h.items[d]) => <<d, i>> \in Places(h)
      BY <1>0, PlacesAre
    <3> QED
      BY <3>2, <3>3, <3>4, <3>5, <1>1
  <2> QED
    BY <2>1, <2>2, PlacesAre
<1>6. Wiring(g)
  <2>1. \A o \in Objects : \A k \in 1..Len(g.refs[o]) :
          g.refs[o][k] \in Places(g) /\ ValueAt(g, g.refs[o][k]) = Weak(o, k - 1)
    <3>1. \A o \in Objects : \A k \in 1..Len(h.refs[o]) :
          h.refs[o][k] \in Places(h) /\ ValueAt(h, h.refs[o][k]) = Weak(o, k - 1)
      BY <1>0 DEF Wiring
    <3> QED
      BY <3>1, <1>4
  <2>2. ASSUME NEW p \in Places(g), ValueAt(g, p).kind = "weak"
        PROVE  LET v == ValueAt(g, p)
               IN  v.index + 1 \in 1..Len(g.refs[v.o]) /\ g.refs[v.o][v.index + 1] = p
    <3>1. p \in Places(h) /\ ValueAt(h, p) = ValueAt(g, p)
      BY <2>2, <1>4, <1>5, ValueFacts
    <3> QED
      BY <3>1, <2>2, <1>0 DEF Wiring
  <2> QED
    BY <2>1, <2>2 DEF Wiring
<1>7. RoomForRefs(g)
  BY <1>0 DEF RoomForRefs
<1> DEFINE X == {}
<1>8. Books(h, L, X, X, {}) /\ Rearranged(h, g, c, X, new, from)
      /\ (\A p \in X \union X : \E i : p = <<c, i>>)
      /\ (\A i \in 1..Len(h.items[c]) : c \in Tables => (<<c, i>> \in X <=> <<c, i>> \in X))
      /\ (\A o \in Objects : Len(g.refs[o]) = Len(h.refs[o]))
  OBVIOUS
<1> HIDE DEF X
<1> QED
  BY <1>6, <1>7, <1>8, RearrangedDoes

\* A change of values and counts, where what is in limbo may be other objects.
LEMMA Rebooked ==
    ASSUME NEW h, NEW L, NEW X, NEW Z, Books(h, L, X, Z, {}), NEW L2, NEW X2,
           NEW g \in Heap, Wiring(g), RoomForRefs(g),
           SameLayout(g, h), SameBlocks(g, h), g.live = h.live, g.keys = h.keys,
           \A o \in Objects \ h.live : Len(g.refs[o]) = 0,
           \A o \in Objects : g.count[o] = Cardinality(Owners(g, X2, o)) + OneIf(o \in L2),
           \A o \in Objects : g.count[o] > 0 <=> h.count[o] > 0,
           L2 \subseteq Objects, X2 \subseteq Places(h), \A p \in X2 : ValueAt(g, p).kind # "weak",
           HeldBy(X2, L2), HeldBy(Z, L2),
           \A f \in Files : f \in h.live => FileValue(ValueAt(g, <<f, 1>>))
    PROVE  Books(g, L2, X2, Z, {})
<1>0. h \in Heap /\ L2 \union {} = L2
  BY DEF Books
<1>1. /\ g.block = h.block /\ g.size = h.size /\ KeyAt(g) = KeyAt(h) /\ Slots(g) = Slots(h)
      /\ Places(g) = Places(h) /\ \A c \in Objects : Len(g.items[c]) = Len(h.items[c])
  BY DEF SameLayout, SameBlocks
<1>2. Counted(g, L2, X2, Z)
  <2>1. \A k : Holders(g, Z, k) = Holders(h, Z, k)
    BY <1>1 DEF Holders
  <2>2. Counted(h, L, X, Z)
    BY DEF Books
  <2> QED
    BY <2>1, <2>2 DEF Counted
<1>3. Living(g, {})
  <2>1. Positive(g) = Positive(h)
    BY DEF Positive
  <2> QED
    BY <2>1, <1>1 DEF Living, Books
<1>4. Stale(g, L2, X2, Z, {})
  <2>1. Z \subseteq Slots(g)
    BY <1>1 DEF Stale, Books
  <2> QED
    BY <1>0, <1>1, <2>1 DEF Stale
<1>5. Shapes(g)
  <2>1. Shapes(h)
    BY DEF Books
  <2>2. ASSUME NEW t \in Tables, NEW i \in 1..Len(g.items[t])
        PROVE  g.items[t][i].key \in Keys
    <3>1. t \in Objects
      BY Kinds
    <3>2. i \in 1..Len(h.items[t]) /\ i \in Nat
      BY <1>1, <1>0, <3>1, HeapFields
    <3>3. <<t, i>> \in Slots(h)
      BY <3>1, <3>2 DEF Slots
    <3>4. KeyAt(g)[<<t, i>>] = g.items[t][i].key /\ KeyAt(h)[<<t, i>>] = h.items[t][i].key
      BY <3>3, <1>1 DEF KeyAt
    <3> QED
      BY <3>2, <3>4, <1>1, <2>1 DEF Shapes
  <2>3. ASSUME NEW f \in Files, f \in g.live
        PROVE  Len(g.items[f]) = 1 /\ FileValue(g.items[f][1].value)
    <3>1. f \in Objects /\ Len(h.items[f]) = 1
      BY <2>1, <2>3, Kinds DEF Shapes
    <3>2. 1 \in 1..Len(g.items[f])
      BY <1>1, <3>1
    <3>3. ValueAt(g, <<f, 1>>) = g.items[f][1].value
      BY <3>1, <3>2, PlacesAre
    <3> QED
      BY <3>1, <3>3, <2>3, <1>1
  <2>4. \A c \in Objects : Len(g.items[c]) <= g.size[c]
    BY <1>1, <2>1 DEF Shapes
  <2>5. \A b \in Vectors \union Dstrings : b \in Objects
    BY Kinds
  <2>6. \A b \in Vectors \union Dstrings : Len(g.items[b]) = 0
    BY <1>1, <2>1, <2>5 DEF Shapes
  <2> QED
    BY <2>2, <2>3, <2>4, <2>6 DEF Shapes
<1>6. BlocksFit(g)
  BY <1>1 DEF BlocksFit, Books
<1>7. Ordered(g)
  BY <1>0, LayoutOrder DEF Books
<1> QED
  BY <1>2, <1>3, <1>4, <1>5, <1>6, <1>7 DEF Books

\* Only the value at p is another one.
OnlyAt(g, h, p) ==
    /\ SameLayout(g, h) /\ SameBlocks(g, h) /\ g.live = h.live /\ g.keys = h.keys
    /\ \A q \in Places(h) : q # p => ValueAt(g, q) = ValueAt(h, q)

\* A value is written to one place: how many owners each object has afterwards.
LEMMA OwnersAt ==
    ASSUME NEW h \in Heap, NEW g \in Heap, NEW p \in Places(h), OnlyAt(g, h, p), NEW o
    PROVE  Cardinality(Owners(g, {}, o)) =
             Cardinality(Owners(h, {p}, o)) + OneIf(ValueAt(g, p) = Strong(o))
<1>1. Places(g) = Places(h) /\ \A q \in Places(h) : q # p => ValueAt(g, q) = ValueAt(h, q)
  BY DEF OnlyAt, SameLayout
<1> DEFINE X == {}
<1>2. p \in Places(g) /\ p \notin X
  BY <1>1
<1>3. X \union {p} = {p}
  OBVIOUS
<1> HIDE DEF X
<1>4. Cardinality(Owners(g, X, o)) = Cardinality(Owners(g, X \union {p}, o)) + OneIf(ValueAt(g, p) = Strong(o))
  BY <1>2, OwnersLess
<1>5. Owners(g, {p}, o) = Owners(h, {p}, o)
  BY <1>1 DEF Owners
<1> QED
  BY <1>3, <1>4, <1>5 DEF X

\* What is left of a sum when one of its parts is known.
LEMMA SumLeft ==
    ASSUME NEW b \in Nat, NEW d, NEW v \in Int, NEW l \in Int, NEW m \in Int, NEW a, NEW n \in Int,
           a = b + v, d = b + l, n + l = d + m + v
    PROVE  n = a + m
OBVIOUS

\* A value is written where the one that was there has been disowned.
LEMMA Filled ==
    ASSUME NEW h, NEW L, NEW p \in Places(h), Books(h, L, {p}, {}, {}), NEW L2,
           NEW g \in Heap, Wiring(g), RoomForRefs(g), OnlyAt(g, h, p),
           \A o \in Objects \ h.live : Len(g.refs[o]) = 0, L2 \subseteq Objects,
           \A o \in Objects : g.count[o] + OneIf(o \in L) =
                h.count[o] + OneIf(o \in L2) + OneIf(ValueAt(g, p) = Strong(o)),
           \A o \in Objects : g.count[o] > 0 <=> h.count[o] > 0,
           \A f \in Files : p = <<f, 1>> => FileValue(ValueAt(g, p))
    PROVE  Books(g, L2, {}, {}, {})
<1>0. h \in Heap /\ Counted(h, L, {p}, {}) /\ Shapes(h) /\ Stale(h, L, {p}, {}, {})
  BY DEF Books
<1>1. \A o \in Objects : g.count[o] = Cardinality(Owners(g, {}, o)) + OneIf(o \in L2)
  <2> SUFFICES ASSUME NEW o \in Objects PROVE g.count[o] = Cardinality(Owners(g, {}, o)) + OneIf(o \in L2)
    OBVIOUS
  <2> DEFINE a == Cardinality(Owners(g, {}, o))
             b == Cardinality(Owners(h, {p}, o))
             v == OneIf(ValueAt(g, p) = Strong(o))
             l == OneIf(o \in L)
             m == OneIf(o \in L2)
  <2>1. a = b + v /\ h.count[o] = b + l /\ b \in Nat
    BY <1>0, OwnersAt, OwnersFinite DEF Counted
  <2>2. g.count[o] + l = h.count[o] + m + v
    OBVIOUS
  <2>3. v \in Int /\ l \in Int /\ m \in Int /\ g.count[o] \in Int
    <3>1. g.count[o] \in Int
      BY HeapFields
    <3> QED
      BY <3>1 DEF OneIf
  <2> HIDE DEF a, b, v, l, m
  <2>4. g.count[o] = a + m
    BY <2>1, <2>2, <2>3, SumLeft
  <2> QED
    BY <2>4 DEF a, m
<1>2. HeldBy({}, L2)
  BY DEF HeldBy
<1>3. ASSUME NEW f \in Files, f \in h.live PROVE FileValue(ValueAt(g, <<f, 1>>))
  <2>1. f \in Objects /\ Len(h.items[f]) = 1 /\ FileValue(h.items[f][1].value)
    BY <1>0, <1>3, Kinds DEF Shapes
  <2>2. <<f, 1>> \in Places(h) /\ ValueAt(h, <<f, 1>>) = h.items[f][1].value
    BY <1>0, <2>1, PlacesAre
  <2>3. CASE p = <<f, 1>>
    BY <2>3
  <2>4. CASE p # <<f, 1>>
    BY <2>1, <2>2, <2>4 DEF OnlyAt
  <2> QED
    BY <2>3, <2>4
<1>4. SameLayout(g, h) /\ SameBlocks(g, h) /\ g.live = h.live /\ g.keys = h.keys
  BY DEF OnlyAt
<1> DEFINE X2 == {}
<1>5. X2 \subseteq Places(h) /\ (\A q \in X2 : ValueAt(g, q).kind # "weak") /\ HeldBy(X2, L2)
      /\ (\A o \in Objects : g.count[o] = Cardinality(Owners(g, X2, o)) + OneIf(o \in L2))
  BY <1>1, <1>2
<1> HIDE DEF X2
<1>6. Books(g, L2, X2, {}, {})
  BY <1>2, <1>3, <1>4, <1>5, Rebooked
<1> QED
  BY <1>6 DEF X2

\* Values that can be copied: what they refer to is alive.
Copied(h, p, v) ==
    /\ \/ v = Nil
       \/ \E o \in h.live : v = Strong(o)
       \/ v.kind = "weak" /\ v.o \in h.live
    /\ \A f \in Files : p = <<f, 1>> => FileValue(v)

\* A place that has been disowned becomes nil.
LEMMA PutNilDoes ==
    ASSUME NEW h, NEW L, NEW p \in Places(h), Books(h, L, {p}, {}, {})
    PROVE  LET g == Put(h, p, Nil)
           IN  Books(g, L, {}, {}, {}) /\ OnlyAt(g, h, p)
<1> DEFINE g == Put(h, p, Nil)
<1>0. h \in Heap /\ Wiring(h) /\ RoomForRefs(h) /\ Living(h, {}) /\ Stale(h, L, {p}, {}, {})
  BY DEF Books
<1>1. /\ g \in Heap
      /\ SameLayout(g, h) /\ SameCounts(g, h) /\ SameBlocks(g, h) /\ SameRefs(g, h)
      /\ \A q \in Places(h) : ValueAt(g, q) = IF q = p THEN Nil ELSE ValueAt(h, q)
  BY <1>0, PutDoes, ValueFacts
<1> HIDE DEF g
<1>2. OnlyAt(g, h, p)
  BY <1>1 DEF OnlyAt, SameCounts
<1>3. g.refs = h.refs /\ g.room = h.room /\ g.count = h.count /\ Places(g) = Places(h)
  BY <1>1 DEF SameRefs, SameCounts, SameLayout
<1>4. RoomForRefs(g)
  BY <1>0, <1>3 DEF RoomForRefs
<1>5. ValueAt(h, p).kind # "weak"
  BY <1>0 DEF Stale
<1>6. Wiring(g)
  <2>1. \A o \in Objects : \A k \in 1..Len(g.refs[o]) :
          g.refs[o][k] \in Places(g) /\ ValueAt(g, g.refs[o][k]) = Weak(o, k - 1)
    <3> SUFFICES ASSUME NEW o \in Objects, NEW k \in 1..Len(h.refs[o])
                 PROVE  h.refs[o][k] \in Places(h) /\ ValueAt(g, h.refs[o][k]) = Weak(o, k - 1)
      BY <1>3
    <3>1. h.refs[o][k] \in Places(h) /\ ValueAt(h, h.refs[o][k]) = Weak(o, k - 1)
      BY <1>0 DEF Wiring
    <3>2. Weak(o, k - 1).kind = "weak"
      BY DEF Weak
    <3>3. h.refs[o][k] # p
      BY <3>1, <3>2, <1>5
    <3> QED
      BY <3>1, <3>3, <1>1
  <2>2. ASSUME NEW q \in Places(g), ValueAt(g, q).kind = "weak"
        PROVE  LET v == ValueAt(g, q)
               IN  v.index + 1 \in 1..Len(g.refs[v.o]) /\ g.refs[v.o][v.index + 1] = q
    <3>1. q \in Places(h) /\ ValueAt(h, q) = ValueAt(g, q)
      BY <2>2, <1>1, <1>3, ValueFacts
    <3> QED
      BY <3>1, <2>2, <1>0, <1>3 DEF Wiring
  <2> QED
    BY <2>1, <2>2 DEF Wiring
<1>7. \A o \in Objects \ h.live : Len(g.refs[o]) = 0
  BY <1>0, <1>3 DEF Living
<1>8. \A o \in Objects : OneIf(ValueAt(g, p) = Strong(o)) = 0
  BY <1>1, ValueFacts DEF OneIf
<1>9. L \subseteq Objects
  BY <1>0 DEF Stale
<1>10. \A o \in Objects : /\ g.count[o] + OneIf(o \in L) =
                              h.count[o] + OneIf(o \in L) + OneIf(ValueAt(g, p) = Strong(o))
                          /\ g.count[o] > 0 <=> h.count[o] > 0
  BY <1>0, <1>3, <1>8, HeapFields DEF OneIf
<1>11. FileValue(ValueAt(g, p))
  BY <1>1 DEF FileValue
<1>12. Books(g, L, {}, {}, {})
  BY <1>1, <1>2, <1>4, <1>6, <1>7, <1>9, <1>10, <1>11, Filled
<1> QED
  BY <1>2, <1>12 DEF g

\* A place that has been disowned becomes a weak reference.
LEMMA AttachedDoes ==
    ASSUME NEW h, NEW L, NEW p \in Places(h), Books(h, L, {p}, {}, {}), NEW o \in h.live,
           \A f \in Files : p # <<f, 1>>
    PROVE  LET g == Attach(h, p, o)
           IN  Books(g, L, {}, {}, {}) /\ OnlyAt(g, h, p)
<1> DEFINE g == Attach(h, p, o)
<1>0. h \in Heap /\ Wiring(h) /\ RoomForRefs(h) /\ Living(h, {}) /\ Stale(h, L, {p}, {}, {}) /\ o \in Objects
  BY HeapFields DEF Books
<1>5. ValueAt(h, p).kind # "weak"
  BY <1>0 DEF Stale
<1>1. /\ g \in Heap /\ Wiring(g) /\ RoomForRefs(g)
      /\ SameLayout(g, h) /\ SameCounts(g, h) /\ SameBlocks(g, h)
      /\ \A q \in Places(h) : ValueAt(g, q) = IF q = p THEN Weak(o, Len(h.refs[o])) ELSE ValueAt(h, q)
      /\ \A x \in Objects : x # o => g.refs[x] = h.refs[x]
  BY <1>0, <1>5, AttachDoes
<1> HIDE DEF g
<1>2. OnlyAt(g, h, p)
  BY <1>1 DEF OnlyAt, SameCounts
<1>3. g.count = h.count
  BY <1>1 DEF SameCounts
<1>7. \A x \in Objects \ h.live : Len(g.refs[x]) = 0
  BY <1>0, <1>1 DEF Living
<1>8. \A q \in Objects : OneIf(ValueAt(g, p) = Strong(q)) = 0
  BY <1>0, <1>1, ValueFacts, HeapFields DEF OneIf
<1>9. L \subseteq Objects
  BY <1>0 DEF Stale
<1>10. \A q \in Objects : /\ g.count[q] + OneIf(q \in L) =
                              h.count[q] + OneIf(q \in L) + OneIf(ValueAt(g, p) = Strong(q))
                          /\ g.count[q] > 0 <=> h.count[q] > 0
  BY <1>0, <1>3, <1>8, HeapFields DEF OneIf
<1>12. Books(g, L, {}, {}, {})
  BY <1>1, <1>2, <1>7, <1>9, <1>10, Filled
<1> QED
  BY <1>2, <1>12 DEF g

\* A strong reference is written, whether it is counted then or has been.
LEMMA StrongDoes ==
    ASSUME NEW h, NEW L, NEW p \in Places(h), Books(h, L, {p}, {}, {}), NEW o \in h.live,
           \A f \in Files : p = <<f, 1>> => o \in Dstrings
    PROVE  /\ LET g == Own(Put(h, p, Strong(o)), o)
              IN  Books(g, L, {}, {}, {}) /\ OnlyAt(g, h, p)
           /\ LET g == Put(h, p, Strong(o))
              IN  o \in L => Books(g, L \ {o}, {}, {}, {}) /\ OnlyAt(g, h, p)
<1> DEFINE f == Put(h, p, Strong(o))
           g == Own(f, o)
<1>0. h \in Heap /\ Wiring(h) /\ RoomForRefs(h) /\ Living(h, {}) /\ Stale(h, L, {p}, {}, {}) /\ o \in Objects
      /\ L \subseteq Objects
  BY HeapFields DEF Books, Stale
<1>1. /\ f \in Heap
      /\ SameLayout(f, h) /\ SameCounts(f, h) /\ SameBlocks(f, h) /\ SameRefs(f, h)
      /\ \A q \in Places(h) : ValueAt(f, q) = IF q = p THEN Strong(o) ELSE ValueAt(h, q)
  BY <1>0, PutDoes, ValueFacts
<1> HIDE DEF f
<1>a. f.count = h.count /\ f.refs = h.refs /\ f.room = h.room /\ Places(f) = Places(h)
  BY <1>1 DEF SameCounts, SameRefs, SameLayout
<1>2. /\ g \in Heap /\ g.items = f.items /\ g.static = f.static /\ g.size = f.size
      /\ g.refs = h.refs /\ g.room = h.room
      /\ g.live = f.live /\ g.keys = f.keys /\ SameBlocks(g, f)
      /\ \A q \in Objects : g.count[q] = IF q = o THEN h.count[q] + 1 ELSE h.count[q]
  <2> DEFINE count == [h.count EXCEPT ![o] = @ + 1]
  <2>1. h.count \in [Objects -> Int]
    BY <1>0, HeapFields
  <2>2. count \in [Objects -> Int] /\ \A q \in Objects : count[q] = IF q = o THEN h.count[q] + 1 ELSE h.count[q]
    BY <2>1, <1>0
  <2>3. g = [f EXCEPT !.count = count]
    BY <1>a DEF Own
  <2> HIDE DEF g, count
  <2> QED
    BY <2>2, <2>3, <1>1, <1>a DEF Heap, SameBlocks
<1> HIDE DEF g
<1>3. Places(g) = Places(f) /\ \A q : ValueAt(g, q) = ValueAt(f, q)
  BY <1>2 DEF Places, ValueAt
<1>4. SameLayout(g, f)
  BY <1>1, <1>2, LayoutFrom
<1>5. OnlyAt(f, h, p) /\ OnlyAt(g, h, p)
  <2>1. SameLayout(g, h) /\ SameBlocks(g, h)
    BY <1>1, <1>2, <1>4 DEF SameLayout, SameBlocks
  <2> QED
    BY <1>1, <1>2, <1>3, <2>1 DEF OnlyAt, SameCounts
<1>6. ValueAt(h, p).kind # "weak"
  BY <1>0 DEF Stale
<1>7. Wiring(f)
  <2>1. \A x \in Objects : \A k \in 1..Len(f.refs[x]) :
          f.refs[x][k] \in Places(f) /\ ValueAt(f, f.refs[x][k]) = Weak(x, k - 1)
    <3> SUFFICES ASSUME NEW x \in Objects, NEW k \in 1..Len(h.refs[x])
                 PROVE  h.refs[x][k] \in Places(h) /\ ValueAt(f, h.refs[x][k]) = Weak(x, k - 1)
      BY <1>a
    <3>1. h.refs[x][k] \in Places(h) /\ ValueAt(h, h.refs[x][k]) = Weak(x, k - 1)
      BY <1>0 DEF Wiring
    <3>2. Weak(x, k - 1).kind = "weak"
      BY DEF Weak
    <3>3. h.refs[x][k] # p
      BY <3>1, <3>2, <1>6
    <3> QED
      BY <3>1, <3>3, <1>1
  <2>2. ASSUME NEW q \in Places(f), ValueAt(f, q).kind = "weak"
        PROVE  LET v == ValueAt(f, q)
               IN  v.index + 1 \in 1..Len(f.refs[v.o]) /\ f.refs[v.o][v.index + 1] = q
    <3>1. q \in Places(h) /\ ValueAt(h, q) = ValueAt(f, q)
      BY <2>2, <1>0, <1>1, <1>a, ValueFacts
    <3> QED
      BY <3>1, <2>2, <1>0, <1>a DEF Wiring
  <2> QED
    BY <2>1, <2>2 DEF Wiring
<1>8. Wiring(g) /\ RoomForRefs(f) /\ RoomForRefs(g)
  <2>1. Wiring(g)
    BY <1>2, <1>3, <1>7, <1>a, WiringSame
  <2> QED
    BY <2>1, <1>0, <1>2, <1>a DEF RoomForRefs
<1>9. ValueAt(f, p) = Strong(o) /\ ValueAt(g, p) = Strong(o)
  BY <1>1, <1>3
<1>10. \A q \in Objects : OneIf(Strong(o) = Strong(q)) = OneIf(q = o)
  BY <1>0 DEF OneIf, Strong
<1>11. \A x \in Objects \ h.live : Len(f.refs[x]) = 0 /\ Len(g.refs[x]) = 0
  BY <1>0, <1>2, <1>a DEF Living
<1>12. \A q \in Objects : h.count[q] \in Int
  BY <1>0, HeapFields
<1>13. h.count[o] > 0
  BY <1>0 DEF Living, Positive
<1>14. FileValue(Strong(o)) \/ \A x \in Files : p # <<x, 1>>
  BY DEF FileValue
<1>15. Books(g, L, {}, {}, {})
  <2>1. \A q \in Objects : g.count[q] + OneIf(q \in L) =
              h.count[q] + OneIf(q \in L) + OneIf(ValueAt(g, p) = Strong(q))
    BY <1>2, <1>9, <1>10, <1>12 DEF OneIf
  <2>2. \A q \in Objects : g.count[q] > 0 <=> h.count[q] > 0
    BY <1>2, <1>12, <1>13
  <2> QED
    BY <1>0, <1>2, <1>5, <1>8, <1>9, <1>11, <1>14, <2>1, <2>2, Filled
<1>16. ASSUME o \in L PROVE Books(f, L \ {o}, {}, {}, {})
  <2> DEFINE L2 == L \ {o}
  <2>1. \A q \in Objects : OneIf(q \in L) = OneIf(q \in L2) + OneIf(q = o) /\ OneIf(q \in L2) \in Int
                           /\ OneIf(q = o) \in Int
    BY <1>16 DEF OneIf
  <2>2. L2 \subseteq Objects
    BY <1>0
  <2> HIDE DEF L2
  <2>3. \A q \in Objects : f.count[q] + OneIf(q \in L) =
              h.count[q] + OneIf(q \in L2) + OneIf(ValueAt(f, p) = Strong(q))
    <3> SUFFICES ASSUME NEW q \in Objects
                 PROVE  f.count[q] + OneIf(q \in L) =
                          h.count[q] + OneIf(q \in L2) + OneIf(ValueAt(f, p) = Strong(q))
      OBVIOUS
    <3>1. OneIf(ValueAt(f, p) = Strong(q)) = OneIf(q = o)
      BY <1>9, <1>10
    <3>2. f.count[q] = h.count[q] /\ h.count[q] \in Int
      BY <1>a, <1>12
    <3>3. OneIf(q \in L) = OneIf(q \in L2) + OneIf(q = o) /\ OneIf(q \in L2) \in Int /\ OneIf(q = o) \in Int
      BY <2>1
    <3> QED
      BY <3>1, <3>2, <3>3
  <2>4. \A q \in Objects : f.count[q] > 0 <=> h.count[q] > 0
    BY <1>a
  <2>5. Books(f, L2, {}, {}, {})
    BY <1>0, <1>1, <1>5, <1>7, <1>8, <1>9, <1>11, <1>14, <2>2, <2>3, <2>4, Filled
  <2> QED
    BY <2>5 DEF L2
<1> QED
  BY <1>5, <1>15, <1>16 DEF f, g

\* eel_v_copy and eel_v_clone.
LEMMA CopyDoes ==
    ASSUME NEW h, NEW L, NEW p \in Places(h), Books(h, L, {p}, {}, {}), NEW v, Copied(h, p, v)
    PROVE  Books(Copy(h, p, v), L, {}, {}, {}) /\ OnlyAt(Copy(h, p, v), h, p)
<1>0. h.live \subseteq Objects
  BY HeapFields DEF Books
<1>1. CASE v = Nil
  <2>1. v.kind = "nil"
    BY <1>1 DEF Nil
  <2>2. Copy(h, p, v) = Put(h, p, Nil)
    BY <2>1 DEF Copy
  <2> QED
    BY <2>2, PutNilDoes
<1>2. CASE \E o \in h.live : v = Strong(o)
  <2>1. PICK o \in h.live : v = Strong(o)
    BY <1>2
  <2>2. v.kind = "strong" /\ v.o = o
    BY <2>1 DEF Strong
  <2>3. Copy(h, p, v) = Own(Put(h, p, Strong(o)), o)
    BY <2>2 DEF Copy
  <2>4. \A f \in Files : p = <<f, 1>> => o \in Dstrings
    <3>1. FileValue(v) => o \in Dstrings
      BY <2>1 DEF FileValue, Strong, Nil
    <3> QED
      BY <3>1 DEF Copied
  <2> QED
    BY <2>3, <2>4, StrongDoes
<1>3. CASE v.kind = "weak" /\ v.o \in h.live
  <2>2. \A f \in Files : p # <<f, 1>>
    <3>1. ~FileValue(v)
      BY <1>3 DEF FileValue, Nil, Strong
    <3> QED
      BY <3>1 DEF Copied
  <2>3. CASE v.index = Unwired
    <3>1. Copy(h, p, v) = Attach(h, p, v.o)
      BY <1>3, <2>3 DEF Copy
    <3> QED
      BY <1>3, <2>2, <3>1, AttachedDoes
  <2>4. CASE v.index # Unwired
    <3>1. Copy(h, p, v) = Own(Put(h, p, Strong(v.o)), v.o)
      BY <1>3, <2>4 DEF Copy
    <3> QED
      BY <1>3, <2>2, <3>1, StrongDoes
  <2> QED
    BY <2>3, <2>4
<1> QED
  BY <1>1, <1>2, <1>3 DEF Copied

\* eel_v_clone to a place that has been disowned.
LEMMA CloneDoes ==
    ASSUME NEW h, NEW L, NEW p \in Places(h), Books(h, L, {p}, {}, {}), NEW v, Copied(h, p, v)
    PROVE  Books(Clone(h, p, v), L, {}, {}, {}) /\ OnlyAt(Clone(h, p, v), h, p)
<1>1. CASE v.kind # "weak"
  <2>1. Clone(h, p, v) = Copy(h, p, v)
    BY <1>1 DEF Clone
  <2> QED
    BY <1>1, <2>1, CopyDoes
<1>2. CASE v.kind = "weak"
  <2>1. Clone(h, p, v) = Attach(h, p, v.o)
    BY <1>2 DEF Clone
  <2>2. \A f \in Files : p # <<f, 1>>
    <3>1. ~FileValue(v)
      BY <1>2 DEF FileValue, Nil, Strong
    <3> QED
      BY <3>1 DEF Copied
  <2>3. v.o \in h.live
    BY <1>2 DEF Copied, Nil, Strong
  <2> QED
    BY <2>1, <2>2, <2>3, AttachedDoes
<1> QED
  BY <1>1, <1>2

\* Objects that live on keep as many items as they had.
Kept(h, g) ==
    g.live \subseteq h.live /\ \A c \in Objects : c \in g.live => Len(g.items[c]) = Len(h.items[c])

Operand(v, L) == v = Nil \/ \E o \in L : v = Strong(o) \/ v = Weak(o, Unwired)

\* What is kept twice is kept.
LEMMA KeptOn ==
    ASSUME NEW f, NEW g, NEW h, Kept(f, g), Kept(g, h)
    PROVE  Kept(f, h)
  BY DEF Kept

\* An operand of a statement can be copied to a place.
LEMMA OperandCopied ==
    ASSUME NEW h, NEW L, NEW X, Books(h, L, X, {}, {}), NEW v, Operand(v, L), NEW p,
           \A f \in Files : p = <<f, 1>> => FileValue(v)
    PROVE  Copied(h, p, v)
<1>1. \A o \in L : o \in h.live
  BY BooksSay
<1>2. CASE v = Nil
  BY <1>2 DEF Copied
<1>3. CASE \E o \in L : v = Strong(o)
  BY <1>1, <1>3 DEF Copied
<1>4. CASE \E o \in L : v = Weak(o, Unwired)
  <2>1. v.kind = "weak" /\ v.o \in h.live
    BY <1>1, <1>4 DEF Weak
  <2> QED
    BY <2>1 DEF Copied
<1> QED
  BY <1>2, <1>3, <1>4 DEF Operand

\* A value is disowned and another one copied to where it was.
LEMMA WrittenDoes ==
    ASSUME NEW h, NEW L, Books(h, L, {}, {}, {}), NEW p \in Places(h), Len(p) = 2 => p[1] \in L,
           NEW v, Operand(v, L), \A f \in Files : p = <<f, 1>> => FileValue(v)
    PROVE  LET g == Copy(DisownAt(Disown, h, p), p, v)
           IN  Books(g, L, {}, {}, {}) /\ Kept(h, g)
<1> DEFINE k == DisownAt(Disown, h, p)
           g == Copy(k, p, v)
<1>1. Books(k, L, {p}, {}, {}) /\ Fades(h, k)
  BY PlaceDisowned
<1> HIDE DEF k
<1>2. p \in Places(k)
  BY <1>1 DEF Books, Stale
<1>3. Copied(k, p, v)
  BY <1>1, OperandCopied
<1>4. Books(g, L, {}, {}, {}) /\ OnlyAt(g, k, p)
  BY <1>1, <1>2, <1>3, CopyDoes
<1> HIDE DEF g
<1>5. Kept(h, g)
  BY <1>1, <1>4 DEF Kept, OnlyAt, SameLayout, Fades
<1> QED
  BY <1>4, <1>5 DEF g, k

\* SETVAR: the old value of a static variable is disowned, the new one owned.
LEMMA StoreDoes ==
    ASSUME NEW h, NEW L, Books(h, L, {}, {}, {}), NEW s \in Statics, NEW v, Operand(v, L)
    PROVE  Books(Store(h, s, v), L, {}, {}, {}) /\ Kept(h, Store(h, s, v))
<1>1. <<s>> \in Places(h) /\ Len(<<s>>) # 2 /\ \A f : <<s>> # <<f, 1>>
  BY DEF Places
<1> DEFINE p == <<s>>
<1>2. Store(h, s, v) = Copy(DisownAt(Disown, h, p), p, v)
  BY DEF Store
<1>3. p \in Places(h) /\ Len(p) # 2 /\ \A f : p # <<f, 1>>
  BY <1>1
<1> HIDE DEF p
<1>4. LET g == Copy(DisownAt(Disown, h, p), p, v) IN Books(g, L, {}, {}, {}) /\ Kept(h, g)
  BY <1>3, WrittenDoes
<1> QED
  BY <1>2, <1>4

\* An item is disowned and another value written over it.
LEMMA ReplacedDoes ==
    ASSUME NEW h, NEW L, Books(h, L, {}, {}, {}), NEW c \in L, NEW i, i \in 1..Len(h.items[c]),
           NEW v, Operand(v, L), c \in Files => FileValue(v)
    PROVE  Books(Replaced(h, c, i, v), L, {}, {}, {}) /\ Kept(h, Replaced(h, c, i, v))
<1>0. h \in Heap /\ c \in Objects
  BY DEF Books, Stale
<1>1. <<c, i>> \in Places(h)
  BY <1>0, PlacesAre
<1> DEFINE p == <<c, i>>
<1>2. Replaced(h, c, i, v) = Copy(DisownAt(Disown, h, p), p, v)
  BY DEF Replaced
<1>3. p \in Places(h) /\ p[1] = c /\ \A f : p = <<f, 1>> => f = c
  BY <1>1
<1> HIDE DEF p
<1>4. LET g == Copy(DisownAt(Disown, h, p), p, v) IN Books(g, L, {}, {}, {}) /\ Kept(h, g)
  BY <1>3, WrittenDoes
<1> QED
  BY <1>2, <1>4

\* A place with nil in it can be written like one that has been disowned.
LEMMA NilStale ==
    ASSUME NEW h, NEW L, Books(h, L, {}, {}, {}), NEW p \in Places(h), Len(p) = 2 => p[1] \in L,
           ValueAt(h, p) = Nil
    PROVE  Books(h, L, {p}, {}, {})
<1>1. \A o \in Objects : Owners(h, {p}, o) = Owners(h, {}, o)
  <2>1. \A o \in Objects : Strong(o) # Nil
    BY ValueFacts
  <2> QED
    BY <2>1 DEF Owners
<1>2. Counted(h, L, {p}, {})
  BY <1>1 DEF Counted, Books
<1>3. Stale(h, L, {p}, {}, {})
  BY ValueFacts DEF Stale, Books, HeldBy
<1> QED
  BY <1>2, <1>3 DEF Books

\* A new item that is nil gets its value.
LEMMA FilledNil ==
    ASSUME NEW h, NEW L, Books(h, L, {}, {}, {}), NEW p \in Places(h), Len(p) = 2 => p[1] \in L,
           ValueAt(h, p) = Nil, NEW v, Copied(h, p, v)
    PROVE  /\ Books(Copy(h, p, v), L, {}, {}, {}) /\ OnlyAt(Copy(h, p, v), h, p)
           /\ Books(Clone(h, p, v), L, {}, {}, {}) /\ OnlyAt(Clone(h, p, v), h, p)
  BY NilStale, CopyDoes, CloneDoes

\* The block of items is made longer or shorter, but not shorter than the items.
LEMMA ResizedBooks ==
    ASSUME NEW h, NEW L, Books(h, L, {}, {}, {}), NEW c \in L, NEW length \in Nat,
           Len(h.items[c]) <= length
    PROVE  LET g == Resized(h, c, length)
           IN  /\ Books(g, L, {}, {}, {})
               /\ g.items = h.items /\ g.live = h.live /\ g.size[c] >= length
<1> DEFINE g == Resized(h, c, length)
<1>0. h \in Heap /\ c \in Objects /\ Wiring(h) /\ RoomForRefs(h) /\ Counted(h, L, {}, {}) /\ Living(h, {})
      /\ Stale(h, L, {}, {}, {}) /\ Shapes(h) /\ BlocksFit(h)
  BY DEF Books, Stale
<1>1. /\ g \in Heap /\ Wiring(g) /\ RoomForRefs(g)
      /\ g.static = h.static /\ g.items = h.items /\ g.room = h.room
      /\ SameCounts(g, h) /\ SameBlocks(g, h)
      /\ g.size[c] >= length
      /\ \A d \in Objects : d # c => g.size[d] = h.size[d]
      /\ \A o \in Objects : Len(g.refs[o]) = Len(h.refs[o])
  BY <1>0, ResizedDoes
<1> HIDE DEF g
<1>2. /\ g.live = h.live /\ g.count = h.count /\ g.keys = h.keys /\ g.block = h.block
  BY <1>1 DEF SameCounts, SameBlocks
<1>3. Places(g) = Places(h) /\ Slots(g) = Slots(h)
  BY <1>1 DEF Places, Slots
<1>4. \A q : ValueAt(g, q) = ValueAt(h, q)
  BY <1>1 DEF ValueAt
<1>5. KeyAt(g) = KeyAt(h)
  BY <1>1, <1>3 DEF KeyAt
<1>6. Counted(g, L, {}, {})
  <2>1. \A o : Owners(g, {}, o) = Owners(h, {}, o)
    BY <1>3, <1>4 DEF Owners
  <2>2. \A k : Holders(g, {}, k) = Holders(h, {}, k)
    BY <1>3, <1>5 DEF Holders
  <2> QED
    BY <1>0, <1>2, <2>1, <2>2 DEF Counted
<1>7. Living(g, {})
  <2>1. Positive(g) = Positive(h)
    BY <1>2 DEF Positive
  <2> QED
    BY <2>1, <1>0, <1>1, <1>2 DEF Living
<1>8. Stale(g, L, {}, {}, {})
  BY <1>0 DEF Stale
<1>9. Shapes(g)
  <2>1. \A d \in Objects : Len(g.items[d]) <= g.size[d]
    <3>1. Len(g.items[c]) <= g.size[c]
      <4>1. Len(h.items[c]) \in Nat /\ g.size[c] \in Nat
        BY <1>0, <1>1, HeapFields
      <4> QED
        BY <4>1, <1>1
    <3> QED
      BY <3>1, <1>0, <1>1 DEF Shapes
  <2> QED
    BY <2>1, <1>0, <1>1, <1>2 DEF Shapes
<1>10. BlocksFit(g)
  BY <1>0, <1>2 DEF BlocksFit
<1>a. Ordered(g)
  BY <1>1, OrderKept DEF Books
<1>11. Books(g, L, {}, {}, {})
  BY <1>1, <1>6, <1>7, <1>8, <1>9, <1>10, <1>a DEF Books
<1> QED
  BY <1>1, <1>2, <1>11 DEF g

\* The sequence that InsertAt gives, item by item.
LEMMA InsertAtDoes ==
    ASSUME NEW S, NEW s \in Seq(S), NEW e \in S, NEW i \in 1..Len(s) + 1
    PROVE  LET r == InsertAt(s, i, e)
           IN  /\ r \in Seq(S) /\ Len(r) = Len(s) + 1
               /\ \A j \in 1..Len(s) + 1 :
                     r[j] = IF j < i THEN s[j] ELSE IF j = i THEN e ELSE s[j - 1]
<1> DEFINE a == SubSeq(s, 1, i - 1)
           b == SubSeq(s, i, Len(s))
           r == a \o <<e>> \o b
<1>1. InsertAt(s, i, e) = r
  BY DEF InsertAt
<1>2. a \in Seq(S) /\ Len(a) = i - 1 /\ \A j \in 1..i - 1 : a[j] = s[j]
  <2>1. i - 1 \in 0..Len(s) /\ Len(s) \in Nat
    OBVIOUS
  <2> QED
    BY <2>1
<1>3. b \in Seq(S) /\ Len(b) = Len(s) - i + 1 /\ \A j \in 1..Len(s) - i + 1 : b[j] = s[i + j - 1]
  OBVIOUS
<1>4. <<e>> \in Seq(S) /\ Len(<<e>>) = 1 /\ <<e>>[1] = e
  OBVIOUS
<1> DEFINE m == a \o <<e>>
<1> HIDE DEF a, b
<1>5. m \in Seq(S) /\ Len(m) = i /\ \A j \in 1..i : m[j] = IF j < i THEN s[j] ELSE e
  BY <1>2, <1>4
<1> HIDE DEF m
<1>6. /\ m \o b \in Seq(S) /\ Len(m \o b) = Len(s) + 1
      /\ \A j \in 1..Len(s) + 1 : (m \o b)[j] = IF j <= i THEN m[j] ELSE b[j - i]
  <2>1. m \o b \in Seq(S) /\ Len(m \o b) = Len(m) + Len(b)
        /\ \A j \in 1..Len(m) + Len(b) : (m \o b)[j] = IF j <= Len(m) THEN m[j] ELSE b[j - Len(m)]
    <3>1. m \in Seq(S) /\ b \in Seq(S)
      BY <1>3, <1>5
    <3> QED
      BY <3>1, ConcatProperties
  <2>2. Len(m) + Len(b) = Len(s) + 1
    BY <1>3, <1>5
  <2> QED
    BY <2>1, <2>2, <1>5
<1>7. \A j \in 1..Len(s) + 1 : j > i => b[j - i] = s[j - 1]
  <2> SUFFICES ASSUME NEW j \in 1..Len(s) + 1, j > i PROVE b[j - i] = s[j - 1]
    OBVIOUS
  <2>1. j - i \in 1..Len(s) - i + 1 /\ i + (j - i) - 1 = j - 1
    OBVIOUS
  <2> QED
    BY <2>1, <1>3
<1>8. \A j \in 1..Len(s) + 1 : (m \o b)[j] = IF j < i THEN s[j] ELSE IF j = i THEN e ELSE s[j - 1]
  <2> SUFFICES ASSUME NEW j \in 1..Len(s) + 1
               PROVE (m \o b)[j] = IF j < i THEN s[j] ELSE IF j = i THEN e ELSE s[j - 1]
    OBVIOUS
  <2>1. CASE j > i
    BY <2>1, <1>6, <1>7
  <2>2. CASE ~(j > i)
    <3>1. j \in 1..i
      BY <2>2
    <3> QED
      BY <3>1, <1>5, <1>6
  <2> QED
    BY <2>1, <2>2
<1> QED
  BY <1>1, <1>6, <1>8 DEF m

\* What items of other objects a change of c leaves alone.
Longer(h, g, c, by) ==
    /\ g.live = h.live
    /\ \A d \in Objects : Len(g.items[d]) = IF d = c THEN Len(h.items[d]) + by ELSE Len(h.items[d])

\* Items from i on have made place for a new one.
PlaceFor(h, c, i, key) ==
    LET owned == IF c \in Tables THEN OwnKey(h, key) ELSE h
    IN  Relocated([owned EXCEPT !.items[c] = InsertAt(@, i, Item(key, Nil))], c)

\* In a table the key belongs there.
PlaceFits(h, c, i, key) ==
    \A j \in 1..Len(h.items[c]) :
        /\ h.items[c][j].key # key
        /\ j < i => HashOf[h.items[c][j].key] <= HashOf[key]
        /\ ~(j < i) => HashOf[key] <= HashOf[h.items[c][j].key]

\* A table to which an item is added where its key belongs stays in order.
LEMMA OrderWithPlace ==
    ASSUME NEW h, NEW g, NEW c, NEW i, NEW key, NEW n \in Nat, n = Len(h.items[c]),
           InOrder(h, c), PlaceFits(h, c, i, key), i \in 1..n + 1, Len(g.items[c]) = n + 1,
           \A j \in 1..n + 1 : g.items[c][j].key = IF j < i THEN h.items[c][j].key
                                                   ELSE IF j = i THEN key ELSE h.items[c][j - 1].key
    PROVE  InOrder(g, c)
<1> DEFINE old(j) == h.items[c][j].key
           now(j) == g.items[c][j].key
           Before(x, y) == HashOf[x] <= HashOf[y] /\ x # y
<1>1. \A j, l \in 1..n : j < l => Before(old(j), old(l))
  BY DEF InOrder
<1>2. \A j \in 1..n : (j < i => Before(old(j), key)) /\ (~(j < i) => Before(key, old(j)))
  BY DEF PlaceFits
<1>3. \A j \in 1..n + 1 : now(j) = IF j < i THEN old(j) ELSE IF j = i THEN key ELSE old(j - 1)
  OBVIOUS
<1> HIDE DEF old, now, Before
<1>4. ASSUME NEW j \in 1..n + 1, NEW l \in 1..n + 1, j < l
      PROVE  Before(now(j), now(l))
  <2>1. CASE j < i /\ l < i
    <3>1. now(j) = old(j) /\ now(l) = old(l) /\ j \in 1..n /\ l \in 1..n
      BY <2>1, <1>3
    <3> QED
      BY <3>1, <1>1, <1>4
  <2>2. CASE j < i /\ l = i
    <3>1. now(j) = old(j) /\ now(l) = key /\ j \in 1..n
      BY <2>2, <1>3
    <3> QED
      BY <3>1, <1>2, <2>2
  <2>3. CASE j < i /\ l > i
    <3>1. now(j) = old(j) /\ now(l) = old(l - 1) /\ j \in 1..n /\ l - 1 \in 1..n /\ j < l - 1
      BY <2>3, <1>3
    <3> QED
      BY <3>1, <1>1
  <2>4. CASE j = i
    <3>1. now(j) = key /\ now(l) = old(l - 1) /\ l - 1 \in 1..n /\ ~(l - 1 < i)
      BY <2>4, <1>3, <1>4
    <3> QED
      BY <3>1, <1>2
  <2>5. CASE j > i
    <3>1. /\ now(j) = old(j - 1) /\ now(l) = old(l - 1) /\ j - 1 \in 1..n /\ l - 1 \in 1..n
          /\ j - 1 < l - 1
      BY <2>5, <1>3, <1>4
    <3> QED
      BY <3>1, <1>1
  <2> QED
    BY <2>1, <2>2, <2>3, <2>4, <2>5, <1>4
<1> QED
  BY <1>4 DEF InOrder, now, Before

\* An item makes place: nil is at i, and what was there is behind it.
LEMMA PlaceMade ==
    ASSUME NEW h, NEW L, Books(h, L, {}, {}, {}), NEW c \in L, c \in Arrays \union Tables,
           NEW i \in 1..Len(h.items[c]) + 1, NEW key, IF c \in Tables THEN key \in Keys ELSE key = Nil,
           h.size[c] >= Len(h.items[c]) + 1, c \in Tables => PlaceFits(h, c, i, key)
    PROVE  LET g == PlaceFor(h, c, i, key)
           IN  /\ Books(g, L, {}, {}, {}) /\ Longer(h, g, c, 1)
               /\ i \in 1..Len(g.items[c]) /\ g.items[c][i].value = Nil
<1> DEFINE n == Len(h.items[c])
           owned == IF c \in Tables THEN OwnKey(h, key) ELSE h
           r == InsertAt(h.items[c], i, Item(key, Nil))
           g0 == [owned EXCEPT !.items[c] = r]
           g == Relocated(g0, c)
           new == {i}
           from == [j \in (1..n + 1) \ new |-> IF j < i THEN j ELSE j - 1]
<1>0. h \in Heap /\ c \in Objects
  BY DEF Books, Stale
<1>1. n \in Nat /\ h.items[c] \in Seq(Items1) /\ h.items \in [Objects -> Seq(Items1)] /\ h.keys \in [Keys -> Int]
  BY <1>0, HeapFields
<1>2. Item(key, Nil) \in Items1 /\ Item(key, Nil).value = Nil /\ Item(key, Nil).key = key
  BY ValueFacts DEF Items1, Item
<1>3. /\ r \in Seq(Items1) /\ Len(r) = n + 1
      /\ \A j \in 1..n + 1 : r[j] = IF j < i THEN h.items[c][j] ELSE IF j = i THEN Item(key, Nil)
                                                              ELSE h.items[c][j - 1]
  <2> DEFINE s == h.items[c]
             e == Item(key, Nil)
  <2>1. s \in Seq(Items1) /\ e \in Items1 /\ i \in 1..Len(s) + 1
    BY <1>1, <1>2
  <2> HIDE DEF s, e
  <2>2. LET q == InsertAt(s, i, e)
        IN  /\ q \in Seq(Items1) /\ Len(q) = Len(s) + 1
            /\ \A j \in 1..Len(s) + 1 :
                  q[j] = IF j < i THEN s[j] ELSE IF j = i THEN e ELSE s[j - 1]
    BY <2>1, InsertAtDoes
  <2> QED
    BY <2>2 DEF s, e
<1> HIDE DEF r
<1>4. /\ owned \in Heap /\ owned.items = h.items /\ owned.refs = h.refs /\ owned.room = h.room
      /\ owned.live = h.live /\ owned.count = h.count /\ owned.static = h.static
      /\ owned.size = h.size /\ owned.block = h.block /\ owned.position = h.position
      /\ \A k \in Keys : owned.keys[k] = h.keys[k] + OneIf(c \in Tables /\ k = key)
  <2>1. CASE c \in Tables
    <3>1. owned = OwnKey(h, key) /\ key \in Keys
      BY <2>1
    <3> HIDE DEF owned
    <3>2. owned = [h EXCEPT !.keys[key] = h.keys[key] + 1]
      BY <3>1 DEF OwnKey
    <3>3. \A k \in Keys : owned.keys[k] = h.keys[k] + OneIf(k = key)
      BY <3>1, <3>2, <1>0, <1>1 DEF Heap, OneIf
    <3>4. h.keys[key] + 1 \in Int
      BY <3>1, <1>1
    <3> QED
      <4>1. owned \in Heap
        <5> DEFINE keys == [h.keys EXCEPT ![key] = h.keys[key] + 1]
        <5>1. keys \in [Keys -> Int]
          BY <3>1, <3>4, <1>1
        <5>2. owned = [h EXCEPT !.keys = keys]
          BY <3>2
        <5> HIDE DEF keys
        <5> QED
          BY <5>1, <5>2, <1>0 DEF Heap
      <4>2. /\ owned.items = h.items /\ owned.refs = h.refs /\ owned.room = h.room
            /\ owned.live = h.live /\ owned.count = h.count /\ owned.static = h.static
            /\ owned.size = h.size /\ owned.block = h.block /\ owned.position = h.position
        BY <3>2, <1>0 DEF Heap
      <4>3. \A k \in Keys : OneIf(c \in Tables /\ k = key) = OneIf(k = key)
        BY <2>1 DEF OneIf
      <4> QED
        BY <4>1, <4>2, <4>3, <3>3
  <2>2. CASE c \notin Tables
    <3>1. owned = h
      BY <2>2
    <3> QED
      BY <3>1, <2>2, <1>0, <1>1 DEF OneIf
  <2> QED
    BY <2>1, <2>2
<1> HIDE DEF owned
<1>5. /\ g0 \in Heap /\ g0.refs = h.refs /\ g0.room = h.room
      /\ g0.live = h.live /\ g0.count = h.count /\ g0.static = h.static
      /\ g0.size = h.size /\ g0.block = h.block /\ g0.position = h.position
      /\ g0.keys = owned.keys
      /\ \A d \in Objects : g0.items[d] = IF d = c THEN r ELSE h.items[d]
  BY <1>0, <1>1, <1>3, <1>4 DEF Heap, Items1
<1> HIDE DEF g0
<1>6. Otherwise(h, g0, c)
  BY <1>5 DEF Otherwise, SameBlocks
<1> DEFINE X == {}
           at == 1..Len(g0.items[c])
           kept == {k \in 1..Len(h.items[c]) : <<c, k>> \notin X}
<1>7. at = 1..n + 1 /\ kept = 1..n /\ g0.items[c] = r
  BY <1>0, <1>3, <1>5
<1> HIDE DEF n
<1>8. /\ new \subseteq at
      /\ from \in [at \ new -> kept]
      /\ \A j, l \in at \ new : from[j] = from[l] => j = l
      /\ \A k \in kept : \E j \in at \ new : from[j] = k
  <2>1. new \subseteq at
    BY <1>7 DEF n
  <2>2. from \in [at \ new -> kept]
    BY <1>1, <1>7 DEF n
  <2>3. \A j, l \in at \ new : from[j] = from[l] => j = l
    BY <1>1, <1>7 DEF n
  <2>4. ASSUME NEW k \in kept PROVE \E j \in at \ new : from[j] = k
    <3>1. CASE k < i
      <4>1. k \in at \ new /\ from[k] = k
        BY <3>1, <1>1, <1>7 DEF n
      <4> QED
        BY <4>1
    <3>2. CASE ~(k < i)
      <4>1. k + 1 \in at \ new /\ from[k + 1] = k
        BY <3>2, <1>1, <1>7 DEF n
      <4> QED
        BY <4>1
    <3> QED
      BY <3>1, <3>2
  <2> QED
    BY <2>1, <2>2, <2>3, <2>4
<1>9. \A j \in at \ new : g0.items[c][j] = h.items[c][from[j]]
  BY <1>1, <1>3, <1>7
<1>10. \A j \in new : g0.items[c][j] = Item(key, Nil)
  BY <1>1, <1>3, <1>7 DEF n
<1>11. \A k \in Keys : g0.keys[k] =
          h.keys[k] + Cardinality({j \in new : c \in Tables /\ g0.items[c][j].key = k})
  <2> SUFFICES ASSUME NEW k \in Keys
               PROVE  g0.keys[k] = h.keys[k] + Cardinality({j \in new : c \in Tables /\ g0.items[c][j].key = k})
    OBVIOUS
  <2> DEFINE S == {j \in new : c \in Tables /\ g0.items[c][j].key = k}
  <2>1. S = IF c \in Tables /\ k = key THEN {i} ELSE {}
    BY <1>10, <1>2
  <2>2. Cardinality({i}) = 1 /\ Cardinality({}) = 0
    BY FS_Singleton, FS_EmptySet
  <2>3. Cardinality(S) = OneIf(c \in Tables /\ k = key)
    BY <2>1, <2>2 DEF OneIf
  <2> HIDE DEF S
  <2>4. g0.keys[k] = h.keys[k] + Cardinality(S)
    BY <2>3, <1>4, <1>5
  <2> QED
    BY <2>4 DEF S
<1>a. \A j \in new : g0.items[c][j].value = Nil /\ (c \in Tables => g0.items[c][j].key \in Keys)
  BY <1>10, <1>2
<1> HIDE DEF new, from, X
<1>12. Rearranged(h, g0, c, X, new, from)
  BY <1>8, <1>9, <1>a, <1>11 DEF Rearranged, at, kept
<1> USE DEF X
<1>13. Len(g0.items[c]) <= g0.size[c]
  BY <1>3, <1>5, <1>7 DEF n
<1>13a. c \in Tables => InOrder(g0, c)
  <2> SUFFICES ASSUME c \in Tables PROVE InOrder(g0, c)
    OBVIOUS
  <2>1. InOrder(h, c) /\ PlaceFits(h, c, i, key)
    BY DEF Books, Ordered
  <2>2. \A j \in 1..n + 1 : g0.items[c][j].key = IF j < i THEN h.items[c][j].key
                                                  ELSE IF j = i THEN key ELSE h.items[c][j - 1].key
    BY <1>2, <1>3, <1>7
  <2>3. n \in Nat /\ n = Len(h.items[c]) /\ i \in 1..n + 1 /\ Len(g0.items[c]) = n + 1
    BY <1>1, <1>3, <1>7 DEF n
  <2> QED
    BY <2>1, <2>2, <2>3, OrderWithPlace
<1>14. Books(h, L, X, X, {}) /\ (\A p \in X \union X : \E k : p = <<c, k>>)
       /\ (\A k \in 1..Len(h.items[c]) : c \in Tables => (<<c, k>> \in X <=> <<c, k>> \in X))
  OBVIOUS
<1> HIDE DEF X, at, kept
<1>15. /\ Books(g, L, {}, {}, {}) /\ g.items = g0.items /\ g.size = g0.size /\ g.live = h.live
  BY <1>5, <1>6, <1>12, <1>13, <1>13a, <1>14, MovesDo
<1> HIDE DEF g
<1>16. Longer(h, g, c, 1)
  BY <1>15, <1>5, <1>3 DEF Longer, n
<1>17. i \in 1..Len(g.items[c]) /\ g.items[c][i].value = Nil
  BY <1>15, <1>7, <1>3, <1>2, <1>1 DEF n
<1>18. g = PlaceFor(h, c, i, key)
  BY <1>4 DEF g, g0, r, PlaceFor, owned
<1> QED
  BY <1>15, <1>16, <1>17, <1>18 DEF owned

\* insert() of arrays and tables.
LEMMA InsertedDoes ==
    ASSUME NEW h, NEW L, Books(h, L, {}, {}, {}), NEW c \in L, c \in Arrays \union Tables,
           NEW i \in 1..Len(h.items[c]) + 1, NEW key, IF c \in Tables THEN key \in Keys ELSE key = Nil,
           NEW v, Copied(h, <<c, i>>, v), c \in Tables => PlaceFits(h, c, i, key)
    PROVE  LET g == Inserted(h, c, i, key, v)
           IN  Books(g, L, {}, {}, {}) /\ Longer(h, g, c, 1)
<1> DEFINE n == Len(h.items[c])
           f == Resized(h, c, n + 1)
           m == PlaceFor(f, c, i, key)
           p == <<c, i>>
           g == Copy(m, p, v)
<1>0. h \in Heap /\ c \in Objects /\ n \in Nat /\ L \subseteq Objects
  <2>1. h \in Heap /\ c \in Objects /\ L \subseteq Objects
    BY DEF Books, Stale
  <2> QED
    BY <2>1, HeapFields
<1>1. /\ Books(f, L, {}, {}, {}) /\ f.items = h.items /\ f.live = h.live /\ f.size[c] >= n + 1
  BY <1>0, ResizedBooks
<1> HIDE DEF f
<1>2. /\ Books(m, L, {}, {}, {}) /\ Longer(f, m, c, 1)
      /\ i \in 1..Len(m.items[c]) /\ m.items[c][i].value = Nil
  <2>1. i \in 1..Len(f.items[c]) + 1 /\ f.size[c] >= Len(f.items[c]) + 1
    BY <1>1
  <2>2. c \in Tables => PlaceFits(f, c, i, key)
    BY <1>1 DEF PlaceFits
  <2> HIDE DEF m, g, p, n
  <2>3. Books(f, L, {}, {}, {})
    BY <1>1
  <2>4. LET made == PlaceFor(f, c, i, key)
        IN  /\ Books(made, L, {}, {}, {}) /\ Longer(f, made, c, 1)
            /\ i \in 1..Len(made.items[c]) /\ made.items[c][i].value = Nil
    BY <2>1, <2>2, <2>3, PlaceMade
  <2> QED
    BY <2>4 DEF m
<1> HIDE DEF m
<1>3. m \in Heap
  BY <1>2 DEF Books
<1>4. p \in Places(m) /\ ValueAt(m, p) = Nil /\ p[1] = c
  BY <1>0, <1>2, <1>3, PlacesAre
<1>5. m.live = h.live /\ Copied(m, p, v)
  BY <1>1, <1>2 DEF Longer, Copied
<1> HIDE DEF p
<1>6. Books(g, L, {}, {}, {}) /\ OnlyAt(g, m, p)
  BY <1>2, <1>4, <1>5, FilledNil
<1> HIDE DEF g
<1>7. Longer(h, g, c, 1)
  BY <1>1, <1>2, <1>6 DEF Longer, OnlyAt, SameLayout
<1>8. Inserted(h, c, i, key, v) = g
  BY DEF Inserted, f, g, m, p, n, PlaceFor
<1> QED
  BY <1>6, <1>7, <1>8

-----------------------------------------------------------------------------
(* Items that are inserted and removed.                                     *)

\* Items that are left when those from from to to are not.
Without(s, from, to) == P!ItemsRemoved(s, from, to)

\* The sequence with the items from one position to another left out.
LEMMA WithoutDoes ==
    ASSUME NEW S, NEW s \in Seq(S), NEW from \in Nat \ {0}, NEW to \in Nat, from <= to + 1, to <= Len(s)
    PROVE  LET r == Without(s, from, to)
               w == to - from + 1
           IN  /\ r \in Seq(S) /\ Len(r) = Len(s) - w
               /\ \A j \in 1..Len(s) - w : r[j] = IF j < from THEN s[j] ELSE s[j + w]
<1> DEFINE a == SubSeq(s, 1, from - 1)
           b == SubSeq(s, to + 1, Len(s))
           w == to - from + 1
           r == a \o b
           n == Len(s)
<1>1. Without(s, from, to) = r
  BY DEF Without, P!ItemsRemoved
<1>0. n \in Nat /\ w \in Nat /\ from - 1 \in 0..n /\ from - 1 \in Nat /\ w <= n
  OBVIOUS
<1>2. a \in Seq(S) /\ Len(a) = from - 1 /\ \A j \in 1..from - 1 : a[j] = s[j]
  <2>1. from - 1 <= Len(s)
    BY <1>0
  <2> QED
    BY <2>1
<1>3. b \in Seq(S) /\ Len(b) = n - to /\ \A j \in 1..n - to : b[j] = s[to + j]
  <2>1. to + 1 \in Nat \ {0} /\ to + 1 <= Len(s) + 1
    OBVIOUS
  <2>2. b \in Seq(S)
    BY <2>1
  <2>3. Len(b) = n - to
    <3>1. CASE to = Len(s)
      BY <3>1
    <3>2. CASE to # Len(s)
      BY <3>2
    <3> QED
      BY <3>1, <3>2
  <2>4. \A j \in 1..n - to : b[j] = s[to + j]
    <3> SUFFICES ASSUME NEW j \in 1..n - to PROVE b[j] = s[to + j]
      OBVIOUS
    <3>1. (to + 1) + j - 1 = to + j
      OBVIOUS
    <3> QED
      BY <3>1, <2>1
  <2> QED
    BY <2>2, <2>3, <2>4
<1> HIDE DEF a, b
<1>4. /\ r \in Seq(S) /\ Len(r) = Len(a) + Len(b)
      /\ \A j \in 1..Len(a) : r[j] = a[j]
      /\ \A j \in 1..Len(b) : r[j + Len(a)] = b[j]
  <2>1. a \in Seq(S) /\ b \in Seq(S)
    BY <1>2, <1>3
  <2>2. /\ a \o b \in Seq(S) /\ Len(a \o b) = Len(a) + Len(b)
        /\ \A i \in 1..Len(a) + Len(b) : (a \o b)[i] = IF i <= Len(a) THEN a[i] ELSE b[i - Len(a)]
    BY <2>1, ConcatProperties, Zenon
  <2>3. r = a \o b /\ Len(a) \in Nat /\ Len(b) \in Nat
    BY <2>1
  <2> HIDE DEF r, w, n
  <2>4. \A j \in 1..Len(a) : j \in 1..Len(a) + Len(b) /\ j <= Len(a)
    BY <2>3
  <2>5. \A j \in 1..Len(b) :
            j + Len(a) \in 1..Len(a) + Len(b) /\ ~(j + Len(a) <= Len(a)) /\ (j + Len(a)) - Len(a) = j
    BY <2>3
  <2>6. \A j \in 1..Len(b) : r[j + Len(a)] = b[j]
    BY <2>2, <2>3, <2>5
  <2> QED
    BY <2>2, <2>3, <2>4, <2>6
<1> HIDE DEF r
<1>5. \A j \in 1..n - w : r[j] = IF j < from THEN s[j] ELSE s[j + w]
  <2> SUFFICES ASSUME NEW j \in 1..n - w
               PROVE  r[j] = IF j < from THEN s[j] ELSE s[j + w]
    OBVIOUS
  <2>1. CASE j < from
    <3>1. j \in 1..Len(a) /\ j \in 1..from - 1
      BY <2>1, <1>2
    <3> QED
      BY <3>1, <2>1, <1>2, <1>4
  <2>2. CASE ~(j < from)
    <3> DEFINE i == j - (from - 1)
    <3>1. i \in 1..n - to /\ i + (from - 1) = j /\ to + i = j + w
      BY <2>2, <1>0
    <3> HIDE DEF i
    <3>2. r[i + (from - 1)] = b[i]
      BY <3>1, <1>2, <1>3, <1>4
    <3>3. b[i] = s[to + i]
      BY <3>1, <1>3
    <3> QED
      BY <3>1, <3>2, <3>3, <2>2
  <2> QED
    BY <2>1, <2>2
<1>6. Len(r) = n - w
  BY <1>2, <1>3, <1>4, <1>0
<1> QED
  BY <1>1, <1>4, <1>5, <1>6

GapClosedIn(h, c, from, to) ==
    Relocated([h EXCEPT !.items[c] = Without(@, from, to)], c)

LeftIn(h, g, c, from, to) ==
    /\ g.live = h.live /\ g.items[c] = Without(h.items[c], from, to)
    /\ Len(g.items[c]) = Len(h.items[c]) - (to - from + 1)
    /\ \A d \in Objects : d # c => g.items[d] = h.items[d]

\* Items that have been disowned are removed, and those behind them moved.
LEMMA GapClosed ==
    ASSUME NEW h, NEW L, NEW c \in L, c \in Arrays \union Tables,
           NEW from \in Nat \ {0}, NEW to \in Nat, to <= Len(h.items[c]), from <= to + 1,
           Books(h, L, Span(c, from, to), KeySpan(c, from, to), {})
    PROVE  Books(GapClosedIn(h, c, from, to), L, {}, {}, {})
           /\ LeftIn(h, GapClosedIn(h, c, from, to), c, from, to)
<1> DEFINE n == Len(h.items[c])
           w == to - from + 1
           r == Without(h.items[c], from, to)
           g0 == [h EXCEPT !.items[c] = r]
           g == Relocated(g0, c)
           X == Span(c, from, to)
           Z == KeySpan(c, from, to)
           new == {}
           move == [j \in 1..n - w |-> IF j < from THEN j ELSE j + w]
<1>0. h \in Heap /\ c \in Objects /\ Shapes(h)
  BY DEF Books, Stale
<1>1. n \in Nat /\ w \in Nat /\ w <= n
      /\ h.items[c] \in Seq(Items1) /\ h.items \in [Objects -> Seq(Items1)] /\ h.keys \in [Keys -> Int]
  BY <1>0, HeapFields
<1>2. /\ r \in Seq(Items1) /\ Len(r) = n - w
      /\ \A j \in 1..n - w : r[j] = IF j < from THEN h.items[c][j] ELSE h.items[c][j + w]
  <2> DEFINE s == h.items[c]
  <2>1. s \in Seq(Items1) /\ to <= Len(s)
    BY <1>1
  <2> HIDE DEF s
  <2>2. LET q == Without(s, from, to)
            z == to - from + 1
        IN  /\ q \in Seq(Items1) /\ Len(q) = Len(s) - z
            /\ \A j \in 1..Len(s) - z : q[j] = IF j < from THEN s[j] ELSE s[j + z]
    BY <2>1, WithoutDoes
  <2> QED
    BY <2>2 DEF s
<1> HIDE DEF r
<1>3. /\ g0 \in Heap /\ g0.refs = h.refs /\ g0.room = h.room
      /\ g0.live = h.live /\ g0.count = h.count /\ g0.static = h.static
      /\ g0.size = h.size /\ g0.block = h.block /\ g0.position = h.position
      /\ g0.keys = h.keys
      /\ \A d \in Objects : g0.items[d] = IF d = c THEN r ELSE h.items[d]
  BY <1>0, <1>1, <1>2 DEF Heap, Items1
<1> HIDE DEF g0
<1>4. Otherwise(h, g0, c)
  BY <1>3 DEF Otherwise, SameBlocks
<1> DEFINE at == 1..Len(g0.items[c])
           kept == {k \in 1..Len(h.items[c]) : <<c, k>> \notin X}
<1>5. at = 1..n - w /\ kept = {k \in 1..n : k < from \/ k > to} /\ g0.items[c] = r
  <2>1. \A k \in 1..n : <<c, k>> \in X <=> k \in from..to
    BY <1>0, <1>1 DEF Span
  <2> QED
    <3>1. at = 1..n - w /\ g0.items[c] = r
      BY <1>0, <1>2, <1>3
    <3>2. \A k \in 1..n : k \notin from..to <=> (k < from \/ k > to)
      BY <1>1
    <3> HIDE DEF X
    <3>3. kept = {k \in 1..n : k < from \/ k > to}
      BY <2>1, <3>2
    <3> QED
      BY <3>1, <3>3
<1>b. w = to - from + 1 /\ to <= n
  OBVIOUS
<1> HIDE DEF n, w, at, kept, g0
<1>6. /\ new \subseteq at
      /\ move \in [at \ new -> kept]
      /\ \A j, l \in at \ new : move[j] = move[l] => j = l
      /\ \A k \in kept : \E j \in at \ new : move[j] = k
  <2>1. move \in [at \ new -> kept]
    <3>1. \A j \in 1..n - w : (IF j < from THEN j ELSE j + w) \in kept
      BY <1>1, <1>5, <1>b
    <3> QED
      BY <3>1, <1>5
  <2>2. \A j, l \in at \ new : move[j] = move[l] => j = l
    BY <1>1, <1>5
  <2>3. ASSUME NEW k \in kept PROVE \E j \in at \ new : move[j] = k
    <3>1. CASE k < from
      <4>1. k \in at \ new /\ move[k] = k
        <5>1. k \in 1..n - w
          BY <3>1, <1>1, <1>5, <1>b
        <5> QED
          BY <5>1, <3>1, <1>5
      <4> QED
        BY <4>1
    <3>2. CASE ~(k < from)
      <4>1. k - w \in at \ new /\ move[k - w] = k
        <5>1. k \in 1..n /\ k > to
          BY <3>2, <1>5
        <5>2. k - w \in 1..n - w /\ ~(k - w < from) /\ (k - w) + w = k
          BY <5>1, <1>1, <1>b
        <5> QED
          BY <5>2, <1>5
      <4> QED
        BY <4>1
    <3> QED
      BY <3>1, <3>2
  <2> QED
    BY <2>1, <2>2, <2>3
<1>7. \A j \in at \ new : g0.items[c][j] = h.items[c][move[j]]
  BY <1>1, <1>2, <1>5
<1>8. \A k \in Keys : g0.keys[k] =
          h.keys[k] + Cardinality({j \in new : c \in Tables /\ g0.items[c][j].key = k})
  <2> SUFFICES ASSUME NEW k \in Keys
               PROVE  g0.keys[k] = h.keys[k] + Cardinality({j \in new : c \in Tables /\ g0.items[c][j].key = k})
    OBVIOUS
  <2> DEFINE S == {j \in new : c \in Tables /\ g0.items[c][j].key = k}
  <2>1. S = {} /\ Cardinality({}) = 0 /\ h.keys[k] \in Int
    BY <1>1, FS_EmptySet
  <2>2. Cardinality(S) = 0
    BY <2>1
  <2> HIDE DEF S
  <2>3. g0.keys[k] = h.keys[k] + Cardinality(S)
    BY <2>1, <2>2, <1>3
  <2> QED
    BY <2>3 DEF S
<1>9. \A j \in new : g0.items[c][j].value = Nil /\ (c \in Tables => g0.items[c][j].key \in Keys)
  OBVIOUS
<1> HIDE DEF new, move, X, Z
<1>10. Rearranged(h, g0, c, X, new, move)
  BY <1>6, <1>7, <1>8, <1>9 DEF Rearranged, at, kept
<1>11. Len(g0.items[c]) <= g0.size[c]
  <2>1. Len(h.items[c]) <= h.size[c] /\ h.size[c] \in Nat
    BY <1>0, HeapFields DEF Shapes
  <2> QED
    BY <2>1, <1>1, <1>2, <1>3, <1>0 DEF n, g0
<1>11a. c \in Tables => InOrder(g0, c)
  <2> SUFFICES ASSUME c \in Tables, NEW j \in 1..n - w, NEW l \in 1..n - w, j < l
               PROVE  /\ HashOf[r[j].key] <= HashOf[r[l].key]
                      /\ r[j].key # r[l].key
    BY <1>2, <1>5 DEF InOrder, n
  <2> DEFINE a == IF j < from THEN j ELSE j + w
             b == IF l < from THEN l ELSE l + w
  <2>1. r[j] = h.items[c][a] /\ r[l] = h.items[c][b]
    BY <1>2
  <2>2. a \in 1..n /\ b \in 1..n /\ a < b
    BY <1>1, <1>b
  <2> HIDE DEF a, b
  <2>3. InOrder(h, c)
    BY DEF Books, Ordered
  <2> QED
    BY <2>1, <2>2, <2>3 DEF InOrder, n
<1>12. Books(h, L, X, Z, {}) /\ (\A p \in X \union Z : \E k : p = <<c, k>>)
       /\ (\A k \in 1..Len(h.items[c]) : c \in Tables => (<<c, k>> \in X <=> <<c, k>> \in Z))
  BY DEF X, Z, Span, KeySpan
<1>13. /\ Books(g, L, {}, {}, {}) /\ g.items = g0.items /\ g.size = g0.size /\ g.live = h.live
  BY <1>3, <1>4, <1>10, <1>11, <1>11a, <1>12, MovesDo
<1> HIDE DEF g
<1>14. /\ g.items[c] = r /\ \A d \in Objects : d # c => g.items[d] = h.items[d]
  BY <1>13, <1>0, <1>3
<1> QED
  <2>1. LeftIn(h, g, c, from, to)
    BY <1>2, <1>13, <1>14 DEF r, n, w, LeftIn
  <2> QED
    BY <2>1, <1>13 DEF g, g0, r, GapClosedIn

\* delete() of arrays and tables.
LEMMA RemovedDoes ==
    ASSUME NEW h, NEW L, Books(h, L, {}, {}, {}), NEW c \in L, c \in Arrays \union Tables,
           NEW from \in Nat \ {0}, NEW to \in Nat, to <= Len(h.items[c]), from <= to + 1
    PROVE  Books(Removed(h, c, from, to), L, {}, {}, {})
<1> DEFINE f == DisownItems(Disown, h, c, from, to)
           items == Without(f.items[c], from, to)
           m == GapClosedIn(f, c, from, to)
<1>0. Removed(h, c, from, to) = Resized(m, c, Len(items))
  BY DEF Removed, Without, GapClosedIn
<1>1. Books(f, L, Span(c, from, to), KeySpan(c, from, to), {}) /\ Fades(h, f)
  BY ItemsDisowned
<1> HIDE DEF f
<1>2. c \in f.live /\ c \in Objects
  <2>1. /\ \A o \in Objects : f.count[o] = Cardinality(Owners(f, Span(c, from, to), o)) + OneIf(o \in L)
        /\ f \in Heap /\ c \in Objects /\ f.live = Positive(f) \union {}
    BY <1>1 DEF Books, Counted, Stale, Living
  <2>2. Cardinality(Owners(f, Span(c, from, to), c)) \in Nat
    BY <2>1, OwnersFinite
  <2> DEFINE n == Cardinality(Owners(f, Span(c, from, to), c))
  <2>3. f.count[c] = n + 1
    BY <2>1 DEF OneIf
  <2> HIDE DEF n
  <2>4. n \in Nat
    BY <2>2 DEF n
  <2>5. f.count[c] > 0
    BY <2>3, <2>4
  <2> QED
    BY <2>1, <2>5 DEF Positive
<1>3. Len(f.items[c]) = Len(h.items[c])
  BY <1>1, <1>2 DEF Fades
<1>4. /\ Books(m, L, {}, {}, {}) /\ m.items[c] = items /\ Len(items) = Len(f.items[c]) - (to - from + 1)
  <2>1. to <= Len(f.items[c])
    BY <1>3
  <2> QED
    <3>1. Books(f, L, Span(c, from, to), KeySpan(c, from, to), {})
      BY <1>1
    <3>2. Books(GapClosedIn(f, c, from, to), L, {}, {}, {}) /\ LeftIn(f, GapClosedIn(f, c, from, to), c, from, to)
      BY <2>1, <3>1, GapClosed
    <3> QED
      BY <3>2 DEF LeftIn
<1> HIDE DEF m, items
<1>5. Len(items) \in Nat /\ Len(m.items[c]) <= Len(items)
  <2>1. m \in Heap
    BY <1>4 DEF Books
  <2>2. Len(m.items[c]) \in Nat
    BY <2>1, <1>2, HeapFields
  <2> QED
    BY <2>2, <1>4
<1> QED
  BY <1>0, <1>4, <1>5, ResizedBooks

\* w items with nil, or one in a table, are added at the end of those of c.
Extends(h, g, c, key, w) ==
    /\ g \in Heap
    /\ g.live = h.live /\ g.count = h.count /\ g.static = h.static /\ g.size = h.size
    /\ g.refs = h.refs /\ g.room = h.room /\ SameBlocks(g, h)
    /\ \A d \in Objects : d # c => g.items[d] = h.items[d]
    /\ Len(g.items[c]) = Len(h.items[c]) + w
    /\ \A j \in 1..Len(h.items[c]) : g.items[c][j] = h.items[c][j]
    /\ \A j \in Len(h.items[c]) + 1..Len(h.items[c]) + w : g.items[c][j] = Item(key, Nil)
    /\ c \in Tables => w = 1 /\ key \in Keys
    /\ \A k \in Keys : g.keys[k] = h.keys[k] + OneIf(c \in Tables /\ k = key)

\* Items that are nil at the end of an array or table, with a key that is owned.
LEMMA ExtendsDoes ==
    ASSUME NEW h, NEW L, Books(h, L, {}, {}, {}), NEW c \in L, c \in Arrays \union Tables,
           NEW w \in Nat, NEW key, NEW g, Extends(h, g, c, key, w),
           Len(h.items[c]) + w <= h.size[c], c \in Tables => InOrder(g, c)
    PROVE  Books(g, L, {}, {}, {})
<1> DEFINE n == Len(h.items[c])
           new == n + 1..n + w
           from == [j \in 1..n |-> j]
           X == {}
           at == 1..Len(g.items[c])
           kept == {k \in 1..Len(h.items[c]) : <<c, k>> \notin X}
<1>0. h \in Heap /\ c \in Objects /\ n \in Nat /\ h.keys \in [Keys -> Int]
  <2>1. h \in Heap /\ c \in Objects
    BY DEF Books, Stale
  <2> QED
    BY <2>1, HeapFields
<1>1. /\ g \in Heap /\ g.live = h.live /\ g.count = h.count /\ g.static = h.static /\ g.size = h.size
      /\ g.refs = h.refs /\ g.room = h.room /\ SameBlocks(g, h)
      /\ \A d \in Objects : d # c => g.items[d] = h.items[d]
      /\ Len(g.items[c]) = n + w
      /\ \A j \in 1..n : g.items[c][j] = h.items[c][j]
      /\ \A j \in new : g.items[c][j] = Item(key, Nil)
      /\ c \in Tables => w = 1 /\ key \in Keys
      /\ \A k \in Keys : g.keys[k] = h.keys[k] + OneIf(c \in Tables /\ k = key)
  BY DEF Extends
<1>2. at = 1..n + w /\ kept = 1..n
  BY <1>0, <1>1
<1>3. at \ new = 1..n /\ new \subseteq at
  BY <1>0, <1>2
<1>4. Otherwise(h, g, c)
  BY <1>1 DEF Otherwise
<1>5. \A k \in Keys : g.keys[k] =
          h.keys[k] + Cardinality({j \in new : c \in Tables /\ g.items[c][j].key = k})
  <2> SUFFICES ASSUME NEW k \in Keys
               PROVE  g.keys[k] = h.keys[k] + Cardinality({j \in new : c \in Tables /\ g.items[c][j].key = k})
    OBVIOUS
  <2> DEFINE S == {j \in new : c \in Tables /\ g.items[c][j].key = k}
  <2>1. S = IF c \in Tables /\ k = key THEN {n + 1} ELSE {}
    <3>1. Item(key, Nil).key = key
      BY DEF Item
    <3>2. CASE c \in Tables
      <4>1. w = 1 /\ new = {n + 1}
        BY <3>2, <1>0, <1>1
      <4> QED
        BY <4>1, <3>1, <3>2, <1>1
    <3>3. CASE c \notin Tables
      BY <3>3
    <3> QED
      BY <3>2, <3>3
  <2>2. Cardinality({n + 1}) = 1 /\ Cardinality({}) = 0
    BY FS_Singleton, FS_EmptySet
  <2>3. Cardinality(S) = OneIf(c \in Tables /\ k = key)
    BY <2>1, <2>2 DEF OneIf
  <2> HIDE DEF S
  <2>4. g.keys[k] = h.keys[k] + Cardinality(S)
    BY <2>3, <1>1
  <2> QED
    BY <2>4 DEF S
<1> HIDE DEF n, X
<1>6. /\ new \subseteq at
      /\ from \in [at \ new -> kept]
      /\ \A j, l \in at \ new : from[j] = from[l] => j = l
      /\ \A k \in kept : \E j \in at \ new : from[j] = k
  <2>1. from \in [1..n -> 1..n] /\ \A j \in 1..n : from[j] = j
    OBVIOUS
  <2> QED
    BY <2>1, <1>2, <1>3
<1>7. \A j \in at \ new : g.items[c][j] = h.items[c][from[j]]
  BY <1>3, <1>1
<1>8. \A j \in new : g.items[c][j].value = Nil /\ (c \in Tables => g.items[c][j].key \in Keys)
  BY <1>1 DEF Item
<1>9. \A j \in DOMAIN from : from[j] = j
  OBVIOUS
<1>10. Len(g.items[c]) <= g.size[c]
  BY <1>1 DEF n
<1> HIDE DEF new, from
<1>11. Rearranged(h, g, c, X, new, from)
  BY <1>6, <1>7, <1>8, <1>5 DEF Rearranged
<1> QED
  BY <1>1, <1>4, <1>9, <1>10, <1>11, GrowsBooks DEF X

-----------------------------------------------------------------------------
(* New objects.                                                             *)

\* A block that is in order, for what it belongs to.
FitsFor(o, b) ==
    /\ o \in Vectors \union Dstrings => b \in Blocks /\ Fits(b)
    /\ o \in Dstrings => b.length < Len(b.cells)

\* An object o is made, without items or with one that is nil.
Born(h, g, o) ==
    /\ g \in Heap /\ o \in Objects /\ o \notin h.live
    /\ g.live = h.live \union {o} /\ g.keys = h.keys
    /\ \A q \in Objects : g.count[q] = IF q = o THEN 1 ELSE h.count[q]
    /\ g.static = h.static /\ g.refs = h.refs /\ g.room = h.room
    /\ \A d \in Objects : d # o => g.items[d] = h.items[d] /\ g.size[d] = h.size[d]
    /\ \/ Len(g.items[o]) = 0 /\ o \notin Files
       \/ Len(g.items[o]) = 1 /\ g.items[o][1].value = Nil /\ o \in Arrays \union Files
    /\ Len(g.items[o]) <= g.size[o]
    /\ \A b \in Vectors \union Dstrings : b # o => g.block[b] = h.block[b]
    /\ o \in Vectors \union Dstrings => FitsFor(o, g.block[o])

\* A new object is owned by the limbo list only.
LEMMA BornDoes ==
    ASSUME NEW h, NEW L, Books(h, L, {}, {}, {}), NEW o, NEW g, Born(h, g, o)
    PROVE  Books(g, L \union {o}, {}, {}, {}) /\ o \notin L
<1>0. h \in Heap /\ Wiring(h) /\ RoomForRefs(h) /\ Counted(h, L, {}, {}) /\ Living(h, {})
      /\ Stale(h, L, {}, {}, {}) /\ Shapes(h) /\ BlocksFit(h) /\ Ordered(h) /\ L \subseteq Objects
  BY DEF Books, Stale
<1>1. /\ g \in Heap /\ o \in Objects /\ o \notin h.live
      /\ g.live = h.live \union {o} /\ g.keys = h.keys
      /\ g.static = h.static /\ g.refs = h.refs /\ g.room = h.room
      /\ Len(g.items[o]) <= g.size[o]
  BY DEF Born
<1>2. \A q \in Objects : g.count[q] = IF q = o THEN 1 ELSE h.count[q]
  BY DEF Born
<1>3. \A d \in Objects : d # o => g.items[d] = h.items[d] /\ g.size[d] = h.size[d]
  BY DEF Born
<1>4. \/ Len(g.items[o]) = 0 /\ o \notin Files
      \/ Len(g.items[o]) = 1 /\ g.items[o][1].value = Nil /\ o \in Arrays \union Files
  BY DEF Born
<1>5. Len(h.items[o]) = 0 /\ Len(h.refs[o]) = 0 /\ o \notin Positive(h)
  BY <1>0, <1>1 DEF Living
<1>6. /\ Cardinality(Owners(h, {}, o)) = 0 /\ o \notin L
  <2>1. ~(h.count[o] > 0) /\ h.count[o] = Cardinality(Owners(h, {}, o)) + OneIf(o \in L)
    BY <1>0, <1>1, <1>5 DEF Positive, Counted
  <2>2. Cardinality(Owners(h, {}, o)) \in Nat
    BY <1>0, OwnersFinite
  <2> DEFINE n == Cardinality(Owners(h, {}, o))
  <2> HIDE DEF n
  <2>3. n \in Nat /\ ~(n + OneIf(o \in L) > 0)
    BY <2>1, <2>2 DEF n
  <2>4. n = 0 /\ o \notin L
    BY <2>3 DEF OneIf
  <2> QED
    BY <2>4 DEF n
<1>7. \A p \in Places(h) : p \in Places(g) /\ ValueAt(g, p) = ValueAt(h, p)
  <2> SUFFICES ASSUME NEW p \in Places(h) PROVE p \in Places(g) /\ ValueAt(g, p) = ValueAt(h, p)
    OBVIOUS
  <2>1. CASE \E s \in Statics : p = <<s>> /\ Len(p) = 1
    BY <2>1, <1>0, <1>1, PlacesAre
  <2>2. CASE \E d \in Objects : \E i \in 1..Len(h.items[d]) : p = <<d, i>>
    <3>1. PICK d \in Objects : \E i \in 1..Len(h.items[d]) : p = <<d, i>>
      BY <2>2
    <3>2. PICK i \in 1..Len(h.items[d]) : p = <<d, i>>
      BY <3>1
    <3>3. d # o
      BY <3>2, <1>5
    <3>4. i \in 1..Len(g.items[d]) /\ g.items[d][i] = h.items[d][i]
      BY <3>2, <3>3, <1>3
    <3>5. ValueAt(h, <<d, i>>) = h.items[d][i].value
      BY <1>0, PlacesAre
    <3>6. <<d, i>> \in Places(g) /\ ValueAt(g, <<d, i>>) = g.items[d][i].value
      BY <3>4, <1>1, PlacesAre
    <3> QED
      BY <3>2, <3>4, <3>5, <3>6
  <2> QED
    BY <1>0, <2>1, <2>2, PlacesAre
<1>8. \A p \in Places(g) : p \in Places(h) \/ ValueAt(g, p) = Nil
  <2> SUFFICES ASSUME NEW p \in Places(g) PROVE p \in Places(h) \/ ValueAt(g, p) = Nil
    OBVIOUS
  <2>1. CASE \E s \in Statics : p = <<s>> /\ Len(p) = 1
    BY <2>1, <1>0, PlacesAre
  <2>2. CASE \E d \in Objects : \E i \in 1..Len(g.items[d]) : p = <<d, i>>
    <3>1. PICK d \in Objects : \E i \in 1..Len(g.items[d]) : p = <<d, i>>
      BY <2>2
    <3>2. PICK i \in 1..Len(g.items[d]) : p = <<d, i>>
      BY <3>1
    <3>3. ValueAt(g, <<d, i>>) = g.items[d][i].value
      BY <1>1, PlacesAre
    <3>4. CASE d = o
      <4>1. i = 1 /\ g.items[o][1].value = Nil
        BY <3>2, <3>4, <1>4
      <4> QED
        BY <4>1, <3>2, <3>3, <3>4
    <3>5. CASE d # o
      <4>1. i \in 1..Len(h.items[d])
        BY <3>2, <3>5, <1>3
      <4>2. <<d, i>> \in Places(h)
        BY <4>1, <1>0, PlacesAre
      <4> QED
        BY <4>2, <3>2
    <3> QED
      BY <3>4, <3>5
  <2> QED
    BY <1>1, <2>1, <2>2, PlacesAre
<1>9. \A q \in Objects : Owners(g, {}, q) = Owners(h, {}, q)
  <2>1. \A q \in Objects : Strong(q) # Nil
    BY ValueFacts
  <2> QED
    BY <2>1, <1>7, <1>8 DEF Owners
<1>10. Slots(g) = Slots(h) /\ KeyAt(g) = KeyAt(h)
  <2>1. o \in Tables => Len(g.items[o]) = 0
    BY <1>4, Kinds
  <2>2. \A c \in Tables : c \in Objects
    BY Kinds
  <2>3. \A c \in Tables : c # o => g.items[c] = h.items[c]
    BY <2>2, <1>3
  <2>4. Slots(g) = Slots(h)
    BY <2>1, <2>3, <1>5 DEF Slots
  <2>5. \A p \in Slots(h) : g.items[p[1]] = h.items[p[1]]
    BY <2>3, <1>5 DEF Slots
  <2> QED
    BY <2>4, <2>5 DEF KeyAt
<1>11. Wiring(g)
  <2>1. \A q \in Objects : \A k \in 1..Len(g.refs[q]) :
          g.refs[q][k] \in Places(g) /\ ValueAt(g, g.refs[q][k]) = Weak(q, k - 1)
    <3>1. \A q \in Objects : \A k \in 1..Len(h.refs[q]) :
          h.refs[q][k] \in Places(h) /\ ValueAt(h, h.refs[q][k]) = Weak(q, k - 1)
      BY <1>0 DEF Wiring
    <3> QED
      BY <3>1, <1>1, <1>7
  <2>2. ASSUME NEW p \in Places(g), ValueAt(g, p).kind = "weak"
        PROVE  LET v == ValueAt(g, p)
               IN  v.index + 1 \in 1..Len(g.refs[v.o]) /\ g.refs[v.o][v.index + 1] = p
    <3>1. p \in Places(h) /\ ValueAt(h, p) = ValueAt(g, p)
      BY <2>2, <1>7, <1>8, ValueFacts
    <3> QED
      BY <3>1, <2>2, <1>0, <1>1 DEF Wiring
  <2> QED
    BY <2>1, <2>2 DEF Wiring
<1>12. RoomForRefs(g)
  BY <1>0, <1>1 DEF RoomForRefs
<1>13. Counted(g, L \union {o}, {}, {})
  <2>1. ASSUME NEW q \in Objects
        PROVE  g.count[q] = Cardinality(Owners(g, {}, q)) + OneIf(q \in L \union {o})
    <3>1. CASE q = o
      BY <3>1, <1>2, <1>6, <1>9 DEF OneIf
    <3>2. CASE q # o
      <4>1. q \in L \union {o} <=> q \in L
        BY <3>2
      <4>2. h.count[q] = Cardinality(Owners(h, {}, q)) + OneIf(q \in L)
        BY <1>0 DEF Counted
      <4>3. OneIf(q \in L \union {o}) = OneIf(q \in L)
        BY <4>1 DEF OneIf
      <4> QED
        BY <4>2, <4>3, <3>2, <1>2, <1>9
    <3> QED
      BY <3>1, <3>2
  <2>2. \A k : Holders(g, {}, k) = Holders(h, {}, k)
    BY <1>10 DEF Holders
  <2> QED
    BY <2>1, <2>2, <1>0, <1>1 DEF Counted
<1>14. Living(g, {})
  <2>1. Positive(g) = Positive(h) \union {o}
    <3>1. \A q \in Objects : g.count[q] > 0 <=> (q = o \/ h.count[q] > 0)
      BY <1>2
    <3> QED
      BY <3>1, <1>1 DEF Positive
  <2>2. \A q \in Objects \ g.live : Len(g.items[q]) = 0 /\ Len(g.refs[q]) = 0
    BY <1>0, <1>1, <1>3 DEF Living
  <2> QED
    BY <2>1, <2>2, <1>0, <1>1 DEF Living
<1>15. Stale(g, L \union {o}, {}, {}, {})
  BY <1>0, <1>1 DEF Stale, HeldBy
<1>16. Shapes(g)
  <2>1. \A d \in Objects : Len(g.items[d]) <= g.size[d]
    BY <1>0, <1>1, <1>3 DEF Shapes
  <2>2. \A t \in Tables : \A i \in 1..Len(g.items[t]) : g.items[t][i].key \in Keys
    <3> SUFFICES ASSUME NEW t \in Tables, NEW i \in 1..Len(g.items[t]) PROVE g.items[t][i].key \in Keys
      OBVIOUS
    <3>1. t \in Objects /\ t \notin Arrays \union Files
      BY Kinds
    <3>2. t # o
      BY <3>1, <1>4
    <3> QED
      BY <3>1, <3>2, <1>0, <1>3 DEF Shapes
  <2>3. \A b \in Vectors \union Dstrings : Len(g.items[b]) = 0
    <3> SUFFICES ASSUME NEW b \in Vectors \union Dstrings PROVE Len(g.items[b]) = 0
      OBVIOUS
    <3>1. b \in Objects /\ b \notin Arrays \union Files
      BY Kinds
    <3>2. CASE b = o
      BY <3>1, <3>2, <1>4
    <3>3. CASE b # o
      BY <3>1, <3>3, <1>0, <1>3 DEF Shapes
    <3> QED
      BY <3>2, <3>3
  <2>4. ASSUME NEW f \in Files, f \in g.live
        PROVE  Len(g.items[f]) = 1 /\ FileValue(g.items[f][1].value)
    <3>1. f \in Objects
      BY Kinds
    <3>2. CASE f = o
      BY <3>2, <2>4, <1>4 DEF FileValue
    <3>3. CASE f # o
      BY <3>1, <3>3, <2>4, <1>0, <1>1, <1>3 DEF Shapes
    <3> QED
      BY <3>2, <3>3
  <2> QED
    BY <2>1, <2>2, <2>3, <2>4 DEF Shapes
<1>17. BlocksFit(g)
  <2>1. /\ \A b \in Vectors \union Dstrings : b # o => g.block[b] = h.block[b]
        /\ o \in Vectors \union Dstrings => FitsFor(o, g.block[o])
    BY DEF Born
  <2>2. \A b \in Vectors \union Dstrings : Fits(g.block[b])
    BY <2>1, <1>0 DEF BlocksFit, FitsFor
  <2>3. \A d \in Dstrings : d \in g.live => g.block[d].length < Len(g.block[d].cells)
    BY <2>1, <1>0, <1>1 DEF BlocksFit, FitsFor
  <2> QED
    BY <2>2, <2>3 DEF BlocksFit
<1>18. Ordered(g)
  <2> SUFFICES ASSUME NEW t \in Tables PROVE InOrder(g, t)
    BY DEF Ordered
  <2>1. t \in Objects /\ t \notin Arrays \union Files
    BY Kinds
  <2>2. CASE t = o
    BY <2>1, <2>2, <1>4 DEF InOrder
  <2>3. CASE t # o
    <3>1. g.items[t] = h.items[t]
      BY <2>1, <2>3, <1>3
    <3>2. InOrder(h, t)
      BY <1>0 DEF Ordered
    <3> QED
      BY <3>1, <3>2 DEF InOrder
  <2> QED
    BY <2>2, <2>3
<1> QED
  BY <1>1, <1>6, <1>11, <1>12, <1>13, <1>14, <1>15, <1>16, <1>17, <1>18 DEF Books

\* A new array or table.
LEMMA AllocatedDoes ==
    ASSUME NEW h, NEW L, Books(h, L, {}, {}, {}), NEW o \in Objects, o \in Arrays \union Tables, o \notin h.live,
           NEW size \in Nat
    PROVE  LET g == Allocated(h, o, size)
           IN  Books(g, L \union {o}, {}, {}, {}) /\ o \notin L /\ Len(h.items[o]) = 0
<1> DEFINE g == Allocated(h, o, size)
<1>0. h \in Heap /\ Living(h, {})
  BY DEF Books
<1>1. /\ o \in Objects /\ o \notin Vectors \union Dstrings /\ o \notin Files
  BY Kinds
<1>2. Len(h.items[o]) = 0
  BY <1>0, <1>1 DEF Living
<1>3. /\ h.live \in SUBSET Objects /\ h.count \in [Objects -> Int] /\ h.size \in [Objects -> Nat]
  BY <1>0, HeapFields
<1>4. g = [h EXCEPT !.live = h.live \union {o}, !.count = [h.count EXCEPT ![o] = 1],
                    !.size = [h.size EXCEPT ![o] = size]]
  BY DEF Allocated
<1>5. /\ g \in Heap /\ g.live = h.live \union {o} /\ g.count = [h.count EXCEPT ![o] = 1]
      /\ g.size = [h.size EXCEPT ![o] = size] /\ g.items = h.items
      /\ g.keys = h.keys /\ g.static = h.static /\ g.refs = h.refs /\ g.room = h.room
      /\ g.block = h.block
  <2>1. [h.count EXCEPT ![o] = 1] \in [Objects -> Int] /\ [h.size EXCEPT ![o] = size] \in [Objects -> Nat]
    <3> HIDE DEF g
    <3>1. [h.count EXCEPT ![o] = 1] \in [Objects -> Int]
      <4>1. 1 \in Int /\ o \in Objects /\ h.count \in [Objects -> Int]
        BY <1>1, <1>3
      <4> QED
        BY <4>1
    <3>2. [h.size EXCEPT ![o] = size] \in [Objects -> Nat]
      BY <1>3
    <3> QED
      BY <3>1, <3>2
  <2>2. h.live \union {o} \in SUBSET Objects
    BY <1>1, <1>3
  <2> QED
    BY <1>4, <2>1, <2>2, <1>0 DEF Heap
<1> HIDE DEF g
<1>6. \A q \in Objects : g.count[q] = IF q = o THEN 1 ELSE h.count[q]
  BY <1>3, <1>5
<1>7. g.size[o] = size /\ \A d \in Objects : d # o => g.size[d] = h.size[d]
  BY <1>1, <1>3, <1>5
<1>8. Born(h, g, o)
  BY <1>1, <1>2, <1>5, <1>6, <1>7 DEF Born
<1>9. Books(g, L \union {o}, {}, {}, {}) /\ o \notin L
  BY <1>8, BornDoes
<1> QED
  BY <1>2, <1>9 DEF g

\* What o_alloc gives.
LEMMA AllocatedIs ==
    ASSUME NEW h \in Heap, NEW o \in Objects, NEW size \in Nat
    PROVE  LET g == Allocated(h, o, size)
           IN  g.items = h.items /\ g.live = h.live \union {o} /\ g.size[o] = size
<1>1. h.size \in [Objects -> Nat]
  BY HeapFields
<1> QED
  BY <1>1 DEF Allocated, Heap

\* Values that are somewhere can be copied, except to files.
LEMMA ValuesLive ==
    ASSUME NEW h, NEW L, Books(h, L, {}, {}, {}), NEW p \in Places(h)
    PROVE  \/ ValueAt(h, p) = Nil
           \/ \E o \in h.live : ValueAt(h, p) = Strong(o)
           \/ ValueAt(h, p).kind = "weak" /\ ValueAt(h, p).o \in h.live
<1> DEFINE v == ValueAt(h, p)
<1>0. h \in Heap /\ Wiring(h) /\ Counted(h, L, {}, {}) /\ Living(h, {})
  BY DEF Books
<1>1. v \in Value
  BY <1>0, PlacesAre
<1>2. CASE v.kind = "strong"
  <2>1. v.o \in Objects /\ v = Strong(v.o)
    BY <1>1, <1>2, ValueFacts
  <2> DEFINE O == Owners(h, {}, v.o)
  <2>2. p \in O
    BY <2>1 DEF Owners
  <2>3. IsFiniteSet(O) /\ Cardinality(O) \in Nat
    BY <1>0, OwnersFinite
  <2>4. h.count[v.o] = Cardinality(O) + OneIf(v.o \in L)
    BY <2>1, <1>0 DEF Counted
  <2> HIDE DEF O
  <2>5. Cardinality(O) # 0
    BY <2>2, <2>3, FS_EmptySet
  <2>6. h.count[v.o] > 0
    BY <2>3, <2>4, <2>5 DEF OneIf
  <2>7. v.o \in h.live
    BY <2>1, <2>6, <1>0 DEF Living, Positive
  <2> QED
    BY <2>1, <2>7
<1>3. CASE v.kind = "weak"
  <2>1. v.o \in Objects
    BY <1>1, <1>3, ValueFacts
  <2>2. v.index + 1 \in 1..Len(h.refs[v.o])
    BY <1>0, <1>3 DEF Wiring
  <2>3. v.o \in h.live
    <3>1. Len(h.refs[v.o]) # 0
      BY <2>1, <2>2, <1>0, HeapFields
    <3> QED
      BY <2>1, <3>1, <1>0 DEF Living
  <2> QED
    BY <1>3, <2>3
<1> QED
  BY <1>1, <1>2, <1>3, ValueFacts

\* A key for a slot of o.
KeyFor(o, key) == IF o \in Tables THEN key \in Keys ELSE key \in Keys \union {Nil}

\* In a table, the key follows those that were there.
KeyTaken(h, g, o, key) ==
    o \in Tables => \A j \in 1..Len(h.items[o]) + 1 :
        g.items[o][j].key = IF j <= Len(h.items[o]) THEN h.items[o][j].key ELSE key

\* An item is cloned to the end of o.
LEMMA CloneItemDoes ==
    ASSUME NEW h, NEW L, Books(h, L, {}, {}, {}), NEW o \in L, o \in Arrays \union Tables,
           NEW item, KeyFor(o, item.key), Len(h.items[o]) + 1 <= h.size[o],
           Copied(h, Nowhere, item.value),
           o \in Tables => PlaceFits(h, o, Len(h.items[o]) + 1, item.key)
    PROVE  LET g == CloneItem(h, o, item)
           IN  Books(g, L, {}, {}, {}) /\ Longer(h, g, o, 1) /\ g.size = h.size /\ KeyTaken(h, g, o, item.key)
<1> DEFINE n == Len(h.items[o])
           owned == IF o \in Tables THEN OwnKey(h, item.key) ELSE h
           e == Item(item.key, Nil)
           m == [owned EXCEPT !.items[o] = Append(@, e)]
           p == <<o, n + 1>>
           g == Clone(m, p, item.value)
<1>0. h \in Heap /\ o \in Objects /\ h.live \in SUBSET Objects
  <2>1. h \in Heap /\ o \in Objects
    BY DEF Books, Stale
  <2> QED
    BY <2>1, HeapFields
<1>1. n \in Nat /\ h.items[o] \in Seq(Items1) /\ h.items \in [Objects -> Seq(Items1)] /\ h.keys \in [Keys -> Int]
  BY <1>0, HeapFields
<1>2. e \in Items1
  BY ValueFacts DEF Items1, Item, KeyFor
<1> DEFINE keys == IF o \in Tables THEN [h.keys EXCEPT ![item.key] = @ + 1] ELSE h.keys
           r == Append(h.items[o], e)
           items == [h.items EXCEPT ![o] = r]
<1>3. keys \in [Keys -> Int] /\ \A k \in Keys : keys[k] = h.keys[k] + OneIf(o \in Tables /\ k = item.key)
  <2>1. CASE o \in Tables
    <3>1. item.key \in Keys
      BY <2>1 DEF KeyFor
    <3>2. h.keys[item.key] + 1 \in Int
      BY <3>1, <1>1
    <3> QED
      BY <2>1, <3>1, <3>2, <1>1 DEF OneIf
  <2>2. CASE o \notin Tables
    BY <2>2, <1>1 DEF OneIf
  <2> QED
    BY <2>1, <2>2
<1>4. m = [h EXCEPT !.items = items, !.keys = keys]
  <2>1. CASE o \in Tables
    BY <2>1 DEF OwnKey
  <2>2. CASE o \notin Tables
    <3>1. owned = h /\ keys = h.keys
      BY <2>2
    <3> HIDE DEF items, keys
    <3>2. m = [h EXCEPT !.items = items]
      BY <3>1 DEF items
    <3> QED
      BY <3>1, <3>2, <1>0 DEF Heap
  <2> QED
    BY <2>1, <2>2
<1>5. r \in Seq(Items1) /\ Len(r) = n + 1 /\ (\A j \in 1..n : r[j] = h.items[o][j]) /\ r[n + 1] = e
  <2> DEFINE s == h.items[o]
  <2>1. s \in Seq(Items1) /\ n = Len(s)
    BY <1>1
  <2> HIDE DEF s, e
  <2>2. LET q == Append(s, e) IN q \in Seq(Items1) /\ Len(q) = Len(s) + 1 /\ (\A j \in 1..Len(s) : q[j] = s[j]) /\ q[Len(s) + 1] = e
    BY <2>1, <1>2
  <2> QED
    BY <2>2 DEF s
<1> HIDE DEF r, e
<1>6. items \in [Objects -> Seq(Items1)] /\ items[o] = r /\ \A d \in Objects : d # o => items[d] = h.items[d]
  BY <1>0, <1>1, <1>5
<1> HIDE DEF keys, items, m
<1>7. /\ m \in Heap /\ m.items = items /\ m.keys = keys
      /\ m.live = h.live /\ m.count = h.count /\ m.static = h.static /\ m.size = h.size
      /\ m.refs = h.refs /\ m.room = h.room /\ m.block = h.block /\ m.position = h.position
  BY <1>0, <1>3, <1>4, <1>6 DEF Heap, Items1
<1>8. Extends(h, m, o, item.key, 1)
  <2>1. \A j \in n + 1..n + 1 : m.items[o][j] = Item(item.key, Nil)
    BY <1>1, <1>5, <1>6, <1>7 DEF e
  <2> QED
    BY <2>1, <1>3, <1>5, <1>6, <1>7 DEF Extends, SameBlocks, KeyFor
<1>8a. /\ Len(m.items[o]) = n + 1
       /\ \A j \in 1..n + 1 : m.items[o][j].key = IF j < n + 1 THEN h.items[o][j].key
                                                 ELSE IF j = n + 1 THEN item.key ELSE h.items[o][j - 1].key
  <2>1. m.items[o] = r /\ e.key = item.key
    BY <1>6, <1>7 DEF e, Item
  <2>2. ASSUME NEW j \in 1..n + 1
        PROVE  m.items[o][j].key = IF j < n + 1 THEN h.items[o][j].key
                                   ELSE IF j = n + 1 THEN item.key ELSE h.items[o][j - 1].key
    <3>1. CASE j = n + 1
      BY <3>1, <2>1, <1>1, <1>5
    <3>2. CASE j # n + 1
      <4>0. n \in Nat
        BY <1>1
      <4> HIDE DEF n
      <4>1. j \in 1..n /\ j < n + 1
        BY <3>2, <4>0
      <4>2. r[j] = h.items[o][j]
        BY <4>1, <1>5
      <4> QED
        BY <4>1, <4>2, <2>1
    <3> QED
      BY <3>1, <3>2
  <2> QED
    BY <2>1, <2>2, <1>5
<1>8b. o \in Tables => InOrder(m, o)
  <2> SUFFICES ASSUME o \in Tables PROVE InOrder(m, o)
    OBVIOUS
  <2>1. InOrder(h, o) /\ PlaceFits(h, o, n + 1, item.key)
    BY DEF Books, Ordered
  <2>2. n \in Nat /\ n = Len(h.items[o]) /\ n + 1 \in 1..n + 1
    BY <1>1
  <2> DEFINE i == n + 1
             key == item.key
  <2>3. i \in 1..n + 1 /\ PlaceFits(h, o, i, key)
        /\ \A j \in 1..n + 1 : m.items[o][j].key = IF j < i THEN h.items[o][j].key
                                                 ELSE IF j = i THEN key ELSE h.items[o][j - 1].key
    BY <2>1, <2>2, <1>8a
  <2> HIDE DEF i, key, n
  <2> QED
    BY <2>1, <2>2, <2>3, <1>8a, OrderWithPlace
<1>9. Books(m, L, {}, {}, {})
  BY <1>8, <1>8b, ExtendsDoes
<1>10. p \in Places(m) /\ ValueAt(m, p) = Nil /\ p[1] = o /\ \A f : p = <<f, 1>> => f = o
  <2>1. n + 1 \in 1..Len(m.items[o]) /\ m.items[o][n + 1] = e
    BY <1>1, <1>5, <1>6, <1>7
  <2>2. e.value = Nil
    BY DEF e, Item
  <2> QED
    BY <2>1, <2>2, <1>0, <1>7, PlacesAre
<1>11. Copied(m, p, item.value)
  BY <1>7, <1>10, Kinds DEF Copied
<1> HIDE DEF p, g
<1>12. Books(g, L, {}, {}, {}) /\ OnlyAt(g, m, p)
  BY <1>9, <1>10, <1>11, FilledNil DEF g
<1>13. Longer(h, g, o, 1) /\ g.size = h.size
  BY <1>5, <1>6, <1>7, <1>12 DEF Longer, OnlyAt, SameLayout
<1>13a. KeyTaken(h, g, o, item.key)
  <2> SUFFICES ASSUME o \in Tables, NEW j \in 1..n + 1
               PROVE  g.items[o][j].key = IF j <= n THEN h.items[o][j].key ELSE item.key
    BY DEF KeyTaken
  <2>1. SameLayout(g, m)
    BY <1>12 DEF OnlyAt
  <2>2. g.items[o][j].key = m.items[o][j].key
    BY <2>1, <1>7, <1>8a, LayoutKeys
  <2>3. j <= n <=> j < n + 1
    BY <1>1
  <2> QED
    BY <2>2, <2>3, <1>1, <1>8a
<1>14. CloneItem(h, o, item) = g
  <2>1. Len(m.items[o]) = n + 1
    BY <1>5, <1>6, <1>7
  <2>2. CloneItem(h, o, item) = Clone(m, <<o, Len(m.items[o])>>, item.value)
    BY DEF CloneItem, m, e
  <2> QED
    BY <2>1, <2>2 DEF g, p
<1> QED
  BY <1>12, <1>13, <1>13a, <1>14

\* So many items of other objects, and m in a new one.
With(h, g, o, m) ==
    /\ g.live = h.live \union {o} /\ Len(g.items[o]) = m
    /\ \A d \in Objects : d # o => Len(g.items[d]) = Len(h.items[d])

\* The m keys of the table o are those of c from an index on.
KeysFrom(h, g, o, m, c, from) ==
    o \in Tables => \A j \in 1..m : g.items[o][j].key = h.items[c][from + j - 1].key

\* t__clone and a_copy.
LEMMA ClonedDoes ==
    ASSUME NEW h, NEW L, Books(h, L, {}, {}, {}), NEW o \in Objects, o \in Arrays \union Tables, o \notin h.live,
           NEW c \in Objects, o \in Tables => c \in Tables,
           NEW from \in Nat \ {0}, NEW to \in Nat, from <= to + 1, to <= Len(h.items[c])
    PROVE  LET g == Cloned(h, o, c, from, to)
           IN  /\ Books(g, L \union {o}, {}, {}, {}) /\ o \notin L
               /\ With(h, g, o, to - from + 1)
               /\ KeysFrom(h, g, o, to - from + 1, c, from)
<1> DEFINE w == to - from + 1
           M == L \union {o}
           J == [n \in 0..w |-> {g \in Heap : Books(g, M, {}, {}, {}) /\ With(h, g, o, n) /\ g.size[o] = w
                                     /\ KeysFrom(h, g, o, n, c, from)}]
           g0 == Allocated(h, o, w)
<1>0. h \in Heap /\ Shapes(h) /\ w \in Nat
  BY DEF Books
<1>1. /\ Books(g0, M, {}, {}, {}) /\ o \notin L
      /\ g0.items = h.items /\ g0.live = h.live \union {o} /\ g0.size[o] = w /\ Len(h.items[o]) = 0
  <2> HIDE DEF w
  <2>1. w \in Nat
    BY <1>0
  <2>2. Books(Allocated(h, o, w), L \union {o}, {}, {}, {}) /\ o \notin L /\ Len(h.items[o]) = 0
    BY <2>1, AllocatedDoes
  <2>3. g0.items = h.items /\ g0.live = h.live \union {o} /\ g0.size[o] = w
    BY <1>0, <2>1, AllocatedIs
  <2> QED
    BY <2>2, <2>3
<1> HIDE DEF g0, w, M
<1>2. g0 \in J[0]
  <2>1. g0 \in Heap
    BY <1>1 DEF Books
  <2>2. With(h, g0, o, 0)
    BY <1>1 DEF With
  <2>3. KeysFrom(h, g0, o, 0, c, from)
    BY DEF KeysFrom
  <2> QED
    BY <1>0, <1>1, <2>1, <2>2, <2>3
<1>3. ASSUME NEW n \in 1..w, NEW g \in J[n - 1]
      PROVE  CloneItem(g, o, h.items[c][from + n - 1]) \in J[n]
  <2> DEFINE i == from + n - 1
             e == h.items[c][i]
             k == CloneItem(g, o, e)
  <2>0. n - 1 \in 0..w /\ n \in 0..w
    BY <1>0
  <2>1. g \in Heap /\ Books(g, M, {}, {}, {}) /\ With(h, g, o, n - 1) /\ g.size[o] = w
        /\ KeysFrom(h, g, o, n - 1, c, from)
    BY <1>3, <2>0
  <2>2. i \in 1..Len(h.items[c])
    BY <1>0 DEF w
  <2>3. e.key \in Keys \union {Nil} /\ <<c, i>> \in Places(h) /\ ValueAt(h, <<c, i>>) = e.value
        /\ (o \in Tables => e.key \in Keys)
    <3>1. e.key \in Keys \union {Nil} /\ <<c, i>> \in Places(h) /\ ValueAt(h, <<c, i>>) = e.value
      <4> HIDE DEF i
      <4>1. h.items[c][i].key \in Keys \union {Nil}
        BY <1>0, <2>2, HeapFields
      <4>2. <<c, i>> \in Places(h) /\ ValueAt(h, <<c, i>>) = h.items[c][i].value
        BY <1>0, <2>2, PlacesAre
      <4> QED
        BY <4>1, <4>2
    <3>2. c \in Tables => e.key \in Keys
      BY <1>0, <2>2 DEF Shapes
    <3> QED
      BY <3>1, <3>2
  <2> HIDE DEF e, i
  <2>4. \/ e.value = Nil
        \/ \E q \in h.live : e.value = Strong(q)
        \/ e.value.kind = "weak" /\ e.value.o \in h.live
    <3> DEFINE p == <<c, i>>
    <3>1. p \in Places(h) /\ ValueAt(h, p) = e.value
      BY <2>3
    <3> HIDE DEF p
    <3> QED
      BY <3>1, ValuesLive
  <2>5. Copied(g, Nowhere, e.value)
    <3>1. \A f : Nowhere # <<f, 1>>
      BY DEF Nowhere
    <3>2. h.live \subseteq g.live
      BY <2>1 DEF With
    <3> QED
      BY <3>1, <3>2, <2>4 DEF Copied
  <2>6. KeyFor(o, e.key) /\ Len(g.items[o]) + 1 <= g.size[o] /\ o \in M
    BY <1>0, <2>1, <2>3 DEF KeyFor, With, M
  <2>6a. o \in Tables => PlaceFits(g, o, Len(g.items[o]) + 1, e.key)
    <3> SUFFICES ASSUME o \in Tables PROVE PlaceFits(g, o, Len(g.items[o]) + 1, e.key)
      OBVIOUS
    <3>1. Len(g.items[o]) = n - 1
      BY <2>1 DEF With
    <3>2. ASSUME NEW j \in 1..n - 1
          PROVE  /\ g.items[o][j].key # e.key
                 /\ HashOf[g.items[o][j].key] <= HashOf[e.key]
      <4> DEFINE l == from + j - 1
      <4>1. g.items[o][j].key = h.items[c][l].key
        BY <2>1 DEF KeysFrom
      <4>2. l \in 1..Len(h.items[c]) /\ l < i
        BY <2>2, <1>0 DEF i
      <4> HIDE DEF l
      <4>3. InOrder(h, c)
        BY DEF Books, Ordered
      <4>4. /\ HashOf[h.items[c][l].key] <= HashOf[h.items[c][i].key]
            /\ h.items[c][l].key # h.items[c][i].key
        BY <2>2, <4>2, <4>3 DEF InOrder
      <4> QED
        BY <4>1, <4>4 DEF e
    <3>3. \A j \in 1..n - 1 : j < n
      BY <1>0
    <3> QED
      BY <3>1, <3>2, <3>3 DEF PlaceFits
  <2>7. Books(k, M, {}, {}, {}) /\ Longer(g, k, o, 1) /\ k.size = g.size /\ KeyTaken(g, k, o, e.key)
    BY <2>1, <2>5, <2>6, <2>6a, CloneItemDoes
  <2> HIDE DEF k
  <2>8. With(h, k, o, n)
    <3>1. o \in Objects
      BY Kinds
    <3> QED
      BY <2>1, <2>7, <3>1 DEF With, Longer
  <2>9. k \in Heap
    BY <2>7 DEF Books
  <2>9a. KeysFrom(h, k, o, n, c, from)
    <3> SUFFICES ASSUME o \in Tables, NEW j \in 1..n PROVE k.items[o][j].key = h.items[c][from + j - 1].key
      BY DEF KeysFrom
    <3>1. Len(g.items[o]) = n - 1
      BY <2>1 DEF With
    <3>2. k.items[o][j].key = IF j <= n - 1 THEN g.items[o][j].key ELSE e.key
      BY <3>1, <2>7 DEF KeyTaken
    <3>3. CASE j <= n - 1
      <4>1. j \in 1..n - 1
        BY <3>3
      <4> QED
        BY <4>1, <3>2, <3>3, <2>1 DEF KeysFrom
    <3>4. CASE ~(j <= n - 1)
      <4>1. j = n
        BY <3>4, <1>0
      <4> QED
        BY <4>1, <3>2, <3>4 DEF e, i
    <3> QED
      BY <3>3, <3>4
  <2>10. k \in J[n]
    BY <2>0, <2>1, <2>7, <2>8, <2>9, <2>9a
  <2> QED
    BY <2>10 DEF k, e, i
<1> HIDE DEF J
<1>4. Cloned(h, o, c, from, to) \in J[w]
  <2>1. from \in Int /\ to \in Int /\ (to - from + 1) \in Nat /\ Allocated(h, o, to - from + 1) \in J[0]
    BY <1>0, <1>2 DEF w, g0
  <2>2. \A n \in 1..(to - from + 1) : \A g \in J[n - 1] : CloneItem(g, o, h.items[c][from + n - 1]) \in J[n]
    BY <1>3 DEF w
  <2> QED
    BY <2>1, <2>2, ClonedLoop DEF w
<1>5. Books(Cloned(h, o, c, from, to), M, {}, {}, {}) /\ With(h, Cloned(h, o, c, from, to), o, w)
      /\ KeysFrom(h, Cloned(h, o, c, from, to), o, w, c, from)
  BY <1>0, <1>4 DEF J
<1> QED
  BY <1>1, <1>5 DEF M, w

\* a_set_index.
LEMMA SetItemDoes ==
    ASSUME NEW h, NEW L, Books(h, L, {}, {}, {}), NEW a \in L, a \in Arrays,
           NEW i \in Nat \ {0}, NEW v, Operand(v, L)
    PROVE  Books(SetItem(h, a, i, v), L, {}, {}, {})
<1> DEFINE n == Len(h.items[a])
           f == Resized(h, a, i)
           nils == [j \in 1..i - n |-> Item(Nil, Nil)]
           r == h.items[a] \o nils
           items == [f.items EXCEPT ![a] = r]
           m == [f EXCEPT !.items = items]
           p == <<a, i>>
<1>0. h \in Heap /\ a \in Objects /\ a \notin Files /\ a \notin Tables
  BY Kinds DEF Books, Stale
<1>1. n \in Nat /\ h.items[a] \in Seq(Items1)
  BY <1>0, HeapFields
<1>2. CASE i <= n
  <2>1. SetItem(h, a, i, v) = Replaced(h, a, i, v)
    BY <1>2 DEF SetItem
  <2>2. i \in 1..Len(h.items[a])
    BY <1>1, <1>2
  <2> QED
    BY <2>1, <2>2, <1>0, ReplacedDoes
<1>3. CASE ~(i <= n)
  <2>1. /\ Books(f, L, {}, {}, {}) /\ f.items = h.items /\ f.live = h.live /\ f.size[a] >= i
    BY <1>1, <1>3, ResizedBooks
  <2> HIDE DEF f
  <2>2. f \in Heap /\ f.items \in [Objects -> Seq(Items1)] /\ f.keys \in [Keys -> Int]
    <3>1. f \in Heap
      BY <2>1 DEF Books
    <3> QED
      BY <3>1, HeapFields
  <2>3. /\ r \in Seq(Items1) /\ Len(r) = i
        /\ \A j \in 1..n : r[j] = h.items[a][j]
        /\ \A j \in n + 1..i : r[j] = Item(Nil, Nil)
    <3> DEFINE s == h.items[a]
               k == i - n
    <3>1. k \in Nat /\ Item(Nil, Nil) \in Items1
      BY <1>1, <1>3, ValueFacts DEF Items1, Item
    <3>2. nils \in Seq(Items1) /\ Len(nils) = k /\ \A j \in 1..k : nils[j] = Item(Nil, Nil)
      BY <3>1
    <3> HIDE DEF nils
    <3>3. /\ r \in Seq(Items1) /\ Len(r) = n + k
          /\ \A j \in 1..n : r[j] = h.items[a][j]
          /\ \A j \in 1..k : r[j + n] = nils[j]
      BY <1>1, <3>2, ConcatProperties
    <3>4. \A j \in n + 1..i : r[j] = Item(Nil, Nil)
      <4> SUFFICES ASSUME NEW j \in n + 1..i PROVE r[j] = Item(Nil, Nil)
        OBVIOUS
      <4>1. j - n \in 1..k /\ (j - n) + n = j
        BY <1>1
      <4> QED
        BY <4>1, <3>2, <3>3
    <3> QED
      BY <3>3, <3>4, <1>1
  <2> HIDE DEF r
  <2>4. items \in [Objects -> Seq(Items1)] /\ items[a] = r /\ \A d \in Objects : d # a => items[d] = f.items[d]
    BY <1>0, <2>2, <2>3
  <2> HIDE DEF items
  <2>5. /\ m \in Heap /\ m.items = items /\ m.keys = f.keys
        /\ m.live = f.live /\ m.count = f.count /\ m.static = f.static /\ m.size = f.size
        /\ m.refs = f.refs /\ m.room = f.room /\ m.block = f.block /\ m.position = f.position
    BY <2>2, <2>4 DEF Heap, Items1
  <2>6. SetItem(h, a, i, v) = Copy(m, p, v)
    <3>1. h.items[a] \o [j \in 1..i - Len(h.items[a]) |-> Item(Nil, Nil)] = r
      BY DEF r
    <3> QED
      BY <3>1, <1>3 DEF SetItem, f, m, items
  <2> HIDE DEF m
  <2>7. Extends(f, m, a, Nil, i - n)
    <3>1. \A k \in Keys : f.keys[k] = f.keys[k] + OneIf(a \in Tables /\ k = Nil)
      BY <1>0, <2>2 DEF OneIf
    <3> QED
      <4> DEFINE k == i - n
      <4>1. n + k = i /\ Len(f.items[a]) = n /\ Len(m.items[a]) = i
        BY <1>1, <2>1, <2>3, <2>4, <2>5
      <4> HIDE DEF k
      <4>2. /\ \A j \in 1..Len(f.items[a]) : m.items[a][j] = f.items[a][j]
            /\ \A j \in Len(f.items[a]) + 1..Len(f.items[a]) + k : m.items[a][j] = Item(Nil, Nil)
        BY <4>1, <2>1, <2>3, <2>4, <2>5
      <4>3. Len(m.items[a]) = Len(f.items[a]) + k
        BY <4>1
      <4>4. Extends(f, m, a, Nil, k)
        BY <3>1, <4>2, <4>3, <1>0, <2>4, <2>5 DEF Extends, SameBlocks
      <4> QED
        BY <4>4 DEF k
  <2>8. Books(m, L, {}, {}, {})
    <3>1. i - n \in Nat /\ Len(f.items[a]) + (i - n) <= f.size[a]
      BY <1>1, <1>3, <2>1
    <3> QED
      BY <1>0, <2>1, <2>7, <3>1, ExtendsDoes
  <2>9. p \in Places(m) /\ ValueAt(m, p) = Nil /\ p[1] = a /\ \A x : p = <<x, 1>> => x = a
    <3>1. i \in 1..Len(m.items[a]) /\ m.items[a][i] = Item(Nil, Nil)
      BY <1>1, <1>3, <2>3, <2>4, <2>5
    <3>2. Item(Nil, Nil).value = Nil
      BY DEF Item
    <3> QED
      BY <3>1, <3>2, <2>5, <1>0, PlacesAre
  <2> HIDE DEF p
  <2>10. Copied(m, p, v)
    BY <2>8, <2>9, <1>0, OperandCopied
  <2> QED
    BY <2>6, <2>8, <2>9, <2>10, FilledNil
<1> QED
  BY <1>2, <1>3
=============================================================================
