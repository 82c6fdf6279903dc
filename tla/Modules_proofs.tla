--------------------------- MODULE Modules_proofs ---------------------------
(***************************************************************************)
(* Proofs about Modules: what loading, importing, dropping and collecting  *)
(* do to the references between modules, to the list of those that wait    *)
(* and to the table, and from that the invariants of the module system.    *)
(***************************************************************************)
EXTENDS Modules, SequenceTheorems, FiniteSetTheorems, WellFoundedInduction, TLAPS

-----------------------------------------------------------------------------
(* Loops: functions on 0 .. m that start somewhere and take one turn after *)
(* the other.  Inductions rest on the least-number principle, over sets.   *)

\* The least-number principle, over a set: what the inductions here rest on.
LEMMA LeastNat ==
    ASSUME NEW T, T \subseteq Nat, T # {}
    PROVE  \E k \in T : \A j \in T : k <= j
<1>1. PICK k \in T : \A j \in T : ~(<<j, k>> \in OpToRel(<, Nat))
  BY NatLessThanWellFounded, WFMin
<1>2. \A j \in T : ~(j < k)
  BY <1>1 DEF OpToRel
<1> QED
  BY <1>2

\* f runs from s, turn by turn, through the sets J.
IsLoop(f, turn, J, s, m) ==
    /\ f = [n \in 0 .. m |-> IF n = 0 THEN s ELSE turn[n][f[n - 1]]]
    /\ \A n \in 0 .. m : f[n] \in J[n]

\* Such a loop exists if each turn leads from a set to the next one.
LEMMA LoopRuns ==
    ASSUME NEW J, NEW s \in J[0], NEW m \in Nat, NEW turn,
           \A n \in 1 .. m : turn[n] \in [J[n - 1] -> J[n]]
    PROVE  \E f : IsLoop(f, turn, J, s, m)
<1> DEFINE none == {k \in 0 .. m : ~\E f : IsLoop(f, turn, J, s, k)}
<1>1. SUFFICES ASSUME m \in none PROVE FALSE
  OBVIOUS
<1>2. PICK k \in none : \A j \in none : k <= j
  <2>1. none \subseteq Nat
    OBVIOUS
  <2> HIDE DEF none
  <2> QED
    BY <1>1, <2>1, LeastNat
<1>3. CASE k = 0
  <2> DEFINE g == [n \in 0 .. 0 |-> s]
  <2>1. g[0] = s /\ \A n \in 0 .. 0 : n = 0
    OBVIOUS
  <2>2. g = [n \in 0 .. 0 |-> IF n = 0 THEN s ELSE turn[n][g[n - 1]]]
    OBVIOUS
  <2> HIDE DEF g
  <2>3. IsLoop(g, turn, J, s, 0)
    BY <2>1, <2>2 DEF IsLoop
  <2> QED
    BY <1>2, <1>3, <2>3
<1>4. CASE k # 0
  <2>1. k \in 1 .. m /\ k - 1 \in 0 .. m /\ k - 1 < k
    BY <1>2, <1>4
  <2>2. k - 1 \notin none
    BY <1>2, <2>1
  <2>3. PICK f : IsLoop(f, turn, J, s, k - 1)
    BY <2>1, <2>2
  <2> DEFINE g == [n \in 0 .. k |-> IF n = k THEN turn[k][f[k - 1]] ELSE f[n]]
  <2>4. /\ \A n \in 0 .. k - 1 : f[n] = IF n = 0 THEN s ELSE turn[n][f[n - 1]]
        /\ \A n \in 0 .. k - 1 : f[n] \in J[n]
    BY <2>3 DEF IsLoop
  <2>5. /\ \A n \in 0 .. k - 1 : g[n] = f[n]
        /\ g[k] = turn[k][f[k - 1]]
        /\ g = [n \in 0 .. k |-> g[n]]
    BY <2>1
  <2> HIDE DEF g
  <2>6. ASSUME NEW n \in 0 .. k
        PROVE  g[n] = (IF n = 0 THEN s ELSE turn[n][g[n - 1]]) /\ g[n] \in J[n]
    <3>1. CASE n = 0
      <4>1. n \in 0 .. k - 1
        BY <2>1, <3>1
      <4> QED
        BY <3>1, <4>1, <2>4, <2>5
    <3>2. CASE n = k
      <4>1. k - 1 \in 0 .. k - 1 /\ g[k - 1] = f[k - 1] /\ f[k - 1] \in J[k - 1]
        BY <2>1, <2>4, <2>5
      <4>2. turn[k] \in [J[k - 1] -> J[k]]
        BY <2>1
      <4> QED
        BY <3>2, <4>1, <4>2, <2>1, <2>5
    <3>3. CASE n # 0 /\ n # k
      <4>1. n \in 0 .. k - 1 /\ n - 1 \in 0 .. k - 1
        BY <3>3, <2>1
      <4> QED
        BY <3>3, <4>1, <2>4, <2>5
    <3> QED
      BY <3>1, <3>2, <3>3
  <2>7. IsLoop(g, turn, J, s, k)
    <3>1. g = [n \in 0 .. k |-> IF n = 0 THEN s ELSE turn[n][g[n - 1]]]
      BY <2>5, <2>6
    <3> QED
      BY <2>6, <3>1 DEF IsLoop
  <2> QED
    BY <2>7, <1>2
<1> QED
  BY <1>3, <1>4

\* What holds at first and is kept by each turn holds at the end.
LEMMA LoopKeeps ==
    ASSUME NEW f, NEW N \in Nat, NEW S, f[0] \in S[0],
           \A n \in 1 .. N : f[n - 1] \in S[n - 1] => f[n] \in S[n]
    PROVE  f[N] \in S[N]
<1> DEFINE bad == {n \in 0 .. N : f[n] \notin S[n]}
<1>1. SUFFICES ASSUME N \in bad PROVE FALSE
  OBVIOUS
<1>2. PICK k \in bad : \A j \in bad : k <= j
  <2>1. bad \subseteq Nat
    OBVIOUS
  <2> HIDE DEF bad
  <2> QED
    BY <1>1, <2>1, LeastNat
<1>3. k \in 1 .. N /\ k - 1 \in 0 .. N /\ k - 1 \notin bad
  BY <1>2
<1> QED
  BY <1>2, <1>3

-----------------------------------------------------------------------------
(* The invariant. *)

Record == [name : Names \cup {Nil}, refsum : Int, static : Value,
           uses : SUBSET Mods, exports : SUBSET Mods]
Loading == [mod : Scripts, next : Nat \ {0}, symbols : SUBSET Mods,
          phase : {"import", "init", "fail"}, dest : Vars \cup {Nil}]
Context == [mod : Scripts, symbols : SUBSET Mods]
Heap == [mods : [Mods -> Record], dead : Seq(Mods), table : [Names -> Mods \cup {Nil}],
         lock : Nat, vars : [Vars -> Value], frames : Seq(Loading), leaked : Seq(Context),
         lost : SUBSET Mods]

\* Compiled, or a C module: what the rest of the system may refer to.
Adult(h, m) ==
    /\ h.mods[m].name # Nil
    /\ m \in h.mods[m].exports
    /\ h.mods[m].refsum = IF m \in Scripts THEN 2 ELSE 0

\* Somebody else owns the function of m.
Used(h, m) ==
    \/ \E v \in Vars : h.vars[v] = Function(m)
    \/ \E n \in Live(h) : h.mods[n].static = Function(m)
    \/ \E n \in Live(h) : m \in h.mods[n].uses
    \/ \E n \in Live(h) \ {m} : m \in h.mods[n].exports
    \/ \E i \in DOMAIN h.frames : m \in h.frames[i].symbols
    \/ \E i \in DOMAIN h.leaked : m \in h.leaked[i].symbols

\* The program, another module, or nobody at all has a reference to m.
Had(h, m) ==
    \/ \E v \in Vars : h.vars[v] = Module(m)
    \/ \E n \in Live(h) : h.mods[n].static = Module(m)
    \/ m \in h.lost

\* What a module can be: gone, in compilation or given up, of a file that is in
\* compilation already, or Adult.
Stages(h) ==
    /\ \A m \in Mods : h.mods[m].name = Nil => h.mods[m] = NoModule
    /\ \A m \in Live(h) \cap Binaries : Adult(h, m)
    /\ \A m \in Live(h) \cap Scripts :
          /\ h.mods[m].name \in Files
          /\ \/ Adult(h, m)
             \/ h.mods[m].refsum = -1 /\ m \in h.mods[m].exports
             \/ h.mods[m].refsum = 0 /\ h.mods[m].exports = {}

\* References lead to modules that exist and are compiled; only functions of C
\* modules may be left over when the state is closed.
Kept(h, open) ==
    /\ \A m \in Mods : Used(h, m) => Adult(h, m) \/ (~open /\ m \in Binaries)
    /\ \A m \in Mods : Had(h, m) => Adult(h, m)
    /\ \A i \in DOMAIN h.leaked : h.leaked[i].mod \in Live(h)

\* Compilations that go on: each has a module and, among those that are not
\* done, a name of its own, and one that is imported has its importer below.
Nested(h) ==
    /\ \A i \in DOMAIN h.frames :
          /\ h.frames[i].mod \in Live(h)
          /\ IF h.frames[i].phase = "init" THEN Adult(h, h.frames[i].mod)
             ELSE h.mods[h.frames[i].mod].refsum = -1
          /\ h.frames[i].dest = Nil => i > 1 /\ h.frames[i - 1].phase = "import"
    /\ \A i, j \in DOMAIN h.frames : i # j => h.frames[i].mod # h.frames[j].mod
    /\ \A i, j \in Importing(h) :
          i # j => h.mods[h.frames[i].mod].name # h.mods[h.frames[j].mod].name
    /\ \A i \in Importing(h) :
          h.mods[h.frames[i].mod].name \in Shared => h.table[h.mods[h.frames[i].mod].name] = Nil

\* The table has all shared modules that are compiled, under their names.
Tabled(h) ==
    /\ \A n \in Names : h.table[n] # Nil =>
          /\ Adult(h, h.table[n]) /\ h.mods[h.table[n]].name = n
    /\ \A m \in Mods : Adult(h, m) /\ h.mods[m].name \in Shared => h.table[h.mods[m].name] = m

\* No member of s is there twice.
Once(s) == \A i, j \in DOMAIN s : s[i] = s[j] => i = j

\* All modules that nobody owns wait, once, except x.
Waiting(h, x) ==
    /\ ToSet(h.dead) = {m \in Live(h) : ~Owned(h, m)} \ {x}
    /\ Once(h.dead)

Whole(h, open, x) ==
    /\ h \in Heap
    /\ Stages(h) /\ Kept(h, open) /\ Nested(h) /\ Tabled(h) /\ Waiting(h, x)

\* Without failures, nothing keeps a module but other modules and the program.
Unbroken(h) ==
    /\ h.leaked = << >>
    /\ h.lost # {} => \E i \in DOMAIN h.frames : h.frames[i].phase = "fail"
    /\ \A m \in Live(h) : h.mods[m].refsum = -1 => \E i \in DOMAIN h.frames : h.frames[i].mod = m

\* The collector would not destroy m, were it not a C module.
Busy(h, m) == h.mods[m].refsum # -1 /\ CountRefs(h, m) # h.mods[m].refsum

\* What es_close does, and in which order.
Closing ==
    /\ phase \in {"open", "cleanup", "collect", "contexts", "closed"}
    /\ phase # "open" => heap.frames = << >>
    /\ phase \in {"collect", "contexts", "closed"} => \A v \in Vars : heap.vars[v] = Nil
    /\ phase \in {"contexts", "closed"} /\ failures = 0 =>
          \A m \in ToSet(heap.dead) : Busy(heap, m)

Sound ==
    /\ Whole(heap, phase = "open", Nil)
    /\ heap.lock = Cardinality(Importing(heap))
    /\ failures \in Nat
    /\ failures = 0 => Unbroken(heap)
    /\ Closing

-----------------------------------------------------------------------------
(* Lists. *)

\* What is taken off a list leaves the others, each as often as before.
LEMMA WithoutDoes ==
    ASSUME NEW S, NEW s \in Seq(S), Once(s), NEW m
    PROVE  /\ Without(s, m) \in Seq(S) /\ Once(Without(s, m))
           /\ ToSet(Without(s, m)) = ToSet(s) \ {m}
<1>1. CASE m \notin ToSet(s)
  BY <1>1 DEF Without
<1>2. CASE m \in ToSet(s)
  <2> DEFINE k == CHOOSE i \in DOMAIN s : s[i] = m
             n == Len(s)
             t == SubSeq(s, 1, k - 1) \o SubSeq(s, k + 1, n)
  <2>1. k \in 1 .. n /\ s[k] = m /\ n \in Nat /\ DOMAIN s = 1 .. n
    <3>1. \E i \in DOMAIN s : s[i] = m
      BY <1>2 DEF ToSet
    <3>2. k \in DOMAIN s /\ s[k] = m
      BY <3>1
    <3> QED
      BY <3>2
  <2>2. Without(s, m) = t
    BY <1>2 DEF Without, RemoveAt
  <2> HIDE DEF k
  <2>3. /\ t \in Seq(S) /\ Len(t) = n - 1
        /\ \A i \in 1 .. n - 1 : t[i] = IF i < k THEN s[i] ELSE s[i + 1]
    <3> DEFINE a == SubSeq(s, 1, k - 1)
               b == SubSeq(s, k + 1, n)
    <3>1. a \in Seq(S) /\ Len(a) = k - 1 /\ \A i \in 1 .. k - 1 : a[i] = s[i]
      BY <2>1, SubSeqProperties, ElementOfSeq
    <3>2. b \in Seq(S) /\ Len(b) = n - k /\ \A i \in 1 .. n - k : b[i] = s[i + k]
      <4>1. /\ b \in Seq(S) /\ Len(b) = IF k + 1 <= n THEN n - (k + 1) + 1 ELSE 0
            /\ \A i \in 1 .. n - (k + 1) + 1 : b[i] = s[k + 1 + i - 1]
        BY <2>1, SubSeqProperties
      <4> HIDE DEF b, n
      <4> QED
        BY <2>1, <4>1
    <3> HIDE DEF a, b, n
    <3>3. /\ a \o b \in Seq(S) /\ Len(a \o b) = n - 1
          /\ \A i \in 1 .. n - 1 : (a \o b)[i] = IF i <= k - 1 THEN a[i] ELSE b[i - (k - 1)]
      BY <2>1, <3>1, <3>2, ConcatProperties
    <3>4. ASSUME NEW i \in 1 .. n - 1
          PROVE  (a \o b)[i] = IF i < k THEN s[i] ELSE s[i + 1]
      <4>1. CASE i < k
        BY <2>1, <3>1, <3>3, <4>1
      <4>2. CASE ~(i < k)
        <5>1. i - (k - 1) \in 1 .. n - k /\ i - (k - 1) + k = i + 1
          BY <2>1, <4>2
        <5> QED
          BY <2>1, <3>2, <3>3, <4>2, <5>1
      <4> QED
        BY <4>1, <4>2
    <3> QED
      BY <3>3, <3>4 DEF a, b
  <2> HIDE DEF t, n
  <2>4. DOMAIN t = 1 .. n - 1
    BY <2>1, <2>3
  <2>5. Once(t)
    <3> SUFFICES ASSUME NEW i \in 1 .. n - 1, NEW j \in 1 .. n - 1, t[i] = t[j] PROVE i = j
      BY <2>4 DEF Once
    <3> DEFINE at(x) == IF x < k THEN x ELSE x + 1
    <3>1. at(i) \in DOMAIN s /\ at(j) \in DOMAIN s
      BY <2>1
    <3>2. t[i] = s[at(i)] /\ t[j] = s[at(j)]
      BY <2>3
    <3>3. at(i) = at(j)
      BY <3>1, <3>2 DEF Once
    <3> QED
      BY <2>1, <3>3
  <2>6. ToSet(t) \subseteq ToSet(s) \ {m}
    <3> SUFFICES ASSUME NEW i \in 1 .. n - 1 PROVE t[i] \in ToSet(s) /\ t[i] # m
      BY <2>4 DEF ToSet
    <3>1. CASE i < k
      BY <2>1, <2>3, <3>1 DEF ToSet, Once
    <3>2. CASE ~(i < k)
      <4>1. i + 1 \in 1 .. n /\ t[i] = s[i + 1] /\ i + 1 # k
        BY <2>1, <2>3, <3>2
      <4> QED
        BY <2>1, <4>1 DEF ToSet, Once
    <3> QED
      BY <3>1, <3>2
  <2>7. ToSet(s) \ {m} \subseteq ToSet(t)
    <3> SUFFICES ASSUME NEW i \in 1 .. n, s[i] # m PROVE s[i] \in ToSet(t)
      BY <2>1 DEF ToSet
    <3>1. CASE i < k
      <4>1. i \in 1 .. n - 1 /\ t[i] = s[i]
        BY <2>1, <2>3, <3>1
      <4> QED
        BY <2>4, <4>1 DEF ToSet
    <3>2. CASE i > k
      <4>1. i - 1 \in 1 .. n - 1 /\ ~(i - 1 < k) /\ t[i - 1] = s[i - 1 + 1] /\ i - 1 + 1 = i
        BY <2>1, <2>3, <3>2
      <4> QED
        BY <2>4, <4>1 DEF ToSet
    <3> QED
      BY <2>1, <3>1, <3>2
  <2> QED
    BY <2>2, <2>3, <2>5, <2>6, <2>7
<1> QED
  BY <1>1, <1>2

LEMMA ConsDoes ==
    ASSUME NEW S, NEW s \in Seq(S), Once(s), NEW m \in S, m \notin ToSet(s)
    PROVE  /\ <<m>> \o s \in Seq(S) /\ Once(<<m>> \o s)
           /\ ToSet(<<m>> \o s) = ToSet(s) \cup {m}
<1> DEFINE t == <<m>> \o s
           n == Len(s)
<1>1. n \in Nat /\ DOMAIN s = 1 .. n
  OBVIOUS
<1>2. t \in Seq(S) /\ Len(t) = n + 1 /\ t[1] = m /\ \A i \in 2 .. n + 1 : t[i] = s[i - 1]
  <2>1. <<m>> \in Seq(S) /\ Len(<<m>>) = 1 /\ <<m>>[1] = m
    OBVIOUS
  <2>2. /\ <<m>> \o s \in Seq(S) /\ Len(<<m>> \o s) = n + 1
        /\ \A i \in 1 .. n + 1 : (<<m>> \o s)[i] = IF i <= 1 THEN <<m>>[i] ELSE s[i - 1]
    BY <2>1
  <2> QED
    BY <1>1, <2>1, <2>2
<1> HIDE DEF t, n
<1>3. DOMAIN t = 1 .. n + 1
  BY <1>1, <1>2
<1>4. \A i \in 1 .. n : s[i] # m
  BY <1>1 DEF ToSet
<1>5. \A i \in 1 .. n + 1 : i = 1 \/ (i - 1 \in 1 .. n /\ i \in 2 .. n + 1)
  BY <1>1
<1>6. Once(t)
  <2> SUFFICES ASSUME NEW i \in 1 .. n + 1, NEW j \in 1 .. n + 1, t[i] = t[j] PROVE i = j
    BY <1>3 DEF Once
  <2>1. CASE i = 1 \/ j = 1
    BY <1>1, <1>2, <1>4, <1>5, <2>1
  <2>2. CASE i # 1 /\ j # 1
    <3>1. i - 1 \in DOMAIN s /\ j - 1 \in DOMAIN s /\ s[i - 1] = s[j - 1]
      BY <1>1, <1>2, <1>5, <2>2
    <3>2. i - 1 = j - 1
      BY <3>1 DEF Once
    <3> QED
      BY <3>2
  <2> QED
    BY <2>1, <2>2
<1>7. ToSet(t) \subseteq ToSet(s) \cup {m}
  BY <1>1, <1>2, <1>3, <1>5 DEF ToSet
<1>8. ToSet(s) \cup {m} \subseteq ToSet(t)
  <2>1. m \in ToSet(t)
    BY <1>1, <1>2, <1>3 DEF ToSet
  <2>2. ASSUME NEW i \in 1 .. n PROVE s[i] \in ToSet(t)
    <3>1. i + 1 \in DOMAIN t /\ t[i + 1] = s[i]
      BY <1>1, <1>2, <1>3
    <3> QED
      BY <3>1 DEF ToSet
  <2> QED
    BY <1>1, <2>1, <2>2 DEF ToSet
<1> QED
  BY <1>2, <1>6, <1>7, <1>8 DEF t

-----------------------------------------------------------------------------
(* What depends on what. *)

\* What the collector never touches.
SameHolders(g, h) ==
    /\ g.vars = h.vars /\ g.frames = h.frames /\ g.leaked = h.leaked
    /\ g.lost = h.lost /\ g.lock = h.lock

LEMMA SameModules ==
    ASSUME NEW g, NEW h, g.mods = h.mods
    PROVE  Live(g) = Live(h) /\ \A m : Adult(g, m) <=> Adult(h, m)
  BY DEF Live, Adult

LEMMA SameReferences ==
    ASSUME NEW g, NEW h, SameHolders(g, h), g.mods = h.mods
    PROVE  /\ Importing(g) = Importing(h)
           /\ \A m : Used(g, m) <=> Used(h, m)
           /\ \A m : Had(g, m) <=> Had(h, m)
           /\ \A m : Owned(g, m) <=> Owned(h, m)
           /\ \A m : CountRefs(g, m) = CountRefs(h, m)
<1>1. Live(g) = Live(h)
  BY SameModules
<1>2. Importing(g) = Importing(h)
  BY DEF Importing, SameHolders
<1>3. \A m : Used(g, m) <=> Used(h, m)
  BY <1>1 DEF SameHolders, Used
<1>4. \A m : Had(g, m) <=> Had(h, m)
  BY <1>1 DEF SameHolders, Had
<1>5. \A m : Owned(g, m) <=> Owned(h, m)
  BY <1>1 DEF SameHolders, Owned
<1>6. ASSUME NEW m PROVE CountRefs(g, m) = CountRefs(h, m)
  BY <1>1 DEF SameHolders, CountRefs, FunctionOwners
<1> QED
  BY <1>2, <1>3, <1>4, <1>5, <1>6

LEMMA SameBooks ==
    ASSUME NEW g, NEW h, SameHolders(g, h), g.mods = h.mods, g.table = h.table, NEW open,
           Stages(h), Kept(h, open), Nested(h), Tabled(h)
    PROVE  Stages(g) /\ Kept(g, open) /\ Nested(g) /\ Tabled(g)
<1>1. /\ Live(g) = Live(h) /\ Importing(g) = Importing(h)
      /\ \A m : (Adult(g, m) <=> Adult(h, m)) /\ (Used(g, m) <=> Used(h, m)) /\ (Had(g, m) <=> Had(h, m))
  BY SameModules, SameReferences
<1>2. Stages(g)
  BY <1>1 DEF Stages
<1>3. Kept(g, open)
  BY <1>1 DEF Kept, SameHolders
<1>4. Nested(g)
  BY <1>1, SMTT(30) DEF Nested, SameHolders
<1>5. Tabled(g)
  BY <1>1 DEF Tabled
<1> QED
  BY <1>2, <1>3, <1>4, <1>5

LEMMA UnlinkDoes ==
    ASSUME NEW h \in Heap, Once(h.dead), NEW m
    PROVE  /\ Unlink(h, m) \in Heap /\ SameHolders(Unlink(h, m), h)
           /\ Unlink(h, m).mods = h.mods /\ Unlink(h, m).table = h.table
           /\ Once(Unlink(h, m).dead) /\ ToSet(Unlink(h, m).dead) = ToSet(h.dead) \ {m}
<1>1. h.dead \in Seq(Mods)
  BY DEF Heap
<1>2. /\ Without(h.dead, m) \in Seq(Mods) /\ Once(Without(h.dead, m))
      /\ ToSet(Without(h.dead, m)) = ToSet(h.dead) \ {m}
  BY <1>1, WithoutDoes
<1> QED
  BY <1>2 DEF Unlink, Heap, SameHolders

\* The module that v refers to, as its owner does.
Target(v) == IF v # Nil /\ v.is = "module" THEN v.of ELSE Nil

LEMMA ReleaseDoes ==
    ASSUME NEW h \in Heap, Once(h.dead), NEW v \in Value
    PROVE  /\ Release(h, v) \in Heap /\ SameHolders(Release(h, v), h)
           /\ Release(h, v).mods = h.mods /\ Release(h, v).table = h.table
           /\ Once(Release(h, v).dead)
           /\ ToSet(Release(h, v).dead) =
                 ToSet(h.dead) \cup (IF Dropped(h, v) THEN {Target(v)} ELSE {})
<1>1. CASE ~Dropped(h, v)
  BY <1>1 DEF Release, SameHolders
<1>2. CASE Dropped(h, v)
  <2> DEFINE m == v.of
             k == Unlink(h, m)
  <2>1. m \in Mods /\ Target(v) = m
    BY <1>2 DEF Dropped, Target, Value, Module, Function
  <2>2. Release(h, v) = [k EXCEPT !.dead = <<m>> \o @]
    BY <1>2 DEF Release
  <2>3. /\ k \in Heap /\ SameHolders(k, h) /\ k.mods = h.mods /\ k.table = h.table
        /\ Once(k.dead) /\ ToSet(k.dead) = ToSet(h.dead) \ {m}
    BY UnlinkDoes
  <2> HIDE DEF m, k
  <2>4. k.dead \in Seq(Mods) /\ m \notin ToSet(k.dead)
    BY <2>3 DEF Heap
  <2>5. /\ <<m>> \o k.dead \in Seq(Mods) /\ Once(<<m>> \o k.dead)
        /\ ToSet(<<m>> \o k.dead) = ToSet(k.dead) \cup {m}
    BY <2>1, <2>3, <2>4, ConsDoes
  <2> QED
    BY <1>2, <2>1, <2>2, <2>3, <2>5 DEF Heap, SameHolders
<1> QED
  BY <1>1, <1>2

\* eel_o_disown: the value that was taken from its owner is waited for.
LEMMA ReleaseKeeps ==
    ASSUME NEW h, NEW open, NEW v \in Value, Whole(h, open, Target(v)),
           Target(v) \in Live(h) \cup {Nil}
    PROVE  Whole(Release(h, v), open, Nil)
<1> DEFINE g == Release(h, v)
           m == Target(v)
<1>1. h \in Heap /\ Once(h.dead) /\ Stages(h) /\ Kept(h, open) /\ Nested(h) /\ Tabled(h)
  BY DEF Whole, Waiting
<1>2. /\ g \in Heap /\ SameHolders(g, h) /\ g.mods = h.mods /\ g.table = h.table /\ Once(g.dead)
      /\ ToSet(g.dead) = ToSet(h.dead) \cup (IF Dropped(h, v) THEN {m} ELSE {})
  BY <1>1, ReleaseDoes
<1>3. Dropped(h, v) <=> m # Nil /\ ~Owned(h, m)
  <2>1. v # Nil /\ v.is = "module" => v.of \in Mods
    BY DEF Value, Module, Function
  <2>2. Nil \notin Mods
    BY ModulesAssumption, NilAssumption
  <2> QED
    BY <2>1, <2>2 DEF Dropped, Target
<1>4. ToSet(h.dead) = {n \in Live(h) : ~Owned(h, n)} \ {m}
  BY DEF Whole, Waiting
<1> HIDE DEF g, m
<1>5. Live(g) = Live(h) /\ \A n : Owned(g, n) <=> Owned(h, n)
  BY <1>2, SameModules, SameReferences
<1>6. ToSet(g.dead) = {n \in Live(g) : ~Owned(g, n)} \ {Nil}
  <2>1. Nil \notin Live(h)
    BY ModulesAssumption, NilAssumption DEF Live
  <2>2. m \in Live(h) \cup {Nil}
    BY DEF m
  <2> QED
    BY <1>2, <1>3, <1>4, <1>5, <2>1, <2>2
<1>7. Stages(g) /\ Kept(g, open) /\ Nested(g) /\ Tabled(g)
  BY <1>1, <1>2, SameBooks
<1> QED
  BY <1>2, <1>6, <1>7 DEF Whole, Waiting, g

-----------------------------------------------------------------------------
(* Counting. *)

\* The number of owners a function has for being exported by its own module.
Own(h, m) == IF m \in h.mods[m].exports THEN 2 ELSE 0

LEMMA CountNone ==
    ASSUME NEW S, IsFiniteSet(S), NEW T, T \subseteq S
    PROVE  Cardinality(T) \in Nat /\ (Cardinality(T) = 0 <=> T = {})
<1>1. IsFiniteSet(T)
  BY FS_Subset
<1> QED
  BY <1>1, FS_CardinalityType, FS_EmptySet

\* The references are as many as a module has to its own function, exactly
\* if nobody else has one.
LEMMA CountOwners ==
    ASSUME NEW h \in Heap, NEW m \in Mods
    PROVE  FunctionOwners(h, m) = Own(h, m) <=> ~Used(h, m)
<1> DEFINE a == {v \in Vars : h.vars[v] = Function(m)}
           b == {n \in Live(h) : h.mods[n].static = Function(m)}
           c == {n \in Live(h) : m \in h.mods[n].uses}
           d == {n \in Live(h) \ {m} : m \in h.mods[n].exports}
           e == {i \in DOMAIN h.frames : m \in h.frames[i].symbols}
           f == {i \in DOMAIN h.leaked : m \in h.leaked[i].symbols}
<1>1. IsFiniteSet(Vars) /\ IsFiniteSet(Mods)
  BY ModulesAssumption, NilAssumption, FS_Union DEF Mods
<1>2. IsFiniteSet(DOMAIN h.frames) /\ IsFiniteSet(DOMAIN h.leaked)
  <2>1. h.frames \in Seq(Loading) /\ h.leaked \in Seq(Context)
    BY DEF Heap
  <2>2. /\ DOMAIN h.frames = 1 .. Len(h.frames) /\ Len(h.frames) \in Int
        /\ DOMAIN h.leaked = 1 .. Len(h.leaked) /\ Len(h.leaked) \in Int /\ 1 \in Int
    BY <2>1, LenProperties
  <2> QED
    BY <2>2, FS_Interval
<1>3. Cardinality(a) \in Nat /\ (Cardinality(a) = 0 <=> a = {})
  BY <1>1, CountNone
<1>4. /\ Cardinality(b) \in Nat /\ (Cardinality(b) = 0 <=> b = {})
      /\ Cardinality(c) \in Nat /\ (Cardinality(c) = 0 <=> c = {})
      /\ Cardinality(d) \in Nat /\ (Cardinality(d) = 0 <=> d = {})
  <2>1. b \subseteq Mods /\ c \subseteq Mods /\ d \subseteq Mods
    BY DEF Live
  <2> HIDE DEF b, c, d
  <2> QED
    BY <1>1, <2>1, CountNone
<1>5. /\ Cardinality(e) \in Nat /\ (Cardinality(e) = 0 <=> e = {})
      /\ Cardinality(f) \in Nat /\ (Cardinality(f) = 0 <=> f = {})
  <2>1. e \subseteq DOMAIN h.frames /\ f \subseteq DOMAIN h.leaked
    OBVIOUS
  <2> HIDE DEF e, f
  <2> QED
    BY <1>2, <2>1, CountNone
<1>6. FunctionOwners(h, m) = Own(h, m) + Cardinality(a) + Cardinality(b) + Cardinality(c)
                             + Cardinality(d) + Cardinality(e) + Cardinality(f)
  BY DEF FunctionOwners, Own
<1>7. ~Used(h, m) <=> a = {} /\ b = {} /\ c = {} /\ d = {} /\ e = {} /\ f = {}
  BY DEF Used
<1>8. Own(h, m) \in Nat
  BY DEF Own
<1> HIDE DEF a, b, c, d, e, f
<1> QED
  BY <1>3, <1>4, <1>5, <1>6, <1>7, <1>8

-----------------------------------------------------------------------------
(* The collector. *)

\* g is what collecting leaves of h.
Less(g, h) ==
    /\ SameHolders(g, h)
    /\ \A m \in Mods : g.mods[m] = h.mods[m] \/ g.mods[m] = NoModule
    /\ \A n \in Names : g.table[n] = h.table[n] \/ g.table[n] = Nil

LEMMA DestroyDoes ==
    ASSUME NEW h, NEW open, NEW m \in Mods, Whole(h, open, Nil)
    PROVE  LET g == Destroy(h, m)
               t == Target(h.mods[m].static)
           IN  /\ g \in Heap /\ SameHolders(g, h) /\ Once(g.dead)
               /\ g.mods = [h.mods EXCEPT ![m] = NoModule]
               /\ g.table = [n \in Names |-> IF h.table[n] = m THEN Nil ELSE h.table[n]]
               /\ ToSet(g.dead) =
                     (ToSet(h.dead) \cup (IF t # Nil /\ ~Owned(g, t) THEN {t} ELSE {})) \ {m}
<1> DEFINE static == h.mods[m].static
           gone == [h EXCEPT !.mods[m] = NoModule,
                             !.table = [n \in Names |-> IF @[n] = m THEN Nil ELSE @[n]]]
           k == Release(gone, static)
           g == Destroy(h, m)
           t == Target(static)
<1>1. h \in Heap /\ Once(h.dead)
  BY DEF Whole, Waiting
<1>2. static \in Value /\ h.mods[m] \in Record
  BY <1>1 DEF Heap, Record
<1>3. NoModule \in Record
  BY DEF NoModule, Record, Value
<1>4. /\ gone \in Heap /\ SameHolders(gone, h) /\ gone.dead = h.dead
      /\ gone.mods = [h.mods EXCEPT ![m] = NoModule]
      /\ gone.table = [n \in Names |-> IF h.table[n] = m THEN Nil ELSE h.table[n]]
  BY <1>1, <1>3 DEF Heap, SameHolders
<1>5. g = Unlink(k, m)
  BY DEF Destroy
<1> HIDE DEF gone, g, static
<1>6. /\ k \in Heap /\ SameHolders(k, gone) /\ k.mods = gone.mods /\ k.table = gone.table
      /\ Once(k.dead)
      /\ ToSet(k.dead) = ToSet(gone.dead) \cup (IF Dropped(gone, static) THEN {t} ELSE {})
  BY <1>1, <1>2, <1>4, ReleaseDoes
<1> HIDE DEF k
<1>7. /\ g \in Heap /\ SameHolders(g, k) /\ g.mods = k.mods /\ g.table = k.table
      /\ Once(g.dead) /\ ToSet(g.dead) = ToSet(k.dead) \ {m}
  BY <1>5, <1>6, UnlinkDoes
<1>8. SameHolders(g, gone) /\ SameHolders(g, h)
  BY <1>4, <1>6, <1>7 DEF SameHolders
<1>9. \A n : Owned(g, n) <=> Owned(gone, n)
  BY <1>6, <1>7, <1>8, SameReferences
<1>10. Dropped(gone, static) <=> t # Nil /\ ~Owned(g, t)
  <2>1. static # Nil /\ static.is = "module" => static.of \in Mods
    BY <1>2 DEF Value, Module, Function
  <2>2. Nil \notin Mods
    BY ModulesAssumption, NilAssumption
  <2> QED
    BY <1>9, <2>1, <2>2 DEF Dropped, Target
<1> HIDE DEF t
<1> QED
  BY <1>4, <1>6, <1>7, <1>8, <1>10 DEF g, t, static

LEMMA TargetIs ==
    /\ \A n \in Mods : Target(Module(n)) = n /\ Target(Function(n)) = Nil
    /\ Target(Nil) = Nil
    /\ \A v \in Value : /\ Target(v) \in Mods \cup {Nil}
                        /\ Target(v) # Nil => v = Module(Target(v))
<1>1. ASSUME NEW n \in Mods
      PROVE  Target(Module(n)) = n /\ Target(Function(n)) = Nil
  <2> DEFINE a == [is |-> "module", of |-> n]
             b == [is |-> "function", of |-> n]
  <2>1. a.is = "module" /\ a.of = n /\ b.is # "module"
    OBVIOUS
  <2>2. a # Nil
    BY NilAssumption DEF Module
  <2> QED
    BY <2>1, <2>2 DEF Target, Module, Function
<1>2. \A v \in Value : /\ Target(v) \in Mods \cup {Nil}
                       /\ Target(v) # Nil => v = Module(Target(v))
  BY DEF Target, Value, Module, Function
<1> QED
  BY <1>1, <1>2 DEF Target

\* A module that waits and that is destroyed is used by nobody.
LEMMA NobodyUses ==
    ASSUME NEW h, NEW open, NEW m \in Mods, Whole(h, open, Nil), m \in ToSet(h.dead),
           ~(open /\ m \in Binaries), ~Busy(h, m)
    PROVE  /\ m \in Live(h) /\ ~Owned(h, m) /\ ~Had(h, m)
           /\ Used(h, m) => ~open /\ m \in Binaries
<1>1. h \in Heap /\ Stages(h) /\ Kept(h, open)
  BY DEF Whole
<1>2. m \in Live(h) /\ ~Owned(h, m)
  BY DEF Whole, Waiting
<1>3. ~Had(h, m)
  BY <1>2 DEF Had, Owned
<1>4. ASSUME Used(h, m), m \notin Binaries PROVE FALSE
  <2>1. Adult(h, m) /\ m \in Scripts
    BY <1>1, <1>4 DEF Kept, Mods
  <2>2. h.mods[m].refsum = 2 /\ Own(h, m) = 2
    BY <2>1 DEF Adult, Own
  <2>3. FunctionOwners(h, m) = 2
    BY <2>1, <2>2 DEF Busy, CountRefs
  <2> QED
    BY <1>1, <1>4, <2>2, <2>3, CountOwners
<1>5. ASSUME Used(h, m), open PROVE FALSE
  BY <1>4, <1>5
<1> QED
  BY <1>2, <1>3, <1>4, <1>5

\* m_real_destruct and what follows: the rest stays whole.
LEMMA DestroyKeeps ==
    ASSUME NEW h, NEW open, NEW m \in Mods, Whole(h, open, Nil), m \in ToSet(h.dead),
           ~(open /\ m \in Binaries), ~Busy(h, m)
    PROVE  /\ Whole(Destroy(h, m), open, Nil) /\ Less(Destroy(h, m), h)
           /\ Live(Destroy(h, m)) = Live(h) \ {m}
           /\ ToSet(h.dead) \ {m} \subseteq ToSet(Destroy(h, m).dead)
<1> DEFINE g == Destroy(h, m)
           t == Target(h.mods[m].static)
<1>1. /\ h \in Heap /\ Stages(h) /\ Kept(h, open) /\ Nested(h) /\ Tabled(h)
      /\ ToSet(h.dead) = {n \in Live(h) : ~Owned(h, n)} \ {Nil}
  BY DEF Whole, Waiting
<1>2. /\ g \in Heap /\ SameHolders(g, h) /\ Once(g.dead)
      /\ g.mods = [h.mods EXCEPT ![m] = NoModule]
      /\ g.table = [n \in Names |-> IF h.table[n] = m THEN Nil ELSE h.table[n]]
      /\ ToSet(g.dead) = (ToSet(h.dead) \cup (IF t # Nil /\ ~Owned(g, t) THEN {t} ELSE {})) \ {m}
  BY DestroyDoes
<1>3. /\ m \in Live(h) /\ ~Owned(h, m) /\ ~Had(h, m)
      /\ Used(h, m) => ~open /\ m \in Binaries
  BY NobodyUses
<1> HIDE DEF g
<1>4. /\ g.mods[m] = NoModule /\ NoModule.name = Nil
      /\ \A n \in Mods \ {m} : g.mods[n] = h.mods[n]
  BY <1>1, <1>2 DEF Heap, NoModule
<1>5. Live(g) = Live(h) \ {m}
  BY <1>4 DEF Live
<1>6. \A n \in Mods : Adult(g, n) <=> Adult(h, n) /\ n # m
  BY <1>4 DEF Adult
<1>7. ASSUME NEW n, Used(g, n)
      PROVE  Used(h, n)
  BY <1>2, <1>4, <1>5, <1>7 DEF Used, SameHolders, Live
<1>8. ASSUME NEW n, Had(g, n)
      PROVE  Had(h, n)
  BY <1>2, <1>4, <1>5, <1>8 DEF Had, SameHolders, Live
<1>9. ASSUME NEW n, Owned(g, n)
      PROVE  Owned(h, n)
  BY <1>2, <1>4, <1>5, <1>9 DEF Owned, SameHolders, Live
<1>10. ASSUME NEW n \in Mods, Owned(h, n), n # t
       PROVE  Owned(g, n)
  <2>1. h.mods[m].static # Module(n)
    BY <1>10, TargetIs
  <2>2. CASE \E x \in Live(h) : h.mods[x].static = Module(n)
    BY <1>4, <1>5, <2>1, <2>2 DEF Owned, Live
  <2>3. CASE ~\E x \in Live(h) : h.mods[x].static = Module(n)
    BY <1>2, <1>10, <2>3 DEF Owned, SameHolders
  <2> QED
    BY <2>2, <2>3
<1>11. Stages(g)
  <2>1. \A n \in Live(g) : n # m /\ n \in Live(h) /\ n \in Mods /\ g.mods[n] = h.mods[n]
    BY <1>4, <1>5 DEF Live
  <2>2. ASSUME NEW n \in Mods, g.mods[n].name = Nil
        PROVE  g.mods[n] = NoModule
    BY <1>1, <1>4, <2>2 DEF Stages
  <2> QED
    BY <1>1, <1>6, <2>1, <2>2 DEF Stages
<1>12. Kept(g, open)
  <2>1. ASSUME NEW n \in Mods, Used(g, n)
        PROVE  Adult(g, n) \/ (~open /\ n \in Binaries)
    BY <1>1, <1>3, <1>6, <1>7, <2>1 DEF Kept
  <2>2. ASSUME NEW n \in Mods, Had(g, n)
        PROVE  Adult(g, n)
    BY <1>1, <1>3, <1>6, <1>8, <2>2 DEF Kept
  <2>3. ASSUME NEW i \in DOMAIN g.leaked
        PROVE  g.leaked[i].mod \in Live(g)
    BY <1>1, <1>2, <1>3, <1>5 DEF Kept, Owned, SameHolders
  <2> QED
    BY <2>1, <2>2, <2>3 DEF Kept
<1>13. g.frames = h.frames /\ \A i \in DOMAIN h.frames : h.frames[i].mod # m /\ h.frames[i].mod \in Mods
  <2>1. \A i \in DOMAIN h.frames : h.frames[i].mod # m /\ h.frames[i].mod \in Live(h)
    BY <1>1, <1>3 DEF Owned, Nested
  <2> QED
    BY <1>2, <2>1 DEF SameHolders, Live
<1>14. Nested(g)
  <2>1. Importing(g) = Importing(h) /\ Importing(h) \subseteq DOMAIN h.frames
    BY <1>13 DEF Importing
  <2>2. \A i \in DOMAIN h.frames : g.mods[g.frames[i].mod] = h.mods[h.frames[i].mod]
    BY <1>4, <1>13
  <2>3. \A n \in Names : h.table[n] = Nil => g.table[n] = Nil
    BY <1>2
  <2>4. ASSUME NEW i \in DOMAIN g.frames
        PROVE  /\ g.frames[i].mod \in Live(g)
               /\ IF g.frames[i].phase = "init" THEN Adult(g, g.frames[i].mod)
                  ELSE g.mods[g.frames[i].mod].refsum = -1
               /\ g.frames[i].dest = Nil => i > 1 /\ g.frames[i - 1].phase = "import"
    BY <1>1, <1>5, <1>6, <1>13, <2>2 DEF Nested
  <2>5. ASSUME NEW i \in Importing(g), g.mods[g.frames[i].mod].name \in Shared
        PROVE  g.table[g.mods[g.frames[i].mod].name] = Nil
    <3>1. g.mods[g.frames[i].mod].name \in Names
      BY <2>5, ModulesAssumption, NilAssumption
    <3> QED
      BY <1>1, <1>13, <2>1, <2>2, <2>3, <2>5, <3>1 DEF Nested
  <2>6. \A i, j \in Importing(g) :
          i # j => g.mods[g.frames[i].mod].name # g.mods[g.frames[j].mod].name
    BY <1>1, <1>13, <2>1, <2>2 DEF Nested
  <2>7. \A i, j \in DOMAIN g.frames : i # j => g.frames[i].mod # g.frames[j].mod
    BY <1>1, <1>13 DEF Nested
  <2> QED
    BY <2>4, <2>5, <2>6, <2>7 DEF Nested
<1>15. Tabled(g)
  <2>1. ASSUME NEW n \in Names, g.table[n] # Nil
        PROVE  Adult(g, g.table[n]) /\ g.mods[g.table[n]].name = n
    <3>1. g.table[n] = h.table[n] /\ h.table[n] # m /\ h.table[n] # Nil
      BY <1>2, <2>1
    <3>2. h.table[n] \in Mods
      BY <1>1, <3>1 DEF Heap
    <3> QED
      BY <1>1, <1>4, <1>6, <3>1, <3>2 DEF Tabled
  <2>2. ASSUME NEW n \in Mods, Adult(g, n), g.mods[n].name \in Shared
        PROVE  g.table[g.mods[n].name] = n
    <3>1. n # m /\ Adult(h, n) /\ g.mods[n] = h.mods[n] /\ h.mods[n].name \in Names
      BY <1>4, <1>6, <2>2, ModulesAssumption, NilAssumption
    <3>2. h.table[h.mods[n].name] = n
      BY <1>1, <2>2, <3>1 DEF Tabled
    <3> QED
      BY <1>2, <3>1, <3>2
  <2> QED
    BY <2>1, <2>2 DEF Tabled
<1>16. t = Nil \/ (t \in Live(h) /\ t # m /\ t \in Mods)
  <2>1. h.mods[m].static \in Value
    BY <1>1 DEF Heap, Record
  <2>2. ASSUME t # Nil
        PROVE  t \in Mods /\ h.mods[m].static = Module(t)
    BY <2>1, <2>2 DEF Target, Value, Module, Function
  <2>3. t # Nil => Had(h, t) /\ t \in Mods
    BY <1>3, <2>2 DEF Had
  <2>4. t # Nil => Adult(h, t) /\ t # m
    BY <1>1, <1>3, <2>3 DEF Kept
  <2> QED
    BY <2>3, <2>4 DEF Adult, Live
<1> HIDE DEF t
<1>17. ToSet(g.dead) = {n \in Live(g) : ~Owned(g, n)} \ {Nil}
  <2>1. Live(g) \subseteq Mods /\ Nil \notin Mods
    BY ModulesAssumption, NilAssumption DEF Live
  <2>2. ASSUME NEW n \in ToSet(g.dead)
        PROVE  n \in Live(g) /\ ~Owned(g, n)
    BY <1>1, <1>2, <1>5, <1>9, <1>16, <2>2
  <2>3. ASSUME NEW n \in Live(g), ~Owned(g, n)
        PROVE  n \in ToSet(g.dead)
    BY <1>1, <1>2, <1>5, <1>10, <2>1, <2>3
  <2> QED
    BY <2>1, <2>2, <2>3
<1>18. Less(g, h)
  BY <1>2, <1>4 DEF Less
<1>19. ToSet(h.dead) \ {m} \subseteq ToSet(g.dead)
  BY <1>2
<1> QED
  BY <1>2, <1>5, <1>11, <1>12, <1>14, <1>15, <1>17, <1>18, <1>19 DEF Whole, Waiting, g

\* The collector tries the modules of the list it found, one by one.
LEMMA CleanRuns ==
    ASSUME NEW h, h.dead \in Seq(Mods), ~(h.lock > 0), NEW J, h \in J[0],
           \A n \in 1 .. Len(h.dead) : \A k \in J[n - 1] : TryDestroy(k, h.dead[n]) \in J[n]
    PROVE  Clean(h) \in J[Len(h.dead)]
<1> DEFINE N == Len(h.dead)
           after[n \in 0 .. N] == IF n = 0 THEN h ELSE TryDestroy(after[n - 1], h.dead[n])
           turn == [n \in 1 .. N |-> [k \in J[n - 1] |-> TryDestroy(k, h.dead[n])]]
<1>1. N \in Nat
  BY LenProperties
<1>2. Clean(h) = after[N]
  BY DEF Clean
<1>3. /\ \A n \in 1 .. N : turn[n] \in [J[n - 1] -> J[n]]
      /\ \A n \in 1 .. N : \A k \in J[n - 1] : turn[n][k] = TryDestroy(k, h.dead[n])
  OBVIOUS
<1> HIDE DEF N, after, turn
<1>4. PICK f : IsLoop(f, turn, J, h, N)
  BY <1>1, <1>3, LoopRuns
<1>5. f = [n \in 0 .. N |-> IF n = 0 THEN h ELSE TryDestroy(f[n - 1], h.dead[n])]
  <2>1. ASSUME NEW n \in 0 .. N
        PROVE  (IF n = 0 THEN h ELSE turn[n][f[n - 1]]) =
               (IF n = 0 THEN h ELSE TryDestroy(f[n - 1], h.dead[n]))
    <3>1. CASE n = 0
      BY <3>1
    <3>2. CASE n # 0
      <4>1. n \in 1 .. N /\ n - 1 \in 0 .. N /\ f[n - 1] \in J[n - 1]
        BY <1>1, <1>4, <3>2 DEF IsLoop
      <4> QED
        BY <1>3, <3>2, <4>1
    <3> QED
      BY <3>1, <3>2
  <2> QED
    BY <1>4, <2>1 DEF IsLoop
<1>6. after = [n \in 0 .. N |-> IF n = 0 THEN h ELSE TryDestroy(after[n - 1], h.dead[n])]
  BY <1>5 DEF after
<1>7. \A n \in 0 .. N : after[n] = IF n = 0 THEN h ELSE TryDestroy(after[n - 1], h.dead[n])
  BY <1>6
<1>8. after[0] \in J[0]
  BY <1>1, <1>7
<1>9. ASSUME NEW n \in 1 .. N, after[n - 1] \in J[n - 1]
      PROVE  after[n] \in J[n]
  <2>1. after[n] = TryDestroy(after[n - 1], h.dead[n])
    BY <1>1, <1>7
  <2> QED
    BY <1>9, <2>1 DEF N
<1>10. after[N] \in J[N]
  BY <1>1, <1>8, <1>9, LoopKeeps
<1> QED
  BY <1>2, <1>10 DEF N

LEMMA LessAndLess ==
    ASSUME NEW f, NEW g, NEW h, Less(f, g), Less(g, h)
    PROVE  Less(f, h)
  BY DEF Less, SameHolders

\* eel_clean_modules: the rest stays whole; if nothing was destroyed, nothing
\* could be, and the other way round.
LEMMA CleanKeeps ==
    ASSUME NEW h, Whole(h, phase = "open", Nil)
    PROVE  /\ Whole(Clean(h), phase = "open", Nil) /\ Less(Clean(h), h)
           /\ Live(Clean(h)) \subseteq Live(h)
           /\ ~(h.lock > 0) /\ Live(Clean(h)) = Live(h) =>
                 Clean(h) = h /\ \A m \in ToSet(h.dead) : Refuses(h, m)
           /\ (\A m \in ToSet(h.dead) : Refuses(h, m)) => Clean(h) = h
<1> DEFINE open == phase = "open"
           N == Len(h.dead)
           stuck(n) == \A i \in 1 .. n : Refuses(h, h.dead[i])
           step(n) == {k \in Heap :
                /\ Whole(k, open, Nil) /\ Less(k, h) /\ Live(k) \subseteq Live(h)
                /\ \A i \in n + 1 .. N : h.dead[i] \in ToSet(k.dead)
                /\ Live(k) = Live(h) => k = h /\ stuck(n)
                /\ (\A m \in ToSet(h.dead) : Refuses(h, m)) => k = h}
           J == [n \in 0 .. N |-> step(n)]
<1>1. h \in Heap /\ h.dead \in Seq(Mods) /\ Once(h.dead)
  BY DEF Whole, Waiting, Heap
<1>2. N \in Nat /\ DOMAIN h.dead = 1 .. N /\ \A i \in 1 .. N : h.dead[i] \in Mods
  BY <1>1, LenProperties, ElementOfSeq
<1>3. ToSet(h.dead) = {h.dead[i] : i \in 1 .. N}
  BY <1>2 DEF ToSet
<1> HIDE DEF N
<1>4. CASE h.lock > 0
  BY <1>4 DEF Clean, Less, SameHolders
<1>5. CASE ~(h.lock > 0)
  <2>1. h \in step(0)
    BY <1>1, <1>2, <1>3 DEF Less, SameHolders
  <2>2. ASSUME NEW n \in 1 .. N, NEW k \in step(n - 1)
        PROVE  TryDestroy(k, h.dead[n]) \in step(n)
    <3> DEFINE m == h.dead[n]
    <3>1. /\ k \in Heap /\ Whole(k, open, Nil) /\ Less(k, h) /\ Live(k) \subseteq Live(h)
          /\ \A i \in n .. N : h.dead[i] \in ToSet(k.dead)
          /\ Live(k) = Live(h) => k = h /\ stuck(n - 1)
          /\ (\A x \in ToSet(h.dead) : Refuses(h, x)) => k = h
      <4>1. n - 1 + 1 = n
        OBVIOUS
      <4> QED
        BY <4>1
    <3>2. m \in Mods /\ m \in ToSet(k.dead) /\ m \in ToSet(h.dead)
      BY <1>2, <1>3, <3>1
    <3>3. \A i \in n + 1 .. N : i \in n .. N /\ h.dead[i] # m
      BY <1>1, <1>2 DEF Once
    <3> HIDE DEF m
    <3>4. CASE Refuses(k, m)
      <4>1. TryDestroy(k, m) = k
        BY <3>4 DEF TryDestroy
      <4>2. Live(k) = Live(h) => stuck(n)
        <5>1. Live(k) = Live(h) => \A i \in 1 .. n : i \in 1 .. n - 1 \/ h.dead[i] = m
          BY DEF m
        <5> QED
          BY <3>1, <3>4, <5>1
      <4> HIDE DEF stuck
      <4>3. k \in step(n)
        BY <3>1, <3>3, <4>2
      <4> QED
        BY <4>1, <4>3 DEF m
    <3>5. CASE ~Refuses(k, m)
      <4> DEFINE g == Destroy(k, m)
      <4>1. TryDestroy(k, m) = g
        BY <3>5 DEF TryDestroy
      <4>2. ~(open /\ m \in Binaries) /\ ~Busy(k, m)
        BY <3>5 DEF Refuses, Busy
      <4> HIDE DEF open
      <4>3. /\ Whole(g, open, Nil) /\ Less(g, k) /\ Live(g) = Live(k) \ {m}
            /\ ToSet(k.dead) \ {m} \subseteq ToSet(g.dead)
        BY <3>1, <3>2, <4>2, DestroyKeeps
      <4>4. m \in Live(k)
        BY <3>1, <3>2 DEF Whole, Waiting
      <4> HIDE DEF g, stuck
      <4>5. g \in Heap /\ Less(g, h)
        BY <3>1, <4>3, LessAndLess DEF Whole
      <4>6. Live(g) # Live(h) /\ Live(g) \subseteq Live(h)
        BY <3>1, <4>3, <4>4
      <4>7. ~\A x \in ToSet(h.dead) : Refuses(h, x)
        BY <3>1, <3>2, <3>5
      <4>8. \A i \in n + 1 .. N : h.dead[i] \in ToSet(g.dead)
        BY <3>1, <3>3, <4>3
      <4>9. g \in step(n)
        BY <4>3, <4>5, <4>6, <4>7, <4>8
      <4> QED
        BY <4>1, <4>9 DEF m
    <3> QED
      BY <3>4, <3>5
  <2>3. \A n \in 0 .. N : J[n] = step(n)
    OBVIOUS
  <2> HIDE DEF step, J
  <2>4. h \in J[0] /\ \A n \in 1 .. N : \A k \in J[n - 1] : TryDestroy(k, h.dead[n]) \in J[n]
    <3>1. \A n \in 1 .. N : n \in 0 .. N /\ n - 1 \in 0 .. N
      BY <1>2
    <3> QED
      BY <1>2, <2>1, <2>2, <2>3, <3>1
  <2>5. Clean(h) \in J[N]
    BY <1>1, <1>5, <2>4, CleanRuns DEF N
  <2>6. Clean(h) \in step(N)
    BY <1>2, <2>3, <2>5
  <2> QED
    BY <1>3, <2>6 DEF step
<1> QED
  BY <1>4, <1>5

LEMMA ReleaseLess ==
    ASSUME NEW h \in Heap, Once(h.dead), NEW v \in Value
    PROVE  Less(Release(h, v), h)
  BY ReleaseDoes DEF Less

\* m_destruct: what a module loses with an owner, and then the collector.
LEMMA DisownKeeps ==
    ASSUME NEW h, NEW v \in Value, Whole(h, phase = "open", Target(v)),
           Target(v) \in Live(h) \cup {Nil}
    PROVE  Whole(Disown(h, v), phase = "open", Nil) /\ Less(Disown(h, v), h)
<1> DEFINE open == phase = "open"
           k == Release(h, v)
<1>1. h \in Heap /\ Once(h.dead)
  BY DEF Whole, Waiting
<1>2. Whole(k, open, Nil)
  BY ReleaseKeeps
<1>3. Less(k, h)
  BY <1>1, ReleaseLess
<1>4. CASE Dropped(h, v)
  <2>1. Disown(h, v) = Clean(k)
    BY <1>4 DEF Disown
  <2> HIDE DEF k
  <2>2. Whole(Clean(k), open, Nil) /\ Less(Clean(k), k)
    BY <1>2, CleanKeeps
  <2> QED
    BY <1>3, <2>1, <2>2, LessAndLess
<1>5. CASE ~Dropped(h, v)
  <2>1. Disown(h, v) = h /\ k = h
    BY <1>5 DEF Disown, Release
  <2> QED
    BY <1>2, <1>3, <2>1
<1> QED
  BY <1>4, <1>5

\* eel_unlock_modules.
LEMMA UnlockKeeps ==
    ASSUME NEW h, Whole(h, phase = "open", Nil), h.lock > 0
    PROVE  /\ Whole(Unlock(h), phase = "open", Nil)
           /\ Less(Unlock(h), [h EXCEPT !.lock = @ - 1])
<1> DEFINE open == phase = "open"
           k == [h EXCEPT !.lock = @ - 1]
<1>1. h \in Heap
  BY DEF Whole
<1>2. /\ k \in Heap /\ k.mods = h.mods /\ k.table = h.table /\ k.dead = h.dead
      /\ k.vars = h.vars /\ k.frames = h.frames /\ k.leaked = h.leaked /\ k.lost = h.lost
  <2>1. h.lock - 1 \in Nat
    BY <1>1 DEF Heap
  <2>2. [h EXCEPT !.lock = h.lock - 1] \in Heap
    BY <1>1, <2>1 DEF Heap
  <2>3. k = [h EXCEPT !.lock = h.lock - 1]
    OBVIOUS
  <2> QED
    BY <1>1, <2>2, <2>3 DEF Heap
<1>3. Unlock(h) = Clean(k)
  BY DEF Unlock
<1> HIDE DEF k
<1>4. Live(k) = Live(h) /\ \A m : Adult(k, m) <=> Adult(h, m)
  BY <1>2, SameModules
<1>5. /\ Importing(k) = Importing(h)
      /\ \A m : (Used(k, m) <=> Used(h, m)) /\ (Had(k, m) <=> Had(h, m)) /\ (Owned(k, m) <=> Owned(h, m))
  BY <1>2, <1>4 DEF Importing, Used, Had, Owned
<1>6. Stages(k)
  BY <1>2, <1>4 DEF Stages, Whole
<1>7. Kept(k, open)
  BY <1>2, <1>4, <1>5 DEF Kept, Whole
<1>8. Nested(k)
  BY <1>2, <1>4, <1>5, SMTT(30) DEF Nested, Whole
<1>9. Tabled(k)
  BY <1>2, <1>4 DEF Tabled, Whole
<1>10. Waiting(k, Nil)
  <2>1. ToSet(h.dead) = {n \in Live(h) : ~Owned(h, n)} \ {Nil} /\ Once(h.dead)
    BY DEF Waiting, Whole
  <2> QED
    BY <1>2, <1>4, <1>5, <2>1 DEF Waiting
<1>11. Whole(k, open, Nil)
  BY <1>2, <1>6, <1>7, <1>8, <1>9, <1>10 DEF Whole
<1> QED
  BY <1>3, <1>11, CleanKeeps DEF k

-----------------------------------------------------------------------------
(* References that come and go. *)

\* The loads in progress are the same, except that the last one may have
\* failed, taken the next import, and got other functions.
SameLoads(k, h) ==
    /\ DOMAIN k.frames = DOMAIN h.frames
    /\ \A i \in DOMAIN h.frames :
          /\ k.frames[i].mod = h.frames[i].mod /\ k.frames[i].dest = h.frames[i].dest
          /\ k.frames[i].phase = "init" <=> h.frames[i].phase = "init"
          /\ k.frames[i].phase = h.frames[i].phase \/ (i = Len(h.frames) /\ k.frames[i].phase = "fail")

LEMMA ReferencesMove ==
    ASSUME NEW h, NEW k \in Heap, NEW open, NEW y, NEW z, Whole(h, open, y),
           \A n \in Mods : /\ k.mods[n].name = h.mods[n].name
                           /\ k.mods[n].refsum = h.mods[n].refsum
                           /\ Adult(k, n) <=> Adult(h, n),
           Stages(k), k.table = h.table, k.dead = h.dead, SameLoads(k, h),
           \A n \in Mods : Used(k, n) => Used(h, n) \/ Adult(h, n),
           \A n \in Mods : Had(k, n) => Had(h, n) \/ Adult(h, n),
           \A i \in DOMAIN k.leaked : k.leaked[i].mod \in Live(h),
           ToSet(h.dead) = {n \in Live(h) : ~Owned(k, n)} \ {z}
    PROVE  Whole(k, open, z) /\ Live(k) = Live(h)
<1>1. Live(k) = Live(h)
  BY DEF Live
<1>2. h \in Heap /\ Kept(h, open) /\ Nested(h) /\ Tabled(h) /\ Waiting(h, y)
  BY DEF Whole
<1>3. Kept(k, open)
  BY <1>1, <1>2 DEF Kept
<1>4. Nested(k)
  <2>1. Importing(k) = Importing(h) /\ Importing(h) \subseteq DOMAIN h.frames
    BY DEF Importing, SameLoads
  <2>2. DOMAIN h.frames = 1 .. Len(h.frames) /\ Len(h.frames) \in Nat
    BY <1>2, LenProperties DEF Heap
  <2>3. \A i \in DOMAIN h.frames : k.frames[i].mod = h.frames[i].mod /\ h.frames[i].mod \in Live(h)
                                  /\ h.frames[i].mod \in Mods
    BY <1>2 DEF SameLoads, Nested, Live
  <2>4. ASSUME NEW i \in DOMAIN k.frames, k.frames[i].dest = Nil
        PROVE  i > 1 /\ k.frames[i - 1].phase = "import"
    <3>1. i \in DOMAIN h.frames /\ h.frames[i].dest = Nil
      BY <2>4 DEF SameLoads
    <3>2. i > 1 /\ h.frames[i - 1].phase = "import"
      BY <1>2, <3>1 DEF Nested
    <3>3. i - 1 \in DOMAIN h.frames /\ i - 1 # Len(h.frames)
      BY <2>2, <3>1, <3>2
    <3> QED
      BY <3>2, <3>3 DEF SameLoads
  <2>5. ASSUME NEW i \in DOMAIN k.frames
        PROVE  /\ k.frames[i].mod \in Live(k)
               /\ IF k.frames[i].phase = "init" THEN Adult(k, k.frames[i].mod)
                  ELSE k.mods[k.frames[i].mod].refsum = -1
    <3>1. i \in DOMAIN h.frames /\ k.frames[i].phase = "init" <=> h.frames[i].phase = "init"
      BY DEF SameLoads
    <3> QED
      BY <1>1, <1>2, <2>3, <3>1 DEF Nested, SameLoads
  <2>6. \A i, j \in DOMAIN k.frames : i # j => k.frames[i].mod # k.frames[j].mod
    BY <1>2, <2>3 DEF Nested, SameLoads
  <2>7. \A i \in Importing(h) : k.mods[k.frames[i].mod].name = h.mods[h.frames[i].mod].name
    BY <2>1, <2>3
  <2>8. /\ \A i, j \in Importing(k) :
             i # j => k.mods[k.frames[i].mod].name # k.mods[k.frames[j].mod].name
        /\ \A i \in Importing(k) : k.mods[k.frames[i].mod].name \in Shared =>
             k.table[k.mods[k.frames[i].mod].name] = Nil
    BY <1>2, <2>1, <2>7, SMTT(30) DEF Nested
  <2> QED
    BY <2>4, <2>5, <2>6, <2>8 DEF Nested
<1>5. Tabled(k)
  <2>1. \A n \in Names : h.table[n] # Nil => h.table[n] \in Mods
    BY <1>2 DEF Heap
  <2> QED
    BY <1>2, <2>1 DEF Tabled
<1>6. Waiting(k, z)
  BY <1>1, <1>2 DEF Waiting
<1> QED
  BY <1>1, <1>3, <1>4, <1>5, <1>6 DEF Whole

\* What a step does not do to the loads in progress: none begins or ends, but
\* one may fail, and no module is given up without that.
Steady(g, h) ==
    /\ g.lock = h.lock /\ g.leaked = h.leaked
    /\ DOMAIN g.frames = DOMAIN h.frames
    /\ \A i \in DOMAIN h.frames :
          /\ g.frames[i].mod = h.frames[i].mod
          /\ g.frames[i].phase = "init" <=> h.frames[i].phase = "init"
          /\ h.frames[i].phase = "fail" => g.frames[i].phase = "fail"
    /\ g.lost = h.lost \/ \E i \in DOMAIN g.frames : g.frames[i].phase = "fail"
    /\ \A n \in Mods : g.mods[n].name # Nil /\ g.mods[n].refsum = -1 =>
          h.mods[n].name # Nil /\ h.mods[n].refsum = -1

LEMMA LessSteady ==
    ASSUME NEW g, NEW h, Less(g, h)
    PROVE  Steady(g, h)
  BY DEF Less, SameHolders, Steady, NoModule

LEMMA SteadySteady ==
    ASSUME NEW f, NEW g, NEW h, Steady(f, g), Steady(g, h)
    PROVE  Steady(f, h)
<1>1. f.lost = h.lost \/ \E i \in DOMAIN f.frames : f.frames[i].phase = "fail"
  BY DEF Steady
<1> QED
  BY <1>1 DEF Steady

LEMMA SteadyKeeps ==
    ASSUME NEW g, NEW h, Steady(g, h)
    PROVE  /\ Importing(g) = Importing(h) /\ g.lock = h.lock
           /\ Unbroken(h) => Unbroken(g)
<1>1. Importing(g) = Importing(h)
  BY DEF Importing, Steady
<1>2. ASSUME Unbroken(h)
      PROVE  Unbroken(g)
  <2>1. g.lost # {} => \E i \in DOMAIN g.frames : g.frames[i].phase = "fail"
    BY <1>2 DEF Steady, Unbroken
  <2>2. ASSUME NEW m \in Live(g), g.mods[m].refsum = -1
        PROVE  \E i \in DOMAIN g.frames : g.frames[i].mod = m
    BY <1>2, <2>2 DEF Steady, Unbroken, Live
  <2> QED
    BY <1>2, <2>1, <2>2 DEF Steady, Unbroken
<1> QED
  BY <1>1, <1>2 DEF Steady

\* eel_get_loaded_module: what is loaded waits no longer.
LEMMA GetLoadedKeeps ==
    ASSUME NEW h, NEW open, NEW m \in Mods, Whole(h, open, Nil)
    PROVE  LET g == GetLoaded(h, m)
           IN  /\ Whole(g, open, m) /\ Less(g, h) /\ g.mods = h.mods /\ g.frames = h.frames
               /\ Adult(g, m) <=> Adult(h, m)
<1> DEFINE g == GetLoaded(h, m)
<1>1. /\ h \in Heap /\ Once(h.dead) /\ Stages(h) /\ Kept(h, open) /\ Nested(h) /\ Tabled(h)
      /\ ToSet(h.dead) = {n \in Live(h) : ~Owned(h, n)} \ {Nil}
  BY DEF Whole, Waiting
<1>2. Nil \notin Live(h)
  BY ModulesAssumption, NilAssumption DEF Live
<1>3. CASE Owned(h, m)
  <2>1. g = h
    BY <1>3 DEF GetLoaded
  <2>2. ToSet(h.dead) = {n \in Live(h) : ~Owned(h, n)} \ {m}
    BY <1>1, <1>2, <1>3
  <2> QED
    BY <1>1, <2>1, <2>2 DEF Whole, Waiting, Less, SameHolders
<1>4. CASE ~Owned(h, m)
  <2>1. g = Unlink(h, m)
    BY <1>4 DEF GetLoaded
  <2> HIDE DEF g
  <2>2. /\ g \in Heap /\ SameHolders(g, h) /\ g.mods = h.mods /\ g.table = h.table
        /\ Once(g.dead) /\ ToSet(g.dead) = ToSet(h.dead) \ {m}
    BY <1>1, <2>1, UnlinkDoes
  <2>3. Live(g) = Live(h) /\ \A n : (Owned(g, n) <=> Owned(h, n)) /\ (Adult(g, n) <=> Adult(h, n))
    BY <2>2, SameModules, SameReferences
  <2>4. Stages(g) /\ Kept(g, open) /\ Nested(g) /\ Tabled(g)
    BY <1>1, <2>2, SameBooks
  <2>5. ToSet(g.dead) = {n \in Live(g) : ~Owned(g, n)} \ {m}
    BY <1>1, <1>2, <2>2, <2>3
  <2>6. Less(g, h) /\ g.frames = h.frames
    BY <2>2 DEF Less, SameHolders
  <2> QED
    BY <2>2, <2>3, <2>4, <2>5, <2>6 DEF Whole, Waiting, g
<1> QED
  BY <1>3, <1>4

LEMMA EditFrame ==
    ASSUME NEW h \in Heap, NEW i \in DOMAIN h.frames, NEW f \in Loading
    PROVE  LET fs == [h.frames EXCEPT ![i] = f]
           IN  /\ fs \in Seq(Loading) /\ DOMAIN fs = DOMAIN h.frames /\ Len(fs) = Len(h.frames)
               /\ fs[i] = f /\ \A j \in DOMAIN h.frames \ {i} : fs[j] = h.frames[j]
<1>1. h.frames \in Seq(Loading)
  BY DEF Heap
<1> QED
  BY <1>1

\* The last frame of a stack that is not empty.
LEMMA TopFrame ==
    ASSUME NEW h \in Heap, h.frames # << >>
    PROVE  /\ Len(h.frames) \in DOMAIN h.frames /\ Len(h.frames) \in Nat
           /\ DOMAIN h.frames = 1 .. Len(h.frames)
           /\ Top(h) = h.frames[Len(h.frames)] /\ Top(h) \in Loading
<1>1. h.frames \in Seq(Loading)
  BY DEF Heap
<1>2. Len(h.frames) \in 1 .. Len(h.frames)
  BY <1>1, EmptySeq, LenProperties
<1> QED
  BY <1>1, <1>2, LenProperties, ElementOfSeq DEF Top, Last

\* A compilation fails.
LEMMA FailKeeps ==
    ASSUME NEW h, NEW open, NEW z, Whole(h, open, z), NEW dest,
           dest = Nil => h.frames # << >> /\ Top(h).phase # "init"
    PROVE  Whole(Failed(h, dest), open, z) /\ Steady(Failed(h, dest), h)
<1> DEFINE i == Len(h.frames)
           k == Failed(h, dest)
           f == [h.frames[i] EXCEPT !.phase = "fail"]
           fs == [h.frames EXCEPT ![i] = f]
<1>1. h \in Heap /\ Stages(h) /\ Kept(h, open) /\ ToSet(h.dead) = {n \in Live(h) : ~Owned(h, n)} \ {z}
  BY DEF Whole, Waiting
<1>2. CASE dest # Nil
  BY <1>2 DEF Failed, Steady
<1>3. CASE dest = Nil
  <2>1. i \in DOMAIN h.frames /\ Top(h) = h.frames[i] /\ h.frames[i] \in Loading
    BY <1>1, <1>3, TopFrame
  <2>2. /\ f \in Loading /\ f.mod = h.frames[i].mod /\ f.dest = h.frames[i].dest
        /\ f.symbols = h.frames[i].symbols /\ f.phase = "fail"
    BY <2>1 DEF Loading
  <2>3. k = [h EXCEPT !.frames = fs]
    BY <1>3 DEF Failed
  <2> HIDE DEF f
  <2>4. /\ fs \in Seq(Loading) /\ DOMAIN fs = DOMAIN h.frames
        /\ fs[i] = f /\ \A j \in DOMAIN h.frames \ {i} : fs[j] = h.frames[j]
    BY <1>1, <2>1, <2>2, EditFrame
  <2> HIDE DEF fs
  <2>5. /\ k \in Heap /\ k.frames = fs /\ k.mods = h.mods /\ k.table = h.table /\ k.dead = h.dead
        /\ k.vars = h.vars /\ k.leaked = h.leaked /\ k.lost = h.lost /\ k.lock = h.lock
    BY <1>1, <2>3, <2>4 DEF Heap
  <2> HIDE DEF k
  <2>6. \A j \in DOMAIN h.frames : /\ k.frames[j].mod = h.frames[j].mod
                                   /\ k.frames[j].symbols = h.frames[j].symbols
                                   /\ k.frames[j].dest = h.frames[j].dest
                                   /\ k.frames[j].phase = "init" <=> h.frames[j].phase = "init"
                                   /\ k.frames[j].phase = h.frames[j].phase \/ (j = i /\ k.frames[j].phase = "fail")
    BY <1>3, <2>1, <2>2, <2>4, <2>5
  <2>7. Live(k) = Live(h) /\ \A n : Adult(k, n) <=> Adult(h, n)
    BY <2>5, SameModules
  <2>8. \A n : (Used(k, n) <=> Used(h, n)) /\ (Had(k, n) <=> Had(h, n)) /\ (Owned(k, n) <=> Owned(h, n))
    BY <2>4, <2>5, <2>6, <2>7 DEF Used, Had, Owned
  <2>9. Stages(k)
    BY <1>1, <2>5, <2>7 DEF Stages
  <2>10. SameLoads(k, h)
    BY <2>4, <2>5, <2>6 DEF SameLoads
  <2>11. \A j \in DOMAIN k.leaked : k.leaked[j].mod \in Live(h)
    BY <1>1, <2>5 DEF Kept
  <2>12. ToSet(h.dead) = {n \in Live(h) : ~Owned(k, n)} \ {z}
    BY <1>1, <2>8
  <2>13. \A n \in Mods : k.mods[n].name = h.mods[n].name /\ k.mods[n].refsum = h.mods[n].refsum
    BY <2>5
  <2>14. Whole(k, open, z)
    BY <2>5, <2>7, <2>8, <2>9, <2>10, <2>11, <2>12, <2>13, ReferencesMove
  <2>15. Steady(k, h)
    BY <2>4, <2>5, <2>6 DEF Steady
  <2> QED
    BY <2>14, <2>15 DEF k
<1> QED
  BY <1>2, <1>3

\* A value that exists and does not wait, in place of one in a variable.
LEMMA StoreKeeps ==
    ASSUME NEW h, NEW open, NEW y, Whole(h, open, y), NEW v \in Vars, NEW x \in Value,
           x # Nil => Adult(h, x.of),
           Target(x) \notin ToSet(h.dead), y = Nil \/ y = Target(x)
    PROVE  LET k == [h EXCEPT !.vars[v] = x]
               t == Target(h.vars[v])
           IN  Whole(k, open, t) /\ t \in Live(k) \cup {Nil} /\ Steady(k, h) /\ h.vars[v] \in Value
<1> DEFINE k == [h EXCEPT !.vars[v] = x]
           old == h.vars[v]
           t == Target(old)
<1>1. /\ h \in Heap /\ Stages(h) /\ Kept(h, open)
      /\ ToSet(h.dead) = {n \in Live(h) : ~Owned(h, n)} \ {y}
  BY DEF Whole, Waiting
<1>2. /\ k \in Heap /\ k.mods = h.mods /\ k.table = h.table /\ k.dead = h.dead /\ k.lock = h.lock
      /\ k.frames = h.frames /\ k.leaked = h.leaked /\ k.lost = h.lost
      /\ k.vars[v] = x /\ \A w \in Vars \ {v} : k.vars[w] = h.vars[w]
  BY <1>1 DEF Heap
<1>3. old \in Value
  BY <1>1 DEF Heap
<1> HIDE DEF k, old
<1>4. t \in Mods \cup {Nil} /\ (t # Nil => old = Module(t))
  <2>1. /\ Target(old) \in Mods \cup {Nil}
        /\ Target(old) # Nil => old = Module(Target(old))
    BY <1>3, TargetIs
  <2> QED
    BY <2>1
<1>5. Live(k) = Live(h) /\ \A n : Adult(k, n) <=> Adult(h, n)
  BY <1>2, SameModules
<1>6. x # Nil => \A n : x = Module(n) \/ x = Function(n) => Adult(h, n)
  BY DEF Module, Function
<1>7. \A n \in Mods : Module(n) # Nil /\ Function(n) # Nil
  BY NilAssumption
<1>8. \A n \in Mods : Used(k, n) => Used(h, n) \/ Adult(h, n)
  BY <1>2, <1>5, <1>6, <1>7 DEF Used
<1>9. \A n \in Mods : Had(k, n) => Had(h, n) \/ Adult(h, n)
  BY <1>2, <1>5, <1>6, <1>7 DEF Had
<1>10. ASSUME NEW n \in Mods, n # t
       PROVE  Owned(k, n) <=> Owned(h, n) \/ x = Module(n)
  <2>1. old # Module(n)
    BY <1>4, <1>10, TargetIs
  <2>2. (\E w \in Vars : k.vars[w] = Module(n)) <=> (\E w \in Vars : h.vars[w] = Module(n)) \/ x = Module(n)
    BY <1>2, <2>1 DEF old
  <2> QED
    BY <1>2, <1>5, <2>2 DEF Owned
<1>11. t # Nil => Owned(h, t) /\ t \in Live(h)
  <2>1. t # Nil => t \in Mods /\ h.vars[v] = Module(t)
    BY <1>4 DEF old
  <2> HIDE DEF t
  <2>2. t # Nil => Had(h, t)
    BY <2>1 DEF Had
  <2> QED
    BY <1>1, <2>1, <2>2 DEF Kept, Adult, Live, Had, Owned
<1>12. ToSet(h.dead) = {n \in Live(h) : ~Owned(k, n)} \ {t}
  <2>1. Live(h) \subseteq Mods /\ Nil \notin Mods
    BY ModulesAssumption, NilAssumption DEF Live
  <2>2. \A n \in Mods : x = Module(n) <=> Target(x) = n
    BY <2>1, TargetIs
  <2>3. ASSUME NEW n \in ToSet(h.dead)
        PROVE  n \in Live(h) /\ ~Owned(k, n) /\ n # t
    BY <1>1, <1>10, <1>11, <2>1, <2>2, <2>3
  <2>4. ASSUME NEW n \in Live(h), ~Owned(k, n), n # t
        PROVE  n \in ToSet(h.dead)
    BY <1>1, <1>10, <2>1, <2>2, <2>4
  <2> QED
    BY <2>3, <2>4
<1>13. SameLoads(k, h) /\ Steady(k, h)
  BY <1>2 DEF SameLoads, Steady
<1>14. Stages(k)
  BY <1>1, <1>2, <1>5 DEF Stages
<1>15. \A i \in DOMAIN k.leaked : k.leaked[i].mod \in Live(h)
  BY <1>1, <1>2 DEF Kept
<1>16. \A n \in Mods : k.mods[n].name = h.mods[n].name /\ k.mods[n].refsum = h.mods[n].refsum
  BY <1>2
<1>17. Whole(k, open, t)
  BY <1>2, <1>5, <1>8, <1>9, <1>12, <1>13, <1>14, <1>15, <1>16, ReferencesMove
<1> QED
  BY <1>3, <1>5, <1>11, <1>13, <1>17 DEF k, old

\* The same for the static variable of a module.
LEMMA StaticKeeps ==
    ASSUME NEW h, NEW open, Whole(h, open, Nil), NEW f \in Live(h), NEW x \in Value,
           x # Nil => Adult(h, x.of), Target(x) \notin ToSet(h.dead)
    PROVE  LET k == [h EXCEPT !.mods[f].static = x]
               t == Target(h.mods[f].static)
           IN  /\ Whole(k, open, t) /\ t \in Live(k) \cup {Nil} /\ Steady(k, h)
               /\ h.mods[f].static \in Value
<1> DEFINE k == [h EXCEPT !.mods[f].static = x]
           r == [h.mods[f] EXCEPT !.static = x]
           old == h.mods[f].static
           t == Target(old)
<1>1. /\ h \in Heap /\ Stages(h) /\ Kept(h, open)
      /\ ToSet(h.dead) = {n \in Live(h) : ~Owned(h, n)} \ {Nil}
  BY DEF Whole, Waiting
<1>2. f \in Mods /\ h.mods[f] \in Record /\ h.mods[f].name # Nil
  BY <1>1 DEF Heap, Live
<1>3. /\ old \in Value /\ r \in Record /\ r.static = x /\ r.name = h.mods[f].name
      /\ r.refsum = h.mods[f].refsum /\ r.uses = h.mods[f].uses /\ r.exports = h.mods[f].exports
  BY <1>2 DEF Record
<1> HIDE DEF r
<1>4. /\ k \in Heap /\ k.vars = h.vars /\ k.table = h.table /\ k.dead = h.dead /\ k.lock = h.lock
      /\ k.frames = h.frames /\ k.leaked = h.leaked /\ k.lost = h.lost
      /\ k.mods[f] = r /\ \A n \in Mods \ {f} : k.mods[n] = h.mods[n]
  <2>1. k = [h EXCEPT !.mods[f] = r]
    BY DEF r
  <2> QED
    BY <1>1, <1>2, <1>3, <2>1 DEF Heap
<1> HIDE DEF k, old
<1>5. \A n \in Mods : /\ k.mods[n].name = h.mods[n].name /\ k.mods[n].refsum = h.mods[n].refsum
                      /\ k.mods[n].uses = h.mods[n].uses /\ k.mods[n].exports = h.mods[n].exports
  BY <1>3, <1>4
<1>6. Live(k) = Live(h)
  BY <1>5 DEF Live
<1>7. \A n \in Mods : Adult(k, n) <=> Adult(h, n)
  BY <1>5 DEF Adult
<1>8. t \in Mods \cup {Nil} /\ (t # Nil => old = Module(t))
  <2>1. /\ Target(old) \in Mods \cup {Nil}
        /\ Target(old) # Nil => old = Module(Target(old))
    BY <1>3, TargetIs
  <2> QED
    BY <2>1
<1>9. x # Nil => \A n : x = Module(n) \/ x = Function(n) => Adult(h, n)
  BY DEF Module, Function
<1>10. \A n \in Mods : Module(n) # Nil /\ Function(n) # Nil
  BY NilAssumption
<1>11. Live(h) \subseteq Mods /\ Nil \notin Mods
  BY ModulesAssumption, NilAssumption DEF Live
<1>12. \A n \in Live(h) : k.mods[n].static = IF n = f THEN x ELSE h.mods[n].static
  BY <1>3, <1>4, <1>11
<1>13. \A n \in Mods : Used(k, n) => Used(h, n) \/ Adult(h, n)
  BY <1>4, <1>5, <1>6, <1>9, <1>10, <1>11, <1>12 DEF Used
<1>14. \A n \in Mods : Had(k, n) => Had(h, n) \/ Adult(h, n)
  BY <1>4, <1>6, <1>9, <1>10, <1>11, <1>12 DEF Had
<1>15. ASSUME NEW n \in Mods, n # t
       PROVE  Owned(k, n) <=> Owned(h, n) \/ x = Module(n)
  <2>1. old # Module(n)
    BY <1>8, <1>15, TargetIs
  <2>2. (\E w \in Live(k) : k.mods[w].static = Module(n)) <=>
           (\E w \in Live(h) : h.mods[w].static = Module(n)) \/ x = Module(n)
    BY <1>6, <1>12, <2>1 DEF old
  <2> QED
    BY <1>4, <2>2 DEF Owned
<1>16. t # Nil => Owned(h, t) /\ t \in Live(h)
  <2>1. t # Nil => t \in Mods /\ h.mods[f].static = Module(t)
    BY <1>8 DEF old
  <2> HIDE DEF t
  <2>2. t # Nil => Had(h, t)
    BY <2>1 DEF Had
  <2> QED
    BY <1>1, <2>1, <2>2 DEF Kept, Adult, Live, Had, Owned
<1>17. ToSet(h.dead) = {n \in Live(h) : ~Owned(k, n)} \ {t}
  <2>1. \A n \in Mods : x = Module(n) <=> Target(x) = n
    BY <1>11, TargetIs
  <2>2. ASSUME NEW n \in ToSet(h.dead)
        PROVE  n \in Live(h) /\ ~Owned(k, n) /\ n # t
    BY <1>1, <1>11, <1>15, <1>16, <2>1, <2>2
  <2>3. ASSUME NEW n \in Live(h), ~Owned(k, n), n # t
        PROVE  n \in ToSet(h.dead)
    BY <1>1, <1>11, <1>15, <2>1, <2>3
  <2> QED
    BY <2>2, <2>3
<1>18. SameLoads(k, h) /\ Steady(k, h)
  BY <1>4, <1>5 DEF SameLoads, Steady
<1>19. Stages(k)
  <2>1. \A n \in Mods : k.mods[n].name = Nil => k.mods[n] = NoModule
    BY <1>1, <1>2, <1>3, <1>4 DEF Stages
  <2> QED
    BY <1>1, <1>5, <1>6, <1>7, <1>11, <2>1 DEF Stages
<1>20. \A i \in DOMAIN k.leaked : k.leaked[i].mod \in Live(h)
  BY <1>1, <1>4 DEF Kept
<1>21. Whole(k, open, t)
  BY <1>4, <1>5, <1>7, <1>13, <1>14, <1>17, <1>18, <1>19, <1>20, ReferencesMove
<1> QED
  BY <1>3, <1>6, <1>16, <1>18, <1>21 DEF k, old

\* What the program can get hold of exists, and does not wait.
LEMMA ReachedLives ==
    ASSUME Whole(heap, TRUE, Nil), "module" \notin Risky,
           NEW x \in (Sight \cup Reachable) \ {Nil}
    PROVE  x \in Value /\ Adult(heap, x.of) /\ Target(x) \notin ToSet(heap.dead)
<1> DEFINE good(y) == y \in Value /\ Adult(heap, y.of) /\ Target(y) \notin ToSet(heap.dead)
<1>1. /\ heap \in Heap /\ Stages(heap) /\ Kept(heap, TRUE) /\ Nested(heap)
      /\ ToSet(heap.dead) = {n \in Live(heap) : ~Owned(heap, n)} \ {Nil}
  BY DEF Whole, Waiting
<1>2. /\ heap.vars \in [Vars -> Value] /\ heap.mods \in [Mods -> Record]
      /\ \A n \in Mods : heap.mods[n].static \in Value
  BY <1>1 DEF Heap, Record
<1>3. ASSUME NEW n \in Mods, Used(heap, n)
      PROVE  Adult(heap, n)
  BY <1>1, <1>3 DEF Kept
<1>4. ASSUME NEW n \in Mods, Had(heap, n)
      PROVE  Adult(heap, n) /\ Owned(heap, n)
  BY <1>1, <1>4 DEF Kept, Had, Owned
<1>5. Nil \notin Live(heap) /\ Live(heap) \subseteq Mods
  BY ModulesAssumption, NilAssumption DEF Live
<1>6. ASSUME NEW n \in Mods, Adult(heap, n)
      PROVE  good(Function(n)) /\ (Owned(heap, n) => good(Module(n)))
  <2>1. /\ Function(n) \in Value /\ Function(n).of = n /\ Module(n) \in Value /\ Module(n).of = n
        /\ Target(Function(n)) = Nil /\ Target(Module(n)) = n
    BY TargetIs DEF Value, Function, Module
  <2>2. Owned(heap, n) => n \notin ToSet(heap.dead)
    BY <1>1
  <2>3. Nil \notin ToSet(heap.dead)
    BY <1>1
  <2> QED
    BY <1>6, <2>1, <2>2, <2>3
<1>7. ASSUME NEW y \in Value \ {Nil},
             (\E v \in Vars : heap.vars[v] = y) \/ (\E n \in Live(heap) : heap.mods[n].static = y)
      PROVE  good(y)
  <2>1. PICK n \in Mods : y = Module(n) \/ y = Function(n)
    BY DEF Value
  <2>2. CASE y = Module(n)
    <3>1. Had(heap, n)
      BY <1>7, <2>2 DEF Had
    <3> HIDE DEF good
    <3> QED
      BY <1>4, <1>6, <2>2, <3>1
  <2>3. CASE y = Function(n)
    <3>1. Used(heap, n)
      BY <1>7, <2>3 DEF Used
    <3> HIDE DEF good
    <3> QED
      BY <1>3, <1>6, <2>3, <3>1
  <2> QED
    BY <2>1, <2>2, <2>3
<1>8. InInit => Top(heap).mod \in Mods /\ Adult(heap, Top(heap).mod)
  BY <1>1, <1>5, TopFrame DEF InInit, Nested
<1> HIDE DEF good
<1>9. ASSUME NEW y \in Sight \ {Nil}
      PROVE  good(y)
  BY <1>2, <1>6, <1>7, <1>8, <1>9 DEF Sight
<1>10. ASSUME NEW v \in Sight \ {Nil}, NEW y \in Reach(v), y # Nil
       PROVE  good(y)
  <2>1. good(v) /\ v.of \in Mods /\ Adult(heap, v.of) /\ v.of \in Live(heap)
    BY <1>9 DEF good, Value, Module, Function, Adult, Live
  <2>2. CASE y = v
    BY <2>1, <2>2
  <2>3. CASE y = heap.mods[v.of].static
    BY <1>2, <1>7, <1>10, <2>1, <2>3
  <2>4. CASE \E m \in heap.mods[v.of].exports : y = Function(m)
    <3>1. PICK m \in heap.mods[v.of].exports : y = Function(m)
      BY <2>4
    <3>2. m \in Mods
      BY <1>2, <2>1, <3>1 DEF Record
    <3>3. Adult(heap, m)
      <4>1. CASE m = v.of
        BY <2>1, <4>1
      <4>2. CASE m # v.of
        BY <1>3, <2>1, <3>1, <3>2, <4>2 DEF Used
      <4> QED
        BY <4>1, <4>2
    <3> QED
      BY <1>6, <3>1, <3>2, <3>3
  <2>5. CASE y = Module(v.of) /\ Owned(heap, v.of)
    BY <1>6, <2>1, <2>5
  <2> QED
    BY <1>10, <2>2, <2>3, <2>4, <2>5 DEF Reach
<1>11. good(x)
  BY <1>9, <1>10 DEF Reachable
<1> QED
  BY <1>11 DEF good

-----------------------------------------------------------------------------
(* Loading and importing. *)

\* The module that is compiled is not compiled yet.
LEMMA TopIs ==
    ASSUME NEW h, NEW open, NEW y, Whole(h, open, y), h.frames # << >>, Top(h).phase # "init"
    PROVE  LET to == Top(h).mod
           IN  /\ to \in Live(h) /\ to \in Scripts /\ h.mods[to].refsum = -1
               /\ to \in h.mods[to].exports /\ h.mods[to].name \in Files /\ ~Adult(h, to)
<1> DEFINE to == Top(h).mod
<1>1. h \in Heap /\ Stages(h) /\ Nested(h)
  BY DEF Whole
<1>2. to \in Live(h) /\ to \in Scripts /\ h.mods[to].refsum = -1
  <2>1. Len(h.frames) \in DOMAIN h.frames /\ Top(h) = h.frames[Len(h.frames)] /\ Top(h) \in Loading
    BY <1>1, TopFrame
  <2>2. to \in Scripts
    BY <2>1 DEF Loading
  <2> QED
    BY <1>1, <2>1, <2>2 DEF Nested
<1> HIDE DEF to
<1>3. ~Adult(h, to)
  BY <1>2 DEF Adult
<1> QED
  BY <1>1, <1>2, <1>3 DEF Stages, to

\* What a module exports is compiled.
LEMMA ExportsAdult ==
    ASSUME NEW h, NEW y, Whole(h, TRUE, y), NEW m \in Mods, Adult(h, m)
    PROVE  h.mods[m].exports \subseteq {n \in Mods : Adult(h, n)}
<1>1. h \in Heap /\ Kept(h, TRUE)
  BY DEF Whole
<1>2. m \in Live(h) /\ h.mods[m].exports \subseteq Mods
  BY <1>1 DEF Live, Adult, Heap, Record
<1>3. ASSUME NEW n \in h.mods[m].exports, n # m
      PROVE  Adult(h, n)
  <2>1. Used(h, n)
    BY <1>2, <1>3 DEF Used
  <2> QED
    BY <1>1, <1>2, <2>1 DEF Kept
<1> QED
  BY <1>2, <1>3

\* import_handler: the functions of the module come into the symbol table, and
\* into the module that imports it.
LEMMA ImportKeeps ==
    ASSUME NEW h, NEW m \in Mods, Whole(h, TRUE, m), phase = "open", Adult(h, m),
           h.frames # << >>, Top(h).phase = "import"
    PROVE  Whole(Import(h, m), TRUE, Nil) /\ Steady(Import(h, m), h)
<1> DEFINE i == Len(h.frames)
           to == Top(h).mod
           name == h.mods[to].name
           got == h.mods[m].exports
           f == [h.frames[i] EXCEPT !.symbols = @ \cup got, !.next = @ + 1]
           uses == IF name \in Using THEN h.mods[to].uses \cup got ELSE h.mods[to].uses
           exports == IF name \in Exporting THEN h.mods[to].exports \cup got ELSE h.mods[to].exports
           r == [h.mods[to] EXCEPT !.uses = uses, !.exports = exports]
           fs == [h.frames EXCEPT ![i] = f]
           k == [h EXCEPT !.frames = fs, !.mods[to] = r]
<1>1. /\ h \in Heap /\ Stages(h) /\ Kept(h, TRUE)
      /\ ToSet(h.dead) = {n \in Live(h) : ~Owned(h, n)} \ {m}
  BY DEF Whole, Waiting
<1>2. i \in DOMAIN h.frames /\ Top(h) = h.frames[i] /\ h.frames[i] \in Loading /\ h.frames[i].phase = "import"
  BY <1>1, TopFrame
<1>3. /\ to \in Live(h) /\ to \in Scripts /\ to \in Mods /\ h.mods[to].refsum = -1
      /\ to \in h.mods[to].exports /\ h.mods[to].name \in Files /\ ~Adult(h, to)
  BY TopIs DEF Mods
<1>4. got \subseteq {n \in Mods : Adult(h, n)}
  BY ExportsAdult
<1>5. h.mods[to] \in Record
  BY <1>1, <1>3 DEF Heap
<1>6. Import(h, m) = Disown(k, Module(m))
  <2> DEFINE j == [h EXCEPT !.frames[i].symbols = @ \cup got, !.frames[i].next = @ + 1,
                            !.mods[to].uses = uses, !.mods[to].exports = exports]
  <2>1. Import(h, m) = Disown(j, Module(m))
    BY DEF Import
  <2> HIDE DEF uses, exports, to, got
  <2>2. j = k
    <3> DEFINE a == [h EXCEPT !.frames[i].symbols = @ \cup got, !.frames[i].next = @ + 1]
               b == [a EXCEPT !.mods[to].uses = uses, !.mods[to].exports = exports]
    <3>1. a = [h EXCEPT !.frames = fs]
      BY <1>1, <1>2 DEF Heap, Loading
    <3>2. a.mods = h.mods
      OBVIOUS
    <3>3. j = b
      OBVIOUS
    <3>4. b = [a EXCEPT !.mods[to] = r]
      <4> HIDE DEF a
      <4> QED
        BY <1>1, <1>3, <1>5, <3>1, <3>2, ZenonT(40) DEF Heap, Record
    <3> HIDE DEF a, b, r, fs
    <3> QED
      BY <1>1, <3>1, <3>2, <3>3, <3>4 DEF Heap
  <2> QED
    BY <2>1, <2>2
<1> HIDE DEF to, got
<1>7. /\ f \in Loading /\ f.mod = h.frames[i].mod /\ f.dest = h.frames[i].dest
      /\ f.phase = h.frames[i].phase /\ f.symbols = h.frames[i].symbols \cup got
  <2>1. got \subseteq Mods
    BY <1>4
  <2>2. h.frames[i].next + 1 \in Nat \ {0}
    BY <1>2 DEF Loading
  <2> QED
    BY <1>2, <2>1, <2>2 DEF Loading
<1>8. /\ r \in Record /\ r.name = h.mods[to].name /\ r.refsum = h.mods[to].refsum
      /\ r.static = h.mods[to].static
      /\ h.mods[to].uses \subseteq r.uses /\ r.uses \subseteq h.mods[to].uses \cup got
      /\ h.mods[to].exports \subseteq r.exports /\ r.exports \subseteq h.mods[to].exports \cup got
  BY <1>4, <1>5 DEF Record
<1> HIDE DEF f, r
<1>9. /\ fs \in Seq(Loading) /\ DOMAIN fs = DOMAIN h.frames
      /\ fs[i] = f /\ \A j \in DOMAIN h.frames \ {i} : fs[j] = h.frames[j]
  BY <1>1, <1>2, <1>7, EditFrame
<1> HIDE DEF fs, i
<1>10. /\ k \in Heap /\ k.vars = h.vars /\ k.table = h.table /\ k.dead = h.dead /\ k.lock = h.lock
       /\ k.frames = fs /\ k.leaked = h.leaked /\ k.lost = h.lost
       /\ k.mods[to] = r /\ \A n \in Mods \ {to} : k.mods[n] = h.mods[n]
  BY <1>1, <1>3, <1>8, <1>9 DEF Heap
<1> HIDE DEF k
<1>11. \A n \in Mods : /\ k.mods[n].name = h.mods[n].name /\ k.mods[n].refsum = h.mods[n].refsum
                       /\ k.mods[n].static = h.mods[n].static
                       /\ h.mods[n].uses \subseteq k.mods[n].uses
                       /\ k.mods[n].uses \subseteq h.mods[n].uses \cup got
                       /\ h.mods[n].exports \subseteq k.mods[n].exports
                       /\ k.mods[n].exports \subseteq h.mods[n].exports \cup got
  BY <1>8, <1>10
<1>12. Live(k) = Live(h) /\ Live(h) \subseteq Mods
  BY <1>11 DEF Live
<1>13. \A n \in Mods : Adult(k, n) <=> Adult(h, n)
  <2>1. ~Adult(k, to)
    BY <1>3, <1>11 DEF Adult
  <2> QED
    BY <1>3, <1>10, <2>1 DEF Adult
<1>14. \A j \in DOMAIN h.frames : /\ k.frames[j].mod = h.frames[j].mod
                                  /\ k.frames[j].dest = h.frames[j].dest
                                  /\ k.frames[j].phase = h.frames[j].phase
                                  /\ k.frames[j].symbols \subseteq h.frames[j].symbols \cup got
  BY <1>2, <1>7, <1>9, <1>10
<1>15. \A n \in Mods : Used(k, n) => Used(h, n) \/ Adult(h, n)
  <2>1. ASSUME NEW n \in Mods, Used(k, n), n \notin got
        PROVE  Used(h, n)
    BY <1>9, <1>10, <1>11, <1>12, <1>14, <2>1 DEF Used
  <2> QED
    BY <1>4, <2>1
<1>16. \A n \in Mods : (Had(k, n) <=> Had(h, n)) /\ (Owned(k, n) <=> Owned(h, n))
  BY <1>9, <1>10, <1>11, <1>12, <1>14 DEF Had, Owned
<1>17. ToSet(h.dead) = {n \in Live(h) : ~Owned(k, n)} \ {m}
  BY <1>1, <1>12, <1>16
<1>18. SameLoads(k, h) /\ Steady(k, h)
  BY <1>9, <1>10, <1>11, <1>14 DEF SameLoads, Steady
<1>19. Stages(k)
  <2>1. \A n \in Mods : k.mods[n].name = Nil => k.mods[n] = NoModule
    BY <1>1, <1>3, <1>10, <1>11 DEF Stages, Live
  <2>2. to \notin Binaries
    BY <1>1, <1>3 DEF Stages
  <2>3. to \in k.mods[to].exports
    BY <1>3, <1>11
  <2> QED
    BY <1>1, <1>3, <1>10, <1>11, <1>12, <1>13, <2>1, <2>2, <2>3 DEF Stages
<1>20. \A j \in DOMAIN k.leaked : k.leaked[j].mod \in Live(h)
  BY <1>1, <1>10 DEF Kept
<1>21. Whole(k, TRUE, m)
  BY <1>10, <1>11, <1>13, <1>15, <1>16, <1>17, <1>18, <1>19, <1>20, ReferencesMove
<1>22. Module(m) \in Value /\ Target(Module(m)) = m /\ m \in Live(k)
  BY <1>12, TargetIs DEF Value, Adult, Live
<1>23. Whole(Disown(k, Module(m)), TRUE, Nil) /\ Less(Disown(k, Module(m)), k)
  BY <1>21, <1>22, DisownKeeps
<1> QED
  BY <1>6, <1>18, <1>23, LessSteady, SteadySteady

\* The import that fails keeps the module, and what it had got of it.
LEMMA ConflictKeeps ==
    ASSUME NEW h, NEW m \in Mods, Whole(h, TRUE, m), Adult(h, m),
           h.frames # << >>, Top(h).phase = "import",
           NEW some, some \subseteq h.mods[m].exports
    PROVE  Whole(ImportConflict(h, m, some), TRUE, Nil) /\ Steady(ImportConflict(h, m, some), h)
<1> DEFINE i == Len(h.frames)
           f == [h.frames[i] EXCEPT !.symbols = @ \cup some, !.phase = "fail"]
           fs == [h.frames EXCEPT ![i] = f]
           k == [h EXCEPT !.frames = fs, !.lost = @ \cup {m}]
<1>1. /\ h \in Heap /\ Stages(h) /\ Kept(h, TRUE)
      /\ ToSet(h.dead) = {n \in Live(h) : ~Owned(h, n)} \ {m}
  BY DEF Whole, Waiting
<1>2. i \in DOMAIN h.frames /\ Top(h) = h.frames[i] /\ h.frames[i] \in Loading /\ h.frames[i].phase = "import"
  BY <1>1, TopFrame
<1>3. some \subseteq {n \in Mods : Adult(h, n)}
  BY ExportsAdult
<1>4. /\ f \in Loading /\ f.mod = h.frames[i].mod /\ f.dest = h.frames[i].dest
      /\ f.phase = "fail" /\ f.symbols = h.frames[i].symbols \cup some
  BY <1>2, <1>3 DEF Loading
<1>5. ImportConflict(h, m, some) = k
  BY <1>2 DEF ImportConflict
<1> HIDE DEF f
<1>6. /\ fs \in Seq(Loading) /\ DOMAIN fs = DOMAIN h.frames
      /\ fs[i] = f /\ \A j \in DOMAIN h.frames \ {i} : fs[j] = h.frames[j]
  BY <1>1, <1>2, <1>4, EditFrame
<1> HIDE DEF fs
<1>7. /\ k \in Heap /\ k.vars = h.vars /\ k.table = h.table /\ k.dead = h.dead /\ k.lock = h.lock
      /\ k.frames = fs /\ k.leaked = h.leaked /\ k.lost = h.lost \cup {m} /\ k.mods = h.mods
  BY <1>1, <1>6 DEF Heap
<1> HIDE DEF k
<1>8. Live(k) = Live(h) /\ (\A n : Adult(k, n) <=> Adult(h, n)) /\ Live(h) \subseteq Mods
  BY <1>7, SameModules DEF Live
<1>9. \A j \in DOMAIN h.frames : /\ k.frames[j].mod = h.frames[j].mod
                                 /\ k.frames[j].dest = h.frames[j].dest
                                 /\ k.frames[j].phase = h.frames[j].phase \/ (j = i /\ k.frames[j].phase = "fail")
                                 /\ k.frames[j].phase = "init" <=> h.frames[j].phase = "init"
                                 /\ k.frames[j].symbols \subseteq h.frames[j].symbols \cup some
  BY <1>2, <1>4, <1>6, <1>7
<1>10. k.frames[i].phase = "fail" /\ i \in DOMAIN k.frames
  BY <1>2, <1>4, <1>6, <1>7
<1> HIDE DEF i
<1>11. \A n \in Mods : Used(k, n) => Used(h, n) \/ Adult(h, n)
  <2>1. ASSUME NEW n \in Mods, Used(k, n), n \notin some
        PROVE  Used(h, n)
    BY <1>6, <1>7, <1>8, <1>9, <2>1 DEF Used
  <2> QED
    BY <1>3, <2>1
<1>12. \A n \in Mods : Had(k, n) => Had(h, n) \/ Adult(h, n)
  BY <1>7, <1>8 DEF Had
<1>13. \A n \in Mods : Owned(k, n) <=> Owned(h, n) \/ n = m
  BY <1>6, <1>7, <1>8, <1>9 DEF Owned
<1>14. ToSet(h.dead) = {n \in Live(h) : ~Owned(k, n)} \ {Nil}
  <2>1. Nil \notin Live(h)
    BY <1>8, ModulesAssumption, NilAssumption
  <2> QED
    BY <1>1, <1>8, <1>13, <2>1
<1>15. SameLoads(k, h) /\ Steady(k, h)
  BY <1>6, <1>7, <1>9, <1>10 DEF SameLoads, Steady, i
<1>16. Stages(k)
  BY <1>1, <1>7, <1>8 DEF Stages
<1>17. \A j \in DOMAIN k.leaked : k.leaked[j].mod \in Live(h)
  BY <1>1, <1>7 DEF Kept
<1>18. \A n \in Mods : k.mods[n].name = h.mods[n].name /\ k.mods[n].refsum = h.mods[n].refsum
  BY <1>7
<1>19. Whole(k, TRUE, Nil)
  BY <1>7, <1>8, <1>11, <1>12, <1>14, <1>15, <1>16, <1>17, <1>18, ReferencesMove
<1> QED
  BY <1>5, <1>15, <1>19

\* How a load ends.
LEMMA DeliveredKeeps ==
    ASSUME NEW h, NEW m \in Mods, Whole(h, TRUE, m), phase = "open", Adult(h, m),
           NEW dest \in Vars \cup {Nil}, dest = Nil => h.frames # << >> /\ Top(h).phase = "import",
           NEW g \in Delivered(h, m, dest)
    PROVE  Whole(g, TRUE, Nil) /\ Steady(g, h)
<1>1. CASE dest # Nil
  <2> DEFINE k == [h EXCEPT !.vars[dest] = Module(m)]
             t == Target(h.vars[dest])
  <2>1. g = Disown(k, h.vars[dest]) /\ dest \in Vars
    BY <1>1 DEF Delivered
  <2>2. Module(m) \in Value /\ Module(m).of = m /\ Target(Module(m)) = m
    BY TargetIs DEF Value, Module
  <2>3. m \notin ToSet(h.dead)
    BY DEF Whole, Waiting
  <2>4. Whole(k, TRUE, t) /\ t \in Live(k) \cup {Nil} /\ Steady(k, h) /\ h.vars[dest] \in Value
    BY <2>1, <2>2, <2>3, StoreKeeps
  <2> HIDE DEF k
  <2>5. Whole(g, TRUE, Nil) /\ Less(g, k)
    BY <2>1, <2>4, DisownKeeps
  <2> QED
    BY <2>4, <2>5, LessSteady, SteadySteady
<1>2. CASE dest = Nil /\ Conflicts(h, m)
  <2>1. PICK some \in SUBSET (h.mods[m].exports \ Top(h).symbols) : g = ImportConflict(h, m, some)
    BY <1>2 DEF Delivered
  <2> QED
    BY <1>2, <2>1, ConflictKeeps
<1>3. CASE dest = Nil /\ ~Conflicts(h, m)
  <2>1. g = Import(h, m)
    BY <1>3 DEF Delivered
  <2> QED
    BY <1>3, <2>1, ImportKeeps
<1> QED
  BY <1>1, <1>2, <1>3

\* k has a module more than h, r, made for a file, empty or with the function
\* it exports, and may have begun to load.
Makes(k, h, m, r) ==
    /\ r \in Record /\ r.name \in Files /\ r.static = Nil /\ r.uses = {}
    /\ (r.refsum = -1 /\ r.exports = {m}) \/ (r.refsum = 0 /\ r.exports = {})
    /\ k \in Heap /\ k.mods = [h.mods EXCEPT ![m] = r]
    /\ k.vars = h.vars /\ k.leaked = h.leaked /\ k.lost = h.lost /\ k.table = h.table
    /\ DOMAIN h.frames \subseteq DOMAIN k.frames
    /\ \A i \in DOMAIN h.frames : k.frames[i] = h.frames[i]
    /\ \A i \in DOMAIN k.frames \ DOMAIN h.frames : k.frames[i].symbols = {}

LEMMA MadeKeeps ==
    ASSUME NEW h, Whole(h, TRUE, Nil), NEW m \in Scripts, h.mods[m].name = Nil,
           NEW r, NEW k, Makes(k, h, m, r)
    PROVE  /\ Stages(k) /\ Kept(k, TRUE) /\ Tabled(k)
           /\ Live(k) = Live(h) \cup {m} /\ m \notin Live(h)
           /\ \A n \in Mods \ {m} : k.mods[n] = h.mods[n] /\ (Adult(k, n) <=> Adult(h, n))
           /\ k.mods[m] = r /\ ~Adult(k, m)
           /\ \A n \in Mods : Owned(k, n) <=> Owned(h, n) \/ \E i \in DOMAIN k.frames : k.frames[i].mod = n
<1>1. h \in Heap /\ Stages(h) /\ Kept(h, TRUE) /\ Tabled(h)
  BY DEF Whole
<1> USE DEF Makes
<1>2. /\ m \in Mods /\ Nil \notin Mods /\ r.name \in Names /\ r.name # Nil /\ m \notin Binaries
      /\ r \in Record /\ r.name \in Files
  BY ModulesAssumption, NilAssumption DEF Mods, Names
<1>3. k.mods[m] = r /\ \A n \in Mods \ {m} : k.mods[n] = h.mods[n]
  BY <1>1, <1>2 DEF Heap
<1>4. Live(k) = Live(h) \cup {m} /\ m \notin Live(h)
  BY <1>2, <1>3 DEF Live
<1>5. ~Adult(k, m) /\ ~Adult(h, m)
  BY <1>2, <1>3 DEF Adult
<1>6. \A n \in Mods \ {m} : Adult(k, n) <=> Adult(h, n)
  BY <1>3 DEF Adult
<1>7. \A n \in Live(h) : k.mods[n] = h.mods[n] /\ n \in Mods
  BY <1>3, <1>4 DEF Live
<1>8. \A n \in Mods : Module(n) # Nil /\ Function(n) # Nil
  BY NilAssumption
<1>9. \A n \in Mods : Used(k, n) => Used(h, n)
  BY <1>3, <1>4, <1>7, <1>8 DEF Used
<1>10. \A n \in Mods : Had(k, n) <=> Had(h, n)
  BY <1>3, <1>4, <1>7, <1>8 DEF Had
<1>11. \A n \in Mods : Owned(k, n) <=> Had(k, n) \/ (\E i \in DOMAIN k.frames : k.frames[i].mod = n)
                                       \/ \E i \in DOMAIN k.leaked : k.leaked[i].mod = n
  BY DEF Owned, Had
<1>12. \A n \in Mods : Owned(h, n) <=> Had(h, n) \/ (\E i \in DOMAIN h.frames : h.frames[i].mod = n)
                                       \/ \E i \in DOMAIN h.leaked : h.leaked[i].mod = n
  BY DEF Owned, Had
<1>13. \A n \in Mods : Owned(k, n) <=> Owned(h, n) \/ \E i \in DOMAIN k.frames : k.frames[i].mod = n
  BY <1>10, <1>11, <1>12
<1>14. Stages(k)
  <2>1. \A n \in Mods : k.mods[n].name = Nil => k.mods[n] = NoModule
    BY <1>1, <1>2, <1>3 DEF Stages
  <2>2. \A n \in Live(k) \cap Binaries : Adult(k, n)
    BY <1>1, <1>2, <1>4, <1>6, <1>7 DEF Stages
  <2>3. ASSUME NEW n \in Live(k) \cap Scripts
        PROVE  /\ k.mods[n].name \in Files
               /\ \/ Adult(k, n)
                  \/ k.mods[n].refsum = -1 /\ n \in k.mods[n].exports
                  \/ k.mods[n].refsum = 0 /\ k.mods[n].exports = {}
    <3>1. CASE n = m
      BY <1>3, <3>1
    <3>2. CASE n # m
      BY <1>1, <1>4, <1>6, <1>7, <3>2 DEF Stages
    <3> QED
      BY <3>1, <3>2
  <2> QED
    BY <2>1, <2>2, <2>3 DEF Stages
<1>15. Kept(k, TRUE)
  BY <1>1, <1>4, <1>5, <1>6, <1>9, <1>10 DEF Kept
<1>16. Tabled(k)
  <2>1. \A n \in Names : h.table[n] # Nil => h.table[n] \in Mods
    BY <1>1 DEF Heap
  <2> QED
    BY <1>1, <1>3, <1>5, <1>6, <2>1 DEF Tabled
<1> QED
  BY <1>3, <1>4, <1>5, <1>6, <1>13, <1>14, <1>15, <1>16

\* Nothing is loaded for a name that is compiled: it is an error, and what was
\* made for it goes.
LEMMA DuplicateKeeps ==
    ASSUME NEW h, Whole(h, TRUE, Nil), phase = "open", NEW m \in Scripts, h.mods[m].name = Nil,
           NEW name \in Files
    PROVE  LET g == Disown([h EXCEPT !.mods[m].name = name], Module(m))
           IN  Whole(g, TRUE, Nil) /\ Steady(g, h) /\ g.frames = h.frames
<1> DEFINE k == [h EXCEPT !.mods[m].name = name]
           r == [NoModule EXCEPT !.name = name]
<1>1. /\ h \in Heap /\ Stages(h) /\ Nested(h)
      /\ ToSet(h.dead) = {n \in Live(h) : ~Owned(h, n)} \ {Nil} /\ Once(h.dead)
  BY DEF Whole, Waiting
<1>2. m \in Mods /\ h.mods[m] = NoModule /\ name \in Names
  BY <1>1 DEF Stages, Mods, Names
<1>3. /\ r \in Record /\ r.name = name /\ r.static = Nil /\ r.uses = {}
      /\ r.refsum = 0 /\ r.exports = {}
  BY <1>2 DEF NoModule, Record, Value
<1>4. k = [h EXCEPT !.mods[m] = r]
  BY <1>2
<1> HIDE DEF r, k
<1>5. /\ k \in Heap /\ k.mods = [h.mods EXCEPT ![m] = r] /\ k.vars = h.vars /\ k.leaked = h.leaked
      /\ k.lost = h.lost /\ k.table = h.table /\ k.frames = h.frames /\ k.dead = h.dead /\ k.lock = h.lock
  BY <1>1, <1>2, <1>3, <1>4 DEF Heap
<1>6. /\ Stages(k) /\ Kept(k, TRUE) /\ Tabled(k)
      /\ Live(k) = Live(h) \cup {m} /\ m \notin Live(h)
      /\ \A n \in Mods \ {m} : k.mods[n] = h.mods[n] /\ (Adult(k, n) <=> Adult(h, n))
      /\ k.mods[m] = r /\ ~Adult(k, m)
      /\ \A n \in Mods : Owned(k, n) <=> Owned(h, n) \/ \E i \in DOMAIN k.frames : k.frames[i].mod = n
  <2>1. /\ DOMAIN h.frames \subseteq DOMAIN k.frames
        /\ \A i \in DOMAIN h.frames : k.frames[i] = h.frames[i]
        /\ \A i \in DOMAIN k.frames \ DOMAIN h.frames : k.frames[i].symbols = {}
    BY <1>5
  <2>2. Makes(k, h, m, r)
    BY <1>3, <1>5, <2>1 DEF Makes
  <2> QED
    BY <2>2, MadeKeeps
<1>7. Importing(k) = Importing(h)
  BY <1>5 DEF Importing
<1>8. \A i \in DOMAIN h.frames : h.frames[i].mod \in Live(h) /\ h.frames[i].mod \in Mods \ {m}
  BY <1>1, <1>6 DEF Nested, Live
<1>9. Nested(k)
  BY <1>1, <1>5, <1>6, <1>7, <1>8, SMTT(30) DEF Nested, Importing
<1>10. Waiting(k, m)
  <2>1. Live(h) \subseteq Mods /\ Nil \notin Mods
    BY ModulesAssumption, NilAssumption DEF Live
  <2>2. \A n \in Mods : Owned(k, n) <=> Owned(h, n)
    BY <1>5, <1>6 DEF Owned
  <2> QED
    BY <1>1, <1>5, <1>6, <2>1, <2>2 DEF Waiting
<1>11. Whole(k, TRUE, m)
  BY <1>5, <1>6, <1>9, <1>10 DEF Whole
<1>12. Module(m) \in Value /\ Target(Module(m)) = m
  BY <1>2, TargetIs DEF Value
<1> DEFINE g == Disown(k, Module(m))
<1>13. Whole(g, TRUE, Nil) /\ Less(g, k)
  BY <1>6, <1>11, <1>12, DisownKeeps
<1>14. Steady(k, h)
  BY <1>3, <1>5, <1>6 DEF Steady
<1> HIDE DEF g
<1>15. Steady(g, h) /\ g.frames = h.frames
  <2>1. Steady(g, h)
    BY <1>13, <1>14, LessSteady, SteadySteady
  <2>2. g.frames = h.frames
    BY <1>5, <1>13 DEF Less, SameHolders
  <2> QED
    BY <2>1, <2>2
<1> QED
  BY <1>13, <1>15 DEF g, k

\* What a step that begins a compilation does to the loads in progress.
Begins(g, h) ==
    /\ g.leaked = h.leaked /\ g.lost = h.lost /\ g.lock = h.lock + 1
    /\ DOMAIN g.frames = DOMAIN h.frames \cup {Len(h.frames) + 1}
    /\ Len(h.frames) + 1 \notin DOMAIN h.frames
    /\ \A i \in DOMAIN h.frames : g.frames[i] = h.frames[i]
    /\ g.frames[Len(h.frames) + 1].phase = "import"
    /\ \A n \in Mods : g.mods[n].name # Nil /\ g.mods[n].refsum = -1 =>
          \/ h.mods[n].name # Nil /\ h.mods[n].refsum = -1
          \/ n = g.frames[Len(h.frames) + 1].mod

\* compile and what precedes it: a module that is compiled.
LEMMA BegunKeeps ==
    ASSUME NEW h, Whole(h, TRUE, Nil), NEW m \in Scripts, h.mods[m].name = Nil,
           NEW name \in Files, NEW dest \in Vars \cup {Nil},
           dest = Nil => h.frames # << >> /\ Top(h).phase = "import",
           \A i \in Importing(h) : h.mods[h.frames[i].mod].name # name,
           name \in Shared => h.table[name] = Nil
    PROVE  LET g == [[h EXCEPT !.mods[m].name = name]
                       EXCEPT !.mods[m].refsum = -1,
                              !.mods[m].exports = {m},
                              !.lock = @ + 1,
                              !.frames = Append(@, Frame(m, dest))]
           IN  Whole(g, TRUE, Nil) /\ Begins(g, h)
<1> DEFINE g == [[h EXCEPT !.mods[m].name = name]
                   EXCEPT !.mods[m].refsum = -1,
                          !.mods[m].exports = {m},
                          !.lock = @ + 1,
                          !.frames = Append(@, Frame(m, dest))]
           r == [NoModule EXCEPT !.name = name, !.refsum = -1, !.exports = {m}]
           i == Len(h.frames) + 1
           fs == Append(h.frames, Frame(m, dest))
           k == [h EXCEPT !.mods[m] = r, !.lock = @ + 1, !.frames = fs]
<1>1. /\ h \in Heap /\ Stages(h) /\ Nested(h)
      /\ ToSet(h.dead) = {n \in Live(h) : ~Owned(h, n)} \ {Nil} /\ Once(h.dead)
  BY DEF Whole, Waiting
<1>2. m \in Mods /\ h.mods[m] = NoModule /\ name \in Names
  BY <1>1 DEF Stages, Mods, Names
<1>3. /\ r \in Record /\ r.name = name /\ r.static = Nil /\ r.uses = {}
      /\ r.refsum = -1 /\ r.exports = {m}
  <2>1. -1 \in Int /\ {m} \in SUBSET Mods /\ {} \in SUBSET Mods
    BY <1>2
  <2> QED
    BY <1>2, <2>1 DEF NoModule, Record, Value
<1>4. g = k
  <2> DEFINE a == [h EXCEPT !.mods[m].name = name, !.mods[m].refsum = -1, !.mods[m].exports = {m}]
  <2>1. a = [h EXCEPT !.mods[m] = r]
    BY <1>1, <1>2 DEF Heap, NoModule
  <2>2. g = [a EXCEPT !.lock = @ + 1, !.frames = fs]
    OBVIOUS
  <2> HIDE DEF a, r, fs
  <2> QED
    BY <2>1, <2>2
<1>5. /\ h.frames \in Seq(Loading) /\ i \in Nat /\ DOMAIN h.frames = 1 .. Len(h.frames)
      /\ Frame(m, dest) \in Loading /\ Frame(m, dest).mod = m /\ Frame(m, dest).symbols = {}
      /\ Frame(m, dest).phase = "import" /\ Frame(m, dest).dest = dest
  BY <1>1, LenProperties DEF Heap, Frame, Loading
<1>6. /\ fs \in Seq(Loading) /\ DOMAIN fs = DOMAIN h.frames \cup {i} /\ i \notin DOMAIN h.frames
      /\ fs[i] = Frame(m, dest) /\ \A j \in DOMAIN h.frames : fs[j] = h.frames[j]
  <2>1. /\ fs \in Seq(Loading) /\ Len(fs) = i
        /\ \A j \in 1 .. i : fs[j] = IF j <= Len(h.frames) THEN h.frames[j] ELSE Frame(m, dest)
    BY <1>5, AppendProperties
  <2>2. DOMAIN fs = 1 .. i
    BY <2>1, LenProperties
  <2> HIDE DEF fs
  <2> QED
    BY <1>5, <2>1, <2>2
<1> HIDE DEF r, fs, g
<1>7. /\ k \in Heap /\ k.mods = [h.mods EXCEPT ![m] = r] /\ k.vars = h.vars /\ k.leaked = h.leaked
      /\ k.lost = h.lost /\ k.table = h.table /\ k.frames = fs /\ k.dead = h.dead /\ k.lock = h.lock + 1
  <2>1. h.lock + 1 \in Nat
    BY <1>1 DEF Heap
  <2> QED
    BY <1>1, <1>2, <1>3, <1>6, <2>1 DEF Heap
<1> HIDE DEF k, i
<1>8. /\ Stages(k) /\ Kept(k, TRUE) /\ Tabled(k)
      /\ Live(k) = Live(h) \cup {m} /\ m \notin Live(h)
      /\ \A n \in Mods \ {m} : k.mods[n] = h.mods[n] /\ (Adult(k, n) <=> Adult(h, n))
      /\ k.mods[m] = r /\ ~Adult(k, m)
      /\ \A n \in Mods : Owned(k, n) <=> Owned(h, n) \/ \E j \in DOMAIN k.frames : k.frames[j].mod = n
  <2>1. \A j \in DOMAIN k.frames \ DOMAIN h.frames : k.frames[j].symbols = {}
    BY <1>5, <1>6, <1>7
  <2>2. DOMAIN h.frames \subseteq DOMAIN k.frames /\ \A j \in DOMAIN h.frames : k.frames[j] = h.frames[j]
    BY <1>6, <1>7
  <2> QED
    <3>1. Makes(k, h, m, r)
      BY <1>3, <1>7, <2>1, <2>2 DEF Makes
    <3> QED
      BY <3>1, MadeKeeps
<1>9. Importing(k) = Importing(h) \cup {i}
  BY <1>5, <1>6, <1>7 DEF Importing
<1>10. \A j \in DOMAIN h.frames : h.frames[j].mod \in Live(h) /\ h.frames[j].mod \in Mods \ {m}
  BY <1>1, <1>8 DEF Nested, Live
<1>11. /\ \A j \in DOMAIN h.frames : k.frames[j] = h.frames[j]
       /\ k.frames[i].mod = m /\ k.frames[i].phase = "import" /\ k.frames[i].dest = dest
       /\ DOMAIN k.frames = DOMAIN h.frames \cup {i} /\ i \notin DOMAIN h.frames
  BY <1>5, <1>6, <1>7
<1>12. Nested(k)
  <2>1. ASSUME NEW j \in DOMAIN k.frames
        PROVE  /\ k.frames[j].mod \in Live(k)
               /\ IF k.frames[j].phase = "init" THEN Adult(k, k.frames[j].mod)
                  ELSE k.mods[k.frames[j].mod].refsum = -1
               /\ k.frames[j].dest = Nil => j > 1 /\ k.frames[j - 1].phase = "import"
    <3>1. CASE j = i
      <4>1. dest = Nil => Len(h.frames) \in DOMAIN h.frames /\ h.frames[Len(h.frames)].phase = "import"
        BY <1>1, TopFrame
      <4>2. dest = Nil => i > 1 /\ i - 1 \in DOMAIN h.frames /\ h.frames[i - 1].phase = "import"
        BY <1>5, <4>1 DEF i
      <4> QED
        BY <1>3, <1>8, <1>11, <3>1, <4>2
    <3>2. CASE j # i
      <4>1. j \in DOMAIN h.frames /\ k.frames[j] = h.frames[j]
        BY <1>11, <3>2
      <4>2. h.frames[j].dest = Nil => j > 1 /\ j - 1 \in DOMAIN h.frames
        BY <1>1, <1>5, <4>1 DEF Nested
      <4> QED
        BY <1>1, <1>8, <1>10, <1>11, <4>1, <4>2 DEF Nested
    <3> QED
      BY <3>1, <3>2
  <2>2. \A j, l \in DOMAIN k.frames : j # l => k.frames[j].mod # k.frames[l].mod
    BY <1>1, <1>10, <1>11 DEF Nested
  <2>3. /\ \A j \in Importing(h) : /\ j # i /\ k.frames[j] = h.frames[j]
                                   /\ k.mods[k.frames[j].mod].name = h.mods[h.frames[j].mod].name
        /\ k.mods[k.frames[i].mod].name = name
    BY <1>3, <1>8, <1>10, <1>11 DEF Importing
  <2>4. \A j, l \in Importing(k) :
            j # l => k.mods[k.frames[j].mod].name # k.mods[k.frames[l].mod].name
    BY <1>1, <1>9, <2>3, SMTT(30) DEF Nested
  <2>5. \A j \in Importing(k) : k.mods[k.frames[j].mod].name \in Shared =>
            k.table[k.mods[k.frames[j].mod].name] = Nil
    BY <1>1, <1>7, <1>9, <2>3, SMTT(30) DEF Nested
  <2> QED
    BY <2>1, <2>2, <2>4, <2>5 DEF Nested
<1>13. Waiting(k, Nil)
  <2>1. Live(h) \subseteq Mods /\ Nil \notin Mods
    BY ModulesAssumption, NilAssumption DEF Live
  <2>2. \A n \in Mods \ {m} : Owned(k, n) <=> Owned(h, n)
    BY <1>8, <1>11 DEF Owned
  <2>3. Owned(k, m)
    BY <1>2, <1>8, <1>11
  <2> QED
    BY <1>1, <1>7, <1>8, <2>1, <2>2, <2>3 DEF Waiting
<1>14. Begins(k, h)
  BY <1>7, <1>8, <1>11 DEF Begins, i
<1> QED
  BY <1>4, <1>7, <1>8, <1>12, <1>13, <1>14 DEF Whole, g

\* compile, until the module is compiled, or cannot be.
LEMMA CompileKeeps ==
    ASSUME NEW h, Whole(h, TRUE, Nil), phase = "open", NEW name \in Names, ~Loaded(h, name),
           NEW dest \in Vars \cup {Nil}, dest = Nil => h.frames # << >> /\ Top(h).phase = "import",
           NEW g \in Compile(h, name, dest)
    PROVE  Whole(g, TRUE, Nil) /\ (Steady(g, h) \/ Begins(g, h))
<1> DEFINE c == Clean(h)
           free == {m \in Scripts : c.mods[m].name = Nil}
           made(m) == [c EXCEPT !.mods[m].name = name]
           busy == \E i \in Importing(h) : h.mods[h.frames[i].mod].name = name
           begun(m) == [made(m) EXCEPT !.mods[m].refsum = -1,
                                       !.mods[m].exports = {m},
                                       !.lock = @ + 1,
                                       !.frames = Append(@, Frame(m, dest))]
<1>1. Whole(c, TRUE, Nil) /\ Less(c, h) /\ Live(c) \subseteq Live(h)
  BY CleanKeeps
<1>2. /\ Steady(c, h) /\ c.frames = h.frames /\ Top(c) = Top(h) /\ Importing(c) = Importing(h)
      /\ h \in Heap /\ c \in Heap
  BY <1>1, LessSteady DEF Less, SameHolders, Top, Importing, Whole
<1>3. \/ (free = {} \/ name \in Binaries) /\ g = Failed(c, dest)
      \/ /\ ~(free = {} \/ name \in Binaries) /\ busy
         /\ \E m \in free : g = Failed(Disown(made(m), Module(m)), dest)
      \/ /\ ~(free = {} \/ name \in Binaries) /\ ~busy
         /\ \E m \in free : g = begun(m)
  BY DEF Compile
<1>4. name \in Binaries \/ name \in Files
  BY DEF Names
<1> HIDE DEF c
<1>5. CASE g = Failed(c, dest)
  <2>1. dest = Nil => c.frames # << >> /\ Top(c).phase # "init"
    BY <1>2
  <2>2. Whole(g, TRUE, Nil) /\ Steady(g, c)
    BY <1>1, <1>5, <2>1, FailKeeps
  <2> QED
    BY <1>2, <2>2, SteadySteady
<1>6. CASE name \in Files /\ \E m \in free : g = Failed(Disown(made(m), Module(m)), dest)
  <2>1. PICK m \in free : g = Failed(Disown(made(m), Module(m)), dest)
    BY <1>6
  <2> DEFINE k == Disown(made(m), Module(m))
  <2>2. Whole(k, TRUE, Nil) /\ Steady(k, c) /\ k.frames = c.frames
    BY <1>1, <1>6, DuplicateKeeps
  <2> HIDE DEF k
  <2>3. dest = Nil => k.frames # << >> /\ Top(k).phase # "init"
    BY <1>2, <2>2 DEF Top
  <2>4. g = Failed(k, dest)
    BY <2>1 DEF k
  <2>5. Whole(g, TRUE, Nil) /\ Steady(g, k)
    BY <2>2, <2>3, <2>4, FailKeeps
  <2> QED
    BY <1>2, <2>2, <2>5, SteadySteady
<1>7. CASE name \in Files /\ ~busy /\ \E m \in free : g = begun(m)
  <2>1. PICK m \in free : g = begun(m)
    BY <1>7
  <2>2. \A i \in Importing(c) : c.mods[c.frames[i].mod].name # name
    <3>1. SUFFICES ASSUME NEW i \in Importing(c)
                   PROVE  c.mods[c.frames[i].mod].name # name
      OBVIOUS
    <3>2. i \in Importing(h) /\ i \in DOMAIN c.frames /\ c.frames[i].mod = h.frames[i].mod
      BY <1>2 DEF Importing
    <3>3. c.frames[i].mod \in Live(c)
      BY <1>1, <3>2 DEF Whole, Nested
    <3>4. c.mods[c.frames[i].mod].name = h.mods[h.frames[i].mod].name
      BY <1>1, <3>2, <3>3 DEF Less, Live, NoModule
    <3> QED
      BY <1>7, <3>2, <3>4
  <2>3. name \in Shared => c.table[name] = Nil
    BY <1>1 DEF Loaded, Less
  <2>4. dest = Nil => c.frames # << >> /\ Top(c).phase = "import"
    BY <1>2
  <2>5. m \in Scripts /\ c.mods[m].name = Nil
    OBVIOUS
  <2> DEFINE b == [[c EXCEPT !.mods[m].name = name]
                     EXCEPT !.mods[m].refsum = -1,
                            !.mods[m].exports = {m},
                            !.lock = @ + 1,
                            !.frames = Append(@, Frame(m, dest))]
  <2>6. Whole(b, TRUE, Nil) /\ Begins(b, c)
    BY <1>1, <1>7, <2>2, <2>3, <2>4, <2>5, BegunKeeps
  <2>7. g = b
    BY <2>1
  <2> HIDE DEF b
  <2>8. Begins(g, h)
    BY <1>1, <2>6, <2>7 DEF Begins, Less, SameHolders, NoModule
  <2> QED
    BY <2>6, <2>7, <2>8
<1> QED
  BY <1>3, <1>4, <1>5, <1>6, <1>7

\* load: what is loaded is used again, or compiled.
LEMMA LoadKeeps ==
    ASSUME Whole(heap, TRUE, Nil), phase = "open", NEW name \in Names,
           NEW dest \in Vars \cup {Nil},
           dest = Nil => heap.frames # << >> /\ Top(heap).phase = "import",
           Load(name, dest)
    PROVE  /\ Whole(heap', TRUE, Nil) /\ (Steady(heap', heap) \/ Begins(heap', heap))
           /\ UNCHANGED <<phase, failures>>
<1>1. CASE Loaded(heap, name)
  <2> DEFINE m == heap.table[name]
             g == GetLoaded(heap, m)
  <2>1. m \in Mods /\ Adult(heap, m)
    BY <1>1 DEF Loaded, Whole, Tabled, Heap
  <2>2. heap' \in Delivered(g, m, dest) /\ UNCHANGED <<phase, failures>>
    BY <1>1 DEF Load
  <2> HIDE DEF m
  <2>3. /\ Whole(g, TRUE, m) /\ Less(g, heap) /\ g.frames = heap.frames /\ Adult(g, m)
    BY <2>1, GetLoadedKeeps
  <2> HIDE DEF g
  <2>4. Top(g) = Top(heap)
    BY <2>3 DEF Top
  <2>5. Whole(heap', TRUE, Nil) /\ Steady(heap', g)
    BY <2>1, <2>2, <2>3, <2>4, DeliveredKeeps
  <2> QED
    BY <2>2, <2>3, <2>5, LessSteady, SteadySteady
<1>2. CASE ~Loaded(heap, name)
  BY <1>2, CompileKeeps DEF Load
<1> QED
  BY <1>1, <1>2

\* The collector is locked once more, and what is compiled is in progress.
LEMMA BeginsKeeps ==
    ASSUME NEW g, NEW h \in Heap, Begins(g, h), h.lock = Cardinality(Importing(h))
    PROVE  g.lock = Cardinality(Importing(g)) /\ (Unbroken(h) => Unbroken(g))
<1> DEFINE i == Len(h.frames) + 1
<1>1. Importing(g) = Importing(h) \cup {i} /\ i \notin Importing(h)
  BY DEF Begins, Importing
<1>2. IsFiniteSet(Importing(h))
  <2>1. h.frames \in Seq(Loading)
    BY DEF Heap
  <2>2. DOMAIN h.frames = 1 .. Len(h.frames) /\ Len(h.frames) \in Int /\ 1 \in Int
    BY <2>1, LenProperties
  <2>3. IsFiniteSet(DOMAIN h.frames)
    BY <2>2, FS_Interval
  <2> QED
    BY <2>3, FS_Subset DEF Importing
<1>3. Cardinality(Importing(g)) = Cardinality(Importing(h)) + 1
  BY <1>1, <1>2, FS_AddElement
<1>4. ASSUME Unbroken(h)
      PROVE  Unbroken(g)
  <2>1. g.lost # {} => \E j \in DOMAIN g.frames : g.frames[j].phase = "fail"
    BY <1>4 DEF Unbroken, Begins
  <2>2. ASSUME NEW m \in Live(g), g.mods[m].refsum = -1
        PROVE  \E j \in DOMAIN g.frames : g.frames[j].mod = m
    <3>1. CASE m \in Live(h) /\ h.mods[m].refsum = -1
      BY <1>4, <3>1 DEF Unbroken, Begins
    <3>2. CASE m = g.frames[i].mod
      BY <3>2 DEF Begins
    <3> QED
      BY <2>2, <3>1, <3>2 DEF Begins, Live
  <2> QED
    BY <1>4, <2>1, <2>2 DEF Unbroken, Begins
<1> QED
  BY <1>3, <1>4 DEF Begins

LEMMA ImportingCounts ==
    ASSUME NEW h \in Heap
    PROVE  /\ IsFiniteSet(Importing(h)) /\ Cardinality(Importing(h)) \in Nat
           /\ \A i \in Importing(h) : /\ Cardinality(Importing(h)) > 0
                                      /\ Cardinality(Importing(h) \ {i}) = Cardinality(Importing(h)) - 1
<1>1. IsFiniteSet(Importing(h))
  <2>1. h.frames \in Seq(Loading)
    BY DEF Heap
  <2>2. DOMAIN h.frames = 1 .. Len(h.frames) /\ Len(h.frames) \in Int /\ 1 \in Int
    BY <2>1, LenProperties
  <2>3. IsFiniteSet(DOMAIN h.frames)
    BY <2>2, FS_Interval
  <2> QED
    BY <2>3, FS_Subset DEF Importing
<1>2. Cardinality(Importing(h)) \in Nat
  BY <1>1, FS_CardinalityType
<1>3. ASSUME NEW i \in Importing(h)
      PROVE  /\ Cardinality(Importing(h)) > 0
             /\ Cardinality(Importing(h) \ {i}) = Cardinality(Importing(h)) - 1
  <2>1. Cardinality(Importing(h) \ {i}) = Cardinality(Importing(h)) - 1
    BY <1>1, FS_RemoveElement
  <2>2. Cardinality(Importing(h)) # 0
    BY <1>1, FS_EmptySet
  <2> QED
    BY <1>2, <2>1, <2>2
<1> QED
  BY <1>1, <1>2, <1>3

LEMMA FrontDoes ==
    ASSUME NEW h \in Heap, h.frames # << >>
    PROVE  LET fs == Front(h.frames)
               i == Len(h.frames)
           IN  /\ fs \in Seq(Loading) /\ DOMAIN fs = DOMAIN h.frames \ {i} /\ Len(fs) = i - 1
               /\ \A j \in DOMAIN h.frames \ {i} : fs[j] = h.frames[j]
<1> DEFINE s == h.frames
           i == Len(s)
<1>1. s \in Seq(Loading) /\ i \in DOMAIN s /\ DOMAIN s = 1 .. i /\ i \in Nat
  BY TopFrame DEF Heap
<1>2. Front(s) = SubSeq(s, 1, i - 1)
  BY DEF Front
<1> HIDE DEF s, i
<1>3. /\ SubSeq(s, 1, i - 1) \in Seq(Loading) /\ Len(SubSeq(s, 1, i - 1)) = i - 1
      /\ \A j \in 1 .. i - 1 : SubSeq(s, 1, i - 1)[j] = s[j]
  BY <1>1, SubSeqProperties, ElementOfSeq
<1>4. 1 .. i - 1 = DOMAIN s \ {i} /\ DOMAIN SubSeq(s, 1, i - 1) = 1 .. i - 1
  BY <1>1, <1>3, LenProperties
<1> QED
  BY <1>2, <1>3, <1>4 DEF s, i

\* k is h without the last load in progress.
Ends(k, h) ==
    /\ k \in Heap /\ k.frames = Front(h.frames) /\ k.mods = h.mods /\ k.vars = h.vars
    /\ k.table = h.table /\ k.dead = h.dead /\ k.lost = h.lost

LEMMA EndKeeps ==
    ASSUME NEW h, NEW open, Whole(h, open, Nil), h.frames # << >>, NEW k, Ends(k, h), NEW z,
           \A i \in DOMAIN k.leaked : k.leaked[i].mod \in Live(h),
           \A n \in Mods : Used(k, n) => Used(h, n),
           ToSet(h.dead) = {n \in Live(h) : ~Owned(k, n)} \ {z}
    PROVE  Whole(k, open, z)
<1> DEFINE i == Len(h.frames)
<1>1. h \in Heap /\ Stages(h) /\ Kept(h, open) /\ Nested(h) /\ Tabled(h) /\ Once(h.dead)
  BY DEF Whole, Waiting
<1>2. /\ k.frames \in Seq(Loading) /\ DOMAIN k.frames = DOMAIN h.frames \ {i}
      /\ \A j \in DOMAIN h.frames \ {i} : k.frames[j] = h.frames[j]
  BY <1>1, FrontDoes DEF Ends
<1>3. k \in Heap /\ k.mods = h.mods /\ k.vars = h.vars /\ k.table = h.table /\ k.dead = h.dead /\ k.lost = h.lost
  BY DEF Ends
<1>4. Live(k) = Live(h) /\ \A n : Adult(k, n) <=> Adult(h, n)
  BY <1>3, SameModules
<1>5. \A n \in Mods : Had(k, n) => Had(h, n)
  BY <1>3, <1>4 DEF Had
<1>6. Importing(k) = Importing(h) \ {i}
  BY <1>2 DEF Importing
<1>7. Nested(k)
  <2>1. DOMAIN h.frames = 1 .. i /\ i \in Nat
    BY <1>1, TopFrame
  <2>2. ASSUME NEW j \in DOMAIN k.frames, k.frames[j].dest = Nil
        PROVE  j > 1 /\ k.frames[j - 1].phase = "import"
    <3>1. j > 1 /\ h.frames[j - 1].phase = "import" /\ j \in 1 .. i /\ j # i
      BY <1>1, <1>2, <2>1, <2>2 DEF Nested
    <3>2. j - 1 \in DOMAIN h.frames \ {i}
      BY <2>1, <3>1
    <3> QED
      BY <1>2, <3>1, <3>2
  <2>3. ASSUME NEW j \in DOMAIN k.frames
        PROVE  /\ k.frames[j].mod \in Live(k)
               /\ IF k.frames[j].phase = "init" THEN Adult(k, k.frames[j].mod)
                  ELSE k.mods[k.frames[j].mod].refsum = -1
    BY <1>1, <1>2, <1>3, <1>4 DEF Nested
  <2>4. \A j, l \in DOMAIN k.frames : j # l => k.frames[j].mod # k.frames[l].mod
    BY <1>1, <1>2 DEF Nested
  <2>5. \A j \in Importing(k) : j \in Importing(h) /\ k.frames[j] = h.frames[j]
    BY <1>2, <1>6 DEF Importing
  <2>6. /\ \A j, l \in Importing(k) :
             j # l => k.mods[k.frames[j].mod].name # k.mods[k.frames[l].mod].name
        /\ \A j \in Importing(k) : k.mods[k.frames[j].mod].name \in Shared =>
             k.table[k.mods[k.frames[j].mod].name] = Nil
    BY <1>1, <1>3, <2>5, SMTT(30) DEF Nested
  <2> QED
    BY <2>2, <2>3, <2>4, <2>6 DEF Nested
<1>8. Stages(k)
  BY <1>1, <1>3, <1>4 DEF Stages
<1>9. Kept(k, open)
  BY <1>1, <1>4, <1>5 DEF Kept
<1>10. Tabled(k)
  BY <1>1, <1>3, <1>4 DEF Tabled
<1>11. Waiting(k, z)
  BY <1>1, <1>3, <1>4 DEF Waiting
<1> QED
  BY <1>3, <1>7, <1>8, <1>9, <1>10, <1>11 DEF Whole

\* __init_module is done: the module is nobody's yet, unless it already is.
LEMMA PoppedKeeps ==
    ASSUME Whole(heap, TRUE, Nil), InInit
    PROVE  LET m == Top(heap).mod
               dest == Top(heap).dest
           IN  /\ Whole(Popped, TRUE, m) /\ m \in Mods /\ Adult(Popped, m) /\ m \in Live(Popped)
               /\ dest \in Vars \cup {Nil}
               /\ dest = Nil => Popped.frames # << >> /\ Top(Popped).phase = "import"
               /\ Popped.lock = heap.lock /\ Importing(Popped) = Importing(heap)
               /\ Unbroken(heap) => Unbroken(Popped)
<1> DEFINE k == Popped
           i == Len(heap.frames)
           m == Top(heap).mod
           dest == Top(heap).dest
<1>1. /\ heap \in Heap /\ Stages(heap) /\ Kept(heap, TRUE) /\ Nested(heap)
      /\ ToSet(heap.dead) = {n \in Live(heap) : ~Owned(heap, n)} \ {Nil}
  BY DEF Whole, Waiting
<1>2. /\ heap.frames # << >> /\ i \in DOMAIN heap.frames /\ Top(heap) = heap.frames[i]
      /\ heap.frames[i].phase = "init" /\ heap.frames[i] \in Loading
      /\ DOMAIN heap.frames = 1 .. i /\ i \in Nat
  BY <1>1, TopFrame DEF InInit
<1>3. m \in Mods /\ Adult(heap, m) /\ m \in Live(heap) /\ dest \in Vars \cup {Nil}
  BY <1>1, <1>2 DEF Nested, Loading, Mods
<1>4. /\ Front(heap.frames) \in Seq(Loading) /\ DOMAIN Front(heap.frames) = DOMAIN heap.frames \ {i}
      /\ Len(Front(heap.frames)) = i - 1
      /\ \A j \in DOMAIN heap.frames \ {i} : Front(heap.frames)[j] = heap.frames[j]
  BY <1>1, <1>2, FrontDoes
<1>5. /\ k \in Heap /\ k.frames = Front(heap.frames) /\ k.mods = heap.mods /\ k.vars = heap.vars
      /\ k.table = heap.table /\ k.dead = heap.dead /\ k.lost = heap.lost /\ k.lock = heap.lock
      /\ k.leaked = heap.leaked
  BY <1>1, <1>4 DEF Popped, Heap
<1> HIDE DEF k
<1>6. Ends(k, heap)
  BY <1>5 DEF Ends
<1>7. Live(k) = Live(heap) /\ \A n : Adult(k, n) <=> Adult(heap, n)
  BY <1>5, SameModules
<1>8. /\ \A j \in DOMAIN k.frames : j \in DOMAIN heap.frames /\ j # i /\ k.frames[j] = heap.frames[j]
      /\ \A j \in DOMAIN heap.frames \ {i} : j \in DOMAIN k.frames
  BY <1>4, <1>5
<1>9. \A n \in Mods : Used(k, n) => Used(heap, n)
  BY <1>5, <1>7, <1>8 DEF Used
<1>10. \A n \in Mods \ {m} : Owned(k, n) <=> Owned(heap, n)
  <2>1. \A n \in Mods \ {m} : (\E j \in DOMAIN k.frames : k.frames[j].mod = n) <=>
                              (\E j \in DOMAIN heap.frames : heap.frames[j].mod = n)
    BY <1>2, <1>8
  <2> QED
    BY <1>5, <1>7, <2>1 DEF Owned
<1>11. Owned(heap, m)
  BY <1>2 DEF Owned
<1> HIDE DEF m, dest
<1>12. ToSet(heap.dead) = {n \in Live(heap) : ~Owned(k, n)} \ {m}
  <2>1. Live(heap) \subseteq Mods /\ Nil \notin Mods
    BY ModulesAssumption, NilAssumption DEF Live
  <2> QED
    BY <1>1, <1>10, <1>11, <2>1
<1>13. \A j \in DOMAIN k.leaked : k.leaked[j].mod \in Live(heap)
  BY <1>1, <1>5 DEF Kept
<1>14. Whole(k, TRUE, m)
  BY <1>2, <1>6, <1>9, <1>12, <1>13, EndKeeps
<1>15. dest = Nil => k.frames # << >> /\ Top(k).phase = "import"
  <2>1. SUFFICES ASSUME dest = Nil PROVE k.frames # << >> /\ Top(k).phase = "import"
    OBVIOUS
  <2>2. i > 1 /\ heap.frames[i - 1].phase = "import"
    BY <1>1, <1>2, <2>1 DEF Nested, dest
  <2>3. i - 1 \in DOMAIN heap.frames \ {i}
    BY <1>2, <2>2
  <2>4. k.frames # << >> /\ k.frames[i - 1] = heap.frames[i - 1] /\ Len(k.frames) = i - 1
    BY <1>4, <1>5, <2>3
  <2> QED
    BY <2>2, <2>4 DEF Top, Last
<1>16. Importing(k) = Importing(heap)
  BY <1>2, <1>8 DEF Importing
<1>17. ASSUME Unbroken(heap)
       PROVE  Unbroken(k)
  <2>1. k.lost # {} => \E j \in DOMAIN k.frames : k.frames[j].phase = "fail"
    BY <1>2, <1>5, <1>8, <1>17 DEF Unbroken
  <2>2. ASSUME NEW n \in Live(k), k.mods[n].refsum = -1
        PROVE  \E j \in DOMAIN k.frames : k.frames[j].mod = n
    <3>1. PICK j \in DOMAIN heap.frames : heap.frames[j].mod = n
      BY <1>5, <1>7, <1>17, <2>2 DEF Unbroken
    <3>2. n # m
      BY <1>3, <1>5, <2>2 DEF Adult
    <3> QED
      BY <1>2, <1>8, <3>1, <3>2 DEF m
  <2> QED
    BY <1>5, <1>17, <2>1, <2>2 DEF Unbroken
<1> QED
  BY <1>3, <1>5, <1>7, <1>14, <1>15, <1>16, <1>17 DEF k, m, dest

\* The collector is unlocked while the last load is in progress.
LEMMA UnlockTop ==
    ASSUME Whole(heap, TRUE, Nil), phase = "open", heap.lock = Cardinality(Importing(heap)),
           heap.frames # << >>, Top(heap).phase # "init"
    PROVE  LET h == Unlock(heap)
               i == Len(heap.frames)
           IN  /\ Whole(h, TRUE, Nil) /\ h.frames = heap.frames /\ h.leaked = heap.leaked
               /\ h.lost = heap.lost /\ i \in Importing(h)
               /\ h.lock = Cardinality(Importing(h) \ {i})
               /\ \A n \in Mods : h.mods[n].name # Nil /\ h.mods[n].refsum = -1 =>
                     heap.mods[n].name # Nil /\ heap.mods[n].refsum = -1
<1> DEFINE h == Unlock(heap)
           i == Len(heap.frames)
           k == [heap EXCEPT !.lock = @ - 1]
<1>1. heap \in Heap
  BY DEF Whole
<1>2. i \in Importing(heap)
  BY <1>1, TopFrame DEF Importing
<1>3. /\ Cardinality(Importing(heap)) > 0
      /\ Cardinality(Importing(heap) \ {i}) = Cardinality(Importing(heap)) - 1
  BY <1>1, <1>2, ImportingCounts
<1>4. Whole(h, TRUE, Nil) /\ Less(h, k)
  BY <1>3, UnlockKeeps
<1>5. /\ k.frames = heap.frames /\ k.leaked = heap.leaked /\ k.lost = heap.lost /\ k.mods = heap.mods
      /\ k.lock = heap.lock - 1
  BY <1>1 DEF Heap
<1> HIDE DEF h, k
<1>6. h.frames = heap.frames /\ h.leaked = heap.leaked /\ h.lost = heap.lost /\ h.lock = heap.lock - 1
  BY <1>4, <1>5 DEF Less, SameHolders
<1>7. Importing(h) = Importing(heap)
  BY <1>6 DEF Importing
<1>8. \A n \in Mods : h.mods[n].name # Nil /\ h.mods[n].refsum = -1 =>
          heap.mods[n].name # Nil /\ heap.mods[n].refsum = -1
  BY <1>4, <1>5 DEF Less, NoModule
<1> QED
  BY <1>2, <1>3, <1>4, <1>6, <1>7, <1>8 DEF h

\* eel_cthrow: the symbol table of a compilation that failed stays, and keeps
\* the module and what it had imported.
LEMMA AbortKeeps ==
    ASSUME Whole(heap, TRUE, Nil), phase = "open", heap.lock = Cardinality(Importing(heap)), Abort
    PROVE  Whole(heap', TRUE, Nil) /\ heap'.lock = Cardinality(Importing(heap'))
<1> DEFINE h == Unlock(heap)
           i == Len(heap.frames)
           left == [mod |-> Top(heap).mod, symbols |-> Top(heap).symbols]
           dest == Top(heap).dest
           k == [h EXCEPT !.frames = Front(@), !.leaked = Append(@, left)]
<1>1. heap.frames # << >> /\ Top(heap).phase = "fail" /\ heap' = Failed(k, dest)
  BY DEF Abort
<1>2. /\ Whole(h, TRUE, Nil) /\ h.frames = heap.frames /\ i \in Importing(h)
      /\ h.lock = Cardinality(Importing(h) \ {i})
  BY <1>1, UnlockTop
<1> HIDE DEF h
<1>3. /\ h \in Heap /\ Kept(h, TRUE) /\ Nested(h)
      /\ ToSet(h.dead) = {n \in Live(h) : ~Owned(h, n)} \ {Nil}
  BY <1>2 DEF Whole, Waiting
<1>4. /\ h.frames # << >> /\ i = Len(h.frames) /\ i \in DOMAIN h.frames /\ Top(heap) = h.frames[i]
      /\ h.frames[i] \in Loading /\ DOMAIN h.frames = 1 .. i /\ i \in Nat
  <2>1. Top(heap) = Top(h) /\ i = Len(h.frames) /\ h.frames # << >>
    BY <1>1, <1>2 DEF Top
  <2> QED
    BY <1>3, <2>1, TopFrame
<1>5. left \in Context /\ left.mod = h.frames[i].mod /\ left.symbols = h.frames[i].symbols
  BY <1>4 DEF Loading, Context
<1> HIDE DEF left
<1>6. /\ Front(h.frames) \in Seq(Loading) /\ DOMAIN Front(h.frames) = DOMAIN h.frames \ {i}
      /\ Len(Front(h.frames)) = i - 1
      /\ \A j \in DOMAIN h.frames \ {i} : Front(h.frames)[j] = h.frames[j]
  BY <1>3, <1>4, FrontDoes
<1> DEFINE l == Len(h.leaked) + 1
           ls == Append(h.leaked, left)
<1>7. /\ ls \in Seq(Context) /\ DOMAIN ls = DOMAIN h.leaked \cup {l}
      /\ ls[l] = left /\ \A j \in DOMAIN h.leaked : j # l /\ ls[j] = h.leaked[j]
  <2>1. h.leaked \in Seq(Context)
    BY <1>3 DEF Heap
  <2>2. /\ ls \in Seq(Context) /\ Len(ls) = l
        /\ \A j \in 1 .. l : ls[j] = IF j <= Len(h.leaked) THEN h.leaked[j] ELSE left
    BY <1>5, <2>1, AppendProperties
  <2>3. DOMAIN ls = 1 .. l /\ DOMAIN h.leaked = 1 .. Len(h.leaked) /\ Len(h.leaked) \in Nat
    BY <2>1, <2>2, LenProperties
  <2> HIDE DEF ls
  <2> QED
    BY <2>2, <2>3
<1>8. /\ k \in Heap /\ k.frames = Front(h.frames) /\ k.mods = h.mods /\ k.vars = h.vars
      /\ k.table = h.table /\ k.dead = h.dead /\ k.lost = h.lost /\ k.lock = h.lock /\ k.leaked = ls
  BY <1>3, <1>6, <1>7 DEF Heap
<1> HIDE DEF k, ls, l
<1>9. Ends(k, h)
  BY <1>8 DEF Ends
<1>10. Live(k) = Live(h)
  BY <1>8, SameModules
<1>11. \A j \in DOMAIN k.frames : j \in DOMAIN h.frames /\ j # i /\ k.frames[j] = h.frames[j]
  BY <1>6, <1>8
<1>12. \A n \in Mods : Used(k, n) => Used(h, n)
  <2>1. \A n \in Mods : (\E j \in DOMAIN k.leaked : n \in k.leaked[j].symbols) =>
                           \/ \E j \in DOMAIN h.leaked : n \in h.leaked[j].symbols
                           \/ n \in h.frames[i].symbols
    BY <1>5, <1>7, <1>8
  <2> QED
    BY <1>4, <1>8, <1>10, <1>11, <2>1 DEF Used
<1>13. \A n \in Mods : Owned(k, n) <=> Owned(h, n)
  <2>1. \A n \in Mods : (\E j \in DOMAIN k.leaked : k.leaked[j].mod = n) <=>
                           \/ \E j \in DOMAIN h.leaked : h.leaked[j].mod = n
                           \/ n = h.frames[i].mod
    BY <1>5, <1>7, <1>8
  <2>2. \A n \in Mods : (\E j \in DOMAIN h.frames : h.frames[j].mod = n) <=>
                           \/ \E j \in DOMAIN k.frames : k.frames[j].mod = n
                           \/ n = h.frames[i].mod
    BY <1>4, <1>6, <1>8
  <2> QED
    BY <1>8, <1>10, <2>1, <2>2 DEF Owned
<1>14. ToSet(h.dead) = {n \in Live(h) : ~Owned(k, n)} \ {Nil}
  BY <1>3, <1>13 DEF Live
<1>15. \A j \in DOMAIN k.leaked : k.leaked[j].mod \in Live(h)
  BY <1>3, <1>4, <1>5, <1>7, <1>8, SMTT(30) DEF Kept, Nested
<1>16. Whole(k, TRUE, Nil)
  BY <1>2, <1>4, <1>9, <1>12, <1>14, <1>15, EndKeeps
<1>17. dest = Nil => k.frames # << >> /\ Top(k).phase # "init"
  <2>1. SUFFICES ASSUME dest = Nil PROVE k.frames # << >> /\ Top(k).phase = "import"
    OBVIOUS
  <2>2. i > 1 /\ h.frames[i - 1].phase = "import"
    BY <1>3, <1>4, <2>1 DEF Nested
  <2>3. i - 1 \in DOMAIN h.frames \ {i}
    BY <1>4, <2>2
  <2>4. k.frames # << >> /\ k.frames[i - 1] = h.frames[i - 1] /\ Len(k.frames) = i - 1
    BY <1>6, <1>8, <2>3
  <2> HIDE DEF i
  <2> QED
    BY <2>2, <2>4 DEF Top, Last
<1>18. Importing(k) = Importing(h) \ {i}
  BY <1>6, <1>8 DEF Importing
<1> HIDE DEF dest
<1>19. Whole(heap', TRUE, Nil) /\ Steady(heap', k)
  BY <1>1, <1>16, <1>17, FailKeeps
<1>20. heap'.lock = k.lock /\ Importing(heap') = Importing(k)
  BY <1>19, SteadyKeeps
<1> QED
  BY <1>2, <1>8, <1>18, <1>19, <1>20

\* The end of compile2: the references to the functions of the module are
\* counted, and it is shared.
LEMMA FinishKeeps ==
    ASSUME Whole(heap, TRUE, Nil), phase = "open", heap.lock = Cardinality(Importing(heap)), Finish
    PROVE  /\ Whole(heap', TRUE, Nil) /\ heap'.lock = Cardinality(Importing(heap'))
           /\ Unbroken(heap) => Unbroken(heap')
<1> DEFINE u == Unlock(heap)
           i == Len(heap.frames)
           m == Top(heap).mod
           f == [u.frames[i] EXCEPT !.symbols = {}, !.phase = "init"]
           fs == [u.frames EXCEPT ![i] = f]
           d == [u EXCEPT !.frames = fs]
           s == Share(d, m)
           k == [s EXCEPT !.mods[m].refsum = CountRefs(s, m)]
<1>1. heap.frames # << >> /\ Top(heap).phase = "import"
  BY DEF Finish, Compiling
<1>2. /\ Whole(u, TRUE, Nil) /\ u.frames = heap.frames /\ u.leaked = heap.leaked
      /\ u.lost = heap.lost /\ i \in Importing(u)
      /\ u.lock = Cardinality(Importing(u) \ {i})
      /\ \A n \in Mods : u.mods[n].name # Nil /\ u.mods[n].refsum = -1 =>
            heap.mods[n].name # Nil /\ heap.mods[n].refsum = -1
  BY <1>1, UnlockTop
<1>3. /\ u \in Heap /\ Stages(u) /\ Kept(u, TRUE) /\ Nested(u) /\ Tabled(u)
      /\ ToSet(u.dead) = {n \in Live(u) : ~Owned(u, n)} \ {Nil} /\ Once(u.dead)
  BY <1>2 DEF Whole, Waiting
<1>4. /\ i = Len(u.frames) /\ i \in DOMAIN u.frames /\ Top(u) = Top(heap) /\ Top(heap) = u.frames[i]
      /\ u.frames[i] \in Loading /\ u.frames # << >>
  <2>1. Top(heap) = Top(u) /\ i = Len(u.frames) /\ u.frames # << >>
    BY <1>1, <1>2 DEF Top
  <2> QED
    BY <1>3, <2>1, TopFrame
<1>5. heap' = k
  <2> DEFINE e == [u EXCEPT !.frames[i].symbols = {}, !.frames[i].phase = "init"]
  <2>1. e = d
    BY <1>3, <1>4 DEF Heap, Loading
  <2>2. heap' = [Share(e, m) EXCEPT !.mods[m].refsum = CountRefs(Share(e, m), m)]
    BY DEF Finish
  <2> QED
    BY <2>1, <2>2
<1>6. /\ m \in Live(u) /\ m \in Scripts /\ m \in Mods /\ u.mods[m].refsum = -1
      /\ m \in u.mods[m].exports /\ u.mods[m].name \in Files /\ ~Adult(u, m) /\ u.frames[i].mod = m
  BY <1>1, <1>2, <1>4, TopIs DEF Mods
<1> HIDE DEF u, m, i, k
<1>7. /\ f \in Loading /\ f.mod = u.frames[i].mod /\ f.dest = u.frames[i].dest
      /\ f.phase = "init" /\ f.symbols = {}
  BY <1>4 DEF Loading
<1> HIDE DEF f
<1>8. /\ fs \in Seq(Loading) /\ DOMAIN fs = DOMAIN u.frames
      /\ fs[i] = f /\ \A j \in DOMAIN u.frames \ {i} : fs[j] = u.frames[j]
  BY <1>3, <1>4, <1>7, EditFrame
<1> HIDE DEF fs
<1>9. /\ d \in Heap /\ d.vars = u.vars /\ d.mods = u.mods /\ d.table = u.table /\ d.dead = u.dead
      /\ d.lock = u.lock /\ d.frames = fs /\ d.leaked = u.leaked /\ d.lost = u.lost
  BY <1>3, <1>8 DEF Heap
<1> HIDE DEF d
<1> DEFINE name == u.mods[m].name
<1>10. name \in Names /\ name # Nil /\ Nil \notin Mods
  BY <1>6, ModulesAssumption, NilAssumption DEF Names
<1>11. /\ s \in Heap /\ SameHolders(s, d) /\ s.mods = u.mods /\ s.dead = u.dead
       /\ s.table[name] = IF name \in Shared THEN m ELSE u.table[name]
       /\ \A n \in Names \ {name} : s.table[n] = u.table[n]
  <2>1. u.table \in [Names -> Mods \cup {Nil}]
    BY <1>3 DEF Heap
  <2>2. CASE name \in Shared
    <3>1. s = [d EXCEPT !.table[name] = m]
      BY <1>9, <2>2 DEF Share
    <3> HIDE DEF s, name
    <3> QED
      BY <1>6, <1>9, <1>10, <2>1, <2>2, <3>1 DEF Heap, SameHolders
  <2>3. CASE name \notin Shared
    BY <1>9, <2>3 DEF Share, SameHolders
  <2> QED
    BY <2>2, <2>3
<1> HIDE DEF s, name
<1>12. CountRefs(s, m) = 2
  <2>1. ~Used(u, m)
    BY <1>3, <1>6 DEF Kept
  <2>2. \A j \in DOMAIN s.frames : j \in DOMAIN u.frames /\ s.frames[j].symbols \subseteq u.frames[j].symbols
    BY <1>4, <1>7, <1>8, <1>9, <1>11 DEF SameHolders
  <2>3. Live(s) = Live(u)
    BY <1>11 DEF Live
  <2>4. ~Used(s, m)
    BY <1>9, <1>11, <2>1, <2>2, <2>3 DEF Used, SameHolders
  <2>5. Own(s, m) = 2
    BY <1>6, <1>11 DEF Own
  <2> QED
    BY <1>6, <1>11, <2>4, <2>5, CountOwners DEF CountRefs
<1> DEFINE r == [u.mods[m] EXCEPT !.refsum = 2]
<1>13. /\ r \in Record /\ r.name = name /\ r.refsum = 2 /\ r.static = u.mods[m].static
       /\ r.uses = u.mods[m].uses /\ r.exports = u.mods[m].exports
  <2>1. u.mods[m] \in Record
    BY <1>3, <1>6 DEF Heap
  <2> QED
    BY <2>1 DEF Record, name
<1>14. k = [s EXCEPT !.mods[m] = r]
  BY <1>11, <1>12 DEF k
<1> HIDE DEF r
<1>15. /\ k \in Heap /\ k.vars = u.vars /\ k.table = s.table /\ k.dead = u.dead /\ k.lock = u.lock
       /\ k.frames = fs /\ k.leaked = u.leaked /\ k.lost = u.lost
       /\ k.mods[m] = r /\ \A n \in Mods \ {m} : k.mods[n] = u.mods[n]
  BY <1>6, <1>9, <1>11, <1>13, <1>14 DEF Heap, SameHolders
<1>16. \A n \in Mods : /\ k.mods[n].name = u.mods[n].name /\ k.mods[n].static = u.mods[n].static
                       /\ k.mods[n].uses = u.mods[n].uses /\ k.mods[n].exports = u.mods[n].exports
  BY <1>13, <1>15 DEF name
<1>17. Live(k) = Live(u) /\ Live(u) \subseteq Mods
  BY <1>16 DEF Live
<1>18. Adult(k, m) /\ \A n \in Mods \ {m} : Adult(k, n) <=> Adult(u, n)
  BY <1>6, <1>10, <1>13, <1>15 DEF Adult
<1>19. /\ DOMAIN k.frames = DOMAIN u.frames /\ k.frames[i].phase = "init" /\ k.frames[i].mod = m
       /\ \A j \in DOMAIN u.frames \ {i} : k.frames[j] = u.frames[j]
       /\ \A j \in DOMAIN u.frames : /\ k.frames[j].mod = u.frames[j].mod
                                     /\ k.frames[j].dest = u.frames[j].dest
                                     /\ k.frames[j].symbols \subseteq u.frames[j].symbols
  BY <1>4, <1>6, <1>7, <1>8, <1>15
<1>20. \A n \in Mods : (Used(k, n) => Used(u, n)) /\ (Had(k, n) <=> Had(u, n)) /\ (Owned(k, n) <=> Owned(u, n))
  BY <1>15, <1>16, <1>17, <1>19 DEF Used, Had, Owned
<1>21. Importing(k) = Importing(u) \ {i}
  BY <1>19 DEF Importing
<1>22. Stages(k)
  <2>1. \A n \in Mods : k.mods[n].name = Nil => k.mods[n] = NoModule
    BY <1>3, <1>6, <1>10, <1>13, <1>15 DEF Stages
  <2>2. \A n \in Live(k) : Adult(u, n) => Adult(k, n)
    BY <1>17, <1>18
  <2> QED
    BY <1>3, <1>15, <1>16, <1>17, <1>18, <2>1, <2>2 DEF Stages
<1>23. Kept(k, TRUE)
  <2>1. \A n \in Mods : Adult(u, n) => Adult(k, n)
    BY <1>18
  <2> QED
    BY <1>3, <1>15, <1>17, <1>20, <2>1 DEF Kept
<1>24. \A j \in Importing(u) : /\ j # i => u.mods[u.frames[j].mod].name # name
                               /\ u.frames[j].mod \in Live(u)
  BY <1>2, <1>3, <1>6 DEF Nested, Importing, name
<1>25. name \in Shared => u.table[name] = Nil
  BY <1>2, <1>3, <1>6 DEF Nested, name
<1>26. Nested(k)
  <2>1. \A j \in DOMAIN u.frames \ {i} : u.frames[j].mod # m
    BY <1>3, <1>4, <1>6 DEF Nested
  <2>2. ASSUME NEW j \in DOMAIN k.frames
        PROVE  /\ k.frames[j].mod \in Live(k)
               /\ IF k.frames[j].phase = "init" THEN Adult(k, k.frames[j].mod)
                  ELSE k.mods[k.frames[j].mod].refsum = -1
    <3>1. CASE j = i
      BY <1>6, <1>17, <1>18, <1>19, <3>1
    <3>2. CASE j # i
      <4>1. k.frames[j] = u.frames[j] /\ u.frames[j].mod \in Live(u) /\ u.frames[j].mod \in Mods \ {m}
        BY <1>3, <1>17, <1>19, <2>1, <3>2 DEF Nested
      <4> QED
        BY <1>3, <1>15, <1>17, <1>18, <1>19, <4>1 DEF Nested
    <3> QED
      BY <3>1, <3>2
  <2>3. ASSUME NEW j \in DOMAIN k.frames, k.frames[j].dest = Nil
        PROVE  j > 1 /\ k.frames[j - 1].phase = "import"
    <3>1. j > 1 /\ u.frames[j - 1].phase = "import" /\ j \in DOMAIN u.frames
      BY <1>3, <1>19, <2>3 DEF Nested
    <3>2. DOMAIN u.frames = 1 .. i /\ i \in Nat
      BY <1>3, <1>4, TopFrame
    <3>3. j - 1 \in DOMAIN u.frames \ {i}
      BY <3>1, <3>2
    <3> QED
      BY <1>19, <3>1, <3>3
  <2>4. \A j, l \in DOMAIN k.frames : j # l => k.frames[j].mod # k.frames[l].mod
    BY <1>3, <1>19 DEF Nested
  <2>5. \A j \in Importing(k) : /\ j \in Importing(u) /\ k.frames[j].mod = u.frames[j].mod
                                /\ k.mods[k.frames[j].mod].name = u.mods[u.frames[j].mod].name
                                /\ u.mods[u.frames[j].mod].name # name
    BY <1>16, <1>17, <1>19, <1>21, <1>24 DEF Importing
  <2>6. \A j, l \in Importing(k) :
            j # l => k.mods[k.frames[j].mod].name # k.mods[k.frames[l].mod].name
    BY <1>3, <2>5 DEF Nested
  <2>7. \A j \in Importing(k) : k.mods[k.frames[j].mod].name \in Shared =>
            k.table[k.mods[k.frames[j].mod].name] = Nil
    <3>1. Shared \subseteq Names
      BY ModulesAssumption
    <3> QED
      BY <1>3, <1>11, <1>15, <2>5, <3>1, SMTT(30) DEF Nested
  <2> QED
    BY <2>2, <2>3, <2>4, <2>6, <2>7 DEF Nested
<1>27. Tabled(k)
  <2>1. \A n \in Names : u.table[n] # Nil => u.table[n] \in Mods \ {m} /\ Adult(u, u.table[n])
    BY <1>3, <1>6 DEF Tabled, Heap
  <2>2. ASSUME NEW n \in Names, k.table[n] # Nil
        PROVE  Adult(k, k.table[n]) /\ k.mods[k.table[n]].name = n
    <3>1. CASE n = name /\ name \in Shared
      BY <1>11, <1>13, <1>15, <1>18, <3>1
    <3>2. CASE ~(n = name /\ name \in Shared)
      <4>1. k.table[n] = u.table[n]
        BY <1>11, <1>15, <3>2
      <4> QED
        BY <1>3, <1>16, <1>18, <2>1, <2>2, <4>1 DEF Tabled
    <3> QED
      BY <3>1, <3>2
  <2>3. ASSUME NEW n \in Mods, Adult(k, n), k.mods[n].name \in Shared
        PROVE  k.table[k.mods[n].name] = n
    <3>1. CASE n = m
      BY <1>11, <1>13, <1>15, <2>3, <3>1
    <3>2. CASE n # m
      <4>1. Adult(u, n) /\ k.mods[n].name = u.mods[n].name /\ u.table[u.mods[n].name] = n
        BY <1>3, <1>16, <1>18, <2>3, <3>2 DEF Tabled
      <4>2. u.mods[n].name # name
        BY <1>10, <1>25, <2>3, <4>1
      <4>3. u.mods[n].name \in Names
        BY <2>3, <4>1, ModulesAssumption
      <4> QED
        BY <1>11, <1>15, <4>1, <4>2, <4>3
    <3> QED
      BY <3>1, <3>2
  <2> QED
    BY <2>2, <2>3 DEF Tabled
<1>28. Waiting(k, Nil)
  BY <1>3, <1>15, <1>17, <1>20 DEF Waiting
<1>29. Whole(k, TRUE, Nil)
  BY <1>15, <1>22, <1>23, <1>26, <1>27, <1>28 DEF Whole
<1>30. ASSUME Unbroken(heap)
       PROVE  Unbroken(k)
  <2>1. ASSUME k.lost # {}
        PROVE  \E j \in DOMAIN k.frames : k.frames[j].phase = "fail"
    <3>1. PICK j \in DOMAIN u.frames : u.frames[j].phase = "fail"
      BY <1>2, <1>15, <1>30, <2>1 DEF Unbroken
    <3>2. j # i
      BY <1>1, <1>4, <3>1
    <3> QED
      BY <1>19, <3>1, <3>2
  <2>2. ASSUME NEW n \in Live(k), k.mods[n].refsum = -1
        PROVE  \E j \in DOMAIN k.frames : k.frames[j].mod = n
    <3>1. n # m /\ n \in Mods
      BY <1>13, <1>15, <1>17, <2>2
    <3>2. n \in Live(heap) /\ heap.mods[n].refsum = -1
      BY <1>2, <1>15, <1>17, <2>2, <3>1 DEF Live
    <3>3. PICK j \in DOMAIN heap.frames : heap.frames[j].mod = n
      BY <1>30, <3>2 DEF Unbroken
    <3> QED
      BY <1>2, <1>19, <3>3
  <2> QED
    BY <1>2, <1>15, <1>30, <2>1, <2>2 DEF Unbroken
<1> QED
  BY <1>2, <1>5, <1>15, <1>21, <1>29, <1>30

-----------------------------------------------------------------------------
(* The invariant holds at first. *)

LEMMA SetToSeqDoes ==
    ASSUME NEW S, IsFiniteSet(S)
    PROVE  SetToSeq(S) \in Seq(S) /\ Once(SetToSeq(S)) /\ ToSet(SetToSeq(S)) = S
<1> DEFINE n == Cardinality(S)
           f == SetToSeq(S)
<1>1. n \in Nat /\ ExistsBijection(1 .. n, S)
  BY FS_CardinalityType
<1>2. \E g \in [1 .. n -> S] : IsInjective(g)
  BY <1>1 DEF ExistsBijection, Bijection, Injection
<1>3. f \in [1 .. n -> S] /\ IsInjective(f)
  BY <1>2 DEF SetToSeq
<1> HIDE DEF f, n
<1>4. f \in Injection(1 .. n, S)
  BY <1>3 DEF Injection
<1>5. n \in Int /\ 1 \in Int /\ (IF 1 > n THEN 0 ELSE n - 1 + 1) = n
  BY <1>1
<1>6. Cardinality(1 .. n) = n
  BY <1>5, FS_Interval
<1>7. f \in Surjection(1 .. n, S)
  BY <1>4, <1>6, FS_Injection DEF n
<1>8. DOMAIN f = 1 .. n /\ \A t \in S : \E i \in 1 .. n : f[i] = t
  BY <1>3, <1>7 DEF Surjection
<1>9. f \in Seq(S)
  BY <1>1, <1>3
<1>10. Once(f) /\ ToSet(f) = S
  BY <1>3, <1>8 DEF Once, ToSet, IsInjective
<1> QED
  BY <1>9, <1>10 DEF f

LEMMA OnceCounts ==
    ASSUME NEW S, NEW s \in Seq(S), Once(s)
    PROVE  Cardinality(ToSet(s)) = Len(s)
<1>1. Len(s) \in Nat /\ DOMAIN s = 1 .. Len(s) /\ s = [i \in 1 .. Len(s) |-> s[i]]
  BY LenProperties
<1>2. s \in [1 .. Len(s) -> ToSet(s)]
  BY <1>1 DEF ToSet
<1>3. IsInjective(s)
  BY DEF Once, IsInjective
<1>4. \A t \in ToSet(s) : \E i \in 1 .. Len(s) : s[i] = t
  BY <1>1 DEF ToSet
<1>5. s \in Bijection(1 .. Len(s), ToSet(s))
  BY <1>2, <1>3, <1>4 DEF Bijection, Injection, Surjection
<1>6. ExistsBijection(1 .. Len(s), ToSet(s))
  BY <1>5 DEF ExistsBijection
<1> QED
  BY <1>1, <1>6, FS_CountingElements

LEMMA InitSound == Init => Sound
<1> SUFFICES ASSUME Init PROVE Sound
  OBVIOUS
<1> DEFINE C(m) == [NoModule EXCEPT !.name = m, !.exports = {m}]
<1>1. PICK h : h = heap
  OBVIOUS
<1>2. h = [mods |-> [m \in Mods |-> IF m \in Binaries THEN C(m) ELSE NoModule],
           dead |-> SetToSeq(Binaries),
           table |-> [n \in Names |-> IF n \in Binaries THEN n ELSE Nil],
           lock |-> 0, vars |-> [v \in Vars |-> Nil],
           frames |-> << >>, leaked |-> << >>, lost |-> {}]
  BY <1>1 DEF Init
<1>3. /\ Scripts \cap Binaries = {} /\ Files \cap Binaries = {} /\ Binaries \subseteq Mods
      /\ Binaries \subseteq Names /\ Nil \notin Mods /\ Nil \notin Names /\ Binaries \subseteq Shared
      /\ IsFiniteSet(Binaries) /\ \A m \in Mods : Module(m) # Nil /\ Function(m) # Nil
  BY ModulesAssumption, NilAssumption DEF Mods, Names
<1>4. /\ \A m \in Binaries : /\ C(m) \in Record /\ C(m).name = m /\ C(m).exports = {m} /\ C(m).refsum = 0
                             /\ C(m).static = Nil /\ C(m).uses = {}
      /\ NoModule \in Record /\ NoModule.name = Nil
  <2>1. ASSUME NEW m \in Binaries
        PROVE  /\ C(m) \in Record /\ C(m).name = m /\ C(m).exports = {m} /\ C(m).refsum = 0
               /\ C(m).static = Nil /\ C(m).uses = {}
    <3> DEFINE c == [NoModule EXCEPT !.name = m, !.exports = {m}]
    <3>1. {m} \in SUBSET Mods /\ {} \in SUBSET Mods /\ m \in Names /\ Nil \in Value
      BY <1>3 DEF Value
    <3>2. /\ c \in Record /\ c.name = m /\ c.exports = {m} /\ c.refsum = 0
          /\ c.static = Nil /\ c.uses = {}
      <4>1. /\ NoModule \in Record /\ NoModule.refsum = 0
            /\ NoModule.static = Nil /\ NoModule.uses = {}
        BY DEF NoModule, Record, Value
      <4> QED
        BY <3>1, <4>1 DEF Record
    <3>3. C(m) = c
      OBVIOUS
    <3> QED
      BY <3>2, <3>3
  <2>2. NoModule \in Record /\ NoModule.name = Nil
    BY DEF NoModule, Record, Value
  <2> QED
    BY <2>1, <2>2
<1> HIDE DEF C
<1>5. /\ h.dead = SetToSeq(Binaries) /\ h.lock = 0 /\ h.lost = {}
      /\ h.frames = << >> /\ h.leaked = << >> /\ DOMAIN h.frames = {} /\ DOMAIN h.leaked = {}
      /\ h.mods = [m \in Mods |-> IF m \in Binaries THEN C(m) ELSE NoModule]
      /\ h.table = [n \in Names |-> IF n \in Binaries THEN n ELSE Nil]
      /\ h.vars = [v \in Vars |-> Nil]
  BY <1>2
<1>6. SetToSeq(Binaries) \in Seq(Binaries) /\ Once(h.dead) /\ ToSet(h.dead) = Binaries
  BY <1>3, <1>5, SetToSeqDoes
<1>7. h \in Heap
  <2>1. SetToSeq(Binaries) \in Seq(Mods)
    BY <1>3, <1>6
  <2>2. [m \in Mods |-> IF m \in Binaries THEN C(m) ELSE NoModule] \in [Mods -> Record]
    BY <1>4
  <2>3. /\ [n \in Names |-> IF n \in Binaries THEN n ELSE Nil] \in [Names -> Mods \cup {Nil}]
        /\ [v \in Vars |-> Nil] \in [Vars -> Value]
    BY <1>3 DEF Value
  <2>4. << >> \in Seq(Loading) /\ << >> \in Seq(Context)
    OBVIOUS
  <2> QED
    BY <1>2, <2>1, <2>2, <2>3, <2>4 DEF Heap
<1>8. /\ \A m \in Binaries : h.mods[m] = C(m)
      /\ \A m \in Mods \ Binaries : h.mods[m] = NoModule
  BY <1>3, <1>5
<1>9. Live(h) = Binaries
  BY <1>3, <1>4, <1>8 DEF Live
<1>10. \A m \in Mods : ~Used(h, m) /\ ~Had(h, m) /\ ~Owned(h, m)
  <2>1. ASSUME NEW m \in Mods
        PROVE  /\ \A v \in Vars : h.vars[v] # Function(m) /\ h.vars[v] # Module(m)
               /\ \A n \in Live(h) : /\ h.mods[n].static # Function(m) /\ h.mods[n].static # Module(m)
                                     /\ m \notin h.mods[n].uses
                                     /\ n # m => m \notin h.mods[n].exports
    BY <1>3, <1>4, <1>5, <1>8, <1>9
  <2> QED
    BY <1>5, <2>1 DEF Used, Had, Owned
<1>11. \A m \in Mods : Adult(h, m) <=> m \in Binaries
  BY <1>3, <1>4, <1>8 DEF Adult
<1>12. Stages(h)
  BY <1>3, <1>4, <1>8, <1>9, <1>11 DEF Stages
<1>13. Kept(h, TRUE)
  BY <1>5, <1>10 DEF Kept
<1>14. Nested(h) /\ Importing(h) = {}
  BY <1>5 DEF Nested, Importing
<1>15. Tabled(h)
  <2>1. \A n \in Names : h.table[n] = IF n \in Binaries THEN n ELSE Nil
    BY <1>5
  <2> QED
    BY <1>3, <1>4, <1>8, <1>11, <2>1 DEF Tabled
<1>16. Waiting(h, Nil)
  BY <1>3, <1>6, <1>9, <1>10 DEF Waiting
<1>17. Whole(h, TRUE, Nil)
  BY <1>7, <1>12, <1>13, <1>14, <1>15, <1>16 DEF Whole
<1>18. h.lock = Cardinality(Importing(h))
  BY <1>5, <1>14, FS_EmptySet
<1>19. Unbroken(h)
  BY <1>4, <1>5, <1>8, <1>9 DEF Unbroken
<1>20. phase = "open" /\ failures = 0
  BY DEF Init
<1>21. Closing
  BY <1>20 DEF Closing
<1>22. Whole(heap, phase = "open", Nil)
  <2>1. (phase = "open") = TRUE
    BY <1>20
  <2> QED
    BY <1>1, <1>17, <2>1
<1> QED
  BY <1>1, <1>18, <1>19, <1>20, <1>21, <1>22 DEF Sound

-----------------------------------------------------------------------------
(* Every step keeps the invariant. *)

LEMMA OpenStep ==
    ASSUME phase = "open", UNCHANGED phase, Whole(heap', TRUE, Nil),
           heap'.lock = Cardinality(Importing(heap')),
           failures' \in Nat, failures' = 0 => Unbroken(heap')
    PROVE  Sound'
<1>1. phase' = "open" /\ (phase' = "open") = TRUE
  OBVIOUS
<1>2. Whole(heap', phase' = "open", Nil)
  BY <1>1
<1>3. Closing'
  BY <1>1 DEF Closing
<1> QED
  BY <1>2, <1>3 DEF Sound

LEMMA SteadyStep ==
    ASSUME Sound, phase = "open", UNCHANGED phase, Whole(heap', TRUE, Nil), Steady(heap', heap),
           failures' \in Nat, failures' = 0 => failures = 0
    PROVE  Sound'
<1>1. heap.lock = Cardinality(Importing(heap)) /\ (failures = 0 => Unbroken(heap))
  BY DEF Sound
<1>2. /\ Importing(heap') = Importing(heap) /\ heap'.lock = heap.lock
      /\ Unbroken(heap) => Unbroken(heap')
  BY SteadyKeeps
<1> QED
  BY <1>1, <1>2, OpenStep

LEMMA LoadStep ==
    ASSUME Sound, phase = "open", Whole(heap, TRUE, Nil), NEW name \in Names,
           NEW dest \in Vars \cup {Nil},
           dest = Nil => heap.frames # << >> /\ Top(heap).phase = "import",
           Load(name, dest)
    PROVE  Sound'
<1>1. /\ Whole(heap', TRUE, Nil) /\ (Steady(heap', heap) \/ Begins(heap', heap))
      /\ UNCHANGED <<phase, failures>>
  BY LoadKeeps
<1>2. /\ heap \in Heap /\ heap.lock = Cardinality(Importing(heap)) /\ failures \in Nat
      /\ failures = 0 => Unbroken(heap)
  BY DEF Sound, Whole
<1>3. CASE Steady(heap', heap)
  BY <1>1, <1>2, <1>3, SteadyStep
<1>4. CASE Begins(heap', heap)
  <2>1. heap'.lock = Cardinality(Importing(heap')) /\ (Unbroken(heap) => Unbroken(heap'))
    BY <1>2, <1>4, BeginsKeeps
  <2> QED
    BY <1>1, <1>2, <2>1, OpenStep
<1> QED
  BY <1>1, <1>3, <1>4

LEMMA InitReturnsStep ==
    ASSUME Sound, phase = "open", Whole(heap, TRUE, Nil), InitReturns
    PROVE  Sound'
<1> DEFINE m == Top(heap).mod
           dest == Top(heap).dest
           k == Popped
<1>1. heap' \in Delivered(k, m, dest) /\ UNCHANGED <<phase, failures>> /\ InInit
  BY DEF InitReturns
<1>2. /\ Whole(k, TRUE, m) /\ m \in Mods /\ Adult(k, m) /\ dest \in Vars \cup {Nil}
      /\ dest = Nil => k.frames # << >> /\ Top(k).phase = "import"
      /\ k.lock = heap.lock /\ Importing(k) = Importing(heap)
      /\ Unbroken(heap) => Unbroken(k)
  BY <1>1, PoppedKeeps
<1> HIDE DEF m, dest, k
<1>3. Whole(heap', TRUE, Nil) /\ Steady(heap', k)
  BY <1>1, <1>2, DeliveredKeeps
<1>4. /\ Importing(heap') = Importing(k) /\ heap'.lock = k.lock
      /\ Unbroken(k) => Unbroken(heap')
  BY <1>3, SteadyKeeps
<1>5. /\ heap.lock = Cardinality(Importing(heap)) /\ failures \in Nat
      /\ failures = 0 => Unbroken(heap)
  BY DEF Sound
<1> QED
  BY <1>1, <1>2, <1>3, <1>4, <1>5, OpenStep

LEMMA InitThrowsStep ==
    ASSUME Sound, phase = "open", Whole(heap, TRUE, Nil), InitThrows
    PROVE  Sound'
<1> DEFINE m == Top(heap).mod
           dest == Top(heap).dest
           k == Popped
           g == Disown(k, Module(m))
<1>1. heap' = Failed(g, dest) /\ failures' = failures + 1 /\ UNCHANGED phase /\ InInit
  BY DEF InitThrows
<1>2. /\ Whole(k, TRUE, m) /\ m \in Mods /\ m \in Live(k) /\ dest \in Vars \cup {Nil}
      /\ dest = Nil => k.frames # << >> /\ Top(k).phase = "import"
      /\ k.lock = heap.lock /\ Importing(k) = Importing(heap)
  BY <1>1, PoppedKeeps
<1> HIDE DEF m, dest, k
<1>3. Module(m) \in Value /\ Target(Module(m)) = m
  BY <1>2, TargetIs DEF Value
<1>4. Whole(g, TRUE, Nil) /\ Less(g, k)
  BY <1>2, <1>3, DisownKeeps
<1> HIDE DEF g
<1>5. dest = Nil => g.frames # << >> /\ Top(g).phase # "init"
  BY <1>2, <1>4 DEF Less, SameHolders, Top
<1>6. Whole(heap', TRUE, Nil) /\ Steady(heap', g)
  BY <1>1, <1>4, <1>5, FailKeeps
<1>7. Importing(heap') = Importing(k) /\ heap'.lock = k.lock
  BY <1>4, <1>6, LessSteady, SteadyKeeps
<1>8. heap.lock = Cardinality(Importing(heap)) /\ failures \in Nat
  BY DEF Sound
<1>9. failures' \in Nat /\ failures' # 0
  BY <1>1, <1>8
<1> QED
  BY <1>1, <1>2, <1>6, <1>7, <1>8, <1>9, OpenStep

\* What compile() does on its own.
LEMMA CompilingStep ==
    ASSUME Sound, phase = "open", Whole(heap, TRUE, Nil),
           ImportNext \/ Finish \/ CompileError \/ Abort
    PROVE  Sound'
<1>1. /\ heap \in Heap /\ heap.lock = Cardinality(Importing(heap)) /\ failures \in Nat
      /\ failures = 0 => Unbroken(heap)
  BY DEF Sound, Whole
<1>2. CASE ImportNext
  <2>1. /\ heap.frames # << >> /\ Top(heap).phase = "import"
        /\ Top(heap).next <= Len(ToImport) /\ Load(ToImport[Top(heap).next], Nil)
    BY <1>2 DEF ImportNext, Compiling
  <2>2. heap.mods[Top(heap).mod].name \in Files
    BY <2>1, TopIs
  <2>3. ToImport \in Seq(Names)
    BY <2>2, ModulesAssumption DEF ToImport
  <2>4. Top(heap).next \in Nat \ {0}
    BY <1>1, <2>1, TopFrame DEF Loading
  <2>5. ToImport[Top(heap).next] \in Names
    <3>1. Top(heap).next \in 1 .. Len(ToImport)
      BY <2>1, <2>3, <2>4, LenProperties
    <3> QED
      BY <2>3, <3>1, ElementOfSeq
  <2> QED
    BY <2>1, <2>5, LoadStep
<1>3. CASE Finish
  <2>1. /\ Whole(heap', TRUE, Nil) /\ heap'.lock = Cardinality(Importing(heap'))
        /\ Unbroken(heap) => Unbroken(heap')
    BY <1>1, <1>3, FinishKeeps
  <2> QED
    BY <1>1, <1>3, <2>1, OpenStep DEF Finish
<1>4. CASE CompileError
  <2>1. /\ heap.frames # << >> /\ Top(heap).phase # "init" /\ heap' = Failed(heap, Nil)
        /\ failures' = failures + 1 /\ UNCHANGED phase
    BY <1>4 DEF CompileError, Compiling
  <2>2. Whole(heap', TRUE, Nil) /\ Steady(heap', heap)
    BY <2>1, FailKeeps
  <2>3. failures' \in Nat /\ failures' # 0
    BY <1>1, <2>1
  <2> QED
    BY <2>1, <2>2, <2>3, SteadyStep
<1>5. CASE Abort
  <2>1. Whole(heap', TRUE, Nil) /\ heap'.lock = Cardinality(Importing(heap'))
    BY <1>1, <1>5, AbortKeeps
  <2>2. failures' \in Nat /\ failures' # 0 /\ UNCHANGED phase
    BY <1>1, <1>5 DEF Abort
  <2> QED
    BY <2>1, <2>2, OpenStep
<1> QED
  BY <1>2, <1>3, <1>4, <1>5

\* What the program does.
LEMMA ProgramStep ==
    ASSUME Sound, phase = "open", Whole(heap, TRUE, Nil), "module" \notin Risky,
           ProgramLoads \/ Assign \/ Drop \/ SetStatic \/ CleanModules
    PROVE  Sound'
<1>1. /\ heap \in Heap /\ failures \in Nat /\ heap.vars \in [Vars -> Value]
  BY DEF Sound, Whole, Heap
<1>2. Nil \in Value /\ Target(Nil) = Nil /\ Nil \notin Vars /\ Nil \notin Mods
  BY TargetIs, NilAssumption DEF Value
<1>3. Nil \notin ToSet(heap.dead)
  BY DEF Whole, Waiting
<1>4. CASE ProgramLoads
  <2>1. PICK v \in Vars, name \in Names : heap.vars[v] = Nil /\ Load(name, v)
    BY <1>4 DEF ProgramLoads
  <2> QED
    BY <1>2, <2>1, LoadStep
<1>5. CASE Assign
  <2>1. PICK v \in Vars, x \in Reachable \ {Nil} :
            heap.vars[v] = Nil /\ heap' = [heap EXCEPT !.vars[v] = x]
    BY <1>5 DEF Assign
  <2>2. x \in Value /\ Adult(heap, x.of) /\ Target(x) \notin ToSet(heap.dead)
    BY ReachedLives
  <2> DEFINE t == Target(heap.vars[v])
  <2>3. Whole(heap', TRUE, t) /\ Steady(heap', heap)
    BY <2>1, <2>2, StoreKeeps
  <2>4. t = Nil
    BY <1>2, <2>1
  <2> QED
    BY <1>1, <1>5, <2>3, <2>4, SteadyStep DEF Assign
<1>6. CASE Drop
  <2>1. PICK v \in Vars : heap' = Disown([heap EXCEPT !.vars[v] = Nil], heap.vars[v])
    BY <1>6 DEF Drop
  <2> DEFINE k == [heap EXCEPT !.vars[v] = Nil]
             t == Target(heap.vars[v])
  <2>2. Whole(k, TRUE, t) /\ t \in Live(k) \cup {Nil} /\ Steady(k, heap) /\ heap.vars[v] \in Value
    BY <1>2, <1>3, StoreKeeps
  <2> HIDE DEF k
  <2>3. Whole(heap', TRUE, Nil) /\ Less(heap', k)
    BY <2>1, <2>2, DisownKeeps DEF k
  <2>4. Steady(heap', heap)
    BY <2>2, <2>3, LessSteady, SteadySteady
  <2> QED
    BY <1>1, <1>6, <2>3, <2>4, SteadyStep DEF Drop
<1>7. CASE SetStatic
  <2>1. PICK f \in (Sight \cup Reachable) \ {Nil}, x \in Sight \cup {Nil} :
            heap' = Disown([heap EXCEPT !.mods[f.of].static = x], heap.mods[f.of].static)
    BY <1>7 DEF SetStatic
  <2>2. f.of \in Live(heap)
    <3>1. f \in Value /\ Adult(heap, f.of) /\ f # Nil
      BY ReachedLives
    <3> QED
      BY <3>1 DEF Value, Module, Function, Adult, Live
  <2>3. /\ x \in Value /\ Target(x) \notin ToSet(heap.dead)
        /\ x # Nil => Adult(heap, x.of)
    <3>1. CASE x = Nil
      BY <1>2, <1>3, <3>1
    <3>2. CASE x # Nil
      BY <3>2, ReachedLives
    <3> QED
      BY <3>1, <3>2
  <2> DEFINE m == f.of
             k == [heap EXCEPT !.mods[m].static = x]
             t == Target(heap.mods[m].static)
  <2>4. /\ Whole(k, TRUE, t) /\ t \in Live(k) \cup {Nil} /\ Steady(k, heap)
        /\ heap.mods[m].static \in Value
    BY <2>2, <2>3, StaticKeeps
  <2> HIDE DEF k
  <2>5. Whole(heap', TRUE, Nil) /\ Less(heap', k)
    BY <2>1, <2>4, DisownKeeps DEF k
  <2>6. Steady(heap', heap)
    BY <2>4, <2>5, LessSteady, SteadySteady
  <2> QED
    BY <1>1, <1>7, <2>5, <2>6, SteadyStep DEF SetStatic
<1>8. CASE CleanModules
  <2>1. heap' = Clean(heap) /\ UNCHANGED <<phase, failures>>
    BY <1>8 DEF CleanModules
  <2>2. Whole(heap', TRUE, Nil) /\ Less(heap', heap)
    BY <2>1, CleanKeeps
  <2> QED
    BY <1>1, <2>1, <2>2, LessSteady, SteadyStep
<1> QED
  BY <1>4, <1>5, <1>6, <1>7, <1>8

\* es_close: nothing is compiled any more.
LEMMA ClosingStep ==
    ASSUME Sound, phase # "open", phase' # "open", Whole(heap', phase = "open", Nil),
           heap'.frames = heap.frames, heap'.lock = heap.lock, failures' = failures,
           failures = 0 => Unbroken(heap'), Closing'
    PROVE  Sound'
<1>1. Importing(heap') = Importing(heap)
  BY DEF Importing
<1>2. Whole(heap', phase' = "open", Nil)
  <2>1. (phase = "open") = (phase' = "open")
    OBVIOUS
  <2> QED
    BY <2>1
<1>3. heap'.lock = Cardinality(Importing(heap')) /\ failures' \in Nat
  BY <1>1 DEF Sound
<1> QED
  BY <1>2, <1>3 DEF Sound

LEMMA CloseStep ==
    ASSUME Sound, Close
    PROVE  Sound'
<1>1. phase = "open" /\ phase' = "cleanup" /\ heap.frames = << >> /\ UNCHANGED <<heap, failures>>
  BY DEF Close
<1>2. Whole(heap, TRUE, Nil)
  <2>1. (phase = "open") = TRUE
    BY <1>1
  <2> QED
    BY <2>1 DEF Sound
<1>3. Whole(heap, FALSE, Nil)
  BY <1>2 DEF Whole, Kept
<1>4. Whole(heap, phase' = "open", Nil)
  <2>1. (phase' = "open") = FALSE
    BY <1>1
  <2> QED
    BY <1>3, <2>1
<1>5. Closing'
  BY <1>1 DEF Closing
<1>6. heap.lock = Cardinality(Importing(heap)) /\ failures \in Nat /\ (failures = 0 => Unbroken(heap))
  BY DEF Sound
<1>7. heap' = heap
  BY <1>1
<1> QED
  BY <1>1, <1>4, <1>5, <1>6, <1>7 DEF Sound

LEMMA CleanupDropStep ==
    ASSUME Sound, phase = "cleanup", Drop
    PROVE  Sound'
<1> DEFINE open == phase = "open"
<1>1. /\ Whole(heap, open, Nil) /\ heap.frames = << >> /\ (failures = 0 => Unbroken(heap))
      /\ heap \in Heap
  BY DEF Sound, Closing, Whole
<1>2. PICK v \in Vars : heap' = Disown([heap EXCEPT !.vars[v] = Nil], heap.vars[v])
  BY DEF Drop
<1> DEFINE k == [heap EXCEPT !.vars[v] = Nil]
           t == Target(heap.vars[v])
<1>3. Nil \in Value /\ Target(Nil) = Nil /\ Nil \notin ToSet(heap.dead)
  BY <1>1, TargetIs DEF Value, Whole, Waiting
<1> HIDE DEF open
<1>4. Whole(k, open, t) /\ t \in Live(k) \cup {Nil} /\ Steady(k, heap) /\ heap.vars[v] \in Value
  BY <1>1, <1>3, StoreKeeps
<1> HIDE DEF k
<1>5. Whole(heap', open, Nil) /\ Less(heap', k)
  BY <1>2, <1>4, DisownKeeps DEF k, open
<1>6. k.frames = heap.frames /\ k.lock = heap.lock
  BY DEF k
<1>7. heap'.frames = heap.frames /\ heap'.lock = heap.lock
  BY <1>5, <1>6 DEF Less, SameHolders
<1>8. Unbroken(heap) => Unbroken(heap')
  BY <1>4, <1>5, LessSteady, SteadySteady, SteadyKeeps
<1>9. UNCHANGED <<phase, failures>>
  BY DEF Drop
<1>10. Closing'
  BY <1>1, <1>7, <1>9 DEF Closing
<1> QED
  BY <1>1, <1>5, <1>7, <1>8, <1>9, <1>10, ClosingStep DEF open

\* The collector runs until it finds nothing: what waits then is kept.
LEMMA CloseCollectsStep ==
    ASSUME Sound, CloseCollects
    PROVE  Sound'
<1>1. /\ phase \in {"cleanup", "collect"} /\ \A v \in Vars : heap.vars[v] = Nil
      /\ heap' = Clean(heap) /\ failures' = failures
      /\ phase' = IF Live(heap') = Live(heap) THEN "contexts" ELSE "collect"
  BY DEF CloseCollects
<1>2. /\ Whole(heap, phase = "open", Nil) /\ heap.frames = << >> /\ failures \in Nat
      /\ (failures = 0 => Unbroken(heap)) /\ heap.lock = Cardinality(Importing(heap))
  BY <1>1 DEF Sound, Closing
<1>3. ~(heap.lock > 0)
  <2>1. Importing(heap) = {}
    BY <1>2 DEF Importing
  <2> QED
    BY <1>2, <2>1, FS_EmptySet
<1>4. /\ Whole(heap', phase = "open", Nil) /\ Less(heap', heap)
      /\ Live(heap') = Live(heap) => heap' = heap /\ \A m \in ToSet(heap.dead) : Refuses(heap, m)
  BY <1>1, <1>2, <1>3, CleanKeeps
<1>5. heap'.frames = heap.frames /\ heap'.lock = heap.lock /\ heap'.vars = heap.vars
  BY <1>4 DEF Less, SameHolders
<1>6. Unbroken(heap) => Unbroken(heap')
  BY <1>4, LessSteady, SteadyKeeps
<1>7. phase' = "contexts" => \A m \in ToSet(heap'.dead) : Busy(heap', m)
  <2>1. \A m : Refuses(heap, m) => Busy(heap, m)
    BY <1>1 DEF Refuses, Busy
  <2> QED
    BY <1>1, <1>4, <2>1
<1>8. Closing'
  BY <1>1, <1>2, <1>5, <1>7 DEF Closing
<1>9. phase # "open" /\ phase' # "open"
  BY <1>1
<1> QED
  BY <1>1, <1>2, <1>4, <1>5, <1>6, <1>8, <1>9, ClosingStep

\* eel_s_free: what a failed compilation left loses its owner.
LEMMA CloseContextsStep ==
    ASSUME Sound, CloseContexts
    PROVE  Sound'
<1> DEFINE open == phase = "open"
           l == Head(heap.leaked)
           m == l.mod
           k == [heap EXCEPT !.leaked = Tail(@)]
<1>1. /\ phase = "contexts" /\ heap.leaked # << >> /\ heap' = Disown(k, Module(m))
      /\ UNCHANGED <<phase, failures>>
  BY DEF CloseContexts
<1>2. /\ Whole(heap, open, Nil) /\ heap.frames = << >> /\ (failures = 0 => Unbroken(heap))
      /\ \A v \in Vars : heap.vars[v] = Nil
  BY <1>1 DEF Sound, Closing
<1>3. failures # 0
  BY <1>1, <1>2 DEF Unbroken
<1>4. /\ heap \in Heap /\ heap.leaked \in Seq(Context) /\ Stages(heap) /\ Kept(heap, open)
      /\ ToSet(heap.dead) = {n \in Live(heap) : ~Owned(heap, n)} \ {Nil}
  BY <1>2 DEF Whole, Waiting, Heap
<1> DEFINE N == Len(heap.leaked)
           ls == Tail(heap.leaked)
<1>5. /\ N \in Nat /\ DOMAIN heap.leaked = 1 .. N /\ 1 \in DOMAIN heap.leaked /\ l = heap.leaked[1]
      /\ ls \in Seq(Context) /\ DOMAIN ls = 1 .. N - 1
      /\ \A i \in 1 .. N - 1 : ls[i] = heap.leaked[i + 1]
  <2>1. N \in Nat /\ DOMAIN heap.leaked = 1 .. N /\ N # 0
    BY <1>1, <1>4, LenProperties, EmptySeq
  <2>2. /\ l = heap.leaked[1] /\ ls \in Seq(Context) /\ Len(ls) = N - 1
        /\ \A i \in 1 .. N - 1 : ls[i] = heap.leaked[i + 1]
    BY <1>1, <1>4, HeadTailProperties
  <2>3. DOMAIN ls = 1 .. Len(ls)
    BY <2>2, LenProperties
  <2> HIDE DEF ls, N, l
  <2> QED
    BY <2>1, <2>2, <2>3
<1> HIDE DEF open, l, ls, N
<1>6. /\ k \in Heap /\ k.mods = heap.mods /\ k.vars = heap.vars /\ k.table = heap.table
      /\ k.dead = heap.dead /\ k.lost = heap.lost /\ k.frames = heap.frames /\ k.lock = heap.lock
      /\ k.leaked = ls
  BY <1>4, <1>5 DEF Heap, ls
<1> HIDE DEF k
<1>7. Live(k) = Live(heap) /\ \A n : Adult(k, n) <=> Adult(heap, n)
  BY <1>6, SameModules
<1>8. m \in Live(heap) /\ m \in Mods /\ Owned(heap, m)
  BY <1>4, <1>5 DEF Kept, Live, Owned
<1>9. /\ \A i \in DOMAIN k.leaked : \E j \in DOMAIN heap.leaked : k.leaked[i] = heap.leaked[j]
      /\ \A j \in DOMAIN heap.leaked : heap.leaked[j] = l \/ \E i \in DOMAIN k.leaked : k.leaked[i] = heap.leaked[j]
  <2>1. \A i \in 1 .. N - 1 : i + 1 \in 1 .. N
    BY <1>5
  <2>2. \A j \in 1 .. N : j = 1 \/ (j - 1 \in 1 .. N - 1 /\ j - 1 + 1 = j)
    BY <1>5
  <2>3. \A i \in DOMAIN k.leaked : \E j \in DOMAIN heap.leaked : k.leaked[i] = heap.leaked[j]
    BY <1>5, <1>6, <2>1
  <2>4. ASSUME NEW j \in DOMAIN heap.leaked, heap.leaked[j] # l
        PROVE  \E i \in DOMAIN k.leaked : k.leaked[i] = heap.leaked[j]
    <3>1. j - 1 \in 1 .. N - 1 /\ j - 1 + 1 = j
      BY <1>5, <2>2, <2>4
    <3>2. j - 1 \in DOMAIN k.leaked /\ k.leaked[j - 1] = heap.leaked[j]
      BY <1>5, <1>6, <3>1
    <3> QED
      BY <3>2
  <2> QED
    BY <2>3, <2>4
<1>10. \A n \in Mods : Used(k, n) => Used(heap, n)
  BY <1>6, <1>7, <1>9 DEF Used
<1>11. \A n \in Mods : Had(k, n) <=> Had(heap, n)
  BY <1>6, <1>7 DEF Had
<1>12. \A n \in Mods \ {m} : Owned(k, n) <=> Owned(heap, n)
  <2>1. \A n \in Mods \ {m} : (\E i \in DOMAIN k.leaked : k.leaked[i].mod = n) <=>
                              (\E j \in DOMAIN heap.leaked : heap.leaked[j].mod = n)
    BY <1>9
  <2> QED
    BY <1>6, <1>7, <2>1 DEF Owned
<1> HIDE DEF m
<1>13. ToSet(heap.dead) = {n \in Live(heap) : ~Owned(k, n)} \ {m}
  <2>1. Live(heap) \subseteq Mods /\ Nil \notin Mods
    BY NilAssumption DEF Live
  <2> QED
    BY <1>4, <1>8, <1>12, <2>1
<1>14. \A i \in DOMAIN k.leaked : k.leaked[i].mod \in Live(heap)
  BY <1>4, <1>9 DEF Kept
<1>15. Stages(k)
  BY <1>4, <1>6, <1>7 DEF Stages
<1>16. SameLoads(k, heap)
  BY <1>6 DEF SameLoads
<1>17. \A n \in Mods : k.mods[n].name = heap.mods[n].name /\ k.mods[n].refsum = heap.mods[n].refsum
  BY <1>6
<1>18. Whole(k, open, m)
  BY <1>2, <1>6, <1>7, <1>10, <1>11, <1>13, <1>14, <1>15, <1>16, <1>17, ReferencesMove
<1>19. Module(m) \in Value /\ Target(Module(m)) = m /\ m \in Live(k)
  BY <1>7, <1>8, TargetIs DEF Value
<1>20. Whole(heap', open, Nil) /\ Less(heap', k)
  BY <1>1, <1>18, <1>19, DisownKeeps DEF open
<1>21. heap'.frames = heap.frames /\ heap'.lock = heap.lock /\ heap'.vars = heap.vars
  BY <1>6, <1>20 DEF Less, SameHolders
<1>22. Closing'
  BY <1>1, <1>2, <1>3, <1>21 DEF Closing
<1>23. phase # "open" /\ phase' # "open" /\ failures' = failures
  BY <1>1
<1> QED
  BY <1>3, <1>20, <1>21, <1>22, <1>23, ClosingStep DEF open

LEMMA CloseLibraryStep ==
    ASSUME Sound, CloseLibrary
    PROVE  Sound'
<1>1. phase = "contexts" /\ heap' = Clean(heap) /\ phase' = "closed" /\ failures' = failures
  BY DEF CloseLibrary
<1>2. /\ Whole(heap, phase = "open", Nil) /\ heap.frames = << >> /\ (failures = 0 => Unbroken(heap))
      /\ \A v \in Vars : heap.vars[v] = Nil
      /\ failures = 0 => \A m \in ToSet(heap.dead) : Busy(heap, m)
  BY <1>1 DEF Sound, Closing
<1>3. /\ Whole(heap', phase = "open", Nil) /\ Less(heap', heap)
      /\ (\A m \in ToSet(heap.dead) : Refuses(heap, m)) => heap' = heap
  BY <1>1, <1>2, CleanKeeps
<1>4. failures = 0 => \A m \in ToSet(heap'.dead) : Busy(heap', m)
  <2>1. \A m : Busy(heap, m) => Refuses(heap, m)
    BY DEF Refuses, Busy
  <2> QED
    BY <1>2, <1>3, <2>1
<1>5. heap'.frames = heap.frames /\ heap'.lock = heap.lock /\ heap'.vars = heap.vars
  BY <1>3 DEF Less, SameHolders
<1>6. Unbroken(heap) => Unbroken(heap')
  BY <1>3, LessSteady, SteadyKeeps
<1>7. Closing'
  BY <1>1, <1>2, <1>4, <1>5 DEF Closing
<1>8. phase # "open" /\ phase' # "open"
  BY <1>1
<1> QED
  BY <1>1, <1>2, <1>3, <1>5, <1>6, <1>7, <1>8, ClosingStep

LEMMA StutterStep ==
    ASSUME Sound, UNCHANGED vars
    PROVE  Sound'
<1>1. heap' = heap /\ phase' = phase /\ failures' = failures
  BY DEF vars
<1>2. Closing'
  BY <1>1 DEF Sound, Closing
<1> QED
  BY <1>1, <1>2 DEF Sound

-----------------------------------------------------------------------------
(* The invariant, and the properties of the module system. *)

(***************************************************************************)
(* The inductive invariant: whatever is loaded, imported, dropped and      *)
(* collected, and however it fails, the references between modules, the    *)
(* list es->deadmods, the table of shared modules, module_lock and the     *)
(* order of es_close fit together.  A function gives out its module only   *)
(* while that is owned (Risky = {}): f_getindex() does not look, and takes *)
(* modules that wait without taking them off the list.                     *)
(***************************************************************************)
THEOREM ModulesSound == Risky = {} => (Spec => []Sound)
<1>1. SUFFICES ASSUME Risky = {} PROVE Spec => []Sound
  OBVIOUS
<1>2. ASSUME Sound, [Next]_vars
      PROVE  Sound'
  <2>1. CASE UNCHANGED vars
    BY <1>2, <2>1, StutterStep
  <2>2. CASE phase = "open"
    <3>1. Whole(heap, TRUE, Nil)
      <4>1. (phase = "open") = TRUE
        BY <2>2
      <4> QED
        BY <1>2, <4>1 DEF Sound
    <3>2. CASE ImportNext \/ Finish \/ CompileError \/ Abort
      BY <1>2, <2>2, <3>1, <3>2, CompilingStep
    <3>3. CASE InitReturns
      BY <1>2, <2>2, <3>1, <3>3, InitReturnsStep
    <3>4. CASE InitThrows
      BY <1>2, <2>2, <3>1, <3>4, InitThrowsStep
    <3>5. CASE ProgramLoads \/ Assign \/ Drop \/ SetStatic \/ CleanModules
      BY <1>1, <1>2, <2>2, <3>1, <3>5, ProgramStep
    <3>6. CASE Close
      BY <1>2, <3>6, CloseStep
    <3>7. CASE CloseCollects \/ CloseContexts \/ CloseLibrary
      BY <2>2, <3>7 DEF CloseCollects, CloseContexts, CloseLibrary
    <3> QED
      BY <1>2, <2>1, <3>2, <3>3, <3>4, <3>5, <3>6, <3>7 DEF Next
  <2>3. CASE phase # "open" /\ ~UNCHANGED vars
    <3>1. heap.frames = << >>
      BY <1>2, <2>3 DEF Sound, Closing
    <3>2. CASE ImportNext \/ Finish \/ CompileError \/ Abort \/ InitReturns \/ InitThrows
      BY <3>1, <3>2 DEF ImportNext, Finish, CompileError, Compiling, Abort, InitReturns, InitThrows, InInit
    <3>3. CASE ProgramLoads \/ Assign \/ SetStatic \/ CleanModules \/ Close
      BY <2>3, <3>3 DEF ProgramLoads, Assign, SetStatic, CleanModules, Close, Running
    <3>4. CASE Drop
      <4>1. phase = "cleanup"
        BY <2>3, <3>4 DEF Drop, Running
      <4> QED
        BY <1>2, <3>4, <4>1, CleanupDropStep
    <3>5. CASE CloseCollects
      BY <1>2, <3>5, CloseCollectsStep
    <3>6. CASE CloseContexts
      BY <1>2, <3>6, CloseContextsStep
    <3>7. CASE CloseLibrary
      BY <1>2, <3>7, CloseLibraryStep
    <3> QED
      BY <1>2, <2>3, <3>2, <3>3, <3>4, <3>5, <3>6, <3>7 DEF Next
  <2> QED
    BY <1>2, <2>1, <2>2, <2>3
<1> QED
  BY <1>2, InitSound, PTL DEF Spec

\* eel_module.refsum, the table, module_lock, which is never below 0, and the
\* symbol tables hold values of their types, through failures and es_close.
THEOREM TypesHold == Risky = {} => (Spec => []TypeOK)
<1>1. Sound => TypeOK
  <2> SUFFICES ASSUME Sound PROVE TypeOK
    OBVIOUS
  <2>1. heap \in Heap /\ failures \in Nat /\ phase \in {"open", "cleanup", "collect", "contexts", "closed"}
    BY DEF Sound, Whole, Closing
  <2>2. heap.frames \in Seq(Loading)
    BY <2>1 DEF Heap
  <2>3. \A i \in DOMAIN heap.frames : heap.frames[i] \in Loading
    BY <2>2, LenProperties, ElementOfSeq
  <2>4. \A i \in DOMAIN heap.frames :
          /\ heap.frames[i].mod \in Scripts
          /\ heap.frames[i].symbols \subseteq Mods
          /\ heap.frames[i].phase \in {"import", "init", "fail"}
          /\ heap.frames[i].dest \in Vars \cup {Nil}
    BY <2>3 DEF Loading
  <2>5. heap.mods \in [Mods -> Record] /\ heap.leaked \in Seq(Context)
    BY <2>1 DEF Heap
  <2> QED
    BY <2>1, <2>4, <2>5 DEF TypeOK, Heap, Record, Context
<1> QED
  BY <1>1, ModulesSound, PTL

(***************************************************************************)
(* m_real_destruct() only compares a sum of references with an older one.  *)
(* Even so, what variables, compilations, symbol tables and other modules  *)
(* refer to is not destroyed while the state is open.                      *)
(***************************************************************************)
THEOREM NothingHeldDestroyed == Risky = {} => (Spec => []HeldExist)
<1>1. Sound => HeldExist
  <2> SUFFICES ASSUME Sound, phase = "open" PROVE HeldExist
    BY DEF HeldExist
  <2>1. Whole(heap, TRUE, Nil)
    <3>1. (phase = "open") = TRUE
      OBVIOUS
    <3> QED
      BY <3>1 DEF Sound
  <2>2. heap \in Heap /\ Kept(heap, TRUE) /\ Nested(heap)
    BY <2>1 DEF Whole
  <2>3. \A m \in Mods : Used(heap, m) \/ Had(heap, m) => m \in Live(heap)
    BY <2>2 DEF Kept, Adult, Live
  <2>4. Live(heap) \subseteq Mods /\ heap.vars \in [Vars -> Value] /\ heap.mods \in [Mods -> Record]
        /\ heap.frames \in Seq(Loading) /\ heap.leaked \in Seq(Context)
    BY <2>2 DEF Live, Heap
  <2>5. ASSUME NEW v \in Held \ {Nil}
        PROVE  v.of \in Live(heap)
    <3>1. (\E x \in Vars : heap.vars[x] = v) \/ (\E n \in Live(heap) : heap.mods[n].static = v)
      BY DEF Held
    <3>2. v \in Value
      BY <2>4, <3>1 DEF Record
    <3>3. PICK m \in Mods : v = Module(m) \/ v = Function(m)
      BY <3>2 DEF Value
    <3>4. v.of = m
      BY <3>3 DEF Module, Function
    <3>5. Used(heap, m) \/ Had(heap, m)
      BY <3>1, <3>3 DEF Used, Had
    <3> QED
      BY <2>3, <3>4, <3>5
  <2>6. ASSUME NEW m \in Live(heap)
        PROVE  Needs(heap, m) \subseteq Live(heap)
    <3>1. Needs(heap, m) \subseteq Mods
      BY <2>4 DEF Needs, Record
    <3>2. \A n \in Needs(heap, m) : Used(heap, n)
      BY DEF Needs, Used
    <3> QED
      BY <2>3, <3>1, <3>2
  <2>7. ASSUME NEW i \in DOMAIN heap.frames
        PROVE  {heap.frames[i].mod} \cup heap.frames[i].symbols \subseteq Live(heap)
    <3>1. heap.frames[i].symbols \subseteq Mods
      <4>1. heap.frames[i] \in Loading
        BY <2>4, LenProperties, ElementOfSeq
      <4> QED
        BY <4>1 DEF Loading
    <3>2. \A n \in heap.frames[i].symbols : Used(heap, n)
      BY DEF Used
    <3> QED
      BY <2>2, <2>3, <3>1, <3>2 DEF Nested
  <2>8. ASSUME NEW i \in DOMAIN heap.leaked
        PROVE  {heap.leaked[i].mod} \cup heap.leaked[i].symbols \subseteq Live(heap)
    <3>1. heap.leaked[i].symbols \subseteq Mods
      <4>1. heap.leaked[i] \in Context
        BY <2>4, LenProperties, ElementOfSeq
      <4> QED
        BY <4>1 DEF Context
    <3>2. \A n \in heap.leaked[i].symbols : Used(heap, n)
      BY DEF Used
    <3> QED
      BY <2>2, <2>3, <3>1, <3>2 DEF Kept
  <2> QED
    BY <2>5, <2>6, <2>7, <2>8 DEF HeldExist
<1> QED
  BY <1>1, ModulesSound, PTL

\* The table of weak references that eel_share_module() fills and
\* m_real_destruct() empties: no two modules have one shared name, and the table
\* has the one there is, while imports fail and modules come back from the list.
THEOREM OnlyOne == Risky = {} => (Spec => []OneModulePerName)
<1>1. Sound => OneModulePerName
  <2> SUFFICES ASSUME Sound PROVE OneModulePerName
    OBVIOUS
  <2>1. heap \in Heap /\ Stages(heap) /\ Tabled(heap)
    BY DEF Sound, Whole
  <2>2. ASSUME NEW n \in Names, heap.table[n] # Nil
        PROVE  heap.table[n] \in Live(heap) /\ heap.mods[heap.table[n]].name = n
    <3>1. heap.table[n] \in Mods
      BY <2>1, <2>2 DEF Heap
    <3> QED
      BY <2>1, <2>2, <3>1 DEF Tabled, Adult, Live
  <2>3. ASSUME NEW m \in Live(heap), heap.mods[m].name \in Shared,
               heap.mods[m].refsum >= 0, heap.mods[m].exports # {}
        PROVE  heap.table[heap.mods[m].name] = m
    <3>1. m \in Mods /\ (m \in Scripts \/ m \in Binaries)
      BY DEF Live, Mods
    <3>2. Adult(heap, m)
      BY <2>1, <2>3, <3>1 DEF Stages
    <3> QED
      BY <2>1, <2>3, <3>1, <3>2 DEF Tabled
  <2> QED
    BY <2>2, <2>3 DEF OneModulePerName
<1> QED
  BY <1>1, ModulesSound, PTL

\* es->deadmods: a module that nobody owns waits for the collector, once, also
\* while it is locked, and one that was taken over again does not.
THEOREM ListIsExact == Risky = {} => (Spec => []WaitingExact)
<1>1. Sound => WaitingExact
  <2> SUFFICES ASSUME Sound PROVE WaitingExact
    OBVIOUS
  <2>1. /\ heap.dead \in Seq(Mods) /\ Once(heap.dead) /\ heap.lock = Cardinality(Importing(heap))
        /\ ToSet(heap.dead) = {m \in Live(heap) : ~Owned(heap, m)} \ {Nil}
    BY DEF Sound, Whole, Waiting, Heap
  <2>2. Nil \notin Live(heap)
    BY NilAssumption DEF Live
  <2>3. Cardinality(ToSet(heap.dead)) = Len(heap.dead)
    BY <2>1, OnceCounts
  <2> QED
    BY <2>1, <2>2, <2>3 DEF WaitingExact
<1> QED
  BY <1>1, ModulesSound, PTL

\* es_close() collects until nothing changes: if nothing failed, a module that is
\* left is used by a module that is left.
THEOREM OnlyCyclesLeft == Risky = {} => (Spec => []ClosedLeavesCycles)
<1>1. Sound => ClosedLeavesCycles
  <2> SUFFICES ASSUME Sound, phase = "closed", failures = 0, NEW m \in Live(heap)
               PROVE  \E n \in Live(heap) :
                         \/ m \in Needs(heap, n)
                         \/ heap.mods[n].static \in {Module(m), Function(m)}
    BY DEF ClosedLeavesCycles
  <2>1. /\ heap \in Heap /\ Stages(heap) /\ Unbroken(heap)
        /\ ToSet(heap.dead) = {n \in Live(heap) : ~Owned(heap, n)} \ {Nil}
    BY DEF Sound, Whole, Waiting
  <2>2. /\ heap.frames = << >> /\ \A v \in Vars : heap.vars[v] = Nil
        /\ \A n \in ToSet(heap.dead) : Busy(heap, n)
    BY DEF Sound, Closing
  <2>3. DOMAIN heap.frames = {} /\ DOMAIN heap.leaked = {} /\ heap.lost = {}
    BY <2>1, <2>2 DEF Unbroken
  <2>4. m \in Mods /\ m # Nil /\ Module(m) # Nil /\ Function(m) # Nil
    BY NilAssumption DEF Live
  <2>5. CASE Owned(heap, m)
    BY <2>2, <2>3, <2>4, <2>5 DEF Owned
  <2>6. CASE ~Owned(heap, m)
    <3>1. Busy(heap, m)
      BY <2>1, <2>2, <2>4, <2>6
    <3>2. m \notin Binaries
      <4>1. m \in Binaries => Adult(heap, m) /\ m \notin Scripts
        BY <2>1, ModulesAssumption DEF Stages
      <4> QED
        BY <3>1, <4>1 DEF Busy, Adult, CountRefs
    <3>3. m \in Scripts /\ heap.mods[m].refsum = Own(heap, m)
      <4>1. m \in Scripts
        BY <2>4, <3>2 DEF Mods
      <4> QED
        BY <2>1, <3>1, <4>1 DEF Stages, Busy, Adult, Own
    <3>4. Used(heap, m)
      BY <2>1, <2>4, <3>1, <3>3, CountOwners DEF Busy, CountRefs
    <3>5. CASE \E n \in Live(heap) : heap.mods[n].static = Function(m)
      BY <3>5
    <3>6. CASE \E n \in Live(heap) : m \in heap.mods[n].uses
      BY <3>6 DEF Needs
    <3>7. CASE \E n \in Live(heap) \ {m} : m \in heap.mods[n].exports
      BY <3>7 DEF Needs
    <3> QED
      BY <2>2, <2>3, <2>4, <3>4, <3>5, <3>6, <3>7 DEF Used
  <2> QED
    BY <2>5, <2>6
<1> QED
  BY <1>1, ModulesSound, PTL

=============================================================================
