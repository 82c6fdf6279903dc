------------------------- MODULE StringPool_proofs -------------------------
(***************************************************************************)
(* Proofs about StringPool: what the operations on the links do to the two *)
(* lists strung on them, what an owner more or less does to the pool, and  *)
(* from both the invariants of the string pool.                            *)
(***************************************************************************)
EXTENDS StringPool, FiniteSetTheorems, WellFoundedInduction, TLAPS

-----------------------------------------------------------------------------
(* Loops: functions on 0 .. m that start somewhere and take one turn after *)
(* the other.  Inductions rest on the least-number principle, over sets.   *)

\* The least-number principle, over a set: what the inductions here rest on.
LEMMA LeastNat ==
    ASSUME NEW T, T \subseteq Nat, T # {}
    PROVE  \E k \in T : \A j \in T : k <= j
<1>1. PICK k \in T : \A j \in T : ~(<<j, k>> \in OpToRel(<, Nat))
  BY NatLessThanWellFounded, WFMin
<1>2. \A j \in T : ~(j < k)
  BY <1>1 DEF OpToRel
<1> QED
  BY <1>2

\* f runs from s, turn by turn, through the sets J.
IsLoop(f, turn, J, s, m) ==
    /\ f = [n \in 0 .. m |-> IF n = 0 THEN s ELSE turn[n][f[n - 1]]]
    /\ \A n \in 0 .. m : f[n] \in J[n]

\* Such a loop exists if each turn leads from a set to the next one.
LEMMA LoopRuns ==
    ASSUME NEW J, NEW s \in J[0], NEW m \in Nat, NEW turn,
           \A n \in 1 .. m : turn[n] \in [J[n - 1] -> J[n]]
    PROVE  \E f : IsLoop(f, turn, J, s, m)
<1> DEFINE none == {k \in 0 .. m : ~\E f : IsLoop(f, turn, J, s, k)}
<1>1. SUFFICES ASSUME m \in none PROVE FALSE
  OBVIOUS
<1>2. PICK k \in none : \A j \in none : k <= j
  <2>1. none \subseteq Nat
    OBVIOUS
  <2> HIDE DEF none
  <2> QED
    BY <1>1, <2>1, LeastNat
<1>3. CASE k = 0
  <2> DEFINE g == [n \in 0 .. 0 |-> s]
  <2>1. g[0] = s /\ \A n \in 0 .. 0 : n = 0
    OBVIOUS
  <2>2. g = [n \in 0 .. 0 |-> IF n = 0 THEN s ELSE turn[n][g[n - 1]]]
    OBVIOUS
  <2> HIDE DEF g
  <2>3. IsLoop(g, turn, J, s, 0)
    BY <2>1, <2>2 DEF IsLoop
  <2> QED
    BY <1>2, <1>3, <2>3
<1>4. CASE k # 0
  <2>1. k \in 1 .. m /\ k - 1 \in 0 .. m /\ k - 1 < k
    BY <1>2, <1>4
  <2>2. k - 1 \notin none
    BY <1>2, <2>1
  <2>3. PICK f : IsLoop(f, turn, J, s, k - 1)
    BY <2>1, <2>2
  <2> DEFINE g == [n \in 0 .. k |-> IF n = k THEN turn[k][f[k - 1]] ELSE f[n]]
  <2>4. /\ \A n \in 0 .. k - 1 : f[n] = IF n = 0 THEN s ELSE turn[n][f[n - 1]]
        /\ \A n \in 0 .. k - 1 : f[n] \in J[n]
    BY <2>3 DEF IsLoop
  <2>5. /\ \A n \in 0 .. k - 1 : g[n] = f[n]
        /\ g[k] = turn[k][f[k - 1]]
        /\ g = [n \in 0 .. k |-> g[n]]
    BY <2>1
  <2> HIDE DEF g
  <2>6. ASSUME NEW n \in 0 .. k
        PROVE  g[n] = (IF n = 0 THEN s ELSE turn[n][g[n - 1]]) /\ g[n] \in J[n]
    <3>1. CASE n = 0
      <4>1. n \in 0 .. k - 1
        BY <2>1, <3>1
      <4> QED
        BY <3>1, <4>1, <2>4, <2>5
    <3>2. CASE n = k
      <4>1. k - 1 \in 0 .. k - 1 /\ g[k - 1] = f[k - 1] /\ f[k - 1] \in J[k - 1]
        BY <2>1, <2>4, <2>5
      <4>2. turn[k] \in [J[k - 1] -> J[k]]
        BY <2>1
      <4> QED
        BY <3>2, <4>1, <4>2, <2>1, <2>5
    <3>3. CASE n # 0 /\ n # k
      <4>1. n \in 0 .. k - 1 /\ n - 1 \in 0 .. k - 1
        BY <3>3, <2>1
      <4> QED
        BY <3>3, <4>1, <2>4, <2>5
    <3> QED
      BY <3>1, <3>2, <3>3
  <2>7. IsLoop(g, turn, J, s, k)
    <3>1. g = [n \in 0 .. k |-> IF n = 0 THEN s ELSE turn[n][g[n - 1]]]
      BY <2>5, <2>6
    <3> QED
      BY <2>6, <3>1 DEF IsLoop
  <2> QED
    BY <2>7, <1>2
<1> QED
  BY <1>3, <1>4

\* What holds at first and is kept by each turn holds at the end.
LEMMA LoopKeeps ==
    ASSUME NEW f, NEW N \in Nat, NEW S, f[0] \in S[0],
           \A n \in 1 .. N : f[n - 1] \in S[n - 1] => f[n] \in S[n]
    PROVE  f[N] \in S[N]
<1> DEFINE bad == {n \in 0 .. N : f[n] \notin S[n]}
<1>1. SUFFICES ASSUME N \in bad PROVE FALSE
  OBVIOUS
<1>2. PICK k \in bad : \A j \in bad : k <= j
  <2>1. bad \subseteq Nat
    OBVIOUS
  <2> HIDE DEF bad
  <2> QED
    BY <1>1, <2>1, LeastNat
<1>3. k \in 1 .. N /\ k - 1 \in 0 .. N /\ k - 1 \notin bad
  BY <1>2
<1> QED
  BY <1>2, <1>3

-----------------------------------------------------------------------------
(* The links. *)

Nodes == Strings \cup {Limbo}
Nexts == Strings \cup {Null}
Prevs == Strings \cup {Null, Limbo}

\* What the list code never touches.
SameStrings(g, h) ==
    /\ g.live = h.live /\ g.text = h.text /\ g.refcount = h.refcount
    /\ g.weakrefs = h.weakrefs /\ g.pool = h.pool
    /\ g.scache_size = h.scache_size /\ g.open = h.open

LEMMA SetNextDoes ==
    ASSUME NEW h \in Heap, NEW o \in Nodes, NEW x \in Nexts
    PROVE  /\ SetNext(h, o, x) \in Heap
           /\ SetNext(h, o, x).lnext = [h.lnext EXCEPT ![o] = x]
           /\ SetNext(h, o, x).lprev = h.lprev
           /\ SetNext(h, o, x).scache = h.scache
           /\ SetNext(h, o, x).scache_last = h.scache_last
           /\ SameStrings(SetNext(h, o, x), h)
  BY DEF SetNext, Heap, SameStrings, Nodes, Nexts, Prevs

LEMMA SetPrevDoes ==
    ASSUME NEW h \in Heap, NEW o \in Nexts,
           NEW x \in Prevs
    PROVE  /\ SetPrev(h, o, x) \in Heap
           /\ SetPrev(h, o, x).lprev =
                IF o = Null THEN h.lprev ELSE [h.lprev EXCEPT ![o] = x]
           /\ SetPrev(h, o, x).lnext = h.lnext
           /\ SetPrev(h, o, x).scache = h.scache
           /\ SetPrev(h, o, x).scache_last = h.scache_last
           /\ SameStrings(SetPrev(h, o, x), h)
  BY DEF SetPrev, Heap, SameStrings, Nodes, Nexts, Prevs

LEMMA LimboPushDoes ==
    ASSUME NEW h \in Heap, NEW o \in Strings
    PROVE  LET g == LimboPush(h, o)
           IN  /\ g \in Heap
               /\ SameStrings(g, h)
               /\ g.scache = h.scache /\ g.scache_last = h.scache_last
               /\ \A n \in Nodes :
                    g.lnext[n] = IF n = Limbo THEN o
                                 ELSE IF n = o THEN h.lnext[Limbo] ELSE h.lnext[n]
               /\ \A n \in Strings :
                    g.lprev[n] = IF n = o THEN Limbo
                                 ELSE IF n = h.lnext[Limbo] THEN o ELSE h.lprev[n]
<1> DEFINE top == h.lnext[Limbo]
           h1 == SetNext(h, o, top)
           h2 == SetPrev(h1, top, o)
           h3 == SetPrev(h2, o, Limbo)
           h4 == SetNext(h3, Limbo, o)
<1>a. top \in Nexts /\ o \in Nodes /\ Limbo \in Nodes /\ o # Null /\ o # Limbo
      /\ o \in Prevs /\ o \in Nexts /\ Limbo \in Prevs
  BY StringsAssumption DEF Heap, Nodes, Nexts, Prevs
<1>b. h.lnext \in [Nodes -> Nexts] /\ h.lprev \in [Nodes -> Prevs]
  BY DEF Heap, Nodes, Nexts, Prevs
<1>0. LimboPush(h, o) = h4
  BY DEF LimboPush
<1> HIDE DEF top
<1>1. /\ h1 \in Heap /\ SameStrings(h1, h) /\ h1.scache = h.scache /\ h1.scache_last = h.scache_last
      /\ h1.lnext = [h.lnext EXCEPT ![o] = top] /\ h1.lprev = h.lprev
  BY <1>a, SetNextDoes
<1> HIDE DEF h1
<1>2. /\ h2 \in Heap /\ SameStrings(h2, h1) /\ h2.scache = h1.scache /\ h2.scache_last = h1.scache_last
      /\ h2.lprev = IF top = Null THEN h1.lprev ELSE [h1.lprev EXCEPT ![top] = o]
      /\ h2.lnext = h1.lnext
  BY <1>a, <1>1, SetPrevDoes, SMTT(30)
<1> HIDE DEF h2
<1>3. /\ h3 \in Heap /\ SameStrings(h3, h2) /\ h3.scache = h2.scache /\ h3.scache_last = h2.scache_last
      /\ h3.lprev = [h2.lprev EXCEPT ![o] = Limbo] /\ h3.lnext = h2.lnext
  BY <1>a, <1>2, SetPrevDoes
<1> HIDE DEF h3
<1>4. /\ h4 \in Heap /\ SameStrings(h4, h3) /\ h4.scache = h3.scache /\ h4.scache_last = h3.scache_last
      /\ h4.lnext = [h3.lnext EXCEPT ![Limbo] = o] /\ h4.lprev = h3.lprev
  BY <1>a, <1>3, SetNextDoes
<1> HIDE DEF h4
<1>5. \A n \in Nodes : h4.lnext[n] = IF n = Limbo THEN o ELSE IF n = o THEN top ELSE h.lnext[n]
  BY <1>1, <1>2, <1>3, <1>4, <1>a, <1>b
<1>6. \A n \in Strings : h4.lprev[n] = IF n = o THEN Limbo ELSE IF n = top THEN o ELSE h.lprev[n]
  BY <1>1, <1>2, <1>3, <1>4, <1>a, <1>b, StringsAssumption DEF Nodes
<1>7. SameStrings(h4, h)
  BY <1>1, <1>2, <1>3, <1>4 DEF SameStrings
<1>8. h4.scache = h.scache /\ h4.scache_last = h.scache_last
  BY <1>1, <1>2, <1>3, <1>4
<1> QED
  BY <1>0, <1>4, <1>5, <1>6, <1>7, <1>8 DEF top

LEMMA LimboUnlinkDoes ==
    ASSUME NEW h \in Heap, NEW o \in Strings
    PROVE  LET g == LimboUnlink(h, o)
           IN  /\ g \in Heap
               /\ SameStrings(g, h)
               /\ g.scache = h.scache /\ g.scache_last = h.scache_last
               /\ \A m \in Nodes :
                    g.lnext[m] = IF m = o THEN Null
                                 ELSE IF m = h.lprev[o] THEN h.lnext[o] ELSE h.lnext[m]
               /\ \A m \in Strings :
                    g.lprev[m] = IF m = o THEN Null
                                 ELSE IF m = h.lnext[o] THEN h.lprev[o] ELSE h.lprev[m]
<1> DEFINE p == h.lprev[o]
           n == h.lnext[o]
           h1 == IF p = Null THEN h ELSE SetNext(h, p, n)
           h2 == SetPrev(h1, n, p)
           h3 == SetNext(h2, o, Null)
           h4 == SetPrev(h3, o, Null)
<1>a. /\ n \in Nexts /\ p \in Prevs /\ o \in Nodes /\ o \in Nexts /\ o # Null
      /\ Null \in Prevs /\ Null \in Nexts /\ (p # Null => p \in Nodes)
      /\ \A m \in Nodes : m # Null
  BY StringsAssumption DEF Heap, Nodes, Nexts, Prevs, Null, Limbo
<1>b. h.lnext \in [Nodes -> Nexts] /\ h.lprev \in [Nodes -> Prevs]
  BY DEF Heap, Nodes, Nexts, Prevs
<1>0. LimboUnlink(h, o) = h4
  BY DEF LimboUnlink
<1> HIDE DEF p, n
<1>1. /\ h1 \in Heap /\ SameStrings(h1, h) /\ h1.scache = h.scache /\ h1.scache_last = h.scache_last
      /\ h1.lnext = (IF p = Null THEN h.lnext ELSE [h.lnext EXCEPT ![p] = n])
      /\ h1.lprev = h.lprev
  <2>1. CASE p = Null
    BY <2>1 DEF SameStrings
  <2>2. CASE p # Null
    BY <1>a, <2>2, SetNextDoes
  <2> QED
    BY <2>1, <2>2
<1> HIDE DEF h1
<1>2. /\ h2 \in Heap /\ SameStrings(h2, h1) /\ h2.scache = h1.scache /\ h2.scache_last = h1.scache_last
      /\ h2.lprev = (IF n = Null THEN h1.lprev ELSE [h1.lprev EXCEPT ![n] = p])
      /\ h2.lnext = h1.lnext
  BY <1>a, <1>1, SetPrevDoes
<1> HIDE DEF h2
<1>3. /\ h3 \in Heap /\ SameStrings(h3, h2) /\ h3.scache = h2.scache /\ h3.scache_last = h2.scache_last
      /\ h3.lnext = [h2.lnext EXCEPT ![o] = Null] /\ h3.lprev = h2.lprev
  BY <1>a, <1>2, SetNextDoes
<1> HIDE DEF h3
<1>4. /\ h4 \in Heap /\ SameStrings(h4, h3) /\ h4.scache = h3.scache /\ h4.scache_last = h3.scache_last
      /\ h4.lprev = [h3.lprev EXCEPT ![o] = Null] /\ h4.lnext = h3.lnext
  BY <1>a, <1>3, SetPrevDoes
<1> HIDE DEF h4
<1>5. \A m \in Nodes : h4.lnext[m] = IF m = o THEN Null ELSE IF m = p THEN n ELSE h.lnext[m]
  BY <1>1, <1>2, <1>3, <1>4, <1>a, <1>b
<1>6. \A m \in Strings : h4.lprev[m] = IF m = o THEN Null ELSE IF m = n THEN p ELSE h.lprev[m]
  BY <1>1, <1>2, <1>3, <1>4, <1>a, <1>b DEF Nodes
<1>7. SameStrings(h4, h)
  BY <1>1, <1>2, <1>3, <1>4 DEF SameStrings
<1>8. h4.scache = h.scache /\ h4.scache_last = h.scache_last
  BY <1>1, <1>2, <1>3, <1>4
<1> QED
  BY <1>0, <1>4, <1>5, <1>6, <1>7, <1>8 DEF p, n

LEMMA CachePushDoes ==
    ASSUME NEW h \in Heap, NEW o \in Strings, o # h.scache
    PROVE  LET g == CachePush(h, o)
           IN  /\ g \in Heap
               /\ SameStrings(g, h)
               /\ g.scache = o
               /\ g.scache_last = IF h.scache = Null THEN o ELSE h.scache_last
               /\ \A m \in Nodes :
                    g.lnext[m] = IF m = o THEN h.scache ELSE h.lnext[m]
               /\ \A m \in Strings :
                    g.lprev[m] = IF m = o THEN Null
                                 ELSE IF m = h.scache THEN o ELSE h.lprev[m]
<1> DEFINE first == h.scache
           h1 == SetNext(h, o, first)
           h2 == SetPrev(h1, o, Null)
           h3 == SetPrev(h2, first, o)
           h4 == [h3 EXCEPT !.scache = o, !.scache_last = IF first = Null THEN o ELSE @]
<1>a. /\ first \in Nexts /\ o \in Nodes /\ o \in Nexts /\ o # Null /\ o \in Prevs
      /\ Null \in Prevs /\ first # o
  BY StringsAssumption DEF Heap, Nodes, Nexts, Prevs
<1>b. h.lnext \in [Nodes -> Nexts] /\ h.lprev \in [Nodes -> Prevs]
  BY DEF Heap, Nodes, Nexts, Prevs
<1>0. CachePush(h, o) = h4
  BY DEF CachePush
<1> HIDE DEF first
<1>1. /\ h1 \in Heap /\ SameStrings(h1, h) /\ h1.scache = h.scache /\ h1.scache_last = h.scache_last
      /\ h1.lnext = [h.lnext EXCEPT ![o] = first] /\ h1.lprev = h.lprev
  BY <1>a, SetNextDoes
<1> HIDE DEF h1
<1>2. /\ h2 \in Heap /\ SameStrings(h2, h1) /\ h2.scache = h1.scache /\ h2.scache_last = h1.scache_last
      /\ h2.lprev = [h1.lprev EXCEPT ![o] = Null] /\ h2.lnext = h1.lnext
  BY <1>a, <1>1, SetPrevDoes
<1> HIDE DEF h2
<1>3. /\ h3 \in Heap /\ SameStrings(h3, h2) /\ h3.scache = h2.scache /\ h3.scache_last = h2.scache_last
      /\ h3.lprev = (IF first = Null THEN h2.lprev ELSE [h2.lprev EXCEPT ![first] = o])
      /\ h3.lnext = h2.lnext
  BY <1>a, <1>2, SetPrevDoes
<1> HIDE DEF h3
<1>4. /\ h4 \in Heap /\ SameStrings(h4, h3) /\ h4.scache = o
      /\ h4.scache_last = (IF first = Null THEN o ELSE h3.scache_last)
      /\ h4.lnext = h3.lnext /\ h4.lprev = h3.lprev
  BY <1>a, <1>3 DEF Heap, SameStrings
<1> HIDE DEF h4
<1>5. \A m \in Nodes : h4.lnext[m] = IF m = o THEN first ELSE h.lnext[m]
  BY <1>1, <1>2, <1>3, <1>4, <1>a, <1>b
<1>6. \A m \in Strings : h4.lprev[m] = IF m = o THEN Null ELSE IF m = first THEN o ELSE h.lprev[m]
  BY <1>1, <1>2, <1>3, <1>4, <1>a, <1>b, StringsAssumption DEF Nodes
<1>7. SameStrings(h4, h)
  BY <1>1, <1>2, <1>3, <1>4 DEF SameStrings
<1>8. h4.scache = o /\ h4.scache_last = IF first = Null THEN o ELSE h.scache_last
  BY <1>1, <1>2, <1>3, <1>4
<1> QED
  BY <1>0, <1>4, <1>5, <1>6, <1>7, <1>8 DEF first

LEMMA CacheUnlinkDoes ==
    ASSUME NEW h \in Heap, NEW o \in Strings, h.lprev[o] # Limbo
    PROVE  LET g == CacheUnlink(h, o)
           IN  /\ g \in Heap
               /\ SameStrings(g, h)
               /\ g.scache = IF h.lprev[o] = Null THEN h.lnext[o] ELSE h.scache
               /\ g.scache_last = IF h.lnext[o] = Null THEN h.lprev[o] ELSE h.scache_last
               /\ \A m \in Nodes :
                    g.lnext[m] = IF m = o THEN Null
                                 ELSE IF m = h.lprev[o] THEN h.lnext[o] ELSE h.lnext[m]
               /\ \A m \in Strings :
                    g.lprev[m] = IF m = o THEN Null
                                 ELSE IF m = h.lnext[o] THEN h.lprev[o] ELSE h.lprev[m]
<1> DEFINE p == h.lprev[o]
           n == h.lnext[o]
           h1 == IF p = Null THEN [h EXCEPT !.scache = n] ELSE SetNext(h, p, n)
           h2 == IF n = Null THEN [h1 EXCEPT !.scache_last = p]
                             ELSE SetNext(SetPrev(h1, n, p), o, Null)
           h3 == SetPrev(h2, o, Null)
<1>a. /\ n \in Nexts /\ p \in Nexts /\ p \in Prevs /\ o \in Nodes /\ o \in Nexts /\ o # Null
      /\ Null \in Prevs /\ Null \in Nexts /\ (p # Null => p \in Nodes)
      /\ \A m \in Nodes : m # Null
  BY StringsAssumption DEF Heap, Nodes, Nexts, Prevs, Null, Limbo
<1>b. h.lnext \in [Nodes -> Nexts] /\ h.lprev \in [Nodes -> Prevs]
  BY DEF Heap, Nodes, Nexts, Prevs
<1>c. h.lnext[o] = n
  OBVIOUS
<1>0. CacheUnlink(h, o) = h3
  BY DEF CacheUnlink
<1> HIDE DEF p, n
<1>1. /\ h1 \in Heap /\ SameStrings(h1, h) /\ h1.scache = (IF p = Null THEN n ELSE h.scache)
      /\ h1.scache_last = h.scache_last
      /\ h1.lnext = (IF p = Null THEN h.lnext ELSE [h.lnext EXCEPT ![p] = n])
      /\ h1.lprev = h.lprev
  <2>1. CASE p = Null
    BY <1>a, <2>1 DEF SameStrings, Heap, Nexts
  <2>2. CASE p # Null
    BY <1>a, <2>2, SetNextDoes
  <2> QED
    BY <2>1, <2>2
<1> HIDE DEF h1
<1>2. /\ h2 \in Heap /\ SameStrings(h2, h1) /\ h2.scache = h1.scache
      /\ h2.scache_last = (IF n = Null THEN p ELSE h1.scache_last)
      /\ h2.lprev = (IF n = Null THEN h1.lprev ELSE [h1.lprev EXCEPT ![n] = p])
      /\ h2.lnext = (IF n = Null THEN h1.lnext ELSE [h1.lnext EXCEPT ![o] = Null])
  <2>1. CASE n = Null
    BY <1>a, <1>1, <2>1 DEF SameStrings, Heap, Nexts
  <2>2. CASE n # Null
    <3> DEFINE g == SetPrev(h1, n, p)
    <3>1. /\ g \in Heap /\ SameStrings(g, h1) /\ g.scache = h1.scache
          /\ g.scache_last = h1.scache_last
          /\ g.lprev = [h1.lprev EXCEPT ![n] = p] /\ g.lnext = h1.lnext
      BY <1>a, <1>1, <2>2, SetPrevDoes
    <3>2. h2 = SetNext(g, o, Null)
      BY <2>2
    <3> HIDE DEF g, h2
    <3>3. /\ h2 \in Heap /\ SameStrings(h2, g) /\ h2.scache = g.scache
          /\ h2.scache_last = g.scache_last
          /\ h2.lnext = [g.lnext EXCEPT ![o] = Null] /\ h2.lprev = g.lprev
      BY <1>a, <3>1, <3>2, SetNextDoes
    <3> QED
      BY <2>2, <3>1, <3>3 DEF SameStrings
  <2> QED
    BY <2>1, <2>2
<1> HIDE DEF h2
<1>3. /\ h3 \in Heap /\ SameStrings(h3, h2) /\ h3.scache = h2.scache /\ h3.scache_last = h2.scache_last
      /\ h3.lprev = [h2.lprev EXCEPT ![o] = Null] /\ h3.lnext = h2.lnext
  BY <1>a, <1>2, SetPrevDoes
<1> HIDE DEF h3
<1>5. \A m \in Nodes : h3.lnext[m] = IF m = o THEN Null ELSE IF m = p THEN n ELSE h.lnext[m]
  BY <1>1, <1>2, <1>3, <1>a, <1>b, <1>c
<1>6. \A m \in Strings : h3.lprev[m] = IF m = o THEN Null ELSE IF m = n THEN p ELSE h.lprev[m]
  BY <1>1, <1>2, <1>3, <1>a, <1>b DEF Nodes
<1>7. SameStrings(h3, h)
  BY <1>1, <1>2, <1>3 DEF SameStrings
<1>8. /\ h3.scache = IF p = Null THEN n ELSE h.scache
      /\ h3.scache_last = IF n = Null THEN p ELSE h.scache_last
  BY <1>1, <1>2, <1>3
<1> QED
  BY <1>0, <1>3, <1>5, <1>6, <1>7, <1>8 DEF p, n

-----------------------------------------------------------------------------
(***************************************************************************)
(* A list strung from `first`, whose own lprev is `head`: the links of its *)
(* strings S stay in S and are each other's inverse, and a rank grows      *)
(* along them, so that the list has no cycle.                              *)
(***************************************************************************)
Chain(h, S, first, head, rank) ==
    /\ S \subseteq Strings
    /\ first \in S \cup {Null}
    /\ first = Null => S = {}
    /\ first # Null => h.lprev[first] = head
    /\ \A o \in S :
        /\ h.lnext[o] \in S \cup {Null}
        /\ h.lnext[o] # Null => h.lprev[h.lnext[o]] = o /\ rank[o] < rank[h.lnext[o]]
        /\ o # first => h.lprev[o] \in S /\ h.lnext[h.lprev[o]] = o

\* Both lists have the one rank, which `top` bounds.
Ranked(h, L, C, rank, top) ==
    /\ rank \in [Strings -> Nat]
    /\ top \in Nat
    /\ \A o \in Strings : rank[o] <= top
    /\ Chain(h, L, h.lnext[Limbo], Limbo, rank)
    /\ Chain(h, C, h.scache, Null, rank)

\* L are the strings in limbo, C those in the cache; no other string has links.
Wired(h, L, C) ==
    /\ h \in Heap
    /\ L \cap C = {}
    /\ \E rank, top : Ranked(h, L, C, rank, top)
    /\ h.scache_last \in C \cup {Null}
    /\ h.scache_last = Null => C = {}
    /\ \A o \in C : h.lnext[o] = Null <=> o = h.scache_last
    /\ \A o \in Strings \ (L \cup C) : h.lnext[o] = Null /\ h.lprev[o] = Null

\* What tells a string in limbo from one on no list.
LEMMA InLimboIs ==
    ASSUME NEW h, NEW L, NEW C, Wired(h, L, C), NEW o \in Strings \ C
    PROVE  InLimbo(h, o) <=> o \in L
<1>1. PICK rank, top : Ranked(h, L, C, rank, top)
  BY DEF Wired
<1>2. CASE o \in L
  BY <1>1, <1>2, StringsAssumption DEF Ranked, Chain, InLimbo, Limbo, Null
<1>3. CASE o \notin L
  BY <1>3 DEF Wired, InLimbo
<1> QED
  BY <1>2, <1>3

LEMMA PushLimbo ==
    ASSUME NEW h, NEW L, NEW C, Wired(h, L, C), NEW o \in Strings \ (L \cup C)
    PROVE  Wired(LimboPush(h, o), L \cup {o}, C)
<1> DEFINE g == LimboPush(h, o)
           first == h.lnext[Limbo]
<1>1. PICK rank, top : Ranked(h, L, C, rank, top)
  BY DEF Wired
<1>2. h \in Heap /\ o # Null /\ Limbo \notin Strings /\ Null \notin Strings /\ Limbo \in Nodes
  BY StringsAssumption DEF Wired, Nodes
<1>3. /\ g \in Heap /\ g.scache = h.scache /\ g.scache_last = h.scache_last
      /\ g.lnext[Limbo] = o /\ g.lnext[o] = first
      /\ \A n \in Strings \ {o} : g.lnext[n] = h.lnext[n]
      /\ \A n \in Strings :
            g.lprev[n] = IF n = o THEN Limbo ELSE IF n = first THEN o ELSE h.lprev[n]
  BY <1>2, LimboPushDoes DEF Nodes
<1> DEFINE higher == [n \in Strings |-> IF n = o THEN 0 ELSE rank[n] + 1]
<1>4. /\ higher \in [Strings -> Nat]
      /\ top + 1 \in Nat
      /\ \A n \in Strings : higher[n] <= top + 1
      /\ higher[o] = 0
      /\ \A n \in Strings \ {o} : higher[n] = rank[n] + 1 /\ rank[n] \in Nat
  BY <1>1 DEF Ranked
<1> HIDE DEF g, higher
<1>5. /\ L \subseteq Strings /\ first \in L \cup {Null} /\ (first = Null => L = {})
      /\ \A n \in L :
          /\ h.lnext[n] \in L \cup {Null}
          /\ h.lnext[n] # Null => h.lprev[h.lnext[n]] = n /\ rank[n] < rank[h.lnext[n]]
          /\ n # first => h.lprev[n] \in L /\ h.lnext[h.lprev[n]] = n
  BY <1>1 DEF Ranked, Chain
<1>6. Chain(g, L \cup {o}, o, Limbo, higher)
  <2>1. /\ L \cup {o} \subseteq Strings
        /\ g.lprev[o] = Limbo
    BY <1>3, <1>5
  <2>2. ASSUME NEW n \in L \cup {o}
        PROVE  /\ g.lnext[n] \in L \cup {o} \cup {Null}
               /\ g.lnext[n] # Null => g.lprev[g.lnext[n]] = n /\ higher[n] < higher[g.lnext[n]]
               /\ n # o => g.lprev[n] \in L \cup {o} /\ g.lnext[g.lprev[n]] = n
    <3>1. CASE n = o
      BY <3>1, <1>2, <1>3, <1>4, <1>5
    <3>2. CASE n # o
      <4>1. n \in L /\ n \in Strings \ {o} /\ g.lnext[n] = h.lnext[n]
        BY <3>2, <1>3, <1>5
      <4>2. h.lnext[n] # Null => h.lnext[n] \in L /\ h.lnext[n] # first /\ h.lnext[n] # o
        BY <4>1, <1>1, <1>2, <1>5 DEF Ranked, Chain
      <4>3. h.lnext[n] # Null => g.lprev[g.lnext[n]] = n /\ higher[n] < higher[g.lnext[n]]
        BY <4>1, <4>2, <1>3, <1>4, <1>5
      <4>4. g.lprev[n] \in L \cup {o} /\ g.lnext[g.lprev[n]] = n
        BY <4>1, <1>3, <1>5
      <4> QED
        BY <4>1, <4>3, <4>4, <1>5
    <3> QED
      BY <3>1, <3>2
  <2> QED
    BY <2>1, <2>2, <1>2 DEF Chain
<1>7. Chain(g, C, g.scache, Null, higher)
  <2>1. first \notin C /\ o \notin C /\ C \subseteq Strings
    BY <1>1, <1>2, <1>5 DEF Wired, Ranked, Chain
  <2>2. \A n \in C : /\ g.lnext[n] = h.lnext[n] /\ g.lprev[n] = h.lprev[n]
                     /\ higher[n] = rank[n] + 1 /\ rank[n] \in Nat
    BY <2>1, <1>3, <1>4
  <2>3. Chain(h, C, h.scache, Null, rank)
    BY <1>1 DEF Ranked
  <2> QED
    BY <2>1, <2>2, <2>3, <1>3 DEF Chain
<1>8. Ranked(g, L \cup {o}, C, higher, top + 1)
  BY <1>3, <1>4, <1>6, <1>7 DEF Ranked
<1>9. \A n \in C : g.lnext[n] = h.lnext[n]
  BY <1>1, <1>3 DEF Ranked, Chain
<1>10. \A n \in Strings \ (L \cup {o} \cup C) : g.lnext[n] = Null /\ g.lprev[n] = Null
  BY <1>2, <1>3, <1>5 DEF Wired
<1> QED
  BY <1>3, <1>8, <1>9, <1>10 DEF Wired, g

\* Taking a string out of its list; `unlinked` says how the links change.
Unlinked(g, h, o) ==
    /\ \A m \in Strings :
        g.lnext[m] = IF m = o THEN Null
                     ELSE IF m = h.lprev[o] THEN h.lnext[o] ELSE h.lnext[m]
    /\ \A m \in Strings :
        g.lprev[m] = IF m = o THEN Null
                     ELSE IF m = h.lnext[o] THEN h.lprev[o] ELSE h.lprev[m]

LEMMA UnlinkChain ==
    ASSUME NEW h, NEW g, NEW S, NEW first, NEW head \in {Null, Limbo},
           NEW rank \in [Strings -> Nat], Chain(h, S, first, head, rank),
           NEW o \in S, Unlinked(g, h, o)
    PROVE  /\ h.lprev[o] = head <=> o = first
           /\ Chain(g, S \ {o}, IF o = first THEN h.lnext[o] ELSE first, head, rank)
<1>1. head \notin Strings /\ Null \notin Strings
  BY StringsAssumption DEF Null, Limbo
<1>2. /\ S \subseteq Strings /\ first \in S \cup {Null} /\ (first # Null => h.lprev[first] = head)
      /\ \A n \in S :
          /\ h.lnext[n] \in S \cup {Null}
          /\ h.lnext[n] # Null => h.lprev[h.lnext[n]] = n /\ rank[n] < rank[h.lnext[n]]
          /\ n # first => h.lprev[n] \in S /\ h.lnext[h.lprev[n]] = n
      /\ \A n \in S : rank[n] \in Nat
  BY DEF Chain
<1>3. h.lprev[o] = head <=> o = first
  BY <1>1, <1>2
<1> DEFINE next == h.lnext[o]
           prev == h.lprev[o]
           T == S \ {o}
           f == IF o = first THEN next ELSE first
<1>4. /\ o # Null /\ next # o /\ next \in S \cup {Null}
      /\ next # Null => h.lprev[next] = o /\ next # first
      /\ o # first => prev \in S /\ prev # o /\ h.lnext[prev] = o /\ rank[prev] < rank[o]
      /\ next # Null => rank[o] < rank[next]
      /\ o = first => prev = head
  BY <1>1, <1>2, <1>3
<1>5. f \in T \cup {Null}
  BY <1>2, <1>4
<1>6. f = Null => T = {}
  <2>1. CASE o # first
    BY <2>1, <1>1, <1>2 DEF Chain
  <2>2. SUFFICES ASSUME o = first, next = Null, NEW n \in T
                 PROVE  FALSE
    BY <2>1
  <2> DEFINE least == {k \in Nat : \E m \in T : rank[m] = k}
  <2>3. rank[n] \in least /\ least \subseteq Nat
    BY <1>2
  <2>4. PICK k \in least : \A j \in least : k <= j
    <3> HIDE DEF least
    <3> QED
      BY <2>3, LeastNat
  <2>5. PICK m \in T : rank[m] = k
    OBVIOUS
  <2>6. h.lprev[m] \in S /\ h.lnext[h.lprev[m]] = m
    BY <2>2, <2>5, <1>2
  <2>7. h.lprev[m] \in T /\ rank[h.lprev[m]] < k
    BY <2>2, <2>5, <2>6, <1>1, <1>2
  <2>8. rank[h.lprev[m]] \in least /\ rank[h.lprev[m]] \in Nat /\ k \in Nat
    BY <2>7, <1>2
  <2> QED
    BY <2>4, <2>7, <2>8
<1>7. f # Null => g.lprev[f] = head
  BY <1>1, <1>2, <1>4 DEF Unlinked
<1>8. ASSUME NEW n \in T
      PROVE  /\ g.lnext[n] \in T \cup {Null}
             /\ g.lnext[n] # Null => g.lprev[g.lnext[n]] = n /\ rank[n] < rank[g.lnext[n]]
             /\ n # f => g.lprev[n] \in T /\ g.lnext[g.lprev[n]] = n
  <2>1. n \in S /\ n \in Strings /\ n # o /\ n # Null
    BY <1>1, <1>2
  <2>2. CASE n = prev
    <3>1. o # first /\ g.lnext[n] = next /\ rank[n] < rank[o]
      BY <2>1, <2>2, <1>1, <1>4 DEF Unlinked
    <3>2. next # Null => g.lprev[next] = n /\ rank[n] < rank[next]
      BY <2>1, <2>2, <3>1, <1>2, <1>4 DEF Unlinked
    <3> QED
      BY <2>1, <2>2, <3>1, <3>2, <1>2, <1>4 DEF Unlinked
  <2>3. CASE n # prev
    <3>1. g.lnext[n] = h.lnext[n] /\ h.lnext[n] # o
      BY <2>1, <2>3, <1>2, <1>4 DEF Unlinked
    <3>2. h.lnext[n] # Null => h.lnext[n] # next /\ h.lnext[n] \in T
      BY <2>1, <3>1, <1>2, <1>4
    <3>3. g.lnext[n] # Null => g.lprev[g.lnext[n]] = n /\ rank[n] < rank[g.lnext[n]]
      BY <2>1, <3>1, <3>2, <1>2 DEF Unlinked
    <3>4. ASSUME n # f PROVE g.lprev[n] \in T /\ g.lnext[g.lprev[n]] = n
      <4>1. CASE n = next
        BY <2>1, <4>1, <3>4, <1>2, <1>4 DEF Unlinked
      <4>2. CASE n # next
        <5>1. n # first /\ h.lprev[n] \in S /\ h.lnext[h.lprev[n]] = n /\ g.lprev[n] = h.lprev[n]
          BY <2>1, <4>2, <3>4, <1>2, <1>4 DEF Unlinked
        <5>2. h.lprev[n] # o /\ h.lprev[n] # prev
          BY <2>1, <4>2, <5>1, <1>1, <1>2, <1>4
        <5> QED
          BY <2>1, <5>1, <5>2, <1>2 DEF Unlinked
      <4> QED
        BY <4>1, <4>2
    <3> QED
      BY <3>1, <3>2, <3>3, <3>4, <1>2
  <2> QED
    BY <2>2, <2>3
<1> HIDE DEF T, f
<1>9. Chain(g, T, f, head, rank)
  <2>1. T \subseteq Strings
    BY <1>2 DEF T
  <2> QED
    BY <2>1, <1>5, <1>6, <1>7, <1>8 DEF Chain
<1> QED
  BY <1>3, <1>9 DEF T, f

LEMMA OtherChain ==
    ASSUME NEW h, NEW g, NEW S, NEW first, NEW head \in {Null, Limbo}, NEW rank,
           NEW T, NEW first2, NEW head2, Chain(h, T, first2, head2, rank),
           Chain(h, S, first, head, rank), S \cap T = {},
           NEW o \in S, Unlinked(g, h, o)
    PROVE  Chain(g, T, first2, head2, rank)
<1>1. h.lprev[o] \notin T /\ h.lnext[o] \notin T /\ o \notin T
  BY StringsAssumption DEF Chain, Null, Limbo
<1>2. \A m \in T : g.lnext[m] = h.lnext[m] /\ g.lprev[m] = h.lprev[m]
  BY <1>1 DEF Chain, Unlinked
<1> QED
  BY <1>2 DEF Chain

LEMMA UnlinkLimbo ==
    ASSUME NEW h, NEW L, NEW C, Wired(h, L, C), NEW o \in Strings \ C
    PROVE  Wired(LimboUnlink(h, o), L \ {o}, C)
<1> DEFINE g == LimboUnlink(h, o)
<1>1. PICK rank, top : Ranked(h, L, C, rank, top)
  BY DEF Wired
<1>2. /\ h \in Heap /\ o # Null /\ Limbo \notin Strings /\ Null \notin Strings /\ Limbo # Null
      /\ Limbo \in Nodes /\ h.lnext[Limbo] \in Strings \cup {Null}
  BY StringsAssumption DEF Wired, Nodes, Heap, Limbo, Null
<1>3. /\ g \in Heap /\ g.scache = h.scache /\ g.scache_last = h.scache_last
      /\ g.lnext[Limbo] = IF Limbo = h.lprev[o] THEN h.lnext[o] ELSE h.lnext[Limbo]
      /\ Unlinked(g, h, o)
  BY <1>2, LimboUnlinkDoes DEF Nodes, Unlinked
<1> HIDE DEF g
<1>4. CASE o \in L
  <2>1. Chain(h, L, h.lnext[Limbo], Limbo, rank) /\ Chain(h, C, h.scache, Null, rank)
    BY <1>1 DEF Ranked
  <2>2. rank \in [Strings -> Nat] /\ L \cap C = {}
    BY <1>1 DEF Ranked, Wired
  <2>3. /\ h.lprev[o] = Limbo <=> o = h.lnext[Limbo]
        /\ Chain(g, L \ {o}, IF o = h.lnext[Limbo] THEN h.lnext[o] ELSE h.lnext[Limbo],
                 Limbo, rank)
    BY <1>3, <1>4, <2>1, <2>2, UnlinkChain, ZenonT(40)
  <2>4. Chain(g, L \ {o}, g.lnext[Limbo], Limbo, rank)
    BY <1>3, <2>3, Zenon
  <2>5. Chain(g, C, g.scache, Null, rank)
    BY <1>3, <1>4, <2>1, <2>2, OtherChain
  <2>6. Ranked(g, L \ {o}, C, rank, top)
    BY <1>1, <2>4, <2>5 DEF Ranked
  <2>7. h.lprev[o] \notin C /\ h.lnext[o] \notin C /\ C \subseteq Strings /\ L \subseteq Strings
    BY <2>1, <2>2, <1>2, <1>4 DEF Chain
  <2>8. \A n \in C : g.lnext[n] = h.lnext[n]
    BY <1>3, <1>4, <2>2, <2>7 DEF Unlinked
  <2>9. h.lprev[o] \in L \cup {Limbo} /\ h.lnext[o] \in L \cup {Null}
    BY <2>1, <1>2, <1>4 DEF Chain
  <2>10. \A n \in Strings \ ((L \ {o}) \cup C) : g.lnext[n] = Null /\ g.lprev[n] = Null
    <3>1. TAKE n \in Strings \ ((L \ {o}) \cup C)
    <3>2. CASE n = o
      BY <3>2, <1>3 DEF Unlinked
    <3>3. CASE n # o
      BY <3>3, <1>2, <1>3, <2>7, <2>9 DEF Unlinked, Wired
    <3> QED
      BY <3>2, <3>3
  <2>11. /\ \A n \in C : g.lnext[n] = Null <=> n = g.scache_last
         /\ (L \ {o}) \cap C = {} /\ g.scache_last \in C \cup {Null}
         /\ g.scache_last = Null => C = {}
    BY <1>3, <2>8 DEF Wired
  <2> QED
    BY <1>3, <2>6, <2>10, <2>11 DEF Wired, g
<1>5. CASE o \notin L
  <2>1. h.lnext[o] = Null /\ h.lprev[o] = Null
    BY <1>5 DEF Wired
  <2>2. /\ g.lnext[Limbo] = h.lnext[Limbo]
        /\ \A n \in Strings : g.lnext[n] = h.lnext[n] /\ g.lprev[n] = h.lprev[n]
    BY <1>2, <1>3, <2>1 DEF Unlinked
  <2>3. Ranked(g, L, C, rank, top)
    <3>1. L \subseteq Strings /\ C \subseteq Strings
      BY <1>1 DEF Ranked, Chain
    <3>2. Chain(g, L, g.lnext[Limbo], Limbo, rank) /\ Chain(g, C, g.scache, Null, rank)
      BY <1>1, <1>3, <2>2, <3>1 DEF Ranked, Chain
    <3> QED
      BY <1>1, <3>2 DEF Ranked
  <2>4. L \ {o} = L /\ C \subseteq Strings
    BY <1>1, <1>5 DEF Ranked, Chain
  <2>5. Wired(g, L, C)
    <3>1. /\ \A n \in C : g.lnext[n] = h.lnext[n]
          /\ \A n \in Strings \ (L \cup C) : g.lnext[n] = h.lnext[n] /\ g.lprev[n] = h.lprev[n]
      BY <2>2, <2>4
    <3>2. /\ \A n \in C : g.lnext[n] = Null <=> n = g.scache_last
          /\ \A n \in Strings \ (L \cup C) : g.lnext[n] = Null /\ g.lprev[n] = Null
          /\ L \cap C = {} /\ g.scache_last \in C \cup {Null}
          /\ g.scache_last = Null => C = {}
      BY <1>3, <3>1 DEF Wired
    <3> QED
      BY <1>3, <2>3, <3>2 DEF Wired
  <2> QED
    BY <2>4, <2>5 DEF g
<1> QED
  BY <1>4, <1>5 DEF g

LEMMA UnlinkCache ==
    ASSUME NEW h, NEW L, NEW C, Wired(h, L, C), NEW o \in C
    PROVE  /\ h.lprev[o] # Limbo
           /\ Wired(CacheUnlink(h, o), L, C \ {o})
<1> DEFINE g == CacheUnlink(h, o)
<1>1. PICK rank, top : Ranked(h, L, C, rank, top)
  BY DEF Wired
<1>2. /\ h \in Heap /\ Limbo \notin Strings /\ Null \notin Strings /\ Limbo # Null
      /\ Limbo \in Nodes /\ h.lnext[Limbo] \in Strings \cup {Null}
  BY StringsAssumption DEF Wired, Nodes, Heap, Limbo, Null
<1>3. /\ Chain(h, L, h.lnext[Limbo], Limbo, rank) /\ Chain(h, C, h.scache, Null, rank)
      /\ rank \in [Strings -> Nat] /\ L \cap C = {}
  BY <1>1 DEF Ranked, Wired
<1>4. /\ o \in Strings /\ o # Null /\ C \subseteq Strings /\ L \subseteq Strings
      /\ h.lprev[o] \in C \cup {Null} /\ h.lnext[o] \in C \cup {Null} /\ h.lprev[o] # Limbo
  BY <1>2, <1>3 DEF Chain
<1>5. /\ g \in Heap
      /\ g.scache = IF h.lprev[o] = Null THEN h.lnext[o] ELSE h.scache
      /\ g.scache_last = IF h.lnext[o] = Null THEN h.lprev[o] ELSE h.scache_last
      /\ g.lnext[Limbo] = h.lnext[Limbo]
      /\ Unlinked(g, h, o)
  BY <1>2, <1>4, CacheUnlinkDoes DEF Nodes, Unlinked
<1> HIDE DEF g
<1>6. /\ h.lprev[o] = Null <=> o = h.scache
      /\ Chain(g, C \ {o}, IF o = h.scache THEN h.lnext[o] ELSE h.scache, Null, rank)
  BY <1>3, <1>5, UnlinkChain
<1>7. Chain(g, C \ {o}, g.scache, Null, rank)
  BY <1>5, <1>6, Zenon
<1>8. Chain(g, L, g.lnext[Limbo], Limbo, rank)
  <2>1. C \cap L = {}
    BY <1>3
  <2> QED
    BY <1>3, <1>5, <2>1, OtherChain
<1>9. Ranked(g, L, C \ {o}, rank, top)
  BY <1>1, <1>7, <1>8 DEF Ranked
<1>10. /\ h.scache_last \in C
       /\ \A n \in C : h.lnext[n] = Null <=> n = h.scache_last
       /\ \A n \in C : h.lprev[n] # Null => h.lprev[n] \in C /\ h.lnext[h.lprev[n]] = n
       /\ \A n \in C : h.lnext[n] # Null => h.lnext[n] \in C /\ h.lprev[h.lnext[n]] = n
  BY <1>2, <1>3 DEF Chain, Wired
<1>11. /\ g.scache_last \in (C \ {o}) \cup {Null}
       /\ g.scache_last = Null => C \ {o} = {}
       /\ \A n \in C \ {o} : g.lnext[n] = Null <=> n = g.scache_last
  <2>1. CASE h.lnext[o] = Null /\ h.lprev[o] = Null
    <3>1. g.scache = Null
      BY <1>5, <2>1
    <3>2. C \ {o} = {}
      BY <1>7, <3>1 DEF Chain
    <3> QED
      BY <2>1, <3>2, <1>5
  <2>2. CASE h.lnext[o] = Null /\ h.lprev[o] # Null
    <3>1. g.scache_last = h.lprev[o] /\ h.lprev[o] \in C \ {o} /\ o = h.scache_last
      BY <2>2, <1>2, <1>4, <1>5, <1>10
    <3>2. \A n \in C \ {o} : g.lnext[n] = IF n = h.lprev[o] THEN Null ELSE h.lnext[n]
      BY <2>2, <1>4, <1>5 DEF Unlinked
    <3>3. /\ \A n \in C \ {o} : h.lnext[n] # Null
          /\ h.lprev[o] # Null
      BY <2>2, <3>1, <1>10
    <3> QED
      BY <3>1, <3>2, <3>3
  <2>3. CASE h.lnext[o] # Null
    <3>1. g.scache_last = h.scache_last /\ h.scache_last # o
      BY <2>3, <1>5, <1>10
    <3>2. \A n \in C \ {o} : g.lnext[n] = IF n = h.lprev[o] THEN h.lnext[o] ELSE h.lnext[n]
      BY <2>3, <1>4, <1>5 DEF Unlinked
    <3>3. \A n \in C \ {o} : n = h.lprev[o] => h.lnext[n] # Null
      BY <1>2, <1>4, <1>10
    <3>4. \A n \in C \ {o} : g.lnext[n] = Null <=> h.lnext[n] = Null
      BY <2>3, <3>2, <3>3
    <3> QED
      BY <3>1, <3>4, <1>2, <1>4, <1>10
  <2> QED
    BY <2>1, <2>2, <2>3
<1>12. \A n \in Strings \ (L \cup (C \ {o})) : g.lnext[n] = Null /\ g.lprev[n] = Null
  <2>1. TAKE n \in Strings \ (L \cup (C \ {o}))
  <2>2. CASE n = o
    BY <2>2, <1>5 DEF Unlinked
  <2>3. CASE n # o
    BY <2>3, <1>2, <1>4, <1>5 DEF Unlinked, Wired
  <2> QED
    BY <2>2, <2>3
<1> QED
  BY <1>3, <1>4, <1>5, <1>9, <1>11, <1>12 DEF Wired, g

LEMMA PushCache ==
    ASSUME NEW h, NEW L, NEW C, Wired(h, L, C), NEW o \in Strings \ (L \cup C)
    PROVE  Wired(CachePush(h, o), L, C \cup {o})
<1> DEFINE g == CachePush(h, o)
           first == h.scache
           D == C \cup {o}
<1>1. PICK rank, top : Ranked(h, L, C, rank, top)
  BY DEF Wired
<1>2. /\ h \in Heap /\ o # Null /\ Limbo \notin Strings /\ Null \notin Strings
      /\ Limbo \in Nodes /\ Limbo # o
      /\ h.lnext[Limbo] \in Strings \cup {Null}
  BY StringsAssumption DEF Wired, Nodes, Heap
<1>3. /\ L \subseteq Strings /\ C \subseteq Strings /\ first \in C \cup {Null} /\ (first = Null => C = {})
      /\ first # Null => h.lprev[first] = Null
      /\ \A n \in C :
          /\ h.lnext[n] \in C \cup {Null}
          /\ h.lnext[n] # Null => h.lprev[h.lnext[n]] = n /\ rank[n] < rank[h.lnext[n]]
          /\ n # first => h.lprev[n] \in C /\ h.lnext[h.lprev[n]] = n
  BY <1>1 DEF Ranked, Chain
<1>4. /\ g \in Heap /\ g.scache = o
      /\ g.scache_last = IF first = Null THEN o ELSE h.scache_last
      /\ g.lnext[Limbo] = h.lnext[Limbo] /\ g.lnext[o] = first
      /\ \A n \in Strings \ {o} : g.lnext[n] = h.lnext[n]
      /\ \A n \in Strings :
            g.lprev[n] = IF n = o THEN Null ELSE IF n = first THEN o ELSE h.lprev[n]
  <2>1. o # first /\ o \in Nodes
    BY <1>2, <1>3 DEF Nodes
  <2> QED
    BY <1>2, <2>1, CachePushDoes DEF Nodes
<1> DEFINE higher == [n \in Strings |-> IF n = o THEN 0 ELSE rank[n] + 1]
<1>5. /\ higher \in [Strings -> Nat]
      /\ top + 1 \in Nat
      /\ \A n \in Strings : higher[n] <= top + 1
      /\ higher[o] = 0
      /\ \A n \in Strings \ {o} : higher[n] = rank[n] + 1 /\ rank[n] \in Nat
  BY <1>1 DEF Ranked
<1> HIDE DEF g, higher
<1>6. ASSUME NEW n \in C
      PROVE  /\ n \in Strings \ {o} /\ g.lnext[n] = h.lnext[n]
             /\ n # first => g.lprev[n] = h.lprev[n]
             /\ n = first => g.lprev[n] = o
  BY <1>3, <1>4
<1>7. Chain(g, D, o, Null, higher)
  <2>1. D \subseteq Strings /\ g.lprev[o] = Null
    BY <1>3, <1>4
  <2>2. ASSUME NEW n \in D
        PROVE  /\ g.lnext[n] \in D \cup {Null}
               /\ g.lnext[n] # Null => g.lprev[g.lnext[n]] = n /\ higher[n] < higher[g.lnext[n]]
               /\ n # o => g.lprev[n] \in D /\ g.lnext[g.lprev[n]] = n
    <3>1. CASE n = o
      <4>1. first # Null => g.lprev[first] = o /\ higher[o] < higher[first] /\ first \in C
        BY <1>3, <1>5, <1>6
      <4> QED
        BY <3>1, <4>1, <1>3, <1>4
    <3>2. CASE n # o
      <4>1. n \in C /\ g.lnext[n] = h.lnext[n]
        BY <3>2, <1>6
      <4>2. h.lnext[n] # Null => h.lnext[n] \in C /\ h.lnext[n] # first
        BY <4>1, <1>2, <1>3
      <4>3. h.lnext[n] # Null => g.lprev[g.lnext[n]] = n /\ higher[n] < higher[g.lnext[n]]
        BY <4>1, <4>2, <1>3, <1>5, <1>6
      <4>4. g.lprev[n] \in D /\ g.lnext[g.lprev[n]] = n
        BY <4>1, <1>3, <1>4, <1>6
      <4> QED
        BY <4>1, <4>3, <4>4, <1>3
    <3> QED
      BY <3>1, <3>2
  <2> HIDE DEF D
  <2>3. o \in D
    BY DEF D
  <2> QED
    BY <2>1, <2>2, <2>3, <1>2 DEF Chain
<1>8. Chain(g, L, g.lnext[Limbo], Limbo, higher)
  <2>1. first \notin L /\ o \notin L
    BY <1>2, <1>3 DEF Wired
  <2>2. \A n \in L : /\ g.lnext[n] = h.lnext[n] /\ g.lprev[n] = h.lprev[n]
                     /\ higher[n] = rank[n] + 1 /\ rank[n] \in Nat
    BY <2>1, <1>3, <1>4, <1>5
  <2>3. Chain(h, L, h.lnext[Limbo], Limbo, rank)
    BY <1>1 DEF Ranked
  <2> QED
    BY <2>1, <2>2, <2>3, <1>4 DEF Chain
<1>9. Ranked(g, L, D, higher, top + 1)
  BY <1>4, <1>5, <1>7, <1>8 DEF Ranked
<1>10. /\ h.scache_last \in C \cup {Null}
       /\ h.scache_last = Null => C = {}
       /\ \A n \in C : h.lnext[n] = Null <=> n = h.scache_last
       /\ L \cap C = {}
  BY DEF Wired
<1>11. /\ g.scache_last \in D \cup {Null}
       /\ g.scache_last = Null => D = {}
       /\ \A n \in D : g.lnext[n] = Null <=> n = g.scache_last
  <2>1. CASE first = Null
    <3>1. D = {o} /\ g.scache_last = o /\ g.lnext[o] = Null
      BY <2>1, <1>3, <1>4
    <3> QED
      BY <3>1, <1>2
  <2>2. CASE first # Null
    <3>1. g.scache_last = h.scache_last /\ h.scache_last # o /\ h.scache_last \in C
      BY <2>2, <1>2, <1>3, <1>4, <1>10
    <3>2. h.scache_last # Null
      BY <3>1, <1>2, <1>3
    <3>3. \A n \in D : g.lnext[n] = Null <=> n = g.scache_last
      BY <2>2, <3>1, <1>4, <1>6, <1>10
    <3> QED
      BY <3>1, <3>2, <3>3
  <2> QED
    BY <2>1, <2>2
<1>12. \A n \in Strings \ (L \cup D) : g.lnext[n] = Null /\ g.lprev[n] = Null
  BY <1>2, <1>3, <1>4 DEF Wired
<1>13. L \cap D = {}
  BY <1>10
<1> QED
  BY <1>4, <1>9, <1>11, <1>12, <1>13 DEF Wired, g

-----------------------------------------------------------------------------
(* The lists as the properties read them. *)

\* What a list leads to is what is on it; read backwards from its end, too.
LEMMA OnListIs ==
    ASSUME NEW h, NEW L, NEW C, Wired(h, L, C)
    PROVE  /\ OnList(h.lnext[Limbo], h.lnext) = L
           /\ OnList(h.scache, h.lnext) = C
           /\ OnList(h.scache_last, h.lprev) = C
<1>1. PICK rank, top : Ranked(h, L, C, rank, top)
  BY DEF Wired
<1>2. /\ Chain(h, L, h.lnext[Limbo], Limbo, rank) /\ Chain(h, C, h.scache, Null, rank)
      /\ rank \in [Strings -> Nat] /\ top \in Nat
      /\ \A o \in Strings : rank[o] <= top
  BY <1>1 DEF Ranked
<1>3. ASSUME NEW S, NEW first, NEW head, head \notin Strings, Chain(h, S, first, head, rank)
      PROVE  OnList(first, h.lnext) = S
  <2>1. S \in SUBSET Strings /\ Keeps(S, first, h.lnext) /\ Null \notin S
    BY <1>3, StringsAssumption DEF Chain, Keeps
  <2>2. OnList(first, h.lnext) \subseteq S
    BY <2>1 DEF OnList
  <2>3. ASSUME NEW o \in S, NEW T \in SUBSET Strings, Keeps(T, first, h.lnext), o \notin T
        PROVE  FALSE
    <3> DEFINE least == {k \in Nat : \E m \in S \ T : rank[m] = k}
    <3>1. rank[o] \in least /\ least \subseteq Nat
      BY <2>1, <2>3, <1>2
    <3>2. PICK k \in least : \A j \in least : k <= j
      <4> HIDE DEF least
      <4> QED
        BY <3>1, LeastNat
    <3>3. PICK m \in S \ T : rank[m] = k
      OBVIOUS
    <3>4. m # first
      BY <3>3, <2>1, <2>3 DEF Keeps
    <3>5. h.lprev[m] \in S /\ h.lnext[h.lprev[m]] = m /\ m # Null
      BY <3>3, <3>4, <1>3, <2>1 DEF Chain
    <3>6. h.lprev[m] \notin T
      BY <3>3, <3>5, <2>3 DEF Keeps
    <3>7. rank[h.lprev[m]] < k
      BY <3>3, <3>5, <1>3 DEF Chain
    <3>8. rank[h.lprev[m]] \in least /\ rank[h.lprev[m]] \in Nat /\ k \in Nat
      BY <3>5, <3>6, <1>2, <2>1
    <3> QED
      BY <3>2, <3>7, <3>8
  <2>4. S \subseteq OnList(first, h.lnext)
    BY <2>1, <2>3 DEF OnList
  <2> QED
    BY <2>2, <2>4
<1>4. Limbo \notin Strings /\ Null \notin Strings
  BY StringsAssumption
<1>5. OnList(h.scache_last, h.lprev) = C
  <2>1. /\ C \in SUBSET Strings
        /\ \A o \in C : h.lprev[o] \in C \cup {Null}
        /\ \A o \in C : h.lnext[o] # Null =>
              h.lnext[o] \in C /\ h.lprev[h.lnext[o]] = o /\ rank[o] < rank[h.lnext[o]]
    BY <1>2, <1>4 DEF Chain
  <2>2. /\ h.scache_last \in C \cup {Null} /\ (h.scache_last = Null => C = {})
        /\ \A o \in C : h.lnext[o] = Null <=> o = h.scache_last
    BY DEF Wired
  <2>3. OnList(h.scache_last, h.lprev) \subseteq C
    BY <2>1, <2>2 DEF OnList, Keeps
  <2>4. ASSUME NEW o \in C, NEW T \in SUBSET Strings, Keeps(T, h.scache_last, h.lprev), o \notin T
        PROVE  FALSE
    <3> DEFINE least == {k \in Nat : \E m \in C \ T : top - rank[m] = k}
    <3>1. \A m \in C : top - rank[m] \in Nat
      BY <2>1, <1>2
    <3>2. top - rank[o] \in least /\ least \subseteq Nat
      BY <2>4, <3>1
    <3>3. PICK k \in least : \A j \in least : k <= j
      <4> HIDE DEF least
      <4> QED
        BY <3>2, LeastNat
    <3>4. PICK m \in C \ T : top - rank[m] = k
      OBVIOUS
    <3>5. m # h.scache_last
      BY <3>4, <2>1, <2>4, <1>4 DEF Keeps
    <3>6. h.lnext[m] \in C /\ h.lprev[h.lnext[m]] = m /\ rank[m] < rank[h.lnext[m]] /\ m # Null
      BY <3>4, <3>5, <2>1, <2>2, <1>4
    <3>7. h.lnext[m] \notin T
      BY <3>4, <3>6, <2>4 DEF Keeps
    <3>8. rank[m] \in Nat /\ rank[h.lnext[m]] \in Nat
      BY <3>4, <3>6, <2>1, <1>2
    <3>9. top - rank[h.lnext[m]] \in least /\ top - rank[h.lnext[m]] < k
      BY <3>1, <3>4, <3>6, <3>7, <3>8, <1>2
    <3> QED
      BY <3>2, <3>3, <3>9
  <2>5. C \subseteq OnList(h.scache_last, h.lprev)
    BY <2>1, <2>4 DEF OnList
  <2> QED
    BY <2>3, <2>5
<1> QED
  BY <1>2, <1>3, <1>4, <1>5

-----------------------------------------------------------------------------
(***************************************************************************)
(* The books of the pool: `own` is how many owners each string has besides *)
(* limbo, `weak` the weak references wired to it, L and C as in Wired.     *)
(* They tell the refcounts, which strings are cached, and the size of the  *)
(* cache; a string without memory has nothing left that points to it.      *)
(***************************************************************************)
Books(h, own, weak, open, L, C) ==
    /\ Wired(h, L, C)
    /\ own \in [Strings -> Nat]
    /\ L \subseteq h.live
    /\ C = {o \in h.live : h.refcount[o] = 0}
    /\ \A o \in Strings : h.refcount[o] = own[o] + (IF o \in L THEN 1 ELSE 0)
    /\ \A o \in Strings \ h.live : own[o] = 0
    /\ h.weakrefs = weak /\ h.open = open
    /\ h.scache_size = Cardinality(C) /\ h.scache_size <= CacheMax + 1
    /\ h.pool = IF h.open THEN h.live ELSE {}
    /\ ~h.open => C = {}
    /\ \A o, p \in h.pool : h.text[o] = h.text[p] => o = p

LEMMA WiredSame ==
    ASSUME NEW h, NEW g \in Heap, NEW L, NEW C, Wired(h, L, C),
           g.lnext = h.lnext, g.lprev = h.lprev,
           g.scache = h.scache, g.scache_last = h.scache_last
    PROVE  Wired(g, L, C)
<1>1. PICK rank, top : Ranked(h, L, C, rank, top)
  BY DEF Wired
<1>2. Ranked(g, L, C, rank, top)
  BY <1>1 DEF Ranked, Chain
<1> QED
  BY <1>2 DEF Wired

LEMMA WiredSets ==
    ASSUME NEW h, NEW L, NEW C, Wired(h, L, C)
    PROVE  /\ h \in Heap /\ L \subseteq Strings /\ C \subseteq Strings /\ L \cap C = {}
           /\ IsFiniteSet(L) /\ IsFiniteSet(C)
           /\ Cardinality(C) \in Nat /\ Cardinality(C) <= Cardinality(Strings)
           /\ Cardinality(Strings) \in Nat
<1>1. h \in Heap /\ L \subseteq Strings /\ C \subseteq Strings /\ L \cap C = {}
  BY DEF Wired, Ranked, Chain
<1> QED
  BY <1>1, StringsAssumption, FS_Subset, FS_CardinalityType

LEMMA BooksSets ==
    ASSUME NEW h, NEW own, NEW weak, NEW open, NEW L, NEW C, Books(h, own, weak, open, L, C)
    PROVE  /\ Wired(h, L, C) /\ h \in Heap
           /\ h.live \subseteq Strings /\ L \subseteq h.live /\ C \subseteq h.live
           /\ L \cap C = {}
           /\ h.refcount \in [Strings -> Nat] /\ own \in [Strings -> Nat]
           /\ h.scache_size = Cardinality(C) /\ Cardinality(C) \in Nat /\ IsFiniteSet(C)
<1>1. Wired(h, L, C)
  BY DEF Books
<1>2. h \in Heap /\ L \cap C = {} /\ Cardinality(C) \in Nat /\ IsFiniteSet(C)
  BY <1>1, WiredSets
<1> QED
  BY <1>1, <1>2 DEF Books, Heap

LEMMA OwnMore ==
    ASSUME NEW h, NEW own, NEW weak, NEW open, NEW L, NEW C, Books(h, own, weak, open, L, C),
           NEW o \in h.live, h.refcount[o] > 0
    PROVE  Books(Own(h, o), [own EXCEPT ![o] = @ + 1], weak, open, L, C)
<1> DEFINE g == Own(h, o)
           more == [own EXCEPT ![o] = @ + 1]
<1>1. h \in Heap /\ o \in Strings /\ h.live \subseteq Strings
  BY BooksSets
<1>2. /\ g \in Heap /\ g.refcount = [h.refcount EXCEPT ![o] = @ + 1]
      /\ g.lnext = h.lnext /\ g.lprev = h.lprev
      /\ g.scache = h.scache /\ g.scache_last = h.scache_last
      /\ g.live = h.live /\ g.text = h.text /\ g.weakrefs = h.weakrefs /\ g.pool = h.pool
      /\ g.scache_size = h.scache_size /\ g.open = h.open
  BY <1>1 DEF Own, Heap
<1> HIDE DEF g
<1>3. h.refcount \in [Strings -> Nat] /\ own \in [Strings -> Nat]
  BY <1>1 DEF Heap, Books
<1>4. Wired(g, L, C)
  BY <1>2, WiredSame DEF Books
<1>5. more \in [Strings -> Nat] /\ \A p \in Strings : more[p] = IF p = o THEN own[p] + 1 ELSE own[p]
  BY <1>1, <1>3
<1>6. \A p \in Strings : g.refcount[p] = IF p = o THEN h.refcount[p] + 1 ELSE h.refcount[p]
  BY <1>1, <1>2, <1>3
<1> HIDE DEF more
<1>7. C = {p \in g.live : g.refcount[p] = 0}
  BY <1>1, <1>2, <1>3, <1>6 DEF Books
<1>8. \A p \in Strings : g.refcount[p] = more[p] + (IF p \in L THEN 1 ELSE 0)
  BY <1>1, <1>3, <1>5, <1>6 DEF Books
<1>9. \A p \in Strings \ g.live : more[p] = 0
  BY <1>1, <1>2, <1>5 DEF Books
<1> QED
  BY <1>2, <1>4, <1>5, <1>7, <1>8, <1>9 DEF Books, g, more

\* ps_resurrect, of a string that is owned or of one that waits in the cache.
LEMMA ResurrectOwns ==
    ASSUME NEW h, NEW own, NEW weak, NEW open, NEW L, NEW C, Books(h, own, weak, open, L, C),
           NEW o \in h.live
    PROVE  Books(Resurrect(h, o), [own EXCEPT ![o] = @ + 1], weak, open, L, C \ {o})
<1>1. h \in Heap /\ o \in Strings /\ h.live \subseteq Strings
  BY BooksSets
<1>2. h.refcount \in [Strings -> Nat] /\ own \in [Strings -> Nat]
  BY <1>1 DEF Heap, Books
<1>3. CASE h.refcount[o] # 0
  <2>1. o \notin C /\ C \ {o} = C /\ h.refcount[o] > 0
    BY <1>1, <1>2, <1>3 DEF Books
  <2> QED
    BY <2>1, <1>3, OwnMore DEF Resurrect
<1>4. CASE h.refcount[o] = 0
  <2> DEFINE k == CacheUnlink(h, o)
             g == Own([k EXCEPT !.scache_size = @ - 1], o)
             more == [own EXCEPT ![o] = @ + 1]
  <2>1. Resurrect(h, o) = g
    BY <1>4 DEF Resurrect
  <2>2. o \in C /\ o \notin L
    BY <1>1, <1>4, BooksSets DEF Books
  <2>3. Wired(k, L, C \ {o}) /\ k \in Heap /\ SameStrings(k, h)
    <3>1. Wired(h, L, C)
      BY DEF Books
    <3>2. h.lprev[o] # Limbo /\ Wired(k, L, C \ {o})
      BY <2>2, <3>1, UnlinkCache
    <3> QED
      BY <1>1, <3>2, CacheUnlinkDoes
  <2>4. /\ h.scache_size = Cardinality(C) /\ Cardinality(C) \in Nat
        /\ Cardinality(C \ {o}) = Cardinality(C) - 1 /\ Cardinality(C \ {o}) \in Nat
    <3>1. /\ h.scache_size = Cardinality(C) /\ Cardinality(C) \in Nat /\ IsFiniteSet(C)
      BY BooksSets
    <3>2. /\ IsFiniteSet(C \ {o}) /\ Cardinality(C \ {o}) = Cardinality(C) - 1
      BY <2>2, <3>1, FS_RemoveElement
    <3> QED
      BY <3>1, <3>2, FS_CardinalityType
  <2> HIDE DEF k
  <2> DEFINE k2 == [k EXCEPT !.scache_size = @ - 1]
  <2>50. /\ k2 \in Heap /\ k2.scache_size = h.scache_size - 1
         /\ k2.lnext = k.lnext /\ k2.lprev = k.lprev
         /\ k2.scache = k.scache /\ k2.scache_last = k.scache_last
         /\ k2.live = h.live /\ k2.text = h.text /\ k2.weakrefs = h.weakrefs /\ k2.pool = h.pool
         /\ k2.refcount = h.refcount /\ k2.open = h.open
    BY <1>1, <2>3, <2>4 DEF Heap, SameStrings
  <2>51. g = Own(k2, o)
    OBVIOUS
  <2> HIDE DEF k2, g
  <2>5. /\ g \in Heap /\ g.refcount = [h.refcount EXCEPT ![o] = @ + 1]
        /\ g.lnext = k.lnext /\ g.lprev = k.lprev
        /\ g.scache = k.scache /\ g.scache_last = k.scache_last
        /\ g.live = h.live /\ g.text = h.text /\ g.weakrefs = h.weakrefs /\ g.pool = h.pool
        /\ g.scache_size = h.scache_size - 1 /\ g.open = h.open
    BY <1>1, <2>50, <2>51, SMTT(30) DEF Own, Heap
  <2>6. Wired(g, L, C \ {o})
    BY <2>3, <2>5, WiredSame
  <2>7. more \in [Strings -> Nat] /\ \A p \in Strings : more[p] = IF p = o THEN own[p] + 1 ELSE own[p]
    BY <1>1, <1>2
  <2>8. \A p \in Strings : g.refcount[p] = IF p = o THEN h.refcount[p] + 1 ELSE h.refcount[p]
    BY <1>1, <1>2, <2>5
  <2> HIDE DEF more
  <2>9. C \ {o} = {p \in g.live : g.refcount[p] = 0}
    BY <1>1, <1>2, <2>5, <2>8 DEF Books
  <2>10. \A p \in Strings : g.refcount[p] = more[p] + (IF p \in L THEN 1 ELSE 0)
    BY <1>1, <1>2, <2>7, <2>8 DEF Books
  <2>11. \A p \in Strings \ g.live : more[p] = 0
    BY <1>1, <2>5, <2>7 DEF Books
  <2>12. /\ L \subseteq g.live /\ g.weakrefs = weak
         /\ g.scache_size = Cardinality(C \ {o}) /\ g.scache_size <= CacheMax + 1
    BY <2>4, <2>5, ConstantsAssumption DEF Books
  <2>13. /\ g.pool = IF g.open THEN g.live ELSE {}
         /\ g.open = open
         /\ ~g.open => C \ {o} = {}
         /\ \A p, q \in g.pool : g.text[p] = g.text[q] => p = q
    BY <2>5 DEF Books
  <2>14. Books(g, more, weak, open, L, C \ {o})
    BY <2>6, <2>7, <2>9, <2>10, <2>11, <2>12, <2>13 DEF Books
  <2> QED
    BY <2>1, <2>14 DEF more, g, k2
<1> QED
  BY <1>3, <1>4

\* A string with an owner has memory and is not cached.
LEMMA OwnedAlive ==
    ASSUME NEW h, NEW own, NEW weak, NEW open, NEW L, NEW C, Books(h, own, weak, open, L, C),
           NEW o \in Strings, own[o] > 0
    PROVE  o \in h.live /\ o \notin C /\ h.refcount[o] > 0
<1>1. own[o] \in Nat /\ h.refcount[o] \in Nat
  BY BooksSets
<1>2. o \in h.live
  BY <1>1 DEF Books
<1>3. h.refcount[o] = own[o] + (IF o \in L THEN 1 ELSE 0)
  BY DEF Books
<1>4. h.refcount[o] > 0
  BY <1>1, <1>3
<1>5. o \notin C
  BY <1>1, <1>4 DEF Books
<1> QED
  BY <1>2, <1>4, <1>5

\* eel_v_receive: limbo takes over one of the owners.
LEMMA ReceiveKeeps ==
    ASSUME NEW h, NEW own, NEW weak, NEW open, NEW L, NEW C, Books(h, own, weak, open, L, C),
           NEW o \in Strings, own[o] > 0
    PROVE  Books(Receive(h, o), [own EXCEPT ![o] = @ - 1], weak, open, L \cup {o}, C)
<1> DEFINE g == Receive(h, o)
           less == [own EXCEPT ![o] = @ - 1]
<1>1. /\ Wired(h, L, C) /\ h \in Heap
      /\ h.live \subseteq Strings /\ L \subseteq h.live
      /\ h.refcount \in [Strings -> Nat] /\ own \in [Strings -> Nat]
  BY BooksSets
<1>2. o \in h.live /\ o \notin C /\ h.refcount[o] > 0
  BY OwnedAlive
<1>3. InLimbo(h, o) <=> o \in L
  BY <1>1, <1>2, InLimboIs
<1>4. less \in [Strings -> Nat] /\ \A p \in Strings : less[p] = IF p = o THEN own[p] - 1 ELSE own[p]
  BY <1>1
<1>5. \A p \in Strings : h.refcount[p] = own[p] + (IF p \in L THEN 1 ELSE 0)
  BY DEF Books
<1>6. /\ g \in Heap /\ Wired(g, L \cup {o}, C)
      /\ g.live = h.live /\ g.text = h.text /\ g.weakrefs = h.weakrefs /\ g.pool = h.pool
      /\ g.scache_size = h.scache_size /\ g.open = h.open
      /\ \A p \in Strings : g.refcount[p] = IF p = o /\ o \in L THEN h.refcount[p] - 1 ELSE h.refcount[p]
  <2>1. CASE o \in L
    <3>1. g = [h EXCEPT !.refcount[o] = @ - 1]
      BY <1>3, <2>1 DEF Receive
    <3> HIDE DEF g
    <3>2. /\ g \in Heap /\ g.refcount = [h.refcount EXCEPT ![o] = @ - 1]
          /\ g.lnext = h.lnext /\ g.lprev = h.lprev
          /\ g.scache = h.scache /\ g.scache_last = h.scache_last
          /\ g.live = h.live /\ g.text = h.text /\ g.weakrefs = h.weakrefs /\ g.pool = h.pool
          /\ g.scache_size = h.scache_size /\ g.open = h.open
      BY <1>1, <1>2, <3>1, SMTT(30) DEF Heap
    <3>3. Wired(g, L, C) /\ L \cup {o} = L
      BY <1>1, <2>1, <3>2, WiredSame
    <3> QED
      BY <1>1, <2>1, <3>2, <3>3
  <2>2. CASE o \notin L
    <3>1. g = LimboPush(h, o)
      BY <1>3, <2>2 DEF Receive
    <3> HIDE DEF g
    <3>2. o \in Strings \ (L \cup C)
      BY <1>2, <2>2
    <3>3. Wired(g, L \cup {o}, C)
      BY <1>1, <3>1, <3>2, PushLimbo
    <3>4. g \in Heap /\ SameStrings(g, h)
      BY <1>1, <3>1, LimboPushDoes
    <3> QED
      BY <2>2, <3>3, <3>4 DEF SameStrings
  <2> QED
    BY <2>1, <2>2
<1> HIDE DEF g, less
<1>7. \A p \in Strings : g.refcount[p] = less[p] + (IF p \in L \cup {o} THEN 1 ELSE 0)
  BY <1>1, <1>4, <1>5, <1>6
<1>8. C = {p \in g.live : g.refcount[p] = 0}
  <2>1. g.refcount[o] # 0
    BY <1>1, <1>4, <1>7
  <2>2. C = {p \in h.live : h.refcount[p] = 0}
    BY DEF Books
  <2> QED
    BY <1>1, <1>2, <1>6, <2>1, <2>2
<1>9. \A p \in Strings \ g.live : less[p] = 0
  BY <1>2, <1>4, <1>6 DEF Books
<1> QED
  BY <1>1, <1>2, <1>4, <1>6, <1>7, <1>8, <1>9 DEF Books, g, less

LEMMA MoreAndLess ==
    ASSUME NEW own \in [Strings -> Nat], NEW o \in Strings
    PROVE  LET more == [own EXCEPT ![o] = @ + 1]
           IN  /\ more \in [Strings -> Nat] /\ more[o] > 0
               /\ [more EXCEPT ![o] = @ - 1] = own
<1> DEFINE more == [own EXCEPT ![o] = @ + 1]
           back == [more EXCEPT ![o] = @ - 1]
<1>1. /\ more \in [Strings -> Nat] /\ more[o] = own[o] + 1 /\ own[o] \in Nat
      /\ \A p \in Strings : p # o => more[p] = own[p]
  OBVIOUS
<1>2. \A p \in Strings : back[p] = own[p]
  BY <1>1
<1>3. back = [p \in Strings |-> back[p]] /\ own = [p \in Strings |-> own[p]]
  BY <1>1
<1> HIDE DEF back
<1>4. back = own
  BY <1>2, <1>3
<1> QED
  BY <1>1, <1>4 DEF back

\* eel_v_grab: the string gets limbo as an owner, unless it is there.
LEMMA GrabKeeps ==
    ASSUME NEW h, NEW own, NEW weak, NEW open, NEW L, NEW C, Books(h, own, weak, open, L, C),
           NEW o \in h.live, h.refcount[o] > 0
    PROVE  Books(Grab(h, o), own, weak, open, L \cup {o}, C)
<1>1. /\ Wired(h, L, C) /\ h \in Heap /\ o \in Strings
      /\ h.refcount \in [Strings -> Nat] /\ own \in [Strings -> Nat]
  BY BooksSets
<1>2. o \notin C
  BY DEF Books
<1>3. InLimbo(h, o) <=> o \in L
  BY <1>1, <1>2, InLimboIs
<1>4. CASE o \in L
  <2>1. Grab(h, o) = h /\ L \cup {o} = L
    BY <1>3, <1>4 DEF Grab
  <2> QED
    BY <2>1
<1>5. CASE o \notin L
  <2> DEFINE g == Own(h, o)
             more == [own EXCEPT ![o] = @ + 1]
  <2>1. Books(g, more, weak, open, L, C)
    BY OwnMore
  <2>2. more \in [Strings -> Nat] /\ more[o] > 0 /\ [more EXCEPT ![o] = @ - 1] = own
    BY <1>1, MoreAndLess
  <2>3. g.lprev = h.lprev
    BY <1>1 DEF Own, Heap
  <2>4. Grab(h, o) = LimboPush(g, o) /\ Receive(g, o) = LimboPush(g, o)
    BY <1>3, <1>5, <2>3 DEF Grab, Receive, InLimbo
  <2> HIDE DEF g, more
  <2>5. Books(Receive(g, o), [more EXCEPT ![o] = @ - 1], weak, open, L \cup {o}, C)
    BY <1>1, <2>1, <2>2, ReceiveKeeps
  <2> QED
    BY <2>2, <2>4, <2>5
<1> QED
  BY <1>4, <1>5

\* The first half of a turn of limbo_clean: limbo's owner is nobody's yet.
LEMMA OutOfLimbo ==
    ASSUME NEW h, NEW own, NEW weak, NEW open, NEW L, NEW C, Books(h, own, weak, open, L, C),
           NEW o \in L
    PROVE  Books(LimboUnlink(h, o), [own EXCEPT ![o] = @ + 1], weak, open, L \ {o}, C)
<1> DEFINE g == LimboUnlink(h, o)
           more == [own EXCEPT ![o] = @ + 1]
<1>1. /\ Wired(h, L, C) /\ h \in Heap /\ o \in Strings \ C /\ o \in h.live
      /\ h.live \subseteq Strings /\ L \subseteq h.live
      /\ h.refcount \in [Strings -> Nat] /\ own \in [Strings -> Nat]
  BY BooksSets
<1>2. g \in Heap /\ SameStrings(g, h) /\ Wired(g, L \ {o}, C)
  BY <1>1, LimboUnlinkDoes, UnlinkLimbo
<1>3. more \in [Strings -> Nat] /\ \A p \in Strings : more[p] = IF p = o THEN own[p] + 1 ELSE own[p]
  BY <1>1
<1> HIDE DEF g, more
<1>4. \A p \in Strings : g.refcount[p] = more[p] + (IF p \in L \ {o} THEN 1 ELSE 0)
  <2>1. \A p \in Strings : h.refcount[p] = own[p] + (IF p \in L THEN 1 ELSE 0)
    BY DEF Books
  <2> QED
    BY <1>1, <1>2, <1>3, <2>1 DEF SameStrings
<1>5. C = {p \in g.live : g.refcount[p] = 0}
  BY <1>2 DEF Books, SameStrings
<1>6. \A p \in Strings \ g.live : more[p] = 0
  BY <1>1, <1>2, <1>3 DEF Books, SameStrings
<1>7. L \ {o} \subseteq g.live
  BY <1>1, <1>2 DEF SameStrings
<1> QED
  BY <1>2, <1>3, <1>4, <1>5, <1>6, <1>7 DEF Books, SameStrings, g, more

\* eel_o_disown_nz: an owner less, of a string that may be the last one.
LEMMA DisownKeeps ==
    ASSUME NEW h, NEW own, NEW weak, NEW open, NEW L, NEW C, Books(h, own, weak, open, L, C),
           NEW o \in Strings, own[o] > 0
    PROVE  \E D : Books(Disown(h, o), [own EXCEPT ![o] = @ - 1], weak, open, L, D)
<1> DEFINE h1 == [h EXCEPT !.refcount[o] = @ - 1]
           h2 == LimboUnlink(h1, o)
           less == [own EXCEPT ![o] = @ - 1]
<1>1. /\ Wired(h, L, C) /\ h \in Heap
      /\ h.live \subseteq Strings /\ L \subseteq h.live /\ C \subseteq h.live /\ L \cap C = {}
      /\ h.refcount \in [Strings -> Nat] /\ own \in [Strings -> Nat]
      /\ h.scache_size = Cardinality(C) /\ Cardinality(C) \in Nat /\ IsFiniteSet(C)
  BY BooksSets
<1>2. o \in h.live /\ o \notin C /\ h.refcount[o] > 0
  BY OwnedAlive
<1>3. /\ h1 \in Heap
      /\ h1.lnext = h.lnext /\ h1.lprev = h.lprev
      /\ h1.scache = h.scache /\ h1.scache_last = h.scache_last
      /\ h1.live = h.live /\ h1.text = h.text /\ h1.weakrefs = h.weakrefs /\ h1.pool = h.pool
      /\ h1.scache_size = h.scache_size /\ h1.open = h.open
      /\ \A p \in Strings : h1.refcount[p] = IF p = o THEN h.refcount[p] - 1 ELSE h.refcount[p]
  BY <1>1, <1>2, SMTT(30) DEF Heap, SameStrings
<1>4. /\ less \in [Strings -> Nat]
      /\ \A p \in Strings : less[p] = IF p = o THEN own[p] - 1 ELSE own[p]
  BY <1>1
<1>5. Disown(h, o) = IF h1.refcount[o] # 0 THEN h1
                     ELSE IF h.open THEN Spill(CachePush(LimboUnlink(h2, o), o))
                     ELSE Free(h2, o)
  BY DEF Disown
<1> HIDE DEF h1, less
<1>6. Wired(h1, L, C)
  BY <1>1, <1>3, WiredSame
<1>7. \A p \in Strings : h1.refcount[p] = less[p] + (IF p \in L THEN 1 ELSE 0)
  <2>1. \A p \in Strings : h.refcount[p] = own[p] + (IF p \in L THEN 1 ELSE 0)
    BY DEF Books
  <2> QED
    BY <1>1, <1>3, <1>4, <2>1
<1>8. \A p \in Strings \ h.live : less[p] = 0
  BY <1>2, <1>4 DEF Books
<1>9. /\ h.weakrefs = weak /\ h.scache_size <= CacheMax + 1
      /\ h.pool = (IF h.open THEN h.live ELSE {}) /\ (~h.open => C = {})
      /\ \A p, q \in h.pool : h.text[p] = h.text[q] => p = q
      /\ C = {p \in h.live : h.refcount[p] = 0}
  BY DEF Books
<1>10. CASE h1.refcount[o] # 0
  <2>1. C = {p \in h1.live : h1.refcount[p] = 0}
    BY <1>1, <1>2, <1>3, <1>9, <1>10
  <2>2. Books(h1, less, weak, open, L, C)
    BY <1>1, <1>3, <1>4, <1>6, <1>7, <1>8, <1>9, <2>1 DEF Books
  <2> QED
    BY <1>5, <1>10, <2>2 DEF less
<1>11. CASE h1.refcount[o] = 0
  <2>1. o \notin L /\ L \ {o} = L /\ less[o] = 0
    BY <1>4, <1>7, <1>11
  <2>2. /\ h2 \in Heap /\ SameStrings(h2, h1) /\ Wired(h2, L, C)
    BY <1>2, <1>3, <1>6, <2>1, LimboUnlinkDoes, UnlinkLimbo
  <2> HIDE DEF h2
  <2>3. \A p \in h.live : p \in C \cup {o} <=> h1.refcount[p] = 0
    BY <1>1, <1>3, <1>9, <1>11
  <2>4. CASE ~h.open
    <3> DEFINE g == Free(h2, o)
    <3>1. /\ g \in Heap /\ g.lnext = h2.lnext /\ g.lprev = h2.lprev
          /\ g.scache = h2.scache /\ g.scache_last = h2.scache_last
          /\ g.live = h.live \ {o} /\ g.text = h.text /\ g.weakrefs = h.weakrefs
          /\ g.pool = h.pool /\ g.scache_size = h.scache_size /\ g.open = h.open
          /\ g.refcount = h1.refcount
      BY <1>3, <2>2, <2>4 DEF Free, Heap, SameStrings
    <3> HIDE DEF g
    <3>2. Wired(g, L, C)
      BY <2>2, <3>1, WiredSame
    <3>3. C = {p \in g.live : g.refcount[p] = 0}
      BY <1>2, <2>3, <2>4, <1>9, <3>1
    <3>4. \A p \in Strings \ g.live : less[p] = 0
      BY <1>8, <2>1, <3>1
    <3>5. g.pool = {} /\ L \subseteq g.live
      BY <1>1, <1>9, <2>1, <2>4, <3>1
    <3>6. Books(g, less, weak, open, L, C)
      BY <1>1, <1>4, <1>7, <1>9, <2>4, <3>1, <3>2, <3>3, <3>4, <3>5 DEF Books
    <3> QED
      BY <1>5, <1>11, <2>4, <3>6 DEF less, g
  <2>5. CASE h.open
    <3> DEFINE h3 == LimboUnlink(h2, o)
               h4 == CachePush(h3, o)
               D == C \cup {o}
    <3>1. h3 \in Heap /\ SameStrings(h3, h2) /\ Wired(h3, L, C)
      BY <1>2, <2>1, <2>2, LimboUnlinkDoes, UnlinkLimbo
    <3> HIDE DEF h3
    <3>2. o # h3.scache
      BY <1>2, <3>1, StringsAssumption DEF Wired, Ranked, Chain
    <3>3. h4 \in Heap /\ SameStrings(h4, h3) /\ Wired(h4, L, D)
      BY <1>2, <2>1, <3>1, <3>2, CachePushDoes, PushCache
    <3> HIDE DEF h4
    <3>4. /\ h4.live = h.live /\ h4.text = h.text /\ h4.weakrefs = h.weakrefs /\ h4.pool = h.pool
          /\ h4.scache_size = h.scache_size /\ h4.open = h.open /\ h4.refcount = h1.refcount
      BY <1>3, <2>2, <3>1, <3>3 DEF SameStrings
    <3>5. /\ IsFiniteSet(D) /\ Cardinality(D) = Cardinality(C) + 1 /\ Cardinality(D) \in Nat
          /\ D \subseteq h.live /\ D = {p \in h.live : h1.refcount[p] = 0}
      <4>1. IsFiniteSet(D) /\ Cardinality(D) = Cardinality(C) + 1
        BY <1>1, <1>2, FS_AddElement
      <4> QED
        BY <1>1, <1>2, <2>3, <4>1
    <3> HIDE DEF D
    <3>6. CASE h4.scache_size > CacheMax
      <4> DEFINE last == h4.scache_last
                 h5 == CacheUnlink(h4, last)
                 g == Free(h5, last)
      <4>1. last \in D
        <5>1. D # {}
          BY <3>5, FS_EmptySet, <1>1
        <5> QED
          BY <5>1, <3>3 DEF Wired
      <4> HIDE DEF last
      <4>2. Wired(h5, L, D \ {last}) /\ h5 \in Heap /\ SameStrings(h5, h4)
        <5>1. h4.lprev[last] # Limbo /\ Wired(h5, L, D \ {last})
          BY <3>3, <4>1, UnlinkCache
        <5>2. last \in Strings
          BY <1>1, <3>5, <4>1
        <5> QED
          BY <3>3, <5>1, <5>2, CacheUnlinkDoes
      <4> HIDE DEF h5
      <4>3. /\ g \in Heap /\ g.lnext = h5.lnext /\ g.lprev = h5.lprev
            /\ g.scache = h5.scache /\ g.scache_last = h5.scache_last
            /\ g.live = h.live \ {last} /\ g.text = h.text /\ g.weakrefs = h.weakrefs
            /\ g.pool = h.pool \ {last} /\ g.scache_size = h.scache_size /\ g.open = h.open
            /\ g.refcount = h1.refcount
        BY <2>5, <3>4, <4>2 DEF Free, Heap, SameStrings
      <4>4. Spill(h4) = g
        BY <3>6 DEF Spill, last, h5
      <4> HIDE DEF g
      <4>5. Wired(g, L, D \ {last})
        BY <4>2, <4>3, WiredSame
      <4>6. Cardinality(D \ {last}) = Cardinality(C) /\ Cardinality(C) \in Nat
        <5>1. Cardinality(D \ {last}) = Cardinality(D) - 1
          BY <3>5, <4>1, FS_RemoveElement
        <5> QED
          BY <1>1, <3>5, <5>1
      <4>7. D \ {last} = {p \in g.live : g.refcount[p] = 0}
        BY <3>5, <4>3
      <4>8. last \in Strings /\ less[last] = 0 /\ last \notin L
        BY <1>1, <1>4, <1>7, <3>5, <4>1
      <4>9. L \subseteq g.live /\ \A p \in Strings \ g.live : less[p] = 0
        BY <1>1, <1>8, <4>3, <4>8
      <4>10. /\ g.pool = (IF g.open THEN g.live ELSE {})
             /\ g.open
             /\ \A p, q \in g.pool : g.text[p] = g.text[q] => p = q
        <5>1. h.pool = h.live
          BY <1>9, <2>5
        <5> QED
          BY <1>9, <2>5, <4>3, <5>1
      <4>11. Books(g, less, weak, open, L, D \ {last})
        BY <1>1, <1>4, <1>7, <1>9, <4>3, <4>5, <4>6, <4>7, <4>9, <4>10 DEF Books
      <4> QED
        BY <1>5, <1>11, <2>5, <4>4, <4>11 DEF less, h3, h4
    <3>7. CASE ~(h4.scache_size > CacheMax)
      <4> DEFINE g == [h4 EXCEPT !.scache_size = @ + 1]
      <4>1. Spill(h4) = g
        BY <3>7 DEF Spill
      <4>2. /\ g \in Heap /\ g.lnext = h4.lnext /\ g.lprev = h4.lprev
            /\ g.scache = h4.scache /\ g.scache_last = h4.scache_last
            /\ g.live = h.live /\ g.text = h.text /\ g.weakrefs = h.weakrefs
            /\ g.pool = h.pool /\ g.scache_size = h.scache_size + 1 /\ g.open = h.open
            /\ g.refcount = h1.refcount
        BY <3>3, <3>4 DEF Heap
      <4> HIDE DEF g
      <4>3. Wired(g, L, D)
        BY <3>3, <4>2, WiredSame
      <4>4. g.scache_size = Cardinality(D) /\ g.scache_size <= CacheMax + 1
        BY <1>1, <3>4, <3>5, <3>7, <4>2, ConstantsAssumption
      <4>5. D = {p \in g.live : g.refcount[p] = 0}
        BY <3>5, <4>2
      <4>51. /\ g.open = open /\ g.open /\ g.weakrefs = weak /\ g.pool = g.live
             /\ L \subseteq g.live
             /\ \A p, q \in g.pool : g.text[p] = g.text[q] => p = q
             /\ \A p \in Strings : g.refcount[p] = less[p] + (IF p \in L THEN 1 ELSE 0)
             /\ \A p \in Strings \ g.live : less[p] = 0
        BY <1>1, <1>7, <1>8, <1>9, <2>5, <4>2, ZenonT(40) DEF Books
      <4>6. Books(g, less, weak, open, L, D)
        BY <1>4, <4>3, <4>4, <4>5, <4>51 DEF Books
      <4> QED
        BY <1>5, <1>11, <2>5, <4>1, <4>6 DEF less, h3, h4
    <3> QED
      BY <3>6, <3>7
  <2> QED
    BY <2>4, <2>5
<1> QED
  BY <1>10, <1>11

\* eel_ps_nnew, when no string of the pool has the text.
LEMMA CreateKeeps ==
    ASSUME NEW h, NEW own, NEW weak, NEW open, NEW L, NEW C, Books(h, own, weak, open, L, C),
           h.open, NEW o \in Strings \ h.live, NEW c \in Contents,
           Find(h, c) = {}, weak[o] = {}
    PROVE  Books(Create(h, o, c), [own EXCEPT ![o] = @ + 1], weak, open, L, C)
<1> DEFINE g == Create(h, o, c)
           more == [own EXCEPT ![o] = @ + 1]
<1>1. /\ Wired(h, L, C) /\ h \in Heap
      /\ h.live \subseteq Strings /\ L \subseteq h.live /\ C \subseteq h.live
      /\ h.refcount \in [Strings -> Nat] /\ own \in [Strings -> Nat]
      /\ h.lnext \in [Strings \cup {Limbo} -> Strings \cup {Null}]
      /\ h.lprev \in [Strings \cup {Limbo} -> Strings \cup {Null, Limbo}]
      /\ h.weakrefs \in [Strings -> SUBSET Vars]
      /\ h.text \in [Strings -> Contents \cup {Null}]
  BY BooksSets DEF Heap
<1>2. h.lnext[o] = Null /\ h.lprev[o] = Null /\ own[o] = 0 /\ h.refcount[o] = 0 /\ o \notin L
  BY <1>1 DEF Books, Wired
<1>3. /\ h.weakrefs = weak
      /\ h.pool = h.live
      /\ \A p, q \in h.pool : h.text[p] = h.text[q] => p = q
      /\ C = {p \in h.live : h.refcount[p] = 0}
      /\ h.scache_size = Cardinality(C) /\ h.scache_size <= CacheMax + 1
      /\ \A p \in Strings : h.refcount[p] = own[p] + (IF p \in L THEN 1 ELSE 0)
      /\ \A p \in Strings \ h.live : own[p] = 0
  BY DEF Books
<1>4. /\ g \in Heap
      /\ g.live = h.live \cup {o} /\ g.text = [h.text EXCEPT ![o] = c]
      /\ g.refcount = [h.refcount EXCEPT ![o] = 1]
      /\ g.weakrefs = [h.weakrefs EXCEPT ![o] = {}]
      /\ g.lnext = [h.lnext EXCEPT ![o] = Null] /\ g.lprev = [h.lprev EXCEPT ![o] = Null]
      /\ g.pool = h.pool \cup {o}
      /\ g.scache = h.scache /\ g.scache_last = h.scache_last
      /\ g.scache_size = h.scache_size /\ g.open = h.open
  BY <1>1, ZenonT(40) DEF Create, Heap
<1>5. g.lnext = h.lnext /\ g.lprev = h.lprev /\ g.weakrefs = weak
  BY <1>1, <1>2, <1>3, <1>4
<1>6. Wired(g, L, C)
  BY <1>1, <1>4, <1>5, WiredSame
<1>7. more \in [Strings -> Nat] /\ \A p \in Strings : more[p] = IF p = o THEN own[p] + 1 ELSE own[p]
  BY <1>1
<1>8. \A p \in Strings : g.refcount[p] = IF p = o THEN 1 ELSE h.refcount[p]
  BY <1>1, <1>4
<1>9. \A p \in Strings : g.text[p] = IF p = o THEN c ELSE h.text[p]
  BY <1>1, <1>4
<1> HIDE DEF g, more
<1>10. C = {p \in g.live : g.refcount[p] = 0}
  BY <1>1, <1>3, <1>4, <1>8
<1>11. \A p \in Strings : g.refcount[p] = more[p] + (IF p \in L THEN 1 ELSE 0)
  BY <1>2, <1>3, <1>7, <1>8
<1>12. \A p \in Strings \ g.live : more[p] = 0
  BY <1>3, <1>4, <1>7
<1>13. \A p, q \in g.pool : g.text[p] = g.text[q] => p = q
  <2>1. \A p \in h.pool : h.text[p] # c
    BY DEF Find
  <2> QED
    BY <2>1, <1>1, <1>3, <1>4, <1>9
<1>14. L \subseteq g.live /\ g.pool = (IF g.open THEN g.live ELSE {}) /\ g.open
  BY <1>1, <1>3, <1>4
<1> QED
  BY <1>3, <1>4, <1>5, <1>6, <1>7, <1>10, <1>11, <1>12, <1>13, <1>14 DEF Books, g, more

\* The first string of the cache: the whole cache, when there is none.
LEMMA UncacheKeeps ==
    ASSUME NEW h, NEW own, NEW weak, NEW open, NEW L, NEW C, Books(h, own, weak, open, L, C), h.open
    PROVE  /\ h.scache = Null => C = {} /\ UncacheOne(h) = h
           /\ h.scache # Null => /\ h.scache \in C
                                 /\ Books(UncacheOne(h), own, weak, open, L, C \ {h.scache})
                                 /\ UncacheOne(h).open
<1>1. /\ Wired(h, L, C) /\ h \in Heap
      /\ h.live \subseteq Strings /\ L \subseteq h.live /\ C \subseteq h.live /\ L \cap C = {}
      /\ h.refcount \in [Strings -> Nat] /\ own \in [Strings -> Nat]
      /\ h.scache_size = Cardinality(C) /\ Cardinality(C) \in Nat /\ IsFiniteSet(C)
  BY BooksSets
<1>2. h.scache \in C \cup {Null} /\ (h.scache = Null => C = {})
  BY <1>1 DEF Wired, Ranked, Chain
<1>3. h.scache = Null => UncacheOne(h) = h
  BY DEF UncacheOne
<1>4. ASSUME h.scache # Null
      PROVE  Books(UncacheOne(h), own, weak, open, L, C \ {h.scache}) /\ UncacheOne(h).open
  <2> DEFINE o == h.scache
             k == CacheUnlink(h, o)
             k2 == [k EXCEPT !.scache_size = @ - 1]
             g == Free(k2, o)
             D == C \ {o}
  <2>1. o \in C /\ o \in Strings /\ o \notin L
    BY <1>1, <1>2, <1>4
  <2>2. UncacheOne(h) = g
    BY <1>4 DEF UncacheOne
  <2> HIDE DEF o
  <2>3. Wired(k, L, D) /\ k \in Heap /\ SameStrings(k, h)
    <3>1. h.lprev[o] # Limbo /\ Wired(k, L, D)
      BY <1>1, <2>1, UnlinkCache
    <3> QED
      BY <1>1, <2>1, <3>1, CacheUnlinkDoes
  <2> HIDE DEF k, D
  <2>4. IsFiniteSet(D) /\ Cardinality(D) = Cardinality(C) - 1 /\ Cardinality(D) \in Nat
    <3>1. IsFiniteSet(D) /\ Cardinality(D) = Cardinality(C) - 1
      BY <1>1, <2>1, FS_RemoveElement DEF D
    <3> QED
      BY <3>1, FS_CardinalityType
  <2>5. /\ k2 \in Heap /\ k2.scache_size = h.scache_size - 1
        /\ k2.lnext = k.lnext /\ k2.lprev = k.lprev
        /\ k2.scache = k.scache /\ k2.scache_last = k.scache_last
        /\ k2.live = h.live /\ k2.text = h.text /\ k2.weakrefs = h.weakrefs /\ k2.pool = h.pool
        /\ k2.refcount = h.refcount /\ k2.open = h.open
    BY <1>1, <2>3, <2>4 DEF Heap, SameStrings
  <2> HIDE DEF k2
  <2>6. /\ g \in Heap /\ g.scache_size = h.scache_size - 1
        /\ g.lnext = k.lnext /\ g.lprev = k.lprev
        /\ g.scache = k.scache /\ g.scache_last = k.scache_last
        /\ g.live = h.live \ {o} /\ g.text = h.text /\ g.weakrefs = h.weakrefs
        /\ g.pool = h.pool \ {o} /\ g.refcount = h.refcount /\ g.open = h.open
    BY <2>5 DEF Heap, Free
  <2> HIDE DEF g
  <2>7. Wired(g, L, D)
    BY <2>3, <2>6, WiredSame
  <2>8. /\ h.weakrefs = weak /\ h.pool = h.live
        /\ \A p, q \in h.pool : h.text[p] = h.text[q] => p = q
        /\ C = {p \in h.live : h.refcount[p] = 0}
        /\ h.scache_size = Cardinality(C) /\ h.scache_size <= CacheMax + 1
        /\ \A p \in Strings : h.refcount[p] = own[p] + (IF p \in L THEN 1 ELSE 0)
        /\ \A p \in Strings \ h.live : own[p] = 0
    BY DEF Books
  <2>9. D = {p \in g.live : g.refcount[p] = 0}
    BY <2>6, <2>8 DEF D
  <2>10. own[o] = 0
    BY <1>1, <2>1, <2>8
  <2>11. L \subseteq g.live /\ \A p \in Strings \ g.live : own[p] = 0
    BY <1>1, <2>1, <2>6, <2>8, <2>10
  <2>12. g.scache_size = Cardinality(D) /\ g.scache_size <= CacheMax + 1
    BY <1>1, <2>4, <2>6, <2>8, ConstantsAssumption
  <2>13. /\ g.open /\ g.pool = g.live
         /\ \A p, q \in g.pool : g.text[p] = g.text[q] => p = q
    BY <2>6, <2>8
  <2>14. Books(g, own, weak, open, L, D)
    BY <1>1, <2>6, <2>7, <2>8, <2>9, <2>11, <2>12, <2>13, ZenonT(40) DEF Books
  <2> QED
    BY <2>2, <2>13, <2>14 DEF o, D
<1> QED
  BY <1>2, <1>3, <1>4

\* Weak references are wired and unwired, and no link is touched.
LEMMA WireKeeps ==
    ASSUME NEW h, NEW own, NEW weak, NEW open, NEW L, NEW C, Books(h, own, weak, open, L, C),
           NEW o \in Strings, NEW slots \in SUBSET Vars
    PROVE  Books([h EXCEPT !.weakrefs[o] = slots], own, [weak EXCEPT ![o] = slots], open, L, C)
<1> DEFINE g == [h EXCEPT !.weakrefs[o] = slots]
<1>1. Wired(h, L, C) /\ h \in Heap
  BY BooksSets
<1>2. /\ g \in Heap /\ g.weakrefs = [h.weakrefs EXCEPT ![o] = slots]
      /\ g.lnext = h.lnext /\ g.lprev = h.lprev
      /\ g.scache = h.scache /\ g.scache_last = h.scache_last
      /\ g.live = h.live /\ g.text = h.text /\ g.pool = h.pool
      /\ g.refcount = h.refcount /\ g.scache_size = h.scache_size /\ g.open = h.open
  BY <1>1 DEF Heap
<1> HIDE DEF g
<1>3. Wired(g, L, C)
  BY <1>1, <1>2, WiredSame
<1> QED
  BY <1>2, <1>3 DEF Books, g

\* eel_ps_close, with the cache empty.
LEMMA CloseKeeps ==
    ASSUME NEW h, NEW own, NEW weak, NEW open, NEW L, Books(h, own, weak, open, L, {})
    PROVE  Books([h EXCEPT !.pool = {}, !.open = FALSE], own, weak, FALSE, L, {})
<1> DEFINE g == [h EXCEPT !.pool = {}, !.open = FALSE]
<1>1. Wired(h, L, {}) /\ h \in Heap
  BY BooksSets
<1>2. /\ g \in Heap /\ g.weakrefs = h.weakrefs
      /\ g.lnext = h.lnext /\ g.lprev = h.lprev
      /\ g.scache = h.scache /\ g.scache_last = h.scache_last
      /\ g.live = h.live /\ g.text = h.text /\ g.pool = {}
      /\ g.refcount = h.refcount /\ g.scache_size = h.scache_size /\ g.open = FALSE
  BY <1>1 DEF Heap
<1> HIDE DEF g
<1>3. Wired(g, L, {})
  BY <1>1, <1>2, WiredSame
<1> QED
  BY <1>2, <1>3 DEF Books, g

-----------------------------------------------------------------------------
(***************************************************************************)
(* The loops of limbo_clean and ps_uncache are recursive functions of the  *)
(* number of turns.  Such a function exists when a turn stays in a set of  *)
(* heaps, and what every turn keeps holds of its last value.               *)
(***************************************************************************)
AllTurns(f, turn, S, s, m) ==
    /\ f = [n \in 0 .. m |-> IF n = 0 THEN s ELSE turn[f[n - 1]]]
    /\ \A n \in 0 .. m : f[n] \in S

LEMMA TurnsRun ==
    ASSUME NEW S, NEW turn \in [S -> S], NEW s \in S, NEW m \in Nat
    PROVE  \E f : AllTurns(f, turn, S, s, m)
<1> DEFINE turns == [n \in 1 .. m |-> turn]
           sets == [n \in 0 .. m |-> S]
<1>1. /\ \A n \in 1 .. m : turns[n] = turn
      /\ \A n \in 0 .. m : sets[n] = S
      /\ \A n \in 1 .. m : n - 1 \in 0 .. m /\ n \in 0 .. m
      /\ 0 \in 0 .. m
  OBVIOUS
<1> HIDE DEF turns, sets
<1>2. PICK f : IsLoop(f, turns, sets, s, m)
  <2>1. \A n \in 1 .. m : turns[n] \in [sets[n - 1] -> sets[n]]
    BY <1>1
  <2>2. s \in sets[0]
    BY <1>1
  <2> QED
    BY <2>1, <2>2, LoopRuns
<1>3. /\ f = [n \in 0 .. m |-> IF n = 0 THEN s ELSE turns[n][f[n - 1]]]
      /\ \A n \in 0 .. m : f[n] \in S
  BY <1>1, <1>2 DEF IsLoop
<1>4. \A n \in 0 .. m : n # 0 => turns[n] = turn
  BY <1>1
<1>5. f = [n \in 0 .. m |-> IF n = 0 THEN s ELSE turn[f[n - 1]]]
  BY <1>3, <1>4
<1> QED
  BY <1>3, <1>5 DEF AllTurns

LEMMA CleanedIs ==
    ASSUME NEW S, NEW h \in S, \A k \in S : CleanOne(k) \in S
    PROVE  Cleaned(h) \in S
<1> DEFINE N == Cardinality(Strings)
           turn == [k \in S |-> CleanOne(k)]
           after[n \in 0 .. N] == IF n = 0 THEN h ELSE CleanOne(after[n - 1])
<1>1. N \in Nat
  BY StringsAssumption, FS_CardinalityType
<1>2. Cleaned(h) = after[N]
  BY DEF Cleaned
<1> HIDE DEF N
<1> HIDE DEF after
<1>3. turn \in [S -> S] /\ \A k \in S : turn[k] = CleanOne(k)
  OBVIOUS
<1> HIDE DEF turn
<1>31. PICK f : AllTurns(f, turn, S, h, N)
  BY <1>1, <1>3, TurnsRun
<1>32. \A n \in 0 .. N : n # 0 => n - 1 \in 0 .. N
  BY <1>1
<1>33. f = [n \in 0 .. N |-> IF n = 0 THEN h ELSE CleanOne(f[n - 1])]
  BY <1>3, <1>31, <1>32 DEF AllTurns
<1>34. after = [n \in 0 .. N |-> IF n = 0 THEN h ELSE CleanOne(after[n - 1])]
  BY <1>33 DEF after
<1>4. \A n \in 0 .. N : after[n] = IF n = 0 THEN h ELSE CleanOne(after[n - 1])
  BY <1>34
<1> DEFINE sets == [n \in 0 .. N |-> S]
<1>5. after[0] \in sets[0] /\ \A n \in 1 .. N : after[n - 1] \in sets[n - 1] => after[n] \in sets[n]
  BY <1>1, <1>4
<1>6. sets[N] = S
  BY <1>1
<1> HIDE DEF sets
<1>7. after[N] \in sets[N]
  BY <1>1, <1>5, LoopKeeps
<1> QED
  BY <1>2, <1>6, <1>7

LEMMA UncachedIs ==
    ASSUME NEW S, NEW h \in S, \A k \in S : UncacheOne(k) \in S,
           NEW sets, h \in sets[0],
           \A n \in 1 .. Cardinality(Strings) :
              \A k \in S : k \in sets[n - 1] => UncacheOne(k) \in sets[n]
    PROVE  ps_uncache(h) \in sets[Cardinality(Strings)]
<1> DEFINE N == Cardinality(Strings)
           turn == [k \in S |-> UncacheOne(k)]
           after[n \in 0 .. N] == IF n = 0 THEN h ELSE UncacheOne(after[n - 1])
<1>1. N \in Nat
  BY StringsAssumption, FS_CardinalityType
<1>2. ps_uncache(h) = after[N]
  BY DEF ps_uncache
<1>3. \A n \in 1 .. N : \A k \in S : k \in sets[n - 1] => UncacheOne(k) \in sets[n]
  OBVIOUS
<1> HIDE DEF N, after
<1>4. turn \in [S -> S] /\ \A k \in S : turn[k] = UncacheOne(k)
  OBVIOUS
<1> HIDE DEF turn
<1>5. PICK f : AllTurns(f, turn, S, h, N)
  BY <1>1, <1>4, TurnsRun
<1>6. \A n \in 0 .. N : n # 0 => n - 1 \in 0 .. N
  BY <1>1
<1>7. f = [n \in 0 .. N |-> IF n = 0 THEN h ELSE UncacheOne(f[n - 1])]
  BY <1>4, <1>5, <1>6 DEF AllTurns
<1>8. after = [n \in 0 .. N |-> IF n = 0 THEN h ELSE UncacheOne(after[n - 1])]
  BY <1>7 DEF after
<1>9. \A n \in 0 .. N : after[n] = IF n = 0 THEN h ELSE UncacheOne(after[n - 1])
  BY <1>8
<1> DEFINE kept == [n \in 0 .. N |-> S \cap sets[n]]
<1>10. \A n \in 0 .. N : kept[n] = S \cap sets[n]
  OBVIOUS
<1> HIDE DEF kept
<1>11. after[0] \in kept[0]
  BY <1>1, <1>9, <1>10
<1>12. ASSUME NEW n \in 1 .. N, after[n - 1] \in kept[n - 1]
       PROVE  after[n] \in kept[n]
  <2>1. n \in 0 .. N /\ n - 1 \in 0 .. N /\ n # 0
    BY <1>1
  <2>2. after[n] = UncacheOne(after[n - 1]) /\ after[n - 1] \in S /\ after[n - 1] \in sets[n - 1]
    BY <1>9, <1>10, <1>12, <2>1
  <2> QED
    BY <1>3, <1>10, <2>1, <2>2
<1>13. after[N] \in kept[N]
  BY <1>1, <1>11, <1>12, LoopKeeps
<1> QED
  BY <1>1, <1>2, <1>10, <1>13 DEF N

\* A turn of limbo_clean takes the owner that limbo is, and no other.
LEMMA CleanOneKeeps ==
    ASSUME NEW h, NEW own, NEW weak, NEW open, NEW L, NEW C, Books(h, own, weak, open, L, C)
    PROVE  \E L2, C2 : Books(CleanOne(h), own, weak, open, L2, C2)
<1> DEFINE o == h.lnext[Limbo]
           more == [own EXCEPT ![o] = @ + 1]
<1>1. Wired(h, L, C) /\ own \in [Strings -> Nat] /\ L \subseteq h.live /\ h.live \subseteq Strings
  BY BooksSets
<1>2. o \in L \cup {Null}
  BY <1>1 DEF Wired, Ranked, Chain
<1>3. CASE o = Null
  BY <1>3 DEF CleanOne
<1>4. CASE o # Null
  <2>1. o \in L /\ o \in Strings
    BY <1>1, <1>2, <1>4
  <2>2. CleanOne(h) = Disown(LimboUnlink(h, o), o)
    BY <1>4 DEF CleanOne
  <2> HIDE DEF o
  <2>3. Books(LimboUnlink(h, o), more, weak, open, L \ {o}, C)
    BY <2>1, OutOfLimbo
  <2>4. more \in [Strings -> Nat] /\ more[o] > 0 /\ [more EXCEPT ![o] = @ - 1] = own
    BY <1>1, <2>1, MoreAndLess
  <2> HIDE DEF more
  <2>5. \E D : Books(Disown(LimboUnlink(h, o), o), [more EXCEPT ![o] = @ - 1], weak, open, L \ {o}, D)
    BY <2>1, <2>3, <2>4, DisownKeeps
  <2> QED
    BY <2>2, <2>4, <2>5
<1> QED
  BY <1>3, <1>4

\* limbo_clean: no owner but limbo is lost, and the books still balance.
LEMMA CleanedKeeps ==
    ASSUME NEW h, NEW own, NEW weak, NEW open, NEW L, NEW C, Books(h, own, weak, open, L, C)
    PROVE  \E L2, C2 : Books(Cleaned(h), own, weak, open, L2, C2)
<1> DEFINE S == {k \in Heap : \E L2, C2 : Books(k, own, weak, open, L2, C2)}
<1>1. h \in S
  BY BooksSets
<1>2. ASSUME NEW k \in S PROVE CleanOne(k) \in S
  <2>1. \E L2, C2 : Books(CleanOne(k), own, weak, open, L2, C2)
    BY CleanOneKeeps
  <2>2. CleanOne(k) \in Heap
    BY <2>1, BooksSets
  <2> QED
    BY <2>1, <2>2
<1> HIDE DEF S
<1>3. Cleaned(h) \in S
  BY <1>1, <1>2, CleanedIs
<1> QED
  BY <1>3 DEF S

\* ps_uncache: every turn frees a cached string, so that none is left.
LEMMA UncachedKeeps ==
    ASSUME NEW h, NEW own, NEW weak, NEW open, NEW L, NEW C, Books(h, own, weak, open, L, C), h.open
    PROVE  Books(ps_uncache(h), own, weak, open, L, {})
<1> DEFINE N == Cardinality(Strings)
           S == {k \in Heap : k.open /\ \E D : Books(k, own, weak, open, L, D)}
           few == [n \in 0 .. N |-> {k \in Heap : \E D : Books(k, own, weak, open, L, D) /\ (D = {} \/ Cardinality(D) + n <= N)}]
<1>1. N \in Nat /\ h \in Heap /\ Cardinality(C) \in Nat /\ Cardinality(C) <= N
  BY BooksSets, WiredSets
<1> HIDE DEF N
<1>2. h \in S /\ h \in few[0]
  BY <1>1
<1>3. ASSUME NEW k \in S PROVE UncacheOne(k) \in S
  <2>1. PICK D : Books(k, own, weak, open, L, D)
    OBVIOUS
  <2>2. CASE k.scache = Null
    BY <2>1, <2>2, UncacheKeeps
  <2>3. CASE k.scache # Null
    <3>1. Books(UncacheOne(k), own, weak, open, L, D \ {k.scache}) /\ UncacheOne(k).open
      BY <2>1, <2>3, UncacheKeeps
    <3>2. UncacheOne(k) \in Heap
      BY <3>1, BooksSets
    <3> QED
      BY <3>1, <3>2
  <2> QED
    BY <2>2, <2>3
<1>4. ASSUME NEW n \in 1 .. N, NEW k \in S, k \in few[n - 1]
      PROVE  UncacheOne(k) \in few[n]
  <2>1. n \in 0 .. N /\ n - 1 \in 0 .. N /\ n \in Nat
    BY <1>1
  <2>2. PICK D : Books(k, own, weak, open, L, D) /\ (D = {} \/ Cardinality(D) + (n - 1) <= N)
    BY <1>4, <2>1
  <2>3. k.open /\ k \in Heap /\ IsFiniteSet(D) /\ Cardinality(D) \in Nat
    BY <2>2, BooksSets
  <2>4. few[n] = {j \in Heap : \E E : Books(j, own, weak, open, L, E) /\ (E = {} \/ Cardinality(E) + n <= N)}
    BY <2>1
  <2> HIDE DEF few, S
  <2>5. CASE k.scache = Null
    <3>1. D = {} /\ UncacheOne(k) = k
      BY <2>2, <2>3, <2>5, UncacheKeeps
    <3> QED
      BY <2>2, <2>3, <2>4, <3>1
  <2>6. CASE k.scache # Null
    <3> DEFINE E == D \ {k.scache}
    <3>1. k.scache \in D /\ Books(UncacheOne(k), own, weak, open, L, E)
      BY <2>2, <2>3, <2>6, UncacheKeeps
    <3>2. Cardinality(E) = Cardinality(D) - 1
      BY <2>3, <3>1, FS_RemoveElement, ZenonT(40)
    <3>3. UncacheOne(k) \in Heap
      BY <3>1, BooksSets
    <3> HIDE DEF E
    <3>4. Cardinality(E) + n <= N
      BY <1>1, <2>1, <2>2, <2>3, <3>1, <3>2
    <3> QED
      BY <2>4, <3>1, <3>3, <3>4
  <2> QED
    BY <2>5, <2>6
<1>5. ps_uncache(h) \in few[N]
  <2> HIDE DEF S, few
  <2>1. \A n \in 1 .. N : \A k \in S : k \in few[n - 1] => UncacheOne(k) \in few[n]
    BY <1>4
  <2>2. \A k \in S : UncacheOne(k) \in S
    BY <1>3
  <2> QED
    BY <1>2, <2>1, <2>2, UncachedIs DEF N
<1>6. PICK D : Books(ps_uncache(h), own, weak, open, L, D) /\ (D = {} \/ Cardinality(D) + N <= N)
  BY <1>1, <1>5
<1>7. IsFiniteSet(D) /\ Cardinality(D) \in Nat
  BY <1>6, BooksSets
<1>8. D = {}
  <2>1. CASE Cardinality(D) + N <= N
    <3>1. Cardinality(D) = 0
      BY <2>1, <1>1, <1>7
    <3> QED
      BY <3>1, <1>7, FS_EmptySet
  <2> QED
    BY <1>6, <2>1
<1> QED
  BY <1>6, <1>8

-----------------------------------------------------------------------------
(* What the variables own, and what they refer to weakly. *)

Obj(o) == [kind |-> "obj", o |-> o]
Weak(o) == [kind |-> "weak", o |-> o]
Values == {None} \cup {Obj(o) : o \in Strings} \cup {Weak(o) : o \in Strings}

Holding(sv, x) == {v \in Vars : sv[v] = x}
OwnersIn(sv) == [o \in Strings |-> Cardinality(Holding(sv, Obj(o)))]
WeakIn(sv) == [o \in Strings |-> Holding(sv, Weak(o))]

LEMMA ValueKinds ==
    /\ None.kind = "nil" /\ None.o = Null
    /\ \A o : /\ Obj(o).kind = "obj" /\ Obj(o).o = o
              /\ Weak(o).kind = "weak" /\ Weak(o).o = o
    /\ \A o, p : Obj(o) # Weak(p) /\ Obj(o) # None /\ Weak(o) # None
    /\ \A o, p : (Obj(o) = Obj(p) <=> o = p) /\ (Weak(o) = Weak(p) <=> o = p)
<1>1. /\ None.kind = "nil" /\ None.o = Null
      /\ \A o : /\ Obj(o).kind = "obj" /\ Obj(o).o = o
                /\ Weak(o).kind = "weak" /\ Weak(o).o = o
  BY DEF None, Obj, Weak
<1>2. "nil" # "obj" /\ "nil" # "weak" /\ "obj" # "weak"
  OBVIOUS
<1> QED
  BY <1>1, <1>2

LEMMA ValueIs ==
    ASSUME NEW x \in Values
    PROVE  /\ x.kind = "nil" => x = None
           /\ x.kind = "obj" => x.o \in Strings /\ x = Obj(x.o)
           /\ x.kind = "weak" => x.o \in Strings /\ x = Weak(x.o)
           /\ x.kind \in {"nil", "obj", "weak"}
<1>1. "nil" # "obj" /\ "nil" # "weak" /\ "obj" # "weak"
  OBVIOUS
<1>2. x = None \/ (\E o \in Strings : x = Obj(o)) \/ (\E o \in Strings : x = Weak(o))
  BY DEF Values
<1>3. CASE x = None
  BY <1>1, <1>3, ValueKinds
<1>4. ASSUME NEW o \in Strings, x = Obj(o)
      PROVE  x.kind = "obj" /\ x.o \in Strings /\ x = Obj(x.o)
  BY <1>4, ValueKinds
<1>5. ASSUME NEW o \in Strings, x = Weak(o)
      PROVE  x.kind = "weak" /\ x.o \in Strings /\ x = Weak(x.o)
  BY <1>5, ValueKinds
<1> QED
  BY <1>1, <1>2, <1>3, <1>4, <1>5

\* Counting the owners of a string is counting a finite set.
LEMMA OwnersCount ==
    ASSUME NEW sv
    PROVE  /\ OwnersIn(sv) \in [Strings -> Nat]
           /\ WeakIn(sv) \in [Strings -> SUBSET Vars]
           /\ \A o \in Strings : /\ IsFiniteSet(Holding(sv, Obj(o)))
                                 /\ OwnersIn(sv)[o] = Cardinality(Holding(sv, Obj(o)))
                                 /\ WeakIn(sv)[o] = Holding(sv, Weak(o))
<1>1. \A x : Holding(sv, x) \subseteq Vars
  BY DEF Holding
<1>2. \A x : IsFiniteSet(Holding(sv, x))
  BY <1>1, ConstantsAssumption, FS_Subset
<1>3. \A x : Cardinality(Holding(sv, x)) \in Nat
  BY <1>2, FS_CardinalityType
<1> QED
  BY <1>1, <1>2, <1>3 DEF OwnersIn, WeakIn

\* The string o has a variable as an owner more, or as a weak reference.
OwnerMore(sv, to, o) ==
    /\ OwnersIn(to) = [OwnersIn(sv) EXCEPT ![o] = @ + 1]
    /\ WeakIn(to) = WeakIn(sv)
WeakMore(sv, to, o, v) ==
    /\ OwnersIn(to) = OwnersIn(sv)
    /\ WeakIn(to) = [WeakIn(sv) EXCEPT ![o] = @ \cup {v}]

LEMMA Takes ==
    ASSUME NEW sv \in [Vars -> Values], NEW v \in Vars, sv[v] = None, NEW o \in Strings
    PROVE  /\ \A to : to = [sv EXCEPT ![v] = Obj(o)] => OwnerMore(sv, to, o)
           /\ \A to : to = [sv EXCEPT ![v] = Weak(o)] => WeakMore(sv, to, o, v)
<1> DEFINE so == [sv EXCEPT ![v] = Obj(o)]
           sw == [sv EXCEPT ![v] = Weak(o)]
<1>1. /\ \A u \in Vars : so[u] = IF u = v THEN Obj(o) ELSE sv[u]
      /\ \A u \in Vars : sw[u] = IF u = v THEN Weak(o) ELSE sv[u]
  OBVIOUS
<1> HIDE DEF so, sw
<1>2. /\ \A x : x # None => Holding(so, x) = IF x = Obj(o) THEN Holding(sv, x) \cup {v} ELSE Holding(sv, x)
      /\ \A x : x # None => Holding(sw, x) = IF x = Weak(o) THEN Holding(sv, x) \cup {v} ELSE Holding(sv, x)
  BY <1>1 DEF Holding
<1>3. v \notin Holding(sv, Obj(o))
  BY ValueKinds DEF Holding
<1>4. /\ \A p \in Strings : /\ Holding(so, Obj(p)) = IF p = o THEN Holding(sv, Obj(p)) \cup {v} ELSE Holding(sv, Obj(p))
                            /\ Holding(sw, Obj(p)) = Holding(sv, Obj(p))
      /\ \A p \in Strings : /\ Holding(so, Weak(p)) = Holding(sv, Weak(p))
                            /\ Holding(sw, Weak(p)) = IF p = o THEN Holding(sv, Weak(p)) \cup {v} ELSE Holding(sv, Weak(p))
  BY <1>2, ValueKinds
<1>5. \A s : /\ OwnersIn(s) \in [Strings -> Nat]
             /\ WeakIn(s) \in [Strings -> SUBSET Vars]
             /\ \A p \in Strings : /\ IsFiniteSet(Holding(s, Obj(p)))
                                   /\ OwnersIn(s)[p] = Cardinality(Holding(s, Obj(p)))
                                   /\ WeakIn(s)[p] = Holding(s, Weak(p))
  BY OwnersCount
<1>6. Cardinality(Holding(sv, Obj(o)) \cup {v}) = Cardinality(Holding(sv, Obj(o))) + 1
  BY <1>3, <1>5, FS_AddElement
<1>7. \A p \in Strings : OwnersIn(so)[p] = IF p = o THEN OwnersIn(sv)[p] + 1 ELSE OwnersIn(sv)[p]
  <2>1. TAKE p \in Strings
  <2>2. CASE p = o
    <3>1. Holding(so, Obj(p)) = Holding(sv, Obj(o)) \cup {v}
      BY <2>2, <1>4
    <3> QED
      BY <2>2, <3>1, <1>5, <1>6
  <2>3. CASE p # o
    BY <2>3, <1>4, <1>5
  <2> QED
    BY <2>2, <2>3
<1>8. OwnersIn(so) = [OwnersIn(sv) EXCEPT ![o] = @ + 1]
  BY <1>5, <1>7
<1>9. OwnersIn(sw) = OwnersIn(sv)
  BY <1>4, <1>5
<1>10. WeakIn(so) = WeakIn(sv)
  BY <1>4, <1>5
<1>11. WeakIn(sw) = [WeakIn(sv) EXCEPT ![o] = @ \cup {v}]
  BY <1>4, <1>5
<1> QED
  BY <1>8, <1>9, <1>10, <1>11 DEF so, sw, OwnerMore, WeakMore

LEMMA LetsGo ==
    ASSUME NEW sv \in [Vars -> Values], NEW v \in Vars
    PROVE  LET gone == [sv EXCEPT ![v] = None]
               o == sv[v].o
           IN  /\ gone \in [Vars -> Values]
               /\ sv[v].kind = "nil" => gone = sv
               /\ sv[v].kind = "obj" =>
                    /\ o \in Strings /\ OwnersIn(sv)[o] > 0
                    /\ OwnersIn(gone) = [OwnersIn(sv) EXCEPT ![o] = @ - 1]
                    /\ WeakIn(gone) = WeakIn(sv)
               /\ sv[v].kind = "weak" =>
                    /\ o \in Strings
                    /\ OwnersIn(gone) = OwnersIn(sv)
                    /\ WeakIn(gone) = [WeakIn(sv) EXCEPT ![o] = @ \ {v}]
<1> DEFINE gone == [sv EXCEPT ![v] = None]
           o == sv[v].o
<1>1. None \in Values /\ sv[v] \in Values
  BY DEF Values
<1>2. gone \in [Vars -> Values] /\ gone[v] = None
  BY <1>1
<1>3. sv[v].kind = "nil" => gone = sv
  BY <1>1, ValueIs
<1>4. [gone EXCEPT ![v] = sv[v]] = sv
  BY <1>2
<1> HIDE DEF gone
<1>5. ASSUME sv[v].kind = "obj"
      PROVE  /\ o \in Strings /\ OwnersIn(sv)[o] > 0
             /\ OwnersIn(gone) = [OwnersIn(sv) EXCEPT ![o] = @ - 1]
             /\ WeakIn(gone) = WeakIn(sv)
  <2>1. o \in Strings /\ sv[v] = Obj(o)
    BY <1>1, <1>5, ValueIs
  <2> HIDE DEF o
  <2>20. sv = [gone EXCEPT ![v] = Obj(o)]
    BY <1>4, <2>1
  <2>21. OwnerMore(gone, sv, o)
    BY <1>2, <2>1, <2>20, Takes
  <2>2. /\ OwnersIn(sv) = [OwnersIn(gone) EXCEPT ![o] = @ + 1]
        /\ WeakIn(sv) = WeakIn(gone)
    BY <2>21 DEF OwnerMore
  <2>3. OwnersIn(gone) \in [Strings -> Nat]
    BY OwnersCount
  <2> QED
    BY <2>1, <2>2, <2>3, MoreAndLess
<1>6. ASSUME sv[v].kind = "weak"
      PROVE  /\ o \in Strings
             /\ OwnersIn(gone) = OwnersIn(sv)
             /\ WeakIn(gone) = [WeakIn(sv) EXCEPT ![o] = @ \ {v}]
  <2>1. o \in Strings /\ sv[v] = Weak(o)
    BY <1>1, <1>6, ValueIs
  <2> HIDE DEF o
  <2>20. sv = [gone EXCEPT ![v] = Weak(o)]
    BY <1>4, <2>1
  <2>21. WeakMore(gone, sv, o, v)
    BY <1>2, <2>1, <2>20, Takes
  <2>2. /\ WeakIn(sv) = [WeakIn(gone) EXCEPT ![o] = @ \cup {v}]
        /\ OwnersIn(sv) = OwnersIn(gone)
    BY <2>21 DEF WeakMore
  <2>3. WeakIn(gone) \in [Strings -> SUBSET Vars] /\ WeakIn(gone)[o] = Holding(gone, Weak(o))
    BY <2>1, OwnersCount
  <2>4. v \notin WeakIn(gone)[o]
    BY <1>2, <2>3, ValueKinds DEF Holding
  <2> QED
    BY <2>1, <2>2, <2>3, <2>4, ZenonT(40)
<1> QED
  BY <1>2, <1>3, <1>5, <1>6 DEF gone

-----------------------------------------------------------------------------
(***************************************************************************)
(* The inductive invariant: the books of the heap balance with the         *)
(* variables.  The register points into limbo; a weak reference refers to  *)
(* a string with an owner, which limits the theorems to ~Outlive; once the *)
(* pool is closed there is neither limbo nor a weak reference.             *)
(***************************************************************************)
Balance(h, sv, r, L, C) ==
    /\ Books(h, OwnersIn(sv), WeakIn(sv), h.open, L, C)
    /\ r # Null => r \in L
    /\ ~h.open => L = {}

WeakTargetsOwned(h, sv) ==
    \A v \in Vars : sv[v].kind = "weak" => h.open /\ h.refcount[sv[v].o] > 0

Kept(h, sv, r) ==
    /\ sv \in [Vars -> Values]
    /\ r \in Strings \cup {Null}
    /\ \E L, C : Balance(h, sv, r, L, C)
    /\ WeakTargetsOwned(h, sv)

Balanced == Kept(heap, SV, R)

\* An action that takes no owner away leaves every weak reference a target.
LEMMA TargetsStay ==
    ASSUME NEW h, NEW g, NEW own, NEW weak, NEW open, NEW L, NEW C, NEW L2, NEW C2,
           NEW sv \in [Vars -> Values],
           Books(h, own, weak, open, L, C), Books(g, own, weak, open, L2, C2),
           L \subseteq L2, WeakTargetsOwned(h, sv)
    PROVE  WeakTargetsOwned(g, sv)
<1>1. h.open = open /\ g.open = open
  BY DEF Books
<1>2. \A o \in Strings : /\ own[o] \in Nat
                         /\ h.refcount[o] = own[o] + (IF o \in L THEN 1 ELSE 0)
                         /\ g.refcount[o] = own[o] + (IF o \in L2 THEN 1 ELSE 0)
  BY DEF Books
<1>3. \A o \in Strings : h.refcount[o] > 0 => g.refcount[o] > 0
  BY <1>2
<1>4. \A v \in Vars : sv[v].kind = "weak" => sv[v].o \in Strings
  BY ValueIs
<1> QED
  BY <1>1, <1>3, <1>4 DEF WeakTargetsOwned

\* The guard of the actions that may take an owner away.
LEMMA GuardedTargets ==
    ASSUME NEW h, NEW own, NEW weak, NEW L, NEW C, NEW sv \in [Vars -> Values],
           Books(h, own, weak, TRUE, L, C),
           \A v \in Vars : ~(sv[v].kind = "weak" /\ h.refcount[sv[v].o] = 0)
    PROVE  WeakTargetsOwned(h, sv)
<1>1. h.open /\ h.refcount \in [Strings -> Nat]
  BY BooksSets DEF Books
<1>2. \A v \in Vars : sv[v].kind = "weak" => sv[v].o \in Strings
  BY ValueIs
<1> QED
  BY <1>1, <1>2 DEF WeakTargetsOwned

LEMMA InitBalanced == Init => Balanced
<1> SUFFICES ASSUME Init PROVE Balanced
  OBVIOUS
<1>1. SV = [v \in Vars |-> None] /\ R = Null
  BY DEF Init
<1>2. SV \in [Vars -> Values] /\ \A v \in Vars : SV[v] = None
  BY <1>1 DEF Values
<1>3. /\ OwnersIn(SV) \in [Strings -> Nat] /\ WeakIn(SV) \in [Strings -> SUBSET Vars]
      /\ \A o \in Strings : OwnersIn(SV)[o] = 0 /\ WeakIn(SV)[o] = {}
  <2>1. \A o \in Strings : Holding(SV, Obj(o)) = {} /\ Holding(SV, Weak(o)) = {}
    BY <1>2, ValueKinds DEF Holding
  <2> QED
    BY <2>1, OwnersCount, FS_EmptySet
<1>4. /\ heap \in Heap
      /\ heap.live = {} /\ heap.pool = {} /\ heap.scache = Null /\ heap.scache_last = Null
      /\ heap.scache_size = 0 /\ heap.open = TRUE
      /\ heap.refcount = [o \in Strings |-> 0]
      /\ heap.weakrefs = [o \in Strings |-> {}]
      /\ heap.lnext = [o \in Strings \cup {Limbo} |-> Null]
      /\ heap.lprev = [o \in Strings \cup {Limbo} |-> Null]
  BY DEF Init, Heap
<1>5. Wired(heap, {}, {})
  <2> DEFINE rank == [o \in Strings |-> 0]
  <2>1. rank \in [Strings -> Nat] /\ \A o \in Strings : rank[o] <= 0
    OBVIOUS
  <2>2. heap.lnext[Limbo] = Null
    BY <1>4
  <2> HIDE DEF rank
  <2>3. Ranked(heap, {}, {}, rank, 0)
    BY <1>4, <2>1, <2>2 DEF Ranked, Chain
  <2> QED
    BY <1>4, <2>3 DEF Wired
<1>6. heap.weakrefs = WeakIn(SV)
  BY <1>3, <1>4
<1>7. Cardinality({}) = 0 /\ 0 <= CacheMax + 1
  BY FS_EmptySet, ConstantsAssumption
<1>8. \A o \in Strings : heap.refcount[o] = OwnersIn(SV)[o]
  BY <1>3, <1>4
<1>9. Books(heap, OwnersIn(SV), WeakIn(SV), heap.open, {}, {})
  BY <1>3, <1>4, <1>5, <1>6, <1>7, <1>8 DEF Books
<1>10. WeakTargetsOwned(heap, SV)
  BY <1>2, ValueKinds DEF WeakTargetsOwned
<1>11. Balance(heap, SV, R, {}, {})
  BY <1>1, <1>4, <1>9 DEF Balance
<1> QED
  BY <1>1, <1>2, <1>10, <1>11 DEF Balanced, Kept

LEMMA NnewKeeps ==
    ASSUME Balanced, NEW c \in Contents, eel_ps_nnew(c)
    PROVE  Balanced'
<1> DEFINE own == OwnersIn(SV)
           weak == WeakIn(SV)
<1>1. PICK L, C : Balance(heap, SV, R, L, C)
  BY DEF Balanced, Kept
<1>2. /\ SV \in [Vars -> Values] /\ SV' = SV /\ heap.open /\ WeakTargetsOwned(heap, SV)
      /\ own \in [Strings -> Nat]
  BY OwnersCount DEF Balanced, Kept, eel_ps_nnew
<1>3. Books(heap, own, weak, TRUE, L, C)
  <2>1. heap.open = TRUE
    BY <1>1, <1>2, BooksSets DEF Balance, Heap
  <2> QED
    BY <1>1, <2>1 DEF Balance
<1> HIDE DEF own, weak
<1>4. heap.live \subseteq Strings /\ heap.pool = heap.live
  <2>1. heap.live \subseteq Strings
    BY <1>3, BooksSets
  <2> QED
    BY <1>2, <1>3, <2>1 DEF Books
<1>5. \E C2, o : /\ o \in Strings /\ R' = o
                 /\ Books(heap', own, weak, TRUE, L \cup {o}, C2)
  <2>1. ASSUME NEW o \in Find(heap, c), heap' = Receive(Resurrect(heap, o), o), R' = o
        PROVE  o \in Strings /\ Books(heap', own, weak, TRUE, L \cup {o}, C \ {o})
    <3> DEFINE more == [own EXCEPT ![o] = @ + 1]
    <3>1. o \in heap.live /\ o \in Strings
      BY <1>4 DEF Find
    <3>2. Books(Resurrect(heap, o), more, weak, TRUE, L, C \ {o})
      BY <1>3, <3>1, ResurrectOwns
    <3>3. more[o] > 0 /\ [more EXCEPT ![o] = @ - 1] = own
      BY <1>2, <3>1, MoreAndLess
    <3> HIDE DEF more
    <3>4. Books(Receive(Resurrect(heap, o), o), [more EXCEPT ![o] = @ - 1], weak, TRUE, L \cup {o}, C \ {o})
      BY <3>1, <3>2, <3>3, ReceiveKeeps
    <3> QED
      BY <2>1, <3>1, <3>3, <3>4
  <2>2. ASSUME NEW o \in Strings \ heap.live, Find(heap, c) = {},
               heap' = Receive(Create(heap, o, c), o), R' = o
        PROVE  Books(heap', own, weak, TRUE, L \cup {o}, C)
    <3> DEFINE more == [own EXCEPT ![o] = @ + 1]
    <3>1. weak[o] = {}
      <4>1. own[o] = 0 /\ o \notin L /\ heap.refcount[o] = own[o] + (IF o \in L THEN 1 ELSE 0)
        BY <1>3 DEF Books
      <4>2. weak[o] = Holding(SV, Weak(o))
        BY OwnersCount DEF weak
      <4>3. ASSUME NEW v \in Holding(SV, Weak(o)) PROVE FALSE
        <5>1. v \in Vars /\ SV[v].kind = "weak" /\ SV[v].o = o
          BY ValueKinds DEF Holding
        <5> QED
          BY <4>1, <5>1, <1>2 DEF WeakTargetsOwned
      <4> QED
        BY <4>2, <4>3
    <3>2. Books(Create(heap, o, c), more, weak, TRUE, L, C)
      BY <1>2, <1>3, <2>2, <3>1, CreateKeeps
    <3>3. more[o] > 0 /\ [more EXCEPT ![o] = @ - 1] = own
      BY <1>2, MoreAndLess
    <3> HIDE DEF more
    <3>4. Books(Receive(Create(heap, o, c), o), [more EXCEPT ![o] = @ - 1], weak, TRUE, L \cup {o}, C)
      BY <3>2, <3>3, ReceiveKeeps
    <3> QED
      BY <2>2, <3>3, <3>4
  <2> QED
    BY <2>1, <2>2 DEF eel_ps_nnew
<1>6. PICK C2, o : /\ o \in Strings /\ R' = o
                   /\ Books(heap', own, weak, TRUE, L \cup {o}, C2)
  BY <1>5
<1>7. WeakTargetsOwned(heap', SV)
  <2>1. L \subseteq L \cup {o}
    OBVIOUS
  <2> QED
    BY <1>2, <1>3, <1>6, <2>1, TargetsStay
<1>8. Balance(heap', SV, R', L \cup {o}, C2)
  BY <1>6 DEF Balance, Books, own, weak
<1> QED
  BY <1>2, <1>6, <1>7, <1>8 DEF Balanced, Kept

LEMMA GetvarKeeps ==
    ASSUME Balanced, NEW v \in Vars, GETVAR(v)
    PROVE  Balanced'
<1> DEFINE own == OwnersIn(SV)
           weak == WeakIn(SV)
<1>1. PICK L, C : Balance(heap, SV, R, L, C)
  BY DEF Balanced, Kept
<1>2. /\ SV \in [Vars -> Values] /\ SV' = SV /\ heap.open /\ WeakTargetsOwned(heap, SV)
      /\ R' = SV[v].o /\ SV[v] \in Values
      /\ heap' = IF SV[v] = None THEN heap ELSE Grab(heap, SV[v].o)
  BY DEF Balanced, Kept, GETVAR
<1>3. Books(heap, own, weak, TRUE, L, C) /\ heap.live \subseteq Strings
  <2>0. heap \in Heap /\ heap.live \subseteq Strings
    BY <1>1, BooksSets DEF Balance
  <2>1. heap.open = TRUE
    BY <1>2, <2>0 DEF Heap
  <2> QED
    BY <1>1, <2>0, <2>1 DEF Balance
<1>4. CASE SV[v] = None
  <2>1. R' = Null /\ heap' = heap
    BY <1>2, <1>4, ValueKinds
  <2>2. Balance(heap', SV', R', L, C)
    BY <1>1, <1>2, <2>1 DEF Balance
  <2> QED
    BY <1>2, <2>1, <2>2 DEF Balanced, Kept
<1>5. CASE SV[v] # None
  <2> DEFINE o == SV[v].o
  <2>1. o \in Strings /\ (SV[v].kind = "obj" \/ SV[v].kind = "weak") /\ heap' = Grab(heap, o)
    BY <1>2, <1>5, ValueIs
  <2>2. o \in heap.live /\ heap.refcount[o] > 0
    <3>1. CASE SV[v].kind = "obj"
      <4>1. own[o] > 0
        BY <1>2, <3>1, LetsGo
      <4> HIDE DEF own, weak, o
      <4> QED
        BY <1>3, <2>1, <4>1, OwnedAlive
    <3>2. CASE SV[v].kind = "weak"
      <4>1. heap.refcount[o] > 0
        BY <1>2, <3>2 DEF WeakTargetsOwned
      <4> HIDE DEF own, weak, o
      <4>2. ASSUME o \notin heap.live PROVE FALSE
        <5>1. own[o] = 0 /\ o \notin L /\ heap.refcount[o] = own[o] + (IF o \in L THEN 1 ELSE 0)
          BY <1>3, <2>1, <4>2 DEF Books
        <5> QED
          BY <4>1, <5>1
      <4> QED
        BY <4>1, <4>2
    <3> QED
      BY <2>1, <3>1, <3>2
  <2> HIDE DEF own, weak, o
  <2>3. Books(heap', own, weak, TRUE, L \cup {o}, C)
    BY <1>3, <2>1, <2>2, GrabKeeps
  <2>4. WeakTargetsOwned(heap', SV)
    <3>1. L \subseteq L \cup {o}
      OBVIOUS
    <3> QED
      BY <1>2, <1>3, <2>3, <3>1, TargetsStay
  <2>5. Balance(heap', SV, R', L \cup {o}, C)
    BY <1>2, <2>3 DEF Balance, Books, own, weak, o
  <2> QED
    BY <1>2, <2>1, <2>4, <2>5 DEF Balanced, Kept, o
<1> QED
  BY <1>4, <1>5

\* eel_v_disown_nz of what a variable holds, whatever that is.
LEMMA ReleasedKeeps ==
    ASSUME SV \in [Vars -> Values], NEW v \in Vars, NEW open, NEW L, NEW C,
           Books(heap, OwnersIn(SV), WeakIn(SV), open, L, C)
    PROVE  LET gone == [SV EXCEPT ![v] = None]
           IN  \E D : Books(Released(heap, v), OwnersIn(gone), WeakIn(gone), open, L, D)
<1> DEFINE gone == [SV EXCEPT ![v] = None]
           o == SV[v].o
<1>1. /\ SV[v].kind = "nil" => gone = SV
      /\ SV[v].kind = "obj" =>
            /\ o \in Strings /\ OwnersIn(SV)[o] > 0
            /\ OwnersIn(gone) = [OwnersIn(SV) EXCEPT ![o] = @ - 1]
            /\ WeakIn(gone) = WeakIn(SV)
      /\ SV[v].kind = "weak" =>
            /\ o \in Strings
            /\ OwnersIn(gone) = OwnersIn(SV)
            /\ WeakIn(gone) = [WeakIn(SV) EXCEPT ![o] = @ \ {v}]
  BY LetsGo
<1>2. SV[v].kind \in {"nil", "obj", "weak"}
  <2>1. SV[v] \in Values
    OBVIOUS
  <2> QED
    BY <2>1, ValueIs
<1> HIDE DEF gone, o
<1>3. CASE SV[v].kind = "nil"
  <2>1. Released(heap, v) = heap /\ gone = SV
    BY <1>1, <1>3 DEF Released
  <2> QED
    BY <2>1 DEF gone
<1>4. CASE SV[v].kind = "obj"
  <2>1. Released(heap, v) = Disown(heap, o)
    BY <1>4 DEF Released, o
  <2>2. \E D : Books(Disown(heap, o), [OwnersIn(SV) EXCEPT ![o] = @ - 1], WeakIn(SV), open, L, D)
    BY <1>1, <1>4, DisownKeeps
  <2> QED
    BY <1>1, <1>4, <2>1, <2>2 DEF gone
<1>5. CASE SV[v].kind = "weak"
  <2> DEFINE slots == heap.weakrefs[o] \ {v}
  <2>1. Released(heap, v) = [heap EXCEPT !.weakrefs[o] = slots]
    BY <1>5 DEF Released, o
  <2>2. heap.weakrefs = WeakIn(SV)
    BY DEF Books
  <2>3. slots \in SUBSET Vars /\ slots = WeakIn(SV)[o] \ {v}
    BY <1>1, <1>5, <2>2, OwnersCount
  <2> HIDE DEF slots
  <2>4. Books([heap EXCEPT !.weakrefs[o] = slots], OwnersIn(SV), [WeakIn(SV) EXCEPT ![o] = slots], open, L, C)
    BY <1>1, <1>5, <2>3, WireKeeps
  <2> QED
    BY <1>1, <1>5, <2>1, <2>3, <2>4 DEF gone
<1> QED
  BY <1>2, <1>3, <1>4, <1>5

LEMMA SetvarKeeps ==
    ASSUME ~Outlive, Balanced, NEW v \in Vars, SETVAR(v)
    PROVE  Balanced'
<1> DEFINE gone == [SV EXCEPT ![v] = None]
           h == Released(heap, v)
<1>1. PICK L, C : Balance(heap, SV, R, L, C)
  BY DEF Balanced, Kept
<1>2. /\ SV \in [Vars -> Values] /\ heap.open /\ R' = R /\ R \in Strings \cup {Null}
      /\ R # Null => R \in L
  BY <1>1 DEF Balanced, Kept, Balance, SETVAR
<1>3. Books(heap, OwnersIn(SV), WeakIn(SV), TRUE, L, C)
  <2>0. heap \in Heap
    BY <1>1, BooksSets DEF Balance
  <2>1. heap.open = TRUE
    BY <1>2, <2>0 DEF Heap
  <2> QED
    BY <1>1, <2>1 DEF Balance
<1>4. PICK D : Books(h, OwnersIn(gone), WeakIn(gone), TRUE, L, D)
  BY <1>2, <1>3, ReleasedKeeps
<1>5. gone \in [Vars -> Values] /\ gone[v] = None
  BY <1>2 DEF Values
<1>6. /\ R = Null => heap' = h /\ SV' = gone
      /\ R # Null => heap' = Own(h, R) /\ SV' = [gone EXCEPT ![v] = Obj(R)]
  BY <1>2 DEF SETVAR, Obj
<1> HIDE DEF gone, h
<1>7. SV' \in [Vars -> Values] /\ Books(heap', OwnersIn(SV'), WeakIn(SV'), TRUE, L, D)
  <2>1. CASE R = Null
    BY <1>4, <1>5, <1>6, <2>1
  <2>2. CASE R # Null
    <3>1. R \in Strings /\ R \in h.live /\ h.refcount[R] > 0
      <4>1. R \in L /\ R \in Strings
        BY <1>2, <2>2
      <4>2. /\ L \subseteq h.live /\ OwnersIn(gone)[R] \in Nat
            /\ h.refcount[R] = OwnersIn(gone)[R] + (IF R \in L THEN 1 ELSE 0)
        BY <1>4, <4>1 DEF Books
      <4> QED
        BY <4>1, <4>2
    <3>2. OwnerMore(gone, SV', R)
      BY <1>5, <1>6, <2>2, <3>1, Takes
    <3>3. Books(Own(h, R), [OwnersIn(gone) EXCEPT ![R] = @ + 1], WeakIn(gone), TRUE, L, D)
      BY <1>4, <3>1, OwnMore
    <3>4. SV' \in [Vars -> Values]
      <4>1. Obj(R) \in Values
        BY <3>1 DEF Values
      <4> QED
        BY <1>5, <1>6, <2>2, <4>1
    <3> QED
      BY <1>6, <2>2, <3>2, <3>3, <3>4 DEF OwnerMore
  <2> QED
    BY <2>1, <2>2
<1>8. WeakTargetsOwned(heap', SV')
  <2>1. \A u \in Vars : ~(SV'[u].kind = "weak" /\ heap'.refcount[SV'[u].o] = 0)
    BY DEF SETVAR, TargetsKept, Orphaned
  <2> QED
    BY <1>7, <2>1, GuardedTargets
<1>9. Balance(heap', SV', R', L, D)
  <2>1. heap'.open = TRUE
    BY <1>7 DEF Books
  <2> QED
    BY <1>2, <1>7, <2>1 DEF Balance
<1> QED
  BY <1>2, <1>7, <1>8, <1>9 DEF Balanced, Kept

LEMMA SetvarWeakKeeps ==
    ASSUME ~Outlive, Balanced, NEW v \in Vars, SETVAR_WEAK(v)
    PROVE  Balanced'
<1> DEFINE gone == [SV EXCEPT ![v] = None]
           h == Released(heap, v)
           slots == h.weakrefs[R] \cup {v}
<1>1. PICK L, C : Balance(heap, SV, R, L, C)
  BY DEF Balanced, Kept
<1>2. /\ SV \in [Vars -> Values] /\ heap.open /\ R' = R /\ R \in Strings /\ R \in L
  BY <1>1 DEF Balanced, Kept, Balance, SETVAR_WEAK
<1>3. Books(heap, OwnersIn(SV), WeakIn(SV), TRUE, L, C)
  <2>0. heap \in Heap
    BY <1>1, BooksSets DEF Balance
  <2>1. heap.open = TRUE
    BY <1>2, <2>0 DEF Heap
  <2> QED
    BY <1>1, <2>1 DEF Balance
<1>4. PICK D : Books(h, OwnersIn(gone), WeakIn(gone), TRUE, L, D)
  BY <1>2, <1>3, ReleasedKeeps
<1>5. gone \in [Vars -> Values] /\ gone[v] = None
  BY <1>2 DEF Values
<1>6. heap' = [h EXCEPT !.weakrefs[R] = slots] /\ SV' = [gone EXCEPT ![v] = Weak(R)]
  BY <1>2 DEF SETVAR_WEAK, Weak
<1>7. slots \in SUBSET Vars /\ slots = WeakIn(gone)[R] \cup {v}
  <2>1. h.weakrefs = WeakIn(gone)
    BY <1>4 DEF Books
  <2> HIDE DEF h, gone
  <2> QED
    BY <1>2, <2>1, OwnersCount
<1> HIDE DEF gone, h, slots
<1>8. SV' \in [Vars -> Values] /\ Books(heap', OwnersIn(SV'), WeakIn(SV'), TRUE, L, D)
  <2>1. WeakMore(gone, SV', R, v)
    BY <1>2, <1>5, <1>6, Takes
  <2>2. Books([h EXCEPT !.weakrefs[R] = slots], OwnersIn(gone), [WeakIn(gone) EXCEPT ![R] = slots], TRUE, L, D)
    BY <1>2, <1>4, <1>7, WireKeeps
  <2>3. Weak(R) \in Values
    BY <1>2 DEF Values
  <2>4. SV' \in [Vars -> Values]
    BY <1>5, <1>6, <2>3
  <2> QED
    BY <1>6, <1>7, <2>1, <2>2, <2>4 DEF WeakMore
<1>9. WeakTargetsOwned(heap', SV')
  <2>1. \A u \in Vars : ~(SV'[u].kind = "weak" /\ heap'.refcount[SV'[u].o] = 0)
    BY DEF SETVAR_WEAK, TargetsKept, Orphaned
  <2> QED
    BY <1>8, <2>1, GuardedTargets
<1>10. Balance(heap', SV', R', L, D)
  <2>1. heap'.open = TRUE
    BY <1>8 DEF Books
  <2> QED
    BY <1>2, <1>8, <2>1 DEF Balance
<1> QED
  BY <1>2, <1>8, <1>9, <1>10 DEF Balanced, Kept

LEMMA CleanKeeps ==
    ASSUME ~Outlive, Balanced, limbo_clean
    PROVE  Balanced'
<1>1. PICK L, C : Balance(heap, SV, R, L, C)
  BY DEF Balanced, Kept
<1>2. /\ SV \in [Vars -> Values] /\ SV' = SV /\ R' = Null /\ heap' = Cleaned(heap)
      /\ heap.lnext[Limbo] # Null
  BY DEF Balanced, Kept, limbo_clean
<1>3. Books(heap, OwnersIn(SV), WeakIn(SV), heap.open, L, C)
  BY <1>1 DEF Balance
<1>4. heap.open = TRUE
  <2>1. heap \in Heap /\ Wired(heap, L, C)
    BY <1>3, BooksSets
  <2>2. L # {}
    BY <1>2, <2>1 DEF Wired, Ranked, Chain
  <2> QED
    BY <1>1, <2>1, <2>2 DEF Balance, Heap
<1>5. PICK L2, C2 : Books(heap', OwnersIn(SV), WeakIn(SV), TRUE, L2, C2)
  BY <1>2, <1>3, <1>4, CleanedKeeps
<1>6. WeakTargetsOwned(heap', SV)
  <2>1. \A u \in Vars : ~(SV[u].kind = "weak" /\ heap'.refcount[SV[u].o] = 0)
    BY <1>2 DEF limbo_clean, TargetsKept, Orphaned
  <2> QED
    BY <1>2, <1>5, <2>1, GuardedTargets
<1>7. Balance(heap', SV', R', L2, C2)
  <2>1. heap'.open = TRUE
    BY <1>5 DEF Books
  <2> QED
    BY <1>2, <1>5, <2>1 DEF Balance
<1> QED
  BY <1>2, <1>6, <1>7 DEF Balanced, Kept

LEMMA PsCloseKeeps ==
    ASSUME Balanced, eel_ps_close
    PROVE  Balanced'
<1> DEFINE h == ps_uncache(heap)
<1>1. PICK L, C : Balance(heap, SV, R, L, C)
  BY DEF Balanced, Kept
<1>2. /\ SV \in [Vars -> Values] /\ SV' = SV /\ R' = Null /\ heap.open
      /\ heap' = [h EXCEPT !.pool = {}, !.open = FALSE]
      /\ heap.lnext[Limbo] = Null
      /\ \A v \in Vars : SV[v].kind # "weak"
  BY DEF Balanced, Kept, eel_ps_close, ClosePool
<1>3. Books(heap, OwnersIn(SV), WeakIn(SV), heap.open, L, C)
  BY <1>1 DEF Balance
<1>4. L = {}
  <2>1. Wired(heap, L, C)
    BY <1>3, BooksSets
  <2> QED
    BY <1>2, <2>1 DEF Wired, Ranked, Chain
<1> HIDE DEF h
<1>5. Books(h, OwnersIn(SV), WeakIn(SV), heap.open, L, {})
  BY <1>2, <1>3, UncachedKeeps DEF h
<1>6. Books(heap', OwnersIn(SV), WeakIn(SV), FALSE, L, {})
  BY <1>2, <1>5, CloseKeeps
<1>7. WeakTargetsOwned(heap', SV')
  BY <1>2 DEF WeakTargetsOwned
<1>8. Balance(heap', SV', R', L, {})
  <2>1. heap'.open = FALSE
    BY <1>6 DEF Books
  <2> QED
    BY <1>2, <1>4, <1>6, <2>1 DEF Balance
<1> QED
  BY <1>2, <1>7, <1>8 DEF Balanced, Kept

LEMMA UnstrapKeeps ==
    ASSUME Balanced, eel__unstrap
    PROVE  Balanced'
<1>1. PICK L, C : Balance(heap, SV, R, L, C)
  BY DEF Balanced, Kept
<1>2. PICK v \in Vars :
        /\ SV[v].kind = "obj"
        /\ heap' = Disown(heap, SV[v].o)
        /\ SV' = [Nilled(SV, DisownKills(heap, SV[v].o)) EXCEPT ![v] = None]
  BY DEF eel__unstrap
<1> DEFINE gone == [SV EXCEPT ![v] = None]
           o == SV[v].o
<1>3. /\ SV \in [Vars -> Values] /\ R' = R /\ ~heap.open /\ WeakTargetsOwned(heap, SV)
      /\ L = {} /\ R \in Strings \cup {Null} /\ R = Null
      /\ Books(heap, OwnersIn(SV), WeakIn(SV), heap.open, L, C)
  BY <1>1 DEF Balanced, Kept, Balance, eel__unstrap
<1>4. /\ gone \in [Vars -> Values] /\ o \in Strings /\ OwnersIn(SV)[o] > 0
      /\ OwnersIn(gone) = [OwnersIn(SV) EXCEPT ![o] = @ - 1]
      /\ WeakIn(gone) = WeakIn(SV)
  BY <1>2, <1>3, LetsGo
<1>5. \A u \in Vars : SV[u].kind # "weak"
  BY <1>3 DEF WeakTargetsOwned
<1>6. DisownKills(heap, o) = {}
  <2>1. heap.weakrefs[o] = Holding(SV, Weak(o))
    BY <1>3, <1>4, OwnersCount DEF Books
  <2>2. Holding(SV, Weak(o)) = {}
    BY <1>5, ValueKinds DEF Holding
  <2> QED
    BY <2>1, <2>2 DEF DisownKills
<1>7. SV' = gone
  <2>1. Nilled(SV, {}) = SV
    BY <1>3 DEF Nilled
  <2> QED
    BY <1>2, <1>6, <2>1
<1> HIDE DEF o, gone
<1>8. PICK D : Books(heap', OwnersIn(SV'), WeakIn(SV'), heap.open, L, D)
  <2>1. \E D : Books(Disown(heap, o), [OwnersIn(SV) EXCEPT ![o] = @ - 1], WeakIn(SV), heap.open, L, D)
    BY <1>3, <1>4, DisownKeeps
  <2>2. heap' = Disown(heap, o)
    BY <1>2 DEF o
  <2>3. /\ OwnersIn(SV') = [OwnersIn(SV) EXCEPT ![o] = @ - 1]
        /\ WeakIn(SV') = WeakIn(SV)
    BY <1>4, <1>7
  <2> QED
    BY <2>1, <2>2, <2>3
<1>9. heap'.open = heap.open
  BY <1>8 DEF Books
<1>10. WeakTargetsOwned(heap', SV')
  <2>1. \A u \in Vars : SV'[u].kind # "weak"
    BY <1>3, <1>5, <1>7, ValueKinds DEF gone
  <2> QED
    BY <2>1 DEF WeakTargetsOwned
<1>11. Balance(heap', SV', R', L, D)
  BY <1>3, <1>8, <1>9 DEF Balance
<1> QED
  BY <1>3, <1>4, <1>7, <1>10, <1>11 DEF Balanced, Kept

-----------------------------------------------------------------------------
(* The theorems. *)

(***************************************************************************)
(* The books of the string pool balance in every state, as long as no weak *)
(* reference outlives the owners of its string: the links are two lists,   *)
(* the refcounts what the variables and limbo own, the cache what is left. *)
(***************************************************************************)
THEOREM BooksBalance == ~Outlive => (Spec => []Balanced)
<1> SUFFICES ASSUME ~Outlive PROVE Spec => []Balanced
  OBVIOUS
<1>1. Init => Balanced
  BY InitBalanced
<1>2. Balanced /\ [Next]_vars => Balanced'
  <2> SUFFICES ASSUME Balanced, [Next]_vars PROVE Balanced'
    OBVIOUS
  <2>1. ASSUME NEW c \in Contents, eel_ps_nnew(c) PROVE Balanced'
    BY <2>1, NnewKeeps
  <2>2. ASSUME NEW v \in Vars, GETVAR(v) PROVE Balanced'
    BY <2>2, GetvarKeeps
  <2>3. ASSUME NEW v \in Vars, SETVAR(v) PROVE Balanced'
    BY <2>3, SetvarKeeps
  <2>4. ASSUME NEW v \in Vars, SETVAR_WEAK(v) PROVE Balanced'
    BY <2>4, SetvarWeakKeeps
  <2>5. CASE limbo_clean
    BY <2>5, CleanKeeps
  <2>6. CASE eel_ps_close
    BY <2>6, PsCloseKeeps
  <2>7. CASE eel__unstrap
    BY <2>7, UnstrapKeeps
  <2>8. CASE UNCHANGED vars
    <3>1. heap' = heap /\ SV' = SV /\ R' = R
      BY <2>8 DEF vars
    <3> QED
      BY <3>1 DEF Balanced, Kept, Balance, WeakTargetsOwned
  <2> QED
    BY <2>1, <2>2, <2>3, <2>4, <2>5, <2>6, <2>7, <2>8 DEF Next
<1> QED
  BY <1>1, <1>2, PTL DEF Spec

LEMMA BalancedTypes == Balanced => TypeOK
<1> SUFFICES ASSUME Balanced PROVE TypeOK
  OBVIOUS
<1>1. PICK L, C : Balance(heap, SV, R, L, C)
  BY DEF Balanced, Kept
<1>2. heap \in Heap
  BY <1>1, BooksSets DEF Balance
<1>3. SV \in [Vars -> Values] /\ R \in Strings \cup {Null}
  BY DEF Balanced, Kept
<1>4. Values \subseteq [kind : {"nil", "obj", "weak"}, o : Strings \cup {Null}]
  BY DEF Values, None, Obj, Weak
<1> QED
  BY <1>2, <1>3, <1>4 DEF TypeOK

LEMMA BalancedTexts == Balanced => OneStringPerText
  BY DEF Balanced, Kept, Balance, Books, OneStringPerText

LEMMA BalancedLists == Balanced => ListsWhole
<1> SUFFICES ASSUME Balanced PROVE ListsWhole
  OBVIOUS
<1>1. PICK L, C : Balance(heap, SV, R, L, C)
  BY DEF Balanced, Kept
<1> DEFINE own == OwnersIn(SV)
           weak == WeakIn(SV)
<1>2. Books(heap, own, weak, heap.open, L, C)
  BY <1>1 DEF Balance
<1> HIDE DEF own, weak
<1>3. Wired(heap, L, C) /\ L \cap C = {} /\ own \in [Strings -> Nat]
  BY <1>2, BooksSets
<1>4. InLimboList = L /\ Cached = C /\ OnList(heap.scache_last, heap.lprev) = C
  BY <1>3, OnListIs DEF InLimboList, Cached
<1>5. C = {o \in heap.live : heap.refcount[o] = 0} /\ C \subseteq heap.pool
  BY <1>2 DEF Books
<1>6. ASSUME NEW o \in L
      PROVE  heap.lnext[heap.lprev[o]] = o /\ heap.refcount[o] > 0
  <2>1. PICK rank, top : Ranked(heap, L, C, rank, top)
    BY <1>3 DEF Wired
  <2>2. o \in Strings /\ o # Null
    BY <2>1, StringsAssumption DEF Ranked, Chain
  <2>3. heap.lnext[heap.lprev[o]] = o
    BY <2>1, <2>2 DEF Ranked, Chain
  <2>4. own[o] \in Nat /\ heap.refcount[o] = own[o] + (IF o \in L THEN 1 ELSE 0)
    BY <1>2, <1>3, <2>2 DEF Books
  <2> QED
    BY <2>3, <2>4
<1>7. heap.scache_size = Cardinality(C) /\ heap.scache_size <= CacheMax + 1
  BY <1>2 DEF Books
<1> QED
  BY <1>3, <1>4, <1>5, <1>6, <1>7 DEF ListsWhole

LEMMA BalancedRefs == Balanced => RefsCounted
<1> SUFFICES ASSUME Balanced PROVE RefsCounted
  OBVIOUS
<1>1. PICK L, C : Balance(heap, SV, R, L, C)
  BY DEF Balanced, Kept
<1>2. Books(heap, OwnersIn(SV), WeakIn(SV), heap.open, L, C)
  BY <1>1 DEF Balance
<1>3. Wired(heap, L, C) /\ heap.live \subseteq Strings /\ L \subseteq heap.live
  BY <1>2, BooksSets
<1>4. InLimboList = L
  BY <1>3, OnListIs DEF InLimboList
<1>5. \A o \in Strings : /\ OwnersIn(SV)[o] \in Nat
                         /\ OwnersIn(SV)[o] = Cardinality({v \in Vars : SV[v] = [kind |-> "obj", o |-> o]})
                         /\ heap.refcount[o] = OwnersIn(SV)[o] + (IF o \in L THEN 1 ELSE 0)
  BY <1>2 DEF Books, OwnersIn, Holding, Obj
<1>6. ASSUME NEW v \in Vars, SV[v].kind = "obj"
      PROVE  SV[v].o \in heap.live
  <2>1. SV \in [Vars -> Values]
    BY DEF Balanced, Kept
  <2>2. SV[v].o \in Strings /\ OwnersIn(SV)[SV[v].o] > 0
    BY <1>6, <2>1, LetsGo
  <2> QED
    BY <1>2, <2>2, OwnedAlive
<1>7. R # Null => R \in heap.live /\ heap.refcount[R] > 0
  <2>1. R # Null => R \in L
    BY <1>1 DEF Balance
  <2> SUFFICES ASSUME R # Null PROVE R \in heap.live /\ heap.refcount[R] > 0
    OBVIOUS
  <2>2. R \in L /\ R \in heap.live /\ R \in Strings
    BY <1>3, <2>1
  <2>3. OwnersIn(SV)[R] \in Nat /\ heap.refcount[R] = OwnersIn(SV)[R] + 1
    BY <1>5, <2>2
  <2> QED
    BY <2>2, <2>3
<1> QED
  BY <1>3, <1>4, <1>5, <1>6, <1>7 DEF RefsCounted

LEMMA BalancedClosed == Balanced => ClosedLeavesOwned
<1> SUFFICES ASSUME Balanced, ~heap.open, NEW o \in heap.live
             PROVE  \E v \in Vars : SV[v].o = o
  BY DEF ClosedLeavesOwned
<1>1. PICK L, C : Balance(heap, SV, R, L, C)
  BY DEF Balanced, Kept
<1>2. Books(heap, OwnersIn(SV), WeakIn(SV), heap.open, L, C) /\ L = {}
  BY <1>1 DEF Balance
<1>3. o \in Strings /\ OwnersIn(SV)[o] \in Nat /\ heap.refcount[o] # 0 /\ heap.refcount[o] = OwnersIn(SV)[o]
  <2>1. heap.live \subseteq Strings /\ OwnersIn(SV) \in [Strings -> Nat]
    BY <1>2, BooksSets
  <2>2. C = {} /\ C = {p \in heap.live : heap.refcount[p] = 0}
    BY <1>2 DEF Books
  <2>3. heap.refcount[o] # 0
    BY <2>2
  <2>4. o \in Strings /\ OwnersIn(SV)[o] \in Nat
    BY <2>1
  <2>5. heap.refcount[o] = OwnersIn(SV)[o] + (IF o \in L THEN 1 ELSE 0)
    BY <1>2, <2>4 DEF Books
  <2> QED
    BY <1>2, <2>3, <2>4, <2>5
<1>4. OwnersIn(SV)[o] = Cardinality(Holding(SV, Obj(o)))
  BY <1>3, OwnersCount
<1>5. Holding(SV, Obj(o)) # {}
  BY <1>3, <1>4, FS_EmptySet
<1>6. PICK v \in Vars : SV[v] = Obj(o)
  BY <1>5 DEF Holding
<1> QED
  BY <1>6, ValueKinds

(***************************************************************************)
(* The types of the heap, its links and what the variables hold.           *)
(***************************************************************************)
THEOREM TypesHold == ~Outlive => (Spec => []TypeOK)
  BY BooksBalance, BalancedTypes, PTL

(***************************************************************************)
(* ps_find and ps_resurrect: no two strings of the pool have one content,  *)
(* however many there are and whatever the size of the cache, so that      *)
(* tables may compare strings by their addresses.                          *)
(***************************************************************************)
THEOREM TextsShared == ~Outlive => (Spec => []OneStringPerText)
  BY BooksBalance, BalancedTexts, PTL

(***************************************************************************)
(* The cache and limbo share the links of a string and stay two lists,     *)
(* each whole in both directions; the cache is what nobody owns, and       *)
(* scache_size its length, at most one more than scache_max.               *)
(***************************************************************************)
THEOREM ListsStayWhole == ~Outlive => (Spec => []ListsWhole)
  BY BooksBalance, BalancedLists, PTL

(***************************************************************************)
(* eel_o_own and eel_o_disown: a refcount is the number of variables that  *)
(* own the string, plus one for limbo; nothing owned is freed or cached.   *)
(***************************************************************************)
THEOREM RefsAreOwners == ~Outlive => (Spec => []RefsCounted)
  BY BooksBalance, BalancedRefs, PTL

(***************************************************************************)
(* eel_ps_close: a string that is left once the pool is closed is owned by *)
(* a variable; none leaks.                                                 *)
(***************************************************************************)
THEOREM NoStringLeaks == ~Outlive => (Spec => []ClosedLeavesOwned)
  BY BooksBalance, BalancedClosed, PTL

=============================================================================
