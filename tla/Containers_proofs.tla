------------------------- MODULE Containers_proofs --------------------------
(* The theorems about Containers: every statement keeps the books of its     *)
(* heap, and the blocks of vectors and dynamic strings fit what is in them.  *)
EXTENDS ContainersHeap_proofs

-----------------------------------------------------------------------------
(* Searching: t__binary_find and t__find.                                   *)

Spans == [low : Int, high : Int]
SortedIn(h, t) == \A i, j \in 1..Len(h.items[t]) : i <= j => Hash(h, t, i) <= Hash(h, t, j)

\* Where a search may be after n turns: it is at a hit, or the span has become
\* shorter; all codes below it are less, and all above it greater.
Searching(h, t, hash, span, n) ==
    LET length == Len(h.items[t])
    IN  /\ span \in Spans
        /\ 0 <= span.low /\ span.low <= span.high + 1 /\ span.high + 1 <= length
        /\ \/ span.low <= span.high /\ Hash(h, t, Mid(span) + 1) = hash
           \/ span.high < span.low
           \/ span.high - span.low + 1 <= length - n
        /\ SortedIn(h, t) =>
              /\ \A i \in 1..span.low : Hash(h, t, i) < hash
              /\ \A i \in span.high + 2..length : Hash(h, t, i) > hash

\* The middle of a span is within it.
LEMMA MidIs ==
    ASSUME NEW span \in Spans
    PROVE  /\ Mid(span) \in Int
           /\ span.low <= span.high => span.low <= Mid(span) /\ Mid(span) <= span.high
           /\ span.low = span.high + 1 => Mid(span) = span.low
<1> DEFINE a == span.low
           b == span.high
<1>1. a \in Int /\ b \in Int
  BY DEF Spans
<1>2. Mid(span) = (a + b + 1) \div 2
  BY DEF Mid
<1> HIDE DEF a, b
<1>3. /\ (a + b + 1) \div 2 \in Int
      /\ a <= b => a <= (a + b + 1) \div 2 /\ (a + b + 1) \div 2 <= b
      /\ a = b + 1 => (a + b + 1) \div 2 = a
  BY <1>1
<1> QED
  BY <1>2, <1>3 DEF a, b

\* Hash codes are numbers.
LEMMA HashesAre ==
    ASSUME NEW h \in Heap, NEW t \in Objects,
           \A i \in 1..Len(h.items[t]) : h.items[t][i].key \in Keys
    PROVE  \A i \in 1..Len(h.items[t]) : Hash(h, t, i) \in Nat
  BY ContainersAssumption DEF Hash

\* A turn of the loop of t__binary_find keeps what Searching says.
LEMMA NarrowedSearches ==
    ASSUME NEW h \in Heap, NEW t \in Objects,
           \A i \in 1..Len(h.items[t]) : h.items[t][i].key \in Keys,
           NEW hash \in Nat, NEW n \in Nat \ {0}, NEW span, Searching(h, t, hash, span, n - 1)
    PROVE  Searching(h, t, hash, Narrowed(h, t, hash, span), n)
<1> DEFINE length == Len(h.items[t])
           m == Mid(span)
           at == Hash(h, t, m + 1)
           next == Narrowed(h, t, hash, span)
           a == span.low
           b == span.high
<1>1. /\ span \in Spans /\ a \in Int /\ b \in Int
      /\ 0 <= a /\ a <= b + 1 /\ b + 1 <= length
      /\ (a <= b /\ at = hash) \/ b < a \/ b - a + 1 <= length - (n - 1)
  BY DEF Searching, Spans
<1>2. SortedIn(h, t) =>
              /\ \A i \in 1..a : Hash(h, t, i) < hash
              /\ \A i \in b + 2..length : Hash(h, t, i) > hash
  BY DEF Searching
<1>3. length \in Nat /\ \A i \in 1..length : Hash(h, t, i) \in Nat
  BY HeapFields, HashesAre
<1>4. /\ m \in Int
      /\ a <= b => a <= m /\ m <= b
      /\ a = b + 1 => m = a
  BY <1>1, MidIs
<1>5. CASE b < a \/ hash = at
  <2>1. next = span
    BY <1>5 DEF Narrowed
  <2>2. (a <= b /\ at = hash) \/ b < a
    BY <1>5, <1>1
  <2> QED
    BY <2>1, <2>2, <1>1, <1>2 DEF Searching
<1>6. CASE ~(b < a \/ hash = at)
  <2>1. a <= b /\ a <= m /\ m <= b /\ b - a + 1 <= length - (n - 1) /\ at \in Nat /\ at = Hash(h, t, m + 1)
    <3> HIDE DEF a, b, m, at, length
    <3>1. a <= b /\ a <= m /\ m <= b /\ b - a + 1 <= length - (n - 1)
      BY <1>6, <1>1, <1>4
    <3>2. m + 1 \in 1..length
      BY <3>1, <1>1, <1>3, <1>4
    <3>3. Hash(h, t, m + 1) \in Nat
      BY <3>2, <1>3
    <3> QED
      BY <3>1, <3>3 DEF at
  <2>2. m + 1 \in 1..length
    <3> HIDE DEF a, b, m, at, length
    <3> QED
      BY <2>1, <1>1, <1>3, <1>4
  <2>3. SortedIn(h, t) => \A i \in 1..length : (i <= m + 1 => Hash(h, t, i) <= at) /\ (i >= m + 1 => Hash(h, t, i) >= at)
    BY <2>1, <2>2 DEF SortedIn
  <2> HIDE DEF m, at, length
  <2>4. CASE hash < at
    <3>1. next = [span EXCEPT !.high = m - 1]
      BY <1>6, <2>4 DEF Narrowed, m, at
    <3>2. next \in Spans /\ next.low = a /\ next.high = m - 1
      BY <3>1, <1>1, <1>4 DEF Spans
    <3> HIDE DEF a, b, next
    <3>3. 0 <= a /\ a <= (m - 1) + 1 /\ (m - 1) + 1 <= length /\ (m - 1) - a + 1 <= length - n
      BY <2>1, <1>1, <1>3, <1>4
    <3>4. SortedIn(h, t) => \A i \in (m - 1) + 2..length : Hash(h, t, i) > hash
      <4> SUFFICES ASSUME SortedIn(h, t), NEW i \in (m - 1) + 2..length PROVE Hash(h, t, i) > hash
        OBVIOUS
      <4>1. i \in 1..length /\ i >= m + 1
        BY <2>2, <1>4
      <4>2. Hash(h, t, i) >= at /\ Hash(h, t, i) \in Nat
        BY <4>1, <2>3, <1>3
      <4> QED
        BY <4>2, <2>4, <2>1
    <3>5. Searching(h, t, hash, next, n)
      BY <3>2, <3>3, <3>4, <1>1, <1>2 DEF Searching, length, a, b
    <3> QED
      BY <3>5 DEF next
  <2>5. CASE ~(hash < at)
    <3>1. next = [span EXCEPT !.low = m + 1]
      BY <1>6, <2>5 DEF Narrowed, m, at
    <3>2. next \in Spans /\ next.low = m + 1 /\ next.high = b
      BY <3>1, <1>1, <1>4 DEF Spans
    <3> HIDE DEF a, b, next
    <3>3. 0 <= m + 1 /\ m + 1 <= b + 1 /\ b + 1 <= length /\ b - (m + 1) + 1 <= length - n
      BY <2>1, <1>1, <1>3, <1>4
    <3>4. SortedIn(h, t) => \A i \in 1..m + 1 : Hash(h, t, i) < hash
      <4> SUFFICES ASSUME SortedIn(h, t), NEW i \in 1..m + 1 PROVE Hash(h, t, i) < hash
        OBVIOUS
      <4>1. i \in 1..length /\ i <= m + 1
        BY <2>2, <1>4, <1>3
      <4>2. Hash(h, t, i) <= at /\ Hash(h, t, i) \in Nat
        BY <4>1, <2>3, <1>3
      <4> QED
        BY <4>2, <2>5, <2>1, <1>6
    <3>5. Searching(h, t, hash, next, n)
      BY <3>2, <3>3, <3>4, <1>1, <1>2 DEF Searching, length, a, b
    <3> QED
      BY <3>5 DEF next
  <2> QED
    BY <2>4, <2>5
<1> QED
  BY <1>5, <1>6

\* The loop of t__binary_find.
LEMMA BinaryLoop ==
    ASSUME NEW h, NEW t, NEW hash, Len(h.items[t]) \in Nat, NEW J,
           [low |-> 0, high |-> Len(h.items[t]) - 1] \in J[0],
           \A n \in 1..Len(h.items[t]) : \A g \in J[n - 1] : Narrowed(h, t, hash, g) \in J[n]
    PROVE  \E span \in J[Len(h.items[t])] :
              BinaryFind(h, t, hash) = [hit |-> span.low <= span.high, at |-> Mid(span)]
<1> DEFINE N == Len(h.items[t])
           start == [low |-> 0, high |-> Len(h.items[t]) - 1]
           turn == [n \in 1..N |-> [g \in J[n - 1] |-> Narrowed(h, t, hash, g)]]
           after[n \in 0..N] == IF n = 0 THEN start ELSE Narrowed(h, t, hash, after[n - 1])
<1>1. N \in Nat /\ start \in J[0]
  OBVIOUS
<1>2. \A n \in 1..N : /\ turn[n] \in [J[n - 1] -> J[n]]
                      /\ \A g \in J[n - 1] : turn[n][g] = Narrowed(h, t, hash, g)
  OBVIOUS
<1> HIDE DEF N, start, turn, after
<1>3. PICK f : IsLoop(f, turn, J, start, N)
  BY <1>1, <1>2, LoopRuns
<1>4. \A n \in 0..N : n # 0 => n \in 1..N /\ n - 1 \in 0..N
  BY <1>1
<1>5. f = [n \in 0..N |-> IF n = 0 THEN start ELSE Narrowed(h, t, hash, f[n - 1])]
  <2>1. f = [n \in 0..N |-> IF n = 0 THEN start ELSE turn[n][f[n - 1]]]
        /\ \A n \in 0..N : f[n] \in J[n]
    BY <1>3 DEF IsLoop
  <2>2. ASSUME NEW n \in 0..N, n # 0
        PROVE  turn[n][f[n - 1]] = Narrowed(h, t, hash, f[n - 1])
    BY <1>2, <1>4, <2>1, <2>2
  <2> QED
    BY <2>1, <2>2
<1>6. after = [n \in 0..N |-> IF n = 0 THEN start ELSE Narrowed(h, t, hash, after[n - 1])]
  <2>1. \E k : k = [n \in 0..N |-> IF n = 0 THEN start ELSE Narrowed(h, t, hash, k[n - 1])]
    BY <1>5
  <2> QED
    BY <2>1, Zenon DEF after
<1>7. \A n \in 0..N : after[n] = IF n = 0 THEN start ELSE Narrowed(h, t, hash, after[n - 1])
  BY <1>6
<1>8. after[0] \in J[0]
  <2>1. 0 \in 0..N
    BY <1>1
  <2>2. after[0] = start
    BY <2>1, <1>7, Zenon
  <2> QED
    BY <2>2, <1>1
<1>9. \A n \in 1..N : after[n - 1] \in J[n - 1] => after[n] \in J[n]
  <2> SUFFICES ASSUME NEW n \in 1..N, after[n - 1] \in J[n - 1] PROVE after[n] \in J[n]
    OBVIOUS
  <2>0. n \in 0..N /\ n # 0
    BY <1>1
  <2>1. n \in 0..N /\ n # 0 /\ after[n] = Narrowed(h, t, hash, after[n - 1])
    BY <2>0, <1>7, Zenon
  <2>2. turn[n][after[n - 1]] = after[n] /\ turn[n][after[n - 1]] \in J[n]
    BY <1>2, <2>1
  <2> QED
    BY <2>2
<1>10. after[N] \in J[N]
  BY <1>1, <1>8, <1>9, LoopKeeps
<1>11. BinaryFind(h, t, hash) = [hit |-> after[N].low <= after[N].high, at |-> Mid(after[N])]
  BY DEF BinaryFind, after, N, start
<1> QED
  BY <1>10, <1>11 DEF N

\* t__binary_find ends at an item with the hash code, or where one goes.
LEMMA BinaryFindDoes ==
    ASSUME NEW h \in Heap, NEW t \in Objects,
           \A i \in 1..Len(h.items[t]) : h.items[t][i].key \in Keys, NEW hash \in Nat
    PROVE  LET found == BinaryFind(h, t, hash)
               n == Len(h.items[t])
           IN  /\ found.hit \in BOOLEAN /\ found.at \in 0..n
               /\ found.hit => found.at + 1 \in 1..n /\ Hash(h, t, found.at + 1) = hash
               /\ ~found.hit /\ SortedIn(h, t) =>
                     /\ \A i \in 1..found.at : Hash(h, t, i) < hash
                     /\ \A i \in found.at + 1..n : Hash(h, t, i) > hash
<1> DEFINE N == Len(h.items[t])
           J == [n \in 0..N |-> {span \in Spans : Searching(h, t, hash, span, n)}]
           found == BinaryFind(h, t, hash)
           start == [low |-> 0, high |-> N - 1]
<1>0. N \in Nat
  BY HeapFields
<1>1. start \in J[0]
  <2>1. start \in Spans /\ start.low = 0 /\ start.high = N - 1
    BY <1>0 DEF Spans
  <2> HIDE DEF start
  <2>2. Searching(h, t, hash, start, 0)
    BY <1>0, <2>1 DEF Searching
  <2> QED
    BY <1>0, <2>1, <2>2
<1>2. ASSUME NEW n \in 1..N, NEW g \in J[n - 1]
      PROVE  Narrowed(h, t, hash, g) \in J[n]
  <2>1. n \in 0..N /\ n - 1 \in 0..N /\ n \in Nat \ {0}
    BY <1>0
  <2>2. g \in Spans /\ Searching(h, t, hash, g, n - 1)
    BY <1>2, <2>1
  <2>3. Searching(h, t, hash, Narrowed(h, t, hash, g), n)
    BY <2>1, <2>2, NarrowedSearches
  <2>4. Narrowed(h, t, hash, g) \in Spans
    BY <2>3 DEF Searching
  <2> QED
    BY <2>1, <2>3, <2>4
<1>3. PICK span \in J[N] : found = [hit |-> span.low <= span.high, at |-> Mid(span)]
  <2> HIDE DEF J
  <2> QED
    BY <1>0, <1>1, <1>2, BinaryLoop
<1>4. span \in Spans /\ Searching(h, t, hash, span, N) /\ span.low \in Int /\ span.high \in Int
  BY <1>0 DEF Spans
<1>5. found.hit = (span.low <= span.high) /\ found.at = Mid(span)
  BY <1>3
<1> HIDE DEF J, found
<1> DEFINE a == span.low
           b == span.high
<1>6. /\ 0 <= a /\ a <= b + 1 /\ b + 1 <= N
      /\ (a <= b /\ Hash(h, t, Mid(span) + 1) = hash) \/ b < a
      /\ SortedIn(h, t) =>
              /\ \A i \in 1..a : Hash(h, t, i) < hash
              /\ \A i \in b + 2..N : Hash(h, t, i) > hash
  BY <1>0, <1>4 DEF Searching
<1>7. /\ Mid(span) \in Int
      /\ a <= b => a <= Mid(span) /\ Mid(span) <= b
      /\ a = b + 1 => Mid(span) = a
  BY <1>4, MidIs
<1> HIDE DEF found
<1>11. found.hit \in BOOLEAN /\ (found.hit <=> a <= b)
  <2> DEFINE hit == span.low <= span.high
  <2>1. found.hit = hit /\ hit \in BOOLEAN
    <3>1. (span.low <= span.high) \in BOOLEAN
      BY <1>4
    <3> QED
      BY <3>1, <1>5, Zenon
  <2>2. found.hit \in BOOLEAN /\ (found.hit <=> hit)
    <3> HIDE DEF hit
    <3> QED
      BY <2>1, Zenon
  <2> QED
    BY <2>2
<1>8. a \in Int /\ b \in Int
  BY <1>4
<1> HIDE DEF a, b, N
<1>9. CASE a <= b
  <2>0. found.at = Mid(span) /\ found.hit
    BY <1>9, <1>5, <1>11
  <2>1. found.at \in 0..N /\ found.at + 1 \in 1..N /\ Hash(h, t, found.at + 1) = hash
    BY <2>0, <1>9, <1>0, <1>6, <1>7, <1>8
  <2> QED
    BY <2>0, <2>1, <1>11 DEF found, N
<1>10. CASE ~(a <= b)
  <2>1. ~found.hit /\ found.at = a /\ a = b + 1 /\ found.at \in 0..N
    <3>1. a = b + 1
      BY <1>10, <1>6, <1>8
    <3>2. ~found.hit
      BY <1>10, <1>11
    <3> QED
      BY <3>1, <3>2, <1>0, <1>5, <1>6, <1>7, <1>8
  <2>2. SortedIn(h, t) => /\ \A i \in 1..found.at : Hash(h, t, i) < hash
                         /\ \A i \in found.at + 1..N : Hash(h, t, i) > hash
    <3>1. b + 2 = found.at + 1
      BY <2>1, <1>8
    <3> QED
      BY <2>1, <3>1, <1>6
  <2> QED
    BY <2>1, <2>2, <1>11 DEF found, N
<1> QED
  BY <1>9, <1>10

\* The least of some numbers.
LEMMA MinIs ==
    ASSUME NEW S, S \subseteq Nat, S # {}
    PROVE  Min(S) \in S /\ \A i \in S : Min(S) <= i
<1>1. \E i \in S : \A j \in S : i <= j
  BY LeastNat
<1> QED
  BY <1>1 DEF Min

\* The first item with the hash code, or the first with a greater one.
LEMMA FirstWithDoes ==
    ASSUME NEW h \in Heap, NEW t \in Objects,
           \A i \in 1..Len(h.items[t]) : h.items[t][i].key \in Keys, NEW hash \in Nat
    PROVE  /\ FirstWith(h, t, hash) \in 1..Len(h.items[t]) + 1
           /\ SortedIn(h, t) => \A i \in 1..Len(h.items[t]) :
                (i < FirstWith(h, t, hash) => Hash(h, t, i) < hash)
                /\ (i >= FirstWith(h, t, hash) => Hash(h, t, i) >= hash)
<1> DEFINE n == Len(h.items[t])
           found == BinaryFind(h, t, hash)
           first == FirstWith(h, t, hash)
           CodeAt(i) == Hash(h, t, i)
<1>0. n \in Nat /\ \A i \in 1..n : CodeAt(i) \in Nat
  BY HeapFields, HashesAre
<1>1. /\ found.hit \in BOOLEAN /\ found.at \in 0..n
      /\ found.hit => found.at + 1 \in 1..n /\ CodeAt(found.at + 1) = hash
      /\ ~found.hit /\ SortedIn(h, t) =>
            /\ \A i \in 1..found.at : CodeAt(i) < hash
            /\ \A i \in found.at + 1..n : CodeAt(i) > hash
  BY BinaryFindDoes
<1>2. SortedIn(h, t) => \A i, j \in 1..n : i <= j => CodeAt(i) <= CodeAt(j)
  BY DEF SortedIn
<1>3. first = IF n < LinearLimit THEN Min({i \in 1..n : CodeAt(i) >= hash} \union {n + 1})
              ELSE IF found.hit
              THEN Min({i \in 1..found.at + 1 : \A j \in i..found.at + 1 : CodeAt(j) = hash})
              ELSE found.at + 1
  BY DEF FirstWith
<1> HIDE DEF n, found, first, CodeAt
<1>4. CASE n < LinearLimit
  <2> DEFINE S == {i \in 1..n : CodeAt(i) >= hash} \union {n + 1}
  <2>1. S \subseteq Nat /\ n + 1 \in S /\ S \subseteq 1..n + 1
    BY <1>0
  <2>2. first = Min(S)
    BY <1>3, <1>4
  <2>3. first \in S /\ \A i \in S : first <= i
    <3> HIDE DEF S
    <3> QED
      BY <2>1, <2>2, MinIs
  <2>4. first \in 1..n + 1
    BY <2>1, <2>3
  <2>5. ASSUME NEW i \in 1..n, i < first PROVE CodeAt(i) < hash
    <3>1. i \notin S
      BY <2>3, <2>4, <2>5
    <3> QED
      BY <3>1, <1>0, <2>5
  <2>6. ASSUME SortedIn(h, t), NEW i \in 1..n, i >= first PROVE CodeAt(i) >= hash
    <3>1. first # n + 1
      BY <2>6, <2>4, <1>0
    <3>2. first \in 1..n /\ CodeAt(first) >= hash
      BY <3>1, <2>3
    <3>3. CodeAt(first) <= CodeAt(i)
      BY <1>2, <2>6, <3>2
    <3> QED
      BY <3>2, <3>3, <1>0, <2>6
  <2> QED
    BY <2>4, <2>5, <2>6 DEF n, first, CodeAt
<1>5. CASE ~(n < LinearLimit) /\ found.hit
  <2> DEFINE at == found.at + 1
             S == {i \in 1..at : \A j \in i..at : CodeAt(j) = hash}
  <2>1. at \in 1..n /\ CodeAt(at) = hash /\ at \in Int
    BY <1>1, <1>5
  <2>2. first = Min(S)
    BY <1>3, <1>5
  <2> HIDE DEF at
  <2>3. S \subseteq Nat /\ at \in S /\ S \subseteq 1..at
    <3>1. \A j \in at..at : j = at
      BY <2>1
    <3> QED
      BY <3>1, <2>1, <1>0
  <2>4. first \in S /\ \A i \in S : first <= i
    <3> HIDE DEF S
    <3> QED
      BY <2>2, <2>3, MinIs
  <2>5. first \in 1..at /\ first \in 1..n + 1 /\ first \in 1..n /\ \A j \in first..at : CodeAt(j) = hash
    BY <2>4, <2>1, <1>0
  <2>6. CodeAt(first) = hash
    BY <2>5, <2>1
  <2>7. ASSUME SortedIn(h, t), NEW i \in 1..n, i < first PROVE CodeAt(i) < hash
    <3>1. first - 1 \in 1..n /\ first - 1 \in 1..at /\ i <= first - 1 /\ first - 1 <= first
      BY <2>7, <2>5, <2>1, <1>0
    <3>2. first - 1 \notin S
      <4> DEFINE k == first - 1
      <4>1. ~(first <= k)
        BY <2>5
      <4> HIDE DEF S, k
      <4>2. k \notin S
        BY <4>1, <2>4
      <4> QED
        BY <4>2 DEF k
    <3>3. PICK j \in first - 1..at : CodeAt(j) # hash
      BY <3>1, <3>2
    <3>4. j = first - 1
      BY <3>3, <2>5
    <3>5. CodeAt(first - 1) # hash /\ CodeAt(first - 1) <= CodeAt(first) /\ CodeAt(i) <= CodeAt(first - 1)
      BY <3>1, <3>3, <3>4, <2>5, <2>7, <1>2
    <3> QED
      BY <3>1, <3>5, <2>6, <1>0
  <2>8. ASSUME SortedIn(h, t), NEW i \in 1..n, i >= first PROVE CodeAt(i) >= hash
    BY <2>8, <2>5, <2>6, <1>2, <1>0
  <2> QED
    BY <2>5, <2>7, <2>8 DEF n, first, CodeAt
<1>6. CASE ~(n < LinearLimit) /\ ~found.hit
  <2>1. first = found.at + 1 /\ first \in 1..n + 1
    BY <1>3, <1>6, <1>1, <1>0
  <2>2. SortedIn(h, t) => /\ \A i \in 1..found.at : CodeAt(i) < hash
                         /\ \A i \in found.at + 1..n : CodeAt(i) > hash
    BY <1>1, <1>6
  <2>3. ASSUME SortedIn(h, t), NEW i \in 1..n, i < first PROVE CodeAt(i) < hash
    BY <2>1, <2>2, <2>3, <1>1
  <2>4. ASSUME SortedIn(h, t), NEW i \in 1..n, i >= first PROVE CodeAt(i) >= hash
    BY <2>1, <2>2, <2>4, <1>1, <1>0
  <2> QED
    BY <2>1, <2>3, <2>4 DEF n, first, CodeAt
<1> QED
  BY <1>4, <1>5, <1>6

\* t__find: at a hit there is the key; else it is a position where to insert one.
LEMMA FindDoes ==
    ASSUME NEW h \in Heap, NEW t \in Objects,
           \A i \in 1..Len(h.items[t]) : h.items[t][i].key \in Keys, NEW key \in Keys
    PROVE  LET found == Find(h, t, key)
               n == Len(h.items[t])
           IN  /\ found.hit \in BOOLEAN /\ found.at \in 1..n + 1
               /\ found.hit => found.at \in 1..n /\ h.items[t][found.at].key = key
               /\ SortedIn(h, t) /\ ~found.hit =>
                    \A i \in 1..n : /\ h.items[t][i].key # key
                                    /\ i < found.at => Hash(h, t, i) < HashOf[key]
                                    /\ i >= found.at => Hash(h, t, i) >= HashOf[key]
<1> DEFINE n == Len(h.items[t])
           found == Find(h, t, key)
           hash == HashOf[key]
           first == FirstWith(h, t, hash)
           CodeAt(i) == Hash(h, t, i)
           Key(i) == h.items[t][i].key
           hits == {i \in first..n : (\A j \in first..i : CodeAt(j) = hash) /\ Key(i) = key}
<1>0. n \in Nat /\ hash \in Nat /\ \A i \in 1..n : CodeAt(i) \in Nat
  BY HeapFields, HashesAre, ContainersAssumption
<1>1. /\ first \in 1..n + 1
      /\ SortedIn(h, t) => \A i \in 1..n : (i < first => CodeAt(i) < hash) /\ (i >= first => CodeAt(i) >= hash)
  BY <1>0, FirstWithDoes
<1>2. SortedIn(h, t) => \A i, j \in 1..n : i <= j => CodeAt(i) <= CodeAt(j)
  BY DEF SortedIn
<1>3. found = IF hits # {} THEN [hit |-> TRUE, at |-> Min(hits)] ELSE [hit |-> FALSE, at |-> first]
  BY DEF Find, FindFrom
<1>4. \A i \in 1..n : Key(i) = key => CodeAt(i) = hash
  BY DEF Hash
<1> HIDE DEF n, found, hash, first, CodeAt, Key
<1>5. CASE hits # {}
  <2>1. hits \subseteq Nat /\ \A i \in hits : i \in 1..n /\ Key(i) = key
    BY <1>0, <1>1
  <2>2. Min(hits) \in hits
    <3> HIDE DEF hits
    <3> QED
      BY <1>5, <2>1, MinIs
  <2>3. found.hit = TRUE /\ found.at \in hits
    BY <1>3, <1>5, <2>2
  <2>4. found.hit /\ found.at \in 1..n /\ found.at \in 1..n + 1 /\ Key(found.at) = key
    BY <2>1, <2>3, <1>0
  <2> QED
    BY <2>3, <2>4 DEF found, n, Key
<1>6. CASE hits = {}
  <2>1. found.hit = FALSE /\ found.at = first
    BY <1>3, <1>6
  <2>2. ASSUME SortedIn(h, t), NEW i \in 1..n, Key(i) = key PROVE FALSE
    <3>1. CodeAt(i) = hash /\ i >= first
      BY <2>2, <1>0, <1>1, <1>4
    <3>2. ASSUME NEW j \in first..i PROVE CodeAt(j) = hash
      <4>1. j \in 1..n /\ j <= i /\ j >= first
        BY <1>0, <1>1
      <4>2. CodeAt(j) >= hash /\ CodeAt(j) <= CodeAt(i) /\ CodeAt(j) \in Nat
        BY <4>1, <1>0, <1>1, <1>2, <2>2
      <4> QED
        BY <4>2, <3>1, <1>0
    <3>3. i \in hits
      BY <2>2, <3>1, <3>2, <1>1
    <3> QED
      BY <3>3, <1>6
  <2>3. SortedIn(h, t) => \A i \in 1..n :
          /\ Key(i) # key
          /\ i < found.at => CodeAt(i) < hash
          /\ i >= found.at => CodeAt(i) >= hash
    BY <2>1, <2>2, <1>1
  <2>4. found.hit \in BOOLEAN /\ ~found.hit /\ found.at \in 1..n + 1
    BY <2>1, <1>1
  <2> QED
    <3>1. Find(h, t, key).hit \in BOOLEAN /\ Find(h, t, key).at \in 1..Len(h.items[t]) + 1
          /\ ~Find(h, t, key).hit
      BY <2>4 DEF found, n
    <3>2. SortedIn(h, t) => \A i \in 1..Len(h.items[t]) :
                /\ h.items[t][i].key # key
                /\ i < Find(h, t, key).at => Hash(h, t, i) < HashOf[key]
                /\ i >= Find(h, t, key).at => Hash(h, t, i) >= HashOf[key]
      <4> SUFFICES ASSUME SortedIn(h, t), NEW i \in 1..Len(h.items[t])
                   PROVE /\ h.items[t][i].key # key
                         /\ i < Find(h, t, key).at => Hash(h, t, i) < HashOf[key]
                         /\ i >= Find(h, t, key).at => Hash(h, t, i) >= HashOf[key]
        OBVIOUS
      <4>1. i \in 1..n
        BY DEF n
      <4>2. Key(i) # key /\ (i < found.at => CodeAt(i) < hash) /\ (i >= found.at => CodeAt(i) >= hash)
        BY <4>1, <2>3, Zenon
      <4> QED
        BY <4>2, Zenon DEF found, Key, CodeAt, hash
    <3> QED
      BY <3>1, <3>2
<1> QED
  BY <1>5, <1>6

-----------------------------------------------------------------------------
(* Tables.                                                                  *)

\* The items of a table have keys.
LEMMA KeysThere ==
    ASSUME NEW h, NEW L, NEW X, NEW Z, NEW Y, Books(h, L, X, Z, Y), NEW t \in Tables
    PROVE  h \in Heap /\ t \in Objects /\ \A i \in 1..Len(h.items[t]) : h.items[t][i].key \in Keys
  BY Kinds DEF Books, Shapes

\* Tables are sorted as their searches expect.
LEMMA TablesSorted ==
    ASSUME NEW h, NEW L, NEW X, NEW Z, NEW Y, Books(h, L, X, Z, Y), NEW t \in Tables
    PROVE  SortedIn(h, t)
<1> DEFINE n == Len(h.items[t])
           CodeAt(i) == Hash(h, t, i)
<1>1. h \in Heap /\ t \in Objects /\ \A i \in 1..n : h.items[t][i].key \in Keys
  BY KeysThere
<1>2. \A i \in 1..n : CodeAt(i) = HashOf[h.items[t][i].key] /\ CodeAt(i) \in Nat
  <2>1. HashOf \in [Keys -> Nat]
    BY ContainersAssumption
  <2> QED
    BY <1>1, <2>1 DEF Hash
<1>3. InOrder(h, t)
  BY DEF Books, Ordered
<1>4. \A i, j \in 1..n : i < j => CodeAt(i) <= CodeAt(j)
  BY <1>2, <1>3 DEF InOrder
<1>5. ASSUME NEW i \in 1..n, NEW j \in 1..n, i <= j PROVE CodeAt(i) <= CodeAt(j)
  <2> HIDE DEF CodeAt, n
  <2>1. CASE i = j
    BY <2>1, <1>2
  <2>2. CASE i # j
    <3>1. i < j
      BY <2>2, <1>5
    <3> QED
      BY <3>1, <1>4
  <2> QED
    BY <2>1, <2>2
<1> QED
  BY <1>5 DEF SortedIn

\* A search that is no hit ends where the key belongs.
LEMMA MissFits ==
    ASSUME NEW h, NEW L, NEW X, NEW Z, NEW Y, Books(h, L, X, Z, Y), NEW t \in Tables, NEW key \in Keys,
           ~Find(h, t, key).hit
    PROVE  PlaceFits(h, t, Find(h, t, key).at, key)
<1> DEFINE n == Len(h.items[t])
           found == Find(h, t, key)
           CodeAt(i) == Hash(h, t, i)
<1>1. h \in Heap /\ t \in Objects /\ \A i \in 1..n : h.items[t][i].key \in Keys
  BY KeysThere
<1>2. \A i \in 1..n : CodeAt(i) = HashOf[h.items[t][i].key] /\ CodeAt(i) \in Nat
  <2>1. HashOf \in [Keys -> Nat]
    BY ContainersAssumption
  <2> QED
    BY <1>1, <2>1 DEF Hash
<1>3. HashOf[key] \in Nat
  BY ContainersAssumption
<1>4. SortedIn(h, t)
  BY TablesSorted
<1>5. \A i \in 1..n : /\ h.items[t][i].key # key
                      /\ i < found.at => CodeAt(i) < HashOf[key]
                      /\ i >= found.at => CodeAt(i) >= HashOf[key]
  BY <1>1, <1>4, FindDoes
<1>6. found.at \in 1..n + 1
  BY <1>1, FindDoes
<1> HIDE DEF found, CodeAt
<1>7. ASSUME NEW i \in 1..n
      PROVE  /\ h.items[t][i].key # key
             /\ i < found.at => HashOf[h.items[t][i].key] <= HashOf[key]
             /\ ~(i < found.at) => HashOf[key] <= HashOf[h.items[t][i].key]
  <2> HIDE DEF n
  <2>1. ~(i < found.at) => i >= found.at
    BY <1>6
  <2>2. /\ CodeAt(i) >= HashOf[key] => HashOf[key] <= CodeAt(i)
        /\ CodeAt(i) < HashOf[key] => CodeAt(i) <= HashOf[key]
    BY <1>2, <1>3
  <2> QED
    BY <1>2, <1>5, <2>1, <2>2
<1> QED
  BY <1>7 DEF PlaceFits, found

\* t.key = v
LEMMA TableSetDoes ==
    ASSUME NEW h, NEW L, Books(h, L, {}, {}, {}), NEW t \in L, t \in Tables,
           NEW key \in Keys, NEW v, Operand(v, L)
    PROVE  Books(TableSet(h, t, key, v), L, {}, {}, {})
<1> DEFINE n == Len(h.items[t])
           found == Find(h, t, key)
           none == {}
<1>1. h \in Heap /\ t \in Objects /\ \A i \in 1..n : h.items[t][i].key \in Keys
  BY KeysThere
<1>2. /\ found.hit \in BOOLEAN /\ found.at \in 1..n + 1
      /\ found.hit => found.at \in 1..n
  BY <1>1, FindDoes
<1>3. t \notin Files
  BY Kinds
<1>4. TableSet(h, t, key, v) = IF found.hit THEN Replaced(h, t, found.at, v)
                                           ELSE Inserted(h, t, found.at, key, v)
  BY DEF TableSet
<1>5. Copied(h, <<t, found.at>>, v)
  <2>1. Books(h, L, none, {}, {})
    OBVIOUS
  <2>2. \A f \in Files : <<t, found.at>> = <<f, 1>> => FileValue(v)
    BY <1>3
  <2> HIDE DEF none, found
  <2> QED
    BY <2>1, <2>2, OperandCopied
<1> HIDE DEF found
<1>6. CASE found.hit
  BY <1>2, <1>3, <1>4, <1>6, ReplacedDoes
<1>7. CASE ~found.hit
  <2>0. PlaceFits(h, t, found.at, key)
    BY <1>7, MissFits DEF found
  <2>1. Books(Inserted(h, t, found.at, key, v), L, {}, {}, {})
    BY <1>2, <1>5, <2>0, InsertedDoes
  <2> QED
    BY <2>1, <1>4, <1>7
<1> QED
  BY <1>6, <1>7

\* What there is at a place can be copied to another one.
LEMMA ValueCopied ==
    ASSUME NEW h, NEW L, NEW X, Books(h, L, X, {}, {}), NEW q \in Places(h), q \notin X,
           NEW p, \A f \in Files : p # <<f, 1>>
    PROVE  Copied(h, p, ValueAt(h, q))
<1> DEFINE v == ValueAt(h, q)
<1>1. h \in Heap
  BY DEF Books
<1>2. v \in Value
  BY <1>1, PlacesAre
<1>3. v.kind = "weak" => v.o \in h.live
  BY BooksSay
<1>4. v.kind = "strong" => v.o \in h.live
  BY BooksSay
<1> HIDE DEF v
<1>5. v = Nil \/ (v.kind = "strong" /\ v = Strong(v.o)) \/ v.kind = "weak"
  BY <1>2, ValueFacts
<1> QED
  BY <1>3, <1>4, <1>5 DEF Copied, v

\* An item of a table is added to another table.
LEMMA AddItemDoes ==
    ASSUME NEW h, NEW L, Books(h, L, {}, {}, {}), NEW t \in L, t \in Tables,
           NEW u \in L, u \in Tables, t # u, NEW i \in 1..Len(h.items[u])
    PROVE  LET g == AddItem(h, t, u, i)
           IN  Books(g, L, {}, {}, {}) /\ Len(g.items[u]) = Len(h.items[u])
<1> DEFINE n == Len(h.items[t])
           item == h.items[u][i]
           key == item.key
           found == Find(h, t, key)
           p == <<t, found.at>>
           q == <<u, i>>
           cleared == DisownAt(Disown, h, p)
           none == {}
<1>1. h \in Heap /\ t \in Objects /\ \A j \in 1..n : h.items[t][j].key \in Keys
  BY KeysThere
<1>2. u \in Objects /\ key \in Keys
  BY KeysThere
<1>3. /\ found.hit \in BOOLEAN /\ found.at \in 1..n + 1
      /\ found.hit => found.at \in 1..n
  BY <1>1, <1>2, FindDoes
<1>4. \A f \in Files : \A j : <<t, j>> # <<f, 1>>
  BY Kinds
<1>5. q \in Places(h) /\ ValueAt(h, q) = item.value
  BY <1>1, <1>2, PlacesAre
<1>6. AddItem(h, t, u, i) = IF found.hit THEN Copy(cleared, p, ValueAt(cleared, q))
                                         ELSE Inserted(h, t, found.at, key, item.value)
  BY DEF AddItem
<1>7. Books(h, L, none, {}, {}) /\ q \notin none
  OBVIOUS
<1>8. \A f \in Files : p # <<f, 1>>
  BY <1>4
<1>9. p # q
  OBVIOUS
<1> HIDE DEF found, none, q, cleared
<1>10. CASE found.hit
  <2>1. p \in Places(h) /\ Len(p) = 2 /\ p[1] \in L
    BY <1>1, <1>3, <1>10, PlacesAre
  <2> HIDE DEF p
  <2>2. Books(cleared, L, {p}, {}, {}) /\ Fades(h, cleared)
    BY <2>1, PlaceDisowned DEF cleared
  <2>3. u \in cleared.live /\ cleared \in Heap
    BY <2>2, BooksSay
  <2>4. Len(cleared.items[u]) = Len(h.items[u]) /\ cleared.live \subseteq h.live
    BY <2>2, <2>3, <1>2 DEF Fades
  <2>5. q \in Places(cleared) /\ q \notin {p}
    BY <2>3, <2>4, <1>2, <1>9, PlacesAre DEF q
  <2>6. p \in Places(cleared)
    <3>1. t \in cleared.live
      BY <2>2, BooksSay
    <3>2. Len(cleared.items[t]) = n
      BY <3>1, <2>2, <1>1 DEF Fades
    <3> QED
      BY <3>2, <2>3, <1>1, <1>3, <1>10, PlacesAre DEF p
  <2>7. Copied(cleared, p, ValueAt(cleared, q))
    <3> DEFINE X == {p}
    <3>1. Books(cleared, L, X, {}, {}) /\ q \notin X
      BY <2>2, <2>5
    <3> HIDE DEF X
    <3> QED
      BY <3>1, <2>5, <1>8, ValueCopied
  <2> DEFINE g == Copy(cleared, p, ValueAt(cleared, q))
  <2>8. Books(g, L, {}, {}, {}) /\ OnlyAt(g, cleared, p)
    BY <2>2, <2>6, <2>7, CopyDoes
  <2>9. Len(g.items[u]) = Len(cleared.items[u])
    BY <2>8, <1>2 DEF OnlyAt, SameLayout
  <2> QED
    BY <2>4, <2>8, <2>9, <1>6, <1>10
<1>11. CASE ~found.hit
  <2> DEFINE g == Inserted(h, t, found.at, key, item.value)
  <2>1. Copied(h, p, ValueAt(h, q))
    <3> HIDE DEF p
    <3> QED
      BY <1>5, <1>7, <1>8, ValueCopied
  <2>2. Copied(h, <<t, found.at>>, item.value)
    BY <2>1, <1>5
  <2>2a. PlaceFits(h, t, found.at, key)
    BY <1>2, <1>11, MissFits DEF found
  <2>3. Books(g, L, {}, {}, {}) /\ Longer(h, g, t, 1)
    BY <2>2, <2>2a, <1>2, <1>3, InsertedDoes
  <2>4. Len(g.items[u]) = Len(h.items[u])
    BY <2>3, <1>2 DEF Longer
  <2> QED
    BY <2>3, <2>4, <1>6, <1>11
<1> QED
  BY <1>10, <1>11

\* The loop of insert_items, for two tables.
LEMMA ItemsAddedDoes ==
    ASSUME NEW h, NEW L, Books(h, L, {}, {}, {}), NEW t \in L, t \in Tables,
           NEW u \in L, u \in Tables, t # u
    PROVE  Books(ItemsAdded(h, t, u), L, {}, {}, {})
<1> DEFINE N == Len(h.items[u])
           S == {g \in Heap : Books(g, L, {}, {}, {}) /\ Len(g.items[u]) = N}
           J == [n \in 0..N |-> S]
<1>1. h \in Heap /\ u \in Objects
  BY KeysThere
<1>2. N \in Nat
  BY <1>1, HeapFields
<1>3. h \in J[0]
  BY <1>1, <1>2
<1>4. ASSUME NEW n \in 1..N, NEW g \in J[n - 1]
      PROVE  AddItem(g, t, u, n) \in J[n]
  <2>1. Books(g, L, {}, {}, {}) /\ n \in 1..Len(g.items[u])
    BY <1>2, <1>4
  <2> DEFINE k == AddItem(g, t, u, n)
  <2>2. Books(k, L, {}, {}, {}) /\ Len(k.items[u]) = Len(g.items[u])
    BY <2>1, AddItemDoes
  <2>3. k \in Heap
    BY <2>2 DEF Books
  <2>4. Len(g.items[u]) = N /\ n \in 0..N
    BY <1>2, <1>4
  <2> QED
    BY <2>2, <2>3, <2>4
<1>5. ItemsAdded(h, t, u) \in J[N]
  <2> HIDE DEF J
  <2> QED
    BY <1>2, <1>3, <1>4, ItemsAddedLoop
<1> QED
  BY <1>2, <1>5

-----------------------------------------------------------------------------
(* Blocks and positions.                                                    *)

\* Nothing but blocks and positions is changed.
OnlyBlocks(h, g) ==
    /\ g.live = h.live /\ g.count = h.count /\ g.keys = h.keys /\ g.refs = h.refs
    /\ g.room = h.room /\ g.static = h.static /\ g.items = h.items /\ g.size = h.size

\* Changing blocks and positions only does not touch the books of references.
LEMMA BlocksChanged ==
    ASSUME NEW h, NEW L, NEW X, NEW Z, NEW Y, Books(h, L, X, Z, Y),
           NEW g \in Heap, OnlyBlocks(h, g),
           \A b \in Vectors \union Dstrings : b \in h.live => FitsFor(b, g.block[b]),
           \A b \in Vectors \union Dstrings : b \notin h.live => g.block[b] = h.block[b]
    PROVE  Books(g, L, X, Z, Y)
<1>1. /\ g.live = h.live /\ g.count = h.count /\ g.keys = h.keys /\ g.refs = h.refs
      /\ g.room = h.room /\ g.static = h.static /\ g.items = h.items /\ g.size = h.size
  BY DEF OnlyBlocks
<1>2. /\ h \in Heap /\ Wiring(h) /\ RoomForRefs(h) /\ Counted(h, L, X, Z) /\ Living(h, Y)
      /\ Stale(h, L, X, Z, Y) /\ Shapes(h) /\ BlocksFit(h)
  BY DEF Books
<1>3. Places(g) = Places(h) /\ Slots(g) = Slots(h) /\ KeyAt(g) = KeyAt(h)
  BY <1>1 DEF Places, Slots, KeyAt
<1>4. \A p : ValueAt(g, p) = ValueAt(h, p)
  BY <1>1 DEF ValueAt
<1>5. Wiring(g)
  BY <1>1, <1>2, <1>3, <1>4, WiringSame
<1>6. RoomForRefs(g)
  BY <1>1, <1>2 DEF RoomForRefs
<1>7. Counted(g, L, X, Z)
  <2>1. \A o : Owners(g, X, o) = Owners(h, X, o)
    BY <1>3, <1>4 DEF Owners
  <2>2. \A k : Holders(g, Z, k) = Holders(h, Z, k)
    BY <1>3 DEF Holders
  <2> QED
    BY <2>1, <2>2, <1>1, <1>2 DEF Counted
<1>8. Living(g, Y)
  <2>1. Positive(g) = Positive(h)
    BY <1>1 DEF Positive
  <2> QED
    BY <2>1, <1>1, <1>2 DEF Living
<1>9. Stale(g, L, X, Z, Y)
  BY <1>2, <1>3, <1>4 DEF Stale
<1>10. Shapes(g)
  BY <1>1, <1>2 DEF Shapes
<1>11. BlocksFit(g)
  BY <1>1, <1>2 DEF BlocksFit, FitsFor
<1>12. Ordered(g)
  BY <1>1, OrderKept DEF Books
<1> QED
  BY <1>2, <1>5, <1>6, <1>7, <1>8, <1>9, <1>10, <1>11, <1>12 DEF Books

BlockSet(h, d, b) == [h EXCEPT !.block[d] = b]

\* A vector or dynamic string gets a new block.
LEMMA BlockSetDoes ==
    ASSUME NEW h, NEW L, Books(h, L, {}, {}, {}), NEW d \in Vectors \union Dstrings, d \in h.live,
           NEW b, FitsFor(d, b)
    PROVE  Books(BlockSet(h, d, b), L, {}, {}, {})
<1> DEFINE g == BlockSet(h, d, b)
           blocks == [h.block EXCEPT ![d] = b]
<1>1. h \in Heap /\ h.block \in [Vectors \union Dstrings -> Blocks] /\ b \in Blocks /\ BlocksFit(h)
  BY HeapFields DEF Books, FitsFor
<1>2. blocks \in [Vectors \union Dstrings -> Blocks]
  BY <1>1
<1>3. g = [h EXCEPT !.block = blocks]
  BY DEF BlockSet
<1> HIDE DEF blocks
<1>4. g \in Heap /\ OnlyBlocks(h, g) /\ g.block = blocks
  BY <1>1, <1>2, <1>3 DEF Heap, OnlyBlocks
<1> HIDE DEF g
<1>5. \A e \in Vectors \union Dstrings : g.block[e] = IF e = d THEN b ELSE h.block[e]
  BY <1>1, <1>4 DEF blocks
<1>6. \A e \in Vectors \union Dstrings : e \in h.live => FitsFor(e, g.block[e])
  BY <1>1, <1>5 DEF BlocksFit, FitsFor
<1>7. \A e \in Vectors \union Dstrings : e \notin h.live => g.block[e] = h.block[e]
  BY <1>5
<1> QED
  BY <1>4, <1>6, <1>7, BlocksChanged DEF g

At0(h, f, n) == [h EXCEPT !.position[f] = n]

\* Nor does the position of a file.
LEMMA PositionDoes ==
    ASSUME NEW h, NEW L, NEW X, NEW Z, NEW Y, Books(h, L, X, Z, Y), NEW f \in Files, NEW n \in Nat
    PROVE  Books(At0(h, f, n), L, X, Z, Y)
<1> DEFINE g == At0(h, f, n)
           positions == [h.position EXCEPT ![f] = n]
<1>1. h \in Heap /\ h.position \in [Files -> Nat] /\ BlocksFit(h)
      /\ h.block \in [Vectors \union Dstrings -> Blocks]
  BY HeapFields DEF Books
<1>2. positions \in [Files -> Nat]
  BY <1>1
<1>3. g = [h EXCEPT !.position = positions]
  BY DEF At0
<1> HIDE DEF positions
<1>4. g \in Heap /\ OnlyBlocks(h, g) /\ g.block = h.block
  BY <1>1, <1>2, <1>3 DEF Heap, OnlyBlocks
<1> HIDE DEF g
<1>6. \A e \in Vectors \union Dstrings : e \in h.live => FitsFor(e, g.block[e])
  BY <1>1, <1>4 DEF BlocksFit, FitsFor
<1>7. \A e \in Vectors \union Dstrings : e \notin h.live => g.block[e] = h.block[e]
  BY <1>4
<1> QED
  BY <1>4, <1>6, <1>7, BlocksChanged DEF g

\* A new vector or dynamic string.
LEMMA BufferMade ==
    ASSUME NEW h, NEW L, Books(h, L, {}, {}, {}), NEW o \in Vectors \union Dstrings, o \notin h.live,
           NEW b, FitsFor(o, b)
    PROVE  LET g == [Allocated(h, o, 0) EXCEPT !.block[o] = b]
           IN  Books(g, L \union {o}, {}, {}, {}) /\ o \notin L
<1> DEFINE g == [Allocated(h, o, 0) EXCEPT !.block[o] = b]
           blocks == [h.block EXCEPT ![o] = b]
           counts == [h.count EXCEPT ![o] = 1]
           sizes == [h.size EXCEPT ![o] = 0]
<1>0. h \in Heap /\ Living(h, {})
  BY DEF Books
<1>1. o \in Objects /\ o \notin Files
  BY Kinds
<1>2. Len(h.items[o]) = 0
  BY <1>0, <1>1 DEF Living
<1>3. /\ h.live \in SUBSET Objects /\ h.count \in [Objects -> Int] /\ h.size \in [Objects -> Nat]
      /\ h.block \in [Vectors \union Dstrings -> Blocks]
  BY <1>0, HeapFields
<1>4. g = [h EXCEPT !.live = h.live \union {o}, !.count = counts, !.size = sizes, !.block = blocks]
  BY DEF Allocated
<1>5. counts \in [Objects -> Int]
  <2>1. 1 \in Int
    OBVIOUS
  <2> QED
    BY <2>1, <1>1, <1>3
<1>6. sizes \in [Objects -> Nat]
  BY <1>1, <1>3
<1>7. blocks \in [Vectors \union Dstrings -> Blocks]
  BY <1>3 DEF FitsFor
<1>8. h.live \union {o} \in SUBSET Objects
  BY <1>1, <1>3
<1> HIDE DEF g, counts, sizes, blocks
<1>9. /\ g \in Heap /\ g.live = h.live \union {o} /\ g.count = counts
      /\ g.size = sizes /\ g.items = h.items
      /\ g.keys = h.keys /\ g.static = h.static /\ g.refs = h.refs /\ g.room = h.room
      /\ g.block = blocks
  BY <1>4, <1>5, <1>6, <1>7, <1>8, <1>0 DEF Heap
<1>10. \A q \in Objects : g.count[q] = IF q = o THEN 1 ELSE h.count[q]
  BY <1>3, <1>9 DEF counts
<1>11. g.size[o] = 0 /\ \A d \in Objects : d # o => g.size[d] = h.size[d]
  BY <1>1, <1>3, <1>9 DEF sizes
<1>12. g.block[o] = b /\ \A e \in Vectors \union Dstrings : e # o => g.block[e] = h.block[e]
  BY <1>3, <1>9 DEF blocks
<1>13. Born(h, g, o)
  BY <1>1, <1>2, <1>9, <1>10, <1>11, <1>12 DEF Born
<1>14. Books(g, L \union {o}, {}, {}, {}) /\ o \notin L
  BY <1>13, BornDoes
<1> QED
  BY <1>14 DEF g

\* What a statement reads gets a reference from the limbo list.
InUse(used, L) == L \subseteq heap.live /\ \A o \in Objects : o \in Range(used) <=> o \in L
SameButCounts(h, g) ==
    /\ g.live = h.live /\ g.keys = h.keys /\ g.refs = h.refs
    /\ g.room = h.room /\ g.static = h.static /\ g.items = h.items /\ g.size = h.size
    /\ g.block = h.block /\ g.position = h.position

\* The registers own what a statement uses.
LEMMA UsingDoes ==
    ASSUME Books(heap, {}, {}, {}, {}), NEW used, NEW L, InUse(used, L)
    PROVE  Books(Using(used), L, {}, {}, {}) /\ SameButCounts(heap, Using(used))
<1> DEFINE g == Using(used)
           counts == [o \in Objects |-> IF o \in Range(used) THEN heap.count[o] + 1 ELSE heap.count[o]]
<1>1. heap \in Heap /\ heap.count \in [Objects -> Int] /\ heap.live \in SUBSET Objects
  BY HeapFields DEF Books
<1>2. counts \in [Objects -> Int]
  BY <1>1
<1>3. g = [heap EXCEPT !.count = counts]
  BY DEF Using
<1>4. \A o \in Objects : counts[o] = heap.count[o] + OneIf(o \in L)
  BY <1>1 DEF InUse, OneIf
<1> HIDE DEF g, counts
<1>5. g \in Heap /\ g.count = counts /\ SameButCounts(heap, g)
  BY <1>1, <1>2, <1>3 DEF Heap, SameButCounts
<1>6. /\ g.live = heap.live /\ g.keys = heap.keys /\ g.refs = heap.refs
      /\ g.room = heap.room /\ g.static = heap.static /\ g.items = heap.items /\ g.size = heap.size
      /\ g.block = heap.block /\ g.position = heap.position
  BY <1>5 DEF SameButCounts
<1>7. Places(g) = Places(heap) /\ Slots(g) = Slots(heap) /\ KeyAt(g) = KeyAt(heap)
  BY <1>6 DEF Places, Slots, KeyAt
<1>8. \A p : ValueAt(g, p) = ValueAt(heap, p)
  BY <1>6 DEF ValueAt
<1>9. /\ Wiring(heap) /\ RoomForRefs(heap) /\ Counted(heap, {}, {}, {}) /\ Living(heap, {})
      /\ Shapes(heap)
  BY DEF Books
<1>10. Wiring(g)
  BY <1>6, <1>7, <1>8, <1>9, WiringSame
<1>11. RoomForRefs(g)
  BY <1>6, <1>9 DEF RoomForRefs
<1>12. SameLayout(g, heap) /\ SameBlocks(g, heap)
  BY <1>6, <1>7 DEF SameLayout, SameBlocks
<1>13. \A o \in Objects \ heap.live : Len(g.refs[o]) = 0
  BY <1>6, <1>9 DEF Living
<1>14. \A o \in Objects : heap.count[o] = Cardinality(Owners(heap, {}, o))
                         /\ Owners(g, {}, o) = Owners(heap, {}, o)
                         /\ Cardinality(Owners(heap, {}, o)) \in Nat
  <2>1. \A o \in Objects : heap.count[o] = Cardinality(Owners(heap, {}, o)) + OneIf(o \in {})
    BY <1>9 DEF Counted
  <2>2. \A o : Cardinality(Owners(heap, {}, o)) \in Nat
    BY <1>1, OwnersFinite
  <2>3. \A o : Owners(g, {}, o) = Owners(heap, {}, o)
    BY <1>7, <1>8 DEF Owners
  <2>4. \A o \in Objects : heap.count[o] = Cardinality(Owners(heap, {}, o))
    BY <2>1, <2>2 DEF OneIf
  <2> QED
    BY <2>2, <2>3, <2>4
<1>15. \A o \in Objects : g.count[o] = Cardinality(Owners(g, {}, o)) + OneIf(o \in L)
  BY <1>4, <1>5, <1>14
<1>16. \A o \in Objects : g.count[o] > 0 <=> heap.count[o] > 0
  <2>1. \A o \in L : heap.count[o] > 0
    BY <1>1, <1>9 DEF Living, Positive, InUse
  <2> QED
    BY <2>1, <1>1, <1>4, <1>5 DEF OneIf
<1>17. L \subseteq Objects
  BY <1>1 DEF InUse
<1>18. \A f \in Files : f \in heap.live => FileValue(ValueAt(g, <<f, 1>>))
  <2> SUFFICES ASSUME NEW f \in Files, f \in heap.live PROVE FileValue(ValueAt(g, <<f, 1>>))
    OBVIOUS
  <2>1. f \in Objects /\ Len(heap.items[f]) = 1 /\ FileValue(heap.items[f][1].value)
    BY <1>9, Kinds DEF Shapes
  <2>2. ValueAt(heap, <<f, 1>>) = heap.items[f][1].value
    BY <1>1, <2>1, PlacesAre
  <2> QED
    BY <2>1, <2>2, <1>8
<1>19. Books(g, L, {}, {}, {})
  <2> DEFINE none == {}
  <2>1. none \subseteq Places(heap) /\ (\A p \in none : ValueAt(g, p).kind # "weak") /\ HeldBy(none, L)
    BY DEF HeldBy
  <2>2. \A o \in Objects : g.count[o] = Cardinality(Owners(g, none, o)) + OneIf(o \in L)
    BY <1>15
  <2>3. Books(heap, {}, {}, none, {})
    OBVIOUS
  <2> HIDE DEF none
  <2>4. Books(g, L, none, none, {})
    BY <1>5, <1>6, <1>10, <1>11, <1>12, <1>13, <1>16, <1>17, <1>18, <2>1, <2>2, <2>3, Rebooked
  <2> QED
    BY <2>4 DEF none
<1> QED
  BY <1>5, <1>19 DEF g

-----------------------------------------------------------------------------
(* Statements: what is used, and the limbo list.                            *)

\* Each object of L is in the limbo list, once.
Drains(limbo, L) ==
    /\ Len(limbo) \in Nat
    /\ \A i \in 1..Len(limbo) : limbo[i] \in L
    /\ \A i, j \in 1..Len(limbo) : limbo[i] = limbo[j] => i = j
    /\ \A o \in L : \E i \in 1..Len(limbo) : limbo[i] = o

\* The function returns.
LEMMA ReturnedDoes ==
    ASSUME NEW h, NEW L, Books(h, L, {}, {}, {}), NEW limbo, Drains(limbo, L)
    PROVE  Books(Returned(h, limbo), {}, {}, {}, {})
<1> DEFINE N == Len(limbo)
           Left(n) == L \ {limbo[j] : j \in 1..n}
           J == [n \in 0..N |-> {g \in Heap : Books(g, Left(n), {}, {}, {})}]
<1>1. N \in Nat /\ h \in Heap
  BY DEF Drains, Books
<1>2. h \in J[0]
  <2>1. 1..0 = {}
    OBVIOUS
  <2>2. Left(0) = L
    BY <2>1
  <2> HIDE DEF Left
  <2>3. Books(h, Left(0), {}, {}, {})
    BY <2>2
  <2> QED
    BY <1>1, <2>3
<1>3. ASSUME NEW n \in 1..N, NEW g \in J[n - 1]
      PROVE  Disown[limbo[n]][g] \in J[n]
  <2>1. n \in 0..N /\ n - 1 \in 0..N /\ n \in Nat
    BY <1>1
  <2> DEFINE M == Left(n - 1)
             o == limbo[n]
             k == Disown[o][g]
  <2>2. g \in Heap /\ Books(g, M, {}, {}, {})
    BY <2>1
  <2>3. o \in M
    <3>1. o \in L
      BY DEF Drains
    <3>2. \A j \in 1..n - 1 : limbo[j] # o
      <4> SUFFICES ASSUME NEW j \in 1..n - 1, limbo[j] = o PROVE FALSE
        OBVIOUS
      <4>1. j \in 1..N /\ j # n
        BY <1>1, <2>1
      <4> QED
        BY <4>1 DEF Drains
    <3> QED
      BY <3>1, <3>2
  <2>4. M \ {o} = Left(n)
    <3>1. 1..n = 1..n - 1 \union {n}
      BY <2>1
    <3> QED
      BY <3>1
  <2> HIDE DEF M, Left, o
  <2>5. Books(k, M \ {o}, {}, {}, {})
    BY <2>2, <2>3, DisownDoes
  <2>6. Books(k, Left(n), {}, {}, {}) /\ k \in Heap
    BY <2>4, <2>5 DEF Books
  <2> QED
    BY <2>1, <2>6 DEF o
<1>4. Returned(h, limbo) \in J[N]
  <2> HIDE DEF J
  <2> QED
    BY <1>1, <1>2, <1>3, ReturnedLoop
<1>5. Left(N) = {}
  BY DEF Drains
<1> HIDE DEF Left
<1>6. Books(Returned(h, limbo), Left(N), {}, {}, {})
  BY <1>1, <1>4
<1> QED
  BY <1>5, <1>6

\* used are at most two objects, which are those of L.
Reads(used, L) ==
    \/ used = << >> /\ L = {}
    \/ \E a \in Objects : used = <<a>> /\ L = {a}
    \/ \E a, b \in Objects : used = <<a, b>> /\ L = {a, b}
Makes(made, M) ==
    \/ made = << >> /\ M = {}
    \/ \E o \in Objects : made = <<o>> /\ M = {o}

\* What has been read is in use.
LEMMA ReadsUses ==
    ASSUME NEW used, NEW L, Reads(used, L), L \subseteq heap.live
    PROVE  InUse(used, L)
<1>1. \A o \in Objects : o \in Range(used) <=> o \in L
  <2>1. CASE used = << >> /\ L = {}
    BY <2>1 DEF Range
  <2>2. CASE \E a \in Objects : used = <<a>> /\ L = {a}
    <3>1. PICK a \in Objects : used = <<a>> /\ L = {a}
      BY <2>2
    <3>2. DOMAIN used = {1} /\ used[1] = a
      BY <3>1
    <3> QED
      BY <3>1, <3>2 DEF Range
  <2>3. CASE \E a, b \in Objects : used = <<a, b>> /\ L = {a, b}
    <3>1. PICK a, b \in Objects : used = <<a, b>> /\ L = {a, b}
      BY <2>3
    <3>2. DOMAIN used = {1, 2} /\ used[1] = a /\ used[2] = b
      BY <3>1
    <3> QED
      BY <3>1, <3>2 DEF Range
  <2> QED
    BY <2>1, <2>2, <2>3 DEF Reads
<1> QED
  BY <1>1 DEF InUse

\* A short sequence drains the set of its members, if they are different.
LEMMA ShortDrains ==
    /\ Drains(<< >>, {})
    /\ \A a : Drains(<<a>>, {a})
    /\ \A a, b : a # b => Drains(<<a, b>>, {a, b})
    /\ \A a, b, c : a # b /\ a # c /\ b # c => Drains(<<a, b, c>>, {a, b, c})
<1>1. Drains(<< >>, {})
  <2>1. Len(<< >>) = 0
    OBVIOUS
  <2> QED
    BY <2>1 DEF Drains
<1>2. ASSUME NEW a PROVE Drains(<<a>>, {a})
  <2> DEFINE s == <<a>>
  <2>1. Len(s) = 1 /\ s[1] = a
    OBVIOUS
  <2> HIDE DEF s
  <2>2. 1..Len(s) = {1}
    BY <2>1
  <2>3. Drains(s, {a})
    BY <2>1, <2>2 DEF Drains
  <2> QED
    BY <2>3 DEF s
<1>3. ASSUME NEW a, NEW b, a # b PROVE Drains(<<a, b>>, {a, b})
  <2> DEFINE s == <<a, b>>
  <2>1. Len(s) = 2 /\ s[1] = a /\ s[2] = b
    OBVIOUS
  <2> HIDE DEF s
  <2>2. 1..Len(s) = {1, 2}
    BY <2>1
  <2>3. Drains(s, {a, b})
    BY <2>1, <2>2, <1>3 DEF Drains
  <2> QED
    BY <2>3 DEF s
<1>4. ASSUME NEW a, NEW b, NEW c, a # b /\ a # c /\ b # c PROVE Drains(<<a, b, c>>, {a, b, c})
  <2> DEFINE s == <<a, b, c>>
  <2>1. Len(s) = 3 /\ s[1] = a /\ s[2] = b /\ s[3] = c
    OBVIOUS
  <2> HIDE DEF s
  <2>2. 1..Len(s) = {1, 2, 3}
    BY <2>1
  <2>3. Drains(s, {a, b, c})
    BY <2>1, <2>2, <1>4 DEF Drains
  <2> QED
    BY <2>3 DEF s
<1> QED
  BY <1>1, <1>2, <1>3, <1>4

\* Short sequences one after the other.
LEMMA ShortConcat ==
    /\ \A o, a : <<o>> \o <<a>> = <<o, a>>
    /\ \A o, a, b : <<o>> \o <<b, a>> = <<o, b, a>>
<1>1. ASSUME NEW o, NEW a PROVE <<o>> \o <<a>> = <<o, a>>
  <2> DEFINE S == {o, a}
             r == <<o>>
             s == <<a>>
             x == r \o s
  <2>1. r \in Seq(S) /\ s \in Seq(S) /\ Len(r) = 1 /\ Len(s) = 1 /\ r[1] = o /\ s[1] = a
    OBVIOUS
  <2> HIDE DEF S, r, s
  <2>2. x \in Seq(S) /\ Len(x) = 2 /\ \A i \in 1..2 : x[i] = IF i <= 1 THEN r[i] ELSE s[i - 1]
    BY <2>1, ConcatProperties
  <2>3. x[1] = o /\ x[2] = a
    BY <2>1, <2>2
  <2> HIDE DEF x
  <2>4. x = <<o, a>>
    BY <2>2, <2>3 DEF S
  <2> QED
    BY <2>4 DEF x, r, s
<1>2. ASSUME NEW o, NEW a, NEW b PROVE <<o>> \o <<b, a>> = <<o, b, a>>
  <2> DEFINE S == {o, b, a}
             r == <<o>>
             s == <<b, a>>
             x == r \o s
  <2>1. r \in Seq(S) /\ s \in Seq(S) /\ Len(r) = 1 /\ Len(s) = 2 /\ r[1] = o /\ s[1] = b /\ s[2] = a
    OBVIOUS
  <2> HIDE DEF S, r, s
  <2>2. x \in Seq(S) /\ Len(x) = 3 /\ \A i \in 1..3 : x[i] = IF i <= 1 THEN r[i] ELSE s[i - 1]
    BY <2>1, ConcatProperties
  <2>3. x[1] = o /\ x[2] = b /\ x[3] = a
    BY <2>1, <2>2
  <2> HIDE DEF x
  <2>4. x = <<o, b, a>>
    BY <2>2, <2>3 DEF S
  <2> QED
    BY <2>4 DEF x, r, s
<1> QED
  BY <1>1, <1>2

LimboOf(used) == IF Cardinality(Range(used)) < Len(used) THEN <<used[1]>> ELSE Reverse(used)

\* The limbo list of a statement: what it made and what it read, each once.
LEMMA LimboDrains ==
    ASSUME NEW used, NEW L, Reads(used, L), NEW made, NEW M, Makes(made, M),
           \A o \in M : o \notin L
    PROVE  Drains(made \o LimboOf(used), L \union M)
<1>1. \/ LimboOf(used) = << >> /\ L = {}
      \/ \E a \in Objects : LimboOf(used) = <<a>> /\ L = {a}
      \/ \E a, b \in Objects : a # b /\ LimboOf(used) = <<b, a>> /\ L = {a, b}
  <2>1. CASE used = << >> /\ L = {}
    <3>1. Range(used) = {} /\ Len(used) = 0 /\ Reverse(used) = << >>
      BY <2>1 DEF Range, Reverse
    <3>2. Cardinality(Range(used)) = 0
      BY <3>1, FS_EmptySet
    <3> QED
      BY <3>1, <3>2, <2>1 DEF LimboOf
  <2>2. CASE \E a \in Objects : used = <<a>> /\ L = {a}
    <3>1. PICK a \in Objects : used = <<a>> /\ L = {a}
      BY <2>2
    <3>2. DOMAIN used = {1} /\ used[1] = a /\ Len(used) = 1
      BY <3>1
    <3>3. Range(used) = {a} /\ Reverse(used) = <<a>>
      BY <3>1, <3>2 DEF Range, Reverse
    <3>4. Cardinality(Range(used)) = 1
      BY <3>3, FS_Singleton
    <3> QED
      BY <3>1, <3>2, <3>3, <3>4 DEF LimboOf
  <2>3. CASE \E a, b \in Objects : used = <<a, b>> /\ L = {a, b}
    <3>1. PICK a, b \in Objects : used = <<a, b>> /\ L = {a, b}
      BY <2>3
    <3>2. DOMAIN used = {1, 2} /\ used[1] = a /\ used[2] = b /\ Len(used) = 2
      BY <3>1
    <3>3. Range(used) = {a, b}
      BY <3>2 DEF Range
    <3>4. CASE a = b
      <4>1. Range(used) = {a} /\ L = {a}
        BY <3>1, <3>3, <3>4
      <4>2. Cardinality(Range(used)) = 1
        BY <4>1, FS_Singleton
      <4>3. LimboOf(used) = <<a>>
        BY <4>2, <3>2 DEF LimboOf
      <4> QED
        BY <4>1, <4>3
    <3>5. CASE a # b
      <4>1. Cardinality({a, b}) = 2
        <5>1. IsFiniteSet({a}) /\ Cardinality({a}) = 1 /\ b \notin {a} /\ {a, b} = {a} \union {b}
          BY <3>5, FS_Singleton
        <5>2. Cardinality({a} \union {b}) = Cardinality({a}) + 1
          BY <5>1, FS_AddElement
        <5> QED
          BY <5>1, <5>2
      <4>2. ~(Cardinality(Range(used)) < Len(used))
        BY <4>1, <3>2, <3>3
      <4>3. Reverse(used) = <<b, a>>
        BY <3>2 DEF Reverse
      <4> QED
        BY <4>2, <4>3, <3>1, <3>5 DEF LimboOf
    <3> QED
      BY <3>4, <3>5
  <2> QED
    BY <2>1, <2>2, <2>3 DEF Reads
<1>2. CASE made = << >> /\ M = {}
  <2>1. \A s : s = << >> => made \o s = << >>
    BY <1>2
  <2>2. \A a : made \o <<a>> = <<a>>
    BY <1>2
  <2>3. \A a, b : made \o <<b, a>> = <<b, a>>
    BY <1>2
  <2>4. L \union M = L
    BY <1>2
  <2>5. Drains(made \o LimboOf(used), L)
    <3>1. CASE LimboOf(used) = << >> /\ L = {}
      BY <3>1, <2>1, ShortDrains
    <3>2. CASE \E a \in Objects : LimboOf(used) = <<a>> /\ L = {a}
      BY <3>2, <2>2, ShortDrains
    <3>3. CASE \E a, b \in Objects : a # b /\ LimboOf(used) = <<b, a>> /\ L = {a, b}
      <4>1. PICK a, b \in Objects : a # b /\ LimboOf(used) = <<b, a>> /\ L = {a, b}
        BY <3>3
      <4>2. L = {b, a} /\ Drains(<<b, a>>, {b, a})
        BY <4>1, ShortDrains
      <4> QED
        BY <4>1, <4>2, <2>3
    <3> QED
      BY <1>1, <3>1, <3>2, <3>3
  <2> QED
    BY <2>4, <2>5
<1>3. CASE \E o \in Objects : made = <<o>> /\ M = {o}
  <2>0. PICK o \in Objects : made = <<o>> /\ M = {o}
    BY <1>3
  <2>1. made \o << >> = <<o>>
    BY <2>0
  <2>2. \A a : made \o <<a>> = <<o, a>>
    BY <2>0, ShortConcat
  <2>3. \A a, b : made \o <<b, a>> = <<o, b, a>>
    BY <2>0, ShortConcat
  <2>4. o \notin L
    BY <2>0
  <2>5. CASE LimboOf(used) = << >> /\ L = {}
    <3>1. L \union M = {o} /\ made \o LimboOf(used) = <<o>>
      BY <2>5, <2>0, <2>1
    <3> QED
      BY <3>1, ShortDrains
  <2>6. CASE \E a \in Objects : LimboOf(used) = <<a>> /\ L = {a}
    <3>1. PICK a \in Objects : LimboOf(used) = <<a>> /\ L = {a}
      BY <2>6
    <3>2. L \union M = {o, a} /\ made \o LimboOf(used) = <<o, a>> /\ o # a
      BY <3>1, <2>0, <2>2, <2>4
    <3> QED
      BY <3>2, ShortDrains
  <2>7. CASE \E a, b \in Objects : a # b /\ LimboOf(used) = <<b, a>> /\ L = {a, b}
    <3>1. PICK a, b \in Objects : a # b /\ LimboOf(used) = <<b, a>> /\ L = {a, b}
      BY <2>7
    <3>2. L \union M = {o, b, a} /\ made \o LimboOf(used) = <<o, b, a>> /\ o # a /\ o # b
      BY <3>1, <2>0, <2>3, <2>4
    <3>3. Drains(<<o, b, a>>, {o, b, a})
      BY <3>1, <3>2, ShortDrains
    <3> QED
      BY <3>2, <3>3
  <2> QED
    BY <1>1, <2>5, <2>6, <2>7
<1> QED
  BY <1>2, <1>3 DEF Makes

\* A statement that leaves the books in order is one that returns with them so.
LEMMA StatementDoes ==
    ASSUME NEW used, NEW L, Reads(used, L), NEW made, NEW M, Makes(made, M),
           \A o \in M : o \notin L, NEW done, Books(done, L \union M, {}, {}, {}),
           NEW promise, Statement(used, made, done, promise)
    PROVE  Books(heap', {}, {}, {}, {})
<1>1. heap' = Returned(done, made \o LimboOf(used))
  BY DEF Statement, LimboOf
<1>2. Drains(made \o LimboOf(used), L \union M)
  BY LimboDrains
<1> DEFINE all == L \union M
<1>3. Books(done, all, {}, {}, {}) /\ Drains(made \o LimboOf(used), all)
  BY <1>2
<1> HIDE DEF all
<1> QED
  BY <1>1, <1>3, ReturnedDoes

Sound == Books(heap, {}, {}, {}, {})

\* What statements are about: objects that exist, and numbers.
Argument(v) ==
    \/ v = Nil
    \/ v.kind = "number"
    \/ \E o \in heap.live : v = Strong(o) \/ v = Weak(o, Unwired)

UsesSet(v) == IF v.kind \in {"nil", "number"} THEN {} ELSE {v.o}
Ops(c, v) == {c} \union UsesSet(v)

\* What exists are objects.
LEMMA LiveObjects == Sound => heap \in Heap /\ heap.live \subseteq Objects
  BY BooksSay DEF Sound

\* What static variables refer to exists.
LEMMA NamedLive == Sound => Named \subseteq heap.live
<1> SUFFICES ASSUME Sound, NEW s \in Statics, heap.static[s].kind # "nil"
             PROVE  heap.static[s].o \in heap.live
  BY DEF Named
<1> DEFINE p == <<s>>
           none == {}
<1>1. heap \in Heap
  BY LiveObjects
<1>2. p \in Places(heap) /\ ValueAt(heap, p) = heap.static[s] /\ p \notin none
  BY <1>1, PlacesAre
<1>3. Books(heap, {}, none, {}, {})
  BY DEF Sound
<1> HIDE DEF none, p
<1>4. ValueAt(heap, p) \in Value
  BY <1>1, <1>2, PlacesAre
<1>5. ValueAt(heap, p).kind = "weak" => ValueAt(heap, p).o \in heap.live
  BY <1>2, <1>3, BooksSay
<1>6. ValueAt(heap, p).kind = "strong" => ValueAt(heap, p).o \in heap.live
  BY <1>2, <1>3, BooksSay
<1> QED
  BY <1>2, <1>4, <1>5, <1>6, ValueFacts

\* The kinds of the values that are made.
LEMMA Kind ==
    /\ Nil.kind = "nil"
    /\ \A o : Strong(o).kind = "strong" /\ Strong(o).o = o
    /\ \A o : Weak(o, Unwired).kind = "weak" /\ Weak(o, Unwired).o = o
    /\ \A n : Number(n).kind = "number"
  BY DEF Nil, Strong, Weak, Number

\* All that a statement takes as an operand is an argument.
LEMMA Arguments ==
    ASSUME Sound
    PROVE  /\ Argument(Nil)
           /\ \A o \in heap.live : Argument(Strong(o)) /\ Argument(Weak(o, Unwired))
           /\ \A v \in Given : Argument(v) /\ v.kind = "strong" /\ Operand(v, UsesSet(v))
           /\ \A v \in Stored : Argument(v) /\ v.kind # "number"
           /\ \A v \in Single : Argument(v)
<1>1. Named \subseteq heap.live
  BY NamedLive
<1>2. \A o \in heap.live : Argument(Strong(o)) /\ Argument(Weak(o, Unwired))
  BY DEF Argument
<1>3. Argument(Nil) /\ \A n : Argument(Number(n))
  BY Kind DEF Argument
<1>4. \A v \in Given : Argument(v) /\ v.kind = "strong" /\ Operand(v, UsesSet(v))
  <2> SUFFICES ASSUME NEW o \in Named
               PROVE  Argument(Strong(o)) /\ Strong(o).kind = "strong" /\ Operand(Strong(o), UsesSet(Strong(o)))
    BY DEF Given
  <2>1. UsesSet(Strong(o)) = {o}
    BY Kind DEF UsesSet
  <2> QED
    BY <1>1, <1>2, <2>1, Kind DEF Operand
<1>5. \A v \in Stored : Argument(v) /\ v.kind # "number"
  <2> SUFFICES ASSUME NEW v \in Stored PROVE Argument(v) /\ v.kind # "number"
    OBVIOUS
  <2>1. CASE v \in Given
    BY <2>1, <1>4
  <2>2. CASE v \notin Given
    <3>1. PICK o \in Named : v = Weak(o, Unwired)
      BY <2>2 DEF Stored
    <3> QED
      BY <3>1, <1>1, <1>2, Kind
  <2> QED
    BY <2>1, <2>2
<1>6. \A v \in Single : Argument(v)
  BY <1>3 DEF Single
<1> QED
  BY <1>2, <1>3, <1>4, <1>5, <1>6

\* What an argument puts in limbo.
LEMMA UsesAre ==
    ASSUME Sound, NEW v, Argument(v)
    PROVE  /\ UsesSet(v) \subseteq heap.live
           /\ \/ Uses(v) = << >> /\ UsesSet(v) = {}
              \/ Uses(v) = <<v.o>> /\ UsesSet(v) = {v.o} /\ v.o \in Objects
           /\ \A L : UsesSet(v) \subseteq L /\ v.kind # "number" => Operand(v, L)
<1>1. CASE v = Nil \/ v.kind = "number"
  <2>1. Uses(v) = << >> /\ UsesSet(v) = {}
    BY <1>1, Kind DEF Uses, UsesSet
  <2>2. v.kind # "number" => v = Nil
    BY <1>1
  <2> QED
    BY <2>1, <2>2 DEF Operand
<1>2. CASE \E o \in heap.live : v = Strong(o) \/ v = Weak(o, Unwired)
  <2>1. PICK o \in heap.live : v = Strong(o) \/ v = Weak(o, Unwired)
    BY <1>2
  <2>2. v.o = o /\ v.kind \notin {"nil", "number"} /\ o \in Objects
    BY <2>1, Kind, LiveObjects
  <2>3. Uses(v) = <<v.o>> /\ UsesSet(v) = {v.o}
    BY <2>2 DEF Uses, UsesSet
  <2>4. \A L : UsesSet(v) \subseteq L => Operand(v, L)
    BY <2>1, <2>2, <2>3 DEF Operand
  <2> QED
    BY <2>2, <2>3, <2>4
<1> QED
  BY <1>1, <1>2 DEF Argument

\* A statement that reads one argument.
LEMMA ReadOne ==
    ASSUME Sound, NEW v, Argument(v)
    PROVE  /\ Reads(Uses(v), UsesSet(v))
           /\ Books(Using(Uses(v)), UsesSet(v), {}, {}, {})
           /\ SameButCounts(heap, Using(Uses(v)))
<1>1. Reads(Uses(v), UsesSet(v)) /\ UsesSet(v) \subseteq heap.live
  BY UsesAre DEF Reads
<1>2. InUse(Uses(v), UsesSet(v))
  BY <1>1, ReadsUses
<1> QED
  BY <1>1, <1>2, UsingDoes DEF Sound

\* A statement that reads an object and an argument.
LEMMA ReadTwo ==
    ASSUME Sound, NEW c \in heap.live, NEW v, Argument(v)
    PROVE  /\ Reads(Operands(c, v), Ops(c, v))
           /\ Books(Using(Operands(c, v)), Ops(c, v), {}, {}, {})
           /\ SameButCounts(heap, Using(Operands(c, v)))
<1>1. c \in Objects /\ Ops(c, v) \subseteq heap.live
  BY LiveObjects, UsesAre DEF Ops
<1>2. Reads(Operands(c, v), Ops(c, v))
  <2>1. CASE Uses(v) = << >> /\ UsesSet(v) = {}
    <3>1. <<c>> \o << >> = <<c>>
      OBVIOUS
    <3>2. Operands(c, v) = <<c>> /\ Ops(c, v) = {c}
      BY <2>1, <3>1 DEF Operands, Ops
    <3> QED
      BY <3>2, <1>1 DEF Reads
  <2>2. CASE Uses(v) = <<v.o>> /\ UsesSet(v) = {v.o} /\ v.o \in Objects
    <3>1. Operands(c, v) = <<c, v.o>> /\ Ops(c, v) = {c, v.o}
      BY <2>2, ShortConcat DEF Operands, Ops
    <3> QED
      BY <3>1, <1>1, <2>2 DEF Reads
  <2> QED
    BY <2>1, <2>2, UsesAre
<1>3. InUse(Operands(c, v), Ops(c, v))
  BY <1>1, <1>2, ReadsUses
<1> QED
  BY <1>2, <1>3, UsingDoes DEF Sound

\* What an object, read alone, is to a statement.
LEMMA ReadAlone ==
    ASSUME Sound, NEW c \in heap.live
    PROVE  /\ Reads(<<c>>, {c}) /\ Books(Using(<<c>>), {c}, {}, {}, {})
           /\ SameButCounts(heap, Using(<<c>>))
<1>1. Reads(<<c>>, {c}) /\ {c} \subseteq heap.live
  BY LiveObjects DEF Reads
<1>2. InUse(<<c>>, {c})
  BY <1>1, ReadsUses
<1> QED
  BY <1>1, <1>2, UsingDoes DEF Sound

\* A statement that reads two objects.
LEMMA ReadPair ==
    ASSUME Sound, NEW c \in heap.live, NEW d \in heap.live
    PROVE  /\ Reads(<<c, d>>, {c, d}) /\ Books(Using(<<c, d>>), {c, d}, {}, {}, {})
           /\ SameButCounts(heap, Using(<<c, d>>))
<1>1. Reads(<<c, d>>, {c, d}) /\ {c, d} \subseteq heap.live
  BY LiveObjects DEF Reads
<1>2. InUse(<<c, d>>, {c, d})
  BY <1>1, ReadsUses
<1> QED
  BY <1>1, <1>2, UsingDoes DEF Sound

\* A statement that makes nothing new, when its operation keeps the books.
LEMMA StatementSound ==
    ASSUME NEW used, NEW L, Reads(used, L), NEW done, Books(done, L, {}, {}, {}),
           NEW promise, Statement(used, << >>, done, promise)
    PROVE  Sound'
<1> DEFINE M == {}
<1>1. Makes(<< >>, M) /\ L \union M = L /\ \A o \in M : o \notin L
  BY DEF Makes
<1> HIDE DEF M
<1>2. Books(done, L \union M, {}, {}, {})
  BY <1>1
<1>3. Books(heap', {}, {}, {}, {})
  BY <1>1, <1>2, StatementDoes
<1> QED
  BY <1>3 DEF Sound

\* A statement that gives a new object to a static variable.
LEMMA MakeSound ==
    ASSUME NEW used, NEW L, Reads(used, L), NEW o \in Objects, o \notin L, NEW made,
           Books(made, L \union {o}, {}, {}, {}), NEW s \in Statics,
           NEW promise, Statement(used, <<o>>, Store(made, s, Strong(o)), promise)
    PROVE  Sound'
<1> DEFINE M == {o}
           v == Strong(o)
<1>1. Makes(<<o>>, M) /\ \A q \in M : q \notin L
  BY DEF Makes
<1>2. Operand(v, L \union M)
  BY DEF Operand
<1>3. Books(made, L \union M, {}, {}, {})
  OBVIOUS
<1> HIDE DEF M, v
<1>4. Books(Store(made, s, v), L \union M, {}, {}, {})
  BY <1>2, <1>3, StoreDoes
<1>5. Books(heap', {}, {}, {}, {})
  BY <1>1, <1>4, StatementDoes DEF v
<1> QED
  BY <1>5 DEF Sound

\* A statement that changes an array or a table.
LEMMA ChangeSound ==
    ASSUME Sound, NEW c \in heap.live, NEW v, Argument(v), NEW changed,
           Books(changed, Ops(c, v), {}, {}, {}), NEW contents, Change(c, v, changed, contents)
    PROVE  Sound'
<1>1. Reads(Operands(c, v), Ops(c, v))
  BY ReadTwo
<1> QED
  BY <1>1, StatementSound DEF Change

\* s = v and s (=) v
LEMMA AssignSound ==
    ASSUME Sound, NEW s \in Statics, NEW v, Argument(v), v.kind # "number", Assign(s, v)
    PROVE  Sound'
<1>1. /\ Reads(Uses(v), UsesSet(v)) /\ Books(Using(Uses(v)), UsesSet(v), {}, {}, {})
      /\ Operand(v, UsesSet(v))
  BY ReadOne, UsesAre
<1>2. Books(Store(Using(Uses(v)), s, v), UsesSet(v), {}, {}, {})
  BY <1>1, StoreDoes
<1> QED
  BY <1>1, <1>2, StatementSound DEF Assign

\* What is read from a place is an operand.
LEMMA ReadAtIs ==
    ASSUME Sound, NEW p \in Places(heap)
    PROVE  Argument(ReadAt(heap, p)) /\ ReadAt(heap, p).kind # "number"
           /\ (ReadAt(heap, p) = Nil \/ ReadAt(heap, p).kind = "strong")
<1> DEFINE v == ValueAt(heap, p)
           none == {}
<1>1. heap \in Heap /\ Books(heap, {}, none, {}, {}) /\ p \notin none
  BY LiveObjects DEF Sound
<1> HIDE DEF none
<1>2. v \in Value
  BY <1>1, PlacesAre
<1>3. v.kind = "weak" => v.o \in heap.live
  BY <1>1, BooksSay
<1>4. v.kind = "strong" => v.o \in heap.live
  BY <1>1, BooksSay
<1>5. ReadAt(heap, p) = IF v.kind = "nil" THEN Nil ELSE Strong(v.o)
  BY DEF ReadAt
<1>6. v.kind # "nil" => v.o \in heap.live
  BY <1>2, <1>3, <1>4, ValueFacts
<1> HIDE DEF v
<1> QED
  BY <1>5, <1>6, Arguments, Kind

\* s = a[i], s = t.key and s = f.buffer
LEMMA GetSound ==
    ASSUME Sound, NEW c \in heap.live, NEW v, Argument(v), v.kind # "number", NEW s \in Statics,
           NEW promise, Statement(Operands(c, v), << >>, Store(Using(Operands(c, v)), s, v), promise)
    PROVE  Sound'
<1>1. /\ Reads(Operands(c, v), Ops(c, v)) /\ Books(Using(Operands(c, v)), Ops(c, v), {}, {}, {})
  BY ReadTwo
<1>2. Operand(v, Ops(c, v))
  BY UsesAre DEF Ops
<1>3. Books(Store(Using(Operands(c, v)), s, v), Ops(c, v), {}, {}, {})
  BY <1>1, <1>2, StoreDoes
<1> QED
  BY <1>1, <1>3, StatementSound

-----------------------------------------------------------------------------
(* Statements about arrays and tables.                                      *)

\* What an object and an argument put in limbo.
LEMMA OpsAre ==
    /\ \A c : Ops(c, Nil) = {c}
    /\ \A c, o : Ops(c, Strong(o)) = {c, o}
  BY Kind DEF Ops, UsesSet

\* What can be made does not exist yet.
LEMMA SpareAre ==
    ASSUME Sound, NEW set, set \subseteq Objects, NEW o \in Spare(set)
    PROVE  o \in set /\ o \in Objects /\ o \notin heap.live
  BY DEF Spare

\* What can be used exists, and is of its class.
LEMMA NamedAre ==
    ASSUME Sound
    PROVE  /\ \A c \in NamedArrays : c \in heap.live /\ c \in Arrays /\ c \in Objects
           /\ \A c \in NamedTables : c \in heap.live /\ c \in Tables /\ c \in Objects
           /\ \A c \in NamedVectors : c \in heap.live /\ c \in Vectors /\ c \in Objects
           /\ \A c \in NamedDstrings : c \in heap.live /\ c \in Dstrings /\ c \in Objects
           /\ \A c \in NamedFiles : c \in heap.live /\ c \in Files /\ c \in Objects
  BY NamedLive, Kinds DEF NamedArrays, NamedTables, NamedVectors, NamedDstrings, NamedFiles

\* A new array or file with an item that is nil
OneItem(h, o) == [Allocated(h, o, 1) EXCEPT !.items[o] = <<Item(Nil, Nil)>>]

\* The new object is owned by the limbo list only.
LEMMA OneItemDoes ==
    ASSUME NEW h, NEW L, Books(h, L, {}, {}, {}), NEW o \in Arrays \union Files, o \notin h.live
    PROVE  LET g == OneItem(h, o)
           IN  /\ Books(g, L \union {o}, {}, {}, {}) /\ o \notin L
               /\ <<o, 1>> \in Places(g) /\ ValueAt(g, <<o, 1>>) = Nil
               /\ g.live = h.live \union {o}
<1> DEFINE g == OneItem(h, o)
           one == <<Item(Nil, Nil)>>
           items == [h.items EXCEPT ![o] = one]
           counts == [h.count EXCEPT ![o] = 1]
           sizes == [h.size EXCEPT ![o] = 1]
<1>0. h \in Heap /\ Living(h, {})
  BY DEF Books
<1>1. o \in Objects /\ o \notin Vectors \union Dstrings
  BY Kinds
<1>3. /\ h.live \in SUBSET Objects /\ h.count \in [Objects -> Int] /\ h.size \in [Objects -> Nat]
      /\ h.items \in [Objects -> Seq(Items1)]
  BY <1>0, HeapFields
<1>4. g = [h EXCEPT !.live = h.live \union {o}, !.count = counts, !.size = sizes, !.items = items]
  BY DEF Allocated, OneItem
<1>5. counts \in [Objects -> Int]
  <2>1. 1 \in Int
    OBVIOUS
  <2> QED
    BY <2>1, <1>1, <1>3
<1>6. sizes \in [Objects -> Nat]
  BY <1>1, <1>3
<1>7. one \in Seq(Items1) /\ Len(one) = 1 /\ one[1].value = Nil
  <2>1. Item(Nil, Nil) \in Items1
    BY ValueFacts DEF Items1, Item
  <2> QED
    BY <2>1 DEF Item
<1> HIDE DEF one
<1>8. items \in [Objects -> Seq(Items1)]
  BY <1>1, <1>3, <1>7
<1>9. h.live \union {o} \in SUBSET Objects
  BY <1>1, <1>3
<1> HIDE DEF g, counts, sizes, items
<1>10. /\ g \in Heap /\ g.live = h.live \union {o} /\ g.count = counts
      /\ g.size = sizes /\ g.items = items
      /\ g.keys = h.keys /\ g.static = h.static /\ g.refs = h.refs /\ g.room = h.room
      /\ g.block = h.block
  BY <1>4, <1>5, <1>6, <1>8, <1>9, <1>0 DEF Heap, Items1
<1>11. \A q \in Objects : g.count[q] = IF q = o THEN 1 ELSE h.count[q]
  BY <1>3, <1>10 DEF counts
<1>12. g.size[o] = 1 /\ \A d \in Objects : d # o => g.size[d] = h.size[d]
  BY <1>1, <1>3, <1>10 DEF sizes
<1>13. g.items[o] = one /\ \A d \in Objects : d # o => g.items[d] = h.items[d]
  BY <1>1, <1>3, <1>10 DEF items
<1>14. Len(g.items[o]) = 1 /\ g.items[o][1].value = Nil
  BY <1>7, <1>13
<1>15. Born(h, g, o)
  BY <1>1, <1>10, <1>11, <1>12, <1>13, <1>14 DEF Born
<1>16. Books(g, L \union {o}, {}, {}, {}) /\ o \notin L
  BY <1>15, BornDoes
<1>17. 1 \in 1..Len(g.items[o])
  BY <1>14
<1>18. <<o, 1>> \in Places(g) /\ ValueAt(g, <<o, 1>>) = Nil
  BY <1>1, <1>10, <1>14, <1>17, PlacesAre
<1> QED
  BY <1>10, <1>16, <1>18 DEF g

\* s = []
LEMMA MakeArraySound ==
    ASSUME Sound, NEW s \in Statics, NEW o \in Spare(Arrays), MakeArray(s, o)
    PROVE  Sound'
<1> DEFINE L == {}
<1>1. o \in Objects /\ o \in Arrays /\ o \notin heap.live
  BY SpareAre, Kinds
<1>2. Reads(<< >>, L) /\ Books(heap, L, {}, {}, {}) /\ ArrayBase \in Nat
  BY BasesAre DEF Reads, Sound
<1> HIDE DEF L
<1>3. Books(Allocated(heap, o, ArrayBase), L \union {o}, {}, {}, {}) /\ o \notin L
  BY <1>1, <1>2, AllocatedDoes
<1> QED
  BY <1>1, <1>2, <1>3, MakeSound DEF MakeArray, Make

\* s = [v]
LEMMA MakeArrayOfSound ==
    ASSUME Sound, NEW s \in Statics, NEW o \in Spare(Arrays), NEW v \in Given, MakeArrayOf(s, o, v)
    PROVE  Sound'
<1> DEFINE L == UsesSet(v)
           h == Using(Uses(v))
           g == OneItem(h, o)
           p == <<o, 1>>
<1>1. o \in Objects /\ o \in Arrays /\ o \notin heap.live /\ o \notin Files
  BY SpareAre, Kinds
<1>2. Argument(v) /\ v.kind # "number"
  BY Arguments
<1>3. Reads(Uses(v), L) /\ Books(h, L, {}, {}, {}) /\ h.live = heap.live
  BY <1>2, ReadOne DEF SameButCounts
<1>4. Operand(v, L \union {o})
  BY <1>2, UsesAre
<1> HIDE DEF L, h
<1>5. /\ Books(g, L \union {o}, {}, {}, {}) /\ o \notin L
      /\ p \in Places(g) /\ ValueAt(g, p) = Nil
  BY <1>1, <1>3, OneItemDoes
<1>6. Len(p) = 2 /\ p[1] = o /\ \A f \in Files : p # <<f, 1>>
  BY <1>1
<1> HIDE DEF g, p
<1>7. Copied(g, p, v)
  <2> DEFINE M == L \union {o}
             none == {}
  <2>1. Books(g, M, none, {}, {}) /\ Operand(v, M)
    BY <1>4, <1>5
  <2> HIDE DEF M, none
  <2> QED
    BY <2>1, <1>6, OperandCopied
<1>8. Books(Copy(g, p, v), L \union {o}, {}, {}, {})
  BY <1>5, <1>6, <1>7, FilledNil
<1>9. Statement(Uses(v), <<o>>, Store(Copy(g, p, v), s, Strong(o)), P!Created(promised, s, o, <<Abs(v)>>))
  BY DEF MakeArrayOf, Make, g, p, OneItem, h
<1> QED
  BY <1>1, <1>3, <1>5, <1>8, <1>9, MakeSound

\* s = copy(c, from, n), for arrays and tables
LEMMA MakeClonedSound ==
    ASSUME Sound, NEW s \in Statics, NEW o \in Objects, o \in Arrays \union Tables, o \notin heap.live,
           NEW c \in heap.live, o \in Tables => c \in Tables,
           NEW from \in Nat \ {0}, NEW to \in Nat, from <= to + 1, to <= Len(heap.items[c]),
           NEW contents, Make(s, o, <<c>>, Cloned(Using(<<c>>), o, c, from, to), contents)
    PROVE  Sound'
<1> DEFINE L == {c}
           h == Using(<<c>>)
<1>1. Reads(<<c>>, L) /\ Books(h, L, {}, {}, {}) /\ h.live = heap.live /\ h.items = heap.items
  BY ReadAlone DEF SameButCounts
<1>2. c \in Objects
  BY LiveObjects
<1>3. Statement(<<c>>, <<o>>, Store(Cloned(h, o, c, from, to), s, Strong(o)), P!Created(promised, s, o, contents))
  BY DEF Make
<1> HIDE DEF L, h
<1>4. Books(Cloned(h, o, c, from, to), L \union {o}, {}, {}, {}) /\ o \notin L
  BY <1>1, <1>2, ClonedDoes
<1> QED
  BY <1>1, <1>3, <1>4, MakeSound

\* s = a + v
LEMMA MakeLongerSound ==
    ASSUME Sound, NEW s \in Statics, NEW o \in Spare(Arrays), NEW a \in NamedArrays, NEW v \in Given,
           MakeLonger(s, o, a, v)
    PROVE  Sound'
<1> DEFINE L == Ops(a, v)
           h == Using(Operands(a, v))
           n == Len(heap.items[a])
           g == Cloned(h, o, a, 1, n)
<1>1. /\ o \in Objects /\ o \in Arrays /\ o \notin heap.live /\ o \notin Tables
      /\ a \in heap.live /\ a \in Objects /\ a \in Arrays
  BY SpareAre, NamedAre, Kinds
<1>2. Argument(v) /\ v.kind # "number"
  BY Arguments
<1>3. /\ Reads(Operands(a, v), L) /\ Books(h, L, {}, {}, {})
      /\ h.live = heap.live /\ h.items = heap.items
  BY <1>1, <1>2, ReadTwo DEF SameButCounts
<1>4. Operand(v, L \union {o})
  BY <1>2, UsesAre DEF Ops
<1>5. n \in Nat /\ 1 \in Nat \ {0} /\ 1 <= n + 1 /\ n <= Len(h.items[a])
  BY <1>1, <1>3, LiveObjects, HeapFields
<1>6. Statement(Operands(a, v), <<o>>, Store(SetItem(g, o, n + 1, v), s, Strong(o)),
                P!Created(promised, s, o, Append(Contents(a), Abs(v))))
  BY DEF MakeLonger, Make
<1> HIDE DEF L, h, n
<1>7. Books(g, L \union {o}, {}, {}, {}) /\ o \notin L
  BY <1>1, <1>3, <1>5, ClonedDoes
<1> HIDE DEF g
<1> DEFINE M == L \union {o}
<1>8. Books(g, M, {}, {}, {}) /\ o \in M /\ Operand(v, M)
  BY <1>4, <1>7
<1> HIDE DEF M
<1>9. n + 1 \in Nat \ {0}
  BY <1>5
<1>10. Books(SetItem(g, o, n + 1, v), M, {}, {}, {})
  BY <1>1, <1>8, <1>9, SetItemDoes
<1>11. Books(SetItem(g, o, n + 1, v), L \union {o}, {}, {}, {})
  BY <1>10 DEF M
<1> QED
  BY <1>1, <1>3, <1>6, <1>7, <1>11, MakeSound

\* a[i] = v, a[i] (=) v and a.+ v
LEMMA ChangeItemSound ==
    ASSUME Sound, NEW a \in NamedArrays, NEW i \in Nat \ {0}, NEW v \in Stored, ChangeItem(a, i, v)
    PROVE  Sound'
<1> DEFINE L == Ops(a, v)
           h == Using(Operands(a, v))
<1>1. a \in heap.live /\ a \in Arrays /\ Argument(v) /\ v.kind # "number"
  BY NamedAre, Arguments
<1>2. Books(h, L, {}, {}, {}) /\ Operand(v, L) /\ a \in L
  BY <1>1, ReadTwo, UsesAre DEF Ops
<1> HIDE DEF L, h
<1>3. Books(SetItem(h, a, i, v), L, {}, {}, {})
  BY <1>1, <1>2, SetItemDoes
<1> QED
  BY <1>1, <1>3, ChangeSound DEF ChangeItem, L, h

\* insert(a, i, v) and insert(t, key, v)
LEMMA InsertSound ==
    ASSUME Sound, NEW c \in heap.live, c \in Arrays \union Tables, NEW i \in 1..Len(heap.items[c]) + 1,
           NEW key, IF c \in Tables THEN key \in Keys ELSE key = Nil, c \in Tables => PlaceFits(heap, c, i, key),
           NEW v \in Stored, NEW contents,
           Change(c, v, Inserted(Using(Operands(c, v)), c, i, key, v), contents)
    PROVE  Sound'
<1> DEFINE L == Ops(c, v)
           h == Using(Operands(c, v))
           p == <<c, i>>
           none == {}
<1>1. Argument(v) /\ v.kind # "number"
  BY Arguments
<1>2. Books(h, L, {}, {}, {}) /\ Operand(v, L) /\ c \in L /\ h.items = heap.items
  BY <1>1, ReadTwo, UsesAre DEF Ops, SameButCounts
<1>3. \A f \in Files : p # <<f, 1>>
  BY Kinds
<1>4. Books(h, L, none, {}, {})
  BY <1>2
<1> HIDE DEF L, h, p, none
<1>5. Copied(h, p, v)
  BY <1>2, <1>3, <1>4, OperandCopied
<1>6. Copied(h, <<c, i>>, v) /\ i \in 1..Len(h.items[c]) + 1
  BY <1>2, <1>5 DEF p
<1>6a. c \in Tables => PlaceFits(h, c, i, key)
  BY <1>2 DEF PlaceFits
<1>7. Books(Inserted(h, c, i, key, v), L, {}, {}, {})
  BY <1>2, <1>6, <1>6a, InsertedDoes
<1> QED
  BY <1>1, <1>7, ChangeSound DEF L, h

\* delete(c, from, n), for arrays and tables
LEMMA RemoveSound ==
    ASSUME Sound, NEW c \in heap.live, c \in Arrays \union Tables, NEW from \in Nat \ {0}, NEW to \in Nat,
           from <= to + 1, to <= Len(heap.items[c]), NEW contents,
           Change(c, Nil, Removed(Using(<<c>>), c, from, to), contents)
    PROVE  Sound'
<1> DEFINE L == Ops(c, Nil)
           h == Using(<<c>>)
<1>1. L = {c} /\ c \in L
  BY OpsAre
<1>2. Books(h, L, {}, {}, {}) /\ h.items = heap.items
  BY <1>1, ReadAlone DEF SameButCounts
<1> HIDE DEF L, h
<1>3. Books(Removed(h, c, from, to), L, {}, {}, {})
  BY <1>1, <1>2, RemovedDoes
<1> QED
  BY <1>3, Arguments, ChangeSound DEF L, h

\* All items that are an object are deleted from an array.
LEMMA DeleteObjectSound ==
    ASSUME Sound, NEW a \in NamedArrays, NEW o \in Named, DeleteObject(a, o)
    PROVE  Sound'
<1> DEFINE v == Strong(o)
           L == Ops(a, v)
           h == Using(<<a, o>>)
           at == {i \in DOMAIN heap.items[a] : heap.items[a][i].value.kind # "nil"
                                             /\ heap.items[a][i].value.o = o}
           m == Min(at)
<1>1. a \in heap.live /\ a \in Arrays /\ a \in Objects /\ o \in heap.live /\ Argument(v)
  BY NamedAre, NamedLive, Arguments
<1>2. L = {a, o} /\ a \in L
  BY OpsAre
<1>3. Books(h, L, {}, {}, {}) /\ h.items = heap.items
  BY <1>1, <1>2, ReadPair DEF SameButCounts
<1>4. m \in 1..Len(heap.items[a]) /\ m \in Nat \ {0} /\ m <= m + 1
  <2>1. DOMAIN heap.items[a] = 1..Len(heap.items[a]) /\ Len(heap.items[a]) \in Nat
    BY <1>1, LiveObjects, HeapFields
  <2>2. at \subseteq 1..Len(heap.items[a]) /\ at \subseteq Nat /\ at # {}
    BY <2>1 DEF DeleteObject
  <2> HIDE DEF at
  <2>3. m \in at
    BY <2>2, MinIs
  <2> HIDE DEF m
  <2> QED
    BY <2>1, <2>2, <2>3
<1>5. PICK contents : Change(a, v, Removed(h, a, m, m), contents)
  BY DEF DeleteObject
<1> HIDE DEF L, h, m, at, v
<1>6. Books(Removed(h, a, m, m), L, {}, {}, {})
  BY <1>1, <1>2, <1>3, <1>4, RemovedDoes
<1> QED
  BY <1>1, <1>5, <1>6, ChangeSound DEF L

\* The items of an object are places.
LEMMA ItemsOf ==
    ASSUME Sound, NEW c \in heap.live
    PROVE  /\ Len(heap.items[c]) \in Nat /\ DOMAIN heap.items[c] = 1..Len(heap.items[c])
           /\ \A i \in 1..Len(heap.items[c]) :
                i \in Nat \ {0} /\ <<c, i>> \in Places(heap)
<1>1. c \in Objects /\ heap \in Heap
  BY LiveObjects
<1>2. Len(heap.items[c]) \in Nat /\ DOMAIN heap.items[c] = 1..Len(heap.items[c])
  BY <1>1, HeapFields
<1> QED
  BY <1>1, <1>2, PlacesAre

\* Every statement about arrays keeps Sound.
LEMMA ArraySound ==
    ASSUME Sound, ArrayStatement
    PROVE  Sound'
<1>1. ASSUME NEW s \in Statics, NEW a \in NamedArrays, NEW i \in DOMAIN heap.items[a], GetItem(s, a, i)
      PROVE  Sound'
  <2> DEFINE v == ReadAt(heap, <<a, i>>)
  <2>1. a \in heap.live /\ <<a, i>> \in Places(heap)
    BY <1>1, NamedAre, ItemsOf
  <2>2. Argument(v) /\ v.kind # "number"
    BY <2>1, ReadAtIs
  <2>3. PICK promise : Statement(Operands(a, v), << >>, Store(Using(Operands(a, v)), s, v), promise)
    BY <1>1 DEF GetItem
  <2> HIDE DEF v
  <2> QED
    BY <2>1, <2>2, <2>3, GetSound
<1>2. ASSUME NEW s \in Statics, NEW o \in Spare(Arrays), NEW a \in NamedArrays,
             NEW from \in DOMAIN heap.items[a], NEW to \in DOMAIN heap.items[a], from <= to,
             MakeCopy(s, o, a, from, to)
      PROVE  Sound'
  <2>1. a \in heap.live /\ o \in Objects /\ o \in Arrays /\ o \notin heap.live /\ o \notin Tables
    BY NamedAre, SpareAre, Kinds
  <2>2. from \in Nat \ {0} /\ to \in Nat /\ from <= to + 1 /\ to <= Len(heap.items[a])
    BY <1>2, <2>1, ItemsOf
  <2>3. PICK contents : Make(s, o, <<a>>, Cloned(Using(<<a>>), o, a, from, to), contents)
    BY <1>2 DEF MakeCopy
  <2> QED
    BY <2>1, <2>2, <2>3, MakeClonedSound
<1>3. ASSUME NEW a \in NamedArrays, NEW i \in 1..Len(heap.items[a]) + 2, NEW v \in Stored, ChangeItem(a, i, v)
      PROVE  Sound'
  <2>1. a \in heap.live
    BY NamedAre
  <2>2. i \in Nat \ {0}
    BY <2>1, ItemsOf
  <2> QED
    BY <1>3, <2>2, ChangeItemSound
<1>4. ASSUME NEW a \in NamedArrays, NEW i \in 1..Len(heap.items[a]) + 1, NEW v \in Given, InsertItem(a, i, v)
      PROVE  Sound'
  <2>1. a \in heap.live /\ a \in Arrays /\ a \notin Tables /\ v \in Stored
    BY NamedAre, Kinds DEF Stored
  <2>2. PICK contents : Change(a, v, Inserted(Using(Operands(a, v)), a, i, Nil, v), contents)
    BY <1>4 DEF InsertItem
  <2> QED
    BY <2>1, <2>2, InsertSound
<1>5. ASSUME NEW a \in NamedArrays, NEW from \in DOMAIN heap.items[a], NEW to \in DOMAIN heap.items[a],
             from <= to, DeleteItems(a, from, to)
      PROVE  Sound'
  <2>1. a \in heap.live /\ a \in Arrays
    BY NamedAre
  <2>2. from \in Nat \ {0} /\ to \in Nat /\ from <= to + 1 /\ to <= Len(heap.items[a])
    BY <1>5, <2>1, ItemsOf
  <2>3. PICK contents : Change(a, Nil, Removed(Using(<<a>>), a, from, to), contents)
    BY <1>5 DEF DeleteItems
  <2> QED
    BY <2>1, <2>2, <2>3, RemoveSound
<1> QED
  BY <1>1, <1>2, <1>3, <1>4, <1>5, MakeArraySound, MakeArrayOfSound, MakeLongerSound, DeleteObjectSound
     DEF ArrayStatement

\* Where a key is found, in the heap as it is
LEMMA FoundIn ==
    ASSUME Sound, NEW t \in heap.live, t \in Tables, NEW key \in Keys
    PROVE  LET found == Find(heap, t, key)
           IN  /\ found.at \in 1..Len(heap.items[t]) + 1
               /\ found.hit => found.at \in 1..Len(heap.items[t])
<1>1. heap \in Heap /\ t \in Objects /\ \A i \in 1..Len(heap.items[t]) : heap.items[t][i].key \in Keys
  <2> DEFINE none == {}
  <2>1. Books(heap, none, none, none, none)
    BY DEF Sound
  <2> HIDE DEF none
  <2> QED
    BY <2>1, KeysThere
<1> QED
  BY <1>1, FindDoes

\* s = table []
LEMMA MakeTableSound ==
    ASSUME Sound, NEW s \in Statics, NEW o \in Spare(Tables), MakeTable(s, o)
    PROVE  Sound'
<1> DEFINE L == {}
<1>1. o \in Objects /\ o \in Tables /\ o \notin heap.live
  BY SpareAre, Kinds
<1>2. Reads(<< >>, L) /\ Books(heap, L, {}, {}, {})
  BY DEF Reads, Sound
<1> HIDE DEF L
<1>3. Books(Allocated(heap, o, 0), L \union {o}, {}, {}, {}) /\ o \notin L
  BY <1>1, <1>2, AllocatedDoes
<1> QED
  BY <1>1, <1>2, <1>3, MakeSound DEF MakeTable, Make

\* s = table [key, v]
LEMMA MakeTableOfSound ==
    ASSUME Sound, NEW s \in Statics, NEW o \in Spare(Tables), NEW key \in Keys, NEW v \in Given,
           MakeTableOf(s, o, key, v)
    PROVE  Sound'
<1> DEFINE L == UsesSet(v)
           h == Using(Uses(v))
           g == Allocated(h, o, 0)
<1>1. o \in Objects /\ o \in Tables /\ o \notin heap.live
  BY SpareAre, Kinds
<1>2. Argument(v) /\ v.kind # "number"
  BY Arguments
<1>3. Reads(Uses(v), L) /\ Books(h, L, {}, {}, {}) /\ h.live = heap.live
  BY <1>2, ReadOne DEF SameButCounts
<1>4. Operand(v, L \union {o})
  BY <1>2, UsesAre
<1>5. Statement(Uses(v), <<o>>, Store(TableSet(g, o, key, v), s, Strong(o)),
                P!Created(promised, s, o, P!KeySet(P!Empty, key, Abs(v))))
  BY DEF MakeTableOf, Make
<1> HIDE DEF L, h
<1>6. Books(g, L \union {o}, {}, {}, {}) /\ o \notin L
  BY <1>1, <1>3, AllocatedDoes
<1> HIDE DEF g
<1> DEFINE M == L \union {o}
<1>7. Books(g, M, {}, {}, {}) /\ o \in M /\ Operand(v, M)
  BY <1>4, <1>6
<1> HIDE DEF M
<1>8. Books(TableSet(g, o, key, v), M, {}, {}, {})
  BY <1>1, <1>7, TableSetDoes
<1>9. Books(TableSet(g, o, key, v), L \union {o}, {}, {}, {})
  BY <1>8 DEF M
<1> QED
  BY <1>1, <1>3, <1>5, <1>6, <1>9, MakeSound

\* s = t + u: a clone to which the items of the other are added.
LEMMA MakeSumSound ==
    ASSUME Sound, NEW s \in Statics, NEW o \in Spare(Tables), NEW t \in NamedTables, NEW u \in NamedTables,
           MakeSum(s, o, t, u)
    PROVE  Sound'
<1> DEFINE L == {t, u}
           h == Using(<<t, u>>)
           n == Len(heap.items[t])
           g == Cloned(h, o, t, 1, n)
<1>1. /\ o \in Objects /\ o \in Tables /\ o \notin heap.live
      /\ t \in heap.live /\ t \in Objects /\ t \in Tables /\ u \in heap.live /\ u \in Tables /\ o # u
  BY SpareAre, NamedAre, Kinds
<1>2. /\ Reads(<<t, u>>, L) /\ Books(h, L, {}, {}, {})
      /\ h.live = heap.live /\ h.items = heap.items
  BY <1>1, ReadPair DEF SameButCounts
<1>3. n \in Nat /\ 1 \in Nat \ {0} /\ 1 <= n + 1 /\ n <= Len(h.items[t])
  BY <1>1, <1>2, ItemsOf
<1>4. u \in L \union {o}
  OBVIOUS
<1>5. Statement(<<t, u>>, <<o>>, Store(ItemsAdded(g, o, u), s, Strong(o)),
                P!Created(promised, s, o, P!TablesAdded(Contents(t), Contents(u))))
  BY DEF MakeSum, Make
<1> HIDE DEF L, h, n
<1>6. Books(g, L \union {o}, {}, {}, {}) /\ o \notin L
  BY <1>1, <1>2, <1>3, ClonedDoes
<1> HIDE DEF g
<1> DEFINE M == L \union {o}
<1>7. Books(g, M, {}, {}, {}) /\ o \in M /\ u \in M
  BY <1>4, <1>6
<1> HIDE DEF M
<1>8. Books(ItemsAdded(g, o, u), M, {}, {}, {})
  BY <1>1, <1>7, ItemsAddedDoes
<1>9. Books(ItemsAdded(g, o, u), L \union {o}, {}, {}, {})
  BY <1>8 DEF M
<1> QED
  BY <1>1, <1>2, <1>5, <1>6, <1>9, MakeSound

\* t.key = v and t.key (=) v
LEMMA ChangeKeySound ==
    ASSUME Sound, NEW t \in NamedTables, NEW key \in Keys, NEW v \in Stored, ChangeKey(t, key, v)
    PROVE  Sound'
<1> DEFINE L == Ops(t, v)
           h == Using(Operands(t, v))
<1>1. t \in heap.live /\ t \in Tables /\ Argument(v) /\ v.kind # "number"
  BY NamedAre, Arguments
<1>2. Books(h, L, {}, {}, {}) /\ Operand(v, L) /\ t \in L
  BY <1>1, ReadTwo, UsesAre DEF Ops
<1> HIDE DEF L, h
<1>3. Books(TableSet(h, t, key, v), L, {}, {}, {})
  BY <1>1, <1>2, TableSetDoes
<1> QED
  BY <1>1, <1>3, ChangeSound DEF ChangeKey, L, h

\* t.+ u, unless a table is added to itself
LEMMA AddTableSound ==
    ASSUME Sound, NEW t \in NamedTables, NEW u \in NamedTables, t # u, AddTable(t, u)
    PROVE  Sound'
<1> DEFINE v == Strong(u)
           L == Ops(t, v)
           h == Using(<<t, u>>)
<1>1. t \in heap.live /\ t \in Tables /\ u \in heap.live /\ u \in Tables /\ Argument(v)
  BY NamedAre, Arguments
<1>2. L = {t, u} /\ t \in L /\ u \in L
  BY OpsAre
<1>3. Books(h, L, {}, {}, {})
  BY <1>1, <1>2, ReadPair
<1>4. Change(t, v, ItemsAdded(h, t, u), P!TablesAdded(Contents(t), Contents(u)))
  BY DEF AddTable
<1> HIDE DEF L, h, v
<1>5. Books(ItemsAdded(h, t, u), L, {}, {}, {})
  BY <1>1, <1>2, <1>3, ItemsAddedDoes
<1> QED
  BY <1>1, <1>4, <1>5, ChangeSound DEF L

\* Every statement about tables keeps Sound, but for adding to a table what is gone
\* by the time it is read: that is what Risky is about.
LEMMA TableSound ==
    ASSUME Sound, Risky = {}, TableStatement
    PROVE  Sound'
<1>1. ASSUME NEW s \in Statics, NEW t \in NamedTables, NEW key \in Keys, GetKey(s, t, key)
      PROVE  Sound'
  <2> DEFINE at == Find(heap, t, key).at
             v == ReadAt(heap, <<t, at>>)
  <2>1. t \in heap.live /\ t \in Tables
    BY NamedAre
  <2>2. at \in 1..Len(heap.items[t])
    BY <1>1, <2>1, FoundIn DEF GetKey
  <2>3. <<t, at>> \in Places(heap)
    BY <2>1, <2>2, ItemsOf
  <2>4. Argument(v) /\ v.kind # "number"
    BY <2>3, ReadAtIs
  <2>5. PICK promise : Statement(Operands(t, v), << >>, Store(Using(Operands(t, v)), s, v), promise)
    BY <1>1 DEF GetKey
  <2> HIDE DEF v
  <2> QED
    BY <2>1, <2>4, <2>5, GetSound
<1>2. ASSUME NEW s \in Statics, NEW o \in Spare(Tables), NEW t \in NamedTables, MakeClone(s, o, t)
      PROVE  Sound'
  <2>1. t \in heap.live /\ t \in Tables /\ o \in Objects /\ o \in Tables /\ o \notin heap.live
    BY NamedAre, SpareAre, Kinds
  <2> DEFINE n == Len(heap.items[t])
  <2>2. 1 \in Nat \ {0} /\ n \in Nat /\ 1 <= n + 1 /\ n <= Len(heap.items[t])
    BY <2>1, ItemsOf
  <2>3. PICK contents : Make(s, o, <<t>>, Cloned(Using(<<t>>), o, t, 1, n), contents)
    BY <1>2 DEF MakeClone
  <2> HIDE DEF n
  <2> QED
    BY <2>1, <2>2, <2>3, MakeClonedSound
<1>3. ASSUME NEW t \in NamedTables, NEW key \in Keys, NEW v \in Given, InsertKey(t, key, v)
      PROVE  Sound'
  <2> DEFINE at == Find(heap, t, key).at
  <2>1. t \in heap.live /\ t \in Tables /\ v \in Stored
    BY NamedAre DEF Stored
  <2>2. at \in 1..Len(heap.items[t]) + 1
    BY <2>1, FoundIn
  <2>3. PICK contents : Change(t, v, Inserted(Using(Operands(t, v)), t, at, key, v), contents)
    BY <1>3 DEF InsertKey
  <2>4. PlaceFits(heap, t, at, key)
    <3> DEFINE none == {}
    <3>1. Books(heap, none, none, none, none) /\ ~Find(heap, t, key).hit
      BY <1>3 DEF Sound, InsertKey
    <3> HIDE DEF none
    <3> QED
      BY <2>1, <3>1, MissFits
  <2> HIDE DEF at
  <2> QED
    BY <2>1, <2>2, <2>3, <2>4, InsertSound
<1>4. ASSUME NEW t \in NamedTables, NEW key \in Keys, DeleteKey(t, key)
      PROVE  Sound'
  <2> DEFINE at == Find(heap, t, key).at
  <2>1. t \in heap.live /\ t \in Tables
    BY NamedAre
  <2>2. at \in 1..Len(heap.items[t])
    BY <1>4, <2>1, FoundIn DEF DeleteKey
  <2>3. PICK contents : Change(t, Nil, Removed(Using(<<t>>), t, at, at), contents)
    BY <1>4 DEF DeleteKey
  <2> HIDE DEF at
  <2>4. at \in Nat \ {0} /\ at \in Nat /\ at <= at + 1 /\ at <= Len(heap.items[t])
    BY <2>1, <2>2, ItemsOf
  <2> QED
    BY <2>1, <2>3, <2>4, RemoveSound
<1>5. ASSUME NEW t \in NamedTables, DeleteKeys(t)
      PROVE  Sound'
  <2> DEFINE n == Len(heap.items[t])
  <2>1. t \in heap.live /\ t \in Tables
    BY NamedAre
  <2>2. PICK contents : Change(t, Nil, Removed(Using(<<t>>), t, 1, n), contents)
    BY <1>5 DEF DeleteKeys
  <2>3. 1 \in Nat \ {0} /\ n \in Nat /\ 1 <= n + 1 /\ n <= Len(heap.items[t])
    BY <2>1, ItemsOf
  <2> HIDE DEF n
  <2> QED
    BY <2>1, <2>2, <2>3, RemoveSound
<1>6. ASSUME NEW t \in NamedTables, NEW u \in NamedTables, AddTable(t, u)
      PROVE  Sound'
  <2>1. t # u
    BY <1>6 DEF AddTable
  <2> QED
    BY <1>6, <2>1, AddTableSound
<1> QED
  BY <1>1, <1>2, <1>3, <1>4, <1>5, <1>6, MakeTableSound, MakeTableOfSound, MakeSumSound, ChangeKeySound
     DEF TableStatement

-----------------------------------------------------------------------------
(* Blocks of vectors and dynamic strings.                                   *)

\* The powers of two are positive.
LEMMA PowersPositive ==
    ASSUME NEW k \in 1..32
    PROVE  2^k \in Nat \ {0}
<1>1. /\ 2^1 > 0 /\ 2^2 > 0 /\ 2^3 > 0 /\ 2^4 > 0 /\ 2^5 > 0 /\ 2^6 > 0 /\ 2^7 > 0 /\ 2^8 > 0
      /\ 2^9 > 0 /\ 2^10 > 0 /\ 2^11 > 0 /\ 2^12 > 0 /\ 2^13 > 0 /\ 2^14 > 0 /\ 2^15 > 0 /\ 2^16 > 0
  OBVIOUS
<1>2. /\ 2^17 > 0 /\ 2^18 > 0 /\ 2^19 > 0 /\ 2^20 > 0 /\ 2^21 > 0 /\ 2^22 > 0 /\ 2^23 > 0 /\ 2^24 > 0
      /\ 2^25 > 0 /\ 2^26 > 0 /\ 2^27 > 0 /\ 2^28 > 0 /\ 2^29 > 0 /\ 2^30 > 0 /\ 2^31 > 0 /\ 2^32 > 0
  OBVIOUS
<1>3. CASE k <= 16
  <2>1. \/ k = 1 \/ k = 2 \/ k = 3 \/ k = 4 \/ k = 5 \/ k = 6 \/ k = 7 \/ k = 8
        \/ k = 9 \/ k = 10 \/ k = 11 \/ k = 12 \/ k = 13 \/ k = 14 \/ k = 15 \/ k = 16
    BY <1>3
  <2>2. 2^k > 0
    BY <1>1, <2>1, Zenon
  <2> QED
    BY <2>2
<1>4. CASE k > 16
  <2>1. \/ k = 17 \/ k = 18 \/ k = 19 \/ k = 20 \/ k = 21 \/ k = 22 \/ k = 23 \/ k = 24
        \/ k = 25 \/ k = 26 \/ k = 27 \/ k = 28 \/ k = 29 \/ k = 30 \/ k = 31 \/ k = 32
    BY <1>4
  <2>2. 2^k > 0
    BY <1>2, <2>1, Zenon
  <2> QED
    BY <2>2
<1> QED
  BY <1>3, <1>4

\* What a vector makes of a number is a number.
LEMMA CellIs ==
    ASSUME NEW v \in Vectors
    PROVE  /\ \A n \in Int : Cell(v, n) \in Int
           /\ \A c \in Int : ItemOf(v, c) \in Int
<1> DEFINE k == 2^Bits[v]
<1>1. Bits[v] \in 1..32
  BY BuffersAssumption
<1>2. k \in Nat \ {0}
  BY <1>1, PowersPositive
<1>3. (\A n : Cell(v, n) = n % k) /\ \A c : ItemOf(v, c) = IF v \in Signed /\ c >= 2^(Bits[v] - 1) THEN c - k ELSE c
  BY DEF Cell, ItemOf
<1> HIDE DEF k
<1>4. \A n \in Int : n % k \in Int
  BY <1>2
<1>5. \A c \in Int : c - k \in Int
  BY <1>2
<1> QED
  BY <1>3, <1>4, <1>5

\* A block in order, and one that is the same but for what it contains
Tidy(b) == b \in Blocks /\ Fits(b)
Alike(b, w) ==
    w \in Blocks /\ w.within = TRUE /\ w.length = b.length /\ Len(w.cells) = Len(b.cells)

\* The fields of a block.
LEMMA BlockFields ==
    ASSUME NEW b \in Blocks
    PROVE  b.cells \in Seq(Int) /\ Len(b.cells) \in Nat /\ b.length \in Int /\ b.within \in BOOLEAN
           /\ b = [cells |-> b.cells, length |-> b.length, within |-> b.within]
<1>1. b.cells \in Seq(Int) /\ b.length \in Int /\ b.within \in BOOLEAN
      /\ b = [cells |-> b.cells, length |-> b.length, within |-> b.within]
  BY DEF Blocks
<1> QED
  BY <1>1

\* New cells are cells.
LEMMA UnwrittenIs ==
    ASSUME NEW n \in Nat
    PROVE  /\ Unwritten(n) \in Seq(Int) /\ Len(Unwritten(n)) = n
           /\ Zeroes(n) \in Seq(Int) /\ Len(Zeroes(n)) = n
  BY DEF Unwritten, Zeroes, Garbage

\* v_setsize and ds__setsize: a block of the length that is asked for.
LEMMA ResizeDoes ==
    ASSUME NEW b \in Blocks, NEW base \in Nat \ {0}, NEW requested \in Nat
    PROVE  LET r == Resize(b, base, requested)
           IN  /\ r \in Blocks /\ r.length = b.length /\ r.within = b.within
               /\ Len(r.cells) \in Nat /\ Len(r.cells) >= requested
<1> DEFINE n == Len(b.cells)
           size == CalcResize(base, n, requested)
           cells == IF size <= n THEN SubSeq(b.cells, 1, size) ELSE b.cells \o Unwritten(size - n)
           r == Resize(b, base, requested)
<1>1. b.cells \in Seq(Int) /\ n \in Nat
  BY BlockFields
<1>2. size \in Nat /\ size >= requested
  BY <1>1, CalcResizeDoes
<1>3. r = [b EXCEPT !.cells = cells]
  BY DEF Resize
<1> HIDE DEF size, r
<1>4. cells \in Seq(Int) /\ Len(cells) = size
  <2>1. CASE size <= n
    <3>1. SubSeq(b.cells, 1, size) \in Seq(Int) /\ Len(SubSeq(b.cells, 1, size)) = size
      BY <1>1, <1>2, <2>1, SubSeqProperties
    <3> QED
      BY <3>1, <2>1
  <2>2. CASE ~(size <= n)
    <3>1. size - n \in Nat
      BY <1>1, <1>2, <2>2
    <3> DEFINE w == Unwritten(size - n)
    <3>2. w \in Seq(Int) /\ Len(w) = size - n
      BY <3>1, UnwrittenIs
    <3> HIDE DEF w
    <3>3. b.cells \o w \in Seq(Int) /\ Len(b.cells \o w) = n + (size - n)
      BY <3>2, <1>1, ConcatProperties
    <3>4. cells = b.cells \o w
      BY <2>2 DEF w
    <3> HIDE DEF cells, n
    <3>5. n + (size - n) = size
      BY <1>1, <1>2
    <3> QED
      BY <3>3, <3>4, <3>5
  <2> QED
    BY <2>1, <2>2
<1> HIDE DEF cells
<1>5. r \in Blocks /\ r.length = b.length /\ r.within = b.within /\ r.cells = cells
  BY <1>3, <1>4 DEF Blocks
<1> QED
  BY <1>2, <1>4, <1>5 DEF r

\* So many cells from a position on.
LEMMA CellsAre ==
    ASSUME NEW b \in Blocks, NEW at \in Int, NEW n \in Nat
    PROVE  Cells(b, at, n) \in Seq(Int) /\ Len(Cells(b, at, n)) = n
<1>1. b.cells \in Seq(Int) /\ Len(b.cells) \in Nat
  BY BlockFields
<1>2. CASE n > 0 /\ Inside(b, at, n)
  <2>1. at >= 1 /\ at + n - 1 <= Len(b.cells)
    BY <1>2 DEF Inside
  <2> DEFINE to == at + n - 1
             s == b.cells
  <2>2. at \in 1..Len(s) /\ to \in at..Len(s) /\ to - at + 1 = n
    BY <1>1, <1>2, <2>1
  <2>3. Cells(b, at, n) = SubSeq(s, at, to)
    BY <1>2 DEF Cells
  <2> HIDE DEF s, to
  <2>4. s \in Seq(Int)
    BY <1>1 DEF s
  <2>5. SubSeq(s, at, to) \in Seq(Int) /\ Len(SubSeq(s, at, to)) = to - at + 1
    BY <2>2, <2>4, SubSeqProperties
  <2> QED
    BY <2>2, <2>3, <2>5
<1>3. CASE ~(n > 0 /\ Inside(b, at, n))
  BY <1>3, UnwrittenIs DEF Cells
<1> QED
  BY <1>2, <1>3

\* Three sequences one after the other.
LEMMA ThreeJoined ==
    ASSUME NEW r \in Seq(Int), NEW s \in Seq(Int), NEW t \in Seq(Int)
    PROVE  r \o s \o t \in Seq(Int) /\ Len(r \o s \o t) = Len(r) + Len(s) + Len(t)
<1>1. r \o s \in Seq(Int) /\ Len(r \o s) = Len(r) + Len(s)
  BY ConcatProperties
<1> DEFINE q == r \o s
<1> HIDE DEF q
<1>2. q \in Seq(Int)
  BY <1>1 DEF q
<1>3. q \o t \in Seq(Int) /\ Len(q \o t) = Len(q) + Len(t)
  BY <1>2, ConcatProperties
<1> QED
  BY <1>1, <1>3 DEF q

\* memcpy() into a block, of cells that it has.
LEMMA WriteDoes ==
    ASSUME NEW b \in Blocks, b.within, NEW at \in Int, NEW new \in Seq(Int),
           Len(new) # 0 => at >= 1 /\ at + Len(new) - 1 <= Len(b.cells)
    PROVE  Alike(b, Write(b, at, new))
<1> DEFINE s == b.cells
           n == Len(new)
           w == Write(b, at, new)
<1>1. s \in Seq(Int) /\ Len(s) \in Nat /\ b.length \in Int /\ b.within = TRUE /\ n \in Nat
  BY BlockFields
<1>2. CASE new = << >>
  <2>1. n = 0
    BY <1>2
  <2>2. w = [b EXCEPT !.within = TRUE]
    BY <1>1, <1>2 DEF Write
  <2>3. w = b
    BY <2>2, <1>1, BlockFields
  <2> QED
    BY <2>3, <1>1 DEF Alike
<1>3. CASE new # << >>
  <2>1. n > 0 /\ at >= 1 /\ at + n - 1 <= Len(s)
    BY <1>1, <1>3, EmptySeq
  <2>2. Inside(b, at, n)
    BY <2>1 DEF Inside
  <2> DEFINE left == SubSeq(s, 1, at - 1)
             right == SubSeq(s, at + n, Len(s))
             cells == left \o new \o right
  <2>3. w = [b EXCEPT !.cells = cells]
    BY <1>3, <2>2 DEF Write
  <2> HIDE DEF s, n, w
  <2>4. left \in Seq(Int) /\ Len(left) = at - 1
    <3>1. 1 \in 1..Len(s) + 1 /\ at - 1 \in 1 - 1..Len(s)
      BY <1>1, <2>1
    <3>2. SubSeq(s, 1, at - 1) \in Seq(Int) /\ Len(SubSeq(s, 1, at - 1)) = (IF 1 <= at - 1 THEN at - 1 - 1 + 1 ELSE 0)
      BY <3>1, <1>1, SubSeqProperties
    <3> QED
      BY <3>2, <2>1
  <2>5. right \in Seq(Int) /\ Len(right) = Len(s) - at - n + 1
    <3>1. at + n \in 1..Len(s) + 1 /\ Len(s) \in at + n - 1..Len(s)
      BY <1>1, <2>1
    <3>2. right \in Seq(Int) /\ Len(right) = (IF at + n <= Len(s) THEN Len(s) - (at + n) + 1 ELSE 0)
      BY <3>1, <1>1, SubSeqProperties
    <3> HIDE DEF right
    <3>3. CASE at + n <= Len(s)
      BY <3>2, <3>3, <2>1, <1>1
    <3>4. CASE ~(at + n <= Len(s))
      <4>1. at + n = Len(s) + 1
        BY <3>4, <2>1, <1>1
      <4> QED
        BY <3>2, <3>4, <4>1, <1>1
    <3> QED
      BY <3>3, <3>4
  <2> HIDE DEF left, right
  <2>7. cells \in Seq(Int) /\ Len(cells) = at - 1 + n + (Len(s) - at - n + 1)
    <3>1. cells \in Seq(Int) /\ Len(cells) = Len(left) + Len(new) + Len(right)
      BY <2>4, <2>5, ThreeJoined
    <3> QED
      BY <3>1, <2>4, <2>5 DEF n
  <2>8. Len(cells) = Len(s)
    BY <2>7, <1>1
  <2> HIDE DEF cells
  <2>9. w \in Blocks /\ w.within = b.within /\ w.length = b.length /\ w.cells = cells
    BY <2>3, <2>7, <1>1 DEF Blocks
  <2> QED
    BY <2>8, <2>9, <1>1 DEF Alike, w, s
<1> QED
  BY <1>2, <1>3

\* memset() in a block, of cells that it has.
LEMMA ClearDoes ==
    ASSUME NEW b \in Blocks, b.within, NEW at \in Int, NEW n \in Nat,
           n # 0 => at >= 1 /\ at + n - 1 <= Len(b.cells)
    PROVE  Alike(b, Clear(b, at, n))
<1> DEFINE new == Zeroes(n)
           w == Write(b, at, new)
<1>1. new \in Seq(Int) /\ Len(new) = n
  BY UnwrittenIs
<1> HIDE DEF new
<1>2. Alike(b, w)
  BY <1>1, WriteDoes
<1>3. Clear(b, at, n) = [w EXCEPT !.within = w.within /\ n >= 0]
  BY DEF Clear, new
<1> HIDE DEF w
<1>4. (w.within /\ n >= 0) = TRUE
  BY <1>2 DEF Alike
<1>5. [w EXCEPT !.within = TRUE] = w
  BY <1>2 DEF Alike, Blocks
<1> QED
  BY <1>2, <1>3, <1>4, <1>5

\* memmove() within a block, between cells that it has.
LEMMA MoveDoes ==
    ASSUME NEW b \in Blocks, b.within, NEW to \in Int, NEW from \in Int, NEW n \in Nat,
           n # 0 => /\ to >= 1 /\ to + n - 1 <= Len(b.cells)
                    /\ from >= 1 /\ from + n - 1 <= Len(b.cells)
    PROVE  Alike(b, Move(b, to, from, n))
<1> DEFINE new == Cells(b, from, n)
           w == Write(b, to, new)
<1>1. new \in Seq(Int) /\ Len(new) = n
  BY CellsAre
<1>2. Inside(b, from, n)
  BY DEF Inside
<1> HIDE DEF new
<1>3. Alike(b, w)
  BY <1>1, WriteDoes
<1>4. Move(b, to, from, n) = [w EXCEPT !.within = w.within /\ Inside(b, from, n)]
  BY DEF Move, new
<1> HIDE DEF w
<1>5. (w.within /\ Inside(b, from, n)) = TRUE
  BY <1>2, <1>3 DEF Alike, Inside
<1>6. [w EXCEPT !.within = TRUE] = w
  BY <1>3 DEF Alike, Blocks
<1> QED
  BY <1>3, <1>4, <1>5, <1>6

Strung(b) == Tidy(b) /\ b.length < Len(b.cells)
Long(b, n) == [b EXCEPT !.length = n]

\* Only the length changes.
LEMMA LongIs ==
    ASSUME NEW b \in Blocks, NEW n \in Int
    PROVE  Long(b, n) \in Blocks /\ Long(b, n).cells = b.cells
           /\ Long(b, n).length = n /\ Long(b, n).within = b.within
  BY DEF Long, Blocks

\* What it is to be tidy.
LEMMA TidyIs ==
    ASSUME NEW b, Tidy(b)
    PROVE  /\ b \in Blocks /\ b.within /\ b.within = TRUE /\ b.length \in Nat /\ Len(b.cells) \in Nat
           /\ b.length <= Len(b.cells) /\ b.cells \in Seq(Int)
<1>1. b \in Blocks /\ b.within /\ b.length >= 0 /\ b.length <= Len(b.cells)
  BY DEF Tidy, Fits
<1> QED
  BY <1>1, BlockFields

\* What is like a tidy block is tidy.
LEMMA AlikeTidy ==
    ASSUME NEW b, Tidy(b), NEW w, Alike(b, w)
    PROVE  Tidy(w) /\ (Strung(b) => Strung(w))
<1>1. b \in Blocks /\ b.length \in Nat /\ b.length <= Len(b.cells)
  BY TidyIs
<1>2. w \in Blocks /\ w.within = TRUE /\ w.length = b.length /\ Len(w.cells) = Len(b.cells)
  BY DEF Alike
<1>3. Tidy(w)
  BY <1>1, <1>2 DEF Tidy, Fits
<1> QED
  BY <1>2, <1>3 DEF Strung

\* What it is to be alike.
LEMMA AlikeOn ==
    ASSUME NEW b, NEW w, Alike(b, w)
    PROVE  w \in Blocks /\ w.within /\ w.length = b.length /\ Len(w.cells) = Len(b.cells)
  BY DEF Alike

\* A block is tidy with a length that it has cells for.
LEMMA LongTidy ==
    ASSUME NEW b \in Blocks, b.within, NEW n \in Nat, n <= Len(b.cells)
    PROVE  Tidy(Long(b, n)) /\ (n < Len(b.cells) => Strung(Long(b, n)))
<1>1. Tidy(Long(b, n))
  BY LongIs, BlockFields DEF Tidy, Fits
<1> QED
  BY <1>1, LongIs DEF Strung

\* One cell is a sequence.
LEMMA OneCell ==
    ASSUME NEW c \in Int
    PROVE  <<c>> \in Seq(Int) /\ Len(<<c>>) = 1
  OBVIOUS

\* A cell is written to a block that has it.
LEMMA WriteOne ==
    ASSUME NEW b \in Blocks, b.within, NEW i \in Nat \ {0}, i <= Len(b.cells), NEW c \in Int
    PROVE  Alike(b, Write(b, i, <<c>>))
<1> DEFINE new == <<c>>
<1>1. new \in Seq(Int) /\ Len(new) = 1
  BY OneCell
<1> HIDE DEF new
<1>2. Len(b.cells) \in Nat
  BY BlockFields
<1>3. i \in Int /\ (Len(new) # 0 => i >= 1 /\ i + Len(new) - 1 <= Len(b.cells))
  BY <1>1, <1>2
<1>4. Alike(b, Write(b, i, new))
  BY <1>1, <1>3, WriteDoes
<1> QED
  BY <1>4 DEF new

-----------------------------------------------------------------------------
(* Vectors.                                                                  *)

\* v_construct
LEMMA NewVectorDoes ==
    ASSUME NEW cells \in Seq(Int)
    PROVE  Tidy(NewVector(cells))
<1>1. Len(cells) \in Nat
  OBVIOUS
<1> QED
  BY <1>1 DEF Tidy, Fits, NewVector, Block, Blocks

\* v[i] = n writes to a cell that the vector has, also when it grows.
LEMMA VectorSetDoes ==
    ASSUME NEW b, Tidy(b), NEW i \in Nat \ {0}, NEW cell \in Int
    PROVE  Tidy(VectorSet(b, i, cell))
<1> DEFINE grown == Resize(b, VectorBase, i)
           cleared == Clear(grown, b.length + 1, i - 1 - b.length)
           longer == Long(cleared, i)
<1>1. b \in Blocks /\ b.within /\ b.length \in Nat /\ Len(b.cells) \in Nat /\ b.length <= Len(b.cells)
  BY TidyIs
<1>2. CASE i <= b.length
  <2>1. Alike(b, Write(b, i, <<cell>>))
    BY <1>1, <1>2, WriteOne
  <2>2. VectorSet(b, i, cell) = Write(b, i, <<cell>>)
    BY <1>2 DEF VectorSet
  <2> QED
    BY <2>1, <2>2, AlikeTidy
<1>3. CASE ~(i <= b.length)
  <2>1. VectorSet(b, i, cell) = Write(longer, i, <<cell>>)
    BY <1>3 DEF VectorSet, Long
  <2>2. grown \in Blocks /\ grown.within /\ Len(grown.cells) \in Nat /\ Len(grown.cells) >= i
    BY <1>1, BasesAre, ResizeDoes
  <2> HIDE DEF grown
  <2>3. Alike(grown, cleared)
    <3> DEFINE n == i - 1 - b.length
               at == b.length + 1
    <3>1. n \in Nat /\ at \in Int /\ at >= 1 /\ at + n - 1 <= Len(grown.cells)
      BY <1>1, <1>3, <2>2
    <3> HIDE DEF n, at
    <3>2. Alike(grown, Clear(grown, at, n))
      BY <2>2, <3>1, ClearDoes
    <3> QED
      BY <3>2 DEF n, at
  <2> HIDE DEF cleared
  <2>4. cleared \in Blocks /\ cleared.within /\ Len(cleared.cells) >= i /\ Len(cleared.cells) \in Nat
    BY <2>2, <2>3, AlikeOn
  <2>5. Tidy(longer) /\ longer \in Blocks /\ longer.within /\ longer.cells = cleared.cells
    <3>1. i \in Nat /\ i \in Int
      OBVIOUS
    <3>2. Tidy(Long(cleared, i))
      BY <2>4, <3>1, LongTidy
    <3>3. Long(cleared, i) \in Blocks /\ Long(cleared, i).within = cleared.within
          /\ Long(cleared, i).cells = cleared.cells
      BY <2>4, <3>1, LongIs
    <3> QED
      BY <2>4, <3>2, <3>3
  <2> HIDE DEF longer
  <2>6. Alike(longer, Write(longer, i, <<cell>>))
    BY <2>4, <2>5, WriteOne
  <2> QED
    BY <2>1, <2>5, <2>6, AlikeTidy
<1> QED
  BY <1>2, <1>3

\* insert(v, i, n), for positions up to the end
LEMMA VectorInsertDoes ==
    ASSUME NEW b, Tidy(b), NEW i \in 1..b.length + 1, NEW cell \in Int
    PROVE  Tidy(VectorInsert(b, i, cell))
<1> DEFINE n == b.length
           grown == Resize(b, VectorBase, n + 1)
           moved == Move(grown, i + 1, i, n + 1 - i)
           longer == Long(moved, moved.length + 1)
<1>1. b \in Blocks /\ b.within /\ n \in Nat
  BY TidyIs
<1>2. VectorInsert(b, i, cell) = Write(longer, i, <<cell>>)
  BY DEF VectorInsert, Long
<1>3. grown \in Blocks /\ grown.within /\ Len(grown.cells) \in Nat /\ Len(grown.cells) >= n + 1 /\ grown.length = n
  <2>1. n + 1 \in Nat
    BY <1>1
  <2> QED
    BY <2>1, <1>1, BasesAre, ResizeDoes
<1>4. i \in Nat \ {0} /\ i <= n + 1
  BY <1>1
<1> HIDE DEF grown, n
<1>5. Alike(grown, moved)
  <2> DEFINE m == n + 1 - i
             to == i + 1
  <2>1. m \in Nat /\ to \in Int /\ to >= 1 /\ to + m - 1 <= Len(grown.cells) /\ i + m - 1 <= Len(grown.cells) /\ i >= 1
    BY <1>1, <1>3, <1>4
  <2> HIDE DEF m, to
  <2>2. Alike(grown, Move(grown, to, i, m))
    BY <1>3, <1>4, <2>1, MoveDoes
  <2> QED
    BY <2>2 DEF m, to
<1> HIDE DEF moved
<1>6. moved \in Blocks /\ moved.within /\ Len(moved.cells) >= n + 1 /\ Len(moved.cells) \in Nat /\ moved.length = n
  BY <1>3, <1>5, AlikeOn
<1>7. Tidy(longer) /\ longer \in Blocks /\ longer.within /\ longer.cells = moved.cells
  <2>1. n + 1 \in Nat
    BY <1>1
  <2>2. longer = Long(moved, n + 1)
    BY <1>6
  <2> HIDE DEF longer
  <2> QED
    <3> DEFINE k == n + 1
    <3>1. k \in Nat /\ k \in Int /\ k <= Len(moved.cells) /\ longer = Long(moved, k)
      BY <2>1, <2>2, <1>6
    <3> HIDE DEF k
    <3>2. Tidy(Long(moved, k))
      BY <1>6, <3>1, LongTidy
    <3>3. Long(moved, k) \in Blocks /\ Long(moved, k).within = moved.within
          /\ Long(moved, k).cells = moved.cells
      BY <1>6, <3>1, LongIs
    <3> QED
      BY <1>6, <3>1, <3>2, <3>3
<1> HIDE DEF longer
<1>8. Alike(longer, Write(longer, i, <<cell>>))
  <2>1. i <= Len(longer.cells)
    BY <1>1, <1>4, <1>6, <1>7
  <2> QED
    BY <2>1, <1>4, <1>7, WriteOne
<1> QED
  BY <1>2, <1>7, <1>8, AlikeTidy

\* delete(v, from, n) of items that there are
LEMMA VectorDeleteDoes ==
    ASSUME NEW b, Tidy(b), NEW from \in Nat \ {0}, NEW to \in Nat, from <= to + 1, to <= b.length
    PROVE  Tidy(VectorDelete(b, from, to))
<1> DEFINE n == b.length
           moved == Move(b, from, to + 1, n - to)
           length == n - (to - from + 1)
           shorter == Long(moved, length)
           r == Resize(shorter, VectorBase, length)
<1>1. b \in Blocks /\ b.within /\ n \in Nat /\ Len(b.cells) \in Nat /\ n <= Len(b.cells)
  BY TidyIs
<1>2. VectorDelete(b, from, to) = r
  BY DEF VectorDelete, Long
<1>3. length \in Nat /\ length <= n
  BY <1>1
<1>4. Alike(b, moved)
  <2> DEFINE m == n - to
             at == to + 1
  <2>1. m \in Nat /\ at \in Int /\ at >= 1 /\ at + m - 1 <= Len(b.cells) /\ from + m - 1 <= Len(b.cells) /\ from >= 1
        /\ from \in Int
    BY <1>1
  <2> HIDE DEF m, at
  <2>2. Alike(b, Move(b, from, at, m))
    BY <1>1, <2>1, MoveDoes
  <2> QED
    BY <2>2 DEF m, at
<1> HIDE DEF moved, length
<1>5. moved \in Blocks /\ moved.within /\ Len(moved.cells) = Len(b.cells)
  BY <1>4, AlikeOn
<1>6. shorter \in Blocks /\ shorter.within /\ shorter.length = length
  <2>1. length \in Int
    BY <1>3
  <2>2. Long(moved, length) \in Blocks /\ Long(moved, length).within = moved.within
        /\ Long(moved, length).length = length
    BY <1>5, <2>1, LongIs
  <2> QED
    BY <1>5, <2>2
<1> HIDE DEF shorter
<1>7. r \in Blocks /\ r.length = length /\ r.within /\ Len(r.cells) >= length /\ Len(r.cells) \in Nat
  BY <1>3, <1>6, BasesAre, ResizeDoes
<1> HIDE DEF r
<1> QED
  BY <1>2, <1>3, <1>7 DEF Tidy, Fits

\* v + x and v.+ x
LEMMA VectorAppendDoes ==
    ASSUME NEW b, Tidy(b), NEW cells \in Seq(Int)
    PROVE  Tidy(VectorAppend(b, cells))
<1> DEFINE n == b.length
           w == Len(cells)
           grown == Resize(b, VectorBase, n + w)
           longer == Write(grown, n + 1, cells)
<1>0. w \in Nat
  OBVIOUS
<1>1. b \in Blocks /\ b.within /\ n \in Nat /\ w \in Nat
  BY <1>0, TidyIs
<1>2. VectorAppend(b, cells) = IF cells = << >> THEN b ELSE Long(longer, longer.length + w)
  BY DEF VectorAppend, Long
<1>3. n + w \in Nat /\ n + 1 \in Int
  BY <1>1
<1>4. grown \in Blocks /\ grown.within /\ Len(grown.cells) \in Nat /\ Len(grown.cells) >= n + w /\ grown.length = n
  BY <1>1, <1>3, BasesAre, ResizeDoes
<1> HIDE DEF grown, n
<1>5. Alike(grown, longer)
  <2> DEFINE at == n + 1
  <2>1. at \in Int /\ at >= 1 /\ at + Len(cells) - 1 <= Len(grown.cells)
    BY <1>1, <1>4
  <2> HIDE DEF at
  <2>2. Alike(grown, Write(grown, at, cells))
    BY <1>4, <2>1, WriteDoes
  <2> QED
    BY <2>2 DEF at
<1> HIDE DEF longer, w
<1>6. longer \in Blocks /\ longer.within /\ Len(longer.cells) = Len(grown.cells) /\ longer.length = n
  BY <1>4, <1>5, AlikeOn
<1>7. Tidy(Long(longer, n + w))
  BY <1>3, <1>4, <1>6, LongTidy
<1> QED
  BY <1>2, <1>6, <1>7

\* What it is to be a string: there is a byte for the terminator.
LEMMA StrungIs ==
    ASSUME NEW b, Strung(b)
    PROVE  /\ b \in Blocks /\ b.within /\ b.within = TRUE /\ b.length \in Nat /\ Len(b.cells) \in Nat
           /\ b.length < Len(b.cells) /\ b.cells \in Seq(Int) /\ Tidy(b)
  BY TidyIs DEF Strung

\* A dynamic string of bytes.
LEMMA NewDstringDoes ==
    ASSUME NEW bytes \in Seq(Int)
    PROVE  Strung(NewDstring(bytes))
<1> DEFINE cells == Append(bytes, 0)
           n == Len(bytes)
<1>1. n \in Nat
  OBVIOUS
<1>2. cells \in Seq(Int) /\ Len(cells) = n + 1
  <2>1. 0 \in Int
    OBVIOUS
  <2> QED
    BY <2>1, AppendProperties
<1>3. NewDstring(bytes) = [cells |-> cells, length |-> n, within |-> TRUE]
  BY DEF NewDstring, Block
<1> HIDE DEF cells, n
<1> QED
  BY <1>1, <1>2, <1>3 DEF Strung, Tidy, Fits, Blocks

\* A dynamic string that a file reads to: allocated for what is asked for.
LEMMA ReadDstringDoes ==
    ASSUME NEW asked \in Nat, NEW bytes \in Seq(Int), Len(bytes) <= asked
    PROVE  Strung(ReadDstring(asked, bytes))
<1> DEFINE fresh == [i \in 1..asked + 1 |-> IF i = 1 THEN 0 ELSE Garbage]
           b == [cells |-> fresh, length |-> 0, within |-> TRUE]
           w == Write(b, 1, bytes)
           n == Len(bytes)
<1>1. n \in Nat /\ n <= asked
  OBVIOUS
<1>2. fresh \in Seq(Int) /\ Len(fresh) = asked + 1
  BY DEF Garbage
<1>3. ReadDstring(asked, bytes) = Long(w, n)
  BY DEF ReadDstring, Long, Block
<1> HIDE DEF fresh
<1>4. b \in Blocks /\ b.within /\ Len(b.cells) = asked + 1
  BY <1>2 DEF Blocks
<1> HIDE DEF b
<1>5. Alike(b, w)
  <2>1. 1 \in Int /\ (Len(bytes) # 0 => 1 >= 1 /\ 1 + Len(bytes) - 1 <= Len(b.cells))
    BY <1>1, <1>4
  <2> QED
    BY <1>4, <2>1, WriteDoes
<1> HIDE DEF w, n
<1>6. w \in Blocks /\ w.within /\ Len(w.cells) = asked + 1
  BY <1>4, <1>5, AlikeOn
<1>7. n <= Len(w.cells) /\ n < Len(w.cells)
  BY <1>1, <1>6
<1> QED
  BY <1>1, <1>3, <1>6, <1>7, LongTidy

\* d[i] = byte, which may make the string longer
LEMMA DstringSetDoes ==
    ASSUME NEW b, Strung(b), NEW i \in Nat \ {0}, NEW byte \in Int
    PROVE  Strung(DstringSet(b, i, byte))
<1> DEFINE n == b.length
           grown == Resize(b, DstringBase, i + 1)
           size == Len(grown.cells)
           cleared == Clear(grown, n + 2, size - n - 1)
           longer == Long(cleared, i)
<1>1. b \in Blocks /\ b.within /\ n \in Nat /\ Len(b.cells) \in Nat /\ n < Len(b.cells) /\ Tidy(b)
  BY StrungIs
<1>2. CASE i <= n
  <2>1. Alike(b, Write(b, i, <<byte>>))
    BY <1>1, <1>2, WriteOne
  <2>2. DstringSet(b, i, byte) = Write(b, i, <<byte>>)
    BY <1>2 DEF DstringSet
  <2> QED
    BY <1>1, <2>1, <2>2, AlikeTidy
<1>3. CASE ~(i <= n)
  <2>1. DstringSet(b, i, byte) = Write(longer, i, <<byte>>)
    BY <1>3 DEF DstringSet, Long
  <2>2. grown \in Blocks /\ grown.within /\ size \in Nat /\ size >= i + 1
    <3>1. i + 1 \in Nat
      OBVIOUS
    <3> QED
      BY <3>1, <1>1, BasesAre, ResizeDoes
  <2> HIDE DEF grown, n
  <2>3. Alike(grown, cleared)
    <3> DEFINE m == size - n - 1
               at == n + 2
    <3>0. size = Len(grown.cells)
      OBVIOUS
    <3> HIDE DEF size
    <3>1. m \in Nat /\ at \in Int /\ at >= 1 /\ at + m - 1 <= size
      <4>1. size \in Nat /\ n \in Nat /\ i \in Nat /\ size >= i + 1 /\ i > n
        BY <1>1, <1>3, <2>2
      <4> QED
        BY <4>1
    <3> HIDE DEF m, at
    <3>2. Alike(grown, Clear(grown, at, m))
      BY <2>2, <3>0, <3>1, ClearDoes
    <3> QED
      BY <3>2 DEF m, at
  <2> HIDE DEF cleared
  <2>4. cleared \in Blocks /\ cleared.within /\ Len(cleared.cells) >= i + 1 /\ Len(cleared.cells) \in Nat
    BY <2>2, <2>3, AlikeOn
  <2>5. i \in Nat /\ i \in Int /\ i <= Len(cleared.cells) /\ i < Len(cleared.cells)
    BY <2>4
  <2>6. Strung(Long(cleared, i)) /\ Tidy(Long(cleared, i))
    BY <2>4, <2>5, LongTidy
  <2>7. longer \in Blocks /\ longer.within /\ longer.cells = cleared.cells
    BY <2>4, <2>5, LongIs
  <2>8. Strung(longer) /\ Tidy(longer)
    BY <2>6
  <2> HIDE DEF longer
  <2>9. Alike(longer, Write(longer, i, <<byte>>))
    BY <2>5, <2>7, WriteOne
  <2> QED
    BY <2>1, <2>8, <2>9, AlikeTidy
<1> QED
  BY <1>2, <1>3

\* mf_write: bytes are written over and behind those of the string.
LEMMA DstringWriteDoes ==
    ASSUME NEW b, Strung(b), NEW position \in Nat, NEW bytes \in Seq(Int)
    PROVE  Strung(DstringWrite(b, position, bytes))
<1> DEFINE n == b.length
           w == Len(bytes)
           end == position + w
           grown == Resize(b, DstringBase, end + 1)
           size == Len(grown.cells)
           cleared == Clear(grown, n + 1, size - n)
           longer == Long(cleared, end)
           at == position + 1
<1>0. w \in Nat
  OBVIOUS
<1>1. b \in Blocks /\ b.within /\ n \in Nat /\ Len(b.cells) \in Nat /\ n < Len(b.cells) /\ Tidy(b)
  BY StrungIs
<1>2. DstringWrite(b, position, bytes) = IF end < n THEN Write(b, at, bytes) ELSE Write(longer, at, bytes)
  BY DEF DstringWrite, Long
<1>3. end \in Nat /\ end + 1 \in Nat /\ at \in Int /\ at >= 1
  BY <1>0
<1>4. CASE end < n
  <2>1. at + Len(bytes) - 1 <= Len(b.cells)
    BY <1>0, <1>1, <1>4
  <2>2. Alike(b, Write(b, at, bytes))
    BY <1>1, <1>3, <2>1, WriteDoes
  <2> QED
    BY <1>1, <1>2, <1>4, <2>2, AlikeTidy
<1>5. CASE ~(end < n)
  <2>2. grown \in Blocks /\ grown.within /\ size \in Nat /\ size >= end + 1
    BY <1>1, <1>3, BasesAre, ResizeDoes
  <2>3. at + Len(bytes) - 1 = end
    BY <1>0
  <2> HIDE DEF grown, n, end, at
  <2>4. Alike(grown, cleared)
    <3> DEFINE m == size - n
               to == n + 1
    <3>0. size = Len(grown.cells)
      OBVIOUS
    <3> HIDE DEF size
    <3>1. m \in Nat /\ to \in Int /\ to >= 1 /\ to + m - 1 <= size
      <4>1. size \in Nat /\ n \in Nat /\ end \in Nat /\ size >= end + 1 /\ end >= n
        BY <1>1, <1>3, <1>5, <2>2
      <4> QED
        BY <4>1
    <3> HIDE DEF m, to
    <3>2. Alike(grown, Clear(grown, to, m))
      BY <2>2, <3>0, <3>1, ClearDoes
    <3> QED
      BY <3>2 DEF m, to
  <2> HIDE DEF cleared
  <2>5. cleared \in Blocks /\ cleared.within /\ Len(cleared.cells) >= end + 1 /\ Len(cleared.cells) \in Nat
    BY <2>2, <2>4, AlikeOn
  <2>6. end \in Nat /\ end \in Int /\ end <= Len(cleared.cells) /\ end < Len(cleared.cells)
    BY <1>3, <2>5
  <2>7. Strung(Long(cleared, end)) /\ Tidy(Long(cleared, end))
    BY <2>5, <2>6, LongTidy
  <2>8. longer \in Blocks /\ longer.within /\ longer.cells = cleared.cells
    BY <2>5, <2>6, LongIs
  <2>9. Strung(longer) /\ Tidy(longer)
    BY <2>7
  <2> HIDE DEF longer
  <2>10. at + Len(bytes) - 1 <= Len(longer.cells)
    BY <2>3, <2>6, <2>8
  <2>11. Alike(longer, Write(longer, at, bytes))
    BY <1>3, <2>8, <2>10, WriteDoes
  <2> QED
    BY <1>2, <1>5, <2>9, <2>11, AlikeTidy
<1> QED
  BY <1>4, <1>5

\* insert(d, i, bytes), for positions up to the end
LEMMA DstringInsertDoes ==
    ASSUME NEW b, Strung(b), NEW i \in 1..b.length + 1, NEW bytes \in Seq(Int)
    PROVE  Strung(DstringInsert(b, i, bytes))
<1> DEFINE n == b.length
           w == Len(bytes)
           grown == Resize(b, DstringBase, n + w + i)
           moved == Move(grown, i + w, i, n - i + 2)
           written == Write(moved, i, bytes)
<1>0. w \in Nat
  OBVIOUS
<1>1. b \in Blocks /\ b.within /\ n \in Nat
  BY StrungIs
<1>2. DstringInsert(b, i, bytes) = Long(written, written.length + w)
  BY DEF DstringInsert, Long
<1>3. i \in Nat \ {0} /\ i <= n + 1 /\ n + w + i \in Nat /\ n + w \in Nat
  BY <1>0, <1>1
<1>4. grown \in Blocks /\ grown.within /\ Len(grown.cells) \in Nat /\ Len(grown.cells) >= n + w + i /\ grown.length = n
  BY <1>1, <1>3, BasesAre, ResizeDoes
<1> HIDE DEF grown, n
<1>5. Alike(grown, moved)
  <2> DEFINE m == n - i + 2
             to == i + w
  <2>1. m \in Nat /\ to \in Int /\ to >= 1 /\ to + m - 1 <= Len(grown.cells) /\ i + m - 1 <= Len(grown.cells) /\ i >= 1
        /\ i \in Int
    BY <1>0, <1>1, <1>3, <1>4
  <2> HIDE DEF m, to
  <2>2. Alike(grown, Move(grown, to, i, m))
    BY <1>4, <2>1, MoveDoes
  <2> QED
    BY <2>2 DEF m, to
<1> HIDE DEF moved
<1>6. moved \in Blocks /\ moved.within /\ Len(moved.cells) = Len(grown.cells) /\ moved.length = n
  BY <1>4, <1>5, AlikeOn
<1>7. Alike(moved, written)
  <2>1. i \in Int /\ i >= 1 /\ i + Len(bytes) - 1 <= Len(moved.cells)
    BY <1>0, <1>1, <1>3, <1>4, <1>6
  <2> QED
    BY <1>6, <2>1, WriteDoes
<1> HIDE DEF written, w
<1>8. written \in Blocks /\ written.within /\ Len(written.cells) = Len(grown.cells) /\ written.length = n
  BY <1>6, <1>7, AlikeOn
<1>9. n + w <= Len(written.cells) /\ n + w < Len(written.cells)
  BY <1>0, <1>1, <1>3, <1>4, <1>8
<1>10. Strung(Long(written, n + w))
  BY <1>3, <1>8, <1>9, LongTidy
<1> QED
  BY <1>2, <1>8, <1>10

\* delete(d, from, n) of bytes that there are
LEMMA DstringDeleteDoes ==
    ASSUME NEW b, Strung(b), NEW from \in Nat \ {0}, NEW to \in Nat, from <= to + 1, to <= b.length
    PROVE  Strung(DstringDelete(b, from, to))
<1> DEFINE n == b.length
           moved == Move(b, from, to + 1, n - to + 1)
           length == n - (to - from + 1)
           shorter == Long(moved, length)
           r == Resize(shorter, DstringBase, length + 1)
<1>1. b \in Blocks /\ b.within /\ n \in Nat /\ Len(b.cells) \in Nat /\ n < Len(b.cells)
  BY StrungIs
<1>2. DstringDelete(b, from, to) = r
  BY DEF DstringDelete, Long
<1>3. length \in Nat /\ length + 1 \in Nat
  BY <1>1
<1>4. Alike(b, moved)
  <2> DEFINE m == n - to + 1
             at == to + 1
  <2>1. m \in Nat /\ at \in Int /\ at >= 1 /\ at + m - 1 <= Len(b.cells) /\ from + m - 1 <= Len(b.cells) /\ from >= 1
        /\ from \in Int
    BY <1>1
  <2> HIDE DEF m, at
  <2>2. Alike(b, Move(b, from, at, m))
    BY <1>1, <2>1, MoveDoes
  <2> QED
    BY <2>2 DEF m, at
<1> HIDE DEF moved, length
<1>5. moved \in Blocks /\ moved.within /\ Len(moved.cells) = Len(b.cells)
  BY <1>4, AlikeOn
<1>6. shorter \in Blocks /\ shorter.within /\ shorter.length = length
  <2>1. length \in Int
    BY <1>3
  <2>2. Long(moved, length) \in Blocks /\ Long(moved, length).within = moved.within
        /\ Long(moved, length).length = length
    BY <1>5, <2>1, LongIs
  <2> QED
    BY <1>5, <2>2
<1> HIDE DEF shorter
<1>7. r \in Blocks /\ r.length = length /\ r.within /\ Len(r.cells) >= length + 1 /\ Len(r.cells) \in Nat
  BY <1>3, <1>6, BasesAre, ResizeDoes
<1> HIDE DEF r
<1> QED
  BY <1>2, <1>3, <1>7 DEF Strung, Tidy, Fits

\* d + bytes
LEMMA DstringAppendDoes ==
    ASSUME NEW b, Strung(b), NEW bytes \in Seq(Int)
    PROVE  Strung(DstringAppend(b, bytes))
<1> DEFINE n == b.length
           w == Len(bytes)
           grown == Resize(b, DstringBase, n + w + 1)
           new == Append(bytes, 0)
           longer == Write(grown, n + 1, new)
<1>0. w \in Nat
  OBVIOUS
<1>1. b \in Blocks /\ b.within /\ n \in Nat
  BY StrungIs
<1>2. DstringAppend(b, bytes) = Long(longer, longer.length + w)
  BY DEF DstringAppend, Long
<1>3. n + w + 1 \in Nat /\ n + 1 \in Int /\ n + w \in Nat
  BY <1>0, <1>1
<1>4. grown \in Blocks /\ grown.within /\ Len(grown.cells) \in Nat /\ Len(grown.cells) >= n + w + 1 /\ grown.length = n
  BY <1>1, <1>3, BasesAre, ResizeDoes
<1>5. new \in Seq(Int) /\ Len(new) = w + 1
  <2>1. 0 \in Int
    OBVIOUS
  <2> QED
    BY <2>1, AppendProperties
<1> HIDE DEF grown, n, new
<1>6. Alike(grown, longer)
  <2> DEFINE at == n + 1
  <2>1. at \in Int /\ at >= 1 /\ at + Len(new) - 1 <= Len(grown.cells)
    BY <1>0, <1>1, <1>4, <1>5
  <2> HIDE DEF at
  <2>2. Alike(grown, Write(grown, at, new))
    BY <1>4, <1>5, <2>1, WriteDoes
  <2> QED
    BY <2>2 DEF at
<1> HIDE DEF longer, w
<1>7. longer \in Blocks /\ longer.within /\ Len(longer.cells) = Len(grown.cells) /\ longer.length = n
  BY <1>4, <1>6, AlikeOn
<1>8. n + w <= Len(longer.cells) /\ n + w < Len(longer.cells)
  BY <1>0, <1>1, <1>4, <1>7
<1>9. Strung(Long(longer, n + w))
  BY <1>3, <1>7, <1>8, LongTidy
<1> QED
  BY <1>2, <1>7, <1>9

\* An operation on vectors has a result for each item.
LEMMA VOpDoes ==
    ASSUME NEW v \in Vectors, NEW op \in {"add", "sub", "mul"}, NEW cells \in Seq(Int),
           NEW ns \in Seq(Int), Len(ns) = Len(cells)
    PROVE  VOp(op, v, cells, ns) \in Seq(Int) /\ Len(VOp(op, v, cells, ns)) = Len(cells)
<1> DEFINE n == Len(cells)
<1>1. n \in Nat /\ DOMAIN cells = 1..n /\ \A i \in 1..n : cells[i] \in Int /\ ns[i] \in Int
  OBVIOUS
<1> HIDE DEF n
<1>2. \A i \in 1..n : /\ Cell(v, cells[i] + ns[i]) \in Int
                      /\ Cell(v, cells[i] - ns[i]) \in Int
                      /\ Cell(v, cells[i] * ns[i]) \in Int
  <2> SUFFICES ASSUME NEW i \in 1..n
               PROVE  /\ Cell(v, cells[i] + ns[i]) \in Int
                      /\ Cell(v, cells[i] - ns[i]) \in Int
                      /\ Cell(v, cells[i] * ns[i]) \in Int
    OBVIOUS
  <2> DEFINE a == cells[i]
             b == ns[i]
  <2>1. a \in Int /\ b \in Int
    BY <1>1
  <2> HIDE DEF a, b
  <2>2. a + b \in Int /\ a - b \in Int /\ a * b \in Int
    BY <2>1
  <2>3. Cell(v, a + b) \in Int /\ Cell(v, a - b) \in Int /\ Cell(v, a * b) \in Int
    BY <2>2, CellIs
  <2> QED
    BY <2>3 DEF a, b
<1>3. VAdd(v, cells, ns) \in Seq(Int) /\ Len(VAdd(v, cells, ns)) = n
  BY <1>1, <1>2 DEF VAdd
<1>4. VSub(v, cells, ns) \in Seq(Int) /\ Len(VSub(v, cells, ns)) = n
  BY <1>1, <1>2 DEF VSub
<1>5. VMul(v, cells, ns) \in Seq(Int) /\ Len(VMul(v, cells, ns)) = n
  BY <1>1, <1>2 DEF VMul
<1>6. VOp(op, v, cells, ns) \in {VAdd(v, cells, ns), VSub(v, cells, ns), VMul(v, cells, ns)}
  BY DEF VOp
<1> QED
  BY <1>3, <1>4, <1>5, <1>6 DEF n

-----------------------------------------------------------------------------
(* Statements about vectors and dynamic strings.                            *)

\* The blocks of vectors and dynamic strings, and what fits one.
LEMMA BlocksAre ==
    ASSUME Sound
    PROVE  /\ \A v \in Vectors : Tidy(heap.block[v])
           /\ \A d \in Dstrings : Tidy(heap.block[d])
           /\ \A d \in Dstrings : d \in heap.live => Strung(heap.block[d])
<1>1. BlocksFit(heap) /\ heap \in Heap
  BY DEF Sound, Books
<1>2. \A b \in Vectors \union Dstrings : heap.block[b] \in Blocks
  BY <1>1, HeapFields
<1> QED
  BY <1>1, <1>2 DEF BlocksFit, Tidy, Strung

\* Vectors are tidy, dynamic strings also have a terminator.
LEMMA FitsAre ==
    /\ \A v \in Vectors : \A b : Tidy(b) => FitsFor(v, b)
    /\ \A d \in Dstrings : \A b : Strung(b) => FitsFor(d, b)
<1>1. \A v \in Vectors : v \notin Dstrings
  BY Kinds
<1> QED
  BY <1>1 DEF FitsFor, Tidy, Strung

\* s = vector [] and so on
LEMMA MakeBufferSound ==
    ASSUME Sound, NEW s \in Statics, NEW used, NEW L, Reads(used, L),
           Books(Using(used), L, {}, {}, {}), SameButCounts(heap, Using(used)),
           NEW o \in Vectors \union Dstrings, o \notin heap.live,
           NEW block, FitsFor(o, block), NEW numbers, MakeBuffer(s, o, used, block, numbers)
    PROVE  Sound'
<1> DEFINE h == Using(used)
           g == [Allocated(h, o, 0) EXCEPT !.block[o] = block]
<1>1. o \in Objects /\ o \notin h.live
  BY Kinds DEF SameButCounts
<1>2. PICK promise : Statement(used, <<o>>, Store(g, s, Strong(o)), promise)
  BY DEF MakeBuffer
<1>3. Books(g, L \union {o}, {}, {}, {}) /\ o \notin L
  <2> HIDE DEF h
  <2>1. Books(h, L, {}, {}, {})
    BY DEF h
  <2> QED
    BY <1>1, <2>1, BufferMade
<1> HIDE DEF g, h
<1> QED
  BY <1>1, <1>2, <1>3, MakeSound

\* A statement that changes a vector or a dynamic string.
LEMMA ChangeBufferSound ==
    ASSUME Sound, NEW o \in Vectors \union Dstrings, o \in heap.live, NEW x, Argument(x),
           NEW block, FitsFor(o, block), NEW numbers, ChangeBuffer(o, x, block, numbers)
    PROVE  Sound'
<1> DEFINE h == Using(Operands(o, x))
           L == Ops(o, x)
           g == BlockSet(h, o, block)
<1>1. Reads(Operands(o, x), L) /\ Books(h, L, {}, {}, {}) /\ SameButCounts(heap, h)
  BY ReadTwo
<1>2. o \in h.live
  BY <1>1 DEF SameButCounts
<1>3. PICK promise : Statement(Operands(o, x), << >>, g, promise)
  BY DEF ChangeBuffer, BlockSet
<1> HIDE DEF h, L
<1>4. Books(g, L, {}, {}, {})
  BY <1>1, <1>2, BlockSetDoes
<1> HIDE DEF g
<1> QED
  BY <1>1, <1>3, <1>4, StatementSound

\* The operands of vectors and of dynamic strings.
LEMMA OperandsAre ==
    ASSUME Sound
    PROVE  /\ \A x \in Addends : Argument(x)
           /\ \A x \in Bytes : Argument(x)
<1>1. \A n : Argument(Number(n))
  BY Kind DEF Argument
<1>2. \A x \in Single : Argument(x)
  BY Arguments
<1>3. \A v \in NamedVectors : Argument(Strong(v))
  BY NamedAre, Arguments
<1>4. \A d \in NamedDstrings : Argument(Strong(d))
  BY NamedAre, Arguments
<1> QED
  BY <1>1, <1>2, <1>3, <1>4 DEF Addends, Bytes

\* Numbers are numbers.
LEMMA NumbersInt == \A n \in Numbers : n \in Int
  BY ContainersAssumption

\* The numbers that an operand of a vector stands for.
LEMMA NumbersAre ==
    ASSUME Sound, NEW n \in Nat
    PROVE  /\ \A x \in Addends : NumbersOf(x, n) \in Seq(Int)
           /\ \A x \in Single : NumbersOf(x, n) \in Seq(Int) /\ Len(NumbersOf(x, n)) = n
<1>1. ASSUME NEW x \in Single
      PROVE  NumbersOf(x, n) \in Seq(Int) /\ Len(NumbersOf(x, n)) = n
  <2>1. CASE x = Nil
    <3>1. NumbersOf(x, n) = Zeroes(n)
      BY <2>1, Kind DEF NumbersOf
    <3> QED
      BY <3>1, UnwrittenIs
  <2>2. CASE x # Nil
    <3>1. PICK m \in Numbers : x = Number(m)
      BY <2>2 DEF Single
    <3>2. NumbersOf(x, n) = [i \in 1..n |-> m]
      BY <3>1 DEF NumbersOf, Number
    <3>3. m \in Int
      BY NumbersInt
    <3> QED
      BY <3>2, <3>3
  <2> QED
    BY <2>1, <2>2
<1>2. ASSUME NEW v \in NamedVectors
      PROVE  NumbersOf(Strong(v), n) \in Seq(Int)
  <2> DEFINE b == heap.block[v]
  <2>1. v \in Vectors /\ Tidy(b)
    BY NamedAre, BlocksAre
  <2>2. NumbersOf(Strong(v), n) = [i \in 1..b.length |-> ItemOf(v, b.cells[i])]
    BY Kind DEF NumbersOf
  <2> HIDE DEF b
  <2>3. b.length \in Nat /\ b.cells \in Seq(Int) /\ b.length <= Len(b.cells)
    BY <2>1, TidyIs
  <2>4. \A i \in 1..b.length : b.cells[i] \in Int
    BY <2>3
  <2>5. \A i \in 1..b.length : ItemOf(v, b.cells[i]) \in Int
    BY <2>1, <2>4, CellIs
  <2> DEFINE m == b.length
  <2>6. m \in Nat /\ NumbersOf(Strong(v), n) = [i \in 1..m |-> ItemOf(v, b.cells[i])]
        /\ \A i \in 1..m : ItemOf(v, b.cells[i]) \in Int
    BY <2>2, <2>3, <2>5
  <2> HIDE DEF m
  <2>7. [i \in 1..m |-> ItemOf(v, b.cells[i])] \in Seq(Int)
    BY <2>6
  <2> QED
    BY <2>6, <2>7
<1> QED
  BY <1>1, <1>2 DEF Addends

\* Numbers for each of n items.
LEMMA ExtendedIs ==
    ASSUME NEW ns \in Seq(Int), NEW n \in Nat
    PROVE  Extended(ns, n) \in Seq(Int) /\ Len(Extended(ns, n)) = n
<1>1. \A i \in 1..n : (IF i <= Len(ns) THEN ns[i] ELSE 0) \in Int
  OBVIOUS
<1> QED
  BY <1>1 DEF Extended

\* Numbers converted to the type of a vector.
LEMMA InCellsIs ==
    ASSUME NEW v \in Vectors, NEW ns \in Seq(Int)
    PROVE  /\ InCells(v, ns) \in Seq(Int) /\ Len(InCells(v, ns)) = Len(ns)
           /\ Len(ns) >= 1 => InCells(v, ns)[1] \in Int
<1> DEFINE n == Len(ns)
<1>1. n \in Nat /\ DOMAIN ns = 1..n /\ \A i \in 1..n : ns[i] \in Int
  OBVIOUS
<1> HIDE DEF n
<1>2. \A i \in 1..n : Cell(v, ns[i]) \in Int
  BY <1>1, CellIs
<1>3. InCells(v, ns) = [i \in 1..n |-> Cell(v, ns[i])]
  BY <1>1 DEF InCells
<1>4. InCells(v, ns) \in Seq(Int) /\ Len(InCells(v, ns)) = n
  BY <1>1, <1>2, <1>3
<1>5. n >= 1 => 1 \in 1..n
  BY <1>1
<1> QED
  BY <1>2, <1>3, <1>4, <1>5 DEF n

\* The items of a block.
LEMMA ItemsAre ==
    ASSUME NEW b, Tidy(b)
    PROVE  Items(b) \in Seq(Int) /\ Len(Items(b)) = b.length /\ b.length \in Nat
<1>0. 1 \in Int
  OBVIOUS
<1>1. b \in Blocks /\ b.length \in Nat /\ 1 \in Int
  BY <1>0, TidyIs
<1> QED
  BY <1>1, CellsAre DEF Items

\* One operand of a vector, as it is stored.
LEMMA OneNumber ==
    ASSUME Sound, NEW v \in Vectors, NEW x \in Single
    PROVE  InCells(v, NumbersOf(x, 1))[1] \in Int
<1> DEFINE ns == NumbersOf(x, 1)
<1>1. ns \in Seq(Int) /\ Len(ns) = 1
  BY NumbersAre
<1> HIDE DEF ns
<1>2. Len(ns) >= 1
  BY <1>1
<1>3. InCells(v, ns)[1] \in Int
  BY <1>1, <1>2, InCellsIs
<1> QED
  BY <1>3 DEF ns

\* v op x has as many items as v.
LEMMA CombinedIs ==
    ASSUME Sound, NEW v \in Vectors, NEW w \in Vectors, NEW op \in {"add", "sub", "mul"}, NEW x \in Addends
    PROVE  LET items == Items(heap.block[v])
               n == Len(items)
               r == VOp(op, w, items, Extended(NumbersOf(x, n), n))
           IN  r \in Seq(Int) /\ Len(r) = heap.block[v].length
<1> DEFINE items == Items(heap.block[v])
           n == Len(items)
           ns == NumbersOf(x, n)
           ext == Extended(ns, n)
<1>1. items \in Seq(Int) /\ n = heap.block[v].length /\ n \in Nat
  BY BlocksAre, ItemsAre
<1>2. ns \in Seq(Int)
  <2> HIDE DEF n
  <2> QED
    BY <1>1, NumbersAre
<1>3. ext \in Seq(Int) /\ Len(ext) = n
  <2> HIDE DEF n, ns
  <2> QED
    BY <1>1, <1>2, ExtendedIs
<1> HIDE DEF ext, items
<1>4. VOp(op, w, items, ext) \in Seq(Int) /\ Len(VOp(op, w, items, ext)) = Len(items)
  BY <1>1, <1>3, VOpDoes
<1> QED
  BY <1>1, <1>4 DEF ext, items

\* Vectors, dynamic strings and files that can be made.
LEMMA SpareBuffers ==
    ASSUME Sound
    PROVE  /\ \A o \in Spare(Vectors) : o \in Vectors /\ o \notin heap.live
           /\ \A o \in Spare(Dstrings) : o \in Dstrings /\ o \notin heap.live
           /\ \A o \in Spare(Files) : o \in Files /\ o \notin heap.live
  BY SpareAre, Kinds

\* A statement that reads nothing.
LEMMA NoneRead ==
    ASSUME Sound, NEW L, L = {}
    PROVE  Reads(<< >>, L) /\ Books(Using(<< >>), L, {}, {}, {}) /\ SameButCounts(heap, Using(<< >>))
<1>1. Argument(Nil) /\ Uses(Nil) = << >> /\ UsesSet(Nil) = {}
  BY Arguments, Kind DEF Uses, UsesSet
<1>2. UsesSet(Nil) = L
  BY <1>1
<1> QED
  BY <1>1, <1>2, ReadOne

\* s = vector [numbers]
LEMMA MakeVectorSound ==
    ASSUME Sound, NEW s \in Statics, NEW o \in Spare(Vectors), NEW ns \in Seq(Int), MakeVector(s, o, ns)
    PROVE  Sound'
<1> DEFINE L == {}
           block == NewVector(InCells(o, ns))
<1>1. o \in Vectors /\ o \notin heap.live
  BY SpareBuffers
<1>2. Reads(<< >>, L) /\ Books(Using(<< >>), L, {}, {}, {}) /\ SameButCounts(heap, Using(<< >>))
  BY NoneRead
<1>3. FitsFor(o, block)
  BY <1>1, InCellsIs, NewVectorDoes, FitsAre
<1>4. PICK numbers : MakeBuffer(s, o, << >>, block, numbers)
  BY DEF MakeVector
<1> HIDE DEF L, block
<1> QED
  BY <1>1, <1>2, <1>3, <1>4, MakeBufferSound

\* Every statement about vectors keeps Sound.
LEMMA VectorSound ==
    ASSUME Sound, VectorStatement
    PROVE  Sound'
<1>1. ASSUME NEW s \in Statics, NEW o \in Spare(Vectors), MakeVector(s, o, << >>)
      PROVE  Sound'
  <2>1. << >> \in Seq(Int)
    OBVIOUS
  <2> QED
    BY <1>1, <2>1, MakeVectorSound
<1>2. ASSUME NEW s \in Statics, NEW o \in Spare(Vectors), NEW n \in Numbers, MakeVector(s, o, <<n>>)
      PROVE  Sound'
  <2>1. <<n>> \in Seq(Int)
    BY NumbersInt
  <2> QED
    BY <1>2, <2>1, MakeVectorSound
<1>3. ASSUME NEW s \in Statics, NEW o \in Spare(Vectors), NEW v \in NamedVectors,
             NEW from \in 1..heap.block[v].length + 1, NEW to \in from - 1..heap.block[v].length,
             CopyVector(s, o, v, from, to)
      PROVE  Sound'
  <2> DEFINE L == {v}
             n == to - from + 1
             block == NewVector(Cells(heap.block[v], from, n))
  <2>1. o \in Vectors /\ o \notin heap.live /\ v \in Vectors /\ v \in heap.live /\ Tidy(heap.block[v])
    BY SpareBuffers, NamedAre, BlocksAre
  <2>2. Reads(<<v>>, L) /\ Books(Using(<<v>>), L, {}, {}, {}) /\ SameButCounts(heap, Using(<<v>>))
    BY <2>1, ReadAlone
  <2>3. heap.block[v] \in Blocks /\ heap.block[v].length \in Nat
    BY <2>1, TidyIs
  <2>4. n \in Nat /\ from \in Int
    BY <2>3
  <2>5. PICK numbers : MakeBuffer(s, o, <<v>>, block, numbers)
    BY <1>3 DEF CopyVector
  <2>6. FitsFor(o, block)
    <3> HIDE DEF n
    <3>1. Cells(heap.block[v], from, n) \in Seq(Int)
      BY <2>3, <2>4, CellsAre
    <3> QED
      BY <2>1, <3>1, NewVectorDoes, FitsAre
  <2> HIDE DEF L, block
  <2> QED
    BY <2>1, <2>2, <2>5, <2>6, MakeBufferSound
<1>4. ASSUME NEW s \in Statics, NEW o \in Spare(Vectors), NEW v \in NamedVectors,
             NEW op \in {"add", "sub", "mul"}, NEW x \in Addends, MakeCombined(s, o, op, v, x)
      PROVE  Sound'
  <2> DEFINE items == Items(heap.block[v])
             r == VOp(op, o, items, Extended(NumbersOf(x, Len(items)), Len(items)))
             block == NewVector(r)
             used == Operands(v, x)
             L == Ops(v, x)
  <2>1. o \in Vectors /\ o \notin heap.live /\ v \in Vectors /\ v \in heap.live /\ Argument(x)
    BY SpareBuffers, NamedAre, OperandsAre
  <2>2. Reads(used, L) /\ Books(Using(used), L, {}, {}, {}) /\ SameButCounts(heap, Using(used))
    BY <2>1, ReadTwo
  <2>3. r \in Seq(Int)
    BY <2>1, CombinedIs
  <2>4. PICK numbers : MakeBuffer(s, o, used, block, numbers)
    BY <1>4 DEF MakeCombined
  <2> HIDE DEF r, used, L
  <2>5. FitsFor(o, block)
    BY <2>1, <2>3, NewVectorDoes, FitsAre
  <2> HIDE DEF block
  <2> QED
    BY <2>1, <2>2, <2>4, <2>5, MakeBufferSound
<1>5. ASSUME NEW v \in NamedVectors, NEW op \in {"add", "sub", "mul"}, NEW x \in Addends,
             Combine(op, v, x)
      PROVE  Sound'
  <2> DEFINE items == Items(heap.block[v])
             r == VOp(op, v, items, Extended(NumbersOf(x, Len(items)), Len(items)))
             block == Write(heap.block[v], 1, r)
  <2>1. v \in Vectors /\ v \in heap.live /\ Argument(x) /\ Tidy(heap.block[v])
    BY NamedAre, OperandsAre, BlocksAre
  <2>2. r \in Seq(Int) /\ Len(r) = heap.block[v].length
    BY <2>1, CombinedIs
  <2>3. PICK numbers : ChangeBuffer(v, x, block, numbers)
    BY <1>5 DEF Combine
  <2> HIDE DEF r
  <2>4. heap.block[v] \in Blocks /\ heap.block[v].within /\ heap.block[v].length \in Nat
        /\ heap.block[v].length <= Len(heap.block[v].cells) /\ Len(heap.block[v].cells) \in Nat
    BY <2>1, TidyIs
  <2>5. 1 \in Int /\ (Len(r) # 0 => 1 >= 1 /\ 1 + Len(r) - 1 <= Len(heap.block[v].cells))
    BY <2>2, <2>4
  <2>6. Alike(heap.block[v], block)
    BY <2>2, <2>4, <2>5, WriteDoes
  <2> HIDE DEF block
  <2>7. FitsFor(v, block)
    BY <2>1, <2>6, AlikeTidy, FitsAre
  <2> QED
    BY <2>1, <2>3, <2>7, ChangeBufferSound
<1>6. ASSUME NEW v \in NamedVectors, NEW i \in 1..MaxLength, NEW x \in Single, SetNumber(v, i, x)
      PROVE  Sound'
  <2> DEFINE cell == InCells(v, NumbersOf(x, 1))[1]
             block == VectorSet(heap.block[v], i, cell)
  <2>1. v \in Vectors /\ v \in heap.live /\ Argument(x) /\ Tidy(heap.block[v])
    BY NamedAre, Arguments, BlocksAre
  <2>2. cell \in Int /\ i \in Nat \ {0}
    BY <2>1, OneNumber
  <2>3. PICK numbers : ChangeBuffer(v, x, block, numbers)
    BY <1>6 DEF SetNumber
  <2> HIDE DEF cell
  <2>4. FitsFor(v, block)
    BY <2>1, <2>2, VectorSetDoes, FitsAre
  <2> HIDE DEF block
  <2> QED
    BY <2>1, <2>3, <2>4, ChangeBufferSound
<1>7. ASSUME NEW v \in NamedVectors, NEW i \in 1..heap.block[v].length + 1, NEW x \in Single,
             InsertNumber(v, i, x)
      PROVE  Sound'
  <2> DEFINE cell == InCells(v, NumbersOf(x, 1))[1]
             block == VectorInsert(heap.block[v], i, cell)
  <2>1. v \in Vectors /\ v \in heap.live /\ Argument(x) /\ Tidy(heap.block[v])
    BY NamedAre, Arguments, BlocksAre
  <2>2. cell \in Int
    BY <2>1, OneNumber
  <2>3. PICK numbers : ChangeBuffer(v, x, block, numbers)
    BY <1>7 DEF InsertNumber
  <2> HIDE DEF cell
  <2>4. FitsFor(v, block)
    BY <2>1, <2>2, VectorInsertDoes, FitsAre
  <2> HIDE DEF block
  <2> QED
    BY <2>1, <2>3, <2>4, ChangeBufferSound
<1>8. ASSUME NEW v \in NamedVectors, NEW from, NEW to, DeleteNumbers(v, from, to),
             from \in Nat \ {0}, to \in Nat, from <= to + 1, to <= heap.block[v].length
      PROVE  Sound'
  <2> DEFINE block == VectorDelete(heap.block[v], from, to)
  <2>1. v \in Vectors /\ v \in heap.live /\ Argument(Nil) /\ Tidy(heap.block[v])
    BY NamedAre, Arguments, BlocksAre
  <2>3. PICK numbers : ChangeBuffer(v, Nil, block, numbers)
    BY <1>8 DEF DeleteNumbers
  <2>4. FitsFor(v, block)
    BY <2>1, <1>8, VectorDeleteDoes, FitsAre
  <2> HIDE DEF block
  <2> QED
    BY <2>1, <2>3, <2>4, ChangeBufferSound
<1>9. ASSUME NEW v \in NamedVectors, NEW x \in Addends, AppendNumbers(v, x)
      PROVE  Sound'
  <2> DEFINE cells == InCells(v, NumbersOf(x, 1))
             block == VectorAppend(heap.block[v], cells)
  <2>1. v \in Vectors /\ v \in heap.live /\ Argument(x) /\ Tidy(heap.block[v])
    BY NamedAre, OperandsAre, BlocksAre
  <2>2. cells \in Seq(Int)
    <3>1. NumbersOf(x, 1) \in Seq(Int)
      BY NumbersAre
    <3> QED
      BY <2>1, <3>1, InCellsIs
  <2>3. PICK numbers : ChangeBuffer(v, x, block, numbers)
    BY <1>9 DEF AppendNumbers
  <2> HIDE DEF cells
  <2>4. FitsFor(v, block)
    BY <2>1, <2>2, VectorAppendDoes, FitsAre
  <2> HIDE DEF block
  <2> QED
    BY <2>1, <2>3, <2>4, ChangeBufferSound
<1>10. ASSUME NEW s \in Statics, NEW o \in Spare(Vectors),
             \/ MakeVector(s, o, << >>)
             \/ \E n \in Numbers : MakeVector(s, o, <<n>>)
             \/ \E v \in NamedVectors :
                \/ \E from \in 1..heap.block[v].length + 1 :
                      \E to \in from - 1..heap.block[v].length : CopyVector(s, o, v, from, to)
                \/ \E op \in {"add", "sub", "mul"}, x \in Addends : MakeCombined(s, o, op, v, x)
       PROVE  Sound'
  BY <1>1, <1>2, <1>3, <1>4, <1>10
<1>11. ASSUME NEW v \in NamedVectors,
             \/ \E op \in {"add", "sub", "mul"}, x \in Addends : Combine(op, v, x)
             \/ \E i \in 1..MaxLength, x \in Single : SetNumber(v, i, x)
             \/ \E i \in 1..heap.block[v].length + 1, x \in Single : InsertNumber(v, i, x)
             \/ \E x \in Addends : AppendNumbers(v, x)
       PROVE  Sound'
  BY <1>5, <1>6, <1>7, <1>9, <1>11
<1>12. ASSUME NEW v \in NamedVectors,
             \/ \E from, to \in 1..heap.block[v].length : from <= to /\ DeleteNumbers(v, from, to)
             \/ DeleteNumbers(v, 1, heap.block[v].length)
       PROVE  Sound'
  <2> DEFINE n == heap.block[v].length
  <2>1. n \in Nat
    BY NamedAre, BlocksAre, TidyIs
  <2>2. CASE \E from, to \in 1..n : from <= to /\ DeleteNumbers(v, from, to)
    <3>1. PICK from \in 1..n : \E to \in 1..n : from <= to /\ DeleteNumbers(v, from, to)
      BY <2>2
    <3>2. PICK to \in 1..n : from <= to /\ DeleteNumbers(v, from, to)
      BY <3>1
    <3>3. from \in Nat \ {0} /\ to \in Nat /\ from <= to + 1 /\ to <= n
      BY <2>1, <3>2
    <3> QED
      BY <3>2, <3>3, <1>8
  <2>3. CASE DeleteNumbers(v, 1, n)
    <3>1. 1 \in Nat \ {0} /\ 1 <= n + 1 /\ n <= n
      BY <2>1
    <3> QED
      BY <2>1, <2>3, <3>1, <1>8
  <2> QED
    BY <1>12, <2>2, <2>3
<1> QED
  BY <1>10, <1>11, <1>12 DEF VectorStatement

\* The bytes that an operand of a dynamic string stands for.
LEMMA BytesAre ==
    ASSUME Sound
    PROVE  \A x \in Bytes : BytesOf(x) \in Seq(Int)
<1>1. ASSUME NEW n \in Numbers PROVE BytesOf(Number(n)) \in Seq(Int)
  <2>1. BytesOf(Number(n)) = <<n>> /\ n \in Int
    BY NumbersInt DEF BytesOf, Number
  <2> QED
    BY <2>1
<1>2. ASSUME NEW d \in NamedDstrings PROVE BytesOf(Strong(d)) \in Seq(Int)
  <2>1. BytesOf(Strong(d)) = Items(heap.block[d])
    BY Kind DEF BytesOf
  <2>2. Tidy(heap.block[d])
    BY NamedAre, BlocksAre
  <2> QED
    BY <2>1, <2>2, ItemsAre
<1> QED
  BY <1>1, <1>2 DEF Bytes

\* A statement that makes a dynamic string.
LEMMA MakeDstringSound ==
    ASSUME Sound, NEW s \in Statics, NEW o \in Spare(Dstrings), NEW bytes \in Seq(Int),
           NEW used, NEW L, Reads(used, L), Books(Using(used), L, {}, {}, {}),
           SameButCounts(heap, Using(used)), NEW numbers,
           MakeBuffer(s, o, used, NewDstring(bytes), numbers)
    PROVE  Sound'
<1>1. o \in Dstrings /\ o \notin heap.live
  BY SpareBuffers
<1>2. FitsFor(o, NewDstring(bytes))
  BY <1>1, NewDstringDoes, FitsAre
<1> QED
  BY <1>1, <1>2, MakeBufferSound

\* One sequence after the other.
LEMMA Joined ==
    ASSUME NEW r \in Seq(Int), NEW s \in Seq(Int)
    PROVE  r \o s \in Seq(Int)
  OBVIOUS

\* Every statement about dynamic strings keeps Sound.
LEMMA DstringSound ==
    ASSUME Sound, DstringStatement
    PROVE  Sound'
<1>1. ASSUME NEW s \in Statics, NEW o \in Spare(Dstrings), NEW bytes \in Seq(Int), MakeDstring(s, o, bytes)
      PROVE  Sound'
  <2> DEFINE L == {}
  <2>1. Reads(<< >>, L) /\ Books(Using(<< >>), L, {}, {}, {}) /\ SameButCounts(heap, Using(<< >>))
    BY NoneRead
  <2> HIDE DEF L
  <2>2. PICK numbers : MakeBuffer(s, o, << >>, NewDstring(bytes), numbers)
    BY <1>1 DEF MakeDstring
  <2> QED
    BY <2>1, <2>2, MakeDstringSound
<1>2. << >> \in Seq(Int) /\ \A n \in Numbers : <<n>> \in Seq(Int)
  BY NumbersInt
<1>3. ASSUME NEW s \in Statics, NEW o \in Spare(Dstrings), NEW d \in NamedDstrings,
             NEW from \in 1..heap.block[d].length + 1, NEW to \in from - 1..heap.block[d].length,
             CopyDstring(s, o, d, from, to)
      PROVE  Sound'
  <2> DEFINE L == {d}
             n == to - from + 1
             bytes == Cells(heap.block[d], from, n)
  <2>1. d \in heap.live /\ Tidy(heap.block[d])
    BY NamedAre, BlocksAre
  <2>2. Reads(<<d>>, L) /\ Books(Using(<<d>>), L, {}, {}, {}) /\ SameButCounts(heap, Using(<<d>>))
    BY <2>1, ReadAlone
  <2>3. heap.block[d] \in Blocks /\ heap.block[d].length \in Nat
    BY <2>1, TidyIs
  <2>4. n \in Nat /\ from \in Int
    BY <2>3
  <2>5. PICK numbers : MakeBuffer(s, o, <<d>>, NewDstring(bytes), numbers)
    BY <1>3 DEF CopyDstring
  <2>6. bytes \in Seq(Int)
    <3> HIDE DEF n
    <3> QED
      BY <2>3, <2>4, CellsAre
  <2> HIDE DEF L, bytes
  <2> QED
    BY <2>2, <2>5, <2>6, MakeDstringSound
<1>4. ASSUME NEW s \in Statics, NEW o \in Spare(Dstrings), NEW d \in NamedDstrings, NEW x \in Bytes,
             MakeJoined(s, o, d, x)
      PROVE  Sound'
  <2> DEFINE used == Operands(d, x)
             L == Ops(d, x)
             bytes == Items(heap.block[d]) \o BytesOf(x)
  <2>1. d \in heap.live /\ Tidy(heap.block[d]) /\ Argument(x)
    BY NamedAre, BlocksAre, OperandsAre
  <2>2. Reads(used, L) /\ Books(Using(used), L, {}, {}, {}) /\ SameButCounts(heap, Using(used))
    BY <2>1, ReadTwo
  <2>3. PICK numbers : MakeBuffer(s, o, used, NewDstring(bytes), numbers)
    BY <1>4 DEF MakeJoined
  <2>4. Items(heap.block[d]) \in Seq(Int) /\ BytesOf(x) \in Seq(Int)
    BY <2>1, ItemsAre, BytesAre
  <2>5. bytes \in Seq(Int)
    BY <2>4, Joined
  <2> HIDE DEF L, used, bytes
  <2> QED
    BY <2>2, <2>3, <2>5, MakeDstringSound
<1>5. ASSUME NEW d \in NamedDstrings, NEW i \in 1..MaxLength, NEW n \in Numbers, SetByte(d, i, n)
      PROVE  Sound'
  <2> DEFINE block == DstringSet(heap.block[d], i, n)
  <2>1. d \in Dstrings /\ d \in heap.live /\ Argument(Nil) /\ Strung(heap.block[d])
    BY NamedAre, Arguments, BlocksAre
  <2>2. n \in Int /\ i \in Nat \ {0}
    BY NumbersInt
  <2>3. PICK numbers : ChangeBuffer(d, Nil, block, numbers)
    BY <1>5 DEF SetByte
  <2>4. FitsFor(d, block)
    BY <2>1, <2>2, DstringSetDoes, FitsAre
  <2> HIDE DEF block
  <2> QED
    BY <2>1, <2>3, <2>4, ChangeBufferSound
<1>6. ASSUME NEW d \in NamedDstrings, NEW i \in 1..heap.block[d].length + 1, NEW x \in Bytes,
             InsertBytes(d, i, x)
      PROVE  Sound'
  <2> DEFINE block == DstringInsert(heap.block[d], i, BytesOf(x))
  <2>1. d \in Dstrings /\ d \in heap.live /\ Argument(x) /\ Strung(heap.block[d])
    BY NamedAre, OperandsAre, BlocksAre
  <2>2. BytesOf(x) \in Seq(Int)
    BY BytesAre
  <2>3. PICK numbers : ChangeBuffer(d, x, block, numbers)
    BY <1>6 DEF InsertBytes
  <2>4. FitsFor(d, block)
    BY <2>1, <2>2, DstringInsertDoes, FitsAre
  <2> HIDE DEF block
  <2> QED
    BY <2>1, <2>3, <2>4, ChangeBufferSound
<1>7. ASSUME NEW d \in NamedDstrings, NEW from, NEW to, DeleteBytes(d, from, to),
             from \in Nat \ {0}, to \in Nat, from <= to + 1, to <= heap.block[d].length
      PROVE  Sound'
  <2> DEFINE block == DstringDelete(heap.block[d], from, to)
  <2>1. d \in Dstrings /\ d \in heap.live /\ Argument(Nil) /\ Strung(heap.block[d])
    BY NamedAre, Arguments, BlocksAre
  <2>3. PICK numbers : ChangeBuffer(d, Nil, block, numbers)
    BY <1>7 DEF DeleteBytes
  <2>4. FitsFor(d, block)
    BY <2>1, <1>7, DstringDeleteDoes, FitsAre
  <2> HIDE DEF block
  <2> QED
    BY <2>1, <2>3, <2>4, ChangeBufferSound
<1>8. ASSUME NEW d \in NamedDstrings, NEW x \in Bytes, AppendBytes(d, x)
      PROVE  Sound'
  <2> DEFINE b == heap.block[d]
             longer == IF x.kind = "number" THEN DstringSet(b, b.length + 1, x.n)
                                            ELSE DstringAppend(b, BytesOf(x))
  <2>1. d \in Dstrings /\ d \in heap.live /\ Argument(x) /\ Strung(b)
    BY NamedAre, OperandsAre, BlocksAre
  <2>2. BytesOf(x) \in Seq(Int)
    BY BytesAre
  <2>3. PICK numbers : ChangeBuffer(d, x, longer, numbers)
    BY <1>8 DEF AppendBytes
  <2>4. x.kind = "number" => x.n \in Int
    <3>1. CASE \E n \in Numbers : x = Number(n)
      BY <3>1, NumbersInt DEF Number
    <3>2. CASE \E e \in NamedDstrings : x = Strong(e)
      BY <3>2, Kind
    <3> QED
      BY <3>1, <3>2 DEF Bytes
  <2>5. b.length + 1 \in Nat \ {0}
    <3>1. b.length \in Nat
      BY <2>1, StrungIs
    <3> QED
      BY <3>1
  <2>6. x.kind = "number" => Strung(DstringSet(b, b.length + 1, x.n))
    BY <2>1, <2>4, <2>5, DstringSetDoes
  <2>7. Strung(DstringAppend(b, BytesOf(x)))
    BY <2>1, <2>2, DstringAppendDoes
  <2>8. Strung(longer)
    BY <2>6, <2>7
  <2> HIDE DEF longer
  <2>9. FitsFor(d, longer)
    BY <2>1, <2>8, FitsAre
  <2> QED
    BY <2>1, <2>3, <2>9, ChangeBufferSound
<1>10. ASSUME NEW s \in Statics, NEW o \in Spare(Dstrings),
             \/ MakeDstring(s, o, << >>)
             \/ \E n \in Numbers : MakeDstring(s, o, <<n>>)
             \/ \E d \in NamedDstrings :
                \/ \E from \in 1..heap.block[d].length + 1 :
                      \E to \in from - 1..heap.block[d].length : CopyDstring(s, o, d, from, to)
                \/ \E x \in Bytes : MakeJoined(s, o, d, x)
       PROVE  Sound'
  BY <1>1, <1>2, <1>3, <1>4, <1>10
<1>11. ASSUME NEW d \in NamedDstrings,
             \/ \E i \in 1..MaxLength, n \in Numbers : SetByte(d, i, n)
             \/ \E i \in 1..heap.block[d].length + 1, x \in Bytes : InsertBytes(d, i, x)
             \/ \E x \in Bytes : AppendBytes(d, x)
       PROVE  Sound'
  BY <1>5, <1>6, <1>8, <1>11
<1>12. ASSUME NEW d \in NamedDstrings,
             \/ \E from, to \in 1..heap.block[d].length : from <= to /\ DeleteBytes(d, from, to)
             \/ DeleteBytes(d, 1, heap.block[d].length)
       PROVE  Sound'
  <2> DEFINE n == heap.block[d].length
  <2>1. n \in Nat
    BY NamedAre, BlocksAre, TidyIs
  <2>2. CASE \E from, to \in 1..n : from <= to /\ DeleteBytes(d, from, to)
    <3>1. PICK from \in 1..n : \E to \in 1..n : from <= to /\ DeleteBytes(d, from, to)
      BY <2>2
    <3>2. PICK to \in 1..n : from <= to /\ DeleteBytes(d, from, to)
      BY <3>1
    <3>3. from \in Nat \ {0} /\ to \in Nat /\ from <= to + 1 /\ to <= n
      BY <2>1, <3>2
    <3> QED
      BY <3>2, <3>3, <1>7
  <2>3. CASE DeleteBytes(d, 1, n)
    <3>1. 1 \in Nat \ {0} /\ 1 <= n + 1 /\ n <= n
      BY <2>1
    <3> QED
      BY <2>1, <2>3, <3>1, <1>7
  <2> QED
    BY <1>12, <2>2, <2>3
<1> QED
  BY <1>10, <1>11, <1>12 DEF DstringStatement

-----------------------------------------------------------------------------
(* Statements about memory files.                                           *)

\* The string of a file.
LEMMA FileIs ==
    ASSUME Sound, NEW f \in NamedFiles
    PROVE  /\ f \in Files /\ f \in Objects /\ f \in heap.live
           /\ <<f, 1>> \in Places(heap) /\ heap.position[f] \in Nat
           /\ 1 \in 1..Len(heap.items[f])
           /\ BufferOf(f) = Nil \/ \E d \in Dstrings : BufferOf(f) = Strong(d) /\ d \in heap.live
<1> DEFINE p == <<f, 1>>
           none == {}
<1>1. f \in Files /\ f \in Objects /\ f \in heap.live
  BY NamedAre
<1>2. heap \in Heap /\ Shapes(heap) /\ Books(heap, {}, none, {}, {}) /\ p \notin none
  BY DEF Sound, Books
<1> HIDE DEF none
<1>3. Len(heap.items[f]) = 1 /\ FileValue(heap.items[f][1].value)
  BY <1>1, <1>2 DEF Shapes
<1>4. 1 \in 1..Len(heap.items[f])
  BY <1>3
<1>5. p \in Places(heap) /\ ValueAt(heap, p) = heap.items[f][1].value
  BY <1>1, <1>2, <1>4, PlacesAre
<1>6. heap.position[f] \in Nat
  BY <1>1, <1>2, HeapFields
<1> HIDE DEF p
<1>7. ValueAt(heap, p).kind = "strong" => ValueAt(heap, p).o \in heap.live
  BY <1>2, <1>5, BooksSay
<1>8. BufferOf(f) = ValueAt(heap, p)
  BY DEF BufferOf, p
<1>9. BufferOf(f) = Nil \/ \E d \in Dstrings : BufferOf(f) = Strong(d) /\ d \in heap.live
  BY <1>3, <1>5, <1>7, <1>8, Kind DEF FileValue
<1> QED
  BY <1>1, <1>4, <1>5, <1>6, <1>9 DEF p

\* A file that is open has a dynamic string that exists.
LEMMA OpenIs ==
    ASSUME Sound, NEW f \in NamedFiles, IsOpen(f)
    PROVE  LET d == BufferOf(f).o
           IN  /\ BufferOf(f) = Strong(d) /\ d \in Dstrings /\ d \in heap.live
               /\ Contained(f) = heap.block[d] /\ Strung(heap.block[d])
<1>1. BufferOf(f) # Nil
  BY DEF IsOpen
<1>2. PICK d \in Dstrings : BufferOf(f) = Strong(d) /\ d \in heap.live
  BY <1>1, FileIs
<1>3. BufferOf(f).o = d
  BY <1>2, Kind
<1> QED
  BY <1>2, <1>3, BlocksAre DEF Contained

\* A statement that writes to a file, or moves its position.
LEMMA ChangeFileSound ==
    ASSUME Sound, NEW f \in NamedFiles, IsOpen(f), NEW x, Argument(x), NEW position \in Nat,
           NEW block, Strung(block), NEW numbers, ChangeFile(f, x, position, block, numbers)
    PROVE  Sound'
<1> DEFINE d == BufferOf(f).o
           h == Using(Operands(f, x))
           L == Ops(f, x)
           g == At0(BlockSet(h, d, block), f, position)
<1>1. f \in Files /\ f \in heap.live /\ d \in Dstrings /\ d \in heap.live
  BY FileIs, OpenIs
<1>2. Reads(Operands(f, x), L) /\ Books(h, L, {}, {}, {}) /\ SameButCounts(heap, h)
  BY <1>1, ReadTwo
<1>3. PICK promise : Statement(Operands(f, x), << >>,
                        [h EXCEPT !.block[d] = block, !.position[f] = position], promise)
  BY DEF ChangeFile
<1> HIDE DEF d, h, L
<1>4. [h EXCEPT !.block[d] = block, !.position[f] = position] = g
  BY DEF At0, BlockSet
<1>5. FitsFor(d, block) /\ d \in h.live
  BY <1>1, <1>2, FitsAre DEF SameButCounts
<1>6. Books(BlockSet(h, d, block), L, {}, {}, {})
  BY <1>1, <1>2, <1>5, BlockSetDoes
<1>7. Books(g, L, {}, {}, {})
  BY <1>1, <1>6, PositionDoes
<1> HIDE DEF g
<1> QED
  BY <1>2, <1>3, <1>4, <1>7, StatementSound

\* A statement that gives a file another string, or none.
LEMMA ChangeOfBufferSound ==
    ASSUME Sound, NEW f \in NamedFiles, NEW v, Argument(v), NEW changed,
           Books(changed, Ops(f, v), {}, {}, {}), NEW now, ChangeOfBuffer(f, v, changed, now)
    PROVE  Sound'
<1> DEFINE g == At0(changed, f, 0)
           L == Ops(f, v)
<1>1. f \in Files /\ f \in heap.live /\ 0 \in Nat
  BY FileIs
<1>2. Reads(Operands(f, v), L)
  BY <1>1, ReadTwo
<1>3. PICK promise : Statement(Operands(f, v), << >>, g, promise)
  BY DEF ChangeOfBuffer, Rewound, At0
<1> HIDE DEF L
<1>4. Books(changed, L, {}, {}, {})
  BY DEF L
<1>5. Books(g, L, {}, {}, {})
  BY <1>1, <1>4, PositionDoes
<1> HIDE DEF g
<1> QED
  BY <1>2, <1>3, <1>5, StatementSound

\* s = memfile [d]
LEMMA MakeFileSound ==
    ASSUME Sound, NEW s \in Statics, NEW o \in Spare(Files), NEW d \in NamedDstrings, MakeFile(s, o, d)
    PROVE  Sound'
<1> DEFINE h == Using(<<d>>)
           L == {d}
           g == OneItem(h, o)
           p == <<o, 1>>
           v == Strong(d)
           k == Copy(g, p, v)
<1>1. o \in Files /\ o \notin heap.live /\ o \in Objects /\ d \in Dstrings /\ d \in heap.live
  BY SpareBuffers, NamedAre, Kinds
<1>2. Reads(<<d>>, L) /\ Books(h, L, {}, {}, {}) /\ SameButCounts(heap, h) /\ d \in L
  BY <1>1, ReadAlone
<1>3. PICK promise : Statement(<<d>>, <<o>>, Store(k, s, Strong(o)), promise)
  BY DEF MakeFile, Make, OneItem
<1> HIDE DEF h, L
<1>4. o \in Arrays \union Files /\ o \notin h.live
  BY <1>1, <1>2 DEF SameButCounts
<1>5. /\ Books(g, L \union {o}, {}, {}, {}) /\ o \notin L
      /\ p \in Places(g) /\ ValueAt(g, p) = Nil /\ g.live = h.live \union {o}
  BY <1>2, <1>4, OneItemDoes
<1> HIDE DEF g
<1>6. Copied(g, p, v)
  <2>1. d \in g.live
    BY <1>1, <1>2, <1>5 DEF SameButCounts
  <2>2. FileValue(v)
    BY <1>1 DEF FileValue
  <2> QED
    BY <2>1, <2>2 DEF Copied
<1>7. Len(p) = 2 => p[1] \in L \union {o}
  OBVIOUS
<1> HIDE DEF p, v
<1>8. Books(k, L \union {o}, {}, {}, {})
  BY <1>5, <1>6, <1>7, FilledNil
<1> HIDE DEF k
<1> QED
  BY <1>1, <1>2, <1>3, <1>5, <1>8, MakeSound

\* s = f.buffer
LEMMA GetBufferSound ==
    ASSUME Sound, NEW s \in Statics, NEW f \in NamedFiles, GetBuffer(s, f)
    PROVE  Sound'
<1> DEFINE v == BufferOf(f)
<1>1. IsOpen(f) /\ f \in heap.live
  BY FileIs DEF GetBuffer
<1>2. v = Strong(v.o) /\ v.o \in heap.live
  BY <1>1, OpenIs
<1>3. Argument(v) /\ v.kind # "number"
  BY <1>2, Arguments, Kind
<1>4. PICK promise : Statement(Operands(f, v), << >>, Store(Using(Operands(f, v)), s, v), promise)
  BY DEF GetBuffer
<1> HIDE DEF v
<1> QED
  BY <1>1, <1>3, <1>4, GetSound

\* f.buffer = d
LEMMA SetBufferSound ==
    ASSUME Sound, NEW f \in NamedFiles, NEW d \in NamedDstrings, SetBuffer(f, d)
    PROVE  Sound'
<1> DEFINE h == Using(<<f, d>>)
           v == Strong(d)
           L == Ops(f, v)
           g == Replaced(h, f, 1, v)
<1>1. f \in Files /\ f \in heap.live /\ f \in Objects /\ d \in Dstrings /\ d \in heap.live
      /\ 1 \in 1..Len(heap.items[f])
  BY FileIs, NamedAre
<1>2. L = {f, d}
  BY OpsAre
<1>3. Books(h, L, {}, {}, {}) /\ SameButCounts(heap, h)
  BY <1>1, <1>2, ReadPair
<1>4. f \in L /\ Operand(v, L) /\ FileValue(v)
  BY <1>1, <1>2 DEF Operand, FileValue
<1>5. Argument(v)
  BY <1>1, Arguments
<1>6. PICK now : ChangeOfBuffer(f, v, g, now)
  BY DEF SetBuffer
<1> HIDE DEF h, L, v
<1>7. 1 \in 1..Len(h.items[f])
  BY <1>1, <1>3 DEF SameButCounts
<1>8. Books(g, L, {}, {}, {})
  BY <1>3, <1>4, <1>7, ReplacedDoes
<1>9. Books(g, Ops(f, v), {}, {}, {})
  BY <1>8 DEF L
<1> HIDE DEF g
<1> QED
  BY <1>5, <1>6, <1>9, ChangeOfBufferSound

\* s = read(f, n)
LEMMA ReadBytesSound ==
    ASSUME Sound, NEW s \in Statics, NEW o \in Spare(Dstrings), NEW f \in NamedFiles,
           NEW n \in 0..MaxLength, ReadBytes(s, o, f, n)
    PROVE  Sound'
<1> DEFINE at == heap.position[f]
           d == BufferOf(f).o
           left == Contained(f).length - at
           got == Min({n, left})
           bytes == IF n = 0 THEN << >> ELSE Cells(Contained(f), at + 1, got)
           h == Using(<<f>>)
           block == ReadDstring(n, bytes)
           made == [Allocated(h, o, 0) EXCEPT !.block[o] = block]
           pos == at + Len(bytes)
           g == At0(made, f, pos)
           L == {f}
<1>1. o \in Dstrings /\ o \notin heap.live /\ o \in Objects /\ f \in Files /\ f \in heap.live /\ at \in Nat
  BY SpareBuffers, FileIs, Kinds
<1>2. IsOpen(f) /\ (n = 0 \/ at < Contained(f).length)
  BY DEF ReadBytes
<1>3. Strung(Contained(f)) /\ n \in Nat
  <2>1. n \in Nat
    BY ContainersAssumption
  <2> QED
    BY <1>2, <2>1, OpenIs
<1>4. Contained(f) \in Blocks /\ Contained(f).length \in Nat
  BY <1>3, StrungIs
<1>5. n # 0 => got \in Nat /\ got <= n
  <2> SUFFICES ASSUME n # 0 PROVE got \in Nat /\ got <= n
    OBVIOUS
  <2>1. left \in Nat
    BY <1>1, <1>2, <1>4
  <2> HIDE DEF left
  <2> DEFINE S == {n, left}
  <2>2. S \subseteq Nat /\ S # {} /\ n \in S
    BY <1>3, <2>1
  <2> HIDE DEF S
  <2>3. Min(S) \in S /\ Min(S) <= n
    BY <2>2, MinIs
  <2> QED
    BY <2>2, <2>3 DEF S
<1>6. bytes \in Seq(Int) /\ Len(bytes) <= n /\ Len(bytes) \in Nat
  <2>1. CASE n = 0
    <3>1. bytes = << >>
      BY <2>1
    <3> QED
      BY <3>1, <2>1
  <2>2. CASE n # 0
    <3>1. bytes = Cells(Contained(f), at + 1, got)
      BY <2>2
    <3>2. at + 1 \in Int
      BY <1>1
    <3> HIDE DEF bytes, got, at
    <3>3. Cells(Contained(f), at + 1, got) \in Seq(Int) /\ Len(Cells(Contained(f), at + 1, got)) = got
      BY <1>4, <1>5, <2>2, <3>2, CellsAre
    <3> QED
      BY <1>5, <2>2, <3>1, <3>3
  <2> QED
    BY <2>1, <2>2
<1>7. Reads(<<f>>, L) /\ Books(h, L, {}, {}, {}) /\ SameButCounts(heap, h)
  BY <1>1, ReadAlone
<1>8. PICK promise : Statement(<<f>>, <<o>>,
            Store([Allocated(h, o, 0) EXCEPT !.block[o] = block, !.position[f] = pos], s, Strong(o)), promise)
  BY DEF ReadBytes
<1> HIDE DEF bytes, at, h, L
<1>9. FitsFor(o, block)
  BY <1>1, <1>3, <1>6, ReadDstringDoes, FitsAre
<1>10. pos \in Nat
  BY <1>1, <1>6
<1> HIDE DEF block, pos
<1>11. [Allocated(h, o, 0) EXCEPT !.block[o] = block, !.position[f] = pos] = g
  BY DEF At0
<1>12. Books(made, L \union {o}, {}, {}, {}) /\ o \notin L
  <2>1. o \in Vectors \union Dstrings /\ o \notin h.live
    BY <1>1, <1>7 DEF SameButCounts
  <2> QED
    BY <1>7, <1>9, <2>1, BufferMade
<1> HIDE DEF made
<1>13. Books(g, L \union {o}, {}, {}, {})
  BY <1>1, <1>10, <1>12, PositionDoes
<1>14. Statement(<<f>>, <<o>>, Store(g, s, Strong(o)), promise)
  BY <1>8, <1>11
<1> HIDE DEF g
<1> QED
  BY <1>1, <1>7, <1>12, <1>13, <1>14, MakeSound

\* f.position = n
LEMMA SeekSound ==
    ASSUME Sound, NEW f \in NamedFiles, NEW n \in 0..MaxLength, Seek(f, n)
    PROVE  Sound'
<1>1. n \in Nat
  BY ContainersAssumption
<1>2. IsOpen(f)
  BY DEF Seek
<1>3. Strung(Contained(f)) /\ Argument(Nil)
  BY <1>2, OpenIs, Arguments
<1>4. PICK numbers : ChangeFile(f, Nil, n, Contained(f), numbers)
  BY DEF Seek
<1> QED
  BY <1>1, <1>2, <1>3, <1>4, ChangeFileSound

\* read(f): one byte.
LEMMA ReadNumberSound ==
    ASSUME Sound, NEW f \in NamedFiles, ReadNumber(f)
    PROVE  Sound'
<1> DEFINE end == heap.position[f] + Len(NumberBytes)
<1>1. end \in Nat
  <2>1. NumberBytes \in Seq(Nat)
    BY ContainersAssumption
  <2>2. Len(NumberBytes) \in Nat
    BY <2>1
  <2>3. heap.position[f] \in Nat
    BY FileIs
  <2> QED
    BY <2>2, <2>3
<1>2. IsOpen(f)
  BY DEF ReadNumber
<1>3. Strung(Contained(f)) /\ Argument(Nil)
  BY <1>2, OpenIs, Arguments
<1>4. PICK numbers : ChangeFile(f, Nil, end, Contained(f), numbers)
  BY DEF ReadNumber
<1> HIDE DEF end
<1> QED
  BY <1>1, <1>2, <1>3, <1>4, ChangeFileSound

\* write(f, x)
LEMMA WriteBytesSound ==
    ASSUME Sound, NEW f \in NamedFiles, NEW x \in Bytes, WriteBytes(f, x)
    PROVE  Sound'
<1> DEFINE at == heap.position[f]
           bytes == IF x.kind = "number" THEN NumberBytes ELSE BytesOf(x)
           pos == at + Len(bytes)
           block == DstringWrite(Contained(f), at, bytes)
<1>1. bytes \in Seq(Int)
  <2>1. NumberBytes \in Seq(Int)
    <3>1. NumberBytes \in Seq(Nat)
      BY ContainersAssumption
    <3> QED
      BY <3>1
  <2> QED
    BY <2>1, BytesAre
<1>2. at \in Nat
  BY FileIs
<1>3. IsOpen(f)
  BY DEF WriteBytes
<1>4. Strung(Contained(f)) /\ Argument(x)
  BY <1>3, OpenIs, OperandsAre
<1>5. PICK numbers : ChangeFile(f, x, pos, block, numbers)
  BY DEF WriteBytes
<1> HIDE DEF bytes, at
<1>6. pos \in Nat
  <2>1. Len(bytes) \in Nat
    BY <1>1
  <2> QED
    BY <1>2, <2>1
<1>7. Strung(block)
  BY <1>1, <1>2, <1>4, DstringWriteDoes
<1> HIDE DEF pos, block
<1> QED
  BY <1>3, <1>4, <1>5, <1>6, <1>7, ChangeFileSound

\* close(f)
LEMMA CloseFileSound ==
    ASSUME Sound, NEW f \in NamedFiles, CloseFile(f)
    PROVE  Sound'
<1> DEFINE d == BufferOf(f).o
           h == Using(<<f>>)
           L == {f}
           k == [h EXCEPT !.count[d] = @ - 1]
           p == <<f, 1>>
           X == {p}
           none == {}
           g == Put(Freed(k, d), p, Nil)
<1>1. IsOpen(f) /\ heap.count[d] = 1 /\ heap.refs[d] = << >>
  BY DEF CloseFile
<1>2. /\ f \in Files /\ f \in heap.live /\ d \in Dstrings /\ d \in heap.live /\ BufferOf(f) = Strong(d)
      /\ d # f /\ d \in Objects /\ f \in Objects /\ 1 \in 1..Len(heap.items[f])
  BY <1>1, FileIs, OpenIs, Kinds
<1>3. Books(h, L, {}, {}, {}) /\ SameButCounts(heap, h)
  BY <1>2, ReadAlone
<1>4. h.count[d] = 1
  <2>1. Range(<<f>>) = {f}
    BY DEF Range
  <2>2. h.count[d] = heap.count[d]
    BY <1>2, <2>1, LiveObjects DEF Using, Heap
  <2> QED
    BY <1>1, <2>2
<1>5. PICK now : ChangeOfBuffer(f, Nil, g, now)
  BY DEF CloseFile
<1>6. Ops(f, Nil) = L
  BY OpsAre
<1>7. h \in Heap /\ h.items = heap.items /\ h.refs = heap.refs /\ Shapes(h)
  BY <1>3 DEF SameButCounts, Books
<1>8. p \in Places(h) /\ ValueAt(h, p) = Strong(d)
  <2>1. heap \in Heap
    BY LiveObjects
  <2>2. 1 \in 1..Len(h.items[f])
    BY <1>2, <1>7
  <2>3. p \in Places(h) /\ ValueAt(h, p) = h.items[f][1].value
    BY <1>2, <1>7, <2>2, PlacesAre
  <2>4. BufferOf(f) = heap.items[f][1].value
    BY <1>2, <2>1, PlacesAre DEF BufferOf
  <2> QED
    BY <1>2, <1>7, <2>3, <2>4
<1>9. f \in L /\ (Len(p) = 2 => p[1] \in L \union none) /\ p \notin none /\ HeldBy(X, L \union none)
      /\ HeldBy(none, L \union none)
  BY DEF HeldBy
<1>10. /\ none \union X = X /\ X \union Span(d, 1, 0) = X /\ none \union KeySpan(d, 1, 0) = none
       /\ none \union {d} = {d} /\ d \notin none
  <2>1. Span(d, 1, 0) = {}
    BY DEF Span
  <2>2. KeySpan(d, 1, 0) = {}
    BY <2>1 DEF KeySpan
  <2> QED
    BY <2>1, <2>2
<1>11. Books(h, L, none, none, none)
  BY <1>3
<1> HIDE DEF d, h, L, none, p
<1>12. Due(h, d, L, none \union {p}, none, none)
  BY <1>2, <1>8, <1>9, <1>11, DueAtPlace
<1> HIDE DEF X
<1>13. Books(k, L, none \union {p}, none, none \union {d})
  BY <1>4, <1>12 DEF Due
<1>14. Len(k.items[d]) = 0 /\ Len(k.refs[d]) = 0
  <2>1. k.items = h.items /\ k.refs = h.refs
    BY <1>7 DEF Heap
  <2>2. Len(h.items[d]) = 0
    BY <1>2, <1>7 DEF Shapes
  <2> QED
    BY <1>1, <1>7, <2>1, <2>2
<1> HIDE DEF k
<1>15. Books(k, L, X \union Span(d, 1, 0), none \union KeySpan(d, 1, 0), none \union {d})
  BY <1>10, <1>13 DEF X
<1>16. Books(Freed(k, d), L, X, none, none)
  <2>1. 0 \in Nat
    OBVIOUS
  <2> QED
    BY <1>2, <1>9, <1>10, <1>14, <1>15, <2>1, Gone
<1>17. Books(Freed(k, d), L, {p}, {}, {}) /\ p \in Places(Freed(k, d))
  BY <1>16 DEF X, none, Books, Stale
<1>18. Books(g, L, {}, {}, {})
  BY <1>17, PutNilDoes
<1>19. Books(g, Ops(f, Nil), {}, {}, {})
  BY <1>6, <1>18
<1> HIDE DEF g
<1> QED
  BY <1>5, <1>19, Arguments, ChangeOfBufferSound

\* A file with a string, both new.
LEMMA OneString ==
    ASSUME NEW h \in Heap, NEW o \in Files, NEW v
    PROVE  LET g == OneItem(h, o)
           IN  Put(g, <<o, 1>>, v) = [Allocated(h, o, 1) EXCEPT !.items[o] = <<Item(Nil, v)>>]
<1> DEFINE a == Allocated(h, o, 1)
           g == OneItem(h, o)
           p == <<o, 1>>
           one == <<Item(Nil, Nil)>>
           items == [h.items EXCEPT ![o] = one]
           new == <<Item(Nil, v)>>
           counts == [h.count EXCEPT ![o] = 1]
           sizes == [h.size EXCEPT ![o] = 1]
<1>0. o \in Objects
  BY Kinds
<1>1. h.items \in [Objects -> Seq(Items1)]
  BY HeapFields
<1>2. DOMAIN one = {1} /\ [one EXCEPT ![1].value = v] = new
  BY DEF Item
<1> HIDE DEF one, new
<1>3. items[o] = one /\ items \in [Objects -> UNION {{items[x]} : x \in Objects}]
  BY <1>0, <1>1
<1>4. [items EXCEPT ![o][1].value = v] = [h.items EXCEPT ![o] = new]
  BY <1>0, <1>1, <1>2
<1> HIDE DEF items
<1>5. g = [h EXCEPT !.live = @ \union {o}, !.count = counts, !.size = sizes, !.items = items]
  BY DEF OneItem, Allocated, one, items
<1>6. g.items = items
  BY <1>5 DEF Heap
<1>7. Put(g, p, v) = [g EXCEPT !.items[o][1].value = v]
  <2>1. Len(p) = 2 /\ p[1] = o /\ p[2] = 1
    OBVIOUS
  <2>2. 1 \in DOMAIN g.items[o]
    BY <1>2, <1>3, <1>6
  <2> HIDE DEF p
  <2> QED
    BY <2>1, <2>2 DEF Put
<1>8. [g EXCEPT !.items[o][1].value = v] = [g EXCEPT !.items = [items EXCEPT ![o][1].value = v]]
  BY <1>6
<1>9. [a EXCEPT !.items[o] = new] = [g EXCEPT !.items = [h.items EXCEPT ![o] = new]]
  <2> HIDE DEF items
  <2>1. a = [h EXCEPT !.live = @ \union {o}, !.count = counts, !.size = sizes]
    BY DEF Allocated
  <2> HIDE DEF g, a, counts, sizes
  <2>2. a.items = h.items
    BY <2>1 DEF Heap
  <2>3. [a EXCEPT !.items[o] = new] = [a EXCEPT !.items = [h.items EXCEPT ![o] = new]]
    BY <2>2
  <2>4. g = [a EXCEPT !.items = items]
    BY <1>5, <2>1 DEF Heap
  <2>5. [g EXCEPT !.items = [h.items EXCEPT ![o] = new]] = [a EXCEPT !.items = [h.items EXCEPT ![o] = new]]
    BY <2>1, <2>4 DEF Heap
  <2> QED
    BY <2>3, <2>5
<1> HIDE DEF a, g
<1> QED
  BY <1>4, <1>7, <1>8, <1>9 DEF a, g, new

\* s = memfile []: a file and its string.
LEMMA MakeFileAndStringSound ==
    ASSUME Sound, NEW s \in Statics, NEW o \in Spare(Files), NEW d \in Spare(Dstrings),
           MakeFileAndString(s, o, d)
    PROVE  Sound'
<1> DEFINE none == {}
           D == {d}
           b == NewDstring(<< >>)
           h == [Allocated(heap, d, 0) EXCEPT !.block[d] = b]
           g == OneItem(h, o)
           p == <<o, 1>>
           v == Strong(d)
           k == Put(g, p, v)
<1>1. /\ o \in Files /\ o \notin heap.live /\ o \in Objects /\ d \in Dstrings /\ d \notin heap.live
      /\ d \in Objects /\ o # d /\ heap \in Heap
  BY SpareBuffers, Kinds, LiveObjects
<1>2. FitsFor(d, b)
  <2>1. << >> \in Seq(Int)
    OBVIOUS
  <2> QED
    BY <1>1, <2>1, NewDstringDoes, FitsAre
<1>3. PICK promise : Statement(<< >>, <<o>>,
        Store([Allocated(h, o, 1) EXCEPT !.items[o] = <<Item(Nil, Strong(d))>>], s, Strong(o)), promise)
  BY DEF MakeFileAndString
<1>4. Reads(<< >>, none) /\ o \notin none /\ none \union {d} = D /\ D \union {o} = {d, o} /\ {d, o} \ {d} = none \union {o}
  BY <1>1 DEF Reads
<1>5. h.live = heap.live \union {d}
  BY <1>1 DEF Allocated, Heap
<1>6. Books(heap, none, {}, {}, {})
  BY DEF Sound
<1> HIDE DEF none, b
<1>7. Books(h, none \union {d}, {}, {}, {})
  <2>1. d \in Vectors \union Dstrings
    BY <1>1
  <2> QED
    BY <1>1, <1>2, <1>6, <2>1, BufferMade
<1> HIDE DEF h
<1>8. Books(h, D, {}, {}, {}) /\ h \in Heap
  BY <1>4, <1>7 DEF Books
<1>9. o \in Arrays \union Files /\ o \notin h.live
  BY <1>1, <1>5
<1> HIDE DEF D
<1>10. /\ Books(g, D \union {o}, {}, {}, {}) /\ o \notin D
       /\ p \in Places(g) /\ ValueAt(g, p) = Nil /\ g.live = h.live \union {o}
  BY <1>8, <1>9, OneItemDoes
<1>11. k = [Allocated(h, o, 1) EXCEPT !.items[o] = <<Item(Nil, Strong(d))>>]
  BY <1>1, <1>8, OneString
<1> HIDE DEF g
<1>12. Len(p) = 2 => p[1] \in D \union {o}
  OBVIOUS
<1>13. \A f \in Files : p = <<f, 1>> => d \in Dstrings
  BY <1>1
<1> HIDE DEF p
<1>14. Books(g, D \union {o}, {p}, {}, {})
  BY <1>10, <1>12, NilStale
<1>15. d \in g.live /\ d \in {d, o}
  BY <1>5, <1>10
<1>16. Books(g, {d, o}, {p}, {}, {})
  BY <1>4, <1>14
<1>17. Books(k, {d, o} \ {d}, {}, {}, {})
  BY <1>10, <1>13, <1>15, <1>16, StrongDoes
<1>18. Books(k, none \union {o}, {}, {}, {})
  BY <1>4, <1>17
<1>19. Statement(<< >>, <<o>>, Store(k, s, Strong(o)), promise)
  BY <1>3, <1>11
<1> HIDE DEF k
<1> QED
  BY <1>1, <1>4, <1>18, <1>19, MakeSound

\* Every statement about files keeps Sound.
LEMMA FileSound ==
    ASSUME Sound, FileStatement
    PROVE  Sound'
<1>1. ASSUME NEW s \in Statics, NEW o \in Spare(Files),
             \/ \E d \in NamedDstrings : MakeFile(s, o, d)
             \/ \E d \in Spare(Dstrings) : MakeFileAndString(s, o, d)
      PROVE  Sound'
  BY <1>1, MakeFileSound, MakeFileAndStringSound
<1>2. ASSUME NEW f \in NamedFiles,
             \/ \E s \in Statics : GetBuffer(s, f)
             \/ \E s \in Statics, o \in Spare(Dstrings), n \in 0..MaxLength : ReadBytes(s, o, f, n)
             \/ \E d \in NamedDstrings : SetBuffer(f, d)
             \/ \E n \in 0..MaxLength : Seek(f, n)
             \/ ReadNumber(f)
             \/ \E x \in Bytes : WriteBytes(f, x)
             \/ CloseFile(f)
      PROVE  Sound'
  BY <1>2, GetBufferSound, ReadBytesSound, SetBufferSound, SeekSound, ReadNumberSound, WriteBytesSound,
     CloseFileSound
<1> QED
  BY <1>1, <1>2 DEF FileStatement

-----------------------------------------------------------------------------
(* The invariant, and the theorems.                                         *)

\* The heap at first: nothing exists.
LEMMA FreshIs ==
    /\ Fresh \in Heap
    /\ Fresh.live = {} /\ \A o \in Objects : Fresh.count[o] = 0 /\ Fresh.refs[o] = << >> /\ Fresh.room[o] = 0
                                             /\ Fresh.items[o] = << >> /\ Fresh.size[o] = 0
    /\ \A k \in Keys : Fresh.keys[k] = 0
    /\ \A s \in Statics : Fresh.static[s] = Nil
    /\ \A b \in Vectors \union Dstrings : Fresh.block[b] = NoBlock
<1>1. NoBlock \in Blocks
  BY DEF NoBlock, Block, Blocks
<1>2. Nil \in Value
  BY ValueFacts
<1> QED
  BY <1>1, <1>2 DEF Fresh, Heap

\* Sound holds at first.
LEMMA InitSound == Init => Sound
<1> SUFFICES ASSUME heap = Fresh PROVE Sound
  BY DEF Init
<1> DEFINE h == heap
<1>1. /\ h \in Heap
      /\ h.live = {} /\ \A o \in Objects : h.count[o] = 0 /\ h.refs[o] = << >> /\ h.room[o] = 0
                                             /\ h.items[o] = << >> /\ h.size[o] = 0
      /\ \A k \in Keys : h.keys[k] = 0
      /\ \A s \in Statics : h.static[s] = Nil
      /\ \A b \in Vectors \union Dstrings : h.block[b] = NoBlock
  BY FreshIs
<1> HIDE DEF h
<1>2. \A o \in Objects : Len(h.refs[o]) = 0 /\ Len(h.items[o]) = 0
  BY <1>1
<1>3. \A p \in Places(h) : ValueAt(h, p) = Nil
  <2> SUFFICES ASSUME NEW p \in Places(h) PROVE ValueAt(h, p) = Nil
    OBVIOUS
  <2>1. PICK s \in Statics : p = <<s>>
    BY <1>1, <1>2, PlacesAre
  <2> QED
    BY <1>1, <2>1, PlacesAre
<1>4. Wiring(h)
  <2>1. \A p \in Places(h) : ValueAt(h, p).kind # "weak"
    BY <1>3, ValueFacts
  <2> QED
    BY <1>2, <2>1 DEF Wiring
<1>5. RoomForRefs(h)
  BY <1>1, <1>2 DEF RoomForRefs
<1>6. Counted(h, {}, {}, {})
  <2>1. \A o \in Objects : Owners(h, {}, o) = {}
    BY <1>3, ValueFacts DEF Owners
  <2>2. \A k \in Keys : Holders(h, {}, k) = {}
    <3>1. Slots(h) = {}
      BY <1>2 DEF Slots
    <3> QED
      BY <3>1 DEF Holders
  <2>3. Cardinality({}) = 0
    BY FS_EmptySet
  <2>4. \A o \in Objects : h.count[o] = Cardinality(Owners(h, {}, o)) + OneIf(o \in {})
    <3>1. \A o : OneIf(o \in {}) = 0
      BY DEF OneIf
    <3>2. \A o \in Objects : Cardinality(Owners(h, {}, o)) = 0 /\ h.count[o] = 0
      BY <1>1, <2>1, <2>3
    <3> QED
      BY <3>1, <3>2
  <2>5. \A k \in Keys : h.keys[k] = Cardinality(Holders(h, {}, k))
    BY <1>1, <2>2, <2>3
  <2> QED
    BY <2>4, <2>5 DEF Counted
<1>7. Living(h, {})
  BY <1>1, <1>2 DEF Living, Positive
<1>8. Stale(h, {}, {}, {}, {})
  BY DEF Stale, HeldBy
<1>9. Shapes(h)
  BY <1>1, <1>2, Kinds DEF Shapes
<1>10. BlocksFit(h)
  <2>1. Fits(NoBlock)
    BY DEF Fits, NoBlock, Block
  <2> QED
    BY <1>1, <2>1 DEF BlocksFit
<1>11. Ordered(h)
  BY <1>2, Kinds DEF Ordered, InOrder
<1> QED
  BY <1>1, <1>4, <1>5, <1>6, <1>7, <1>8, <1>9, <1>10, <1>11 DEF Sound, Books, h

\* Every statement keeps Sound.
LEMMA NextSound == Sound /\ Risky = {} /\ [Next]_vars => Sound'
<1> SUFFICES ASSUME Sound, Risky = {}, [Next]_vars PROVE Sound'
  OBVIOUS
<1>1. ASSUME NEW s \in Statics, NEW v \in {Nil} \union Stored, Assign(s, v)
      PROVE  Sound'
  <2>1. Argument(v) /\ v.kind # "number"
    BY Arguments, Kind
  <2> QED
    BY <1>1, <2>1, AssignSound
<1>2. CASE UNCHANGED vars
  BY <1>2 DEF Sound, vars
<1> QED
  BY <1>1, <1>2, ArraySound, TableSound, VectorSound, DstringSound, FileSound DEF Next

\* After every statement the books of the heap are right: nothing is in limbo, nothing that
\* has been disowned is still in place, and nothing is about to be destroyed (limbo_clean).
THEOREM SoundAlways == Risky = {} => (Spec => []Sound)
<1> SUFFICES ASSUME Risky = {} PROVE Spec => []Sound
  OBVIOUS
<1>1. Init => Sound
  BY InitSound
<1>2. Sound /\ [Next]_vars => Sound'
  BY NextSound
<1> QED
  BY <1>1, <1>2, PTL DEF Spec

\* The places of weak references to an object, as the properties name them.
LEMMA WeakPlacesAre ==
    ASSUME Sound, NEW o \in Objects
    PROVE  WeakPlaces(o) = {p \in Places(heap) : ValueAt(heap, p).kind = "weak" /\ ValueAt(heap, p).o = o}
<1> DEFINE S == {p \in Places(heap) : ValueAt(heap, p).kind = "weak" /\ ValueAt(heap, p).o = o}
<1>1. heap \in Heap /\ heap.live \subseteq Objects
  BY LiveObjects
<1>2. \A c, i : <<c, i>> \in Places(heap) => c \in heap.live
  BY BooksSay DEF Sound
<1>3. \A c \in Objects : DOMAIN heap.items[c] = 1..Len(heap.items[c])
  BY <1>1, HeapFields
<1>4. ASSUME NEW p \in S PROVE p \in WeakPlaces(o)
  <2>1. p \in Places(heap) /\ ValueAt(heap, p).kind = "weak" /\ ValueAt(heap, p).o = o
    OBVIOUS
  <2>2. CASE \E s \in Statics : p = <<s>>
    <3>1. PICK s \in Statics : p = <<s>>
      BY <2>2
    <3>2. heap.static[s] = ValueAt(heap, p)
      BY <1>1, <3>1, PlacesAre
    <3> QED
      BY <2>1, <3>1, <3>2 DEF WeakPlaces
  <2>3. CASE \E c \in Objects : \E i \in 1..Len(heap.items[c]) : p = <<c, i>>
    <3>1. PICK c \in Objects : \E i \in 1..Len(heap.items[c]) : p = <<c, i>>
      BY <2>3
    <3>2. PICK i \in 1..Len(heap.items[c]) : p = <<c, i>>
      BY <3>1
    <3>3. heap.items[c][i].value = ValueAt(heap, p) /\ c \in heap.live /\ i \in DOMAIN heap.items[c]
      BY <1>1, <1>2, <1>3, <2>1, <3>2, PlacesAre
    <3> QED
      BY <2>1, <3>2, <3>3 DEF WeakPlaces
  <2> QED
    BY <1>1, <2>1, <2>2, <2>3, PlacesAre
<1>5. ASSUME NEW p \in WeakPlaces(o) PROVE p \in S
  <2>1. CASE \E s \in Statics : p = <<s>> /\ heap.static[s].kind = "weak" /\ heap.static[s].o = o
    BY <1>1, <2>1, PlacesAre
  <2>2. CASE \E c \in heap.live : \E i \in DOMAIN heap.items[c] :
                p = <<c, i>> /\ heap.items[c][i].value.kind = "weak" /\ heap.items[c][i].value.o = o
    <3>1. PICK c \in heap.live : \E i \in DOMAIN heap.items[c] :
                p = <<c, i>> /\ heap.items[c][i].value.kind = "weak" /\ heap.items[c][i].value.o = o
      BY <2>2
    <3>2. PICK i \in 1..Len(heap.items[c]) :
                p = <<c, i>> /\ heap.items[c][i].value.kind = "weak" /\ heap.items[c][i].value.o = o
      BY <1>1, <1>3, <3>1
    <3>3. p \in Places(heap) /\ ValueAt(heap, p) = heap.items[c][i].value
      BY <1>1, <3>2, PlacesAre
    <3> QED
      BY <3>2, <3>3
  <2> QED
    BY <2>1, <2>2 DEF WeakPlaces
<1> HIDE DEF S
<1>6. WeakPlaces(o) = S
  BY <1>4, <1>5
<1> QED
  BY <1>6 DEF S

\* The places that own an object, as the properties name them.
LEMMA StrongPlacesAre ==
    ASSUME Sound, NEW o \in Objects
    PROVE  StrongPlaces(o) = Owners(heap, {}, o)
<1> DEFINE S == Owners(heap, {}, o)
<1>1. heap \in Heap /\ heap.live \subseteq Objects
  BY LiveObjects
<1>2. \A c, i : <<c, i>> \in Places(heap) => c \in heap.live
  BY BooksSay DEF Sound
<1>3. \A c \in Objects : DOMAIN heap.items[c] = 1..Len(heap.items[c])
  BY <1>1, HeapFields
<1>4. ASSUME NEW p \in S PROVE p \in StrongPlaces(o)
  <2>1. p \in Places(heap) /\ ValueAt(heap, p) = Strong(o)
    BY DEF Owners
  <2>2. CASE \E s \in Statics : p = <<s>>
    <3>1. PICK s \in Statics : p = <<s>>
      BY <2>2
    <3>2. heap.static[s] = ValueAt(heap, p)
      BY <1>1, <3>1, PlacesAre
    <3> QED
      BY <2>1, <3>1, <3>2 DEF StrongPlaces
  <2>3. CASE \E c \in Objects : \E i \in 1..Len(heap.items[c]) : p = <<c, i>>
    <3>1. PICK c \in Objects : \E i \in 1..Len(heap.items[c]) : p = <<c, i>>
      BY <2>3
    <3>2. PICK i \in 1..Len(heap.items[c]) : p = <<c, i>>
      BY <3>1
    <3>3. heap.items[c][i].value = ValueAt(heap, p) /\ c \in heap.live /\ i \in DOMAIN heap.items[c]
      BY <1>1, <1>2, <1>3, <2>1, <3>2, PlacesAre
    <3> QED
      BY <2>1, <3>2, <3>3 DEF StrongPlaces
  <2> QED
    BY <1>1, <2>1, <2>2, <2>3, PlacesAre
<1>5. ASSUME NEW p \in StrongPlaces(o) PROVE p \in S
  <2>1. CASE \E s \in Statics : p = <<s>> /\ heap.static[s] = Strong(o)
    BY <1>1, <2>1, PlacesAre DEF Owners
  <2>2. CASE \E c \in heap.live : \E i \in DOMAIN heap.items[c] :
                p = <<c, i>> /\ heap.items[c][i].value = Strong(o)
    <3>1. PICK c \in heap.live : \E i \in DOMAIN heap.items[c] :
                p = <<c, i>> /\ heap.items[c][i].value = Strong(o)
      BY <2>2
    <3>2. PICK i \in 1..Len(heap.items[c]) : p = <<c, i>> /\ heap.items[c][i].value = Strong(o)
      BY <1>1, <1>3, <3>1
    <3>3. p \in Places(heap) /\ ValueAt(heap, p) = heap.items[c][i].value
      BY <1>1, <3>2, PlacesAre
    <3> QED
      BY <3>2, <3>3 DEF Owners
  <2> QED
    BY <2>1, <2>2 DEF StrongPlaces
<1> HIDE DEF S
<1>6. StrongPlaces(o) = S
  BY <1>4, <1>5
<1> QED
  BY <1>6 DEF S

\* The slots with a key, as the properties name them.
LEMMA KeySlotsAre ==
    ASSUME Sound, NEW k \in Keys
    PROVE  KeySlots(k) = Holders(heap, {}, k)
<1> DEFINE S == Holders(heap, {}, k)
<1>1. heap \in Heap /\ heap.live \subseteq Objects
  BY LiveObjects
<1>2. \A c \in Objects : c \notin heap.live => Len(heap.items[c]) = 0
  BY DEF Sound, Books, Living
<1>3. \A c \in Objects : DOMAIN heap.items[c] = 1..Len(heap.items[c])
  BY <1>1, HeapFields
<1>4. ASSUME NEW p \in S PROVE p \in KeySlots(k)
  <2>1. p \in Slots(heap) /\ heap.items[p[1]][p[2]].key = k
    BY DEF Holders, KeyAt
  <2>2. PICK t \in Objects, i \in Nat : p = <<t, i>> /\ t \in Tables /\ i \in 1..Len(heap.items[t])
    BY <2>1 DEF Slots
  <2>3. heap.items[t][i].key = k
    BY <2>1, <2>2
  <2>4. t \in heap.live /\ i \in DOMAIN heap.items[t]
    BY <1>2, <1>3, <2>2
  <2>5. t \in heap.live \cap Tables
    BY <2>2, <2>4
  <2> QED
    BY <2>2, <2>3, <2>4, <2>5 DEF KeySlots
<1>5. ASSUME NEW p \in KeySlots(k) PROVE p \in S
  <2>1. PICK t \in heap.live \cap Tables : \E i \in DOMAIN heap.items[t] :
                p = <<t, i>> /\ heap.items[t][i].key = k
    BY DEF KeySlots
  <2>2. PICK i \in 1..Len(heap.items[t]) : p = <<t, i>> /\ heap.items[t][i].key = k
    BY <1>1, <1>3, <2>1
  <2>3. t \in Objects /\ t \in Tables /\ i \in Nat
    BY <1>1, <2>1
  <2>4. p \in Slots(heap)
    BY <2>2, <2>3 DEF Slots
  <2>5. KeyAt(heap)[p] = k
    BY <2>2, <2>4 DEF KeyAt
  <2> QED
    BY <2>4, <2>5 DEF Holders
<1> HIDE DEF S
<1>6. KeySlots(k) = S
  BY <1>4, <1>5
<1> QED
  BY <1>6 DEF S

\* TypeOK follows from Sound.
LEMMA SoundTypes == Sound => TypeOK
<1> SUFFICES ASSUME Sound PROVE TypeOK
  OBVIOUS
<1>1. heap \in Heap /\ heap.live \subseteq Objects /\ Living(heap, {}) /\ Counted(heap, {}, {}, {}) /\ Shapes(heap)
  BY LiveObjects DEF Sound, Books
<1>2. \A c \in Objects : heap.items[c] \in Seq(Items1) /\ DOMAIN heap.items[c] = 1..Len(heap.items[c])
  BY <1>1, HeapFields
<1>3. \A c \in Objects : heap.items[c] # << >> => c \in heap.live
  <2> SUFFICES ASSUME NEW c \in Objects, c \notin heap.live PROVE heap.items[c] = << >>
    OBVIOUS
  <2>1. Len(heap.items[c]) = 0
    BY <1>1 DEF Living
  <2> QED
    BY <1>2, <2>1
<1>4. \A t \in heap.live \cap Tables : \A item \in Range(heap.items[t]) : item.key \in Keys
  <2> SUFFICES ASSUME NEW t \in heap.live \cap Tables, NEW i \in DOMAIN heap.items[t]
               PROVE  heap.items[t][i].key \in Keys
    BY DEF Range
  <2>1. i \in 1..Len(heap.items[t])
    BY <1>1, <1>2
  <2> QED
    BY <1>1, <2>1 DEF Shapes
<1>5. \A o \in Objects : heap.count[o] \in Nat
  <2> SUFFICES ASSUME NEW o \in Objects PROVE heap.count[o] \in Nat
    OBVIOUS
  <2>1. heap.count[o] = Cardinality(Owners(heap, {}, o)) + OneIf(o \in {})
    BY <1>1 DEF Counted
  <2>2. Cardinality(Owners(heap, {}, o)) \in Nat
    BY <1>1, OwnersFinite
  <2>3. OneIf(o \in {}) \in Nat
    BY DEF OneIf
  <2> QED
    BY <2>1, <2>2, <2>3
<1>6. \A o \in Objects : o \in heap.live <=> heap.count[o] > 0
  BY <1>1 DEF Living, Positive
<1> QED
  BY <1>1, <1>3, <1>4, <1>5, <1>6 DEF TypeOK

\* Wired follows from Sound.
LEMMA SoundWired == Sound => Wired
<1> SUFFICES ASSUME Sound PROVE Wired
  OBVIOUS
<1>1. heap \in Heap /\ Wiring(heap) /\ RoomForRefs(heap) /\ Shapes(heap)
  BY DEF Sound, Books
<1>2. ASSUME NEW o \in Objects PROVE Range(heap.refs[o]) = WeakPlaces(o)
  <2> DEFINE S == WeakPlaces(o)
             refs == heap.refs[o]
  <2>1. S = {p \in Places(heap) : ValueAt(heap, p).kind = "weak" /\ ValueAt(heap, p).o = o}
    BY WeakPlacesAre
  <2>2. DOMAIN refs = 1..Len(refs)
    BY <1>1, HeapFields
  <2> HIDE DEF S
  <2>3. ASSUME NEW k \in 1..Len(refs) PROVE refs[k] \in S
    <3>1. refs[k] \in Places(heap) /\ ValueAt(heap, refs[k]) = Weak(o, k - 1)
      BY <1>1 DEF Wiring
    <3>2. Weak(o, k - 1).kind = "weak" /\ Weak(o, k - 1).o = o
      BY DEF Weak
    <3> QED
      BY <2>1, <3>1, <3>2
  <2>4. ASSUME NEW p \in S PROVE \E k \in 1..Len(refs) : refs[k] = p
    <3>1. p \in Places(heap) /\ ValueAt(heap, p).kind = "weak" /\ ValueAt(heap, p).o = o
      BY <2>1
    <3> QED
      BY <1>1, <3>1 DEF Wiring
  <2> HIDE DEF refs
  <2>5. Range(refs) = S
    BY <2>2, <2>3, <2>4 DEF Range
  <2> QED
    BY <2>5 DEF S, refs
<1>3. \A o \in Objects : \A k \in DOMAIN heap.refs[o] : ValueAt(heap, heap.refs[o][k]) = Weak(o, k - 1)
  BY <1>1, HeapFields DEF Wiring
<1>4. \A o \in Objects : Len(heap.refs[o]) <= heap.room[o]
  BY <1>1 DEF RoomForRefs
<1>5. \A c \in Objects : Len(heap.items[c]) <= heap.size[c]
  BY <1>1 DEF Shapes
<1> QED
  BY <1>2, <1>3, <1>4, <1>5 DEF Wired

\* CountsExact follows from Sound.
LEMMA SoundCounts == Sound => CountsExact
<1> SUFFICES ASSUME Sound PROVE CountsExact
  OBVIOUS
<1>1. heap \in Heap /\ Counted(heap, {}, {}, {})
  BY DEF Sound, Books
<1>2. ASSUME NEW o \in Objects PROVE heap.count[o] = Cardinality(StrongPlaces(o))
  <2>1. heap.count[o] = Cardinality(Owners(heap, {}, o)) + OneIf(o \in {})
    BY <1>1 DEF Counted
  <2>2. Cardinality(Owners(heap, {}, o)) \in Nat
    BY <1>1, OwnersFinite
  <2>3. OneIf(o \in {}) = 0
    BY DEF OneIf
  <2>4. heap.count[o] = Cardinality(Owners(heap, {}, o))
    BY <2>1, <2>2, <2>3
  <2> QED
    BY <2>4, StrongPlacesAre
<1>3. ASSUME NEW k \in Keys PROVE heap.keys[k] = Cardinality(KeySlots(k))
  <2>1. heap.keys[k] = Cardinality(Holders(heap, {}, k))
    BY <1>1 DEF Counted
  <2> QED
    BY <2>1, KeySlotsAre
<1> QED
  BY <1>2, <1>3 DEF CountsExact

\* The heap has its types; only what lives has items, tables have keys, and what lives
\* is what is owned.
THEOREM TypeCorrect == Risky = {} => (Spec => []TypeOK)
<1> SUFFICES ASSUME Risky = {} PROVE Spec => []TypeOK
  OBVIOUS
<1> QED
  BY SoundAlways, SoundTypes, PTL

\* The vectors of weak references are exact, wherever statements, destructors and
\* realloc() have moved the items: every entry is the place of a weak reference that
\* knows its index, and there are no others (eel_weakref_attach, _detach, _relocate,
\* eel_kill_weakrefs).
THEOREM AllWired == Risky = {} => (Spec => []Wired)
<1> SUFFICES ASSUME Risky = {} PROVE Spec => []Wired
  OBVIOUS
<1> QED
  BY SoundAlways, SoundWired, PTL

\* Refcounts are the numbers of strong references, and those of strings the numbers of
\* the slots of which they are keys, after every statement, with all destructors that
\* it runs (eel_o_disown_nz, t__insert, t_destruct, a_destruct, eel_limbo_clean).
THEOREM CountsAreExact == Risky = {} => (Spec => []CountsExact)
<1> SUFFICES ASSUME Risky = {} PROVE Spec => []CountsExact
  OBVIOUS
<1> QED
  BY SoundAlways, SoundCounts, PTL

\* In every table the search for a key, t__find with t__binary_find, ends at it
\* if the table has it, and is no hit if not; no key is there twice.
SearchesRight ==
    \A t \in heap.live \cap Tables, key \in Keys :
        LET at == {i \in DOMAIN heap.items[t] : heap.items[t][i].key = key}
            found == Find(heap, t, key)
        IN  at = IF found.hit THEN {found.at} ELSE {}

\* Every search of a key in a table, after every statement, ends at the one item that
\* has the key, or finds none because there is none (t__find, t__binary_find).
THEOREM KeysFound == Risky = {} => (Spec => []SearchesRight)
<1> SUFFICES ASSUME Risky = {} PROVE Spec => []SearchesRight
  OBVIOUS
<1>1. Sound => SearchesRight
  <2> SUFFICES ASSUME Sound, NEW t \in heap.live \cap Tables, NEW key \in Keys
               PROVE  {i \in DOMAIN heap.items[t] : heap.items[t][i].key = key}
                          = IF Find(heap, t, key).hit THEN {Find(heap, t, key).at} ELSE {}
    BY DEF SearchesRight
  <2> DEFINE n == Len(heap.items[t])
             found == Find(heap, t, key)
             none == {}
             Key(i) == heap.items[t][i].key
  <2>1. Books(heap, none, none, none, none)
    BY DEF Sound
  <2> HIDE DEF none
  <2>2. heap \in Heap /\ t \in Objects /\ \A i \in 1..n : Key(i) \in Keys
    BY <2>1, KeysThere
  <2>3. DOMAIN heap.items[t] = 1..n /\ n \in Nat
    BY <2>2, HeapFields
  <2>4. SortedIn(heap, t) /\ InOrder(heap, t)
    BY <2>1, TablesSorted DEF Books, Ordered
  <2>5. /\ found.hit \in BOOLEAN
        /\ found.hit => found.at \in 1..n /\ Key(found.at) = key
        /\ ~found.hit => \A i \in 1..n : Key(i) # key
    BY <2>2, <2>4, FindDoes
  <2>6. \A i, j \in 1..n : i < j => Key(i) # Key(j)
    BY <2>4 DEF InOrder
  <2> HIDE DEF n, found, Key
  <2>7. CASE found.hit
    <3>1. ASSUME NEW i \in 1..n, Key(i) = key PROVE i = found.at
      <4>1. found.at \in 1..n /\ Key(found.at) = key
        BY <2>5, <2>7
      <4>2. ~(i < found.at) /\ ~(found.at < i)
        BY <3>1, <4>1, <2>6
      <4> QED
        BY <4>1, <4>2, <2>3
    <3>2. {i \in 1..n : Key(i) = key} = {found.at}
      BY <3>1, <2>5, <2>7
    <3> QED
      BY <3>2, <2>3, <2>7 DEF found, Key
  <2>8. CASE ~found.hit
    <3>1. {i \in 1..n : Key(i) = key} = {}
      BY <2>5, <2>8
    <3> QED
      BY <3>1, <2>3, <2>8 DEF found, Key
  <2> QED
    BY <2>7, <2>8
<1> QED
  BY <1>1, SoundAlways, PTL

\* Within the blocks
WithinBlocks ==
    \A b \in heap.live \cap (Vectors \union Dstrings) :
        /\ heap.block[b].within
        /\ 0 <= heap.block[b].length /\ heap.block[b].length <= Len(heap.block[b].cells)
        /\ b \in Dstrings => heap.block[b].length < Len(heap.block[b].cells)

\* No vector or dynamic string has read or written outside its block, its items fit in
\* it, and a string has a byte for its terminator (v_setsize, ds__setsize, mf_write).
THEOREM NothingOutside == Risky = {} => (Spec => []WithinBlocks)
<1> SUFFICES ASSUME Risky = {} PROVE Spec => []WithinBlocks
  OBVIOUS
<1>1. Sound => WithinBlocks
  <2> SUFFICES ASSUME Sound PROVE WithinBlocks
    OBVIOUS
  <2>1. BlocksFit(heap)
    BY DEF Sound, Books
  <2> QED
    BY <2>1 DEF WithinBlocks, BlocksFit, Fits
<1> QED
  BY <1>1, SoundAlways, PTL
=============================================================================
