-------------------------- MODULE NetSocket_proofs --------------------------
(***************************************************************************)
(* Proofs about NetSocket for every capacity, fragment size, set of        *)
(* argument sizes and number of calls.  None of the invariants the runs    *)
(* check is inductive: whether a step of one thread is harmless depends on *)
(* where the other one stands, which is what Lifecycle says.               *)
(***************************************************************************)
EXTENDS NetSocket, SequenceTheorems, TLAPS

\* Whoever may find the sender thread alive knows it: `sender` is set, or
\* the VM thread is just about to set it; and a call keeps the socket open.
Lifecycle ==
    /\ Running => sender \/ vpc = "store"
    /\ vpc \in {"init", "direct"} => ~Running
    /\ vpc # "idle" => rs = "open"

\* A round of the sender thread is under way in "drain" only, and a call
\* that looked at `sender` has an argument to send.
Counting ==
    /\ thread # "drain" => count = 0
    /\ vpc \in {"buffered", "direct"} => args # << >>

Increasing(s) == \A i, j \in 1 .. Len(s) : i < j => s[i] < s[j]
AtMost(s, n) == \A i \in 1 .. Len(s) : s[i] <= n
Below(s, t) == \A i \in 1 .. Len(s), j \in 1 .. Len(t) : s[i] < t[j]

\* What was sent is older than what waits as long as a thread can send it.
Ordered ==
    /\ AtMost(wire, accepted) /\ AtMost(fifo, accepted)
    /\ Increasing(wire) /\ Increasing(fifo)
    /\ Running => Below(wire, fifo)

\* A thread ends, and a FIFO is without one, only after a close or an error.
EndsForAReason ==
    closed = 0 /\ status = "ok" =>
        /\ thread \in {"none", "poll", "drain"}
        /\ thread = "none" => fifo = << >> /\ ~sender /\ vpc \notin {"buffered", "store"}

IInv ==
    /\ TypeOK
    /\ NoUseAfterFree
    /\ Lifecycle
    /\ Counting
    /\ Ordered
    /\ EndsForAReason
    /\ NothingLost

-----------------------------------------------------------------------------
(* Sequences. *)

\* Consecutive bytes are a sequence of numbers.
LEMMA BytesSeq ==
    ASSUME NEW from \in Nat, NEW n \in Nat
    PROVE  /\ Bytes(from, n) \in Seq(Nat)
           /\ Len(Bytes(from, n)) = n
           /\ \A k \in 1 .. n : Bytes(from, n)[k] = from + k
BY DEF Bytes

\* Sequences of numbers after each other.
LEMMA Concat ==
    ASSUME NEW s \in Seq(Nat), NEW t \in Seq(Nat)
    PROVE  /\ s \o t \in Seq(Nat)
           /\ Len(s \o t) = Len(s) + Len(t)
           /\ \A i \in 1 .. Len(s) : (s \o t)[i] = s[i]
           /\ \A i \in 1 .. Len(t) : (s \o t)[Len(s) + i] = t[i]
           /\ \A i \in Len(s) + 1 .. Len(s) + Len(t) : (s \o t)[i] = t[i - Len(s)]
OBVIOUS

\* Three sequences after each other.
LEMMA Regroup ==
    \A s, t, u \in Seq(Nat) : (s \o t) \o u = s \o (t \o u)
BY ConcatAssociative, SMTT(30)

\* A sequence is its head and what is left.
LEMMA Split ==
    ASSUME NEW s \in Seq(Nat), NEW n \in 0 .. Len(s)
    PROVE  /\ SubSeq(s, 1, n) \in Seq(Nat)
           /\ Len(SubSeq(s, 1, n)) = n
           /\ \A i \in 1 .. n : SubSeq(s, 1, n)[i] = s[i]
           /\ SubSeq(s, n + 1, Len(s)) \in Seq(Nat)
           /\ Len(SubSeq(s, n + 1, Len(s))) = Len(s) - n
           /\ \A i \in 1 .. Len(s) - n : SubSeq(s, n + 1, Len(s))[i] = s[n + i]
<1>1. \A i \in 1 .. Len(s) : s[i] \in Nat
  OBVIOUS
<1>2. SubSeq(s, 1, n) \in Seq(Nat) /\ Len(SubSeq(s, 1, n)) = n
  BY <1>1, SubSeqProperties
<1>3. \A i \in 1 .. n : SubSeq(s, 1, n)[i] = s[i]
  OBVIOUS
<1>4. SubSeq(s, n + 1, Len(s)) \in Seq(Nat)
  BY <1>1, SubSeqProperties
<1>5. Len(SubSeq(s, n + 1, Len(s))) = Len(s) - n
  BY <1>1, SubSeqProperties
<1>6. \A i \in 1 .. Len(s) - n : SubSeq(s, n + 1, Len(s))[i] = s[n + i]
  OBVIOUS
<1> QED
  BY <1>2, <1>3, <1>4, <1>5, <1>6

\* The order of a concatenation.
LEMMA OrderOfConcat ==
    ASSUME NEW s \in Seq(Nat), NEW t \in Seq(Nat), NEW n \in Nat,
           Increasing(s), Increasing(t), Below(s, t), AtMost(s, n), AtMost(t, n)
    PROVE  Increasing(s \o t) /\ AtMost(s \o t, n)
<1> DEFINE u == s \o t
<1>1. /\ Len(u) = Len(s) + Len(t)
      /\ \A i \in 1 .. Len(s) : u[i] = s[i]
      /\ \A i \in Len(s) + 1 .. Len(s) + Len(t) : u[i] = t[i - Len(s)]
  BY Concat
<1>2. Len(s) \in Nat /\ Len(t) \in Nat
  OBVIOUS
<1> HIDE DEF u
<1>3. ASSUME NEW i \in 1 .. Len(u), NEW j \in 1 .. Len(u), i < j
      PROVE  u[i] < u[j]
  <2>1. CASE j <= Len(s)
    BY <1>1, <1>2, <1>3, <2>1 DEF Increasing
  <2>2. CASE i <= Len(s) /\ j > Len(s)
    <3>1. u[i] = s[i] /\ u[j] = t[j - Len(s)] /\ j - Len(s) \in 1 .. Len(t)
      BY <1>1, <1>2, <2>2
    <3> QED
      BY <1>2, <2>2, <3>1 DEF Below
  <2>3. CASE i > Len(s)
    <3>1. /\ u[i] = t[i - Len(s)] /\ i - Len(s) \in 1 .. Len(t)
          /\ u[j] = t[j - Len(s)] /\ j - Len(s) \in 1 .. Len(t)
          /\ i - Len(s) < j - Len(s)
      BY <1>1, <1>2, <1>3, <2>3
    <3> QED
      BY <3>1 DEF Increasing
  <2> QED
    BY <1>2, <2>1, <2>2, <2>3
<1>4. ASSUME NEW i \in 1 .. Len(u)
      PROVE  u[i] <= n
  <2>1. CASE i <= Len(s)
    BY <1>1, <1>2, <2>1 DEF AtMost
  <2>2. CASE i > Len(s)
    <3>1. u[i] = t[i - Len(s)] /\ i - Len(s) \in 1 .. Len(t)
      BY <1>1, <1>2, <2>2
    <3> QED
      BY <3>1 DEF AtMost
  <2> QED
    BY <1>2, <2>1, <2>2
<1> QED
  BY <1>3, <1>4 DEF Increasing, AtMost, u

\* What is below both is below all.
LEMMA ConcatBelow ==
    ASSUME NEW s \in Seq(Nat), NEW t \in Seq(Nat), NEW v \in Seq(Nat)
    PROVE  /\ Below(s, v) /\ Below(t, v) => Below(s \o t, v)
           /\ Below(v, s) /\ Below(v, t) => Below(v, s \o t)
<1> DEFINE u == s \o t
<1>1. /\ Len(u) = Len(s) + Len(t)
      /\ \A i \in 1 .. Len(s) : u[i] = s[i]
      /\ \A i \in Len(s) + 1 .. Len(s) + Len(t) : u[i] = t[i - Len(s)]
  BY Concat
<1>2. Len(s) \in Nat /\ Len(t) \in Nat
  OBVIOUS
<1> HIDE DEF u
<1>3. ASSUME NEW i \in 1 .. Len(u)
      PROVE  \/ \E k \in 1 .. Len(s) : u[i] = s[k]
             \/ \E k \in 1 .. Len(t) : u[i] = t[k]
  <2>1. CASE i <= Len(s)
    <3>1. u[i] = s[i] /\ i \in 1 .. Len(s)
      BY <1>1, <1>2, <2>1
    <3> QED
      BY <3>1
  <2>2. CASE i > Len(s)
    <3>1. u[i] = t[i - Len(s)] /\ i - Len(s) \in 1 .. Len(t)
      BY <1>1, <1>2, <2>2
    <3>2. \E k \in 1 .. Len(t) : u[i] = t[k]
      BY <3>1
    <3> QED
      BY <3>2
  <2> QED
    BY <1>2, <2>1, <2>2
<1>4. Below(s, v) /\ Below(t, v) => Below(u, v)
  BY <1>3 DEF Below
<1>5. Below(v, s) /\ Below(v, t) => Below(v, u)
  BY <1>3 DEF Below
<1> QED
  BY <1>4, <1>5 DEF u

\* New bytes are in order, and later than those accepted.
LEMMA OrderOfBytes ==
    ASSUME NEW from \in Nat, NEW n \in Nat, NEW s \in Seq(Nat), AtMost(s, from)
    PROVE  /\ Increasing(Bytes(from, n))
           /\ AtMost(Bytes(from, n), from + n)
           /\ Below(s, Bytes(from, n))
           /\ AtMost(s, from + n)
<1>1. \A i \in 1 .. Len(s) : s[i] \in Nat /\ s[i] <= from
  BY DEF AtMost
<1> DEFINE new == Bytes(from, n)
<1>2. Len(new) = n /\ \A k \in 1 .. n : new[k] = from + k
  BY BytesSeq
<1> HIDE DEF new
<1>3. Increasing(new) /\ AtMost(new, from + n)
  BY <1>2 DEF Increasing, AtMost
<1>4. Below(s, new) /\ AtMost(s, from + n)
  BY <1>1, <1>2, SMTT(30) DEF Below, AtMost
<1> QED
  BY <1>3, <1>4 DEF new

\* Both parts of bytes in order are in order, one below the other.
LEMMA OrderOfSplit ==
    ASSUME NEW s \in Seq(Nat), NEW n \in 0 .. Len(s), NEW m \in Nat,
           NEW v \in Seq(Nat), Increasing(s), AtMost(s, m), Below(v, s)
    PROVE  /\ Increasing(SubSeq(s, 1, n)) /\ AtMost(SubSeq(s, 1, n), m)
           /\ Below(v, SubSeq(s, 1, n))
           /\ Increasing(SubSeq(s, n + 1, Len(s))) /\ AtMost(SubSeq(s, n + 1, Len(s)), m)
           /\ Below(v, SubSeq(s, n + 1, Len(s)))
           /\ Below(SubSeq(s, 1, n), SubSeq(s, n + 1, Len(s)))
<1> DEFINE old == SubSeq(s, 1, n)
           new == SubSeq(s, n + 1, Len(s))
<1>1. /\ Len(old) = n
      /\ \A i \in 1 .. n : old[i] = s[i] /\ i \in 1 .. Len(s)
  BY Split
<1>2. /\ Len(new) = Len(s) - n
      /\ \A i \in 1 .. Len(s) - n : new[i] = s[n + i]
  BY Split
<1>3. \A i \in 1 .. Len(s) - n : n + i \in 1 .. Len(s)
  OBVIOUS
<1> HIDE DEF old, new
<1>4. Increasing(old) /\ AtMost(old, m) /\ Below(v, old)
  BY <1>1 DEF Increasing, AtMost, Below
<1>5. Increasing(new)
  <2>1. ASSUME NEW i \in 1 .. Len(s) - n, NEW j \in 1 .. Len(s) - n, i < j
        PROVE  new[i] < new[j]
    <3>1. n + i \in 1 .. Len(s) /\ n + j \in 1 .. Len(s) /\ n + i < n + j
      BY <1>3, <2>1
    <3>2. s[n + i] < s[n + j]
      BY <3>1 DEF Increasing
    <3> QED
      BY <1>2, <3>2
  <2> QED
    BY <1>2, <2>1 DEF Increasing
<1>6. AtMost(new, m) /\ Below(v, new)
  BY <1>2, <1>3 DEF AtMost, Below
<1>7. Below(old, new)
  <2>1. ASSUME NEW i \in 1 .. n, NEW j \in 1 .. Len(s) - n
        PROVE  old[i] < new[j]
    <3>1. i \in 1 .. Len(s) /\ n + j \in 1 .. Len(s) /\ i < n + j
      BY <1>1, <1>3
    <3>2. s[i] < s[n + j]
      BY <3>1 DEF Increasing
    <3> QED
      BY <1>1, <1>2, <3>2
  <2> QED
    BY <1>1, <1>2, <2>1 DEF Below
<1> QED
  BY <1>4, <1>5, <1>6, <1>7 DEF old, new

-----------------------------------------------------------------------------
\* A new socket.
LEMMA InitInvariant == Init => IInv
<1> SUFFICES ASSUME Init
             PROVE  IInv
  OBVIOUS
<1>1. << >> \in Seq(Nat) /\ << >> \in Seq(ArgSizes) /\ Len(<< >>) = 0
  OBVIOUS
<1>2. TypeOK
  <2>1. fifo \in Seq(Nat) /\ Len(fifo) <= Capacity /\ count \in 0 .. Len(fifo)
    BY <1>1, CapacityAssumption DEF Init
  <2>2. args \in Seq(ArgSizes) /\ wire \in Seq(Nat)
    BY <1>1 DEF Init
  <2>3. accepted \in Nat /\ setups \in 0 .. MaxSetups
    BY BoundsAssumption DEF Init
  <2>4. /\ rs = "open" /\ status = "ok" /\ memory = "none"
        /\ thread = "none" /\ vpc = "idle"
    BY DEF Init
  <2>5. closed \in 0 .. 2
    BY DEF Init
  <2>6. sender \in BOOLEAN
    BY Zenon DEF Init
  <2> QED
    BY <2>1, <2>2, <2>3, <2>4, <2>5, <2>6 DEF TypeOK
<1>3. NoUseAfterFree /\ Lifecycle /\ Counting
  BY DEF Init, NoUseAfterFree, Lifecycle, Counting, Running
<1>4. Ordered
  BY <1>1 DEF Init, Ordered, Increasing, AtMost, Below
<1>5. EndsForAReason
  BY DEF Init, EndsForAReason
<1>6. NothingLost
  <2>1. wire \o fifo = << >>
    BY DEF Init
  <2>2. Bytes(0, accepted) = << >>
    BY DEF Init, Bytes
  <2> QED
    BY <2>1, <2>2 DEF NothingLost
<1> QED
  BY <1>2, <1>3, <1>4, <1>5, <1>6 DEF IInv

-----------------------------------------------------------------------------
(* Who is where. *)

\* Life of the thread and the socket, for every step.
LEMMA ControlStep ==
    ASSUME TypeOK, NoUseAfterFree, Lifecycle, Counting, [Next]_vars
    PROVE  NoUseAfterFree' /\ Lifecycle' /\ Counting'
<1> USE DEF NoUseAfterFree, Lifecycle, Counting, Running, shared, Return, ThreadSame
<1>1. CASE n2_tcp_send
  BY <1>1 DEF n2_tcp_send
<1>2. CASE SendLook
  BY <1>2 DEF SendLook
<1>3. CASE SendReturn
  BY <1>3 DEF SendReturn
<1>4. CASE SendBuffered
  BY <1>4 DEF SendBuffered
<1>5. CASE SendDirect
  BY <1>5 DEF SendDirect
<1>6. CASE n2_tcp_setbuf
  BY <1>6 DEF n2_tcp_setbuf
<1>7. CASE SetbufJoin
  BY <1>7 DEF SetbufJoin
<1>8. CASE SetbufInit
  BY <1>8 DEF SetbufInit
<1>9. CASE SetbufStore
  BY <1>9 DEF SetbufStore
<1>10. CASE n2_tcp_close
  BY <1>10 DEF n2_tcp_close
<1>11. CASE n2s_destruct
  BY <1>11 DEF n2s_destruct
<1>12. CASE DestructJoin
  BY <1>12 DEF DestructJoin
<1>13. CASE SenderLoop
  BY <1>13 DEF SenderLoop
<1>14. CASE SenderCount
  BY <1>14 DEF SenderCount
<1>15. CASE SenderSend
  BY <1>15 DEF SenderSend
<1>16. CASE SenderLeave
  BY <1>16 DEF SenderLeave
<1>17. CASE UNCHANGED vars
  BY <1>17 DEF vars
<1> QED
  BY <1>1, <1>2, <1>3, <1>4, <1>5, <1>6, <1>7, <1>8, <1>9, <1>10, <1>11,
     <1>12, <1>13, <1>14, <1>15, <1>16, <1>17 DEF Next, VM, Sender, Gone

-----------------------------------------------------------------------------
(* Types. *)

\* The arguments that are left.
LEMMA NextArgument ==
    ASSUME TypeOK, args # << >>
    PROVE  Head(args) \in Nat \ {0} /\ Tail(args) \in Seq(ArgSizes)
BY HeadTailProperties, ArgSizesAssumption DEF TypeOK

\* Types, for every step.
LEMMA TypeStep ==
    ASSUME TypeOK, Lifecycle, Counting, [Next]_vars
    PROVE  TypeOK'
<1> USE DEF TypeOK, shared, Return, ThreadSame
<1>1. CASE n2_tcp_send
  <2>1. args' \in Seq(ArgSizes)
    <3>1. PICK n \in 1 .. MaxArgs : args' \in [1 .. n -> ArgSizes]
      BY <1>1 DEF n2_tcp_send
    <3> QED
      BY <3>1, BoundsAssumption
  <2> QED
    BY <1>1, <2>1 DEF n2_tcp_send
<1>2. CASE SendLook
  BY <1>2 DEF SendLook
<1>3. CASE SendReturn
  BY <1>3 DEF SendReturn
<1>4. CASE SendBuffered
  <2>1. Head(args) \in Nat \ {0} /\ Tail(args) \in Seq(ArgSizes)
    BY <1>4, NextArgument DEF SendBuffered, Counting
  <2>2. CASE Space < Head(args)
    BY <1>4, <2>2 DEF SendBuffered
  <2>3. CASE ~(Space < Head(args))
    <3>1. /\ fifo' = fifo \o Bytes(accepted, Head(args))
          /\ accepted' = accepted + Head(args)
          /\ args' = Tail(args) /\ vpc' = "send"
          /\ UNCHANGED <<rs, closed, status, sender, memory, thread, count, wire, setups>>
      BY <1>4, <2>3 DEF SendBuffered
    <3>2. /\ fifo' \in Seq(Nat)
          /\ Len(fifo') = Len(fifo) + Head(args)
      <4>1. /\ Bytes(accepted, Head(args)) \in Seq(Nat)
            /\ Len(Bytes(accepted, Head(args))) = Head(args)
        BY <2>1, BytesSeq
      <4> QED
        BY <3>1, <4>1, Concat
    <3>3. Len(fifo') <= Capacity
      BY <2>1, <2>3, <3>2, CapacityAssumption DEF Space
    <3>4. count' \in 0 .. Len(fifo')
      BY <2>1, <3>1, <3>2
    <3> QED
      BY <2>1, <3>1, <3>2, <3>3, <3>4
  <2> QED
    BY <2>2, <2>3
<1>5. CASE SendDirect
  <2>1. Head(args) \in Nat \ {0} /\ Tail(args) \in Seq(ArgSizes)
    BY <1>5, NextArgument DEF SendDirect, Counting
  <2>2. Bytes(accepted, Head(args)) \in Seq(Nat)
    BY <2>1, BytesSeq
  <2>3. wire \o Bytes(accepted, Head(args)) \in Seq(Nat)
    BY <2>2, Concat
  <2>4. CASE /\ wire' = wire \o Bytes(accepted, Head(args))
             /\ accepted' = accepted + Head(args)
             /\ args' = Tail(args)
             /\ vpc' = "send"
    <3>1. accepted' \in Nat
      BY <2>1, <2>4
    <3>2. UNCHANGED <<rs, closed, status, sender, memory, fifo, thread, count, setups>>
      BY <1>5 DEF SendDirect
    <3> QED
      BY <2>1, <2>3, <2>4, <3>1, <3>2
  <2>5. CASE Return /\ args' = << >> /\ UNCHANGED <<wire, accepted>>
    BY <1>5, <2>5 DEF SendDirect
  <2> QED
    BY <1>5, <2>4, <2>5 DEF SendDirect
<1>6. CASE n2_tcp_setbuf
  BY <1>6, BoundsAssumption DEF n2_tcp_setbuf
<1>7. CASE SetbufJoin
  BY <1>7 DEF SetbufJoin
<1>8. CASE SetbufInit
  <2>1. fifo' = << >> /\ count' = 0
    BY <1>8 DEF SetbufInit, Lifecycle, Counting, Running
  <2>2. fifo' \in Seq(Nat) /\ Len(fifo') = 0
    BY <2>1
  <2>3. Len(fifo') <= Capacity /\ count' \in 0 .. Len(fifo')
    BY <2>1, <2>2, CapacityAssumption
  <2>4. /\ memory' \in {"none", "held", "stale"}
        /\ sender' \in BOOLEAN
        /\ thread' \in {"none", "poll", "drain", "leave", "done"}
        /\ vpc' \in {"idle", "store"}
    BY <1>8 DEF SetbufInit
  <2>5. UNCHANGED <<rs, closed, status, args, accepted, wire, setups>>
    BY <1>8 DEF SetbufInit
  <2> QED
    BY <2>2, <2>3, <2>4, <2>5
<1>9. CASE SetbufStore
  BY <1>9 DEF SetbufStore
<1>10. CASE n2_tcp_close
  BY <1>10 DEF n2_tcp_close
<1>11. CASE n2s_destruct
  BY <1>11 DEF n2s_destruct
<1>12. CASE DestructJoin
  BY <1>12 DEF DestructJoin
<1>13. CASE SenderLoop
  BY <1>13 DEF SenderLoop
<1>14. CASE SenderCount
  BY <1>14 DEF SenderCount
<1>15. CASE SenderSend
  <2> DEFINE n == IF count > Fragment THEN Fragment ELSE count
  <2>1. n \in 1 .. Len(fifo) /\ n <= count
    BY <1>15, FragmentAssumption DEF SenderSend
  <2>2. /\ fifo' = SubSeq(fifo, n + 1, Len(fifo))
        /\ \/ /\ wire' = wire \o SubSeq(fifo, 1, n)
              /\ count' = count - n
              /\ thread' = IF count' = 0 THEN "poll" ELSE "drain"
              /\ UNCHANGED status
           \/ /\ status' = "write"
              /\ count' = 0
              /\ thread' = "poll"
              /\ UNCHANGED wire
    BY <1>15 DEF SenderSend
  <2> HIDE DEF n
  <2>3. fifo' \in Seq(Nat) /\ Len(fifo') = Len(fifo) - n
    BY <2>1, <2>2, Split
  <2>4. wire' \in Seq(Nat)
    <3>1. SubSeq(fifo, 1, n) \in Seq(Nat)
      BY <2>1, Split
    <3>2. wire \o SubSeq(fifo, 1, n) \in Seq(Nat)
      BY <3>1, Concat
    <3> QED
      BY <2>2, <3>2
  <2>5. Len(fifo') <= Capacity /\ count' \in 0 .. Len(fifo')
    <3>1. Len(fifo) \in Nat /\ count \in Nat /\ count <= Len(fifo)
      OBVIOUS
    <3>2. count' = count - n \/ count' = 0
      BY <2>2
    <3> QED
      BY <2>1, <2>3, <3>1, <3>2, CapacityAssumption, SMTT(30)
  <2>6. /\ status' \in {"ok", "write", "closed"}
        /\ thread' \in {"poll", "drain"}
    BY <2>2
  <2>7. UNCHANGED <<rs, closed, sender, memory, vpc, args, accepted, setups>>
    BY <1>15 DEF SenderSend
  <2> QED
    BY <2>3, <2>4, <2>5, <2>6, <2>7
<1>16. CASE SenderLeave
  BY <1>16 DEF SenderLeave
<1>17. CASE UNCHANGED vars
  BY <1>17 DEF vars
<1> QED
  BY <1>1, <1>2, <1>3, <1>4, <1>5, <1>6, <1>7, <1>8, <1>9, <1>10, <1>11,
     <1>12, <1>13, <1>14, <1>15, <1>16, <1>17 DEF Next, VM, Sender, Gone

-----------------------------------------------------------------------------
(* The order of the bytes. *)

\* Steps that move no byte.
LEMMA OrderKept ==
    ASSUME Ordered, UNCHANGED <<wire, accepted, fifo>>, Running' => Running
    PROVE  Ordered'
BY DEF Ordered, Increasing, AtMost, Below

\* TCPSend puts an argument behind what waits in the FIFO.
LEMMA OrderBuffered ==
    ASSUME TypeOK, Ordered, NEW n \in Nat,
           fifo' = fifo \o Bytes(accepted, n),
           accepted' = accepted + n,
           UNCHANGED <<wire, thread>>
    PROVE  Ordered'
<1> DEFINE new == Bytes(accepted, n)
<1>1. /\ fifo \in Seq(Nat) /\ wire \in Seq(Nat) /\ accepted \in Nat
      /\ new \in Seq(Nat) /\ accepted + n \in Nat
  BY BytesSeq DEF TypeOK
<1>2. AtMost(fifo, accepted) /\ AtMost(wire, accepted)
  BY DEF Ordered
<1>3. /\ Increasing(new) /\ AtMost(new, accepted + n)
      /\ Below(fifo, new) /\ AtMost(fifo, accepted + n)
  BY <1>1, <1>2, OrderOfBytes
<1>4. Below(wire, new) /\ AtMost(wire, accepted + n)
  BY <1>1, <1>2, OrderOfBytes
<1> HIDE DEF new
<1>5. Increasing(fifo) /\ Increasing(wire) /\ (Running => Below(wire, fifo))
  BY DEF Ordered
<1>6. Increasing(fifo \o new) /\ AtMost(fifo \o new, accepted + n)
  BY <1>1, <1>3, <1>5, OrderOfConcat
<1>7. Running => Below(wire, fifo \o new)
  BY <1>1, <1>4, <1>5, ConcatBelow
<1>8. fifo' = fifo \o new /\ wire' = wire /\ accepted' = accepted + n /\ Running' = Running
  BY DEF new, Running
<1> QED
  BY <1>4, <1>5, <1>6, <1>7, <1>8 DEF Ordered, Increasing, AtMost, Below

\* TCPSend sends an argument itself: no thread is there to send what waits.
LEMMA OrderDirect ==
    ASSUME TypeOK, Ordered, ~Running, NEW n \in Nat,
           wire' = wire \o Bytes(accepted, n),
           accepted' = accepted + n,
           UNCHANGED <<fifo, thread>>
    PROVE  Ordered'
<1> DEFINE new == Bytes(accepted, n)
<1>1. /\ fifo \in Seq(Nat) /\ wire \in Seq(Nat) /\ accepted \in Nat
      /\ new \in Seq(Nat) /\ accepted + n \in Nat
  BY BytesSeq DEF TypeOK
<1>2. AtMost(fifo, accepted) /\ AtMost(wire, accepted)
  BY DEF Ordered
<1>3. /\ Increasing(new) /\ AtMost(new, accepted + n)
      /\ Below(wire, new) /\ AtMost(wire, accepted + n)
  BY <1>1, <1>2, OrderOfBytes
<1>4. AtMost(fifo, accepted + n)
  BY <1>1, <1>2, OrderOfBytes
<1> HIDE DEF new
<1>5. Increasing(fifo) /\ Increasing(wire)
  BY DEF Ordered
<1>6. Increasing(wire \o new) /\ AtMost(wire \o new, accepted + n)
  BY <1>1, <1>3, <1>5, OrderOfConcat
<1>7. fifo' = fifo /\ wire' = wire \o new /\ accepted' = accepted + n /\ ~Running'
  BY DEF new, Running
<1> QED
  BY <1>4, <1>5, <1>6, <1>7 DEF Ordered, Increasing, AtMost, Below

\* The sender thread moves the oldest bytes of the FIFO to the wire, or
\* loses them.
LEMMA OrderSent ==
    ASSUME TypeOK, Ordered, Running, NEW n \in 0 .. Len(fifo),
           fifo' = SubSeq(fifo, n + 1, Len(fifo)),
           wire' = wire \o SubSeq(fifo, 1, n) \/ wire' = wire,
           UNCHANGED accepted
    PROVE  Ordered'
<1> DEFINE old == SubSeq(fifo, 1, n)
           rest == SubSeq(fifo, n + 1, Len(fifo))
<1>1. fifo \in Seq(Nat) /\ wire \in Seq(Nat) /\ accepted \in Nat
  BY DEF TypeOK
<1>2. old \in Seq(Nat) /\ rest \in Seq(Nat)
  BY <1>1, Split
<1>3. /\ Increasing(wire) /\ Increasing(fifo) /\ Below(wire, fifo)
      /\ AtMost(wire, accepted) /\ AtMost(fifo, accepted)
  BY DEF Ordered
<1>4. /\ Increasing(old) /\ AtMost(old, accepted) /\ Below(wire, old)
      /\ Increasing(rest) /\ AtMost(rest, accepted) /\ Below(wire, rest)
      /\ Below(old, rest)
  BY <1>1, <1>3, OrderOfSplit
<1>5. fifo' = rest /\ accepted' = accepted /\ (wire' = wire \o old \/ wire' = wire)
  OBVIOUS
<1> HIDE DEF old, rest
<1>6. /\ Increasing(wire \o old) /\ AtMost(wire \o old, accepted)
      /\ Below(wire \o old, rest)
  BY <1>1, <1>2, <1>3, <1>4, OrderOfConcat, ConcatBelow
<1> QED
  BY <1>3, <1>4, <1>5, <1>6 DEF Ordered, Increasing, AtMost, Below

\* Order, for every step.
LEMMA OrderStep ==
    ASSUME TypeOK, Lifecycle, Counting, Ordered, [Next]_vars
    PROVE  Ordered'
<1> USE DEF shared, Return, ThreadSame
<1>1. CASE \/ n2_tcp_send \/ SendLook \/ SendReturn \/ n2_tcp_setbuf
           \/ SetbufJoin \/ SetbufStore \/ n2_tcp_close \/ n2s_destruct
           \/ DestructJoin \/ UNCHANGED vars
  <2>1. UNCHANGED <<wire, accepted, fifo, thread>>
    BY <1>1 DEF n2_tcp_send, SendLook, SendReturn, n2_tcp_setbuf, SetbufJoin,
                SetbufStore, n2_tcp_close, n2s_destruct, DestructJoin, vars
  <2> QED
    BY <2>1, OrderKept DEF Running
<1>2. CASE SenderLoop \/ SenderCount \/ SenderLeave
  <2>1. UNCHANGED <<wire, accepted, fifo>> /\ Running
    BY <1>2 DEF SenderLoop, SenderCount, SenderLeave, Running
  <2> QED
    BY <2>1, OrderKept
<1>3. CASE SetbufInit
  <2>1. UNCHANGED <<wire, accepted>> /\ fifo' = << >> /\ ~Running
    BY <1>3 DEF SetbufInit, Lifecycle
  <2>2. Len(fifo') = 0 /\ Increasing(wire) /\ AtMost(wire, accepted)
    BY <2>1 DEF Ordered
  <2> QED
    BY <2>1, <2>2 DEF Ordered, Increasing, AtMost, Below
<1>4. CASE SendBuffered
  <2>1. Head(args) \in Nat
    BY <1>4, NextArgument DEF SendBuffered, Counting
  <2>2. CASE Space < Head(args)
    <3>1. UNCHANGED <<wire, accepted, fifo, thread>>
      BY <1>4, <2>2 DEF SendBuffered
    <3> QED
      BY <3>1, OrderKept DEF Running
  <2>3. CASE ~(Space < Head(args))
    <3>1. /\ fifo' = fifo \o Bytes(accepted, Head(args))
          /\ accepted' = accepted + Head(args)
          /\ UNCHANGED <<wire, thread>>
      BY <1>4, <2>3 DEF SendBuffered
    <3> QED
      BY <2>1, <3>1, OrderBuffered
  <2> QED
    BY <2>2, <2>3
<1>5. CASE SendDirect
  <2>1. Head(args) \in Nat /\ ~Running
    BY <1>5, NextArgument DEF SendDirect, Counting, Lifecycle
  <2>2. UNCHANGED <<fifo, thread>>
    BY <1>5 DEF SendDirect
  <2>3. CASE wire' = wire \o Bytes(accepted, Head(args)) /\ accepted' = accepted + Head(args)
    BY <2>1, <2>2, <2>3, OrderDirect
  <2>4. CASE UNCHANGED <<wire, accepted>>
    BY <2>2, <2>4, OrderKept DEF Running
  <2> QED
    BY <1>5, <2>3, <2>4 DEF SendDirect
<1>6. CASE SenderSend
  <2> DEFINE n == IF count > Fragment THEN Fragment ELSE count
  <2>1. n \in 0 .. Len(fifo) /\ Running
    BY <1>6, FragmentAssumption DEF SenderSend, TypeOK, Running
  <2>2. /\ fifo' = SubSeq(fifo, n + 1, Len(fifo))
        /\ wire' = wire \o SubSeq(fifo, 1, n) \/ wire' = wire
        /\ UNCHANGED accepted
    BY <1>6 DEF SenderSend
  <2> HIDE DEF n
  <2> QED
    BY <2>1, <2>2, OrderSent
<1> QED
  BY <1>1, <1>2, <1>3, <1>4, <1>5, <1>6 DEF Next, VM, Sender, Gone

-----------------------------------------------------------------------------
(* The whole stream. *)

\* A socket that is closed, freed or in error stays so.
LEMMA Trouble ==
    ASSUME [Next]_vars
    PROVE  /\ closed' = 0 => closed = 0
           /\ status' = "ok" => status = "ok"
           /\ rs' = "open" => rs = "open"
<1> USE DEF shared, Return, ThreadSame
<1>1. CASE VM
  <2>1. CASE n2_tcp_send \/ SendLook \/ SendReturn \/ SendBuffered \/ SendDirect
    BY <2>1 DEF n2_tcp_send, SendLook, SendReturn, SendBuffered, SendDirect
  <2>2. CASE n2_tcp_setbuf
    BY <2>2 DEF n2_tcp_setbuf
  <2>3. CASE SetbufJoin \/ SetbufInit \/ SetbufStore
    BY <2>3 DEF SetbufJoin, SetbufInit, SetbufStore
  <2>4. CASE n2_tcp_close
    BY <2>4 DEF n2_tcp_close
  <2>5. CASE n2s_destruct
    BY <2>5 DEF n2s_destruct
  <2>6. CASE DestructJoin
    BY <2>6 DEF DestructJoin
  <2> QED
    BY <1>1, <2>1, <2>2, <2>3, <2>4, <2>5, <2>6 DEF VM
<1>2. CASE Sender
  BY <1>2 DEF Sender, SenderLoop, SenderCount, SenderSend, SenderLeave
<1>3. CASE UNCHANGED vars
  BY <1>3 DEF vars
<1> QED
  BY <1>1, <1>2, <1>3 DEF Next, Gone

\* Reasons to end, for every step.
LEMMA ReasonStep ==
    ASSUME TypeOK, Lifecycle, EndsForAReason, [Next]_vars,
           closed = 0, status = "ok"
    PROVE  EndsForAReason'
<1> USE DEF EndsForAReason, shared, Return, ThreadSame
<1>1. CASE \/ n2_tcp_send \/ SendLook \/ SendReturn \/ SendDirect
           \/ n2_tcp_setbuf \/ n2_tcp_close \/ n2s_destruct
           \/ SetbufStore \/ UNCHANGED vars
  BY <1>1 DEF n2_tcp_send, SendLook, SendReturn, SendDirect, n2_tcp_setbuf,
              n2_tcp_close, n2s_destruct, SetbufStore, vars
<1>2. CASE SetbufJoin
  BY <1>2 DEF SetbufJoin
<1>3. CASE DestructJoin
  BY <1>3 DEF DestructJoin
<1>4. CASE SetbufInit
  BY <1>4 DEF SetbufInit, Lifecycle, Running
<1>5. CASE SendBuffered
  BY <1>5 DEF SendBuffered
<1>6. CASE SenderLoop
  BY <1>6 DEF SenderLoop
<1>7. CASE SenderCount
  BY <1>7 DEF SenderCount
<1>8. CASE SenderSend
  BY <1>8 DEF SenderSend
<1>9. CASE SenderLeave
  BY <1>9 DEF SenderLeave
<1> QED
  BY <1>1, <1>2, <1>3, <1>4, <1>5, <1>6, <1>7, <1>8, <1>9
     DEF Next, VM, Sender, Gone

\* The bytes accepted so far, and those of the next argument.
LEMMA BytesGrow ==
    ASSUME NEW a \in Nat, NEW n \in Nat
    PROVE  Bytes(0, a) \o Bytes(a, n) = Bytes(0, a + n)
<1> DEFINE s == Bytes(0, a)
           t == Bytes(a, n)
           u == Bytes(0, a + n)
<1>1. /\ s \in Seq(Nat) /\ Len(s) = a /\ \A k \in 1 .. a : s[k] = 0 + k
      /\ t \in Seq(Nat) /\ Len(t) = n /\ \A k \in 1 .. n : t[k] = a + k
  BY BytesSeq
<1>2. u \in Seq(Nat) /\ Len(u) = a + n /\ \A k \in 1 .. a + n : u[k] = 0 + k
  BY BytesSeq
<1> HIDE DEF s, t, u
<1>3. /\ s \o t \in Seq(Nat) /\ Len(s \o t) = a + n
      /\ \A k \in 1 .. a : (s \o t)[k] = s[k]
      /\ \A k \in a + 1 .. a + n : (s \o t)[k] = t[k - a]
  BY <1>1, Concat
<1>4. \A k \in a + 1 .. a + n : k - a \in 1 .. n
  OBVIOUS
<1>5. \A k \in 1 .. Len(s \o t) : (s \o t)[k] = u[k]
  BY <1>1, <1>2, <1>3, <1>4, SMTT(30)
<1> QED
  BY <1>2, <1>3, <1>5, SeqEqual DEF s, t, u

\* Sent and buffered bytes, for every step.
LEMMA NothingLostStep ==
    ASSUME IInv, [Next]_vars
    PROVE  NothingLost'
<1> SUFFICES ASSUME closed' = 0, status' = "ok", rs' = "open"
             PROVE  wire' \o fifo' = Bytes(0, accepted')
  BY DEF NothingLost, Bytes
<1>1. closed = 0 /\ status = "ok" /\ rs = "open"
  BY Trouble
<1>2. wire \o fifo = Bytes(0, accepted)
  BY <1>1 DEF IInv, NothingLost
<1>3. fifo \in Seq(Nat) /\ wire \in Seq(Nat) /\ accepted \in Nat
  BY DEF IInv, TypeOK
<1>4. ~Running => fifo = << >>
  BY <1>1 DEF IInv, EndsForAReason, Running
<1> USE DEF shared, Return, ThreadSame
<1>5. CASE UNCHANGED <<wire, fifo, accepted>>
  BY <1>2, <1>5
<1>6. CASE SetbufInit
  <2>1. fifo' = fifo
    BY <1>4, <1>6 DEF IInv, Lifecycle, SetbufInit
  <2> QED
    BY <1>5, <1>6, <2>1 DEF SetbufInit
<1>7. CASE SendBuffered /\ ~(Space < Head(args))
  <2> DEFINE new == Bytes(accepted, Head(args))
  <2>1. Head(args) \in Nat
    BY <1>7, NextArgument DEF SendBuffered, IInv, Counting
  <2>2. new \in Seq(Nat)
    BY <1>3, <2>1, BytesSeq
  <2>3. Bytes(0, accepted) \o new = Bytes(0, accepted + Head(args))
    BY <1>3, <2>1, BytesGrow
  <2>4. fifo' = fifo \o new /\ wire' = wire /\ accepted' = accepted + Head(args)
    BY <1>7 DEF SendBuffered
  <2> HIDE DEF new
  <2>5. wire \o (fifo \o new) = (wire \o fifo) \o new
    BY <1>3, <2>2, Regroup
  <2> QED
    BY <1>2, <2>3, <2>4, <2>5
<1>8. CASE SendDirect /\ wire' # wire
  <2> DEFINE new == Bytes(accepted, Head(args))
  <2>1. Head(args) \in Nat /\ fifo = << >>
    BY <1>4, <1>8, NextArgument DEF SendDirect, IInv, Counting, Lifecycle
  <2>2. new \in Seq(Nat)
    BY <1>3, <2>1, BytesSeq
  <2>3. Bytes(0, accepted) \o new = Bytes(0, accepted + Head(args))
    BY <1>3, <2>1, BytesGrow
  <2>4. wire' = wire \o new /\ fifo' = fifo /\ accepted' = accepted + Head(args)
    BY <1>8 DEF SendDirect
  <2> HIDE DEF new
  <2>5. wire \o new \in Seq(Nat)
    BY <1>3, <2>2, Concat
  <2>6. wire' \o fifo' = wire \o new /\ wire \o fifo = wire
    BY <1>3, <2>1, <2>4, <2>5, ConcatEmptySeq
  <2> QED
    BY <1>2, <2>3, <2>4, <2>6
<1>9. CASE SenderSend
  <2> DEFINE n == IF count > Fragment THEN Fragment ELSE count
             old == SubSeq(fifo, 1, n)
             rest == SubSeq(fifo, n + 1, Len(fifo))
  <2>1. n \in 0 .. Len(fifo)
    BY <1>9, FragmentAssumption DEF SenderSend, IInv, TypeOK
  <2>2. fifo' = rest /\ wire' = wire \o old /\ accepted' = accepted
    BY <1>9 DEF SenderSend
  <2> HIDE DEF n
  <2>3. old \in Seq(Nat) /\ rest \in Seq(Nat)
    BY <1>3, <2>1, Split
  <2>4. old \o rest = SubSeq(fifo, 1, Len(fifo))
    <3>1. 1 \in 1 .. Len(fifo) + 1 /\ n \in 1 - 1 .. Len(fifo) /\ Len(fifo) \in n .. Len(fifo)
      BY <1>3, <2>1
    <3> QED
      BY <1>3, <3>1, ConcatAdjacentSubSeq
  <2>5. SubSeq(fifo, 1, Len(fifo)) = fifo
    BY <1>3, SubSeqFull
  <2> HIDE DEF old, rest
  <2>6. (wire \o old) \o rest = wire \o (old \o rest)
    BY <1>3, <2>3, Regroup
  <2> QED
    BY <1>2, <2>2, <2>4, <2>5, <2>6
<1>10. CASE \/ n2_tcp_send \/ SendLook \/ SendReturn \/ n2_tcp_setbuf
            \/ SetbufJoin \/ SetbufStore \/ n2_tcp_close \/ n2s_destruct
            \/ DestructJoin \/ SenderLoop \/ SenderCount \/ SenderLeave
            \/ UNCHANGED vars
  BY <1>5, <1>10
     DEF n2_tcp_send, SendLook, SendReturn, n2_tcp_setbuf, SetbufJoin,
         SetbufStore, n2_tcp_close, n2s_destruct, DestructJoin, SenderLoop,
         SenderCount, SenderLeave, vars
<1>11. CASE SendBuffered /\ Space < Head(args)
  BY <1>5, <1>11 DEF SendBuffered
<1>12. CASE SendDirect /\ wire' = wire
  <2>1. CASE UNCHANGED <<wire, accepted>>
    BY <1>5, <1>12, <2>1 DEF SendDirect
  <2>2. CASE wire' = wire \o Bytes(accepted, Head(args)) /\ accepted' = accepted + Head(args)
    <3>1. Head(args) \in Nat \ {0}
      BY <1>12, NextArgument DEF SendDirect, IInv, Counting
    <3>2. Len(wire') = Len(wire) + Head(args)
      <4>1. /\ Bytes(accepted, Head(args)) \in Seq(Nat)
            /\ Len(Bytes(accepted, Head(args))) = Head(args)
        BY <1>3, <3>1, BytesSeq
      <4> QED
        BY <1>3, <2>2, <4>1, Concat
    <3> QED
      BY <1>3, <1>12, <3>1, <3>2
  <2> QED
    BY <1>12, <2>1, <2>2 DEF SendDirect
<1> QED
  BY <1>6, <1>7, <1>8, <1>9, <1>10, <1>11, <1>12 DEF Next, VM, Sender, Gone

\* Every step of the VM thread and the sender thread.
LEMMA StepInvariant == IInv /\ [Next]_vars => IInv'
<1> SUFFICES ASSUME IInv, [Next]_vars
             PROVE  IInv'
  OBVIOUS
<1>1. TypeOK' /\ NoUseAfterFree' /\ Lifecycle' /\ Counting' /\ Ordered'
  BY ControlStep, TypeStep, OrderStep DEF IInv
<1>2. EndsForAReason'
  <2>1. CASE closed' = 0 /\ status' = "ok" /\ ~(closed = 0 /\ status = "ok")
    BY <2>1, Trouble
  <2> QED
    BY <2>1, ReasonStep DEF IInv, EndsForAReason
<1> QED
  BY <1>1, <1>2, NothingLostStep DEF IInv

(***************************************************************************)
(* At every access of TCPSend, TCPSetBuffer, TCPClose, the destructor and  *)
(* n2s_sender_thread to what they share: who may run, what is allocated    *)
(* and what is still to be sent agree.                                     *)
(***************************************************************************)
THEOREM Invariant == Spec => []IInv
BY InitInvariant, StepInvariant, PTL DEF Spec

-----------------------------------------------------------------------------
(***************************************************************************)
(* Type correctness: sfifo never gets more than fits, and a round of       *)
(* n2s_sender_thread never asks for more than there is.                    *)
(***************************************************************************)
THEOREM TypeCorrect == Spec => []TypeOK
<1>1. IInv => TypeOK
  BY DEF IInv
<1> QED
  BY <1>1, Invariant, PTL

(***************************************************************************)
(* TCPClose, TCPSetBuffer and the destructor free neither the socket nor   *)
(* the FIFO's memory while the sender thread may still use them.           *)
(***************************************************************************)
THEOREM SenderIsSafe == Spec => []NoUseAfterFree
<1>1. IInv => NoUseAfterFree
  BY DEF IInv
<1> QED
  BY <1>1, Invariant, PTL

(***************************************************************************)
(* However often TCPSend changes between the FIFO and direct sends, no     *)
(* byte overtakes another one.                                             *)
(***************************************************************************)
THEOREM NoOvertaking == Spec => []WireInOrder
<1>1. IInv => WireInOrder
  BY DEF IInv, Ordered, Increasing, WireInOrder
<1> QED
  BY <1>1, Invariant, PTL

(***************************************************************************)
(* As long as the socket is neither closed nor in error, what was sent and *)
(* what waits in the FIFO is exactly what TCPSend accepted.                *)
(***************************************************************************)
THEOREM KeepsEveryByte == Spec => []NothingLost
<1>1. IInv => NothingLost
  BY DEF IInv
<1> QED
  BY <1>1, Invariant, PTL
=============================================================================
