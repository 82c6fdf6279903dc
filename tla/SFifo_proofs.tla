---------------------------- MODULE SFifo_proofs ----------------------------
(***************************************************************************)
(* Proofs about SFifo for every buffer size, transfer length and length of *)
(* the stream.  TypeOK, UsedExact, NoOverrun and InOrder are not inductive *)
(* on their own: IInv adds where the two copies stand, what they have been *)
(* granted, and the content of every slot between the two positions.       *)
(***************************************************************************)
EXTENDS SFifo, SequenceTheorems, TLAPS

\* Bytes of the write under way that are in the buffer already.
Written == IF wpc = "copy" THEN wtotal - wleft ELSE 0

\* A copy under way stays within what it was granted, whatever the other
\* side does meanwhile; a side that is idle has nothing left to copy.
Granted ==
    /\ wpc = "copy" => sent + wtotal - Consumed <= Size - 1
    /\ wpc = "idle" => wleft = 0
    /\ rtotal <= sent - Consumed
    /\ rpc = "idle" => rtotal = 0
    /\ Consumed >= 0 /\ sent - Consumed <= Size - 1

\* Each copy stands as far behind its side's published position as it has
\* bytes done.
Standing ==
    /\ wpc = "copy" => Slot(wpos) = Slot(readpos + (sent - Consumed) + Written)
    /\ rpc = "copy" => Slot(rpos) = Slot(readpos + (rtotal - rleft))
    /\ Slot(writepos) = Slot(readpos + (sent - Consumed))

\* The slots from readpos on hold the stream from byte Consumed on, up to
\* what the writer has put there.
Stream ==
    \A k \in 0 .. sent - Consumed + Written - 1 :
        buffer[Slot(readpos + k)] = Consumed + k

IInv ==
    /\ TypeOK
    /\ Granted
    /\ Standing
    /\ Stream
    /\ InOrder

-----------------------------------------------------------------------------
\* Quotient and remainder are unique.
LEMMA ModUnique ==
    ASSUME NEW d \in Int, NEW q \in Int, NEW r \in Int,
           0 <= r, r < Size, d = q * Size + r
    PROVE  d % Size = r
<1>1. d % Size \in Int /\ 0 <= d % Size /\ d % Size < Size
  BY SizeAssumption, Z3
<1>2. d = Size * (d \div Size) + (d % Size)
  BY SizeAssumption, Z3
<1> DEFINE e == (d \div Size) - q
<1>3. e \in Int
  BY SizeAssumption, Z3
<1>4. r - (d % Size) = Size * e
  BY <1>1, <1>2, <1>3, SizeAssumption, Z3
<1> HIDE DEF e
<1>5. CASE e >= 1
  <2>1. Size * e >= Size
    BY <1>3, <1>5, SizeAssumption, Z3
  <2> QED
    BY <2>1, <1>1, <1>3, <1>4, SizeAssumption, Z3
<1>6. CASE e <= -1
  <2>1. Size * e <= -Size
    BY <1>3, <1>6, SizeAssumption, Z3
  <2> QED
    BY <2>1, <1>1, <1>3, <1>4, SizeAssumption, Z3
<1>7. CASE e = 0
  BY <1>1, <1>4, <1>7, SizeAssumption
<1> QED
  BY <1>3, <1>5, <1>6, <1>7

\* sfifo_used as the difference of two positions folded into the ring.
LEMMA ModRange ==
    ASSUME NEW d \in Int, -Size <= d, d <= Size
    PROVE  d % Size = IF d < 0 THEN IF d = -Size THEN 0 ELSE d + Size
                               ELSE IF d = Size THEN 0 ELSE d
<1>1. CASE d = -Size
  BY <1>1, ModUnique, SizeAssumption
<1>2. CASE d # -Size /\ d < 0
  BY <1>2, ModUnique, SizeAssumption
<1>3. CASE d = Size
  BY <1>3, ModUnique, SizeAssumption
<1>4. CASE d >= 0 /\ d # Size
  BY <1>4, ModUnique, SizeAssumption
<1> QED
  BY <1>1, <1>2, <1>3, <1>4, SizeAssumption

\* The distance between two positions is the number of slots from one to
\* the other.
LEMMA UsedOfSlots ==
    ASSUME NEW r \in 0 .. Size, NEW w \in 0 .. Size, NEW n \in 0 .. Size - 1,
           Slot(w) = Slot(r + n)
    PROVE  (w - r) % Size = n
BY ModRange, SizeAssumption DEF Slot

\* The distance of the positions is the number of unread bytes.
LEMMA UsedIsUnread == IInv => UsedExact
<1> SUFFICES ASSUME IInv
             PROVE  UsedExact
  OBVIOUS
<1>1. sent - Consumed \in 0 .. Size - 1
  BY SizeAssumption DEF IInv, TypeOK, Granted, Consumed
<1>2. readpos \in 0 .. Size /\ writepos \in 0 .. Size
  BY DEF IInv, TypeOK
<1>3. Slot(writepos) = Slot(readpos + (sent - Consumed))
  BY DEF IInv, Standing
<1> QED
  BY <1>1, <1>2, <1>3, UsedOfSlots DEF UsedExact, Used

-----------------------------------------------------------------------------
\* sfifo_init.
LEMMA InitInvariant == Init => IInv
BY SizeAssumption
   DEF Init, IInv, TypeOK, Granted, Standing, Stream, InOrder, Slot, Written,
       Consumed

\* sfifo_write only looks: what it grants itself is free, and stays free.
LEMMA WriteStep ==
    ASSUME IInv, NEW len \in 1 .. MaxLen, sfifo_write(len)
    PROVE  IInv'
<1>1. Used = sent - Consumed
  BY UsedIsUnread DEF UsedExact
<1>2. /\ Consumed \in Int /\ Consumed' = Consumed
      /\ sent - Consumed \in 0 .. Size - 1
  BY SizeAssumption DEF IInv, TypeOK, Granted, Consumed, sfifo_write, rvars
<1>3. /\ wtotal' \in 0 .. Size - 1
      /\ sent + wtotal' - Consumed <= Size - 1
  BY <1>1, <1>2, SizeAssumption, MaxLenAssumption
     DEF IInv, TypeOK, sfifo_write, Clip, Space
<1>4. Written = 0 /\ Written' = 0
  BY <1>3 DEF Written, sfifo_write
<1>5. TypeOK'
  BY <1>3, SizeAssumption DEF IInv, TypeOK, sfifo_write, rvars
<1>6. Granted'
  BY <1>2, <1>3 DEF IInv, Granted, sfifo_write, rvars
<1>7. Standing'
  BY <1>2, <1>4 DEF IInv, TypeOK, Standing, Slot, sfifo_write, rvars
<1>8. Stream'
  BY <1>2, <1>4 DEF IInv, Stream, Slot, sfifo_write, rvars
<1>9. InOrder'
  BY DEF IInv, InOrder, sfifo_write, rvars
<1> QED
  BY <1>5, <1>6, <1>7, <1>8, <1>9 DEF IInv

\* A byte goes into the slot right behind the stream.
LEMMA WriteByteStep ==
    ASSUME IInv, WriteByte
    PROVE  IInv'
<1> DEFINE unread == sent - Consumed
           put == wtotal - wleft
<1>1. /\ unread \in Int /\ put \in Int /\ Consumed \in Int
      /\ 0 <= unread /\ 0 <= put
      /\ unread + put < Size - 1
      /\ Consumed' = Consumed
  BY SizeAssumption
     DEF IInv, TypeOK, Granted, WriteByte, Consumed, rvars
<1>2. Slot(wpos) \in 0 .. Size - 1
  BY SizeAssumption DEF IInv, TypeOK, Slot
<1>3. Slot(wpos) = Slot(readpos + unread + put)
  BY <1>1 DEF IInv, Standing, Written, WriteByte
<1>4. TypeOK'
  BY <1>2, SizeAssumption DEF IInv, TypeOK, WriteByte, rvars
<1>5. Granted'
  BY <1>1 DEF IInv, TypeOK, Granted, WriteByte, rvars
<1>6. Standing'
  BY <1>1, <1>2, <1>3, SizeAssumption, SMTT(30)
     DEF IInv, TypeOK, Standing, Written, Slot, WriteByte, rvars
<1>7. Stream'
  <2>1. ASSUME NEW k \in 0 .. unread + put
        PROVE  buffer'[Slot(readpos + k)] = Consumed + k
    <3>1. Slot(readpos + k) \in 0 .. Size - 1
      BY <1>1, SizeAssumption DEF IInv, TypeOK, Slot
    <3>2. CASE k = unread + put
      BY <3>1, <3>2, <1>1, <1>3
         DEF IInv, TypeOK, WriteByte
    <3>3. CASE k < unread + put
      <4>1. Slot(readpos + k) # Slot(wpos)
        BY <3>3, <1>1, <1>3, SizeAssumption DEF IInv, TypeOK, Slot
      <4>2. buffer[Slot(readpos + k)] = Consumed + k
        BY <3>3, <1>1 DEF IInv, Stream, Written, WriteByte
      <4> QED
        BY <4>1, <4>2, <3>1 DEF IInv, TypeOK, WriteByte
    <3> QED
      BY <3>2, <3>3, <1>1
  <2>2. sent' - Consumed' + Written' - 1 = unread + put
    BY <1>1 DEF IInv, TypeOK, Written, WriteByte
  <2> QED
    BY <2>1, <2>2, <1>1 DEF Stream, Slot, WriteByte, rvars
<1>8. InOrder'
  BY DEF IInv, InOrder, WriteByte, rvars
<1> QED
  BY <1>4, <1>5, <1>6, <1>7, <1>8 DEF IInv

\* Publishing moves the copied bytes from the write to the queue.
LEMMA WriteCommitStep ==
    ASSUME IInv, WriteCommit
    PROVE  IInv'
<1> DEFINE unread == sent - Consumed
<1>1. /\ Consumed \in Int /\ Consumed' = Consumed
      /\ unread \in Nat /\ unread + wtotal <= Size - 1
      /\ sent' - Consumed = unread + wtotal
      /\ Written = wtotal /\ Written' = 0
  BY DEF IInv, TypeOK, Granted, Consumed, Written, WriteCommit, rvars
<1>2. TypeOK'
  BY SizeAssumption DEF IInv, TypeOK, WriteCommit, rvars
<1>3. Granted'
  BY <1>1 DEF IInv, TypeOK, Granted, WriteCommit, rvars
<1>4. Standing'
  BY <1>1 DEF IInv, TypeOK, Standing, Slot, WriteCommit, rvars
<1>5. Stream'
  BY <1>1 DEF IInv, TypeOK, Stream, Slot, WriteCommit, rvars
<1>6. InOrder'
  BY DEF IInv, InOrder, WriteCommit, rvars
<1> QED
  BY <1>2, <1>3, <1>4, <1>5, <1>6 DEF IInv

\* sfifo_read starts with a look at writepos.
LEMMA ReadStep ==
    ASSUME IInv, NEW len \in 1 .. MaxLen, sfifo_read(len)
    PROVE  IInv'
<1>1. Used = sent - Consumed
  BY UsedIsUnread DEF UsedExact
<1>2. sent - Consumed \in 0 .. Size - 1 /\ Consumed \in Int
  BY SizeAssumption DEF IInv, TypeOK, Granted, Consumed
<1>3. /\ rtotal' \in 0 .. Size - 1
      /\ rtotal' <= sent - Consumed
      /\ rleft' = rtotal'
  BY <1>1, <1>2, SizeAssumption, MaxLenAssumption DEF sfifo_read, Clip
<1>4. Consumed' = Consumed
  <2>1. rtotal = 0 /\ rleft = 0 /\ got' = got
    BY DEF IInv, TypeOK, Granted, sfifo_read
  <2>2. rtotal - rleft = 0
    BY <2>1
  <2>3. PICK n \in Int : rtotal' = n /\ rleft' = n
    BY <1>3, SizeAssumption
  <2> QED
    BY <2>1, <2>2, <2>3 DEF Consumed
<1>5. TypeOK'
  BY <1>3 DEF IInv, TypeOK, sfifo_read, wvars
<1>6. Granted'
  BY <1>2, <1>3, <1>4 DEF IInv, Granted, sfifo_read, wvars
<1>7. Standing'
  <2>1. readpos' + (rtotal' - rleft') = readpos /\ rpos' = readpos
    BY <1>3, SizeAssumption DEF IInv, TypeOK, sfifo_read
  <2> QED
    BY <2>1, <1>4 DEF IInv, Standing, Written, Slot, sfifo_read, wvars
<1>8. Stream'
  BY <1>4 DEF IInv, Stream, Written, Slot, sfifo_read, wvars
<1>9. InOrder'
  BY DEF IInv, InOrder, sfifo_read
<1> QED
  BY <1>5, <1>6, <1>7, <1>8, <1>9 DEF IInv

\* The byte the reader takes is the next one of the stream.
LEMMA ReadByteStep ==
    ASSUME IInv, ReadByte
    PROVE  IInv'
<1> DEFINE took == rtotal - rleft
<1>1. /\ Consumed \in Int /\ took \in Int /\ 0 <= took
      /\ took < sent - Consumed
      /\ took < Size - 1
      /\ Len(got) = Consumed + took
      /\ Slot(rpos) \in 0 .. Size - 1
      /\ Slot(rpos) = Slot(readpos + took)
  BY SizeAssumption
     DEF IInv, TypeOK, Granted, Standing, Consumed, Slot, ReadByte
<1>2. buffer[Slot(rpos)] = Len(got)
  <2>1. Written \in Nat
    BY DEF IInv, TypeOK, Written
  <2>2. took \in 0 .. sent - Consumed + Written - 1
    BY <1>1, <2>1 DEF IInv, TypeOK
  <2> QED
    BY <2>2, <1>1 DEF IInv, Stream
<1>3. /\ got' \in Seq(Int)
      /\ Len(got') = Len(got) + 1
      /\ \A k \in 1 .. Len(got) : got'[k] = got[k]
      /\ got'[Len(got) + 1] = Len(got)
  BY <1>2 DEF IInv, TypeOK, ReadByte
<1>4. Consumed' = Consumed
  BY <1>3 DEF IInv, TypeOK, Consumed, ReadByte
<1>5. TypeOK'
  <2>1. rleft' \in 0 .. rtotal /\ rpos' \in 0 .. Size
    BY <1>1, SizeAssumption DEF IInv, TypeOK, ReadByte
  <2>2. got' \in Seq(Int)
    BY <1>3
  <2> QED
    BY <2>1, <2>2 DEF IInv, TypeOK, ReadByte, wvars
<1>6. Granted'
  BY <1>4, <1>1 DEF IInv, TypeOK, Granted, ReadByte, wvars
<1>7. Standing'
  BY <1>4, <1>1, SizeAssumption
     DEF IInv, TypeOK, Standing, Written, Slot, ReadByte, wvars
<1>8. Stream'
  BY <1>4 DEF IInv, Stream, Written, Slot, ReadByte, wvars
<1>9. InOrder'
  <2>1. \A k \in 1 .. Len(got) : got'[k] = k - 1
    BY <1>3 DEF IInv, InOrder
  <2>2. Len(got) \in Nat
    BY DEF IInv, TypeOK
  <2> QED
    BY <2>1, <2>2, <1>3 DEF InOrder
<1> QED
  BY <1>5, <1>6, <1>7, <1>8, <1>9 DEF IInv

\* Moving readpos on renumbers the slots that remain.
LEMMA ReadCommitStep ==
    ASSUME IInv, ReadCommit
    PROVE  IInv'
<1> DEFINE unread == sent - Consumed
<1>1. /\ Consumed \in Int /\ unread \in Int
      /\ Consumed' = Consumed + rtotal
      /\ rtotal \in 0 .. unread
      /\ unread + Written <= Size - 1 /\ Written \in Nat
      /\ Written' = Written
      /\ Slot(rpos) = Slot(readpos + rtotal)
  BY SizeAssumption
     DEF IInv, TypeOK, Granted, Standing, Consumed, Written, ReadCommit, wvars
<1>2. ASSUME NEW k \in 0 .. Size - 1, rtotal + k <= Size - 1
      PROVE  Slot(rpos + k) = Slot(readpos + (rtotal + k))
  BY <1>1, <1>2, SizeAssumption DEF IInv, TypeOK, Slot
<1>3. TypeOK'
  BY SizeAssumption DEF IInv, TypeOK, ReadCommit, wvars
<1>4. Granted'
  BY <1>1, SizeAssumption DEF IInv, TypeOK, Granted, ReadCommit, wvars
<1>5. Standing'
  <2>1. Slot(rpos + (unread - rtotal)) = Slot(readpos + unread)
    BY <1>1, <1>2, SizeAssumption
  <2>2. Slot(rpos + (unread - rtotal) + Written) = Slot(readpos + unread + Written)
    <3>1. unread - rtotal + Written \in 0 .. Size - 1
      BY <1>1, SizeAssumption
    <3>2. /\ rtotal + (unread - rtotal + Written) <= Size - 1
          /\ rpos \in Int /\ readpos \in Int
      BY <1>1 DEF IInv, TypeOK
    <3>3. Slot(rpos + (unread - rtotal + Written))
             = Slot(readpos + (rtotal + (unread - rtotal + Written)))
      BY <3>1, <3>2, <1>2
    <3> QED
      BY <3>2, <3>3, <1>1
  <2> QED
    BY <2>1, <2>2, <1>1 DEF IInv, TypeOK, Standing, Slot, ReadCommit, wvars
<1>6. Stream'
  <2>1. ASSUME NEW k \in 0 .. unread - rtotal + Written - 1
        PROVE  buffer[Slot(rpos + k)] = Consumed + rtotal + k
    <3>1. buffer[Slot(readpos + (rtotal + k))] = Consumed + (rtotal + k)
      BY <1>1 DEF IInv, Stream
    <3>2. Slot(rpos + k) = Slot(readpos + (rtotal + k))
      BY <1>1, <1>2, SizeAssumption
    <3> QED
      BY <3>1, <3>2, <1>1
  <2>2. sent' - Consumed' + Written' - 1 = unread - rtotal + Written - 1
    BY <1>1 DEF IInv, TypeOK, ReadCommit, wvars
  <2> QED
    BY <2>1, <2>2, <1>1 DEF IInv, TypeOK, Stream, Slot, ReadCommit, wvars
<1>7. InOrder'
  BY DEF IInv, InOrder, ReadCommit
<1> QED
  BY <1>3, <1>4, <1>5, <1>6, <1>7 DEF IInv

\* Every step of the writer and the reader.
LEMMA StepInvariant == IInv /\ [Next]_vars => IInv'
<1> SUFFICES ASSUME IInv, [Next]_vars
             PROVE  IInv'
  OBVIOUS
<1>1. CASE Write
  BY <1>1, WriteStep DEF Write, sfifo_write_spin
<1>2. CASE WriteByte
  BY <1>2, WriteByteStep
<1>3. CASE WriteCommit
  BY <1>3, WriteCommitStep
<1>4. CASE Read
  BY <1>4, ReadStep DEF Read, sfifo_read_spin
<1>5. CASE ReadByte
  BY <1>5, ReadByteStep
<1>6. CASE ReadCommit
  BY <1>6, ReadCommitStep
<1>7. CASE UNCHANGED vars
  BY <1>7
     DEF vars, wvars, rvars, IInv, TypeOK, Granted, Standing, Stream, InOrder,
         Slot, Written, Consumed
<1> QED
  BY <1>1, <1>2, <1>3, <1>4, <1>5, <1>6, <1>7 DEF Next

(***************************************************************************)
(* Wherever a sfifo_write and a sfifo_read stand in their copies, the      *)
(* positions are those of the two streams and every slot between them      *)
(* holds its byte.                                                         *)
(***************************************************************************)
THEOREM Invariant == Spec => []IInv
BY InitInvariant, StepInvariant, PTL DEF Spec

-----------------------------------------------------------------------------
(***************************************************************************)
(* Type correctness of the ring, positions and lengths included: sfifo.c   *)
(* never indexes outside its buffer.                                       *)
(***************************************************************************)
THEOREM TypeCorrect == Spec => []TypeOK
<1>1. IInv => TypeOK
  BY DEF IInv
<1> QED
  BY <1>1, Invariant, PTL

(***************************************************************************)
(* sfifo_write and sfifo_read hand the stream over complete, in order and  *)
(* without duplicates, for every ring size and every pattern of lengths.   *)
(***************************************************************************)
THEOREM FifoOrder == Spec => []InOrder
<1>1. IInv => InOrder
  BY DEF IInv
<1> QED
  BY <1>1, Invariant, PTL

(***************************************************************************)
(* sfifo_used counts the unread bytes exactly, wherever the two positions  *)
(* stand.                                                                  *)
(***************************************************************************)
THEOREM UsedCorrect == Spec => []UsedExact
BY UsedIsUnread, Invariant, PTL

(***************************************************************************)
(* sfifo_write never overwrites a byte that the reader has not released.   *)
(***************************************************************************)
THEOREM NeverOverruns == Spec => []NoOverrun
<1>1. IInv => NoOverrun
  <2> SUFFICES ASSUME IInv, wleft > 0, NEW k \in 0 .. Used - 1
               PROVE  Slot(readpos + k) # Slot(wpos)
    BY DEF NoOverrun
  <2>1. Used = sent - Consumed
    BY UsedIsUnread DEF UsedExact
  <2>2. Consumed \in Int /\ wpc = "copy"
    BY DEF IInv, TypeOK, Granted, Consumed
  <2>3. sent - Consumed + Written < Size - 1 /\ Written \in Nat
    BY <2>2, SizeAssumption DEF IInv, TypeOK, Granted, Written
  <2>4. Slot(wpos) = Slot(readpos + (sent - Consumed) + Written)
    BY <2>2 DEF IInv, Standing
  <2> QED
    BY <2>1, <2>2, <2>3, <2>4, SizeAssumption DEF IInv, TypeOK, Slot
<1> QED
  BY <1>1, Invariant, PTL

-----------------------------------------------------------------------------
(***************************************************************************)
(* sfifo.c implements a bounded queue, for every ring size: the bytes      *)
(* between the two positions, read off the ring slot by slot, change only  *)
(* as BoundedQueue says, and only when a call publishes its position.      *)
(***************************************************************************)
\* The part of the stream with n bytes from byte `from` on.
Part(from, n) == [k \in 1 .. n |-> from + k - 1]

\* The writer offers no more than the bound of the model.
Offered ==
    /\ sent <= MaxBytes
    /\ wpc = "copy" => sent + wtotal <= MaxBytes

RInv == IInv /\ Offered

\* The queue is the unread part of the stream, and the reader has the rest.
Mapped ==
    /\ Consumed \in Nat /\ sent - Consumed \in 0 .. Size - 1
    /\ Content = Part(Consumed, sent - Consumed)
    /\ Delivered = Part(0, Consumed)

-----------------------------------------------------------------------------
\* A part of the stream is a sequence of numbers.
LEMMA PartSeq ==
    ASSUME NEW from \in Nat, NEW n \in Nat
    PROVE  /\ Part(from, n) \in Seq(Nat)
           /\ Len(Part(from, n)) = n
           /\ \A k \in 1 .. n : Part(from, n)[k] = from + k - 1
BY DEF Part

\* Parts that follow each other are one part.
LEMMA JoinParts ==
    ASSUME NEW from \in Nat, NEW m \in Nat, NEW n \in Nat
    PROVE  Part(from, m) \o Part(from + m, n) = Part(from, m + n)
<1> DEFINE s == Part(from, m)
           t == Part(from + m, n)
           u == Part(from, m + n)
<1>1. /\ s \in Seq(Nat) /\ Len(s) = m /\ \A k \in 1 .. m : s[k] = from + k - 1
      /\ t \in Seq(Nat) /\ Len(t) = n /\ \A k \in 1 .. n : t[k] = from + m + k - 1
  <2>1. from + m \in Nat
    OBVIOUS
  <2> QED
    BY <2>1, PartSeq
<1>2. /\ u \in Seq(Nat) /\ Len(u) = m + n
      /\ \A k \in 1 .. m + n : u[k] = from + k - 1
  BY PartSeq
<1> HIDE DEF s, t, u
<1>3. /\ s \o t \in Seq(Nat) /\ Len(s \o t) = m + n
      /\ \A k \in 1 .. m + n : (s \o t)[k] = IF k <= m THEN s[k] ELSE t[k - m]
  BY <1>1, ConcatProperties
<1>4. ASSUME NEW k \in 1 .. Len(s \o t)
      PROVE  (s \o t)[k] = u[k]
  <2>1. k \in 1 .. m + n
    BY <1>3
  <2>2. CASE k <= m
    BY <1>1, <1>2, <1>3, <2>1, <2>2
  <2>3. CASE ~(k <= m)
    <3>1. k - m \in 1 .. n
      BY <2>1, <2>3
    <3>2. (s \o t)[k] = t[k - m]
      BY <1>3, <2>1, <2>3
    <3>3. t[k - m] = from + m + (k - m) - 1
      BY <1>1, <3>1
    <3>4. u[k] = from + k - 1
      BY <1>2, <2>1
    <3>5. from + m + (k - m) - 1 = from + k - 1
      BY <2>1
    <3> QED
      BY <3>3, <3>4, <3>5, <3>2
  <2> QED
    BY <2>2, <2>3
<1> QED
  BY <1>2, <1>3, <1>4, SeqEqual DEF s, t, u

\* Both ends of a part are parts.
LEMMA SplitPart ==
    ASSUME NEW from \in Nat, NEW m \in Nat, NEW n \in 0 .. m
    PROVE  /\ SubSeq(Part(from, m), 1, n) = Part(from, n)
           /\ SubSeq(Part(from, m), n + 1, m) = Part(from + n, m - n)
<1> DEFINE s == Part(from, m)
           t == Part(from, n)
           u == Part(from + n, m - n)
<1>1. s \in Seq(Nat) /\ Len(s) = m /\ \A k \in 1 .. m : s[k] = from + k - 1
  BY PartSeq
<1>2. t \in Seq(Nat) /\ Len(t) = n /\ \A k \in 1 .. n : t[k] = from + k - 1
  BY PartSeq
<1>3. /\ u \in Seq(Nat) /\ Len(u) = m - n
      /\ \A k \in 1 .. m - n : u[k] = from + n + k - 1
  <2>1. from + n \in Nat /\ m - n \in Nat
    OBVIOUS
  <2> QED
    BY <2>1, PartSeq
<1> HIDE DEF s, t, u
<1>4. \A k \in 1 .. m : s[k] \in Nat
  BY <1>1
<1>5. /\ SubSeq(s, 1, n) \in Seq(Nat) /\ Len(SubSeq(s, 1, n)) = n
      /\ \A k \in 1 .. n : SubSeq(s, 1, n)[k] = s[k]
  BY <1>1, <1>4, SubSeqProperties
<1>6. /\ SubSeq(s, n + 1, m) \in Seq(Nat) /\ Len(SubSeq(s, n + 1, m)) = m - n
      /\ \A k \in 1 .. m - n : SubSeq(s, n + 1, m)[k] = s[n + k]
  <2>1. n + 1 \in Int /\ m \in Int /\ \A i \in n + 1 .. m : s[i] \in Nat
    BY <1>4
  <2>2. /\ SubSeq(s, n + 1, m) \in Seq(Nat)
        /\ Len(SubSeq(s, n + 1, m)) = IF n + 1 <= m THEN m - (n + 1) + 1 ELSE 0
        /\ \A i \in 1 .. m - (n + 1) + 1 : SubSeq(s, n + 1, m)[i] = s[(n + 1) + i - 1]
    BY <2>1, SubSeqProperties
  <2>3. m - (n + 1) + 1 = m - n /\ \A i \in Int : (n + 1) + i - 1 = n + i
    OBVIOUS
  <2>4. n + 1 <= m \/ m - n = 0
    OBVIOUS
  <2> QED
    BY <2>2, <2>3, <2>4
<1>7. SubSeq(s, 1, n) = t
  <2> DEFINE v == SubSeq(s, 1, n)
  <2>1. v \in Seq(Nat) /\ Len(v) = Len(t) /\ \A k \in 1 .. Len(v) : v[k] = t[k]
    BY <1>1, <1>2, <1>5
  <2> HIDE DEF v
  <2>2. v = t
    BY <1>2, <2>1, SeqEqual
  <2> QED
    BY <2>2 DEF v
<1>8. SubSeq(s, n + 1, m) = u
  <2>1. \A k \in 1 .. m - n : s[n + k] = from + n + k - 1
    BY <1>1
  <2>2. \A k \in 1 .. m - n : SubSeq(s, n + 1, m)[k] = u[k]
    BY <1>3, <1>6, <2>1
  <2> QED
    BY <1>3, <1>6, <2>2, SeqEqual
<1> QED
  BY <1>7, <1>8 DEF s, t, u

-----------------------------------------------------------------------------
\* What the invariant says of the queue the ring stands for.
LEMMA Mapping == IInv => Mapped
<1> SUFFICES ASSUME IInv
             PROVE  Mapped
  OBVIOUS
<1>1. Consumed \in Nat /\ sent - Consumed \in 0 .. Size - 1
  BY SizeAssumption DEF IInv, TypeOK, Granted, Consumed
<1>2. Used = sent - Consumed
  BY UsedIsUnread DEF UsedExact
<1>3. Content = Part(Consumed, sent - Consumed)
  <2>1. ASSUME NEW k \in 1 .. sent - Consumed
        PROVE  buffer[Slot(readpos + k - 1)] = Consumed + k - 1
    <3>1. k - 1 \in 0 .. sent - Consumed + Written - 1
      BY <1>1 DEF IInv, TypeOK, Written
    <3>2. buffer[Slot(readpos + (k - 1))] = Consumed + (k - 1)
      BY <3>1 DEF IInv, Stream
    <3>3. readpos + (k - 1) = readpos + k - 1 /\ Consumed + (k - 1) = Consumed + k - 1
      BY <1>1 DEF IInv, TypeOK
    <3> QED
      BY <3>2, <3>3
  <2> QED
    BY <1>2, <2>1 DEF Content, Part
<1>4. Delivered = Part(0, Consumed)
  <2>1. /\ got \in Seq(Int) /\ Consumed <= Len(got) /\ Len(got) \in Nat
        /\ \A k \in 1 .. Len(got) : got[k] = k - 1
    BY DEF IInv, TypeOK, InOrder, Consumed
  <2>2. \A k \in 1 .. Consumed : got[k] = 0 + k - 1
    BY <1>1, <2>1
  <2>3. /\ Delivered \in Seq(Int) /\ Len(Delivered) = Consumed
        /\ \A k \in 1 .. Consumed : Delivered[k] = got[k]
    BY <1>1, <2>1, SubSeqProperties DEF Delivered
  <2>4. /\ Part(0, Consumed) \in Seq(Int) /\ Len(Part(0, Consumed)) = Consumed
        /\ \A k \in 1 .. Consumed : Part(0, Consumed)[k] = 0 + k - 1
    <3>1. Part(0, Consumed) \in Seq(Nat)
      BY <1>1, PartSeq
    <3>2. Part(0, Consumed) \in Seq(Int)
      BY <3>1, SeqMonotonic, Nat \subseteq Int
    <3> QED
      BY <1>1, <3>2, PartSeq
  <2> QED
    BY <2>2, <2>3, <2>4, SeqEqual
<1> QED
  BY <1>1, <1>3, <1>4 DEF Mapped

\* No call has been made yet.
LEMMA OfferedInit == Init => Offered
BY MaxBytesAssumption DEF Init, Offered

\* A write offers at most what is left of the stream.
LEMMA OfferedStep ==
    ASSUME IInv, Offered, [Next]_vars
    PROVE  Offered'
<1>1. CASE \E len \in 1 .. MaxLen : sfifo_write(len)
  <2>1. PICK len \in 1 .. MaxLen : sfifo_write(len)
    BY <1>1
  <2>2. wtotal' <= len
    BY <2>1, SizeAssumption, MaxLenAssumption
       DEF sfifo_write, Clip, Space, Used, IInv, TypeOK
  <2>3. wtotal' \in Int
    BY <2>1, SizeAssumption, MaxLenAssumption
       DEF sfifo_write, Clip, Space, Used, IInv, TypeOK
  <2> QED
    BY <2>1, <2>2, <2>3, MaxBytesAssumption, MaxLenAssumption
       DEF sfifo_write, Offered, IInv, TypeOK
<1>2. CASE WriteByte \/ ReadByte \/ ReadCommit \/ Read \/ UNCHANGED vars
  BY <1>2 DEF WriteByte, ReadByte, ReadCommit, Read, sfifo_read,
              sfifo_read_spin, Offered, vars, wvars, rvars
<1>3. CASE WriteCommit
  BY <1>3 DEF WriteCommit, Offered, IInv, TypeOK
<1> QED
  BY <1>1, <1>2, <1>3 DEF Next, Write, sfifo_write_spin

-----------------------------------------------------------------------------
\* The writer publishes: the new bytes go behind those that wait.
LEMMA PutStep ==
    ASSUME RInv, Mapped, Mapped', WriteCommit
    PROVE  [Queue!Next]_(Queue!vars)
<1> DEFINE unread == sent - Consumed
<1>1. /\ Consumed \in Nat /\ unread \in 0 .. Size - 1
      /\ Content = Part(Consumed, unread) /\ Delivered = Part(0, Consumed)
      /\ Consumed' \in Nat
      /\ Content' = Part(Consumed', sent' - Consumed') /\ Delivered' = Part(0, Consumed')
  BY DEF Mapped, Part
<1>2. /\ Consumed' = Consumed /\ sent' = sent + wtotal /\ sent \in Nat
      /\ wtotal \in 0 .. Size - 1 /\ unread + wtotal <= Size - 1
      /\ sent + wtotal <= MaxBytes
  BY SizeAssumption DEF RInv, IInv, TypeOK, Granted, Consumed, Offered, WriteCommit, rvars
<1>3. Delivered' = Delivered
  BY <1>1, <1>2
<1>4. Content' = Part(Consumed, unread + wtotal)
  BY <1>1, <1>2
<1>5. CASE wtotal = 0
  BY <1>1, <1>2, <1>3, <1>4, <1>5 DEF Queue!vars
<1>6. CASE wtotal > 0
  <2> DEFINE s == Part(Consumed + unread, wtotal)
  <2>1. Len(Content) = unread
    BY <1>1, PartSeq, SizeAssumption
  <2>2. wtotal \in 1 .. Size - 1 - Len(Content)
    BY <1>1, <1>2, <1>6, <2>1, SizeAssumption
  <2>3. s \in [1 .. wtotal -> 0 .. MaxBytes]
    BY <1>1, <1>2, SizeAssumption, MaxBytesAssumption DEF Part
  <2>4. Content' = Content \o s
    <3>1. unread \in Nat /\ wtotal \in Nat
      BY <1>1, <1>2, SizeAssumption
    <3>2. Part(Consumed, unread) \o s = Part(Consumed, unread + wtotal)
      BY <1>1, <3>1, JoinParts
    <3> QED
      BY <1>1, <1>4, <3>2
  <2> HIDE DEF s
  <2>5. \E n \in 1 .. Size - 1 - Len(Content) :
          \E t \in [1 .. n -> 0 .. MaxBytes] : Content' = Content \o t
    BY <2>2, <2>3, <2>4
  <2> QED
    BY <1>3, <2>5 DEF Queue!Next, Queue!Put
<1> QED
  BY <1>2, <1>5, <1>6, SizeAssumption

\* The reader publishes: a prefix goes, and it is what the reader got.
LEMMA GetStep ==
    ASSUME RInv, Mapped, Mapped', ReadCommit
    PROVE  [Queue!Next]_(Queue!vars)
<1> DEFINE unread == sent - Consumed
<1>1. /\ Consumed \in Nat /\ unread \in 0 .. Size - 1
      /\ Content = Part(Consumed, unread) /\ Delivered = Part(0, Consumed)
      /\ Consumed' \in Nat
      /\ Content' = Part(Consumed', sent' - Consumed') /\ Delivered' = Part(0, Consumed')
  BY DEF Mapped, Part
<1>2. /\ Consumed' = Consumed + rtotal /\ sent' = sent /\ sent \in Nat
      /\ rtotal \in 0 .. unread
  BY SizeAssumption DEF RInv, IInv, TypeOK, Granted, Consumed, ReadCommit, wvars
<1>3. /\ Content' = Part(Consumed + rtotal, unread - rtotal)
      /\ Delivered' = Part(0, Consumed + rtotal)
  <2>1. sent' - Consumed' = unread - rtotal
    BY <1>1, <1>2, SizeAssumption
  <2> QED
    BY <1>1, <1>2, <2>1
<1>4. CASE rtotal = 0
  <2>1. Consumed + rtotal = Consumed /\ unread - rtotal = unread
    BY <1>1, <1>4, SizeAssumption
  <2> QED
    BY <1>1, <1>3, <2>1 DEF Queue!vars
<1>5. CASE rtotal > 0
  <2>1. Len(Content) = unread
    BY <1>1, PartSeq, SizeAssumption
  <2>2. rtotal \in 1 .. Len(Content)
    BY <1>1, <1>2, <1>5, <2>1, SizeAssumption
  <2>3. /\ SubSeq(Content, 1, rtotal) = Part(Consumed, rtotal)
        /\ SubSeq(Content, rtotal + 1, Len(Content)) = Part(Consumed + rtotal, unread - rtotal)
    <3>1. unread \in Nat
      BY <1>1, SizeAssumption
    <3>2. /\ SubSeq(Part(Consumed, unread), 1, rtotal) = Part(Consumed, rtotal)
          /\ SubSeq(Part(Consumed, unread), rtotal + 1, unread)
               = Part(Consumed + rtotal, unread - rtotal)
      BY <1>1, <1>2, <3>1, SplitPart
    <3> QED
      BY <1>1, <2>1, <3>2
  <2>4. Delivered \o Part(Consumed, rtotal) = Part(0, Consumed + rtotal)
    <3>1. 0 + Consumed = Consumed /\ rtotal \in Nat
      BY <1>1, <1>2, SizeAssumption
    <3>2. Part(0, Consumed) \o Part(0 + Consumed, rtotal) = Part(0, Consumed + rtotal)
      BY <1>1, <3>1, JoinParts
    <3> QED
      BY <1>1, <3>1, <3>2
  <2>5. /\ Delivered' = Delivered \o SubSeq(Content, 1, rtotal)
        /\ Content' = SubSeq(Content, rtotal + 1, Len(Content))
    BY <1>3, <2>3, <2>4
  <2> QED
    BY <2>2, <2>5 DEF Queue!Next, Queue!Get
<1> QED
  BY <1>1, <1>2, <1>4, <1>5, SizeAssumption

\* Nothing else is visible: copying bytes leaves the queue as it is.
LEMMA SilentStep ==
    ASSUME RInv, Mapped, Mapped', [Next]_vars, ~WriteCommit, ~ReadCommit
    PROVE  UNCHANGED Queue!vars
<1>1. sent' = sent /\ Consumed' = Consumed
  <2>1. CASE Write \/ WriteByte
    BY <2>1 DEF Write, sfifo_write, sfifo_write_spin, WriteByte, rvars, Consumed
  <2>2. CASE Read
    <3>1. /\ rtotal = 0 /\ rleft = 0 /\ got' = got /\ sent' = sent
          /\ rleft' = rtotal' /\ rtotal' \in Int
      <4>1. PICK len \in 1 .. MaxLen : sfifo_read(len)
        BY <2>2 DEF Read, sfifo_read_spin
      <4>2. Used \in Int
        BY SizeAssumption DEF Used, RInv, IInv, TypeOK
      <4>3. rtotal' \in Int
        BY <4>1, <4>2, MaxLenAssumption DEF sfifo_read, Clip
      <4> QED
        BY <4>1, <4>3 DEF sfifo_read, RInv, IInv, TypeOK, Granted, wvars
    <3>2. PICK n \in Int : rtotal' = n /\ rleft' = n
      BY <3>1
    <3> QED
      BY <3>1, <3>2 DEF Consumed
  <2>3. CASE ReadByte
    <3>1. got' = Append(got, buffer[Slot(rpos)]) /\ buffer[Slot(rpos)] \in Int
      BY <2>3, SizeAssumption DEF ReadByte, RInv, IInv, TypeOK, Slot
    <3>2. Len(got') = Len(got) + 1
      BY <3>1 DEF RInv, IInv, TypeOK
    <3> QED
      BY <2>3, <3>2, SizeAssumption DEF ReadByte, RInv, IInv, TypeOK, Consumed, wvars
  <2>4. CASE UNCHANGED vars
    BY <2>4 DEF vars, wvars, rvars, Consumed
  <2> QED
    BY <2>1, <2>2, <2>3, <2>4 DEF Next
<1>2. /\ Content = Part(Consumed, sent - Consumed) /\ Delivered = Part(0, Consumed)
      /\ Content' = Part(Consumed', sent' - Consumed') /\ Delivered' = Part(0, Consumed')
  BY DEF Mapped, Part
<1> QED
  BY <1>1, <1>2 DEF Queue!vars

(***************************************************************************)
(* sfifo.c, with its calls interleaved byte by byte, implements a bounded  *)
(* queue of Size - 1 bytes.                                                *)
(***************************************************************************)
THEOREM Refinement == Spec => RefinesQueue
<1>1. Init => RInv
  BY InitInvariant, OfferedInit DEF RInv
<1>2. RInv /\ [Next]_vars => RInv'
  BY StepInvariant, OfferedStep DEF RInv
<1>3. Init => Queue!Init
  <2> SUFFICES ASSUME Init
               PROVE  Queue!Init
    OBVIOUS
  <2>1. Consumed = 0 /\ sent - Consumed = 0
    <3>1. Len(got) = 0 /\ rtotal = 0 /\ rleft = 0 /\ sent = 0
      BY DEF Init
    <3> QED
      BY <3>1 DEF Consumed
  <2>2. Content = Part(Consumed, sent - Consumed) /\ Delivered = Part(0, Consumed)
    BY InitInvariant, Mapping DEF Mapped
  <2>3. Part(0, 0) = << >>
    BY DEF Part
  <2> QED
    BY <2>1, <2>2, <2>3 DEF Queue!Init
<1>4. RInv /\ Mapped /\ Mapped' /\ [Next]_vars => [Queue!Next]_(Queue!vars)
  BY PutStep, GetStep, SilentStep
<1>5. RInv => Mapped
  BY Mapping DEF RInv
<1> QED
  BY <1>1, <1>2, <1>3, <1>4, <1>5, PTL DEF Spec, RefinesQueue, Queue!Spec
=============================================================================
