------------------------------- MODULE SFifo -------------------------------
(***************************************************************************)
(* The lock-free ring buffer of src/src/eelium/sfifo.c: one writer thread  *)
(* and one reader thread share `buffer`, `readpos` and `writepos` without  *)
(* a lock.  Each call takes one look at the other side's position, copies  *)
(* byte by byte (memcpy), and publishes its own position with one atomic   *)
(* store at the very end, so the two sides interleave at every byte.       *)
(*                                                                         *)
(* The k-th byte of the stream has the value k, counted from 0: two bytes  *)
(* swapped, lost, duplicated or read before they were written show.        *)
(***************************************************************************)
EXTENDS Integers, Sequences

CONSTANTS Size,       \* f->size, as sfifo_init rounds it
          MaxLen,     \* longest single transfer asked for
          MaxBytes    \* bound of the model: length of the stream

ASSUME SizeAssumption == Size \in Nat \ {0}
ASSUME MaxLenAssumption == MaxLen \in Nat
ASSUME MaxBytesAssumption == MaxBytes \in Nat

(***************************************************************************)
(* sfifo_init: the smallest power of two that is larger than the request.  *)
(* The mask of sfifo_used is Size - 1, so the mask is the remainder.       *)
(***************************************************************************)
SizeFor(request) ==
    LET enough == {k \in 0 .. request : 2 ^ k > request}
    IN  2 ^ (CHOOSE k \in enough : \A j \in enough : k <= j)

VARIABLES
    buffer,           \* f->buffer; -1 is memory nobody wrote yet
    readpos,          \* f->readpos, in 0..Size: it may stand at the very end
    writepos,         \* f->writepos, likewise
    wpc, wpos, wleft, \* sfifo_write: idle or copying, `i`, bytes left to copy
    wtotal,           \* sfifo_write's `total`
    rpc, rpos, rleft, rtotal,
    sent,             \* history: bytes accepted by completed writes
    got               \* history: every byte copied out to the reader

wvars == <<writepos, wpc, wpos, wleft, wtotal, sent>>
rvars == <<readpos, rpc, rpos, rleft, rtotal, got>>
vars == <<buffer, wvars, rvars>>

\* Mutations: the mask of sfifo_used left out, and a ring that fills up.
UsedUnmasked == IF writepos >= readpos THEN writepos - readpos ELSE 0
SpaceToTheBrim == Size - ((writepos - readpos) % Size)

\* sfifo_used and sfifo_space.
Used == (writepos - readpos) % Size
Space == Size - 1 - Used

\* Mutation: the copy does not go round.
SlotUnwrapped(p) == p

\* The index a position stands for: the end of the buffer is its beginning.
Slot(p) == IF p >= Size THEN p - Size ELSE p

\* Bytes the completed reads have handed out.
Consumed == Len(got) - (rtotal - rleft)

Init ==
    /\ buffer = [i \in 0 .. Size - 1 |-> -1]
    /\ readpos = 0 /\ writepos = 0
    /\ wpc = "idle" /\ wpos = 0 /\ wleft = 0 /\ wtotal = 0
    /\ rpc = "idle" /\ rpos = 0 /\ rleft = 0 /\ rtotal = 0
    /\ sent = 0 /\ got = << >>

-----------------------------------------------------------------------------
(* The writer. *)

\* Mutation: the check of the length left out.
ClipNever(len, room) == len

\* The length a transfer is cut down to.
Clip(len, room) == IF len > room THEN room ELSE len

\* Mutation: the position is stored before the bytes are there.
WritePublishFirst(len) ==
    /\ wpc = "idle"
    /\ sent + len <= MaxBytes
    /\ wpc' = "copy"
    /\ wpos' = writepos
    /\ wtotal' = Clip(len, Space)
    /\ wleft' = wtotal'
    /\ writepos' = (writepos + wtotal') % Size
    /\ UNCHANGED <<buffer, sent, rvars>>

\* sfifo_write up to the copy: one look at readpos fixes the length.
sfifo_write(len) ==
    /\ wpc = "idle"
    /\ sent + len <= MaxBytes
    /\ wpc' = "copy"
    /\ wpos' = writepos
    /\ wtotal' = Clip(len, Space)
    /\ wleft' = wtotal'
    /\ UNCHANGED <<buffer, writepos, sent, rvars>>

\* sfifo_write_spin: busy-waits until all of it fits.
sfifo_write_spin(len) == Space >= len /\ sfifo_write(len)

\* One byte of the memcpy; the copy goes on at index 0 past the end.
WriteByte ==
    /\ wpc = "copy"
    /\ wleft > 0
    /\ buffer' = [buffer EXCEPT ![Slot(wpos)] = sent + wtotal - wleft]
    /\ wpos' = Slot(wpos) + 1
    /\ wleft' = wleft - 1
    /\ UNCHANGED <<writepos, wpc, wtotal, sent, rvars>>

\* f->writepos = i + len, the store that publishes the bytes.
WriteCommit ==
    /\ wpc = "copy"
    /\ wleft = 0
    /\ wpc' = "idle"
    /\ writepos' = wpos
    /\ sent' = sent + wtotal
    /\ UNCHANGED <<buffer, wpos, wleft, wtotal, rvars>>

-----------------------------------------------------------------------------
(* The reader. *)

\* Mutation: the space is handed back before the bytes are copied out.
ReadReleaseFirst(len) ==
    /\ rpc = "idle"
    /\ rpc' = "copy"
    /\ rpos' = readpos
    /\ rtotal' = Clip(len, Used)
    /\ rleft' = rtotal'
    /\ readpos' = (readpos + rtotal') % Size
    /\ UNCHANGED <<buffer, got, wvars>>

\* sfifo_read up to the copy.
sfifo_read(len) ==
    /\ rpc = "idle"
    /\ rpc' = "copy"
    /\ rpos' = readpos
    /\ rtotal' = Clip(len, Used)
    /\ rleft' = rtotal'
    /\ UNCHANGED <<buffer, readpos, got, wvars>>

sfifo_read_spin(len) == Used >= len /\ sfifo_read(len)

ReadByte ==
    /\ rpc = "copy"
    /\ rleft > 0
    /\ got' = Append(got, buffer[Slot(rpos)])
    /\ rpos' = Slot(rpos) + 1
    /\ rleft' = rleft - 1
    /\ UNCHANGED <<buffer, readpos, rpc, rtotal, wvars>>

\* f->readpos = i + len hands the space back to the writer.
ReadCommit ==
    /\ rpc = "copy"
    /\ rleft = 0
    /\ rpc' = "idle"
    /\ readpos' = rpos
    /\ rtotal' = 0
    /\ UNCHANGED <<buffer, rpos, rleft, got, wvars>>

-----------------------------------------------------------------------------
Write == \E len \in 1 .. MaxLen : sfifo_write(len) \/ sfifo_write_spin(len)
Read == \E len \in 1 .. MaxLen : sfifo_read(len) \/ sfifo_read_spin(len)

Next ==
    \/ Write
    \/ WriteByte
    \/ WriteCommit
    \/ Read
    \/ ReadByte
    \/ ReadCommit

Spec == Init /\ [][Next]_vars

\* A call that has started runs to its end, and the reader polls for ever.
\* Nothing makes the writer call again.
FairSpec ==
    /\ Spec
    /\ WF_vars(WriteByte) /\ WF_vars(WriteCommit)
    /\ WF_vars(ReadByte) /\ WF_vars(ReadCommit)
    /\ WF_vars(\E len \in 1 .. MaxLen : sfifo_read(len))

-----------------------------------------------------------------------------
(* Properties. *)

TypeOK ==
    /\ buffer \in [0 .. Size - 1 -> Int]
    /\ readpos \in 0 .. Size /\ writepos \in 0 .. Size
    /\ wpc \in {"idle", "copy"} /\ rpc \in {"idle", "copy"}
    /\ wpos \in 0 .. Size /\ rpos \in 0 .. Size
    /\ wtotal \in 0 .. Size - 1 /\ wleft \in 0 .. wtotal
    /\ rtotal \in 0 .. Size - 1 /\ rleft \in 0 .. rtotal
    /\ sent \in Nat
    /\ got \in Seq(Int)

(***************************************************************************)
(* sfifo_write and sfifo_read: whatever way the copies of the two threads  *)
(* interleave, the reader gets the bytes of the stream, each one once and  *)
(* in the order they were written.                                         *)
(***************************************************************************)
InOrder == \A k \in 1 .. Len(got) : got[k] = k - 1

(***************************************************************************)
(* sfifo_used: the two positions, each of which may stand at the end of    *)
(* the buffer as well as at its beginning, always tell exactly how many    *)
(* published bytes are unread, so that full and empty are never confused.  *)
(***************************************************************************)
UsedExact == Used = sent - Consumed

(***************************************************************************)
(* sfifo_write's memcpy never touches a slot that holds a byte a reader    *)
(* may still be copying out, although the reader moves on under it.        *)
(***************************************************************************)
NoOverrun ==
    wleft > 0 =>
        \A k \in 0 .. Used - 1 : Slot(readpos + k) # Slot(wpos)

(***************************************************************************)
(* The ring is a bounded queue: its content and what the reader copied in  *)
(* completed reads move only as BoundedQueue allows.                       *)
(***************************************************************************)
Content == [k \in 1 .. Used |-> buffer[Slot(readpos + k - 1)]]
Delivered == SubSeq(got, 1, Consumed)
Queue == INSTANCE BoundedQueue
           WITH Capacity <- Size - 1, Bytes <- 0 .. MaxBytes,
                queue <- Content, taken <- Delivered
RefinesQueue == Queue!Spec

(***************************************************************************)
(* Every byte sfifo_write accepted is read in the end as long as the       *)
(* reader keeps polling, also when the writer never calls again.           *)
(***************************************************************************)
Drained ==
    \A k \in 1 .. MaxBytes : (sent >= k) ~> (Consumed >= k)
=============================================================================
