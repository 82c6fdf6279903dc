---------------------------- MODULE BoundedQueue ----------------------------
(***************************************************************************)
(* What a single-producer single-consumer byte FIFO promises: the bytes    *)
(* accepted by completed writes and not yet handed out by completed reads  *)
(* form a queue of at most Capacity bytes, a write appends to it and a     *)
(* read removes a prefix of it, which is what the reader gets.             *)
(***************************************************************************)
EXTENDS Integers, Sequences

CONSTANTS Capacity,   \* bytes the queue can hold
          Bytes       \* the values a byte of the stream can have

VARIABLES queue,      \* bytes written and not yet read, oldest first
          taken       \* every byte handed to the reader, in order

vars == <<queue, taken>>

Init == queue = << >> /\ taken = << >>

\* A write appends bytes and never makes the queue longer than Capacity.
Put ==
    \E n \in 1 .. Capacity - Len(queue) :
        \E s \in [1 .. n -> Bytes] : queue' = queue \o s
    /\ UNCHANGED taken

\* A read hands out a prefix, unchanged and in order.
Get ==
    \E n \in 1 .. Len(queue) :
        /\ taken' = taken \o SubSeq(queue, 1, n)
        /\ queue' = SubSeq(queue, n + 1, Len(queue))

Next == Put \/ Get

Spec == Init /\ [][Next]_vars
=============================================================================
