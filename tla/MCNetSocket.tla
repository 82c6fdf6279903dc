---------------------------- MODULE MCNetSocket ----------------------------
(* A FIFO of 3 bytes, sent in fragments of 2: arguments that fill it, sends *)
(* that overflow it, and rounds of the sender thread that take 2 fragments. *)
EXTENDS NetSocket

MCArgSizes == {1, 2}
=============================================================================
