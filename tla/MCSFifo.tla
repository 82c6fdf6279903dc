------------------------------ MODULE MCSFifo ------------------------------
(* SFifo on the ring sfifo_init makes of a request for 2 bytes: 4 slots,  *)
(* 3 of them usable, transfers longer than the ring, and a stream that    *)
(* goes round it more than twice, past both ends of the buffer.           *)
EXTENDS SFifo

MCSize == SizeFor(2)
=============================================================================
