------------------------------ MODULE MCEelVM ------------------------------
(* The virtual machine with one or two objects and call frames enough for a *)
(* function, its try block, a C function and a callback inside each other.  *)
EXTENDS EelVM, TLC

ObjSymmetry == Permutations(Objs)
=============================================================================
