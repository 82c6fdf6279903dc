---------------------------- MODULE MCStringPool ----------------------------
(* StringPool with texts that are interchangeable.  The objects are not:   *)
(* neither are the variables, once weak references to them are strung.     *)
EXTENDS StringPool, TLC

PoolSymmetry == Permutations(Contents) \cup Permutations(Strings) \cup Permutations(Vars)
=============================================================================
