---------------------------- MODULE MCContainers ----------------------------
(* An instance of Containers: the hash codes of two keys are equal, and one  *)
(* vector is of another class than the others.                               *)
EXTENDS Containers, TLC

CONSTANTS k1, k2, k3, v1, v2, v3, d1, d2, f1

MCHashOf == (k1 :> 1) @@ (k2 :> 2) @@ (k3 :> 1)
MCBits == (v1 :> 2) @@ (v2 :> 2) @@ (v3 :> 1)
MCTogether == {Arrays \union Tables, {v1, v2}, {v1, v3}, {v2, v3}, {d1, d2, f1}}
MCNumberBytes == <<0, 3>>

Symmetric ==
    Permutations(Arrays) \union Permutations(Tables) \union Permutations(Statics)
    \union Permutations(Dstrings)
=============================================================================
