----------------------------- MODULE MCModules -----------------------------
(* An instance of Modules: a library on a C module, a module that exports it *)
(* again, and a program script.                                              *)
EXTENDS Modules, TLC

MCImports ==
    [lib |-> <<"io">>, mid |-> <<"lib">>, script |-> <<"mid">>, clash |-> <<"mid", "lib">>]

Symmetric == Permutations(Scripts) \union Permutations(Vars)
=============================================================================
