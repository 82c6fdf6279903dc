------------------------------ MODULE Modules ------------------------------
(* Modules and their garbage collector (e_module.c): loading and importing   *)
(* (ec_parser.c, builtin.eel), the table of shared modules (e_register.c),   *)
(* the modules that wait to be collected, and what es_close does with them   *)
(* (e_state.c).                                                              *)
(*                                                                           *)
(* A module nobody owns cannot be destroyed while one of its functions is    *)
(* still used: it waits in the list "deadmods", and the collector compares   *)
(* the references to its functions with their number after compilation.      *)
(* Each module exports one function and has one static variable.             *)
EXTENDS Integers, Sequences, FiniteSets, SequencesExt

CONSTANTS
    Scripts,        \* bound: objects for modules that are compiled
    Binaries,       \* C modules, registered when the state is opened
    Files,          \* script files, each declares a module of its own
    Imports,        \* what they import, in order
    Exporting,      \* those that export what they import ("export import")
    Using,          \* those whose functions call the functions they import
    Keeping,        \* those with a static variable the program can set
    Shared,         \* names that are loaded with SF_ALLOWSHARED and SF_SHARED
    Vars,           \* bound: variables of the program, table entries and so on
    MaxFailures,    \* bound: compile errors, and exceptions in __init_module()
    Risky,          \* "module": taking the module of a function while it waits
    Nil

Mods == Scripts \union Binaries
Names == Files \union Binaries

ASSUME ModulesAssumption ==
    /\ IsFiniteSet(Scripts) /\ IsFiniteSet(Binaries) /\ IsFiniteSet(Vars)
    /\ Scripts \cap Binaries = {} /\ Files \cap Binaries = {}
    /\ Imports \in [Files -> Seq(Names)]
    /\ Exporting \subseteq Files /\ Using \subseteq Files /\ Keeping \subseteq Files
    /\ Binaries \subseteq Shared /\ Shared \subseteq Names
    /\ MaxFailures \in Nat
    /\ Risky \subseteq {"module"}

VARIABLES
    heap,       \* the modules and everything that refers to them
    phase,      \* "open"; in es_close: "cleanup", "collect", "contexts"; "closed"
    failures    \* compilations and initialisations that failed

vars == <<heap, phase, failures>>

-----------------------------------------------------------------------------
(* References.  Their owners are what is counted: a module is not used if    *)
(* Owned() is false, and FunctionOwners() is the refcount of its function.   *)

Module(m) == [is |-> "module", of |-> m]
Function(m) == [is |-> "function", of |-> m]
Value == {Nil} \union {Module(m) : m \in Mods} \union {Function(m) : m \in Mods}

\* NULL is no module, no name and no value.
ASSUME NilAssumption ==
    /\ Nil \notin Mods \union Names \union Vars
    /\ \A m \in Mods : Module(m) # Nil /\ Function(m) # Nil

NoModule == [name |-> Nil, refsum |-> 0, static |-> Nil, uses |-> {}, exports |-> {}]

Live(h) == {m \in Mods : h.mods[m].name # Nil}
Top(h) == Last(h.frames)
Importing(h) == {i \in DOMAIN h.frames : h.frames[i].phase # "init"}

\* The modules whose functions another one owns: constants of its functions
\* (eel_coder_add_constant) and exports (forward_exports).
Needs(h, m) == h.mods[m].uses \union (h.mods[m].exports \ {m})

Owned(h, m) ==
    \/ \E v \in Vars : h.vars[v] = Module(m)
    \/ \E n \in Live(h) : h.mods[n].static = Module(m)
    \/ \E i \in DOMAIN h.frames : h.frames[i].mod = m   \* compile()'s m, the symbol table
    \/ \E i \in DOMAIN h.leaked : h.leaked[i].mod = m
    \/ m \in h.lost

FunctionOwners(h, m) ==
      (IF m \in h.mods[m].exports THEN 2 ELSE 0)   \* m->objects and m->exports
    + Cardinality({v \in Vars : h.vars[v] = Function(m)})
    + Cardinality({n \in Live(h) : h.mods[n].static = Function(m)})
    + Cardinality({n \in Live(h) : m \in h.mods[n].uses})
    + Cardinality({n \in Live(h) \ {m} : m \in h.mods[n].exports})
    + Cardinality({i \in DOMAIN h.frames : m \in h.frames[i].symbols})
    + Cardinality({i \in DOMAIN h.leaked : m \in h.leaked[i].symbols})

\* eel_module_countref(): the functions of a C module are not in m->objects.
CountRefs(h, m) == IF m \in Scripts THEN FunctionOwners(h, m) ELSE 0

-----------------------------------------------------------------------------
(* The collector.                                                            *)

\* A module is in the list once.
Without(s, m) ==
    IF m \in ToSet(s) THEN RemoveAt(s, CHOOSE i \in DOMAIN s : s[i] = m) ELSE s

Unlink(h, m) == [h EXCEPT !.dead = Without(@, m)]

\* eel_o_disown() of a value that the caller has removed from its owner.  The
\* first part of m_destruct(): the module is "possibly dead".
Dropped(h, v) == v # Nil /\ v.is = "module" /\ ~Owned(h, v.of)
Release(h, v) ==
    IF Dropped(h, v) THEN [Unlink(h, v.of) EXCEPT !.dead = <<v.of>> \o @] ELSE h

\* Mutations: the number of references is not compared; the weak references in
\* the table are not killed.
RefusesNever(h, m) == m \in Binaries /\ phase = "open"
DestroyKeeping(h, m) == Unlink(Release([h EXCEPT !.mods[m] = NoModule], h.mods[m].static), m)

\* m_real_destruct(): C modules refuse until the state is closed, scripts while
\* their functions are used, except when compilation did not end (refsum -1).
Refuses(h, m) ==
    \/ m \in Binaries /\ phase = "open"
    \/ h.mods[m].refsum # -1 /\ CountRefs(h, m) # h.mods[m].refsum

\* The rest of m_real_destruct(), and what eel_clean_modules() does when it
\* succeeds.  The collector is locked: what gets unused only joins the list.
Destroy(h, m) ==
    LET gone == [h EXCEPT !.mods[m] = NoModule,
                          !.table = [n \in Names |-> IF @[n] = m THEN Nil ELSE @[n]]]
    IN  Unlink(Release(gone, h.mods[m].static), m)

TryDestroy(h, m) == IF Refuses(h, m) THEN h ELSE Destroy(h, m)

\* eel_clean_modules(): walks the list as it was found.
Clean(h) ==
    LET after[i \in 0 .. Len(h.dead)] ==
          IF i = 0 THEN h ELSE TryDestroy(after[i - 1], h.dead[i])
    IN  IF h.lock > 0 THEN h ELSE after[Len(h.dead)]

\* m_destruct(): then the collector runs.
Disown(h, v) == IF Dropped(h, v) THEN Clean(Release(h, v)) ELSE h

\* eel_unlock_modules()
Unlock(h) == Clean([h EXCEPT !.lock = @ - 1])

\* eel_share_module()
Share(h, m) ==
    IF h.mods[m].name \in Shared THEN [h EXCEPT !.table[h.mods[m].name] = m] ELSE h

-----------------------------------------------------------------------------
(* Loading.  A frame is a run of compile() in builtin.eel: its module, its   *)
(* next import, the modules whose functions are in its symbol table, and the *)
(* variable the module is for, or Nil when it is imported.                   *)

Frame(m, dest) ==
    [mod |-> m, next |-> 1, symbols |-> {}, phase |-> "import", dest |-> dest]

\* Mutation: a module that waits is not taken off the list.
GetLoadedOnly(h, m) == h

\* eel_get_loaded_module(): takes a module that waits off the list.
Loaded(h, name) == name \in Shared /\ h.table[name] # Nil
GetLoaded(h, m) == IF Owned(h, m) THEN h ELSE Unlink(h, m)

\* import_handler() with the module it got: the symbol table takes over its
\* functions, and the module itself is disowned.
Import(h, m) ==
    LET i == Len(h.frames)
        to == Top(h).mod
        name == h.mods[to].name
        got == h.mods[m].exports
    IN  Disown([h EXCEPT !.frames[i].symbols = @ \union got,
                         !.frames[i].next = @ + 1,
                         !.mods[to].uses = IF name \in Using THEN @ \union got ELSE @,
                         !.mods[to].exports = IF name \in Exporting THEN @ \union got ELSE @],
               Module(m))

\* A function of that name is there already (eel_s_get_exports): the error
\* leaves import_handler() with its reference to the module.
Conflicts(h, m) == h.mods[m].exports \cap Top(h).symbols # {}
ImportConflict(h, m, some) ==
    [h EXCEPT !.frames[Len(h.frames)].symbols = @ \union some,
              !.frames[Len(h.frames)].phase = "fail",
              !.lost = @ \union {m}]

\* How a load ends: the variable gets the module, the import goes on, or the
\* compilation that imports fails too.
Delivered(h, m, dest) ==
    IF dest # Nil THEN {Disown([h EXCEPT !.vars[dest] = Module(m)], h.vars[dest])}
    ELSE IF Conflicts(h, m)
    THEN {ImportConflict(h, m, some) : some \in SUBSET (h.mods[m].exports \ Top(h).symbols)}
    ELSE {Import(h, m)}
Failed(h, dest) == IF dest # Nil THEN h ELSE [h EXCEPT !.frames[Len(h.frames)].phase = "fail"]

\* compile() and the first part of eel_compile() and compile2(): m_construct()
\* cleans before it allocates; the file may be in compilation already.
Compile(h, name, dest) ==
    LET c == Clean(h)
        free == {m \in Scripts : c.mods[m].name = Nil}
        made(m) == [c EXCEPT !.mods[m].name = name]
    IN  IF free = {} \/ name \in Binaries THEN {Failed(c, dest)}
        ELSE IF \E i \in Importing(h) : h.mods[h.frames[i].mod].name = name
        THEN {Failed(Disown(made(m), Module(m)), dest) : m \in free}
        ELSE {[made(m) EXCEPT !.mods[m].refsum = -1,
                              !.mods[m].exports = {m},
                              !.lock = @ + 1,
                              !.frames = Append(@, Frame(m, dest))] : m \in free}

-----------------------------------------------------------------------------

\* The C modules: eel_create_module(), shared, then disowned.
Init ==
    /\ heap = [mods |-> [m \in Mods |->
                           IF m \in Binaries THEN [NoModule EXCEPT !.name = m, !.exports = {m}]
                                             ELSE NoModule],
               dead |-> SetToSeq(Binaries),
               table |-> [n \in Names |-> IF n \in Binaries THEN n ELSE Nil],
               lock |-> 0,
               vars |-> [v \in Vars |-> Nil],
               frames |-> <<>>,     \* modules that are compiled or initialised
               leaked |-> <<>>,     \* symbol tables of compilations that failed
               lost |-> {}]         \* modules with a reference nobody has
    /\ phase = "open"
    /\ failures = 0

\* load() in builtin.eel, called by the program or by import_handler().
Load(name, dest) ==
    /\ heap' \in IF Loaded(heap, name)
                 THEN LET m == heap.table[name]
                      IN  Delivered(GetLoaded(heap, m), m, dest)
                 ELSE Compile(heap, name, dest)
    /\ UNCHANGED <<phase, failures>>

Compiling == heap.frames # <<>> /\ Top(heap).phase = "import"
ToImport == Imports[heap.mods[Top(heap).mod].name]

ImportNext ==
    /\ Compiling /\ Top(heap).next <= Len(ToImport)
    /\ Load(ToImport[Top(heap).next], Nil)

\* The end of compile2(): the contexts are left, which unlocks the collector,
\* then the symbol table is freed and the references are counted.
Finish ==
    /\ Compiling /\ Top(heap).next > Len(ToImport)
    /\ LET i == Len(heap.frames)
           m == Top(heap).mod
           h == Share([Unlock(heap) EXCEPT !.frames[i].symbols = {},
                                           !.frames[i].phase = "init"], m)
       IN  heap' = [h EXCEPT !.mods[m].refsum = CountRefs(h, m)]
    /\ UNCHANGED <<phase, failures>>

\* Mutation: unlocks although the contexts are popped, and unlocked, later.
CompileErrorUnlocks ==
    /\ Compiling /\ failures < MaxFailures
    /\ heap' = Failed(Unlock(heap), Nil)
    /\ failures' = failures + 1
    /\ UNCHANGED phase

\* An error in the source.
CompileError ==
    /\ Compiling /\ failures < MaxFailures
    /\ heap' = Failed(heap, Nil)
    /\ failures' = failures + 1
    /\ UNCHANGED phase

\* eel_cthrow() pops the contexts and leaves the symbol table in the root
\* symbol table, where it keeps the module and what it imported.
Abort ==
    /\ heap.frames # <<>> /\ Top(heap).phase = "fail"
    /\ LET h == Unlock(heap)
       IN  heap' = Failed([h EXCEPT !.frames = Front(@),
                                    !.leaked = Append(@, [mod |-> Top(heap).mod,
                                                          symbols |-> Top(heap).symbols])],
                          Top(heap).dest)
    /\ failures' = failures + 1
    /\ UNCHANGED phase

InInit == heap.frames # <<>> /\ Top(heap).phase = "init"
Popped == [heap EXCEPT !.frames = Front(@)]

InitReturns ==
    /\ InInit
    /\ heap' \in Delivered(Popped, Top(heap).mod, Top(heap).dest)
    /\ UNCHANGED <<phase, failures>>

\* An exception in __init_module(): a shared module stays in the table until
\* it is collected.
InitThrows ==
    /\ InInit /\ failures < MaxFailures
    /\ heap' = Failed(Disown(Popped, Module(Top(heap).mod)), Top(heap).dest)
    /\ failures' = failures + 1
    /\ UNCHANGED phase

-----------------------------------------------------------------------------
(* The program: it runs outside of compilations and in __init_module().      *)

Running == phase = "open" /\ (heap.frames = <<>> \/ InInit)

\* The values in sight, and what is reached from one of them: the functions a
\* module exports, what a function returns, and the module of a function
\* (f_getindex), which does not take it off the list.
Sight == {heap.vars[v] : v \in Vars} \union
         (IF InInit THEN {Function(Top(heap).mod)} ELSE {})
Reach(v) ==
    {v, heap.mods[v.of].static} \union
    (IF v.is = "module" THEN {Function(m) : m \in heap.mods[v.of].exports}
     ELSE IF Owned(heap, v.of) \/ "module" \in Risky THEN {Module(v.of)} ELSE {})
Reachable == UNION {Reach(v) : v \in Sight \ {Nil}}

ProgramLoads ==
    /\ Running
    /\ \E v \in Vars, name \in Names : heap.vars[v] = Nil /\ Load(name, v)

Assign ==
    /\ Running
    /\ \E v \in Vars, x \in Reachable \ {Nil} :
          heap.vars[v] = Nil /\ heap' = [heap EXCEPT !.vars[v] = x]
    /\ UNCHANGED <<phase, failures>>

Drop ==
    /\ Running \/ phase = "cleanup"
    /\ \E v \in Vars : /\ heap.vars[v] # Nil
                       /\ heap' = Disown([heap EXCEPT !.vars[v] = Nil], heap.vars[v])
    /\ UNCHANGED <<phase, failures>>

\* A function of the module stores its argument in the static variable.
SetStatic ==
    /\ Running
    /\ \E f \in (Sight \union Reachable) \ {Nil}, x \in Sight \union {Nil} :
          /\ f.is = "function"
          /\ heap.mods[f.of].name \in Keeping
          /\ heap' = Disown([heap EXCEPT !.mods[f.of].static = x], heap.mods[f.of].static)
    /\ UNCHANGED <<phase, failures>>

\* __clean_modules() in builtin_c
CleanModules ==
    /\ Running
    /\ heap' = Clean(heap)
    /\ UNCHANGED <<phase, failures>>

-----------------------------------------------------------------------------
(* es_close()                                                                *)

Close ==
    /\ phase = "open" /\ heap.frames = <<>>
    /\ phase' = "cleanup"
    /\ UNCHANGED <<heap, failures>>

\* Mutation: cleans once.
CloseCollectsOnce ==
    /\ phase = "cleanup"
    /\ \A v \in Vars : heap.vars[v] = Nil
    /\ heap' = Clean(heap)
    /\ phase' = "contexts"
    /\ UNCHANGED failures

\* After __cleanup() in builtin.eel: `while(eel_clean_modules(vm))'.
CloseCollects ==
    /\ phase \in {"cleanup", "collect"}
    /\ \A v \in Vars : heap.vars[v] = Nil
    /\ heap' = Clean(heap)
    /\ phase' = IF Live(heap') = Live(heap) THEN "contexts" ELSE "collect"
    /\ UNCHANGED failures

\* eel_s_free(es->root_symtab)
CloseContexts ==
    /\ phase = "contexts" /\ heap.leaked # <<>>
    /\ heap' = Disown([heap EXCEPT !.leaked = Tail(@)], Module(Head(heap.leaked).mod))
    /\ UNCHANGED <<phase, failures>>

\* The built-in library is disowned: the collector runs for the last time.
CloseLibrary ==
    /\ phase = "contexts" /\ heap.leaked = <<>>
    /\ heap' = Clean(heap)
    /\ phase' = "closed"
    /\ UNCHANGED failures

Next ==
    \/ ImportNext \/ Finish \/ CompileError \/ Abort \/ InitReturns \/ InitThrows
    \/ ProgramLoads \/ Assign \/ Drop \/ SetStatic \/ CleanModules
    \/ Close \/ CloseCollects \/ CloseContexts \/ CloseLibrary

Spec == Init /\ [][Next]_vars

-----------------------------------------------------------------------------
TypeOK ==
    /\ heap.mods \in [Mods -> [name : Names \union {Nil}, refsum : Int, static : Value,
                               uses : SUBSET Mods, exports : SUBSET Mods]]
    /\ heap.dead \in Seq(Mods)
    /\ heap.table \in [Names -> Mods \union {Nil}]
    /\ heap.lock \in Nat
    /\ heap.vars \in [Vars -> Value]
    /\ \A i \in DOMAIN heap.frames :
          /\ heap.frames[i].mod \in Scripts
          /\ heap.frames[i].symbols \subseteq Mods
          /\ heap.frames[i].phase \in {"import", "init", "fail"}
          /\ heap.frames[i].dest \in Vars \union {Nil}
    /\ heap.leaked \in Seq([mod : Scripts, symbols : SUBSET Mods])
    /\ heap.lost \subseteq Mods
    /\ phase \in {"open", "cleanup", "collect", "contexts", "closed"}
    /\ failures \in Nat

Held == {heap.vars[v] : v \in Vars} \union {heap.mods[m].static : m \in Live(heap)}

\* m_real_destruct(): while the state is open, no module is destroyed that is
\* owned, or whose function is owned, by a variable, another module or a
\* symbol table, whatever was loaded, imported, dropped and collected before.
HeldExist ==
    phase = "open" =>
        /\ \A v \in Held \ {Nil} : v.of \in Live(heap)
        /\ \A m \in Live(heap) : Needs(heap, m) \subseteq Live(heap)
        /\ \A i \in DOMAIN heap.frames :
              {heap.frames[i].mod} \union heap.frames[i].symbols \subseteq Live(heap)
        /\ \A i \in DOMAIN heap.leaked :
              {heap.leaked[i].mod} \union heap.leaked[i].symbols \subseteq Live(heap)

\* "There Can Be Only One!" (compile2): as long as a compiled shared module
\* exists, also one that only waits to be collected, loading its name finds it.
OneModulePerName ==
    /\ \A n \in Names : heap.table[n] # Nil =>
          heap.table[n] \in Live(heap) /\ heap.mods[heap.table[n]].name = n
    /\ \A m \in Live(heap) :
          /\ heap.mods[m].name \in Shared
          /\ heap.mods[m].refsum >= 0 /\ heap.mods[m].exports # {}      \* compiled
          => heap.table[heap.mods[m].name] = m

\* es->deadmods: exactly the modules that nobody owns wait for the collector,
\* each of them once, and it is locked exactly while something is compiled.
WaitingExact ==
    /\ {m \in Live(heap) : ~Owned(heap, m)} = ToSet(heap.dead)
    /\ Cardinality(ToSet(heap.dead)) = Len(heap.dead)
    /\ heap.lock = Cardinality(Importing(heap))

\* es_close(): if nothing failed, the modules that are left keep each other:
\* each is in a static variable of one of them, or used by one.
ClosedLeavesCycles ==
    phase = "closed" /\ failures = 0 =>
        \A m \in Live(heap) : \E n \in Live(heap) :
            \/ m \in Needs(heap, n)
            \/ heap.mods[n].static \in {Module(m), Function(m)}

=============================================================================
