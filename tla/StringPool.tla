----------------------------- MODULE StringPool -----------------------------
(***************************************************************************)
(* The string pool of src/src/core/e_string.c.  Strings are shared: two    *)
(* with the same content are one object, found through a hash table.  A    *)
(* string whose last owner lets go is not destroyed but parked, with a     *)
(* refcount of 0, in a cache it can be resurrected from or spilled out of. *)
(* The cache is strung on the links that also string the limbo list, so    *)
(* every operation that takes a string from the one to the other has to    *)
(* leave both lists whole; the links are modelled pointer by pointer.      *)
(***************************************************************************)
EXTENDS Integers, FiniteSets

CONSTANTS Strings,      \* the string objects there is memory for
          Contents,     \* the texts programs make strings of
          Vars,         \* static variables, and owners in the C code
          CacheMax,     \* VMP->scache_max
          Outlive       \* whether weak references may outlive their string

Null == "NULL"
Limbo == "limbo"        \* the head of the limbo list of the current call frame
None == [kind |-> "nil", o |-> Null]

ASSUME StringsAssumption ==
    IsFiniteSet(Strings) /\ Strings \cap {Null, Limbo} = {}
ASSUME ConstantsAssumption ==
    IsFiniteSet(Vars) /\ CacheMax \in Nat /\ Outlive \in BOOLEAN

VARIABLES
    heap,   \* the string objects, their lists and the pool: see Heap
    SV,     \* what every variable holds
    R       \* a register: the string it points to, not owned, or Null

vars == <<heap, SV, R>>

(***************************************************************************)
(* live: objects that are allocated; text, refcount and weakrefs: their    *)
(* fields; lnext and lprev: their links, Limbo standing for the frame the  *)
(* list code treats as a node; pool: the strings linked into the buckets;  *)
(* scache, scache_last, scache_size: the cache; open: VMP->strings is set. *)
(***************************************************************************)
Heap ==
    [live : SUBSET Strings,
     text : [Strings -> Contents \cup {Null}],
     refcount : [Strings -> Nat],
     weakrefs : [Strings -> SUBSET Vars],
     lnext : [Strings \cup {Limbo} -> Strings \cup {Null}],
     lprev : [Strings \cup {Limbo} -> Strings \cup {Null, Limbo}],
     pool : SUBSET Strings,
     scache : Strings \cup {Null},
     scache_last : Strings \cup {Null},
     scache_size : Nat,
     open : BOOLEAN]

-----------------------------------------------------------------------------
(* The lists, as the templates EEL_DLSTACK and EEL_DLLIST expand. *)

SetNext(h, o, next) == [h EXCEPT !.lnext[o] = next]

\* Writes through a null pointer are guarded in the code.
SetPrev(h, o, prev) == IF o = Null THEN h ELSE [h EXCEPT !.lprev[o] = prev]

LimboPush(h, o) ==
    LET top == h.lnext[Limbo]
        linked == SetPrev(SetNext(h, o, top), top, o)
    IN  SetNext(SetPrev(linked, o, Limbo), Limbo, o)

\* Whatever list it is in: the node before it is the head for the first one.
LimboUnlink(h, o) ==
    LET p == h.lprev[o]
        n == h.lnext[o]
        skipped == IF p = Null THEN h ELSE SetNext(h, p, n)
    IN  SetPrev(SetNext(SetPrev(skipped, n, p), o, Null), o, Null)

InLimbo(h, o) == h.lprev[o] # Null

CachePush(h, o) ==
    LET first == h.scache
        linked == SetPrev(SetPrev(SetNext(h, o, first), o, Null), first, o)
    IN  [linked EXCEPT !.scache = o,
                       !.scache_last = IF first = Null THEN o ELSE @]

CacheUnlink(h, o) ==
    LET p == h.lprev[o]
        n == h.lnext[o]
        skipped == IF p = Null THEN [h EXCEPT !.scache = n] ELSE SetNext(h, p, n)
        closed == IF n = Null THEN [skipped EXCEPT !.scache_last = p]
                              ELSE SetNext(SetPrev(skipped, n, p), o, Null)
    IN  SetPrev(closed, o, Null)

-----------------------------------------------------------------------------
(* The life of a string object. *)

\* really_destruct, then eel_o_free: out of its bucket, while there are any.
Free(h, o) == [h EXCEPT !.pool = IF h.open THEN @ \ {o} ELSE @,
                        !.live = @ \ {o}]

\* Mutation: nothing is ever spilled.
SpillNever(h) == [h EXCEPT !.scache_size = @ + 1]

\* The end of ps_cache: the cache drops its oldest string, or it has grown.
Spill(h) ==
    IF h.scache_size > CacheMax
    THEN Free(CacheUnlink(h, h.scache_last), h.scache_last)
    ELSE [h EXCEPT !.scache_size = @ + 1]

\* eel_kill_weakrefs nils the variables; the caller passes the new SV on.
Nilled(sv, slots) == [v \in Vars |-> IF v \in slots THEN None ELSE sv[v]]

(***************************************************************************)
(* eel_o_disown_nz.  At 0, eel_o__dispose unlinks the string from limbo    *)
(* and eel_o__destruct asks the class: with the pool open ps_cache refuses *)
(* (EEL_XREFUSE) and the weak references stay; closed, it is destroyed.    *)
(***************************************************************************)
Disown(h, o) ==
    LET less == [h EXCEPT !.refcount[o] = @ - 1]
        loose == LimboUnlink(less, o)
    IN  IF less.refcount[o] # 0 THEN less
        ELSE IF h.open THEN Spill(CachePush(LimboUnlink(loose, o), o))
        ELSE Free(loose, o)

\* The weak references that die with the string: none while the pool is open.
DisownKills(h, o) ==
    IF h.refcount[o] = 1 /\ ~h.open THEN h.weakrefs[o] ELSE {}

Own(h, o) == [h EXCEPT !.refcount[o] = @ + 1]

\* Mutation: the string stays in the cache it is brought back from.
ResurrectInPlace(h, o) == Own(h, o)

\* ps_resurrect.
Resurrect(h, o) ==
    Own(IF h.refcount[o] # 0 THEN h
        ELSE [CacheUnlink(h, o) EXCEPT !.scache_size = @ - 1],
        o)

\* eel_o_alloc and the rest of eel_ps_nnew: a new string in its bucket.
Create(h, o, c) ==
    [h EXCEPT !.live = @ \cup {o}, !.text[o] = c, !.refcount[o] = 1,
              !.weakrefs[o] = {}, !.lnext[o] = Null, !.lprev[o] = Null,
              !.pool = @ \cup {o}]

\* Mutation: only strings somebody owns are found.
FindOwned(h, c) == {o \in h.pool : h.text[o] = c /\ h.refcount[o] > 0}

\* ps_find.
Find(h, c) == {o \in h.pool : h.text[o] = c}

\* eel_v_receive: the result comes owned; limbo owns it once.
Receive(h, o) ==
    IF InLimbo(h, o) THEN [h EXCEPT !.refcount[o] = @ - 1]
                     ELSE LimboPush(h, o)

\* Mutation: a string that is grabbed is not kept alive.
GrabUnowned(h, o) == IF InLimbo(h, o) THEN h ELSE LimboPush(h, o)

\* eel_v_grab.
Grab(h, o) == IF InLimbo(h, o) THEN h ELSE LimboPush(Own(h, o), o)

\* A variable that refers weakly to a string nobody owns.
Orphaned(v) == SV[v].kind = "weak" /\ heap.refcount[SV[v].o] = 0

\* Without Outlive, programs drop a weak reference before its string dies.
TargetsKept == Outlive \/ \A v \in Vars : ~Orphaned(v)

-----------------------------------------------------------------------------
Init ==
    /\ heap = [live |-> {}, text |-> [o \in Strings |-> Null],
               refcount |-> [o \in Strings |-> 0],
               weakrefs |-> [o \in Strings |-> {}],
               lnext |-> [o \in Strings \cup {Limbo} |-> Null],
               lprev |-> [o \in Strings \cup {Limbo} |-> Null],
               pool |-> {}, scache |-> Null, scache_last |-> Null,
               scache_size |-> 0, open |-> TRUE]
    /\ SV = [v \in Vars |-> None]
    /\ R = Null

(***************************************************************************)
(* eel_ps_nnew (or the _grab variant), called by an instruction that then  *)
(* receives the result: a cast, a concatenation, an index.                 *)
(***************************************************************************)
eel_ps_nnew(c) ==
    /\ heap.open
    /\ \/ \E o \in Find(heap, c) :
            /\ heap' = Receive(Resurrect(heap, o), o)
            /\ R' = o
       \/ /\ Find(heap, c) = {}
          /\ \E o \in Strings \ heap.live :
                /\ heap' = Receive(Create(heap, o, c), o)
                /\ R' = o
    /\ UNCHANGED SV

\* GETVAR: a weak reference is read as a strong one.
GETVAR(v) ==
    /\ heap.open
    /\ R' = SV[v].o
    /\ heap' = IF SV[v] = None THEN heap ELSE Grab(heap, SV[v].o)
    /\ UNCHANGED SV

\* eel_v_disown_nz of what a variable holds.
Released(h, v) ==
    CASE SV[v].kind = "nil" -> h
      [] SV[v].kind = "obj" -> Disown(h, SV[v].o)
      [] SV[v].kind = "weak" -> [h EXCEPT !.weakrefs[SV[v].o] = @ \ {v}]

\* SETVAR with what the register holds: nil or an object.
SETVAR(v) ==
    /\ heap.open
    /\ LET h == Released(heap, v)
       IN  IF R = Null
           THEN heap' = h /\ SV' = [SV EXCEPT ![v] = None]
           ELSE heap' = Own(h, R) /\ SV' = [SV EXCEPT ![v] = [kind |-> "obj", o |-> R]]
    /\ TargetsKept'
    /\ UNCHANGED R

\* WEAKREF, then SETVAR: eel_v_copy attaches the unwired reference.
SETVAR_WEAK(v) ==
    /\ heap.open
    /\ R # Null
    /\ heap' = [Released(heap, v) EXCEPT !.weakrefs[R] = @ \cup {v}]
    /\ SV' = [SV EXCEPT ![v] = [kind |-> "weak", o |-> R]]
    /\ TargetsKept'
    /\ UNCHANGED R

\* One turn of limbo_clean's loop: the first string of limbo loses its owner.
CleanOne(h) ==
    LET o == h.lnext[Limbo]
    IN  IF o = Null THEN h ELSE Disown(LimboUnlink(h, o), o)

\* Turns enough to empty any list: the turns after the last change nothing.
Cleaned(h) ==
    LET after[n \in 0 .. Cardinality(Strings)] ==
          IF n = 0 THEN h ELSE CleanOne(after[n - 1])
    IN  after[Cardinality(Strings)]

\* limbo_clean, at the end of a block: the registers die with it.
limbo_clean ==
    /\ heap.lnext[Limbo] # Null
    /\ heap' = Cleaned(heap)
    /\ R' = Null
    /\ UNCHANGED SV
    /\ TargetsKept'

\* One turn of ps_uncache's loop: the first string of the cache is freed.
UncacheOne(h) ==
    IF h.scache = Null THEN h
    ELSE Free([CacheUnlink(h, h.scache) EXCEPT !.scache_size = @ - 1], h.scache)

ps_uncache(h) ==
    LET after[n \in 0 .. Cardinality(Strings)] ==
          IF n = 0 THEN h ELSE UncacheOne(after[n - 1])
    IN  after[Cardinality(Strings)]

\* Mutation: the string cache is left as it is.
CloseCached == heap' = [heap EXCEPT !.pool = {}, !.open = FALSE]

\* ps_uncache frees the cache; eel_ps_close unlinks what is left.
ClosePool == heap' = [ps_uncache(heap) EXCEPT !.pool = {}, !.open = FALSE]

\* eel_vm_cleanup, when no program runs and the modules are gone.
eel_ps_close ==
    /\ heap.open
    /\ heap.lnext[Limbo] = Null
    /\ \A v \in Vars : SV[v].kind # "weak"
    /\ ClosePool
    /\ R' = Null
    /\ UNCHANGED SV

\* The classes let go of their names after the pool is closed.
eel__unstrap ==
    /\ ~heap.open
    /\ \E v \in Vars :
        /\ SV[v].kind = "obj"
        /\ heap' = Disown(heap, SV[v].o)
        /\ SV' = [Nilled(SV, DisownKills(heap, SV[v].o)) EXCEPT ![v] = None]
    /\ UNCHANGED R

Next ==
    \/ \E c \in Contents : eel_ps_nnew(c)
    \/ \E v \in Vars : GETVAR(v) \/ SETVAR(v) \/ SETVAR_WEAK(v)
    \/ limbo_clean
    \/ eel_ps_close
    \/ eel__unstrap

Spec == Init /\ [][Next]_vars

-----------------------------------------------------------------------------
(* Properties. *)

TypeOK ==
    /\ heap \in Heap
    /\ SV \in [Vars -> [kind : {"nil", "obj", "weak"}, o : Strings \cup {Null}]]
    /\ R \in Strings \cup {Null}

\* A list from `first` never leads out of S.
Keeps(S, first, next) ==
    first \in S \cup {Null} /\ \A p \in S : next[p] \in S \cup {Null}

\* The strings met on a list from `first`: the least set it keeps to.
OnList(first, next) ==
    {o \in Strings : \A S \in SUBSET Strings : Keeps(S, first, next) => o \in S}

InLimboList == OnList(heap.lnext[Limbo], heap.lnext)
Cached == OnList(heap.scache, heap.lnext)

(***************************************************************************)
(* ps_find and ps_resurrect: at most one string of the pool has a given    *)
(* content, dead strings included, so that comparing two strings by their  *)
(* address, as tables do, compares their content.                          *)
(***************************************************************************)
OneStringPerText ==
    \A o, p \in heap.pool : heap.text[o] = heap.text[p] => o = p

(***************************************************************************)
(* ps_cache, ps_resurrect and the limbo list share the links of a string:  *)
(* read forwards or backwards, the cache is always exactly the pooled      *)
(* strings nobody owns, limbo the ones a register may use, and scache_size *)
(* counts the cache, which stops growing at one more than scache_max.      *)
(***************************************************************************)
ListsWhole ==
    /\ Cached = {o \in heap.live : heap.refcount[o] = 0}
    /\ Cached = OnList(heap.scache_last, heap.lprev)
    /\ Cached \subseteq heap.pool
    /\ Cached \cap InLimboList = {}
    /\ \A o \in InLimboList :
        heap.lnext[heap.lprev[o]] = o /\ heap.refcount[o] > 0
    /\ heap.scache_size = Cardinality(Cached)
    /\ heap.scache_size <= CacheMax + 1

(***************************************************************************)
(* eel_o_own and eel_o_disown: the refcount of a string is the number of   *)
(* variables that own it, plus one for limbo, at every moment it lives.    *)
(* The spill of ps_cache and ps_uncache free strings without looking at    *)
(* who points to them: no variable owns, and the register does not point   *)
(* to, a string that has been freed, or one waiting in the cache.          *)
(***************************************************************************)
RefsCounted ==
    /\ \A o \in heap.live :
        heap.refcount[o] =
            Cardinality({v \in Vars : SV[v] = [kind |-> "obj", o |-> o]})
            + (IF o \in InLimboList THEN 1 ELSE 0)
    /\ \A v \in Vars : SV[v].kind = "obj" => SV[v].o \in heap.live
    /\ R # Null => R \in heap.live /\ heap.refcount[R] > 0

(***************************************************************************)
(* eel_ps_close: no string is leaked.  Once the pool is closed, only the   *)
(* strings that still have an owner are left.                              *)
(***************************************************************************)
ClosedLeavesOwned ==
    ~heap.open => \A o \in heap.live : \E v \in Vars : SV[v].o = o

(***************************************************************************)
(* src/src/core/e_object.h:45: a weak reference is turned into nil when    *)
(* its target is destroyed; it never points to freed memory.               *)
(***************************************************************************)
WeakrefsNilled == \A v \in Vars : SV[v].kind = "weak" => SV[v].o \in heap.live
=============================================================================
