-------------------------- MODULE Compiler_proofs --------------------------
(* The compiler and the program it generated keep their types, for every     *)
(* number of registers, contexts and statements, and for every program made  *)
(* of them; and what merging branches makes of events (ec_event.c).          *)
(*                                                                           *)
(* IInv is the inductive invariant.  While a function is compiled, the       *)
(* contexts are nested as the rules in progress have pushed them, each has   *)
(* its code, and every branch lands inside of the code or right behind it.   *)
(* When the function is finished, so is every code.                          *)
EXTENDS Compiler, SequenceTheorems, FiniteSetTheorems, WellFoundedInduction, TLAPS

ContextTypes == {"FUNCTION", "BODY", "BLOCK"}
Marks == [pos : Nat, state : States]
Flags == {"CONDITIONAL", "KEEP", "BREAKABLE", "CONTINUABLE", "REPEATABLE", "CATCHER"}
Ops == {"init", "assign", "use", "clean", "jump", "branch", "switch", "return", "throw", "retry",
        "end", "try"}
Rules == {"block", "single", "over", "inner", "if", "else", "switch", "case", "default", "while",
          "do", "for", "try", "except"}
Contexts ==
    [type : ContextTypes, flags : SUBSET Flags, coder : Nat, start : Nat, vars : SUBSET Regs,
     ends : SUBSET Marks, conts : SUBSET Marks, lists : Seq(EventLists)]
Operands == [try : Nat, except : Nat] \union Nat
Instructions ==
    [op : Ops, arg : Operands, to : SUBSET Nat, live : BOOLEAN, scope : SUBSET Regs]
Generators ==
    [ctxs : Seq(Contexts), codes : Seq(Seq(Instructions)), used : Nat, ok : BOOLEAN]
Frames == [rule : Rules, jump : Nat, start : Nat, state : States, closes : BOOLEAN]
Calls == [coder : Nat, pc : Nat, table : Seq(Regs), handler : Nat]

\* An instruction of a code of n instructions, one of m codes.
Lands(ins, n, m) ==
    /\ ins.to \subseteq 1..n
    /\ ins.op = "init" => ins.arg \in Regs
    /\ ins.op = "clean" => ins.arg \in Nat
    /\ ins.op = "try" => ins.arg \in [try : 1..m, except : 1..m]

\* Code that is still written, and code that is finished.
Opened(code, m) == \A p \in 1..Len(code) : Lands(code[p], Len(code) + 1, m)
Finished(code, m) ==
    /\ code # << >> /\ code[Len(code)].op = "end"
    /\ \A p \in 1..Len(code) : Lands(code[p], Len(code), m)

Coded(g) ==
    \A k \in 1..Len(g.codes) :
        /\ Opened(g.codes[k], Len(g.codes))
        /\ Finished(g.codes[k], Len(g.codes)) \/ \E i \in 1..Len(g.ctxs) : g.ctxs[i].coder = k

\* Contexts are inside each other; those of a function share its code.
Scoped(g) ==
    /\ Len(g.ctxs) >= 1 /\ g.ctxs[1].coder = 1
    /\ \A i \in 1..Len(g.ctxs) :
          /\ g.ctxs[i].lists # << >>
          /\ g.ctxs[i].coder \in 1..Len(g.codes)
          /\ g.ctxs[i].start \in 1..Len(g.codes[g.ctxs[i].coder]) + 1
    /\ \A i, j \in 1..Len(g.ctxs) : i < j =>
          /\ g.ctxs[i].coder <= g.ctxs[j].coder
          /\ g.ctxs[j].type = "FUNCTION" => g.ctxs[i].coder < g.ctxs[j].coder
          /\ \/ g.ctxs[i].coder = g.ctxs[j].coder
             \/ \E k \in i + 1..j : g.ctxs[k].type = "FUNCTION"

Good(g) == g \in Generators /\ g.used <= Cardinality(Regs) /\ Scoped(g) /\ Coded(g)

\* The contexts a rule of the parser has pushed and not popped yet.
Owned(f) ==
    CASE f.rule \in {"block", "single", "over"} -> IF f.closes THEN 1 ELSE 0
      [] f.rule \in {"for", "default"} -> 2
      [] f.rule \in {"inner", "else"} -> 0
      [] OTHER -> 1

\* A rule in progress that has the contexts from a + 1 to b.
FrameFits(f, a, b, g) ==
    /\ b = a + Owned(f)
    /\ \A i \in a + 1..b : g.ctxs[i].type = "FUNCTION" <=> f.rule \in {"try", "except"}
    /\ f.rule \in {"while", "do", "for"} => f.start \in 1..Len(g.codes[g.ctxs[b].coder]) + 1
    /\ f.rule = "except" => f.jump \in 1..Len(g.codes)

\* The depths before and after each of the rules that are in progress.
IsDepth(d, fs, n, g) ==
    /\ d \in [0..Len(fs) -> Nat] /\ d[0] = 1 /\ d[Len(fs)] = n
    /\ \A k, l \in 0..Len(fs) : k <= l => d[k] <= d[l]
    /\ \A k \in 1..Len(fs) : FrameFits(fs[k], d[k - 1], d[k], g)

Nests(fs, n, g) == fs \in Seq(Frames) /\ \E d : IsDepth(d, fs, n, g)

RunsWell(s, codes) ==
    /\ \A k \in 1..Len(codes) : Finished(codes[k], Len(codes))
    /\ s \in Seq(Calls)
    /\ \A i \in 1..Len(s) :
          /\ s[i].coder \in 1..Len(codes)
          /\ s[i].pc \in 1..Len(codes[s[i].coder])
          /\ s[i].handler \in 0..Len(codes)
          /\ i < Len(s) => codes[s[i].coder][s[i].pc].op = "try"

IInv ==
    /\ phase \in {"compile", "rejected", "run", "done"}
    /\ results \in BOOLEAN /\ left \in Nat /\ gen \in Generators /\ gen.used <= Cardinality(Regs)
    /\ phase = "compile" => Good(gen) /\ Nests(frames, Len(gen.ctxs), gen) /\ stack = << >>
    /\ phase \in {"run", "done"} => RunsWell(stack, gen.codes)
    /\ phase = "rejected" => stack = << >>
    /\ phase = "run" => stack # << >>

-----------------------------------------------------------------------------
(* Merging branches (ec_event.c), for any number of registers and branches:  *)
(* nothing that was certain is forgotten, and nothing becomes certain that is *)
(* not so in every branch.                                                   *)

\* What is asked of a context here: its own list of events, and others that
\* wait to be merged.
IsContext(c) ==
    /\ c = [f \in DOMAIN c |-> c[f]] /\ "lists" \in DOMAIN c
    /\ c.lists \in Seq(EventLists)
    /\ c.lists # << >>

\* An event that was "before" in a context's own list becomes "after" when
\* branches are merged that have it in the states of S: it is certain if it
\* was, or if it is in all branches and one of them is certainly executed.
Exact(before, S, modulator, after) ==
    /\ after \in States
    /\ after >= before
    /\ after = YES <=> before = YES \/ (S = {YES} /\ modulator = YES)
    /\ after = NO <=> before = NO /\ (S = {NO} \/ modulator = NO)

LEMMA GreatestExact ==
    ASSUME NEW S, S \in SUBSET States, S # {}, NEW modulator \in States, NEW before \in States
    PROVE  Exact(before, S, modulator, Greatest(before, Together(S, modulator)))
<1>1. /\ Together(S, modulator) \in States
      /\ Together(S, modulator) = YES <=> S = {YES} /\ modulator = YES
      /\ Together(S, modulator) = NO <=> S = {NO} \/ modulator = NO
  BY SMT DEF Together, Least, States, NO, MAYBE, YES
<1> DEFINE t == Together(S, modulator)
<1> HIDE DEF t
<1>2. /\ t \in States
      /\ t = YES <=> S = {YES} /\ modulator = YES
      /\ t = NO <=> S = {NO} \/ modulator = NO
  BY <1>1 DEF t
<1>3. /\ Greatest(before, t) \in States
      /\ Greatest(before, t) >= before
      /\ Greatest(before, t) = YES <=> before = YES \/ t = YES
      /\ Greatest(before, t) = NO <=> before = NO /\ t = NO
  BY <1>2, SMT DEF Greatest, States, NO, MAYBE, YES
<1>4. Exact(before, S, modulator, Greatest(before, t))
  BY <1>2, <1>3 DEF Exact
<1> QED
  BY <1>4 DEF t

LEMMA ListTypes ==
    ASSUME NEW e \in EventLists
    PROVE  /\ e.ret \in States /\ e.result \in States /\ e.target \in States
           /\ e.init \in [Regs -> States] /\ \A r \in Regs : e.init[r] \in States
  BY DEF EventLists

LEMMA OwnAndWaiting ==
    ASSUME NEW c, IsContext(c)
    PROVE  Own(c) \in EventLists /\ \A i \in Waiting(c) : c.lists[i] \in EventLists
  BY SMT DEF IsContext, Own, Waiting

-----------------------------------------------------------------------------
\* A condition's branches are merged (eel_e_merge): the code has returned, set a
\* result or initialised a register for certain exactly if it had before or
\* every branch does, and has certainly not if none of them may.
THEOREM MergedExact ==
    ASSUME NEW c, IsContext(c), Waiting(c) # {}, NEW modulator \in States
    PROVE  LET own == Own(Merged(c, modulator)) IN
           /\ Waiting(Merged(c, modulator)) = {}
           /\ Exact(Own(c).ret, {c.lists[i].ret : i \in Waiting(c)}, modulator, own.ret)
           /\ Exact(Own(c).result, {c.lists[i].result : i \in Waiting(c)}, modulator,
                    own.result)
           /\ \A r \in Regs :
                Exact(Own(c).init[r], {c.lists[i].init[r] : i \in Waiting(c)}, modulator,
                      own.init[r])
<1> DEFINE own == Own(Merged(c, modulator))
           returns == {c.lists[i].ret : i \in Waiting(c)}
           outcomes == {c.lists[i].result : i \in Waiting(c)}
           inits(r) == {c.lists[i].init[r] : i \in Waiting(c)}
<1>1. /\ own.ret = Greatest(Own(c).ret, Together(returns, modulator))
      /\ own.result = Greatest(Own(c).result, Together(outcomes, modulator))
      /\ Waiting(Merged(c, modulator)) = {}
  <2>1. Own(c) \in EventLists
    BY OwnAndWaiting
  <2>2. own.ret = Greatest(Own(c).ret, Together(returns, modulator))
    BY <2>1 DEF Merged, Own, EventLists, IsContext
  <2>3. own.result = Greatest(Own(c).result, Together(outcomes, modulator))
    BY <2>1 DEF Merged, Own, EventLists, IsContext
  <2>4. Len(Merged(c, modulator).lists) = 1
    BY DEF Merged, IsContext
  <2> QED
    BY <2>2, <2>3, <2>4, SMT DEF Waiting
<1>2. ASSUME NEW r \in Regs
      PROVE  own.init[r] = Greatest(Own(c).init[r], Together(inits(r), modulator))
  BY DEF Merged, Own, EventLists, IsContext
<1>3. /\ returns \in SUBSET States /\ returns # {}
      /\ outcomes \in SUBSET States /\ outcomes # {}
      /\ \A r \in Regs : inits(r) \in SUBSET States /\ inits(r) # {}
  BY OwnAndWaiting, ListTypes
<1>4. /\ Own(c).ret \in States /\ Own(c).result \in States
      /\ \A r \in Regs : Own(c).init[r] \in States
  BY OwnAndWaiting, ListTypes
<1> HIDE DEF own, returns, outcomes, inits
<1>5. Exact(Own(c).ret, returns, modulator, own.ret)
  BY <1>1, <1>3, <1>4, GreatestExact
<1>6. Exact(Own(c).result, outcomes, modulator, own.result)
  BY <1>1, <1>3, <1>4, GreatestExact
<1>7. ASSUME NEW r \in Regs
      PROVE  Exact(Own(c).init[r], inits(r), modulator, own.init[r])
  BY <1>2, <1>3, <1>4, GreatestExact
<1> QED
  BY <1>1, <1>5, <1>6, <1>7 DEF own, returns, outcomes, inits

\* A context is closed (ec_context.c, ec_event.c): what it leaves to its parent
\* is an event list, the parent forgets nothing, what was certain in a context
\* that is always executed is certain behind it, and initialisations of
\* variables of the context's own scope never leave it.
THEOREM ClosedKeeps ==
    ASSUME NEW c, IsContext(c), NEW parent, IsContext(parent)
    PROVE  /\ MovedUp(c) \in EventLists
           /\ MovedUpXblock(c) \in EventLists
           /\ MergedUp(c, parent) \in EventLists
           /\ LET up == MergedUp(c, parent) IN
              /\ up.ret >= Own(parent).ret /\ up.ret >= Own(c).ret
              /\ up.result >= Own(parent).result /\ up.result >= Own(c).result
              /\ \A r \in Regs : up.init[r] >= Own(parent).init[r]
           /\ ~KeepsVariables(c) => /\ MovedUp(c).init = Uninitialized
                                    /\ MergedUp(c, parent).init = Own(parent).init
<1>1. /\ Own(c) \in EventLists
      /\ Own(parent) \in EventLists
  BY OwnAndWaiting
<1>2. Uninitialized \in [Regs -> States] /\ \A r \in Regs : Uninitialized[r] = NO
  BY SMT DEF Uninitialized, States, NO, YES
<1>3. Escaping(c) \in [Regs -> States]
  BY <1>1, <1>2, ListTypes DEF Escaping
<1>4. \A n \in Nat : OneLess(n) \in Nat
  BY SMT DEF OneLess, Greatest
<1>5. \A m, n \in States : Greatest(m, n) \in States /\ Greatest(m, n) >= m
                           /\ Greatest(m, n) >= n /\ (n = NO => Greatest(m, n) = m)
  BY SMT DEF Greatest, States, NO, YES
<1>6. MovedUp(c) \in EventLists /\ MovedUpXblock(c) \in EventLists
  <2>1. NO \in States
    BY SMT DEF NO, YES, States
  <2> QED
    BY <1>1, <1>2, <1>3, <1>4, <2>1 DEF MovedUp, MovedUpXblock, EventLists
<1> DEFINE up == MergedUp(c, parent)
<1>7. /\ up.init = [r \in Regs |-> Greatest(Own(parent).init[r], Escaping(c)[r])]
      /\ up.ret = Greatest(Own(parent).ret, Own(c).ret)
      /\ up.result = Greatest(Own(parent).result, Own(c).result)
      /\ up = [Own(parent) EXCEPT !.init = up.init, !.ret = up.ret, !.result = up.result]
  BY <1>1 DEF MergedUp, EventLists
<1> HIDE DEF up
<1>8. /\ up.ret \in States /\ up.ret >= Own(parent).ret /\ up.ret >= Own(c).ret
      /\ up.result \in States /\ up.result >= Own(parent).result /\ up.result >= Own(c).result
  BY <1>1, <1>5, <1>7, ListTypes
<1>9. up.init \in [Regs -> States] /\ \A r \in Regs : up.init[r] >= Own(parent).init[r]
  BY <1>1, <1>3, <1>5, <1>7, ListTypes
<1>10. up \in EventLists
  BY <1>1, <1>7, <1>8, <1>9 DEF EventLists
<1>11. ASSUME ~KeepsVariables(c)
       PROVE  MovedUp(c).init = Uninitialized /\ up.init = Own(parent).init
  <2>1. Escaping(c) = Uninitialized
    BY <1>11 DEF Escaping
  <2>2. MovedUp(c).init = Uninitialized
    BY <1>1, <2>1 DEF MovedUp, EventLists
  <2>3. \A r \in Regs : up.init[r] = Own(parent).init[r]
    BY <1>1, <1>2, <1>5, <1>7, <2>1, ListTypes
  <2>4. up.init = Own(parent).init
    BY <1>1, <1>9, <2>3, ListTypes
  <2> QED
    BY <2>2, <2>4
<1> QED
  BY <1>6, <1>8, <1>9, <1>10, <1>11 DEF up

-----------------------------------------------------------------------------
\* The least-number principle, over a set: what the inductions here rest on.
LEMMA LeastNat ==
    ASSUME NEW T, T \subseteq Nat, T # {}
    PROVE  \E k \in T : \A j \in T : k <= j
<1>1. PICK k \in T : \A j \in T : ~(<<j, k>> \in OpToRel(<, Nat))
  BY NatLessThanWellFounded, WFMin
<1>2. \A j \in T : ~(j < k)
  BY <1>1 DEF OpToRel
<1> QED
  BY <1>2

\* One of finitely many numbers is the greatest.
LEMMA SomeGreatest ==
    ASSUME NEW n \in Nat \ {0}, NEW f, \A i \in 1..n : f[i] \in Int
    PROVE  \E m \in 1..n : \A i \in 1..n : f[i] <= f[m]
<1> DEFINE none == {k \in 1..n : ~\E m \in 1..k : \A i \in 1..k : f[i] <= f[m]}
<1>1. SUFFICES ASSUME n \in none PROVE FALSE
  OBVIOUS
<1>2. PICK k \in none : \A j \in none : k <= j
  <2>1. none \subseteq Nat
    OBVIOUS
  <2> QED
    BY <1>1, <2>1, LeastNat
<1>3. k # 1
  <2> SUFFICES ASSUME k = 1 PROVE FALSE
    OBVIOUS
  <2>1. \A i \in 1..1 : f[i] <= f[1]
    OBVIOUS
  <2> QED
    BY <2>1, <1>2
<1>4. k - 1 \in 1..n /\ k - 1 \notin none
  <2>1. k \in 1..n
    BY <1>2
  <2> HIDE DEF none
  <2> QED
    BY <2>1, <1>2, <1>3
<1>5. PICK m \in 1..k - 1 : \A i \in 1..k - 1 : f[i] <= f[m]
  BY <1>4
<1> DEFINE best == IF f[k] <= f[m] THEN m ELSE k
<1>6. best \in 1..k /\ f[m] <= f[best] /\ f[k] <= f[best]
  BY <1>5, <1>2
<1>7. \A i \in 1..k : f[i] <= f[best]
  <2> SUFFICES ASSUME NEW i \in 1..k PROVE f[i] <= f[best]
    OBVIOUS
  <2>1. CASE i = k
    BY <2>1, <1>6
  <2>2. CASE i # k
    <3>1. i \in 1..k - 1 /\ f[i] \in Int /\ f[m] \in Int /\ f[best] \in Int
      BY <2>2, <1>2, <1>6
    <3> HIDE DEF best
    <3> QED
      BY <3>1, <1>5, <1>6
  <2> QED
    BY <2>1, <2>2
<1> QED
  BY <1>2, <1>6, <1>7

-----------------------------------------------------------------------------
(* Contexts and the numbers that Merged takes the greatest or the least of.  *)

LEMMA StatesAre == NO \in States /\ MAYBE \in States /\ YES \in States /\ NO = 0 /\ MAYBE = 1 /\ YES = 2
                   /\ \A s : s \in States <=> s \in {NO, MAYBE, YES}
BY SMT DEF NO, MAYBE, YES, States

LEMMA ContextFields ==
    ASSUME NEW c \in Contexts
    PROVE  /\ c.type \in ContextTypes /\ c.flags \subseteq Flags /\ c.coder \in Nat /\ c.start \in Nat
           /\ c.vars \subseteq Regs /\ c.ends \subseteq Marks /\ c.conts \subseteq Marks
           /\ c.lists \in Seq(EventLists)
BY DEF Contexts

LEMMA AContext ==
    ASSUME NEW c \in Contexts, c.lists # << >>
    PROVE  IsContext(c)
BY DEF Contexts, IsContext

HasDeepest(S) == \E n \in S : \A k \in S : k <= n

LEMMA DeepestIs ==
    ASSUME NEW S, HasDeepest(S)
    PROVE  Deepest(S) \in S /\ \A k \in S : k <= Deepest(S)
BY DEF HasDeepest, Deepest

LEMMA ImageHasDeepest ==
    ASSUME NEW n \in Nat \ {0}, NEW f, \A i \in 1..n : f[i] \in Int
    PROVE  HasDeepest({f[i] : i \in 1..n})
<1>1. PICK m \in 1..n : \A i \in 1..n : f[i] <= f[m]
  BY SomeGreatest
<1> QED
  BY <1>1 DEF HasDeepest

LEMMA UnionHasDeepest ==
    ASSUME NEW S, NEW T, S \subseteq Int, T \subseteq Int, HasDeepest(S), HasDeepest(T)
    PROVE  HasDeepest(S \union T)
<1>1. PICK s \in S : \A k \in S : k <= s
  BY DEF HasDeepest
<1>2. PICK t \in T : \A k \in T : k <= t
  BY DEF HasDeepest
<1> DEFINE best == IF s <= t THEN t ELSE s
<1>3. best \in S \union T /\ \A k \in S \union T : k <= best
  BY <1>1, <1>2
<1> QED
  BY <1>3 DEF HasDeepest

LEMMA WaitingAre ==
    ASSUME NEW c, IsContext(c), Waiting(c) # {}
    PROVE  /\ Len(c.lists) \in Nat /\ Len(c.lists) - 1 \in Nat \ {0}
           /\ \A i \in Waiting(c) : /\ c.lists[i] \in EventLists
                                    /\ c.lists[i].breakto \in Nat /\ c.lists[i].maybe \in Nat
<1>1. Len(c.lists) \in Nat
  BY DEF IsContext
<1>2. \A i \in Waiting(c) : c.lists[i] \in EventLists
  BY OwnAndWaiting
<1>3. Len(c.lists) >= 2
  BY <1>1 DEF Waiting
<1>4. \A i \in Waiting(c) : c.lists[i].breakto \in Nat /\ c.lists[i].maybe \in Nat
  BY <1>2 DEF EventLists
<1> DEFINE n == Len(c.lists)
<1>5. n \in Nat /\ n >= 2
  BY <1>1, <1>3
<1> HIDE DEF n
<1>6. n - 1 \in Nat \ {0}
  BY <1>5
<1> USE DEF n
<1>7. Len(c.lists) - 1 \in Nat \ {0}
  BY <1>6
<1> QED
  BY <1>1, <1>2, <1>4, <1>7

LEMMA OutwardBounded ==
    ASSUME NEW c, IsContext(c), Waiting(c) # {}
    PROVE  LET breaks == {c.lists[i].breakto - 1 : i \in Waiting(c)}
               maybes == {c.lists[i].maybe - 1 : i \in Waiting(c)}
           IN  /\ breaks \subseteq Int /\ maybes \subseteq Int
               /\ HasDeepest(breaks) /\ HasDeepest(maybes)
<1> DEFINE n == Len(c.lists) - 1
           f == [i \in 1..n |-> c.lists[i + 1].breakto - 1]
           h == [i \in 1..n |-> c.lists[i + 1].maybe - 1]
<1>1. /\ n \in Nat \ {0} /\ Waiting(c) = 2..n + 1
      /\ \A i \in Waiting(c) : c.lists[i].breakto \in Nat /\ c.lists[i].maybe \in Nat
  BY WaitingAre DEF Waiting
<1>2. \A i \in 1..n : i + 1 \in Waiting(c)
  BY <1>1
<1>3. \A j \in Waiting(c) : j - 1 \in 1..n /\ (j - 1) + 1 = j
  BY <1>1
<1> HIDE DEF n
<1>4. (\A i \in 1..n : f[i] \in Int) /\ (\A i \in 1..n : h[i] \in Int)
  BY <1>1, <1>2
<1>5. HasDeepest({f[i] : i \in 1..n}) /\ HasDeepest({h[i] : i \in 1..n})
  <2> HIDE DEF f, h
  <2> QED
    BY <1>1, <1>4, ImageHasDeepest
<1>6. {f[i] : i \in 1..n} = {c.lists[i].breakto - 1 : i \in Waiting(c)}
  BY <1>2, <1>3
<1>7. {h[i] : i \in 1..n} = {c.lists[i].maybe - 1 : i \in Waiting(c)}
  BY <1>2, <1>3
<1>8. {c.lists[i].breakto - 1 : i \in Waiting(c)} \subseteq Int
  BY <1>1
<1>9. {c.lists[i].maybe - 1 : i \in Waiting(c)} \subseteq Int
  BY <1>1
<1> HIDE DEF f, h
<1> QED
  BY <1>5, <1>6, <1>7, <1>8, <1>9

LEMMA ShallowestIs ==
    ASSUME NEW c, IsContext(c), Waiting(c) # {}
    PROVE  Shallowest(c) \in Int
<1> DEFINE n == Len(c.lists) - 1
           f == [i \in 1..n |-> 0 - (c.lists[i + 1].breakto - 1)]
<1>1. /\ n \in Nat \ {0} /\ Waiting(c) = 2..n + 1
      /\ \A i \in Waiting(c) : c.lists[i].breakto \in Nat
  BY WaitingAre DEF Waiting
<1>2. \A i \in 1..n : i + 1 \in Waiting(c)
  BY <1>1
<1>3. \A j \in Waiting(c) : j - 1 \in 1..n /\ (j - 1) + 1 = j
  BY <1>1
<1> HIDE DEF n
<1>4. \A i \in 1..n : f[i] \in Int /\ c.lists[i + 1].breakto \in Nat
  BY <1>1, <1>2
<1>5. PICK m \in 1..n : \A i \in 1..n : f[i] <= f[m]
  <2> HIDE DEF f
  <2> QED
    BY <1>1, <1>4, SomeGreatest
<1>6. \A i \in 1..n : c.lists[m + 1].breakto - 1 <= c.lists[i + 1].breakto - 1
  BY <1>4, <1>5
<1>7. \A j \in Waiting(c) : c.lists[m + 1].breakto - 1 <= c.lists[j].breakto - 1
  BY <1>6, <1>3
<1>8. c.lists[m + 1].breakto - 1 \in {c.lists[i].breakto - 1 : i \in Waiting(c)}
  BY <1>2
<1>9. Shallowest(c) \in {c.lists[i].breakto - 1 : i \in Waiting(c)}
  BY <1>7, <1>8 DEF Shallowest
<1> QED
  BY <1>9, <1>1

-----------------------------------------------------------------------------
(* Merging keeps the events of a context event states.                       *)

\* A context that is another but for what it may hold.
SameScope(c, e) == e.type = c.type /\ e.flags = c.flags /\ e.coder = c.coder /\ e.start = c.start

LEMMA ListWith ==
    ASSUME NEW e \in EventLists, NEW init \in [Regs -> States], NEW ret \in States,
           NEW result \in States, NEW maybe \in Nat, NEW breakto \in Nat
    PROVE  [e EXCEPT !.init = init, !.ret = ret, !.result = result, !.maybe = maybe,
                     !.breakto = breakto] \in EventLists
BY DEF EventLists

LEMMA ListsReplaced ==
    ASSUME NEW c \in Contexts, NEW lists \in Seq(EventLists)
    PROVE  LET e == [c EXCEPT !.lists = lists]
           IN  e \in Contexts /\ SameScope(c, e) /\ e.lists = lists
BY DEF Contexts, SameScope

\* Merging leaves a context one list.
LEMMA MergedIs ==
    ASSUME NEW c \in Contexts, c.lists # << >>, NEW modulator \in States
    PROVE  /\ Merged(c, modulator) \in Contexts /\ SameScope(c, Merged(c, modulator))
           /\ Merged(c, modulator).lists # << >>
<1>1. IsContext(c) /\ c.lists \in Seq(EventLists)
  BY AContext, ContextFields
<1>2. CASE Waiting(c) = {}
  BY <1>2 DEF Merged, SameScope
<1>3. CASE Waiting(c) # {}
  <2> DEFINE e == Own(c)
             up == Own(Merged(c, modulator))
             breaks == {c.lists[i].breakto - 1 : i \in Waiting(c)}
             maybes == {c.lists[i].maybe - 1 : i \in Waiting(c)}
             deepest == Deepest((breaks \union maybes) \union {e.maybe})
             breakto == IF modulator > MAYBE THEN Greatest(e.breakto, Shallowest(c)) ELSE e.breakto
  <2>1. e \in EventLists /\ e.maybe \in Nat /\ e.breakto \in Nat /\ e.init \in [Regs -> States]
        /\ e.ret \in States /\ e.result \in States
    <3>1. e \in EventLists
      BY <1>1, OwnAndWaiting
    <3> HIDE DEF e
    <3> QED
      BY <3>1 DEF EventLists
  <2>2. deepest \in Nat
    <3>1. breaks \subseteq Int /\ maybes \subseteq Int /\ HasDeepest(breaks) /\ HasDeepest(maybes)
      BY <1>1, <1>3, OutwardBounded
    <3> DEFINE own == {e.maybe}
    <3>2. own \subseteq Int /\ HasDeepest(own)
      BY <2>1 DEF HasDeepest
    <3>3. e.maybe \in own
      OBVIOUS
    <3> HIDE DEF breaks, maybes, own, e
    <3>4. HasDeepest(breaks \union maybes) /\ breaks \union maybes \subseteq Int
      BY <3>1, UnionHasDeepest
    <3> DEFINE both == breaks \union maybes
    <3>5. both \subseteq Int /\ HasDeepest(both)
      BY <3>4
    <3> HIDE DEF both
    <3>6. HasDeepest(both \union own)
      BY <3>5, <3>2, UnionHasDeepest
    <3>7. Deepest(both \union own) \in both \union own /\ e.maybe <= Deepest(both \union own)
      BY <3>6, <3>3, DeepestIs
    <3>8. Deepest(both \union own) \in Int
      BY <3>7, <3>5, <3>2
    <3>9. Deepest(both \union own) \in Nat
      BY <3>7, <3>8, <2>1
    <3> QED
      BY <3>9 DEF both, own
  <2>3. breakto \in Nat
    <3>1. Shallowest(c) \in Int
      BY <1>1, <1>3, ShallowestIs
    <3> HIDE DEF e
    <3> QED
      BY <3>1, <2>1 DEF Greatest
  <2>4. up.ret \in States /\ up.result \in States /\ \A r \in Regs : up.init[r] \in States
    BY <1>1, <1>3, MergedExact DEF Exact
  <2> DEFINE all(val(_)) == Together({val(c.lists[i]) : i \in Waiting(c)}, modulator)
             init == [r \in Regs |-> Greatest(e.init[r], Together({c.lists[i].init[r] : i \in Waiting(c)}, modulator))]
             ret == Greatest(e.ret, Together({c.lists[i].ret : i \in Waiting(c)}, modulator))
             result == Greatest(e.result, Together({c.lists[i].result : i \in Waiting(c)}, modulator))
             own == [e EXCEPT !.init = init, !.ret = ret, !.result = result, !.maybe = deepest,
                              !.breakto = breakto]
  <2>5. Merged(c, modulator) = [c EXCEPT !.lists = <<own>>]
    BY <1>3, <2>1 DEF Merged, EventLists
  <2>6. up = own
    <3> HIDE DEF own
    <3>1. [c EXCEPT !.lists = <<own>>].lists = <<own>>
      BY DEF Contexts
    <3> QED
      BY <3>1, <2>5 DEF Own
  <2>7. own \in EventLists
    <3>1. init = up.init /\ ret = up.ret /\ result = up.result
      <4> HIDE DEF init, ret, result, deepest, breakto, up, e
      <4> QED
        BY <2>6, <2>1 DEF EventLists
    <3>2. init \in [Regs -> States]
      <4>1. \A r \in Regs : init[r] \in States
        BY <2>4, <3>1
      <4> QED
        BY <4>1
    <3> HIDE DEF init, ret, result, deepest, breakto, e, up
    <3> QED
      BY <2>1, <2>2, <2>3, <2>4, <3>1, <3>2, ListWith
  <2> DEFINE lists == <<own>>
  <2>8. lists \in Seq(EventLists) /\ lists # << >>
    <3> HIDE DEF own
    <3> QED
      BY <2>7
  <2>9. Merged(c, modulator) = [c EXCEPT !.lists = lists]
    BY <2>5
  <2> HIDE DEF own, lists
  <2> QED
    BY <2>8, <2>9, ListsReplaced
<1> QED
  BY <1>2, <1>3

-----------------------------------------------------------------------------
(* Contexts inside each other, and the events raised in them.                *)

LEMMA SmallSteps ==
    ASSUME NEW c \in Contexts
    PROVE  /\ \A v \in SUBSET Regs : [c EXCEPT !.vars = v] \in Contexts /\ SameScope(c, [c EXCEPT !.vars = v])
                                     /\ [c EXCEPT !.vars = v].lists = c.lists
           /\ \A m \in SUBSET Marks : [c EXCEPT !.ends = m] \in Contexts /\ SameScope(c, [c EXCEPT !.ends = m])
                                     /\ [c EXCEPT !.ends = m].lists = c.lists
           /\ \A m \in SUBSET Marks : [c EXCEPT !.conts = m] \in Contexts /\ SameScope(c, [c EXCEPT !.conts = m])
                                     /\ [c EXCEPT !.conts = m].lists = c.lists
BY DEF Contexts, SameScope

LEMMA NewContext ==
    ASSUME NEW type \in ContextTypes, NEW flags \in SUBSET Flags, NEW coder \in Nat, NEW start \in Nat
    PROVE  LET c == Context(type, flags, coder, start)
           IN  /\ c \in Contexts /\ c.lists # << >> /\ c.type = type /\ c.coder = coder /\ c.start = start
<1>1. NewList \in EventLists
  BY StatesAre DEF NewList, EventLists, Uninitialized
<1> DEFINE lists == <<NewList>>
<1>2. lists \in Seq(EventLists) /\ lists # << >>
  BY <1>1
<1>3. Context(type, flags, coder, start) =
        [type |-> type, flags |-> flags, coder |-> coder, start |-> start,
         vars |-> {}, ends |-> {}, conts |-> {}, lists |-> lists]
  BY DEF Context
<1> HIDE DEF lists
<1> QED
  BY <1>2, <1>3 DEF Contexts

\* The contexts of the compiler, from the function out.
Chain(cs) == cs \in Seq(Contexts) /\ Len(cs) \in Nat \ {0} /\ \A i \in 1..Len(cs) : cs[i].lists # << >>

SameScopes(cs, ds) == Len(ds) = Len(cs) /\ \A i \in 1..Len(cs) : SameScope(cs[i], ds[i])

LEMMA ScopesSame ==
    /\ \A c : SameScope(c, c)
    /\ \A cs : SameScopes(cs, cs)
    /\ \A cs, ds, es : SameScopes(cs, ds) /\ SameScopes(ds, es) => SameScopes(cs, es)
BY DEF SameScope, SameScopes

LEMMA OneChanged ==
    ASSUME NEW cs, Chain(cs), NEW n \in 1..Len(cs), NEW e \in Contexts, SameScope(cs[n], e), e.lists # << >>
    PROVE  LET ds == [cs EXCEPT ![n] = e]
           IN  Chain(ds) /\ SameScopes(cs, ds)
BY DEF Chain, SameScopes, SameScope

LEMMA ChainFields ==
    ASSUME NEW cs, Chain(cs), NEW n \in 1..Len(cs)
    PROVE  /\ cs[n] \in Contexts /\ cs[n].lists # << >> /\ IsContext(cs[n]) /\ Own(cs[n]) \in EventLists
           /\ cs[n].lists \in Seq(EventLists) /\ Len(cs) \in 1..Len(cs)
<1>1. cs[n] \in Contexts /\ cs[n].lists # << >>
  BY DEF Chain
<1>2. IsContext(cs[n])
  BY <1>1, AContext
<1>3. Len(cs) \in 1..Len(cs)
  BY DEF Chain
<1> QED
  BY <1>1, <1>2, <1>3, ContextFields, OwnAndWaiting

\* An event in context n.
LEMMA OwnChanged ==
    ASSUME NEW cs, Chain(cs), NEW n \in 1..Len(cs), NEW e \in EventLists
    PROVE  LET ds == [cs EXCEPT ![n].lists[1] = e]
           IN  Chain(ds) /\ SameScopes(cs, ds)
<1> DEFINE lists == [cs[n].lists EXCEPT ![1] = e]
           c == [cs[n] EXCEPT !.lists = lists]
<1>1. cs[n] \in Contexts /\ cs[n].lists # << >> /\ cs[n].lists \in Seq(EventLists)
  BY ChainFields
<1>2. lists \in Seq(EventLists) /\ lists # << >>
  <2> DEFINE s == cs[n].lists
  <2>1. s \in Seq(EventLists) /\ s # << >>
    BY <1>1
  <2> HIDE DEF s
  <2>2. 1 \in 1..Len(s) /\ Len(s) \in Nat
    BY <2>1
  <2>3. [s EXCEPT ![1] = e] \in Seq(EventLists)
    BY <2>1
  <2>4. Len([s EXCEPT ![1] = e]) = Len(s)
    BY <2>1
  <2>5. [s EXCEPT ![1] = e] # << >>
    BY <2>2, <2>4
  <2> QED
    BY <2>3, <2>5 DEF s
<1>3. c \in Contexts /\ SameScope(cs[n], c) /\ c.lists # << >>
  <2> HIDE DEF lists
  <2> QED
    BY <1>1, <1>2, ListsReplaced
<1>4. [cs EXCEPT ![n].lists[1] = e] = [cs EXCEPT ![n] = c]
  OBVIOUS
<1> HIDE DEF c
<1> QED
  BY <1>3, <1>4, OneChanged

LEMMA EventsAre ==
    ASSUME NEW e \in EventLists
    PROVE  /\ \A s \in States : /\ [e EXCEPT !.ret = s] \in EventLists
                                /\ [e EXCEPT !.result = s] \in EventLists
                                /\ [e EXCEPT !.target = s] \in EventLists
                                /\ \A r : [e EXCEPT !.init[r] = s] \in EventLists
           /\ \A n \in Nat : [e EXCEPT !.breakto = n] \in EventLists
           /\ e.ret \in States /\ e.result \in States /\ e.target \in States /\ e.breakto \in Nat
           /\ e.maybe \in Nat /\ e.init \in [Regs -> States]
BY DEF EventLists

LEMMA StrongestIs == \A S : Strongest(S) \in States
BY StatesAre DEF Strongest

LEMMA GreatestIs ==
    /\ \A a, b \in States : Greatest(a, b) \in States
    /\ \A a, b \in Nat : Greatest(a, b) \in Nat
    /\ \A a \in Nat : \A b \in Int : Greatest(a, b) \in Nat
BY StatesAre DEF Greatest

LEMMA EventRaised ==
    ASSUME NEW cs, Chain(cs)
    PROVE  /\ Chain(ReturnEvent(cs)) /\ SameScopes(cs, ReturnEvent(cs))
           /\ Chain(ResultEvent(cs)) /\ SameScopes(cs, ResultEvent(cs))
           /\ \A r : Chain(InitEvent(cs, r)) /\ SameScopes(cs, InitEvent(cs, r))
           /\ \A s \in States : Chain(TargetEvent(cs, s)) /\ SameScopes(cs, TargetEvent(cs, s))
           /\ \A n \in 1..Len(cs) : Chain(BreakEvent(cs, n)) /\ SameScopes(cs, BreakEvent(cs, n))
<1> DEFINE n == Len(cs)
           e == Own(cs[n])
<1>1. n \in 1..n /\ e \in EventLists /\ n \in Nat
  <2>1. n \in 1..n /\ n \in Nat
    BY DEF Chain
  <2> QED
    BY <2>1, ChainFields
<1> HIDE DEF e
<1>2. \A new \in EventLists : Chain(Raise(cs, new)) /\ SameScopes(cs, Raise(cs, new))
  BY <1>1, OwnChanged DEF Raise
<1>3. [e EXCEPT !.ret = YES] \in EventLists /\ [e EXCEPT !.result = YES] \in EventLists
  BY <1>1, EventsAre, StatesAre
<1>4. \A r : [e EXCEPT !.init[r] = YES] \in EventLists
  BY <1>1, EventsAre, StatesAre
<1>5. \A s \in States : [e EXCEPT !.target = Greatest(@, s)] \in EventLists
  <2> SUFFICES ASSUME NEW s \in States PROVE [e EXCEPT !.target = Greatest(@, s)] \in EventLists
    OBVIOUS
  <2>1. Greatest(e.target, s) \in States
    BY <1>1, EventsAre, GreatestIs
  <2> QED
    BY <1>1, <2>1, EventsAre
<1>6. \A k \in 1..n : [e EXCEPT !.breakto = Greatest(@, n - k + 1)] \in EventLists
  <2> SUFFICES ASSUME NEW k \in 1..n PROVE [e EXCEPT !.breakto = Greatest(@, n - k + 1)] \in EventLists
    OBVIOUS
  <2>1. n - k + 1 \in Nat
    BY <1>1
  <2> DEFINE m == n - k + 1
  <2> HIDE DEF m
  <2>2. Greatest(e.breakto, m) \in Nat
    BY <1>1, <2>1, EventsAre, GreatestIs DEF m
  <2>3. [e EXCEPT !.breakto = Greatest(@, m)] \in EventLists
    BY <1>1, <2>2, EventsAre
  <2> QED
    BY <2>3 DEF m
<1>7. Chain(ReturnEvent(cs)) /\ SameScopes(cs, ReturnEvent(cs))
  BY <1>2, <1>3 DEF ReturnEvent, e
<1>8. Chain(ResultEvent(cs)) /\ SameScopes(cs, ResultEvent(cs))
  BY <1>2, <1>3 DEF ResultEvent, e
<1>9. \A r : Chain(InitEvent(cs, r)) /\ SameScopes(cs, InitEvent(cs, r))
  BY <1>2, <1>4 DEF InitEvent, e
<1>10. \A s \in States : Chain(TargetEvent(cs, s)) /\ SameScopes(cs, TargetEvent(cs, s))
  BY <1>2, <1>5 DEF TargetEvent, e
<1>11. \A k \in 1..n : Chain(BreakEvent(cs, k)) /\ SameScopes(cs, BreakEvent(cs, k))
  BY <1>2, <1>6 DEF BreakEvent, e
<1> QED
  BY <1>7, <1>8, <1>9, <1>10, <1>11

-----------------------------------------------------------------------------
(* Generators: what it means that one leads to another with the contexts as  *)
(* they were, with one more, or with one less.                               *)

LEMMA GenWith ==
    ASSUME NEW g \in Generators
    PROVE  /\ g.ctxs \in Seq(Contexts) /\ g.codes \in Seq(Seq(Instructions)) /\ g.used \in Nat
           /\ g.ok \in BOOLEAN
           /\ \A cs \in Seq(Contexts) :
                 LET h == [g EXCEPT !.ctxs = cs]
                 IN  h \in Generators /\ h.ctxs = cs /\ h.codes = g.codes /\ h.used = g.used
           /\ \A ks \in Seq(Seq(Instructions)) :
                 LET h == [g EXCEPT !.codes = ks]
                 IN  h \in Generators /\ h.ctxs = g.ctxs /\ h.codes = ks /\ h.used = g.used
           /\ \A n \in Nat :
                 LET h == [g EXCEPT !.used = n]
                 IN  h \in Generators /\ h.ctxs = g.ctxs /\ h.codes = g.codes /\ h.used = n
           /\ \A b \in BOOLEAN :
                 LET h == [g EXCEPT !.ok = b]
                 IN  h \in Generators /\ h.ctxs = g.ctxs /\ h.codes = g.codes /\ h.used = g.used
BY DEF Generators

\* The code is only written further, and the first n contexts are the same.
Leads(g, h, n) ==
    /\ Good(h)
    /\ n \in Nat /\ n <= Depth(g) /\ n <= Depth(h)
    /\ Len(g.codes) <= Len(h.codes)
    /\ \A k \in 1..Len(g.codes) : Len(g.codes[k]) <= Len(h.codes[k])
    /\ \A i \in 1..n : SameScope(g.ctxs[i], h.ctxs[i])

Keeps(g, h) == Leads(g, h, Depth(g)) /\ Depth(h) = Depth(g)
Opens(g, h) == Leads(g, h, Depth(g)) /\ Depth(h) = Depth(g) + 1
Closes(g, h) == Leads(g, h, Depth(h)) /\ Depth(h) = Depth(g) - 1

LEMMA GoodFields ==
    ASSUME NEW g, Good(g)
    PROVE  /\ g \in Generators /\ Chain(g.ctxs) /\ g.ctxs \in Seq(Contexts) /\ g.codes \in Seq(Seq(Instructions))
           /\ g.used \in Nat /\ g.used <= Cardinality(Regs) /\ g.ok \in BOOLEAN
           /\ Depth(g) \in Nat \ {0} /\ Depth(g) \in 1..Depth(g) /\ Depth(g) = Len(g.ctxs)
           /\ Len(g.codes) \in Nat /\ \A k \in 1..Len(g.codes) : g.codes[k] \in Seq(Instructions) /\ Len(g.codes[k]) \in Nat
           /\ Coder(g) \in 1..Len(g.codes) /\ Coder(g) \in Nat /\ Coder(g) = g.ctxs[Depth(g)].coder
           /\ Target(g) \in Nat \ {0} /\ Target(g) = Len(g.codes[Coder(g)]) + 1
<1>1. g \in Generators /\ g.used <= Cardinality(Regs) /\ Scoped(g)
  BY DEF Good
<1>2. g.ctxs \in Seq(Contexts) /\ g.codes \in Seq(Seq(Instructions)) /\ g.used \in Nat /\ g.ok \in BOOLEAN
  BY <1>1, GenWith
<1>3. Depth(g) \in Nat \ {0} /\ Depth(g) = Len(g.ctxs)
  BY <1>1, <1>2 DEF Scoped, Depth
<1>4. Chain(g.ctxs)
  BY <1>1, <1>2, <1>3 DEF Scoped, Chain
<1>5. Len(g.codes) \in Nat /\ \A k \in 1..Len(g.codes) : g.codes[k] \in Seq(Instructions) /\ Len(g.codes[k]) \in Nat
  BY <1>2
<1>6. Depth(g) \in 1..Depth(g)
  BY <1>3
<1>7. Coder(g) \in 1..Len(g.codes) /\ Coder(g) = g.ctxs[Depth(g)].coder
  BY <1>1, <1>3, <1>6 DEF Scoped, Coder, Top
<1>8. Len(g.codes[Coder(g)]) \in Nat
  BY <1>5, <1>7
<1>9. Target(g) \in Nat \ {0} /\ Target(g) = Len(g.codes[Coder(g)]) + 1
  BY <1>8 DEF Target
<1>10. Coder(g) \in Nat
  BY <1>5, <1>7
<1> QED
  BY <1>1, <1>2, <1>3, <1>4, <1>5, <1>6, <1>7, <1>9, <1>10

LEMMA KeepsNothing ==
    ASSUME NEW g, Good(g)
    PROVE  Keeps(g, g)
BY GoodFields, ScopesSame DEF Keeps, Leads

LEMMA LeadsOn ==
    ASSUME NEW g, NEW h, NEW e, NEW n, NEW m, Leads(g, h, n), Leads(h, e, m), NEW k \in Nat, k <= n, k <= m,
           Good(g)
    PROVE  Leads(g, e, k)
<1>1. /\ Len(g.codes) \in Nat /\ Len(h.codes) \in Nat /\ Len(e.codes) \in Nat
      /\ Depth(g) \in Nat /\ Depth(h) \in Nat /\ Depth(e) \in Nat /\ n \in Nat /\ m \in Nat
  BY GoodFields DEF Leads
<1>2. Len(g.codes) <= Len(h.codes) /\ Len(h.codes) <= Len(e.codes)
  BY DEF Leads
<1>3. \A j \in 1..Len(g.codes) : Len(g.codes[j]) <= Len(e.codes[j])
  <2> SUFFICES ASSUME NEW j \in 1..Len(g.codes) PROVE Len(g.codes[j]) <= Len(e.codes[j])
    OBVIOUS
  <2>1. j \in 1..Len(h.codes) /\ j \in 1..Len(e.codes)
    BY <1>1, <1>2
  <2>2. Len(g.codes[j]) \in Nat /\ Len(h.codes[j]) \in Nat /\ Len(e.codes[j]) \in Nat
    BY <2>1, GoodFields DEF Leads
  <2>3. Len(g.codes[j]) <= Len(h.codes[j]) /\ Len(h.codes[j]) <= Len(e.codes[j])
    BY <2>1 DEF Leads
  <2> QED
    BY <2>2, <2>3
<1>4. \A i \in 1..k : SameScope(g.ctxs[i], e.ctxs[i])
  <2> SUFFICES ASSUME NEW i \in 1..k PROVE SameScope(g.ctxs[i], e.ctxs[i])
    OBVIOUS
  <2>1. i \in 1..n /\ i \in 1..m
    BY <1>1
  <2>2. SameScope(g.ctxs[i], h.ctxs[i]) /\ SameScope(h.ctxs[i], e.ctxs[i])
    BY <2>1 DEF Leads
  <2> QED
    BY <2>2 DEF SameScope
<1>5. k <= Depth(g) /\ k <= Depth(e) /\ Good(e) /\ Len(g.codes) <= Len(e.codes)
  BY <1>1, <1>2 DEF Leads
<1> QED
  BY <1>3, <1>4, <1>5 DEF Leads

LEMMA KeepsOn ==
    ASSUME NEW g, NEW h, NEW e, Good(g), Keeps(g, h)
    PROVE  /\ Good(h)
           /\ Keeps(h, e) => Keeps(g, e)
           /\ Opens(h, e) => Opens(g, e)
           /\ Closes(h, e) => Closes(g, e)
<1>1. Good(h) /\ Leads(g, h, Depth(g)) /\ Depth(h) = Depth(g) /\ Depth(g) \in Nat /\ Depth(g) <= Depth(g)
  BY GoodFields DEF Keeps, Leads
<1>2. ASSUME Keeps(h, e) PROVE Keeps(g, e)
  BY <1>1, <1>2, LeadsOn DEF Keeps
<1>3. ASSUME Opens(h, e) PROVE Opens(g, e)
  BY <1>1, <1>3, LeadsOn DEF Opens
<1>4. ASSUME Closes(h, e) PROVE Closes(g, e)
  <2>1. Leads(h, e, Depth(e)) /\ Depth(e) = Depth(h) - 1 /\ Depth(e) \in Nat
    BY <1>4 DEF Closes, Leads
  <2>2. Depth(e) <= Depth(g) /\ Depth(e) <= Depth(e)
    BY <1>1, <2>1
  <2> QED
    BY <1>1, <2>1, <2>2, LeadsOn DEF Closes
<1> QED
  BY <1>1, <1>2, <1>3, <1>4

LEMMA OpensOn ==
    ASSUME NEW g, NEW h, NEW e, Good(g), Opens(g, h)
    PROVE  /\ Good(h)
           /\ Keeps(h, e) => Opens(g, e)
           /\ Closes(h, e) => Keeps(g, e)
<1>1. Good(h) /\ Leads(g, h, Depth(g)) /\ Depth(h) = Depth(g) + 1 /\ Depth(g) \in Nat /\ Depth(g) <= Depth(g)
      /\ Depth(g) <= Depth(h)
  BY GoodFields DEF Opens, Leads
<1>2. ASSUME Keeps(h, e) PROVE Opens(g, e)
  BY <1>1, <1>2, LeadsOn DEF Keeps, Opens
<1>3. ASSUME Closes(h, e) PROVE Keeps(g, e)
  <2>1. Leads(h, e, Depth(e)) /\ Depth(e) = Depth(h) - 1
    BY <1>3 DEF Closes
  <2>2. Depth(e) = Depth(g)
    BY <1>1, <2>1
  <2> QED
    BY <1>1, <2>1, <2>2, LeadsOn DEF Keeps
<1> QED
  BY <1>1, <1>2, <1>3

LEMMA ClosesOn ==
    ASSUME NEW g, NEW h, NEW e, Good(g), Closes(g, h)
    PROVE  /\ Good(h)
           /\ Keeps(h, e) => Closes(g, e)
<1>1. Good(h) /\ Leads(g, h, Depth(h)) /\ Depth(h) = Depth(g) - 1 /\ Depth(h) \in Nat /\ Depth(h) <= Depth(h)
  BY GoodFields DEF Closes, Leads
<1>2. ASSUME Keeps(h, e) PROVE Closes(g, e)
  BY <1>1, <1>2, LeadsOn DEF Keeps, Closes
<1> QED
  BY <1>1, <1>2

-----------------------------------------------------------------------------
(* A generator with other contexts, other code, or other registers.          *)

\* Contexts that are the same but for what they hold.
LEMMA Recontexted ==
    ASSUME NEW g, Good(g), NEW cs, Chain(cs), SameScopes(g.ctxs, cs)
    PROVE  LET h == [g EXCEPT !.ctxs = cs]
           IN  Keeps(g, h) /\ h.ctxs = cs /\ h.codes = g.codes /\ h.used = g.used /\ Coder(h) = Coder(g)
<1> DEFINE h == [g EXCEPT !.ctxs = cs]
<1>1. /\ g \in Generators /\ Depth(g) \in Nat \ {0} /\ Depth(g) = Len(g.ctxs) /\ Len(g.codes) \in Nat
      /\ Depth(g) \in 1..Depth(g)
      /\ g.used <= Cardinality(Regs) /\ \A k \in 1..Len(g.codes) : Len(g.codes[k]) \in Nat
  BY GoodFields
<1>2. h \in Generators /\ h.ctxs = cs /\ h.codes = g.codes /\ h.used = g.used
  BY <1>1, GenWith DEF Chain
<1>3. Len(cs) = Depth(g) /\ Depth(h) = Depth(g)
  BY <1>1, <1>2 DEF SameScopes, Depth
<1> HIDE DEF h
<1>4. \A i \in 1..Depth(g) : SameScope(g.ctxs[i], cs[i])
  BY <1>1 DEF SameScopes
<1>5. \A i \in 1..Depth(g) : cs[i].type = g.ctxs[i].type /\ cs[i].coder = g.ctxs[i].coder /\ cs[i].start = g.ctxs[i].start
  BY <1>4 DEF SameScope
<1>6. Scoped(g) /\ Coded(g)
  BY DEF Good
<1>7. Scoped(h)
  <2>1. Len(h.ctxs) >= 1 /\ h.ctxs[1].coder = 1
    BY <1>1, <1>2, <1>3, <1>5, <1>6 DEF Scoped
  <2>2. \A i \in 1..Len(h.ctxs) :
          /\ h.ctxs[i].lists # << >>
          /\ h.ctxs[i].coder \in 1..Len(h.codes)
          /\ h.ctxs[i].start \in 1..Len(h.codes[h.ctxs[i].coder]) + 1
    BY <1>1, <1>2, <1>3, <1>5, <1>6 DEF Scoped, Chain
  <2>3. ASSUME NEW i \in 1..Len(h.ctxs), NEW j \in 1..Len(h.ctxs), i < j
        PROVE  /\ h.ctxs[i].coder <= h.ctxs[j].coder
               /\ h.ctxs[j].type = "FUNCTION" => h.ctxs[i].coder < h.ctxs[j].coder
               /\ \/ h.ctxs[i].coder = h.ctxs[j].coder
                  \/ \E k \in i + 1..j : h.ctxs[k].type = "FUNCTION"
    <3>1. i \in 1..Depth(g) /\ j \in 1..Depth(g)
      BY <1>2, <1>3
    <3>2. /\ g.ctxs[i].coder <= g.ctxs[j].coder
          /\ g.ctxs[j].type = "FUNCTION" => g.ctxs[i].coder < g.ctxs[j].coder
          /\ \/ g.ctxs[i].coder = g.ctxs[j].coder
             \/ \E k \in i + 1..j : g.ctxs[k].type = "FUNCTION"
      BY <1>1, <1>6, <2>3, <3>1 DEF Scoped
    <3>3. \A k \in i + 1..j : k \in 1..Depth(g)
      BY <3>1, <1>1
    <3> QED
      BY <1>2, <1>5, <3>1, <3>2, <3>3
  <2> QED
    BY <2>1, <2>2, <2>3 DEF Scoped
<1>8. Coded(h)
  BY <1>1, <1>2, <1>3, <1>5, <1>6 DEF Coded
<1>9. Good(h)
  BY <1>1, <1>2, <1>7, <1>8 DEF Good
<1>10. Keeps(g, h)
  BY <1>1, <1>2, <1>3, <1>4, <1>9 DEF Keeps, Leads
<1>11. Coder(h) = Coder(g)
  BY <1>1, <1>2, <1>3, <1>5 DEF Coder, Top
<1> QED
  BY <1>2, <1>10, <1>11 DEF h

\* The code in progress is written further.
Writes(code, new, m) ==
    /\ new \in Seq(Instructions) /\ Len(code) <= Len(new)
    /\ Opened(code, m) => Opened(new, m)

LEMMA Recoded ==
    ASSUME NEW g, Good(g), NEW new, Writes(g.codes[Coder(g)], new, Len(g.codes))
    PROVE  LET h == [g EXCEPT !.codes[Coder(g)] = new]
           IN  /\ Keeps(g, h) /\ h.ctxs = g.ctxs /\ h.used = g.used /\ Coder(h) = Coder(g)
               /\ h.codes = [g.codes EXCEPT ![Coder(g)] = new] /\ h.codes[Coder(g)] = new
<1> DEFINE c == Coder(g)
           codes == [g.codes EXCEPT ![c] = new]
           h == [g EXCEPT !.codes = codes]
<1>1. /\ g \in Generators /\ Depth(g) \in Nat \ {0} /\ Depth(g) = Len(g.ctxs) /\ Len(g.codes) \in Nat
      /\ g.used <= Cardinality(Regs) /\ \A k \in 1..Len(g.codes) : Len(g.codes[k]) \in Nat
      /\ g.codes \in Seq(Seq(Instructions)) /\ c \in 1..Len(g.codes) /\ Depth(g) \in 1..Depth(g)
      /\ c = g.ctxs[Depth(g)].coder
  BY GoodFields
<1>2. new \in Seq(Instructions) /\ Len(g.codes[c]) <= Len(new) /\ Len(new) \in Nat
      /\ (Opened(g.codes[c], Len(g.codes)) => Opened(new, Len(g.codes)))
  BY DEF Writes
<1> HIDE DEF c
<1>3. codes \in Seq(Seq(Instructions)) /\ Len(codes) = Len(g.codes) /\ codes[c] = new
      /\ \A k \in 1..Len(g.codes) : k # c => codes[k] = g.codes[k]
  BY <1>1, <1>2
<1> HIDE DEF codes
<1>4. h \in Generators /\ h.ctxs = g.ctxs /\ h.codes = codes /\ h.used = g.used
  BY <1>1, <1>3, GenWith
<1> HIDE DEF h
<1>5. \A k \in 1..Len(g.codes) : Len(g.codes[k]) <= Len(codes[k]) /\ Len(codes[k]) \in Nat
  <2> SUFFICES ASSUME NEW k \in 1..Len(g.codes) PROVE Len(g.codes[k]) <= Len(codes[k]) /\ Len(codes[k]) \in Nat
    OBVIOUS
  <2>1. CASE k = c
    BY <2>1, <1>2, <1>3
  <2>2. CASE k # c
    <3>1. codes[k] = g.codes[k] /\ Len(g.codes[k]) \in Nat
      BY <2>2, <1>1, <1>3
    <3> DEFINE l == Len(g.codes[k])
    <3>2. l \in Nat /\ Len(codes[k]) = l
      BY <3>1
    <3> HIDE DEF l
    <3>3. l <= Len(codes[k]) /\ Len(codes[k]) \in Nat
      BY <3>2
    <3> QED
      BY <3>3 DEF l
  <2> QED
    BY <2>1, <2>2
<1>6. Scoped(g) /\ Coded(g)
  BY DEF Good
<1>7. Scoped(h)
  <2>1. \A i \in 1..Len(g.ctxs) : g.ctxs[i].start \in 1..Len(codes[g.ctxs[i].coder]) + 1
    <3> SUFFICES ASSUME NEW i \in 1..Len(g.ctxs) PROVE g.ctxs[i].start \in 1..Len(codes[g.ctxs[i].coder]) + 1
      OBVIOUS
    <3> DEFINE k == g.ctxs[i].coder
    <3>1. k \in 1..Len(g.codes) /\ g.ctxs[i].start \in 1..Len(g.codes[k]) + 1
      BY <1>6 DEF Scoped
    <3> HIDE DEF k
    <3>2. Len(g.codes[k]) <= Len(codes[k]) /\ Len(codes[k]) \in Nat /\ Len(g.codes[k]) \in Nat
      BY <3>1, <1>1, <1>5
    <3>3. g.ctxs[i].start \in 1..Len(codes[k]) + 1
      <4> DEFINE a == g.ctxs[i].start
                 l == Len(g.codes[k])
                 n == Len(codes[k])
      <4>1. a \in 1..l + 1 /\ l <= n /\ n \in Nat /\ l \in Nat
        BY <3>1, <3>2
      <4> HIDE DEF a, l, n
      <4>2. a \in 1..n + 1
        BY <4>1
      <4> QED
        BY <4>2 DEF a, n
    <3> QED
      BY <3>3 DEF k
  <2> QED
    BY <1>3, <1>4, <1>6, <2>1 DEF Scoped
<1>8. Coded(h)
  <2> SUFFICES ASSUME NEW k \in 1..Len(g.codes)
               PROVE  /\ Opened(codes[k], Len(g.codes))
                      /\ Finished(codes[k], Len(g.codes)) \/ \E i \in 1..Len(g.ctxs) : g.ctxs[i].coder = k
    BY <1>3, <1>4 DEF Coded
  <2>1. /\ Opened(g.codes[k], Len(g.codes))
        /\ Finished(g.codes[k], Len(g.codes)) \/ \E i \in 1..Len(g.ctxs) : g.ctxs[i].coder = k
    BY <1>6 DEF Coded
  <2>2. CASE k = c
    BY <2>1, <2>2, <1>1, <1>2, <1>3
  <2>3. CASE k # c
    BY <2>1, <2>3, <1>3
  <2> QED
    BY <2>2, <2>3
<1>9. Good(h)
  BY <1>1, <1>4, <1>7, <1>8 DEF Good
<1>10. Depth(h) = Depth(g) /\ Coder(h) = c
  BY <1>1, <1>4 DEF Depth, Coder, Top, c
<1>11. Keeps(g, h)
  BY <1>1, <1>3, <1>4, <1>5, <1>9, <1>10, ScopesSame DEF Keeps, Leads
<1>12. h = [g EXCEPT !.codes[Coder(g)] = new]
  BY <1>1 DEF h, codes, c
<1> QED
  BY <1>3, <1>4, <1>10, <1>11, <1>12 DEF codes, c

LEMMA Reflagged ==
    ASSUME NEW g, Good(g), NEW b \in BOOLEAN
    PROVE  LET h == [g EXCEPT !.ok = b]
           IN  Keeps(g, h) /\ h.ctxs = g.ctxs /\ h.codes = g.codes /\ h.used = g.used /\ Coder(h) = Coder(g)
<1> DEFINE h == [g EXCEPT !.ok = b]
<1>1. h \in Generators /\ h.ctxs = g.ctxs /\ h.codes = g.codes /\ h.used = g.used
  BY GoodFields, GenWith
<1> HIDE DEF h
<1>2. Good(h) /\ Depth(h) = Depth(g) /\ Coder(h) = Coder(g)
  BY <1>1, GoodFields DEF Good, Scoped, Coded, Depth, Coder, Top
<1>3. Keeps(g, h)
  BY <1>1, <1>2, GoodFields, ScopesSame DEF Keeps, Leads
<1> QED
  BY <1>1, <1>2, <1>3 DEF h

LEMMA Reused ==
    ASSUME NEW g, Good(g), NEW n \in Nat, n <= Cardinality(Regs)
    PROVE  LET h == [g EXCEPT !.used = n]
           IN  Keeps(g, h) /\ h.ctxs = g.ctxs /\ h.codes = g.codes /\ h.used = n /\ Coder(h) = Coder(g)
<1> DEFINE h == [g EXCEPT !.used = n]
<1>1. h \in Generators /\ h.ctxs = g.ctxs /\ h.codes = g.codes /\ h.used = n
  BY GoodFields, GenWith
<1> HIDE DEF h
<1>2. Good(h) /\ Depth(h) = Depth(g) /\ Coder(h) = Coder(g)
  BY <1>1, GoodFields DEF Good, Scoped, Coded, Depth, Coder, Top
<1>3. Keeps(g, h)
  BY <1>1, <1>2, GoodFields, ScopesSame DEF Keeps, Leads
<1> QED
  BY <1>1, <1>2, <1>3 DEF h

-----------------------------------------------------------------------------
(* Code and branches that lead somewhere (ec_coder.c).                       *)

LEMMA RegsAre ==
    /\ Cardinality(Regs) \in Nat /\ Regs \subseteq Nat \ {0}
    /\ \A n \in Nat : n < Cardinality(Regs) => n + 1 \in Regs
    /\ \A S \in SUBSET Regs : Cardinality(S) \in Nat
<1>1. Cardinality(Regs) \in Nat /\ Regs = 1..Cardinality(Regs)
  BY RegsAssumption, CompilerAssumption, FS_CardinalityType
<1>2. \A S \in SUBSET Regs : Cardinality(S) \in Nat
  BY RegsAssumption, FS_Subset, FS_CardinalityType
<1> DEFINE c == Cardinality(Regs)
<1>3. c \in Nat /\ Regs = 1..c
  BY <1>1
<1> HIDE DEF c
<1>4. Regs \subseteq Nat \ {0} /\ \A n \in Nat : n < c => n + 1 \in Regs
  BY <1>3
<1> QED
  BY <1>1, <1>2, <1>4 DEF c

LEMMA KeepsFields ==
    ASSUME NEW g, NEW h, Good(g), Keeps(g, h)
    PROVE  /\ Good(h) /\ Depth(h) = Depth(g) /\ Coder(h) = Coder(g) /\ Target(g) <= Target(h)
           /\ SameScope(Top(g.ctxs), Top(h.ctxs))
           /\ \A i \in 1..Depth(g) : SameScope(g.ctxs[i], h.ctxs[i])
           /\ Len(g.codes) <= Len(h.codes)
<1>1. Good(h) /\ Depth(h) = Depth(g) /\ (\A i \in 1..Depth(g) : SameScope(g.ctxs[i], h.ctxs[i]))
      /\ Len(g.codes) <= Len(h.codes)
      /\ \A k \in 1..Len(g.codes) : Len(g.codes[k]) <= Len(h.codes[k])
  BY DEF Keeps, Leads
<1>2. /\ Depth(g) \in 1..Depth(g) /\ Depth(g) = Len(g.ctxs) /\ Depth(h) = Len(h.ctxs)
      /\ Coder(g) = g.ctxs[Depth(g)].coder /\ Coder(h) = h.ctxs[Depth(h)].coder /\ Coder(g) \in 1..Len(g.codes)
      /\ Target(g) = Len(g.codes[Coder(g)]) + 1 /\ Target(h) = Len(h.codes[Coder(h)]) + 1
      /\ Target(g) \in Nat /\ Target(h) \in Nat
      /\ \A k \in 1..Len(g.codes) : Len(g.codes[k]) \in Nat
      /\ \A k \in 1..Len(h.codes) : Len(h.codes[k]) \in Nat
      /\ Coder(h) \in 1..Len(h.codes)
  BY <1>1, GoodFields
<1>3. SameScope(Top(g.ctxs), Top(h.ctxs))
  BY <1>1, <1>2 DEF Top
<1>4. Coder(h) = Coder(g)
  BY <1>1, <1>2 DEF SameScope
<1>5. Target(g) <= Target(h)
  <2> DEFINE a == Len(g.codes[Coder(g)])
             b == Len(h.codes[Coder(g)])
  <2>1. Coder(g) \in 1..Len(g.codes) /\ Coder(h) \in 1..Len(h.codes) /\ Coder(h) = Coder(g)
    BY <1>2, <1>4
  <2>2. a \in Nat /\ a <= b
    BY <1>1, <1>2, <2>1
  <2>3. b \in Nat /\ Target(g) = a + 1 /\ Target(h) = b + 1
    BY <1>2, <2>1
  <2> HIDE DEF a, b
  <2> QED
    BY <2>2, <2>3
<1> QED
  BY <1>1, <1>3, <1>4, <1>5

\* The instructions of Here, and what they see.
LEMMA SeenIs ==
    ASSUME NEW g, Good(g)
    PROVE  Visible(g) \subseteq Regs /\ Live(g) \in BOOLEAN /\ TestExit(g.ctxs) \in States
<1>1. Chain(g.ctxs) /\ Depth(g) = Len(g.ctxs)
  BY GoodFields
<1>2. \A i \in 1..Depth(g) : g.ctxs[i].vars \subseteq Regs
  BY <1>1, ChainFields, ContextFields
<1>3. Visible(g) \subseteq Regs
  BY <1>2 DEF Visible, InFunction
<1>4. TestExit(g.ctxs) \in States
  BY StrongestIs, StatesAre DEF TestExit
<1> QED
  BY <1>3, <1>4 DEF Live

LEMMA Reached ==
    ASSUME NEW ins, NEW n \in Nat, NEW k \in Nat, NEW m \in Nat, NEW l \in Nat, n <= k, m <= l, Lands(ins, n, m)
    PROVE  Lands(ins, k, l)
<1>1. ins.to \subseteq 1..k
  BY DEF Lands
<1>2. [try : 1..m, except : 1..m] \subseteq [try : 1..l, except : 1..l]
  BY SMT
<1> QED
  BY <1>1, <1>2 DEF Lands

\* An instruction that can be coded now.
Codable(g, op, arg) ==
    /\ op \in Ops /\ arg \in Operands
    /\ op = "init" => arg \in Regs
    /\ op = "clean" => arg \in Nat
    /\ op = "try" => arg \in [try : 1..Len(g.codes), except : 1..Len(g.codes)]

LEMMA CodeIs ==
    ASSUME NEW g, Good(g), NEW op, NEW arg, Codable(g, op, arg)
    PROVE  LET h == Code(g, op, arg)
           IN  /\ Keeps(g, h) /\ h.ctxs = g.ctxs /\ h.used = g.used /\ Coder(h) = Coder(g)
               /\ Target(h) = Target(g) + 1 /\ Len(h.codes) = Len(g.codes)
               /\ op = "end" => Finished(h.codes[Coder(g)], Len(h.codes))
               /\ \A k \in 1..Len(g.codes) : k # Coder(g) => h.codes[k] = g.codes[k]
<1> DEFINE c == Coder(g)
           code == g.codes[c]
           ins == [op |-> op, arg |-> arg, to |-> {}, live |-> Live(g), scope |-> Visible(g)]
           new == Append(code, ins)
           m == Len(g.codes)
           h == [g EXCEPT !.codes[c] = new]
<1>1. /\ code \in Seq(Instructions) /\ m \in Nat /\ c \in 1..m /\ Len(code) \in Nat
      /\ Target(g) = Len(code) + 1 /\ g.codes \in Seq(Seq(Instructions)) /\ g \in Generators
  BY GoodFields
<1>2. /\ ins \in Instructions /\ ins.op = op /\ ins.to = {}
      /\ Lands(ins, Len(code) + 1, m)
  <2>1. Live(g) \in BOOLEAN /\ Visible(g) \in SUBSET Regs
    BY SeenIs
  <2>2. op \in Ops /\ arg \in Operands
    BY DEF Codable
  <2>3. ins \in Instructions
    BY <2>1, <2>2 DEF Instructions
  <2>4. Lands(ins, Len(code) + 1, m)
    BY DEF Codable, Lands
  <2> QED
    BY <2>3, <2>4
<1>3. Code(g, op, arg) = h
  BY DEF Code
<1> HIDE DEF ins
<1>4. new \in Seq(Instructions) /\ Len(new) = Len(code) + 1 /\ new[Len(code) + 1] = ins
      /\ \A p \in 1..Len(code) : new[p] = code[p]
  BY <1>1, <1>2
<1> HIDE DEF new
<1>5. ASSUME Opened(code, m)
      PROVE  \A p \in 1..Len(new) : Lands(new[p], Len(new), m)
  <2> SUFFICES ASSUME NEW p \in 1..Len(new) PROVE Lands(new[p], Len(new), m)
    OBVIOUS
  <2>1. CASE p \in 1..Len(code)
    BY <1>4, <1>5, <2>1 DEF Opened
  <2>2. CASE p = Len(code) + 1
    BY <1>2, <1>4, <2>2
  <2> DEFINE n == Len(code)
  <2>3. n \in Nat /\ p \in 1..n + 1
    BY <1>1, <1>4
  <2> HIDE DEF n
  <2>4. p \in 1..n \/ p = n + 1
    BY <2>3
  <2> QED
    BY <2>1, <2>2, <2>4 DEF n
<1>6. ASSUME Opened(code, m)
      PROVE  Opened(new, m)
  <2> SUFFICES ASSUME NEW p \in 1..Len(new) PROVE Lands(new[p], Len(new) + 1, m)
    BY DEF Opened
  <2>1. Lands(new[p], Len(new), m)
    BY <1>5, <1>6
  <2>2. Len(new) \in Nat /\ Len(new) + 1 \in Nat /\ Len(new) <= Len(new) + 1 /\ m <= m
    BY <1>1, <1>4
  <2> QED
    BY <1>1, <2>1, <2>2, Reached
<1>7. Len(code) <= Len(new)
  BY <1>1, <1>4
<1>8. Writes(code, new, m)
  BY <1>4, <1>6, <1>7 DEF Writes
<1>9. /\ Keeps(g, h) /\ h.ctxs = g.ctxs /\ h.used = g.used /\ Coder(h) = c
      /\ h.codes = [g.codes EXCEPT ![c] = new] /\ h.codes[c] = new
  BY <1>8, Recoded
<1>10. Opened(code, m)
  BY <1>1 DEF Good, Coded
<1> HIDE DEF h, code
<1>11. Len(h.codes) = m
  BY <1>1, <1>9
<1>12. op = "end" => Finished(h.codes[c], Len(h.codes))
  <2> SUFFICES ASSUME op = "end" PROVE Finished(new, m)
    BY <1>9, <1>11
  <2>1. new # << >> /\ new[Len(new)].op = "end"
    BY <1>1, <1>2, <1>4
  <2> QED
    BY <1>5, <1>10, <2>1 DEF Finished
<1>13. Target(h) = Target(g) + 1
  BY <1>1, <1>4, <1>9 DEF Target
<1>14. \A k \in 1..m : k # c => h.codes[k] = g.codes[k]
  BY <1>1, <1>9
<1> QED
  BY <1>3, <1>9, <1>11, <1>12, <1>13, <1>14 DEF c, m, h

LEMMA SetJumpIs ==
    ASSUME NEW g, Good(g), NEW pos, NEW whereto \in 1..Target(g)
    PROVE  LET h == SetJump(g, pos, whereto)
           IN  Keeps(g, h) /\ h.ctxs = g.ctxs /\ h.used = g.used /\ Coder(h) = Coder(g) /\ Target(h) = Target(g)
               /\ Len(h.codes) = Len(g.codes)
<1>1. CASE pos = 0
  BY <1>1, KeepsNothing DEF SetJump
<1>2. CASE pos # 0
  <2> DEFINE c == Coder(g)
             code == g.codes[c]
             new == [code EXCEPT ![pos].to = @ \union {whereto}]
             m == Len(g.codes)
             h == [g EXCEPT !.codes[c] = new]
  <2>1. /\ code \in Seq(Instructions) /\ m \in Nat /\ c \in 1..m /\ Len(code) \in Nat
        /\ Target(g) = Len(code) + 1 /\ g.codes \in Seq(Seq(Instructions)) /\ g \in Generators
    BY GoodFields
  <2>2. SetJump(g, pos, whereto) = h
    BY <1>2 DEF SetJump
  <2>3. whereto \in 1..Len(code) + 1 /\ whereto \in Nat
    BY <2>1
  <2> HIDE DEF code
  <2>4. \A ins \in Instructions :
          /\ [ins EXCEPT !.to = @ \union {whereto}] \in Instructions
          /\ Lands(ins, Len(code) + 1, m) => Lands([ins EXCEPT !.to = @ \union {whereto}], Len(code) + 1, m)
    BY <2>3 DEF Instructions, Lands
  <2>5. new \in Seq(Instructions) /\ Len(new) = Len(code)
        /\ \A p \in 1..Len(code) : new[p] = IF p = pos THEN [code[p] EXCEPT !.to = @ \union {whereto}] ELSE code[p]
    <3>1. new = [p \in 1..Len(code) |-> IF p = pos THEN [code[p] EXCEPT !.to = @ \union {whereto}] ELSE code[p]]
      <4>1. DOMAIN code = 1..Len(code) /\ code = [p \in 1..Len(code) |-> code[p]]
        BY <2>1
      <4>2. new = [p \in DOMAIN code |-> IF p = pos THEN [code[p] EXCEPT !.to = @ \union {whereto}] ELSE code[p]]
        BY Zenon
      <4> QED
        BY <4>1, <4>2
    <3>2. \A p \in 1..Len(code) : code[p] \in Instructions
      BY <2>1
    <3>3. \A p \in 1..Len(code) :
             (IF p = pos THEN [code[p] EXCEPT !.to = @ \union {whereto}] ELSE code[p]) \in Instructions
      BY <3>2, <2>4
    <3> HIDE DEF new
    <3>4. new \in [1..Len(code) -> Instructions]
      BY <3>1, <3>3
    <3>5. new \in Seq(Instructions) /\ Len(new) = Len(code)
      BY <2>1, <3>4
    <3> QED
      BY <3>1, <3>5
  <2> HIDE DEF new
  <2>6. Opened(code, m) => Opened(new, m)
    <3> SUFFICES ASSUME Opened(code, m), NEW p \in 1..Len(new)
                 PROVE  Lands(new[p], Len(new) + 1, m)
      BY DEF Opened
    <3>1. p \in 1..Len(code) /\ code[p] \in Instructions /\ Lands(code[p], Len(code) + 1, m)
      BY <2>1, <2>5 DEF Opened
    <3> QED
      BY <2>4, <2>5, <3>1
  <2>7. Writes(code, new, m)
    BY <2>1, <2>5, <2>6 DEF Writes
  <2>8. /\ Keeps(g, h) /\ h.ctxs = g.ctxs /\ h.used = g.used /\ Coder(h) = c
        /\ h.codes = [g.codes EXCEPT ![c] = new] /\ h.codes[c] = new
    BY <2>7, Recoded DEF code
  <2> HIDE DEF h
  <2>9. Len(h.codes) = m
    BY <2>1, <2>8
  <2>10. Target(h) = Target(g)
    BY <2>1, <2>5, <2>8 DEF Target
  <2> QED
    BY <2>2, <2>8, <2>9, <2>10
<1> QED
  BY <1>1, <1>2

-----------------------------------------------------------------------------
(* Fixing up breaks and continues.                                           *)

LEMMA FunctionIsSeq ==
    ASSUME NEW S, NEW n \in Nat, NEW f \in [1..n -> S]
    PROVE  f \in Seq(S) /\ Len(f) = n
BY SMT

LEMMA WireIs ==
    ASSUME NEW g, Good(g), NEW marks \in SUBSET Marks
    PROVE  LET h == Wire(g, marks)
           IN  Keeps(g, h) /\ h.used = g.used /\ Len(h.codes) = Len(g.codes)
<1> DEFINE c == Coder(g)
           here == Target(g)
           code == g.codes[c]
           hit(p) == \E m \in marks : m.pos = p
           new == [p \in DOMAIN code |-> IF hit(p) THEN [code[p] EXCEPT !.to = @ \union {here}] ELSE code[p]]
           m == Len(g.codes)
           h == [g EXCEPT !.codes[c] = new]
           s == Strongest({e.state : e \in marks})
           cs == TargetEvent(g.ctxs, s)
<1>1. /\ code \in Seq(Instructions) /\ m \in Nat /\ c \in 1..m /\ Len(code) \in Nat
      /\ here = Len(code) + 1 /\ g.codes \in Seq(Seq(Instructions)) /\ g \in Generators
  BY GoodFields
<1>2. here \in 1..Len(code) + 1 /\ here \in Nat
  BY <1>1
<1> HIDE DEF code, here
<1>3. \A ins \in Instructions :
          /\ [ins EXCEPT !.to = @ \union {here}] \in Instructions
          /\ Lands(ins, Len(code) + 1, m) => Lands([ins EXCEPT !.to = @ \union {here}], Len(code) + 1, m)
  BY <1>2 DEF Instructions, Lands
<1>4. new \in Seq(Instructions) /\ Len(new) = Len(code)
        /\ \A p \in 1..Len(code) : new[p] = IF hit(p) THEN [code[p] EXCEPT !.to = @ \union {here}] ELSE code[p]
  <2> HIDE DEF hit
  <2>1. new = [p \in 1..Len(code) |-> IF hit(p) THEN [code[p] EXCEPT !.to = @ \union {here}] ELSE code[p]]
    BY <1>1
  <2>2. \A p \in 1..Len(code) : code[p] \in Instructions
    BY <1>1
  <2>3. \A p \in 1..Len(code) :
             (IF hit(p) THEN [code[p] EXCEPT !.to = @ \union {here}] ELSE code[p]) \in Instructions
    BY <2>2, <1>3
  <2> HIDE DEF new
  <2>4. new \in [1..Len(code) -> Instructions]
    BY <2>1, <2>3
  <2>5. new \in Seq(Instructions) /\ Len(new) = Len(code)
    BY <1>1, <2>4, FunctionIsSeq
  <2> QED
    BY <2>1, <2>5
<1> HIDE DEF new, hit
<1>5. Opened(code, m) => Opened(new, m)
  <2> SUFFICES ASSUME Opened(code, m), NEW p \in 1..Len(new)
               PROVE  Lands(new[p], Len(new) + 1, m)
    BY DEF Opened
  <2>1. p \in 1..Len(code) /\ code[p] \in Instructions /\ Lands(code[p], Len(code) + 1, m)
    BY <1>1, <1>4 DEF Opened
  <2> QED
    BY <1>3, <1>4, <2>1
<1>6. Writes(code, new, m)
  BY <1>1, <1>4, <1>5 DEF Writes
<1>7. /\ Keeps(g, h) /\ h.ctxs = g.ctxs /\ h.used = g.used /\ Coder(h) = c
      /\ h.codes = [g.codes EXCEPT ![c] = new] /\ h.codes[c] = new
  BY <1>6, Recoded DEF code
<1>8. Wire(g, marks) = [g EXCEPT !.codes[c] = new, !.ctxs = TargetEvent(@, s)]
  BY DEF Wire, new, hit, here, code
<1>9. Wire(g, marks) = [h EXCEPT !.ctxs = cs]
  <2>1. g.ctxs = h.ctxs
    BY <1>7
  <2> QED
    BY <1>1, <1>8 DEF Generators
<1> HIDE DEF h, s
<1>10. s \in States
  BY StrongestIs DEF s
<1>11. Good(h) /\ Len(h.codes) = m /\ Chain(h.ctxs)
  BY <1>1, <1>7, KeepsFields, GoodFields
<1>12. Chain(cs) /\ SameScopes(h.ctxs, cs)
  BY <1>7, <1>10, <1>11, EventRaised
<1> DEFINE e == [h EXCEPT !.ctxs = cs]
<1>13. Keeps(h, e) /\ e.codes = h.codes /\ e.used = h.used
  <2> HIDE DEF cs
  <2> QED
    BY <1>11, <1>12, Recontexted
<1> HIDE DEF e
<1>14. Keeps(g, e)
  BY <1>7, <1>13, KeepsOn
<1> QED
  BY <1>7, <1>9, <1>11, <1>13, <1>14 DEF e

\* What a context holds but its events.
LEMMA FieldsSet ==
    ASSUME NEW cs, Chain(cs), NEW n \in 1..Len(cs)
    PROVE  /\ \A v \in SUBSET Regs :
                 LET ds == [cs EXCEPT ![n].vars = v] IN Chain(ds) /\ SameScopes(cs, ds)
           /\ \A m \in SUBSET Marks :
                 LET ds == [cs EXCEPT ![n].ends = m] IN Chain(ds) /\ SameScopes(cs, ds)
           /\ \A m \in SUBSET Marks :
                 LET ds == [cs EXCEPT ![n].conts = m] IN Chain(ds) /\ SameScopes(cs, ds)
<1>1. cs[n] \in Contexts /\ cs[n].lists # << >>
  BY ChainFields
<1>2. ASSUME NEW v \in SUBSET Regs
      PROVE  LET ds == [cs EXCEPT ![n].vars = v] IN Chain(ds) /\ SameScopes(cs, ds)
  <2> DEFINE e == [cs[n] EXCEPT !.vars = v]
  <2>1. e \in Contexts /\ SameScope(cs[n], e) /\ e.lists # << >>
    BY <1>1, SmallSteps
  <2>2. [cs EXCEPT ![n].vars = v] = [cs EXCEPT ![n] = e]
    OBVIOUS
  <2> HIDE DEF e
  <2> QED
    BY <2>1, <2>2, OneChanged
<1>3. ASSUME NEW v \in SUBSET Marks
      PROVE  LET ds == [cs EXCEPT ![n].ends = v] IN Chain(ds) /\ SameScopes(cs, ds)
  <2> DEFINE e == [cs[n] EXCEPT !.ends = v]
  <2>1. e \in Contexts /\ SameScope(cs[n], e) /\ e.lists # << >>
    BY <1>1, SmallSteps
  <2>2. [cs EXCEPT ![n].ends = v] = [cs EXCEPT ![n] = e]
    OBVIOUS
  <2> HIDE DEF e
  <2> QED
    BY <2>1, <2>2, OneChanged
<1>4. ASSUME NEW v \in SUBSET Marks
      PROVE  LET ds == [cs EXCEPT ![n].conts = v] IN Chain(ds) /\ SameScopes(cs, ds)
  <2> DEFINE e == [cs[n] EXCEPT !.conts = v]
  <2>1. e \in Contexts /\ SameScope(cs[n], e) /\ e.lists # << >>
    BY <1>1, SmallSteps
  <2>2. [cs EXCEPT ![n].conts = v] = [cs EXCEPT ![n] = e]
    OBVIOUS
  <2> HIDE DEF e
  <2> QED
    BY <2>1, <2>2, OneChanged
<1> QED
  BY <1>2, <1>3, <1>4

\* The generator with what a context of its chain holds replaced.
LEMMA HeldSet ==
    ASSUME NEW g, Good(g), NEW n \in 1..Depth(g)
    PROVE  /\ \A v \in SUBSET Regs :
                 LET h == [g EXCEPT !.ctxs[n].vars = v] IN Keeps(g, h) /\ h.used = g.used
           /\ \A m \in SUBSET Marks :
                 LET h == [g EXCEPT !.ctxs[n].ends = m]
                 IN  Keeps(g, h) /\ h.used = g.used /\ Len(h.codes) = Len(g.codes)
           /\ \A m \in SUBSET Marks :
                 LET h == [g EXCEPT !.ctxs[n].conts = m]
                 IN  Keeps(g, h) /\ h.used = g.used /\ Len(h.codes) = Len(g.codes)
<1>1. Chain(g.ctxs) /\ n \in 1..Len(g.ctxs) /\ g \in Generators
  BY GoodFields
<1>2. \A cs : Chain(cs) /\ SameScopes(g.ctxs, cs) =>
         LET h == [g EXCEPT !.ctxs = cs]
         IN  Keeps(g, h) /\ h.used = g.used /\ Len(h.codes) = Len(g.codes)
  BY Recontexted
<1>3. ASSUME NEW v \in SUBSET Regs
      PROVE  LET h == [g EXCEPT !.ctxs[n].vars = v] IN Keeps(g, h) /\ h.used = g.used
  <2> DEFINE cs == [g.ctxs EXCEPT ![n].vars = v]
  <2>1. Chain(cs) /\ SameScopes(g.ctxs, cs)
    BY <1>1, FieldsSet
  <2>2. [g EXCEPT !.ctxs[n].vars = v] = [g EXCEPT !.ctxs = cs]
    OBVIOUS
  <2> HIDE DEF cs
  <2> QED
    BY <1>2, <2>1, <2>2
<1>4. ASSUME NEW v \in SUBSET Marks
      PROVE  LET h == [g EXCEPT !.ctxs[n].ends = v]
             IN  Keeps(g, h) /\ h.used = g.used /\ Len(h.codes) = Len(g.codes)
  <2> DEFINE cs == [g.ctxs EXCEPT ![n].ends = v]
  <2>1. Chain(cs) /\ SameScopes(g.ctxs, cs)
    BY <1>1, FieldsSet
  <2>2. [g EXCEPT !.ctxs[n].ends = v] = [g EXCEPT !.ctxs = cs]
    OBVIOUS
  <2> HIDE DEF cs
  <2> QED
    BY <1>2, <2>1, <2>2
<1>5. ASSUME NEW v \in SUBSET Marks
      PROVE  LET h == [g EXCEPT !.ctxs[n].conts = v]
             IN  Keeps(g, h) /\ h.used = g.used /\ Len(h.codes) = Len(g.codes)
  <2> DEFINE cs == [g.ctxs EXCEPT ![n].conts = v]
  <2>1. Chain(cs) /\ SameScopes(g.ctxs, cs)
    BY <1>1, FieldsSet
  <2>2. [g EXCEPT !.ctxs[n].conts = v] = [g EXCEPT !.ctxs = cs]
    OBVIOUS
  <2> HIDE DEF cs
  <2> QED
    BY <1>2, <2>1, <2>2
<1> QED
  BY <1>3, <1>4, <1>5

\* The marks of the context on top.
LEMMA TopHolds ==
    ASSUME NEW g, Good(g)
    PROVE  /\ Top(g.ctxs).ends \in SUBSET Marks /\ Top(g.ctxs).conts \in SUBSET Marks
           /\ \A i \in 1..Depth(g) : g.ctxs[i].ends \in SUBSET Marks /\ g.ctxs[i].conts \in SUBSET Marks
                                     /\ g.ctxs[i].vars \in SUBSET Regs
<1>1. Chain(g.ctxs) /\ Depth(g) = Len(g.ctxs) /\ Depth(g) \in 1..Depth(g)
  BY GoodFields
<1>2. \A i \in 1..Depth(g) : g.ctxs[i].ends \in SUBSET Marks /\ g.ctxs[i].conts \in SUBSET Marks
                                     /\ g.ctxs[i].vars \in SUBSET Regs
  BY <1>1, ChainFields, ContextFields
<1> QED
  BY <1>1, <1>2 DEF Top

LEMMA FixupsAre ==
    ASSUME NEW g, Good(g)
    PROVE  /\ Keeps(g, FixupBreaks(g)) /\ FixupBreaks(g).used = g.used
           /\ Keeps(g, FixupContinuations(g)) /\ FixupContinuations(g).used = g.used
<1> DEFINE b == Wire(g, Top(g.ctxs).ends)
           c == Wire(g, Top(g.ctxs).conts)
<1>1. Keeps(g, b) /\ b.used = g.used /\ Keeps(g, c) /\ c.used = g.used
  BY TopHolds, WireIs
<1>2. FixupBreaks(g) = [b EXCEPT !.ctxs[Depth(g)].ends = {}]
      /\ FixupContinuations(g) = [c EXCEPT !.ctxs[Depth(g)].conts = {}]
  BY DEF FixupBreaks, FixupContinuations
<1> HIDE DEF b, c
<1> DEFINE none == {}
<1>3. none \in SUBSET Marks
  OBVIOUS
<1> HIDE DEF none
<1>4. Good(b) /\ Good(c) /\ Depth(g) \in 1..Depth(b) /\ Depth(g) \in 1..Depth(c)
  BY <1>1, KeepsFields, GoodFields
<1> DEFINE d == [b EXCEPT !.ctxs[Depth(g)].ends = none]
           e == [c EXCEPT !.ctxs[Depth(g)].conts = none]
<1>5. Keeps(b, d) /\ d.used = b.used
  BY <1>3, <1>4, HeldSet
<1>6. Keeps(c, e) /\ e.used = c.used
  BY <1>3, <1>4, HeldSet
<1>7. FixupBreaks(g) = d /\ FixupContinuations(g) = e
  BY <1>2 DEF none
<1> HIDE DEF d, e
<1>8. Keeps(g, d) /\ Keeps(g, e)
  BY <1>1, <1>5, <1>6, KeepsOn
<1> QED
  BY <1>1, <1>5, <1>6, <1>7, <1>8

-----------------------------------------------------------------------------
(* Single instructions, events, and merging in a generator.                  *)

\* Operands that every instruction may have.
LEMMA OperandsAre ==
    /\ \A g, op, n : op \in Ops /\ n \in Nat /\ op # "init" /\ op # "try" => Codable(g, op, n)
    /\ \A g, r : r \in Regs => Codable(g, "init", r) /\ Codable(g, "assign", r) /\ Codable(g, "use", r)
<1>1. \A n \in Nat : n \in Operands
  BY DEF Operands
<1>2. \A r \in Regs : r \in Operands
  BY <1>1, RegsAre
<1>3. ASSUME NEW g, NEW op \in Ops, NEW n \in Nat, op # "init", op # "try" PROVE Codable(g, op, n)
  BY <1>1, <1>3 DEF Codable
<1>4. ASSUME NEW g, NEW r \in Regs PROVE Codable(g, "init", r) /\ Codable(g, "assign", r) /\ Codable(g, "use", r)
  BY <1>2 DEF Codable, Ops
<1> QED
  BY <1>3, <1>4

\* Instructions with no operand, and events in the current context.
LEMMA PlainCode ==
    ASSUME NEW g, Good(g), NEW op \in {"jump", "branch", "switch", "return", "throw", "retry", "end"}
    PROVE  LET h == Code(g, op, 0)
           IN  Keeps(g, h) /\ h.used = g.used /\ Target(h) = Target(g) + 1
<1>1. op \in Ops /\ op # "init" /\ op # "try" /\ op # "clean"
  BY DEF Ops
<1>2. Codable(g, op, 0)
  BY <1>1, OperandsAre
<1> QED
  BY <1>2, CodeIs

LEMMA EventIs ==
    ASSUME NEW g, Good(g)
    PROVE  /\ LET h == [g EXCEPT !.ctxs = ReturnEvent(@)] IN Keeps(g, h) /\ h.used = g.used
           /\ LET h == [g EXCEPT !.ctxs = ResultEvent(@)] IN Keeps(g, h) /\ h.used = g.used
           /\ LET h == [g EXCEPT !.ctxs = ResultEvent(ReturnEvent(@))] IN Keeps(g, h) /\ h.used = g.used
           /\ \A r : LET h == [g EXCEPT !.ctxs = InitEvent(@, r)] IN Keeps(g, h) /\ h.used = g.used
           /\ \A n \in 1..Depth(g) :
                LET h == [g EXCEPT !.ctxs = BreakEvent(@, n)] IN Keeps(g, h) /\ h.used = g.used
<1>1. Chain(g.ctxs) /\ Depth(g) = Len(g.ctxs)
  BY GoodFields
<1>2. \A cs : Chain(cs) /\ SameScopes(g.ctxs, cs) =>
         LET h == [g EXCEPT !.ctxs = cs] IN Keeps(g, h) /\ h.used = g.used
  BY Recontexted
<1>3. /\ Chain(ReturnEvent(g.ctxs)) /\ SameScopes(g.ctxs, ReturnEvent(g.ctxs))
      /\ Chain(ResultEvent(g.ctxs)) /\ SameScopes(g.ctxs, ResultEvent(g.ctxs))
      /\ \A r : Chain(InitEvent(g.ctxs, r)) /\ SameScopes(g.ctxs, InitEvent(g.ctxs, r))
      /\ \A n \in 1..Depth(g) : Chain(BreakEvent(g.ctxs, n)) /\ SameScopes(g.ctxs, BreakEvent(g.ctxs, n))
  BY <1>1, EventRaised
<1> DEFINE returned == ReturnEvent(g.ctxs)
           both == ResultEvent(returned)
<1>4. Chain(both) /\ SameScopes(g.ctxs, both)
  <2>1. Chain(returned) /\ SameScopes(g.ctxs, returned)
    BY <1>3
  <2> HIDE DEF returned
  <2>2. Chain(both) /\ SameScopes(returned, both)
    BY <2>1, EventRaised
  <2> QED
    BY <2>1, <2>2, ScopesSame
<1>5. LET h == [g EXCEPT !.ctxs = ReturnEvent(@)] IN Keeps(g, h) /\ h.used = g.used
  BY <1>2, <1>3
<1>6. LET h == [g EXCEPT !.ctxs = ResultEvent(@)] IN Keeps(g, h) /\ h.used = g.used
  BY <1>2, <1>3
<1>7. LET h == [g EXCEPT !.ctxs = ResultEvent(ReturnEvent(@))] IN Keeps(g, h) /\ h.used = g.used
  BY <1>2, <1>4
<1>8. \A r : LET h == [g EXCEPT !.ctxs = InitEvent(@, r)] IN Keeps(g, h) /\ h.used = g.used
  BY <1>2, <1>3
<1>9. \A n \in 1..Depth(g) : LET h == [g EXCEPT !.ctxs = BreakEvent(@, n)] IN Keeps(g, h) /\ h.used = g.used
  BY <1>2, <1>3
<1> QED
  BY <1>5, <1>6, <1>7, <1>8, <1>9

LEMMA LeaveIs ==
    ASSUME NEW g, Good(g), NEW n
    PROVE  Keeps(g, Leave(g, n)) /\ Leave(g, n).used = g.used
<1> DEFINE inner == Initialized(g.ctxs, n)
           outer == Initialized(g.ctxs, n - 1)
           h == [g EXCEPT !.ok = @ /\ ~Uncertain(g.ctxs, n)]
           j == Code(h, "clean", Cardinality(outer))
<1>1. Cardinality(outer) \in Nat
  <2>1. outer \in SUBSET Regs
    BY DEF Initialized
  <2> QED
    BY <2>1, RegsAre
<1>2. Keeps(g, h) /\ h.used = g.used
  <2> DEFINE b == g.ok /\ ~Uncertain(g.ctxs, n)
  <2>1. b \in BOOLEAN
    BY DEF Uncertain
  <2>2. h = [g EXCEPT !.ok = b]
    OBVIOUS
  <2> HIDE DEF b
  <2> QED
    BY <2>1, <2>2, Reflagged
<1> HIDE DEF h, outer
<1>3. Good(h) /\ Codable(h, "clean", Cardinality(outer))
  <2>1. Good(h)
    BY <1>2, KeepsFields
  <2> DEFINE n0 == Cardinality(outer)
  <2>2. n0 \in Nat
    BY <1>1
  <2> HIDE DEF n0
  <2>3. "clean" \in Ops /\ "clean" # "init" /\ "clean" # "try"
    BY DEF Ops
  <2>4. Codable(h, "clean", n0)
    BY <2>2, <2>3, OperandsAre
  <2> QED
    BY <2>1, <2>4 DEF n0
<1>4. Keeps(h, j) /\ j.used = h.used
  BY <1>3, CodeIs
<1> HIDE DEF j
<1>5. Keeps(g, j) /\ Keeps(g, g)
  BY <1>2, <1>4, KeepsOn, KeepsNothing
<1>6. Leave(g, n) \in {g, h, j}
  BY DEF Leave, h, j, outer
<1> QED
  BY <1>2, <1>4, <1>5, <1>6

LEMMA MergeIs ==
    ASSUME NEW g, Good(g), NEW modulator \in States
    PROVE  LET h == Merge(g, modulator) IN Keeps(g, h) /\ h.used = g.used
<1> DEFINE n == Depth(g)
           c == g.ctxs[n]
           e == Merged(c, modulator)
           cs == [g.ctxs EXCEPT ![n] = e]
<1>1. Chain(g.ctxs) /\ n \in 1..Len(g.ctxs)
  BY GoodFields
<1>2. c \in Contexts /\ c.lists # << >>
  BY <1>1, ChainFields
<1>3. e \in Contexts /\ SameScope(c, e) /\ e.lists # << >>
  BY <1>2, MergedIs
<1>4. Merge(g, modulator) = [g EXCEPT !.ctxs = cs]
  BY DEF Merge
<1> HIDE DEF e
<1>5. Chain(cs) /\ SameScopes(g.ctxs, cs)
  BY <1>1, <1>3, OneChanged
<1> HIDE DEF cs
<1> QED
  BY <1>4, <1>5, Recontexted

LEMMA CheckIs ==
    ASSUME NEW g, Good(g)
    PROVE  Keeps(g, Check(g)) /\ Check(g).used = g.used
<1> DEFINE b == g.ok /\ ~Uncertain(g.ctxs, Depth(g))
<1>1. b \in BOOLEAN
  BY DEF Uncertain
<1>2. Check(g) = [g EXCEPT !.ok = b]
  BY DEF Check
<1> HIDE DEF b
<1> QED
  BY <1>1, <1>2, Reflagged

LEMMA ReadWriteAre ==
    ASSUME NEW g, Good(g), NEW r \in Regs
    PROVE  /\ Keeps(g, Read(g, r)) /\ Read(g, r).used = g.used
           /\ Keeps(g, Write(g, r)) /\ Write(g, r).used = g.used
<1> DEFINE i == Code(g, "init", r)
           a == Code(g, "assign", r)
           u == Code(g, "use", r)
           bad == [g EXCEPT !.ok = FALSE]
           e == [i EXCEPT !.ctxs = InitEvent(@, r)]
<1>1. Keeps(g, i) /\ i.used = g.used /\ Keeps(g, a) /\ a.used = g.used /\ Keeps(g, u) /\ u.used = g.used
  BY OperandsAre, CodeIs
<1>2. Keeps(g, bad) /\ bad.used = g.used
  BY Reflagged
<1> HIDE DEF i, a, u, bad
<1>3. Good(i)
  BY <1>1, KeepsFields
<1>4. Keeps(i, e) /\ e.used = i.used
  BY <1>3, EventIs
<1> HIDE DEF e
<1>5. Keeps(g, e)
  BY <1>1, <1>4, KeepsOn
<1>6. Read(g, r) \in {u, bad} /\ Write(g, r) \in {e, a, bad}
  BY DEF Read, Write, e, i, a, u, bad
<1> QED
  BY <1>1, <1>2, <1>4, <1>5, <1>6

-----------------------------------------------------------------------------
(* Jumps out of a context and back to its start, and declarations.           *)

LEMMA JumpIs ==
    ASSUME NEW g, Good(g), NEW n \in 1..Depth(g), NEW marks
    PROVE  LET h == Jump(g, n, marks) IN Keeps(g, h) /\ h.used = g.used
<1> DEFINE h == Leave(g, n)
           mark == [pos |-> Target(h), state |-> Not(TestExit(g.ctxs))]
           j == Code(h, "jump", 0)
           a == [j EXCEPT !.ctxs[n].ends = @ \union {mark}]
           b == [j EXCEPT !.ctxs[n].conts = @ \union {mark}]
           k == IF marks = "ends" THEN a ELSE b
           e == [k EXCEPT !.ctxs = BreakEvent(@, n)]
<1>1. Keeps(g, h) /\ h.used = g.used /\ Good(h) /\ Target(h) \in Nat
  BY LeaveIs, KeepsFields, GoodFields
<1>2. mark \in Marks
  <2>1. TestExit(g.ctxs) \in States
    BY SeenIs
  <2>2. Not(TestExit(g.ctxs)) \in States
    BY <2>1, StatesAre DEF Not
  <2> QED
    BY <1>1, <2>2 DEF Marks
<1> HIDE DEF h, mark
<1>3. Keeps(h, j) /\ j.used = h.used
  BY <1>1, PlainCode
<1> HIDE DEF j
<1>4. Good(j) /\ n \in 1..Depth(j) /\ Keeps(g, j)
  BY <1>1, <1>3, KeepsFields, KeepsOn
<1>5. Keeps(j, a) /\ a.used = j.used
  <2> DEFINE m == j.ctxs[n].ends \union {mark}
  <2>1. m \in SUBSET Marks
    BY <1>2, <1>4, TopHolds
  <2>2. a = [j EXCEPT !.ctxs[n].ends = m]
    OBVIOUS
  <2> HIDE DEF m
  <2> QED
    BY <1>4, <2>1, <2>2, HeldSet
<1>6. Keeps(j, b) /\ b.used = j.used
  <2> DEFINE m == j.ctxs[n].conts \union {mark}
  <2>1. m \in SUBSET Marks
    BY <1>2, <1>4, TopHolds
  <2>2. b = [j EXCEPT !.ctxs[n].conts = m]
    OBVIOUS
  <2> HIDE DEF m
  <2> QED
    BY <1>4, <2>1, <2>2, HeldSet
<1> HIDE DEF a, b
<1>7. Keeps(j, k) /\ k.used = j.used
  BY <1>5, <1>6
<1>8. Jump(g, n, marks) = IF Live(g) THEN e ELSE g
  BY DEF Jump, k, a, b, j, mark, h
<1> HIDE DEF k
<1>9. Good(k) /\ n \in 1..Depth(k) /\ Keeps(g, k)
  BY <1>4, <1>7, KeepsFields, KeepsOn
<1>10. Keeps(k, e) /\ e.used = k.used
  BY <1>9, EventIs
<1> HIDE DEF e
<1>11. Keeps(g, e) /\ Keeps(g, g)
  BY <1>9, <1>10, KeepsOn, KeepsNothing
<1> QED
  BY <1>1, <1>3, <1>7, <1>8, <1>10, <1>11

\* A context of the function that is compiled, and where it starts.
LEMMA StartsHere ==
    ASSUME NEW g, Good(g), NEW n \in InFunction(g.ctxs, Depth(g))
    PROVE  n \in 1..Depth(g) /\ g.ctxs[n].coder = Coder(g) /\ g.ctxs[n].start \in 1..Target(g)
<1>1. n \in 1..Depth(g) /\ \A j \in (n + 1)..Depth(g) : g.ctxs[j].type # "FUNCTION"
  BY DEF InFunction
<1>2. Depth(g) \in Nat /\ Depth(g) \in 1..Depth(g) /\ Depth(g) = Len(g.ctxs) /\ Coder(g) = g.ctxs[Depth(g)].coder /\ Scoped(g)
      /\ Target(g) = Len(g.codes[Coder(g)]) + 1
  BY GoodFields DEF Good
<1>3. g.ctxs[n].coder = Coder(g)
  <2>1. CASE n = Depth(g)
    BY <1>2, <2>1
  <2>2. CASE n # Depth(g)
    <3> DEFINE d == Depth(g)
    <3>2. n \in 1..d /\ n # d /\ d \in Nat
      BY <1>1, <1>2, <2>2
    <3> HIDE DEF d
    <3>3. n < d
      BY <3>2
    <3>1. n < Depth(g)
      BY <3>3 DEF d
    <3> QED
      BY <1>1, <1>2, <3>1 DEF Scoped
  <2> QED
    BY <2>1, <2>2
<1> QED
  BY <1>1, <1>2, <1>3 DEF Scoped

LEMMA JumpBackIs ==
    ASSUME NEW g, Good(g), NEW n \in InFunction(g.ctxs, Depth(g))
    PROVE  LET h == JumpBack(g, n) IN Keeps(g, h) /\ h.used = g.used
<1> DEFINE h == Leave(g, n)
           c == Code(h, "jump", 0)
           j == SetJump(c, BranchPos(h), g.ctxs[n].start)
           e == [j EXCEPT !.ctxs = BreakEvent(@, n)]
<1>1. n \in 1..Depth(g) /\ g.ctxs[n].start \in 1..Target(g)
  BY StartsHere
<1>2. Keeps(g, h) /\ h.used = g.used /\ Good(h)
  BY LeaveIs, KeepsFields
<1>3. JumpBack(g, n) = e
  BY DEF JumpBack
<1> HIDE DEF h
<1>4. Keeps(h, c) /\ c.used = h.used
  BY <1>2, PlainCode
<1> HIDE DEF c
<1>5. Keeps(g, c) /\ Good(c)
  BY <1>2, <1>4, KeepsOn, KeepsFields
<1>6. g.ctxs[n].start \in 1..Target(c)
  <2>1. Target(g) <= Target(c) /\ Target(g) \in Nat /\ Target(c) \in Nat
    BY <1>5, KeepsFields, GoodFields
  <2> QED
    BY <1>1, <2>1
<1>7. Keeps(c, j) /\ j.used = c.used
  BY <1>5, <1>6, SetJumpIs
<1> HIDE DEF j
<1>8. Keeps(g, j) /\ Good(j) /\ n \in 1..Depth(j)
  BY <1>1, <1>5, <1>7, KeepsOn, KeepsFields
<1>9. Keeps(j, e) /\ e.used = j.used
  BY <1>8, EventIs
<1> HIDE DEF e
<1> QED
  BY <1>2, <1>3, <1>4, <1>7, <1>8, <1>9, KeepsOn

LEMMA MoveBreaksUpIs ==
    ASSUME NEW g, Good(g), Depth(g) >= 2
    PROVE  LET h == MoveBreaksUp(g) IN Keeps(g, h) /\ h.used = g.used
<1> DEFINE n == Depth(g)
           m == g.ctxs[n - 1].ends \union Top(g.ctxs).ends
           h == [g EXCEPT !.ctxs[n - 1].ends = m]
           none == {}
           j == [h EXCEPT !.ctxs[n].ends = none]
<1>1. n \in Nat /\ n \in 1..n /\ n - 1 \in 1..n /\ g \in Generators
  BY GoodFields
<1>2. m \in SUBSET Marks /\ none \in SUBSET Marks
  <2>1. g.ctxs[n - 1].ends \in SUBSET Marks /\ Top(g.ctxs).ends \in SUBSET Marks
    BY <1>1, TopHolds
  <2> QED
    BY <2>1
<1>3. MoveBreaksUp(g) = j
  BY <1>1 DEF MoveBreaksUp, Generators
<1> HIDE DEF m, none
<1>4. Keeps(g, h) /\ h.used = g.used
  BY <1>1, <1>2, HeldSet
<1> HIDE DEF h
<1>5. Good(h) /\ n \in 1..Depth(h)
  BY <1>1, <1>4, KeepsFields
<1>6. Keeps(h, j) /\ j.used = h.used
  BY <1>2, <1>5, HeldSet
<1> HIDE DEF j
<1> QED
  BY <1>3, <1>4, <1>6, KeepsOn

LEMMA DeclareIs ==
    ASSUME NEW g, Good(g), g.used < Cardinality(Regs)
    PROVE  LET h == Declare(g) IN Keeps(g, h) /\ h.used = g.used + 1 /\ h.used \in Regs
<1> DEFINE n == CHOOSE i \in 1..Depth(g) :
               /\ ~KeepsVariables(g.ctxs[i])
               /\ \A j \in (i + 1)..Depth(g) : KeepsVariables(g.ctxs[j])
           v == g.ctxs[n].vars \union {g.used + 1}
           u == g.used + 1
           h == [g EXCEPT !.used = u]
           j == [h EXCEPT !.ctxs[n].vars = v]
<1>1. Declare(g) = [g EXCEPT !.used = @ + 1, !.ctxs[n].vars = @ \union {g.used + 1}]
  BY DEF Declare
<1>2. g \in Generators /\ Chain(g.ctxs) /\ g.used \in Nat
  BY GoodFields
<1>3. u \in Nat /\ u <= Cardinality(Regs) /\ u \in Regs
  BY <1>2, RegsAre
<1>4. Declare(g) = j
  <2> HIDE DEF n
  <2>1. [g EXCEPT !.used = @ + 1, !.ctxs[n].vars = @ \union {g.used + 1}] = [[g EXCEPT !.used = u] EXCEPT !.ctxs[n].vars = v]
    <3>1. [g EXCEPT !.used = u].ctxs = g.ctxs
      BY <1>2 DEF Generators
    <3> QED
      BY <1>2, <3>1 DEF Generators
  <2> QED
    BY <1>1, <2>1
<1> HIDE DEF n, u, h
<1>5. Keeps(g, h) /\ h.used = u /\ h.ctxs = g.ctxs
  BY <1>3, Reused DEF h
<1>6. Good(h) /\ Depth(h) = Depth(g)
  BY <1>5, KeepsFields
<1>7. CASE n \in 1..Depth(g)
  <2>1. v \in SUBSET Regs
    <3>1. g.ctxs[n].vars \in SUBSET Regs
      BY <1>7, TopHolds
    <3> QED
      BY <1>3, <3>1 DEF u
  <2> HIDE DEF v
  <2>2. Keeps(h, j) /\ j.used = h.used
    BY <1>6, <1>7, <2>1, HeldSet
  <2> HIDE DEF j
  <2> QED
    BY <1>3, <1>4, <1>5, <2>2, KeepsOn DEF u
<1>8. CASE n \notin 1..Depth(g)
  <2>1. DOMAIN h.ctxs = 1..Depth(g) /\ h.ctxs \in Seq(Contexts) /\ h \in Generators
    BY <1>6, GoodFields
  <2>2. j = h
    <3>1. [h.ctxs EXCEPT ![n].vars = v] = h.ctxs
      <4> DEFINE s == h.ctxs
      <4>4. s \in Seq(Contexts) /\ DOMAIN s = 1..Depth(g)
        BY <2>1
      <4> HIDE DEF s
      <4>1. DOMAIN s = 1..Depth(g) /\ s = [i \in DOMAIN s |-> s[i]]
        BY <4>4
      <4>2. \A e : [s EXCEPT ![n] = e] = s
        BY <1>8, <4>1
      <4>3. [s EXCEPT ![n].vars = v] = [s EXCEPT ![n] = [s[n] EXCEPT !.vars = v]]
        OBVIOUS
      <4> QED
        BY <4>2, <4>3 DEF s
    <3>2. j = [h EXCEPT !.ctxs = [h.ctxs EXCEPT ![n].vars = v]]
      OBVIOUS
    <3> QED
      BY <2>1, <3>1, <3>2 DEF Generators
  <2> HIDE DEF j
  <2> QED
    BY <1>3, <1>4, <1>5, <2>2 DEF u
<1> QED
  BY <1>7, <1>8

-----------------------------------------------------------------------------
(* A new context, on the code of the function or on a new one.               *)

\* A context that can be pushed on those of g, with the code to be written.
Pushable(g, c, codes) ==
    /\ c \in Contexts /\ c.lists # << >>
    /\ codes \in Seq(Seq(Instructions)) /\ Len(g.codes) <= Len(codes)
    /\ \A k \in 1..Len(g.codes) : codes[k] = g.codes[k]
    /\ \A k \in 1..Len(codes) : k > Len(g.codes) => k = c.coder /\ codes[k] = << >>
    /\ c.coder \in 1..Len(codes) /\ Coder(g) <= c.coder
    /\ IF c.type = "FUNCTION" THEN Coder(g) < c.coder ELSE Coder(g) = c.coder
    /\ c.start \in 1..Len(codes[c.coder]) + 1

HasPushed(g, c, codes, h) ==
    h \in Generators /\ h.ctxs = Append(g.ctxs, c) /\ h.codes = codes /\ h.used = g.used

LEMMA Pushed ==
    ASSUME NEW g, Good(g), NEW c, NEW codes, Pushable(g, c, codes), NEW h, HasPushed(g, c, codes, h)
    PROVE  Opens(g, h) /\ Coder(h) = c.coder /\ h.ctxs[Depth(h)] = c /\ Top(h.ctxs) = c
           /\ \A i \in 1..Depth(g) : h.ctxs[i] = g.ctxs[i]
<1> DEFINE d == Depth(g)
           m == Len(g.codes)
           l == Len(codes)
<1> USE DEF HasPushed
<1>1. /\ g \in Generators /\ d \in Nat \ {0} /\ d = Len(g.ctxs) /\ m \in Nat /\ d \in 1..d
      /\ g.used <= Cardinality(Regs) /\ g.ctxs \in Seq(Contexts) /\ Coder(g) = g.ctxs[d].coder
      /\ Coder(g) \in 1..m /\ Scoped(g) /\ Coded(g)
  BY GoodFields DEF Good
<1>2. Len(h.ctxs) = d + 1 /\ Depth(h) = d + 1 /\ h.ctxs[d + 1] = c /\ \A i \in 1..d : h.ctxs[i] = g.ctxs[i]
  <2>1. c \in Contexts
    BY DEF Pushable
  <2> QED
    BY <1>1, <2>1 DEF Depth
<1>3. /\ \A i \in 1..d : g.ctxs[i].coder \in 1..m /\ g.ctxs[i].coder <= Coder(g)
                         /\ g.ctxs[i].lists # << >> /\ g.ctxs[i].start \in 1..Len(g.codes[g.ctxs[i].coder]) + 1
  <2> SUFFICES ASSUME NEW i \in 1..d
               PROVE  g.ctxs[i].coder \in 1..m /\ g.ctxs[i].coder <= Coder(g)
                      /\ g.ctxs[i].lists # << >> /\ g.ctxs[i].start \in 1..Len(g.codes[g.ctxs[i].coder]) + 1
    OBVIOUS
  <2>1. g.ctxs[i].coder \in 1..m /\ g.ctxs[i].lists # << >>
        /\ g.ctxs[i].start \in 1..Len(g.codes[g.ctxs[i].coder]) + 1
    BY <1>1 DEF Scoped
  <2>2. i < d \/ i = d
    <3> HIDE DEF d
    <3> QED
      BY <1>1
  <2>3. g.ctxs[i].coder <= Coder(g)
    BY <1>1, <2>1, <2>2 DEF Scoped
  <2> QED
    BY <2>1, <2>3
<1>4. l \in Nat /\ m <= l /\ c.coder \in 1..l /\ Coder(g) <= c.coder /\ c.lists # << >>
      /\ c.start \in 1..Len(codes[c.coder]) + 1 /\ (c.type = "FUNCTION" => Coder(g) < c.coder)
      /\ (c.type # "FUNCTION" => Coder(g) = c.coder)
  BY DEF Pushable
<1> HIDE DEF d, m, l
<1>5. Scoped(h)
  <2>1. Len(h.ctxs) >= 1 /\ h.ctxs[1].coder = 1
    BY <1>1, <1>2 DEF Scoped, d
  <2>2. ASSUME NEW i \in 1..d + 1
        PROVE  h.ctxs[i].lists # << >> /\ h.ctxs[i].coder \in 1..l
               /\ h.ctxs[i].start \in 1..Len(codes[h.ctxs[i].coder]) + 1
    <3>1. CASE i = d + 1
      BY <1>2, <1>4, <3>1
    <3>2. CASE i # d + 1
      <4>1. i \in 1..d
        BY <1>1, <3>2
      <4>2. g.ctxs[i].coder \in 1..m
        BY <1>3, <4>1
      <4>3. codes[g.ctxs[i].coder] = g.codes[g.ctxs[i].coder]
        BY <4>2 DEF Pushable, m
      <4>4. g.ctxs[i].coder \in 1..l
        BY <1>1, <1>4, <4>2
      <4> QED
        BY <1>2, <1>3, <4>1, <4>3, <4>4
    <3> QED
      BY <3>1, <3>2
  <2>3. ASSUME NEW i \in 1..d + 1, NEW j \in 1..d + 1, i < j
        PROVE  /\ h.ctxs[i].coder <= h.ctxs[j].coder
               /\ h.ctxs[j].type = "FUNCTION" => h.ctxs[i].coder < h.ctxs[j].coder
               /\ \/ h.ctxs[i].coder = h.ctxs[j].coder
                  \/ \E k \in i + 1..j : h.ctxs[k].type = "FUNCTION"
    <3>1. i \in 1..d
      BY <1>1, <2>3
    <3>2. CASE j # d + 1
      <4>1. j \in 1..d /\ \A k \in i + 1..j : k \in 1..d
        BY <1>1, <3>1, <3>2
      <4>2. /\ g.ctxs[i].coder <= g.ctxs[j].coder
            /\ g.ctxs[j].type = "FUNCTION" => g.ctxs[i].coder < g.ctxs[j].coder
            /\ \/ g.ctxs[i].coder = g.ctxs[j].coder
               \/ \E k \in i + 1..j : g.ctxs[k].type = "FUNCTION"
        BY <1>1, <2>3, <3>1, <4>1 DEF Scoped
      <4> QED
        BY <1>2, <3>1, <4>1, <4>2
    <3>3. CASE j = d + 1
      <4>1. h.ctxs[j] = c /\ h.ctxs[i] = g.ctxs[i] /\ g.ctxs[i].coder \in 1..m /\ g.ctxs[i].coder <= Coder(g)
        BY <1>2, <1>3, <3>1, <3>3
      <4>2. CASE c.type = "FUNCTION"
        <5>1. j \in i + 1..j
          BY <1>1, <3>1, <3>3
        <5> DEFINE a == g.ctxs[i].coder
                   b == Coder(g)
                   e == c.coder
        <5>4. a \in 1..m /\ b \in 1..m /\ e \in 1..l /\ a <= b /\ b < e
          BY <1>1, <1>4, <4>1, <4>2
        <5>5. m \in Nat /\ l \in Nat
          BY <1>1, <1>4
        <5> HIDE DEF a, b, e
        <5>2. a \in Nat /\ b \in Nat /\ e \in Nat /\ a <= b /\ b < e
          BY <5>4, <5>5
        <5>3. a <= e /\ a < e
          BY <5>2
        <5> QED
          BY <4>1, <4>2, <5>1, <5>3 DEF a, e
      <4>3. CASE c.type # "FUNCTION"
        <5>1. c.coder = g.ctxs[d].coder
          BY <1>1, <1>4, <4>3
        <5>2. CASE i = d
          BY <1>1, <1>4, <4>1, <4>3, <5>1, <5>2
        <5>3. CASE i # d
          <6>1. i < d /\ d \in 1..d /\ i \in 1..d
            BY <1>1, <3>1, <5>3
          <6>2. \/ g.ctxs[i].coder = g.ctxs[d].coder
                \/ \E k \in i + 1..d : g.ctxs[k].type = "FUNCTION"
            BY <1>1, <6>1 DEF Scoped, d
          <6>3. \A k \in i + 1..d : k \in i + 1..j /\ h.ctxs[k] = g.ctxs[k]
            BY <1>1, <1>2, <3>1, <3>3
          <6> QED
            BY <1>1, <1>4, <4>1, <4>3, <5>1, <6>2, <6>3
        <5> QED
          BY <5>2, <5>3
      <4> QED
        BY <4>2, <4>3
    <3> QED
      BY <3>2, <3>3
  <2> QED
    BY <1>2, <2>1, <2>2, <2>3 DEF Scoped, l
<1>6. Coded(h)
  <2> SUFFICES ASSUME NEW k \in 1..l
               PROVE  Opened(codes[k], l)
                      /\ (Finished(codes[k], l) \/ \E i \in 1..d + 1 : h.ctxs[i].coder = k)
    BY <1>2 DEF Coded, l
  <2>1. CASE k > m
    <3>1. k = c.coder /\ codes[k] = << >>
      BY <2>1 DEF Pushable, m, l
    <3>2. Opened(codes[k], l)
      BY <3>1 DEF Opened
    <3>3. d + 1 \in 1..d + 1
      BY <1>1
    <3> QED
      BY <1>2, <3>1, <3>2, <3>3
  <2>2. CASE ~(k > m)
    <3>1. k \in 1..m
      BY <1>1, <1>4, <2>2
    <3>2. codes[k] = g.codes[k]
      BY <3>1 DEF Pushable, m
    <3> DEFINE code == g.codes[k]
               n == Len(code)
    <3>3. code \in Seq(Instructions) /\ n \in Nat
      BY <3>1, GoodFields DEF m
    <3>4. Opened(code, m) /\ (Finished(code, m) \/ \E i \in 1..d : g.ctxs[i].coder = k)
      BY <1>1, <3>1 DEF Coded, m, d, Depth
    <3> HIDE DEF code
    <3>5. \A p \in 1..n : Lands(code[p], n, m) => Lands(code[p], n, l)
      BY <1>1, <1>4, <3>3, Reached
    <3>6. n + 1 \in Nat
      BY <3>3
    <3>7. \A p \in 1..n : Lands(code[p], n + 1, m) => Lands(code[p], n + 1, l)
      BY <1>1, <1>4, <3>6, Reached
    <3>8. Opened(code, l)
      BY <3>4, <3>7 DEF Opened
    <3>9. Finished(code, m) => Finished(code, l)
      BY <3>5 DEF Finished
    <3>10. (\E i \in 1..d : g.ctxs[i].coder = k) => \E i \in 1..d + 1 : h.ctxs[i].coder = k
      <4> SUFFICES ASSUME NEW i \in 1..d, g.ctxs[i].coder = k PROVE \E j \in 1..d + 1 : h.ctxs[j].coder = k
        OBVIOUS
      <4>1. i \in 1..d + 1 /\ h.ctxs[i] = g.ctxs[i]
        BY <1>1, <1>2
      <4> QED
        BY <4>1
    <3> QED
      BY <3>2, <3>4, <3>8, <3>9, <3>10 DEF code
  <2> QED
    BY <2>1, <2>2
<1>7. Good(h)
  BY <1>1, <1>5, <1>6 DEF Good
<1>8. \A k \in 1..m : Len(g.codes[k]) <= Len(codes[k])
  <2> SUFFICES ASSUME NEW k \in 1..m PROVE Len(g.codes[k]) <= Len(codes[k])
    OBVIOUS
  <2>1. codes[k] = g.codes[k] /\ Len(g.codes[k]) \in Nat
    BY GoodFields DEF Pushable, m
  <2> QED
    BY <2>1
<1>9. Opens(g, h)
  <2>1. \A i \in 1..d : SameScope(g.ctxs[i], h.ctxs[i])
    BY <1>2, ScopesSame
  <2>2. d \in Nat /\ d <= d /\ d <= Depth(h) /\ m <= Len(h.codes)
    BY <1>1, <1>2, <1>4 DEF l
  <2> QED
    BY <1>2, <1>7, <1>8, <2>1, <2>2 DEF Opens, Leads, d, m, l
<1>10. Coder(h) = c.coder
  BY <1>2 DEF Coder, Top
<1> QED
  BY <1>2, <1>9, <1>10 DEF d, Top

-----------------------------------------------------------------------------
(* eel_context_push() and the bodies of try.                                 *)

LEMMA PushIs ==
    ASSUME NEW g, Good(g), NEW type \in {"BODY", "BLOCK"}, NEW flags \in SUBSET Flags
    PROVE  LET h == Push(g, type, flags)
           IN  /\ Opens(g, h) /\ h.used = g.used /\ Coder(h) = Coder(g) /\ Target(h) = Target(g)
               /\ Top(h.ctxs).type = type /\ h.codes = g.codes
<1> DEFINE c == Context(type, flags, Coder(g), Target(g))
           cs == Append(g.ctxs, c)
           h == [g EXCEPT !.ctxs = cs]
<1>1. /\ g \in Generators /\ Coder(g) \in 1..Len(g.codes) /\ Coder(g) \in Nat /\ Target(g) \in Nat \ {0}
      /\ Target(g) = Len(g.codes[Coder(g)]) + 1 /\ g.ctxs \in Seq(Contexts)
      /\ g.codes \in Seq(Seq(Instructions)) /\ Len(g.codes) \in Nat
  BY GoodFields
<1>2. /\ c \in Contexts /\ c.lists # << >> /\ c.type = type /\ c.coder = Coder(g) /\ c.start = Target(g)
  <2>1. type \in ContextTypes
    BY DEF ContextTypes
  <2> QED
    BY <1>1, <2>1, NewContext
<1>3. Push(g, type, flags) = h
  BY DEF Push
<1> HIDE DEF c
<1>4. Pushable(g, c, g.codes)
  <2>1. Target(g) \in 1..Target(g) /\ Len(g.codes) <= Len(g.codes) /\ Coder(g) <= Coder(g)
    BY <1>1
  <2>2. \A k \in 1..Len(g.codes) : ~(k > Len(g.codes))
    BY <1>1
  <2> QED
    BY <1>1, <1>2, <2>1, <2>2 DEF Pushable
<1>5. cs \in Seq(Contexts)
  BY <1>1, <1>2
<1>6. h \in Generators /\ h.ctxs = cs /\ h.codes = g.codes /\ h.used = g.used
  BY <1>1, <1>5, GenWith
<1> HIDE DEF h
<1>7. Opens(g, h) /\ Coder(h) = c.coder /\ Top(h.ctxs) = c
  <2>1. HasPushed(g, c, g.codes, h)
    BY <1>6 DEF HasPushed
  <2> DEFINE codes == g.codes
  <2>2. Pushable(g, c, codes) /\ HasPushed(g, c, codes, h)
    BY <1>4, <2>1
  <2> HIDE DEF codes, cs
  <2> QED
    BY <2>2, Pushed
<1>8. Target(h) = Target(g)
  BY <1>2, <1>6, <1>7 DEF Target
<1> QED
  BY <1>2, <1>3, <1>6, <1>7, <1>8

LEMMA PushXblockIs ==
    ASSUME NEW g, Good(g), NEW flags \in SUBSET Flags
    PROVE  LET h == PushXblock(g, flags)
           IN  /\ Opens(g, h) /\ h.used = g.used /\ Coder(h) = Len(h.codes) /\ Len(h.codes) = Len(g.codes) + 1
               /\ Top(h.ctxs).type = "FUNCTION"
<1> DEFINE m == Len(g.codes)
           c == Context("FUNCTION", flags, m + 1, 1)
           cs == Append(g.ctxs, c)
           none == << >>
           codes == Append(g.codes, none)
           h == [[g EXCEPT !.codes = codes] EXCEPT !.ctxs = cs]
<1>1. /\ g \in Generators /\ Coder(g) \in 1..Len(g.codes) /\ Coder(g) \in Nat
      /\ g.ctxs \in Seq(Contexts) /\ g.codes \in Seq(Seq(Instructions)) /\ m \in Nat
  BY GoodFields
<1>2. /\ c \in Contexts /\ c.lists # << >> /\ c.type = "FUNCTION" /\ c.coder = m + 1 /\ c.start = 1
  <2>1. "FUNCTION" \in ContextTypes /\ m + 1 \in Nat /\ 1 \in Nat
    BY <1>1 DEF ContextTypes
  <2> DEFINE k == m + 1
  <2> HIDE DEF k, m
  <2> QED
    BY <2>1, NewContext DEF k
<1>3. PushXblock(g, flags) = h
  BY <1>1 DEF PushXblock, Generators
<1>4. codes \in Seq(Seq(Instructions)) /\ Len(codes) = m + 1 /\ codes[m + 1] = << >>
      /\ \A k \in 1..m : codes[k] = g.codes[k]
  <2>1. none \in Seq(Instructions) /\ none = << >>
    OBVIOUS
  <2> HIDE DEF none
  <2> QED
    BY <1>1, <2>1
<1> HIDE DEF codes, none, c, m
<1>5. Pushable(g, c, codes)
  <2>1. /\ Coder(g) < m + 1 /\ m <= m + 1 /\ m + 1 \in 1..m + 1 /\ Coder(g) <= m + 1
        /\ \A k \in 1..m + 1 : k > m => k = m + 1
    BY <1>1 DEF m
  <2>2. Len(codes[m + 1]) = 0
    BY <1>4
  <2>3. 1 \in 1..Len(codes[m + 1]) + 1
    BY <2>2
  <2> QED
    BY <1>2, <1>4, <2>1, <2>3 DEF Pushable, m
<1>6. cs \in Seq(Contexts)
  BY <1>1, <1>2
<1>7. h \in Generators /\ h.ctxs = cs /\ h.codes = codes /\ h.used = g.used
  <2> DEFINE e == [g EXCEPT !.codes = codes]
  <2>1. e \in Generators /\ e.codes = codes /\ e.used = g.used
    BY <1>1, <1>4, GenWith
  <2> HIDE DEF e, cs
  <2>2. LET f == [e EXCEPT !.ctxs = cs] IN f \in Generators /\ f.ctxs = cs /\ f.codes = e.codes /\ f.used = e.used
    BY <1>6, <2>1, GenWith
  <2> QED
    BY <2>1, <2>2 DEF e
<1> HIDE DEF h
<1>8. Opens(g, h) /\ Coder(h) = c.coder /\ Top(h.ctxs) = c
  <2>1. HasPushed(g, c, codes, h)
    BY <1>7 DEF HasPushed
  <2> HIDE DEF cs
  <2> QED
    BY <1>5, <2>1, Pushed
<1> QED
  BY <1>2, <1>3, <1>4, <1>7, <1>8 DEF m

\* What a context leaves to its parent.
LEMMA MovedAre ==
    ASSUME NEW c \in Contexts, c.lists # << >>, NEW p \in Contexts, p.lists # << >>
    PROVE  MovedUp(c) \in EventLists /\ MovedUpXblock(c) \in EventLists /\ MergedUp(c, p) \in EventLists
<1> DEFINE e == Own(c)
           f == Own(p)
           init == [r \in Regs |-> Greatest(f.init[r], Escaping(c)[r])]
<1>1. e \in EventLists /\ f \in EventLists
  BY AContext, OwnAndWaiting
<1>2. Uninitialized \in [Regs -> States]
  BY StatesAre DEF Uninitialized
<1> HIDE DEF e, f
<1>3. /\ e.init \in [Regs -> States] /\ e.ret \in States /\ e.result \in States /\ e.breakto \in Nat /\ e.maybe \in Nat
      /\ f.init \in [Regs -> States] /\ f.ret \in States /\ f.result \in States
  BY <1>1, EventsAre
<1>4. Escaping(c) \in [Regs -> States]
  BY <1>2, <1>3 DEF Escaping, e
<1>5. MovedUp(c) \in EventLists
  <2>1. \A n \in Nat : OneLess(n) \in Nat
    BY DEF OneLess, Greatest
  <2> DEFINE i == Escaping(c)
             b == OneLess(e.breakto)
             m == OneLess(e.maybe)
  <2>2. i \in [Regs -> States] /\ b \in Nat /\ m \in Nat
    BY <1>3, <1>4, <2>1
  <2>3. MovedUp(c) = [e EXCEPT !.init = i, !.target = NO, !.breakto = b, !.maybe = m]
    BY <1>1 DEF MovedUp, e, EventLists
  <2> HIDE DEF i, b, m
  <2> QED
    BY <1>1, <2>2, <2>3, StatesAre DEF EventLists
<1>6. MovedUpXblock(c) \in EventLists
  <2>1. MovedUpXblock(c) = [e EXCEPT !.init = Uninitialized, !.target = NO]
    BY DEF MovedUpXblock, e
  <2> QED
    BY <1>1, <1>2, <2>1, StatesAre DEF EventLists
<1>7. MergedUp(c, p) \in EventLists
  <2> DEFINE ret == Greatest(f.ret, e.ret)
             result == Greatest(f.result, e.result)
  <2>1. init \in [Regs -> States] /\ ret \in States /\ result \in States
    BY <1>3, <1>4, GreatestIs
  <2>2. MergedUp(c, p) = [f EXCEPT !.init = init, !.ret = ret, !.result = result]
    BY <1>1 DEF MergedUp, e, f, EventLists
  <2> HIDE DEF init, ret, result
  <2> QED
    BY <1>1, <2>1, <2>2 DEF EventLists
<1> QED
  BY <1>5, <1>6, <1>7

-----------------------------------------------------------------------------
(* eel_context_pop() and the end of such a body.                             *)

\* The generator with the context on top gone.
HasPopped(g, cs, h) ==
    /\ h \in Generators /\ h.ctxs = cs /\ h.codes = g.codes /\ h.used = g.used
    /\ Chain(cs) /\ Depth(g) \in Nat /\ Len(cs) = Depth(g) - 1
    /\ \A i \in 1..Len(cs) : SameScope(g.ctxs[i], cs[i])

LEMMA Popped ==
    ASSUME NEW g, Good(g), NEW cs, NEW h, HasPopped(g, cs, h),
           Top(g.ctxs).type # "FUNCTION" \/ Finished(g.codes[Coder(g)], Len(g.codes))
    PROVE  Closes(g, h)
<1> DEFINE d == Depth(g)
           n == Len(cs)
           m == Len(g.codes)
<1>1. /\ d = Len(g.ctxs) /\ m \in Nat /\ d \in 1..d /\ d \in Nat
      /\ g.used <= Cardinality(Regs) /\ Coder(g) = g.ctxs[d].coder
      /\ Coder(g) \in 1..m /\ Scoped(g) /\ Coded(g) /\ \A k \in 1..m : Len(g.codes[k]) \in Nat
  BY GoodFields DEF Good
<1>2. /\ h \in Generators /\ h.ctxs = cs /\ h.codes = g.codes /\ h.used = g.used /\ n = d - 1
      /\ n \in Nat \ {0} /\ \A i \in 1..n : cs[i].lists # << >>
  BY DEF HasPopped, Chain
<1>3. \A i \in 1..n : cs[i].type = g.ctxs[i].type /\ cs[i].coder = g.ctxs[i].coder /\ cs[i].start = g.ctxs[i].start
  BY DEF HasPopped, SameScope
<1>4. Depth(h) = n /\ Top(g.ctxs) = g.ctxs[d]
  BY <1>1, <1>2 DEF Depth, Top
<1>5. \A i \in 1..n : SameScope(g.ctxs[i], h.ctxs[i])
  BY <1>2 DEF HasPopped
<1> HIDE DEF d, n, m
<1>12. n \in Nat \ {0} /\ n = d - 1 /\ d \in Nat
  BY <1>1, <1>2
<1>13. n \in 1..n /\ 1 \in 1..n /\ n >= 1 /\ n \in 1..d /\ n < d /\ \A i \in 1..d : i \notin 1..n => i = d
  BY <1>12
<1>6. \A i \in 1..n : i \in 1..d
  BY <1>12
<1>7. Scoped(h)
  <2>1. Len(h.ctxs) >= 1 /\ h.ctxs[1].coder = 1
    <3>1. g.ctxs[1].coder = 1
      BY <1>1 DEF Scoped
    <3> QED
      BY <1>2, <1>3, <1>13, <3>1 DEF n
  <2>2. ASSUME NEW i \in 1..n
        PROVE  h.ctxs[i].lists # << >> /\ h.ctxs[i].coder \in 1..m
               /\ h.ctxs[i].start \in 1..Len(g.codes[h.ctxs[i].coder]) + 1
    BY <1>1, <1>2, <1>3, <1>6 DEF Scoped, d, m
  <2>3. ASSUME NEW i \in 1..n, NEW j \in 1..n, i < j
        PROVE  /\ h.ctxs[i].coder <= h.ctxs[j].coder
               /\ h.ctxs[j].type = "FUNCTION" => h.ctxs[i].coder < h.ctxs[j].coder
               /\ \/ h.ctxs[i].coder = h.ctxs[j].coder
                  \/ \E k \in i + 1..j : h.ctxs[k].type = "FUNCTION"
    <3>1. i \in 1..d /\ j \in 1..d
      BY <1>6
    <3>2. /\ g.ctxs[i].coder <= g.ctxs[j].coder
          /\ g.ctxs[j].type = "FUNCTION" => g.ctxs[i].coder < g.ctxs[j].coder
          /\ \/ g.ctxs[i].coder = g.ctxs[j].coder
             \/ \E k \in i + 1..j : g.ctxs[k].type = "FUNCTION"
      BY <1>1, <2>3, <3>1 DEF Scoped
    <3>3. \A k \in i + 1..j : k \in 1..n
      BY <1>2
    <3> QED
      BY <1>2, <1>3, <3>2, <3>3
  <2> QED
    BY <1>2, <2>1, <2>2, <2>3 DEF Scoped, n, m
<1>8. Coded(h)
  <2> SUFFICES ASSUME NEW k \in 1..m
               PROVE  Opened(g.codes[k], m)
                      /\ (Finished(g.codes[k], m) \/ \E i \in 1..n : cs[i].coder = k)
    BY <1>2 DEF Coded, m, n
  <2>1. Opened(g.codes[k], m) /\ (Finished(g.codes[k], m) \/ \E i \in 1..d : g.ctxs[i].coder = k)
    BY <1>1 DEF Coded, m
  <2>2. ASSUME NEW i \in 1..d, g.ctxs[i].coder = k
        PROVE  Finished(g.codes[k], m) \/ \E j \in 1..n : cs[j].coder = k
    <3>1. CASE i \in 1..n
      BY <1>3, <2>2, <3>1
    <3>2. CASE i \notin 1..n
      <4>1. i = d /\ n \in 1..d /\ n < d
        BY <1>13, <3>2
      <4>2. k = Coder(g)
        BY <1>1, <2>2, <4>1
      <4>3. CASE Top(g.ctxs).type = "FUNCTION"
        BY <4>2, <4>3 DEF m
      <4>4. CASE Top(g.ctxs).type # "FUNCTION"
        <5>1. \A l \in n + 1..d : l = d
          BY <1>1, <1>2
        <5>2. \/ g.ctxs[n].coder = g.ctxs[d].coder
              \/ \E l \in n + 1..d : g.ctxs[l].type = "FUNCTION"
          BY <1>1, <4>1 DEF Scoped
        <5>3. g.ctxs[n].coder = k
          BY <1>1, <1>4, <4>2, <4>4, <5>1, <5>2
        <5>4. n \in 1..n
          BY <1>13
        <5> QED
          BY <1>3, <5>3, <5>4
      <4> QED
        BY <4>3, <4>4
    <3> QED
      BY <3>1, <3>2
  <2> QED
    BY <2>1, <2>2
<1>9. Good(h)
  BY <1>1, <1>2, <1>7, <1>8 DEF Good
<1>10. n \in Nat /\ n <= d /\ n <= n /\ m <= m
  BY <1>1, <1>2
<1>11. \A k \in 1..m : Len(g.codes[k]) <= Len(g.codes[k])
  <2> SUFFICES ASSUME NEW k \in 1..m PROVE Len(g.codes[k]) <= Len(g.codes[k])
    OBVIOUS
  <2> DEFINE l == Len(g.codes[k])
  <2>1. l \in Nat
    BY <1>1
  <2> HIDE DEF l
  <2>2. l <= l
    BY <2>1
  <2> QED
    BY <2>2 DEF l
<1> QED
  BY <1>2, <1>4, <1>5, <1>9, <1>10, <1>11 DEF Closes, Leads, d, m

LEMMA PopIs ==
    ASSUME NEW g, Good(g), Depth(g) >= 2,
           Top(g.ctxs).type # "FUNCTION" \/ Finished(g.codes[Coder(g)], Len(g.codes))
    PROVE  LET h == Pop(g) IN Closes(g, h) /\ h.used = g.used /\ h.codes = g.codes
<1> DEFINE c == Top(g.ctxs)
           n == Depth(g) - 1
           rest == SubSeq(g.ctxs, 1, n)
           p == rest[n]
           x == [rest EXCEPT ![n].lists = Append(@, MovedUpXblock(c))]
           y == [rest EXCEPT ![n].lists = Append(@, MovedUp(c))]
           z == [rest EXCEPT ![n].lists[1] = MergedUp(c, p)]
           cs == IF c.type = "FUNCTION" THEN x ELSE IF "CONDITIONAL" \in c.flags THEN y ELSE z
           h == [g EXCEPT !.ctxs = cs]
<1>1. Pop(g) = h
  BY DEF Pop
<1>2. /\ Chain(g.ctxs) /\ Depth(g) \in Nat /\ Depth(g) = Len(g.ctxs) /\ g.ctxs \in Seq(Contexts) /\ g \in Generators
      /\ Depth(g) \in 1..Depth(g)
  BY GoodFields
<1>3. n \in Nat \ {0} /\ n <= Depth(g) /\ n \in 1..n /\ \A i \in 1..n : i \in 1..Depth(g)
  <2> DEFINE d == Depth(g)
  <2>1. d \in Nat /\ d >= 2
    BY <1>2
  <2> HIDE DEF d
  <2>2. d - 1 \in Nat \ {0} /\ d - 1 <= d /\ d - 1 \in 1..d - 1 /\ \A i \in 1..d - 1 : i \in 1..d
    BY <2>1
  <2> QED
    BY <2>2 DEF d
<1> HIDE DEF n
<1>4. rest \in Seq(Contexts) /\ Len(rest) = n /\ \A i \in 1..n : rest[i] = g.ctxs[i]
  BY <1>2, <1>3
<1> HIDE DEF rest
<1>5. Chain(rest)
  BY <1>2, <1>3, <1>4 DEF Chain
<1>6. \A i \in 1..n : SameScope(g.ctxs[i], rest[i])
  BY <1>4, ScopesSame
<1>7. c \in Contexts /\ c.lists # << >>
  BY <1>2, ChainFields DEF Top
<1>8. p \in Contexts /\ p.lists # << >> /\ p.lists \in Seq(EventLists) /\ n \in 1..Len(rest)
  BY <1>3, <1>4, <1>5, ChainFields
<1> HIDE DEF c
<1>9. MovedUp(c) \in EventLists /\ MovedUpXblock(c) \in EventLists /\ MergedUp(c, p) \in EventLists
  BY <1>7, <1>8, MovedAre
<1>10. \A e \in EventLists :
         LET ds == [rest EXCEPT ![n].lists = Append(@, e)] IN Chain(ds) /\ SameScopes(rest, ds)
  <2> SUFFICES ASSUME NEW e \in EventLists
               PROVE  LET ds == [rest EXCEPT ![n].lists = Append(@, e)] IN Chain(ds) /\ SameScopes(rest, ds)
    OBVIOUS
  <2> DEFINE lists == Append(p.lists, e)
             q == [p EXCEPT !.lists = lists]
  <2>1. lists \in Seq(EventLists) /\ lists # << >>
    <3> DEFINE s == p.lists
    <3>1. s \in Seq(EventLists)
      BY <1>8
    <3> HIDE DEF s
    <3>3. Append(s, e) \in Seq(EventLists) /\ Len(Append(s, e)) = Len(s) + 1 /\ Len(s) \in Nat
      BY <3>1
    <3>4. Len(Append(s, e)) # 0
      BY <3>3
    <3>2. Append(s, e) \in Seq(EventLists) /\ Append(s, e) # << >>
      BY <3>3, <3>4
    <3> QED
      BY <3>2 DEF s
  <2>2. [rest EXCEPT ![n].lists = Append(@, e)] = [rest EXCEPT ![n] = q]
    OBVIOUS
  <2> HIDE DEF lists
  <2>3. q \in Contexts /\ SameScope(p, q) /\ q.lists # << >>
    BY <1>8, <2>1, ListsReplaced
  <2> HIDE DEF q
  <2> QED
    BY <1>5, <1>8, <2>2, <2>3, OneChanged
<1>11. Chain(z) /\ SameScopes(rest, z)
  BY <1>5, <1>8, <1>9, OwnChanged
<1>12. Chain(cs) /\ SameScopes(rest, cs)
  <2>1. Chain(x) /\ SameScopes(rest, x) /\ Chain(y) /\ SameScopes(rest, y)
    BY <1>9, <1>10
  <2> HIDE DEF x, y, z
  <2> QED
    BY <2>1, <1>11
<1> HIDE DEF cs
<1>13. h \in Generators /\ h.ctxs = cs /\ h.codes = g.codes /\ h.used = g.used
  BY <1>2, <1>12, GenWith DEF Chain
<1>14. Len(cs) = n /\ \A i \in 1..n : SameScope(g.ctxs[i], cs[i])
  <2>1. Len(cs) = n /\ \A i \in 1..n : SameScope(rest[i], cs[i])
    BY <1>4, <1>12 DEF SameScopes
  <2> QED
    BY <1>6, <2>1 DEF SameScope
<1> HIDE DEF h
<1>15. HasPopped(g, cs, h)
  BY <1>2, <1>12, <1>13, <1>14 DEF HasPopped, n
<1>16. Closes(g, h)
  BY <1>15, Popped
<1> QED
  BY <1>1, <1>13, <1>16

\* A try or except block ends.
LEMMA EndXblockIs ==
    ASSUME NEW g, Good(g), Depth(g) >= 2
    PROVE  LET h == EndXblock(g) IN Closes(g, h) /\ h.used = g.used /\ Len(h.codes) = Len(g.codes)
<1> DEFINE c == Code(g, "end", 0)
           h == Pop(c)
<1>1. Codable(g, "end", 0)
  <2>1. "end" \in Ops /\ 0 \in Nat
    BY DEF Ops
  <2> QED
    BY <2>1, OperandsAre
<1>2. /\ Keeps(g, c) /\ c.used = g.used /\ Coder(c) = Coder(g) /\ Len(c.codes) = Len(g.codes)
      /\ Finished(c.codes[Coder(g)], Len(c.codes))
  BY <1>1, CodeIs
<1>3. EndXblock(g) = h
  BY DEF EndXblock
<1> HIDE DEF c
<1>4. Good(c) /\ Depth(c) >= 2
  BY <1>2, KeepsFields
<1>5. Closes(c, h) /\ h.used = c.used /\ h.codes = c.codes
  BY <1>2, <1>4, PopIs
<1> HIDE DEF h
<1> QED
  BY <1>2, <1>3, <1>5, KeepsOn

-----------------------------------------------------------------------------
(* The rules in progress own the contexts between them.                      *)

LEMMA OwnedIs == \A f \in Frames : Owned(f) \in {0, 1, 2} /\ Owned(f) \in Nat
BY DEF Owned

\* What a rule in progress relies on stays.
LEMMA FitsStill ==
    ASSUME NEW g, NEW h, NEW m, Good(g), Leads(g, h, m), NEW f \in Frames,
           NEW a \in Nat \ {0}, NEW b \in Nat, b <= m, FrameFits(f, a, b, g)
    PROVE  FrameFits(f, a, b, h)
<1>1. /\ Good(h) /\ m \in Nat /\ m <= Depth(g) /\ m <= Depth(h) /\ Len(g.codes) <= Len(h.codes)
      /\ \A k \in 1..Len(g.codes) : Len(g.codes[k]) <= Len(h.codes[k])
      /\ \A i \in 1..m : g.ctxs[i].type = h.ctxs[i].type /\ g.ctxs[i].coder = h.ctxs[i].coder
  BY DEF Leads, SameScope
<1>2. b = a + Owned(f) /\ Owned(f) \in Nat
  BY OwnedIs DEF FrameFits
<1>3. b \in 1..m /\ \A i \in a + 1..b : i \in 1..m
  <2> DEFINE o == Owned(f)
  <2>1. b = a + o /\ o \in Nat /\ m \in Nat
    BY <1>1, <1>2
  <2> HIDE DEF o
  <2> QED
    BY <2>1
<1>4. \A i \in a + 1..b : h.ctxs[i].type = "FUNCTION" <=> f.rule \in {"try", "except"}
  BY <1>1, <1>3 DEF FrameFits
<1>5. /\ Depth(g) \in Nat /\ Len(g.codes) \in Nat /\ Len(h.codes) \in Nat /\ Scoped(g) /\ Depth(g) = Len(g.ctxs)
      /\ \A k \in 1..Len(g.codes) : Len(g.codes[k]) \in Nat
      /\ \A k \in 1..Len(h.codes) : Len(h.codes[k]) \in Nat
  BY <1>1, GoodFields DEF Good
<1>6. ASSUME f.rule \in {"while", "do", "for"}
      PROVE  f.start \in 1..Len(h.codes[h.ctxs[b].coder]) + 1
  <2> DEFINE k == g.ctxs[b].coder
             x == f.start
             p == Len(g.codes[k])
             q == Len(h.codes[k])
  <2>1. b \in 1..Depth(g)
    BY <1>1, <1>3, <1>5
  <2>2. k \in 1..Len(g.codes) /\ k = h.ctxs[b].coder
    BY <1>1, <1>3, <1>5, <2>1 DEF Scoped
  <2>3. k \in 1..Len(h.codes)
    BY <1>1, <1>5, <2>2
  <2>4. x \in 1..p + 1
    BY <1>6 DEF FrameFits
  <2>5. p <= q /\ p \in Nat /\ q \in Nat
    BY <1>1, <1>5, <2>2, <2>3
  <2> HIDE DEF x, p, q
  <2>6. x \in 1..q + 1
    BY <2>4, <2>5
  <2> QED
    BY <2>2, <2>6 DEF x, q
<1>7. f.rule = "except" => f.jump \in 1..Len(h.codes)
  BY <1>1, <1>5 DEF FrameFits
<1> QED
  BY <1>2, <1>4, <1>6, <1>7 DEF FrameFits

LEMMA DepthsAre ==
    ASSUME NEW fs \in Seq(Frames), NEW d, NEW n, NEW g, IsDepth(d, fs, n, g)
    PROVE  /\ Len(fs) \in Nat /\ n \in Nat \ {0} /\ n = d[Len(fs)]
           /\ \A k \in 0..Len(fs) : d[k] \in Nat \ {0} /\ d[k] <= n
           /\ \A k \in 1..Len(fs) : fs[k] \in Frames /\ k - 1 \in 0..Len(fs) /\ k \in 0..Len(fs)
<1> DEFINE l == Len(fs)
<1>1. l \in Nat /\ \A k \in 1..l : fs[k] \in Frames
  OBVIOUS
<1>2. d \in [0..l -> Nat] /\ d[0] = 1 /\ d[l] = n /\ \A j, k \in 0..l : j <= k => d[j] <= d[k]
  BY DEF IsDepth
<1> HIDE DEF l
<1>3. 0 \in 0..l /\ l \in 0..l /\ \A k \in 0..l : 0 <= k /\ k <= l
  BY <1>1
<1>4. \A k \in 0..l : d[k] \in Nat /\ d[0] <= d[k] /\ d[k] <= d[l]
  BY <1>2, <1>3
<1>5. \A k \in 0..l : d[k] \in Nat \ {0} /\ d[k] <= n
  BY <1>2, <1>4
<1>6. \A k \in 1..l : k - 1 \in 0..l /\ k \in 0..l
  BY <1>1
<1> QED
  BY <1>1, <1>2, <1>3, <1>5, <1>6 DEF l

LEMMA NestsStill ==
    ASSUME NEW g, NEW h, NEW m, Good(g), Leads(g, h, m), NEW fs, NEW n, Nests(fs, n, g), n <= m
    PROVE  Nests(fs, n, h)
<1>1. fs \in Seq(Frames)
  BY DEF Nests
<1>2. PICK d : IsDepth(d, fs, n, g)
  BY DEF Nests
<1>3. /\ n \in Nat \ {0}
      /\ \A k \in 0..Len(fs) : d[k] \in Nat \ {0} /\ d[k] <= n
      /\ \A k \in 1..Len(fs) : fs[k] \in Frames /\ k - 1 \in 0..Len(fs) /\ k \in 0..Len(fs)
  BY <1>1, <1>2, DepthsAre
<1>4. ASSUME NEW k \in 1..Len(fs)
      PROVE  FrameFits(fs[k], d[k - 1], d[k], h)
  <2>1. fs[k] \in Frames /\ d[k - 1] \in Nat \ {0} /\ d[k] \in Nat /\ d[k] <= n
    BY <1>3
  <2>2. m \in Nat
    BY DEF Leads
  <2>3. d[k] <= m
    <3> DEFINE e == d[k]
    <3>1. e \in Nat /\ e <= n /\ n \in Nat
      BY <2>1, <1>3
    <3> HIDE DEF e
    <3>2. e <= m
      BY <3>1, <2>2
    <3> QED
      BY <3>2 DEF e
  <2>4. FrameFits(fs[k], d[k - 1], d[k], g)
    BY <1>2 DEF IsDepth
  <2> DEFINE a == d[k - 1]
             b == d[k]
             f == fs[k]
  <2>5. f \in Frames /\ a \in Nat \ {0} /\ b \in Nat /\ b <= m /\ FrameFits(f, a, b, g)
    BY <2>1, <2>3, <2>4
  <2> HIDE DEF a, b, f
  <2>6. FrameFits(f, a, b, h)
    BY <2>5, FitsStill
  <2> QED
    BY <2>6 DEF a, b, f
<1>5. IsDepth(d, fs, n, h)
  BY <1>2, <1>4 DEF IsDepth
<1> QED
  BY <1>1, <1>5 DEF Nests

\* The innermost rule, and those around it.
LEMMA Innermost ==
    ASSUME NEW g, NEW fs, fs # << >>, NEW n, Nests(fs, n, g)
    PROVE  LET f == Top(fs)
               a == n - Owned(f)
           IN  /\ f \in Frames /\ n \in Nat /\ a \in Nat \ {0} /\ FrameFits(f, a, n, g)
               /\ Nests(Front(fs), a, g)
<1> DEFINE l == Len(fs)
           f == fs[l]
           rest == SubSeq(fs, 1, l - 1)
<1>1. fs \in Seq(Frames)
  BY DEF Nests
<1>2. PICK d : IsDepth(d, fs, n, g)
  BY DEF Nests
<1>3. /\ l \in Nat /\ n \in Nat \ {0} /\ n = d[l]
      /\ \A k \in 0..l : d[k] \in Nat \ {0} /\ d[k] <= n
      /\ \A k \in 1..l : fs[k] \in Frames /\ k - 1 \in 0..l /\ k \in 0..l
  BY <1>1, <1>2, DepthsAre
<1>4. l # 0
  BY <1>1
<1>5. l \in 1..l /\ l - 1 \in Nat /\ l - 1 <= l
  <2> HIDE DEF l
  <2> QED
    BY <1>3, <1>4
<1>6. rest \in Seq(Frames) /\ Len(rest) = l - 1 /\ \A k \in 1..l - 1 : rest[k] = fs[k]
  <2> DEFINE m == l - 1
  <2>1. m \in Nat /\ m <= Len(fs)
    BY <1>5
  <2> HIDE DEF m, l
  <2>2. LET s == SubSeq(fs, 1, m) IN s \in Seq(Frames) /\ Len(s) = m /\ \A k \in 1..m : s[k] = fs[k]
    BY <1>1, <2>1
  <2> QED
    BY <2>2 DEF m
<1>7. FrameFits(f, d[l - 1], n, g) /\ f \in Frames
  BY <1>2, <1>3, <1>5 DEF IsDepth
<1> DEFINE a == d[l - 1]
<1>8. a \in Nat \ {0} /\ n = a + Owned(f) /\ Owned(f) \in Nat
  BY <1>3, <1>5, <1>7, OwnedIs DEF FrameFits
<1>9. a = n - Owned(f)
  <2> DEFINE o == Owned(f)
  <2>1. a \in Nat /\ o \in Nat /\ n = a + o
    BY <1>8
  <2> HIDE DEF a, o
  <2>2. a = n - o
    BY <2>1
  <2> QED
    BY <2>2 DEF o
<1> DEFINE e == [k \in 0..l - 1 |-> d[k]]
<1>10. IsDepth(e, rest, a, g)
  <2>1. /\ \A k \in 0..l - 1 : k \in 0..l
        /\ \A k \in 1..l - 1 : k \in 1..l /\ k - 1 \in 0..l - 1 /\ k \in 0..l - 1
        /\ 0 \in 0..l - 1 /\ l - 1 \in 0..l - 1
    <3> HIDE DEF l
    <3> QED
      BY <1>5, <1>3
  <2>2. e \in [0..l - 1 -> Nat] /\ e[0] = 1 /\ e[l - 1] = a
    BY <1>2, <1>3, <2>1 DEF IsDepth
  <2>3. \A j, k \in 0..l - 1 : j <= k => e[j] <= e[k]
    BY <1>2, <2>1 DEF IsDepth
  <2>4. \A k \in 1..l - 1 : FrameFits(rest[k], e[k - 1], e[k], g)
    BY <1>2, <1>6, <2>1 DEF IsDepth
  <2> HIDE DEF e, rest, l
  <2> QED
    BY <1>6, <2>2, <2>3, <2>4 DEF IsDepth
<1>11. Nests(rest, a, g)
  BY <1>6, <1>10 DEF Nests
<1> DEFINE b == n - Owned(f)
<1>12. n \in Nat /\ b \in Nat \ {0} /\ FrameFits(f, b, n, g) /\ Nests(rest, b, g)
  <2>1. FrameFits(f, a, n, g) /\ n \in Nat /\ a \in Nat \ {0} /\ a = b /\ Nests(rest, a, g)
    BY <1>3, <1>7, <1>8, <1>9, <1>11
  <2> HIDE DEF a, b, f, rest
  <2> QED
    BY <2>1
<1>13. Top(fs) = f /\ Front(fs) = rest
  BY DEF Top, Front
<1> HIDE DEF f, rest
<1> QED
  BY <1>7, <1>12, <1>13

\* One more rule.
LEMMA Enters ==
    ASSUME NEW g, NEW fs, NEW a, Nests(fs, a, g), NEW f \in Frames, NEW b, FrameFits(f, a, b, g)
    PROVE  Nests(Append(fs, f), b, g)
<1> DEFINE l == Len(fs)
           gs == Append(fs, f)
<1>1. fs \in Seq(Frames)
  BY DEF Nests
<1>2. PICK d : IsDepth(d, fs, a, g)
  BY DEF Nests
<1>3. /\ l \in Nat /\ a \in Nat \ {0} /\ a = d[l]
      /\ \A k \in 0..l : d[k] \in Nat \ {0} /\ d[k] <= a
  BY <1>1, <1>2, DepthsAre
<1>4. gs \in Seq(Frames) /\ Len(gs) = l + 1 /\ gs[l + 1] = f /\ \A k \in 1..l : gs[k] = fs[k]
  BY <1>1
<1>5. b = a + Owned(f) /\ Owned(f) \in Nat
  BY OwnedIs DEF FrameFits
<1>6. b \in Nat /\ a <= b
  <2> DEFINE o == Owned(f)
  <2>1. b = a + o /\ o \in Nat
    BY <1>5
  <2> HIDE DEF o
  <2> QED
    BY <1>3, <2>1
<1> HIDE DEF l, gs
<1> DEFINE e == [k \in 0..l + 1 |-> IF k = l + 1 THEN b ELSE d[k]]
<1>7. /\ \A k \in 0..l + 1 : k = l + 1 \/ k \in 0..l
      /\ \A k \in 0..l : k \in 0..l + 1 /\ k # l + 1
      /\ \A k \in 1..l : k \in 0..l + 1 /\ k # l + 1 /\ k - 1 \in 0..l + 1 /\ k - 1 # l + 1
      /\ \A k \in 1..l + 1 : k = l + 1 \/ k \in 1..l
      /\ (l + 1) - 1 = l /\ l \in 0..l /\ 0 \in 0..l /\ l + 1 \in 0..l + 1 /\ l # l + 1
      /\ \A k \in 0..l : ~(l + 1 <= k)
  BY <1>3
<1>8. e \in [0..l + 1 -> Nat]
  BY <1>3, <1>6, <1>7
<1>9. e[0] = 1 /\ e[l + 1] = b
  BY <1>2, <1>7 DEF IsDepth
<1>10. ASSUME NEW j \in 0..l + 1, NEW k \in 0..l + 1, j <= k
       PROVE  e[j] <= e[k]
  <2>1. CASE k = l + 1
    <3>1. CASE j = l + 1
      BY <1>6, <1>9, <2>1, <3>1
    <3>2. CASE j # l + 1
      <4>1. j \in 0..l /\ e[j] = d[j] /\ e[k] = b
        BY <1>7, <2>1, <3>2
      <4>2. d[j] \in Nat /\ d[j] <= a
        BY <1>3, <4>1
      <4> DEFINE x == d[j]
      <4>3. x \in Nat /\ x <= a
        BY <4>2
      <4> HIDE DEF x
      <4>4. x <= b
        BY <4>3, <1>3, <1>6
      <4> QED
        BY <4>1, <4>4 DEF x
    <3> QED
      BY <3>1, <3>2
  <2>2. CASE k # l + 1
    <3>1. k \in 0..l
      BY <1>7, <2>2
    <3>2. j \in 0..l
      BY <1>7, <1>10, <3>1
    <3>3. e[j] = d[j] /\ e[k] = d[k]
      BY <1>7, <3>1, <3>2
    <3> QED
      BY <1>2, <1>10, <3>1, <3>2, <3>3 DEF IsDepth, l
  <2> QED
    BY <2>1, <2>2
<1>11. ASSUME NEW k \in 1..l + 1
       PROVE  FrameFits(gs[k], e[k - 1], e[k], g)
  <2>1. CASE k = l + 1
    BY <1>3, <1>4, <1>7, <1>9, <2>1
  <2>2. CASE k # l + 1
    <3>1. k \in 1..l /\ gs[k] = fs[k] /\ e[k] = d[k] /\ e[k - 1] = d[k - 1]
      BY <1>4, <1>7, <2>2
    <3> QED
      BY <1>2, <3>1 DEF IsDepth, l
  <2> QED
    BY <2>1, <2>2
<1> HIDE DEF e
<1>12. IsDepth(e, gs, b, g)
  BY <1>4, <1>8, <1>9, <1>10, <1>11 DEF IsDepth
<1> QED
  BY <1>4, <1>12 DEF Nests, gs

-----------------------------------------------------------------------------
(* Entering and leaving a rule of the parser.                                *)

Compiling ==
    /\ phase = "compile" /\ results \in BOOLEAN /\ stack = << >> /\ left \in Nat
    /\ Good(gen) /\ Nests(frames, Depth(gen), gen)

LEMMA InvCompiling == IInv /\ phase = "compile" => Compiling
BY DEF IInv, Compiling, Depth

\* A rule is left with everything in place.
LEMMA Settled ==
    ASSUME Compiling, NEW g, NEW fs, Good(g), Nests(fs, Depth(g), g), left' \in Nat, Settle(g, fs)
    PROVE  IInv'
<1>1. phase' \in {"compile", "rejected"} /\ gen' = g /\ frames' = fs /\ results' = results /\ stack' = stack
  BY DEF Settle
<1>2. results' \in BOOLEAN /\ stack' = << >>
  BY <1>1 DEF Compiling
<1>3. g \in Generators /\ g.used <= Cardinality(Regs) /\ Depth(g) = Len(g.ctxs)
  BY GoodFields
<1>4. Good(gen') /\ Nests(frames', Len(gen'.ctxs), gen') /\ gen' \in Generators
      /\ gen'.used <= Cardinality(Regs)
  BY <1>1, <1>3
<1> QED
  BY <1>1, <1>2, <1>4 DEF IInv

\* The rule in progress on top.
LEMMA TopRule ==
    ASSUME Compiling, frames # << >>
    PROVE  LET f == Top(frames)
               n == Depth(gen)
           IN  /\ f \in Frames /\ n \in Nat /\ n - Owned(f) \in Nat \ {0} /\ Owned(f) \in Nat
               /\ Nests(Front(frames), n - Owned(f), gen)
               /\ f.rule \notin {"try", "except"} =>
                     \A i \in (n - Owned(f)) + 1..n : gen.ctxs[i].type # "FUNCTION"
               /\ f.rule \in {"while", "do", "for"} => f.start \in 1..Target(gen)
               /\ f.rule = "except" => f.jump \in 1..Len(gen.codes)
               /\ f.state \in States
<1> DEFINE f == Top(frames)
           n == Depth(gen)
           a == n - Owned(f)
<1>1. Good(gen) /\ Nests(frames, n, gen)
  BY DEF Compiling
<1>2. f \in Frames /\ n \in Nat /\ a \in Nat \ {0} /\ FrameFits(f, a, n, gen) /\ Nests(Front(frames), a, gen)
  <2> HIDE DEF f, n
  <2> QED
    BY <1>1, Innermost DEF f
<1>3. Target(gen) = Len(gen.codes[gen.ctxs[n].coder]) + 1
  BY <1>1, GoodFields
<1>4. Owned(f) \in Nat /\ f.state \in States
  BY <1>2, OwnedIs DEF Frames
<1> HIDE DEF f, n
<1>5. f.rule \notin {"try", "except"} => \A i \in a + 1..n : gen.ctxs[i].type # "FUNCTION"
  BY <1>2 DEF FrameFits
<1>6. f.rule \in {"while", "do", "for"} => f.start \in 1..Target(gen)
  BY <1>2, <1>3 DEF FrameFits
<1>7. f.rule = "except" => f.jump \in 1..Len(gen.codes)
  BY <1>2 DEF FrameFits
<1> QED
  BY <1>2, <1>4, <1>5, <1>6, <1>7 DEF f, n

LEMMA ParsedNests ==
    ASSUME Compiling, frames # << >>
    PROVE  Nests(Parsed, Depth(gen), gen)
<1> DEFINE f == Top(frames)
           l == Len(frames)
           h == [f EXCEPT !.rule = "over"]
           n == Depth(gen)
<1>1. Good(gen) /\ Nests(frames, n, gen) /\ frames \in Seq(Frames)
  BY DEF Compiling, Nests
<1>2. f \in Frames /\ FrameFits(f, n - Owned(f), n, gen) /\ Nests(Front(frames), n - Owned(f), gen)
  <2> HIDE DEF f, n
  <2> QED
    BY <1>1, Innermost DEF f
<1>3. CASE f.rule # "single"
  BY <1>1, <1>3 DEF Parsed
<1>4. CASE f.rule = "single"
  <2>1. h \in Frames /\ h.rule = "over" /\ h.closes = f.closes /\ h.start = f.start /\ h.jump = f.jump
    <3> HIDE DEF f
    <3> QED
      BY <1>2 DEF Frames, Rules
  <2>2. Owned(h) = Owned(f)
    <3> HIDE DEF h, f
    <3> QED
      BY <2>1, <1>4 DEF Owned
  <2>3. FrameFits(h, n - Owned(f), n, gen)
    <3> HIDE DEF h, f, n
    <3> QED
      BY <1>2, <1>4, <2>1, <2>2 DEF FrameFits
  <2>4. Nests(Append(Front(frames), h), n, gen)
    <3> DEFINE a == n - Owned(f)
               fs == Front(frames)
    <3>1. Nests(fs, a, gen) /\ h \in Frames /\ FrameFits(h, a, n, gen)
      BY <1>2, <2>1, <2>3
    <3> HIDE DEF a, fs, h, n
    <3> QED
      BY <3>1, Enters DEF fs
  <2>5. Parsed = Append(Front(frames), h)
    <3>1. l \in Nat /\ l # 0 /\ l \in 1..l /\ l - 1 \in Nat
      <4>1. l \in Nat /\ l # 0
        BY <1>1
      <4> HIDE DEF l
      <4> QED
        BY <4>1
    <3> DEFINE s == [frames EXCEPT ![l] = h]
               e == Append(Front(frames), h)
    <3>2. Parsed = s
      BY <1>4 DEF Parsed, Top
    <3>3. s \in Seq(Frames) /\ Len(s) = l /\ \A i \in 1..l : s[i] = IF i = l THEN h ELSE frames[i]
      <4> HIDE DEF h
      <4> QED
        BY <1>1, <2>1
    <3>4. Front(frames) \in Seq(Frames) /\ Len(Front(frames)) = l - 1
          /\ \A i \in 1..l - 1 : Front(frames)[i] = frames[i]
      <4> DEFINE m == l - 1
      <4>1. m \in Nat /\ m <= Len(frames)
        BY <3>1
      <4> HIDE DEF m, l
      <4>2. LET t == SubSeq(frames, 1, m) IN t \in Seq(Frames) /\ Len(t) = m /\ \A k \in 1..m : t[k] = frames[k]
        BY <1>1, <4>1
      <4> QED
        BY <4>2 DEF m, Front, l
    <3> HIDE DEF h
    <3> DEFINE t == Front(frames)
    <3> HIDE DEF t, l
    <3>5. t \in Seq(Frames) /\ Len(t) = l - 1 /\ \A i \in 1..l - 1 : t[i] = frames[i]
      BY <3>4 DEF t, l
    <3>6. Append(t, h) \in Seq(Frames) /\ Len(Append(t, h)) = l /\ Append(t, h)[l] = h
          /\ \A i \in 1..l - 1 : Append(t, h)[i] = frames[i]
      BY <2>1, <3>1, <3>5
    <3>7. \A i \in 1..l : i = l \/ i \in 1..l - 1
      BY <3>1
    <3>8. \A i \in 1..l : s[i] = Append(t, h)[i]
      <4> HIDE DEF s
      <4> QED
        BY <3>1, <3>3, <3>6, <3>7 DEF l
    <3>9. s = Append(t, h)
      <4> DEFINE u == Append(t, h)
      <4>1. u \in Seq(Frames) /\ Len(u) = l /\ s \in Seq(Frames) /\ Len(s) = l /\ \A i \in 1..l : s[i] = u[i]
        BY <3>3, <3>6, <3>8 DEF l
      <4> HIDE DEF u, s
      <4>2. u = s
        BY <4>1, SeqEqual
      <4> QED
        BY <4>2 DEF u
    <3> QED
      BY <3>2, <3>9 DEF t
  <2> QED
    BY <2>4, <2>5
<1> QED
  BY <1>3, <1>4

\* A statement that has no context of its own.
LEMMA Stated ==
    ASSUME Compiling, frames # << >>, NEW g, Keeps(gen, g), left' \in Nat, Settle(g, Parsed)
    PROVE  IInv'
<1>1. Good(gen) /\ Depth(gen) \in Nat /\ Nests(Parsed, Depth(gen), gen)
  BY ParsedNests, GoodFields DEF Compiling
<1>2. Good(g) /\ Depth(g) = Depth(gen) /\ Leads(gen, g, Depth(gen)) /\ Depth(gen) <= Depth(gen)
  BY <1>1, KeepsFields DEF Keeps
<1>3. Nests(Parsed, Depth(gen), g)
  BY <1>1, <1>2, NestsStill
<1>4. Nests(Parsed, Depth(g), g)
  BY <1>2, <1>3
<1> QED
  BY <1>2, <1>4, Settled

\* The rule on top is done, and so are its contexts.
LEMMA Resumed ==
    ASSUME Compiling, frames # << >>, NEW g, Leads(gen, g, Depth(g)),
           Depth(g) = Depth(gen) - Owned(Top(frames)), left' \in Nat, Settle(g, Front(frames))
    PROVE  IInv'
<1>1. Good(gen) /\ Nests(Front(frames), Depth(g), gen)
  BY TopRule DEF Compiling
<1>2. Good(g) /\ Depth(g) \in Nat /\ Depth(g) <= Depth(g)
  BY GoodFields DEF Leads
<1>3. Nests(Front(frames), Depth(g), g)
  BY <1>1, <1>2, NestsStill
<1> QED
  BY <1>2, <1>3, Settled

-----------------------------------------------------------------------------
(* statement(), which leaves a rule and a body or statement in progress.     *)

LEMMA TwoMore ==
    ASSUME NEW fs \in Seq(Frames), NEW e \in Frames, NEW f \in Frames
    PROVE  fs \o <<e, f>> = Append(Append(fs, e), f)
<1> DEFINE two == <<e, f>>
           s == fs \o two
           t == Append(fs, e)
           u == Append(t, f)
           l == Len(fs)
<1>1. l \in Nat /\ two \in Seq(Frames) /\ Len(two) = 2 /\ two[1] = e /\ two[2] = f
  OBVIOUS
<1>2. t \in Seq(Frames) /\ Len(t) = l + 1 /\ t[l + 1] = e /\ \A i \in 1..l : t[i] = fs[i]
  OBVIOUS
<1> HIDE DEF two, t
<1>3. s \in Seq(Frames) /\ Len(s) = l + 2 /\ (\A i \in 1..l : s[i] = fs[i])
      /\ s[l + 1] = two[1] /\ s[l + 2] = two[2]
  <2> HIDE DEF s, l
  <2>1. s \in Seq(Frames) /\ Len(s) = Len(fs) + Len(two)
        /\ \A i \in 1..Len(fs) + Len(two) : s[i] = IF i <= Len(fs) THEN fs[i] ELSE two[i - Len(fs)]
    BY <1>1, ConcatProperties DEF s
  <2>2. Len(s) = l + 2 /\ \A i \in 1..l + 2 : s[i] = IF i <= l THEN fs[i] ELSE two[i - l]
    BY <1>1, <2>1 DEF l
  <2>3. /\ (\A i \in 1..l : i \in 1..l + 2 /\ i <= l)
        /\ l + 1 \in 1..l + 2 /\ ~(l + 1 <= l) /\ (l + 1) - l = 1
        /\ l + 2 \in 1..l + 2 /\ ~(l + 2 <= l) /\ (l + 2) - l = 2
    BY <1>1
  <2> QED
    BY <2>1, <2>2, <2>3
<1>4. u \in Seq(Frames) /\ Len(u) = (l + 1) + 1 /\ u[(l + 1) + 1] = f /\ \A i \in 1..l + 1 : u[i] = t[i]
  BY <1>2
<1> HIDE DEF s, u, l
<1>5. (l + 1) + 1 = l + 2 /\ l + 1 \in 1..l + 1 /\ (\A i \in 1..l : i \in 1..l + 1)
      /\ \A i \in 1..l + 2 : i \in 1..l \/ i = l + 1 \/ i = l + 2
  BY <1>1
<1>6. \A i \in 1..l + 2 : s[i] = u[i]
  BY <1>1, <1>2, <1>3, <1>4, <1>5
<1>7. Len(u) = Len(s) /\ \A i \in 1..Len(s) : s[i] = u[i]
  BY <1>3, <1>4, <1>5, <1>6
<1>8. s = u
  BY <1>3, <1>4, <1>7, SeqEqual
<1> QED
  BY <1>8 DEF s, u, t, two

IsFrame(f, rule, jump, start, closes) ==
    /\ f \in Frames
    /\ f.rule = rule /\ f.jump = jump /\ f.start = start /\ f.closes = closes

LEMMA FrameIs ==
    ASSUME NEW rule \in Rules, NEW jump \in Nat, NEW start \in Nat, NEW state \in States
    PROVE  /\ IsFrame(Frame(rule, jump, start, state), rule, jump, start, FALSE)
           /\ \A b \in BOOLEAN :
                 IsFrame([Frame(rule, jump, start, state) EXCEPT !.closes = b], rule, jump, start, b)
BY DEF Frame, Frames, IsFrame

\* A statement or a body is parsed for a rule.
LEMMA StatementIs ==
    ASSUME Compiling, NEW g, Good(g), NEW fs, NEW a, Nests(fs, a, g), a <= Depth(g),
           NEW frame \in Frames, frame.rule \notin {"try", "except"}, NEW flags \in SUBSET Flags,
           NEW braced \in BOOLEAN,
           (Depth(g) + 1) - (IF "KEEP" \in flags THEN 0 ELSE 1) = a + Owned(frame),
           \A i \in a + 1..Depth(g) : g.ctxs[i].type # "FUNCTION",
           frame.rule \in {"while", "do", "for"} => frame.start \in 1..Target(g) /\ "KEEP" \in flags,
           left' \in Nat, Statement(g, fs, frame, flags, braced)
    PROVE  IInv'
<1> DEFINE type == IF braced THEN "BODY" ELSE "BLOCK"
           h == Push(g, type, flags)
           closes == ~("KEEP" \in flags)
           rule == IF braced THEN "block" ELSE "single"
           blk == [Frame(rule, 0, 0, NO) EXCEPT !.closes = closes]
           d == Depth(g)
           b == a + Owned(frame)
           gs == Append(fs, frame)
<1>1. type \in {"BODY", "BLOCK"}
  OBVIOUS
<1> HIDE DEF type
<1>2. /\ Opens(g, h) /\ Coder(h) = Coder(g) /\ Target(h) = Target(g) /\ Top(h.ctxs).type = type
  BY <1>1, PushIs
<1> HIDE DEF h
<1>3. Good(h) /\ Depth(h) = d + 1 /\ Leads(g, h, d) /\ d \in Nat /\ d <= d
      /\ \A i \in 1..d : g.ctxs[i].type = h.ctxs[i].type
  BY <1>2, GoodFields DEF Opens, Leads, SameScope
<1>4. h.ctxs[d + 1].type = type /\ Coder(h) = h.ctxs[d + 1].coder /\ Target(h) = Len(h.codes[Coder(h)]) + 1
  BY <1>2, <1>3, GoodFields DEF Top
<1>5. fs \in Seq(Frames) /\ a \in Nat \ {0} /\ Owned(frame) \in Nat
  <2>1. PICK e : IsDepth(e, fs, a, g)
    BY DEF Nests
  <2> QED
    BY <2>1, DepthsAre, OwnedIs DEF Nests
<1>6. b \in Nat /\ a <= b /\ (IF "KEEP" \in flags THEN b = d + 1 ELSE b = d) /\ b <= d + 1
      /\ \A i \in a + 1..b : i \in 1..d + 1
  <2> DEFINE o == Owned(frame)
             x == IF "KEEP" \in flags THEN 0 ELSE 1
  <2>1. o \in Nat /\ b = a + o /\ (d + 1) - x = b /\ x \in {0, 1} /\ d \in Nat
    BY <1>3, <1>5
  <2>2. x = 0 <=> "KEEP" \in flags
    OBVIOUS
  <2> HIDE DEF o, b, d, x
  <2>3. b \in Nat /\ a <= b /\ (x = 0 => b = d + 1) /\ (x # 0 => b = d) /\ b <= d + 1
        /\ \A i \in a + 1..b : i \in 1..d + 1
    BY <1>5, <2>1
  <2> QED
    BY <2>2, <2>3
<1>7. Nests(fs, a, h)
  BY <1>3, NestsStill
<1>8. FrameFits(frame, a, b, h)
  <2>1. ASSUME NEW i \in a + 1..b PROVE h.ctxs[i].type # "FUNCTION"
    <3>1. i \in 1..d + 1
      BY <1>6
    <3>2. CASE i = d + 1
      BY <1>1, <1>4, <3>2
    <3>3. CASE i # d + 1
      <4> HIDE DEF b
      <4>1. i \in 1..d /\ i \in a + 1..d
        <5> HIDE DEF d
        <5> QED
          BY <1>3, <1>5, <1>6, <3>1, <3>3
      <4> QED
        BY <1>3, <4>1
    <3> QED
      BY <3>2, <3>3
  <2>2. frame.rule \in {"while", "do", "for"} => frame.start \in 1..Len(h.codes[h.ctxs[b].coder]) + 1
    <3> SUFFICES ASSUME frame.rule \in {"while", "do", "for"}
                 PROVE  frame.start \in 1..Len(h.codes[h.ctxs[b].coder]) + 1
      OBVIOUS
    <3>1. b = d + 1 /\ frame.start \in 1..Target(h)
      BY <1>2, <1>6
    <3> HIDE DEF b, d
    <3> QED
      BY <1>4, <3>1
  <2> QED
    BY <2>1, <2>2 DEF FrameFits
<1>9. Nests(gs, b, h)
  <2> HIDE DEF b
  <2> QED
    BY <1>7, <1>8, Enters
<1>10. blk \in Frames /\ blk.rule = rule /\ blk.closes = closes /\ rule \in {"block", "single"}
  <2>1. rule \in {"block", "single"} /\ rule \in Rules /\ 0 \in Nat /\ NO \in States
    BY StatesAre DEF Rules
  <2>2. closes \in BOOLEAN
    OBVIOUS
  <2> HIDE DEF rule, closes
  <2>3. IsFrame(blk, rule, 0, 0, closes)
    BY <2>1, <2>2, FrameIs
  <2> HIDE DEF blk
  <2> QED
    BY <2>1, <2>3 DEF IsFrame
<1> HIDE DEF rule, blk
<1>11. Owned(blk) = IF "KEEP" \in flags THEN 0 ELSE 1
  BY <1>10 DEF Owned
<1> HIDE DEF b
<1>12. d + 1 = b + Owned(blk) /\ \A i \in b + 1..d + 1 : i = d + 1
  <2> HIDE DEF d
  <2> QED
    BY <1>3, <1>6, <1>11
<1>13. FrameFits(blk, b, d + 1, h)
  <2>1. \A i \in b + 1..d + 1 : h.ctxs[i].type # "FUNCTION"
    BY <1>1, <1>4, <1>12
  <2> QED
    BY <1>10, <1>12, <2>1 DEF FrameFits
<1> HIDE DEF gs
<1>14. Nests(Append(gs, blk), d + 1, h)
  BY <1>9, <1>10, <1>13, Enters
<1>15. fs \o <<frame, blk>> = Append(gs, blk)
  BY <1>5, <1>10, TwoMore DEF gs
<1>16. Settle(h, fs \o <<frame, blk>>)
  BY DEF Statement, h, type, blk, rule
<1> DEFINE all == fs \o <<frame, blk>>
<1>17. Nests(all, Depth(h), h) /\ Settle(h, all)
  BY <1>3, <1>14, <1>15, <1>16
<1> HIDE DEF all
<1> QED
  BY <1>3, <1>17, Settled

\* A try or except block is parsed for a rule.
LEMMA XblockIs ==
    ASSUME Compiling, NEW g, Good(g), NEW fs, NEW a, Nests(fs, a, g), a = Depth(g),
           NEW rule \in {"try", "except"}, NEW jump \in Nat, NEW flags \in SUBSET Flags,
           rule = "except" => jump \in 1..Len(g.codes),
           left' \in Nat, Xblock(g, fs, Frame(rule, jump, 0, NO), flags)
    PROVE  IInv'
<1> DEFINE frame == Frame(rule, jump, 0, NO)
           h == PushXblock(g, flags)
           blk == Frame("block", 0, 0, NO)
           d == Depth(g)
           gs == Append(fs, frame)
<1>1. /\ Opens(g, h) /\ Len(h.codes) = Len(g.codes) + 1 /\ Top(h.ctxs).type = "FUNCTION"
  BY PushXblockIs
<1> HIDE DEF h
<1>2. Good(h) /\ Depth(h) = d + 1 /\ Leads(g, h, d) /\ d \in Nat \ {0} /\ d <= d
  BY <1>1, GoodFields DEF Opens, Leads
<1>3. h.ctxs[d + 1].type = "FUNCTION"
  BY <1>1, <1>2, GoodFields DEF Top
<1>4. /\ frame \in Frames /\ frame.rule = rule /\ frame.jump = jump
      /\ blk \in Frames /\ blk.rule = "block" /\ blk.closes = FALSE
  <2>1. rule \in Rules /\ "block" \in Rules /\ NO \in States /\ 0 \in Nat
    BY StatesAre DEF Rules
  <2>2. IsFrame(frame, rule, jump, 0, FALSE)
    BY <2>1, FrameIs
  <2>3. IsFrame(blk, "block", 0, 0, FALSE)
    BY <2>1, FrameIs
  <2> HIDE DEF frame, blk
  <2> QED
    BY <2>2, <2>3 DEF IsFrame
<1> HIDE DEF frame, blk
<1>5. Owned(frame) = 1 /\ Owned(blk) = 0
  BY <1>4 DEF Owned
<1>6. fs \in Seq(Frames) /\ Nests(fs, d, h)
  BY <1>2, NestsStill DEF Nests
<1> HIDE DEF d
<1>7. FrameFits(frame, d, d + 1, h)
  <2>1. \A i \in d + 1..d + 1 : h.ctxs[i].type = "FUNCTION"
    BY <1>2, <1>3
  <2>2. rule = "except" => jump \in 1..Len(h.codes)
    <3>1. Len(g.codes) \in Nat
      BY GoodFields
    <3> QED
      BY <1>1, <3>1
  <2> QED
    BY <1>4, <1>5, <2>1, <2>2 DEF FrameFits
<1>8. Nests(gs, d + 1, h)
  BY <1>4, <1>6, <1>7, Enters
<1>9. FrameFits(blk, d + 1, d + 1, h)
  <2>1. \A i \in (d + 1) + 1..d + 1 : FALSE
    BY <1>2
  <2>2. d + 1 = (d + 1) + 0
    BY <1>2
  <2> QED
    BY <1>4, <1>5, <2>1, <2>2 DEF FrameFits
<1> HIDE DEF gs
<1>10. Nests(Append(gs, blk), d + 1, h)
  BY <1>4, <1>8, <1>9, Enters
<1>11. fs \o <<frame, blk>> = Append(gs, blk)
  BY <1>4, <1>6, TwoMore DEF gs
<1>12. Settle(h, fs \o <<frame, blk>>)
  BY DEF Xblock, h, frame, blk
<1> DEFINE all == fs \o <<frame, blk>>
<1>13. Nests(all, Depth(h), h) /\ Settle(h, all)
  BY <1>2, <1>10, <1>11, <1>12
<1> HIDE DEF all
<1> QED
  BY <1>2, <1>13, Settled

-----------------------------------------------------------------------------
(* Simple statements.                                                        *)

LEMMA Started ==
    ASSUME NEW k, IInv, Starts(k)
    PROVE  Compiling /\ Good(gen) /\ frames # << >> /\ left' \in Nat /\ Top(frames).rule \in {"block", "single"}
           /\ Nests(Parsed, Depth(gen), gen) /\ Depth(gen) \in Nat /\ Depth(gen) <= Depth(gen)
<1>1. phase = "compile" /\ frames # << >> /\ left' = left - 1 /\ left > 0
      /\ Top(frames).rule \in {"block", "single"}
  BY DEF Starts
<1>2. Compiling /\ Good(gen) /\ left \in Nat
  BY <1>1, InvCompiling DEF Compiling
<1>3. left' \in Nat
  BY <1>1, <1>2
<1>4. Depth(gen) \in Nat /\ Depth(gen) <= Depth(gen)
  BY <1>2, GoodFields
<1> QED
  BY <1>1, <1>2, <1>3, <1>4, ParsedNests

LEMMA Continued ==
    ASSUME NEW rule, IInv, Resumes(rule)
    PROVE  Compiling /\ Good(gen) /\ frames # << >> /\ Top(frames).rule = rule
           /\ Depth(gen) \in Nat /\ Depth(gen) <= Depth(gen)
           /\ (UNCHANGED left => left' \in Nat) /\ left \in Nat
<1>1. phase = "compile" /\ frames # << >> /\ Top(frames).rule = rule
  BY DEF Resumes
<1>2. Compiling /\ Good(gen) /\ left \in Nat
  BY <1>1, InvCompiling DEF Compiling
<1> QED
  BY <1>1, <1>2, GoodFields

LEMMA DeclareStatKeeps == ASSUME IInv, NEW assigned \in BOOLEAN, DeclareStat(assigned) PROVE IInv'
<1> DEFINE g == Declare(gen)
           h == IF assigned THEN Write(g, g.used) ELSE g
<1>1. /\ Compiling /\ Good(gen) /\ frames # << >> /\ left' \in Nat
      /\ gen.used < Cardinality(Regs) /\ Settle(h, Parsed)
  BY Started DEF DeclareStat
<1>2. Keeps(gen, g) /\ g.used \in Regs
  BY <1>1, DeclareIs
<1> HIDE DEF g
<1>3. Good(g) /\ Keeps(g, Write(g, g.used))
  BY <1>1, <1>2, KeepsFields, ReadWriteAre
<1>4. Keeps(gen, h)
  BY <1>1, <1>2, <1>3, KeepsOn
<1> HIDE DEF h
<1> QED
  BY <1>1, <1>4, Stated

LEMMA AssignStatKeeps == ASSUME IInv, NEW r \in Regs, AssignStat(r) PROVE IInv'
<1> DEFINE g == Write(gen, r)
<1>1. Compiling /\ Good(gen) /\ frames # << >> /\ left' \in Nat /\ Settle(g, Parsed)
  BY Started DEF AssignStat
<1>2. Keeps(gen, g)
  BY <1>1, ReadWriteAre
<1> HIDE DEF g
<1> QED
  BY <1>1, <1>2, Stated

LEMMA UseStatKeeps == ASSUME IInv, NEW r \in Regs, UseStat(r) PROVE IInv'
<1> DEFINE g == Read(gen, r)
<1>1. Compiling /\ Good(gen) /\ frames # << >> /\ left' \in Nat /\ Settle(g, Parsed)
  BY Started DEF UseStat
<1>2. Keeps(gen, g)
  BY <1>1, ReadWriteAre
<1> HIDE DEF g
<1> QED
  BY <1>1, <1>2, Stated

LEMMA HereIs == ASSUME Good(gen) PROVE Here = InFunction(gen.ctxs, Depth(gen)) /\ Here \subseteq 1..Depth(gen)
BY DEF Here, InFunction

LEMMA LeaveStatsKeep ==
    ASSUME IInv, NEW n, BreakStat(n) \/ ContStat(n) \/ RepeatStat(n)
    PROVE  IInv'
<1>1. CASE BreakStat(n)
  <2> DEFINE g == Jump(gen, n, "ends")
  <2>1. Compiling /\ Good(gen) /\ frames # << >> /\ left' \in Nat /\ Settle(g, Parsed) /\ n \in Here
    BY <1>1, Started DEF BreakStat, Destination
  <2>2. n \in 1..Depth(gen)
    BY <2>1, HereIs
  <2>3. Keeps(gen, g)
    BY <2>1, <2>2, JumpIs
  <2> HIDE DEF g
  <2> QED
    BY <2>1, <2>3, Stated
<1>2. CASE ContStat(n)
  <2> DEFINE g == Jump(gen, n, "conts")
  <2>1. Compiling /\ Good(gen) /\ frames # << >> /\ left' \in Nat /\ Settle(g, Parsed) /\ n \in Here
    BY <1>2, Started DEF ContStat, Destination
  <2>2. n \in 1..Depth(gen)
    BY <2>1, HereIs
  <2>3. Keeps(gen, g)
    BY <2>1, <2>2, JumpIs
  <2> HIDE DEF g
  <2> QED
    BY <2>1, <2>3, Stated
<1>3. CASE RepeatStat(n)
  <2> DEFINE g == JumpBack(gen, n)
  <2>1. Compiling /\ Good(gen) /\ frames # << >> /\ left' \in Nat /\ Settle(g, Parsed) /\ n \in Here
    BY <1>3, Started DEF RepeatStat, Destination
  <2>2. n \in InFunction(gen.ctxs, Depth(gen))
    BY <2>1, HereIs
  <2>3. Keeps(gen, g)
    BY <2>1, <2>2, JumpBackIs
  <2> HIDE DEF g
  <2> QED
    BY <2>1, <2>3, Stated
<1> QED
  BY <1>1, <1>2, <1>3

LEMMA ReturnStatKeeps == ASSUME IInv, ReturnStat PROVE IInv'
<1> DEFINE c == Check(gen)
           g == Code(c, "return", 0)
           x == [g EXCEPT !.ctxs = ResultEvent(@)]
           h == IF results THEN x ELSE g
           e == [h EXCEPT !.ctxs = ReturnEvent(@)]
<1>1. Compiling /\ Good(gen) /\ frames # << >> /\ left' \in Nat /\ Settle(e, Parsed)
  BY Started DEF ReturnStat
<1>2. Keeps(gen, c) /\ Good(c)
  BY <1>1, CheckIs, KeepsFields
<1> HIDE DEF c
<1>3. Keeps(c, g) /\ Good(g) /\ Keeps(gen, g)
  <2>1. Keeps(c, g)
    BY <1>2, PlainCode
  <2> HIDE DEF g
  <2> QED
    BY <1>1, <1>2, <2>1, KeepsFields, KeepsOn
<1> HIDE DEF g
<1>4. Keeps(g, x)
  BY <1>3, EventIs
<1> HIDE DEF x
<1>5. Keeps(gen, h) /\ Good(h)
  BY <1>1, <1>3, <1>4, KeepsOn, KeepsFields
<1> HIDE DEF h
<1>6. Keeps(h, e)
  BY <1>5, EventIs
<1> HIDE DEF e
<1>7. Keeps(gen, e)
  BY <1>1, <1>5, <1>6, KeepsOn
<1> QED
  BY <1>1, <1>7, Stated

LEMMA ThrowStatKeeps == ASSUME IInv, ThrowStat PROVE IInv'
<1> DEFINE g == Code(gen, "throw", 0)
           e == [g EXCEPT !.ctxs = ResultEvent(ReturnEvent(@))]
<1>1. Compiling /\ Good(gen) /\ frames # << >> /\ left' \in Nat /\ Settle(e, Parsed)
  BY Started DEF ThrowStat
<1>2. Keeps(gen, g)
  BY <1>1, PlainCode
<1> HIDE DEF g
<1>3. Good(g)
  BY <1>1, <1>2, KeepsFields
<1>4. Keeps(g, e)
  BY <1>3, EventIs
<1> HIDE DEF e
<1>5. Keeps(gen, e)
  BY <1>1, <1>2, <1>4, KeepsOn
<1> QED
  BY <1>1, <1>5, Stated

LEMMA RetryStatKeeps == ASSUME IInv, RetryStat PROVE IInv'
<1> DEFINE g == Code(gen, "retry", 0)
<1>1. Compiling /\ Good(gen) /\ frames # << >> /\ left' \in Nat /\ Settle(g, Parsed)
  BY Started DEF RetryStat
<1>2. Keeps(gen, g)
  BY <1>1, PlainCode
<1> HIDE DEF g
<1> QED
  BY <1>1, <1>2, Stated

LEMMA SimpleStatKeeps == ASSUME IInv, SimpleStat PROVE IInv'
<1>1. ASSUME NEW assigned \in BOOLEAN, DeclareStat(assigned) PROVE IInv'
  BY <1>1, DeclareStatKeeps
<1>2. ASSUME NEW r \in Regs, AssignStat(r) PROVE IInv'
  BY <1>2, AssignStatKeeps
<1>3. ASSUME NEW r \in Regs, UseStat(r) PROVE IInv'
  BY <1>3, UseStatKeeps
<1>4. ASSUME NEW n \in 1..MaxContexts, BreakStat(n) \/ ContStat(n) \/ RepeatStat(n) PROVE IInv'
  BY <1>4, LeaveStatsKeep
<1> QED
  BY <1>1, <1>2, <1>3, <1>4, ReturnStatKeeps, ThrowStatKeeps, RetryStatKeeps DEF SimpleStat

-----------------------------------------------------------------------------
(* Statements with a body.                                                   *)

LEMMA FlagsAre ==
    /\ {} \in SUBSET Flags /\ {"CONDITIONAL"} \in SUBSET Flags /\ {"CONDITIONAL", "KEEP"} \in SUBSET Flags
    /\ LoopBody \in SUBSET Flags /\ LoopBody \union {"REPEATABLE"} \in SUBSET Flags
    /\ {"CATCHER"} \in SUBSET Flags
    /\ "KEEP" \notin {} /\ "KEEP" \notin {"CONDITIONAL"} /\ "KEEP" \in {"CONDITIONAL", "KEEP"}
    /\ "KEEP" \in LoopBody /\ "KEEP" \in LoopBody \union {"REPEATABLE"}
BY DEF Flags, LoopBody

LEMMA BranchPosIs == ASSUME NEW g, Good(g) PROVE BranchPos(g) \in Nat
BY GoodFields DEF BranchPos

\* Rules whose statement stays in a context of theirs.
LEMMA KeptIs ==
    ASSUME Compiling, NEW g, Good(g), NEW fs, NEW a, Nests(fs, a, g), a = Depth(g),
           NEW rule \in {"if", "case", "while", "do"}, NEW jump \in Nat, NEW start \in Nat, NEW state \in States,
           rule \in {"while", "do"} => start \in 1..Target(g),
           NEW flags \in SUBSET Flags, "KEEP" \in flags, NEW braced \in BOOLEAN,
           left' \in Nat, Statement(g, fs, Frame(rule, jump, start, state), flags, braced)
    PROVE  IInv'
<1> DEFINE frame == Frame(rule, jump, start, state)
           d == Depth(g)
<1>1. IsFrame(frame, rule, jump, start, FALSE)
  <2>1. rule \in Rules
    BY DEF Rules
  <2> QED
    BY <2>1, FrameIs
<1> HIDE DEF frame
<1>2. frame \in Frames /\ frame.rule = rule /\ frame.start = start
  BY <1>1 DEF IsFrame
<1>3. Owned(frame) = 1
  BY <1>2 DEF Owned
<1>4. d \in Nat /\ d <= d
  BY GoodFields
<1> HIDE DEF d
<1>5. (d + 1) - (IF "KEEP" \in flags THEN 0 ELSE 1) = d + 1 /\ \A i \in d + 1..d : FALSE
  BY <1>4
<1>6. Nests(fs, a, g) /\ a <= Depth(g) /\ frame.rule \notin {"try", "except"}
      /\ (Depth(g) + 1) - (IF "KEEP" \in flags THEN 0 ELSE 1) = a + Owned(frame)
      /\ (\A i \in a + 1..Depth(g) : g.ctxs[i].type # "FUNCTION")
      /\ (frame.rule \in {"while", "do", "for"} => frame.start \in 1..Target(g) /\ "KEEP" \in flags)
  BY <1>2, <1>3, <1>4, <1>5 DEF d
<1>7. Statement(g, fs, frame, flags, braced)
  BY DEF frame
<1> QED
  BY <1>2, <1>6, <1>7, StatementIs

LEMMA ParsedStill ==
    ASSUME Compiling, frames # << >>, NEW g, Keeps(gen, g)
    PROVE  Nests(Parsed, Depth(g), g)
<1>1. Good(gen) /\ Depth(gen) \in Nat /\ Nests(Parsed, Depth(gen), gen)
  BY ParsedNests, GoodFields DEF Compiling
<1>2. Depth(g) = Depth(gen) /\ Leads(gen, g, Depth(gen)) /\ Depth(gen) <= Depth(gen)
  BY <1>1 DEF Keeps
<1>3. Nests(Parsed, Depth(gen), g)
  BY <1>1, <1>2, NestsStill
<1> QED
  BY <1>2, <1>3

LEMMA BodyStatKeeps == ASSUME IInv, BodyStat PROVE IInv'
<1> DEFINE frame == Frame("inner", 0, 0, NO)
           d == Depth(gen)
           none == {}
<1>1. Compiling /\ Good(gen) /\ left' \in Nat /\ Nests(Parsed, d, gen)
      /\ Statement(gen, Parsed, frame, none, TRUE)
  BY Started DEF BodyStat
<1>2. none \in SUBSET Flags /\ "KEEP" \notin none /\ TRUE \in BOOLEAN
  BY FlagsAre
<1>3. IsFrame(frame, "inner", 0, 0, FALSE)
  <2>1. "inner" \in Rules /\ 0 \in Nat /\ NO \in States
    BY StatesAre DEF Rules
  <2> QED
    BY <2>1, FrameIs
<1> HIDE DEF frame, none
<1>4. frame \in Frames /\ frame.rule = "inner"
  BY <1>3 DEF IsFrame
<1>5. Owned(frame) = 0
  BY <1>4 DEF Owned
<1>6. d \in Nat /\ d <= d
  BY <1>1, GoodFields
<1> HIDE DEF d
<1>7. (d + 1) - 1 = d + 0 /\ \A i \in d + 1..d : FALSE
  BY <1>6
<1>8. d <= Depth(gen) /\ frame.rule \notin {"try", "except"}
      /\ (Depth(gen) + 1) - (IF "KEEP" \in none THEN 0 ELSE 1) = d + Owned(frame)
      /\ (\A i \in d + 1..Depth(gen) : gen.ctxs[i].type # "FUNCTION")
      /\ (frame.rule \in {"while", "do", "for"} => frame.start \in 1..Target(gen) /\ "KEEP" \in none)
  BY <1>2, <1>4, <1>5, <1>6, <1>7 DEF d
<1> QED
  BY <1>1, <1>2, <1>4, <1>8, StatementIs

LEMMA IfStatKeeps == ASSUME IInv, NEW braced \in BOOLEAN, IfStat(braced) PROVE IInv'
<1> DEFINE g == Code(gen, "branch", 0)
           flags == {"CONDITIONAL", "KEEP"}
           jump == BranchPos(gen)
<1>1. Compiling /\ Good(gen) /\ frames # << >> /\ left' \in Nat
      /\ Statement(g, Parsed, Frame("if", jump, 0, NO), flags, braced)
  BY Started DEF IfStat
<1>2. Keeps(gen, g)
  BY <1>1, PlainCode
<1>3. flags \in SUBSET Flags /\ "KEEP" \in flags /\ jump \in Nat /\ 0 \in Nat /\ NO \in States
  BY <1>1, FlagsAre, BranchPosIs, StatesAre
<1> HIDE DEF g, flags, jump
<1>4. Good(g) /\ Nests(Parsed, Depth(g), g)
  BY <1>1, <1>2, KeepsFields, ParsedStill
<1>5. "if" \in {"if", "case", "while", "do"} /\ ~("if" \in {"while", "do"})
  OBVIOUS
<1> QED
  BY <1>1, <1>3, <1>4, <1>5, KeptIs

LEMMA WhileStatKeeps ==
    ASSUME IInv, NEW braced \in BOOLEAN, WhileStat(braced) \/ NeverStat(braced)
    PROVE  IInv'
<1> DEFINE start == Target(gen)
           jump == BranchPos(gen)
<1>1. ASSUME NEW k, Starts(k), NEW op \in {"branch", "jump"}, NEW state \in States,
             Statement(Code(gen, op, 0), Parsed, Frame("while", jump, start, state), LoopBody, braced)
      PROVE  IInv'
  <2> DEFINE g == Code(gen, op, 0)
  <2>1. Compiling /\ Good(gen) /\ frames # << >> /\ left' \in Nat
    BY <1>1, Started
  <2>2. Keeps(gen, g)
    BY <2>1, PlainCode
  <2>3. LoopBody \in SUBSET Flags /\ "KEEP" \in LoopBody /\ jump \in Nat /\ start \in Nat
    BY <2>1, FlagsAre, BranchPosIs, GoodFields
  <2> HIDE DEF g
  <2>4. Good(g) /\ Nests(Parsed, Depth(g), g) /\ start <= Target(g) /\ start \in Nat \ {0} /\ Target(g) \in Nat
    BY <2>1, <2>2, KeepsFields, ParsedStill, GoodFields
  <2> HIDE DEF jump, start
  <2>5. "while" \in {"if", "case", "while", "do"} /\ start \in 1..Target(g)
    BY <2>4
  <2>6. Statement(g, Parsed, Frame("while", jump, start, state), LoopBody, braced)
    BY <1>1 DEF g
  <2> QED
    BY <2>1, <2>3, <2>4, <2>5, <2>6, KeptIs
<1>2. MAYBE \in States /\ NO \in States
  BY StatesAre
<1>3. CASE WhileStat(braced)
  <2>1. Starts("while")
        /\ Statement(Code(gen, "branch", 0), Parsed, Frame("while", jump, start, MAYBE), LoopBody, braced)
    BY <1>3 DEF WhileStat
  <2> HIDE DEF jump, start
  <2> QED
    BY <1>1, <1>2, <2>1
<1>4. CASE NeverStat(braced)
  <2>1. Starts("never")
        /\ Statement(Code(gen, "jump", 0), Parsed, Frame("while", jump, start, NO), LoopBody, braced)
    BY <1>4 DEF NeverStat
  <2> HIDE DEF jump, start
  <2> QED
    BY <1>1, <1>2, <2>1
<1> QED
  BY <1>3, <1>4

LEMMA ForeverStatKeeps ==
    ASSUME IInv, NEW braced \in BOOLEAN, ForeverStat(braced) \/ DoStat(braced)
    PROVE  IInv'
<1> DEFINE start == Target(gen)
<1>1. ASSUME NEW k, Starts(k), NEW rule \in {"while", "do"}, NEW state \in States,
             Statement(gen, Parsed, Frame(rule, 0, start, state), LoopBody, braced)
      PROVE  IInv'
  <2>1. Compiling /\ Good(gen) /\ frames # << >> /\ left' \in Nat /\ Nests(Parsed, Depth(gen), gen)
    BY <1>1, Started
  <2>2. LoopBody \in SUBSET Flags /\ "KEEP" \in LoopBody /\ start \in Nat \ {0} /\ start \in Nat /\ 0 \in Nat
    BY <2>1, FlagsAre, GoodFields
  <2>3. start \in 1..Target(gen) /\ rule \in {"if", "case", "while", "do"}
    BY <2>2
  <2> HIDE DEF start
  <2> QED
    BY <1>1, <2>1, <2>2, <2>3, KeptIs
<1>2. YES \in States /\ NO \in States
  BY StatesAre
<1>3. CASE ForeverStat(braced)
  <2>1. Starts("forever") /\ Statement(gen, Parsed, Frame("while", 0, start, YES), LoopBody, braced)
    BY <1>3 DEF ForeverStat
  <2> HIDE DEF start
  <2> QED
    BY <1>1, <1>2, <2>1
<1>4. CASE DoStat(braced)
  <2>1. Starts("do") /\ Statement(gen, Parsed, Frame("do", 0, start, NO), LoopBody, braced)
    BY <1>4 DEF DoStat
  <2> HIDE DEF start
  <2> QED
    BY <1>1, <1>2, <2>1
<1> QED
  BY <1>3, <1>4

LEMMA CaseKeeps == ASSUME IInv, NEW braced \in BOOLEAN, Case(braced) PROVE IInv'
<1> DEFINE jump == Top(frames).jump
           g == SetJump(gen, jump, Target(gen))
           flags == {"CONDITIONAL", "KEEP"}
<1>1. Compiling /\ Good(gen) /\ frames # << >> /\ left \in Nat /\ left' = left - 1 /\ left > 0
      /\ Statement(g, frames, Frame("case", 0, 0, NO), flags, braced)
  BY Continued DEF Case
<1>2. left' \in Nat
  BY <1>1
<1>3. Target(gen) \in 1..Target(gen) /\ Depth(gen) \in Nat /\ Depth(gen) <= Depth(gen)
  BY <1>1, GoodFields
<1> HIDE DEF jump
<1>4. Keeps(gen, g)
  BY <1>1, <1>3, SetJumpIs
<1>5. flags \in SUBSET Flags /\ "KEEP" \in flags /\ 0 \in Nat /\ NO \in States
  BY FlagsAre, StatesAre
<1> HIDE DEF g, flags
<1>6. Good(g) /\ Depth(g) = Depth(gen) /\ Leads(gen, g, Depth(gen)) /\ Nests(frames, Depth(gen), gen)
  BY <1>1, <1>4, KeepsFields DEF Keeps, Compiling
<1>7. Nests(frames, Depth(gen), g)
  BY <1>1, <1>3, <1>6, NestsStill
<1>8. Nests(frames, Depth(g), g)
  BY <1>6, <1>7
<1>9. "case" \in {"if", "case", "while", "do"} /\ ~("case" \in {"while", "do"})
  OBVIOUS
<1> QED
  BY <1>1, <1>2, <1>5, <1>6, <1>8, <1>9, KeptIs

-----------------------------------------------------------------------------
(* Else, default and for, which enter and leave contexts at once.            *)

\* The innermost rule closes its context.
LEMMA ClosesTop ==
    ASSUME Compiling, frames # << >>, Owned(Top(frames)) >= 1, Top(frames).rule \notin {"try", "except"},
           NEW g, Keeps(gen, g)
    PROVE  /\ Closes(gen, Pop(g)) /\ Good(Pop(g)) /\ Depth(Pop(g)) = Depth(gen) - 1
           /\ Leads(gen, Pop(g), Depth(gen) - 1) /\ Depth(gen) >= 2
<1> DEFINE n == Depth(gen)
           o == Owned(Top(frames))
           h == Pop(g)
<1>1. Good(gen) /\ n \in Nat /\ o \in Nat /\ n - o \in Nat \ {0}
      /\ \A i \in (n - o) + 1..n : gen.ctxs[i].type # "FUNCTION"
  BY TopRule DEF Compiling
<1>2. n >= 2 /\ n \in (n - o) + 1..n
  <2>1. o >= 1
    OBVIOUS
  <2> HIDE DEF n, o
  <2> QED
    BY <1>1, <2>1
<1>3. Good(g) /\ Depth(g) = n /\ SameScope(Top(gen.ctxs), Top(g.ctxs)) /\ Top(gen.ctxs) = gen.ctxs[n]
  BY <1>1, KeepsFields, GoodFields DEF Top
<1>4. Top(g.ctxs).type # "FUNCTION"
  BY <1>1, <1>2, <1>3 DEF SameScope
<1>5. Closes(g, h)
  BY <1>2, <1>3, <1>4, PopIs
<1> HIDE DEF h
<1>6. Closes(gen, h) /\ Good(h)
  BY <1>1, <1>5, KeepsOn, ClosesOn
<1>7. Depth(h) = n - 1 /\ Leads(gen, h, n - 1)
  BY <1>6 DEF Closes
<1> QED
  BY <1>2, <1>6, <1>7 DEF h

LEMMA ElseKeeps == ASSUME IInv, NEW braced \in BOOLEAN, Else(braced) PROVE IInv'
<1> DEFINE g == Leave(gen, Depth(gen))
           c == Code(g, "jump", 0)
           h == Pop(c)
           jump == BranchPos(g)
           frame == Frame("else", jump, 0, NO)
           old == Top(frames).jump
           p == SetJump(h, old, Target(h))
           flags == {"CONDITIONAL"}
           n == Depth(gen)
<1>1. Compiling /\ Good(gen) /\ frames # << >> /\ Top(frames).rule = "if" /\ left' \in Nat
      /\ Statement(p, Front(frames), frame, flags, braced)
  BY Continued DEF Else
<1>2. Keeps(gen, g) /\ Good(g) /\ jump \in Nat
  BY <1>1, LeaveIs, KeepsFields, BranchPosIs
<1> HIDE DEF g, jump
<1>3. Keeps(gen, c)
  BY <1>1, <1>2, PlainCode, KeepsOn
<1> HIDE DEF c
<1>4. Owned(Top(frames)) = 1
  BY <1>1 DEF Owned
<1>5. Good(h) /\ Depth(h) = n - 1 /\ Leads(gen, h, n - 1)
  BY <1>1, <1>3, <1>4, ClosesTop
<1> HIDE DEF h, old
<1>6. Keeps(h, p)
  <2>1. Target(h) \in 1..Target(h)
    BY <1>5, GoodFields
  <2> QED
    BY <1>5, <2>1, SetJumpIs
<1> HIDE DEF p
<1>7. Good(p) /\ Depth(p) = n - 1 /\ Leads(h, p, Depth(h)) /\ n - 1 \in Nat /\ n \in Nat
  BY <1>1, <1>5, <1>6, KeepsFields, GoodFields DEF Keeps
<1>8. Nests(Front(frames), n - 1, gen)
  BY <1>1, <1>4, TopRule
<1> DEFINE m == n - 1
<1>9. m \in Nat /\ m <= m /\ Good(gen) /\ Good(h) /\ Leads(gen, h, m) /\ Leads(h, p, m) /\ Nests(Front(frames), m, gen)
      /\ Depth(p) = m
  BY <1>1, <1>5, <1>7, <1>8
<1> HIDE DEF m, n
<1>10. Nests(Front(frames), m, p)
  <2>1. Nests(Front(frames), m, h)
    BY <1>9, NestsStill
  <2> QED
    BY <1>9, <2>1, NestsStill
<1>11. IsFrame(frame, "else", jump, 0, FALSE)
  <2>1. "else" \in Rules /\ 0 \in Nat /\ NO \in States
    BY StatesAre DEF Rules
  <2> QED
    BY <1>2, <2>1, FrameIs
<1>12. flags \in SUBSET Flags /\ "KEEP" \notin flags
  BY FlagsAre
<1> HIDE DEF frame, flags
<1>13. frame \in Frames /\ frame.rule = "else"
  BY <1>11 DEF IsFrame
<1>14. Owned(frame) = 0
  BY <1>13 DEF Owned
<1>15. (m + 1) - 1 = m + 0 /\ \A i \in m + 1..m : FALSE
  BY <1>9
<1>16. m <= Depth(p) /\ frame.rule \notin {"try", "except"}
      /\ (Depth(p) + 1) - (IF "KEEP" \in flags THEN 0 ELSE 1) = m + Owned(frame)
      /\ (\A i \in m + 1..Depth(p) : p.ctxs[i].type # "FUNCTION")
      /\ (frame.rule \in {"while", "do", "for"} => frame.start \in 1..Target(p) /\ "KEEP" \in flags)
  BY <1>9, <1>12, <1>13, <1>14, <1>15
<1> QED
  BY <1>1, <1>7, <1>10, <1>12, <1>13, <1>16, StatementIs

LEMMA DefaultKeeps == ASSUME IInv, NEW braced \in BOOLEAN, Default(braced) PROVE IInv'
<1> DEFINE jump == Top(frames).jump
           g == SetJump(gen, jump, Target(gen))
           frame == Frame("default", 0, 0, NO)
           flags == {"CONDITIONAL", "KEEP"}
           n == Depth(gen)
           m == n - 1
<1>1. Compiling /\ Good(gen) /\ frames # << >> /\ Top(frames).rule = "switch" /\ left' \in Nat
      /\ Statement(g, Front(frames), frame, flags, braced)
  BY Continued DEF Default
<1>2. Target(gen) \in 1..Target(gen) /\ n \in Nat /\ n <= n
  BY <1>1, GoodFields
<1> HIDE DEF jump
<1>3. Keeps(gen, g)
  BY <1>1, <1>2, SetJumpIs
<1> HIDE DEF g
<1>4. Owned(Top(frames)) = 1
  BY <1>1 DEF Owned
<1>5. m \in Nat \ {0} /\ Nests(Front(frames), m, gen) /\ \A i \in m + 1..n : gen.ctxs[i].type # "FUNCTION"
  BY <1>1, <1>4, TopRule
<1>6. Good(g) /\ Depth(g) = n /\ Leads(gen, g, n) /\ \A i \in 1..n : SameScope(gen.ctxs[i], g.ctxs[i])
  BY <1>1, <1>3, KeepsFields DEF Keeps
<1>7. m <= n /\ (n + 1) - 0 = m + 2 /\ \A i \in m + 1..n : i \in 1..n
  <2> HIDE DEF n
  <2> QED
    BY <1>2, <1>5
<1> HIDE DEF m, n
<1>8. Nests(Front(frames), m, g)
  BY <1>1, <1>5, <1>6, <1>7, NestsStill
<1>9. \A i \in m + 1..n : g.ctxs[i].type # "FUNCTION"
  BY <1>5, <1>6, <1>7 DEF SameScope
<1>10. IsFrame(frame, "default", 0, 0, FALSE)
  <2>1. "default" \in Rules /\ 0 \in Nat /\ NO \in States
    BY StatesAre DEF Rules
  <2> QED
    BY <2>1, FrameIs
<1>11. flags \in SUBSET Flags /\ "KEEP" \in flags
  BY FlagsAre
<1> HIDE DEF frame, flags
<1>12. frame \in Frames /\ frame.rule = "default"
  BY <1>10 DEF IsFrame
<1>13. Owned(frame) = 2
  BY <1>12 DEF Owned
<1>14. m <= Depth(g) /\ frame.rule \notin {"try", "except"}
      /\ (Depth(g) + 1) - (IF "KEEP" \in flags THEN 0 ELSE 1) = m + Owned(frame)
      /\ (\A i \in m + 1..Depth(g) : g.ctxs[i].type # "FUNCTION")
      /\ (frame.rule \in {"while", "do", "for"} => frame.start \in 1..Target(g) /\ "KEEP" \in flags)
  BY <1>6, <1>7, <1>9, <1>11, <1>12, <1>13
<1> QED
  BY <1>1, <1>6, <1>8, <1>11, <1>12, <1>14, StatementIs

LEMMA ForStatKeeps == ASSUME IInv, NEW braced \in BOOLEAN, ForStat(braced) PROVE IInv'
<1> DEFINE none == {}
           u == Push(gen, "BODY", none)
           d == Declare(u)
           g == Write(d, d.used)
           p == Code(g, "branch", 0)
           jump == BranchPos(g)
           start == Target(p)
           frame == Frame("for", jump, start, NO)
           flags == LoopBody \union {"REPEATABLE"}
           n == Depth(gen)
<1>1. Compiling /\ Good(gen) /\ frames # << >> /\ left' \in Nat /\ gen.used < Cardinality(Regs)
      /\ Nests(Parsed, n, gen) /\ n \in Nat /\ n <= n
      /\ Statement(p, Parsed, frame, flags, braced)
  BY Started DEF ForStat
<1>2. Opens(gen, u) /\ u.used = gen.used /\ Top(u.ctxs).type = "BODY"
  <2>1. none \in SUBSET Flags /\ "BODY" \in {"BODY", "BLOCK"}
    BY FlagsAre
  <2> HIDE DEF none
  <2> QED
    BY <1>1, <2>1, PushIs
<1> HIDE DEF u
<1>3. Good(u) /\ Keeps(u, d) /\ d.used \in Regs
  <2>1. Good(u)
    BY <1>1, <1>2, OpensOn
  <2> QED
    BY <1>1, <1>2, <2>1, DeclareIs
<1> HIDE DEF d
<1>4. Good(d) /\ Keeps(d, g)
  BY <1>3, KeepsFields, ReadWriteAre
<1> HIDE DEF g
<1>5. Good(g) /\ Keeps(u, g) /\ jump \in Nat
  BY <1>3, <1>4, KeepsFields, KeepsOn, BranchPosIs
<1> HIDE DEF jump
<1>6. Keeps(g, p)
  BY <1>5, PlainCode
<1> HIDE DEF p
<1>7. Good(p) /\ Keeps(u, p) /\ start \in Nat \ {0}
  BY <1>3, <1>5, <1>6, KeepsFields, KeepsOn, GoodFields
<1>8. Opens(gen, p) /\ Depth(p) = n + 1 /\ Leads(gen, p, n)
  <2>1. Opens(gen, p)
    BY <1>1, <1>2, <1>7, OpensOn
  <2> QED
    BY <2>1 DEF Opens
<1>9. Nests(Parsed, n, p)
  BY <1>1, <1>8, NestsStill
<1>10. p.ctxs[n + 1].type = "BODY"
  <2>1. SameScope(Top(u.ctxs), Top(p.ctxs))
    BY <1>3, <1>7, KeepsFields
  <2> QED
    BY <1>2, <1>7, <1>8, <2>1, GoodFields DEF SameScope, Top
<1>11. IsFrame(frame, "for", jump, start, FALSE)
  <2>1. "for" \in Rules /\ NO \in States /\ start \in Nat
    BY <1>7, StatesAre DEF Rules
  <2> HIDE DEF start
  <2> QED
    BY <1>5, <2>1, FrameIs
<1>12. flags \in SUBSET Flags /\ "KEEP" \in flags
  BY FlagsAre
<1>13. start \in 1..Target(p)
  BY <1>7
<1> HIDE DEF frame, flags, start, n
<1>14. frame \in Frames /\ frame.rule = "for" /\ frame.start = start
  BY <1>11 DEF IsFrame
<1>15. Owned(frame) = 2
  BY <1>14 DEF Owned
<1>16. n <= n + 1 /\ ((n + 1) + 1) - 0 = n + 2 /\ \A i \in n + 1..n + 1 : i = n + 1
  BY <1>1
<1>17. n <= Depth(p) /\ frame.rule \notin {"try", "except"}
      /\ (Depth(p) + 1) - (IF "KEEP" \in flags THEN 0 ELSE 1) = n + Owned(frame)
      /\ (\A i \in n + 1..Depth(p) : p.ctxs[i].type # "FUNCTION")
      /\ (frame.rule \in {"while", "do", "for"} => frame.start \in 1..Target(p) /\ "KEEP" \in flags)
  BY <1>8, <1>10, <1>12, <1>13, <1>14, <1>15, <1>16
<1> QED
  BY <1>1, <1>7, <1>9, <1>12, <1>14, <1>17, StatementIs

LEMMA NestedStatKeeps == ASSUME IInv, NestedStat PROVE IInv'
<1>1. PICK braced \in BOOLEAN :
         \/ IfStat(braced) \/ Else(braced) \/ Case(braced) \/ Default(braced) \/ WhileStat(braced)
         \/ ForeverStat(braced) \/ NeverStat(braced) \/ DoStat(braced) \/ ForStat(braced)
  BY DEF NestedStat
<1> QED
  BY <1>1, IfStatKeeps, ElseKeeps, CaseKeeps, DefaultKeeps, WhileStatKeeps, ForeverStatKeeps, ForStatKeeps

-----------------------------------------------------------------------------
(* Switch, try and except.                                                   *)

LEMMA SwitchStatKeeps == ASSUME IInv, SwitchStat PROVE IInv'
<1> DEFINE none == {}
           u == Push(gen, "BLOCK", none)
           p == Code(u, "switch", 0)
           jump == BranchPos(u)
           frame == Frame("switch", jump, 0, NO)
           n == Depth(gen)
           fs == Append(Parsed, frame)
<1>1. Compiling /\ Good(gen) /\ left' \in Nat /\ Nests(Parsed, n, gen) /\ n \in Nat /\ n <= n
      /\ Settle(p, fs)
  BY Started DEF SwitchStat
<1>2. Opens(gen, u) /\ Top(u.ctxs).type = "BLOCK"
  <2>1. none \in SUBSET Flags /\ "BLOCK" \in {"BODY", "BLOCK"}
    BY FlagsAre
  <2> HIDE DEF none
  <2> QED
    BY <1>1, <2>1, PushIs
<1> HIDE DEF u
<1>3. Good(u) /\ jump \in Nat
  BY <1>1, <1>2, OpensOn, BranchPosIs
<1>4. Keeps(u, p)
  BY <1>3, PlainCode
<1> HIDE DEF p, jump
<1>5. Good(p) /\ Depth(p) = n + 1 /\ Leads(gen, p, n)
  <2>1. Opens(gen, p) /\ Good(p)
    BY <1>1, <1>2, <1>3, <1>4, OpensOn, KeepsFields
  <2> QED
    BY <2>1 DEF Opens
<1>6. p.ctxs[n + 1].type = "BLOCK"
  <2>1. SameScope(Top(u.ctxs), Top(p.ctxs))
    BY <1>3, <1>4, KeepsFields
  <2> QED
    BY <1>2, <1>5, <2>1, GoodFields DEF SameScope, Top
<1>7. IsFrame(frame, "switch", jump, 0, FALSE)
  <2>1. "switch" \in Rules /\ NO \in States /\ 0 \in Nat
    BY StatesAre DEF Rules
  <2> QED
    BY <1>3, <2>1, FrameIs
<1> HIDE DEF frame, n
<1>8. frame \in Frames /\ frame.rule = "switch"
  BY <1>7 DEF IsFrame
<1>9. Owned(frame) = 1
  BY <1>8 DEF Owned
<1>10. \A i \in n + 1..n + 1 : i = n + 1
  BY <1>1
<1>11. FrameFits(frame, n, n + 1, p)
  BY <1>6, <1>8, <1>9, <1>10 DEF FrameFits
<1>12. Nests(Parsed, n, p)
  BY <1>1, <1>5, NestsStill
<1>13. Nests(fs, n + 1, p)
  BY <1>8, <1>11, <1>12, Enters
<1> HIDE DEF fs
<1>14. Nests(fs, Depth(p), p)
  BY <1>5, <1>13
<1> QED
  BY <1>1, <1>5, <1>14, Settled

LEMMA TryStatKeeps == ASSUME IInv, TryStat PROVE IInv'
<1> DEFINE none == {}
           n == Depth(gen)
<1>1. Compiling /\ Good(gen) /\ left' \in Nat /\ Nests(Parsed, n, gen)
      /\ Xblock(gen, Parsed, Frame("try", 0, 0, NO), none)
  BY Started DEF TryStat
<1>2. none \in SUBSET Flags /\ "try" \in {"try", "except"} /\ "try" # "except" /\ 0 \in Nat
  BY FlagsAre
<1> HIDE DEF none
<1> QED
  BY <1>1, <1>2, XblockIs

\* The try or except block on top ends.
LEMMA EndsXblock ==
    ASSUME Compiling, frames # << >>, Top(frames).rule \in {"try", "except"}
    PROVE  LET g == EndXblock(gen)
           IN  /\ Closes(gen, g) /\ Good(g) /\ Depth(g) = Depth(gen) - 1 /\ Len(g.codes) = Len(gen.codes)
               /\ Depth(gen) - 1 = Depth(gen) - Owned(Top(frames))
<1> DEFINE n == Depth(gen)
           o == Owned(Top(frames))
           g == EndXblock(gen)
<1>1. Good(gen) /\ n \in Nat /\ n - o \in Nat \ {0}
  BY TopRule DEF Compiling
<1>2. o = 1
  BY DEF Owned
<1>3. n >= 2
  <2> HIDE DEF n, o
  <2> QED
    BY <1>1, <1>2
<1>4. Closes(gen, g) /\ Len(g.codes) = Len(gen.codes)
  BY <1>1, <1>3, EndXblockIs
<1> HIDE DEF g, o
<1>5. Good(g) /\ Depth(g) = n - 1
  BY <1>1, <1>4, ClosesOn DEF Closes
<1> QED
  BY <1>2, <1>4, <1>5 DEF g, o

LEMMA ExceptKeeps == ASSUME IInv, Except PROVE IInv'
<1> DEFINE flags == {"CATCHER"}
           g == EndXblock(gen)
           jump == Coder(gen)
           n == Depth(gen)
           m == n - Owned(Top(frames))
<1>1. Compiling /\ Good(gen) /\ frames # << >> /\ Top(frames).rule = "try" /\ left' \in Nat
      /\ Xblock(g, Front(frames), Frame("except", jump, 0, NO), flags)
  BY Continued DEF Except
<1>2. Closes(gen, g) /\ Good(g) /\ Depth(g) = m /\ Len(g.codes) = Len(gen.codes)
  <2>1. Top(frames).rule \in {"try", "except"}
    BY <1>1
  <2> QED
    BY <1>1, <2>1, EndsXblock
<1>3. jump \in 1..Len(g.codes) /\ jump \in Nat
  BY <1>1, <1>2, GoodFields
<1>4. Nests(Front(frames), m, gen)
  BY <1>1, TopRule
<1>5. flags \in SUBSET Flags
  BY FlagsAre
<1> HIDE DEF g, jump, flags, n, m
<1>6. Leads(gen, g, m) /\ m \in Nat /\ m <= m
  <2>1. Leads(gen, g, m)
    BY <1>2 DEF Closes
  <2>2. m \in Nat
    BY <1>2, GoodFields
  <2> QED
    BY <2>1, <2>2
<1>7. Nests(Front(frames), m, g)
  BY <1>1, <1>4, <1>6, NestsStill
<1>8. "except" \in {"try", "except"} /\ m = Depth(g)
  BY <1>2
<1> QED
  BY <1>1, <1>2, <1>3, <1>5, <1>7, <1>8, XblockIs

LEMMA OtherStatKeeps == ASSUME IInv, OtherStat PROVE IInv'
BY BodyStatKeeps, SwitchStatKeeps, TryStatKeeps, ExceptKeeps DEF OtherStat

\* What the end of a rule does once its context is gone.
LEMMA EndsAre ==
    ASSUME NEW g, Good(g), NEW pos, NEW modulator \in States
    PROVE  Keeps(g, Check(Merge(SetJump(g, pos, Target(g)), modulator)))
           /\ Keeps(g, Check(Merge(g, modulator)))
<1> DEFINE s == SetJump(g, pos, Target(g))
           m == Merge(s, modulator)
           c == Check(m)
           n == Merge(g, modulator)
           d == Check(n)
<1>1. Keeps(g, s)
  <2>1. Target(g) \in 1..Target(g)
    BY GoodFields
  <2> QED
    BY <2>1, SetJumpIs
<1> HIDE DEF s
<1>2. Good(s) /\ Keeps(s, m)
  BY <1>1, KeepsFields, MergeIs
<1> HIDE DEF m
<1>3. Good(m) /\ Keeps(m, c)
  BY <1>2, KeepsFields, CheckIs
<1> HIDE DEF c
<1>4. Keeps(g, c)
  BY <1>1, <1>2, <1>3, KeepsOn
<1>5. Keeps(g, n)
  BY MergeIs
<1> HIDE DEF n
<1>6. Good(n) /\ Keeps(n, d)
  BY <1>5, KeepsFields, CheckIs
<1> HIDE DEF d
<1>7. Keeps(g, d)
  BY <1>5, <1>6, KeepsOn
<1> QED
  BY <1>4, <1>7 DEF c, m, s, d, n

LEMMA EndStatementKeeps == ASSUME IInv, EndStatement PROVE IInv'
<1> DEFINE n == Depth(gen)
           f == Top(frames)
           l == Leave(gen, n)
           p == Pop(l)
<1>1. phase = "compile" /\ frames # << >> /\ f.rule \in {"block", "over"} /\ left' = left
      /\ Settle(IF f.closes THEN p ELSE gen, Front(frames))
  BY DEF EndStatement
<1>2. Compiling /\ Good(gen) /\ left' \in Nat
  BY <1>1, InvCompiling DEF Compiling
<1>3. CASE f.closes
  <2>1. Owned(f) = 1 /\ f.rule \notin {"try", "except"}
    BY <1>1, <1>3 DEF Owned
  <2>2. Keeps(gen, l)
    BY <1>2, LeaveIs
  <2> HIDE DEF l
  <2>3. Closes(gen, p) /\ Depth(p) = n - 1
    BY <1>1, <1>2, <2>1, <2>2, ClosesTop
  <2> HIDE DEF p, n
  <2>4. Leads(gen, p, Depth(p)) /\ Depth(p) = n - Owned(f) /\ Settle(p, Front(frames))
    BY <1>1, <1>3, <2>1, <2>3 DEF Closes
  <2> QED
    BY <1>1, <1>2, <2>4, Resumed DEF n
<1>4. CASE ~f.closes
  <2>1. Owned(f) = 0
    BY <1>1, <1>4 DEF Owned
  <2>2. Leads(gen, gen, n) /\ n \in Nat
    BY <1>2, KeepsNothing, GoodFields DEF Keeps
  <2>3. n = n - 0
    <3> HIDE DEF n
    <3> QED
      BY <2>2
  <2>4. Depth(gen) = Depth(gen) - Owned(f) /\ Leads(gen, gen, Depth(gen)) /\ Settle(gen, Front(frames))
    BY <1>1, <1>4, <2>1, <2>2, <2>3
  <2> QED
    BY <1>1, <1>2, <2>4, Resumed
<1> QED
  BY <1>3, <1>4

-----------------------------------------------------------------------------
(* The ends of statements.                                                   *)

LEMMA ResumedClosed ==
    ASSUME Compiling, frames # << >>, Owned(Top(frames)) = 1, NEW g, Closes(gen, g),
           left' \in Nat, Settle(g, Front(frames))
    PROVE  IInv'
<1>1. Leads(gen, g, Depth(g)) /\ Depth(g) = Depth(gen) - Owned(Top(frames))
  BY DEF Closes
<1> QED
  BY <1>1, Resumed

LEMMA ResumedKept ==
    ASSUME Compiling, frames # << >>, Owned(Top(frames)) = 0, NEW g, Keeps(gen, g),
           left' \in Nat, Settle(g, Front(frames))
    PROVE  IInv'
<1>1. Leads(gen, g, Depth(g)) /\ Depth(g) = Depth(gen)
  BY DEF Keeps
<1>2. Depth(gen) \in Nat
  BY GoodFields DEF Compiling
<1>3. Depth(g) = Depth(gen) - Owned(Top(frames))
  BY <1>1, <1>2
<1> QED
  BY <1>1, <1>3, Resumed

LEMMA EndBodyKeeps == ASSUME IInv, EndBody PROVE IInv'
<1>1. Compiling /\ Good(gen) /\ frames # << >> /\ Top(frames).rule = "inner" /\ left' \in Nat
      /\ Settle(gen, Front(frames))
  BY Continued DEF EndBody
<1>2. Owned(Top(frames)) = 0 /\ Keeps(gen, gen)
  BY <1>1, KeepsNothing DEF Owned
<1> QED
  BY <1>1, <1>2, ResumedKept

LEMMA EndIfKeeps == ASSUME IInv, EndIf PROVE IInv'
<1> DEFINE l == Leave(gen, Depth(gen))
           g == Pop(l)
           jump == Top(frames).jump
           e == Check(Merge(SetJump(g, jump, Target(g)), MAYBE))
<1>1. Compiling /\ Good(gen) /\ frames # << >> /\ Top(frames).rule = "if" /\ left' \in Nat
      /\ Settle(e, Front(frames))
  BY Continued DEF EndIf
<1>2. Owned(Top(frames)) = 1 /\ Top(frames).rule \notin {"try", "except"}
  BY <1>1 DEF Owned
<1>3. Keeps(gen, l)
  BY <1>1, LeaveIs
<1> HIDE DEF l
<1>4. Closes(gen, g) /\ Good(g)
  BY <1>1, <1>2, <1>3, ClosesTop
<1> HIDE DEF g, jump
<1>5. Keeps(g, e)
  BY <1>4, EndsAre, StatesAre
<1> HIDE DEF e
<1>6. Closes(gen, e)
  BY <1>1, <1>4, <1>5, ClosesOn
<1> QED
  BY <1>1, <1>2, <1>6, ResumedClosed

LEMMA EndElseKeeps == ASSUME IInv, EndElse PROVE IInv'
<1> DEFINE jump == Top(frames).jump
           e == Check(Merge(SetJump(gen, jump, Target(gen)), YES))
<1>1. Compiling /\ Good(gen) /\ frames # << >> /\ Top(frames).rule = "else" /\ left' \in Nat
      /\ Settle(e, Front(frames))
  BY Continued DEF EndElse
<1>2. Owned(Top(frames)) = 0
  BY <1>1 DEF Owned
<1> HIDE DEF jump
<1>3. Keeps(gen, e)
  BY <1>1, EndsAre, StatesAre
<1> HIDE DEF e
<1> QED
  BY <1>1, <1>2, <1>3, ResumedKept

LEMMA EndCaseKeeps == ASSUME IInv, EndCase PROVE IInv'
<1> DEFINE j == Jump(gen, Depth(gen), "ends")
           m == MoveBreaksUp(j)
           e == Pop(m)
<1>1. Compiling /\ Good(gen) /\ frames # << >> /\ Top(frames).rule = "case" /\ left' \in Nat
      /\ Settle(e, Front(frames))
  BY Continued DEF EndCase
<1>2. Owned(Top(frames)) = 1 /\ Top(frames).rule \notin {"try", "except"}
  BY <1>1 DEF Owned
<1>3. Depth(gen) \in 1..Depth(gen) /\ Depth(gen) >= 2
  <2>1. Keeps(gen, gen)
    BY <1>1, KeepsNothing
  <2> QED
    BY <1>1, <1>2, <2>1, ClosesTop, GoodFields
<1>4. Keeps(gen, j)
  BY <1>1, <1>3, JumpIs
<1> HIDE DEF j
<1>5. Good(j) /\ Depth(j) >= 2
  BY <1>1, <1>3, <1>4, KeepsFields
<1>6. Keeps(j, m)
  BY <1>5, MoveBreaksUpIs
<1> HIDE DEF m
<1>7. Keeps(gen, m)
  BY <1>1, <1>4, <1>6, KeepsOn
<1>8. Closes(gen, e)
  BY <1>1, <1>2, <1>7, ClosesTop
<1> HIDE DEF e
<1> QED
  BY <1>1, <1>2, <1>8, ResumedClosed

LEMMA EndSwitchKeeps == ASSUME IInv, EndSwitch PROVE IInv'
<1> DEFINE jump == Top(frames).jump
           g == SetJump(gen, jump, Target(gen))
           m == Merge(g, MAYBE)
           b == FixupBreaks(m)
           p == Pop(b)
           e == Check(Merge(p, YES))
<1>1. Compiling /\ Good(gen) /\ frames # << >> /\ Top(frames).rule = "switch" /\ left' \in Nat
      /\ Settle(e, Front(frames))
  BY Continued DEF EndSwitch, EndOfSwitch
<1>2. Owned(Top(frames)) = 1 /\ Top(frames).rule \notin {"try", "except"}
  BY <1>1 DEF Owned
<1>3. Keeps(gen, g) /\ Good(g)
  <2>1. Target(gen) \in 1..Target(gen)
    BY <1>1, GoodFields
  <2> HIDE DEF jump
  <2> QED
    BY <1>1, <2>1, SetJumpIs, KeepsFields
<1> HIDE DEF g
<1>4. Keeps(g, m) /\ Keeps(gen, m) /\ Good(m)
  <2>1. Keeps(g, m)
    BY <1>3, MergeIs, StatesAre
  <2> HIDE DEF m
  <2> QED
    BY <1>1, <1>3, <2>1, KeepsOn
<1> HIDE DEF m
<1>5. Keeps(gen, b)
  <2>1. Keeps(m, b)
    BY <1>4, FixupsAre
  <2> HIDE DEF b
  <2> QED
    BY <1>1, <1>4, <2>1, KeepsOn
<1> HIDE DEF b
<1>6. Closes(gen, p) /\ Good(p)
  BY <1>1, <1>2, <1>5, ClosesTop
<1> HIDE DEF p
<1>7. Keeps(p, e)
  BY <1>6, EndsAre, StatesAre
<1> HIDE DEF e
<1>8. Closes(gen, e)
  BY <1>1, <1>6, <1>7, ClosesOn
<1> QED
  BY <1>1, <1>2, <1>8, ResumedClosed

\* The second context of a rule is closed.
LEMMA ClosesSecond ==
    ASSUME Compiling, frames # << >>, Owned(Top(frames)) = 2, Top(frames).rule \notin {"try", "except"},
           NEW h, Leads(gen, h, Depth(gen) - 1), Depth(h) = Depth(gen) - 1, NEW k, Keeps(h, k)
    PROVE  Good(Pop(k)) /\ Depth(Pop(k)) = Depth(gen) - 2 /\ Leads(gen, Pop(k), Depth(gen) - 2)
<1> DEFINE n == Depth(gen)
           o == Owned(Top(frames))
           p == Pop(k)
<1>1. Good(gen) /\ n \in Nat /\ n - o \in Nat \ {0}
      /\ \A i \in (n - o) + 1..n : gen.ctxs[i].type # "FUNCTION"
  BY TopRule DEF Compiling
<1>2. n - 1 >= 2 /\ n - 1 \in (n - o) + 1..n /\ n - 2 \in Nat /\ n - 1 \in 1..n - 1 /\ (n - 1) - 1 = n - 2
      /\ n - 2 <= n - 1 /\ n - 2 <= n - 2
  <2>1. o = 2
    OBVIOUS
  <2> HIDE DEF n, o
  <2> QED
    BY <1>1, <2>1
<1>3. gen.ctxs[n - 1].type # "FUNCTION"
  BY <1>1, <1>2
<1> HIDE DEF o
<1> DEFINE m == n - 1
<1>4. Leads(gen, h, m) /\ Depth(h) = m /\ m >= 2 /\ m \in 1..m /\ gen.ctxs[m].type # "FUNCTION" /\ m - 1 = n - 2
  BY <1>2, <1>3
<1>5. h.ctxs[m].type = gen.ctxs[m].type /\ Good(h)
  BY <1>4 DEF Leads, SameScope
<1> HIDE DEF m, n
<1>6. Good(k) /\ Depth(k) = m /\ SameScope(h.ctxs[m], k.ctxs[m]) /\ Top(k.ctxs) = k.ctxs[m]
  <2>1. Good(k) /\ Depth(k) = m /\ SameScope(h.ctxs[m], k.ctxs[m])
    BY <1>4, <1>5, KeepsFields
  <2> QED
    BY <2>1, GoodFields DEF Top
<1>7. Top(k.ctxs).type # "FUNCTION"
  BY <1>4, <1>5, <1>6 DEF SameScope
<1>8. Closes(k, p)
  BY <1>4, <1>6, <1>7, PopIs
<1> HIDE DEF p
<1>9. Good(p) /\ Depth(p) = n - 2 /\ Leads(k, p, n - 2)
  <2>1. Leads(k, p, Depth(p)) /\ Depth(p) = n - 2
    BY <1>4, <1>6, <1>8 DEF Closes
  <2> QED
    BY <2>1 DEF Leads
<1>10. Leads(h, k, m)
  BY <1>4 DEF Keeps
<1> DEFINE l == n - 2
<1>11. l \in Nat /\ l <= m /\ l <= l /\ Leads(k, p, l) /\ Depth(p) = l
  BY <1>2, <1>9 DEF m
<1> HIDE DEF l
<1>12. Leads(h, p, l)
  BY <1>5, <1>10, <1>11, LeadsOn
<1>13. Leads(gen, p, l)
  BY <1>1, <1>4, <1>11, <1>12, LeadsOn
<1> QED
  BY <1>9, <1>13 DEF l, p, n

LEMMA EndDefaultKeeps == ASSUME IInv, EndDefault PROVE IInv'
<1> DEFINE v == MoveBreaksUp(gen)
           h == Pop(v)
           m == Merge(h, YES)
           b == FixupBreaks(m)
           p == Pop(b)
           e == Check(Merge(p, YES))
           n == Depth(gen)
<1>1. Compiling /\ Good(gen) /\ frames # << >> /\ Top(frames).rule = "default" /\ left' \in Nat
      /\ Settle(e, Front(frames))
  BY Continued DEF EndDefault, EndOfSwitch
<1>2. Owned(Top(frames)) = 2 /\ Top(frames).rule \notin {"try", "except"} /\ Owned(Top(frames)) >= 1
  <2>1. Owned(Top(frames)) = 2
    BY <1>1 DEF Owned
  <2> QED
    BY <1>1, <2>1
<1>3. n >= 2
  <2>1. Keeps(gen, gen)
    BY <1>1, KeepsNothing
  <2> QED
    BY <1>1, <1>2, <2>1, ClosesTop
<1>4. Keeps(gen, v)
  BY <1>1, <1>3, MoveBreaksUpIs
<1> HIDE DEF v
<1>5. Good(h) /\ Depth(h) = n - 1 /\ Leads(gen, h, n - 1)
  BY <1>1, <1>2, <1>4, ClosesTop
<1> HIDE DEF h
<1>6. Keeps(h, m) /\ Good(m)
  BY <1>5, MergeIs, StatesAre, KeepsFields
<1> HIDE DEF m
<1>7. Keeps(h, b)
  <2>1. Keeps(m, b)
    BY <1>6, FixupsAre
  <2> HIDE DEF b
  <2> QED
    BY <1>5, <1>6, <2>1, KeepsOn
<1> HIDE DEF b
<1>8. Good(p) /\ Depth(p) = n - 2 /\ Leads(gen, p, n - 2)
  BY <1>1, <1>2, <1>5, <1>7, ClosesSecond
<1> HIDE DEF p
<1>9. Keeps(p, e)
  BY <1>8, EndsAre, StatesAre
<1> HIDE DEF e
<1>10. n - 2 = n - Owned(Top(frames)) /\ n - 2 \in Nat /\ n - 2 <= n - 2
  <2>1. n - 2 \in Nat /\ n \in Nat
    BY <1>1, <1>8, GoodFields
  <2> HIDE DEF n
  <2> QED
    BY <1>2, <2>1
<1> DEFINE l == n - 2
<1>11. Leads(gen, p, l) /\ Depth(p) = l /\ l \in Nat /\ l <= l
  BY <1>8, <1>10
<1> HIDE DEF l
<1>12. Leads(gen, e, l) /\ Depth(e) = l
  <2>1. Leads(p, e, l) /\ Depth(e) = l
    BY <1>9, <1>11 DEF Keeps
  <2> QED
    BY <1>1, <1>11, <2>1, LeadsOn
<1>13. Leads(gen, e, Depth(e)) /\ Depth(e) = Depth(gen) - Owned(Top(frames))
  BY <1>10, <1>12 DEF l
<1> QED
  BY <1>1, <1>13, Resumed

-----------------------------------------------------------------------------
(* The ends of try and of loops.                                             *)

\* The TRY instruction of two blocks.
LEMMA EndTryIs ==
    ASSUME NEW g, Good(g), NEW tf \in 1..Len(g.codes), NEW ef \in 1..Len(g.codes)
    PROVE  Keeps(g, Merge(Code(g, "try", [try |-> tf, except |-> ef]), YES))
<1> DEFINE arg == [try |-> tf, except |-> ef]
           c == Code(g, "try", arg)
           e == Merge(c, YES)
<1>1. Len(g.codes) \in Nat
  BY GoodFields
<1>2. tf \in Nat /\ ef \in Nat
  BY <1>1
<1>3. arg \in [try : Nat, except : Nat] /\ arg \in [try : 1..Len(g.codes), except : 1..Len(g.codes)]
  BY <1>2
<1> HIDE DEF arg
<1>4. Codable(g, "try", arg)
  BY <1>3 DEF Codable, Ops, Operands
<1>5. Keeps(g, c)
  BY <1>4, CodeIs
<1> HIDE DEF c
<1>6. Good(c)
  BY <1>5, KeepsFields
<1>7. Keeps(c, e)
  BY <1>6, MergeIs, StatesAre
<1> HIDE DEF e
<1>8. Keeps(g, e)
  BY <1>5, <1>7, KeepsOn
<1> QED
  BY <1>8 DEF e, c, arg

LEMMA TryOnlyKeeps == ASSUME IInv, TryOnly PROVE IInv'
<1> DEFINE flags == {"CATCHER"}
           g == EndXblock(gen)
           x == PushXblock(g, flags)
           y == EndXblock(x)
           tf == Coder(gen)
           e == EndTry(y, tf)
<1>1. Compiling /\ Good(gen) /\ frames # << >> /\ Top(frames).rule = "try" /\ left' \in Nat
      /\ Settle(e, Front(frames))
  BY Continued DEF TryOnly
<1>2. Owned(Top(frames)) = 1 /\ Top(frames).rule \in {"try", "except"}
  BY <1>1 DEF Owned
<1>3. Closes(gen, g) /\ Good(g) /\ Len(g.codes) = Len(gen.codes)
  BY <1>1, <1>2, EndsXblock
<1>4. tf \in 1..Len(g.codes)
  BY <1>1, <1>3, GoodFields
<1> HIDE DEF g, tf
<1>5. Opens(g, x)
  BY <1>3, FlagsAre, PushXblockIs
<1> HIDE DEF x
<1>6. Good(x) /\ Depth(x) >= 2
  <2>1. Good(x) /\ Depth(x) = Depth(g) + 1 /\ Depth(g) \in Nat \ {0}
    BY <1>3, <1>5, OpensOn, GoodFields DEF Opens
  <2> QED
    BY <2>1
<1>7. Closes(x, y)
  BY <1>6, EndXblockIs
<1> HIDE DEF y
<1>8. Keeps(g, y) /\ Good(y)
  BY <1>3, <1>5, <1>7, OpensOn, KeepsFields
<1>9. tf \in 1..Len(y.codes) /\ Len(y.codes) \in 1..Len(y.codes)
  <2>1. Len(g.codes) <= Len(y.codes) /\ Len(g.codes) \in Nat /\ Len(y.codes) \in Nat
    BY <1>3, <1>8, KeepsFields, GoodFields
  <2> DEFINE a == Len(g.codes)
             b == Len(y.codes)
  <2>2. a <= b /\ a \in Nat /\ b \in Nat /\ tf \in 1..a
    BY <1>4, <2>1
  <2> HIDE DEF a, b
  <2>3. tf \in 1..b /\ b \in 1..b
    BY <2>2
  <2> QED
    BY <2>3 DEF b
<1>10. Keeps(y, e)
  BY <1>8, <1>9, EndTryIs DEF EndTry
<1> HIDE DEF e
<1>11. Keeps(g, e)
  BY <1>3, <1>8, <1>10, KeepsOn
<1>12. Closes(gen, e)
  BY <1>1, <1>3, <1>11, ClosesOn
<1> QED
  BY <1>1, <1>2, <1>12, ResumedClosed

LEMMA EndExceptKeeps == ASSUME IInv, EndExcept PROVE IInv'
<1> DEFINE g == EndXblock(gen)
           tf == Top(frames).jump
           ef == Coder(gen)
           e == Merge(Code(g, "try", [try |-> tf, except |-> ef]), YES)
<1>1. Compiling /\ Good(gen) /\ frames # << >> /\ Top(frames).rule = "except" /\ left' \in Nat
      /\ Settle(e, Front(frames))
  BY Continued DEF EndExcept
<1>2. Owned(Top(frames)) = 1 /\ Top(frames).rule \in {"try", "except"}
  BY <1>1 DEF Owned
<1>3. Closes(gen, g) /\ Good(g) /\ Len(g.codes) = Len(gen.codes)
  BY <1>1, <1>2, EndsXblock
<1>4. tf \in 1..Len(gen.codes)
  BY <1>1, TopRule
<1>5. ef \in 1..Len(gen.codes)
  BY <1>1, GoodFields
<1> HIDE DEF g, tf, ef
<1>6. tf \in 1..Len(g.codes) /\ ef \in 1..Len(g.codes)
  BY <1>3, <1>4, <1>5
<1>7. Keeps(g, e)
  BY <1>3, <1>6, EndTryIs
<1> HIDE DEF e
<1>8. Closes(gen, e)
  BY <1>1, <1>3, <1>7, ClosesOn
<1> QED
  BY <1>1, <1>2, <1>8, ResumedClosed

\* The jump back to the start of a loop.
LEMMA LoopsBack ==
    ASSUME Compiling, frames # << >>, Top(frames).rule \in {"while", "do", "for"},
           NEW g, Keeps(gen, g), NEW op \in {"jump", "branch"}
    PROVE  LET h == SetJump(Code(g, op, 0), BranchPos(g), Top(frames).start)
           IN  Keeps(gen, h) /\ Good(h)
<1> DEFINE start == Top(frames).start
           c == Code(g, op, 0)
           pos == BranchPos(g)
           h == SetJump(c, pos, start)
<1>1. Good(gen) /\ start \in 1..Target(gen)
  BY TopRule DEF Compiling
<1> HIDE DEF start, pos
<1>2. Keeps(g, c)
  BY <1>1, KeepsFields, PlainCode
<1> HIDE DEF c
<1>3. Keeps(gen, c) /\ Good(c)
  BY <1>1, <1>2, KeepsOn, KeepsFields
<1>4. start \in 1..Target(c)
  <2>1. Target(gen) <= Target(c) /\ Target(gen) \in Nat /\ Target(c) \in Nat
    BY <1>1, <1>3, KeepsFields, GoodFields
  <2> QED
    BY <1>1, <2>1
<1>5. Keeps(c, h)
  BY <1>3, <1>4, SetJumpIs
<1> HIDE DEF h
<1>6. Keeps(gen, h) /\ Good(h)
  BY <1>1, <1>3, <1>5, KeepsOn
<1> QED
  BY <1>6 DEF h, c, pos, start

\* Where continue leads to, and where break does.
LEMMA LeavesBody ==
    ASSUME Compiling
    PROVE  LET g == FixupContinuations(Leave(gen, Depth(gen))) IN Keeps(gen, g) /\ Good(g)
<1> DEFINE l == Leave(gen, Depth(gen))
           g == FixupContinuations(l)
<1>1. Good(gen) /\ Keeps(gen, l) /\ Good(l)
  BY LeaveIs, KeepsFields DEF Compiling
<1> HIDE DEF l
<1>2. Keeps(l, g)
  BY <1>1, FixupsAre
<1> HIDE DEF g
<1>3. Keeps(gen, g) /\ Good(g)
  BY <1>1, <1>2, KeepsOn
<1> QED
  BY <1>3 DEF g, l

LEMMA WiresOut ==
    ASSUME Compiling, NEW h, Keeps(gen, h), NEW pos
    PROVE  /\ Keeps(gen, FixupBreaks(SetJump(h, pos, Target(h))))
           /\ Keeps(gen, FixupBreaks(h))
<1> DEFINE s == SetJump(h, pos, Target(h))
           b == FixupBreaks(s)
           c == FixupBreaks(h)
<1>1. Good(gen) /\ Good(h)
  BY KeepsFields DEF Compiling
<1>2. Keeps(h, s)
  <2>1. Target(h) \in 1..Target(h)
    BY <1>1, GoodFields
  <2> QED
    BY <1>1, <2>1, SetJumpIs
<1> HIDE DEF s
<1>3. Keeps(gen, s) /\ Good(s)
  BY <1>1, <1>2, KeepsOn
<1>4. Keeps(s, b) /\ Keeps(h, c)
  BY <1>1, <1>3, FixupsAre
<1> HIDE DEF b, c
<1>5. Keeps(gen, b) /\ Keeps(gen, c)
  BY <1>1, <1>3, <1>4, KeepsOn
<1> QED
  BY <1>5 DEF b, c, s

LEMMA EndWhileKeeps == ASSUME IInv, EndWhile PROVE IInv'
<1> DEFINE g == FixupContinuations(Leave(gen, Depth(gen)))
           h == SetJump(Code(g, "jump", 0), BranchPos(g), Top(frames).start)
           out == FixupBreaks(SetJump(h, Top(frames).jump, Target(h)))
           p == Pop(out)
           state == Top(frames).state
           e == Check(Merge(p, state))
<1>1. Compiling /\ Good(gen) /\ frames # << >> /\ Top(frames).rule = "while" /\ left' \in Nat
      /\ Settle(e, Front(frames))
  BY Continued DEF EndWhile
<1>2. Owned(Top(frames)) = 1 /\ Top(frames).rule \notin {"try", "except"} /\ Top(frames).rule \in {"while", "do", "for"}
  BY <1>1 DEF Owned
<1>3. state \in States
  BY <1>1, TopRule
<1> HIDE DEF state
<1>4. Keeps(gen, g)
  BY <1>1, LeavesBody
<1> HIDE DEF g
<1>5. Keeps(gen, h)
  BY <1>1, <1>2, <1>4, LoopsBack
<1> HIDE DEF h
<1>6. Keeps(gen, out)
  BY <1>1, <1>5, WiresOut
<1> HIDE DEF out
<1>7. Closes(gen, p) /\ Good(p)
  BY <1>1, <1>2, <1>6, ClosesTop
<1> HIDE DEF p
<1>8. Keeps(p, e)
  BY <1>3, <1>7, EndsAre
<1> HIDE DEF e
<1>9. Closes(gen, e)
  BY <1>1, <1>7, <1>8, ClosesOn
<1> QED
  BY <1>1, <1>2, <1>9, ResumedClosed

LEMMA EndDoKeeps == ASSUME IInv, NEW read \in SUBSET Regs, EndDo(read) PROVE IInv'
<1> DEFINE g == FixupContinuations(Leave(gen, Depth(gen)))
           r == CHOOSE r \in read : TRUE
           c == IF read = {} THEN g ELSE Read(g, r)
           h == SetJump(Code(c, "branch", 0), BranchPos(c), Top(frames).start)
           out == FixupBreaks(h)
           p == Pop(out)
           e == Check(Merge(p, MAYBE))
<1>1. Compiling /\ Good(gen) /\ frames # << >> /\ Top(frames).rule = "do" /\ left' \in Nat
      /\ Settle(e, Front(frames))
  BY Continued DEF EndDo
<1>2. Owned(Top(frames)) = 1 /\ Top(frames).rule \notin {"try", "except"} /\ Top(frames).rule \in {"while", "do", "for"}
  BY <1>1 DEF Owned
<1>3. Keeps(gen, g) /\ Good(g)
  BY <1>1, LeavesBody
<1> HIDE DEF g
<1>4. Keeps(gen, c)
  <2>1. CASE read = {}
    BY <1>3, <2>1
  <2>2. CASE read # {}
    <3>1. r \in Regs
      BY <2>2
    <3> HIDE DEF r
    <3>2. Keeps(g, Read(g, r))
      BY <1>3, <3>1, ReadWriteAre
    <3> QED
      BY <1>1, <1>3, <2>2, <3>2, KeepsOn
  <2> QED
    BY <2>1, <2>2
<1> HIDE DEF c
<1>5. Keeps(gen, h)
  BY <1>1, <1>2, <1>4, LoopsBack
<1> HIDE DEF h
<1>6. Keeps(gen, out)
  BY <1>1, <1>5, WiresOut
<1> HIDE DEF out
<1>7. Closes(gen, p) /\ Good(p)
  BY <1>1, <1>2, <1>6, ClosesTop
<1> HIDE DEF p
<1>8. Keeps(p, e)
  BY <1>7, EndsAre, StatesAre
<1> HIDE DEF e
<1>9. Closes(gen, e)
  BY <1>1, <1>7, <1>8, ClosesOn
<1> QED
  BY <1>1, <1>2, <1>9, ResumedClosed

LEMMA EndForKeeps == ASSUME IInv, EndFor PROVE IInv'
<1> DEFINE g == FixupContinuations(Leave(gen, Depth(gen)))
           h == SetJump(Code(g, "branch", 0), BranchPos(g), Top(frames).start)
           out == FixupBreaks(SetJump(h, Top(frames).jump, Target(h)))
           p == Pop(out)
           m == Merge(p, MAYBE)
           l == Leave(m, Depth(m))
           e == Pop(l)
           n == Depth(gen)
<1>1. Compiling /\ Good(gen) /\ frames # << >> /\ Top(frames).rule = "for" /\ left' \in Nat
      /\ Settle(e, Front(frames))
  BY Continued DEF EndFor
<1>2. Owned(Top(frames)) = 2 /\ Owned(Top(frames)) >= 1 /\ Top(frames).rule \notin {"try", "except"}
      /\ Top(frames).rule \in {"while", "do", "for"}
  <2>1. Owned(Top(frames)) = 2
    BY <1>1 DEF Owned
  <2> QED
    BY <1>1, <2>1
<1>3. Keeps(gen, g)
  BY <1>1, LeavesBody
<1> HIDE DEF g
<1>4. Keeps(gen, h)
  BY <1>1, <1>2, <1>3, LoopsBack
<1> HIDE DEF h
<1>5. Keeps(gen, out)
  BY <1>1, <1>4, WiresOut
<1> HIDE DEF out
<1>6. Good(p) /\ Depth(p) = n - 1 /\ Leads(gen, p, n - 1)
  BY <1>1, <1>2, <1>5, ClosesTop
<1> HIDE DEF p
<1>7. Keeps(p, m) /\ Good(m)
  BY <1>6, MergeIs, StatesAre, KeepsFields
<1> HIDE DEF m
<1>8. Keeps(p, l)
  BY <1>6, <1>7, LeaveIs, KeepsOn
<1> HIDE DEF l
<1>9. Depth(e) = n - 2 /\ Leads(gen, e, n - 2)
  BY <1>1, <1>2, <1>6, <1>8, ClosesSecond
<1> HIDE DEF e
<1>10. Leads(gen, e, Depth(e)) /\ Depth(e) = Depth(gen) - Owned(Top(frames))
  BY <1>2, <1>9
<1> QED
  BY <1>1, <1>10, Resumed

LEMMA EndOfStatKeeps == ASSUME IInv, EndOfStat PROVE IInv'
<1>1. ASSUME EndDo({}) PROVE IInv'
  <2> DEFINE read == {}
  <2>1. read \in SUBSET Regs /\ EndDo(read)
    BY <1>1
  <2> HIDE DEF read
  <2> QED
    BY <2>1, EndDoKeeps
<1>2. ASSUME NEW r \in Regs, EndDo({r}) PROVE IInv'
  <2> DEFINE read == {r}
  <2>1. read \in SUBSET Regs /\ EndDo(read)
    BY <1>2
  <2> HIDE DEF read
  <2> QED
    BY <2>1, EndDoKeeps
<1> QED
  BY <1>1, <1>2, EndStatementKeeps, EndBodyKeeps, EndIfKeeps, EndElseKeeps, EndCaseKeeps, EndSwitchKeeps,
     EndDefaultKeeps, TryOnlyKeeps, EndExceptKeeps, EndWhileKeeps, EndForKeeps DEF EndOfStat

-----------------------------------------------------------------------------
(* The end of the function.                                                  *)

\* With no rule left, only the function's own context is open.
LEMMA OnlyFunction ==
    ASSUME Compiling, frames = << >>
    PROVE  Len(gen.ctxs) = 1 /\ Coder(gen) = 1 /\ \A i \in 1..Len(gen.ctxs) : gen.ctxs[i].coder = 1
<1>1. Good(gen) /\ Nests(frames, Depth(gen), gen)
  BY DEF Compiling
<1>2. Len(frames) = 0
  OBVIOUS
<1>3. PICK d : IsDepth(d, frames, Depth(gen), gen)
  BY <1>1 DEF Nests
<1>4. Depth(gen) = 1
  BY <1>2, <1>3 DEF IsDepth
<1>5. Scoped(gen) /\ Len(gen.ctxs) = 1 /\ Coder(gen) = gen.ctxs[Depth(gen)].coder
  BY <1>1, <1>4, GoodFields DEF Good
<1>6. gen.ctxs[1].coder = 1
  BY <1>5 DEF Scoped
<1> QED
  BY <1>4, <1>5, <1>6

\* All code is finished then, once the function's own is ended.
LEMMA AllFinished ==
    ASSUME Compiling, frames = << >>
    PROVE  LET codes == Code(gen, "end", 0).codes
           IN  /\ codes \in Seq(Seq(Instructions)) /\ Len(codes) \in Nat \ {0}
               /\ \A k \in 1..Len(codes) : Finished(codes[k], Len(codes))
<1> DEFINE h == Code(gen, "end", 0)
<1>1. Good(gen) /\ Coded(gen)
  BY DEF Compiling, Good
<1>2. Codable(gen, "end", 0)
  <2>1. "end" \in Ops /\ "end" # "init" /\ "end" # "try"
    BY DEF Ops
  <2> QED
    BY <2>1, OperandsAre
<1>3. /\ Keeps(gen, h) /\ Len(h.codes) = Len(gen.codes) /\ Finished(h.codes[Coder(gen)], Len(h.codes))
      /\ \A k \in 1..Len(gen.codes) : k # Coder(gen) => h.codes[k] = gen.codes[k]
  BY <1>1, <1>2, CodeIs
<1> HIDE DEF h
<1>4. h.codes \in Seq(Seq(Instructions)) /\ Len(gen.codes) \in Nat /\ Coder(gen) \in 1..Len(gen.codes)
  BY <1>1, <1>3, KeepsFields, GoodFields
<1>5. Coder(gen) = 1 /\ \A i \in 1..Len(gen.ctxs) : gen.ctxs[i].coder = 1
  BY OnlyFunction
<1>6. ASSUME NEW k \in 1..Len(h.codes) PROVE Finished(h.codes[k], Len(h.codes))
  <2>1. CASE k = 1
    BY <1>3, <1>5, <2>1
  <2>2. CASE k # 1
    <3>1. k \in 1..Len(gen.codes) /\ h.codes[k] = gen.codes[k]
      BY <1>3, <1>5, <2>2
    <3>2. Finished(gen.codes[k], Len(gen.codes))
      BY <1>1, <1>5, <2>2, <3>1 DEF Coded
    <3> QED
      BY <1>3, <3>1, <3>2
  <2> QED
    BY <2>1, <2>2
<1>7. Len(h.codes) \in Nat \ {0}
  BY <1>3, <1>4
<1> QED
  BY <1>4, <1>6, <1>7 DEF h

LEMMA IdleWith ==
    ASSUME NEW codes \in Seq(Seq(Instructions))
    PROVE  LET g == [Idle EXCEPT !.codes = codes]
           IN  g \in Generators /\ g.codes = codes /\ g.used = 0
<1> DEFINE none == << >>
<1>1. none \in Seq(Contexts) /\ none \in Seq(Seq(Instructions))
  OBVIOUS
<1> HIDE DEF none
<1>2. Idle = [ctxs |-> none, codes |-> none, used |-> 0, ok |-> TRUE]
  BY DEF Idle, none
<1>3. Idle \in Generators /\ Idle.used = 0
  BY <1>1, <1>2 DEF Generators
<1> QED
  BY <1>3, GenWith

LEMMA CallIs ==
    ASSUME NEW c \in Nat, NEW h \in Nat
    PROVE  LET f == Call(c, h)
           IN  f \in Calls /\ f.coder = c /\ f.pc = 1 /\ f.handler = h
<1>1. << >> \in Seq(Regs)
  OBVIOUS
<1> QED
  BY <1>1 DEF Call, Calls

LEMMA EndFunctionKeeps == ASSUME IInv, EndFunction PROVE IInv'
<1>1. Compiling /\ frames = << >> /\ stack = << >> /\ results' \in BOOLEAN /\ left' = 0
  BY InvCompiling DEF EndFunction, Compiling
<1>2. Cardinality(Regs) \in Nat
  BY RegsAre
<1>3. CASE phase' = "rejected" /\ gen' = Idle /\ stack' = stack
  <2> DEFINE codes == << >>
  <2>1. codes \in Seq(Seq(Instructions)) /\ [Idle EXCEPT !.codes = codes] = Idle
    BY DEF Idle
  <2> HIDE DEF codes
  <2>2. gen' \in Generators /\ gen'.used = 0
    BY <1>3, <2>1, IdleWith
  <2>3. gen'.used <= Cardinality(Regs) /\ left' \in Nat
    BY <1>1, <1>2, <2>2
  <2> QED
    BY <1>1, <1>3, <2>2, <2>3 DEF IInv
<1>4. CASE /\ phase' = "run" /\ gen' = [Idle EXCEPT !.codes = Code(gen, "end", 0).codes]
           /\ stack' = <<Call(1, 0)>>
  <2> DEFINE codes == Code(gen, "end", 0).codes
             f == Call(1, 0)
  <2>1. codes \in Seq(Seq(Instructions)) /\ Len(codes) \in Nat \ {0} /\ \A k \in 1..Len(codes) : Finished(codes[k], Len(codes))
    BY <1>1, AllFinished
  <2>2. gen' = [Idle EXCEPT !.codes = codes] /\ stack' = <<f>>
    BY <1>4
  <2> HIDE DEF codes
  <2>3. gen' \in Generators /\ gen'.used = 0 /\ gen'.codes = codes
    BY <2>1, <2>2, IdleWith
  <2>4. f \in Calls /\ f.coder = 1 /\ f.pc = 1 /\ f.handler = 0
    BY CallIs
  <2> HIDE DEF f
  <2>5. stack' \in Seq(Calls) /\ Len(stack') = 1 /\ stack'[1] = f /\ stack' # << >>
    BY <2>2, <2>4
  <2>6. 1 \in 1..Len(codes) /\ 0 \in 0..Len(codes) /\ Len(codes[1]) \in Nat \ {0} /\ 1 \in 1..Len(codes[1])
    <3>1. 1 \in 1..Len(codes) /\ 0 \in 0..Len(codes)
      BY <2>1
    <3>2. codes[1] # << >> /\ codes[1] \in Seq(Instructions)
      BY <2>1, <3>1 DEF Finished
    <3>3. Len(codes[1]) \in Nat \ {0}
      BY <3>2
    <3> QED
      BY <3>1, <3>3
  <2>7. \A i \in 1..Len(stack') : i = 1
    BY <2>5
  <2>8. RunsWell(stack', codes)
    BY <2>1, <2>4, <2>5, <2>6, <2>7 DEF RunsWell
  <2>9. gen'.used <= Cardinality(Regs) /\ left' \in Nat
    BY <1>1, <1>2, <2>3
  <2> QED
    BY <1>1, <1>4, <2>3, <2>5, <2>8, <2>9 DEF IInv
<1> QED
  BY <1>3, <1>4 DEF EndFunction

-----------------------------------------------------------------------------
(* The running program.                                                      *)

\* A call that may be on top of the stack.
Fits(f, codes) ==
    /\ f \in Calls
    /\ f.coder \in 1..Len(codes)
    /\ f.pc \in 1..Len(codes[f.coder])
    /\ f.handler \in 0..Len(codes)

Running ==
    /\ phase = "run" /\ results \in BOOLEAN /\ left \in Nat /\ gen \in Generators
    /\ gen.used <= Cardinality(Regs) /\ RunsWell(stack, gen.codes)
    /\ Len(stack) \in Nat \ {0}

LEMMA InvRunning == IInv /\ phase = "run" => Running
<1> SUFFICES ASSUME IInv, phase = "run" PROVE Running
  OBVIOUS
<1>1. RunsWell(stack, gen.codes) /\ stack # << >>
  BY DEF IInv
<1>2. Len(stack) \in Nat \ {0}
  BY <1>1 DEF RunsWell
<1> QED
  BY <1>1, <1>2 DEF IInv, Running

LEMMA Ran ==
    ASSUME Running, NEW s, Runs(s), RunsWell(s, gen.codes)
    PROVE  IInv'
<1>1. stack' = s /\ phase' = (IF s = << >> THEN "done" ELSE "run") /\ results' = results /\ left' = left
      /\ gen' = gen
  BY DEF Runs
<1>2. RunsWell(stack', gen'.codes)
  BY <1>1
<1>3. phase' \in {"run", "done"} /\ (phase' = "run" => stack' # << >>)
  BY <1>1
<1>4. results' \in BOOLEAN /\ left' \in Nat /\ gen' \in Generators /\ gen'.used <= Cardinality(Regs)
  BY <1>1 DEF Running
<1> QED
  BY <1>2, <1>3, <1>4 DEF IInv

\* The instruction at a call that fits, and the one behind it.
LEMMA InsIs ==
    ASSUME Running, NEW f, Fits(f, gen.codes)
    PROVE  LET code == gen.codes[f.coder]
               ins == code[f.pc]
           IN  /\ ins \in Instructions /\ Len(code) \in Nat /\ Lands(ins, Len(code), Len(gen.codes))
               /\ f.pc \in 1..Len(code)
               /\ ins.op # "end" => f.pc + 1 \in 1..Len(code)
<1> DEFINE code == gen.codes[f.coder]
           n == Len(code)
<1>1. gen.codes \in Seq(Seq(Instructions)) /\ \A k \in 1..Len(gen.codes) : Finished(gen.codes[k], Len(gen.codes))
  BY GenWith DEF Running, RunsWell
<1>2. f.coder \in 1..Len(gen.codes) /\ f.pc \in 1..n
  BY DEF Fits
<1>3. code \in Seq(Instructions) /\ Finished(code, Len(gen.codes))
  BY <1>1, <1>2
<1> HIDE DEF code
<1>4. n \in Nat /\ code[n].op = "end" /\ (\A p \in 1..n : Lands(code[p], n, Len(gen.codes)))
  BY <1>3 DEF Finished
<1>5. code[f.pc] \in Instructions /\ Lands(code[f.pc], n, Len(gen.codes))
  BY <1>2, <1>3, <1>4
<1> DEFINE p == f.pc
<1>6. code[p].op # "end" => p # n
  BY <1>4
<1>7. p # n => p + 1 \in 1..n
  <2> HIDE DEF n, p
  <2>1. p \in 1..n /\ n \in Nat
    BY <1>2, <1>4 DEF p
  <2> QED
    BY <2>1
<1> QED
  BY <1>2, <1>4, <1>5, <1>6, <1>7 DEF code

\* Every call of the stack fits; those below the top are at their TRY.
LEMMA CallsFit ==
    ASSUME Running
    PROVE  /\ stack \in Seq(Calls)
           /\ \A i \in 1..Len(stack) : Fits(stack[i], gen.codes)
           /\ \A i \in 1..Len(stack) : i < Len(stack) => gen.codes[stack[i].coder][stack[i].pc].op = "try"
           /\ Len(stack) \in 1..Len(stack) /\ AtFrame = stack[Len(stack)] /\ Fits(AtFrame, gen.codes)
           /\ AtFrame.table \in Seq(Regs)
<1>1. RunsWell(stack, gen.codes) /\ Len(stack) \in Nat \ {0}
  BY DEF Running
<1>2. stack \in Seq(Calls)
  BY <1>1 DEF RunsWell
<1>3. \A i \in 1..Len(stack) : stack[i] \in Calls
  BY <1>2
<1>4. \A i \in 1..Len(stack) : Fits(stack[i], gen.codes)
  BY <1>1, <1>3 DEF RunsWell, Fits
<1>5. Len(stack) \in 1..Len(stack)
  BY <1>1
<1>6. AtFrame = stack[Len(stack)] /\ Fits(AtFrame, gen.codes)
  BY <1>4, <1>5 DEF AtFrame, Top
<1>7. AtFrame.table \in Seq(Regs)
  BY <1>6 DEF Fits, Calls
<1> QED
  BY <1>1, <1>2, <1>4, <1>5, <1>6, <1>7 DEF RunsWell

\* The stack cut at the call i, with another call on it.
LEMMA CutAndPushed ==
    ASSUME Running, NEW i \in 0..Len(stack), NEW f, Fits(f, gen.codes),
           \A k \in 1..i : gen.codes[stack[k].coder][stack[k].pc].op = "try"
    PROVE  RunsWell(Append(SubSeq(stack, 1, i), f), gen.codes)
<1> DEFINE s == SubSeq(stack, 1, i)
           t == Append(s, f)
           n == Len(stack)
<1>1. stack \in Seq(Calls) /\ n \in Nat /\ \A k \in 1..n : Fits(stack[k], gen.codes)
  BY CallsFit
<1>2. i \in Nat /\ i <= n /\ (\A k \in 1..i : k \in 1..n)
  BY <1>1
<1>3. s \in Seq(Calls) /\ Len(s) = i /\ \A k \in 1..i : s[k] = stack[k]
  BY <1>1, <1>2
<1> HIDE DEF s
<1>4. f \in Calls
  BY DEF Fits
<1>5. t \in Seq(Calls) /\ Len(t) = i + 1 /\ t[i + 1] = f /\ \A k \in 1..i : t[k] = s[k]
  BY <1>2, <1>3, <1>4
<1> HIDE DEF t
<1>6. \A k \in 1..Len(t) : k = i + 1 \/ k \in 1..i
  BY <1>2, <1>5
<1>7. \A k \in 1..Len(t) : Fits(t[k], gen.codes)
  BY <1>1, <1>2, <1>3, <1>5, <1>6
<1>8. \A k \in 1..Len(t) : k < Len(t) => k \in 1..i
  BY <1>2, <1>5
<1>9. \A k \in 1..Len(t) : k < Len(t) => gen.codes[t[k].coder][t[k].pc].op = "try"
  BY <1>3, <1>5, <1>8
<1>10. \A k \in 1..Len(gen.codes) : Finished(gen.codes[k], Len(gen.codes))
  BY DEF Running, RunsWell
<1>11. RunsWell(t, gen.codes)
  BY <1>5, <1>7, <1>9, <1>10 DEF RunsWell, Fits
<1> QED
  BY <1>11 DEF t, s

LEMMA NothingRuns == Running => RunsWell(<< >>, gen.codes)
<1> DEFINE none == << >>
<1>1. none \in Seq(Calls) /\ \A i \in 1..Len(none) : FALSE
  OBVIOUS
<1> HIDE DEF none
<1> SUFFICES ASSUME Running PROVE RunsWell(none, gen.codes)
  BY DEF none
<1>2. \A k \in 1..Len(gen.codes) : Finished(gen.codes[k], Len(gen.codes))
  BY DEF Running, RunsWell
<1> QED
  BY <1>1, <1>2 DEF RunsWell

LEMMA TopReplaced ==
    ASSUME Running, NEW f, Fits(f, gen.codes)
    PROVE  RunsWell(Becomes(f), gen.codes)
<1> DEFINE n == Len(stack)
           i == n - 1
<1>1. n \in Nat \ {0} /\ \A k \in 1..n : k < n => gen.codes[stack[k].coder][stack[k].pc].op = "try"
  BY CallsFit DEF Running
<1>2. i \in 0..n /\ \A k \in 1..i : k \in 1..n /\ k < n
  <2> HIDE DEF n
  <2> QED
    BY <1>1
<1>3. Becomes(f) = Append(SubSeq(stack, 1, i), f)
  BY DEF Becomes, Front
<1>4. i \in 0..Len(stack) /\ \A k \in 1..i : gen.codes[stack[k].coder][stack[k].pc].op = "try"
  BY <1>1, <1>2
<1> HIDE DEF i
<1> QED
  BY <1>3, <1>4, CutAndPushed

\* A call that goes on elsewhere in its code.
LEMMA Moves ==
    ASSUME Running, NEW p \in 1..Len(gen.codes[AtFrame.coder]), NEW table \in Seq(Regs)
    PROVE  /\ Fits([AtFrame EXCEPT !.pc = p], gen.codes)
           /\ Fits([AtFrame EXCEPT !.pc = p, !.table = table], gen.codes)
<1> DEFINE f == AtFrame
           a == [f EXCEPT !.pc = p]
           b == [f EXCEPT !.pc = p, !.table = table]
<1>1. f \in Calls /\ Fits(f, gen.codes)
  BY CallsFit DEF Fits
<1>2. p \in Nat
  <2>1. Len(gen.codes[f.coder]) \in Nat
    BY <1>1, InsIs
  <2> QED
    BY <2>1
<1> HIDE DEF f
<1>3. a \in Calls /\ a.coder = f.coder /\ a.pc = p /\ a.handler = f.handler
  BY <1>1, <1>2 DEF Calls
<1>4. b \in Calls /\ b.coder = f.coder /\ b.pc = p /\ b.handler = f.handler
  BY <1>1, <1>2 DEF Calls
<1>5. p \in 1..Len(gen.codes[f.coder])
  BY DEF f
<1> HIDE DEF a, b
<1> QED
  BY <1>1, <1>3, <1>4, <1>5 DEF Fits, a, b, f

-----------------------------------------------------------------------------
(* Its instructions.                                                         *)

LEMMA AtIns ==
    ASSUME Running
    PROVE  LET code == gen.codes[AtFrame.coder]
           IN  /\ Ins \in Instructions /\ Len(code) \in Nat /\ Lands(Ins, Len(code), Len(gen.codes))
               /\ AtFrame.pc \in 1..Len(code)
               /\ Ins.op # "end" => AtFrame.pc + 1 \in 1..Len(code)
<1>1. Fits(AtFrame, gen.codes)
  BY CallsFit
<1> QED
  BY <1>1, InsIs DEF Ins

\* On to the next instruction, with another clean table or the same.
LEMMA GoesOn ==
    ASSUME Running, Ins.op # "end"
    PROVE  /\ Fits(Next1, gen.codes) /\ Next1.table = AtFrame.table
           /\ \A table \in Seq(Regs) : Fits([Next1 EXCEPT !.table = table], gen.codes)
<1> DEFINE f == AtFrame
           p == f.pc + 1
<1>1. p \in 1..Len(gen.codes[AtFrame.coder])
  BY AtIns
<1>2. f \in Calls
  BY CallsFit DEF Fits
<1>3. Next1 = [f EXCEPT !.pc = p]
  BY DEF Next1
<1> HIDE DEF f, p
<1>4. Next1.table = f.table
  BY <1>2, <1>3 DEF Calls
<1>5. Fits(Next1, gen.codes)
  BY <1>1, <1>3, CallsFit, Moves DEF f
<1>6. ASSUME NEW table \in Seq(Regs) PROVE Fits([Next1 EXCEPT !.table = table], gen.codes)
  <2>1. [Next1 EXCEPT !.table = table] = [f EXCEPT !.pc = p, !.table = table]
    BY <1>3
  <2>2. Fits([AtFrame EXCEPT !.pc = p, !.table = table], gen.codes)
    BY <1>1, Moves
  <2> QED
    BY <2>1, <2>2 DEF f
<1> QED
  BY <1>4, <1>5, <1>6 DEF f

LEMMA StepVariableKeeps == ASSUME IInv, StepVariable PROVE IInv'
<1>1. Running /\ Ins.op \in {"init", "assign", "use"}
  BY InvRunning DEF StepVariable, Executing
<1> DEFINE table == Append(Next1.table, Ins.arg)
           f == IF Ins.op = "init" THEN [Next1 EXCEPT !.table = table] ELSE Next1
<1>2. Ins.op = "init" => table \in Seq(Regs)
  <2>1. Ins.op = "init" => Ins.arg \in Regs
    BY <1>1, AtIns DEF Lands
  <2>2. AtFrame.table \in Seq(Regs) /\ Next1.table = AtFrame.table
    BY <1>1, CallsFit, GoesOn
  <2> QED
    BY <2>1, <2>2
<1>3. Runs(Becomes(f))
  BY DEF StepVariable
<1> HIDE DEF table
<1>4. Fits(f, gen.codes)
  BY <1>1, <1>2, GoesOn
<1> HIDE DEF f
<1> QED
  BY <1>1, <1>3, <1>4, TopReplaced, Ran

LEMMA StepCleanKeeps == ASSUME IInv, StepClean PROVE IInv'
<1>1. Running /\ Ins.op = "clean"
  BY InvRunning DEF StepClean, Executing
<1> DEFINE old == AtFrame.table
           n == Least(Len(old), Ins.arg)
           table == SubSeq(old, 1, n)
           f == [Next1 EXCEPT !.table = table]
<1>2. Ins.arg \in Nat /\ old \in Seq(Regs) /\ Next1.table = old
  BY <1>1, AtIns, CallsFit, GoesOn DEF Lands
<1>3. n \in 0..Len(old)
  <2> DEFINE l == Len(old)
             a == Ins.arg
  <2>1. l \in Nat /\ a \in Nat
    BY <1>2
  <2> HIDE DEF l, a
  <2>2. Least(l, a) \in 0..l
    BY <2>1 DEF Least
  <2> QED
    BY <2>2 DEF l, a
<1>4. Runs(Becomes(f))
  BY <1>2 DEF StepClean
<1> HIDE DEF n, old
<1>5. table \in Seq(Regs)
  BY <1>2, <1>3
<1> HIDE DEF table
<1>6. Fits(f, gen.codes)
  BY <1>1, <1>5, GoesOn
<1> HIDE DEF f
<1> QED
  BY <1>1, <1>4, <1>6, TopReplaced, Ran

LEMMA StepJumpKeeps == ASSUME IInv, StepJump PROVE IInv'
<1>1. Running /\ Ins.op # "end"
  BY InvRunning DEF StepJump, Executing
<1>2. PICK p \in (IF Ins.op = "branch" THEN Ins.to \union {AtFrame.pc + 1}
                  ELSE IF Ins.to = {} THEN {AtFrame.pc + 1} ELSE Ins.to) :
        Runs(Becomes([AtFrame EXCEPT !.pc = p]))
  BY DEF StepJump
<1>3. p \in 1..Len(gen.codes[AtFrame.coder])
  <2>1. Ins.to \subseteq 1..Len(gen.codes[AtFrame.coder])
    BY <1>1, AtIns DEF Lands
  <2>2. AtFrame.pc + 1 \in 1..Len(gen.codes[AtFrame.coder])
    BY <1>1, AtIns
  <2>3. p \in Ins.to \/ p = AtFrame.pc + 1
    BY <1>2
  <2> QED
    BY <2>1, <2>2, <2>3
<1> DEFINE f == [AtFrame EXCEPT !.pc = p]
<1>4. Fits(f, gen.codes)
  BY <1>1, <1>3, CallsFit, Moves
<1> HIDE DEF f
<1>5. Runs(Becomes(f))
  BY <1>2 DEF f
<1> QED
  BY <1>1, <1>4, <1>5, TopReplaced, Ran

\* The first instruction of a code.
LEMMA CallFits ==
    ASSUME Running, NEW c \in 1..Len(gen.codes), NEW h \in 0..Len(gen.codes)
    PROVE  Fits(Call(c, h), gen.codes)
<1>1. gen.codes \in Seq(Seq(Instructions)) /\ Finished(gen.codes[c], Len(gen.codes))
  BY GenWith DEF Running, RunsWell
<1>2. Len(gen.codes) \in Nat /\ gen.codes[c] \in Seq(Instructions) /\ gen.codes[c] # << >>
  BY <1>1 DEF Finished
<1>3. Len(gen.codes[c]) \in Nat \ {0} /\ c \in Nat /\ h \in Nat
  BY <1>2
<1> DEFINE f == Call(c, h)
<1>4. f \in Calls /\ f.coder = c /\ f.pc = 1 /\ f.handler = h
  BY <1>3, CallIs
<1> HIDE DEF f
<1>5. 1 \in 1..Len(gen.codes[c])
  BY <1>3
<1>6. Fits(f, gen.codes)
  BY <1>4, <1>5 DEF Fits
<1> QED
  BY <1>6 DEF f

LEMMA StepTryKeeps == ASSUME IInv, StepTry PROVE IInv'
<1>1. Running /\ Ins.op = "try"
  BY InvRunning DEF StepTry, Executing
<1> DEFINE f == Call(Ins.arg.try, Ins.arg.except)
           n == Len(stack)
<1>2. Ins.arg.try \in 1..Len(gen.codes) /\ Ins.arg.except \in 1..Len(gen.codes)
  BY <1>1, AtIns DEF Lands
<1>3. Ins.arg.except \in 0..Len(gen.codes)
  BY <1>2
<1>4. Fits(f, gen.codes)
  BY <1>1, <1>2, <1>3, CallFits
<1>5. stack \in Seq(Calls) /\ n \in Nat \ {0} /\ n \in 0..n /\ gen.codes[stack[n].coder][stack[n].pc].op = "try"
      /\ \A k \in 1..n : k < n => gen.codes[stack[k].coder][stack[k].pc].op = "try"
  BY <1>1, CallsFit DEF Running, Ins
<1>6. \A k \in 1..n : gen.codes[stack[k].coder][stack[k].pc].op = "try"
  <2>1. \A k \in 1..n : k < n \/ k = n
    BY <1>5
  <2> QED
    BY <1>5, <2>1
<1>7. Runs(Append(stack, f))
  BY DEF StepTry
<1>8. SubSeq(stack, 1, n) = stack
  BY <1>5, SubSeqFull
<1> HIDE DEF f
<1>9. RunsWell(Append(SubSeq(stack, 1, n), f), gen.codes)
  BY <1>1, <1>4, <1>5, <1>6, CutAndPushed
<1>10. RunsWell(Append(stack, f), gen.codes)
  BY <1>8, <1>9
<1> DEFINE t == Append(stack, f)
<1>11. Runs(t) /\ RunsWell(t, gen.codes)
  BY <1>7, <1>10
<1> HIDE DEF t
<1> QED
  BY <1>1, <1>11, Ran

\* The call below, at its TRY or behind it.
LEMMA Returns ==
    ASSUME Running
    PROVE  LET s == Front(stack)
           IN  /\ RunsWell(s, gen.codes)
               /\ s # << >> => RunsWell([s EXCEPT ![Len(s)].pc = @ + 1], gen.codes)
<1> DEFINE s == Front(stack)
           m == Len(stack) - 1
<1>1. CASE m = 0
  <2>1. stack \in Seq(Calls) /\ s = SubSeq(stack, 1, m)
    BY CallsFit DEF Front
  <2> HIDE DEF s, m
  <2>2. s = << >>
    BY <1>1, <2>1, SubSeqEmpty
  <2>3. RunsWell(s, gen.codes)
    BY <2>2, NothingRuns
  <2> QED
    BY <2>2, <2>3 DEF s
<1>2. CASE m # 0
  <2>1. /\ stack \in Seq(Calls) /\ \A i \in 1..Len(stack) : Fits(stack[i], gen.codes)
        /\ \A i \in 1..Len(stack) : i < Len(stack) => gen.codes[stack[i].coder][stack[i].pc].op = "try"
        /\ Len(stack) \in Nat \ {0}
    BY CallsFit DEF Running
  <2>2. m \in 1..Len(stack) /\ m < Len(stack) /\ m - 1 \in 0..Len(stack)
        /\ \A k \in 1..m - 1 : k \in 1..Len(stack) /\ k < Len(stack)
    <3> DEFINE n == Len(stack)
    <3>1. n \in Nat \ {0} /\ n - 1 # 0
      BY <1>2, <2>1
    <3> HIDE DEF n
    <3>2. n - 1 \in 1..n /\ n - 1 < n /\ (n - 1) - 1 \in 0..n /\ \A k \in 1..(n - 1) - 1 : k \in 1..n /\ k < n
      BY <3>1
    <3> QED
      BY <3>2 DEF n
  <2> DEFINE f == stack[m]
             p == f.pc + 1
             h == [f EXCEPT !.pc = p]
             r == SubSeq(stack, 1, m - 1)
  <2>3. Fits(f, gen.codes) /\ gen.codes[f.coder][f.pc].op = "try"
    BY <2>1, <2>2
  <2>4. p \in 1..Len(gen.codes[f.coder]) /\ p \in Nat
    <3> HIDE DEF f
    <3>1. p \in 1..Len(gen.codes[f.coder]) /\ Len(gen.codes[f.coder]) \in Nat
      BY <2>3, InsIs
    <3> QED
      BY <3>1
  <2>5. Fits(h, gen.codes)
    <3> HIDE DEF f, p
    <3>1. f \in Calls
      BY <2>3 DEF Fits
    <3>2. h \in Calls /\ h.coder = f.coder /\ h.pc = p /\ h.handler = f.handler
      BY <2>4, <3>1 DEF Calls
    <3> HIDE DEF h
    <3> QED
      BY <2>3, <2>4, <3>2 DEF Fits
  <2>6. RunsWell(Append(r, f), gen.codes) /\ RunsWell(Append(r, h), gen.codes)
    <3> DEFINE i == m - 1
    <3>1. i \in 0..Len(stack) /\ \A k \in 1..i : gen.codes[stack[k].coder][stack[k].pc].op = "try"
      BY <2>1, <2>2
    <3> HIDE DEF i, f, h
    <3>2. RunsWell(Append(SubSeq(stack, 1, i), f), gen.codes)
          /\ RunsWell(Append(SubSeq(stack, 1, i), h), gen.codes)
      BY <2>3, <2>5, <3>1, CutAndPushed
    <3> QED
      BY <3>2 DEF i
  <2>7. s \in Seq(Calls) /\ Len(s) = m /\ m \in Nat \ {0} /\ s[m] = f /\ s = Append(r, f) /\ r \in Seq(Calls)
        /\ Len(r) = m - 1
    <3>1. m \in Nat \ {0} /\ m <= Len(stack) /\ m - 1 \in Nat /\ m - 1 <= Len(stack)
      <4> DEFINE n == Len(stack)
      <4>1. n \in Nat /\ m \in 1..n
        BY <2>1, <2>2
      <4> HIDE DEF m, n
      <4>2. m \in Nat \ {0} /\ m <= n /\ m - 1 \in Nat /\ m - 1 <= n
        BY <4>1
      <4> QED
        BY <4>2 DEF n
    <3>2. s = SubSeq(stack, 1, m)
      BY DEF Front
    <3> HIDE DEF m
    <3>3. s \in Seq(Calls) /\ Len(s) = m /\ \A k \in 1..m : s[k] = stack[k]
      BY <2>1, <3>1, <3>2
    <3>4. r \in Seq(Calls) /\ Len(r) = m - 1 /\ \A k \in 1..m - 1 : r[k] = stack[k]
      BY <2>1, <3>1
    <3>5. m \in 1..m /\ f \in Calls
      BY <2>1, <2>2, <3>1
    <3> DEFINE t == Append(r, f)
    <3>6. s[m] = f
      BY <3>3, <3>5
    <3> HIDE DEF s, r, f
    <3>7. t \in Seq(Calls) /\ Len(t) = m /\ t[m] = f /\ \A k \in 1..m - 1 : t[k] = r[k]
      BY <3>1, <3>4, <3>5
    <3>8. \A k \in 1..m : k = m \/ k \in 1..m - 1
      BY <3>1
    <3>9. \A k \in 1..m : s[k] = t[k]
      <4> HIDE DEF t
      <4> QED
        BY <3>3, <3>4, <3>6, <3>7, <3>8
    <3> HIDE DEF t
    <3>10. s = t
      BY <3>3, <3>7, <3>9, SeqEqual
    <3> QED
      BY <3>1, <3>3, <3>4, <3>6, <3>10 DEF t
  <2>8. [s EXCEPT ![Len(s)].pc = @ + 1] = Append(r, h)
    <3> DEFINE t == [s EXCEPT ![m] = h]
               u == Append(r, h)
    <3>1. [s EXCEPT ![Len(s)].pc = @ + 1] = t
      BY <2>7
    <3>2. h \in Calls
      BY <2>5 DEF Fits
    <3> HIDE DEF s, h, r, m, f
    <3>3. t \in Seq(Calls) /\ Len(t) = m /\ \A k \in 1..m : t[k] = IF k = m THEN h ELSE s[k]
      <4>1. s \in Seq(Calls) /\ Len(s) = m /\ m \in Nat \ {0}
        BY <2>7
      <4>2. m \in 1..Len(s)
        BY <4>1
      <4> QED
        BY <3>2, <4>1, <4>2
    <3>4. u \in Seq(Calls) /\ Len(u) = m /\ u[m] = h /\ \A k \in 1..m - 1 : u[k] = r[k]
      <4>1. r \in Seq(Calls) /\ Len(r) = m - 1 /\ m \in Nat \ {0}
        BY <2>7
      <4>2. Len(r) + 1 = m
        BY <4>1
      <4> QED
        BY <3>2, <4>1, <4>2
    <3>5. \A k \in 1..m - 1 : s[k] = r[k]
      BY <2>7
    <3>6. \A k \in 1..m : k = m \/ k \in 1..m - 1
      BY <2>7
    <3> HIDE DEF t, u
    <3>7. \A k \in 1..m : t[k] = u[k]
      <4> TAKE k \in 1..m
      <4>1. CASE k = m
        BY <3>3, <3>4, <4>1
      <4>2. CASE k \in 1..m - 1 /\ k # m
        BY <3>3, <3>4, <3>5, <4>2
      <4> QED
        BY <3>6, <4>1, <4>2
    <3>8. t = u
      BY <3>3, <3>4, <3>7, SeqEqual
    <3> QED
      BY <3>1, <3>8 DEF u
  <2> QED
    BY <2>6, <2>7, <2>8
<1> QED
  BY <1>1, <1>2

LEMMA StepEndKeeps == ASSUME IInv, StepEnd PROVE IInv'
<1>1. Running
  BY InvRunning DEF StepEnd, Executing
<1> DEFINE s == Front(stack)
           t == [s EXCEPT ![Len(s)].pc = @ + 1]
           u == IF s = << >> \/ Ins.op = "retry" THEN s ELSE t
<1>2. Runs(u)
  BY DEF StepEnd
<1>3. RunsWell(s, gen.codes) /\ (s # << >> => RunsWell(t, gen.codes))
  BY <1>1, Returns
<1> HIDE DEF s, t
<1>4. RunsWell(u, gen.codes)
  BY <1>3
<1> HIDE DEF u
<1> QED
  BY <1>1, <1>2, <1>4, Ran

LEMMA StepReturnKeeps == ASSUME IInv, StepReturn PROVE IInv'
<1>1. Running /\ Runs(<< >>)
  BY InvRunning DEF StepReturn, Executing
<1> DEFINE none == << >>
<1>2. Runs(none) /\ RunsWell(none, gen.codes)
  BY <1>1, NothingRuns
<1> HIDE DEF none
<1> QED
  BY <1>1, <1>2, Ran

LEMMA DeepestCatcher ==
    ASSUME Running, Catchers # {}
    PROVE  Deepest(Catchers) \in Catchers
<1> DEFINE n == Len(stack)
           f == [i \in 1..n |-> IF i \in Catchers THEN i ELSE 0]
<1>1. n \in Nat \ {0} /\ Catchers \subseteq 1..n
  BY DEF Running, Catchers
<1> HIDE DEF n
<1>2. \A i \in 1..n : f[i] \in Int
  BY <1>1
<1>3. PICK m \in 1..n : \A i \in 1..n : f[i] <= f[m]
  BY <1>1, <1>2, SomeGreatest
<1>4. PICK c \in Catchers : TRUE
  OBVIOUS
<1>5. c \in 1..n /\ f[c] = c /\ f[c] <= f[m]
  BY <1>1, <1>3, <1>4
<1>6. m \in Catchers
  BY <1>1, <1>3, <1>5
<1>7. \A k \in Catchers : k <= m
  <2> TAKE k \in Catchers
  <2>1. k \in 1..n /\ f[k] = k /\ f[m] = m /\ f[k] <= f[m]
    BY <1>1, <1>3, <1>6
  <2> QED
    BY <2>1
<1>8. HasDeepest(Catchers)
  BY <1>6, <1>7 DEF HasDeepest
<1> QED
  BY <1>8, DeepestIs

LEMMA StepThrowKeeps == ASSUME IInv, StepThrow PROVE IInv'
<1>1. Running
  BY InvRunning DEF StepThrow, Executing
<1>2. CASE Catchers = {}
  <2> DEFINE none == << >>
  <2>1. Runs(none) /\ RunsWell(none, gen.codes)
    BY <1>1, <1>2, NothingRuns DEF StepThrow
  <2> HIDE DEF none
  <2> QED
    BY <1>1, <2>1, Ran
<1>3. CASE Catchers # {}
  <2> DEFINE i == Deepest(Catchers)
             l == i - 1
             f == Call(stack[i].handler, 0)
             t == Append(SubSeq(stack, 1, l), f)
  <2>1. Runs(t)
    BY <1>3 DEF StepThrow
  <2>2. i \in Catchers
    BY <1>1, <1>3, DeepestCatcher
  <2> HIDE DEF i
  <2>3. i \in 1..Len(stack) /\ stack[i].handler # 0
    BY <2>2 DEF Catchers
  <2>4. /\ \A k \in 1..Len(stack) : Fits(stack[k], gen.codes)
        /\ \A k \in 1..Len(stack) : k < Len(stack) => gen.codes[stack[k].coder][stack[k].pc].op = "try"
        /\ Len(stack) \in Nat \ {0} /\ Len(gen.codes) \in Nat
    <3>1. gen.codes \in Seq(Seq(Instructions))
      BY <1>1, GenWith DEF Running
    <3> QED
      BY <1>1, <3>1, CallsFit DEF Running
  <2>5. stack[i].handler \in 1..Len(gen.codes) /\ 0 \in 0..Len(gen.codes)
    <3>1. stack[i].handler \in 0..Len(gen.codes)
      BY <2>3, <2>4 DEF Fits
    <3> QED
      BY <2>3, <2>4, <3>1
  <2>6. Fits(f, gen.codes)
    BY <1>1, <2>5, CallFits
  <2>7. l \in 0..Len(stack) /\ \A k \in 1..l : k \in 1..Len(stack) /\ k < Len(stack)
    BY <2>3, <2>4
  <2>8. \A k \in 1..l : gen.codes[stack[k].coder][stack[k].pc].op = "try"
    BY <2>4, <2>7
  <2> HIDE DEF l, f
  <2>9. RunsWell(t, gen.codes)
    BY <1>1, <2>6, <2>7, <2>8, CutAndPushed
  <2> HIDE DEF t
  <2> QED
    BY <1>1, <2>1, <2>9, Ran
<1> QED
  BY <1>2, <1>3

LEMMA StepKeeps == ASSUME IInv, Step PROVE IInv'
BY StepVariableKeeps, StepCleanKeeps, StepJumpKeeps, StepTryKeeps, StepEndKeeps, StepReturnKeeps,
   StepThrowKeeps DEF Step

-----------------------------------------------------------------------------
(* The invariant holds in the beginning, and every step keeps it.            *)

\* What the compiler begins with: one context, one empty code, no register used.
LEMMA BeginsGood ==
    ASSUME NEW g, g = [ctxs |-> <<Context("FUNCTION", {}, 1, 1)>>, codes |-> << <<>> >>, used |-> 0, ok |-> TRUE]
    PROVE  Good(g) /\ Len(g.ctxs) = 1
<1> DEFINE noflags == {}
           c == Context("FUNCTION", noflags, 1, 1)
           code == << >>
           ctxs == <<c>>
           codes == <<code>>
<1>1. noflags \in SUBSET Flags /\ "FUNCTION" \in ContextTypes /\ 1 \in Nat
  BY DEF ContextTypes
<1>2. g = [ctxs |-> ctxs, codes |-> codes, used |-> 0, ok |-> TRUE]
  OBVIOUS
<1> HIDE DEF noflags
<1>3. c \in Contexts /\ c.lists # << >> /\ c.type = "FUNCTION" /\ c.coder = 1 /\ c.start = 1
  BY <1>1, NewContext
<1>4. code \in Seq(Instructions) /\ Len(code) = 0
  OBVIOUS
<1> HIDE DEF c, code
<1>5. ctxs \in Seq(Contexts) /\ Len(ctxs) = 1 /\ ctxs[1] = c
  BY <1>3
<1>6. codes \in Seq(Seq(Instructions)) /\ Len(codes) = 1 /\ codes[1] = code
  BY <1>4
<1> HIDE DEF ctxs, codes
<1>7. g \in Generators /\ g.ctxs = ctxs /\ g.codes = codes /\ g.used = 0
  <2>1. ctxs \in Seq(Contexts) /\ codes \in Seq(Seq(Instructions)) /\ 0 \in Nat /\ TRUE \in BOOLEAN
    BY <1>5, <1>6
  <2>2. g \in Generators
    BY <1>2, <2>1 DEF Generators
  <2>3. g.ctxs = ctxs /\ g.codes = codes /\ g.used = 0
    BY <1>2
  <2> QED
    BY <2>2, <2>3
<1>8. \A i \in 1..Len(g.ctxs) : i = 1
  BY <1>5, <1>7
<1>9. Scoped(g)
  <2>1. Len(g.ctxs) = 1 /\ g.ctxs[1] = c /\ Len(g.codes) = 1 /\ Len(g.codes[1]) = 0
    BY <1>4, <1>5, <1>6, <1>7
  <2>2. 1 \in 1..1 /\ 1 \in 1..0 + 1
    OBVIOUS
  <2>3. \A i, j \in 1..Len(g.ctxs) : ~(i < j)
    BY <2>1
  <2> QED
    BY <1>3, <1>8, <2>1, <2>2, <2>3 DEF Scoped
<1>10. Coded(g)
  <2>1. \A k \in 1..Len(g.codes) : k = 1
    BY <1>6, <1>7
  <2>2. 1 \in 1..Len(g.ctxs) /\ g.ctxs[1].coder = 1
    BY <1>3, <1>5, <1>7
  <2>3. Len(g.codes[1]) = 0
    BY <1>4, <1>6, <1>7
  <2>4. Opened(g.codes[1], Len(g.codes))
    BY <2>3 DEF Opened
  <2> QED
    BY <2>1, <2>2, <2>4 DEF Coded
<1>11. g.used <= Cardinality(Regs)
  BY <1>7, RegsAre
<1> QED
  BY <1>5, <1>7, <1>9, <1>10, <1>11 DEF Good

\* The function's body is the only rule in progress.
LEMMA BeginsNested == ASSUME NEW g PROVE Nests(<<Frame("block", 0, 0, NO)>>, 1, g)
<1> DEFINE f == Frame("block", 0, 0, NO)
           d == [k \in 0..1 |-> 1]
           fs == <<f>>
<1>1. IsFrame(f, "block", 0, 0, FALSE)
  <2>1. "block" \in Rules /\ 0 \in Nat /\ NO \in States
    BY StatesAre DEF Rules
  <2> QED
    BY <2>1, FrameIs
<1> HIDE DEF f
<1>2. f \in Frames /\ f.rule = "block" /\ f.closes = FALSE
  BY <1>1 DEF IsFrame
<1>3. Owned(f) = 0
  BY <1>2 DEF Owned
<1>4. FrameFits(f, 1, 1, g)
  <2>1. 1 = 1 + 0 /\ \A i \in 1 + 1..1 : FALSE
    OBVIOUS
  <2> QED
    BY <1>2, <1>3, <2>1 DEF FrameFits
<1>5. fs \in Seq(Frames) /\ Len(fs) = 1 /\ fs[1] = f
  BY <1>2
<1> HIDE DEF fs
<1>6. d \in [0..1 -> Nat] /\ d[0] = 1 /\ d[1] = 1 /\ \A k, l \in 0..1 : d[k] <= d[l]
  OBVIOUS
<1> HIDE DEF d
<1>7. \A k \in 1..1 : k = 1 /\ k - 1 = 0
  OBVIOUS
<1>8. \A k \in 1..Len(fs) : FrameFits(fs[k], d[k - 1], d[k], g)
  BY <1>4, <1>5, <1>6, <1>7
<1>9. IsDepth(d, fs, 1, g)
  BY <1>5, <1>6, <1>8 DEF IsDepth
<1>10. Nests(fs, 1, g)
  BY <1>5, <1>9 DEF Nests
<1> QED
  BY <1>10 DEF fs, f

LEMMA Begins == Init => IInv
<1> SUFFICES ASSUME Init PROVE IInv
  OBVIOUS
<1>1. Good(gen) /\ Len(gen.ctxs) = 1
  BY BeginsGood DEF Init
<1>2. Nests(frames, 1, gen)
  BY BeginsNested DEF Init
<1>3. results \in BOOLEAN /\ phase = "compile" /\ stack = << >>
  BY DEF Init
<1>4. left \in Nat
  BY CompilerAssumption DEF Init
<1>5. gen \in Generators /\ gen.used <= Cardinality(Regs)
  BY <1>1, GoodFields
<1> QED
  BY <1>1, <1>2, <1>3, <1>4, <1>5 DEF IInv

LEMMA NextKeeps == IInv /\ [Next]_vars => IInv'
<1> SUFFICES ASSUME IInv, [Next]_vars PROVE IInv'
  OBVIOUS
<1>1. CASE Next
  BY <1>1, SimpleStatKeeps, NestedStatKeeps, OtherStatKeeps, EndOfStatKeeps, EndFunctionKeeps, StepKeeps DEF Next
<1>2. CASE UNCHANGED vars
  <2>1. phase' = phase /\ results' = results /\ left' = left /\ frames' = frames /\ gen' = gen /\ stack' = stack
    BY <1>2 DEF vars
  <2> QED
    BY <2>1 DEF IInv
<1> QED
  BY <1>1, <1>2

LEMMA InvTypes == IInv => TypeOK
<1> SUFFICES ASSUME IInv PROVE TypeOK
  OBVIOUS
<1>1. phase \in {"compile", "rejected", "run", "done"} /\ results \in BOOLEAN /\ left \in Nat /\ gen \in Generators
      /\ gen.used <= Cardinality(Regs)
  BY DEF IInv
<1>2. gen.ctxs \in Seq(Contexts) /\ gen.codes \in Seq(Seq(Instructions)) /\ gen.used \in Nat
  BY <1>1, GenWith
<1>3. gen.used \in 0..Cardinality(Regs)
  BY <1>1, <1>2, RegsAre
<1>4. ASSUME NEW i \in 1..Len(gen.ctxs), NEW j \in 1..Len(gen.ctxs[i].lists)
      PROVE  gen.ctxs[i].lists[j] \in EventLists
  <2>1. gen.ctxs[i] \in Contexts
    BY <1>2
  <2>2. gen.ctxs[i].lists \in Seq(EventLists)
    BY <2>1 DEF Contexts
  <2> QED
    BY <2>2
<1>5. ASSUME NEW i \in 1..Len(stack)
      PROVE  /\ TableOf(stack[i]) \subseteq Regs
             /\ stack[i].coder \in 1..Len(gen.codes)
             /\ stack[i].pc \in 1..Len(gen.codes[stack[i].coder])
  <2>1. stack # << >>
    <3> SUFFICES ASSUME stack = << >> PROVE FALSE
      OBVIOUS
    <3>1. Len(stack) = 0
      OBVIOUS
    <3> QED
      BY <3>1
  <2>2. RunsWell(stack, gen.codes)
    BY <1>1, <2>1 DEF IInv
  <2>3. /\ stack \in Seq(Calls) /\ stack[i].coder \in 1..Len(gen.codes)
        /\ stack[i].pc \in 1..Len(gen.codes[stack[i].coder])
    BY <2>2 DEF RunsWell
  <2>4. stack[i] \in Calls
    BY <2>3
  <2>5. stack[i].table \in Seq(Regs)
    BY <2>4 DEF Calls
  <2>6. TableOf(stack[i]) \subseteq Regs
    <3> DEFINE t == stack[i].table
    <3>1. \A k \in 1..Len(t) : t[k] \in Regs
      BY <2>5
    <3> QED
      BY <3>1 DEF TableOf
  <2> QED
    BY <2>3, <2>6
<1> QED
  BY <1>1, <1>3, <1>4, <1>5 DEF TypeOK

\* Whatever is compiled, the events stay event states, every branch leads to an
\* instruction of its own code and the running program is always at an
\* instruction: the rules of the parser pop what they have pushed, and a code
\* that is left is finished (ec_parser.c, code_fixup_breaks, procreturn).
THEOREM TypesHold == Spec => []TypeOK
<1>1. Init => IInv
  BY Begins
<1>2. IInv /\ [Next]_vars => IInv'
  BY NextKeeps
<1>3. IInv => TypeOK
  BY InvTypes
<1> QED
  BY <1>1, <1>2, <1>3, PTL DEF Spec

=============================================================================
