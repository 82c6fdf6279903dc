------------------------------- MODULE Events -------------------------------
(* The compiler's events (ec_event.c): what the code generated so far has    *)
(* certainly, possibly or never done - initialised a register, returned, set *)
(* a result, broken out of a context - kept per compiler context and         *)
(* combined when the branches of a conditional statement meet again.         *)
EXTENDS Integers, Sequences, FiniteSets

CONSTANT Regs       \* the registers that can hold a local variable

ASSUME RegsAssumption == IsFiniteSet(Regs)

NO == 0
MAYBE == 1
YES == 2
States == NO..YES

\* Whether a branch certainly, possibly or never goes on, given what is known
\* of its leaving.
Not(s) == YES - s

Least(a, b) == IF a < b THEN a ELSE b
Greatest(a, b) == IF a > b THEN a ELSE b
OneLessUnclamped(n) == n - 1     \* mutant
OneLess(n) == Greatest(n - 1, 0)

-----------------------------------------------------------------------------
(* An event list, and a context with its list of event lists: the first list *)
(* is the context's own, the others wait for Merge.                          *)

EventLists ==
    [init : [Regs -> States], ret : States, result : States, target : States,
     breakto : Nat, maybe : Nat]

Uninitialized == [r \in Regs |-> NO]

NewList ==
    [init |-> Uninitialized, ret |-> NO, result |-> NO, target |-> NO,
     breakto |-> 0, maybe |-> 0]

Own(c) == c.lists[1]
Waiting(c) == 2..Len(c.lists)

\* INIT events only escape a context that shares the symbols of its parent.
KeepsVariables(c) == c.type = "BLOCK"
Escaping(c) == IF KeepsVariables(c) THEN Own(c).init ELSE Uninitialized

\* The list a CONDITIONAL context leaves to its parent.
MovedUp(c) ==
    [Own(c) EXCEPT !.init = Escaping(c), !.target = NO,
                   !.breakto = OneLess(@), !.maybe = OneLess(@)]

\* The list a try or except block, a function of its own, leaves.
MovedUpXblock(c) == [Own(c) EXCEPT !.init = Uninitialized, !.target = NO]

\* The parent's own list when a context that is not CONDITIONAL is popped.
MergedUp(c, parent) ==
    [Own(parent) EXCEPT
        !.init = [r \in Regs |-> Greatest(@[r], Escaping(c)[r])],
        !.ret = Greatest(@, Own(c).ret),
        !.result = Greatest(@, Own(c).result)]

Strongest(S) == IF YES \in S THEN YES ELSE IF MAYBE \in S THEN MAYBE ELSE NO

\* What the branches did together, and at most the modulator.
Together(branches, modulator) ==
    CASE branches = {NO} -> NO
      [] branches = {YES} -> modulator
      [] OTHER -> Least(MAYBE, modulator)

\* The deepest break that each branch makes, one level further out.
Shallowest(c) ==
    CHOOSE n \in {c.lists[i].breakto - 1 : i \in Waiting(c)} :
        \A i \in Waiting(c) : n <= c.lists[i].breakto - 1

Deepest(S) == CHOOSE n \in S : \A k \in S : k <= n

\* The waiting lists are combined into the context's own and go away.
Merged(c, modulator) ==
    LET all(val(_)) == Together({val(c.lists[i]) : i \in Waiting(c)}, modulator)
        init(r) == LET val(e) == e.init[r] IN all(val)
        ret == LET val(e) == e.ret IN all(val)
        result == LET val(e) == e.result IN all(val)
        outward == {c.lists[i].breakto - 1 : i \in Waiting(c)}
                   \union {c.lists[i].maybe - 1 : i \in Waiting(c)}
        own == [Own(c) EXCEPT
                  !.init = [r \in Regs |-> Greatest(@[r], init(r))],
                  !.ret = Greatest(@, ret),
                  !.result = Greatest(@, result),
                  !.maybe = Deepest(outward \union {@}),
                  !.breakto = IF modulator > MAYBE
                              THEN Greatest(@, Shallowest(c)) ELSE @]
    IN  IF Waiting(c) = {} THEN c ELSE [c EXCEPT !.lists = <<own>>]

-----------------------------------------------------------------------------
(* Questions about the contexts from the current one out to the function.    *)

\* The contexts of the function that context n belongs to, out from n.
InFunction(cs, n) ==
    {i \in 1..n : \A j \in (i + 1)..n : cs[j].type # "FUNCTION"}

TestInit(cs, r) == Strongest({Own(cs[i]).init[r] : i \in InFunction(cs, Len(cs))})
TestReturn(cs) == Strongest({Own(cs[i]).ret : i \in InFunction(cs, Len(cs))})
TestResult(cs) == Strongest({Own(cs[i]).result : i \in InFunction(cs, Len(cs))})

TestBreak(cs) ==
    LET e == Own(cs[Len(cs)])
    IN  IF e.breakto # 0 THEN YES ELSE IF e.maybe # 0 THEN MAYBE ELSE NO

\* Whether control has left: code generated now is dead if it certainly has.
TestExit(cs) ==
    IF Own(cs[Len(cs)]).target = YES THEN NO
    ELSE Strongest({TestReturn(cs), TestBreak(cs)})

\* The registers initialised from context n out, and whether any of them may
\* or may not be (a compile error).
Initialized(cs, n) ==
    {r \in Regs : \E i \in InFunction(cs, n) : Own(cs[i]).init[r] = YES}
Uncertain(cs, n) ==
    \E r \in Regs, i \in InFunction(cs, n) : Own(cs[i]).init[r] = MAYBE

-----------------------------------------------------------------------------
(* Events raised in the current context.                                     *)

Raise(cs, e) == [cs EXCEPT ![Len(cs)].lists[1] = e]

ReturnEvent(cs) == Raise(cs, [Own(cs[Len(cs)]) EXCEPT !.ret = YES])
ResultEvent(cs) == Raise(cs, [Own(cs[Len(cs)]) EXCEPT !.result = YES])
InitEvent(cs, r) == Raise(cs, [Own(cs[Len(cs)]) EXCEPT !.init[r] = YES])
TargetEventLost(cs, s) == cs     \* mutant
TargetEvent(cs, s) == Raise(cs, [Own(cs[Len(cs)]) EXCEPT !.target = Greatest(@, s)])
\* A break out of context n.
BreakEvent(cs, n) ==
    Raise(cs, [Own(cs[Len(cs)]) EXCEPT !.breakto = Greatest(@, Len(cs) - n + 1)])

=============================================================================
