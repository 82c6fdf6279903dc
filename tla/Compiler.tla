------------------------------ MODULE Compiler ------------------------------
(* The EEL compiler's statements (ec_parser.c) with the contexts             *)
(* (ec_context.c), events (Events) and branch instructions (ec_coder.c) they *)
(* work on, and the virtual machine running what they generated.             *)
(*                                                                           *)
(* A program is chosen statement by statement while it is compiled; a rule   *)
(* of the parser that has called another is a frame of "frames".  Operands   *)
(* are left out: a program is its control flow and its local variables.      *)
(* Dead code, which the coder drops, is kept here and marked as not live, so *)
(* that the run phase shows whether it was dead.                             *)
EXTENDS Events, TLC

CONSTANTS
    MaxContexts,    \* bound: nested contexts
    Themes,         \* bound: what programs are made of, sets of statement kinds
                    \* with a number of statements
    Risky           \* the constructs, listed at Allowed, that are compiled

Kinds == {"declare", "assign", "use", "break", "continue", "repeat", "named",
          "return", "throw", "retry", "body", "if", "while", "forever",
          "never", "do", "for", "switch", "try"}

ASSUME CompilerAssumption ==
    /\ Regs = 1..Cardinality(Regs)
    /\ MaxContexts \in Nat
    /\ \A t \in Themes : t.kinds \subseteq Kinds /\ t.size \in Nat
    /\ Risky \subseteq {"breakForever", "declareForever", "leaveInner",
                        "doCondition", "defaultLocals", "maybeContinue"}

VARIABLES
    phase,      \* "compile", "rejected" (a compile error), "run", "done"
    kinds,      \* the statement kinds of this program
    results,    \* the function must return a value (EEL_FF_RESULTS)
    left,       \* statements that may still come
    frames,     \* the parser rules in progress, innermost last
    gen,        \* what the rules work on: contexts, code, registers in use
    stack       \* the call frames of the running program

vars == <<phase, kinds, results, left, frames, gen, stack>>

-----------------------------------------------------------------------------
(* Contexts and code.  "gen" is passed through the calls of a rule.          *)

Top(s) == s[Len(s)]
Front(s) == SubSeq(s, 1, Len(s) - 1)

Context(type, flags, coder, start) ==
    [type |-> type, flags |-> flags, coder |-> coder, start |-> start,
     vars |-> {}, ends |-> {}, conts |-> {}, lists |-> <<NewList>>]

Depth(g) == Len(g.ctxs)
Coder(g) == Top(g.ctxs).coder
Live(g) == TestExit(g.ctxs) # YES

\* eel_code_target(): where the next instruction goes.
Target(g) == Len(g.codes[Coder(g)]) + 1

\* Variables that a name can refer to in the current context.
Visible(g) == UNION {g.ctxs[i].vars : i \in InFunction(g.ctxs, Depth(g))}

Code(g, op, arg) ==
    [g EXCEPT !.codes[Coder(g)] =
        Append(@, [op |-> op, arg |-> arg, to |-> {}, live |-> Live(g),
                   scope |-> Visible(g)])]

\* The place of a branch about to be coded; 0 if it will be dropped.
BranchPos(g) == IF Live(g) THEN Target(g) ELSE 0

SetJump(g, pos, whereto) ==
    IF pos = 0 THEN g
    ELSE [g EXCEPT !.codes[Coder(g)][pos].to = @ \union {whereto}]

Push(g, type, flags) ==
    [g EXCEPT !.ctxs =
        Append(@, Context(type, flags, Coder(g), Target(g)))]

PushXblock(g, flags) ==
    [g EXCEPT !.codes = Append(@, <<>>),
              !.ctxs = Append(@, Context("FUNCTION", flags, Len(g.codes) + 1, 1))]

Pop(g) ==
    LET c == Top(g.ctxs)
        n == Depth(g) - 1
        rest == SubSeq(g.ctxs, 1, n)
    IN  [g EXCEPT !.ctxs =
           IF c.type = "FUNCTION"
           THEN [rest EXCEPT ![n].lists = Append(@, MovedUpXblock(c))]
           ELSE IF "CONDITIONAL" \in c.flags
           THEN [rest EXCEPT ![n].lists = Append(@, MovedUp(c))]
           ELSE [rest EXCEPT ![n].lists[1] = MergedUp(c, rest[n])]]

Merge(g, modulator) == [g EXCEPT !.ctxs[Depth(g)] = Merged(@, modulator)]

\* Mutant: the body's own variables stay on the table.
LeaveInner(g, n) ==
    IF KeepsVariables(g.ctxs[n]) THEN g
    ELSE Code([g EXCEPT !.ok = @ /\ ~Uncertain(g.ctxs, n)], "clean",
              Cardinality(Initialized(g.ctxs, n)))

\* code_leave_context(): drop the variables of context n and below.
Leave(g, n) ==
    LET inner == Initialized(g.ctxs, n)
        outer == Initialized(g.ctxs, n - 1)
    IN  IF KeepsVariables(g.ctxs[n]) THEN g
        ELSE LET h == [g EXCEPT !.ok = @ /\ ~Uncertain(g.ctxs, n)]
             IN  IF Cardinality(inner) > Cardinality(outer)
                 THEN Code(h, "clean", Cardinality(outer)) ELSE h

\* code_break() and code_next(): leave context n and jump to where its "ends"
\* or "conts" will be wired to.
Jump(g, n, marks) ==
    LET h == Leave(g, n)
        mark == [pos |-> Target(h), state |-> Not(TestExit(g.ctxs))]
        j == Code(h, "jump", 0)
        k == IF marks = "ends" THEN [j EXCEPT !.ctxs[n].ends = @ \union {mark}]
             ELSE [j EXCEPT !.ctxs[n].conts = @ \union {mark}]
    IN  IF Live(g) THEN [k EXCEPT !.ctxs = BreakEvent(@, n)] ELSE g

\* code_repeat().
JumpBack(g, n) ==
    LET h == Leave(g, n)
        j == SetJump(Code(h, "jump", 0), BranchPos(h), g.ctxs[n].start)
    IN  [j EXCEPT !.ctxs = BreakEvent(@, n)]

\* code_fixup_breaks() and code_fixup_continuations(): the marks land here.
Wire(g, marks) ==
    LET here == Target(g)
        wired(code) == [p \in DOMAIN code |->
            IF \E m \in marks : m.pos = p
            THEN [code[p] EXCEPT !.to = @ \union {here}] ELSE code[p]]
    IN  [g EXCEPT !.codes[Coder(g)] = wired(@),
                  !.ctxs = TargetEvent(@, Strongest({m.state : m \in marks}))]

FixupBreaks(g) ==
    [Wire(g, Top(g.ctxs).ends) EXCEPT !.ctxs[Depth(g)].ends = {}]
FixupContinuations(g) ==
    [Wire(g, Top(g.ctxs).conts) EXCEPT !.ctxs[Depth(g)].conts = {}]
MoveBreaksUp(g) ==
    [g EXCEPT !.ctxs[Depth(g) - 1].ends = @ \union Top(g.ctxs).ends,
              !.ctxs[Depth(g)].ends = {}]

\* A variable is a symbol of the nearest context that is not a BLOCK, and has
\* a register of its own.
Declare(g) ==
    LET n == CHOOSE i \in 1..Depth(g) :
               /\ ~KeepsVariables(g.ctxs[i])
               /\ \A j \in (i + 1)..Depth(g) : KeepsVariables(g.ctxs[j])
    IN  [g EXCEPT !.used = @ + 1, !.ctxs[n].vars = @ \union {g.used + 1}]

\* eel_m_write() to a local variable.
Write(g, r) ==
    CASE TestInit(g.ctxs, r) = NO ->
           [Code(g, "init", r) EXCEPT !.ctxs = InitEvent(@, r)]
      [] TestInit(g.ctxs, r) = YES -> Code(g, "assign", r)
      [] OTHER -> [g EXCEPT !.ok = FALSE]

\* eel_m_read() of a local variable.
Read(g, r) ==
    IF TestInit(g.ctxs, r) = YES THEN Code(g, "use", r)
    ELSE [g EXCEPT !.ok = FALSE]

\* eel_initializations() as a check: nothing may be half initialised.
Check(g) == [g EXCEPT !.ok = @ /\ ~Uncertain(g.ctxs, Depth(g))]

-----------------------------------------------------------------------------
(* Rules of the parser.                                                      *)

Frame(rule, jump, start, state) ==
    [rule |-> rule, jump |-> jump, start |-> start, state |-> state,
     closes |-> FALSE]

\* A rule is left in state g with the frames fs; a compile error ends it all.
Settle(g, fs) ==
    /\ phase' = IF g.ok THEN "compile" ELSE "rejected"
    /\ gen' = g
    /\ frames' = fs
    /\ UNCHANGED <<kinds, results, stack>>

\* statement2() starts on a statement of kind k.
Starts(k) ==
    /\ phase = "compile"
    /\ frames # <<>>
    /\ Top(frames).rule \in {"block", "single"}
    /\ k \in kinds
    /\ left > 0
    /\ left' = left - 1

\* The frames once the statement is parsed: there is no second one without {}.
Parsed ==
    IF Top(frames).rule = "single"
    THEN [frames EXCEPT ![Len(frames)].rule = "over"] ELSE frames

\* statement(), called by rule "frame": a body in braces or a statement that
\* is wrapped in a BLOCK if it is conditional.  Without KEEP the context is
\* closed with the statement.
Statement(g, fs, frame, flags, braced) ==
    /\ Depth(g) < MaxContexts
    /\ braced \/ left' > 0
    /\ Settle(Push(g, IF braced THEN "BODY" ELSE "BLOCK", flags),
              fs \o <<frame, [Frame(IF braced THEN "block" ELSE "single", 0, 0, NO)
                                EXCEPT !.closes = ~("KEEP" \in flags)]>>)

\* The end of body() or statement().
EndStatement ==
    /\ phase = "compile"
    /\ frames # <<>>
    /\ Top(frames).rule \in {"block", "over"}
    /\ Settle(IF Top(frames).closes THEN Pop(Leave(gen, Depth(gen))) ELSE gen,
              Front(frames))
    /\ UNCHANGED left

\* A rule goes on where it called statement().
Resumes(rule) ==
    /\ phase = "compile"
    /\ frames # <<>>
    /\ Top(frames).rule = rule

-----------------------------------------------------------------------------
(* Simple statements.                                                        *)

\* local x = e;  or  local x;
DeclareStat(assigned) ==
    /\ Starts("declare")
    /\ gen.used < Cardinality(Regs)
    /\ LET g == Declare(gen)
       IN  Settle(IF assigned THEN Write(g, g.used) ELSE g, Parsed)

AssignStat(r) ==
    /\ Starts("assign")
    /\ r \in Visible(gen)
    /\ Settle(Write(gen, r), Parsed)

\* A statement that reads a variable, such as a call.
UseStat(r) ==
    /\ Starts("use")
    /\ r \in Visible(gen)
    /\ Settle(Read(gen, r), Parsed)

\* What code_leave_context() drops when context n is left includes the
\* variables of the contexts inside it.
LeavesAll(n) ==
    \/ Initialized(gen.ctxs, Depth(gen)) = Initialized(gen.ctxs, n)
    \/ /\ ~KeepsVariables(gen.ctxs[n])
       /\ Initialized(gen.ctxs, n) # Initialized(gen.ctxs, n - 1)

Here == InFunction(gen.ctxs, Depth(gen))

\* The context that break, continue or repeat finds by its flag, or by its
\* name with "named".  Contexts outside of the function are left out.
Destination(flag, n) ==
    /\ n \in Here
    /\ flag \in gen.ctxs[n].flags
    /\ "named" \in kinds \/ \A i \in Here : i > n => flag \notin gen.ctxs[i].flags
    /\ LeavesAll(n) \/ "leaveInner" \in Risky

BreakStat(n) ==
    /\ Starts("break")
    /\ Destination("BREAKABLE", n)
    /\ Settle(Jump(gen, n, "ends"), Parsed)

ContStat(n) ==
    /\ Starts("continue")
    /\ Destination("CONTINUABLE", n)
    /\ Settle(Jump(gen, n, "conts"), Parsed)

RepeatStat(n) ==
    /\ Starts("repeat")
    /\ Destination("REPEATABLE", n)
    /\ Settle(JumpBack(gen, n), Parsed)

ReturnStat ==
    /\ Starts("return")
    /\ LET g == Code(Check(gen), "return", 0)
           h == IF results THEN [g EXCEPT !.ctxs = ResultEvent(@)] ELSE g
       IN  Settle([h EXCEPT !.ctxs = ReturnEvent(@)], Parsed)

ThrowStat ==
    /\ Starts("throw")
    /\ LET g == Code(gen, "throw", 0)
       IN  Settle([g EXCEPT !.ctxs = ResultEvent(ReturnEvent(@))], Parsed)

\* Only in an except block, where it is documented.
RetryStat ==
    /\ Starts("retry")
    /\ \E n \in Here : "CATCHER" \in gen.ctxs[n].flags
    /\ Settle(Code(gen, "retry", 0), Parsed)

\* { ... }
BodyStat ==
    /\ Starts("body")
    /\ Statement(gen, Parsed, Frame("inner", 0, 0, NO), {}, TRUE)

EndBody ==
    /\ Resumes("inner")
    /\ Settle(gen, Front(frames))
    /\ UNCHANGED left

-----------------------------------------------------------------------------
(* if, switch and try.                                                       *)

IfStat(braced) ==
    /\ Starts("if")
    /\ Statement(Code(gen, "branch", 0), Parsed, Frame("if", BranchPos(gen), 0, NO),
                 {"CONDITIONAL", "KEEP"}, braced)

\* Mutant: without an else the true branch counts as executed.
EndIfCertain ==
    /\ Resumes("if")
    /\ LET g == Pop(Leave(gen, Depth(gen)))
       IN  Settle(Check(Merge(SetJump(g, Top(frames).jump, Target(g)), YES)),
                  Front(frames))
    /\ UNCHANGED left

EndIf ==
    /\ Resumes("if")
    /\ LET g == Pop(Leave(gen, Depth(gen)))
       IN  Settle(Check(Merge(SetJump(g, Top(frames).jump, Target(g)), MAYBE)),
                  Front(frames))
    /\ UNCHANGED left

Else(braced) ==
    /\ Resumes("if")
    /\ UNCHANGED left
    /\ LET g == Leave(gen, Depth(gen))
           h == Pop(Code(g, "jump", 0))
       IN  Statement(SetJump(h, Top(frames).jump, Target(h)), Front(frames),
                     Frame("else", BranchPos(g), 0, NO), {"CONDITIONAL"}, braced)

EndElse ==
    /\ Resumes("else")
    /\ Settle(Check(Merge(SetJump(gen, Top(frames).jump, Target(gen)), YES)),
              Front(frames))
    /\ UNCHANGED left

SwitchStat ==
    /\ Starts("switch")
    /\ Depth(gen) < MaxContexts
    /\ LET g == Push(gen, "BLOCK", {})
       IN  Settle(Code(g, "switch", 0),
                  Append(Parsed, Frame("switch", BranchPos(g), 0, NO)))

Case(braced) ==
    /\ Resumes("switch")
    /\ left > 0
    /\ left' = left - 1
    /\ Statement(SetJump(gen, Top(frames).jump, Target(gen)), frames,
                 Frame("case", 0, 0, NO), {"CONDITIONAL", "KEEP"}, braced)

EndCase ==
    /\ Resumes("case")
    /\ Settle(Pop(MoveBreaksUp(Jump(gen, Depth(gen), "ends"))), Front(frames))
    /\ UNCHANGED left

\* All cases come here, and the wrapper context is popped.
EndOfSwitch(g) == Check(Merge(Pop(FixupBreaks(g)), YES))

EndSwitch ==
    /\ Resumes("switch")
    /\ LET g == SetJump(gen, Top(frames).jump, Target(gen))
       IN  Settle(EndOfSwitch(Merge(g, MAYBE)), Front(frames))
    /\ UNCHANGED left

Default(braced) ==
    /\ Resumes("switch")
    /\ UNCHANGED left
    /\ Statement(SetJump(gen, Top(frames).jump, Target(gen)), Front(frames),
                 Frame("default", 0, 0, NO), {"CONDITIONAL", "KEEP"}, braced)

EndDefault ==
    /\ Resumes("default")
    /\ \/ KeepsVariables(Top(gen.ctxs))
       \/ Initialized(gen.ctxs, Depth(gen)) = Initialized(gen.ctxs, Depth(gen) - 1)
       \/ "defaultLocals" \in Risky
    /\ Settle(EndOfSwitch(Merge(Pop(MoveBreaksUp(gen)), YES)), Front(frames))
    /\ UNCHANGED left

\* The statement of a try or except block: a function body, with no context of
\* its own beside the function's.
Xblock(g, fs, frame, flags) ==
    /\ Depth(g) < MaxContexts
    /\ Settle(PushXblock(g, flags), fs \o <<frame, Frame("block", 0, 0, NO)>>)

EndXblock(g) == Pop(Code(g, "end", 0))

TryStat ==
    /\ Starts("try")
    /\ Xblock(gen, Parsed, Frame("try", 0, 0, NO), {})

\* The TRY instruction is coded after both blocks, before their events merge.
EndTry(g, tf) ==
    Merge(Code(g, "try", [try |-> tf, except |-> Len(g.codes)]), YES)

TryOnly ==
    /\ Resumes("try")
    /\ Settle(EndTry(EndXblock(PushXblock(EndXblock(gen), {"CATCHER"})), Coder(gen)),
              Front(frames))
    /\ UNCHANGED left

Except ==
    /\ Resumes("try")
    /\ UNCHANGED left
    /\ Xblock(EndXblock(gen), Front(frames), Frame("except", Coder(gen), 0, NO),
              {"CATCHER"})

EndExcept ==
    /\ Resumes("except")
    /\ LET g == EndXblock(gen)
       IN  Settle(Merge(Code(g, "try", [try |-> Top(frames).jump,
                                        except |-> Coder(gen)]), YES),
                  Front(frames))
    /\ UNCHANGED left

-----------------------------------------------------------------------------
(* Loops.                                                                    *)

LoopBody == {"CONDITIONAL", "BREAKABLE", "CONTINUABLE", "KEEP"}

\* A continue after something that may have left the function lands on code
\* that an unconditional exit before it has made dead.
ContinuesLive ==
    LET g == Leave(gen, Depth(gen))
    IN  \/ Top(g.ctxs).conts = {}
        \/ YES \in {m.state : m \in Top(g.ctxs).conts}
        \/ Live(g)
        \/ "maybeContinue" \in Risky

\* while(e), while(true) and while(false).
WhileStat(braced) ==
    /\ Starts("while")
    /\ Statement(Code(gen, "branch", 0), Parsed,
                 Frame("while", BranchPos(gen), Target(gen), MAYBE), LoopBody, braced)

ForeverStat(braced) ==
    /\ Starts("forever")
    /\ Statement(gen, Parsed, Frame("while", 0, Target(gen), YES), LoopBody, braced)

NeverStat(braced) ==
    /\ Starts("never")
    /\ Statement(Code(gen, "jump", 0), Parsed,
                 Frame("while", BranchPos(gen), Target(gen), NO), LoopBody, braced)

\* while(true) with a break is compiled as if nothing followed a return in it,
\* and its lone statement as if it was executed once.
ForeverHarmless(c, state) ==
    state = YES =>
      /\ Own(c).ret = YES /\ c.ends # {} => "breakForever" \in Risky
      /\ Escaping(c) # Uninitialized => "declareForever" \in Risky

EndWhile ==
    /\ Resumes("while")
    /\ ContinuesLive
    /\ ForeverHarmless(Top(gen.ctxs), Top(frames).state)
    /\ LET g == FixupContinuations(Leave(gen, Depth(gen)))
           h == SetJump(Code(g, "jump", 0), BranchPos(g), Top(frames).start)
           out == FixupBreaks(SetJump(h, Top(frames).jump, Target(h)))
       IN  Settle(Check(Merge(Pop(out), Top(frames).state)), Front(frames))
    /\ UNCHANGED left

DoStat(braced) ==
    /\ Starts("do")
    /\ Statement(gen, Parsed, Frame("do", 0, Target(gen), NO), LoopBody, braced)

\* The condition may read a variable, and is still inside the body's context.
EndDo(read) ==
    /\ Resumes("do")
    /\ ContinuesLive
    /\ read \subseteq Visible(gen)
    /\ "doCondition" \in Risky \/ read \cap Top(gen.ctxs).vars = {}
    /\ LET g == FixupContinuations(Leave(gen, Depth(gen)))
           c == IF read = {} THEN g ELSE Read(g, CHOOSE r \in read : TRUE)
           h == SetJump(Code(c, "branch", 0), BranchPos(c), Top(frames).start)
       IN  Settle(Check(Merge(Pop(FixupBreaks(h)), MAYBE)), Front(frames))
    /\ UNCHANGED left

\* for local x = a, b: a body around the loop holds the iteration variable.
ForStat(braced) ==
    /\ Starts("for")
    /\ gen.used < Cardinality(Regs)
    /\ Depth(gen) + 1 < MaxContexts
    /\ LET d == Declare(Push(gen, "BODY", {}))
           g == Write(d, d.used)
           p == Code(g, "branch", 0)
       IN  Statement(p, Parsed, Frame("for", BranchPos(g), Target(p), NO),
                     LoopBody \union {"REPEATABLE"}, braced)

EndFor ==
    /\ Resumes("for")
    /\ ContinuesLive
    /\ LET g == FixupContinuations(Leave(gen, Depth(gen)))
           h == SetJump(Code(g, "branch", 0), BranchPos(g), Top(frames).start)
           out == FixupBreaks(SetJump(h, Top(frames).jump, Target(h)))
           m == Merge(Pop(out), MAYBE)
       IN  Settle(Pop(Leave(m, Depth(m))), Front(frames))
    /\ UNCHANGED left

-----------------------------------------------------------------------------
(* The function is finished; the virtual machine runs it.  Branches go either *)
(* way, and a statement that reads a variable may throw.                     *)

Call(coder, handler) ==
    [coder |-> coder, pc |-> 1, table |-> <<>>, handler |-> handler]

Idle == [ctxs |-> <<>>, codes |-> <<>>, used |-> 0, ok |-> TRUE]

\* procreturn()
EndFunction ==
    /\ phase = "compile"
    /\ frames = <<>>
    /\ IF results /\ TestResult(gen.ctxs) # YES
       THEN phase' = "rejected" /\ gen' = Idle /\ UNCHANGED stack
       ELSE /\ phase' = "run"
            /\ gen' = [Idle EXCEPT !.codes = Code(gen, "end", 0).codes]
            /\ stack' = <<Call(1, 0)>>
    /\ kinds' = {}
    /\ left' = 0
    /\ UNCHANGED <<results, frames>>

AtFrame == Top(stack)
Ins == gen.codes[AtFrame.coder][AtFrame.pc]

Runs(s) ==
    /\ stack' = s
    /\ phase' = IF s = <<>> THEN "done" ELSE "run"
    /\ UNCHANGED <<kinds, results, left, frames, gen>>

Becomes(f) == Append(Front(stack), f)
Next1 == [AtFrame EXCEPT !.pc = @ + 1]

Executing(ops) == phase = "run" /\ Ins.op \in ops

StepVariable ==
    /\ Executing({"init", "assign", "use"})
    /\ Runs(Becomes(IF Ins.op = "init"
                    THEN [Next1 EXCEPT !.table = Append(@, Ins.arg)] ELSE Next1))

StepClean ==
    /\ Executing({"clean"})
    /\ Runs(Becomes([Next1 EXCEPT
              !.table = SubSeq(@, 1, Least(Len(@), Ins.arg))]))

\* A jump that was never wired has the offset 0.
StepJump ==
    /\ Executing({"jump", "branch", "switch"})
    /\ \E to \in IF Ins.op = "branch" THEN Ins.to \union {AtFrame.pc + 1}
                 ELSE IF Ins.to = {} THEN {AtFrame.pc + 1} ELSE Ins.to :
          Runs(Becomes([AtFrame EXCEPT !.pc = to]))

StepTry ==
    /\ Executing({"try"})
    /\ Runs(Append(stack, Call(Ins.arg.try, Ins.arg.except)))

\* A block that ends goes on after its TRY; RETRY goes back to it.
StepEnd ==
    /\ Executing({"end", "retry"})
    /\ LET s == Front(stack)
       IN  Runs(IF s = <<>> \/ Ins.op = "retry" THEN s
                ELSE [s EXCEPT ![Len(s)].pc = @ + 1])

\* RETURN, and RETX, which leaves the function from within its blocks.
StepReturn ==
    /\ Executing({"return"})
    /\ Runs(<<>>)

Catchers == {i \in 1..Len(stack) : stack[i].handler # 0}

StepThrow ==
    /\ Executing({"throw", "use"})
    /\ Runs(IF Catchers = {} THEN <<>>
            ELSE LET i == Deepest(Catchers)
                 IN  Append(SubSeq(stack, 1, i - 1), Call(stack[i].handler, 0)))

-----------------------------------------------------------------------------
Init ==
    /\ phase = "compile"
    /\ \E t \in Themes : kinds = t.kinds /\ left = t.size
    /\ results \in BOOLEAN
    /\ frames = <<Frame("block", 0, 0, NO)>>
    /\ gen = [ctxs |-> <<Context("FUNCTION", {}, 1, 1)>>, codes |-> << <<>> >>,
              used |-> 0, ok |-> TRUE]
    /\ stack = <<>>

SimpleStat ==
    \/ \E assigned \in BOOLEAN : DeclareStat(assigned)
    \/ \E r \in Regs : AssignStat(r)
    \/ \E r \in Regs : UseStat(r)
    \/ \E n \in 1..MaxContexts : BreakStat(n)
    \/ \E n \in 1..MaxContexts : ContStat(n)
    \/ \E n \in 1..MaxContexts : RepeatStat(n)
    \/ ReturnStat
    \/ ThrowStat
    \/ RetryStat

NestedStat ==
    \E braced \in BOOLEAN :
        \/ IfStat(braced)
        \/ Else(braced)
        \/ Case(braced)
        \/ Default(braced)
        \/ WhileStat(braced)
        \/ ForeverStat(braced)
        \/ NeverStat(braced)
        \/ DoStat(braced)
        \/ ForStat(braced)

OtherStat == BodyStat \/ SwitchStat \/ TryStat \/ Except

EndOfStat ==
    \/ EndStatement
    \/ EndBody
    \/ EndIf
    \/ EndElse
    \/ EndCase
    \/ EndSwitch
    \/ EndDefault
    \/ TryOnly
    \/ EndExcept
    \/ EndWhile
    \/ EndDo({})
    \/ \E r \in Regs : EndDo({r})
    \/ EndFor

Step ==
    \/ StepVariable
    \/ StepClean
    \/ StepJump
    \/ StepTry
    \/ StepEnd
    \/ StepReturn
    \/ StepThrow

Next == SimpleStat \/ NestedStat \/ OtherStat \/ EndOfStat \/ EndFunction \/ Step

Spec == Init /\ [][Next]_vars

-----------------------------------------------------------------------------
TableOf(f) == {f.table[i] : i \in 1..Len(f.table)}

\* Events are event states, and registers stay inside their bounds.  Every
\* branch is wired to an instruction of its own code, and what a block is left
\* through comes back behind its TRY: the running program is always at an
\* instruction (code_fixup_breaks, eel_code_setjump, procreturn).
TypeOK ==
    /\ phase \in {"compile", "rejected", "run", "done"}
    /\ results \in BOOLEAN
    /\ left \in Nat
    /\ gen.used \in 0..Cardinality(Regs)
    /\ \A i \in 1..Len(gen.ctxs) :
          \A j \in 1..Len(gen.ctxs[i].lists) : gen.ctxs[i].lists[j] \in EventLists
    /\ \A i \in 1..Len(stack) :
          /\ TableOf(stack[i]) \subseteq Regs
          /\ stack[i].coder \in 1..Len(gen.codes)
          /\ stack[i].pc \in 1..Len(gen.codes[stack[i].coder])

\* The code generator drops no instruction that the running program needs: it
\* never reaches one that was eliminated as dead code (do_code, eel_test_exit).
NothingLiveDropped == phase = "run" => Ins.live

\* The clean table holds the initialised variables of open scopes: a scope that
\* is left by any way takes its variables off the table, INIT never finds its
\* register there, so that no old value is lost and the table never outgrows its
\* frame, and what is read or assigned to is there (code_leave_context,
\* eel_e_init, eel_test_init, CLEAN).
CleanTableTrue ==
    phase = "run" =>
        /\ TableOf(AtFrame) \subseteq Ins.scope
        /\ Ins.op = "init" => Ins.arg \notin TableOf(AtFrame)
        /\ Ins.op \in {"use", "assign"} => Ins.arg \in TableOf(AtFrame)

\* A function that must return a value is never left through its end.
NeverEndsWithoutResult ==
    phase = "run" /\ Ins.op = "end" /\ Len(stack) = 1 => ~results

=============================================================================
