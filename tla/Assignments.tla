---------------------------- MODULE Assignments ----------------------------
(* Assignments to lists of targets, and the argument lists of calls: the     *)
(* operands are descriptions ("manipulators", ec_manip.c) that become code   *)
(* only when they are read, written or pushed, the parser saves what an      *)
(* earlier target overwrites (ec_parser.c), the peephole optimizer rewrites  *)
(* the code (ec_optimizer.c), and the virtual machine runs it (e_vm.c).      *)
(*                                                                           *)
(* Values are terms: what an operator computes is the operator with its      *)
(* operands, so that two values are equal only if they were computed alike.  *)
EXTENDS Integers, Sequences, FiniteSets, TLC

CONSTANTS
    Locals,         \* the registers of initialised local variables
    Fresh,          \* the registers of declared variables without a value
    Initially,      \* their values
    MaxRegister,    \* bound: the registers of the call frame
    Statements,     \* bound: the statements that are compiled, in groups: sets of
                    \* target lists, source lists and operators
    Risky           \* the kinds of statements, listed at Allowed, that are included

Operators == {"add", "band", "neg"}

ASSUME AssignmentsAssumption ==
    /\ Locals \cap Fresh = {}
    /\ \E n \in 0..MaxRegister : Locals \union Fresh = 0..n
    /\ DOMAIN Initially = Locals
    /\ Risky \subseteq {"compound", "onlyOwner"}

VARIABLES
    statement,  \* what is compiled
    phase,      \* "save", "code", "run", "done"; "rejected" (a compile error),
                \* "thrown" (an exception)
    gen,        \* the code, the fragment not optimized yet, registers in use
    saved,      \* sources that were read in advance ("tmp"), or void
    at,         \* the next operand to compile, or instruction to run
    env,        \* registers, upvalue, static variables, argument, table, stack
    limbo,      \* objects the call frame will disown
    dangling    \* a value was used after its object was destroyed

vars == <<statement, phase, gen, saved, at, env, limbo, dangling>>

-----------------------------------------------------------------------------
(* Manipulators.                                                             *)

Const(value, form) == [kind |-> "const", value |-> value, form |-> form]
Number(n) == Const(<<"int", n>>, IF n \in 0..255 THEN "byte" ELSE "short")
Variable(r) == [kind |-> "variable", reg |-> r]
Register(r) == [kind |-> "register", reg |-> r]
Upvalue == [kind |-> "upvalue"]
Argument == [kind |-> "argument"]
Statvar(n) == [kind |-> "statvar", index |-> n]
Index(object, index) == [kind |-> "index", object |-> object, index |-> index]
Void == [kind |-> "void"]

\* eel_m_op(), eel_m_cast(): what is constant is computed at once.
Op(left, op, right) ==
    IF left.kind = "const" /\ right.kind = "const"
    THEN Const(<<op, left.value, right.value>>, "pool")
    ELSE [kind |-> "op", left |-> left, op |-> op, right |-> right]
Unop(op, right) ==
    IF right.kind = "const" THEN Const(<<op, right.value>>, "pool")
    ELSE [kind |-> "unop", op |-> op, right |-> right]
Cast(object, class) ==
    IF object.kind = "const" /\ class = "real"
    THEN Const(<<class, object.value>>, "pool")
    ELSE [kind |-> "cast", object |-> object, class |-> class]

Direct(m) == m.kind \in {"variable", "register"}

\* Mutant: nothing depends on an indexed target.
IndependentIndex(m1, m2) ==
    IF m1.kind \in {"void", "const", "op", "unop", "cast", "index"} THEN TRUE
    ELSE m1 # m2

\* eel_m_independent(): writing m2 does not alter m1.
Independent(m1, m2) ==
    CASE m1.kind \in {"void", "const", "op", "unop", "cast"} -> TRUE
      [] m1.kind = "index" ->
           \/ m2.kind # "index"
           \/ /\ m1.index.kind = "const"
              /\ m2.index.kind = "const"
              /\ m1.index.value # m2.index.value
      [] OTHER -> m1 # m2

-----------------------------------------------------------------------------
(* Code.  An instruction is a tuple of its name and operands.                *)

Code(g, ins) == [g EXCEPT !.code = Append(@, ins)]

\* eel_r_alloc() of one register, eel_r_free().
Free(g) ==
    CHOOSE r \in 0..(Cardinality(g.used) + 1) :
        r \notin g.used /\ \A q \in 0..(r - 1) : q \in g.used
Take(g, r) == [g EXCEPT !.used = @ \union {r}]
Release(g, r) == [g EXCEPT !.used = @ \ {r}]

\* eel_test_init(): only local variables are tracked.
Checked(g, m) ==
    [g EXCEPT !.ok = @ /\ (m.kind = "variable" => m.reg \in g.init)]

LoadConstant(m, r) ==
    CASE m.form = "nil" -> <<"LDNIL", r>>
      [] m.form = "true" -> <<"LDTRUE", r>>
      [] m.form \in {"byte", "short"} -> <<"LDI", r, m.value>>
      [] OTHER -> <<"LDC", r, m.value>>

RECURSIVE Read(_, _, _)

\* An operand that is not in a register already is read into r.
Into(g, m, r) == IF Direct(m) THEN Checked(g, m) ELSE Read(g, m, r)
Where(m, r) == IF Direct(m) THEN m.reg ELSE r

\* do_operate()
Operate(g, m, r) ==
    LET h == Into(g, m.left, r)
        left == Where(m.left, r)
        rr == Free(h)
        ins(name, right) == <<name, r, left, m.op, right>>
    IN  CASE Direct(m.right) -> Code(Checked(h, m.right), ins("BOP", m.right.reg))
          [] m.right.kind = "const" /\ m.right.form \in {"byte", "short"} ->
               Code(h, ins("BOPI", m.right.value))
          [] m.right.kind = "statvar" -> Code(h, ins("BOPS", m.right.index))
          [] OTHER ->
               Release(Code(Read(Take(h, rr), m.right, rr), ins("BOP", rr)), rr)

OperateUnary(g, m, r) ==
    Code(Into(g, m.right, r), <<"UNOP", r, m.op, Where(m.right, r)>>)

\* do_cast(): a class without an instruction of its own is a constant.
ReadCast(g, m, r) ==
    LET h == Into(g, m.object, r)
        object == Where(m.object, r)
        cr == Free(h)
    IN  IF m.class = "real" THEN Code(h, <<"UNOP", r, m.class, object>>)
        ELSE Release(Code(Code(Take(h, cr), <<"LDC", cr, <<"class", m.class>>>>),
                          <<"CAST", r, object, cr>>), cr)

\* The index of do_read_index_obj() and do_write_index_obj().
Indexed(g, name, r, object, index) ==
    LET ir == Free(g)
    IN  CASE Direct(index) -> Code(Checked(g, index), <<name, r, index.reg, object>>)
          [] index.kind = "const" /\ index.form = "byte" ->
               Code(g, <<name \o "I", r, index.value, object>>)
          [] OTHER -> Release(Code(Read(Take(g, ir), index, ir),
                                   <<name, r, ir, object>>), ir)

\* eel_m_read()
Read(g, m, r) ==
    CASE m.kind = "const" -> Code(g, LoadConstant(m, r))
      [] m.kind \in {"variable", "register"} ->
           Code(Checked(g, m), <<"MOVE", r, m.reg>>)
      [] m.kind = "upvalue" -> Code(g, <<"GETUVAL", r>>)
      [] m.kind = "argument" -> Code(g, <<"GETARGI", r>>)
      [] m.kind = "statvar" -> Code(g, <<"GETVAR", r, m.index>>)
      [] m.kind = "op" -> Operate(g, m, r)
      [] m.kind = "unop" -> OperateUnary(g, m, r)
      [] m.kind = "cast" -> ReadCast(g, m, r)
      [] m.kind = "index" ->
           Indexed(Into(g, m.object, r), "INDGET", r, Where(m.object, r), m.index)

WriteIndex(g, m, r) ==
    IF Direct(m.object)
    THEN Indexed(Checked(g, m.object), "INDSET", r, m.object.reg, m.index)
    ELSE LET or == Free(g)
         IN  Release(Indexed(Read(Take(g, or), m.object, or), "INDSET", r, or,
                             m.index), or)

Writable(m) ==
    m.kind \in {"variable", "upvalue", "argument", "statvar", "index"}

\* eel_m_write()
Write(g, m, r) ==
    CASE m.kind = "variable" ->
           [Code(g, <<IF m.reg \in g.init THEN "ASSIGN" ELSE "INIT", m.reg, r>>)
              EXCEPT !.init = @ \union {m.reg}]
      [] m.kind = "upvalue" -> Code(g, <<"SETUVAL", r>>)
      [] m.kind = "argument" -> Code(g, <<"SETARGI", r>>)
      [] m.kind = "statvar" -> Code(g, <<"SETVAR", r, m.index>>)
      [] m.kind = "index" -> WriteIndex(g, m, r)
      [] OTHER -> [g EXCEPT !.ok = FALSE]

\* eel_m_push()
Pushed(g, m) ==
    LET r == Free(g)
    IN  CASE m.kind = "const" ->
               Code(g, CASE m.form = "nil" -> <<"PUSHNIL">>
                         [] m.form = "true" -> <<"PHTRUE">>
                         [] m.form \in {"byte", "short"} -> <<"PUSHI", m.value>>
                         [] OTHER -> <<"PUSHC", <<m.value>>>>)
          [] Direct(m) -> Code(Checked(g, m), <<"PUSH", <<m.reg>>>>)
          [] m.kind = "upvalue" -> Code(g, <<"PHUVAL">>)
          [] m.kind = "statvar" -> Code(g, <<"PHVAR", m.index>>)
          [] OTHER -> Release(Code(Read(Take(g, r), m, r), <<"PUSH", <<r>>>>), r)

\* eel_m_copy(): through a register, unless the source is in one.
Copied(g, from, to) ==
    LET r == Free(g)
    IN  IF Direct(from) THEN Write(Checked(g, from), to, from.reg)
        ELSE Release(Write(Read(Take(g, r), from, r), to, r), r)

\* apply_op()
Applied(g, from, op, to) ==
    LET r == Free(g)
        m == Op(to, op, from)
    IN  Release(Write(Operate(Take(g, r), m, r), to, r), r)

\* Weak references go to static variables and indexed objects only.
CopiedWeak(g, from, to) ==
    LET wr == Free(g)
        h == Take(g, wr)
        r == Free(h)
        k == IF Direct(from) THEN Code(Checked(h, from), <<"WEAKREF", wr, from.reg>>)
             ELSE Release(Code(Read(Take(h, r), from, r), <<"WEAKREF", wr, r>>), r)
    IN  IF to.kind \in {"statvar", "index"} THEN Release(Write(k, to, wr), wr)
        ELSE [g EXCEPT !.ok = FALSE]

\* eel_m_operate()
Operated(g, from, op, to) ==
    CASE op = "assign" -> Copied(g, from, to)
      [] op = "weak" -> CopiedWeak(g, from, to)
      [] OTHER -> Applied(g, from, op, to)

-----------------------------------------------------------------------------
(* The peephole optimizer.  KEEP: a register written first may be needed     *)
(* later.                                                                    *)

\* What replaces the instructions i1 and i2: <<>> if nothing does.
PairSubst(i1, i2, keep) ==
    LET pair == <<i1[1], i2[1]>>
        first == i1[2]                      \* the register i1 writes
        passed(r) == ~keep /\ first = r     \* and i2 reads as r
        const == i1[3]
    IN  CASE pair = <<"PUSH", "PUSH">> ->
               IF <<Len(i1[2]), Len(i2[2])>> \in {<<1, 1>>, <<2, 1>>, <<2, 2>>}
               THEN <<"PUSH", i1[2] \o i2[2]>> ELSE <<>>
          [] pair = <<"PUSHC", "PUSHC">> ->
               IF Len(i1[2]) = 1 /\ Len(i2[2]) = 1
               THEN <<"PUSHC", i1[2] \o i2[2]>> ELSE <<>>
          [] pair = <<"PUSHC", "PUSHI">> ->
               IF Len(i1[2]) = 1 THEN <<"PUSHCI", i1[2][1], i2[2]>> ELSE <<>>
          [] pair = <<"PUSHI", "PUSHC">> ->
               IF Len(i2[2]) = 1 THEN <<"PUSHIC", i2[2][1], i1[2]>> ELSE <<>>
          [] pair \in {<<"LDI", "INIT">>, <<"LDC", "INIT">>} ->
               IF passed(i2[3]) THEN <<"INITK", i2[2], const>> ELSE <<>>
          [] pair \in {<<"LDI", "ASSIGN">>, <<"LDC", "ASSIGN">>} ->
               IF passed(i2[3]) THEN <<"ASSIGNK", i2[2], const>> ELSE <<>>
          [] pair = <<"LDNIL", "INIT">> ->
               IF passed(i2[3]) THEN <<"INITK", i2[2], <<"nil">>>> ELSE <<>>
          [] pair = <<"LDNIL", "ASSIGN">> ->
               IF passed(i2[3]) THEN <<"ASSIGNK", i2[2], <<"nil">>>> ELSE <<>>
          [] pair = <<"GETARGI", "PUSH">> ->
               IF ~keep /\ i2[2] = <<first>> THEN <<"PHARGI", 1>> ELSE <<>>
          [] pair = <<"PHARGI", "PHARGI">> ->
               IF i1[2] = 1 /\ i2[2] = 1 THEN <<"PHARGI", 2>> ELSE <<>>
          [] pair = <<"BOP", "PUSH">> ->
               IF ~keep /\ i2[2] = <<first>>
               THEN <<"PHBOP", i1[3], i1[4], i1[5]>> ELSE <<>>
          [] pair = <<"BOPI", "PUSH">> ->
               IF ~keep /\ i2[2] = <<first>>
               THEN <<"PHBOPI", i1[3], i1[4], i1[5]>> ELSE <<>>
          [] pair = <<"LDC", "INDGET">> ->
               IF passed(i2[3]) THEN <<"INDGETC", i2[2], const, i2[4]>> ELSE <<>>
          [] pair = <<"LDC", "INDSET">> ->
               IF passed(i2[3]) THEN <<"INDSETC", i2[2], const, i2[4]>> ELSE <<>>
          [] pair = <<"LDC", "BOP">> ->
               IF passed(i2[5]) THEN <<"BOPC", i2[2], i2[3], i2[4], const>> ELSE <<>>
          [] OTHER -> <<>>

\* Operators with instructions of their own.
SingleSubst(i) ==
    CASE i[1] = "BOP" /\ i[4] = "add" -> <<"ADD", i[2], i[3], i[5]>>
      [] i[1] = "PHBOP" /\ i[3] = "add" -> <<"PHADD", i[2], i[4]>>
      [] OTHER -> i

RECURSIVE OnePass(_, _, _)
OnePass(code, pc, keep) ==
    LET sub == IF pc < Len(code) THEN PairSubst(code[pc], code[pc + 1], keep)
               ELSE <<>>
        paired == IF sub = <<>> THEN code
                  ELSE SubSeq(code, 1, pc - 1) \o <<sub>>
                       \o SubSeq(code, pc + 2, Len(code))
    IN  IF pc > Len(code) THEN code
        ELSE OnePass([paired EXCEPT ![pc] = SingleSubst(@)], pc + 1, keep)

RECURSIVE Passes(_, _, _)
Passes(code, from, keep) ==
    LET c == OnePass(code, from, keep)
    IN  IF c = code THEN code ELSE Passes(c, from, keep)

\* Mutant: the next fragment starts where the code ended before it shrank.
OptimizeLong(g, keep) ==
    LET c == IF g.peephole THEN Passes(g.code, g.frag, keep) ELSE g.code
    IN  [g EXCEPT !.code = c, !.frag = Len(g.code) + 1]

\* eel_optimize(): the fragment ends here.
Optimize(g, keep) ==
    LET c == IF g.peephole THEN Passes(g.code, g.frag, keep) ELSE g.code
    IN  [g EXCEPT !.code = c, !.frag = Len(c) + 1]

-----------------------------------------------------------------------------
(* The parser: assignstat(), and call() with its arguments.                  *)

Targets == statement.targets
Sources == statement.sources
IsCall == statement.op = "call"
Pairs == IF Len(Sources) > Len(Targets) THEN Len(Sources) ELSE Len(Targets)
Nth(list, i) == IF Len(list) = 1 THEN list[1] ELSE list[i]

Compiles(g, next) ==
    /\ gen' = g
    /\ phase' = IF g.ok THEN next ELSE "rejected"
    /\ UNCHANGED <<statement, env, limbo, dangling>>

\* Mutant: the first target is forgotten.
OverlapLate(i) ==
    \E d \in 2..Len(Targets) : d < i /\ ~Independent(Sources[i], Targets[d])

\* Whether a target that is assigned before source i may alter it.
Overlap(i) ==
    \E d \in 1..Len(Targets) : d < i /\ ~Independent(Sources[i], Targets[d])

SaveSource ==
    /\ phase = "save"
    /\ at <= Len(Sources)
    /\ LET r == Free(gen)
       IN  IF Overlap(at)
           THEN /\ saved' = Append(saved, Register(r))
                /\ Compiles(Read(Take(gen, r), Sources[at], r), "save")
           ELSE /\ saved' = Append(saved, Void)
                /\ Compiles(gen, "save")
    /\ at' = at + 1

SavesAny == \E i \in 1..Len(saved) : saved[i] # Void

AllSaved ==
    /\ phase = "save"
    /\ at > Len(Sources)
    /\ at' = 1
    /\ Compiles(IF SavesAny THEN Optimize(gen, FALSE) ELSE gen, "code")
    /\ UNCHANGED saved

AssignNext ==
    /\ phase = "code"
    /\ ~IsCall
    /\ at <= Pairs
    /\ LET src == IF Nth(saved, at) = Void THEN Nth(Sources, at) ELSE Nth(saved, at)
       IN  Compiles(Operated(gen, src, statement.op, Nth(Targets, at)), "code")
    /\ at' = at + 1
    /\ UNCHANGED saved

\* The saved sources are given up; what was not optimized yet is, later, when
\* the next branch or the end of the function is coded.
EndAssign ==
    /\ phase = "code"
    /\ ~IsCall
    /\ at > Pairs
    /\ at' = 1
    /\ saved' = <<>>
    /\ LET held == {saved[i].reg : i \in {j \in 1..Len(saved) : saved[j] # Void}}
           g == [gen EXCEPT !.used = @ \ held]
       IN  Compiles(Optimize(Optimize(g, SavesAny), FALSE), "run")

\* eel_ml_push(): the arguments of a call.
PushNext ==
    /\ phase = "code"
    /\ IsCall
    /\ at <= Len(Sources)
    /\ Compiles(Pushed(gen, Sources[at]), "code")
    /\ at' = at + 1
    /\ UNCHANGED saved

EndCall ==
    /\ phase = "code"
    /\ IsCall
    /\ at > Len(Sources)
    /\ at' = 1
    /\ Compiles(Optimize(gen, FALSE), "run")
    /\ UNCHANGED saved

-----------------------------------------------------------------------------
(* The virtual machine.  An object is owned by what holds it and by limbo,   *)
(* and destroyed when nothing does; temporary registers own nothing.         *)

Unset == <<"unset">>
Range(f) == {f[x] : x \in DOMAIN f}

Holding(e) ==
    {e.reg[r] : r \in Locals \union Fresh} \union Range(e.stat)
    \union Range(e.tab) \union Range(e.stack) \union {e.up, e.arg}

IsObject(v) == v[1] = "obj"
Alive(v, e, inLimbo) == IsObject(v) => v \in Holding(e) \union inLimbo

Slot(e, key) == IF key \in DOMAIN e.tab THEN e.tab[key] ELSE <<"slot", key>>
SetSlot(e, key, v) == [e EXCEPT !.tab = (key :> v) @@ @]

\* An instruction leads to environment e; before, the values "used" are read,
\* and what "between" does not hold any more is gone.
Executes(e, between, used, grabbed) ==
    /\ at' = at + 1
    /\ env' = e
    /\ limbo' = limbo \union {v \in grabbed : IsObject(v)}
    /\ dangling' = (dangling \/ \E v \in used : ~Alive(v, between, limbo))
    /\ UNCHANGED <<statement, phase, gen, saved>>

Ins == gen.code[at]
Reg(r) == env.reg[r]
Running(names) == phase = "run" /\ at <= Len(gen.code) /\ Ins[1] \in names
SetReg(r, v) == [env EXCEPT !.reg[r] = v]
PushedOn(values) == [env EXCEPT !.stack = @ \o values]

ExecLoad ==
    \/ /\ Running({"LDI", "LDC"})
       /\ Executes(SetReg(Ins[2], Ins[3]), env, {}, {})
    \/ /\ Running({"LDNIL"})
       /\ Executes(SetReg(Ins[2], <<"nil">>), env, {}, {})
    \/ /\ Running({"LDTRUE"})
       /\ Executes(SetReg(Ins[2], <<"true">>), env, {}, {})
    \/ /\ Running({"MOVE"})
       /\ Executes(SetReg(Ins[2], Reg(Ins[3])), env, {Reg(Ins[3])}, {})

\* ASSIGN disowns the old value before it owns the new one.
ExecInit ==
    \/ /\ Running({"INIT"})
       /\ Executes(SetReg(Ins[2], Reg(Ins[3])), env, {Reg(Ins[3])}, {})
    \/ /\ Running({"ASSIGN"})
       /\ Executes(SetReg(Ins[2], Reg(Ins[3])), SetReg(Ins[2], Unset),
                   {Reg(Ins[3])}, {})
    \/ /\ Running({"INITK", "ASSIGNK"})
       /\ Executes(SetReg(Ins[2], Ins[3]), env, {}, {})

\* Mutant: the static variable's value is not grabbed.
ExecGetLoose ==
    \/ /\ Running({"GETUVAL"})
       /\ Executes(SetReg(Ins[2], env.up), env, {env.up}, {env.up})
    \/ /\ Running({"GETARGI"})
       /\ Executes(SetReg(Ins[2], env.arg), env, {env.arg}, {env.arg})
    \/ /\ Running({"GETVAR"})
       /\ LET v == env.stat[Ins[3]]
          IN  Executes(SetReg(Ins[2], v), env, {v}, {})

\* What is read from elsewhere than a register is put in limbo.
ExecGet ==
    \/ /\ Running({"GETUVAL"})
       /\ Executes(SetReg(Ins[2], env.up), env, {env.up}, {env.up})
    \/ /\ Running({"GETARGI"})
       /\ Executes(SetReg(Ins[2], env.arg), env, {env.arg}, {env.arg})
    \/ /\ Running({"GETVAR"})
       /\ LET v == env.stat[Ins[3]]
          IN  Executes(SetReg(Ins[2], v), env, {v}, {v})

ExecSet ==
    \/ /\ Running({"SETUVAL"})
       /\ LET v == Reg(Ins[2])
          IN  Executes([env EXCEPT !.up = v], [env EXCEPT !.up = Unset], {v}, {})
    \/ /\ Running({"SETARGI"})
       /\ LET v == Reg(Ins[2])
          IN  Executes([env EXCEPT !.arg = v], [env EXCEPT !.arg = Unset], {v}, {})
    \/ /\ Running({"SETVAR"})
       /\ LET v == Reg(Ins[2])
          IN  Executes([env EXCEPT !.stat[Ins[3]] = v],
                       [env EXCEPT !.stat[Ins[3]] = Unset], {v}, {})

\* The one indexable object here is the table, whoever refers to it.
ExecIndex ==
    \/ /\ Running({"INDGET", "INDGETI", "INDGETC"})
       /\ LET key == IF Ins[1] = "INDGET" THEN Reg(Ins[3]) ELSE Ins[3]
              v == Slot(env, key)
          IN  Executes(SetReg(Ins[2], v), env, {key, v, Reg(Ins[4])}, {v})
    \/ /\ Running({"INDSET", "INDSETI", "INDSETC"})
       /\ LET key == IF Ins[1] = "INDSET" THEN Reg(Ins[3]) ELSE Ins[3]
              v == Reg(Ins[2])
          IN  Executes(SetSlot(env, key, v), SetSlot(env, key, Unset),
                       {key, v, Reg(Ins[4])}, {})

Computed(op, l, r) == Executes(SetReg(Ins[2], <<op, l, r>>), env, {l, r}, {})

ExecOperate ==
    \/ Running({"BOP"}) /\ Computed(Ins[4], Reg(Ins[3]), Reg(Ins[5]))
    \/ Running({"BOPI", "BOPC"}) /\ Computed(Ins[4], Reg(Ins[3]), Ins[5])
    \/ Running({"BOPS"}) /\ Computed(Ins[4], Reg(Ins[3]), env.stat[Ins[5]])
    \/ Running({"ADD"}) /\ Computed("add", Reg(Ins[3]), Reg(Ins[4]))
    \/ Running({"CAST"}) /\ Computed("cast", Reg(Ins[4]), Reg(Ins[3]))
    \/ /\ Running({"UNOP"})
       /\ LET v == Reg(Ins[4])
          IN  Executes(SetReg(Ins[2], <<Ins[3], v>>), env, {v}, {})

ExecWeakref ==
    /\ Running({"WEAKREF"})
    /\ LET v == Reg(Ins[3])
       IN  IF IsObject(v) \/ v = <<"nil">>
           THEN Executes(SetReg(Ins[2], IF IsObject(v) THEN <<"weak", v>> ELSE v),
                         env, {v}, {})
           ELSE /\ phase' = "thrown"
                /\ UNCHANGED <<statement, gen, saved, at, env, limbo, dangling>>

PushAll(values) ==
    Executes(PushedOn(values), env, {values[i] : i \in DOMAIN values}, {})

ExecPush ==
    \/ Running({"PUSH"}) /\ PushAll([i \in DOMAIN Ins[2] |-> Reg(Ins[2][i])])
    \/ Running({"PUSHC"}) /\ PushAll(Ins[2])
    \/ Running({"PUSHI"}) /\ PushAll(<<Ins[2]>>)
    \/ Running({"PUSHCI"}) /\ PushAll(<<Ins[2], Ins[3]>>)
    \/ Running({"PUSHIC"}) /\ PushAll(<<Ins[3], Ins[2]>>)
    \/ Running({"PUSHNIL"}) /\ PushAll(<< <<"nil">> >>)
    \/ Running({"PHTRUE"}) /\ PushAll(<< <<"true">> >>)
    \/ Running({"PHUVAL"}) /\ PushAll(<<env.up>>)
    \/ Running({"PHVAR"}) /\ PushAll(<<env.stat[Ins[2]]>>)
    \/ Running({"PHARGI"}) /\ PushAll([i \in 1..Ins[2] |-> env.arg])
    \/ Running({"PHBOP"}) /\ PushAll(<< <<Ins[3], Reg(Ins[2]), Reg(Ins[4])>> >>)
    \/ Running({"PHBOPI"}) /\ PushAll(<< <<Ins[3], Reg(Ins[2]), Ins[4]>> >>)
    \/ Running({"PHADD"}) /\ PushAll(<< <<"add", Reg(Ins[2]), Reg(Ins[3])>> >>)

Executed ==
    /\ phase = "run"
    /\ at > Len(gen.code)
    /\ phase' = "done"
    /\ UNCHANGED <<statement, gen, saved, at, env, limbo, dangling>>

-----------------------------------------------------------------------------
(* What a statement means: the sources are read, then the targets assigned   *)
(* from left to right.                                                       *)

Table == <<"obj", "table">>

InitialEnv ==
    [reg |-> [r \in 0..MaxRegister |-> IF r \in Locals THEN Initially[r] ELSE Unset],
     up |-> <<"obj", "up">>, arg |-> <<"obj", "arg">>,
     stat |-> << <<"obj", "static">>, Table>>,
     tab |-> <<"int", 0>> :> <<"obj", "slot">>,
     stack |-> <<>>]

RECURSIVE Value(_, _)
Value(m, e) ==
    CASE m.kind = "const" -> m.value
      [] m.kind = "variable" -> e.reg[m.reg]
      [] m.kind = "upvalue" -> e.up
      [] m.kind = "argument" -> e.arg
      [] m.kind = "statvar" -> e.stat[m.index]
      [] m.kind = "index" -> Slot(e, Value(m.index, e))
      [] m.kind = "op" -> <<m.op, Value(m.left, e), Value(m.right, e)>>
      [] m.kind = "unop" -> <<m.op, Value(m.right, e)>>
      [] m.kind = "cast" /\ m.class = "real" -> <<m.class, Value(m.object, e)>>
      [] OTHER -> <<"cast", <<"class", m.class>>, Value(m.object, e)>>

Assigned(e, m, v) ==
    CASE m.kind = "variable" -> [e EXCEPT !.reg[m.reg] = v]
      [] m.kind = "upvalue" -> [e EXCEPT !.up = v]
      [] m.kind = "argument" -> [e EXCEPT !.arg = v]
      [] m.kind = "statvar" -> [e EXCEPT !.stat[m.index] = v]
      [] OTHER -> SetSlot(e, Value(m.index, e), v)

Result(e, to, v) ==
    CASE statement.op = "assign" -> v
      [] statement.op = "weak" -> IF IsObject(v) THEN <<"weak", v>> ELSE v
      [] OTHER -> <<statement.op, Value(to, e), v>>

Meant ==
    LET read == [i \in 1..Len(Sources) |-> Value(Sources[i], InitialEnv)]
        after[n \in 0..Pairs] ==
            IF n = 0 THEN InitialEnv
            ELSE LET to == Nth(Targets, n)
                     e == after[n - 1]
                 IN  Assigned(e, to, Result(e, to, Nth(read, n)))
    IN  IF IsCall THEN [InitialEnv EXCEPT !.stack = read] ELSE after[Pairs]

Program(e) == [e EXCEPT !.reg = [r \in Locals \union Fresh |-> @[r]]]

-----------------------------------------------------------------------------
(* The statements that are compiled.                                         *)

RECURSIVE Parts(_)
Parts(m) ==
    LET parts == CASE m.kind = "op" -> {m.left, m.right}
                   [] m.kind = "unop" -> {m.right}
                   [] m.kind = "cast" -> {m.object}
                   [] m.kind = "index" -> {m.object, m.index}
                   [] OTHER -> {}
    IN  parts \union UNION {Parts(p) : p \in parts}

\* assignstat() counts the operands.
WellFormed(s) ==
    \/ s.op = "call"
    \/ /\ s.targets # <<>> /\ s.sources # <<>>
       /\ Len(s.targets) = 1 \/ Len(s.sources) = 1 \/ Len(s.targets) = Len(s.sources)
       /\ s.op \in {"assign", "weak"} => Len(s.sources) <= Len(s.targets)

\* A source made of what an earlier target overwrites, or a single source read
\* again for every target, is not saved.
Compound(s) ==
    \/ \E i \in 1..Len(s.sources), d \in 1..Len(s.targets) :
         d < i /\ \E p \in Parts(s.sources[i]) : ~Independent(p, s.targets[d])
    \/ /\ Len(s.sources) = 1
       /\ \E d \in 1..(Len(s.targets) - 1), p \in Parts(s.sources[1]) \union {s.sources[1]} :
            ~Independent(p, s.targets[d])

\* A local variable that is read as it is when or after it is overwritten, and
\* is the only owner of its object.
OnlyOwner(s, inLimbo) ==
    \E k, j \in 1..(Len(s.sources) + Len(s.targets) - 1) :
      /\ k <= Len(s.targets) \/ Len(s.targets) = 1
      /\ j <= Len(s.sources) \/ Len(s.sources) = 1
      /\ j > k \/ (j = k /\ s.op = "assign")
      /\ LET to == Nth(s.targets, k)
         IN  /\ to.kind = "variable"
             /\ to.reg \in Locals
             /\ Nth(s.sources, j) = to
             /\ IsObject(Initially[to.reg])
             /\ Initially[to.reg] \notin inLimbo

Allowed(s, inLimbo) ==
    /\ WellFormed(s)
    /\ Compound(s) => "compound" \in Risky
    /\ s.op # "call" /\ OnlyOwner(s, inLimbo) => "onlyOwner" \in Risky

\* The locals' objects were made in this call of the function, and are in its
\* limbo list; or they were assigned by an inner function.
Init ==
    /\ limbo \in {{}, {v \in Range(Initially) : IsObject(v)}}
    /\ \E group \in Statements, op \in Operators \union {"assign", "weak", "call"} :
         /\ op \in group.ops
         /\ statement \in [targets : group.targets, sources : group.sources, op : {op}]
    /\ Allowed(statement, limbo)
    /\ phase = IF statement.op = "call" THEN "code" ELSE "save"
    /\ \E peephole \in BOOLEAN :
         gen = [code |-> <<>>, frag |-> 1, used |-> Locals \union Fresh,
                init |-> Locals, peephole |-> peephole, ok |-> TRUE]
    /\ saved = <<>>
    /\ at = 1
    /\ env = InitialEnv
    /\ dangling = FALSE

Compile == SaveSource \/ AllSaved \/ AssignNext \/ EndAssign \/ PushNext \/ EndCall

Run ==
    \/ ExecLoad
    \/ ExecInit
    \/ ExecGet
    \/ ExecSet
    \/ ExecIndex
    \/ ExecOperate
    \/ ExecWeakref
    \/ ExecPush
    \/ Executed

Next == Compile \/ Run

Spec == Init /\ [][Next]_vars

-----------------------------------------------------------------------------
(* Properties.                                                               *)

\* The types of the variables (the instructions and terms by their shape).
TypeOK ==
    /\ phase \in {"save", "code", "run", "done", "rejected", "thrown"}
    /\ WellFormed(statement)
    /\ at \in 1..(Len(gen.code) + Len(Sources) + Len(Targets) + 1)
    /\ gen.used \subseteq 0..MaxRegister
    /\ gen.init \subseteq Locals \union Fresh
    /\ gen.frag \in 1..(Len(gen.code) + 1)
    /\ DOMAIN env.reg = 0..MaxRegister
    /\ limbo \subseteq Holding(InitialEnv)
    /\ dangling \in BOOLEAN

\* Every target gets what its source was worth before the statement, whatever
\* the targets before it, and a call its arguments in their order; nothing else
\* changes: the overlap test, the saved sources, the code and its optimization
\* together (assignstat, eel_m_operate, eel_m_push, eel_optimize).
AsMeant == phase = "done" => Program(env) = Program(Meant)

\* No instruction uses an object that an instruction before it destroyed: a
\* register borrows its value from a place that may be overwritten meanwhile.
ValuesAlive == ~dangling

=============================================================================
