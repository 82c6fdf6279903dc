------------------------------- MODULE EelVM -------------------------------
(***************************************************************************)
(* Calls, exceptions and object ownership in the virtual machine of        *)
(* src/src/core/e_vm.c.  The call frames on the VM heap are one stack, the *)
(* C stack another: an eel_run loop executes the EEL frames above the C    *)
(* function that called it, and a C function an EEL instruction called can *)
(* enter a new eel_run.  Exceptions unwind the frames of one eel_run; what *)
(* it cannot handle it returns to its C caller as a code.                  *)
(*                                                                         *)
(* Only references to objects are kept.  A program is any sequence of      *)
(* instructions the compiler can emit for the kind of block a frame runs.  *)
(***************************************************************************)
EXTENDS Integers, Sequences, FiniteSets, SequencesExt

CONSTANTS Objs,        \* the objects there is memory for
          MaxFrames,   \* bound of the model: call frames
          MaxVars,     \* bound of the model: variables of a frame
          MaxArgs,     \* bound of the model: values on an argument stack
          Untry        \* whether programs use untry blocks

Codes == {"x", "internal"}     \* any exception code, and EEL_XINTERNAL
Nil == "nil"

ASSUME ObjsAssumption == Objs \cap ({Nil, "return", "ok"} \cup Codes) = {}
ASSUME BoundsAssumption ==
    MaxFrames \in Nat \ {0} /\ MaxVars \in Nat /\ MaxArgs \in Nat
ASSUME UntryAssumption == Untry \in BOOLEAN

VARIABLES
    frames,   \* the call frames, outermost first; the first is vm_init's
    cstack,   \* C functions ("c") and eel_run loops ("run"), outermost first
    exc,      \* VMP->exception
    static,   \* a static variable of a module
    rc        \* refcount of every object; 0 once it is destroyed

vars == <<frames, cstack, exc, static, rc>>

Depth == Len(frames)
Top == frames[Depth]
InEel == Last(cstack).kind = "run"

\* A C function runs, in the frame call_c made for it.
InC == Last(cstack).kind = "c" /\ Depth = Last(cstack).base
Host == Len(cstack) = 1

(***************************************************************************)
(* A call frame.  `block` tells a function from the bodies of try, untry   *)
(* and except, which run in frames of their own; a "try" frame is one      *)
(* whose `catcher` is set.  `tmp` is the register results are put in: it   *)
(* is not owned in an EEL frame, and owned in R[0] of a C frame.  `result` *)
(* is the frame whose register takes the result, or 0.                     *)
(***************************************************************************)
Frame(kind, block, result) ==
    [kind |-> kind, block |-> block, result |-> result,
     vars |-> << >>, args |-> << >>, limbo |-> {}, tmp |-> Nil]

Init ==
    /\ frames = << Frame("c", "none", 0) >>
    /\ cstack = << [kind |-> "c", base |-> 1, err |-> "ok"] >>
    /\ exc = Nil
    /\ static = Nil
    /\ rc = [o \in Objs |-> 0]

-----------------------------------------------------------------------------
(* Ownership. *)

\* eel_o_own; it cannot bring back what was destroyed.
Own(r, v) == IF v \in Objs /\ r[v] > 0 THEN [r EXCEPT ![v] = @ + 1] ELSE r
Disown(r, v) == IF v \in Objs THEN [r EXCEPT ![v] = @ - 1] ELSE r

Count(s, o) == Cardinality({i \in DOMAIN s : s[i] = o})

\* References that clean, limbo_clean and stack_clear drop for a frame.
Held(f, o) == Count(f.vars, o) + Count(f.args, o) + Cardinality(f.limbo \cap {o})

\* The sum of the numbers h gives to the members of its domain.
SumOf(h) == Cardinality(UNION {{i} \X (1 .. h[i]) : i \in DOMAIN h})

\* stack_clear, and what unwind does to each of the frames from n on.
ClearArgs(r, args) == [o \in Objs |-> r[o] - Count(args, o)]
Release(r, fs, n) ==
    [o \in Objs |-> r[o] - SumOf([i \in n .. Len(fs) |-> Held(fs[i], o)])]

\* eel_in_limbo: in whose list an object is cannot be told.
InLimbo(fs, v) == \E i \in DOMAIN fs : v \in fs[i].limbo

\* Mutation: pushed again when it is in some list already.
ToLimboAgain(fs, v) ==
    IF v \in Objs THEN [fs EXCEPT ![Len(fs)].limbo = @ \cup {v}] ELSE fs

\* eel_o_limbo on the current function, unless the object is in limbo.
ToLimbo(fs, v) ==
    IF v \in Objs /\ ~InLimbo(fs, v)
    THEN [fs EXCEPT ![Len(fs)].limbo = @ \cup {v}]
    ELSE fs

\* Mutations: the reference kept, and no reference taken.
ReceivedKept(r, fs, v) == r
GrabbedNot(r, fs, v) == r

\* eel_v_receive drops a reference of an object in limbo, eel_v_grab takes
\* one of an object that is not.
Received(r, fs, v) == IF InLimbo(fs, v) THEN Disown(r, v) ELSE r
Grabbed(r, fs, v) == IF InLimbo(fs, v) THEN r ELSE Own(r, v)

\* The operand of an instruction: a variable, or the register.
Operands == {v \in Range(Top.vars) \cup {Top.tmp} : v \in Objs}

-----------------------------------------------------------------------------
(* Leaving frames. *)

\* eel_run returns to the C function that called it.
EndRun(cs, err) == cstack' = [Front(cs) EXCEPT ![Len(cs) - 1].err = err]

\* The function in frame n returns v: its frame goes with those above it,
\* the caller's arguments go, and an EEL caller receives the result.
Leave(n, result, v, r) ==
    LET kept == [SubSeq(frames, 1, n - 1) EXCEPT ![n - 1].args = << >>]
        put  == IF result = 0 THEN kept ELSE [kept EXCEPT ![result].tmp = v]
        left == ClearArgs(Release(IF result = 0 THEN r ELSE Own(r, v), frames, n),
                          frames[n - 1].args)
    IN  IF frames[n - 1].kind = "c"
        THEN /\ EndRun(cstack, "ok")
             /\ frames' = put
             /\ rc' = left
        ELSE /\ UNCHANGED cstack
             /\ frames' = IF result = 0 THEN put ELSE ToLimbo(put, v)
             /\ rc' = IF result = 0 THEN left ELSE Received(left, put, v)

\* Mutations: the search for a catcher goes past C functions, goes past untry
\* blocks, and gives up in an except block.
StopAtRoot(fs) == Max({i \in DOMAIN fs : i = 1 \/ fs[i].block = "untry"})
StopAtC(fs) == Max({i \in DOMAIN fs : fs[i].kind = "c"})
StopAtCatch(fs) == Max({i \in DOMAIN fs : fs[i].kind = "c" \/ fs[i].block \in {"untry", "catch"}})

\* The nearest C function or untry block: no exception gets below it.
Stop(fs) == Max({i \in DOMAIN fs : fs[i].kind = "c" \/ fs[i].block = "untry"})
Tries(fs) == {i \in Stop(fs) + 1 .. Len(fs) : fs[i].block = "try"}

\* Mutations: no entry in the clean table, and a result index of its own.
CatcherNotCleaned(fs, h, e) == Frame("eel", "catch", fs[h - 1].result)
CatcherOwnResult(fs, h, e) ==
    [Frame("eel", "catch", h - 1) EXCEPT !.vars = IF e \in Objs THEN << e >> ELSE << >>]

\* call_catcher in the frame of the TRY: its result, the exception in R[0].
Catcher(fs, h, e) ==
    [Frame("eel", "catch", fs[h - 1].result) EXCEPT
        !.vars = IF e \in Objs THEN << e >> ELSE << >>]

\* eel__throw(e) and eel__scheduler, in the eel_run on top of cs and its frames
\* fs: the nearest catcher runs in the place of the try body, or eel_run returns.
Throw(cs, fs, r, e) ==
    LET h == Max(Tries(fs))
    IN  IF Tries(fs) # {} /\ e # "internal"
        THEN /\ frames' = Append(SubSeq(fs, 1, h - 1), Catcher(fs, h, e))
             /\ rc' = Release(Own(Disown(r, exc), e), fs, h)
             /\ exc' = Nil
             /\ cstack' = cs
        ELSE /\ frames' = SubSeq(fs, 1, Stop(fs))
             /\ rc' = Release(Own(Disown(r, exc), e), fs, Stop(fs) + 1)
             /\ exc' = e
             /\ EndRun(cs, IF e \in Objs THEN "x" ELSE e)

-----------------------------------------------------------------------------
(* EEL instructions. *)

SetTop(f) == frames' = [frames EXCEPT ![Depth] = f]

INEW ==
    /\ InEel
    /\ \E o \in Objs :
        /\ rc[o] = 0
        /\ SetTop([Top EXCEPT !.tmp = o, !.limbo = @ \cup {o}, !.args = << >>])
        /\ rc' = ClearArgs([rc EXCEPT ![o] = 1], Top.args)
    /\ UNCHANGED <<cstack, exc, static>>

\* The value is borrowed from v's owner, so the frame grabs it.
Get(v) ==
    /\ frames' = ToLimbo([frames EXCEPT ![Depth].tmp = v], v)
    /\ rc' = Grabbed(rc, frames, v)
    /\ UNCHANGED <<cstack, exc, static>>

GETVAR == InEel /\ static \in Objs /\ Get(static)

\* The body of a block reaches the variables of the function around it.
GETUVAL ==
    /\ InEel /\ Top.block # "none"
    /\ \E v \in Range(frames[Depth - 1].vars) : Get(v)

SETVAR ==
    /\ InEel
    /\ \E v \in Operands :
        /\ static' = v
        /\ rc' = Own(Disown(rc, static), v)
    /\ UNCHANGED <<frames, cstack, exc>>

SETUVAL ==
    /\ InEel /\ Top.block # "none"
    /\ \E i \in DOMAIN frames[Depth - 1].vars, v \in Operands :
        /\ frames' = [frames EXCEPT ![Depth - 1].vars[i] = v]
        /\ rc' = Own(Disown(rc, frames[Depth - 1].vars[i]), v)
    /\ UNCHANGED <<cstack, exc, static>>

INIT ==
    /\ InEel /\ Len(Top.vars) < MaxVars
    /\ \E v \in Operands :
        /\ SetTop([Top EXCEPT !.vars = Append(@, v)])
        /\ rc' = Own(rc, v)
    /\ UNCHANGED <<cstack, exc, static>>

\* From the register: `a = a` compiles to an ASSIGN that frees its operand.
ASSIGN ==
    /\ InEel /\ Top.tmp \in Objs
    /\ \E i \in DOMAIN Top.vars :
        /\ SetTop([Top EXCEPT !.vars[i] = Top.tmp])
        /\ rc' = Own(Disown(rc, Top.vars[i]), Top.tmp)
    /\ UNCHANGED <<cstack, exc, static>>

\* Mutation: the clean table is not cut back.
CLEANTwice ==
    /\ InEel
    /\ \E n \in 0 .. Len(Top.vars) - 1 :
        rc' = ClearArgs(rc, SubSeq(Top.vars, n + 1, Len(Top.vars)))
    /\ UNCHANGED <<frames, cstack, exc, static>>

\* The end of a {...} block: variables go, objects in limbo stay.
CLEAN ==
    /\ InEel
    /\ \E n \in 0 .. Len(Top.vars) - 1 :
        /\ SetTop([Top EXCEPT !.vars = SubSeq(@, 1, n)])
        /\ rc' = ClearArgs(rc, SubSeq(Top.vars, n + 1, Len(Top.vars)))
    /\ UNCHANGED <<cstack, exc, static>>

PUSH ==
    /\ InEel /\ Len(Top.args) < MaxArgs
    /\ \E v \in Operands :
        /\ SetTop([Top EXCEPT !.args = Append(@, v)])
        /\ rc' = Own(rc, v)
    /\ UNCHANGED <<cstack, exc, static>>

\* CALL and CALLR on an EEL function: call_eel.
CALL ==
    /\ InEel /\ Depth < MaxFrames
    /\ \E result \in {0, Depth} :
        frames' = Append(frames, Frame("eel", "none", result))
    /\ UNCHANGED <<cstack, exc, static, rc>>

\* CALL and CALLR on a C function: call_c up to the callback.
call_c ==
    /\ InEel /\ Depth < MaxFrames
    /\ \E result \in {0, Depth} :
        frames' = Append(frames, Frame("c", "none", result))
    /\ cstack' = Append(cstack, [kind |-> "c", base |-> Depth + 1, err |-> "ok"])
    /\ UNCHANGED <<exc, static, rc>>

\* RETURNR in a function, and the RETURN at the end of every other block.
RETURN ==
    /\ InEel /\ Top.args = << >>
    /\ \/ /\ Top.block = "none"
          /\ \E v \in Operands \cup {Nil} : Leave(Depth, Top.result, v, rc)
       \/ /\ Top.block # "none"
          /\ Leave(Depth, 0, Nil, rc)
    /\ UNCHANGED <<exc, static>>

\* RETX and RETXR leave the function around the blocks, by an exception.
RETX ==
    /\ InEel /\ Top.args = << >> /\ Top.block # "none"
    /\ \E v \in Operands \cup {Nil} :
        Leave(Max({i \in DOMAIN frames : frames[i].block = "none"}),
              Top.result, v, Disown(rc, exc))
    /\ exc' = "return"
    /\ UNCHANGED static

\* A statement, so that no arguments are on the stack.
TRY ==
    /\ InEel /\ Top.args = << >> /\ Depth < MaxFrames
    /\ frames' = Append(frames, Frame("eel", "try", Top.result))
    /\ UNCHANGED <<cstack, exc, static, rc>>

UNTRY ==
    /\ Untry
    /\ InEel /\ Top.args = << >> /\ Depth < MaxFrames
    /\ frames' = Append(frames, Frame("eel", "untry", Top.result))
    /\ UNCHANGED <<cstack, exc, static, rc>>

\* Only in except blocks: back to the TRY that called this catcher.
RETRY ==
    /\ InEel /\ Top.args = << >> /\ Top.block = "catch"
    /\ frames' = Append(Front(frames), Frame("eel", "try", frames[Depth - 1].result))
    /\ rc' = Release(rc, frames, Depth)
    /\ UNCHANGED <<cstack, exc, static>>

THROW ==
    /\ InEel
    /\ \E v \in Operands : Throw(cstack, frames, rc, v)
    /\ UNCHANGED static

\* XCHECK and THROW(x): any instruction can fail.
Fault ==
    /\ InEel
    /\ \E code \in Codes : Throw(cstack, frames, rc, code)
    /\ UNCHANGED static

-----------------------------------------------------------------------------
(* C functions. *)

\* eel_callf up to the loop of eel_run: arguments are reset and pushed, R[0]
\* marks whether a result is expected, and no old exception is left.  What
\* was in R[0] is not disowned: the C code took it over before.
eel_callf ==
    /\ InC /\ Top.tmp = Nil /\ Depth < MaxFrames
    /\ Host \/ Last(cstack).err = "ok"
    /\ \E result \in {0, Depth},
          args \in {<< >>} \cup {<< v >> : v \in IF Host THEN {} ELSE Range(frames[Depth - 1].args)} :
        /\ Len(args) <= MaxArgs
        /\ frames' = Append([frames EXCEPT ![Depth].args = args],
                            Frame("eel", "none", result))
        /\ rc' = LET r == Disown(ClearArgs(rc, Top.args), exc)
                 IN  IF args = << >> THEN r ELSE Own(r, args[1])
    /\ exc' = Nil
    /\ cstack' = Append([cstack EXCEPT ![Len(cstack)].err = "ok"],
                        [kind |-> "run", base |-> 0, err |-> "ok"])
    /\ UNCHANGED static

\* The C code drops the result it was given.
Drop ==
    /\ InC /\ Top.tmp \in Objs
    /\ SetTop([Top EXCEPT !.tmp = Nil])
    /\ rc' = Disown(rc, Top.tmp)
    /\ UNCHANGED <<cstack, exc, static>>

\* What a C function can return: nothing, what it was given by an EEL
\* function, one of its arguments, or a new object.
Results == {Top.tmp} \cup
    IF Top.tmp # Nil THEN {}
    ELSE Range(frames[Depth - 1].args) \cup {o \in Objs : rc[o] = 0}

ResultOwned(v) ==
    IF v = Top.tmp THEN rc
    ELSE IF rc[v] = 0 THEN [rc EXCEPT ![v] = 1] ELSE Own(rc, v)

\* call_c from the callback on, when it succeeded.
ReturnC ==
    /\ InC /\ ~Host /\ Last(cstack).err = "ok"
    /\ \E v \in Results :
        LET kept == [Front(frames) EXCEPT ![Depth - 1].args = << >>]
            put  == [kept EXCEPT ![Depth - 1].tmp = v]
            r    == ClearArgs(ResultOwned(v), frames[Depth - 1].args)
        IN  IF Top.result = 0
            THEN frames' = kept /\ rc' = Disown(r, v)
            ELSE frames' = ToLimbo(put, v) /\ rc' = Received(r, put, v)
    /\ cstack' = Front(cstack)
    /\ UNCHANGED <<exc, static>>

\* call_c when the callback failed, and the exception CALL makes of it.  The
\* frame that goes is the one the VM is in, whoever made it.
FailC ==
    /\ Last(cstack).kind = "c" /\ ~Host
    /\ Top.kind = "c" => Top.tmp = Nil
    /\ Throw(Front(cstack),
             [Front(frames) EXCEPT ![Depth - 1].args = << >>],
             ClearArgs(ClearArgs(rc, Top.args), frames[Depth - 1].args),
             IF Last(cstack).err = "ok" THEN "x" ELSE Last(cstack).err)
    /\ UNCHANGED static

-----------------------------------------------------------------------------
Instruction ==
    \/ INEW \/ GETVAR \/ GETUVAL \/ SETVAR \/ SETUVAL
    \/ INIT \/ ASSIGN \/ CLEAN \/ PUSH
    \/ CALL \/ call_c \/ RETURN \/ RETX
    \/ TRY \/ UNTRY \/ RETRY \/ THROW \/ Fault

CFunction == eel_callf \/ Drop \/ ReturnC \/ FailC

Next == Instruction \/ CFunction

Spec == Init /\ [][Next]_vars

-----------------------------------------------------------------------------
(* Properties. *)

FrameType ==
    [kind : {"eel", "c"}, block : {"none", "try", "untry", "catch"},
     result : 0 .. MaxFrames, vars : Seq(Objs), args : Seq(Objs),
     limbo : SUBSET Objs, tmp : Objs \cup {Nil}]

TypeOK ==
    /\ frames \in Seq(FrameType) /\ Depth \in 1 .. MaxFrames
    /\ cstack \in Seq([kind : {"c", "run"}, base : 0 .. MaxFrames,
                       err : {"ok"} \cup Codes])
    /\ cstack # << >>
    /\ exc \in Objs \cup {Nil, "return"} \cup Codes
    /\ static \in Objs \cup {Nil}
    /\ rc \in [Objs -> Nat]

(***************************************************************************)
(* Reference counting: through calls, returns, unwinding, catchers, retry  *)
(* and C callbacks, an object's refcount is the number of owners it has    *)
(* anywhere in the VM.  Nothing is destroyed while it is owned, and nothing *)
(* that has lost its last owner is kept.                                   *)
(***************************************************************************)
InR0(f, o) == Cardinality({v \in {f.tmp} : f.kind = "c" /\ v = o})
Owners(fs, o) == SumOf([i \in DOMAIN fs |-> Held(fs[i], o) + InR0(fs[i], o)])

Counted ==
    \A o \in Objs :
        rc[o] = Owners(frames, o) + Cardinality({exc} \cap {o}) + Cardinality({static} \cap {o})

(***************************************************************************)
(* Limbo: eel_v_receive and eel_v_grab cannot tell whose list an object is *)
(* in; still no object is ever in two, and what a register of a function   *)
(* on the stack refers to without owning it lives until the function ends. *)
(***************************************************************************)
LimboOnce ==
    \A i, j \in DOMAIN frames : i # j => frames[i].limbo \cap frames[j].limbo = {}

TempsAlive ==
    \A i \in DOMAIN frames : frames[i].tmp \in Objs => rc[frames[i].tmp] > 0

(***************************************************************************)
(* The two stacks: after any exception, however many eel_run loops and C   *)
(* functions it went through, every C function that is still running has   *)
(* its frame, and the one that continues finds the VM in that frame.       *)
(***************************************************************************)
StacksAgree ==
    /\ {i \in DOMAIN frames : frames[i].kind = "c"}
         = {cstack[k].base : k \in {k \in DOMAIN cstack : cstack[k].kind = "c"}}
    /\ Last(cstack).kind = "c" => Depth = Last(cstack).base
    /\ InEel => Top.kind = "eel"

(***************************************************************************)
(* A try body and a catcher inherit the result index, also a catcher that  *)
(* is called after unwinding and a try body that is run again: what RETXR  *)
(* returns goes to the caller of the function around them.                 *)
(***************************************************************************)
ResultHome ==
    \A i \in DOMAIN frames :
        frames[i].result \in {0, Max({j \in 1 .. i : frames[j].block = "none"}) - 1}

(***************************************************************************)
(* eel__scheduler: a C function gets the code of an exception only when no *)
(* try block was active in the frames above it, but for those an untry     *)
(* block was in.                                                           *)
(***************************************************************************)
Loops(cs) == Cardinality({k \in DOMAIN cs : cs[k].kind = "run"})

NoHandlerBypassed ==
    [][ Loops(cstack') < Loops(cstack) /\ exc' \in Objs \cup {"x"}
            => \A i \in Last(cstack').base + 1 .. Depth :
                  frames[i].block = "try" => \E j \in i + 1 .. Depth : frames[j].block = "untry"
      ]_vars

CatcherStarts ==
    /\ Len(frames') <= Depth
    /\ Last(frames').block = "catch"
    /\ frames[Len(frames')].block = "try"

UntryDropped == \E i \in Len(frames') .. Depth : frames[i].block = "untry"

(***************************************************************************)
(* "'untry' blocks which "unprotect" blocks under try blocks up the stack" *)
(* (ChangeLog): no catcher runs for an exception that ends an untry block  *)
(* and that one eel_run handles by itself.  (call_c takes the frame of an  *)
(* untry block for its own, so that one that comes through a C function    *)
(* does reach the handler.)                                                *)
(***************************************************************************)
UntryUnprotectsHere == [][ InEel /\ CatcherStarts => ~UntryDropped ]_vars
=============================================================================
