---------------------------- MODULE EelVM_proofs ----------------------------
(***************************************************************************)
(* Proofs about EelVM, for every number of objects, frames, variables and  *)
(* arguments.  Of the two stacks: their invariant, where results and       *)
(* exceptions go, and that no handler is passed over.  Of reference counts *)
(* and limbo lists: that counts are the numbers of owners.                 *)
(***************************************************************************)
EXTENDS EelVM, SequenceTheorems, FiniteSetTheorems, WellFoundedInduction, TLAPS

\* The entry of a C function or an eel_run loop on the C stack.
EntryType == [kind : {"c", "run"}, base : Nat, err : {"ok"} \cup Codes]

\* C functions and loops take turns, from vm_init's frame on, and a C
\* function called later has its frame further up.
Turns(cs) ==
    /\ cs \in Seq(EntryType) /\ cs # << >>
    /\ cs[1].kind = "c" /\ cs[1].base = 1
    /\ \A k \in 2 .. Len(cs) : cs[k].kind # cs[k - 1].kind
    /\ \A j, k \in 1 .. Len(cs) :
          j < k /\ cs[j].kind = "c" /\ cs[k].kind = "c" => cs[j].base < cs[k].base

\* Results go to the caller of the function that a frame is in.
Around(fs, i) == {j \in 1 .. i : fs[j].block = "none"}
Home(fs) == \A i \in 1 .. Len(fs) : fs[i].result \in {0, Max(Around(fs, i)) - 1}

\* A frame on top of fs: a function, or a block with the result index of what
\* it is in.
Fits(fs, f) ==
    IF f.block = "none" THEN f.result \in {0, Len(fs)}
    ELSE fs # << >> /\ f.result = fs[Len(fs)].result

\* The frames of C functions are those the C stack has; the EEL code above
\* one starts with a function, not with a block.
Frames(fs, cs) ==
    /\ fs \in Seq(FrameType) /\ fs # << >> /\ Len(fs) <= MaxFrames
    /\ \A k \in 1 .. Len(cs) :
          cs[k].kind = "c" => cs[k].base \in 1 .. Len(fs) /\ fs[cs[k].base].kind = "c"
    /\ \A i \in 1 .. Len(fs) :
          fs[i].kind = "c" => \E k \in 1 .. Len(cs) : cs[k].kind = "c" /\ cs[k].base = i
    /\ \A i \in 1 .. Len(fs) : fs[i].kind = "c" => fs[i].block = "none"
    /\ \A i \in 2 .. Len(fs) :
          fs[i - 1].kind = "c" => fs[i].kind = "eel" /\ fs[i].block = "none"
    /\ \A i \in 1 .. Len(fs) : fs[i].block # "untry"
    /\ Home(fs)

\* What is on top of both.
Tops(fs, cs) ==
    /\ cs[Len(cs)].kind = "c" => Len(fs) = cs[Len(cs)].base
    /\ cs[Len(cs)].kind = "run" => fs[Len(fs)].kind = "eel"

Shape(fs, cs) == Turns(cs) /\ Frames(fs, cs) /\ Tops(fs, cs)

-----------------------------------------------------------------------------
(* Numbers. *)

\* A set of numbers up to n has a greatest one.
LEMMA HasMax ==
    ASSUME NEW n \in Nat, NEW S \in SUBSET (1 .. n), S # {}
    PROVE  /\ Max(S) \in S
           /\ \A x \in S : x <= Max(S)
<1> DEFINE T == {n - x : x \in S}
<1>1. T \subseteq Nat /\ T # {}
  <2>1. T \subseteq Nat
    OBVIOUS
  <2>2. PICK x \in S : TRUE
    OBVIOUS
  <2>3. n - x \in T
    OBVIOUS
  <2> QED
    BY <2>1, <2>3
<1> HIDE DEF T
<1>2. PICK m \in T : \A y \in T : ~(<<y, m>> \in OpToRel(<, Nat))
  BY <1>1, NatLessThanWellFounded, WFMin
<1>3. \A y \in T : ~(y < m)
  BY <1>1, <1>2 DEF OpToRel
<1>4. PICK x \in S : m = n - x
  BY DEF T
<1>5. \A y \in S : y <= x
  <2> SUFFICES ASSUME NEW y \in S
               PROVE  y <= x
    OBVIOUS
  <2>1. n - y \in T
    BY DEF T
  <2>2. ~(n - y < n - x)
    BY <1>3, <1>4, <2>1
  <2> QED
    BY <2>2
<1>6. \E z \in S : \A y \in S : z >= y
  BY <1>5
<1>7. Max(S) \in S /\ \A y \in S : Max(S) >= y
  BY <1>6 DEF Max
<1> QED
  BY <1>7

\* The greatest element is the one no other exceeds.
LEMMA MaxIs ==
    ASSUME NEW S \in SUBSET Int, NEW m \in S, \A x \in S : x <= m
    PROVE  Max(S) = m
<1>1. \E x \in S : \A y \in S : x >= y
  OBVIOUS
<1>2. Max(S) \in S /\ \A y \in S : Max(S) >= y
  BY <1>1 DEF Max
<1>3. Max(S) <= m /\ Max(S) >= m /\ Max(S) \in Int /\ m \in Int
  BY <1>2
<1> QED
  BY <1>3

-----------------------------------------------------------------------------
(* Where results go. *)

\* Frames that go, or change in other ways, leave the others their homes.
LEMMA HomeKept ==
    ASSUME NEW fs, NEW gs, Home(fs), Len(fs) \in Nat, Len(gs) \in Nat, Len(gs) <= Len(fs),
           \A i \in 1 .. Len(gs) : gs[i].block = fs[i].block /\ gs[i].result = fs[i].result
    PROVE  Home(gs)
<1> SUFFICES ASSUME NEW i \in 1 .. Len(gs)
             PROVE  gs[i].result \in {0, Max(Around(gs, i)) - 1}
  BY DEF Home
<1>1. i \in 1 .. Len(fs) /\ \A j \in 1 .. i : j \in 1 .. Len(gs)
  OBVIOUS
<1>2. Around(gs, i) = Around(fs, i)
  BY <1>1 DEF Around
<1>3. fs[i].result \in {0, Max(Around(fs, i)) - 1}
  BY <1>1 DEF Home
<1> QED
  BY <1>2, <1>3

\* A new frame that fits has its home.
LEMMA HomePushed ==
    ASSUME NEW fs \in Seq(FrameType), NEW f \in FrameType, Home(fs), Fits(fs, f)
    PROVE  Home(Append(fs, f))
<1> DEFINE gs == Append(fs, f)
           n == Len(fs)
<1>1. /\ n \in Nat /\ Len(gs) = n + 1 /\ gs[n + 1] = f
      /\ \A i \in 1 .. n : gs[i] = fs[i]
  BY AppendProperties, LenProperties
<1>2. fs # << >> => n >= 1
  BY EmptySeq, LenProperties
<1> HIDE DEF gs, n
<1> SUFFICES ASSUME NEW i \in 1 .. n + 1
             PROVE  gs[i].result \in {0, Max(Around(gs, i)) - 1}
  BY <1>1 DEF Home, gs
<1>3. ASSUME NEW k \in 1 .. n
      PROVE  Around(gs, k) = Around(fs, k)
  <2>1. \A j \in 1 .. k : gs[j] = fs[j]
    BY <1>1
  <2> QED
    BY <2>1 DEF Around
<1>4. CASE i \in 1 .. n
  <2>1. fs[i].result \in {0, Max(Around(fs, i)) - 1}
    BY <1>4 DEF Home, n
  <2> QED
    BY <1>1, <1>3, <1>4, <2>1
<1>5. CASE i = n + 1 /\ f.block = "none"
  <2>1. /\ Around(gs, n + 1) \in SUBSET Int /\ n + 1 \in Around(gs, n + 1)
        /\ \A x \in Around(gs, n + 1) : x <= n + 1
    BY <1>1, <1>5 DEF Around
  <2>2. Max(Around(gs, n + 1)) = n + 1
    BY <2>1, MaxIs
  <2>3. f.result \in {0, n}
    BY <1>5 DEF Fits, n
  <2> QED
    BY <1>1, <1>5, <2>2, <2>3
<1>6. CASE i = n + 1 /\ f.block # "none"
  <2>1. n >= 1 /\ f.result = fs[n].result
    BY <1>2, <1>6 DEF Fits, n
  <2>2. fs[n].result \in {0, Max(Around(fs, n)) - 1}
    BY <1>1, <2>1 DEF Home, n
  <2>3. Around(gs, n + 1) = Around(gs, n)
    <3>1. \A j : j \in 1 .. n + 1 <=> j \in 1 .. n \/ j = n + 1
      BY <1>1, <2>1
    <3> QED
      BY <1>1, <1>6, <3>1 DEF Around
  <2>4. n \in 1 .. n
    BY <1>1, <2>1
  <2> QED
    BY <1>1, <1>3, <1>6, <2>1, <2>2, <2>3, <2>4
<1> QED
  BY <1>1, <1>4, <1>5, <1>6

-----------------------------------------------------------------------------
(* The two stacks. *)

\* Frames are made in the order of the calls.
LEMMA LaterIsHigher ==
    ASSUME NEW cs, Turns(cs), NEW j \in 1 .. Len(cs), NEW k \in 1 .. Len(cs), j < k,
           cs[j].kind = "c", cs[k].kind = "c"
    PROVE  cs[j].base < cs[k].base
BY DEF Turns

\* Where an eel_run loop stands: above the frame of the C function that
\* called it there is only EEL code, and at least one function.
LEMMA InsideRun ==
    ASSUME NEW fs, NEW cs, Shape(fs, cs), cs[Len(cs)].kind = "run"
    PROVE  /\ Len(fs) \in Nat /\ Len(cs) \in Nat /\ Len(cs) >= 2
           /\ cs[Len(cs) - 1].kind = "c"
           /\ cs[Len(cs) - 1].base \in 1 .. Len(fs) - 1
           /\ fs[cs[Len(cs) - 1].base].kind = "c"
           /\ \A i \in cs[Len(cs) - 1].base + 1 .. Len(fs) : fs[i].kind = "eel"
           /\ fs[cs[Len(cs) - 1].base + 1].block = "none"
<1> DEFINE n == Len(cs)
           b == cs[n - 1].base
<1>1. /\ fs \in Seq(FrameType) /\ Len(fs) \in Nat
      /\ cs \in Seq(EntryType) /\ n \in Nat /\ n >= 1
  BY EmptySeq, LenProperties DEF Shape, Turns, Frames
<1>2. n >= 2
  BY <1>1 DEF Shape, Turns
<1>3. \A k \in 1 .. n : cs[k].kind \in {"c", "run"} /\ cs[k].base \in Nat
  <2>1. \A k \in 1 .. n : cs[k] \in EntryType
    BY <1>1
  <2> QED
    BY <2>1 DEF EntryType
<1>4. cs[n - 1].kind = "c"
  <2>1. n \in 2 .. Len(cs) /\ n - 1 \in 1 .. n
    BY <1>1, <1>2
  <2>2. cs[n].kind # cs[n - 1].kind
    BY <2>1 DEF Shape, Turns
  <2> QED
    BY <1>3, <2>1, <2>2
<1>5. b \in 1 .. Len(fs) /\ fs[b].kind = "c"
  BY <1>1, <1>2, <1>4 DEF Shape, Frames
<1>6. b # Len(fs)
  BY <1>5 DEF Shape, Tops
<1>7. ASSUME NEW i \in b + 1 .. Len(fs)
      PROVE  fs[i].kind = "eel"
  <2>1. i \in 1 .. Len(fs) /\ i > b
    BY <1>1, <1>5
  <2>2. fs[i].kind \in {"c", "eel"}
    <3>1. fs[i] \in FrameType
      BY <1>1, <2>1
    <3> QED
      BY <3>1 DEF FrameType
  <2>3. CASE fs[i].kind = "c"
    <3>1. PICK k \in 1 .. n : cs[k].kind = "c" /\ cs[k].base = i
      BY <2>1, <2>3 DEF Shape, Frames
    <3>2. k \in 1 .. n - 1 /\ n - 1 \in 1 .. n
      BY <1>1, <1>2, <3>1
    <3>3. k # n - 1
      BY <2>1, <3>1, <1>3, <3>2
    <3>4. Turns(cs) /\ k \in 1 .. n /\ n - 1 \in 1 .. n /\ k < n - 1
      BY <1>1, <3>2, <3>3 DEF Shape
    <3>5. cs[k].base < b
      BY <1>4, <3>1, <3>4, LaterIsHigher
    <3> QED
      BY <1>1, <1>5, <2>1, <3>1, <3>5
  <2> QED
    BY <2>2, <2>3
<1>8. fs[b + 1].block = "none"
  <2>1. b + 1 \in 2 .. Len(fs) /\ (b + 1) - 1 = b
    BY <1>1, <1>5, <1>6
  <2> QED
    BY <1>5, <2>1 DEF Shape, Frames
<1> QED
  BY <1>1, <1>2, <1>4, <1>5, <1>6, <1>7, <1>8

\* Changes inside frames.
LEMMA Inside ==
    ASSUME NEW fs, NEW cs, Shape(fs, cs), NEW gs \in Seq(FrameType),
           Len(gs) = Len(fs),
           \A i \in 1 .. Len(fs) : gs[i].kind = fs[i].kind /\ gs[i].block = fs[i].block /\ gs[i].result = fs[i].result
    PROVE  Shape(gs, cs)
<1>1. fs \in Seq(FrameType) /\ fs # << >> /\ Len(fs) \in Nat /\ Len(fs) >= 1
  BY EmptySeq, LenProperties DEF Shape, Frames
<1>2. gs # << >>
  BY <1>1
<1>3. Frames(gs, cs)
  <2>1. Frames(fs, cs)
    BY DEF Shape
  <2>2. \A i \in 2 .. Len(fs) : i \in 1 .. Len(fs) /\ i - 1 \in 1 .. Len(fs)
    BY <1>1
  <2>3. \A i \in 2 .. Len(gs) :
          gs[i - 1].kind = "c" => gs[i].kind = "eel" /\ gs[i].block = "none"
    <3>1. \A i \in 2 .. Len(fs) :
            fs[i - 1].kind = "c" => fs[i].kind = "eel" /\ fs[i].block = "none"
      BY <2>1 DEF Frames
    <3> QED
      BY <2>2, <3>1
  <2>4. \A k \in 1 .. Len(cs) :
          cs[k].kind = "c" => cs[k].base \in 1 .. Len(gs) /\ gs[cs[k].base].kind = "c"
    BY <2>1 DEF Frames
  <2>5. \A i \in 1 .. Len(gs) :
          gs[i].kind = "c" => \E k \in 1 .. Len(cs) : cs[k].kind = "c" /\ cs[k].base = i
    BY <2>1 DEF Frames
  <2>6. \A i \in 1 .. Len(gs) : /\ gs[i].kind = "c" => gs[i].block = "none"
                                /\ gs[i].block # "untry"
    BY <2>1 DEF Frames
  <2>7. Len(gs) <= MaxFrames
    BY <2>1 DEF Frames
  <2>8. Home(gs)
    BY <1>1, <2>1, HomeKept DEF Frames
  <2> QED
    BY <1>2, <2>3, <2>4, <2>5, <2>6, <2>7, <2>8 DEF Frames
<1>4. Tops(gs, cs)
  BY <1>1 DEF Shape, Tops
<1> QED
  BY <1>3, <1>4 DEF Shape

\* EEL code calls EEL code, or a block starts.
LEMMA PushEel ==
    ASSUME NEW fs, NEW cs, Shape(fs, cs), cs[Len(cs)].kind = "run",
           Len(fs) < MaxFrames,
           NEW f \in FrameType, f.kind = "eel", f.block # "untry", Fits(fs, f)
    PROVE  Shape(Append(fs, f), cs)
<1> DEFINE gs == Append(fs, f)
<1>1. fs \in Seq(FrameType) /\ Len(fs) \in Nat
  BY LenProperties DEF Shape, Frames
<1>2. /\ gs \in Seq(FrameType) /\ gs # << >> /\ Len(gs) = Len(fs) + 1
      /\ \A i \in 1 .. Len(fs) : gs[i] = fs[i]
      /\ gs[Len(fs) + 1] = f
  BY <1>1, AppendProperties
<1>3. Home(gs)
  BY <1>1, HomePushed DEF Shape, Frames
<1> HIDE DEF gs
<1>4. fs[Len(fs)].kind = "eel" /\ Len(fs) >= 1
  BY <1>1, EmptySeq DEF Shape, Frames, Tops
<1>5. Frames(gs, cs)
  <2>1. \A k \in 1 .. Len(cs) :
          cs[k].kind = "c" => cs[k].base \in 1 .. Len(gs) /\ gs[cs[k].base].kind = "c"
    BY <1>1, <1>2 DEF Shape, Frames
  <2>2. \A i \in 1 .. Len(gs) :
          gs[i].kind = "c" => \E k \in 1 .. Len(cs) : cs[k].kind = "c" /\ cs[k].base = i
    BY <1>1, <1>2 DEF Shape, Frames
  <2>3. \A i \in 1 .. Len(gs) : /\ gs[i].kind = "c" => gs[i].block = "none"
                                /\ gs[i].block # "untry"
    BY <1>1, <1>2 DEF Shape, Frames
  <2>4. ASSUME NEW i \in 2 .. Len(gs), gs[i - 1].kind = "c"
        PROVE  gs[i].kind = "eel" /\ gs[i].block = "none"
    <3>1. i - 1 \in 1 .. Len(fs) /\ gs[i - 1] = fs[i - 1]
      BY <1>1, <1>2
    <3>2. i - 1 # Len(fs)
      BY <1>4, <2>4, <3>1
    <3>3. i \in 2 .. Len(fs) /\ gs[i] = fs[i]
      BY <1>1, <1>2, <3>1, <3>2
    <3> QED
      BY <2>4, <3>1, <3>3 DEF Shape, Frames
  <2>5. Len(gs) <= MaxFrames
    BY <1>1, <1>2, BoundsAssumption
  <2> QED
    BY <1>2, <1>3, <2>1, <2>2, <2>3, <2>4, <2>5 DEF Frames
<1>6. Tops(gs, cs)
  BY <1>1, <1>2 DEF Tops
<1> QED
  BY <1>5, <1>6 DEF Shape, gs

\* The C functions of ds are those of cs with their frame among the first n.
Among(ds, cs, n) ==
    /\ \A k \in 1 .. Len(ds) : ds[k].kind = "c" =>
          /\ ds[k].base <= n
          /\ \E j \in 1 .. Len(cs) : cs[j].kind = "c" /\ cs[j].base = ds[k].base
    /\ \A j \in 1 .. Len(cs) : cs[j].kind = "c" /\ cs[j].base <= n =>
          \E k \in 1 .. Len(ds) : ds[k].kind = "c" /\ ds[k].base = cs[j].base

\* The lower frames, with the C functions that have theirs among them.
LEMMA Prefix ==
    ASSUME NEW fs, NEW cs, Frames(fs, cs), NEW n \in 1 .. Len(fs), NEW ds,
           Among(ds, cs, n)
    PROVE  /\ Frames(SubSeq(fs, 1, n), ds)
           /\ Len(SubSeq(fs, 1, n)) = n
           /\ \A i \in 1 .. n : SubSeq(fs, 1, n)[i] = fs[i]
<1> DEFINE gs == SubSeq(fs, 1, n)
<1>1. fs \in Seq(FrameType) /\ Len(fs) \in Nat /\ Len(fs) <= MaxFrames
  BY LenProperties DEF Frames
<1>2. \A i \in 1 .. n : i \in 1 .. Len(fs) /\ fs[i] \in FrameType
  BY <1>1
<1>3. /\ gs \in Seq(FrameType) /\ Len(gs) = n
      /\ \A i \in 1 .. n : gs[i] = fs[i]
  BY <1>1, <1>2, SubSeqProperties
<1> HIDE DEF gs
<1>4. gs # << >> /\ Len(gs) <= MaxFrames
  BY <1>1, <1>3, BoundsAssumption
<1>5. ASSUME NEW k \in 1 .. Len(ds), ds[k].kind = "c"
      PROVE  ds[k].base \in 1 .. n /\ gs[ds[k].base].kind = "c"
  <2>1. PICK j \in 1 .. Len(cs) : cs[j].kind = "c" /\ cs[j].base = ds[k].base
    BY <1>5 DEF Among
  <2>2. cs[j].base \in 1 .. Len(fs) /\ fs[cs[j].base].kind = "c"
    BY <2>1 DEF Frames
  <2>3. ds[k].base \in 1 .. n
    BY <1>5, <2>1, <2>2 DEF Among
  <2> QED
    BY <1>3, <2>1, <2>2, <2>3
<1>6. ASSUME NEW i \in 1 .. n, gs[i].kind = "c"
      PROVE  \E k \in 1 .. Len(ds) : ds[k].kind = "c" /\ ds[k].base = i
  <2>1. i \in 1 .. Len(fs) /\ fs[i].kind = "c"
    BY <1>2, <1>3, <1>6
  <2>2. PICK j \in 1 .. Len(cs) : cs[j].kind = "c" /\ cs[j].base = i
    BY <2>1 DEF Frames
  <2>3. cs[j].base <= n
    BY <1>1, <2>2
  <2> QED
    BY <2>2, <2>3 DEF Among
<1>7. \A i \in 1 .. n : /\ gs[i].kind = "c" => gs[i].block = "none"
                        /\ gs[i].block # "untry"
  BY <1>2, <1>3 DEF Frames
<1>8. ASSUME NEW i \in 2 .. n, gs[i - 1].kind = "c"
      PROVE  gs[i].kind = "eel" /\ gs[i].block = "none"
  <2>1. i \in 2 .. Len(fs) /\ i \in 1 .. n /\ i - 1 \in 1 .. n
    BY <1>1
  <2> QED
    BY <1>3, <1>8, <2>1 DEF Frames
<1>9. Home(gs)
  <2>1. /\ Home(fs) /\ Len(gs) \in Nat /\ Len(gs) <= Len(fs)
        /\ \A i \in 1 .. Len(gs) : gs[i].block = fs[i].block /\ gs[i].result = fs[i].result
    BY <1>1, <1>3 DEF Frames
  <2> QED
    BY <1>1, <2>1, HomeKept
<1>10. Frames(gs, ds)
  BY <1>3, <1>4, <1>5, <1>6, <1>7, <1>8, <1>9 DEF Frames
<1> QED
  BY <1>3, <1>10 DEF gs

\* Frames above the function the loop started with can go.
LEMMA Cut ==
    ASSUME NEW fs, NEW cs, Shape(fs, cs), cs[Len(cs)].kind = "run",
           NEW n \in cs[Len(cs) - 1].base + 1 .. Len(fs)
    PROVE  /\ Shape(SubSeq(fs, 1, n), cs)
           /\ Len(SubSeq(fs, 1, n)) = n
           /\ \A i \in 1 .. n : SubSeq(fs, 1, n)[i] = fs[i]
<1> DEFINE b == cs[Len(cs) - 1].base
<1>1. /\ Len(fs) \in Nat /\ Len(cs) \in Nat /\ Len(cs) >= 2
      /\ b \in 1 .. Len(fs) - 1
      /\ \A i \in b + 1 .. Len(fs) : fs[i].kind = "eel"
  BY InsideRun
<1>2. n \in 1 .. Len(fs)
  BY <1>1
<1>3. \A k \in 1 .. Len(cs) : cs[k].kind = "c" => cs[k].base <= n
  <2> SUFFICES ASSUME NEW k \in 1 .. Len(cs), cs[k].kind = "c"
               PROVE  cs[k].base <= n
    OBVIOUS
  <2>1. cs[k].base \in 1 .. Len(fs) /\ fs[cs[k].base].kind = "c"
    BY DEF Shape, Frames
  <2>2. ~(cs[k].base \in b + 1 .. Len(fs))
    BY <1>1, <2>1
  <2> QED
    BY <1>1, <2>1, <2>2
<1>4. /\ Frames(SubSeq(fs, 1, n), cs)
      /\ Len(SubSeq(fs, 1, n)) = n
      /\ \A i \in 1 .. n : SubSeq(fs, 1, n)[i] = fs[i]
  <2>1. Frames(fs, cs)
    BY DEF Shape
  <2>2. Among(cs, cs, n)
    BY <1>3 DEF Among
  <2> QED
    BY <1>2, <2>1, <2>2, Prefix
<1>5. fs[n].kind = "eel" /\ n \in 1 .. n
  BY <1>1, <1>2
<1>6. Tops(SubSeq(fs, 1, n), cs)
  BY <1>4, <1>5 DEF Tops
<1> QED
  BY <1>4, <1>6 DEF Shape

\* The C stack without its top.
LEMMA Shorter ==
    ASSUME NEW cs, Turns(cs), Len(cs) >= 2, NEW ds \in Seq(EntryType),
           Len(ds) = Len(cs) - 1,
           \A k \in 1 .. Len(ds) : ds[k].kind = cs[k].kind /\ ds[k].base = cs[k].base
    PROVE  Turns(ds)
<1>1. cs \in Seq(EntryType) /\ Len(cs) \in Nat
  BY LenProperties DEF Turns
<1>2. 1 \in 1 .. Len(ds) /\ ds # << >>
  BY <1>1
<1>3. \A k \in 1 .. Len(ds) : k \in 1 .. Len(cs)
  BY <1>1
<1>4. \A k \in 2 .. Len(ds) : k \in 2 .. Len(cs) /\ k \in 1 .. Len(ds) /\ k - 1 \in 1 .. Len(ds)
  BY <1>1
<1>5. \A k \in 2 .. Len(ds) : ds[k].kind # ds[k - 1].kind
  BY <1>4 DEF Turns
<1>6. \A j, k \in 1 .. Len(ds) :
        j < k /\ ds[j].kind = "c" /\ ds[k].kind = "c" => ds[j].base < ds[k].base
  BY <1>3 DEF Turns
<1>7. ds[1].kind = "c" /\ ds[1].base = 1
  BY <1>2 DEF Turns
<1> QED
  BY <1>2, <1>5, <1>6, <1>7 DEF Turns

\* eel_run returns to its C caller.
LEMMA BackToC ==
    ASSUME NEW fs, NEW cs, Shape(fs, cs), cs[Len(cs)].kind = "run",
           NEW ds \in Seq(EntryType), Len(ds) = Len(cs) - 1,
           \A k \in 1 .. Len(ds) : ds[k].kind = cs[k].kind /\ ds[k].base = cs[k].base
    PROVE  LET n == cs[Len(cs) - 1].base
           IN  /\ Shape(SubSeq(fs, 1, n), ds)
               /\ n \in 1 .. Len(fs)
               /\ Len(SubSeq(fs, 1, n)) = n
               /\ \A i \in 1 .. n : SubSeq(fs, 1, n)[i] = fs[i]
<1> DEFINE n == cs[Len(cs) - 1].base
<1>1. /\ Len(fs) \in Nat /\ Len(cs) \in Nat /\ Len(cs) >= 2
      /\ cs[Len(cs) - 1].kind = "c"
      /\ n \in 1 .. Len(fs) - 1
  BY InsideRun
<1>2. Turns(ds)
  BY <1>1, Shorter DEF Shape
<1>3. n \in 1 .. Len(fs) /\ Len(ds) \in 1 .. Len(ds) /\ Len(ds) = Len(cs) - 1
  BY <1>1
<1>4. \A k \in 1 .. Len(ds) : ds[k].kind = "c" =>
         /\ ds[k].base <= n
         /\ \E j \in 1 .. Len(cs) : cs[j].kind = "c" /\ cs[j].base = ds[k].base
  <2> SUFFICES ASSUME NEW k \in 1 .. Len(ds), ds[k].kind = "c"
               PROVE  /\ ds[k].base <= n
                      /\ \E j \in 1 .. Len(cs) : cs[j].kind = "c" /\ cs[j].base = ds[k].base
    OBVIOUS
  <2>1. k \in 1 .. Len(cs) /\ cs[k].kind = "c" /\ cs[k].base = ds[k].base
    BY <1>1
  <2>2. k < Len(cs) - 1 => cs[k].base < n
    <3>1. Turns(cs) /\ Len(cs) - 1 \in 1 .. Len(cs)
      BY <1>1 DEF Shape
    <3> QED
      BY <1>1, <2>1, <3>1, LaterIsHigher
  <2>3. k = Len(cs) - 1 \/ k < Len(cs) - 1
    BY <1>1
  <2>4. cs[k].base \in Int
    <3>1. cs[k] \in EntryType
      BY <2>1 DEF Shape, Turns
    <3> QED
      BY <3>1 DEF EntryType
  <2> QED
    BY <1>1, <2>1, <2>2, <2>3, <2>4
<1>5. \A j \in 1 .. Len(cs) : cs[j].kind = "c" /\ cs[j].base <= n =>
         \E k \in 1 .. Len(ds) : ds[k].kind = "c" /\ ds[k].base = cs[j].base
  <2> SUFFICES ASSUME NEW j \in 1 .. Len(cs), cs[j].kind = "c"
               PROVE  \E k \in 1 .. Len(ds) : ds[k].kind = "c" /\ ds[k].base = cs[j].base
    OBVIOUS
  <2>1. j \in 1 .. Len(ds)
    BY <1>1
  <2> QED
    BY <2>1
<1>6. /\ Frames(SubSeq(fs, 1, n), ds)
      /\ Len(SubSeq(fs, 1, n)) = n
      /\ \A i \in 1 .. n : SubSeq(fs, 1, n)[i] = fs[i]
  <2>1. Frames(fs, cs)
    BY DEF Shape
  <2>2. n \in 1 .. Len(fs)
    BY <1>3
  <2>3. Among(ds, cs, n)
    BY <1>4, <1>5 DEF Among
  <2> HIDE DEF n
  <2> QED
    BY <2>1, <2>2, <2>3, Prefix
<1>7. ds[Len(ds)].kind = "c" /\ ds[Len(ds)].base = n
  BY <1>1, <1>3
<1>8. Tops(SubSeq(fs, 1, n), ds)
  BY <1>6, <1>7 DEF Tops
<1> QED
  BY <1>2, <1>3, <1>6, <1>8 DEF Shape

\* EEL code calls a C function.
LEMMA PushC ==
    ASSUME NEW fs, NEW cs, Shape(fs, cs), cs[Len(cs)].kind = "run",
           Len(fs) < MaxFrames,
           NEW f \in FrameType, f.kind = "c", f.block = "none", Fits(fs, f),
           NEW e \in EntryType, e.kind = "c", e.base = Len(fs) + 1
    PROVE  Shape(Append(fs, f), Append(cs, e))
<1> DEFINE gs == Append(fs, f)
           ds == Append(cs, e)
<1>1. /\ fs \in Seq(FrameType) /\ Len(fs) \in Nat /\ Len(fs) >= 1
      /\ cs \in Seq(EntryType) /\ Len(cs) \in Nat /\ Len(cs) >= 2
      /\ fs[Len(fs)].kind = "eel"
  BY LenProperties, InsideRun DEF Shape, Frames, Turns, Tops
<1>2. /\ gs \in Seq(FrameType) /\ gs # << >> /\ Len(gs) = Len(fs) + 1
      /\ \A i \in 1 .. Len(fs) : gs[i] = fs[i]
      /\ gs[Len(fs) + 1] = f
  BY <1>1, AppendProperties
<1>3. /\ ds \in Seq(EntryType) /\ ds # << >> /\ Len(ds) = Len(cs) + 1
      /\ \A k \in 1 .. Len(cs) : ds[k] = cs[k]
      /\ ds[Len(cs) + 1] = e
  BY <1>1, AppendProperties
<1>4. Home(gs)
  BY <1>1, HomePushed DEF Shape, Frames
<1> HIDE DEF gs, ds
<1>5. \A k \in 1 .. Len(cs) :
        cs[k].kind = "c" => cs[k].base \in 1 .. Len(fs) /\ fs[cs[k].base].kind = "c"
  BY DEF Shape, Frames
<1>6. Turns(ds)
  <2>1. \A k \in 2 .. Len(ds) : ds[k].kind # ds[k - 1].kind
    <3> SUFFICES ASSUME NEW k \in 2 .. Len(ds)
                 PROVE  ds[k].kind # ds[k - 1].kind
      OBVIOUS
    <3>1. CASE k = Len(cs) + 1
      BY <1>1, <1>3, <3>1
    <3>2. CASE k # Len(cs) + 1
      <4>1. k \in 2 .. Len(cs) /\ k \in 1 .. Len(cs) /\ k - 1 \in 1 .. Len(cs)
        BY <1>1, <1>3, <3>2
      <4> QED
        BY <1>3, <4>1 DEF Shape, Turns
    <3> QED
      BY <3>1, <3>2
  <2>2. ASSUME NEW j \in 1 .. Len(ds), NEW k \in 1 .. Len(ds), j < k,
               ds[j].kind = "c", ds[k].kind = "c"
        PROVE  ds[j].base < ds[k].base
    <3>1. j \in 1 .. Len(cs) /\ ds[j] = cs[j]
      BY <1>1, <1>3, <2>2
    <3>2. CASE k = Len(cs) + 1
      BY <1>1, <1>3, <1>5, <2>2, <3>1, <3>2
    <3>3. CASE k # Len(cs) + 1
      <4>1. k \in 1 .. Len(cs) /\ ds[k] = cs[k]
        BY <1>1, <1>3, <3>3
      <4> QED
        BY <2>2, <3>1, <4>1 DEF Shape, Turns
    <3> QED
      BY <3>2, <3>3
  <2>3. ds[1].kind = "c" /\ ds[1].base = 1
    BY <1>1, <1>3 DEF Shape, Turns
  <2> QED
    BY <1>3, <2>1, <2>2, <2>3 DEF Turns
<1>7. Frames(gs, ds)
  <2>1. \A k \in 1 .. Len(ds) :
          ds[k].kind = "c" => ds[k].base \in 1 .. Len(gs) /\ gs[ds[k].base].kind = "c"
    <3> SUFFICES ASSUME NEW k \in 1 .. Len(ds), ds[k].kind = "c"
                 PROVE  ds[k].base \in 1 .. Len(gs) /\ gs[ds[k].base].kind = "c"
      OBVIOUS
    <3>1. CASE k = Len(cs) + 1
      BY <1>1, <1>2, <1>3, <3>1
    <3>2. CASE k # Len(cs) + 1
      <4>1. k \in 1 .. Len(cs) /\ ds[k] = cs[k]
        BY <1>1, <1>3, <3>2
      <4> QED
        BY <1>1, <1>2, <1>5, <4>1
    <3> QED
      BY <3>1, <3>2
  <2>2. ASSUME NEW i \in 1 .. Len(gs), gs[i].kind = "c"
        PROVE  \E k \in 1 .. Len(ds) : ds[k].kind = "c" /\ ds[k].base = i
    <3>1. CASE i = Len(fs) + 1
      <4>1. Len(cs) + 1 \in 1 .. Len(ds)
        BY <1>1, <1>3
      <4> QED
        BY <1>3, <3>1, <4>1
    <3>2. CASE i # Len(fs) + 1
      <4>1. i \in 1 .. Len(fs) /\ fs[i].kind = "c"
        BY <1>1, <1>2, <2>2, <3>2
      <4>2. PICK k \in 1 .. Len(cs) : cs[k].kind = "c" /\ cs[k].base = i
        BY <4>1 DEF Shape, Frames
      <4>3. k \in 1 .. Len(ds) /\ ds[k] = cs[k]
        BY <1>1, <1>3
      <4> QED
        BY <4>2, <4>3
    <3> QED
      BY <3>1, <3>2
  <2>3. \A i \in 1 .. Len(gs) : /\ gs[i].kind = "c" => gs[i].block = "none"
                                /\ gs[i].block # "untry"
    BY <1>1, <1>2 DEF Shape, Frames
  <2>4. ASSUME NEW i \in 2 .. Len(gs), gs[i - 1].kind = "c"
        PROVE  gs[i].kind = "eel" /\ gs[i].block = "none"
    <3>1. i - 1 \in 1 .. Len(fs) /\ gs[i - 1] = fs[i - 1]
      BY <1>1, <1>2
    <3>2. i - 1 # Len(fs)
      BY <1>1, <2>4, <3>1
    <3>3. i \in 2 .. Len(fs) /\ gs[i] = fs[i]
      BY <1>1, <1>2, <3>1, <3>2
    <3> QED
      BY <2>4, <3>1, <3>3 DEF Shape, Frames
  <2>5. Len(gs) <= MaxFrames
    BY <1>1, <1>2, BoundsAssumption
  <2> QED
    BY <1>2, <1>4, <2>1, <2>2, <2>3, <2>4, <2>5 DEF Frames
<1>8. Tops(gs, ds)
  BY <1>1, <1>2, <1>3 DEF Tops
<1> QED
  BY <1>6, <1>7, <1>8 DEF Shape, gs, ds

\* A C function enters eel_run.
LEMMA PushRun ==
    ASSUME NEW fs, NEW cs, Shape(fs, cs), cs[Len(cs)].kind = "c",
           Len(fs) < MaxFrames,
           NEW f \in FrameType, f.kind = "eel", f.block = "none", Fits(fs, f),
           NEW e \in EntryType, e.kind = "run"
    PROVE  Shape(Append(fs, f), Append(cs, e))
<1> DEFINE gs == Append(fs, f)
           ds == Append(cs, e)
<1>1. /\ fs \in Seq(FrameType) /\ Len(fs) \in Nat /\ Len(fs) >= 1
      /\ cs \in Seq(EntryType) /\ Len(cs) \in Nat /\ Len(cs) >= 1
  BY LenProperties, EmptySeq DEF Shape, Frames, Turns
<1>2. /\ gs \in Seq(FrameType) /\ gs # << >> /\ Len(gs) = Len(fs) + 1
      /\ \A i \in 1 .. Len(fs) : gs[i] = fs[i]
      /\ gs[Len(fs) + 1] = f
  BY <1>1, AppendProperties
<1>3. /\ ds \in Seq(EntryType) /\ ds # << >> /\ Len(ds) = Len(cs) + 1
      /\ \A k \in 1 .. Len(cs) : ds[k] = cs[k]
      /\ ds[Len(cs) + 1] = e
  BY <1>1, AppendProperties
<1>4. Home(gs)
  BY <1>1, HomePushed DEF Shape, Frames
<1> HIDE DEF gs, ds
<1>5. \A k \in 1 .. Len(ds) : ds[k].kind = "c" => k \in 1 .. Len(cs) /\ ds[k] = cs[k]
  BY <1>1, <1>3
<1>6. Turns(ds)
  <2>1. \A k \in 2 .. Len(ds) : ds[k].kind # ds[k - 1].kind
    <3> SUFFICES ASSUME NEW k \in 2 .. Len(ds)
                 PROVE  ds[k].kind # ds[k - 1].kind
      OBVIOUS
    <3>1. CASE k = Len(cs) + 1
      BY <1>1, <1>3, <3>1
    <3>2. CASE k # Len(cs) + 1
      <4>1. k \in 2 .. Len(cs) /\ k \in 1 .. Len(cs) /\ k - 1 \in 1 .. Len(cs)
        BY <1>1, <1>3, <3>2
      <4> QED
        BY <1>3, <4>1 DEF Shape, Turns
    <3> QED
      BY <3>1, <3>2
  <2>2. \A j, k \in 1 .. Len(ds) :
          j < k /\ ds[j].kind = "c" /\ ds[k].kind = "c" => ds[j].base < ds[k].base
    BY <1>5 DEF Shape, Turns
  <2>3. ds[1].kind = "c" /\ ds[1].base = 1
    BY <1>1, <1>3 DEF Shape, Turns
  <2> QED
    BY <1>3, <2>1, <2>2, <2>3 DEF Turns
<1>7. Frames(gs, ds)
  <2>1. \A k \in 1 .. Len(ds) :
          ds[k].kind = "c" => ds[k].base \in 1 .. Len(gs) /\ gs[ds[k].base].kind = "c"
    <3>1. \A k \in 1 .. Len(cs) :
            cs[k].kind = "c" => cs[k].base \in 1 .. Len(fs) /\ fs[cs[k].base].kind = "c"
      BY DEF Shape, Frames
    <3> SUFFICES ASSUME NEW k \in 1 .. Len(ds), ds[k].kind = "c"
                 PROVE  ds[k].base \in 1 .. Len(gs) /\ gs[ds[k].base].kind = "c"
      OBVIOUS
    <3>2. k \in 1 .. Len(cs) /\ ds[k] = cs[k]
      BY <1>5
    <3>3. cs[k].base \in 1 .. Len(fs) /\ fs[cs[k].base].kind = "c"
      BY <3>1, <3>2
    <3> QED
      BY <1>1, <1>2, <3>2, <3>3
  <2>2. ASSUME NEW i \in 1 .. Len(gs), gs[i].kind = "c"
        PROVE  \E k \in 1 .. Len(ds) : ds[k].kind = "c" /\ ds[k].base = i
    <3>1. i \in 1 .. Len(fs) /\ fs[i].kind = "c"
      BY <1>1, <1>2, <2>2
    <3>2. PICK k \in 1 .. Len(cs) : cs[k].kind = "c" /\ cs[k].base = i
      BY <3>1 DEF Shape, Frames
    <3>3. k \in 1 .. Len(ds) /\ ds[k] = cs[k]
      BY <1>1, <1>3
    <3> QED
      BY <3>2, <3>3
  <2>3. \A i \in 1 .. Len(gs) : /\ gs[i].kind = "c" => gs[i].block = "none"
                                /\ gs[i].block # "untry"
    <3>1. \A i \in 1 .. Len(fs) : /\ fs[i].kind = "c" => fs[i].block = "none"
                                  /\ fs[i].block # "untry"
      BY DEF Shape, Frames
    <3>2. \A i \in 1 .. Len(gs) : i \in 1 .. Len(fs) \/ i = Len(fs) + 1
      BY <1>1, <1>2
    <3> QED
      BY <1>2, <3>1, <3>2
  <2>4. ASSUME NEW i \in 2 .. Len(gs), gs[i - 1].kind = "c"
        PROVE  gs[i].kind = "eel" /\ gs[i].block = "none"
    <3>1. i - 1 \in 1 .. Len(fs) /\ gs[i - 1] = fs[i - 1]
      BY <1>1, <1>2
    <3>2. CASE i - 1 = Len(fs)
      BY <1>1, <1>2, <3>2
    <3>3. CASE i - 1 # Len(fs)
      <4>1. i \in 2 .. Len(fs) /\ i \in 1 .. Len(fs) /\ gs[i] = fs[i]
        BY <1>1, <1>2, <3>1, <3>3
      <4> QED
        BY <2>4, <3>1, <4>1 DEF Shape, Frames
    <3> QED
      BY <3>2, <3>3
  <2>5. Len(gs) <= MaxFrames
    BY <1>1, <1>2, BoundsAssumption
  <2> QED
    BY <1>2, <1>4, <2>1, <2>2, <2>3, <2>4, <2>5 DEF Frames
<1>8. Tops(gs, ds)
  BY <1>1, <1>2, <1>3 DEF Tops
<1> QED
  BY <1>6, <1>7, <1>8 DEF Shape, gs, ds

\* A C function returns, with its frame, to the EEL code that called it.
LEMMA PopC ==
    ASSUME NEW fs, NEW cs, Shape(fs, cs), cs[Len(cs)].kind = "c", Len(cs) # 1
    PROVE  /\ Len(fs) \in Nat /\ Len(fs) >= 2 /\ Len(cs) \in Nat /\ Len(cs) >= 2
           /\ Shape(Front(fs), Front(cs))
           /\ Len(Front(fs)) = Len(fs) - 1 /\ Len(Front(cs)) = Len(cs) - 1
           /\ \A i \in 1 .. Len(fs) - 1 : Front(fs)[i] = fs[i]
           /\ \A k \in 1 .. Len(cs) - 1 : Front(cs)[k] = cs[k]
           /\ cs[Len(cs) - 1].kind = "run"
<1> DEFINE n == Len(fs) - 1
           gs == SubSeq(fs, 1, n)
           ds == SubSeq(cs, 1, Len(cs) - 1)
<1>1. /\ fs \in Seq(FrameType) /\ Len(fs) \in Nat /\ Len(fs) >= 1
      /\ cs \in Seq(EntryType) /\ Len(cs) \in Nat /\ Len(cs) >= 2
  <2>1. fs \in Seq(FrameType) /\ fs # << >> /\ cs \in Seq(EntryType) /\ cs # << >>
    BY DEF Shape, Frames, Turns
  <2>2. Len(fs) \in Nat \ {0} /\ Len(cs) \in Nat \ {0}
    BY <2>1, EmptySeq
  <2>3. Len(fs) >= 1 /\ Len(cs) >= 2
    <3> HIDE DEF n
    <3>1. ASSUME NEW x \in Nat \ {0}, x # 1
          PROVE  x >= 2
      BY <3>1
    <3> QED
      BY <2>2, <3>1
  <2> QED
    BY <2>1, <2>2, <2>3
<1>2. \A k \in 1 .. Len(cs) : cs[k].kind \in {"c", "run"} /\ cs[k].base \in Nat
  <2>1. \A k \in 1 .. Len(cs) : cs[k] \in EntryType
    BY <1>1
  <2> QED
    BY <2>1 DEF EntryType
<1>3. cs[Len(cs)].base = Len(fs) /\ fs[Len(fs)].kind = "c"
  BY <1>1 DEF Shape, Tops, Frames
<1>4. Len(fs) >= 2
  <2>1. cs[1].base < cs[Len(cs)].base /\ cs[1].base = 1
    BY <1>1 DEF Shape, Turns
  <2> QED
    BY <1>1, <1>3, <2>1
<1>5. cs[Len(cs) - 1].kind = "run"
  <2>1. Len(cs) \in 2 .. Len(cs) /\ Len(cs) - 1 \in 1 .. Len(cs)
    BY <1>1
  <2>2. cs[Len(cs)].kind # cs[Len(cs) - 1].kind
    BY <2>1 DEF Shape, Turns
  <2> QED
    BY <1>2, <2>1, <2>2
<1>6. /\ ds \in Seq(EntryType) /\ Len(ds) = Len(cs) - 1
      /\ \A k \in 1 .. Len(cs) - 1 : ds[k] = cs[k]
  <2>1. \A k \in 1 .. Len(cs) - 1 : cs[k] \in EntryType
    BY <1>1
  <2> QED
    BY <1>1, <2>1, SubSeqProperties
<1> HIDE DEF ds
<1>7. Turns(ds)
  BY <1>1, <1>6, Shorter DEF Shape
<1>8. Among(ds, cs, n)
  <2>1. ASSUME NEW k \in 1 .. Len(ds), ds[k].kind = "c"
        PROVE  /\ ds[k].base <= n
               /\ \E j \in 1 .. Len(cs) : cs[j].kind = "c" /\ cs[j].base = ds[k].base
    <3>1. k \in 1 .. Len(cs) /\ k < Len(cs) /\ ds[k] = cs[k] /\ Len(cs) \in 1 .. Len(cs)
      BY <1>1, <1>6
    <3>2. cs[k].base < cs[Len(cs)].base
      <4>1. Turns(cs) /\ cs[k].kind = "c"
        BY <2>1, <3>1 DEF Shape
      <4> QED
        BY <3>1, <4>1, LaterIsHigher
    <3>3. cs[k].base \in Nat /\ cs[k].base < Len(fs)
      BY <1>2, <1>3, <3>1, <3>2
    <3>4. cs[k].base <= n
      BY <1>1, <3>3
    <3> QED
      BY <2>1, <3>1, <3>4
  <2>2. ASSUME NEW j \in 1 .. Len(cs), cs[j].kind = "c", cs[j].base <= n
        PROVE  \E k \in 1 .. Len(ds) : ds[k].kind = "c" /\ ds[k].base = cs[j].base
    <3>1. j # Len(cs)
      BY <1>1, <1>3, <2>2
    <3>2. j \in 1 .. Len(ds) /\ ds[j] = cs[j]
      BY <1>1, <1>6, <3>1
    <3> QED
      BY <2>2, <3>2
  <2> QED
    BY <2>1, <2>2 DEF Among
<1>9. n \in 1 .. Len(fs) /\ Frames(fs, cs)
  BY <1>1, <1>4 DEF Shape
<1> HIDE DEF n
<1>10. /\ Frames(gs, ds) /\ Len(gs) = n
       /\ \A i \in 1 .. n : gs[i] = fs[i]
  BY <1>8, <1>9, Prefix
<1>11. fs[n].kind = "eel"
  <2>1. Len(fs) \in 2 .. Len(fs) /\ n = Len(fs) - 1
    BY <1>1, <1>4 DEF n
  <2>2. fs[n].kind # "c"
    BY <1>3, <2>1 DEF Shape, Frames
  <2>3. fs[n] \in FrameType
    BY <1>1, <1>9
  <2> QED
    BY <2>2, <2>3 DEF FrameType
<1>12. Tops(gs, ds)
  <2>1. n \in 1 .. n
    BY <1>9
  <2>2. Len(ds) = Len(cs) - 1 /\ ds[Len(ds)].kind = "run"
    BY <1>1, <1>5, <1>6
  <2> QED
    BY <1>10, <1>11, <2>1, <2>2 DEF Tops
<1>13. Front(fs) = gs /\ Front(cs) = ds
  BY DEF Front, n, ds
<1>14. Shape(gs, ds)
  BY <1>7, <1>10, <1>12 DEF Shape
<1> QED
  BY <1>1, <1>4, <1>5, <1>6, <1>10, <1>13, <1>14 DEF n

-----------------------------------------------------------------------------
(* Changes inside frames, and the ways down. *)

\* The parts of a frame.
LEMMA FrameParts ==
    ASSUME NEW f \in FrameType
    PROVE  /\ f.kind \in {"eel", "c"} /\ f.block \in {"none", "try", "untry", "catch"}
           /\ f.result \in 0 .. MaxFrames
           /\ f.vars \in Seq(Objs) /\ f.args \in Seq(Objs)
           /\ f.limbo \in SUBSET Objs /\ f.tmp \in Objs \cup {Nil}
BY DEF FrameType

\* call_eel, call_c and the TRY make frames.
LEMMA NewFrame ==
    ASSUME NEW kind \in {"eel", "c"}, NEW block \in {"none", "try", "catch"},
           NEW result \in 0 .. MaxFrames
    PROVE  /\ Frame(kind, block, result) \in FrameType
           /\ Frame(kind, block, result).kind = kind
           /\ Frame(kind, block, result).block = block
           /\ Frame(kind, block, result).result = result
<1>1. << >> \in Seq(Objs)
  OBVIOUS
<1> QED
  BY <1>1 DEF Frame, FrameType

\* A frame changes, its kind and block do not.
LEMMA Update ==
    ASSUME NEW fs, NEW cs, Shape(fs, cs), NEW n, NEW f,
           n \in 1 .. Len(fs) =>
              f \in FrameType /\ f.kind = fs[n].kind /\ f.block = fs[n].block /\ f.result = fs[n].result
    PROVE  /\ Shape([fs EXCEPT ![n] = f], cs)
           /\ Len([fs EXCEPT ![n] = f]) = Len(fs)
<1> DEFINE gs == [fs EXCEPT ![n] = f]
<1>1. fs \in Seq(FrameType) /\ Len(fs) \in Nat
  BY LenProperties DEF Shape, Frames
<1>2. gs \in Seq(FrameType) /\ Len(gs) = Len(fs)
  <2>1. CASE n \in 1 .. Len(fs)
    BY <1>1, <2>1, ExceptSeq
  <2>2. CASE n \notin 1 .. Len(fs)
    <3>1. gs = fs
      BY <1>1, <2>2
    <3> QED
      BY <1>1, <3>1
  <2> QED
    BY <2>1, <2>2
<1>3. \A i \in 1 .. Len(fs) : gs[i].kind = fs[i].kind /\ gs[i].block = fs[i].block /\ gs[i].result = fs[i].result
  BY <1>1
<1> QED
  BY <1>2, <1>3, Inside

\* eel_o_limbo.
LEMMA LimboPush ==
    ASSUME NEW fs, NEW cs, Shape(fs, cs), NEW v
    PROVE  Shape(ToLimbo(fs, v), cs)
<1> DEFINE f == [fs[Len(fs)] EXCEPT !.limbo = @ \cup {v}]
<1>1. fs[Len(fs)] \in FrameType
  <2>1. fs \in Seq(FrameType) /\ Len(fs) \in 1 .. Len(fs)
    BY EmptySeq DEF Shape, Frames
  <2> QED
    BY <2>1
<1>2. v \in Objs => f \in FrameType /\ f.kind = fs[Len(fs)].kind /\ f.block = fs[Len(fs)].block /\ f.result = fs[Len(fs)].result
  BY <1>1 DEF FrameType
<1>3. v \in Objs => Shape([fs EXCEPT ![Len(fs)] = f], cs)
  <2> HIDE DEF f
  <2> QED
    BY <1>2, Update
<1> QED
  BY <1>3 DEF ToLimbo

\* eel_run leaves a code to its C caller.
LEMMA EndOfRun ==
    ASSUME NEW cs \in Seq(EntryType), Len(cs) >= 2, NEW err \in {"ok"} \cup Codes
    PROVE  LET ds == [Front(cs) EXCEPT ![Len(cs) - 1].err = err]
           IN  /\ ds \in Seq(EntryType) /\ Len(ds) = Len(cs) - 1
               /\ \A k \in 1 .. Len(ds) : ds[k].kind = cs[k].kind /\ ds[k].base = cs[k].base
<1> DEFINE n == Len(cs) - 1
           hs == SubSeq(cs, 1, n)
           e == [hs[n] EXCEPT !.err = err]
<1>1. Len(cs) \in Nat /\ n \in 1 .. n
  OBVIOUS
<1>2. \A k \in 1 .. n : cs[k] \in EntryType
  BY <1>1
<1>3. hs \in Seq(EntryType) /\ Len(hs) = n /\ \A k \in 1 .. n : hs[k] = cs[k]
  BY <1>1, <1>2, SubSeqProperties
<1> HIDE DEF hs, n
<1>4. e \in EntryType /\ e.kind = hs[n].kind /\ e.base = hs[n].base
  BY <1>1, <1>2, <1>3 DEF EntryType
<1> HIDE DEF e
<1>5. /\ [hs EXCEPT ![n] = e] \in Seq(EntryType)
      /\ Len([hs EXCEPT ![n] = e]) = n
      /\ \A k \in 1 .. n : [hs EXCEPT ![n] = e][k] = IF k = n THEN e ELSE hs[k]
  BY <1>1, <1>3, <1>4, ExceptSeq
<1>6. [Front(cs) EXCEPT ![Len(cs) - 1].err = err] = [hs EXCEPT ![n] = e]
  BY DEF Front, hs, n, e
<1> QED
  BY <1>3, <1>4, <1>5, <1>6 DEF n

\* The frame of call_catcher.
LEMMA CatcherFrame ==
    ASSUME NEW fs \in Seq(FrameType), NEW h \in 2 .. Len(fs), NEW e
    PROVE  /\ Catcher(fs, h, e) \in FrameType
           /\ Catcher(fs, h, e).kind = "eel" /\ Catcher(fs, h, e).block = "catch"
           /\ Catcher(fs, h, e).result = fs[h - 1].result
<1> DEFINE f == Frame("eel", "catch", fs[h - 1].result)
           s == IF e \in Objs THEN << e >> ELSE << >>
<1>1. fs[h - 1] \in FrameType
  <2>1. h - 1 \in 1 .. Len(fs)
    OBVIOUS
  <2> QED
    BY <2>1
<1>2. fs[h - 1].result \in 0 .. MaxFrames
  BY <1>1, FrameParts
<1>3. /\ f \in FrameType /\ f.kind = "eel" /\ f.block = "catch"
      /\ f.result = fs[h - 1].result
  BY <1>2, NewFrame
<1>4. s \in Seq(Objs)
  OBVIOUS
<1>5. Catcher(fs, h, e) = [f EXCEPT !.vars = s]
  BY DEF Catcher
<1> HIDE DEF f, s
<1>6. /\ [f EXCEPT !.vars = s] \in FrameType
      /\ [f EXCEPT !.vars = s].kind = f.kind /\ [f EXCEPT !.vars = s].block = f.block /\ [f EXCEPT !.vars = s].result = f.result
  BY <1>3, <1>4 DEF FrameType
<1> QED
  BY <1>3, <1>5, <1>6

\* Without untry blocks, no exception gets below the frame of the C function
\* that called the loop.
LEMMA StopIsBase ==
    ASSUME NEW fs, NEW cs, Shape(fs, cs), cs[Len(cs)].kind = "run"
    PROVE  Stop(fs) = cs[Len(cs) - 1].base
<1> DEFINE b == cs[Len(cs) - 1].base
           S == {i \in DOMAIN fs : fs[i].kind = "c" \/ fs[i].block = "untry"}
<1>1. /\ Len(fs) \in Nat /\ b \in 1 .. Len(fs) - 1 /\ fs[b].kind = "c"
      /\ \A i \in b + 1 .. Len(fs) : fs[i].kind = "eel"
  BY InsideRun
<1>2. DOMAIN fs = 1 .. Len(fs) /\ \A i \in 1 .. Len(fs) : fs[i].block # "untry"
  BY LenProperties DEF Shape, Frames
<1>3. S \in SUBSET Int /\ b \in S
  BY <1>1, <1>2
<1>4. ASSUME NEW i \in S
      PROVE  i <= b
  <2>1. i \in 1 .. Len(fs) /\ fs[i].kind = "c"
    BY <1>2
  <2>2. ~(i \in b + 1 .. Len(fs))
    BY <1>1, <2>1
  <2> QED
    BY <1>1, <2>1, <2>2
<1> HIDE DEF S
<1>5. Max(S) = b
  BY <1>3, <1>4, MaxIs
<1> QED
  BY <1>5 DEF Stop, S

\* eel__throw and eel__scheduler: to a catcher, or back to C.
LEMMA ThrowStep ==
    ASSUME NEW fs, NEW cs, Shape(fs, cs), cs[Len(cs)].kind = "run",
           NEW r, NEW e \in Objs \cup Codes, Throw(cs, fs, r, e)
    PROVE  Shape(frames', cstack')
<1> DEFINE b == cs[Len(cs) - 1].base
           T == Tries(fs)
           h == Max(T)
<1>1. /\ Len(fs) \in Nat /\ Len(cs) \in Nat /\ Len(cs) >= 2
      /\ b \in 1 .. Len(fs) - 1
      /\ fs[b + 1].block = "none"
  BY InsideRun
<1>2. /\ fs \in Seq(FrameType) /\ cs \in Seq(EntryType)
      /\ Len(fs) <= MaxFrames
  BY DEF Shape, Frames, Turns
<1>3. Stop(fs) = b
  BY StopIsBase
<1>4. CASE T # {} /\ e # "internal"
  <2>1. T \in SUBSET (1 .. Len(fs)) /\ \A i \in T : i \in b + 1 .. Len(fs) /\ fs[i].block = "try"
    BY <1>1, <1>3 DEF Tries
  <2>2. h \in T
    <3> HIDE DEF T
    <3> QED
      BY <1>1, <1>4, <2>1, HasMax
  <2>3. h \in b + 1 .. Len(fs) /\ fs[h].block = "try"
    BY <2>1, <2>2
  <2>4. frames' = Append(SubSeq(fs, 1, h - 1), Catcher(fs, h, e)) /\ cstack' = cs
    BY <1>4 DEF Throw
  <2> HIDE DEF h
  <2>5. h - 1 \in b + 1 .. Len(fs) /\ h \in 2 .. Len(fs) /\ h - 1 < MaxFrames
    <3> HIDE DEF b, T
    <3>1. h # b + 1
      BY <1>1, <2>3
    <3> QED
      BY <1>1, <1>2, <2>3, <3>1, BoundsAssumption
  <2> DEFINE low == SubSeq(fs, 1, h - 1)
             f == Catcher(fs, h, e)
  <2>6. /\ Shape(low, cs) /\ Len(low) = h - 1
        /\ \A i \in 1 .. h - 1 : low[i] = fs[i]
    BY <2>5, Cut
  <2>7. /\ f \in FrameType /\ f.kind = "eel" /\ f.block = "catch"
        /\ f.result = fs[h - 1].result
    BY <1>2, <2>5, CatcherFrame
  <2> HIDE DEF low, f
  <2>8. h - 1 \in 1 .. h - 1 /\ low # << >>
    BY <1>1, <2>5, <2>6 DEF Shape, Frames
  <2>9. Fits(low, f)
    BY <2>6, <2>7, <2>8 DEF Fits
  <2> QED
    BY <2>4, <2>5, <2>6, <2>7, <2>9, PushEel DEF low, f
<1>5. CASE ~(T # {} /\ e # "internal")
  <2> DEFINE err == IF e \in Objs THEN "x" ELSE e
             ds == [Front(cs) EXCEPT ![Len(cs) - 1].err = err]
  <2>1. frames' = SubSeq(fs, 1, b) /\ cstack' = ds
    BY <1>3, <1>5 DEF Throw, EndRun
  <2>2. err \in {"ok"} \cup Codes
    BY DEF Codes
  <2> HIDE DEF err
  <2>3. /\ ds \in Seq(EntryType) /\ Len(ds) = Len(cs) - 1
        /\ \A k \in 1 .. Len(ds) : ds[k].kind = cs[k].kind /\ ds[k].base = cs[k].base
    BY <1>1, <1>2, <2>2, EndOfRun
  <2> HIDE DEF ds
  <2>4. Shape(SubSeq(fs, 1, b), ds)
    BY <2>3, BackToC
  <2> QED
    BY <2>1, <2>4
<1> QED
  BY <1>4, <1>5

\* The caller's arguments go, and the result lands in some register.
LEMMA Landing ==
    ASSUME NEW fs, NEW cs, Shape(fs, cs), NEW m, NEW result,
           NEW v \in Objs \cup {Nil}
    PROVE  LET kept == [fs EXCEPT ![m].args = << >>]
           IN  Shape(kept, cs) /\ Shape([kept EXCEPT ![result].tmp = v], cs)
<1> DEFINE kept == [fs EXCEPT ![m].args = << >>]
           f == [fs[m] EXCEPT !.args = << >>]
           g == [kept[result] EXCEPT !.tmp = v]
<1>1. m \in 1 .. Len(fs) => f \in FrameType /\ f.kind = fs[m].kind /\ f.block = fs[m].block /\ f.result = fs[m].result
  <2> SUFFICES ASSUME m \in 1 .. Len(fs)
               PROVE  f \in FrameType /\ f.kind = fs[m].kind /\ f.block = fs[m].block /\ f.result = fs[m].result
    OBVIOUS
  <2>1. fs[m] \in FrameType /\ << >> \in Seq(Objs)
    BY DEF Shape, Frames
  <2> QED
    BY <2>1 DEF FrameType
<1> HIDE DEF f
<1>2. Shape([fs EXCEPT ![m] = f], cs)
  BY <1>1, Update
<1>3. Shape(kept, cs)
  BY <1>2 DEF f
<1> HIDE DEF kept
<1>4. result \in 1 .. Len(kept) =>
        g \in FrameType /\ g.kind = kept[result].kind /\ g.block = kept[result].block /\ g.result = kept[result].result
  <2> SUFFICES ASSUME result \in 1 .. Len(kept)
               PROVE  g \in FrameType /\ g.kind = kept[result].kind /\ g.block = kept[result].block /\ g.result = kept[result].result
    OBVIOUS
  <2>1. kept[result] \in FrameType
    BY <1>3 DEF Shape, Frames
  <2> QED
    BY <2>1 DEF FrameType
<1> HIDE DEF g
<1>5. Shape([kept EXCEPT ![result] = g], cs)
  BY <1>3, <1>4, Update
<1>6. Shape([kept EXCEPT ![result].tmp = v], cs)
  BY <1>5 DEF g
<1> QED
  BY <1>3, <1>6 DEF kept

\* A function returns: to EEL code, or eel_run to its C caller.
LEMMA LeaveStep ==
    ASSUME Shape(frames, cstack), InEel,
           NEW n \in cstack[Len(cstack) - 1].base + 1 .. Depth,
           NEW result, NEW v \in Objs \cup {Nil}, NEW r, Leave(n, result, v, r)
    PROVE  Shape(frames', cstack')
<1> DEFINE b == cstack[Len(cstack) - 1].base
           ds == [Front(cstack) EXCEPT ![Len(cstack) - 1].err = "ok"]
           low == SubSeq(frames, 1, n - 1)
           kept == [low EXCEPT ![n - 1].args = << >>]
           put == IF result = 0 THEN kept ELSE [kept EXCEPT ![result].tmp = v]
<1>1. /\ cstack[Len(cstack)].kind = "run"
      /\ cstack \in Seq(EntryType) /\ frames \in Seq(FrameType)
  BY DEF InEel, Last, Shape, Turns, Frames
<1>2. /\ Depth \in Nat /\ Len(cstack) \in Nat /\ Len(cstack) >= 2
      /\ b \in 1 .. Depth - 1
      /\ \A i \in b + 1 .. Depth : frames[i].kind = "eel"
      /\ frames[b].kind = "c"
  BY <1>1, InsideRun DEF Depth
<1>3. n - 1 \in b .. Depth /\ n - 1 \in 1 .. Depth
  BY <1>2
<1>4. CASE frames[n - 1].kind = "c"
  <2>1. n - 1 = b
    BY <1>2, <1>3, <1>4
  <2>2. /\ ds \in Seq(EntryType) /\ Len(ds) = Len(cstack) - 1
        /\ \A k \in 1 .. Len(ds) : ds[k].kind = cstack[k].kind /\ ds[k].base = cstack[k].base
    <3>1. "ok" \in {"ok"} \cup Codes
      OBVIOUS
    <3> QED
      BY <1>1, <1>2, <3>1, EndOfRun
  <2>3. cstack' = ds /\ frames' = put
    BY <1>4 DEF Leave, EndRun
  <2> HIDE DEF ds
  <2>4. Shape(SubSeq(frames, 1, b), ds)
    BY <1>1, <2>2, BackToC
  <2>5. Shape(low, ds)
    BY <2>1, <2>4
  <2> HIDE DEF low
  <2>6. Shape(kept, ds) /\ Shape([kept EXCEPT ![result].tmp = v], ds)
    BY <2>5, Landing
  <2> QED
    BY <2>3, <2>6
<1>5. CASE frames[n - 1].kind # "c"
  <2>1. n - 1 \in b + 1 .. Depth
    BY <1>2, <1>3, <1>5
  <2>2. cstack' = cstack /\ (frames' = put \/ frames' = ToLimbo(put, v))
    BY <1>5 DEF Leave
  <2>3. Shape(low, cstack)
    BY <1>1, <2>1, Cut DEF Depth
  <2> HIDE DEF low
  <2>4. Shape(kept, cstack) /\ Shape([kept EXCEPT ![result].tmp = v], cstack)
    BY <2>3, Landing
  <2> HIDE DEF kept
  <2>5. Shape(put, cstack)
    BY <2>4
  <2> HIDE DEF put
  <2>6. Shape(ToLimbo(put, v), cstack)
    BY <2>5, LimboPush
  <2> QED
    BY <2>2, <2>5, <2>6
<1> QED
  BY <1>4, <1>5

\* The codes that C functions are given do not matter.
LEMMA OtherErr ==
    ASSUME NEW fs, NEW cs, Shape(fs, cs), NEW ds \in Seq(EntryType),
           Len(ds) = Len(cs),
           \A k \in 1 .. Len(ds) : ds[k].kind = cs[k].kind /\ ds[k].base = cs[k].base
    PROVE  Shape(fs, ds)
<1>1. cs \in Seq(EntryType) /\ cs # << >> /\ Len(cs) \in Nat /\ Len(cs) >= 1
  BY EmptySeq, LenProperties DEF Shape, Turns
<1>2. Turns(ds)
  <2>1. ds # << >> /\ 1 \in 1 .. Len(ds)
    BY <1>1
  <2>2. \A k \in 2 .. Len(ds) : k \in 1 .. Len(ds) /\ k - 1 \in 1 .. Len(ds)
    BY <1>1
  <2>3. \A k \in 2 .. Len(ds) : ds[k].kind # ds[k - 1].kind
    BY <2>2 DEF Shape, Turns
  <2>4. \A j, k \in 1 .. Len(ds) :
          j < k /\ ds[j].kind = "c" /\ ds[k].kind = "c" => ds[j].base < ds[k].base
    BY DEF Shape, Turns
  <2> QED
    BY <2>1, <2>3, <2>4 DEF Shape, Turns
<1>3. Frames(fs, ds)
  <2>1. \A k \in 1 .. Len(ds) :
          ds[k].kind = "c" => ds[k].base \in 1 .. Len(fs) /\ fs[ds[k].base].kind = "c"
    BY DEF Shape, Frames
  <2>2. ASSUME NEW i \in 1 .. Len(fs), fs[i].kind = "c"
        PROVE  \E k \in 1 .. Len(ds) : ds[k].kind = "c" /\ ds[k].base = i
    <3>1. PICK k \in 1 .. Len(cs) : cs[k].kind = "c" /\ cs[k].base = i
      BY <2>2 DEF Shape, Frames
    <3>2. k \in 1 .. Len(ds) /\ ds[k].kind = "c" /\ ds[k].base = i
      BY <3>1
    <3> QED
      BY <3>2
  <2> QED
    BY <2>1, <2>2 DEF Shape, Frames
<1>4. Tops(fs, ds)
  <2>1. Len(ds) \in 1 .. Len(ds)
    BY <1>1
  <2> QED
    BY <2>1 DEF Shape, Tops
<1> QED
  BY <1>2, <1>3, <1>4 DEF Shape

-----------------------------------------------------------------------------
(* The steps. *)

\* Types of what the VM is in.
LEMMA TopFrame ==
    ASSUME Shape(frames, cstack)
    PROVE  /\ frames \in Seq(FrameType) /\ Depth \in 1 .. MaxFrames
           /\ Top \in FrameType
           /\ \A i \in 1 .. Depth : frames[i] \in FrameType
           /\ cstack \in Seq(EntryType) /\ Len(cstack) \in Nat \ {0}
           /\ Operands \subseteq Objs
<1>1. frames \in Seq(FrameType) /\ frames # << >> /\ cstack \in Seq(EntryType) /\ cstack # << >>
  BY DEF Shape, Frames, Turns
<1>2. Len(cstack) \in Nat \ {0} /\ Depth \in Nat \ {0}
  BY <1>1, EmptySeq DEF Depth
<1>3. Depth \in 1 .. MaxFrames
  <2>1. Depth <= MaxFrames
    BY DEF Shape, Frames, Depth
  <2> QED
    BY <1>2, <2>1, BoundsAssumption
<1>4. \A i \in 1 .. Depth : frames[i] \in FrameType
  BY <1>1 DEF Depth
<1>5. Depth \in 1 .. Depth
  BY <1>2
<1> QED
  BY <1>1, <1>2, <1>3, <1>4, <1>5 DEF Top, Operands

\* vm_init.
LEMMA InitShape == Init => Shape(frames, cstack)
<1> SUFFICES ASSUME Init
             PROVE  Shape(frames, cstack)
  OBVIOUS
<1> DEFINE f == Frame("c", "none", 0)
           e == [kind |-> "c", base |-> 1, err |-> "ok"]
<1>1. f \in FrameType /\ f.kind = "c" /\ f.block = "none" /\ f.result = 0
  BY NewFrame, BoundsAssumption
<1>2. e \in EntryType /\ e.kind = "c" /\ e.base = 1
  BY DEF EntryType
<1>3. frames = << f >> /\ cstack = << e >>
  BY DEF Init
<1> HIDE DEF f, e
<1>4. /\ frames \in Seq(FrameType) /\ Len(frames) = 1 /\ frames[1] = f
      /\ cstack \in Seq(EntryType) /\ Len(cstack) = 1 /\ cstack[1] = e
  BY <1>1, <1>2, <1>3
<1>5. Turns(cstack)
  <2>1. cstack # << >>
    BY <1>3
  <2>2. 2 .. Len(cstack) = {} /\ 1 .. Len(cstack) = {1}
    BY <1>4
  <2>3. \A j, k \in 1 .. Len(cstack) : ~(j < k)
    BY <2>2
  <2> QED
    BY <1>2, <1>4, <2>1, <2>2, <2>3 DEF Turns
<1>6. Frames(frames, cstack)
  <2>1. frames # << >> /\ 2 .. Len(frames) = {} /\ 1 .. Len(frames) = {1}
    BY <1>3, <1>4
  <2>2. Home(frames)
    BY <1>1, <1>4, <2>1 DEF Home
  <2>3. 1 .. Len(cstack) = {1} /\ Len(frames) <= MaxFrames
    BY <1>4, BoundsAssumption
  <2> QED
    BY <1>1, <1>2, <1>4, <2>1, <2>2, <2>3 DEF Frames
<1>7. Tops(frames, cstack)
  BY <1>1, <1>2, <1>4 DEF Tops
<1> QED
  BY <1>5, <1>6, <1>7 DEF Shape

\* Changes of the frame on top.
LEMMA SetTopStep ==
    ASSUME Shape(frames, cstack), NEW f \in FrameType,
           f.kind = Top.kind, f.block = Top.block, f.result = Top.result,
           SetTop(f), UNCHANGED cstack
    PROVE  Shape(frames', cstack')
BY Update DEF SetTop, Top, Depth

\* The frames that EEL code runs in.
LEMMA InLoop ==
    ASSUME Shape(frames, cstack), InEel
    PROVE  /\ cstack[Len(cstack)].kind = "run"
           /\ Depth \in Nat /\ Len(cstack) \in Nat /\ Len(cstack) >= 2
           /\ cstack[Len(cstack) - 1].base \in 1 .. Depth - 1
           /\ frames[cstack[Len(cstack) - 1].base + 1].block = "none"
<1>1. cstack[Len(cstack)].kind = "run"
  BY DEF InEel, Last
<1> QED
  BY <1>1, InsideRun DEF Depth

\* A block has the function around it below.
LEMMA AroundBlock ==
    ASSUME Shape(frames, cstack)
    PROVE  InEel /\ Top.block # "none" =>
              /\ Depth - 1 \in 1 .. Depth
              /\ Depth - 1 \in cstack[Len(cstack) - 1].base + 1 .. Depth
<1> SUFFICES ASSUME InEel, Top.block # "none"
             PROVE  /\ Depth - 1 \in 1 .. Depth
                    /\ Depth - 1 \in cstack[Len(cstack) - 1].base + 1 .. Depth
  OBVIOUS
<1> DEFINE b == cstack[Len(cstack) - 1].base
<1>1. Depth \in Nat /\ b \in 1 .. Depth - 1 /\ frames[b + 1].block = "none"
  BY InLoop
<1>2. b + 1 # Depth
  BY <1>1 DEF Top
<1> QED
  BY <1>1, <1>2

\* Instructions that stay in their frame.
LEMMA InsideStep ==
    ASSUME Shape(frames, cstack),
           \/ INEW \/ GETVAR \/ GETUVAL \/ SETVAR \/ SETUVAL
           \/ INIT \/ ASSIGN \/ CLEAN \/ PUSH \/ Drop
    PROVE  Shape(frames', cstack')
<1>1. /\ frames \in Seq(FrameType) /\ Depth \in 1 .. MaxFrames
      /\ Top \in FrameType
      /\ \A i \in 1 .. Depth : frames[i] \in FrameType
      /\ Operands \subseteq Objs
  BY TopFrame
<1>2. /\ Top.vars \in Seq(Objs) /\ Top.args \in Seq(Objs)
      /\ Top.limbo \in SUBSET Objs /\ Top.tmp \in Objs \cup {Nil}
  BY <1>1, FrameParts
<1>3. InEel /\ Top.block # "none" => Depth - 1 \in 1 .. Depth
  BY AroundBlock
<1>4. CASE INEW
  <2>1. PICK o \in Objs :
          SetTop([Top EXCEPT !.tmp = o, !.limbo = @ \cup {o}, !.args = << >>])
    BY <1>4 DEF INEW
  <2> DEFINE f == [Top EXCEPT !.tmp = o, !.limbo = @ \cup {o}, !.args = << >>]
  <2>2. f \in FrameType /\ f.kind = Top.kind /\ f.block = Top.block /\ f.result = Top.result
    <3>1. << >> \in Seq(Objs)
      OBVIOUS
    <3> QED
      BY <1>1, <3>1 DEF FrameType
  <2>3. SetTop(f) /\ UNCHANGED cstack
    BY <1>4, <2>1 DEF INEW
  <2> HIDE DEF f
  <2> QED
    BY <2>2, <2>3, SetTopStep
<1>5. ASSUME NEW v \in Objs, Get(v)
      PROVE  Shape(frames', cstack')
  <2> DEFINE f == [frames[Depth] EXCEPT !.tmp = v]
  <2>1. f \in FrameType /\ f.kind = frames[Depth].kind /\ f.block = frames[Depth].block /\ f.result = frames[Depth].result
    BY <1>1 DEF FrameType, Top
  <2>2. frames' = ToLimbo([frames EXCEPT ![Depth] = f], v) /\ cstack' = cstack
    BY <1>5 DEF Get
  <2> HIDE DEF f
  <2>3. Shape([frames EXCEPT ![Depth] = f], cstack)
    BY <2>1, Update
  <2> QED
    BY <2>2, <2>3, LimboPush
<1>6. CASE GETVAR
  BY <1>5, <1>6 DEF GETVAR
<1>7. CASE GETUVAL
  <2>1. PICK v \in Range(frames[Depth - 1].vars) : Get(v)
    BY <1>7 DEF GETUVAL
  <2>2. v \in Objs
    <3>1. Depth - 1 \in 1 .. Depth
      BY <1>7, <1>3 DEF GETUVAL
    <3>2. frames[Depth - 1].vars \in Seq(Objs)
      BY <1>1, <3>1, FrameParts
    <3> QED
      BY <2>1, <3>2 DEF Range
  <2> QED
    BY <1>5, <2>1, <2>2
<1>8. CASE SETVAR
  BY <1>8 DEF SETVAR
<1>9. CASE SETUVAL
  <2>1. Depth - 1 \in 1 .. Depth
    BY <1>9, <1>3 DEF SETUVAL
  <2>2. PICK i \in DOMAIN frames[Depth - 1].vars, v \in Operands :
          frames' = [frames EXCEPT ![Depth - 1].vars[i] = v]
    BY <1>9 DEF SETUVAL
  <2> DEFINE g == frames[Depth - 1]
             s == [g.vars EXCEPT ![i] = v]
             f == [g EXCEPT !.vars = s]
  <2>3. g \in FrameType /\ g.vars \in Seq(Objs)
    BY <1>1, <2>1, FrameParts
  <2>4. s \in Seq(Objs)
    BY <1>1, <2>2, <2>3
  <2>5. frames' = [frames EXCEPT ![Depth - 1] = f] /\ cstack' = cstack
    BY <1>9, <2>2 DEF SETUVAL
  <2> HIDE DEF s
  <2>6. f \in FrameType /\ f.kind = g.kind /\ f.block = g.block /\ f.result = g.result
    BY <2>3, <2>4 DEF FrameType
  <2> HIDE DEF f
  <2> QED
    BY <2>5, <2>6, Update
<1>10. CASE INIT
  <2>1. PICK v \in Operands : SetTop([Top EXCEPT !.vars = Append(@, v)])
    BY <1>10 DEF INIT
  <2> DEFINE f == [Top EXCEPT !.vars = Append(@, v)]
  <2>2. Append(Top.vars, v) \in Seq(Objs)
    BY <1>1, <1>2
  <2>3. f \in FrameType /\ f.kind = Top.kind /\ f.block = Top.block /\ f.result = Top.result
    BY <1>1, <2>2 DEF FrameType
  <2>4. SetTop(f) /\ UNCHANGED cstack
    BY <1>10, <2>1 DEF INIT
  <2> HIDE DEF f
  <2> QED
    BY <2>3, <2>4, SetTopStep
<1>11. CASE ASSIGN
  <2>1. PICK i \in DOMAIN Top.vars : SetTop([Top EXCEPT !.vars[i] = Top.tmp])
    BY <1>11 DEF ASSIGN
  <2> DEFINE s == [Top.vars EXCEPT ![i] = Top.tmp]
             f == [Top EXCEPT !.vars = s]
  <2>2. s \in Seq(Objs)
    BY <1>2, <1>11 DEF ASSIGN
  <2>3. SetTop(f) /\ UNCHANGED cstack
    BY <1>11, <2>1 DEF ASSIGN
  <2> HIDE DEF s
  <2>4. f \in FrameType /\ f.kind = Top.kind /\ f.block = Top.block /\ f.result = Top.result
    BY <1>1, <2>2 DEF FrameType
  <2> HIDE DEF f
  <2> QED
    BY <2>3, <2>4, SetTopStep
<1>12. CASE CLEAN
  <2>1. PICK n \in 0 .. Len(Top.vars) - 1 : SetTop([Top EXCEPT !.vars = SubSeq(@, 1, n)])
    BY <1>12 DEF CLEAN
  <2> DEFINE s == SubSeq(Top.vars, 1, n)
             f == [Top EXCEPT !.vars = s]
  <2>2. s \in Seq(Objs)
    BY <1>2
  <2>3. SetTop(f) /\ UNCHANGED cstack
    BY <1>12, <2>1 DEF CLEAN
  <2> HIDE DEF s
  <2>4. f \in FrameType /\ f.kind = Top.kind /\ f.block = Top.block /\ f.result = Top.result
    BY <1>1, <2>2 DEF FrameType
  <2> HIDE DEF f
  <2> QED
    BY <2>3, <2>4, SetTopStep
<1>13. CASE PUSH
  <2>1. PICK v \in Operands : SetTop([Top EXCEPT !.args = Append(@, v)])
    BY <1>13 DEF PUSH
  <2> DEFINE f == [Top EXCEPT !.args = Append(@, v)]
  <2>2. Append(Top.args, v) \in Seq(Objs)
    BY <1>1, <1>2
  <2>3. f \in FrameType /\ f.kind = Top.kind /\ f.block = Top.block /\ f.result = Top.result
    BY <1>1, <2>2 DEF FrameType
  <2>4. SetTop(f) /\ UNCHANGED cstack
    BY <1>13, <2>1 DEF PUSH
  <2> HIDE DEF f
  <2> QED
    BY <2>3, <2>4, SetTopStep
<1>14. CASE Drop
  <2> DEFINE f == [Top EXCEPT !.tmp = Nil]
  <2>1. f \in FrameType /\ f.kind = Top.kind /\ f.block = Top.block /\ f.result = Top.result
    BY <1>1 DEF FrameType
  <2>2. SetTop(f) /\ UNCHANGED cstack
    BY <1>14 DEF Drop
  <2> HIDE DEF f
  <2> QED
    BY <2>1, <2>2, SetTopStep
<1> QED
  BY <1>4, <1>6, <1>7, <1>8, <1>9, <1>10, <1>11, <1>12, <1>13, <1>14

\* Instructions that call a function or start a block.
LEMMA CallStep ==
    ASSUME Shape(frames, cstack), ~Untry,
           CALL \/ call_c \/ TRY \/ UNTRY \/ RETRY
    PROVE  Shape(frames', cstack')
<1>1. /\ frames \in Seq(FrameType) /\ Depth \in 1 .. MaxFrames
      /\ Top \in FrameType
      /\ \A i \in 1 .. Depth : frames[i] \in FrameType
  BY TopFrame
<1>2. MaxFrames \in Nat /\ Top.result \in 0 .. MaxFrames /\ Depth = Len(frames)
  BY <1>1, FrameParts, BoundsAssumption DEF Depth
<1>3. CASE CALL
  <2>1. PICK result \in {0, Depth} : frames' = Append(frames, Frame("eel", "none", result))
    BY <1>3 DEF CALL
  <2> DEFINE f == Frame("eel", "none", result)
  <2>2. f \in FrameType /\ f.kind = "eel" /\ f.block = "none" /\ f.result = result
    BY <1>1, <1>2, NewFrame
  <2>3. cstack' = cstack /\ InEel /\ Len(frames) < MaxFrames
    BY <1>2, <1>3 DEF CALL
  <2>4. cstack[Len(cstack)].kind = "run"
    BY <2>3, InLoop
  <2> HIDE DEF f
  <2>5. Fits(frames, f)
    BY <1>2, <2>2 DEF Fits
  <2>6. Shape(Append(frames, f), cstack)
    BY <2>2, <2>3, <2>4, <2>5, PushEel
  <2> QED
    BY <2>1, <2>3, <2>6 DEF f
<1>4. CASE call_c
  <2> DEFINE e == [kind |-> "c", base |-> Depth + 1, err |-> "ok"]
  <2>1. PICK result \in {0, Depth} : frames' = Append(frames, Frame("c", "none", result))
    BY <1>4 DEF call_c
  <2> DEFINE f == Frame("c", "none", result)
  <2>2. f \in FrameType /\ f.kind = "c" /\ f.block = "none" /\ f.result = result
    BY <1>1, <1>2, NewFrame
  <2>3. e \in EntryType /\ e.kind = "c" /\ e.base = Len(frames) + 1
    BY <1>1, <1>2 DEF EntryType
  <2>4. cstack' = Append(cstack, e) /\ InEel /\ Len(frames) < MaxFrames
    BY <1>2, <1>4 DEF call_c
  <2>5. cstack[Len(cstack)].kind = "run"
    BY <2>4, InLoop
  <2> HIDE DEF e, f
  <2>6. Fits(frames, f)
    BY <1>2, <2>2 DEF Fits
  <2>7. Shape(Append(frames, f), Append(cstack, e))
    BY <2>2, <2>3, <2>4, <2>5, <2>6, PushC
  <2> QED
    BY <2>1, <2>4, <2>7 DEF f
<1>5. CASE TRY
  <2> DEFINE f == Frame("eel", "try", Top.result)
  <2>1. f \in FrameType /\ f.kind = "eel" /\ f.block = "try" /\ f.result = Top.result
    BY <1>2, NewFrame
  <2>2. /\ frames' = Append(frames, f) /\ cstack' = cstack
        /\ InEel /\ Len(frames) < MaxFrames
    BY <1>2, <1>5 DEF TRY
  <2>3. cstack[Len(cstack)].kind = "run"
    BY <2>2, InLoop
  <2> HIDE DEF f
  <2>4. f.block # "untry" /\ Fits(frames, f)
    <3>1. frames # << >>
      BY DEF Shape, Frames
    <3> QED
      BY <1>2, <2>1, <3>1 DEF Fits, Top
  <2> QED
    BY <2>1, <2>2, <2>3, <2>4, PushEel
<1>6. ~UNTRY
  BY DEF UNTRY
<1>7. CASE RETRY
  <2> DEFINE g == frames[Depth - 1]
             f == Frame("eel", "try", g.result)
             low == SubSeq(frames, 1, Depth - 1)
  <2>1. InEel /\ Top.block # "none"
    BY <1>7 DEF RETRY
  <2>2. /\ Depth - 1 \in 1 .. Depth
        /\ Depth - 1 \in cstack[Len(cstack) - 1].base + 1 .. Len(frames)
    BY <1>2, <2>1, AroundBlock
  <2>3. g.result \in 0 .. MaxFrames
    BY <1>1, <2>2, FrameParts
  <2>4. f \in FrameType /\ f.kind = "eel" /\ f.block = "try" /\ f.result = g.result
    BY <2>3, NewFrame
  <2>5. frames' = Append(low, f) /\ cstack' = cstack
    BY <1>2, <1>7 DEF RETRY, Front
  <2>6. cstack[Len(cstack)].kind = "run"
    BY <2>1, InLoop
  <2>7. /\ Shape(low, cstack) /\ Len(low) = Depth - 1
        /\ \A i \in 1 .. Depth - 1 : low[i] = frames[i]
    BY <2>2, <2>6, Cut
  <2>8. Len(low) < MaxFrames
    BY <1>1, <1>2, <2>7
  <2> HIDE DEF f, low
  <2>9. f.block # "untry" /\ Fits(low, f)
    <3>1. Depth - 1 \in 1 .. Depth - 1 /\ low # << >>
      BY <1>1, <2>2, <2>7 DEF Shape, Frames
    <3> QED
      BY <2>4, <2>7, <3>1 DEF Fits
  <2> QED
    BY <2>4, <2>5, <2>6, <2>7, <2>8, <2>9, PushEel
<1> QED
  BY <1>3, <1>4, <1>5, <1>6, <1>7

\* Instructions that leave a function.
LEMMA ReturnStep ==
    ASSUME Shape(frames, cstack), RETURN \/ RETX
    PROVE  Shape(frames', cstack')
<1> DEFINE b == cstack[Len(cstack) - 1].base
<1>1. InEel
  BY DEF RETURN, RETX
<1>2. Depth \in Nat /\ b \in 1 .. Depth - 1 /\ frames[b + 1].block = "none"
  BY <1>1, InLoop
<1>3. Operands \cup {Nil} \subseteq Objs \cup {Nil}
  BY TopFrame
<1>4. CASE RETURN
  <2>1. Depth \in b + 1 .. Depth
    BY <1>2
  <2>2. \E v \in Objs \cup {Nil}, result \in {0, Top.result} : Leave(Depth, result, v, rc)
    <3>1. CASE \E v \in Operands \cup {Nil} : Leave(Depth, Top.result, v, rc)
      BY <1>3, <3>1
    <3>2. CASE Leave(Depth, 0, Nil, rc)
      BY <3>2
    <3> QED
      BY <1>4, <3>1, <3>2 DEF RETURN
  <2>3. PICK v \in Objs \cup {Nil}, result \in {0, Top.result} : Leave(Depth, result, v, rc)
    BY <2>2
  <2> QED
    BY <1>1, <2>1, <2>3, LeaveStep
<1>5. CASE RETX
  <2> DEFINE S == {i \in DOMAIN frames : frames[i].block = "none"}
             n == Max(S)
  <2>1. S \in SUBSET (1 .. Depth) /\ b + 1 \in S
    <3>1. DOMAIN frames = 1 .. Depth
      BY LenProperties DEF Shape, Frames, Depth
    <3> QED
      BY <1>2, <3>1
  <2>2. PICK v \in Objs \cup {Nil} : Leave(n, Top.result, v, Disown(rc, exc))
    BY <1>3, <1>5 DEF RETX
  <2> HIDE DEF S
  <2>3. n \in 1 .. Depth /\ b + 1 <= n
    <3>1. n \in S /\ \A x \in S : x <= n
      BY <1>2, <2>1, HasMax
    <3> QED
      BY <2>1, <3>1
  <2> HIDE DEF n
  <2>4. n \in b + 1 .. Depth
    BY <1>2, <2>3
  <2> QED
    BY <1>1, <2>2, <2>4, LeaveStep
<1> QED
  BY <1>4, <1>5

\* Exceptions of EEL code.
LEMMA RaiseStep ==
    ASSUME Shape(frames, cstack), THROW \/ Fault
    PROVE  Shape(frames', cstack')
<1>1. InEel
  BY DEF THROW, Fault
<1>2. cstack[Len(cstack)].kind = "run"
  BY <1>1, InLoop
<1>3. Operands \subseteq Objs
  BY TopFrame
<1>4. PICK e \in Objs \cup Codes : Throw(cstack, frames, rc, e)
  BY <1>3 DEF THROW, Fault
<1> QED
  BY <1>2, <1>4, ThrowStep

\* A C function calls back into EEL.
LEMMA CallbackStep ==
    ASSUME Shape(frames, cstack), eel_callf
    PROVE  Shape(frames', cstack')
<1>1. /\ frames \in Seq(FrameType) /\ Depth \in 1 .. MaxFrames
      /\ \A i \in 1 .. Depth : frames[i] \in FrameType
      /\ cstack \in Seq(EntryType) /\ Len(cstack) \in Nat \ {0}
  BY TopFrame
<1>2. MaxFrames \in Nat /\ Depth = Len(frames) /\ Depth < MaxFrames
  BY BoundsAssumption DEF Depth, eel_callf
<1>3. cstack[Len(cstack)].kind = "c"
  BY DEF eel_callf, InC, Last
<1>4. PICK result \in {0, Depth},
           args \in {<< >>} \cup {<< v >> : v \in IF Host THEN {} ELSE Range(frames[Depth - 1].args)} :
        frames' = Append([frames EXCEPT ![Depth].args = args], Frame("eel", "none", result))
  BY DEF eel_callf
<1>5. args \in Seq(Objs)
  <2>1. CASE args = << >>
    BY <2>1
  <2>2. CASE args # << >>
    <3>1. PICK v \in Range(frames[Depth - 1].args) : args = << v >> /\ ~Host
      BY <1>4, <2>2
    <3>2. Len(cstack) # 1
      BY <3>1 DEF Host
    <3>3. Depth - 1 \in 1 .. Depth
      <4>1. Len(frames) \in Nat /\ Len(frames) >= 2
        BY <1>3, <3>2, PopC
      <4> QED
        BY <4>1 DEF Depth
    <3>4. frames[Depth - 1].args \in Seq(Objs)
      BY <1>1, <3>3, FrameParts
    <3>5. v \in Objs
      BY <3>1, <3>4 DEF Range
    <3> QED
      BY <3>1, <3>5
  <2> QED
    BY <2>1, <2>2
<1> DEFINE g == [frames[Depth] EXCEPT !.args = args]
           gs == [frames EXCEPT ![Depth] = g]
           c == [cstack[Len(cstack)] EXCEPT !.err = "ok"]
           ds == [cstack EXCEPT ![Len(cstack)] = c]
           f == Frame("eel", "none", result)
           e == [kind |-> "run", base |-> 0, err |-> "ok"]
<1>6. g \in FrameType /\ g.kind = frames[Depth].kind /\ g.block = frames[Depth].block /\ g.result = frames[Depth].result
  <2>1. frames[Depth] \in FrameType
    BY <1>1
  <2> QED
    BY <1>5, <2>1 DEF FrameType
<1>7. f \in FrameType /\ f.kind = "eel" /\ f.block = "none" /\ f.result = result
  BY <1>1, <1>2, NewFrame
<1>8. e \in EntryType /\ e.kind = "run"
  BY DEF EntryType
<1>9. /\ c \in EntryType /\ c.kind = cstack[Len(cstack)].kind
      /\ c.base = cstack[Len(cstack)].base
  <2>1. cstack[Len(cstack)] \in EntryType
    BY <1>1
  <2> QED
    BY <2>1 DEF EntryType
<1>10. frames' = Append(gs, f) /\ cstack' = Append(ds, e)
  BY <1>4 DEF eel_callf
<1> HIDE DEF g, c, f, e
<1>11. Shape(gs, cstack) /\ Len(gs) = Depth
  BY <1>2, <1>6, Update
<1>12. /\ ds \in Seq(EntryType) /\ Len(ds) = Len(cstack)
       /\ \A k \in 1 .. Len(ds) : ds[k].kind = cstack[k].kind /\ ds[k].base = cstack[k].base
  <2>1. ds \in Seq(EntryType) /\ Len(ds) = Len(cstack)
    BY <1>1, <1>9, ExceptSeq
  <2>2. \A k \in 1 .. Len(cstack) : ds[k] = IF k = Len(cstack) THEN c ELSE cstack[k]
    BY <1>1
  <2> QED
    BY <1>1, <1>9, <2>1, <2>2
<1> HIDE DEF gs, ds
<1>13. Shape(gs, ds)
  BY <1>11, <1>12, OtherErr
<1>14. ds[Len(ds)].kind = "c" /\ Len(gs) < MaxFrames
  BY <1>1, <1>2, <1>3, <1>11, <1>12
<1>15. Fits(gs, f)
  BY <1>7, <1>11 DEF Fits
<1> QED
  BY <1>7, <1>8, <1>10, <1>13, <1>14, <1>15, PushRun

\* A C function returns, or fails.
LEMMA ReturnCStep ==
    ASSUME Shape(frames, cstack), ReturnC \/ FailC
    PROVE  Shape(frames', cstack')
<1> DEFINE low == Front(frames)
           kept == [low EXCEPT ![Depth - 1].args = << >>]
           cs == Front(cstack)
<1>1. cstack[Len(cstack)].kind = "c" /\ Len(cstack) # 1
  BY DEF ReturnC, FailC, InC, Host, Last
<1>2. /\ Depth \in Nat /\ Depth >= 2 /\ Len(cstack) \in Nat /\ Len(cstack) >= 2
      /\ Shape(low, cs)
      /\ Len(cs) = Len(cstack) - 1 /\ Len(low) = Depth - 1
      /\ cs[Len(cs)] = cstack[Len(cstack) - 1]
      /\ cstack[Len(cstack) - 1].kind = "run"
  <2>1. /\ Depth \in Nat /\ Depth >= 2 /\ Len(cstack) \in Nat /\ Len(cstack) >= 2
        /\ Shape(low, cs)
        /\ Len(cs) = Len(cstack) - 1 /\ Len(low) = Depth - 1
        /\ \A k \in 1 .. Len(cstack) - 1 : cs[k] = cstack[k]
        /\ cstack[Len(cstack) - 1].kind = "run"
    <3>1. cstack[Len(cstack)].kind = "c" /\ Len(cstack) # 1
      BY <1>1
    <3>2. Shape(Front(frames), Front(cstack))
      BY <3>1, PopC
    <3>3. /\ Len(frames) \in Nat /\ Len(frames) >= 2
          /\ Len(cstack) \in Nat /\ Len(cstack) >= 2
      BY <3>1, PopC
    <3>4. /\ Len(Front(frames)) = Len(frames) - 1
          /\ Len(Front(cstack)) = Len(cstack) - 1
      BY <3>1, PopC
    <3>5. cstack[Len(cstack) - 1].kind = "run"
      BY <3>1, PopC
    <3>6. \A k \in 1 .. Len(cstack) - 1 : Front(cstack)[k] = cstack[k]
      <4>1. cstack \in Seq(EntryType)
        BY DEF Shape, Turns
      <4> QED
        BY <3>3, <4>1 DEF Front
    <3> QED
      BY <3>2, <3>3, <3>4, <3>5, <3>6 DEF Depth
  <2> HIDE DEF low, cs
  <2>2. Len(cstack) - 1 \in 1 .. Len(cstack) - 1
    BY <2>1
  <2> QED
    BY <2>1, <2>2
<1>3. /\ \A i \in 1 .. Depth : frames[i] \in FrameType
      /\ Top \in FrameType /\ cstack \in Seq(EntryType)
  BY TopFrame
<1> HIDE DEF low, cs
<1>4. CASE ReturnC
  <2>1. PICK v \in Results :
          IF Top.result = 0 THEN frames' = kept
          ELSE frames' = ToLimbo([kept EXCEPT ![Depth - 1].tmp = v], v)
    <3>1. PICK v \in Results :
            IF Top.result = 0
            THEN /\ frames' = kept
                 /\ rc' = Disown(ClearArgs(ResultOwned(v), frames[Depth - 1].args), v)
            ELSE /\ frames' = ToLimbo([kept EXCEPT ![Depth - 1].tmp = v], v)
                 /\ rc' = Received(ClearArgs(ResultOwned(v), frames[Depth - 1].args),
                                   [kept EXCEPT ![Depth - 1].tmp = v], v)
      BY <1>4 DEF ReturnC, low
    <3> HIDE DEF kept
    <3> QED
      BY <3>1
  <2>2. cstack' = cs
    BY <1>4 DEF ReturnC, cs
  <2>3. v \in Objs \cup {Nil}
    <3>1. Depth - 1 \in 1 .. Depth
      BY <1>2
    <3>2. frames[Depth - 1].args \in Seq(Objs) /\ Top.tmp \in Objs \cup {Nil}
      BY <1>3, <3>1, FrameParts
    <3> QED
      BY <2>1, <3>2 DEF Results, Range
  <2> DEFINE put == [kept EXCEPT ![Depth - 1].tmp = v]
  <2>4. Shape(kept, cs) /\ Shape(put, cs)
    BY <1>2, <2>3, Landing
  <2>5. frames' = kept \/ frames' = ToLimbo(put, v)
    BY <2>1
  <2> HIDE DEF kept, put
  <2>6. Shape(ToLimbo(put, v), cs)
    BY <2>4, LimboPush
  <2> QED
    BY <2>2, <2>4, <2>5, <2>6
<1>5. CASE FailC
  <2> DEFINE e == IF Last(cstack).err = "ok" THEN "x" ELSE Last(cstack).err
             r == ClearArgs(ClearArgs(rc, Top.args), frames[Depth - 1].args)
  <2>1. Throw(cs, kept, r, e)
    BY <1>5 DEF FailC, low, cs
  <2>2. e \in Objs \cup Codes
    <3>1. Last(cstack) \in EntryType
      BY <1>2, <1>3 DEF Last
    <3> QED
      BY <3>1 DEF EntryType, Codes
  <2>3. Shape(kept, cs)
    <3>1. Nil \in Objs \cup {Nil}
      OBVIOUS
    <3> QED
      BY <1>2, <3>1, Landing
  <2> HIDE DEF kept, e, r
  <2>4. cs[Len(cs)].kind = "run"
    BY <1>2
  <2> QED
    BY <2>1, <2>2, <2>3, <2>4, ThrowStep
<1> QED
  BY <1>4, <1>5
\* Every step.
LEMMA StepShape == Shape(frames, cstack) /\ [Next]_vars /\ ~Untry => Shape(frames', cstack')
<1> SUFFICES ASSUME Shape(frames, cstack), [Next]_vars, ~Untry
             PROVE  Shape(frames', cstack')
  OBVIOUS
<1>1. CASE \/ INEW \/ GETVAR \/ GETUVAL \/ SETVAR \/ SETUVAL
           \/ INIT \/ ASSIGN \/ CLEAN \/ PUSH \/ Drop
  BY <1>1, InsideStep
<1>2. CASE CALL \/ call_c \/ TRY \/ UNTRY \/ RETRY
  BY <1>2, CallStep
<1>3. CASE RETURN \/ RETX
  BY <1>3, ReturnStep
<1>4. CASE THROW \/ Fault
  BY <1>4, RaiseStep
<1>5. CASE eel_callf
  BY <1>5, CallbackStep
<1>6. CASE ReturnC \/ FailC
  BY <1>6, ReturnCStep
<1>7. CASE UNCHANGED vars
  BY <1>7 DEF vars
<1> QED
  BY <1>1, <1>2, <1>3, <1>4, <1>5, <1>6, <1>7 DEF Next, Instruction, CFunction

Stacks == Shape(frames, cstack)

(***************************************************************************)
(* What StacksAgree needs: without untry blocks, C functions and eel_run   *)
(* loops alternate, the frames above a C function's start with an EEL      *)
(* function and are EEL code, and every C function that still runs has its *)
(* frame, through every call, return and exception.                        *)
(***************************************************************************)
THEOREM Invariant == ~Untry => (Spec => []Stacks)
<1>1. Init => Stacks
  BY InitShape DEF Stacks
<1>2. Stacks /\ [Next]_vars /\ ~Untry => Stacks'
  BY StepShape DEF Stacks
<1> SUFFICES ASSUME ~Untry
             PROVE  Spec => []Stacks
  OBVIOUS
<1>3. Stacks /\ [Next]_vars => Stacks'
  BY <1>2
<1> QED
  BY <1>1, <1>3, PTL DEF Spec

\* The invariant implies the property.
LEMMA StacksGiveAgreement == Stacks => StacksAgree
<1> SUFFICES ASSUME Stacks
             PROVE  StacksAgree
  OBVIOUS
<1> USE DEF Stacks
<1>1. /\ frames \in Seq(FrameType) /\ Depth \in Nat /\ Depth = Len(frames)
      /\ cstack \in Seq(EntryType) /\ Len(cstack) \in Nat \ {0}
      /\ Last(cstack) = cstack[Len(cstack)]
  BY TopFrame DEF Depth, Last
<1>2. DOMAIN frames = 1 .. Len(frames) /\ DOMAIN cstack = 1 .. Len(cstack)
  BY <1>1
<1>3. {i \in DOMAIN frames : frames[i].kind = "c"}
        = {cstack[k].base : k \in {k \in DOMAIN cstack : cstack[k].kind = "c"}}
  <2>1. ASSUME NEW i \in 1 .. Len(frames), frames[i].kind = "c"
        PROVE  \E k \in 1 .. Len(cstack) : cstack[k].kind = "c" /\ cstack[k].base = i
    BY <2>1 DEF Shape, Frames
  <2>2. ASSUME NEW k \in 1 .. Len(cstack), cstack[k].kind = "c"
        PROVE  cstack[k].base \in 1 .. Len(frames) /\ frames[cstack[k].base].kind = "c"
    BY <2>2 DEF Shape, Frames
  <2> QED
    BY <1>2, <2>1, <2>2
<1>4. Last(cstack).kind = "c" => Depth = Last(cstack).base
  BY <1>1 DEF Shape, Tops
<1>5. InEel => Top.kind = "eel"
  BY <1>1 DEF Shape, Tops, InEel, Top
<1> QED
  BY <1>3, <1>4, <1>5 DEF StacksAgree

(***************************************************************************)
(* eel__scheduler unwinds the call frames, and eel_run's C callers return  *)
(* on their own: in programs without untry blocks the two never disagree.  *)
(* Every C function that still runs has its frame, and the one that        *)
(* continues after a call back into EEL, however that ended, finds the VM  *)
(* in it.                                                                  *)
(***************************************************************************)
THEOREM StacksAlwaysAgree == ~Untry => (Spec => []StacksAgree)
<1> SUFFICES ASSUME ~Untry
             PROVE  Spec => []StacksAgree
  OBVIOUS
<1>1. Spec => []Stacks
  BY Invariant
<1> QED
  BY <1>1, StacksGiveAgreement, PTL
\* The invariant implies it, as Home is a part of Frames.
LEMMA StacksGiveHomes == Stacks => ResultHome
<1> SUFFICES ASSUME Stacks
             PROVE  ResultHome
  OBVIOUS
<1>1. Home(frames) /\ DOMAIN frames = 1 .. Len(frames)
  BY LenProperties DEF Stacks, Shape, Frames
<1> QED
  BY <1>1 DEF ResultHome, Home, Around

(***************************************************************************)
(* The compiler gives TRY no result register: call_catcher, TRY and RETRY  *)
(* copy result indices from frame to frame.  However they nest and         *)
(* whatever was unwound, the index of a block is that of the function      *)
(* around it, and points to the frame that called it.                      *)
(***************************************************************************)
THEOREM ResultsGoHome == ~Untry => (Spec => []ResultHome)
<1> SUFFICES ASSUME ~Untry
             PROVE  Spec => []ResultHome
  OBVIOUS
<1>1. Spec => []Stacks
  BY Invariant
<1> QED
  BY <1>1, StacksGiveHomes, PTL

-----------------------------------------------------------------------------
(***************************************************************************)
(* No handler is passed over: the action property NoHandlerBypassed, from  *)
(* the invariant of the stacks.                                            *)
(***************************************************************************)
\* No try block from frame n on.
NoTry(fs, n) == \A i \in n .. Len(fs) : fs[i].block # "try"

-----------------------------------------------------------------------------
(* Counting loops. *)

\* No loop has ended when every one is still there.
LEMMA LoopsKept ==
    ASSUME NEW cs \in Seq(EntryType), NEW ds \in Seq(EntryType),
           \A k \in 1 .. Len(cs) : cs[k].kind = "run" =>
              k \in 1 .. Len(ds) /\ ds[k].kind = "run"
    PROVE  ~(Loops(ds) < Loops(cs))
<1> DEFINE S == {k \in DOMAIN cs : cs[k].kind = "run"}
           T == {k \in DOMAIN ds : ds[k].kind = "run"}
<1>1. /\ DOMAIN cs = 1 .. Len(cs) /\ DOMAIN ds = 1 .. Len(ds)
      /\ Len(cs) \in Nat /\ Len(ds) \in Nat
  BY LenProperties
<1>2. S \in SUBSET T /\ T \in SUBSET (1 .. Len(ds))
  BY <1>1
<1>3. IsFiniteSet(1 .. Len(ds))
  BY <1>1, FS_Interval
<1> HIDE DEF S, T
<1>4. IsFiniteSet(T)
  BY <1>2, <1>3, FS_Subset
<1>5. IsFiniteSet(S) /\ Cardinality(S) <= Cardinality(T)
  BY <1>2, <1>4, FS_Subset
<1>6. Cardinality(S) \in Nat /\ Cardinality(T) \in Nat
  BY <1>4, <1>5, FS_CardinalityType
<1>7. Loops(cs) = Cardinality(S) /\ Loops(ds) = Cardinality(T)
  BY DEF Loops, S, T
<1> QED
  BY <1>5, <1>6, <1>7

-----------------------------------------------------------------------------
(* The ways a loop ends. *)

\* eel_run gives up an exception only when it found no try block.
LEMMA ThrowBypassesNone ==
    ASSUME NEW fs, NEW cs, Shape(fs, cs), cs[Len(cs)].kind = "run",
           NEW r, NEW e \in Objs \cup Codes, Throw(cs, fs, r, e)
    PROVE  \/ cstack' = cs
           \/ exc' \in Objs \cup {"x"} => NoTry(fs, Last(cstack').base + 1)
<1> DEFINE b == cs[Len(cs) - 1].base
<1>1. /\ Len(fs) \in Nat /\ Len(cs) \in Nat /\ Len(cs) >= 2
      /\ b \in 1 .. Len(fs) - 1
  BY InsideRun
<1>2. cs \in Seq(EntryType)
  BY DEF Shape, Turns
<1>3. Stop(fs) = b
  BY StopIsBase
<1>4. CASE Tries(fs) # {} /\ e # "internal"
  BY <1>4 DEF Throw
<1>5. CASE e = "internal"
  <2>1. exc' = "internal"
    BY <1>5 DEF Throw
  <2>2. "internal" \notin Objs /\ "internal" # "x"
    BY ObjsAssumption DEF Codes
  <2> QED
    BY <2>1, <2>2
<1>6. CASE Tries(fs) = {} /\ e # "internal"
  <2> DEFINE err == IF e \in Objs THEN "x" ELSE e
             ds == [Front(cs) EXCEPT ![Len(cs) - 1].err = err]
  <2>1. cstack' = ds
    BY <1>6 DEF Throw, EndRun
  <2>2. err \in {"ok"} \cup Codes
    BY DEF Codes
  <2> HIDE DEF err
  <2>3. /\ ds \in Seq(EntryType) /\ Len(ds) = Len(cs) - 1
        /\ \A k \in 1 .. Len(ds) : ds[k].kind = cs[k].kind /\ ds[k].base = cs[k].base
    BY <1>1, <1>2, <2>2, EndOfRun
  <2> HIDE DEF ds
  <2>4. Last(cstack').base = b
    <3>1. Len(ds) \in 1 .. Len(ds) /\ Len(ds) = Len(cs) - 1
      BY <1>1, <2>3
    <3> QED
      BY <2>1, <2>3, <3>1 DEF Last
  <2>5. NoTry(fs, b + 1)
    BY <1>3, <1>6 DEF Tries, NoTry
  <2> QED
    BY <2>4, <2>5
<1> QED
  BY <1>4, <1>5, <1>6

\* An ordinary return ends a loop in the function it started with.
LEMMA ReturnBypassesNone ==
    ASSUME Shape(frames, cstack), RETURN
    PROVE  cstack' = cstack \/ NoTry(frames, Last(cstack').base + 1)
<1> DEFINE b == cstack[Len(cstack) - 1].base
<1>1. /\ InEel
      /\ \/ \E v \in Operands \cup {Nil} : Leave(Depth, Top.result, v, rc)
         \/ Leave(Depth, 0, Nil, rc)
  BY DEF RETURN
<1>2. PICK result, v : Leave(Depth, result, v, rc)
  BY <1>1
<1>3. /\ cstack[Len(cstack)].kind = "run"
      /\ Depth \in Nat /\ Len(cstack) \in Nat /\ Len(cstack) >= 2
      /\ b \in 1 .. Depth - 1 /\ frames[b + 1].block = "none"
      /\ \A i \in b + 1 .. Depth : frames[i].kind = "eel"
  BY <1>1, InLoop, InsideRun DEF Depth
<1>4. CASE frames[Depth - 1].kind # "c"
  BY <1>2, <1>4 DEF Leave
<1>5. CASE frames[Depth - 1].kind = "c"
  <2> DEFINE ds == [Front(cstack) EXCEPT ![Len(cstack) - 1].err = "ok"]
  <2>1. cstack' = ds
    BY <1>2, <1>5 DEF Leave, EndRun
  <2>2. /\ ds \in Seq(EntryType) /\ Len(ds) = Len(cstack) - 1
        /\ \A k \in 1 .. Len(ds) : ds[k].kind = cstack[k].kind /\ ds[k].base = cstack[k].base
    <3>1. cstack \in Seq(EntryType) /\ "ok" \in {"ok"} \cup Codes
      BY DEF Shape, Turns
    <3> QED
      BY <1>3, <3>1, EndOfRun
  <2> HIDE DEF ds
  <2>3. Last(cstack').base = b
    <3>1. Len(ds) \in 1 .. Len(ds) /\ Len(ds) = Len(cstack) - 1
      BY <1>3, <2>2
    <3> QED
      BY <2>1, <2>2, <3>1 DEF Last
  <2>4. b + 1 = Depth
    <3>1. ~(Depth - 1 \in b + 1 .. Depth)
      BY <1>3, <1>5
    <3> QED
      BY <1>3, <3>1
  <2>5. NoTry(frames, b + 1)
    BY <1>3, <2>4 DEF NoTry, Depth
  <2> QED
    BY <2>3, <2>5
<1> QED
  BY <1>4, <1>5

\* A call that failed: the exception goes on in the loop around it.
LEMMA FailBypassesNone ==
    ASSUME Shape(frames, cstack), FailC
    PROVE  \/ cstack' = Front(cstack)
           \/ exc' \in Objs \cup {"x"} => NoTry(frames, Last(cstack').base + 1)
<1> DEFINE low == Front(frames)
           kept == [low EXCEPT ![Depth - 1].args = << >>]
           cs == Front(cstack)
           e == IF Last(cstack).err = "ok" THEN "x" ELSE Last(cstack).err
           r == ClearArgs(ClearArgs(rc, Top.args), frames[Depth - 1].args)
<1>1. cstack[Len(cstack)].kind = "c" /\ Len(cstack) # 1
  BY DEF FailC, Host, Last
<1>2. /\ Len(frames) \in Nat /\ Len(frames) >= 2
      /\ Len(cstack) \in Nat /\ Len(cstack) >= 2
      /\ Shape(low, cs) /\ cstack[Len(cstack) - 1].kind = "run"
      /\ Len(low) = Len(frames) - 1 /\ Len(cs) = Len(cstack) - 1
  BY <1>1, PopC
<1>3. cstack \in Seq(EntryType) /\ frames \in Seq(FrameType)
  BY DEF Shape, Turns, Frames
<1>4. cs[Len(cs)].kind = "run"
  BY <1>2, <1>3 DEF Front
<1>5. \A i \in 1 .. Len(frames) - 1 : low[i] = frames[i]
  BY <1>2, <1>3 DEF Front
<1>6. e \in Objs \cup Codes
  <2>1. Last(cstack) \in EntryType
    BY <1>2, <1>3 DEF Last
  <2> QED
    BY <2>1 DEF EntryType, Codes
<1>7. Throw(cs, kept, r, e)
  BY DEF FailC
<1>8. frames[Len(frames)].block = "none"
  <2>1. Len(frames) \in 1 .. Len(frames) /\ Len(cstack) \in 1 .. Len(cstack)
    BY <1>2
  <2>2. frames[Len(frames)].kind = "c"
    BY <1>1, <2>1 DEF Shape, Frames, Tops
  <2> QED
    BY <2>1, <2>2 DEF Shape, Frames
<1> HIDE DEF low, cs, e, r
<1>9. Shape(kept, cs)
  <2>1. Nil \in Objs \cup {Nil}
    OBVIOUS
  <2> QED
    BY <1>2, <2>1, Landing
<1>10. Len(kept) = Len(low) /\ \A i \in 1 .. Len(low) : kept[i].block = low[i].block
  <2>1. low \in Seq(FrameType) /\ kept \in Seq(FrameType)
    BY <1>2, <1>9 DEF Shape, Frames
  <2>2. DOMAIN kept = DOMAIN low
    OBVIOUS
  <2>3. Len(kept) = Len(low)
    BY <2>1, <2>2, LenProperties
  <2>4. \A i \in 1 .. Len(low) : i \in DOMAIN low /\ low[i] \in FrameType
    BY <2>1
  <2>5. \A i \in 1 .. Len(low) : kept[i].block = low[i].block
    BY <2>4 DEF FrameType
  <2> QED
    BY <2>3, <2>5
<1> HIDE DEF kept
<1>11. \/ cstack' = cs
       \/ exc' \in Objs \cup {"x"} => NoTry(kept, Last(cstack').base + 1)
  BY <1>4, <1>6, <1>7, <1>9, ThrowBypassesNone
<1>12. ASSUME NEW n \in Nat, NoTry(kept, n + 1)
       PROVE  NoTry(frames, n + 1)
  <2> SUFFICES ASSUME NEW i \in n + 1 .. Len(frames)
               PROVE  frames[i].block # "try"
    BY DEF NoTry
  <2>1. CASE i = Len(frames)
    BY <1>8, <2>1
  <2>2. CASE i # Len(frames)
    <3>1. i \in n + 1 .. Len(kept) /\ i \in 1 .. Len(low) /\ i \in 1 .. Len(frames) - 1
      BY <1>2, <1>10, <2>2
    <3> QED
      BY <1>5, <1>10, <1>12, <3>1 DEF NoTry
  <2> QED
    BY <2>1, <2>2
<1>13. Last(cstack').base \in Nat
  <2>1. Shape(frames', cstack')
    BY ReturnCStep
  <2>2. cstack' \in Seq(EntryType) /\ cstack' # << >>
    BY <2>1 DEF Shape, Turns
  <2>3. Last(cstack') \in EntryType
    BY <2>2, EmptySeq DEF Last
  <2> QED
    BY <2>3 DEF EntryType
<1> QED
  BY <1>11, <1>12, <1>13 DEF cs

-----------------------------------------------------------------------------
Bypassed ==
    Loops(cstack') < Loops(cstack) /\ exc' \in Objs \cup {"x"}
        /\ ~NoTry(frames, Last(cstack').base + 1)

LEMMA StepBypassesNone == Stacks /\ [Next]_vars /\ ~Untry => ~Bypassed
<1> SUFFICES ASSUME Stacks, [Next]_vars, ~Untry, Bypassed
             PROVE  FALSE
  OBVIOUS
<1>1. Shape(frames, cstack) /\ cstack \in Seq(EntryType)
  BY DEF Stacks, Shape, Turns
<1>2. Shape(frames', cstack') /\ cstack' \in Seq(EntryType)
  <2>1. Shape(frames', cstack')
    BY <1>1, StepShape
  <2> QED
    BY <2>1 DEF Shape, Turns
<1>3. ~ \A k \in 1 .. Len(cstack) : cstack[k].kind = "run" =>
            k \in 1 .. Len(cstack') /\ cstack'[k].kind = "run"
  BY <1>1, <1>2, LoopsKept DEF Bypassed
<1>4. cstack' # cstack
  BY <1>3
<1>5. CASE call_c
  <2>1. PICK c : cstack' = Append(cstack, c)
    BY <1>5 DEF call_c
  <2> QED
    BY <1>1, <1>3, <2>1
<1>6. CASE eel_callf
  <2>1. PICK c : cstack' = Append([cstack EXCEPT ![Len(cstack)].err = "ok"], c)
    BY <1>6 DEF eel_callf
  <2> DEFINE ds == [cstack EXCEPT ![Len(cstack)].err = "ok"]
  <2>2. Len(ds) = Len(cstack) /\ \A k \in 1 .. Len(cstack) : ds[k].kind = cstack[k].kind
    <3>1. \A k \in 1 .. Len(cstack) : cstack[k] \in EntryType
      BY <1>1
    <3> QED
      BY <1>1, <3>1 DEF EntryType
  <2> QED
    BY <1>1, <1>2, <1>3, <2>1, <2>2
<1>7. CASE RETURN
  BY <1>1, <1>4, <1>7, ReturnBypassesNone DEF Bypassed
<1>8. CASE RETX
  <2>1. exc' = "return"
    BY <1>8 DEF RETX
  <2>2. "return" \notin Objs
    BY ObjsAssumption
  <2> QED
    BY <2>1, <2>2 DEF Bypassed
<1>9. CASE THROW \/ Fault
  <2>1. cstack[Len(cstack)].kind = "run" /\ Operands \subseteq Objs
    BY <1>1, <1>9, TopFrame DEF THROW, Fault, InEel, Last
  <2>2. PICK e \in Objs \cup Codes : Throw(cstack, frames, rc, e)
    BY <1>9, <2>1 DEF THROW, Fault
  <2> QED
    BY <1>1, <1>4, <2>1, <2>2, ThrowBypassesNone DEF Bypassed
<1>10. cstack' # Front(cstack) \/ ~(ReturnC \/ FailC)
  <2> SUFFICES ASSUME cstack' = Front(cstack), ReturnC \/ FailC
               PROVE  FALSE
    OBVIOUS
  <2>1. cstack[Len(cstack)].kind = "c" /\ Len(cstack) \in Nat \ {0}
    BY <1>1, TopFrame DEF ReturnC, FailC, InC, Last
  <2>2. /\ Len(cstack') = Len(cstack) - 1
        /\ \A k \in 1 .. Len(cstack) - 1 : cstack'[k] = cstack[k]
    <3> DEFINE n == Len(cstack) - 1
               ds == SubSeq(cstack, 1, n)
    <3>1. cstack' = ds
      BY DEF Front
    <3>2. n \in Nat /\ \A k \in 1 .. n : cstack[k] \in EntryType
      BY <1>1, <2>1
    <3>3. Len(ds) = n /\ \A k \in 1 .. n : ds[k] = cstack[k]
      <4> HIDE DEF n
      <4> QED
        BY <3>2, SubSeqProperties
    <3> QED
      BY <3>1, <3>3
  <2>3. \A k \in 1 .. Len(cstack) : cstack[k].kind = "run" => k \in 1 .. Len(cstack) - 1
    BY <2>1
  <2> QED
    BY <1>3, <2>2, <2>3
<1>11. ~ReturnC
  BY <1>10 DEF ReturnC
<1>12. CASE FailC
  BY <1>1, <1>10, <1>12, FailBypassesNone DEF Bypassed
<1>13. ~UNCHANGED vars
  BY <1>4 DEF vars
<1>14. ~(INEW \/ GETVAR \/ GETUVAL \/ SETVAR \/ SETUVAL \/ INIT \/ ASSIGN \/ CLEAN \/ PUSH)
  BY <1>4 DEF INEW, GETVAR, GETUVAL, Get, SETVAR, SETUVAL, INIT, ASSIGN, CLEAN, PUSH
<1>15. ~(CALL \/ TRY \/ UNTRY \/ RETRY \/ Drop)
  BY <1>4 DEF CALL, TRY, UNTRY, RETRY, Drop
<1> QED
  BY <1>5, <1>6, <1>7, <1>8, <1>9, <1>11, <1>12, <1>13, <1>14, <1>15
     DEF Next, Instruction, CFunction

(***************************************************************************)
(* eel__scheduler: through any nesting of callbacks, try and except blocks *)
(* and functions, a C function is given the code of an exception only when *)
(* no try block was active in the frames of the loop it called.            *)
(***************************************************************************)
THEOREM HandlersAreFound == ~Untry => (Spec => NoHandlerBypassed)
<1> SUFFICES ASSUME ~Untry
             PROVE  Spec => NoHandlerBypassed
  OBVIOUS
<1>1. Spec => []Stacks
  BY Invariant
<1> DEFINE A == Loops(cstack') < Loops(cstack) /\ exc' \in Objs \cup {"x"}
                   => \A i \in Last(cstack').base + 1 .. Depth :
                         frames[i].block = "try"
                            => \E j \in i + 1 .. Depth : frames[j].block = "untry"
<1>2. Stacks /\ [Next]_vars => A
  BY StepBypassesNone DEF Bypassed, NoTry, Depth
<1>3. Stacks /\ [Next]_vars => [A]_vars
  BY <1>2
<1>4. NoHandlerBypassed <=> [][A]_vars
  BY DEF NoHandlerBypassed
<1> HIDE DEF A
<1> QED
  BY <1>1, <1>3, <1>4, PTL DEF Spec

-----------------------------------------------------------------------------
(* Reference counts and limbo lists: first what counting and adding up do, *)
(* then what each step does to the counts.  Sums.                           *)

\* The set whose members SumOf counts.
Pairs(h) == UNION {{i} \X (1 .. h[i]) : i \in DOMAIN h}

LEMMA SumFinite ==
    ASSUME NEW D, IsFiniteSet(D), NEW h \in [D -> Nat]
    PROVE  IsFiniteSet(Pairs(h)) /\ SumOf(h) = Cardinality(Pairs(h)) /\ SumOf(h) \in Nat
<1> DEFINE T == {{i} \X (1 .. h[i]) : i \in D}
           f == [i \in D |-> {i} \X (1 .. h[i])]
<1>1. f \in Surjection(D, T)
  BY DEF Surjection
<1>2. IsFiniteSet(T)
  <2> HIDE DEF f, T
  <2> QED
    BY <1>1, FS_Surjection
<1>3. ASSUME NEW i \in D
      PROVE  IsFiniteSet({i} \X (1 .. h[i]))
  <2>0. 1 \in Int /\ h[i] \in Int
    OBVIOUS
  <2>1. IsFiniteSet({i}) /\ IsFiniteSet(1 .. h[i])
    BY <2>0, FS_Singleton, FS_Interval
  <2> QED
    BY <2>1, FS_Product
<1>4. \A t \in T : IsFiniteSet(t)
  BY <1>3
<1>5. Pairs(h) = UNION T
  BY DEF Pairs
<1> HIDE DEF T
<1>6. IsFiniteSet(Pairs(h))
  BY <1>2, <1>4, <1>5, FS_UNION
<1>7. SumOf(h) = Cardinality(Pairs(h))
  BY DEF SumOf, Pairs
<1> QED
  BY <1>6, <1>7, FS_CardinalityType

\* The sum over two disjoint sets.
Part(k, D) == [i \in D |-> k[i]]

LEMMA SumSplit ==
    ASSUME NEW D, NEW E, IsFiniteSet(D), IsFiniteSet(E), D \cap E = {},
           NEW k \in [D \cup E -> Nat]
    PROVE  /\ SumOf(k) = SumOf(Part(k, D)) + SumOf(Part(k, E))
           /\ SumOf(Part(k, D)) \in Nat /\ SumOf(Part(k, E)) \in Nat
<1> DEFINE h == [i \in D |-> k[i]]
           g == [i \in E |-> k[i]]
<1>1. IsFiniteSet(D \cup E) /\ h \in [D -> Nat] /\ g \in [E -> Nat]
  BY FS_Union
<1>2. Pairs(k) = Pairs(h) \cup Pairs(g)
  BY DEF Pairs
<1>3. Pairs(h) \cap Pairs(g) = {}
  BY DEF Pairs
<1> HIDE DEF h, g
<1>4. /\ IsFiniteSet(Pairs(h)) /\ SumOf(h) = Cardinality(Pairs(h)) /\ SumOf(h) \in Nat
      /\ IsFiniteSet(Pairs(g)) /\ SumOf(g) = Cardinality(Pairs(g)) /\ SumOf(g) \in Nat
      /\ SumOf(k) = Cardinality(Pairs(k))
  BY <1>1, SumFinite
<1>5. Cardinality(Pairs(h) \cap Pairs(g)) = 0
  BY <1>3, FS_EmptySet
<1>6. Cardinality(Pairs(h) \cup Pairs(g))
        = Cardinality(Pairs(h)) + Cardinality(Pairs(g)) - Cardinality(Pairs(h) \cap Pairs(g))
  BY <1>4, FS_Union
<1>7. SumOf(k) = SumOf(h) + SumOf(g)
  BY <1>2, <1>4, <1>5, <1>6
<1> QED
  BY <1>4, <1>7 DEF h, g, Part

LEMMA SumSingle ==
    ASSUME NEW x, NEW h \in [{x} -> Nat]
    PROVE  SumOf(h) = h[x]
<1>1. Pairs(h) = {x} \X (1 .. h[x])
  BY DEF Pairs
<1>2. h[x] \in Nat
  OBVIOUS
<1>3. /\ IsFiniteSet({x}) /\ Cardinality({x}) = 1
      /\ IsFiniteSet(1 .. h[x]) /\ Cardinality(1 .. h[x]) = h[x]
  <2>0. 1 \in Int /\ h[x] \in Int
    BY <1>2
  <2>1. Cardinality(1 .. h[x]) = IF 1 > h[x] THEN 0 ELSE h[x] - 1 + 1
    BY <2>0, FS_Interval
  <2>2. Cardinality(1 .. h[x]) = h[x]
    BY <1>2, <2>1
  <2>3. IsFiniteSet(1 .. h[x])
    BY <2>0, FS_Interval
  <2> QED
    BY <2>2, <2>3, FS_Singleton
<1>4. Cardinality({x} \X (1 .. h[x])) = Cardinality({x}) * Cardinality(1 .. h[x])
  BY <1>3, FS_Product
<1>5. 1 * h[x] = h[x]
  BY <1>2
<1> QED
  BY <1>1, <1>3, <1>4, <1>5, SumFinite

LEMMA SumEmpty ==
    ASSUME NEW h, DOMAIN h = {}
    PROVE  SumOf(h) = 0
BY FS_EmptySet DEF SumOf

-----------------------------------------------------------------------------
(* How often an object is in a sequence. *)

One(v, o) == IF v = o THEN 1 ELSE 0

\* Where it is.
Places(s, o) == {i \in DOMAIN s : s[i] = o}

LEMMA CountNat ==
    ASSUME NEW s \in Seq(Objs), NEW o
    PROVE  /\ IsFiniteSet(Places(s, o)) /\ Count(s, o) = Cardinality(Places(s, o))
           /\ Count(s, o) \in Nat
           /\ Count(s, o) = 0 <=> o \notin Range(s)
<1>1. Len(s) \in Int /\ 1 \in Int /\ DOMAIN s = 1 .. Len(s)
  OBVIOUS
<1>2. IsFiniteSet(DOMAIN s)
  BY <1>1, FS_Interval
<1>3. Places(s, o) \in SUBSET DOMAIN s
  BY DEF Places
<1>4. IsFiniteSet(Places(s, o))
  BY <1>2, <1>3, FS_Subset
<1>5. Count(s, o) = Cardinality(Places(s, o))
  BY DEF Count, Places
<1>6. Places(s, o) = {} <=> o \notin Range(s)
  BY DEF Places, Range
<1> QED
  BY <1>4, <1>5, <1>6, FS_CardinalityType, FS_EmptySet

LEMMA CountEmpty == \A o : Count(<< >>, o) = 0
BY FS_EmptySet DEF Count

LEMMA CountAppend ==
    ASSUME NEW s \in Seq(Objs), NEW v \in Objs, NEW o
    PROVE  /\ Append(s, v) \in Seq(Objs)
           /\ Count(Append(s, v), o) = Count(s, o) + One(v, o)
<1> DEFINE t == Append(s, v)
           n == Len(s) + 1
<1>1. /\ t \in Seq(Objs) /\ DOMAIN t = DOMAIN s \cup {n} /\ n \notin DOMAIN s
      /\ t[n] = v /\ \A i \in DOMAIN s : t[i] = s[i]
  BY AppendProperties
<1> HIDE DEF t, n
<1>2. Places(t, o) = IF v = o THEN Places(s, o) \cup {n} ELSE Places(s, o)
  BY <1>1 DEF Places
<1>3. n \notin Places(s, o)
  BY <1>1 DEF Places
<1>4. /\ IsFiniteSet(Places(s, o)) /\ Count(s, o) = Cardinality(Places(s, o)) /\ Count(s, o) \in Nat
      /\ Count(t, o) = Cardinality(Places(t, o))
  BY <1>1, CountNat
<1>5. Cardinality(Places(s, o) \cup {n}) = Cardinality(Places(s, o)) + 1
  BY <1>3, <1>4, FS_AddElement
<1> QED
  BY <1>1, <1>2, <1>4, <1>5 DEF One, t

LEMMA CountOne ==
    ASSUME NEW v \in Objs, NEW o
    PROVE  << v >> \in Seq(Objs) /\ Count(<< v >>, o) = One(v, o)
<1>1. << v >> = Append(<< >>, v) /\ << >> \in Seq(Objs)
  OBVIOUS
<1>2. Count(Append(<< >>, v), o) = Count(<< >>, o) + One(v, o)
  BY <1>1, CountAppend
<1>3. Count(<< >>, o) = 0
  BY CountEmpty
<1> QED
  BY <1>1, <1>2, <1>3 DEF One

LEMMA CountExcept ==
    ASSUME NEW s \in Seq(Objs), NEW i \in DOMAIN s, NEW v \in Objs, NEW o
    PROVE  /\ [s EXCEPT ![i] = v] \in Seq(Objs)
           /\ Count([s EXCEPT ![i] = v], o) = Count(s, o) - One(s[i], o) + One(v, o)
<1> DEFINE t == [s EXCEPT ![i] = v]
           rest == Places(s, o) \ {i}
<1>1. /\ t \in Seq(Objs) /\ DOMAIN t = DOMAIN s /\ t[i] = v
      /\ \A j \in DOMAIN s \ {i} : t[j] = s[j]
  BY ExceptSeq
<1> HIDE DEF t
<1>2. /\ IsFiniteSet(Places(s, o)) /\ Count(s, o) = Cardinality(Places(s, o)) /\ Count(s, o) \in Nat
      /\ Count(t, o) = Cardinality(Places(t, o))
  BY <1>1, CountNat
<1>3. /\ IsFiniteSet(rest) /\ Cardinality(rest) = IF i \in Places(s, o) THEN Count(s, o) - 1 ELSE Count(s, o)
  BY <1>2, FS_RemoveElement
<1>4. Places(t, o) = IF v = o THEN rest \cup {i} ELSE rest
  BY <1>1 DEF Places
<1>5. i \in Places(s, o) <=> s[i] = o
  BY DEF Places
<1> HIDE DEF rest
<1>6. i \notin rest
  BY DEF rest
<1>7. Cardinality(rest \cup {i}) = Cardinality(rest) + 1
  BY <1>3, <1>6, FS_AddElement
<1> QED
  BY <1>1, <1>2, <1>3, <1>4, <1>5, <1>7 DEF One, t

\* CLEAN: what is counted is in the part that goes or in the part that stays.
LEMMA CountCut ==
    ASSUME NEW s \in Seq(Objs), NEW n \in 0 .. Len(s), NEW o
    PROVE  /\ SubSeq(s, 1, n) \in Seq(Objs) /\ SubSeq(s, n + 1, Len(s)) \in Seq(Objs)
           /\ Count(s, o) = Count(SubSeq(s, 1, n), o) + Count(SubSeq(s, n + 1, Len(s)), o)
<1> DEFINE low == SubSeq(s, 1, n)
           high == SubSeq(s, n + 1, Len(s))
           up == {i \in n + 1 .. Len(s) : s[i] = o}
           f == [i \in Places(high, o) |-> i + n]
<1>1. Len(s) \in Nat /\ n \in Nat /\ n <= Len(s) /\ \A i \in 1 .. Len(s) : s[i] \in Objs
  OBVIOUS
<1>2. /\ low \in Seq(Objs) /\ DOMAIN low = 1 .. n /\ \A i \in 1 .. n : low[i] = s[i]
  BY <1>1, SubSeqProperties
<1>3. /\ high \in Seq(Objs) /\ DOMAIN high = 1 .. Len(s) - n
      /\ \A i \in 1 .. Len(s) - n : high[i] = s[i + n]
  BY <1>1, SubSeqProperties
<1> HIDE DEF low, high
<1>4. Places(s, o) = Places(low, o) \cup up /\ Places(low, o) \cap up = {}
  <2>0. DOMAIN s = 1 .. Len(s)
    OBVIOUS
  <2>1. \A i : i \in DOMAIN s <=> i \in 1 .. n \/ i \in n + 1 .. Len(s)
    BY <1>1, <2>0
  <2> QED
    BY <1>1, <1>2, <2>1 DEF Places
<1>5. f \in Bijection(Places(high, o), up)
  <2>1. \A i \in Places(high, o) : i \in 1 .. Len(s) - n /\ s[i + n] = o
    BY <1>3 DEF Places
  <2>2. \A i \in Places(high, o) : i + n \in n + 1 .. Len(s)
    BY <1>1, <2>1
  <2>3. f \in [Places(high, o) -> up]
    BY <2>1, <2>2
  <2>4. \A i, j \in Places(high, o) : f[i] = f[j] => i = j
    BY <1>1, <2>1
  <2>5. ASSUME NEW k \in up
        PROVE  \E i \in Places(high, o) : f[i] = k
    <3>1. k - n \in 1 .. Len(s) - n /\ (k - n) + n = k /\ s[k] = o
      BY <1>1
    <3>2. k - n \in Places(high, o)
      BY <1>3, <3>1 DEF Places
    <3> QED
      BY <3>1, <3>2
  <2> HIDE DEF f, up
  <2>6. f \in Injection(Places(high, o), up)
    BY <2>3, <2>4 DEF Injection, IsInjective
  <2>7. f \in Surjection(Places(high, o), up)
    BY <2>3, <2>5 DEF Surjection
  <2> QED
    BY <2>6, <2>7 DEF Bijection
<1>6. /\ IsFiniteSet(Places(high, o)) /\ Count(high, o) = Cardinality(Places(high, o))
      /\ IsFiniteSet(Places(low, o)) /\ Count(low, o) = Cardinality(Places(low, o))
      /\ Count(low, o) \in Nat /\ Count(high, o) \in Nat
      /\ Count(s, o) = Cardinality(Places(s, o))
  BY <1>2, <1>3, CountNat
<1> HIDE DEF f, up
<1>7. IsFiniteSet(up) /\ Cardinality(up) = Count(high, o)
  BY <1>5, <1>6, FS_Bijection DEF ExistsBijection
<1>8. Cardinality(Places(low, o) \cup up)
        = Cardinality(Places(low, o)) + Cardinality(up) - Cardinality(Places(low, o) \cap up)
  BY <1>6, <1>7, FS_Union
<1>9. Cardinality(Places(low, o) \cap up) = 0
  BY <1>4, FS_EmptySet
<1>10. Count(s, o) = Count(low, o) + Count(high, o)
  BY <1>4, <1>6, <1>7, <1>8, <1>9
<1> QED
  BY <1>2, <1>3, <1>10 DEF low, high

-----------------------------------------------------------------------------
(* What frames own. *)

\* The references a frame owns, with R[0] of a C function's.
Weight(f, o) == Held(f, o) + InR0(f, o)

LEMMA InSingle == \A v, o : Cardinality({v} \cap {o}) = One(v, o)
<1> SUFFICES ASSUME NEW v, NEW o
             PROVE  Cardinality({v} \cap {o}) = One(v, o)
  OBVIOUS
<1>1. v = o => {v} \cap {o} = {o}
  OBVIOUS
<1>2. v # o => {v} \cap {o} = {}
  OBVIOUS
<1> QED
  BY <1>1, <1>2, FS_EmptySet, FS_Singleton DEF One

LEMMA WeightParts ==
    ASSUME NEW f \in FrameType, NEW o \in Objs
    PROVE  /\ Held(f, o) \in Nat /\ Weight(f, o) \in Nat
           /\ Count(f.vars, o) \in Nat /\ Count(f.args, o) \in Nat
           /\ Held(f, o) = Count(f.vars, o) + Count(f.args, o) + (IF o \in f.limbo THEN 1 ELSE 0)
           /\ Weight(f, o) = Held(f, o) + (IF f.kind = "c" THEN One(f.tmp, o) ELSE 0)
<1>1. Count(f.vars, o) \in Nat /\ Count(f.args, o) \in Nat
  BY FrameParts, CountNat
<1>2. Cardinality(f.limbo \cap {o}) = IF o \in f.limbo THEN 1 ELSE 0
  <2>1. o \in f.limbo => f.limbo \cap {o} = {o}
    OBVIOUS
  <2>2. o \notin f.limbo => f.limbo \cap {o} = {}
    OBVIOUS
  <2> QED
    BY <2>1, <2>2, FS_EmptySet, FS_Singleton
<1>3. InR0(f, o) = IF f.kind = "c" THEN One(f.tmp, o) ELSE 0
  <2> DEFINE S == {v \in {f.tmp} : f.kind = "c" /\ v = o}
  <2>1. f.kind = "c" /\ f.tmp = o => S = {o}
    OBVIOUS
  <2>2. ~(f.kind = "c" /\ f.tmp = o) => S = {}
    OBVIOUS
  <2>3. Cardinality(S) = IF f.kind = "c" /\ f.tmp = o THEN 1 ELSE 0
    <3> HIDE DEF S
    <3> QED
      BY <2>1, <2>2, FS_EmptySet, FS_Singleton
  <2> QED
    BY <2>3 DEF InR0, One
<1> QED
  BY <1>1, <1>2, <1>3 DEF Weight, Held, One

LEMMA WeightEel ==
    ASSUME NEW f \in FrameType, f.kind = "eel", NEW o \in Objs
    PROVE  Weight(f, o) = Held(f, o) /\ Held(f, o) \in Nat
<1>1. Held(f, o) \in Nat /\ Weight(f, o) = Held(f, o) + (IF f.kind = "c" THEN One(f.tmp, o) ELSE 0)
  BY WeightParts
<1>2. f.kind # "c"
  OBVIOUS
<1> QED
  BY <1>1, <1>2

\* A frame owns nothing at first.
LEMMA WeightNew ==
    ASSUME NEW kind \in {"eel", "c"}, NEW block \in {"none", "try", "catch"},
           NEW result \in 0 .. MaxFrames, NEW o \in Objs
    PROVE  /\ Frame(kind, block, result).vars = << >> /\ Frame(kind, block, result).args = << >>
           /\ Frame(kind, block, result).limbo = {} /\ Frame(kind, block, result).tmp = Nil
           /\ Weight(Frame(kind, block, result), o) = 0
<1> DEFINE f == Frame(kind, block, result)
<1>1. /\ f.vars = << >> /\ f.args = << >> /\ f.limbo = {} /\ f.tmp = Nil
  BY DEF Frame
<1>2. f \in FrameType
  BY NewFrame
<1>3. o # Nil
  BY ObjsAssumption
<1> HIDE DEF f
<1>4. Count(f.vars, o) = 0 /\ Count(f.args, o) = 0
  BY <1>1, CountEmpty
<1>5. Weight(f, o) = 0
  BY <1>1, <1>2, <1>3, <1>4, WeightParts DEF One
<1> QED
  BY <1>1, <1>5 DEF f

\* What all frames but one own.
Rest(fs, i, o) == SumOf([j \in DOMAIN fs \ {i} |-> Weight(fs[j], o)])

LEMMA OwnersRest ==
    ASSUME NEW fs \in Seq(FrameType), NEW i \in 1 .. Len(fs), NEW o \in Objs
    PROVE  Owners(fs, o) = Rest(fs, i, o) + Weight(fs[i], o) /\ Rest(fs, i, o) \in Nat
<1> DEFINE D == DOMAIN fs \ {i}
           h == [j \in D |-> Weight(fs[j], o)]
           g == [j \in {i} |-> Weight(fs[j], o)]
           k == [j \in DOMAIN fs |-> Weight(fs[j], o)]
<1>1. /\ i \in DOMAIN fs /\ \A j \in DOMAIN fs : fs[j] \in FrameType
      /\ DOMAIN fs = 1 .. Len(fs) /\ 1 \in Int /\ Len(fs) \in Int
  OBVIOUS
<1>2. \A j \in DOMAIN fs : Weight(fs[j], o) \in Nat
  BY <1>1, WeightParts
<1>3. h \in [D -> Nat] /\ g \in [{i} -> Nat] /\ k \in [D \cup {i} -> Nat]
  <2>1. D \cup {i} = DOMAIN fs
    BY <1>1
  <2> QED
    BY <1>1, <1>2, <2>1
<1>4. IsFiniteSet(D) /\ IsFiniteSet({i}) /\ D \cap {i} = {}
  <2>1. IsFiniteSet(DOMAIN fs)
    BY <1>1, FS_Interval
  <2> QED
    BY <2>1, FS_RemoveElement, FS_Singleton
<1>5. h = Part(k, D) /\ g = Part(k, {i}) /\ g[i] = Weight(fs[i], o)
  BY <1>1 DEF Part
<1>6. SumOf(k) = Owners(fs, o)
  BY DEF Owners, Weight
<1>7. SumOf(h) = Rest(fs, i, o)
  BY DEF Rest
<1> HIDE DEF D, h, g, k
<1>8. SumOf(k) = SumOf(h) + SumOf(g) /\ SumOf(h) \in Nat
  BY ZenonT(40), <1>3, <1>4, <1>5, SumSplit
<1>9. SumOf(g) = g[i]
  BY <1>3, SumSingle
<1> QED
  BY <1>5, <1>6, <1>7, <1>8, <1>9

LEMMA OwnersNat ==
    ASSUME NEW fs \in Seq(FrameType), NEW o \in Objs
    PROVE  Owners(fs, o) \in Nat
<1>1. DOMAIN fs = 1 .. Len(fs) /\ 1 \in Int /\ Len(fs) \in Int /\ \A j \in DOMAIN fs : fs[j] \in FrameType
  OBVIOUS
<1>2. IsFiniteSet(DOMAIN fs)
  BY <1>1, FS_Interval
<1>3. [j \in DOMAIN fs |-> Weight(fs[j], o)] \in [DOMAIN fs -> Nat]
  BY <1>1, WeightParts
<1>4. SumOf([j \in DOMAIN fs |-> Weight(fs[j], o)]) \in Nat
  BY <1>2, <1>3, SumFinite
<1> QED
  BY <1>4 DEF Owners, Weight

\* One frame changes.
LEMMA OwnersExcept ==
    ASSUME NEW fs \in Seq(FrameType), NEW i \in 1 .. Len(fs), NEW f \in FrameType, NEW o \in Objs
    PROVE  /\ [fs EXCEPT ![i] = f] \in Seq(FrameType)
           /\ Owners(fs, o) >= Weight(fs[i], o)
           /\ Owners([fs EXCEPT ![i] = f], o) = Owners(fs, o) - Weight(fs[i], o) + Weight(f, o)
<1> DEFINE gs == [fs EXCEPT ![i] = f]
<1>1. /\ gs \in Seq(FrameType) /\ DOMAIN gs = DOMAIN fs /\ Len(gs) = Len(fs) /\ gs[i] = f
      /\ \A j \in DOMAIN fs \ {i} : gs[j] = fs[j]
  BY ExceptSeq
<1> HIDE DEF gs
<1>2. Rest(gs, i, o) = Rest(fs, i, o)
  <2>1. [j \in DOMAIN gs \ {i} |-> Weight(gs[j], o)] = [j \in DOMAIN fs \ {i} |-> Weight(fs[j], o)]
    BY <1>1
  <2> QED
    BY <2>1 DEF Rest
<1>3. Owners(fs, o) = Rest(fs, i, o) + Weight(fs[i], o) /\ Rest(fs, i, o) \in Nat
  BY OwnersRest
<1>4. Owners(gs, o) = Rest(gs, i, o) + Weight(gs[i], o)
  BY <1>1, OwnersRest
<1>5. Weight(fs[i], o) \in Nat /\ Weight(f, o) \in Nat
  <2>1. fs[i] \in FrameType
    OBVIOUS
  <2> QED
    BY <2>1, WeightParts
<1>6. Owners(gs, o) = Owners(fs, o) - Weight(fs[i], o) + Weight(f, o)
  BY <1>1, <1>2, <1>3, <1>4, <1>5
<1> QED
  BY <1>1, <1>3, <1>5, <1>6 DEF gs

\* Two frames own at least what each of them does.
LEMMA OwnersTwo ==
    ASSUME NEW fs \in Seq(FrameType), NEW i \in 1 .. Len(fs), NEW j \in 1 .. Len(fs), i # j,
           NEW o \in Objs
    PROVE  Owners(fs, o) >= Weight(fs[i], o) + Weight(fs[j], o)
<1> DEFINE f == Frame("eel", "none", 0)
           gs == [fs EXCEPT ![i] = f]
<1>1. f \in FrameType /\ Weight(f, o) = 0
  <2>1. 0 \in 0 .. MaxFrames
    BY BoundsAssumption
  <2> QED
    BY <2>1, NewFrame, WeightNew
<1> HIDE DEF f
<1>2. gs \in Seq(FrameType) /\ Owners(gs, o) = Owners(fs, o) - Weight(fs[i], o) + Weight(f, o)
  BY <1>1, OwnersExcept
<1>3. Len(gs) = Len(fs) /\ gs[j] = fs[j]
  BY <1>1, ExceptSeq
<1> HIDE DEF gs
<1>4. gs[j] \in FrameType /\ j \in 1 .. Len(gs)
  BY <1>2, <1>3
<1>5. Owners(gs, o) >= Weight(gs[j], o)
  BY <1>2, <1>4, OwnersExcept
<1>6. /\ Owners(gs, o) \in Nat /\ Owners(fs, o) \in Nat
      /\ Weight(fs[i], o) \in Nat /\ Weight(fs[j], o) \in Nat
  <2>1. fs[i] \in FrameType /\ fs[j] \in FrameType
    OBVIOUS
  <2> QED
    BY <1>2, <2>1, OwnersNat, WeightParts
<1> QED
  BY <1>1, <1>2, <1>3, <1>5, <1>6

\* A frame is made.
LEMMA OwnersAppend ==
    ASSUME NEW fs \in Seq(FrameType), NEW f \in FrameType, NEW o \in Objs
    PROVE  Owners(Append(fs, f), o) = Owners(fs, o) + Weight(f, o)
<1> DEFINE gs == Append(fs, f)
           n == Len(fs) + 1
<1>1. /\ gs \in Seq(FrameType) /\ Len(gs) = n /\ gs[n] = f /\ n \in 1 .. Len(gs)
      /\ DOMAIN gs \ {n} = DOMAIN fs /\ \A i \in DOMAIN fs : gs[i] = fs[i]
  <2>1. gs \in Seq(FrameType) /\ Len(gs) = n /\ gs[n] = f /\ \A i \in 1 .. Len(fs) : gs[i] = fs[i]
    BY AppendProperties
  <2>2. DOMAIN fs = 1 .. Len(fs) /\ DOMAIN gs = 1 .. Len(gs) /\ Len(fs) \in Nat
    BY <2>1
  <2> HIDE DEF gs
  <2>3. n \in 1 .. Len(gs) /\ DOMAIN gs \ {n} = DOMAIN fs
    BY <2>1, <2>2
  <2> QED
    BY <2>1, <2>2, <2>3
<1> HIDE DEF gs, n
<1>2. Owners(gs, o) = Rest(gs, n, o) + Weight(gs[n], o)
  BY <1>1, OwnersRest
<1>3. [j \in DOMAIN gs \ {n} |-> Weight(gs[j], o)] = [j \in DOMAIN fs |-> Weight(fs[j], o)]
  BY <1>1
<1>4. Rest(gs, n, o) = Owners(fs, o)
  BY <1>3 DEF Rest, Owners, Weight
<1> QED
  BY <1>1, <1>2, <1>4 DEF gs

\* EEL frames go: unwind drops what they own.
LEMMA OwnersCut ==
    ASSUME NEW fs \in Seq(FrameType), NEW n \in 0 .. Len(fs), NEW o \in Objs, NEW r,
           \A i \in n + 1 .. Len(fs) : fs[i].kind = "eel"
    PROVE  /\ SubSeq(fs, 1, n) \in Seq(FrameType)
           /\ Release(r, fs, n + 1)[o] = r[o] - (Owners(fs, o) - Owners(SubSeq(fs, 1, n), o))
<1> DEFINE low == SubSeq(fs, 1, n)
           D == 1 .. n
           E == n + 1 .. Len(fs)
           h == [i \in D |-> Weight(low[i], o)]
           g == [i \in E |-> Held(fs[i], o)]
           k == [i \in DOMAIN fs |-> Weight(fs[i], o)]
<1>1. /\ Len(fs) \in Int /\ n \in Int /\ n + 1 \in Int /\ 1 \in Int
      /\ \A i \in 1 .. Len(fs) : fs[i] \in FrameType
      /\ DOMAIN fs = D \cup E /\ D \cap E = {}
  <2>1. DOMAIN fs = 1 .. Len(fs) /\ Len(fs) \in Nat
    OBVIOUS
  <2>2. \A i : i \in DOMAIN fs <=> i \in D \/ i \in E
    BY <2>1
  <2> QED
    BY <2>1, <2>2
<1>2. low \in Seq(FrameType) /\ DOMAIN low = D /\ \A i \in D : low[i] = fs[i]
  BY <1>1, SubSeqProperties
<1>3. \A i \in D \cup E : fs[i] \in FrameType
  BY <1>1
<1> HIDE DEF low, D, E
<1>4. h \in [D -> Nat] /\ k \in [D \cup E -> Nat] /\ g \in [E -> Nat]
  BY <1>1, <1>2, <1>3, WeightParts
<1>5. h = Part(k, D)
  BY <1>1, <1>2 DEF Part
<1>6. g = Part(k, E)
  <2>1. ASSUME NEW i \in E
        PROVE  Weight(fs[i], o) = Held(fs[i], o)
    <3>1. fs[i] \in FrameType /\ fs[i].kind = "eel"
      BY <1>3 DEF E
    <3> QED
      BY <3>1, WeightEel
  <2> QED
    BY <1>1, <2>1 DEF Part
<1>7. IsFiniteSet(D) /\ IsFiniteSet(E)
  BY <1>1, FS_Interval DEF D, E
<1>8. SumOf(k) = Owners(fs, o) /\ SumOf(h) = Owners(low, o)
  BY <1>2 DEF Owners, Weight
<1>9. Release(r, fs, n + 1)[o] = r[o] - SumOf(g)
  BY DEF Release, E
<1> HIDE DEF h, g, k
<1>10. SumOf(k) = SumOf(h) + SumOf(g) /\ SumOf(g) \in Nat /\ SumOf(h) \in Nat
  <2>1. D \cap E = {} /\ k \in [D \cup E -> Nat]
    BY <1>1, <1>4
  <2>2. /\ SumOf(k) = SumOf(Part(k, D)) + SumOf(Part(k, E))
        /\ SumOf(Part(k, D)) \in Nat /\ SumOf(Part(k, E)) \in Nat
    BY <1>7, <2>1, SumSplit
  <2> QED
    BY <1>5, <1>6, <2>2
<1>11. SumOf(g) = Owners(fs, o) - Owners(low, o)
  BY <1>8, <1>10
<1> QED
  BY <1>2, <1>9, <1>11 DEF low

-----------------------------------------------------------------------------
(* What the operations on counts and frames do. *)

LEMMA OwnAdds ==
    ASSUME NEW r \in [Objs -> Int], NEW v, v \in Objs => r[v] > 0
    PROVE  Own(r, v) \in [Objs -> Int] /\ \A o \in Objs : Own(r, v)[o] = r[o] + One(v, o)
BY DEF Own, One

LEMMA DisownTakes ==
    ASSUME NEW r \in [Objs -> Int], NEW v
    PROVE  Disown(r, v) \in [Objs -> Int] /\ \A o \in Objs : Disown(r, v)[o] = r[o] - One(v, o)
BY DEF Disown, One

LEMMA ClearTakes ==
    ASSUME NEW r \in [Objs -> Int], NEW args \in Seq(Objs)
    PROVE  /\ ClearArgs(r, args) \in [Objs -> Int]
           /\ \A o \in Objs : ClearArgs(r, args)[o] = r[o] - Count(args, o) /\ Count(args, o) \in Nat
<1>1. \A o \in Objs : Count(args, o) \in Nat
  BY CountNat
<1> QED
  BY <1>1 DEF ClearArgs

LEMMA ReleaseTakes ==
    ASSUME NEW r \in [Objs -> Int], NEW fs \in Seq(FrameType), NEW n \in 0 .. Len(fs),
           \A i \in n + 1 .. Len(fs) : fs[i].kind = "eel"
    PROVE  /\ SubSeq(fs, 1, n) \in Seq(FrameType)
           /\ Release(r, fs, n + 1) \in [Objs -> Int]
           /\ \A o \in Objs :
                 Release(r, fs, n + 1)[o] = r[o] - (Owners(fs, o) - Owners(SubSeq(fs, 1, n), o))
<1>0. SubSeq(fs, 1, n) \in Seq(FrameType)
  <2>1. \A i \in 1 .. n : fs[i] \in FrameType
    OBVIOUS
  <2> QED
    BY <2>1, SubSeqProperties
<1>1. \A o \in Objs :
        Release(r, fs, n + 1)[o] = r[o] - (Owners(fs, o) - Owners(SubSeq(fs, 1, n), o))
  BY OwnersCut
<1>2. \A o \in Objs : Owners(fs, o) \in Nat /\ Owners(SubSeq(fs, 1, n), o) \in Nat
  BY <1>0, OwnersNat
<1>3. DOMAIN Release(r, fs, n + 1) = Objs
        /\ Release(r, fs, n + 1) = [o \in Objs |-> Release(r, fs, n + 1)[o]]
  BY DEF Release
<1>4. \A o \in Objs : Release(r, fs, n + 1)[o] \in Int
  BY <1>1, <1>2
<1>5. Release(r, fs, n + 1) \in [Objs -> Int]
  <2> DEFINE R == Release(r, fs, n + 1)
  <2>1. R = [o \in Objs |-> R[o]] /\ \A o \in Objs : R[o] \in Int
    BY <1>3, <1>4
  <2> HIDE DEF R
  <2>2. R \in [Objs -> Int]
    BY <2>1
  <2> QED
    BY <2>2 DEF R
<1> QED
  BY <1>0, <1>1, <1>5

\* Variables, arguments, the register and the limbo list of a frame change.
LEMMA WeightVars ==
    ASSUME NEW f \in FrameType, NEW s \in Seq(Objs)
    PROVE  /\ [f EXCEPT !.vars = s] \in FrameType
           /\ \A o \in Objs :
                 Weight([f EXCEPT !.vars = s], o) = Weight(f, o) - Count(f.vars, o) + Count(s, o)
<1> DEFINE g == [f EXCEPT !.vars = s]
<1>1. /\ g \in FrameType /\ g.vars = s /\ g.args = f.args /\ g.limbo = f.limbo
      /\ g.kind = f.kind /\ g.tmp = f.tmp
  BY DEF FrameType
<1> HIDE DEF g
<1> SUFFICES ASSUME NEW o \in Objs
             PROVE  Weight(g, o) = Weight(f, o) - Count(f.vars, o) + Count(s, o)
  BY <1>1 DEF g
<1> DEFINE r0 == IF f.kind = "c" THEN One(f.tmp, o) ELSE 0
           l == IF o \in f.limbo THEN 1 ELSE 0
<1>2. r0 \in Nat /\ l \in Nat
  BY DEF One
<1>3. Weight(f, o) = Count(f.vars, o) + Count(f.args, o) + l + r0
  BY WeightParts
<1>4. Weight(g, o) = Count(s, o) + Count(f.args, o) + l + r0
  BY SMTT(30), <1>1, WeightParts
<1>5. Count(f.vars, o) \in Nat /\ Count(f.args, o) \in Nat /\ Count(s, o) \in Nat
  BY FrameParts, CountNat
<1> HIDE DEF r0, l
<1> QED
  BY <1>2, <1>3, <1>4, <1>5

LEMMA WeightArgs ==
    ASSUME NEW f \in FrameType, NEW s \in Seq(Objs)
    PROVE  /\ [f EXCEPT !.args = s] \in FrameType
           /\ \A o \in Objs :
                 Weight([f EXCEPT !.args = s], o) = Weight(f, o) - Count(f.args, o) + Count(s, o)
<1> DEFINE g == [f EXCEPT !.args = s]
<1>1. /\ g \in FrameType /\ g.args = s /\ g.vars = f.vars /\ g.limbo = f.limbo
      /\ g.kind = f.kind /\ g.tmp = f.tmp
  BY DEF FrameType
<1> HIDE DEF g
<1> SUFFICES ASSUME NEW o \in Objs
             PROVE  Weight(g, o) = Weight(f, o) - Count(f.args, o) + Count(s, o)
  BY <1>1 DEF g
<1> DEFINE r0 == IF f.kind = "c" THEN One(f.tmp, o) ELSE 0
           l == IF o \in f.limbo THEN 1 ELSE 0
<1>2. r0 \in Nat /\ l \in Nat
  BY DEF One
<1>3. Weight(f, o) = Count(f.vars, o) + Count(f.args, o) + l + r0
  BY WeightParts
<1>4. Weight(g, o) = Count(f.vars, o) + Count(s, o) + l + r0
  BY SMTT(30), <1>1, WeightParts
<1>5. Count(f.vars, o) \in Nat /\ Count(f.args, o) \in Nat /\ Count(s, o) \in Nat
  BY FrameParts, CountNat
<1> HIDE DEF r0, l
<1> QED
  BY <1>2, <1>3, <1>4, <1>5

LEMMA WeightTmp ==
    ASSUME NEW f \in FrameType, NEW v \in Objs \cup {Nil}
    PROVE  /\ [f EXCEPT !.tmp = v] \in FrameType
           /\ \A o \in Objs :
                 Weight([f EXCEPT !.tmp = v], o)
                   = IF f.kind = "c" THEN Weight(f, o) - One(f.tmp, o) + One(v, o) ELSE Weight(f, o)
<1> DEFINE g == [f EXCEPT !.tmp = v]
<1>1. /\ g \in FrameType /\ g.args = f.args /\ g.vars = f.vars /\ g.limbo = f.limbo
      /\ g.kind = f.kind /\ g.tmp = v
  BY DEF FrameType
<1> HIDE DEF g
<1> SUFFICES ASSUME NEW o \in Objs
             PROVE  Weight(g, o)
                      = IF f.kind = "c" THEN Weight(f, o) - One(f.tmp, o) + One(v, o) ELSE Weight(f, o)
  BY <1>1 DEF g
<1>2. Held(f, o) \in Nat /\ Weight(f, o) = Held(f, o) + (IF f.kind = "c" THEN One(f.tmp, o) ELSE 0)
  BY WeightParts
<1>3. Weight(g, o) = Held(g, o) + (IF f.kind = "c" THEN One(v, o) ELSE 0)
  BY <1>1, WeightParts
<1>4. Held(g, o) = Held(f, o)
  BY <1>1 DEF Held
<1> QED
  BY <1>2, <1>3, <1>4 DEF One

LEMMA WeightLimbo ==
    ASSUME NEW f \in FrameType, NEW v \in Objs, v \notin f.limbo
    PROVE  /\ [f EXCEPT !.limbo = @ \cup {v}] \in FrameType
           /\ \A o \in Objs : Weight([f EXCEPT !.limbo = @ \cup {v}], o) = Weight(f, o) + One(v, o)
<1> DEFINE g == [f EXCEPT !.limbo = @ \cup {v}]
<1>1. /\ g \in FrameType /\ g.args = f.args /\ g.vars = f.vars /\ g.limbo = f.limbo \cup {v}
      /\ g.kind = f.kind /\ g.tmp = f.tmp
  BY DEF FrameType
<1> HIDE DEF g
<1> SUFFICES ASSUME NEW o \in Objs
             PROVE  Weight(g, o) = Weight(f, o) + One(v, o)
  BY <1>1 DEF g
<1> DEFINE r0 == IF f.kind = "c" THEN One(f.tmp, o) ELSE 0
           n == Count(f.vars, o) + Count(f.args, o)
<1>2. r0 \in Nat /\ n \in Nat
  <2>1. Count(f.vars, o) \in Nat /\ Count(f.args, o) \in Nat
    BY FrameParts, CountNat
  <2> QED
    BY <2>1 DEF One
<1>3. Weight(f, o) = n + (IF o \in f.limbo THEN 1 ELSE 0) + r0
  BY WeightParts
<1>4. Weight(g, o) = n + (IF o \in f.limbo \cup {v} THEN 1 ELSE 0) + r0
  BY <1>1, WeightParts
<1> HIDE DEF r0, n
<1>5. CASE o = v
  <2>1. o \notin f.limbo /\ o \in f.limbo \cup {v} /\ One(v, o) = 1
    BY <1>5 DEF One
  <2> QED
    BY <1>2, <1>3, <1>4, <2>1
<1>6. CASE o # v
  <2>1. (o \in f.limbo <=> o \in f.limbo \cup {v}) /\ One(v, o) = 0
    BY <1>6 DEF One
  <2> QED
    BY <1>2, <1>3, <1>4, <2>1
<1> QED
  BY <1>5, <1>6

-----------------------------------------------------------------------------
(* The invariant. *)

\* C functions have no variables and no limbo list, and no result is in their
\* register while they wait for a call.
CleanC(fs) ==
    \A i \in 1 .. Len(fs) :
        fs[i].kind = "c" =>
            /\ fs[i].vars = << >> /\ fs[i].limbo = {}
            /\ i < Len(fs) => fs[i].tmp = Nil

\* An EEL register refers to an object in the limbo list of its own frame or
\* of one below, which outlives it.
Borrowed(fs) ==
    \A i \in 1 .. Len(fs) :
        fs[i].kind = "eel" /\ fs[i].tmp \in Objs =>
            \E j \in 1 .. i : fs[i].tmp \in fs[j].limbo

OneList(fs) ==
    \A i, j \in 1 .. Len(fs) : i # j => fs[i].limbo \cap fs[j].limbo = {}

Sound(fs) == CleanC(fs) /\ Borrowed(fs) /\ OneList(fs)

\* A callback took the arguments of the C function it was called from.
ArgsGone(fs, cs) ==
    cs[Len(cs)].kind = "c" /\ Len(cs) # 1 /\ cs[Len(cs)].err = "ok" => fs[Len(fs)].args = << >>

\* The references that are kept in x, the exception, and s, the static
\* variable, and those of frames are all that there are.
Balance(fs, r, x, s) ==
    \A o \in Objs : r[o] = Owners(fs, o) + One(x, o) + One(s, o)

Types(x, s, r) ==
    /\ x \in Objs \cup {Nil, "return"} \cup Codes
    /\ s \in Objs \cup {Nil}
    /\ r \in [Objs -> Int]

\* Frames that stay as they are, but for what EEL code does to variables and
\* arguments; others may go.
LEMMA SoundKept ==
    ASSUME NEW fs, NEW gs, Sound(fs), Len(fs) \in Nat, Len(gs) \in Nat, Len(gs) <= Len(fs),
           \A i \in 1 .. Len(gs) :
              /\ gs[i].kind = fs[i].kind /\ gs[i].limbo = fs[i].limbo /\ gs[i].tmp = fs[i].tmp
              /\ gs[i].kind = "c" => gs[i].vars = fs[i].vars
    PROVE  Sound(gs)
<1>1. \A i \in 1 .. Len(gs) : i \in 1 .. Len(fs) /\ (i < Len(gs) => i < Len(fs))
  OBVIOUS
<1>2. CleanC(gs)
  BY <1>1 DEF Sound, CleanC
<1>3. Borrowed(gs)
  <2> SUFFICES ASSUME NEW i \in 1 .. Len(gs), gs[i].kind = "eel", gs[i].tmp \in Objs
               PROVE  \E j \in 1 .. i : gs[i].tmp \in gs[j].limbo
    BY DEF Borrowed
  <2>1. PICK j \in 1 .. i : fs[i].tmp \in fs[j].limbo
    BY <1>1 DEF Sound, Borrowed
  <2>2. j \in 1 .. Len(gs)
    OBVIOUS
  <2> QED
    BY <2>1, <2>2
<1>4. OneList(gs)
  BY <1>1 DEF Sound, OneList
<1> QED
  BY <1>2, <1>3, <1>4 DEF Sound

\* A new frame.
LEMMA SoundPushed ==
    ASSUME NEW fs \in Seq(FrameType), NEW f \in FrameType, Sound(fs),
           Len(fs) >= 1, fs[Len(fs)].kind = "c" => fs[Len(fs)].tmp = Nil,
           f.limbo = {}, f.tmp = Nil, f.kind = "c" => f.vars = << >>
    PROVE  Sound(Append(fs, f))
<1> DEFINE gs == Append(fs, f)
           n == Len(fs)
<1>1. /\ n \in Nat /\ Len(gs) = n + 1 /\ gs[n + 1] = f
      /\ \A i \in 1 .. n : gs[i] = fs[i]
  BY AppendProperties, LenProperties
<1>2. Nil \notin Objs
  BY ObjsAssumption
<1> HIDE DEF gs
<1>3. CleanC(gs)
  <2> SUFFICES ASSUME NEW i \in 1 .. n + 1, gs[i].kind = "c"
               PROVE  gs[i].vars = << >> /\ gs[i].limbo = {} /\ (i < n + 1 => gs[i].tmp = Nil)
    BY <1>1 DEF CleanC
  <2>1. CASE i = n + 1
    BY <1>1, <2>1
  <2>2. CASE i \in 1 .. n
    <3>1. fs[i].vars = << >> /\ fs[i].limbo = {} /\ (i < n => fs[i].tmp = Nil)
      BY <1>1, <2>2 DEF Sound, CleanC
    <3>2. i = n \/ i < n
      BY <1>1, <2>2
    <3> QED
      BY <1>1, <2>2, <3>1, <3>2
  <2> QED
    BY <1>1, <2>1, <2>2
<1>4. Borrowed(gs)
  <2> SUFFICES ASSUME NEW i \in 1 .. n + 1, gs[i].kind = "eel", gs[i].tmp \in Objs
               PROVE  \E j \in 1 .. i : gs[i].tmp \in gs[j].limbo
    BY <1>1 DEF Borrowed
  <2>1. i \in 1 .. n
    BY <1>1, <1>2
  <2>2. PICK j \in 1 .. i : fs[i].tmp \in fs[j].limbo
    BY <1>1, <2>1 DEF Sound, Borrowed
  <2>3. j \in 1 .. n
    BY <1>1, <2>1
  <2> QED
    BY <1>1, <2>1, <2>2, <2>3
<1>5. OneList(gs)
  <2> SUFFICES ASSUME NEW i \in 1 .. n + 1, NEW j \in 1 .. n + 1, i # j
               PROVE  gs[i].limbo \cap gs[j].limbo = {}
    BY <1>1 DEF OneList
  <2>1. (i = n + 1 \/ i \in 1 .. n) /\ (j = n + 1 \/ j \in 1 .. n)
    BY <1>1
  <2> QED
    BY <1>1, <2>1 DEF Sound, OneList
<1> QED
  BY <1>3, <1>4, <1>5 DEF Sound, gs

\* A value comes into the register of the EEL frame on top: it is in limbo then.
LEMMA SoundLanded ==
    ASSUME NEW fs \in Seq(FrameType), Sound(fs), Len(fs) >= 1, fs[Len(fs)].kind = "eel",
           NEW v \in Objs \cup {Nil}
    PROVE  Sound(ToLimbo([fs EXCEPT ![Len(fs)].tmp = v], v))
<1> DEFINE n == Len(fs)
           put == [fs EXCEPT ![n].tmp = v]
           gs == ToLimbo(put, v)
           add == IF v \in Objs /\ ~InLimbo(put, v) THEN {v} ELSE {}
<1>1. n \in 1 .. n /\ n \in Nat /\ \A i \in 1 .. n : fs[i] \in FrameType
  OBVIOUS
<1>2. /\ Len(put) = n /\ DOMAIN put = 1 .. n
      /\ put[n] = [fs[n] EXCEPT !.tmp = v]
      /\ \A i \in 1 .. n : i # n => put[i] = fs[i]
  BY <1>1
<1>3. \A i \in 1 .. n : put[i].limbo = fs[i].limbo /\ put[i].kind = fs[i].kind /\ put[i].vars = fs[i].vars
  <2>1. fs[n] \in FrameType
    BY <1>1
  <2>2. put[n].limbo = fs[n].limbo /\ put[n].kind = fs[n].kind /\ put[n].vars = fs[n].vars
    BY <1>2, <2>1 DEF FrameType
  <2> QED
    BY <1>2, <2>2
<1>4. put[n].tmp = v /\ put \in Seq(FrameType)
  <2>1. fs[n] \in FrameType
    BY <1>1
  <2>2. [fs[n] EXCEPT !.tmp = v] \in FrameType /\ [fs[n] EXCEPT !.tmp = v].tmp = v
    BY <2>1 DEF FrameType
  <2>3. put = [fs EXCEPT ![n] = [fs[n] EXCEPT !.tmp = v]]
    OBVIOUS
  <2> QED
    BY <1>1, <1>2, <2>2, <2>3, ExceptSeq
<1> HIDE DEF put
<1>5. /\ Len(gs) = n
      /\ gs[n].limbo = put[n].limbo \cup add /\ gs[n].tmp = v
      /\ gs[n].kind = "eel" /\ \A i \in 1 .. n : i # n => gs[i] = put[i]
  <2>1. put[n] \in FrameType
    BY <1>1, <1>2, <1>4
  <2>2. CASE v \in Objs /\ ~InLimbo(put, v)
    <3>1. gs = [put EXCEPT ![n].limbo = @ \cup {v}] /\ add = {v}
      BY <1>2, <2>2 DEF ToLimbo
    <3> HIDE DEF gs, add
    <3>2. gs[n] = [put[n] EXCEPT !.limbo = @ \cup {v}] /\ Len(gs) = n /\ \A i \in 1 .. n : i # n => gs[i] = put[i]
      BY <1>1, <1>2, <1>4, <3>1
    <3>3. gs[n].limbo = put[n].limbo \cup {v} /\ gs[n].tmp = put[n].tmp /\ gs[n].kind = put[n].kind
      BY <2>1, <3>2 DEF FrameType
    <3> QED
      BY <1>1, <1>3, <1>4, <3>1, <3>2, <3>3
  <2>3. CASE ~(v \in Objs /\ ~InLimbo(put, v))
    <3>1. gs = put /\ add = {}
      BY <2>3 DEF ToLimbo
    <3> HIDE DEF gs, add
    <3> QED
      BY <1>1, <1>2, <1>3, <1>4, <3>1
  <2> QED
    BY <2>2, <2>3
<1>6. \A i \in 1 .. n : i # n => gs[i] = fs[i]
  BY <1>2, <1>5
<1>7. /\ v \in Objs => \E j \in 1 .. n : v \in gs[j].limbo
      /\ \A i \in 1 .. n : v \in fs[i].limbo => v \notin add
      /\ add \subseteq {v}
  <2>1. InLimbo(put, v) <=> \E j \in 1 .. n : v \in put[j].limbo
    BY <1>2 DEF InLimbo
  <2> QED
    BY <1>1, <1>3, <1>5, <2>1
<1> HIDE DEF gs, add
<1>8. CleanC(gs)
  BY <1>1, <1>5, <1>6 DEF Sound, CleanC
<1>9. Borrowed(gs)
  <2> SUFFICES ASSUME NEW i \in 1 .. n, gs[i].kind = "eel", gs[i].tmp \in Objs
               PROVE  \E j \in 1 .. i : gs[i].tmp \in gs[j].limbo
    BY <1>5 DEF Borrowed
  <2>1. CASE i = n
    BY <1>5, <1>7, <2>1
  <2>2. CASE i # n
    <3>1. PICK j \in 1 .. i : fs[i].tmp \in fs[j].limbo
      BY <1>6, <2>2 DEF Sound, Borrowed
    <3>2. j \in 1 .. n /\ j # n
      BY <1>1, <2>2
    <3> QED
      BY <1>6, <2>2, <3>1, <3>2
  <2> QED
    BY <2>1, <2>2
<1>10. OneList(gs)
  <2> SUFFICES ASSUME NEW i \in 1 .. n, NEW j \in 1 .. n, i # j, NEW x \in gs[i].limbo, x \in gs[j].limbo
               PROVE  FALSE
    BY <1>5 DEF OneList
  <2>1. \A k \in 1 .. n : gs[k].limbo = fs[k].limbo \/ (k = n /\ gs[k].limbo = fs[k].limbo \cup add)
    BY <1>1, <1>3, <1>5, <1>6
  <2>2. fs[i].limbo \cap fs[j].limbo = {}
    BY DEF Sound, OneList
  <2>3. x \in add
    BY <2>1, <2>2
  <2>4. x \in fs[i].limbo \/ x \in fs[j].limbo
    BY <2>1
  <2> QED
    BY <1>7, <2>3, <2>4
<1> QED
  BY <1>8, <1>9, <1>10 DEF Sound, gs, put

\* What that does to the counts, for a reference that was counted before and
\* one that was not.
LEMMA LandedOwners ==
    ASSUME NEW fs \in Seq(FrameType), Len(fs) >= 1, fs[Len(fs)].kind = "eel",
           NEW v \in Objs \cup {Nil}
    PROVE  LET put == [fs EXCEPT ![Len(fs)].tmp = v]
               gs == ToLimbo(put, v)
           IN  /\ gs \in Seq(FrameType) /\ (InLimbo(put, v) <=> InLimbo(fs, v))
               /\ InLimbo(fs, v) => v \in Objs
               /\ \A o \in Objs :
                     Owners(gs, o) = Owners(fs, o) + (IF InLimbo(fs, v) THEN 0 ELSE One(v, o))
<1> DEFINE n == Len(fs)
           f == [fs[n] EXCEPT !.tmp = v]
           put == [fs EXCEPT ![n].tmp = v]
           gs == ToLimbo(put, v)
<1>1. n \in 1 .. n /\ n \in Nat /\ fs[n] \in FrameType /\ DOMAIN fs = 1 .. n
  OBVIOUS
<1>2. f \in FrameType /\ f.limbo = fs[n].limbo /\ f.kind = "eel"
  BY <1>1 DEF FrameType
<1>3. \A o \in Objs : Weight(f, o) = Weight(fs[n], o)
  BY <1>1, WeightTmp
<1>4. put = [fs EXCEPT ![n] = f]
  OBVIOUS
<1> HIDE DEF f, put, gs
<1>5. /\ put \in Seq(FrameType) /\ Len(put) = n /\ DOMAIN put = 1 .. n /\ put[n] = f
      /\ \A i \in 1 .. n : i # n => put[i] = fs[i]
  <2>1. [fs EXCEPT ![n] = f] \in Seq(FrameType) /\ Len([fs EXCEPT ![n] = f]) = n
    BY <1>1, <1>2, ExceptSeq
  <2>2. DOMAIN put = 1 .. n /\ put[n] = f /\ \A i \in 1 .. n : i # n => put[i] = fs[i]
    BY <1>1, <1>4
  <2> QED
    BY <1>4, <2>1, <2>2
<1>6. \A o \in Objs : Owners(put, o) = Owners(fs, o)
  <2> SUFFICES ASSUME NEW o \in Objs
               PROVE  Owners(put, o) = Owners(fs, o)
    OBVIOUS
  <2>1. Owners(put, o) = Owners(fs, o) - Weight(fs[n], o) + Weight(f, o)
    BY <1>1, <1>2, <1>4, OwnersExcept
  <2>2. Weight(fs[n], o) \in Nat /\ Owners(fs, o) \in Nat
    BY <1>1, WeightParts, OwnersNat
  <2> QED
    BY <1>3, <2>1, <2>2
<1>7. InLimbo(put, v) <=> InLimbo(fs, v)
  <2>1. \A i \in 1 .. n : put[i].limbo = fs[i].limbo
    BY <1>2, <1>5
  <2>2. DOMAIN put = 1 .. n
    BY <1>5
  <2> QED
    BY <1>1, <2>1, <2>2 DEF InLimbo
<1>8. InLimbo(fs, v) => v \in Objs
  <2>1. \A i \in DOMAIN fs : fs[i] \in FrameType
    OBVIOUS
  <2>2. \A i \in DOMAIN fs : fs[i].limbo \in SUBSET Objs
    BY <2>1, FrameParts
  <2> QED
    BY <2>2 DEF InLimbo
<1>9. CASE v \in Objs /\ ~InLimbo(put, v)
  <2> DEFINE g == [f EXCEPT !.limbo = @ \cup {v}]
  <2>1. v \notin f.limbo
    <3>1. n \in DOMAIN put
      BY <1>1, <1>5
    <3> QED
      BY <1>5, <1>9, <3>1 DEF InLimbo
  <2>2. g \in FrameType /\ \A o \in Objs : Weight(g, o) = Weight(f, o) + One(v, o)
    BY <1>2, <1>9, <2>1, WeightLimbo
  <2>3. gs = [put EXCEPT ![n] = g]
    BY <1>5, <1>9 DEF ToLimbo, gs
  <2> HIDE DEF g
  <2>4. gs \in Seq(FrameType)
    BY <1>1, <1>5, <2>2, <2>3, ExceptSeq
  <2>5. ASSUME NEW o \in Objs
        PROVE  Owners(gs, o) = Owners(put, o) + One(v, o)
    <3>1. Owners(gs, o) = Owners(put, o) - Weight(put[n], o) + Weight(g, o)
      <4>1. n \in 1 .. Len(put)
        BY <1>1, <1>5
      <4> QED
        BY <1>5, <2>2, <2>3, <4>1, OwnersExcept
    <3>2. Weight(f, o) \in Nat /\ Owners(put, o) \in Nat /\ One(v, o) \in Nat
      BY <1>2, <1>5, WeightParts, OwnersNat DEF One
    <3>3. Weight(put[n], o) = Weight(f, o) /\ Weight(g, o) = Weight(f, o) + One(v, o)
      BY <1>5, <2>2
    <3> QED
      BY <3>1, <3>2, <3>3
  <2> QED
    BY <1>6, <1>7, <1>8, <1>9, <2>4, <2>5 DEF gs, put
<1>10. CASE ~(v \in Objs /\ ~InLimbo(put, v))
  <2>1. gs = put
    BY <1>10 DEF ToLimbo, gs
  <2>2. \A o \in Objs : InLimbo(fs, v) \/ One(v, o) = 0
    BY <1>7, <1>10, ObjsAssumption DEF One
  <2>3. \A o \in Objs : Owners(fs, o) \in Nat
    BY OwnersNat
  <2>4. \A o \in Objs : Owners(gs, o) = Owners(fs, o) + (IF InLimbo(fs, v) THEN 0 ELSE One(v, o))
    BY <1>6, <2>1, <2>2, <2>3
  <2> QED
    BY <1>5, <1>7, <1>8, <2>1, <2>4 DEF gs, put
<1> QED
  BY <1>9, <1>10

LEMMA LandedReceived ==
    ASSUME NEW fs \in Seq(FrameType), Len(fs) >= 1, fs[Len(fs)].kind = "eel",
           NEW v \in Objs \cup {Nil}, NEW r \in [Objs -> Int]
    PROVE  LET put == [fs EXCEPT ![Len(fs)].tmp = v]
               gs == ToLimbo(put, v)
           IN  /\ gs \in Seq(FrameType) /\ Received(r, put, v) \in [Objs -> Int]
               /\ \A o \in Objs :
                     Received(r, put, v)[o] = r[o] - One(v, o) - Owners(fs, o) + Owners(gs, o)
<1> DEFINE put == [fs EXCEPT ![Len(fs)].tmp = v]
           gs == ToLimbo(put, v)
<1>1. /\ gs \in Seq(FrameType) /\ (InLimbo(put, v) <=> InLimbo(fs, v))
      /\ InLimbo(fs, v) => v \in Objs
      /\ \A o \in Objs :
            Owners(gs, o) = Owners(fs, o) + (IF InLimbo(fs, v) THEN 0 ELSE One(v, o))
  BY LandedOwners
<1> HIDE DEF put, gs
<1>2. Disown(r, v) \in [Objs -> Int] /\ \A o \in Objs : Disown(r, v)[o] = r[o] - One(v, o)
  BY DisownTakes
<1>3. \A o \in Objs : Owners(fs, o) \in Nat /\ One(v, o) \in Nat /\ r[o] \in Int
  BY OwnersNat DEF One
<1>4. CASE InLimbo(fs, v)
  <2>1. Received(r, put, v) = Disown(r, v)
    BY <1>1, <1>4 DEF Received
  <2>2. \A o \in Objs : Owners(gs, o) = Owners(fs, o)
    BY <1>1, <1>3, <1>4
  <2>3. \A o \in Objs : Received(r, put, v)[o] = r[o] - One(v, o) - Owners(fs, o) + Owners(gs, o)
    BY <1>2, <1>3, <2>1, <2>2
  <2> QED
    BY <1>1, <1>2, <2>1, <2>3 DEF gs, put
<1>5. CASE ~InLimbo(fs, v)
  <2>1. Received(r, put, v) = r
    BY <1>1, <1>5 DEF Received
  <2>2. \A o \in Objs : Owners(gs, o) = Owners(fs, o) + One(v, o)
    BY <1>1, <1>3, <1>5
  <2>3. \A o \in Objs : Received(r, put, v)[o] = r[o] - One(v, o) - Owners(fs, o) + Owners(gs, o)
    BY <1>3, <2>1, <2>2
  <2> QED
    BY <1>1, <2>1, <2>3 DEF gs, put
<1> QED
  BY <1>4, <1>5

LEMMA LandedGrabbed ==
    ASSUME NEW fs \in Seq(FrameType), Len(fs) >= 1, fs[Len(fs)].kind = "eel",
           NEW v \in Objs, NEW r \in [Objs -> Int], r[v] > 0
    PROVE  LET gs == ToLimbo([fs EXCEPT ![Len(fs)].tmp = v], v)
           IN  /\ gs \in Seq(FrameType) /\ Grabbed(r, fs, v) \in [Objs -> Int]
               /\ \A o \in Objs :
                     Grabbed(r, fs, v)[o] = r[o] - Owners(fs, o) + Owners(gs, o)
<1> DEFINE gs == ToLimbo([fs EXCEPT ![Len(fs)].tmp = v], v)
<1>1. /\ gs \in Seq(FrameType)
      /\ \A o \in Objs :
            Owners(gs, o) = Owners(fs, o) + (IF InLimbo(fs, v) THEN 0 ELSE One(v, o))
  BY LandedOwners
<1> HIDE DEF gs
<1>2. Own(r, v) \in [Objs -> Int] /\ \A o \in Objs : Own(r, v)[o] = r[o] + One(v, o)
  BY OwnAdds
<1>3. \A o \in Objs : Owners(fs, o) \in Nat /\ One(v, o) \in Nat /\ r[o] \in Int
  BY OwnersNat DEF One
<1>4. CASE InLimbo(fs, v)
  <2>1. Grabbed(r, fs, v) = r
    BY <1>4 DEF Grabbed
  <2>2. \A o \in Objs : Grabbed(r, fs, v)[o] = r[o] - Owners(fs, o) + Owners(gs, o)
    BY <1>1, <1>3, <1>4, <2>1
  <2> QED
    BY <1>1, <2>1, <2>2 DEF gs
<1>5. CASE ~InLimbo(fs, v)
  <2>1. Grabbed(r, fs, v) = Own(r, v)
    BY <1>5 DEF Grabbed
  <2>2. \A o \in Objs : Owners(gs, o) = Owners(fs, o) + One(v, o)
    BY <1>1, <1>3, <1>5
  <2>3. \A o \in Objs : Grabbed(r, fs, v)[o] = r[o] - Owners(fs, o) + Owners(gs, o)
    BY <1>2, <1>3, <2>1, <2>2
  <2> QED
    BY <1>1, <1>2, <2>1, <2>3 DEF gs
<1> QED
  BY <1>4, <1>5

\* A variable owns what it refers to, beside any other owner.
LEMMA VarOwns ==
    ASSUME NEW fs \in Seq(FrameType), NEW i \in 1 .. Len(fs), NEW v \in Objs,
           v \in Range(fs[i].vars) \cup Range(fs[i].args) \cup fs[i].limbo
    PROVE  Weight(fs[i], v) >= 1 /\ Owners(fs, v) >= 1
<1> DEFINE f == fs[i]
<1>1. f \in FrameType
  OBVIOUS
<1>2. /\ Held(f, v) \in Nat /\ Count(f.vars, v) \in Nat /\ Count(f.args, v) \in Nat
      /\ Held(f, v) = Count(f.vars, v) + Count(f.args, v) + (IF v \in f.limbo THEN 1 ELSE 0)
      /\ Weight(f, v) = Held(f, v) + (IF f.kind = "c" THEN One(f.tmp, v) ELSE 0)
  BY <1>1, WeightParts
<1>3. /\ v \in Range(f.vars) => Count(f.vars, v) # 0
      /\ v \in Range(f.args) => Count(f.args, v) # 0
  BY <1>1, FrameParts, CountNat
<1>4. Held(f, v) >= 1
  BY <1>2, <1>3
<1>5. Weight(f, v) >= 1 /\ Weight(f, v) \in Nat
  BY <1>2, <1>4 DEF One
<1>6. Owners(fs, v) >= Weight(f, v) /\ Owners(fs, v) \in Nat
  BY <1>1, OwnersExcept, OwnersNat
<1> QED
  BY <1>5, <1>6

LEMMA VarAndOther ==
    ASSUME NEW fs \in Seq(FrameType), NEW i \in 1 .. Len(fs), NEW k \in DOMAIN fs[i].vars,
           NEW v \in Objs, NEW j \in 1 .. Len(fs),
           v \in fs[j].limbo \/ (j # i /\ v \in Range(fs[j].vars))
    PROVE  Owners(fs, v) >= 1 + One(fs[i].vars[k], v)
<1>1. CASE fs[i].vars[k] # v
  <2>1. Owners(fs, v) >= 1
    BY VarOwns
  <2> QED
    BY <1>1, <2>1 DEF One
<1>2. CASE fs[i].vars[k] = v /\ i # j
  <2>1. Weight(fs[j], v) >= 1
    BY VarOwns
  <2>2. v \in Range(fs[i].vars)
    BY <1>2 DEF Range
  <2>3. Weight(fs[i], v) >= 1
    BY <2>2, VarOwns
  <2>4. Owners(fs, v) >= Weight(fs[i], v) + Weight(fs[j], v)
    BY <1>2, OwnersTwo
  <2>5. /\ Weight(fs[i], v) \in Nat /\ Weight(fs[j], v) \in Nat /\ Owners(fs, v) \in Nat
        /\ One(fs[i].vars[k], v) = 1
    <3>1. fs[i] \in FrameType /\ fs[j] \in FrameType
      OBVIOUS
    <3> QED
      BY <1>2, <3>1, WeightParts, OwnersNat DEF One
  <2> QED
    BY <2>1, <2>3, <2>4, <2>5
<1>3. CASE fs[i].vars[k] = v /\ i = j
  <2> DEFINE f == fs[i]
  <2>1. f \in FrameType /\ v \in Range(f.vars) /\ v \in f.limbo
    BY <1>3 DEF Range
  <2>2. Count(f.vars, v) # 0
    BY <2>1, FrameParts, CountNat
  <2>3. /\ Count(f.vars, v) \in Nat /\ Count(f.args, v) \in Nat /\ Held(f, v) \in Nat
        /\ Held(f, v) = Count(f.vars, v) + Count(f.args, v) + (IF v \in f.limbo THEN 1 ELSE 0)
        /\ Weight(f, v) = Held(f, v) + (IF f.kind = "c" THEN One(f.tmp, v) ELSE 0)
    BY <2>1, WeightParts
  <2>4. Held(f, v) >= 2
    BY <2>1, <2>2, <2>3
  <2>5. Weight(f, v) >= 2 /\ Weight(f, v) \in Nat
    BY <2>3, <2>4 DEF One
  <2>6. Owners(fs, v) >= Weight(f, v) /\ Owners(fs, v) \in Nat
    BY <2>1, OwnersExcept, OwnersNat
  <2>7. One(fs[i].vars[k], v) = 1
    BY <1>3 DEF One
  <2> QED
    BY <2>5, <2>6, <2>7
<1> QED
  BY <1>1, <1>2, <1>3

\* The loops on the C stack have no frame of their own.
Bases(cs) == \A k \in 1 .. Len(cs) : cs[k].kind = "run" => cs[k].base = 0

Ledger(fs, cs, r, x, s) ==
    /\ Sound(fs) /\ ArgsGone(fs, cs) /\ Bases(cs)
    /\ Types(x, s, r) /\ Balance(fs, r, x, s)

-----------------------------------------------------------------------------
(* Exceptions and returns. *)

\* eel_run leaves a code to its C caller.
LEMMA EndRunLedger ==
    ASSUME NEW fs, NEW cs \in Seq(EntryType), Len(cs) >= 2, Bases(cs), NEW err \in {"ok"} \cup Codes,
           err = "ok" => fs[Len(fs)].args = << >>, cs[Len(cs) - 1].kind = "c"
    PROVE  LET ds == [Front(cs) EXCEPT ![Len(cs) - 1].err = err]
           IN  Bases(ds) /\ ArgsGone(fs, ds)
<1> DEFINE n == Len(cs) - 1
           ds == [Front(cs) EXCEPT ![n].err = err]
<1>1. n \in Nat /\ n >= 1 /\ Len(cs) = n + 1
  OBVIOUS
<1>2. /\ Len(ds) = n
      /\ \A k \in 1 .. n : ds[k].kind = cs[k].kind /\ ds[k].base = cs[k].base
  BY EndOfRun
<1>3. ds[n].err = err
  <2> DEFINE hs == SubSeq(cs, 1, n)
  <2>1. \A k \in 1 .. n : cs[k] \in EntryType
    BY <1>1
  <2>2. hs \in Seq(EntryType) /\ Len(hs) = n
    BY <1>1, <2>1, SubSeqProperties
  <2>3. ds = [hs EXCEPT ![n].err = err]
    BY DEF Front
  <2> HIDE DEF hs, ds
  <2>4. n \in DOMAIN hs /\ hs[n] \in EntryType
    BY <1>1, <2>2
  <2>5. ds[n] = [hs[n] EXCEPT !.err = err]
    BY <2>3, <2>4
  <2> QED
    BY <2>4, <2>5 DEF EntryType
<1> HIDE DEF ds
<1>4. Bases(ds)
  BY <1>1, <1>2 DEF Bases
<1>5. ArgsGone(fs, ds)
  BY <1>1, <1>2, <1>3 DEF ArgsGone
<1> QED
  BY <1>4, <1>5 DEF ds

\* call_catcher: the exception moves to its first variable.
LEMMA CatcherOwns ==
    ASSUME NEW fs \in Seq(FrameType), NEW h \in 2 .. Len(fs), NEW e
    PROVE  /\ Catcher(fs, h, e).limbo = {} /\ Catcher(fs, h, e).tmp = Nil
           /\ \A o \in Objs : Weight(Catcher(fs, h, e), o) = One(e, o)
<1> DEFINE f == Frame("eel", "catch", fs[h - 1].result)
           s == IF e \in Objs THEN << e >> ELSE << >>
<1>1. fs[h - 1].result \in 0 .. MaxFrames
  <2>1. h - 1 \in 1 .. Len(fs)
    OBVIOUS
  <2>2. fs[h - 1] \in FrameType
    BY <2>1
  <2> QED
    BY <2>2, FrameParts
<1>2. /\ f \in FrameType /\ f.vars = << >> /\ f.limbo = {} /\ f.tmp = Nil
      /\ \A o \in Objs : Weight(f, o) = 0
  <2>1. f \in FrameType
    BY <1>1, NewFrame
  <2>2. f.vars = << >> /\ f.limbo = {} /\ f.tmp = Nil
    BY DEF Frame
  <2>3. \A o \in Objs : Weight(f, o) = 0
    BY <1>1, WeightNew
  <2> QED
    BY <2>1, <2>2, <2>3
<1>3. s \in Seq(Objs) /\ \A o \in Objs : Count(s, o) = One(e, o)
  <2>1. CASE e \in Objs
    BY <2>1, CountOne
  <2>2. CASE e \notin Objs
    BY <2>2, CountEmpty DEF One
  <2> QED
    BY <2>1, <2>2
<1>4. Catcher(fs, h, e) = [f EXCEPT !.vars = s]
  BY DEF Catcher
<1> HIDE DEF f, s
<1>5. [f EXCEPT !.vars = s].limbo = {} /\ [f EXCEPT !.vars = s].tmp = Nil
  BY <1>2 DEF FrameType
<1>6. ASSUME NEW o \in Objs
      PROVE  Weight([f EXCEPT !.vars = s], o) = One(e, o)
  <2>1. Weight([f EXCEPT !.vars = s], o) = Weight(f, o) - Count(f.vars, o) + Count(s, o)
    BY <1>2, <1>3, WeightVars
  <2>2. Weight(f, o) = 0 /\ Count(f.vars, o) = 0 /\ Count(s, o) = One(e, o) /\ One(e, o) \in Nat
    BY <1>2, <1>3, CountEmpty DEF One
  <2> QED
    BY <2>1, <2>2
<1> QED
  BY <1>4, <1>5, <1>6

\* eel__throw and eel__scheduler.
LEMMA ThrowLedger ==
    ASSUME NEW fs, NEW cs, Shape(fs, cs), cs[Len(cs)].kind = "run",
           Sound(fs), Bases(cs), NEW r, Types(exc, static, r), Balance(fs, r, exc, static),
           NEW e \in Objs \cup Codes, e \in Objs => Owners(fs, e) >= 1,
           Throw(cs, fs, r, e), UNCHANGED static
    PROVE  Ledger(frames', cstack', rc', exc', static')
<1> DEFINE b == cs[Len(cs) - 1].base
           T == Tries(fs)
           h == Max(T)
           mid == Own(Disown(r, exc), e)
<1>1. /\ Len(fs) \in Nat /\ Len(cs) \in Nat /\ Len(cs) >= 2
      /\ b \in 1 .. Len(fs) - 1
      /\ fs[b + 1].block = "none"
      /\ \A i \in b + 1 .. Len(fs) : fs[i].kind = "eel"
      /\ cs[Len(cs) - 1].kind = "c"
  BY InsideRun
<1>2. fs \in Seq(FrameType) /\ cs \in Seq(EntryType)
  BY DEF Shape, Frames, Turns
<1>3. Stop(fs) = b
  BY StopIsBase
<1>4. /\ mid \in [Objs -> Int]
      /\ \A o \in Objs : mid[o] = Owners(fs, o) + One(static, o) + One(e, o)
  <2> DEFINE q == Disown(r, exc)
  <2>1. r \in [Objs -> Int]
    BY DEF Types
  <2>2. q \in [Objs -> Int] /\ \A o \in Objs : q[o] = r[o] - One(exc, o)
    BY <2>1, DisownTakes
  <2>3. \A o \in Objs : /\ r[o] = Owners(fs, o) + One(exc, o) + One(static, o)
                        /\ Owners(fs, o) \in Nat /\ One(exc, o) \in Nat /\ One(static, o) \in Nat
                        /\ One(e, o) \in Nat
    BY <1>2, OwnersNat DEF Balance, One
  <2> HIDE DEF q
  <2>4. ASSUME NEW o \in Objs
        PROVE  q[o] = Owners(fs, o) + One(static, o)
    <3>1. q[o] = r[o] - One(exc, o) /\ r[o] = Owners(fs, o) + One(exc, o) + One(static, o)
      BY <2>2, <2>3
    <3>2. Owners(fs, o) \in Nat /\ One(exc, o) \in Nat /\ One(static, o) \in Nat
      BY <2>3
    <3> QED
      BY <3>1, <3>2
  <2>5. e \in Objs => q[e] > 0
    BY <2>3, <2>4
  <2>6. Own(q, e) \in [Objs -> Int] /\ \A o \in Objs : Own(q, e)[o] = q[o] + One(e, o)
    BY <2>2, <2>5, OwnAdds
  <2> QED
    BY <2>4, <2>6 DEF q
<1>5. \A o \in Objs : /\ Owners(fs, o) \in Nat /\ One(static, o) \in Nat
                      /\ One(e, o) \in Nat /\ One(Nil, o) = 0
  BY <1>2, OwnersNat, ObjsAssumption DEF One
<1> HIDE DEF mid
<1>6. CASE T # {} /\ e # "internal"
  <2>1. T \in SUBSET (1 .. Len(fs)) /\ \A i \in T : i \in b + 1 .. Len(fs) /\ fs[i].block = "try"
    BY <1>1, <1>3 DEF Tries
  <2>2. h \in T
    <3> HIDE DEF T
    <3> QED
      BY <1>1, <1>6, <2>1, HasMax
  <2>3. h \in b + 1 .. Len(fs) /\ fs[h].block = "try"
    BY <2>1, <2>2
  <2>4. /\ frames' = Append(SubSeq(fs, 1, h - 1), Catcher(fs, h, e)) /\ cstack' = cs
        /\ rc' = Release(mid, fs, h) /\ exc' = Nil
    BY <1>6 DEF Throw, mid
  <2> HIDE DEF h
  <2>5. h - 1 \in b + 1 .. Len(fs) /\ h \in 2 .. Len(fs) /\ h - 1 \in 0 .. Len(fs) /\ (h - 1) + 1 = h
    <3> HIDE DEF b, T
    <3>1. h # b + 1
      BY <1>1, <2>3
    <3> QED
      BY <1>1, <2>3, <3>1
  <2> DEFINE low == SubSeq(fs, 1, h - 1)
             f == Catcher(fs, h, e)
  <2>6. f \in FrameType /\ f.kind = "eel" /\ f.limbo = {} /\ f.tmp = Nil /\ \A o \in Objs : Weight(f, o) = One(e, o)
    BY <1>2, <2>5, CatcherFrame, CatcherOwns
  <2>7. \A i \in (h - 1) + 1 .. Len(fs) : fs[i].kind = "eel"
    BY <1>1, <2>5
  <2>8. /\ low \in Seq(FrameType)
        /\ Release(mid, fs, h) \in [Objs -> Int]
        /\ \A o \in Objs : Release(mid, fs, h)[o] = mid[o] - (Owners(fs, o) - Owners(low, o))
    <3>1. /\ low \in Seq(FrameType)
          /\ Release(mid, fs, (h - 1) + 1) \in [Objs -> Int]
          /\ \A o \in Objs :
                Release(mid, fs, (h - 1) + 1)[o] = mid[o] - (Owners(fs, o) - Owners(SubSeq(fs, 1, h - 1), o))
      BY <1>2, <1>4, <2>5, <2>7, ReleaseTakes
    <3> QED
      BY <2>5, <3>1
  <2>9. Len(low) = h - 1 /\ \A i \in 1 .. h - 1 : low[i] = fs[i]
    BY <2>5, Cut
  <2> HIDE DEF low, f
  <2>10. Sound(low)
    <3>1. Len(low) \in Nat /\ Len(low) <= Len(fs)
      BY <1>1, <2>5, <2>9
    <3> QED
      BY <1>1, <2>9, <3>1, SoundKept
  <2>11. Len(low) >= 1 /\ low[Len(low)].kind = "eel"
    BY SMTT(30), <1>1, <2>5, <2>9
  <2>12. Sound(frames')
    <3>1. Sound(Append(low, f))
      BY <2>6, <2>8, <2>10, <2>11, SoundPushed
    <3> QED
      BY <2>4, <3>1 DEF low, f
  <2>13. Balance(frames', rc', exc', static')
    <3> SUFFICES ASSUME NEW o \in Objs
                 PROVE  rc'[o] = Owners(Append(low, f), o) + One(Nil, o) + One(static, o)
      BY <2>4 DEF Balance, low, f
    <3>1. Owners(Append(low, f), o) = Owners(low, o) + Weight(f, o)
      BY <2>6, <2>8, OwnersAppend
    <3>2. Weight(f, o) = One(e, o) /\ Owners(low, o) \in Nat
      BY <2>6, <2>8, OwnersNat
    <3>3. rc'[o] = mid[o] - (Owners(fs, o) - Owners(low, o))
      BY <2>4, <2>8
    <3>4. mid[o] = Owners(fs, o) + One(static, o) + One(e, o)
      BY <1>4
    <3> QED
      BY <1>5, <3>1, <3>2, <3>3, <3>4
  <2>14. Types(exc', static', rc')
    BY <2>4, <2>8 DEF Types
  <2>15. ArgsGone(frames', cstack') /\ Bases(cstack')
    BY <2>4 DEF ArgsGone
  <2> QED
    BY <2>12, <2>13, <2>14, <2>15 DEF Ledger
<1>7. CASE ~(T # {} /\ e # "internal")
  <2> DEFINE err == IF e \in Objs THEN "x" ELSE e
             ds == [Front(cs) EXCEPT ![Len(cs) - 1].err = err]
             low == SubSeq(fs, 1, b)
  <2>1. frames' = low /\ cstack' = ds /\ rc' = Release(mid, fs, b + 1) /\ exc' = e
    BY <1>3, <1>7 DEF Throw, EndRun, mid
  <2>2. err \in {"ok"} \cup Codes /\ err # "ok"
    BY ObjsAssumption DEF Codes
  <2> HIDE DEF err
  <2>3. Bases(ds) /\ ArgsGone(frames', ds)
    BY <1>1, <1>2, <2>2, EndRunLedger
  <2> HIDE DEF ds
  <2>4. b \in 0 .. Len(fs)
    BY <1>1
  <2>5. /\ low \in Seq(FrameType)
        /\ Release(mid, fs, b + 1) \in [Objs -> Int]
        /\ \A o \in Objs : Release(mid, fs, b + 1)[o] = mid[o] - (Owners(fs, o) - Owners(low, o))
    BY <1>1, <1>2, <1>4, <2>4, ReleaseTakes
  <2>6. Len(low) = b /\ \A i \in 1 .. b : low[i] = fs[i]
    <3> HIDE DEF b
    <3>1. \A i \in 1 .. b : fs[i] \in FrameType
      BY <1>1, <1>2
    <3> QED
      BY <1>1, <3>1, SubSeqProperties
  <2> HIDE DEF low
  <2>7. Sound(low)
    <3>1. Len(low) \in Nat /\ Len(low) <= Len(fs)
      BY <1>1, <2>6
    <3> QED
      BY <1>1, <2>6, <3>1, SoundKept
  <2>8. Balance(frames', rc', exc', static')
    <3> SUFFICES ASSUME NEW o \in Objs
                 PROVE  rc'[o] = Owners(low, o) + One(e, o) + One(static, o)
      BY <2>1 DEF Balance
    <3>1. rc'[o] = mid[o] - (Owners(fs, o) - Owners(low, o)) /\ Owners(low, o) \in Nat
      BY <2>1, <2>5, OwnersNat
    <3>2. mid[o] = Owners(fs, o) + One(static, o) + One(e, o)
      BY <1>4
    <3> QED
      BY <1>5, <3>1, <3>2
  <2>9. Types(exc', static', rc')
    BY <2>1, <2>5 DEF Types
  <2> QED
    BY <2>1, <2>3, <2>7, <2>8, <2>9 DEF Ledger
<1> QED
  BY <1>6, <1>7

\* A frame whose arguments or variables change.
WithArgs(fs, m, s) == [fs EXCEPT ![m].args = s]
WithVars(fs, m, s) == [fs EXCEPT ![m].vars = s]

LEMMA ArgsStep ==
    ASSUME NEW fs \in Seq(FrameType), Sound(fs), NEW m \in 1 .. Len(fs), NEW s \in Seq(Objs)
    PROVE  /\ WithArgs(fs, m, s) \in Seq(FrameType) /\ Len(WithArgs(fs, m, s)) = Len(fs)
           /\ Sound(WithArgs(fs, m, s))
           /\ WithArgs(fs, m, s)[m].args = s /\ WithArgs(fs, m, s)[m].kind = fs[m].kind
           /\ WithArgs(fs, m, s)[m].tmp = fs[m].tmp /\ WithArgs(fs, m, s)[m].limbo = fs[m].limbo
           /\ WithArgs(fs, m, s)[m].vars = fs[m].vars
           /\ \A i \in 1 .. Len(fs) : i # m => WithArgs(fs, m, s)[i] = fs[i]
           /\ \A o \in Objs :
                 /\ Owners(WithArgs(fs, m, s), o) = Owners(fs, o) - Count(fs[m].args, o) + Count(s, o)
                 /\ Count(fs[m].args, o) \in Nat /\ Count(s, o) \in Nat /\ Owners(fs, o) \in Nat
<1> DEFINE f == [fs[m] EXCEPT !.args = s]
           gs == WithArgs(fs, m, s)
<1>1. fs[m] \in FrameType /\ Len(fs) \in Nat
  OBVIOUS
<1>2. /\ f \in FrameType
      /\ f.args = s /\ f.kind = fs[m].kind /\ f.tmp = fs[m].tmp /\ f.limbo = fs[m].limbo /\ f.vars = fs[m].vars
  BY <1>1 DEF FrameType
<1>3. \A o \in Objs : Weight(f, o) = Weight(fs[m], o) - Count(fs[m].args, o) + Count(s, o)
  BY <1>1, WeightArgs
<1>4. gs = [fs EXCEPT ![m] = f]
  BY DEF WithArgs
<1> HIDE DEF f, gs
<1>5. /\ gs \in Seq(FrameType) /\ Len(gs) = Len(fs)
      /\ \A o \in Objs : Owners(gs, o) = Owners(fs, o) - Weight(fs[m], o) + Weight(f, o)
  <2>1. [fs EXCEPT ![m] = f] \in Seq(FrameType) /\ Len([fs EXCEPT ![m] = f]) = Len(fs)
    BY <1>2, ExceptSeq
  <2>2. \A o \in Objs :
          Owners([fs EXCEPT ![m] = f], o) = Owners(fs, o) - Weight(fs[m], o) + Weight(f, o)
    BY <1>2, OwnersExcept
  <2> QED
    BY <1>4, <2>1, <2>2
<1>6. gs[m] = f /\ \A i \in 1 .. Len(fs) : i # m => gs[i] = fs[i]
  BY <1>1, <1>4
<1>7. ASSUME NEW o \in Objs
      PROVE  /\ Owners(gs, o) = Owners(fs, o) - Count(fs[m].args, o) + Count(s, o)
             /\ Count(fs[m].args, o) \in Nat /\ Count(s, o) \in Nat /\ Owners(fs, o) \in Nat
  <2>1. Owners(gs, o) = Owners(fs, o) - Weight(fs[m], o) + Weight(f, o)
    BY <1>5
  <2>2. Weight(f, o) = Weight(fs[m], o) - Count(fs[m].args, o) + Count(s, o)
    BY <1>3
  <2>3. Count(fs[m].args, o) \in Nat /\ Count(s, o) \in Nat /\ Weight(fs[m], o) \in Nat
    BY <1>1, FrameParts, CountNat, WeightParts
  <2>4. Owners(fs, o) \in Nat
    BY OwnersNat
  <2> QED
    BY <2>1, <2>2, <2>3, <2>4
<1>8. Sound(gs)
  <2>1. \A i \in 1 .. Len(gs) :
          /\ gs[i].kind = fs[i].kind /\ gs[i].limbo = fs[i].limbo /\ gs[i].tmp = fs[i].tmp
          /\ gs[i].vars = fs[i].vars
    BY <1>2, <1>5, <1>6
  <2> QED
    BY SMTT(30), <1>1, <1>5, <2>1, SoundKept
<1> QED
  BY <1>2, <1>5, <1>6, <1>7, <1>8 DEF gs

LEMMA VarsStep ==
    ASSUME NEW fs \in Seq(FrameType), Sound(fs), NEW m \in 1 .. Len(fs), fs[m].kind = "eel",
           NEW s \in Seq(Objs)
    PROVE  /\ WithVars(fs, m, s) \in Seq(FrameType) /\ Sound(WithVars(fs, m, s))
           /\ \A o \in Objs :
                 /\ Owners(WithVars(fs, m, s), o) = Owners(fs, o) - Count(fs[m].vars, o) + Count(s, o)
                 /\ Count(fs[m].vars, o) \in Nat /\ Count(s, o) \in Nat /\ Owners(fs, o) \in Nat
<1> DEFINE f == [fs[m] EXCEPT !.vars = s]
           gs == WithVars(fs, m, s)
<1>1. fs[m] \in FrameType /\ Len(fs) \in Nat
  OBVIOUS
<1>2. f \in FrameType /\ f.kind = "eel" /\ f.tmp = fs[m].tmp /\ f.limbo = fs[m].limbo
  BY <1>1 DEF FrameType
<1>3. \A o \in Objs : Weight(f, o) = Weight(fs[m], o) - Count(fs[m].vars, o) + Count(s, o)
  BY <1>1, WeightVars
<1>4. gs = [fs EXCEPT ![m] = f]
  BY DEF WithVars
<1> HIDE DEF f, gs
<1>5. /\ gs \in Seq(FrameType) /\ Len(gs) = Len(fs)
      /\ \A o \in Objs : Owners(gs, o) = Owners(fs, o) - Weight(fs[m], o) + Weight(f, o)
  <2>1. [fs EXCEPT ![m] = f] \in Seq(FrameType) /\ Len([fs EXCEPT ![m] = f]) = Len(fs)
    BY <1>2, ExceptSeq
  <2>2. \A o \in Objs :
          Owners([fs EXCEPT ![m] = f], o) = Owners(fs, o) - Weight(fs[m], o) + Weight(f, o)
    BY <1>2, OwnersExcept
  <2> QED
    BY <1>4, <2>1, <2>2
<1>6. gs[m] = f /\ \A i \in 1 .. Len(fs) : i # m => gs[i] = fs[i]
  BY <1>1, <1>4
<1>7. ASSUME NEW o \in Objs
      PROVE  /\ Owners(gs, o) = Owners(fs, o) - Count(fs[m].vars, o) + Count(s, o)
             /\ Count(fs[m].vars, o) \in Nat /\ Count(s, o) \in Nat /\ Owners(fs, o) \in Nat
  <2>1. Owners(gs, o) = Owners(fs, o) - Weight(fs[m], o) + Weight(f, o)
    BY <1>5
  <2>2. Weight(f, o) = Weight(fs[m], o) - Count(fs[m].vars, o) + Count(s, o)
    BY <1>3
  <2>3. Count(fs[m].vars, o) \in Nat /\ Count(s, o) \in Nat /\ Weight(fs[m], o) \in Nat
    BY <1>1, FrameParts, CountNat, WeightParts
  <2>4. Owners(fs, o) \in Nat
    BY OwnersNat
  <2> QED
    BY <2>1, <2>2, <2>3, <2>4
<1>8. Sound(gs)
  <2>1. \A i \in 1 .. Len(gs) :
          /\ gs[i].kind = fs[i].kind /\ gs[i].limbo = fs[i].limbo /\ gs[i].tmp = fs[i].tmp
          /\ gs[i].kind = "c" => gs[i].vars = fs[i].vars
    BY <1>2, <1>5, <1>6
  <2> QED
    BY SMTT(30), <1>1, <1>5, <2>1, SoundKept
<1> QED
  BY <1>5, <1>7, <1>8 DEF gs

\* A result comes into R[0] of a C function, or is dropped from there.
LEMMA RegisterStep ==
    ASSUME NEW fs \in Seq(FrameType), Sound(fs), Len(fs) >= 1, fs[Len(fs)].kind = "c",
           NEW v \in Objs \cup {Nil}
    PROVE  LET gs == [fs EXCEPT ![Len(fs)].tmp = v]
           IN  /\ gs \in Seq(FrameType) /\ Len(gs) = Len(fs) /\ Sound(gs)
               /\ gs[Len(fs)].args = fs[Len(fs)].args
               /\ \A o \in Objs :
                     /\ Owners(gs, o) = Owners(fs, o) - One(fs[Len(fs)].tmp, o) + One(v, o)
                     /\ Owners(fs, o) \in Nat
<1> DEFINE n == Len(fs)
           f == [fs[n] EXCEPT !.tmp = v]
           gs == [fs EXCEPT ![n].tmp = v]
<1>1. fs[n] \in FrameType /\ n \in 1 .. n /\ n \in Nat
  OBVIOUS
<1>2. /\ f \in FrameType /\ f.kind = "c" /\ f.limbo = fs[n].limbo /\ f.vars = fs[n].vars
      /\ f.args = fs[n].args
  BY <1>1 DEF FrameType
<1>3. \A o \in Objs : Weight(f, o) = Weight(fs[n], o) - One(fs[n].tmp, o) + One(v, o)
  BY <1>1, WeightTmp
<1>4. gs = [fs EXCEPT ![n] = f]
  OBVIOUS
<1> HIDE DEF f, gs
<1>5. /\ gs \in Seq(FrameType) /\ Len(gs) = n
      /\ \A o \in Objs : Owners(gs, o) = Owners(fs, o) - Weight(fs[n], o) + Weight(f, o)
  <2>1. [fs EXCEPT ![n] = f] \in Seq(FrameType) /\ Len([fs EXCEPT ![n] = f]) = n
    BY <1>1, <1>2, ExceptSeq
  <2>2. \A o \in Objs :
          Owners([fs EXCEPT ![n] = f], o) = Owners(fs, o) - Weight(fs[n], o) + Weight(f, o)
    BY <1>1, <1>2, OwnersExcept
  <2> QED
    BY <1>4, <2>1, <2>2
<1>6. gs[n] = f /\ \A i \in 1 .. n : i # n => gs[i] = fs[i]
  BY <1>1, <1>4
<1>7. ASSUME NEW o \in Objs
      PROVE  /\ Owners(gs, o) = Owners(fs, o) - One(fs[n].tmp, o) + One(v, o)
             /\ Owners(fs, o) \in Nat
  <2>1. Owners(gs, o) = Owners(fs, o) - Weight(fs[n], o) + Weight(f, o)
    BY <1>5
  <2>2. Weight(f, o) = Weight(fs[n], o) - One(fs[n].tmp, o) + One(v, o)
    BY <1>3
  <2>3. One(fs[n].tmp, o) \in Nat /\ One(v, o) \in Nat /\ Weight(fs[n], o) \in Nat
    BY <1>1, WeightParts DEF One
  <2>4. Owners(fs, o) \in Nat
    BY OwnersNat
  <2> QED
    BY <2>1, <2>2, <2>3, <2>4
<1>8. CleanC(gs)
  BY <1>1, <1>2, <1>5, <1>6 DEF Sound, CleanC
<1>9. \A i \in 1 .. n : gs[i].limbo = fs[i].limbo
  BY <1>2, <1>6
<1>10. Borrowed(gs)
  <2> SUFFICES ASSUME NEW i \in 1 .. n, gs[i].kind = "eel", gs[i].tmp \in Objs
               PROVE  \E j \in 1 .. i : gs[i].tmp \in gs[j].limbo
    BY <1>5 DEF Borrowed
  <2>1. i # n
    BY <1>2, <1>6
  <2>2. PICK j \in 1 .. i : fs[i].tmp \in fs[j].limbo
    BY <1>6, <2>1 DEF Sound, Borrowed
  <2>3. j \in 1 .. n
    BY <1>1
  <2> QED
    BY <1>6, <1>9, <2>1, <2>2, <2>3
<1>11. OneList(gs)
  BY <1>5, <1>9 DEF Sound, OneList
<1> QED
  BY <1>2, <1>5, <1>6, <1>7, <1>8, <1>10, <1>11 DEF Sound, gs

\* A function returns: what its frames own goes, the result is handed over.
LEMMA LeaveLedger ==
    ASSUME Shape(frames, cstack), InEel, Sound(frames), Bases(cstack),
           NEW n \in cstack[Len(cstack) - 1].base + 1 .. Depth,
           NEW result \in {0, n - 1}, NEW v \in Objs \cup {Nil}, v \in Objs => Owners(frames, v) >= 1,
           NEW r \in [Objs -> Int], NEW x, Balance(frames, r, x, static),
           Leave(n, result, v, r)
    PROVE  /\ Sound(frames') /\ ArgsGone(frames', cstack') /\ Bases(cstack')
           /\ rc' \in [Objs -> Int] /\ Balance(frames', rc', x, static)
<1> DEFINE b == cstack[Len(cstack) - 1].base
           m == n - 1
           low == SubSeq(frames, 1, m)
           kept == [low EXCEPT ![m].args = << >>]
           put == [kept EXCEPT ![m].tmp = v]
           mid == IF result = 0 THEN r ELSE Own(r, v)
           rel == Release(mid, frames, n)
           left == ClearArgs(rel, frames[m].args)
           w == IF result = 0 THEN Nil ELSE v
<1>1. /\ cstack[Len(cstack)].kind = "run"
      /\ cstack \in Seq(EntryType) /\ frames \in Seq(FrameType)
  BY DEF InEel, Last, Shape, Turns, Frames
<1>2. /\ Depth \in Nat /\ Depth = Len(frames) /\ Len(cstack) \in Nat /\ Len(cstack) >= 2
      /\ b \in 1 .. Depth - 1
      /\ \A i \in b + 1 .. Depth : frames[i].kind = "eel"
      /\ cstack[Len(cstack) - 1].kind = "c"
  BY <1>1, InsideRun DEF Depth
<1>3. /\ m \in 1 .. Depth /\ m < Depth /\ m \in 0 .. Depth /\ m + 1 = n /\ m \in b .. Depth
      /\ result \in {0, m} /\ m # 0
  BY <1>2
<1> HIDE DEF m
<1>4. /\ low \in Seq(FrameType) /\ Len(low) = m /\ \A i \in 1 .. m : low[i] = frames[i]
  <2>1. \A i \in 1 .. m : frames[i] \in FrameType
    BY <1>1, <1>2, <1>3
  <2> QED
    BY <1>1, <1>3, <2>1, SubSeqProperties
<1> HIDE DEF low
<1>5. Sound(low)
  <2>1. Len(low) \in Nat /\ Len(low) <= Len(frames)
    BY <1>2, <1>3, <1>4
  <2> QED
    BY <1>2, <1>4, <2>1, SoundKept
<1>6. /\ mid \in [Objs -> Int] /\ \A o \in Objs : mid[o] = r[o] + One(w, o)
  <2>1. CASE result = 0
    <3>1. mid = r /\ w = Nil
      BY <2>1
    <3>2. \A o \in Objs : One(Nil, o) = 0 /\ r[o] \in Int
      BY ObjsAssumption DEF One
    <3> HIDE DEF mid, w
    <3> QED
      BY <3>1, <3>2
  <2>2. CASE result # 0
    <3>1. mid = Own(r, v) /\ w = v
      BY <2>2
    <3>2. v \in Objs => r[v] > 0
      <4> SUFFICES ASSUME v \in Objs
                   PROVE  r[v] > 0
        OBVIOUS
      <4>1. r[v] = Owners(frames, v) + One(x, v) + One(static, v)
        BY DEF Balance
      <4>2. Owners(frames, v) \in Nat /\ One(x, v) \in Nat /\ One(static, v) \in Nat
        BY <1>1, OwnersNat DEF One
      <4> QED
        BY <4>1, <4>2
    <3> HIDE DEF mid, w
    <3> QED
      BY <3>1, <3>2, OwnAdds
  <2> QED
    BY <2>1, <2>2
<1> HIDE DEF mid
<1>7. /\ rel \in [Objs -> Int]
      /\ \A o \in Objs : rel[o] = mid[o] - (Owners(frames, o) - Owners(low, o))
  <2>1. \A i \in m + 1 .. Len(frames) : frames[i].kind = "eel"
    BY <1>2, <1>3
  <2>2. m \in 0 .. Len(frames)
    BY <1>2, <1>3
  <2>3. /\ Release(mid, frames, m + 1) \in [Objs -> Int]
        /\ \A o \in Objs :
              Release(mid, frames, m + 1)[o] = mid[o] - (Owners(frames, o) - Owners(SubSeq(frames, 1, m), o))
    BY <1>1, <1>6, <2>1, <2>2, ReleaseTakes
  <2> QED
    BY <1>3, <2>3 DEF low
<1> HIDE DEF rel
<1>8. /\ left \in [Objs -> Int]
      /\ \A o \in Objs : left[o] = rel[o] - Count(frames[m].args, o) /\ Count(frames[m].args, o) \in Nat
  <2>1. frames[m] \in FrameType
    BY <1>1, <1>2, <1>3
  <2>2. frames[m].args \in Seq(Objs)
    BY <2>1, FrameParts
  <2> QED
    BY <1>7, <2>2, ClearTakes
<1> HIDE DEF left
<1>9. /\ kept \in Seq(FrameType) /\ Len(kept) = m /\ Sound(kept)
      /\ kept[m].args = << >> /\ kept[m].kind = frames[m].kind /\ kept[m].tmp = frames[m].tmp
      /\ \A o \in Objs :
            /\ Owners(kept, o) = Owners(low, o) - Count(frames[m].args, o)
            /\ Owners(low, o) \in Nat /\ Owners(kept, o) \in Nat
  <2>1. m \in 1 .. Len(low) /\ << >> \in Seq(Objs) /\ low[m] = frames[m]
    BY <1>3, <1>4
  <2>2. /\ kept \in Seq(FrameType) /\ Len(kept) = Len(low) /\ Sound(kept)
        /\ kept[m].args = << >> /\ kept[m].kind = low[m].kind /\ kept[m].tmp = low[m].tmp
        /\ \A o \in Objs :
              /\ Owners(kept, o) = Owners(low, o) - Count(low[m].args, o) + Count(<< >>, o)
              /\ Count(low[m].args, o) \in Nat /\ Owners(low, o) \in Nat
    <3>1. kept = WithArgs(low, m, << >>)
      BY DEF WithArgs
    <3> HIDE DEF kept
    <3> QED
      BY ZenonT(40), <1>4, <1>5, <2>1, <3>1, ArgsStep
  <2>3. \A o \in Objs : Count(<< >>, o) = 0 /\ Owners(kept, o) \in Nat
    BY <2>2, CountEmpty, OwnersNat
  <2> HIDE DEF kept
  <2>4. ASSUME NEW o \in Objs
        PROVE  Owners(kept, o) = Owners(low, o) - Count(frames[m].args, o)
    <3>1. Owners(kept, o) = Owners(low, o) - Count(frames[m].args, o) + 0
      BY <2>1, <2>2, <2>3
    <3>2. Count(frames[m].args, o) \in Nat /\ Owners(low, o) \in Nat
      BY <2>1, <2>2
    <3> QED
      BY <3>1, <3>2
  <2> QED
    BY <1>4, <2>1, <2>2, <2>3, <2>4
<1>10. ASSUME NEW o \in Objs
       PROVE  /\ left[o] = Owners(kept, o) + One(x, o) + One(static, o) + One(w, o)
              /\ Owners(kept, o) \in Nat /\ One(x, o) \in Nat /\ One(static, o) \in Nat
              /\ One(w, o) \in Nat /\ One(v, o) \in Nat /\ One(Nil, o) = 0
  <2>1. /\ left[o] = rel[o] - Count(frames[m].args, o) /\ Count(frames[m].args, o) \in Nat
        /\ rel[o] = mid[o] - (Owners(frames, o) - Owners(low, o))
        /\ mid[o] = r[o] + One(w, o)
    BY <1>6, <1>7, <1>8
  <2>2. r[o] = Owners(frames, o) + One(x, o) + One(static, o)
    BY DEF Balance
  <2>3. /\ Owners(frames, o) \in Nat /\ One(x, o) \in Nat /\ One(static, o) \in Nat
        /\ One(w, o) \in Nat /\ One(v, o) \in Nat /\ One(Nil, o) = 0
    BY <1>1, OwnersNat, ObjsAssumption DEF One
  <2>4. /\ Owners(kept, o) = Owners(low, o) - Count(frames[m].args, o)
        /\ Owners(low, o) \in Nat /\ Owners(kept, o) \in Nat
    BY <1>9
  <2> HIDE DEF kept, w
  <2>5. rel[o] = Owners(low, o) + One(x, o) + One(static, o) + One(w, o)
    BY SMTT(30), <2>1, <2>2, <2>3, <2>4
  <2>6. left[o] = rel[o] - Count(frames[m].args, o) /\ Count(frames[m].args, o) \in Nat
    BY <2>1
  <2>7. left[o] = Owners(kept, o) + One(x, o) + One(static, o) + One(w, o)
    BY <2>3, <2>4, <2>5, <2>6
  <2> QED
    BY <2>3, <2>4, <2>7
<1> DEFINE done == IF result = 0 THEN kept ELSE [kept EXCEPT ![result].tmp = v]
<1>11. done = IF result = 0 THEN kept ELSE put
  BY <1>3
<1>12. /\ frames[m].kind = "c" => EndRun(cstack, "ok") /\ frames' = done /\ rc' = left
       /\ frames[m].kind # "c" =>
             /\ cstack' = cstack
             /\ frames' = IF result = 0 THEN done ELSE ToLimbo(done, v)
             /\ rc' = IF result = 0 THEN left ELSE Received(left, done, v)
  BY DEF Leave, m, low, left, rel, mid
<1> HIDE DEF kept, done
<1>13. CASE frames[m].kind = "c"
  <2>1. /\ frames' \in Seq(FrameType) /\ Sound(frames') /\ Len(frames') = m /\ frames'[m].args = << >>
        /\ \A o \in Objs : Owners(frames', o) = Owners(kept, o) + One(w, o)
    <3>1. CASE result = 0
      <4>1. frames' = kept /\ w = Nil
        BY <1>11, <1>12, <1>13, <3>1
      <4> HIDE DEF w
      <4> QED
        BY <1>9, <1>10, <4>1
    <3>2. CASE result # 0
      <4>1. frames' = put /\ w = v
        BY <1>11, <1>12, <1>13, <3>2
      <4> HIDE DEF w
      <4>2. kept[Len(kept)].kind = "c" /\ kept[Len(kept)].tmp = Nil /\ Len(kept) >= 1
        <5>1. frames[m].tmp = Nil
          BY <1>2, <1>3, <1>13 DEF Sound, CleanC
        <5> QED
          BY <1>3, <1>9, <1>13, <5>1
      <4>3. put = [kept EXCEPT ![Len(kept)].tmp = v]
        BY <1>9
      <4> HIDE DEF put
      <4>4. /\ put \in Seq(FrameType) /\ Len(put) = Len(kept) /\ Sound(put)
            /\ put[Len(kept)].args = kept[Len(kept)].args
            /\ \A o \in Objs : Owners(put, o) = Owners(kept, o) - One(Nil, o) + One(v, o)
        <5>1. LET gs == [kept EXCEPT ![Len(kept)].tmp = v]
              IN  /\ gs \in Seq(FrameType) /\ Len(gs) = Len(kept) /\ Sound(gs)
                  /\ gs[Len(kept)].args = kept[Len(kept)].args
                  /\ \A o \in Objs : Owners(gs, o) = Owners(kept, o) - One(kept[Len(kept)].tmp, o) + One(v, o)
          BY <1>9, <4>2, RegisterStep
        <5> QED
          BY <4>2, <4>3, <5>1
      <4>5. ASSUME NEW o \in Objs
            PROVE  Owners(put, o) = Owners(kept, o) + One(v, o)
        <5>1. Owners(put, o) = Owners(kept, o) - One(Nil, o) + One(v, o)
          BY <4>4
        <5> QED
          BY <1>10, <5>1
      <4> QED
        BY <1>9, <4>1, <4>4, <4>5
    <3> QED
      BY <3>1, <3>2
  <2>2. rc' = left /\ EndRun(cstack, "ok")
    BY <1>12, <1>13
  <2>3. Bases(cstack') /\ ArgsGone(frames', cstack')
    <3> DEFINE ds == [Front(cstack) EXCEPT ![Len(cstack) - 1].err = "ok"]
    <3>1. frames'[Len(frames')].args = << >> /\ "ok" \in {"ok"} \cup Codes
      BY <2>1
    <3>2. Bases(ds) /\ ArgsGone(frames', ds)
      BY <1>1, <1>2, <3>1, EndRunLedger
    <3> QED
      BY <2>2, <3>2 DEF EndRun
  <2>4. Balance(frames', rc', x, static)
    <3> SUFFICES ASSUME NEW o \in Objs
                 PROVE  left[o] = Owners(frames', o) + One(x, o) + One(static, o)
      BY <2>2 DEF Balance
    <3> HIDE DEF w
    <3>1. Owners(frames', o) = Owners(kept, o) + One(w, o)
      BY <2>1
    <3> QED
      BY <1>10, <3>1
  <2> QED
    BY <1>8, <2>1, <2>2, <2>3, <2>4
<1>14. CASE frames[m].kind # "c"
  <2>1. kept[Len(kept)].kind = "eel" /\ Len(kept) >= 1
    <3>1. frames[m] \in FrameType
      BY <1>1, <1>2, <1>3
    <3>2. frames[m].kind = "eel"
      BY <1>14, <3>1, FrameParts
    <3> QED
      BY <1>3, <1>9, <3>2
  <2>2. cstack' = cstack /\ ArgsGone(frames', cstack') /\ Bases(cstack')
    <3>1. cstack' = cstack
      BY <1>12, <1>14
    <3>2. ArgsGone(frames', cstack)
      BY <1>1 DEF ArgsGone
    <3> QED
      BY <3>1, <3>2
  <2>3. CASE result = 0
    <3>1. frames' = kept /\ rc' = left /\ w = Nil
      BY <1>11, <1>12, <1>14, <2>3
    <3>2. ASSUME NEW o \in Objs
          PROVE  left[o] = Owners(kept, o) + One(x, o) + One(static, o)
      BY <1>10, <3>1
    <3> QED
      BY <1>8, <1>9, <2>2, <3>1, <3>2 DEF Balance
  <2>4. CASE result # 0
    <3>1. frames' = ToLimbo(put, v) /\ rc' = Received(left, put, v) /\ w = v
      BY <1>11, <1>12, <1>14, <2>4
    <3>2. put = [kept EXCEPT ![Len(kept)].tmp = v]
      BY <1>9
    <3> HIDE DEF put, w
    <3>3. Sound(ToLimbo(put, v))
      BY <1>9, <2>1, <3>2, SoundLanded
    <3>4. /\ ToLimbo(put, v) \in Seq(FrameType) /\ Received(left, put, v) \in [Objs -> Int]
          /\ \A o \in Objs :
                Received(left, put, v)[o] = left[o] - One(v, o) - Owners(kept, o) + Owners(ToLimbo(put, v), o)
      BY <1>8, <1>9, <2>1, <3>2, LandedReceived
    <3>5. ASSUME NEW o \in Objs
          PROVE  rc'[o] = Owners(frames', o) + One(x, o) + One(static, o)
      <4>1. rc'[o] = left[o] - One(v, o) - Owners(kept, o) + Owners(frames', o)
        BY <3>1, <3>4
      <4>2. Owners(frames', o) \in Nat
        BY <3>1, <3>4, OwnersNat
      <4>3. left[o] = Owners(kept, o) + One(x, o) + One(static, o) + One(v, o)
        BY <1>10, <3>1
      <4> QED
        BY SMTT(30), <1>10, <4>1, <4>2, <4>3
    <3> QED
      BY <2>2, <3>1, <3>3, <3>4, <3>5 DEF Balance
  <2> QED
    BY <2>2, <2>3, <2>4
<1> QED
  BY <1>13, <1>14

-----------------------------------------------------------------------------
(* The steps. *)

Books == Stacks /\ Ledger(frames, cstack, rc, exc, static)

\* What holds of the counts, object by object.
LEMMA InBooks ==
    ASSUME Books
    PROVE  /\ frames \in Seq(FrameType) /\ Depth = Len(frames) /\ Depth \in Nat /\ Depth \in 1 .. Depth
           /\ Top = frames[Depth] /\ Top \in FrameType
           /\ rc \in [Objs -> Int]
           /\ \A o \in Objs :
                 /\ rc[o] = Owners(frames, o) + One(exc, o) + One(static, o)
                 /\ Owners(frames, o) \in Nat /\ One(exc, o) \in Nat /\ One(static, o) \in Nat
<1>1. frames \in Seq(FrameType) /\ Depth \in 1 .. MaxFrames /\ Top \in FrameType
  BY TopFrame DEF Books, Stacks
<1>2. Depth \in Nat /\ Depth \in 1 .. Depth
  BY <1>1, BoundsAssumption
<1>3. \A o \in Objs :
        /\ rc[o] = Owners(frames, o) + One(exc, o) + One(static, o)
        /\ Owners(frames, o) \in Nat /\ One(exc, o) \in Nat /\ One(static, o) \in Nat
  BY <1>1, OwnersNat DEF Books, Ledger, Balance, One
<1>4. rc \in [Objs -> Int]
  BY DEF Books, Ledger, Types
<1> QED
  BY <1>1, <1>2, <1>3, <1>4 DEF Depth, Top

LEMMA EelTop ==
    ASSUME Books, InEel
    PROVE  Top.kind = "eel" /\ frames[Len(frames)].kind = "eel"
<1>1. cstack[Len(cstack)].kind = "run"
  BY InLoop DEF Books, Stacks
<1> QED
  BY <1>1 DEF Books, Stacks, Shape, Tops, Top, Depth

\* What an instruction works on has an owner in some frame.
LEMMA OperandOwned ==
    ASSUME Books, InEel, NEW v \in Operands
    PROVE  /\ v \in Objs /\ Owners(frames, v) >= 1
           /\ v \in Range(Top.vars) \/ \E j \in 1 .. Depth : v \in frames[j].limbo
           /\ v = Top.tmp => \E j \in 1 .. Depth : v \in frames[j].limbo
<1>1. v \in Objs /\ (v \in Range(Top.vars) \/ v = Top.tmp)
  BY DEF Operands
<1>2. v = Top.tmp => \E j \in 1 .. Depth : v \in frames[j].limbo
  BY <1>1, InBooks, EelTop DEF Books, Ledger, Sound, Borrowed
<1>3. Owners(frames, v) >= 1
  <2>1. CASE v \in Range(Top.vars)
    BY <1>1, <2>1, InBooks, VarOwns
  <2>2. CASE v = Top.tmp
    <3>1. PICK j \in 1 .. Depth : v \in frames[j].limbo
      BY <1>2, <2>2
    <3> QED
      BY <1>1, <3>1, InBooks, VarOwns
  <2> QED
    BY <1>1, <2>1, <2>2
<1> QED
  BY <1>1, <1>2, <1>3

\* Inside a loop, nothing else is to be shown.
LEMMA InLoopLedger ==
    ASSUME Books, InEel, cstack' = cstack, Sound(frames'),
           Types(exc', static', rc'), Balance(frames', rc', exc', static')
    PROVE  Ledger(frames', cstack', rc', exc', static')
<1>1. cstack[Len(cstack)].kind = "run"
  BY InLoop DEF Books, Stacks
<1>2. ArgsGone(frames', cstack') /\ Bases(cstack')
  BY <1>1 DEF ArgsGone, Books, Ledger
<1> QED
  BY <1>2 DEF Ledger

LEMMA NewLedger ==
    ASSUME Books, INEW
    PROVE  Ledger(frames', cstack', rc', exc', static')
<1>1. PICK o \in Objs :
        /\ rc[o] = 0
        /\ SetTop([Top EXCEPT !.tmp = o, !.limbo = @ \cup {o}, !.args = << >>])
        /\ rc' = ClearArgs([rc EXCEPT ![o] = 1], Top.args)
  BY DEF INEW
<1>2. InEel /\ cstack' = cstack /\ exc' = exc /\ static' = static
  BY DEF INEW
<1>3. /\ frames \in Seq(FrameType) /\ Depth = Len(frames) /\ Depth \in Nat /\ Depth \in 1 .. Depth
      /\ Top = frames[Depth] /\ Top \in FrameType /\ rc \in [Objs -> Int]
  BY InBooks
<1>4. Top.kind = "eel" /\ Sound(frames)
  BY <1>2, EelTop DEF Books, Ledger
<1> DEFINE gs == WithArgs(frames, Depth, << >>)
           put == [gs EXCEPT ![Len(gs)].tmp = o]
           r == [rc EXCEPT ![o] = 1]
<1>5. /\ gs \in Seq(FrameType) /\ Len(gs) = Depth /\ Sound(gs)
      /\ gs[Depth].kind = "eel" /\ gs[Depth].limbo = Top.limbo
      /\ \A i \in 1 .. Depth : i # Depth => gs[i] = frames[i]
      /\ \A p \in Objs :
            /\ Owners(gs, p) = Owners(frames, p) - Count(Top.args, p) + Count(<< >>, p)
            /\ Count(Top.args, p) \in Nat
  <2>1. << >> \in Seq(Objs)
    OBVIOUS
  <2> QED
    BY ZenonT(40), <1>3, <1>4, <2>1, ArgsStep
<1>6. \A i \in 1 .. Depth : o \notin frames[i].limbo
  <2> SUFFICES ASSUME NEW i \in 1 .. Depth, o \in frames[i].limbo
               PROVE  FALSE
    OBVIOUS
  <2>1. Owners(frames, o) >= 1
    BY <1>3, VarOwns
  <2>2. /\ rc[o] = Owners(frames, o) + One(exc, o) + One(static, o)
        /\ Owners(frames, o) \in Nat /\ One(exc, o) \in Nat /\ One(static, o) \in Nat
    BY InBooks
  <2> QED
    BY <1>1, <2>1, <2>2
<1>7. ~InLimbo(gs, o)
  <2>1. \A i \in 1 .. Depth : gs[i].limbo = frames[i].limbo
    BY <1>3, <1>5
  <2>2. DOMAIN gs = 1 .. Depth
    BY <1>5
  <2> HIDE DEF gs
  <2> QED
    BY <1>6, <2>1, <2>2 DEF InLimbo
<1>8. frames' = [frames EXCEPT ![Depth] = [Top EXCEPT !.tmp = o, !.limbo = @ \cup {o}, !.args = << >>]]
  BY <1>1 DEF SetTop
<1>9. gs = [frames EXCEPT ![Depth] = [Top EXCEPT !.args = << >>]]
  BY <1>3 DEF WithArgs
<1> DEFINE f == [Top EXCEPT !.args = << >>, !.tmp = o]
<1>10. /\ put = [frames EXCEPT ![Depth] = f]
       /\ Len(put) = Depth /\ put[Depth] = f
  <2>1. put = [gs EXCEPT ![Depth] = [gs[Depth] EXCEPT !.tmp = o]]
    BY <1>5
  <2>2. gs[Depth] = [Top EXCEPT !.args = << >>] /\ DOMAIN gs = DOMAIN frames
    BY <1>3, <1>9
  <2> HIDE DEF gs, put
  <2>3. put = [frames EXCEPT ![Depth] = [gs[Depth] EXCEPT !.tmp = o]]
    BY <1>9, <2>1, <2>2
  <2>4. [gs[Depth] EXCEPT !.tmp = o] = f
    BY <1>3, <2>2 DEF FrameType
  <2>5. put = [frames EXCEPT ![Depth] = f]
    BY <2>3, <2>4
  <2> HIDE DEF f
  <2> QED
    BY <1>3, <2>5
<1>11. /\ ToLimbo(put, o) \in Seq(FrameType) /\ (InLimbo(put, o) <=> InLimbo(gs, o))
       /\ \A p \in Objs : Owners(ToLimbo(put, o), p) = Owners(gs, p) + (IF InLimbo(gs, o) THEN 0 ELSE One(o, p))
       /\ Sound(ToLimbo(put, o))
  <2>1. Len(gs) >= 1 /\ gs[Len(gs)].kind = "eel" /\ o \in Objs \cup {Nil}
    BY <1>3, <1>5
  <2> HIDE DEF gs
  <2> QED
    BY <1>5, <2>1, LandedOwners, SoundLanded
<1>12. frames' = ToLimbo(put, o)
  <2>1. Len(put) = Depth /\ put[Depth] = f
    BY <1>10
  <2>2. ToLimbo(put, o) = [put EXCEPT ![Depth].limbo = @ \cup {o}]
    BY <1>7, <1>11, <2>1 DEF ToLimbo
  <2> HIDE DEF put, f
  <2>3. ToLimbo(put, o) = [put EXCEPT ![Depth] = [f EXCEPT !.limbo = @ \cup {o}]]
    BY <1>10, <2>2
  <2>4. ToLimbo(put, o) = [frames EXCEPT ![Depth] = [f EXCEPT !.limbo = @ \cup {o}]]
    BY <1>3, <1>10, <2>3
  <2>5. [f EXCEPT !.limbo = @ \cup {o}]
          = [Top EXCEPT !.tmp = o, !.limbo = @ \cup {o}, !.args = << >>]
    BY <1>3 DEF FrameType, f
  <2> QED
    BY <1>8, <2>4, <2>5
<1> HIDE DEF gs, put
<1>13. r \in [Objs -> Int] /\ \A p \in Objs : r[p] = rc[p] + One(o, p)
  BY <1>1, <1>3 DEF One
<1> HIDE DEF r
<1>14. rc' \in [Objs -> Int] /\ \A p \in Objs : rc'[p] = r[p] - Count(Top.args, p)
  <2>1. Top.args \in Seq(Objs)
    BY <1>3, FrameParts
  <2> QED
    BY <1>1, <1>13, <2>1, ClearTakes DEF r
<1>15. ASSUME NEW p \in Objs
       PROVE  rc'[p] = Owners(frames', p) + One(exc, p) + One(static, p)
  <2>1. /\ Owners(frames', p) = Owners(gs, p) + One(o, p)
        /\ Owners(gs, p) = Owners(frames, p) - Count(Top.args, p) + Count(<< >>, p)
        /\ Count(Top.args, p) \in Nat /\ Count(<< >>, p) = 0 /\ One(o, p) \in Nat
    BY <1>5, <1>7, <1>11, <1>12, CountEmpty DEF One
  <2>2. /\ rc[p] = Owners(frames, p) + One(exc, p) + One(static, p)
        /\ Owners(frames, p) \in Nat /\ One(exc, p) \in Nat /\ One(static, p) \in Nat
    BY InBooks
  <2>3. rc'[p] = r[p] - Count(Top.args, p) /\ r[p] = rc[p] + One(o, p)
    BY <1>13, <1>14
  <2>4. Owners(gs, p) = Owners(frames, p) - Count(Top.args, p)
    BY <2>1, <2>2
  <2> QED
    BY <2>1, <2>2, <2>3, <2>4
<1>16. Types(exc', static', rc')
  BY <1>2, <1>14 DEF Types, Books, Ledger
<1>17. Balance(frames', rc', exc', static') /\ Sound(frames')
  BY <1>2, <1>11, <1>12, <1>15 DEF Balance
<1> QED
  BY <1>2, <1>16, <1>17, InLoopLedger

\* A value is borrowed.
LEMMA GetLedger ==
    ASSUME Books, GETVAR \/ GETUVAL
    PROVE  Ledger(frames', cstack', rc', exc', static')
<1>1. InEel /\ cstack' = cstack /\ exc' = exc /\ static' = static
  BY DEF GETVAR, GETUVAL, Get
<1>2. /\ frames \in Seq(FrameType) /\ Depth = Len(frames) /\ Depth \in Nat /\ Depth \in 1 .. Depth
      /\ Top = frames[Depth] /\ Top \in FrameType /\ rc \in [Objs -> Int]
  BY InBooks
<1>3. \E v \in Objs : rc[v] > 0 /\ Get(v)
  <2>1. CASE GETVAR
    <3>1. static \in Objs /\ One(static, static) = 1
      BY <2>1 DEF GETVAR, One
    <3>2. /\ rc[static] = Owners(frames, static) + One(exc, static) + One(static, static)
          /\ Owners(frames, static) \in Nat /\ One(exc, static) \in Nat
      BY <3>1, InBooks
    <3>3. rc[static] > 0
      BY <3>1, <3>2
    <3> QED
      BY <2>1, <3>1, <3>3 DEF GETVAR
  <2>2. CASE GETUVAL
    <3>1. PICK v \in Range(frames[Depth - 1].vars) : Get(v)
      BY <2>2 DEF GETUVAL
    <3>2. Depth - 1 \in 1 .. Depth
      BY <1>1, <2>2, AroundBlock DEF GETUVAL, Books, Stacks
    <3>3. frames[Depth - 1] \in FrameType
      BY <1>2, <3>2
    <3>4. v \in Objs
      <4>1. frames[Depth - 1].vars \in Seq(Objs)
        BY <3>3, FrameParts
      <4> QED
        BY <3>1, <4>1 DEF Range
    <3>5. Owners(frames, v) >= 1
      BY <1>2, <3>1, <3>2, <3>4, VarOwns
    <3>6. /\ rc[v] = Owners(frames, v) + One(exc, v) + One(static, v)
          /\ Owners(frames, v) \in Nat /\ One(exc, v) \in Nat /\ One(static, v) \in Nat
      BY <3>4, InBooks
    <3>7. rc[v] > 0
      BY <3>5, <3>6
    <3> QED
      BY <3>1, <3>4, <3>7
  <2> QED
    BY <2>1, <2>2
<1>4. PICK v \in Objs : rc[v] > 0 /\ Get(v)
  BY <1>3
<1> DEFINE gs == ToLimbo([frames EXCEPT ![Len(frames)].tmp = v], v)
<1>5. frames' = gs /\ rc' = Grabbed(rc, frames, v)
  BY <1>2, <1>4 DEF Get
<1>6. Len(frames) >= 1 /\ frames[Len(frames)].kind = "eel" /\ Sound(frames)
  BY <1>1, <1>2, EelTop DEF Books, Ledger
<1>7. Sound(gs)
  BY <1>2, <1>6, SoundLanded
<1>8. /\ gs \in Seq(FrameType) /\ Grabbed(rc, frames, v) \in [Objs -> Int]
      /\ \A o \in Objs : Grabbed(rc, frames, v)[o] = rc[o] - Owners(frames, o) + Owners(gs, o)
  BY <1>2, <1>4, <1>6, LandedGrabbed
<1> HIDE DEF gs
<1>9. ASSUME NEW o \in Objs
      PROVE  rc'[o] = Owners(frames', o) + One(exc, o) + One(static, o)
  <2>1. rc'[o] = rc[o] - Owners(frames, o) + Owners(frames', o) /\ Owners(frames', o) \in Nat
    BY <1>5, <1>8, OwnersNat
  <2>2. /\ rc[o] = Owners(frames, o) + One(exc, o) + One(static, o)
        /\ Owners(frames, o) \in Nat /\ One(exc, o) \in Nat /\ One(static, o) \in Nat
    BY InBooks
  <2> QED
    BY <2>1, <2>2
<1>10. Types(exc', static', rc')
  BY <1>1, <1>5, <1>8 DEF Types, Books, Ledger
<1>11. Balance(frames', rc', exc', static') /\ Sound(frames')
  BY <1>1, <1>5, <1>7, <1>9 DEF Balance
<1> QED
  BY <1>1, <1>10, <1>11, InLoopLedger

\* One reference moves from u to v.
LEMMA Swap ==
    ASSUME NEW r \in [Objs -> Int], NEW u, NEW v \in Objs, r[v] > One(u, v)
    PROVE  /\ Own(Disown(r, u), v) \in [Objs -> Int]
           /\ \A o \in Objs : Own(Disown(r, u), v)[o] = r[o] - One(u, o) + One(v, o)
<1> DEFINE q == Disown(r, u)
<1>1. q \in [Objs -> Int] /\ \A o \in Objs : q[o] = r[o] - One(u, o)
  BY DisownTakes
<1> HIDE DEF q
<1>2. q[v] > 0
  BY <1>1 DEF One
<1>3. Own(q, v) \in [Objs -> Int] /\ \A o \in Objs : Own(q, v)[o] = q[o] + One(v, o)
  BY <1>1, <1>2, OwnAdds
<1>4. \A o \in Objs : Own(q, v)[o] = r[o] - One(u, o) + One(v, o)
  BY <1>1, <1>3
<1> QED
  BY <1>3, <1>4 DEF q

LEMMA SetVarLedger ==
    ASSUME Books, SETVAR
    PROVE  Ledger(frames', cstack', rc', exc', static')
<1>1. InEel /\ frames' = frames /\ cstack' = cstack /\ exc' = exc
  BY DEF SETVAR
<1>2. PICK v \in Operands : static' = v /\ rc' = Own(Disown(rc, static), v)
  BY DEF SETVAR
<1>3. v \in Objs /\ Owners(frames, v) >= 1
  BY <1>1, OperandOwned
<1>4. rc[v] > One(static, v)
  <2>1. /\ rc[v] = Owners(frames, v) + One(exc, v) + One(static, v)
        /\ Owners(frames, v) \in Nat /\ One(exc, v) \in Nat /\ One(static, v) \in Nat
    BY <1>3, InBooks
  <2> QED
    BY <1>3, <2>1
<1>5. /\ rc' \in [Objs -> Int]
      /\ \A o \in Objs : rc'[o] = rc[o] - One(static, o) + One(v, o)
  BY <1>2, <1>3, <1>4, InBooks, Swap
<1>6. ASSUME NEW o \in Objs
      PROVE  rc'[o] = Owners(frames, o) + One(exc, o) + One(v, o)
  <2>1. /\ rc[o] = Owners(frames, o) + One(exc, o) + One(static, o)
        /\ Owners(frames, o) \in Nat /\ One(exc, o) \in Nat /\ One(static, o) \in Nat
    BY InBooks
  <2>2. One(v, o) \in Nat
    BY DEF One
  <2>3. rc'[o] = rc[o] - One(static, o) + One(v, o)
    BY <1>5
  <2> QED
    BY <2>1, <2>2, <2>3
<1>7. Balance(frames', rc', exc', static')
  BY <1>1, <1>2, <1>6 DEF Balance
<1>8. Types(exc', static', rc') /\ Sound(frames')
  BY <1>1, <1>2, <1>3, <1>5 DEF Types, Books, Ledger
<1> QED
  BY <1>1, <1>7, <1>8, InLoopLedger

\* The variables of a function, or its arguments, change.
LEMMA VarsLedger ==
    ASSUME Books, InEel, UNCHANGED <<cstack, exc, static>>,
           NEW m \in 1 .. Depth, frames[m].kind = "eel", NEW s \in Seq(Objs),
           frames' = WithVars(frames, m, s), rc' \in [Objs -> Int],
           \A o \in Objs : rc'[o] = rc[o] - Count(frames[m].vars, o) + Count(s, o)
    PROVE  Ledger(frames', cstack', rc', exc', static')
<1>1. frames \in Seq(FrameType) /\ Depth = Len(frames) /\ Sound(frames)
  BY InBooks DEF Books, Ledger
<1>2. /\ Sound(WithVars(frames, m, s))
      /\ \A o \in Objs :
            /\ Owners(WithVars(frames, m, s), o) = Owners(frames, o) - Count(frames[m].vars, o) + Count(s, o)
            /\ Count(frames[m].vars, o) \in Nat /\ Count(s, o) \in Nat
  BY <1>1, VarsStep
<1>3. ASSUME NEW o \in Objs
      PROVE  rc'[o] = Owners(frames', o) + One(exc, o) + One(static, o)
  <2>1. /\ rc[o] = Owners(frames, o) + One(exc, o) + One(static, o)
        /\ Owners(frames, o) \in Nat /\ One(exc, o) \in Nat /\ One(static, o) \in Nat
    BY InBooks
  <2>2. /\ Owners(frames', o) = Owners(frames, o) - Count(frames[m].vars, o) + Count(s, o)
        /\ Count(frames[m].vars, o) \in Nat /\ Count(s, o) \in Nat
    BY <1>2
  <2>3. rc'[o] = rc[o] - Count(frames[m].vars, o) + Count(s, o)
    OBVIOUS
  <2> QED
    BY <2>1, <2>2, <2>3
<1>4. Types(exc', static', rc')
  BY DEF Types, Books, Ledger
<1>5. Balance(frames', rc', exc', static') /\ Sound(frames')
  BY <1>2, <1>3 DEF Balance
<1> QED
  BY <1>4, <1>5, InLoopLedger

LEMMA PushLedger ==
    ASSUME Books, PUSH
    PROVE  Ledger(frames', cstack', rc', exc', static')
<1>1. InEel /\ cstack' = cstack /\ exc' = exc /\ static' = static
  BY DEF PUSH
<1>2. PICK v \in Operands :
        /\ SetTop([Top EXCEPT !.args = Append(@, v)])
        /\ rc' = Own(rc, v)
  BY DEF PUSH
<1> DEFINE s == Append(Top.args, v)
<1>3. /\ frames \in Seq(FrameType) /\ Depth = Len(frames) /\ Depth \in 1 .. Depth /\ Top = frames[Depth]
      /\ Top \in FrameType /\ rc \in [Objs -> Int] /\ Sound(frames)
  BY InBooks DEF Books, Ledger
<1>4. v \in Objs /\ Owners(frames, v) >= 1
  BY <1>1, OperandOwned
<1>5. s \in Seq(Objs) /\ \A o \in Objs : Count(s, o) = Count(Top.args, o) + One(v, o)
  BY <1>3, <1>4, FrameParts, CountAppend
<1>6. frames' = WithArgs(frames, Depth, s)
  BY <1>2, <1>3 DEF SetTop, WithArgs
<1>7. rc' \in [Objs -> Int] /\ \A o \in Objs : rc'[o] = rc[o] + One(v, o)
  <2>1. /\ rc[v] = Owners(frames, v) + One(exc, v) + One(static, v)
        /\ Owners(frames, v) \in Nat /\ One(exc, v) \in Nat /\ One(static, v) \in Nat
    BY <1>4, InBooks
  <2>2. rc[v] > 0
    BY <1>4, <2>1
  <2> QED
    BY <1>2, <1>3, <2>2, OwnAdds
<1> HIDE DEF s
<1>8. /\ Sound(WithArgs(frames, Depth, s))
      /\ \A o \in Objs :
            /\ Owners(WithArgs(frames, Depth, s), o) = Owners(frames, o) - Count(frames[Depth].args, o) + Count(s, o)
            /\ Count(frames[Depth].args, o) \in Nat /\ Count(s, o) \in Nat
  BY <1>3, <1>5, ArgsStep
<1>9. ASSUME NEW o \in Objs
      PROVE  rc'[o] = Owners(frames', o) + One(exc, o) + One(static, o)
  <2>1. /\ rc[o] = Owners(frames, o) + One(exc, o) + One(static, o)
        /\ Owners(frames, o) \in Nat /\ One(exc, o) \in Nat /\ One(static, o) \in Nat
    BY InBooks
  <2>2. /\ Owners(frames', o) = Owners(frames, o) - Count(Top.args, o) + Count(s, o)
        /\ Count(Top.args, o) \in Nat
    BY <1>3, <1>6, <1>8
  <2>3. rc'[o] = rc[o] + One(v, o) /\ Count(s, o) = Count(Top.args, o) + One(v, o) /\ One(v, o) \in Nat
    BY <1>5, <1>7 DEF One
  <2> QED
    BY <2>1, <2>2, <2>3
<1>10. Types(exc', static', rc')
  BY <1>1, <1>7 DEF Types, Books, Ledger
<1>11. Balance(frames', rc', exc', static') /\ Sound(frames')
  BY <1>1, <1>6, <1>8, <1>9 DEF Balance
<1> QED
  BY <1>1, <1>10, <1>11, InLoopLedger

\* Instructions that change variables.
LEMMA SetUValLedger ==
    ASSUME Books, SETUVAL
    PROVE  Ledger(frames', cstack', rc', exc', static')
<1>1. InEel /\ Top.block # "none" /\ UNCHANGED <<cstack, exc, static>>
  BY DEF SETUVAL
<1> DEFINE m == Depth - 1
<1>2. PICK i \in DOMAIN frames[m].vars, v \in Operands :
        /\ frames' = [frames EXCEPT ![m].vars[i] = v]
        /\ rc' = Own(Disown(rc, frames[m].vars[i]), v)
  BY DEF SETUVAL
<1>3. /\ frames \in Seq(FrameType) /\ Depth = Len(frames) /\ Depth \in Nat /\ Depth \in 1 .. Depth
      /\ Top = frames[Depth] /\ rc \in [Objs -> Int]
  BY InBooks
<1>4. m \in 1 .. Depth /\ m # Depth /\ frames[m].kind = "eel"
  <2>1. m \in 1 .. Depth /\ m \in cstack[Len(cstack) - 1].base + 1 .. Depth
    BY <1>1, AroundBlock DEF Books, Stacks
  <2>2. cstack[Len(cstack)].kind = "run"
    BY <1>1, InLoop DEF Books, Stacks
  <2>3. \A j \in cstack[Len(cstack) - 1].base + 1 .. Len(frames) : frames[j].kind = "eel"
    BY <2>2, InsideRun DEF Books, Stacks
  <2> QED
    BY <1>3, <2>1, <2>3
<1> HIDE DEF m
<1> DEFINE s == [frames[m].vars EXCEPT ![i] = v]
<1>5. v \in Objs /\ (v \in Range(Top.vars) \/ \E j \in 1 .. Depth : v \in frames[j].limbo)
  BY <1>1, OperandOwned
<1>6. frames[m].vars \in Seq(Objs)
  <2>1. frames[m] \in FrameType
    BY <1>3, <1>4
  <2> QED
    BY <2>1, FrameParts
<1>7. /\ s \in Seq(Objs)
      /\ \A o \in Objs : Count(s, o) = Count(frames[m].vars, o) - One(frames[m].vars[i], o) + One(v, o)
  BY <1>5, <1>6, CountExcept
<1>8. frames' = WithVars(frames, m, s)
  BY <1>2 DEF WithVars
<1>9. Owners(frames, v) >= 1 + One(frames[m].vars[i], v)
  <2>1. PICK j \in 1 .. Depth : v \in frames[j].limbo \/ (j # m /\ v \in Range(frames[j].vars))
    BY <1>3, <1>4, <1>5
  <2> QED
    BY <1>3, <1>4, <1>5, <2>1, VarAndOther
<1>10. rc[v] > One(frames[m].vars[i], v)
  <2>1. /\ rc[v] = Owners(frames, v) + One(exc, v) + One(static, v)
        /\ Owners(frames, v) \in Nat /\ One(exc, v) \in Nat /\ One(static, v) \in Nat
    BY <1>5, InBooks
  <2>2. One(frames[m].vars[i], v) \in Nat
    BY DEF One
  <2> QED
    BY <1>9, <2>1, <2>2
<1>11. /\ rc' \in [Objs -> Int]
       /\ \A o \in Objs : rc'[o] = rc[o] - One(frames[m].vars[i], o) + One(v, o)
  BY <1>2, <1>3, <1>5, <1>10, Swap
<1> HIDE DEF s
<1>12. ASSUME NEW o \in Objs
       PROVE  rc'[o] = rc[o] - Count(frames[m].vars, o) + Count(s, o)
  <2>1. Count(s, o) = Count(frames[m].vars, o) - One(frames[m].vars[i], o) + One(v, o)
    BY <1>7
  <2>2. rc'[o] = rc[o] - One(frames[m].vars[i], o) + One(v, o)
    BY <1>11
  <2>3. Count(frames[m].vars, o) \in Nat /\ One(frames[m].vars[i], o) \in Nat /\ One(v, o) \in Nat /\ rc[o] \in Int
    BY <1>3, <1>6, CountNat DEF One
  <2> QED
    BY <2>1, <2>2, <2>3
<1> QED
  BY <1>1, <1>4, <1>7, <1>8, <1>11, <1>12, VarsLedger

LEMMA AssignLedger ==
    ASSUME Books, ASSIGN
    PROVE  Ledger(frames', cstack', rc', exc', static')
<1>1. InEel /\ Top.tmp \in Objs /\ UNCHANGED <<cstack, exc, static>>
  BY DEF ASSIGN
<1> DEFINE v == Top.tmp
<1>2. PICK i \in DOMAIN Top.vars :
        /\ SetTop([Top EXCEPT !.vars[i] = v])
        /\ rc' = Own(Disown(rc, Top.vars[i]), v)
  BY DEF ASSIGN
<1>3. /\ frames \in Seq(FrameType) /\ Depth = Len(frames) /\ Depth \in 1 .. Depth
      /\ Top = frames[Depth] /\ Top \in FrameType /\ rc \in [Objs -> Int] /\ Top.kind = "eel"
  BY <1>1, InBooks, EelTop
<1>4. v \in Operands
  BY <1>1 DEF Operands
<1>5. v \in Objs /\ \E j \in 1 .. Depth : v \in frames[j].limbo
  BY <1>1, <1>4, OperandOwned
<1> HIDE DEF v
<1> DEFINE s == [Top.vars EXCEPT ![i] = v]
<1>6. /\ s \in Seq(Objs) /\ Top.vars \in Seq(Objs)
      /\ \A o \in Objs : Count(s, o) = Count(Top.vars, o) - One(Top.vars[i], o) + One(v, o)
  <2>1. Top.vars \in Seq(Objs)
    BY <1>3, FrameParts
  <2> QED
    BY <1>5, <2>1, CountExcept
<1>7. frames' = WithVars(frames, Depth, s)
  BY <1>2, <1>3 DEF SetTop, WithVars
<1>8. Owners(frames, v) >= 1 + One(Top.vars[i], v)
  <2>1. PICK j \in 1 .. Depth : v \in frames[j].limbo
    BY <1>5
  <2> QED
    BY <1>3, <1>5, <2>1, VarAndOther
<1>9. rc[v] > One(Top.vars[i], v)
  <2>1. /\ rc[v] = Owners(frames, v) + One(exc, v) + One(static, v)
        /\ Owners(frames, v) \in Nat /\ One(exc, v) \in Nat /\ One(static, v) \in Nat
    BY <1>5, InBooks
  <2>2. One(Top.vars[i], v) \in Nat
    BY DEF One
  <2> QED
    BY <1>8, <2>1, <2>2
<1>10. /\ rc' \in [Objs -> Int]
       /\ \A o \in Objs : rc'[o] = rc[o] - One(Top.vars[i], o) + One(v, o)
  BY <1>2, <1>3, <1>5, <1>9, Swap
<1> HIDE DEF s
<1>11. ASSUME NEW o \in Objs
       PROVE  rc'[o] = rc[o] - Count(Top.vars, o) + Count(s, o)
  <2>1. Count(s, o) = Count(Top.vars, o) - One(Top.vars[i], o) + One(v, o)
    BY <1>6
  <2>2. rc'[o] = rc[o] - One(Top.vars[i], o) + One(v, o)
    BY <1>10
  <2>3. Count(Top.vars, o) \in Nat /\ One(Top.vars[i], o) \in Nat /\ One(v, o) \in Nat /\ rc[o] \in Int
    BY <1>3, <1>6, CountNat DEF One
  <2> QED
    BY <2>1, <2>2, <2>3
<1> QED
  BY <1>1, <1>3, <1>6, <1>7, <1>10, <1>11, VarsLedger

LEMMA InitLedger ==
    ASSUME Books, INIT
    PROVE  Ledger(frames', cstack', rc', exc', static')
<1>1. InEel /\ UNCHANGED <<cstack, exc, static>>
  BY DEF INIT
<1>2. PICK v \in Operands :
        /\ SetTop([Top EXCEPT !.vars = Append(@, v)])
        /\ rc' = Own(rc, v)
  BY DEF INIT
<1> DEFINE s == Append(Top.vars, v)
<1>3. /\ frames \in Seq(FrameType) /\ Depth = Len(frames) /\ Depth \in 1 .. Depth
      /\ Top = frames[Depth] /\ Top \in FrameType /\ rc \in [Objs -> Int] /\ Top.kind = "eel"
  BY <1>1, InBooks, EelTop
<1>4. v \in Objs /\ Owners(frames, v) >= 1
  BY <1>1, OperandOwned
<1>5. /\ s \in Seq(Objs) /\ Top.vars \in Seq(Objs)
      /\ \A o \in Objs : Count(s, o) = Count(Top.vars, o) + One(v, o)
  BY <1>3, <1>4, FrameParts, CountAppend
<1>6. frames' = WithVars(frames, Depth, s)
  BY <1>2, <1>3 DEF SetTop, WithVars
<1>7. rc' \in [Objs -> Int] /\ \A o \in Objs : rc'[o] = rc[o] + One(v, o)
  <2>1. /\ rc[v] = Owners(frames, v) + One(exc, v) + One(static, v)
        /\ Owners(frames, v) \in Nat /\ One(exc, v) \in Nat /\ One(static, v) \in Nat
    BY <1>4, InBooks
  <2>2. rc[v] > 0
    BY <1>4, <2>1
  <2> QED
    BY <1>2, <1>3, <2>2, OwnAdds
<1> HIDE DEF s
<1>8. ASSUME NEW o \in Objs
      PROVE  rc'[o] = rc[o] - Count(Top.vars, o) + Count(s, o)
  <2>1. Count(s, o) = Count(Top.vars, o) + One(v, o) /\ rc'[o] = rc[o] + One(v, o)
    BY <1>5, <1>7
  <2>2. Count(Top.vars, o) \in Nat /\ One(v, o) \in Nat /\ rc[o] \in Int
    BY <1>3, <1>5, CountNat DEF One
  <2> QED
    BY <2>1, <2>2
<1> QED
  BY <1>1, <1>3, <1>5, <1>6, <1>7, <1>8, VarsLedger

LEMMA CleanLedger ==
    ASSUME Books, CLEAN
    PROVE  Ledger(frames', cstack', rc', exc', static')
<1>1. InEel /\ UNCHANGED <<cstack, exc, static>>
  BY DEF CLEAN
<1>2. PICK n \in 0 .. Len(Top.vars) - 1 :
        /\ SetTop([Top EXCEPT !.vars = SubSeq(@, 1, n)])
        /\ rc' = ClearArgs(rc, SubSeq(Top.vars, n + 1, Len(Top.vars)))
  BY DEF CLEAN
<1> DEFINE s == SubSeq(Top.vars, 1, n)
           t == SubSeq(Top.vars, n + 1, Len(Top.vars))
<1>3. /\ frames \in Seq(FrameType) /\ Depth = Len(frames) /\ Depth \in 1 .. Depth
      /\ Top = frames[Depth] /\ Top \in FrameType /\ rc \in [Objs -> Int] /\ Top.kind = "eel"
  BY <1>1, InBooks, EelTop
<1>4. Top.vars \in Seq(Objs)
  BY <1>3, FrameParts
<1>5. /\ s \in Seq(Objs) /\ t \in Seq(Objs)
      /\ \A o \in Objs : Count(Top.vars, o) = Count(s, o) + Count(t, o)
  <2>1. n \in 0 .. Len(Top.vars)
    BY <1>4
  <2>2. \A o \in Objs : /\ SubSeq(Top.vars, 1, n) \in Seq(Objs)
                        /\ SubSeq(Top.vars, n + 1, Len(Top.vars)) \in Seq(Objs)
                        /\ Count(Top.vars, o) = Count(SubSeq(Top.vars, 1, n), o)
                              + Count(SubSeq(Top.vars, n + 1, Len(Top.vars)), o)
    BY <1>4, <2>1, CountCut
  <2>3. s \in Seq(Objs) /\ t \in Seq(Objs)
    <3>1. \A i \in 1 .. Len(Top.vars) : Top.vars[i] \in Objs
      BY <1>4
    <3>2. n \in Nat /\ n <= Len(Top.vars) /\ Len(Top.vars) \in Nat
      BY <1>4
    <3> QED
      BY <1>4, <3>1, <3>2, SubSeqProperties
  <2> QED
    BY <2>2, <2>3
<1>6. frames' = WithVars(frames, Depth, s)
  BY <1>2, <1>3 DEF SetTop, WithVars
<1> HIDE DEF s, t
<1>7. rc' \in [Objs -> Int] /\ \A o \in Objs : rc'[o] = rc[o] - Count(t, o)
  <2>1. rc' = ClearArgs(rc, t)
    BY <1>2 DEF t
  <2> QED
    BY <1>3, <1>5, <2>1, ClearTakes
<1>8. ASSUME NEW o \in Objs
      PROVE  rc'[o] = rc[o] - Count(Top.vars, o) + Count(s, o)
  <2>1. Count(Top.vars, o) = Count(s, o) + Count(t, o) /\ rc'[o] = rc[o] - Count(t, o)
    BY <1>5, <1>7
  <2>2. Count(s, o) \in Nat /\ Count(t, o) \in Nat /\ rc[o] \in Int
    BY <1>3, <1>5, CountNat
  <2> QED
    BY <2>1, <2>2
<1> QED
  BY <1>1, <1>3, <1>5, <1>6, <1>7, <1>8, VarsLedger

\* A new frame owns nothing.
LEMMA NewFrameLedger ==
    ASSUME NEW fs \in Seq(FrameType), Sound(fs), Len(fs) >= 1,
           fs[Len(fs)].kind = "c" => fs[Len(fs)].tmp = Nil,
           NEW kind \in {"eel", "c"}, NEW block \in {"none", "try", "catch"},
           NEW result \in 0 .. MaxFrames
    PROVE  /\ Append(fs, Frame(kind, block, result)) \in Seq(FrameType)
           /\ Sound(Append(fs, Frame(kind, block, result)))
           /\ \A o \in Objs : Owners(Append(fs, Frame(kind, block, result)), o) = Owners(fs, o)
<1> DEFINE f == Frame(kind, block, result)
<1>1. /\ f \in FrameType /\ f.limbo = {} /\ f.tmp = Nil /\ f.vars = << >>
      /\ \A o \in Objs : Weight(f, o) = 0
  <2>1. f \in FrameType
    BY NewFrame
  <2>2. f.limbo = {} /\ f.tmp = Nil /\ f.vars = << >>
    BY DEF Frame
  <2>3. \A o \in Objs : Weight(f, o) = 0
    BY WeightNew
  <2> QED
    BY <2>1, <2>2, <2>3
<1> HIDE DEF f
<1>2. Append(fs, f) \in Seq(FrameType) /\ Sound(Append(fs, f))
  BY <1>1, SoundPushed, AppendProperties
<1>3. ASSUME NEW o \in Objs
      PROVE  Owners(Append(fs, f), o) = Owners(fs, o)
  <2>1. Owners(Append(fs, f), o) = Owners(fs, o) + Weight(f, o)
    BY <1>1, OwnersAppend
  <2>2. Weight(f, o) = 0 /\ Owners(fs, o) \in Nat
    BY <1>1, OwnersNat
  <2> QED
    BY <2>1, <2>2
<1> QED
  BY <1>2, <1>3 DEF f

LEMMA CallLedger ==
    ASSUME Books, ~Untry, CALL \/ call_c \/ TRY \/ UNTRY
    PROVE  Ledger(frames', cstack', rc', exc', static')
<1>1. InEel /\ exc' = exc /\ static' = static /\ rc' = rc /\ ~UNTRY
  BY DEF CALL, call_c, TRY, UNTRY
<1>2. /\ frames \in Seq(FrameType) /\ Depth = Len(frames) /\ Depth \in Nat /\ Depth \in 1 .. Depth
      /\ Top = frames[Depth] /\ Top \in FrameType /\ Sound(frames)
      /\ frames[Len(frames)].kind = "eel" /\ Depth \in 1 .. MaxFrames
  BY <1>1, InBooks, EelTop, TopFrame DEF Books, Ledger, Stacks
<1>3. \E kind \in {"eel", "c"}, block \in {"none", "try", "catch"}, result \in 0 .. MaxFrames :
        frames' = Append(frames, Frame(kind, block, result))
  <2>1. 0 \in 0 .. MaxFrames /\ Depth \in 0 .. MaxFrames /\ Top.result \in 0 .. MaxFrames
    BY <1>2, BoundsAssumption, FrameParts
  <2>2. CASE CALL
    BY <2>1, <2>2 DEF CALL
  <2>3. CASE call_c
    BY <2>1, <2>3 DEF call_c
  <2>4. CASE TRY
    BY <2>1, <2>4 DEF TRY
  <2> QED
    BY <1>1, <2>2, <2>3, <2>4
<1>4. PICK kind \in {"eel", "c"}, block \in {"none", "try", "catch"}, result \in 0 .. MaxFrames :
        frames' = Append(frames, Frame(kind, block, result))
  BY <1>3
<1>5. Sound(frames') /\ \A o \in Objs : Owners(frames', o) = Owners(frames, o)
  <2>1. Len(frames) >= 1
    BY <1>2
  <2> QED
    BY <1>2, <1>4, <2>1, NewFrameLedger
<1>6. Balance(frames', rc', exc', static') /\ Types(exc', static', rc')
  BY <1>1, <1>5 DEF Balance, Books, Ledger, Types
<1>7. CASE cstack' = cstack
  BY <1>1, <1>5, <1>6, <1>7, InLoopLedger
<1>8. CASE call_c
  <2> DEFINE e == [kind |-> "c", base |-> Depth + 1, err |-> "ok"]
  <2>1. cstack' = Append(cstack, e) /\ cstack \in Seq(EntryType)
    BY <1>8 DEF call_c, Books, Stacks, Shape, Turns
  <2>2. PICK n \in 0 .. MaxFrames : frames' = Append(frames, Frame("c", "none", n))
    BY <1>2, <1>8, BoundsAssumption DEF call_c
  <2>3. Bases(cstack')
    <3> HIDE DEF e
    <3>1. /\ Len(cstack') = Len(cstack) + 1 /\ cstack'[Len(cstack) + 1] = e
          /\ \A k \in 1 .. Len(cstack) : cstack'[k] = cstack[k]
      BY <2>1
    <3>2. e.kind = "c"
      BY DEF e
    <3> QED
      BY <2>1, <3>1, <3>2 DEF Bases, Books, Ledger
  <2>4. frames'[Len(frames')].args = << >>
    <3>1. frames'[Len(frames')] = Frame("c", "none", n)
      <4> DEFINE f == Frame("c", "none", n)
      <4> HIDE DEF f
      <4>1. Append(frames, f)[Len(Append(frames, f))] = f
        BY <1>2
      <4> QED
        BY <2>2, <4>1 DEF f
    <3> QED
      BY <3>1 DEF Frame
  <2>5. ArgsGone(frames', cstack')
    BY <2>4 DEF ArgsGone
  <2> QED
    BY <1>5, <1>6, <2>3, <2>5 DEF Ledger
<1> QED
  BY <1>1, <1>7, <1>8 DEF CALL, TRY

LEMMA RetryLedger ==
    ASSUME Books, RETRY
    PROVE  Ledger(frames', cstack', rc', exc', static')
<1> DEFINE n == Depth - 1
           low == SubSeq(frames, 1, n)
<1>1. /\ InEel /\ Top.block = "catch" /\ cstack' = cstack /\ exc' = exc /\ static' = static
      /\ frames' = Append(low, Frame("eel", "try", frames[n].result))
      /\ rc' = Release(rc, frames, Depth)
  BY DEF RETRY, Front, Depth
<1>2. /\ frames \in Seq(FrameType) /\ Depth = Len(frames) /\ Depth \in Nat /\ Depth \in 1 .. Depth
      /\ Top = frames[Depth] /\ rc \in [Objs -> Int] /\ Sound(frames)
      /\ frames[Len(frames)].kind = "eel"
  BY <1>1, InBooks, EelTop DEF Books, Ledger
<1>3. n \in 1 .. Depth /\ n + 1 = Depth /\ n \in 0 .. Depth /\ frames[n].kind = "eel"
  <2>1. n \in 1 .. Depth /\ n \in cstack[Len(cstack) - 1].base + 1 .. Depth
    BY <1>1, AroundBlock DEF Books, Stacks
  <2>2. cstack[Len(cstack)].kind = "run"
    BY <1>1, InLoop DEF Books, Stacks
  <2>3. \A j \in cstack[Len(cstack) - 1].base + 1 .. Len(frames) : frames[j].kind = "eel"
    BY <2>2, InsideRun DEF Books, Stacks
  <2> QED
    BY <1>2, <2>1, <2>3
<1> HIDE DEF n
<1>4. frames[n].result \in 0 .. MaxFrames
  <2>1. frames[n] \in FrameType
    BY <1>2, <1>3
  <2> QED
    BY <2>1, FrameParts
<1>5. /\ low \in Seq(FrameType) /\ rc' \in [Objs -> Int]
      /\ \A o \in Objs : rc'[o] = rc[o] - (Owners(frames, o) - Owners(low, o))
  <2>1. \A i \in n + 1 .. Len(frames) : frames[i].kind = "eel"
    BY <1>2, <1>3
  <2>2. /\ SubSeq(frames, 1, n) \in Seq(FrameType)
        /\ Release(rc, frames, n + 1) \in [Objs -> Int]
        /\ \A o \in Objs :
              Release(rc, frames, n + 1)[o] = rc[o] - (Owners(frames, o) - Owners(SubSeq(frames, 1, n), o))
    BY <1>2, <1>3, <2>1, ReleaseTakes
  <2> QED
    BY <1>1, <1>3, <2>2
<1>6. Len(low) = n /\ \A i \in 1 .. n : low[i] = frames[i]
  <2>1. \A i \in 1 .. n : frames[i] \in FrameType
    BY <1>2, <1>3
  <2> QED
    BY <1>2, <1>3, <2>1, SubSeqProperties
<1> HIDE DEF low
<1>7. Sound(low) /\ Len(low) >= 1 /\ low[Len(low)].kind = "eel"
  <2>1. Len(low) \in Nat /\ Len(low) <= Len(frames) /\ Len(low) >= 1 /\ low[Len(low)].kind = "eel"
    BY <1>2, <1>3, <1>6
  <2> QED
    BY <1>2, <1>6, <2>1, SoundKept
<1>8. Sound(frames') /\ \A o \in Objs : Owners(frames', o) = Owners(low, o)
  BY <1>1, <1>4, <1>5, <1>7, NewFrameLedger
<1>9. ASSUME NEW o \in Objs
      PROVE  rc'[o] = Owners(frames', o) + One(exc, o) + One(static, o)
  <2>1. /\ rc[o] = Owners(frames, o) + One(exc, o) + One(static, o)
        /\ Owners(frames, o) \in Nat /\ One(exc, o) \in Nat /\ One(static, o) \in Nat
    BY InBooks
  <2>2. rc'[o] = rc[o] - (Owners(frames, o) - Owners(low, o)) /\ Owners(low, o) \in Nat
    BY <1>5, OwnersNat
  <2> QED
    BY <1>8, <2>1, <2>2
<1>10. Balance(frames', rc', exc', static') /\ Types(exc', static', rc')
  BY <1>1, <1>5, <1>9 DEF Balance, Books, Ledger, Types
<1> QED
  BY <1>1, <1>8, <1>10, InLoopLedger

\* RETURN and RETX: the function around the blocks returns.
LEMMA ReturnLedger ==
    ASSUME Books, RETURN \/ RETX
    PROVE  Ledger(frames', cstack', rc', exc', static')
<1> DEFINE b == cstack[Len(cstack) - 1].base
           n == Max({i \in DOMAIN frames : frames[i].block = "none"})
<1>1. InEel /\ static' = static
  BY DEF RETURN, RETX
<1>2. /\ frames \in Seq(FrameType) /\ Depth = Len(frames) /\ Depth \in Nat /\ Depth \in 1 .. Depth
      /\ Top = frames[Depth] /\ Top \in FrameType /\ Top.kind = "eel"
      /\ rc \in [Objs -> Int] /\ Sound(frames) /\ Bases(cstack) /\ Shape(frames, cstack)
  BY <1>1, InBooks, EelTop DEF Books, Ledger, Stacks
<1>3. b \in 1 .. Depth - 1 /\ frames[b + 1].block = "none"
  BY <1>1, <1>2, InLoop
<1>4. n \in b + 1 .. Depth /\ Top.result \in {0, n - 1}
  <2> DEFINE S == {i \in DOMAIN frames : frames[i].block = "none"}
  <2>1. S \in SUBSET (1 .. Depth) /\ b + 1 \in S /\ S = Around(frames, Depth)
    BY <1>2, <1>3 DEF Around
  <2>2. Top.result \in {0, Max(Around(frames, Depth)) - 1}
    BY <1>2 DEF Shape, Frames, Home
  <2> HIDE DEF S
  <2>3. Max(S) \in S /\ \A x \in S : x <= Max(S)
    BY <1>2, <2>1, HasMax
  <2>4. Max(S) \in b + 1 .. Depth
    <3> HIDE DEF b
    <3> QED
      BY <1>2, <1>3, <2>1, <2>3
  <2> QED
    BY <2>1, <2>2, <2>4 DEF S
<1>5. Top.block = "none" => n = Depth
  <2> SUFFICES ASSUME Top.block = "none"
               PROVE  n = Depth
    OBVIOUS
  <2> DEFINE S == {i \in DOMAIN frames : frames[i].block = "none"}
  <2>1. S \in SUBSET (1 .. Depth) /\ Depth \in S
    BY <1>2
  <2> HIDE DEF S
  <2>2. S \in SUBSET Int /\ \A x \in S : x <= Depth
    BY <1>2, <2>1
  <2>3. Max(S) = Depth
    BY <2>1, <2>2, MaxIs
  <2> QED
    BY <2>3 DEF S
<1> HIDE DEF n
<1>6. \A v \in Operands \cup {Nil} : v \in Objs \cup {Nil} /\ (v \in Objs => Owners(frames, v) >= 1)
  BY <1>1, OperandOwned, ObjsAssumption
<1>7. CASE RETURN
  <2>1. exc' = exc /\ Balance(frames, rc, exc, static)
    BY <1>7 DEF RETURN, Books, Ledger
  <2>2. \E m \in b + 1 .. Depth : \E result \in {0, m - 1}, v \in Objs \cup {Nil} :
          (v \in Objs => Owners(frames, v) >= 1) /\ Leave(m, result, v, rc)
    <3>1. CASE Top.block = "none"
      <4>1. PICK v \in Operands \cup {Nil} : Leave(Depth, Top.result, v, rc)
        BY <1>7, <3>1 DEF RETURN
      <4>2. Depth \in b + 1 .. Depth /\ Top.result \in {0, Depth - 1}
        BY <1>4, <1>5, <3>1
      <4> QED
        BY <1>6, <4>1, <4>2
    <3>2. CASE Top.block # "none"
      <4>1. Leave(Depth, 0, Nil, rc)
        BY <1>7, <3>2 DEF RETURN
      <4>2. Depth \in b + 1 .. Depth /\ Nil \notin Objs
        BY <1>2, <1>3, ObjsAssumption
      <4> QED
        BY <4>1, <4>2
    <3> QED
      BY <3>1, <3>2
  <2>3. /\ Sound(frames') /\ ArgsGone(frames', cstack') /\ Bases(cstack')
        /\ rc' \in [Objs -> Int] /\ Balance(frames', rc', exc, static)
    BY <1>1, <1>2, <2>1, <2>2, LeaveLedger
  <2> QED
    BY <1>1, <2>1, <2>3 DEF Books, Ledger, Types
<1>8. CASE RETX
  <2> DEFINE r == Disown(rc, exc)
  <2>1. exc' = "return" /\ \E v \in Operands \cup {Nil} : Leave(n, Top.result, v, r)
    BY <1>8 DEF RETX, n
  <2>2. r \in [Objs -> Int] /\ \A o \in Objs : r[o] = rc[o] - One(exc, o)
    BY <1>2, DisownTakes
  <2> HIDE DEF r
  <2>3. Balance(frames, r, "return", static)
    <3> SUFFICES ASSUME NEW o \in Objs
                 PROVE  r[o] = Owners(frames, o) + One("return", o) + One(static, o)
      BY DEF Balance
    <3>1. /\ rc[o] = Owners(frames, o) + One(exc, o) + One(static, o)
          /\ Owners(frames, o) \in Nat /\ One(exc, o) \in Nat /\ One(static, o) \in Nat
      BY InBooks
    <3>2. One("return", o) = 0
      BY ObjsAssumption DEF One
    <3>3. r[o] = rc[o] - One(exc, o)
      BY <2>2
    <3> QED
      BY <3>1, <3>2, <3>3
  <2>4. PICK v \in Objs \cup {Nil} : (v \in Objs => Owners(frames, v) >= 1) /\ Leave(n, Top.result, v, r)
    BY <1>6, <2>1
  <2>5. /\ Sound(frames') /\ ArgsGone(frames', cstack') /\ Bases(cstack')
        /\ rc' \in [Objs -> Int] /\ Balance(frames', rc', "return", static)
    BY <1>1, <1>2, <1>4, <2>2, <2>3, <2>4, LeaveLedger
  <2> QED
    BY <1>1, <2>1, <2>5 DEF Books, Ledger, Types
<1> QED
  BY <1>7, <1>8

LEMMA RaiseLedger ==
    ASSUME Books, THROW \/ Fault
    PROVE  Ledger(frames', cstack', rc', exc', static')
<1>1. InEel /\ UNCHANGED static
  BY DEF THROW, Fault
<1>2. cstack[Len(cstack)].kind = "run"
  BY <1>1, InLoop DEF Books, Stacks
<1>3. PICK e \in Objs \cup Codes : (e \in Objs => Owners(frames, e) >= 1) /\ Throw(cstack, frames, rc, e)
  <2>1. \A v \in Operands : v \in Objs /\ Owners(frames, v) >= 1
    BY <1>1, OperandOwned
  <2>2. CASE THROW
    BY <2>1, <2>2 DEF THROW
  <2>3. CASE Fault
    BY <2>3, ObjsAssumption DEF Fault
  <2> QED
    BY <2>2, <2>3
<1> QED
  BY <1>1, <1>2, <1>3, ThrowLedger DEF Books, Ledger, Stacks

-----------------------------------------------------------------------------
(* The steps of C functions. *)

LEMMA CTop ==
    ASSUME Books, InC
    PROVE  /\ cstack[Len(cstack)].kind = "c" /\ Top.kind = "c" /\ frames[Len(frames)].kind = "c"
           /\ Top.vars = << >> /\ Top.limbo = {}
<1>1. /\ frames \in Seq(FrameType) /\ Depth = Len(frames) /\ Depth \in 1 .. Depth /\ Top = frames[Depth]
      /\ Sound(frames)
  BY InBooks DEF Books, Ledger
<1>2. /\ cstack[Len(cstack)].kind = "c" /\ Depth = cstack[Len(cstack)].base
      /\ Len(cstack) \in 1 .. Len(cstack)
  BY EmptySeq, LenProperties DEF InC, Last, Books, Stacks, Shape, Turns
<1>3. frames[Depth].kind = "c"
  BY <1>2 DEF Books, Stacks, Shape, Frames
<1> QED
  BY <1>1, <1>2, <1>3 DEF Sound, CleanC

LEMMA DropLedger ==
    ASSUME Books, Drop
    PROVE  Ledger(frames', cstack', rc', exc', static')
<1>1. /\ InC /\ Top.tmp \in Objs /\ SetTop([Top EXCEPT !.tmp = Nil]) /\ rc' = Disown(rc, Top.tmp)
      /\ cstack' = cstack /\ exc' = exc /\ static' = static
  BY DEF Drop
<1> DEFINE gs == [frames EXCEPT ![Len(frames)].tmp = Nil]
           u == frames[Len(frames)].tmp
<1>2. /\ frames \in Seq(FrameType) /\ Depth = Len(frames) /\ Depth \in Nat /\ Depth \in 1 .. Depth
      /\ Top = frames[Depth] /\ rc \in [Objs -> Int] /\ Sound(frames)
      /\ frames[Len(frames)].kind = "c"
  BY <1>1, InBooks, CTop DEF Books, Ledger
<1>3. frames' = gs /\ Top.tmp = u
  BY <1>1, <1>2 DEF SetTop
<1>4. /\ gs \in Seq(FrameType) /\ Len(gs) = Len(frames) /\ Sound(gs)
      /\ gs[Len(frames)].args = frames[Len(frames)].args
      /\ \A o \in Objs : Owners(gs, o) = Owners(frames, o) - One(u, o) + One(Nil, o)
  <2>1. Len(frames) >= 1
    BY <1>2
  <2> QED
    BY <1>2, <2>1, RegisterStep
<1> HIDE DEF gs, u
<1>5. rc' \in [Objs -> Int] /\ \A o \in Objs : rc'[o] = rc[o] - One(u, o)
  BY <1>1, <1>2, <1>3, DisownTakes
<1>6. ASSUME NEW o \in Objs
      PROVE  rc'[o] = Owners(frames', o) + One(exc, o) + One(static, o)
  <2>1. /\ rc[o] = Owners(frames, o) + One(exc, o) + One(static, o)
        /\ Owners(frames, o) \in Nat /\ One(exc, o) \in Nat /\ One(static, o) \in Nat
    BY InBooks
  <2>2. One(Nil, o) = 0 /\ One(u, o) \in Nat
    BY ObjsAssumption DEF One
  <2>3. /\ rc'[o] = rc[o] - One(u, o)
        /\ Owners(frames', o) = Owners(frames, o) - One(u, o) + One(Nil, o)
    BY <1>3, <1>4, <1>5
  <2> QED
    BY <2>1, <2>2, <2>3
<1>7. Balance(frames', rc', exc', static') /\ Types(exc', static', rc')
  BY <1>1, <1>5, <1>6 DEF Balance, Types, Books, Ledger
<1>8. ArgsGone(frames', cstack') /\ Bases(cstack') /\ Sound(frames')
  BY <1>1, <1>3, <1>4 DEF ArgsGone, Books, Ledger
<1> QED
  BY <1>7, <1>8 DEF Ledger

\* A C function calls into EEL.
LEMMA CallbackLedger ==
    ASSUME Books, eel_callf
    PROVE  Ledger(frames', cstack', rc', exc', static')
<1>1. InC /\ Top.tmp = Nil /\ exc' = Nil /\ static' = static
  BY DEF eel_callf
<1> DEFINE run == [kind |-> "run", base |-> 0, err |-> "ok"]
           ds == [cstack EXCEPT ![Len(cstack)].err = "ok"]
           q == Disown(ClearArgs(rc, Top.args), exc)
<1>2. PICK result \in {0, Depth},
           args \in {<< >>} \cup {<< v >> : v \in IF Host THEN {} ELSE Range(frames[Depth - 1].args)} :
        /\ frames' = Append([frames EXCEPT ![Depth].args = args], Frame("eel", "none", result))
        /\ rc' = IF args = << >> THEN q ELSE Own(q, args[1])
  BY DEF eel_callf
<1>3. cstack' = Append(ds, run)
  BY DEF eel_callf
<1>4. /\ frames \in Seq(FrameType) /\ Depth = Len(frames) /\ Depth \in Nat /\ Depth \in 1 .. Depth
      /\ Top = frames[Depth] /\ Top \in FrameType /\ rc \in [Objs -> Int]
      /\ Sound(frames) /\ Bases(cstack) /\ Shape(frames, cstack) /\ Depth \in 1 .. MaxFrames
  BY InBooks, TopFrame DEF Books, Ledger, Stacks
<1>5. cstack[Len(cstack)].kind = "c" /\ frames[Depth].kind = "c"
  BY <1>1, <1>4, CTop
<1>6. args = << >> \/ \E v \in Objs : /\ args = << v >>
                                      /\ \E i \in 1 .. Depth : i # Depth /\ v \in Range(frames[i].args)
  <2> SUFFICES ASSUME args # << >>
               PROVE  \E v \in Objs : /\ args = << v >>
                                      /\ \E i \in 1 .. Depth : i # Depth /\ v \in Range(frames[i].args)
    OBVIOUS
  <2>1. ~Host /\ \E v \in Range(frames[Depth - 1].args) : args = << v >>
    OBVIOUS
  <2>2. PICK v \in Range(frames[Depth - 1].args) : args = << v >>
    BY <2>1
  <2>3. Depth - 1 \in 1 .. Depth /\ Depth - 1 # Depth
    <3>1. Len(frames) >= 2
      BY <1>4, <1>5, <2>1, PopC DEF Host
    <3> QED
      BY <1>4, <3>1
  <2>4. frames[Depth - 1] \in FrameType
    BY <1>4, <2>3
  <2>5. frames[Depth - 1].args \in Seq(Objs)
    BY <2>4, FrameParts
  <2>6. v \in Objs
    BY <2>2, <2>5 DEF Range
  <2> QED
    BY <2>2, <2>3, <2>6
<1> HIDE DEF q
<1>7. q \in [Objs -> Int] /\ \A o \in Objs : q[o] = rc[o] - Count(Top.args, o) - One(exc, o)
  <2>1. Top.args \in Seq(Objs)
    BY <1>4, FrameParts
  <2> DEFINE p == ClearArgs(rc, Top.args)
  <2>2. p \in [Objs -> Int] /\ \A o \in Objs : p[o] = rc[o] - Count(Top.args, o)
    BY <1>4, <2>1, ClearTakes
  <2> HIDE DEF p
  <2>3. Disown(p, exc) \in [Objs -> Int] /\ \A o \in Objs : Disown(p, exc)[o] = p[o] - One(exc, o)
    BY <2>2, DisownTakes
  <2> QED
    BY <2>2, <2>3 DEF p, q
<1> DEFINE gs == WithArgs(frames, Depth, args)
<1>8. frames' = Append(gs, Frame("eel", "none", result)) /\ args \in Seq(Objs)
  <2>1. args \in Seq(Objs)
    <3>1. \A v \in Objs : << v >> \in Seq(Objs)
      OBVIOUS
    <3>2. << >> \in Seq(Objs)
      OBVIOUS
    <3>3. args = << >> \/ \E v \in Objs : args = << v >>
      BY <1>6
    <3>4. ASSUME NEW v \in Objs, args = << v >>
          PROVE  args \in Seq(Objs)
      <4>1. << v >> \in Seq(Objs)
        BY <3>1
      <4> QED
        BY <3>4, <4>1
    <3> QED
      BY <3>2, <3>3, <3>4
  <2> QED
    BY <1>2, <2>1 DEF WithArgs
<1>9. /\ gs \in Seq(FrameType) /\ Len(gs) = Depth /\ Sound(gs)
      /\ gs[Depth].kind = "c" /\ gs[Depth].tmp = Nil
      /\ \A o \in Objs :
            /\ Owners(gs, o) = Owners(frames, o) - Count(Top.args, o) + Count(args, o)
            /\ Count(Top.args, o) \in Nat /\ Count(args, o) \in Nat /\ Owners(frames, o) \in Nat
  BY ZenonT(40), <1>1, <1>4, <1>5, <1>8, ArgsStep
<1> HIDE DEF gs
<1>10. ASSUME NEW o \in Objs
       PROVE  q[o] = Owners(gs, o) - Count(args, o) + One(static, o)
  <2>1. /\ rc[o] = Owners(frames, o) + One(exc, o) + One(static, o)
        /\ Owners(frames, o) \in Nat /\ One(exc, o) \in Nat /\ One(static, o) \in Nat
    BY InBooks
  <2>2. q[o] = rc[o] - Count(Top.args, o) - One(exc, o)
    BY <1>7
  <2>3. /\ Owners(gs, o) = Owners(frames, o) - Count(Top.args, o) + Count(args, o)
        /\ Count(Top.args, o) \in Nat /\ Count(args, o) \in Nat
    BY <1>9
  <2> QED
    BY <2>1, <2>2, <2>3
<1>11. ASSUME NEW v \in Objs, NEW i \in 1 .. Depth, i # Depth, v \in Range(frames[i].args), args = << v >>
       PROVE  q[v] > 0
  <2>1. Weight(frames[i], v) >= 1
    BY <1>4, <1>11, VarOwns
  <2>2. Weight(frames[Depth], v) >= Count(Top.args, v)
    <3>1. /\ Held(Top, v) \in Nat /\ Count(Top.vars, v) \in Nat /\ Count(Top.args, v) \in Nat
          /\ Held(Top, v) = Count(Top.vars, v) + Count(Top.args, v) + (IF v \in Top.limbo THEN 1 ELSE 0)
          /\ Weight(Top, v) = Held(Top, v) + (IF Top.kind = "c" THEN One(Top.tmp, v) ELSE 0)
      BY <1>4, WeightParts
    <3>2. Held(Top, v) >= Count(Top.args, v)
      BY <3>1
    <3> QED
      BY <1>4, <3>1, <3>2 DEF One
  <2>3. Owners(frames, v) >= Weight(frames[i], v) + Weight(frames[Depth], v)
    BY <1>4, <1>11, OwnersTwo
  <2>4. Weight(frames[i], v) \in Nat /\ Weight(frames[Depth], v) \in Nat
    <3>1. frames[i] \in FrameType /\ frames[Depth] \in FrameType
      BY <1>4
    <3> QED
      BY <3>1, WeightParts
  <2>5. /\ rc[v] = Owners(frames, v) + One(exc, v) + One(static, v)
        /\ Owners(frames, v) \in Nat /\ One(exc, v) \in Nat /\ One(static, v) \in Nat
    BY InBooks
  <2>6. q[v] = rc[v] - Count(Top.args, v) - One(exc, v) /\ Count(Top.args, v) \in Nat
    BY <1>7, <1>9
  <2> QED
    BY <2>1, <2>2, <2>3, <2>4, <2>5, <2>6
<1>12. rc' \in [Objs -> Int] /\ \A o \in Objs : rc'[o] = q[o] + Count(args, o)
  <2>1. CASE args = << >>
    <3>1. rc' = q /\ \A o \in Objs : Count(args, o) = 0 /\ q[o] \in Int
      BY <1>2, <1>7, <2>1, CountEmpty
    <3>2. \A o \in Objs : rc'[o] = q[o] + Count(args, o)
      BY <3>1
    <3> QED
      BY <1>7, <3>1, <3>2
  <2>2. CASE args # << >>
    <3>1. PICK v \in Objs : /\ args = << v >>
                            /\ \E i \in 1 .. Depth : i # Depth /\ v \in Range(frames[i].args)
      BY <1>6, <2>2
    <3>2. rc' = Own(q, v) /\ q[v] > 0
      BY <1>2, <1>11, <2>2, <3>1
    <3>3. \A o \in Objs : Count(args, o) = One(v, o)
      BY <3>1, CountOne
    <3> QED
      BY <1>7, <3>2, <3>3, OwnAdds
  <2> QED
    BY <2>1, <2>2
<1>13. Sound(frames') /\ \A o \in Objs : Owners(frames', o) = Owners(gs, o)
  <2>1. result \in 0 .. MaxFrames /\ Len(gs) >= 1 /\ gs[Len(gs)].kind = "c" /\ gs[Len(gs)].tmp = Nil
    BY <1>4, <1>9, BoundsAssumption
  <2> QED
    BY <1>8, <1>9, <2>1, NewFrameLedger
<1>14. ASSUME NEW o \in Objs
       PROVE  rc'[o] = Owners(frames', o) + One(Nil, o) + One(static, o)
  <2>1. rc'[o] = q[o] + Count(args, o) /\ Count(args, o) \in Nat
    BY <1>9, <1>12
  <2>2. q[o] = Owners(gs, o) - Count(args, o) + One(static, o) /\ Owners(frames', o) = Owners(gs, o)
    BY <1>10, <1>13
  <2>3. Owners(gs, o) \in Nat /\ One(static, o) \in Nat /\ One(Nil, o) = 0
    BY <1>9, OwnersNat, ObjsAssumption DEF One
  <2> QED
    BY <2>1, <2>2, <2>3
<1>15. Balance(frames', rc', exc', static') /\ Types(exc', static', rc')
  BY <1>1, <1>12, <1>14 DEF Balance, Types, Books, Ledger
<1>16. ArgsGone(frames', cstack') /\ Bases(cstack')
  <2>1. cstack \in Seq(EntryType) /\ Len(cstack) \in Nat
    BY <1>4 DEF Shape, Turns
  <2>2. Len(ds) = Len(cstack) /\ \A k \in 1 .. Len(cstack) : ds[k].kind = cstack[k].kind /\ ds[k].base = cstack[k].base
    <3>1. \A k \in 1 .. Len(cstack) : cstack[k] \in EntryType
      BY <2>1
    <3> QED
      BY <2>1, <3>1 DEF EntryType
  <2>3. /\ Len(cstack') = Len(cstack) + 1 /\ cstack'[Len(cstack) + 1] = run
        /\ \A k \in 1 .. Len(cstack) : cstack'[k] = ds[k]
    <3>1. ds \in Seq(EntryType)
      <4> DEFINE e == [cstack[Len(cstack)] EXCEPT !.err = "ok"]
      <4>1. Len(cstack) \in 1 .. Len(cstack)
        BY <1>4, TopFrame
      <4>2. cstack[Len(cstack)] \in EntryType
        BY <2>1, <4>1
      <4>3. e \in EntryType
        BY <4>2 DEF EntryType
      <4>4. ds = [cstack EXCEPT ![Len(cstack)] = e]
        OBVIOUS
      <4> HIDE DEF ds, e
      <4> QED
        BY <2>1, <4>1, <4>3, <4>4, ExceptSeq
    <3> HIDE DEF ds, run
    <3> QED
      BY <1>3, <2>2, <3>1
  <2> HIDE DEF ds
  <2>4. ArgsGone(frames', cstack')
    BY <2>1, <2>3 DEF ArgsGone
  <2>5. Bases(cstack')
    <3> SUFFICES ASSUME NEW k \in 1 .. Len(cstack) + 1, cstack'[k].kind = "run"
                 PROVE  cstack'[k].base = 0
      BY <2>3 DEF Bases
    <3>1. CASE k = Len(cstack) + 1
      BY <2>3, <3>1
    <3>2. CASE k # Len(cstack) + 1
      <4>1. k \in 1 .. Len(cstack)
        BY <2>1, <3>2
      <4> QED
        BY <1>4, <2>2, <2>3, <4>1 DEF Bases
    <3> QED
      BY <3>1, <3>2
  <2> QED
    BY <2>4, <2>5
<1> QED
  BY <1>13, <1>15, <1>16 DEF Ledger

\* The frames below the C function on top, without the arguments it was given.
Below == WithArgs(Front(frames), Depth - 1, << >>)

LEMMA BelowC ==
    ASSUME Books, InC, ~Host
    PROVE  /\ Below = [Front(frames) EXCEPT ![Depth - 1].args = << >>]
           /\ Below \in Seq(FrameType) /\ Len(Below) = Depth - 1 /\ Sound(Below)
           /\ Len(Below) >= 1 /\ Below[Len(Below)].kind = "eel"
           /\ Shape(Below, Front(cstack)) /\ Bases(Front(cstack))
           /\ Front(cstack)[Len(Front(cstack))].kind = "run"
           /\ Top.args \in Seq(Objs) /\ frames[Depth - 1].args \in Seq(Objs)
           /\ \A o \in Objs :
                 /\ rc[o] = Owners(Below, o) + Count(frames[Depth - 1].args, o)
                              + Count(Top.args, o) + One(Top.tmp, o) + One(exc, o) + One(static, o)
                 /\ Owners(Below, o) \in Nat
<1> DEFINE m == Depth - 1
           low == Front(frames)
           cs == Front(cstack)
<1>1. cstack[Len(cstack)].kind = "c" /\ Len(cstack) # 1 /\ Shape(frames, cstack)
  BY CTop DEF Host, Books, Stacks
<1>2. /\ frames \in Seq(FrameType) /\ Depth = Len(frames) /\ Depth \in Nat /\ Depth \in 1 .. Depth
      /\ Top = frames[Depth] /\ Top \in FrameType /\ Sound(frames) /\ Bases(cstack)
      /\ Top.kind = "c" /\ Top.vars = << >> /\ Top.limbo = {}
  BY InBooks, CTop DEF Books, Ledger
<1>3. /\ m \in 1 .. Depth /\ m + 1 = Depth /\ Len(low) = m
      /\ Shape(low, cs) /\ \A i \in 1 .. m : low[i] = frames[i]
      /\ Len(cstack) \in Nat /\ Len(cs) = Len(cstack) - 1 /\ Len(cs) \in 1 .. Len(cs)
      /\ \A k \in 1 .. Len(cs) : cs[k] = cstack[k]
      /\ cs[Len(cs)].kind = "run"
  <2>1. /\ Len(frames) \in Nat /\ Len(frames) >= 2 /\ Len(cstack) \in Nat /\ Len(cstack) >= 2
        /\ Shape(Front(frames), Front(cstack))
        /\ Len(Front(frames)) = Len(frames) - 1 /\ Len(Front(cstack)) = Len(cstack) - 1
        /\ \A i \in 1 .. Len(frames) - 1 : Front(frames)[i] = frames[i]
        /\ \A k \in 1 .. Len(cstack) - 1 : Front(cstack)[k] = cstack[k]
        /\ cstack[Len(cstack) - 1].kind = "run"
    BY <1>1, PopC
  <2> HIDE DEF low, cs
  <2> QED
    BY <1>2, <2>1 DEF low, cs
<1>4. low = SubSeq(frames, 1, m)
  BY <1>2 DEF Front
<1> HIDE DEF m, low, cs
<1>5. low \in Seq(FrameType) /\ low[m].kind = "eel" /\ low[m] = frames[m] /\ m \in 1 .. m /\ m \in Nat
  BY <1>2, <1>3 DEF Shape, Frames, Tops
<1>6. Sound(low)
  <2>1. Len(low) \in Nat /\ Len(low) <= Len(frames) /\ Len(frames) \in Nat
    BY <1>2, <1>3
  <2> QED
    BY <1>2, <1>3, <2>1, SoundKept
<1>7. /\ Below \in Seq(FrameType) /\ Len(Below) = m /\ Sound(Below) /\ Below[m].kind = "eel"
      /\ \A i \in 1 .. m : i # m => Below[i] = low[i]
      /\ \A o \in Objs :
            /\ Owners(Below, o) = Owners(low, o) - Count(frames[m].args, o) + Count(<< >>, o)
            /\ Count(frames[m].args, o) \in Nat /\ Owners(low, o) \in Nat
  <2>1. Below = WithArgs(low, m, << >>) /\ << >> \in Seq(Objs)
    BY DEF Below, low, m
  <2>2. m \in 1 .. Len(low)
    BY <1>3, <1>5
  <2>3. /\ Below \in Seq(FrameType) /\ Len(Below) = Len(low) /\ Sound(Below)
        /\ Below[m].kind = low[m].kind
        /\ \A i \in 1 .. Len(low) : i # m => Below[i] = low[i]
        /\ \A o \in Objs :
              /\ Owners(Below, o) = Owners(low, o) - Count(low[m].args, o) + Count(<< >>, o)
              /\ Count(low[m].args, o) \in Nat /\ Owners(low, o) \in Nat
    BY ZenonT(40), <1>5, <1>6, <2>1, <2>2, ArgsStep
  <2> QED
    BY <1>3, <1>5, <2>3
<1>8. Shape(Below, cs)
  <2> DEFINE f == [low[m] EXCEPT !.args = << >>]
  <2>1. f \in FrameType /\ f.kind = low[m].kind /\ f.block = low[m].block /\ f.result = low[m].result
    <3>1. low[m] \in FrameType
      BY <1>3, <1>5
    <3>2. << >> \in Seq(Objs)
      OBVIOUS
    <3> QED
      BY <3>1, <3>2 DEF FrameType
  <2>2. Below = [low EXCEPT ![m] = f]
    BY DEF Below, WithArgs, low, m
  <2> HIDE DEF f
  <2> QED
    BY <1>3, <2>1, <2>2, Update
<1>9. Bases(cs)
  BY <1>2, <1>3 DEF Bases
<1>10. Top.args \in Seq(Objs) /\ frames[m].args \in Seq(Objs)
  <2>1. frames[m] \in FrameType
    BY <1>2, <1>3
  <2> QED
    BY <1>2, <2>1, FrameParts
<1>11. ASSUME NEW o \in Objs
       PROVE  /\ rc[o] = Owners(Below, o) + Count(frames[m].args, o)
                           + Count(Top.args, o) + One(Top.tmp, o) + One(exc, o) + One(static, o)
              /\ Owners(Below, o) \in Nat
  <2>1. frames = Append(low, Top)
    BY <1>2, <1>3, <1>4
  <2>2. Owners(frames, o) = Owners(low, o) + Weight(Top, o)
    BY <1>2, <1>5, <2>1, OwnersAppend
  <2>3. Weight(Top, o) = Count(Top.args, o) + One(Top.tmp, o) /\ Count(Top.args, o) \in Nat
    <3>1. /\ Held(Top, o) = Count(Top.vars, o) + Count(Top.args, o) + (IF o \in Top.limbo THEN 1 ELSE 0)
          /\ Weight(Top, o) = Held(Top, o) + (IF Top.kind = "c" THEN One(Top.tmp, o) ELSE 0)
          /\ Count(Top.args, o) \in Nat
      BY <1>2, WeightParts
    <3>2. Count(Top.vars, o) = 0 /\ One(Top.tmp, o) \in Nat
      BY <1>2, CountEmpty DEF One
    <3>3. Held(Top, o) = Count(Top.args, o)
      BY <1>2, <3>1, <3>2
    <3> QED
      BY <1>2, <3>1, <3>2, <3>3
  <2>4. /\ rc[o] = Owners(frames, o) + One(exc, o) + One(static, o)
        /\ One(exc, o) \in Nat /\ One(static, o) \in Nat /\ One(Top.tmp, o) \in Nat
    BY InBooks DEF One
  <2>5. /\ Owners(Below, o) = Owners(low, o) - Count(frames[m].args, o) + 0
        /\ Count(frames[m].args, o) \in Nat /\ Owners(low, o) \in Nat /\ Owners(Below, o) \in Nat
    BY <1>7, CountEmpty, OwnersNat
  <2>6. Owners(low, o) = Owners(Below, o) + Count(frames[m].args, o)
    BY <2>5
  <2> QED
    BY <2>2, <2>3, <2>4, <2>5, <2>6
<1> QED
  <2>1. Below = [Front(frames) EXCEPT ![Depth - 1].args = << >>]
    BY DEF Below, WithArgs
  <2>2. Len(Below) >= 1 /\ Below[Len(Below)].kind = "eel"
    BY <1>5, <1>7
  <2> QED
    BY <1>3, <1>7, <1>8, <1>9, <1>10, <1>11, <2>1, <2>2 DEF m, cs

\* call_c hands the result over.
LEMMA ReturnCLedger ==
    ASSUME Books, ReturnC
    PROVE  Ledger(frames', cstack', rc', exc', static')
<1> DEFINE args == frames[Depth - 1].args
<1>1. InC /\ ~Host /\ Last(cstack).err = "ok" /\ cstack' = Front(cstack) /\ exc' = exc /\ static' = static
  BY DEF ReturnC
<1>2. PICK v \in Results :
        IF Top.result = 0
        THEN frames' = Below /\ rc' = Disown(ClearArgs(ResultOwned(v), args), v)
        ELSE /\ frames' = ToLimbo([Below EXCEPT ![Depth - 1].tmp = v], v)
             /\ rc' = Received(ClearArgs(ResultOwned(v), args), [Below EXCEPT ![Depth - 1].tmp = v], v)
  <2>1. Below = [Front(frames) EXCEPT ![Depth - 1].args = << >>]
    BY <1>1, BelowC
  <2> QED
    BY <2>1 DEF ReturnC
<1>3. /\ Below \in Seq(FrameType) /\ Len(Below) = Depth - 1 /\ Sound(Below)
      /\ Len(Below) >= 1 /\ Below[Len(Below)].kind = "eel" /\ Bases(Front(cstack))
      /\ Front(cstack)[Len(Front(cstack))].kind = "run"
      /\ args \in Seq(Objs)
  BY <1>1, BelowC
<1>4. Top.tmp \in Objs \cup {Nil} /\ rc \in [Objs -> Int]
  BY InBooks, FrameParts
<1>5. v \in Objs \cup {Nil} /\ (v # Top.tmp => Top.tmp = Nil /\ v \in Objs)
  BY <1>2, <1>3, <1>4 DEF Results, Range
<1>6. Top.args = << >>
  <2>1. cstack[Len(cstack)].kind = "c" /\ Len(cstack) # 1 /\ cstack[Len(cstack)].err = "ok"
    BY <1>1, CTop DEF Host, Last
  <2> QED
    BY <2>1 DEF Books, Ledger, ArgsGone, Top, Depth
<1> HIDE DEF args
<1>7. ASSUME NEW o \in Objs
      PROVE  /\ rc[o] = Owners(Below, o) + Count(args, o) + One(Top.tmp, o) + One(exc, o) + One(static, o)
             /\ Owners(Below, o) \in Nat /\ Count(args, o) \in Nat /\ One(Top.tmp, o) \in Nat
             /\ One(exc, o) \in Nat /\ One(static, o) \in Nat /\ One(v, o) \in Nat
  <2>1. /\ rc[o] = Owners(Below, o) + Count(args, o) + Count(Top.args, o) + One(Top.tmp, o)
                     + One(exc, o) + One(static, o)
        /\ Owners(Below, o) \in Nat
    BY <1>1, BelowC DEF args
  <2>2. Count(args, o) \in Nat /\ Count(Top.args, o) = 0
    BY <1>3, <1>6, CountNat, CountEmpty
  <2>3. /\ One(Top.tmp, o) \in Nat /\ One(exc, o) \in Nat /\ One(static, o) \in Nat /\ One(v, o) \in Nat
    BY DEF One
  <2> QED
    BY <2>1, <2>2, <2>3
<1> DEFINE p == ResultOwned(v)
<1>8. p \in [Objs -> Int] /\ \A o \in Objs : p[o] = rc[o] - One(Top.tmp, o) + One(v, o)
  <2>1. CASE v = Top.tmp
    <3>1. p = rc
      BY <2>1 DEF ResultOwned
    <3> HIDE DEF p
    <3>2. \A o \in Objs : rc[o] - One(Top.tmp, o) + One(v, o) = rc[o]
      BY <1>4, <1>7, <2>1
    <3> QED
      BY <1>4, <3>1, <3>2
  <2>2. CASE v # Top.tmp
    <3>1. Top.tmp = Nil /\ v \in Objs /\ \A o \in Objs : One(Nil, o) = 0
      BY <1>5, <2>2, ObjsAssumption DEF One
    <3>2. p \in [Objs -> Int] /\ \A o \in Objs : p[o] = rc[o] + One(v, o)
      <4>1. CASE rc[v] = 0
        <5>1. p = [rc EXCEPT ![v] = 1]
          BY <2>2, <4>1 DEF ResultOwned
        <5> HIDE DEF p
        <5> QED
          BY <1>4, <3>1, <4>1, <5>1 DEF One
      <4>2. CASE rc[v] # 0
        <5>1. p = Own(rc, v)
          BY <2>2, <4>2 DEF ResultOwned
        <5>2. rc[v] > 0
          BY <1>7, <3>1, <4>2
        <5> HIDE DEF p
        <5> QED
          BY <1>4, <5>1, <5>2, OwnAdds
      <4> QED
        BY <4>1, <4>2
    <3> HIDE DEF p
    <3>3. \A o \in Objs : rc[o] - One(Top.tmp, o) + One(v, o) = rc[o] + One(v, o)
      BY <1>4, <1>7, <3>1
    <3> QED
      BY <3>2, <3>3
  <2> QED
    BY <2>1, <2>2
<1> HIDE DEF p
<1> DEFINE r == ClearArgs(p, args)
<1>9. r \in [Objs -> Int] /\ \A o \in Objs : r[o] = p[o] - Count(args, o)
  BY <1>3, <1>8, ClearTakes
<1> HIDE DEF r
<1>10. ASSUME NEW o \in Objs
       PROVE  r[o] = Owners(Below, o) + One(exc, o) + One(static, o) + One(v, o)
  <2>1. r[o] = p[o] - Count(args, o) /\ p[o] = rc[o] - One(Top.tmp, o) + One(v, o)
    BY <1>8, <1>9
  <2> QED
    BY <1>7, <2>1
<1>11. /\ rc' \in [Objs -> Int] /\ Sound(frames')
       /\ \A o \in Objs : rc'[o] = Owners(frames', o) + One(exc, o) + One(static, o)
  <2>1. CASE Top.result = 0
    <3>1. frames' = Below /\ rc' = Disown(r, v)
      BY <1>2, <2>1 DEF r, p
    <3>2. rc' \in [Objs -> Int] /\ \A o \in Objs : rc'[o] = r[o] - One(v, o)
      BY <1>9, <3>1, DisownTakes
    <3>3. ASSUME NEW o \in Objs
          PROVE  rc'[o] = Owners(Below, o) + One(exc, o) + One(static, o)
      <4>1. rc'[o] = r[o] - One(v, o)
        BY <3>2
      <4> QED
        BY <1>7, <1>10, <4>1
    <3> QED
      BY <1>3, <3>1, <3>2, <3>3
  <2>2. CASE Top.result # 0
    <3> DEFINE put == [Below EXCEPT ![Len(Below)].tmp = v]
               gs == ToLimbo(put, v)
    <3>1. frames' = gs /\ rc' = Received(r, put, v)
      BY <1>2, <1>3, <2>2 DEF r, p
    <3>2. Sound(gs)
      BY <1>3, <1>5, SoundLanded
    <3>3. /\ gs \in Seq(FrameType) /\ Received(r, put, v) \in [Objs -> Int]
          /\ \A o \in Objs :
                Received(r, put, v)[o] = r[o] - One(v, o) - Owners(Below, o) + Owners(gs, o)
      BY <1>3, <1>5, <1>9, LandedReceived
    <3> HIDE DEF put, gs
    <3>4. ASSUME NEW o \in Objs
          PROVE  rc'[o] = Owners(frames', o) + One(exc, o) + One(static, o)
      <4>1. rc'[o] = r[o] - One(v, o) - Owners(Below, o) + Owners(frames', o) /\ Owners(frames', o) \in Nat
        BY <3>1, <3>3, OwnersNat
      <4> QED
        BY <1>7, <1>10, <4>1
    <3> QED
      BY <3>1, <3>2, <3>3, <3>4
  <2> QED
    BY <2>1, <2>2
<1>12. Balance(frames', rc', exc', static') /\ Types(exc', static', rc')
  BY <1>1, <1>11 DEF Balance, Types, Books, Ledger
<1>13. ArgsGone(frames', cstack') /\ Bases(cstack')
  BY <1>1, <1>3 DEF ArgsGone
<1> QED
  BY <1>11, <1>12, <1>13 DEF Ledger

\* call_c when the callback failed.  Without untry blocks, the frame that goes
\* is the one it made.
LEMMA FailCLedger ==
    ASSUME Books, FailC
    PROVE  Ledger(frames', cstack', rc', exc', static')
<1> DEFINE args == frames[Depth - 1].args
           q == ClearArgs(rc, Top.args)
           r == ClearArgs(q, args)
           e == IF Last(cstack).err = "ok" THEN "x" ELSE Last(cstack).err
<1>1. /\ Last(cstack).kind = "c" /\ ~Host /\ UNCHANGED static
      /\ Top.kind = "c" => Top.tmp = Nil
      /\ Throw(Front(cstack), [Front(frames) EXCEPT ![Depth - 1].args = << >>], r, e)
  BY DEF FailC
<1>2. InC /\ Last(cstack) \in EntryType
  BY <1>1, TopFrame DEF InC, Books, Stacks, Shape, Tops, Last, Depth
<1>3. Top.kind = "c" /\ Top.tmp = Nil
  BY <1>1, <1>2, CTop
<1>4. /\ Below = [Front(frames) EXCEPT ![Depth - 1].args = << >>]
      /\ Below \in Seq(FrameType) /\ Sound(Below)
      /\ Shape(Below, Front(cstack)) /\ Bases(Front(cstack))
      /\ Front(cstack)[Len(Front(cstack))].kind = "run"
      /\ Top.args \in Seq(Objs) /\ args \in Seq(Objs)
  BY <1>1, <1>2, BelowC
<1>5. e \in Objs \cup Codes /\ (e \in Objs => Owners(Below, e) >= 1)
  BY <1>2, ObjsAssumption DEF EntryType, Codes
<1> HIDE DEF e
<1>6. rc \in [Objs -> Int]
  BY InBooks
<1>7. q \in [Objs -> Int] /\ \A o \in Objs : q[o] = rc[o] - Count(Top.args, o) /\ Count(Top.args, o) \in Nat
  BY <1>4, <1>6, ClearTakes
<1> HIDE DEF q
<1>8. r \in [Objs -> Int] /\ \A o \in Objs : r[o] = q[o] - Count(args, o) /\ Count(args, o) \in Nat
  BY <1>4, <1>7, ClearTakes
<1> HIDE DEF r
<1>9. ASSUME NEW o \in Objs
      PROVE  r[o] = Owners(Below, o) + One(exc, o) + One(static, o)
  <2>1. /\ rc[o] = Owners(Below, o) + Count(args, o) + Count(Top.args, o) + One(Top.tmp, o)
                     + One(exc, o) + One(static, o)
        /\ Owners(Below, o) \in Nat
    BY <1>1, <1>2, BelowC
  <2>2. One(Top.tmp, o) = 0 /\ One(exc, o) \in Nat /\ One(static, o) \in Nat
    BY <1>3, ObjsAssumption DEF One
  <2>3. /\ q[o] = rc[o] - Count(Top.args, o) /\ Count(Top.args, o) \in Nat
        /\ r[o] = q[o] - Count(args, o) /\ Count(args, o) \in Nat
    BY <1>7, <1>8
  <2> HIDE DEF args
  <2> QED
    BY <2>1, <2>2, <2>3
<1>10. Balance(Below, r, exc, static) /\ Types(exc, static, r)
  BY <1>8, <1>9 DEF Balance, Types, Books, Ledger
<1>11. Throw(Front(cstack), Below, r, e)
  BY <1>1, <1>4 DEF r, q, e
<1> QED
  BY <1>1, <1>4, <1>5, <1>10, <1>11, ThrowLedger

-----------------------------------------------------------------------------
(* The invariant of the counts. *)

LEMMA AtStart == Init => Ledger(frames, cstack, rc, exc, static)
<1> SUFFICES ASSUME Init
             PROVE  Ledger(frames, cstack, rc, exc, static)
  OBVIOUS
<1> DEFINE f == Frame("c", "none", 0)
           e == [kind |-> "c", base |-> 1, err |-> "ok"]
<1>1. /\ frames = << f >> /\ cstack = << e >> /\ exc = Nil /\ static = Nil
      /\ rc = [o \in Objs |-> 0]
  BY DEF Init
<1>2. /\ f \in FrameType /\ f.vars = << >> /\ f.limbo = {} /\ f.tmp = Nil /\ f.kind = "c"
      /\ \A o \in Objs : Weight(f, o) = 0
  <2>1. f \in FrameType
    BY NewFrame, BoundsAssumption
  <2>2. f.vars = << >> /\ f.limbo = {} /\ f.tmp = Nil /\ f.kind = "c"
    BY DEF Frame
  <2>3. 0 \in 0 .. MaxFrames
    BY BoundsAssumption
  <2>4. \A o \in Objs : Weight(f, o) = 0
    BY <2>3, WeightNew
  <2> QED
    BY <2>1, <2>2, <2>4
<1>3. e.kind = "c"
  OBVIOUS
<1> HIDE DEF f, e
<1>4. frames \in Seq(FrameType) /\ Len(frames) = 1 /\ frames[1] = f /\ Len(cstack) = 1 /\ cstack[1] = e
  BY <1>1, <1>2
<1>5. Sound(frames)
  BY <1>2, <1>4, ObjsAssumption DEF Sound, CleanC, Borrowed, OneList
<1>6. \A o \in Objs : Owners(frames, o) = 0
  <2> SUFFICES ASSUME NEW o \in Objs
               PROVE  Owners(frames, o) = 0
    OBVIOUS
  <2>1. << >> \in Seq(FrameType) /\ frames = Append(<< >>, f)
    BY <1>1
  <2>2. Owners(frames, o) = Owners(<< >>, o) + Weight(f, o)
    BY <1>2, <2>1, OwnersAppend
  <2>3. Owners(<< >>, o) = 0
    BY SumEmpty DEF Owners
  <2> QED
    BY <1>2, <2>2, <2>3
<1>7. Balance(frames, rc, exc, static)
  BY <1>1, <1>6, ObjsAssumption DEF Balance, One
<1>8. Types(exc, static, rc)
  BY <1>1 DEF Types
<1>9. ArgsGone(frames, cstack) /\ Bases(cstack)
  BY <1>3, <1>4 DEF ArgsGone, Bases
<1> QED
  BY <1>5, <1>7, <1>8, <1>9 DEF Ledger

LEMMA StepBooks == Books /\ [Next]_vars /\ ~Untry => Books'
<1> SUFFICES ASSUME Books, [Next]_vars, ~Untry
             PROVE  Books'
  OBVIOUS
<1>1. Stacks'
  BY StepShape DEF Books, Stacks
<1>2. Ledger(frames', cstack', rc', exc', static')
  <2>1. CASE INEW
    BY <2>1, NewLedger
  <2>2. CASE GETVAR \/ GETUVAL
    BY <2>2, GetLedger
  <2>3. CASE SETVAR
    BY <2>3, SetVarLedger
  <2>4. CASE SETUVAL
    BY <2>4, SetUValLedger
  <2>5. CASE INIT
    BY <2>5, InitLedger
  <2>6. CASE ASSIGN
    BY <2>6, AssignLedger
  <2>7. CASE CLEAN
    BY <2>7, CleanLedger
  <2>8. CASE PUSH
    BY <2>8, PushLedger
  <2>9. CASE CALL \/ call_c \/ TRY \/ UNTRY
    BY <2>9, CallLedger
  <2>10. CASE RETURN \/ RETX
    BY <2>10, ReturnLedger
  <2>11. CASE RETRY
    BY <2>11, RetryLedger
  <2>12. CASE THROW \/ Fault
    BY <2>12, RaiseLedger
  <2>13. CASE eel_callf
    BY <2>13, CallbackLedger
  <2>14. CASE Drop
    BY <2>14, DropLedger
  <2>15. CASE ReturnC
    BY <2>15, ReturnCLedger
  <2>16. CASE FailC
    BY <2>16, FailCLedger
  <2>17. CASE UNCHANGED vars
    BY <2>17 DEF vars, Books
  <2> QED
    BY <2>1, <2>2, <2>3, <2>4, <2>5, <2>6, <2>7, <2>8, <2>9, <2>10, <2>11, <2>12,
       <2>13, <2>14, <2>15, <2>16, <2>17 DEF Next, Instruction, CFunction
<1> QED
  BY <1>1, <1>2 DEF Books

(***************************************************************************)
(* The references that variables, argument stacks, limbo lists, R[0] of C  *)
(* functions, VMP->exception and statics hold are all that refcounts       *)
(* stand for, and registers borrow from the limbo lists, in all that       *)
(* programs without untry blocks do to the two stacks.                     *)
(***************************************************************************)
THEOREM BooksBalance == ~Untry => (Spec => []Books)
<1>1. Init => Books
  BY AtStart, InitShape DEF Books, Stacks
<1>2. ~Untry /\ Books /\ [Next]_vars => Books'
  BY StepBooks
<1> SUFFICES ASSUME ~Untry
             PROVE  Spec => []Books
  OBVIOUS
<1>3. Books /\ [Next]_vars => Books'
  BY <1>2
<1> QED
  BY <1>1, <1>3, PTL DEF Spec

LEMMA BooksGiveTypes == Books => TypeOK
<1> SUFFICES ASSUME Books
             PROVE  TypeOK
  OBVIOUS
<1> DEFINE E == [kind : {"c", "run"}, base : 0 .. MaxFrames, err : {"ok"} \cup Codes]
<1>1. /\ frames \in Seq(FrameType) /\ Depth \in 1 .. MaxFrames /\ Depth = Len(frames)
      /\ cstack \in Seq(EntryType) /\ cstack # << >>
  BY TopFrame DEF Books, Stacks, Shape, Turns, Depth
<1>2. ASSUME NEW k \in 1 .. Len(cstack)
      PROVE  cstack[k] \in E
  <2>1. cstack[k] \in EntryType
    BY <1>1
  <2>2. CASE cstack[k].kind = "run"
    <3>1. cstack[k].base = 0
      BY <2>2 DEF Books, Ledger, Bases
    <3> QED
      BY <2>1, <3>1, BoundsAssumption DEF EntryType
  <2>3. CASE cstack[k].kind = "c"
    <3>1. cstack[k].base \in 1 .. Len(frames)
      BY <2>3 DEF Books, Stacks, Shape, Frames
    <3>2. cstack[k].base \in 0 .. MaxFrames
      BY <1>1, <3>1, BoundsAssumption
    <3> QED
      BY <2>1, <3>2 DEF EntryType
  <2> QED
    BY <2>1, <2>2, <2>3 DEF EntryType
<1> HIDE DEF E
<1>3. cstack \in Seq(E)
  BY <1>1, <1>2
<1>4. rc \in [Objs -> Nat]
  <2>1. rc \in [Objs -> Int]
    BY InBooks
  <2>2. ASSUME NEW o \in Objs
        PROVE  rc[o] \in Nat
    <3>1. /\ rc[o] = Owners(frames, o) + One(exc, o) + One(static, o)
          /\ Owners(frames, o) \in Nat /\ One(exc, o) \in Nat /\ One(static, o) \in Nat
      BY InBooks
    <3> QED
      BY <3>1
  <2> QED
    BY <2>1, <2>2
<1> QED
  BY <1>1, <1>3, <1>4 DEF TypeOK, E, Books, Ledger, Types

LEMMA BooksGiveCounts == Books => Counted
BY InBooks, InSingle DEF Counted

LEMMA BooksGiveLimbo == Books => LimboOnce
<1> SUFFICES ASSUME Books
             PROVE  LimboOnce
  OBVIOUS
<1>1. DOMAIN frames = 1 .. Len(frames)
  BY InBooks
<1> QED
  BY <1>1 DEF LimboOnce, Books, Ledger, Sound, OneList

LEMMA BooksGiveTemps == Books => TempsAlive
<1> SUFFICES ASSUME Books, NEW i \in DOMAIN frames, frames[i].tmp \in Objs
             PROVE  rc[frames[i].tmp] > 0
  BY DEF TempsAlive
<1> DEFINE o == frames[i].tmp
<1>1. frames \in Seq(FrameType) /\ i \in 1 .. Len(frames) /\ frames[i] \in FrameType /\ Len(frames) \in Nat
  BY InBooks
<1>2. Owners(frames, o) >= 1
  <2>1. CASE frames[i].kind = "eel"
    <3>1. PICK j \in 1 .. i : o \in frames[j].limbo
      BY <1>1, <2>1 DEF Books, Ledger, Sound, Borrowed
    <3>2. j \in 1 .. Len(frames)
      BY <1>1
    <3> QED
      BY <1>1, <3>1, <3>2, VarOwns
  <2>2. CASE frames[i].kind = "c"
    <3>1. Held(frames[i], o) \in Nat /\ Weight(frames[i], o) = Held(frames[i], o) + One(o, o)
      BY <1>1, <2>2, WeightParts
    <3>2. Weight(frames[i], o) >= 1 /\ Weight(frames[i], o) \in Nat
      BY <3>1 DEF One
    <3>3. Owners(frames, o) >= Weight(frames[i], o) /\ Owners(frames, o) \in Nat
      BY <1>1, OwnersExcept, OwnersNat
    <3> QED
      BY <3>2, <3>3
  <2> QED
    BY <1>1, <2>1, <2>2, FrameParts
<1>3. /\ rc[o] = Owners(frames, o) + One(exc, o) + One(static, o)
      /\ Owners(frames, o) \in Nat /\ One(exc, o) \in Nat /\ One(static, o) \in Nat
  BY InBooks
<1> HIDE DEF o
<1>4. rc[o] > 0
  BY <1>2, <1>3
<1> QED
  BY <1>4 DEF o

(***************************************************************************)
(* Every variable has its type: refcounts do not fall below 0, and result  *)
(* indices and bases stay within the stacks.                               *)
(***************************************************************************)
THEOREM TypesHold == ~Untry => (Spec => []TypeOK)
<1> SUFFICES ASSUME ~Untry
             PROVE  Spec => []TypeOK
  OBVIOUS
<1>1. Spec => []Books
  BY BooksBalance
<1> QED
  BY <1>1, BooksGiveTypes, PTL

(***************************************************************************)
(* Reference counting: through calls, returns, unwinding, catchers, retry  *)
(* and C callbacks, an object's refcount is the number of its owners.      *)
(***************************************************************************)
THEOREM EveryOwnerCounted == ~Untry => (Spec => []Counted)
<1> SUFFICES ASSUME ~Untry
             PROVE  Spec => []Counted
  OBVIOUS
<1>1. Spec => []Books
  BY BooksBalance
<1> QED
  BY <1>1, BooksGiveCounts, PTL

(***************************************************************************)
(* eel_v_receive and eel_v_grab cannot tell whose limbo list an object is  *)
(* in; still no object is in two.                                          *)
(***************************************************************************)
THEOREM NeverInTwoLists == ~Untry => (Spec => []LimboOnce)
<1> SUFFICES ASSUME ~Untry
             PROVE  Spec => []LimboOnce
  OBVIOUS
<1>1. Spec => []Books
  BY BooksBalance
<1> QED
  BY <1>1, BooksGiveLimbo, PTL

(***************************************************************************)
(* What a register of a function on the stack refers to is alive, although *)
(* registers of EEL functions own nothing.                                 *)
(***************************************************************************)
THEOREM RegistersAlive == ~Untry => (Spec => []TempsAlive)
<1> SUFFICES ASSUME ~Untry
             PROVE  Spec => []TempsAlive
  OBVIOUS
<1>1. Spec => []Books
  BY BooksBalance
<1> QED
  BY <1>1, BooksGiveTemps, PTL

=============================================================================
