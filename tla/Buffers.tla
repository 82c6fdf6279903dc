------------------------------- MODULE Buffers -------------------------------
(* The memory behind vectors (e_vector.c) and dynamic strings (e_dstring.c): *)
(* a block of cells, the first of which are the items, and what the code     *)
(* does with it.  Items and indices count from 1, so that memory from cell i *)
(* on starts at buffer + i - 1.  The bytes of a dynamic string are followed  *)
(* by a terminator.                                                          *)
EXTENDS Integers, Sequences, SequencesExt, FiniteSetsExt

CONSTANTS
    Vectors,                    \* bound: vectors
    Bits,                       \* of the items of a vector
    Signed,                     \* vectors of signed integers
    VectorBase, DstringBase     \* EEL_VECTOR_SIZEBASE, EEL_DSTRING_SIZEBASE

ASSUME BuffersAssumption ==
    /\ Bits \in [Vectors -> 1..32]
    /\ Signed \subseteq Vectors
    /\ {VectorBase, DstringBase} \subseteq Nat \ {0}

Garbage == -100     \* what memory contains that nobody has written to; no item

\* within: no access has been outside the block.
Blocks == [cells : Seq(Int), length : Int, within : BOOLEAN]
Block(cells, length) == [cells |-> cells, length |-> length, within |-> TRUE]

CalcResize(base, current, requested) ==
    LET grown[n \in Nat] == IF n >= requested THEN n ELSE grown[(n * 3) \div 2 + base]
        half == current \div 2
    IN  IF requested > current THEN grown[IF current > 0 THEN current ELSE base]
        ELSE IF requested > half THEN current
        ELSE IF half < base THEN base
        ELSE half

Unwritten(n) == [i \in 1..n |-> Garbage]
Zeroes(n) == [i \in 1..n |-> 0]

\* v_setsize, ds_setsize
Resize(b, base, requested) ==
    LET size == CalcResize(base, Len(b.cells), requested)
    IN  [b EXCEPT !.cells = IF size <= Len(@) THEN SubSeq(@, 1, size)
                                              ELSE @ \o Unwritten(size - Len(@))]

-----------------------------------------------------------------------------
(* Memory.                                                                   *)

Inside(b, at, n) == n = 0 \/ (n > 0 /\ at >= 1 /\ at + n - 1 <= Len(b.cells))

\* n cells from at on
Cells(b, at, n) ==
    IF n > 0 /\ Inside(b, at, n) THEN SubSeq(b.cells, at, at + n - 1) ELSE Unwritten(n)

Items(b) == Cells(b, 1, b.length)

Write(b, at, new) ==
    IF new # << >> /\ Inside(b, at, Len(new))
    THEN [b EXCEPT !.cells = SubSeq(@, 1, at - 1) \o new \o SubSeq(@, at + Len(new), Len(@))]
    ELSE [b EXCEPT !.within = @ /\ new = << >>]

Clear(b, at, n) == [Write(b, at, Zeroes(n)) EXCEPT !.within = @ /\ n >= 0]

Move(b, to, from, n) ==
    [Write(b, to, Cells(b, from, n)) EXCEPT !.within = @ /\ Inside(b, from, n)]

-----------------------------------------------------------------------------
(* Vectors of integers.  Items are stored as many bits as there is room for. *)

Cell(v, n) == n % 2^Bits[v]

\* get_ivalue, where sign extension is left to the type of the cells
ItemOf(v, cell) ==
    IF v \in Signed /\ cell >= 2^(Bits[v] - 1) THEN cell - 2^Bits[v] ELSE cell

\* v_construct, full_clone and v_copy
NewVector(cells) == Block(cells, Len(cells))

\* v_setindex: skipped items are 0.
VectorSet(b, i, cell) ==
    LET cleared == Clear(Resize(b, VectorBase, i), b.length + 1, i - 1 - b.length)
    IN  IF i <= b.length THEN Write(b, i, <<cell>>)
        ELSE Write([cleared EXCEPT !.length = i], i, <<cell>>)

VectorInsert(b, i, cell) ==
    LET moved == Move(Resize(b, VectorBase, b.length + 1), i + 1, i, b.length + 1 - i)
    IN  Write([moved EXCEPT !.length = @ + 1], i, <<cell>>)

VectorDelete(b, from, to) ==
    LET moved == Move(b, from, to + 1, b.length - to)
        length == b.length - (to - from + 1)
    IN  Resize([moved EXCEPT !.length = length], VectorBase, length)

\* v__append: nothing is done for an operand without items.
VectorAppend(b, cells) ==
    LET longer == Write(Resize(b, VectorBase, b.length + Len(cells)), b.length + 1, cells)
    IN  IF cells = << >> THEN b ELSE [longer EXCEPT !.length = @ + Len(cells)]

\* do_vadd, do_vsub and do_vmul do not look at the sign of the items.
VAdd(v, cells, ns) == [i \in DOMAIN cells |-> Cell(v, cells[i] + ns[i])]
VSub(v, cells, ns) == [i \in DOMAIN cells |-> Cell(v, cells[i] - ns[i])]
VMul(v, cells, ns) == [i \in DOMAIN cells |-> Cell(v, cells[i] * ns[i])]

VOp(op, v, cells, ns) ==
    CASE op = "add" -> VAdd(v, cells, ns)
      [] op = "sub" -> VSub(v, cells, ns)
      [] op = "mul" -> VMul(v, cells, ns)

-----------------------------------------------------------------------------
(* Dynamic strings.                                                          *)

\* ds_nnew, ds_nnew_grab
NewDstring(bytes) == Block(Append(bytes, 0), Len(bytes))

\* io_read: room for as many bytes as were asked for.  The terminator is where
\* it was when there were none.
ReadDstring(asked, bytes) ==
    LET fresh == [i \in 1..asked + 1 |-> IF i = 1 THEN 0 ELSE Garbage]
    IN  [Write(Block(fresh, 0), 1, bytes) EXCEPT !.length = Len(bytes)]

\* ds_set_index: memory behind the old terminator is cleared.
DstringSet(b, i, byte) ==
    LET grown == Resize(b, DstringBase, i + 1)
        cleared == Clear(grown, b.length + 2, Len(grown.cells) - b.length - 1)
    IN  IF i <= b.length THEN Write(b, i, <<byte>>)
        ELSE Write([cleared EXCEPT !.length = i], i, <<byte>>)

\* eel_ds_write, when position counts from 0: the old terminator is cleared too.
DstringWrite(b, position, bytes) ==
    LET end == position + Len(bytes)
        grown == Resize(b, DstringBase, end + 1)
        cleared == Clear(grown, b.length + 1, Len(grown.cells) - b.length)
    IN  IF end < b.length THEN Write(b, position + 1, bytes)
        ELSE Write([cleared EXCEPT !.length = end], position + 1, bytes)

\* ds_insert: the terminator is moved with what follows it.  The memory asked
\* for is more than is needed, by the position.
DstringInsert(b, i, bytes) ==
    LET grown == Resize(b, DstringBase, b.length + Len(bytes) + i)
        moved == Move(grown, i + Len(bytes), i, b.length - i + 2)
    IN  [Write(moved, i, bytes) EXCEPT !.length = @ + Len(bytes)]

DstringDelete(b, from, to) ==
    LET moved == Move(b, from, to + 1, b.length - to + 1)
        length == b.length - (to - from + 1)
    IN  Resize([moved EXCEPT !.length = length], DstringBase, length + 1)

\* ds_ipadd; a single byte is set behind the others
DstringAppend(b, bytes) ==
    LET grown == Resize(b, DstringBase, b.length + Len(bytes) + 1)
        longer == Write(grown, b.length + 1, Append(bytes, 0))
    IN  [longer EXCEPT !.length = @ + Len(bytes)]
=============================================================================
