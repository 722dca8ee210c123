----------------------------- MODULE MemWriter -----------------------------
(***************************************************************************)
(* mem_writer.rs: the in-memory image of the dump and the slots allocated  *)
(* in it. The image is a sequence of cells (the unit of size of the model, *)
(* standing for the bytes of one record, entry or character); offsets are  *)
(* 0-based as in the code, so the cell at offset o is buf[o + 1].          *)
(***************************************************************************)
EXTENDS Naturals, Sequences

CONSTANT RvaMod    \* 2^32: `as u32` truncates positions and sizes

ASSUME RvaModAssumption == RvaMod \in Nat \ {0}

\* A cell whose bytes are all 0, as Vec::resize leaves it
Zero == <<"zero">>

\* Buffer::reserve
Reserve(buf, n) == [i \in 1..(Len(buf) + n) |-> IF i <= Len(buf) THEN buf[i] ELSE Zero]

\* Buffer::write_at, which grows the buffer when the value reaches past its
\* end. The subtraction `len - offset` in the code needs offset <= Len(buf).
WriteAt(buf, offset, cells) ==
    LET end == offset + Len(cells)
    IN  [i \in 1..(IF Len(buf) < end THEN end ELSE Len(buf)) |->
            IF offset < i /\ i <= end THEN cells[i - offset] ELSE buf[i]]

\* Buffer::write_all; also write and alloc_with_val, alloc_from_array and
\* alloc_from_iter, which address what they write by its untruncated position
WriteAll(buf, cells) == WriteAt(buf, Len(buf), cells)

\* MDRVA: a position as the writers keep it
Rva(position) == position % RvaMod

\* location() of a slot of `size` cells at `position`
Location(position, size) == [rva |-> Rva(position), data_size |-> size % RvaMod]

\* alloc or alloc_array, then set_value or set_value_at of every element,
\* addressed by the truncated position of the slot
AllocArray(buf, cells) == WriteAt(Reserve(buf, Len(cells)), Rva(Len(buf)), cells)
=============================================================================
