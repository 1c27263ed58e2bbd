---- MODULE Buffer ----
(***************************************************************************)
(* The Buffer of buffer.h and buffer.cc as operators on its value: a main  *)
(* segment that grows from offset 0, an end segment (the ID3v1 tag) placed *)
(* at endOffset, and between them a hole that is not filled in yet.        *)
(* Offsets count from 0, as in the code; sequences from 1.                 *)
(***************************************************************************)
EXTENDS Integers, Sequences

CONSTANT
    Zero        \* the value vector::resize gives the elements it appends

\* The buffers with bytes from B.
BufferType(B) == [main : Seq(B), end : Seq(B), endOffset : Nat]

EmptyBuffer == [main |-> <<>>, end |-> <<>>, endOffset |-> 0]

\* Size of what is written in the main segment.
Tell(b) == Len(b.main)

\* Total size, the hole included.
Size(b) == b.endOffset + Len(b.end)

\* Seeded fault: the elements that resize appends are left uninitialized.
ResizeUninitialized(s, n) ==
    [i \in 1..n |-> IF i <= Len(s) THEN s[i] ELSE "uninitialized"]

\* vector::resize: drops a suffix, or appends zeros.
Resize(s, n) == [i \in 1..n |-> IF i <= Len(s) THEN s[i] ELSE Zero]

\* Moves the end of the main segment to the start of the end segment.
Extend(b) ==
    [main |-> Resize(b.main, b.endOffset), end |-> b.end, endOffset |-> b.endOffset]

\* Moves the end segment to the end of the main segment.
Truncate(b) == [main |-> b.main, end |-> b.end, endOffset |-> Tell(b)]

\* The buffer with the data inserted at the end of its main segment.
Inserted(b, data) ==
    [main |-> b.main \o data, end |-> b.end, endOffset |-> b.endOffset]

\* Seeded fault: the two outcomes of extendBuffer are exchanged.
WriteSwapped(b, data, extendBuffer) ==
    LET grown == Inserted(b, data)
    IN  IF Tell(grown) <= b.endOffset THEN grown
        ELSE IF extendBuffer THEN Extend(grown) ELSE Truncate(grown)

\* Appends to the main segment. What runs into the end segment pushes it
\* back (extendBuffer) or is cut off.
Write(b, data, extendBuffer) ==
    LET grown == Inserted(b, data)
    IN  IF Tell(grown) <= b.endOffset THEN grown
        ELSE IF extendBuffer THEN Truncate(grown) ELSE Extend(grown)

\* write_to is undefined outside of what the main segment holds.
InMain(b, data, offset) == offset >= 0 /\ offset + Len(data) <= Tell(b)

\* Overwrites part of the main segment.
WriteTo(b, data, offset) ==
    [main |-> [i \in 1..Tell(b) |->
        IF i - offset \in 1..Len(data) THEN data[i - offset] ELSE b.main[i]],
     end |-> b.end, endOffset |-> b.endOffset]

\* Sets the end segment, and with it the total size.
WriteEnd(b, data, offset) ==
    [main |-> b.main, end |-> data, endOffset |-> offset]

\* Seeded fault: a range that starts in the main segment may run over the hole.
ValidBytesOverHole(b, offset, n) ==
    /\ offset >= 0
    /\ offset + n <= Size(b)
    /\ offset <= Tell(b) \/ offset >= b.endOffset

\* Whether the n bytes at offset are filled in.
ValidBytes(b, offset, n) ==
    /\ offset >= 0
    /\ offset + n <= Size(b)
    /\ \/ offset + n <= Tell(b)
       \/ offset >= b.endOffset
       \/ Tell(b) = b.endOffset

\* Seeded fault: the end segment counts only once the hole is closed.
MaxValidBytesMainOnly(b, offset) ==
    IF offset > Size(b) THEN 0
    ELSE IF Tell(b) = b.endOffset THEN Size(b) - offset
    ELSE IF offset <= Tell(b) THEN Tell(b) - offset
    ELSE 0

\* How many bytes can be read at offset.
MaxValidBytes(b, offset) ==
    IF offset > Size(b) THEN 0
    ELSE IF Tell(b) = b.endOffset \/ offset >= b.endOffset THEN Size(b) - offset
    ELSE IF offset <= Tell(b) THEN Tell(b) - offset
    ELSE 0

\* Seeded fault: a range in the end segment is taken from that segment's start.
CopyIntoFromEndStart(b, out, offset, n) ==
    IF ~ValidBytes(b, offset, n) THEN out
    ELSE IF offset + n <= Tell(b) THEN SubSeq(b.main, offset + 1, offset + n)
    ELSE IF offset >= b.endOffset THEN SubSeq(b.end, 1, n)
    ELSE SubSeq(b.main, offset + 1, Tell(b))
            \o SubSeq(b.end, 1, n - (Tell(b) - offset))

\* What copy_into leaves in the n bytes of the caller's memory "out": an
\* invalid range is logged and nothing is copied.
CopyInto(b, out, offset, n) ==
    IF ~ValidBytes(b, offset, n) THEN out
    ELSE IF offset + n <= Tell(b) THEN SubSeq(b.main, offset + 1, offset + n)
    ELSE IF offset >= b.endOffset
         THEN SubSeq(b.end, offset - b.endOffset + 1, offset - b.endOffset + n)
    ELSE SubSeq(b.main, offset + 1, Tell(b))
            \o SubSeq(b.end, 1, n - (Tell(b) - offset))

----
(* The view of a reader of the file, for the properties.                   *)

\* The segments do not overlap.
Separate(b) == Tell(b) <= b.endOffset

\* Whether the byte at offset i is filled in, and its value.
IsFilled(b, i) == 0 <= i /\ i < Size(b) /\ (i < Tell(b) \/ i >= b.endOffset)

ByteAt(b, i) == IF i < Tell(b) THEN b.main[i + 1] ELSE b.end[i - b.endOffset + 1]
====
