---- MODULE BufferApi ----
(***************************************************************************)
(* The public operations of Buffer, called in any order and with any       *)
(* arguments that respect their documented preconditions: what its caller  *)
(* may rely on whatever the encoder does.                                  *)
(***************************************************************************)
EXTENDS Buffer

CONSTANTS
    Byte,       \* the values of a byte
    Data,       \* the sequences of bytes a caller writes
    MaxMain,    \* bound: calls that would grow the main segment further are cut
    MaxOffset   \* bound on the offset given to write_end

ASSUME BufferApiAssumption ==
    /\ Zero \in Byte
    /\ Data \subseteq Seq(Byte)
    /\ MaxMain \in Nat
    /\ MaxOffset \in Nat

VARIABLE buffer

Init == buffer = EmptyBuffer

CallWrite(data, extendBuffer) ==
    /\ Tell(buffer) + Len(data) <= MaxMain
    /\ buffer' = Write(buffer, data, extendBuffer)

CallWriteTo(data, offset) ==
    /\ InMain(buffer, data, offset)
    /\ buffer' = WriteTo(buffer, data, offset)

CallWriteEnd(data, offset) == buffer' = WriteEnd(buffer, data, offset)

CallExtend == buffer' = Extend(buffer)

CallTruncate == buffer' = Truncate(buffer)

Next ==
    \/ \E data \in Data, extendBuffer \in BOOLEAN : CallWrite(data, extendBuffer)
    \/ \E data \in Data, offset \in 0..MaxMain : CallWriteTo(data, offset)
    \/ \E data \in Data, offset \in 0..MaxOffset : CallWriteEnd(data, offset)
    \/ CallExtend
    \/ CallTruncate

Spec == Init /\ [][Next]_buffer

----
\* valid_bytes says yes to a non-empty range exactly when it lies inside the
\* file and every byte of it is filled in: it never vouches for a hole, and
\* never sends a reader back to the decoder for bytes that are there
\* (buffer.h:76-84).
ValidMeansFilled ==
    Separate(buffer) =>
        \A offset \in 0..Size(buffer), n \in 1..Size(buffer) :
            ValidBytes(buffer, offset, n)
                <=> \A i \in offset..offset + n - 1 : IsFilled(buffer, i)

\* max_valid_bytes is the largest n for which valid_bytes(offset, n) holds, and
\* 0 when not even one byte is there (buffer.h:86-90).
MaxValidIsMaximal ==
    Separate(buffer) =>
        \A offset \in 0..Size(buffer) + 1, n \in 1..Size(buffer) + 1 :
            ValidBytes(buffer, offset, n) <=> n <= MaxValidBytes(buffer, offset)

\* copy_into assembles the bytes of a valid range in order, across the border
\* of the two segments too (buffer.cc:56-65).
CopyIsTheSlice ==
    Separate(buffer) =>
        \A offset \in 0..Size(buffer), n \in 1..Size(buffer) :
            ValidBytes(buffer, offset, n) =>
                CopyInto(buffer, <<>>, offset, n)
                    = [i \in 1..n |-> ByteAt(buffer, offset + i - 1)]

\* A write that may not extend the buffer moves nothing a reader has seen: the
\* size and every filled byte stay (buffer.h:36-41).
TruncatingWriteIsInvisible ==
    [][ \A data \in Data :
            Separate(buffer) /\ CallWrite(data, FALSE) =>
                /\ Size(buffer') = Size(buffer)
                /\ \A i \in 0..Size(buffer) - 1 : IsFilled(buffer, i) =>
                        /\ IsFilled(buffer', i)
                        /\ ByteAt(buffer', i) = ByteAt(buffer, i) ]_buffer

\* A write that may extend the buffer loses none of its data, and the end
\* segment still ends the file (buffer.h:36-41).
ExtendingWriteKeepsAll ==
    [][ \A data \in Data :
            Separate(buffer) /\ CallWrite(data, TRUE) =>
                /\ buffer'.main = buffer.main \o data
                /\ Separate(buffer')
                /\ \A i \in 1..Len(buffer.end) :
                        ByteAt(buffer', Size(buffer') - i)
                            = ByteAt(buffer, Size(buffer) - i) ]_buffer
====
