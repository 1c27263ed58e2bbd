---- MODULE BufferApiProofs ----
(***************************************************************************)
(* Theorems about the steps of BufferApi, for any contents: what a caller  *)
(* of Buffer may rely on, whatever was written to it before.               *)
(***************************************************************************)
EXTENDS BufferApi, BufferProofs

BufferTyped == buffer \in BufferType(Byte)

LEMMA InitTyped == Init => BufferTyped
BY DEF Init, BufferTyped, EmptyBuffer, BufferType

LEMMA NextTyped == BufferTyped /\ [Next]_buffer => BufferTyped'
<1> SUFFICES ASSUME BufferTyped, [Next]_buffer PROVE BufferTyped'
  OBVIOUS
<1> USE DEF BufferTyped
<1>0. Zero \in Byte /\ Data \subseteq Seq(Byte)
  BY BufferApiAssumption
<1>1. CASE UNCHANGED buffer
  BY <1>1
<1>2. ASSUME NEW data \in Data, NEW extendBuffer \in BOOLEAN, CallWrite(data, extendBuffer)
      PROVE  BufferTyped'
  <2>1. Write(buffer, data, extendBuffer) \in BufferType(Byte)
    BY <1>0, WriteProperties
  <2> QED BY <1>2, <2>1 DEF CallWrite
<1>3. ASSUME NEW data \in Data, NEW offset \in 0..MaxMain, CallWriteTo(data, offset)
      PROVE  BufferTyped'
  <2>1. WriteTo(buffer, data, offset) \in BufferType(Byte)
    BY <1>0, WriteToProperties
  <2> QED BY <1>3, <2>1 DEF CallWriteTo
<1>4. ASSUME NEW data \in Data, NEW offset \in 0..MaxOffset, CallWriteEnd(data, offset)
      PROVE  BufferTyped'
  <2>1. WriteEnd(buffer, data, offset) \in BufferType(Byte)
    BY <1>0, WriteEndProperties
  <2> QED BY <1>4, <2>1 DEF CallWriteEnd
<1>5. CASE CallExtend
  BY <1>0, <1>5, ExtendProperties DEF CallExtend
<1>6. CASE CallTruncate
  BY <1>6, TruncateProperties DEF CallTruncate
<1> QED BY <1>1, <1>2, <1>3, <1>4, <1>5, <1>6 DEF Next

LEMMA SpecTyped == Spec => []BufferTyped
BY InitTyped, NextTyped, PTL DEF Spec

LEMMA SizeType ==
    ASSUME BufferTyped
    PROVE  Size(buffer) \in Nat
<1>1. buffer.endOffset \in Nat /\ Len(buffer.end) \in Nat
  BY BufferFields DEF BufferTyped
<1> QED BY <1>1 DEF Size

\* valid_bytes accepts exactly the ranges whose bytes are all filled in.
THEOREM SpecValidMeansFilled == Spec => []ValidMeansFilled
<1>1. BufferTyped => ValidMeansFilled
  BY SizeType, ValidIsFilled DEF BufferTyped, ValidMeansFilled
<1> QED BY <1>1, SpecTyped, PTL

\* max_valid_bytes is the length of the longest range that valid_bytes accepts.
THEOREM SpecMaxValid == Spec => []MaxValidIsMaximal
<1>1. BufferTyped => MaxValidIsMaximal
  BY SizeType, MaxValidIsBound DEF BufferTyped, MaxValidIsMaximal
<1> QED BY <1>1, SpecTyped, PTL

\* copy_into copies the bytes of a valid range in order, from both segments.
THEOREM SpecCopy == Spec => []CopyIsTheSlice
<1>1. ASSUME BufferTyped, Separate(buffer), NEW offset \in 0..Size(buffer),
             NEW n \in 1..Size(buffer), ValidBytes(buffer, offset, n)
      PROVE  CopyInto(buffer, <<>>, offset, n)
                = [i \in 1..n |-> ByteAt(buffer, offset + i - 1)]
  <2> DEFINE copy == CopyInto(buffer, <<>>, offset, n)
  <2>1. offset \in Nat /\ n \in Nat
    BY <1>1, SizeType
  <2>2. /\ copy \in Seq(Byte) /\ Len(copy) = n
        /\ \A i \in 1..n : copy[i] = ByteAt(buffer, offset + i - 1)
    <3> HIDE DEF copy
    <3> QED BY <1>1, <2>1, CopiesSlice DEF BufferTyped, copy
  <2> HIDE DEF copy
  <2>3. copy = [i \in 1..n |-> copy[i]]
    BY <2>1, <2>2
  <2> QED BY <2>2, <2>3 DEF copy
<1>2. BufferTyped => CopyIsTheSlice
  BY <1>1 DEF CopyIsTheSlice
<1> QED BY <1>2, SpecTyped, PTL

\* A write that may not extend the buffer changes nothing a reader has seen.
THEOREM SpecTruncatingWrite == Spec => TruncatingWriteIsInvisible
<1>1. ASSUME BufferTyped, NEW data \in Data, Separate(buffer), CallWrite(data, FALSE)
      PROVE  /\ Size(buffer') = Size(buffer)
             /\ \A i \in 0..Size(buffer) - 1 : IsFilled(buffer, i) =>
                    IsFilled(buffer', i) /\ ByteAt(buffer', i) = ByteAt(buffer, i)
  <2> DEFINE c == Write(buffer, data, FALSE)
  <2>1. /\ c \in BufferType(Byte) /\ c.end = buffer.end /\ Separate(c)
        /\ MainPrefixKept(buffer, c) /\ c.endOffset = buffer.endOffset
    <3>1. Zero \in Byte /\ data \in Seq(Byte) /\ FALSE \in BOOLEAN
      BY BufferApiAssumption
    <3> HIDE DEF c
    <3> QED BY <1>1, <3>1, WriteProperties DEF BufferTyped, c
  <2>2. buffer' = c
    BY <1>1 DEF CallWrite
  <2> HIDE DEF c
  <2>3. Size(c) = Size(buffer)
    BY <2>1 DEF Size
  <2>4. ASSUME NEW i \in 0..Size(buffer) - 1, IsFilled(buffer, i)
        PROVE  IsFilled(c, i) /\ ByteAt(c, i) = ByteAt(buffer, i)
    BY <1>1, <2>1, <2>4, FilledStaysGrowing DEF BufferTyped
  <2> QED BY <2>2, <2>3, <2>4
<1>2. ASSUME BufferTyped, [Next]_buffer
      PROVE  [ \A data \in Data :
                Separate(buffer) /\ CallWrite(data, FALSE) =>
                    /\ Size(buffer') = Size(buffer)
                    /\ \A i \in 0..Size(buffer) - 1 : IsFilled(buffer, i) =>
                            /\ IsFilled(buffer', i)
                            /\ ByteAt(buffer', i) = ByteAt(buffer, i) ]_buffer
  BY <1>1, <1>2
<1> QED BY <1>2, SpecTyped, PTL DEF Spec, TruncatingWriteIsInvisible

\* A write that may extend the buffer keeps all of its data, and the end segment
\* at the end.
THEOREM SpecExtendingWrite == Spec => ExtendingWriteKeepsAll
<1>1. ASSUME BufferTyped, NEW data \in Data, Separate(buffer), CallWrite(data, TRUE)
      PROVE  /\ buffer'.main = buffer.main \o data
             /\ Separate(buffer')
             /\ \A i \in 1..Len(buffer.end) :
                    ByteAt(buffer', Size(buffer') - i) = ByteAt(buffer, Size(buffer) - i)
  <2> DEFINE c == Write(buffer, data, TRUE)
  <2>1. Zero \in Byte /\ data \in Seq(Byte) /\ TRUE \in BOOLEAN
    BY BufferApiAssumption
  <2>2. /\ c \in BufferType(Byte) /\ c.end = buffer.end /\ Separate(c)
    <3> HIDE DEF c
    <3> QED BY <1>1, <2>1, WriteProperties DEF BufferTyped, c
  <2>3. c.main = buffer.main \o data
    BY <1>1, <2>1, ExtendingWrite DEF BufferTyped
  <2>4. buffer' = c
    BY <1>1 DEF CallWrite
  <2> HIDE DEF c
  <2>5. ASSUME NEW i \in 1..Len(buffer.end)
        PROVE  ByteAt(c, Size(c) - i) = ByteAt(buffer, Size(buffer) - i)
    <3>1. ByteAt(c, Size(c) - i) = c.end[Len(c.end) - i + 1]
      BY <2>2, ByteOfEnd
    <3>2. ByteAt(buffer, Size(buffer) - i) = buffer.end[Len(buffer.end) - i + 1]
      BY <1>1, ByteOfEnd DEF BufferTyped
    <3> QED BY <2>2, <3>1, <3>2
  <2> QED BY <2>2, <2>3, <2>4, <2>5
<1>2. ASSUME BufferTyped, [Next]_buffer
      PROVE  [ \A data \in Data :
                Separate(buffer) /\ CallWrite(data, TRUE) =>
                    /\ buffer'.main = buffer.main \o data
                    /\ Separate(buffer')
                    /\ \A i \in 1..Len(buffer.end) :
                            ByteAt(buffer', Size(buffer') - i)
                                = ByteAt(buffer, Size(buffer) - i) ]_buffer
  BY <1>1, <1>2
<1> QED BY <1>2, SpecTyped, PTL DEF Spec, ExtendingWriteKeepsAll
====
