---- MODULE BufferProofs ----
(***************************************************************************)
(* What the operations of Buffer preserve, for buffers of any contents.    *)
(***************************************************************************)
EXTENDS Buffer, SequenceTheorems, TLAPS

\* A resized vector has the new length, and begins like the old one.
LEMMA ResizeProperties ==
    ASSUME NEW B, Zero \in B, NEW s \in Seq(B), NEW n \in Nat
    PROVE  /\ Resize(s, n) \in Seq(B)
           /\ Len(Resize(s, n)) = n
           /\ \A i \in 1..n : i <= Len(s) => Resize(s, n)[i] = s[i]
<1>1. \A i \in 1..n : (IF i <= Len(s) THEN s[i] ELSE Zero) \in B
  OBVIOUS
<1>2. Resize(s, n) \in Seq(B)
  BY <1>1 DEF Resize
<1>3. Len(Resize(s, n)) = n
  BY DEF Resize
<1> QED BY <1>2, <1>3 DEF Resize

\* The fields of a buffer.
LEMMA BufferFields ==
    ASSUME NEW B, NEW b \in BufferType(B)
    PROVE  /\ b.main \in Seq(B) /\ b.end \in Seq(B) /\ b.endOffset \in Nat
           /\ Tell(b) \in Nat /\ Tell(b) = Len(b.main)
BY DEF BufferType, Tell

\* What c has in common with b when a main segment of b is only appended to.
MainPrefixKept(b, c) ==
    /\ Tell(b) <= Tell(c)
    /\ \A i \in 1..Tell(b) : c.main[i] = b.main[i]

\* Inserting data keeps what was there.
LEMMA InsertedProperties ==
    ASSUME NEW B, NEW b \in BufferType(B), NEW data \in Seq(B)
    PROVE  /\ Inserted(b, data) \in BufferType(B)
           /\ Inserted(b, data).end = b.end
           /\ Inserted(b, data).endOffset = b.endOffset
           /\ MainPrefixKept(b, Inserted(b, data))
<1>1. /\ b.main \o data \in Seq(B)
      /\ Len(b.main \o data) = Len(b.main) + Len(data)
      /\ \A i \in 1..Len(b.main) : (b.main \o data)[i] = b.main[i]
  BY BufferFields, ConcatProperties
<1>2. Inserted(b, data) \in BufferType(B)
  BY <1>1, BufferFields DEF Inserted, BufferType
<1>3. MainPrefixKept(b, Inserted(b, data))
  BY <1>1, BufferFields DEF Inserted, MainPrefixKept, Tell
<1> QED BY <1>2, <1>3 DEF Inserted

\* Extending closes the hole, and keeps a main segment that ends before it.
LEMMA ExtendProperties ==
    ASSUME NEW B, Zero \in B, NEW b \in BufferType(B)
    PROVE  /\ Extend(b) \in BufferType(B)
           /\ Extend(b).end = b.end
           /\ Extend(b).endOffset = b.endOffset
           /\ Tell(Extend(b)) = b.endOffset
           /\ Separate(b) => MainPrefixKept(b, Extend(b))
           /\ \A i \in 1..b.endOffset :
                i <= Tell(b) => Extend(b).main[i] = b.main[i]
<1>0. b.main \in Seq(B) /\ b.endOffset \in Nat
  BY BufferFields
<1> DEFINE main == b.main
           n == b.endOffset
<1> HIDE DEF main, n
<1>1. /\ Resize(b.main, b.endOffset) \in Seq(B)
      /\ Len(Resize(b.main, b.endOffset)) = b.endOffset
      /\ \A i \in 1..b.endOffset :
            i <= Len(b.main) => Resize(b.main, b.endOffset)[i] = b.main[i]
  <2>1. main \in Seq(B) /\ n \in Nat
    BY <1>0 DEF main, n
  <2>2. /\ Resize(main, n) \in Seq(B)
        /\ Len(Resize(main, n)) = n
        /\ \A i \in 1..n : i <= Len(main) => Resize(main, n)[i] = main[i]
    BY <2>1, ResizeProperties
  <2> QED BY <2>2 DEF main, n
<1>2. Extend(b) \in BufferType(B)
  BY <1>1, BufferFields DEF Extend, BufferType
<1>3. Separate(b) => MainPrefixKept(b, Extend(b))
  BY <1>1, BufferFields DEF Extend, Separate, MainPrefixKept, Tell
<1> QED BY <1>1, <1>2, <1>3, BufferFields DEF Extend, Tell

\* Truncating closes the hole and keeps the main segment.
LEMMA TruncateProperties ==
    ASSUME NEW B, NEW b \in BufferType(B)
    PROVE  /\ Truncate(b) \in BufferType(B)
           /\ Truncate(b).end = b.end
           /\ Separate(Truncate(b))
           /\ MainPrefixKept(b, Truncate(b))
BY BufferFields DEF Truncate, BufferType, Separate, MainPrefixKept, Tell

\* Write keeps the end segment and what is in the main segment, in both modes.
LEMMA WriteProperties ==
    ASSUME NEW B, Zero \in B, NEW b \in BufferType(B), NEW data \in Seq(B),
           NEW extendBuffer \in BOOLEAN
    PROVE  LET c == Write(b, data, extendBuffer)
           IN  /\ c \in BufferType(B)
               /\ c.end = b.end
               /\ Separate(c)
               /\ Separate(b) => MainPrefixKept(b, c)
               /\ ~extendBuffer => c.endOffset = b.endOffset
<1> DEFINE grown == Inserted(b, data)
           c == Write(b, data, extendBuffer)
<1>1. /\ grown \in BufferType(B)
      /\ grown.end = b.end /\ grown.endOffset = b.endOffset
      /\ MainPrefixKept(b, grown)
  BY InsertedProperties
<1>2. b.endOffset \in Nat /\ Tell(b) \in Nat /\ Tell(grown) \in Nat
  BY <1>1, BufferFields
<1>3. CASE Tell(grown) <= b.endOffset
  <2>1. c = grown
    BY <1>3 DEF Write
  <2> QED BY <1>1, <2>1, <1>3 DEF Separate
<1>4. CASE ~(Tell(grown) <= b.endOffset) /\ extendBuffer
  <2>1. c = Truncate(grown)
    BY <1>4 DEF Write
  <2>2. /\ c \in BufferType(B) /\ c.end = grown.end
        /\ Separate(c) /\ MainPrefixKept(grown, c)
    BY <2>1, <1>1, TruncateProperties
  <2>3. Tell(c) \in Nat
    BY <2>2, BufferFields
  <2>4. MainPrefixKept(b, c)
    BY <1>1, <1>2, <2>2, <2>3 DEF MainPrefixKept
  <2> QED BY <1>1, <1>4, <2>2, <2>4
<1>5. CASE ~(Tell(grown) <= b.endOffset) /\ ~extendBuffer
  <2>1. c = Extend(grown)
    BY <1>5 DEF Write
  <2>2. /\ c \in BufferType(B) /\ c.end = grown.end
        /\ c.endOffset = grown.endOffset /\ Tell(c) = grown.endOffset
        /\ \A i \in 1..grown.endOffset :
              i <= Tell(grown) => c.main[i] = grown.main[i]
    <3>1. /\ Extend(grown) \in BufferType(B) /\ Extend(grown).end = grown.end
          /\ Extend(grown).endOffset = grown.endOffset
          /\ Tell(Extend(grown)) = grown.endOffset
          /\ \A i \in 1..grown.endOffset :
                i <= Tell(grown) => Extend(grown).main[i] = grown.main[i]
      <4> HIDE DEF grown
      <4> QED BY <1>1, ExtendProperties
    <3> QED BY <2>1, <3>1
  <2>3. Separate(c)
    BY <2>2, <1>1, <1>2 DEF Separate
  <2>4. ASSUME Separate(b) PROVE MainPrefixKept(b, c)
    BY <1>1, <1>2, <1>5, <2>2, <2>4 DEF MainPrefixKept, Separate
  <2> QED BY <1>1, <2>2, <2>3, <2>4
<1> QED BY <1>3, <1>4, <1>5

\* Overwriting part of the main segment changes no length and no offset.
LEMMA WriteToProperties ==
    ASSUME NEW B, NEW b \in BufferType(B), NEW data \in Seq(B), NEW offset \in Nat
    PROVE  LET c == WriteTo(b, data, offset)
           IN  /\ c \in BufferType(B)
               /\ c.end = b.end
               /\ c.endOffset = b.endOffset
               /\ Tell(c) = Tell(b)
<1>1. /\ b.main \in Seq(B) /\ b.end \in Seq(B) /\ b.endOffset \in Nat
      /\ Tell(b) \in Nat /\ Tell(b) = Len(b.main)
  BY BufferFields
<1> DEFINE main == [i \in 1..Tell(b) |->
        IF i - offset \in 1..Len(data) THEN data[i - offset] ELSE b.main[i]]
<1>2. \A i \in 1..Tell(b) :
        (IF i - offset \in 1..Len(data) THEN data[i - offset] ELSE b.main[i]) \in B
  BY <1>1
<1>3. main \in Seq(B) /\ Len(main) = Tell(b)
  BY <1>1, <1>2
<1>4. WriteTo(b, data, offset)
        = [main |-> main, end |-> b.end, endOffset |-> b.endOffset]
  BY DEF WriteTo
<1>5. WriteTo(b, data, offset) \in BufferType(B)
  BY <1>1, <1>3, <1>4 DEF BufferType
<1> HIDE DEF main
<1> QED BY <1>3, <1>4, <1>5 DEF Tell

\* Setting the end segment leaves the main one alone.
LEMMA WriteEndProperties ==
    ASSUME NEW B, NEW b \in BufferType(B), NEW data \in Seq(B), NEW offset \in Nat
    PROVE  LET c == WriteEnd(b, data, offset)
           IN  /\ c \in BufferType(B)
               /\ c.main = b.main
               /\ c.end = data
               /\ c.endOffset = offset
BY BufferFields DEF WriteEnd, BufferType

----
(* What a reader of the file sees.                                         *)

\* A range is valid when all of its bytes are filled in, and only then.
LEMMA ValidIsFilled ==
    ASSUME NEW B, NEW b \in BufferType(B), Separate(b),
           NEW offset \in Nat, NEW n \in Nat, n > 0
    PROVE  ValidBytes(b, offset, n)
                <=> \A i \in offset..offset + n - 1 : IsFilled(b, i)
<1>1. /\ Tell(b) \in Nat /\ b.endOffset \in Nat /\ Size(b) \in Nat
      /\ Tell(b) <= b.endOffset /\ b.endOffset <= Size(b)
  <2>1. Len(b.end) \in Nat /\ Tell(b) \in Nat /\ b.endOffset \in Nat
    BY BufferFields
  <2> QED BY <2>1 DEF Separate, Size
<1>2. ASSUME ValidBytes(b, offset, n), NEW i \in offset..offset + n - 1
      PROVE  IsFilled(b, i)
  BY <1>1, <1>2 DEF ValidBytes, IsFilled
<1>3. ASSUME \A i \in offset..offset + n - 1 : IsFilled(b, i)
      PROVE  ValidBytes(b, offset, n)
  <2>1. IsFilled(b, offset) /\ IsFilled(b, offset + n - 1)
    BY <1>3
  <2>2. offset + n <= Size(b)
    BY <1>1, <2>1 DEF IsFilled
  <2>3. ASSUME offset < Tell(b), offset + n > Tell(b), Tell(b) /= b.endOffset
        PROVE  FALSE
    <3>1. IsFilled(b, Tell(b))
      BY <1>1, <1>3, <2>3
    <3> QED BY <1>1, <2>3, <3>1 DEF IsFilled
  <2> QED BY <1>1, <2>1, <2>2, <2>3 DEF ValidBytes, IsFilled
<1> QED BY <1>2, <1>3

\* max_valid_bytes bounds the valid ranges from an offset.
LEMMA MaxValidIsBound ==
    ASSUME NEW B, NEW b \in BufferType(B), Separate(b),
           NEW offset \in Nat, NEW n \in Nat, n > 0
    PROVE  ValidBytes(b, offset, n) <=> n <= MaxValidBytes(b, offset)
<1>1. /\ Tell(b) \in Nat /\ b.endOffset \in Nat /\ Len(b.end) \in Nat
      /\ Tell(b) <= b.endOffset
  BY BufferFields DEF Separate
<1>2. Size(b) \in Nat /\ b.endOffset <= Size(b)
  BY <1>1 DEF Size
<1> QED BY <1>1, <1>2 DEF MaxValidBytes, ValidBytes

\* A part of a sequence, by its elements.
LEMMA PartProperties ==
    ASSUME NEW B, NEW s \in Seq(B), NEW m \in Nat, NEW n \in Nat, m + n <= Len(s)
    PROVE  /\ SubSeq(s, m + 1, m + n) \in Seq(B)
           /\ Len(SubSeq(s, m + 1, m + n)) = n
           /\ \A i \in 1..n : SubSeq(s, m + 1, m + n)[i] = s[m + i]
OBVIOUS

\* copy_into of a valid range copies its bytes in order.
LEMMA CopiesSlice ==
    ASSUME NEW B, NEW b \in BufferType(B), Separate(b), NEW out,
           NEW offset \in Nat, NEW n \in Nat, ValidBytes(b, offset, n)
    PROVE  /\ CopyInto(b, out, offset, n) \in Seq(B)
           /\ Len(CopyInto(b, out, offset, n)) = n
           /\ \A i \in 1..n : CopyInto(b, out, offset, n)[i] = ByteAt(b, offset + i - 1)
<1> DEFINE main == b.main
           end == b.end
           start == b.endOffset
           size == Tell(b)
           copy == CopyInto(b, out, offset, n)
<1>1. /\ main \in Seq(B) /\ end \in Seq(B) /\ start \in Nat
      /\ size \in Nat /\ size = Len(main) /\ size <= start
  BY BufferFields DEF Separate
<1>2. /\ offset + n <= start + Len(end)
      /\ offset + n <= size \/ offset >= start \/ size = start
  BY DEF ValidBytes, Size
<1>3. \A j \in Nat : ByteAt(b, j) = IF j < size THEN main[j + 1] ELSE end[j - start + 1]
  BY DEF ByteAt
<1>4. copy = IF offset + n <= size THEN SubSeq(main, offset + 1, offset + n)
             ELSE IF offset >= start
                  THEN SubSeq(end, offset - start + 1, offset - start + n)
             ELSE SubSeq(main, offset + 1, size) \o SubSeq(end, 1, n - (size - offset))
  BY DEF CopyInto
<1> HIDE DEF main, end, start, size, copy
<1>5. \A i \in 1..n :
        ByteAt(b, offset + i - 1) = IF offset + i - 1 < size THEN main[offset + i]
                                    ELSE end[offset + i - start]
  <2> TAKE i \in 1..n
  <2> DEFINE j == offset + i - 1
  <2>1. j \in Nat /\ j + 1 = offset + i /\ j - start + 1 = offset + i - start
    BY <1>1
  <2> HIDE DEF j
  <2>2. ByteAt(b, j) = IF j < size THEN main[j + 1] ELSE end[j - start + 1]
    BY <1>3, <2>1
  <2>3. ByteAt(b, j) = IF j < size THEN main[offset + i] ELSE end[offset + i - start]
    BY <2>1, <2>2
  <2> QED BY <2>3 DEF j
<1>6. CASE offset + n <= size
  <2>1. /\ SubSeq(main, offset + 1, offset + n) \in Seq(B)
        /\ Len(SubSeq(main, offset + 1, offset + n)) = n
        /\ \A i \in 1..n : SubSeq(main, offset + 1, offset + n)[i] = main[offset + i]
    BY <1>1, <1>6, PartProperties
  <2>2. \A i \in 1..n : offset + i - 1 < size
    BY <1>1, <1>6
  <2>3. copy = SubSeq(main, offset + 1, offset + n)
    BY <1>4, <1>6
  <2> QED BY <1>5, <2>1, <2>2, <2>3 DEF copy
<1>7. CASE ~(offset + n <= size) /\ offset >= start
  <2>1. offset - start \in Nat /\ offset - start + n <= Len(end)
    BY <1>1, <1>2, <1>7
  <2>2. \A i \in 1..n : ~(offset + i - 1 < size) /\ offset - start + i = offset + i - start
    BY <1>1, <1>7
  <2> DEFINE skip == offset - start
             part == SubSeq(end, skip + 1, skip + n)
  <2>3. copy = part
    BY <1>4, <1>7
  <2>4. /\ part \in Seq(B) /\ Len(part) = n
        /\ \A i \in 1..n : part[i] = end[skip + i]
    <3> HIDE DEF skip
    <3>1. skip \in Nat /\ skip + n <= Len(end)
      BY <2>1 DEF skip
    <3>2. /\ SubSeq(end, skip + 1, skip + n) \in Seq(B)
          /\ Len(SubSeq(end, skip + 1, skip + n)) = n
          /\ \A i \in 1..n : SubSeq(end, skip + 1, skip + n)[i] = end[skip + i]
      BY <1>1, <3>1, PartProperties
    <3> QED BY <3>2
  <2> HIDE DEF part
  <2> QED BY <1>5, <2>2, <2>3, <2>4 DEF copy
<1>8. CASE ~(offset + n <= size) /\ ~(offset >= start)
  <2> DEFINE k == size - offset
             left == SubSeq(main, offset + 1, offset + k)
             right == SubSeq(end, 0 + 1, 0 + (n - k))
  <2>1. /\ size = start /\ k \in Nat /\ n - k \in Nat /\ n - k <= Len(end)
        /\ offset + k = size
    BY <1>1, <1>2, <1>8
  <2>2. /\ left \in Seq(B) /\ Len(left) = k
        /\ \A i \in 1..k : left[i] = main[offset + i]
    <3>1. offset + k <= Len(main)
      BY <1>1, <2>1
    <3>3. main \in Seq(B) /\ k \in Nat
      BY <1>1, <2>1
    <3> HIDE DEF k
    <3>2. /\ SubSeq(main, offset + 1, offset + k) \in Seq(B)
          /\ Len(SubSeq(main, offset + 1, offset + k)) = k
          /\ \A i \in 1..k : SubSeq(main, offset + 1, offset + k)[i] = main[offset + i]
      BY <3>1, <3>3, PartProperties
    <3> QED BY <3>2
  <2>3. /\ right \in Seq(B) /\ Len(right) = n - k
        /\ \A i \in 1..n - k : right[i] = end[0 + i]
    <3> HIDE DEF k
    <3> QED BY <1>1, <2>1, PartProperties
  <2>4. copy = left \o right
    <3>1. 0 + 1 = 1 /\ 0 + (n - k) = n - (size - offset)
      BY <1>1, <2>1
    <3>2. right = SubSeq(end, 1, n - (size - offset))
      BY <3>1
    <3>3. left = SubSeq(main, offset + 1, size)
      BY <2>1
    <3> HIDE DEF left, right
    <3> QED BY <1>4, <1>8, <3>2, <3>3
  <2> HIDE DEF left, right
  <2>5. /\ left \o right \in Seq(B) /\ Len(left \o right) = Len(left) + Len(right)
        /\ \A i \in 1..Len(left) + Len(right) :
            (left \o right)[i] = IF i <= Len(left) THEN left[i] ELSE right[i - Len(left)]
    BY <2>2, <2>3, ConcatProperties
  <2>6. k + (n - k) = n
    BY <2>1
  <2>7. ASSUME NEW i \in 1..n
        PROVE  copy[i] = IF offset + i - 1 < size THEN main[offset + i]
                         ELSE end[offset + i - start]
    <3>1. CASE i <= k
      BY <1>1, <2>1, <2>2, <2>4, <2>5, <2>6, <2>3, <3>1
    <3>2. CASE ~(i <= k)
      <4>1. i - k \in 1..n - k /\ ~(offset + i - 1 < size)
            /\ 0 + (i - k) = offset + i - start
        BY <1>1, <2>1, <3>2
      <4>2. copy[i] = right[i - k]
        BY <2>2, <2>3, <2>4, <2>5, <2>6, <3>2
      <4> QED BY <2>3, <4>1, <4>2
    <3> QED BY <3>1, <3>2
  <2> QED BY <1>5, <2>2, <2>3, <2>4, <2>5, <2>6, <2>7 DEF copy
<1> QED BY <1>6, <1>7, <1>8

\* What is filled in stays as it is while the main segment only grows and the end
\* segment does not move.
LEMMA FilledStaysGrowing ==
    ASSUME NEW B, NEW b \in BufferType(B), NEW c \in BufferType(B),
           Separate(b), Separate(c), MainPrefixKept(b, c),
           c.end = b.end, c.endOffset = b.endOffset,
           NEW i \in Int, IsFilled(b, i)
    PROVE  IsFilled(c, i) /\ ByteAt(c, i) = ByteAt(b, i)
<1>1. /\ Tell(b) \in Nat /\ Tell(c) \in Nat
      /\ b.endOffset \in Nat
      /\ Tell(b) <= Tell(c) /\ Tell(c) <= c.endOffset
      /\ \A k \in 1..Tell(b) : c.main[k] = b.main[k]
  BY BufferFields DEF Separate, MainPrefixKept
<1>2. Size(c) = Size(b)
  BY DEF Size
<1>3. CASE i < Tell(b)
  <2>1. i + 1 \in 1..Tell(b) /\ i < Tell(c)
    BY <1>1, <1>3 DEF IsFilled
  <2>2. c.main[i + 1] = b.main[i + 1]
    BY <1>1, <2>1
  <2> QED BY <1>2, <1>3, <2>1, <2>2 DEF IsFilled, ByteAt
<1>4. CASE ~(i < Tell(b))
  <2>1. i >= b.endOffset
    BY <1>4 DEF IsFilled
  <2>2. ~(i < Tell(c))
    BY <1>1, <2>1
  <2> QED BY <1>1, <1>2, <1>4, <2>1, <2>2 DEF IsFilled, ByteAt
<1> QED BY <1>3, <1>4

\* An offset in the end segment, counted from the end of the file.
LEMMA ByteOfEnd ==
    ASSUME NEW B, NEW b \in BufferType(B), Separate(b), NEW i \in 1..Len(b.end)
    PROVE  ByteAt(b, Size(b) - i) = b.end[Len(b.end) - i + 1]
<1> DEFINE n == Len(b.end)
           j == Size(b) - i
<1>1. /\ Tell(b) \in Nat /\ b.endOffset \in Nat /\ n \in Nat
      /\ Tell(b) <= b.endOffset /\ j = b.endOffset + n - i
  BY BufferFields DEF Separate, Size
<1>2. ~(j < Tell(b)) /\ j - b.endOffset + 1 = n - i + 1
  BY <1>1
<1> HIDE DEF n, j
<1>3. ByteAt(b, j) = b.end[j - b.endOffset + 1]
  BY <1>2 DEF ByteAt
<1>4. ByteAt(b, j) = b.end[n - i + 1]
  BY <1>2, <1>3
<1> QED BY <1>4 DEF j, n

\* A write that may extend the buffer appends all of its data.
LEMMA ExtendingWrite ==
    ASSUME NEW B, NEW b \in BufferType(B), NEW data \in Seq(B)
    PROVE  Write(b, data, TRUE).main = b.main \o data
BY DEF Write, Inserted, Truncate

----
(* What the main segment holds after a write.                              *)

\* The bytes that extending appends are zeros.
LEMMA ExtendedBytes ==
    ASSUME NEW B, NEW b \in BufferType(B)
    PROVE  \A i \in 1..b.endOffset :
                Extend(b).main[i] = IF i <= Tell(b) THEN b.main[i] ELSE Zero
BY BufferFields DEF Extend, Resize, Tell

\* The bytes of inserted data.
LEMMA InsertedBytes ==
    ASSUME NEW B, NEW b \in BufferType(B), NEW data \in Seq(B)
    PROVE  /\ Inserted(b, data).main = b.main \o data
           /\ Tell(Inserted(b, data)) = Tell(b) + Len(data)
           /\ \A i \in 1..Tell(b) + Len(data) :
                Inserted(b, data).main[i]
                    = IF i <= Tell(b) THEN b.main[i] ELSE data[i - Tell(b)]
<1> DEFINE main == b.main
<1>1. main \in Seq(B) /\ Tell(b) = Len(main)
  BY BufferFields
<1>2. Inserted(b, data).main = main \o data
  BY DEF Inserted
<1> HIDE DEF main
<1>3. /\ Len(main \o data) = Len(main) + Len(data)
      /\ \A i \in 1..Len(main) + Len(data) :
            (main \o data)[i] = IF i <= Len(main) THEN main[i] ELSE data[i - Len(main)]
  BY <1>1, ConcatProperties
<1>4. Tell(Inserted(b, data)) = Len(main \o data)
  BY <1>2 DEF Tell
<1> QED BY <1>1, <1>2, <1>3, <1>4 DEF main

\* A write that may not extend the buffer appends as much of its data as there
\* is room for.
LEMMA TruncatingWrite ==
    ASSUME NEW B, NEW b \in BufferType(B), NEW data \in Seq(B)
    PROVE  LET c == Write(b, data, FALSE)
               grown == Tell(b) + Len(data)
           IN  /\ Tell(c) = IF grown <= b.endOffset THEN grown ELSE b.endOffset
               /\ \A i \in 1..Tell(c) :
                    c.main[i] = IF i <= Tell(b) THEN b.main[i] ELSE data[i - Tell(b)]
<1> DEFINE c == Write(b, data, FALSE)
           d == Inserted(b, data)
           grown == Tell(b) + Len(data)
<1>1. /\ d \in BufferType(B) /\ d.endOffset = b.endOffset
  BY InsertedProperties
<1>2. /\ Tell(d) = grown
      /\ \A i \in 1..grown :
            d.main[i] = IF i <= Tell(b) THEN b.main[i] ELSE data[i - Tell(b)]
  BY InsertedBytes
<1>3. grown \in Nat /\ b.endOffset \in Nat
  BY BufferFields
<1>4. c = IF Tell(d) <= b.endOffset THEN d ELSE Extend(d)
  BY DEF Write
<1> HIDE DEF c, d, grown
<1>5. CASE grown <= b.endOffset
  BY <1>2, <1>4, <1>5 DEF c, grown
<1>6. CASE ~(grown <= b.endOffset)
  <2>1. c = Extend(d)
    BY <1>2, <1>4, <1>6
  <2>2. Len(Extend(d).main) = d.endOffset
    BY <1>1, <1>3 DEF Extend, Resize
  <2>3. Tell(c) = b.endOffset
    BY <1>1, <2>1, <2>2 DEF Tell
  <2>4. \A i \in 1..b.endOffset : c.main[i] = d.main[i]
    <3>1. \A i \in 1..d.endOffset :
            Extend(d).main[i] = IF i <= Tell(d) THEN d.main[i] ELSE Zero
      BY <1>1, ExtendedBytes
    <3> QED BY <1>1, <1>2, <1>3, <1>6, <2>1, <3>1
  <2>5. ASSUME NEW i \in 1..Tell(c)
        PROVE  c.main[i] = IF i <= Tell(b) THEN b.main[i] ELSE data[i - Tell(b)]
    <3>1. i \in 1..b.endOffset /\ i \in 1..grown
      BY <1>3, <1>6, <2>3
    <3> QED BY <1>2, <2>4, <3>1
  <2> QED BY <1>6, <2>3, <2>5 DEF c, grown
<1> QED BY <1>5, <1>6
====
