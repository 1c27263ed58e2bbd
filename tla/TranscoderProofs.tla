---- MODULE TranscoderProofs ----
(***************************************************************************)
(* Theorems about Transcoder, for any number of readers, any sources, and  *)
(* any number of faults of every kind; before them, what the operations of *)
(* Mp3Encoder keep of its buffer, for any pieces of LAME's stream.         *)
(***************************************************************************)
EXTENDS Transcoder, BufferProofs

----
(* The encoder *)

\* How an operation of the encoder changes the buffer b of an open file into c:
\* the ID3v1 tag stays as it is, the main segment does not run into it and
\* never shrinks, only the Xing frame overwrites a byte of it, and only with a
\* stats cache does the end segment move.
Advances(opts, b, c) ==
    /\ c.end = b.end
    /\ Separate(b) => Separate(c) /\ Tell(b) <= Tell(c)
    /\ Separate(b) /\ ~opts.vbr => MainPrefixKept(b, c)
    /\ opts.statcachesize = 0 => c.endOffset = b.endOffset

\* A buffer that stays as it is advances.
LEMMA AdvancesReflexive ==
    ASSUME NEW opts, NEW b \in BufferType(Byte)
    PROVE  Advances(opts, b, b)
BY BufferFields DEF Advances, MainPrefixKept

\* What is kept twice is kept.
LEMMA MainPrefixKeptTransitive ==
    ASSUME NEW a \in BufferType(Byte), NEW b \in BufferType(Byte),
           NEW c \in BufferType(Byte), MainPrefixKept(a, b), MainPrefixKept(b, c)
    PROVE  MainPrefixKept(a, c)
BY BufferFields DEF MainPrefixKept

\* The pieces that LAME hands out are sequences of bytes.
LEMMA PieceType ==
    ASSUME NEW s \in Seq(Byte), NEW m \in Nat, NEW n \in Nat, m + n <= Len(s)
    PROVE  SubSeq(s, m + 1, m + n) \in Seq(Byte)
<1>1. \A i \in m + 1..m + n : s[i] \in Byte
  OBVIOUS
<1> QED BY <1>1, SubSeqProperties

\* Encoding a block of samples.
LEMMA EncodeAdvances ==
    ASSUME NEW opts, Zero \in Byte, NEW b \in BufferType(Byte),
           NEW encoded \in Seq(Byte)
    PROVE  LET c == encode_pcm_data(b, encoded)
           IN  c \in BufferType(Byte) /\ Advances(opts, b, c)
<1> DEFINE c == Write(b, encoded, FALSE)
<1>1. /\ c \in BufferType(Byte) /\ c.end = b.end /\ Separate(c)
      /\ Separate(b) => MainPrefixKept(b, c)
      /\ c.endOffset = b.endOffset
  <2> HIDE DEF c
  <2> QED BY WriteProperties DEF c
<1>2. encode_pcm_data(b, encoded) = c
  BY DEF encode_pcm_data
<1> HIDE DEF c
<1> QED BY <1>1, <1>2 DEF Advances, MainPrefixKept

\* Draining LAME: the segments are joined, too.
LEMMA DrainAdvances ==
    ASSUME Zero \in Byte, NEW opts \in ParamsType, NEW b \in BufferType(Byte),
           NEW flushed \in Seq(Byte)
    PROVE  LET c == Drain(opts, b, flushed)
           IN  /\ c \in BufferType(Byte)
               /\ Separate(b) => Separate(c) /\ MainPrefixKept(b, c)
               /\ Advances(opts, b, c)
<1> DEFINE cached == opts.statcachesize > 0
           w == Write(b, flushed, cached)
           c == Drain(opts, b, flushed)
<1>1. opts.statcachesize \in Nat /\ cached \in BOOLEAN
  BY DEF ParamsType
<1>2. /\ w \in BufferType(Byte) /\ w.end = b.end /\ Separate(w)
      /\ Separate(b) => MainPrefixKept(b, w)
      /\ ~cached => w.endOffset = b.endOffset
  <2> HIDE DEF cached, w
  <2> QED BY <1>1, WriteProperties DEF w
<1>3. c = IF cached THEN Truncate(w) ELSE Extend(w)
  BY DEF Drain
<1>4. /\ Truncate(w) \in BufferType(Byte) /\ Truncate(w).end = w.end
      /\ Separate(Truncate(w)) /\ MainPrefixKept(w, Truncate(w))
  <2> HIDE DEF w
  <2> QED BY <1>2, TruncateProperties
<1>5. /\ Extend(w) \in BufferType(Byte) /\ Extend(w).end = w.end
      /\ Extend(w).endOffset = w.endOffset
      /\ Tell(Extend(w)) = w.endOffset
      /\ MainPrefixKept(w, Extend(w))
  <2> HIDE DEF w
  <2> QED BY <1>2, ExtendProperties
<1> HIDE DEF w, c
<1>6. /\ c \in BufferType(Byte) /\ c.end = b.end /\ MainPrefixKept(w, c)
      /\ ~cached => c.endOffset = b.endOffset
  BY <1>1, <1>2, <1>3, <1>4, <1>5
<1>7. Separate(c)
  <2>1. CASE cached
    BY <2>1, <1>3, <1>4
  <2>2. CASE ~cached
    <3>1. w.endOffset \in Nat
      BY <1>2, BufferFields
    <3> QED BY <2>2, <3>1, <1>3, <1>5 DEF Separate
  <2> QED BY <2>1, <2>2
<1>8. Separate(b) => MainPrefixKept(b, c)
  BY <1>2, <1>6, MainPrefixKeptTransitive
<1>9. opts.statcachesize = 0 => ~cached
  OBVIOUS
<1>10. Separate(b) => Tell(b) <= Tell(c)
  BY <1>8 DEF MainPrefixKept
<1> HIDE DEF cached
<1>11. Advances(opts, b, c)
  BY <1>6, <1>7, <1>8, <1>9, <1>10 DEF Advances
<1> QED BY <1>6, <1>7, <1>8, <1>11 DEF c

\* Finishing, with or without the Xing frame.
LEMMA FinishAdvances ==
    ASSUME Zero \in Byte, NEW opts \in ParamsType, NEW file \in SourceType,
           NEW b \in BufferType(Byte), NEW flushed \in Seq(Byte)
    PROVE  LET c == encode_finish(opts, file, b, flushed)
           IN  c \in BufferType(Byte) /\ Advances(opts, b, c)
<1> DEFINE d == Drain(opts, b, flushed)
           c == encode_finish(opts, file, b, flushed)
<1>1. d \in BufferType(Byte) /\ Advances(opts, b, d)
  <2> HIDE DEF d
  <2> QED BY DrainAdvances DEF d
<1>2. CASE ~opts.vbr
  <2>1. c = d
    BY <1>2 DEF encode_finish
  <2> HIDE DEF c, d
  <2> QED BY <1>1, <2>1 DEF c
<1>3. CASE opts.vbr
  <2>1. c = WriteTo(d, VbrTail(file), Len(file.tag2))
    BY <1>3 DEF encode_finish
  <2>2. file.tag2 \in Seq(Byte) /\ file.xing \in Seq(Byte)
    BY DEF SourceType
  <2>3. Len(file.tag2) \in Nat /\ VbrTail(file) \in Seq(Byte)
    <3> DEFINE xing == file.xing
    <3> HIDE DEF xing
    <3>1. xing \in Seq(Byte)
      BY <2>2 DEF xing
    <3>2. Resize(xing, MaxVbrFrame) \in Seq(Byte)
      BY <3>1, ResizeProperties, MaxVbrFrameAssumption
    <3> QED BY <2>2, <3>2 DEF VbrTail, xing
  <2> DEFINE tail == VbrTail(file)
             start == Len(file.tag2)
             e == WriteTo(d, tail, start)
  <2>4. e \in BufferType(Byte) /\ e.end = d.end /\ e.endOffset = d.endOffset
        /\ Tell(e) = Tell(d)
    <3>1. tail \in Seq(Byte) /\ start \in Nat
      BY <2>3
    <3> HIDE DEF d, tail, start, e
    <3> QED BY <1>1, <3>1, WriteToProperties DEF e
  <2>5. c = e
    BY <2>1
  <2> HIDE DEF e, d, tail, start, c
  <2>6. Advances(opts, b, e)
    BY <1>1, <1>3, <2>4 DEF Advances, Separate
  <2> QED BY <2>4, <2>5, <2>6 DEF c
<1> QED BY <1>2, <1>3 DEF ParamsType

\* Where the tags are when the file is opened: the ID3v2 tag is the whole main
\* segment, the ID3v1 tag ends the file at its size.
LEMMA RenderedTags ==
    ASSUME Zero \in Byte, NEW opts \in ParamsType, NEW file \in SourceType,
           NEW fileSize \in Nat,
           fileSize /= 0 => fileSize >= Len(file.tag1)
    PROVE  LET c == render_tag(opts, file, fileSize)
           IN  /\ c \in BufferType(Byte)
               /\ c.end = file.tag1
               /\ Tell(c) = Len(file.tag2)
               /\ c.endOffset = (IF fileSize = 0 THEN calculate_size(opts, file)
                                 ELSE fileSize) - Len(file.tag1)
               /\ fileSize = 0 \/ fileSize >= Len(file.tag2) + Len(file.tag1)
                    => Separate(c)
<1>1. /\ file.tag2 \in Seq(Byte) /\ file.tag1 \in Seq(Byte)
      /\ Len(file.tag2) \in Nat /\ Len(file.tag1) \in Nat
      /\ file.predicted \in Nat
  BY DEF SourceType
<1> DEFINE size == IF fileSize = 0 THEN calculate_size(opts, file) ELSE fileSize
           b == Write(EmptyBuffer, file.tag2, TRUE)
           offset == size - Len(file.tag1)
           c == WriteEnd(b, file.tag1, offset)
<1>2. /\ calculate_size(opts, file) \in Nat
      /\ calculate_size(opts, file) >= Len(file.tag2) + Len(file.tag1)
  <2> DEFINE room == IF opts.vbr THEN MaxVbrFrame ELSE 0
             n2 == Len(file.tag2)
             n1 == Len(file.tag1)
             n == file.predicted
  <2>1. room \in Nat /\ n1 \in Nat /\ n2 \in Nat /\ n \in Nat
    BY <1>1, MaxVbrFrameAssumption
  <2>2. calculate_size(opts, file) = n2 + n1 + n + room
    BY DEF calculate_size
  <2> HIDE DEF room, n1, n2, n
  <2>3. n2 + n1 + n + room \in Nat /\ n2 + n1 + n + room >= n2 + n1
    BY <2>1
  <2>4. calculate_size(opts, file) >= n2 + n1
    BY <2>2, <2>3
  <2> QED BY <2>2, <2>3, <2>4 DEF n1, n2
<1> DEFINE n1 == Len(file.tag1)
           n2 == Len(file.tag2)
           calculated == calculate_size(opts, file)
<1>3. /\ offset \in Nat
      /\ fileSize = 0 \/ fileSize >= n2 + n1 => n2 <= offset
  <2>1. /\ n1 \in Nat /\ n2 \in Nat /\ calculated \in Nat
        /\ calculated >= n2 + n1
        /\ fileSize /= 0 => fileSize >= n1
    BY <1>1, <1>2
  <2>2. offset = (IF fileSize = 0 THEN calculated ELSE fileSize) - n1
    OBVIOUS
  <2> HIDE DEF n1, n2, calculated, offset
  <2>3. CASE fileSize = 0
    BY <2>1, <2>2, <2>3
  <2>4. CASE fileSize /= 0
    BY <2>1, <2>2, <2>4
  <2> QED BY <2>3, <2>4
<1>4. EmptyBuffer \in BufferType(Byte)
  BY DEF EmptyBuffer, BufferType
<1>5. b \in BufferType(Byte)
  <2>1. file.tag2 \in Seq(Byte)
    BY <1>1
  <2> QED BY <1>4, <2>1, WriteProperties
<1>6. Tell(b) = Len(file.tag2)
  <2> DEFINE grown == Inserted(EmptyBuffer, file.tag2)
  <2>1. grown.main = file.tag2
    BY <1>1 DEF Inserted, EmptyBuffer
  <2>2. Tell(grown) = Len(file.tag2)
    BY <2>1 DEF Tell
  <2>3. b = grown \/ b = Truncate(grown)
    BY DEF Write
  <2>4. Tell(Truncate(grown)) = Tell(grown)
    BY DEF Truncate, Tell
  <2> QED BY <2>2, <2>3, <2>4
<1>7. /\ c \in BufferType(Byte) /\ c.main = b.main /\ c.end = file.tag1
      /\ c.endOffset = offset
  <2>1. file.tag1 \in Seq(Byte)
    BY <1>1
  <2> HIDE DEF b, offset
  <2> QED BY <1>3, <1>5, <2>1, WriteEndProperties
<1>8. render_tag(opts, file, fileSize) = c
  BY DEF render_tag
<1>9. Tell(c) = Len(file.tag2)
  BY <1>6, <1>7 DEF Tell
<1>10. fileSize = 0 \/ fileSize >= n2 + n1 => Separate(c)
  BY <1>3, <1>7, <1>9 DEF Separate
<1> HIDE DEF c, b
<1> QED BY <1>7, <1>8, <1>9, <1>10

----
(* What encode_finish makes of the main segment.                           *)

\* Without a stats cache what LAME still held is cut or padded with zeros to the
\* place of the ID3v1 tag.
LEMMA DrainedToSize ==
    ASSUME Zero \in Byte, NEW opts, opts.statcachesize = 0,
           NEW b \in BufferType(Byte), NEW flushed \in Seq(Byte)
    PROVE  LET c == Drain(opts, b, flushed)
           IN  /\ Tell(c) = b.endOffset
               /\ \A i \in 1..b.endOffset :
                    c.main[i] = IF i <= Tell(b) THEN b.main[i]
                                ELSE IF i <= Tell(b) + Len(flushed)
                                     THEN flushed[i - Tell(b)]
                                ELSE Zero
<1> DEFINE w == Write(b, flushed, FALSE)
           c == Drain(opts, b, flushed)
           grown == Tell(b) + Len(flushed)
<1>1. /\ Tell(w) = IF grown <= b.endOffset THEN grown ELSE b.endOffset
      /\ \A i \in 1..Tell(w) :
            w.main[i] = IF i <= Tell(b) THEN b.main[i] ELSE flushed[i - Tell(b)]
  BY TruncatingWrite
<1>2. w \in BufferType(Byte) /\ w.endOffset = b.endOffset
  BY WriteProperties
<1>3. grown \in Nat /\ b.endOffset \in Nat /\ Tell(b) \in Nat /\ Len(flushed) \in Nat
  BY BufferFields
<1>4. c = Extend(w)
  BY DEF Drain, Write
<1> HIDE DEF w, c
<1>5. /\ Tell(c) = w.endOffset
      /\ \A i \in 1..w.endOffset :
            c.main[i] = IF i <= Tell(w) THEN w.main[i] ELSE Zero
  <2>1. Tell(c) = w.endOffset
    BY <1>2, <1>4, ExtendProperties
  <2>2. \A i \in 1..w.endOffset :
            c.main[i] = IF i <= Tell(w) THEN w.main[i] ELSE Zero
    BY <1>2, <1>4, ExtendedBytes
  <2> QED BY <2>1, <2>2
<1>6. \A i \in 1..b.endOffset :
        c.main[i] = IF i <= Tell(b) THEN b.main[i]
                    ELSE IF i <= grown THEN flushed[i - Tell(b)] ELSE Zero
  <2> TAKE i \in 1..b.endOffset
  <2>1. i <= Tell(w) <=> i <= grown
    BY <1>1, <1>3
  <2>2. i <= Tell(b) => i <= grown
    BY <1>3
  <2> QED BY <1>1, <1>2, <1>3, <1>5, <2>1, <2>2
<1> QED BY <1>2, <1>5, <1>6 DEF c

\* With a stats cache all of it is appended, and the ID3v1 tag follows.
LEMMA DrainedWhole ==
    ASSUME NEW opts, opts.statcachesize > 0,
           NEW b \in BufferType(Byte), NEW flushed \in Seq(Byte)
    PROVE  LET c == Drain(opts, b, flushed)
           IN  /\ Tell(c) = Tell(b) + Len(flushed)
               /\ c.endOffset = Tell(b) + Len(flushed)
               /\ c.end = b.end
<1> DEFINE w == Write(b, flushed, TRUE)
           c == Drain(opts, b, flushed)
<1>1. w.main = b.main \o flushed
  BY ExtendingWrite
<1>2. Tell(w) = Tell(b) + Len(flushed)
  <2>1. Tell(Inserted(b, flushed)) = Tell(b) + Len(flushed)
        /\ Inserted(b, flushed).main = b.main \o flushed
    BY InsertedBytes
  <2> QED BY <1>1, <2>1 DEF Tell
<1>3. w.end = b.end
  BY WriteProperties, TRUE \in BOOLEAN DEF Write, Inserted, Truncate
<1>4. c = Truncate(w)
  BY DEF Drain, Write
<1> HIDE DEF w, c
<1> QED BY <1>2, <1>3, <1>4 DEF Truncate, Tell, c

\* The Xing frame is written over its part of the main segment.
LEMMA OverwrittenBytes ==
    ASSUME NEW b \in BufferType(Byte), NEW data, NEW offset
    PROVE  \A i \in 1..Tell(b) :
                WriteTo(b, data, offset).main[i]
                    = IF i - offset \in 1..Len(data) THEN data[i - offset] ELSE b.main[i]
BY DEF WriteTo

\* The Xing frame in its block.
LEMMA VbrTailType ==
    ASSUME Zero \in Byte, NEW file \in SourceType
    PROVE  VbrTail(file) \in Seq(Byte) /\ Len(VbrTail(file)) = MaxVbrFrame
<1> DEFINE xing == file.xing
<1>1. xing \in Seq(Byte)
  BY DEF SourceType
<1> HIDE DEF xing
<1>2. Resize(xing, MaxVbrFrame) \in Seq(Byte) /\ Len(Resize(xing, MaxVbrFrame)) = MaxVbrFrame
  BY <1>1, ResizeProperties, MaxVbrFrameAssumption
<1> QED BY <1>2 DEF VbrTail, xing

\* When the file is opened the main segment is the ID3v2 tag.
LEMMA RenderedMain ==
    ASSUME NEW opts, NEW file \in SourceType, NEW fileSize
    PROVE  render_tag(opts, file, fileSize).main = file.tag2
<1>1. file.tag2 \in Seq(Byte)
  BY DEF SourceType
<1>2. EmptyBuffer \in BufferType(Byte) /\ EmptyBuffer.main = <<>>
  BY DEF EmptyBuffer, BufferType
<1>3. Write(EmptyBuffer, file.tag2, TRUE).main = <<>> \o file.tag2
  BY <1>1, <1>2, ExtendingWrite
<1>4. <<>> \o file.tag2 = file.tag2
  BY <1>1
<1> QED BY <1>3, <1>4 DEF render_tag, WriteEnd

----
(* The transcoder *)

\* The sizes that the cache may hold when the program starts leave room for
\* the tags of the file.
RoomForTags ==
    \A size \in StaleSizes, file \in Sources :
        size >= Len(file.tag2) + Len(file.tag1)

\* A thread is in read() only while the file is open, and without a stats
\* cache there is no size in it.
HandleInv ==
    /\ \A r \in Readers : pc[r] /= "idle" => isOpen
    /\ params.statcachesize = 0 => cachedSize = 0

\* The segments do not overlap, and the main one begins with the ID3v2 tag.
SeparateInv ==
    RoomForTags \/ params.statcachesize = 0 =>
        /\ Separate(buffer)
        /\ isOpen => Len(source.tag2) <= Tell(buffer)
        /\ cachedSize /= 0
             => cachedSize >= Len(source.tag2) + Len(source.tag1)

IInv == TypeOK /\ HandleInv /\ SeparateInv

----
LEMMA EmptyBufferType ==
    /\ EmptyBuffer \in BufferType(Byte)
    /\ Separate(EmptyBuffer)
BY DEF EmptyBuffer, BufferType, Separate, Tell

\* What the types say of the source and of LAME's stream.
LEMMA SourceFacts ==
    ASSUME TypeOK
    PROVE  /\ params \in ParamsType
           /\ source \in SourceType
           /\ source.tag2 \in Seq(Byte) /\ source.tag1 \in Seq(Byte)
           /\ source.audio \in Seq(Byte)
           /\ source.frames \in Nat
           /\ Len(source.tag2) \in Nat /\ Len(source.tag1) \in Nat
           /\ Len(source.audio) \in Nat
           /\ emitted \in Nat /\ streamLen \in Nat
           /\ emitted <= streamLen /\ streamLen <= Len(source.audio)
           /\ Zero \in Byte
<1>1. params \in ParamsType /\ source \in SourceType
  BY TranscoderAssumption DEF TypeOK
<1>2. /\ source.tag2 \in Seq(Byte) /\ source.tag1 \in Seq(Byte)
      /\ source.audio \in Seq(Byte) /\ source.frames \in Nat
  BY <1>1 DEF SourceType
<1>3. Len(source.audio) \in Nat
  BY <1>2
<1>4. streamLen \in Nat /\ streamLen <= Len(source.audio)
  BY <1>3 DEF TypeOK
<1>5. emitted \in Nat /\ emitted <= streamLen
  BY <1>4 DEF TypeOK
<1> QED BY <1>1, <1>2, <1>4, <1>5, TranscoderAssumption

\* The bytes that LAME may still hand out.
LEMMA NextBytesType ==
    ASSUME TypeOK, NEW n \in 0..streamLen - emitted
    PROVE  NextBytes(n) \in Seq(Byte)
<1>1. /\ source.audio \in Seq(Byte) /\ emitted \in Nat /\ n \in Nat
      /\ emitted + n <= Len(source.audio)
  BY SourceFacts
<1> DEFINE audio == source.audio
<1>2. audio \in Seq(Byte) /\ emitted + n <= Len(audio)
  BY <1>1
<1> HIDE DEF audio
<1>3. SubSeq(audio, emitted + 1, emitted + n) \in Seq(Byte)
  BY <1>1, <1>2, PieceType
<1> QED BY <1>3 DEF NextBytes, audio

LEMMA FlushedType ==
    ASSUME TypeOK
    PROVE  Flushed \in Seq(Byte) /\ streamLen - emitted \in Nat
<1>1. streamLen - emitted \in 0..streamLen - emitted
  BY SourceFacts
<1> QED BY <1>1, NextBytesType DEF Flushed

\* Every step on an open handle advances its buffer.
LEMMA BufferAdvances ==
    ASSUME TypeOK, [Next]_vars, isOpen, isOpen'
    PROVE  buffer' \in BufferType(Byte) /\ Advances(params, buffer, buffer')
<1>0. buffer \in BufferType(Byte)
  BY DEF TypeOK
<1>1. CASE buffer' = buffer
  BY <1>0, <1>1, AdvancesReflexive
<1>2. ASSUME NEW r \in Readers, DecodeFrame(r)
      PROVE  buffer' \in BufferType(Byte) /\ Advances(params, buffer, buffer')
  <2>1. PICK n \in 0..streamLen - emitted :
            buffer' = encode_pcm_data(buffer, NextBytes(n))
    BY <1>2 DEF DecodeFrame
  <2>2. NextBytes(n) \in Seq(Byte)
    BY NextBytesType
  <2> QED BY <2>1, <2>2, <1>0, EncodeAdvances, SourceFacts
<1>3. ASSUME NEW r \in Readers, Finish(r)
      PROVE  buffer' \in BufferType(Byte) /\ Advances(params, buffer, buffer')
  <2>1. buffer' = encode_finish(params, source, buffer, Flushed)
    BY <1>3 DEF Finish
  <2> QED BY <2>1, <1>0, FlushedType, FinishAdvances, SourceFacts
<1>4. ASSUME NEW r \in Readers, FinishFails(r)
      PROVE  buffer' \in BufferType(Byte) /\ Advances(params, buffer, buffer')
  <2>1. CASE buffer' = Drain(params, buffer, Flushed)
    BY <2>1, <1>0, FlushedType, DrainAdvances, SourceFacts
  <2>2. buffer' = buffer \/ buffer' = Drain(params, buffer, Flushed)
    BY <1>4 DEF FinishFails
  <2> QED BY <1>1, <2>1, <2>2
<1>5. ASSUME NEW r \in Readers,
             \/ Call(r) \/ ReadWithoutDecoding(r) \/ StartDecoding(r)
             \/ ReachEndOfStream(r) \/ SkipFrame(r) \/ DecodeFails(r)
             \/ DecodeFailsForNow(r) \/ FinishRead(r)
      PROVE  buffer' = buffer
  BY <1>5 DEF Call, ReadWithoutDecoding, StartDecoding, ReachEndOfStream,
              SkipFrame, DecodeFails, DecodeFailsForNow, FinishRead
<1>6. ~Open /\ ~Release
  BY DEF Open, Release
<1>7. Evict \/ UNCHANGED vars => buffer' = buffer
  BY DEF Evict, vars
<1> QED BY <1>1, <1>2, <1>3, <1>4, <1>5, <1>6, <1>7 DEF Next, ReadStep

----
(* What a read returns.                                                    *)

LEMMA UntouchedType ==
    ASSUME NEW n \in Nat
    PROVE  Untouched(n) \in Seq(Byte \cup {NoByte}) /\ Len(Untouched(n)) = n
BY DEF Untouched

\* A part of a segment is a sequence of bytes.
LEMMA PartType ==
    ASSUME NEW s \in Seq(Byte), NEW m \in Nat, NEW n \in Nat, n <= Len(s)
    PROVE  SubSeq(s, m + 1, n) \in Seq(Byte)
<1>1. \A i \in m + 1..n : s[i] \in Byte
  OBVIOUS
<1> QED BY <1>1, SubSeqProperties

\* What copy_into copies are bytes of the file.
LEMMA CopiesBytes ==
    ASSUME NEW b \in BufferType(Byte), NEW offset \in Nat, NEW n \in Nat,
           NEW out, ValidBytes(b, offset, n)
    PROVE  CopyInto(b, out, offset, n) \in Seq(Byte)
<1> DEFINE main == b.main
           end == b.end
           start == b.endOffset
           size == Tell(b)
<1>1. /\ main \in Seq(Byte) /\ end \in Seq(Byte) /\ start \in Nat
      /\ size \in Nat /\ size = Len(main)
  BY BufferFields
<1>2. Size(b) = start + Len(end)
  BY DEF Size
<1>3. /\ offset + n <= start + Len(end)
      /\ offset + n <= size \/ offset >= start \/ size = start
  BY <1>2 DEF ValidBytes
<1> HIDE DEF main, end, start, size
<1>4. CASE offset + n <= size
  <2>1. CopyInto(b, out, offset, n) = SubSeq(main, offset + 1, offset + n)
    BY <1>4 DEF CopyInto, main, size
  <2> QED BY <1>1, <1>4, <2>1, PartType
<1>5. CASE ~(offset + n <= size) /\ offset >= start
  <2>1. CopyInto(b, out, offset, n)
            = SubSeq(end, offset - start + 1, offset - start + n)
    BY <1>5 DEF CopyInto, end, start, size
  <2>2. offset - start \in Nat /\ offset - start + n \in Nat
        /\ offset - start + n <= Len(end)
    BY <1>1, <1>3, <1>5
  <2> QED BY <1>1, <2>1, <2>2, PartType
<1>6. CASE ~(offset + n <= size) /\ ~(offset >= start)
  <2>1. CopyInto(b, out, offset, n)
            = SubSeq(main, offset + 1, size) \o SubSeq(end, 1, n - (size - offset))
    BY <1>6 DEF CopyInto, main, end, start, size
  <2>2. SubSeq(main, offset + 1, size) \in Seq(Byte)
    BY <1>1, PartType
  <2>3. n - (size - offset) \in Nat /\ n - (size - offset) <= Len(end)
    BY <1>1, <1>3, <1>6
  <2>4. SubSeq(end, 0 + 1, n - (size - offset)) \in Seq(Byte)
    BY <1>1, <2>3, PartType
  <2>5. SubSeq(end, 1, n - (size - offset)) \in Seq(Byte)
    BY <2>4
  <2> QED BY <2>1, <2>2, <2>5, ConcatProperties
<1> QED BY <1>4, <1>5, <1>6

\* What copy_into leaves in the caller's memory, whether it copies or not.
LEMMA CopyIntoType ==
    ASSUME NEW b \in BufferType(Byte), NEW offset \in Nat, NEW n \in Nat
    PROVE  CopyInto(b, Untouched(n), offset, n) \in Seq(Byte \cup {NoByte})
<1>1. CASE ValidBytes(b, offset, n)
  <2>1. CopyInto(b, Untouched(n), offset, n) \in Seq(Byte)
    BY <1>1, CopiesBytes
  <2> HIDE DEF CopyInto
  <2> QED BY <2>1
<1>2. CASE ~ValidBytes(b, offset, n)
  BY <1>2, UntouchedType DEF CopyInto
<1> QED BY <1>1, <1>2

\* How much read() can deliver is not negative.
LEMMA MaxValidBytesType ==
    ASSUME NEW b \in BufferType(Byte), NEW offset \in Nat
    PROVE  MaxValidBytes(b, offset) \in Nat
<1>1. /\ Tell(b) \in Nat /\ b.endOffset \in Nat /\ Len(b.end) \in Nat
  BY BufferFields
<1>2. Size(b) \in Nat
  BY <1>1 DEF Size
<1> QED BY <1>1, <1>2 DEF MaxValidBytes

\* The types of the arguments of a read.
LEMMA RequestType ==
    ASSUME TypeOK, NEW r \in Readers
    PROVE  request[r].offset \in Nat /\ request[r].length \in Nat
<1>1. request[r] \in [offset : Offsets \cup {0}, length : Lengths \cup {0}]
  BY DEF TypeOK
<1>2. Offsets \cup {0} \subseteq Nat /\ Lengths \cup {0} \subseteq Nat
  BY TranscoderAssumption
<1> QED BY <1>1, <1>2

LEMMA DeliverableType ==
    ASSUME TypeOK, NEW r \in Readers
    PROVE  Deliverable(r) \in Nat
BY RequestType, MaxValidBytesType DEF Deliverable, TypeOK

\* The answers that a read can return.
Answer == [status : {"pending", "ok", "EIO"}, data : Seq(Byte \cup {NoByte})]

LEMMA AnswerTypes ==
    /\ Pending \in Answer /\ IoError \in Answer
    /\ \A data \in Seq(Byte \cup {NoByte}) : Ok(data) \in Answer
BY DEF Pending, IoError, Ok, Answer

LEMMA CopiedType ==
    ASSUME TypeOK, NEW r \in Readers, NEW n \in Nat
    PROVE  Copied(r, n) \in Answer
<1>1. CopyInto(buffer, Untouched(n), request[r].offset, n) \in Seq(Byte \cup {NoByte})
  <2> DEFINE offset == request[r].offset
  <2>1. offset \in Nat
    BY RequestType
  <2> HIDE DEF offset
  <2>2. CopyInto(buffer, Untouched(n), offset, n) \in Seq(Byte \cup {NoByte})
    BY <2>1, CopyIntoType DEF TypeOK
  <2> QED BY <2>2 DEF offset
<1> HIDE DEF CopyInto
<1> QED BY <1>1, AnswerTypes DEF Copied

\* The part of TypeOK about the readers.
ReadersType ==
    /\ owner \in Readers \cup {NoReader}
    /\ pc \in [Readers -> {"idle", "locking", "transcoding"}]
    /\ request \in [Readers -> [offset : Offsets \cup {0}, length : Lengths \cup {0}]]
    /\ result \in [Readers -> Answer]

LEMMA ReturnType ==
    ASSUME TypeOK, NEW r \in Readers, NEW answer \in Answer,
           ReturnWith(r, answer), request' = request
    PROVE  ReadersType'
BY DEF TypeOK, ReturnWith, ReadersType, Answer

\* The part of TypeOK about the transcoding.
HandleType ==
    /\ params \in ParamSets
    /\ source \in Sources
    /\ isOpen \in BOOLEAN
    /\ buffer \in BufferType(Byte)
    /\ isOpen => buffer.end = source.tag1
    /\ decoder \in {"none", "reading", "eos", "aborted"}
    /\ framesLeft \in Nat
    /\ encoder \in BOOLEAN
    /\ emitted \in 0..streamLen
    /\ streamLen \in 0..Len(source.audio)
    /\ cachedSize \in Nat
    /\ cachedSize /= 0 => cachedSize >= Len(source.tag1)
    /\ faults \in 0..MaxFaults

LEMMA TypeParts == TypeOK <=> ReadersType /\ HandleType
BY DEF TypeOK, ReadersType, HandleType, Answer

LEMMA InvParts ==
    ASSUME ReadersType', HandleType', HandleInv', SeparateInv'
    PROVE  IInv'
<1>1. TypeOK'
  BY DEF TypeOK, ReadersType, HandleType, Answer
<1> QED BY <1>1 DEF IInv

\* A failure is one more, within the bound.
LEMMA FaultType ==
    ASSUME TypeOK, NEW kind, Fault(kind)
    PROVE  faults' \in 0..MaxFaults
BY TranscoderAssumption DEF Fault, TypeOK

\* Losing a part of the stream.
LEMMA LossType ==
    ASSUME TypeOK, streamLen' \in emitted..streamLen, emitted' = emitted
    PROVE  emitted' \in 0..streamLen' /\ streamLen' \in 0..Len(source.audio)
BY SourceFacts

\* The size of a buffer that ends with the ID3v1 tag.
LEMMA SizeWithTag ==
    ASSUME TypeOK, NEW b \in BufferType(Byte), b.end = source.tag1
    PROVE  Size(b) \in Nat /\ Size(b) = b.endOffset + Len(source.tag1)
           /\ Size(b) >= Len(source.tag1)
<1>1. b.endOffset \in Nat /\ Len(source.tag1) \in Nat
  BY BufferFields, SourceFacts
<1>2. Size(b) = b.endOffset + Len(source.tag1)
  BY DEF Size
<1> QED BY <1>1, <1>2

----
LEMMA InitInv == Init => IInv
<1> SUFFICES ASSUME Init PROVE IInv
  OBVIOUS
<1>1. ReadersType
  BY TranscoderAssumption, AnswerTypes DEF Init, ReadersType, NoRequest
<1>2. source \in SourceType /\ Len(source.audio) \in Nat
  <2>1. source \in SourceType
    BY TranscoderAssumption DEF Init
  <2> QED BY <2>1 DEF SourceType
<1>3. cachedSize \in Nat /\ (cachedSize /= 0 => cachedSize \in StaleSizes)
      /\ (params.statcachesize = 0 => cachedSize = 0)
  <2>1. params.statcachesize \in Nat
    BY TranscoderAssumption DEF Init, ParamsType
  <2> QED BY <2>1, TranscoderAssumption DEF Init
<1>4. HandleType
  <2>1. emitted \in 0..streamLen /\ streamLen \in 0..Len(source.audio)
        /\ faults \in 0..MaxFaults
    BY <1>2, TranscoderAssumption DEF Init
  <2>2. cachedSize /= 0 => cachedSize >= Len(source.tag1)
    BY <1>3, TranscoderAssumption DEF Init
  <2> QED BY <1>3, <2>1, <2>2, EmptyBufferType DEF Init, HandleType
<1>5. HandleInv
  BY <1>3 DEF Init, HandleInv
<1>6. SeparateInv
  BY <1>3, EmptyBufferType DEF Init, SeparateInv, RoomForTags
<1> QED BY <1>1, <1>4, <1>5, <1>6, TypeParts DEF IInv

LEMMA OpenInv == ASSUME IInv, Open PROVE IInv'
<1> USE DEF IInv
<1>1. cachedSize \in Nat /\ (cachedSize /= 0 => cachedSize >= Len(source.tag1))
  BY DEF TypeOK
<1> DEFINE c == render_tag(params, source, cachedSize)
<1>2. /\ c \in BufferType(Byte) /\ c.end = source.tag1
      /\ Tell(c) = Len(source.tag2)
      /\ cachedSize = 0 \/ cachedSize >= Len(source.tag2) + Len(source.tag1)
            => Separate(c)
  <2> HIDE DEF c
  <2> QED BY <1>1, RenderedTags, SourceFacts DEF c
<1>3. buffer' = c /\ source' = source /\ params' = params
      /\ cachedSize' = cachedSize /\ pc' = pc /\ isOpen'
  BY DEF Open
<1> HIDE DEF c
<1>4. HandleType'
  <2>1. emitted' \in 0..streamLen' /\ streamLen' \in 0..Len(source'.audio)
    <3>1. streamLen' = Len(source.audio) /\ emitted' = emitted
      BY DEF Open
    <3> QED BY <1>3, <3>1, SourceFacts
  <2>2. framesLeft' \in Nat
    BY SourceFacts DEF Open
  <2> QED BY <1>2, <1>3, <2>1, <2>2, TypeParts DEF HandleType, Open
<1>5. ReadersType'
  BY TypeParts DEF ReadersType, Open
<1>6. HandleInv'
  BY <1>3 DEF HandleInv
<1>7. SeparateInv'
  <2>1. Len(source.tag2) \in Nat
    BY SourceFacts
  <2>2. (Separate(buffer))' <=> Separate(c)
    BY <1>3 DEF Separate, Tell
  <2>3. (Tell(buffer))' = Tell(c)
    BY <1>3 DEF Tell
  <2>4. ASSUME RoomForTags \/ params.statcachesize = 0
        PROVE  /\ Separate(c)
               /\ Len(source.tag2) <= Tell(c)
               /\ cachedSize /= 0
                    => cachedSize >= Len(source.tag2) + Len(source.tag1)
    <3>1. cachedSize /= 0 => cachedSize >= Len(source.tag2) + Len(source.tag1)
      BY <2>4 DEF SeparateInv
    <3>2. Separate(c)
      BY <3>1, <1>2
    <3>3. Len(source.tag2) <= Tell(c)
      <4> DEFINE n == Len(source.tag2)
      <4>1. n \in Nat /\ Tell(c) = n
        BY <1>2, <2>1
      <4> HIDE DEF n
      <4>2. n <= Tell(c)
        BY <4>1
      <4> QED BY <4>2 DEF n
    <3> QED BY <3>1, <3>2, <3>3
  <2>5. RoomForTags' => RoomForTags
    BY DEF RoomForTags
  <2> QED BY <1>3, <2>2, <2>3, <2>4, <2>5 DEF SeparateInv
<1> QED BY <1>4, <1>5, <1>6, <1>7, InvParts

\* A step on an open handle keeps the segments apart, and what it leaves in
\* the cache leaves room for the tags.
LEMMA SeparateStep ==
    ASSUME IInv, [Next]_vars, isOpen, isOpen', params' = params, source' = source,
           cachedSize' \in {cachedSize, Size(buffer')}
    PROVE  SeparateInv'
<1> DEFINE n1 == Len(source.tag1)
           n2 == Len(source.tag2)
<1>1. /\ buffer' \in BufferType(Byte) /\ buffer \in BufferType(Byte)
      /\ Advances(params, buffer, buffer')
      /\ buffer'.end = source.tag1
  <2>1. buffer' \in BufferType(Byte) /\ Advances(params, buffer, buffer')
    BY BufferAdvances DEF IInv
  <2>2. buffer \in BufferType(Byte) /\ buffer.end = source.tag1
    BY DEF IInv, TypeOK
  <2> QED BY <2>1, <2>2 DEF Advances
<1>2. /\ n1 \in Nat /\ n2 \in Nat
      /\ Tell(buffer) \in Nat /\ Tell(buffer') \in Nat /\ buffer'.endOffset \in Nat
      /\ Size(buffer') = buffer'.endOffset + n1
      /\ cachedSize \in Nat
  BY <1>1, BufferFields, SourceFacts, SizeWithTag DEF IInv, TypeOK
<1>3. ASSUME RoomForTags \/ params.statcachesize = 0
      PROVE  /\ Separate(buffer')
             /\ n2 <= Tell(buffer')
             /\ cachedSize' /= 0 => cachedSize' >= n2 + n1
  <2>1. /\ Separate(buffer) /\ n2 <= Tell(buffer)
        /\ cachedSize /= 0 => cachedSize >= n2 + n1
    BY <1>3 DEF IInv, SeparateInv
  <2>2. Separate(buffer') /\ Tell(buffer) <= Tell(buffer')
    BY <1>1, <2>1 DEF Advances
  <2> HIDE DEF n1, n2
  <2>3. n2 <= Tell(buffer')
    BY <1>2, <2>1, <2>2
  <2>4. Tell(buffer') <= buffer'.endOffset
    BY <2>2 DEF Separate
  <2>5. Size(buffer') >= n2 + n1
    BY <1>2, <2>3, <2>4
  <2> QED BY <2>1, <2>2, <2>3, <2>5
<1>4. (Separate(buffer))' <=> Separate(buffer')
  BY DEF Separate, Tell
<1>5. (Tell(buffer))' = Tell(buffer')
  BY DEF Tell
<1>6. RoomForTags' => RoomForTags
  BY DEF RoomForTags
<1> QED BY <1>3, <1>4, <1>5, <1>6 DEF SeparateInv

LEMMA ReleaseInv == ASSUME IInv, Release PROVE IInv'
<1> USE DEF IInv
<1>1. ReadersType'
  BY AnswerTypes, TypeParts DEF ReadersType, Release, NoRequest
<1>2. HandleType'
  <2>1. emitted' \in 0..streamLen' /\ streamLen' \in 0..Len(source'.audio)
    BY SourceFacts DEF Release
  <2> QED BY <2>1, EmptyBufferType, TypeParts DEF HandleType, Release
<1>3. HandleInv'
  BY DEF HandleInv, Release
<1>4. SeparateInv'
  <2>1. (Separate(buffer))'
    BY EmptyBufferType DEF Release, Separate, Tell
  <2>2. RoomForTags' => RoomForTags
    BY DEF RoomForTags
  <2> QED BY <2>1, <2>2 DEF SeparateInv, Release
<1> QED BY <1>1, <1>2, <1>3, <1>4, InvParts

LEMMA EvictInv == ASSUME IInv, Evict PROVE IInv'
<1> USE DEF IInv
<1>1. ReadersType'
  BY TypeParts DEF ReadersType, Evict
<1>2. HandleType'
  BY TypeParts DEF HandleType, Evict
<1>3. HandleInv'
  BY DEF HandleInv, Evict
<1>4. SeparateInv'
  <2>1. (Separate(buffer))' <=> Separate(buffer)
    BY DEF Evict, Separate, Tell
  <2>2. (Tell(buffer))' = Tell(buffer)
    BY DEF Evict, Tell
  <2>3. RoomForTags' => RoomForTags
    BY DEF RoomForTags
  <2> QED BY <2>1, <2>2, <2>3 DEF SeparateInv, Evict
<1> QED BY <1>1, <1>2, <1>3, <1>4, InvParts

\* What a step of the read by r keeps, when it changes only what it says.
LEMMA ReadStepInv ==
    ASSUME IInv, [Next]_vars, NEW r \in Readers, pc[r] /= "idle",
           isOpen' = isOpen, params' = params, source' = source,
           cachedSize' \in {cachedSize, Size(buffer')},
           params.statcachesize = 0 => cachedSize' = cachedSize,
           \A q \in Readers : pc'[q] /= "idle" => pc[q] /= "idle",
           ReadersType', decoder' \in {"none", "reading", "eos", "aborted"},
           framesLeft' \in Nat, encoder' \in BOOLEAN,
           emitted' \in 0..streamLen', streamLen' \in 0..Len(source.audio),
           faults' \in 0..MaxFaults
    PROVE  IInv'
<1>1. isOpen /\ isOpen'
  BY DEF IInv, HandleInv
<1>2. SeparateInv'
  BY <1>1, SeparateStep
<1>3. HandleInv'
  BY <1>1 DEF IInv, HandleInv
<1>4. /\ buffer' \in BufferType(Byte) /\ buffer'.end = source.tag1
  <2>1. buffer' \in BufferType(Byte) /\ Advances(params, buffer, buffer')
    BY <1>1, BufferAdvances DEF IInv
  <2>2. buffer.end = source.tag1
    BY <1>1 DEF IInv, TypeOK
  <2> QED BY <2>1, <2>2 DEF Advances
<1>5. cachedSize' \in Nat /\ (cachedSize' /= 0 => cachedSize' >= Len(source.tag1))
  <2>1. Size(buffer') \in Nat /\ Size(buffer') >= Len(source.tag1)
    BY <1>4, SizeWithTag DEF IInv
  <2>2. cachedSize \in Nat /\ (cachedSize /= 0 => cachedSize >= Len(source.tag1))
    BY DEF IInv, TypeOK
  <2> QED BY <2>1, <2>2
<1>6. params' \in ParamSets /\ source' \in Sources
  BY DEF IInv, TypeOK
<1>7. HandleType'
  BY <1>1, <1>4, <1>5, <1>6 DEF HandleType
<1> QED BY <1>2, <1>3, <1>7, InvParts

\* The steps of one reader.
LEMMA CallInv == ASSUME IInv, [Next]_vars, NEW r \in Readers, Call(r) PROVE IInv'
<1> USE DEF IInv
<1>1. ReadersType'
  <2>1. \A offset \in Offsets, length \in Lengths :
            [offset |-> offset, length |-> length]
                \in [offset : Offsets \cup {0}, length : Lengths \cup {0}]
    OBVIOUS
  <2> QED BY <2>1, AnswerTypes, TypeParts DEF ReadersType, Call
<1>2. HandleType'
  BY TypeParts DEF HandleType, Call
<1>3. HandleInv'
  BY DEF HandleInv, Call
<1>4. SeparateInv'
  <2>1. isOpen /\ isOpen' /\ params' = params /\ source' = source
        /\ cachedSize' = cachedSize
    BY DEF Call
  <2> QED BY <2>1, SeparateStep
<1> QED BY <1>1, <1>2, <1>3, <1>4, InvParts

LEMMA ReadInv ==
    ASSUME IInv, [Next]_vars, NEW r \in Readers,
           ReadWithoutDecoding(r) \/ StartDecoding(r) \/ ReadStep(r)
    PROVE  IInv'
<1> USE DEF IInv
<1>0. /\ ReadersType
      /\ decoder \in {"none", "reading", "eos", "aborted"}
      /\ framesLeft \in Nat /\ encoder \in BOOLEAN
      /\ emitted \in 0..streamLen /\ streamLen \in 0..Len(source.audio)
      /\ faults \in 0..MaxFaults /\ cachedSize \in Nat
  BY TypeParts DEF HandleType
<1>1. ASSUME NEW answer \in Answer, ReturnWith(r, answer), request' = request
      PROVE  /\ ReadersType'
             /\ \A q \in Readers : pc'[q] /= "idle" => pc[q] /= "idle"
  BY <1>0, <1>1, ReturnType DEF ReturnWith, ReadersType
<1>2. CASE ReadWithoutDecoding(r)
  <2>1. Copied(r, request[r].length) \in Answer /\ Ok(<<>>) \in Answer
    <3>1. <<>> \in Seq(Byte \cup {NoByte})
      OBVIOUS
    <3> QED BY <3>1, CopiedType, RequestType, AnswerTypes
  <2>2. PICK answer \in Answer : ReturnWith(r, answer)
    BY <1>2, <2>1 DEF ReadWithoutDecoding
  <2>3. ReadersType' /\ \A q \in Readers : pc'[q] /= "idle" => pc[q] /= "idle"
    BY <1>1, <1>2, <2>2 DEF ReadWithoutDecoding
  <2> QED BY <1>0, <1>2, <2>3, ReadStepInv DEF ReadWithoutDecoding
<1>3. CASE StartDecoding(r)
  <2>1. ReadersType' /\ \A q \in Readers : pc'[q] /= "idle" => pc[q] /= "idle"
    BY <1>0, <1>3 DEF StartDecoding, ReadersType
  <2> QED BY <1>0, <1>3, <2>1, ReadStepInv DEF StartDecoding
<1>4. CASE DecodeFrame(r)
  <2>1. ReadersType' /\ \A q \in Readers : pc'[q] /= "idle" => pc[q] /= "idle"
    BY <1>0, <1>4 DEF DecodeFrame, ReadersType
  <2>2. emitted' \in 0..streamLen
    <3>1. PICK n \in 0..streamLen - emitted : emitted' = emitted + n
      BY <1>4 DEF DecodeFrame
    <3> QED BY <3>1, SourceFacts
  <2>3. framesLeft' \in Nat
    BY <1>0, <1>4 DEF DecodeFrame
  <2>4. pc[r] /= "idle"
    BY <1>4 DEF DecodeFrame, InLoop
  <2> QED BY <1>0, <1>4, <2>1, <2>2, <2>3, <2>4, ReadStepInv DEF DecodeFrame
<1>5. CASE ReachEndOfStream(r)
  <2>1. ReadersType' /\ \A q \in Readers : pc'[q] /= "idle" => pc[q] /= "idle"
    BY <1>0, <1>5 DEF ReachEndOfStream, ReadersType
  <2> QED BY <1>0, <1>5, <2>1, ReadStepInv DEF ReachEndOfStream, InLoop
<1>6. CASE SkipFrame(r)
  <2>1. ReadersType' /\ \A q \in Readers : pc'[q] /= "idle" => pc[q] /= "idle"
    BY <1>0, <1>6 DEF SkipFrame, ReadersType
  <2>2. emitted' \in 0..streamLen' /\ streamLen' \in 0..Len(source.audio)
    BY <1>6, SourceFacts DEF SkipFrame
  <2>3. framesLeft' \in Nat
    BY <1>0, <1>6 DEF SkipFrame
  <2>4. faults' \in 0..MaxFaults
    BY <1>6, FaultType DEF SkipFrame
  <2> QED BY <1>0, <1>6, <2>1, <2>2, <2>3, <2>4, ReadStepInv DEF SkipFrame, InLoop
<1>7. CASE DecodeFails(r)
  <2>1. ReadersType' /\ \A q \in Readers : pc'[q] /= "idle" => pc[q] /= "idle"
    BY <1>1, <1>7, AnswerTypes DEF DecodeFails
  <2>2. emitted' \in 0..streamLen' /\ streamLen' \in 0..Len(source.audio)
    BY <1>7, SourceFacts DEF DecodeFails
  <2>3. framesLeft' \in Nat
    BY <1>0, <1>7 DEF DecodeFails
  <2>4. faults' \in 0..MaxFaults
    BY <1>7, FaultType DEF DecodeFails
  <2>5. decoder' \in {"none", "reading", "eos", "aborted"} /\ pc[r] /= "idle"
    BY <1>0, <1>7 DEF DecodeFails, InLoop
  <2> QED BY <1>0, <1>7, <2>1, <2>2, <2>3, <2>4, <2>5, ReadStepInv DEF DecodeFails
<1>8. CASE DecodeFailsForNow(r)
  <2>1. ReadersType' /\ \A q \in Readers : pc'[q] /= "idle" => pc[q] /= "idle"
    BY <1>1, <1>8, AnswerTypes DEF DecodeFailsForNow
  <2>2. faults' \in 0..MaxFaults
    BY <1>8, FaultType DEF DecodeFailsForNow
  <2> QED BY <1>0, <1>8, <2>1, <2>2, ReadStepInv DEF DecodeFailsForNow, InLoop
<1>9. CASE Finish(r)
  <2>1. ReadersType' /\ \A q \in Readers : pc'[q] /= "idle" => pc[q] /= "idle"
    BY <1>0, <1>9 DEF Finish, ReadersType
  <2>2. emitted' \in 0..streamLen /\ pc[r] /= "idle"
    BY <1>9, SourceFacts DEF Finish, InLoop
  <2>3. /\ cachedSize' \in {cachedSize, Size(buffer')}
        /\ params.statcachesize = 0 => cachedSize' = cachedSize
    BY <1>9 DEF Finish
  <2> QED BY <1>0, <1>9, <2>1, <2>2, <2>3, ReadStepInv DEF Finish
<1>10. CASE FinishFails(r)
  <2>1. ReadersType' /\ \A q \in Readers : pc'[q] /= "idle" => pc[q] /= "idle"
    BY <1>1, <1>10, AnswerTypes DEF FinishFails
  <2>2. emitted' \in 0..streamLen /\ pc[r] /= "idle"
    BY <1>0, <1>10, SourceFacts DEF FinishFails, InLoop
  <2>3. faults' \in 0..MaxFaults
    BY <1>10, FaultType DEF FinishFails
  <2> QED BY <1>0, <1>10, <2>1, <2>2, <2>3, ReadStepInv DEF FinishFails
<1>11. CASE FinishRead(r)
  <2>1. Copied(r, Deliverable(r)) \in Answer
    BY CopiedType, DeliverableType
  <2>2. ReadersType' /\ \A q \in Readers : pc'[q] /= "idle" => pc[q] /= "idle"
    BY <1>1, <1>11, <2>1 DEF FinishRead
  <2> QED BY <1>0, <1>11, <2>2, ReadStepInv DEF FinishRead
<1> QED BY <1>2, <1>3, <1>4, <1>5, <1>6, <1>7, <1>8, <1>9, <1>10, <1>11 DEF ReadStep

LEMMA NextInv == IInv /\ [Next]_vars => IInv'
<1> SUFFICES ASSUME IInv, [Next]_vars PROVE IInv'
  OBVIOUS
<1>1. CASE UNCHANGED vars
  BY <1>1 DEF IInv, TypeOK, HandleInv, SeparateInv, RoomForTags, Separate, Tell, vars
<1> QED BY <1>1, OpenInv, ReleaseInv, EvictInv, CallInv, ReadInv DEF Next

LEMMA SpecInv == Spec => []IInv
BY InitInv, NextInv, PTL DEF Spec

----
\* Every variable has its type.
THEOREM TranscoderTypeCorrect == Spec => []TypeOK
<1>1. IInv => TypeOK
  BY DEF IInv
<1> QED BY <1>1, SpecInv, PTL

\* What a step on an open handle does to its buffer, for the action properties.
LEMMA OpenStep ==
    ASSUME IInv, [Next]_vars, isOpen, isOpen'
    PROVE  /\ buffer \in BufferType(Byte) /\ buffer' \in BufferType(Byte)
           /\ Advances(params, buffer, buffer')
           /\ params.statcachesize = 0 => Separate(buffer)
BY BufferAdvances DEF IInv, TypeOK, SeparateInv

\* Without a stats cache, the size of an open file never changes, whatever
\* the length of the stream and whatever fails.
THEOREM SizeIsFinal == Spec => SizeNeverChanges
<1>1. ASSUME IInv, [Next]_vars
      PROVE  [isOpen /\ isOpen' /\ params.statcachesize = 0
                => Size(buffer') = Size(buffer)]_vars
  <2> SUFFICES ASSUME isOpen, isOpen', params.statcachesize = 0
               PROVE  Size(buffer') = Size(buffer)
    OBVIOUS
  <2>1. buffer'.end = buffer.end /\ buffer'.endOffset = buffer.endOffset
    BY <1>1, OpenStep DEF Advances
  <2> QED BY <2>1 DEF Size
<1> QED BY <1>1, SpecInv, PTL DEF Spec, SizeNeverChanges

\* With CBR and segments apart, what is filled in stays as it is when the
\* encoder moves on and the end segment does not move.
LEMMA FilledStays ==
    ASSUME NEW p, NEW b \in BufferType(Byte), NEW c \in BufferType(Byte),
           Separate(b), Advances(p, b, c), ~p.vbr, p.statcachesize = 0,
           NEW i \in Int, IsFilled(b, i)
    PROVE  IsFilled(c, i) /\ ByteAt(c, i) = ByteAt(b, i)
BY FilledStaysGrowing DEF Advances

\* Without a stats cache and with CBR, no byte that could have been read is
\* changed or lost while the file is open: reads of one handle agree.
THEOREM ReadsAgree == Spec => FilledBytesStable
<1>1. ASSUME IInv, [Next]_vars
      PROVE  [isOpen /\ isOpen' /\ params.statcachesize = 0 /\ ~params.vbr =>
                \A i \in 0..Size(buffer) - 1 : IsFilled(buffer, i) =>
                    IsFilled(buffer', i) /\ ByteAt(buffer', i) = ByteAt(buffer, i)]_vars
  <2> SUFFICES ASSUME isOpen, isOpen', params.statcachesize = 0, ~params.vbr,
                      NEW i \in 0..Size(buffer) - 1, IsFilled(buffer, i)
               PROVE  IsFilled(buffer', i) /\ ByteAt(buffer', i) = ByteAt(buffer, i)
    OBVIOUS
  <2>1. i \in Int
    OBVIOUS
  <2> QED BY <1>1, <2>1, OpenStep, FilledStays
<1> QED BY <1>1, SpecInv, PTL DEF Spec, FilledBytesStable

\* With CBR, the bytes of the main segment are final when they are written, in
\* every cache mode.
THEOREM MainIsFinal == Spec => MainOnlyGrows
<1>1. ASSUME IInv, [Next]_vars
      PROVE  [isOpen /\ isOpen' /\ ~params.vbr /\ Separate(buffer) =>
                /\ Separate(buffer')
                /\ Tell(buffer) <= Tell(buffer')
                /\ SubSeq(buffer'.main, 1, Tell(buffer)) = buffer.main]_vars
  <2> SUFFICES ASSUME isOpen, isOpen', ~params.vbr, Separate(buffer)
               PROVE  /\ Separate(buffer')
                      /\ Tell(buffer) <= Tell(buffer')
                      /\ SubSeq(buffer'.main, 1, Tell(buffer)) = buffer.main
    OBVIOUS
  <2>1. /\ buffer \in BufferType(Byte) /\ buffer' \in BufferType(Byte)
        /\ Separate(buffer') /\ MainPrefixKept(buffer, buffer')
    BY <1>1, OpenStep DEF Advances
  <2> DEFINE old == buffer.main
             new == buffer'.main
             n == Tell(buffer)
  <2>2. /\ old \in Seq(Byte) /\ new \in Seq(Byte) /\ n = Len(old)
        /\ n <= Len(new) /\ \A i \in 1..n : new[i] = old[i]
    BY <2>1, BufferFields DEF MainPrefixKept
  <2> HIDE DEF old, new, n
  <2>3. SubSeq(new, 1, n) = old
    <3>1. \A i \in 1..n : new[i] \in Byte
      BY <2>2
    <3>2. n \in Nat
      BY <2>2
    <3>3. /\ SubSeq(new, 1, n) \in Seq(Byte)
          /\ Len(SubSeq(new, 1, n)) = IF 1 <= n THEN n - 1 + 1 ELSE 0
          /\ \A i \in 1..n - 1 + 1 : SubSeq(new, 1, n)[i] = new[1 + i - 1]
      BY <3>1, <3>2, SubSeqProperties
    <3>4. Len(SubSeq(new, 1, n)) = n
      BY <3>2, <3>3
    <3>5. \A i \in 1..n : SubSeq(new, 1, n)[i] = old[i]
      <4> TAKE i \in 1..n
      <4>1. i \in 1..n - 1 + 1 /\ 1 + i - 1 = i
        BY <3>2
      <4> QED BY <4>1, <3>3, <2>2
    <3> QED BY <2>2, <3>3, <3>4, <3>5, SeqEqual
  <2> QED BY <2>1, <2>3 DEF MainPrefixKept, n, old, new
<1> QED BY <1>1, SpecInv, PTL DEF Spec, MainOnlyGrows

----
\* The length that max_valid_bytes returns is one that valid_bytes accepts,
\* when the segments are apart.
LEMMA DeliverableIsValid ==
    ASSUME NEW b \in BufferType(Byte), Separate(b), NEW offset \in Nat,
           NEW n \in Nat, n <= MaxValidBytes(b, offset), n > 0
    PROVE  ValidBytes(b, offset, n)
<1>1. /\ Tell(b) \in Nat /\ b.endOffset \in Nat /\ Len(b.end) \in Nat
      /\ Tell(b) <= b.endOffset
  BY BufferFields DEF Separate
<1>2. Size(b) \in Nat /\ b.endOffset <= Size(b)
  BY <1>1 DEF Size
<1> QED BY <1>1, <1>2 DEF MaxValidBytes, ValidBytes

\* What a read with such a length returns are bytes of the file.
LEMMA CopiedIsWritten ==
    ASSUME TypeOK, Separate(buffer), NEW r \in Readers, NEW n \in Nat,
           n = 0 \/ ValidBytes(buffer, request[r].offset, n)
    PROVE  Copied(r, n).data \in Seq(Byte)
<1> DEFINE offset == request[r].offset
           data == CopyInto(buffer, Untouched(n), offset, n)
<1>1. offset \in Nat /\ buffer \in BufferType(Byte)
  BY RequestType DEF TypeOK
<1>2. data \in Seq(Byte)
  <2>1. CASE ValidBytes(buffer, offset, n)
    <3> HIDE DEF offset
    <3> QED BY <1>1, <2>1, CopiesBytes
  <2>2. CASE n = 0 /\ ~ValidBytes(buffer, offset, n)
    <3>1. data = Untouched(0)
      BY <2>2 DEF CopyInto
    <3>2. Untouched(0) = <<>>
      BY DEF Untouched
    <3>3. <<>> \in Seq(Byte)
      OBVIOUS
    <3> HIDE DEF data
    <3> QED BY <3>1, <3>2, <3>3
  <2> QED BY <2>1, <2>2
<1>3. Copied(r, n).data = data
  BY DEF Copied, Ok
<1> HIDE DEF data
<1> QED BY <1>2, <1>3

\* Every read has returned bytes of the file only.
WrittenInv == \A r \in Readers : result[r].data \in Seq(Byte)

LEMMA WrittenStep ==
    ASSUME RoomForTags, IInv, WrittenInv, [Next]_vars
    PROVE  WrittenInv'
<1>1. Separate(buffer) /\ TypeOK
  BY DEF IInv, SeparateInv
<1>2. <<>> \in Seq(Byte)
  OBVIOUS
<1>3. ASSUME NEW r \in Readers, NEW answer, answer.data \in Seq(Byte),
             result' = [result EXCEPT ![r] = answer]
      PROVE  WrittenInv'
  BY <1>1, <1>3 DEF WrittenInv, TypeOK
<1>4. IoError.data \in Seq(Byte) /\ Ok(<<>>).data \in Seq(Byte)
      /\ Pending.data \in Seq(Byte)
  BY <1>2 DEF IoError, Ok, Pending
<1>5. CASE result' = result
  BY <1>5 DEF WrittenInv
<1>6. CASE Release
  BY <1>4, <1>6 DEF Release, WrittenInv
<1>7. ASSUME NEW r \in Readers, Call(r) PROVE WrittenInv'
  BY <1>3, <1>4, <1>7 DEF Call
<1>8. ASSUME NEW r \in Readers, ReadWithoutDecoding(r) PROVE WrittenInv'
  <2>1. CASE AlreadyThere(r) /\ ReturnWith(r, Copied(r, request[r].length))
    <3>1. Copied(r, request[r].length).data \in Seq(Byte)
      BY <1>1, <2>1, RequestType, CopiedIsWritten DEF AlreadyThere
    <3> QED BY <1>3, <2>1, <3>1 DEF ReturnWith
  <2>2. CASE ReturnWith(r, Ok(<<>>))
    BY <1>3, <1>4, <2>2 DEF ReturnWith
  <2> QED BY <1>8, <2>1, <2>2 DEF ReadWithoutDecoding
<1>9. ASSUME NEW r \in Readers, DecodeFails(r) \/ DecodeFailsForNow(r) \/ FinishFails(r)
      PROVE  WrittenInv'
  <2>1. ReturnWith(r, IoError)
    BY <1>9 DEF DecodeFails, DecodeFailsForNow, FinishFails
  <2> QED BY <1>3, <1>4, <2>1 DEF ReturnWith
<1>10. ASSUME NEW r \in Readers, FinishRead(r) PROVE WrittenInv'
  <2> DEFINE n == Deliverable(r)
             offset == request[r].offset
  <2>1. n \in Nat /\ offset \in Nat /\ request[r].length \in Nat
    BY <1>1, DeliverableType, RequestType
  <2>2. n <= MaxValidBytes(buffer, offset)
    <3>1. MaxValidBytes(buffer, offset) \in Nat
      <4>1. buffer \in BufferType(Byte)
        BY <1>1 DEF TypeOK
      <4> HIDE DEF offset
      <4> QED BY <2>1, <4>1, MaxValidBytesType
    <3> QED BY <2>1, <3>1 DEF Deliverable
  <2>3. n = 0 \/ ValidBytes(buffer, offset, n)
    <3>1. buffer \in BufferType(Byte)
      BY <1>1 DEF TypeOK
    <3> HIDE DEF n, offset
    <3>2. n = 0 \/ n > 0
      BY <2>1
    <3> QED BY <1>1, <2>1, <2>2, <3>1, <3>2, DeliverableIsValid
  <2>4. Copied(r, n).data \in Seq(Byte)
    <3> HIDE DEF n
    <3> QED BY <1>1, <2>1, <2>3, CopiedIsWritten
  <2> QED BY <1>3, <1>10, <2>4 DEF FinishRead, ReturnWith
<1>11. ASSUME NEW r \in Readers,
              StartDecoding(r) \/ DecodeFrame(r) \/ ReachEndOfStream(r)
                \/ SkipFrame(r) \/ Finish(r)
       PROVE  result' = result
  BY <1>11 DEF StartDecoding, DecodeFrame, ReachEndOfStream, SkipFrame, Finish
<1>12. Open \/ Evict \/ UNCHANGED vars => result' = result
  BY DEF Open, Evict, vars
<1> QED BY <1>5, <1>6, <1>7, <1>8, <1>9, <1>10, <1>11, <1>12 DEF Next, ReadStep

\* No read that succeeds hands out memory that was not written to, provided
\* that the sizes the cache starts with leave room for the tags.
THEOREM OnlyWrittenBytesServed ==
    ASSUME RoomForTags
    PROVE  Spec => []NoUnwrittenByteServed
<1>1. Init => WrittenInv
  <2>1. <<>> \in Seq(Byte)
    OBVIOUS
  <2>2. Pending.data \in Seq(Byte)
    BY <2>1 DEF Pending
  <2> QED BY <2>2 DEF Init, WrittenInv
<1>2. IInv /\ WrittenInv /\ [Next]_vars => WrittenInv'
  BY RoomForTags, WrittenStep
<1>3. WrittenInv => NoUnwrittenByteServed
  BY TranscoderAssumption DEF WrittenInv, NoUnwrittenByteServed
<1> QED BY <1>1, <1>2, <1>3, SpecInv, PTL DEF Spec

----
(* What the main segment holds while the file is transcoded.               *)

Least(m, n) == IF m <= n THEN m ELSE n

\* The ID3v2 tag, LAME's stream, and zeros: what is at i when all of it is written
\* without an end.
StreamByte(file, i) ==
    IF i <= Len(file.tag2) THEN file.tag2[i]
    ELSE IF i - Len(file.tag2) <= Len(file.audio) THEN file.audio[i - Len(file.tag2)]
    ELSE Zero

\* The main segment ends with what LAME has handed out last, or with the start of
\* the ID3v1 tag. (Before the first frame a tag that the cached size leaves no
\* room for runs over it.)
LengthOK ==
    \/ Tell(buffer) = Least(Len(source.tag2) + emitted, buffer.endOffset)
    \/ Tell(buffer) = Len(source.tag2) /\ emitted = 0

\* Until the decoder is gone the main segment is a prefix of that stream, and
\* without a stats cache the ID3v1 tag is where it was foreseen.
StreamInv ==
    /\ ~isOpen => emitted = 0
    /\ isOpen /\ params.statcachesize = 0 =>
         buffer.endOffset = calculate_size(params, source) - Len(source.tag1)
    /\ isOpen /\ decoder /= "none" =>
         /\ LengthOK
         /\ \A i \in 1..Tell(buffer) : buffer.main[i] = StreamByte(source, i)

\* What LAME hands out next.
LEMMA NextBytesAre ==
    ASSUME TypeOK, NEW n \in 0..streamLen - emitted
    PROVE  /\ n \in Nat /\ emitted + n <= streamLen
           /\ NextBytes(n) \in Seq(Byte) /\ Len(NextBytes(n)) = n
           /\ \A i \in 1..n : NextBytes(n)[i] = source.audio[emitted + i]
<1> DEFINE audio == source.audio
<1>1. /\ audio \in Seq(Byte) /\ emitted \in Nat /\ n \in Nat
      /\ emitted + n <= Len(audio) /\ emitted + n <= streamLen
  BY SourceFacts
<1> HIDE DEF audio
<1>2. /\ SubSeq(audio, emitted + 1, emitted + n) \in Seq(Byte)
      /\ Len(SubSeq(audio, emitted + 1, emitted + n)) = n
      /\ \A i \in 1..n : SubSeq(audio, emitted + 1, emitted + n)[i] = audio[emitted + i]
  BY <1>1, PartProperties
<1> QED BY <1>1, <1>2 DEF NextBytes, audio

\* A frame is appended where the stream has come to.
LEMMA FrameIsAppended ==
    ASSUME TypeOK, isOpen, LengthOK, NEW n \in 0..streamLen - emitted,
           \A i \in 1..Tell(buffer) : buffer.main[i] = StreamByte(source, i)
    PROVE  LET c == encode_pcm_data(buffer, NextBytes(n))
           IN  /\ Tell(c) = Least(Len(source.tag2) + (emitted + n), buffer.endOffset)
               /\ \A i \in 1..Tell(c) : c.main[i] = StreamByte(source, i)
<1> DEFINE data == NextBytes(n)
           c == encode_pcm_data(buffer, data)
           size == Tell(buffer)
           end == buffer.endOffset
           start == Len(source.tag2)
           grown == size + n
<1>1. /\ n \in Nat /\ emitted + n <= streamLen
      /\ data \in Seq(Byte) /\ Len(data) = n
      /\ \A i \in 1..n : data[i] = source.audio[emitted + i]
  BY NextBytesAre
<1>2. /\ start \in Nat /\ emitted \in Nat /\ emitted + n <= Len(source.audio)
      /\ Len(source.audio) \in Nat
  BY <1>1, SourceFacts
<1>3. size \in Nat /\ end \in Nat
  BY BufferFields DEF TypeOK
<1>4. /\ Tell(c) = IF grown <= end THEN grown ELSE end
      /\ \A i \in 1..Tell(c) :
            c.main[i] = IF i <= size THEN buffer.main[i] ELSE data[i - size]
  <2>1. buffer \in BufferType(Byte)
    BY DEF TypeOK
  <2> HIDE DEF data
  <2>2. LET w == Write(buffer, data, FALSE)
        IN  /\ Tell(w) = IF Tell(buffer) + Len(data) <= buffer.endOffset
                         THEN Tell(buffer) + Len(data) ELSE buffer.endOffset
            /\ \A i \in 1..Tell(w) :
                w.main[i] = IF i <= Tell(buffer) THEN buffer.main[i]
                            ELSE data[i - Tell(buffer)]
    BY <1>1, <2>1, TruncatingWrite
  <2> QED BY <1>1, <2>2 DEF encode_pcm_data
<1>5. size = Least(start + emitted, end) \/ (size = start /\ emitted = 0)
  BY DEF LengthOK
<1>6. \A i \in 1..size : buffer.main[i] = StreamByte(source, i)
  OBVIOUS
<1> HIDE DEF data, c, size, end, start
<1>7. Tell(c) = Least(start + (emitted + n), end)
  BY <1>1, <1>2, <1>3, <1>4, <1>5 DEF Least
<1>8. ASSUME NEW i \in 1..Tell(c) PROVE c.main[i] = StreamByte(source, i)
  <2>1. i \in Nat /\ i >= 1 /\ Tell(c) \in Nat
    BY <1>2, <1>3, <1>1, <1>7 DEF Least
  <2>2. CASE i <= size
    BY <1>4, <1>6, <2>1, <2>2
  <2>3. CASE ~(i <= size)
    <3>1. size = start + emitted
      BY <1>1, <1>2, <1>3, <1>4, <1>5, <2>1, <2>3 DEF Least
    <3>2. i <= grown
      BY <1>1, <1>3, <1>4, <2>1
    <3> DEFINE j == i - size
    <3>3. j \in 1..n /\ emitted + j = i - start /\ ~(i <= start)
          /\ i - start <= Len(source.audio)
      BY <1>1, <1>2, <2>1, <2>3, <3>1, <3>2
    <3>4. c.main[i] = data[j]
      BY <1>4, <2>3
    <3> HIDE DEF j
    <3>5. c.main[i] = source.audio[i - start]
      BY <1>1, <3>3, <3>4
    <3> QED BY <3>3, <3>5 DEF StreamByte, start
  <2> QED BY <2>2, <2>3
<1> QED BY <1>7, <1>8 DEF c, data, start, end

LEMMA InitStream == Init => StreamInv
BY DEF Init, StreamInv

\* A step that leaves the main segment alone keeps it.
LEMMA SameMainStream ==
    ASSUME StreamInv, isOpen' = isOpen, params' = params, source' = source,
           buffer' = buffer, emitted' = emitted, decoder' /= "none" => decoder /= "none"
    PROVE  StreamInv'
BY DEF StreamInv, LengthOK, Tell

\* Nothing is asked of the main segment once the decoder is gone.
LEMMA NoDecoderStream ==
    ASSUME IInv, StreamInv, [Next]_vars, isOpen, isOpen', params' = params,
           source' = source, decoder' = "none"
    PROVE  StreamInv'
BY OpenStep DEF StreamInv, Advances

LEMMA OpenStream ==
    ASSUME IInv, StreamInv, Open
    PROVE  StreamInv'
<1> DEFINE c == render_tag(params, source, cachedSize)
           tag == source.tag2
<1>1. /\ params \in ParamsType /\ source \in SourceType /\ Zero \in Byte
      /\ tag \in Seq(Byte) /\ Len(source.audio) \in Nat
  BY SourceFacts DEF IInv
<1>2. /\ cachedSize \in Nat /\ (cachedSize /= 0 => cachedSize >= Len(source.tag1))
      /\ params.statcachesize = 0 => cachedSize = 0
  BY DEF IInv, TypeOK, HandleInv
<1>3. /\ buffer' = c /\ params' = params /\ source' = source /\ isOpen'
      /\ emitted' = emitted /\ ~isOpen
  BY DEF Open
<1>4. c.endOffset = (IF cachedSize = 0 THEN calculate_size(params, source)
                     ELSE cachedSize) - Len(source.tag1)
  BY <1>1, <1>2, RenderedTags
<1>5. c.main = tag
  BY <1>1, RenderedMain
<1> HIDE DEF c
<1>6. emitted' = 0
  BY <1>3 DEF StreamInv
<1>7. Tell(c) = Len(tag)
  BY <1>5 DEF Tell
<1>8. \A i \in 1..Tell(c) : c.main[i] = StreamByte(source, i)
  <2>1. Len(tag) \in Nat
    BY <1>1
  <2> QED BY <1>5, <1>7, <2>1 DEF StreamByte
<1>9. LengthOK'
  BY <1>3, <1>6, <1>7 DEF LengthOK, Tell
<1>10. (\A i \in 1..Tell(buffer) : buffer.main[i] = StreamByte(source, i))'
  BY <1>3, <1>8 DEF Tell
<1>11. (isOpen /\ params.statcachesize = 0 =>
            buffer.endOffset = calculate_size(params, source) - Len(source.tag1))'
  BY <1>2, <1>3, <1>4
<1> QED BY <1>3, <1>9, <1>10, <1>11 DEF StreamInv

LEMMA DecodeFrameStream ==
    ASSUME IInv, StreamInv, [Next]_vars, NEW r \in Readers, DecodeFrame(r)
    PROVE  StreamInv'
<1>1. /\ isOpen /\ isOpen' = isOpen /\ params' = params /\ source' = source
      /\ decoder' = decoder /\ decoder /= "none"
  BY DEF DecodeFrame, InLoop, IInv, HandleInv
<1>2. PICK n \in 0..streamLen - emitted :
        buffer' = encode_pcm_data(buffer, NextBytes(n)) /\ emitted' = emitted + n
  BY DEF DecodeFrame
<1> DEFINE c == encode_pcm_data(buffer, NextBytes(n))
<1>3. /\ Tell(c) = Least(Len(source.tag2) + (emitted + n), buffer.endOffset)
      /\ \A i \in 1..Tell(c) : c.main[i] = StreamByte(source, i)
  BY <1>1, FrameIsAppended DEF IInv, StreamInv
<1>4. buffer'.endOffset = buffer.endOffset
  <2>1. NextBytes(n) \in Seq(Byte) /\ buffer \in BufferType(Byte)
    BY NextBytesAre DEF IInv, TypeOK
  <2>2. c.endOffset = buffer.endOffset
    <3>1. Zero \in Byte
      BY TranscoderAssumption
    <3> DEFINE data == NextBytes(n)
    <3> HIDE DEF data
    <3>2. Write(buffer, data, FALSE).endOffset = buffer.endOffset
      BY <2>1, <3>1, WriteProperties DEF data
    <3> QED BY <3>2 DEF encode_pcm_data, data
  <2> QED BY <1>2, <2>2
<1> HIDE DEF c
<1>5. LengthOK'
  BY <1>1, <1>2, <1>3, <1>4 DEF LengthOK, Tell, c
<1>6. (\A i \in 1..Tell(buffer) : buffer.main[i] = StreamByte(source, i))'
  BY <1>1, <1>2, <1>3 DEF Tell, c
<1> QED BY <1>1, <1>4, <1>5, <1>6 DEF StreamInv

LEMMA StreamStep == IInv /\ StreamInv /\ [Next]_vars => StreamInv'
<1> SUFFICES ASSUME IInv, StreamInv, [Next]_vars PROVE StreamInv'
  OBVIOUS
<1>1. CASE Open
  BY <1>1, OpenStream
<1>2. CASE Release
  BY <1>2 DEF Release, StreamInv
<1>3. ASSUME NEW r \in Readers, DecodeFrame(r) PROVE StreamInv'
  BY <1>3, DecodeFrameStream
<1>4. ASSUME NEW r \in Readers, Finish(r) \/ FinishFails(r) PROVE StreamInv'
  <2>1. /\ isOpen /\ isOpen' = isOpen /\ params' = params /\ source' = source
        /\ decoder' = "none"
    BY <1>4 DEF Finish, FinishFails, InLoop, IInv, HandleInv
  <2> QED BY <2>1, NoDecoderStream
<1>5. ASSUME NEW r \in Readers,
             \/ Call(r) \/ ReadWithoutDecoding(r) \/ StartDecoding(r)
             \/ ReachEndOfStream(r) \/ SkipFrame(r) \/ DecodeFails(r)
             \/ DecodeFailsForNow(r) \/ FinishRead(r)
      PROVE  StreamInv'
  <2>1. /\ isOpen' = isOpen /\ params' = params /\ source' = source
        /\ buffer' = buffer /\ emitted' = emitted
        /\ decoder' /= "none" => decoder /= "none"
    BY <1>5 DEF Call, ReadWithoutDecoding, StartDecoding, ReachEndOfStream,
                SkipFrame, DecodeFails, DecodeFailsForNow, FinishRead
  <2> QED BY <2>1, SameMainStream
<1>6. CASE Evict \/ UNCHANGED vars
  <2>1. /\ isOpen' = isOpen /\ params' = params /\ source' = source
        /\ buffer' = buffer /\ emitted' = emitted /\ decoder' = decoder
    BY <1>6 DEF Evict, vars
  <2> QED BY <2>1, SameMainStream
<1> QED BY <1>1, <1>2, <1>3, <1>4, <1>5, <1>6 DEF Next, ReadStep

LEMMA SpecStream == Spec => [](IInv /\ StreamInv)
BY InitInv, NextInv, InitStream, StreamStep, PTL DEF Spec

----
(* What encode_finish is given and leaves.                                 *)

\* What LAME still holds is appended whole when there is a stats cache.
LEMMA DrainedSize ==
    ASSUME TypeOK, params.statcachesize > 0
    PROVE  LET c == Drain(params, buffer, Flushed)
           IN  /\ c \in BufferType(Byte)
               /\ Tell(c) = Tell(buffer) + (streamLen - emitted)
               /\ c.endOffset = Tell(buffer) + (streamLen - emitted)
               /\ c.end = buffer.end
<1> DEFINE data == Flushed
<1>1. streamLen - emitted \in 0..streamLen - emitted
  BY FlushedType
<1>2. data \in Seq(Byte) /\ Len(data) = streamLen - emitted
  BY <1>1, NextBytesAre DEF Flushed
<1>3. buffer \in BufferType(Byte) /\ params \in ParamsType /\ Zero \in Byte
  BY SourceFacts DEF TypeOK
<1> HIDE DEF data
<1>4. LET c == Drain(params, buffer, data)
      IN  /\ c \in BufferType(Byte)
          /\ Separate(buffer) => Separate(c) /\ MainPrefixKept(buffer, c)
          /\ Advances(params, buffer, c)
  BY <1>2, <1>3, DrainAdvances
<1>5. LET c == Drain(params, buffer, data)
      IN  /\ Tell(c) = Tell(buffer) + Len(data)
          /\ c.endOffset = Tell(buffer) + Len(data)
          /\ c.end = buffer.end
  BY <1>2, <1>3, DrainedWhole
<1> QED BY <1>2, <1>4, <1>5 DEF data

\* The Xing frame is within what the main segment holds when it is written.
LEMMA RoomForXing ==
    ASSUME IInv, StreamInv, isOpen, decoder /= "none", params.vbr,
           params.statcachesize > 0 =>
                /\ streamLen >= MaxVbrFrame
                /\ Size(buffer) >= Len(source.tag2) + MaxVbrFrame + Len(source.tag1)
    PROVE  InMain(Drain(params, buffer, Flushed), VbrTail(source), Len(source.tag2))
<1> DEFINE start == Len(source.tag2)
           c == Drain(params, buffer, Flushed)
<1>1. /\ start \in Nat /\ Len(source.tag1) \in Nat /\ MaxVbrFrame \in Nat
      /\ emitted \in Nat /\ streamLen \in Nat /\ emitted <= streamLen
      /\ source \in SourceType /\ params \in ParamsType
  BY SourceFacts, MaxVbrFrameAssumption DEF IInv
<1>2. /\ buffer \in BufferType(Byte) /\ buffer.end = source.tag1 /\ Zero \in Byte
      /\ buffer.endOffset \in Nat
  BY BufferFields, TranscoderAssumption DEF IInv, TypeOK
<1>3. Len(VbrTail(source)) = MaxVbrFrame
  BY <1>1, <1>2, VbrTailType
<1>4. CASE params.statcachesize = 0
  <2> DEFINE data == Flushed
  <2>1. data \in Seq(Byte)
    BY FlushedType DEF IInv
  <2> HIDE DEF data
  <2>2. Tell(Drain(params, buffer, data)) = buffer.endOffset
    BY <1>2, <1>4, <2>1, DrainedToSize
  <2> DEFINE n1 == Len(source.tag1)
             foreseen == source.predicted
             calculated == calculate_size(params, source)
             size == Tell(c)
  <2>3. size = calculated - n1
    BY <1>4, <2>2 DEF StreamInv, data
  <2>4. calculated = start + n1 + foreseen + MaxVbrFrame
    BY DEF calculate_size
  <2>5. start \in Nat /\ n1 \in Nat /\ foreseen \in Nat /\ MaxVbrFrame \in Nat
    BY <1>1 DEF SourceType
  <2> HIDE DEF c, start, n1, foreseen, calculated, size
  <2>6. start >= 0 /\ start + MaxVbrFrame <= size
    BY <2>3, <2>4, <2>5
  <2> QED BY <1>3, <2>6 DEF InMain, c, size, start
<1>5. CASE params.statcachesize > 0
  <2> DEFINE n1 == Len(source.tag1)
             end == buffer.endOffset
             size == Tell(buffer)
             grown == Tell(c)
  <2>1. grown = size + (streamLen - emitted)
    BY <1>5, DrainedSize DEF IInv
  <2>2. size = Least(start + emitted, end) \/ (size = start /\ emitted = 0)
    BY DEF StreamInv, LengthOK
  <2>3. streamLen >= MaxVbrFrame /\ end + n1 >= start + MaxVbrFrame + n1
    BY <1>2, <1>5 DEF Size
  <2>4. /\ start \in Nat /\ n1 \in Nat /\ end \in Nat /\ MaxVbrFrame \in Nat
        /\ emitted \in Nat /\ streamLen \in Nat /\ emitted <= streamLen
    BY <1>1, <1>2
  <2> HIDE DEF c, start, n1, end, size, grown
  <2>5. start >= 0 /\ start + MaxVbrFrame <= grown
    BY <2>1, <2>2, <2>3, <2>4 DEF Least
  <2> QED BY <1>3, <2>5 DEF InMain, c, grown, start
<1>6. params.statcachesize = 0 \/ params.statcachesize > 0
  BY <1>1 DEF ParamsType
<1> QED BY <1>4, <1>5, <1>6

\* The Xing frame is written over bytes that the main segment holds, as write_to
\* requires (buffer.h:43-47): always without a stats cache, and with one when the
\* stream and the cached size leave room for the largest Xing frame.
THEOREM XingFrameInMain == Spec => VbrTailInMain
<1>1. ASSUME IInv, StreamInv, NEW r \in Readers, Finish(r), params.vbr,
             params.statcachesize > 0 =>
                /\ streamLen >= MaxVbrFrame
                /\ Size(buffer) >= Len(source.tag2) + MaxVbrFrame + Len(source.tag1)
      PROVE  InMain(Drain(params, buffer, Flushed), VbrTail(source), Len(source.tag2))
  <2>1. isOpen /\ decoder /= "none"
    BY <1>1 DEF Finish, InLoop, NeedsMore, IInv, HandleInv
  <2> QED BY <1>1, <2>1, RoomForXing
<1>2. IInv /\ StreamInv =>
        [\A r \in Readers :
            /\ Finish(r)
            /\ params.vbr
            /\ params.statcachesize > 0 =>
                /\ streamLen >= MaxVbrFrame
                /\ Size(buffer) >= Len(source.tag2) + MaxVbrFrame + Len(source.tag1)
            => InMain(Drain(params, buffer, Flushed), VbrTail(source),
                      Len(source.tag2))]_vars
  BY <1>1
<1> QED BY <1>2, SpecStream, PTL DEF VbrTailInMain

\* The ID3v1 tag of every file is there: it has 128 bytes (mp3_encoder.h:37).
EndTagsNotEmpty == \A file \in Sources : Len(file.tag1) > 0

\* The size that finish() puts in the cache.
LEMMA FinishedSize ==
    ASSUME EndTagsNotEmpty, IInv, NEW r \in Readers, Finish(r), params.statcachesize > 0
    PROVE  cachedSize' = Tell(buffer) + (streamLen - emitted) + Len(source.tag1)
<1> DEFINE d == Drain(params, buffer, Flushed)
           tail == VbrTail(source)
           start == Len(source.tag2)
           n1 == Len(source.tag1)
           n == Tell(buffer) + (streamLen - emitted)
<1>1. /\ source \in SourceType /\ Zero \in Byte /\ start \in Nat /\ n1 \in Nat
      /\ emitted \in Nat /\ streamLen \in Nat /\ emitted <= streamLen
  BY SourceFacts DEF IInv
<1>2. n1 > 0
  BY DEF EndTagsNotEmpty, IInv, TypeOK
<1>3. isOpen /\ buffer.end = source.tag1 /\ Tell(buffer) \in Nat
  <2>1. isOpen
    BY DEF Finish, InLoop, IInv, HandleInv
  <2> QED BY <2>1, BufferFields DEF IInv, TypeOK
<1>4. /\ d \in BufferType(Byte) /\ d.endOffset = n /\ d.end = buffer.end
  BY DrainedSize DEF IInv
<1>5. buffer' = IF params.vbr THEN WriteTo(d, tail, start) ELSE d
  BY DEF Finish, encode_finish
<1>6. /\ cachedSize' = IF Size(buffer') /= 0 THEN Size(buffer') ELSE cachedSize
  BY DEF Finish
<1> HIDE DEF d, tail, start
<1>7. buffer'.endOffset = d.endOffset /\ buffer'.end = d.end
  BY <1>5 DEF WriteTo
<1>8. Size(buffer') = n + n1
  BY <1>3, <1>4, <1>7 DEF Size
<1>9. n + n1 /= 0
  BY <1>1, <1>2, <1>3
<1> QED BY <1>6, <1>8, <1>9

\* With a stats cache, a decoding that loses no frame leaves the true size in the
\* cache, or when it was foreseen too short a size between that and the true one.
THEOREM CachedSizeConverges ==
    ASSUME EndTagsNotEmpty
    PROVE  Spec => CachedSizeApproachesTrueSize
<1>1. ASSUME IInv, StreamInv, NEW r \in Readers, Finish(r), params.statcachesize > 0,
             streamLen = Len(source.audio)
      PROVE  IF Size(buffer) >= TrueSize THEN cachedSize' = TrueSize
             ELSE Size(buffer) <= cachedSize' /\ cachedSize' <= TrueSize
  <2> DEFINE start == Len(source.tag2)
             n1 == Len(source.tag1)
             n == Len(source.audio)
             size == Tell(buffer)
  <2>1. /\ start \in Nat /\ n1 \in Nat /\ n \in Nat /\ emitted \in Nat /\ emitted <= n
    BY <1>1, SourceFacts DEF IInv
  <2>2. /\ isOpen /\ decoder /= "none"
    BY <1>1 DEF Finish, InLoop, NeedsMore, IInv, HandleInv
  <2>3. buffer.endOffset \in Nat /\ size \in Nat /\ Size(buffer) = buffer.endOffset + n1
    BY <1>1, <2>2, BufferFields DEF IInv, TypeOK, Size
  <2>4. size = Least(start + emitted, buffer.endOffset) \/ (size = start /\ emitted = 0)
    BY <1>1, <2>2 DEF StreamInv, LengthOK
  <2>5. cachedSize' = size + (n - emitted) + n1
    BY <1>1, EndTagsNotEmpty, FinishedSize
  <2>6. TrueSize = start + n + n1
    BY DEF TrueSize
  <2> HIDE DEF start, n1, n, size
  <2> QED BY <2>1, <2>3, <2>4, <2>5, <2>6 DEF Least
<1>2. IInv /\ StreamInv =>
        [\A r \in Readers :
            Finish(r) /\ params.statcachesize > 0 /\ streamLen = Len(source.audio) =>
                IF Size(buffer) >= TrueSize THEN cachedSize' = TrueSize
                ELSE Size(buffer) <= cachedSize' /\ cachedSize' <= TrueSize]_vars
  BY <1>1
<1> QED BY <1>2, SpecStream, PTL DEF CachedSizeApproachesTrueSize

----
(* The file that eager transcoding makes.                                  *)

\* Three sequences in a row.
LEMMA InARow ==
    ASSUME NEW B, NEW s \in Seq(B), NEW t \in Seq(B), NEW u \in Seq(B)
    PROVE  LET w == s \o t \o u
           IN  /\ w \in Seq(B)
               /\ Len(w) = Len(s) + Len(t) + Len(u)
               /\ \A i \in 1..Len(s) : w[i] = s[i]
               /\ \A i \in 1..Len(t) : w[Len(s) + i] = t[i]
               /\ \A i \in 1..Len(u) : w[Len(s) + Len(t) + i] = u[i]
<1> DEFINE v == s \o t
           w == v \o u
<1>1. /\ v \in Seq(B) /\ Len(v) = Len(s) + Len(t)
      /\ \A i \in 1..Len(s) + Len(t) :
            v[i] = IF i <= Len(s) THEN s[i] ELSE t[i - Len(s)]
  BY ConcatProperties
<1>2. Len(s) \in Nat /\ Len(t) \in Nat /\ Len(u) \in Nat
  OBVIOUS
<1> HIDE DEF v
<1>3. /\ w \in Seq(B) /\ Len(w) = Len(v) + Len(u)
      /\ \A i \in 1..Len(v) + Len(u) :
            w[i] = IF i <= Len(v) THEN v[i] ELSE u[i - Len(v)]
  <2>1. v \in Seq(B)
    BY <1>1
  <2>2. /\ v \o u \in Seq(B) /\ Len(v \o u) = Len(v) + Len(u)
        /\ \A i \in 1..Len(v) + Len(u) :
            (v \o u)[i] = IF i <= Len(v) THEN v[i] ELSE u[i - Len(v)]
    BY <2>1, ConcatProperties
  <2> QED BY <2>2
<1> HIDE DEF w
<1>4. \A i \in 1..Len(s) : w[i] = s[i]
  BY <1>1, <1>2, <1>3
<1>5. ASSUME NEW i \in 1..Len(t) PROVE w[Len(s) + i] = t[i]
  <2> DEFINE j == Len(s) + i
  <2>1. j \in 1..Len(s) + Len(t) /\ ~(j <= Len(s)) /\ j - Len(s) = i
        /\ j \in 1..Len(v) + Len(u) /\ j <= Len(v)
    BY <1>1, <1>2
  <2> HIDE DEF j
  <2>2. w[j] = v[j] /\ v[j] = t[j - Len(s)]
    BY <1>1, <1>3, <2>1
  <2> QED BY <2>1, <2>2 DEF j
<1>6. ASSUME NEW i \in 1..Len(u) PROVE w[Len(s) + Len(t) + i] = u[i]
  <2> DEFINE j == Len(s) + Len(t) + i
  <2>1. j \in 1..Len(v) + Len(u) /\ ~(j <= Len(v)) /\ j - Len(v) = i
    BY <1>1, <1>2
  <2> HIDE DEF j
  <2>2. w[j] = u[j - Len(v)]
    BY <1>3, <2>1
  <2> QED BY <2>1, <2>2 DEF j
<1> QED BY <1>1, <1>2, <1>3, <1>4, <1>5, <1>6 DEF w, v

\* Where the ID3v1 tag begins in a file of the foreseen size.
EndPlace == calculate_size(params, source) - Len(source.tag1)

LEMMA EndPlaceFacts ==
    ASSUME TypeOK
    PROVE  /\ EndPlace \in Nat
           /\ Len(source.tag2) <= EndPlace
           /\ params.vbr => Len(source.tag2) + MaxVbrFrame <= EndPlace
<1> DEFINE start == Len(source.tag2)
           n1 == Len(source.tag1)
           n == source.predicted
<1>1. start \in Nat /\ n1 \in Nat /\ n \in Nat /\ MaxVbrFrame \in Nat
  BY SourceFacts, MaxVbrFrameAssumption DEF SourceType
<1> DEFINE calculated == calculate_size(params, source)
<1>2. /\ EndPlace = calculated - n1
      /\ params.vbr => calculated = start + n1 + n + MaxVbrFrame
      /\ ~params.vbr => calculated = start + n1 + n + 0
  BY DEF EndPlace, calculate_size
<1> HIDE DEF start, n1, n, calculated
<1>3. CASE params.vbr
  BY <1>1, <1>2, <1>3 DEF start
<1>4. CASE ~params.vbr
  BY <1>1, <1>2, <1>4 DEF start
<1> QED BY <1>3, <1>4

\* The part of that file between the tags.
LEMMA EagerStream ==
    ASSUME TypeOK
    PROVE  LET start == Len(source.tag2)
               room == EndPlace - start
               stream == Resize(source.audio, room)
               body == IF params.vbr
                       THEN VbrTail(source) \o SubSeq(stream, MaxVbrFrame + 1, room)
                       ELSE stream
           IN  /\ body \in Seq(Byte)
               /\ Len(body) = room
               /\ \A i \in 1..room :
                    body[i] = IF params.vbr /\ i <= MaxVbrFrame THEN VbrTail(source)[i]
                              ELSE StreamByte(source, start + i)
<1> DEFINE start == Len(source.tag2)
           room == EndPlace - start
           audio == source.audio
           stream == Resize(audio, room)
           tail == VbrTail(source)
           rest == SubSeq(stream, MaxVbrFrame + 1, room)
           body == IF params.vbr THEN tail \o rest ELSE stream
<1>1. /\ start \in Nat /\ EndPlace \in Nat /\ start <= EndPlace
      /\ params.vbr => start + MaxVbrFrame <= EndPlace
      /\ MaxVbrFrame \in Nat /\ Zero \in Byte
      /\ audio \in Seq(Byte) /\ source \in SourceType
  BY SourceFacts, EndPlaceFacts, MaxVbrFrameAssumption
<1>2. room \in Nat /\ (params.vbr => MaxVbrFrame <= room)
  BY <1>1
<1> HIDE DEF room, audio
<1>3. /\ stream \in Seq(Byte) /\ Len(stream) = room
      /\ \A i \in 1..room : stream[i] = IF i <= Len(audio) THEN audio[i] ELSE Zero
  <2>1. Resize(audio, room) \in Seq(Byte) /\ Len(Resize(audio, room)) = room
    BY <1>1, <1>2, ResizeProperties
  <2>2. \A i \in 1..room :
            Resize(audio, room)[i] = IF i <= Len(audio) THEN audio[i] ELSE Zero
    BY DEF Resize
  <2> QED BY <2>1, <2>2
<1>4. \A i \in 1..room : stream[i] = StreamByte(source, start + i)
  <2> TAKE i \in 1..room
  <2> DEFINE j == start + i
  <2>1. ~(j <= start) /\ j - start = i
    BY <1>1, <1>2
  <2> HIDE DEF j
  <2>2. StreamByte(source, j) = IF i <= Len(audio) THEN audio[i] ELSE Zero
    BY <2>1 DEF StreamByte, audio
  <2> QED BY <1>3, <2>2 DEF j
<1> HIDE DEF stream
<1>5. CASE ~params.vbr
  BY <1>3, <1>4, <1>5 DEF stream, room, audio
<1>6. CASE params.vbr
  <2> DEFINE left == room - MaxVbrFrame
  <2>1. left \in Nat /\ MaxVbrFrame + left = room
    BY <1>1, <1>2, <1>6
  <2>2. tail \in Seq(Byte) /\ Len(tail) = MaxVbrFrame
    BY <1>1, VbrTailType
  <2> HIDE DEF left, tail
  <2>3. /\ SubSeq(stream, MaxVbrFrame + 1, MaxVbrFrame + left) \in Seq(Byte)
        /\ Len(SubSeq(stream, MaxVbrFrame + 1, MaxVbrFrame + left)) = left
        /\ \A i \in 1..left : SubSeq(stream, MaxVbrFrame + 1, MaxVbrFrame + left)[i]
                                = stream[MaxVbrFrame + i]
    BY <1>1, <1>3, <2>1, PartProperties
  <2>4. /\ rest \in Seq(Byte) /\ Len(rest) = left
        /\ \A i \in 1..left : rest[i] = stream[MaxVbrFrame + i]
    BY <2>1, <2>3
  <2> HIDE DEF rest
  <2>5. /\ tail \o rest \in Seq(Byte) /\ Len(tail \o rest) = MaxVbrFrame + left
        /\ \A i \in 1..MaxVbrFrame + left :
            (tail \o rest)[i] = IF i <= MaxVbrFrame THEN tail[i] ELSE rest[i - MaxVbrFrame]
    BY <2>2, <2>4, ConcatProperties
  <2>6. ASSUME NEW i \in 1..room
        PROVE  (tail \o rest)[i] = IF i <= MaxVbrFrame THEN tail[i]
                                   ELSE StreamByte(source, start + i)
    <3>1. CASE i <= MaxVbrFrame
      BY <2>1, <2>5, <3>1
    <3>2. CASE ~(i <= MaxVbrFrame)
      <4> DEFINE j == i - MaxVbrFrame
      <4>1. j \in 1..left /\ MaxVbrFrame + j = i
        BY <1>1, <2>1, <3>2
      <4>2. (tail \o rest)[i] = rest[j]
        BY <2>1, <2>5, <3>2
      <4> HIDE DEF j
      <4> QED BY <1>4, <2>4, <3>2, <4>1, <4>2
    <3> QED BY <3>1, <3>2
  <2> QED BY <1>6, <2>1, <2>5, <2>6 DEF tail, rest, stream, room, audio
<1> QED BY <1>5, <1>6

\* Its bytes, one by one.
LEMMA EagerBytes ==
    ASSUME TypeOK
    PROVE  /\ EagerFile \in Seq(Byte)
           /\ Len(EagerFile) = EndPlace + Len(source.tag1)
           /\ \A i \in 1..EndPlace :
                EagerFile[i] =
                    IF params.vbr /\ i - Len(source.tag2) \in 1..MaxVbrFrame
                    THEN VbrTail(source)[i - Len(source.tag2)]
                    ELSE StreamByte(source, i)
           /\ \A i \in 1..Len(source.tag1) : EagerFile[EndPlace + i] = source.tag1[i]
<1> DEFINE start == Len(source.tag2)
           room == EndPlace - start
           stream == Resize(source.audio, room)
           body == IF params.vbr
                   THEN VbrTail(source) \o SubSeq(stream, MaxVbrFrame + 1, room)
                   ELSE stream
           tag2 == source.tag2
           tag1 == source.tag1
<1>1. /\ body \in Seq(Byte)
      /\ Len(body) = room
      /\ \A i \in 1..room :
            body[i] = IF params.vbr /\ i <= MaxVbrFrame THEN VbrTail(source)[i]
                      ELSE StreamByte(source, start + i)
  BY EagerStream
<1>2. /\ tag2 \in Seq(Byte) /\ tag1 \in Seq(Byte) /\ Len(tag1) \in Nat
      /\ start \in Nat /\ start = Len(tag2)
      /\ EndPlace \in Nat /\ start <= EndPlace /\ MaxVbrFrame \in Nat
  BY SourceFacts, EndPlaceFacts, MaxVbrFrameAssumption
<1>3. EagerFile = tag2 \o body \o tag1
  BY DEF EagerFile, EndPlace
<1> HIDE DEF body
<1>4. LET w == tag2 \o body \o tag1
      IN  /\ w \in Seq(Byte)
          /\ Len(w) = Len(tag2) + Len(body) + Len(tag1)
          /\ \A i \in 1..Len(tag2) : w[i] = tag2[i]
          /\ \A i \in 1..Len(body) : w[Len(tag2) + i] = body[i]
          /\ \A i \in 1..Len(tag1) : w[Len(tag2) + Len(body) + i] = tag1[i]
  <2>1. tag2 \in Seq(Byte) /\ body \in Seq(Byte) /\ tag1 \in Seq(Byte)
    BY <1>1, <1>2
  <2> DEFINE w == tag2 \o body \o tag1
  <2> HIDE DEF tag2, tag1
  <2>2. /\ w \in Seq(Byte)
        /\ Len(w) = Len(tag2) + Len(body) + Len(tag1)
    BY <2>1, InARow
  <2>3. /\ \A i \in 1..Len(tag2) : w[i] = tag2[i]
        /\ \A i \in 1..Len(body) : w[Len(tag2) + i] = body[i]
        /\ \A i \in 1..Len(tag1) : w[Len(tag2) + Len(body) + i] = tag1[i]
    BY <2>1, InARow
  <2> HIDE DEF w
  <2>4. /\ w \in Seq(Byte)
        /\ Len(w) = Len(tag2) + Len(body) + Len(tag1)
        /\ \A i \in 1..Len(tag2) : w[i] = tag2[i]
        /\ \A i \in 1..Len(body) : w[Len(tag2) + i] = body[i]
        /\ \A i \in 1..Len(tag1) : w[Len(tag2) + Len(body) + i] = tag1[i]
    BY <2>2, <2>3
  <2> QED BY <2>4 DEF w
<1>5. Len(tag2) + Len(body) = EndPlace
  BY <1>1, <1>2
<1>6. ASSUME NEW i \in 1..EndPlace
      PROVE  EagerFile[i] = IF params.vbr /\ i - start \in 1..MaxVbrFrame
                            THEN VbrTail(source)[i - start]
                            ELSE StreamByte(source, i)
  <2>1. CASE i <= start
    <3>0. i \in 1..Len(tag2)
      BY <1>2, <2>1
    <3>1. EagerFile[i] = tag2[i]
      <4> HIDE DEF tag2, tag1
      <4> QED BY <1>3, <1>4, <3>0
    <3>2. StreamByte(source, i) = tag2[i]
      BY <2>1 DEF StreamByte
    <3>3. ~(i - start \in 1..MaxVbrFrame)
      BY <1>2, <2>1
    <3> QED BY <3>1, <3>2, <3>3
  <2>2. CASE ~(i <= start)
    <3> DEFINE j == i - start
    <3>1. j \in 1..room /\ start + j = i /\ j >= 1
      BY <1>2, <2>2
    <3> HIDE DEF j
    <3>2. EagerFile[start + j] = body[j]
      BY <1>1, <1>2, <1>3, <1>4, <3>1
    <3>3. EagerFile[i] = IF params.vbr /\ j <= MaxVbrFrame THEN VbrTail(source)[j]
                         ELSE StreamByte(source, i)
      BY <1>1, <3>1, <3>2
    <3>4. j <= MaxVbrFrame <=> j \in 1..MaxVbrFrame
      BY <1>2, <3>1
    <3> QED BY <3>3, <3>4 DEF j
  <2> QED BY <2>1, <2>2
<1>7. ASSUME NEW i \in 1..Len(tag1) PROVE EagerFile[EndPlace + i] = tag1[i]
  <2> HIDE DEF tag2, tag1
  <2> QED BY <1>3, <1>4, <1>5
<1> HIDE DEF tag2
<1> QED BY <1>3, <1>4, <1>5, <1>6, <1>7 DEF tag1, start

\* The sequence that agrees with another in a range is that part of it.
LEMMA IsSlice ==
    ASSUME NEW B, NEW s \in Seq(B), NEW t \in Seq(B), NEW m \in Nat, NEW n \in Nat,
           Len(t) = n, m + n <= Len(s), \A i \in 1..n : t[i] = s[m + i]
    PROVE  t = SubSeq(s, m + 1, m + n)
<1>1. /\ SubSeq(s, m + 1, m + n) \in Seq(B)
      /\ Len(SubSeq(s, m + 1, m + n)) = n
      /\ \A i \in 1..n : SubSeq(s, m + 1, m + n)[i] = s[m + i]
  BY PartProperties
<1> DEFINE part == SubSeq(s, m + 1, m + n)
<1> HIDE DEF part
<1>2. part \in Seq(B) /\ Len(part) = n /\ \A i \in 1..n : part[i] = s[m + i]
  BY <1>1 DEF part
<1>3. t = part
  BY <1>2, SeqEqual
<1> QED BY <1>3 DEF part

\* What is filled in of the buffer b is what the file has there.
Shows(b, file) ==
    /\ Separate(b)
    /\ Size(b) = Len(file)
    /\ \A i \in Nat : IsFilled(b, i) => ByteAt(b, i) = file[i + 1]

\* Then copy_into copies a slice of the file.
LEMMA CopyIsSlice ==
    ASSUME NEW b \in BufferType(Byte), NEW file \in Seq(Byte), Shows(b, file),
           NEW out, NEW offset \in Nat, NEW n \in Nat, ValidBytes(b, offset, n)
    PROVE  CopyInto(b, out, offset, n) = SubSeq(file, offset + 1, offset + n)
<1> DEFINE copy == CopyInto(b, out, offset, n)
<1>1. /\ copy \in Seq(Byte) /\ Len(copy) = n
      /\ \A i \in 1..n : copy[i] = ByteAt(b, offset + i - 1)
  BY CopiesSlice DEF Shows
<1>2. offset + n <= Len(file)
  BY DEF ValidBytes, Shows
<1> HIDE DEF copy
<1>3. ASSUME NEW i \in 1..n PROVE copy[i] = file[offset + i]
  <2> DEFINE j == offset + i - 1
  <2>1. j \in Nat /\ j + 1 = offset + i /\ j \in offset..offset + n - 1 /\ n > 0
    OBVIOUS
  <2> HIDE DEF j
  <2>2. IsFilled(b, j)
    BY <2>1, ValidIsFilled DEF Shows
  <2>3. ByteAt(b, j) = file[j + 1]
    BY <2>1, <2>2 DEF Shows
  <2>4. copy[i] = ByteAt(b, j)
    BY <1>1 DEF j
  <2> QED BY <2>1, <2>3, <2>4
<1>4. copy = SubSeq(file, offset + 1, offset + n)
  BY <1>1, <1>2, <1>3, IsSlice
<1> QED BY <1>4 DEF copy

----
(* Transcoding on demand, when nothing is lost.                            *)

\* No stats cache, and no failure that loses a part of the stream or, with VBR,
\* lets go of the mutex halfway.
NothingLost ==
    \A p \in ParamSets :
        /\ p.statcachesize = 0
        /\ FaultKinds(p) \subseteq IF p.vbr THEN {} ELSE {"transient"}

\* Only the reader that holds the mutex runs the decoder, for a read that begins
\* within the file.
LockInv ==
    \A r \in Readers : pc[r] = "transcoding" =>
        owner = r /\ request[r].offset <= Size(buffer)

\* The stream is whole, the file is complete when the decoder is gone, and with VBR
\* no mutex is free while there is a part of the stream.
LosslessInv ==
    isOpen =>
        /\ streamLen = Len(source.audio)
        /\ encoder <=> (decoder /= "none")
        /\ decoder = "none" =>
            /\ Tell(buffer) = buffer.endOffset
            /\ \A i \in 1..Tell(buffer) : buffer.main[i] = EagerFile[i]
        /\ params.vbr /\ decoder /= "none" /\ owner = NoReader => emitted = 0

DemandInv == IInv /\ StreamInv /\ LockInv /\ LosslessInv

\* What NothingLost says of the mount at hand.
LEMMA NothingLostHere ==
    ASSUME NothingLost, TypeOK
    PROVE  /\ params.statcachesize = 0
           /\ \A kind : Fault(kind) => kind = "transient" /\ ~params.vbr
BY DEF NothingLost, TypeOK, Fault

\* The sizes of the two agree.
LEMMA SizeIsEager ==
    ASSUME NothingLost, IInv, StreamInv, isOpen
    PROVE  /\ buffer.endOffset = EndPlace
           /\ Size(buffer) = Len(EagerFile)
           /\ Separate(buffer)
BY EagerBytes, NothingLostHere DEF IInv, SeparateInv, StreamInv, TypeOK, Size, EndPlace

\* With the Xing frame in its place or without VBR, the file is complete when the
\* decoder has come to the end of the stream.
LEMMA FinishIsEager ==
    ASSUME NothingLost, IInv, StreamInv, isOpen, decoder /= "none",
           streamLen = Len(source.audio)
    PROVE  LET c == encode_finish(params, source, buffer, Flushed)
           IN  /\ Tell(c) = c.endOffset
               /\ \A i \in 1..Tell(c) : c.main[i] = EagerFile[i]
<1> DEFINE data == Flushed
           start == Len(source.tag2)
           size == Tell(buffer)
           n == Len(source.audio)
           d == Drain(params, buffer, data)
           tail == VbrTail(source)
           c == encode_finish(params, source, buffer, data)
<1>1. /\ data \in Seq(Byte) /\ Len(data) = n - emitted
      /\ \A i \in 1..n - emitted : data[i] = source.audio[emitted + i]
  <2>1. streamLen - emitted \in 0..streamLen - emitted
    BY FlushedType DEF IInv
  <2> QED BY <2>1, NextBytesAre DEF Flushed, IInv
<1>2. /\ start \in Nat /\ n \in Nat /\ emitted \in Nat /\ emitted <= n
      /\ source \in SourceType /\ params \in ParamsType /\ Zero \in Byte
      /\ MaxVbrFrame \in Nat
  BY SourceFacts, MaxVbrFrameAssumption DEF IInv
<1>3. /\ buffer \in BufferType(Byte) /\ size \in Nat /\ EndPlace \in Nat
      /\ buffer.endOffset = EndPlace /\ start <= EndPlace
      /\ params.statcachesize = 0
  BY NothingLostHere, SizeIsEager, BufferFields, EndPlaceFacts DEF IInv, TypeOK
<1>4. /\ size = Least(start + emitted, EndPlace) \/ (size = start /\ emitted = 0)
      /\ \A i \in 1..size : buffer.main[i] = StreamByte(source, i)
  BY <1>3 DEF StreamInv, LengthOK
<1> HIDE DEF data, size
<1>5. /\ Tell(d) = EndPlace
      /\ \A i \in 1..EndPlace :
            d.main[i] = IF i <= size THEN buffer.main[i]
                        ELSE IF i <= size + Len(data) THEN data[i - size] ELSE Zero
  <2>1. buffer \in BufferType(Byte) /\ data \in Seq(Byte) /\ Zero \in Byte
        /\ params.statcachesize = 0
    BY <1>1, <1>2, <1>3
  <2>2. /\ Tell(d) = buffer.endOffset
        /\ \A i \in 1..buffer.endOffset :
            d.main[i] = IF i <= Tell(buffer) THEN buffer.main[i]
                        ELSE IF i <= Tell(buffer) + Len(data)
                             THEN data[i - Tell(buffer)]
                        ELSE Zero
    BY <2>1, DrainedToSize
  <2>3. buffer.endOffset = EndPlace
    BY <1>3
  <2> HIDE DEF d
  <2> QED BY <2>2, <2>3 DEF size
<1>6. d \in BufferType(Byte) /\ d.endOffset = EndPlace
  <2>1. d \in BufferType(Byte) /\ Advances(params, buffer, d)
    BY <1>1, <1>2, <1>3, DrainAdvances
  <2> QED BY <1>3, <2>1 DEF Advances
<1> HIDE DEF d, n, start
<1>7. ASSUME NEW i \in 1..EndPlace PROVE d.main[i] = StreamByte(source, i)
  <2>1. CASE i <= size
    BY <1>3, <1>4, <1>5, <2>1
  <2>2. CASE ~(i <= size)
    <3>1. size = start + emitted
      BY <1>2, <1>3, <1>4, <2>2 DEF Least
    <3> DEFINE j == i - size
    <3>2. ~(i <= start) /\ i - start = emitted + j
          /\ (i - start <= n <=> i <= size + Len(data))
          /\ (i <= size + Len(data) => j \in 1..n - emitted)
      BY <1>1, <1>2, <1>3, <2>2, <3>1
    <3>3. d.main[i] = IF i <= size + Len(data) THEN data[j] ELSE Zero
      BY <1>5, <2>2
    <3> HIDE DEF j
    <3>4. StreamByte(source, i) = IF i - start <= n THEN source.audio[i - start] ELSE Zero
      BY <3>2 DEF StreamByte, start, n
    <3>5. CASE i <= size + Len(data)
      BY <1>1, <3>2, <3>3, <3>4, <3>5
    <3>6. CASE ~(i <= size + Len(data))
      BY <3>2, <3>3, <3>4, <3>6
    <3> QED BY <3>5, <3>6
  <2> QED BY <2>1, <2>2
<1>8. \A i \in 1..EndPlace :
        EagerFile[i] = IF params.vbr /\ i - start \in 1..MaxVbrFrame
                       THEN tail[i - start] ELSE StreamByte(source, i)
  BY EagerBytes DEF IInv, start
<1>9. CASE ~params.vbr
  <2>1. c = d
    BY <1>9 DEF encode_finish, d
  <2> QED BY <1>5, <1>6, <1>7, <1>8, <1>9, <2>1 DEF data
<1>10. CASE params.vbr
  <2>1. c = WriteTo(d, tail, start)
    BY <1>10 DEF encode_finish, d, start
  <2>2. tail \in Seq(Byte) /\ Len(tail) = MaxVbrFrame
    BY <1>2, VbrTailType
  <2> HIDE DEF tail
  <2>3. Tell(c) = Tell(d) /\ c.endOffset = d.endOffset
    BY <1>2, <1>6, <2>1, <2>2, WriteToProperties
  <2>4. \A i \in 1..Tell(d) :
            c.main[i] = IF i - start \in 1..Len(tail) THEN tail[i - start] ELSE d.main[i]
    BY <1>6, <2>1, OverwrittenBytes
  <2> QED BY <1>5, <1>6, <1>7, <1>8, <1>10, <2>2, <2>3, <2>4 DEF data
<1> QED BY <1>9, <1>10

\* Whether a read may be answered now.
Readable == decoder = "none" \/ ~params.vbr \/ emitted = 0

\* Then a byte that is filled in is the byte of the file.
LEMMA FilledIsEager ==
    ASSUME NothingLost, IInv, StreamInv, LosslessInv, isOpen, Readable
    PROVE  \A i \in Nat : IsFilled(buffer, i) => ByteAt(buffer, i) = EagerFile[i + 1]
<1> SUFFICES ASSUME NEW i \in Nat, IsFilled(buffer, i)
             PROVE  ByteAt(buffer, i) = EagerFile[i + 1]
  OBVIOUS
<1> DEFINE start == Len(source.tag2)
           n1 == Len(source.tag1)
           size == Tell(buffer)
<1>1. /\ start \in Nat /\ n1 \in Nat /\ emitted \in Nat
  BY SourceFacts DEF IInv
<1>2. /\ size \in Nat /\ EndPlace \in Nat /\ size <= EndPlace
      /\ buffer.endOffset = EndPlace /\ buffer.end = source.tag1
      /\ Size(buffer) = EndPlace + n1
  BY SizeIsEager, BufferFields, EndPlaceFacts DEF IInv, TypeOK, Separate, Size
<1>3. /\ \A k \in 1..EndPlace :
            EagerFile[k] = IF params.vbr /\ k - start \in 1..MaxVbrFrame
                           THEN VbrTail(source)[k - start] ELSE StreamByte(source, k)
      /\ \A k \in 1..n1 : EagerFile[EndPlace + k] = source.tag1[k]
  BY EagerBytes DEF IInv
<1>4. \A k \in 1..size : buffer.main[k] = EagerFile[k]
  <2>1. CASE decoder = "none"
    BY <2>1 DEF LosslessInv
  <2>2. CASE decoder /= "none"
    <3>1. /\ \A k \in 1..size : buffer.main[k] = StreamByte(source, k)
          /\ size = Least(start + emitted, EndPlace) \/ (size = start /\ emitted = 0)
      BY <1>2, <2>2 DEF StreamInv, LengthOK
    <3>2. params.vbr => size <= start
      BY <1>1, <1>2, <2>2, <3>1 DEF Readable, Least
    <3> HIDE DEF start, size
    <3>3. ASSUME NEW k \in 1..size PROVE buffer.main[k] = EagerFile[k]
      <4>1. k \in 1..EndPlace
        BY <1>2
      <4>2. ~(params.vbr /\ k - start \in 1..MaxVbrFrame)
        BY <1>1, <1>2, <3>2, MaxVbrFrameAssumption
      <4> QED BY <1>3, <3>1, <4>1, <4>2
    <3> QED BY <3>3 DEF size
  <2> QED BY <2>1, <2>2
<1> HIDE DEF start, n1, size
<1>5. CASE i < size
  <2>1. i + 1 \in 1..size
    BY <1>2, <1>5
  <2>2. ByteAt(buffer, i) = buffer.main[i + 1]
    BY <1>5 DEF ByteAt, size
  <2> QED BY <1>4, <2>1, <2>2
<1>6. CASE ~(i < size)
  <2> DEFINE k == i - EndPlace + 1
  <2>1. i >= EndPlace /\ i < EndPlace + n1
    BY <1>2, <1>6 DEF IsFilled, size
  <2>2. k \in 1..n1 /\ EndPlace + k = i + 1
    BY <1>1, <1>2, <2>1
  <2>3. ByteAt(buffer, i) = source.tag1[k]
    BY <1>2, <1>6 DEF ByteAt, size
  <2> HIDE DEF k
  <2> QED BY <1>3, <2>2, <2>3
<1> QED BY <1>5, <1>6

\* What pread returns for the request of a reader.
Wanted(r) == Ok(File!Slice(request[r].offset, request[r].length))

\* A read of n bytes that are there copies them from the file.
LEMMA CopiedIsSlice ==
    ASSUME TypeOK, Shows(buffer, EagerFile), NEW r \in Readers, NEW n \in Nat,
           ValidBytes(buffer, request[r].offset, n)
    PROVE  Copied(r, n)
                = Ok(SubSeq(EagerFile, request[r].offset + 1, request[r].offset + n))
<1> DEFINE offset == request[r].offset
           file == EagerFile
           out == Untouched(n)
<1>1. /\ buffer \in BufferType(Byte) /\ file \in Seq(Byte) /\ offset \in Nat
      /\ ValidBytes(buffer, offset, n) /\ Shows(buffer, file)
  BY RequestType, EagerBytes DEF TypeOK
<1> HIDE DEF offset, file, out
<1>2. CopyInto(buffer, out, offset, n) = SubSeq(file, offset + 1, offset + n)
  BY <1>1, CopyIsSlice
<1> QED BY <1>2 DEF Copied, offset, file, out

\* When they are as many as the file has for the request, that is what pread returns.
LEMMA CopiedIsWanted ==
    ASSUME NothingLost, DemandInv, isOpen, Readable, NEW r \in Readers, NEW n \in Nat,
           ValidBytes(buffer, request[r].offset, n),
           n = IF request[r].offset + request[r].length <= Len(EagerFile)
               THEN request[r].length ELSE Len(EagerFile) - request[r].offset
    PROVE  Copied(r, n) = Wanted(r)
<1> DEFINE offset == request[r].offset
           length == request[r].length
           file == EagerFile
<1>1. offset \in Nat /\ length \in Nat /\ Len(file) \in Nat
  BY RequestType, EagerBytes DEF DemandInv, IInv
<1>2. Shows(buffer, file)
  BY SizeIsEager, FilledIsEager DEF DemandInv, Shows
<1>3. offset + n = IF offset + length <= Len(file) THEN offset + length ELSE Len(file)
  <2> HIDE DEF offset, length, file
  <2>1. n = IF offset + length <= Len(file) THEN length ELSE Len(file) - offset
    BY DEF offset, length, file
  <2> QED BY <1>1, <2>1
<1>4. File!Slice(offset, length) = SubSeq(file, offset + 1, offset + n)
  BY <1>3 DEF File!Slice
<1>5. Copied(r, n) = Ok(SubSeq(file, offset + 1, offset + n))
  BY <1>2, CopiedIsSlice DEF DemandInv, IInv
<1> QED BY <1>4, <1>5 DEF Wanted

\* What is beyond the end of the file is empty.
LEMMA BeyondIsEmpty ==
    ASSUME NEW B, NEW s \in Seq(B), NEW offset \in Nat, offset > Len(s)
    PROVE  SubSeq(s, offset + 1, Len(s)) = <<>>
OBVIOUS

LEMMA EarlyAnswer ==
    ASSUME NothingLost, DemandInv, NEW r \in Readers, ReadWithoutDecoding(r)
    PROVE  ReturnWith(r, Wanted(r))
<1> DEFINE offset == request[r].offset
           length == request[r].length
           n == Len(EagerFile)
<1>1. offset \in Nat /\ length \in Nat
  BY RequestType DEF DemandInv, IInv
<1>2. /\ isOpen /\ Readable
  BY DEF ReadWithoutDecoding, DemandInv, IInv, HandleInv, LosslessInv, Readable
<1>3. EagerFile \in Seq(Byte) /\ n \in Nat /\ Size(buffer) = n
  BY <1>2, SizeIsEager, EagerBytes DEF DemandInv, IInv
<1>4. CASE BeyondEnd(r) /\ ReturnWith(r, Ok(<<>>))
  <2>1. offset > n
    BY <1>3, <1>4 DEF BeyondEnd
  <2>2. ~(offset + length <= n)
    <3> HIDE DEF offset, length, n
    <3> QED BY <1>1, <1>3, <2>1
  <2>3. File!Slice(offset, length) = SubSeq(EagerFile, offset + 1, n)
    BY <2>2 DEF File!Slice
  <2>4. SubSeq(EagerFile, offset + 1, n) = <<>>
    <3> DEFINE file == EagerFile
    <3>1. file \in Seq(Byte) /\ offset > Len(file)
      BY <1>3, <2>1
    <3> HIDE DEF file, offset
    <3>2. SubSeq(file, offset + 1, Len(file)) = <<>>
      BY <1>1, <3>1, BeyondIsEmpty
    <3> QED BY <3>2 DEF file
  <2> QED BY <1>4, <2>3, <2>4 DEF Wanted
<1>5. CASE AlreadyThere(r) /\ ReturnWith(r, Copied(r, length))
  <2>1. ValidBytes(buffer, offset, length)
    BY <1>5 DEF AlreadyThere
  <2>2. offset + length <= n
    BY <1>3, <2>1 DEF ValidBytes
  <2>3. Copied(r, length) = Wanted(r)
    BY <1>1, <1>2, <2>1, <2>2, CopiedIsWanted
  <2> QED BY <1>5, <2>3
<1> QED BY <1>4, <1>5 DEF ReadWithoutDecoding

LEMMA LateAnswer ==
    ASSUME NothingLost, DemandInv, NEW r \in Readers, FinishRead(r)
    PROVE  ReturnWith(r, Wanted(r))
<1> DEFINE offset == request[r].offset
           length == request[r].length
           file == EagerFile
           end == buffer.endOffset
           size == Tell(buffer)
           n == Deliverable(r)
<1>1. /\ offset \in Nat /\ length \in Nat /\ n \in Nat
      /\ buffer \in BufferType(Byte)
  BY RequestType, DeliverableType DEF DemandInv, IInv, TypeOK
<1>2. /\ isOpen /\ offset <= Size(buffer)
  BY DEF FinishRead, DemandInv, IInv, HandleInv, LockInv
<1>3. \/ decoder = "none" /\ size = end
      \/ ~params.vbr /\ ~(size < offset + length)
  BY <1>2 DEF FinishRead, NeedsMore, no_partial_encode, DemandInv, LosslessInv
<1>4. Readable
  BY <1>3 DEF Readable
<1>5. /\ Size(buffer) = Len(file) /\ Separate(buffer)
      /\ size \in Nat /\ end \in Nat /\ size <= end /\ end <= Size(buffer)
      /\ Len(file) \in Nat
  <2>1. /\ Size(buffer) = Len(file) /\ Separate(buffer)
    BY <1>2, SizeIsEager DEF DemandInv
  <2>2. Len(buffer.end) \in Nat /\ size \in Nat /\ end \in Nat
    BY <1>1, BufferFields
  <2>3. Size(buffer) = end + Len(buffer.end)
    BY DEF Size
  <2> HIDE DEF end, size, file
  <2>4. end + Len(buffer.end) \in Nat /\ end <= end + Len(buffer.end)
    BY <2>2
  <2> QED BY <2>1, <2>2, <2>3, <2>4 DEF Separate, end, size
<1>6. MaxValidBytes(buffer, offset) =
        IF size = end \/ offset >= end THEN Len(file) - offset
        ELSE IF offset <= size THEN size - offset
        ELSE 0
  <2>1. ~(offset > Size(buffer))
    BY <1>1, <1>2, <1>5
  <2> QED BY <1>5, <2>1 DEF MaxValidBytes
<1>7. n = IF length > MaxValidBytes(buffer, offset) THEN MaxValidBytes(buffer, offset)
          ELSE length
  BY DEF Deliverable
<1>8. ValidBytes(buffer, offset, n) <=>
        offset + n <= Len(file) /\ (offset + n <= size \/ offset >= end \/ size = end)
  BY <1>1, <1>5 DEF ValidBytes
<1> DEFINE most == MaxValidBytes(buffer, offset)
<1> HIDE DEF most, offset, length, file, end, size, n
<1>9. /\ n = IF offset + length <= Len(file) THEN length ELSE Len(file) - offset
      /\ ValidBytes(buffer, offset, n)
  <2>0. offset <= Len(file) /\ end <= Len(file)
    BY <1>2, <1>5
  <2>1. CASE size = end
    BY <1>1, <1>5, <1>6, <1>7, <1>8, <2>0, <2>1 DEF most
  <2>2. CASE size /= end /\ ~(size < offset + length)
    BY <1>1, <1>5, <1>6, <1>7, <1>8, <2>0, <2>2 DEF most
  <2> QED BY <1>3, <2>1, <2>2
<1>10. Copied(r, n) = Wanted(r)
  BY <1>1, <1>2, <1>4, <1>9, CopiedIsWanted DEF offset, length, file
<1> QED BY <1>10 DEF FinishRead, n

\* The file is that of the source and the mount options.
LEMMA SameFile ==
    ASSUME params' = params, source' = source
    PROVE  EagerFile' = EagerFile
BY DEF EagerFile, calculate_size, VbrTail

LEMMA SameMount ==
    ASSUME [Next]_vars
    PROVE  params' = params /\ source' = source
<1>1. ASSUME NEW r \in Readers,
             \/ Call(r) \/ ReadWithoutDecoding(r) \/ StartDecoding(r)
             \/ DecodeFrame(r) \/ ReachEndOfStream(r) \/ SkipFrame(r)
             \/ DecodeFails(r) \/ DecodeFailsForNow(r) \/ Finish(r)
             \/ FinishFails(r) \/ FinishRead(r)
      PROVE  params' = params /\ source' = source
  BY <1>1 DEF Call, ReadWithoutDecoding, StartDecoding, DecodeFrame, ReachEndOfStream,
              SkipFrame, DecodeFails, DecodeFailsForNow, Finish, FinishFails, FinishRead
<1>2. Open \/ Release \/ Evict \/ UNCHANGED vars => params' = params /\ source' = source
  BY DEF Open, Release, Evict, vars
<1> QED BY <1>1, <1>2 DEF Next, ReadStep

\* Of the failures none is left but that of ov_read, without VBR.
LEMMA NoLoss ==
    ASSUME NothingLost, TypeOK, NEW r \in Readers
    PROVE  /\ ~SkipFrame(r) /\ ~DecodeFails(r) /\ ~FinishFails(r)
           /\ DecodeFailsForNow(r) => ~params.vbr
BY NothingLostHere DEF SkipFrame, DecodeFails, FinishFails, DecodeFailsForNow

LEMMA LockStep ==
    ASSUME NothingLost, DemandInv, [Next]_vars
    PROVE  LockInv'
<1> USE DEF DemandInv
<1>1. ASSUME isOpen, isOpen' PROVE Size(buffer') = Size(buffer)
  <2>1. buffer'.end = buffer.end /\ buffer'.endOffset = buffer.endOffset
    BY <1>1, OpenStep, NothingLostHere DEF IInv, Advances
  <2> QED BY <2>1 DEF Size
<1>2. pc \in [Readers -> {"idle", "locking", "transcoding"}] /\ NoReader \notin Readers
  BY TranscoderAssumption DEF IInv, TypeOK
<1>3. CASE Open
  BY <1>3 DEF Open, LockInv, IInv, HandleInv
<1>4. CASE Release
  BY <1>4 DEF Release, LockInv
<1>5. CASE pc' = pc /\ owner' = owner /\ request' = request /\ isOpen' = isOpen
  BY <1>1, <1>5 DEF LockInv, IInv, HandleInv, Size
<1>6. ASSUME NEW r \in Readers, NEW answer, ReturnWith(r, answer),
             pc[r] = "transcoding" \/ owner = NoReader
      PROVE  LockInv'
  <2>1. \A q \in Readers : pc'[q] /= "transcoding"
    BY <1>2, <1>6 DEF LockInv, ReturnWith
  <2> QED BY <2>1 DEF LockInv
<1>7. ASSUME NEW r \in Readers, Call(r) PROVE LockInv'
  <2>1. /\ isOpen /\ isOpen' /\ owner' = owner
        /\ pc' = [pc EXCEPT ![r] = "locking"]
        /\ \A q \in Readers \ {r} : request'[q] = request[q]
    BY <1>7 DEF Call, IInv, TypeOK
  <2> QED BY <1>1, <1>2, <2>1 DEF LockInv, Size
<1>8. ASSUME NEW r \in Readers, StartDecoding(r) PROVE LockInv'
  <2>1. /\ isOpen /\ isOpen' /\ owner = NoReader /\ owner' = r /\ request' = request
        /\ pc' = [pc EXCEPT ![r] = "transcoding"] /\ ~BeyondEnd(r)
    BY <1>8 DEF StartDecoding, IInv, HandleInv
  <2>2. \A q \in Readers : pc'[q] = "transcoding" => q = r
    BY <1>2, <2>1 DEF LockInv
  <2>3. request[r].offset <= Size(buffer)
    <3>1. buffer \in BufferType(Byte) /\ request[r].offset \in Nat
      BY RequestType DEF IInv, TypeOK
    <3>2. Size(buffer) \in Nat
      BY <3>1, BufferFields DEF Size
    <3> QED BY <2>1, <3>1, <3>2 DEF BeyondEnd
  <2> QED BY <1>1, <2>1, <2>2, <2>3 DEF LockInv, Size
<1>9. ASSUME NEW r \in Readers,
             DecodeFrame(r) \/ ReachEndOfStream(r) \/ SkipFrame(r) \/ Finish(r)
      PROVE  LockInv'
  BY <1>5, <1>9 DEF DecodeFrame, ReachEndOfStream, SkipFrame, Finish
<1>10. ASSUME NEW r \in Readers, ReadWithoutDecoding(r) PROVE LockInv'
  BY <1>6, <1>10 DEF ReadWithoutDecoding
<1>11. ASSUME NEW r \in Readers,
              DecodeFails(r) \/ DecodeFailsForNow(r) \/ FinishFails(r) \/ FinishRead(r)
       PROVE  LockInv'
  BY <1>6, <1>11 DEF DecodeFails, DecodeFailsForNow, FinishFails, FinishRead, InLoop
<1>12. CASE Evict \/ UNCHANGED vars
  BY <1>5, <1>12 DEF Evict, vars
<1> QED BY <1>3, <1>4, <1>7, <1>8, <1>9, <1>10, <1>11, <1>12 DEF Next, ReadStep

LEMMA LosslessStep ==
    ASSUME NothingLost, DemandInv, [Next]_vars
    PROVE  LosslessInv'
<1> USE DEF DemandInv
<1>0. EagerFile' = EagerFile /\ source' = source /\ params' = params
  BY SameFile, SameMount
<1>1. CASE Open
  BY <1>0, <1>1 DEF Open, LosslessInv, StreamInv
<1>2. CASE Release
  BY <1>2 DEF Release, LosslessInv
<1>3. CASE /\ UNCHANGED <<isOpen, streamLen, encoder, decoder, buffer, emitted>>
           /\ isOpen /\ params.vbr /\ decoder /= "none" /\ owner' = NoReader
                => owner = NoReader
  BY <1>0, <1>3 DEF LosslessInv, Tell
<1>4. ASSUME NEW r \in Readers, DecodeFrame(r) \/ ReachEndOfStream(r) PROVE LosslessInv'
  <2>1. /\ isOpen' = isOpen /\ streamLen' = streamLen /\ encoder' = encoder
        /\ decoder /= "none" /\ decoder' /= "none"
        /\ owner' = owner /\ pc[r] = "transcoding"
    BY <1>4 DEF DecodeFrame, ReachEndOfStream, InLoop
  <2>2. owner' /= NoReader
    BY <2>1, TranscoderAssumption DEF LockInv
  <2> QED BY <1>0, <2>1, <2>2 DEF LosslessInv
<1>5. ASSUME NEW r \in Readers, Finish(r) PROVE LosslessInv'
  <2>1. /\ isOpen /\ isOpen' = isOpen /\ decoder /= "none" /\ decoder' = "none"
        /\ encoder' = FALSE /\ streamLen' = streamLen
        /\ buffer' = encode_finish(params, source, buffer, Flushed)
    BY <1>5 DEF Finish, InLoop, NeedsMore, IInv, HandleInv
  <2>2. streamLen = Len(source.audio)
    BY <2>1 DEF LosslessInv
  <2> DEFINE c == encode_finish(params, source, buffer, Flushed)
  <2>3. /\ Tell(c) = c.endOffset
        /\ \A i \in 1..Tell(c) : c.main[i] = EagerFile[i]
    BY <2>1, <2>2, FinishIsEager
  <2>4. buffer' = c
    BY <2>1
  <2> HIDE DEF c
  <2> QED BY <1>0, <2>1, <2>2, <2>3, <2>4 DEF LosslessInv, Tell
<1>6. ASSUME NEW r \in Readers, FinishRead(r) \/ DecodeFailsForNow(r) PROVE LosslessInv'
  <2>1. UNCHANGED <<isOpen, streamLen, encoder, decoder, buffer, emitted>>
    BY <1>6 DEF FinishRead, DecodeFailsForNow
  <2>2. isOpen /\ params.vbr => decoder = "none"
    <3>1. CASE FinishRead(r)
      BY <3>1 DEF FinishRead, NeedsMore, no_partial_encode, LosslessInv
    <3>2. CASE DecodeFailsForNow(r)
      BY <3>2, NoLoss DEF IInv
    <3> QED BY <1>6, <3>1, <3>2
  <2> QED BY <1>3, <2>1, <2>2
<1>7. ASSUME NEW r \in Readers, Call(r) \/ ReadWithoutDecoding(r) \/ StartDecoding(r)
      PROVE  LosslessInv'
  <2>1. UNCHANGED <<isOpen, streamLen, encoder, decoder, buffer, emitted>>
    BY <1>7 DEF Call, ReadWithoutDecoding, StartDecoding
  <2>2. owner' = NoReader => owner = NoReader
    BY <1>7, TranscoderAssumption DEF Call, ReadWithoutDecoding, StartDecoding
  <2> QED BY <1>3, <2>1, <2>2
<1>8. CASE Evict \/ UNCHANGED vars
  BY <1>3, <1>8 DEF Evict, vars
<1> QED BY <1>1, <1>2, <1>4, <1>5, <1>6, <1>7, <1>8, NoLoss DEF Next, ReadStep, IInv

LEMMA SpecDemand ==
    ASSUME NothingLost
    PROVE  Spec => []DemandInv
<1>1. Init => LockInv /\ LosslessInv
  BY DEF Init, LockInv, LosslessInv
<1>2. DemandInv /\ [Next]_vars => DemandInv'
  BY NothingLost, NextInv, StreamStep, LockStep, LosslessStep DEF DemandInv
<1>3. Init => DemandInv
  BY <1>1, InitInv, InitStream DEF DemandInv
<1> QED BY <1>2, <1>3, PTL DEF Spec

\* A step of Transcoder is one of the regular file, or none.
LEMMA FileStep ==
    ASSUME NothingLost, DemandInv, [Next]_vars
    PROVE  [File!FileNext]_(File!fileVars)
<1> DEFINE reading == [q \in Readers |-> pc[q] /= "idle"]
<1>0. EagerFile' = EagerFile
  BY SameFile, SameMount
<1>1. pc \in [Readers -> {"idle", "locking", "transcoding"}]
  BY DEF DemandInv, IInv, TypeOK
<1>2. CASE Open
  BY <1>0, <1>2 DEF Open, File!FileNext, File!OpenFile
<1>3. CASE Release
  BY <1>0, <1>3 DEF Release, File!FileNext, File!CloseFile, File!Idle,
        File!NoRequest, File!Pending, NoRequest, Pending
<1>4. CASE UNCHANGED <<isOpen, request, result>> /\ reading' = reading
  BY <1>0, <1>4 DEF File!fileVars
<1>5. ASSUME NEW r \in Readers, Call(r) PROVE File!FileNext
  <2>1. /\ pc[r] = "idle" /\ pc' = [pc EXCEPT ![r] = "locking"]
    BY <1>5 DEF Call
  <2>2. ~reading[r] /\ reading' = [reading EXCEPT ![r] = TRUE]
    BY <1>1, <2>1
  <2>3. File!Call(r)
    BY <1>0, <1>5, <2>2 DEF Call, File!Call, File!Pending, Pending
  <2> QED BY <2>3 DEF File!FileNext
<1>6. ASSUME NEW r \in Readers, NEW answer \in {Wanted(r), IoError},
             ReturnWith(r, answer), pc[r] /= "idle",
             isOpen' = isOpen, request' = request
      PROVE  File!FileNext
  <2>1. /\ pc' = [pc EXCEPT ![r] = "idle"] /\ result' = [result EXCEPT ![r] = answer]
    BY <1>6 DEF ReturnWith
  <2>2. reading[r] /\ reading' = [reading EXCEPT ![r] = FALSE]
    BY <1>1, <1>6, <2>1
  <2>3. answer \in {File!Ok(File!Slice(request[r].offset, request[r].length)), File!IoError}
    BY DEF Wanted, Ok, IoError, File!Ok, File!IoError
  <2>4. File!Return(r)
    BY <1>0, <1>6, <2>1, <2>2, <2>3 DEF File!Return
  <2> QED BY <2>4 DEF File!FileNext
<1>7. ASSUME NEW r \in Readers, ReadWithoutDecoding(r) PROVE File!FileNext
  BY <1>6, <1>7, EarlyAnswer DEF ReadWithoutDecoding
<1>8. ASSUME NEW r \in Readers, FinishRead(r) PROVE File!FileNext
  BY <1>6, <1>8, LateAnswer DEF FinishRead
<1>9. ASSUME NEW r \in Readers, DecodeFailsForNow(r) PROVE File!FileNext
  BY <1>6, <1>9 DEF DecodeFailsForNow, InLoop
<1>10. ASSUME NEW r \in Readers, StartDecoding(r) PROVE [File!FileNext]_(File!fileVars)
  <2>1. reading' = reading
    BY <1>1, <1>10 DEF StartDecoding
  <2> QED BY <1>4, <1>10, <2>1 DEF StartDecoding
<1>11. ASSUME NEW r \in Readers, DecodeFrame(r) \/ ReachEndOfStream(r) \/ Finish(r)
       PROVE  [File!FileNext]_(File!fileVars)
  BY <1>4, <1>11 DEF DecodeFrame, ReachEndOfStream, Finish
<1>12. CASE Evict \/ UNCHANGED vars
  BY <1>4, <1>12 DEF Evict, vars
<1> QED BY <1>2, <1>3, <1>5, <1>7, <1>8, <1>9, <1>10, <1>11, <1>12, NoLoss
        DEF Next, ReadStep, DemandInv, IInv

\* Transcoding on demand cannot be told from reading a regular file with the content
\* that eager transcoding gives it, for any source, any readers and any requests.
THEOREM TranscodesARegularFile ==
    ASSUME NothingLost
    PROVE  Spec => ImplementsRegularFile
<1>1. Init => File!FileInit
  BY DEF Init, File!FileInit, File!NoRequest, File!Pending, NoRequest, Pending
<1>2. DemandInv /\ [Next]_vars => [File!FileNext]_(File!fileVars)
  BY NothingLost, FileStep
<1>3. Spec => []DemandInv
  BY NothingLost, SpecDemand
<1> QED BY <1>1, <1>2, <1>3, PTL DEF Spec, ImplementsRegularFile, File!FileSpec

----
(* The placeholder of the Xing frame.                                      *)

\* The bytes of the placeholder are no others of the file: not of a tag, of the Xing
\* frame, of the stream after the block of that frame, nor padding.
PlaceholdersApart ==
    \A file \in Sources : \A k \in DOMAIN file.audio \cap DOMAIN file.xing :
        /\ \A i \in 1..Len(file.tag2) : file.tag2[i] /= file.audio[k]
        /\ \A i \in 1..Len(file.tag1) : file.tag1[i] /= file.audio[k]
        /\ \A i \in 1..MaxVbrFrame : VbrTail(file)[i] /= file.audio[k]
        /\ \A i \in MaxVbrFrame + 1..Len(file.audio) : file.audio[i] /= file.audio[k]
        /\ Zero /= file.audio[k]

\* Then the file has none of them.
LEMMA EagerHasNoPlaceholder ==
    ASSUME PlaceholdersApart, TypeOK, params.vbr,
           NEW k \in DOMAIN source.audio \cap DOMAIN source.xing,
           NEW i \in 1..Len(EagerFile)
    PROVE  EagerFile[i] /= source.audio[k]
<1> DEFINE start == Len(source.tag2)
           n1 == Len(source.tag1)
           byte == source.audio[k]
<1>1. /\ \A j \in 1..start : source.tag2[j] /= byte
      /\ \A j \in 1..n1 : source.tag1[j] /= byte
      /\ \A j \in 1..MaxVbrFrame : VbrTail(source)[j] /= byte
      /\ \A j \in MaxVbrFrame + 1..Len(source.audio) : source.audio[j] /= byte
      /\ Zero /= byte
  BY DEF PlaceholdersApart, TypeOK
<1>2. /\ start \in Nat /\ n1 \in Nat /\ Len(source.audio) \in Nat /\ MaxVbrFrame \in Nat
      /\ EndPlace \in Nat /\ start <= EndPlace
  BY SourceFacts, EndPlaceFacts, MaxVbrFrameAssumption
<1>3. /\ Len(EagerFile) = EndPlace + n1
      /\ \A j \in 1..EndPlace :
            EagerFile[j] = IF params.vbr /\ j - start \in 1..MaxVbrFrame
                           THEN VbrTail(source)[j - start] ELSE StreamByte(source, j)
      /\ \A j \in 1..n1 : EagerFile[EndPlace + j] = source.tag1[j]
  BY EagerBytes
<1>4. /\ i <= start => StreamByte(source, i) = source.tag2[i]
      /\ ~(i <= start) =>
            StreamByte(source, i) \in {source.audio[i - start], Zero}
            /\ (i - start > Len(source.audio) => StreamByte(source, i) = Zero)
  <2> DEFINE a == Len(source.audio)
  <2>1. StreamByte(source, i) =
            IF i <= start THEN source.tag2[i]
            ELSE IF i - start <= a THEN source.audio[i - start] ELSE Zero
    BY Zenon DEF StreamByte
  <2>2. start \in Nat /\ a \in Nat /\ i \in Nat
    BY <1>2, <1>3
  <2> HIDE DEF start, a
  <2>3. \/ i <= start /\ StreamByte(source, i) = source.tag2[i]
        \/ ~(i <= start) /\ i - start <= a /\ StreamByte(source, i) = source.audio[i - start]
        \/ ~(i <= start) /\ ~(i - start <= a) /\ StreamByte(source, i) = Zero
    BY <2>1, Zenon
  <2> QED BY <2>2, <2>3 DEF a
<1> DEFINE m == Len(source.audio)
           file == EagerFile
           tail == VbrTail(source)
           plain == StreamByte(source, i)
           audio == source.audio
<1>5. i \in Nat /\ i >= 1 /\ i <= EndPlace + n1
  BY <1>2, <1>3
<1> HIDE DEF start, n1, byte, m, file, tail, plain, audio
<1>6. i <= EndPlace =>
        file[i] = IF params.vbr /\ i - start \in 1..MaxVbrFrame
                  THEN tail[i - start] ELSE plain
  <2>1. i <= EndPlace => i \in 1..EndPlace
    BY <1>2, <1>5
  <2> QED BY <1>3, <2>1 DEF start, file, tail, plain
<1>7. CASE i <= start
  <2>1. i \in 1..start /\ i <= EndPlace /\ ~(i - start \in 1..MaxVbrFrame)
    BY <1>2, <1>5, <1>7
  <2>2. file[i] = source.tag2[i]
    BY <1>4, <1>6, <1>7, <2>1 DEF plain
  <2> QED BY <1>1, <2>1, <2>2 DEF file, byte
<1>8. CASE ~(i <= start) /\ i <= EndPlace
  <2> DEFINE j == i - start
  <2>1. j \in Nat /\ j >= 1
    BY <1>2, <1>5, <1>8
  <2>2. file[i] = IF j \in 1..MaxVbrFrame THEN tail[j] ELSE plain
    BY <1>6, <1>8
  <2>3. plain \in {audio[j], Zero} /\ (j > m => plain = Zero)
    BY <1>4, <1>8 DEF plain, audio, m, start
  <2> HIDE DEF j
  <2>4. CASE j \in 1..MaxVbrFrame
    BY <1>1, <2>2, <2>4 DEF file, tail, byte
  <2>5. CASE ~(j \in 1..MaxVbrFrame) /\ j <= m
    <3>1. j \in MaxVbrFrame + 1..m
      BY <1>2, <2>1, <2>5 DEF m
    <3>2. audio[j] /= byte /\ Zero /= byte
      BY <1>1, <3>1 DEF m, audio, byte
    <3> QED BY <2>2, <2>3, <2>5, <3>2 DEF file, byte
  <2>6. CASE ~(j \in 1..MaxVbrFrame) /\ ~(j <= m)
    <3>1. j > m
      BY <1>2, <2>1, <2>6 DEF m
    <3>2. file[i] = Zero
      BY <2>2, <2>3, <2>6, <3>1
    <3> QED BY <1>1, <3>2 DEF file, byte
  <2> QED BY <2>4, <2>5, <2>6
<1>9. CASE ~(i <= start) /\ ~(i <= EndPlace)
  <2> DEFINE j == i - EndPlace
  <2>1. j \in 1..n1 /\ EndPlace + j = i
    BY <1>2, <1>5, <1>9
  <2> HIDE DEF j
  <2>2. file[EndPlace + j] = source.tag1[j]
    BY <1>3, <2>1 DEF file, n1
  <2>3. source.tag1[j] /= byte
    BY <1>1, <2>1 DEF n1, byte
  <2> QED BY <2>1, <2>2, <2>3 DEF file, byte
<1> QED BY <1>7, <1>8, <1>9

\* What a read has returned are bytes of the file.
ServedInv ==
    \A r \in Readers : \A i \in DOMAIN result[r].data :
        \E k \in 1..Len(EagerFile) : result[r].data[i] = EagerFile[k]

\* A part of a sequence has bytes of it.
LEMMA PartBytes ==
    ASSUME NEW B, NEW s \in Seq(B), NEW m \in Nat, NEW n \in Nat, n <= Len(s),
           NEW i \in DOMAIN SubSeq(s, m + 1, n)
    PROVE  \E k \in 1..Len(s) : SubSeq(s, m + 1, n)[i] = s[k]
OBVIOUS

LEMMA ServedStep ==
    ASSUME NothingLost, DemandInv, ServedInv, [Next]_vars
    PROVE  ServedInv'
<1>0. EagerFile' = EagerFile
  BY SameFile, SameMount
<1>1. [File!FileNext]_(File!fileVars)
  BY FileStep
<1>2. result \in [Readers -> Answer]
  BY TypeParts DEF DemandInv, IInv, ReadersType
<1>3. ASSUME NEW r \in Readers, NEW answer, result' = [result EXCEPT ![r] = answer],
             \A i \in DOMAIN answer.data :
                \E k \in 1..Len(EagerFile) : answer.data[i] = EagerFile[k]
      PROVE  ServedInv'
  BY <1>0, <1>2, <1>3 DEF ServedInv
<1>4. CASE result' = result
  BY <1>0, <1>4 DEF ServedInv
<1>5. CASE result' = [r \in Readers |-> File!Pending]
  BY <1>5 DEF ServedInv, File!Pending
<1>6. ASSUME NEW r \in Readers, File!Call(r) PROVE ServedInv'
  <2>1. DOMAIN File!Pending.data = {}
    BY DEF File!Pending
  <2> QED BY <1>3, <1>6, <2>1 DEF File!Call
<1>7. ASSUME NEW r \in Readers, File!Return(r) PROVE ServedInv'
  <2> DEFINE offset == request[r].offset
             length == request[r].length
             file == EagerFile
             end == IF offset + length <= Len(file) THEN offset + length ELSE Len(file)
  <2>1. offset \in Nat /\ length \in Nat /\ file \in Seq(Byte)
    BY RequestType, EagerBytes DEF DemandInv, IInv
  <2>2. PICK answer \in {File!Ok(File!Slice(offset, length)), File!IoError} :
            result' = [result EXCEPT ![r] = answer]
    BY <1>7 DEF File!Return
  <2>3. CASE answer = File!IoError
    <3>1. DOMAIN answer.data = {}
      BY <2>3 DEF File!IoError
    <3> QED BY <1>3, <2>2, <3>1
  <2>4. CASE answer = File!Ok(File!Slice(offset, length))
    <3>1. answer.data = SubSeq(file, offset + 1, end)
      BY <2>4 DEF File!Ok, File!Slice
    <3>2. end \in Nat /\ end <= Len(file)
      <4> HIDE DEF offset, length, file
      <4> QED BY <2>1
    <3>3. \A i \in DOMAIN SubSeq(file, offset + 1, end) :
            \E k \in 1..Len(file) : SubSeq(file, offset + 1, end)[i] = file[k]
      <4> HIDE DEF offset, file, end
      <4> QED BY <2>1, <3>2, PartBytes
    <3> HIDE DEF end, file
    <3> QED BY <1>3, <2>2, <3>1, <3>3 DEF file
  <2> QED BY <2>2, <2>3, <2>4
<1>8. CASE File!OpenFile
  BY <1>4, <1>8 DEF File!OpenFile
<1>9. CASE File!CloseFile
  BY <1>5, <1>9 DEF File!CloseFile
<1>10. CASE UNCHANGED File!fileVars
  BY <1>4, <1>10 DEF File!fileVars
<1> QED BY <1>1, <1>6, <1>7, <1>8, <1>9, <1>10 DEF File!FileNext

\* No read of a VBR file returns the placeholder that LAME puts at the start of its
\* stream (mp3_encoder.h:55).
THEOREM PlaceholderNeverServed ==
    ASSUME NothingLost, PlaceholdersApart
    PROVE  Spec => []NoPlaceholderServed
<1>1. Init => ServedInv
  BY DEF Init, ServedInv, Pending
<1>2. DemandInv /\ ServedInv /\ [Next]_vars => ServedInv'
  BY NothingLost, ServedStep
<1>3. DemandInv /\ ServedInv => NoPlaceholderServed
  <2> SUFFICES ASSUME DemandInv, ServedInv, params.vbr, NEW r \in Readers,
                      NEW i \in DOMAIN result[r].data,
                      NEW k \in DOMAIN source.audio \cap DOMAIN source.xing
               PROVE  result[r].data[i] /= source.audio[k]
    BY DEF NoPlaceholderServed
  <2>1. PICK j \in 1..Len(EagerFile) : result[r].data[i] = EagerFile[j]
    BY DEF ServedInv
  <2>2. EagerFile[j] /= source.audio[k]
    BY PlaceholdersApart, EagerHasNoPlaceholder DEF DemandInv, IInv
  <2> QED BY <2>1, <2>2
<1>4. Spec => []DemandInv
  BY NothingLost, SpecDemand
<1> QED BY <1>1, <1>2, <1>3, <1>4, PTL DEF Spec
====
