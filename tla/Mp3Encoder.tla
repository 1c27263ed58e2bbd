---- MODULE Mp3Encoder ----
(***************************************************************************)
(* What Mp3Encoder (codecs/mp3_encoder.cc) does to its Buffer. LAME is     *)
(* external: for a source it produces one fixed stream "audio", which      *)
(* encode_pcm_data and encode_finish hand out in pieces, and in VBR mode a *)
(* frame "xing" for the start of that stream, where the first bytes of     *)
(* "audio" are a placeholder of the same length.                           *)
(***************************************************************************)
EXTENDS Buffer

CONSTANTS
    Byte,           \* the values a byte of the transcoded file can take
    MaxVbrFrame     \* MAX_VBR_FRAME_SIZE, 2880 in the code

ASSUME MaxVbrFrameAssumption == MaxVbrFrame \in Nat

\* A file to transcode: the rendered ID3 tags, LAME's stream, the number of
\* frames the decoder reads to get there, and the length of the stream as
\* predicted from LAME's frame count.
SourceType ==
    [kind : {"flac", "vorbis"}, frames : Nat, predicted : Nat,
     tag2 : Seq(Byte), tag1 : Seq(Byte), audio : Seq(Byte), xing : Seq(Byte)]

\* The mount options the encoder looks at.
ParamsType == [vbr : BOOLEAN, statcachesize : Nat]

\* Seeded fault: no room is left for the VBR frame.
SizeWithoutVbrFrame(params, source) ==
    Len(source.tag2) + Len(source.tag1) + source.predicted

\* The size of the transcoded file as foreseen when it is opened.
calculate_size(params, source) ==
    Len(source.tag2) + Len(source.tag1) + source.predicted
        + (IF params.vbr THEN MaxVbrFrame ELSE 0)

\* The ID3v2 tag goes to the start of the buffer, the ID3v1 tag to the end of
\* a file of the given size, or of the calculated size when that is 0.
render_tag(params, source, fileSize) ==
    LET size == IF fileSize = 0 THEN calculate_size(params, source) ELSE fileSize
    IN  WriteEnd(Write(EmptyBuffer, source.tag2, TRUE), source.tag1,
                 size - Len(source.tag1))

\* Seeded fault: encoded audio may move the ID3v1 tag.
EncodeExtending(buffer, encoded) == Write(buffer, encoded, TRUE)

\* Appends what LAME returned for a block of samples.
encode_pcm_data(buffer, encoded) == Write(buffer, encoded, FALSE)

\* Seeded fault: with a cache, a file shorter than predicted is padded too.
DrainAlwaysExtending(params, buffer, flushed) ==
    Extend(Write(buffer, flushed, params.statcachesize > 0))

\* The first half of encode_finish: what LAME still held is written, and the
\* segments joined. Only with a stats cache does the size change.
Drain(params, buffer, flushed) ==
    LET written == Write(buffer, flushed, params.statcachesize > 0)
    IN  IF params.statcachesize > 0 THEN Truncate(written) ELSE Extend(written)

\* The vector "tail": the Xing frame in a block of the maximal frame size.
VbrTail(source) == Resize(source.xing, MaxVbrFrame)

\* Seeded fault: the Xing frame is put in place in CBR mode too.
FinishAlwaysWithVbrTail(params, source, buffer, flushed) ==
    WriteTo(Drain(params, buffer, flushed), VbrTail(source), Len(source.tag2))

\* The whole of encode_finish, when it succeeds.
encode_finish(params, source, buffer, flushed) ==
    IF params.vbr
    THEN WriteTo(Drain(params, buffer, flushed), VbrTail(source), Len(source.tag2))
    ELSE Drain(params, buffer, flushed)

\* Seeded fault: parts of a VBR file are served as they are encoded.
PartialAlways(params) == FALSE

\* With VBR no part of the audio is right before all of it is encoded.
no_partial_encode(params) == params.vbr
====
