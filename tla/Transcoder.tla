---- MODULE Transcoder ----
(***************************************************************************)
(* One transcoded file over the lives of its handles: Transcoder::open,    *)
(* the reads of several FUSE threads on one handle, which take its mutex   *)
(* and run the decoder as far as they need (transcode.cc), and release.    *)
(* The decoders are those of flac_decoder.cc and vorbis_decoder.cc; their  *)
(* libraries are external and may fail. The entry of this file in the      *)
(* stats cache is the one variable cachedSize; it outlives the handle.     *)
(***************************************************************************)
EXTENDS Mp3Encoder

CONSTANTS
    Readers,        \* the FUSE threads that read the open file
    NoReader,       \* the owner of an unlocked mutex
    NoByte,         \* a byte of the caller's memory that was not written to
    Sources,        \* the files to transcode
    ParamSets,      \* the mount options
    Offsets,        \* the offsets readers ask for
    Lengths,        \* the lengths readers ask for
    StaleSizes,     \* sizes the cache may hold for an earlier state of the file
    FaultKinds(_),  \* which failures may happen, under given mount options
    MaxFaults       \* bound on their number

ASSUME TranscoderAssumption ==
    /\ NoReader \notin Readers
    /\ Zero \in Byte
    /\ NoByte \notin Byte
    /\ Sources \subseteq SourceType
    /\ ParamSets \subseteq ParamsType
    /\ Offsets \subseteq Nat
    /\ Lengths \subseteq Nat
    /\ StaleSizes \subseteq Nat
    /\ \A size \in StaleSizes, file \in Sources : size >= Len(file.tag1)
    /\ \A p \in ParamSets :
        FaultKinds(p) \subseteq {"transient", "frame", "flush", "lametag"}
    /\ MaxFaults \in Nat

VARIABLES
    params,         \* the mount options
    source,         \* the file to transcode
    isOpen,         \* whether a handle is open
    buffer,         \* buffer_
    decoder,        \* decoder_: "none" (null), "reading", or, for FLAC, a state
                    \* from END_OF_STREAM on: "eos" or "aborted"
    framesLeft,     \* frames the decoder has not read yet
    encoder,        \* whether encoder_ is set
    emitted,        \* how much of its stream LAME has handed out
    streamLen,      \* how long that stream will be: shorter after a lost frame
    owner,          \* mutex_: the reader that holds it
    pc,             \* per reader: "idle", "locking", "transcoding"
    request,        \* per reader, the arguments of its last read()
    result,         \* per reader, what its last read() returned
    cachedSize,     \* the size in the stats cache, 0 when there is no entry
    faults          \* how many failures have happened

vars == <<params, source, isOpen, buffer, decoder, framesLeft, encoder, emitted,
          streamLen, owner, pc, request, result, cachedSize, faults>>

NoRequest == [offset |-> 0, length |-> 0]
Pending == [status |-> "pending", data |-> <<>>]
Ok(data) == [status |-> "ok", data |-> data]
IoError == [status |-> "EIO", data |-> <<>>]

\* What the caller's memory holds before a read fills it.
Untouched(n) == [i \in 1..n |-> NoByte]

Init ==
    /\ params \in ParamSets
    /\ source \in Sources
    /\ isOpen = FALSE
    /\ buffer = EmptyBuffer
    /\ decoder = "none"
    /\ framesLeft = 0
    /\ encoder = FALSE
    /\ emitted = 0
    /\ streamLen = 0
    /\ request = [r \in Readers |-> NoRequest]
    /\ result = [r \in Readers |-> Pending]
    /\ owner = NoReader
    /\ pc = [r \in Readers |-> "idle"]
    /\ cachedSize \in IF params.statcachesize > 0 THEN {0} \cup StaleSizes ELSE {0}
    /\ faults = 0

\* The constructor and open(): the decoder reads the metadata, the encoder
\* renders the tags at the places the size from the cache puts them. (When a
\* step of it fails there is no handle, and nothing is left of it.)
Open ==
    /\ ~isOpen
    /\ isOpen' = TRUE
    /\ decoder' = "reading"
    /\ framesLeft' = source.frames
    /\ encoder' = TRUE
    /\ streamLen' = Len(source.audio)
    /\ buffer' = render_tag(params, source, cachedSize)
    /\ UNCHANGED <<params, source, emitted, owner, pc, request, result, cachedSize,
                   faults>>

\* A thread enters Transcoder::read and waits for the mutex.
Call(r) ==
    /\ isOpen
    /\ pc[r] = "idle"
    /\ pc' = [pc EXCEPT ![r] = "locking"]
    /\ \E offset \in Offsets, length \in Lengths :
        request' = [request EXCEPT ![r] = [offset |-> offset, length |-> length]]
    /\ result' = [result EXCEPT ![r] = Pending]
    /\ UNCHANGED <<params, source, isOpen, buffer, decoder, framesLeft, encoder,
                   emitted, streamLen, owner, cachedSize, faults>>

\* The reader leaves read() with the given result, and the mutex with it.
ReturnWith(r, answer) ==
    /\ pc' = [pc EXCEPT ![r] = "idle"]
    /\ result' = [result EXCEPT ![r] = answer]
    /\ owner' = NoReader

BeyondEnd(r) == request[r].offset > Size(buffer)

AlreadyThere(r) == ValidBytes(buffer, request[r].offset, request[r].length)

\* What copy_into makes of the first n bytes of the caller's memory.
Copied(r, n) == Ok(CopyInto(buffer, Untouched(n), request[r].offset, n))

\* The mutex is free, and the read is beyond the end of the file or already
\* in the buffer: it returns under the same lock.
ReadWithoutDecoding(r) ==
    /\ pc[r] = "locking"
    /\ owner = NoReader
    /\ \/ BeyondEnd(r) /\ ReturnWith(r, Ok(<<>>))
       \/ ~BeyondEnd(r) /\ AlreadyThere(r) /\ ReturnWith(r, Copied(r, request[r].length))
    /\ UNCHANGED <<params, source, isOpen, buffer, decoder, framesLeft, encoder,
                   emitted, streamLen, request, cachedSize, faults>>

\* Otherwise the reader keeps the mutex while it runs the decoder.
StartDecoding(r) ==
    /\ pc[r] = "locking"
    /\ owner = NoReader
    /\ ~BeyondEnd(r)
    /\ ~AlreadyThere(r)
    /\ owner' = r
    /\ pc' = [pc EXCEPT ![r] = "transcoding"]
    /\ UNCHANGED <<params, source, isOpen, buffer, decoder, framesLeft, encoder,
                   emitted, streamLen, request, result, cachedSize, faults>>

\* Seeded fault: the loop stops at the first byte of the request.
NeedsMoreToStart(r) ==
    /\ decoder /= "none"
    /\ encoder
    /\ \/ no_partial_encode(params)
       \/ Tell(buffer) < request[r].offset

\* The condition of the loop in read().
NeedsMore(r) ==
    /\ decoder /= "none"
    /\ encoder
    /\ \/ no_partial_encode(params)
       \/ Tell(buffer) < request[r].offset + request[r].length

\* Another round of the loop.
InLoop(r) == pc[r] = "transcoding" /\ NeedsMore(r)

\* The bytes LAME hands out next, n of them.
NextBytes(n) == SubSeq(source.audio, emitted + 1, emitted + n)

\* process_single_fr reads one frame and passes it to the encoder, which
\* returns any part of the stream it has not returned yet.
DecodeFrame(r) ==
    /\ InLoop(r)
    /\ decoder = "reading"
    /\ framesLeft > 0
    /\ framesLeft' = framesLeft - 1
    /\ \E n \in 0..streamLen - emitted :
        /\ buffer' = encode_pcm_data(buffer, NextBytes(n))
        /\ emitted' = emitted + n
    /\ UNCHANGED <<params, source, isOpen, decoder, encoder, streamLen, owner, pc,
                   request, result, cachedSize, faults>>

\* The FLAC decoder finds the end of its stream in a call that still returns 0.
ReachEndOfStream(r) ==
    /\ InLoop(r)
    /\ source.kind = "flac"
    /\ decoder = "reading"
    /\ framesLeft = 0
    /\ decoder' = "eos"
    /\ UNCHANGED <<params, source, isOpen, buffer, framesLeft, encoder, emitted,
                   streamLen, owner, pc, request, result, cachedSize, faults>>

\* A failure of the given kind happens now.
Fault(kind) ==
    /\ kind \in FaultKinds(params)
    /\ faults < MaxFaults
    /\ faults' = faults + 1

\* libFLAC skips a damaged frame: error_callback only logs, and the call
\* returns 0. The stream gets shorter.
SkipFrame(r) ==
    /\ InLoop(r)
    /\ source.kind = "flac"
    /\ decoder = "reading"
    /\ framesLeft > 0
    /\ Fault("frame")
    /\ framesLeft' = framesLeft - 1
    /\ streamLen' \in emitted..streamLen
    /\ UNCHANGED <<params, source, isOpen, buffer, decoder, encoder, emitted, owner,
                   pc, request, result, cachedSize>>

\* process_single_fr returns -1 and read() EIO. For FLAC every such failure,
\* of reading as of encoding, leaves the decoder in a state beyond
\* END_OF_STREAM; for Vorbis the frame is lost and the next call goes on.
DecodeFails(r) ==
    /\ InLoop(r)
    /\ decoder = "reading"
    /\ framesLeft > 0
    /\ Fault("frame")
    /\ framesLeft' = framesLeft - 1
    /\ streamLen' \in emitted..streamLen
    /\ decoder' = IF source.kind = "flac" THEN "aborted" ELSE decoder
    /\ ReturnWith(r, IoError)
    /\ UNCHANGED <<params, source, isOpen, buffer, encoder, emitted, request,
                   cachedSize>>

\* ov_read fails and has lost nothing.
DecodeFailsForNow(r) ==
    /\ InLoop(r)
    /\ source.kind = "vorbis"
    /\ decoder = "reading"
    /\ Fault("transient")
    /\ ReturnWith(r, IoError)
    /\ UNCHANGED <<params, source, isOpen, buffer, decoder, framesLeft, encoder,
                   emitted, streamLen, request, cachedSize>>

\* Seeded fault: the FLAC decoder never reports its end.
AtEndOfVorbisOnly ==
    source.kind = "vorbis" /\ decoder = "reading" /\ framesLeft = 0

\* process_single_fr returns 1: at the end of a Vorbis stream, and in every
\* state of the FLAC decoder from END_OF_STREAM on.
AtEnd ==
    \/ source.kind = "vorbis" /\ decoder = "reading" /\ framesLeft = 0
    \/ decoder \in {"eos", "aborted"}

\* What encode_finish gets from lame_encode_flush.
Flushed == NextBytes(streamLen - emitted)

\* finish(): the decoder and the encoder go, the final size is put in the cache.
Finish(r) ==
    /\ InLoop(r)
    /\ AtEnd
    /\ decoder' = "none"
    /\ buffer' = encode_finish(params, source, buffer, Flushed)
    /\ emitted' = streamLen
    /\ encoder' = FALSE
    /\ cachedSize' = IF params.statcachesize > 0 /\ Size(buffer') /= 0
                     THEN Size(buffer') ELSE cachedSize
    /\ UNCHANGED <<params, source, isOpen, framesLeft, streamLen, owner, pc, request,
                   result, faults>>

\* finish() when encode_finish fails, in lame_encode_flush or for a Xing frame
\* that is too large: the decoder is gone already, the encoder stays.
FinishFails(r) ==
    /\ InLoop(r)
    /\ AtEnd
    /\ decoder' = "none"
    /\ \/ Fault("flush") /\ UNCHANGED <<buffer, emitted>>
       \/ /\ params.vbr
          /\ Fault("lametag")
          /\ buffer' = Drain(params, buffer, Flushed)
          /\ emitted' = streamLen
    /\ ReturnWith(r, IoError)
    /\ UNCHANGED <<params, source, isOpen, framesLeft, encoder, streamLen, request,
                   cachedSize>>

\* Seeded fault: a read is cut at the end of the file only.
DeliverableToEnd(r) ==
    LET most == Size(buffer) - request[r].offset
    IN  IF request[r].length > most THEN most ELSE request[r].length

\* The number of bytes read() can deliver.
Deliverable(r) ==
    LET most == MaxValidBytes(buffer, request[r].offset)
    IN  IF request[r].length > most THEN most ELSE request[r].length

\* The loop ends: what is there is copied, and the read returns.
FinishRead(r) ==
    /\ pc[r] = "transcoding"
    /\ ~NeedsMore(r)
    /\ ReturnWith(r, Copied(r, Deliverable(r)))
    /\ UNCHANGED <<params, source, isOpen, buffer, decoder, framesLeft, encoder,
                   emitted, streamLen, request, cachedSize, faults>>

\* FUSE releases a handle when no read of it is under way: the Transcoder is
\* deleted. What it put in the cache stays.
Release ==
    /\ isOpen
    /\ \A r \in Readers : pc[r] = "idle"
    /\ isOpen' = FALSE
    /\ buffer' = EmptyBuffer
    /\ decoder' = "none"
    /\ framesLeft' = 0
    /\ encoder' = FALSE
    /\ emitted' = 0
    /\ streamLen' = 0
    /\ request' = [r \in Readers |-> NoRequest]
    /\ result' = [r \in Readers |-> Pending]
    /\ UNCHANGED <<params, source, owner, pc, cachedSize, faults>>

\* The cache drops the entry, for another file's sake.
Evict ==
    /\ cachedSize /= 0
    /\ cachedSize' = 0
    /\ UNCHANGED <<params, source, isOpen, buffer, decoder, framesLeft, encoder,
                   emitted, streamLen, owner, pc, request, result, faults>>

\* The steps of a read() under way.
ReadStep(r) ==
    \/ DecodeFrame(r)
    \/ ReachEndOfStream(r)
    \/ SkipFrame(r)
    \/ DecodeFails(r)
    \/ DecodeFailsForNow(r)
    \/ Finish(r)
    \/ FinishFails(r)
    \/ FinishRead(r)

Next ==
    \/ Open
    \/ Release
    \/ Evict
    \/ \E r \in Readers :
        Call(r) \/ ReadWithoutDecoding(r) \/ StartDecoding(r) \/ ReadStep(r)

Spec == Init /\ [][Next]_vars

\* A thread that is in the middle of read() is scheduled. (Nothing is assumed
\* of the order in which waiting threads get the mutex.)
FairSpec == Spec /\ \A r \in Readers : WF_vars(ReadStep(r))

----
\* Every variable has its type.
TypeOK ==
    /\ params \in ParamSets
    /\ source \in Sources
    /\ isOpen \in BOOLEAN
    /\ buffer \in BufferType(Byte)
    /\ isOpen => buffer.end = source.tag1
    /\ decoder \in {"none", "reading", "eos", "aborted"}
    /\ framesLeft \in Nat
    /\ encoder \in BOOLEAN
    /\ emitted \in 0..streamLen
    /\ streamLen \in 0..Len(source.audio)
    /\ owner \in Readers \cup {NoReader}
    /\ pc \in [Readers -> {"idle", "locking", "transcoding"}]
    /\ request \in [Readers -> [offset : Offsets \cup {0}, length : Lengths \cup {0}]]
    /\ result \in [Readers -> [status : {"pending", "ok", "EIO"},
                                data : Seq(Byte \cup {NoByte})]]
    /\ cachedSize \in Nat
    /\ cachedSize /= 0 => cachedSize >= Len(source.tag1)
    /\ faults \in 0..MaxFaults

\* Without a stats cache, the size a handle reports when it is opened is its
\* size for good: whatever the length of LAME's stream turns out to be, and
\* whatever fails, the stream is cut or padded to it (mp3_encoder.cc:350, 374).
SizeNeverChanges ==
    [][isOpen /\ isOpen' /\ params.statcachesize = 0
        => Size(buffer') = Size(buffer)]_vars

\* Without a stats cache and with CBR, a byte that a read could have returned
\* is never changed and never lost while the handle is open: no two reads of
\* one handle disagree, however they overlap and whatever fails between them.
FilledBytesStable ==
    [][isOpen /\ isOpen' /\ params.statcachesize = 0 /\ ~params.vbr =>
        \A i \in 0..Size(buffer) - 1 : IsFilled(buffer, i) =>
            IsFilled(buffer', i) /\ ByteAt(buffer', i) = ByteAt(buffer, i)]_vars

\* No read that succeeds hands out memory that was not written to: the length
\* that read() returns is one that copy_into accepts (transcode.cc:119-124).
NoUnwrittenByteServed ==
    \A r \in Readers : \A i \in DOMAIN result[r].data :
        result[r].data[i] /= NoByte

\* The Xing frame is written over bytes that the main segment holds, as
\* write_to requires (buffer.h:43-47, mp3_encoder.cc:388). A stats cache makes
\* encode_finish truncate the buffer first: then it takes a stream and a cached
\* size with room for the largest Xing frame.
VbrTailInMain ==
    [][\A r \in Readers :
        /\ Finish(r)
        /\ params.vbr
        /\ params.statcachesize > 0 =>
            /\ streamLen >= MaxVbrFrame
            /\ Size(buffer) >= Len(source.tag2) + MaxVbrFrame + Len(source.tag1)
        => InMain(Drain(params, buffer, Flushed), VbrTail(source),
                  Len(source.tag2))]_vars

\* The size of the file when nothing of the stream is lost.
TrueSize == Len(source.tag2) + Len(source.audio) + Len(source.tag1)

\* With a stats cache, a decoding that loses no frame and was foreseen to be
\* long enough leaves the true size in the cache; one foreseen too short
\* leaves a size nearer to it, and never one beyond it (mp3_encoder.cc:350,
\* 370-372, transcode.cc:151-153).
CachedSizeApproachesTrueSize ==
    [][\A r \in Readers :
        Finish(r) /\ params.statcachesize > 0 /\ streamLen = Len(source.audio) =>
            IF Size(buffer) >= TrueSize THEN cachedSize' = TrueSize
            ELSE Size(buffer) <= cachedSize' /\ cachedSize' <= TrueSize]_vars

\* With CBR, in every mode and for every size the cache comes up with, the
\* bytes of the main segment are final when they are written: at the end, too,
\* the segment only grows (mp3_encoder.cc:366-389). The cached size must leave
\* room for the ID3v2 tag.
MainOnlyGrows ==
    [][isOpen /\ isOpen' /\ ~params.vbr /\ Separate(buffer) =>
        /\ Separate(buffer')
        /\ Tell(buffer) <= Tell(buffer')
        /\ SubSeq(buffer'.main, 1, Tell(buffer)) = buffer.main]_vars

\* A read that has the mutex returns, with whatever the decoder and the
\* encoder do, and so lets the other readers in.
DecodingReadReturns ==
    \A r \in Readers : pc[r] = "transcoding" ~> pc[r] = "idle"

\* The file as transcoding all of it in one go makes it: the stream cut or
\* padded to the size foreseen, with VBR under the Xing frame, between the tags.
EagerFile ==
    LET start == Len(source.tag2)
        room == calculate_size(params, source) - Len(source.tag1) - start
        stream == Resize(source.audio, room)
    IN  source.tag2
        \o (IF params.vbr
            THEN VbrTail(source) \o SubSeq(stream, MaxVbrFrame + 1, room)
            ELSE stream)
        \o source.tag1

File == INSTANCE RegularFile WITH
            content <- EagerFile,
            reading <- [r \in Readers |-> pc[r] /= "idle"]

\* Transcoding on demand cannot be told from reading a regular file with the
\* content that eager transcoding gives it (reader.h, transcode.cc).
ImplementsRegularFile == File!FileSpec

\* mp3_encoder.h:55: "The Xing data [...] cannot be determined until the entire
\* file is encoded, so transcode the entire file for any read": no read returns
\* the placeholder that LAME puts there.
NoPlaceholderServed ==
    params.vbr =>
        \A r \in Readers : \A i \in DOMAIN result[r].data :
            result[r].data[i] \notin
                {source.audio[k] : k \in DOMAIN source.audio \cap DOMAIN source.xing}

\* mp3_encoder.cc:377: "Write the VBR tag data at id3size bytes after the
\* beginning. lame already put dummy bytes here": only those bytes are
\* overwritten, the rest of the stream is what the encoder made it.
VbrTailReplacesPlaceholderOnly ==
    [][\A r \in Readers :
        Finish(r) /\ params.vbr =>
            \A i \in DOMAIN buffer.main :
                i > Len(source.tag2) + Len(source.xing)
                    => buffer'.main[i] = buffer.main[i]]_vars
====
