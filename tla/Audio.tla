---- MODULE Audio ----
(***************************************************************************)
(* The way of the samples: from the frames that the decoders' libraries    *)
(* hand out (write_callback of flac_decoder.cc, process_single_fr of       *)
(* vorbis_decoder.cc) through Mp3Encoder::encode_pcm_data into LAME; and   *)
(* the size that calculate_size foresees for what comes out of it. LAME is *)
(* external: it cuts its input into frames of 1152 samples, or 576 for low *)
(* rates, and makes each as long as the nearest bitrate that it knows asks.*)
(***************************************************************************)
EXTENDS Integers, SequencesExt

CONSTANTS
    Sources,        \* the audio files
    ParamSets,      \* the mount options
    IntBits,        \* the width of an int, 32
    VorbisBits,     \* the width of the samples asked of ov_read, 16
    MaxPacket       \* bound on the samples per channel in one frame or packet

\* channels are the channels' samples, in full; in_rate and out_rate the
\* sampling frequencies of LAME's input and output in Hz; totalframes how many
\* MP3 frames LAME expects by the length in the source's header, and frames
\* how many it makes of the samples.
SourceType ==
    [kind : {"flac", "vorbis"}, channels : Seq(Seq(Int)), sample_size : Nat,
     in_rate : Nat \ {0}, out_rate : Nat \ {0}, totalframes : Nat, frames : Nat \ {0}]

ParamsType == [vbr : BOOLEAN, bitrate : Nat]

Distance(a, b) == IF a < b THEN b - a ELSE a - b

\* The signed integers of a width.
Signed(bits) == -(2^(bits - 1))..2^(bits - 1) - 1

ASSUME AudioAssumption ==
    /\ IntBits \in Nat \ {0} /\ VorbisBits \in 1..IntBits
    /\ MaxPacket \in Nat
    /\ Sources \subseteq SourceType
    /\ ParamSets \subseteq ParamsType
    /\ \A s \in Sources :
        /\ s.channels /= <<>>
        /\ s.kind = "vorbis" => s.sample_size = VorbisBits /\ Len(s.channels) <= 2
        /\ s.sample_size \in 1..IntBits
        /\ \A c \in DOMAIN s.channels :
            /\ Len(s.channels[c]) = Len(s.channels[1])
            /\ ToSet(s.channels[c]) \subseteq Signed(s.sample_size)

VARIABLES
    params,     \* the mount options
    source,     \* the file
    position,   \* how many samples per channel the decoder has handed out
    heard,      \* the left and the right samples LAME has taken
    framesOut,  \* how many MP3 frames it has returned,
    bytes,      \* of how many bytes,
    slotLag,    \* and its account of the fractions of bytes it owes
    state       \* "decoding", "done", or "failed"

vars == <<params, source, position, heard, framesOut, bytes, slotLag, state>>

kId3v1TagLength == 128
MAX_VBR_FRAME_SIZE == 2880
conversion_factor == 144000

\* The version of the MP3 stream, which its rate decides: 1 or 2.
MpegVersion == IF source.out_rate >= 32000 THEN 1 ELSE 2

Bitrates ==
    IF MpegVersion = 1
    THEN {32, 40, 48, 56, 64, 80, 96, 112, 128, 160, 192, 224, 256, 320}
    ELSE {8, 16, 24, 32, 40, 48, 56, 64, 80, 96, 112, 128, 144, 160}

\* The bitrate LAME takes for the one it is told.
Nearest(bitrate) ==
    CHOOSE b \in Bitrates : \A c \in Bitrates : Distance(bitrate, b) <= Distance(bitrate, c)

\* Seeded fault: the frames are counted from the length in the header, as if
\* each had 1152 samples of the input.
SizeOfInputFrames(id3size) ==
    id3size + kId3v1TagLength
        + (source.totalframes * conversion_factor * params.bitrate) \div source.in_rate

\* Seeded fault: nothing is set aside for the Xing frame.
SizeWithoutXing(id3size) ==
    id3size + kId3v1TagLength
        + (source.totalframes * conversion_factor * params.bitrate)
            \div (IF params.vbr THEN source.in_rate ELSE source.out_rate)

\* The size of the file with an ID3v2 tag of the given size.
calculate_size(id3size) ==
    IF params.vbr
    THEN id3size + kId3v1TagLength + MAX_VBR_FRAME_SIZE
            + (source.totalframes * conversion_factor * params.bitrate) \div source.in_rate
    ELSE id3size + kId3v1TagLength
            + (source.totalframes * conversion_factor * params.bitrate) \div source.out_rate

\* The size of a frame times the output's rate.
FrameFactor(bitrate) == (IF MpegVersion = 1 THEN 144000 ELSE 72000) * bitrate

\* The channels LAME encodes: it refuses to be set to more than two, and keeps
\* its default of two.
NumChannels == IF Len(source.channels) = 1 THEN 1 ELSE 2

\* The frame that LAME returns first with VBR, for the Xing data.
Placeholder ==
    IF params.vbr
    THEN FrameFactor(IF MpegVersion = 1 THEN 128 ELSE 64) \div source.out_rate
    ELSE 0

Init ==
    /\ params \in ParamSets
    /\ source \in Sources
    /\ position = 0
    /\ heard = [left |-> <<>>, right |-> <<>>]
    /\ framesOut = 0
    /\ bytes = 0
    /\ slotLag = FrameFactor(Nearest(params.bitrate)) % source.out_rate
    /\ state = "decoding"

\* x in an int.
Wrapped(x) == ((x + 2^(IntBits - 1)) % 2^IntBits) - 2^(IntBits - 1)

\* data << (sizeof(int) * kBitsPerByte - sample_size).
LeftAligned(x, sample_size) == Wrapped(x * 2^(IntBits - sample_size))

\* encode_pcm_data: what LAME gets of numsamples samples per channel.
encode_pcm_data(data, numsamples, sample_size) ==
    LET buf(c) == [i \in 1..numsamples |-> LeftAligned(data[c][i], sample_size)]
    IN  heard' = [left |-> heard.left \o buf(1),
                  right |-> heard.right \o
                    IF NumChannels > 1 THEN buf(2) ELSE [i \in 1..numsamples |-> 0]]

\* LAME makes n more frames. With VBR each has one of the bitrates up to the
\* maximum: here, the least or the most.
EmitVbr(n) ==
    \E large \in 0..n :
        /\ bytes' = bytes + (IF framesOut = 0 /\ n > 0 THEN Placeholder ELSE 0)
                + large * (FrameFactor(Nearest(params.bitrate)) \div source.out_rate)
                + (n - large) * (FrameFactor(Nearest(0)) \div source.out_rate)
        /\ UNCHANGED slotLag

\* With CBR, a frame gets a byte more whenever the fractions add up to one.
EmitCbr(n) ==
    LET factor == FrameFactor(Nearest(params.bitrate))
        owed == slotLag - n * (factor % source.out_rate)
        padding == IF owed < 0 THEN (source.out_rate - 1 - owed) \div source.out_rate ELSE 0
    IN  /\ bytes' = bytes + n * (factor \div source.out_rate) + padding
        /\ slotLag' = owed + padding * source.out_rate

Emit(n) ==
    /\ framesOut' = framesOut + n
    /\ IF params.vbr THEN EmitVbr(n) ELSE EmitCbr(n)

\* The frames LAME may return for now: it keeps the last one for the flush.
EmitSome == \E n \in 0..source.frames - framesOut - 1 : Emit(n)

\* The next n samples of a channel.
NextSamples(c, n) == SubSeq(source.channels[c], position + 1, position + n)

Rest == Len(source.channels[1]) - position

\* libFLAC decodes a frame, with an array for each channel, for write_callback.
write_callback ==
    /\ state = "decoding"
    /\ source.kind = "flac"
    /\ \E n \in 1..MaxPacket :
        /\ n <= Rest
        /\ encode_pcm_data([c \in DOMAIN source.channels |-> NextSamples(c, n)], n,
                           source.sample_size)
        /\ position' = position + n
    /\ EmitSome
    /\ UNCHANGED <<params, source, state>>

\* What ov_read fills decode_buffer with: the samples of the channels in turn.
Interleaved(n) ==
    LET channels == Len(source.channels)
    IN  [i \in 1..n * channels |->
            NextSamples(((i - 1) % channels) + 1, n)[(i - 1) \div channels + 1]]

\* Seeded fault: as if one channel came after the other.
DeinterleavedPlanar(decode_buffer, channels) ==
    LET samples_per_channel == Len(decode_buffer) \div channels
    IN  [channel \in 1..channels |->
            [i \in 1..samples_per_channel |->
                decode_buffer[(channel - 1) * samples_per_channel + i]]]

\* encode_buffer, one vector for each channel.
Deinterleaved(decode_buffer, channels) ==
    [channel \in 1..channels |->
        [i \in 1..Len(decode_buffer) \div channels |->
            decode_buffer[(i - 1) * channels + channel]]]

\* ov_read returns a packet.
process_single_fr ==
    /\ state = "decoding"
    /\ source.kind = "vorbis"
    /\ \E n \in 1..MaxPacket :
        LET encode_buffer == Deinterleaved(Interleaved(n), Len(source.channels))
        IN  /\ n <= Rest
            /\ encode_pcm_data(encode_buffer, Len(encode_buffer[1]), VorbisBits)
            /\ position' = position + n
    /\ EmitSome
    /\ UNCHANGED <<params, source, state>>

\* The end of the source: encode_finish flushes LAME.
encode_finish ==
    /\ state = "decoding"
    /\ Rest = 0
    /\ Emit(source.frames - framesOut)
    /\ state' = "done"
    /\ UNCHANGED <<params, source, position, heard>>

\* LAME refuses a buffer, or the flush: the file ends in an error.
EncoderFails ==
    /\ state = "decoding"
    /\ state' = "failed"
    /\ UNCHANGED <<params, source, position, heard, framesOut, bytes, slotLag>>

Next == write_callback \/ process_single_fr \/ encode_finish \/ EncoderFails

Spec == Init /\ [][Next]_vars

-----------------------------------------------------------------------------

\* The first position samples of a channel of the source, as fractions of the
\* full scale, are these.
SoundsLike(samples, channel) ==
    /\ Len(samples) = position
    /\ \A i \in 1..position :
        samples[i] * 2^(source.sample_size - 1) = channel[i] * 2^(IntBits - 1)

\* However the libraries cut the source into frames or packets, LAME has heard
\* what has been decoded: the first channel on the left and the second on the
\* right, or silence for mono, in order, nothing lost or doubled, and as loud as
\* in the source (mp3_encoder.cc:324-340, vorbis_decoder.cc:208-214).
LameHearsTheSource ==
    /\ SoundsLike(heard.left, source.channels[1])
    /\ SoundsLike(heard.right, IF Len(source.channels) = 1 THEN [i \in 1..position |-> 0]
                               ELSE source.channels[2])

\* What comes out between the tags, with a header that tells the truth.
Finished == state = "done" /\ source.totalframes = source.frames

Foreseen == calculate_size(0) - kId3v1TagLength

\* "The final filesize can be determined" (README.md:42-43) with a constant
\* bitrate that LAME knows and rates from 32 kHz on: calculate_size is exact, or
\* a byte short of what LAME returns, however that byte comes about from the
\* padding of frames (mp3_encoder.cc:302-305). Below 32 kHz it is not: frames have
\* 576 samples there, 1152 in calculate_size, and twice the size is foreseen.
ForeseenSizeIsExact ==
    Finished /\ ~params.vbr /\ params.bitrate \in Bitrates /\ MpegVersion = 1
        => bytes - Foreseen \in {0, 1}

\* With VBR no stream is longer than calculate_size says, so that none is cut
\* off, unless LAME reduces the rate or rounds the bitrate up
\* (mp3_encoder.cc:297-301).
ForeseenVbrSizeSuffices ==
    (/\ Finished /\ params.vbr
     /\ source.in_rate <= source.out_rate
     /\ Nearest(params.bitrate) <= params.bitrate)
        => bytes <= Foreseen
====
