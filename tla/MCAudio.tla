---- MODULE MCAudio ----
(***************************************************************************)
(* An instance of Audio: an int of 8 bits, samples at both ends of their   *)
(* range, mono, stereo and six channels that all sound different; real     *)
(* rates and bitrates, among them those that LAME changes.                 *)
(***************************************************************************)
EXTENDS Audio

Range4 == <<-8, 7, -1, 3>>
Range3 == <<-4, 3, 0, 1>>
Range8 == <<-128, 127, 1, -2>>
Channel(range, c) == [i \in 1..4 |-> range[((i + c - 2) % 4) + 1]]

Track(kind, n, range, sample_size) ==
    [kind |-> kind, channels |-> [c \in 1..n |-> Channel(range, c)],
     sample_size |-> sample_size, in_rate |-> 44100, out_rate |-> 44100,
     totalframes |-> 4, frames |-> 4]

Layouts ==
    {Track("flac", n, Range3, 3) : n \in {1, 2, 6}} \cup {Track("flac", 2, Range8, 8)}
    \cup {Track("vorbis", n, Range4, 4) : n \in {1, 2}}

At(in, out, frames) ==
    [Track("vorbis", 1, Range4, 4) EXCEPT
        !.in_rate = in, !.out_rate = out, !.totalframes = frames, !.frames = frames]

Rates == {At(r, r, n) : r \in {22050, 32000, 44100, 48000}, n \in {1, 5, 8}}
            \cup {At(96000, 48000, 6), At(47000, 48000, 6)}

\* A FLAC header may leave the length out.
NoLength == [Track("flac", 1, Range3, 3) EXCEPT !.totalframes = 1]

MCSources == Layouts \cup Rates \cup {NoLength}

MCParamSets == [vbr : BOOLEAN, bitrate : {96, 100, 128, 320}]
====
