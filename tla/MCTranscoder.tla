---- MODULE MCTranscoder ----
(***************************************************************************)
(* Instances of Transcoder. Tags and streams are a few bytes long; what    *)
(* matters is their order of size: streams shorter than, equal to and      *)
(* longer than predicted, reads that end in each segment, at its border    *)
(* and beyond the end.                                                     *)
(***************************************************************************)
EXTENDS Transcoder

CONSTANTS r1, r2

Tag2 == <<"T1", "T2">>
Tag1 == <<"V">>
Stream(n) == SubSeq(<<"a1", "a2", "a3", "a4">>, 1, n)
Xing == <<"X">>
VbrStream(n) == SubSeq(<<"x0", "a1", "a2", "a3">>, 1, n)

MCByte == {"T1", "T2", "V", "a1", "a2", "a3", "a4", "X", "x0", "zero"}

Track(k, n, foreseen) ==
    [kind |-> k, frames |-> 2, predicted |-> foreseen,
     tag2 |-> Tag2, tag1 |-> Tag1, audio |-> Stream(n), xing |-> <<>>]

VbrTrack(k, n, foreseen) ==
    [Track(k, n, foreseen) EXCEPT !.audio = VbrStream(n), !.xing = Xing]

Kinds == {"flac", "vorbis"}

CbrSources == {Track(k, n, 3) : k \in Kinds, n \in 2..4}
VbrSources == {VbrTrack(k, n, 1) : k \in Kinds, n \in {1, 3, 4}}
MixedSources == CbrSources \cup VbrSources

NoCacheCbr == {[vbr |-> FALSE, statcachesize |-> 0]}
NoCacheVbr == {[vbr |-> TRUE, statcachesize |-> 0]}
NoCache == NoCacheCbr \cup NoCacheVbr
CacheCbr == {[vbr |-> FALSE, statcachesize |-> 1]}
CacheVbr == {[vbr |-> TRUE, statcachesize |-> 1]}
Cache == CacheCbr \cup CacheVbr
AllParams == NoCache \cup Cache
AllSources == CbrSources \cup {VbrTrack(k, 2, 1) : k \in Kinds} \cup {VbrTrack(k, 4, 2) : k \in Kinds}

BothReaders == {r1, r2}
OneReader == {r1}
NoStale == {}
NoFaults(p) == {}
AllFaults(p) == {"transient", "frame", "flush", "lametag"}
Transient(p) == {"transient"}

\* The failures that leave a regular file of the mount: no failure of any kind
\* does with VBR (see the run of MCPlaceholder).
TransientWithCbr(p) == IF p.vbr THEN {} ELSE {"transient"}

FewOffsets == {0, 3, 5, 7}
FewLengths == {2, 4}
ManyOffsets == {0, 2, 3, 5, 6, 7}
ManyLengths == {1, 2, 4}
TooShortOrLong == {4, 9}

====
