---- MODULE MCMetadata ----
(***************************************************************************)
(* An instance of Metadata: all sequences of up to three comments out of   *)
(* some of each kind, in both formats. A length has two bytes of four      *)
(* values, so that lengths with a carry fit in a short picture.            *)
(***************************************************************************)
EXTENDS Metadata

MCTextFrame == [field \in {"TITLE", "ALBUMARTIST", "ALBUM ARTIST"} |->
                    IF field = "TITLE" THEN "TIT2" ELSE "TPE2"]
MCToken == {"/", "MP3FS", "x", "y", "1", "2", "60"}

Cover == [type |-> 3, mime |-> <<1>>, description |-> <<>>, data |-> <<0, 1, 2, 3, 0>>]
Icon == [type |-> 1, mime |-> <<>>, description |-> <<2>>, data |-> <<>>]
MCPictures == {Cover, Icon}

Text(f, v) == [field |-> f, value |-> v]
Gain(f, dB) == [field |-> f, gain |-> dB]
PictureComment(bytes) ==
    [field |-> "METADATA_BLOCK_PICTURE", base64 |-> TRUE, data |-> bytes]
CutTo(picture, n) == PictureComment(SubSeq(Encoded(picture, <<0>>), 1, n))

TextComments ==
    {Text("TITLE", <<"x">>), Text("TITLE", <<"y">>), Text("ALBUMARTIST", <<"x">>),
     Text("ALBUM ARTIST", <<"y">>), Text("other", <<"x">>)}
NumberComments ==
    {Text("TRACKNUMBER", <<"1">>), Text("TRACKTOTAL", <<"2">>),
     Text("TRACKNUMBER", <<"1", "/", "2">>), Text("DISCNUMBER", <<"1">>),
     Text("DISCTOTAL", <<"2">>)}
GainComments ==
    {Gain("REPLAYGAIN_REFERENCE_LOUDNESS", 83), Gain("REPLAYGAIN_ALBUM_GAIN", -6),
     Gain("REPLAYGAIN_ALBUM_GAIN", kInvalidDb), Gain("REPLAYGAIN_TRACK_GAIN", 2),
     Gain("REPLAYGAIN_TRACK_GAIN", -1)}
PictureComments ==
    {PictureComment(Encoded(Icon, <<3>>) \o <<0>>),
     CutTo(Cover, Len(Encoded(Cover, <<0>>))),
     CutTo(Cover, Len(Encoded(Cover, <<0>>)) - 1),
     [PictureComment(<<>>) EXCEPT !.base64 = FALSE]}

\* Every way to cut a picture off, alone in its file.
CutPictures == UNION {{CutTo(p, n) : n \in 0..Len(Encoded(p, <<0>>))} : p \in MCPictures}

CommentLists ==
    UNION {[1..n -> TextComments \cup NumberComments \cup PictureComments] : n \in 0..2}
    \cup [1..3 -> NumberComments]
    \cup [1..3 -> GainComments]
    \cup [1..1 -> CutPictures]

Streaminfo == [type |-> "STREAMINFO"]
Comments(list) == [type |-> "VORBIS_COMMENT", comments |-> list]
PictureBlock(picture) == [type |-> "PICTURE", picture |-> picture]

MCFile(k, c, bs) == [kind |-> k, channels |-> c, length |-> <<"60">>, blocks |-> bs]

MCFiles ==
    {MCFile("vorbis", 2, <<Comments(list)>>) : list \in CommentLists}
    \cup {MCFile("flac", 2, <<Streaminfo, Comments(list)>>) : list \in CommentLists}
    \cup {MCFile("flac", 2, <<Streaminfo, PictureBlock(Icon), Comments(<<c>>),
                              PictureBlock(Cover)>>) : c \in TextComments}
    \cup {MCFile("flac", 2, <<Streaminfo, Comments(<<c>>), Comments(<<d>>)>>) :
              c \in GainComments, d \in GainComments \cup NumberComments}
    \cup {MCFile("vorbis", 6, <<Comments(<<>>)>>), MCFile("flac", 2, <<>>),
          MCFile("flac", 2, <<Streaminfo, PictureBlock(Cover)>>)}

\* The pictures that the proof of PicturesAreTheWholeOnes asks for are there.
ASSUME EveryDecodedPictureIsKnown ==
    \A f \in Files : \A i \in DOMAIN f.blocks : f.blocks[i].type = "VORBIS_COMMENT" =>
        \A j \in DOMAIN f.blocks[i].comments :
            LET comment == f.blocks[i].comments[j]
            IN  comment.field = "METADATA_BLOCK_PICTURE" =>
                    decode(comment.data) \subseteq Pictures

MCGainParams == [gainmode : {0, 1, 2}, gainref : {92}]
====
