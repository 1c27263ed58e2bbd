---- MODULE Metadata ----
(***************************************************************************)
(* How the metadata of a source file become ID3 frames and a gain: the     *)
(* metadata callback of flac_decoder.cc, process_metadata of               *)
(* vorbis_decoder.cc, and the setters of mp3_encoder.cc and coders.cc that *)
(* they call for one comment after the other. Strings are sequences of     *)
(* tokens; tags keep, for each frame, the strings that it has.             *)
(***************************************************************************)
EXTENDS Integers, Picture

CONSTANTS
    TextFrame,      \* the two kMetatagMaps: from text fields to ID3 frames
    Token,          \* what strings are made of
    Pictures,       \* the pictures that are in them, some of them damaged
    Files,          \* the source files
    GainParams      \* the mount options gainmode and gainref

TextField == DOMAIN TextFrame
NumberField == {"TRACKNUMBER", "TRACKTOTAL", "DISCNUMBER", "DISCTOTAL"}
GainField == {"REPLAYGAIN_REFERENCE_LOUDNESS", "REPLAYGAIN_ALBUM_GAIN",
              "REPLAYGAIN_TRACK_GAIN"}
Frame == {TextFrame[field] : field \in TextField} \cup {"TRCK", "TPOS", "TSSE", "TLEN"}
String == Seq(Token)

\* A comment has a string, or the number strtod makes of it, or a picture.
CommentType ==
    [field : TextField \cup NumberField \cup {"other"}, value : String]
    \cup [field : GainField, gain : Int]
    \cup [field : {"METADATA_BLOCK_PICTURE"}, base64 : BOOLEAN,
          data : Seq(PictureByte)]

\* FLAC files have blocks; of an Ogg Vorbis file, the only one is its comments.
BlockType ==
    [type : {"STREAMINFO"}]
    \cup [type : {"VORBIS_COMMENT"}, comments : Seq(CommentType)]
    \cup [type : {"PICTURE"}, picture : PictureType]

FileType == [kind : {"flac", "vorbis"}, channels : Nat, length : String,
             blocks : Seq(BlockType)]

kInvalidDb == 1000
kDefaultGain == 89

\* The keys of the maps are apart, and none of them leads to a frame that mp3fs
\* fills in itself.
ASSUME MetadataAssumption ==
    /\ TextField \cap (NumberField \cup GainField
                      \cup {"METADATA_BLOCK_PICTURE", "other"}) = {}
    /\ {TextFrame[field] : field \in TextField}
            \cap {"TRCK", "TPOS", "TSSE", "TLEN"} = {}
    /\ {"/", "MP3FS"} \subseteq Token
    /\ Pictures \subseteq PictureType
    /\ \A picture \in Pictures : Fits(picture)
    /\ Files \subseteq FileType
    /\ \A file \in Files : file.kind = "vorbis" =>
        Len(file.blocks) = 1 /\ file.blocks[1].type = "VORBIS_COMMENT"
    /\ GainParams \subseteq [gainmode : {0, 1, 2}, gainref : Int]

VARIABLES
    params,         \* the mount options
    file,           \* the file
    pc,             \* "opened", "blocks", "comments", "done", "failed"
    blocks,         \* the metadata blocks the decoder has not come to
    comments,       \* the comments of its block that it has not come to
    hasStreaminfo,  \* has_streaminfo_
    gains,          \* the locals gainref, album_gain and track_gain
    tag,            \* id3tag_
    scale,          \* the dB that lame_set_scale was told, kInvalidDb for none
    applied         \* the dB LAME encodes with, taken over by lame_init_params

vars == <<params, file, pc, blocks, comments, hasStreaminfo, gains, tag, scale,
          applied>>

NoGains == [field \in GainField |-> kInvalidDb]

\* Seeded fault: the string of a text frame is replaced.
SetString(old, frame, value) == [old EXCEPT !.text[frame] = <<value>>]

\* Text frames get one more string.
AddString(old, frame, value) == [old EXCEPT !.text[frame] = Append(@, value)]

FrameOfNumber(field) ==
    IF field \in {"TRACKNUMBER", "TRACKTOTAL"} THEN "TRCK" ELSE "TPOS"

\* Seeded fault: numbers, too, are put behind what the frame has.
AddNumberBehind(old, field, value) ==
    LET frame == FrameOfNumber(field)
        lat == IF old.text[frame] = <<>> THEN <<>> ELSE Head(old.text[frame])
        glued == IF field \in {"TRACKNUMBER", "DISCNUMBER"} THEN lat \o value
                 ELSE lat \o <<"/">> \o value
    IN  [old EXCEPT !.text[frame] = <<glued>>]

\* Track and disc numbers go before what the frame has, totals behind it.
AddNumber(old, field, value) ==
    LET frame == FrameOfNumber(field)
        lat == IF old.text[frame] = <<>> THEN <<>> ELSE Head(old.text[frame])
        glued == IF field \in {"TRACKNUMBER", "DISCNUMBER"} THEN value \o lat
                 ELSE lat \o <<"/">> \o value
    IN  [old EXCEPT !.text[frame] = <<glued>>]

\* What a comment does to the tag.
set_text_tag(old, comment) ==
    IF comment.field \in TextField
    THEN AddString(old, TextFrame[comment.field], comment.value)
    ELSE AddNumber(old, comment.field, comment.value)

set_picture_tag(old, picture) == [old EXCEPT !.pictures = Append(@, picture)]

\* Seeded fault: the track gain never stands in for the album gain.
ChosenGainStrict(mode, given) ==
    IF mode = 1 THEN given["REPLAYGAIN_ALBUM_GAIN"]
    ELSE IF mode = 2 THEN given["REPLAYGAIN_TRACK_GAIN"] ELSE kInvalidDb

\* The gain that the mode takes from the comments, kInvalidDb for none.
ChosenGain(mode, given) ==
    LET album == given["REPLAYGAIN_ALBUM_GAIN"]
    IN  IF mode = 1 /\ album /= kInvalidDb THEN album
        ELSE IF mode \in {1, 2} THEN given["REPLAYGAIN_TRACK_GAIN"]
        ELSE kInvalidDb

\* The dB that set_gain tells LAME, or the one it was told before. LAME encodes
\* with it only if lame_init_params comes later.
set_gain(options, given, before) ==
    LET reference == given["REPLAYGAIN_REFERENCE_LOUDNESS"]
        gain == ChosenGain(options.gainmode, given)
    IN  IF gain = kInvalidDb THEN before
        ELSE options.gainref - (IF reference = kInvalidDb THEN kDefaultGain
                                ELSE reference) + gain

\* The constructor of the encoder has set the name of the program.
Init ==
    /\ params \in GainParams
    /\ file \in Files
    /\ pc = "opened"
    /\ blocks = file.blocks
    /\ comments = <<>>
    /\ hasStreaminfo = FALSE
    /\ gains = NoGains
    /\ tag = AddString([text |-> [frame \in Frame |-> <<>>], pictures |-> <<>>],
                       "TSSE", <<"MP3FS">>)
    /\ scale = kInvalidDb
    /\ applied = kInvalidDb

\* process_metadata returns -1.
FailMetadata == pc' = "failed" /\ UNCHANGED <<tag, applied>>

\* set_stream_params tells LAME about the stream, which it may not accept, and
\* puts the length of the track in the tag. lame_init_params takes over what
\* LAME was told before; nothing calls it again.
SetStreamParams(next) ==
    \/ /\ tag' = AddString(tag, "TLEN", file.length)
       /\ applied' = scale
       /\ pc' = next
    \/ FailMetadata

\* process_metadata for Vorbis starts with the stream's parameters ...
StartVorbis ==
    /\ pc = "opened"
    /\ file.kind = "vorbis"
    /\ IF file.channels > 2 THEN FailMetadata
       ELSE SetStreamParams("blocks")
    /\ UNCHANGED <<params, file, blocks, comments, hasStreaminfo, gains, scale>>

\* ... for FLAC they come last, when every block has been read.
StartFlac ==
    /\ pc = "opened"
    /\ file.kind = "flac"
    /\ pc' = "blocks"
    /\ UNCHANGED <<params, file, blocks, comments, hasStreaminfo, gains, tag, scale,
                   applied>>

ReadStreaminfo ==
    /\ pc = "blocks"
    /\ blocks /= <<>>
    /\ Head(blocks).type = "STREAMINFO"
    /\ hasStreaminfo' = TRUE
    /\ blocks' = Tail(blocks)
    /\ UNCHANGED <<params, file, pc, comments, gains, tag, scale, applied>>

\* libFLAC has decoded the picture of a PICTURE block.
ReadPictureBlock ==
    /\ pc = "blocks"
    /\ blocks /= <<>>
    /\ Head(blocks).type = "PICTURE"
    /\ tag' = set_picture_tag(tag, Head(blocks).picture)
    /\ blocks' = Tail(blocks)
    /\ UNCHANGED <<params, file, pc, comments, hasStreaminfo, gains, scale, applied>>

StartComments ==
    /\ pc = "blocks"
    /\ blocks /= <<>>
    /\ Head(blocks).type = "VORBIS_COMMENT"
    /\ pc' = "comments"
    /\ comments' = Head(blocks).comments
    /\ gains' = NoGains
    /\ blocks' = Tail(blocks)
    /\ UNCHANGED <<params, file, hasStreaminfo, tag, scale, applied>>

\* The next comment, of one of the given fields, is used up.
TakeComment(fields) ==
    /\ pc = "comments"
    /\ comments /= <<>>
    /\ Head(comments).field \in fields
    /\ comments' = Tail(comments)
    /\ UNCHANGED <<params, file, blocks, hasStreaminfo, scale, applied>>

ReadText ==
    /\ TakeComment(TextField \cup NumberField)
    /\ tag' = set_text_tag(tag, Head(comments))
    /\ UNCHANGED <<pc, gains>>

ReadGain ==
    /\ TakeComment(GainField)
    /\ gains' = [gains EXCEPT ![Head(comments).field] = Head(comments).gain]
    /\ UNCHANGED <<pc, tag>>

\* A picture that does not decode is left out, but what is no base64 ends the
\* whole of process_metadata. In FLAC comments, pictures are unknown fields.
ReadPictureComment ==
    /\ file.kind = "vorbis"
    /\ TakeComment({"METADATA_BLOCK_PICTURE"})
    /\ IF ~Head(comments).base64 THEN pc' = "failed" /\ tag' = tag
       ELSE /\ pc' = pc
            /\ IF decode(Head(comments).data) = {} THEN tag' = tag
               ELSE \E picture \in decode(Head(comments).data) :
                        tag' = set_picture_tag(tag, picture)
    /\ UNCHANGED gains

ReadOther ==
    /\ TakeComment(IF file.kind = "flac" THEN {"other", "METADATA_BLOCK_PICTURE"}
                   ELSE {"other"})
    /\ UNCHANGED <<pc, gains, tag>>

EndComments ==
    /\ pc = "comments"
    /\ comments = <<>>
    /\ scale' = set_gain(params, gains, scale)
    /\ pc' = "blocks"
    /\ UNCHANGED <<params, file, blocks, comments, hasStreaminfo, gains, tag,
                   applied>>

\* All of the metadata has been read.
EndVorbis ==
    /\ pc = "blocks"
    /\ blocks = <<>>
    /\ file.kind = "vorbis"
    /\ pc' = "done"
    /\ UNCHANGED <<params, file, blocks, comments, hasStreaminfo, gains, tag, scale,
                   applied>>

EndFlac ==
    /\ pc = "blocks"
    /\ blocks = <<>>
    /\ file.kind = "flac"
    /\ IF hasStreaminfo THEN SetStreamParams("done") ELSE FailMetadata
    /\ UNCHANGED <<params, file, blocks, comments, hasStreaminfo, gains, scale>>

Next ==
    \/ StartVorbis
    \/ StartFlac
    \/ ReadStreaminfo
    \/ ReadPictureBlock
    \/ StartComments
    \/ ReadText
    \/ ReadGain
    \/ ReadPictureComment
    \/ ReadOther
    \/ EndComments
    \/ EndVorbis
    \/ EndFlac

Spec == Init /\ [][Next]_vars

----
\* The places of the file: a block, and the place in it of a comment.
CommentPlaces ==
    UNION {IF file.blocks[i].type = "VORBIS_COMMENT"
           THEN {i} \X DOMAIN file.blocks[i].comments ELSE {} : i \in DOMAIN file.blocks}
PicturePlaces ==
    {i \in DOMAIN file.blocks : file.blocks[i].type = "PICTURE"} \X {0}

CommentAt(place) == file.blocks[place[1]].comments[place[2]]

\* Where comments of the given fields are.
Given(fields) == {place \in CommentPlaces : CommentAt(place).field \in fields}

Before(p, q) == p[1] < q[1] \/ (p[1] = q[1] /\ p[2] < q[2])
Sole(set) == CHOOSE element \in set : TRUE

\* Some of the places, in the order of the file.
InOrder(places) ==
    [n \in 1..Cardinality(places) |->
        Sole({p \in places : Cardinality({q \in places : Before(q, p)}) = n - 1})]

ValuesAt(places) ==
    [n \in DOMAIN InOrder(places) |-> CommentAt(InOrder(places)[n]).value]

\* Whatever the order of the comments, a number and a total make "number/total",
\* as ID3 has it; a number alone has no slash, and a total alone only the slash
\* before it (mp3_encoder.cc:166-201). Each of them is given at most once.
NumbersInAnyOrder ==
    pc = "done" =>
        \A pair \in {<<"TRACKNUMBER", "TRACKTOTAL", "TRCK">>,
                     <<"DISCNUMBER", "DISCTOTAL", "TPOS">>} :
            LET number == Given({pair[1]})
                total == Given({pair[2]})
            IN  (\A places \in {number, total} : \A p, q \in places : p = q)
                => tag.text[pair[3]] =
                    IF number = {} /\ total = {} THEN <<>>
                    ELSE <<(IF number = {} THEN <<>> ELSE CommentAt(Sole(number)).value)
                           \o (IF total = {} THEN <<>>
                               ELSE <<"/">> \o CommentAt(Sole(total)).value)>>

\* A text frame has the values of all comments that map to it, from both
\* decoders in the order of the file, and the frames mp3fs fills in itself have
\* one value: the decoders set the length before or after all others.
TextFramesHaveAllValues ==
    pc = "done" =>
        /\ tag.text["TSSE"] = <<<<"MP3FS">>>>
        /\ tag.text["TLEN"] = <<file.length>>
        /\ \A frame \in {TextFrame[field] : field \in TextField} :
            tag.text[frame] =
                ValuesAt(Given({field \in TextField : TextFrame[field] = frame}))

\* The last gain of a field in a list of comments; kInvalidDb stands for none,
\* also in a comment.
LastGain(list, field) ==
    LET places == {i \in DOMAIN list : list[i].field = field}
    IN  IF places = {} THEN kInvalidDb ELSE list[Max(places)].gain

\* The field that counts, the album's only when it is there.
GainSource(list) ==
    IF params.gainmode = 1 /\ LastGain(list, "REPLAYGAIN_ALBUM_GAIN") /= kInvalidDb
    THEN "REPLAYGAIN_ALBUM_GAIN" ELSE "REPLAYGAIN_TRACK_GAIN"

HasGain(list) ==
    params.gainmode /= 0 /\ LastGain(list, GainSource(list)) /= kInvalidDb

Level(list) ==
    LET reference == LastGain(list, "REPLAYGAIN_REFERENCE_LOUDNESS")
    IN  params.gainref + LastGain(list, GainSource(list))
            - (IF reference = kInvalidDb THEN kDefaultGain ELSE reference)

\* What the file and the options ask for. Of several lists of comments, which
\* FLAC does not allow and mp3fs does not refuse, the last one with a gain counts.
LevelOfFile ==
    LET lists == {i \in DOMAIN file.blocks : /\ file.blocks[i].type = "VORBIS_COMMENT"
                                             /\ HasGain(file.blocks[i].comments)}
    IN  IF lists = {} THEN kInvalidDb ELSE Level(file.blocks[Max(lists)].comments)

\* mp3fs.1.md:51-59 for gainmode, and 63-66 for gainref, whatever the order of
\* the ReplayGain comments: LAME is told the level before the samples come. For
\* FLAC, whose stream parameters are set after all blocks (flac_decoder.cc:100),
\* it also encodes with that level.
GainFollowsTheMode ==
    pc = "done" => /\ scale = LevelOfFile
                   /\ file.kind = "flac" => applied = LevelOfFile

\* The same for every file, as mp3fs.1.md:51-59 has it. It does not hold of Ogg
\* Vorbis, where set_stream_params, and in it lame_init_params, comes before the
\* comments are read and set_gain is called (vorbis_decoder.cc:104 and 179).
GainIsApplied == pc = "done" => applied = LevelOfFile

\* The pictures of the file that are whole in a comment.
Whole(comment) == {picture \in Pictures : IsWhole(picture, comment.data)}

\* The ID3 tag has exactly the pictures that are whole in the file, in their
\* order; one that is cut off anywhere, be it by a byte, is left out and takes
\* nothing else with it (picture.cc:34-81, vorbis_decoder.cc:149-169).
PicturesAreTheWholeOnes ==
    pc = "done" =>
        LET given == InOrder(IF file.kind = "flac" THEN PicturePlaces
                             ELSE {place \in Given({"METADATA_BLOCK_PICTURE"}) :
                                        Whole(CommentAt(place)) /= {}})
        IN  tag.pictures =
                [n \in DOMAIN given |->
                    IF file.kind = "flac" THEN file.blocks[given[n][1]].picture
                    ELSE Sole(Whole(CommentAt(given[n])))]
====
