---- MODULE Picture ----
(***************************************************************************)
(* The decoding of a METADATA_BLOCK_PICTURE comment (codecs/picture.cc):   *)
(* its fields follow each other, strings after their lengths, and every    *)
(* length comes from the file.                                             *)
(***************************************************************************)
EXTENDS Naturals, SequencesExt

CONSTANTS
    ByteValues,     \* how many values a byte has, 256 in the code
    WordBytes,      \* the length of a length, 4 in the code
    UnusedBytes     \* kUnusedMetadataBytes, 16 in the code

ASSUME PictureAssumption ==
    ByteValues \in Nat \ {0} /\ WordBytes \in Nat \ {0} /\ UnusedBytes \in Nat

PictureByte == 0..ByteValues - 1

PictureType ==
    [type : Nat, mime : Seq(PictureByte), description : Seq(PictureByte),
     data : Seq(PictureByte)]

\* consume_decode_uint32 at an offset: whether it succeeds, and its value.
HasWord(data, offset) == offset + WordBytes <= Len(data)

Word(data, offset) ==
    LET value[i \in 0..WordBytes] ==
            IF i = 0 THEN 0 ELSE ByteValues * value[i - 1] + data[offset + i]
    IN  value[WordBytes]

\* consume_decode_string: where it leaves data_off_, whether it succeeds, and
\* what it finds.
StringEnd(data, offset) == offset + WordBytes + Word(data, offset)

\* Seeded fault: the last byte of the data is never part of a string.
HasStringBefore(data, offset) ==
    HasWord(data, offset) /\ StringEnd(data, offset) < Len(data)

HasString(data, offset) ==
    HasWord(data, offset) /\ StringEnd(data, offset) <= Len(data)

StringAt(data, offset) ==
    SubSeq(data, offset + WordBytes + 1, StringEnd(data, offset))

\* The pictures (one or none) that data decodes to.
decode(data) ==
    LET mimeAt == WordBytes
        descriptionAt == StringEnd(data, mimeAt)
        dataAt == StringEnd(data, descriptionAt) + UnusedBytes
    IN  IF /\ HasWord(data, 0)
           /\ HasString(data, mimeAt)
           /\ HasString(data, descriptionAt)
           /\ HasString(data, dataAt)
        THEN {[type |-> Word(data, 0), mime |-> StringAt(data, mimeAt),
               description |-> StringAt(data, descriptionAt),
               data |-> StringAt(data, dataAt)]}
        ELSE {}

----
\* The format of a picture block, from its specification: WordBytes digits for
\* the type and before each string; before the data, bytes that mp3fs does not
\* use: what is left of a number when its last digits are taken off one by one
\* gives these digits.
Left(n) ==
    LET left[i \in 0..WordBytes] ==
            IF i = 0 THEN n ELSE left[i - 1] \div ByteValues
    IN  left

WordOf(n) == [i \in 1..WordBytes |-> Left(n)[WordBytes - i] % ByteValues]
FitsWord(n) == Left(n)[WordBytes] = 0

Prefixed(string) == WordOf(Len(string)) \o string

Encoded(picture, unused) ==
    WordOf(picture.type) \o Prefixed(picture.mime) \o Prefixed(picture.description)
        \o unused \o Prefixed(picture.data)

\* A picture with fields of a length that can be written.
Fits(picture) ==
    FitsWord(picture.type) /\ \A string \in {picture.mime, picture.description,
                                             picture.data} : FitsWord(Len(string))

\* The picture is there, before whatever follows.
IsWhole(picture, data) ==
    \E unused \in [1..UnusedBytes -> PictureByte] :
        IsPrefix(Encoded(picture, unused), data)
====
