---- MODULE MCNamespace ----
(***************************************************************************)
(* An instance of Namespace with names that can be taken for each other: a *)
(* longer name with the same beginning, two decoders' extensions, files    *)
(* and links that already have the destination's extension, a directory    *)
(* with a decoder's extension.                                             *)
(***************************************************************************)
EXTENDS Namespace

MCPart == {"a", "b", "live", "flac", "ogg", "mp3", "txt"}
MCDecoderExt == {"flac", "ogg"}

File(n) == [name |-> n, kind |-> "file", target |-> n]
Dir(n) == [name |-> n, kind |-> "dir", target |-> n]
Link(n, to) == [name |-> n, kind |-> "link", target |-> to]

AFlac == <<"a", "flac">>
AOgg == <<"a", "ogg">>
AMp3 == <<"a", "mp3">>
ALiveFlac == <<"a", "live", "flac">>
BOgg == <<"b", "ogg">>
BTxt == <<"b", "txt">>

MCEntries ==
    {File(AFlac), File(AOgg), File(AMp3), File(ALiveFlac), File(BTxt), File(<<"b">>),
     Dir(AOgg), Link(BOgg, AFlac), Link(BTxt, AMp3)}

MCRequests ==
    {AFlac, AMp3, <<"a", "live", "mp3">>, <<"b", "mp3">>, BTxt, AOgg}
====
