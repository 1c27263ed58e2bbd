---- MODULE Namespace ----
(***************************************************************************)
(* How names under the mount point lead to files of the source directory:  *)
(* path.cc and the operations of fuseops.cc that take a path, for one call *)
(* at a time (the calls share nothing but the directory) while others      *)
(* change the directory between its system calls. A name is the sequence   *)
(* of its parts between dots: "a.live.flac" is <<"a", "live", "flac">>.    *)
(* All names are in one directory, which is small enough that opendir and  *)
(* the readdirs of one call see one state of it (one getdents).            *)
(***************************************************************************)
EXTENDS Naturals, SequencesExt

CONSTANTS
    Part,           \* what can stand between the dots of a name
    DecoderExt,     \* the extensions that CreateDecoder knows
    desttype,       \* params.desttype, "mp3"
    Entries,        \* the directory entries that may exist
    Requests,       \* the names the application uses
    MaxEntries      \* bound on the size of the directory

Name == Seq(Part) \ {<<>>}

\* An entry of the source directory; target is for symbolic links.
EntryType == [name : Name, kind : {"file", "dir", "link"}, target : Name]

ASSUME NamespaceAssumption ==
    /\ DecoderExt \subseteq Part
    /\ desttype \in Part \ DecoderExt
    /\ Entries \subseteq EntryType
    /\ Requests \subseteq Name
    /\ \A e, link \in Entries :
        link.kind = "link" /\ link.target = e.name => e.kind /= "link"
    /\ MaxEntries \in Nat

VARIABLES
    exists,         \* whether the directory does
    directory,      \* the entries, in the order in which readdir returns them
    pc,             \* the next system call of the operation, "idle" without one,
                    \* "crashed" when the program is no more
    op,             \* the operation under way, or the last one
    name,           \* its path
    found,          \* what transcode_source returned
    listing,        \* readdir: the entries it has not come to
    answer,         \* what the operation has returned, or has made of it so far
    present,        \* history: the entries that were there all through the call
    distinct,       \* history: those that were unambiguous all the time, too
    absent          \* history: whether all the time nothing was there to lead to

vars == <<exists, directory, pc, op, name, found, listing, answer, present, distinct,
          absent>>

\* Whether CreateDecoder makes a decoder for the extension of a name.
HasDecoder(n) == Len(n) > 1 /\ Last(n) \in DecoderExt

\* Seeded fault: the dot before the extension is put twice.
ConvertWithTwoDots(n) ==
    IF HasDecoder(n) THEN Front(n) \o <<"", desttype>> ELSE n

\* The name under which a file or link is listed.
convert_extension(n) == IF HasDecoder(n) THEN Append(Front(n), desttype) ELSE n

\* Whether a name ends in the destination extension.
IsDestination(n) == Len(n) > 1 /\ Last(n) = desttype

\* Entry e can be the source of what is asked for as n.
IsSourceOf(e, n) ==
    IsDestination(n) /\ HasDecoder(e.name) /\ IsStrictPrefix(Front(n), e.name)

\* Seeded fault: an entry's extension need not have a decoder.
SourceOfAnyExtension(dir, n) ==
    LET hits == {i \in DOMAIN dir :
                    IsDestination(n) /\ IsStrictPrefix(Front(n), dir[i].name)}
    IN  IF hits = {} THEN n
        ELSE dir[CHOOSE i \in hits : \A j \in hits : i <= j].name

\* The source path for a name of the destination type: the first entry that
\* can be its source. Any other name, and one without a source, is unchanged.
transcode_source(dir, n) ==
    LET hits == {i \in DOMAIN dir : IsSourceOf(dir[i], n)}
    IN  IF hits = {} THEN n
        ELSE dir[CHOOSE i \in hits : \A j \in hits : i <= j].name

\* The entries (one or none) that lstat and open, which follows links, find.
LStat(dir, n) == {e \in ToSet(dir) : e.name = n}

Followed(dir, n) ==
    {e \in ToSet(dir) : /\ e.kind /= "link"
                        /\ \E link \in LStat(dir, n) :
                            e.name = IF link.kind = "link" THEN link.target ELSE n}

\* The name under which an entry is listed.
Shown(e) == IF e.kind = "dir" THEN e.name ELSE convert_extension(e.name)

\* No other entry can be taken for e when the name under which e is listed is
\* used: none has this name, and none is another source for it.
Unambiguous(dir, e) ==
    \A d \in ToSet(dir) \ {e} :
        d.name /= Shown(e) /\ ~IsSourceOf(d, Shown(e))

\* Nothing in the directory has the name n or is a source for it.
NothingFor(dir, n) == \A e \in ToSet(dir) : e.name /= n /\ ~IsSourceOf(e, n)

Failed(error) == [status |-> error]
\* What lstat says of e, and the name of the file whose size goes with it: with
\* the size of the transcoded file, it is the source's name.
Attributes(e, sized) ==
    [status |-> "ok", kind |-> e.kind, of |-> e.name, size |-> sized]
Opened(reader, n) == [status |-> "ok", reader |-> reader, of |-> n]
FileSystemOf(n) == [status |-> "ok", filesystemOf |-> n]
LinkText(n) == [status |-> "ok", text |-> n]
Listing(names) == [status |-> "ok", names |-> names]

Init ==
    /\ exists = TRUE
    /\ directory = <<>>
    /\ pc = "idle"
    /\ op = "none"
    /\ name \in Requests
    /\ found = name
    /\ listing = <<>>
    /\ answer = Failed("none")
    /\ present = {}
    /\ distinct = {}
    /\ absent = TRUE

----
\* The source directory changes to dir, at any time.
Change(dir) ==
    /\ directory' = dir
    /\ present' = present \cap ToSet(dir)
    /\ distinct' = {e \in distinct \cap ToSet(dir) : Unambiguous(dir, e)}
    /\ absent' = (absent /\ NothingFor(dir, name))
    /\ UNCHANGED <<exists, pc, op, name, found, listing, answer>>

Create ==
    /\ exists
    /\ Len(directory) < MaxEntries
    /\ \E e \in Entries, i \in 1..Len(directory) + 1 :
        LStat(directory, e.name) = {} /\ Change(InsertAt(directory, i, e))

Delete == \E i \in DOMAIN directory : Change(RemoveAt(directory, i))

\* rename(): the entry takes another name, in place of the one that had it.
Rename ==
    \E i \in DOMAIN directory, new \in Entries :
        LET old == directory[i]
            rest == RemoveAt(directory, i)
            Enter(dir) == \E k \in 1..Len(dir) + 1 : Change(InsertAt(dir, k, new))
        IN  /\ new.name /= old.name
            /\ new.kind = old.kind
            /\ new.kind = "link" => new.target = old.target
            /\ \/ LStat(rest, new.name) = {} /\ Enter(rest)
               \/ \E j \in DOMAIN rest :
                    /\ rest[j].name = new.name
                    /\ rest[j].kind /= "dir" /\ old.kind /= "dir"
                    /\ Enter(RemoveAt(rest, j))

\* The empty directory is removed, or made again.
RemoveDirectory ==
    /\ directory = <<>>
    /\ exists' = ~exists
    /\ UNCHANGED <<directory, pc, op, name, found, listing, answer, present, distinct,
                   absent>>

\* FUSE calls an operation. (The kernel knows the directory from a lookup that may
\* be a second old.) readlink looks for a source at once, the others
\* try the path as it is first.
Begin(o, n) ==
    /\ pc = "idle"
    /\ op' = o
    /\ name' = n
    /\ found' = n
    /\ pc' = CASE o = "readdir" -> "opendir"
               [] o = "readlink" -> "scan"
               [] OTHER -> "normal"
    /\ answer' = Failed("pending")
    /\ present' = ToSet(directory)
    /\ distinct' = {e \in ToSet(directory) : Unambiguous(directory, e)}
    /\ absent' = NothingFor(directory, n)
    /\ UNCHANGED <<exists, directory, listing>>

\* A system call of operation o at its step s.
At(o, s) == op = o /\ pc = s

Return(a) == pc' = "idle" /\ answer' = a
GoTo(s) == pc' = s /\ answer' = answer

LStatNormal ==
    /\ At("getattr", "normal")
    /\ IF LStat(directory, name) = {} THEN GoTo("scan")
       ELSE \E e \in LStat(directory, name) : Return(Attributes(e, e.name))
    /\ UNCHANGED <<exists, directory, op, name, found, listing, present, distinct,
                   absent>>

\* Seeded fault: open looks for a source at once.
OpenSourceFirst ==
    /\ At("open", "normal")
    /\ GoTo("scan")
    /\ UNCHANGED <<exists, directory, op, name, found, listing, present, distinct,
                   absent>>

OpenNormal ==
    /\ At("open", "normal")
    /\ IF Followed(directory, name) = {} THEN GoTo("scan")
       ELSE \E e \in Followed(directory, name) : Return(Opened("file", e.name))
    /\ UNCHANGED <<exists, directory, op, name, found, listing, present, distinct,
                   absent>>

StatNormal ==
    /\ At("statfs", "normal")
    /\ IF Followed(directory, name) = {} THEN GoTo("scan")
       ELSE Return(FileSystemOf(name))
    /\ UNCHANGED <<exists, directory, op, name, found, listing, present, distinct,
                   absent>>

\* transcode_source, in the operation's first call of it or in the second one
\* that getattr makes.
Scan ==
    /\ pc \in {"scan", "rescan"}
    /\ exists \/ ~IsDestination(name)
    /\ found' = transcode_source(directory, name)
    /\ GoTo(IF pc = "scan" THEN "found" ELSE "transcode")
    /\ UNCHANGED <<exists, directory, op, name, listing, present, distinct, absent>>

\* opendir fails, and transcode_source passes its null result to readdir.
ScanCrashes ==
    /\ pc \in {"scan", "rescan"}
    /\ ~exists
    /\ IsDestination(name)
    /\ pc' = "crashed"
    /\ answer' = Failed("crash")
    /\ UNCHANGED <<exists, directory, op, name, found, listing, present, distinct,
                   absent>>

\* Seeded fault: the text of the link is not converted.
ReadlinkRaw ==
    /\ At("readlink", "found")
    /\ IF LStat(directory, found) = {} THEN Return(Failed("ENOENT"))
       ELSE \E e \in LStat(directory, found) :
                Return(IF e.kind = "link" THEN LinkText(e.target)
                       ELSE Failed("EINVAL"))
    /\ UNCHANGED <<exists, directory, op, name, found, listing, present, distinct,
                   absent>>

ReadlinkFound ==
    /\ At("readlink", "found")
    /\ IF LStat(directory, found) = {} THEN Return(Failed("ENOENT"))
       ELSE \E e \in LStat(directory, found) :
                Return(IF e.kind = "link" THEN LinkText(convert_extension(e.target))
                       ELSE Failed("EINVAL"))
    /\ UNCHANGED <<exists, directory, op, name, found, listing, present, distinct,
                   absent>>

\* What is not a regular file has the attributes that lstat found.
LStatFound ==
    /\ At("getattr", "found")
    /\ IF LStat(directory, found) = {} THEN Return(Failed("ENOENT"))
       ELSE \E e \in LStat(directory, found) :
                /\ answer' = Attributes(e, e.name)
                /\ pc' = IF e.kind = "file" THEN "rescan" ELSE "idle"
    /\ UNCHANGED <<exists, directory, op, name, found, listing, present, distinct,
                   absent>>

\* Transcoder::open opens the file for its decoder, if there is one. (Files
\* with a decoder's extension are intact.)
Transcodable(n) ==
    HasDecoder(n) /\ \E e \in Followed(directory, n) : e.kind = "file"

\* The size in stbuf becomes that of the transcoded file.
GetTranscodedSize ==
    /\ At("getattr", "transcode")
    /\ Return(IF Transcodable(found) THEN [answer EXCEPT !.size = found]
              ELSE Failed("EIO"))
    /\ UNCHANGED <<exists, directory, op, name, found, listing, present, distinct,
                   absent>>

OpenTranscoder ==
    /\ At("open", "found")
    /\ Return(IF Transcodable(found) THEN Opened("transcoder", found)
              ELSE Failed("EIO"))
    /\ UNCHANGED <<exists, directory, op, name, found, listing, present, distinct,
                   absent>>

\* Seeded fault: statfs fails with the error of an open.
StatFoundEIO ==
    /\ At("statfs", "found")
    /\ Return(IF Followed(directory, found) = {} THEN Failed("EIO")
              ELSE FileSystemOf(found))
    /\ UNCHANGED <<exists, directory, op, name, found, listing, present, distinct,
                   absent>>

StatFound ==
    /\ At("statfs", "found")
    /\ Return(IF Followed(directory, found) = {} THEN Failed("ENOENT")
              ELSE FileSystemOf(found))
    /\ UNCHANGED <<exists, directory, op, name, found, listing, present, distinct,
                   absent>>

OpenDir ==
    /\ pc = "opendir"
    /\ IF exists
       THEN listing' = directory /\ answer' = Listing({}) /\ pc' = "list"
       ELSE listing' = <<>> /\ Return(Failed("ENOENT"))
    /\ UNCHANGED <<exists, directory, op, name, found, present, distinct, absent>>

\* Seeded fault: the listing ends where an entry is gone.
ListNextStopping ==
    /\ pc = "list"
    /\ listing /= <<>>
    /\ LET seen == LStat(directory, Head(listing).name)
       IN  IF seen = {} THEN listing' = <<>> /\ Return(answer)
           ELSE \E e \in seen :
                /\ listing' = Tail(listing)
                /\ answer' = Listing(answer.names
                                \cup {[name |-> Shown(e), kind |-> e.kind]})
                /\ pc' = pc
    /\ UNCHANGED <<exists, directory, op, name, found, present, distinct, absent>>

\* lstat of the next entry, which may be gone; then filler gets its name.
ListNext ==
    /\ pc = "list"
    /\ listing /= <<>>
    /\ LET seen == LStat(directory, Head(listing).name)
       IN  IF seen = {} THEN listing' = <<>> /\ Return(Failed("ENOENT"))
           ELSE \E e \in seen :
                /\ listing' = Tail(listing)
                /\ answer' = Listing(answer.names
                                \cup {[name |-> Shown(e), kind |-> e.kind]})
                /\ pc' = pc
    /\ UNCHANGED <<exists, directory, op, name, found, present, distinct, absent>>

ListEnd ==
    /\ pc = "list"
    /\ listing = <<>>
    /\ Return(answer)
    /\ UNCHANGED <<exists, directory, op, name, found, listing, present, distinct,
                   absent>>

Next ==
    \/ Create
    \/ Delete
    \/ Rename
    \/ RemoveDirectory
    \/ \E o \in {"getattr", "open", "readlink", "statfs"}, n \in Requests : Begin(o, n)
    \/ Begin("readdir", name)
    \/ LStatNormal
    \/ OpenNormal
    \/ StatNormal
    \/ Scan
    \/ ScanCrashes
    \/ ReadlinkFound
    \/ LStatFound
    \/ GetTranscodedSize
    \/ OpenTranscoder
    \/ StatFound
    \/ OpenDir
    \/ ListNext
    \/ ListEnd

Spec == Init /\ [][Next]_vars

----
AttributesType ==
    [status : {"ok"}, kind : {"file", "dir", "link"}, of : Name, size : Name]
ListingType ==
    [status : {"ok"}, names : SUBSET [name : Name, kind : {"file", "dir", "link"}]]

AnswerType ==
    {Failed(error) : error \in {"none", "pending", "ENOENT", "EINVAL", "EIO",
                               "crash"}}
    \cup AttributesType
    \cup [status : {"ok"}, reader : {"file", "transcoder"}, of : Name]
    \cup [status : {"ok"}, filesystemOf : Name]
    \cup [status : {"ok"}, text : Name]
    \cup ListingType

\* Every variable has its type, and no two entries have one name.
TypeOK ==
    /\ exists \in BOOLEAN
    /\ directory \in Seq(Entries)
    /\ directory /= <<>> => exists
    /\ \A i, j \in DOMAIN directory :
        directory[i].name = directory[j].name => i = j
    /\ pc \in {"idle", "normal", "scan", "found", "rescan", "transcode", "opendir",
               "list", "crashed"}
    /\ op \in {"none", "getattr", "open", "readlink", "statfs", "readdir"}
    /\ name \in Requests
    /\ found \in Name
    /\ listing \in Seq(Entries)
    /\ answer \in AnswerType
    /\ distinct \subseteq present /\ present \subseteq ToSet(directory)

\* A name under which an entry is listed leads to that entry, whatever else
\* appears, disappears or is renamed during the call, as long as nothing that
\* is there at any moment can be taken for it: getattr and open translate the
\* name back to the one it was made from (fuseops.cc:55-64, path.cc:36-62).
ListedNameLeadsToItsEntry ==
    pc = "idle" => \A e \in distinct : name = Shown(e) =>
        /\ op = "getattr" => answer = Attributes(e, e.name)
        /\ op = "open" /\ e.kind = "file" =>
            answer = Opened(IF HasDecoder(e.name) THEN "transcoder" ELSE "file",
                            e.name)
        /\ op = "statfs" /\ e.kind /= "link" => answer = FileSystemOf(e.name)

\* The text of a link to a file is the name under which that file is listed, so
\* that following it stays inside the mount (fuseops.cc:66-81).
LinksLeadToListedNames ==
    pc = "idle" /\ op = "readlink" =>
        \A link \in distinct, e \in present :
            /\ name = Shown(link)
            /\ link.kind = "link"
            /\ e.kind = "file"
            /\ e.name = link.target
            => answer = LinkText(Shown(e))

\* An entry that is there all the time is reached under its own name, as it is,
\* whatever sources for that name come and go (fuseops.cc:125-128, 155-160).
PassThroughWins ==
    pc = "idle" => \A e \in present : name = e.name =>
        /\ op = "getattr" => answer = Attributes(e, e.name)
        /\ op = "open" /\ e.kind = "file" => answer = Opened("file", e.name)
        /\ op = "statfs" /\ e.kind /= "link" => answer = FileSystemOf(e.name)

\* Where nothing was at any moment of the call, lookups that return say that there
\* is nothing, and open fails: no operation makes up an entry from errors of its
\* own or from what else is there (fuseops.cc:72, 130-132, 207-210). That holds
\* when the directory itself is gone, too, but then a call does not return if it
\* has to scan the directory: it crashes, where path.h:44-47 has it go on with the
\* name itself. Only names of the destination type make it scan (path.cc:42-46).
NothingComesOfNothing ==
    absent =>
        /\ pc = "idle" =>
            /\ op \in {"getattr", "readlink", "statfs"} => answer = Failed("ENOENT")
            /\ op = "open" => answer = Failed("EIO")
        /\ pc = "crashed" => IsDestination(name)

\* A listing that succeeds has everything that was there all the time, under
\* the name and with the kind that getattr knows it by (fuseops.cc:99-116).
ListingIsComplete ==
    pc = "idle" /\ op = "readdir" /\ answer.status = "ok" =>
        \A e \in present : [name |-> Shown(e), kind |-> e.kind] \in answer.names
====
