---- MODULE RegularFile ----
(***************************************************************************)
(* The file an application believes it reads: fixed content, and reads     *)
(* that each return the slice they ask for, cut at the end of the file.    *)
(* This is FileReader of reader.h, a pread() on a file that does not       *)
(* change, and the promise Transcoder makes for a file that is not there.  *)
(***************************************************************************)
EXTENDS Integers, Sequences

CONSTANTS
    Readers,    \* the FUSE threads that read one open file
    Offsets,    \* the offsets they ask for
    Lengths     \* the lengths they ask for

VARIABLES
    content,    \* the bytes of the file
    isOpen,     \* whether a handle on it is open
    reading,    \* per reader, whether a read() call of it is under way
    request,    \* per reader, the offset and length of its last call
    result      \* per reader, what its last call returned

fileVars == <<content, isOpen, reading, request, result>>

NoRequest == [offset |-> 0, length |-> 0]
Pending == [status |-> "pending", data |-> <<>>]
Ok(data) == [status |-> "ok", data |-> data]
IoError == [status |-> "EIO", data |-> <<>>]

\* What pread returns: as much of the range as the file has.
Slice(offset, length) ==
    LET end == IF offset + length <= Len(content) THEN offset + length
               ELSE Len(content)
    IN  SubSeq(content, offset + 1, end)

Idle == \A r \in Readers : ~reading[r]

FileInit ==
    /\ isOpen = FALSE
    /\ reading = [r \in Readers |-> FALSE]
    /\ request = [r \in Readers |-> NoRequest]
    /\ result = [r \in Readers |-> Pending]

OpenFile ==
    /\ ~isOpen
    /\ isOpen' = TRUE
    /\ UNCHANGED <<content, reading, request, result>>

Call(r) ==
    /\ isOpen
    /\ ~reading[r]
    /\ reading' = [reading EXCEPT ![r] = TRUE]
    /\ \E offset \in Offsets, length \in Lengths :
        request' = [request EXCEPT ![r] = [offset |-> offset, length |-> length]]
    /\ result' = [result EXCEPT ![r] = Pending]
    /\ UNCHANGED <<content, isOpen>>

\* A failed pread changes nothing: the next one may succeed.
Return(r) ==
    /\ reading[r]
    /\ reading' = [reading EXCEPT ![r] = FALSE]
    /\ \E answer \in {Ok(Slice(request[r].offset, request[r].length)), IoError} :
        result' = [result EXCEPT ![r] = answer]
    /\ UNCHANGED <<content, isOpen, request>>

\* release() deletes the FileReader, which closes its descriptor.
CloseFile ==
    /\ isOpen
    /\ Idle
    /\ isOpen' = FALSE
    /\ request' = [r \in Readers |-> NoRequest]
    /\ result' = [r \in Readers |-> Pending]
    /\ UNCHANGED <<content, reading>>

FileNext ==
    \/ OpenFile
    \/ CloseFile
    \/ \E r \in Readers : Call(r) \/ Return(r)

FileSpec == FileInit /\ [][FileNext]_fileVars
====
