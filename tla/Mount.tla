---- MODULE Mount ----
(***************************************************************************)
(* The transcoders of a mount and the stats cache they share, over sources *)
(* that are modified. A transcoder belongs to a call of getattr or to an   *)
(* open file. It takes the mtime of its source from the descriptor that it *)
(* reads (fstat in open_file), asks the cache for the size of that version *)
(* (Transcoder::open), and puts the size it comes to if it is read to the  *)
(* end (Transcoder::finish). The cache is that of StatsCache, with a prune *)
(* that looks at the sources as they are then.                             *)
(***************************************************************************)
EXTENDS StatsCache

CONSTANTS
    Transcoders,        \* the objects of class Transcoder
    Versions,           \* per file, the mtimes that its versions have
    TrueSize,           \* per file and mtime, the size of the version transcoded in
                        \* full, and the size that calculate_size foresees for it,
    ForeseenSize,       \* which may be too large or too small
    MaxDamaged          \* bound on the passes that lose some of the source

\* No size is told, or none is known yet.
NoSize == 0

ASSUME MountAssumption ==
    /\ NoSize \notin Sizes
    /\ Versions \in [Files -> SUBSET Mtimes]
    /\ TrueSize \in [Files -> [Mtimes -> Sizes]]
    /\ ForeseenSize \in [Files -> [Mtimes -> Sizes]]
    /\ MaxDamaged \in Nat

VARIABLES
    disk,       \* per file, the mtime of its version in the source directory
    trans,      \* per transcoder, its file, the version it has open, and
                \* the size that the cache told it
    damaged     \* history: the versions of which some pass was damaged

mountVars == <<disk, trans, damaged>>
allVars == <<vars, mountVars>>

Closed == [state |-> "closed"]

MountInit ==
    /\ Init
    /\ disk \in [Files -> Mtimes]
    /\ \A f \in Files : disk[f] \in Versions[f]
    /\ trans = [x \in Transcoders |-> Closed]
    /\ damaged = {}

\* Somebody replaces a source: who has it open keeps the old version. A source
\* never gets an older mtime, nor another content with the same one.
Modify(f) ==
    /\ \E mtime \in Versions[f] :
        /\ mtime > disk[f]
        /\ disk' = [disk EXCEPT ![f] = mtime]
    /\ UNCHANGED <<vars, trans, damaged>>

Idle(t) == pc[t] = "idle"

\* open_file: fopen, and fstat of what it opened.
open_file(x, f) ==
    /\ trans[x] = Closed
    /\ trans' = [trans EXCEPT ![x] =
            [state |-> "opened", file |-> f, mtime |-> disk[f], told |-> NoSize]]
    /\ UNCHANGED <<vars, disk, damaged>>

Told(f, mtime) ==
    IF f \in DOMAIN cache /\ mtime <= cache[f].mtime THEN cache[f].size ELSE NoSize

\* The rest of Transcoder::open: the size in the cache goes to render_tag.
open(t, x) ==
    /\ Idle(t)
    /\ owner = NoThread
    /\ trans[x].state = "opened"
    /\ LET f == trans[x].file
           mtime == trans[x].mtime
       IN  /\ \/ GetFilesize(t, f, mtime)
              \/ f \notin DOMAIN cache /\ UNCHANGED vars
           /\ trans' = [trans EXCEPT ![x].state = "ready", ![x].told = Told(f, mtime)]
    /\ UNCHANGED <<disk, damaged>>

\* What a pass over the whole source comes to. It starts with the size from the
\* cache, or else the one that the encoder foresees. If that is long enough, finish
\* corrects it to the true size; if not, the stream is cut there, and only what LAME
\* returns at the flush is appended.
Reached(f, mtime, told) ==
    LET true == TrueSize[f][mtime]
        start == IF told = NoSize THEN ForeseenSize[f][mtime] ELSE told
    IN  IF start >= true THEN {true} ELSE {s \in Sizes : start <= s /\ s <= true}

\* A pass that lost some of the source comes to anything below what it should.
ReachedDamaged(f, mtime) == {s \in Sizes : s < TrueSize[f][mtime]}

\* The size that x comes to is put, with the given mtime.
PutReached(t, x, mtime) ==
    LET f == trans[x].file
        version == trans[x].mtime
    IN  \/ /\ \E size \in Reached(f, version, trans[x].told) : PutFilesize(t, f, size, mtime)
           /\ UNCHANGED damaged
        \/ /\ Cardinality(damaged) < MaxDamaged
           /\ \E size \in ReachedDamaged(f, version) : PutFilesize(t, f, size, mtime)
           /\ damaged' = damaged \cup {<<f, version>>}

\* Seeded fault: the mtime is that of the source when x is done with it.
FinishWithMtimeNow(t, x) ==
    /\ trans[x].state = "ready"
    /\ PutReached(t, x, disk[trans[x].file])
    /\ trans' = [trans EXCEPT ![x] = Closed]
    /\ UNCHANGED disk

\* The last read of x, which finishes it. What comes after does not concern the
\* cache, and x may as well be closed.
finish(t, x) ==
    /\ trans[x].state = "ready"
    /\ PutReached(t, x, trans[x].mtime)
    /\ trans' = [trans EXCEPT ![x] = Closed]
    /\ UNCHANGED disk

\* getattr is done, or open has failed, or release comes before the end.
Destroy(x) ==
    /\ trans[x] /= Closed
    /\ trans' = [trans EXCEPT ![x] = Closed]
    /\ UNCHANGED <<vars, disk, damaged>>

\* What prune finds when it looks at a file.
OutOfDate(t, f) == disk[f] > snapshot[t][f].mtime

Prune(t) ==
    /\ PutStep(t)
    /\ Validate(t) =>
        \A f \in todo[t] \ todo'[t] : (pc'[t] = "remove") <=> OutOfDate(t, f)
    /\ UNCHANGED mountVars

MountNext ==
    \/ Tick /\ UNCHANGED mountVars
    \/ \E f \in Files : Modify(f)
    \/ \E x \in Transcoders :
        \/ \E f \in Files : open_file(x, f)
        \/ \E t \in Threads : open(t, x) \/ finish(t, x)
        \/ Destroy(x)
    \/ \E t \in Threads : Prune(t)

MountSpec == MountInit /\ [][MountNext]_allVars

----
\* A size for a version that intact passes can have come to: the true one, or, only
\* where calculate_size foresees too little, one from that to the true one.
IsRight(f, mtime, size) ==
    \/ size = TrueSize[f][mtime]
    \/ ForeseenSize[f][mtime] <= size /\ size < TrueSize[f][mtime]

\* The size that the cache tells for the version of a source that is there now is
\* the true one, if its size is foreseen long enough, whatever transcoders of this
\* and of earlier versions do at the same time, and whatever prune forgets; if it
\* is foreseen too short (mp3_encoder.cc:300, flac_decoder.cc:100), what is told is
\* no shorter than that and never too long. Only a pass over this very version that
\* lost some of it leaves anything else (transcode.cc:79-81, 132-153,
\* stats_cache.cc:45, 73). A transcoder that has an earlier version open may be
\* told the size of a later one.
CurrentSizesAreRight ==
    \A x \in Transcoders :
        /\ trans[x].state = "ready"
        /\ trans[x].told /= NoSize
        /\ trans[x].mtime = disk[trans[x].file]
        => \/ IsRight(trans[x].file, trans[x].mtime, trans[x].told)
           \/ <<trans[x].file, trans[x].mtime>> \in damaged

\* What prune removes as out of date is an entry of a version that is gone, also
\* when a later version was transcoded between its look at the file and the
\* removal (stats_cache.cc:114-126, 144-150).
RemovedIsOutOfDate ==
    [][\A t \in Threads : RemoveInvalid(t) =>
        \A f \in DOMAIN cache \ DOMAIN cache' : cache[f].mtime < disk[f]]_allVars
====
