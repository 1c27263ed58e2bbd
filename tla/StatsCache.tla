---- MODULE StatsCache ----
(***************************************************************************)
(* The stats cache of stats_cache.cc: the sizes of transcoded files, keyed *)
(* by the name of the source. FUSE threads look sizes up when they open a  *)
(* file and put them in when they have transcoded it. A put that leaves    *)
(* more than statcachesize entries prunes, in three phases: it copies the  *)
(* cache, then removes what is out of date, looking at each file without   *)
(* the lock, then evicts the oldest entries under one lock.                *)
(***************************************************************************)
EXTENDS Integers, FiniteSets

CONSTANTS
    Threads,        \* the FUSE threads
    NoThread,       \* the owner of an unlocked mutex
    Files,          \* the names of source files
    Sizes,          \* sizes of transcoded files
    Mtimes,         \* modification times of source files
    statcachesize,  \* the capacity, in entries
    MaxClock        \* bound on the clock, in seconds

ASSUME StatsCacheAssumption ==
    /\ NoThread \notin Threads
    /\ IsFiniteSet(Files)
    /\ Sizes \subseteq Nat
    /\ Mtimes \subseteq Nat
    /\ statcachesize \in Nat \ {0}
    /\ MaxClock \in Nat

VARIABLES
    cache,      \* cache_: a FileStat for some of the files
    clock,      \* what time(nullptr) returns
    owner,      \* mutex_: the thread that holds it from one step to the next
    pc,         \* per thread, where it is in put_filesize and prune
    arg,        \* per thread, the file and the FileStat it puts
    snapshot,   \* per thread, sorted_entries
    todo,       \* per thread, the files of sorted_entries its loop has not
                \* come to
    refreshed,  \* history, per thread: the files whose entry was given a new
                \* atime by a lookup since the thread's last copy of the cache
                \* and before the end of that prune
    copiedAt    \* history, per thread: when its prune copied the cache

vars == <<cache, clock, owner, pc, arg, snapshot, todo, refreshed, copiedAt>>

FileStat == [size : Sizes, atime : 0..MaxClock, mtime : Mtimes]

\* The maps from some of the files to FileStats.
Caches == UNION {[S -> FileStat] : S \in SUBSET Files}

EmptyCache == [f \in {} |-> 0]

NoArg == [file |-> "none"]

Without(c, f) == [g \in DOMAIN c \ {f} |-> c[g]]

With(c, f, stat) == [g \in DOMAIN c \cup {f} |-> IF g = f THEN stat ELSE c[g]]

Count == Cardinality(DOMAIN cache)

\* Seeded fault: prune is content with one entry too many.
TargetAboveCapacity == statcachesize + 1

\* What prune leaves: 90% of the capacity, in unsigned arithmetic.
target_size == (9 * statcachesize) \div 10

Init ==
    /\ cache = EmptyCache
    /\ clock = 0
    /\ owner = NoThread
    /\ pc = [t \in Threads |-> "idle"]
    /\ arg = [t \in Threads |-> NoArg]
    /\ snapshot = [t \in Threads |-> EmptyCache]
    /\ todo = [t \in Threads |-> {}]
    /\ refreshed = [t \in Threads |-> {}]
    /\ copiedAt = [t \in Threads |-> 0]

Tick ==
    /\ clock < MaxClock
    /\ clock' = clock + 1
    /\ UNCHANGED <<cache, owner, pc, arg, snapshot, todo, refreshed, copiedAt>>

\* The FileStat with the atime of an access now.
update_atime(stat) == [size |-> stat.size, atime |-> clock, mtime |-> stat.mtime]

\* Whether the thread is in a prune that has its copy of the cache.
HasCopy(t) == pc[t] \in {"validate", "remove", "evicting"}

\* The entries for the given files are not those that were refreshed.
NotRefreshed(S) == [u \in Threads |-> refreshed[u] \ S]

\* get_filesize for a file whose decoder saw the given mtime: an entry of an
\* older version is erased, any other is returned and its atime renewed.
GetFilesize(t, f, mtime) ==
    /\ pc[t] = "idle"
    /\ owner = NoThread
    /\ f \in DOMAIN cache
    /\ IF mtime > cache[f].mtime
       THEN /\ cache' = Without(cache, f)
            /\ refreshed' = NotRefreshed({f})
       ELSE /\ cache' = [cache EXCEPT ![f] = update_atime(@)]
            /\ refreshed' = [u \in Threads |->
                    IF HasCopy(u) /\ cache[f].atime /= clock
                    THEN refreshed[u] \cup {f} ELSE refreshed[u]]
    /\ UNCHANGED <<clock, owner, pc, arg, snapshot, todo, copiedAt>>

\* Seeded fault: the new FileStat is stamped a second ahead.
PutStampedAhead(t, f, size, mtime) ==
    /\ pc[t] = "idle"
    /\ arg' = [arg EXCEPT ![t] =
            [file |-> f, stat |-> [size |-> size, atime |-> clock + 1, mtime |-> mtime]]]
    /\ pc' = [pc EXCEPT ![t] = "put"]
    /\ UNCHANGED <<cache, clock, owner, snapshot, todo, refreshed, copiedAt>>

\* put_filesize stamps the new FileStat before it asks for the lock.
PutFilesize(t, f, size, mtime) ==
    /\ pc[t] = "idle"
    /\ arg' = [arg EXCEPT ![t] =
            [file |-> f, stat |-> [size |-> size, atime |-> clock, mtime |-> mtime]]]
    /\ pc' = [pc EXCEPT ![t] = "put"]
    /\ UNCHANGED <<cache, clock, owner, snapshot, todo, refreshed, copiedAt>>

\* Seeded fault: an older version replaces a newer one.
SupersedesAlways(f, mtime) == TRUE

\* Whether an entry with the given mtime may be stored for the file.
Supersedes(f, mtime) == f \notin DOMAIN cache \/ mtime >= cache[f].mtime

\* Seeded fault: a put leaves the pruning to a prune that is under way.
StorePutRelying(t) ==
    /\ pc[t] = "put"
    /\ owner = NoThread
    /\ IF Supersedes(arg[t].file, arg[t].stat.mtime)
       THEN /\ cache' = With(cache, arg[t].file, arg[t].stat)
            /\ refreshed' = NotRefreshed({arg[t].file})
       ELSE UNCHANGED <<cache, refreshed>>
    /\ pc' = [pc EXCEPT ![t] =
            IF /\ Cardinality(DOMAIN cache') > statcachesize
               /\ \A u \in Threads : ~HasCopy(u)
            THEN "copy" ELSE "idle"]
    /\ arg' = [arg EXCEPT ![t] = NoArg]
    /\ UNCHANGED <<clock, owner, snapshot, todo, copiedAt>>

\* The rest of put_filesize, under the lock, up to the call of prune.
StorePut(t) ==
    /\ pc[t] = "put"
    /\ owner = NoThread
    /\ IF Supersedes(arg[t].file, arg[t].stat.mtime)
       THEN /\ cache' = With(cache, arg[t].file, arg[t].stat)
            /\ refreshed' = NotRefreshed({arg[t].file})
       ELSE UNCHANGED <<cache, refreshed>>
    /\ pc' = [pc EXCEPT ![t] =
            IF Cardinality(DOMAIN cache') > statcachesize THEN "copy" ELSE "idle"]
    /\ arg' = [arg EXCEPT ![t] = NoArg]
    /\ UNCHANGED <<clock, owner, snapshot, todo, copiedAt>>

\* prune copies the cache.
CopyEntries(t) ==
    /\ pc[t] = "copy"
    /\ owner = NoThread
    /\ snapshot' = [snapshot EXCEPT ![t] = cache]
    /\ todo' = [todo EXCEPT ![t] = DOMAIN cache]
    /\ pc' = [pc EXCEPT ![t] = "validate"]
    /\ refreshed' = [refreshed EXCEPT ![t] = {}]
    /\ copiedAt' = [copiedAt EXCEPT ![t] = clock]
    /\ UNCHANGED <<cache, clock, owner, arg>>

\* Seeded fault: the entries are sorted with the newest first.
IsNextNewest(t, f) ==
    /\ f \in todo[t]
    /\ \A g \in todo[t] : snapshot[t][f].atime >= snapshot[t][g].atime

\* The next entry of sorted_entries: one with the oldest atime, in the order
\* the sort happened to give to equal ones.
IsNext(t, f) ==
    /\ f \in todo[t]
    /\ \A g \in todo[t] : snapshot[t][f].atime <= snapshot[t][g].atime

\* prune looks at the next file. It may find it gone or modified, whatever the
\* entry says, or find nothing wrong.
Validate(t) ==
    /\ pc[t] = "validate"
    /\ \E f \in todo[t] :
        /\ IsNext(t, f)
        /\ \/ /\ todo' = [todo EXCEPT ![t] = @ \ {f}]
              /\ UNCHANGED <<pc, arg>>
           \/ /\ pc' = [pc EXCEPT ![t] = "remove"]
              /\ arg' = [arg EXCEPT ![t] = [file |-> f]]
              /\ todo' = [todo EXCEPT ![t] = @ \ {f}]
    /\ UNCHANGED <<cache, clock, owner, snapshot, refreshed, copiedAt>>

\* Seeded fault: the entry is removed whatever has become of it.
RemoveEntryUnchecked(f, stat) == IF f \in DOMAIN cache THEN Without(cache, f) ELSE cache

\* The cache without the entry for f, if that entry is the one given.
remove_entry(f, stat) ==
    IF f \in DOMAIN cache /\ cache[f] = stat THEN Without(cache, f) ELSE cache

\* prune removes a file it found out of date.
RemoveInvalid(t) ==
    /\ pc[t] = "remove"
    /\ owner = NoThread
    /\ cache' = remove_entry(arg[t].file, snapshot[t][arg[t].file])
    /\ refreshed' = NotRefreshed(DOMAIN cache \ DOMAIN cache')
    /\ pc' = [pc EXCEPT ![t] = "validate"]
    /\ arg' = [arg EXCEPT ![t] = NoArg]
    /\ UNCHANGED <<clock, owner, snapshot, todo, copiedAt>>

\* All files have been looked at: prune takes the lock for its last loop.
StartEvicting(t) ==
    /\ pc[t] = "validate"
    /\ todo[t] = {}
    /\ owner = NoThread
    /\ owner' = t
    /\ pc' = [pc EXCEPT ![t] = "evicting"]
    /\ todo' = [todo EXCEPT ![t] = DOMAIN snapshot[t]]
    /\ UNCHANGED <<cache, clock, arg, snapshot, refreshed, copiedAt>>

\* One round of that loop.
EvictOldest(t) ==
    /\ pc[t] = "evicting"
    /\ Count > target_size
    /\ \E f \in todo[t] :
        /\ IsNext(t, f)
        /\ cache' = remove_entry(f, snapshot[t][f])
        /\ todo' = [todo EXCEPT ![t] = @ \ {f}]
    /\ refreshed' = NotRefreshed(DOMAIN cache \ DOMAIN cache')
    /\ UNCHANGED <<clock, owner, pc, arg, snapshot, copiedAt>>

\* The loop ends, and put_filesize with it.
FinishPrune(t) ==
    /\ pc[t] = "evicting"
    /\ Count <= target_size \/ todo[t] = {}
    /\ owner' = NoThread
    /\ pc' = [pc EXCEPT ![t] = "idle"]
    /\ snapshot' = [snapshot EXCEPT ![t] = EmptyCache]
    /\ todo' = [todo EXCEPT ![t] = {}]
    /\ copiedAt' = [copiedAt EXCEPT ![t] = 0]
    /\ UNCHANGED <<cache, clock, arg, refreshed>>

\* The steps a thread takes once it has entered put_filesize.
PutStep(t) ==
    \/ StorePut(t)
    \/ CopyEntries(t)
    \/ Validate(t)
    \/ RemoveInvalid(t)
    \/ StartEvicting(t)
    \/ EvictOldest(t)
    \/ FinishPrune(t)

Next ==
    \/ Tick
    \/ \E t \in Threads :
        \/ PutStep(t)
        \/ \E f \in Files, mtime \in Mtimes :
            \/ GetFilesize(t, f, mtime)
            \/ \E size \in Sizes : PutFilesize(t, f, size, mtime)

Spec == Init /\ [][Next]_vars

\* A thread that has entered put_filesize runs on, and is not kept waiting for a
\* lock that stays free. (It may lose the lock to others again and again.)
FairSpec == Spec /\ \A t \in Threads : WF_vars(PutStep(t))

----
\* Every variable has its type.
TypeOK ==
    /\ cache \in Caches
    /\ clock \in 0..MaxClock
    /\ owner \in Threads \cup {NoThread}
    /\ pc \in [Threads -> {"idle", "put", "copy", "validate", "remove", "evicting"}]
    /\ \A t \in Threads :
        /\ pc[t] = "put" => arg[t] \in [file : Files, stat : FileStat]
        /\ pc[t] = "remove" => arg[t] \in [file : DOMAIN snapshot[t]]
    /\ DOMAIN arg = Threads
    /\ snapshot \in [Threads -> Caches]
    /\ DOMAIN todo = Threads
    /\ \A t \in Threads : todo[t] \subseteq DOMAIN snapshot[t]
    /\ refreshed \in [Threads -> SUBSET Files]
    /\ copiedAt \in [Threads -> 0..MaxClock]

OverCapacity == Count > statcachesize

\* The prune of t can still evict f: its copy has the entry as it is.
CanEvict(t, f) ==
    /\ f \in DOMAIN snapshot[t]
    /\ snapshot[t][f] = cache[f]
    /\ pc[t] = "evicting" => f \in todo[t]

\* The prune of t is going to bring the cache down to its target, but for
\* the entries that lookups have renewed under it.
Relieves(t) ==
    \/ pc[t] = "copy"
    \/ HasCopy(t) /\ \A f \in DOMAIN cache : f \in refreshed[t] \/ CanEvict(t, f)

\* When the cache is beyond its capacity, some thread is in a prune that will
\* relieve it, or every single entry was looked up during the last prune of
\* one thread: two puts never leave the pruning to each other
\* (stats_cache.cc:78-82, 114-136).
ExcessIsRelieved ==
    OverCapacity =>
        \E t \in Threads : Relieves(t) \/ DOMAIN cache \subseteq refreshed[t]

\* A prune does not remove an entry that was put or looked up after the prune
\* copied the cache, in a later second (remove_entry, stats_cache.cc:139-150).
PruneSparesNewEntries ==
    [][\A t \in Threads : RemoveInvalid(t) \/ EvictOldest(t) =>
        \A f \in DOMAIN cache \ DOMAIN cache' :
            cache[f].atime <= copiedAt[t]]_vars

\* Entries are evicted in the order of their last use: of those that nobody
\* has touched since prune copied the cache, none that stays is older than
\* one that goes (mp3fs.1.md:119, stats_cache.cc:99-103, 128-136).
EvictsLeastRecentlyUsed ==
    [][\A t \in Threads : EvictOldest(t) =>
        \A f \in DOMAIN cache \ DOMAIN cache', g \in DOMAIN cache' :
            g \in DOMAIN snapshot[t] /\ cache[g] = snapshot[t][g]
                => cache[f].atime <= cache[g].atime]_vars

\* An excess does not last, unless lookups renewed every entry during a prune:
\* a prune that others disturb leaves the rest to the prunes of the others.
ExcessIsTransient ==
    OverCapacity ~> \/ ~OverCapacity
                    \/ \E t \in Threads : DOMAIN cache \subseteq refreshed[t]

Forgetful == INSTANCE ForgetfulCache WITH
    known <- [f \in Files |->
                IF f \in DOMAIN cache
                THEN [size |-> cache[f].size, mtime |-> cache[f].mtime]
                ELSE [size |-> -1, mtime |-> -1]]

\* Whatever threads look up, put and prune at the same time, each file has no
\* entry or the one published for its latest version.
ImplementsForgetfulCache == Forgetful!CacheSpec
====
