---- MODULE MountProofs ----
(***************************************************************************)
(* Theorems about StatsCache and Mount, for any number of threads, files,  *)
(* versions, transcoders and entries. First those about the cache by       *)
(* itself: its mutual exclusion and its bounds, then what a step of it     *)
(* does, what prune removes, and that it keeps the promise of              *)
(* ForgetfulCache. Then those about the cache of a mount.                  *)
(***************************************************************************)
EXTENDS Mount, FiniteSetTheorems, TLAPS


\* A cache is a map from some files to FileStats.
LEMMA CachesMember ==
    \A c : c \in Caches <=> /\ DOMAIN c \subseteq Files
                            /\ c \in [DOMAIN c -> FileStat]
BY DEF Caches

\* The three ways an entry changes make caches of caches.
LEMMA CacheUpdates ==
    ASSUME NEW c \in Caches, NEW f \in Files
    PROVE  /\ Without(c, f) \in Caches
           /\ \A stat \in FileStat : With(c, f, stat) \in Caches
           /\ \A stat \in FileStat :
                f \in DOMAIN c => [c EXCEPT ![f] = stat] \in Caches
<1>1. Without(c, f) \in Caches
  BY CachesMember DEF Without
<1>2. ASSUME NEW stat \in FileStat PROVE With(c, f, stat) \in Caches
  BY CachesMember DEF With
<1>3. ASSUME NEW stat \in FileStat, f \in DOMAIN c
      PROVE  [c EXCEPT ![f] = stat] \in Caches
  <2>1. c \in [DOMAIN c -> FileStat] /\ DOMAIN c \subseteq Files
    BY CachesMember
  <2>2. [c EXCEPT ![f] = stat] \in [DOMAIN c -> FileStat]
    BY <1>3, <2>1
  <2> QED BY <2>1, <2>2, CachesMember
<1> QED BY <1>1, <1>2, <1>3

\* Removing an entry conditionally makes a smaller cache.
LEMMA RemoveEntryType ==
    ASSUME cache \in Caches, NEW f \in Files, NEW stat
    PROVE  /\ remove_entry(f, stat) \in Caches
           /\ DOMAIN remove_entry(f, stat) \subseteq DOMAIN cache
           /\ \A g \in DOMAIN remove_entry(f, stat) :
                remove_entry(f, stat)[g] = cache[g]
BY CacheUpdates DEF remove_entry, Without

LEMMA EmptyCacheType == EmptyCache \in Caches /\ DOMAIN EmptyCache = {}
<1>1. DOMAIN EmptyCache = {} /\ EmptyCache \in [{} -> FileStat]
  BY DEF EmptyCache
<1> QED BY <1>1, CachesMember

\* What a lookup stores has the type of a FileStat.
LEMMA UpdateAtimeType ==
    ASSUME NEW stat \in FileStat, clock \in 0..MaxClock
    PROVE  update_atime(stat) \in FileStat
BY DEF update_atime, FileStat

LEMMA RefreshedType ==
    ASSUME refreshed \in [Threads -> SUBSET Files], NEW S
    PROVE  NotRefreshed(S) \in [Threads -> SUBSET Files]
BY DEF NotRefreshed

----
LEMMA InitType == Init => TypeOK
BY EmptyCacheType, StatsCacheAssumption DEF Init, TypeOK, NoArg

\* Every step keeps the types.
LEMMA NextType == TypeOK /\ [Next]_vars => TypeOK'
<1> SUFFICES ASSUME TypeOK, [Next]_vars PROVE TypeOK'
  OBVIOUS
<1> USE StatsCacheAssumption
<1>1. CASE UNCHANGED vars
  BY <1>1 DEF TypeOK, vars
<1>2. CASE Tick
  BY <1>2 DEF TypeOK, Tick
<1>3. ASSUME NEW t \in Threads, NEW f \in Files, NEW mtime \in Mtimes,
             GetFilesize(t, f, mtime)
      PROVE  TypeOK'
  <2>1. cache \in Caches /\ f \in DOMAIN cache /\ cache[f] \in FileStat
    BY <1>3, CachesMember DEF TypeOK, GetFilesize
  <2>2. cache' \in Caches
    BY <1>3, <2>1, CacheUpdates, UpdateAtimeType DEF TypeOK, GetFilesize
  <2>3. refreshed' \in [Threads -> SUBSET Files]
    BY <1>3, RefreshedType DEF TypeOK, GetFilesize
  <2> QED BY <1>3, <2>2, <2>3 DEF TypeOK, GetFilesize
<1>4. ASSUME NEW t \in Threads, NEW f \in Files, NEW size \in Sizes,
             NEW mtime \in Mtimes, PutFilesize(t, f, size, mtime)
      PROVE  TypeOK'
  <2> DEFINE a == [file |-> f,
                   stat |-> [size |-> size, atime |-> clock, mtime |-> mtime]]
  <2>1. a \in [file : Files, stat : FileStat]
    BY DEF TypeOK, FileStat
  <2>2. /\ arg' = [arg EXCEPT ![t] = a]
        /\ pc' = [pc EXCEPT ![t] = "put"]
        /\ UNCHANGED <<cache, clock, owner, snapshot, todo, refreshed, copiedAt>>
    BY <1>4 DEF PutFilesize
  <2> QED BY <2>1, <2>2 DEF TypeOK
<1>5. ASSUME NEW t \in Threads, StorePut(t) PROVE TypeOK'
  <2>1. arg[t] \in [file : Files, stat : FileStat]
    BY <1>5 DEF TypeOK, StorePut
  <2>2. cache' \in Caches
    BY <1>5, <2>1, CacheUpdates DEF TypeOK, StorePut
  <2>3. refreshed' \in [Threads -> SUBSET Files]
    BY <1>5, RefreshedType DEF TypeOK, StorePut
  <2>4. pc' \in [Threads -> {"idle", "put", "copy", "validate", "remove", "evicting"}]
        /\ pc'[t] \in {"copy", "idle"}
    BY <1>5 DEF TypeOK, StorePut
  <2>5. /\ DOMAIN arg' = Threads
        /\ \A u \in Threads : u /= t => arg'[u] = arg[u] /\ pc'[u] = pc[u]
        /\ UNCHANGED <<clock, owner, snapshot, todo, copiedAt>>
    BY <1>5 DEF TypeOK, StorePut
  <2> QED BY <2>2, <2>3, <2>4, <2>5 DEF TypeOK
<1>6. ASSUME NEW t \in Threads, CopyEntries(t) PROVE TypeOK'
  BY <1>6 DEF TypeOK, CopyEntries
<1>7. ASSUME NEW t \in Threads, Validate(t) PROVE TypeOK'
  BY <1>7 DEF TypeOK, Validate
<1>8. ASSUME NEW t \in Threads, RemoveInvalid(t) PROVE TypeOK'
  <2>1. arg[t].file \in DOMAIN snapshot[t] /\ snapshot[t] \in Caches
    BY <1>8 DEF TypeOK, RemoveInvalid
  <2>2. cache' \in Caches
    BY <1>8, <2>1, RemoveEntryType, CachesMember DEF TypeOK, RemoveInvalid
  <2>3. refreshed' \in [Threads -> SUBSET Files]
    BY <1>8, RefreshedType DEF TypeOK, RemoveInvalid
  <2> QED BY <1>8, <2>2, <2>3 DEF TypeOK, RemoveInvalid
<1>9. ASSUME NEW t \in Threads, StartEvicting(t) PROVE TypeOK'
  BY <1>9 DEF TypeOK, StartEvicting
<1>10. ASSUME NEW t \in Threads, EvictOldest(t) PROVE TypeOK'
  <2>1. PICK f \in todo[t] :
            /\ cache' = remove_entry(f, snapshot[t][f])
            /\ todo' = [todo EXCEPT ![t] = @ \ {f}]
    BY <1>10 DEF EvictOldest
  <2>2. f \in DOMAIN snapshot[t] /\ snapshot[t] \in Caches
    BY DEF TypeOK
  <2>3. cache' \in Caches
    BY <2>1, <2>2, RemoveEntryType, CachesMember DEF TypeOK
  <2>4. refreshed' \in [Threads -> SUBSET Files]
    BY <1>10, RefreshedType DEF TypeOK, EvictOldest
  <2> QED BY <1>10, <2>1, <2>3, <2>4 DEF TypeOK, EvictOldest
<1>11. ASSUME NEW t \in Threads, FinishPrune(t) PROVE TypeOK'
  BY <1>11, EmptyCacheType DEF TypeOK, FinishPrune
<1> QED
  BY <1>1, <1>2, <1>3, <1>4, <1>5, <1>6, <1>7, <1>8, <1>9, <1>10, <1>11
     DEF Next, PutStep

\* The variables keep their types: in particular what a prune still has to do
\* is part of its copy of the cache.
THEOREM StatsCacheTypeCorrect == Spec => []TypeOK
BY InitType, NextType, PTL DEF Spec

----
\* A cache that has lost entries was over capacity before if it is now.
LEMMA ShrunkStillOver ==
    ASSUME TypeOK, DOMAIN cache' \subseteq DOMAIN cache, OverCapacity'
    PROVE  OverCapacity
<1>1. IsFiniteSet(DOMAIN cache)
  BY CachesMember, FS_Subset, StatsCacheAssumption DEF TypeOK
<1>2. /\ Cardinality(DOMAIN cache) \in Nat
      /\ Cardinality(DOMAIN cache') \in Nat
      /\ Cardinality(DOMAIN cache') <= Cardinality(DOMAIN cache)
  BY <1>1, FS_Subset, FS_CardinalityType
<1> QED BY <1>2, StatsCacheAssumption DEF OverCapacity, Count

\* A step that removes entries, changes none of the others, and leaves the
\* thread t at its place in its prune, keeps what t is going to do.
LEMMA ShrinkKeepsRelief ==
    ASSUME NEW t \in Threads,
           DOMAIN cache' \subseteq DOMAIN cache,
           \A f \in DOMAIN cache' : cache'[f] = cache[f],
           \A f \in DOMAIN cache' : f \in refreshed[t] => f \in refreshed'[t]
    PROVE  /\ Relieves(t) /\ pc'[t] = pc[t] /\ snapshot' = snapshot /\ todo'[t] = todo[t]
                => Relieves(t)'
           /\ DOMAIN cache \subseteq refreshed[t]
                => DOMAIN cache' \subseteq refreshed'[t]
BY DEF Relieves, CanEvict, HasCopy

\* prune's target is not above the capacity.
LEMMA TargetWithinCapacity == target_size \in Nat /\ target_size <= statcachesize
BY StatsCacheAssumption DEF target_size

LEMMA InitExcess == Init => ExcessIsRelieved
<1> SUFFICES ASSUME Init PROVE ~OverCapacity
  BY DEF ExcessIsRelieved
<1>1. DOMAIN cache = {}
  BY EmptyCacheType DEF Init
<1>2. Count = 0
  BY <1>1, FS_EmptySet DEF Count
<1> QED BY <1>2, StatsCacheAssumption DEF OverCapacity

\* Every step keeps it. The thread that relieves the cache goes on to do so,
\* or has done so, or the step is a put that takes over.
LEMMA NextExcess == TypeOK /\ ExcessIsRelieved /\ [Next]_vars => ExcessIsRelieved'
<1> SUFFICES ASSUME TypeOK, ExcessIsRelieved, [Next]_vars, OverCapacity'
             PROVE  \E t \in Threads :
                        Relieves(t)' \/ (DOMAIN cache \subseteq refreshed[t])'
  BY DEF ExcessIsRelieved
<1>1. CASE UNCHANGED vars \/ Tick
  <2>1. UNCHANGED <<cache, pc, snapshot, todo, refreshed>>
    BY <1>1 DEF vars, Tick
  <2>2. OverCapacity
    BY <2>1 DEF OverCapacity, Count
  <2> QED BY <2>1, <2>2 DEF ExcessIsRelieved, Relieves, CanEvict, HasCopy
<1>2. ASSUME NEW u \in Threads, NEW f \in Files, NEW mtime \in Mtimes,
             GetFilesize(u, f, mtime)
      PROVE  \E t \in Threads :
                 Relieves(t)' \/ (DOMAIN cache \subseteq refreshed[t])'
  <2>0. UNCHANGED <<pc, snapshot, todo>> /\ f \in DOMAIN cache
    BY <1>2 DEF GetFilesize
  <2>1. CASE mtime > cache[f].mtime
    <3>1. /\ DOMAIN cache' = DOMAIN cache \ {f}
          /\ \A g \in DOMAIN cache' : cache'[g] = cache[g]
          /\ \A t \in Threads : refreshed'[t] = refreshed[t] \ {f}
      BY <1>2, <2>1 DEF GetFilesize, Without, NotRefreshed
    <3>2. PICK t \in Threads : Relieves(t) \/ DOMAIN cache \subseteq refreshed[t]
      BY <3>1, ShrunkStillOver DEF ExcessIsRelieved
    <3> QED BY <2>0, <3>1, <3>2, ShrinkKeepsRelief
  <2>2. CASE ~(mtime > cache[f].mtime)
    <3>1. /\ cache' = [cache EXCEPT ![f] = update_atime(@)]
          /\ \A t \in Threads :
                refreshed'[t] = IF HasCopy(t) /\ cache[f].atime /= clock
                                THEN refreshed[t] \cup {f} ELSE refreshed[t]
      BY <1>2, <2>2 DEF GetFilesize
    <3>2. DOMAIN cache' = DOMAIN cache
      BY <3>1
    <3>3. PICK t \in Threads : Relieves(t) \/ DOMAIN cache \subseteq refreshed[t]
      BY <3>2, ShrunkStillOver DEF ExcessIsRelieved
    <3>4. refreshed[t] \subseteq refreshed'[t]
      BY <3>1
    <3>5. CASE DOMAIN cache \subseteq refreshed[t]
      BY <3>2, <3>4, <3>5
    <3>6. CASE pc[t] = "copy"
      BY <2>0, <3>6 DEF Relieves
    <3>7. CASE HasCopy(t) /\ \A g \in DOMAIN cache : g \in refreshed[t] \/ CanEvict(t, g)
      <4>1. ASSUME NEW g \in DOMAIN cache', g \notin refreshed'[t]
            PROVE  CanEvict(t, g)'
        <5>1. CanEvict(t, g)
          BY <3>2, <3>4, <3>7, <4>1
        <5>2. CASE g /= f
          <6>1. cache'[g] = cache[g]
            BY <3>1, <5>2
          <6> QED BY <2>0, <5>1, <6>1 DEF CanEvict
        <5>3. CASE g = f
          <6>1. cache[f].atime = clock
            BY <3>1, <3>7, <4>1, <5>3
          <6>2. cache[f] \in FileStat
            BY <2>0, CachesMember DEF TypeOK
          <6>3. update_atime(cache[f]) = cache[f]
            BY <6>1, <6>2 DEF update_atime, FileStat
          <6>4. cache'[g] = cache[g]
            BY <2>0, <3>1, <5>3, <6>3
          <6> QED BY <2>0, <5>1, <6>4 DEF CanEvict
        <5> QED BY <5>2, <5>3
      <4> QED BY <2>0, <3>7, <4>1 DEF Relieves, HasCopy
    <3> QED BY <3>3, <3>5, <3>6, <3>7 DEF Relieves
  <2> QED BY <2>1, <2>2
<1>3. ASSUME NEW u \in Threads, NEW f \in Files, NEW size \in Sizes,
             NEW mtime \in Mtimes, PutFilesize(u, f, size, mtime)
      PROVE  \E t \in Threads :
                 Relieves(t)' \/ (DOMAIN cache \subseteq refreshed[t])'
  <2>1. /\ pc[u] = "idle"
        /\ pc' = [pc EXCEPT ![u] = "put"]
        /\ UNCHANGED <<cache, snapshot, todo, refreshed>>
    BY <1>3 DEF PutFilesize
  <2>2. PICK t \in Threads : Relieves(t) \/ DOMAIN cache \subseteq refreshed[t]
    BY <2>1 DEF ExcessIsRelieved, OverCapacity, Count
  <2>3. Relieves(t) => t /= u
    BY <2>1 DEF Relieves, HasCopy
  <2> QED BY <2>1, <2>2, <2>3 DEF TypeOK, Relieves, CanEvict, HasCopy
<1>4. ASSUME NEW u \in Threads, StorePut(u)
      PROVE  \E t \in Threads :
                 Relieves(t)' \/ (DOMAIN cache \subseteq refreshed[t])'
  <2>1. pc'[u] = "copy"
    BY <1>4, StatsCacheAssumption DEF StorePut, OverCapacity, Count, TypeOK
  <2> QED BY <2>1 DEF Relieves
<1>5. ASSUME NEW u \in Threads, CopyEntries(u)
      PROVE  \E t \in Threads :
                 Relieves(t)' \/ (DOMAIN cache \subseteq refreshed[t])'
  <2>1. /\ snapshot'[u] = cache
        /\ pc'[u] = "validate"
        /\ cache' = cache
    BY <1>5 DEF CopyEntries, TypeOK
  <2> QED BY <2>1 DEF Relieves, CanEvict, HasCopy
<1>6. ASSUME NEW u \in Threads, Validate(u)
      PROVE  \E t \in Threads :
                 Relieves(t)' \/ (DOMAIN cache \subseteq refreshed[t])'
  <2>1. /\ pc[u] = "validate"
        /\ pc'[u] \in {"validate", "remove"}
        /\ \A t \in Threads : t /= u => pc'[t] = pc[t] /\ todo'[t] = todo[t]
        /\ UNCHANGED <<cache, snapshot, refreshed>>
    BY <1>6 DEF Validate, TypeOK
  <2>2. PICK t \in Threads : Relieves(t) \/ DOMAIN cache \subseteq refreshed[t]
    BY <2>1 DEF ExcessIsRelieved, OverCapacity, Count
  <2> QED BY <2>1, <2>2 DEF Relieves, CanEvict, HasCopy
<1>7. ASSUME NEW u \in Threads, RemoveInvalid(u)
      PROVE  \E t \in Threads :
                 Relieves(t)' \/ (DOMAIN cache \subseteq refreshed[t])'
  <2>1. arg[u].file \in Files
    BY <1>7, CachesMember DEF RemoveInvalid, TypeOK
  <2>2. /\ DOMAIN cache' \subseteq DOMAIN cache
        /\ \A g \in DOMAIN cache' : cache'[g] = cache[g]
    BY <1>7, <2>1, RemoveEntryType DEF RemoveInvalid, TypeOK
  <2>3. \A t \in Threads, g \in DOMAIN cache' : g \in refreshed[t] => g \in refreshed'[t]
    BY <1>7 DEF RemoveInvalid, NotRefreshed
  <2>4. /\ pc[u] = "remove"
        /\ pc'[u] = "validate"
        /\ \A t \in Threads : t /= u => pc'[t] = pc[t]
        /\ UNCHANGED <<snapshot, todo>>
    BY <1>7 DEF RemoveInvalid, TypeOK
  <2>5. PICK t \in Threads : Relieves(t) \/ DOMAIN cache \subseteq refreshed[t]
    BY <2>2, ShrunkStillOver DEF ExcessIsRelieved
  <2>6. CASE t /= u \/ ~Relieves(t)
    BY <2>2, <2>3, <2>4, <2>5, <2>6, ShrinkKeepsRelief
  <2>7. CASE t = u /\ Relieves(u)
    BY <2>2, <2>3, <2>4, <2>7 DEF Relieves, CanEvict, HasCopy
  <2> QED BY <2>6, <2>7
<1>8. ASSUME NEW u \in Threads, StartEvicting(u)
      PROVE  \E t \in Threads :
                 Relieves(t)' \/ (DOMAIN cache \subseteq refreshed[t])'
  <2>1. /\ pc[u] = "validate"
        /\ pc'[u] = "evicting"
        /\ todo'[u] = DOMAIN snapshot[u]
        /\ \A t \in Threads : t /= u => pc'[t] = pc[t] /\ todo'[t] = todo[t]
        /\ UNCHANGED <<cache, snapshot, refreshed>>
    BY <1>8 DEF StartEvicting, TypeOK
  <2>2. PICK t \in Threads : Relieves(t) \/ DOMAIN cache \subseteq refreshed[t]
    BY <2>1 DEF ExcessIsRelieved, OverCapacity, Count
  <2> QED BY <2>1, <2>2 DEF Relieves, CanEvict, HasCopy
<1>9. ASSUME NEW u \in Threads, EvictOldest(u)
      PROVE  \E t \in Threads :
                 Relieves(t)' \/ (DOMAIN cache \subseteq refreshed[t])'
  <2>1. PICK f \in todo[u] :
            /\ cache' = remove_entry(f, snapshot[u][f])
            /\ todo' = [todo EXCEPT ![u] = @ \ {f}]
    BY <1>9 DEF EvictOldest
  <2>2. f \in Files
    BY CachesMember DEF TypeOK
  <2>3. /\ DOMAIN cache' \subseteq DOMAIN cache
        /\ \A g \in DOMAIN cache' : cache'[g] = cache[g]
    BY <2>1, <2>2, RemoveEntryType DEF TypeOK
  <2>4. \A t \in Threads, g \in DOMAIN cache' : g \in refreshed[t] => g \in refreshed'[t]
    BY <1>9 DEF EvictOldest, NotRefreshed
  <2>5. /\ pc[u] = "evicting"
        /\ UNCHANGED <<pc, snapshot>>
        /\ todo'[u] = todo[u] \ {f}
        /\ \A t \in Threads : t /= u => todo'[t] = todo[t]
    BY <1>9, <2>1 DEF EvictOldest, TypeOK
  <2>6. PICK t \in Threads : Relieves(t) \/ DOMAIN cache \subseteq refreshed[t]
    BY <2>3, ShrunkStillOver DEF ExcessIsRelieved
  <2>7. CASE t /= u \/ ~Relieves(t)
    BY <2>3, <2>4, <2>5, <2>6, <2>7, ShrinkKeepsRelief
  <2>8. CASE t = u /\ Relieves(u)
    <3>1. f \in DOMAIN cache' => cache[f] /= snapshot[u][f]
      BY <2>1, <2>3 DEF remove_entry, Without
    <3>2. ASSUME NEW g \in DOMAIN cache', g \notin refreshed'[u]
          PROVE  CanEvict(u, g)'
      <4>1. CanEvict(u, g)
        BY <2>3, <2>4, <2>5, <2>8, <3>2 DEF Relieves
      <4>2. g /= f
        BY <3>1, <4>1 DEF CanEvict
      <4> QED BY <2>3, <2>5, <4>1, <4>2 DEF CanEvict
    <3> QED BY <2>5, <2>8, <3>2 DEF Relieves, HasCopy
  <2> QED BY <2>7, <2>8
<1>10. ASSUME NEW u \in Threads, FinishPrune(u)
       PROVE  \E t \in Threads :
                 Relieves(t)' \/ (DOMAIN cache \subseteq refreshed[t])'
  <2>1. /\ pc[u] = "evicting"
        /\ \A t \in Threads : t /= u =>
                /\ pc'[t] = pc[t]
                /\ todo'[t] = todo[t]
                /\ snapshot'[t] = snapshot[t]
        /\ UNCHANGED <<cache, refreshed>>
    BY <1>10 DEF FinishPrune, TypeOK
  <2>2. OverCapacity
    BY <2>1 DEF OverCapacity, Count
  <2>3. PICK t \in Threads : Relieves(t) \/ DOMAIN cache \subseteq refreshed[t]
    BY <2>2 DEF ExcessIsRelieved
  <2>4. CASE t = u /\ Relieves(u)
    <3>1. IsFiniteSet(DOMAIN cache)
      BY CachesMember, FS_Subset, StatsCacheAssumption DEF TypeOK
    <3>2. ~(Count <= target_size)
      BY <2>2, <3>1, FS_CardinalityType, TargetWithinCapacity, StatsCacheAssumption
         DEF OverCapacity, Count
    <3>3. todo[u] = {}
      BY <1>10, <3>2 DEF FinishPrune
    <3>4. DOMAIN cache \subseteq refreshed[u]
      BY <2>1, <2>4, <3>3 DEF Relieves, CanEvict
    <3> QED BY <2>1, <3>4
  <2>5. CASE t /= u \/ ~Relieves(t)
    BY <2>1, <2>3, <2>5 DEF Relieves, CanEvict, HasCopy
  <2> QED BY <2>4, <2>5
<1> QED
  BY <1>1, <1>2, <1>3, <1>4, <1>5, <1>6, <1>7, <1>8, <1>9, <1>10
     DEF Next, PutStep

\* A cache beyond its capacity is never left alone: some thread is in a prune
\* that relieves it, or lookups have renewed every entry during one prune.
THEOREM ExcessAlwaysRelieved == Spec => []ExcessIsRelieved
<1>1. Init => TypeOK /\ ExcessIsRelieved
  BY InitType, InitExcess
<1>2. TypeOK /\ ExcessIsRelieved /\ [Next]_vars => (TypeOK /\ ExcessIsRelieved)'
  BY NextType, NextExcess
<1> QED BY <1>1, <1>2, PTL DEF Spec

----
(* What the steps do.                                                      *)


\* No entry, and none that is about to be put, was accessed in the future.
StampsArePast ==
    /\ \A f \in DOMAIN cache : cache[f].atime <= clock
    /\ \A t \in Threads : pc[t] = "put" => arg[t].stat.atime <= clock

\* No entry of a copy was accessed after it was made.
CopiesArePast ==
    \A t \in Threads : HasCopy(t) =>
        \A f \in DOMAIN snapshot[t] : snapshot[t][f].atime <= copiedAt[t]

\* A thread that evicts holds the lock, and the entries that it has come to are
\* not there any more as they were.
EvictionsLast ==
    \A t \in Threads : pc[t] = "evicting" =>
        /\ owner = t
        /\ \A f \in DOMAIN snapshot[t] \ todo[t] :
            ~(f \in DOMAIN cache /\ cache[f] = snapshot[t][f])

PruneInv == TypeOK /\ StampsArePast /\ CopiesArePast /\ EvictionsLast

\* What remove_entry takes away is the entry it is given.
LEMMA RemovedIsGiven ==
    ASSUME NEW f, NEW stat, cache' = remove_entry(f, stat)
    PROVE  /\ DOMAIN cache' \subseteq DOMAIN cache
           /\ \A g \in DOMAIN cache' : cache'[g] = cache[g]
           /\ \A g \in DOMAIN cache \ DOMAIN cache' : g = f /\ cache[g] = stat
           /\ ~(f \in DOMAIN cache' /\ cache'[f] = stat)
BY DEF remove_entry, Without

LEMMA InitPrune == Init => PruneInv
BY InitType, EmptyCacheType DEF Init, PruneInv, StampsArePast, CopiesArePast, EvictionsLast,
   HasCopy

\* A step that makes no entry and no put keeps the stamps.
LEMMA NextStamps ==
    PruneInv /\ [Next]_vars => StampsArePast'
<1> SUFFICES ASSUME PruneInv, [Next]_vars PROVE StampsArePast'
  OBVIOUS
<1> USE DEF PruneInv
<1>0. clock \in Int
  BY StatsCacheAssumption DEF TypeOK
<1>1. CASE UNCHANGED vars
  BY <1>1 DEF StampsArePast, vars
<1>2. CASE Tick
  <2>1. clock' = clock + 1 /\ UNCHANGED <<cache, pc, arg>>
    BY <1>2 DEF Tick
  <2>2. ASSUME NEW f \in DOMAIN cache PROVE cache[f].atime <= clock'
    <3>1. cache[f] \in FileStat
      BY CachesMember DEF TypeOK
    <3>2. cache[f].atime \in Int /\ cache[f].atime <= clock
      BY <3>1, StatsCacheAssumption DEF FileStat, StampsArePast
    <3> QED BY <1>0, <2>1, <3>2
  <2>3. ASSUME NEW t \in Threads, pc[t] = "put" PROVE arg[t].stat.atime <= clock'
    <3>1. arg[t].stat \in FileStat
      BY <2>3 DEF TypeOK
    <3>2. arg[t].stat.atime \in Int /\ arg[t].stat.atime <= clock
      BY <2>3, <3>1, StatsCacheAssumption DEF FileStat, StampsArePast
    <3> QED BY <1>0, <2>1, <3>2
  <2> QED BY <2>1, <2>2, <2>3 DEF StampsArePast
<1>3. ASSUME NEW t \in Threads, NEW f \in Files, NEW mtime \in Mtimes,
             GetFilesize(t, f, mtime)
      PROVE  StampsArePast'
  <2>1. UNCHANGED <<clock, pc, arg>>
    BY <1>3 DEF GetFilesize
  <2>2. \A g \in DOMAIN cache' : \/ cache'[g] = cache[g] /\ g \in DOMAIN cache
                                \/ cache'[g].atime = clock
    BY <1>3 DEF GetFilesize, Without, update_atime
  <2> QED BY <1>0, <2>1, <2>2 DEF StampsArePast
<1>4. ASSUME NEW t \in Threads, NEW f \in Files, NEW size \in Sizes,
             NEW mtime \in Mtimes, PutFilesize(t, f, size, mtime)
      PROVE  StampsArePast'
  <2>1. /\ UNCHANGED <<clock, cache>>
        /\ \A u \in Threads : pc'[u] = "put" =>
              \/ pc[u] = "put" /\ arg'[u] = arg[u]
              \/ arg'[u].stat.atime = clock
    BY <1>4 DEF PutFilesize, TypeOK
  <2> QED BY <1>0, <2>1 DEF StampsArePast
<1>5. ASSUME NEW t \in Threads, StorePut(t) PROVE StampsArePast'
  <2>1. /\ UNCHANGED clock
        /\ pc[t] = "put"
        /\ \A u \in Threads : pc'[u] = "put" => pc[u] = "put" /\ arg'[u] = arg[u]
    BY <1>5 DEF StorePut, TypeOK
  <2>2. \A g \in DOMAIN cache' : \/ cache'[g] = cache[g] /\ g \in DOMAIN cache
                                \/ cache'[g] = arg[t].stat
    BY <1>5 DEF StorePut, With
  <2> QED BY <2>1, <2>2 DEF StampsArePast
<1>6. ASSUME NEW t \in Threads,
             CopyEntries(t) \/ Validate(t) \/ StartEvicting(t) \/ FinishPrune(t)
      PROVE  StampsArePast'
  <2>1. /\ UNCHANGED <<clock, cache>>
        /\ \A u \in Threads : pc'[u] = "put" => pc[u] = "put" /\ arg'[u] = arg[u]
    BY <1>6 DEF CopyEntries, Validate, StartEvicting, FinishPrune, TypeOK
  <2> QED BY <2>1 DEF StampsArePast
<1>7. ASSUME NEW t \in Threads, RemoveInvalid(t) PROVE StampsArePast'
  <2>1. /\ UNCHANGED clock
        /\ \A u \in Threads : pc'[u] = "put" => pc[u] = "put" /\ arg'[u] = arg[u]
    BY <1>7 DEF RemoveInvalid, TypeOK
  <2>2. cache' = remove_entry(arg[t].file, snapshot[t][arg[t].file])
    BY <1>7 DEF RemoveInvalid
  <2> QED BY <2>1, <2>2, RemovedIsGiven DEF StampsArePast
<1>8. ASSUME NEW t \in Threads, EvictOldest(t) PROVE StampsArePast'
  <2>1. UNCHANGED <<clock, pc, arg>>
    BY <1>8 DEF EvictOldest
  <2>2. PICK f \in todo[t] : cache' = remove_entry(f, snapshot[t][f])
    BY <1>8 DEF EvictOldest
  <2> QED BY <2>1, <2>2, RemovedIsGiven DEF StampsArePast
<1> QED
  BY <1>1, <1>2, <1>3, <1>4, <1>5, <1>6, <1>7, <1>8 DEF Next, PutStep

\* A copy is made with the clock that it is compared with, and not changed.
LEMMA NextCopies ==
    PruneInv /\ [Next]_vars => CopiesArePast'
<1> SUFFICES ASSUME PruneInv, [Next]_vars, NEW t \in Threads, HasCopy(t)'
             PROVE  \A f \in DOMAIN snapshot'[t] : snapshot'[t][f].atime <= copiedAt'[t]
  BY DEF CopiesArePast
<1> USE DEF PruneInv
<1>1. CASE UNCHANGED <<snapshot, copiedAt, pc>>
  BY <1>1 DEF CopiesArePast, HasCopy
<1>2. ASSUME NEW u \in Threads, CopyEntries(u)
      PROVE  \A f \in DOMAIN snapshot'[t] : snapshot'[t][f].atime <= copiedAt'[t]
  <2>1. CASE u = t
    <3>1. snapshot'[t] = cache /\ copiedAt'[t] = clock
      BY <1>2, <2>1 DEF CopyEntries, TypeOK
    <3> QED BY <3>1 DEF StampsArePast
  <2>2. CASE u /= t
    <3>1. snapshot'[t] = snapshot[t] /\ copiedAt'[t] = copiedAt[t] /\ pc'[t] = pc[t]
      BY <1>2, <2>2 DEF CopyEntries, TypeOK
    <3> QED BY <3>1 DEF CopiesArePast, HasCopy
  <2> QED BY <2>1, <2>2
<1>3. ASSUME NEW u \in Threads, FinishPrune(u)
      PROVE  \A f \in DOMAIN snapshot'[t] : snapshot'[t][f].atime <= copiedAt'[t]
  <2>1. u /= t
    BY <1>3 DEF FinishPrune, TypeOK, HasCopy
  <2>2. snapshot'[t] = snapshot[t] /\ copiedAt'[t] = copiedAt[t] /\ pc'[t] = pc[t]
    BY <1>3, <2>1 DEF FinishPrune, TypeOK
  <2> QED BY <2>2 DEF CopiesArePast, HasCopy
<1>4. ASSUME NEW u \in Threads,
             \/ Validate(u) \/ RemoveInvalid(u) \/ StartEvicting(u)
             \/ EvictOldest(u) \/ StorePut(u)
             \/ \E f \in Files, mtime \in Mtimes : GetFilesize(u, f, mtime)
             \/ \E f \in Files, mtime \in Mtimes, size \in Sizes :
                    PutFilesize(u, f, size, mtime)
      PROVE  \A f \in DOMAIN snapshot'[t] : snapshot'[t][f].atime <= copiedAt'[t]
  <2>1. UNCHANGED <<snapshot, copiedAt>>
    BY <1>4 DEF Validate, RemoveInvalid, StartEvicting, EvictOldest, StorePut, GetFilesize,
                PutFilesize
  <2>2. HasCopy(t)
    BY <1>4 DEF Validate, RemoveInvalid, StartEvicting, EvictOldest, StorePut, GetFilesize,
                PutFilesize, TypeOK, HasCopy
  <2> QED BY <2>1, <2>2 DEF CopiesArePast
<1> QED
  BY <1>1, <1>2, <1>3, <1>4 DEF Next, PutStep, vars, Tick

\* While a thread evicts, no other changes the cache.
LEMMA NextEvictions ==
    PruneInv /\ [Next]_vars => EvictionsLast'
<1> SUFFICES ASSUME PruneInv, [Next]_vars, NEW t \in Threads, pc'[t] = "evicting"
             PROVE  /\ owner' = t
                    /\ \A f \in DOMAIN snapshot'[t] \ todo'[t] :
                        ~(f \in DOMAIN cache' /\ cache'[f] = snapshot'[t][f])
  BY DEF EvictionsLast
<1> DEFINE Goal == /\ owner' = t
                   /\ \A f \in DOMAIN snapshot'[t] \ todo'[t] :
                        ~(f \in DOMAIN cache' /\ cache'[f] = snapshot'[t][f])
<1> USE StatsCacheAssumption DEF PruneInv
<1>1. CASE /\ pc[t] = "evicting"
           /\ UNCHANGED <<cache, owner>>
           /\ snapshot'[t] = snapshot[t]
           /\ todo'[t] = todo[t]
  BY <1>1 DEF EvictionsLast
<1>2. ASSUME NEW u \in Threads, owner = NoThread, pc'[t] = pc[t] \/ u = t,
             pc'[u] /= "evicting"
      PROVE  FALSE
  BY <1>2 DEF EvictionsLast
<1>3. ASSUME NEW u \in Threads,
             \/ StorePut(u) \/ CopyEntries(u) \/ RemoveInvalid(u)
             \/ \E f \in Files, mtime \in Mtimes : GetFilesize(u, f, mtime)
      PROVE  Goal
  <2>1. owner = NoThread /\ (pc'[t] = pc[t] \/ u = t) /\ pc'[u] /= "evicting"
    BY <1>3 DEF StorePut, CopyEntries, RemoveInvalid, GetFilesize, TypeOK
  <2> QED BY <1>2, <2>1
<1>4. ASSUME NEW u \in Threads,
             \/ Validate(u)
             \/ \E f \in Files, mtime \in Mtimes, size \in Sizes :
                    PutFilesize(u, f, size, mtime)
      PROVE  Goal
  <2>1. /\ UNCHANGED <<cache, owner, snapshot>>
        /\ u /= t
        /\ pc'[t] = pc[t] /\ todo'[t] = todo[t]
    BY <1>4 DEF Validate, PutFilesize, TypeOK
  <2> QED BY <1>1, <2>1
<1>5. ASSUME NEW u \in Threads, StartEvicting(u) PROVE Goal
  <2>1. CASE u = t
    <3>1. owner' = t /\ todo'[t] = DOMAIN snapshot'[t]
      BY <1>5, <2>1 DEF StartEvicting, TypeOK
    <3> QED BY <3>1
  <2>2. CASE u /= t
    <3>1. owner = NoThread /\ pc[t] = "evicting"
      BY <1>5, <2>2 DEF StartEvicting, TypeOK
    <3> QED BY <3>1 DEF EvictionsLast
  <2> QED BY <2>1, <2>2
<1>6. ASSUME NEW u \in Threads, EvictOldest(u) PROVE Goal
  <2>1. UNCHANGED <<pc, owner, snapshot>> /\ pc[u] = "evicting"
    BY <1>6 DEF EvictOldest
  <2>2. u = t /\ owner' = t
    BY <2>1 DEF EvictionsLast
  <2>3. PICK f \in todo[t] : /\ cache' = remove_entry(f, snapshot[t][f])
                            /\ todo' = [todo EXCEPT ![t] = @ \ {f}]
    BY <1>6, <2>2 DEF EvictOldest
  <2>4. todo'[t] = todo[t] \ {f}
    BY <2>3 DEF TypeOK
  <2>5. ASSUME NEW g \in DOMAIN snapshot[t] \ todo'[t], g \in DOMAIN cache',
               cache'[g] = snapshot[t][g]
        PROVE  FALSE
    BY <2>1, <2>2, <2>3, <2>4, <2>5, RemovedIsGiven DEF EvictionsLast
  <2> QED BY <2>1, <2>2, <2>5
<1>7. ASSUME NEW u \in Threads, FinishPrune(u) PROVE Goal
  <2>1. pc[u] = "evicting" /\ u /= t /\ pc[t] = "evicting"
    BY <1>7 DEF FinishPrune, TypeOK
  <2> QED BY <2>1 DEF EvictionsLast
<1>8. CASE UNCHANGED vars \/ Tick
  BY <1>1, <1>8 DEF vars, Tick
<1> QED
  BY <1>3, <1>4, <1>5, <1>6, <1>7, <1>8 DEF Next, PutStep

LEMMA NextPrune == PruneInv /\ [Next]_vars => PruneInv'
BY NextType, NextStamps, NextCopies, NextEvictions DEF PruneInv

\* A prune removes no entry that was put or looked up after it copied the cache,
\* in a later second: it removes only what is as it was in its copy.
THEOREM NewEntriesSpared == Spec => PruneSparesNewEntries
<1> DEFINE Spares ==
        \A t \in Threads : RemoveInvalid(t) \/ EvictOldest(t) =>
            \A f \in DOMAIN cache \ DOMAIN cache' : cache[f].atime <= copiedAt[t]
<1>1. PruneInv => Spares
  <2> SUFFICES ASSUME PruneInv, NEW t \in Threads, RemoveInvalid(t) \/ EvictOldest(t),
                      NEW f \in DOMAIN cache \ DOMAIN cache'
               PROVE  cache[f].atime <= copiedAt[t]
    OBVIOUS
  <2>1. HasCopy(t)
    BY DEF RemoveInvalid, EvictOldest, HasCopy
  <2>2. f \in DOMAIN snapshot[t] /\ cache[f] = snapshot[t][f]
    BY RemovedIsGiven DEF RemoveInvalid, EvictOldest, PruneInv, TypeOK
  <2> QED BY <2>1, <2>2 DEF PruneInv, CopiesArePast
<1>2. PruneInv /\ [Next]_vars => [Spares]_vars
  BY <1>1
<1> QED BY <1>2, InitPrune, NextPrune, PTL DEF Spec, PruneSparesNewEntries

\* Entries are evicted in the order of their last use: an older one that is as
\* it was in the copy has been come to, and is gone.
THEOREM EvictionInOrder == Spec => EvictsLeastRecentlyUsed
<1> DEFINE InOrder ==
        \A t \in Threads : EvictOldest(t) =>
            \A f \in DOMAIN cache \ DOMAIN cache', g \in DOMAIN cache' :
                g \in DOMAIN snapshot[t] /\ cache[g] = snapshot[t][g]
                    => cache[f].atime <= cache[g].atime
<1>1. PruneInv => InOrder
  <2> SUFFICES ASSUME PruneInv, NEW t \in Threads, EvictOldest(t),
                      NEW f \in DOMAIN cache \ DOMAIN cache', NEW g \in DOMAIN cache',
                      g \in DOMAIN snapshot[t], cache[g] = snapshot[t][g]
               PROVE  cache[f].atime <= cache[g].atime
    OBVIOUS
  <2>1. PICK e \in todo[t] : IsNext(t, e) /\ cache' = remove_entry(e, snapshot[t][e])
    BY DEF EvictOldest
  <2>2. e = f /\ cache[f] = snapshot[t][f] /\ g \in DOMAIN cache
    BY <2>1, RemovedIsGiven
  <2>3. g \in todo[t]
    BY <2>2 DEF PruneInv, EvictionsLast, EvictOldest
  <2> QED BY <2>1, <2>2, <2>3 DEF IsNext
<1>2. PruneInv /\ [Next]_vars => [InOrder]_vars
  BY <1>1
<1> QED BY <1>2, InitPrune, NextPrune, PTL DEF Spec, EvictsLeastRecentlyUsed

----
\* What the refinement takes for the variable of ForgetfulCache.
Known ==
    [f \in Files |->
        IF f \in DOMAIN cache
        THEN [size |-> cache[f].size, mtime |-> cache[f].mtime]
        ELSE [size |-> -1, mtime |-> -1]]

LEMMA InitForgetful == Init => Forgetful!CacheInit
BY EmptyCacheType DEF Init, Forgetful!CacheInit, Forgetful!Nothing

\* A step that leaves the sizes and mtimes of all entries is a stutter,
LEMMA KeepsKnown ==
    ASSUME DOMAIN cache' = DOMAIN cache,
           \A f \in DOMAIN cache :
                cache'[f].size = cache[f].size /\ cache'[f].mtime = cache[f].mtime
    PROVE  Known' = Known
BY DEF Known

\* one that takes away an entry at most forgets it,
LEMMA ForgetsOne ==
    ASSUME NEW e \in Files,
           DOMAIN cache' \subseteq DOMAIN cache,
           \A g \in DOMAIN cache' : cache'[g] = cache[g],
           \A g \in DOMAIN cache \ DOMAIN cache' : g = e
    PROVE  [Forgetful!CacheNext]_Known
<1>1. CASE DOMAIN cache' = DOMAIN cache
  BY <1>1, KeepsKnown
<1>2. CASE DOMAIN cache' /= DOMAIN cache
  <2>1. DOMAIN cache' = DOMAIN cache \ {e}
    BY <1>2
  <2>2. Known' = [Known EXCEPT ![e] = Forgetful!Nothing]
    BY <2>1 DEF Known, Forgetful!Nothing
  <2>3. Forgetful!Forget(e)
    BY <2>2 DEF Known, Forgetful!Forget
  <2> QED BY <2>3 DEF Forgetful!CacheNext
<1> QED BY <1>1, <1>2

\* and one that stores an entry that may be stored publishes it.
LEMMA PublishesOne ==
    ASSUME TypeOK, NEW e \in Files, NEW stat \in FileStat, Supersedes(e, stat.mtime),
           cache' = With(cache, e, stat)
    PROVE  Forgetful!CacheNext
<1>1. stat.size \in Sizes /\ stat.mtime \in Mtimes /\ stat.mtime \in Nat
  BY StatsCacheAssumption DEF FileStat
<1>2. Known' = [Known EXCEPT ![e] = [size |-> stat.size, mtime |-> stat.mtime]]
  BY DEF Known, With
<1>3. Known[e].mtime <= stat.mtime
  BY <1>1 DEF Known, Supersedes
<1>4. Forgetful!Publish(e, stat.size, stat.mtime)
  BY <1>2, <1>3 DEF Known, Forgetful!Publish
<1> QED BY <1>1, <1>4 DEF Forgetful!CacheNext

LEMMA NextForgetful == TypeOK /\ [Next]_vars => [Forgetful!CacheNext]_Known
<1> SUFFICES ASSUME TypeOK, [Next]_vars PROVE [Forgetful!CacheNext]_Known
  OBVIOUS
<1>1. CASE UNCHANGED cache
  BY <1>1, KeepsKnown
<1>2. ASSUME NEW t \in Threads, NEW f \in Files, NEW mtime \in Mtimes,
             GetFilesize(t, f, mtime)
      PROVE  [Forgetful!CacheNext]_Known
  <2>1. CASE mtime > cache[f].mtime
    <3>1. cache' = Without(cache, f)
      BY <1>2, <2>1 DEF GetFilesize
    <3> QED BY <3>1, ForgetsOne DEF Without
  <2>2. CASE ~(mtime > cache[f].mtime)
    <3>1. cache' = [cache EXCEPT ![f] = update_atime(@)]
      BY <1>2, <2>2 DEF GetFilesize
    <3>2. /\ DOMAIN cache' = DOMAIN cache
          /\ \A g \in DOMAIN cache :
                cache'[g].size = cache[g].size /\ cache'[g].mtime = cache[g].mtime
      BY <3>1, CachesMember DEF TypeOK, update_atime
    <3> QED BY <3>2, KeepsKnown
  <2> QED BY <2>1, <2>2
<1>3. ASSUME NEW t \in Threads, StorePut(t) PROVE [Forgetful!CacheNext]_Known
  <2>1. arg[t].file \in Files /\ arg[t].stat \in FileStat
    BY <1>3 DEF StorePut, TypeOK
  <2>2. CASE Supersedes(arg[t].file, arg[t].stat.mtime)
    BY <1>3, <2>1, <2>2, PublishesOne DEF StorePut
  <2>3. CASE ~Supersedes(arg[t].file, arg[t].stat.mtime)
    BY <1>1, <1>3, <2>3 DEF StorePut
  <2> QED BY <2>2, <2>3
<1>4. ASSUME NEW t \in Threads, RemoveInvalid(t) PROVE [Forgetful!CacheNext]_Known
  <2>1. arg[t].file \in Files
    BY <1>4, CachesMember DEF RemoveInvalid, TypeOK
  <2>2. cache' = remove_entry(arg[t].file, snapshot[t][arg[t].file])
    BY <1>4 DEF RemoveInvalid
  <2> QED BY <2>1, <2>2, RemovedIsGiven, ForgetsOne
<1>5. ASSUME NEW t \in Threads, EvictOldest(t) PROVE [Forgetful!CacheNext]_Known
  <2>1. PICK f \in todo[t] : cache' = remove_entry(f, snapshot[t][f])
    BY <1>5 DEF EvictOldest
  <2>2. f \in Files
    BY CachesMember DEF TypeOK
  <2> QED BY <2>1, <2>2, RemovedIsGiven, ForgetsOne
<1>6. CASE \/ UNCHANGED vars \/ Tick
           \/ \E t \in Threads :
                \/ CopyEntries(t) \/ Validate(t) \/ StartEvicting(t) \/ FinishPrune(t)
                \/ \E f \in Files, mtime \in Mtimes, size \in Sizes :
                        PutFilesize(t, f, size, mtime)
  BY <1>1, <1>6 DEF vars, Tick, CopyEntries, Validate, StartEvicting, FinishPrune, PutFilesize
<1> QED
  BY <1>2, <1>3, <1>4, <1>5, <1>6 DEF Next, PutStep

\* The stats cache implements ForgetfulCache: whatever threads look up, put and
\* prune at the same time, a file has no entry or the one published for the
\* latest version that somebody put.
THEOREM CacheOnlyForgets == Spec => ImplementsForgetfulCache
<1>1. Init => TypeOK /\ Forgetful!CacheInit
  BY InitType, InitForgetful
<1>2. TypeOK /\ [Next]_vars => TypeOK' /\ [Forgetful!CacheNext]_Known
  BY NextType, NextForgetful
<1> QED
  BY <1>1, <1>2, PTL DEF Spec, ImplementsForgetfulCache, Forgetful!CacheSpec, Known

----
(* The cache of a mount *)

Opened ==
    [state : {"opened", "ready"}, file : Files, mtime : Mtimes, told : Sizes \cup {NoSize}]

MountType ==
    /\ TypeOK
    /\ disk \in [Files -> Mtimes]
    /\ trans \in [Transcoders -> Opened \cup {Closed}]

\* Nothing is known of versions that do not exist yet.
NothingAhead ==
    /\ \A f \in DOMAIN cache : cache[f].mtime <= disk[f]
    /\ \A t \in Threads : pc[t] = "put" => arg[t].stat.mtime <= disk[arg[t].file]
    /\ \A x \in Transcoders : trans[x] /= Closed => trans[x].mtime <= disk[trans[x].file]

\* If the version of f with this mtime is the one there now, size is right for it.
RightIfCurrent(f, mtime, size) ==
    mtime = disk[f] => IsRight(f, mtime, size) \/ <<f, mtime>> \in damaged

\* So it is with all sizes that are stored, about to be put, or told.
SizesAreRight ==
    /\ \A f \in DOMAIN cache : RightIfCurrent(f, cache[f].mtime, cache[f].size)
    /\ \A t \in Threads : pc[t] = "put" =>
        RightIfCurrent(arg[t].file, arg[t].stat.mtime, arg[t].stat.size)
    /\ \A x \in Transcoders : trans[x] /= Closed /\ trans[x].told /= NoSize =>
        RightIfCurrent(trans[x].file, trans[x].mtime, trans[x].told)

\* A prune removes what was out of date in its copy.
RemovesOutdated ==
    \A t \in Threads : pc[t] = "remove" => OutOfDate(t, arg[t].file)

MountInv == MountType /\ NothingAhead /\ SizesAreRight /\ RemovesOutdated

LEMMA MtimesAreNumbers == \A m \in Mtimes : m \in Nat
BY StatsCacheAssumption

LEMMA VersionsHaveMtimes == \A f \in Files : Versions[f] \subseteq Mtimes
BY MountAssumption

\* Sizes are numbers, those of a version among them.
LEMMA SizesOfVersion ==
    ASSUME NEW f \in Files, NEW mtime \in Mtimes
    PROVE  /\ TrueSize[f][mtime] \in Sizes /\ TrueSize[f][mtime] \in Nat
           /\ ForeseenSize[f][mtime] \in Sizes /\ ForeseenSize[f][mtime] \in Nat
BY MountAssumption, StatsCacheAssumption

LEMMA ReachedIsASize ==
    ASSUME NEW f \in Files, NEW mtime \in Mtimes, NEW told
    PROVE  Reached(f, mtime, told) \subseteq Sizes
BY SizesOfVersion DEF Reached

\* A pass that starts with no size from the cache, or with a right one, comes to a
\* right one.
LEMMA ReachedIsRight ==
    ASSUME NEW f \in Files, NEW mtime \in Mtimes, NEW told \in Sizes \cup {NoSize},
           told = NoSize \/ IsRight(f, mtime, told), NEW size \in Reached(f, mtime, told)
    PROVE  IsRight(f, mtime, size)
<1> DEFINE true == TrueSize[f][mtime]
           foreseen == ForeseenSize[f][mtime]
           start == IF told = NoSize THEN foreseen ELSE told
<1>1. true \in Nat /\ foreseen \in Nat /\ told \in Nat /\ size \in Nat
  <2>1. size \in Sizes
    BY ReachedIsASize
  <2>2. Sizes \subseteq Nat
    BY StatsCacheAssumption
  <2> QED BY <2>1, <2>2, SizesOfVersion DEF NoSize
<1>2. start >= true \/ foreseen <= start
  BY <1>1 DEF IsRight
<1>3. size = true \/ (start <= size /\ size <= true /\ ~(start >= true))
  BY <1>1 DEF Reached
<1> QED BY <1>1, <1>2, <1>3 DEF IsRight

LEMMA InitMount == MountInit => MountInv
<1> SUFFICES ASSUME MountInit PROVE MountInv
  OBVIOUS
<1>1. TypeOK /\ DOMAIN cache = {} /\ \A t \in Threads : pc[t] = "idle"
  BY InitType, EmptyCacheType DEF MountInit, Init
<1>2. \A x \in Transcoders : trans[x] = Closed
  BY DEF MountInit
<1>3. MountType
  BY <1>1 DEF MountInit, MountType
<1> QED
  BY <1>1, <1>2, <1>3 DEF MountInv, NothingAhead, SizesAreRight, RemovesOutdated

\* A transcoder that is not closed has the type of an open one.
LEMMA OpenedType ==
    ASSUME MountType, NEW x \in Transcoders,
           trans[x] /= Closed \/ trans[x].state \in {"opened", "ready"}
    PROVE  trans[x] \in Opened /\ trans[x] /= Closed
BY DEF MountType, Closed

\* Every step of the mount is one of the cache, or leaves the cache alone.
LEMMA MountStepIsCacheStep == MountType /\ [MountNext]_allVars => [Next]_vars
<1> SUFFICES ASSUME MountType, [MountNext]_allVars PROVE [Next]_vars
  OBVIOUS
<1>1. CASE UNCHANGED allVars
  BY <1>1 DEF allVars
<1>2. CASE Tick
  BY <1>2 DEF Next
<1>3. ASSUME NEW f \in Files, Modify(f) PROVE [Next]_vars
  BY <1>3 DEF Modify
<1>4. ASSUME NEW x \in Transcoders, Destroy(x) \/ \E f \in Files : open_file(x, f)
      PROVE  [Next]_vars
  BY <1>4 DEF Destroy, open_file
<1>5. ASSUME NEW t \in Threads, NEW x \in Transcoders, open(t, x) PROVE [Next]_vars
  <2>1. trans[x] \in Opened
    BY <1>5, OpenedType DEF open
  <2>2. \/ GetFilesize(t, trans[x].file, trans[x].mtime)
        \/ UNCHANGED vars
    BY <1>5 DEF open
  <2> QED BY <2>1, <2>2 DEF Next, Opened
<1>6. ASSUME NEW t \in Threads, NEW x \in Transcoders, finish(t, x) PROVE [Next]_vars
  <2>1. trans[x] \in Opened
    BY <1>6, OpenedType DEF finish
  <2>2. Reached(trans[x].file, trans[x].mtime, trans[x].told) \subseteq Sizes
    BY <2>1, ReachedIsASize DEF Opened
  <2>3. \E size \in Sizes : PutFilesize(t, trans[x].file, size, trans[x].mtime)
    BY <1>6, <2>2 DEF finish, PutReached, ReachedDamaged
  <2> QED BY <2>1, <2>3 DEF Next, Opened
<1>7. ASSUME NEW t \in Threads, Prune(t) PROVE [Next]_vars
  BY <1>7 DEF Prune, Next
<1> QED
  BY <1>1, <1>2, <1>3, <1>4, <1>5, <1>6, <1>7 DEF MountNext

\* What open does to the transcoder, and to the cache.
LEMMA OpenEffect ==
    ASSUME MountInv, NEW t \in Threads, NEW x \in Transcoders, open(t, x)
    PROVE  /\ trans[x] \in Opened
           /\ trans'[x] = [state |-> "ready", file |-> trans[x].file, mtime |-> trans[x].mtime,
                           told |-> Told(trans[x].file, trans[x].mtime)]
           /\ \A y \in Transcoders : y /= x => trans'[y] = trans[y]
           /\ DOMAIN cache' \subseteq DOMAIN cache
           /\ \A g \in DOMAIN cache' : /\ cache'[g].size = cache[g].size
                                      /\ cache'[g].mtime = cache[g].mtime
           /\ UNCHANGED <<pc, arg, snapshot, disk, damaged>>
<1>1. trans[x] \in Opened
  BY OpenedType DEF open, MountInv
<1>2. trans' = [trans EXCEPT ![x] = [trans[x] EXCEPT !.state = "ready",
                    !.told = Told(trans[x].file, trans[x].mtime)]]
  BY DEF open
<1>3. trans'[x] = [state |-> "ready", file |-> trans[x].file, mtime |-> trans[x].mtime,
                   told |-> Told(trans[x].file, trans[x].mtime)]
  BY <1>1, <1>2 DEF MountInv, MountType, Opened
<1>4. \A y \in Transcoders : y /= x => trans'[y] = trans[y]
  BY <1>2 DEF MountInv, MountType
<1>5. \/ GetFilesize(t, trans[x].file, trans[x].mtime)
      \/ UNCHANGED vars
  BY DEF open
<1>6. /\ DOMAIN cache' \subseteq DOMAIN cache
      /\ \A g \in DOMAIN cache' : /\ cache'[g].size = cache[g].size
                                 /\ cache'[g].mtime = cache[g].mtime
  <2>1. CASE UNCHANGED vars
    BY <2>1 DEF vars
  <2>2. CASE GetFilesize(t, trans[x].file, trans[x].mtime)
    BY <2>2, CachesMember DEF GetFilesize, Without, update_atime, MountInv, MountType, TypeOK
  <2> QED BY <1>5, <2>1, <2>2
<1>7. UNCHANGED <<pc, arg, snapshot, disk, damaged>>
  BY <1>5 DEF open, GetFilesize, vars
<1> QED BY <1>1, <1>3, <1>4, <1>6, <1>7

\* What finish does: the size it puts is right for its version, if the one that it
\* was told is.
LEMMA FinishEffect ==
    ASSUME MountInv, NEW t \in Threads, NEW x \in Transcoders, finish(t, x)
    PROVE  /\ trans[x] \in Opened
           /\ trans'[x] = Closed
           /\ \A y \in Transcoders : y /= x => trans'[y] = trans[y]
           /\ arg'[t].file = trans[x].file
           /\ arg'[t].stat.mtime = trans[x].mtime
           /\ RightIfCurrent(trans[x].file, trans[x].mtime, trans[x].told)
                \/ trans[x].told = NoSize
                => RightIfCurrent(arg[t].file, arg[t].stat.mtime, arg[t].stat.size)'
           /\ \A u \in Threads : u /= t => pc'[u] = pc[u] /\ arg'[u] = arg[u]
           /\ pc'[t] = "put"
           /\ damaged \subseteq damaged'
           /\ UNCHANGED <<cache, snapshot, disk>>
<1>1. trans[x] \in Opened
  BY OpenedType DEF finish, MountInv
<1> DEFINE f == trans[x].file
           mtime == trans[x].mtime
           told == trans[x].told
<1>2. f \in Files /\ mtime \in Mtimes /\ told \in Sizes \cup {NoSize}
  BY <1>1 DEF Opened
<1>3. PICK size \in Sizes :
        /\ PutFilesize(t, f, size, mtime)
        /\ \/ size \in Reached(f, mtime, told) /\ damaged' = damaged
           \/ damaged' = damaged \cup {<<f, mtime>>}
  <2>1. Reached(f, mtime, told) \subseteq Sizes
    BY <1>2, ReachedIsASize
  <2> QED BY <2>1 DEF finish, PutReached, ReachedDamaged
<1>4. /\ arg'[t] = [file |-> f, stat |-> [size |-> size, atime |-> clock, mtime |-> mtime]]
      /\ \A u \in Threads : u /= t => pc'[u] = pc[u] /\ arg'[u] = arg[u]
      /\ pc'[t] = "put"
      /\ UNCHANGED <<cache, snapshot>>
  BY <1>3 DEF PutFilesize, MountInv, MountType, TypeOK
<1>5. /\ trans'[x] = Closed
      /\ \A y \in Transcoders : y /= x => trans'[y] = trans[y]
      /\ disk' = disk
  BY DEF finish, MountInv, MountType
<1>6. ASSUME RightIfCurrent(f, mtime, told) \/ told = NoSize,
             mtime = disk[f], <<f, mtime>> \notin damaged'
      PROVE  IsRight(f, mtime, size)
  <2>1. size \in Reached(f, mtime, told) /\ damaged' = damaged
    BY <1>3, <1>6
  <2>2. told = NoSize \/ IsRight(f, mtime, told)
    BY <1>6, <2>1 DEF RightIfCurrent
  <2> QED BY <1>2, <2>1, <2>2, ReachedIsRight
<1>7. damaged \subseteq damaged'
  BY <1>3
<1>8. arg'[t].stat.size = size /\ arg'[t].stat.mtime = mtime /\ arg'[t].file = f
  BY <1>4
<1>9. RightIfCurrent(f, mtime, trans[x].told) \/ trans[x].told = NoSize
        => RightIfCurrent(arg[t].file, arg[t].stat.mtime, arg[t].stat.size)'
  BY <1>5, <1>6, <1>8 DEF RightIfCurrent
<1> QED BY <1>1, <1>4, <1>5, <1>7, <1>8, <1>9

\* Every step keeps the types.
LEMMA NextMountType == MountInv /\ [MountNext]_allVars => MountType'
<1> SUFFICES ASSUME MountInv, [MountNext]_allVars PROVE MountType'
  OBVIOUS
<1>1. TypeOK'
  BY MountStepIsCacheStep, NextType DEF MountInv, MountType
<1>0. MountType /\ TypeOK
  BY DEF MountInv, MountType
<1>2. CASE UNCHANGED mountVars
  BY <1>0, <1>1, <1>2 DEF mountVars, MountType
<1>3. ASSUME NEW f \in Files, Modify(f) PROVE MountType'
  BY <1>0, <1>1, <1>3, VersionsHaveMtimes DEF Modify, MountType
<1>4. ASSUME NEW x \in Transcoders, Destroy(x) PROVE MountType'
  BY <1>0, <1>1, <1>4 DEF Destroy, MountType
<1>5. ASSUME NEW x \in Transcoders, NEW f \in Files, open_file(x, f) PROVE MountType'
  <2>1. [state |-> "opened", file |-> f, mtime |-> disk[f], told |-> NoSize] \in Opened
    BY <1>0 DEF Opened, MountType
  <2> QED BY <1>0, <1>1, <1>5, <2>1 DEF open_file, MountType
<1>6. ASSUME NEW t \in Threads, NEW x \in Transcoders, open(t, x) PROVE MountType'
  <2>1. Told(trans[x].file, trans[x].mtime) \in Sizes \cup {NoSize}
    BY <1>0, CachesMember DEF Told, TypeOK, FileStat
  <2>2. /\ trans[x] \in Opened
        /\ trans'[x] = [state |-> "ready", file |-> trans[x].file,
                        mtime |-> trans[x].mtime,
                        told |-> Told(trans[x].file, trans[x].mtime)]
    BY <1>6, OpenEffect
  <2>3. trans'[x] \in Opened
    BY <2>1, <2>2 DEF Opened
  <2>4. /\ DOMAIN trans' = Transcoders
        /\ \A y \in Transcoders : y /= x => trans'[y] = trans[y]
        /\ disk' = disk
    BY <1>0, <1>6 DEF open, MountType
  <2>5. trans' = [y \in Transcoders |-> trans'[y]]
    BY <1>0, <1>6 DEF open, MountType
  <2>6. trans' \in [Transcoders -> Opened \cup {Closed}]
    BY <1>0, <2>3, <2>4, <2>5 DEF MountType
  <2> QED BY <1>0, <1>1, <2>4, <2>6 DEF MountType
<1>7. ASSUME NEW t \in Threads, NEW x \in Transcoders, finish(t, x) PROVE MountType'
  BY <1>0, <1>1, <1>7 DEF finish, MountType
<1> QED
  BY <1>2, <1>3, <1>4, <1>5, <1>6, <1>7 DEF MountNext, Prune, allVars, mountVars

\* What the steps inside put_filesize do to sizes and mtimes: an entry is one
\* that was there or the one that was to be put, and nothing new is to be put.
LEMMA PruneEffect ==
    ASSUME TypeOK, NEW t \in Threads, PutStep(t)
    PROVE  /\ \A g \in DOMAIN cache' :
                \/ g \in DOMAIN cache /\ cache'[g] = cache[g]
                \/ pc[t] = "put" /\ g = arg[t].file /\ cache'[g] = arg[t].stat
           /\ \A u \in Threads : pc'[u] = "put" => pc[u] = "put" /\ arg'[u] = arg[u]
<1>1. CASE StorePut(t)
  BY <1>1 DEF StorePut, With, TypeOK
<1>2. CASE RemoveInvalid(t)
  <2>1. cache' = remove_entry(arg[t].file, snapshot[t][arg[t].file])
    BY <1>2 DEF RemoveInvalid
  <2>2. \A u \in Threads : pc'[u] = "put" => pc[u] = "put" /\ arg'[u] = arg[u]
    BY <1>2 DEF RemoveInvalid, TypeOK
  <2> QED BY <2>1, <2>2, RemovedIsGiven
<1>3. CASE EvictOldest(t)
  <2>1. PICK f \in todo[t] : cache' = remove_entry(f, snapshot[t][f])
    BY <1>3 DEF EvictOldest
  <2>2. UNCHANGED <<pc, arg>>
    BY <1>3 DEF EvictOldest
  <2> QED BY <2>1, <2>2, RemovedIsGiven
<1>4. CASE CopyEntries(t) \/ Validate(t) \/ StartEvicting(t) \/ FinishPrune(t)
  BY <1>4 DEF CopyEntries, Validate, StartEvicting, FinishPrune, TypeOK
<1> QED BY <1>1, <1>2, <1>3, <1>4 DEF PutStep

\* A source only gets newer.
LEMMA NextAhead == MountInv /\ [MountNext]_allVars => NothingAhead'
<1> SUFFICES ASSUME MountInv, [MountNext]_allVars PROVE NothingAhead'
  OBVIOUS
<1>0. MountType /\ TypeOK /\ NothingAhead
  BY DEF MountInv, MountType
<1>1. CASE UNCHANGED allVars \/ (Tick /\ UNCHANGED mountVars)
  BY <1>0, <1>1 DEF NothingAhead, allVars, vars, mountVars, Tick
<1>2. ASSUME NEW f \in Files, Modify(f) PROVE NothingAhead'
  <2>1. UNCHANGED <<cache, pc, arg, trans>>
    BY <1>2 DEF Modify, vars
  <2>2. \A g \in Files : disk[g] \in Nat /\ disk'[g] \in Nat /\ disk[g] <= disk'[g]
    BY <1>0, <1>2, MtimesAreNumbers, VersionsHaveMtimes DEF Modify, MountType
  <2>3. ASSUME NEW g \in DOMAIN cache PROVE cache[g].mtime <= disk'[g]
    <3>1. g \in Files /\ cache[g].mtime \in Nat
      BY <1>0, CachesMember, MtimesAreNumbers DEF MountType, TypeOK, FileStat
    <3> QED BY <1>0, <2>2, <3>1 DEF NothingAhead
  <2>4. ASSUME NEW t \in Threads, pc[t] = "put"
        PROVE  arg[t].stat.mtime <= disk'[arg[t].file]
    <3>1. arg[t].file \in Files /\ arg[t].stat.mtime \in Nat
      BY <1>0, <2>4, MtimesAreNumbers DEF MountType, TypeOK, FileStat
    <3> QED BY <1>0, <2>2, <2>4, <3>1 DEF NothingAhead
  <2>5. ASSUME NEW x \in Transcoders, trans[x] /= Closed
        PROVE  trans[x].mtime <= disk'[trans[x].file]
    <3>1. trans[x].file \in Files /\ trans[x].mtime \in Nat
      BY <1>0, <2>5, OpenedType, MtimesAreNumbers DEF Opened
    <3> QED BY <1>0, <2>2, <2>5, <3>1 DEF NothingAhead
  <2> QED BY <2>1, <2>3, <2>4, <2>5 DEF NothingAhead
<1>3. ASSUME NEW x \in Transcoders, Destroy(x) PROVE NothingAhead'
  BY <1>0, <1>3 DEF NothingAhead, Destroy, vars, MountType
<1>4. ASSUME NEW x \in Transcoders, NEW f \in Files, open_file(x, f) PROVE NothingAhead'
  <2>1. disk[f] \in Nat
    BY <1>0, MtimesAreNumbers DEF MountType
  <2> QED BY <1>0, <1>4, <2>1 DEF NothingAhead, open_file, vars, MountType
<1>5. ASSUME NEW t \in Threads, NEW x \in Transcoders, open(t, x) PROVE NothingAhead'
  <2>1. trans[x] /= Closed
    BY <1>0, <1>5, OpenedType DEF open
  <2>2. /\ \A y \in Transcoders : y /= x => trans'[y] = trans[y]
        /\ trans'[x].file = trans[x].file
        /\ trans'[x].mtime = trans[x].mtime
        /\ UNCHANGED <<pc, arg, disk>>
    <3>1. trans'[x] = [state |-> "ready", file |-> trans[x].file, mtime |-> trans[x].mtime,
                       told |-> Told(trans[x].file, trans[x].mtime)]
      BY <1>5, OpenEffect
    <3>2. /\ \A y \in Transcoders : y /= x => trans'[y] = trans[y]
          /\ UNCHANGED <<pc, arg, disk>>
      BY <1>5, OpenEffect
    <3> QED BY <3>1, <3>2
  <2>3. \A g \in DOMAIN cache' : g \in DOMAIN cache /\ cache'[g].mtime = cache[g].mtime
    BY <1>5, OpenEffect
  <2>4. \A y \in Transcoders : trans'[y] /= Closed => trans'[y].mtime <= disk[trans'[y].file]
    BY <1>0, <2>1, <2>2 DEF NothingAhead
  <2> QED BY <1>0, <2>2, <2>3, <2>4 DEF NothingAhead
<1>6. ASSUME NEW t \in Threads, NEW x \in Transcoders, finish(t, x) PROVE NothingAhead'
  <2>1. trans[x] /= Closed
    BY <1>0, <1>6, OpenedType DEF finish
  <2> QED BY <1>0, <1>6, <2>1, FinishEffect DEF NothingAhead
<1>7. ASSUME NEW t \in Threads, Prune(t) PROVE NothingAhead'
  <2>1. UNCHANGED <<disk, trans>> /\ PutStep(t)
    BY <1>7 DEF Prune, mountVars
  <2> QED BY <1>0, <2>1, PruneEffect DEF NothingAhead, MountType
<1> QED
  BY <1>1, <1>2, <1>3, <1>4, <1>5, <1>6, <1>7 DEF MountNext

\* Sizes stay right, and a version that has become old does not matter any more.
LEMMA NextSizes == MountInv /\ [MountNext]_allVars => SizesAreRight'
<1> SUFFICES ASSUME MountInv, [MountNext]_allVars PROVE SizesAreRight'
  OBVIOUS
<1>0. MountType /\ TypeOK /\ NothingAhead /\ SizesAreRight
  BY DEF MountInv, MountType
<1>1. CASE UNCHANGED allVars \/ (Tick /\ UNCHANGED mountVars)
  BY <1>0, <1>1 DEF allVars, vars, mountVars, Tick, SizesAreRight, RightIfCurrent
<1>2. ASSUME NEW f \in Files, Modify(f) PROVE SizesAreRight'
  <2>1. UNCHANGED <<cache, pc, arg, trans, damaged>>
    BY <1>2 DEF Modify, vars
  <2>2. ASSUME NEW g \in Files, NEW mtime \in Mtimes, NEW size, mtime <= disk[g],
               RightIfCurrent(g, mtime, size)
        PROVE  mtime = disk'[g] => IsRight(g, mtime, size) \/ <<g, mtime>> \in damaged
    <3>1. CASE g = f
      <4>1. disk[f] \in Nat /\ disk'[f] \in Nat /\ disk'[f] > disk[f] /\ mtime \in Nat
        BY <1>0, <1>2, MtimesAreNumbers, VersionsHaveMtimes DEF Modify, MountType
      <4> QED BY <2>2, <3>1, <4>1
    <3>2. CASE g /= f
      <4>1. disk'[g] = disk[g]
        BY <1>0, <1>2, <3>2 DEF Modify, MountType
      <4> QED BY <2>2, <4>1 DEF RightIfCurrent
    <3> QED BY <3>1, <3>2
  <2>3. ASSUME NEW g \in DOMAIN cache PROVE RightIfCurrent(g, cache[g].mtime, cache[g].size)'
    <3>1. g \in Files /\ cache[g].mtime \in Mtimes
      BY <1>0, CachesMember DEF TypeOK, FileStat
    <3> QED BY <1>0, <2>1, <2>2, <3>1 DEF SizesAreRight, NothingAhead, RightIfCurrent
  <2>4. ASSUME NEW t \in Threads, pc[t] = "put"
        PROVE  RightIfCurrent(arg[t].file, arg[t].stat.mtime, arg[t].stat.size)'
    <3>1. arg[t].file \in Files /\ arg[t].stat.mtime \in Mtimes
      BY <1>0, <2>4 DEF TypeOK, FileStat
    <3> QED BY <1>0, <2>1, <2>2, <2>4, <3>1 DEF SizesAreRight, NothingAhead, RightIfCurrent
  <2>5. ASSUME NEW x \in Transcoders, trans[x] /= Closed, trans[x].told /= NoSize
        PROVE  RightIfCurrent(trans[x].file, trans[x].mtime, trans[x].told)'
    <3>1. trans[x].file \in Files /\ trans[x].mtime \in Mtimes
      BY <1>0, <2>5, OpenedType DEF Opened
    <3> QED BY <1>0, <2>1, <2>2, <2>5, <3>1 DEF SizesAreRight, NothingAhead, RightIfCurrent
  <2> QED BY <2>1, <2>3, <2>4, <2>5 DEF SizesAreRight
<1>3. ASSUME NEW x \in Transcoders, Destroy(x) PROVE SizesAreRight'
  <2>1. /\ UNCHANGED <<cache, pc, arg, disk, damaged>>
        /\ \A y \in Transcoders : trans'[y] = trans[y] \/ trans'[y] = Closed
    BY <1>0, <1>3 DEF Destroy, vars, MountType
  <2> QED BY <1>0, <2>1 DEF SizesAreRight, RightIfCurrent
<1>4. ASSUME NEW x \in Transcoders, NEW f \in Files, open_file(x, f) PROVE SizesAreRight'
  <2>1. /\ UNCHANGED <<cache, pc, arg, disk, damaged>>
        /\ \A y \in Transcoders : trans'[y] = trans[y] \/ trans'[y].told = NoSize
    BY <1>0, <1>4 DEF open_file, vars, MountType
  <2> QED BY <1>0, <2>1 DEF SizesAreRight, RightIfCurrent
<1>5. ASSUME NEW t \in Threads, NEW x \in Transcoders, open(t, x) PROVE SizesAreRight'
  <2>1. trans[x] \in Opened /\ trans[x] /= Closed
    BY <1>0, <1>5, OpenedType DEF open
  <2>2. trans'[x] = [state |-> "ready", file |-> trans[x].file, mtime |-> trans[x].mtime,
                     told |-> Told(trans[x].file, trans[x].mtime)]
    BY <1>5, OpenEffect
  <2>3. /\ \A y \in Transcoders : y /= x => trans'[y] = trans[y]
        /\ UNCHANGED <<pc, arg, disk, damaged>>
    BY <1>5, OpenEffect
  <2>4. \A g \in DOMAIN cache' : /\ g \in DOMAIN cache
                                /\ cache'[g].size = cache[g].size
                                /\ cache'[g].mtime = cache[g].mtime
    BY <1>5, OpenEffect
  <2>5. Told(trans[x].file, trans[x].mtime) /= NoSize =>
            RightIfCurrent(trans[x].file, trans[x].mtime, Told(trans[x].file, trans[x].mtime))
    <3> SUFFICES ASSUME Told(trans[x].file, trans[x].mtime) /= NoSize,
                        trans[x].mtime = disk[trans[x].file]
                 PROVE  \/ IsRight(trans[x].file, trans[x].mtime,
                                   Told(trans[x].file, trans[x].mtime))
                        \/ <<trans[x].file, trans[x].mtime>> \in damaged
      BY DEF RightIfCurrent
    <3>1. /\ trans[x].file \in DOMAIN cache
          /\ trans[x].mtime <= cache[trans[x].file].mtime
          /\ Told(trans[x].file, trans[x].mtime) = cache[trans[x].file].size
      BY DEF Told
    <3>2. cache[trans[x].file].mtime \in Nat /\ trans[x].mtime \in Nat
      BY <1>0, <2>1, <3>1, CachesMember, MtimesAreNumbers DEF TypeOK, FileStat, Opened
    <3>3. cache[trans[x].file].mtime = trans[x].mtime
      BY <1>0, <3>1, <3>2 DEF NothingAhead
    <3> QED BY <1>0, <3>1, <3>3 DEF SizesAreRight, RightIfCurrent
  <2>6. ASSUME NEW y \in Transcoders, trans'[y] /= Closed, trans'[y].told /= NoSize
        PROVE  RightIfCurrent(trans[y].file, trans[y].mtime, trans[y].told)'
    <3>1. CASE y = x
      BY <2>2, <2>3, <2>5, <2>6, <3>1 DEF RightIfCurrent
    <3>2. CASE y /= x
      BY <1>0, <2>3, <2>6, <3>2 DEF SizesAreRight, RightIfCurrent
    <3> QED BY <3>1, <3>2
  <2> QED BY <1>0, <2>3, <2>4, <2>6 DEF SizesAreRight, RightIfCurrent
<1>6. ASSUME NEW t \in Threads, NEW x \in Transcoders, finish(t, x) PROVE SizesAreRight'
  <2>1. trans[x] /= Closed
    BY <1>0, <1>6, OpenedType DEF finish
  <2>2. RightIfCurrent(arg[t].file, arg[t].stat.mtime, arg[t].stat.size)'
    BY <1>0, <1>6, <2>1, FinishEffect DEF SizesAreRight
  <2>3. /\ trans'[x] = Closed
        /\ \A y \in Transcoders : y /= x => trans'[y] = trans[y]
        /\ \A u \in Threads : u /= t => pc'[u] = pc[u] /\ arg'[u] = arg[u]
        /\ damaged \subseteq damaged'
        /\ UNCHANGED <<cache, disk>>
    BY <1>6, FinishEffect
  <2> QED BY <1>0, <2>2, <2>3 DEF SizesAreRight, RightIfCurrent
<1>7. ASSUME NEW t \in Threads, Prune(t) PROVE SizesAreRight'
  <2>1. UNCHANGED <<disk, trans, damaged>> /\ PutStep(t)
    BY <1>7 DEF Prune, mountVars
  <2> QED BY <1>0, <2>1, PruneEffect DEF SizesAreRight, RightIfCurrent
<1> QED
  BY <1>1, <1>2, <1>3, <1>4, <1>5, <1>6, <1>7 DEF MountNext

\* Only its look at a file sends prune to the removal, and the file stays out of date.
LEMMA NextOutdated == MountInv /\ [MountNext]_allVars => RemovesOutdated'
<1> SUFFICES ASSUME MountInv, [MountNext]_allVars, NEW t \in Threads, pc'[t] = "remove"
             PROVE  OutOfDate(t, arg[t].file)'
  BY DEF RemovesOutdated
<1>0. MountType /\ TypeOK /\ RemovesOutdated
  BY DEF MountInv, MountType
<1>1. CASE /\ pc[t] = "remove" /\ arg'[t] = arg[t] /\ snapshot'[t] = snapshot[t]
           /\ disk' = disk
  BY <1>0, <1>1 DEF RemovesOutdated, OutOfDate
<1>2. ASSUME NEW f \in Files, Modify(f) PROVE OutOfDate(t, arg[t].file)'
  <2>1. UNCHANGED <<pc, arg, snapshot>>
    BY <1>2 DEF Modify, vars
  <2>2. arg[t].file \in DOMAIN snapshot[t] /\ snapshot[t] \in Caches
    BY <1>0, <2>1 DEF TypeOK
  <2>3. arg[t].file \in Files /\ snapshot[t][arg[t].file].mtime \in Nat
    BY <2>2, CachesMember, MtimesAreNumbers DEF FileStat
  <2>4. disk[arg[t].file] \in Nat /\ disk'[arg[t].file] \in Nat
        /\ disk[arg[t].file] <= disk'[arg[t].file]
    BY <1>0, <1>2, <2>3, MtimesAreNumbers, VersionsHaveMtimes DEF Modify, MountType
  <2>5. disk[arg[t].file] > snapshot[t][arg[t].file].mtime
    BY <1>0, <2>1 DEF RemovesOutdated, OutOfDate
  <2> QED BY <2>1, <2>3, <2>4, <2>5 DEF OutOfDate
<1>3. ASSUME NEW x \in Transcoders,
             \/ Destroy(x) \/ \E f \in Files : open_file(x, f)
             \/ \E u \in Threads : open(u, x)
      PROVE  OutOfDate(t, arg[t].file)'
  <2>1. UNCHANGED <<pc, arg, snapshot, disk>>
    BY <1>3 DEF Destroy, open_file, open, GetFilesize, vars
  <2> QED BY <1>1, <2>1
<1>4. ASSUME NEW u \in Threads, NEW x \in Transcoders, finish(u, x)
      PROVE  OutOfDate(t, arg[t].file)'
  <2>1. /\ pc'[u] = "put"
        /\ \A w \in Threads : w /= u => pc'[w] = pc[w] /\ arg'[w] = arg[w]
        /\ UNCHANGED <<snapshot, disk>>
    BY <1>4, FinishEffect
  <2> QED BY <1>1, <2>1
<1>5. ASSUME NEW u \in Threads, Prune(u) PROVE OutOfDate(t, arg[t].file)'
  <2>1. disk' = disk /\ PutStep(u)
    BY <1>5 DEF Prune, mountVars
  <2>2. CASE u /= t
    <3>1. pc'[t] = pc[t] /\ arg'[t] = arg[t] /\ snapshot'[t] = snapshot[t]
      BY <1>0, <2>1, <2>2 DEF PutStep, StorePut, CopyEntries, Validate, RemoveInvalid,
         StartEvicting, EvictOldest, FinishPrune, TypeOK
    <3> QED BY <1>1, <2>1, <3>1
  <2>3. CASE u = t
    <3>1. Validate(t)
      BY <1>0, <2>1, <2>3 DEF PutStep, StorePut, CopyEntries, RemoveInvalid,
         StartEvicting, EvictOldest, FinishPrune, TypeOK
    <3>2. PICK f \in todo[t] : arg' = [arg EXCEPT ![t] = [file |-> f]]
                              /\ todo' = [todo EXCEPT ![t] = @ \ {f}]
      BY <1>0, <3>1 DEF Validate, TypeOK
    <3>3. arg'[t].file = f /\ f \in todo[t] \ todo'[t] /\ snapshot' = snapshot
      BY <1>0, <3>1, <3>2 DEF Validate, TypeOK
    <3>4. OutOfDate(t, f)
      BY <1>5, <2>3, <3>1, <3>3 DEF Prune
    <3> QED BY <2>1, <3>3, <3>4 DEF OutOfDate
  <2> QED BY <2>2, <2>3
<1>6. CASE UNCHANGED allVars \/ (Tick /\ UNCHANGED mountVars)
  BY <1>1, <1>6 DEF allVars, vars, mountVars, Tick
<1> QED
  BY <1>2, <1>3, <1>4, <1>5, <1>6 DEF MountNext

LEMMA NextMount == MountInv /\ [MountNext]_allVars => MountInv'
BY NextMountType, NextAhead, NextSizes, NextOutdated DEF MountInv

----
\* The cache of a mount behaves as StatsCache says, so that what is proved of
\* StatsCache holds of it.
THEOREM MountUsesStatsCache == MountSpec => Spec
<1>1. MountInit => Init
  BY DEF MountInit
<1>2. MountInv /\ [MountNext]_allVars => [Next]_vars
  BY MountStepIsCacheStep DEF MountInv
<1> QED BY <1>1, <1>2, InitMount, NextMount, PTL DEF MountSpec, Spec

\* A mount whose sources only get newer: but for versions with a damaged pass, the
\* size that the cache tells for the version that is there is the true one or, if
\* calculate_size foresees too little for it, one between what it foresees and that.
THEOREM CurrentSizesRight == MountSpec => []CurrentSizesAreRight
<1>1. MountInv => CurrentSizesAreRight
  BY OpenedType DEF MountInv, SizesAreRight, RightIfCurrent, CurrentSizesAreRight
<1> QED BY <1>1, InitMount, NextMount, PTL DEF MountSpec

\* What prune removes as out of date is an entry of a version that is gone.
THEOREM OnlyOutdatedRemoved == MountSpec => RemovedIsOutOfDate
<1> DEFINE Removed ==
        \A t \in Threads : RemoveInvalid(t) =>
            \A f \in DOMAIN cache \ DOMAIN cache' : cache[f].mtime < disk[f]
<1>1. MountInv => Removed
  <2> SUFFICES ASSUME MountInv, NEW t \in Threads, RemoveInvalid(t),
                      NEW f \in DOMAIN cache \ DOMAIN cache'
               PROVE  cache[f].mtime < disk[f]
    OBVIOUS
  <2>1. pc[t] = "remove" /\ f = arg[t].file /\ cache[f] = snapshot[t][f]
    BY RemovedIsGiven DEF RemoveInvalid
  <2>2. f \in Files /\ disk[f] \in Nat /\ cache[f].mtime \in Nat
    BY CachesMember, MtimesAreNumbers DEF MountInv, MountType, TypeOK, FileStat
  <2> QED BY <2>1, <2>2 DEF MountInv, RemovesOutdated, OutOfDate
<1>2. MountInv /\ [MountNext]_allVars => [Removed]_allVars
  BY <1>1
<1> QED BY <1>2, InitMount, NextMount, PTL DEF MountSpec, RemovedIsOutOfDate
====
