---- MODULE ForgetfulCache ----
(***************************************************************************)
(* What the stats cache promises its users: for each file, nothing or the  *)
(* size that the latest version of the file published for it had. It may   *)
(* forget any entry at any time, and never goes back to an older version.  *)
(* (stats_cache.h:30-41, and the comment at stats_cache.cc:34-38.)         *)
(***************************************************************************)
EXTENDS Integers

CONSTANTS Files, Sizes, Mtimes

VARIABLE known      \* per file, the size and mtime of its entry, or Nothing

Nothing == [size |-> -1, mtime |-> -1]

CacheInit == known = [f \in Files |-> Nothing]

Publish(f, size, mtime) ==
    /\ known[f].mtime <= mtime
    /\ known' = [known EXCEPT ![f] = [size |-> size, mtime |-> mtime]]

Forget(f) == known' = [known EXCEPT ![f] = Nothing]

CacheNext ==
    \E f \in Files :
        \/ Forget(f)
        \/ \E size \in Sizes, mtime \in Mtimes : Publish(f, size, mtime)

CacheSpec == CacheInit /\ [][CacheNext]_known
====
