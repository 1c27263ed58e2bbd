---- MODULE MCMount ----
(***************************************************************************)
(* An instance of Mount with a cache of one entry. One source has a size   *)
(* foreseen too short, and is replaced by a shorter version with a size    *)
(* foreseen too long; the other one stays, and competes for the entry.     *)
(***************************************************************************)
EXTENDS Mount, TLC

CONSTANTS t1, t2, f1, f2, x1, x2

MCThreads == {t1, t2}
MCFiles == {f1, f2}
MCTranscoders == {x1, x2}
MCMtimes == {1, 2}
MCSizes == {1, 2}
MCVersions == f1 :> {1, 2} @@ f2 :> {2}
MCTrueSize == f1 :> <<2, 1>> @@ f2 :> <<1, 1>>
MCForeseenSize == f1 :> <<1, 2>> @@ f2 :> <<1, 1>>
Symmetry == Permutations(MCThreads) \cup Permutations(MCTranscoders)
====
