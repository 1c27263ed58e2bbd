---- MODULE MCStatsCache ----
(***************************************************************************)
(* An instance of StatsCache. Versions are the matter of MCMount: here all *)
(* have the same mtime and size, and entries differ by their access times. *)
(***************************************************************************)
EXTENDS StatsCache

OneMtime == {1}
OneSize == {1}
====
