---- MODULE MCMapCache ----
(***************************************************************************)
(* MapCache on small instances: readers and entries are interchangeable.   *)
(***************************************************************************)
EXTENDS MapCache, TLC

Symmetry == Permutations(Readers) \cup Permutations(Entries)

====
