---------------------------- MODULE MCWatchPaths ----------------------------
(* Instances of WatchPaths for TLC; handlers, folders and the slots of live   *)
(* scans are interchangeable.                                                 *)
EXTENDS WatchPaths, TLC

Symmetry == Permutations(Clients) \cup Permutations(Paths) \cup Permutations(Runs)
==============================================================================
