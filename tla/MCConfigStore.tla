---------------------------- MODULE MCConfigStore ----------------------------
(* Instances of ConfigStore for TLC. *)
EXTENDS ConfigStore, TLC

Symmetry == Permutations(Clients) \cup Permutations(Paths)
==============================================================================
