---------------------------- MODULE MCIndexRunner ----------------------------
(* Instances of IndexRunner for TLC. The roots, the callers and the slots of  *)
(* live scans are interchangeable in the safety runs.                         *)
EXTENDS IndexRunner, TLC

Symmetry == Permutations(Callers) \cup Permutations(Roots) \cup Permutations(Runs)
==============================================================================
