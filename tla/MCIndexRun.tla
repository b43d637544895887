----------------------------- MODULE MCIndexRun -----------------------------
(* Instances of IndexRun for TLC: the bounds are given in the .cfg files. *)
EXTENDS IndexRun
=============================================================================
