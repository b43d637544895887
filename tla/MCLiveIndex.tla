---------------------------- MODULE MCLiveIndex ----------------------------
(* Instances of LiveIndex for TLC. *)
EXTENDS LiveIndex
=============================================================================
