---------------------------- MODULE MCIndexStore ----------------------------
(* An instance of IndexStore for TLC. *)
EXTENDS IndexStore
==============================================================================
