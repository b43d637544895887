---------------------------- MODULE MCExtraction ----------------------------
(* An instance of Extraction for TLC: of the codes, one is a modern syllable,  *)
(* one old Hangul without and one with a final, and one has an initial that is *)
(* not modern although L_MAP has a number for it.                              *)
EXTENDS Extraction
=============================================================================
