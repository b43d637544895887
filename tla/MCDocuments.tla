---------------------------- MODULE MCDocuments ----------------------------
(* An instance of Searching and Extraction for TLC. The two share no state: a   *)
(* request is answered, then a file is read, and either any request meets one   *)
(* file that is ignored, or one request that is refused meets any file. Of the  *)
(* codes, two are syllables on both sides of a gap in V_MAP, one is a lone      *)
(* initial and one a lone vowel.                                                *)
EXTENDS Extraction, Searching

IgnoredFile == [lock |-> TRUE, extension |-> "other", head |-> "other"]
EmptyRequest == content = <<>> /\ query = <<>> /\ exact = FALSE /\ ignoreSpaces = FALSE

DocumentsInit == /\ file = IgnoredFile \/ EmptyRequest
                 /\ Init /\ SearchInit

Answered == stage \in {"done", "refused"}

Answer == SearchNext /\ UNCHANGED vars
ReadFile == Answered /\ Next /\ UNCHANGED searchVars

DocumentsNext == Answer \/ ReadFile

DocumentsSpec == /\ DocumentsInit /\ [][DocumentsNext]_<<vars, searchVars>>
                 /\ WF_<<vars, searchVars>>(Answer)
                 /\ WF_<<vars, searchVars>>(Answered /\ Work /\ UNCHANGED searchVars)
=============================================================================
