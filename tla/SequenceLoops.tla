---------------------------- MODULE SequenceLoops ----------------------------
(***************************************************************************)
(* A loop that several parts of the program have: it goes over a list and  *)
(* appends what it keeps to a new one.                                     *)
(***************************************************************************)
EXTENDS Naturals, Sequences

\* The elements of s other than e, in their order. What is kept of the first i
\* elements is a function of i, and so open to a proof by induction.
Without(s, e) ==
    LET kept[i \in 0..Len(s)] == IF i = 0 THEN <<>>
                                 ELSE IF s[i] = e THEN kept[i - 1]
                                 ELSE Append(kept[i - 1], s[i])
    IN kept[Len(s)]
==============================================================================
