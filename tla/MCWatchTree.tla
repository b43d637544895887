---------------------------- MODULE MCWatchTree ----------------------------
(* Instances of WatchTree for TLC: a folder with two subdirectories, one of   *)
(* which has a subdirectory of its own.                                        *)
EXTENDS WatchTree

CONSTANTS top, left, right, deep

TreeParent == [d \in Dirs |-> CASE d = top -> None
                                [] d \in {left, right} -> top
                                [] d = deep -> left]

TreeChain == [d \in Dirs |-> CASE d = top -> {top}
                               [] d \in {left, right} -> {top, d}
                               [] d = deep -> {top, left, deep}]
=============================================================================
