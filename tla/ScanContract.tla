---------------------------- MODULE ScanContract ----------------------------
(***************************************************************************)
(* What one call of IndexRunner.Run promises, with no channel, pool or     *)
(* wait group in sight: every supported document the walk reaches is       *)
(* processed exactly once, a document that fails does not disturb the      *)
(* others, and the call returns only when nothing is left to process, with *)
(* an error exactly when the walk met one.                                 *)
(***************************************************************************)
EXTENDS Naturals

CONSTANT N      \* number of entries filepath.Walk may call back for

\* A document, an entry the scan skips, an entry the walk fails on.
Kinds == {"doc", "other", "error"}

Entries == 1..N

VARIABLES
    tree,       \* the kind of each entry, in the order of the walk
    outcome,    \* what became of each entry: "none", "ok" or "failed"
    result      \* "running", or the error Run returned: "nil" or "err"

vars == <<tree, outcome, result>>

\* The documents the walk visits: it stops at the first error.
Reachable == {p \in Entries : tree[p] = "doc"
                              /\ \A q \in 1..p : tree[q] # "error"}

HasError == \E p \in Entries : tree[p] = "error"

Init == /\ tree \in [Entries -> Kinds]
        /\ outcome = [p \in Entries |-> "none"]
        /\ result = "running"

Process(p) == /\ result = "running"
              /\ p \in Reachable
              /\ outcome[p] = "none"
              /\ \E o \in {"ok", "failed"} : outcome' = [outcome EXCEPT ![p] = o]
              /\ UNCHANGED <<tree, result>>

Return == /\ result = "running"
          /\ \A p \in Reachable : outcome[p] # "none"
          /\ result' = IF HasError THEN "err" ELSE "nil"
          /\ UNCHANGED <<tree, outcome>>

Next == Return \/ \E p \in Entries : Process(p)

SafetySpec == Init /\ [][Next]_vars

Spec == SafetySpec /\ WF_vars(Next)
=============================================================================
