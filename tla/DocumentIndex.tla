---------------------------- MODULE DocumentIndex ----------------------------
(***************************************************************************)
(* What the search index promises its clients (the file watcher, the scan  *)
(* workers and the HTTP handlers): a set of documents that is read and     *)
(* written atomically, emptied atomically by a reset, kept over a crash,   *)
(* and answering "closed" only when it is really out of service. Nothing   *)
(* here mentions a lock, a handle or a directory.                          *)
(***************************************************************************)
EXTENDS FiniteSets

CONSTANTS Clients, Docs

VARIABLES
    docs,       \* the documents in the index
    status,     \* "serving", "broken", "dead", "down" or "refused"
    reply       \* the last answer each client got

vars == <<docs, status, reply>>

Answers == [out : {"ok", "failed", "closed"}, seen : SUBSET Docs]
NoAnswer == [out |-> "none", seen |-> {}]

Answer(c, out, seen) == reply' = [reply EXCEPT ![c] = [out |-> out, seen |-> seen]]

Init == /\ docs = {}
        /\ status = "down"
        /\ reply = [c \in Clients |-> NoAnswer]

Put(c, d) == /\ status = "serving"
             /\ docs' = docs \cup {d}
             /\ Answer(c, "ok", {})
             /\ UNCHANGED status

Delete(c, d) == /\ status = "serving"
                /\ docs' = docs \ {d}
                /\ Answer(c, "ok", {})
                /\ UNCHANGED status

\* A search sees exactly the documents of one moment.
Read(c) == /\ status = "serving"
           /\ Answer(c, "ok", docs)
           /\ UNCHANGED <<docs, status>>

\* The index answers an operation with an error of its own.
Fail(c) == /\ status \in {"serving", "broken"}
           /\ Answer(c, "failed", {})
           /\ UNCHANGED <<docs, status>>

\* "index is closed", from an index that is out of service for good.
Refuse(c) == /\ status = "dead"
             /\ Answer(c, "closed", {})
             /\ UNCHANGED <<docs, status>>

Reset == /\ status = "serving"
         /\ docs' = {}
         /\ UNCHANGED <<status, reply>>

\* A reset that failed half-way is tried again.
RetryReset == /\ status = "broken"
              /\ status' = "serving"
              /\ UNCHANGED <<docs, reply>>

\* A reset fails, or the index is closed.
GoOutOfService == /\ status \in {"serving", "broken"}
                  /\ status' \in {"broken", "dead"}
                  /\ UNCHANGED <<docs, reply>>

\* The process dies, or has refused to start; what was indexed stays on disk.
Crash == /\ status # "down"
         /\ status' = "down"
         /\ reply' = [c \in Clients |-> NoAnswer]
         /\ UNCHANGED docs

\* The program starts on the index it left, or refuses to, which costs no document.
Restart == /\ status = "down"
           /\ status' \in {"serving", "refused"}
           /\ UNCHANGED <<docs, reply>>

Next == \/ \E c \in Clients : \/ \E d \in Docs : Put(c, d) \/ Delete(c, d)
                              \/ Read(c) \/ Fail(c) \/ Refuse(c)
        \/ Reset \/ RetryReset \/ GoOutOfService \/ Crash \/ Restart

Spec == Init /\ [][Next]_vars
==============================================================================
