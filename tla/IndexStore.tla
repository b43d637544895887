----------------------------- MODULE IndexStore -----------------------------
(***************************************************************************)
(* indexStore (internal/infra/search/store.go): the handle of the bleve    *)
(* index and the RWMutex around it. Indexing, deletion, search and count   *)
(* run under the read lock; open, reset and close run under the write      *)
(* lock, and a reset closes the index, removes its directory and creates   *)
(* it anew, each of which can fail, or be cut short by the process dying.  *)
(*                                                                         *)
(* The bleve index is external: its documents are a set, its operations    *)
(* are atomic, and it survives a crash unless its directory was being      *)
(* removed or created.                                                     *)
(***************************************************************************)
EXTENDS FiniteSets

CONSTANTS
    Readers,    \* goroutines that index, delete, search or count
    Writers,    \* goroutines that reset or close
    Docs,       \* document identifiers
    None        \* no client

ASSUME ClientsAssumption == Readers \cap Writers = {} /\ None \notin Readers \cup Writers

Clients == Readers \cup Writers

ReadOps == {"put", "delete", "read"}    \* indexDocument, deleteDocument, search and count
WriteOps == {"reset", "close"}

\* Where an operation can be between its start and its return.
ReadPlaces == {"lock", "blocked", "locked", "unlock"}
WritePlaces == {"lock", "drain", "locked", "remove", "removing", "create", "creating", "unlock"}

VARIABLES
    proc,       \* the process: "down", "creating" (its first index), "up", "refused"
    handle,     \* s.index: "nil", "open", or "shut" (closed, but not nil)
    dir,        \* the index directory: "absent", "partial", "valid"
    docs,       \* the documents in it
    op,         \* what each client is doing
    readers,    \* clients that hold the read lock
    blocked,    \* clients whose RLock waits for the writer to unlock
    pending,    \* the client whose Lock keeps new readers out, or None
    writer,     \* the client that holds the write lock, or None
    reply       \* the last answer of each client to a read operation

lockVars == <<readers, blocked, pending, writer>>
vars == <<proc, handle, dir, docs, op, lockVars, reply>>

IdleOp == [kind |-> "none", doc |-> None, at |-> "idle"]
NoAnswer == [out |-> "none", seen |-> {}]

Init == /\ proc = "down"
        /\ handle = "nil"
        /\ dir = "absent"
        /\ docs = {}
        /\ op = [c \in Clients |-> IdleOp]
        /\ readers = {} /\ blocked = {}
        /\ pending = None /\ writer = None
        /\ reply = [c \in Readers |-> NoAnswer]

Goto(c, at) == op' = [op EXCEPT ![c].at = at]

Answer(c, out, seen) == reply' = [reply EXCEPT ![c] = [out |-> out, seen |-> seen]]

-----------------------------------------------------------------------------
(* Startup: NewEngine calls open before anything else runs. *)

\* openOrCreate: os.Stat, then bleve.Open or create. An index that cannot be
\* opened, for whatever reason, ends the program and is left as it is; what is left
\* of one that was being removed or created may open, as an empty index.
Open == /\ proc = "down"
        /\ \/ dir = "absent" /\ proc' = "creating" /\ dir' = "partial" /\ UNCHANGED handle
           \/ dir # "absent" /\ proc' = "up" /\ dir' = "valid" /\ handle' = "open"
           \/ proc' = "refused" /\ UNCHANGED <<handle, dir>>
        /\ UNCHANGED <<docs, op, lockVars, reply>>

\* bleve.New returns the new index, or an error that ends the program.
OpenCreated == /\ proc = "creating"
               /\ \/ proc' = "up" /\ handle' = "open" /\ dir' = "valid"
                  \/ proc' = "refused" /\ UNCHANGED <<handle, dir>>
               /\ UNCHANGED <<docs, op, lockVars, reply>>

-----------------------------------------------------------------------------
(* Read operations. *)

Request(c) == /\ proc = "up"
              /\ op[c] = IdleOp
              /\ \E k \in ReadOps, d \in Docs :
                    op' = [op EXCEPT ![c] = [kind |-> k, doc |-> d, at |-> "lock"]]
              /\ UNCHANGED <<proc, handle, dir, docs, lockVars, reply>>

\* Mutant: the operation takes no lock that a writer's Lock would exclude.
RLockNothing(c) == /\ op[c].kind \in ReadOps
                   /\ op[c].at = "lock"
                   /\ readers' = readers \cup {c}
                   /\ Goto(c, "locked")
                   /\ UNCHANGED <<proc, handle, dir, docs, blocked, pending, writer, reply>>

\* s.mu.RLock(): a reader does not get past a writer that holds or awaits the lock.
RLock(c) == /\ op[c].kind \in ReadOps
            /\ op[c].at = "lock"
            /\ IF pending = None
               THEN readers' = readers \cup {c} /\ Goto(c, "locked") /\ UNCHANGED blocked
               ELSE blocked' = blocked \cup {c} /\ Goto(c, "blocked") /\ UNCHANGED readers
            /\ UNCHANGED <<proc, handle, dir, docs, pending, writer, reply>>

\* The nil check, and the operation of the bleve index.
Access(c) ==
    /\ op[c].kind \in ReadOps
    /\ op[c].at = "locked"
    /\ \/ /\ handle = "nil"
          /\ Answer(c, "closed", {})
          /\ UNCHANGED docs
       \/ /\ handle # "nil"
          /\ Answer(c, "failed", {})
          /\ UNCHANGED docs
       \/ /\ handle = "open"
          /\ docs' = IF op[c].kind = "put" THEN docs \cup {op[c].doc}
                     ELSE IF op[c].kind = "delete" THEN docs \ {op[c].doc}
                     ELSE docs
          /\ Answer(c, "ok", IF op[c].kind = "read" THEN docs ELSE {})
    /\ Goto(c, "unlock")
    /\ UNCHANGED <<proc, handle, dir, lockVars>>

\* defer s.mu.RUnlock()
RUnlock(c) == /\ op[c].kind \in ReadOps
              /\ op[c].at = "unlock"
              /\ readers' = readers \ {c}
              /\ op' = [op EXCEPT ![c] = IdleOp]
              /\ UNCHANGED <<proc, handle, dir, docs, blocked, pending, writer, reply>>

-----------------------------------------------------------------------------
(* Write operations. *)

RequestWrite(c) == /\ proc = "up"
                   /\ op[c] = IdleOp
                   /\ \E k \in WriteOps :
                         op' = [op EXCEPT ![c] = [kind |-> k, doc |-> None, at |-> "lock"]]
                   /\ UNCHANGED <<proc, handle, dir, docs, lockVars, reply>>

\* s.mu.Lock(): one writer at a time announces itself and keeps new readers out,
Announce(c) == /\ op[c].kind \in WriteOps
               /\ op[c].at = "lock"
               /\ pending = None
               /\ pending' = c
               /\ Goto(c, "drain")
               /\ UNCHANGED <<proc, handle, dir, docs, readers, blocked, writer, reply>>

\* and has the lock when the readers before it are gone.
Acquire(c) == /\ op[c].at = "drain"
              /\ readers = {}
              /\ writer' = c
              /\ Goto(c, "locked")
              /\ UNCHANGED <<proc, handle, dir, docs, readers, blocked, pending, reply>>

\* Mutant: the readers that waited stay blocked after the writer has left.
UnlockForgetting(c) == /\ op[c].kind \in WriteOps
                       /\ op[c].at = "unlock"
                       /\ writer' = None /\ pending' = None
                       /\ op' = [op EXCEPT ![c] = IdleOp]
                       /\ UNCHANGED <<proc, handle, dir, docs, readers, blocked, reply>>

\* Mutant: the writer lets new readers in before it has given the lock back.
UnlockHalf(c) == /\ op[c].kind \in WriteOps
                 /\ op[c].at = "unlock"
                 /\ pending' = None
                 /\ op' = [op EXCEPT ![c] = IdleOp]
                 /\ UNCHANGED <<proc, handle, dir, docs, readers, blocked, writer, reply>>

\* defer s.mu.Unlock(): the readers that waited go first.
Unlock(c) == /\ op[c].kind \in WriteOps
             /\ op[c].at = "unlock"
             /\ writer' = None /\ pending' = None
             /\ readers' = blocked /\ blocked' = {}
             /\ op' = [d \in Clients |->
                          IF d = c THEN IdleOp
                          ELSE IF d \in blocked THEN [op[d] EXCEPT !.at = "locked"]
                          ELSE op[d]]
             /\ UNCHANGED <<proc, handle, dir, docs, reply>>

\* Mutant: the handle is not set to nil after Close.
ResetKeepsHandle(c) == /\ op[c].kind = "reset"
                       /\ op[c].at = "locked"
                       /\ \/ handle = "nil" /\ Goto(c, "unlock")
                          \/ handle # "nil" /\ Goto(c, "remove")
                       /\ UNCHANGED <<proc, handle, dir, docs, lockVars, reply>>

\* reset: the nil check, then s.index.Close(); a failure returns with the handle set.
ResetClose(c) == /\ op[c].kind = "reset"
                 /\ op[c].at = "locked"
                 /\ \/ handle = "nil" /\ Goto(c, "unlock") /\ UNCHANGED handle
                    \/ handle # "nil" /\ handle' = "nil" /\ Goto(c, "remove")
                    \/ handle # "nil" /\ handle' = "shut" /\ Goto(c, "unlock")
                 /\ UNCHANGED <<proc, dir, docs, lockVars, reply>>

\* recreate: os.RemoveAll starts, or fails before it removed anything.
RemoveDir(c) == /\ op[c].at = "remove"
                /\ \/ dir' = "partial" /\ docs' = {} /\ Goto(c, "removing")
                   \/ UNCHANGED <<dir, docs>> /\ Goto(c, "unlock")
                /\ UNCHANGED <<proc, handle, lockVars, reply>>

\* os.RemoveAll ends, or fails with part of the directory left.
RemovedDir(c) == /\ op[c].at = "removing"
                 /\ \/ dir' = "absent" /\ Goto(c, "create")
                    \/ UNCHANGED dir /\ Goto(c, "unlock")
                 /\ UNCHANGED <<proc, handle, docs, lockVars, reply>>

\* create: bleve.New begins, and
CreateDir(c) == /\ op[c].at = "create"
                /\ dir' = "partial"
                /\ Goto(c, "creating")
                /\ UNCHANGED <<proc, handle, docs, lockVars, reply>>

\* returns the new index, or an error that leaves s.index nil.
CreatedDir(c) == /\ op[c].at = "creating"
                 /\ \/ dir' = "valid" /\ handle' = "open"
                    \/ UNCHANGED <<dir, handle>>
                 /\ Goto(c, "unlock")
                 /\ UNCHANGED <<proc, docs, lockVars, reply>>

\* close: whatever Close returns, the handle is nil afterwards.
CloseHandle(c) == /\ op[c].kind = "close"
                  /\ op[c].at = "locked"
                  /\ handle' = "nil"
                  /\ Goto(c, "unlock")
                  /\ UNCHANGED <<proc, dir, docs, lockVars, reply>>

-----------------------------------------------------------------------------
\* The process dies, or has ended by itself: everything but the directory is gone,
\* and the program may be started again.
Crash == /\ proc # "down"
         /\ proc' = "down"
         /\ handle' = "nil"
         /\ op' = [c \in Clients |-> IdleOp]
         /\ readers' = {} /\ blocked' = {}
         /\ pending' = None /\ writer' = None
         /\ reply' = [c \in Readers |-> NoAnswer]
         /\ UNCHANGED <<dir, docs>>

ReadStep(c) == RLock(c) \/ Access(c) \/ RUnlock(c)

WriteStep(c) == \/ Announce(c) \/ Acquire(c) \/ Unlock(c)
                \/ ResetClose(c) \/ RemoveDir(c) \/ RemovedDir(c)
                \/ CreateDir(c) \/ CreatedDir(c) \/ CloseHandle(c)

Serve == \/ Open \/ OpenCreated
         \/ \E c \in Readers : Request(c) \/ ReadStep(c)
         \/ \E c \in Writers : RequestWrite(c) \/ WriteStep(c)

Next == Serve \/ Crash

Spec == Init /\ [][Next]_vars

\* While the process lives, each client's goroutine is scheduled, and
\* sync.Mutex hands the lock to a waiter after a millisecond at most (its
\* starvation mode): a writer waiting for its turn to announce gets it.
LiveSpec == /\ Spec
            /\ \A c \in Readers : WF_vars(ReadStep(c))
            /\ \A c \in Writers : WF_vars(WriteStep(c)) /\ SF_vars(Announce(c))

-----------------------------------------------------------------------------
\* The types of the state; a client is in a place its kind of operation has, and
\* the write lock is held only by the writer that announced itself.
TypeOK == /\ proc \in {"down", "creating", "up", "refused"}
          /\ handle \in {"nil", "open", "shut"}
          /\ dir \in {"absent", "partial", "valid"}
          /\ docs \subseteq Docs
          /\ \A c \in Readers :
                op[c] \in [kind : ReadOps, doc : Docs, at : ReadPlaces] \cup {IdleOp}
          /\ \A c \in Writers :
                op[c] \in [kind : WriteOps, doc : {None}, at : WritePlaces] \cup {IdleOp}
          /\ readers \subseteq Readers /\ blocked \subseteq Readers
          /\ pending \in Writers \cup {None}
          /\ writer \in {pending, None}
          /\ reply \in [Readers -> [out : {"none", "ok", "failed", "closed"},
                                    seen : SUBSET Docs]]

\* A reset between closing the old index and opening the new one.
Rebuilding == \E c \in Clients : op[c].at \in {"remove", "removing", "create", "creating"}

\* At every moment of a reset a handle, closed or not, is one of a complete
\* directory, so that a reset whose Close failed can be tried again; and documents
\* are in a complete directory, however often the program died or refused to start:
\* only a reset creates over an index that exists.
HandleMatchesDirectory == /\ handle # "nil" => dir = "valid"
                          /\ docs # {} => dir = "valid"

\* Refinement: while a reset rebuilds the index, nobody can tell that the handle
\* is nil, so to the clients the index goes on serving; the reset takes effect
\* when the directory begins to go.
Status == IF proc \in {"down", "creating"} THEN "down"
          ELSE IF proc = "refused" THEN "refused"
          ELSE IF handle = "open" \/ Rebuilding THEN "serving"
          ELSE IF handle = "shut" THEN "broken"
          ELSE "dead"

Index == INSTANCE DocumentIndex WITH Clients <- Readers, status <- Status

ImplementsDocumentIndex == Index!Spec

\* Every operation on the index returns: readers that keep coming do not hold a
\* reset off, and resets do not hold readers off.
OperationsReturn == \A c \in Clients : op[c] # IdleOp ~> op[c] = IdleOp
==============================================================================
