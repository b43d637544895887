--------------------------- MODULE IndexStoreProof ---------------------------
(***************************************************************************)
(* Proofs about IndexStore for any number of clients and documents.        *)
(***************************************************************************)
EXTENDS IndexStore, TLAPS

ReadRec == [kind : ReadOps, doc : Docs, at : ReadPlaces]
WriteRec == [kind : WriteOps, doc : {None}, at : WritePlaces]

Opened(c) == op[c].at \in {"locked", "unlock"}
Waiting(c) == op[c].at = "blocked"
Announced(c) == op[c].at \in WritePlaces \ {"lock"}
Owning(c) == op[c].at \in WritePlaces \ {"lock", "drain"}
InReset(c) == op[c].at \in {"remove", "removing", "create", "creating"}

\* What the lock knows is where the clients are; the writer and the readers exclude
\* each other.
LockInv == /\ op = [c \in Clients |-> op[c]]
           /\ \A c \in Readers : (c \in readers <=> Opened(c)) /\ (c \in blocked <=> Waiting(c))
           /\ \A c \in Writers : (c = pending <=> Announced(c)) /\ (c = writer <=> Owning(c))
           /\ writer # None => readers = {}
           /\ pending = None => blocked = {}

\* The directory at each place of a reset, and before the program serves.
DirInv == /\ handle # "nil" => dir = "valid"
          /\ docs # {} => dir = "valid"
          /\ \A c \in Writers : /\ InReset(c) => handle = "nil" /\ op[c].kind = "reset"
                                /\ op[c].at = "remove" => dir = "valid"
                                /\ op[c].at \in {"removing", "creating"} => dir = "partial"
                                /\ op[c].at = "create" => dir = "absent"
          /\ proc # "up" => /\ handle = "nil"
                            /\ \A c \in Clients : op[c] = IdleOp
                            /\ reply = [c \in Readers |-> NoAnswer]
          /\ proc = "creating" => dir = "partial"

IndInv == TypeOK /\ LockInv /\ DirInv

-----------------------------------------------------------------------------
(* Where the clients are. *)

\* A client that is somewhere is in an operation of its own kind.
LEMMA ReaderAt ==
  ASSUME IndInv, NEW c \in Readers, op[c].at # "idle" \/ op[c].kind \in ReadOps
  PROVE  op[c] \in ReadRec /\ op[c].kind \in ReadOps /\ op[c].at \in ReadPlaces /\ op[c].doc \in Docs
BY DEF IndInv, TypeOK, IdleOp, ReadRec, ReadOps

LEMMA WriterAt ==
  ASSUME IndInv, NEW c \in Writers, op[c].at # "idle" \/ op[c].kind \in WriteOps
  PROVE  op[c] \in WriteRec /\ op[c].kind \in WriteOps /\ op[c].at \in WritePlaces
BY DEF IndInv, TypeOK, IdleOp, WriteRec, WriteOps

LEMMA KindsApart ==
  ASSUME IndInv, NEW c \in Clients
  PROVE  /\ op[c].kind \in ReadOps => c \in Readers
         /\ op[c].kind \in WriteOps => c \in Writers
         /\ op[c].at \in WritePlaces \ ReadPlaces => c \in Writers
BY DEF IndInv, TypeOK, IdleOp, Clients, ReadOps, WriteOps, ReadPlaces, WritePlaces

LEMMA MoveReader ==
  ASSUME IndInv, NEW c \in Readers, op[c] \in ReadRec, NEW at \in ReadPlaces, Goto(c, at)
  PROVE  /\ op' = [d \in Clients |-> op'[d]]
         /\ \A d \in Clients : d # c => op'[d] = op[d]
         /\ op'[c] \in ReadRec /\ op'[c].at = at /\ op'[c].kind = op[c].kind
BY DEF IndInv, LockInv, Goto, Clients, ReadRec

LEMMA MoveWriter ==
  ASSUME IndInv, NEW c \in Writers, op[c] \in WriteRec, NEW at \in WritePlaces, Goto(c, at)
  PROVE  /\ op' = [d \in Clients |-> op'[d]]
         /\ \A d \in Clients : d # c => op'[d] = op[d]
         /\ op'[c] \in WriteRec /\ op'[c].at = at /\ op'[c].kind = op[c].kind
BY DEF IndInv, LockInv, Goto, Clients, WriteRec

\* One writer at a time is past its announcement.
LEMMA OneWriter ==
  ASSUME IndInv, NEW c \in Writers, Announced(c)
  PROVE  /\ pending = c
         /\ \A d \in Writers \ {c} : ~Announced(d) /\ ~Owning(d) /\ ~InReset(d)
         /\ Owning(c) => writer = c /\ readers = {} /\ \A d \in Readers : ~Opened(d)
BY ClientsAssumption
   DEF IndInv, LockInv, Clients, Announced, Owning, InReset, WritePlaces

\* The operations under the read lock see no reset.
LEMMA ReadersSeeNoReset ==
  ASSUME IndInv, NEW c \in Readers, Opened(c)
  PROVE  ~Rebuilding
<1>1. writer = None
  BY DEF IndInv, LockInv
<1> SUFFICES ASSUME NEW d \in Clients, op[d].at \in {"remove", "removing", "create", "creating"}
             PROVE FALSE
  BY DEF Rebuilding
<1>2. d \in Writers
  BY KindsApart DEF WritePlaces, ReadPlaces
<1>3. Owning(d)
  BY DEF Owning, WritePlaces
<1> QED  BY <1>1, <1>2, <1>3, ClientsAssumption DEF IndInv, LockInv
-----------------------------------------------------------------------------
(* The invariant: each action. *)

\* A reader moves: the writers, the handle and the directory stay as they are.
LEMMA ReaderMoves ==
  ASSUME IndInv, NEW c \in Readers, op[c] \in ReadRec, NEW at \in ReadPlaces, Goto(c, at),
         UNCHANGED <<proc, handle, dir, pending, writer>>,
         docs' \subseteq Docs, docs' # {} => dir = "valid",
         reply' \in [Readers -> [out : {"none", "ok", "failed", "closed"}, seen : SUBSET Docs]],
         readers' = IF at \in {"locked", "unlock"} THEN readers \cup {c} ELSE readers \ {c},
         blocked' = IF at = "blocked" THEN blocked \cup {c} ELSE blocked \ {c},
         at \in {"locked", "unlock"} => writer = None,
         at = "blocked" => pending # None
  PROVE  IndInv'
<1>1. /\ op' = [d \in Clients |-> op'[d]]
      /\ \A d \in Clients : d # c => op'[d] = op[d]
      /\ op'[c] \in ReadRec /\ op'[c].at = at /\ op'[c].kind = op[c].kind
  BY MoveReader
<1>2. \A d \in Writers : op'[d] = op[d] /\ d # c
  BY <1>1, ClientsAssumption DEF Clients
<1>3. proc = "up"
  <2>1. op[c] # IdleOp
    BY DEF ReadRec, ReadPlaces, IdleOp
  <2> QED  BY <2>1 DEF IndInv, DirInv, TypeOK, Clients
<1>4. TypeOK'
  <2>1. \A d \in Readers : op'[d] \in ReadRec \cup {IdleOp}
    BY <1>1 DEF IndInv, TypeOK, ReadRec, Clients
  <2>2. \A d \in Writers : op'[d] \in WriteRec \cup {IdleOp}
    BY <1>2 DEF IndInv, TypeOK, WriteRec
  <2>3. readers' \subseteq Readers /\ blocked' \subseteq Readers
    BY DEF IndInv, TypeOK
  <2> QED  BY <2>1, <2>2, <2>3 DEF IndInv, TypeOK, ReadRec, WriteRec
<1>5. LockInv'
  <2>1. \A d \in Readers : (d \in readers' <=> Opened(d)') /\ (d \in blocked' <=> Waiting(d)')
    <3> SUFFICES ASSUME NEW d \in Readers
                 PROVE  (d \in readers' <=> Opened(d)') /\ (d \in blocked' <=> Waiting(d)')
      OBVIOUS
    <3>1. CASE d = c
      BY <1>1, <3>1 DEF Opened, Waiting
    <3>2. CASE d # c
      <4>1. op'[d] = op[d]
        BY <1>1, <3>2 DEF Clients
      <4> QED  BY <3>2, <4>1 DEF IndInv, LockInv, Opened, Waiting
    <3> QED  BY <3>1, <3>2
  <2>2. \A d \in Writers : (d = pending' <=> Announced(d)') /\ (d = writer' <=> Owning(d)')
    BY <1>2 DEF IndInv, LockInv, Announced, Owning
  <2>3. writer' # None => readers' = {}
    BY DEF IndInv, LockInv
  <2>4. pending' = None => blocked' = {}
    BY DEF IndInv, LockInv
  <2> QED  BY <1>1, <2>1, <2>2, <2>3, <2>4 DEF LockInv
<1>6. DirInv'
  <2>1. \A d \in Writers : /\ InReset(d)' => handle' = "nil" /\ op'[d].kind = "reset"
                           /\ op'[d].at = "remove" => dir' = "valid"
                           /\ op'[d].at \in {"removing", "creating"} => dir' = "partial"
                           /\ op'[d].at = "create" => dir' = "absent"
    BY <1>2 DEF IndInv, DirInv, InReset
  <2> QED  BY <1>3, <2>1 DEF IndInv, DirInv
<1> QED  BY <1>4, <1>5, <1>6 DEF IndInv

LEMMA RLockKeeps ==
  ASSUME IndInv, NEW c \in Readers, RLock(c)
  PROVE  IndInv'
<1>1. op[c] \in ReadRec /\ op[c].at = "lock"
  BY ReaderAt DEF RLock
<1>2. c \notin readers /\ c \notin blocked
  BY <1>1 DEF IndInv, LockInv, Opened, Waiting
<1>3. /\ UNCHANGED <<proc, handle, dir, pending, writer, docs, reply>>
      /\ docs \subseteq Docs /\ (docs # {} => dir = "valid")
      /\ reply \in [Readers -> [out : {"none", "ok", "failed", "closed"}, seen : SUBSET Docs]]
  BY DEF RLock, IndInv, TypeOK, DirInv
<1>4. CASE pending = None
  <2>1. /\ readers' = readers \cup {c} /\ Goto(c, "locked") /\ UNCHANGED blocked
        /\ writer = None
    BY <1>4 DEF RLock, IndInv, TypeOK
  <2> QED  BY <1>1, <1>2, <1>3, <2>1, ReaderMoves DEF ReadPlaces
<1>5. CASE pending # None
  <2>1. blocked' = blocked \cup {c} /\ Goto(c, "blocked") /\ UNCHANGED readers
    BY <1>5 DEF RLock
  <2> QED  BY <1>1, <1>2, <1>3, <1>5, <2>1, ReaderMoves DEF ReadPlaces
<1> QED  BY <1>4, <1>5

LEMMA AccessKeeps ==
  ASSUME IndInv, NEW c \in Readers, Access(c)
  PROVE  IndInv'
<1>1. op[c] \in ReadRec /\ op[c].at = "locked" /\ op[c].doc \in Docs
  BY ReaderAt DEF Access
<1>2. c \in readers /\ c \notin blocked /\ writer = None
  BY <1>1 DEF IndInv, LockInv, Opened, Waiting
<1>3. UNCHANGED <<proc, handle, dir, pending, writer, readers, blocked>> /\ Goto(c, "unlock")
  BY DEF Access, lockVars
<1>4. docs' \subseteq Docs /\ (docs' # {} => dir = "valid")
  BY <1>1 DEF Access, IndInv, TypeOK, DirInv
<1>5. reply' \in [Readers -> [out : {"none", "ok", "failed", "closed"}, seen : SUBSET Docs]]
  <2>1. docs \subseteq Docs
         /\ reply \in [Readers -> [out : {"none", "ok", "failed", "closed"}, seen : SUBSET Docs]]
    BY DEF IndInv, TypeOK
  <2>2. \/ Answer(c, "closed", {}) \/ Answer(c, "failed", {})
        \/ Answer(c, "ok", docs) \/ Answer(c, "ok", {})
    BY DEF Access
  <2> QED  BY <2>1, <2>2 DEF Answer
<1> QED  BY <1>1, <1>2, <1>3, <1>4, <1>5, ReaderMoves DEF ReadPlaces

\* A client returns.
LEMMA RUnlockKeeps ==
  ASSUME IndInv, NEW c \in Readers, RUnlock(c)
  PROVE  IndInv'
<1>1. /\ op' = [op EXCEPT ![c] = IdleOp] /\ readers' = readers \ {c}
      /\ op[c].at = "unlock" /\ op[c].kind \in ReadOps
      /\ UNCHANGED <<proc, handle, dir, docs, blocked, pending, writer, reply>>
  BY DEF RUnlock
<1>2. /\ op' = [d \in Clients |-> op'[d]] /\ op'[c] = IdleOp
      /\ \A d \in Clients : d # c => op'[d] = op[d]
  BY <1>1 DEF IndInv, LockInv, Clients
<1>3. \A d \in Writers : op'[d] = op[d]
  BY <1>2, ClientsAssumption DEF Clients
<1>4. TypeOK'
  <2>1. \A d \in Readers : op'[d] \in ReadRec \cup {IdleOp}
    BY <1>2 DEF IndInv, TypeOK, ReadRec, Clients
  <2>2. \A d \in Writers : op'[d] \in WriteRec \cup {IdleOp}
    BY <1>3 DEF IndInv, TypeOK, WriteRec
  <2> QED  BY <1>1, <2>1, <2>2 DEF IndInv, TypeOK, ReadRec, WriteRec
<1>5. LockInv'
  <2>1. \A d \in Readers : (d \in readers' <=> Opened(d)') /\ (d \in blocked' <=> Waiting(d)')
    <3>1. c \notin blocked /\ ~(IdleOp.at \in {"locked", "unlock"}) /\ IdleOp.at # "blocked"
      BY <1>1 DEF IndInv, LockInv, Waiting, IdleOp
    <3> QED  BY <1>1, <1>2, <3>1 DEF IndInv, LockInv, Opened, Waiting, Clients
  <2>2. \A d \in Writers : (d = pending' <=> Announced(d)') /\ (d = writer' <=> Owning(d)')
    BY <1>1, <1>3 DEF IndInv, LockInv, Announced, Owning
  <2> QED  BY <1>1, <1>2, <2>1, <2>2 DEF IndInv, LockInv
<1>6. DirInv'
  <2>1. op[c] # IdleOp
    BY <1>1 DEF IdleOp
  <2>2. proc = "up"
    BY <2>1 DEF IndInv, DirInv, TypeOK, Clients
  <2>3. \A d \in Writers : /\ InReset(d)' => handle' = "nil" /\ op'[d].kind = "reset"
                           /\ op'[d].at = "remove" => dir' = "valid"
                           /\ op'[d].at \in {"removing", "creating"} => dir' = "partial"
                           /\ op'[d].at = "create" => dir' = "absent"
    BY <1>1, <1>3 DEF IndInv, DirInv, InReset
  <2> QED  BY <1>1, <2>2, <2>3 DEF IndInv, DirInv
<1> QED  BY <1>4, <1>5, <1>6 DEF IndInv
\* A client begins an operation: it is nowhere yet that the lock knows of.
LEMMA BeginKeeps ==
  ASSUME IndInv, proc = "up", NEW c \in Clients, op[c] = IdleOp, NEW r,
         c \in Readers => r \in ReadRec, c \in Writers => r \in WriteRec,
         r.at = "lock", op' = [op EXCEPT ![c] = r],
         UNCHANGED <<proc, handle, dir, docs, lockVars, reply>>
  PROVE  IndInv'
<1>1. /\ op' = [d \in Clients |-> op'[d]] /\ op'[c] = r
      /\ \A d \in Clients : d # c => op'[d] = op[d]
      /\ UNCHANGED <<proc, handle, dir, docs, readers, blocked, pending, writer, reply>>
  BY DEF IndInv, LockInv, Clients, lockVars
<1>2. TypeOK'
  <2>1. \A d \in Readers : op'[d] \in ReadRec \cup {IdleOp}
    BY <1>1 DEF IndInv, TypeOK, ReadRec, Clients
  <2>2. \A d \in Writers : op'[d] \in WriteRec \cup {IdleOp}
    BY <1>1 DEF IndInv, TypeOK, WriteRec, Clients
  <2> QED  BY <1>1, <2>1, <2>2 DEF IndInv, TypeOK, ReadRec, WriteRec
<1>3. op[c].at = "idle"
  BY DEF IdleOp
<1>4. LockInv'
  <2>1. \A d \in Readers : (d \in readers' <=> Opened(d)') /\ (d \in blocked' <=> Waiting(d)')
    BY <1>1, <1>3 DEF IndInv, LockInv, Opened, Waiting, Clients
  <2>2. \A d \in Writers : (d = pending' <=> Announced(d)') /\ (d = writer' <=> Owning(d)')
    BY <1>1, <1>3 DEF IndInv, LockInv, Announced, Owning, Clients, WritePlaces
  <2> QED  BY <1>1, <2>1, <2>2 DEF IndInv, LockInv
<1>5. DirInv'
  <2>1. \A d \in Writers : /\ InReset(d)' => handle' = "nil" /\ op'[d].kind = "reset"
                           /\ op'[d].at = "remove" => dir' = "valid"
                           /\ op'[d].at \in {"removing", "creating"} => dir' = "partial"
                           /\ op'[d].at = "create" => dir' = "absent"
    BY <1>1 DEF IndInv, DirInv, InReset, Clients
  <2> QED  BY <1>1, <2>1 DEF IndInv, DirInv
<1> QED  BY <1>2, <1>4, <1>5 DEF IndInv

LEMMA RequestKeeps ==
  ASSUME IndInv, NEW c \in Readers, Request(c)
  PROVE  IndInv'
<1>1. PICK k \in ReadOps, d \in Docs :
         op' = [op EXCEPT ![c] = [kind |-> k, doc |-> d, at |-> "lock"]]
  BY DEF Request
<1> DEFINE r == [kind |-> k, doc |-> d, at |-> "lock"]
<1>2. r \in ReadRec /\ r.at = "lock" /\ c \notin Writers /\ c \in Clients
  BY ClientsAssumption DEF ReadRec, ReadPlaces, Clients
<1>3. proc = "up" /\ op[c] = IdleOp /\ UNCHANGED <<proc, handle, dir, docs, lockVars, reply>>
  BY DEF Request
<1> HIDE DEF r
<1>4. op' = [op EXCEPT ![c] = r]
  BY <1>1 DEF r
<1> QED  BY <1>2, <1>3, <1>4, BeginKeeps

LEMMA RequestWriteKeeps ==
  ASSUME IndInv, NEW c \in Writers, RequestWrite(c)
  PROVE  IndInv'
<1>1. PICK k \in WriteOps :
         op' = [op EXCEPT ![c] = [kind |-> k, doc |-> None, at |-> "lock"]]
  BY DEF RequestWrite
<1> DEFINE r == [kind |-> k, doc |-> None, at |-> "lock"]
<1>2. r \in WriteRec /\ r.at = "lock" /\ c \notin Readers /\ c \in Clients
  BY ClientsAssumption DEF WriteRec, WritePlaces, Clients
<1>3. proc = "up" /\ op[c] = IdleOp /\ UNCHANGED <<proc, handle, dir, docs, lockVars, reply>>
  BY DEF RequestWrite
<1> HIDE DEF r
<1>4. op' = [op EXCEPT ![c] = r]
  BY <1>1 DEF r
<1> QED  BY <1>2, <1>3, <1>4, BeginKeeps

\* A writer on its way to the lock or with the lock goes on; while it has the lock,
\* there is no reader, and what it does to the index concerns only itself.
LEMMA WriterMoves ==
  ASSUME IndInv, NEW c \in Writers, op[c] \in WriteRec, NEW at \in WritePlaces \ {"lock"},
         Goto(c, at), UNCHANGED <<proc, readers, blocked, reply>>,
         pending \in {c, None}, pending' = c,
         writer' = IF at = "drain" THEN None ELSE c, writer' # None => readers = {},
         handle' \in {"nil", "open", "shut"}, dir' \in {"absent", "partial", "valid"},
         docs' \subseteq Docs, handle' # "nil" => dir' = "valid", docs' # {} => dir' = "valid",
         at \in {"remove", "removing", "create", "creating"}
            => handle' = "nil" /\ op[c].kind = "reset",
         at = "remove" => dir' = "valid",
         at \in {"removing", "creating"} => dir' = "partial",
         at = "create" => dir' = "absent"
  PROVE  IndInv'
<1>1. /\ op' = [d \in Clients |-> op'[d]]
      /\ \A d \in Clients : d # c => op'[d] = op[d]
      /\ op'[c] \in WriteRec /\ op'[c].at = at /\ op'[c].kind = op[c].kind
  BY MoveWriter
<1>2. \A d \in Readers : op'[d] = op[d] /\ d # c
  BY <1>1, ClientsAssumption DEF Clients
<1>3. proc = "up"
  <2>1. op[c] # IdleOp
    BY DEF WriteRec, WritePlaces, IdleOp
  <2> QED  BY <2>1 DEF IndInv, DirInv, TypeOK, Clients
<1>4. TypeOK'
  <2>1. \A d \in Readers : op'[d] \in ReadRec \cup {IdleOp}
    BY <1>2 DEF IndInv, TypeOK, ReadRec
  <2>2. \A d \in Writers : op'[d] \in WriteRec \cup {IdleOp}
    BY <1>1 DEF IndInv, TypeOK, WriteRec, Clients
  <2> QED  BY <2>1, <2>2 DEF IndInv, TypeOK, ReadRec, WriteRec
<1>5. \A d \in Writers \ {c} : op'[d] = op[d] /\ ~Announced(d) /\ ~Owning(d) /\ ~InReset(d)
  <2>1. \A d \in Writers \ {c} : d # pending
    BY ClientsAssumption DEF Clients
  <2>2. \A d \in Writers \ {c} : ~Announced(d)
    BY <2>1 DEF IndInv, LockInv
  <2> QED  BY <1>1, <2>2 DEF Announced, Owning, InReset, Clients, WritePlaces
<1>6. LockInv'
  <2>1. \A d \in Readers : (d \in readers' <=> Opened(d)') /\ (d \in blocked' <=> Waiting(d)')
    BY <1>2 DEF IndInv, LockInv, Opened, Waiting
  <2>2. \A d \in Writers : (d = pending' <=> Announced(d)') /\ (d = writer' <=> Owning(d)')
    <3>1. c # None
      BY ClientsAssumption
    <3>2. ASSUME NEW d \in Writers \ {c}
          PROVE  ~Announced(d)' /\ ~Owning(d)' /\ d # writer' /\ d # pending'
      <4>1. d # None
        BY ClientsAssumption
      <4> QED  BY <1>5, <4>1 DEF Announced, Owning
    <3>3. Announced(c)' /\ (Owning(c)' <=> at # "drain")
      BY <1>1 DEF Announced, Owning
    <3> QED  BY <3>1, <3>2, <3>3
  <2>3. (writer' # None => readers' = {}) /\ (pending' = None => blocked' = {})
    BY ClientsAssumption
  <2> QED  BY <1>1, <2>1, <2>2, <2>3 DEF LockInv
<1>7. DirInv'
  <2>1. \A d \in Writers : /\ InReset(d)' => handle' = "nil" /\ op'[d].kind = "reset"
                           /\ op'[d].at = "remove" => dir' = "valid"
                           /\ op'[d].at \in {"removing", "creating"} => dir' = "partial"
                           /\ op'[d].at = "create" => dir' = "absent"
    BY <1>1, <1>5 DEF InReset
  <2> QED  BY <1>3, <2>1 DEF DirInv
<1> QED  BY <1>4, <1>6, <1>7 DEF IndInv

LEMMA AnnounceKeeps ==
  ASSUME IndInv, NEW c \in Writers, Announce(c)
  PROVE  IndInv'
<1>1. op[c] \in WriteRec /\ pending = None /\ writer = None
  BY WriterAt DEF Announce, IndInv, TypeOK
<1>2. /\ Goto(c, "drain") /\ pending' = c
      /\ UNCHANGED <<proc, handle, dir, docs, readers, blocked, writer, reply>>
  BY DEF Announce
<1> QED  BY <1>1, <1>2, WriterMoves DEF IndInv, TypeOK, DirInv, WritePlaces

LEMMA AcquireKeeps ==
  ASSUME IndInv, NEW c \in Clients, Acquire(c)
  PROVE  IndInv' /\ c \in Writers
<1>1. c \in Writers
  BY KindsApart DEF Acquire, WritePlaces, ReadPlaces
<1>2. op[c] \in WriteRec /\ pending = c
  <2>1. op[c].at = "drain" /\ Announced(c)
    BY DEF Acquire, Announced, WritePlaces
  <2> QED  BY <1>1, <2>1, WriterAt DEF IndInv, LockInv
<1>3. /\ Goto(c, "locked") /\ writer' = c /\ readers = {}
      /\ UNCHANGED <<proc, handle, dir, docs, readers, blocked, pending, reply>>
  BY DEF Acquire
<1> QED  BY <1>1, <1>2, <1>3, WriterMoves DEF IndInv, TypeOK, DirInv, WritePlaces

\* A step of the writer that has the lock.
LEMMA OwnerStep ==
  ASSUME IndInv, NEW c \in Clients, op[c].at \in WritePlaces \ {"lock", "drain"},
         op[c].kind \in WriteOps \/ op[c].at \notin ReadPlaces
  PROVE  c \in Writers /\ op[c] \in WriteRec /\ pending = c /\ writer = c /\ readers = {}
<1>1. c \in Writers
  BY KindsApart
<1>2. Announced(c) /\ Owning(c) /\ op[c].at # "idle"
  BY DEF Announced, Owning, WritePlaces
<1> QED  BY <1>1, <1>2, WriterAt, ClientsAssumption DEF IndInv, LockInv
LEMMA ResetCloseKeeps ==
  ASSUME IndInv, NEW c \in Clients, ResetClose(c)
  PROVE  IndInv'
<1>1. /\ c \in Writers /\ op[c] \in WriteRec /\ pending = c /\ writer = c /\ readers = {}
  BY OwnerStep DEF ResetClose, WritePlaces, ReadPlaces, WriteOps
<1>2. c # None
  BY <1>1, ClientsAssumption
<1>3. TypeOK /\ DirInv /\ lockVars' = lockVars
  BY DEF ResetClose, IndInv
<1> QED  BY <1>1, <1>2, <1>3, WriterMoves DEF ResetClose, TypeOK, DirInv, InReset, lockVars, WritePlaces

LEMMA RemoveDirKeeps ==
  ASSUME IndInv, NEW c \in Clients, RemoveDir(c)
  PROVE  IndInv'
<1>1. /\ c \in Writers /\ op[c] \in WriteRec /\ pending = c /\ writer = c /\ readers = {}
  BY OwnerStep DEF RemoveDir, WritePlaces, ReadPlaces, WriteOps
<1>2. c # None
  BY <1>1, ClientsAssumption
<1>3. TypeOK /\ DirInv /\ lockVars' = lockVars
  BY DEF RemoveDir, IndInv
<1> QED  BY <1>1, <1>2, <1>3, WriterMoves DEF RemoveDir, TypeOK, DirInv, InReset, lockVars, WritePlaces

LEMMA RemovedDirKeeps ==
  ASSUME IndInv, NEW c \in Clients, RemovedDir(c)
  PROVE  IndInv'
<1>1. /\ c \in Writers /\ op[c] \in WriteRec /\ pending = c /\ writer = c /\ readers = {}
  BY OwnerStep DEF RemovedDir, WritePlaces, ReadPlaces, WriteOps
<1>2. c # None
  BY <1>1, ClientsAssumption
<1>3. TypeOK /\ DirInv /\ lockVars' = lockVars
  BY DEF RemovedDir, IndInv
<1> QED  BY <1>1, <1>2, <1>3, WriterMoves DEF RemovedDir, TypeOK, DirInv, InReset, lockVars, WritePlaces

LEMMA CreateDirKeeps ==
  ASSUME IndInv, NEW c \in Clients, CreateDir(c)
  PROVE  IndInv'
<1>1. /\ c \in Writers /\ op[c] \in WriteRec /\ pending = c /\ writer = c /\ readers = {}
  BY OwnerStep DEF CreateDir, WritePlaces, ReadPlaces, WriteOps
<1>2. c # None
  BY <1>1, ClientsAssumption
<1>3. TypeOK /\ DirInv /\ lockVars' = lockVars
  BY DEF CreateDir, IndInv
<1> QED  BY <1>1, <1>2, <1>3, WriterMoves DEF CreateDir, TypeOK, DirInv, InReset, lockVars, WritePlaces

LEMMA CreatedDirKeeps ==
  ASSUME IndInv, NEW c \in Clients, CreatedDir(c)
  PROVE  IndInv'
<1>1. /\ c \in Writers /\ op[c] \in WriteRec /\ pending = c /\ writer = c /\ readers = {}
  BY OwnerStep DEF CreatedDir, WritePlaces, ReadPlaces, WriteOps
<1>2. c # None
  BY <1>1, ClientsAssumption
<1>3. TypeOK /\ DirInv /\ lockVars' = lockVars
  BY DEF CreatedDir, IndInv
<1> QED  BY <1>1, <1>2, <1>3, WriterMoves DEF CreatedDir, TypeOK, DirInv, InReset, lockVars, WritePlaces

LEMMA CloseHandleKeeps ==
  ASSUME IndInv, NEW c \in Clients, CloseHandle(c)
  PROVE  IndInv'
<1>1. /\ c \in Writers /\ op[c] \in WriteRec /\ pending = c /\ writer = c /\ readers = {}
  BY OwnerStep DEF CloseHandle, WritePlaces, ReadPlaces, WriteOps
<1>2. c # None
  BY <1>1, ClientsAssumption
<1>3. TypeOK /\ DirInv /\ lockVars' = lockVars
  BY DEF CloseHandle, IndInv
<1> QED  BY <1>1, <1>2, <1>3, WriterMoves DEF CloseHandle, TypeOK, DirInv, InReset, lockVars, WritePlaces

\* The lock is given back; the readers that waited have it.
LEMMA UnlockKeeps ==
  ASSUME IndInv, NEW c \in Clients, Unlock(c)
  PROVE  IndInv'
<1>1. /\ c \in Writers /\ op[c] \in WriteRec /\ pending = c /\ writer = c /\ readers = {}
  BY OwnerStep DEF Unlock, WritePlaces, ReadPlaces
<1>2. /\ op' = [d \in Clients |-> IF d = c THEN IdleOp
                                  ELSE IF d \in blocked THEN [op[d] EXCEPT !.at = "locked"]
                                  ELSE op[d]]
      /\ writer' = None /\ pending' = None /\ readers' = blocked /\ blocked' = {}
      /\ UNCHANGED <<proc, handle, dir, docs, reply>>
  BY DEF Unlock
<1>3. /\ op' = [d \in Clients |-> op'[d]] /\ op'[c] = IdleOp
      /\ \A d \in Readers : op'[d] = IF d \in blocked THEN [op[d] EXCEPT !.at = "locked"] ELSE op[d]
      /\ \A d \in Writers \ {c} : op'[d] = op[d]
  <2>1. c \notin Readers /\ blocked \cap Writers = {}
    BY <1>1, ClientsAssumption DEF IndInv, TypeOK
  <2> QED  BY <1>2, <2>1 DEF Clients
<1>4. \A d \in Readers \cap blocked : op[d] \in ReadRec /\ op[d].at = "blocked"
  BY ReaderAt DEF IndInv, LockInv, Waiting
<1>5. \A d \in Readers \cap blocked : op'[d] \in ReadRec /\ op'[d].at = "locked"
  BY <1>3, <1>4 DEF ReadRec, ReadPlaces
<1>6. \A d \in Writers \ {c} : ~Announced(d) /\ ~Owning(d) /\ ~InReset(d)
  <2>1. Announced(c)
    BY <1>1, ClientsAssumption DEF IndInv, LockInv
  <2> QED  BY <1>1, <2>1, OneWriter
<1>7. TypeOK'
  <2>1. \A d \in Readers : op'[d] \in ReadRec \cup {IdleOp}
    BY <1>3, <1>5 DEF IndInv, TypeOK, ReadRec
  <2>2. \A d \in Writers : op'[d] \in WriteRec \cup {IdleOp}
    BY <1>3 DEF IndInv, TypeOK, WriteRec
  <2> QED  BY <1>2, <2>1, <2>2 DEF IndInv, TypeOK, ReadRec, WriteRec
<1>8. LockInv'
  <2>1. \A d \in Readers : (d \in readers' <=> Opened(d)') /\ (d \in blocked' <=> Waiting(d)')
    <3> SUFFICES ASSUME NEW d \in Readers
                 PROVE  (d \in readers' <=> Opened(d)') /\ (d \in blocked' <=> Waiting(d)')
      OBVIOUS
    <3>1. CASE d \in blocked
      BY <1>2, <1>5, <3>1 DEF Opened, Waiting
    <3>2. CASE d \notin blocked
      <4>1. op'[d] = op[d] /\ d \notin readers
        BY <1>1, <1>3, <3>2
      <4> QED  BY <1>2, <3>2, <4>1 DEF IndInv, LockInv, Opened, Waiting
    <3> QED  BY <3>1, <3>2
  <2>2. \A d \in Writers : (d = pending' <=> Announced(d)') /\ (d = writer' <=> Owning(d)')
    <3>1. \A d \in Writers : d # None
      BY ClientsAssumption
    <3>2. ~Announced(c)' /\ ~Owning(c)'
      BY <1>3 DEF Announced, Owning, IdleOp, WritePlaces
    <3>3. \A d \in Writers \ {c} : ~Announced(d)' /\ ~Owning(d)'
      BY <1>3, <1>6 DEF Announced, Owning
    <3> QED  BY <1>2, <3>1, <3>2, <3>3
  <2> QED  BY <1>2, <1>3, <2>1, <2>2 DEF LockInv
<1>9. DirInv'
  <2>1. proc = "up"
    <3>1. op[c] # IdleOp
      BY <1>1 DEF WriteRec, WritePlaces, IdleOp
    <3> QED  BY <3>1 DEF IndInv, DirInv, TypeOK
  <2>2. \A d \in Writers : ~InReset(d)'
    BY <1>3, <1>6 DEF InReset, IdleOp
  <2>3. \A d \in Writers : /\ InReset(d)' => handle' = "nil" /\ op'[d].kind = "reset"
                           /\ op'[d].at = "remove" => dir' = "valid"
                           /\ op'[d].at \in {"removing", "creating"} => dir' = "partial"
                           /\ op'[d].at = "create" => dir' = "absent"
    BY <2>2 DEF InReset
  <2> QED  BY <1>2, <2>1, <2>3 DEF IndInv, DirInv
<1> QED  BY <1>7, <1>8, <1>9 DEF IndInv

\* Nobody is anywhere: at the start, before the program serves, after a crash.
LEMMA NobodyAnywhere ==
  ASSUME op = [c \in Clients |-> IdleOp], readers = {}, blocked = {}, pending = None, writer = None
  PROVE  /\ LockInv
         /\ \A c \in Clients : op[c] = IdleOp
         /\ \A c \in Writers : ~InReset(c)
         /\ \A c \in Readers : op[c] \in ReadRec \cup {IdleOp}
         /\ \A c \in Writers : op[c] \in WriteRec \cup {IdleOp}
<1>1. \A c \in Clients : op[c] = IdleOp
  OBVIOUS
<1>2. \A c \in Clients : ~Opened(c) /\ ~Waiting(c) /\ ~Announced(c) /\ ~Owning(c) /\ ~InReset(c)
  BY <1>1 DEF Opened, Waiting, Announced, Owning, InReset, IdleOp, WritePlaces
<1> QED  BY <1>1, <1>2, ClientsAssumption DEF LockInv, Clients

LEMMA IndInvInit == Init => IndInv
<1> SUFFICES ASSUME Init PROVE IndInv
  OBVIOUS
<1>1. /\ LockInv
      /\ \A c \in Clients : op[c] = IdleOp
      /\ \A c \in Writers : ~InReset(c)
      /\ \A c \in Readers : op[c] \in ReadRec \cup {IdleOp}
      /\ \A c \in Writers : op[c] \in WriteRec \cup {IdleOp}
  BY NobodyAnywhere DEF Init
<1>2. TypeOK
  BY <1>1 DEF Init, TypeOK, NoAnswer, ReadRec, WriteRec
<1>3. DirInv
  BY <1>1 DEF Init, DirInv, InReset
<1> QED  BY <1>1, <1>2, <1>3 DEF IndInv

LEMMA CrashKeeps == ASSUME IndInv, Crash PROVE IndInv'
<1>1. /\ LockInv'
      /\ \A c \in Clients : op'[c] = IdleOp
      /\ \A c \in Writers : ~InReset(c)'
      /\ \A c \in Readers : op'[c] \in ReadRec \cup {IdleOp}
      /\ \A c \in Writers : op'[c] \in WriteRec \cup {IdleOp}
  <2>1. /\ op' = [c \in Clients |-> IdleOp] /\ readers' = {} /\ blocked' = {}
        /\ pending' = None /\ writer' = None
    BY DEF Crash
  <2>2. \A c \in Clients : op'[c] = IdleOp
    BY <2>1
  <2>3. \A c \in Clients : /\ ~Opened(c)' /\ ~Waiting(c)'
                           /\ ~Announced(c)' /\ ~Owning(c)' /\ ~InReset(c)'
    BY <2>2 DEF Opened, Waiting, Announced, Owning, InReset, IdleOp, WritePlaces
  <2> QED  BY <2>1, <2>2, <2>3, ClientsAssumption DEF LockInv, Clients
<1>2. /\ proc' = "down" /\ handle' = "nil" /\ UNCHANGED <<dir, docs>>
      /\ readers' = {} /\ blocked' = {} /\ pending' = None /\ writer' = None
      /\ reply' = [c \in Readers |-> NoAnswer]
  BY DEF Crash
<1>3. TypeOK'
  BY <1>1, <1>2 DEF IndInv, TypeOK, NoAnswer, ReadRec, WriteRec
<1>4. DirInv'
  BY <1>1, <1>2 DEF IndInv, DirInv, InReset
<1> QED  BY <1>1, <1>3, <1>4 DEF IndInv

\* The program starts, or refuses to.
LEMMA OpenKeeps == ASSUME IndInv, Open \/ OpenCreated PROVE IndInv'
<1>1. /\ UNCHANGED <<docs, op, readers, blocked, pending, writer, reply>>
      /\ proc \in {"down", "creating"}
  BY DEF Open, OpenCreated, lockVars
<1>2. /\ handle = "nil" /\ (\A c \in Clients : op[c] = IdleOp)
      /\ reply = [c \in Readers |-> NoAnswer] /\ (docs # {} => dir = "valid")
  BY <1>1 DEF IndInv, DirInv
<1>3. LockInv'
  BY <1>1 DEF IndInv, LockInv, Opened, Waiting, Announced, Owning
<1>4. /\ proc' \in {"creating", "up", "refused"}
      /\ handle' \in {"nil", "open"} /\ dir' \in {"absent", "partial", "valid"}
      /\ handle' = "open" => dir' = "valid"
      /\ docs # {} => dir' = "valid"
      /\ proc' # "up" => handle' = "nil"
      /\ proc' = "creating" => dir' = "partial"
  <2>1. CASE Open
    BY <1>2, <2>1 DEF Open, IndInv, TypeOK
  <2>2. CASE OpenCreated
    BY <1>2, <2>2 DEF OpenCreated, IndInv, TypeOK, DirInv
  <2> QED  BY <2>1, <2>2
<1>5. TypeOK'
  BY <1>1, <1>4 DEF IndInv, TypeOK
<1>6. DirInv'
  <2>1. \A c \in Writers : ~InReset(c)'
    BY <1>1, <1>2 DEF InReset, IdleOp, Clients
  <2> QED  BY <1>1, <1>2, <1>4, <2>1 DEF DirInv, InReset
<1> QED  BY <1>3, <1>5, <1>6 DEF IndInv

LEMMA IndInvStep == IndInv /\ [Next]_vars => IndInv'
<1> SUFFICES ASSUME IndInv, [Next]_vars PROVE IndInv'
  OBVIOUS
<1>1. CASE Open \/ OpenCreated
  BY <1>1, OpenKeeps
<1>2. CASE Crash
  BY <1>2, CrashKeeps
<1>3. ASSUME NEW c \in Readers, Request(c) \/ ReadStep(c)
      PROVE  IndInv'
  BY <1>3, RequestKeeps, RLockKeeps, AccessKeeps, RUnlockKeeps DEF ReadStep
<1>4. ASSUME NEW c \in Writers, RequestWrite(c) \/ WriteStep(c)
      PROVE  IndInv'
  <2>1. c \in Clients
    BY DEF Clients
  <2> QED
    BY <1>4, <2>1, RequestWriteKeeps, AnnounceKeeps, AcquireKeeps, UnlockKeeps, ResetCloseKeeps,
       RemoveDirKeeps, RemovedDirKeeps, CreateDirKeeps, CreatedDirKeeps, CloseHandleKeeps
       DEF WriteStep
<1>5. CASE UNCHANGED vars
  BY <1>5 DEF vars, lockVars, IndInv, TypeOK, LockInv, DirInv, Opened, Waiting, Announced, Owning,
              InReset
<1> QED  BY <1>1, <1>2, <1>3, <1>4, <1>5 DEF Next, Serve

LEMMA IndInvariant == Spec => []IndInv
BY IndInvInit, IndInvStep, PTL DEF Spec

\* The types of the store's state, and that a client is where its kind of
\* operation can be (store.go).
THEOREM TypeCorrect == Spec => []TypeOK
<1>1. IndInv => TypeOK
  BY DEF IndInv
<1> QED  BY <1>1, IndInvariant, PTL

\* open, reset and recreate (store.go): whatever fails, and wherever the process dies
\* or refuses to start, a handle has its directory and documents have theirs.
THEOREM HandleAlwaysMatches == Spec => []HandleMatchesDirectory
<1>1. IndInv => HandleMatchesDirectory
  BY DEF IndInv, DirInv, HandleMatchesDirectory
<1> QED  BY <1>1, IndInvariant, PTL
-----------------------------------------------------------------------------
(* The lock. *)

\* A client can take its next step: the guards of ReadStep and WriteStep.
CanGo(c) == \/ c \in Readers /\ op[c].at \in {"lock", "locked", "unlock"}
            \/ c \in Writers /\ \/ op[c].at = "lock" /\ pending = None
                                \/ op[c].at = "drain" /\ readers = {}
                                \/ Owning(c)

LEMMA SomebodyGoes ==
  ASSUME IndInv, NEW c \in Clients, op[c] # IdleOp
  PROVE  \E d \in Clients : op[d] # IdleOp /\ CanGo(d)
<1> SUFFICES ASSUME \A d \in Clients : op[d] # IdleOp => ~CanGo(d) PROVE FALSE
  OBVIOUS
<1>1. \A d \in Clients : op[d].at # "idle" => op[d] # IdleOp
  BY DEF IdleOp
<1>2. pending \in Writers \cup {None}
  BY DEF IndInv, TypeOK
<1>3. readers = {}
  <2>1. \A d \in Readers : d \in readers => Opened(d)
    BY DEF IndInv, LockInv
  <2>2. \A d \in Readers : ~Opened(d)
    BY <1>1 DEF Opened, CanGo, Clients
  <2> QED  BY <2>1, <2>2 DEF IndInv, TypeOK
<1>4. pending = None
  <2> SUFFICES ASSUME pending \in Writers PROVE FALSE
    BY <1>2
  <2>1. Announced(pending)
    BY DEF IndInv, LockInv
  <2>2. op[pending].at = "drain" \/ Owning(pending)
    BY <2>1 DEF Announced, Owning
  <2>3. CanGo(pending) /\ op[pending].at # "idle"
    BY <1>3, <2>2 DEF CanGo, Owning, WritePlaces
  <2> QED  BY <1>1, <2>3 DEF Clients
<1>5. CASE c \in Readers
  <2>1. op[c].at = "blocked"
    BY <1>5 DEF IndInv, TypeOK, ReadPlaces, CanGo
  <2>2. c \in blocked
    BY <1>5, <2>1 DEF IndInv, LockInv, Waiting
  <2> QED  BY <1>4, <2>2 DEF IndInv, LockInv
<1>6. CASE c \in Writers
  <2>1. op[c].at \in WritePlaces
    BY <1>6 DEF IndInv, TypeOK
  <2>2. ~Owning(c) /\ op[c].at # "lock" /\ op[c].at # "drain"
    BY <1>3, <1>4, <1>6 DEF CanGo
  <2> QED  BY <2>1, <2>2 DEF Owning
<1> QED  BY <1>5, <1>6 DEF Clients

\* The RWMutex of store.go: however readers and writers queue, whatever fails, and
\* after any crash, as long as an operation is under way one of those under way can
\* go on; nobody waits for a client that is gone.
THEOREM LockNeverStuck ==
  Spec => []((\E c \in Clients : op[c] # IdleOp) => \E c \in Clients : op[c] # IdleOp /\ CanGo(c))
<1>1. IndInv => ((\E c \in Clients : op[c] # IdleOp) => \E c \in Clients : op[c] # IdleOp /\ CanGo(c))
  BY SomebodyGoes
<1> QED  BY <1>1, IndInvariant, PTL

-----------------------------------------------------------------------------
(* The store implements DocumentIndex. *)

\* A writer that is nowhere in a reset means that nobody is.
LEMMA ResetIsTheWriters ==
  ASSUME IndInv, NEW c \in Writers, pending = c
  PROVE  Rebuilding <=> InReset(c)
<1>1. Announced(c)
  BY ClientsAssumption DEF IndInv, LockInv
<1>2. \A d \in Writers \ {c} : ~InReset(d)
  BY <1>1, OneWriter
<1>3. \A d \in Readers : ~InReset(d)
  BY DEF IndInv, TypeOK, InReset, ReadPlaces, IdleOp
<1> QED  BY <1>2, <1>3 DEF Rebuilding, InReset, Clients

\* A client that moves, neither from nor to a place of a reset.
LEMMA RebuildingStays ==
  ASSUME NEW c \in Clients,
         \A d \in Clients : d # c => op'[d].at = op[d].at,
         ~InReset(c), ~InReset(c)'
  PROVE  Rebuilding' <=> Rebuilding
BY DEF Rebuilding, InReset

LEMMA ReaderRefines ==
  ASSUME IndInv, NEW c \in Readers, Request(c) \/ ReadStep(c)
  PROVE  [Index!Next]_(Index!vars)
<1>1. c \in Clients /\ op[c] \in ReadRec \cup {IdleOp}
  BY DEF Clients, IndInv, TypeOK, ReadRec
<1>2. /\ ~InReset(c) /\ UNCHANGED <<proc, handle>>
      /\ \A d \in Clients : d # c => op'[d].at = op[d].at
      /\ ~InReset(c)'
  BY <1>1 DEF Request, ReadStep, RLock, Access, RUnlock, Goto, InReset, ReadRec, ReadPlaces, IdleOp,
              IndInv, LockInv
<1>3. Status' = Status
  BY <1>1, <1>2, RebuildingStays DEF Status
<1>4. CASE Request(c) \/ RLock(c) \/ RUnlock(c)
  BY <1>3, <1>4 DEF Request, RLock, RUnlock, Index!vars
<1>5. CASE Access(c)
  <2>1. op[c] \in ReadRec /\ op[c].doc \in Docs /\ Opened(c) /\ op[c].kind \in ReadOps
    BY <1>5, ReaderAt DEF Access, Opened
  <2>2. proc = "up" /\ ~Rebuilding
    <3>1. op[c] # IdleOp
      BY <2>1 DEF ReadRec, ReadPlaces, IdleOp
    <3> QED  BY <1>1, <2>1, <3>1, ReadersSeeNoReset DEF IndInv, DirInv, TypeOK
  <2>3. Status = IF handle = "open" THEN "serving" ELSE IF handle = "shut" THEN "broken" ELSE "dead"
    BY <2>2 DEF Status
  <2>4. CASE handle = "nil" /\ Answer(c, "closed", {}) /\ UNCHANGED docs
    BY <1>3, <2>3, <2>4 DEF Answer, Index!Refuse, Index!Answer, Index!Next
  <2>5. CASE handle # "nil" /\ Answer(c, "failed", {}) /\ UNCHANGED docs
    <3>1. handle \in {"open", "shut"}
      BY <2>5 DEF IndInv, TypeOK
    <3> QED  BY <1>3, <2>3, <2>5, <3>1 DEF Answer, Index!Fail, Index!Answer, Index!Next
  <2>6. CASE handle = "open" /\ op[c].kind = "put" /\ docs' = docs \cup {op[c].doc}
             /\ Answer(c, "ok", {})
    <3>1. Index!Put(c, op[c].doc)
      BY <1>3, <2>3, <2>6 DEF Answer, Index!Put, Index!Answer
    <3> QED  BY <2>1, <3>1 DEF Index!Next
  <2>7. CASE handle = "open" /\ op[c].kind = "delete" /\ docs' = docs \ {op[c].doc}
             /\ Answer(c, "ok", {})
    <3>1. Index!Delete(c, op[c].doc)
      BY <1>3, <2>3, <2>7 DEF Answer, Index!Delete, Index!Answer
    <3> QED  BY <2>1, <3>1 DEF Index!Next
  <2>8. CASE handle = "open" /\ op[c].kind = "read" /\ docs' = docs /\ Answer(c, "ok", docs)
    <3>1. Index!Read(c)
      BY <1>3, <2>3, <2>8 DEF Answer, Index!Read, Index!Answer
    <3> QED  BY <3>1 DEF Index!Next
  <2> QED  BY <1>5, <2>1, <2>4, <2>5, <2>6, <2>7, <2>8 DEF Access, ReadOps
<1> QED  BY <1>4, <1>5 DEF ReadStep

\* The step of the writer with the lock, seen from outside: only Rebuilding, the
\* handle and the documents can tell.
OwnerSees ==
    \A c \in Writers : writer = c =>
        /\ proc = "up" /\ pending = c
        /\ Status = IF handle = "open" \/ InReset(c) THEN "serving"
                    ELSE IF handle = "shut" THEN "broken" ELSE "dead"

LEMMA OwnerStatus == IndInv => OwnerSees
<1> SUFFICES ASSUME IndInv, NEW c \in Writers, writer = c
             PROVE  /\ proc = "up" /\ pending = c
                    /\ Status = IF handle = "open" \/ InReset(c) THEN "serving"
                                ELSE IF handle = "shut" THEN "broken" ELSE "dead"
  BY DEF OwnerSees
<1>1. Owning(c) /\ pending = c
  BY ClientsAssumption DEF IndInv, LockInv, TypeOK
<1>2. op[c] # IdleOp
  BY <1>1 DEF Owning, WritePlaces, IdleOp
<1>3. proc = "up"
  BY <1>2 DEF IndInv, DirInv, TypeOK, Clients
<1>4. Rebuilding <=> InReset(c)
  BY <1>1, ResetIsTheWriters
<1> QED  BY <1>1, <1>3, <1>4 DEF Status

LEMMA OwnerStatusNext == IndInv' => OwnerSees'
BY OwnerStatus, PTL

LEMMA WriterRefines ==
  ASSUME IndInv, IndInv', NEW c \in Writers, RequestWrite(c) \/ WriteStep(c)
  PROVE  [Index!Next]_(Index!vars)
<1>1. c \in Clients /\ op = [d \in Clients |-> op[d]]
  BY DEF Clients, IndInv, LockInv
<1>2. CASE RequestWrite(c) \/ Announce(c) \/ Acquire(c)
  <2>1. /\ ~InReset(c) /\ ~InReset(c)' /\ UNCHANGED <<proc, handle, docs, reply>>
        /\ \A d \in Clients : d # c => op'[d].at = op[d].at
    <3>1. CASE RequestWrite(c)
      BY <1>1, <3>1 DEF RequestWrite, InReset, IdleOp
    <3>2. CASE Announce(c)
      <4>1. op[c] \in WriteRec /\ op[c].at = "lock" /\ Goto(c, "drain")
        BY <3>2, WriterAt DEF Announce
      <4>2. op'[c].at = "drain" /\ \A d \in Clients : d # c => op'[d] = op[d]
        BY <4>1, MoveWriter DEF WritePlaces
      <4> QED  BY <3>2, <4>1, <4>2 DEF Announce, InReset
    <3>3. CASE Acquire(c)
      <4>1. op[c] \in WriteRec /\ op[c].at = "drain" /\ Goto(c, "locked")
        BY <3>3, WriterAt DEF Acquire
      <4>2. op'[c].at = "locked" /\ \A d \in Clients : d # c => op'[d] = op[d]
        BY <4>1, MoveWriter DEF WritePlaces
      <4> QED  BY <3>3, <4>1, <4>2 DEF Acquire, InReset
    <3> QED  BY <1>2, <3>1, <3>2, <3>3
  <2>2. Status' = Status
    BY <1>1, <2>1, RebuildingStays DEF Status
  <2> QED  BY <2>1, <2>2 DEF Index!vars
<1>3. CASE Unlock(c)
  <2>1. \A d \in Clients : InReset(d)' <=> InReset(d)
    <3>1. \A d \in Clients : op'[d] = IF d = c THEN IdleOp
                                      ELSE IF d \in blocked THEN [op[d] EXCEPT !.at = "locked"]
                                      ELSE op[d]
      BY <1>3 DEF Unlock
    <3>2. op[c].at = "unlock" /\ \A d \in blocked : op[d] \in ReadRec /\ op[d].at = "blocked"
      BY <1>3, ReaderAt DEF Unlock, IndInv, TypeOK, LockInv, Waiting
    <3>3. \A d \in blocked : ~InReset(d) /\ [op[d] EXCEPT !.at = "locked"].at = "locked"
      BY <3>2 DEF InReset, ReadRec
    <3> SUFFICES ASSUME NEW d \in Clients PROVE InReset(d)' <=> InReset(d)
      OBVIOUS
    <3>4. CASE d = c
      <4>1. op'[d] = IdleOp
        BY <3>1, <3>4
      <4>2. op[d].at = "unlock"
        BY <3>2, <3>4
      <4> QED  BY <4>1, <4>2 DEF InReset, IdleOp
    <3>5. CASE d # c /\ d \in blocked
      <4>1. op'[d].at = "locked"
        BY <3>1, <3>3, <3>5
      <4> QED  BY <3>3, <3>5, <4>1 DEF InReset
    <3>6. CASE d # c /\ d \notin blocked
      BY <3>1, <3>6 DEF InReset
    <3> QED  BY <3>4, <3>5, <3>6
  <2>2. Rebuilding' <=> Rebuilding
    BY <2>1 DEF Rebuilding, InReset
  <2> QED  BY <1>3, <2>2 DEF Unlock, Status, Index!vars
<1>4. ASSUME op[c].kind \in WriteOps \/ op[c].at \notin ReadPlaces,
             op[c].at \in WritePlaces \ {"lock", "drain"},
             UNCHANGED lockVars, NEW at, Goto(c, at)
      PROVE  /\ InReset(c)' <=> at \in {"remove", "removing", "create", "creating"}
             /\ Status = IF handle = "open" \/ InReset(c) THEN "serving"
                         ELSE IF handle = "shut" THEN "broken" ELSE "dead"
             /\ Status' = IF handle' = "open" \/ InReset(c)' THEN "serving"
                          ELSE IF handle' = "shut" THEN "broken" ELSE "dead"
  <2>1. op[c] \in WriteRec /\ writer = c /\ writer' = c
    BY <1>1, <1>4, OwnerStep DEF lockVars
  <2>2. op'[c].at = at
    BY <1>1, <1>4, <2>1 DEF Goto, WriteRec
  <2> QED  BY <2>1, <2>2, OwnerStatus, OwnerStatusNext DEF InReset, OwnerSees
<1>5. ASSUME op[c].kind \in WriteOps \/ op[c].at \notin ReadPlaces,
             op[c].at \in WritePlaces \ {"lock", "drain"},
             UNCHANGED <<lockVars, reply>>, NEW at, Goto(c, at),
             \/ Status' = Status /\ docs' = docs
             \/ Status = "serving" /\ Status' = "serving" /\ docs' = {}
             \/ Status = "broken" /\ Status' = "serving" /\ docs' = docs
             \/ Status \in {"serving", "broken"} /\ Status' \in {"broken", "dead"} /\ docs' = docs
      PROVE  [Index!Next]_(Index!vars)
  BY <1>5 DEF Index!Next, Index!vars, Index!Reset, Index!RetryReset, Index!GoOutOfService
<1>6. CASE ResetClose(c)
  <2>1. op[c].kind \in WriteOps /\ op[c].at = "locked" /\ UNCHANGED <<lockVars, reply, docs>>
    BY <1>6 DEF ResetClose, WriteOps
  <2>2. ~InReset(c)
    BY <2>1 DEF InReset
  <2>3. CASE handle = "nil" /\ Goto(c, "unlock") /\ UNCHANGED handle
    BY <1>4, <1>5, <2>1, <2>2, <2>3 DEF WritePlaces
  <2>4. CASE handle # "nil" /\ handle' = "nil" /\ Goto(c, "remove")
    <3>1. handle \in {"open", "shut"}
      BY <2>4 DEF IndInv, TypeOK
    <3> QED  BY <1>4, <1>5, <2>1, <2>2, <2>4, <3>1 DEF WritePlaces
  <2>5. CASE handle # "nil" /\ handle' = "shut" /\ Goto(c, "unlock")
    <3>1. handle \in {"open", "shut"}
      BY <2>5 DEF IndInv, TypeOK
    <3> QED  BY <1>4, <1>5, <2>1, <2>2, <2>5, <3>1 DEF WritePlaces
  <2> QED  BY <1>6, <2>3, <2>4, <2>5 DEF ResetClose
<1>7. CASE RemoveDir(c)
  <2>1. /\ op[c].at = "remove" /\ op[c].at \notin ReadPlaces
        /\ UNCHANGED <<lockVars, reply, handle>> /\ InReset(c) /\ handle = "nil"
    BY <1>7 DEF RemoveDir, ReadPlaces, InReset, IndInv, DirInv
  <2>2. CASE docs' = {} /\ Goto(c, "removing")
    BY <1>4, <1>5, <2>1, <2>2 DEF WritePlaces
  <2>3. CASE docs' = docs /\ Goto(c, "unlock")
    BY <1>4, <1>5, <2>1, <2>3 DEF WritePlaces
  <2> QED  BY <1>7, <2>2, <2>3 DEF RemoveDir
<1>8. CASE RemovedDir(c)
  <2>1. /\ op[c].at = "removing" /\ op[c].at \notin ReadPlaces
        /\ UNCHANGED <<lockVars, reply, handle, docs>> /\ InReset(c) /\ handle = "nil"
    BY <1>8 DEF RemovedDir, ReadPlaces, InReset, IndInv, DirInv
  <2>2. CASE Goto(c, "create")
    BY <1>4, <1>5, <2>1, <2>2 DEF WritePlaces
  <2>3. CASE Goto(c, "unlock")
    BY <1>4, <1>5, <2>1, <2>3 DEF WritePlaces
  <2> QED  BY <1>8, <2>2, <2>3 DEF RemovedDir
<1>9. CASE CreateDir(c)
  <2>1. /\ op[c].at = "create" /\ op[c].at \notin ReadPlaces /\ Goto(c, "creating")
        /\ UNCHANGED <<lockVars, reply, handle, docs>> /\ InReset(c) /\ handle = "nil"
    BY <1>9 DEF CreateDir, ReadPlaces, InReset, IndInv, DirInv
  <2> QED  BY <1>4, <1>5, <2>1 DEF WritePlaces
<1>10. CASE CreatedDir(c)
  <2>1. /\ op[c].at = "creating" /\ op[c].at \notin ReadPlaces /\ Goto(c, "unlock")
        /\ UNCHANGED <<lockVars, reply, docs>> /\ InReset(c) /\ handle = "nil"
        /\ handle' \in {"open", "nil"}
    BY <1>10 DEF CreatedDir, ReadPlaces, InReset, IndInv, DirInv
  <2> QED  BY <1>4, <1>5, <2>1 DEF WritePlaces
<1>11. CASE CloseHandle(c)
  <2>1. /\ op[c].kind \in WriteOps /\ op[c].at = "locked" /\ Goto(c, "unlock")
        /\ UNCHANGED <<lockVars, reply, docs>> /\ ~InReset(c) /\ handle' = "nil"
    BY <1>11 DEF CloseHandle, InReset, WriteOps
  <2>2. handle \in {"nil", "open", "shut"}
    BY DEF IndInv, TypeOK
  <2> QED  BY <1>4, <1>5, <2>1, <2>2 DEF WritePlaces
<1> QED  BY <1>2, <1>3, <1>6, <1>7, <1>8, <1>9, <1>10, <1>11 DEF WriteStep

\* The start of the program, and its death.
LEMMA ProcessRefines ==
  ASSUME IndInv, Open \/ OpenCreated \/ Crash
  PROVE  [Index!Next]_(Index!vars)
<1>1. CASE Open \/ OpenCreated
  <2>1. Status = "down" /\ UNCHANGED <<docs, reply>>
    BY <1>1 DEF Open, OpenCreated, Status
  <2>2. \/ Status' = "down"
        \/ Status' = "serving"
        \/ Status' = "refused"
    BY <1>1 DEF Open, OpenCreated, Status, IndInv, DirInv
  <2> QED  BY <2>1, <2>2 DEF Index!Next, Index!vars, Index!Restart
<1>2. CASE Crash
  <2>1. Status' = "down" /\ UNCHANGED docs /\ reply' = [c \in Readers |-> NoAnswer]
    BY <1>2 DEF Crash, Status
  <2>2. CASE proc = "creating"
    <3>1. Status = "down" /\ reply = [c \in Readers |-> NoAnswer]
      BY <2>2 DEF Status, IndInv, DirInv
    <3> QED  BY <2>1, <3>1 DEF Index!vars
  <2>3. CASE proc \in {"up", "refused"}
    <3>1. Status # "down"
      BY <2>3 DEF Status
    <3> QED  BY <2>1, <3>1 DEF Index!Next, Index!Crash, Index!NoAnswer, NoAnswer
  <2> QED  BY <1>2, <2>2, <2>3 DEF Crash, IndInv, TypeOK
<1> QED  BY <1>1, <1>2

\* The index under its lock (store.go): whatever the clients do,
\* fail in or die in, nobody can tell the index under its lock from a set of
\* documents that is read, written and emptied in single steps.
THEOREM StoreImplementsIndex == Spec => ImplementsDocumentIndex
<1>1. Init => Index!Init
  BY DEF Init, Index!Init, Status, NoAnswer, Index!NoAnswer
<1>2. IndInv /\ IndInv' /\ [Next]_vars => [Index!Next]_(Index!vars)
  <2> SUFFICES ASSUME IndInv, IndInv', [Next]_vars PROVE [Index!Next]_(Index!vars)
    OBVIOUS
  <2>1. CASE Open \/ OpenCreated \/ Crash
    BY <2>1, ProcessRefines
  <2>2. CASE \E c \in Readers : Request(c) \/ ReadStep(c)
    BY <2>2, ReaderRefines
  <2>3. CASE \E c \in Writers : RequestWrite(c) \/ WriteStep(c)
    BY <2>3, WriterRefines
  <2>4. CASE UNCHANGED vars
    BY <2>4 DEF vars, Status, Rebuilding, Index!vars
  <2> QED  BY <2>1, <2>2, <2>3, <2>4 DEF Next, Serve
<1> QED  BY <1>1, <1>2, IndInvariant, PTL DEF Spec, ImplementsDocumentIndex, Index!Spec
==============================================================================
