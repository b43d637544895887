-------------------------- MODULE ConfigStoreProof --------------------------
(***************************************************************************)
(* Proofs about ConfigStore for any number of clients and paths, with      *)
(* failing saves and crashes. That the file keeps up does not depend on    *)
(* what the list is, only on a save writing the list as it is; that the    *)
(* clients list no path twice is a fact about the two loops that change it. *)
(***************************************************************************)
EXTENDS ConfigStore, SequenceLemmas

\* What each client does is a call of its own, and the kinds of file are distinct.
OpTyped == /\ op \in [Clients -> [path : Paths, kind : {"add", "remove"},
                                  at : {"change", "save", "write"},
                                  alone : BOOLEAN] \cup {IdleOp}]
           /\ disk.kind \in {"missing", "list", "torn"}

FileInv == OpTyped /\ FileHoldsList /\ TornOnlyWhenWriting

-----------------------------------------------------------------------------
LEMMA FileKinds ==
  /\ Missing.kind = "missing" /\ Missing.paths = << >>
  /\ Torn.kind = "torn"
  /\ \A s : Written(s).kind = "list" /\ Written(s).paths = s
BY DEF Missing, Torn, Written

LEMMA IdleOpFields == IdleOp.at = "idle" /\ IdleOp.path = None /\ IdleOp.kind = "none"
BY DEF IdleOp

\* Where the other clients are when one of them moves.
LEMMA OneOpChanges ==
  ASSUME OpTyped, NEW c \in Clients, NEW o, op' = [op EXCEPT ![c] = o]
  PROVE  \A d \in Clients : op'[d] = IF d = c THEN o ELSE op[d]
BY DEF OpTyped

LEMMA FileInit == Init => FileInv
<1> SUFFICES ASSUME Init PROVE FileInv
  OBVIOUS
<1>1. disk.kind \in {"missing", "list"}
  BY FileKinds DEF Init
<1>2. OpTyped
  BY <1>1 DEF Init, OpTyped
<1> QED  BY <1>1, <1>2 DEF Init, FileInv, FileHoldsList, TornOnlyWhenWriting

\* A step that neither touches the file nor ends a save.
LEMMA FileUntouched ==
  ASSUME FileInv, OpTyped', UNCHANGED <<up, disk, mu, stale>>,
         \A d \in Clients : op[d].at \in {"save", "write"} => op'[d].at = op[d].at,
         mem' = mem \/ \E d \in Clients : op'[d].at = "save"
  PROVE  FileInv'
<1>1. FileHoldsList'
  BY DEF FileInv, FileHoldsList, Content
<1>2. TornOnlyWhenWriting'
  BY DEF FileInv, TornOnlyWhenWriting
<1> QED  BY <1>1, <1>2 DEF FileInv

LEMMA LoadKeeps ==
  ASSUME FileInv, Load
  PROVE  FileInv'
<1>1. \/ mem' = Content(disk) /\ stale' = (disk.kind = "torn")
      \/ stale'
  BY DEF Load
<1>2. op' = op /\ disk' = disk /\ mu' = mu
  BY DEF Load
<1>3. OpTyped'
  BY <1>2 DEF FileInv, OpTyped
<1>4. FileHoldsList'
  BY <1>1, <1>2 DEF FileHoldsList, Content
<1>5. TornOnlyWhenWriting'
  BY <1>1, <1>2 DEF TornOnlyWhenWriting
<1> QED  BY <1>3, <1>4, <1>5 DEF FileInv

LEMMA CallKeeps ==
  ASSUME FileInv, NEW c \in Clients, NEW kind \in {"add", "remove"}, NEW p \in Paths, Call(c, kind, p)
  PROVE  FileInv'
<1>1. /\ op[c] = IdleOp /\ UNCHANGED <<up, mem, disk, mu, stale>>
      /\ \A d \in Clients : op[d].path = p => op[d] # IdleOp
  BY IdleOpFields, NoneAssumption DEF Call
<1> DEFINE new == [path |-> p, kind |-> kind, at |-> "change",
                   alone |-> \A e \in Clients : op[e].path # p]
<1>2. op' = [d \in Clients |-> IF d = c THEN new
                               ELSE IF op[d].path = p THEN [op[d] EXCEPT !.alone = FALSE] ELSE op[d]]
  BY DEF Call
<1>3. new.at = "change" /\ new \in [path : Paths, kind : {"add", "remove"},
                                    at : {"change", "save", "write"}, alone : BOOLEAN]
  OBVIOUS
<1> HIDE DEF new
<1>4. OpTyped'
  BY <1>1, <1>2, <1>3 DEF OpTyped, FileInv
<1>5. \A d \in Clients : op[d].at \in {"save", "write"} => op'[d].at = op[d].at
  BY <1>1, <1>2, IdleOpFields DEF OpTyped, FileInv
<1> QED  BY <1>1, <1>4, <1>5, FileUntouched

LEMMA AddToListKeeps ==
  ASSUME FileInv, NEW c \in Clients, AddToList(c)
  PROVE  FileInv'
<1>1. op[c].at = "change" /\ UNCHANGED <<up, disk, mu, stale>>
  BY DEF AddToList
<1>2. CASE Acknowledge(c) /\ mem' = mem
  <2>1. op' = [op EXCEPT ![c] = IdleOp]
    BY <1>2 DEF Acknowledge
  <2>2. OpTyped'
    BY <1>1, <2>1 DEF FileInv, OpTyped
  <2> QED  BY <1>1, <1>2, <2>1, <2>2, OneOpChanges, FileUntouched DEF FileInv
<1>3. CASE op' = [op EXCEPT ![c].at = "save"]
  <2>1. OpTyped'
    BY <1>1, <1>3, IdleOpFields DEF FileInv, OpTyped
  <2>2. \A d \in Clients : op'[d].at = IF d = c THEN "save" ELSE op[d].at
    BY <1>3, <1>1, IdleOpFields DEF FileInv, OpTyped
  <2> QED  BY <1>1, <2>1, <2>2, FileUntouched
<1> QED  BY <1>2, <1>3 DEF AddToList

LEMMA RemoveFromListKeeps ==
  ASSUME FileInv, NEW c \in Clients, RemoveFromList(c)
  PROVE  FileInv'
<1>1. op[c].at = "change" /\ UNCHANGED <<up, disk, mu, stale>> /\ op' = [op EXCEPT ![c].at = "save"]
  BY DEF RemoveFromList
<1>2. OpTyped'
  BY <1>1, IdleOpFields DEF FileInv, OpTyped
<1>3. \A d \in Clients : op'[d].at = IF d = c THEN "save" ELSE op[d].at
  BY <1>1, IdleOpFields DEF FileInv, OpTyped
<1> QED  BY <1>1, <1>2, <1>3, FileUntouched

LEMMA TruncateFileKeeps ==
  ASSUME FileInv, NEW c \in Clients, TruncateFile(c)
  PROVE  FileInv'
<1>1. op[c].at = "save" /\ mu' = c /\ disk' = Torn /\ op' = [op EXCEPT ![c].at = "write"]
  BY DEF TruncateFile
<1>2. OpTyped'
  BY <1>1, IdleOpFields, FileKinds DEF FileInv, OpTyped
<1>3. op'[c].at = "write"
  BY <1>1, IdleOpFields DEF FileInv, OpTyped
<1> QED  BY <1>1, <1>2, <1>3, NoneAssumption DEF FileInv, FileHoldsList, TornOnlyWhenWriting

LEMMA FailToOpenKeeps ==
  ASSUME FileInv, NEW c \in Clients, FailToOpen(c)
  PROVE  FileInv'
<1>1. op[c].at = "save" /\ mu = None /\ stale' /\ UNCHANGED <<up, mem, disk, mu>>
      /\ op' = [op EXCEPT ![c] = IdleOp]
  BY DEF FailToOpen
<1>2. OpTyped'
  BY <1>1 DEF FileInv, OpTyped
<1> QED  BY <1>1, <1>2 DEF FileInv, FileHoldsList, TornOnlyWhenWriting

\* The file holds the list as it is when it is written, whoever changed it.
LEMMA WriteFileKeeps ==
  ASSUME FileInv, NEW c \in Clients, WriteFile(c)
  PROVE  FileInv'
<1>1. disk' = Written(mem) /\ mu' = None /\ mem' = mem /\ op' = [op EXCEPT ![c] = IdleOp]
  BY DEF WriteFile, Acknowledge
<1>2. OpTyped'
  BY <1>1, FileKinds DEF FileInv, OpTyped
<1> QED  BY <1>1, <1>2, FileKinds DEF FileInv, FileHoldsList, TornOnlyWhenWriting, Content

LEMMA FailToWriteKeeps ==
  ASSUME FileInv, NEW c \in Clients, FailToWrite(c)
  PROVE  FileInv'
<1>1. mu' = None /\ stale' /\ disk' = disk /\ op' = [op EXCEPT ![c] = IdleOp]
  BY DEF FailToWrite
<1>2. OpTyped'
  BY <1>1 DEF FileInv, OpTyped
<1> QED  BY <1>1, <1>2 DEF FileInv, FileHoldsList, TornOnlyWhenWriting

LEMMA CrashKeeps ==
  ASSUME FileInv, Crash
  PROVE  FileInv'
<1>1. ~up' /\ mu' = None /\ disk' = disk /\ op' = [c \in Clients |-> IdleOp]
  BY DEF Crash
<1>2. OpTyped'
  BY <1>1 DEF FileInv, OpTyped
<1> QED  BY <1>1, <1>2 DEF FileInv, FileHoldsList, TornOnlyWhenWriting

LEMMA FileStep == FileInv /\ [Next]_vars => FileInv'
<1> SUFFICES ASSUME FileInv, [Next]_vars PROVE FileInv'
  OBVIOUS
<1>1. ASSUME NEW c \in Clients, NEW p \in Paths, Call(c, "add", p) \/ Call(c, "remove", p)
      PROVE  FileInv'
  BY <1>1, CallKeeps
<1>2. ASSUME NEW c \in Clients, Step(c) PROVE FileInv'
  BY <1>2, AddToListKeeps, RemoveFromListKeeps, TruncateFileKeeps, FailToOpenKeeps, WriteFileKeeps,
     FailToWriteKeeps DEF Step
<1>3. CASE UNCHANGED vars
  BY <1>3 DEF vars, FileInv, OpTyped, FileHoldsList, TornOnlyWhenWriting, Content
<1> QED  BY <1>1, <1>2, <1>3, LoadKeeps, CrashKeeps DEF Next

\* What the list, the file and the operations under way are to each other in every state
\* of Store, deaths of the process included.
THEOREM FileInvAlways == Spec => []FileInv
BY FileInit, FileStep, PTL DEF Spec

\* However many clients change and save the list in whatever order, and whatever saves
\* and loads fail or are cut short: when no save is due, and the last save or load did not
\* fail, config.json holds the list (Store.Load, addPath, removePath, save).
THEOREM SavesKeepUp == Spec => []FileHoldsList
<1>1. FileInv => FileHoldsList
  BY DEF FileInv
<1> QED  BY <1>1, FileInvAlways, PTL

\* config.json is unreadable only in the hands of the client that holds the mutex, or
\* after a write that failed or a death of the process (Store.save).
THEOREM TornIsExcused == Spec => []TornOnlyWhenWriting
<1>1. FileInv => TornOnlyWhenWriting
  BY DEF FileInv
<1> QED  BY <1>1, FileInvAlways, PTL

-----------------------------------------------------------------------------
(* The list. *)

\* Lists are lists of paths, and what is wrong with them is the user's doing.
ListTyped == /\ up \in BOOLEAN
             /\ mem \in Seq(Paths)
             /\ disk \in [kind : {"missing", "torn", "list"}, paths : Seq(Paths)]
             /\ disk.kind # "list" => disk.paths = << >>
             /\ mu \in Clients \cup {None}
             /\ \A c \in Clients : op[c].at = "write" <=> mu = c
             /\ stale \in BOOLEAN
             /\ acked \in [Paths -> {"unknown", "in", "out"}]
             /\ doubled \subseteq Paths

ListInv == FileInv /\ ListTyped /\ NoDuplicates

LEMMA OnceEmpty == \A p : Once(<< >>, p)
<1>1. DOMAIN << >> = {}
  OBVIOUS
<1> QED  BY <1>1, Zenon DEF Once

\* Appending a path adds one of it, and changes nothing for the others.
LEMMA OnceAppend ==
  ASSUME NEW S, NEW s \in Seq(S), NEW x \in S, NEW p
  PROVE  /\ x # p => (Once(Append(s, x), p) <=> Once(s, p))
         /\ x = p => (Once(Append(s, x), p) <=> p \notin ToSet(s))
<1>1. PICK t \in Seq(S) : t = Append(s, x)
  BY AppendTyped
<1>2. PICK n \in Nat : n = Len(s)
  OBVIOUS
<1>3. /\ DOMAIN t = 1..(n + 1) /\ DOMAIN s = 1..n /\ t[n + 1] = x
      /\ \A i \in 1..n : t[i] = s[i]
  BY <1>1, <1>2
<1>4. \A i \in 1..n : i \in 1..(n + 1) /\ i # n + 1
  OBVIOUS
<1>5. n + 1 \in 1..(n + 1) /\ \A i \in 1..(n + 1) : i \in 1..n \/ i = n + 1
  OBVIOUS
<1>6. x # p => (Once(t, p) <=> Once(s, p))
  BY <1>3, <1>4, <1>5, Zenon DEF Once
<1>7. x = p /\ Once(t, p) => p \notin ToSet(s)
  BY <1>3, <1>4, <1>5, Zenon DEF Once, ToSet
<1>8. x = p /\ p \notin ToSet(s) => Once(t, p)
  BY <1>3, <1>4, <1>5, Zenon DEF Once, ToSet
<1> QED  BY <1>1, <1>6, <1>7, <1>8, Zenon

\* Taking a path out makes no other come twice.
LEMMA OnceWithout ==
  ASSUME NEW S, NEW s \in Seq(S), NEW e, NEW p, Once(s, p)
  PROVE  Once(Without(s, e), p)
<1> DEFINE P(u) == Once(u, p) => Once(Without(u, e), p)
           T == {u \in Seq(S) : P(u)}
<1>1. << >> \in T
  <2>1. << >> \in Seq(S)
    OBVIOUS
  <2> QED  BY <2>1, WithoutEmpty
<1>2. ASSUME NEW u \in T, NEW x \in S PROVE Append(u, x) \in T
  <2>1. PICK v \in Seq(S) : v = Append(u, x)
    BY AppendTyped
  <2>2. u \in Seq(S) /\ P(u)
    OBVIOUS
  <2>3. PICK w \in Seq(S) : w = Without(u, e)
    BY <2>2, WithoutTyped
  <2>4. Once(u, p) => Once(w, p)
    BY <2>2, <2>3
  <2> HIDE DEF P, T
  <2>5. /\ x # p => (Once(v, p) <=> Once(u, p)) /\ (Once(Append(w, x), p) <=> Once(w, p))
        /\ x = p => /\ Once(v, p) <=> p \notin ToSet(u)
                    /\ Once(Append(w, x), p) <=> p \notin ToSet(w)
    <3>1. /\ x # p => (Once(Append(u, x), p) <=> Once(u, p))
          /\ x = p => (Once(Append(u, x), p) <=> p \notin ToSet(u))
      BY <2>2, OnceAppend
    <3>2. /\ x # p => (Once(Append(w, x), p) <=> Once(w, p))
          /\ x = p => (Once(Append(w, x), p) <=> p \notin ToSet(w))
      BY OnceAppend
    <3> QED  BY <2>1, <3>1, <3>2, Zenon
  <2>6. Without(v, e) = IF x = e THEN w ELSE Append(w, x)
    BY <2>1, <2>2, <2>3, WithoutAppend
  <2>7. ToSet(w) = ToSet(u) \ {e}
    BY <2>2, <2>3, WithoutSet
  <2>8. p \notin ToSet(u) => Once(u, p) /\ Once(w, p)
    BY <2>4, Zenon DEF Once, ToSet
  <2>9. P(v)
    BY <2>4, <2>5, <2>6, <2>7, <2>8, Zenon DEF P
  <2> QED  BY <2>1, <2>9 DEF T
<1>3. T \in SUBSET Seq(S)
  OBVIOUS
<1> HIDE DEF T
<1>4. T = Seq(S)
  BY <1>1, <1>2, <1>3, SeqSetInduction
<1> QED  BY <1>4 DEF T

LEMMA WrittenLists ==
  ASSUME NEW n \in Nat, NEW s \in SeqOf(Paths, n)
  PROVE  s \in Seq(Paths)
<1>1. PICK m \in 0..n : s \in [1..m -> Paths]
  BY DEF SeqOf
<1>2. m \in Nat
  OBVIOUS
<1> QED  BY <1>1, <1>2, IsASeq

LEMMA ListInit == Init => ListTyped /\ NoDuplicates
<1> SUFFICES ASSUME Init PROVE ListTyped /\ NoDuplicates
  OBVIOUS
<1>1. << >> \in Seq(Paths)
  OBVIOUS
<1>2. /\ disk \in [kind : {"missing", "torn", "list"}, paths : Seq(Paths)]
      /\ disk.kind # "list" => disk.paths = << >>
  <2>1. CASE disk = Missing
    BY <1>1, <2>1, FileKinds DEF Missing
  <2>2. CASE disk \in {Written(s) : s \in SeqOf(Paths, Length)}
    <3>1. PICK s \in SeqOf(Paths, Length) : disk = Written(s)
      BY <2>2
    <3>2. s \in Seq(Paths)
      BY <3>1, LengthAssumption, WrittenLists
    <3> QED  BY <3>1, <3>2, FileKinds DEF Written
  <2> QED  BY <2>1, <2>2 DEF Init
<1>3. \A c \in Clients : op[c].at = "idle" /\ mu # c
  BY IdleOpFields, NoneAssumption DEF Init
<1>4. ListTyped
  BY <1>1, <1>2, <1>3 DEF Init, ListTyped
<1>5. NoDuplicates
  BY OnceEmpty DEF Init, NoDuplicates
<1> QED  BY <1>4, <1>5

LEMMA LoadTyped ==
  ASSUME ListInv, Load
  PROVE  ListTyped' /\ NoDuplicates'
<1>1. mem' = disk.paths \/ mem' = << >>
  BY DEF Load, Content
<1>2. << >> \in Seq(Paths) /\ disk.paths \in Seq(Paths)
  BY DEF ListInv, ListTyped
<1>3. up' /\ stale' \in BOOLEAN /\ UNCHANGED <<disk, mu, op, acked, doubled>>
  BY DEF Load
<1>4. ListTyped'
  BY <1>1, <1>2, <1>3 DEF ListInv, ListTyped
<1>5. NoDuplicates'
  BY <1>1, <1>3, OnceEmpty DEF ListInv, NoDuplicates
<1> QED  BY <1>4, <1>5

\* What an answered call promises is about its path.
LEMMA AcknowledgeTyped ==
  ASSUME ListInv, NEW c \in Clients, Acknowledge(c)
  PROVE  acked' \in [Paths -> {"unknown", "in", "out"}]
BY DEF Acknowledge, ListInv, ListTyped

\* What a client that changes the list changes it by.
LEMMA OpPath ==
  ASSUME OpTyped, NEW c \in Clients, op[c].at \in {"change", "save", "write"}
  PROVE  op[c].path \in Paths
BY IdleOpFields DEF OpTyped

\* How a client moves outside the writing of the file.
LEMMA MovesElsewhere ==
  ASSUME ListInv, NEW c \in Clients, NEW o, o.at # "write", op[c].at # "write",
         op' = [op EXCEPT ![c] = o]
  PROVE  \A d \in Clients : op'[d].at = "write" <=> mu = d
<1>1. \A d \in Clients : op'[d] = IF d = c THEN o ELSE op[d]
  BY OneOpChanges DEF ListInv, FileInv
<1>2. mu # c
  BY DEF ListInv, ListTyped
<1> QED  BY <1>1, <1>2 DEF ListInv, ListTyped

LEMMA GoesToSave ==
  ASSUME ListInv, NEW c \in Clients, op[c].at = "change", op' = [op EXCEPT ![c].at = "save"]
  PROVE  \A d \in Clients : op'[d].at = "write" <=> mu = d
<1> DEFINE o == [op[c] EXCEPT !.at = "save"]
<1>1. op' = [op EXCEPT ![c] = o]
  OBVIOUS
<1>2. o.at = "save"
  BY IdleOpFields DEF ListInv, FileInv, OpTyped
<1> HIDE DEF o
<1> QED  BY <1>1, <1>2, MovesElsewhere

LEMMA AddToListTyped ==
  ASSUME ListInv, NEW c \in Clients, AddToList(c)
  PROVE  ListTyped' /\ NoDuplicates'
<1>1. op[c].at = "change" /\ UNCHANGED <<up, disk, mu, stale, doubled>>
  BY DEF AddToList
<1>2. CASE Acknowledge(c) /\ mem' = mem
  <2>1. \A d \in Clients : op'[d].at = "write" <=> mu = d
    BY <1>1, <1>2, IdleOpFields, MovesElsewhere DEF Acknowledge
  <2>2. ListTyped'
    BY <1>1, <1>2, <2>1, AcknowledgeTyped DEF ListInv, ListTyped
  <2>3. NoDuplicates'
    BY <1>1, <1>2 DEF ListInv, NoDuplicates
  <2> QED  BY <2>2, <2>3
<1>3. CASE /\ op[c].path \notin ToSet(mem) /\ mem' = Append(mem, op[c].path) /\ acked' = acked
           /\ op' = [op EXCEPT ![c].at = "save"]
  <2>1. PICK p \in Paths : p = op[c].path
    BY <1>1, OpPath DEF ListInv, FileInv
  <2>2. mem \in Seq(Paths) /\ mem' \in Seq(Paths)
    BY <1>3, <2>1, AppendTyped DEF ListInv, ListTyped
  <2>3. \A d \in Clients : op'[d].at = "write" <=> mu = d
    BY <1>1, <1>3, GoesToSave
  <2>4. ListTyped'
    BY <1>1, <1>3, <2>2, <2>3 DEF ListInv, ListTyped
  <2>5. ASSUME NEW q \in Paths \ doubled PROVE Once(mem', q) /\ Once(disk.paths, q)
    <3>1. Once(mem, q) /\ Once(disk.paths, q)
      BY DEF ListInv, NoDuplicates
    <3>2. Once(Append(mem, p), q)
      BY <1>3, <2>1, <2>2, <3>1, OnceAppend
    <3> QED  BY <1>3, <2>1, <3>1, <3>2
  <2>6. NoDuplicates'
    BY <1>1, <2>5 DEF NoDuplicates
  <2> QED  BY <2>4, <2>6
<1> QED  BY <1>2, <1>3 DEF AddToList

LEMMA RemoveFromListTyped ==
  ASSUME ListInv, NEW c \in Clients, RemoveFromList(c)
  PROVE  ListTyped' /\ NoDuplicates'
<1>1. /\ mem' = Without(mem, op[c].path) /\ UNCHANGED <<up, disk, mu, stale, acked, doubled>>
      /\ op[c].at = "change" /\ op' = [op EXCEPT ![c].at = "save"]
  BY DEF RemoveFromList
<1>2. mem \in Seq(Paths) /\ mem' \in Seq(Paths)
  BY <1>1, WithoutTyped DEF ListInv, ListTyped
<1>3. ListTyped'
  BY <1>1, <1>2, GoesToSave DEF ListInv, ListTyped
<1>4. NoDuplicates'
  BY <1>1, <1>2, OnceWithout DEF ListInv, NoDuplicates
<1> QED  BY <1>3, <1>4

LEMMA TruncateFileTyped ==
  ASSUME ListInv, NEW c \in Clients, TruncateFile(c)
  PROVE  ListTyped' /\ NoDuplicates'
<1>1. /\ op[c].at = "save" /\ mu = None /\ mu' = c /\ disk' = Torn
      /\ op' = [op EXCEPT ![c].at = "write"] /\ UNCHANGED <<up, mem, stale, acked, doubled>>
  BY DEF TruncateFile
<1>2. \A d \in Clients : op'[d].at = IF d = c THEN "write" ELSE op[d].at
  BY <1>1, IdleOpFields DEF ListInv, FileInv, OpTyped
<1>3. \A d \in Clients : op[d].at # "write"
  BY <1>1, NoneAssumption DEF ListInv, ListTyped
<1>4. << >> \in Seq(Paths) /\ disk'.paths = << >>
  BY <1>1 DEF Torn
<1>5. disk' \in [kind : {"missing", "torn", "list"}, paths : Seq(Paths)] /\ disk'.paths = << >>
  BY <1>1, <1>4 DEF Torn
<1>6. ListTyped'
  BY <1>1, <1>2, <1>3, <1>5 DEF ListInv, ListTyped
<1>7. NoDuplicates'
  BY <1>1, <1>4, OnceEmpty DEF ListInv, NoDuplicates
<1> QED  BY <1>6, <1>7

LEMMA FailToOpenTyped ==
  ASSUME ListInv, NEW c \in Clients, FailToOpen(c)
  PROVE  ListTyped' /\ NoDuplicates'
<1>1. /\ op[c].at = "save" /\ op' = [op EXCEPT ![c] = IdleOp] /\ stale' = TRUE
      /\ UNCHANGED <<up, mem, disk, mu, acked, doubled>>
  BY DEF FailToOpen
<1>2. \A d \in Clients : op'[d].at = "write" <=> mu = d
  BY <1>1, IdleOpFields, MovesElsewhere
<1>3. ListTyped'
  BY <1>1, <1>2 DEF ListInv, ListTyped
<1> QED  BY <1>1, <1>3 DEF ListInv, NoDuplicates

\* The client that writes lets the mutex go, whether the file took the list or not.
LEMMA UnlockTyped ==
  ASSUME ListInv, NEW c \in Clients, op[c].at = "write", mu' = None, op' = [op EXCEPT ![c] = IdleOp]
  PROVE  \A d \in Clients : op'[d].at = "write" <=> mu' = d
<1>1. \A d \in Clients : op'[d] = IF d = c THEN IdleOp ELSE op[d]
  BY OneOpChanges DEF ListInv, FileInv
<1>2. mu = c
  BY DEF ListInv, ListTyped
<1>3. \A d \in Clients : d # c => op[d].at # "write"
  BY <1>2 DEF ListInv, ListTyped
<1> QED  BY <1>1, <1>3, IdleOpFields, NoneAssumption

LEMMA WriteFileTyped ==
  ASSUME ListInv, NEW c \in Clients, WriteFile(c)
  PROVE  ListTyped' /\ NoDuplicates'
<1>1. /\ disk' = Written(mem) /\ mu' = None /\ stale' = FALSE /\ UNCHANGED <<up, mem>>
      /\ Acknowledge(c) /\ op[c].at = "write"
      /\ doubled' = {p \in doubled : ~Once(mem, p)}
  BY DEF WriteFile
<1>2. /\ disk' \in [kind : {"missing", "torn", "list"}, paths : Seq(Paths)]
      /\ disk'.kind = "list" /\ disk'.paths = mem
  BY <1>1 DEF ListInv, ListTyped, Written
<1>3. \A d \in Clients : op'[d].at = "write" <=> mu' = d
  BY <1>1, UnlockTyped DEF Acknowledge
<1>4. ListTyped'
  BY <1>1, <1>2, <1>3, AcknowledgeTyped DEF ListInv, ListTyped
<1>5. NoDuplicates'
  BY <1>1, <1>2 DEF ListInv, NoDuplicates
<1> QED  BY <1>4, <1>5

LEMMA FailToWriteTyped ==
  ASSUME ListInv, NEW c \in Clients, FailToWrite(c)
  PROVE  ListTyped' /\ NoDuplicates'
<1>1. /\ op[c].at = "write" /\ mu' = None /\ op' = [op EXCEPT ![c] = IdleOp] /\ stale' = TRUE
      /\ UNCHANGED <<up, mem, disk, acked, doubled>>
  BY DEF FailToWrite
<1>2. \A d \in Clients : op'[d].at = "write" <=> mu' = d
  BY <1>1, UnlockTyped
<1>3. ListTyped'
  BY <1>1, <1>2 DEF ListInv, ListTyped
<1> QED  BY <1>1, <1>3 DEF ListInv, NoDuplicates

LEMMA CallTyped ==
  ASSUME ListInv, NEW c \in Clients, NEW kind, NEW p \in Paths, Call(c, kind, p)
  PROVE  ListTyped' /\ NoDuplicates'
<1>1. op[c] = IdleOp /\ acked' = [acked EXCEPT ![p] = "unknown"]
      /\ UNCHANGED <<up, mem, disk, mu, stale, doubled>>
  BY DEF Call
<1> DEFINE new == [path |-> p, kind |-> kind, at |-> "change",
                   alone |-> \A e \in Clients : op[e].path # p]
<1>2. op' = [d \in Clients |-> IF d = c THEN new
                               ELSE IF op[d].path = p THEN [op[d] EXCEPT !.alone = FALSE] ELSE op[d]]
  BY DEF Call
<1>3. new.at = "change"
  OBVIOUS
<1> HIDE DEF new
<1>4. op[c].at # "write" /\ \A d \in Clients : op'[d].at = IF d = c THEN "change" ELSE op[d].at
  BY <1>1, <1>2, <1>3, IdleOpFields DEF OpTyped, FileInv, ListInv
<1>5. \A d \in Clients : op'[d].at = "write" <=> mu = d
  BY <1>4 DEF ListInv, ListTyped
<1>6. ListTyped'
  BY <1>1, <1>5 DEF ListInv, ListTyped
<1> QED  BY <1>1, <1>6 DEF ListInv, NoDuplicates

LEMMA CrashTyped ==
  ASSUME ListInv, Crash
  PROVE  ListTyped' /\ NoDuplicates'
<1>1. /\ up' = FALSE /\ mem' = << >> /\ mu' = None /\ op' = [c \in Clients |-> IdleOp]
      /\ UNCHANGED <<disk, stale, acked, doubled>>
  BY DEF Crash
<1>2. << >> \in Seq(Paths) /\ \A c \in Clients : op'[c].at = "idle" /\ mu' # c
  BY <1>1, IdleOpFields, NoneAssumption
<1>3. ListTyped'
  BY <1>1, <1>2 DEF ListInv, ListTyped
<1>4. NoDuplicates'
  BY <1>1, OnceEmpty DEF ListInv, NoDuplicates
<1> QED  BY <1>3, <1>4

LEMMA ListStep == ListInv /\ [Next]_vars => ListTyped' /\ NoDuplicates'
<1> SUFFICES ASSUME ListInv, [Next]_vars PROVE ListTyped' /\ NoDuplicates'
  OBVIOUS
<1>1. ASSUME NEW c \in Clients, NEW p \in Paths, Call(c, "add", p) \/ Call(c, "remove", p)
      PROVE  ListTyped' /\ NoDuplicates'
  BY <1>1, CallTyped
<1>2. ASSUME NEW c \in Clients, Step(c) PROVE ListTyped' /\ NoDuplicates'
  BY <1>2, AddToListTyped, RemoveFromListTyped, TruncateFileTyped, FailToOpenTyped, WriteFileTyped,
     FailToWriteTyped DEF Step
<1>3. CASE UNCHANGED vars
  BY <1>3 DEF vars, ListInv, ListTyped, NoDuplicates
<1> QED  BY <1>1, <1>2, <1>3, LoadTyped, CrashTyped DEF Next

LEMMA ListInvAlways == Spec => []ListInv
<1>1. Init => ListInv
  BY FileInit, ListInit DEF ListInv
<1>2. ListInv /\ [Next]_vars => ListInv'
  BY FileStep, ListStep DEF ListInv
<1> QED  BY <1>1, <1>2, PTL DEF Spec

\* Whatever handlers add and remove at the same time, and whatever saves and loads fail:
\* no path is listed twice, in memory or in config.json, but one that the user wrote
\* twice and that no save has rid the file of (Store.addPath, removePath, Load, save).
THEOREM ListHasNoDuplicates == Spec => []NoDuplicates
<1>1. ListInv => NoDuplicates
  BY DEF ListInv
<1> QED  BY <1>1, ListInvAlways, PTL

\* The types of Store's state, and that a client has the mutex exactly while it writes the
\* file, whatever is added and removed, fails or dies (Store.save).
THEOREM StoreTyped == Spec => []TypeOK
<1>1. ListInv => TypeOK
  BY DEF ListInv, ListTyped, FileInv, OpTyped, TypeOK
<1> QED  BY <1>1, ListInvAlways, PTL
==============================================================================
