----------------------------- MODULE ConfigStore -----------------------------
(***************************************************************************)
(* config.Store (internal/infra/config/config.go): the list of watched     *)
(* paths in memory, guarded by a mutex, and config.json. Add and Remove    *)
(* change the list in one critical section and save it in another; a save  *)
(* marshals the list as it is then and rewrites the file, which            *)
(* os.WriteFile first truncates. A save can fail, and the process can die  *)
(* between any two steps; the file stays as the last step left it. What it *)
(* holds at first was written by a user, who may have a path in it twice.  *)
(***************************************************************************)
EXTENDS SequencesExt, SequenceLoops

CONSTANTS
    Clients,    \* goroutines of the HTTP handlers
    Paths,      \* paths a client may add or remove
    None,       \* no client, no path
    Length,     \* bound: entries of the config.json that is first found
    IOErrors,   \* whether the file system may refuse to read or to save the file
    Crashes     \* whether the process may die

ASSUME NoneAssumption == None \notin Clients \cup Paths
ASSUME LengthAssumption == Length \in Nat
ASSUME SwitchAssumption == IOErrors \in BOOLEAN /\ Crashes \in BOOLEAN

\* What config.json holds: no file, a list, or a torn text that is not JSON.
Missing == [kind |-> "missing", paths |-> <<>>]
Torn == [kind |-> "torn", paths |-> <<>>]
Written(paths) == [kind |-> "list", paths |-> paths]

\* A path is in a list once at most.
Once(s, p) == \A i, j \in DOMAIN s : s[i] = p /\ s[j] = p => i = j

VARIABLES
    up,         \* the program has loaded its configuration
    mem,        \* Config.WatchedPaths
    disk,       \* config.json
    mu,         \* the client that saves under the mutex, or None
    op,         \* what each client is doing
    stale,      \* history: the last save or load failed
    acked,      \* history: what the last answered call on each path promised
    doubled     \* history: paths the user wrote twice, and no save has rid of that

vars == <<up, mem, disk, mu, op, stale, acked, doubled>>

IdleOp == [path |-> None, kind |-> "none", at |-> "idle", alone |-> TRUE]

Init == /\ up = FALSE
        /\ mem = <<>>
        /\ disk \in {Missing} \cup {Written(s) : s \in SeqOf(Paths, Length)}
        /\ mu = None
        /\ op = [c \in Clients |-> IdleOp]
        /\ stale = FALSE
        /\ acked = [p \in Paths |-> IF p \in ToSet(disk.paths) THEN "in" ELSE "unknown"]
        /\ doubled = {p \in Paths : ~Once(disk.paths, p)}

\* The configuration a file is loaded as: the absent file is an empty list.
Content(file) == file.paths

\* Load at startup. A text that is not JSON, and a file that cannot be read, are
\* errors that main only logs: the program goes on with the empty list.
Load == /\ ~up
        /\ up' = TRUE
        /\ \/ mem' = Content(disk) /\ stale' = (disk.kind = "torn")
           \/ IOErrors /\ mem' = <<>> /\ stale' = TRUE
        /\ UNCHANGED <<disk, mu, op, acked, doubled>>

\* A call returns nil, and what it promised is now expected to hold.
Acknowledge(c) ==
    /\ op' = [op EXCEPT ![c] = IdleOp]
    /\ acked' = [acked EXCEPT ![op[c].path] = IF ~op[c].alone THEN "unknown"
                                               ELSE IF op[c].kind = "add" THEN "in" ELSE "out"]

\* A handler calls AddPath or RemovePath. While it is under way nothing is
\* promised about its path, and calls on one path that overlap promise nothing.
Call(c, kind, p) ==
    /\ up
    /\ op[c] = IdleOp
    /\ op' = [d \in Clients |->
                 IF d = c THEN [path |-> p, kind |-> kind, at |-> "change",
                                alone |-> \A e \in Clients : op[e].path # p]
                 ELSE IF op[d].path = p THEN [op[d] EXCEPT !.alone = FALSE] ELSE op[d]]
    /\ acked' = [acked EXCEPT ![p] = "unknown"]
    /\ UNCHANGED <<up, mem, disk, mu, stale, doubled>>

\* Mutant: the path is appended without looking for it.
AddUnchecked(c) == /\ op[c].kind = "add"
                   /\ op[c].at = "change"
                   /\ mu = None
                   /\ Len(mem) <= Length
                   /\ mem' = Append(mem, op[c].path)
                   /\ op' = [op EXCEPT ![c].at = "save"]
                   /\ UNCHANGED <<up, disk, mu, stale, acked, doubled>>

\* addPath's critical section: a path that is there already is not saved again.
AddToList(c) ==
    /\ op[c].kind = "add"
    /\ op[c].at = "change"
    /\ mu = None
    /\ \/ /\ op[c].path \in ToSet(mem)
          /\ Acknowledge(c)
          /\ UNCHANGED mem
       \/ /\ op[c].path \notin ToSet(mem)
          /\ mem' = Append(mem, op[c].path)
          /\ op' = [op EXCEPT ![c].at = "save"]
          /\ UNCHANGED acked
    /\ UNCHANGED <<up, disk, mu, stale, doubled>>

\* Mutant: the list is changed but not saved.
RemoveUnsaved(c) == /\ op[c].kind = "remove"
                    /\ op[c].at = "change"
                    /\ mu = None
                    /\ mem' = Without(mem, op[c].path)
                    /\ Acknowledge(c)
                    /\ UNCHANGED <<up, disk, mu, stale, doubled>>

\* removePath's critical section; the list is saved whether it changed or not.
RemoveFromList(c) ==
    /\ op[c].kind = "remove"
    /\ op[c].at = "change"
    /\ mu = None
    /\ mem' = Without(mem, op[c].path)
    /\ op' = [op EXCEPT ![c].at = "save"]
    /\ UNCHANGED <<up, disk, mu, stale, acked, doubled>>

\* Mutant: save does not take the mutex.
TruncateUnlocked(c) == /\ op[c].at = "save"
                       /\ disk' = Torn
                       /\ op' = [op EXCEPT ![c].at = "write"]
                       /\ UNCHANGED <<up, mem, mu, stale, acked, doubled>>

\* save: the mutex again, and os.WriteFile opens the file, truncating it.
TruncateFile(c) ==
    /\ op[c].at = "save"
    /\ mu = None
    /\ mu' = c
    /\ disk' = Torn
    /\ op' = [op EXCEPT ![c].at = "write"]
    /\ UNCHANGED <<up, mem, stale, acked, doubled>>

\* os.WriteFile cannot open the file: it stays as it was, and the call returns
\* the error.
FailToOpen(c) ==
    /\ IOErrors
    /\ op[c].at = "save"
    /\ mu = None
    /\ op' = [op EXCEPT ![c] = IdleOp]
    /\ stale' = TRUE
    /\ UNCHANGED <<up, mem, disk, mu, acked, doubled>>

\* The marshalled list is written, and the call returns nil.
WriteFile(c) ==
    /\ op[c].at = "write"
    /\ disk' = Written(mem)
    /\ mu' = None
    /\ stale' = FALSE
    /\ doubled' = {p \in doubled : ~Once(mem, p)}
    /\ Acknowledge(c)
    /\ UNCHANGED <<up, mem>>

\* Mutant: a save that fails keeps the mutex.
FailToWriteLocked(c) == /\ IOErrors
                        /\ op[c].at = "write"
                        /\ op' = [op EXCEPT ![c] = IdleOp]
                        /\ stale' = TRUE
                        /\ UNCHANGED <<up, mem, disk, mu, acked, doubled>>

\* The file system refuses the data (a full disk): the file is left torn.
FailToWrite(c) ==
    /\ IOErrors
    /\ op[c].at = "write"
    /\ mu' = None
    /\ op' = [op EXCEPT ![c] = IdleOp]
    /\ stale' = TRUE
    /\ UNCHANGED <<up, mem, disk, acked, doubled>>

\* The process dies: only config.json is left.
Crash == /\ Crashes
         /\ up
         /\ up' = FALSE
         /\ mem' = <<>>
         /\ mu' = None
         /\ op' = [c \in Clients |-> IdleOp]
         /\ UNCHANGED <<disk, stale, acked, doubled>>

Step(c) == \/ AddToList(c) \/ RemoveFromList(c)
           \/ TruncateFile(c) \/ FailToOpen(c) \/ WriteFile(c) \/ FailToWrite(c)

Next == \/ Load
        \/ \E c \in Clients : \/ \E p \in Paths : Call(c, "add", p) \/ Call(c, "remove", p)
                              \/ Step(c)
        \/ Crash

Spec == Init /\ [][Next]_vars

-----------------------------------------------------------------------------
\* The types of the state; a client has the mutex while it writes the file, and then
\* only.
TypeOK == /\ up \in BOOLEAN
          /\ mem \in Seq(Paths)
          /\ disk \in [kind : {"missing", "torn", "list"}, paths : Seq(Paths)]
          /\ disk.kind # "list" => disk.paths = <<>>
          /\ mu \in Clients \cup {None}
          /\ op \in [Clients -> [path : Paths, kind : {"add", "remove"},
                                 at : {"change", "save", "write"},
                                 alone : BOOLEAN] \cup {IdleOp}]
          /\ \A c \in Clients : op[c].at = "write" <=> mu = c
          /\ stale \in BOOLEAN
          /\ acked \in [Paths -> {"unknown", "in", "out"}]
          /\ doubled \subseteq Paths

\* A path is listed once, in memory and in the file: two concurrent calls that add it
\* append it once. Only one that the user wrote twice is there twice, until a save has
\* rid the file of that.
NoDuplicates == \A p \in Paths \ doubled : Once(mem, p) /\ Once(disk.paths, p)

\* Two clients that change the list and then save it may save in either order,
\* yet whenever no save is due the file holds the list in memory: a save writes
\* the list as it is, not as its caller left it. Only a save that failed breaks this,
\* or a load that could not read the file.
FileHoldsList == up /\ ~stale /\ (\A c \in Clients : op[c].at \notin {"save", "write"})
                   => Content(disk) = mem /\ disk.kind # "torn"

\* The file is torn only while a client writes it, or after a write that failed
\* or was cut short by a crash.
TornOnlyWhenWriting == disk.kind = "torn" => mu # None \/ stale \/ ~up

\* "persists config.json": an Add that returns nil leaves its path in the file.
AddedIsPersisted ==
    [][\A p \in Paths : acked[p] # "in" /\ acked'[p] = "in"
                        => p \in ToSet(Content(disk'))]_vars
==============================================================================
