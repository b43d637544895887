------------------------------ MODULE LiveIndex ------------------------------
(***************************************************************************)
(* How the index follows the files of a watched folder. The file system    *)
(* changes on its own; fsnotify delivers its events in order to the one    *)
(* goroutine of Watcher.Start, which runs handleEvent for each             *)
(* (internal/infra/watcher/watcher.go); at the same time the workers of a  *)
(* scan (module IndexRun) index the files they were sent. Both index a     *)
(* file by Indexer.IndexFile (internal/usecase/indexing.go): the text is   *)
(* extracted first, and written to the index afterwards, with nothing that *)
(* keeps another goroutine or the file itself from changing in between.    *)
(* Reading and writing may fail, which is logged and not tried again, and  *)
(* a request may empty the index at any time (module WatchPaths has the    *)
(* scans that follow).                                                     *)
(*                                                                         *)
(* A file is its content: 0 when there is no file, else a version. The     *)
(* folder may have one subdirectory, in which new files appear.            *)
(***************************************************************************)
EXTENDS Naturals, Sequences, FiniteSets

CONSTANTS
    Files,          \* supported documents
    SubFiles,       \* those of them in the subdirectory
    Scanners,       \* workers of a scan
    MaxVersion,     \* bound: contents a file can have
    Unreadable,     \* versions no text can be extracted from
    Lossy,          \* whether fsnotify may drop events
    Faults,         \* whether reading a file, writing the index and watching may fail
    Resets,         \* whether the index may be reset
    MaxEdits,       \* bound: changes of the file system
    MaxScans        \* bound: files the scan's walk sends to the workers

ASSUME FilesAssumption == SubFiles \subseteq Files
ASSUME VersionAssumption == MaxVersion \in Nat /\ Unreadable \subseteq 1..MaxVersion
ASSUME BoundsAssumption == MaxEdits \in Nat /\ MaxScans \in Nat
ASSUME SwitchAssumption == Lossy \in BOOLEAN /\ Faults \in BOOLEAN /\ Resets \in BOOLEAN

Absent == 0
Versions == 1..MaxVersion
Sub == "subdirectory"       \* the name of the subdirectory in an event

ASSUME SubAssumption == Sub \notin Files

VARIABLES
    fs,             \* the content of each file
    sub,            \* the subdirectory exists
    subWatched,     \* fsnotify watches it
    edits,          \* changes made so far
    scans,          \* files sent so far
    queue,          \* events fsnotify has not delivered
    index,          \* the version of each file the index holds, or Absent
    watcher,        \* what the watcher's goroutine is doing
    scanner,        \* what each scan worker is doing
    overtaken,      \* history: files whose last change came while a scan worker had
                    \* their text
    unseen,         \* history: files whose last change no watch reported
    unwritten       \* history: files the watcher failed to read or to write, or that a
                    \* reset took out of the index, and that nobody has written since

handVars == <<watcher, scanner>>
history == <<overtaken, unseen, unwritten>>
vars == <<fs, sub, subWatched, edits, scans, queue, index, handVars, history>>

\* A goroutine is idle, about to extract a file's text, about to write the text
\* it has extracted, or about to delete the file's document.
Idle == [at |-> "idle"]
Extract(f) == [at |-> "extract", file |-> f]
Write(f, v) == [at |-> "write", file |-> f, version |-> v]
Delete(f) == [at |-> "delete", file |-> f]
Hands == {Idle} \cup {Extract(f) : f \in Files} \cup {Delete(f) : f \in Files}
                \cup {Write(f, v) : f \in Files, v \in Versions}

Holds(hand, f) == hand # Idle /\ hand.file = f

Event(kind, name) == [kind |-> kind, name |-> name]
Events == [kind : {"create", "write", "remove"}, name : Files \cup {Sub}]

\* The folder as it is when it has been scanned and nothing has happened since.
Init == /\ fs \in [Files -> {Absent} \cup (Versions \ Unreadable)]
        /\ sub = (\E f \in SubFiles : fs[f] # Absent)
        /\ subWatched = sub
        /\ edits = 0
        /\ scans = 0
        /\ queue = <<>>
        /\ index = fs
        /\ watcher = Idle
        /\ scanner = [s \in Scanners |-> Idle]
        /\ overtaken = {} /\ unseen = {} /\ unwritten = {}

-----------------------------------------------------------------------------
(* The file system: external. *)

\* A file takes a new content; the kernel reports it when the directory is
\* watched, unless its queue of events is full: fsnotify then says so on Errors,
\* which Watcher.Start only logs, and the event is gone.
Change(f, v, kind) ==
    /\ edits < MaxEdits
    /\ edits' = edits + 1
    /\ fs' = [fs EXCEPT ![f] = v]
    /\ \/ /\ f \in SubFiles => subWatched
          /\ unseen' = unseen \ {f}
          /\ queue' = Append(queue, Event(kind, f))
       \/ /\ Lossy \/ (f \in SubFiles /\ ~subWatched)
          /\ unseen' = unseen \cup {f}
          /\ UNCHANGED queue
    /\ overtaken' = IF \E s \in Scanners : scanner[s].at = "write" /\ scanner[s].file = f
                    THEN overtaken \cup {f} ELSE overtaken \ {f}
    /\ UNCHANGED <<sub, subWatched, scans, index, handVars, unwritten>>

CreateFile(f) == /\ fs[f] = Absent
                 /\ f \in SubFiles => sub
                 /\ \E v \in Versions : Change(f, v, "create")

WriteFile(f) == /\ fs[f] # Absent
                /\ \E v \in Versions \ {fs[f]} : Change(f, v, "write")

\* Removed, or renamed away: the watcher treats both alike.
RemoveFile(f) == /\ fs[f] # Absent
                 /\ Change(f, Absent, "remove")

MakeSub == /\ SubFiles # {} /\ ~sub
           /\ edits < MaxEdits
           /\ edits' = edits + 1
           /\ sub' = TRUE
           /\ \/ queue' = Append(queue, Event("create", Sub))
              \/ Lossy /\ UNCHANGED queue
           /\ UNCHANGED <<fs, subWatched, scans, index, handVars, history>>

-----------------------------------------------------------------------------
(* Indexer.IndexFile, in two steps. `next` is the goroutine's state after. *)

\* ExtractText reads the file as it is now; an error ends IndexFile, the
\* document that was indexed before stays.
AfterExtract(f) == IF fs[f] \in Versions \ Unreadable THEN Write(f, fs[f]) ELSE Idle

-----------------------------------------------------------------------------
(* The watcher's goroutine. *)

\* Mutant: a rename or a removal is not handled.
HandleEventIndexOnly ==
    /\ watcher = Idle
    /\ queue # <<>>
    /\ queue' = Tail(queue)
    /\ LET e == Head(queue) IN
       /\ subWatched' = (subWatched \/ e.name = Sub)
       /\ watcher' = IF e.name # Sub /\ e.kind # "remove" THEN Extract(e.name) ELSE Idle
    /\ UNCHANGED <<fs, sub, edits, scans, index, scanner, history>>

\* Mutant: a document is indexed when it is created, not when it is written.
HandleEventCreateOnly ==
    /\ watcher = Idle
    /\ queue # <<>>
    /\ queue' = Tail(queue)
    /\ LET e == Head(queue) IN
       /\ subWatched' = (subWatched \/ e.name = Sub)
       /\ watcher' = CASE e.name = Sub \/ e.kind = "write" -> Idle
                       [] e.name # Sub /\ e.kind = "remove" -> Delete(e.name)
                       [] e.name # Sub /\ e.kind = "create" -> Extract(e.name)
    /\ UNCHANGED <<fs, sub, edits, scans, index, scanner, history>>

\* handleEvent: a created directory is watched, or cannot be, which nobody hears of; a
\* created or written document is indexed, a removed one deleted.
HandleEvent ==
    /\ watcher = Idle
    /\ queue # <<>>
    /\ queue' = Tail(queue)
    /\ LET e == Head(queue) IN
       \/ /\ e.name = Sub
          /\ subWatched' = TRUE \/ (Faults /\ UNCHANGED subWatched)
          /\ UNCHANGED watcher
       \/ /\ e.name # Sub
          /\ watcher' = IF e.kind = "remove" THEN Delete(e.name) ELSE Extract(e.name)
          /\ UNCHANGED subWatched
    /\ UNCHANGED <<fs, sub, edits, scans, index, scanner, history>>

WatcherExtracts ==
    /\ watcher.at = "extract"
    /\ \/ watcher' = AfterExtract(watcher.file) /\ UNCHANGED unwritten
       \/ Faults /\ watcher' = Idle /\ unwritten' = unwritten \cup {watcher.file}
    /\ UNCHANGED <<fs, sub, subWatched, edits, scans, queue, index, scanner, overtaken, unseen>>

\* Mutant: the document of a removed file is kept as an empty one.
WatcherBlanks ==
    /\ watcher.at \in {"write", "delete"}
    /\ index' = [index EXCEPT ![watcher.file] =
                    IF watcher.at = "write" THEN watcher.version ELSE MaxVersion + 1]
    /\ watcher' = Idle
    /\ unwritten' = unwritten \ {watcher.file}
    /\ UNCHANGED <<fs, sub, subWatched, edits, scans, queue, scanner, overtaken, unseen>>

\* IndexDocument, or DeleteDocument: one operation of the index, whose error main.go
\* only logs.
WatcherWrites ==
    /\ watcher.at \in {"write", "delete"}
    /\ \/ /\ index' = [index EXCEPT ![watcher.file] =
                           IF watcher.at = "write" THEN watcher.version ELSE Absent]
          /\ unwritten' = unwritten \ {watcher.file}
       \/ Faults /\ unwritten' = unwritten \cup {watcher.file} /\ UNCHANGED index
    /\ watcher' = Idle
    /\ UNCHANGED <<fs, sub, subWatched, edits, scans, queue, scanner, overtaken, unseen>>

-----------------------------------------------------------------------------
(* A worker of a scan. *)

\* The walk met the file, and a worker received its path.
ScanFile(s, f) == /\ scanner[s] = Idle
                  /\ scans < MaxScans
                  /\ scans' = scans + 1
                  /\ fs[f] # Absent
                  /\ scanner' = [scanner EXCEPT ![s] = Extract(f)]
                  /\ UNCHANGED <<fs, sub, subWatched, edits, queue, index, watcher, history>>

ScannerExtracts(s) ==
    /\ scanner[s].at = "extract"
    /\ \/ scanner' = [scanner EXCEPT ![s] = AfterExtract(scanner[s].file)]
       \/ Faults /\ scanner' = [scanner EXCEPT ![s] = Idle]
    /\ UNCHANGED <<fs, sub, subWatched, edits, scans, queue, index, watcher, history>>

\* An error of IndexDocument is only logged by the worker.
ScannerWrites(s) ==
    /\ scanner[s].at = "write"
    /\ \/ /\ index' = [index EXCEPT ![scanner[s].file] = scanner[s].version]
          /\ unwritten' = unwritten \ {scanner[s].file}
       \/ Faults /\ UNCHANGED <<index, unwritten>>
    /\ scanner' = [scanner EXCEPT ![s] = Idle]
    /\ UNCHANGED <<fs, sub, subWatched, edits, scans, queue, watcher, overtaken, unseen>>

-----------------------------------------------------------------------------
\* Engine.Reset, on a request: the index is empty, whoever has a text in hand.
ResetIndex ==
    /\ Resets
    /\ index' = [f \in Files |-> Absent]
    /\ unwritten' = unwritten \cup {f \in Files : fs[f] # Absent}
    /\ UNCHANGED <<fs, sub, subWatched, edits, scans, queue, handVars, overtaken, unseen>>

-----------------------------------------------------------------------------
FileSystem == \/ \E f \in Files : CreateFile(f) \/ WriteFile(f) \/ RemoveFile(f)
              \/ MakeSub
Watch == HandleEvent \/ WatcherExtracts \/ WatcherWrites
Scan(s) == ScannerExtracts(s) \/ ScannerWrites(s)

Next == FileSystem \/ Watch \/ ResetIndex
        \/ \E s \in Scanners : Scan(s) \/ \E f \in Files : ScanFile(s, f)

SafetySpec == Init /\ [][Next]_vars

\* The goroutines run; the file system does as it likes.
Spec == SafetySpec /\ WF_vars(Watch) /\ \A s \in Scanners : WF_vars(Scan(s))

-----------------------------------------------------------------------------
\* The types of the state; the index holds only texts files have had.
TypeOK == /\ fs \in [Files -> {Absent} \cup Versions]
          /\ sub \in BOOLEAN /\ subWatched \in BOOLEAN
          /\ edits \in 0..MaxEdits /\ scans \in 0..MaxScans
          /\ queue \in Seq(Events)
          /\ index \in [Files -> {Absent} \cup Versions]
          /\ watcher \in Hands
          /\ scanner \in [Scanners -> Hands]
          /\ overtaken \subseteq Files /\ unseen \subseteq Files /\ unwritten \subseteq Files

\* The index agrees with the file: it holds the file's text, or no text can be
\* extracted and what was indexed before stays (docs: "leave the previous
\* searchable content until a successful re-index").
InSync(f) == index[f] = fs[f] \/ fs[f] \in Unreadable

Noticed(f) == \E i \in DOMAIN queue : queue[i].name = f

\* Nothing is on its way that would change the document of f.
Settled(f) == /\ ~Noticed(f)
              /\ f \in SubFiles => ~Noticed(Sub)
              /\ ~Holds(watcher, f)
              /\ \A s \in Scanners : ~Holds(scanner[s], f)

\* Once the events of a file are handled and no goroutine has it in hand, the
\* index agrees with the file, whatever else is going on.
SettledIsInSync == \A f \in Files : Settled(f) => InSync(f)

\* While the program runs, a settled file's document is wrong for one of three reasons
\* only: a scan worker wrote a text the file no longer had; no event told of a change, in
\* a directory not watched yet or from a full queue; or the watcher failed to read or
\* write the file, or a reset emptied the index, and nobody has written it since.
\* No other interleaving does it, and no failure in a scan worker.
StaleOnlyIfMissed ==
    \A f \in Files \ (overtaken \cup unseen \cup unwritten) : Settled(f) => InSync(f)

\* Why it is so: the last event of a file in the queue tells whether the file is
\* there; a file with no event left is in sync, unwritten, or about to be brought in
\* sync by the watcher; and a scan worker holds the text the file has.
LastEvent(f, i) == /\ i \in DOMAIN queue
                   /\ queue[i].name = f
                   /\ \A j \in DOMAIN queue : j > i => queue[j].name # f

Followed(f) ==
    /\ \A i \in DOMAIN queue : LastEvent(f, i) => (queue[i].kind = "remove" <=> fs[f] = Absent)
    /\ ~Noticed(f) => \/ watcher = Extract(f) /\ fs[f] # Absent
                      \/ watcher = Write(f, fs[f])
                      \/ watcher = Delete(f) /\ fs[f] = Absent
                      \/ ~Holds(watcher, f) /\ (InSync(f) \/ f \in unwritten)
    /\ \A s \in Scanners, v \in Versions :
          scanner[s] = Write(f, v) => v = fs[f] /\ v \notin Unreadable

FilesFollowed == \A f \in Files \ (overtaken \cup unseen) : Followed(f)

\* When the file system has come to rest, the index catches up for good with
\* every file that was not overtaken, changed unseen or left unwritten.
CatchesUp == <>[](\A f \in Files \ (overtaken \cup unseen \cup unwritten) : InSync(f))
==============================================================================
