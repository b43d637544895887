----------------------------- MODULE WatchPaths -----------------------------
(***************************************************************************)
(* usecase.WatchPaths (internal/usecase/watchpaths.go) put together with   *)
(* the parts it drives: the list of watched paths in config.Store, the     *)
(* roots fsnotify watches (watcher.Registry), the scans of IndexRunner     *)
(* (module IndexRunner) and the reset of the index. At startup the main    *)
(* goroutine registers the configured paths; after that every request to   *)
(* add a path, remove one or reset the index is a goroutine of its own,    *)
(* and nothing orders the steps of two requests.                           *)
(***************************************************************************)
EXTENDS Sequences, FiniteSets, SequencesExt

CONSTANTS
    Clients,    \* goroutines of the HTTP handlers
    Main,       \* the main goroutine
    Paths,      \* folders
    Runs,       \* bound: scans that can be live at the same time
    None,       \* no path
    Faults      \* whether registration, a scan, saving and resetting may fail

ASSUME NoneAssumption == None \notin Paths /\ Main \notin Clients
ASSUME PathsAssumption == IsFiniteSet(Paths)
ASSUME FaultsAssumption == Faults \in BOOLEAN

Procs == Clients \cup {Main}
Lists == {s \in SeqOf(Paths, Cardinality(Paths)) : IsInjective(s)}

VARIABLES
    serving,    \* the HTTP server accepts requests
    config,     \* Config.WatchedPaths
    watched,    \* roots fsnotify watches
    running, call, run, overlapped,     \* IndexRunner
    dead,       \* a reset has left the index out of service
    indexed,    \* paths a scan has gone through to its end (of each file: LiveIndex)
    proc,       \* what each goroutine is doing
    torn,       \* history: scans the index was emptied under
    missed,     \* history: paths whose last scan was refused, failed, torn or emptied away
    parted      \* history: paths on which a call failed half-way, a watch was refused,
                \* or a removal met an addition, since a request last had the path to itself

runnerVars == <<running, call, run, overlapped>>
watchVars == <<serving, config, watched>>
indexVars == <<dead, indexed, torn, missed>>
vars == <<watchVars, runnerVars, indexVars, proc, parted>>

Runner == INSTANCE IndexRunner WITH Callers <- Procs, Roots <- Paths

\* kind: "add", "remove", "reset" or "startup". todo: the paths still to register.
Idle == [kind |-> "none", path |-> None, todo |-> <<>>, at |-> "idle"]
Starting == [kind |-> "startup", path |-> None, todo |-> <<>>, at |-> "load"]

Configured == ToSet(config)

Init == /\ serving = FALSE
        /\ config = <<>> /\ watched = {}
        /\ Runner!FlagInit
        /\ dead = FALSE /\ indexed = {}
        /\ proc = [c \in Procs |-> IF c = Main THEN Starting ELSE Idle]
        /\ torn = {} /\ missed = {} /\ parted = {}

Goto(c, at) == proc' = [proc EXCEPT ![c].at = at]
Return(c) == proc' = [proc EXCEPT ![c] = Idle]

\* The loop over `paths`, or the end of the call when there is none.
Loop(c, paths) ==
    proc' = [proc EXCEPT ![c] = IF paths = <<>> THEN Idle
                                ELSE [kind |-> proc[c].kind, path |-> proc[c].path,
                                      todo |-> paths, at |-> "watch"]]

-----------------------------------------------------------------------------
(* The main goroutine: WatchPaths.Start, then server.Start. *)

\* configStore.Load. An error ends Start, and the program serves an empty list. Lists
\* that have a path twice, which only a hand-edited file has, are left to ConfigStore.
LoadConfig == /\ proc[Main].at = "load"
              /\ \/ \E s \in Lists : config' = s /\ Loop(Main, s)
                 \/ Faults /\ Return(Main) /\ UNCHANGED config
              /\ UNCHANGED <<serving, watched, runnerVars, indexVars, parted>>

\* main logs what Start returned, and serves.
Serve == /\ ~serving
         /\ proc[Main] = Idle
         /\ serving' = TRUE
         /\ UNCHANGED <<config, watched, runnerVars, indexVars, proc, parted>>

-----------------------------------------------------------------------------
(* Requests. *)

Removes(c, p) == proc[c].kind = "remove" /\ proc[c].path = p
Registers(c, p) == \/ p \in ToSet(proc[c].todo)
                   \/ proc[c].kind = "add" /\ proc[c].path = p
                   \/ proc[c].at = "list" /\ p \in Configured
Untouched(p) == /\ proc[Main].at # "load"
                /\ \A c \in Procs : ~Registers(c, p) /\ ~Removes(c, p)

\* A request that meets an opposite one on its path parts the path; one that has
\* it to itself settles it.
Meet(p, opposite) == parted' = IF opposite THEN parted \cup {p}
                               ELSE IF Untouched(p) THEN parted \ {p} ELSE parted

Ready(c) == serving /\ proc[c] = Idle

RequestAdd(c, p) ==
    /\ Ready(c)
    /\ proc' = [proc EXCEPT ![c] = [kind |-> "add", path |-> p, todo |-> <<p>>, at |-> "watch"]]
    /\ Meet(p, \E d \in Clients : Removes(d, p))
    /\ UNCHANGED <<watchVars, runnerVars, indexVars>>

RequestRemove(c, p) ==
    /\ Ready(c)
    /\ proc' = [proc EXCEPT ![c] = [kind |-> "remove", path |-> p, todo |-> <<>>, at |-> "forget"]]
    /\ Meet(p, \E d \in Clients : Registers(d, p))
    /\ UNCHANGED <<watchVars, runnerVars, indexVars>>

-----------------------------------------------------------------------------
(* Registry.AddPath: watch the folder, then IndexRunner.Start on it. *)

\* What follows when a path of the loop is done with: the next one, or, for Add,
\* configStore.AddPath.
Advance(c) == IF proc[c].kind = "add" THEN Goto(c, "store") ELSE Loop(c, Tail(proc[c].todo))

\* Watcher.addPath walks the folder and watches its directories, the root first.
\* When fsnotify refuses the root, it logs that and goes on as if nothing had been.
WatchRoot(c) ==
    /\ proc[c].at = "watch"
    /\ \/ watched' = watched \cup {Head(proc[c].todo)} /\ UNCHANGED parted
       \/ Faults /\ parted' = parted \cup {Head(proc[c].todo)} /\ UNCHANGED watched
    /\ Goto(c, "start")
    /\ UNCHANGED <<serving, config, runnerVars, indexVars>>

\* The walk fails, with the root watched already or not. Add and ResetIndex
\* return the error; Start goes on with the next path.
FailToWatch(c) ==
    /\ Faults
    /\ proc[c].at = "watch"
    /\ watched' \in {watched, watched \cup {Head(proc[c].todo)}}
    /\ parted' = parted \cup {Head(proc[c].todo)}
    /\ IF proc[c].kind = "startup"
       THEN missed' = missed \cup {Head(proc[c].todo)} /\ Loop(c, Tail(proc[c].todo))
       ELSE missed' = missed \cup ToSet(proc[c].todo) /\ Return(c)
    /\ UNCHANGED <<serving, config, runnerVars, dead, indexed, torn>>

\* Mutant: an occupied runner ends the request, as an error would.
StartRefusedStops(c) ==
    /\ proc[c].at = "start"
    /\ running
    /\ Runner!LoadFlag(c, Head(proc[c].todo))
    /\ missed' = missed \cup {Head(proc[c].todo)}
    /\ Return(c)
    /\ UNCHANGED <<watchVars, dead, indexed, torn, parted>>

\* IndexRunner.Start gives up when the flag is up; Registry.AddPath returns nil.
StartRefused(c) ==
    /\ proc[c].at = "start"
    /\ running
    /\ Runner!LoadFlag(c, Head(proc[c].todo))
    /\ missed' = missed \cup {Head(proc[c].todo)}
    /\ Advance(c)
    /\ UNCHANGED <<watchVars, dead, indexed, torn, parted>>

StartAccepted(c) ==
    /\ proc[c].at = "start"
    /\ ~running
    /\ Runner!LoadFlag(c, Head(proc[c].todo))
    /\ Goto(c, "raise")
    /\ UNCHANGED <<watchVars, indexVars, parted>>

RaiseFlag(c) == /\ proc[c].at = "raise"
                /\ Runner!RaiseFlag(c)
                /\ Goto(c, "spawn")
                /\ UNCHANGED <<watchVars, indexVars, parted>>

Spawn(c) == /\ proc[c].at = "spawn"
            /\ Runner!Spawn(c)
            /\ missed' = missed \ {Head(proc[c].todo)}
            /\ Advance(c)
            /\ UNCHANGED <<watchVars, dead, indexed, torn, parted>>

\* A scan ends, with the folder in the index; or without, when the index was emptied
\* under it, or its walk failed, which is only logged.
FinishRun(r) ==
    /\ Runner!FinishRun(r)
    /\ torn' = torn \ {r}
    /\ \/ r \notin torn /\ ~dead /\ indexed' = indexed \cup {run[r]} /\ UNCHANGED missed
       \/ (r \in torn \/ dead \/ Faults) /\ missed' = missed \cup {run[r]} /\ UNCHANGED indexed
    /\ UNCHANGED <<watchVars, dead, proc, parted>>

-----------------------------------------------------------------------------
(* The rest of Add, Remove and ResetIndex. *)

\* Mutant: Add appends a path without looking for it.
StoreTwice(c) == /\ proc[c].at = "store"
                 /\ config' = Append(config, proc[c].path)
                 /\ Return(c)
                 /\ UNCHANGED <<serving, watched, runnerVars, indexVars, parted>>

\* configStore.AddPath; the list has changed even when saving it fails.
StorePath(c) ==
    /\ proc[c].at = "store"
    /\ config' = IF proc[c].path \in Configured THEN config ELSE Append(config, proc[c].path)
    /\ Return(c)
    /\ UNCHANGED <<serving, watched, runnerVars, indexVars, parted>>

\* configStore.RemovePath, which leaves the other paths (in which order, is of no
\* consequence here); when saving fails, Remove returns with the path watched.
ForgetPath(c) ==
    /\ proc[c].at = "forget"
    /\ config' \in {s \in Lists : ToSet(s) = Configured \ {proc[c].path}}
    /\ \/ Goto(c, "unwatch") /\ UNCHANGED parted
       \/ Faults /\ Return(c) /\ parted' = parted \cup {proc[c].path}
    /\ UNCHANGED <<serving, watched, runnerVars, indexVars>>

\* Watcher.RemovePath; an error for a root that is not watched changes nothing.
UnwatchRoot(c) == /\ proc[c].at = "unwatch"
                  /\ watched' = watched \ {proc[c].path}
                  /\ Return(c)
                  /\ UNCHANGED <<serving, config, runnerVars, indexVars, parted>>

\* Mutant: the paths are not registered again.
ResetOnly(c) == /\ Ready(c) /\ ~dead
                /\ indexed' = {}
                /\ torn' = {r \in Runs : run[r] # None}
                /\ UNCHANGED <<watchVars, runnerVars, dead, missed, proc, parted>>

\* index.Reset. It tears the live scans, and undoes those of paths that Add has
\* not stored yet.
ResetIndex(c) ==
    /\ Ready(c) /\ ~dead
    /\ indexed' = {}
    /\ torn' = {r \in Runs : run[r] # None}
    /\ missed' = missed \cup {proc[d].path : d \in {e \in Clients : proc[e].at = "store"}}
    /\ proc' = [proc EXCEPT ![c] = [kind |-> "reset", path |-> None, todo |-> <<>>, at |-> "list"]]
    /\ UNCHANGED <<watchVars, runnerVars, dead, parted>>

\* The loop of ResetIndex is over the paths configured when it begins.
ListPaths(c) ==
    /\ proc[c].at = "list"
    /\ Loop(c, config)
    /\ parted' = parted \cup {p \in Configured : \E d \in Clients : Removes(d, p)}
    /\ UNCHANGED <<watchVars, runnerVars, indexVars>>

\* index.Reset fails: before it has touched the index, or leaving none (module
\* IndexStore); from then on every reset is refused.
FailToReset(c) ==
    /\ Ready(c)
    /\ \/ (dead \/ Faults) /\ UNCHANGED indexVars
       \/ /\ Faults /\ ~dead
          /\ dead' = TRUE
          /\ indexed' = {} /\ missed' = Paths
          /\ UNCHANGED torn
    /\ UNCHANGED <<watchVars, runnerVars, proc, parted>>

-----------------------------------------------------------------------------
AddToRegistry(c) == \/ WatchRoot(c) \/ FailToWatch(c)
                    \/ StartRefused(c) \/ StartAccepted(c) \/ RaiseFlag(c) \/ Spawn(c)

Request(c) == \/ \E p \in Paths : RequestAdd(c, p) \/ RequestRemove(c, p)
              \/ ResetIndex(c) \/ FailToReset(c)

Handle(c) == StorePath(c) \/ ForgetPath(c) \/ UnwatchRoot(c) \/ ListPaths(c)

Next == \/ LoadConfig \/ Serve
        \/ \E c \in Procs : AddToRegistry(c)
        \/ \E c \in Clients : Request(c) \/ Handle(c)
        \/ \E r \in Runs : FinishRun(r)

Spec == Init /\ [][Next]_vars

-----------------------------------------------------------------------------
\* The types of the state; a path is configured once.
TypeOK == /\ serving \in BOOLEAN /\ dead \in BOOLEAN
          /\ config \in Lists
          /\ watched \subseteq Paths /\ indexed \subseteq Paths
          /\ Runner!FlagTypeOK
          /\ proc \in [Procs -> [kind : {"add", "remove", "reset", "startup"},
                                 path : Paths \cup {None}, todo : Lists,
                                 at : {"load", "watch", "start", "raise", "spawn", "store",
                                       "forget", "unwatch", "list"}] \cup {Idle}]
          /\ torn \subseteq Runs /\ missed \subseteq Paths
          /\ parted \subseteq Paths

\* A folder is watched exactly when it is configured, once nobody works on it:
\* Add, Remove, ResetIndex and Start, each in its own order and with its own early
\* returns, keep the two lists together, whatever other requests do meanwhile.
\* Only a call that fails half-way, a root that fsnotify refuses to watch (which is no
\* error to anyone), or a removal that meets an addition, can part them.
WatchesFollowConfig ==
    \A p \in Paths \ parted :
        Untouched(p) => (p \in Configured <=> p \in watched)

\* A scan has gone through a configured folder, or is live, unless it could not be
\* registered, its Start was refused because another scan was live, its scan failed or
\* was torn by a reset, or a reset came between its scan and its entry in the list.
IndexedUnlessMissed ==
    \A p \in Configured \ missed :
        Untouched(p) => p \in indexed \/ \E r \in Runs : run[r] = p

Quiet == /\ serving
         /\ \A c \in Procs : proc[c] = Idle
         /\ \A r \in Runs : run[r] = None

\* "triggers initial indexing for each watched path", "starts re-indexing
\* configured watched paths": when all is done, every configured folder is indexed.
ConfiguredIsIndexed == Quiet => Configured \subseteq indexed
==============================================================================
