------------------------------ MODULE WatchTree ------------------------------
(***************************************************************************)
(* The directories fsnotify watches (internal/infra/watcher/watcher.go).   *)
(* A folder is watched recursively by a walk that registers one directory  *)
(* after the other: Watcher.AddPath walks a folder on the goroutine of a   *)
(* request, handleEvent walks a directory that was created on the          *)
(* goroutine of Watcher.Start, and the tree changes under both.            *)
(*                                                                         *)
(* filepath.Walk reads the names in a directory before it calls the        *)
(* function that registers it, and goes into the directories it has read   *)
(* the names of. The order among them is left open.                        *)
(*                                                                         *)
(* The watcher is started before anything else (cmd/app/main.go), and its  *)
(* Close is behind a server that never returns: neither is an action.      *)
(***************************************************************************)
EXTENDS Naturals, Sequences, FiniteSets

CONSTANTS
    Dirs,       \* directories that may exist
    Parent,     \* the directory each of them is in, or None
    Chain,      \* each directory and those above it
    Roots,      \* the folders a user may configure
    Clients,    \* goroutines of the requests
    Handler,    \* the goroutine of Watcher.Start
    None,       \* no directory
    Faults,     \* whether fsnotify may refuse a watch or drop an event, and a walk
                \* fail on something else than a directory
    MaxEdits    \* bound: changes of the tree

ASSUME TreeAssumption ==
    /\ None \notin Dirs
    /\ Parent \in [Dirs -> Dirs \cup {None}]
    /\ Chain \in [Dirs -> SUBSET Dirs]
    /\ \A d \in Dirs : Chain[d] = {d} \cup IF Parent[d] = None THEN {} ELSE Chain[Parent[d]]
    /\ \A d \in Dirs : Parent[d] # None => d \notin Chain[Parent[d]]
    /\ \A d \in Dirs : IsFiniteSet(Chain[d])
ASSUME RootsAssumption == Roots \subseteq Dirs
ASSUME ProcsAssumption == Handler \notin Clients
ASSUME BoundAssumption == MaxEdits \in Nat /\ Faults \in BOOLEAN

Procs == Clients \cup {Handler}
Children(d) == {e \in Dirs : Parent[e] = d}

VARIABLES
    exists,     \* the directories there are
    edits,      \* changes made so far
    watched,    \* the directories fsnotify watches
    queue,      \* created directories whose event is not handled
    walk,       \* the walk each goroutine is in
    configured, \* folders that were added, and not removed since
    lost,       \* history: directories nothing will watch (see Followed)
    stray       \* history: directories of a folder that was removed, or whose
                \* addition failed, which are watched or were about to be

treeVars == <<exists, edits>>
history == <<lost, stray>>
vars == <<treeVars, watched, queue, walk, configured, history>>

\* A walk of `root`. It is about to visit the directories of todo; at "watch" it
\* has read the names in dir, and is about to register dir.
Idle == [at |-> "idle", root |-> None, todo |-> {}, dir |-> None, names |-> {}]
Visiting(root, todo) == [at |-> "visit", root |-> root, todo |-> todo, dir |-> None, names |-> {}]
Watching(w, d, names) == [at |-> "watch", root |-> w.root, todo |-> w.todo \ {d}, dir |-> d,
                          names |-> names]
WalkOf(d) == Visiting(d, {d})
Walks == [at : {"visit", "watch"}, root : Dirs, todo : SUBSET Dirs, dir : Dirs \cup {None},
          names : SUBSET Dirs] \cup {Idle}

Init == /\ exists \in SUBSET Dirs
        /\ \A d \in exists : Chain[d] \subseteq exists
        /\ edits = 0
        /\ watched = {}
        /\ queue = <<>>
        /\ walk = [p \in Procs |-> Idle]
        /\ configured = {}
        /\ lost = {} /\ stray = {}

-----------------------------------------------------------------------------
\* Someone is on the way to d: an event of a directory above it is to be handled,
\* or a walk is about to visit one.
Below(S, d) == Chain[d] \cap S # {}
Announced(d) == \E i \in DOMAIN queue : queue[i] \in Chain[d]
Visited(d) == \E p \in Procs : \/ Below(walk[p].todo \cup walk[p].names, d)
                               \/ walk[p].at = "watch" /\ walk[p].dir = d
Due(d) == Announced(d) \/ Visited(d)

(* The file system and fsnotify: external. *)

\* The event of a new directory goes to whoever watches the one it is in. It can
\* be dropped when fsnotify's queue overflows, which the code only logs.
MakeDir(d) ==
    /\ edits < MaxEdits
    /\ d \notin exists
    /\ Parent[d] # None => Parent[d] \in exists
    /\ edits' = edits + 1
    /\ exists' = exists \cup {d}
    /\ \/ /\ Parent[d] \in watched
          /\ queue' = Append(queue, d)
          /\ lost' = lost \ {d}
       \/ /\ Parent[d] \notin watched \/ Faults
          /\ lost' = IF Due(d) THEN lost \ {d} ELSE lost \cup {d}
          /\ UNCHANGED queue
    /\ UNCHANGED <<watched, walk, configured, stray>>

\* A directory that goes takes its watch with it.
RemoveDir(d) ==
    /\ edits < MaxEdits
    /\ d \in exists
    /\ Children(d) \cap exists = {}
    /\ edits' = edits + 1
    /\ exists' = exists \ {d}
    /\ watched' = watched \ {d}
    /\ lost' = lost \ {d}
    /\ stray' = IF \E e \in Dirs : d \in Chain[e] /\ Due(e) THEN stray ELSE stray \ {d}
    /\ UNCHANGED <<queue, walk, configured>>

-----------------------------------------------------------------------------
(* Watcher.addPath: the walk. *)

\* The end of a walk that failed: nobody goes to what it has not reached, unless
\* somebody else does. A request returns the error, and leaves what it registered.
Abort(p) ==
    /\ walk' = [walk EXCEPT ![p] = Idle]
    /\ lost' = lost \cup {d \in exists \ watched : Below(walk[p].todo, d) /\ ~Announced(d)}
    /\ stray' = IF p = Handler THEN stray
                ELSE stray \cup {d \in Dirs : walk[p].root \in Chain[d] /\ (d \in watched \/ Due(d))}

\* Mutant: only the directory itself is registered.
VisitFlat(p) ==
    /\ walk[p].at = "visit"
    /\ \E d \in walk[p].todo :
          \/ /\ d \in exists
             /\ walk' = [walk EXCEPT ![p] = Watching(@, d, {})]
             /\ UNCHANGED history
          \/ d \notin exists /\ Abort(p)
    /\ UNCHANGED <<treeVars, watched, queue, configured>>

\* filepath.Walk reads the names in the next directory; one that is gone by then
\* ends the whole walk with an error, for the function returns it.
Visit(p) ==
    /\ walk[p].at = "visit"
    /\ \E d \in walk[p].todo :
          \/ /\ d \in exists
             /\ walk' = [walk EXCEPT ![p] = Watching(@, d, Children(d) \cap exists)]
             /\ UNCHANGED history
          \/ d \notin exists /\ Abort(p)
    /\ UNCHANGED <<treeVars, watched, queue, configured>>

\* A file whose name was read is gone, or a directory cannot be read: the same end.
FailToVisit(p) ==
    /\ Faults
    /\ walk[p].at = "visit"
    /\ Abort(p)
    /\ UNCHANGED <<treeVars, watched, queue, configured>>

\* What is left of the walk when dir has had its turn.
GoOn(p) == walk' = [walk EXCEPT ![p] = Visiting(@.root, @.todo \cup @.names)]

\* Mutant: a directory that is gone is registered.
AddWatchBlindly(p) == /\ walk[p].at = "watch"
                      /\ watched' = watched \cup {walk[p].dir}
                      /\ lost' = lost \ {walk[p].dir}
                      /\ GoOn(p)
                      /\ UNCHANGED <<treeVars, queue, configured, stray>>

\* w.watcher.Add; a failure is logged, and the walk goes on.
AddWatch(p) ==
    /\ walk[p].at = "watch"
    /\ \/ /\ walk[p].dir \in exists
          /\ watched' = watched \cup {walk[p].dir}
          /\ lost' = lost \ {walk[p].dir}
       \/ /\ walk[p].dir \notin exists \/ Faults
          /\ lost' = lost \cup ({walk[p].dir} \ watched)
          /\ UNCHANGED watched
    /\ GoOn(p)
    /\ UNCHANGED <<treeVars, queue, configured, stray>>

\* addPath returns nil; for a request, the folder is then configured.
Finish(p) ==
    /\ walk[p].at = "visit"
    /\ walk[p].todo = {}
    /\ walk' = [walk EXCEPT ![p] = Idle]
    /\ IF p = Handler THEN UNCHANGED <<configured, stray>>
       ELSE /\ configured' = configured \cup {walk[p].root}
            /\ stray' = {d \in stray : walk[p].root \notin Chain[d]}
    /\ UNCHANGED <<treeVars, watched, queue, lost>>

-----------------------------------------------------------------------------
\* Mutant: created directories are not looked at.
HandleEventFilesOnly == /\ walk[Handler] = Idle
                        /\ queue # <<>>
                        /\ queue' = Tail(queue)
                        /\ UNCHANGED <<treeVars, watched, walk, configured, history>>

\* handleEvent for the creation of a directory: os.Stat, and the walk. A name that
\* is gone by then is no supported document either, and nothing is done.
HandleEvent ==
    /\ walk[Handler] = Idle
    /\ queue # <<>>
    /\ queue' = Tail(queue)
    /\ walk' = IF Head(queue) \in exists
               THEN [walk EXCEPT ![Handler] = WalkOf(Head(queue))] ELSE walk
    /\ UNCHANGED <<treeVars, watched, configured, history>>

\* Registry.AddPath of a request: Watcher.AddPath.
AddPath(c, r) == /\ walk[c] = Idle
                 /\ walk' = [walk EXCEPT ![c] = WalkOf(r)]
                 /\ UNCHANGED <<treeVars, watched, queue, configured, history>>

\* What the removal of a folder leaves watched, or about to be.
LeftBehind(r) == {d \in Dirs : r \in Chain[d] /\ (d \in watched \ {r} \/ Due(d))}

\* Mutant: the folder goes on being watched.
RemovePathOnPaper(c, r) ==
    /\ walk[c] = Idle
    /\ configured' = configured \ {r}
    /\ stray' = stray \cup LeftBehind(r)
    /\ UNCHANGED <<treeVars, watched, queue, walk, lost>>

\* WatchPaths.Remove has taken the folder off the list; Watcher.RemovePath takes
\* away the watch of the folder itself, when there is one, and no other.
RemovePath(c, r) ==
    /\ walk[c] = Idle
    /\ configured' = configured \ {r}
    /\ watched' = watched \ {r}
    /\ lost' = lost \cup {r}
    /\ stray' = stray \cup LeftBehind(r)
    /\ UNCHANGED <<treeVars, queue, walk>>

-----------------------------------------------------------------------------
FileSystem == \E d \in Dirs : MakeDir(d) \/ RemoveDir(d)
Walk(p) == Visit(p) \/ FailToVisit(p) \/ AddWatch(p) \/ Finish(p)
Request(c) == \E r \in Roots : AddPath(c, r) \/ RemovePath(c, r)

Next == \/ FileSystem
        \/ HandleEvent
        \/ \E p \in Procs : Walk(p)
        \/ \E c \in Clients : Request(c)

\* The goroutines run; the file system and the clients do as they like.
Spec == /\ Init /\ [][Next]_vars
        /\ WF_vars(HandleEvent)
        /\ \A p \in Procs : WF_vars(Walk(p))

-----------------------------------------------------------------------------
\* The types of the state; only what exists is watched.
TypeOK == /\ exists \subseteq Dirs
          /\ \A d \in exists : Chain[d] \subseteq exists
          /\ edits \in 0..MaxEdits
          /\ watched \subseteq exists
          /\ queue \in Seq(Dirs)
          /\ walk \in [Procs -> Walks]
          /\ configured \subseteq Roots
          /\ lost \subseteq Dirs /\ stray \subseteq Dirs

Wanted(d) == Below(configured, d)

\* "watched recursively": every directory of a configured folder is watched, or an
\* event or a walk is on its way to it. A directory is lost, with those in it, when
\* - it appears where nobody watches or will look: after the names in its parent
\*   were read and before its parent was registered, or as a root of its own;
\* - the walk on its way to it ends on an error;
\* - fsnotify refuses its watch or drops its event;
\* - RemovePath is called on it, although a folder above it, or it itself by a
\*   request that overlaps, is configured.
\* Nothing else loses a directory.
Followed(d) == d \in watched \/ Due(d)
TreeFollowed == \A d \in exists : Wanted(d) /\ ~Below(lost, d) => Followed(d)

\* A directory is watched only for a configured folder, or one that is being added,
\* or it is left from one that was removed or could not be added: the watches of
\* its subdirectories stay, and bring in directories created there later.
WatchedIsWanted ==
    \A d \in watched : \/ Wanted(d) \/ Below(stray, d)
                       \/ \E c \in Clients : walk[c].root \in Chain[d]

\* Once the tree is at rest, every directory of a configured folder that is not
\* lost gets watched.
TreeCatchesUp == <>[](\A d \in exists : Wanted(d) /\ ~Below(lost, d) => d \in watched)
==============================================================================
