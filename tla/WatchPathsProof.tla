--------------------------- MODULE WatchPathsProof ---------------------------
(***************************************************************************)
(* Proofs about WatchPaths for any number of handlers, folders and scans.  *)
(***************************************************************************)
EXTENDS WatchPaths, SequenceLemmas

Looping == {"watch", "start", "raise", "spawn"}
Places == {"idle", "load", "list", "forget", "unwatch", "store"} \cup Looping
Kinds == {"none", "add", "remove", "reset", "startup"}

\* What a goroutine has in hand in each kind of call.
CallOK(o) ==
    /\ o.at = "idle" <=> o.kind = "none"
    /\ o.at = "load" => o.kind = "startup" /\ o.todo = <<>>
    /\ o.at = "list" => o.kind = "reset" /\ o.todo = <<>>
    /\ o.at \in {"forget", "unwatch"} <=> o.kind = "remove"
    /\ o.at = "store" => o.kind = "add"
    /\ o.at \in Looping => o.todo # <<>>
    /\ o.kind = "add" => o.path \in Paths /\ o.todo = <<o.path>>
    /\ o.kind = "remove" => o.path \in Paths /\ o.todo = <<>>
    /\ o.kind = "none" => o.todo = <<>> /\ o.path = None
Calls == {o \in [kind : Kinds, path : Paths \cup {None}, todo : Seq(Paths), at : Places] : CallOK(o)}

Typed == /\ config \in Seq(Paths) /\ watched \subseteq Paths /\ parted \subseteq Paths
         /\ proc \in [Procs -> Calls]
         /\ \A c \in Clients : proc[c].kind # "startup"

\* The server serves when main is done with the configured folders.
StartsFirst == /\ proc[Main].kind \in {"none", "startup"}
               /\ serving => proc[Main] = Idle
               /\ ~serving => \A c \in Clients : proc[c] = Idle
               /\ proc[Main].at = "load" => config = <<>> /\ watched = {}

-----------------------------------------------------------------------------
(* The watches. *)

ToDo(c) == ToSet(proc[c].todo)
Adds(c, p) == proc[c].kind = "add" /\ proc[c].path = p

\* A folder is configured and not watched, or watched and not configured, only while
\* somebody is still to see to it.
WatchDue(p) == \E c \in Procs : \/ Removes(c, p)
                                \/ Adds(c, p) /\ proc[c].at = "watch"
                                \/ proc[c].kind = "startup" /\ p \in ToDo(c)
EntryDue(p) == \E c \in Procs : Removes(c, p) \/ Adds(c, p)
Seen(p) == /\ p \in Configured /\ p \notin watched => WatchDue(p)
           /\ p \notin Configured /\ p \in watched => EntryDue(p)

\* Nobody removes it while somebody registers it, and the loops are over folders that
\* stay configured.
Unopposed(p) == /\ \A c, d \in Procs : Removes(c, p) => p \notin ToDo(d)
                /\ \A c \in Procs : p \in ToDo(c) /\ proc[c].kind # "add" => p \in Configured

\* What has been registered stays watched while its call goes on, and what has been
\* forgotten stays so until it is unwatched.
InHand(c, p) == p \in ToDo(c) /\ p = Head(proc[c].todo) /\ proc[c].at # "watch"
InOrder(p) == /\ \A c \in Procs : InHand(c, p) => p \in watched
              /\ \A c \in Procs : Removes(c, p) /\ proc[c].at = "unwatch" => p \notin Configured

Together(p) == Seen(p) /\ Unopposed(p) /\ InOrder(p)

WatchInv == Typed /\ StartsFirst /\ \A p \in Paths \ parted : Together(p)

-----------------------------------------------------------------------------
(* The index. *)

Scanned(p) == p \in indexed \/ \E r \in Runs : run[r] = p
ScanDue(p) == \E c \in Procs : \/ p \in ToDo(c) /\ proc[c].at # "store"
                               \/ proc[c].at = "list"

RunnerTyped == /\ call \in [Procs -> [at : {"checked", "stored"}, root : Paths] \cup {Runner!IdleCall}]
               /\ run \in [Runs -> Paths \cup {None}]

\* A configured folder that is not missed is in the index, or being scanned, or
\* somebody will start its scan; one about to be configured has been started; and
\* Start scans the folder in hand.
ScanInv ==
    /\ \A p \in Configured \ missed : Scanned(p) \/ ScanDue(p)
    /\ \A c \in Procs, p \in Paths \ missed :
            proc[c].at = "store" /\ proc[c].path = p => Scanned(p)
    /\ \A c \in Procs : proc[c].at \in {"raise", "spawn"} => call[c].root = Head(proc[c].todo)
    /\ RunnerTyped

-----------------------------------------------------------------------------
(* Lists of folders. *)

LEMMA ListFacts ==
  ASSUME NEW s \in Seq(Paths), s # <<>>
  PROVE  /\ Head(s) \in Paths /\ Tail(s) \in Seq(Paths) /\ ToSet(s) \subseteq Paths
         /\ ToSet(s) = {Head(s)} \cup ToSet(Tail(s))
<1>1. /\ Head(s) \in Paths /\ Tail(s) \in Seq(Paths)
      /\ Len(s) \in Nat \ {0} /\ Len(Tail(s)) = Len(s) - 1
      /\ \A i \in 1..Len(Tail(s)) : Tail(s)[i] = s[i + 1]
      /\ Head(s) = s[1]
      /\ DOMAIN s = 1..Len(s) /\ DOMAIN Tail(s) = 1..Len(Tail(s))
      /\ \A i \in 1..Len(s) : s[i] \in Paths
  BY HeadTailProperties, LenProperties, EmptySeq, ElementOfSeq
<1>2. ASSUME NEW i \in DOMAIN s PROVE s[i] \in {Head(s)} \cup ToSet(Tail(s))
  <2>1. CASE i = 1
    BY <1>1, <2>1
  <2>2. CASE i # 1
    <3>1. i - 1 \in DOMAIN Tail(s) /\ Tail(s)[i - 1] = s[i]
      BY <1>1, <2>2
    <3> QED  BY <3>1 DEF ToSet
  <2> QED  BY <2>1, <2>2
<1>3. ASSUME NEW i \in DOMAIN Tail(s) PROVE Tail(s)[i] \in ToSet(s)
  <2>1. i + 1 \in DOMAIN s /\ Tail(s)[i] = s[i + 1]
    BY <1>1
  <2> QED  BY <2>1 DEF ToSet
<1>4. Head(s) \in ToSet(s) /\ ToSet(s) \subseteq Paths
  BY <1>1 DEF ToSet
<1> QED  BY <1>1, <1>2, <1>3, <1>4 DEF ToSet

LEMMA ShortLists ==
  /\ ToSet(<<>>) = {} /\ <<>> \in Seq(Paths)
  /\ \A p \in Paths : <<p>> \in Seq(Paths) /\ <<p>> # <<>> /\ ToSet(<<p>>) = {p}
                      /\ Head(<<p>>) = p /\ Tail(<<p>>) = <<>>
BY DEF ToSet

LEMMA LongerLists ==
  ASSUME NEW s \in Seq(Paths), NEW p \in Paths
  PROVE  /\ Append(s, p) \in Seq(Paths)
         /\ ToSet(Append(s, p)) = ToSet(s) \cup {p}
<1>1. /\ Append(s, p) \in Seq(Paths) /\ Len(Append(s, p)) = Len(s) + 1 /\ Len(s) \in Nat
      /\ \A i \in 1..Len(s) : Append(s, p)[i] = s[i]
      /\ Append(s, p)[Len(s) + 1] = p
      /\ DOMAIN s = 1..Len(s) /\ DOMAIN Append(s, p) = 1..(Len(s) + 1)
  BY AppendProperties, LenProperties
<1>2. \A i \in 1..(Len(s) + 1) : i \in 1..Len(s) \/ i = Len(s) + 1
  BY <1>1
<1>3. 1..Len(s) \subseteq 1..(Len(s) + 1) /\ Len(s) + 1 \in 1..(Len(s) + 1)
  BY <1>1
<1> QED  BY <1>1, <1>2, <1>3 DEF ToSet

LEMMA ListsAreSequences == \A s \in Lists : s \in Seq(Paths)
<1>1. Cardinality(Paths) \in Nat
  BY PathsAssumption, FS_CardinalityType
<1> SUFFICES ASSUME NEW m \in 0..Cardinality(Paths), NEW s \in [1..m -> Paths]
             PROVE  s \in Seq(Paths)
  BY DEF Lists, SeqOf
<1>2. m \in Nat
  BY <1>1
<1> QED  BY <1>2, IsASeq

-----------------------------------------------------------------------------
(* How a goroutine moves. *)

LEMMA CallTyped ==
  ASSUME Typed, NEW c \in Procs
  PROVE  /\ proc[c].kind \in Kinds /\ proc[c].at \in Places /\ proc[c].path \in Paths \cup {None}
         /\ proc[c].todo \in Seq(Paths) /\ CallOK(proc[c])
         /\ proc[c].kind = "startup" => c = Main
BY DEF Typed, Calls, Procs

LEMMA IdleTyped ==
  Idle \in Calls /\ Idle.kind = "none" /\ Idle.at = "idle" /\ Idle.todo = <<>>
<1>1. Idle.kind = "none" /\ Idle.path = None /\ Idle.todo = <<>> /\ Idle.at = "idle"
  BY DEF Idle
<1>2. Idle \in [kind : Kinds, path : Paths \cup {None}, todo : Seq(Paths), at : Places]
  BY ShortLists DEF Idle, Kinds, Places, Looping
<1>3. CallOK(Idle)
  BY <1>1 DEF CallOK, Looping
<1> QED  BY <1>1, <1>2, <1>3 DEF Calls

LEMMA MoveTyped ==
  ASSUME Typed, NEW c \in Procs, NEW o \in Calls, o.kind = "startup" => c = Main,
         proc' = [proc EXCEPT ![c] = o],
         config' \in Seq(Paths), watched' \subseteq Paths, parted' \subseteq Paths
  PROVE  /\ Typed'
         /\ \A d \in Procs : proc'[d] = IF d = c THEN o ELSE proc[d]
<1>1. proc' \in [Procs -> Calls] /\ \A d \in Procs : proc'[d] = IF d = c THEN o ELSE proc[d]
  BY DEF Typed
<1>2. \A d \in Clients : d \in Procs /\ d # Main
  BY NoneAssumption DEF Procs
<1> QED  BY <1>1, <1>2 DEF Typed

LEMMA GotoMoves ==
  ASSUME Typed, NEW c \in Procs, NEW at \in Places, Goto(c, at),
         CallOK([kind |-> proc[c].kind, path |-> proc[c].path, todo |-> proc[c].todo, at |-> at]),
         config' \in Seq(Paths), watched' \subseteq Paths, parted' \subseteq Paths
  PROVE  /\ Typed'
         /\ \A d \in Procs : d # c => proc'[d] = proc[d]
         /\ proc'[c].kind = proc[c].kind /\ proc'[c].path = proc[c].path
         /\ proc'[c].todo = proc[c].todo /\ proc'[c].at = at
<1> DEFINE o == [kind |-> proc[c].kind, path |-> proc[c].path, todo |-> proc[c].todo, at |-> at]
<1>1. proc[c] \in [kind : Kinds, path : Paths \cup {None}, todo : Seq(Paths), at : Places]
  BY DEF Typed, Calls
<1>2. proc' = [proc EXCEPT ![c] = o]
  <2>1. [proc[c] EXCEPT !.at = at] = o
    BY <1>1
  <2>2. proc' = [proc EXCEPT ![c] = [proc[c] EXCEPT !.at = at]]
    BY DEF Goto
  <2> QED  BY <2>1, <2>2
<1>3. /\ o \in [kind : Kinds, path : Paths \cup {None}, todo : Seq(Paths), at : Places]
      /\ o.kind = proc[c].kind /\ o.path = proc[c].path /\ o.todo = proc[c].todo /\ o.at = at
  BY CallTyped
<1>4. CallOK(o)
  OBVIOUS
<1> HIDE DEF o
<1>5. o \in Calls /\ (o.kind = "startup" => c = Main)
  BY <1>3, <1>4, CallTyped DEF Calls
<1>6. Typed' /\ \A d \in Procs : proc'[d] = IF d = c THEN o ELSE proc[d]
  BY <1>2, <1>5, MoveTyped
<1> QED  BY <1>3, <1>6

LEMMA ReturnMoves ==
  ASSUME Typed, NEW c \in Procs, Return(c),
         config' \in Seq(Paths), watched' \subseteq Paths, parted' \subseteq Paths
  PROVE  /\ Typed'
         /\ \A d \in Procs : d # c => proc'[d] = proc[d]
         /\ proc'[c] = Idle
<1>1. proc' = [proc EXCEPT ![c] = Idle]
  BY DEF Return
<1>2. Idle \in Calls /\ (Idle.kind = "startup" => c = Main)
  BY IdleTyped
<1>3. Typed' /\ \A d \in Procs : proc'[d] = IF d = c THEN Idle ELSE proc[d]
  BY <1>1, <1>2, MoveTyped
<1> QED  BY <1>3

\* The loop is over when there is nothing left.
LEMMA LoopMoves ==
  ASSUME Typed, NEW c \in Procs, NEW paths \in Seq(Paths), Loop(c, paths),
         proc[c].kind \in {"reset", "startup"},
         config' \in Seq(Paths), watched' \subseteq Paths, parted' \subseteq Paths
  PROVE  /\ Typed'
         /\ \A d \in Procs : d # c => proc'[d] = proc[d]
         /\ ToDo(c)' = ToSet(paths)
         /\ proc'[c] = Idle \/ (proc'[c].kind = proc[c].kind /\ proc'[c].at = "watch")
<1> DEFINE o == [kind |-> proc[c].kind, path |-> proc[c].path, todo |-> paths, at |-> "watch"]
<1>1. CASE paths = <<>>
  <2>1. proc' = [proc EXCEPT ![c] = Idle]
    BY <1>1 DEF Loop
  <2>2. Typed' /\ \A d \in Procs : proc'[d] = IF d = c THEN Idle ELSE proc[d]
    BY <2>1, IdleTyped, MoveTyped
  <2> QED  BY <1>1, <2>2, IdleTyped DEF ToDo
<1>2. CASE paths # <<>>
  <2>1. proc' = [proc EXCEPT ![c] = o]
    BY <1>2 DEF Loop
  <2>2. /\ o \in [kind : Kinds, path : Paths \cup {None}, todo : Seq(Paths), at : Places]
        /\ o.kind = proc[c].kind /\ o.todo = paths /\ o.at = "watch"
    BY CallTyped DEF Places, Looping
  <2>3. CallOK(o)
    BY <1>2, <2>2 DEF CallOK, Looping
  <2> HIDE DEF o
  <2>4. o \in Calls /\ (o.kind = "startup" => c = Main)
    BY <2>2, <2>3, CallTyped DEF Calls
  <2>5. Typed' /\ \A d \in Procs : proc'[d] = IF d = c THEN o ELSE proc[d]
    BY <2>1, <2>4, MoveTyped
  <2> QED  BY <2>2, <2>5 DEF ToDo
<1> QED  BY <1>1, <1>2

\* The next folder of a loop, or the entry of the one that was added.
LEMMA AdvanceMoves ==
  ASSUME Typed, NEW c \in Procs, Advance(c), proc[c].at \in Looping,
         UNCHANGED <<config, watched, parted>>
  PROVE  /\ Typed'
         /\ \A d \in Procs : d # c => proc'[d] = proc[d]
         /\ proc[c].kind = "add" => /\ proc'[c].kind = "add" /\ proc'[c].path = proc[c].path
                                    /\ proc'[c].todo = proc[c].todo /\ proc'[c].at = "store"
         /\ proc[c].kind # "add" => /\ ToDo(c)' = ToSet(Tail(proc[c].todo))
                                    /\ \/ proc'[c] = Idle
                                       \/ proc'[c].kind = proc[c].kind /\ proc'[c].at = "watch"
<1>1. /\ proc[c].todo \in Seq(Paths) /\ proc[c].todo # <<>> /\ CallOK(proc[c])
      /\ config' \in Seq(Paths) /\ watched' \subseteq Paths /\ parted' \subseteq Paths
      /\ proc[c].kind \in Kinds
  BY CallTyped DEF CallOK, Typed
<1>2. CASE proc[c].kind = "add"
  <2>1. CallOK([kind |-> proc[c].kind, path |-> proc[c].path, todo |-> proc[c].todo, at |-> "store"])
    BY <1>1, <1>2 DEF CallOK, Looping
  <2>2. Goto(c, "store") /\ "store" \in Places
    BY <1>2 DEF Advance, Places
  <2> QED  BY <1>1, <1>2, <2>1, <2>2, GotoMoves
<1>3. CASE proc[c].kind # "add"
  <2>1. proc[c].kind \in {"reset", "startup"}
    BY <1>1, <1>3 DEF CallOK, Looping, Kinds
  <2>2. Tail(proc[c].todo) \in Seq(Paths)
    BY <1>1, ListFacts
  <2> QED  BY <1>1, <1>3, <2>1, <2>2, LoopMoves DEF Advance
<1> QED  BY <1>2, <1>3

-----------------------------------------------------------------------------
(* The watches follow the configuration. *)

LEMMA WorkFacts ==
  ASSUME Typed, NEW c \in Procs
  PROVE  /\ ToDo(c) \subseteq Paths
         /\ \A p : Adds(c, p) => ToDo(c) = {p} /\ Head(proc[c].todo) = p
         /\ \A p : Removes(c, p) => ToDo(c) = {} /\ proc[c].at \in {"forget", "unwatch"}
         /\ proc[c].at \in {"idle", "list", "load"} =>
               ToDo(c) = {} /\ proc[c].kind \in {"none", "reset", "startup"}
         /\ proc[c].at \in Looping =>
               /\ Head(proc[c].todo) \in ToDo(c) /\ Tail(proc[c].todo) \in Seq(Paths)
               /\ ToDo(c) = {Head(proc[c].todo)} \cup ToSet(Tail(proc[c].todo))
               /\ proc[c].kind \in {"add", "reset", "startup"}
<1>1. proc[c].todo \in Seq(Paths) /\ CallOK(proc[c]) /\ proc[c].kind \in Kinds
  BY CallTyped
<1>2. ToDo(c) \subseteq Paths
  BY <1>1, ShortLists, ListFacts DEF ToDo
<1>3. ASSUME NEW p, Adds(c, p) PROVE ToDo(c) = {p} /\ Head(proc[c].todo) = p
  BY <1>1, <1>3, ShortLists DEF Adds, CallOK, ToDo
<1>4. ASSUME NEW p, Removes(c, p) PROVE ToDo(c) = {} /\ proc[c].at \in {"forget", "unwatch"}
  BY <1>1, <1>4, ShortLists DEF Removes, CallOK, ToDo
<1>5. ASSUME proc[c].at \in {"idle", "list", "load"}
      PROVE  ToDo(c) = {} /\ proc[c].kind \in {"none", "reset", "startup"}
  BY <1>1, <1>5, ShortLists DEF CallOK, ToDo
<1>6. ASSUME proc[c].at \in Looping
      PROVE  /\ Head(proc[c].todo) \in ToDo(c) /\ Tail(proc[c].todo) \in Seq(Paths)
             /\ ToDo(c) = {Head(proc[c].todo)} \cup ToSet(Tail(proc[c].todo))
             /\ proc[c].kind \in {"add", "reset", "startup"}
  <2>1. proc[c].todo # <<>>
    BY <1>1, <1>6 DEF CallOK
  <2>2. proc[c].kind \in {"add", "reset", "startup"}
    BY <1>1, <1>6 DEF CallOK, Looping, Kinds
  <2> QED  BY <1>1, <2>1, <2>2, ListFacts DEF ToDo
<1> QED  BY <1>2, <1>3, <1>4, <1>5, <1>6

\* A goroutine goes on with its call, or ends it.
LEMMA StartsKept ==
  ASSUME Typed, StartsFirst, NEW c \in Procs, proc[c].kind # "none",
         \A d \in Procs : d # c => proc'[d] = proc[d],
         proc'[c] = Idle \/ proc'[c].kind = proc[c].kind,
         proc'[c].at # "load", serving' = serving
  PROVE  StartsFirst'
<1>1. Main \in Procs /\ \A d \in Clients : d \in Procs /\ d # Main
  BY NoneAssumption DEF Procs
<1>2. CASE c = Main
  <2>1. ~serving
    BY <1>2, IdleTyped DEF StartsFirst
  <2> QED  BY <1>1, <1>2, <2>1, IdleTyped DEF StartsFirst
<1>3. CASE c # Main
  <2>1. serving
    BY <1>1, <1>3, IdleTyped DEF StartsFirst, Procs
  <2> QED  BY <1>1, <1>3, <2>1, IdleTyped DEF StartsFirst
<1> QED  BY <1>2, <1>3

\* A folder nobody but the one goroutine that moves has to do with.
LEMMA StepOfOne ==
  ASSUME NEW c \in Procs, NEW p \in Paths, Together(p),
         \A d \in Procs : d # c => proc'[d] = proc[d],
         p \in Configured' <=> p \in Configured, p \in watched' <=> p \in watched,
         Removes(c, p)' <=> Removes(c, p), Adds(c, p)' <=> Adds(c, p),
         p \in ToDo(c)' => p \in ToDo(c) /\ proc'[c].kind = proc[c].kind,
         Adds(c, p) /\ proc[c].at = "watch" => p \in watched \/ proc'[c].at = "watch",
         proc[c].kind = "startup" /\ p \in ToDo(c) =>
            p \in watched \/ (proc'[c].kind = "startup" /\ p \in ToDo(c)'),
         InHand(c, p)' => p \in watched,
         Removes(c, p) /\ proc'[c].at = "unwatch" => proc[c].at = "unwatch"
  PROVE  Together(p)'
<1>1. \A d \in Procs : d # c => /\ Removes(d, p)' <=> Removes(d, p)
                                /\ Adds(d, p)' <=> Adds(d, p)
                                /\ ToDo(d)' = ToDo(d)
                                /\ InHand(d, p)' <=> InHand(d, p)
  BY DEF Removes, Adds, ToDo, InHand
<1>2. Seen(p)'
  <2>1. WatchDue(p) => WatchDue(p)' \/ p \in watched
    BY <1>1 DEF WatchDue
  <2>2. EntryDue(p) => EntryDue(p)'
    BY <1>1 DEF EntryDue
  <2> QED  BY <2>1, <2>2 DEF Together, Seen
<1>3. Unopposed(p)'
  BY <1>1 DEF Together, Unopposed
<1>4. InOrder(p)'
  BY <1>1 DEF Together, InOrder
<1> QED  BY <1>2, <1>3, <1>4 DEF Together

\* A step of a goroutine inside its call that leaves the folders alone.
LEMMA CallGoesOn ==
  ASSUME WatchInv, NEW c \in Procs, proc[c].kind # "none", Typed',
         \A d \in Procs : d # c => proc'[d] = proc[d],
         UNCHANGED <<serving, config, watched>>, parted \subseteq parted', proc'[c].at # "load",
         proc'[c].kind = proc[c].kind /\ proc'[c].path = proc[c].path /\ proc'[c].at # "unwatch",
         proc[c].at = "watch" => proc'[c].at = "watch",
         \A p \in Paths \ parted' : p \in ToDo(c)' => p \in ToDo(c) /\ (InHand(c, p)' => p \in watched),
         \A p \in ToDo(c) : p \in parted' \/ p \in watched \/ p \in ToDo(c)'
  PROVE  WatchInv'
<1>1. Typed /\ StartsFirst /\ parted' \subseteq Paths
  BY DEF WatchInv, Typed
<1>2. StartsFirst'
  BY <1>1, StartsKept
<1>3. ASSUME NEW p \in Paths \ parted' PROVE Together(p)'
  <2>1. Together(p) /\ Configured' = Configured /\ p \in Paths
    BY <1>3 DEF WatchInv, Configured
  <2>2. (Removes(c, p)' <=> Removes(c, p)) /\ (Adds(c, p)' <=> Adds(c, p))
    BY DEF Removes, Adds
  <2>3. InHand(c, p)' => p \in watched
    BY <1>3 DEF InHand
  <2>4. p \in ToDo(c)' => p \in ToDo(c)
    BY <1>3
  <2> QED  BY <1>3, <2>1, <2>2, <2>3, <2>4, StepOfOne
<1> QED  BY <1>2, <1>3 DEF WatchInv

\* Start and the loops: the folder in hand is watched, or parted.
LEMMA WatchRootKeeps ==
  ASSUME WatchInv, NEW c \in Procs, WatchRoot(c)
  PROVE  WatchInv'
<1> DEFINE root == Head(proc[c].todo)
<1>1. /\ proc[c].at = "watch" /\ Goto(c, "start")
      /\ \/ watched' = watched \cup {root} /\ parted' = parted
         \/ watched' = watched /\ parted' = parted \cup {root}
      /\ UNCHANGED <<serving, config>> /\ Typed /\ StartsFirst
      /\ config \in Seq(Paths) /\ watched \subseteq Paths /\ parted \subseteq Paths
  BY DEF WatchRoot, WatchInv, Typed
<1>2. CallOK(proc[c]) /\ "watch" \in Looping /\ "start" \in Places
  BY <1>1, CallTyped DEF Looping, Places
<1>3. /\ root \in Paths /\ root \in ToDo(c) /\ proc[c].kind \in {"add", "reset", "startup"}
  BY <1>1, <1>2, WorkFacts
<1> HIDE DEF root
<1>4. CallOK([kind |-> proc[c].kind, path |-> proc[c].path, todo |-> proc[c].todo, at |-> "start"])
  BY <1>1, <1>2 DEF CallOK, Looping
<1> config' \in Seq(Paths) /\ watched' \subseteq Paths /\ parted' \subseteq Paths
  BY <1>1, <1>3
<1>5. /\ Typed'
      /\ \A d \in Procs : d # c => proc'[d] = proc[d]
      /\ proc'[c].kind = proc[c].kind /\ proc'[c].path = proc[c].path
      /\ proc'[c].todo = proc[c].todo /\ proc'[c].at = "start"
  BY <1>1, <1>2, <1>3, <1>4, GotoMoves
<1>6. StartsFirst'
  BY <1>1, <1>3, <1>5, StartsKept
<1>7. ASSUME NEW p \in Paths \ parted' PROVE Together(p)'
  <2>1. Together(p) /\ Configured' = Configured
    BY <1>1, <1>7 DEF WatchInv, Configured
  <2>2. /\ Removes(c, p)' <=> Removes(c, p)
        /\ Adds(c, p)' <=> Adds(c, p)
        /\ ToDo(c)' = ToDo(c)
    BY <1>5 DEF Removes, Adds, ToDo
  <2>3. CASE p # root
    <3>1. ~InHand(c, p)' /\ ~Adds(c, p)
      BY <1>5, <2>3, <1>1, WorkFacts DEF InHand, root
    <3> QED  BY <1>1, <1>5, <2>1, <2>2, <2>3, <3>1, StepOfOne
  <2>4. CASE p = root
    <3>1. \A d \in Procs : d # c => /\ Removes(d, p)' <=> Removes(d, p)
                                    /\ Adds(d, p)' <=> Adds(d, p)
                                    /\ ToDo(d)' = ToDo(d)
      BY <1>5 DEF Removes, Adds, ToDo
    <3>2. p \in watched' /\ p \in ToDo(c)
      BY <1>1, <1>3, <1>7, <2>4
    <3>3. proc[c].kind # "add" => p \in Configured
      BY <2>1, <3>2 DEF Together, Unopposed
    <3>4. proc[c].kind = "add" => Adds(c, p)
      BY <1>1, <2>4, CallTyped, ShortLists DEF CallOK, Adds, root
    <3>5. Seen(p)'
      BY <2>1, <2>2, <3>2, <3>3, <3>4 DEF Seen, EntryDue
    <3>6. Unopposed(p)'
      BY <1>5, <2>1, <2>2, <3>1 DEF Together, Unopposed
    <3>7. InOrder(p)'
      BY <1>5, <2>1, <2>2, <3>1, <3>2 DEF Together, InOrder
    <3> QED  BY <3>5, <3>6, <3>7 DEF Together
  <2> QED  BY <2>3, <2>4
<1> QED  BY <1>5, <1>6, <1>7 DEF WatchInv

\* A call that ends with an error parts the folder it had in hand, and no other.
LEMMA FailToWatchKeeps ==
  ASSUME WatchInv, NEW c \in Procs, FailToWatch(c)
  PROVE  WatchInv'
<1> DEFINE root == Head(proc[c].todo)
<1>1. /\ proc[c].at = "watch" /\ watched' \in {watched, watched \cup {root}}
      /\ parted' = parted \cup {root}
      /\ IF proc[c].kind = "startup" THEN Loop(c, Tail(proc[c].todo)) ELSE Return(c)
      /\ UNCHANGED <<serving, config>> /\ Typed /\ StartsFirst
      /\ config \in Seq(Paths) /\ watched \subseteq Paths /\ parted \subseteq Paths
  BY DEF FailToWatch, WatchInv, Typed
<1>2. /\ "watch" \in Looping
  BY DEF Looping
<1>3. /\ root \in Paths /\ ToDo(c) = {root} \cup ToSet(Tail(proc[c].todo))
      /\ proc[c].kind \in {"add", "reset", "startup"} /\ Tail(proc[c].todo) \in Seq(Paths)
  BY <1>1, <1>2, WorkFacts
<1>4. watched' \subseteq Paths /\ parted' \subseteq Paths /\ config' \in Seq(Paths)
  BY <1>1, <1>3
<1>5. \A p : Adds(c, p) => p = root
  BY <1>1, WorkFacts
<1> HIDE DEF root
<1>6. /\ Typed'
      /\ \A d \in Procs : d # c => proc'[d] = proc[d]
      /\ proc'[c] = Idle \/ (proc'[c].kind = proc[c].kind /\ proc'[c].at = "watch")
      /\ ToDo(c)' \subseteq ToDo(c)
      /\ proc[c].kind = "startup" => ToDo(c)' = ToSet(Tail(proc[c].todo))
  <2>1. CASE proc[c].kind = "startup"
    BY <1>1, <1>3, <1>4, <2>1, LoopMoves
  <2>2. CASE proc[c].kind # "startup"
    BY <1>1, <1>4, <2>2, ReturnMoves, IdleTyped, ShortLists DEF ToDo
  <2> QED  BY <2>1, <2>2
<1>7. StartsFirst'
  BY <1>1, <1>3, <1>6, IdleTyped, StartsKept
<1>8. ASSUME NEW p \in Paths \ parted' PROVE Together(p)'
  <2>1. Together(p) /\ Configured' = Configured /\ p # root
    BY <1>1, <1>8 DEF WatchInv, Configured
  <2>2. ~Adds(c, p) /\ ~Removes(c, p)
    BY <1>3, <1>5, <2>1 DEF Removes
  <2>3. ~Adds(c, p)' /\ ~Removes(c, p)'
    <3>1. CASE proc'[c] = Idle
      BY <3>1, IdleTyped DEF Adds, Removes
    <3>2. CASE proc'[c].kind = proc[c].kind /\ proc'[c].at = "watch"
      <4>1. proc[c].kind # "add"
        BY <1>1, <3>2, IdleTyped, ReturnMoves, <1>4, <1>3
      <4> QED  BY <1>3, <3>2, <4>1 DEF Adds, Removes
    <3> QED  BY <1>6, <3>1, <3>2
  <2>4. p \in ToDo(c)' => p \in ToDo(c) /\ proc'[c].kind = proc[c].kind /\ ~InHand(c, p)'
    BY <1>6, IdleTyped, ShortLists DEF ToDo, InHand
  <2>5. proc[c].kind = "startup" /\ p \in ToDo(c) => proc'[c].kind = "startup" /\ p \in ToDo(c)'
    BY <1>3, <1>6, <2>1, <2>4
  <2>6. ~InHand(c, p)'
    BY <2>4 DEF InHand
  <2> QED  BY <1>1, <1>6, <2>1, <2>2, <2>3, <2>4, <2>5, <2>6, StepOfOne
<1> QED  BY <1>6, <1>7, <1>8 DEF WatchInv

\* Start has taken the folder in hand, or dropped it.
LEMMA AdvanceKeeps ==
  ASSUME WatchInv, NEW c \in Procs, Advance(c), proc[c].at \in {"start", "spawn"},
         UNCHANGED <<serving, config, watched, parted>>
  PROVE  WatchInv'
<1> DEFINE root == Head(proc[c].todo)
<1>1. Typed /\ StartsFirst /\ proc[c].at \in Looping
  BY DEF WatchInv, Looping
<1>2. /\ root \in ToDo(c) /\ proc[c].kind \in {"add", "reset", "startup"}
      /\ ToDo(c) = {root} \cup ToSet(Tail(proc[c].todo))
      /\ \A p : Adds(c, p) => ToDo(c) = {p}
      /\ ToDo(c) \subseteq Paths
  BY <1>1, WorkFacts
<1>3. /\ Typed'
      /\ \A d \in Procs : d # c => proc'[d] = proc[d]
      /\ proc[c].kind = "add" => /\ proc'[c].kind = "add" /\ proc'[c].path = proc[c].path
                                 /\ proc'[c].todo = proc[c].todo /\ proc'[c].at = "store"
      /\ proc[c].kind # "add" => /\ ToDo(c)' = ToSet(Tail(proc[c].todo))
                                 /\ \/ proc'[c] = Idle
                                    \/ proc'[c].kind = proc[c].kind /\ proc'[c].at = "watch"
  BY <1>1, AdvanceMoves
<1>4. InHand(c, root)
  BY <1>2 DEF InHand
<1> HIDE DEF root
<1>5. StartsFirst'
  BY <1>1, <1>2, <1>3, IdleTyped, StartsKept
<1>6. ASSUME NEW p \in Paths \ parted' PROVE Together(p)'
  <2>1. Together(p) /\ Configured' = Configured
    BY <1>6 DEF WatchInv, Configured
  <2>2. p = root => p \in watched
    BY <1>4, <2>1 DEF Together, InOrder
  <2>3. CASE proc[c].kind = "add"
    <3>1. /\ Removes(c, p)' <=> Removes(c, p)
          /\ Adds(c, p)' <=> Adds(c, p)
          /\ ToDo(c)' = ToDo(c)
      BY <1>3, <2>3 DEF Removes, Adds, ToDo
    <3>2. InHand(c, p)' => p \in watched
      BY <1>3, <2>1, <2>3 DEF InHand, ToDo, Together, InOrder
    <3> QED  BY <1>3, <2>1, <2>3, <3>1, <3>2, StepOfOne
  <2>4. CASE proc[c].kind # "add"
    <3>1. ~Adds(c, p) /\ ~Removes(c, p)
      BY <1>2, <2>4 DEF Adds, Removes
    <3>2. ~Adds(c, p)' /\ ~Removes(c, p)'
      BY <1>2, <1>3, <2>4, IdleTyped DEF Adds, Removes
    <3>3. /\ p \in ToDo(c)' => p \in ToDo(c) /\ proc'[c].kind = proc[c].kind
          /\ ~InHand(c, p)'
      BY <1>2, <1>3, <2>4, IdleTyped, ShortLists DEF ToDo, InHand
    <3>4. p \in ToDo(c) => p \in watched \/ p \in ToDo(c)'
      BY <1>2, <1>3, <2>2, <2>4
    <3> QED  BY <1>3, <2>1, <3>1, <3>2, <3>3, <3>4, StepOfOne
  <2> QED  BY <2>3, <2>4
<1> QED  BY <1>3, <1>5, <1>6 DEF WatchInv

LEMMA StartGoesOn ==
  ASSUME WatchInv, NEW c \in Procs, StartAccepted(c) \/ RaiseFlag(c)
  PROVE  WatchInv'
<1>1. PICK at \in {"raise", "spawn"} :
         /\ Goto(c, at) /\ proc[c].at \in {"start", "raise"}
         /\ UNCHANGED <<serving, config, watched, parted>>
  BY DEF StartAccepted, RaiseFlag, watchVars
<1>2. /\ Typed /\ proc[c].at \in Looping /\ at \in Looping /\ at \in Places
      /\ config' \in Seq(Paths) /\ watched' \subseteq Paths /\ parted' \subseteq Paths
  BY <1>1 DEF WatchInv, Typed, Looping, Places
<1>3. CallOK([kind |-> proc[c].kind, path |-> proc[c].path, todo |-> proc[c].todo, at |-> at])
  BY <1>1, <1>2, CallTyped DEF CallOK, Looping
<1>4. /\ Typed'
      /\ \A d \in Procs : d # c => proc'[d] = proc[d]
      /\ proc'[c].kind = proc[c].kind /\ proc'[c].path = proc[c].path
      /\ proc'[c].todo = proc[c].todo /\ proc'[c].at = at
  BY <1>1, <1>2, <1>3, GotoMoves
<1>5. proc[c].kind # "none"
  BY <1>2, WorkFacts
<1>6. ToDo(c)' = ToDo(c)
  BY <1>4 DEF ToDo
<1>7. \A p \in Paths \ parted' : InHand(c, p)' => p \in watched
  BY <1>1, <1>4, <1>6 DEF WatchInv, Together, InOrder, InHand
<1> QED  BY <1>1, <1>4, <1>5, <1>6, <1>7, CallGoesOn

\* The folder that is stored is still watched.
LEMMA StorePathKeeps ==
  ASSUME WatchInv, NEW c \in Clients, StorePath(c)
  PROVE  WatchInv'
<1> DEFINE path == proc[c].path
<1>1. /\ proc[c].at = "store" /\ Return(c) /\ UNCHANGED <<serving, watched, parted>>
      /\ config' = IF path \in Configured THEN config ELSE Append(config, path)
      /\ c \in Procs /\ Typed /\ StartsFirst
      /\ config \in Seq(Paths) /\ watched \subseteq Paths /\ parted \subseteq Paths
  BY DEF StorePath, WatchInv, Typed, Procs
<1>2. proc[c].kind = "add" /\ path \in Paths /\ proc[c].todo = <<path>> /\ Adds(c, path)
  BY <1>1, CallTyped DEF CallOK, Adds
<1> HIDE DEF path
<1>3. config' \in Seq(Paths) /\ Configured' = Configured \cup {path}
  BY <1>1, <1>2, LongerLists DEF Configured
<1>4. /\ Typed'
      /\ \A d \in Procs : d # c => proc'[d] = proc[d]
      /\ proc'[c] = Idle
  BY <1>1, <1>3, ReturnMoves
<1>5. StartsFirst'
  BY <1>1, <1>2, <1>4, IdleTyped, StartsKept
<1>6. /\ InHand(c, path) /\ ToDo(c) = {path}
      /\ \A p : /\ ~Removes(c, p) /\ ~Removes(c, p)' /\ ~Adds(c, p)' /\ ~InHand(c, p)'
                /\ Adds(c, p) => p = path
      /\ ToDo(c)' = {}
  BY <1>1, <1>2, <1>4, IdleTyped, ShortLists DEF InHand, ToDo, Removes, Adds, path
<1>7. ASSUME NEW p \in Paths \ parted' PROVE Together(p)'
  <2>1. Together(p)
    BY <1>1, <1>7 DEF WatchInv
  <2>2. CASE p # path
    BY <1>1, <1>2, <1>3, <1>4, <1>6, <2>1, <2>2, StepOfOne
  <2>3. CASE p = path
    <3>1. p \in Configured' /\ p \in watched'
      BY <1>1, <1>3, <1>6, <2>1, <2>3 DEF Together, InOrder
    <3>2. \A d \in Procs : ~Removes(d, p)
      BY <1>1, <1>6, <2>1, <2>3 DEF Together, Unopposed
    <3>3. \A d \in Procs : ~Removes(d, p)' /\ (InHand(d, p)' => p \in watched')
      BY <1>4, <1>6, <3>1, <3>2 DEF Removes
    <3> QED  BY <3>1, <3>3 DEF Together, Seen, Unopposed, InOrder
  <2> QED  BY <2>2, <2>3
<1> QED  BY <1>4, <1>5, <1>7 DEF WatchInv

\* What is forgotten is about to be unwatched.
LEMMA ForgetPathKeeps ==
  ASSUME WatchInv, NEW c \in Clients, ForgetPath(c)
  PROVE  WatchInv'
<1> DEFINE path == proc[c].path
<1>1. /\ proc[c].at = "forget" /\ UNCHANGED <<serving, watched>>
      /\ config' \in Lists /\ Configured' = Configured \ {path}
      /\ c \in Procs /\ Typed /\ StartsFirst
      /\ \/ Goto(c, "unwatch") /\ parted' = parted
         \/ Return(c) /\ parted' = parted \cup {path}
      /\ watched \subseteq Paths /\ parted \subseteq Paths
  BY DEF ForgetPath, WatchInv, Typed, Procs, Configured
<1>2. proc[c].kind = "remove" /\ path \in Paths /\ proc[c].todo = <<>> /\ Removes(c, path)
  BY <1>1, CallTyped DEF CallOK, Removes
<1> HIDE DEF path
<1>3. config' \in Seq(Paths) /\ parted' \subseteq Paths
  BY <1>1, <1>2, ListsAreSequences
<1>4. /\ Typed'
      /\ \A d \in Procs : d # c => proc'[d] = proc[d]
      /\ \/ proc'[c] = Idle /\ path \in parted'
         \/ /\ proc'[c].kind = "remove" /\ proc'[c].path = path
            /\ proc'[c].todo = <<>> /\ proc'[c].at = "unwatch"
  <2>1. CASE Goto(c, "unwatch")
    <3>1. CallOK([kind |-> proc[c].kind, path |-> proc[c].path, todo |-> proc[c].todo,
                  at |-> "unwatch"])
      BY <1>2 DEF CallOK, Looping, path
    <3>2. "unwatch" \in Places
      BY DEF Places
    <3> QED  BY <1>1, <1>2, <1>3, <2>1, <3>1, <3>2, GotoMoves DEF path
  <2>2. CASE Return(c) /\ parted' = parted \cup {path}
    BY <1>1, <1>3, <2>2, ReturnMoves
  <2> QED  BY <1>1, <2>1, <2>2
<1>5. StartsFirst'
  BY <1>1, <1>2, <1>4, IdleTyped, StartsKept
<1>6. /\ ToDo(c) = {} /\ ToDo(c)' = {}
      /\ \A p : /\ ~Adds(c, p) /\ ~Adds(c, p)' /\ ~InHand(c, p)'
                /\ Removes(c, p) <=> p = path
  BY <1>2, <1>4, IdleTyped, ShortLists DEF InHand, ToDo, Removes, Adds, path
<1>7. ASSUME NEW p \in Paths \ parted' PROVE Together(p)'
  <2>1. Together(p)
    BY <1>1, <1>7 DEF WatchInv
  <2>2. CASE p # path
    <3>1. ~Removes(c, p)'
      BY <1>4, <2>2, IdleTyped DEF Removes
    <3> QED  BY <1>1, <1>2, <1>4, <1>6, <2>1, <2>2, <3>1, StepOfOne
  <2>3. CASE p = path
    <3>1. p \notin Configured' /\ Removes(c, p)'
      BY <1>1, <1>4, <1>7, <2>3 DEF Removes
    <3>2. \A d \in Procs : p \notin ToDo(d)'
      BY <1>2, <1>4, <1>6, <2>1, <2>3, <1>1 DEF Together, Unopposed, ToDo
    <3>3. \A d \in Procs : ~InHand(d, p)'
      BY <3>2 DEF InHand
    <3> QED  BY <1>1, <3>1, <3>2, <3>3 DEF Together, Seen, Unopposed, InOrder, EntryDue
  <2> QED  BY <2>2, <2>3
<1> QED  BY <1>4, <1>5, <1>7 DEF WatchInv

LEMMA UnwatchRootKeeps ==
  ASSUME WatchInv, NEW c \in Clients, UnwatchRoot(c)
  PROVE  WatchInv'
<1> DEFINE path == proc[c].path
<1>1. /\ proc[c].at = "unwatch" /\ UNCHANGED <<serving, config, parted>>
      /\ watched' = watched \ {path} /\ Return(c)
      /\ c \in Procs /\ Typed /\ StartsFirst
      /\ config \in Seq(Paths) /\ watched \subseteq Paths /\ parted \subseteq Paths
  BY DEF UnwatchRoot, WatchInv, Typed, Procs
<1>2. proc[c].kind = "remove" /\ path \in Paths /\ proc[c].todo = <<>> /\ Removes(c, path)
  BY <1>1, CallTyped DEF CallOK, Removes
<1> HIDE DEF path
<1>3. /\ Typed'
      /\ \A d \in Procs : d # c => proc'[d] = proc[d]
      /\ proc'[c] = Idle
  BY <1>1, ReturnMoves
<1>4. StartsFirst'
  BY <1>1, <1>2, <1>3, IdleTyped, StartsKept
<1>5. /\ ToDo(c) = {} /\ ToDo(c)' = {}
      /\ \A p : /\ ~Adds(c, p) /\ ~Adds(c, p)' /\ ~InHand(c, p)' /\ ~Removes(c, p)'
                /\ Removes(c, p) <=> p = path
  BY <1>2, <1>3, IdleTyped, ShortLists DEF InHand, ToDo, Removes, Adds, path
<1>6. ASSUME NEW p \in Paths \ parted' PROVE Together(p)'
  <2>1. Together(p) /\ Configured' = Configured
    BY <1>1, <1>6 DEF WatchInv, Configured
  <2>2. CASE p # path
    BY <1>1, <1>2, <1>3, <1>5, <2>1, <2>2, IdleTyped, StepOfOne
  <2>3. CASE p = path
    <3>1. p \notin Configured /\ p \notin watched'
      BY <1>1, <1>2, <2>1, <2>3 DEF Together, InOrder
    <3>2. \A d \in Procs : p \notin ToDo(d)'
      BY <1>1, <1>2, <1>3, <1>5, <2>1, <2>3 DEF Together, Unopposed, ToDo
    <3>3. \A d \in Procs : ~InHand(d, p)'
      BY <3>2 DEF InHand
    <3> QED  BY <2>1, <3>1, <3>2, <3>3 DEF Together, Seen, Unopposed, InOrder
  <2> QED  BY <2>2, <2>3
<1> QED  BY <1>3, <1>4, <1>6 DEF WatchInv

-----------------------------------------------------------------------------
(* Requests. *)

\* A folder that is touched by nobody, or was in order before, has no opponent but
\* those Meet looks for.
LEMMA RequestFacts ==
  ASSUME WatchInv, NEW c \in Clients, Ready(c), NEW p \in Paths
  PROVE  /\ c \in Procs /\ c # Main /\ serving /\ proc[Main] = Idle /\ Typed /\ StartsFirst
         /\ ToDo(c) = {} /\ \A q : ~Removes(c, q) /\ ~Adds(c, q) /\ ~InHand(c, q)
         /\ \A q : ~Removes(Main, q) /\ ~Registers(Main, q)
         /\ Untouched(p) => \A d \in Procs : ~Removes(d, p) /\ p \notin ToDo(d)
<1>1. c \in Procs /\ c # Main /\ serving /\ proc[c] = Idle /\ Typed /\ StartsFirst
  BY NoneAssumption DEF Ready, Procs, WatchInv
<1>2. proc[Main] = Idle
  BY <1>1 DEF StartsFirst
<1>3. ToDo(c) = {} /\ \A q : ~Removes(c, q) /\ ~Adds(c, q) /\ ~InHand(c, q)
  BY <1>1, IdleTyped, ShortLists DEF ToDo, Removes, Adds, InHand
<1>4. \A q : ~Removes(Main, q) /\ ~Registers(Main, q)
  BY <1>2, IdleTyped, ShortLists DEF Removes, Registers
<1>5. Untouched(p) => \A d \in Procs : ~Removes(d, p) /\ p \notin ToDo(d)
  BY DEF Untouched, Registers, ToDo
<1> QED  BY <1>1, <1>2, <1>3, <1>4, <1>5

LEMMA RequestKeepsOrder ==
  ASSUME Typed, StartsFirst, NEW c \in Clients, Ready(c), serving' = serving,
         \A d \in Procs : d # c => proc'[d] = proc[d]
  PROVE  StartsFirst'
<1>1. c # Main /\ Main \in Procs /\ serving /\ proc[Main] = Idle
  BY NoneAssumption DEF Procs, Ready, StartsFirst
<1> QED  BY <1>1, IdleTyped DEF StartsFirst

LEMMA RequestAddKeeps ==
  ASSUME WatchInv, NEW c \in Clients, NEW path \in Paths, RequestAdd(c, path)
  PROVE  WatchInv'
<1> DEFINE o == [kind |-> "add", path |-> path, todo |-> <<path>>, at |-> "watch"]
           met == \E d \in Clients : Removes(d, path)
<1>1. /\ Ready(c) /\ proc' = [proc EXCEPT ![c] = o] /\ UNCHANGED <<serving, config, watched>>
      /\ parted' = IF met THEN parted \cup {path}
                   ELSE IF Untouched(path) THEN parted \ {path} ELSE parted
      /\ config \in Seq(Paths) /\ watched \subseteq Paths /\ parted \subseteq Paths
  BY DEF RequestAdd, Meet, watchVars, WatchInv, Typed
<1>2. /\ c \in Procs /\ c # Main /\ serving /\ proc[Main] = Idle /\ Typed /\ StartsFirst
      /\ ToDo(c) = {} /\ \A q : ~Removes(c, q) /\ ~Adds(c, q) /\ ~InHand(c, q)
      /\ \A q : ~Removes(Main, q)
      /\ Untouched(path) => \A d \in Procs : ~Removes(d, path) /\ path \notin ToDo(d)
  BY <1>1, RequestFacts
<1>3. /\ o \in Calls /\ o.kind = "add" /\ o.path = path /\ o.todo = <<path>> /\ o.at = "watch"
  <2>1. o \in [kind : Kinds, path : Paths \cup {None}, todo : Seq(Paths), at : Places]
    BY ShortLists DEF Kinds, Places, Looping
  <2>2. CallOK(o)
    BY ShortLists DEF CallOK, Looping
  <2> QED  BY <2>1, <2>2 DEF Calls
<1> HIDE DEF o
<1>4. parted' \subseteq Paths /\ (o.kind = "startup" => c = Main)
  BY <1>1, <1>3
<1>5. Typed' /\ \A d \in Procs : proc'[d] = IF d = c THEN o ELSE proc[d]
  BY <1>1, <1>2, <1>3, <1>4, MoveTyped
<1>6. StartsFirst'
  BY <1>1, <1>2, <1>5, RequestKeepsOrder
<1>7. /\ ToDo(c)' = {path} /\ Adds(c, path)' /\ proc'[c].at = "watch"
      /\ \A q : ~Removes(c, q)' /\ ~InHand(c, q)' /\ (Adds(c, q)' => q = path)
  BY <1>2, <1>3, <1>5, ShortLists DEF ToDo, Adds, Removes, InHand
<1>8. ASSUME NEW p \in Paths \ parted' PROVE Together(p)'
  <2>0. Configured' = Configured
    BY <1>1 DEF Configured
  <2>1. CASE p # path
    <3>1. Together(p)
      BY <1>1, <1>8, <2>1 DEF WatchInv
    <3>2. proc[c].kind # "startup"
      BY <1>1, IdleTyped DEF Ready
    <3> QED  BY <1>1, <1>2, <1>5, <1>7, <2>0, <2>1, <3>1, <3>2, StepOfOne
  <2>2. CASE p = path
    <3>1. ~met /\ (Together(p) \/ Untouched(p))
      BY <1>1, <1>8, <2>2 DEF WatchInv
    <3>2. \A d \in Procs : d \in Clients \/ d = Main
      BY DEF Procs
    <3>3. \A d \in Procs : ~Removes(d, p)
      BY <1>2, <2>2, <3>1, <3>2
    <3>4. \A d \in Procs : p \in ToDo(d) /\ proc[d].kind # "add" => p \in Configured
      BY <1>2, <2>2, <3>1 DEF Together, Unopposed
    <3>5. \A d \in Procs : InHand(d, p) => p \in watched
      BY <1>2, <2>2, <3>1 DEF Together, InOrder, InHand
    <3>6. \A d \in Procs : d # c => /\ Removes(d, p)' <=> Removes(d, p)
                                    /\ ToDo(d)' = ToDo(d)
                                    /\ InHand(d, p)' <=> InHand(d, p)
      BY <1>5 DEF Removes, ToDo, InHand
    <3>7. Seen(p)'
      BY <1>2, <1>7, <2>2 DEF Seen, WatchDue, EntryDue
    <3>8. Unopposed(p)'
      BY <1>3, <1>5, <1>7, <2>0, <3>3, <3>4, <3>6 DEF Unopposed
    <3>9. InOrder(p)'
      BY <1>1, <1>7, <3>3, <3>5, <3>6 DEF InOrder
    <3> QED  BY <3>7, <3>8, <3>9 DEF Together
  <2> QED  BY <2>1, <2>2
<1> QED  BY <1>5, <1>6, <1>8 DEF WatchInv

LEMMA RequestRemoveKeeps ==
  ASSUME WatchInv, NEW c \in Clients, NEW path \in Paths, RequestRemove(c, path)
  PROVE  WatchInv'
<1> DEFINE o == [kind |-> "remove", path |-> path, todo |-> <<>>, at |-> "forget"]
           met == \E d \in Clients : Registers(d, path)
<1>1. /\ Ready(c) /\ proc' = [proc EXCEPT ![c] = o] /\ UNCHANGED <<serving, config, watched>>
      /\ parted' = IF met THEN parted \cup {path}
                   ELSE IF Untouched(path) THEN parted \ {path} ELSE parted
      /\ config \in Seq(Paths) /\ watched \subseteq Paths /\ parted \subseteq Paths
  BY DEF RequestRemove, Meet, watchVars, WatchInv, Typed
<1>2. /\ c \in Procs /\ c # Main /\ serving /\ proc[Main] = Idle /\ Typed /\ StartsFirst
      /\ ToDo(c) = {} /\ \A q : ~Removes(c, q) /\ ~Adds(c, q) /\ ~InHand(c, q)
      /\ \A q : ~Removes(Main, q) /\ ~Registers(Main, q)
      /\ Untouched(path) => \A d \in Procs : ~Removes(d, path) /\ path \notin ToDo(d)
  BY <1>1, RequestFacts
<1>3. /\ o \in Calls /\ o.kind = "remove" /\ o.path = path /\ o.todo = <<>> /\ o.at = "forget"
  <2>1. o \in [kind : Kinds, path : Paths \cup {None}, todo : Seq(Paths), at : Places]
    BY ShortLists DEF Kinds, Places, Looping
  <2>2. CallOK(o)
    BY ShortLists DEF CallOK, Looping
  <2> QED  BY <2>1, <2>2 DEF Calls
<1> HIDE DEF o
<1>4. parted' \subseteq Paths /\ (o.kind = "startup" => c = Main)
  BY <1>1, <1>3
<1>5. Typed' /\ \A d \in Procs : proc'[d] = IF d = c THEN o ELSE proc[d]
  BY <1>1, <1>2, <1>3, <1>4, MoveTyped
<1>6. StartsFirst'
  BY <1>1, <1>2, <1>5, RequestKeepsOrder
<1>7. /\ ToDo(c)' = {} /\ Removes(c, path)' /\ proc'[c].at = "forget"
      /\ \A q : ~Adds(c, q)' /\ ~InHand(c, q)' /\ (Removes(c, q)' => q = path)
  BY <1>2, <1>3, <1>5, ShortLists DEF ToDo, Adds, Removes, InHand
<1>8. ASSUME NEW p \in Paths \ parted' PROVE Together(p)'
  <2>0. Configured' = Configured
    BY <1>1 DEF Configured
  <2>1. CASE p # path
    <3>1. Together(p)
      BY <1>1, <1>8, <2>1 DEF WatchInv
    <3>2. proc[c].kind # "startup"
      BY <1>1, IdleTyped DEF Ready
    <3> QED  BY <1>1, <1>2, <1>5, <1>7, <2>0, <2>1, <3>1, <3>2, StepOfOne
  <2>2. CASE p = path
    <3>1. ~met /\ (Together(p) \/ Untouched(p))
      BY <1>1, <1>8, <2>2 DEF WatchInv
    <3>2. \A d \in Procs : d \in Clients \/ d = Main
      BY DEF Procs
    <3>3. \A d \in Procs : p \notin ToDo(d)
      BY <1>2, <2>2, <3>1, <3>2 DEF Registers, ToDo
    <3>4. \A d \in Procs : Removes(d, p) /\ proc[d].at = "unwatch" => p \notin Configured
      BY <1>2, <2>2, <3>1 DEF Together, InOrder
    <3>5. \A d \in Procs : d # c => /\ Removes(d, p)' <=> Removes(d, p)
                                    /\ ToDo(d)' = ToDo(d)
                                    /\ proc'[d].at = proc[d].at
      BY <1>5 DEF Removes, ToDo
    <3>6. \A d \in Procs : p \notin ToDo(d)'
      BY <1>7, <3>3, <3>5
    <3>7. Seen(p)'
      BY <1>2, <1>7, <2>2 DEF Seen, WatchDue, EntryDue
    <3>8. Unopposed(p)'
      BY <3>6 DEF Unopposed
    <3>9. InOrder(p)'
      <4>1. \A d \in Procs : ~InHand(d, p)'
        BY <3>6 DEF InHand
      <4> QED  BY <1>7, <2>0, <3>4, <3>5, <4>1 DEF InOrder
    <3> QED  BY <3>7, <3>8, <3>9 DEF Together
  <2> QED  BY <2>1, <2>2
<1> QED  BY <1>5, <1>6, <1>8 DEF WatchInv

LEMMA ResetIndexKeeps ==
  ASSUME WatchInv, NEW c \in Clients, ResetIndex(c)
  PROVE  WatchInv'
<1> DEFINE o == [kind |-> "reset", path |-> None, todo |-> <<>>, at |-> "list"]
<1>1. /\ Ready(c) /\ proc' = [proc EXCEPT ![c] = o] /\ UNCHANGED <<serving, config, watched, parted>>
      /\ config \in Seq(Paths) /\ watched \subseteq Paths /\ parted \subseteq Paths
  BY DEF ResetIndex, watchVars, WatchInv, Typed
<1>2. /\ c \in Procs /\ Typed /\ StartsFirst /\ proc[c] = Idle
  BY <1>1 DEF Ready, Procs, WatchInv
<1>3. /\ o \in Calls /\ o.kind = "reset" /\ o.todo = <<>> /\ o.at = "list"
  <2>1. o \in [kind : Kinds, path : Paths \cup {None}, todo : Seq(Paths), at : Places]
    BY ShortLists DEF Kinds, Places, Looping
  <2>2. CallOK(o)
    BY ShortLists DEF CallOK, Looping
  <2> QED  BY <2>1, <2>2 DEF Calls
<1> HIDE DEF o
<1>4. o.kind = "startup" => c = Main
  BY <1>3
<1>5. Typed' /\ \A d \in Procs : proc'[d] = IF d = c THEN o ELSE proc[d]
  BY <1>1, <1>2, <1>3, <1>4, MoveTyped
<1>6. StartsFirst'
  BY <1>1, <1>2, <1>5, RequestKeepsOrder
<1>7. /\ ToDo(c) = {} /\ ToDo(c)' = {} /\ proc[c].kind = "none"
      /\ \A q : /\ ~Adds(c, q) /\ ~Removes(c, q)
                /\ ~Adds(c, q)' /\ ~Removes(c, q)' /\ ~InHand(c, q)'
  BY <1>2, <1>3, <1>5, IdleTyped, ShortLists DEF ToDo, Adds, Removes, InHand
<1>8. ASSUME NEW p \in Paths \ parted' PROVE Together(p)'
  <2>1. Together(p) /\ Configured' = Configured
    BY <1>1, <1>8 DEF WatchInv, Configured
  <2> QED  BY <1>1, <1>2, <1>5, <1>7, <2>1, StepOfOne
<1> QED  BY <1>5, <1>6, <1>8 DEF WatchInv

\* The loop of ResetIndex is over folders nobody is removing, or parted ones.
LEMMA ListPathsKeeps ==
  ASSUME WatchInv, NEW c \in Clients, ListPaths(c)
  PROVE  WatchInv'
<1>1. /\ proc[c].at = "list" /\ Loop(c, config) /\ UNCHANGED <<serving, config, watched>>
      /\ parted' = parted \cup {p \in Configured : \E d \in Clients : Removes(d, p)}
      /\ c \in Procs /\ Typed /\ StartsFirst
      /\ config \in Seq(Paths) /\ watched \subseteq Paths /\ parted \subseteq Paths
  BY DEF ListPaths, watchVars, WatchInv, Typed, Procs
<1>2. proc[c].kind = "reset" /\ proc[c].todo = <<>>
  BY <1>1, CallTyped DEF CallOK
<1>3. Configured \subseteq Paths /\ Configured' = Configured /\ parted' \subseteq Paths
  BY <1>1, ShortLists, ListFacts DEF Configured
<1>4. /\ Typed'
      /\ \A d \in Procs : d # c => proc'[d] = proc[d]
      /\ ToDo(c)' = Configured
      /\ proc'[c] = Idle \/ (proc'[c].kind = "reset" /\ proc'[c].at = "watch")
  BY <1>1, <1>2, <1>3, LoopMoves DEF Configured
<1>5. StartsFirst'
  BY <1>1, <1>2, <1>4, IdleTyped, StartsKept
<1>6. /\ ToDo(c) = {} /\ proc[c].kind # "startup"
      /\ \A q : /\ ~Adds(c, q) /\ ~Removes(c, q)
                /\ ~Adds(c, q)' /\ ~Removes(c, q)' /\ ~InHand(c, q)'
  <2>1. \A q : ~Adds(c, q)' /\ ~Removes(c, q)' /\ ~InHand(c, q)'
    BY <1>4, IdleTyped, ShortLists DEF Adds, Removes, InHand, ToDo
  <2> QED  BY <1>2, <2>1, ShortLists DEF ToDo, Adds, Removes
<1>7. ASSUME NEW p \in Paths \ parted' PROVE Together(p)'
  <2>1. Together(p)
    BY <1>1, <1>7 DEF WatchInv
  <2>2. CASE p \notin Configured
    BY <1>1, <1>3, <1>4, <1>6, <2>1, <2>2, StepOfOne
  <2>3. CASE p \in Configured
    <3>1. \A d \in Clients : ~Removes(d, p)
      BY <1>1, <1>7, <2>3
    <3>2. \A d \in Procs : ~Removes(d, p)
      BY <1>1, <3>1 DEF Procs, StartsFirst, Removes
    <3>3. \A d \in Procs : d # c => /\ Removes(d, p)' <=> Removes(d, p)
                                    /\ Adds(d, p)' <=> Adds(d, p)
                                    /\ ToDo(d)' = ToDo(d)
                                    /\ InHand(d, p)' <=> InHand(d, p)
      BY <1>4 DEF Removes, Adds, ToDo, InHand
    <3>4. Seen(p)'
      <4>1. WatchDue(p) => WatchDue(p)'
        BY <1>4, <1>6, <3>3 DEF WatchDue
      <4> QED  BY <1>1, <1>3, <2>1, <2>3, <4>1 DEF Together, Seen
    <3>5. Unopposed(p)'
      BY <1>3, <1>6, <2>3, <3>2, <3>3 DEF Unopposed
    <3>6. InOrder(p)'
      BY <1>1, <1>3, <1>6, <2>1, <3>2, <3>3 DEF Together, InOrder
    <3> QED  BY <3>4, <3>5, <3>6 DEF Together
  <2> QED  BY <2>2, <2>3
<1> QED  BY <1>4, <1>5, <1>7 DEF WatchInv

-----------------------------------------------------------------------------
(* The main goroutine. *)

LEMMA LoadConfigKeeps ==
  ASSUME WatchInv, LoadConfig
  PROVE  WatchInv'
<1>1. /\ proc[Main].at = "load" /\ UNCHANGED <<serving, watched, parted>>
      /\ Typed /\ StartsFirst /\ Main \in Procs
      /\ config = <<>> /\ watched = {} /\ parted \subseteq Paths
  BY DEF LoadConfig, WatchInv, Typed, Procs, StartsFirst
<1>2. proc[Main].kind = "startup" /\ proc[Main].todo = <<>>
  BY <1>1, CallTyped DEF CallOK
<1>3. ~serving /\ \A d \in Procs : d # Main => proc[d] = Idle
  BY <1>1, IdleTyped DEF StartsFirst, Procs
<1>4. PICK s \in Seq(Paths) : config' = s /\ (Loop(Main, s) \/ (Return(Main) /\ s = <<>>))
  BY <1>1, ListsAreSequences, ShortLists DEF LoadConfig
<1>5. /\ Typed'
      /\ \A d \in Procs : d # Main => proc'[d] = proc[d]
      /\ ToDo(Main)' = ToSet(s)
      /\ proc'[Main] = Idle \/ (proc'[Main].kind = "startup" /\ proc'[Main].at = "watch")
  <2>1. CASE Loop(Main, s)
    BY <1>1, <1>2, <1>4, <2>1, LoopMoves
  <2>2. CASE Return(Main) /\ s = <<>>
    BY <1>1, <1>4, <2>2, ReturnMoves, IdleTyped DEF ToDo
  <2> QED  BY <1>4, <2>1, <2>2
<1>6. StartsFirst'
  BY <1>1, <1>2, <1>5, IdleTyped, StartsKept
<1>7. /\ \A d \in Procs : d # Main => ToDo(d)' = {}
      /\ \A d \in Procs : \A q : ~Removes(d, q)' /\ ~InHand(d, q)'
  <2>1. \A d \in Procs : d # Main => proc'[d] = Idle
    BY <1>3, <1>5
  <2>2. \A d \in Procs : d # Main => ToDo(d)' = {}
    BY <2>1, IdleTyped, ShortLists DEF ToDo
  <2>3. \A q : ~Removes(Main, q)' /\ ~InHand(Main, q)'
    BY <1>5, IdleTyped, ShortLists DEF Removes, InHand, ToDo
  <2> QED  BY <2>1, <2>2, <2>3, IdleTyped DEF Removes, InHand
<1>8. ASSUME NEW p \in Paths PROVE Together(p)'
  <2>1. Configured' = ToSet(s)
    BY <1>4 DEF Configured
  <2>2. p \in ToSet(s) => proc'[Main].kind = "startup"
    BY <1>5, IdleTyped, ShortLists DEF ToDo
  <2>3. Seen(p)'
    BY <1>1, <1>5, <2>1, <2>2 DEF Seen, WatchDue
  <2>4. Unopposed(p)' /\ InOrder(p)'
    BY <1>5, <1>7, <2>1 DEF Unopposed, InOrder
  <2> QED  BY <2>3, <2>4 DEF Together
<1> QED  BY <1>5, <1>6, <1>8 DEF WatchInv

\* Steps that change neither lists nor calls.
LEMMA WatchUntouched ==
  ASSUME WatchInv, UNCHANGED <<config, watched, proc, parted>>,
         serving' = serving \/ (serving' /\ proc[Main] = Idle)
  PROVE  WatchInv'
<1>1. Typed' /\ StartsFirst'
  BY DEF WatchInv, Typed, StartsFirst
<1>2. \A p : Together(p)' <=> Together(p)
  BY DEF Together, Seen, Unopposed, InOrder, WatchDue, EntryDue, InHand, Removes, Adds, ToDo, Configured
<1> QED  BY <1>1, <1>2 DEF WatchInv

LEMMA WatchInit == Init => WatchInv
<1> SUFFICES ASSUME Init PROVE WatchInv
  OBVIOUS
<1>1. /\ Starting.kind = "startup" /\ Starting.todo = <<>> /\ Starting.at = "load"
      /\ Starting \in Calls
  <2>1. Starting.kind = "startup" /\ Starting.todo = <<>> /\ Starting.at = "load"
    BY DEF Starting
  <2>2. Starting \in [kind : Kinds, path : Paths \cup {None}, todo : Seq(Paths), at : Places]
    BY ShortLists DEF Starting, Kinds, Places
  <2>3. CallOK(Starting)
    BY <2>1 DEF CallOK, Looping
  <2> QED  BY <2>1, <2>2, <2>3 DEF Calls
<1>2. /\ config = <<>> /\ watched = {} /\ parted = {} /\ ~serving
      /\ proc = [c \in Procs |-> IF c = Main THEN Starting ELSE Idle]
      /\ Main \in Procs /\ \A c \in Clients : c \in Procs /\ c # Main
  BY NoneAssumption DEF Init, Procs
<1>3. Typed /\ StartsFirst
  BY <1>1, <1>2, IdleTyped, ShortLists DEF Typed, StartsFirst
<1>4. \A c \in Procs : ToDo(c) = {} /\ \A q : ~Removes(c, q) /\ ~InHand(c, q)
  BY <1>1, <1>2, IdleTyped, ShortLists DEF ToDo, Removes, InHand
<1>5. \A p \in Paths : Together(p)
  BY <1>2, <1>4, ShortLists DEF Together, Seen, Unopposed, InOrder, Configured
<1> QED  BY <1>3, <1>5 DEF WatchInv

LEMMA WatchStep == WatchInv /\ [Next]_vars => WatchInv'
<1> SUFFICES ASSUME WatchInv, [Next]_vars PROVE WatchInv'
  OBVIOUS
<1>1. CASE LoadConfig
  BY <1>1, LoadConfigKeeps
<1>2. CASE Serve
  BY <1>2, WatchUntouched DEF Serve
<1>3. ASSUME NEW c \in Procs, AddToRegistry(c) PROVE WatchInv'
  <2>1. CASE WatchRoot(c)
    BY <2>1, WatchRootKeeps
  <2>2. CASE FailToWatch(c)
    BY <2>2, FailToWatchKeeps
  <2>3. CASE StartRefused(c)
    BY <2>3, AdvanceKeeps DEF StartRefused, watchVars
  <2>4. CASE StartAccepted(c) \/ RaiseFlag(c)
    BY <2>4, StartGoesOn
  <2>5. CASE Spawn(c)
    BY <2>5, AdvanceKeeps DEF Spawn, watchVars
  <2> QED  BY <1>3, <2>1, <2>2, <2>3, <2>4, <2>5 DEF AddToRegistry
<1>4. ASSUME NEW c \in Clients, Request(c) PROVE WatchInv'
  <2>1. CASE FailToReset(c)
    BY <2>1, WatchUntouched DEF FailToReset, watchVars
  <2> QED  BY <1>4, <2>1, RequestAddKeeps, RequestRemoveKeeps, ResetIndexKeeps DEF Request
<1>5. ASSUME NEW c \in Clients, Handle(c) PROVE WatchInv'
  BY <1>5, StorePathKeeps, ForgetPathKeeps, UnwatchRootKeeps, ListPathsKeeps DEF Handle
<1>6. ASSUME NEW r \in Runs, FinishRun(r) PROVE WatchInv'
  BY <1>6, WatchUntouched DEF FinishRun, watchVars
<1>7. CASE UNCHANGED vars
  BY <1>7, WatchUntouched DEF vars, watchVars
<1> QED  BY <1>1, <1>2, <1>3, <1>4, <1>5, <1>6, <1>7 DEF Next

\* However many handlers add, remove and reset at the same time, after any startup: a
\* folder nobody works on is watched exactly when it is configured, unless a call on it
\* failed half-way, fsnotify refused to watch its root, or a removal met an addition
\* (WatchPaths.Start, Add, Remove, ResetIndex, Watcher.addPath).
THEOREM WatchesAreThoseConfigured == Spec => []WatchesFollowConfig
<1>1. WatchInv => WatchesFollowConfig
  <2> SUFFICES ASSUME WatchInv, NEW p \in Paths \ parted, Untouched(p)
               PROVE  p \in Configured <=> p \in watched
    BY DEF WatchesFollowConfig
  <2>1. Together(p)
    BY DEF WatchInv
  <2>2. \A c \in Procs : ~Removes(c, p) /\ ~Adds(c, p) /\ p \notin ToDo(c)
    BY DEF Untouched, Registers, Adds, ToDo
  <2> QED  BY <2>1, <2>2 DEF Together, Seen, WatchDue, EntryDue
<1> QED  BY <1>1, WatchInit, WatchStep, PTL DEF Spec

-----------------------------------------------------------------------------
(* Configured folders are indexed. *)

LEMMA ListedAreFolders == \A s \in Seq(Paths) : ToSet(s) \subseteq Paths
BY ShortLists, ListFacts

LEMMA GotoFields ==
  ASSUME Typed, NEW c \in Procs, NEW at, Goto(c, at)
  PROVE  /\ \A d \in Procs : d # c => proc'[d] = proc[d]
         /\ proc'[c].kind = proc[c].kind /\ proc'[c].path = proc[c].path
         /\ proc'[c].todo = proc[c].todo /\ proc'[c].at = at /\ ToDo(c)' = ToDo(c)
<1>1. proc[c] \in [kind : Kinds, path : Paths \cup {None}, todo : Seq(Paths), at : Places]
  BY DEF Typed, Calls
<1>2. proc' = [proc EXCEPT ![c] = [proc[c] EXCEPT !.at = at]]
  BY DEF Goto
<1>3. proc'[c] = [proc[c] EXCEPT !.at = at] /\ \A d \in Procs : d # c => proc'[d] = proc[d]
  BY <1>2 DEF Typed
<1> QED  BY <1>1, <1>3 DEF ToDo

LEMMA ReturnFields ==
  ASSUME Typed, NEW c \in Procs, Return(c)
  PROVE  /\ \A d \in Procs : d # c => proc'[d] = proc[d]
         /\ proc'[c] = Idle /\ ToDo(c)' = {}
BY IdleTyped, ShortLists DEF Return, Typed, ToDo

LEMMA LoopFields ==
  ASSUME Typed, NEW c \in Procs, NEW paths \in Seq(Paths), Loop(c, paths)
  PROVE  /\ \A d \in Procs : d # c => proc'[d] = proc[d]
         /\ ToDo(c)' = ToSet(paths)
         /\ proc'[c].at \in {"idle", "watch"}
<1> DEFINE o == [kind |-> proc[c].kind, path |-> proc[c].path, todo |-> paths, at |-> "watch"]
<1>1. CASE paths = <<>>
  BY <1>1, IdleTyped DEF Loop, Typed, ToDo
<1>2. CASE paths # <<>>
  <2>1. o.todo = paths /\ o.at = "watch" /\ proc' = [proc EXCEPT ![c] = o]
    BY <1>2 DEF Loop
  <2> HIDE DEF o
  <2> QED  BY <2>1 DEF Typed, ToDo
<1> QED  BY <1>1, <1>2

LEMMA AdvanceFields ==
  ASSUME Typed, NEW c \in Procs, Advance(c), proc[c].at \in Looping
  PROVE  /\ \A d \in Procs : d # c => proc'[d] = proc[d]
         /\ proc'[c].at \notin {"raise", "spawn", "list"}
         /\ ToDo(c) \subseteq ToDo(c)' \cup {Head(proc[c].todo)}
         /\ proc'[c].at = "store" => /\ proc'[c].path = Head(proc[c].todo)
                                     /\ ToDo(c) = {Head(proc[c].todo)}
<1>1. /\ proc[c].todo \in Seq(Paths) /\ Tail(proc[c].todo) \in Seq(Paths) /\ CallOK(proc[c])
      /\ ToDo(c) = {Head(proc[c].todo)} \cup ToSet(Tail(proc[c].todo))
  BY CallTyped, WorkFacts
<1>2. CASE proc[c].kind = "add"
  <2>1. Adds(c, proc[c].path)
    BY <1>2 DEF Adds
  <2>2. ToDo(c) = {proc[c].path} /\ Head(proc[c].todo) = proc[c].path
    BY <2>1, WorkFacts
  <2> QED  BY <1>2, <2>2, GotoFields DEF Advance
<1>3. CASE proc[c].kind # "add"
  <2>1. Loop(c, Tail(proc[c].todo))
    BY <1>3 DEF Advance
  <2>2. /\ \A d \in Procs : d # c => proc'[d] = proc[d]
        /\ ToDo(c)' = ToSet(Tail(proc[c].todo))
        /\ proc'[c].at \in {"idle", "watch"}
    BY <1>1, <2>1, LoopFields
  <2> QED  BY <1>1, <2>2
<1> QED  BY <1>2, <1>3

\* One goroutine moves: nothing it had still to start is forgotten, unless it is
\* scanned or missed, and what has been indexed stays so.
LEMMA ScanKept ==
  ASSUME ScanInv, RunnerTyped', NEW c \in Procs,
         \A d \in Procs : d # c => proc'[d] = proc[d] /\ call'[d] = call[d],
         Configured' \subseteq Paths,
         \A p \in Paths \ missed' : p \notin missed \/ Scanned(p)',
         \A p \in Paths \ missed' : Scanned(p) => Scanned(p)',
         \A p \in Configured' \ missed' : p \in Configured \/ Scanned(p)' \/ ScanDue(p)',
         \A p \in Configured' \ missed' : p \in ToDo(c) /\ proc[c].at # "store"
            => Scanned(p)' \/ (p \in ToDo(c)' /\ proc'[c].at # "store"),
         \A p \in Configured' \ missed' : proc[c].at = "list"
            => proc'[c].at = "list" \/ (p \in ToDo(c)' /\ proc'[c].at # "store"),
         \A p \in Paths \ missed' : proc'[c].at = "store" /\ proc'[c].path = p => Scanned(p)',
         proc'[c].at \in {"raise", "spawn"} => call'[c].root = Head(proc'[c].todo)
  PROVE  ScanInv'
<1>1. \A d \in Procs : d # c => ToDo(d)' = ToDo(d)
  BY DEF ToDo
<1>2. ASSUME NEW p \in Configured' \ missed', p \in Configured, ~Scanned(p)'
      PROVE  ScanDue(p)'
  <2>1. p \notin missed /\ ~Scanned(p)
    BY <1>2
  <2>2. PICK d \in Procs : (p \in ToDo(d) /\ proc[d].at # "store") \/ proc[d].at = "list"
    BY <1>2, <2>1 DEF ScanInv, ScanDue
  <2>3. CASE d = c
    BY <1>2, <2>2, <2>3 DEF ScanDue
  <2>4. CASE d # c
    <3>1. proc'[d] = proc[d] /\ ToDo(d)' = ToDo(d)
      BY <1>1, <2>4
    <3> QED  BY <2>2, <3>1 DEF ScanDue
  <2> QED  BY <2>3, <2>4
<1>3. ASSUME NEW d \in Procs, NEW p \in Paths \ missed', proc'[d].at = "store", proc'[d].path = p
      PROVE  Scanned(p)'
  <2>1. CASE d = c
    BY <1>3, <2>1
  <2>2. CASE d # c
    <3>1. proc[d].at = "store" /\ proc[d].path = p
      BY <1>3, <2>2
    <3>2. p \notin missed => Scanned(p)
      BY <3>1 DEF ScanInv
    <3> QED  BY <3>2
  <2> QED  BY <2>1, <2>2
<1>4. \A d \in Procs : proc'[d].at \in {"raise", "spawn"} => call'[d].root = Head(proc'[d].todo)
  BY DEF ScanInv
<1> QED  BY <1>2, <1>3, <1>4 DEF ScanInv

\* A step of the index alone.
LEMMA ScanKeptIdle ==
  ASSUME ScanInv, WatchInv, RunnerTyped', UNCHANGED <<proc, call, config>>,
         missed \subseteq missed',
         \A p \in Paths \ missed' : Scanned(p) => Scanned(p)'
  PROVE  ScanInv'
<1>1. Main \in Procs /\ Configured' = Configured /\ Configured \subseteq Paths
  BY ListedAreFolders DEF Procs, Configured, WatchInv, Typed
<1>2. \A p \in Paths \ missed' : p \notin missed
  OBVIOUS
<1>3. /\ \A c \in Procs : ToDo(c)' = ToDo(c)
      /\ \A p \in Paths \ missed' : proc[Main].at = "store" /\ proc[Main].path = p => Scanned(p)
      /\ proc[Main].at \in {"raise", "spawn"} => call[Main].root = Head(proc[Main].todo)
  BY <1>1, <1>2 DEF ToDo, ScanInv
<1> QED  BY <1>1, <1>2, <1>3, ScanKept

\* What a move of one goroutine leaves to the index.
LEMMA MoveKeepsScans ==
  ASSUME ScanInv, WatchInv, NEW c \in Procs,
         \A d \in Procs : d # c => proc'[d] = proc[d],
         UNCHANGED <<runnerVars, indexed>>, missed \subseteq missed',
         Configured' \subseteq Paths,
         \A p \in Configured' \ missed' : p \in Configured \/ Scanned(p)' \/ ScanDue(p)',
         \A p \in (ToDo(c) \cap Configured') \ missed' :
            proc[c].at = "store" \/ (p \in ToDo(c)' /\ proc'[c].at # "store"),
         \A p \in Configured' \ missed' : proc[c].at = "list"
            => proc'[c].at = "list" \/ (p \in ToDo(c)' /\ proc'[c].at # "store"),
         proc'[c].at \notin {"store", "raise", "spawn"}
  PROVE  ScanInv'
<1>1. /\ \A p \in Paths : Scanned(p)' <=> Scanned(p)
      /\ call' = call
  BY DEF runnerVars, Scanned
<1>2. RunnerTyped'
  BY DEF runnerVars, RunnerTyped, ScanInv
<1> QED  BY <1>1, <1>2, ScanKept

\* The walk over a folder, and what Start does with it.
LEMMA RegisterKeepsScans ==
  ASSUME ScanInv, WatchInv, NEW c \in Procs,
         WatchRoot(c) \/ FailToWatch(c) \/ StartAccepted(c) \/ RaiseFlag(c)
  PROVE  ScanInv'
<1>1. /\ Typed /\ proc[c].at \in Looping /\ proc[c].at \notin {"store", "list"}
      /\ Configured' = Configured /\ Configured \subseteq Paths /\ indexed' = indexed
      /\ Head(proc[c].todo) \in ToDo(c) /\ Tail(proc[c].todo) \in Seq(Paths)
      /\ ToDo(c) = {Head(proc[c].todo)} \cup ToSet(Tail(proc[c].todo))
      /\ ToDo(c) \subseteq Paths
  <2>1. Typed /\ proc[c].at \in Looping /\ UNCHANGED <<config, indexed>>
    BY DEF WatchInv, WatchRoot, FailToWatch, StartAccepted, RaiseFlag, Looping, watchVars, indexVars
  <2> QED  BY <2>1, WorkFacts, ListedAreFolders DEF Configured, Looping, Typed
<1>2. CASE WatchRoot(c)
  <2>1. Goto(c, "start") /\ UNCHANGED <<runnerVars, indexed, missed>>
    BY <1>2 DEF WatchRoot, indexVars
  <2> QED  BY <1>1, <2>1, GotoFields, MoveKeepsScans
<1>3. CASE FailToWatch(c)
  <2>1. UNCHANGED <<runnerVars, indexed>>
    BY <1>3 DEF FailToWatch
  <2>2. CASE proc[c].kind = "startup"
    <3>1. Loop(c, Tail(proc[c].todo)) /\ missed' = missed \cup {Head(proc[c].todo)}
      BY <1>3, <2>2 DEF FailToWatch
    <3> QED  BY <1>1, <2>1, <3>1, LoopFields, MoveKeepsScans
  <2>3. CASE proc[c].kind # "startup"
    <3>1. Return(c) /\ missed' = missed \cup ToDo(c)
      BY <1>3, <2>3 DEF FailToWatch, ToDo
    <3> QED  BY <1>1, <2>1, <3>1, ReturnFields, IdleTyped, MoveKeepsScans
  <2> QED  BY <2>2, <2>3
<1>4. CASE StartAccepted(c)
  <2>1. /\ Goto(c, "raise") /\ UNCHANGED <<missed, run>>
        /\ call' = [call EXCEPT ![c] = [at |-> "checked", root |-> Head(proc[c].todo)]]
    BY <1>4 DEF StartAccepted, indexVars, Runner!LoadFlag
  <2>2. /\ call'[c].root = Head(proc[c].todo)
        /\ \A d \in Procs : d # c => call'[d] = call[d]
        /\ RunnerTyped'
    BY <1>1, <2>1 DEF ScanInv, RunnerTyped
  <2>3. \A p \in Paths : Scanned(p)' <=> Scanned(p)
    BY <1>1, <2>1 DEF Scanned
  <2> QED  BY <1>1, <2>1, <2>2, <2>3, GotoFields, ScanKept
<1>5. CASE RaiseFlag(c)
  <2>1. /\ Goto(c, "spawn") /\ UNCHANGED <<missed, run>> /\ proc[c].at = "raise"
        /\ call[c].at = "checked" /\ call' = [call EXCEPT ![c].at = "stored"]
    BY <1>5 DEF RaiseFlag, indexVars, Runner!RaiseFlag
  <2>2. call[c] \in [at : {"checked", "stored"}, root : Paths]
    BY <2>1 DEF ScanInv, RunnerTyped, Runner!IdleCall
  <2>3. call' = [call EXCEPT ![c] = [call[c] EXCEPT !.at = "stored"]]
    BY <2>1
  <2>4. /\ [call[c] EXCEPT !.at = "stored"] \in [at : {"checked", "stored"}, root : Paths]
        /\ [call[c] EXCEPT !.at = "stored"].root = call[c].root
    BY <2>2
  <2>5. /\ call'[c].root = call[c].root
        /\ \A d \in Procs : d # c => call'[d] = call[d]
        /\ RunnerTyped'
    BY <2>1, <2>3, <2>4 DEF ScanInv, RunnerTyped
  <2>6. \A p \in Paths : Scanned(p)' <=> Scanned(p)
    BY <1>1, <2>1 DEF Scanned
  <2>7. call[c].root = Head(proc[c].todo)
    BY <2>1 DEF ScanInv
  <2> QED  BY <1>1, <2>1, <2>5, <2>6, <2>7, GotoFields, ScanKept
<1> QED  BY <1>2, <1>3, <1>4, <1>5

LEMMA StartKeepsScans ==
  ASSUME ScanInv, WatchInv, NEW c \in Procs, StartRefused(c) \/ Spawn(c)
  PROVE  ScanInv'
<1>1. /\ Typed /\ proc[c].at \in Looping /\ proc[c].at \notin {"store", "list"}
      /\ Configured' = Configured /\ Configured \subseteq Paths /\ indexed' = indexed
      /\ Head(proc[c].todo) \in Paths /\ Advance(c)
  <2>1. Typed /\ proc[c].at \in Looping /\ UNCHANGED <<config, indexed>> /\ Advance(c)
    BY DEF WatchInv, StartRefused, Spawn, Looping, watchVars
  <2> QED  BY <2>1, WorkFacts, ListedAreFolders DEF Configured, Looping, Typed
<1>2. /\ \A d \in Procs : d # c => proc'[d] = proc[d]
      /\ proc'[c].at \notin {"raise", "spawn", "list"}
      /\ ToDo(c) \subseteq ToDo(c)' \cup {Head(proc[c].todo)}
      /\ proc'[c].at = "store" => /\ proc'[c].path = Head(proc[c].todo)
                                  /\ ToDo(c) = {Head(proc[c].todo)}
  BY <1>1, AdvanceFields
<1>3. CASE StartRefused(c)
  <2>1. /\ missed' = missed \cup {Head(proc[c].todo)}
        /\ UNCHANGED <<call, run>>
    BY <1>3 DEF StartRefused, Runner!LoadFlag
  <2>2. RunnerTyped' /\ \A p \in Paths : Scanned(p)' <=> Scanned(p)
    BY <1>1, <2>1 DEF ScanInv, RunnerTyped, Scanned
  <2> QED  BY <1>1, <1>2, <2>1, <2>2, ScanKept
<1>4. CASE Spawn(c)
  <2>1. /\ missed' = missed \ {Head(proc[c].todo)} /\ proc[c].at = "spawn"
        /\ call' = [call EXCEPT ![c] = Runner!IdleCall]
    BY <1>4 DEF Spawn, Runner!Spawn
  <2>2. PICK r \in Runs : run[r] = None /\ run' = [run EXCEPT ![r] = call[c].root]
    BY <1>4 DEF Spawn, Runner!Spawn
  <2>3. call[c].root = Head(proc[c].todo)
    BY <2>1 DEF ScanInv
  <2>4. /\ RunnerTyped' /\ run'[r] = Head(proc[c].todo)
        /\ \A d \in Procs : d # c => call'[d] = call[d]
    BY <1>1, <2>1, <2>2, <2>3 DEF ScanInv, RunnerTyped
  <2>5. ASSUME NEW p \in Paths, Scanned(p) PROVE Scanned(p)'
    <3>1. CASE p \in indexed
      BY <1>1, <3>1 DEF Scanned
    <3>2. CASE p \notin indexed
      <4>1. PICK s \in Runs : run[s] = p
        BY <2>5, <3>2 DEF Scanned
      <4>2. s # r /\ run'[s] = p
        BY <2>2, <4>1, NoneAssumption DEF ScanInv, RunnerTyped
      <4> QED  BY <4>2 DEF Scanned
    <3> QED  BY <3>1, <3>2
  <2>6. PICK h \in Paths : h = Head(proc[c].todo)
    BY <1>1
  <2>7. Scanned(h)'
    BY <2>2, <2>3, <2>6 DEF Scanned, ScanInv, RunnerTyped
  <2>8. \A p \in Paths \ missed' : p \notin missed \/ Scanned(p)'
    BY <2>1, <2>6, <2>7
  <2> QED  BY <1>1, <1>2, <2>4, <2>5, <2>6, <2>7, <2>8, ScanKept
<1> QED  BY <1>3, <1>4

LEMMA FinishRunKeepsScans ==
  ASSUME ScanInv, WatchInv, NEW r \in Runs, FinishRun(r)
  PROVE  ScanInv'
<1>1. /\ run[r] # None /\ run' = [run EXCEPT ![r] = None]
      /\ UNCHANGED <<proc, call, config>>
      /\ \/ missed' = missed \cup {run[r]} /\ indexed' = indexed
         \/ indexed' = indexed \cup {run[r]} /\ missed' = missed
  BY DEF FinishRun, Runner!FinishRun, watchVars
<1>2. RunnerTyped'
  BY <1>1 DEF ScanInv, RunnerTyped
<1>3. ASSUME NEW p \in Paths \ missed', Scanned(p) PROVE Scanned(p)'
  <2>1. CASE p \in indexed \/ p = run[r]
    BY <1>1, <1>3, <2>1 DEF Scanned
  <2>2. CASE p \notin indexed /\ p # run[r]
    <3>1. PICK s \in Runs : run[s] = p
      BY <1>3, <2>2 DEF Scanned
    <3>2. s # r /\ run'[s] = p
      BY <1>1, <2>2, <3>1 DEF ScanInv, RunnerTyped
    <3> QED  BY <3>2 DEF Scanned
  <2> QED  BY <2>1, <2>2
<1> QED  BY <1>1, <1>2, <1>3, ScanKeptIdle

\* The rest of the requests, and the startup.
LEMMA RequestKeepsScans ==
  ASSUME ScanInv, WatchInv, NEW c \in Clients, NEW p \in Paths,
         RequestAdd(c, p) \/ RequestRemove(c, p)
  PROVE  ScanInv'
<1>1. /\ Typed /\ c \in Procs /\ proc[c] = Idle
      /\ Configured' = Configured /\ Configured \subseteq Paths
      /\ UNCHANGED <<runnerVars, indexed, missed>>
  BY ListedAreFolders DEF WatchInv, Typed, RequestAdd, RequestRemove, Ready, Procs, Configured,
                          watchVars, indexVars
<1>2. proc[c].at = "idle" /\ ToDo(c) = {}
  BY <1>1, IdleTyped, WorkFacts
<1>3. /\ \A d \in Procs : d # c => proc'[d] = proc[d]
      /\ proc'[c].at \in {"watch", "forget"}
  <2> DEFINE a == [kind |-> "add", path |-> p, todo |-> <<p>>, at |-> "watch"]
             b == [kind |-> "remove", path |-> p, todo |-> <<>>, at |-> "forget"]
  <2>1. proc' = [proc EXCEPT ![c] = a] \/ proc' = [proc EXCEPT ![c] = b]
    BY DEF RequestAdd, RequestRemove
  <2>2. a.at = "watch" /\ b.at = "forget"
    OBVIOUS
  <2> HIDE DEF a, b
  <2> QED  BY <1>1, <2>1, <2>2 DEF Typed
<1> QED  BY <1>1, <1>2, <1>3, MoveKeepsScans

LEMMA HandleKeepsScans ==
  ASSUME ScanInv, WatchInv, NEW c \in Clients, Handle(c)
  PROVE  ScanInv'
<1>1. /\ Typed /\ c \in Procs /\ config \in Seq(Paths) /\ Configured \subseteq Paths
      /\ UNCHANGED <<runnerVars, indexed, missed>>
  BY ListedAreFolders DEF WatchInv, Typed, Handle, StorePath, ForgetPath, UnwatchRoot, ListPaths,
                          Procs, Configured, watchVars, indexVars
<1>2. CASE StorePath(c)
  <2>1. Return(c) /\ proc[c].at = "store" /\ proc[c].path \in Paths
    BY <1>1, <1>2, CallTyped DEF StorePath, CallOK
  <2>2. PICK q \in Paths : q = proc[c].path
    BY <2>1
  <2>3. Configured' = Configured \cup {q}
    BY <1>1, <1>2, <2>2, LongerLists DEF StorePath, Configured
  <2>4. /\ \A p \in Paths : Scanned(p)' <=> Scanned(p)
        /\ q \in missed \/ Scanned(q)
    BY <1>1, <2>1, <2>2 DEF ScanInv, Scanned, runnerVars
  <2> QED  BY <1>1, <2>1, <2>3, <2>4, ReturnFields, IdleTyped, MoveKeepsScans
<1>3. CASE ForgetPath(c)
  <2>1. /\ proc[c].at = "forget" /\ Configured' \subseteq Configured
        /\ Goto(c, "unwatch") \/ Return(c)
    BY <1>3 DEF ForgetPath, Configured
  <2>2. ToDo(c) = {}
    BY <1>1, <2>1, CallTyped, ShortLists DEF CallOK, ToDo
  <2> QED  BY <1>1, <2>1, <2>2, GotoFields, ReturnFields, IdleTyped, MoveKeepsScans
<1>4. CASE UnwatchRoot(c)
  <2>1. proc[c].at = "unwatch" /\ Configured' = Configured /\ Return(c)
    BY <1>4 DEF UnwatchRoot, Configured
  <2>2. ToDo(c) = {}
    BY <1>1, <2>1, CallTyped, ShortLists DEF CallOK, ToDo
  <2> QED  BY <1>1, <2>1, <2>2, ReturnFields, IdleTyped, MoveKeepsScans
<1>5. CASE ListPaths(c)
  <2>1. proc[c].at = "list" /\ Configured' = Configured /\ Loop(c, config)
    BY <1>5 DEF ListPaths, Configured, watchVars
  <2>2. /\ \A d \in Procs : d # c => proc'[d] = proc[d]
        /\ ToDo(c)' = Configured /\ proc'[c].at \in {"idle", "watch"}
    BY <1>1, <2>1, LoopFields DEF Configured
  <2>3. ToDo(c) = {}
    BY <1>1, <2>1, WorkFacts
  <2> QED  BY <1>1, <2>1, <2>2, <2>3, MoveKeepsScans
<1> QED  BY <1>2, <1>3, <1>4, <1>5 DEF Handle

LEMMA LoadKeepsScans ==
  ASSUME ScanInv, WatchInv, LoadConfig
  PROVE  ScanInv'
<1>1. /\ Typed /\ Main \in Procs /\ proc[Main].at = "load" /\ Configured \subseteq Paths
      /\ UNCHANGED <<runnerVars, indexed, missed>>
  BY ListedAreFolders DEF WatchInv, Typed, LoadConfig, Procs, Configured, indexVars
<1>2. ToDo(Main) = {}
  BY <1>1, WorkFacts
<1>3. CASE \E s \in Lists : config' = s /\ Loop(Main, s)
  <2>1. PICK s \in Lists : config' = s /\ Loop(Main, s)
    BY <1>3
  <2>2. s \in Seq(Paths)
    BY ListsAreSequences
  <2>3. /\ \A d \in Procs : d # Main => proc'[d] = proc[d]
        /\ ToDo(Main)' = ToSet(s) /\ proc'[Main].at \in {"idle", "watch"}
    BY <1>1, <2>1, <2>2, LoopFields
  <2>4. Configured' = ToSet(s) /\ ToSet(s) \subseteq Paths
    BY <2>1, <2>2, ListedAreFolders DEF Configured
  <2>5. \A p \in Configured' : ScanDue(p)'
    BY <1>1, <2>3, <2>4 DEF ScanDue
  <2> QED  BY <1>1, <1>2, <2>3, <2>4, <2>5, MoveKeepsScans
<1>4. CASE Return(Main) /\ UNCHANGED config
  <2>1. Configured' = Configured
    BY <1>4 DEF Configured
  <2> QED  BY <1>1, <1>2, <1>4, <2>1, ReturnFields, IdleTyped, MoveKeepsScans
<1> QED  BY <1>3, <1>4 DEF LoadConfig

LEMMA ResetKeepsScans ==
  ASSUME ScanInv, WatchInv, NEW c \in Clients, ResetIndex(c) \/ FailToReset(c)
  PROVE  ScanInv'
<1>1. CASE ResetIndex(c)
  <2>1. /\ Typed /\ c \in Procs /\ Main \in Procs /\ proc[c] = Idle
        /\ missed' = missed \cup {proc[d].path : d \in {e \in Clients : proc[e].at = "store"}}
        /\ UNCHANGED <<call, run>>
    BY <1>1 DEF WatchInv, ResetIndex, Ready, Procs, runnerVars
  <2>2. proc'[c].at = "list" /\ \A d \in Procs : d # c => proc'[d] = proc[d]
    BY <1>1, <2>1 DEF ResetIndex, Typed
  <2>3. \A p : ScanDue(p)'
    BY <2>1, <2>2 DEF ScanDue
  <2>4. proc[Main].at # "store"
    BY <2>1, CallTyped DEF WatchInv, StartsFirst, CallOK
  <2>5. ASSUME NEW d \in Procs, proc'[d].at = "store" PROVE proc'[d].path \in missed'
    <3>1. d # c /\ proc'[d] = proc[d] /\ d \in Clients
      BY <2>2, <2>4, <2>5 DEF Procs
    <3> QED  BY <2>1, <2>5, <3>1
  <2>6. /\ RunnerTyped'
        /\ \A d \in Procs : proc'[d].at \in {"raise", "spawn"} => call'[d].root = Head(proc'[d].todo)
    BY <2>1, <2>2 DEF ScanInv, RunnerTyped
  <2> QED  BY <2>3, <2>5, <2>6 DEF ScanInv
<1>2. CASE FailToReset(c)
  <2>1. /\ UNCHANGED <<proc, call, run, config>>
        /\ UNCHANGED <<indexed, missed>> \/ missed' = Paths
    BY <1>2 DEF FailToReset, watchVars, runnerVars, indexVars
  <2>2. RunnerTyped'
    BY <2>1 DEF ScanInv, RunnerTyped
  <2>3. CASE UNCHANGED <<indexed, missed>>
    <3>1. \A p \in Paths : Scanned(p)' <=> Scanned(p)
      BY <2>1, <2>3 DEF Scanned
    <3> QED  BY <2>1, <2>2, <2>3, <3>1, ScanKeptIdle
  <2>4. CASE missed' = Paths
    <3>1. Configured \subseteq Paths /\ Configured' = Configured
      BY <2>1, ListedAreFolders DEF WatchInv, Typed, Configured
    <3>2. \A d \in Procs : proc'[d].at \in {"raise", "spawn"} => call'[d].root = Head(proc'[d].todo)
      BY <2>1 DEF ScanInv
    <3> QED  BY <2>2, <2>4, <3>1, <3>2 DEF ScanInv
  <2> QED  BY <2>1, <2>3, <2>4
<1> QED  BY <1>1, <1>2

LEMMA ScanInit == Init => ScanInv
<1> SUFFICES ASSUME Init PROVE ScanInv
  OBVIOUS
<1>1. Configured = {}
  BY ShortLists DEF Init, Configured
<1>2. \A c \in Procs : proc[c].at \in {"idle", "load"}
  BY DEF Init, Starting, Idle, Procs
<1>3. RunnerTyped
  BY DEF Init, Runner!FlagInit, RunnerTyped
<1> QED  BY <1>1, <1>2, <1>3 DEF ScanInv

LEMMA ScanStep == WatchInv /\ ScanInv /\ [Next]_vars => ScanInv'
<1> SUFFICES ASSUME WatchInv, ScanInv, [Next]_vars PROVE ScanInv'
  OBVIOUS
<1>1. CASE LoadConfig
  BY <1>1, LoadKeepsScans
<1>2. CASE Serve \/ UNCHANGED vars
  <2>1. UNCHANGED <<proc, call, run, config, missed, indexed>>
    BY <1>2 DEF Serve, vars, watchVars, runnerVars, indexVars
  <2>2. RunnerTyped' /\ \A p \in Paths : Scanned(p)' <=> Scanned(p)
    BY <2>1 DEF ScanInv, RunnerTyped, Scanned
  <2> QED  BY <2>1, <2>2, ScanKeptIdle
<1>3. ASSUME NEW c \in Procs, AddToRegistry(c) PROVE ScanInv'
  BY <1>3, RegisterKeepsScans, StartKeepsScans DEF AddToRegistry
<1>4. ASSUME NEW c \in Clients, Request(c) \/ Handle(c) PROVE ScanInv'
  BY <1>4, RequestKeepsScans, ResetKeepsScans, HandleKeepsScans DEF Request
<1>5. ASSUME NEW r \in Runs, FinishRun(r) PROVE ScanInv'
  BY <1>5, FinishRunKeepsScans
<1> QED  BY <1>1, <1>2, <1>3, <1>4, <1>5 DEF Next

\* A configured folder nobody works on has been gone through by a scan or is being so,
\* unless its registration or its scan failed, its scan was refused or the index emptied
\* under it, whatever the handlers do at the same time and however many scans overlap
\* (WatchPaths.Add, ResetIndex and Start, IndexRunner.Start and Run).
THEOREM ConfiguredAreScanned == Spec => []IndexedUnlessMissed
<1>1. WatchInv /\ ScanInv => IndexedUnlessMissed
  <2> SUFFICES ASSUME WatchInv, ScanInv, NEW p \in Configured \ missed, Untouched(p)
               PROVE  Scanned(p)
    BY DEF IndexedUnlessMissed, Scanned
  <2>1. \A c \in Procs : p \notin ToDo(c) /\ proc[c].at # "list"
    BY DEF Untouched, Registers, ToDo
  <2> QED  BY <2>1 DEF ScanInv, ScanDue
<1>2. WatchInv /\ ScanInv /\ [Next]_vars => (WatchInv /\ ScanInv)'
  BY WatchStep, ScanStep
<1> QED  BY <1>1, <1>2, WatchInit, ScanInit, PTL DEF Spec

-----------------------------------------------------------------------------
(* The types. *)

\* A folder is configured once, and is in the work of a goroutine once.
OneEach == IsInjective(config) /\ \A c \in Procs : IsInjective(proc[c].todo)

RestTyped == /\ serving \in BOOLEAN /\ dead \in BOOLEAN
             /\ running \in BOOLEAN /\ overlapped \in BOOLEAN
             /\ indexed \subseteq Paths /\ torn \subseteq Runs /\ missed \subseteq Paths

LEMMA InjectiveShort ==
  IsInjective(<<>>) /\ \A p : IsInjective(<<p>>)
BY DEF IsInjective

LEMMA LoopTodo ==
  ASSUME Typed, NEW c \in Procs, NEW paths \in Seq(Paths), Loop(c, paths)
  PROVE  proc'[c].todo = paths /\ \A d \in Procs : d # c => proc'[d] = proc[d]
<1> DEFINE o == [kind |-> proc[c].kind, path |-> proc[c].path, todo |-> paths, at |-> "watch"]
<1>1. CASE paths = <<>>
  BY <1>1, IdleTyped DEF Loop, Typed
<1>2. CASE paths # <<>>
  <2>1. o.todo = paths /\ proc' = [proc EXCEPT ![c] = o]
    BY <1>2 DEF Loop
  <2> HIDE DEF o
  <2> QED  BY <2>1 DEF Typed
<1> QED  BY <1>1, <1>2

LEMMA GotoKeepsOne ==
  ASSUME Typed, OneEach, NEW c \in Procs, NEW at, Goto(c, at), IsInjective(config')
  PROVE  OneEach'
BY GotoFields DEF OneEach

LEMMA ReturnKeepsOne ==
  ASSUME Typed, OneEach, NEW c \in Procs, Return(c), IsInjective(config')
  PROVE  OneEach'
BY ReturnFields, IdleTyped, InjectiveShort DEF OneEach

LEMMA LoopKeepsOne ==
  ASSUME Typed, OneEach, NEW c \in Procs, NEW paths \in Seq(Paths), Loop(c, paths), IsInjective(paths),
         IsInjective(config')
  PROVE  OneEach'
BY LoopTodo DEF OneEach

LEMMA TailKeepsOne ==
  ASSUME Typed, OneEach, NEW c \in Procs, Loop(c, Tail(proc[c].todo)), proc[c].at \in Looping,
         IsInjective(config')
  PROVE  OneEach'
<1>1. proc[c].todo \in Seq(Paths) /\ proc[c].todo # <<>>
  BY CallTyped DEF CallOK
<1>2. Tail(proc[c].todo) \in Seq(Paths) /\ IsInjective(Tail(proc[c].todo))
  BY <1>1, InjectiveTail DEF OneEach
<1> QED  BY <1>2, LoopKeepsOne

LEMMA RequestKeepsOne ==
  ASSUME Typed, OneEach, NEW c \in Procs, NEW o, IsInjective(o.todo), proc' = [proc EXCEPT ![c] = o],
         config' = config
  PROVE  OneEach'
<1>1. \A d \in Procs : proc'[d] = IF d = c THEN o ELSE proc[d]
  BY DEF Typed
<1> QED  BY <1>1 DEF OneEach

LEMMA OneEachStep == WatchInv /\ OneEach /\ [Next]_vars => OneEach'
<1> SUFFICES ASSUME WatchInv, OneEach, [Next]_vars PROVE OneEach'
  OBVIOUS
<1>1. Typed /\ IsInjective(config) /\ config \in Seq(Paths) /\ Main \in Procs
  BY DEF WatchInv, Typed, OneEach, Procs
<1>2. \A s \in Lists : s \in Seq(Paths) /\ IsInjective(s)
  BY PathsAssumption, InjectiveLists DEF Lists
<1>3. CASE LoadConfig
  <2>1. CASE Return(Main) /\ UNCHANGED config
    BY <1>1, <2>1, ReturnKeepsOne
  <2>2. ASSUME NEW s \in Lists, config' = s, Loop(Main, s) PROVE OneEach'
    BY <1>1, <1>2, <2>2, LoopKeepsOne
  <2> QED  BY <1>3, <2>1, <2>2 DEF LoadConfig
<1>4. CASE UNCHANGED <<config, proc>>
  BY <1>4 DEF OneEach
<1>5. ASSUME NEW c \in Procs, AddToRegistry(c) PROVE OneEach'
  <2>1. IsInjective(config')
    BY <1>1, <1>5 DEF AddToRegistry, WatchRoot, FailToWatch, StartRefused, StartAccepted, RaiseFlag, Spawn, watchVars
  <2>2. CASE WatchRoot(c) \/ StartAccepted(c) \/ RaiseFlag(c)
    <3>1. \E at : Goto(c, at)
      BY <2>2 DEF WatchRoot, StartAccepted, RaiseFlag
    <3> QED  BY <1>1, <2>1, <3>1, GotoKeepsOne
  <2>3. CASE FailToWatch(c)
    <3>1. Return(c) \/ (Loop(c, Tail(proc[c].todo)) /\ proc[c].at \in Looping)
      BY <2>3 DEF FailToWatch, Looping
    <3> QED  BY <1>1, <2>1, <3>1, ReturnKeepsOne, TailKeepsOne
  <2>4. CASE StartRefused(c) \/ Spawn(c)
    <3>1. Advance(c) /\ proc[c].at \in Looping
      BY <2>4 DEF StartRefused, Spawn, Looping
    <3>2. Goto(c, "store") \/ Loop(c, Tail(proc[c].todo))
      BY <3>1 DEF Advance
    <3> QED  BY <1>1, <2>1, <3>1, <3>2, GotoKeepsOne, TailKeepsOne
  <2> QED  BY <1>5, <2>2, <2>3, <2>4 DEF AddToRegistry
<1>6. ASSUME NEW c \in Clients, Request(c) PROVE OneEach'
  <2>1. c \in Procs
    BY DEF Procs
  <2>2. ASSUME NEW p \in Paths, RequestAdd(c, p) PROVE OneEach'
    <3> DEFINE o == [kind |-> "add", path |-> p, todo |-> <<p>>, at |-> "watch"]
    <3>1. IsInjective(o.todo) /\ proc' = [proc EXCEPT ![c] = o] /\ config' = config
      BY <2>2, InjectiveShort DEF RequestAdd, watchVars
    <3> HIDE DEF o
    <3> QED  BY <1>1, <2>1, <3>1, RequestKeepsOne
  <2>3. ASSUME NEW p \in Paths, RequestRemove(c, p) PROVE OneEach'
    <3> DEFINE o == [kind |-> "remove", path |-> p, todo |-> <<>>, at |-> "forget"]
    <3>1. IsInjective(o.todo) /\ proc' = [proc EXCEPT ![c] = o] /\ config' = config
      BY <2>3, InjectiveShort DEF RequestRemove, watchVars
    <3> HIDE DEF o
    <3> QED  BY <1>1, <2>1, <3>1, RequestKeepsOne
  <2>4. CASE ResetIndex(c)
    <3> DEFINE o == [kind |-> "reset", path |-> None, todo |-> <<>>, at |-> "list"]
    <3>1. IsInjective(o.todo) /\ proc' = [proc EXCEPT ![c] = o] /\ config' = config
      BY <2>4, InjectiveShort DEF ResetIndex, watchVars
    <3> HIDE DEF o
    <3> QED  BY <1>1, <2>1, <3>1, RequestKeepsOne
  <2>5. CASE FailToReset(c)
    BY <1>4, <2>5 DEF FailToReset, watchVars
  <2> QED  BY <1>6, <2>2, <2>3, <2>4, <2>5 DEF Request
<1>7. ASSUME NEW c \in Clients, Handle(c) PROVE OneEach'
  <2>1. c \in Procs
    BY DEF Procs
  <2>2. CASE StorePath(c)
    <3>1. proc[c].path \in Paths
      BY <1>1, <2>1, <2>2, CallTyped DEF StorePath, CallOK
    <3>2. IsInjective(config')
      BY <1>1, <2>2, <3>1, AppendOnce DEF StorePath, Configured
    <3> QED  BY <1>1, <2>1, <2>2, <3>2, ReturnKeepsOne DEF StorePath
  <2>3. CASE ForgetPath(c)
    <3>1. IsInjective(config')
      BY <1>2, <2>3 DEF ForgetPath
    <3>2. Goto(c, "unwatch") \/ Return(c)
      BY <2>3 DEF ForgetPath
    <3> QED  BY <1>1, <2>1, <3>1, <3>2, GotoKeepsOne, ReturnKeepsOne
  <2>4. CASE UnwatchRoot(c)
    BY <1>1, <2>1, <2>4, ReturnKeepsOne DEF UnwatchRoot
  <2>5. CASE ListPaths(c)
    BY <1>1, <2>1, <2>5, LoopKeepsOne DEF ListPaths, watchVars
  <2> QED  BY <1>7, <2>2, <2>3, <2>4, <2>5 DEF Handle
<1>8. CASE \E r \in Runs : FinishRun(r)
  BY <1>4, <1>8 DEF FinishRun, watchVars
<1>9. CASE Serve \/ UNCHANGED vars
  BY <1>4, <1>9 DEF Serve, vars, watchVars
<1> QED  BY <1>3, <1>5, <1>6, <1>7, <1>8, <1>9 DEF Next

LEMMA RestStep == WatchInv /\ ScanInv /\ RestTyped /\ [Next]_vars => RestTyped'
<1> SUFFICES ASSUME WatchInv, ScanInv, RestTyped, [Next]_vars PROVE RestTyped'
  OBVIOUS
<1>1. Typed /\ RunnerTyped
  BY DEF WatchInv, ScanInv
<1>2. CASE UNCHANGED <<serving, runnerVars, indexVars>>
  BY <1>2 DEF RestTyped, runnerVars, indexVars
<1>3. CASE LoadConfig \/ UNCHANGED vars
  BY <1>2, <1>3 DEF LoadConfig, vars, watchVars
<1>4. CASE Serve
  BY <1>4 DEF Serve, RestTyped, runnerVars, indexVars
<1>5. ASSUME NEW c \in Procs, AddToRegistry(c) PROVE RestTyped'
  <2>1. /\ proc[c].todo \in Seq(Paths) /\ ToSet(proc[c].todo) \subseteq Paths
        /\ proc[c].at \in Looping => Head(proc[c].todo) \in Paths
    BY <1>1, CallTyped, WorkFacts DEF ToDo
  <2>2. CASE WatchRoot(c)
    BY <1>2, <2>2 DEF WatchRoot
  <2>3. CASE FailToWatch(c)
    <3>1. /\ missed' = missed \cup {Head(proc[c].todo)} \/ missed' = missed \cup ToSet(proc[c].todo)
          /\ proc[c].at \in Looping
          /\ UNCHANGED <<serving, runnerVars, dead, indexed, torn>>
      BY <2>3 DEF FailToWatch, Looping
    <3> QED  BY <2>1, <3>1 DEF RestTyped, runnerVars
  <2>4. CASE StartRefused(c) \/ StartAccepted(c)
    <3>1. /\ Runner!LoadFlag(c, Head(proc[c].todo))
          /\ missed' = missed \/ missed' = missed \cup {Head(proc[c].todo)}
          /\ proc[c].at \in Looping
          /\ UNCHANGED <<serving, dead, indexed, torn>>
      BY <2>4 DEF StartRefused, StartAccepted, Looping, watchVars, indexVars
    <3>2. running' = running /\ overlapped' \in BOOLEAN
      BY <3>1 DEF Runner!LoadFlag, Runner!Pass, RestTyped
    <3> QED  BY <2>1, <3>1, <3>2 DEF RestTyped
  <2>5. CASE RaiseFlag(c)
    BY <2>5 DEF RaiseFlag, Runner!RaiseFlag, RestTyped, watchVars, indexVars
  <2>6. CASE Spawn(c)
    BY <2>6 DEF Spawn, Runner!Spawn, RestTyped, watchVars
  <2> QED  BY <1>5, <2>2, <2>3, <2>4, <2>5, <2>6 DEF AddToRegistry
<1>6. ASSUME NEW c \in Clients, Request(c) PROVE RestTyped'
  <2>1. CASE \E p \in Paths : RequestAdd(c, p) \/ RequestRemove(c, p)
    BY <1>2, <2>1 DEF RequestAdd, RequestRemove, watchVars
  <2>2. CASE ResetIndex(c)
    <3>1. \A d \in Clients : proc[d].at = "store" => proc[d].path \in Paths
      BY <1>1, CallTyped DEF CallOK, Procs
    <3>2. /\ torn' = {r \in Runs : run[r] # None} /\ indexed' = {}
          /\ missed' = missed \cup {proc[d].path : d \in {e \in Clients : proc[e].at = "store"}}
          /\ UNCHANGED <<serving, runnerVars, dead>>
      BY <2>2 DEF ResetIndex, watchVars
    <3>3. missed' \subseteq Paths
      BY <3>1, <3>2 DEF RestTyped
    <3> QED  BY <3>2, <3>3 DEF RestTyped, runnerVars
  <2>3. CASE FailToReset(c)
    BY <2>3 DEF FailToReset, RestTyped, watchVars, runnerVars, indexVars
  <2> QED  BY <1>6, <2>1, <2>2, <2>3 DEF Request
<1>7. ASSUME NEW c \in Clients, Handle(c) PROVE RestTyped'
  BY <1>2, <1>7 DEF Handle, StorePath, ForgetPath, UnwatchRoot, ListPaths, watchVars
<1>8. ASSUME NEW r \in Runs, FinishRun(r) PROVE RestTyped'
  <2>1. run[r] \in Paths
    BY <1>1, <1>8 DEF FinishRun, Runner!FinishRun, RunnerTyped
  <2> QED  BY <1>8, <2>1 DEF FinishRun, Runner!FinishRun, RestTyped, watchVars
<1> QED  BY <1>3, <1>4, <1>5, <1>6, <1>7, <1>8 DEF Next

\* The state of all requests keeps its types; no request and no two of them together
\* configure a folder twice, or have it twice in a loop (WatchPaths.Add, ResetIndex and
\* Start).
THEOREM WatchPathsTyped == Spec => []TypeOK
<1>1. WatchInv /\ ScanInv /\ OneEach /\ RestTyped => TypeOK
  <2> SUFFICES ASSUME WatchInv, ScanInv, OneEach, RestTyped PROVE TypeOK
    OBVIOUS
  <2>1. Typed /\ RunnerTyped /\ config \in Seq(Paths) /\ IsInjective(config)
    BY DEF WatchInv, ScanInv, OneEach, Typed
  <2>2. \A s \in Seq(Paths) : IsInjective(s) => s \in Lists
    BY PathsAssumption, InjectiveLists DEF Lists
  <2>3. Runner!FlagTypeOK
    BY <2>1 DEF RunnerTyped, RestTyped, Runner!FlagTypeOK
  <2> DEFINE Works == [kind : {"add", "remove", "reset", "startup"},
                       path : Paths \cup {None}, todo : Lists,
                       at : {"load", "watch", "start", "raise", "spawn", "store",
                             "forget", "unwatch", "list"}]
  <2>4. ASSUME NEW c \in Procs, proc[c].kind # "none" PROVE proc[c] \in Works
    <3>1. /\ proc[c] \in [kind : Kinds, path : Paths \cup {None}, todo : Seq(Paths), at : Places]
          /\ CallOK(proc[c])
      BY <2>1 DEF Typed, Calls
    <3>2. proc[c].todo \in Lists
      BY <2>2, <3>1 DEF OneEach
    <3>3. proc[c].at # "idle"
      BY <2>4, <3>1 DEF CallOK
    <3>4. /\ proc[c].kind \in {"add", "remove", "reset", "startup"}
          /\ proc[c].at \in {"load", "watch", "start", "raise", "spawn", "store", "forget", "unwatch", "list"}
      BY <2>4, <3>1, <3>3 DEF Kinds, Places, Looping
    <3> QED  BY <3>1, <3>2, <3>4
  <2> HIDE DEF Works
  <2>5. ASSUME NEW c \in Procs, proc[c].kind = "none" PROVE proc[c] = Idle
    <3>1. /\ proc[c] \in [kind : Kinds, path : Paths \cup {None}, todo : Seq(Paths), at : Places]
          /\ CallOK(proc[c])
      BY <2>1 DEF Typed, Calls
    <3>2. proc[c].kind = "none" /\ proc[c].path = None /\ proc[c].todo = <<>> /\ proc[c].at = "idle"
      BY <2>5, <3>1 DEF CallOK
    <3> QED  BY <3>1, <3>2 DEF Idle
  <2> QED  BY <2>1, <2>2, <2>3, <2>4, <2>5 DEF TypeOK, Works, RestTyped, Typed
<1>2. Init => OneEach /\ RestTyped
  <2> SUFFICES ASSUME Init PROVE OneEach /\ RestTyped
    OBVIOUS
  <2>1. Starting.todo = <<>> /\ Idle.todo = <<>> /\ config = <<>>
    BY DEF Init, Starting, Idle
  <2>2. \A c \in Procs : proc[c] = Starting \/ proc[c] = Idle
    BY DEF Init
  <2>3. OneEach
    BY <2>1, <2>2, InjectiveShort DEF OneEach
  <2>4. RestTyped
    BY DEF Init, RestTyped, Runner!FlagInit
  <2> QED  BY <2>3, <2>4
<1> QED  BY <1>1, <1>2, WatchInit, ScanInit, WatchStep, ScanStep, OneEachStep, RestStep, PTL DEF Spec

-----------------------------------------------------------------------------
(* The scans. *)

LEMMA RunnerKept == UNCHANGED runnerVars => UNCHANGED Runner!flagVars
BY DEF runnerVars, Runner!flagVars

LEMMA RunnerStep == WatchInv /\ [Next]_vars => [Runner!FlagNext]_(Runner!flagVars)
<1> SUFFICES ASSUME WatchInv, [Next]_vars PROVE Runner!FlagNext \/ UNCHANGED runnerVars
  BY RunnerKept
<1>1. CASE LoadConfig \/ Serve \/ UNCHANGED vars
  BY <1>1 DEF LoadConfig, Serve, vars
<1>2. ASSUME NEW c \in Procs, AddToRegistry(c) PROVE Runner!FlagNext \/ UNCHANGED runnerVars
  <2>1. CASE WatchRoot(c) \/ FailToWatch(c)
    BY <2>1 DEF WatchRoot, FailToWatch
  <2>2. CASE StartRefused(c) \/ StartAccepted(c)
    <3>1. Runner!LoadFlag(c, Head(proc[c].todo)) /\ proc[c].at \in Looping
      BY <2>2 DEF StartRefused, StartAccepted, Looping
    <3>2. Head(proc[c].todo) \in Paths
      BY <3>1, CallTyped, WorkFacts DEF WatchInv, ToDo
    <3> QED  BY <3>1, <3>2 DEF Runner!FlagNext, Runner!Start
  <2>3. CASE RaiseFlag(c)
    BY <2>3 DEF RaiseFlag, Runner!FlagNext, Runner!Start
  <2>4. CASE Spawn(c)
    BY <2>4 DEF Spawn, Runner!FlagNext, Runner!Start
  <2> QED  BY <1>2, <2>1, <2>2, <2>3, <2>4 DEF AddToRegistry
<1>3. ASSUME NEW c \in Clients, Request(c) \/ Handle(c) PROVE UNCHANGED runnerVars
  BY <1>3 DEF Request, RequestAdd, RequestRemove, ResetIndex, FailToReset,
              Handle, StorePath, ForgetPath, UnwatchRoot, ListPaths
<1>4. ASSUME NEW r \in Runs, FinishRun(r) PROVE Runner!FlagNext
  BY <1>4 DEF FinishRun, Runner!FlagNext
<1> QED  BY <1>1, <1>2, <1>3, <1>4 DEF Next

\* Whatever main, the handlers and the failures do, the calls of Start and the ends of
\* scans that come of it are a behaviour of IndexRunner: its safety properties hold
\* here as they hold there (Registry.AddPath, IndexRunner.Start).
THEOREM ScansFollowRunner == Spec => Runner!FlagSafetySpec
<1>1. Init => Runner!FlagInit
  BY DEF Init
<1> QED  BY <1>1, RunnerStep, WatchInit, WatchStep, PTL DEF Spec, Runner!FlagSafetySpec
==============================================================================
