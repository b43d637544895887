--------------------------- MODULE WatchTreeProof ---------------------------
(***************************************************************************)
(* Proofs about WatchTree for any tree of directories, any number of       *)
(* requests and of changes.                                                *)
(***************************************************************************)
EXTENDS WatchTree, SequenceLemmas

\* At "visit" a walk has no directory in hand, at "watch" it has one.
WalkOK(w) == /\ w.at = "visit" => w.names = {} /\ w.dir = None
             /\ w.at = "watch" => w.dir \in Dirs
Typed == /\ TypeOK
         /\ \A p \in Procs : WalkOK(walk[p])
         /\ \A c \in Clients : walk[c].root \in Roots \cup {None}

\* A directory is watched, will be, or is known to be lost.
Held(d) == Followed(d) \/ d \in lost

\* What is in a directory that is watched, or about to be, is held itself; and so
\* are the folders at the top.
Open(d) == d \in watched \/ \E p \in Procs : walk[p].at = "watch" /\ walk[p].dir = d
ChildrenHeld == \A d \in exists : Parent[d] # None /\ Open(Parent[d]) => Held(d)
RootsHeld == \A d \in exists : d \in configured \/ (\E p \in Procs : walk[p].root = d) => Held(d)

HeldInv == Typed /\ ChildrenHeld /\ RootsHeld

\* Every directory that is watched, or that somebody is on the way to, is wanted,
\* or is of a folder being added, or was left behind.
Meant(d) == \/ Wanted(d) \/ Below(stray, d)
            \/ \E c \in Clients : walk[c].root \in Chain[d]
MeantInv == \A d \in Dirs : Followed(d) => Meant(d)

-----------------------------------------------------------------------------
(* The tree. *)

LEMMA ChainTyped ==
  ASSUME NEW d \in Dirs
  PROVE  /\ Chain[d] \subseteq Dirs /\ d \in Chain[d]
         /\ Parent[d] # None => Parent[d] \in Dirs /\ Parent[d] \in Chain[d]
BY TreeAssumption

\* By induction on the number of directories above: what is above a directory that
\* is above d is above d, and of directories above d one is above the others.
Nested(d) == \A e \in Chain[d] : Chain[e] \subseteq Chain[d]
HasTop(S) == \E top \in S : \A e \in S : top \in Chain[e]
Ordered(d) == Nested(d) /\ \A S \in SUBSET Chain[d] : S # {} => HasTop(S)

LEMMA OrderedDown ==
  ASSUME NEW d \in Dirs, Parent[d] # None => Ordered(Parent[d])
  PROVE  Ordered(d)
<1>1. CASE Parent[d] = None
  <2>1. Chain[d] = {d}
    BY <1>1, TreeAssumption
  <2>2. Nested(d)
    BY <2>1 DEF Nested
  <2>3. ASSUME NEW S \in SUBSET Chain[d], S # {} PROVE HasTop(S)
    <3>1. S = {d}
      BY <2>1, <2>3
    <3> QED  BY <2>1, <3>1 DEF HasTop
  <2> QED  BY <2>2, <2>3 DEF Ordered
<1>2. CASE Parent[d] # None
  <2>1. Chain[d] = {d} \cup Chain[Parent[d]] /\ Ordered(Parent[d])
    BY <1>2, TreeAssumption
  <2>2. Nested(d)
    BY <2>1 DEF Nested, Ordered
  <2>3. ASSUME NEW S \in SUBSET Chain[d], S # {} PROVE HasTop(S)
    <3>1. CASE S \cap Chain[Parent[d]] # {}
      <4>1. HasTop(S \cap Chain[Parent[d]])
        BY <2>1, <3>1 DEF Ordered
      <4>2. PICK top \in S \cap Chain[Parent[d]] : \A e \in S \cap Chain[Parent[d]] : top \in Chain[e]
        BY <4>1 DEF HasTop
      <4>3. \A e \in S : top \in Chain[e]
        BY <2>1, <4>2
      <4> QED  BY <4>2, <4>3 DEF HasTop
    <3>2. CASE S \cap Chain[Parent[d]] = {}
      <4>1. S = {d}
        BY <2>1, <2>3, <3>2
      <4> QED  BY <2>1, <4>1 DEF HasTop
    <3> QED  BY <3>1, <3>2
  <2> QED  BY <2>2, <2>3 DEF Ordered
<1> QED  BY <1>1, <1>2

LEMMA ChainsAreOrdered == \A d \in Dirs : Ordered(d)
<1> DEFINE T == {n \in Nat : \A d \in Dirs : Cardinality(Chain[d]) <= n => Ordered(d)}
<1>1. \A d \in Dirs : Cardinality(Chain[d]) \in Nat /\ Cardinality(Chain[d]) # 0
  <2> SUFFICES ASSUME NEW d \in Dirs PROVE Cardinality(Chain[d]) \in Nat /\ Cardinality(Chain[d]) # 0
    OBVIOUS
  <2>1. IsFiniteSet(Chain[d]) /\ Chain[d] # {}
    BY ChainTyped, TreeAssumption
  <2> QED  BY <2>1, FS_CardinalityType, FS_EmptySet
<1>2. 0 \in T
  BY <1>1
<1>3. ASSUME NEW n \in Nat, n \in T PROVE n + 1 \in T
  <2> SUFFICES ASSUME NEW d \in Dirs, Cardinality(Chain[d]) <= n + 1 PROVE Ordered(d)
    OBVIOUS
  <2>1. ASSUME Parent[d] # None PROVE Ordered(Parent[d])
    <3>1. /\ Parent[d] \in Dirs /\ Chain[Parent[d]] \subseteq Chain[d]
          /\ d \in Chain[d] /\ d \notin Chain[Parent[d]] /\ IsFiniteSet(Chain[d])
      BY <2>1, ChainTyped, TreeAssumption
    <3>2. /\ Cardinality(Chain[Parent[d]]) <= Cardinality(Chain[d])
          /\ Cardinality(Chain[Parent[d]]) = Cardinality(Chain[d]) => Chain[Parent[d]] = Chain[d]
      BY <3>1, FS_Subset
    <3>3. Cardinality(Chain[Parent[d]]) <= n
      BY <1>1, <3>1, <3>2
    <3> QED  BY <1>3, <3>1, <3>3
  <2> QED  BY <2>1, OrderedDown
<1>4. T = Nat
  <2> HIDE DEF T
  <2>1. T \in SUBSET Nat
    BY DEF T
  <2> QED  BY <1>2, <1>3, <2>1, NatSetInduction
<1> QED  BY <1>1, <1>4

LEMMA ChainNested ==
  ASSUME NEW d \in Dirs, NEW e \in Chain[d]
  PROVE  e \in Dirs /\ Chain[e] \subseteq Chain[d]
BY ChainTyped, ChainsAreOrdered DEF Ordered, Nested

LEMMA ParentAbove ==
  ASSUME NEW d \in Dirs, Parent[d] # None
  PROVE  /\ Parent[d] \in Dirs /\ Parent[d] \in Chain[d] /\ d \notin Chain[Parent[d]]
         /\ \A x \in Chain[d] : x # d => x \in Chain[Parent[d]]
BY ChainTyped, TreeAssumption

LEMMA Topmost ==
  ASSUME NEW d \in Dirs, NEW S, S \subseteq Chain[d], S # {}
  PROVE  \E top \in S : \A e \in S : top \in Chain[e]
BY ChainsAreOrdered DEF Ordered, HasTop

\* One step down from x, on the way to d.
LEMMA StepDown ==
  ASSUME NEW d \in Dirs, NEW x \in Chain[d], x # d
  PROVE  \E f \in Chain[d] : f \in Dirs /\ Parent[f] = x
<1> DEFINE S == {y \in Chain[d] : x \in Chain[y] /\ y # x}
<1>1. d \in S /\ S \subseteq Chain[d]
  BY ChainTyped
<1> HIDE DEF S
<1>2. PICK top \in S : \A e \in S : top \in Chain[e]
  BY <1>1, Topmost
<1> USE DEF S
<1>3. top \in Dirs /\ x \in Chain[top] /\ x # top /\ top \in Chain[d]
  BY <1>2, ChainTyped
<1>4. Parent[top] # None /\ x \in Chain[Parent[top]]
  BY <1>3, TreeAssumption
<1>5. Parent[top] \in Dirs /\ Parent[top] \in Chain[d] /\ top \notin Chain[Parent[top]]
  BY <1>3, <1>4, ParentAbove, ChainNested
<1>6. Parent[top] \notin S
  BY <1>2, <1>5
<1> QED  BY <1>3, <1>4, <1>5, <1>6

\* Who is on the way to a directory is on the way to those in it, unless it has the
\* directory in hand.
LEMMA BelowNested ==
  ASSUME NEW d \in Dirs, NEW e \in Chain[d], NEW S
  PROVE  Below(S, e) => Below(S, d)
BY ChainNested DEF Below

LEMMA AnnouncedNested ==
  ASSUME NEW d \in Dirs, NEW e \in Chain[d]
  PROVE  Announced(e) => Announced(d)
BY ChainNested DEF Announced

\* TreeFollowed follows: between a folder at the top and a directory in it there
\* would be a highest one that is not held.
LEMMA HeldIsFollowed == HeldInv => TreeFollowed
<1> SUFFICES ASSUME HeldInv, NEW d \in exists, Wanted(d), ~Below(lost, d), ~Followed(d)
             PROVE  FALSE
  BY DEF TreeFollowed
<1>0. d \in Dirs /\ Chain[d] \subseteq exists /\ exists \subseteq Dirs
  BY DEF HeldInv, Typed, TypeOK
<1>1. PICK r \in Chain[d] : r \in configured
  BY DEF Wanted, Below
<1>2. \A x \in Chain[d] : x \notin lost
  BY DEF Below
<1> DEFINE S == {x \in Chain[d] : r \in Chain[x] /\ ~Followed(x)}
<1>3. d \in S
  BY <1>0, <1>1, ChainTyped
<1> HIDE DEF S
<1>4. PICK top \in S : \A e \in S : top \in Chain[e]
  <2>1. S \subseteq Chain[d]
    BY DEF S
  <2> QED  BY <1>0, <1>3, <2>1, Topmost
<1> USE DEF S
<1>5. top \in exists /\ top \in Dirs /\ r \in Chain[top] /\ top \in Chain[d] /\ ~Followed(top)
  BY <1>0, <1>4
<1>6. top # r
  BY <1>1, <1>2, <1>5 DEF HeldInv, RootsHeld, Held
<1>7. Parent[top] # None /\ r \in Chain[Parent[top]]
  BY <1>5, <1>6, TreeAssumption
<1> DEFINE up == Parent[top]
<1>8. up \in Dirs /\ up \in Chain[top] /\ up \in Chain[d] /\ top \notin Chain[up]
  <2>1. up \in Dirs /\ up \in Chain[top] /\ top \notin Chain[up]
    BY <1>5, <1>7, ParentAbove
  <2> QED  BY <1>0, <1>5, <2>1, ChainNested
<1>9. Followed(up)
  BY <1>4, <1>7, <1>8
<1>10. ~Open(up)
  BY <1>2, <1>5, <1>7 DEF HeldInv, ChildrenHeld, Held
<1>11. Announced(up) \/ \E p \in Procs : Below(walk[p].todo \cup walk[p].names, up)
  BY <1>9, <1>10 DEF Followed, Due, Visited, Open
<1> HIDE DEF up
<1>12. Announced(top) \/ \E p \in Procs : Below(walk[p].todo \cup walk[p].names, top)
  BY <1>5, <1>8, <1>11, AnnouncedNested, BelowNested
<1> QED  BY <1>5, <1>12 DEF Followed, Due, Visited

-----------------------------------------------------------------------------
(* Queue and walks. *)

LEMMA AnnouncedAppend ==
  ASSUME queue \in Seq(Dirs), NEW d \in Dirs, queue' = Append(queue, d), NEW x \in Dirs
  PROVE  Announced(x)' <=> Announced(x) \/ d \in Chain[x]
BY DEF Announced

LEMMA AnnouncedTail ==
  ASSUME queue \in Seq(Dirs), queue # << >>, queue' = Tail(queue), NEW x \in Dirs
  PROVE  /\ Announced(x)' => Announced(x)
         /\ Announced(x) => Announced(x)' \/ Head(queue) \in Chain[x]
         /\ Head(queue) \in Chain[x] => Announced(x)
         /\ Head(queue) \in Dirs /\ queue' \in Seq(Dirs)
<1>1. /\ Head(queue) \in Dirs /\ Tail(queue) \in Seq(Dirs)
      /\ Len(queue) \in Nat \ {0} /\ Len(Tail(queue)) = Len(queue) - 1
      /\ \A i \in 1..Len(Tail(queue)) : Tail(queue)[i] = queue[i + 1]
      /\ Head(queue) = queue[1]
      /\ DOMAIN queue = 1..Len(queue) /\ DOMAIN Tail(queue) = 1..Len(Tail(queue))
  BY HeadTailProperties, LenProperties, EmptySeq
<1>2. Announced(x)' => Announced(x)
  <2> SUFFICES ASSUME NEW i \in DOMAIN queue', queue'[i] \in Chain[x] PROVE Announced(x)
    BY DEF Announced
  <2>1. i + 1 \in DOMAIN queue /\ queue[i + 1] \in Chain[x]
    BY <1>1
  <2> QED  BY <2>1 DEF Announced
<1>3. Announced(x) => Announced(x)' \/ Head(queue) \in Chain[x]
  <2> SUFFICES ASSUME NEW i \in DOMAIN queue, queue[i] \in Chain[x], i # 1 PROVE Announced(x)'
    BY <1>1 DEF Announced
  <2>1. i - 1 \in DOMAIN queue' /\ queue'[i - 1] = queue[i]
    BY <1>1
  <2> QED  BY <2>1 DEF Announced
<1> QED  BY <1>1, <1>2, <1>3 DEF Announced

\* A walk is on its way to x.
OnWay(w, x) == Below(w.todo \cup w.names, x) \/ (w.at = "watch" /\ w.dir = x)

LEMMA OneWalkChanges ==
  ASSUME walk \in [Procs -> Walks], NEW p \in Procs, NEW w, walk' = [walk EXCEPT ![p] = w], NEW x
  PROVE  /\ Visited(x) <=> OnWay(walk[p], x) \/ \E q \in Procs \ {p} : OnWay(walk[q], x)
         /\ Visited(x)' <=> OnWay(w, x) \/ \E q \in Procs \ {p} : OnWay(walk[q], x)
<1>1. \A q \in Procs : walk'[q] = IF q = p THEN w ELSE walk[q]
  OBVIOUS
<1>2. Visited(x) <=> \E q \in Procs : OnWay(walk[q], x)
  BY DEF Visited, OnWay
<1>3. Visited(x)' <=> \E q \in Procs : OnWay(walk'[q], x)
  BY DEF Visited, OnWay, Below
<1> QED  BY <1>1, <1>2, <1>3

\* The walks a step can leave behind.
LEMMA IdleTyped ==
  /\ Idle \in Walks /\ WalkOK(Idle) /\ Idle.root = None /\ Idle.at = "idle"
  /\ \A x : ~OnWay(Idle, x)
BY DEF Idle, Walks, WalkOK, OnWay, Below

LEMMA WalkOfTyped ==
  ASSUME NEW d \in Dirs
  PROVE  /\ WalkOf(d) \in Walks /\ WalkOK(WalkOf(d))
         /\ WalkOf(d).at = "visit" /\ WalkOf(d).root = d
         /\ \A x \in Dirs : OnWay(WalkOf(d), x) <=> d \in Chain[x]
<1>1. WalkOf(d) \in Walks /\ WalkOK(WalkOf(d)) /\ WalkOf(d).at = "visit" /\ WalkOf(d).root = d
  BY DEF WalkOf, Visiting, Walks, WalkOK
<1>2. WalkOf(d).todo \cup WalkOf(d).names = {d}
  BY DEF WalkOf, Visiting
<1> QED  BY <1>1, <1>2 DEF OnWay, Below

\* What a walk that is not idle has.
LEMMA WalkTyped ==
  ASSUME Typed, NEW p \in Procs, walk[p].at # "idle"
  PROVE  /\ walk[p].at \in {"visit", "watch"} /\ walk[p].root \in Dirs
         /\ walk[p].todo \subseteq Dirs /\ walk[p].names \subseteq Dirs
         /\ walk[p] = [at |-> walk[p].at, root |-> walk[p].root, todo |-> walk[p].todo,
                       dir |-> walk[p].dir, names |-> walk[p].names]
         /\ walk[p].at = "visit" => walk[p].names = {} /\ walk[p].dir = None
         /\ walk[p].at = "watch" => walk[p].dir \in Dirs
BY DEF Typed, TypeOK, Walks, Idle, WalkOK

\* A step that leaves the tree alone.
LEMMA HeldKept ==
  ASSUME HeldInv, Typed', exists' = exists,
         \A d \in exists : Held(d) => Held(d)',
         \A d \in Dirs : Open(d)' => Open(d) \/ \A f \in exists : Parent[f] = d => Held(f)',
         \A d \in exists : d \in configured' \/ (\E p \in Procs : walk'[p].root = d)
            => d \in configured \/ (\E p \in Procs : walk[p].root = d) \/ Held(d)'
  PROVE  HeldInv'
<1>1. exists \subseteq Dirs
  BY DEF HeldInv, Typed, TypeOK
<1>2. ChildrenHeld'
  <2> SUFFICES ASSUME NEW f \in exists, Parent[f] # None, Open(Parent[f])'
               PROVE  Held(f)'
    BY DEF ChildrenHeld
  <2>1. Parent[f] \in Dirs
    BY <1>1, ChainTyped
  <2> QED  BY <2>1 DEF HeldInv, ChildrenHeld
<1>3. RootsHeld'
  BY DEF HeldInv, RootsHeld
<1> QED  BY <1>2, <1>3 DEF HeldInv
\* How a goroutine that changes its walk changes what is typed.
LEMMA WalkChangeTyped ==
  ASSUME Typed, NEW p \in Procs, NEW w \in Walks, WalkOK(w), walk' = [walk EXCEPT ![p] = w],
         w.root \in {None, walk[p].root} \cup Roots \/ p = Handler,
         exists' = exists, edits' = edits, watched' \subseteq exists, queue' \in Seq(Dirs),
         configured' \subseteq Roots, lost' \subseteq Dirs, stray' \subseteq Dirs
  PROVE  /\ Typed'
         /\ \A q \in Procs : walk'[q] = IF q = p THEN w ELSE walk[q]
<1>1. walk' \in [Procs -> Walks] /\ \A q \in Procs : walk'[q] = IF q = p THEN w ELSE walk[q]
  BY DEF Typed, TypeOK
<1>2. \A c \in Clients : walk'[c].root \in Roots \cup {None}
  <2>1. \A c \in Clients : c \in Procs /\ c # Handler /\ walk[c].root \in Roots \cup {None}
    BY ProcsAssumption DEF Procs, Typed
  <2> QED  BY <1>1, <2>1
<1> QED  BY <1>1, <1>2 DEF Typed, TypeOK

-----------------------------------------------------------------------------
(* Each action keeps HeldInv. *)

LEMMA AbortKeeps ==
  ASSUME HeldInv, NEW p \in Procs, walk[p].at = "visit", Abort(p),
         UNCHANGED <<treeVars, watched, queue, configured>>
  PROVE  HeldInv'
<1>1. /\ walk' = [walk EXCEPT ![p] = Idle] /\ exists \subseteq Dirs
      /\ lost' = lost \cup {d \in exists \ watched : Below(walk[p].todo, d) /\ ~Announced(d)}
      /\ UNCHANGED <<exists, edits, watched, queue, configured>>
      /\ stray' \subseteq Dirs /\ walk \in [Procs -> Walks]
  BY DEF Abort, treeVars, HeldInv, Typed, TypeOK
<1>2. /\ Typed'
      /\ \A q \in Procs : walk'[q] = IF q = p THEN Idle ELSE walk[q]
  BY <1>1, IdleTyped, WalkChangeTyped DEF HeldInv, Typed, TypeOK
<1>3. ASSUME NEW d \in exists, Held(d)
      PROVE  Held(d)'
  <2>1. OnWay(walk[p], d) => Below(walk[p].todo, d)
    BY WalkTyped DEF OnWay, HeldInv
  <2>2. Visited(d) /\ ~OnWay(walk[p], d) => Visited(d)'
    BY <1>1, OneWalkChanges
  <2>3. Announced(d)' <=> Announced(d)
    BY <1>1 DEF Announced
  <2> QED  BY <1>1, <1>3, <2>1, <2>2, <2>3 DEF Held, Followed, Due
<1>4. \A d \in Dirs : Open(d)' => Open(d)
  BY <1>1, <1>2, IdleTyped DEF Open
<1>5. \A d \in exists : (\E q \in Procs : walk'[q].root = d) => \E q \in Procs : walk[q].root = d
  <2>1. None \notin exists
    BY <1>1, TreeAssumption
  <2> QED  BY <1>2, <2>1, IdleTyped
<1> QED  BY <1>1, <1>2, <1>3, <1>4, <1>5, HeldKept

\* The names of a directory are read: its children that exist are on the list, and
\* through them all that is in it.
LEMMA VisitKeeps ==
  ASSUME HeldInv, NEW p \in Procs, Visit(p)
  PROVE  HeldInv'
<1>0. walk[p].at = "visit" /\ UNCHANGED <<exists, edits, watched, queue, configured>>
  BY DEF Visit, treeVars
<1>1. PICK d \in walk[p].todo :
        \/ /\ d \in exists
           /\ walk' = [walk EXCEPT ![p] = Watching(@, d, Children(d) \cap exists)]
           /\ UNCHANGED history
        \/ d \notin exists /\ Abort(p)
  BY DEF Visit
<1>2. CASE d \notin exists /\ Abort(p)
  BY <1>0, <1>2, AbortKeeps DEF Visit
<1>3. CASE d \in exists /\ ~(d \notin exists /\ Abort(p))
  <2> DEFINE w == [at |-> "watch", root |-> walk[p].root, todo |-> walk[p].todo \ {d}, dir |-> d,
                   names |-> Children(d) \cap exists]
  <2>0. /\ walk \in [Procs -> Walks] /\ exists \subseteq Dirs /\ d \in Dirs
        /\ walk[p].at \in {"visit", "watch"} /\ walk[p].root \in Dirs /\ walk[p].todo \subseteq Dirs
        /\ walk[p].names = {}
    BY <1>0, <1>3, WalkTyped DEF HeldInv, Typed, TypeOK
  <2>1. walk' = [walk EXCEPT ![p] = w] /\ UNCHANGED <<lost, stray>>
    BY <1>1, <1>3 DEF history, Watching
  <2>2. w \in Walks /\ WalkOK(w)
    BY <2>0 DEF Walks, WalkOK
  <2>3. w.at = "watch" /\ w.root = walk[p].root /\ w.dir = d
        /\ \A x : OnWay(w, x) <=> Below(walk[p].todo \ {d}, x) \/ Below(Children(d) \cap exists, x)
                                  \/ x = d
    <3>1. w.todo \cup w.names = (walk[p].todo \ {d}) \cup (Children(d) \cap exists)
      OBVIOUS
    <3> QED  BY <3>1 DEF OnWay, Below
  <2> HIDE DEF w
  <2>4. /\ Typed'
        /\ \A q \in Procs : walk'[q] = IF q = p THEN w ELSE walk[q]
    BY <1>0, <2>1, <2>2, <2>3, WalkChangeTyped DEF HeldInv, Typed, TypeOK
  <2>5. ASSUME NEW x \in exists, OnWay(walk[p], x)
        PROVE  OnWay(w, x)
    <3>1. Below(walk[p].todo, x) /\ x \in Dirs /\ Chain[x] \subseteq exists
      BY <1>0, <2>0, <2>5 DEF OnWay, HeldInv, Typed, TypeOK
    <3>2. CASE d \in Chain[x] /\ d # x
      <4>1. PICK f \in Chain[x] : f \in Dirs /\ Parent[f] = d
        BY <3>1, <3>2, StepDown
      <4>2. f \in Children(d) \cap exists
        BY <3>1, <4>1 DEF Children
      <4> QED  BY <2>3, <4>2 DEF Below
    <3>3. CASE d \notin Chain[x] \/ d = x
      BY <2>3, <3>1, <3>3 DEF Below
    <3> QED  BY <3>2, <3>3
  <2>6. ASSUME NEW x \in exists, Held(x)
        PROVE  Held(x)'
    <3>1. Visited(x) => Visited(x)'
      BY <2>0, <2>1, <2>5, OneWalkChanges
    <3>2. Announced(x)' <=> Announced(x)
      BY <1>0 DEF Announced
    <3> QED  BY <1>0, <2>1, <2>6, <3>1, <3>2 DEF Held, Followed, Due
  <2>7. \A f \in exists : Parent[f] = d => Held(f)'
    <3> SUFFICES ASSUME NEW f \in exists, Parent[f] = d PROVE Held(f)'
      OBVIOUS
    <3>1. f \in Children(d) \cap exists /\ f \in Chain[f]
      BY <2>0, ChainTyped DEF Children
    <3>2. OnWay(w, f)
      BY <2>3, <3>1 DEF Below
    <3>3. Visited(f)'
      BY <2>0, <2>1, <3>2, OneWalkChanges
    <3> QED  BY <3>3 DEF Held, Followed, Due
  <2>8. \A e \in Dirs : Open(e)' => Open(e) \/ e = d
    BY <1>0, <2>3, <2>4 DEF Open
  <2>9. \A e \in exists : (\E q \in Procs : walk'[q].root = e) => \E q \in Procs : walk[q].root = e
    BY <2>3, <2>4
  <2> QED  BY <1>0, <2>4, <2>6, <2>7, <2>8, <2>9, HeldKept
<1> QED  BY <1>1, <1>2, <1>3

LEMMA FailToVisitKeeps ==
  ASSUME HeldInv, NEW p \in Procs, FailToVisit(p)
  PROVE  HeldInv'
BY AbortKeeps DEF FailToVisit
\* What is in the directory in hand is on the list when the walk goes on.
LEMMA AddWatchKeeps ==
  ASSUME HeldInv, NEW p \in Procs, AddWatch(p)
  PROVE  HeldInv'
<1> DEFINE d == walk[p].dir
           w == Visiting(walk[p].root, walk[p].todo \cup walk[p].names)
<1>1. /\ walk[p].at = "watch" /\ d \in Dirs /\ exists \subseteq Dirs
      /\ walk[p].root \in Dirs /\ walk[p].todo \subseteq Dirs /\ walk[p].names \subseteq Dirs
      /\ walk \in [Procs -> Walks] /\ walk' = [walk EXCEPT ![p] = w]
      /\ UNCHANGED <<exists, edits, queue, configured, stray>>
  BY WalkTyped DEF AddWatch, GoOn, treeVars, HeldInv, Typed, TypeOK
<1>2. /\ watched \subseteq watched' /\ watched' \subseteq watched \cup {d} /\ watched' \subseteq exists
      /\ lost \subseteq lost' \cup watched' /\ lost' \subseteq Dirs
      /\ d \in watched' \/ d \in lost'
  BY <1>1 DEF AddWatch, HeldInv, Typed, TypeOK
<1>3. /\ w \in Walks /\ WalkOK(w) /\ w.root = walk[p].root /\ w.at = "visit"
      /\ w.todo \cup w.names = walk[p].todo \cup walk[p].names
  BY <1>1 DEF Visiting, Walks, WalkOK
<1>4. \A x : OnWay(walk[p], x) <=> OnWay(w, x) \/ x = d
  BY <1>1, <1>3 DEF OnWay
<1> HIDE DEF w
<1>5. /\ Typed'
      /\ \A q \in Procs : walk'[q] = IF q = p THEN w ELSE walk[q]
  BY <1>1, <1>2, <1>3, WalkChangeTyped DEF HeldInv, Typed, TypeOK
<1>6. ASSUME NEW x \in exists, Held(x)
      PROVE  Held(x)'
  <2>1. Visited(x) => Visited(x)' \/ x = d
    BY <1>1, <1>4, OneWalkChanges
  <2>2. Announced(x)' <=> Announced(x)
    BY <1>1 DEF Announced
  <2> QED  BY <1>2, <1>6, <2>1, <2>2 DEF Held, Followed, Due
<1>7. \A e \in Dirs : Open(e)' => Open(e)
  BY <1>1, <1>2, <1>3, <1>5 DEF Open
<1>8. \A e \in exists : (\E q \in Procs : walk'[q].root = e) => \E q \in Procs : walk[q].root = e
  BY <1>3, <1>5
<1> QED  BY <1>1, <1>5, <1>6, <1>7, <1>8, HeldKept

\* A folder that was added was held while it was walked.
LEMMA FinishKeeps ==
  ASSUME HeldInv, NEW p \in Procs, Finish(p)
  PROVE  HeldInv'
<1>1. /\ walk[p].at = "visit" /\ walk[p].todo = {} /\ walk' = [walk EXCEPT ![p] = Idle]
      /\ UNCHANGED <<exists, edits, watched, queue, lost>>
      /\ walk \in [Procs -> Walks] /\ exists \subseteq Dirs
      /\ walk[p].root \in Dirs /\ walk[p].names = {}
  BY WalkTyped DEF Finish, treeVars, HeldInv, Typed, TypeOK
<1>2. /\ configured' \subseteq configured \cup {walk[p].root}
      /\ stray' \subseteq Dirs
  BY DEF Finish, HeldInv, Typed, TypeOK
<1>3. p # Handler => walk[p].root \in Roots
  BY <1>1, TreeAssumption DEF HeldInv, Typed, Procs
<1>4. p = Handler => configured' = configured /\ stray' = stray
  BY DEF Finish
<1>5. configured' \subseteq Roots
  BY <1>2, <1>3, <1>4 DEF HeldInv, Typed, TypeOK
<1>6. /\ Typed'
      /\ \A q \in Procs : walk'[q] = IF q = p THEN Idle ELSE walk[q]
  BY <1>1, <1>2, <1>5, IdleTyped, WalkChangeTyped DEF HeldInv, Typed, TypeOK
<1>7. ASSUME NEW x \in exists, Held(x)
      PROVE  Held(x)'
  <2>1. ~OnWay(walk[p], x)
    BY <1>1 DEF OnWay, Below
  <2>2. Visited(x) => Visited(x)'
    BY <1>1, <2>1, OneWalkChanges
  <2>3. Announced(x)' <=> Announced(x)
    BY <1>1 DEF Announced
  <2> QED  BY <1>1, <1>7, <2>2, <2>3 DEF Held, Followed, Due
<1>8. \A e \in Dirs : Open(e)' => Open(e)
  BY <1>1, <1>6, IdleTyped DEF Open
<1>9. \A e \in exists : e \in configured' \/ (\E q \in Procs : walk'[q].root = e)
        => e \in configured \/ \E q \in Procs : walk[q].root = e
  <2>1. None \notin exists
    BY <1>1, TreeAssumption
  <2> QED  BY <1>2, <1>6, <2>1, IdleTyped
<1> QED  BY <1>1, <1>6, <1>7, <1>8, <1>9, HeldKept

\* The event of a directory that is gone was about nothing that exists.
LEMMA HandleEventKeeps ==
  ASSUME HeldInv, HandleEvent
  PROVE  HeldInv'
<1>0. \E d \in Dirs : d = Head(queue)
  BY HeadTailProperties DEF HandleEvent, HeldInv, Typed, TypeOK
<1> PICK d \in Dirs : d = Head(queue)
  BY <1>0
<1>1. /\ walk[Handler] = Idle /\ queue # << >> /\ queue' = Tail(queue) /\ queue \in Seq(Dirs)
      /\ walk' = IF d \in exists THEN [walk EXCEPT ![Handler] = WalkOf(d)] ELSE walk
      /\ UNCHANGED <<exists, edits, watched, configured, lost, stray>>
      /\ walk \in [Procs -> Walks] /\ exists \subseteq Dirs /\ Handler \in Procs
  BY DEF HandleEvent, treeVars, history, HeldInv, Typed, TypeOK, Procs
<1>2. /\ d \in Dirs /\ queue' \in Seq(Dirs)
      /\ \A x \in Dirs : Announced(x) => Announced(x)' \/ d \in Chain[x]
  BY <1>1, AnnouncedTail
<1>3. CASE d \in exists
  <2>1. walk' = [walk EXCEPT ![Handler] = WalkOf(d)]
    BY <1>1, <1>3
  <2>2. /\ Typed'
        /\ \A q \in Procs : walk'[q] = IF q = Handler THEN WalkOf(d) ELSE walk[q]
    BY <1>1, <1>2, <2>1, WalkOfTyped, WalkChangeTyped DEF HeldInv, Typed, TypeOK
  <2>3. \A x \in Dirs : d \in Chain[x] => Visited(x)'
    <3> SUFFICES ASSUME NEW x \in Dirs, d \in Chain[x] PROVE Visited(x)'
      OBVIOUS
    <3>1. OnWay(WalkOf(d), x)
      BY <1>2, WalkOfTyped
    <3> QED  BY <1>1, <2>1, <3>1, OneWalkChanges
  <2>4. ASSUME NEW x \in exists, Held(x)
        PROVE  Held(x)'
    <3>1. Visited(x) => Visited(x)'
      BY <1>1, <2>1, IdleTyped, OneWalkChanges
    <3>2. Announced(x) => Announced(x)' \/ Visited(x)'
      BY <1>1, <1>2, <2>3
    <3> QED  BY <1>1, <2>4, <3>1, <3>2 DEF Held, Followed, Due
  <2>5. \A e \in Dirs : Open(e)' => Open(e)
    BY <1>1, <1>2, <2>2, WalkOfTyped DEF Open
  <2>6. d \in Dirs /\ Held(d)'
    <3>1. d \in Chain[d]
      BY <1>2, ChainTyped
    <3> QED  BY <1>2, <2>3, <3>1 DEF Held, Followed, Due
  <2>7. \A e \in exists : (\E q \in Procs : walk'[q].root = e)
          => (\E q \in Procs : walk[q].root = e) \/ Held(e)'
    <3>1. \A q \in Procs : walk'[q].root = d \/ walk'[q].root = walk[q].root
      BY <1>2, <2>2, WalkOfTyped
    <3> QED  BY <2>6, <3>1
  <2> QED  BY <1>1, <2>2, <2>4, <2>5, <2>7, HeldKept
<1>4. CASE d \notin exists
  <2>1. walk' = walk
    BY <1>1, <1>4
  <2>2. Typed'
    BY <1>1, <1>2, <2>1 DEF HeldInv, Typed, TypeOK
  <2>3. ASSUME NEW x \in exists, Held(x)
        PROVE  Held(x)'
    <3>1. d \notin Chain[x]
      BY <1>4 DEF HeldInv, Typed, TypeOK
    <3>2. Announced(x) => Announced(x)'
      BY <1>1, <1>2, <3>1
    <3>3. Visited(x)' <=> Visited(x)
      BY <2>1 DEF Visited, Below
    <3> QED  BY <1>1, <2>3, <3>2, <3>3 DEF Held, Followed, Due
  <2>4. \A e \in Dirs : Open(e)' => Open(e)
    BY <1>1, <2>1 DEF Open
  <2> QED  BY <1>1, <2>1, <2>2, <2>3, <2>4, HeldKept
<1> QED  BY <1>3, <1>4

LEMMA AddPathKeeps ==
  ASSUME HeldInv, NEW c \in Clients, NEW r \in Roots, AddPath(c, r)
  PROVE  HeldInv'
<1>1. /\ walk[c] = Idle /\ walk' = [walk EXCEPT ![c] = WalkOf(r)] /\ r \in Dirs
      /\ UNCHANGED <<exists, edits, watched, queue, configured, lost, stray>>
      /\ walk \in [Procs -> Walks] /\ exists \subseteq Dirs /\ c \in Procs
  BY RootsAssumption DEF AddPath, treeVars, history, HeldInv, Typed, TypeOK, Procs
<1>2. /\ Typed'
      /\ \A q \in Procs : walk'[q] = IF q = c THEN WalkOf(r) ELSE walk[q]
  BY <1>1, WalkOfTyped, WalkChangeTyped DEF HeldInv, Typed, TypeOK
<1>3. ASSUME NEW x \in exists, Held(x)
      PROVE  Held(x)'
  <2>1. Visited(x) => Visited(x)'
    BY <1>1, IdleTyped, OneWalkChanges
  <2>2. Announced(x)' <=> Announced(x)
    BY <1>1 DEF Announced
  <2> QED  BY <1>1, <1>3, <2>1, <2>2 DEF Held, Followed, Due
<1>4. \A e \in Dirs : Open(e)' => Open(e)
  BY <1>1, <1>2, WalkOfTyped DEF Open
<1>5. Held(r)'
  <2>1. r \in Chain[r]
    BY <1>1, ChainTyped
  <2>2. OnWay(WalkOf(r), r)
    BY <1>1, <2>1, WalkOfTyped
  <2> QED  BY <1>1, <2>2, OneWalkChanges DEF Held, Followed, Due
<1>6. \A e \in exists : (\E q \in Procs : walk'[q].root = e)
        => (\E q \in Procs : walk[q].root = e) \/ Held(e)'
  <2>1. \A q \in Procs : walk'[q].root = r \/ walk'[q].root = walk[q].root
    BY <1>1, <1>2, WalkOfTyped
  <2> QED  BY <1>5, <2>1
<1> QED  BY <1>1, <1>2, <1>3, <1>4, <1>6, HeldKept

LEMMA RemovePathKeeps ==
  ASSUME HeldInv, NEW c \in Clients, NEW r \in Roots, RemovePath(c, r)
  PROVE  HeldInv'
<1>1. /\ configured' = configured \ {r} /\ watched' = watched \ {r} /\ lost' = lost \cup {r}
      /\ UNCHANGED <<exists, edits, queue, walk>> /\ r \in Dirs
  BY RootsAssumption DEF RemovePath, treeVars
<1>2. stray' \subseteq Dirs
  BY DEF RemovePath, LeftBehind, HeldInv, Typed, TypeOK
<1>3. Typed'
  BY <1>1, <1>2 DEF HeldInv, Typed, TypeOK
<1>4. ASSUME NEW x \in exists, Held(x)
      PROVE  Held(x)'
  <2>1. (Announced(x)' <=> Announced(x)) /\ (Visited(x)' <=> Visited(x))
    BY <1>1 DEF Announced, Visited, Below
  <2> QED  BY <1>1, <1>4, <2>1 DEF Held, Followed, Due
<1>5. \A e \in Dirs : Open(e)' => Open(e)
  BY <1>1 DEF Open
<1> QED  BY <1>1, <1>3, <1>4, <1>5, HeldKept

-----------------------------------------------------------------------------
(* The tree changes. *)

LEMMA MakeDirKeeps ==
  ASSUME HeldInv, NEW d \in Dirs, MakeDir(d)
  PROVE  HeldInv'
<1>1. /\ edits < MaxEdits /\ edits' = edits + 1 /\ d \notin exists /\ exists' = exists \cup {d}
      /\ Parent[d] # None => Parent[d] \in exists
      /\ UNCHANGED <<watched, walk, configured, stray>>
      /\ exists \subseteq Dirs /\ watched \subseteq exists
      /\ \A x \in exists : Chain[x] \subseteq exists
      /\ queue \in Seq(Dirs) /\ lost \subseteq Dirs
  BY DEF MakeDir, HeldInv, Typed, TypeOK
<1>2. /\ queue' \in Seq(Dirs) /\ lost' \subseteq Dirs /\ lost \ {d} \subseteq lost'
      /\ \A x \in Dirs : Announced(x) => Announced(x)'
      /\ Announced(d)' \/ Due(d) \/ d \in lost'
  <2>1. CASE queue' = Append(queue, d) /\ lost' = lost \ {d}
    <3>1. d \in Chain[d]
      BY ChainTyped
    <3> QED  BY <1>1, <2>1, <3>1, AnnouncedAppend
  <2>2. CASE queue' = queue /\ lost' = IF Due(d) THEN lost \ {d} ELSE lost \cup {d}
    BY <1>1, <2>2 DEF Announced
  <2> QED  BY <2>1, <2>2 DEF MakeDir
<1>3. \A x : Visited(x)' <=> Visited(x)
  BY <1>1 DEF Visited, Below
<1>4. Held(d)'
  BY <1>2, <1>3 DEF Held, Followed, Due
<1>5. ASSUME NEW x \in exists, Held(x)
      PROVE  Held(x)'
  BY <1>1, <1>2, <1>3, <1>5 DEF Held, Followed, Due
<1>6. Typed'
  <2>1. \A x \in exists' : Chain[x] \subseteq exists'
    <3> SUFFICES ASSUME NEW x \in exists' PROVE Chain[x] \subseteq exists'
      OBVIOUS
    <3>1. CASE x \in exists
      BY <1>1, <3>1
    <3>2. CASE x = d
      BY <1>1, <3>2, TreeAssumption
    <3> QED  BY <1>1, <3>1, <3>2
  <2>2. edits' \in 0..MaxEdits
    BY <1>1, BoundAssumption DEF HeldInv, Typed, TypeOK
  <2> QED  BY <1>1, <1>2, <2>1, <2>2 DEF HeldInv, Typed, TypeOK
<1>7. \A e : Open(e)' <=> Open(e)
  BY <1>1 DEF Open
<1>8. ChildrenHeld'
  BY <1>1, <1>4, <1>5, <1>7 DEF HeldInv, ChildrenHeld
<1>9. RootsHeld'
  BY <1>1, <1>4, <1>5 DEF HeldInv, RootsHeld
<1> QED  BY <1>6, <1>8, <1>9 DEF HeldInv

LEMMA RemoveDirKeeps ==
  ASSUME HeldInv, NEW d \in Dirs, RemoveDir(d)
  PROVE  HeldInv'
<1>1. /\ edits < MaxEdits /\ edits' = edits + 1 /\ exists' = exists \ {d}
      /\ Children(d) \cap exists = {} /\ watched' = watched \ {d} /\ lost' = lost \ {d}
      /\ UNCHANGED <<queue, walk, configured>> /\ stray' \subseteq Dirs
      /\ exists \subseteq Dirs /\ \A x \in exists : Chain[x] \subseteq exists
  BY DEF RemoveDir, HeldInv, Typed, TypeOK
<1>2. \A x \in exists' : Chain[x] \subseteq exists'
  <2> SUFFICES ASSUME NEW x \in exists, x # d, d \in Chain[x] PROVE FALSE
    BY <1>1
  <2>1. PICK f \in Chain[x] : f \in Dirs /\ Parent[f] = d
    BY <1>1, StepDown
  <2> QED  BY <1>1, <2>1 DEF Children
<1>3. Typed'
  <2>1. edits' \in 0..MaxEdits
    BY <1>1, BoundAssumption DEF HeldInv, Typed, TypeOK
  <2>2. watched' \subseteq exists' /\ exists' \subseteq Dirs /\ lost' \subseteq Dirs
    BY <1>1 DEF HeldInv, Typed, TypeOK
  <2> QED  BY <1>1, <1>2, <2>1, <2>2 DEF HeldInv, Typed, TypeOK
<1>4. \A x : (Visited(x)' <=> Visited(x)) /\ (Announced(x)' <=> Announced(x))
  BY <1>1 DEF Visited, Below, Announced
<1>5. \A x \in exists' : x \in exists /\ (Held(x) => Held(x)')
  BY <1>1, <1>4 DEF Held, Followed, Due
<1>6. \A e : Open(e)' => Open(e)
  BY <1>1 DEF Open
<1>7. ChildrenHeld'
  BY <1>5, <1>6 DEF HeldInv, ChildrenHeld
<1>8. RootsHeld'
  BY <1>1, <1>5 DEF HeldInv, RootsHeld
<1> QED  BY <1>3, <1>7, <1>8 DEF HeldInv

-----------------------------------------------------------------------------
LEMMA HeldInit == Init => HeldInv
<1> SUFFICES ASSUME Init PROVE HeldInv
  OBVIOUS
<1>1. \A p \in Procs : walk[p] = Idle
  BY DEF Init
<1>2. Typed
  <2>1. walk \in [Procs -> Walks]
    BY IdleTyped DEF Init
  <2>2. edits \in 0..MaxEdits
    BY BoundAssumption DEF Init
  <2>3. \A c \in Clients : walk[c].root \in Roots \cup {None}
    BY <1>1, IdleTyped DEF Procs
  <2> QED  BY <1>1, <2>1, <2>2, <2>3, IdleTyped DEF Init, Typed, TypeOK
<1>3. ChildrenHeld
  BY <1>1, IdleTyped DEF Init, ChildrenHeld, Open
<1>4. RootsHeld
  <2>1. None \notin exists
    BY TreeAssumption DEF Init
  <2> QED  BY <1>1, <2>1, IdleTyped DEF Init, RootsHeld
<1> QED  BY <1>2, <1>3, <1>4 DEF HeldInv

LEMMA HeldStep == HeldInv /\ [Next]_vars => HeldInv'
<1> SUFFICES ASSUME HeldInv, [Next]_vars PROVE HeldInv'
  OBVIOUS
<1>1. ASSUME NEW d \in Dirs, MakeDir(d) PROVE HeldInv'
  BY <1>1, MakeDirKeeps
<1>2. ASSUME NEW d \in Dirs, RemoveDir(d) PROVE HeldInv'
  BY <1>2, RemoveDirKeeps
<1>3. CASE HandleEvent
  BY <1>3, HandleEventKeeps
<1>4. ASSUME NEW p \in Procs, Walk(p) PROVE HeldInv'
  BY <1>4, VisitKeeps, FailToVisitKeeps, AddWatchKeeps, FinishKeeps DEF Walk
<1>5. ASSUME NEW c \in Clients, NEW r \in Roots, AddPath(c, r) \/ RemovePath(c, r) PROVE HeldInv'
  BY <1>5, AddPathKeeps, RemovePathKeeps
<1>6. CASE UNCHANGED vars
  BY <1>6 DEF vars, treeVars, history, HeldInv, Typed, TypeOK, ChildrenHeld, RootsHeld, Held,
              Followed, Due, Announced, Visited, Below, Open
<1> QED  BY <1>1, <1>2, <1>3, <1>4, <1>5, <1>6 DEF Next, FileSystem, Request

\* The first inductive invariant: what addPath, handleEvent and RemovePath leave watched,
\* due or lost.
THEOREM HeldAlways == Spec => []HeldInv
BY HeldInit, HeldStep, PTL DEF Spec

\* The types of the state; only directories that exist are watched, whatever request
\* and handler do.
THEOREM TypeCorrect == Spec => []TypeOK
<1>1. HeldInv => TypeOK
  BY DEF HeldInv, Typed
<1> QED  BY <1>1, HeldAlways, PTL

\* For any tree, any number of overlapping requests and any changes under them: a
\* directory of a configured folder is watched or due, unless it, or one above it, was
\* lost in one of the ways TreeFollowed lists (addPath, handleEvent, RemovePath).
THEOREM WatchingIsRecursive == Spec => []TreeFollowed
BY HeldAlways, HeldIsFollowed, PTL

-----------------------------------------------------------------------------
(* Nothing else is watched. *)

LEMMA MeantNested ==
  ASSUME NEW d \in Dirs, NEW e \in Chain[d]
  PROVE  Meant(e) => Meant(d)
BY ChainNested DEF Meant, Wanted, Below

LEMMA MeantKept ==
  ASSUME MeantInv,
         \A x \in Dirs : Followed(x)' => Followed(x) \/ Meant(x)',
         \A x \in Dirs : Followed(x)' /\ Meant(x) => Meant(x)'
  PROVE  MeantInv'
BY DEF MeantInv

\* What a request that failed has registered is left behind.
LEMMA AbortKeepsMeant ==
  ASSUME HeldInv, MeantInv, NEW p \in Procs, walk[p].at = "visit", Abort(p),
         UNCHANGED <<treeVars, watched, queue, configured>>
  PROVE  MeantInv'
<1>1. /\ walk' = [walk EXCEPT ![p] = Idle] /\ walk \in [Procs -> Walks]
      /\ UNCHANGED <<watched, queue, configured>>
      /\ stray' = IF p = Handler THEN stray
                  ELSE stray \cup {d \in Dirs : walk[p].root \in Chain[d] /\ (d \in watched \/ Due(d))}
      /\ \A q \in Procs : walk'[q] = IF q = p THEN Idle ELSE walk[q]
  BY DEF Abort, HeldInv, Typed, TypeOK
<1>2. \A x \in Dirs : Followed(x)' => Followed(x)
  <2> SUFFICES ASSUME NEW x \in Dirs PROVE (Due(x)' => Due(x)) /\ (Followed(x)' => Followed(x))
    OBVIOUS
  <2>1. Announced(x)' <=> Announced(x)
    BY <1>1 DEF Announced
  <2>2. Visited(x)' => Visited(x)
    BY <1>1, IdleTyped, OneWalkChanges
  <2> QED  BY <1>1, <2>1, <2>2 DEF Followed, Due
<1>3. ASSUME NEW x \in Dirs, Followed(x)', Meant(x)
      PROVE  Meant(x)'
  <2>1. x \in watched \/ Due(x)
    BY <1>2, <1>3 DEF Followed
  <2>2. stray \subseteq stray' /\ (p # Handler /\ walk[p].root \in Chain[x] => x \in stray')
    BY <1>1, <2>1
  <2>3. x \in Chain[x]
    BY ChainTyped
  <2>4. Handler \notin Clients /\ \A c \in Clients : c \in Procs
    BY ProcsAssumption DEF Procs
  <2> QED  BY <1>1, <1>3, <2>2, <2>3, <2>4 DEF Meant, Wanted, Below
<1> QED  BY <1>2, <1>3, MeantKept

LEMMA VisitKeepsMeant ==
  ASSUME HeldInv, MeantInv, NEW p \in Procs, Visit(p)
  PROVE  MeantInv'
<1>0. walk[p].at = "visit" /\ UNCHANGED <<exists, edits, watched, queue, configured>>
  BY DEF Visit, treeVars
<1>1. PICK d \in walk[p].todo :
        \/ /\ d \in exists
           /\ walk' = [walk EXCEPT ![p] = Watching(@, d, Children(d) \cap exists)]
           /\ UNCHANGED history
        \/ d \notin exists /\ Abort(p)
  BY DEF Visit
<1>2. CASE d \notin exists /\ Abort(p)
  BY <1>0, <1>2, AbortKeepsMeant DEF Visit
<1>3. CASE d \in exists /\ ~(d \notin exists /\ Abort(p))
  <2> DEFINE w == Watching(walk[p], d, Children(d) \cap exists)
  <2>1. /\ walk' = [walk EXCEPT ![p] = w] /\ UNCHANGED <<lost, stray>>
        /\ walk \in [Procs -> Walks] /\ d \in Dirs /\ walk[p].todo \subseteq Dirs
    BY <1>0, <1>1, <1>3, WalkTyped DEF history, HeldInv, Typed, TypeOK
  <2>2. w.root = walk[p].root /\ w.dir = d /\ w.names = Children(d) \cap exists
        /\ w.todo = walk[p].todo \ {d}
    BY DEF Watching
  <2> HIDE DEF w
  <2>3. ASSUME NEW x \in Dirs
        PROVE  OnWay(w, x) => OnWay(walk[p], x)
    <3>1. x \in Chain[x]
      BY ChainTyped
    <3>2. \A f \in Chain[x] : Parent[f] = d => d \in Chain[x]
      BY <2>1, ChainNested, ChainTyped, TreeAssumption
    <3> QED  BY <1>1, <2>2, <3>1, <3>2 DEF OnWay, Below, Children
  <2>4. \A q \in Procs : walk'[q].root = walk[q].root
    BY <2>1, <2>2
  <2>5. ASSUME NEW x \in Dirs
        PROVE  Followed(x)' => Followed(x)
    <3>1. Announced(x)' <=> Announced(x)
      BY <1>0 DEF Announced
    <3>2. Visited(x)' => Visited(x)
      BY <2>1, <2>3, OneWalkChanges
    <3> QED  BY <1>0, <3>1, <3>2 DEF Followed, Due
  <2>6. \A x \in Dirs : Meant(x) => Meant(x)'
    BY <1>0, <2>1, <2>4 DEF Meant, Wanted, Below, Procs
  <2> QED  BY <2>5, <2>6, MeantKept
<1> QED  BY <1>1, <1>2, <1>3

LEMMA AddWatchKeepsMeant ==
  ASSUME HeldInv, MeantInv, NEW p \in Procs, AddWatch(p)
  PROVE  MeantInv'
<1> DEFINE d == walk[p].dir
           w == Visiting(walk[p].root, walk[p].todo \cup walk[p].names)
<1>1. /\ walk[p].at = "watch" /\ walk' = [walk EXCEPT ![p] = w] /\ walk \in [Procs -> Walks]
      /\ UNCHANGED <<queue, configured, stray>> /\ watched' \subseteq watched \cup {d}
  BY DEF AddWatch, GoOn, HeldInv, Typed, TypeOK
<1>2. w.root = walk[p].root /\ w.at = "visit" /\ w.todo \cup w.names = walk[p].todo \cup walk[p].names
  BY DEF Visiting
<1>3. \A x : OnWay(walk[p], x) <=> OnWay(w, x) \/ x = d
  BY <1>1, <1>2 DEF OnWay
<1> HIDE DEF w
<1>4. \A q \in Procs : walk'[q].root = walk[q].root
  BY <1>1, <1>2
<1>5. ASSUME NEW x \in Dirs
      PROVE  Followed(x)' => Followed(x)
  <2>1. Announced(x)' <=> Announced(x)
    BY <1>1 DEF Announced
  <2>2. (Visited(x)' => Visited(x)) /\ (x = d => Visited(x))
    BY <1>1, <1>3, OneWalkChanges
  <2> QED  BY <1>1, <2>1, <2>2 DEF Followed, Due
<1>6. \A x \in Dirs : Meant(x) => Meant(x)'
  BY <1>1, <1>4 DEF Meant, Wanted, Below, Procs
<1> QED  BY <1>5, <1>6, MeantKept

\* Once the folder is configured it covers what was left behind in it.
LEMMA FinishKeepsMeant ==
  ASSUME HeldInv, MeantInv, NEW p \in Procs, Finish(p)
  PROVE  MeantInv'
<1>1. /\ walk' = [walk EXCEPT ![p] = Idle] /\ walk \in [Procs -> Walks]
      /\ UNCHANGED <<watched, queue>> /\ configured \subseteq configured'
      /\ p = Handler => stray' = stray
      /\ p # Handler => /\ configured' = configured \cup {walk[p].root}
                        /\ stray' = {d \in stray : walk[p].root \notin Chain[d]}
      /\ stray \subseteq Dirs
      /\ \A q \in Procs : walk'[q] = IF q = p THEN Idle ELSE walk[q]
  BY DEF Finish, HeldInv, Typed, TypeOK
<1>2. ASSUME NEW x \in Dirs
      PROVE  Followed(x)' => Followed(x)
  <2>1. Announced(x)' <=> Announced(x)
    BY <1>1 DEF Announced
  <2>2. Visited(x)' => Visited(x)
    BY <1>1, IdleTyped, OneWalkChanges
  <2> QED  BY <1>1, <2>1, <2>2 DEF Followed, Due
<1>3. ASSUME NEW x \in Dirs, Meant(x)
      PROVE  Meant(x)'
  <2>1. Handler \notin Clients /\ \A c \in Clients : c \in Procs
    BY ProcsAssumption DEF Procs
  <2>2. \A s \in stray : s \in Chain[x] /\ walk[p].root \in Chain[s] => walk[p].root \in Chain[x]
    BY <1>1, ChainNested
  <2> QED  BY <1>1, <1>3, <2>1, <2>2 DEF Meant, Wanted, Below
<1> QED  BY <1>2, <1>3, MeantKept

LEMMA HandleEventKeepsMeant ==
  ASSUME HeldInv, MeantInv, HandleEvent
  PROVE  MeantInv'
<1>0. \E d \in Dirs : d = Head(queue)
  BY HeadTailProperties DEF HandleEvent, HeldInv, Typed, TypeOK
<1> PICK d \in Dirs : d = Head(queue)
  BY <1>0
<1>1. /\ walk[Handler] = Idle /\ queue # << >> /\ queue' = Tail(queue) /\ queue \in Seq(Dirs)
      /\ walk' = walk \/ walk' = [walk EXCEPT ![Handler] = WalkOf(d)]
      /\ UNCHANGED <<watched, configured, stray>>
      /\ walk \in [Procs -> Walks] /\ Handler \in Procs /\ Handler \notin Clients
  BY ProcsAssumption DEF HandleEvent, treeVars, history, HeldInv, Typed, TypeOK, Procs
<1>2. ASSUME NEW x \in Dirs
      PROVE  Followed(x)' => Followed(x)
  <2>1. (Announced(x)' => Announced(x)) /\ (d \in Chain[x] => Announced(x))
    BY <1>1, AnnouncedTail
  <2>2. Visited(x)' => Visited(x) \/ d \in Chain[x]
    <3>1. CASE walk' = walk
      BY <3>1 DEF Visited, Below
    <3>2. CASE walk' = [walk EXCEPT ![Handler] = WalkOf(d)]
      BY <1>1, <3>2, WalkOfTyped, OneWalkChanges
    <3> QED  BY <1>1, <3>1, <3>2
  <2> QED  BY <1>1, <2>1, <2>2 DEF Followed, Due
<1>3. \A x \in Dirs : Meant(x) => Meant(x)'
  <2>1. \A c \in Clients : c \in Procs /\ c # Handler
    BY <1>1 DEF Procs
  <2>2. \A c \in Clients : walk'[c] = walk[c]
    BY <1>1, <2>1
  <2> QED  BY <1>1, <2>2 DEF Meant, Wanted, Below
<1> QED  BY <1>2, <1>3, MeantKept

LEMMA AddPathKeepsMeant ==
  ASSUME HeldInv, MeantInv, NEW c \in Clients, NEW r \in Roots, AddPath(c, r)
  PROVE  MeantInv'
<1>1. /\ walk[c] = Idle /\ walk' = [walk EXCEPT ![c] = WalkOf(r)] /\ r \in Dirs
      /\ UNCHANGED <<watched, queue, configured, stray>>
      /\ walk \in [Procs -> Walks] /\ c \in Procs
      /\ \A q \in Procs : walk'[q] = IF q = c THEN WalkOf(r) ELSE walk[q]
  BY RootsAssumption DEF AddPath, treeVars, history, HeldInv, Typed, TypeOK, Procs
<1>2. walk[c].root = None /\ WalkOf(r).root = r
  BY <1>1, IdleTyped, WalkOfTyped
<1>3. ASSUME NEW x \in Dirs
      PROVE  /\ Followed(x)' => Followed(x) \/ Meant(x)'
             /\ Meant(x) => Meant(x)'
  <2>1. Announced(x)' <=> Announced(x)
    BY <1>1 DEF Announced
  <2>2. Visited(x)' => Visited(x) \/ r \in Chain[x]
    BY <1>1, WalkOfTyped, OneWalkChanges
  <2>3. r \in Chain[x] => Meant(x)'
    BY <1>1, <1>2 DEF Meant
  <2>4. None \notin Chain[x]
    BY ChainTyped, TreeAssumption
  <2>5. Meant(x) => Meant(x)'
    BY <1>1, <1>2, <2>4 DEF Meant, Wanted, Below, Procs
  <2> QED  BY <1>1, <2>1, <2>2, <2>3, <2>5 DEF Followed, Due
<1> QED  BY <1>3, MeantKept

LEMMA RemovePathKeepsMeant ==
  ASSUME HeldInv, MeantInv, NEW c \in Clients, NEW r \in Roots, RemovePath(c, r)
  PROVE  MeantInv'
<1>1. /\ configured' = configured \ {r} /\ watched' = watched \ {r}
      /\ stray' = stray \cup LeftBehind(r) /\ UNCHANGED <<queue, walk>>
  BY DEF RemovePath
<1>2. \A x : (Announced(x)' <=> Announced(x)) /\ (Visited(x)' <=> Visited(x))
  BY <1>1 DEF Announced, Visited, Below
<1>3. \A x \in Dirs : Followed(x)' => Followed(x)
  BY <1>1, <1>2 DEF Followed, Due
<1>4. ASSUME NEW x \in Dirs, Followed(x)', Meant(x)
      PROVE  Meant(x)'
  <2>1. r \in Chain[x] => x \in stray'
    BY <1>1, <1>2, <1>4 DEF LeftBehind, Followed, Due
  <2>2. x \in Chain[x]
    BY ChainTyped
  <2> QED  BY <1>1, <1>4, <2>1, <2>2 DEF Meant, Wanted, Below
<1> QED  BY <1>3, <1>4, MeantKept

\* The event of a new directory comes from a watch that is meant itself.
LEMMA MakeDirKeepsMeant ==
  ASSUME HeldInv, MeantInv, NEW d \in Dirs, MakeDir(d)
  PROVE  MeantInv'
<1>1. /\ UNCHANGED <<watched, walk, configured, stray>> /\ queue \in Seq(Dirs)
      /\ queue' = queue \/ (queue' = Append(queue, d) /\ Parent[d] \in watched)
      /\ watched \subseteq Dirs
  BY DEF MakeDir, HeldInv, Typed, TypeOK
<1>2. \A x : Visited(x)' <=> Visited(x)
  BY <1>1 DEF Visited, Below
<1>3. \A x : Meant(x)' <=> Meant(x)
  BY <1>1 DEF Meant, Wanted, Below
<1>4. ASSUME NEW x \in Dirs
      PROVE  Followed(x)' => Followed(x) \/ Meant(x)
  <2>1. CASE queue' = queue
    BY <1>1, <1>2, <2>1 DEF Followed, Due, Announced
  <2>2. CASE queue' = Append(queue, d) /\ Parent[d] \in watched
    <3>1. Announced(x)' => Announced(x) \/ d \in Chain[x]
      BY <1>1, <2>2, AnnouncedAppend
    <3>2. Parent[d] \in Dirs /\ Parent[d] \in Chain[d] /\ Meant(Parent[d])
      BY <1>1, <2>2, ChainTyped, TreeAssumption DEF MeantInv, Followed
    <3>3. d \in Chain[x] => Meant(x)
      BY <3>2, MeantNested
    <3> QED  BY <1>1, <1>2, <3>1, <3>3 DEF Followed, Due
  <2> QED  BY <1>1, <2>1, <2>2
<1> QED  BY <1>3, <1>4, MeantKept

\* What was left behind is forgotten when nothing is watched or announced below it.
LEMMA RemoveDirKeepsMeant ==
  ASSUME HeldInv, MeantInv, NEW d \in Dirs, RemoveDir(d)
  PROVE  MeantInv'
<1>1. /\ Children(d) \cap exists = {} /\ watched' = watched \ {d}
      /\ stray' = IF \E e \in Dirs : d \in Chain[e] /\ Due(e) THEN stray ELSE stray \ {d}
      /\ UNCHANGED <<queue, walk, configured>>
      /\ watched \subseteq exists /\ exists \subseteq Dirs /\ \A x \in exists : Chain[x] \subseteq exists
  BY DEF RemoveDir, HeldInv, Typed, TypeOK
<1>2. \A x : (Visited(x)' <=> Visited(x)) /\ (Announced(x)' <=> Announced(x))
  BY <1>1 DEF Visited, Below, Announced
<1>3. \A x \in Dirs : Followed(x)' => Followed(x)
  BY <1>1, <1>2 DEF Followed, Due
<1>4. ASSUME NEW x \in Dirs, Followed(x)', Meant(x)
      PROVE  Meant(x)'
  <2>1. d \in Chain[x] => stray' = stray
    <3> SUFFICES ASSUME d \in Chain[x], ~Due(x) PROVE FALSE
      BY <1>1
    <3>1. x \in exists /\ x # d
      BY <1>1, <1>2, <1>4 DEF Followed, Due
    <3>2. PICK f \in Chain[x] : f \in Dirs /\ Parent[f] = d
      BY <1>1, <3>1, StepDown
    <3> QED  BY <1>1, <3>1, <3>2 DEF Children
  <2>2. stray' \in {stray, stray \ {d}}
    BY <1>1
  <2> QED  BY <1>1, <1>4, <2>1, <2>2 DEF Meant, Wanted, Below
<1> QED  BY <1>3, <1>4, MeantKept

LEMMA MeantInit == Init => MeantInv
<1> SUFFICES ASSUME Init, NEW d \in Dirs PROVE ~Followed(d)
  BY DEF MeantInv
<1>1. \A p \in Procs : ~OnWay(walk[p], d)
  BY IdleTyped DEF Init
<1>2. ~Announced(d) /\ watched = {}
  BY DEF Init, Announced
<1>3. ~Visited(d)
  BY <1>1 DEF Visited, OnWay
<1> QED  BY <1>2, <1>3 DEF Followed, Due

LEMMA MeantStep == HeldInv /\ MeantInv /\ [Next]_vars => MeantInv'
<1> SUFFICES ASSUME HeldInv, MeantInv, [Next]_vars PROVE MeantInv'
  OBVIOUS
<1>1. ASSUME NEW d \in Dirs, MakeDir(d) \/ RemoveDir(d) PROVE MeantInv'
  BY <1>1, MakeDirKeepsMeant, RemoveDirKeepsMeant
<1>2. CASE HandleEvent
  BY <1>2, HandleEventKeepsMeant
<1>3. ASSUME NEW p \in Procs, Walk(p) PROVE MeantInv'
  BY <1>3, VisitKeepsMeant, AbortKeepsMeant, AddWatchKeepsMeant, FinishKeepsMeant DEF Walk, FailToVisit
<1>4. ASSUME NEW c \in Clients, NEW r \in Roots, AddPath(c, r) \/ RemovePath(c, r) PROVE MeantInv'
  BY <1>4, AddPathKeepsMeant, RemovePathKeepsMeant
<1>5. CASE UNCHANGED vars
  BY <1>5 DEF vars, treeVars, history, MeantInv, Meant, Wanted, Followed, Due, Announced, Visited, Below
<1> QED  BY <1>1, <1>2, <1>3, <1>4, <1>5 DEF Next, FileSystem, Request

\* For any tree, any number of overlapping requests and any changes: a directory is
\* watched only for a configured folder, for one that is being added, or because
\* RemovePath or a failed AddPath left it behind (addPath, RemovePath, handleEvent).
THEOREM OnlyWantedIsWatched == Spec => []WatchedIsWanted
<1>1. Init => HeldInv /\ MeantInv
  BY HeldInit, MeantInit
<1>2. HeldInv /\ MeantInv /\ [Next]_vars => (HeldInv /\ MeantInv)'
  BY HeldStep, MeantStep
<1>3. HeldInv /\ MeantInv => WatchedIsWanted
  BY DEF HeldInv, Typed, TypeOK, MeantInv, Meant, Followed, WatchedIsWanted
<1> QED  BY <1>1, <1>2, <1>3, PTL DEF Spec
==============================================================================
