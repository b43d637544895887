--------------------------- MODULE LiveIndexProof ---------------------------
(***************************************************************************)
(* Proofs about LiveIndex for any files, workers and bounds.               *)
(***************************************************************************)
EXTENDS LiveIndex, SequenceTheorems, TLAPS

LEMMA HandKinds ==
  ASSUME NEW f \in Files, NEW v
  PROVE  /\ Idle # Extract(f) /\ Idle # Write(f, v) /\ Idle # Delete(f)
         /\ Extract(f).at = "extract" /\ Extract(f).file = f
         /\ Write(f, v).at = "write" /\ Write(f, v).file = f /\ Write(f, v).version = v
         /\ Delete(f).at = "delete" /\ Delete(f).file = f
         /\ Idle.at = "idle"
<1>1. /\ Extract(f).at = "extract" /\ Write(f, v).at = "write" /\ Delete(f).at = "delete"
      /\ Idle.at = "idle"
  BY DEF Idle, Extract, Write, Delete
<1> QED  BY <1>1 DEF Extract, Write, Delete

\* A goroutine with a file in hand is in one of three places.
LEMMA HandCases ==
  ASSUME NEW h \in Hands
  PROVE  /\ h.at = "idle" => h = Idle
         /\ h.at = "extract" => h.file \in Files /\ h = Extract(h.file)
         /\ h.at = "delete" => h.file \in Files /\ h = Delete(h.file)
         /\ h.at = "write" => /\ h.file \in Files /\ h.version \in Versions
                              /\ h = Write(h.file, h.version)
<1>1. CASE h = Idle
  BY <1>1 DEF Idle
<1>2. ASSUME NEW f \in Files, h = Extract(f) PROVE h.at = "extract" /\ h.file = f
  BY <1>2, HandKinds
<1>3. ASSUME NEW f \in Files, h = Delete(f) PROVE h.at = "delete" /\ h.file = f
  BY <1>3, HandKinds
<1>4. ASSUME NEW f \in Files, NEW v \in Versions, h = Write(f, v)
      PROVE  h.at = "write" /\ h.file = f /\ h.version = v
  BY <1>4, HandKinds
<1>5. \/ h = Idle
      \/ \E f \in Files : h = Extract(f) \/ h = Delete(f)
      \/ \E f \in Files, v \in Versions : h = Write(f, v)
  BY DEF Hands
<1> QED  BY <1>1, <1>2, <1>3, <1>4, <1>5

LEMMA TypeInit == Init => TypeOK
<1> SUFFICES ASSUME Init PROVE TypeOK
  OBVIOUS
<1>1. queue \in Seq(Events)
  BY EmptySeq DEF Init
<1>2. edits \in 0..MaxEdits /\ scans \in 0..MaxScans
  BY BoundsAssumption DEF Init
<1>3. fs \in [Files -> {Absent} \cup Versions] /\ sub \in BOOLEAN
  BY DEF Init
<1> QED  BY <1>1, <1>2, <1>3 DEF Init, TypeOK, Hands

LEMMA AfterExtractType ==
  ASSUME TypeOK, NEW f \in Files
  PROVE  AfterExtract(f) \in Hands
BY DEF TypeOK, AfterExtract, Hands

LEMMA ChangeType ==
  ASSUME TypeOK, NEW f \in Files, NEW v \in {Absent} \cup Versions,
         NEW kind \in {"create", "write", "remove"}, Change(f, v, kind)
  PROVE  TypeOK'
<1>1. queue' \in Seq(Events)
  <2>1. Event(kind, f) \in Events
    BY DEF Event, Events
  <2>2. queue' = queue \/ queue' = Append(queue, Event(kind, f))
    BY DEF Change
  <2> QED  BY <2>1, <2>2, AppendProperties DEF TypeOK
<1>2. edits' \in 0..MaxEdits
  BY BoundsAssumption DEF Change, TypeOK
<1>3. overtaken' \subseteq Files /\ unseen' \subseteq Files /\ unwritten' \subseteq Files
  BY DEF Change, TypeOK
<1> QED  BY <1>1, <1>2, <1>3 DEF Change, TypeOK, handVars

LEMMA TypeStep == TypeOK /\ [Next]_vars => TypeOK'
<1> SUFFICES ASSUME TypeOK, [Next]_vars PROVE TypeOK'
  OBVIOUS
<1>1. CASE \E f \in Files : CreateFile(f) \/ WriteFile(f) \/ RemoveFile(f)
  BY <1>1, ChangeType DEF CreateFile, WriteFile, RemoveFile
<1>2. CASE MakeSub
  <2>1. queue' \in Seq(Events)
    <3>1. Event("create", Sub) \in Events
      BY DEF Event, Events
    <3>2. queue' = queue \/ queue' = Append(queue, Event("create", Sub))
      BY <1>2 DEF MakeSub
    <3> QED  BY <3>1, <3>2, AppendProperties DEF TypeOK
  <2>2. edits' \in 0..MaxEdits
    BY <1>2, BoundsAssumption DEF MakeSub, TypeOK
  <2> QED  BY <1>2, <2>1, <2>2 DEF MakeSub, TypeOK, handVars, history
<1>3. CASE HandleEvent
  <2>1. Head(queue) \in Events /\ queue' \in Seq(Events)
    BY <1>3, HeadTailProperties DEF HandleEvent, TypeOK
  <2>2. watcher' \in Hands /\ subWatched' \in BOOLEAN
    <3>1. Head(queue).name \in Files \cup {Sub}
      BY <2>1 DEF Events
    <3>2. \/ watcher' = watcher /\ subWatched' \in {TRUE, subWatched}
          \/ /\ Head(queue).name \in Files /\ subWatched' = subWatched
             /\ watcher' \in {Delete(Head(queue).name), Extract(Head(queue).name)}
      BY <1>3, <3>1 DEF HandleEvent
    <3>3. watcher \in Hands /\ subWatched \in BOOLEAN
      BY DEF TypeOK
    <3>4. \A f \in Files : Delete(f) \in Hands /\ Extract(f) \in Hands
      BY DEF Hands
    <3> QED  BY <3>2, <3>3, <3>4
  <2> QED  BY <1>3, <2>1, <2>2 DEF HandleEvent, TypeOK, history
<1>4. CASE WatcherExtracts
  <2>1. watcher.file \in Files
    BY <1>4, HandCases DEF WatcherExtracts, TypeOK
  <2>2. watcher' \in Hands /\ unwritten' \subseteq Files
    BY <1>4, <2>1, AfterExtractType DEF WatcherExtracts, TypeOK, Hands
  <2> QED  BY <1>4, <2>2 DEF WatcherExtracts, TypeOK
<1>5. CASE WatcherWrites
  <2>1. index' \in [Files -> {Absent} \cup Versions]
    BY <1>5, HandCases DEF WatcherWrites, TypeOK
  <2>2. watcher' \in Hands /\ unwritten' \subseteq Files
    BY <1>5, HandCases DEF WatcherWrites, Hands, TypeOK
  <2> QED  BY <1>5, <2>1, <2>2 DEF WatcherWrites, TypeOK
<1>6. ASSUME NEW s \in Scanners, NEW f \in Files, ScanFile(s, f) PROVE TypeOK'
  <2>1. Extract(f) \in Hands
    BY DEF Hands
  <2>2. scans' \in 0..MaxScans
    BY <1>6, BoundsAssumption DEF ScanFile, TypeOK
  <2> QED  BY <1>6, <2>1, <2>2 DEF ScanFile, TypeOK, history
<1>7. ASSUME NEW s \in Scanners, ScannerExtracts(s) PROVE TypeOK'
  <2>1. AfterExtract(scanner[s].file) \in Hands /\ Idle \in Hands
    BY <1>7, HandCases, AfterExtractType DEF ScannerExtracts, TypeOK, Hands
  <2> QED  BY <1>7, <2>1 DEF ScannerExtracts, TypeOK, history
<1>8. ASSUME NEW s \in Scanners, ScannerWrites(s) PROVE TypeOK'
  <2>1. index' \in [Files -> {Absent} \cup Versions]
    BY <1>8, HandCases DEF ScannerWrites, TypeOK
  <2>2. Idle \in Hands /\ unwritten' \subseteq Files
    BY <1>8 DEF ScannerWrites, Hands, TypeOK
  <2> QED  BY <1>8, <2>1, <2>2 DEF ScannerWrites, TypeOK
<1>9. CASE UNCHANGED vars
  BY <1>9 DEF vars, handVars, history, TypeOK
<1>10. CASE ResetIndex
  <2>1. index' \in [Files -> {Absent} \cup Versions] /\ unwritten' \subseteq Files
    BY <1>10 DEF ResetIndex, TypeOK
  <2> QED  BY <1>10, <2>1 DEF ResetIndex, TypeOK, handVars
<1> QED  BY <1>1, <1>2, <1>3, <1>4, <1>5, <1>6, <1>7, <1>8, <1>9, <1>10
         DEF Next, FileSystem, Watch, Scan

\* The files, the events, the index and the goroutines keep their types.
THEOREM TypeCorrect == SafetySpec => []TypeOK
BY TypeInit, TypeStep, PTL DEF SafetySpec

-----------------------------------------------------------------------------
(* FilesFollowed is inductive. *)

LEMMA InitFollowed == Init => FilesFollowed
<1> SUFFICES ASSUME Init, NEW f \in Files PROVE Followed(f)
  BY DEF FilesFollowed
<1>1. DOMAIN queue = {}
  BY DEF Init
<1>2. ~Holds(watcher, f) /\ InSync(f)
  BY DEF Init, Holds, InSync
<1>3. \A s \in Scanners, v \in Versions : scanner[s] # Write(f, v)
  BY HandKinds DEF Init
<1> QED  BY <1>1, <1>2, <1>3 DEF Followed, LastEvent

\* An event of another name leaves what is known of a file as it was.
LEMMA OtherEvent ==
  ASSUME TypeOK, NEW f \in Files, NEW e \in Events, e.name # f, Followed(f),
         queue' = Append(queue, e),
         fs'[f] = fs[f], UNCHANGED <<index, watcher, scanner, unwritten>>
  PROVE  Followed(f)'
<1>1. /\ \A i \in DOMAIN queue : i \in DOMAIN queue' /\ queue'[i] = queue[i]
      /\ \A i \in DOMAIN queue' : i \in DOMAIN queue \/ queue'[i] = e
  BY AppendProperties, LenProperties DEF TypeOK
<1>2. Noticed(f)' <=> Noticed(f)
  BY <1>1 DEF Noticed
<1>3. \A i : LastEvent(f, i)' => LastEvent(f, i) /\ queue'[i] = queue[i]
  BY <1>1 DEF LastEvent
<1>4. InSync(f)' <=> InSync(f)
  BY DEF InSync
<1> QED  BY <1>1, <1>2, <1>3, <1>4 DEF Followed, LastEvent

\* A reported change of a file leaves the event that tells of it last in the queue.
LEMMA ReportedChange ==
  ASSUME TypeOK, NEW f \in Files, NEW v \in {Absent} \cup Versions,
         NEW kind \in {"create", "write", "remove"}, kind = "remove" <=> v = Absent,
         Change(f, v, kind), f \notin overtaken' \cup unseen'
  PROVE  Followed(f)'
<1>1. queue' = Append(queue, Event(kind, f))
  BY DEF Change
<1>2. Event(kind, f) \in Events /\ Event(kind, f).name = f /\ Event(kind, f).kind = kind
  BY DEF Event, Events
<1>3. /\ Len(queue) \in Nat
      /\ DOMAIN queue' = 1..(Len(queue) + 1)
      /\ queue'[Len(queue) + 1] = Event(kind, f)
  BY <1>1, <1>2, AppendProperties, LenProperties DEF TypeOK
<1>4. Noticed(f)'
  BY <1>2, <1>3 DEF Noticed
<1>5. \A i : LastEvent(f, i)' => i = Len(queue) + 1
  BY <1>2, <1>3 DEF LastEvent
<1>6. fs'[f] = v
  BY DEF Change, TypeOK
<1>7. \A s \in Scanners, w \in Versions : scanner'[s] # Write(f, w)
  BY HandKinds DEF Change, handVars
<1> QED  BY <1>2, <1>3, <1>4, <1>5, <1>6, <1>7 DEF Followed

LEMMA ChangeFollowed ==
  ASSUME TypeOK, FilesFollowed, NEW g \in Files, NEW v \in {Absent} \cup Versions,
         NEW kind \in {"create", "write", "remove"}, kind = "remove" <=> v = Absent,
         Change(g, v, kind)
  PROVE  FilesFollowed'
<1> SUFFICES ASSUME NEW f \in Files, f \notin overtaken' \cup unseen'
             PROVE  Followed(f)'
  BY DEF FilesFollowed
<1>1. CASE f = g
  BY <1>1, ReportedChange
<1>2. CASE f # g
  <2>1. Followed(f)
    BY <1>2 DEF FilesFollowed, Change
  <2>2. fs'[f] = fs[f] /\ UNCHANGED <<index, watcher, scanner, unwritten>>
    BY <1>2 DEF Change, TypeOK, handVars
  <2>3. CASE UNCHANGED queue
    BY <2>1, <2>2, <2>3 DEF Followed, Noticed, LastEvent, InSync
  <2>4. CASE queue' = Append(queue, Event(kind, g))
    <3>1. Event(kind, g) \in Events /\ Event(kind, g).name # f
      BY <1>2 DEF Event, Events
    <3> QED  BY <2>1, <2>2, <2>4, <3>1, OtherEvent
  <2> QED  BY <2>3, <2>4 DEF Change
<1> QED  BY <1>1, <1>2

LEMMA HandleFollowed ==
  ASSUME TypeOK, FilesFollowed, HandleEvent
  PROVE  FilesFollowed'
<1> USE DEF HandleEvent, history
<1> SUFFICES ASSUME NEW f \in Files, f \notin overtaken \cup unseen PROVE Followed(f)'
  BY DEF FilesFollowed
<1> DEFINE e == Head(queue)
<1>1. Followed(f)
  BY DEF FilesFollowed
<1>2. /\ e \in Events
      /\ e = queue[1]
      /\ Len(queue) \in Nat \ {0}
      /\ DOMAIN queue = 1..Len(queue)
      /\ DOMAIN queue' = 1..(Len(queue) - 1)
      /\ \A i \in DOMAIN queue' : queue'[i] = queue[i + 1]
  BY HeadTailProperties, LenProperties, EmptySeq DEF TypeOK
<1>shift. \A j \in DOMAIN queue : j > 1 => j - 1 \in DOMAIN queue' /\ queue'[j - 1] = queue[j]
  BY <1>2
<1>3. \A i \in DOMAIN queue' : LastEvent(f, i)' => LastEvent(f, i + 1)
  <2> SUFFICES ASSUME NEW i \in DOMAIN queue', LastEvent(f, i)'
               PROVE  LastEvent(f, i + 1)
    OBVIOUS
  <2>1. i + 1 \in DOMAIN queue /\ queue[i + 1].name = f
    BY <1>2 DEF LastEvent
  <2>2. ASSUME NEW j \in DOMAIN queue, j > i + 1 PROVE queue[j].name # f
    <3>1. j > 1 /\ j - 1 \in DOMAIN queue' /\ j - 1 > i
      BY <1>2, <1>shift, <2>2
    <3> QED  BY <1>shift, <3>1 DEF LastEvent
  <2> QED  BY <2>1, <2>2 DEF LastEvent
<1>4. \A i \in DOMAIN queue' : LastEvent(f, i)' => (queue'[i].kind = "remove" <=> fs'[f] = Absent)
  BY <1>1, <1>2, <1>3 DEF Followed
<1>5. ASSUME ~Noticed(f)', e.name = f
      PROVE  \/ watcher' = Extract(f) /\ fs'[f] # Absent
             \/ watcher' = Delete(f) /\ fs'[f] = Absent
  <2>1. LastEvent(f, 1)
    <3>1. \A j \in DOMAIN queue : j > 1 => queue[j].name # f
      BY <1>shift, <1>5 DEF Noticed
    <3> QED  BY <1>2, <1>5, <3>1 DEF LastEvent
  <2>2. e.kind = "remove" <=> fs[f] = Absent
    BY <1>1, <1>2, <2>1 DEF Followed
  <2> QED  BY <1>5, <2>2, SubAssumption
<1>6. ASSUME ~Noticed(f)', e.name # f
      PROVE  ~Holds(watcher', f) /\ (InSync(f)' \/ f \in unwritten)
  <2>1. ~Noticed(f)
    <3>1. \A j \in DOMAIN queue : j > 1 => queue[j].name # f
      BY <1>shift, <1>6 DEF Noticed
    <3> QED  BY <1>2, <1>6, <3>1 DEF Noticed
  <2>2. InSync(f) \/ f \in unwritten
    BY <1>1, <2>1, HandKinds DEF Followed
  <2>3. e.name \in Files \cup {Sub}
    BY <1>2 DEF Events
  <2>4. ~Holds(watcher', f)
    BY <1>6, <2>3, HandKinds DEF Holds
  <2> QED  BY <2>2, <2>4 DEF InSync
<1>7. \A s \in Scanners, v \in Versions :
        scanner'[s] = Write(f, v) => v = fs'[f] /\ v \notin Unreadable
  BY <1>1 DEF Followed
<1> HIDE DEF e
<1> QED  BY <1>4, <1>5, <1>6, <1>7 DEF Followed

LEMMA GoroutineFollowed ==
  ASSUME TypeOK, FilesFollowed,
         \/ WatcherExtracts \/ WatcherWrites \/ ResetIndex
         \/ \E s \in Scanners : \/ ScannerExtracts(s) \/ ScannerWrites(s)
                                \/ \E g \in Files : ScanFile(s, g)
  PROVE  FilesFollowed'
<1>1. UNCHANGED <<fs, queue, overtaken, unseen>>
  BY DEF WatcherExtracts, WatcherWrites, ResetIndex, ScannerExtracts, ScannerWrites, ScanFile, history
<1> SUFFICES ASSUME NEW f \in Files, f \notin overtaken \cup unseen PROVE Followed(f)'
  BY <1>1 DEF FilesFollowed
<1>2. Followed(f)
  BY DEF FilesFollowed
<1>3. /\ Noticed(f)' <=> Noticed(f)
      /\ \A i : LastEvent(f, i)' <=> LastEvent(f, i)
  BY <1>1 DEF Noticed, LastEvent
<1> DEFINE Attended == \/ watcher = Extract(f) /\ fs[f] # Absent
                       \/ watcher = Write(f, fs[f])
                       \/ watcher = Delete(f) /\ fs[f] = Absent
                       \/ ~Holds(watcher, f) /\ (InSync(f) \/ f \in unwritten)
           ScannersFresh == \A s \in Scanners, v \in Versions :
                              scanner[s] = Write(f, v) => v = fs[f] /\ v \notin Unreadable
<1>4. (~Noticed(f) => Attended) /\ ScannersFresh
  BY <1>2 DEF Followed
<1>5. SUFFICES (Attended => Attended') /\ ScannersFresh'
  BY <1>1, <1>2, <1>3, <1>4 DEF Followed
<1>6. CASE WatcherExtracts
  <2>1. ScannersFresh'
    BY <1>4, <1>6 DEF WatcherExtracts
  <2>2. watcher.file \in Files /\ watcher = Extract(watcher.file)
    BY <1>6, HandCases DEF WatcherExtracts, TypeOK
  <2>10. CASE watcher' = Idle /\ unwritten' = unwritten \cup {watcher.file}
    <3>1. ~Holds(watcher', f)
      BY <2>10 DEF Holds
    <3>2. ASSUME Attended, watcher.file # f PROVE InSync(f) \/ f \in unwritten
      BY <2>2, <3>2, HandKinds
    <3>3. InSync(f)' <=> InSync(f)
      BY <1>1, <1>6 DEF WatcherExtracts, InSync
    <3>4. ASSUME Attended PROVE InSync(f)' \/ f \in unwritten'
      BY <2>10, <3>2, <3>3, <3>4
    <3> QED  BY <2>1, <3>1, <3>4
  <2> SUFFICES ASSUME watcher' = AfterExtract(watcher.file), unwritten' = unwritten
               PROVE  (Attended => Attended') /\ ScannersFresh'
    BY <1>6, <2>10 DEF WatcherExtracts
  <2>3. CASE watcher.file = f
    <3>1. Attended => fs[f] # Absent
      BY <2>2, <2>3, HandKinds DEF Holds
    <3>2. fs[f] \in {Absent} \cup Versions
      BY DEF TypeOK
    <3>3. CASE fs[f] \in Unreadable
      <4>1. watcher' = Idle
        BY <1>6, <2>3, <3>3 DEF WatcherExtracts, AfterExtract
      <4>2. ~Holds(watcher', f) /\ InSync(f)'
        BY <1>1, <3>3, <4>1 DEF Holds, InSync
      <4> QED  BY <2>1, <4>2
    <3>4. CASE fs[f] \notin Unreadable
      <4>1. ASSUME Attended PROVE watcher' = Write(f, fs'[f])
        BY <1>1, <1>6, <2>3, <3>1, <3>2, <3>4, <4>1 DEF WatcherExtracts, AfterExtract
      <4> QED  BY <2>1, <4>1
    <3> QED  BY <3>3, <3>4
  <2>4. CASE watcher.file # f
    <3>1. ~Holds(watcher', f)
      BY <1>6, <2>2, <2>4, HandKinds DEF WatcherExtracts, AfterExtract, Holds
    <3>2. Attended => InSync(f) \/ f \in unwritten
      BY <2>2, <2>4, HandKinds
    <3> QED  BY <1>1, <1>6, <2>1, <3>1, <3>2 DEF WatcherExtracts, InSync
  <2> QED  BY <2>1, <2>3, <2>4
<1>7. CASE WatcherWrites
  <2>1. ScannersFresh'
    BY <1>4, <1>7 DEF WatcherWrites
  <2>2. watcher.file \in Files /\ watcher.at \in {"write", "delete"}
    BY <1>7, HandCases DEF WatcherWrites, TypeOK
  <2>3. ~Holds(watcher', f)
    BY <1>7 DEF WatcherWrites, Holds
  <2>4. Attended => InSync(f)' \/ f \in unwritten'
    <3>1. CASE f \in unwritten' /\ watcher.file = f
      BY <3>1
    <3>2. CASE watcher.file = f /\ f \notin unwritten'
      BY <1>7, <2>2, <3>2, HandKinds DEF WatcherWrites, InSync, TypeOK, Holds
    <3>3. CASE watcher.file # f
      <4>1. Attended => InSync(f) \/ f \in unwritten
        BY <2>2, <3>3, HandKinds
      <4>2. index'[f] = index[f] /\ fs' = fs /\ (f \in unwritten => f \in unwritten')
        BY <1>7, <3>3 DEF WatcherWrites, TypeOK
      <4> QED  BY <4>1, <4>2 DEF InSync
    <3> QED  BY <3>1, <3>2, <3>3
  <2> QED  BY <2>1, <2>3, <2>4
<1>8. ASSUME NEW s \in Scanners, ScannerExtracts(s) PROVE (Attended => Attended') /\ ScannersFresh'
  <2>1. Attended => Attended'
    BY <1>8 DEF ScannerExtracts, InSync, Holds, history
  <2>2. scanner[s].file \in Files
    BY <1>8, HandCases DEF ScannerExtracts, TypeOK
  <2>3. ASSUME NEW v \in Versions, scanner'[s] = Write(f, v)
        PROVE  v = fs[f] /\ v \notin Unreadable
    <3>1. AfterExtract(scanner[s].file) = Write(f, v)
      BY <1>8, <2>3, HandKinds DEF ScannerExtracts, TypeOK
    <3> QED  BY <2>2, <3>1, HandKinds DEF AfterExtract
  <2>4. \A t \in Scanners \ {s} : scanner'[t] = scanner[t]
    BY <1>8 DEF ScannerExtracts, TypeOK
  <2>5. ScannersFresh'
    BY <1>1, <1>4, <2>3, <2>4
  <2> QED  BY <2>1, <2>5
<1>9. ASSUME NEW s \in Scanners, ScannerWrites(s) PROVE (Attended => Attended') /\ ScannersFresh'
  <2>1. /\ scanner[s].file \in Files /\ scanner[s].version \in Versions
        /\ scanner[s] = Write(scanner[s].file, scanner[s].version)
    BY <1>9, HandCases DEF ScannerWrites, TypeOK
  <2>2. scanner[s].file = f => scanner[s].version = fs[f]
    BY <1>4, <2>1
  <2>3. InSync(f) \/ f \in unwritten => InSync(f)' \/ f \in unwritten'
    <3>1. CASE index' = index /\ unwritten' = unwritten
      BY <1>1, <3>1 DEF InSync
    <3>2. CASE /\ index' = [index EXCEPT ![scanner[s].file] = scanner[s].version]
               /\ unwritten' = unwritten \ {scanner[s].file}
      <4>1. CASE scanner[s].file = f
        <5>1. index'[f] = fs'[f]
          BY <1>1, <2>2, <3>2, <4>1 DEF TypeOK
        <5> QED  BY <5>1 DEF InSync
      <4>2. CASE scanner[s].file # f
        <5>1. index'[f] = index[f] /\ (f \in unwritten => f \in unwritten')
          BY <3>2, <4>2 DEF TypeOK
        <5> QED  BY <1>1, <5>1 DEF InSync
      <4> QED  BY <4>1, <4>2
    <3> QED  BY <1>9, <3>1, <3>2 DEF ScannerWrites
  <2>4. Attended => Attended'
    <3>1. watcher' = watcher
      BY <1>9 DEF ScannerWrites
    <3> QED  BY <1>1, <2>3, <3>1 DEF Holds
  <2>5. \A t \in Scanners, v \in Versions : scanner'[t] = Write(f, v) => scanner[t] = Write(f, v)
    BY <1>9, HandKinds DEF ScannerWrites, TypeOK
  <2> QED  BY <1>1, <1>4, <2>4, <2>5
<1>10. ASSUME NEW s \in Scanners, NEW g \in Files, ScanFile(s, g)
       PROVE  (Attended => Attended') /\ ScannersFresh'
  <2>1. Attended => Attended'
    BY <1>10 DEF ScanFile, InSync, Holds, history
  <2>2. \A t \in Scanners, v \in Versions : scanner'[t] = Write(f, v) => scanner[t] = Write(f, v)
    <3>1. \A v \in Versions : Extract(g) # Write(f, v)
      BY HandKinds
    <3> QED  BY <1>10, <3>1 DEF ScanFile, TypeOK
  <2> QED  BY <1>1, <1>4, <2>1, <2>2
<1>11. CASE ResetIndex
  <2>1. Attended => Attended'
    BY <1>11 DEF ResetIndex, InSync, handVars, Holds
  <2> QED  BY <1>1, <1>4, <1>11, <2>1 DEF ResetIndex, handVars
<1> QED  BY <1>6, <1>7, <1>8, <1>9, <1>10, <1>11

LEMMA StepFollowed == TypeOK /\ FilesFollowed /\ [Next]_vars => FilesFollowed'
<1> SUFFICES ASSUME TypeOK, FilesFollowed, [Next]_vars PROVE FilesFollowed'
  OBVIOUS
<1>1. CASE \E f \in Files : CreateFile(f) \/ WriteFile(f) \/ RemoveFile(f)
  <2>1. Absent \notin Versions
    BY DEF Absent, Versions
  <2> QED  BY <1>1, <2>1, ChangeFollowed DEF CreateFile, WriteFile, RemoveFile
<1>2. CASE MakeSub
  <2> SUFFICES ASSUME NEW f \in Files, f \notin overtaken \cup unseen PROVE Followed(f)'
    BY <1>2 DEF FilesFollowed, MakeSub, history
  <2>1. Event("create", Sub) \in Events /\ Event("create", Sub).name # f
    BY SubAssumption DEF Event, Events
  <2>2. CASE queue' = Append(queue, Event("create", Sub))
    BY <1>2, <2>1, <2>2, OtherEvent DEF MakeSub, FilesFollowed, handVars, history
  <2>3. CASE UNCHANGED queue
    BY <1>2, <2>3 DEF MakeSub, FilesFollowed, Followed, Noticed, LastEvent, InSync, handVars, history
  <2> QED  BY <1>2, <2>2, <2>3 DEF MakeSub
<1>3. CASE HandleEvent
  BY <1>3, HandleFollowed
<1>4. CASE \/ WatcherExtracts \/ WatcherWrites \/ ResetIndex
           \/ \E s \in Scanners : \/ ScannerExtracts(s) \/ ScannerWrites(s)
                                  \/ \E g \in Files : ScanFile(s, g)
  BY <1>4, GoroutineFollowed
<1>5. CASE UNCHANGED vars
  BY <1>5 DEF vars, handVars, history, FilesFollowed, Followed, Noticed, LastEvent, InSync
<1> QED  BY <1>1, <1>2, <1>3, <1>4, <1>5 DEF Next, FileSystem, Watch, Scan

\* The invariant behind it: each file is in sync, or an event or the watcher will bring
\* it in sync, or the watcher failed on it or a reset took it out, whatever else fails.
THEOREM FilesAreFollowed == SafetySpec => []FilesFollowed
BY InitFollowed, StepFollowed, TypeCorrect, PTL DEF SafetySpec

LEMMA FollowedSettled == TypeOK /\ FilesFollowed => StaleOnlyIfMissed
<1> SUFFICES ASSUME TypeOK, FilesFollowed, NEW f \in Files,
                    f \notin overtaken \cup unseen \cup unwritten, Settled(f)
             PROVE  InSync(f)
  BY DEF StaleOnlyIfMissed
<1>1. ~Noticed(f) /\ ~Holds(watcher, f)
  BY DEF Settled
<1>2. \A v \in {Absent} \cup Versions : Holds(Extract(f), f) /\ Holds(Write(f, v), f) /\ Holds(Delete(f), f)
  BY HandKinds DEF Holds
<1>3. fs[f] \in {Absent} \cup Versions
  BY DEF TypeOK
<1> QED  BY <1>1, <1>2, <1>3 DEF FilesFollowed, Followed

\* While the program runs, the index can be wrong about a settled file only for the
\* reasons named: a scan worker's text that was overtaken, a change nobody reported, or a
\* failure in the watcher's hands or a reset after which nobody wrote the file
\* (handleEvent, IndexFile, RemoveFile, Engine.Reset).
THEOREM IndexFollowsFiles == SafetySpec => []StaleOnlyIfMissed
BY FilesAreFollowed, FollowedSettled, TypeCorrect, PTL

\* With no scan running, no subdirectory, no event dropped, no reset, and no failing read
\* or write, the watcher alone keeps every settled file in sync with the index.
THEOREM WatcherAloneFollows ==
  ASSUME Scanners = {}, SubFiles = {}, ~Lossy, ~Faults, ~Resets
  PROVE  SafetySpec => []SettledIsInSync
<1> DEFINE NothingMissed == overtaken = {} /\ unseen = {} /\ unwritten = {}
<1>1. Init => NothingMissed
  BY DEF Init
<1>2. NothingMissed /\ [Next]_vars => NothingMissed'
  <2> SUFFICES ASSUME NothingMissed, [Next]_vars PROVE NothingMissed'
    OBVIOUS
  <2>1. CASE FileSystem
    BY <2>1 DEF FileSystem, CreateFile, WriteFile, RemoveFile, Change, MakeSub, history
  <2>2. CASE Watch
    BY <2>2 DEF Watch, HandleEvent, WatcherExtracts, WatcherWrites, history
  <2>3. CASE UNCHANGED vars
    BY <2>3 DEF vars, history
  <2> QED  BY <2>1, <2>2, <2>3 DEF Next, ResetIndex
<1>3. StaleOnlyIfMissed /\ NothingMissed => SettledIsInSync
  BY DEF StaleOnlyIfMissed, SettledIsInSync
<1> HIDE DEF NothingMissed
<1> QED  BY <1>1, <1>2, <1>3, IndexFollowsFiles, PTL DEF SafetySpec
=============================================================================
