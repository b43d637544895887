----------------------------- MODULE UsecaseProof -----------------------------
(***************************************************************************)
(* Proofs about the use cases of internal/usecase that have a state of     *)
(* their own: one scan (IndexRun), the flag that keeps scans apart         *)
(* (IndexRunner) and a search (Searching). Their variables are disjoint,   *)
(* and each theorem is about the specification of one of them.             *)
(***************************************************************************)
EXTENDS IndexRun, IndexRunner, Searching, SequenceLemmas, FiniteSetTheorems, SequenceTheorems, TLAPS

-----------------------------------------------------------------------------
(* One scan (IndexRun): any tree, channel capacity and pool size. *)

Elements(s) == {s[i] : i \in DOMAIN s}
Distinct(s) == \A i, j \in DOMAIN s : s[i] = s[j] => i = j

\* Sending adds one element to the channel, and keeps its elements distinct when
\* the new one is not there.
LEMMA AppendElements ==
  ASSUME NEW S, NEW s \in Seq(S), NEW e \in S
  PROVE  /\ Append(s, e) \in Seq(S)
         /\ Len(Append(s, e)) = Len(s) + 1
         /\ Append(s, e) # <<>>
         /\ Elements(Append(s, e)) = Elements(s) \cup {e}
         /\ Distinct(s) /\ e \notin Elements(s) => Distinct(Append(s, e))
<1>1. /\ Append(s, e) \in Seq(S)
      /\ Len(Append(s, e)) = Len(s) + 1
      /\ \A i \in 1..Len(s) : Append(s, e)[i] = s[i]
      /\ Append(s, e)[Len(s) + 1] = e
  BY AppendProperties
<1>2. /\ Len(s) \in Nat
      /\ DOMAIN s = 1..Len(s)
      /\ DOMAIN Append(s, e) = 1..(Len(s) + 1)
  BY <1>1, LenProperties
<1>3. Append(s, e) # <<>>
  BY <1>1, <1>2, EmptySeq
<1>4. Elements(Append(s, e)) = Elements(s) \cup {e}
  BY <1>1, <1>2 DEF Elements
<1>5. Distinct(s) /\ e \notin Elements(s) => Distinct(Append(s, e))
  BY <1>1, <1>2 DEF Elements, Distinct
<1> QED  BY <1>1, <1>3, <1>4, <1>5

\* Receiving removes the head of the channel and nothing else.
LEMMA TailElements ==
  ASSUME NEW S, NEW s \in Seq(S), s # <<>>
  PROVE  /\ Head(s) \in S
         /\ Tail(s) \in Seq(S)
         /\ Len(Tail(s)) = Len(s) - 1
         /\ Elements(s) = Elements(Tail(s)) \cup {Head(s)}
         /\ Distinct(s) => Distinct(Tail(s)) /\ Head(s) \notin Elements(Tail(s))
<1>1. /\ Head(s) \in S
      /\ Tail(s) \in Seq(S)
      /\ Len(Tail(s)) = Len(s) - 1
      /\ \A i \in 1..Len(Tail(s)) : Tail(s)[i] = s[i + 1]
  BY HeadTailProperties
<1>2. /\ Len(s) \in Nat \ {0}
      /\ DOMAIN s = 1..Len(s)
      /\ DOMAIN Tail(s) = 1..(Len(s) - 1)
  BY <1>1, LenProperties, EmptySeq
<1>3. Head(s) = s[1]
  BY <1>2
<1>4. Elements(s) = Elements(Tail(s)) \cup {Head(s)}
  <2>1. ASSUME NEW i \in DOMAIN s
        PROVE  s[i] \in Elements(Tail(s)) \cup {Head(s)}
    <3>1. CASE i = 1
      BY <3>1, <1>3
    <3>2. CASE i # 1
      <4>1. i - 1 \in DOMAIN Tail(s) /\ Tail(s)[i - 1] = s[i]
        BY <3>2, <1>1, <1>2
      <4> QED  BY <4>1 DEF Elements
    <3> QED  BY <3>1, <3>2
  <2>2. ASSUME NEW i \in DOMAIN Tail(s)
        PROVE  Tail(s)[i] \in Elements(s)
    BY <1>1, <1>2 DEF Elements
  <2>3. Head(s) \in Elements(s)
    BY <1>2, <1>3 DEF Elements
  <2> QED  BY <2>1, <2>2, <2>3 DEF Elements
<1>5. Distinct(s) => Distinct(Tail(s)) /\ Head(s) \notin Elements(Tail(s))
  BY <1>1, <1>2, <1>3 DEF Elements, Distinct
<1> QED  BY <1>1, <1>4, <1>5

\* The pool has at least one worker, whatever its configured size.
LEMMA PoolSizePositive == PoolSize \in Nat \ {0}
BY SizeAssumption DEF PoolSize

LEMMA RunningFinite ==
  ASSUME NEW T \in SUBSET Workers
  PROVE  IsFiniteSet(T) /\ Cardinality(T) \in 0..PoolSize
<1>1. IsFiniteSet(Workers) /\ Cardinality(Workers) = PoolSize
  BY PoolSizePositive, FS_Interval DEF Workers
<1>2. IsFiniteSet(T) /\ Cardinality(T) <= PoolSize
  BY <1>1, FS_Subset
<1>3. Cardinality(T) \in Nat
  BY <1>2, FS_CardinalityType
<1> QED  BY <1>2, <1>3, PoolSizePositive

-----------------------------------------------------------------------------
\* The inductive invariant: each of its parts is also checked by TLC.
IndInv == TypeOK /\ EachDocumentOnce /\ GoroutineProtocol

LEMMA InitInvariant == Init => IndInv
<1> SUFFICES ASSUME Init PROVE IndInv
  OBVIOUS
<1> USE NAssumption, CapAssumption, PoolSizePositive DEF Init
<1>1. jobs \in Seq(Entries) /\ Len(jobs) = 0 /\ DOMAIN jobs = {} /\ Queued = {}
  BY EmptySeq DEF Queued
<1>2. InHand = {} /\ Visited = {} /\ Running = {}
  BY DEF InHand, Visited, Running, New, Gone, Entries
<1>3. Cardinality(Running) = 0
  BY <1>2, FS_EmptySet
<1>4. TypeOK
  <2>1. jobs \in Seq(Entries) /\ Len(jobs) <= Cap
    BY <1>1
  <2>2. worker \in [Workers -> Entries \cup {New, Idle, Gone}]
    OBVIOUS
  <2>3. pos \in 1..(N + 1) /\ wg \in 0..PoolSize
    OBVIOUS
  <2> QED  BY <2>1, <2>2, <2>3 DEF TypeOK
<1>5. EachDocumentOnce
  BY <1>1, <1>2 DEF EachDocumentOnce, Entries, New
<1>6. GoroutineProtocol
  BY <1>1, <1>3 DEF GoroutineProtocol, New, Gone
<1> QED  BY <1>4, <1>5, <1>6 DEF IndInv

\* Facts every step below uses about the values a worker's state can have.
LEMMA WorkerStates == /\ New # Idle /\ New # Gone /\ Idle # Gone
                      /\ New \notin Entries /\ Idle \notin Entries /\ Gone \notin Entries
BY NAssumption DEF New, Idle, Gone, Entries

\* What happens in the walk and in the pool's bookkeeping leaves the documents
\* where they are.
LEMMA DocumentsUntouched ==
  ASSUME EachDocumentOnce,
         UNCHANGED <<tree, jobs, outcome>>,
         Visited' = Visited,
         InHand' = InHand,
         \A v, w \in Workers : worker'[v] = worker'[w] /\ worker'[v] \in Entries => v = w
  PROVE  EachDocumentOnce'
<1>1. Queued' = Queued
  BY DEF Queued
<1> QED  BY <1>1 DEF EachDocumentOnce

LEMMA StepInvariant == IndInv /\ [Next]_vars => IndInv'
<1> SUFFICES ASSUME IndInv, [Next]_vars PROVE IndInv'
  OBVIOUS
<1> USE NAssumption, CapAssumption, PoolSizePositive, WorkerStates
    DEF IndInv, walkVars, poolVars
<1>1. CASE SendJob
  <2> USE <1>1 DEF SendJob
  <2>1. /\ jobs' \in Seq(Entries) /\ Len(jobs') <= Cap /\ jobs' # <<>>
        /\ Queued' = Queued \cup {pos}
        /\ Distinct(jobs) /\ pos \notin Queued => Distinct(jobs')
    BY AppendElements, LenProperties DEF TypeOK, Queued, Elements
  <2>2. TypeOK'
    BY <2>1 DEF TypeOK, Entries
  <2>3. Visited' = Visited \cup {pos} /\ pos \notin Visited /\ InHand' = InHand
    BY DEF Visited, InHand, TypeOK, Entries
  <2>4. EachDocumentOnce'
    BY <2>1, <2>3 DEF EachDocumentOnce, Distinct
  <2>5. GoroutineProtocol'
    BY <2>1 DEF GoroutineProtocol, TypeOK, Entries, Running
  <2> QED  BY <2>2, <2>4, <2>5
<1>2. CASE SkipEntry
  <2> USE <1>2 DEF SkipEntry
  <2>1. TypeOK'
    BY DEF TypeOK, Entries
  <2>2. Visited' = Visited /\ InHand' = InHand
    BY DEF Visited, InHand, TypeOK, Entries
  <2>3. EachDocumentOnce'
    BY <2>2, DocumentsUntouched DEF EachDocumentOnce
  <2>4. GoroutineProtocol'
    BY DEF GoroutineProtocol, TypeOK, Entries, Running
  <2> QED  BY <2>1, <2>3, <2>4
<1>3. CASE AbortWalk \/ EndWalk \/ CloseJobs \/ Return
  <2> USE <1>3 DEF AbortWalk, EndWalk, CloseJobs, Return
  <2>1. TypeOK'
    BY DEF TypeOK
  <2>2. EachDocumentOnce'
    BY DocumentsUntouched DEF EachDocumentOnce, Visited, InHand
  <2>3. Running' = Running
    BY DEF Running
  <2>4. GoroutineProtocol'
    <3>1. CASE AbortWalk
      BY <3>1, <2>3 DEF GoroutineProtocol
    <3>2. CASE EndWalk
      BY <3>2, <2>3 DEF GoroutineProtocol, TypeOK
    <3>3. CASE CloseJobs
      BY <3>3, <2>3 DEF GoroutineProtocol
    <3>4. CASE Return
      BY <3>4, <2>3 DEF GoroutineProtocol
    <3> QED  BY <3>1, <3>2, <3>3, <3>4
  <2> QED  BY <2>1, <2>2, <2>4
<1>4. CASE FinishPool
  <2> USE <1>4 DEF FinishPool
  <2>1. TypeOK'
    BY DEF TypeOK
  <2>2. EachDocumentOnce'
    BY DocumentsUntouched DEF EachDocumentOnce, Visited, InHand
  <2>3. Running = {}
    BY RunningFinite, FS_EmptySet DEF GoroutineProtocol, Running
  <2>4. \A w \in Workers : worker[w] = Gone
    BY <2>3 DEF GoroutineProtocol, Running
  <2>5. GoroutineProtocol'
    BY <2>4 DEF GoroutineProtocol, Running
  <2> QED  BY <2>1, <2>2, <2>5
<1>5. ASSUME NEW w \in Workers, SpawnWorker(w) PROVE IndInv'
  <2> USE <1>5 DEF SpawnWorker
  <2>1. InHand' = InHand /\ Visited' = Visited
    BY DEF InHand, Visited, TypeOK
  <2>2. EachDocumentOnce'
    BY <2>1, DocumentsUntouched DEF EachDocumentOnce, TypeOK
  <2>3. Running' = Running \cup {w} /\ w \notin Running
    BY DEF Running, TypeOK
  <2>4. wg' = Cardinality(Running') /\ wg' \in 0..PoolSize
    <3>1. IsFiniteSet(Running)
      BY RunningFinite DEF Running
    <3>2. Cardinality(Running') = Cardinality(Running) + 1
      BY <2>3, <3>1, FS_AddElement
    <3>3. Cardinality(Running') \in 0..PoolSize
      BY <2>3, RunningFinite DEF Running
    <3> QED  BY <3>2, <3>3 DEF GoroutineProtocol
  <2>5. TypeOK'
    BY <2>4 DEF TypeOK
  <2>6. pool' # "spawn" => \A v \in Workers : worker'[v] # New
    BY DEF TypeOK, Workers, GoroutineProtocol
  <2>7. GoroutineProtocol'
    BY <2>4, <2>6 DEF GoroutineProtocol, TypeOK, Workers
  <2> QED  BY <2>2, <2>5, <2>7
<1>6. ASSUME NEW w \in Workers, Receive(w) PROVE IndInv'
  <2> USE <1>6 DEF Receive
  <2>1. /\ Head(jobs) \in Entries
        /\ jobs' \in Seq(Entries) /\ Len(jobs') <= Cap
        /\ Queued = Queued' \cup {Head(jobs)}
        /\ Distinct(jobs) => Distinct(jobs') /\ Head(jobs) \notin Queued'
    <3>1. jobs \in Seq(Entries) /\ jobs # <<>> /\ Len(jobs) \in Nat /\ Len(jobs) <= Cap
      BY LenProperties DEF TypeOK
    <3>2. Queued = Elements(jobs) /\ Queued' = Elements(jobs')
      BY DEF Queued, Elements
    <3> QED  BY <3>1, <3>2, TailElements
  <2>2. TypeOK'
    BY <2>1 DEF TypeOK
  <2>3. InHand' = InHand \cup {Head(jobs)} /\ Visited' = Visited
    BY <2>1 DEF InHand, Visited, TypeOK
  <2>4. Head(jobs) \in Queued /\ Head(jobs) \notin Queued' /\ Head(jobs) \notin InHand
    BY <2>1 DEF EachDocumentOnce, Distinct
  <2>5. EachDocumentOnce'
    <3>1. \A u, v \in Workers :
             worker'[u] = worker'[v] /\ worker'[u] \in Entries => u = v
      BY <2>4 DEF EachDocumentOnce, InHand, TypeOK
    <3>2. \A p \in Queued' \cup InHand' : p \in Visited' /\ outcome'[p] = "none"
      BY <2>1, <2>3, <2>4 DEF EachDocumentOnce
    <3>3. Queued' \cap InHand' = {}
      BY <2>1, <2>3, <2>4 DEF EachDocumentOnce
    <3>4. \A p \in Visited' : outcome'[p] # "none" \/ p \in Queued' \/ p \in InHand'
      BY <2>1, <2>3 DEF EachDocumentOnce
    <3> QED  BY <3>1, <3>2, <3>3, <3>4, <2>1, <2>3 DEF EachDocumentOnce, Distinct
  <2>6. Running' = Running
    BY <2>1 DEF Running, TypeOK
  <2>7. \A v \in Workers : worker[v] # Gone /\ worker'[v] # Gone
    BY <2>1 DEF GoroutineProtocol, TypeOK
  <2>8. \A u, v \in Workers : u < v /\ worker'[v] # New => worker'[u] # New
    BY <2>1 DEF GoroutineProtocol, TypeOK
  <2>9. pool' # "spawn" => \A v \in Workers : worker'[v] # New
    BY <2>1 DEF GoroutineProtocol, TypeOK
  <2>10. pool' # "finished"
    BY <2>7 DEF GoroutineProtocol
  <2>11. GoroutineProtocol'
    BY <2>6, <2>7, <2>8, <2>9, <2>10 DEF GoroutineProtocol
  <2> QED  BY <2>2, <2>5, <2>11
<1>7. ASSUME NEW w \in Workers, ProcessJob(w) PROVE IndInv'
  <2> USE <1>7 DEF ProcessJob
  <2>1. TypeOK'
    BY DEF TypeOK
  <2>2. InHand' = InHand \ {worker[w]} /\ Visited' = Visited /\ Queued' = Queued
    BY DEF InHand, Visited, Queued, EachDocumentOnce, TypeOK
  <2>3. outcome'[worker[w]] # "none" /\ \A p \in Entries \ {worker[w]} : outcome'[p] = outcome[p]
    BY DEF TypeOK
  <2>4. worker[w] \in InHand
    BY DEF InHand
  <2>5. EachDocumentOnce'
    <3>1. \A u, v \in Workers :
             worker'[u] = worker'[v] /\ worker'[u] \in Entries => u = v
      BY DEF EachDocumentOnce, TypeOK
    <3>2. Visited \subseteq Entries
      BY DEF Visited
    <3>3. \A p \in Queued' \cup InHand' : p \in Visited' /\ outcome'[p] = "none"
      BY <2>2, <2>3, <2>4, <3>2 DEF EachDocumentOnce
    <3>4. \A p \in Visited' : outcome'[p] # "none" \/ p \in Queued' \/ p \in InHand'
      BY <2>2, <2>3, <3>2 DEF EachDocumentOnce
    <3>5. \A p \in Entries : outcome'[p] # "none" => p \in Visited'
      BY <2>2, <2>3, <2>4 DEF EachDocumentOnce
    <3> QED  BY <3>1, <3>3, <3>4, <3>5, <2>2 DEF EachDocumentOnce
  <2>6. Running' = Running
    BY DEF Running, TypeOK
  <2>7. \A v \in Workers : worker'[v] = Gone <=> worker[v] = Gone
    BY DEF TypeOK
  <2>8. \A v \in Workers : worker'[v] = New <=> worker[v] = New
    BY DEF TypeOK
  <2>9. GoroutineProtocol'
    BY <2>6, <2>7, <2>8 DEF GoroutineProtocol
  <2> QED  BY <2>1, <2>5, <2>9
<1>8. ASSUME NEW w \in Workers, ExitWorker(w) PROVE IndInv'
  <2> USE <1>8 DEF ExitWorker
  <2>1. InHand' = InHand /\ Visited' = Visited
    BY DEF InHand, Visited, TypeOK
  <2>2. EachDocumentOnce'
    BY <2>1, DocumentsUntouched DEF EachDocumentOnce, TypeOK
  <2>3. Running' = Running \ {w} /\ w \in Running
    BY DEF Running, TypeOK
  <2>4. wg' = Cardinality(Running') /\ wg' \in 0..PoolSize
    <3>1. IsFiniteSet(Running)
      BY RunningFinite DEF Running
    <3>2. Cardinality(Running') = Cardinality(Running) - 1
      BY <2>3, <3>1, FS_RemoveElement
    <3>3. Cardinality(Running') \in 0..PoolSize
      BY <2>3, RunningFinite DEF Running
    <3> QED  BY <3>2, <3>3 DEF GoroutineProtocol
  <2>5. TypeOK'
    BY <2>4 DEF TypeOK
  <2>6. GoroutineProtocol'
    BY <2>4 DEF GoroutineProtocol, TypeOK
  <2> QED  BY <2>2, <2>5, <2>6
<1>9. CASE UNCHANGED vars
  BY <1>9 DEF vars, TypeOK, EachDocumentOnce, GoroutineProtocol, Queued, InHand,
              Visited, Running
<1> QED
  BY <1>1, <1>2, <1>3, <1>4, <1>5, <1>6, <1>7, <1>8, <1>9
  DEF Next, Caller, Pool, Worker, Terminated

\* The inductive invariant holds in every reachable state.
THEOREM Invariance == SafetySpec => []IndInv
BY InitInvariant, StepInvariant, PTL DEF SafetySpec

\* The state of a call of Run always has the types the code gives it.
THEOREM TypeCorrect == SafetySpec => []TypeOK
BY Invariance, PTL DEF IndInv

\* No path is lost or processed twice on its way through the channel and the
\* pool, for every number of documents, channel capacity and pool size.
THEOREM DocumentsProcessedOnce == SafetySpec => []EachDocumentOnce
BY Invariance, PTL DEF IndInv

\* The channel is closed once, `done` closes after the last worker, and Run's error is
\* the walk's, for every number of workers (Run, Pool.Run).
THEOREM GoroutinesKeepStep == SafetySpec => []GoroutineProtocol
BY Invariance, PTL DEF IndInv

\* What the protocol leaves when Run has returned.
LEMMA ReturnedIsQuiet == IndInv => NothingOutlivesRun
<1> SUFFICES ASSUME IndInv, caller = "returned" PROVE
       /\ jobs = <<>>
       /\ \A w \in Workers : worker[w] = Gone
       /\ \A p \in Visited : outcome[p] # "none"
       /\ pool = "finished"
  BY DEF NothingOutlivesRun
<1>1. pool = "finished" /\ \A w \in Workers : worker[w] = Gone
  BY DEF IndInv, GoroutineProtocol
<1>2. jobs = <<>>
  BY <1>1, PoolSizePositive DEF IndInv, GoroutineProtocol, Workers
<1>3. Queued = {} /\ InHand = {}
  BY <1>1, <1>2, WorkerStates DEF Queued, InHand
<1> QED  BY <1>1, <1>2, <1>3 DEF IndInv, EachDocumentOnce

\* When Run returns, its goroutines are over and nothing is left to process.
THEOREM RunLeavesNothing == SafetySpec => []NothingOutlivesRun
BY Invariance, ReturnedIsQuiet, PTL

-----------------------------------------------------------------------------
\* Each initial state is one of the contract's.
LEMMA ContractInit == Init => Contract!Init
BY DEF Init, Contract!Init, Contract!Entries, Contract!Kinds, Entries, Kinds

\* Each step is the contract's Process, its Return, or no step of it.
LEMMA ContractStep == IndInv /\ [Next]_vars => [Contract!Next]_(Contract!vars)
<1> SUFFICES ASSUME IndInv, [Next]_vars PROVE [Contract!Next]_(Contract!vars)
  OBVIOUS
<1> USE NAssumption, WorkerStates DEF IndInv, Contract!vars, walkVars, poolVars
<1>1. Contract!Entries = Entries
  BY DEF Contract!Entries, Entries
<1>2. CASE \/ SendJob \/ SkipEntry \/ FinishPool
           \/ \E w \in Workers : SpawnWorker(w) \/ Receive(w) \/ ExitWorker(w)
  BY <1>2 DEF SendJob, SkipEntry, FinishPool, SpawnWorker, Receive, ExitWorker
<1>3. CASE AbortWalk \/ EndWalk \/ CloseJobs
  BY <1>3 DEF AbortWalk, EndWalk, CloseJobs
<1>4. ASSUME NEW w \in Workers, ProcessJob(w)
      PROVE  Contract!Process(worker[w]) /\ worker[w] \in Contract!Entries
  <2>1. worker[w] \in InHand /\ worker[w] \in Entries
    BY <1>4 DEF ProcessJob, InHand
  <2>2. worker[w] \in Visited /\ outcome[worker[w]] = "none"
    BY <2>1 DEF EachDocumentOnce
  <2>3. worker[w] \in Contract!Reachable
    BY <2>1, <2>2, <1>1 DEF Contract!Reachable, GoroutineProtocol, TypeOK, Visited, Entries
  <2>4. caller # "returned"
    BY <2>1, ReturnedIsQuiet DEF NothingOutlivesRun
  <2> QED  BY <1>1, <1>4, <2>1, <2>2, <2>3, <2>4 DEF ProcessJob, Contract!Process
<1>5. CASE Return
  <2> USE <1>5 DEF Return
  <2>1. /\ \A w \in Workers : worker[w] = Gone
        /\ jobs = <<>>
    BY PoolSizePositive DEF GoroutineProtocol, Workers
  <2>2. \A p \in Visited : outcome[p] # "none"
    BY <2>1 DEF EachDocumentOnce, Queued, InHand
  <2>3. Contract!Reachable \subseteq Visited
    BY <1>1 DEF Contract!Reachable, Visited, GoroutineProtocol, TypeOK, Entries
  <2>4. Contract!HasError <=> err
    BY <1>1 DEF Contract!HasError, GoroutineProtocol, TypeOK, Entries
  <2>5. Contract!Return
    BY <2>2, <2>3, <2>4 DEF Contract!Return, TypeOK
  <2> QED  BY <2>5 DEF Contract!Next
<1>6. CASE UNCHANGED vars
  BY <1>6 DEF vars
<1> QED
  BY <1>2, <1>3, <1>4, <1>5, <1>6
  DEF Next, Caller, Pool, Worker, Terminated, Contract!Next

\* Run with its channel and pool implements the contract: every document the
\* walk reaches is processed exactly once before Run returns, documents that
\* fail do not stop the others, and the result is the error of the walk.
THEOREM RunImplementsContract == SafetySpec => ImplementsContractSafely
<1>1. Init => Contract!Init
  BY ContractInit
<1>2. IndInv /\ [Next]_vars => [Contract!Next]_(Contract!vars)
  BY ContractStep
<1> QED  BY <1>1, <1>2, Invariance, PTL
         DEF SafetySpec, ImplementsContractSafely, Contract!SafetySpec

-----------------------------------------------------------------------------
(* A scan ends (IndexRun). *)

\* While the pool starts its workers the last is still to be started.
SpawnInv == pool = "spawn" => worker[PoolSize] = New

Stage(c) == IF c = "walk" THEN 3 ELSE IF c = "close" THEN 2 ELSE IF c = "wait" THEN 1 ELSE 0
Present == {w \in Workers : worker[w] # Gone}       \* those that have not left
Ahead == {w \in Workers : worker[w] \notin {Idle, Gone}}  \* not started, or with a path

\* How many steps are left to a scan at most: for an entry that the walk comes to,
\* three; for a path in the channel, two; the ways of the caller, the pool and the
\* workers.
StepsLeft == 3 * (N + 1 - pos) + 2 * Len(jobs) + Stage(caller)
             + Cardinality(Present) + Cardinality(Ahead)
             + IF pool = "finished" THEN 0 ELSE 1

\* One of the goroutines can take its next step: the guards of Caller, Pool and Worker.
CanGo == \/ caller = "walk" /\ (pos = N + 1 \/ tree[pos] # "doc" \/ Len(jobs) < Cap)
         \/ caller = "close"
         \/ caller = "wait" /\ done
         \/ \E w \in Workers : /\ pool = "spawn" /\ worker[w] = New
                               /\ \A v \in 1..(w - 1) : worker[v] # New
         \/ pool = "wait" /\ wg = 0
         \/ \E w \in Workers : \/ worker[w] \in Entries
                               \/ worker[w] = Idle /\ (jobs # <<>> \/ closed)

LEMMA CountsTyped ==
  /\ IsFiniteSet(Workers)
  /\ \A S \in SUBSET Workers : IsFiniteSet(S) /\ Cardinality(S) \in Nat
<1>1. IsFiniteSet(Workers)
  BY FS_Interval, PoolSizePositive DEF Workers
<1> QED  BY <1>1, FS_Subset, FS_CardinalityType

LEMMA StepsLeftTyped == TypeOK => StepsLeft \in Nat
<1> SUFFICES ASSUME TypeOK PROVE StepsLeft \in Nat
  OBVIOUS
<1>1. Cardinality(Present) \in Nat /\ Cardinality(Ahead) \in Nat
  BY CountsTyped DEF Present, Ahead
<1>2. Len(jobs) \in Nat /\ N + 1 - pos \in Nat
  BY NAssumption DEF TypeOK
<1>3. Stage(caller) \in Nat
  BY DEF Stage
<1> QED  BY <1>1, <1>2, <1>3 DEF StepsLeft

\* What one worker's step does to the two sets.
LEMMA WorkersCounted ==
  ASSUME NEW w \in Workers, NEW x, worker \in [Workers -> Entries \cup {New, Idle, Gone}],
         x \in Entries \cup {New, Idle, Gone}, worker' = [worker EXCEPT ![w] = x]
  PROVE  /\ Present' = IF x = Gone THEN Present \ {w} ELSE Present \cup {w}
         /\ Ahead' = IF x \in {Idle, Gone} THEN Ahead \ {w} ELSE Ahead \cup {w}
         /\ w \in Present <=> worker[w] # Gone
         /\ w \in Ahead <=> worker[w] \notin {Idle, Gone}
<1>1. worker'[w] = x /\ \A v \in Workers \ {w} : worker'[v] = worker[v]
  OBVIOUS
<1>2. Present' = IF x = Gone THEN Present \ {w} ELSE Present \cup {w}
  BY <1>1 DEF Present
<1>3. Ahead' = IF x \in {Idle, Gone} THEN Ahead \ {w} ELSE Ahead \cup {w}
  BY <1>1 DEF Ahead
<1> QED  BY <1>2, <1>3 DEF Present, Ahead

LEMMA SetsKept == worker' = worker => Present' = Present /\ Ahead' = Ahead
BY DEF Present, Ahead

LEMMA StepShortens == IndInv /\ [Next]_vars => [StepsLeft' < StepsLeft]_vars
<1> SUFFICES ASSUME IndInv, Next, vars' # vars PROVE StepsLeft' < StepsLeft
  OBVIOUS
<1> USE NAssumption
<1>1. TypeOK /\ IsFiniteSet(Present) /\ IsFiniteSet(Ahead)
      /\ Cardinality(Present) \in Nat /\ Cardinality(Ahead) \in Nat
  BY CountsTyped DEF IndInv, Present, Ahead
<1>2. PICK a \in Nat, b \in Nat, n \in Nat : a = Cardinality(Present) /\ b = Cardinality(Ahead) /\ n = Len(jobs)
  BY <1>1 DEF TypeOK
<1>3. PICK f \in {0, 1} : f = IF pool = "finished" THEN 0 ELSE 1
  OBVIOUS
<1>4. StepsLeft = 3 * (N + 1 - pos) + 2 * n + Stage(caller) + a + b + f
  BY <1>2, <1>3 DEF StepsLeft
<1>5. pos \in 1..(N + 1) /\ jobs \in Seq(Entries)
  BY <1>1 DEF TypeOK
<1>6. CASE SendJob
  <2>1. Len(jobs') = n + 1 /\ pos' = pos + 1 /\ UNCHANGED <<caller, pool, worker>>
    BY <1>2, <1>5, <1>6, AppendElements, LenProperties DEF SendJob, poolVars
  <2>2. StepsLeft' = 3 * (N + 1 - (pos + 1)) + 2 * (n + 1) + Stage(caller) + a + b + f
    BY <1>2, <1>3, <2>1, SetsKept DEF StepsLeft
  <2> QED  BY <1>4, <1>5, <2>2 DEF Stage
<1>7. CASE SkipEntry
  <2>1. UNCHANGED <<caller, pool, worker, jobs>> /\ pos' = pos + 1
    BY <1>7 DEF SkipEntry, poolVars
  <2>2. StepsLeft' = 3 * (N + 1 - (pos + 1)) + 2 * n + Stage(caller) + a + b + f
    BY <1>2, <1>3, <2>1, SetsKept DEF StepsLeft
  <2> QED  BY <1>4, <1>5, <2>2 DEF Stage
<1>8. CASE AbortWalk \/ EndWalk \/ CloseJobs \/ Return
  <2>1. UNCHANGED <<pos, pool, worker, jobs>> /\ Stage(caller') < Stage(caller)
    BY <1>8 DEF AbortWalk, EndWalk, CloseJobs, Return, poolVars, Stage
  <2>2. StepsLeft' = 3 * (N + 1 - pos) + 2 * n + Stage(caller') + a + b + f
    BY <1>2, <1>3, <2>1, SetsKept DEF StepsLeft
  <2> QED  BY <1>4, <1>5, <2>1, <2>2 DEF Stage
<1>9. ASSUME NEW w \in Workers, SpawnWorker(w) PROVE StepsLeft' < StepsLeft
  <2>1. /\ worker[w] = New /\ worker' = [worker EXCEPT ![w] = Idle]
        /\ UNCHANGED <<pos, caller, jobs>> /\ pool = "spawn" /\ pool' # "finished"
    BY <1>9 DEF SpawnWorker, walkVars
  <2>2. Present' = Present \cup {w} /\ w \in Present /\ Ahead' = Ahead \ {w} /\ w \in Ahead
    BY <1>1, <2>1, WorkersCounted, WorkerStates DEF TypeOK
  <2>3. Cardinality(Present') = a /\ Cardinality(Ahead') = b - 1
    BY <1>1, <1>2, <2>2, FS_AddElement, FS_RemoveElement
  <2>4. StepsLeft' = 3 * (N + 1 - pos) + 2 * n + Stage(caller) + a + (b - 1) + f
    BY <1>2, <1>3, <2>1, <2>3 DEF StepsLeft
  <2> QED  BY <1>4, <1>5, <2>4 DEF Stage
<1>10. CASE FinishPool
  <2>1. UNCHANGED <<pos, caller, jobs, worker>> /\ pool = "wait" /\ pool' = "finished"
    BY <1>10 DEF FinishPool, walkVars
  <2>2. StepsLeft' = 3 * (N + 1 - pos) + 2 * n + Stage(caller) + a + b + 0 /\ f = 1
    BY <1>2, <1>3, <2>1, SetsKept DEF StepsLeft
  <2> QED  BY <1>4, <1>5, <2>2 DEF Stage
<1>11. ASSUME NEW w \in Workers, Receive(w) PROVE StepsLeft' < StepsLeft
  <2>1. /\ worker[w] = Idle /\ worker' = [worker EXCEPT ![w] = Head(jobs)]
        /\ UNCHANGED <<pos, caller, pool>> /\ jobs # <<>> /\ jobs' = Tail(jobs)
    BY <1>11 DEF Receive, walkVars, poolVars
  <2>2. Head(jobs) \in Entries /\ Len(jobs') = n - 1
    BY <1>2, <1>5, <2>1, TailElements
  <2>3. Present' = Present \cup {w} /\ w \in Present /\ Ahead' = Ahead \cup {w} /\ w \notin Ahead
    BY <1>1, <2>1, <2>2, WorkersCounted, WorkerStates DEF TypeOK
  <2>4. Cardinality(Present') = a /\ Cardinality(Ahead') = b + 1
    BY <1>1, <1>2, <2>3, FS_AddElement
  <2>5. StepsLeft' = 3 * (N + 1 - pos) + 2 * (n - 1) + Stage(caller) + a + (b + 1) + f
    BY <1>2, <1>3, <2>1, <2>2, <2>4 DEF StepsLeft
  <2> QED  BY <1>4, <1>5, <2>5 DEF Stage
<1>12. ASSUME NEW w \in Workers, ProcessJob(w) PROVE StepsLeft' < StepsLeft
  <2>1. /\ worker[w] \in Entries /\ worker' = [worker EXCEPT ![w] = Idle]
        /\ UNCHANGED <<pos, caller, pool, jobs>>
    BY <1>12 DEF ProcessJob, walkVars, poolVars
  <2>2. Present' = Present \cup {w} /\ w \in Present /\ Ahead' = Ahead \ {w} /\ w \in Ahead
    BY <1>1, <2>1, WorkersCounted, WorkerStates DEF TypeOK
  <2>3. Cardinality(Present') = a /\ Cardinality(Ahead') = b - 1
    BY <1>1, <1>2, <2>2, FS_AddElement, FS_RemoveElement
  <2>4. StepsLeft' = 3 * (N + 1 - pos) + 2 * n + Stage(caller) + a + (b - 1) + f
    BY <1>2, <1>3, <2>1, <2>3 DEF StepsLeft
  <2> QED  BY <1>4, <1>5, <2>4 DEF Stage
<1>13. ASSUME NEW w \in Workers, ExitWorker(w) PROVE StepsLeft' < StepsLeft
  <2>1. /\ worker[w] = Idle /\ worker' = [worker EXCEPT ![w] = Gone]
        /\ UNCHANGED <<pos, caller, pool, jobs>>
    BY <1>13 DEF ExitWorker, walkVars
  <2>2. Present' = Present \ {w} /\ w \in Present /\ Ahead' = Ahead \ {w} /\ w \notin Ahead
    BY <1>1, <2>1, WorkersCounted, WorkerStates DEF TypeOK
  <2>3. Cardinality(Present') = a - 1 /\ Cardinality(Ahead') = b
    BY <1>1, <1>2, <2>2, FS_RemoveElement
  <2>4. StepsLeft' = 3 * (N + 1 - pos) + 2 * n + Stage(caller) + (a - 1) + b + f
    BY <1>2, <1>3, <2>1, <2>3 DEF StepsLeft
  <2> QED  BY <1>4, <1>5, <2>4 DEF Stage
<1> QED  BY <1>6, <1>7, <1>8, <1>9, <1>10, <1>11, <1>12, <1>13
         DEF Next, Caller, Pool, Worker, Terminated

\* A scan takes finitely many steps, at most StepsLeft of its first state, whatever
\* the goroutines' turns: with ScanNeverStuck, Run returns.
THEOREM ScanShortens == SafetySpec => [](StepsLeft \in Nat) /\ [][StepsLeft' < StepsLeft]_vars
BY Invariance, StepsLeftTyped, StepShortens, PTL DEF SafetySpec, IndInv

LEMMA SpawnStep == IndInv /\ SpawnInv /\ [Next]_vars => SpawnInv'
<1> SUFFICES ASSUME IndInv, SpawnInv, [Next]_vars PROVE SpawnInv'
  OBVIOUS
<1>1. TypeOK /\ PoolSize \in Workers
  BY PoolSizePositive DEF IndInv, Workers
<1>2. CASE Caller \/ FinishPool \/ UNCHANGED vars
  BY <1>2 DEF Caller, SendJob, SkipEntry, AbortWalk, EndWalk, CloseJobs, Return, FinishPool, poolVars, vars, SpawnInv
<1>3. ASSUME NEW w \in Workers, SpawnWorker(w) PROVE SpawnInv'
  BY <1>1, <1>3 DEF SpawnWorker, SpawnInv, TypeOK
<1>4. ASSUME NEW w \in Workers, Worker(w) PROVE SpawnInv'
  <2>1. pool' = pool /\ worker[w] # New /\ \A v \in Workers \ {w} : worker'[v] = worker[v]
    BY <1>1, <1>4, WorkerStates DEF Worker, Receive, ProcessJob, ExitWorker, poolVars, TypeOK
  <2> QED  BY <1>1, <2>1 DEF SpawnInv
<1> QED  BY <1>2, <1>3, <1>4 DEF Next, Pool, Terminated

\* There is a first among the workers that are not started.
LEMMA FirstNew ==
  ASSUME NEW w \in Workers, worker[w] = New
  PROVE  \E u \in Workers : worker[u] = New /\ \A v \in 1..(u - 1) : worker[v] # New
<1> DEFINE R == OpToRel(<, Nat)
           T == {v \in Workers : worker[v] = New}
<1>1. IsWellFoundedOn(R, Nat)
  BY NatLessThanWellFounded
<1>2. \A x, y \in Nat : x < y => <<x, y>> \in R
  BY Zenon DEF OpToRel
<1>3. T \subseteq Nat /\ T # {}
  BY PoolSizePositive DEF Workers
<1> HIDE DEF R
<1>4. PICK u \in T : \A y \in T : ~ (<<y, u>> \in R)
  BY <1>1, <1>3, WFMin
<1>5. ASSUME NEW v \in 1..(u - 1), worker[v] = New PROVE FALSE
  <2>1. v \in T /\ v < u /\ v \in Nat /\ u \in Nat
    BY <1>3, <1>4, <1>5, PoolSizePositive DEF Workers
  <2> QED  BY <1>2, <1>4, <2>1
<1> QED  BY <1>4, <1>5

LEMMA AlwaysGoing == IndInv /\ SpawnInv /\ caller # "returned" => CanGo
<1> SUFFICES ASSUME IndInv, SpawnInv, caller # "returned", ~CanGo PROVE FALSE
  OBVIOUS
<1>1. TypeOK /\ GoroutineProtocol /\ PoolSize \in Workers
  BY PoolSizePositive DEF IndInv, Workers
<1>2. pool # "spawn"
  BY <1>1, FirstNew DEF CanGo, SpawnInv
<1>3. \A w \in Workers : worker[w] \in {Idle, Gone}
  BY <1>1, <1>2, WorkerStates DEF TypeOK, GoroutineProtocol, CanGo
<1>4. \A w \in Workers : worker[w] = Idle => jobs = <<>> /\ ~closed
  BY DEF CanGo
<1>5. CASE caller = "walk"
  <2>1. ~closed /\ Len(jobs) >= Cap /\ jobs \in Seq(Entries)
    BY <1>1, <1>5, CapAssumption, NAssumption DEF CanGo, GoroutineProtocol, TypeOK
  <2>2. jobs # <<>>
    BY <2>1, CapAssumption
  <2> QED  BY <1>1, <1>3, <1>4, <2>1, <2>2 DEF GoroutineProtocol
<1>6. CASE caller = "wait"
  <2>1. closed /\ pool = "wait"
    BY <1>1, <1>2, <1>6 DEF CanGo, GoroutineProtocol, TypeOK
  <2>2. \A w \in Workers : worker[w] = Gone
    BY <1>3, <1>4, <2>1
  <2>3. Running = {}
    BY <2>2 DEF Running
  <2>4. wg = 0
    BY <1>1, <2>3, FS_EmptySet DEF GoroutineProtocol
  <2> QED  BY <2>1, <2>4 DEF CanGo
<1> QED  BY <1>1, <1>5, <1>6 DEF TypeOK, CanGo

\* Until Run has returned one of its goroutines can go on, whatever the capacity of
\* the channel and the size of the pool: caller, pool and workers never wait for
\* each other.
THEOREM ScanNeverStuck == SafetySpec => [](caller # "returned" => CanGo)
<1>1. Init => SpawnInv
  BY PoolSizePositive DEF Init, SpawnInv, Workers
<1> QED  BY <1>1, Invariance, SpawnStep, AlwaysGoing, PTL DEF SafetySpec

-----------------------------------------------------------------------------
(* The running flag (IndexRunner): any callers, roots and scans. *)

LEMMA FlagTypeInit == FlagInit => FlagTypeOK
BY DEF FlagInit, FlagTypeOK, IdleCall

LEMMA FlagTypeStep == FlagTypeOK /\ [FlagNext]_flagVars => FlagTypeOK'
<1> SUFFICES ASSUME FlagTypeOK, [FlagNext]_flagVars PROVE FlagTypeOK'
  OBVIOUS
<1> USE NoneAssumption DEF FlagTypeOK, IdleCall
<1>1. ASSUME NEW c \in Callers, NEW root \in Roots, LoadFlag(c, root)
      PROVE  FlagTypeOK'
  <2>1. CASE running
    BY <1>1, <2>1 DEF LoadFlag
  <2>2. CASE ~running
    <3>1. overlapped' \in BOOLEAN
      BY <1>1, <2>2, Zenon DEF LoadFlag, Pass
    <3>2. call' = [call EXCEPT ![c] = [at |-> "checked", root |-> root]]
      BY <1>1, <2>2 DEF LoadFlag
    <3> QED  BY <1>1, <3>1, <3>2 DEF LoadFlag
  <2> QED  BY <2>1, <2>2
<1>2. ASSUME NEW c \in Callers, RaiseFlag(c) PROVE FlagTypeOK'
  BY <1>2 DEF RaiseFlag
<1>3. ASSUME NEW c \in Callers, Spawn(c) PROVE FlagTypeOK'
  BY <1>3 DEF Spawn
<1>4. ASSUME NEW r \in Runs, FinishRun(r) PROVE FlagTypeOK'
  BY <1>4 DEF FinishRun
<1>5. CASE UNCHANGED flagVars
  BY <1>5 DEF flagVars
<1> QED  BY <1>1, <1>2, <1>3, <1>4, <1>5 DEF FlagNext, Start

\* The flag, the callers and the scans keep their types.
THEOREM FlagTyped == FlagSafetySpec => []FlagTypeOK
BY FlagTypeInit, FlagTypeStep, PTL DEF FlagSafetySpec

LEMMA FlagOwnerStep == FlagTypeOK /\ FlagHasOwner /\ [FlagNext]_flagVars => FlagHasOwner'
<1> SUFFICES ASSUME FlagTypeOK, FlagHasOwner, [FlagNext]_flagVars PROVE FlagHasOwner'
  OBVIOUS
<1> USE NoneAssumption DEF FlagHasOwner, Live, IdleCall
<1>1. ASSUME NEW c \in Callers, NEW root \in Roots, LoadFlag(c, root)
      PROVE  FlagHasOwner'
  <2>1. \A d \in Callers : call[d].at = "stored" => call'[d] = call[d]
    BY <1>1 DEF LoadFlag, FlagTypeOK
  <2> QED  BY <1>1, <2>1 DEF LoadFlag
<1>2. ASSUME NEW c \in Callers, RaiseFlag(c) PROVE FlagHasOwner'
  <2>1. call'[c].at = "stored"
    BY <1>2 DEF RaiseFlag, FlagTypeOK
  <2> QED  BY <2>1
<1>3. ASSUME NEW c \in Callers, Spawn(c) PROVE FlagHasOwner'
  <2>1. call[c].root # None
    BY <1>3 DEF Spawn, FlagTypeOK
  <2>2. PICK r \in Runs : run' = [run EXCEPT ![r] = call[c].root]
    BY <1>3 DEF Spawn
  <2>3. run'[r] # None
    BY <2>1, <2>2 DEF FlagTypeOK
  <2> QED  BY <2>3
<1>4. ASSUME NEW r \in Runs, FinishRun(r) PROVE FlagHasOwner'
  BY <1>4 DEF FinishRun
<1>5. CASE UNCHANGED flagVars
  BY <1>5 DEF flagVars
<1> QED  BY <1>1, <1>2, <1>3, <1>4, <1>5 DEF FlagNext, Start

\* However the calls of Start interleave, the flag is never left up without a
\* scan or a caller that will bring it down.
THEOREM FlagAlwaysHasOwner == FlagSafetySpec => []FlagHasOwner
<1>1. FlagInit => FlagHasOwner
  BY DEF FlagInit, FlagHasOwner
<1> QED  BY <1>1, FlagOwnerStep, FlagTyped, PTL DEF FlagSafetySpec

-----------------------------------------------------------------------------
(* Calls of Start that do not overlap. *)

\* A scan is live only with the flag up and no caller past the check; a caller
\* past the check is alone, and the flag is up when it has stored.
SerialInv ==
    ~overlapped => /\ AtMostOneRun
                   /\ FlagIsTruthful
                   /\ \A c, d \in Callers : call[c] # IdleCall /\ call[d] # IdleCall => c = d
                   /\ \A c \in Callers : call[c] # IdleCall => Live = {}
                   /\ \A c \in Callers : call[c].at = "stored" => running

LEMMA SerialStep == FlagTypeOK /\ FlagHasOwner /\ SerialInv /\ [FlagNext]_flagVars => SerialInv'
<1> SUFFICES ASSUME FlagTypeOK, FlagHasOwner, SerialInv, [FlagNext]_flagVars PROVE SerialInv'
  OBVIOUS
<1> USE NoneAssumption DEF SerialInv, AtMostOneRun, FlagIsTruthful, Live
<1>1. ASSUME NEW c \in Callers, NEW root \in Roots, LoadFlag(c, root)
      PROVE  SerialInv'
  <2>1. CASE running
    BY <1>1, <2>1 DEF LoadFlag
  <2>2. CASE ~running
    <3> SUFFICES ASSUME ~overlapped' PROVE SerialInv'
      OBVIOUS
    <3>1. /\ \A d \in Callers \ {c} : call[d] = IdleCall
          /\ call[c] = IdleCall
          /\ call' = [call EXCEPT ![c] = [at |-> "checked", root |-> root]]
          /\ ~overlapped \/ Live = {}
          /\ UNCHANGED <<running, run>>
      BY <1>1, <2>2 DEF LoadFlag, Pass
    <3>2. Live = {}
      BY <2>2, <3>1
    <3>3. \A d \in Callers : call'[d] # IdleCall => d = c
      BY <3>1 DEF FlagTypeOK
    <3>4. \A d \in Callers : call'[d].at # "stored"
      BY <3>1 DEF FlagTypeOK, IdleCall
    <3> QED  BY <3>1, <3>2, <3>3, <3>4
  <2> QED  BY <2>1, <2>2
<1>2. ASSUME NEW c \in Callers, RaiseFlag(c) PROVE SerialInv'
  BY <1>2 DEF RaiseFlag, FlagTypeOK, IdleCall
<1>3. ASSUME NEW c \in Callers, Spawn(c) PROVE SerialInv'
  <2> SUFFICES ASSUME ~overlapped PROVE SerialInv'
    BY <1>3 DEF Spawn
  <2>1. call[c] # IdleCall
    BY <1>3 DEF Spawn, IdleCall
  <2>2. \A s \in Runs : run[s] = None
    BY <2>1
  <2>3. PICK r \in Runs : run' = [run EXCEPT ![r] = call[c].root]
    BY <1>3 DEF Spawn
  <2>4. \A s \in Runs : run'[s] # None => s = r
    BY <2>2, <2>3 DEF FlagTypeOK
  <2>5. \A d \in Callers : call'[d] = IdleCall
    BY <1>3, <2>1 DEF Spawn, FlagTypeOK
  <2>6. running /\ running' = running
    BY <1>3 DEF Spawn
  <2> QED  BY <2>4, <2>5, <2>6 DEF IdleCall
<1>4. ASSUME NEW r \in Runs, FinishRun(r) PROVE SerialInv'
  <2> SUFFICES ASSUME ~overlapped PROVE SerialInv'
    BY <1>4 DEF FinishRun
  <2>1. \A s \in Runs : run'[s] = None
    BY <1>4 DEF FinishRun, FlagTypeOK
  <2>2. \A c \in Callers : call[c] = IdleCall /\ call'[c] = call[c]
    BY <1>4 DEF FinishRun
  <2> QED  BY <2>1, <2>2 DEF IdleCall
<1>5. CASE UNCHANGED flagVars
  BY <1>5 DEF flagVars
<1> QED  BY <1>1, <1>2, <1>3, <1>4, <1>5 DEF FlagNext, Start

LEMMA SerialInit == FlagInit => SerialInv
BY DEF FlagInit, SerialInv, AtMostOneRun, FlagIsTruthful, Live, IdleCall

\* Two scans are live together only when two calls of Start overlapped.
THEOREM OneRunWithoutOverlap == FlagSafetySpec => []OneRunUnlessOverlapped
<1>1. SerialInv => OneRunUnlessOverlapped
  BY DEF SerialInv, OneRunUnlessOverlapped
<1> QED  BY <1>1, SerialInit, SerialStep, FlagTyped, FlagAlwaysHasOwner, PTL DEF FlagSafetySpec

\* The flag is down while a scan is live only when two calls of Start overlapped.
THEOREM TruthfulWithoutOverlap == FlagSafetySpec => []TruthfulUnlessOverlapped
<1>1. SerialInv => TruthfulUnlessOverlapped
  BY DEF SerialInv, TruthfulUnlessOverlapped
<1> QED  BY <1>1, SerialInit, SerialStep, FlagTyped, FlagAlwaysHasOwner, PTL DEF FlagSafetySpec

-----------------------------------------------------------------------------
(* The page of a search (Searching). *)

Marked == [escaped : BOOLEAN, piece : Pieces]

LEMMA PiecesWritten ==
  ASSUME NEW p \in Pieces, NEW q \in Pieces
  PROVE  /\ Raw(p) \in Marked /\ Raw(p).piece = p /\ ~Raw(p).escaped
         /\ Escaped(p) \in Marked /\ Escaped(p).piece = p /\ Escaped(p).escaped
         /\ Escaped(p) # Raw(q) /\ (Raw(p) = Raw(q) => p = q)
<1>1. Raw(p).piece = p /\ ~Raw(p).escaped /\ Escaped(p).piece = p /\ Escaped(p).escaped /\ Raw(q).piece = q
  BY DEF Raw, Escaped
<1>2. Raw(p) \in Marked /\ Escaped(p) \in Marked
  BY DEF Raw, Escaped, Marked
<1>3. ~Raw(q).escaped
  BY DEF Raw
<1> QED  BY <1>1, <1>2, <1>3

\* The marks written as they are among the first pieces of a page.
MarksIn(s, p, i) == {j \in 1..i : s[j] = Raw(p)}

LEMMA MarksCounted ==
  ASSUME NEW s, NEW p, NEW i \in Nat
  PROVE  IsFiniteSet(MarksIn(s, p, i)) /\ Cardinality(MarksIn(s, p, i)) \in Nat
<1>1. IsFiniteSet(1..i)
  BY FS_Interval
<1>2. MarksIn(s, p, i) \in SUBSET (1..i)
  BY DEF MarksIn
<1> QED  BY <1>1, <1>2, FS_Subset, FS_CardinalityType

LEMMA MarksKept ==
  ASSUME NEW s, NEW t, NEW p, NEW m \in Nat, NEW i \in Nat, m <= i,
         \A j \in 1..m : t[j] = s[j], \A j \in 1..i : m < j => t[j] # Raw(p)
  PROVE  MarksIn(t, p, i) = MarksIn(s, p, m)
<1>1. \A j \in 1..i : j <= m => j \in 1..m
  OBVIOUS
<1>2. \A j \in 1..m : j \in 1..i
  OBVIOUS
<1> QED  BY <1>1, <1>2 DEF MarksIn

LEMMA MarksNext ==
  ASSUME NEW s, NEW p, NEW n \in Nat, NEW m, m = n + 1, s[m] = Raw(p)
  PROVE  Cardinality(MarksIn(s, p, m)) = Cardinality(MarksIn(s, p, n)) + 1
<1>1. MarksIn(s, p, m) = MarksIn(s, p, n) \cup {m} /\ m \notin MarksIn(s, p, n)
  BY DEF MarksIn
<1> QED  BY <1>1, MarksCounted, FS_AddElement

\* The marks of a page: those that are written are open and closed in turn, with some
\* open at its end.
Balanced(s, open) ==
  /\ \A i \in 1..Len(s) : /\ s[i].escaped \/ s[i].piece # "text"
                          /\ Cardinality(MarksIn(s, "</mark>", i)) <= Cardinality(MarksIn(s, "<mark>", i))
  /\ open = Cardinality(MarksIn(s, "<mark>", Len(s))) - Cardinality(MarksIn(s, "</mark>", Len(s)))

LEMMA BalancedEmpty == Balanced(<<>>, 0)
<1>1. Len(<<>>) = 0
  OBVIOUS
<1>2. \A p : MarksIn(<<>>, p, 0) = {}
  BY DEF MarksIn
<1>3. Cardinality(MarksIn(<<>>, "<mark>", 0)) = 0 /\ Cardinality(MarksIn(<<>>, "</mark>", 0)) = 0
  BY <1>2, FS_EmptySet
<1>4. PICK s : s = <<>>
  OBVIOUS
<1>5. Len(s) = 0 /\ 1..Len(s) = {}
  BY <1>1, <1>4
<1>6. Balanced(s, 0)
  BY <1>3, <1>4, <1>5 DEF Balanced
<1> QED  BY <1>4, <1>6

\* Escaped pieces change nothing of it.
LEMMA BalancedEscaped ==
  ASSUME NEW s \in Seq(Marked), NEW t \in Seq(Marked), NEW open \in Nat, Balanced(s, open),
         Len(s) <= Len(t), \A j \in 1..Len(s) : t[j] = s[j],
         \A j \in 1..Len(t) : Len(s) < j => t[j].escaped
  PROVE  Balanced(t, open)
<1>1. PICK m \in Nat, n \in Nat : m = Len(s) /\ n = Len(t) /\ m <= n
  OBVIOUS
<1>2. ASSUME NEW j \in 1..n, m < j PROVE \A p \in Pieces : t[j] # Raw(p)
  BY <1>1, <1>2, PiecesWritten
<1>3. "<mark>" \in Pieces /\ "</mark>" \in Pieces
  BY DEF Pieces
<1>4. ASSUME NEW i \in 0..n, m <= i, NEW p \in Pieces
      PROVE  MarksIn(t, p, i) = MarksIn(s, p, m)
  <2>1. \A j \in 1..i : m < j => t[j] # Raw(p)
    <3>1. \A j \in 1..i : j \in 1..n
      OBVIOUS
    <3> QED  BY <1>2, <3>1
  <2>2. i \in Nat /\ \A j \in 1..m : t[j] = s[j]
    BY <1>1
  <2> QED  BY <1>4, <2>1, <2>2, MarksKept
<1>5. ASSUME NEW i \in 0..m, NEW p \in Pieces
      PROVE  MarksIn(t, p, i) = MarksIn(s, p, i)
  <2>1. i \in Nat /\ \A j \in 1..i : t[j] = s[j]
    BY <1>1
  <2> QED  BY <2>1, MarksKept
<1>6. /\ Cardinality(MarksIn(s, "<mark>", m)) \in Nat /\ Cardinality(MarksIn(s, "</mark>", m)) \in Nat
      /\ open = Cardinality(MarksIn(s, "<mark>", m)) - Cardinality(MarksIn(s, "</mark>", m))
  BY <1>1, MarksCounted DEF Balanced
<1>7. ASSUME NEW i \in 1..n
      PROVE  /\ t[i].escaped \/ t[i].piece # "text"
             /\ Cardinality(MarksIn(t, "</mark>", i)) <= Cardinality(MarksIn(t, "<mark>", i))
  <2>1. CASE i \in 1..m
    <3>1. t[i] = s[i] /\ i \in 0..m
      BY <1>1, <2>1
    <3>2. MarksIn(t, "</mark>", i) = MarksIn(s, "</mark>", i) /\ MarksIn(t, "<mark>", i) = MarksIn(s, "<mark>", i)
      BY <1>3, <1>5, <3>1
    <3> QED  BY <1>1, <2>1, <3>1, <3>2 DEF Balanced
  <2>2. CASE m < i
    <3>1. t[i].escaped /\ i \in 0..n /\ m <= i
      BY <1>1, <2>2
    <3>2. MarksIn(t, "</mark>", i) = MarksIn(s, "</mark>", m) /\ MarksIn(t, "<mark>", i) = MarksIn(s, "<mark>", m)
      BY <1>3, <1>4, <3>1
    <3> QED  BY <1>6, <3>1, <3>2
  <2> QED  BY <2>1, <2>2
<1>8. MarksIn(t, "</mark>", n) = MarksIn(s, "</mark>", m) /\ MarksIn(t, "<mark>", n) = MarksIn(s, "<mark>", m)
  BY <1>1, <1>3, <1>4
<1> QED  BY <1>1, <1>6, <1>7, <1>8 DEF Balanced

\* One more mark.
LEMMA BalancedMark ==
  ASSUME NEW s \in Seq(Marked), NEW open \in Nat, Balanced(s, open), NEW mark, NEW after \in Nat,
         (mark = "<mark>" /\ after = open + 1) \/ (mark = "</mark>" /\ after = open - 1)
  PROVE  Balanced(Append(s, Raw(mark)), after)
<1>1. PICK n \in Nat : n = Len(s)
  OBVIOUS
<1>2. mark \in Pieces /\ "<mark>" \in Pieces /\ "</mark>" \in Pieces /\ mark # "text"
  BY DEF Pieces
<1>3. Raw(mark) \in Marked
  BY <1>2, PiecesWritten
<1>4. PICK t \in Seq(Marked) : t = Append(s, Raw(mark))
  BY <1>3, AppendTyped
<1>5. PICK m \in Nat : m = n + 1
  OBVIOUS
<1>6. Len(t) = m /\ t[m] = Raw(mark) /\ \A i \in 1..n : t[i] = s[i]
  BY <1>1, <1>3, <1>4, <1>5
<1>7. ASSUME NEW i \in 0..n, NEW p \in Pieces
      PROVE  MarksIn(t, p, i) = MarksIn(s, p, i)
  <2>1. i \in Nat /\ \A j \in 1..i : t[j] = s[j]
    BY <1>6
  <2> QED  BY <2>1, MarksKept
<1>8. ASSUME NEW p \in Pieces, p # mark PROVE MarksIn(t, p, m) = MarksIn(s, p, n)
  <2>1. t[m] # Raw(p)
    BY <1>2, <1>6, <1>8, PiecesWritten
  <2>2. \A j \in 1..m : n < j => t[j] # Raw(p)
    BY <1>5, <2>1
  <2> QED  BY <1>5, <1>6, <2>2, MarksKept
<1>9. Cardinality(MarksIn(t, mark, m)) = Cardinality(MarksIn(s, mark, n)) + 1
  <2>1. Cardinality(MarksIn(t, mark, m)) = Cardinality(MarksIn(t, mark, n)) + 1
    BY <1>5, <1>6, MarksNext
  <2>2. MarksIn(t, mark, n) = MarksIn(s, mark, n)
    BY <1>2, <1>7
  <2> QED  BY <2>1, <2>2
<1>10. /\ Cardinality(MarksIn(s, "<mark>", n)) \in Nat /\ Cardinality(MarksIn(s, "</mark>", n)) \in Nat
       /\ open = Cardinality(MarksIn(s, "<mark>", n)) - Cardinality(MarksIn(s, "</mark>", n))
  BY <1>1, MarksCounted DEF Balanced
<1>11. after = Cardinality(MarksIn(t, "<mark>", m)) - Cardinality(MarksIn(t, "</mark>", m))
  <2>1. CASE mark = "<mark>" /\ after = open + 1
    <3>1. MarksIn(t, "</mark>", m) = MarksIn(s, "</mark>", n)
      BY <1>2, <1>8, <2>1
    <3> QED  BY <1>9, <1>10, <2>1, <3>1
  <2>2. CASE mark = "</mark>" /\ after = open - 1
    <3>1. MarksIn(t, "<mark>", m) = MarksIn(s, "<mark>", n)
      BY <1>2, <1>8, <2>2
    <3> QED  BY <1>9, <1>10, <2>2, <3>1
  <2> QED  BY <2>1, <2>2
<1>12. ASSUME NEW i \in 1..m
       PROVE  /\ t[i].escaped \/ t[i].piece # "text"
              /\ Cardinality(MarksIn(t, "</mark>", i)) <= Cardinality(MarksIn(t, "<mark>", i))
  <2>1. CASE i \in 1..n
    <3>1. t[i] = s[i] /\ i \in 0..n
      BY <1>6, <2>1
    <3>2. MarksIn(t, "</mark>", i) = MarksIn(s, "</mark>", i) /\ MarksIn(t, "<mark>", i) = MarksIn(s, "<mark>", i)
      BY <1>2, <1>7, <3>1
    <3> QED  BY <1>1, <2>1, <3>1, <3>2 DEF Balanced
  <2>2. CASE i = m
    <3>1. t[i].piece # "text"
      BY <1>2, <1>6, <2>2, PiecesWritten
    <3>2. Cardinality(MarksIn(t, "</mark>", m)) \in Nat /\ Cardinality(MarksIn(t, "<mark>", m)) \in Nat
      BY MarksCounted
    <3> QED  BY <1>11, <2>2, <3>1, <3>2
  <2> QED  BY <1>5, <2>1, <2>2
<1> QED  BY <1>4, <1>6, <1>11, <1>12 DEF Balanced

\* The page and what is left of the fragment are the fragment, piece by piece.
Whole(s, r, f) == /\ Len(s) + Len(r) = Len(f)
                  /\ \A i \in 1..Len(s) : s[i].piece = f[i]
                  /\ \A i \in 1..Len(r) : r[i] = f[Len(s) + i]

PageInv ==
  /\ fragment \in Seq(Pieces) /\ rest \in Seq(Pieces) /\ page \in Seq(Marked)
  /\ stage \notin {"render", "done"} => page = <<>> /\ rest = <<>> /\ fragment = <<>> /\ openMarks = 0
  /\ openMarks \in Nat /\ openMarks + Len(rest) <= MaxFragment
  /\ Whole(page, rest, fragment)
  /\ Balanced(page, openMarks)

\* n pieces of what is left of the fragment go to the page.
LEMMA WholeNext ==
  ASSUME NEW s \in Seq(Marked), NEW r \in Seq(Pieces), NEW f \in Seq(Pieces), Whole(s, r, f),
         NEW n \in 1..Len(r), NEW t \in Seq(Marked), NEW q \in Seq(Pieces),
         Len(t) = Len(s) + n, \A i \in 1..Len(s) : t[i] = s[i],
         \A i \in 1..n : t[Len(s) + i].piece = r[i],
         Len(q) = Len(r) - n, \A i \in 1..Len(q) : q[i] = r[n + i]
  PROVE  Whole(t, q, f)
<1>5. PICK a \in Nat, b \in Nat : a = Len(s) /\ b = Len(r)
  OBVIOUS
<1>6. PICK k \in Nat : k = n /\ k <= b
  BY <1>5
<1>1. a = Len(s) /\ b = Len(r) /\ k = n /\ k <= b /\ a + b = Len(f)
  BY <1>5, <1>6 DEF Whole
<1>7. Len(t) = a + k /\ Len(q) = b - k
  BY <1>1
<1>2. Len(t) = a + k /\ Len(q) = b - k /\ Len(t) + Len(q) = Len(f)
  <2>1. PICK x \in Int, y \in Int : x = a + k /\ y = b - k
    OBVIOUS
  <2>2. x + y = a + b
    BY <2>1
  <2> QED  BY <1>1, <1>7, <2>1, <2>2
<1>3. ASSUME NEW i \in 1..Len(t) PROVE t[i].piece = f[i]
  <2>1. CASE i \in 1..a
    BY <1>1, <2>1 DEF Whole
  <2>2. CASE i \notin 1..a
    <3>1. PICK j \in 1..k : i = a + j
      <4>1. i - a \in 1..k /\ i = a + (i - a)
        BY <1>1, <1>2, <2>2
      <4> QED  BY <4>1
    <3>2. t[a + j].piece = r[j] /\ r[j] = f[a + j]
      BY <1>1, <3>1 DEF Whole
    <3> QED  BY <3>1, <3>2
  <2> QED  BY <2>1, <2>2
<1>4. ASSUME NEW i \in 1..Len(q) PROVE q[i] = f[Len(t) + i]
  <2>1. PICK j \in 1..b : j = k + i
    BY <1>1, <1>2
  <2>2. q[i] = r[j] /\ r[j] = f[a + j]
    BY <1>1, <2>1 DEF Whole
  <2>3. a + j = Len(t) + i
    BY <1>1, <1>2, <2>1
  <2> QED  BY <2>2, <2>3
<1> QED  BY <1>2, <1>3, <1>4 DEF Whole

LEMMA BoundedLists ==
  ASSUME NEW S, NEW n \in Nat, NEW s \in SeqOf(S, n)
  PROVE  s \in Seq(S) /\ Len(s) <= n
<1>1. PICK m \in 0..n : s \in [1..m -> S]
  BY DEF SeqOf
<1>2. m \in Nat
  OBVIOUS
<1> QED  BY <1>1, <1>2

LEMMA SmallestOf ==
  ASSUME NEW n \in Nat, NEW S \in SUBSET (1..n), S # {}
  PROVE  Min(S) \in S /\ \A x \in S : Min(S) <= x
<1> DEFINE T == {m \in Nat : \A U \in SUBSET (1..m) : U # {} => \E x \in U : \A y \in U : x <= y}
<1>1. 0 \in T
  <2>1. \A U \in SUBSET (1..0) : U = {}
    OBVIOUS
  <2> QED  BY <2>1
<1>2. ASSUME NEW m \in Nat, m \in T PROVE m + 1 \in T
  <2> SUFFICES ASSUME NEW U \in SUBSET (1..(m + 1)), U # {}
               PROVE  \E x \in U : \A y \in U : x <= y
    OBVIOUS
  <2>1. CASE U \cap 1..m # {}
    <3>1. PICK x \in U \cap 1..m : \A y \in U \cap 1..m : x <= y
      BY <1>2, <2>1
    <3>2. x \in Nat /\ x <= m
      BY <3>1
    <3>3. ASSUME NEW y \in U PROVE x <= y
      <4>1. y \in U \cap 1..m \/ y = m + 1
        OBVIOUS
      <4> QED  BY <3>1, <3>2, <4>1
    <3>4. x \in U
      BY <3>1
    <3>5. \A y \in U : x <= y
      BY <3>3
    <3> WITNESS x \in U
    <3> QED  BY <3>5
  <2>2. CASE U \cap 1..m = {}
    <3>1. \A y \in U : y = m + 1
      BY <2>2
    <3>2. PICK x \in U : TRUE
      OBVIOUS
    <3>3. x = m + 1
      BY <3>1
    <3>4. \A y \in U : y = x
      BY <3>1, <3>3
    <3>5. x <= x
      BY <3>3
    <3> QED  BY <3>4, <3>5
  <2> QED  BY <2>1, <2>2
<1>3. T \in SUBSET Nat
  OBVIOUS
<1>4. n \in T
  <2> HIDE DEF T
  <2>1. T = Nat
    BY <1>1, <1>2, <1>3, NatSetInduction
  <2> QED  BY <2>1
<1>5. \E x \in S : \A y \in S : x <= y
  BY <1>4
<1>6. Min(S) = CHOOSE x \in S : \A y \in S : x <= y
  BY Zenon DEF Min
<1> QED  BY <1>5, <1>6

LEMMA PageInit == SearchInit => PageInv
<1> SUFFICES ASSUME SearchInit PROVE PageInv
  OBVIOUS
<1>1. <<>> \in Seq(Pieces) /\ <<>> \in Seq(Marked) /\ Len(<<>>) = 0
  BY EmptySeq
<1>2. MaxFragment \in Nat
  BY RequestAssumption
<1>3. Whole(<<>>, <<>>, <<>>)
  BY <1>1 DEF Whole
<1>4. stage = "request" /\ fragment = <<>> /\ rest = <<>> /\ page = <<>> /\ openMarks = 0
  BY DEF SearchInit
<1> QED  BY <1>1, <1>2, <1>3, <1>4, BalancedEmpty DEF PageInv

\* The text before the next mark is never empty.
LEMMA TextTaken ==
  ASSUME PageInv, EscapeText
  PROVE  /\ stage = "render" /\ stage' = stage /\ fragment' = fragment /\ openMarks' = openMarks
         /\ \E n \in 1..Len(rest) : /\ page' = page \o [i \in 1..n |-> Escaped(rest[i])]
                                   /\ rest' = SubSeq(rest, n + 1, Len(rest))
<1> DEFINE ends == {i \in DOMAIN rest : rest[i] \in Marks}
           n == IF ends = {} THEN Len(rest) ELSE Min(ends) - 1
<1>1. /\ stage = "render" /\ stage' = stage /\ rest # <<>> /\ Head(rest) \notin Marks
      /\ page' = page \o [i \in 1..n |-> Escaped(rest[i])]
      /\ rest' = SubSeq(rest, n + 1, Len(rest))
      /\ fragment' = fragment /\ openMarks' = openMarks
  BY Zenon DEF EscapeText
<1>2. rest \in Seq(Pieces)
  BY DEF PageInv
<1>3. PICK b \in Nat : b = Len(rest)
  BY <1>2
<1>4. b # 0 /\ rest[1] = Head(rest) /\ DOMAIN rest = 1..b
  BY <1>1, <1>2, <1>3, EmptySeq
<1>5. n \in 1..b
  <2>1. CASE ends = {}
    BY <1>3, <1>4, <2>1
  <2>2. CASE ends # {}
    <3>1. ends \in SUBSET (1..b) /\ 1 \notin ends
      BY <1>1, <1>4
    <3> HIDE DEF ends
    <3>2. Min(ends) \in ends
      BY <2>2, <3>1, SmallestOf
    <3>3. Min(ends) \in 1..b /\ Min(ends) # 1
      BY <3>1, <3>2
    <3> QED  BY <2>2, <3>3
  <2> QED  BY <2>1, <2>2
<1> HIDE DEF n
<1> QED  BY <1>1, <1>3, <1>5

LEMMA PageStep == PageInv /\ [SearchNext]_searchVars => PageInv'
<1> SUFFICES ASSUME PageInv, [SearchNext]_searchVars PROVE PageInv'
  OBVIOUS
<1>1. /\ fragment \in Seq(Pieces) /\ rest \in Seq(Pieces) /\ page \in Seq(Marked)
      /\ openMarks \in Nat /\ MaxFragment \in Nat /\ openMarks + Len(rest) <= MaxFragment
      /\ Whole(page, rest, fragment) /\ Balanced(page, openMarks)
  BY RequestAssumption DEF PageInv
<1>2. CASE Validate \/ Search \/ UNCHANGED searchVars
  <2>1. UNCHANGED <<fragment, rest, page, openMarks>> /\ (stage' \notin {"render", "done"} => stage \notin {"render", "done"})
    BY <1>2 DEF Validate, Search, searchVars, rendering
  <2> QED  BY <2>1 DEF PageInv
<1>3. CASE Map
  <2>1. page = <<>> /\ openMarks = 0 /\ page' = <<>> /\ openMarks' = 0 /\ rest' = fragment'
        /\ stage' \in {"render", "done"}
    BY <1>3 DEF Map, PageInv
  <2>2. fragment' \in Seq(Pieces) /\ Len(fragment') <= MaxFragment
    <3>1. fragment' = <<>> \/ fragment' \in SeqOf(Pieces, MaxFragment)
      BY <1>3 DEF Map
    <3>2. <<>> \in Seq(Pieces) /\ Len(<<>>) = 0
      BY EmptySeq
    <3>3. PICK f : f = fragment'
      OBVIOUS
    <3>4. CASE f = <<>>
      BY <1>1, <3>2, <3>3, <3>4
    <3>5. CASE f \in SeqOf(Pieces, MaxFragment)
      BY <1>1, <3>3, <3>5, BoundedLists
    <3> QED  BY <3>1, <3>3, <3>4, <3>5
  <2>3. PICK n \in Nat : n = Len(fragment') /\ n <= MaxFragment
    BY <2>2
  <2>4. <<>> \in Seq(Marked) /\ Len(<<>>) = 0
    BY EmptySeq
  <2>5. Whole(<<>>, fragment', fragment')
    <3>1. 0 + n = n /\ \A i \in 1..n : 0 + i = i
      OBVIOUS
    <3> QED  BY <2>3, <2>4, <3>1 DEF Whole
  <2> QED  BY <1>1, <2>1, <2>2, <2>3, <2>4, <2>5, BalancedEmpty DEF PageInv
<1>4. CASE Write
  <2>1. UNCHANGED <<fragment, rest, page, openMarks>> /\ stage' = "done"
    BY <1>4 DEF Write, rendering
  <2> QED  BY <1>1, <2>1 DEF PageInv
<1>5. ASSUME NEW mark, NEW after \in Nat,
             (mark = "<mark>" /\ after = openMarks + 1) \/ (mark = "</mark>" /\ after = openMarks - 1),
             stage = "render", stage' = stage, rest # <<>>, Head(rest) = mark, page' = Append(page, Raw(mark)),
             openMarks' = after, rest' = Tail(rest), fragment' = fragment
      PROVE  PageInv'
  <2>1. mark \in Pieces
    BY <1>5 DEF Pieces
  <2>2. Raw(mark) \in Marked /\ Raw(mark).piece = mark
    BY <2>1, PiecesWritten
  <2>3. PICK t \in Seq(Marked) : t = Append(page, Raw(mark))
    BY <1>1, <2>2, AppendTyped
  <2>4. PICK q \in Seq(Pieces) : q = Tail(rest)
    BY <1>1, <1>5, HeadTailProperties
  <2>5. PICK a \in Nat, b \in Nat : a = Len(page) /\ b = Len(rest)
    BY <1>1
  <2>6. b > 0 /\ rest[1] = mark /\ Len(q) = b - 1 /\ \A i \in 1..Len(q) : q[i] = rest[1 + i]
    <3>1. b # 0 /\ rest[1] = Head(rest)
      BY <1>1, <1>5, <2>5, EmptySeq
    <3>2. Len(q) = b - 1 /\ \A i \in 1..Len(q) : q[i] = rest[i + 1]
      BY <1>1, <1>5, <2>4, <2>5, HeadTailProperties
    <3>3. \A i \in 1..Len(q) : i + 1 = 1 + i
      OBVIOUS
    <3> QED  BY <1>5, <3>1, <3>2, <3>3
  <2>7. Len(t) = a + 1 /\ t[a + 1] = Raw(mark) /\ \A i \in 1..a : t[i] = page[i]
    BY <1>1, <2>2, <2>3, <2>5
  <2>8. Whole(t, q, fragment)
    <3>1. 1 \in 1..Len(rest) /\ \A i \in 1..1 : t[Len(page) + i].piece = rest[i]
      BY <2>2, <2>5, <2>6, <2>7
    <3>2. Len(t) = Len(page) + 1 /\ Len(q) = Len(rest) - 1 /\ \A i \in 1..Len(page) : t[i] = page[i]
      BY <2>5, <2>6, <2>7
    <3> QED  BY <1>1, <2>6, <3>1, <3>2, WholeNext
  <2>9. Balanced(t, after)
    BY <1>1, <1>5, <2>3, BalancedMark
  <2>10. after + Len(q) <= MaxFragment
    BY <1>1, <1>5, <2>5, <2>6
  <2> QED  BY <1>1, <1>5, <2>3, <2>4, <2>8, <2>9, <2>10 DEF PageInv
<1>6. CASE OpenMark
  <2>1. openMarks + 1 \in Nat
    BY <1>1
  <2> QED  BY <1>5, <1>6, <2>1 DEF OpenMark
<1>7. CASE CloseMark
  <2>1. openMarks - 1 \in Nat
    BY <1>1, <1>7 DEF CloseMark
  <2> QED  BY <1>5, <1>7, <2>1 DEF CloseMark
<1>8. CASE EscapeText
  <2>2. PICK a \in Nat, b \in Nat : a = Len(page) /\ b = Len(rest)
    BY <1>1
  <2>1. stage = "render" /\ stage' = stage /\ fragment' = fragment /\ openMarks' = openMarks
    BY <1>8, TextTaken
  <2>5. PICK k \in 1..b : /\ page' = page \o [i \in 1..k |-> Escaped(rest[i])]
                          /\ rest' = SubSeq(rest, k + 1, b)
    BY <1>8, <2>2, TextTaken
  <2>6. \A i \in 1..k : rest[i] \in Pieces
    BY <1>1, <2>2
  <2>7. PICK u \in Seq(Marked) : u = [i \in 1..k |-> Escaped(rest[i])]
    <3>1. \A i \in 1..k : Escaped(rest[i]) \in Marked
      BY <2>6, PiecesWritten
    <3>2. k \in Nat
      OBVIOUS
    <3>3. [i \in 1..k |-> Escaped(rest[i])] \in [1..k -> Marked]
      BY <3>1
    <3>4. [i \in 1..k |-> Escaped(rest[i])] \in Seq(Marked)
      BY <3>2, <3>3
    <3> QED  BY <3>4
  <2>8. Len(u) = k /\ \A i \in 1..k : u[i].piece = rest[i] /\ u[i].escaped
    <3>1. Len(u) = k /\ \A i \in 1..k : u[i] = Escaped(rest[i])
      BY <2>7
    <3> QED  BY <2>6, <3>1, PiecesWritten
  <2>9. PICK t \in Seq(Marked) : t = page \o u
    BY <1>1, ConcatTyped
  <2>10. Len(t) = a + k /\ (\A i \in 1..a : t[i] = page[i]) /\ \A i \in 1..k : t[a + i] = u[i]
    <3>1. Len(t) = a + k /\ \A i \in 1..(a + k) : t[i] = IF i <= a THEN page[i] ELSE u[i - a]
      <4>1. /\ Len(page \o u) = Len(page) + Len(u)
            /\ \A i \in 1..(Len(page) + Len(u)) : (page \o u)[i] = IF i <= Len(page) THEN page[i] ELSE u[i - Len(page)]
        BY <1>1, ConcatProperties
      <4> QED  BY <2>2, <2>8, <2>9, <4>1
    <3>2. ASSUME NEW i \in 1..k PROVE t[a + i] = u[i]
      <4>1. PICK j \in 1..(a + k) : j = a + i /\ ~(j <= a)
        OBVIOUS
      <4>2. j - a = i
        BY <4>1
      <4> QED  BY <3>1, <4>1, <4>2
    <3> QED  BY <3>1, <3>2
  <2>20. PICK l \in Int : l = k + 1 /\ l <= b + 1
    OBVIOUS
  <2>21. /\ SubSeq(rest, l, b) \in Seq(Pieces)
         /\ Len(SubSeq(rest, l, b)) = IF l <= b THEN b - l + 1 ELSE 0
         /\ \A i \in 1..(b - l + 1) : SubSeq(rest, l, b)[i] = rest[l + i - 1]
    <3>1. \A i \in l..b : rest[i] \in Pieces
      BY <1>1, <2>2, <2>20
    <3> QED  BY <3>1, SubSeqProperties
  <2>11. PICK q \in Seq(Pieces) : q = SubSeq(rest, k + 1, b)
    BY <2>20, <2>21
  <2>12. Len(q) = b - k /\ \A i \in 1..Len(q) : q[i] = rest[k + i]
    <3>1. Len(q) = b - k
      BY <2>11, <2>20, <2>21
    <3>2. ASSUME NEW i \in 1..(b - k) PROVE q[i] = rest[k + i]
      <4>1. i \in 1..(b - l + 1) /\ l + i - 1 = k + i
        BY <2>20
      <4> QED  BY <2>11, <2>20, <2>21, <4>1
    <3> QED  BY <3>1, <3>2
  <2>13. Whole(t, q, fragment)
    <3>1. /\ k \in 1..Len(rest) /\ Len(t) = Len(page) + k /\ Len(q) = Len(rest) - k
          /\ \A i \in 1..Len(page) : t[i] = page[i]
          /\ \A i \in 1..k : t[Len(page) + i].piece = rest[i]
      BY <2>2, <2>8, <2>10, <2>12
    <3> QED  BY <1>1, <2>12, <3>1, WholeNext
  <2>14. Balanced(t, openMarks)
    <3>1. ASSUME NEW j \in 1..Len(t), a < j PROVE t[j].escaped
      <4>1. PICK i \in 1..k : j = a + i
        <5>1. j - a \in 1..k /\ j = a + (j - a)
          BY <2>10, <3>1
        <5> QED  BY <5>1
      <4> QED  BY <2>8, <2>10, <4>1
    <3>2. Len(page) <= Len(t) /\ \A i \in 1..Len(page) : t[i] = page[i]
      BY <2>2, <2>10
    <3> QED  BY <1>1, <2>2, <3>1, <3>2, BalancedEscaped
  <2>15. openMarks + Len(q) <= MaxFragment
    BY <1>1, <2>2, <2>12
  <2>16. page' = t /\ rest' = q
    BY <2>5, <2>7, <2>9, <2>11
  <2> QED  BY <1>1, <2>1, <2>13, <2>14, <2>15, <2>16 DEF PageInv
<1> QED  BY <1>2, <1>3, <1>4, <1>6, <1>7, <1>8 DEF SearchNext

\* highlightFragment (server.go): whatever marks a fragment has, in whatever order, the
\* page has it piece by piece, a mark that closes an element has one that opens it
\* before, and all text is escaped.
THEOREM PagesKeepFragments == SearchSpec => []PageKeepsFragment
<1>1. PageInv => PageKeepsFragment
  <2> SUFFICES ASSUME PageInv PROVE PageKeepsFragment
    OBVIOUS
  <2>1. /\ fragment \in Seq(Pieces) /\ rest \in Seq(Pieces) /\ page \in Seq(Marked)
        /\ Whole(page, rest, fragment) /\ Balanced(page, openMarks)
    BY DEF PageInv
  <2>2. \A p, i : Written(p, i) = Cardinality(MarksIn(page, p, i))
    BY DEF Written, MarksIn
  <2>3. DOMAIN page = 1..Len(page)
    BY <2>1
  <2>4. \A i \in 1..Len(page) : /\ page[i].escaped \/ page[i].piece # "text"
                                /\ Written("</mark>", i) <= Written("<mark>", i)
    BY <2>1, <2>2 DEF Balanced
  <2>5. openMarks = Written("<mark>", Len(page)) - Written("</mark>", Len(page))
    BY <2>1, <2>2 DEF Balanced
  <2>6. [i \in DOMAIN page |-> page[i].piece] \o rest = fragment
    <3>1. PICK a \in Nat, b \in Nat : a = Len(page) /\ b = Len(rest)
      BY <2>1
    <3>2. PICK s : s = [i \in DOMAIN page |-> page[i].piece]
      OBVIOUS
    <3>3. s \in Seq(Pieces) /\ Len(s) = a /\ \A i \in 1..a : s[i] = page[i].piece
      <4>1. s = [i \in 1..a |-> page[i].piece]
        BY <2>3, <3>1, <3>2
      <4>2. ASSUME NEW i \in 1..a PROVE page[i].piece \in Pieces
        <5>1. page[i] \in Marked
          BY <2>1, <3>1, ElementOfSeq
        <5> QED  BY <5>1 DEF Marked
      <4> QED  BY <4>1, <4>2
    <3>4. /\ s \o rest \in Seq(Pieces) /\ Len(s \o rest) = a + b
          /\ \A i \in 1..(a + b) : (s \o rest)[i] = IF i <= a THEN s[i] ELSE rest[i - a]
      BY <2>1, <3>1, <3>3, ConcatProperties
    <3>5. PICK t \in Seq(Pieces) : t = s \o rest
      BY <3>4
    <3>6. Len(t) = Len(fragment) /\ Len(t) = a + b
      BY <2>1, <3>1, <3>4, <3>5 DEF Whole
    <3>7. ASSUME NEW i \in 1..(a + b) PROVE t[i] = fragment[i]
      <4>1. CASE i <= a
        <5>1. i \in 1..a
          BY <4>1
        <5> QED  BY <2>1, <3>1, <3>3, <3>4, <3>5, <4>1, <5>1 DEF Whole
      <4>2. CASE ~(i <= a)
        <5>1. PICK j \in 1..b : j = i - a /\ a + j = i
          BY <4>2
        <5> QED  BY <2>1, <3>1, <3>4, <3>5, <4>2, <5>1 DEF Whole
      <4> QED  BY <4>1, <4>2
    <3>8. t = fragment
      BY <2>1, <3>6, <3>7, SeqEqual
    <3> QED  BY <3>2, <3>5, <3>8
  <2> QED  BY <2>3, <2>4, <2>5, <2>6 DEF PageKeepsFragment
<1> QED  BY <1>1, PageInit, PageStep, PTL DEF SearchSpec

\* Every turn of the loop of highlightFragment leaves less of the fragment, whatever
\* marks it has and however they are nested: the loop cannot go on for ever.
THEOREM LoopShortens ==
  SearchSpec => [][stage = "render" /\ stage' = "render" => Len(rest') < Len(rest)]_searchVars
<1>1. PageInv /\ [SearchNext]_searchVars =>
         [stage = "render" /\ stage' = "render" => Len(rest') < Len(rest)]_searchVars
  <2> SUFFICES ASSUME PageInv, SearchNext, stage = "render", stage' = "render"
               PROVE  Len(rest') < Len(rest)
    OBVIOUS
  <2>1. rest \in Seq(Pieces)
    BY DEF PageInv
  <2>2. CASE OpenMark \/ CloseMark
    <3>1. rest # <<>> /\ rest' = Tail(rest)
      BY <2>2 DEF OpenMark, CloseMark
    <3>2. Len(Tail(rest)) = Len(rest) - 1 /\ Len(rest) \in Nat
      BY <2>1, <3>1, HeadTailProperties
    <3> QED  BY <3>1, <3>2
  <2>3. CASE EscapeText
    <3>1. PICK n \in 1..Len(rest) : rest' = SubSeq(rest, n + 1, Len(rest))
      BY <2>3, TextTaken
    <3>2. PICK b \in Nat, m \in Int : b = Len(rest) /\ m = n + 1 /\ 1 < m /\ m <= b + 1
      BY <2>1
    <3>3. \A i \in m..b : rest[i] \in Pieces
      BY <2>1, <3>2
    <3>4. Len(SubSeq(rest, m, b)) = IF m <= b THEN b - m + 1 ELSE 0
      BY <3>3, SubSeqProperties
    <3>5. Len(SubSeq(rest, m, b)) < b
      BY <3>2, <3>4
    <3> QED  BY <3>1, <3>2, <3>5
  <2>4. CASE Validate \/ Search \/ Map \/ Write
    BY <2>4 DEF Validate, Search, Map, Write
  <2> QED  BY <2>2, <2>3, <2>4 DEF SearchNext
<1> QED  BY <1>1, PageInit, PageStep, PTL DEF SearchSpec

\* The state of a request has its types; no more marks are open than the fragment has
\* pieces.
THEOREM SearchTyped == SearchSpec => []SearchTypeOK
<1> DEFINE Asked == /\ stage \in {"request", "search", "answered", "render", "done", "refused"}
                    /\ content \in Seq(Signs) /\ query \in Seq(Signs)
                    /\ exact \in BOOLEAN /\ ignoreSpaces \in BOOLEAN
                    /\ total \in {0, 1}
<1>1. SearchInit => Asked
  <2> SUFFICES ASSUME SearchInit PROVE Asked
    OBVIOUS
  <2>1. content \in Seq(Signs) /\ query \in Seq(Signs)
    BY RequestAssumption, BoundedLists DEF SearchInit
  <2> QED  BY <2>1 DEF SearchInit
<1>2. Asked /\ [SearchNext]_searchVars => Asked'
  <2> SUFFICES ASSUME Asked, [SearchNext]_searchVars PROVE Asked'
    OBVIOUS
  <2>1. <<>> \in Seq(Signs)
    OBVIOUS
  <2>2. CASE Map
    BY <2>1, <2>2 DEF Map
  <2>3. CASE Search
    BY <2>3 DEF Search, Results
  <2> QED  BY <2>2, <2>3 DEF SearchNext, Validate, OpenMark, CloseMark, EscapeText, Write, searchVars
<1>3. Asked /\ PageInv => SearchTypeOK
  <2> SUFFICES ASSUME Asked, PageInv PROVE SearchTypeOK
    OBVIOUS
  <2>1. openMarks \in 0..MaxFragment
    BY RequestAssumption DEF PageInv
  <2>2. fragment \in Seq(Pieces) /\ rest \in Seq(Pieces) /\ page \in Seq(Marked)
    BY DEF PageInv
  <2> QED  BY <2>1, <2>2 DEF SearchTypeOK, Marked
<1> QED  BY <1>1, <1>2, <1>3, PageInit, PageStep, PTL DEF SearchSpec

-----------------------------------------------------------------------------
(* What a search that ignores spaces finds (Searching). *)

LEMMA FactorOf ==
  ASSUME NEW S, NEW s \in Seq(S), NEW w \in Factors(s)
  PROVE  /\ w \in Seq(S) /\ Len(w) # 0
         /\ \E i, j \in 1..Len(s) : /\ i <= j /\ w = SubSeq(s, i, j) /\ Len(w) = j - i + 1
                                    /\ \A k \in 1..Len(w) : w[k] = s[i + k - 1]
<1>1. DOMAIN s = 1..Len(s)
  OBVIOUS
<1>2. PICK i \in 1..Len(s), j \in 1..Len(s) : w = SubSeq(s, i, j)
  <2>1. w \in {SubSeq(s, i, j) : i \in DOMAIN s, j \in DOMAIN s}
    BY DEF Factors
  <2>2. \E i, j \in DOMAIN s : w = SubSeq(s, i, j)
    BY <2>1
  <2> QED  BY <1>1, <2>2
<1>3. w # << >>
  BY DEF Factors
<1>4. i <= j
  <2>1. j < i => SubSeq(s, i, j) = << >>
    OBVIOUS
  <2> QED  BY <1>2, <1>3, <2>1
<1>5. /\ SubSeq(s, i, j) \in Seq(S) /\ Len(SubSeq(s, i, j)) = j - i + 1
      /\ \A k \in 1..(j - i + 1) : SubSeq(s, i, j)[k] = s[i + k - 1]
  BY <1>4, SubSeqProperties
<1>6. w \in Seq(S) /\ Len(w) = j - i + 1 /\ Len(w) # 0 /\ \A k \in 1..Len(w) : w[k] = s[i + k - 1]
  BY <1>2, <1>4, <1>5
<1> QED  BY <1>2, <1>4, <1>6

\* The first signs of a factor are one, and have no other signs.
LEMMA FactorStart ==
  ASSUME NEW S, NEW s \in Seq(S), NEW w \in Factors(s), NEW n \in 1..Len(w)
  PROVE  /\ SubSeq(w, 1, n) \in Factors(s) /\ Len(SubSeq(w, 1, n)) = n
         /\ Range(SubSeq(w, 1, n)) \subseteq Range(w)
<1>1. w \in Seq(S)
  BY FactorOf
<1>2. PICK i, j \in 1..Len(s) : /\ i <= j /\ w = SubSeq(s, i, j) /\ Len(w) = j - i + 1
                                /\ \A k \in 1..Len(w) : w[k] = s[i + k - 1]
  BY FactorOf
<1>3. PICK h \in 1..Len(s) : h = i + n - 1
  <2>1. i + n - 1 \in 1..Len(s)
    BY <1>1, <1>2
  <2> QED  BY <2>1
<1>4. PICK t \in Seq(S) : t = SubSeq(w, 1, n)
  <2>1. SubSeq(w, 1, n) \in Seq(S)
    BY <1>1, SubSeqProperties
  <2> QED  BY <2>1
<1>5. Len(t) = n /\ \A k \in 1..n : t[k] = w[k]
  BY <1>1, <1>4
<1>6. PICK u \in Seq(S) : u = SubSeq(s, i, h)
  <2>1. i <= h
    BY <1>3
  <2>2. SubSeq(s, i, h) \in Seq(S)
    BY <2>1, SubSeqProperties
  <2> QED  BY <2>2
<1>7. Len(u) = n /\ \A k \in 1..n : u[k] = s[i + k - 1]
  <2>1. h - i + 1 = n /\ i <= h
    BY <1>3
  <2>2. /\ Len(SubSeq(s, i, h)) = h - i + 1
        /\ \A k \in 1..(h - i + 1) : SubSeq(s, i, h)[k] = s[i + k - 1]
    BY <2>1, SubSeqProperties
  <2> QED  BY <1>6, <2>1, <2>2
<1>8. t = u
  <2>1. \A k \in 1..n : k \in 1..Len(w)
    BY <1>1
  <2>2. \A k \in 1..n : t[k] = u[k]
    BY <1>2, <1>5, <1>7, <2>1
  <2> QED  BY <1>5, <1>7, <2>2, SeqEqual
<1>9. t # << >>
  <2>1. Len(<< >>) = 0 /\ n # 0
    OBVIOUS
  <2> QED  BY <1>5, <2>1
<1>10. t \in Factors(s)
  <2>1. i \in DOMAIN s /\ h \in DOMAIN s
    OBVIOUS
  <2>2. t = SubSeq(s, i, h)
    BY <1>6, <1>8
  <2> DEFINE F(k, l) == SubSeq(s, k, l)
  <2>3. t = F(i, h) /\ Factors(s) = {F(k, l) : k \in DOMAIN s, l \in DOMAIN s} \ {<<>>}
    BY <2>2 DEF Factors
  <2> HIDE DEF F
  <2>4. t \in {F(k, l) : k \in DOMAIN s, l \in DOMAIN s} \ {<<>>}
    BY <1>9, <2>1, <2>3
  <2> QED  BY <2>3, <2>4
<1>11. Range(t) \subseteq Range(w)
  <2>1. DOMAIN t = 1..n /\ DOMAIN w = 1..Len(w)
    BY <1>1, <1>5
  <2>2. \A k \in 1..n : k \in 1..Len(w)
    BY <1>1
  <2> QED  BY <1>5, <2>1, <2>2 DEF Range
<1> QED  BY <1>4, <1>5, <1>10, <1>11

\* A part of the query that is in the text is found by its first MinGram signs.
LEMMA PartFound ==
  ASSUME NEW q \in Seq(Signs), NEW c \in Seq(Signs), NEW w \in Parts(q), Len(w) >= MinGram, w \in Factors(c)
  PROVE  Terms(q) \cap Terms(c) # {}
<1>1. w \in Factors(q) /\ Range(w) \cap Blanks = {}
  BY DEF Parts
<1>2. w \in Seq(Signs)
  BY <1>1, FactorOf
<1>3. PICK n \in 1..Len(w) : n = MinGram
  BY <1>2, PolicyAssumption
<1>4. PICK t : t = SubSeq(w, 1, n)
  OBVIOUS
<1>5. t \in Factors(q) /\ Len(t) = n /\ Range(t) \subseteq Range(w)
  BY <1>1, <1>4, FactorStart
<1>6. t \in Factors(c)
  BY <1>4, FactorStart
<1>7. t \in Parts(q) /\ t \in Parts(c)
  BY <1>1, <1>5, <1>6 DEF Parts
<1>8. Len(t) \in MinGram..MaxGram
  BY <1>3, <1>5, PolicyAssumption
<1> QED  BY <1>7, <1>8 DEF Terms

\* The first two signs of a term: they stand next to each other, and are letters.
LEMMA TermStart ==
  ASSUME NEW s \in Seq(Signs), NEW t \in Terms(s)
  PROVE  /\ NextTo(s, t[1], t[2])
         /\ t[1] \in Letters /\ t[2] \in Letters
<1>1. t \in Factors(s) /\ Range(t) \cap Blanks = {} /\ Len(t) \in MinGram..MaxGram
  BY DEF Terms, Parts
<1>2. t \in Seq(Signs)
  BY <1>1, FactorOf
<1>3. Len(t) >= 2
  BY <1>1, <1>2, PolicyAssumption
<1>4. 1 \in 1..Len(t) /\ 2 \in 1..Len(t)
  BY <1>2, <1>3
<1>5. PICK i, j \in 1..Len(s) : /\ i <= j /\ t = SubSeq(s, i, j) /\ Len(t) = j - i + 1
                                /\ \A k \in 1..Len(t) : t[k] = s[i + k - 1]
  BY <1>1, FactorOf
<1>6. t[1] = s[i + 1 - 1] /\ t[2] = s[i + 2 - 1]
  BY <1>4, <1>5
<1>7. i + 1 - 1 = i /\ i + 2 - 1 = i + 1 /\ i + 1 \in 1..Len(s)
  BY <1>3, <1>5
<1>8. NextTo(s, t[1], t[2])
  BY <1>6, <1>7 DEF NextTo
<1>9. t[1] \in Signs \ Blanks /\ t[2] \in Signs \ Blanks
  <2>1. DOMAIN t = 1..Len(t)
    BY <1>2
  <2>2. t[1] \in Range(t) /\ t[2] \in Range(t)
    BY <1>4, <2>1 DEF Range
  <2>3. t[1] \in Signs /\ t[2] \in Signs
    BY <1>2, <1>4, ElementOfSeq
  <2> QED  BY <1>1, <2>2, <2>3
<1> QED  BY <1>8, <1>9 DEF Signs

LEMMA NeighboursAre ==
  ASSUME NEW s \in Seq(Signs), NEW x, NEW y, NextTo(NormalizeNoSpaceContent(s), x, y)
  PROVE  <<x, y>> \in Neighbours(s)
<1>1. PICK t \in Seq(Signs) : t = NormalizeNoSpaceContent(s)
  BY WithoutTyped DEF NormalizeNoSpaceContent
<1>2. PICK i, k \in 1..Len(t) : k = i + 1 /\ t[i] = x /\ t[k] = y
  BY <1>1 DEF NextTo
<1>3. i \in 1..(Len(t) - 1)
  BY <1>1, <1>2
<1>4. Neighbours(s) = {<<t[h], t[h + 1]>> : h \in 1..(Len(t) - 1)}
  BY <1>1 DEF Neighbours
<1> QED  BY <1>2, <1>3, <1>4

\* A text that is found has two letters of the query next to each other.
LEMMA FoundByLetters ==
  ASSUME NEW q \in Seq(Signs), NEW c \in Seq(Signs),
         Terms(q) \cap Terms(NormalizeNoSpaceContent(c)) # {}
  PROVE  \E pair \in Neighbours(q) \cap Neighbours(c) : Range(pair) \subseteq Letters
<1>1. PICK d \in Seq(Signs) : d = NormalizeNoSpaceContent(c)
  BY WithoutTyped DEF NormalizeNoSpaceContent
<1>2. PICK t : t \in Terms(q) /\ t \in Terms(d)
  BY <1>1
<1>3. PICK x, y : x = t[1] /\ y = t[2]
  OBVIOUS
<1>4. NextTo(q, x, y) /\ x \in Letters /\ y \in Letters
  BY <1>2, <1>3, TermStart
<1>5. NextTo(d, x, y)
  BY <1>2, <1>3, TermStart
<1>6. x # Space /\ y # Space
  BY <1>4, SignsAssumption
<1>7. NextTo(NormalizeNoSpaceContent(q), x, y)
  BY <1>4, <1>6, WithoutNextTo DEF NormalizeNoSpaceContent
<1>8. <<x, y>> \in Neighbours(q) /\ <<x, y>> \in Neighbours(c)
  BY <1>1, <1>5, <1>7, NeighboursAre
<1>9. Range(<<x, y>>) \subseteq Letters
  <2>1. DOMAIN <<x, y>> = 1..2
    OBVIOUS
  <2>2. \A k \in 1..2 : <<x, y>>[k] = x \/ <<x, y>>[k] = y
    OBVIOUS
  <2> QED  BY <1>4, <2>1, <2>2 DEF Range
<1> QED  BY <1>8, <1>9

\* What was found, as long as the text and the query are at hand.
Found == /\ content \in Seq(Signs) /\ query \in Seq(Signs)
         /\ stage = "answered" /\ ignoreSpaces
               => total = IF Terms(query) \cap Terms(NormalizeNoSpaceContent(content)) # {} THEN 1 ELSE 0

LEMMA FoundInit == SearchInit => Found
<1> SUFFICES ASSUME SearchInit PROVE Found
  OBVIOUS
<1>1. content \in Seq(Signs) /\ query \in Seq(Signs)
  BY RequestAssumption, BoundedLists DEF SearchInit
<1> QED  BY <1>1 DEF Found, SearchInit

LEMMA FoundStep == Found /\ [SearchNext]_searchVars => Found'
<1> SUFFICES ASSUME Found, [SearchNext]_searchVars PROVE Found'
  OBVIOUS
<1>1. content \in Seq(Signs) /\ query \in Seq(Signs)
  BY DEF Found
<1>2. CASE Search
  <2>1. content' = content /\ query' = query /\ ignoreSpaces' = ignoreSpaces
    BY <1>2 DEF Search
  <2>2. ASSUME stage' = "answered", ignoreSpaces'
        PROVE  total' = IF Terms(query) \cap Terms(NormalizeNoSpaceContent(content)) # {} THEN 1 ELSE 0
    <3>1. total' \in Results
      BY <1>2, <2>2 DEF Search
    <3>2. SearchMode = "ignoreSpaces"
      BY <2>1, <2>2 DEF SearchMode
    <3>3. Results = {IF Terms(query) \cap Terms(NormalizeNoSpaceContent(content)) # {} THEN 1 ELSE 0}
      BY <3>2, Zenon DEF Results, Matches
    <3> QED  BY <3>1, <3>3
  <2> QED  BY <1>1, <2>1, <2>2 DEF Found
<1>3. CASE Validate
  BY <1>1, <1>3 DEF Validate, Found
<1>4. CASE Map
  <2>1. content' \in Seq(Signs) /\ query' \in Seq(Signs) /\ stage' # "answered"
    BY <1>4 DEF Map
  <2> QED  BY <2>1 DEF Found
<1>5. CASE OpenMark \/ CloseMark \/ EscapeText \/ Write
  <2>1. content' = content /\ query' = query /\ stage' # "answered"
    BY <1>5 DEF OpenMark, CloseMark, EscapeText, Write
  <2> QED  BY <1>1, <2>1 DEF Found
<1>6. CASE UNCHANGED searchVars
  BY <1>6 DEF searchVars, Found
<1> QED  BY <1>2, <1>3, <1>4, <1>5, <1>6 DEF SearchNext

\* A search that ignores spaces finds what it should and nothing that does not have
\* two letters of the query side by side, whatever the text and the query are.
THEOREM SearchIgnoresSpaces == SearchSpec => []IgnoreSpacesFinds
<1>1. Found => IgnoreSpacesFinds
  <2> SUFFICES ASSUME Found, stage = "answered", SearchMode = "ignoreSpaces"
               PROVE  /\ (\E w \in Parts(query) : Len(w) >= MinGram /\ w \in Factors(NormalizeNoSpaceContent(content)))
                            => total = 1
                      /\ total = 1 => LetterPairs \cap Neighbours(content) # {}
                      /\ (\A w \in Parts(query) : Len(w) < MinGram) => total = 0
    BY DEF IgnoreSpacesFinds
  <2>1. ignoreSpaces
    BY DEF SearchMode
  <2>2. /\ content \in Seq(Signs) /\ query \in Seq(Signs)
        /\ total = IF Terms(query) \cap Terms(NormalizeNoSpaceContent(content)) # {} THEN 1 ELSE 0
    BY <2>1 DEF Found
  <2>3. NormalizeNoSpaceContent(content) \in Seq(Signs)
    BY <2>2, WithoutTyped DEF NormalizeNoSpaceContent
  <2>4. ASSUME NEW w \in Parts(query), Len(w) >= MinGram, w \in Factors(NormalizeNoSpaceContent(content))
        PROVE  total = 1
    <3>1. Terms(query) \cap Terms(NormalizeNoSpaceContent(content)) # {}
      BY <2>2, <2>3, <2>4, PartFound
    <3> QED  BY <2>2, <3>1
  <2>5. ASSUME total = 1 PROVE LetterPairs \cap Neighbours(content) # {}
    <3>1. Terms(query) \cap Terms(NormalizeNoSpaceContent(content)) # {}
      BY <2>2, <2>5
    <3>2. PICK pair \in Neighbours(query) \cap Neighbours(content) : Range(pair) \subseteq Letters
      BY <2>2, <3>1, FoundByLetters
    <3> QED  BY <3>2 DEF LetterPairs
  <2>6. ASSUME \A w \in Parts(query) : Len(w) < MinGram PROVE total = 0
    <3>1. ASSUME NEW t \in Terms(query) PROVE FALSE
      <4>1. t \in Parts(query) /\ Len(t) \in MinGram..MaxGram
        BY DEF Terms
      <4>2. Len(t) < MinGram
        BY <2>6, <4>1
      <4> QED  BY <4>1, <4>2, PolicyAssumption
    <3> QED  BY <2>2, <3>1
  <2> QED  BY <2>4, <2>5, <2>6
<1> QED  BY <1>1, FoundInit, FoundStep, PTL DEF SearchSpec
===============================================================================
