------------------------------ MODULE IndexRun ------------------------------
(***************************************************************************)
(* One call of IndexRunner.Run (internal/usecase/index_runner.go): the     *)
(* calling goroutine walks the root (internal/infra/scanner) and sends     *)
(* each document on a buffered channel; a second goroutine runs the pool   *)
(* (internal/infra/worker), whose workers receive and process paths; the   *)
(* caller closes the channel and waits for the pool on `done`.             *)
(*                                                                         *)
(* An entry is its position in the walk. What the walk meets there is      *)
(* chosen once, in Init, and whether a document can be indexed is chosen   *)
(* when a worker processes it.                                             *)
(***************************************************************************)
EXTENDS Integers, Sequences, FiniteSets

CONSTANTS
    N,          \* number of entries of the walk
    Cap,        \* capacity of the jobs channel (100 in the code)
    Size        \* Pool.Size (4 in the code)

ASSUME NAssumption == N \in Nat
ASSUME CapAssumption == Cap \in Nat \ {0}
ASSUME SizeAssumption == Size \in Int

Kinds == {"doc", "other", "error"}
Entries == 1..N

\* Pool.Run starts one worker when the size is not positive.
PoolSize == IF Size <= 0 THEN 1 ELSE Size
Workers == 1..PoolSize

\* A worker is not yet started, waits for a path, holds one, or is gone.
New == -2
Gone == -1
Idle == 0

VARIABLES
    tree,       \* the kind of each entry
    pos,        \* the entry the walk comes to next
    caller,     \* where Run is: "walk", "close", "wait", "returned"
    err,        \* Walk returned an error
    jobs,       \* the channel's buffer
    closed,     \* the channel is closed
    pool,       \* where the pool goroutine is: "spawn", "wait", "finished"
    wg,         \* the wait group's counter
    worker,     \* New, Idle, Gone, or the entry in hand
    done,       \* the done channel is closed
    outcome     \* of each entry: "none", "ok", "failed"

walkVars == <<pos, caller, err>>
poolVars == <<pool, wg, done>>
vars == <<tree, walkVars, jobs, closed, poolVars, worker, outcome>>

Init == /\ tree \in [Entries -> Kinds]
        /\ pos = 1
        /\ caller = "walk"
        /\ err = FALSE
        /\ jobs = <<>>
        /\ closed = FALSE
        /\ pool = "spawn"
        /\ wg = 0
        /\ worker = [w \in Workers |-> New]
        /\ done = FALSE
        /\ outcome = [p \in Entries |-> "none"]

-----------------------------------------------------------------------------
(* The calling goroutine. *)

\* Mutant: a send that gives up on a full channel (select with a default).
SendJobOrDrop == /\ caller = "walk"
                 /\ pos \in Entries
                 /\ tree[pos] = "doc"
                 /\ jobs' = IF Len(jobs) < Cap THEN Append(jobs, pos) ELSE jobs
                 /\ pos' = pos + 1
                 /\ UNCHANGED <<tree, caller, err, closed, poolVars, worker, outcome>>

\* The walk's callback sends a document's path; a full channel blocks it.
SendJob == /\ caller = "walk"
           /\ pos \in Entries
           /\ tree[pos] = "doc"
           /\ Len(jobs) < Cap
           /\ jobs' = Append(jobs, pos)
           /\ pos' = pos + 1
           /\ UNCHANGED <<tree, caller, err, closed, poolVars, worker, outcome>>

\* Directories and files of other kinds are passed over.
SkipEntry == /\ caller = "walk"
             /\ pos \in Entries
             /\ tree[pos] = "other"
             /\ pos' = pos + 1
             /\ UNCHANGED <<tree, caller, err, jobs, closed, poolVars, worker, outcome>>

\* Mutant: the walk's error is dropped on the way out of Run.
AbortWalkSilently == /\ caller = "walk"
                     /\ pos \in Entries
                     /\ tree[pos] = "error"
                     /\ caller' = "close"
                     /\ UNCHANGED <<tree, pos, err, jobs, closed, poolVars, worker, outcome>>

\* An error the walk reports for an entry ends the walk there.
AbortWalk == /\ caller = "walk"
             /\ pos \in Entries
             /\ tree[pos] = "error"
             /\ err' = TRUE
             /\ caller' = "close"
             /\ UNCHANGED <<tree, pos, jobs, closed, poolVars, worker, outcome>>

EndWalk == /\ caller = "walk"
           /\ pos > N
           /\ caller' = "close"
           /\ UNCHANGED <<tree, pos, err, jobs, closed, poolVars, worker, outcome>>

CloseJobs == /\ caller = "close"
             /\ closed' = TRUE
             /\ caller' = "wait"
             /\ UNCHANGED <<tree, pos, err, jobs, poolVars, worker, outcome>>

\* Mutant: Run returns without waiting for the pool.
ReturnAtOnce == /\ caller = "wait"
                /\ caller' = "returned"
                /\ UNCHANGED <<tree, pos, err, jobs, closed, poolVars, worker, outcome>>

\* <-done, then return err.
Return == /\ caller = "wait"
          /\ done
          /\ caller' = "returned"
          /\ UNCHANGED <<tree, pos, err, jobs, closed, poolVars, worker, outcome>>

Caller == SendJob \/ SkipEntry \/ AbortWalk \/ EndWalk \/ CloseJobs \/ Return

-----------------------------------------------------------------------------
(* The pool goroutine. *)

\* Mutant: the worker is started without wg.Add(1).
SpawnUncounted(w) == /\ pool = "spawn"
                     /\ worker[w] = New
                     /\ \A v \in 1..(w - 1) : worker[v] # New
                     /\ worker' = [worker EXCEPT ![w] = Idle]
                     /\ pool' = IF w = PoolSize THEN "wait" ELSE "spawn"
                     /\ UNCHANGED <<tree, walkVars, jobs, closed, wg, done, outcome>>

\* One turn of the loop: wg.Add(1), then start worker w.
SpawnWorker(w) == /\ pool = "spawn"
                  /\ worker[w] = New
                  /\ \A v \in 1..(w - 1) : worker[v] # New
                  /\ wg' = wg + 1
                  /\ worker' = [worker EXCEPT ![w] = Idle]
                  /\ pool' = IF w = PoolSize THEN "wait" ELSE "spawn"
                  /\ UNCHANGED <<tree, walkVars, jobs, closed, done, outcome>>

\* Mutant: the pool does not wait for its workers.
FinishPoolEarly == /\ pool = "wait"
                   /\ pool' = "finished"
                   /\ done' = TRUE
                   /\ UNCHANGED <<tree, walkVars, jobs, closed, wg, worker, outcome>>

\* wg.Wait returns, then the deferred close(done).
FinishPool == /\ pool = "wait"
              /\ wg = 0
              /\ pool' = "finished"
              /\ done' = TRUE
              /\ UNCHANGED <<tree, walkVars, jobs, closed, wg, worker, outcome>>

Pool == FinishPool \/ \E w \in Workers : SpawnWorker(w)

-----------------------------------------------------------------------------
(* A worker goroutine: for path := range jobs { process(path) }. *)

Receive(w) == /\ worker[w] = Idle
              /\ jobs # <<>>
              /\ worker' = [worker EXCEPT ![w] = Head(jobs)]
              /\ jobs' = Tail(jobs)
              /\ UNCHANGED <<tree, walkVars, closed, poolVars, outcome>>

\* process only logs an error of processFile.
ProcessJob(w) ==
    /\ worker[w] \in Entries
    /\ \E o \in {"ok", "failed"} : outcome' = [outcome EXCEPT ![worker[w]] = o]
    /\ worker' = [worker EXCEPT ![w] = Idle]
    /\ UNCHANGED <<tree, walkVars, jobs, closed, poolVars>>

\* range ends on a closed and empty channel; then the deferred wg.Done().
ExitWorker(w) == /\ worker[w] = Idle
                 /\ jobs = <<>>
                 /\ closed
                 /\ worker' = [worker EXCEPT ![w] = Gone]
                 /\ wg' = wg - 1
                 /\ UNCHANGED <<tree, walkVars, jobs, closed, pool, done, outcome>>

Worker(w) == Receive(w) \/ ProcessJob(w) \/ ExitWorker(w)

-----------------------------------------------------------------------------
\* Run has returned: its goroutines are over.
Terminated == caller = "returned" /\ UNCHANGED vars

Next == Caller \/ Pool \/ (\E w \in Workers : Worker(w)) \/ Terminated

SafetySpec == Init /\ [][Next]_vars

\* Every goroutine that can run is eventually scheduled, and processFile
\* returns: extracting text and writing a document are finite.
Spec == /\ SafetySpec
        /\ WF_vars(Caller)
        /\ WF_vars(Pool)
        /\ \A w \in Workers : WF_vars(Worker(w))

-----------------------------------------------------------------------------
(* Invariants. *)

Queued == {jobs[i] : i \in DOMAIN jobs}
InHand == {worker[w] : w \in Workers} \cap Entries
Visited == {p \in Entries : p < pos /\ tree[p] = "doc"}
Running == {w \in Workers : worker[w] \notin {New, Gone}}

TypeOK == /\ tree \in [Entries -> Kinds]
          /\ pos \in 1..(N + 1)
          /\ caller \in {"walk", "close", "wait", "returned"}
          /\ err \in BOOLEAN
          /\ jobs \in Seq(Entries) /\ Len(jobs) <= Cap
          /\ closed \in BOOLEAN
          /\ pool \in {"spawn", "wait", "finished"}
          /\ wg \in 0..PoolSize
          /\ worker \in [Workers -> Entries \cup {New, Idle, Gone}]
          /\ done \in BOOLEAN
          /\ outcome \in [Entries -> {"none", "ok", "failed"}]

\* Each document the walk has passed is in exactly one place: the channel, one
\* worker's hands, or finished. No path is lost between send, receive and the
\* close of the channel, and none is processed twice.
EachDocumentOnce ==
    /\ \A p \in Visited : \/ outcome[p] # "none"
                          \/ p \in Queued
                          \/ p \in InHand
    /\ \A p \in Entries : outcome[p] # "none" => p \in Visited
    /\ \A p \in Queued \cup InHand : p \in Visited /\ outcome[p] = "none"
    /\ Queued \cap InHand = {}
    /\ \A i, j \in DOMAIN jobs : jobs[i] = jobs[j] => i = j
    /\ \A v, w \in Workers : worker[v] = worker[w] /\ worker[v] \in Entries => v = w

\* How the goroutines keep step: the channel is closed once, after the walk; the
\* pool starts every worker before it waits; the wait group counts the workers
\* that have not left; a worker leaves only a closed and empty channel; `done`
\* closes after the last of them. Run's result is the error of the walk.
GoroutineProtocol ==
    /\ \A q \in 1..(pos - 1) : tree[q] # "error"
    /\ caller = "walk" => ~err
    /\ caller # "walk" => IF err THEN pos \in Entries /\ tree[pos] = "error"
                                 ELSE pos = N + 1
    /\ closed <=> caller \in {"wait", "returned"}
    /\ caller = "returned" => done
    /\ done <=> pool = "finished"
    /\ \A v, w \in Workers : v < w /\ worker[w] # New => worker[v] # New
    /\ pool # "spawn" => \A w \in Workers : worker[w] # New
    /\ pool = "finished" => \A w \in Workers : worker[w] = Gone
    /\ (\E w \in Workers : worker[w] = Gone) => closed /\ jobs = <<>>
    /\ wg = Cardinality(Running)

\* When Run returns, the channel is drained and all its goroutines are gone:
\* IndexRunner clears its running flag only after the last write to the index.
NothingOutlivesRun ==
    caller = "returned" => /\ jobs = <<>>
                           /\ \A w \in Workers : worker[w] = Gone
                           /\ \A p \in Visited : outcome[p] # "none"
                           /\ pool = "finished"

\* Refinement: Run is one ScanContract, each worker's processing one of its
\* steps, and the return of Run its return.
Contract == INSTANCE ScanContract WITH
    result <- IF caller # "returned" THEN "running"
              ELSE IF err THEN "err" ELSE "nil"

ImplementsContract == Contract!Spec
ImplementsContractSafely == Contract!SafetySpec

=============================================================================
