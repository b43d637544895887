----------------------------- MODULE IndexRunner -----------------------------
(***************************************************************************)
(* IndexRunner.Start (internal/usecase/index_runner.go): the `running`     *)
(* flag that is to keep one scan at a time, loaded, stored and cleared by  *)
(* separate atomic operations. Start is called by HTTP handlers, each on   *)
(* its own goroutine, and by the main goroutine at startup; the scan it    *)
(* starts is a goroutine that executes Run (module IndexRun) and clears    *)
(* the flag when Run has returned.                                         *)
(***************************************************************************)

CONSTANTS
    Callers,    \* goroutines that call Start
    Roots,      \* watched paths
    Runs,       \* bound: scans that can be live at the same time
    None        \* no scan

ASSUME NoneAssumption == None \notin Roots

VARIABLES
    running,    \* the atomic flag
    call,       \* where each caller is in Start, and the root it was given
    run,        \* the root of each live scan, or None
    overlapped  \* history: two callers have been past the load together, and
                \* a scan has been live ever since

flagVars == <<running, call, run, overlapped>>

IdleCall == [at |-> "idle", root |-> None]

Live == {r \in Runs : run[r] # None}

FlagInit == /\ running = FALSE
            /\ call = [c \in Callers |-> IdleCall]
            /\ run = [r \in Runs |-> None]
            /\ overlapped = FALSE

\* Caller c gets past the load.
Pass(c) == overlapped' = (\/ \E d \in Callers \ {c} : call[d] # IdleCall
                          \/ overlapped /\ Live # {})

\* Mutant: Start does not look at the flag.
LoadFlagIgnored(c, root) ==
    /\ call[c] = IdleCall
    /\ call' = [call EXCEPT ![c] = [at |-> "checked", root |-> root]]
    /\ Pass(c)
    /\ UNCHANGED <<running, run>>

\* r.running.Load(): Start gives up when a scan is running, else it goes on.
LoadFlag(c, root) ==
    /\ call[c] = IdleCall
    /\ \/ running /\ UNCHANGED <<call, overlapped>>
       \/ /\ ~running
          /\ call' = [call EXCEPT ![c] = [at |-> "checked", root |-> root]]
          /\ Pass(c)
    /\ UNCHANGED <<running, run>>

\* Mutant: Start forgets to raise the flag.
RaiseNothing(c) == /\ call[c].at = "checked"
                   /\ call' = [call EXCEPT ![c].at = "stored"]
                   /\ UNCHANGED <<running, run, overlapped>>

\* r.running.Store(true)
RaiseFlag(c) == /\ call[c].at = "checked"
                /\ running' = TRUE
                /\ call' = [call EXCEPT ![c].at = "stored"]
                /\ UNCHANGED <<run, overlapped>>

\* Mutant: a caller keeps the root of its last call.
SpawnKeepsRoot(c) == /\ call[c].at = "stored"
                     /\ \E r \in Runs : /\ run[r] = None
                                        /\ run' = [run EXCEPT ![r] = call[c].root]
                     /\ call' = [call EXCEPT ![c].at = "idle"]
                     /\ UNCHANGED <<running, overlapped>>

\* go func() { ... }, and Start returns.
Spawn(c) == /\ call[c].at = "stored"
            /\ \E r \in Runs : /\ run[r] = None
                               /\ run' = [run EXCEPT ![r] = call[c].root]
            /\ call' = [call EXCEPT ![c] = IdleCall]
            /\ UNCHANGED <<running, overlapped>>

\* Mutant: the scan ends on a path that does not clear the flag.
FinishRunFlagUp(r) == /\ run[r] # None
                      /\ run' = [run EXCEPT ![r] = None]
                      /\ UNCHANGED <<running, call, overlapped>>

\* Run has returned: the deferred r.running.Store(false).
FinishRun(r) == /\ run[r] # None
                /\ run' = [run EXCEPT ![r] = None]
                /\ running' = FALSE
                /\ UNCHANGED <<call, overlapped>>

Start(c) == (\E root \in Roots : LoadFlag(c, root)) \/ RaiseFlag(c) \/ Spawn(c)

FlagNext == (\E c \in Callers : Start(c)) \/ (\E r \in Runs : FinishRun(r))

\* A scan ends (IndexRun: its own liveness) and a goroutine inside Start goes
\* on; nobody has to call Start.
Fairness == /\ \A c \in Callers : WF_flagVars(RaiseFlag(c) \/ Spawn(c))
            /\ \A r \in Runs : WF_flagVars(FinishRun(r))

FlagSafetySpec == FlagInit /\ [][FlagNext]_flagVars

FlagSpec == FlagSafetySpec /\ Fairness

-----------------------------------------------------------------------------
FlagTypeOK == /\ running \in BOOLEAN
              /\ call \in [Callers -> [at : {"checked", "stored"}, root : Roots]
                                      \cup {IdleCall}]
              /\ run \in [Runs -> Roots \cup {None}]
              /\ overlapped \in BOOLEAN

\* The flag never stays up with no scan to clear it: while it is up, a scan is
\* live or a caller is about to start one. Otherwise every later Start would be
\* refused as "Already indexing".
FlagHasOwner == running => \/ Live # {}
                           \/ \E c \in Callers : call[c].at = "stored"

\* At most one scan is live: what the flag is for.
AtMostOneRun == \A r, s \in Live : r = s

\* IsIndexing, which /api/stats reports, is true whenever a scan is live.
FlagIsTruthful == Live # {} => running

\* Calls of Start that have not overlapped keep one scan at a time, and the flag
\* truthful: after an overlap both hold again once its scans are over.
OneRunUnlessOverlapped == ~overlapped => AtMostOneRun
TruthfulUnlessOverlapped == ~overlapped => FlagIsTruthful

\* The flag comes down again, whatever callers do: a later Start is accepted.
FlagComesDown == running ~> ~running
==============================================================================
