---------------------------- MODULE CycleBarrier ----------------------------
(***************************************************************************)
(* What the job manager promises about synchronous jobs, without queues,   *)
(* locks or threads: the manager goes around READY, INIT, MAIN, CLEAN_UP;  *)
(* a job is passed to the execution only in its own phase; and the manager *)
(* leaves a phase only when every job passed to the execution has finished.*)
(* JobManager implements this when nobody outside of the cycle kicks jobs. *)
(***************************************************************************)
CONSTANTS SyncJobs, PhaseOf

VARIABLES
    managerState,  \* READY or the phase of the cycle
    active         \* jobs passed to the execution and not finished

barrierVars == <<managerState, active>>

Init ==
    /\ managerState = "READY"
    /\ active = {}

Begin(j) ==
    /\ managerState = PhaseOf[j]
    /\ j \notin active
    /\ active' = active \cup {j}
    /\ UNCHANGED managerState

End(j) ==
    /\ j \in active
    /\ active' = active \ {j}
    /\ UNCHANGED managerState

Advance ==
    /\ active = {}
    /\ \/ managerState = "READY" /\ managerState' = "INIT"
       \/ managerState = "INIT" /\ managerState' = "MAIN"
       \/ managerState = "MAIN" /\ managerState' = "CLEAN_UP"
       \/ managerState = "CLEAN_UP" /\ managerState' = "READY"
    /\ UNCHANGED active

Next ==
    \/ \E j \in SyncJobs : Begin(j) \/ End(j)
    \/ Advance

Spec == Init /\ [][Next]_barrierVars

=============================================================================
