--------------------------- MODULE MCConcurrency ----------------------------
(***************************************************************************)
(* Instances for TLC of what the rest of the system stands on: exclusive   *)
(* ownership, the execution of jobs on fibers, and the spin lock.  None    *)
(* has state of another, so nothing is learned from their interleavings:   *)
(* the first state chooses the component that moves, and the others rest.  *)
(***************************************************************************)
EXTENDS Ownership, Sequences

CONSTANTS
    \* The constants of Execution
    Jobs, Workers, WaitsFor, AsyncJobs, Batches, ChannelCapacity, MaxStarts, Main,
    \* The constants of SpinLock; its None is the one of Ownership
    Actors, MaxDepth,
    \* Model values
    b1, b2, b3, b4

Some == {b1, b2, b3}
Many == {b1, b2, b3, b4}

VARIABLES
    part,   \* the component that moves
    \* Execution
    exState, managed, exAlive, channel, closed, wpc, on, ready, job, bound,
    cpc, starts, cycle, batch,
    \* SpinLock
    flag, infoLock, info, count, spc, held

exVars == <<exState, managed, exAlive, channel, closed, wpc, on, ready, job,
            bound, cpc, starts, cycle, batch>>
lkVars == <<flag, infoLock, info, count, spc, held>>
allVars == <<part, vars, exVars, lkVars>>

-----------------------------------------------------------------------------
(* The instances *)

\* Execution: a job that waits for another one of its cycle, and a second cycle.
OneWaits == [j \in Jobs |-> IF j = "j1" THEN {"j2"} ELSE {}]
TwoCycles == <<{"j1", "j2"}, {"j3"}>>

Ex == INSTANCE Execution WITH state <- exState, alive <- exAlive
Lk == INSTANCE SpinLock

\* The theorems assume this of the constants.
ASSUME ExecutionAssumption == Ex!ConstantsOK
ASSUME LockAssumption == Lk!ActorsOK

-----------------------------------------------------------------------------
(* The specification *)

\* A component that rests is in one of its initial states.
AllInit ==
    /\ part \in {"ownership", "execution", "lock"}
    /\ Init
    /\ Ex!Init
    /\ Lk!Init

OwnershipMoves ==
    /\ part = "ownership"
    /\ Next
    /\ UNCHANGED <<part, exVars, lkVars>>

ExecutionMoves ==
    /\ part = "execution"
    /\ Ex!Next
    /\ UNCHANGED <<part, vars, lkVars>>

SpinLockMoves ==
    /\ part = "lock"
    /\ Lk!Next
    /\ UNCHANGED <<part, vars, exVars>>

AllNext ==
    \/ OwnershipMoves
    \/ ExecutionMoves
    \/ SpinLockMoves

\* The fairness of Ownership and Execution, each for its own steps.
AllFairness ==
    /\ WF_vars(part = "ownership" /\ Destructor)
    /\ \A b \in Borrowers :
          /\ WF_vars(/\ part = "ownership"
                     /\ TryCheck(b) \/ PerformCheck(b) \/ PerformLend(b))
          /\ WF_vars(part = "ownership" /\ (CopyLoad(b) \/ DerefDone(b)))
          /\ SF_vars(part = "ownership" /\ Return(b))
    /\ WF_exVars(/\ part = "execution"
                 /\ \/ Ex!StartBarrier \/ Ex!StartReturn
                    \/ Ex!StopJoined \/ Ex!DestroyStop)
    /\ WF_exVars(/\ part = "execution"
                 /\ \/ \E j \in Jobs : Ex!Schedule(j)
                    \/ Ex!CycleDone)
    /\ \A w \in Workers : WF_exVars(part = "execution" /\ Ex!Worker(w))

AllSpec == AllInit /\ [][AllNext]_allVars /\ AllFairness

-----------------------------------------------------------------------------
(* The properties, each stated in the module of its component *)

\* Every variable has its type.
TypesOK == TypeOK /\ Ex!TypeOK /\ Lk!TypeOK

\* Execution: when Stop has returned, no worker is left, nothing is in the
\* channel, and only fibers whose jobs wait for something remain.
StoppedIsQuiet == Ex!StoppedIsQuiet

\* Execution: Stop and the destructor return, although jobs may still wait.
StopReturns == Ex!StopReturns

\* Execution: a job that was accepted while the execution ran ends, and so
\* does one that waits for it, whether or not the execution is stopped.
AcceptedJobEnds == Ex!AcceptedJobEnds

\* SpinLock: two threads or fibers are never inside the recursive lock.
MutualExclusion == Lk!MutualExclusion

\* SpinLock: the assertions of try_lock and unlock hold.
OwnerHasTheFlag == Lk!OwnerHasTheFlag

\* SpinLock: the recursive spin lock implements a recursive mutex.
ImplementsRecursiveMutex == Lk!ImplementsRecursiveMutex

-----------------------------------------------------------------------------
(* What the code does not guarantee: as an invariant of the cfg, this one     *)
(* has a counterexample.                                                     *)

\* JobManager.h: jobs that are passed to a stopped execution are kept.
NothingIsDropped == Ex!NothingIsDropped

=============================================================================
