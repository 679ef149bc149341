------------------------- MODULE Concurrency_proofs -------------------------
(***************************************************************************)
(* Theorems about Execution, for any number of jobs, worker threads and    *)
(* cycles and any jobs that wait for others: what Stop leaves behind.      *)
(* They are stated of the specification that the runs check, in which one  *)
(* of three components moves.                                              *)
(***************************************************************************)
EXTENDS MCConcurrency, Ownership_proofs

-----------------------------------------------------------------------------
(* Execution: the invariant is inductive *)

\* Every step of the execution keeps the types.
LEMMA ExecutionTypes ==
  ASSUME Ex!TypeOK, [Ex!Next]_(Ex!vars)
  PROVE  Ex!TypeOK'
  <1> USE ExecutionAssumption
      DEF Ex!ConstantsOK, Ex!TypeOK, Ex!WorkerLabels, Ex!ControlLabels,
          Ex!JobStates, Ex!controlVars, Ex!fiberVars, Ex!Begun
  <1>1. CASE Ex!Control
    <2>1. CASE Ex!StartSpawn
      BY <2>1 DEF Ex!StartSpawn
    <2>2. CASE Ex!StopJoined
      BY <2>2 DEF Ex!StopJoined
    <2>3. CASE Ex!DestroyStop
      BY <2>3 DEF Ex!DestroyStop
    <2>4. CASE Ex!StartBarrier \/ Ex!StartReturn \/ Ex!StopClose \/ Ex!Destroy
      BY <2>4 DEF Ex!StartBarrier, Ex!StartReturn, Ex!StopClose, Ex!Destroy
    <2> QED BY <1>1, <2>1, <2>2, <2>3, <2>4 DEF Ex!Control
  <1>2. CASE Ex!Cycle
    <2>1. CASE Ex!BeginCycle
      <3>1. cycle + 1 \in 1 .. Len(Batches)
        BY <2>1 DEF Ex!BeginCycle
      <3>2. Batches[cycle + 1] \in SUBSET Jobs
        BY <3>1
      <3> QED BY <2>1, <3>2 DEF Ex!BeginCycle
    <2>2. ASSUME NEW j \in Jobs, Ex!Schedule(j) PROVE Ex!TypeOK'
      BY <2>2 DEF Ex!Schedule
    <2>3. CASE Ex!CycleDone
      BY <2>3 DEF Ex!CycleDone
    <2> QED BY <1>2, <2>1, <2>2, <2>3 DEF Ex!Cycle
  <1>3. ASSUME NEW w \in Workers, Ex!Worker(w) PROVE Ex!TypeOK'
    <2> USE DEF Ex!Switch
    <2>1. CASE Ex!WorkerReady(w)
      BY <2>1 DEF Ex!WorkerReady
    <2>2. CASE Ex!Poll(w)
      BY <2>2 DEF Ex!Poll
    <2>3. CASE Ex!YieldMain(w)
      BY <2>3 DEF Ex!YieldMain
    <2>4. CASE Ex!BeginJob(w)
      BY <2>4 DEF Ex!BeginJob
    <2>5. CASE Ex!WaitInJob(w)
      BY <2>5 DEF Ex!WaitInJob
    <2>6. CASE Ex!FinishJob(w)
      BY <2>6 DEF Ex!FinishJob
    <2> QED BY <1>3, <2>1, <2>2, <2>3, <2>4, <2>5, <2>6 DEF Ex!Worker
  <1>4. CASE UNCHANGED Ex!vars
    BY <1>4 DEF Ex!vars
  <1> QED BY <1>1, <1>2, <1>3, <1>4 DEF Ex!Next

\* Every step keeps WorkersOK: the worker threads exist from Start to Stop,
\* because Stop joins all of them.
LEMMA WorkersStep ==
  ASSUME Ex!TypeOK, Ex!WorkersOK, Ex!ControlOK, [Ex!Next]_(Ex!vars)
  PROVE  Ex!WorkersOK'
  <1> USE ExecutionAssumption
      DEF Ex!ConstantsOK, Ex!TypeOK, Ex!WorkerLabels, Ex!ControlLabels,
          Ex!JobStates, Ex!controlVars, Ex!fiberVars, Ex!Begun, Ex!Exited,
          Ex!WorkersOK, Ex!ControlOK, Ex!Spawned
  <1>1. CASE Ex!Control
    <2>1. CASE Ex!StartSpawn
      BY <2>1 DEF Ex!StartSpawn
    <2>2. CASE Ex!StartBarrier
      BY <2>2 DEF Ex!StartBarrier
    <2>3. CASE Ex!StartReturn
      BY <2>3 DEF Ex!StartReturn
    <2>4. CASE Ex!StopClose
      BY <2>4 DEF Ex!StopClose
    <2>5. CASE Ex!StopJoined
      BY <2>5 DEF Ex!StopJoined
    <2>6. CASE Ex!Destroy
      BY <2>6 DEF Ex!Destroy
    <2>7. CASE Ex!DestroyStop
      BY <2>7 DEF Ex!DestroyStop
    <2> QED BY <1>1, <2>1, <2>2, <2>3, <2>4, <2>5, <2>6, <2>7 DEF Ex!Control
  <1>2. CASE Ex!Cycle
    <2>1. CASE Ex!BeginCycle
      BY <2>1 DEF Ex!BeginCycle
    <2>2. ASSUME NEW j \in Jobs, Ex!Schedule(j) PROVE Ex!WorkersOK'
      BY <2>2 DEF Ex!Schedule
    <2>3. CASE Ex!CycleDone
      BY <2>3 DEF Ex!CycleDone
    <2> QED BY <1>2, <2>1, <2>2, <2>3 DEF Ex!Cycle
  <1>3. ASSUME NEW w \in Workers, Ex!Worker(w) PROVE Ex!WorkersOK'
    <2>1. CASE Ex!WorkerReady(w)
      BY <2>1 DEF Ex!WorkerReady
    <2>2. CASE Ex!Poll(w)
      BY <2>2 DEF Ex!Poll
    <2>3. CASE Ex!YieldMain(w)
      BY <2>3 DEF Ex!YieldMain, Ex!Switch
    <2>4. CASE Ex!BeginJob(w)
      BY <2>4 DEF Ex!BeginJob, Ex!Switch
    <2>5. CASE Ex!WaitInJob(w)
      BY <2>5 DEF Ex!WaitInJob, Ex!Switch
    <2>6. CASE Ex!FinishJob(w)
      BY <2>6, SMTT(40) DEF Ex!FinishJob, Ex!Switch
    <2> QED BY <1>3, <2>1, <2>2, <2>3, <2>4, <2>5, <2>6 DEF Ex!Worker
  <1>4. CASE UNCHANGED Ex!vars
    BY <1>4 DEF Ex!vars
  <1> QED BY <1>1, <1>2, <1>3, <1>4 DEF Ex!Next

\* Every step keeps ControlOK: only what runs is stopped.
LEMMA ControlStep ==
  ASSUME Ex!TypeOK, Ex!ControlOK, [Ex!Next]_(Ex!vars)
  PROVE  Ex!ControlOK'
  <1> USE ExecutionAssumption
      DEF Ex!ConstantsOK, Ex!TypeOK, Ex!WorkerLabels, Ex!ControlLabels,
          Ex!JobStates, Ex!controlVars, Ex!fiberVars, Ex!Begun, Ex!Exited,
          Ex!ControlOK
  <1>1. CASE Ex!Control
    <2>1. CASE Ex!StartSpawn
      BY <2>1 DEF Ex!StartSpawn
    <2>2. CASE Ex!StartBarrier
      BY <2>2 DEF Ex!StartBarrier
    <2>3. CASE Ex!StartReturn
      BY <2>3 DEF Ex!StartReturn
    <2>4. CASE Ex!StopClose
      BY <2>4 DEF Ex!StopClose
    <2>5. CASE Ex!StopJoined
      BY <2>5 DEF Ex!StopJoined
    <2>6. CASE Ex!Destroy
      BY <2>6 DEF Ex!Destroy
    <2>7. CASE Ex!DestroyStop
      BY <2>7 DEF Ex!DestroyStop
    <2> QED BY <1>1, <2>1, <2>2, <2>3, <2>4, <2>5, <2>6, <2>7 DEF Ex!Control
  <1>2. CASE Ex!Cycle
    <2>1. CASE Ex!BeginCycle
      BY <2>1 DEF Ex!BeginCycle
    <2>2. ASSUME NEW j \in Jobs, Ex!Schedule(j) PROVE Ex!ControlOK'
      BY <2>2 DEF Ex!Schedule
    <2>3. CASE Ex!CycleDone
      BY <2>3 DEF Ex!CycleDone
    <2> QED BY <1>2, <2>1, <2>2, <2>3 DEF Ex!Cycle
  <1>3. ASSUME NEW w \in Workers, Ex!Worker(w) PROVE Ex!ControlOK'
    <2>1. CASE Ex!WorkerReady(w)
      BY <2>1 DEF Ex!WorkerReady
    <2>2. CASE Ex!Poll(w)
      BY <2>2 DEF Ex!Poll
    <2>3. CASE Ex!YieldMain(w)
      BY <2>3 DEF Ex!YieldMain, Ex!Switch
    <2>4. CASE Ex!BeginJob(w)
      BY <2>4 DEF Ex!BeginJob, Ex!Switch
    <2>5. CASE Ex!WaitInJob(w)
      BY <2>5 DEF Ex!WaitInJob, Ex!Switch
    <2>6. CASE Ex!FinishJob(w)
      BY <2>6 DEF Ex!FinishJob, Ex!Switch
    <2> QED BY <1>3, <2>1, <2>2, <2>3, <2>4, <2>5, <2>6 DEF Ex!Worker
  <1>4. CASE UNCHANGED Ex!vars
    BY <1>4 DEF Ex!vars
  <1> QED BY <1>1, <1>2, <1>3, <1>4 DEF Ex!Next

\* Every step keeps FibersOK: a job moves from the channel to the shared
\* queue and from there to one worker.
LEMMA FibersStep ==
  ASSUME Ex!TypeOK, Ex!WorkersOK, Ex!ControlOK, Ex!FibersOK, [Ex!Next]_(Ex!vars)
  PROVE  Ex!FibersOK'
  <1> USE ExecutionAssumption
      DEF Ex!ConstantsOK, Ex!TypeOK, Ex!WorkerLabels, Ex!ControlLabels,
          Ex!JobStates, Ex!controlVars, Ex!fiberVars, Ex!Begun, Ex!Exited,
          Ex!FibersOK, Ex!WorkersOK, Ex!ControlOK, Ex!Spawned
  <1>1. CASE Ex!Control
    <2>1. CASE Ex!StartSpawn
      BY <2>1 DEF Ex!StartSpawn
    <2>2. CASE Ex!StartBarrier
      BY <2>2 DEF Ex!StartBarrier
    <2>3. CASE Ex!StartReturn
      BY <2>3 DEF Ex!StartReturn
    <2>4. CASE Ex!StopClose
      BY <2>4 DEF Ex!StopClose
    <2>5. CASE Ex!StopJoined
      BY <2>5 DEF Ex!StopJoined
    <2>6. CASE Ex!Destroy
      BY <2>6 DEF Ex!Destroy
    <2>7. CASE Ex!DestroyStop
      BY <2>7 DEF Ex!DestroyStop
    <2> QED BY <1>1, <2>1, <2>2, <2>3, <2>4, <2>5, <2>6, <2>7 DEF Ex!Control
  <1>2. CASE Ex!Cycle
    <2>1. CASE Ex!BeginCycle
      BY <2>1 DEF Ex!BeginCycle
    <2>2. ASSUME NEW j \in Jobs, Ex!Schedule(j) PROVE Ex!FibersOK'
      BY <2>2 DEF Ex!Schedule
    <2>3. CASE Ex!CycleDone
      BY <2>3 DEF Ex!CycleDone
    <2> QED BY <1>2, <2>1, <2>2, <2>3 DEF Ex!Cycle
  <1>3. ASSUME NEW w \in Workers, Ex!Worker(w) PROVE Ex!FibersOK'
    <2>1. CASE Ex!WorkerReady(w)
      BY <2>1 DEF Ex!WorkerReady
    <2>2. CASE Ex!Poll(w)
      BY <2>2 DEF Ex!Poll
    <2>3. CASE Ex!YieldMain(w)
      BY <2>3 DEF Ex!YieldMain, Ex!Switch
    <2>4. CASE Ex!BeginJob(w)
      BY <2>4 DEF Ex!BeginJob, Ex!Switch
    <2>5. CASE Ex!WaitInJob(w)
      BY <2>5 DEF Ex!WaitInJob, Ex!Switch
    <2>6. CASE Ex!FinishJob(w)
      BY <2>6 DEF Ex!FinishJob, Ex!Switch
    <2> QED BY <1>3, <2>1, <2>2, <2>3, <2>4, <2>5, <2>6 DEF Ex!Worker
  <1>4. CASE UNCHANGED Ex!vars
    BY <1>4 DEF Ex!vars
  <1> QED BY <1>1, <1>2, <1>3, <1>4 DEF Ex!Next

\* Every step keeps LeavingOK: a worker leaves only by a switch that finds no
\* fiber, after the closed channel was empty; what becomes ready later was
\* on another worker and has begun.
LEMMA LeavingStep ==
  ASSUME Ex!TypeOK, Ex!WorkersOK, Ex!ControlOK, Ex!FibersOK, Ex!LeavingOK,
         [Ex!Next]_(Ex!vars)
  PROVE  Ex!LeavingOK'
  <1> USE ExecutionAssumption
      DEF Ex!ConstantsOK, Ex!TypeOK, Ex!WorkerLabels, Ex!ControlLabels,
          Ex!JobStates, Ex!controlVars, Ex!fiberVars, Ex!Begun, Ex!Exited,
          Ex!FibersOK, Ex!WorkersOK, Ex!ControlOK, Ex!Spawned, Ex!LeavingOK,
          Ex!Left
  <1>1. CASE Ex!Control
    <2>1. CASE Ex!StartSpawn
      BY <2>1 DEF Ex!StartSpawn
    <2>2. CASE Ex!StartBarrier
      BY <2>2 DEF Ex!StartBarrier
    <2>3. CASE Ex!StartReturn
      BY <2>3 DEF Ex!StartReturn
    <2>4. CASE Ex!StopClose
      BY <2>4 DEF Ex!StopClose
    <2>5. CASE Ex!StopJoined
      BY <2>5 DEF Ex!StopJoined
    <2>6. CASE Ex!Destroy
      BY <2>6 DEF Ex!Destroy
    <2>7. CASE Ex!DestroyStop
      BY <2>7 DEF Ex!DestroyStop
    <2> QED BY <1>1, <2>1, <2>2, <2>3, <2>4, <2>5, <2>6, <2>7 DEF Ex!Control
  <1>2. CASE Ex!Cycle
    <2>1. CASE Ex!BeginCycle
      BY <2>1 DEF Ex!BeginCycle
    <2>2. ASSUME NEW j \in Jobs, Ex!Schedule(j) PROVE Ex!LeavingOK'
      BY <2>2 DEF Ex!Schedule
    <2>3. CASE Ex!CycleDone
      BY <2>3 DEF Ex!CycleDone
    <2> QED BY <1>2, <2>1, <2>2, <2>3 DEF Ex!Cycle
  <1>3. ASSUME NEW w \in Workers, Ex!Worker(w) PROVE Ex!LeavingOK'
    <2>1. CASE Ex!WorkerReady(w)
      BY <2>1 DEF Ex!WorkerReady
    <2>2. CASE Ex!Poll(w)
      BY <2>2 DEF Ex!Poll
    <2>3. CASE Ex!YieldMain(w)
      BY <2>3 DEF Ex!YieldMain, Ex!Switch
    <2>4. CASE Ex!BeginJob(w)
      BY <2>4 DEF Ex!BeginJob, Ex!Switch
    <2>5. CASE Ex!WaitInJob(w)
      BY <2>5 DEF Ex!WaitInJob, Ex!Switch
    <2>6. CASE Ex!FinishJob(w)
      BY <2>6 DEF Ex!FinishJob, Ex!Switch
    <2> QED BY <1>3, <2>1, <2>2, <2>3, <2>4, <2>5, <2>6 DEF Ex!Worker
  <1>4. CASE UNCHANGED Ex!vars
    BY <1>4 DEF Ex!vars
  <1> QED BY <1>1, <1>2, <1>3, <1>4 DEF Ex!Next

\* Every step keeps WaitingOK: the last worker leaves from its main fiber, or
\* from a fiber that waits.
LEMMA WaitingStep ==
  ASSUME Ex!ExecutionInv, [Ex!Next]_(Ex!vars)
  PROVE  Ex!WaitingOK'
  <1> USE ExecutionAssumption
      DEF Ex!ConstantsOK, Ex!TypeOK, Ex!WorkerLabels, Ex!ControlLabels,
          Ex!JobStates, Ex!controlVars, Ex!fiberVars, Ex!Begun, Ex!Exited,
          Ex!FibersOK, Ex!WorkersOK, Ex!ControlOK, Ex!Spawned, Ex!LeavingOK,
          Ex!Left, Ex!WaitingOK, Ex!AllLeft, Ex!ExecutionInv
  <1>1. CASE Ex!Control
    <2>1. CASE Ex!StartSpawn
      BY <2>1 DEF Ex!StartSpawn
    <2>2. CASE Ex!StartBarrier
      BY <2>2 DEF Ex!StartBarrier
    <2>3. CASE Ex!StartReturn
      BY <2>3 DEF Ex!StartReturn
    <2>4. CASE Ex!StopClose
      BY <2>4 DEF Ex!StopClose
    <2>5. CASE Ex!StopJoined
      BY <2>5 DEF Ex!StopJoined
    <2>6. CASE Ex!Destroy
      BY <2>6 DEF Ex!Destroy
    <2>7. CASE Ex!DestroyStop
      BY <2>7 DEF Ex!DestroyStop
    <2> QED BY <1>1, <2>1, <2>2, <2>3, <2>4, <2>5, <2>6, <2>7 DEF Ex!Control
  <1>2. CASE Ex!Cycle
    <2>1. CASE Ex!BeginCycle
      BY <2>1 DEF Ex!BeginCycle
    <2>2. ASSUME NEW j \in Jobs, Ex!Schedule(j) PROVE Ex!WaitingOK'
      BY <2>2 DEF Ex!Schedule
    <2>3. CASE Ex!CycleDone
      BY <2>3 DEF Ex!CycleDone
    <2> QED BY <1>2, <2>1, <2>2, <2>3 DEF Ex!Cycle
  <1>3. ASSUME NEW w \in Workers, Ex!Worker(w) PROVE Ex!WaitingOK'
    <2>1. CASE Ex!WorkerReady(w)
      BY <2>1 DEF Ex!WorkerReady
    <2>2. CASE Ex!Poll(w)
      BY <2>2 DEF Ex!Poll
    <2>3. CASE Ex!YieldMain(w)
      BY <2>3 DEF Ex!YieldMain, Ex!Switch
    <2>4. CASE Ex!BeginJob(w)
      BY <2>4 DEF Ex!BeginJob, Ex!Switch
    <2>5. CASE Ex!WaitInJob(w)
      BY <2>5 DEF Ex!WaitInJob, Ex!Switch
    <2>6. CASE Ex!FinishJob(w)
      BY <2>6 DEF Ex!FinishJob, Ex!Switch
    <2> QED BY <1>3, <2>1, <2>2, <2>3, <2>4, <2>5, <2>6 DEF Ex!Worker
  <1>4. CASE UNCHANGED Ex!vars
    BY <1>4 DEF Ex!vars
  <1> QED BY <1>1, <1>2, <1>3, <1>4 DEF Ex!Next

\* The initial states: no worker, nothing scheduled.
LEMMA ExecutionInvInit ==
  ASSUME Ex!Init
  PROVE  Ex!ExecutionInv
  <1> USE ExecutionAssumption DEF Ex!ConstantsOK, Ex!Init
  <1>1. Ex!TypeOK
    BY DEF Ex!TypeOK, Ex!WorkerLabels, Ex!ControlLabels, Ex!JobStates
  <1>2. Ex!WorkersOK /\ Ex!ControlOK
    BY DEF Ex!WorkersOK, Ex!Spawned, Ex!ControlOK
  <1>3. Ex!FibersOK
    BY DEF Ex!FibersOK
  <1>4. Ex!LeavingOK /\ Ex!WaitingOK
    BY DEF Ex!LeavingOK, Ex!Left, Ex!WaitingOK, Ex!AllLeft
  <1> QED BY <1>1, <1>2, <1>3, <1>4 DEF Ex!ExecutionInv

\* Every step of the execution keeps its invariant.
LEMMA ExecutionInvStep ==
  ASSUME Ex!ExecutionInv, [Ex!Next]_(Ex!vars)
  PROVE  Ex!ExecutionInv'
  BY ExecutionTypes, WorkersStep, ControlStep, FibersStep, LeavingStep,
     WaitingStep DEF Ex!ExecutionInv

\* What the invariant says of the states in which Stop has returned.
LEMMA ExecutionInvStopped ==
  ASSUME Ex!ExecutionInv
  PROVE  Ex!StoppedIsQuiet /\ Ex!StopCompletes
  <1> USE ExecutionAssumption
      DEF Ex!ConstantsOK, Ex!ExecutionInv, Ex!TypeOK, Ex!WorkersOK, Ex!Spawned,
          Ex!LeavingOK, Ex!Left, Ex!Stopped
  <1>1. Ex!StoppedIsQuiet
    BY DEF Ex!StoppedIsQuiet
  <1>2. Ex!StopCompletes
    <2> SUFFICES ASSUME Ex!Stopped, exAlive, NEW j \in bound
                 PROVE  job[j] = "done" \/ \E d \in WaitsFor[j] : job[d] # "done"
      BY DEF Ex!StopCompletes
    <2>1. /\ \A w \in Workers : wpc[w] = "off" /\ on[w] = Main
          /\ channel = {}
      BY <1>1 DEF Ex!StoppedIsQuiet
    <2>2. job[j] \in {"scheduled", "running", "done"}
      BY DEF Ex!WaitingOK
    <2>3. job[j] # "done" => j \in ready
      BY <2>1, <2>2 DEF Ex!FibersOK
    <2>4. \A k \in ready : \E d \in WaitsFor[k] : job[d] # "done"
      BY <2>1 DEF Ex!WaitingOK, Ex!AllLeft, Ex!Exited
    <2> QED BY <2>3, <2>4
  <1> QED BY <1>1, <1>2

\* Every behaviour of the execution, fair or not, keeps the invariant.
LEMMA ExecutionInvAlways == Ex!Init /\ [][Ex!Next]_(Ex!vars) => []Ex!ExecutionInv
  <1>1. Ex!Init => Ex!ExecutionInv
    BY ExecutionInvInit
  <1>2. Ex!ExecutionInv /\ [Ex!Next]_(Ex!vars) => Ex!ExecutionInv'
    BY ExecutionInvStep
  <1> QED BY <1>1, <1>2, PTL

\* Stop runs what it was given: a job that a running execution accepted has
\* ended when Stop has returned, unless it waits for one that has not.
THEOREM StopRunsWhatItWasGiven == Ex!Spec => []Ex!StopCompletes
  <1>1. Ex!ExecutionInv => Ex!StopCompletes
    BY ExecutionInvStopped
  <1> QED BY <1>1, ExecutionInvAlways, PTL DEF Ex!Spec

-----------------------------------------------------------------------------
(* The recursive spin lock: the theorems of SpinLock_proofs, instantiated *)

LkP == INSTANCE SpinLock_proofs

\* The two instances are of the same module.
LEMMA SameLock ==
  /\ Lk!Init <=> LkP!Init
  /\ [Lk!Next]_(Lk!vars) <=> [LkP!Next]_(LkP!vars)
  /\ Lk!TypeOK <=> LkP!TypeOK
  <1>1. Lk!Init <=> LkP!Init
    BY DEF Lk!Init, LkP!Init
  <1>2. Lk!Next <=> LkP!Next
    BY DEF Lk!Next, Lk!Lock, Lk!CheckOwner, Lk!TestAndSet, Lk!StoreOwner,
           Lk!Unlock, Lk!ClearFlag, Lk!ResetOwner, Lk!InfoIsFree, Lk!Goto,
           LkP!Next, LkP!Lock, LkP!CheckOwner, LkP!TestAndSet, LkP!StoreOwner,
           LkP!Unlock, LkP!ClearFlag, LkP!ResetOwner, LkP!InfoIsFree, LkP!Goto
  <1>3. Lk!TypeOK <=> LkP!TypeOK
    BY DEF Lk!TypeOK, LkP!TypeOK
  <1> QED BY <1>1, <1>2, <1>3 DEF Lk!vars, LkP!vars

\* The two instances implement the same recursive mutex.
LEMMA SameMutex == LkP!ImplementsRecursiveMutex => ImplementsRecursiveMutex
  <1>1. LkP!Abstract!Init <=> Lk!Abstract!Init
    BY DEF LkP!Abstract!Init, Lk!Abstract!Init
  <1>2. LkP!Abstract!Next <=> Lk!Abstract!Next
    BY DEF LkP!Abstract!Next, LkP!Abstract!Acquire, LkP!Abstract!AcquireAgain,
           LkP!Abstract!ReleaseOnce, LkP!Abstract!Release,
           Lk!Abstract!Next, Lk!Abstract!Acquire, Lk!Abstract!AcquireAgain,
           Lk!Abstract!ReleaseOnce, Lk!Abstract!Release
  <1>3. [LkP!Abstract!Next]_(LkP!Abstract!vars) => [Lk!Abstract!Next]_(Lk!Abstract!vars)
    BY <1>2 DEF LkP!Abstract!vars, Lk!Abstract!vars
  <1> QED
    BY <1>1, <1>3, PTL
       DEF ImplementsRecursiveMutex, Lk!ImplementsRecursiveMutex,
           LkP!ImplementsRecursiveMutex, LkP!Abstract!Spec, Lk!Abstract!Spec

-----------------------------------------------------------------------------
(* The specification that the runs check *)

\* A component that does not move stutters.
LEMMA EachMovesOrRests ==
  ASSUME [AllNext]_allVars
  PROVE  /\ [Next]_vars
         /\ [Ex!Next]_(Ex!vars)
         /\ [LkP!Next]_(LkP!vars)
  <1>1. /\ UNCHANGED exVars => UNCHANGED Ex!vars
        /\ UNCHANGED lkVars => UNCHANGED LkP!vars
    BY DEF exVars, lkVars, LkP!vars, Ex!vars, Ex!controlVars, Ex!fiberVars
  <1>2. CASE OwnershipMoves
    BY <1>1, <1>2 DEF OwnershipMoves
  <1>3. CASE ExecutionMoves
    BY <1>1, <1>3 DEF ExecutionMoves
  <1>4. CASE SpinLockMoves
    BY <1>1, <1>4, SameLock DEF SpinLockMoves
  <1>5. CASE UNCHANGED allVars
    BY <1>1, <1>5 DEF allVars
  <1> QED BY <1>2, <1>3, <1>4, <1>5 DEF AllNext

\* Each component behaves as its own specification says, without fairness.
LEMMA EachBehaves ==
  AllSpec => /\ Init /\ [][Next]_vars
             /\ Ex!Init /\ [][Ex!Next]_(Ex!vars)
             /\ LkP!Spec
  <1>1. AllInit => Init /\ Ex!Init /\ LkP!Init
    BY SameLock DEF AllInit
  <1>2. [AllNext]_allVars =>
            [Next]_vars /\ [Ex!Next]_(Ex!vars) /\ [LkP!Next]_(LkP!vars)
    BY EachMovesOrRests
  <1> QED BY <1>1, <1>2, PTL DEF AllSpec, LkP!Spec

\* LkP's theorems make the assumption that is made of the constants of Lk.
LEMMA LockConstants == LkP!ActorsOK
  BY LockAssumption DEF Lk!ActorsOK, LkP!ActorsOK

\* Every variable of the three components keeps its type.
THEOREM ConcurrencyTypes == AllSpec => []TypesOK
  <1>1. Init => BaseInv
    BY BaseInit
  <1>2. BaseInv /\ [Next]_vars => BaseInv'
    BY LockStep, CountStep DEF BaseInv
  <1>3. LkP!Spec => []LkP!TypeOK
    BY LockConstants, LkP!LockTypes
  <1>4. BaseInv /\ Ex!ExecutionInv /\ LkP!TypeOK => TypesOK
    BY SameLock DEF BaseInv, Ex!ExecutionInv, TypesOK
  <1> QED BY <1>1, <1>2, <1>3, <1>4, EachBehaves, ExecutionInvAlways, PTL

\* When Stop has returned no worker is left and nothing is in the channel, and
\* the fibers that are left have begun and wait.
THEOREM StopLeavesNothing == AllSpec => []StoppedIsQuiet
  <1>1. Ex!ExecutionInv => StoppedIsQuiet
    BY ExecutionInvStopped DEF StoppedIsQuiet
  <1> QED BY <1>1, EachBehaves, ExecutionInvAlways, PTL

\* The recursive spin lock of the instance is a recursive mutex.
THEOREM InstanceImplementsMutex == AllSpec => ImplementsRecursiveMutex
  <1>1. LkP!Spec => LkP!ImplementsRecursiveMutex
    BY LockConstants, LkP!LockImplementation
  <1> QED BY <1>1, EachBehaves, SameMutex, PTL
=============================================================================
