--------------------------- MODULE JobManagerInv ----------------------------
(***************************************************************************)
(* The inductive invariants behind the safety properties of JobManager,    *)
(* and the abstract barrier it implements.  TLC checks them on instances;  *)
(* JobManager_proofs proves them for all values of the constants.          *)
(***************************************************************************)
EXTENDS JobManager

\* Nobody outside of the cycle kicks jobs: neither a client nor an
\* asynchronous job, which may both run while a phase is about to end.
OnlySyncJobsKick ==
    \A x \in Clients \cup AsyncJobs : \A n \in 1 .. Len(Script[x]) :
        Script[x][n][1] # "kick"

LoopLabels == {"sched_push", "sched_mark", "defer_check", "defer_push"}
PhaseLabels == {"peek", "wait"} \cup ScheduleLabels

\* What the program counter of an actor says about its variables.
PcOK ==
    /\ \A x \in Actors : pc[x] \in KickLabels => arg[x] \in Jobs
    /\ \A x \in Actors \ {Main} : pc[x] \in ScheduleLabels => arg[x] \in Jobs
    /\ \A x \in Actors : pc[x] \in LoopLabels => cur[x] \in Jobs
    /\ \A f \in Fibers : running[f] \in Jobs <=> pc[f] # "idle"
    /\ \A x \in Actors \ {Main} : pc[x] \notin MainLabels
    /\ \A x \in Actors \ Fibers : pc[x] \notin FiberLabels
    /\ pc[Main] \in PhaseLabels => managerState \in Phases
    /\ pc[Main] \notin PhaseLabels \cup {"enter"} => managerState = "READY"
    /\ pc[Main] \in PhaseLabels \cup {"enter"} => cycle >= 1
    /\ nextLock \in {None, Main}
    /\ pc[Main] = "drain" => nextLock = Main
    /\ nextLock = Main => pc[Main] \in {"drain"} \cup KickLabels
    /\ pc[Main] \in {"drain_lock", "begin"} \/ nextLock = Main =>
           cycle < MaxCycles

\* Whoever schedules a queue from KickJob owns the state mutex, so the phase
\* cannot change under it.
StateLockOK ==
    \A x \in Clients \cup Fibers :
        pc[x] \in ScheduleLabels =>
            stateLock = x /\ managerState = PhaseOf[arg[x]]

SyncInv == TypeOK /\ PcOK /\ StateLockOK

-----------------------------------------------------------------------------
(* The barrier *)

Active(j) == jobCounters[j] # {}
InCall(x, j) == pc[x] \in {"kick_unban", "kick_push"} /\ arg[x] = j
Deferred(x, j) == pc[x] \in {"defer_check", "defer_push"} /\ cur[x] = j
BeingPushed(x, j) == pc[x] = "sched_push" /\ cur[x] = j

\* An instance waits in at most one place.
WaitsOnce ==
    \A j \in Jobs \ AsyncJobs :
        /\ \A p \in Phases : j \in queue[p] => PhaseOf[j] = p
        /\ j \in nextQueue => /\ \A p \in Phases : j \notin queue[p]
                              /\ \A x \in Actors : ~InCall(x, j)
                              /\ \A x \in Actors : ~Deferred(x, j)
        /\ \A p \in Phases : j \in queue[p] =>
               \A x \in Actors : ~InCall(x, j) /\ ~Deferred(x, j)
        /\ \A x, y \in Actors : InCall(x, j) /\ InCall(y, j) => x = y
        /\ \A x, y \in Actors : Deferred(x, j) /\ Deferred(y, j) => x = y
        /\ \A x, y \in Actors : ~(InCall(x, j) /\ Deferred(y, j))

\* An instance is in execution at most once.
ExecutesOnce ==
    \A j \in Jobs \ AsyncJobs :
        /\ j \in channel => /\ \A f \in Fibers : running[f] # j
                            /\ \A x \in Actors : ~BeingPushed(x, j)
        /\ \A f, g \in Fibers : running[f] = j /\ running[g] = j => f = g
        /\ \A f \in Fibers, x \in Actors :
               ~(running[f] = j /\ BeingPushed(x, j))
        /\ \A x, y \in Actors : BeingPushed(x, j) /\ BeingPushed(y, j) => x = y

\* An instance nobody has kicked yet is nowhere.
FreshIsNowhere ==
    \A j \in Jobs \ kicked :
        /\ j \notin nextQueue /\ j \notin channel /\ ~Active(j)
        /\ \A p \in Phases : j \notin queue[p]
        /\ \A x \in Actors : ~InCall(x, j) /\ ~Deferred(x, j)
                             /\ ~BeingPushed(x, j)
        /\ \A f \in Fibers : running[f] # j

\* A synchronous job has a counter from the moment it leaves its queue until
\* it has finished; it has just that one, of this cycle and of its phase;
\* meanwhile Main is in the scheduling loop of the phase or waits.
ActiveOK ==
    \A j \in Jobs \ AsyncJobs :
        /\ Active(j) =>
              /\ jobCounters[j] = {PhaseCounter(managerState)}
              /\ managerState = PhaseOf[j]
              /\ pc[Main] \in ScheduleLabels \cup {"wait"}
              /\ \A p \in Phases : j \notin queue[p]
              /\ \A x \in Actors : ~InCall(x, j) /\ ~Deferred(x, j)
        /\ j \in channel => Active(j)
        /\ \A f \in Fibers : running[f] = j => Active(j)
        /\ \A x \in Actors : BeingPushed(x, j) => Active(j)

AsyncUncounted == \A j \in AsyncJobs : jobCounters[j] = {}

\* Nobody but Main and a synchronous job is inside KickJob.
KickersOK ==
    \A x \in Clients \cup Fibers :
        pc[x] \in KickLabels \cup ScheduleLabels =>
            x \in Fibers /\ running[x] \notin AsyncJobs

BarrierInv ==
    /\ SyncInv
    /\ WaitsOnce
    /\ ExecutesOnce
    /\ FreshIsNowhere
    /\ ActiveOK
    /\ AsyncUncounted
    /\ KickersOK
    /\ CountersAreExact

-----------------------------------------------------------------------------
(* Where an instance is: Places of JobManager, and what is known of an     *)
(* instance that is nowhere.  Nothing is assumed of who kicks jobs.        *)

\* The loop variable of ScheduleAllJobsInQueue names a job within the loop.
CurOK == \A x \in Actors : cur[x] \in Jobs => pc[x] \in LoopLabels

\* An instance is in one place, and in none before it has been kicked.
AtOnePlace == \A j \in Jobs : \A s, t \in Places(j) : s = t

PlacesOK ==
    /\ AtOnePlace
    /\ \A j \in Jobs \ kicked : Places(j) = {} /\ jobCounters[j] = {}

\* Only DetachJob puts ids on the blacklist and takes instances out of queues.
DetachOK ==
    /\ \A id \in blacklist : WasDetached(id)
    /\ \A x \in Actors : pc[x] \in DetachLabels =>
           arg[x] \in Ids /\ WasDetached(arg[x])

\* An instance that is being kicked or has been kicked is in kicked.
KickedOK ==
    /\ \A x \in Actors : pc[x] \in KickLabels => arg[x] \in kicked
    /\ \A x \in Actors \ {Main} : pc[x] \in ScheduleLabels => arg[x] \in kicked
    /\ owned \subseteq kicked

\* An instance that has been kicked stays somewhere.
KeptOK ==
    \A j \in kicked \ disposed : WasDetached(IdOf[j]) \/ Places(j) # {}

\* The phases of the cycle that cycle counts have begun and not ended.
InCycle == managerState # "READY" \/ pc[Main] = "enter"

\* An instance that waits for its phase has no counter of this cycle yet.
CountedOK ==
    /\ \A j \in Jobs : \A c \in jobCounters[j] : c[1] <= cycle
    /\ \A j \in Jobs :
           InCycle /\ (\/ \E p \in Phases : j \in queue[p]
                      \/ \E x \in Actors : InCall(x, j)) =>
               \A p \in Phases : <<cycle, p>> \notin jobCounters[j]

PlacesInv ==
    /\ SyncInv
    /\ CurOK
    /\ PlacesOK
    /\ DetachOK
    /\ KickedOK
    /\ KeptOK
    /\ CountedOK
    /\ CountersAreExact

-----------------------------------------------------------------------------
(* The end of a phase *)

SchedulesPhase(f) ==
    /\ pc[f] = "kick_check" \/ pc[f] \in ScheduleLabels
    /\ PhaseOf[arg[f]] = managerState

\* A job that comes into the queue of the phase after Main has emptied it is
\* scheduled by the fiber that brought it there.
LeftoverOK ==
    pc[Main] \in {"wait", "enter"} /\ managerState \in Phases
    /\ queue[managerState] # {} => \E f \in Fibers : SchedulesPhase(f)

-----------------------------------------------------------------------------
(* Detaching *)

InScript(x, call) == \E n \in 1 .. Len(Script[x]) : Script[x][n] = call
MayBeDetached(k) == \E x \in Callers : InScript(x, <<"detach", IdOf[k]>>)

\* Who may detach jobs, and kick instances with the id of another one: Main
\* between two cycles, and synchronous jobs.  A job does neither to another
\* synchronous job of its own phase, which may run at the same time.
DetachDiscipline ==
    /\ OnlySyncJobsKick
    /\ \A x \in Clients \cup AsyncJobs : \A n \in 1 .. Len(Script[x]) :
           Script[x][n][1] # "detach"
    /\ \A k \in Jobs : MayBeDetached(k) =>
           /\ k \notin AsyncJobs
           /\ \A x \in Jobs \ {k} : InScript(x, <<"detach", IdOf[k]>>) =>
                  PhaseOf[x] # PhaseOf[k]
           /\ \A x \in Jobs, j \in Jobs \ {k} :
                  InScript(x, <<"kick", j>>) /\ IdOf[j] = IdOf[k] =>
                      PhaseOf[x] # PhaseOf[k]

\* A call that is made is one of the script, by a job or by Main.
CallsOK ==
    /\ \A f \in Fibers : pc[f] \in KickLabels \cup ScheduleLabels =>
           InScript(running[f], <<"kick", arg[f]>>)
    /\ \A x \in Actors : pc[x] \in DetachLabels =>
           /\ x \notin Clients
           /\ x \in Fibers => running[x] \notin AsyncJobs
           /\ InScript(Caller(x), <<"detach", arg[x]>>)

\* An instance is kicked once; after that only Main kicks it, for the next
\* cycle.
KickedOnceOK ==
    /\ \A f, g \in Fibers :
           /\ {pc[f], pc[g]} \subseteq KickLabels \cup ScheduleLabels
           /\ arg[f] = arg[g]
           => f = g
    /\ \A x \in Actors : \A j \in owned : InCall(x, j) =>
           x = Main /\ nextLock = Main

\* The job in the hands of a scheduling loop is one of the phase.
LoopPhaseOK ==
    \A x \in Actors : \A j \in Jobs \ AsyncJobs :
        Deferred(x, j) => PhaseOf[j] = managerState

\* The instance is on no way to a queue, or will be intercepted.
Stopped(k) ==
    /\ k \in kicked /\ MayBeDetached(k)
    /\ k \notin channel
    /\ \A x \in Actors : ~InCall(x, k) /\ ~Deferred(x, k) /\ ~BeingPushed(x, k)
    /\ \A f \in Fibers : running[f] = k =>
           \/ pc[f] = "finish"
           \/ pc[f] # "requeue_push" /\ IdOf[k] \in blacklist

\* DetachJob cleans one queue after another, and no target comes back.
TargetsOK ==
    /\ \A x \in Actors : \A k \in target[x] :
           /\ pc[x] \in DetachLabels /\ IdOf[k] = arg[x]
           /\ Stopped(k)
           /\ pc[x] # "detach_next" => k \notin nextQueue
           /\ pc[x] \in {"detach_MAIN", "detach_CLEAN_UP"} =>
                  k \notin queue["INIT"]
           /\ pc[x] = "detach_CLEAN_UP" => k \notin queue["MAIN"]
    /\ \A k \in banned : Stopped(k)

DetachInv ==
    /\ BarrierInv
    /\ PlacesInv
    /\ CallsOK
    /\ KickedOnceOK
    /\ LoopPhaseOK
    /\ TargetsOK
    /\ DetachIsEffective

\* A new instance of an id is kicked when DetachJob has returned for the old
\* ones, as Core::EnableRenderingJob does: what [][ReplacesDetached]_vars says
\* of an execution.
ReplacesDetached ==
    \A x \in Actors, k \in Jobs : CallKick(x, k) =>
        \A j \in kicked : IdOf[j] = IdOf[k] => j \in banned

\* The instance was detached and does not run any more.
Gone(k) == k \in banned /\ \A f \in Fibers : running[f] # k

\* Of two instances of an id, one is gone.
ReplacedOK ==
    \A j, k \in kicked : j # k /\ IdOf[j] = IdOf[k] => Gone(j) \/ Gone(k)

-----------------------------------------------------------------------------
(* The abstract barrier *)

Barrier == INSTANCE CycleBarrier WITH
               SyncJobs <- Jobs \ AsyncJobs,
               active <- {j \in Jobs \ AsyncJobs : Active(j)}

\* JobManager.h, InvokeCycleAndWait, and JobExecutionPhase.h: a phase is a
\* barrier for the synchronous jobs.
ImplementsBarrier == Barrier!Spec

=============================================================================
