----------------------------- MODULE JobManager -----------------------------
(***************************************************************************)
(* The job system: JobManager with its three phase queues, the next-cycle  *)
(* queue and the requeue blacklist, the fiber execution that runs the jobs,*)
(* and the threads and jobs that call it.                                  *)
(*                                                                         *)
(* An actor is the thread that invokes the cycles (Main), a thread outside *)
(* the execution that calls the manager (Clients: network threads, for     *)
(* example), or a fiber that runs a job.  One step of an actor is a        *)
(* critical section of the code, or the part of one between two lock       *)
(* operations when locks nest.  Script gives the calls that the workload of  *)
(* a job, a client, or Main between two cycles makes, in order; how far it  *)
(* gets, and when, is not determined.                                       *)
(*                                                                         *)
(* The std::queues and the channel are modelled as sets of job instances:  *)
(* every order of removal is explored, FIFO included, and the order is     *)
(* nothing the properties distinguish.  Each instance is kicked by user    *)
(* code once and comes back only by requeueing itself.                     *)
(***************************************************************************)
EXTENDS Integers, Sequences, FiniteSets

CONSTANTS
    Jobs,             \* job instances
    Ids,              \* job ids; several instances may carry the same one
    IdOf,             \* Job::m_id
    PhaseOf,          \* Job::m_phase
    AsyncJobs,        \* the instances with m_async
    TimerJobs,        \* the instances of class TimerJob
    Clients,          \* threads that call the manager from outside
    Fibers,           \* bound: how many jobs can be in execution at once
    Main,             \* the thread that calls InvokeCycleAndWait
    Script,           \* caller -> its calls of KickJob and DetachJob
    MaxCycles,        \* bound: number of cycles Main invokes
    ChannelCapacity,  \* capacity of the channel to the fibers
    None

Phases == {"INIT", "MAIN", "CLEAN_UP"}
Actors == {Main} \cup Clients \cup Fibers
Callers == {Main} \cup Clients \cup Jobs
Calls == ({"kick"} \X Jobs) \cup ({"detach"} \X Ids)

ASSUME ConstantsAssumption ==
    /\ \A j \in Jobs : IdOf[j] \in Ids /\ PhaseOf[j] \in Phases
    /\ AsyncJobs \subseteq Jobs
    /\ TimerJobs \subseteq Jobs
    /\ \A x \in Callers : Script[x] \in Seq(Calls)
    /\ MaxCycles \in Nat
    /\ ChannelCapacity \in Nat \ {0}
    /\ IsFiniteSet(Jobs)

ASSUME ActorsAssumption ==
    /\ Main \notin Clients \cup Fibers \cup Jobs
    /\ Clients \cap (Fibers \cup Jobs) = {}
    /\ None \notin Jobs \cup Ids \cup Actors

VARIABLES
    managerState,  \* m_current_state: READY or the phase of the cycle
    cycle,         \* m_total_cycle_count
    queue,         \* m_init_queue, m_main_queue, m_clean_up_queue
    nextQueue,     \* m_next_cycle_queue
    blacklist,     \* m_continuation_requeue_blacklist
    counter,       \* m_count of the counter made for a cycle and a phase
    jobCounters,   \* Job::m_counters
    jobState,      \* Job::m_current_state
    timer,         \* TimerJob: not started, started, or its time has passed
    channel,       \* m_job_channel
    stateLock,     \* owner of m_current_state_mutex
    queueLock,     \* owner of each phase queue's mutex
    nextLock,      \* owner of m_next_cycle_queue_mutex
    pc,            \* where each actor is in the code
    arg,           \* the argument of the KickJob or DetachJob call it is in
    cur,           \* the local variable job of ScheduleAllJobsInQueue
    running,       \* the job a fiber runs
    step,          \* how many of its calls a caller has made
    \* history, for the properties only
    kicked,        \* instances for which user code has called KickJob
    owned,         \* instances whose KickJob call has returned
    disposed,      \* instances whose workload ended without requeueing
    target,        \* the instances a DetachJob call in progress must stop
    banned         \* the instances that a DetachJob that returned must stop

managerVars == <<managerState, cycle, counter>>
queues == <<queue, nextQueue, blacklist>>
jobVars == <<jobCounters, jobState, timer>>
locks == <<stateLock, queueLock, nextLock>>
locals == <<arg, cur, running, step>>
history == <<kicked, owned, disposed, target, banned>>
vars == <<managerVars, queues, jobVars, channel, locks, pc, locals, history>>

(***************************************************************************)
(* The program counters.  "idle" is outside the manager for Main and a     *)
(* client, and a fiber without a job.  "work" is inside a workload.        *)
(***************************************************************************)
KickLabels == {"kick_unban", "kick_push", "kick_check", "kick_mark"}
ScheduleLabels == {"sched_lock", "sched_next", "sched_push", "sched_mark",
                   "defer_check", "defer_push"}
DetachLabels == {"detach_next", "detach_INIT", "detach_MAIN",
                 "detach_CLEAN_UP"}
MainLabels == {"drain_lock", "drain", "begin", "enter", "peek", "wait",
               "reset"}
FiberLabels == {"work", "requeue_check", "requeue_push", "finish"}
CallLabels == KickLabels \cup ScheduleLabels \cup DetachLabels

CounterIds == (1 .. MaxCycles) \X Phases
PhaseCounter(phase) == <<cycle, phase>>

Goto(a, label) == pc' = [pc EXCEPT ![a] = label]
Held(lock) == lock # None
HasId(id) == {j \in Jobs : IdOf[j] = id}

\* Who is calling: a fiber acts for the job whose workload it runs.
Caller(a) == IF a \in Fibers THEN running[a] ELSE a

\* Where a caller of the manager continues after its call: user code, or
\* the loop in which InvokeCycleAndWait re-kicks the waiting jobs.
CallReturn(a) ==
    IF a \in Fibers THEN "work"
    ELSE IF nextLock = a THEN "drain" ELSE "idle"

Init ==
    /\ managerState = "READY"
    /\ cycle = 0
    /\ queue = [p \in Phases |-> {}]
    /\ nextQueue = {}
    /\ blacklist = {}
    /\ counter = [c \in CounterIds |-> 0]
    /\ jobCounters = [j \in Jobs |-> {}]
    /\ jobState = [j \in Jobs |-> "DETACHED"]
    /\ timer = [j \in TimerJobs |-> "off"]
    /\ channel = {}
    /\ stateLock = None
    /\ queueLock = [p \in Phases |-> None]
    /\ nextLock = None
    /\ pc = [a \in Actors |-> "idle"]
    /\ arg = [a \in Actors |-> None]
    /\ cur = [a \in Actors |-> None]
    /\ running = [f \in Fibers |-> None]
    /\ step = [x \in Callers |-> 0]
    /\ kicked = {}
    /\ owned = {}
    /\ disposed = {}
    /\ target = [a \in Actors |-> {}]
    /\ banned = {}

-----------------------------------------------------------------------------
(* KickJob *)

\* User code: a client or Main outside the manager, or a running workload.
InUserCode(a) == pc[a] = IF a \in Fibers THEN "work" ELSE "idle"

MakesCall(a, call, x) ==
    LET n == step[Caller(a)] IN
    /\ InUserCode(a)
    /\ n < Len(Script[Caller(a)])
    /\ Script[Caller(a)][n + 1] = <<call, x>>
    /\ step' = [step EXCEPT ![Caller(a)] = n + 1]

CallKick(a, j) ==
    /\ MakesCall(a, "kick", j)
    /\ j \notin kicked
    /\ kicked' = kicked \cup {j}
    /\ arg' = [arg EXCEPT ![a] = j]
    /\ Goto(a, "kick_unban")
    /\ UNCHANGED <<managerVars, queues, jobVars, channel, locks, cur, running,
                   owned, disposed, target, banned>>

\* A job that is kicked is taken off the blacklist, whoever put its id there.
KickUnban(a) ==
    /\ pc[a] = "kick_unban"
    /\ blacklist' = blacklist \ {IdOf[arg[a]]}
    /\ Goto(a, "kick_push")
    /\ UNCHANGED <<managerVars, queue, nextQueue, jobVars, channel, locks,
                   locals, history>>

KickPush(a) ==
    LET p == PhaseOf[arg[a]] IN
    /\ pc[a] = "kick_push"
    /\ ~Held(queueLock[p])
    /\ queue' = [queue EXCEPT ![p] = @ \cup {arg[a]}]
    /\ Goto(a, "kick_check")
    /\ UNCHANGED <<managerVars, nextQueue, blacklist, jobVars, channel, locks,
                   locals, history>>

\* Mutant: a job kicked in its own phase waits for the next cycle.
KickCheckNever(a) ==
    /\ pc[a] = "kick_check"
    /\ ~Held(stateLock)
    /\ Goto(a, "kick_mark")
    /\ UNCHANGED <<managerVars, queues, jobVars, channel, locks, locals,
                   history>>

\* In the phase of the job the whole queue is scheduled at once, under the
\* state mutex; otherwise the job waits in its queue.
KickCheck(a) ==
    /\ pc[a] = "kick_check"
    /\ ~Held(stateLock)
    /\ IF managerState = PhaseOf[arg[a]]
       THEN stateLock' = a /\ Goto(a, "sched_lock")
       ELSE UNCHANGED stateLock /\ Goto(a, "kick_mark")
    /\ UNCHANGED <<managerVars, queues, jobVars, channel, queueLock, nextLock,
                   locals, history>>

\* The state of the job is written last, whatever has happened to it since.
KickMark(a) ==
    /\ pc[a] = "kick_mark"
    /\ jobState' = [jobState EXCEPT ![arg[a]] = "QUEUED"]
    /\ owned' = owned \cup {arg[a]}
    /\ arg' = [arg EXCEPT ![a] = None]
    /\ Goto(a, CallReturn(a))
    /\ UNCHANGED <<managerVars, queues, jobCounters, timer, channel, locks,
                   cur, running, step, kicked, disposed, target, banned>>

-----------------------------------------------------------------------------
(* ScheduleAllJobsInQueue, called by KickJob or by ExecuteQueueAndWait *)

SchedulePhase(a) == IF a = Main THEN managerState ELSE PhaseOf[arg[a]]

ScheduleLock(a) ==
    /\ pc[a] = "sched_lock"
    /\ ~Held(queueLock[SchedulePhase(a)])
    /\ queueLock' = [queueLock EXCEPT ![SchedulePhase(a)] = a]
    /\ Goto(a, "sched_next")
    /\ UNCHANGED <<managerVars, queues, jobVars, channel, stateLock, nextLock,
                   locals, history>>

\* TimerJob::IsReadyForExecution starts a timer that is not running; a plain
\* job is always ready.
IsReadyForExecution(j) == j \in TimerJobs => timer[j] = "elapsed"
TimerAfterCheck(j) ==
    IF j \in TimerJobs
    THEN [timer EXCEPT ![j] = IF @ = "elapsed" THEN "off" ELSE "running"]
    ELSE timer

\* Mutant: the counter is not increased.
AddCounterUncounted(j, c) ==
    /\ jobCounters' = [jobCounters EXCEPT ![j] = @ \cup {c}]
    /\ UNCHANGED counter

\* Job::AddCounter: the counter counts the job, the job knows the counter.
AddCounter(j, c) ==
    /\ counter' = [counter EXCEPT ![c] = @ + 1]
    /\ jobCounters' = [jobCounters EXCEPT ![j] = @ \cup {c}]

ScheduleNext(a, j) ==
    LET p == SchedulePhase(a) IN
    /\ pc[a] = "sched_next"
    /\ j \in queue[p]
    /\ queue' = [queue EXCEPT ![p] = @ \ {j}]
    /\ cur' = [cur EXCEPT ![a] = j]
    /\ timer' = TimerAfterCheck(j)
    /\ IF ~IsReadyForExecution(j)
       THEN Goto(a, "defer_check") /\ UNCHANGED <<counter, jobCounters>>
       ELSE /\ Goto(a, "sched_push")
            /\ IF j \in AsyncJobs
               THEN UNCHANGED <<counter, jobCounters>>
               ELSE AddCounter(j, PhaseCounter(p))
    /\ UNCHANGED <<managerState, cycle, nextQueue, blacklist, jobState,
                   channel, locks, arg, running, step, history>>

\* Mutant: the wrong variable is pushed.
SchedulePushArg(a) ==
    /\ pc[a] = "sched_push"
    /\ Cardinality(channel) < ChannelCapacity
    /\ channel' = channel \cup {arg[a]}
    /\ Goto(a, "sched_mark")
    /\ UNCHANGED <<managerVars, queues, jobVars, locks, locals, history>>

\* BoostFiberExecution::Schedule: the push waits while the channel is full.
SchedulePush(a) ==
    /\ pc[a] = "sched_push"
    /\ Cardinality(channel) < ChannelCapacity
    /\ channel' = channel \cup {cur[a]}
    /\ Goto(a, "sched_mark")
    /\ UNCHANGED <<managerVars, queues, jobVars, locks, locals, history>>

\* The job may already run, or be done, when its state is set.
ScheduleMark(a) ==
    /\ pc[a] = "sched_mark"
    /\ jobState' = [jobState EXCEPT ![cur[a]] = "AWAITING_EXECUTION"]
    /\ cur' = [cur EXCEPT ![a] = None]
    /\ Goto(a, "sched_next")
    /\ UNCHANGED <<managerVars, queues, jobCounters, timer, channel, locks,
                   arg, running, step, history>>

\* The loop ends; KickJob also leaves the block that holds the state mutex.
ScheduleDone(a) ==
    LET p == SchedulePhase(a) IN
    /\ pc[a] = "sched_next"
    /\ queue[p] = {}
    /\ queueLock' = [queueLock EXCEPT ![p] = None]
    /\ stateLock' = IF a = Main THEN stateLock ELSE None
    /\ Goto(a, IF a = Main THEN "wait" ELSE "kick_mark")
    /\ UNCHANGED <<managerVars, queues, jobVars, channel, nextLock, locals,
                   history>>

-----------------------------------------------------------------------------
(* KickJobForNextCycle, called for a job that is not ready (defer) and by  *)
(* the runner of a job that wants to be requeued (requeue).  The blacklist *)
(* is looked at and unlocked before the next-cycle queue is locked.        *)

\* Mutant: the condition is inverted.
CheckBlacklistInverted(a, j, push, return) ==
    /\ Goto(a, IF IdOf[j] \in blacklist THEN push ELSE return)
    /\ UNCHANGED <<managerVars, queues, jobVars, channel, locks, arg, running,
                   step, history>>

\* Mutant: the blacklist is not consulted.
CheckBlacklistNever(a, j, push, return) ==
    /\ Goto(a, push)
    /\ UNCHANGED <<managerVars, queues, jobVars, channel, locks, arg, running,
                   step, history>>

CheckBlacklist(a, j, push, return) ==
    /\ Goto(a, IF IdOf[j] \in blacklist THEN return ELSE push)
    /\ UNCHANGED <<managerVars, queues, jobVars, channel, locks, arg, running,
                   step, history>>

PushNextCycle(a, j, return) ==
    /\ ~Held(nextLock)
    /\ nextQueue' = nextQueue \cup {j}
    /\ jobState' = [jobState EXCEPT ![j] = "RESERVED_FOR_NEXT_CYCLE"]
    /\ Goto(a, return)
    /\ UNCHANGED <<managerVars, queue, blacklist, jobCounters, timer, channel,
                   locks, arg, running, step, history>>

DeferCheck(a) ==
    /\ pc[a] = "defer_check"
    /\ CheckBlacklist(a, cur[a], "defer_push", "sched_next")
    /\ cur' = IF IdOf[cur[a]] \in blacklist
              THEN [cur EXCEPT ![a] = None] ELSE cur

DeferPush(a) ==
    /\ pc[a] = "defer_push"
    /\ PushNextCycle(a, cur[a], "sched_next")
    /\ cur' = [cur EXCEPT ![a] = None]

RequeueCheck(f) ==
    /\ pc[f] = "requeue_check"
    /\ CheckBlacklist(f, running[f], "requeue_push", "finish")
    /\ UNCHANGED cur

RequeuePush(f) ==
    /\ pc[f] = "requeue_push"
    /\ PushNextCycle(f, running[f], "finish")
    /\ UNCHANGED cur

-----------------------------------------------------------------------------
(* DetachJob: blacklist the id, then clean the four queues one by one *)

CallDetach(a, id) ==
    /\ MakesCall(a, "detach", id)
    /\ blacklist' = blacklist \cup {id}
    /\ target' = [target EXCEPT ![a] = owned \cap HasId(id)]
    /\ arg' = [arg EXCEPT ![a] = id]
    /\ Goto(a, "detach_next")
    /\ UNCHANGED <<managerVars, queue, nextQueue, jobVars, channel, locks,
                   cur, running, kicked, owned, disposed, banned>>

SetDetached(removed) ==
    jobState' = [j \in Jobs |-> IF j \in removed THEN "DETACHED"
                                ELSE jobState[j]]

DetachNext(a) ==
    /\ pc[a] = "detach_next"
    /\ ~Held(nextLock)
    /\ nextQueue' = nextQueue \ HasId(arg[a])
    /\ SetDetached(nextQueue \cap HasId(arg[a]))
    /\ Goto(a, "detach_INIT")
    /\ UNCHANGED <<managerVars, queue, blacklist, jobCounters, timer, channel,
                   locks, locals, history>>

DetachFrom(a, p, next) ==
    /\ ~Held(queueLock[p])
    /\ queue' = [queue EXCEPT ![p] = @ \ HasId(arg[a])]
    /\ SetDetached(queue[p] \cap HasId(arg[a]))
    /\ Goto(a, next)
    /\ UNCHANGED <<managerVars, nextQueue, blacklist, jobCounters, timer,
                   channel, locks, cur, running, step, kicked, owned,
                   disposed>>

DetachInit(a) ==
    /\ pc[a] = "detach_INIT"
    /\ DetachFrom(a, "INIT", "detach_MAIN")
    /\ UNCHANGED <<arg, target, banned>>

\* Mutant: the wrong queue is cleaned.
DetachMainFromInit(a) ==
    /\ pc[a] = "detach_MAIN"
    /\ DetachFrom(a, "INIT", "detach_CLEAN_UP")
    /\ UNCHANGED <<arg, target, banned>>

DetachMain(a) ==
    /\ pc[a] = "detach_MAIN"
    /\ DetachFrom(a, "MAIN", "detach_CLEAN_UP")
    /\ UNCHANGED <<arg, target, banned>>

DetachCleanUp(a) ==
    /\ pc[a] = "detach_CLEAN_UP"
    /\ DetachFrom(a, "CLEAN_UP", CallReturn(a))
    /\ arg' = [arg EXCEPT ![a] = None]
    /\ banned' = banned \cup target[a]
    /\ target' = [target EXCEPT ![a] = {}]

-----------------------------------------------------------------------------
(* InvokeCycleAndWait, called by Main *)

ResetContinuationRequeueBlacklist ==
    /\ blacklist' = {}
    /\ UNCHANGED <<managerVars, queue, nextQueue, jobVars, channel, locks,
                   locals, history>>

InvokeCycle ==
    /\ pc[Main] = "idle"
    /\ cycle < MaxCycles
    /\ ResetContinuationRequeueBlacklist
    /\ Goto(Main, "drain_lock")

DrainLock ==
    /\ pc[Main] = "drain_lock"
    /\ ~Held(nextLock)
    /\ nextLock' = Main
    /\ Goto(Main, "drain")
    /\ UNCHANGED <<managerVars, queues, jobVars, channel, stateLock,
                   queueLock, locals, history>>

\* Mutant: the job is not popped.
DrainNextNoPop(j) ==
    /\ pc[Main] = "drain"
    /\ j \in nextQueue
    /\ arg' = [arg EXCEPT ![Main] = j]
    /\ Goto(Main, "kick_unban")
    /\ UNCHANGED <<managerVars, queues, jobVars, channel, locks, cur, running,
                   step, history>>

\* The jobs that waited for this cycle are kicked like new ones, with the
\* mutex of the next-cycle queue held.
DrainNext(j) ==
    /\ pc[Main] = "drain"
    /\ j \in nextQueue
    /\ nextQueue' = nextQueue \ {j}
    /\ arg' = [arg EXCEPT ![Main] = j]
    /\ Goto(Main, "kick_unban")
    /\ UNCHANGED <<managerVars, queue, blacklist, jobVars, channel, locks,
                   cur, running, step, history>>

DrainDone ==
    /\ pc[Main] = "drain"
    /\ nextQueue = {}
    /\ nextLock' = None
    /\ Goto(Main, "begin")
    /\ UNCHANGED <<managerVars, queues, jobVars, channel, stateLock,
                   queueLock, locals, history>>

\* Every cycle makes three new counters, all zero.
BeginCycle ==
    /\ pc[Main] = "begin"
    /\ cycle' = cycle + 1
    /\ counter' = [c \in CounterIds |-> IF c[1] = cycle + 1 THEN 0
                                        ELSE counter[c]]
    /\ Goto(Main, "enter")
    /\ UNCHANGED <<managerState, queues, jobVars, channel, locks, locals,
                   history>>

NextState ==
    [s \in {"READY"} \cup Phases |->
        CASE s = "READY" -> "INIT" [] s = "INIT" -> "MAIN"
          [] s = "MAIN" -> "CLEAN_UP" [] s = "CLEAN_UP" -> "READY"]

\* Mutant: the state changes without its mutex.
EnterPhaseUnlocked ==
    /\ pc[Main] = "enter"
    /\ managerState' = NextState[managerState]
    /\ Goto(Main, IF managerState = "CLEAN_UP" THEN "reset" ELSE "peek")
    /\ UNCHANGED <<cycle, counter, queues, jobVars, channel, locks, locals,
                   history>>

EnterPhase ==
    /\ pc[Main] = "enter"
    /\ ~Held(stateLock)
    /\ managerState' = NextState[managerState]
    /\ Goto(Main, IF managerState = "CLEAN_UP" THEN "reset" ELSE "peek")
    /\ UNCHANGED <<cycle, counter, queues, jobVars, channel, locks, locals,
                   history>>

\* Mutant: the condition is inverted.
PeekQueueInverted ==
    /\ pc[Main] = "peek"
    /\ ~Held(queueLock[managerState])
    /\ Goto(Main, IF queue[managerState] = {} THEN "sched_lock" ELSE "enter")
    /\ UNCHANGED <<managerVars, queues, jobVars, channel, locks, locals,
                   history>>

\* ExecuteQueueAndWait does not wait for the phase when its queue is empty.
PeekQueue ==
    /\ pc[Main] = "peek"
    /\ ~Held(queueLock[managerState])
    /\ Goto(Main, IF queue[managerState] = {} THEN "enter" ELSE "sched_lock")
    /\ UNCHANGED <<managerVars, queues, jobVars, channel, locks, locals,
                   history>>

\* Mutant: nobody waits for the counter.
WaitForNothing ==
    /\ pc[Main] = "wait"
    /\ Goto(Main, "enter")
    /\ UNCHANGED <<managerVars, queues, jobVars, channel, locks, locals,
                   history>>

WaitForCompletion ==
    /\ pc[Main] = "wait"
    /\ counter[PhaseCounter(managerState)] = 0
    /\ Goto(Main, "enter")
    /\ UNCHANGED <<managerVars, queues, jobVars, channel, locks, locals,
                   history>>

EndCycle ==
    /\ pc[Main] = "reset"
    /\ ResetContinuationRequeueBlacklist
    /\ Goto(Main, "idle")

-----------------------------------------------------------------------------
(* The runner that a fiber executes for a job taken from the channel *)

RunJob(f, j) ==
    /\ pc[f] = "idle"
    /\ j \in channel
    /\ channel' = channel \ {j}
    /\ running' = [running EXCEPT ![f] = j]
    /\ jobState' = [jobState EXCEPT ![j] = "IN_EXECUTION"]
    /\ Goto(f, "work")
    /\ UNCHANGED <<managerVars, queues, jobCounters, timer, locks, arg, cur,
                   step, history>>

\* The workload returns DISPOSE, or throws.
EndDispose(f) ==
    /\ pc[f] = "work"
    /\ \E s \in {"EXECUTION_FINISHED", "FAILED"} :
           jobState' = [jobState EXCEPT ![running[f]] = s]
    /\ disposed' = disposed \cup {running[f]}
    /\ Goto(f, "finish")
    /\ UNCHANGED <<managerVars, queues, jobCounters, timer, channel, locks,
                   locals, kicked, owned, target, banned>>

EndRequeue(f) ==
    /\ pc[f] = "work"
    /\ jobState' = [jobState EXCEPT ![running[f]] = "EXECUTION_FINISHED"]
    /\ Goto(f, "requeue_check")
    /\ UNCHANGED <<managerVars, queues, jobCounters, timer, channel, locks,
                   locals, history>>

\* Mutant: the job keeps the counters it has decreased.
FinishJobKeepsCounters(f) ==
    LET j == running[f] IN
    /\ pc[f] = "finish"
    /\ counter' = [c \in CounterIds |-> IF c \in jobCounters[j]
                                        THEN counter[c] - 1 ELSE counter[c]]
    /\ running' = [running EXCEPT ![f] = None]
    /\ Goto(f, "idle")
    /\ UNCHANGED <<managerState, cycle, queues, jobVars, channel, locks, arg,
                   cur, step, history>>

\* Job::FinishJob: every counter the job knows now is decreased, and the
\* fiber ends.
FinishJob(f) ==
    LET j == running[f] IN
    /\ pc[f] = "finish"
    /\ counter' = [c \in CounterIds |-> IF c \in jobCounters[j]
                                        THEN counter[c] - 1 ELSE counter[c]]
    /\ jobCounters' = [jobCounters EXCEPT ![j] = {}]
    /\ running' = [running EXCEPT ![f] = None]
    /\ Goto(f, "idle")
    /\ UNCHANGED <<managerState, cycle, queues, jobState, timer, channel,
                   locks, arg, cur, step, history>>

-----------------------------------------------------------------------------

\* The time of a started timer passes.
TimerElapses(j) ==
    /\ timer[j] = "running"
    /\ timer' = [timer EXCEPT ![j] = "elapsed"]
    /\ UNCHANGED <<managerVars, queues, jobCounters, jobState, channel, locks,
                   pc, locals, history>>

ManagerCall(a) ==
    \/ KickUnban(a) \/ KickPush(a) \/ KickCheck(a) \/ KickMark(a)
    \/ ScheduleLock(a) \/ SchedulePush(a) \/ ScheduleMark(a)
    \/ ScheduleDone(a) \/ DeferCheck(a) \/ DeferPush(a)
    \/ \E j \in Jobs : ScheduleNext(a, j)
    \/ DetachNext(a) \/ DetachInit(a) \/ DetachMain(a) \/ DetachCleanUp(a)

UserCall(a) ==
    \/ \E j \in Jobs : CallKick(a, j)
    \/ \E id \in Ids : CallDetach(a, id)

MainStep ==
    \/ InvokeCycle \/ DrainLock \/ DrainDone \/ BeginCycle \/ EnterPhase
    \/ PeekQueue \/ WaitForCompletion \/ EndCycle
    \/ \E j \in Jobs : DrainNext(j)

FiberStep(f) ==
    \/ RequeueCheck(f) \/ RequeuePush(f) \/ FinishJob(f)
    \/ EndDispose(f) \/ EndRequeue(f)
    \/ \E j \in Jobs : RunJob(f, j)

\* The bounded behaviour is over: no cycle is left, nobody is in the manager.
Terminated ==
    /\ \A a \in Actors : pc[a] = "idle"
    /\ cycle = MaxCycles
    /\ channel = {}
    /\ UNCHANGED vars

Next ==
    \/ \E a \in Actors : ManagerCall(a) \/ UserCall(a)
    \/ MainStep
    \/ \E f \in Fibers : FiberStep(f)
    \/ \E j \in TimerJobs : TimerElapses(j)
    \/ Terminated

Spec == Init /\ [][Next]_vars

\* Threads and fibers are scheduled: an actor inside the manager or inside a
\* workload that can move does move, and Main goes on to invoke cycles.
\* Whether a client or a workload makes one more call is its own choice.
Fairness ==
    /\ \A a \in Actors : WF_vars(ManagerCall(a))
    /\ WF_vars(MainStep)
    /\ \A f \in Fibers : WF_vars(FiberStep(f))
    /\ \A j \in TimerJobs : WF_vars(TimerElapses(j))

FairSpec == Spec /\ Fairness

-----------------------------------------------------------------------------
(* Type invariant *)

Labels == {"idle"} \cup CallLabels \cup MainLabels \cup FiberLabels
LockOwner == Actors \cup {None}

TypeOK ==
    /\ managerState \in {"READY"} \cup Phases
    /\ cycle \in 0 .. MaxCycles
    /\ queue \in [Phases -> SUBSET Jobs]
    /\ nextQueue \subseteq Jobs
    /\ blacklist \subseteq Ids
    /\ counter \in [CounterIds -> Int]
    /\ jobCounters \in [Jobs -> SUBSET CounterIds]
    /\ jobState \in [Jobs -> {"DETACHED", "QUEUED", "RESERVED_FOR_NEXT_CYCLE",
                              "AWAITING_EXECUTION", "IN_EXECUTION",
                              "EXECUTION_FINISHED", "FAILED"}]
    /\ timer \in [TimerJobs -> {"off", "running", "elapsed"}]
    /\ channel \subseteq Jobs
    /\ stateLock \in LockOwner
    /\ queueLock \in [Phases -> LockOwner]
    /\ nextLock \in LockOwner
    /\ pc \in [Actors -> Labels]
    /\ arg \in [Actors -> Jobs \cup Ids \cup {None}]
    /\ cur \in [Actors -> Jobs \cup {None}]
    /\ running \in [Fibers -> Jobs \cup {None}]
    /\ step \in [Callers -> Nat]
    /\ kicked \subseteq Jobs
    /\ owned \subseteq Jobs
    /\ disposed \subseteq Jobs
    /\ target \in [Actors -> SUBSET Jobs]
    /\ banned \subseteq Jobs

-----------------------------------------------------------------------------
(* Properties *)

InWorkload(f) == pc[f] \notin {"idle", "requeue_check", "requeue_push",
                               "finish"}
Sync(j) == j \notin AsyncJobs

\* The instance has left every queue and its workload has not ended.
InExecution(j) ==
    \/ j \in channel
    \/ \E a \in Actors : pc[a] = "sched_push" /\ cur[a] = j
    \/ \E f \in Fibers : running[f] = j /\ InWorkload(f)

\* Some queue, or some actor on behalf of a queue, still has the instance.
Pending(j) ==
    \/ j \in nextQueue
    \/ \E p \in Phases : j \in queue[p]
    \/ \E a \in Actors : pc[a] \in {"kick_unban", "kick_push"} /\ arg[a] = j
    \/ \E a \in Actors : pc[a] \in {"defer_check", "defer_push"} /\ cur[a] = j
    \/ \E f \in Fibers : /\ running[f] = j
                         /\ pc[f] \in {"requeue_check", "requeue_push"}

\* JobExecutionPhase.h: phases exist so that jobs of different phases do not
\* overlap.  A synchronous job runs only while the manager is in its phase,
\* from the start of its workload until its counters are decreased.
PhaseIsolation ==
    \A f \in Fibers : running[f] \in Jobs \ AsyncJobs =>
                          managerState = PhaseOf[running[f]]

\* JobManager.h, InvokeCycleAndWait: the caller is blocked until all
\* synchronous jobs are done.  When Main is outside of the call, no
\* synchronous job is in execution.
BlockedUntilSyncJobsDone ==
    pc[Main] = "idle" => \A j \in Jobs : Sync(j) => ~InExecution(j)

\* The assertions in KickJob: the manager is still in the phase of the job
\* for as long as KickJob schedules the queue of that phase.
StateIsSynchronized ==
    \A a \in Clients \cup Fibers :
        pc[a] \in ScheduleLabels => managerState = PhaseOf[arg[a]]

\* A counter is the number of jobs that still have to decrease it, so it is
\* never decreased below zero (JobCounter::Decrease asserts that) and a wait
\* for it ends exactly with the last of them.
CountersAreExact ==
    \A c \in CounterIds :
        counter[c] = Cardinality({j \in Jobs : c \in jobCounters[j]})

WasDetached(id) ==
    \E x \in Callers : \E n \in 1 .. step[x] : Script[x][n] = <<"detach", id>>

\* No instance is lost between two queues, the channel and the fibers: until
\* its workload disposes of it, a kicked job is pending or in execution, and
\* the blacklist is the only thing that may intercept it.
NoJobLost ==
    \A j \in owned \ disposed :
        WasDetached(IdOf[j]) \/ Pending(j) \/ InExecution(j)

\* The places where an instance is: queues, calls of KickJob, scheduling
\* loops, the channel, and the fibers.
QueuesOf(j) == {p \in Phases : j \in queue[p]}
CallsOf(j) ==
    {a \in Actors : arg[a] = j /\ pc[a] \in {"kick_unban", "kick_push"}}
LoopsOf(j) == {a \in Actors : cur[a] = j /\ pc[a] # "sched_mark"}
FibersOf(j) == {f \in Fibers : running[f] = j /\ pc[f] # "finish"}

Places(j) ==
    {<<"queue", p>> : p \in QueuesOf(j)}
    \cup (IF j \in nextQueue THEN {<<"next", None>>} ELSE {})
    \cup (IF j \in channel THEN {<<"channel", None>>} ELSE {})
    \cup {<<"call", a>> : a \in CallsOf(j)}
    \cup {<<"loop", a>> : a \in LoopsOf(j)}
    \cup {<<"fiber", f>> : f \in FibersOf(j)}

\* An instance is never in two places: not pending twice, and not executed
\* by a fiber while it is pending or executed elsewhere.
OnePlace == \A j \in Jobs : Cardinality(Places(j)) <= 1

\* Four queues, a channel and the fibers, each behind its own mutex, keep the
\* jobs between them: none is lost on the way and none is in two of them.
NeitherLostNorDoubled == NoJobLost /\ OnePlace

\* A phase ends with its queue empty: what a job of the phase kicked for the
\* same phase ran before the phase ended (test jobs_kicking_jobs).
PhaseLeavesNothingBehind ==
    [][managerState' # managerState /\ managerState # "READY" =>
           queue[managerState] = {}]_managerState

\* JobManager.h, DetachJob: a job that is detached is not executed again, it
\* is removed from its queue or intercepted before it can requeue.  Once
\* DetachJob has returned, no instance it was about is in a queue.
DetachIsEffective ==
    \A j \in banned : j \notin nextQueue /\ \A p \in Phases : j \notin queue[p]

\* Core::EnableRenderingJob replaces a job: it detaches the id and kicks a
\* new instance with it.  At most one instance of an id is alive afterwards.
OneInstancePerId ==
    \A j, k \in owned :
        j # k /\ IdOf[j] = IdOf[k] =>
            ~(Pending(j) \/ InExecution(j)) \/ ~(Pending(k) \/ InExecution(k))

\* JobState.h: QUEUED is a job that has not been executed yet, and
\* AWAITING_EXECUTION one that will be.  A job that is done says so.
DoneJobsSayDone ==
    \A j \in disposed : jobState[j] \in {"EXECUTION_FINISHED", "FAILED"}

\* InvokeCycleAndWait returns: no job, kick or detach can make it hang.
CycleReturns == pc[Main] # "idle" ~> pc[Main] = "idle"

\* A job that waits in its queue when a cycle begins is executed (timer jobs
\* excepted: those are deferred until their time has passed).
QueuedJobRuns ==
    \A j \in Jobs \ TimerJobs :
        pc[Main] = "begin" /\ j \in queue[PhaseOf[j]]
            ~> \E f \in Fibers : running[f] = j

=============================================================================
