----------------------------- MODULE Execution -----------------------------
(***************************************************************************)
(* Starting, stopping, restarting and destroying the fiber execution of    *)
(* the job manager, while the thread that invokes the cycles passes jobs   *)
(* to it.  JobManager models the queues and phases in detail and takes a   *)
(* running execution for granted; here the cycle is only the batch of jobs *)
(* it schedules and waits for, and the worker threads, the channel and the *)
(* reference to the managing instance are modelled.                        *)
(*                                                                         *)
(* The fibers are Boost's.  Its algorithm shared_work keeps the fibers     *)
(* that are ready in one queue of the process; a worker that switches      *)
(* takes one of them and resumes its own main fiber only if there is none, *)
(* and the fiber that yielded is made ready after that choice.             *)
(***************************************************************************)
EXTENDS Naturals, Sequences, FiniteSets

CONSTANTS
    Jobs,             \* job instances
    Workers,          \* jobs.concurrency worker threads
    WaitsFor,         \* job -> the jobs its workload waits for
    AsyncJobs,        \* jobs that the cycle does not wait for
    Batches,          \* the jobs of each cycle
    ChannelCapacity,  \* capacity of the channel (1024)
    MaxStarts,        \* bound: calls of StartExecution
    Main              \* what a worker runs when it runs no job: its main fiber

ConstantsOK ==
    /\ Workers # {}
    /\ IsFiniteSet(Jobs)
    /\ WaitsFor \in [Jobs -> SUBSET Jobs]
    /\ AsyncJobs \subseteq Jobs
    /\ Batches \in Seq(SUBSET Jobs)
    /\ ChannelCapacity \in Nat \ {0}
    /\ MaxStarts \in Nat
    /\ Main \notin Jobs

VARIABLES
    state,    \* m_current_state
    managed,  \* m_managing_instance refers to the manager
    alive,    \* the owner of the manager has not begun to destroy it
    channel,  \* m_job_channel
    closed,   \* the channel has been closed
    wpc,      \* where the main fiber of a worker is
    on,       \* the fiber a worker thread runs
    ready,    \* fibers in the shared queue
    job,      \* what has become of a job
    bound,    \* accepted jobs whose runner holds a valid reference to the manager
    cpc,      \* the thread that starts, stops and destroys
    starts,   \* calls of Start that spawned workers
    cycle,    \* the cycle the other thread is in
    batch     \* jobs of the cycle not passed to Schedule yet, or "wait"

controlVars == <<state, managed, alive, cpc, starts>>
fiberVars == <<wpc, on, ready>>
vars == <<controlVars, fiberVars, channel, closed, job, bound, cycle, batch>>

Exited(w) == wpc[w] \in {"off", "exited"}
Begun == {j \in Jobs : job[j] = "running"}
\* A runner holds a Borrower of the manager while it runs or is suspended.
Borrows == Begun
Scheduling == batch # {}

Init ==
    /\ state = "STOPPED"
    /\ managed = FALSE
    /\ alive = TRUE
    /\ channel = {}
    /\ closed = FALSE
    /\ wpc = [w \in Workers |-> "off"]
    /\ on = [w \in Workers |-> Main]
    /\ ready = {}
    /\ job = [j \in Jobs |-> "new"]
    /\ bound = {}
    /\ cpc = "idle"
    /\ starts = 0
    /\ cycle = 0
    /\ batch = {}

-----------------------------------------------------------------------------
(* The thread that invokes cycles *)

BeginCycle ==
    /\ batch = {}
    /\ cycle < Len(Batches)
    /\ cpc \notin {"destroy", "destroyed"}
    /\ cycle' = cycle + 1
    /\ batch' = Batches[cycle']
    /\ UNCHANGED <<controlVars, fiberVars, channel, closed, job, bound>>

\* Schedule copies the reference into the runner and pushes it; a push into
\* a closed channel is logged, and the job is gone.
Schedule(j) ==
    /\ j \in batch
    /\ job[j] = "new"
    /\ closed \/ Cardinality(channel) < ChannelCapacity
    /\ IF closed
       THEN /\ job' = [job EXCEPT ![j] = "dropped"]
            /\ UNCHANGED <<channel, bound>>
       ELSE /\ job' = [job EXCEPT ![j] = "scheduled"]
            /\ channel' = channel \cup {j}
            /\ bound' = IF managed THEN bound \cup {j} ELSE bound
    /\ UNCHANGED <<controlVars, fiberVars, closed, cycle, batch>>

\* The counter of the cycle is only decremented by jobs that finish.
CycleDone ==
    /\ batch # {}
    /\ \A j \in batch : job[j] # "new" /\ (j \in AsyncJobs \/ job[j] = "done")
    /\ batch' = {}
    /\ UNCHANGED <<controlVars, fiberVars, channel, closed, job, bound, cycle>>

-----------------------------------------------------------------------------
(* The thread that controls the execution *)

StartSpawn ==
    /\ cpc = "idle" /\ state = "STOPPED"
    /\ starts < MaxStarts
    /\ starts' = starts + 1
    /\ wpc' = [w \in Workers |-> "spawned"]
    /\ on' = [w \in Workers |-> Main]
    /\ cpc' = "barrier"
    /\ UNCHANGED <<state, managed, alive, ready, channel, closed, job, bound,
                   cycle, batch>>

StartBarrier ==
    /\ cpc = "barrier"
    /\ \A w \in Workers : wpc[w] # "spawned"
    /\ state' = "RUNNING"
    /\ cpc' = "refer"
    /\ UNCHANGED <<managed, alive, starts, fiberVars, channel, closed, job,
                   bound, cycle, batch>>

StartReturn ==
    /\ cpc = "refer"
    /\ managed' = TRUE
    /\ cpc' = "idle"
    /\ UNCHANGED <<state, alive, starts, fiberVars, channel, closed, job, bound,
                   cycle, batch>>

StopClose ==
    /\ cpc = "idle" /\ state = "RUNNING"
    /\ closed' = TRUE
    /\ cpc' = "join"
    /\ UNCHANGED <<state, managed, alive, starts, fiberVars, channel, job, bound,
                   cycle, batch>>

\* Mutant: Stop does not join its workers.
StopUnjoined ==
    /\ cpc = "join"
    /\ wpc' = [w \in Workers |-> "off"]
    /\ state' = "STOPPED"
    /\ managed' = FALSE
    /\ cpc' = IF alive THEN "idle" ELSE "destroyed"
    /\ UNCHANGED <<alive, starts, on, ready, channel, closed, job, bound, cycle,
                   batch>>

StopJoined ==
    /\ cpc = "join"
    /\ \A w \in Workers : Exited(w)
    /\ wpc' = [w \in Workers |-> "off"]
    /\ state' = "STOPPED"
    /\ managed' = FALSE
    /\ cpc' = IF alive THEN "idle" ELSE "destroyed"
    /\ UNCHANGED <<alive, starts, on, ready, channel, closed, job, bound, cycle,
                   batch>>

\* ~Owner waits for the borrows before ~JobManager stops the execution.
Destroy ==
    /\ cpc = "idle" /\ batch = {}
    /\ cpc' = "destroy"
    /\ UNCHANGED <<state, managed, alive, starts, fiberVars, channel, closed,
                   job, bound, cycle, batch>>

DestroyStop ==
    /\ cpc = "destroy"
    /\ Borrows = {}
    /\ alive' = FALSE
    /\ closed' = (closed \/ state = "RUNNING")
    /\ cpc' = IF state = "RUNNING" THEN "join" ELSE "destroyed"
    /\ UNCHANGED <<state, managed, starts, fiberVars, channel, job, bound, cycle,
                   batch>>

-----------------------------------------------------------------------------
(* A worker thread *)

\* The worker leaves the fiber it runs; next is ready afterwards unless it
\* is the main fiber or has ended.
Switch(w, next) ==
    IF ready # {}
    THEN /\ \E f \in ready :
              /\ on' = [on EXCEPT ![w] = f]
              /\ ready' = (ready \ {f}) \cup next
         /\ UNCHANGED wpc
    ELSE /\ on' = [on EXCEPT ![w] = Main]
         /\ ready' = next
         /\ wpc' = [wpc EXCEPT ![w] = IF @ = "closing" THEN "exited" ELSE "poll"]

WorkerReady(w) ==
    /\ wpc[w] = "spawned"
    /\ wpc' = [wpc EXCEPT ![w] = "poll"]
    /\ UNCHANGED <<controlVars, on, ready, channel, closed, job, bound, cycle,
                   batch>>

\* Mutant: a worker leaves as soon as the channel is closed.
PollClosedFirst(w) ==
    /\ wpc[w] = "poll" /\ on[w] = Main
    /\ \/ \E j \in channel :
            /\ ~closed
            /\ channel' = channel \ {j}
            /\ ready' = ready \cup {j}
            /\ wpc' = [wpc EXCEPT ![w] = "yield"]
       \/ /\ closed \/ channel = {}
          /\ wpc' = [wpc EXCEPT ![w] = IF closed THEN "closing" ELSE "yield"]
          /\ UNCHANGED <<channel, ready>>
    /\ UNCHANGED <<controlVars, on, closed, job, bound, cycle, batch>>

\* Mutant: a worker does not look whether the channel is closed.
PollForever(w) ==
    /\ wpc[w] = "poll" /\ on[w] = Main
    /\ \/ \E j \in channel :
            /\ channel' = channel \ {j}
            /\ ready' = ready \cup {j}
       \/ channel = {} /\ UNCHANGED <<channel, ready>>
    /\ wpc' = [wpc EXCEPT ![w] = "yield"]
    /\ UNCHANGED <<controlVars, on, closed, job, bound, cycle, batch>>

\* try_pop says closed only when nothing is left.
Poll(w) ==
    /\ wpc[w] = "poll" /\ on[w] = Main
    /\ \/ \E j \in channel :
            /\ channel' = channel \ {j}
            /\ ready' = ready \cup {j}
            /\ wpc' = [wpc EXCEPT ![w] = "yield"]
       \/ /\ channel = {}
          /\ wpc' = [wpc EXCEPT ![w] = IF closed THEN "closing" ELSE "yield"]
          /\ UNCHANGED <<channel, ready>>
    /\ UNCHANGED <<controlVars, on, closed, job, bound, cycle, batch>>

YieldMain(w) ==
    /\ wpc[w] \in {"yield", "closing"} /\ on[w] = Main
    /\ Switch(w, {})
    /\ UNCHANGED <<controlVars, channel, closed, job, bound, cycle, batch>>

\* The runner borrows the manager, or gives up without finishing the job.
BeginJob(w) ==
    /\ on[w] # Main /\ job[on[w]] = "scheduled"
    /\ IF on[w] \in bound /\ alive
       THEN /\ job' = [job EXCEPT ![on[w]] = "running"]
            /\ UNCHANGED fiberVars
       ELSE /\ job' = [job EXCEPT ![on[w]] = "dropped"]
            /\ Switch(w, {})
    /\ UNCHANGED <<controlVars, channel, closed, bound, cycle, batch>>

WaitInJob(w) ==
    /\ on[w] \in Begun
    /\ \E d \in WaitsFor[on[w]] : job[d] # "done"
    /\ Switch(w, {on[w]})
    /\ UNCHANGED <<controlVars, channel, closed, job, bound, cycle, batch>>

FinishJob(w) ==
    /\ on[w] \in Begun
    /\ \A d \in WaitsFor[on[w]] : job[d] = "done"
    /\ job' = [job EXCEPT ![on[w]] = "done"]
    /\ Switch(w, {})
    /\ UNCHANGED <<controlVars, channel, closed, bound, cycle, batch>>

Control == StartSpawn \/ StartBarrier \/ StartReturn \/ StopClose \/ StopJoined
           \/ Destroy \/ DestroyStop
Cycle == BeginCycle \/ (\E j \in Jobs : Schedule(j)) \/ CycleDone
Worker(w) == WorkerReady(w) \/ Poll(w) \/ YieldMain(w) \/ BeginJob(w)
             \/ WaitInJob(w) \/ FinishJob(w)

Next == Control \/ Cycle \/ (\E w \in Workers : Worker(w))

\* Threads run; whether anybody starts, stops or destroys is up to the user.
Fairness ==
    /\ WF_vars(StartBarrier \/ StartReturn \/ StopJoined \/ DestroyStop)
    /\ WF_vars((\E j \in Jobs : Schedule(j)) \/ CycleDone)
    /\ \A w \in Workers : WF_vars(Worker(w))

Spec == Init /\ [][Next]_vars /\ Fairness

-----------------------------------------------------------------------------
(* Properties *)

WorkerLabels == {"off", "spawned", "poll", "yield", "closing", "exited"}
ControlLabels == {"idle", "barrier", "refer", "join", "destroy", "destroyed"}
JobStates == {"new", "scheduled", "running", "done", "dropped"}

\* Every variable has its type.
TypeOK ==
    /\ state \in {"STOPPED", "RUNNING"}
    /\ managed \in BOOLEAN /\ alive \in BOOLEAN /\ closed \in BOOLEAN
    /\ channel \in SUBSET Jobs /\ ready \in SUBSET Jobs /\ bound \in SUBSET Jobs
    /\ wpc \in [Workers -> WorkerLabels]
    /\ on \in [Workers -> Jobs \cup {Main}]
    /\ job \in [Jobs -> JobStates]
    /\ cpc \in ControlLabels
    /\ starts \in Nat /\ cycle \in Nat
    /\ batch \in SUBSET Jobs

Stopped == starts > 0 /\ state = "STOPPED" /\ cpc # "barrier"

\* When Stop has returned no worker thread is left, nothing is in the
\* channel, and the only fibers left behind are of jobs that had begun and
\* wait for something.
StoppedIsQuiet ==
    Stopped =>
        /\ \A w \in Workers : wpc[w] = "off" /\ on[w] = Main
        /\ channel = {}
        /\ ready \subseteq Begun

\* Stop runs what it was given: a job that was accepted by a running
\* execution is done when Stop has returned, unless the manager was being
\* destroyed or the job waits for one that was not accepted.
StopCompletes ==
    Stopped /\ alive =>
        \A j \in bound : job[j] = "done" \/ \E d \in WaitsFor[j] : job[d] # "done"

\* Stop and the destructor return as long as no job waits for something
\* that never ends: workers leave a closed channel even if jobs still wait.
StopReturns == cpc = "join" ~> cpc \in {"idle", "destroyed"}

\* JobManager.h: jobs that are passed to a stopped execution pile up, and
\* remain scheduled until it is resumed.
NothingIsDropped == \A j \in Jobs : alive => job[j] # "dropped"

\* The owner of the job manager can always be destroyed: no fiber that was
\* left behind by Stop keeps a borrow of it.
DestroyReturns == cpc = "destroy" ~> cpc = "destroyed"

\* A job that a running execution accepted is executed to its end, and so
\* are jobs that wait for it: stopping the execution does not lose them.
AcceptedJobEnds ==
    \A j \in Jobs :
        j \in bound /\ WaitsFor[j] \subseteq bound ~> job[j] = "done" \/ ~alive

-----------------------------------------------------------------------------
(* The inductive invariant *)

Spawned == \E w \in Workers : wpc[w] # "off"

\* The worker threads exist from Start to Stop, and run something only then.
WorkersOK ==
    /\ \A v, w \in Workers : wpc[v] = "off" => wpc[w] = "off"
    /\ Spawned <=> state = "RUNNING" \/ cpc = "barrier"
    /\ \A w \in Workers : on[w] # Main => wpc[w] \in {"yield", "closing"}
    /\ \A w \in Workers : wpc[w] = "spawned" => cpc = "barrier"

\* The control thread stops, and refers to the manager, what it has started.
ControlOK ==
    /\ cpc \in {"refer", "join"} => state = "RUNNING"
    /\ cpc = "barrier" => state = "STOPPED"
    /\ starts = 0 => state = "STOPPED" /\ cpc # "barrier"
    /\ cpc = "join" => closed
    /\ cpc = "destroyed" => state = "STOPPED" /\ ~alive
    /\ ~alive => cpc \in {"join", "destroyed"}

\* A job that has been accepted and not ended is in the channel, among the
\* fibers that are ready, or on one worker: nowhere else, and only once.
FibersOK ==
    /\ \A j \in channel : job[j] = "scheduled" /\ j \notin ready
    /\ \A j \in ready : job[j] \in {"scheduled", "running"}
    /\ \A w \in Workers : on[w] # Main =>
           /\ job[on[w]] \in {"scheduled", "running"}
           /\ on[w] \notin channel \cup ready
    /\ \A v, w \in Workers : on[v] = on[w] /\ on[v] # Main => v = w
    /\ \A j \in Jobs : job[j] \in {"scheduled", "running"} =>
           j \in channel \cup ready \/ \E w \in Workers : on[w] = j

\* A worker leaves when the closed channel is empty and no fiber is ready;
\* what becomes ready afterwards has begun.
Left == starts > 0 /\ \E w \in Workers : wpc[w] \in {"off", "exited"}
LeavingOK ==
    /\ \A w \in Workers : wpc[w] = "closing" => closed /\ channel = {}
    /\ Left => closed /\ channel = {} /\ ready \subseteq Begun

\* Fibers that nobody resumes any more wait for a job that has not ended.
AllLeft == starts > 0 /\ \A w \in Workers : Exited(w)
WaitingOK ==
    /\ AllLeft =>
           \A j \in ready : \E d \in WaitsFor[j] : job[d] # "done"
    /\ alive => \A j \in bound : job[j] \in {"scheduled", "running", "done"}

ExecutionInv ==
    TypeOK /\ WorkersOK /\ ControlOK /\ FibersOK /\ LeavingOK /\ WaitingOK
=============================================================================
