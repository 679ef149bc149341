------------------------- MODULE JobManager_proofs --------------------------
(***************************************************************************)
(* The safety of the job manager for any number of jobs, threads, fibers  *)
(* and cycles.  SyncInv (types, program counters, the state mutex) and     *)
(* PlacesInv (where each instance is, and how it is counted) hold whoever  *)
(* kicks jobs.  The barrier, and the end of a phase, need OnlySyncJobsKick:*)
(* a job kicked by a client or by an asynchronous job may be counted after *)
(* the wait for the phase has ended.  What DetachJob promises needs        *)
(* DetachDiscipline.                                                       *)
(***************************************************************************)
EXTENDS JobManagerInv, FiniteSetTheorems, TLAPS

\* The initial states: nothing is queued, nobody holds a mutex.
LEMMA SyncInit == Init => SyncInv
  <1> SUFFICES ASSUME Init PROVE SyncInv
    OBVIOUS
  <1>1. TypeOK
    BY ConstantsAssumption, ActorsAssumption
       DEF Init, TypeOK, Actors, Callers, Labels, LockOwner, Phases
  <1>2. PcOK
    BY ActorsAssumption DEF Init, PcOK, Actors, KickLabels, ScheduleLabels,
       LoopLabels, MainLabels, FiberLabels, PhaseLabels
  <1>3. StateLockOK
    BY ActorsAssumption, SMTT(40) DEF Init, StateLockOK, Actors, ScheduleLabels
  <1> QED BY <1>1, <1>2, <1>3 DEF SyncInv

\* Whoever schedules a queue from KickJob owns the state mutex, and the state
\* changes only when nobody does.
LEMMA SyncStep == SyncInv /\ [Next]_vars => SyncInv'
  <1> SUFFICES ASSUME SyncInv, [Next]_vars PROVE SyncInv'
    OBVIOUS
  <1> USE ConstantsAssumption, ActorsAssumption
      DEF SyncInv, TypeOK, PcOK, StateLockOK, Labels, CallLabels, KickLabels,
          ScheduleLabels, DetachLabels, MainLabels, FiberLabels, LoopLabels,
          PhaseLabels, LockOwner, Goto, managerVars, queues, jobVars, locals,
          locks, history, Phases, Actors
  <1>1. ASSUME NEW a \in Actors, KickUnban(a) PROVE SyncInv'
    BY <1>1 DEF KickUnban
  <1>2. ASSUME NEW a \in Actors, KickPush(a) PROVE SyncInv'
    BY <1>2 DEF KickPush, Held
  <1>3. ASSUME NEW a \in Actors, KickCheck(a) PROVE SyncInv'
    <2>1. CASE managerState = PhaseOf[arg[a]]
      <3>1. a # Main
        BY <1>3, <2>1 DEF KickCheck
      <3>2. stateLock' = a /\ pc' = [pc EXCEPT ![a] = "sched_lock"]
        BY <1>3, <2>1 DEF KickCheck
      <3> QED BY <1>3, <2>1, <3>1, <3>2 DEF KickCheck, Held
    <2>2. CASE managerState # PhaseOf[arg[a]]
      <3>1. stateLock' = stateLock /\ pc' = [pc EXCEPT ![a] = "kick_mark"]
        BY <1>3, <2>2 DEF KickCheck
      <3> QED BY <1>3, <3>1 DEF KickCheck
    <2> QED BY <2>1, <2>2
  <1>4. ASSUME NEW a \in Actors, KickMark(a) PROVE SyncInv'
    BY <1>4 DEF KickMark, CallReturn
  <1>5. ASSUME NEW a \in Actors, ScheduleLock(a) PROVE SyncInv'
    BY <1>5 DEF ScheduleLock, SchedulePhase, Held
  <1>6. ASSUME NEW a \in Actors, SchedulePush(a) PROVE SyncInv'
    BY <1>6 DEF SchedulePush
  <1>7. ASSUME NEW a \in Actors, ScheduleMark(a) PROVE SyncInv'
    BY <1>7 DEF ScheduleMark
  <1>8. ASSUME NEW a \in Actors, ScheduleDone(a) PROVE SyncInv'
    BY <1>8 DEF ScheduleDone, SchedulePhase
  <1>9. ASSUME NEW a \in Actors, DeferCheck(a) PROVE SyncInv'
    BY <1>9 DEF DeferCheck, CheckBlacklist
  <1>10. ASSUME NEW a \in Actors, DeferPush(a) PROVE SyncInv'
    BY <1>10 DEF DeferPush, PushNextCycle, Held
  <1>11. ASSUME NEW a \in Actors, DetachNext(a) PROVE SyncInv'
    BY <1>11 DEF DetachNext, Held, SetDetached, HasId
  <1>12. ASSUME NEW a \in Actors, DetachInit(a) PROVE SyncInv'
    BY <1>12 DEF DetachInit, DetachFrom, Held, SetDetached, HasId
  <1>13. ASSUME NEW a \in Actors, DetachMain(a) PROVE SyncInv'
    BY <1>13 DEF DetachMain, DetachFrom, Held, SetDetached, HasId
  <1>14. ASSUME NEW a \in Actors, DetachCleanUp(a) PROVE SyncInv'
    BY <1>14 DEF DetachCleanUp, DetachFrom, Held, SetDetached, HasId,
       CallReturn
  <1>15. ASSUME NEW a \in Actors, NEW j \in Jobs, ScheduleNext(a, j)
         PROVE SyncInv'
    <2>1. SchedulePhase(a) \in Phases /\ cycle \in 1 .. MaxCycles
      BY <1>15 DEF ScheduleNext, SchedulePhase
    <2>2. PhaseCounter(SchedulePhase(a)) \in CounterIds
      BY <2>1 DEF PhaseCounter, CounterIds
    <2>3. timer' \in [TimerJobs -> {"off", "running", "elapsed"}]
      BY <1>15 DEF ScheduleNext, TimerAfterCheck
    <2>4. counter' \in [CounterIds -> Int]
          /\ jobCounters' \in [Jobs -> SUBSET CounterIds]
      <3>1. \/ UNCHANGED <<counter, jobCounters>>
            \/ AddCounter(j, PhaseCounter(SchedulePhase(a)))
        BY <1>15 DEF ScheduleNext
      <3> QED BY <2>2, <3>1 DEF AddCounter
    <2>5. pc' \in [Actors -> Labels]
      BY <1>15 DEF ScheduleNext
    <2>6. TypeOK'
      BY <1>15, <2>1, <2>3, <2>4, <2>5 DEF ScheduleNext
    <2>7. PcOK' /\ StateLockOK'
      BY <1>15 DEF ScheduleNext
    <2> QED BY <2>6, <2>7
  <1>16. ASSUME NEW a \in Actors, NEW j \in Jobs, CallKick(a, j) PROVE SyncInv'
    BY <1>16 DEF CallKick, MakesCall, InUserCode, Caller, Callers
  <1>17. ASSUME NEW a \in Actors, NEW j \in Ids, CallDetach(a, j) PROVE
  SyncInv'
    BY <1>17 DEF CallDetach, MakesCall, InUserCode, Caller, Callers, HasId
  <1>18. CASE InvokeCycle
    BY <1>18 DEF InvokeCycle, ResetContinuationRequeueBlacklist
  <1>19. CASE DrainLock
    BY <1>19 DEF DrainLock, Held
  <1>20. CASE DrainDone
    BY <1>20 DEF DrainDone
  <1>21. CASE BeginCycle
    <2>1. counter' \in [CounterIds -> Int]
      BY <1>21 DEF BeginCycle
    <2>2. cycle' \in 0 .. MaxCycles /\ cycle' >= 1
      BY <1>21 DEF BeginCycle
    <2>3. TypeOK'
      BY <1>21, <2>1, <2>2 DEF BeginCycle
    <2>4. PcOK' /\ StateLockOK'
      BY <1>21, <2>2 DEF BeginCycle
    <2> QED BY <2>3, <2>4
  <1>22. CASE EnterPhase
    BY <1>22 DEF EnterPhase, NextState, Held
  <1>23. CASE PeekQueue
    BY <1>23 DEF PeekQueue, Held
  <1>24. CASE WaitForCompletion
    BY <1>24 DEF WaitForCompletion
  <1>25. CASE EndCycle
    BY <1>25 DEF EndCycle, ResetContinuationRequeueBlacklist
  <1>26. ASSUME NEW j \in Jobs, DrainNext(j) PROVE SyncInv'
    BY <1>26 DEF DrainNext
  <1>27. ASSUME NEW f \in Fibers, RequeueCheck(f) PROVE SyncInv'
    BY <1>27 DEF RequeueCheck, CheckBlacklist
  <1>28. ASSUME NEW f \in Fibers, RequeuePush(f) PROVE SyncInv'
    BY <1>28 DEF RequeuePush, PushNextCycle, Held
  <1>29. ASSUME NEW f \in Fibers, FinishJob(f) PROVE SyncInv'
    BY <1>29 DEF FinishJob, CounterIds
  <1>30. ASSUME NEW f \in Fibers, EndDispose(f) PROVE SyncInv'
    BY <1>30 DEF EndDispose
  <1>31. ASSUME NEW f \in Fibers, EndRequeue(f) PROVE SyncInv'
    BY <1>31 DEF EndRequeue
  <1>32. ASSUME NEW f \in Fibers, NEW j \in Jobs, RunJob(f, j) PROVE SyncInv'
    BY <1>32 DEF RunJob
  <1>33. ASSUME NEW j \in TimerJobs, TimerElapses(j) PROVE SyncInv'
    BY <1>33 DEF TimerElapses
  <1>34. CASE UNCHANGED vars
    BY <1>34 DEF vars
  <1> QED
    BY <1>1, <1>2, <1>3, <1>4, <1>5, <1>6, <1>7, <1>8, <1>9, <1>10, <1>11,
       <1>12, <1>13, <1>14, <1>15, <1>16, <1>17, <1>18, <1>19, <1>20, <1>21,
       <1>22, <1>23, <1>24, <1>25, <1>26, <1>27, <1>28, <1>29, <1>30, <1>31,
       <1>32, <1>33, <1>34
    DEF Next, ManagerCall, UserCall, MainStep, FiberStep, Terminated

\* Types, program counters and the state mutex, with no assumption on who
\* kicks jobs.
THEOREM SyncInvariant == Spec => []SyncInv
  <1> QED BY SyncInit, SyncStep, PTL DEF Spec

\* Every variable keeps its type, for any number of jobs, threads and cycles.
THEOREM TypeCorrectness == Spec => []TypeOK
  <1>1. SyncInv => TypeOK
    BY DEF SyncInv
  <1> QED BY <1>1, SyncInvariant, PTL

\* The two assertions of KickJob never fail, whoever kicks jobs and whenever.
THEOREM StateSynchronized == Spec => []StateIsSynchronized
  <1>1. SyncInv => StateIsSynchronized
    BY DEF SyncInv, StateLockOK, StateIsSynchronized
  <1> QED BY <1>1, SyncInvariant, PTL

-----------------------------------------------------------------------------
(* Where the instances are *)

\* How a step changes the places of an instance: not at all, by bringing it
\* in, by moving it on, or by taking it out for good.
Arrives(j) ==
    /\ j \in kicked' \ kicked
    /\ Places(j) = {}
    /\ \E t : Places(j)' = {t}
Moves(j) == \E s \in Places(j) : \E t : Places(j)' = (Places(j) \ {s}) \cup {t}
Leaves(j) ==
    /\ Places(j)' \subseteq Places(j)
    /\ j \in disposed' \/ WasDetached(IdOf[j])
Rests(j) == Places(j)' = Places(j)

\* An instance rests where nothing that Places looks at changes for it.
LEMMA SamePlaces ==
  ASSUME NEW j, QueuesOf(j)' = QueuesOf(j),
         j \in nextQueue' <=> j \in nextQueue,
         j \in channel' <=> j \in channel, CallsOf(j)' = CallsOf(j),
         LoopsOf(j)' = LoopsOf(j), FibersOf(j)' = FibersOf(j)
  PROVE  Rests(j)
  BY DEF Rests, Places

\* An instance that leaves a queue for the loop that empties the queue.
LEMMA ToTheLoop ==
  ASSUME NEW j, NEW p, NEW a,
         QueuesOf(j)' = QueuesOf(j) \ {p}, UNCHANGED <<nextQueue, channel>>,
         CallsOf(j)' = CallsOf(j), LoopsOf(j)' = LoopsOf(j) \cup {a},
         FibersOf(j)' = FibersOf(j)
  PROVE  Places(j)' = (Places(j) \ {<<"queue", p>>}) \cup {<<"loop", a>>}
  BY DEF Places

\* ScheduleAllJobsInQueue takes an instance out of its queue into the loop.
LEMMA ScheduleNextMoves ==
  ASSUME SyncInv, CurOK, NEW a \in Actors, NEW j \in Jobs, NEW k, k = j,
         ScheduleNext(a, k)
  PROVE  Moves(j)
  <1> DEFINE p == SchedulePhase(a)
  <1> USE DEF SyncInv, TypeOK, PcOK
  <1>1. p \in Phases
    BY ConstantsAssumption
       DEF ScheduleNext, SchedulePhase, Actors, ScheduleLabels, PhaseLabels
  <1>2. pc[a] = "sched_next" /\ j \in queue[p]
        /\ queue' = [queue EXCEPT ![p] = @ \ {j}]
        /\ cur' = [cur EXCEPT ![a] = j]
        /\ nextQueue' = nextQueue /\ channel' = channel /\ arg' = arg
        /\ running' = running
    BY DEF ScheduleNext, locals
  <1>3. \E l \in {"sched_push", "defer_check"} : pc' = [pc EXCEPT ![a] = l]
    BY DEF ScheduleNext, Goto
  <1>4. cur[a] # j
    BY <1>2 DEF CurOK, LoopLabels
  <1>5. QueuesOf(j)' = QueuesOf(j) \ {p}
    BY <1>1, <1>2 DEF QueuesOf
  <1>6. CallsOf(j)' = CallsOf(j)
    BY <1>2, <1>3 DEF CallsOf
  <1>7. FibersOf(j)' = FibersOf(j)
    BY <1>2, <1>3 DEF FibersOf, Actors
  <1>8. LoopsOf(j)' = LoopsOf(j) \cup {a}
    BY <1>2, <1>3, <1>4 DEF LoopsOf
  <1>9. <<"queue", p>> \in Places(j)
    BY <1>1, <1>2 DEF Places, QueuesOf
  <1>10. Places(j)' = (Places(j) \ {<<"queue", p>>}) \cup {<<"loop", a>>}
    BY <1>2, <1>5, <1>6, <1>7, <1>8, ToTheLoop
  <1> QED BY <1>9, <1>10 DEF Moves

\* No step does anything else with an instance; who takes one out for good
\* has run its workload to the end, or acts for DetachJob.
LEMMA PlacesStep ==
  ASSUME SyncInv, CurOK, PlacesOK, DetachOK, [Next]_vars, NEW j \in Jobs
  PROVE  Rests(j) \/ Arrives(j) \/ Moves(j) \/ Leaves(j)
  <1>0. \A a \in Actors, k \in Jobs : ScheduleNext(a, k) /\ k = j => Moves(j)
    BY ScheduleNextMoves
  <1> USE ConstantsAssumption, ActorsAssumption
      DEF SyncInv, TypeOK, PcOK, CurOK,
          KickLabels, LoopLabels, DetachLabels,
          ScheduleLabels, MainLabels, FiberLabels,
          Goto, managerVars, queues, jobVars, locals, locks,
          history, Actors
  <1> DEFINE Same == /\ QueuesOf(j)' = QueuesOf(j)
                     /\ j \in nextQueue' <=> j \in nextQueue
                     /\ j \in channel' <=> j \in channel
                     /\ CallsOf(j)' = CallsOf(j) /\ LoopsOf(j)' = LoopsOf(j)
                     /\ FibersOf(j)' = FibersOf(j)
             Known == Same \/ Arrives(j) \/ Moves(j) \/ Leaves(j)
  <1> USE DEF QueuesOf, CallsOf, LoopsOf, FibersOf
  <1>1. ASSUME NEW a \in Actors, KickUnban(a) PROVE Same
    BY <1>1 DEF KickUnban
  <1>2. ASSUME NEW a \in Actors, KickPush(a) PROVE Known
    <2>1. CASE j = arg[a]
      <3>1. <<"call", a>> \in Places(j)
        BY <1>2, <2>1 DEF KickPush, Places
      <3>2. Places(j)' = (Places(j) \ {<<"call", a>>})
                         \cup {<<"queue", PhaseOf[j]>>}
        BY <1>2, <2>1 DEF KickPush, Places
      <3> QED BY <3>1, <3>2 DEF Moves
    <2>2. CASE j # arg[a]
      BY <1>2, <2>2 DEF KickPush
    <2> QED BY <2>1, <2>2
  <1>3. ASSUME NEW a \in Actors, KickCheck(a) PROVE Same
    BY <1>3 DEF KickCheck
  <1>4. ASSUME NEW a \in Actors, KickMark(a) PROVE Same
    BY <1>4 DEF KickMark, CallReturn
  <1>5. ASSUME NEW a \in Actors, ScheduleLock(a) PROVE Same
    BY <1>5 DEF ScheduleLock
  <1>6. ASSUME NEW a \in Actors, SchedulePush(a) PROVE Known
    <2>1. CASE j = cur[a]
      <3>1. <<"loop", a>> \in Places(j)
        BY <1>6, <2>1 DEF SchedulePush, Places
      <3>2. Places(j)' = (Places(j) \ {<<"loop", a>>})
                         \cup {<<"channel", None>>}
        BY <1>6, <2>1 DEF SchedulePush, Places
      <3> QED BY <3>1, <3>2 DEF Moves
    <2>2. CASE j # cur[a]
      BY <1>6, <2>2 DEF SchedulePush
    <2> QED BY <2>1, <2>2
  <1>7. ASSUME NEW a \in Actors, ScheduleMark(a) PROVE Same
    BY <1>7 DEF ScheduleMark
  <1>8. ASSUME NEW a \in Actors, ScheduleDone(a) PROVE Same
    BY <1>8 DEF ScheduleDone
  <1>9. ASSUME NEW a \in Actors, DeferCheck(a) PROVE Known
    <2>1. CASE j = cur[a] /\ IdOf[j] \in blacklist
      <3>1. WasDetached(IdOf[j])
        BY <2>1 DEF DetachOK
      <3>2. Places(j)' \subseteq Places(j)
        BY <1>9, <2>1 DEF DeferCheck, CheckBlacklist, Places
      <3> QED BY <3>1, <3>2 DEF Leaves
    <2>2. CASE ~(j = cur[a] /\ IdOf[j] \in blacklist)
      BY <1>9, <2>2 DEF DeferCheck, CheckBlacklist
    <2> QED BY <2>1, <2>2
  <1>10. ASSUME NEW a \in Actors, DeferPush(a) PROVE Known
    <2>1. CASE j = cur[a]
      <3>1. <<"loop", a>> \in Places(j)
        BY <1>10, <2>1 DEF DeferPush, Places
      <3>2. Places(j)' = (Places(j) \ {<<"loop", a>>}) \cup {<<"next", None>>}
        BY <1>10, <2>1 DEF DeferPush, PushNextCycle, Places
      <3> QED BY <3>1, <3>2 DEF Moves
    <2>2. CASE j # cur[a]
      BY <1>10, <2>2 DEF DeferPush, PushNextCycle
    <2> QED BY <2>1, <2>2
  <1>11. ASSUME NEW a \in Actors, DetachNext(a) PROVE Known
    <2>1. CASE IdOf[j] = arg[a]
      <3>1. WasDetached(IdOf[j])
        BY <1>11, <2>1 DEF DetachOK, DetachNext
      <3>2. Places(j)' \subseteq Places(j)
        BY <1>11, <2>1 DEF DetachNext, Places
      <3> QED BY <3>1, <3>2 DEF Leaves
    <2>2. CASE IdOf[j] # arg[a]
      BY <1>11, <2>2 DEF DetachNext, HasId
    <2> QED BY <2>1, <2>2
  <1>12. ASSUME NEW a \in Actors, NEW p \in Phases, NEW next,
                DetachFrom(a, p, next), pc[a] \in DetachLabels,
                next \notin {"finish", "kick_unban", "kick_push",
                             "sched_mark"},
                UNCHANGED arg \/ arg' = [arg EXCEPT ![a] = None]
         PROVE Known
    <2>1. CASE IdOf[j] = arg[a]
      <3>1. WasDetached(IdOf[j])
        BY <1>12, <2>1 DEF DetachOK
      <3>2. Places(j)' \subseteq Places(j)
        BY <1>12, <2>1 DEF DetachFrom, Places
      <3> QED BY <3>1, <3>2 DEF Leaves
    <2>2. CASE IdOf[j] # arg[a]
      BY <1>12, <2>2 DEF DetachFrom, HasId
    <2> QED BY <2>1, <2>2
  <1>13. ASSUME NEW a \in Actors,
                DetachInit(a) \/ DetachMain(a) \/ DetachCleanUp(a)
         PROVE Known
    <2>1. CallReturn(a) \in {"work", "drain", "idle"}
      BY DEF CallReturn
    <2> QED BY <1>12, <1>13, <2>1
            DEF DetachInit, DetachMain, DetachCleanUp, Phases
  <1>15. ASSUME NEW a \in Actors, NEW k \in Jobs, ScheduleNext(a, k)
         PROVE Known
    <2>1. CASE j = k
      BY <1>0, <1>15, <2>1
    <2>2. CASE j # k
      <3>1. \E l \in {"sched_push", "defer_check"} : pc' = [pc EXCEPT ![a] = l]
        BY <1>15 DEF ScheduleNext
      <3>2. QueuesOf(j)' = QueuesOf(j) /\ UNCHANGED <<nextQueue, channel>>
        BY <1>15, <2>2 DEF ScheduleNext
      <3>3. CallsOf(j)' = CallsOf(j) /\ FibersOf(j)' = FibersOf(j)
        BY <1>15, <3>1 DEF ScheduleNext
      <3>4. LoopsOf(j)' = LoopsOf(j)
        BY <1>15, <2>2, <3>1 DEF ScheduleNext
      <3> HIDE DEF QueuesOf, CallsOf, LoopsOf, FibersOf
      <3> QED BY <3>2, <3>3, <3>4
    <2> QED BY <2>1, <2>2
  <1>16. ASSUME NEW a \in Actors, NEW k \in Jobs, CallKick(a, k) PROVE Known
    <2>1. CASE j = k
      <3>1. Places(j) = {}
        BY <1>16, <2>1 DEF CallKick, PlacesOK
      <3>2. Places(j)' = {<<"call", a>>}
        BY <1>16, <2>1, <3>1 DEF CallKick, MakesCall, InUserCode, Places
      <3> QED BY <1>16, <2>1, <3>1, <3>2 DEF Arrives, CallKick
    <2>2. CASE j # k
      BY <1>16, <2>2 DEF CallKick, MakesCall, InUserCode
    <2> QED BY <2>1, <2>2
  <1>17. ASSUME NEW a \in Actors, NEW id \in Ids, CallDetach(a, id) PROVE Same
    BY <1>17 DEF CallDetach, MakesCall, InUserCode
  <1>18. ASSUME InvokeCycle \/ EndCycle PROVE Same
    BY <1>18 DEF InvokeCycle, EndCycle, ResetContinuationRequeueBlacklist
  <1>19. ASSUME DrainLock \/ DrainDone \/ BeginCycle PROVE Same
    BY <1>19 DEF DrainLock, DrainDone, BeginCycle
  <1>20. ASSUME EnterPhase \/ PeekQueue \/ WaitForCompletion PROVE Same
    BY <1>20 DEF EnterPhase, PeekQueue, WaitForCompletion
  <1>26. ASSUME NEW k \in Jobs, DrainNext(k) PROVE Known
    <2>1. CASE j = k
      <3>1. <<"next", None>> \in Places(j)
        BY <1>26, <2>1 DEF DrainNext, Places
      <3>2. Places(j)' = (Places(j) \ {<<"next", None>>})
                         \cup {<<"call", Main>>}
        BY <1>26, <2>1 DEF DrainNext, Places
      <3> QED BY <3>1, <3>2 DEF Moves
    <2>2. CASE j # k
      BY <1>26, <2>2 DEF DrainNext
    <2> QED BY <2>1, <2>2
  <1>27. ASSUME NEW f \in Fibers, RequeueCheck(f) PROVE Known
    <2>1. CASE j = running[f] /\ IdOf[j] \in blacklist
      <3>1. WasDetached(IdOf[j])
        BY <2>1 DEF DetachOK
      <3>2. Places(j)' \subseteq Places(j)
        BY <1>27, <2>1 DEF RequeueCheck, CheckBlacklist, Places
      <3> QED BY <3>1, <3>2 DEF Leaves
    <2>2. CASE ~(j = running[f] /\ IdOf[j] \in blacklist)
      BY <1>27, <2>2 DEF RequeueCheck, CheckBlacklist
    <2> QED BY <2>1, <2>2
  <1>28. ASSUME NEW f \in Fibers, RequeuePush(f) PROVE Known
    <2>1. CASE j = running[f]
      <3>1. <<"fiber", f>> \in Places(j)
        BY <1>28, <2>1 DEF RequeuePush, Places
      <3>2. Places(j)' = (Places(j) \ {<<"fiber", f>>}) \cup {<<"next", None>>}
        BY <1>28, <2>1 DEF RequeuePush, PushNextCycle, Places
      <3> QED BY <3>1, <3>2 DEF Moves
    <2>2. CASE j # running[f]
      BY <1>28, <2>2 DEF RequeuePush, PushNextCycle
    <2> QED BY <2>1, <2>2
  <1>29. ASSUME NEW f \in Fibers, FinishJob(f) PROVE Same
    BY <1>29 DEF FinishJob
  <1>30. ASSUME NEW f \in Fibers, EndDispose(f) PROVE Known
    <2>1. CASE j = running[f]
      BY <1>30, <2>1 DEF EndDispose, Leaves, Places
    <2>2. CASE j # running[f]
      BY <1>30, <2>2 DEF EndDispose
    <2> QED BY <2>1, <2>2
  <1>31. ASSUME NEW f \in Fibers, EndRequeue(f) PROVE Same
    BY <1>31 DEF EndRequeue
  <1>32. ASSUME NEW f \in Fibers, NEW k \in Jobs, RunJob(f, k) PROVE Known
    <2>1. CASE j = k
      <3>1. <<"channel", None>> \in Places(j)
        BY <1>32, <2>1 DEF RunJob, Places
      <3>2. Places(j)' = (Places(j) \ {<<"channel", None>>})
                         \cup {<<"fiber", f>>}
        BY <1>32, <2>1 DEF RunJob, Places
      <3> QED BY <3>1, <3>2 DEF Moves
    <2>2. CASE j # k
      BY <1>32, <2>2 DEF RunJob
    <2> QED BY <2>1, <2>2
  <1>33. ASSUME NEW k \in TimerJobs, TimerElapses(k) PROVE Same
    BY <1>33 DEF TimerElapses
  <1>34. ASSUME UNCHANGED vars PROVE Same
    BY <1>34 DEF vars
  <1>35. Known
    BY <1>1, <1>2, <1>3, <1>4, <1>5, <1>6, <1>7, <1>8, <1>9, <1>10, <1>11,
       <1>13, <1>15, <1>16, <1>17, <1>18, <1>19, <1>20,
       <1>26, <1>27, <1>28, <1>29, <1>30, <1>31,
       <1>32, <1>33, <1>34
    DEF Next, ManagerCall, UserCall, MainStep, FiberStep, Terminated
  <1> HIDE DEF QueuesOf, CallsOf, LoopsOf, FibersOf
  <1> QED BY <1>35, SamePlaces

\* What has been detached stays detached: no caller takes a call back.
LEMMA StepsGrow ==
  ASSUME SyncInv, [Next]_vars
  PROVE  /\ \A x \in Callers : step'[x] \in Nat /\ step'[x] >= step[x]
         /\ kicked \subseteq kicked' /\ disposed \subseteq disposed'
  <1> DEFINE Grow == /\ \A x \in Callers :
                            step'[x] \in Nat /\ step'[x] >= step[x]
                     /\ kicked \subseteq kicked'
                     /\ disposed \subseteq disposed'
  <1>0. TypeOK
    BY DEF SyncInv
  <1>1. ASSUME UNCHANGED <<step, kicked>>, disposed \subseteq disposed'
        PROVE Grow
    BY <1>0, <1>1 DEF TypeOK
  <1>2. ASSUME NEW a \in Actors, ManagerCall(a) PROVE Grow
    BY <1>1, <1>2
       DEF ManagerCall, KickUnban, KickPush, KickCheck, KickMark, ScheduleLock,
           SchedulePush, ScheduleMark, ScheduleDone, ScheduleNext,
           DeferCheck, DeferPush,
           CheckBlacklist, PushNextCycle, DetachNext, DetachInit, DetachMain,
           DetachCleanUp, DetachFrom, locals, history
  <1>3. ASSUME NEW a \in Actors, UserCall(a) PROVE Grow
    <2>1. Caller(a) \in Callers /\ step' = [step EXCEPT ![Caller(a)] = @ + 1]
      BY <1>0, <1>3
      DEF UserCall, CallKick, CallDetach, MakesCall, Caller, Callers, Actors,
          InUserCode, TypeOK, SyncInv, PcOK
    <2> QED BY <1>0, <1>3, <2>1 DEF TypeOK, UserCall, CallKick, CallDetach
  <1>4. CASE MainStep
    BY <1>1, <1>4
       DEF MainStep, InvokeCycle, ResetContinuationRequeueBlacklist, DrainLock,
           DrainNext, DrainDone, BeginCycle, EnterPhase, PeekQueue,
           WaitForCompletion,
           EndCycle, locals, history
  <1>5. ASSUME NEW f \in Fibers, FiberStep(f) PROVE Grow
    BY <1>1, <1>5
       DEF FiberStep, RunJob, EndDispose, EndRequeue, RequeueCheck,
           RequeuePush, FinishJob, CheckBlacklist, PushNextCycle, locals,
           history
  <1>6. ASSUME NEW j \in TimerJobs, TimerElapses(j) PROVE Grow
    BY <1>1, <1>6 DEF TimerElapses, locals, history
  <1>7. CASE UNCHANGED vars
    BY <1>1, <1>7 DEF vars, locals, history
  <1> QED BY <1>2, <1>3, <1>4, <1>5, <1>6, <1>7 DEF Next, Terminated

\* Only KickJob brings instances in.
LEMMA KickedGrows ==
  ASSUME [Next]_vars, NEW j \in kicked' \ kicked
  PROVE  \E a \in Actors : CallKick(a, j)
  <1>1. \E a \in Actors, k \in Jobs : CallKick(a, k)
    BY DEF Next, ManagerCall, KickUnban, KickPush, KickCheck, KickMark,
       ScheduleLock,
           SchedulePush, ScheduleMark, ScheduleDone, ScheduleNext,
           DeferCheck, DeferPush,
           CheckBlacklist, PushNextCycle, DetachNext, DetachInit, DetachMain,
           DetachCleanUp, DetachFrom, UserCall, CallDetach, MainStep,
           InvokeCycle,
           ResetContinuationRequeueBlacklist, DrainLock,
           DrainNext, DrainDone, BeginCycle, EnterPhase, PeekQueue,
           WaitForCompletion,
           EndCycle, FiberStep, RunJob, EndDispose, EndRequeue, RequeueCheck,
           RequeuePush, FinishJob, TimerElapses, Terminated, vars, locals,
           history
  <1>2. PICK a \in Actors, k \in Jobs : CallKick(a, k)
    BY <1>1
  <1>3. k = j
    BY <1>2 DEF CallKick
  <1> QED BY <1>2, <1>3

\* An instance that KickJob is called for is in that call.
LEMMA KickedIsSomewhere ==
  ASSUME SyncInv, NEW a \in Actors, NEW j, CallKick(a, j)
  PROVE  Places(j)' # {}
  <1>1. a \in CallsOf(j)'
    BY DEF CallKick, CallsOf, Goto, SyncInv, TypeOK
  <1> QED BY <1>1 DEF Places

\* A call of DetachJob that was made stays made.
LEMMA DetachedStays ==
  ASSUME SyncInv, [Next]_vars, NEW id, WasDetached(id)
  PROVE  WasDetached(id)'
  BY StepsGrow DEF WasDetached, SyncInv, TypeOK

\* DetachJob counts as called from its first step on.
LEMMA CallDetachDetaches ==
  ASSUME SyncInv, NEW a \in Actors, NEW id \in Ids, CallDetach(a, id)
  PROVE  WasDetached(id)'
  <1>1. Caller(a) \in Callers /\ step' = [step EXCEPT ![Caller(a)] = @ + 1]
        /\ Script[Caller(a)][step[Caller(a)] + 1] = <<"detach", id>>
    BY DEF CallDetach, MakesCall, Caller, Callers, Actors, InUserCode,
       TypeOK, SyncInv, PcOK
  <1> QED BY <1>1 DEF WasDetached, SyncInv, TypeOK

\* Who takes part in the steps of a call, the loop or a detach.
LEMMA RestStep ==
  ASSUME SyncInv, CurOK, PlacesOK, DetachOK, KickedOK, [Next]_vars
  PROVE  CurOK' /\ DetachOK'
  <1> DEFINE Part == CurOK /\ DetachOK
  <1>0. \A id : WasDetached(id) => WasDetached(id)'
    BY DetachedStays
  <1> USE ConstantsAssumption, ActorsAssumption, <1>0
      DEF SyncInv, TypeOK, PcOK, CurOK, DetachOK,
          KickLabels, LoopLabels, DetachLabels,
          ScheduleLabels, MainLabels, FiberLabels,
          Goto, managerVars, queues, jobVars, locals, locks,
          history, Actors
  <1>1. ASSUME NEW a \in Actors, KickUnban(a) PROVE Part'
    BY <1>1 DEF KickUnban
  <1>2. ASSUME NEW a \in Actors, KickPush(a) PROVE Part'
    BY <1>2 DEF KickPush, Held
  <1>3. ASSUME NEW a \in Actors, KickCheck(a) PROVE Part'
    <2>1. pc[a] = "kick_check" /\ UNCHANGED <<cur, blacklist, arg, step>>
      BY <1>3 DEF KickCheck
    <2>2. \E l \in {"sched_lock", "kick_mark"} : pc' = [pc EXCEPT ![a] = l]
      BY <1>3 DEF KickCheck
    <2> QED BY <2>1, <2>2
  <1>4. ASSUME NEW a \in Actors, KickMark(a) PROVE Part'
    BY <1>4 DEF KickMark, CallReturn
  <1>5. ASSUME NEW a \in Actors, ScheduleLock(a) PROVE Part'
    BY <1>5 DEF ScheduleLock, SchedulePhase, Held
  <1>6. ASSUME NEW a \in Actors, SchedulePush(a) PROVE Part'
    BY <1>6 DEF SchedulePush
  <1>7. ASSUME NEW a \in Actors, ScheduleMark(a) PROVE Part'
    BY <1>7 DEF ScheduleMark
  <1>8. ASSUME NEW a \in Actors, ScheduleDone(a) PROVE Part'
    BY <1>8 DEF ScheduleDone, SchedulePhase
  <1>9. ASSUME NEW a \in Actors, DeferCheck(a) PROVE Part'
    BY <1>9 DEF DeferCheck, CheckBlacklist
  <1>10. ASSUME NEW a \in Actors, DeferPush(a) PROVE Part'
    BY <1>10 DEF DeferPush, PushNextCycle, Held
  <1>11. ASSUME NEW a \in Actors, DetachNext(a) PROVE Part'
    BY <1>11 DEF DetachNext, Held, HasId
  <1>12. ASSUME NEW a \in Actors, DetachInit(a) PROVE Part'
    BY <1>12 DEF DetachInit, DetachFrom, Held, HasId
  <1>13. ASSUME NEW a \in Actors, DetachMain(a) PROVE Part'
    BY <1>13 DEF DetachMain, DetachFrom, Held, HasId
  <1>14. ASSUME NEW a \in Actors, DetachCleanUp(a) PROVE Part'
    BY <1>14 DEF DetachCleanUp, DetachFrom, Held, HasId, CallReturn
  <1>15. ASSUME NEW a \in Actors, NEW j \in Jobs, ScheduleNext(a, j)
         PROVE Part'
    BY <1>15 DEF ScheduleNext
  <1>16. ASSUME NEW a \in Actors, NEW j \in Jobs, CallKick(a, j) PROVE Part'
    BY <1>16 DEF CallKick, MakesCall, InUserCode
  <1>17. ASSUME NEW a \in Actors, NEW id \in Ids, CallDetach(a, id) PROVE Part'
    BY <1>17, CallDetachDetaches DEF CallDetach, MakesCall, InUserCode
  <1>18. ASSUME InvokeCycle PROVE Part'
    BY <1>18 DEF InvokeCycle, ResetContinuationRequeueBlacklist
  <1>19. ASSUME DrainLock PROVE Part'
    BY <1>19 DEF DrainLock, Held
  <1>20. ASSUME DrainDone PROVE Part'
    BY <1>20 DEF DrainDone
  <1>21. ASSUME BeginCycle PROVE Part'
    BY <1>21 DEF BeginCycle
  <1>22. ASSUME EnterPhase PROVE Part'
    BY <1>22 DEF EnterPhase, NextState, Held
  <1>23. ASSUME PeekQueue PROVE Part'
    BY <1>23 DEF PeekQueue, Held
  <1>24. ASSUME WaitForCompletion PROVE Part'
    BY <1>24 DEF WaitForCompletion
  <1>25. ASSUME EndCycle PROVE Part'
    BY <1>25 DEF EndCycle, ResetContinuationRequeueBlacklist
  <1>26. ASSUME NEW j \in Jobs, DrainNext(j) PROVE Part'
    BY <1>26 DEF DrainNext
  <1>27. ASSUME NEW f \in Fibers, RequeueCheck(f) PROVE Part'
    BY <1>27 DEF RequeueCheck, CheckBlacklist
  <1>28. ASSUME NEW f \in Fibers, RequeuePush(f) PROVE Part'
    BY <1>28 DEF RequeuePush, PushNextCycle, Held
  <1>29. ASSUME NEW f \in Fibers, FinishJob(f) PROVE Part'
    BY <1>29 DEF FinishJob
  <1>30. ASSUME NEW f \in Fibers, EndDispose(f) PROVE Part'
    BY <1>30 DEF EndDispose
  <1>31. ASSUME NEW f \in Fibers, EndRequeue(f) PROVE Part'
    BY <1>31 DEF EndRequeue
  <1>32. ASSUME NEW f \in Fibers, NEW j \in Jobs, RunJob(f, j) PROVE Part'
    BY <1>32 DEF RunJob
  <1>33. ASSUME NEW j \in TimerJobs, TimerElapses(j) PROVE Part'
    BY <1>33 DEF TimerElapses
  <1>34. ASSUME UNCHANGED vars PROVE Part'
    BY <1>34 DEF vars
  <1> QED
    BY <1>1, <1>2, <1>3, <1>4, <1>5, <1>6, <1>7, <1>8, <1>9, <1>10, <1>11,
       <1>12, <1>13, <1>14, <1>15, <1>16, <1>17, <1>18, <1>19, <1>20, <1>21,
       <1>22, <1>23, <1>24, <1>25, <1>26, <1>27, <1>28, <1>29, <1>30, <1>31,
       <1>32, <1>33, <1>34
    DEF Next, ManagerCall, UserCall, MainStep, FiberStep, Terminated
\* Who kicks, or schedules a queue, does so for an instance that is kicked.
LEMMA KickedStep ==
  ASSUME SyncInv, CurOK, PlacesOK, DetachOK, KickedOK, [Next]_vars
  PROVE  KickedOK'
  <1> DEFINE Part == KickedOK
  <1> USE ConstantsAssumption, ActorsAssumption
      DEF SyncInv, TypeOK, PcOK, KickedOK, PlacesOK, Places,
          KickLabels, LoopLabels, DetachLabels,
          ScheduleLabels, MainLabels, FiberLabels,
          Goto, managerVars, queues, jobVars, locals, locks,
          history, Actors
  <1>1. ASSUME NEW a \in Actors, KickUnban(a) PROVE Part'
    BY <1>1 DEF KickUnban
  <1>2. ASSUME NEW a \in Actors, KickPush(a) PROVE Part'
    BY <1>2 DEF KickPush, Held
  <1>3. ASSUME NEW a \in Actors, KickCheck(a) PROVE Part'
    <2>1. pc[a] = "kick_check" /\ UNCHANGED <<arg, kicked, owned>>
      BY <1>3 DEF KickCheck
    <2>2. \E l \in {"sched_lock", "kick_mark"} : pc' = [pc EXCEPT ![a] = l]
      BY <1>3 DEF KickCheck
    <2> QED BY <2>1, <2>2
  <1>4. ASSUME NEW a \in Actors, KickMark(a) PROVE Part'
    BY <1>4 DEF KickMark, CallReturn
  <1>5. ASSUME NEW a \in Actors, ScheduleLock(a) PROVE Part'
    BY <1>5 DEF ScheduleLock, SchedulePhase, Held
  <1>6. ASSUME NEW a \in Actors, SchedulePush(a) PROVE Part'
    BY <1>6 DEF SchedulePush
  <1>7. ASSUME NEW a \in Actors, ScheduleMark(a) PROVE Part'
    BY <1>7 DEF ScheduleMark
  <1>8. ASSUME NEW a \in Actors, ScheduleDone(a) PROVE Part'
    BY <1>8 DEF ScheduleDone, SchedulePhase
  <1>9. ASSUME NEW a \in Actors, DeferCheck(a) PROVE Part'
    BY <1>9 DEF DeferCheck, CheckBlacklist
  <1>10. ASSUME NEW a \in Actors, DeferPush(a) PROVE Part'
    BY <1>10 DEF DeferPush, PushNextCycle, Held
  <1>11. ASSUME NEW a \in Actors, DetachNext(a) PROVE Part'
    BY <1>11 DEF DetachNext, Held, HasId
  <1>12. ASSUME NEW a \in Actors, DetachInit(a) PROVE Part'
    BY <1>12 DEF DetachInit, DetachFrom, Held, HasId
  <1>13. ASSUME NEW a \in Actors, DetachMain(a) PROVE Part'
    BY <1>13 DEF DetachMain, DetachFrom, Held, HasId
  <1>14. ASSUME NEW a \in Actors, DetachCleanUp(a) PROVE Part'
    BY <1>14 DEF DetachCleanUp, DetachFrom, Held, HasId, CallReturn
  <1>15. ASSUME NEW a \in Actors, NEW j \in Jobs, ScheduleNext(a, j)
         PROVE Part'
    BY <1>15 DEF ScheduleNext
  <1>16. ASSUME NEW a \in Actors, NEW j \in Jobs, CallKick(a, j) PROVE Part'
    BY <1>16 DEF CallKick, MakesCall, InUserCode
  <1>17. ASSUME NEW a \in Actors, NEW id \in Ids, CallDetach(a, id) PROVE Part'
    BY <1>17, CallDetachDetaches DEF CallDetach, MakesCall, InUserCode
  <1>18. ASSUME InvokeCycle PROVE Part'
    BY <1>18 DEF InvokeCycle, ResetContinuationRequeueBlacklist
  <1>19. ASSUME DrainLock PROVE Part'
    BY <1>19 DEF DrainLock, Held
  <1>20. ASSUME DrainDone PROVE Part'
    BY <1>20 DEF DrainDone
  <1>21. ASSUME BeginCycle PROVE Part'
    BY <1>21 DEF BeginCycle
  <1>22. ASSUME EnterPhase PROVE Part'
    BY <1>22 DEF EnterPhase, NextState, Held
  <1>23. ASSUME PeekQueue PROVE Part'
    BY <1>23 DEF PeekQueue, Held
  <1>24. ASSUME WaitForCompletion PROVE Part'
    BY <1>24 DEF WaitForCompletion
  <1>25. ASSUME EndCycle PROVE Part'
    BY <1>25 DEF EndCycle, ResetContinuationRequeueBlacklist
  <1>26. ASSUME NEW j \in Jobs, DrainNext(j) PROVE Part'
    BY <1>26 DEF DrainNext
  <1>27. ASSUME NEW f \in Fibers, RequeueCheck(f) PROVE Part'
    BY <1>27 DEF RequeueCheck, CheckBlacklist
  <1>28. ASSUME NEW f \in Fibers, RequeuePush(f) PROVE Part'
    BY <1>28 DEF RequeuePush, PushNextCycle, Held
  <1>29. ASSUME NEW f \in Fibers, FinishJob(f) PROVE Part'
    BY <1>29 DEF FinishJob
  <1>30. ASSUME NEW f \in Fibers, EndDispose(f) PROVE Part'
    BY <1>30 DEF EndDispose
  <1>31. ASSUME NEW f \in Fibers, EndRequeue(f) PROVE Part'
    BY <1>31 DEF EndRequeue
  <1>32. ASSUME NEW f \in Fibers, NEW j \in Jobs, RunJob(f, j) PROVE Part'
    BY <1>32 DEF RunJob
  <1>33. ASSUME NEW j \in TimerJobs, TimerElapses(j) PROVE Part'
    BY <1>33 DEF TimerElapses
  <1>34. ASSUME UNCHANGED vars PROVE Part'
    BY <1>34 DEF vars
  <1> QED
    BY <1>1, <1>2, <1>3, <1>4, <1>5, <1>6, <1>7, <1>8, <1>9, <1>10, <1>11,
       <1>12, <1>13, <1>14, <1>15, <1>16, <1>17, <1>18, <1>19, <1>20, <1>21,
       <1>22, <1>23, <1>24, <1>25, <1>26, <1>27, <1>28, <1>29, <1>30, <1>31,
       <1>32, <1>33, <1>34
    DEF Next, ManagerCall, UserCall, MainStep, FiberStep, Terminated

\* An instance is moved from the one place where it is, or brought in when it
\* has never been anywhere.
LEMMA PlacesOKStep ==
  ASSUME SyncInv, CurOK, PlacesOK, DetachOK, KeptOK, [Next]_vars
  PROVE  /\ \A j \in Jobs : \A s, t \in Places(j)' : s = t
         /\ \A j \in Jobs \ kicked' : Places(j)' = {}
         /\ KeptOK'
  <1>0. kicked \subseteq kicked' /\ disposed \subseteq disposed'
    BY StepsGrow
  <1>1. \A j \in Jobs : Rests(j) \/ Arrives(j) \/ Moves(j) \/ Leaves(j)
    BY PlacesStep
  <1>2. ASSUME NEW j \in Jobs, NEW s \in Places(j)', NEW t \in Places(j)'
        PROVE  s = t
    BY <1>1 DEF PlacesOK, AtOnePlace, Rests, Arrives, Moves, Leaves
  <1>3. ASSUME NEW j \in Jobs \ kicked' PROVE Places(j)' = {}
    BY <1>0, <1>1 DEF PlacesOK, Rests, Arrives, Moves, Leaves
  <1>4. ASSUME NEW j \in kicked' \ disposed', ~WasDetached(IdOf[j])'
        PROVE  Places(j)' # {}
    <2>1. j \in Jobs
      BY SyncStep DEF SyncInv, TypeOK
    <2>2. ~WasDetached(IdOf[j])
      BY <1>4, DetachedStays
    <2>3. CASE j \in kicked
      BY <1>0, <1>1, <1>4, <2>1, <2>2, <2>3
            DEF KeptOK, Rests, Arrives, Moves, Leaves
    <2>4. CASE j \notin kicked
      BY <2>4, KickedGrows, KickedIsSomewhere
    <2> QED BY <2>3, <2>4
  <1> QED BY <1>2, <1>3, <1>4 DEF KeptOK

\* The counter that a job gets when it leaves its queue is of this cycle.
LEMMA ScheduleNextCounted ==
  ASSUME SyncInv, CurOK, PlacesOK, CountedOK, AtOnePlace', [Next]_vars,
         NEW a \in Actors, NEW j \in Jobs, ScheduleNext(a, j)
  PROVE  CountedOK' /\ (\A k \in Jobs \ kicked' : jobCounters'[k] = {})
  <1> DEFINE c0 == PhaseCounter(SchedulePhase(a))
  <1>0. /\ jobCounters \in [Jobs -> SUBSET CounterIds]
        /\ queue \in [Phases -> SUBSET Jobs]
        /\ pc \in [Actors -> Labels]
        /\ cur \in [Actors -> Jobs \cup {None}]
        /\ cycle \in Nat
    BY ConstantsAssumption DEF SyncInv, TypeOK
  <1>1. /\ UNCHANGED <<cycle, managerState, arg, kicked>>
        /\ queue' = [queue EXCEPT ![SchedulePhase(a)] = @ \ {j}]
        /\ cur' = [cur EXCEPT ![a] = j]
    BY DEF ScheduleNext, locals, history
  <1>1a. pc[a] = "sched_next"
        /\ \E l \in {"sched_push", "defer_check"} :
               pc' = [pc EXCEPT ![a] = l]
    BY DEF ScheduleNext, Goto
  <1>2. \/ jobCounters' = jobCounters
        \/ jobCounters' = [jobCounters EXCEPT ![j] = @ \cup {c0}]
    BY DEF ScheduleNext, AddCounter
  <1>3. c0[1] = cycle
    BY DEF PhaseCounter
  <1>4. j \in kicked
    BY ScheduleNextMoves DEF Moves, PlacesOK
  <1>5. ASSUME NEW k \in Jobs, NEW c \in jobCounters'[k] PROVE c[1] <= cycle'
    <2>1. c \in jobCounters[k] \/ c = c0
      BY <1>0, <1>2
    <2> QED BY <1>0, <1>1, <1>3, <2>1 DEF CountedOK
  <1>6. ASSUME NEW k \in Jobs \ kicked' PROVE jobCounters'[k] = {}
    <2>1. k # j /\ jobCounters[k] = {}
      BY <1>1, <1>4 DEF PlacesOK
    <2> QED BY <1>0, <1>2, <2>1
  <1>7. /\ \A p \in Phases : j \notin queue'[p]
        /\ \A x \in Actors : ~InCall(x, j)'
    <2>1. <<"loop", a>> \in Places(j)'
      BY <1>0, <1>1, <1>1a DEF Places, LoopsOf
    <2>2. ASSUME NEW p \in Phases, j \in queue'[p] PROVE FALSE
      <3>1. <<"queue", p>> \in Places(j)'
        BY <2>2 DEF Places, QueuesOf
      <3> QED BY <2>1, <3>1 DEF AtOnePlace
    <2>3. ASSUME NEW x \in Actors, InCall(x, j)' PROVE FALSE
      <3>1. <<"call", x>> \in Places(j)'
        BY <2>3 DEF Places, CallsOf, InCall
      <3> QED BY <2>1, <3>1 DEF AtOnePlace
    <2> QED BY <2>2, <2>3
  <1>8. ASSUME NEW k \in Jobs, k # j, InCycle',
               \/ \E p \in Phases : k \in queue'[p]
               \/ \E x \in Actors : InCall(x, k)'
        PROVE  \A p \in Phases : <<cycle', p>> \notin jobCounters'[k]
    <2>1. jobCounters'[k] = jobCounters[k]
      BY <1>0, <1>2, <1>8
    <2>2. InCycle
      BY <1>0, <1>1, <1>1a, <1>8 DEF InCycle
    <2>3. \/ \E p \in Phases : k \in queue[p]
          \/ \E x \in Actors : InCall(x, k)
      BY <1>0, <1>1, <1>1a, <1>8 DEF InCall
    <2> QED BY <1>1, <2>1, <2>2, <2>3 DEF CountedOK
  <1>9. CountedOK'
    <2>1. ASSUME NEW k \in Jobs, InCycle',
                 \/ \E p \in Phases : k \in queue'[p]
                 \/ \E x \in Actors : InCall(x, k)'
          PROVE  \A p \in Phases : <<cycle', p>> \notin jobCounters'[k]
      BY <1>7, <1>8, <2>1
    <2> QED BY <1>5, <2>1 DEF CountedOK
  <1> QED BY <1>6, <1>9

\* Only the scheduling loop counts jobs, with counters of this cycle, and it
\* has taken the job out of its queue by then.
LEMMA CountedStep ==
  ASSUME SyncInv, CurOK, PlacesOK, CountedOK, AtOnePlace', [Next]_vars
  PROVE  CountedOK' /\ (\A j \in Jobs \ kicked' : jobCounters'[j] = {})
  <1> DEFINE Part == /\ CountedOK
                     /\ \A j \in Jobs \ kicked : jobCounters[j] = {}
  <1>0. "READY" \notin Phases
    BY DEF Phases
  <1>0a. \A a \in Actors, j \in Jobs : ScheduleNext(a, j) => Part'
    BY ScheduleNextCounted
  <1> USE <1>0, ConstantsAssumption, ActorsAssumption
      DEF SyncInv, TypeOK, PcOK, CountedOK, PlacesOK, InCall, InCycle,
          PhaseLabels,
          KickLabels, LoopLabels, DetachLabels,
          ScheduleLabels, MainLabels, FiberLabels,
          Goto, managerVars, queues, jobVars, locals, locks,
          history, Actors
  <1>1. ASSUME NEW a \in Actors, KickUnban(a) PROVE Part'
    BY <1>1 DEF KickUnban
  <1>2. ASSUME NEW a \in Actors, KickPush(a) PROVE Part'
    BY <1>2 DEF KickPush, Held
  <1>3. ASSUME NEW a \in Actors, KickCheck(a) PROVE Part'
    <2>1. pc[a] = "kick_check"
          /\ UNCHANGED <<arg, kicked, cycle, managerState, queue,
                         jobCounters>>
      BY <1>3 DEF KickCheck
    <2>2. \E l \in {"sched_lock", "kick_mark"} : pc' = [pc EXCEPT ![a] = l]
      BY <1>3 DEF KickCheck
    <2> QED BY <2>1, <2>2, ZenonT(40)
  <1>4. ASSUME NEW a \in Actors, KickMark(a) PROVE Part'
    BY <1>4 DEF KickMark, CallReturn
  <1>5. ASSUME NEW a \in Actors, ScheduleLock(a) PROVE Part'
    BY <1>5 DEF ScheduleLock, SchedulePhase, Held
  <1>6. ASSUME NEW a \in Actors, SchedulePush(a) PROVE Part'
    BY <1>6 DEF SchedulePush
  <1>7. ASSUME NEW a \in Actors, ScheduleMark(a) PROVE Part'
    BY <1>7 DEF ScheduleMark
  <1>8. ASSUME NEW a \in Actors, ScheduleDone(a) PROVE Part'
    BY <1>8 DEF ScheduleDone, SchedulePhase
  <1>9. ASSUME NEW a \in Actors, DeferCheck(a) PROVE Part'
    BY <1>9 DEF DeferCheck, CheckBlacklist
  <1>10. ASSUME NEW a \in Actors, DeferPush(a) PROVE Part'
    BY <1>10 DEF DeferPush, PushNextCycle, Held
  <1>11. ASSUME NEW a \in Actors, DetachNext(a) PROVE Part'
    BY <1>11 DEF DetachNext, Held, HasId
  <1>12. ASSUME NEW a \in Actors, DetachInit(a) PROVE Part'
    BY <1>12 DEF DetachInit, DetachFrom, Held, HasId
  <1>13. ASSUME NEW a \in Actors, DetachMain(a) PROVE Part'
    BY <1>13 DEF DetachMain, DetachFrom, Held, HasId
  <1>14. ASSUME NEW a \in Actors, DetachCleanUp(a) PROVE Part'
    BY <1>14 DEF DetachCleanUp, DetachFrom, Held, HasId, CallReturn
  <1>15. ASSUME NEW a \in Actors, NEW j \in Jobs, ScheduleNext(a, j)
         PROVE Part'
    BY <1>0a, <1>15
  <1>16. ASSUME NEW a \in Actors, NEW j \in Jobs, CallKick(a, j) PROVE Part'
    BY <1>16 DEF CallKick, MakesCall, InUserCode
  <1>17. ASSUME NEW a \in Actors, NEW id \in Ids, CallDetach(a, id) PROVE Part'
    BY <1>17, CallDetachDetaches DEF CallDetach, MakesCall, InUserCode
  <1>18. ASSUME InvokeCycle PROVE Part'
    BY <1>18 DEF InvokeCycle, ResetContinuationRequeueBlacklist
  <1>19. ASSUME DrainLock PROVE Part'
    BY <1>19 DEF DrainLock, Held
  <1>20. ASSUME DrainDone PROVE Part'
    BY <1>20 DEF DrainDone
  <1>21. ASSUME BeginCycle PROVE Part'
    <2>1. cycle' = cycle + 1 /\ cycle \in Nat
          /\ UNCHANGED <<jobCounters, kicked>>
      BY <1>21 DEF BeginCycle
    <2>2. \A j \in Jobs : \A c \in jobCounters[j] : c \in Int \X Phases
      BY DEF CounterIds
    <2>3. \A j \in Jobs : \A c \in jobCounters'[j] : c[1] <= cycle'
      BY <2>1, <2>2
    <2>4. \A j \in Jobs, p \in Phases : <<cycle', p>> \notin jobCounters'[j]
      BY <2>1
    <2> QED BY <2>1, <2>3, <2>4
  <1>22. ASSUME EnterPhase PROVE Part'
    BY <1>22 DEF EnterPhase, NextState, Held
  <1>23. ASSUME PeekQueue PROVE Part'
    BY <1>23 DEF PeekQueue, Held
  <1>24. ASSUME WaitForCompletion PROVE Part'
    BY <1>24 DEF WaitForCompletion
  <1>25. ASSUME EndCycle PROVE Part'
    BY <1>25 DEF EndCycle, ResetContinuationRequeueBlacklist
  <1>26. ASSUME NEW j \in Jobs, DrainNext(j) PROVE Part'
    BY <1>26 DEF DrainNext
  <1>27. ASSUME NEW f \in Fibers, RequeueCheck(f) PROVE Part'
    BY <1>27 DEF RequeueCheck, CheckBlacklist
  <1>28. ASSUME NEW f \in Fibers, RequeuePush(f) PROVE Part'
    BY <1>28 DEF RequeuePush, PushNextCycle, Held
  <1>29. ASSUME NEW f \in Fibers, FinishJob(f) PROVE Part'
    BY <1>29 DEF FinishJob
  <1>30. ASSUME NEW f \in Fibers, EndDispose(f) PROVE Part'
    BY <1>30 DEF EndDispose
  <1>31. ASSUME NEW f \in Fibers, EndRequeue(f) PROVE Part'
    BY <1>31 DEF EndRequeue
  <1>32. ASSUME NEW f \in Fibers, NEW j \in Jobs, RunJob(f, j) PROVE Part'
    BY <1>32 DEF RunJob
  <1>33. ASSUME NEW j \in TimerJobs, TimerElapses(j) PROVE Part'
    BY <1>33 DEF TimerElapses
  <1>34. ASSUME UNCHANGED vars PROVE Part'
    BY <1>34 DEF vars
  <1> QED
    BY <1>1, <1>2, <1>3, <1>4, <1>5, <1>6, <1>7, <1>8, <1>9, <1>10, <1>11,
       <1>12, <1>13, <1>14, <1>15, <1>16, <1>17, <1>18, <1>19, <1>20, <1>21,
       <1>22, <1>23, <1>24, <1>25, <1>26, <1>27, <1>28, <1>29, <1>30, <1>31,
       <1>32, <1>33, <1>34
    DEF Next, ManagerCall, UserCall, MainStep, FiberStep, Terminated

\* The initial states: no instance is anywhere.
LEMMA PlacesInit == Init => PlacesInv
  <1> SUFFICES ASSUME Init PROVE PlacesInv
    OBVIOUS
  <1>1. SyncInv
    BY SyncInit
  <1>2. \A j \in Jobs : Places(j) = {}
    BY ActorsAssumption DEF Init, Places, QueuesOf, CallsOf, LoopsOf, FibersOf
  <1>3. CurOK /\ PlacesOK
    BY <1>2, ActorsAssumption DEF Init, CurOK, PlacesOK, AtOnePlace
  <1>4. DetachOK /\ KickedOK /\ KeptOK
    BY ActorsAssumption DEF Init, DetachOK, KickedOK, KeptOK, DetachLabels,
       KickLabels, ScheduleLabels
  <1>5. CountedOK
    BY DEF Init, CountedOK
  <1>6. CountersAreExact
    <2>1. ASSUME NEW c \in CounterIds
          PROVE {j \in Jobs : c \in jobCounters[j]} = {}
      BY DEF Init
    <2> QED BY <2>1, FS_EmptySet DEF Init, CountersAreExact
  <1> QED BY <1>1, <1>3, <1>4, <1>5, <1>6 DEF PlacesInv

\* A step changes the counters only by counting one more job with the
\* counter, or one less, or by making counters nobody has.
LEMMA CountersStep ==
  ASSUME SyncInv, CountedOK, CountersAreExact, [Next]_vars
  PROVE  CountersAreExact'
  <1> USE ConstantsAssumption, ActorsAssumption DEF SyncInv, TypeOK
  <1> DEFINE Counted(c) == {j \in Jobs : c \in jobCounters[j]}
  <1>0. \A c \in CounterIds : IsFiniteSet(Counted(c))
    BY FS_Subset
  <1>1. CASE UNCHANGED <<counter, jobCounters>>
    BY <1>1 DEF CountersAreExact
  <1>2. ASSUME NEW a \in Actors, NEW j \in Jobs, ScheduleNext(a, j)
        PROVE CountersAreExact'
    <2> DEFINE c0 == PhaseCounter(SchedulePhase(a))
    <2>1. CASE AddCounter(j, c0) /\ j \notin AsyncJobs
      <3>1. SchedulePhase(a) \in Phases /\ j \in queue[SchedulePhase(a)]
        BY <1>2 DEF ScheduleNext, PcOK, SchedulePhase,
           Actors, ScheduleLabels, PhaseLabels
      <3>2. InCycle
        BY <1>2 DEF ScheduleNext, PcOK, StateLockOK, SchedulePhase, InCycle,
           Actors, ScheduleLabels, PhaseLabels, Phases
      <3>3. c0 \notin jobCounters[j]
        BY <3>1, <3>2 DEF CountedOK, PhaseCounter
      <3> SUFFICES ASSUME NEW c \in CounterIds
                   PROVE counter'[c] = Cardinality(Counted(c)')
        BY DEF CountersAreExact
      <3>4. CASE c = c0
        <4>1. Counted(c)' = Counted(c) \cup {j}
          BY <2>1, <3>4 DEF AddCounter
        <4>2. Cardinality(Counted(c) \cup {j}) = Cardinality(Counted(c)) + 1
          BY <1>0, <3>3, <3>4, FS_AddElement
        <4>3. counter'[c] = counter[c] + 1
          BY <2>1, <3>4 DEF AddCounter
        <4> QED BY <4>1, <4>2, <4>3 DEF CountersAreExact
      <3>5. CASE c # c0
        <4>1. Counted(c)' = Counted(c)
          BY <2>1, <3>5 DEF AddCounter
        <4>2. counter'[c] = counter[c]
          BY <2>1, <3>5 DEF AddCounter
        <4> QED BY <4>1, <4>2 DEF CountersAreExact
      <3> QED BY <3>4, <3>5
    <2> QED BY <1>1, <1>2, <2>1 DEF ScheduleNext
  <1>3. CASE BeginCycle
    <2> SUFFICES ASSUME NEW c \in CounterIds
                 PROVE counter'[c] = Cardinality(Counted(c)')
      BY DEF CountersAreExact
    <2>1. Counted(c)' = Counted(c)
      BY <1>3 DEF BeginCycle, jobVars
    <2>2. CASE c[1] = cycle + 1
      <3>1. cycle \in Nat
        OBVIOUS
      <3>2. Counted(c) = {}
        BY <2>2, <3>1 DEF CountedOK
      <3>3. counter'[c] = 0
        BY <1>3, <2>2 DEF BeginCycle
      <3> QED BY <2>1, <3>2, <3>3, FS_EmptySet
    <2>3. CASE c[1] # cycle + 1
      BY <1>3, <2>1, <2>3 DEF BeginCycle, CountersAreExact
    <2> QED BY <2>2, <2>3
  <1>4. ASSUME NEW f \in Fibers, FinishJob(f) PROVE CountersAreExact'
    <2> DEFINE j == running[f]
    <2>0. j \in Jobs
      BY <1>4 DEF FinishJob, PcOK
    <2> SUFFICES ASSUME NEW c \in CounterIds
                 PROVE counter'[c] = Cardinality(Counted(c)')
      BY DEF CountersAreExact
    <2>1. Counted(c)' = Counted(c) \ {j}
      BY <1>4, <2>0 DEF FinishJob
    <2>2. CASE c \in jobCounters[j]
      <3>1. Cardinality(Counted(c) \ {j}) = Cardinality(Counted(c)) - 1
        BY <1>0, <2>0, <2>2, FS_RemoveElement
      <3>2. counter'[c] = counter[c] - 1
        BY <1>4, <2>2 DEF FinishJob
      <3> QED BY <2>1, <3>1, <3>2 DEF CountersAreExact
    <2>3. CASE c \notin jobCounters[j]
      <3>1. Counted(c)' = Counted(c)
        BY <2>1, <2>3
      <3>2. counter'[c] = counter[c]
        BY <1>4, <2>3 DEF FinishJob
      <3> QED BY <3>1, <3>2 DEF CountersAreExact
    <2> QED BY <2>2, <2>3
  <1>5. ASSUME NEW a \in Actors, ManagerCall(a) PROVE CountersAreExact'
    BY <1>1, <1>2, <1>5
       DEF ManagerCall, KickUnban, KickPush, KickCheck, KickMark, ScheduleLock,
           SchedulePush, ScheduleMark, ScheduleDone, DeferCheck, DeferPush,
           CheckBlacklist, PushNextCycle, DetachNext, DetachInit, DetachMain,
           DetachCleanUp, DetachFrom, managerVars, jobVars
  <1>6. ASSUME NEW a \in Actors, UserCall(a) PROVE CountersAreExact'
    BY <1>1, <1>6 DEF UserCall, CallKick, CallDetach, managerVars, jobVars
  <1>7. CASE MainStep
    BY <1>1, <1>3, <1>7
       DEF MainStep, InvokeCycle, ResetContinuationRequeueBlacklist, DrainLock,
           DrainNext, DrainDone, EnterPhase, PeekQueue, WaitForCompletion,
           EndCycle, managerVars, jobVars
  <1>8. ASSUME NEW f \in Fibers, FiberStep(f) PROVE CountersAreExact'
    BY <1>1, <1>4, <1>8
       DEF FiberStep, RunJob, EndDispose, EndRequeue, RequeueCheck,
           RequeuePush,
           CheckBlacklist, PushNextCycle, managerVars, jobVars
  <1>9. ASSUME NEW j \in TimerJobs, TimerElapses(j) PROVE CountersAreExact'
    BY <1>1, <1>9 DEF TimerElapses, managerVars, jobVars
  <1> QED BY <1>1, <1>5, <1>6, <1>7, <1>8, <1>9
          DEF Next, Terminated, vars, managerVars, jobVars

\* Every part of the invariant is kept by a step that finds all of it.
LEMMA PlacesInvStep == PlacesInv /\ [Next]_vars => PlacesInv'
  <1> SUFFICES ASSUME PlacesInv, [Next]_vars PROVE PlacesInv'
    OBVIOUS
  <1>1. SyncInv'
    BY SyncStep DEF PlacesInv
  <1>2. CurOK' /\ DetachOK'
    BY RestStep DEF PlacesInv
  <1>3. KickedOK'
    BY KickedStep DEF PlacesInv
  <1>4. /\ \A j \in Jobs : \A s, t \in Places(j)' : s = t
        /\ \A j \in Jobs \ kicked' : Places(j)' = {}
        /\ KeptOK'
    BY PlacesOKStep DEF PlacesInv
  <1>5. AtOnePlace'
    BY <1>4 DEF AtOnePlace
  <1>6. CountedOK' /\ (\A j \in Jobs \ kicked' : jobCounters'[j] = {})
    BY <1>5, CountedStep DEF PlacesInv
  <1>7. PlacesOK'
    BY <1>4, <1>6 DEF PlacesOK, AtOnePlace
  <1>8. CountersAreExact'
    BY CountersStep DEF PlacesInv
  <1> QED BY <1>1, <1>2, <1>3, <1>4, <1>6, <1>7, <1>8 DEF PlacesInv

\* Where the instances are, with no assumption on who kicks jobs and when.
THEOREM PlacesInvariant == Spec => []PlacesInv
  <1> QED BY PlacesInit, PlacesInvStep, PTL DEF Spec

\* JobCounter: a counter is the number of jobs that still have to decrease it,
\* also when clients and asynchronous jobs kick jobs at any time.
THEOREM CountersExact == Spec => []CountersAreExact
  <1>1. PlacesInv => CountersAreExact
    BY DEF PlacesInv
  <1> QED BY <1>1, PlacesInvariant, PTL

\* A set without two different elements has at most one.
LEMMA AtMostOne ==
  ASSUME NEW S, \A s, t \in S : s = t
  PROVE  Cardinality(S) <= 1
  <1>1. CASE S = {}
    BY <1>1, FS_EmptySet
  <1>2. CASE S # {}
    <2>1. PICK s \in S : TRUE
      BY <1>2
    <2>2. S = {s}
      BY <2>1
    <2>3. Cardinality({s}) = 1
      BY FS_Singleton, Zenon
    <2> QED BY <2>2, <2>3
  <1> QED BY <1>1, <1>2

\* An instance that is in some place is pending or in execution.
LEMMA SomewhereIsKnown ==
  ASSUME SyncInv, CurOK, NEW j \in Jobs, Places(j) # {}
  PROVE  Pending(j) \/ InExecution(j)
  <1>1. CASE QueuesOf(j) # {} \/ j \in nextQueue
    BY <1>1 DEF QueuesOf, Pending
  <1>2. CASE j \in channel
    BY <1>2 DEF InExecution
  <1>3. CASE CallsOf(j) # {}
    BY <1>3 DEF CallsOf, Pending
  <1>4. CASE LoopsOf(j) # {}
    BY <1>4 DEF LoopsOf, Pending, InExecution, CurOK, LoopLabels
  <1>5. CASE FibersOf(j) # {}
    BY <1>5 DEF FibersOf, Pending, InExecution, InWorkload, SyncInv, PcOK
  <1>6. QueuesOf(j) # {} \/ j \in nextQueue \/ j \in channel \/ CallsOf(j) # {}
        \/ LoopsOf(j) # {} \/ FibersOf(j) # {}
    BY DEF Places
  <1> QED BY <1>1, <1>2, <1>3, <1>4, <1>5, <1>6

\* KickJob, the runner and the drain of the next-cycle queue pass every job on
\* exactly once, through four queues and a channel that no lock spans.
THEOREM JobsAreKept == Spec => []NeitherLostNorDoubled
  <1>1. ASSUME PlacesInv PROVE NeitherLostNorDoubled
    <2>1. OnePlace
      BY <1>1, AtMostOne DEF PlacesInv, PlacesOK, AtOnePlace, OnePlace
    <2>2. NoJobLost
      <3> SUFFICES ASSUME NEW j \in owned \ disposed, ~WasDetached(IdOf[j])
                   PROVE  Pending(j) \/ InExecution(j)
        BY DEF NoJobLost
      <3>1. j \in Jobs /\ j \in kicked
        BY <1>1 DEF PlacesInv, SyncInv, TypeOK, KickedOK
      <3>2. Places(j) # {}
        BY <1>1, <3>1 DEF PlacesInv, KeptOK
      <3> QED BY <1>1, <3>1, <3>2, SomewhereIsKnown DEF PlacesInv
    <2> QED BY <2>1, <2>2 DEF NeitherLostNorDoubled
  <1> QED BY <1>1, PlacesInvariant, PTL

-----------------------------------------------------------------------------
\* The initial states: no instance is anywhere, no counter is in use.
LEMMA BarrierInit == Init => BarrierInv
  <1> SUFFICES ASSUME Init PROVE BarrierInv
    OBVIOUS
  <1>1. SyncInv
    BY SyncInit
  <1>2. WaitsOnce /\ ExecutesOnce /\ FreshIsNowhere
    BY ActorsAssumption DEF Init, WaitsOnce, ExecutesOnce, FreshIsNowhere,
       InCall,
       Deferred, BeingPushed, Active
  <1>3. ActiveOK /\ AsyncUncounted /\ KickersOK
    BY ActorsAssumption, ConstantsAssumption, SMTT(40)
       DEF Init, ActiveOK,
       AsyncUncounted, KickersOK,
       Active, BeingPushed, KickLabels, ScheduleLabels, Actors
  <1>4. CountersAreExact
    <2>1. ASSUME NEW c \in CounterIds
          PROVE {j \in Jobs : c \in jobCounters[j]} = {}
      BY DEF Init
    <2> QED BY <2>1, FS_EmptySet DEF Init, CountersAreExact
  <1> QED BY <1>1, <1>2, <1>3, <1>4 DEF BarrierInv

\* Main leaves a phase only when the counter is zero; then no synchronous job
\* has a counter, and nobody is left who could add one.
LEMMA BarrierStep ==
  ASSUME OnlySyncJobsKick, BarrierInv, [Next]_vars
  PROVE  /\ WaitsOnce' /\ ExecutesOnce' /\ FreshIsNowhere'
         /\ ActiveOK' /\ AsyncUncounted' /\ KickersOK'
  <1> DEFINE Goal == /\ WaitsOnce /\ ExecutesOnce /\ FreshIsNowhere
                     /\ ActiveOK /\ AsyncUncounted /\ KickersOK
  <1>0. SyncInv'
    BY SyncStep DEF BarrierInv
  <1> USE ConstantsAssumption, ActorsAssumption, <1>0
      DEF BarrierInv, SyncInv, TypeOK, PcOK, StateLockOK, WaitsOnce,
          ExecutesOnce,
          FreshIsNowhere, ActiveOK, AsyncUncounted, KickersOK, InCall,
          Deferred,
          BeingPushed, Active, PhaseCounter, KickLabels,
          ScheduleLabels, MainLabels, FiberLabels, LoopLabels,
          PhaseLabels, Goto, managerVars, queues, jobVars, locals, locks,
          history, Actors
  <1>1. ASSUME NEW a \in Actors, KickUnban(a) PROVE Goal'
    BY <1>1 DEF KickUnban
  <1>2. ASSUME NEW a \in Actors, KickPush(a) PROVE Goal'
    BY <1>2 DEF KickPush, Held
  <1>3. ASSUME NEW a \in Actors, KickCheck(a) PROVE Goal'
    BY <1>3 DEF KickCheck, Held
  <1>4. ASSUME NEW a \in Actors, KickMark(a) PROVE Goal'
    BY <1>4 DEF KickMark, CallReturn
  <1>5. ASSUME NEW a \in Actors, ScheduleLock(a) PROVE Goal'
    BY <1>5 DEF ScheduleLock, SchedulePhase, Held
  <1>6. ASSUME NEW a \in Actors, SchedulePush(a) PROVE Goal'
    BY <1>6 DEF SchedulePush
  <1>7. ASSUME NEW a \in Actors, ScheduleMark(a) PROVE Goal'
    BY <1>7 DEF ScheduleMark
  <1>8. ASSUME NEW a \in Actors, ScheduleDone(a) PROVE Goal'
    BY <1>8 DEF ScheduleDone, SchedulePhase
  <1>9. ASSUME NEW a \in Actors, DeferCheck(a) PROVE Goal'
    BY <1>9 DEF DeferCheck, CheckBlacklist
  <1>10. ASSUME NEW a \in Actors, DeferPush(a) PROVE Goal'
    BY <1>10 DEF DeferPush, PushNextCycle, Held
  <1>11. ASSUME NEW a \in Actors, DetachNext(a) PROVE Goal'
    BY <1>11 DEF DetachNext, Held, SetDetached, HasId
  <1>12. ASSUME NEW a \in Actors, DetachInit(a) PROVE Goal'
    BY <1>12 DEF DetachInit, DetachFrom, Held, SetDetached, HasId
  <1>13. ASSUME NEW a \in Actors, DetachMain(a) PROVE Goal'
    BY <1>13 DEF DetachMain, DetachFrom, Held, SetDetached, HasId
  <1>14. ASSUME NEW a \in Actors, DetachCleanUp(a) PROVE Goal'
    BY <1>14 DEF DetachCleanUp, DetachFrom, Held, SetDetached, HasId,
       CallReturn
  <1>15. ASSUME NEW a \in Actors, NEW j \in Jobs, ScheduleNext(a, j) PROVE
  Goal'
    <2>1. WaitsOnce'
      BY <1>15 DEF ScheduleNext
    <2>5. ExecutesOnce'
      BY <1>15 DEF ScheduleNext
    <2>6. FreshIsNowhere'
      BY <1>15 DEF ScheduleNext, AddCounter
    <2>2. ActiveOK'
      BY <1>15 DEF ScheduleNext, SchedulePhase, AddCounter, IsReadyForExecution
    <2>3. AsyncUncounted'
      <3>1. CASE UNCHANGED jobCounters
        BY <3>1
      <3>2. CASE j \notin AsyncJobs /\ AddCounter(j,
      PhaseCounter(SchedulePhase(a)))
        BY <3>2 DEF AddCounter
      <3> QED BY <1>15, <3>1, <3>2 DEF ScheduleNext
    <2>4. KickersOK'
      BY <1>15 DEF ScheduleNext
    <2> QED BY <2>1, <2>2, <2>3, <2>4, <2>5, <2>6
  <1>16. ASSUME NEW a \in Actors, NEW j \in Jobs, CallKick(a, j) PROVE Goal'
    <2>1. WaitsOnce' /\ ExecutesOnce' /\ FreshIsNowhere'
      BY <1>16 DEF CallKick, MakesCall, InUserCode
    <2>2. ActiveOK' /\ AsyncUncounted'
      BY <1>16 DEF CallKick, MakesCall, InUserCode
    <2>3. Caller(a) \notin Clients \cup AsyncJobs
      <3>1. Caller(a) \in Callers
        BY <1>16 DEF CallKick, MakesCall, InUserCode, Caller, Callers
      <3>2. step[Caller(a)] + 1 \in 1 .. Len(Script[Caller(a)])
        BY <1>16, <3>1 DEF CallKick, MakesCall
      <3> QED BY <1>16, <3>2 DEF CallKick, MakesCall, OnlySyncJobsKick
    <2>4. KickersOK'
      BY <1>16, <2>3 DEF CallKick, Caller
    <2> QED BY <2>1, <2>2, <2>4
  <1>17. ASSUME NEW a \in Actors, NEW j \in Ids, CallDetach(a, j) PROVE Goal'
    BY <1>17 DEF CallDetach, MakesCall, InUserCode, Caller, Callers, HasId
  <1>18. ASSUME InvokeCycle PROVE Goal'
    BY <1>18 DEF InvokeCycle, ResetContinuationRequeueBlacklist
  <1>19. ASSUME DrainLock PROVE Goal'
    BY <1>19 DEF DrainLock, Held
  <1>20. ASSUME DrainDone PROVE Goal'
    BY <1>20 DEF DrainDone
  <1>21. ASSUME BeginCycle PROVE Goal'
    BY <1>21 DEF BeginCycle
  <1>22. ASSUME EnterPhase PROVE Goal'
    BY <1>22 DEF EnterPhase, NextState, Held
  <1>23. ASSUME PeekQueue PROVE Goal'
    BY <1>23 DEF PeekQueue, Held
  <1>24. ASSUME WaitForCompletion PROVE Goal'
    <2>1. PhaseCounter(managerState) \in CounterIds
      BY <1>24 DEF WaitForCompletion, CounterIds
    <2> DEFINE Counted == {j \in Jobs : PhaseCounter(managerState) \in
    jobCounters[j]}
    <2>2. IsFiniteSet(Counted) /\ Cardinality(Counted) = 0
      BY <1>24, <2>1, FS_Subset DEF WaitForCompletion, CountersAreExact
    <2>3. Counted = {}
      BY <2>2, FS_EmptySet
    <2>4. \A j \in Jobs \ AsyncJobs : ~Active(j)
      BY <2>3
    <2> QED BY <1>24, <2>4 DEF WaitForCompletion
  <1>25. ASSUME EndCycle PROVE Goal'
    BY <1>25 DEF EndCycle, ResetContinuationRequeueBlacklist
  <1>26. ASSUME NEW j \in Jobs, DrainNext(j) PROVE Goal'
    BY <1>26 DEF DrainNext
  <1>27. ASSUME NEW f \in Fibers, RequeueCheck(f) PROVE Goal'
    BY <1>27 DEF RequeueCheck, CheckBlacklist
  <1>28. ASSUME NEW f \in Fibers, RequeuePush(f) PROVE Goal'
    BY <1>28 DEF RequeuePush, PushNextCycle, Held
  <1>29. ASSUME NEW f \in Fibers, FinishJob(f) PROVE Goal'
    BY <1>29 DEF FinishJob
  <1>30. ASSUME NEW f \in Fibers, EndDispose(f) PROVE Goal'
    BY <1>30 DEF EndDispose
  <1>31. ASSUME NEW f \in Fibers, EndRequeue(f) PROVE Goal'
    BY <1>31 DEF EndRequeue
  <1>32. ASSUME NEW f \in Fibers, NEW j \in Jobs, RunJob(f, j) PROVE Goal'
    BY <1>32 DEF RunJob
  <1>33. ASSUME NEW j \in TimerJobs, TimerElapses(j) PROVE Goal'
    BY <1>33 DEF TimerElapses
  <1>34. ASSUME UNCHANGED vars PROVE Goal'
    BY <1>34 DEF vars
  <1> QED
    BY <1>1, <1>2, <1>3, <1>4, <1>5, <1>6, <1>7, <1>8, <1>9, <1>10, <1>11,
       <1>12, <1>13, <1>14, <1>15, <1>16, <1>17, <1>18, <1>19, <1>20, <1>21,
       <1>22, <1>23, <1>24, <1>25, <1>26, <1>27, <1>28, <1>29, <1>30, <1>31,
       <1>32, <1>33, <1>34
    DEF Next, ManagerCall, UserCall, MainStep, FiberStep, Terminated

\* The barrier invariant, when only Main and synchronous jobs kick jobs.
THEOREM BarrierInvariant ==
  ASSUME OnlySyncJobsKick
  PROVE  Spec => []BarrierInv
  <1>1. BarrierInv /\ PlacesInv' /\ [Next]_vars => BarrierInv'
    BY OnlySyncJobsKick, BarrierStep DEF BarrierInv, PlacesInv
  <1> QED BY <1>1, BarrierInit, PlacesInvariant, PTL DEF Spec

\* JobExecutionPhase.h: a synchronous job runs in its own phase only.
THEOREM PhasesAreIsolated ==
  ASSUME OnlySyncJobsKick
  PROVE  Spec => []PhaseIsolation
  <1>1. BarrierInv => PhaseIsolation
    BY DEF BarrierInv, ActiveOK, PhaseIsolation
  <1> QED BY <1>1, BarrierInvariant, OnlySyncJobsKick, PTL

\* JobManager.h: when InvokeCycleAndWait has returned, no synchronous job is
\* in execution or on its way there.
THEOREM BlockedUntilDone ==
  ASSUME OnlySyncJobsKick
  PROVE  Spec => []BlockedUntilSyncJobsDone
  <1>1. BarrierInv => BlockedUntilSyncJobsDone
    BY DEF BarrierInv, ActiveOK, BlockedUntilSyncJobsDone, InExecution, Sync,
       BeingPushed, ScheduleLabels
  <1> QED BY <1>1, BarrierInvariant, OnlySyncJobsKick, PTL

\* The manager implements the abstract barrier: a phase ends only when every
\* synchronous job passed to the execution in it has finished.
THEOREM Implementation ==
  ASSUME OnlySyncJobsKick
  PROVE  Spec => ImplementsBarrier
  <1> DEFINE active == {j \in Jobs \ AsyncJobs : Active(j)}
  <1>1. Init => Barrier!Init
    BY DEF Init, Barrier!Init, Active
  <1>2. ASSUME BarrierInv, [Next]_vars
        PROVE  [Barrier!Next]_(Barrier!barrierVars)
    <2> USE <1>2 DEF BarrierInv, SyncInv, TypeOK, managerVars, jobVars,
    Barrier!barrierVars
    <2>1. CASE UNCHANGED <<managerState, jobCounters>>
      BY <2>1 DEF Active
    <2>2. ASSUME NEW a \in Actors, NEW j \in Jobs, ScheduleNext(a, j)
          PROVE  Barrier!Next \/ UNCHANGED <<managerState, active>>
      <3>1. CASE UNCHANGED jobCounters
        BY <2>2, <3>1 DEF ScheduleNext, Active
      <3>2. CASE /\ j \notin AsyncJobs
                 /\ AddCounter(j, PhaseCounter(SchedulePhase(a)))
        <4>1. ~Active(j) /\ managerState = PhaseOf[j]
          <5>1. SchedulePhase(a) = managerState /\ managerState \in Phases
            BY <2>2, ConstantsAssumption, ActorsAssumption DEF ScheduleNext,
               SchedulePhase, StateLockOK, PcOK, Actors, PhaseLabels,
               ScheduleLabels
          <5> QED BY <2>2, <3>2, <5>1 DEF ScheduleNext, ActiveOK, WaitsOnce
        <4>2. active' = active \cup {j}
          BY <3>2 DEF AddCounter, Active
        <4>3. Barrier!Begin(j)
          BY <2>2, <3>2, <4>1, <4>2 DEF Barrier!Begin, ScheduleNext
        <4> QED BY <3>2, <4>3 DEF Barrier!Next
      <3> QED BY <2>2, <3>1, <3>2 DEF ScheduleNext
    <2>3. ASSUME NEW f \in Fibers, FinishJob(f)
          PROVE  Barrier!Next \/ UNCHANGED <<managerState, active>>
      <3> DEFINE j == running[f]
      <3>0. j \in Jobs
        BY <2>3 DEF FinishJob, PcOK
      <3>1. CASE j \in AsyncJobs
        BY <2>3, <3>0, <3>1 DEF FinishJob, Active, AsyncUncounted
      <3>2. CASE j \notin AsyncJobs
        <4>1. j \in active /\ active' = active \ {j}
          BY <2>3, <3>0, <3>2 DEF FinishJob, Active, ActiveOK
        <4>2. Barrier!End(j)
          BY <2>3, <4>1 DEF Barrier!End, FinishJob
        <4> QED BY <3>0, <3>2, <4>2 DEF Barrier!Next
      <3> QED BY <3>1, <3>2
    <2>4. ASSUME EnterPhase
          PROVE  Barrier!Next \/ UNCHANGED <<managerState, active>>
      <3>1. active = {} /\ active' = {}
        BY <2>4 DEF EnterPhase, ActiveOK, Active, ScheduleLabels
      <3>2. Barrier!Advance
        BY <2>4, <3>1 DEF EnterPhase, NextState, Phases, Barrier!Advance
      <3> QED BY <3>2 DEF Barrier!Next
    <2>5. ASSUME NEW a \in Actors, ManagerCall(a)
          PROVE  Barrier!Next \/ UNCHANGED <<managerState, active>>
      BY <2>1, <2>2, <2>5
         DEF ManagerCall, KickUnban, KickPush, KickCheck, KickMark,
             ScheduleLock,
             SchedulePush, ScheduleMark, ScheduleDone, DeferCheck, DeferPush,
             CheckBlacklist, PushNextCycle, DetachNext, DetachInit, DetachMain,
             DetachCleanUp, DetachFrom
    <2>6. ASSUME NEW a \in Actors, UserCall(a)
          PROVE  Barrier!Next \/ UNCHANGED <<managerState, active>>
      BY <2>1, <2>6 DEF UserCall, CallKick, CallDetach
    <2>7. ASSUME MainStep
          PROVE  Barrier!Next \/ UNCHANGED <<managerState, active>>
      BY <2>1, <2>4, <2>7
         DEF MainStep, InvokeCycle, ResetContinuationRequeueBlacklist,
             DrainLock,
             DrainNext, DrainDone, BeginCycle, PeekQueue, WaitForCompletion,
             EndCycle
    <2>8. ASSUME NEW f \in Fibers, FiberStep(f)
          PROVE  Barrier!Next \/ UNCHANGED <<managerState, active>>
      BY <2>1, <2>3, <2>8
         DEF FiberStep, RunJob, EndDispose, EndRequeue, RequeueCheck,
             RequeuePush,
             CheckBlacklist, PushNextCycle
    <2>9. ASSUME NEW j \in TimerJobs, TimerElapses(j)
          PROVE  Barrier!Next \/ UNCHANGED <<managerState, active>>
      BY <2>1, <2>9 DEF TimerElapses
    <2> QED BY <2>1, <2>5, <2>6, <2>7, <2>8, <2>9 DEF Next, Terminated, vars
  <1> QED BY <1>1, <1>2, BarrierInvariant, OnlySyncJobsKick, PTL
          DEF Spec, ImplementsBarrier, Barrier!Spec

\* A fiber that brings a job into the queue of the phase after Main has left
\* the scheduling loop schedules the queue before its own job finishes.
LEMMA LeftoverStep ==
  ASSUME BarrierInv, LeftoverOK, [Next]_vars
  PROVE  LeftoverOK'
  <1>0. "READY" \notin Phases
    BY DEF Phases
  <1> USE <1>0, ConstantsAssumption, ActorsAssumption
      DEF BarrierInv, SyncInv, TypeOK, PcOK, LeftoverOK, SchedulesPhase,
          KickLabels, ScheduleLabels, LoopLabels, DetachLabels, MainLabels,
          FiberLabels, Goto, managerVars, queues, jobVars, locals, locks,
          history, Actors
  <1>1. ASSUME NEW a \in Actors, KickUnban(a) PROVE LeftoverOK'
    BY <1>1 DEF KickUnban
  <1>2. ASSUME NEW a \in Actors, KickPush(a) PROVE LeftoverOK'
    <2>1. CASE a = Main
      BY <1>2, <2>1 DEF KickPush
    <2>2. CASE a # Main
      <3>1. a \in Fibers
        BY <1>2, <2>2 DEF KickPush, KickersOK
      <3>2. CASE PhaseOf[arg[a]] = managerState
        BY <1>2, <3>1, <3>2 DEF KickPush
      <3>3. CASE PhaseOf[arg[a]] # managerState
        BY <1>2, <3>1, <3>3 DEF KickPush
      <3> QED BY <3>2, <3>3
    <2> QED BY <2>1, <2>2
  <1>3. ASSUME NEW a \in Actors, KickCheck(a) PROVE LeftoverOK'
    <2>1. CASE managerState = PhaseOf[arg[a]]
      <3>1. pc' = [pc EXCEPT ![a] = "sched_lock"]
            /\ UNCHANGED <<queue, managerState, arg>>
        BY <1>3, <2>1 DEF KickCheck
      <3> QED BY <1>3, <3>1 DEF KickCheck
    <2>2. CASE managerState # PhaseOf[arg[a]]
      <3>1. pc' = [pc EXCEPT ![a] = "kick_mark"]
            /\ UNCHANGED <<queue, managerState, arg>>
        BY <1>3, <2>2 DEF KickCheck
      <3> QED BY <1>3, <2>2, <3>1 DEF KickCheck
    <2> QED BY <2>1, <2>2
  <1>4. ASSUME NEW a \in Actors, KickMark(a) PROVE LeftoverOK'
    BY <1>4 DEF KickMark, CallReturn
  <1>5. ASSUME NEW a \in Actors, ScheduleLock(a) PROVE LeftoverOK'
    BY <1>5 DEF ScheduleLock
  <1>6. ASSUME NEW a \in Actors, SchedulePush(a) PROVE LeftoverOK'
    BY <1>6 DEF SchedulePush
  <1>7. ASSUME NEW a \in Actors, ScheduleMark(a) PROVE LeftoverOK'
    BY <1>7 DEF ScheduleMark
  <1>8. ASSUME NEW a \in Actors, ScheduleDone(a) PROVE LeftoverOK'
    <2>1. UNCHANGED <<queue, managerState, arg>> /\ pc[a] = "sched_next"
          /\ queue[SchedulePhase(a)] = {}
          /\ \E l \in {"wait", "kick_mark"} : pc' = [pc EXCEPT ![a] = l]
      BY <1>8 DEF ScheduleDone
    <2>2. CASE SchedulePhase(a) = managerState
      BY <2>1, <2>2
    <2>3. CASE SchedulePhase(a) # managerState
      BY <2>1, <2>3 DEF SchedulePhase
    <2> QED BY <2>2, <2>3
  <1>9. ASSUME NEW a \in Actors, DeferCheck(a) PROVE LeftoverOK'
    BY <1>9 DEF DeferCheck, CheckBlacklist
  <1>10. ASSUME NEW a \in Actors, DeferPush(a) PROVE LeftoverOK'
    BY <1>10 DEF DeferPush, PushNextCycle
  <1>11. ASSUME NEW a \in Actors, DetachNext(a) PROVE LeftoverOK'
    BY <1>11 DEF DetachNext
  <1>12. ASSUME NEW a \in Actors, DetachInit(a) PROVE LeftoverOK'
    BY <1>12 DEF DetachInit, DetachFrom
  <1>13. ASSUME NEW a \in Actors, DetachMain(a) PROVE LeftoverOK'
    BY <1>13 DEF DetachMain, DetachFrom
  <1>14. ASSUME NEW a \in Actors, DetachCleanUp(a) PROVE LeftoverOK'
    BY <1>14 DEF DetachCleanUp, DetachFrom, CallReturn
  <1>15. ASSUME NEW a \in Actors, NEW j \in Jobs, ScheduleNext(a, j)
         PROVE LeftoverOK'
    <2>1. UNCHANGED <<managerState, arg>> /\ pc[a] = "sched_next"
          /\ queue' = [queue EXCEPT ![SchedulePhase(a)] = @ \ {j}]
          /\ \E l \in {"sched_push", "defer_check"} :
                 pc' = [pc EXCEPT ![a] = l]
      BY <1>15 DEF ScheduleNext
    <2> QED BY <2>1
  <1>16. ASSUME NEW a \in Actors, NEW j \in Jobs, CallKick(a, j)
         PROVE LeftoverOK'
    BY <1>16 DEF CallKick, MakesCall, InUserCode
  <1>17. ASSUME NEW a \in Actors, NEW id \in Ids, CallDetach(a, id)
         PROVE LeftoverOK'
    BY <1>17 DEF CallDetach, MakesCall, InUserCode
  <1>18. ASSUME InvokeCycle \/ EndCycle PROVE LeftoverOK'
    BY <1>18 DEF InvokeCycle, EndCycle, ResetContinuationRequeueBlacklist
  <1>19. ASSUME DrainLock \/ DrainDone \/ BeginCycle PROVE LeftoverOK'
    BY <1>19 DEF DrainLock, DrainDone, BeginCycle, PhaseLabels
  <1>20. ASSUME EnterPhase \/ PeekQueue \/ WaitForCompletion PROVE LeftoverOK'
    BY <1>20 DEF EnterPhase, PeekQueue, WaitForCompletion
  <1>26. ASSUME NEW j \in Jobs, DrainNext(j) PROVE LeftoverOK'
    BY <1>26 DEF DrainNext
  <1>27. ASSUME NEW f \in Fibers, RequeueCheck(f) PROVE LeftoverOK'
    BY <1>27 DEF RequeueCheck, CheckBlacklist
  <1>28. ASSUME NEW f \in Fibers, RequeuePush(f) PROVE LeftoverOK'
    BY <1>28 DEF RequeuePush, PushNextCycle
  <1>29. ASSUME NEW f \in Fibers, FinishJob(f) PROVE LeftoverOK'
    BY <1>29 DEF FinishJob
  <1>30. ASSUME NEW f \in Fibers, EndDispose(f) PROVE LeftoverOK'
    BY <1>30 DEF EndDispose
  <1>31. ASSUME NEW f \in Fibers, EndRequeue(f) PROVE LeftoverOK'
    BY <1>31 DEF EndRequeue
  <1>32. ASSUME NEW f \in Fibers, NEW j \in Jobs, RunJob(f, j)
         PROVE LeftoverOK'
    BY <1>32 DEF RunJob
  <1>33. ASSUME NEW j \in TimerJobs, TimerElapses(j) PROVE LeftoverOK'
    BY <1>33 DEF TimerElapses
  <1>34. ASSUME UNCHANGED vars PROVE LeftoverOK'
    BY <1>34 DEF vars
  <1> QED
    BY <1>1, <1>2, <1>3, <1>4, <1>5, <1>6, <1>7, <1>8, <1>9, <1>10, <1>11,
       <1>12, <1>13, <1>14, <1>15, <1>16, <1>17, <1>18, <1>19, <1>20,
       <1>26, <1>27, <1>28, <1>29, <1>30, <1>31,
       <1>32, <1>33, <1>34
    DEF Next, ManagerCall, UserCall, MainStep, FiberStep, Terminated

\* Nothing but the step of InvokeCycleAndWait to the next phase changes it.
LEMMA OnlyMainEntersPhases ==
  ASSUME [Next]_vars, managerState' # managerState
  PROVE  EnterPhase
  BY DEF Next, ManagerCall, KickUnban, KickPush, KickCheck, KickMark,
     ScheduleLock,
           SchedulePush, ScheduleMark, ScheduleDone, ScheduleNext,
           DeferCheck, DeferPush,
           CheckBlacklist, PushNextCycle, DetachNext, DetachInit, DetachMain,
           DetachCleanUp, DetachFrom, UserCall, CallKick, CallDetach,
           MainStep, InvokeCycle,
           ResetContinuationRequeueBlacklist, DrainLock,
           DrainNext, DrainDone, BeginCycle, PeekQueue, WaitForCompletion,
           EndCycle, FiberStep, RunJob, EndDispose, EndRequeue, RequeueCheck,
           RequeuePush, FinishJob, TimerElapses, Terminated, vars, managerVars

\* A phase ends with its queue empty when only Main and synchronous jobs kick
\* jobs: who brings one in late is itself counted by the phase.
THEOREM PhasesEndEmpty ==
  ASSUME OnlySyncJobsKick
  PROVE  Spec => PhaseLeavesNothingBehind
  <1> DEFINE Inv == BarrierInv /\ LeftoverOK
             Left == managerState' # managerState /\ managerState # "READY" =>
                         queue[managerState] = {}
  <1>1. Init => LeftoverOK
    BY DEF Init, LeftoverOK, Actors
  <1>2. BarrierInv /\ LeftoverOK /\ [Next]_vars => LeftoverOK'
    BY LeftoverStep
  <1>3. ASSUME BarrierInv, LeftoverOK, [Next]_vars PROVE [Left]_managerState
    <2> SUFFICES ASSUME managerState' # managerState, managerState # "READY"
                 PROVE  queue[managerState] = {}
      OBVIOUS
    <2>1. EnterPhase
      BY <1>3, OnlyMainEntersPhases
    <2>2. pc[Main] = "enter" /\ managerState \in Phases
      BY <1>3, <2>1 DEF EnterPhase, BarrierInv, SyncInv, TypeOK
    <2>3. \A j \in Jobs \ AsyncJobs : ~Active(j)
      BY <1>3, <2>2 DEF BarrierInv, ActiveOK, ScheduleLabels
    <2>4. \A f \in Fibers : pc[f] \notin KickLabels \cup ScheduleLabels
      BY <1>3, <2>3, ActorsAssumption
         DEF BarrierInv, KickersOK, ActiveOK, SyncInv, PcOK, KickLabels,
             ScheduleLabels
    <2> QED BY <1>3, <2>2, <2>4 DEF LeftoverOK, SchedulesPhase, KickLabels
  <1> QED BY <1>1, <1>2, <1>3, BarrierInvariant, OnlySyncJobsKick, PTL
          DEF Spec, PhaseLeavesNothingBehind

-----------------------------------------------------------------------------
(* A job that has been detached does not come back, under DetachDiscipline:*)
(* whoever detaches a job, or kicks another instance with its id, does not *)
(* run while the job does, unless it is the job itself that detaches its   *)
(* id.                                                                     *)

\* A call that is made is the next one of the script.
LEMMA CallIsInScript ==
  ASSUME SyncInv, NEW a \in Actors, NEW kind, NEW x, MakesCall(a, kind, x)
  PROVE  /\ Caller(a) \in Callers
         /\ step[Caller(a)] + 1 \in 1 .. Len(Script[Caller(a)])
         /\ Script[Caller(a)][step[Caller(a)] + 1] = <<kind, x>>
         /\ InScript(Caller(a), <<kind, x>>)
  <1>1. Caller(a) \in Callers
    BY DEF MakesCall, InUserCode, Caller, Callers, Actors, SyncInv, PcOK
  <1>2. step[Caller(a)] + 1 \in 1 .. Len(Script[Caller(a)])
        /\ Script[Caller(a)][step[Caller(a)] + 1] = <<kind, x>>
    BY <1>1, ConstantsAssumption DEF MakesCall, SyncInv, TypeOK
  <1> QED BY <1>1, <1>2 DEF InScript

\* Who is inside KickJob or DetachJob was led there by a script.
LEMMA CallsStep ==
  ASSUME DetachDiscipline, SyncInv, CallsOK, [Next]_vars
  PROVE  CallsOK'
  <1>0a. \A a \in Actors, id \in Ids : CallDetach(a, id) =>
           /\ a \notin Clients
           /\ a \in Fibers => running[a] \notin AsyncJobs
           /\ InScript(Caller(a), <<"detach", id>>)
    <2> SUFFICES ASSUME NEW a \in Actors, NEW id \in Ids, CallDetach(a, id)
                 PROVE  /\ a \notin Clients
                        /\ a \in Fibers => running[a] \notin AsyncJobs
                        /\ InScript(Caller(a), <<"detach", id>>)
      OBVIOUS
    <2>1. MakesCall(a, "detach", id)
      BY DEF CallDetach
    <2>2. Caller(a) \notin Clients \cup AsyncJobs
      <3>1. /\ step[Caller(a)] + 1 \in 1 .. Len(Script[Caller(a)])
            /\ Script[Caller(a)][step[Caller(a)] + 1] = <<"detach", id>>
        BY <2>1, CallIsInScript
      <3>2. Script[Caller(a)][step[Caller(a)] + 1][1] = "detach"
        BY <3>1
      <3> QED BY <3>1, <3>2 DEF DetachDiscipline
    <2>3. InScript(Caller(a), <<"detach", id>>)
      BY <2>1, CallIsInScript
    <2> QED BY <2>2, <2>3, ActorsAssumption DEF Caller
  <1>0b. \A f \in Fibers, j \in Jobs : CallKick(f, j) =>
             InScript(running[f], <<"kick", j>>)
    BY CallIsInScript DEF CallKick, Caller, Actors
  <1> USE ConstantsAssumption, ActorsAssumption
      DEF SyncInv, TypeOK, PcOK, CallsOK, Caller,
          KickLabels, ScheduleLabels, LoopLabels, DetachLabels, MainLabels,
          FiberLabels, Goto, managerVars, queues, jobVars, locals, locks,
          history, Actors
  <1>1. ASSUME NEW a \in Actors, KickUnban(a) PROVE CallsOK'
    BY <1>1 DEF KickUnban
  <1>2. ASSUME NEW a \in Actors, KickPush(a) PROVE CallsOK'
    BY <1>2 DEF KickPush, Held
  <1>3. ASSUME NEW a \in Actors, KickCheck(a) PROVE CallsOK'
    <2>1. pc[a] = "kick_check" /\ UNCHANGED <<arg, running>>
      BY <1>3 DEF KickCheck
    <2>2. \E l \in {"sched_lock", "kick_mark"} : pc' = [pc EXCEPT ![a] = l]
      BY <1>3 DEF KickCheck
    <2> QED BY <2>1, <2>2
  <1>4. ASSUME NEW a \in Actors, KickMark(a) PROVE CallsOK'
    BY <1>4 DEF KickMark, CallReturn
  <1>5. ASSUME NEW a \in Actors, ScheduleLock(a) PROVE CallsOK'
    BY <1>5 DEF ScheduleLock, SchedulePhase, Held
  <1>6. ASSUME NEW a \in Actors, SchedulePush(a) PROVE CallsOK'
    BY <1>6 DEF SchedulePush
  <1>7. ASSUME NEW a \in Actors, ScheduleMark(a) PROVE CallsOK'
    BY <1>7 DEF ScheduleMark
  <1>8. ASSUME NEW a \in Actors, ScheduleDone(a) PROVE CallsOK'
    BY <1>8 DEF ScheduleDone, SchedulePhase
  <1>9. ASSUME NEW a \in Actors, DeferCheck(a) PROVE CallsOK'
    BY <1>9 DEF DeferCheck, CheckBlacklist
  <1>10. ASSUME NEW a \in Actors, DeferPush(a) PROVE CallsOK'
    BY <1>10 DEF DeferPush, PushNextCycle, Held
  <1>11. ASSUME NEW a \in Actors, DetachNext(a) PROVE CallsOK'
    BY <1>11 DEF DetachNext, Held, HasId
  <1>12. ASSUME NEW a \in Actors, DetachInit(a) PROVE CallsOK'
    BY <1>12 DEF DetachInit, DetachFrom, Held, HasId
  <1>13. ASSUME NEW a \in Actors, DetachMain(a) PROVE CallsOK'
    BY <1>13 DEF DetachMain, DetachFrom, Held, HasId
  <1>14. ASSUME NEW a \in Actors, DetachCleanUp(a) PROVE CallsOK'
    BY <1>14 DEF DetachCleanUp, DetachFrom, Held, HasId, CallReturn
  <1>15. ASSUME NEW a \in Actors, NEW j \in Jobs, ScheduleNext(a, j)
         PROVE CallsOK'
    BY <1>15 DEF ScheduleNext
  <1>16. ASSUME NEW a \in Actors, NEW j \in Jobs, CallKick(a, j) PROVE CallsOK'
    <2>1. /\ arg' = [arg EXCEPT ![a] = j] /\ running' = running
          /\ pc' = [pc EXCEPT ![a] = "kick_unban"]
      BY <1>16 DEF CallKick
    <2>2. a \in Fibers => InScript(running[a], <<"kick", j>>)
      BY <1>16, <1>0b
    <2> QED BY <2>1, <2>2
  <1>17. ASSUME NEW a \in Actors, NEW id \in Ids, CallDetach(a, id)
         PROVE CallsOK'
    <2>1. /\ arg' = [arg EXCEPT ![a] = id] /\ running' = running
          /\ pc' = [pc EXCEPT ![a] = "detach_next"]
      BY <1>17 DEF CallDetach
    <2>2. /\ a \notin Clients
          /\ a \in Fibers => running[a] \notin AsyncJobs
          /\ InScript(Caller(a), <<"detach", id>>)
      BY <1>0a, <1>17
    <2> QED BY <2>1, <2>2, ZenonT(40)
  <1>18. ASSUME InvokeCycle \/ EndCycle PROVE CallsOK'
    BY <1>18 DEF InvokeCycle, EndCycle, ResetContinuationRequeueBlacklist
  <1>19. ASSUME DrainLock \/ DrainDone \/ BeginCycle PROVE CallsOK'
    BY <1>19 DEF DrainLock, DrainDone, BeginCycle, Held
  <1>20. ASSUME PeekQueue \/ WaitForCompletion PROVE CallsOK'
    BY <1>20 DEF PeekQueue, WaitForCompletion, Held
  <1>21. ASSUME EnterPhase PROVE CallsOK'
    BY <1>21 DEF EnterPhase, NextState, Held
  <1>22. ASSUME NEW j \in Jobs, DrainNext(j) PROVE CallsOK'
    BY <1>22 DEF DrainNext
  <1>23. ASSUME NEW f \in Fibers, RequeueCheck(f) PROVE CallsOK'
    BY <1>23 DEF RequeueCheck, CheckBlacklist
  <1>24. ASSUME NEW f \in Fibers, RequeuePush(f) PROVE CallsOK'
    BY <1>24 DEF RequeuePush, PushNextCycle, Held
  <1>25. ASSUME NEW f \in Fibers, FinishJob(f) PROVE CallsOK'
    BY <1>25 DEF FinishJob
  <1>26. ASSUME NEW f \in Fibers, EndDispose(f) PROVE CallsOK'
    BY <1>26 DEF EndDispose
  <1>27. ASSUME NEW f \in Fibers, EndRequeue(f) PROVE CallsOK'
    BY <1>27 DEF EndRequeue
  <1>28. ASSUME NEW f \in Fibers, NEW j \in Jobs, RunJob(f, j) PROVE CallsOK'
    BY <1>28 DEF RunJob
  <1>29. ASSUME NEW j \in TimerJobs, TimerElapses(j) PROVE CallsOK'
    BY <1>29 DEF TimerElapses
  <1>30. ASSUME UNCHANGED vars PROVE CallsOK'
    BY <1>30 DEF vars
  <1> QED
    BY <1>1, <1>2, <1>3, <1>4, <1>5, <1>6, <1>7, <1>8, <1>9, <1>10, <1>11,
       <1>12, <1>13, <1>14, <1>15, <1>16, <1>17, <1>18, <1>19, <1>20, <1>21,
       <1>22, <1>23, <1>24, <1>25, <1>26, <1>27, <1>28, <1>29, <1>30
    DEF Next, ManagerCall, UserCall, MainStep, FiberStep, Terminated

\* The loop takes jobs of the phase only, and the phase does not change while
\* anybody is in the loop.
LEMMA LoopPhaseStep ==
  ASSUME BarrierInv, LoopPhaseOK, [Next]_vars
  PROVE  LoopPhaseOK'
  <1> USE ConstantsAssumption, ActorsAssumption
      DEF BarrierInv, SyncInv, TypeOK, PcOK, StateLockOK, LoopPhaseOK,
          Deferred,
          KickLabels, ScheduleLabels, LoopLabels, DetachLabels, MainLabels,
          FiberLabels, Goto, managerVars, queues, jobVars, locals, locks,
          history, Actors
  <1>1. ASSUME NEW a \in Actors, KickUnban(a) PROVE LoopPhaseOK'
    BY <1>1 DEF KickUnban
  <1>2. ASSUME NEW a \in Actors, KickPush(a) PROVE LoopPhaseOK'
    BY <1>2 DEF KickPush, Held
  <1>3. ASSUME NEW a \in Actors, KickCheck(a) PROVE LoopPhaseOK'
    <2>1. pc[a] = "kick_check" /\ UNCHANGED <<cur, managerState>>
      BY <1>3 DEF KickCheck
    <2>2. \E l \in {"sched_lock", "kick_mark"} : pc' = [pc EXCEPT ![a] = l]
      BY <1>3 DEF KickCheck
    <2> QED BY <2>1, <2>2
  <1>4. ASSUME NEW a \in Actors, KickMark(a) PROVE LoopPhaseOK'
    BY <1>4 DEF KickMark, CallReturn
  <1>5. ASSUME NEW a \in Actors, ScheduleLock(a) PROVE LoopPhaseOK'
    BY <1>5 DEF ScheduleLock, SchedulePhase, Held
  <1>6. ASSUME NEW a \in Actors, SchedulePush(a) PROVE LoopPhaseOK'
    BY <1>6 DEF SchedulePush
  <1>7. ASSUME NEW a \in Actors, ScheduleMark(a) PROVE LoopPhaseOK'
    BY <1>7 DEF ScheduleMark
  <1>8. ASSUME NEW a \in Actors, ScheduleDone(a) PROVE LoopPhaseOK'
    BY <1>8 DEF ScheduleDone, SchedulePhase
  <1>9. ASSUME NEW a \in Actors, DeferCheck(a) PROVE LoopPhaseOK'
    BY <1>9 DEF DeferCheck, CheckBlacklist
  <1>10. ASSUME NEW a \in Actors, DeferPush(a) PROVE LoopPhaseOK'
    BY <1>10 DEF DeferPush, PushNextCycle, Held
  <1>11. ASSUME NEW a \in Actors, DetachNext(a) PROVE LoopPhaseOK'
    BY <1>11 DEF DetachNext, Held, HasId
  <1>12. ASSUME NEW a \in Actors, DetachInit(a) PROVE LoopPhaseOK'
    BY <1>12 DEF DetachInit, DetachFrom, Held, HasId
  <1>13. ASSUME NEW a \in Actors, DetachMain(a) PROVE LoopPhaseOK'
    BY <1>13 DEF DetachMain, DetachFrom, Held, HasId
  <1>14. ASSUME NEW a \in Actors, DetachCleanUp(a) PROVE LoopPhaseOK'
    BY <1>14 DEF DetachCleanUp, DetachFrom, Held, HasId, CallReturn
  <1>15. ASSUME NEW a \in Actors, NEW j \in Jobs, ScheduleNext(a, j)
         PROVE LoopPhaseOK'
    <2>1. UNCHANGED <<managerState, arg>> /\ pc[a] = "sched_next"
          /\ j \in queue[SchedulePhase(a)]
          /\ cur' = [cur EXCEPT ![a] = j]
          /\ \E l \in {"sched_push", "defer_check"} :
                 pc' = [pc EXCEPT ![a] = l]
      BY <1>15 DEF ScheduleNext
    <2>2. SchedulePhase(a) = managerState /\ managerState \in Phases
      BY <2>1 DEF SchedulePhase, PhaseLabels
    <2>3. j \notin AsyncJobs => PhaseOf[j] = managerState
      BY <2>1, <2>2 DEF WaitsOnce
    <2> QED BY <2>1, <2>3
  <1>16. ASSUME NEW a \in Actors, NEW j \in Jobs, CallKick(a, j)
         PROVE LoopPhaseOK'
    BY <1>16 DEF CallKick, MakesCall, InUserCode
  <1>17. ASSUME NEW a \in Actors, NEW id \in Ids, CallDetach(a, id)
         PROVE LoopPhaseOK'
    BY <1>17 DEF CallDetach, MakesCall, InUserCode
  <1>18. ASSUME InvokeCycle \/ EndCycle PROVE LoopPhaseOK'
    BY <1>18 DEF InvokeCycle, EndCycle, ResetContinuationRequeueBlacklist
  <1>19. ASSUME DrainLock \/ DrainDone \/ BeginCycle PROVE LoopPhaseOK'
    <2>1. UNCHANGED <<cur, managerState>>
          /\ \E l \in {"drain", "begin", "enter"} :
                 pc' = [pc EXCEPT ![Main] = l]
      BY <1>19 DEF DrainLock, DrainDone, BeginCycle
    <2> QED BY <2>1
  <1>20. ASSUME PeekQueue \/ WaitForCompletion PROVE LoopPhaseOK'
    BY <1>20, ZenonT(40) DEF PeekQueue, WaitForCompletion, Held
  <1>21. ASSUME EnterPhase PROVE LoopPhaseOK'
    BY <1>21 DEF EnterPhase, NextState, Held
  <1>22. ASSUME NEW j \in Jobs, DrainNext(j) PROVE LoopPhaseOK'
    BY <1>22 DEF DrainNext
  <1>23. ASSUME NEW f \in Fibers, RequeueCheck(f) PROVE LoopPhaseOK'
    BY <1>23 DEF RequeueCheck, CheckBlacklist
  <1>24. ASSUME NEW f \in Fibers, RequeuePush(f) PROVE LoopPhaseOK'
    BY <1>24 DEF RequeuePush, PushNextCycle, Held
  <1>25. ASSUME NEW f \in Fibers, FinishJob(f) PROVE LoopPhaseOK'
    BY <1>25 DEF FinishJob
  <1>26. ASSUME NEW f \in Fibers, EndDispose(f) PROVE LoopPhaseOK'
    BY <1>26 DEF EndDispose
  <1>27. ASSUME NEW f \in Fibers, EndRequeue(f) PROVE LoopPhaseOK'
    BY <1>27 DEF EndRequeue
  <1>28. ASSUME NEW f \in Fibers, NEW j \in Jobs, RunJob(f, j)
         PROVE LoopPhaseOK'
    BY <1>28 DEF RunJob
  <1>29. ASSUME NEW j \in TimerJobs, TimerElapses(j) PROVE LoopPhaseOK'
    BY <1>29 DEF TimerElapses
  <1>30. ASSUME UNCHANGED vars PROVE LoopPhaseOK'
    BY <1>30 DEF vars
  <1> QED
    BY <1>1, <1>2, <1>3, <1>4, <1>5, <1>6, <1>7, <1>8, <1>9, <1>10, <1>11,
       <1>12, <1>13, <1>14, <1>15, <1>16, <1>17, <1>18, <1>19, <1>20, <1>21,
       <1>22, <1>23, <1>24, <1>25, <1>26, <1>27, <1>28, <1>29, <1>30
    DEF Next, ManagerCall, UserCall, MainStep, FiberStep, Terminated

\* User code kicks an instance once; a second call for it is the drain's.
LEMMA KickedOnceStep ==
  ASSUME BarrierInv, PlacesInv, KickedOnceOK, [Next]_vars
  PROVE  KickedOnceOK'
  <1> USE ConstantsAssumption, ActorsAssumption
      DEF BarrierInv, PlacesInv, SyncInv, TypeOK, PcOK, KickedOnceOK,
          KickedOK, InCall,
          KickLabels, ScheduleLabels, LoopLabels, DetachLabels, MainLabels,
          FiberLabels, Goto, managerVars, queues, jobVars, locals, locks,
          history, Actors
  <1>1. ASSUME NEW a \in Actors, KickUnban(a) PROVE KickedOnceOK'
    BY <1>1 DEF KickUnban
  <1>2. ASSUME NEW a \in Actors, KickPush(a) PROVE KickedOnceOK'
    BY <1>2 DEF KickPush, Held
  <1>3. ASSUME NEW a \in Actors, KickCheck(a) PROVE KickedOnceOK'
    <2>1. pc[a] = "kick_check" /\ UNCHANGED <<arg, owned, nextLock>>
      BY <1>3 DEF KickCheck
    <2>2. \E l \in {"sched_lock", "kick_mark"} : pc' = [pc EXCEPT ![a] = l]
      BY <1>3 DEF KickCheck
    <2> QED BY <2>1, <2>2
  <1>4. ASSUME NEW a \in Actors, KickMark(a) PROVE KickedOnceOK'
    <2>1. /\ pc[a] = "kick_mark" /\ owned' = owned \cup {arg[a]}
          /\ arg' = [arg EXCEPT ![a] = None] /\ nextLock' = nextLock
          /\ \E l \in {"work", "drain", "idle"} : pc' = [pc EXCEPT ![a] = l]
      BY <1>4 DEF KickMark, CallReturn
    <2>2. \A x \in Actors : InCall(x, arg[a]) => x = Main /\ nextLock = Main
      <3> SUFFICES ASSUME NEW x \in Actors, InCall(x, arg[a])
                   PROVE  x = Main /\ nextLock = Main
        OBVIOUS
      <3>1. CASE x = Main /\ a # Main
        BY <2>1, <3>1 DEF KickersOK, ActiveOK
      <3>2. CASE x # Main /\ a = Main
        BY <2>1, <3>2 DEF KickersOK, ActiveOK
      <3>3. CASE x # Main /\ a # Main
        BY <2>1, <3>3 DEF KickersOK
      <3> QED BY <2>1, <3>1, <3>2, <3>3
    <2> QED BY <2>1, <2>2
  <1>5. ASSUME NEW a \in Actors, ScheduleLock(a) PROVE KickedOnceOK'
    BY <1>5 DEF ScheduleLock, SchedulePhase, Held
  <1>6. ASSUME NEW a \in Actors, SchedulePush(a) PROVE KickedOnceOK'
    BY <1>6 DEF SchedulePush
  <1>7. ASSUME NEW a \in Actors, ScheduleMark(a) PROVE KickedOnceOK'
    BY <1>7 DEF ScheduleMark
  <1>8. ASSUME NEW a \in Actors, ScheduleDone(a) PROVE KickedOnceOK'
    BY <1>8 DEF ScheduleDone, SchedulePhase
  <1>9. ASSUME NEW a \in Actors, DeferCheck(a) PROVE KickedOnceOK'
    BY <1>9 DEF DeferCheck, CheckBlacklist
  <1>10. ASSUME NEW a \in Actors, DeferPush(a) PROVE KickedOnceOK'
    BY <1>10 DEF DeferPush, PushNextCycle, Held
  <1>11. ASSUME NEW a \in Actors, DetachNext(a) PROVE KickedOnceOK'
    BY <1>11 DEF DetachNext, Held, HasId
  <1>12. ASSUME NEW a \in Actors, DetachInit(a) PROVE KickedOnceOK'
    BY <1>12 DEF DetachInit, DetachFrom, Held, HasId
  <1>13. ASSUME NEW a \in Actors, DetachMain(a) PROVE KickedOnceOK'
    BY <1>13 DEF DetachMain, DetachFrom, Held, HasId
  <1>14. ASSUME NEW a \in Actors, DetachCleanUp(a) PROVE KickedOnceOK'
    BY <1>14 DEF DetachCleanUp, DetachFrom, Held, HasId, CallReturn
  <1>15. ASSUME NEW a \in Actors, NEW j \in Jobs, ScheduleNext(a, j)
         PROVE KickedOnceOK'
    <2>1. UNCHANGED <<owned, arg, nextLock>> /\ pc[a] = "sched_next"
          /\ \E l \in {"sched_push", "defer_check"} :
                 pc' = [pc EXCEPT ![a] = l]
      BY <1>15 DEF ScheduleNext
    <2> QED BY <2>1
  <1>16. ASSUME NEW a \in Actors, NEW j \in Jobs, CallKick(a, j)
         PROVE KickedOnceOK'
    BY <1>16 DEF CallKick, MakesCall, InUserCode
  <1>17. ASSUME NEW a \in Actors, NEW id \in Ids, CallDetach(a, id)
         PROVE KickedOnceOK'
    BY <1>17 DEF CallDetach, MakesCall, InUserCode
  <1>18. ASSUME InvokeCycle \/ EndCycle PROVE KickedOnceOK'
    BY <1>18 DEF InvokeCycle, EndCycle, ResetContinuationRequeueBlacklist
  <1>19. ASSUME DrainLock \/ DrainDone \/ BeginCycle PROVE KickedOnceOK'
    BY <1>19 DEF DrainLock, DrainDone, BeginCycle, Held
  <1>20. ASSUME PeekQueue \/ WaitForCompletion PROVE KickedOnceOK'
    BY <1>20 DEF PeekQueue, WaitForCompletion, Held
  <1>21. ASSUME EnterPhase PROVE KickedOnceOK'
    BY <1>21 DEF EnterPhase, NextState, Held
  <1>22. ASSUME NEW j \in Jobs, DrainNext(j) PROVE KickedOnceOK'
    BY <1>22 DEF DrainNext
  <1>23. ASSUME NEW f \in Fibers, RequeueCheck(f) PROVE KickedOnceOK'
    BY <1>23 DEF RequeueCheck, CheckBlacklist
  <1>24. ASSUME NEW f \in Fibers, RequeuePush(f) PROVE KickedOnceOK'
    BY <1>24 DEF RequeuePush, PushNextCycle, Held
  <1>25. ASSUME NEW f \in Fibers, FinishJob(f) PROVE KickedOnceOK'
    BY <1>25 DEF FinishJob
  <1>26. ASSUME NEW f \in Fibers, EndDispose(f) PROVE KickedOnceOK'
    BY <1>26 DEF EndDispose
  <1>27. ASSUME NEW f \in Fibers, EndRequeue(f) PROVE KickedOnceOK'
    BY <1>27 DEF EndRequeue
  <1>28. ASSUME NEW f \in Fibers, NEW j \in Jobs, RunJob(f, j)
         PROVE KickedOnceOK'
    BY <1>28 DEF RunJob
  <1>29. ASSUME NEW j \in TimerJobs, TimerElapses(j) PROVE KickedOnceOK'
    BY <1>29 DEF TimerElapses
  <1>30. ASSUME UNCHANGED vars PROVE KickedOnceOK'
    BY <1>30 DEF vars
  <1> QED
    BY <1>1, <1>2, <1>3, <1>4, <1>5, <1>6, <1>7, <1>8, <1>9, <1>10, <1>11,
       <1>12, <1>13, <1>14, <1>15, <1>16, <1>17, <1>18, <1>19, <1>20, <1>21,
       <1>22, <1>23, <1>24, <1>25, <1>26, <1>27, <1>28, <1>29, <1>30
    DEF Next, ManagerCall, UserCall, MainStep, FiberStep, Terminated

\* A target is not in execution, unless it is the job that detaches itself;
\* meanwhile its phase is not executed, and the next cycle does not begin.
LEMMA TargetWaits ==
  ASSUME DetachDiscipline, DetachInv, NEW x \in Actors, NEW k \in target[x]
  PROVE  /\ k \in Jobs \ AsyncJobs
         /\ Active(k) => x \in Fibers /\ running[x] = k
         /\ (\E a \in Actors : pc[a] \in ScheduleLabels) =>
                PhaseOf[k] # managerState \/ Active(k)
         /\ pc[Main] # "drain"
  <1> USE DEF DetachInv, BarrierInv, SyncInv
  <1>1. /\ k \in Jobs /\ MayBeDetached(k)
        /\ pc[x] \in DetachLabels /\ arg[x] = IdOf[k]
    BY DEF TargetsOK, TypeOK, Stopped
  <1>2. k \notin AsyncJobs
    BY <1>1 DEF DetachDiscipline
  <1>3. CASE x = Main
    <2>1. pc[Main] \notin ScheduleLabels \cup {"wait", "drain"}
      BY <1>1, <1>3 DEF DetachLabels, ScheduleLabels
    <2>2. \A j \in Jobs \ AsyncJobs : ~Active(j)
      BY <2>1 DEF ActiveOK
    <2>3. \A a \in Actors : pc[a] \notin ScheduleLabels
      BY <2>1, <2>2, ActorsAssumption
         DEF KickersOK, ActiveOK, PcOK, ScheduleLabels, Actors
    <2> QED BY <1>1, <1>2, <2>1, <2>2, <2>3
  <1>4. CASE x # Main
    <2> DEFINE y == running[x]
    <2>1. x \in Fibers /\ y \in Jobs \ AsyncJobs
      BY <1>1, <1>4 DEF CallsOK, PcOK, DetachLabels, Actors
    <2>2. Active(y) /\ PhaseOf[y] = managerState
          /\ pc[Main] \in ScheduleLabels \cup {"wait"}
      BY <2>1 DEF ActiveOK
    <2>3. InScript(y, <<"detach", IdOf[k]>>)
      BY <1>1, <2>1 DEF CallsOK, Caller
    <2>4. k # y => PhaseOf[k] # managerState
      BY <1>1, <2>1, <2>2, <2>3 DEF DetachDiscipline
    <2>5. Active(k) => PhaseOf[k] = managerState
      BY <1>1, <1>2 DEF ActiveOK
    <2> QED BY <1>1, <1>2, <2>1, <2>2, <2>4, <2>5 DEF ScheduleLabels
  <1> QED BY <1>3, <1>4

\* No kick takes the id of a running instance off the blacklist.
LEMMA IdStaysBlacklisted ==
  ASSUME DetachDiscipline, DetachInv, NEW a \in Actors, KickUnban(a),
         NEW f \in Fibers, NEW k \in Jobs, running[f] = k, MayBeDetached(k)
  PROVE  IdOf[arg[a]] # IdOf[k]
  <1> USE DEF DetachInv, BarrierInv, SyncInv
  <1>1. k \in Jobs \ AsyncJobs
    BY DEF DetachDiscipline
  <1>2. Active(k) /\ PhaseOf[k] = managerState
        /\ pc[Main] \in ScheduleLabels \cup {"wait"}
    BY <1>1 DEF ActiveOK
  <1>3. pc[a] = "kick_unban" /\ arg[a] \in Jobs
    BY DEF KickUnban, PcOK, KickLabels
  <1>4. a \in Fibers /\ running[a] \in Jobs \ AsyncJobs
    BY <1>2, <1>3 DEF KickersOK, PcOK, KickLabels, ScheduleLabels, Actors
  <1>5. PhaseOf[running[a]] = managerState
    BY <1>4 DEF ActiveOK
  <1>6. arg[a] # k
    BY <1>1, <1>2, <1>3 DEF ActiveOK, InCall
  <1>7. InScript(running[a], <<"kick", arg[a]>>)
    BY <1>3, <1>4 DEF CallsOK, KickLabels
  <1> QED BY <1>2, <1>3, <1>4, <1>5, <1>6, <1>7 DEF DetachDiscipline

\* A target of DetachJob gets on no way to a queue, and what runs of it stays
\* on the blacklist until it has finished.
LEMMA StoppedStep ==
  ASSUME DetachDiscipline, DetachInv, [Next]_vars, NEW k \in Jobs, Stopped(k),
         k \in banned \/ \E x \in Actors : k \in target[x]
  PROVE  Stopped(k)'
  <1>0a. ~DrainNext(k)
    BY TargetWaits DEF DrainNext, DetachInv, DetachIsEffective
  <1>0b. \A a \in Actors, j \in Jobs : ScheduleNext(a, j) => j # k
    <2> SUFFICES ASSUME NEW a \in Actors, ScheduleNext(a, k) PROVE FALSE
      OBVIOUS
    <2>1. k \notin AsyncJobs
      BY DEF Stopped, DetachDiscipline
    <2>2. k \in queue[managerState] /\ managerState \in Phases
          /\ pc[a] = "sched_next"
      <3>1. pc[a] = "sched_next" /\ k \in queue[SchedulePhase(a)]
        BY DEF ScheduleNext
      <3>2. CASE a = Main
        BY <3>1, <3>2 DEF SchedulePhase, DetachInv, BarrierInv, SyncInv, PcOK,
           PhaseLabels, ScheduleLabels
      <3>3. CASE a # Main
        <4>1. arg[a] \in Jobs /\ managerState = PhaseOf[arg[a]]
          BY <3>1, <3>3 DEF DetachInv, BarrierInv, SyncInv, PcOK,
             StateLockOK, ScheduleLabels, Actors
        <4> QED BY <3>1, <3>3, <4>1, ConstantsAssumption DEF SchedulePhase
      <3> QED BY <3>2, <3>3
    <2>3. PhaseOf[k] = managerState /\ ~Active(k)
      BY <2>1, <2>2 DEF DetachInv, BarrierInv, WaitsOnce, ActiveOK
    <2> QED BY <2>2, <2>3, TargetWaits
            DEF DetachInv, DetachIsEffective, ScheduleLabels
  <1>0c. \A a \in Actors, f \in Fibers : KickUnban(a) /\ running[f] = k =>
             IdOf[arg[a]] # IdOf[k]
    BY IdStaysBlacklisted DEF Stopped
  <1>0d. InvokeCycle \/ EndCycle => \A f \in Fibers : running[f] # k
    <2> SUFFICES ASSUME InvokeCycle \/ EndCycle
                 PROVE \A f \in Fibers : running[f] # k
      OBVIOUS
    <2>1. k \notin AsyncJobs
      BY DEF Stopped, DetachDiscipline
    <2>2. pc[Main] \notin ScheduleLabels \cup {"wait"}
      BY DEF InvokeCycle, EndCycle, ScheduleLabels
    <2> QED BY <2>1, <2>2 DEF DetachInv, BarrierInv, ActiveOK
  <1>0e. SyncInv /\ k \in kicked
    BY DEF DetachInv, BarrierInv, Stopped
  <1> DEFINE Halted == /\ k \in kicked
                       /\ k \notin channel
                       /\ \A x \in Actors :
                              /\ ~InCall(x, k) /\ ~Deferred(x, k)
                              /\ ~BeingPushed(x, k)
                       /\ \A f \in Fibers : running[f] = k =>
                              \/ pc[f] = "finish"
                              \/ /\ pc[f] # "requeue_push"
                                 /\ IdOf[k] \in blacklist
  <1>0f. Halted
    BY DEF Stopped
  <1>0g. SUFFICES Halted'
    BY DEF Stopped, MayBeDetached
  <1> USE <1>0e, <1>0f, ConstantsAssumption, ActorsAssumption
      DEF SyncInv, TypeOK, PcOK, InCall, Deferred, BeingPushed,
          KickLabels, ScheduleLabels, LoopLabels, DetachLabels, MainLabels,
          FiberLabels, Goto, managerVars, queues, jobVars, locals, locks,
          history, Actors
  <1>1. ASSUME NEW a \in Actors, KickUnban(a) PROVE Halted'
    BY <1>1, <1>0c DEF KickUnban
  <1>2. ASSUME NEW a \in Actors, KickPush(a) PROVE Halted'
    BY <1>2 DEF KickPush, Held
  <1>3. ASSUME NEW a \in Actors, KickCheck(a) PROVE Halted'
    <2>1. pc[a] = "kick_check"
          /\ UNCHANGED <<arg, cur, channel, running, blacklist, kicked>>
      BY <1>3 DEF KickCheck
    <2>2. \E l \in {"sched_lock", "kick_mark"} : pc' = [pc EXCEPT ![a] = l]
      BY <1>3 DEF KickCheck
    <2> QED BY <2>1, <2>2
  <1>4. ASSUME NEW a \in Actors, KickMark(a) PROVE Halted'
    BY <1>4 DEF KickMark, CallReturn
  <1>5. ASSUME NEW a \in Actors, ScheduleLock(a) PROVE Halted'
    BY <1>5 DEF ScheduleLock, SchedulePhase, Held
  <1>6. ASSUME NEW a \in Actors, SchedulePush(a) PROVE Halted'
    BY <1>6 DEF SchedulePush
  <1>7. ASSUME NEW a \in Actors, ScheduleMark(a) PROVE Halted'
    BY <1>7 DEF ScheduleMark
  <1>8. ASSUME NEW a \in Actors, ScheduleDone(a) PROVE Halted'
    BY <1>8 DEF ScheduleDone, SchedulePhase
  <1>9. ASSUME NEW a \in Actors, DeferCheck(a) PROVE Halted'
    BY <1>9 DEF DeferCheck, CheckBlacklist
  <1>10. ASSUME NEW a \in Actors, DeferPush(a) PROVE Halted'
    BY <1>10 DEF DeferPush, PushNextCycle, Held
  <1>11. ASSUME NEW a \in Actors, DetachNext(a) PROVE Halted'
    BY <1>11 DEF DetachNext, Held, HasId
  <1>12. ASSUME NEW a \in Actors, DetachInit(a) PROVE Halted'
    BY <1>12 DEF DetachInit, DetachFrom, Held, HasId
  <1>13. ASSUME NEW a \in Actors, DetachMain(a) PROVE Halted'
    BY <1>13 DEF DetachMain, DetachFrom, Held, HasId
  <1>14. ASSUME NEW a \in Actors, DetachCleanUp(a) PROVE Halted'
    BY <1>14 DEF DetachCleanUp, DetachFrom, Held, HasId, CallReturn
  <1>15. ASSUME NEW a \in Actors, NEW j \in Jobs, ScheduleNext(a, j)
         PROVE Halted'
    <2>1. UNCHANGED <<channel, arg, running, blacklist, kicked>> /\ j # k
          /\ cur' = [cur EXCEPT ![a] = j] /\ pc[a] = "sched_next"
          /\ \E l \in {"sched_push", "defer_check"} :
                 pc' = [pc EXCEPT ![a] = l]
      BY <1>15, <1>0b DEF ScheduleNext
    <2> QED BY <2>1
  <1>16. ASSUME NEW a \in Actors, NEW j \in Jobs, CallKick(a, j) PROVE Halted'
    BY <1>16 DEF CallKick, MakesCall, InUserCode
  <1>17. ASSUME NEW a \in Actors, NEW id \in Ids, CallDetach(a, id)
         PROVE Halted'
    BY <1>17 DEF CallDetach, MakesCall, InUserCode
  <1>18. ASSUME InvokeCycle \/ EndCycle PROVE Halted'
    BY <1>18, <1>0d
    DEF InvokeCycle, EndCycle, ResetContinuationRequeueBlacklist
  <1>19. ASSUME DrainLock \/ DrainDone \/ BeginCycle PROVE Halted'
    BY <1>19 DEF DrainLock, DrainDone, BeginCycle, Held
  <1>20. ASSUME PeekQueue \/ WaitForCompletion PROVE Halted'
    BY <1>20 DEF PeekQueue, WaitForCompletion, Held
  <1>21. ASSUME EnterPhase PROVE Halted'
    BY <1>21 DEF EnterPhase, NextState, Held
  <1>22. ASSUME NEW j \in Jobs, DrainNext(j) PROVE Halted'
    BY <1>22, <1>0a DEF DrainNext
  <1>23. ASSUME NEW f \in Fibers, RequeueCheck(f) PROVE Halted'
    BY <1>23 DEF RequeueCheck, CheckBlacklist
  <1>24. ASSUME NEW f \in Fibers, RequeuePush(f) PROVE Halted'
    BY <1>24 DEF RequeuePush, PushNextCycle, Held
  <1>25. ASSUME NEW f \in Fibers, FinishJob(f) PROVE Halted'
    BY <1>25 DEF FinishJob
  <1>26. ASSUME NEW f \in Fibers, EndDispose(f) PROVE Halted'
    BY <1>26 DEF EndDispose
  <1>27. ASSUME NEW f \in Fibers, EndRequeue(f) PROVE Halted'
    BY <1>27 DEF EndRequeue
  <1>28. ASSUME NEW f \in Fibers, NEW j \in Jobs, RunJob(f, j) PROVE Halted'
    BY <1>28 DEF RunJob
  <1>29. ASSUME NEW j \in TimerJobs, TimerElapses(j) PROVE Halted'
    BY <1>29 DEF TimerElapses
  <1>30. ASSUME UNCHANGED vars PROVE Halted'
    BY <1>30 DEF vars
  <1> QED
    BY <1>1, <1>2, <1>3, <1>4, <1>5, <1>6, <1>7, <1>8, <1>9, <1>10, <1>11,
       <1>12, <1>13, <1>14, <1>15, <1>16, <1>17, <1>18, <1>19, <1>20, <1>21,
       <1>22, <1>23, <1>24, <1>25, <1>26, <1>27, <1>28, <1>29, <1>30
    DEF Next, ManagerCall, UserCall, MainStep, FiberStep, Terminated

\* When DetachJob takes down its targets, they are in no call and no loop.
LEMMA NewTargetsAreStopped ==
  ASSUME DetachDiscipline, DetachInv, [Next]_vars,
         NEW a \in Actors, NEW id \in Ids,
         CallDetach(a, id), NEW k \in owned \cap HasId(id)
  PROVE  Stopped(k)'
  <1> USE DEF DetachInv, BarrierInv, SyncInv
  <1>1. /\ MakesCall(a, "detach", id)
        /\ pc' = [pc EXCEPT ![a] = "detach_next"]
        /\ blacklist' = blacklist \cup {id}
        /\ UNCHANGED <<channel, cur, running, kicked>>
        /\ arg' = [arg EXCEPT ![a] = id]
    BY DEF CallDetach, Goto
  <1>2. k \in Jobs /\ IdOf[k] = id /\ k \in kicked
    BY DEF HasId, PlacesInv, KickedOK
  <1>3. /\ InScript(Caller(a), <<"detach", IdOf[k]>>)
        /\ MayBeDetached(k)
    BY <1>1, <1>2, CallIsInScript DEF MayBeDetached
  <1>4. k \notin AsyncJobs
    BY <1>2, <1>3 DEF DetachDiscipline
  <1>5. /\ a \notin Clients
        /\ a \in Fibers => running[a] \in Jobs \ AsyncJobs
    <2>1. CallsOK'
      BY CallsStep
    <2>2. pc'[a] \in DetachLabels
      BY <1>1 DEF TypeOK, DetachLabels
    <2>3. a \in Fibers => running[a] \in Jobs
      BY <1>1 DEF MakesCall, InUserCode, PcOK
    <2> QED BY <1>1, <2>1, <2>2, <2>3 DEF CallsOK
  <1>6. \A x \in Actors : InCall(x, k) =>
            x = Main /\ pc[Main] \in KickLabels /\ nextLock = Main
    BY DEF KickedOnceOK, InCall, KickLabels
  <1> DEFINE Halted == /\ k \notin channel
                       /\ \A x \in Actors :
                              /\ ~InCall(x, k) /\ ~Deferred(x, k)
                              /\ ~BeingPushed(x, k)
                       /\ \A f \in Fibers : running[f] = k => f = a
  <1>7. Halted
    <2>1. CASE a \in Fibers
      <3> DEFINE y == running[a]
      <3>1. Active(y) /\ PhaseOf[y] = managerState
            /\ pc[Main] \in ScheduleLabels \cup {"wait"}
        BY <1>5, <2>1 DEF ActiveOK
      <3>2. k # y => PhaseOf[k] # managerState
        BY <1>2, <1>3, <1>5, <2>1, <3>1 DEF DetachDiscipline, Caller
      <3>3. \A x \in Actors : ~InCall(x, k)
        BY <1>6, <3>1 DEF KickLabels, ScheduleLabels
      <3>4. CASE k = y
        BY <1>2, <1>4, <2>1, <3>1, <3>4 DEF ActiveOK, ExecutesOnce
      <3>5. CASE k # y
        <4>1. ~Active(k)
          BY <1>2, <1>4, <3>2, <3>5 DEF ActiveOK
        <4>2. \A x \in Actors : ~Deferred(x, k)
          BY <1>2, <1>4, <3>2, <3>5 DEF LoopPhaseOK
        <4> QED BY <1>2, <1>4, <3>3, <4>1, <4>2 DEF ActiveOK
      <3> QED BY <3>4, <3>5
    <2>2. CASE a = Main
      <3>1. pc[Main] = "idle"
        BY <1>1, <2>2, ActorsAssumption DEF MakesCall, InUserCode
      <3>2. \A j \in Jobs \ AsyncJobs : ~Active(j)
        BY <3>1 DEF ActiveOK, ScheduleLabels
      <3>3. \A x \in Actors : pc[x] \notin ScheduleLabels
        BY <3>1, <3>2, ActorsAssumption
           DEF KickersOK, ActiveOK, PcOK, ScheduleLabels, Actors
      <3> QED BY <1>2, <1>4, <1>6, <3>1, <3>2, <3>3
              DEF ActiveOK, Deferred, KickLabels, ScheduleLabels
    <2> QED BY <1>5, <2>1, <2>2 DEF Actors
  <1>8. /\ k \notin channel'
        /\ \A x \in Actors :
               ~InCall(x, k)' /\ ~Deferred(x, k)' /\ ~BeingPushed(x, k)'
    BY <1>1, <1>7 DEF TypeOK, InCall, Deferred, BeingPushed
  <1>9. \A f \in Fibers : running'[f] = k =>
            pc'[f] # "requeue_push" /\ IdOf[k] \in blacklist'
    BY <1>1, <1>2, <1>7 DEF TypeOK
  <1> QED BY <1>1, <1>2, <1>3, <1>8, <1>9 DEF Stopped, MayBeDetached

\* DetachJob cleans the queues one after another, and nothing brings a target
\* back into one it has cleaned.
LEMMA CleanedStep ==
  ASSUME DetachDiscipline, DetachInv, [Next]_vars
  PROVE  /\ \A x \in Actors : \A k \in target'[x] :
                /\ pc'[x] \in DetachLabels /\ IdOf[k] = arg'[x]
                /\ pc'[x] # "detach_next" => k \notin nextQueue'
                /\ pc'[x] \in {"detach_MAIN", "detach_CLEAN_UP"} =>
                       k \notin queue'["INIT"]
                /\ pc'[x] = "detach_CLEAN_UP" => k \notin queue'["MAIN"]
         /\ DetachIsEffective'
  <1> DEFINE Clean(x, k) ==
                /\ pc[x] \in DetachLabels /\ IdOf[k] = arg[x]
                /\ pc[x] # "detach_next" => k \notin nextQueue
                /\ pc[x] \in {"detach_MAIN", "detach_CLEAN_UP"} =>
                       k \notin queue["INIT"]
                /\ pc[x] = "detach_CLEAN_UP" => k \notin queue["MAIN"]
             Part == /\ \A x \in Actors : \A k \in target[x] : Clean(x, k)
                     /\ \A k \in banned : k \notin nextQueue
                                        /\ \A p \in Phases : k \notin queue[p]
  <1>0a. SyncInv /\ Part
    BY DEF DetachInv, BarrierInv, TargetsOK, DetachIsEffective
  <1>0b. ASSUME NEW k, k \in banned \/ \E x \in Actors : k \in target[x]
         PROVE  /\ \A x \in Actors : ~InCall(x, k) /\ ~Deferred(x, k)
                /\ \A f \in Fibers :
                       ~(running[f] = k /\ pc[f] = "requeue_push")
    BY <1>0b DEF DetachInv, TargetsOK, Stopped
  <1>0c. SUFFICES Part'
    BY DEF DetachIsEffective
  <1> USE <1>0a, ConstantsAssumption, ActorsAssumption
      DEF SyncInv, TypeOK, PcOK, InCall, Deferred,
          KickLabels, ScheduleLabels, LoopLabels, DetachLabels, MainLabels,
          FiberLabels, Goto, managerVars, queues, jobVars, locals, locks,
          history, Actors
  <1>1. ASSUME NEW a \in Actors, KickUnban(a) PROVE Part'
    BY <1>1 DEF KickUnban
  <1>2. ASSUME NEW a \in Actors, KickPush(a) PROVE Part'
    <2>1. /\ pc[a] = "kick_push"
          /\ UNCHANGED <<arg, target, banned, nextQueue>>
          /\ queue' = [queue EXCEPT ![PhaseOf[arg[a]]] = @ \cup {arg[a]}]
          /\ pc' = [pc EXCEPT ![a] = "kick_check"]
      BY <1>2 DEF KickPush
    <2>2. arg[a] \notin banned /\ \A x \in Actors : arg[a] \notin target[x]
      BY <1>0b, <2>1
    <2> QED BY <2>1, <2>2
  <1>3. ASSUME NEW a \in Actors, KickCheck(a) PROVE Part'
    <2>1. pc[a] = "kick_check"
          /\ UNCHANGED <<arg, nextQueue, queue, target, banned>>
      BY <1>3 DEF KickCheck
    <2>2. \E l \in {"sched_lock", "kick_mark"} : pc' = [pc EXCEPT ![a] = l]
      BY <1>3 DEF KickCheck
    <2> QED BY <2>1, <2>2
  <1>4. ASSUME NEW a \in Actors, KickMark(a) PROVE Part'
    BY <1>4 DEF KickMark, CallReturn
  <1>5. ASSUME NEW a \in Actors, ScheduleLock(a) PROVE Part'
    BY <1>5 DEF ScheduleLock, SchedulePhase, Held
  <1>6. ASSUME NEW a \in Actors, SchedulePush(a) PROVE Part'
    BY <1>6 DEF SchedulePush
  <1>7. ASSUME NEW a \in Actors, ScheduleMark(a) PROVE Part'
    BY <1>7 DEF ScheduleMark
  <1>8. ASSUME NEW a \in Actors, ScheduleDone(a) PROVE Part'
    BY <1>8 DEF ScheduleDone, SchedulePhase
  <1>9. ASSUME NEW a \in Actors, DeferCheck(a) PROVE Part'
    BY <1>9 DEF DeferCheck, CheckBlacklist
  <1>10. ASSUME NEW a \in Actors, DeferPush(a) PROVE Part'
    <2>1. /\ pc[a] = "defer_push" /\ UNCHANGED <<arg, target, banned>>
          /\ nextQueue' = nextQueue \cup {cur[a]} /\ queue' = queue
          /\ pc' = [pc EXCEPT ![a] = "sched_next"]
      BY <1>10 DEF DeferPush, PushNextCycle
    <2>2. cur[a] \notin banned /\ \A x \in Actors : cur[a] \notin target[x]
      BY <1>0b, <2>1
    <2> QED BY <2>1, <2>2
  <1>11. ASSUME NEW a \in Actors, DetachNext(a) PROVE Part'
    BY <1>11 DEF DetachNext, Held, HasId
  <1>12. ASSUME NEW a \in Actors, DetachInit(a) PROVE Part'
    <2>1. /\ pc[a] = "detach_INIT"
          /\ UNCHANGED <<arg, target, banned, nextQueue>>
          /\ queue' = [queue EXCEPT !["INIT"] = @ \ HasId(arg[a])]
          /\ pc' = [pc EXCEPT ![a] = "detach_MAIN"]
      BY <1>12 DEF DetachInit, DetachFrom
    <2>2. \A k \in Jobs : IdOf[k] = arg[a] => k \notin queue'["INIT"]
      BY <2>1 DEF HasId, Phases
    <2>3. \A p \in Phases : queue'[p] \subseteq queue[p]
      BY <2>1
    <2>4. ASSUME NEW x \in Actors, NEW k \in target'[x] PROVE Clean(x, k)'
      <3>1. CASE x = a
        BY <2>1, <2>2, <2>3, <2>4, <3>1
      <3>2. CASE x # a
        BY <2>1, <2>3, <2>4, <3>2
      <3> QED BY <3>1, <3>2
    <2>5. ASSUME NEW k \in banned'
          PROVE  k \notin nextQueue' /\ \A p \in Phases : k \notin queue'[p]
      BY <2>1, <2>3, <2>5
    <2> QED BY <2>4, <2>5
  <1>13. ASSUME NEW a \in Actors, DetachMain(a) PROVE Part'
    <2>1. /\ pc[a] = "detach_MAIN"
          /\ UNCHANGED <<arg, target, banned, nextQueue>>
          /\ queue' = [queue EXCEPT !["MAIN"] = @ \ HasId(arg[a])]
          /\ pc' = [pc EXCEPT ![a] = "detach_CLEAN_UP"]
      BY <1>13 DEF DetachMain, DetachFrom
    <2>2. \A k \in Jobs : IdOf[k] = arg[a] => k \notin queue'["MAIN"]
      BY <2>1 DEF HasId, Phases
    <2>3. \A p \in Phases : queue'[p] \subseteq queue[p]
      BY <2>1
    <2>4. ASSUME NEW x \in Actors, NEW k \in target'[x] PROVE Clean(x, k)'
      <3>1. CASE x = a
        BY <2>1, <2>2, <2>3, <2>4, <3>1
      <3>2. CASE x # a
        BY <2>1, <2>3, <2>4, <3>2
      <3> QED BY <3>1, <3>2
    <2>5. ASSUME NEW k \in banned'
          PROVE  k \notin nextQueue' /\ \A p \in Phases : k \notin queue'[p]
      BY <2>1, <2>3, <2>5
    <2> QED BY <2>4, <2>5
  <1>14. ASSUME NEW a \in Actors, DetachCleanUp(a) PROVE Part'
    <2>1. /\ pc[a] = "detach_CLEAN_UP" /\ nextQueue' = nextQueue
          /\ queue' = [queue EXCEPT !["CLEAN_UP"] = @ \ HasId(arg[a])]
          /\ arg' = [arg EXCEPT ![a] = None]
          /\ target' = [target EXCEPT ![a] = {}]
          /\ banned' = banned \cup target[a]
          /\ \E l \in {"work", "drain", "idle"} : pc' = [pc EXCEPT ![a] = l]
      BY <1>14 DEF DetachCleanUp, DetachFrom, CallReturn
    <2>2. \A k \in Jobs : IdOf[k] = arg[a] => k \notin queue'["CLEAN_UP"]
      BY <2>1 DEF HasId, Phases
    <2>3. \A p \in Phases : queue'[p] \subseteq queue[p]
      BY <2>1
    <2>4. ASSUME NEW x \in Actors, NEW k \in target'[x] PROVE Clean(x, k)'
      <3>1. x # a
        BY <2>1, <2>4
      <3> QED BY <2>1, <2>3, <2>4, <3>1
    <2>5. ASSUME NEW k \in banned'
          PROVE  k \notin nextQueue' /\ \A p \in Phases : k \notin queue'[p]
      <3>1. CASE k \in banned
        BY <2>1, <2>3, <3>1
      <3>2. CASE k \in target[a]
        BY <2>1, <2>2, <2>3, <3>2 DEF Phases
      <3> QED BY <2>1, <2>5, <3>1, <3>2
    <2> QED BY <2>4, <2>5
  <1>15. ASSUME NEW a \in Actors, NEW j \in Jobs, ScheduleNext(a, j)
         PROVE Part'
    <2>1. UNCHANGED <<arg, nextQueue, target, banned>> /\ pc[a] = "sched_next"
          /\ queue' = [queue EXCEPT ![SchedulePhase(a)] = @ \ {j}]
          /\ \E l \in {"sched_push", "defer_check"} :
                 pc' = [pc EXCEPT ![a] = l]
      BY <1>15 DEF ScheduleNext
    <2> QED BY <2>1
  <1>16. ASSUME NEW a \in Actors, NEW j \in Jobs, CallKick(a, j) PROVE Part'
    BY <1>16 DEF CallKick, MakesCall, InUserCode
  <1>17. ASSUME NEW a \in Actors, NEW id \in Ids, CallDetach(a, id) PROVE Part'
    <2>1. /\ UNCHANGED <<nextQueue, queue, banned>>
          /\ arg' = [arg EXCEPT ![a] = id]
          /\ target' = [target EXCEPT ![a] = owned \cap HasId(id)]
          /\ pc' = [pc EXCEPT ![a] = "detach_next"]
      BY <1>17 DEF CallDetach
    <2>2. ASSUME NEW x \in Actors, NEW k \in target'[x] PROVE Clean(x, k)'
      <3>1. CASE x = a
        BY <2>1, <2>2, <3>1 DEF HasId
      <3>2. CASE x # a
        BY <2>1, <2>2, <3>2
      <3> QED BY <3>1, <3>2
    <2>3. ASSUME NEW k \in banned'
          PROVE  k \notin nextQueue' /\ \A p \in Phases : k \notin queue'[p]
      BY <2>1, <2>3
    <2> QED BY <2>2, <2>3
  <1>18. ASSUME InvokeCycle \/ EndCycle PROVE Part'
    BY <1>18 DEF InvokeCycle, EndCycle, ResetContinuationRequeueBlacklist
  <1>19. ASSUME DrainLock \/ DrainDone \/ BeginCycle PROVE Part'
    BY <1>19 DEF DrainLock, DrainDone, BeginCycle, Held
  <1>20. ASSUME PeekQueue \/ WaitForCompletion PROVE Part'
    BY <1>20 DEF PeekQueue, WaitForCompletion, Held
  <1>21. ASSUME EnterPhase PROVE Part'
    BY <1>21 DEF EnterPhase, NextState, Held
  <1>22. ASSUME NEW j \in Jobs, DrainNext(j) PROVE Part'
    BY <1>22 DEF DrainNext
  <1>23. ASSUME NEW f \in Fibers, RequeueCheck(f) PROVE Part'
    BY <1>23 DEF RequeueCheck, CheckBlacklist
  <1>24. ASSUME NEW f \in Fibers, RequeuePush(f) PROVE Part'
    <2>1. /\ pc[f] = "requeue_push" /\ UNCHANGED <<arg, target, banned>>
          /\ nextQueue' = nextQueue \cup {running[f]} /\ queue' = queue
          /\ pc' = [pc EXCEPT ![f] = "finish"]
      BY <1>24 DEF RequeuePush, PushNextCycle
    <2>2. running[f] \notin banned
          /\ \A x \in Actors : running[f] \notin target[x]
      BY <1>0b, <2>1
    <2> QED BY <2>1, <2>2
  <1>25. ASSUME NEW f \in Fibers, FinishJob(f) PROVE Part'
    BY <1>25 DEF FinishJob
  <1>26. ASSUME NEW f \in Fibers, EndDispose(f) PROVE Part'
    BY <1>26 DEF EndDispose
  <1>27. ASSUME NEW f \in Fibers, EndRequeue(f) PROVE Part'
    BY <1>27 DEF EndRequeue
  <1>28. ASSUME NEW f \in Fibers, NEW j \in Jobs, RunJob(f, j) PROVE Part'
    BY <1>28 DEF RunJob
  <1>29. ASSUME NEW j \in TimerJobs, TimerElapses(j) PROVE Part'
    BY <1>29 DEF TimerElapses
  <1>30. ASSUME UNCHANGED vars PROVE Part'
    BY <1>30 DEF vars
  <1> QED
    BY <1>1, <1>2, <1>3, <1>4, <1>5, <1>6, <1>7, <1>8, <1>9, <1>10, <1>11,
       <1>12, <1>13, <1>14, <1>15, <1>16, <1>17, <1>18, <1>19, <1>20, <1>21,
       <1>22, <1>23, <1>24, <1>25, <1>26, <1>27, <1>28, <1>29, <1>30
    DEF Next, ManagerCall, UserCall, MainStep, FiberStep, Terminated

\* The initial states: nothing has been detached.
LEMMA DetachInvInit == Init => DetachInv
  <1> SUFFICES ASSUME Init PROVE DetachInv
    OBVIOUS
  <1>1. BarrierInv /\ PlacesInv
    BY BarrierInit, PlacesInit
  <1>2. CallsOK /\ KickedOnceOK /\ LoopPhaseOK
    BY ActorsAssumption DEF Init, CallsOK, KickedOnceOK, LoopPhaseOK, Deferred,
       KickLabels, ScheduleLabels, DetachLabels, Actors
  <1>3. TargetsOK /\ DetachIsEffective
    BY DEF Init, TargetsOK, DetachIsEffective
  <1> QED BY <1>1, <1>2, <1>3 DEF DetachInv

\* What becomes a target, or stays one until the call returns, is stopped.
LEMMA TargetsStep ==
  ASSUME DetachDiscipline, DetachInv, [Next]_vars
  PROVE  TargetsOK' /\ DetachIsEffective'
  <1>1. ASSUME NEW k, k \in banned \/ \E x \in Actors : k \in target[x]
        PROVE  Stopped(k)'
    <2>1. Stopped(k) /\ k \in Jobs
      BY <1>1 DEF DetachInv, BarrierInv, SyncInv, TypeOK, TargetsOK
    <2> QED BY <1>1, <2>1, StoppedStep
  <1>2. ASSUME NEW a \in Actors, NEW id \in Ids, CallDetach(a, id),
               NEW k \in owned \cap HasId(id)
        PROVE  Stopped(k)'
    BY <1>2, NewTargetsAreStopped
  <1>3. \/ UNCHANGED <<target, banned>>
        \/ \E a \in Actors : DetachCleanUp(a)
        \/ \E a \in Actors, id \in Ids : CallDetach(a, id)
    BY ZenonT(40) DEF Next, ManagerCall, KickUnban, KickPush, KickCheck, KickMark,
       ScheduleLock, SchedulePush, ScheduleMark, ScheduleDone, ScheduleNext,
       DeferCheck, DeferPush, CheckBlacklist, PushNextCycle, DetachNext,
       DetachInit, DetachMain, DetachFrom, UserCall, CallKick,
       MainStep, InvokeCycle, ResetContinuationRequeueBlacklist, DrainLock,
       DrainNext, DrainDone, BeginCycle, EnterPhase, PeekQueue,
       WaitForCompletion, EndCycle, FiberStep, RunJob, EndDispose, EndRequeue,
       RequeueCheck, RequeuePush, FinishJob, TimerElapses, Terminated, vars,
       history
  <1>4. /\ \A x \in Actors : \A k \in target'[x] : Stopped(k)'
        /\ \A k \in banned' : Stopped(k)'
    <2>1. CASE UNCHANGED <<target, banned>>
      BY <1>1, <2>1
    <2>2. ASSUME NEW a \in Actors, DetachCleanUp(a)
          PROVE  /\ \A x \in Actors : \A k \in target'[x] : Stopped(k)'
                 /\ \A k \in banned' : Stopped(k)'
      <3>1. banned' = banned \cup target[a]
            /\ target' = [target EXCEPT ![a] = {}]
        BY <2>2 DEF DetachCleanUp
      <3>2. target \in [Actors -> SUBSET Jobs]
        BY DEF DetachInv, BarrierInv, SyncInv, TypeOK
      <3> QED BY <1>1, <3>1, <3>2
    <2>3. ASSUME NEW a \in Actors, NEW id \in Ids, CallDetach(a, id)
          PROVE  /\ \A x \in Actors : \A k \in target'[x] : Stopped(k)'
                 /\ \A k \in banned' : Stopped(k)'
      <3>1. banned' = banned
            /\ target' = [target EXCEPT ![a] = owned \cap HasId(id)]
        BY <2>3 DEF CallDetach
      <3>2. target \in [Actors -> SUBSET Jobs]
        BY DEF DetachInv, BarrierInv, SyncInv, TypeOK
      <3> QED BY <1>1, <1>2, <2>3, <3>1, <3>2
    <2> QED BY <1>3, <2>1, <2>2, <2>3
  <1> QED BY <1>4, CleanedStep DEF TargetsOK

\* What DetachInv says of targets, calls and loops is an invariant, under
\* DetachDiscipline.
THEOREM DetachInvariant ==
  ASSUME DetachDiscipline
  PROVE  Spec => []DetachInv
  <1>0. OnlySyncJobsKick
    BY DetachDiscipline DEF DetachDiscipline
  <1>1. BarrierInv /\ PlacesInv /\ CallsOK /\ KickedOnceOK /\ LoopPhaseOK
        /\ TargetsOK /\ DetachIsEffective <=> DetachInv
    BY DEF DetachInv
  <1>2. ASSUME DetachInv, [Next]_vars
        PROVE  /\ CallsOK' /\ KickedOnceOK' /\ LoopPhaseOK' /\ TargetsOK'
               /\ DetachIsEffective'
    BY <1>2, DetachDiscipline, CallsStep, KickedOnceStep, LoopPhaseStep,
       TargetsStep DEF DetachInv, BarrierInv
  <1> QED BY <1>0, <1>1, <1>2, DetachInvInit, BarrierInvariant,
             PlacesInvariant, PTL DEF Spec

\* JobManager.h, DetachJob: once it has returned, no instance it was about is
\* in a queue, whatever the threads and fibers do, under DetachDiscipline.
THEOREM DetachedIsGone ==
  ASSUME DetachDiscipline
  PROVE  Spec => []DetachIsEffective
  <1>1. Spec => []DetachInv
    BY DetachDiscipline, DetachInvariant
  <1>2. DetachInv => DetachIsEffective
    BY DEF DetachInv
  <1> QED BY <1>1, <1>2, PTL

\* A fiber gets a job from the channel only.
LEMMA StartsRunning ==
  ASSUME SyncInv, [Next]_vars, NEW f \in Fibers, NEW k \in Jobs,
         running'[f] = k, running[f] # k
  PROVE  k \in channel
  <1>1. \/ UNCHANGED running
        \/ \E g \in Fibers : running' = [running EXCEPT ![g] = None]
        \/ \E g \in Fibers, j \in channel : running' = [running EXCEPT ![g] = j]
    BY DEF Next, ManagerCall, KickUnban, KickPush, KickCheck, KickMark,
       ScheduleLock, SchedulePush, ScheduleMark, ScheduleDone, ScheduleNext,
       DeferCheck, DeferPush, CheckBlacklist, PushNextCycle, DetachNext,
       DetachInit, DetachMain, DetachFrom, DetachCleanUp, UserCall, CallKick,
       CallDetach, MainStep, InvokeCycle, ResetContinuationRequeueBlacklist,
       DrainLock, DrainNext, DrainDone, BeginCycle, EnterPhase, PeekQueue,
       WaitForCompletion, EndCycle, FiberStep, RunJob, EndDispose, EndRequeue,
       RequeueCheck, RequeuePush, FinishJob, TimerElapses, Terminated, vars,
       locals
  <1> QED BY <1>1, ActorsAssumption DEF SyncInv, TypeOK

\* An instance that is gone does not come back.
LEMMA GoneStays ==
  ASSUME DetachInv, [Next]_vars, NEW k, Gone(k)
  PROVE  Gone(k)'
  <1>1. k \in Jobs /\ Stopped(k)
    BY DEF Gone, DetachInv, BarrierInv, SyncInv, TypeOK, TargetsOK
  <1>2. banned \subseteq banned'
    BY DEF Next, ManagerCall, KickUnban, KickPush, KickCheck, KickMark,
       ScheduleLock, SchedulePush, ScheduleMark, ScheduleDone, ScheduleNext,
       DeferCheck, DeferPush, CheckBlacklist, PushNextCycle, DetachNext,
       DetachInit, DetachMain, DetachFrom, DetachCleanUp, UserCall, CallKick,
       CallDetach, MainStep, InvokeCycle, ResetContinuationRequeueBlacklist,
       DrainLock, DrainNext, DrainDone, BeginCycle, EnterPhase, PeekQueue,
       WaitForCompletion, EndCycle, FiberStep, RunJob, EndDispose, EndRequeue,
       RequeueCheck, RequeuePush, FinishJob, TimerElapses, Terminated, vars,
       history
  <1>3. ASSUME NEW f \in Fibers, running'[f] = k
        PROVE  FALSE
    <2>1. running[f] # k
      BY DEF Gone
    <2>2. k \in channel
      BY <1>1, <1>3, <2>1, StartsRunning DEF DetachInv, BarrierInv
    <2> QED BY <1>1, <2>2 DEF Stopped
  <1> QED BY <1>2, <1>3 DEF Gone

\* Who kicks a new instance of the id does not run while an old one does.
LEMMA ReplacedIsGone ==
  ASSUME DetachDiscipline, DetachInv, NEW x \in Actors, NEW k \in Jobs,
         CallKick(x, k), NEW j \in banned, j # k, IdOf[j] = IdOf[k]
  PROVE  Gone(j)
  <1>1. j \in Jobs /\ MayBeDetached(j) /\ j \notin AsyncJobs
    BY DEF DetachInv, BarrierInv, SyncInv, TypeOK, TargetsOK, Stopped, DetachDiscipline
  <1>2. ASSUME NEW f \in Fibers, running[f] = j
        PROVE  FALSE
    <2>1. managerState = PhaseOf[j] /\ pc[Main] \in ScheduleLabels \cup {"wait"}
      BY <1>1, <1>2 DEF DetachInv, BarrierInv, ActiveOK
    <2>2. /\ Caller(x) \in Callers /\ InScript(Caller(x), <<"kick", k>>)
      BY CallIsInScript DEF CallKick, DetachInv, BarrierInv
    <2>3. x # Main
      BY <2>1, ActorsAssumption
         DEF CallKick, MakesCall, InUserCode, ScheduleLabels
    <2>4. Caller(x) \notin Clients \cup AsyncJobs
      <3>1. PICK n \in 1 .. Len(Script[Caller(x)]) :
                Script[Caller(x)][n] = <<"kick", k>>
        BY <2>2 DEF InScript
      <3>2. Script[Caller(x)][n][1] = "kick"
        BY <3>1
      <3> QED BY <3>2 DEF DetachDiscipline, OnlySyncJobsKick
    <2>5. x \in Fibers /\ running[x] \in Jobs \ AsyncJobs /\ Caller(x) = running[x]
      <3>1. x \in Fibers
        BY <2>3, <2>4 DEF Caller, Actors
      <3>2. running[x] \in Jobs
        BY <3>1 DEF CallKick, MakesCall, InUserCode, DetachInv, BarrierInv, SyncInv, PcOK
      <3> QED BY <2>4, <3>1, <3>2 DEF Caller
    <2>6. managerState = PhaseOf[running[x]]
      BY <2>5 DEF DetachInv, BarrierInv, ActiveOK
    <2>7. PhaseOf[running[x]] # PhaseOf[j]
      BY <1>1, <2>2, <2>5 DEF DetachDiscipline
    <2> QED BY <2>1, <2>6, <2>7
  <1> QED BY <1>2 DEF Gone

\* Every step keeps ReplacedOK, if it is a replacement of a detached instance
\* whenever it kicks one.
LEMMA ReplacedStep ==
  ASSUME DetachDiscipline, DetachInv, ReplacedOK, [Next]_vars,
         [ReplacesDetached]_vars
  PROVE  ReplacedOK'
  <1> SUFFICES ASSUME NEW j \in kicked', NEW k \in kicked', j # k,
                      IdOf[j] = IdOf[k]
               PROVE  Gone(j)' \/ Gone(k)'
    BY DEF ReplacedOK, Gone
  <1>1. CASE j \in kicked /\ k \in kicked
    BY <1>1, GoneStays DEF ReplacedOK
  <1>2. ASSUME NEW x \in Actors, NEW new \in Jobs, CallKick(x, new),
               NEW old \in kicked, old # new, IdOf[old] = IdOf[new]
        PROVE  Gone(old)'
    <2>1. vars' # vars
      BY <1>2 DEF CallKick, vars, history
    <2>2. old \in banned
      BY <1>2, <2>1 DEF ReplacesDetached
    <2> QED BY <1>2, <2>2, ReplacedIsGone, GoneStays
  <1>3. CASE ~(j \in kicked /\ k \in kicked)
    <2>1. \E x \in Actors, new \in Jobs : CallKick(x, new)
      <3>1. kicked' \subseteq Jobs
        BY SyncStep DEF DetachInv, BarrierInv, SyncInv, TypeOK
      <3> QED BY <1>3, <3>1, KickedGrows
    <2>2. PICK x \in Actors, new \in Jobs : CallKick(x, new)
      BY <2>1
    <2>3. kicked' = kicked \cup {new} /\ new \notin kicked
      BY <2>2 DEF CallKick
    <2> QED BY <1>2, <1>3, <2>2, <2>3
  <1> QED BY <1>1, <1>3

\* Core::EnableRenderingJob: of two instances of an id at most one is pending
\* or in execution, if each is kicked after DetachJob has returned for those
\* before it, and under DetachDiscipline.
THEOREM OneInstanceAtATime ==
  ASSUME DetachDiscipline
  PROVE  Spec /\ [][ReplacesDetached]_vars => []OneInstancePerId
  <1>1. Init => ReplacedOK
    BY DEF Init, ReplacedOK
  <1>2. ASSUME DetachInv, ReplacedOK
        PROVE  OneInstancePerId
    <2> SUFFICES ASSUME NEW j, Gone(j)
                 PROVE  ~(Pending(j) \/ InExecution(j))
      BY <1>2 DEF OneInstancePerId, ReplacedOK, DetachInv, PlacesInv, KickedOK
    <2>1. Stopped(j)
      BY <1>2 DEF Gone, DetachInv, TargetsOK
    <2>2. j \notin nextQueue /\ \A p \in Phases : j \notin queue[p]
      BY <1>2 DEF Gone, DetachInv, DetachIsEffective
    <2> QED BY <2>1, <2>2 DEF Gone, Stopped, Pending, InExecution, InCall, Deferred,
                              BeingPushed
  <1>3. Spec => []DetachInv
    BY DetachDiscipline, DetachInvariant
  <1>4. DetachInv /\ ReplacedOK /\ [Next]_vars /\ [ReplacesDetached]_vars => ReplacedOK'
    BY DetachDiscipline, ReplacedStep
  <1> QED BY <1>1, <1>2, <1>3, <1>4, PTL DEF Spec

=============================================================================
