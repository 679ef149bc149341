-------------------------- MODULE SpinLock_proofs --------------------------
(***************************************************************************)
(* Theorems about SpinLock: for any number of threads and fibers the lock  *)
(* is exclusive, its assertions hold, and it is a recursive mutex.  One    *)
(* invariant carries all of them: the flag has at most one owner, whether  *)
(* or not the owner has been stored yet, and what is stored agrees with    *)
(* what the actors have acquired.                                          *)
(***************************************************************************)
EXTENDS SpinLock, TLAPS

\* The invariant holds initially.
LEMMA LockInvInit ==
    ASSUME ActorsOK, Init
    PROVE  LockInv
<1>1. TypeOK
  BY DEF Init, TypeOK
<1>2. FlagHasOneOwner
  BY DEF Init, FlagHasOneOwner, HasFlag
<1>3. InfoFollowsHeld
  BY DEF ActorsOK, Init, InfoFollowsHeld
<1>4. GuardedSteps
  BY DEF ActorsOK, Init, GuardedSteps
<1> QED BY <1>1, <1>2, <1>3, <1>4 DEF LockInv

\* Every step of the lock preserves the invariant.
LEMMA LockInvStep ==
    ASSUME ActorsOK, LockInv, [Next]_vars
    PROVE  LockInv'
<1> USE DEF ActorsOK, LockInv, TypeOK, FlagHasOneOwner, HasFlag, InfoFollowsHeld,
            GuardedSteps, Goto, InfoIsFree
<1>1. ASSUME NEW a \in Actors, Lock(a) PROVE LockInv'
  BY <1>1 DEF Lock
<1>2. ASSUME NEW a \in Actors, CheckOwner(a) PROVE LockInv'
  <2>1. CASE info = a
    <3>1. /\ count' = count + 1
          /\ held' = [held EXCEPT ![a] = held[a] + 1]
          /\ spc' = [spc EXCEPT ![a] = "idle"]
          /\ UNCHANGED <<flag, infoLock, info>>
          /\ spc[a] = "try" /\ held[a] > 0 /\ infoLock = None
      BY <1>2, <2>1 DEF CheckOwner
    <3>2. TypeOK' /\ InfoFollowsHeld'
      BY <2>1, <3>1
    <3>3. FlagHasOneOwner' /\ GuardedSteps'
      BY <2>1, <3>1
    <3> QED BY <3>2, <3>3
  <2>2. CASE info # a
    BY <1>2, <2>2 DEF CheckOwner
  <2> QED BY <2>1, <2>2
<1>3. ASSUME NEW a \in Actors, TestAndSet(a) PROVE LockInv'
  <2>1. CASE flag
    BY <1>3, <2>1 DEF TestAndSet
  <2>2. CASE ~flag
    <3>1. \A b \in Actors : ~HasFlag(b)
      BY <2>2
    <3>2. held[a] = 0
      BY <1>3, <3>1 DEF TestAndSet
    <3> QED BY <1>3, <2>2, <3>1, <3>2 DEF TestAndSet
  <2> QED BY <2>1, <2>2
<1>4. ASSUME NEW a \in Actors, StoreOwner(a) PROVE LockInv'
  <2>1. HasFlag(a) /\ flag /\ held[a] = 0 /\ infoLock = None
    BY <1>4 DEF StoreOwner
  <2>2. \A b \in Actors : held[b] = 0
    BY <2>1
  <2>3. TypeOK' /\ FlagHasOneOwner' /\ GuardedSteps'
    BY <1>4, <2>1, <2>2 DEF StoreOwner
  <2>4. InfoFollowsHeld'
    BY <1>4, <2>1, <2>2 DEF StoreOwner
  <2> QED BY <2>3, <2>4
<1>5. ASSUME NEW a \in Actors, Unlock(a) PROVE LockInv'
  <2>1. info = a /\ count = held[a] /\ spc[a] = "idle" /\ infoLock = None
    BY <1>5 DEF Unlock
  <2>2. CASE count > 1
    <3>1. /\ count' = count - 1
          /\ held' = [held EXCEPT ![a] = held[a] - 1]
          /\ UNCHANGED <<flag, infoLock, info, spc>>
      BY <1>5, <2>1, <2>2 DEF Unlock
    <3>2. TypeOK' /\ InfoFollowsHeld'
      BY <2>1, <2>2, <3>1
    <3>3. FlagHasOneOwner' /\ GuardedSteps'
      BY <2>1, <2>2, <3>1
    <3> QED BY <3>2, <3>3
  <2>3. CASE ~(count > 1)
    BY <1>5, <2>1, <2>3 DEF Unlock
  <2> QED BY <2>2, <2>3
<1>6. ASSUME NEW a \in Actors, ClearFlag(a) PROVE LockInv'
  <2>1. infoLock = a /\ held[a] = 1 /\ info = a
    BY <1>6 DEF ClearFlag
  <2>2. \A b \in Actors \ {a} : held[b] = 0 /\ spc[b] # "store"
    <3>1. HasFlag(a)
      BY <1>6, <2>1 DEF ClearFlag
    <3> QED BY <2>1, <3>1
  <2>3. TypeOK' /\ InfoFollowsHeld'
    BY <1>6 DEF ClearFlag
  <2>4. FlagHasOneOwner'
    BY <1>6, <2>2 DEF ClearFlag
  <2>5. GuardedSteps'
    BY <1>6, <2>1 DEF ClearFlag
  <2> QED BY <2>3, <2>4, <2>5
<1>7. ASSUME NEW a \in Actors, ResetOwner(a) PROVE LockInv'
  <2>1. infoLock = a /\ held[a] = 1 /\ info = a
    BY <1>7 DEF ResetOwner
  <2>2. \A b \in Actors \ {a} : held[b] = 0
    BY <2>1
  <2>3. TypeOK'
    BY <1>7 DEF ResetOwner
  <2>4. FlagHasOneOwner'
    BY <1>7, <2>1 DEF ResetOwner
  <2>5. InfoFollowsHeld'
    BY <1>7, <2>1, <2>2 DEF ResetOwner
  <2>6. ASSUME NEW b \in Actors
        PROVE  /\ spc'[b] \notin {"clear", "reset"} /\ infoLock' # b
               /\ spc'[b] = "store" => held'[b] = 0
               /\ spc'[b] = "take" => info' # b
    <3>1. CASE b = a
      <4>1. spc'[b] = "idle" /\ infoLock' = None
        BY <1>7, <3>1 DEF ResetOwner
      <4> QED BY <4>1
    <3>2. CASE b # a
      <4>1. spc'[b] = spc[b] /\ held'[b] = held[b]
        BY <1>7, <3>2 DEF ResetOwner
      <4>2. spc[b] \notin {"clear", "reset"}
        BY <2>1, <3>2
      <4>3. infoLock' = None /\ info' = None
        BY <1>7 DEF ResetOwner
      <4> QED BY <4>1, <4>2, <4>3
    <3> QED BY <3>1, <3>2
  <2> QED BY <2>3, <2>4, <2>5, <2>6 DEF GuardedSteps
<1>8. CASE UNCHANGED vars
  BY <1>8 DEF vars
<1> QED BY <1>1, <1>2, <1>3, <1>4, <1>5, <1>6, <1>7, <1>8 DEF Next

\* Every behaviour keeps the invariant.
LEMMA LockInvAlways ==
    ASSUME ActorsOK
    PROVE  Spec => []LockInv
<1>1. Init => LockInv
  BY LockInvInit
<1>2. LockInv /\ [Next]_vars => LockInv'
  BY LockInvStep
<1> QED BY <1>1, <1>2, PTL DEF Spec

\* Every variable keeps its type, for any number of actors and any depth.
THEOREM LockTypes ==
    ASSUME ActorsOK
    PROVE  Spec => []TypeOK
<1>1. LockInv => TypeOK
  BY DEF LockInv
<1> QED BY <1>1, LockInvAlways, PTL

\* Two actors are never inside the lock.
THEOREM LockIsExclusive ==
    ASSUME ActorsOK
    PROVE  Spec => []MutualExclusion
<1>1. LockInv => MutualExclusion
  BY DEF LockInv, InfoFollowsHeld, MutualExclusion
<1> QED BY <1>1, LockInvAlways, PTL

\* The assertions in try_lock and unlock hold.
THEOREM AssertionsHold ==
    ASSUME ActorsOK
    PROVE  Spec => []OwnerHasTheFlag
<1>1. LockInv => OwnerHasTheFlag
  BY DEF ActorsOK, LockInv, TypeOK, OwnerHasTheFlag, InfoIsFree, InfoFollowsHeld,
            FlagHasOneOwner, GuardedSteps, HasFlag
<1> QED BY <1>1, LockInvAlways, PTL

\* Every step of the lock is a step of a recursive mutex, or none of its.
LEMMA StepImplements ==
    ASSUME ActorsOK, LockInv, [Next]_vars
    PROVE  [Abstract!Next]_(Abstract!vars)
<1> USE DEF ActorsOK, LockInv, TypeOK, InfoFollowsHeld, GuardedSteps, Abstract!vars,
            InfoIsFree
<1>1. ASSUME NEW a \in Actors, CheckOwner(a)
      PROVE  Abstract!AcquireAgain(a) \/ UNCHANGED <<info, count>>
  BY <1>1 DEF CheckOwner, Abstract!AcquireAgain
<1>2. ASSUME NEW a \in Actors, StoreOwner(a) PROVE Abstract!Acquire(a)
  <2>1. \A b \in Actors : held[b] = 0
    BY <1>2 DEF StoreOwner, FlagHasOneOwner, HasFlag
  <2>2. info = None
    BY <2>1
  <2> QED BY <1>2, <2>2 DEF StoreOwner, Abstract!Acquire
<1>3. ASSUME NEW a \in Actors, Unlock(a)
      PROVE  Abstract!ReleaseOnce(a) \/ UNCHANGED <<info, count>>
  BY <1>3 DEF Unlock, Abstract!ReleaseOnce
<1>4. ASSUME NEW a \in Actors, ResetOwner(a) PROVE Abstract!Release(a)
  BY <1>4 DEF ResetOwner, Abstract!Release
<1>5. ASSUME NEW a \in Actors, Lock(a) \/ TestAndSet(a) \/ ClearFlag(a)
      PROVE  UNCHANGED <<info, count>>
  BY <1>5 DEF Lock, TestAndSet, ClearFlag
<1>6. CASE UNCHANGED vars
  BY <1>6 DEF vars
<1> QED BY <1>1, <1>2, <1>3, <1>4, <1>5, <1>6 DEF Next, Abstract!Next

\* The fiber lock is a recursive mutex: whoever is stored as its owner is its
\* only holder, and has it as deep as the count says.
THEOREM LockImplementation ==
    ASSUME ActorsOK
    PROVE  Spec => ImplementsRecursiveMutex
<1>1. Init => Abstract!Init
  BY DEF Init, Abstract!Init
<1>2. LockInv /\ [Next]_vars => [Abstract!Next]_(Abstract!vars)
  BY StepImplements
<1> QED
  BY <1>1, <1>2, LockInvAlways, PTL
     DEF Spec, ImplementsRecursiveMutex, Abstract!Spec
=============================================================================
