------------------------------ MODULE SpinLock ------------------------------
(***************************************************************************)
(* BoostFiberRecursiveSpinLock: an atomic flag says that the lock is       *)
(* taken; who took it, and how often, is kept beside the flag and guarded  *)
(* by a plain spin lock.  Taking the flag and saying who has it are two    *)
(* steps, and so are giving the flag back and forgetting the owner.  An    *)
(* actor is a fiber, or a thread that runs its main fiber: the identity    *)
(* that GetCurrentOwnerInfo returns.                                       *)
(***************************************************************************)
EXTENDS Naturals

CONSTANTS
    Actors,
    None,
    MaxDepth    \* bound: how often one actor acquires the lock recursively

\* What the theorems assume of the constants.
ActorsOK == None \notin Actors /\ MaxDepth \in Nat

VARIABLES
    flag,       \* m_lock
    infoLock,   \* owner of m_owner_info_mutex, where it is held between steps
    info,       \* m_owner_info
    count,      \* m_owner_lock_count
    spc,        \* where an actor is
    held        \* how often an actor has acquired the lock and not released it

vars == <<flag, infoLock, info, count, spc, held>>

Init ==
    /\ flag = FALSE
    /\ infoLock = None
    /\ info = None
    /\ count = 0
    /\ spc = [a \in Actors |-> "idle"]
    /\ held = [a \in Actors |-> 0]

Goto(a, label) == spc' = [spc EXCEPT ![a] = label]
InfoIsFree == infoLock = None

-----------------------------------------------------------------------------
(* lock and try_lock *)

Lock(a) ==
    /\ spc[a] = "idle" /\ held[a] < MaxDepth
    /\ Goto(a, "try")
    /\ UNCHANGED <<flag, infoLock, info, count, held>>

\* Mutant: whoever finds the lock owned counts as the owner.
CheckAnyOwner(a) ==
    /\ spc[a] = "try" /\ InfoIsFree
    /\ IF info # None
       THEN /\ count' = count + 1
            /\ held' = [held EXCEPT ![a] = @ + 1]
            /\ Goto(a, "idle")
       ELSE /\ Goto(a, "take")
            /\ UNCHANGED <<count, held>>
    /\ UNCHANGED <<flag, infoLock, info>>

\* The owner only counts.
CheckOwner(a) ==
    /\ spc[a] = "try" /\ InfoIsFree
    /\ IF info = a
       THEN /\ count' = count + 1
            /\ held' = [held EXCEPT ![a] = @ + 1]
            /\ Goto(a, "idle")
       ELSE /\ Goto(a, "take")
            /\ UNCHANGED <<count, held>>
    /\ UNCHANGED <<flag, infoLock, info>>

\* test_and_set.  lock yields and tries again; try_lock returns false.
TestAndSet(a) ==
    /\ spc[a] = "take"
    /\ flag' = TRUE
    /\ IF flag THEN \E label \in {"try", "idle"} : Goto(a, label)
               ELSE Goto(a, "store")
    /\ UNCHANGED <<infoLock, info, count, held>>

StoreOwner(a) ==
    /\ spc[a] = "store" /\ InfoIsFree
    /\ info' = a
    /\ count' = 1
    /\ held' = [held EXCEPT ![a] = 1]
    /\ Goto(a, "idle")
    /\ UNCHANGED <<flag, infoLock>>

-----------------------------------------------------------------------------
(* unlock: only whoever has locked unlocks *)

Unlock(a) ==
    /\ spc[a] = "idle" /\ held[a] > 0 /\ InfoIsFree
    /\ IF info = a /\ count > 1
       THEN /\ count' = count - 1
            /\ held' = [held EXCEPT ![a] = @ - 1]
            /\ UNCHANGED <<infoLock, spc>>
       ELSE /\ infoLock' = a
            /\ Goto(a, "clear")
            /\ UNCHANGED <<count, held>>
    /\ UNCHANGED <<flag, info>>

\* Mutant: m_owner_info_mutex is not held from here on.
ClearFlagUnguarded(a) ==
    /\ spc[a] = "clear"
    /\ flag' = FALSE
    /\ infoLock' = None
    /\ Goto(a, "reset")
    /\ UNCHANGED <<info, count, held>>

ClearFlag(a) ==
    /\ spc[a] = "clear"
    /\ flag' = FALSE
    /\ Goto(a, "reset")
    /\ UNCHANGED <<infoLock, info, count, held>>

ResetOwner(a) ==
    /\ spc[a] = "reset"
    /\ info' = None
    /\ count' = 0
    /\ infoLock' = None
    /\ held' = [held EXCEPT ![a] = 0]
    /\ Goto(a, "idle")
    /\ UNCHANGED flag

Next == \E a \in Actors :
            \/ Lock(a) \/ CheckOwner(a) \/ TestAndSet(a) \/ StoreOwner(a)
            \/ Unlock(a) \/ ClearFlag(a) \/ ResetOwner(a)

Spec == Init /\ [][Next]_vars

-----------------------------------------------------------------------------
(* Properties *)

\* Every variable has its type.
TypeOK ==
    /\ flag \in BOOLEAN
    /\ infoLock \in Actors \cup {None}
    /\ info \in Actors \cup {None}
    /\ count \in Nat
    /\ spc \in [Actors -> {"idle", "try", "take", "store", "clear", "reset"}]
    /\ held \in [Actors -> Nat]

\* No two actors are inside the lock, however their steps interleave while
\* one of them gives it back.
MutualExclusion ==
    \A a, b \in Actors : held[a] > 0 /\ held[b] > 0 => a = b

\* The assertions of try_lock and unlock: whenever the owner can be read, an
\* owner that is known has the flag and has counted its acquisitions.
OwnerHasTheFlag ==
    InfoIsFree /\ info # None => flag /\ count > 0 /\ count = held[info]

\* The spin lock is a recursive mutex, whose owner is the one that is stored.
Abstract == INSTANCE RecursiveMutex WITH holder <- info, depth <- count
ImplementsRecursiveMutex == Abstract!Spec

-----------------------------------------------------------------------------
(* The inductive invariant *)

\* a has taken the flag and has not given it back.
HasFlag(a) == spc[a] = "store" \/ (held[a] > 0 /\ spc[a] # "reset")

FlagHasOneOwner ==
    /\ \A a, b \in Actors : HasFlag(a) /\ HasFlag(b) => a = b
    /\ \A a \in Actors : HasFlag(a) => flag

InfoFollowsHeld ==
    /\ \A a \in Actors : held[a] > 0 <=> info = a
    /\ info # None => count = held[info]
    /\ info = None => count = 0

GuardedSteps ==
    \A a \in Actors :
        /\ spc[a] \in {"clear", "reset"} <=> infoLock = a
        /\ spc[a] \in {"clear", "reset"} => held[a] = 1
        /\ spc[a] = "store" => held[a] = 0
        /\ spc[a] = "take" => info # a

LockInv == TypeOK /\ FlagHasOneOwner /\ InfoFollowsHeld /\ GuardedSteps
=============================================================================
