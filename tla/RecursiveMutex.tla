--------------------------- MODULE RecursiveMutex ---------------------------
(***************************************************************************)
(* What a recursive mutex promises to threads and fibers alike: it has one *)
(* owner at a time, who may acquire it again and has to release it as      *)
(* often.  SpinLock implements it.                                         *)
(***************************************************************************)
EXTENDS Naturals

CONSTANTS Actors, None

VARIABLES holder, depth

vars == <<holder, depth>>

Init == holder = None /\ depth = 0

Acquire(a) ==
    /\ holder = None
    /\ holder' = a
    /\ depth' = 1

AcquireAgain(a) ==
    /\ holder = a
    /\ depth' = depth + 1
    /\ UNCHANGED holder

ReleaseOnce(a) ==
    /\ holder = a /\ depth > 1
    /\ depth' = depth - 1
    /\ UNCHANGED holder

Release(a) ==
    /\ holder = a /\ depth = 1
    /\ holder' = None
    /\ depth' = 0

Next == \E a \in Actors :
            Acquire(a) \/ AcquireAgain(a) \/ ReleaseOnce(a) \/ Release(a)

Spec == Init /\ [][Next]_vars
=============================================================================
