----------------------------- MODULE Ownership -----------------------------
(***************************************************************************)
(* Owner, Reference and Borrower of ExclusiveOwnership.h.  All subsystems  *)
(* are owned this way: the one thread that has the Owner lends, moves and  *)
(* in the end destroys it, while Borrower instances are made, copied, used *)
(* and destroyed in other threads.  A process is either that thread or one *)
(* Borrower instance, from its construction to its destruction.            *)
(***************************************************************************)
EXTENDS Integers, FiniteSets

CONSTANTS
    Borrowers,      \* bound: the Borrower instances ever made
    MaxOwners,      \* bound: the owned object is moved at most this often - 1
    Debug,          \* a build with assertions (NDEBUG is not defined)
    Quiet,          \* whether References rest while the Owner is destroyed
    OwnerThread,
    None

ASSUME OwnershipAssumption ==
    /\ IsFiniteSet(Borrowers)
    /\ MaxOwners \in Nat \ {0}
    /\ Debug \in BOOLEAN
    /\ Quiet \in BOOLEAN
    /\ OwnerThread \notin Borrowers
    /\ None \notin Borrowers \cup {OwnerThread}

VARIABLES
    \* OwnershipState
    borrows,    \* number of pending borrows
    alive,      \* whether the owner can lend
    owner,      \* the Owner instance that the shared state points to
    stateLock,  \* owner of state_lock
    \* Owner and Borrower
    hasState,   \* the Owner instances whose _state and _owned are not null
    current,    \* the Owner instance the owner thread has
    ownerPc,
    pc          \* per Borrower instance

state == <<borrows, alive, owner, stateLock>>
vars == <<state, hasState, current, ownerPc, pc>>

Instances == 1 .. MaxOwners
Held == stateLock # None
Goto(b, label) == pc' = [pc EXCEPT ![b] = label]

\* Inside Reference::TryBorrow or Reference::Borrow.
Borrowing == {"check", "perform", "force", "lend"}
\* The instance exists and is counted.
Counted == {"load", "live", "deref"}

Init ==
    /\ borrows = 0
    /\ alive = TRUE
    /\ owner = 1
    /\ stateLock = None
    /\ hasState = {1}
    /\ current = 1
    /\ ownerPc = "live"
    /\ pc = [b \in Borrowers |-> "new"]

-----------------------------------------------------------------------------
(* The owner thread *)

\* Owner::Borrow: the count is increased under the lock.
Lend(b) ==
    /\ ownerPc = "live"
    /\ pc[b] = "new"
    /\ ~Held
    /\ borrows' = borrows + 1
    /\ Goto(b, "live")
    /\ UNCHANGED <<alive, owner, stateLock, hasState, current, ownerPc>>

MoveLock ==
    /\ ownerPc = "live"
    /\ current < MaxOwners
    /\ ~Held
    /\ stateLock' = OwnerThread
    /\ ownerPc' = "move"
    /\ UNCHANGED <<borrows, alive, owner, hasState, current, pc>>

\* The new Owner takes _state and _owned: the old one has neither from now on.
MoveState ==
    /\ ownerPc = "move"
    /\ current' = current + 1
    /\ hasState' = {current + 1}
    /\ ownerPc' = "store"
    /\ UNCHANGED <<state, pc>>

\* Mutant: the pointer is cleared.
MoveStoreNull ==
    /\ ownerPc = "store"
    /\ owner' = 0
    /\ stateLock' = None
    /\ ownerPc' = "live"
    /\ UNCHANGED <<borrows, alive, hasState, current, pc>>

MoveStore ==
    /\ ownerPc = "store"
    /\ owner' = current
    /\ stateLock' = None
    /\ ownerPc' = "live"
    /\ UNCHANGED <<borrows, alive, hasState, current, pc>>

Destroy ==
    /\ ownerPc = "live"
    /\ Quiet => \A b \in Borrowers : pc[b] \notin Borrowing
    /\ ownerPc' = "join"
    /\ UNCHANGED <<state, hasState, current, pc>>

\* Mutant: the destructor does not wait.
JoinNobody ==
    /\ ownerPc = "join"
    /\ ownerPc' = "kill"
    /\ UNCHANGED <<state, hasState, current, pc>>

\* The destructor spins until nobody borrows...
Spin ==
    /\ ownerPc = "join"
    /\ borrows > 0
    /\ UNCHANGED vars

Join ==
    /\ ownerPc = "join"
    /\ borrows <= 0
    /\ ownerPc' = "kill"
    /\ UNCHANGED <<state, hasState, current, pc>>

\* ... and then says that the owner is dead, without state_lock.
Kill ==
    /\ ownerPc = "kill"
    /\ alive' = FALSE
    /\ ownerPc' = "free"
    /\ UNCHANGED <<borrows, owner, stateLock, hasState, current, pc>>

Free ==
    /\ ownerPc = "free"
    /\ hasState' = {}
    /\ ownerPc' = "gone"
    /\ UNCHANGED <<state, current, pc>>

-----------------------------------------------------------------------------
(* Reference *)

MayBorrow(b) ==
    /\ pc[b] = "new"
    /\ Quiet => ownerPc \notin {"join", "kill", "free"}
    /\ ~Held

TryBorrow(b) ==
    /\ MayBorrow(b)
    /\ stateLock' = b
    /\ Goto(b, "check")
    /\ UNCHANGED <<borrows, alive, owner, hasState, current, ownerPc>>

\* Reference::Borrow may throw, TryBorrow returns nothing instead.
Borrow(b) ==
    /\ MayBorrow(b)
    /\ stateLock' = b
    /\ Goto(b, "force")
    /\ UNCHANGED <<borrows, alive, owner, hasState, current, ownerPc>>

\* Mutant: TryBorrow leaves the check to PerformBorrow.
TryCheckNever(b) ==
    /\ pc[b] = "check"
    /\ Goto(b, "perform")
    /\ UNCHANGED <<state, hasState, current, ownerPc>>

TryCheck(b) ==
    /\ pc[b] = "check"
    /\ Goto(b, IF alive THEN "perform" ELSE "nothing")
    /\ stateLock' = IF alive THEN stateLock ELSE None
    /\ UNCHANGED <<borrows, alive, owner, hasState, current, ownerPc>>

\* PerformBorrow looks at alive again and throws when the owner is dead.
PerformCheck(b) ==
    /\ pc[b] \in {"perform", "force"}
    /\ Goto(b, IF alive THEN "lend"
               ELSE IF pc[b] = "perform" THEN "try_threw" ELSE "threw")
    /\ stateLock' = IF alive THEN stateLock ELSE None
    /\ UNCHANGED <<borrows, alive, owner, hasState, current, ownerPc>>

\* The Owner that the shared state points to makes the Borrower.
PerformLend(b) ==
    /\ pc[b] = "lend"
    /\ borrows' = borrows + 1
    /\ stateLock' = None
    /\ Goto(b, "live")
    /\ UNCHANGED <<alive, owner, hasState, current, ownerPc>>

-----------------------------------------------------------------------------
(* Borrower *)

\* Mutant: a copy is not counted.
CopyUncounted(b, c) ==
    /\ pc[c] = "live"
    /\ pc[b] = "new"
    /\ Goto(b, IF Debug THEN "load" ELSE "live")
    /\ UNCHANGED <<state, hasState, current, ownerPc>>

\* A copy takes no lock.  A debug build also looks at the data of the owner.
Copy(b, c) ==
    /\ pc[c] = "live"
    /\ pc[b] = "new"
    /\ borrows' = borrows + 1
    /\ Goto(b, IF Debug THEN "load" ELSE "live")
    /\ UNCHANGED <<alive, owner, stateLock, hasState, current, ownerPc>>

CopyLoad(b) ==
    /\ pc[b] = "load"
    /\ Goto(b, "live")
    /\ UNCHANGED <<state, hasState, current, ownerPc>>

\* Mutant: the owner is read without the lock.
DerefUnlocked(b) ==
    /\ pc[b] = "live"
    /\ Goto(b, "deref")
    /\ UNCHANGED <<state, hasState, current, ownerPc>>

\* operator-> reads the pointer to the owner, and the owner, under the lock.
Deref(b) ==
    /\ pc[b] = "live"
    /\ ~Held
    /\ stateLock' = b
    /\ Goto(b, "deref")
    /\ UNCHANGED <<borrows, alive, owner, hasState, current, ownerPc>>

DerefDone(b) ==
    /\ pc[b] = "deref"
    /\ stateLock' = None
    /\ Goto(b, "live")
    /\ UNCHANGED <<borrows, alive, owner, hasState, current, ownerPc>>

\* Mutant: the count is not decreased.
ReturnUncounted(b) ==
    /\ pc[b] = "live"
    /\ Goto(b, "done")
    /\ UNCHANGED <<state, hasState, current, ownerPc>>

Return(b) ==
    /\ pc[b] = "live"
    /\ borrows' = borrows - 1
    /\ Goto(b, "done")
    /\ UNCHANGED <<alive, owner, stateLock, hasState, current, ownerPc>>

-----------------------------------------------------------------------------

Destructor == Join \/ Kill \/ Free

OwnerStep ==
    \/ \E b \in Borrowers : Lend(b)
    \/ MoveLock \/ MoveState \/ MoveStore
    \/ Destroy \/ Spin \/ Destructor

BorrowerStep(b) ==
    \/ TryBorrow(b) \/ Borrow(b) \/ TryCheck(b) \/ PerformCheck(b)
    \/ PerformLend(b)
    \/ \E c \in Borrowers : Copy(b, c)
    \/ CopyLoad(b) \/ Deref(b) \/ DerefDone(b) \/ Return(b)

\* Everything has been made and destroyed.
Terminated ==
    /\ ownerPc = "gone"
    /\ \A b \in Borrowers : pc[b] \in {"new", "nothing", "threw", "try_threw",
                                       "done"}
    /\ UNCHANGED vars

Next == OwnerStep \/ (\E b \in Borrowers : BorrowerStep(b)) \/ Terminated

Spec == Init /\ [][Next]_vars

\* The destructor and whoever is inside a call go on; a Borrower that exists
\* is destroyed some day, as the attention at Borrower asks for; it is used
\* again and again before that only if its thread chooses to.
FairSpec ==
    /\ Spec
    /\ WF_vars(Destructor)
    /\ \A b \in Borrowers :
           /\ WF_vars(TryCheck(b) \/ PerformCheck(b) \/ PerformLend(b))
           /\ WF_vars(CopyLoad(b) \/ DerefDone(b))
           /\ SF_vars(Return(b))

-----------------------------------------------------------------------------
(* Properties *)

\* Type invariant.
TypeOK ==
    /\ borrows \in Int
    /\ alive \in BOOLEAN
    /\ owner \in Instances
    /\ stateLock \in Borrowers \cup {OwnerThread, None}
    /\ hasState \subseteq Instances
    /\ current \in Instances
    /\ ownerPc \in {"live", "move", "store", "join", "kill", "free", "gone"}
    /\ pc \in [Borrowers -> Borrowing \cup Counted \cup
                   {"new", "nothing", "threw", "try_threw", "done"}]

\* The count that the destructor waits for is the number of Borrowers.
BorrowsAreExact ==
    borrows = Cardinality({b \in Borrowers : pc[b] \in Counted})

\* ExclusiveOwnership.h: a borrow cannot outlive its owner.  When the owned
\* object is destroyed there is no Borrower, and none is being made.
NoBorrowOutlivesOwner ==
    ownerPc = "gone" => \A b \in Borrowers : pc[b] \notin Counted \cup {"lend"}

\* The assertions of Owner::operator-> and Owner::PerformBorrow: whoever
\* follows the pointer to the owner finds one that has its state and data.
OwnerIsValid ==
    \A b \in Borrowers : pc[b] \in {"deref", "lend"} => owner \in hasState

\* The assertion in the copy constructor of Borrower does so without the lock.
CopyFindsOwner == \A b \in Borrowers : pc[b] = "load" => owner \in hasState

\* TryBorrow returns a valid Borrower or nothing: it does not throw.
TryBorrowNeverThrows == \A b \in Borrowers : pc[b] # "try_threw"

\* The destructor returns once the Borrowers are destroyed.
DestructorReturns == ownerPc = "join" ~> ownerPc = "gone"

=============================================================================
