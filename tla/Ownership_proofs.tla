-------------------------- MODULE Ownership_proofs --------------------------
(***************************************************************************)
(* The safety properties of Ownership, for any number of Borrowers and     *)
(* moves.  LockInv says who holds state_lock, where the shared pointer     *)
(* leads while the object is moved, and what the destructor has already    *)
(* excluded; with the exact count this is inductive.                       *)
(***************************************************************************)
EXTENDS Ownership, FiniteSetTheorems, TLAPS

BorrowersOf == {b \in Borrowers : pc[b] \in Counted}

LockInv ==
    /\ \A b \in Borrowers :
           pc[b] \in Borrowing \cup {"deref"} <=> stateLock = b
    /\ ownerPc \in {"move", "store"} <=> stateLock = OwnerThread
    /\ hasState = IF ownerPc = "gone" THEN {} ELSE {current}
    /\ ownerPc # "store" => owner = current
    /\ ownerPc = "move" => current < MaxOwners
    /\ alive <=> ownerPc \notin {"free", "gone"}

\* What holds only if References rest while the Owner is destroyed.
QuietInv ==
    /\ \A b \in Borrowers :
           pc[b] \in {"perform", "lend"} => ownerPc = "live"
    /\ ownerPc \in {"join", "kill", "free"} =>
           \A b \in Borrowers : pc[b] \notin Borrowing
    /\ ownerPc \in {"kill", "free", "gone"} =>
           \A b \in Borrowers : pc[b] \notin Counted
    /\ \A b \in Borrowers : pc[b] # "try_threw"

BaseInv == TypeOK /\ LockInv /\ BorrowsAreExact

\* The initial states: one living owner and no Borrower.
LEMMA BaseInit == Init => BaseInv
  <1> SUFFICES ASSUME Init PROVE BaseInv
    OBVIOUS
  <1> USE OwnershipAssumption DEF Init, Instances, Borrowing, Counted
  <1>1. TypeOK
    BY DEF TypeOK
  <1>2. LockInv
    BY DEF LockInv
  <1>3. BorrowersOf = {}
    BY DEF BorrowersOf
  <1>4. BorrowsAreExact
    BY <1>3, FS_EmptySet DEF BorrowsAreExact, BorrowersOf
  <1> QED BY <1>1, <1>2, <1>4 DEF BaseInv

\* Types and the lock do not need the count.
LEMMA LockStep == TypeOK /\ LockInv /\ [Next]_vars => TypeOK' /\ LockInv'
  <1> SUFFICES ASSUME TypeOK, LockInv, [Next]_vars PROVE TypeOK' /\ LockInv'
    OBVIOUS
  <1> USE OwnershipAssumption
      DEF TypeOK, LockInv, Instances, Borrowing, Counted, Goto, Held, state
  <1>1. ASSUME NEW b \in Borrowers, Lend(b) PROVE TypeOK' /\ LockInv'
    BY <1>1 DEF Lend
  <1>2. CASE MoveLock
    BY <1>2 DEF MoveLock
  <1>3. CASE MoveState
    BY <1>3 DEF MoveState
  <1>4. CASE MoveStore
    BY <1>4 DEF MoveStore
  <1>5. CASE Destroy
    BY <1>5 DEF Destroy
  <1>6. CASE Join
    BY <1>6 DEF Join
  <1>7. CASE Kill
    BY <1>7 DEF Kill
  <1>8. CASE Free
    BY <1>8 DEF Free
  <1>9. ASSUME NEW b \in Borrowers, TryBorrow(b) PROVE TypeOK' /\ LockInv'
    BY <1>9 DEF TryBorrow, MayBorrow
  <1>10. ASSUME NEW b \in Borrowers, Borrow(b) PROVE TypeOK' /\ LockInv'
    BY <1>10 DEF Borrow, MayBorrow
  <1>11. ASSUME NEW b \in Borrowers, TryCheck(b) PROVE TypeOK' /\ LockInv'
    BY <1>11 DEF TryCheck
  <1>12. ASSUME NEW b \in Borrowers, PerformCheck(b) PROVE TypeOK' /\ LockInv'
    BY <1>12 DEF PerformCheck
  <1>13. ASSUME NEW b \in Borrowers, PerformLend(b) PROVE TypeOK' /\ LockInv'
    BY <1>13 DEF PerformLend
  <1>14. ASSUME NEW b \in Borrowers, NEW c \in Borrowers, Copy(b, c)
         PROVE TypeOK' /\ LockInv'
    BY <1>14 DEF Copy
  <1>15. ASSUME NEW b \in Borrowers, CopyLoad(b) PROVE TypeOK' /\ LockInv'
    BY <1>15 DEF CopyLoad
  <1>16. ASSUME NEW b \in Borrowers, Deref(b) PROVE TypeOK' /\ LockInv'
    BY <1>16 DEF Deref
  <1>17. ASSUME NEW b \in Borrowers, DerefDone(b) PROVE TypeOK' /\ LockInv'
    BY <1>17 DEF DerefDone
  <1>18. ASSUME NEW b \in Borrowers, Return(b) PROVE TypeOK' /\ LockInv'
    BY <1>18 DEF Return
  <1>19. CASE UNCHANGED vars
    BY <1>19 DEF vars
  <1> QED
    BY <1>1, <1>2, <1>3, <1>4, <1>5, <1>6, <1>7, <1>8, <1>9, <1>10, <1>11,
       <1>12, <1>13, <1>14, <1>15, <1>16, <1>17, <1>18, <1>19
    DEF Next, OwnerStep, BorrowerStep, Destructor, Spin, Terminated

\* A step makes one more Borrower and counts it, destroys one and uncounts
\* it, or does neither.
LEMMA CountStep == BaseInv /\ [Next]_vars => BorrowsAreExact'
  <1> SUFFICES ASSUME BaseInv, [Next]_vars PROVE BorrowsAreExact'
    OBVIOUS
  <1> USE OwnershipAssumption DEF BaseInv, TypeOK
  <1>1. IsFiniteSet(BorrowersOf) /\ borrows = Cardinality(BorrowersOf)
    BY FS_Subset DEF BorrowersOf, BorrowsAreExact
  <1>2. ASSUME NEW b \in Borrowers, b \notin BorrowersOf,
               borrows' = borrows + 1, BorrowersOf' = BorrowersOf \cup {b}
        PROVE BorrowsAreExact'
    <2>1. Cardinality(BorrowersOf') = Cardinality(BorrowersOf) + 1
      BY <1>1, <1>2, FS_AddElement
    <2> QED BY <1>1, <1>2, <2>1 DEF BorrowsAreExact, BorrowersOf
  <1>3. ASSUME NEW b \in Borrowers, b \in BorrowersOf,
               borrows' = borrows - 1, BorrowersOf' = BorrowersOf \ {b}
        PROVE BorrowsAreExact'
    <2>1. Cardinality(BorrowersOf') = Cardinality(BorrowersOf) - 1
      BY <1>1, <1>3, FS_RemoveElement
    <2> QED BY <1>1, <1>3, <2>1 DEF BorrowsAreExact, BorrowersOf
  <1>4. ASSUME borrows' = borrows, BorrowersOf' = BorrowersOf
        PROVE BorrowsAreExact'
    BY <1>1, <1>4 DEF BorrowsAreExact, BorrowersOf
  <1> USE DEF BorrowersOf, Counted, Goto
  <1>5. ASSUME NEW b \in Borrowers, Lend(b) \/ PerformLend(b)
        PROVE BorrowsAreExact'
    BY <1>2, <1>5 DEF Lend, PerformLend
  <1>6. ASSUME NEW b \in Borrowers, NEW c \in Borrowers, Copy(b, c)
        PROVE BorrowsAreExact'
    BY <1>2, <1>6 DEF Copy
  <1>7. ASSUME NEW b \in Borrowers, Return(b) PROVE BorrowsAreExact'
    BY <1>3, <1>7 DEF Return
  <1>8. CASE MoveLock \/ MoveState \/ MoveStore \/ Destroy \/ Destructor
             \/ UNCHANGED vars
    BY <1>4, <1>8 DEF MoveLock, MoveState, MoveStore, Destroy, Destructor,
       Join, Kill, Free, vars, state
  <1>9. ASSUME NEW b \in Borrowers,
               \/ TryBorrow(b) \/ Borrow(b) \/ TryCheck(b) \/ PerformCheck(b)
               \/ CopyLoad(b) \/ Deref(b) \/ DerefDone(b)
        PROVE BorrowsAreExact'
    BY <1>4, <1>9 DEF TryBorrow, Borrow, MayBorrow, TryCheck, PerformCheck,
       CopyLoad, Deref, DerefDone, state
  <1> QED
    BY <1>5, <1>6, <1>7, <1>8, <1>9
    DEF Next, OwnerStep, BorrowerStep, Spin, Terminated

\* The types, the lock and the count hold without any assumption on the
\* threads.
THEOREM BaseInvariant == Spec => []BaseInv
  <1>1. BaseInv /\ [Next]_vars => BaseInv'
    BY LockStep, CountStep DEF BaseInv
  <1> QED BY <1>1, BaseInit, PTL DEF Spec

\* Every variable keeps its type.
THEOREM OwnershipTypes == Spec => []TypeOK
  <1>1. BaseInv => TypeOK
    BY DEF BaseInv
  <1> QED BY <1>1, BaseInvariant, PTL

\* The destructor waits for the right number, whatever the threads do.
THEOREM CountIsExact == Spec => []BorrowsAreExact
  <1>1. BaseInv => BorrowsAreExact
    BY DEF BaseInv
  <1> QED BY <1>1, BaseInvariant, PTL

\* When the count is zero there is no Borrower.
LEMMA ZeroMeansNone ==
  BaseInv /\ borrows <= 0 => \A b \in Borrowers : pc[b] \notin Counted
  <1> SUFFICES ASSUME BaseInv, borrows <= 0 PROVE BorrowersOf = {}
    BY DEF BorrowersOf
  <1>1. IsFiniteSet(BorrowersOf) /\ borrows = Cardinality(BorrowersOf)
    BY OwnershipAssumption, FS_Subset
       DEF BaseInv, BorrowersOf, BorrowsAreExact
  <1>2. Cardinality(BorrowersOf) \in Nat
    BY <1>1, FS_CardinalityType
  <1>3. Cardinality(BorrowersOf) = 0
    BY <1>1, <1>2
  <1> QED BY <1>1, <1>3, FS_EmptySet

\* A destructor that References leave alone finds the Borrowers gone, and
\* nobody makes a new one.
LEMMA QuietStep ==
  ASSUME Quiet
  PROVE  BaseInv /\ QuietInv /\ [Next]_vars => QuietInv'
  <1> SUFFICES ASSUME BaseInv, QuietInv, [Next]_vars PROVE QuietInv'
    OBVIOUS
  <1> USE OwnershipAssumption
      DEF BaseInv, TypeOK, LockInv, QuietInv, Instances, Borrowing, Counted,
          Goto, Held, state
  <1>1. ASSUME NEW b \in Borrowers, Lend(b) PROVE QuietInv'
    BY <1>1 DEF Lend
  <1>2. CASE MoveLock \/ MoveState \/ MoveStore
    BY <1>2 DEF MoveLock, MoveState, MoveStore
  <1>3. CASE Destroy
    BY <1>3 DEF Destroy
  <1>4. CASE Join
    BY <1>4, ZeroMeansNone DEF Join
  <1>5. CASE Kill \/ Free
    BY <1>5 DEF Kill, Free
  <1>6. ASSUME NEW b \in Borrowers, TryBorrow(b) \/ Borrow(b)
        PROVE QuietInv'
    BY <1>6 DEF TryBorrow, Borrow, MayBorrow
  <1>7. ASSUME NEW b \in Borrowers, TryCheck(b) PROVE QuietInv'
    BY <1>7 DEF TryCheck
  <1>8. ASSUME NEW b \in Borrowers, PerformCheck(b) PROVE QuietInv'
    BY <1>8 DEF PerformCheck
  <1>9. ASSUME NEW b \in Borrowers, PerformLend(b) PROVE QuietInv'
    BY <1>9 DEF PerformLend
  <1>10. ASSUME NEW b \in Borrowers, NEW c \in Borrowers, Copy(b, c)
         PROVE QuietInv'
    BY <1>10 DEF Copy
  <1>11. ASSUME NEW b \in Borrowers,
                CopyLoad(b) \/ Deref(b) \/ DerefDone(b) \/ Return(b)
         PROVE QuietInv'
    BY <1>11 DEF CopyLoad, Deref, DerefDone, Return
  <1>12. CASE UNCHANGED vars
    BY <1>12 DEF vars
  <1> QED
    BY <1>1, <1>2, <1>3, <1>4, <1>5, <1>6, <1>7, <1>8, <1>9, <1>10, <1>11,
       <1>12
    DEF Next, OwnerStep, BorrowerStep, Destructor, Spin, Terminated

\* Both invariants, when References rest while the Owner is destroyed.
THEOREM QuietInvariant ==
  ASSUME Quiet
  PROVE  Spec => [](BaseInv /\ QuietInv)
  <1>1. Init => QuietInv
    BY DEF Init, QuietInv, Borrowing, Counted
  <1>2. BaseInv /\ QuietInv /\ [Next]_vars => BaseInv' /\ QuietInv'
    BY LockStep, CountStep, QuietStep DEF BaseInv
  <1> QED BY <1>1, <1>2, BaseInit, PTL DEF Spec

\* ExclusiveOwnership.h: a borrow cannot outlive its owner, as long as no
\* Reference is used while the destructor runs.
THEOREM BorrowsEndFirst ==
  ASSUME Quiet
  PROVE  Spec => []NoBorrowOutlivesOwner
  <1>1. BaseInv /\ QuietInv => NoBorrowOutlivesOwner
    BY DEF QuietInv, NoBorrowOutlivesOwner, Counted
  <1> QED BY <1>1, QuietInvariant, PTL

\* Then TryBorrow does not throw either.
THEOREM TryBorrowReturns ==
  ASSUME Quiet
  PROVE  Spec => []TryBorrowNeverThrows
  <1>1. BaseInv /\ QuietInv => TryBorrowNeverThrows
    BY DEF QuietInv, TryBorrowNeverThrows
  <1> QED BY <1>1, QuietInvariant, PTL

\* Nobody who follows the pointer under the lock finds an Owner without data,
\* however often the object is moved meanwhile.
THEOREM OwnersAreValid ==
  ASSUME Quiet
  PROVE  Spec => []OwnerIsValid
  <1>1. BaseInv /\ QuietInv => OwnerIsValid
    BY OwnershipAssumption
       DEF BaseInv, LockInv, QuietInv, OwnerIsValid, Counted, Borrowing
  <1> QED BY <1>1, QuietInvariant, PTL

=============================================================================
