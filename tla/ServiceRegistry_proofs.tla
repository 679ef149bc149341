----------------------- MODULE ServiceRegistry_proofs -----------------------
(***************************************************************************)
(* For any nodes and executors: no node misses a service, no caller holds  *)
(* an executor twice, a selection finds a callable executor if there is    *)
(* one, and as many selections as there are callable ones select them all. *)
(***************************************************************************)
EXTENDS ServiceRegistryInv, FiniteSetTheorems, WellFoundedInduction, TLAPS

\* A set of numbers of tries has a least one.
LEMMA LeastHit ==
  ASSUME NEW T \in SUBSET Nat, T # {}
  PROVE  \E k \in T : \A j \in T : k <= j
  <1>1. IsWellFoundedOn(OpToRel(<, Nat), Nat)
    BY NatLessThanWellFounded
  <1>2. PICK k \in T : \A j \in T : ~(<<j, k>> \in OpToRel(<, Nat))
    BY <1>1, WFMin
  <1>3. ASSUME NEW j \in T, j < k PROVE FALSE
    <2>1. <<j, k>> \in OpToRel(<, Nat)
      <3>1. <<j, k>> \in Nat \X Nat /\ <<j, k>>[1] = j /\ <<j, k>>[2] = k
        OBVIOUS
      <3> QED BY <1>3, <3>1, Zenon DEF OpToRel
    <2> QED BY <1>2, <2>1, Zenon
  <1>4. \A j \in T : k <= j
    BY <1>3
  <1> QED BY <1>4

\* Wherever a search begins, its tries reach every position of the list.
LEMMA TriesReachAll ==
  ASSUME NEW L \in Nat \ {0}, NEW start \in 0 .. L - 1, NEW i \in 1 .. L
  PROVE  \E k \in 1 .. L : ((start + k) % L) + 1 = i
  <1>1. CASE i - 1 > start
    <2>1. (start + (i - 1 - start)) % L = i - 1
      OBVIOUS
    <2>2. i - 1 - start \in 1 .. L
      BY <1>1
    <2> QED BY <2>1, <2>2
  <1>2. CASE i - 1 <= start
    <2>1. (i - 1 + L) % L = i - 1
      OBVIOUS
    <2>2. start + (i - 1 - start + L) = i - 1 + L
      OBVIOUS
    <2>3. i - 1 - start + L \in 1 .. L
      BY <1>2
    <2>4. ((start + (i - 1 - start + L)) % L) + 1 = i
      <3>1. i - 1 + 1 = i
        OBVIOUS
      <3> QED BY <2>1, <2>2, <3>1, Zenon
    <2> QED BY <2>3, <2>4, Zenon
  <1> QED BY <1>1, <1>2

\* Where a search is after some tries is a position of the list, from 0.
LEMMA IndexInList ==
  ASSUME NEW s \in Seq(Executors), s # <<>>, NEW last \in Nat, NEW k \in Nat
  PROVE  IndexAfter(s, last, k) \in 0 .. Len(s) - 1
  <1>1. Len(s) \in Nat \ {0}
    OBVIOUS
  <1>2. \A L \in Nat \ {0}, x \in Nat : x % L \in 0 .. L - 1
    OBVIOUS
  <1> DEFINE start == IF last < Len(s) THEN last ELSE Len(s) - 1
  <1>3. start + k \in Nat
    BY <1>1
  <1>4. IndexAfter(s, last, k) = (start + k) % Len(s)
    BY DEF IndexAfter
  <1> HIDE DEF start
  <1> QED BY <1>1, <1>2, <1>3, <1>4

\* The index stays one of the list.
LEMMA NextIndexInList ==
  ASSUME NEW n \in Nodes, NEW s \in Seq(Executors), NEW last \in Nat,
         NEW onlyLocal \in BOOLEAN
  PROVE  /\ NextIndex(n, s, last, onlyLocal) \in Nat
         /\ s # <<>> => NextIndex(n, s, last, onlyLocal) \in 0 .. Len(s) - 1
  <1> DEFINE hits == Hits(n, s, last, onlyLocal)
             first == CHOOSE k \in hits : \A j \in hits : k <= j
  <1>1. hits \in SUBSET Nat
    BY DEF Hits
  <1>2. hits # {} => first \in Nat
    BY <1>1, LeastHit
  <1>3. Len(s) \in Nat
    OBVIOUS
  <1> HIDE DEF hits, first
  <1>4. CASE s = <<>>
    BY <1>4 DEF NextIndex
  <1>5. CASE s # <<>> /\ hits = {}
    <2>1. NextIndex(n, s, last, onlyLocal) = IndexAfter(s, last, Len(s))
      BY <1>5 DEF NextIndex, hits
    <2> QED BY <2>1, <1>3, <1>5, IndexInList
  <1>6. CASE s # <<>> /\ hits # {}
    <2>1. NextIndex(n, s, last, onlyLocal) = IndexAfter(s, last, first)
      BY <1>6 DEF NextIndex, hits, first
    <2>2. IndexAfter(s, last, first) \in 0 .. Len(s) - 1
      BY <1>2, <1>6, IndexInList
    <2> QED BY <2>1, <2>2, <1>3
  <1> QED BY <1>4, <1>5, <1>6

\* SelectNextCallableExecutor: one round of tries finds a callable executor,
\* a local one if that is required, whenever the list has one, wherever the
\* last selection has left the index and however the list has changed since.
THEOREM SelectionFinds ==
  ASSUME NEW n \in Nodes, NEW s \in Seq(Executors), NEW last \in Nat,
         NEW onlyLocal \in BOOLEAN,
         NEW e \in Elements(s), IsCallable(n, e), onlyLocal => Local(n, e)
  PROVE  LET found == s[NextIndex(n, s, last, onlyLocal) + 1]
         IN  IsCallable(n, found) /\ (onlyLocal => Local(n, found))
  <1> DEFINE hits == Hits(n, s, last, onlyLocal)
             first == CHOOSE k \in hits : \A j \in hits : k <= j
             start == IF last < Len(s) THEN last ELSE Len(s) - 1
  <1>1. PICK i \in 1 .. Len(s) : s[i] = e
    BY DEF Elements
  <1>2. Len(s) \in Nat \ {0} /\ start \in 0 .. Len(s) - 1 /\ s # <<>>
    BY <1>1
  <1>3. PICK k \in 1 .. Len(s) : ((start + k) % Len(s)) + 1 = i
    <2> HIDE DEF start
    <2> QED BY <1>2, TriesReachAll
  <1>4. IndexAfter(s, last, k) + 1 = i
    BY <1>3 DEF IndexAfter
  <1>5. k \in hits
    BY <1>1, <1>4 DEF Hits
  <1>6. hits \in SUBSET Nat
    BY DEF Hits
  <1>7. first \in hits
    <2> HIDE DEF hits
    <2> QED BY <1>5, <1>6, LeastHit
  <1>8. NextIndex(n, s, last, onlyLocal) = IndexAfter(s, last, first)
    BY <1>2, <1>5 DEF NextIndex
  <1>9. /\ IsCallable(n, s[IndexAfter(s, last, first) + 1])
        /\ onlyLocal => Local(n, s[IndexAfter(s, last, first) + 1])
    <2> HIDE DEF first
    <2> QED BY <1>7 DEF Hits
  <1> QED BY <1>8, <1>9

-----------------------------------------------------------------------------
(* The lists of executors *)

Distinct(s) == \A i, j \in DOMAIN s : s[i] = s[j] => i = j

\* AddExecutor keeps a list free of duplicates and adds what it is given.
LEMMA AddedElements ==
  ASSUME NEW s \in Seq(Executors), NEW e \in Executors
  PROVE  /\ Added(s, e) \in Seq(Executors)
         /\ Elements(Added(s, e)) = Elements(s) \cup {e}
         /\ Distinct(s) => Distinct(Added(s, e))
  <1>1. CASE e \in Elements(s)
    BY <1>1 DEF Added
  <1>2. CASE e \notin Elements(s)
    <2> DEFINE t == Append(s, e)
    <2>1. /\ t \in Seq(Executors) /\ Len(t) = Len(s) + 1
          /\ \A i \in 1 .. Len(s) : t[i] = s[i]
          /\ t[Len(s) + 1] = e
      OBVIOUS
    <2>2. Added(s, e) = t
      BY <1>2 DEF Added
    <2>3. DOMAIN t = DOMAIN s \cup {Len(s) + 1} /\ DOMAIN s = 1 .. Len(s)
      BY <2>1
    <2> HIDE DEF t
    <2>4. Elements(t) = Elements(s) \cup {e}
      BY <2>1, <2>3 DEF Elements
    <2>5. \A i \in DOMAIN s : s[i] # e
      BY <1>2 DEF Elements
    <2>6. Distinct(s) => Distinct(t)
      BY <2>1, <2>3, <2>5 DEF Distinct
    <2> QED BY <2>1, <2>2, <2>4, <2>6
  <1> QED BY <1>1, <1>2

\* RemoveExecutor takes away nothing else.
LEMMA RemovedElements ==
  ASSUME NEW s \in Seq(Executors), NEW e \in Executors
  PROVE  /\ Removed(s, e) \in Seq(Executors)
         /\ Elements(Removed(s, e)) \subseteq Elements(s)
         /\ Elements(s) \ {e} \subseteq Elements(Removed(s, e))
         /\ Distinct(s) => Distinct(Removed(s, e))
  <1>1. CASE e \notin Elements(s)
    BY <1>1 DEF Removed
  <1>2. CASE e \in Elements(s)
    <2> DEFINE i == CHOOSE j \in DOMAIN s : s[j] = e
               t == [j \in 1 .. Len(s) - 1 |->
                         IF j < i THEN s[j] ELSE s[j + 1]]
    <2>1. i \in 1 .. Len(s) /\ s[i] = e
      <3>1. \E j \in DOMAIN s : s[j] = e
        BY <1>2 DEF Elements
      <3>2. DOMAIN s = 1 .. Len(s)
        OBVIOUS
      <3> QED BY <3>1, <3>2
    <2>2. Removed(s, e) = t
      BY <1>2 DEF Removed
    <2> HIDE DEF i
    <2>3. /\ \A j \in 1 .. Len(s) : s[j] \in Executors
          /\ Len(s) \in Nat /\ DOMAIN s = 1 .. Len(s)
      OBVIOUS
    <2>4. t \in Seq(Executors) /\ DOMAIN t = 1 .. Len(s) - 1
      <3>1. \A j \in 1 .. Len(s) - 1 : t[j] \in Executors
        BY <2>1, <2>3
      <3>2. Len(s) - 1 \in Nat
        BY <2>1, <2>3
      <3> QED BY <3>1, <3>2
    <2>5. Elements(t) \subseteq Elements(s)
      BY <2>1, <2>3, <2>4 DEF Elements
    <2>6. ASSUME NEW f \in Elements(s) \ {e} PROVE f \in Elements(t)
      <3>1. PICK j \in 1 .. Len(s) : s[j] = f
        BY <2>3 DEF Elements
      <3>2. j # i
        BY <2>1, <2>6, <3>1
      <3>3. CASE j < i
        <4>1. j \in 1 .. Len(s) - 1 /\ t[j] = f
          BY <2>1, <2>3, <3>1, <3>3
        <4> QED BY <2>4, <4>1 DEF Elements
      <3>4. CASE j > i
        <4>1. j - 1 \in 1 .. Len(s) - 1 /\ t[j - 1] = f
          BY <2>1, <2>3, <3>1, <3>4
        <4> QED BY <2>4, <4>1 DEF Elements
      <3> QED BY <2>1, <3>2, <3>3, <3>4
    <2>7. Distinct(s) => Distinct(t)
      BY <2>1, <2>3, <2>4 DEF Distinct
    <2> QED BY <2>2, <2>4, <2>5, <2>6, <2>7
  <1> QED BY <1>1, <1>2

-----------------------------------------------------------------------------
(* The type invariant, and lists free of duplicates *)

ListsInv == TypeOK /\ NoDuplicates

\* NoDuplicates says that each list is free of duplicates.
LEMMA DistinctLists ==
  NoDuplicates <=> \A n \in Nodes : Distinct(callers[n])
  BY DEF NoDuplicates, Distinct

\* Writing one entry of a table keeps its type.
LEMMA EntryUpdate ==
  ASSUME NEW S, NEW T, NEW f \in [S -> [S -> T]], NEW n \in S, NEW m \in S,
         NEW v \in T
  PROVE  [f EXCEPT ![n][m] = v] \in [S -> [S -> T]]
  OBVIOUS

\* Losing messages keeps the types of what it changes.
LEMMA LoseType ==
  ASSUME TypeOK, NEW n \in Nodes, NEW m \in Nodes, LoseMessages(n, m)
  PROVE  msgs' \subseteq Pairs /\ checking' \subseteq Pairs
  BY DEF TypeOK, LoseMessages

\* In the beginning, the lists are the initial ones.
LEMMA ListsInit == Init => ListsInv
  <1> SUFFICES ASSUME Init PROVE ListsInv
    OBVIOUS
  <1>1. TypeOK
    BY InitialAssumption, BoundsAssumption DEF Init, TypeOK
  <1>2. NoDuplicates
    BY InitialAssumption DEF Init, NoDuplicates
  <1> QED BY <1>1, <1>2 DEF ListsInv

\* Every step keeps the lists.
LEMMA ListsStep == ListsInv /\ [Next]_vars => ListsInv'
  <1> SUFFICES ASSUME TypeOK, NoDuplicates, [Next]_vars PROVE ListsInv'
    BY DEF ListsInv
  <1> USE OwnerAssumption, BoundsAssumption
      DEF TypeOK, Pairs, userVars, registerVars, connVars, jobVars
  <1>0. ASSUME UNCHANGED callers PROVE NoDuplicates'
    BY <1>0 DEF NoDuplicates
  <1>1. ASSUME NEW n \in Nodes, NEW e \in Executors, CheckCallable(n, e)
        PROVE  ListsInv'
    BY <1>0, <1>1 DEF CheckCallable, ListsInv
  <1>2. ASSUME NEW n \in Nodes, NEW e \in Executors, LockCallers(n, e)
        PROVE  ListsInv'
    BY <1>0, <1>2 DEF LockCallers, ListsInv
  <1>3. ASSUME NEW n \in Nodes, NEW e \in Executors, AddExecutor(n, e)
        PROVE  ListsInv'
    <2>1. /\ Added(callers[n], e) \in Seq(Executors)
          /\ Distinct(Added(callers[n], e))
      BY AddedElements, DistinctLists
    <2>2. callers' = [callers EXCEPT ![n] = Added(callers[n], e)]
      BY <1>3 DEF AddExecutor
    <2>3. callers' \in [Nodes -> Seq(Executors)]
      BY <2>1, <2>2
    <2>4. TypeOK'
      BY <1>3, <2>3 DEF AddExecutor
    <2>5. \A k \in Nodes : Distinct(callers'[k])
      BY <2>1, <2>2, DistinctLists
    <2>6. NoDuplicates'
      BY <2>5 DEF NoDuplicates, Distinct
    <2> QED BY <2>4, <2>6 DEF ListsInv
  <1>4. ASSUME NEW n \in Nodes, NEW e \in Executors, Unregister(n, e)
        PROVE  ListsInv'
    <2>1. /\ Removed(callers[n], e) \in Seq(Executors)
          /\ Distinct(Removed(callers[n], e))
      BY RemovedElements, DistinctLists
    <2>2. callers' = [callers EXCEPT ![n] = Removed(callers[n], e)]
      BY <1>4 DEF Unregister
    <2>3. callers' \in [Nodes -> Seq(Executors)]
      BY <2>1, <2>2
    <2>4. TypeOK'
      <3>1. dropped' \subseteq Pairs
        BY <1>4 DEF Unregister
      <3>2. calls' \in 0 .. MaxCalls
        BY <1>4 DEF Unregister
      <3>3. UNCHANGED <<lastIndex, registerVars, connVars, jobVars>>
        BY <1>4 DEF Unregister
      <3> QED BY <2>3, <3>1, <3>2, <3>3
    <2>5. \A k \in Nodes : Distinct(callers'[k])
      BY <2>1, <2>2, DistinctLists
    <2>6. NoDuplicates'
      BY <2>5 DEF NoDuplicates, Distinct
    <2> QED BY <2>4, <2>6 DEF ListsInv
  <1>5. ASSUME NEW n \in Nodes, UnregisterAll(n) PROVE ListsInv'
    <2>1. callers' = [callers EXCEPT ![n] = <<>>]
      BY <1>5 DEF UnregisterAll
    <2>2. dropped' \subseteq Pairs
      BY <1>5 DEF UnregisterAll, Elements
    <2>3. TypeOK'
      BY <1>5, <2>1, <2>2 DEF UnregisterAll
    <2>4. NoDuplicates'
      BY <2>1 DEF NoDuplicates
    <2> QED BY <2>3, <2>4 DEF ListsInv
  <1>6. ASSUME NEW e \in Executors, Register(e) PROVE ListsInv'
    <2>1. /\ locking' = locking \cup {<<Owner[e], e>>}
          /\ calls' \in 0 .. MaxCalls
          /\ UNCHANGED <<callers, lastIndex, dropped, adding, checking,
                         connVars, jobVars>>
      BY <1>6 DEF Register
    <2>2. <<Owner[e], e>> \in Pairs
      BY OwnerAssumption
    <2>3. TypeOK'
      BY <2>1, <2>2
    <2> QED BY <1>0, <2>1, <2>3 DEF ListsInv, NoDuplicates
  <1>7. ASSUME NEW n \in Nodes, NEW m \in Nodes,
               SendServicePortfolioToEndpoint(n, m)
        PROVE  ListsInv'
    <2>1. portfolio' \subseteq Pairs
      BY <1>7 DEF SendServicePortfolioToEndpoint, Elements
    <2>2. established' \subseteq Nodes \X Nodes
      BY <1>7 DEF SendServicePortfolioToEndpoint
    <2> QED
      BY <1>0, <1>7, <2>1, <2>2 DEF SendServicePortfolioToEndpoint, ListsInv
  <1>8. ASSUME NEW m \in Nodes, NEW e \in Executors, SendRegistration(m, e)
        PROVE  ListsInv'
    BY <1>0, <1>8 DEF SendRegistration, ListsInv
  <1>9. ASSUME NEW m \in Nodes, NEW e \in Executors, Receive(m, e)
        PROVE  ListsInv'
    BY <1>0, <1>9 DEF Receive, ListsInv
  <1>10. ASSUME NEW e \in Executors, Broadcast(e) PROVE ListsInv'
    <2>1. \A r \in {<<m, e>> : m \in {k \in Nodes : conn[Owner[e]][k] = "open"}} :
              r \in Pairs
      OBVIOUS
    <2>2. msgs' \subseteq Pairs
      BY <1>10, <2>1 DEF Broadcast
    <2>3. broadcasts' \subseteq Executors
      BY <1>10 DEF Broadcast
    <2> QED BY <1>0, <1>10, <2>2, <2>3 DEF Broadcast, ListsInv
  <1>11. ASSUME NEW n \in Nodes, NEW m \in Nodes, Establish(n, m)
         PROVE  ListsInv'
    <2>1. fresh' \in [Nodes -> [Nodes -> {"none", "open", "broken"}]]
      BY <1>11 DEF Establish
    <2>2. streams' \in 0 .. MaxStreams
      BY <1>11 DEF Establish
    <2> QED BY <1>0, <1>11, <2>1, <2>2 DEF Establish, ListsInv
  <1>12. ASSUME NEW n \in Nodes, NEW m \in Nodes, BreakFresh(n, m)
         PROVE  ListsInv'
    BY <1>0, <1>12 DEF BreakFresh, ListsInv
  <1>13. ASSUME NEW n \in Nodes, NEW m \in Nodes, Break(n, m) PROVE ListsInv'
    <2>1. msgs' \subseteq Pairs /\ checking' \subseteq Pairs
      BY <1>13, LoseType DEF Break
    <2>2. /\ conn' \in [Nodes -> [Nodes -> {"none", "open", "stale"}]]
          /\ fresh' \in [Nodes -> [Nodes -> {"none", "open", "broken"}]]
      BY <1>13 DEF Break, Broken
    <2> QED BY <1>0, <1>13, <2>1, <2>2 DEF Break, ListsInv
  <1>14. ASSUME NEW n \in Nodes, NEW m \in Nodes, AddConnection(n, m)
         PROVE  ListsInv'
    <2>1. msgs' \subseteq Pairs /\ checking' \subseteq Pairs
      BY <1>14, LoseType DEF AddConnection
    <2>2. conn' \in [Nodes -> [Nodes -> {"none", "open", "stale"}]]
      <3>1. /\ Entered(fresh[n][m]) \in {"none", "open", "stale"}
            /\ \A state \in {"none", "open", "stale"} :
                   Broken(state) \in {"none", "open", "stale"}
        BY DEF Entered, Broken
      <3>2. CASE conn[n][m] = "open"
        <4>1. conn' = [conn EXCEPT ![n][m] = Entered(fresh[n][m]),
                                   ![m][n] = Broken(@)]
          BY <1>14, <3>2 DEF AddConnection
        <4>2. conn \in [Nodes -> [Nodes -> {"none", "open", "stale"}]]
          OBVIOUS
        <4> HIDE DEF TypeOK
        <4> QED BY <3>1, <4>1, <4>2, ZenonT(40)
      <3>3. CASE conn[n][m] # "open"
        <4>1. conn' = [conn EXCEPT ![n][m] = Entered(fresh[n][m])]
          BY <1>14, <3>3 DEF AddConnection
        <4>2. conn \in [Nodes -> [Nodes -> {"none", "open", "stale"}]]
          OBVIOUS
        <4> HIDE DEF TypeOK
        <4>3. [conn EXCEPT ![n][m] = Entered(fresh[n][m])]
                  \in [Nodes -> [Nodes -> {"none", "open", "stale"}]]
          BY <3>1, <4>2, EntryUpdate
        <4> QED BY <4>1, <4>3, Zenon
      <3> QED BY <3>2, <3>3
    <2>3. fresh' \in [Nodes -> [Nodes -> {"none", "open", "broken"}]]
      BY <1>14 DEF AddConnection
    <2>4. established' \subseteq Nodes \X Nodes
      BY <1>14 DEF AddConnection
    <2>5. /\ UNCHANGED <<callers, lastIndex, dropped, calls, adding, locking,
                         streams, portfolio, broadcasts>>
      BY <1>14 DEF AddConnection
    <2> QED BY <1>0, <2>1, <2>2, <2>3, <2>4, <2>5 DEF ListsInv
  <1>15. ASSUME NEW n \in Nodes, NEW m \in Nodes, NoticeClosed(n, m)
         PROVE  ListsInv'
    BY <1>0, <1>15 DEF NoticeClosed, ListsInv
  <1>16. ASSUME NEW n \in Users, NEW onlyLocal \in BOOLEAN,
                SelectNextCallableExecutor(n, onlyLocal)
         PROVE  ListsInv'
    <2>1. n \in Nodes
      BY UsersAssumption
    <2>2. NextIndex(n, callers[n], lastIndex[n], onlyLocal) \in Nat
      BY <2>1, NextIndexInList
    <2>3. lastIndex' \in [Nodes -> Nat]
      BY <1>16, <2>1, <2>2 DEF SelectNextCallableExecutor
    <2> QED BY <1>0, <1>16, <2>3 DEF SelectNextCallableExecutor, ListsInv
  <1>17. CASE UNCHANGED vars
    BY <1>0, <1>17 DEF vars, ListsInv
  <1> QED
    BY <1>1, <1>2, <1>3, <1>4, <1>5, <1>6, <1>7, <1>8, <1>9, <1>10, <1>11,
       <1>12, <1>13, <1>14, <1>15, <1>16, <1>17
    DEF Next, RegisterStep, JobStep, UserCall, Network

\* Every variable keeps its type: an index is a number, a list a sequence.
THEOREM RegistryTypes == Spec => []TypeOK
  BY ListsInit, ListsStep, PTL DEF Spec, ListsInv

\* No caller holds an executor twice, so a round of calls reaches every
\* executor once.
THEOREM ExecutorsAreDistinct == Spec => []NoDuplicates
  BY ListsInit, ListsStep, PTL DEF Spec, ListsInv

-----------------------------------------------------------------------------
(* No node misses a service *)

\* The mutex is taken when it is free.
LEMMA MutexStep ==
  ASSUME TypeOK, MutexHeldForOne, [Next]_vars
  PROVE  MutexHeldForOne'
  <1> USE DEF userVars, registerVars, connVars, jobVars
  <1>0. adding \in [Nodes -> SUBSET Executors]
    BY DEF TypeOK
  <1>1. ASSUME NEW n \in Nodes, NEW e \in Executors, LockCallers(n, e)
        PROVE  MutexHeldForOne'
    BY <1>0, <1>1 DEF LockCallers, MutexHeldForOne
  <1>2. ASSUME NEW n \in Nodes, NEW e \in Executors, AddExecutor(n, e)
        PROVE  MutexHeldForOne'
    BY <1>0, <1>2 DEF AddExecutor, MutexHeldForOne
  <1>3. CASE UNCHANGED adding
    BY <1>3 DEF MutexHeldForOne
  <1>4. \/ \E n \in Nodes, e \in Executors : LockCallers(n, e) \/ AddExecutor(n, e)
        \/ UNCHANGED adding
    BY DEF Next, RegisterStep, JobStep, UserCall, Network, vars,
       CheckCallable, Register, Unregister, UnregisterAll,
       SendServicePortfolioToEndpoint, SendRegistration, Receive, Broadcast,
       Establish, BreakFresh, Break, AddConnection, NoticeClosed,
       SelectNextCallableExecutor
  <1> QED BY <1>1, <1>2, <1>3, <1>4

\* What announces an executor is handed on from job to message to job, until
\* it is added; where it is lost, the connection is no longer open.
LEMMA AnnouncedStep ==
  ASSUME TypeOK, MutexHeldForOne, NEW k \in Nodes, NEW f \in Executors, WillBeKnown(k, f),
         [Next]_vars
  PROVE  WillBeKnown(k, f)'
  <1> USE OwnerAssumption
  <1> DEFINE w == Owner[f]
  <1>0. /\ w \in Nodes
        /\ \A n, m \in Nodes : conn[n][m] \in {"none", "open", "stale"}
        /\ \A n \in Nodes : callers[n] \in Seq(Executors)
        /\ callers \in [Nodes -> Seq(Executors)]
        /\ conn \in [Nodes -> [Nodes -> {"none", "open", "stale"}]]
        /\ adding \in [Nodes -> SUBSET Executors]
    BY DEF TypeOK
  <1> HIDE DEF w
  <1> USE DEF userVars, registerVars, connVars, jobVars
  <1>1. ASSUME NEW n \in Nodes, NEW e \in Executors, CheckCallable(n, e)
        PROVE  WillBeKnown(k, f)'
    <2>1. /\ UNCHANGED <<callers, adding, conn, dropped, jobVars>>
          /\ locking \subseteq locking'
          /\ checking' = checking \ {<<n, e>>}
          /\ IsCallable(n, e) => <<n, e>> \in locking'
      BY <1>1 DEF CheckCallable
    <2>2. conn[n][Owner[e]] = "open" => IsCallable(n, e)
      BY DEF IsCallable
    <2> QED
      BY <1>0, <2>1, <2>2
      DEF WillBeKnown, Announced, Known, Registered, Connected, w
  <1>2. ASSUME NEW n \in Nodes, NEW e \in Executors, LockCallers(n, e)
        PROVE  WillBeKnown(k, f)'
    <2>1. /\ UNCHANGED <<callers, conn, dropped, checking, established,
                         portfolio, msgs>>
          /\ locking' = locking \ {<<n, e>>}
          /\ adding[n] = {}
          /\ adding' = [adding EXCEPT ![n] = {e}]
          /\ broadcasts \subseteq broadcasts'
          /\ Local(n, e) => e \in broadcasts'
      BY <1>2 DEF LockCallers
    <2>2. /\ adding'[n] = {e}
          /\ \A i \in Nodes : i # n => adding'[i] = adding[i]
      BY <1>0, <2>1
    <2> QED
      BY <1>0, <2>1, <2>2
      DEF WillBeKnown, Announced, Known, Registered, Connected, Local, w
  <1>3. ASSUME NEW n \in Nodes, NEW e \in Executors, AddExecutor(n, e)
        PROVE  WillBeKnown(k, f)'
    <2>1. /\ UNCHANGED <<conn, jobVars, checking, locking>>
          /\ dropped' = dropped \ {<<n, e>>}
          /\ e \in adding[n]
          /\ adding' = [adding EXCEPT ![n] = {}]
          /\ callers' = [callers EXCEPT ![n] = Added(callers[n], e)]
      BY <1>3 DEF AddExecutor
    <2>2. /\ adding'[n] = {}
          /\ \A i \in Nodes : i # n => adding'[i] = adding[i]
      BY <1>0, <2>1
    <2>3. /\ Elements(callers'[n]) = Elements(callers[n]) \cup {e}
          /\ \A i \in Nodes : i # n => callers'[i] = callers[i]
      BY <1>0, <2>1, AddedElements
    <2>4. CASE n = k
      <3>1. Known(k, e)'
        BY <2>3, <2>4 DEF Known
      <3>2. f # e => f \notin adding[k]
        BY <2>1, <2>4 DEF MutexHeldForOne
      <3>3. w # k => callers'[w] = callers[w] /\ adding'[w] = adding[w]
        BY <1>0, <2>2, <2>3, <2>4
      <3>4. \A g \in Elements(callers[k]) : g \in Elements(callers'[k])
        BY <2>3, <2>4
      <3> QED
        BY <1>0, <2>1, <2>4, <3>1, <3>2, <3>3, <3>4
        DEF WillBeKnown, Announced, Known, Registered, Connected, w
    <2>5. CASE n # k
      BY <1>0, <2>1, <2>2, <2>3, <2>5
      DEF WillBeKnown, Announced, Known, Registered, Connected, w
    <2> QED BY <2>4, <2>5
  <1>4. ASSUME NEW n \in Nodes, NEW e \in Executors, Unregister(n, e)
        PROVE  WillBeKnown(k, f)'
    <2>1. /\ UNCHANGED <<registerVars, conn, jobVars>>
          /\ dropped \subseteq dropped'
          /\ ~Local(n, e) => <<n, e>> \in dropped'
          /\ callers' = [callers EXCEPT ![n] = Removed(callers[n], e)]
      BY <1>4 DEF Unregister
    <2>2. /\ Elements(callers'[n]) \subseteq Elements(callers[n])
          /\ Elements(callers[n]) \ {e} \subseteq Elements(callers'[n])
          /\ \A i \in Nodes : i # n => callers'[i] = callers[i]
      <3>1. /\ callers'[n] = Removed(callers[n], e)
            /\ \A i \in Nodes : i # n => callers'[i] = callers[i]
        BY <1>0, <2>1
      <3>2. callers[n] \in Seq(Executors)
        BY <1>0
      <3> QED BY <3>1, <3>2, RemovedElements
    <2>3. Registered(f)' => Registered(f)
      BY <1>0, <2>2 DEF Registered, Known, w
    <2>4. Connected(f, k) /\ Known(k, f) => Known(k, f)' \/ <<k, f>> \in dropped'
      BY <2>1, <2>2 DEF Known, Connected, Local
    <2> QED
      BY <2>1, <2>3, <2>4 DEF WillBeKnown, Announced, Connected
  <1>5. ASSUME NEW n \in Nodes, UnregisterAll(n) PROVE WillBeKnown(k, f)'
    <2>1. /\ UNCHANGED <<registerVars, conn, jobVars>>
          /\ dropped' = dropped \cup
                {<<n, e>> : e \in {g \in Elements(callers[n]) : ~Local(n, g)}}
          /\ callers' = [callers EXCEPT ![n] = <<>>]
      BY <1>5 DEF UnregisterAll
    <2>2. /\ Elements(callers'[n]) = {}
          /\ \A i \in Nodes : i # n => callers'[i] = callers[i]
      BY <1>0, <2>1 DEF Elements
    <2>3. Registered(f)' => Registered(f)
      BY <1>0, <2>2 DEF Registered, Known, w
    <2>4. Connected(f, k) /\ Known(k, f) => Known(k, f)' \/ <<k, f>> \in dropped'
      BY <2>1, <2>2 DEF Known, Connected, Local
    <2> QED
      BY <2>1, <2>3, <2>4 DEF WillBeKnown, Announced, Connected
  <1>6. ASSUME NEW e \in Executors, Register(e) PROVE WillBeKnown(k, f)'
    <2>1. /\ UNCHANGED <<callers, dropped, adding, checking, conn, jobVars>>
          /\ locking \subseteq locking'
      BY <1>6 DEF Register
    <2> QED
      BY <2>1 DEF WillBeKnown, Announced, Known, Registered, Connected
  <1>7. ASSUME NEW n \in Nodes, NEW m \in Nodes,
               SendServicePortfolioToEndpoint(n, m)
        PROVE  WillBeKnown(k, f)'
    <2>1. /\ UNCHANGED <<callers, dropped, registerVars, conn, broadcasts, msgs>>
          /\ adding[n] = {}
          /\ established' = established \ {<<n, m>>}
          /\ portfolio' = portfolio \cup
                {<<m, e>> : e \in {g \in Elements(callers[n]) : Local(n, g)}}
      BY <1>7 DEF SendServicePortfolioToEndpoint
    <2>2. n = w /\ f \in Elements(callers[n]) => <<m, f>> \in portfolio'
      BY <2>1 DEF Local, w
    <2> QED
      BY <1>0, <2>1, <2>2
      DEF WillBeKnown, Announced, Known, Registered, Connected, w
  <1>8. ASSUME NEW m \in Nodes, NEW e \in Executors, SendRegistration(m, e)
        PROVE  WillBeKnown(k, f)'
    <2>1. /\ UNCHANGED <<callers, dropped, registerVars, conn, broadcasts,
                         established>>
          /\ portfolio' = portfolio \ {<<m, e>>}
          /\ msgs \subseteq msgs'
          /\ conn[Owner[e]][m] = "open" => <<m, e>> \in msgs'
      BY <1>8 DEF SendRegistration
    <2> QED
      BY <2>1 DEF WillBeKnown, Announced, Known, Registered, Connected
  <1>9. ASSUME NEW m \in Nodes, NEW e \in Executors, Receive(m, e)
        PROVE  WillBeKnown(k, f)'
    <2>1. /\ UNCHANGED <<callers, dropped, adding, locking, conn, broadcasts,
                         established, portfolio>>
          /\ msgs' = msgs \ {<<m, e>>}
          /\ checking' = checking \cup {<<m, e>>}
          /\ conn[m][Owner[e]] = "open"
      BY <1>9 DEF Receive
    <2> QED
      BY <2>1 DEF WillBeKnown, Announced, Known, Registered, Connected
  <1>10. ASSUME NEW e \in Executors, Broadcast(e) PROVE WillBeKnown(k, f)'
    <2>1. /\ UNCHANGED <<callers, dropped, registerVars, conn, portfolio,
                         established>>
          /\ broadcasts' = broadcasts \ {e}
          /\ msgs \subseteq msgs'
          /\ conn[Owner[e]][k] = "open" => <<k, e>> \in msgs'
      BY <1>10 DEF Broadcast
    <2> QED
      BY <2>1 DEF WillBeKnown, Announced, Known, Registered, Connected
  <1>11. ASSUME UNCHANGED <<callers, dropped, registerVars, jobVars>>,
                Connected(f, k)' => Connected(f, k),
                conn[k][w] = "open" => conn'[k][w] = "open"
         PROVE  WillBeKnown(k, f)'
    BY <1>11 DEF WillBeKnown, Announced, Known, Registered, w
  <1>12. ASSUME NEW n \in Nodes, NEW m \in Nodes,
                Establish(n, m) \/ BreakFresh(n, m)
         PROVE  WillBeKnown(k, f)'
    BY <1>11, <1>12 DEF Establish, BreakFresh, Connected
  <1>13. ASSUME NEW n \in Nodes, NEW m \in Nodes, NoticeClosed(n, m)
         PROVE  WillBeKnown(k, f)'
    <2>1. /\ conn[n][m] = "stale"
          /\ conn' = [conn EXCEPT ![n][m] = "none"]
          /\ UNCHANGED <<callers, dropped, registerVars, jobVars>>
      BY <1>13 DEF NoticeClosed
    <2>2. /\ Connected(f, k)' => Connected(f, k)
          /\ conn[k][w] = "open" => conn'[k][w] = "open"
      BY <1>0, <2>1 DEF Connected, w
    <2> QED BY <1>11, <2>1, <2>2
  \* A connection that is lost between other nodes, or these.
  <1>14. ASSUME NEW n \in Nodes, NEW m \in Nodes, LoseMessages(n, m),
                UNCHANGED <<callers, dropped, adding, locking, portfolio,
                            broadcasts>>,
                established \subseteq established',
                {n, m} = {k, w} => \/ ~Connected(f, k)'
                                   \/ <<w, k>> \in established',
                {n, m} # {k, w} => /\ conn'[w][k] = conn[w][k]
                                   /\ conn'[k][w] = conn[k][w]
         PROVE  WillBeKnown(k, f)'
    <2>1. CASE {n, m} = {k, w}
      BY <1>14, <2>1 DEF WillBeKnown, Announced, w
    <2>2. CASE {n, m} # {k, w}
      <3>1. <<k, f>> \in msgs => <<k, f>> \in msgs'
        BY <1>14, <2>2 DEF LoseMessages, w
      <3>2. checking \subseteq checking'
        BY <1>14 DEF LoseMessages
      <3>3. Connected(f, k)' => Connected(f, k)
        BY <1>14, <2>2 DEF Connected, w
      <3>4. conn[k][w] = "open" => conn'[k][w] = "open"
        BY <1>14, <2>2
      <3> QED
        BY <1>14, <3>1, <3>2, <3>3, <3>4
        DEF WillBeKnown, Announced, Known, Registered, w
    <2> QED BY <2>1, <2>2
  <1>15. ASSUME NEW n \in Nodes, NEW m \in Nodes, Break(n, m)
         PROVE  WillBeKnown(k, f)'
    <2>1. /\ conn' = [conn EXCEPT ![n][m] = Broken(@), ![m][n] = Broken(@)]
          /\ n # m
          /\ LoseMessages(n, m)
          /\ UNCHANGED <<callers, dropped, adding, locking, portfolio,
                         broadcasts, established>>
      BY <1>15 DEF Break
    <2>2. /\ conn'[n][m] # "open" /\ conn'[m][n] # "open"
          /\ \A i, j \in Nodes :
                 {i, j} # {n, m} => conn'[i][j] = conn[i][j]
      BY <1>0, <2>1 DEF Broken
    <2>3. {n, m} = {k, w} => ~Connected(f, k)'
      BY <2>2 DEF Connected, w
    <2>4. {n, m} # {k, w} => /\ conn'[w][k] = conn[w][k]
                             /\ conn'[k][w] = conn[k][w]
      BY <1>0, <2>2
    <2> QED BY <1>14, <2>1, <2>3, <2>4
  <1>16. ASSUME NEW n \in Nodes, NEW m \in Nodes, AddConnection(n, m)
         PROVE  WillBeKnown(k, f)'
    <2>1. /\ UNCHANGED <<callers, dropped, adding, locking, portfolio,
                         broadcasts>>
          /\ established' = established \cup {<<n, m>>}
      BY <1>16 DEF AddConnection
    <2>2. CASE conn[n][m] = "open"
      <3>1. /\ conn' = [conn EXCEPT ![n][m] = Entered(fresh[n][m]),
                                    ![m][n] = Broken(@)]
            /\ LoseMessages(n, m)
        BY <1>16, <2>2 DEF AddConnection
      <3>2. /\ n # m => conn'[m][n] # "open"
            /\ \A i, j \in Nodes :
                   {i, j} # {n, m} => conn'[i][j] = conn[i][j]
        BY <1>0, <3>1 DEF Broken
      <3>3. {n, m} = {k, w} => \/ ~Connected(f, k)' \/ <<w, k>> \in established'
        BY <2>1, <3>2 DEF Connected, w
      <3>4. {n, m} # {k, w} => /\ conn'[w][k] = conn[w][k]
                               /\ conn'[k][w] = conn[k][w]
        BY <1>0, <3>2
      <3> QED BY <1>14, <2>1, <3>1, <3>3, <3>4
    <2>3. CASE conn[n][m] # "open"
      <3>1. /\ conn' = [conn EXCEPT ![n][m] = Entered(fresh[n][m])]
            /\ UNCHANGED <<msgs, checking>>
        BY <1>16, <2>3 DEF AddConnection
      <3>2. \A i, j \in Nodes :
                <<i, j>> # <<n, m>> => conn'[i][j] = conn[i][j]
        BY <1>0, <3>1
      <3>3. CASE <<n, m>> = <<w, k>>
        BY <2>1, <3>3 DEF WillBeKnown, Announced, w
      <3>4. CASE <<n, m>> # <<w, k>>
        <4>1. conn'[w][k] = conn[w][k]
          BY <1>0, <3>2, <3>4
        <4>2. conn[k][w] = "open" => conn'[k][w] = "open"
          BY <1>0, <2>3, <3>2
        <4>3. Connected(f, k)' => Connected(f, k)
          BY <4>1 DEF Connected, w
        <4> QED
          BY <2>1, <3>1, <4>2, <4>3
          DEF WillBeKnown, Announced, Known, Registered, w
      <3> QED BY <3>3, <3>4
    <2> QED BY <2>2, <2>3
  <1>17. ASSUME NEW n \in Users, NEW onlyLocal \in BOOLEAN,
                SelectNextCallableExecutor(n, onlyLocal)
         PROVE  WillBeKnown(k, f)'
    BY <1>11, <1>17 DEF SelectNextCallableExecutor, Connected
  <1>18. CASE UNCHANGED vars
    BY <1>11, <1>18 DEF vars, Connected
  <1> QED
    BY <1>1, <1>2, <1>3, <1>4, <1>5, <1>6, <1>7, <1>8, <1>9, <1>10, <1>12,
       <1>13, <1>15, <1>16, <1>17, <1>18
    DEF Next, RegisterStep, JobStep, UserCall, Network

\* The strengthened invariant holds in every state.
THEOREM RegistryInvariant == Spec => []RegistryInv
  <1>1. Init => RegistryInv
    <2> SUFFICES ASSUME Init PROVE RegistryInv
      OBVIOUS
    <2>1. MutexHeldForOne
      BY DEF Init, MutexHeldForOne
    <2>2. \A m \in Nodes, e \in Executors : WillBeKnown(m, e)
      BY OwnerAssumption DEF Init, WillBeKnown, Connected
    <2> QED BY <2>1, <2>2, ListsInit DEF ListsInv, RegistryInv
  <1>2. RegistryInv /\ [Next]_vars => RegistryInv'
    <2> SUFFICES ASSUME RegistryInv, [Next]_vars PROVE RegistryInv'
      OBVIOUS
    <2>1. TypeOK' /\ NoDuplicates'
      BY ListsStep DEF RegistryInv, ListsInv
    <2>2. MutexHeldForOne'
      BY MutexStep DEF RegistryInv
    <2>3. ASSUME NEW m \in Nodes, NEW e \in Executors
          PROVE  WillBeKnown(m, e)'
      BY AnnouncedStep DEF RegistryInv
    <2> QED BY <2>1, <2>2, <2>3 DEF RegistryInv
  <1> QED BY <1>1, <1>2, PTL DEF Spec

\* No node misses a service: a registered executor is known to every
\* connected node or about to be announced to it, however registrations,
\* connections and jobs interleave.
THEOREM NobodyMisses == Spec => []KnownOrAnnounced
  <1>1. RegistryInv => KnownOrAnnounced
    BY DEF RegistryInv, KnownOrAnnounced, WillBeKnown
  <1> QED BY <1>1, RegistryInvariant, PTL

-----------------------------------------------------------------------------
(* Rounds of selections *)

\* A position after some tries, at most as many as there are positions.
LEMMA AfterTries ==
  ASSUME NEW L \in Nat \ {0}, NEW d \in 0 .. L - 1, NEW k \in 1 .. L
  PROVE  (d + k) % L = IF d + k < L THEN d + k ELSE d + k - L
  <1>1. CASE d + k < L
    BY <1>1
  <1>2. CASE ~(d + k < L)
    <2>1. PICK y \in 0 .. L - 1 : d + k = y + L
      <3>1. d + k - L \in 0 .. L - 1 /\ d + k = (d + k - L) + L
        BY <1>2
      <3> QED BY <3>1
    <2>2. (y + L) % L = y
      OBVIOUS
    <2>3. (d + k) % L = y
      BY <2>1, <2>2, Zenon
    <2>4. y = d + k - L
      BY <2>1
    <2> QED BY <1>2, <2>3, <2>4
  <1> QED BY <1>1, <1>2

\* Positions from which selections lead to each other only are all positions
\* of callable executors: the search does not jump over one.
LEMMA RoundsAreComplete ==
  ASSUME NEW n \in Nodes, NEW s \in Seq(Executors), s # <<>>,
         NEW D \in SUBSET (0 .. Len(s) - 1), D # {},
         \A d \in D : NextIndex(n, s, d, FALSE) \in D,
         NEW c \in 0 .. Len(s) - 1, IsCallable(n, s[c + 1])
  PROVE  c \in D
  <1> DEFINE L == Len(s)
  <1>0. L \in Nat \ {0}
    OBVIOUS
  <1>1. ASSUME NEW d \in 0 .. L - 1, NEW k \in 1 .. L
        PROVE  IndexAfter(s, d, k) = IF d + k < L THEN d + k ELSE d + k - L
    <2>1. IndexAfter(s, d, k) = (d + k) % L
      <3>1. d < Len(s)
        BY <1>0
      <3> QED BY <3>1 DEF IndexAfter
    <2> HIDE DEF L
    <2>3. (d + k) % L = IF d + k < L THEN d + k ELSE d + k - L
      BY <1>0, AfterTries
    <2> QED BY <2>1, <2>3
  <1> DEFINE T == {k \in 1 .. L : \E d \in D : IndexAfter(s, d, k) = c}
  <1>2. T \in SUBSET Nat
    BY <1>0
  <1>3. T # {}
    <2>1. PICK d \in D : TRUE
      OBVIOUS
    <2>2. d \in 0 .. L - 1 /\ c \in 0 .. L - 1
      OBVIOUS
    <2> HIDE DEF L
    <2>3. CASE d < c
      <3>1. c - d \in 1 .. L /\ IndexAfter(s, d, c - d) = c
        BY <1>0, <1>1, <2>2, <2>3
      <3> QED BY <3>1
    <2>4. CASE d >= c
      <3>1. c - d + L \in 1 .. L /\ IndexAfter(s, d, c - d + L) = c
        BY <1>0, <1>1, <2>2, <2>4
      <3> QED BY <3>1
    <2> QED BY <1>0, <2>2, <2>3, <2>4
  <1>4. PICK k \in T : \A j \in T : k <= j
    <2> HIDE DEF T
    <2> QED BY <1>2, <1>3, LeastHit
  <1>5. PICK d \in D : IndexAfter(s, d, k) = c
    BY <1>4
  <1>6. d \in 0 .. L - 1 /\ k \in 1 .. L
    BY <1>4
  <1> DEFINE hits == Hits(n, s, d, FALSE)
             first == CHOOSE i \in hits : \A j \in hits : i <= j
  <1>7. k \in hits /\ hits \subseteq 1 .. L
    BY <1>5, <1>6 DEF Hits
  <1>8. first \in hits /\ \A j \in hits : first <= j
    <2> HIDE DEF hits
    <2>1. hits \in SUBSET Nat
      BY <1>0, <1>7
    <2> QED BY <1>7, <2>1, LeastHit
  <1>9. NextIndex(n, s, d, FALSE) = IndexAfter(s, d, first)
    BY <1>7 DEF NextIndex
  <1> HIDE DEF hits, first, L
  <1>10. first \in 1 .. L /\ first <= k /\ IndexAfter(s, d, first) \in D
    BY <1>7, <1>8, <1>9
  <1>11. CASE first = k
    BY <1>5, <1>10, <1>11
  <1>12. CASE first < k
    <2> DEFINE e == IndexAfter(s, d, first)
    <2>1. e = (IF d + first < L THEN d + first ELSE d + first - L) /\ e \in 0 .. L - 1
      BY <1>0, <1>1, <1>6, <1>10
    <2>2. c = IF d + k < L THEN d + k ELSE d + k - L
      BY <1>1, <1>5, <1>6
    <2>3. k - first \in 1 .. L
      BY <1>0, <1>6, <1>10, <1>12
    <2>4. IndexAfter(s, e, k - first)
             = IF e + (k - first) < L THEN e + (k - first) ELSE e + (k - first) - L
      BY <1>1, <2>1, <2>3
    <2>5. IndexAfter(s, e, k - first) = c
      <3> HIDE DEF e
      <3> QED BY <1>0, <1>6, <1>10, <1>12, <2>1, <2>2, <2>3, <2>4
    <2>6. k - first \in T
      BY <1>10, <2>3, <2>5
    <2> QED BY <1>0, <1>4, <1>6, <1>10, <2>6
  <1> QED BY <1>0, <1>6, <1>10, <1>11, <1>12

\* The positions that selections end at, one after the other; from 0.
IsRound(n, s, start, L, last) ==
    last = [i \in 0 .. L |->
               IF i = 0 THEN start ELSE NextIndex(n, s, last[i - 1], FALSE)]

\* The executors at the first k of them.
Selected(s, last, k) == {s[last[i] + 1] : i \in 1 .. k}

\* Rounds are well defined.
LEMMA RoundExists ==
  ASSUME NEW n, NEW s, NEW start, NEW L \in Nat
  PROVE  \E last : IsRound(n, s, start, L, last)
  <1> DEFINE Good(f, m) == IsRound(n, s, start, m, f)
             T == {m \in 0 .. L : ~\E f : Good(f, m)}
  <1> SUFFICES ASSUME T # {} PROVE FALSE
    <2> HIDE DEF Good
    <2>1. L \in 0 .. L
      OBVIOUS
    <2>2. (\E f : Good(f, L)) \/ L \in T
      BY <2>1
    <2> QED BY <2>2 DEF Good
  <1>1. T \in SUBSET Nat
    OBVIOUS
  <1>2. PICK m \in T : \A j \in T : m <= j
    <2> HIDE DEF T
    <2> QED BY <1>1, LeastHit
  <1>3. CASE m = 0
    <2>1. Good([i \in 0 .. 0 |-> start], 0)
      BY DEF IsRound
    <2> HIDE DEF Good
    <2> QED BY <1>2, <1>3, <2>1
  <1>4. CASE m # 0
    <2>1. m \in Nat /\ m - 1 \in 0 .. L /\ ~(m <= m - 1)
      BY <1>2, <1>4
    <2>2. PICK f : Good(f, m - 1)
      <3> HIDE DEF Good
      <3> QED BY <1>2, <2>1
    <2> DEFINE end == NextIndex(n, s, f[m - 1], FALSE)
               g == [i \in 0 .. m |-> IF i = m THEN end ELSE f[i]]
    <2>3. \A i \in 0 .. m :
              g[i] = IF i = 0 THEN start ELSE NextIndex(n, s, g[i - 1], FALSE)
      <3> TAKE i \in 0 .. m
      <3>1. CASE i = m
        <4>0. i - 1 \in 0 .. m /\ i - 1 # m
          BY <1>4, <2>1, <3>1
        <4>1. g[i - 1] = f[m - 1] /\ g[i] = end
          BY <3>1, <4>0
        <4> HIDE DEF g
        <4> QED BY <1>4, <3>1, <4>1
      <3>2. CASE i # m
        <4>1. i \in 0 .. m - 1
          BY <2>1, <3>2
        <4>2. f[i] = IF i = 0 THEN start ELSE NextIndex(n, s, f[i - 1], FALSE)
          BY <2>2, <4>1 DEF IsRound
        <4>0. i # 0 => i - 1 \in 0 .. m /\ i - 1 # m
          BY <2>1, <3>2
        <4>3. g[i] = f[i] /\ (i # 0 => g[i - 1] = f[i - 1])
          BY <3>2, <4>0
        <4> HIDE DEF g
        <4> QED BY <4>2, <4>3
      <3> QED BY <3>1, <3>2
    <2>4. g = [i \in 0 .. m |-> g[i]]
      OBVIOUS
    <2> HIDE DEF g
    <2>5. Good(g, m)
      BY <2>3, <2>4 DEF IsRound
    <2> HIDE DEF Good
    <2> QED BY <1>2, <2>5
  <1> QED BY <1>3, <1>4

\* As many selections as there are callable executors select them all.
LEMMA RoundSelectsAll ==
  ASSUME NEW n \in Nodes, NEW s \in Seq(Executors), Distinct(s),
         NEW start \in Nat,
         NEW last, IsRound(n, s, start, Len(s), last),
         NEW callable, callable = {e \in Elements(s) : IsCallable(n, e)}
  PROVE  callable = Selected(s, last, Cardinality(callable))
  <1> SUFFICES callable = {s[last[i] + 1] : i \in 1 .. Cardinality(callable)}
    BY DEF Selected
  <1> DEFINE L == Len(s)
             K == Cardinality(callable)
             selected == {s[last[i] + 1] : i \in 1 .. K}
  <1>1. L \in Nat
    OBVIOUS
  <1>2. IsFiniteSet(callable) /\ K \in Nat /\ K <= L
    <2>1. s \in Surjection(1 .. L, Elements(s))
      BY DEF Elements, Surjection
    <2>2. IsFiniteSet(1 .. L) /\ Cardinality(1 .. L) = L
      <3> HIDE DEF L
      <3> QED BY <1>1, FS_Interval
    <2>3. IsFiniteSet(Elements(s)) /\ Cardinality(Elements(s)) <= L
      BY <2>1, <2>2, FS_Surjection
    <2>4. callable \in SUBSET Elements(s)
      OBVIOUS
    <2>5. IsFiniteSet(callable) /\ K <= Cardinality(Elements(s))
      BY <2>3, <2>4, FS_Subset
    <2>6. K \in Nat /\ Cardinality(Elements(s)) \in Nat
      BY <2>3, <2>5, FS_CardinalityType
    <2> QED BY <1>1, <2>3, <2>5, <2>6
  <1>3. CASE K = 0
    <2>1. callable = {}
      BY <1>2, <1>3, FS_EmptySet
    <2> QED BY <1>3, <2>1
  <1>4. CASE K # 0
    <2>1. PICK e \in Elements(s) : IsCallable(n, e)
      BY <1>2, <1>4, FS_EmptySet
    <2>2. s # <<>>
      BY <2>1 DEF Elements
    <2>3. last[0] = start
          /\ \A i \in 1 .. L : last[i] = NextIndex(n, s, last[i - 1], FALSE)
      BY <1>1 DEF IsRound
    <2>4. \A i \in 0 .. L : last[i] \in Nat
      <3> DEFINE T == {i \in 0 .. L : last[i] \notin Nat}
      <3> SUFFICES ASSUME T # {} PROVE FALSE
        OBVIOUS
      <3>1. PICK i \in T : \A j \in T : i <= j
        <4>1. T \in SUBSET Nat
          OBVIOUS
        <4> HIDE DEF T
        <4> QED BY <4>1, LeastHit
      <3>2. i \in 1 .. L /\ i - 1 \in 0 .. L /\ ~(i <= i - 1)
        BY <1>1, <2>3, <3>1
      <3>3. last[i - 1] \in Nat
        BY <3>1, <3>2
      <3>4. last[i] \in Nat
        BY <2>3, <3>2, <3>3, NextIndexInList
      <3> QED BY <3>1, <3>4
    <2>5. ASSUME NEW i \in 1 .. L
          PROVE  /\ last[i] \in 0 .. L - 1
                 /\ s[last[i] + 1] \in callable
      <3>1. i - 1 \in 0 .. L
        BY <1>1
      <3>2. last[i - 1] \in Nat /\ last[i] = NextIndex(n, s, last[i - 1], FALSE)
        BY <2>3, <2>4, <3>1
      <3>3. last[i] \in 0 .. L - 1
        BY <2>2, <3>2, NextIndexInList
      <3>4. IsCallable(n, s[last[i] + 1])
        BY <2>1, <3>2, SelectionFinds
      <3>5. s[last[i] + 1] \in Elements(s)
        BY <1>1, <3>3 DEF Elements
      <3> QED BY <3>3, <3>4, <3>5
    <2>6. selected \subseteq callable
      BY <1>1, <1>2, <2>5
    <2>7. ASSUME selected # callable PROVE FALSE
      <3>1. IsFiniteSet(selected) /\ Cardinality(selected) < K
        <4>1. /\ IsFiniteSet(selected)
              /\ Cardinality(selected) <= K /\ Cardinality(selected) # K
          BY <1>2, <2>6, <2>7, FS_Subset
        <4>2. Cardinality(selected) \in Nat
          BY <4>1, FS_CardinalityType
        <4> HIDE DEF selected, K
        <4> QED BY <1>2, <4>1, <4>2
      <3>2. IsFiniteSet(1 .. K) /\ Cardinality(1 .. K) = K
        BY <1>2, FS_Interval
      <3> DEFINE f == [i \in 1 .. K |-> s[last[i] + 1]]
      <3>3. f \in [1 .. K -> selected]
        OBVIOUS
      <3>4. \E x, y \in 1 .. K : x # y /\ f[x] = f[y]
        <4> HIDE DEF f, selected, K
        <4> QED BY <3>1, <3>2, <3>3, FS_PigeonHole
      <3>5. PICK i, j \in 1 .. K : i < j /\ f[i] = f[j]
        <4> HIDE DEF f, K
        <4> QED BY <1>2, <3>4
      <3>6. i \in 1 .. L /\ j \in 1 .. L /\ i < j /\ j <= K
        BY <1>1, <1>2, <3>5
      <3>7. last[i] = last[j]
        <4>1. s[last[i] + 1] = s[last[j] + 1]
          BY <3>5
        <4>2. last[i] + 1 \in DOMAIN s /\ last[j] + 1 \in DOMAIN s
          BY <1>1, <2>5, <3>6
        <4>3. last[i] + 1 = last[j] + 1
          BY <4>1, <4>2 DEF Distinct
        <4> QED BY <2>5, <3>6, <4>3
      <3> DEFINE D == {last[m] : m \in i .. j - 1}
      <3>8. D \in SUBSET (0 .. L - 1) /\ last[i] \in D
        BY <1>1, <2>5, <3>6
      <3>9. ASSUME NEW d \in D PROVE NextIndex(n, s, d, FALSE) \in D
        <4>1. PICK m \in i .. j - 1 : d = last[m]
          BY <3>9
        <4>2. m + 1 \in 1 .. L /\ (m + 1) - 1 = m
          BY <1>1, <3>6
        <4>3. NextIndex(n, s, d, FALSE) = last[m + 1]
          BY <2>3, <4>1, <4>2
        <4>4. CASE m + 1 = j
          BY <3>7, <3>8, <4>3, <4>4
        <4>5. CASE m + 1 # j
          <5>1. m + 1 \in i .. j - 1
            BY <3>6, <4>5
          <5> QED BY <4>3, <5>1
        <4> QED BY <4>4, <4>5
      <3>10. callable \subseteq selected
        <4> SUFFICES ASSUME NEW x \in callable PROVE x \in selected
          OBVIOUS
        <4>1. PICK p \in 1 .. L : s[p] = x
          BY DEF Elements
        <4>2. p - 1 \in 0 .. L - 1 /\ s[(p - 1) + 1] = x /\ IsCallable(n, x)
          BY <1>1, <4>1
        <4>3. p - 1 \in D
          <5> HIDE DEF D
          <5> QED BY <2>2, <3>8, <3>9, <4>2, RoundsAreComplete
        <4>4. PICK m \in i .. j - 1 : p - 1 = last[m]
          BY <4>3
        <4>5. m \in 1 .. K
          BY <1>2, <3>6
        <4> QED BY <4>2, <4>4, <4>5
      <3> QED BY <2>6, <2>7, <3>10
    <2> QED BY <2>7
  <1> QED BY <1>2, <1>3, <1>4

\* A round of selections is fair: whatever has been added and removed and
\* wherever the index was left, as many selections as there are callable
\* executors select each of them (SelectNextCallableExecutor).
THEOREM RoundsAreFair == Spec => []RoundIsFair
  <1>1. RegistryInv => RoundIsFair
    <2> SUFFICES ASSUME RegistryInv, NEW n \in Nodes
                 PROVE  LET s == callers[n]
                            callable == {e \in Elements(s) : IsCallable(n, e)}
                            last[i \in 0 .. Len(s)] ==
                                IF i = 0 THEN lastIndex[n]
                                ELSE NextIndex(n, s, last[i - 1], FALSE)
                        IN  callable = {s[last[i] + 1] : i \in 1 .. Cardinality(callable)}
      BY DEF RoundIsFair
    <2> DEFINE s == callers[n]
               callable == {e \in Elements(s) : IsCallable(n, e)}
               last[i \in 0 .. Len(s)] ==
                   IF i = 0 THEN lastIndex[n] ELSE NextIndex(n, s, last[i - 1], FALSE)
    <2>1. s \in Seq(Executors) /\ Distinct(s) /\ lastIndex[n] \in Nat
      BY DEF RegistryInv, TypeOK, NoDuplicates, Distinct
    <2>2. IsRound(n, s, lastIndex[n], Len(s), last)
      <3> DEFINE Good(f) == IsRound(n, s, lastIndex[n], Len(s), f)
      <3>1. Len(s) \in Nat
        BY <2>1
      <3>2. \E f : Good(f)
        <4> HIDE DEF s
        <4> QED BY <3>1, RoundExists
      <3>3. Good(CHOOSE f : Good(f))
        <4> HIDE DEF Good
        <4> QED BY <3>2
      <3>4. last = CHOOSE f : Good(f)
        BY DEF IsRound
      <3> HIDE DEF last, Good
      <3>5. Good(last)
        BY <3>3, <3>4
      <3> QED BY <3>5 DEF Good
    <2>3. callable = Selected(s, last, Cardinality(callable))
      <3>1. callable = {e \in Elements(s) : IsCallable(n, e)}
        OBVIOUS
      <3> HIDE DEF last, s, callable
      <3> QED BY <2>1, <2>2, <3>1, RoundSelectsAll
    <2> QED BY <2>3 DEF Selected
  <1> QED BY <1>1, RegistryInvariant, PTL

=============================================================================
