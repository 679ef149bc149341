-------------------------- MODULE Subsystems_proofs --------------------------
(***************************************************************************)
(* Theorems about the subsystems above the jobs: events and properties,    *)
(* resources, plugins, rendering, the tiled renderer, messages and the     *)
(* application, for any listeners, loaders, requests, plugins and          *)
(* services.  They are stated of the specification that the runs check, in *)
(* which one of the subsystems moves.                                      *)
(***************************************************************************)
EXTENDS MCSubsystems, FiniteSetTheorems, WellFoundedInduction, TLAPS

-----------------------------------------------------------------------------
(* Events *)

\* A set of positions of a list has a least one.
LEMMA LeastPosition ==
  ASSUME NEW T \in SUBSET Nat, T # {}
  PROVE  \E k \in T : \A j \in T : k <= j
  <1>1. PICK k \in T : \A j \in T : ~(<<j, k>> \in OpToRel(<, Nat))
    BY NatLessThanWellFounded, WFMin
  <1>2. ASSUME NEW j \in T, j < k PROVE FALSE
    <2>1. <<j, k>> \in Nat \X Nat /\ <<j, k>>[1] = j /\ <<j, k>>[2] = k
      OBVIOUS
    <2>2. <<j, k>> \in OpToRel(<, Nat)
      BY <1>2, <2>1, Zenon DEF OpToRel
    <2> QED BY <1>1, <2>2, Zenon
  <1> QED BY <1>2

\* Taking entries out of a list leaves entries of that list.
LEMMA WithoutFits ==
  ASSUME NEW E, NEW list \in Seq(E), NEW positions
  PROVE  Ev!Without(list, positions) \in Seq(E)
  <1> DEFINE N == Len(list)
             Good(f, n) == f = [k \in 0 .. n |->
                 IF k = 0 THEN <<>>
                 ELSE IF k \in positions THEN f[k - 1]
                 ELSE Append(f[k - 1], list[k])]
             left == CHOOSE f : Good(f, N)
  <1>0. N \in Nat /\ \A k \in 1 .. N : list[k] \in E
    OBVIOUS
  <1>1. \E f : Good(f, N)
    <2> DEFINE T == {n \in 0 .. N : ~\E f : Good(f, n)}
    <2> SUFFICES ASSUME T # {} PROVE FALSE
      <3> HIDE DEF Good, N
      <3>1. N \in 0 .. N
        BY <1>0
      <3> QED BY <3>1
    <2>0. T \in SUBSET Nat
      BY <1>0
    <2>1. PICK n \in T : \A m \in T : n <= m
      <3> HIDE DEF T
      <3> QED BY <2>0, LeastPosition
    <2>2. n \in 0 .. N /\ \A m \in 0 .. N : m < n => \E f : Good(f, m)
      <3> HIDE DEF Good, N
      <3>1. n \in 0 .. N /\ \A m \in 0 .. N : m \in T \/ \E f : Good(f, m)
        BY <2>1
      <3>2. \A m \in 0 .. N : m < n => m \notin T
        BY <1>0, <2>1
      <3> QED BY <3>1, <3>2
    <2>3. CASE n = 0
      <3>1. Good([k \in 0 .. 0 |-> <<>>], 0)
        OBVIOUS
      <3> HIDE DEF Good
      <3> QED BY <2>1, <2>3, <3>1
    <2>4. CASE n # 0
      <3>0. n \in Nat /\ n - 1 \in 0 .. N /\ n - 1 < n
        BY <1>0, <2>2, <2>4
      <3>1. PICK f : Good(f, n - 1)
        BY <2>2, <3>0
      <3> DEFINE last == IF n \in positions THEN f[n - 1]
                         ELSE Append(f[n - 1], list[n])
                 g == [k \in 0 .. n |-> IF k = n THEN last ELSE f[k]]
      <3>2. \A k \in 0 .. n : g[k] = IF k = 0 THEN <<>>
                 ELSE IF k \in positions THEN g[k - 1]
                 ELSE Append(g[k - 1], list[k])
        <4> TAKE k \in 0 .. n
        <4>1. CASE k = n
          <5>1. k - 1 \in 0 .. n /\ k - 1 # n
            BY <3>0, <4>1
          <5>2. g[k - 1] = f[n - 1] /\ g[k] = last
            BY <4>1, <5>1
          <5> HIDE DEF g
          <5> QED BY <2>4, <4>1, <5>2
        <4>2. CASE k # n
          <5>1. k \in 0 .. n - 1
            BY <3>0, <4>2
          <5>2. f[k] = IF k = 0 THEN <<>>
                 ELSE IF k \in positions THEN f[k - 1]
                 ELSE Append(f[k - 1], list[k])
            BY <3>1, <5>1
          <5>3. g[k] = f[k]
            BY <4>2
          <5>4. k # 0 => g[k - 1] = f[k - 1]
            BY <3>0, <4>2, <5>1
          <5> HIDE DEF g
          <5> QED BY <5>2, <5>3, <5>4
        <4> QED BY <4>1, <4>2
      <3>3. g = [k \in 0 .. n |-> g[k]]
        OBVIOUS
      <3> HIDE DEF g
      <3>4. Good(g, n)
        BY <3>2, <3>3
      <3> HIDE DEF Good
      <3> QED BY <2>1, <3>4
    <2> QED BY <2>3, <2>4
  <1>2. Good(left, N)
    <2> HIDE DEF Good
    <2> QED BY <1>1
  <1>3. Ev!Without(list, positions) = left[N]
    BY DEF Ev!Without
  <1>4. /\ left[0] = <<>>
        /\ \A k \in 1 .. N : left[k] = IF k \in positions THEN left[k - 1]
                                       ELSE Append(left[k - 1], list[k])
    <2> HIDE DEF left, N
    <2>1. \A k \in 0 .. N : left[k] = IF k = 0 THEN <<>>
                 ELSE IF k \in positions THEN left[k - 1]
                 ELSE Append(left[k - 1], list[k])
      BY <1>2
    <2> QED BY <1>0, <2>1
  <1> HIDE DEF left, N
  <1>5. \A n \in 0 .. N : left[n] \in Seq(E)
    <2> DEFINE T == {n \in 0 .. N : left[n] \notin Seq(E)}
    <2> SUFFICES ASSUME T # {} PROVE FALSE
      OBVIOUS
    <2>0. T \in SUBSET Nat
      BY <1>0
    <2>1. PICK n \in T : \A m \in T : n <= m
      <3> HIDE DEF T
      <3> QED BY <2>0, LeastPosition
    <2>2. CASE n = 0
      <3>1. left[n] = <<>> /\ left[n] \notin Seq(E)
        BY <1>4, <2>1, <2>2
      <3>2. <<>> \in Seq(E)
        OBVIOUS
      <3> QED BY <3>1, <3>2
    <2>3. CASE n # 0
      <3>1. n \in 1 .. N /\ n - 1 \in 0 .. N /\ ~(n <= n - 1)
        BY <1>0, <2>1, <2>3
      <3>2. left[n - 1] \in Seq(E)
        BY <2>1, <3>1
      <3>3. left[n] \in Seq(E)
        <4>1. Append(left[n - 1], list[n]) \in Seq(E)
          BY <1>0, <3>1, <3>2
        <4>2. left[n] = IF n \in positions THEN left[n - 1]
                        ELSE Append(left[n - 1], list[n])
          BY <1>4, <3>1
        <4> QED BY <3>2, <4>1, <4>2
      <3> QED BY <2>1, <3>3
    <2> QED BY <2>2, <2>3
  <1>6. N \in 0 .. N
    BY <1>0
  <1> QED BY <1>3, <1>5, <1>6

LEMMA WithoutKeeps ==
  ASSUME NEW E, NEW list \in Seq(E), NEW positions
  PROVE  \A i \in DOMAIN Ev!Without(list, positions) :
             \E k \in DOMAIN list : Ev!Without(list, positions)[i] = list[k]
  <1> DEFINE F == {list[k] : k \in DOMAIN list}
  <1>1. list \in Seq(F)
    OBVIOUS
  <1>2. Ev!Without(list, positions) \in Seq(F)
    BY <1>1, WithoutFits
  <1> QED BY <1>2

\* What the theorems use of the constants.
LEMMA PathsOK ==
  /\ MaxChanges \in Nat
  /\ <<>> \notin Paths
  /\ \A p \in Paths : Len(p) \in Nat \ {0}
  /\ \A p \in Paths : \A n \in 1 .. Len(p) : SubSeq(p, 1, n) \in Paths
  <1>1. /\ MaxChanges \in Nat /\ Paths \subseteq Seq(STRING)
        /\ \A p \in Paths : p # <<>> /\ \A n \in 1 .. Len(p) : SubSeq(p, 1, n) \in Paths
    BY SubsystemsAssumption DEF Ev!ConstantsOK
  <1>2. \A p \in Paths : Len(p) \in Nat \ {0}
    BY <1>1
  <1> QED BY <1>1, <1>2

LEMMA EventsInvInit ==
  ASSUME Ev!Init
  PROVE  Ev!EventsInv
  <1> USE PathsOK DEF Ev!Init
  <1>1. Ev!TypeOK
    <2>1. <<>> \in Seq(Listeners)
      OBVIOUS
    <2>2. 0 \in 0 .. MaxChanges
      OBVIOUS
    <2>3. subscribers \in [Paths -> Seq(Listeners)]
      BY <2>1
    <2>4. /\ seen \in [Listeners -> [Paths -> 0 .. MaxChanges]]
          /\ since \in [Listeners -> [Paths -> 0 .. MaxChanges]]
          /\ values \in [Paths -> 0 .. MaxChanges]
      BY <2>2
    <2> QED BY <2>2, <2>3, <2>4 DEF Ev!TypeOK, Ev!NotSetting, Ev!NoTopics
  <1>2. Ev!ChangesOK
    BY DEF Ev!ChangesOK, Ev!NotSetting
  <1>3. Ev!NoChangeIsMissed
    BY DEF Ev!NoChangeIsMissed, Ev!HasListener
  <1> QED BY <1>1, <1>2, <1>3 DEF Ev!EventsInv

\* Every step of the broker, the provider and the listeners keeps the types
\* and the numbers of the changes.
LEMMA EventsTypesStep ==
  ASSUME Ev!EventsInv, [Ev!Next]_(Ev!vars)
  PROVE  Ev!TypeOK' /\ Ev!ChangesOK'
  <1> USE PathsOK
      DEF Ev!EventsInv, Ev!ChangesOK, Ev!TypeOK, Ev!brokerVars,
          Ev!propertyVars, Ev!history, Ev!NotSetting, Ev!NoTopics
  <1>1. ASSUME NEW l \in Listeners, NEW p \in Paths, Ev!RegisterListener(l, p)
        PROVE  Ev!TypeOK' /\ Ev!ChangesOK'
    <2>1. Append(subscribers[p], l) \in Seq(Listeners)
      OBVIOUS
    <2>2. subscribers' \in [Paths -> Seq(Listeners)]
      BY <1>1, <2>1 DEF Ev!RegisterListener
    <2>3. since' \in [Listeners -> [Paths -> 0 .. MaxChanges]]
      BY <1>1 DEF Ev!RegisterListener
    <2> QED BY <1>1, <2>2, <2>3 DEF Ev!RegisterListener
  <1>2. ASSUME NEW l \in Listeners, Ev!UnregisterListener(l) \/ Ev!Expire(l)
        PROVE  Ev!TypeOK' /\ Ev!ChangesOK'
    BY <1>2 DEF Ev!UnregisterListener, Ev!Expire
  <1>3. ASSUME NEW l \in Listeners, NEW p \in Paths,
               Ev!RemoveListenerFromTopic(l, p)
        PROVE  Ev!TypeOK' /\ Ev!ChangesOK'
    <2> DEFINE scan == Ev!Scan(subscribers[p], l)
    <2>1. scan.left \in Seq(Listeners) /\ scan.past \in BOOLEAN
      BY WithoutFits DEF Ev!Scan
    <2> HIDE DEF scan
    <2>2. subscribers' = [subscribers EXCEPT ![p] = scan.left]
      BY <1>3 DEF Ev!RemoveListenerFromTopic, scan
    <2>3. overrun' = scan.past
      BY <1>3 DEF Ev!RemoveListenerFromTopic, scan
    <2> QED BY <1>3, <2>1, <2>2, <2>3 DEF Ev!RemoveListenerFromTopic
  <1>4. CASE Ev!UnregisterReturns
    BY <1>4 DEF Ev!UnregisterReturns
  <1>5. CASE Ev!CleanUpSubscribers
    <2>1. \A p \in Paths :
              Ev!Without(subscribers[p], Ev!Expired(subscribers[p])) \in Seq(Listeners)
      BY WithoutFits
    <2> QED BY <1>5, <2>1 DEF Ev!CleanUpSubscribers
  <1>6. CASE Ev!DestroyBroker
    <2>1. <<>> \in Seq(Listeners)
      OBVIOUS
    <2>2. subscribers' \in [Paths -> Seq(Listeners)]
      BY <1>6, <2>1 DEF Ev!DestroyBroker
    <2> QED BY <1>6, <2>2 DEF Ev!DestroyBroker
  <1>7. ASSUME NEW j \in jobs, Ev!RunEvent(j)
        PROVE  Ev!TypeOK' /\ Ev!ChangesOK'
    <2>1. j.to \in Listeners /\ j.key \in Paths
      OBVIOUS
    <2>2. seen' \in [Listeners -> [Paths -> 0 .. MaxChanges]]
      BY <1>7, <2>1 DEF Ev!RunEvent
    <2> QED BY <1>7, <2>2 DEF Ev!RunEvent
  <1>8. ASSUME NEW key \in Paths, Ev!Put(key)
        PROVE  Ev!TypeOK' /\ Ev!ChangesOK'
    BY <1>8 DEF Ev!Put
  <1>9. CASE Ev!Notify
    <2>1. setting.key \in Paths /\ setting.next \in Nat \ {0}
      BY <1>9 DEF Ev!Notify
    <2>2. CASE setting.next > Len(setting.key)
      BY <1>9, <2>1, <2>2 DEF Ev!Notify, Ev!NotifiedPaths, Ev!Subpaths
    <2>3. CASE ~(setting.next > Len(setting.key))
      <3> DEFINE topic == SubSeq(setting.key, 1, setting.next)
      <3>0. Len(setting.key) \in Nat /\ setting.next \in 1 .. Len(setting.key)
        BY <2>1, <2>3
      <3>1. topic \in Paths
        BY ONLY <2>1, <3>0, PathsOK
      <3>2. Ev!FireEvent(topic, setting.key)
        BY <1>9, <2>1, <2>3 DEF Ev!Notify, Ev!NotifiedPaths, Ev!Subpaths
      <3>3. setting' = [key |-> setting.key, next |-> setting.next + 1]
        BY <1>9, <2>1, <2>3 DEF Ev!Notify, Ev!NotifiedPaths, Ev!Subpaths
      <3>4. values[setting.key] \in 1 .. MaxChanges
        BY <1>9, <2>1 DEF Ev!Notify
      <3> HIDE DEF topic
      <3>5. jobs' \in SUBSET [to : Listeners, topic : Paths, key : Paths,
                              change : 1 .. MaxChanges]
        BY <2>1, <3>1, <3>2, <3>4 DEF Ev!FireEvent, Ev!Event
      <3>6. UNCHANGED <<broker, overrun, subscribers, values, changes, live,
                        removing, seen, since>>
        BY <1>9 DEF Ev!Notify
      <3>7. /\ setting'.key \in Paths /\ setting'.next \in Nat \ {0}
            /\ values[setting'.key] > 0
            /\ setting' = [key |-> setting'.key, next |-> setting'.next]
        BY <2>1, <3>3, <3>4
      <3> QED BY <3>5, <3>6, <3>7
    <2> QED BY <2>2, <2>3
  <1>10. CASE UNCHANGED Ev!vars
    BY <1>10 DEF Ev!vars
  <1> QED BY <1>1, <1>2, <1>3, <1>4, <1>5, <1>6, <1>7, <1>8, <1>9, <1>10
          DEF Ev!Next, Ev!ListenerStep

\* No step lets a listener miss a change.
LEMMA ChangesStep ==
  ASSUME Ev!EventsInv, [Ev!Next]_(Ev!vars)
  PROVE  Ev!NoChangeIsMissed'
  <1> USE DEF Ev!EventsInv, Ev!brokerVars, Ev!propertyVars, Ev!history
  <1>0. Ev!TypeOK' /\ Ev!ChangesOK' /\ live \subseteq Listeners
    BY EventsTypesStep DEF Ev!TypeOK
  <1> DEFINE Knows(l, topic, key) ==
                 \/ seen[l][key] = values[key]
                 \/ \E j \in jobs : j.to = l /\ j.key = key
                 \/ values[key] <= since[l][topic]
                 \/ Ev!WillNotify(topic, key)
  <1>1. ASSUME NEW l \in live', NEW topic \in Paths, NEW key \in Paths,
               Ev!HasListener(l, topic)', Ev!IsPrefix(topic, key)
        PROVE  Knows(l, topic, key)'
    <2>0. Ev!HasListener(l, topic) => Knows(l, topic, key)
      BY <1>1 DEF Ev!NoChangeIsMissed, Ev!HasListener
    <2>1. ASSUME NEW m \in Listeners, NEW p \in Paths, Ev!RegisterListener(m, p)
          PROVE  Knows(l, topic, key)'
      <3>1. CASE Ev!HasListener(l, topic)
        BY <2>0, <2>1, <3>1, <1>0
           DEF Ev!RegisterListener, Ev!TypeOK, Ev!ChangesOK, Ev!WillNotify
      <3>2. CASE ~Ev!HasListener(l, topic)
        <4>1. l = m /\ topic = p
          <5>1. /\ subscribers \in [Paths -> Seq(Listeners)]
                /\ subscribers' = [subscribers EXCEPT ![p] = Append(@, m)]
                /\ live' = live
            BY <2>1 DEF Ev!RegisterListener, Ev!TypeOK
          <5>2. PICK i \in DOMAIN subscribers'[topic] : subscribers'[topic][i] = l
            BY <1>1 DEF Ev!HasListener
          <5>3. ~\E k \in DOMAIN subscribers[topic] : subscribers[topic][k] = l
            BY <1>1, <3>2, <5>1 DEF Ev!HasListener
          <5>4. topic = p
            BY <5>1, <5>2, <5>3
          <5>5. subscribers'[topic] = Append(subscribers[topic], m)
            BY <5>1, <5>4
          <5>6. subscribers[topic] \in Seq(Listeners)
            BY <5>1
          <5> QED BY ONLY <2>1, <5>2, <5>3, <5>4, <5>5, <5>6
        <4>2. since'[l][topic] = changes /\ values' = values
          BY <2>1, <4>1 DEF Ev!RegisterListener, Ev!TypeOK
        <4> QED BY <4>2 DEF Ev!ChangesOK
      <3> QED BY <3>1, <3>2
    <2>2. ASSUME Ev!HasListener(l, topic),
                 UNCHANGED <<values, setting, changes, jobs, seen, since>>
          PROVE  Knows(l, topic, key)'
      BY <2>0, <2>2 DEF Ev!WillNotify
    <2>3. ASSUME NEW m \in Listeners, Ev!UnregisterListener(m) \/ Ev!Expire(m)
          PROVE  Knows(l, topic, key)'
      BY <1>1, <2>2, <2>3 DEF Ev!UnregisterListener, Ev!Expire, Ev!HasListener
    <2>4. ASSUME NEW m \in Listeners, NEW p \in Paths,
                 Ev!RemoveListenerFromTopic(m, p)
          PROVE  Knows(l, topic, key)'
      <3>1. subscribers[topic] \in Seq(Listeners)
        BY DEF Ev!TypeOK
      <3>2. subscribers'[topic] = subscribers[topic]
              \/ \E S : subscribers'[topic] = Ev!Without(subscribers[topic], S)
        <4> DEFINE scan == Ev!Scan(subscribers[p], m)
        <4>1. \E S : scan.left = Ev!Without(subscribers[p], S)
          BY DEF Ev!Scan
        <4> HIDE DEF scan
        <4>2. subscribers' = [subscribers EXCEPT ![p] = scan.left]
          BY <2>4 DEF Ev!RemoveListenerFromTopic, scan
        <4> QED BY <4>1, <4>2 DEF Ev!TypeOK
      <3>3. Ev!HasListener(l, topic)
        BY <1>1, <2>4, <3>1, <3>2, WithoutKeeps
           DEF Ev!HasListener, Ev!RemoveListenerFromTopic
      <3> QED BY <2>2, <2>4, <3>3 DEF Ev!RemoveListenerFromTopic
    <2>5. CASE Ev!UnregisterReturns
      BY <1>1, <2>2, <2>5 DEF Ev!UnregisterReturns, Ev!HasListener
    <2>6. CASE Ev!CleanUpSubscribers
      <3>1. subscribers[topic] \in Seq(Listeners)
        BY DEF Ev!TypeOK
      <3>2. subscribers'[topic]
              = Ev!Without(subscribers[topic], Ev!Expired(subscribers[topic]))
        BY <2>6 DEF Ev!CleanUpSubscribers
      <3>3. Ev!HasListener(l, topic)
        BY <1>1, <2>6, <3>1, <3>2, WithoutKeeps
           DEF Ev!HasListener, Ev!CleanUpSubscribers
      <3> QED BY <2>2, <2>6, <3>3 DEF Ev!CleanUpSubscribers
    <2>7. CASE Ev!DestroyBroker
      <3>1. subscribers'[topic] = <<>>
        BY <2>7 DEF Ev!DestroyBroker
      <3> QED BY <1>1, <3>1 DEF Ev!HasListener
    <2>8. ASSUME NEW j \in jobs, Ev!RunEvent(j)
          PROVE  Knows(l, topic, key)'
      <3>1. j.to \in Listeners /\ j.key \in Paths
        BY DEF Ev!TypeOK
      <3>2. Ev!HasListener(l, topic) /\ l \in live
        BY <1>1, <2>8 DEF Ev!RunEvent, Ev!HasListener
      <3>3. /\ jobs' = jobs \ {j}
            /\ UNCHANGED <<values, setting, since>>
        BY <2>8 DEF Ev!RunEvent
      <3>4. CASE j.to = l /\ j.key = key
        <4>1. seen'[l][key] = values[key]
          BY <1>0, <2>8, <3>1, <3>2, <3>4 DEF Ev!RunEvent, Ev!TypeOK
        <4> QED BY <3>3, <4>1
      <3>5. CASE ~(j.to = l /\ j.key = key)
        <4>1. seen'[l][key] = seen[l][key]
          BY <1>0, <2>8, <3>1, <3>2, <3>5 DEF Ev!RunEvent, Ev!TypeOK
        <4> QED BY <2>0, <3>2, <3>3, <3>5, <4>1 DEF Ev!WillNotify
      <3> QED BY <3>4, <3>5
    <2>9. ASSUME NEW k \in Paths, Ev!Put(k)
          PROVE  Knows(l, topic, key)'
      <3>1. Ev!HasListener(l, topic)
        BY <1>1, <2>9 DEF Ev!Put, Ev!HasListener
      <3>2. setting = [key |-> <<>>, next |-> 1] /\ <<>> \notin Paths
        BY <2>9, PathsOK DEF Ev!Put, Ev!NotSetting
      <3>3. ~Ev!WillNotify(topic, key)
        BY <3>2 DEF Ev!WillNotify
      <3>4. CASE key = k
        <4>1. setting' = [key |-> key, next |-> 1]
          BY <2>9, <3>4 DEF Ev!Put
        <4>2. Len(topic) \in 1 .. Len(key) /\ SubSeq(key, 1, Len(topic)) = topic
          BY <1>1, SubsystemsAssumption DEF Ev!IsPrefix, Ev!ConstantsOK
        <4>3. Ev!WillNotify(topic, key)'
          BY <4>1, <4>2 DEF Ev!WillNotify
        <4> QED BY <4>3
      <3>5. CASE key # k
        <4>1. values'[key] = values[key]
          BY <2>9, <3>5 DEF Ev!Put, Ev!TypeOK
        <4> QED BY <2>0, <2>9, <3>1, <3>3, <4>1 DEF Ev!Put
      <3> QED BY <3>4, <3>5
    <2>10. CASE Ev!Notify
      <3>1. Ev!HasListener(l, topic) /\ l \in live
        BY <1>1, <2>10 DEF Ev!Notify, Ev!HasListener
      <3>2. UNCHANGED <<values, seen, since>> /\ jobs \subseteq jobs'
        BY <2>10 DEF Ev!Notify, Ev!FireEvent
      <3>3. CASE ~Ev!WillNotify(topic, key)
        BY <2>0, <3>1, <3>2, <3>3
      <3>4. CASE Ev!WillNotify(topic, key)
        <4>1. /\ setting.key = key /\ setting.next \in Nat \ {0}
              /\ Len(key) \in Nat
          BY <3>4, PathsOK DEF Ev!WillNotify, Ev!TypeOK, Ev!ChangesOK
        <4>2. PICK n \in setting.next .. Len(key) : SubSeq(key, 1, n) = topic
          BY <3>4 DEF Ev!WillNotify
        <4>3. /\ setting' = [setting EXCEPT !.next = @ + 1]
              /\ Ev!FireEvent(SubSeq(key, 1, setting.next), key)
          BY <2>10, <4>1, <4>2 DEF Ev!Notify, Ev!NotifiedPaths, Ev!Subpaths
        <4>4. CASE n = setting.next
          <5>1. Ev!Event(l, topic, key) \in jobs'
            BY <3>1, <4>2, <4>3, <4>4 DEF Ev!FireEvent
          <5> QED BY <5>1 DEF Ev!Event
        <4>5. CASE n # setting.next
          <5>1. setting'.key = key /\ n \in setting'.next .. Len(key)
            BY <4>1, <4>2, <4>3, <4>5 DEF Ev!ChangesOK
          <5>2. Ev!WillNotify(topic, key)'
            BY <4>2, <5>1 DEF Ev!WillNotify
          <5> QED BY <5>2
        <4> QED BY <4>4, <4>5
      <3> QED BY <3>3, <3>4
    <2>11. CASE UNCHANGED Ev!vars
      BY <1>1, <2>2, <2>11 DEF Ev!vars, Ev!HasListener
    <2> QED BY <2>1, <2>3, <2>4, <2>5, <2>6, <2>7, <2>8, <2>9, <2>10, <2>11
            DEF Ev!Next, Ev!ListenerStep
  <1> QED BY <1>1 DEF Ev!NoChangeIsMissed

-----------------------------------------------------------------------------
(* Resources *)

LEMMA ResourcesInvInit ==
  ASSUME Rs!Init
  PROVE  Rs!ResourcesInv
  <1>1. Rs!TypeOK
    <2>1. queue = <<>> /\ queue \in Seq(Requests \X Loaders)
      BY DEF Rs!Init
    <2>2. loading \in [Pool -> (Requests \X Loaders) \cup {Rs!Nothing}]
      BY DEF Rs!Init
    <2> QED BY <2>1, <2>2 DEF Rs!Init, Rs!TypeOK
  <1>2. Rs!NoLoadIsForgotten
    BY DEF Rs!Init, Rs!NoLoadIsForgotten
  <1> QED BY <1>1, <1>2 DEF Rs!ResourcesInv

\* Types need nothing else.
LEMMA ResourcesTypes ==
  ASSUME Rs!TypeOK, [Rs!Next]_(Rs!vars)
  PROVE  Rs!TypeOK'
  <1> USE DEF Rs!TypeOK, Rs!Nothing
  <1>1. ASSUME NEW id \in Loaders, Rs!RegisterLoader(id) \/ Rs!UnregisterLoader(id)
        PROVE  Rs!TypeOK'
    BY <1>1 DEF Rs!RegisterLoader, Rs!UnregisterLoader
  <1>2. ASSUME NEW r \in Requests, Rs!RejectLoad(r) \/ Rs!LoadResource(r)
        PROVE  Rs!TypeOK'
    <2>1. CASE Rs!RejectLoad(r)
      BY <2>1 DEF Rs!RejectLoad
    <2>2. CASE Rs!LoadResource(r)
      <3>1. <<r, Rs!LoaderOf(Uri[r])>> \in Requests \X Loaders
        BY <2>2 DEF Rs!LoadResource
      <3>2. rpc' \in [Pool -> {"check", "wait", "sleep", "load", "gone"}]
        BY <2>2 DEF Rs!LoadResource, Rs!NotifyOne, Rs!Asleep
      <3> QED BY <2>2, <3>1, <3>2 DEF Rs!LoadResource
    <2> QED BY <1>2, <2>1, <2>2
  <1>3. ASSUME NEW w \in Pool, Rs!Worker(w) \/ Rs!WakeUpSpuriously(w)
        PROVE  Rs!TypeOK'
    <2>1. CASE Rs!Check(w)
      <3>1. CASE queue = <<>>
        BY <2>1, <3>1 DEF Rs!Check
      <3>2. CASE queue # <<>>
        <4>1. Head(queue) \in Requests \X Loaders /\ Tail(queue) \in Seq(Requests \X Loaders)
          BY <3>2
        <4> QED BY <2>1, <4>1 DEF Rs!Check
      <3> QED BY <3>1, <3>2
    <2>2. CASE Rs!Sleep(w) \/ Rs!FinishLoading(w) \/ Rs!WakeUpSpuriously(w)
      BY <2>2 DEF Rs!Sleep, Rs!FinishLoading, Rs!WakeUpSpuriously
    <2> QED BY <1>3, <2>1, <2>2 DEF Rs!Worker
  <1>4. CASE Rs!Terminate \/ Rs!Destructor
    <2>1. CASE Rs!Terminate
      BY <2>1 DEF Rs!Terminate
    <2>2. CASE Rs!NotifyAll
      BY <2>2 DEF Rs!NotifyAll
    <2>3. CASE Rs!Joined
      BY <2>3 DEF Rs!Joined
    <2> QED BY <1>4, <2>1, <2>2, <2>3 DEF Rs!Destructor
  <1>5. CASE UNCHANGED Rs!vars
    BY <1>5 DEF Rs!vars
  <1> QED BY <1>1, <1>2, <1>3, <1>4, <1>5 DEF Rs!Next

\* The instance counts like FiniteSets, which the library's theorems are about.
LEMMA SameCardinality ==
  /\ \A S : Rs!IsFiniteSet(S) <=> IsFiniteSet(S)
  /\ \A S : Rs!Cardinality(S) = Cardinality(S)
  BY DEF Rs!IsFiniteSet, IsFiniteSet, Rs!Cardinality, Cardinality

\* The number of threads that are awake and idle grows by one when a thread
\* joins them, and shrinks by one when it leaves them.
LEMMA OneIdleMore ==
  ASSUME IsFiniteSet(Pool), NEW old, NEW new, NEW w \in Pool,
         old[w] # "check", new[w] = "check",
         \A v \in Pool \ {w} : new[v] = old[v]
  PROVE  Cardinality({v \in Pool : new[v] = "check"}) =
             Cardinality({v \in Pool : old[v] = "check"}) + 1
  <1> DEFINE Old == {v \in Pool : old[v] = "check"}
  <1>1. IsFiniteSet(Old) /\ w \notin Old
    BY FS_Subset
  <1>2. {v \in Pool : new[v] = "check"} = Old \cup {w}
    OBVIOUS
  <1> QED BY <1>1, <1>2, FS_AddElement

\* Every step keeps the threads awake that the queue needs: whoever pushes
\* wakes one, and whoever leaves takes one with it.
LEMMA LoadsStep ==
  ASSUME Rs!ResourcesInv, [Rs!Next]_(Rs!vars)
  PROVE  Rs!NoLoadIsForgotten'
  <1> DEFINE Idle == {w \in Pool : rpc[w] = "check"}
             Labels == {"check", "wait", "sleep", "load", "gone"}
             Resting == \E w \in Pool : rpc[w] \in {"wait", "sleep"}
  <1>0. IsFiniteSet(Pool) /\ Rs!TypeOK /\ Rs!NoLoadIsForgotten
    BY SubsystemsAssumption, SameCardinality DEF Rs!ConstantsOK, Rs!ResourcesInv
  <1>0a. Len(queue) \in Nat /\ Cardinality(Idle) \in Nat /\ rpc \in [Pool -> Labels]
    <2>1. IsFiniteSet(Idle)
      BY <1>0, FS_Subset DEF Idle
    <2>2. Cardinality(Idle) \in Nat
      BY <2>1, FS_CardinalityType
    <2>3. rpc \in [Pool -> Labels]
      BY <1>0 DEF Rs!TypeOK
    <2>4. Len(queue) \in Nat
      BY <1>0 DEF Rs!TypeOK
    <2> QED BY <2>2, <2>3, <2>4
  <1>0b. ~terminate /\ Resting => Len(queue) <= Cardinality(Idle)
    BY <1>0, SameCardinality DEF Rs!NoLoadIsForgotten
  <1> SUFFICES ASSUME ~terminate', Resting'
               PROVE  Len(queue') <= Cardinality(Idle')
    BY SameCardinality DEF Rs!NoLoadIsForgotten
  <1> HIDE DEF Idle, Labels
  <1>1. ASSUME NEW r \in Requests, Rs!LoadResource(r)
        PROVE  Len(queue') <= Cardinality(Idle')
    <2>1. Len(queue') = Len(queue) + 1 /\ terminate' = terminate
      BY <1>0, <1>1 DEF Rs!LoadResource, Rs!TypeOK
    <2>2. CASE Rs!Asleep = {}
      BY <1>1, <2>2 DEF Rs!LoadResource, Rs!NotifyOne, Rs!Asleep, Rs!QueueIsFree
    <2>3. CASE Rs!Asleep # {}
      <3>1. PICK w \in Rs!Asleep : rpc' = [rpc EXCEPT ![w] = "check"]
        BY <1>1, <2>3 DEF Rs!LoadResource, Rs!NotifyOne
      <3>2. w \in Pool /\ rpc[w] = "sleep"
        BY DEF Rs!Asleep
      <3>3. Cardinality(Idle') = Cardinality(Idle) + 1
        BY <1>0, <1>0a, <3>1, <3>2, OneIdleMore DEF Idle, Labels
      <3> QED BY <1>0a, <1>0b, <2>1, <3>2, <3>3
    <2> QED BY <2>2, <2>3
  <1>2. ASSUME NEW w \in Pool, Rs!Check(w)
        PROVE  Len(queue') <= Cardinality(Idle')
    <2>1. rpc[w] = "check" /\ ~terminate
      BY <1>2 DEF Rs!Check
    <2>2. CASE queue # <<>>
      <3>1. rpc' = [rpc EXCEPT ![w] = "load"] /\ Len(queue') = Len(queue) - 1
        BY <1>0, <1>2, <2>1, <2>2 DEF Rs!Check, Rs!TypeOK
      <3>2. Cardinality(Idle') = Cardinality(Idle) - 1
        <4>1. \A v \in Pool \ {w} : rpc'[v] = rpc[v]
          BY <1>0a, <3>1
        <4>2. Cardinality(Idle) = Cardinality(Idle') + 1
          BY <1>0, <1>0a, <2>1, <3>1, <4>1, OneIdleMore DEF Idle
        <4>3. Cardinality(Idle') \in Nat
          <5>1. IsFiniteSet(Idle')
            BY <1>0, FS_Subset DEF Idle
          <5> QED BY <5>1, FS_CardinalityType
        <4> QED BY <4>2, <4>3
      <3>3. Resting
        BY <1>0a, <3>1
      <3> QED BY <1>0a, <1>0b, <2>1, <3>1, <3>2, <3>3
    <2>3. CASE queue = <<>>
      <3>1. Len(queue') = 0
        BY <1>2, <2>1, <2>3 DEF Rs!Check
      <3>3. Cardinality(Idle') \in Nat
        <4>1. IsFiniteSet(Idle')
          BY <1>0, FS_Subset DEF Idle
        <4> QED BY <4>1, FS_CardinalityType
      <3> QED BY <3>1, <3>3
    <2> QED BY <2>2, <2>3
  <1>3. ASSUME NEW w \in Pool, Rs!Sleep(w)
        PROVE  Len(queue') <= Cardinality(Idle')
    <2>1. Idle' = Idle /\ Resting /\ UNCHANGED <<queue, terminate>>
      BY <1>0a, <1>3 DEF Rs!Sleep, Idle
    <2> QED BY <1>0b, <2>1
  <1>4. ASSUME NEW w \in Pool, Rs!WakeUpSpuriously(w) \/ Rs!FinishLoading(w)
        PROVE  Len(queue') <= Cardinality(Idle')
    <2>1. /\ rpc' = [rpc EXCEPT ![w] = "check"] /\ rpc[w] # "check"
          /\ UNCHANGED <<queue, terminate>>
      BY <1>4 DEF Rs!WakeUpSpuriously, Rs!FinishLoading
    <2>2. Cardinality(Idle') = Cardinality(Idle) + 1
      BY <1>0, <1>0a, <2>1, OneIdleMore DEF Idle
    <2>3. Resting
      BY <1>0a, <2>1
    <2> QED BY <1>0a, <1>0b, <2>1, <2>2, <2>3
  <1>5. CASE Rs!Joined
    BY <1>5 DEF Rs!Joined
  <1>6. CASE Rs!Terminate
    BY <1>6 DEF Rs!Terminate
  <1>7. CASE Rs!NotifyAll
    <2> DEFINE Woken == {w \in Pool : rpc'[w] = "check"}
    <2>1. Idle \subseteq Idle' /\ IsFiniteSet(Idle')
      BY <1>0, <1>7, FS_Subset DEF Rs!NotifyAll, Idle
    <2>2. Cardinality(Idle) <= Cardinality(Idle') /\ Cardinality(Idle') \in Nat
      BY <2>1, FS_Subset, FS_CardinalityType
    <2>3. Resting /\ UNCHANGED <<queue, terminate>>
      BY <1>7 DEF Rs!NotifyAll
    <2> QED BY <1>0a, <1>0b, <2>2, <2>3
  <1>8. ASSUME UNCHANGED <<rpc, queue, terminate>>
        PROVE  Len(queue') <= Cardinality(Idle')
    BY <1>0b, <1>8 DEF Idle
  <1> QED
    BY <1>1, <1>2, <1>3, <1>4, <1>5, <1>6, <1>7, <1>8
    DEF Rs!Next, Rs!Worker, Rs!Destructor, Rs!RegisterLoader, Rs!UnregisterLoader,
        Rs!RejectLoad, Rs!vars

-----------------------------------------------------------------------------
(* Plugins *)

LEMMA PluginsInvInit ==
  ASSUME Pl!Init
  PROVE  Pl!PluginsInv
  <1> USE SubsystemsAssumption DEF Pl!ConstantsOK, Pl!Init
  <1>1. Pl!TypeOK
    <2>1. Len(Listed) \in Nat
      OBVIOUS
    <2>2. 0 \in 0 .. Len(Listed)
      BY <2>1
    <2>3. /\ managed \in [Pl!PluginNames -> Plugins \cup {Absent, Null}]
          /\ installs \in [Plugins -> {"none", "kicked", "store"}]
          /\ plugin \in [Plugins -> {"loaded", "running", "stopped"}]
      OBVIOUS
    <2> QED BY <2>2, <2>3 DEF Pl!TypeOK
  <1>2. Pl!InstallsOK /\ Pl!ManagedIsRunning
    BY DEF Pl!InstallsOK, Pl!ManagedIsRunning
  <1> QED BY <1>1, <1>2 DEF Pl!PluginsInv

\* Every step of the plugin manager keeps its invariant.
LEMMA PluginsInvStep ==
  ASSUME Pl!PluginsInv, [Pl!Next]_(Pl!vars)
  PROVE  Pl!PluginsInv'
  <1> USE SubsystemsAssumption
      DEF Pl!ConstantsOK, Pl!PluginsInv, Pl!TypeOK, Pl!InstallsOK,
          Pl!ManagedIsRunning, Pl!PluginNames, Pl!Up
  <1>1. ASSUME NEW p \in Plugins,
               Pl!InstallPlugin(p) \/ Pl!InitPlugin(p) \/ Pl!StorePlugin(p)
        PROVE  Pl!PluginsInv'
    <2>1. CASE Pl!InstallPlugin(p)
      BY <2>1 DEF Pl!InstallPlugin
    <2>2. CASE Pl!InitPlugin(p)
      BY <2>2 DEF Pl!InitPlugin
    <2>3. CASE Pl!StorePlugin(p)
      BY <2>3 DEF Pl!StorePlugin
    <2> QED BY <1>1, <2>1, <2>2, <2>3
  <1>2. ASSUME NEW n \in Pl!PluginNames, Pl!UninstallPlugin(n) \/ Pl!RunUninstall(n)
        PROVE  Pl!PluginsInv'
    <2>1. CASE Pl!UninstallPlugin(n)
      BY <2>1 DEF Pl!UninstallPlugin
    <2>2. CASE Pl!RunUninstall(n)
      <3>1. CASE UNCHANGED <<managed, plugin>>
        BY <2>2, <3>1 DEF Pl!RunUninstall
      <3>2. ASSUME NEW q \in Plugins, managed[n] = q,
                   plugin' = [plugin EXCEPT ![q] = "stopped"],
                   NEW entry \in {Absent, Null},
                   managed' = [managed EXCEPT ![n] = entry]
            PROVE  Pl!PluginsInv'
        <4>1. \A k \in Pl!PluginNames : managed'[k] \in Plugins =>
                  managed'[k] = managed[k] /\ managed[k] # q
          BY <3>2
        <4> QED BY <2>2, <3>2, <4>1 DEF Pl!RunUninstall
      <3> QED BY <2>2, <3>1, <3>2 DEF Pl!RunUninstall
    <2> QED BY <1>2, <2>1, <2>2
  <1>3. CASE Pl!InstallPlugins
    <2>1. 1 \in 0 .. Len(Listed)
      BY <1>3 DEF Pl!InstallPlugins
    <2> QED BY <1>3, <2>1 DEF Pl!InstallPlugins
  <1>4. CASE Pl!InstallListed
    <2>1. listing \in 1 .. Len(Listed) /\ Listed[listing] \in Plugins \cup {Broken}
      BY <1>4 DEF Pl!InstallListed
    <2> QED BY <1>4, <2>1 DEF Pl!InstallListed
  <1>5. CASE Pl!NextPhase
    BY <1>5 DEF Pl!NextPhase
  <1>6. CASE Pl!DestroyManager
    BY <1>6 DEF Pl!DestroyManager
  <1>7. CASE UNCHANGED Pl!vars
    BY <1>7 DEF Pl!vars
  <1> QED BY <1>1, <1>2, <1>3, <1>4, <1>5, <1>6, <1>7 DEF Pl!Next

-----------------------------------------------------------------------------
(* Rendering *)

LEMMA RenderingInvInit ==
  ASSUME Rd!Init
  PROVE  Rd!RenderingInv
  BY SubsystemsAssumption
     DEF Rd!ConstantsOK, Rd!Init, Rd!RenderingInv, Rd!TypeOK, Rd!CallHasMutex,
         Rd!CapturesAreCurrent, Rd!SettingsLast, Rd!AnswerIsWhatWasAsked,
         Rd!Attachments, Rd!Borrowing, Rd!Method, Rd!Picture

\* Every step of the render service, its renderer and the owners of both
\* keeps the invariant.
LEMMA RenderingInvStep ==
  ASSUME Rd!RenderingInv, [Rd!Next]_(Rd!vars)
  PROVE  Rd!RenderingInv'
  <1> USE SubsystemsAssumption
      DEF Rd!ConstantsOK, Rd!RenderingInv, Rd!TypeOK, Rd!CallHasMutex,
          Rd!CapturesAreCurrent, Rd!SettingsLast, Rd!AnswerIsWhatWasAsked,
          Rd!Borrowing, Rd!Method, Rd!Picture, Rd!rendererVars, Rd!Goto
  <1>1. ASSUME NEW c \in Calls, Rd!Call(c)
        PROVE  Rd!RenderingInv'
    <2>1. CASE Rd!RenderBegin(c)
      BY <2>1 DEF Rd!RenderBegin, Rd!Lock
    <2>2. CASE Rd!GetRenderer(c)
      BY <2>2 DEF Rd!GetRenderer, Rd!Answer
    <2>3. CASE Rd!ResizeReturns(c)
      <3>1. \A a \in Rd!Attachments :
                /\ Rd!Capture(a, views').buffer = views'[a]
                /\ Rd!Capture(a, views').source = views'[a]
        BY DEF Rd!Capture, Rd!ColorCapture, Rd!DepthCapture, Rd!Attachments
      <3>2. /\ capture' = views' /\ copied' = views'
            /\ views' \in [Rd!Attachments -> Nat]
        BY <2>3, <3>1 DEF Rd!ResizeReturns, Rd!Resize,
                          Rd!ReplaceFramebufferAndCaptures
      <3>3. \A d \in Calls \ {c} : spc[d] \in {"new", "done"}
        BY <2>3 DEF Rd!ResizeReturns
      <3> QED BY <2>3, <3>2, <3>3 DEF Rd!ResizeReturns, Rd!Resize
    <2>4. CASE Rd!SetCameraBegin(c)
      BY <2>4 DEF Rd!SetCameraBegin, Rd!Answer
    <2>5. CASE Rd!SetCameraReturns(c)
      BY <2>5 DEF Rd!SetCameraReturns, Rd!SetCamera
    <2>6. CASE Rd!DrawBegin(c)
      BY <2>6 DEF Rd!DrawBegin
    <2>9. CASE Rd!ResultBegin(c)
      BY <2>9 DEF Rd!ResultBegin
    <2>7. CASE Rd!DrawReturns(c)
      BY <2>7 DEF Rd!DrawReturns, Rd!RenderFrame
    <2>8. CASE Rd!ResultReturns(c)
      BY <2>8 DEF Rd!ResultReturns, Rd!Answer, Rd!GetResult
    <2> QED BY <1>1, <2>1, <2>2, <2>3, <2>4, <2>5, <2>6, <2>7, <2>8, <2>9
        DEF Rd!Call
  <1>2. ASSUME NEW o \in available, Rd!OwnerDestroyed(o)
        PROVE  Rd!RenderingInv'
    BY <1>2 DEF Rd!OwnerDestroyed
  <1>3. CASE Rd!RenderLoop
    <2>1. CASE Rd!JobRenders
      BY <2>1 DEF Rd!JobRenders
    <2>2. CASE Rd!JobRendered
      <3>1. CASE Shared
        BY <2>2, <3>1 DEF Rd!JobRendered, Rd!RenderFrame
      <3>2. CASE ~Shared
        BY <2>2, <3>2 DEF Rd!JobRendered
      <3> QED BY <3>1, <3>2
    <2> QED BY <1>3, <2>1, <2>2 DEF Rd!RenderLoop
  <1>4. CASE UNCHANGED Rd!vars
    BY <1>4 DEF Rd!vars
  <1> QED BY <1>1, <1>2, <1>3, <1>4 DEF Rd!Next

-----------------------------------------------------------------------------
(* Tiled renderer *)

LEMMA TilesInvInit ==
  ASSUME Tl!Init
  PROVE  Tl!TilesInv
  <1> USE SubsystemsAssumption DEF Tl!ConstantsOK, Tl!Init
  <1>1. Tl!TypeOK
    BY DEF Tl!TypeOK, Tl!Empty
  <1>2. /\ Tl!FrameHasLock /\ Tl!JobsFitTiles /\ Tl!BuffersFitTiles
        /\ Tl!ImageFitsItsTile
    BY DEF Tl!FrameHasLock, Tl!JobsFitTiles, Tl!BuffersFitTiles,
           Tl!ImageFitsItsTile, Tl!Empty
  <1> QED BY <1>1, <1>2 DEF Tl!TilesInv

\* Every step of the tiled renderer, of its jobs and of the listener keeps
\* the invariant.
LEMMA TilesInvStep ==
  ASSUME Tl!TilesInv, [Tl!Next]_(Tl!vars)
  PROVE  Tl!TilesInv'
  <1> USE SubsystemsAssumption
      DEF Tl!ConstantsOK, Tl!TilesInv, Tl!TypeOK, Tl!FrameHasLock,
          Tl!JobsFitTiles, Tl!BuffersFitTiles, Tl!ImageFitsItsTile,
          Tl!tilingVars, Tl!Locked, Tl!Empty
  <1>1. ASSUME NEW e \in Tl!Threads, Tl!Listener(e)
        PROVE  Tl!TilesInv'
    <2>1. CASE Tl!ServiceRegistered(e)
      BY <2>1 DEF Tl!ServiceRegistered
    <2>2. CASE Tl!CountServices(e)
      BY <2>2 DEF Tl!CountServices
    <2>3. CASE Tl!SetServiceCount(e)
      BY <2>3 DEF Tl!SetServiceCount, Tl!UpdateTilingInfo, Tl!TilesOf
    <2> QED BY <1>1, <2>1, <2>2, <2>3 DEF Tl!Listener
  <1>2. CASE Tl!ServiceLost
    BY <1>2 DEF Tl!ServiceLost
  <1>3. CASE Tl!RenderCheck \/ Tl!RenderLock \/ Tl!RenderOutput
    BY <1>3 DEF Tl!RenderCheck, Tl!RenderLock, Tl!RenderOutput
  <1>4. CASE Tl!RenderKick
    BY <1>4 DEF Tl!RenderKick
  <1>5. ASSUME NEW i \in DOMAIN tlJob, Tl!TileAnswered(i)
        PROVE  Tl!TilesInv'
    <2>1. tlPc = "wait" /\ i \in 1 .. count
      BY <1>5
    <2>2. \A k \in 1 .. count :
              /\ tlJob'[k] = [request |-> tiles[k].width, tiling |-> tiling,
                              state |-> tlJob'[k].state]
              /\ DOMAIN tlJob' = 1 .. count
      BY <1>5, <2>1 DEF Tl!TileAnswered
    <2>3. CASE UNCHANGED buffers
      BY <1>5, <2>1, <2>2, <2>3 DEF Tl!TileAnswered
    <2>4. ASSUME buffers' = [buffers EXCEPT ![i].shows =
                                [frame |-> frames, width |-> tlJob[i].request,
                                 tiling |-> tlJob[i].tiling]]
          PROVE  Tl!TilesInv'
      <3>1. DOMAIN buffers' = 1 .. count
        BY <2>4
      <3>2. \A k \in 1 .. count :
                /\ buffers'[k] = [width |-> tiles[k].width, tiling |-> tiling,
                                  shows |-> buffers'[k].shows]
                /\ buffers'[k].shows # Tl!Blank =>
                       /\ buffers'[k].shows.width = buffers'[k].width
                       /\ buffers'[k].shows.tiling = buffers'[k].tiling
        <4> TAKE k \in 1 .. count
        <4>1. CASE k = i
          <5>1. buffers'[k] = [width |-> tiles[k].width, tiling |-> tiling,
                      shows |-> [frame |-> frames, width |-> tlJob[i].request,
                                 tiling |-> tlJob[i].tiling]]
            BY <2>1, <2>4, <4>1
          <5>2. tlJob[i].request = tiles[k].width /\ tlJob[i].tiling = tiling
            BY <2>1, <4>1
          <5> QED BY <5>1, <5>2
        <4>2. CASE k # i
          BY <2>4, <4>2
        <4> QED BY <4>1, <4>2
      <3> QED BY <1>5, <2>1, <2>2, <3>1, <3>2 DEF Tl!TileAnswered
    <2> QED BY <1>5, <2>3, <2>4 DEF Tl!TileAnswered
  <1>6. ASSUME NEW w \in Widths, Tl!Resize(w)
        PROVE  Tl!TilesInv'
    BY <1>6 DEF Tl!Resize
  <1>7. CASE UNCHANGED Tl!vars
    BY <1>7 DEF Tl!vars
  <1> QED BY <1>1, <1>2, <1>3, <1>4, <1>5, <1>6, <1>7
          DEF Tl!Next, Tl!Render, Tl!Tile

-----------------------------------------------------------------------------
(* Messages *)

\* A multipart form that can be parsed gives back the message it was made
\* from: an attribute named "meta" would have replaced the first part.
LEMMA MultipartRoundTrip ==
  ASSUME NEW type, NEW a, a = [n \in DOMAIN a |-> a[n]],
         Ms!Parses(Ms!ToMultipartFormData(Ms!Message(type, a)))
  PROVE  Ms!FromMultipartFormData(Ms!ToMultipartFormData(Ms!Message(type, a)))
             = Ms!Message(type, a)
  <1> DEFINE m == Ms!Message(type, a)
             parts == Ms!ToMultipartFormData(m)
  <1>1. m = [type |-> type, id |-> Id, attributes |-> a]
    BY DEF Ms!Message
  <1>2. /\ DOMAIN parts = {"meta"} \cup DOMAIN a
        /\ \A n \in DOMAIN a : parts[n] = [text |-> a[n]]
        /\ "meta" \notin DOMAIN a => parts["meta"] = [id |-> Id, type |-> type]
    BY <1>1 DEF Ms!ToMultipartFormData, Ms!Overwrite, Ms!Part
  <1> HIDE DEF m, parts
  <1>3. "meta" \notin DOMAIN a
    <2> SUFFICES ASSUME "meta" \in DOMAIN a PROVE FALSE
      OBVIOUS
    <2>1. DOMAIN parts["meta"] = {"text"}
      BY <1>2
    <2>2. DOMAIN parts["meta"] = {"id", "type"}
      BY DEF Ms!Parses, m, parts
    <2> QED BY <2>1, <2>2
  <1>4. [n \in DOMAIN parts \ {"meta"} |-> parts[n].text] = a
    <2>1. DOMAIN parts \ {"meta"} = DOMAIN a
      BY <1>2, <1>3
    <2>2. \A n \in DOMAIN a : parts[n].text = a[n]
      BY <1>2
    <2>3. [n \in DOMAIN parts \ {"meta"} |-> parts[n].text] = [n \in DOMAIN a |-> a[n]]
      BY <2>1, <2>2
    <2> QED BY <2>3
  <1>5. Ms!FromMultipartFormData(parts) = [type |-> type, id |-> Id, attributes |-> a]
    BY <1>2, <1>3, <1>4 DEF Ms!FromMultipartFormData
  <1> QED BY <1>1, <1>5 DEF m, parts

\* What the peer makes of the message of a request.
LEMMA RequestRoundTrip ==
  ASSUME NEW r
  PROVE  LET m == Ms!FromServiceRequest(r)
             q == Ms!ToServiceRequest(m)
         IN  /\ m = Ms!Message("service-request", m.attributes)
             /\ m.attributes = [n \in DOMAIN m.attributes |-> m.attributes[n]]
             /\ q = Ms!ServiceRequest(r.service, r.id, m.attributes)
             /\ \A n \in DOMAIN r.parameters \ Ms!RequestNames :
                    m.attributes[n] = r.parameters[n]
  <1> DEFINE m == Ms!FromServiceRequest(r)
             a == m.attributes
  <1>1. m = Ms!Message("service-request", a)
    BY DEF Ms!FromServiceRequest, Ms!Message
  <1>2. a = [n \in DOMAIN r.parameters \cup Ms!RequestNames |->
                IF n \in Ms!RequestNames
                THEN IF n = "service" THEN r.service ELSE r.id
                ELSE r.parameters[n]]
    BY DEF Ms!FromServiceRequest, Ms!Message, Ms!Overwrite
  <1> HIDE DEF m
  <1>3. DOMAIN a = DOMAIN r.parameters \cup Ms!RequestNames
    BY <1>2
  <1>4. /\ a["service"] = r.service /\ a["transaction-id"] = r.id
        /\ \A n \in DOMAIN r.parameters \ Ms!RequestNames : a[n] = r.parameters[n]
    BY <1>2 DEF Ms!RequestNames
  <1>5. a = [n \in DOMAIN a |-> a[n]]
    BY <1>2
  <1>6. Ms!ToServiceRequest(m) = Ms!ServiceRequest(r.service, r.id, a)
    BY <1>3, <1>4 DEF Ms!ToServiceRequest
  <1> QED BY <1>1, <1>4, <1>5, <1>6 DEF m

\* What the caller makes of the message of a response.
LEMMA ResponseRoundTrip ==
  ASSUME NEW r
  PROVE  LET m == Ms!FromServiceResponse(r)
             q == Ms!ToServiceResponse(m)
         IN  /\ m = Ms!Message("service-response", m.attributes)
             /\ m.attributes = [n \in DOMAIN m.attributes |-> m.attributes[n]]
             /\ q = Ms!ServiceResponse(r.id, r.status, m.attributes)
             /\ \A n \in DOMAIN r.results \ Ms!ResponseNames :
                    m.attributes[n] = r.results[n]
  <1> DEFINE m == Ms!FromServiceResponse(r)
             a == m.attributes
             own == [n \in Ms!ResponseNames |->
                        CASE n = "transaction-id" -> r.id
                          [] n = "status" -> r.status
                          [] n = "status-message" -> Ms!NoMessage]
  <1>1. m = Ms!Message("service-response", a)
    BY DEF Ms!FromServiceResponse, Ms!Message
  <1>2. a = Ms!Overwrite(r.results, own)
    BY DEF Ms!FromServiceResponse, Ms!Message
  <1>3. /\ DOMAIN own = Ms!ResponseNames
        /\ own["status"] = r.status /\ own["transaction-id"] = r.id
    BY DEF Ms!ResponseNames
  <1> HIDE DEF m, own
  <1>4. a = [n \in DOMAIN r.results \cup Ms!ResponseNames |->
                IF n \in Ms!ResponseNames THEN own[n] ELSE r.results[n]]
    BY <1>2, <1>3 DEF Ms!Overwrite
  <1>5. /\ DOMAIN a = DOMAIN r.results \cup Ms!ResponseNames
        /\ a = [n \in DOMAIN a |-> a[n]]
    BY <1>4
  <1>6. /\ a["status"] = r.status /\ a["transaction-id"] = r.id
        /\ \A n \in DOMAIN r.results \ Ms!ResponseNames : a[n] = r.results[n]
    BY <1>3, <1>4 DEF Ms!ResponseNames
  <1>7. Ms!ToServiceResponse(m) = Ms!ServiceResponse(r.id, r.status, a)
    BY <1>5, <1>6 DEF Ms!ToServiceResponse, Ms!ResponseNames
  <1> QED BY <1>1, <1>5, <1>6, <1>7 DEF m

LEMMA MessagesInvInit ==
  ASSUME Ms!Init
  PROVE  Ms!MessagesInv
  BY DEF Ms!Init, Ms!MessagesInv, Ms!TypeOK, Ms!WireOK, Ms!StagesOK,
         Ms!CallSurvivesTransport, Ms!ServiceRequest, Ms!None

\* Every step of a request and its response keeps the invariant.
LEMMA MessagesInvStep ==
  ASSUME Ms!MessagesInv, [Ms!Next]_(Ms!vars)
  PROVE  Ms!MessagesInv'
  <1> USE DEF Ms!MessagesInv, Ms!TypeOK, Ms!WireOK, Ms!StagesOK,
              Ms!CallSurvivesTransport
  <1>1. CASE Ms!SendRequest
    BY <1>1 DEF Ms!SendRequest
  <1>2. CASE Ms!SendRequestAsJson
    BY <1>2 DEF Ms!SendRequestAsJson
  <1>3. CASE Ms!ReceiveRequest
    <2> DEFINE m == Ms!FromServiceRequest(request)
    <2>1. /\ m = Ms!Message("service-request", m.attributes)
          /\ m.attributes = [n \in DOMAIN m.attributes |-> m.attributes[n]]
          /\ Ms!ToServiceRequest(m)
                = Ms!ServiceRequest(request.service, request.id, m.attributes)
          /\ \A n \in DOMAIN request.parameters \ Ms!RequestNames :
                 m.attributes[n] = request.parameters[n]
      BY RequestRoundTrip
    <2>2. received' # Ms!None => received' = Ms!ToServiceRequest(m)
      <3>1. CASE stage = "requested"
        <4>1. wire = Ms!ToMultipartFormData(m)
          BY <3>1
        <4>2. Ms!Parses(wire) => Ms!FromMultipartFormData(wire) = m
          BY <2>1, <4>1, MultipartRoundTrip
        <4> QED BY <1>3, <3>1, <4>2 DEF Ms!ReceiveRequest
      <3>2. CASE stage = "requested as JSON"
        <4>1. wire = Ms!ToJson(m)
          BY <3>2
        <4>2. Ms!FromJson(wire) = m
          BY <2>1, <4>1 DEF Ms!FromJson, Ms!ToJson, Ms!Message
        <4> QED BY <1>3, <3>2, <4>2 DEF Ms!ReceiveRequest
      <3> QED BY <1>3, <3>1, <3>2 DEF Ms!ReceiveRequest
    <2> HIDE DEF m
    <2>3. received' # Ms!None =>
            /\ DOMAIN received' = {"service", "id", "parameters"}
            /\ received'.service = request.service /\ received'.id = request.id
            /\ \A n \in DOMAIN request.parameters \ Ms!RequestNames :
                   received'.parameters[n] = request.parameters[n]
      <3> SUFFICES ASSUME received' # Ms!None
                   PROVE  /\ DOMAIN received' = {"service", "id", "parameters"}
                          /\ received'.service = request.service
                          /\ received'.id = request.id
                          /\ \A n \in DOMAIN request.parameters \ Ms!RequestNames :
                                 received'.parameters[n] = request.parameters[n]
        OBVIOUS
      <3> DEFINE a == m.attributes
      <3>1. received' = [service |-> request.service, id |-> request.id,
                         parameters |-> a]
        BY <2>1, <2>2 DEF Ms!ServiceRequest
      <3>2. \A n \in DOMAIN request.parameters \ Ms!RequestNames :
                a[n] = request.parameters[n]
        BY <2>1
      <3> HIDE DEF a
      <3> QED BY ONLY <3>1, <3>2
    <2>4. stage' = "received" <=> received' # Ms!None
      BY <1>3 DEF Ms!ReceiveRequest, Ms!Unparsed
    <2>5. stage' \in {"received", "dropped", "crashed"}
      BY <1>3 DEF Ms!ReceiveRequest, Ms!Unparsed
    <2>6. result = Ms!None /\ UNCHANGED <<request, asked, msResponse, result>>
      BY <1>3 DEF Ms!ReceiveRequest
    <2> QED BY <2>3, <2>4, <2>5, <2>6
  <1>4. ASSUME NEW s \in Statuses, NEW r \in Ms!Maps, Ms!Answer(s, r)
        PROVE  Ms!MessagesInv'
    BY <1>4 DEF Ms!Answer, Ms!ServiceResponse
  <1>5. CASE Ms!ReceiveResponse
    <2> DEFINE m == Ms!FromServiceResponse(msResponse)
    <2>1. /\ m = Ms!Message("service-response", m.attributes)
          /\ m.attributes = [n \in DOMAIN m.attributes |-> m.attributes[n]]
          /\ Ms!ToServiceResponse(m)
                = Ms!ServiceResponse(msResponse.id, msResponse.status, m.attributes)
          /\ \A n \in DOMAIN msResponse.results \ Ms!ResponseNames :
                 m.attributes[n] = msResponse.results[n]
      BY ResponseRoundTrip
    <2>2. result' # Ms!None => result' = Ms!ToServiceResponse(m)
      <3>1. wire = Ms!ToMultipartFormData(m)
        BY <1>5 DEF Ms!ReceiveResponse
      <3>2. Ms!Parses(wire) => Ms!FromMultipartFormData(wire) = m
        BY <2>1, <3>1, MultipartRoundTrip
      <3> QED BY <1>5, <3>2 DEF Ms!ReceiveResponse
    <2> HIDE DEF m
    <2>3. msResponse.id = request.id
      BY <1>5 DEF Ms!ReceiveResponse, Ms!ServiceResponse
    <2>4. result' # Ms!None =>
            /\ DOMAIN result' = {"id", "status", "results"}
            /\ result'.id = request.id /\ result'.status = msResponse.status
            /\ \A n \in DOMAIN msResponse.results \ Ms!ResponseNames :
                   result'.results[n] = msResponse.results[n]
      <3> SUFFICES ASSUME result' # Ms!None
                   PROVE  /\ DOMAIN result' = {"id", "status", "results"}
                          /\ result'.id = request.id
                          /\ result'.status = msResponse.status
                          /\ \A n \in DOMAIN msResponse.results \ Ms!ResponseNames :
                                 result'.results[n] = msResponse.results[n]
        OBVIOUS
      <3> DEFINE a == m.attributes
      <3>1. result' = [id |-> msResponse.id, status |-> msResponse.status,
                       results |-> a]
        BY <2>1, <2>2 DEF Ms!ServiceResponse
      <3>2. \A n \in DOMAIN msResponse.results \ Ms!ResponseNames :
                a[n] = msResponse.results[n]
        BY <2>1
      <3> HIDE DEF a
      <3> QED BY ONLY <2>3, <3>1, <3>2
    <2>5. stage' \in {"resolved", "dropped", "crashed"}
      BY <1>5 DEF Ms!ReceiveResponse, Ms!Unparsed
    <2>6. UNCHANGED <<request, asked, received, msResponse>>
      BY <1>5 DEF Ms!ReceiveResponse
    <2>7. stage = "answered"
      BY <1>5 DEF Ms!ReceiveResponse
    <2> QED BY <2>4, <2>5, <2>6, <2>7
  <1>6. CASE UNCHANGED Ms!vars
    BY <1>6 DEF Ms!vars
  <1> QED BY <1>1, <1>2, <1>3, <1>4, <1>5, <1>6 DEF Ms!Next

-----------------------------------------------------------------------------
(* Application *)

LEMMA ApplicationInvInit ==
  ASSUME Ap!Init
  PROVE  Ap!ApplicationInv
  BY SubsystemsAssumption
     DEF Ap!ConstantsOK, Ap!Init, Ap!ApplicationInv, Ap!TypeOK, Ap!Renderer,
         Ap!NoOwner, Ap!RendererIsSomewhere, Ap!RenderingSurvivesSwap

\* Every step of the application keeps its invariant.
LEMMA ApplicationInvStep ==
  ASSUME Ap!ApplicationInv, [Ap!Next]_(Ap!vars)
  PROVE  Ap!ApplicationInv'
  <1> USE SubsystemsAssumption
      DEF Ap!ConstantsOK, Ap!ApplicationInv, Ap!TypeOK, Ap!Renderer, Ap!NoOwner,
          Ap!RendererIsSomewhere, Ap!RenderingSurvivesSwap, Ap!Provides,
          Ap!AddOrReplace, Ap!Remove, Ap!others
  <1>1. CASE \E t \in Types : Ap!Construct(t)
    BY <1>1 DEF Ap!Construct
  <1>2. CASE Ap!SetRenderer \/ Ap!EnableRenderingJob \/ Ap!LoadPlugins
    BY <1>2 DEF Ap!SetRenderer, Ap!EnableRenderingJob, Ap!LoadPlugins
  <1>3. CASE Ap!BeginCycle \/ Ap!EndInit \/ Ap!EndCycle \/ Ap!Shutdown
    BY <1>3 DEF Ap!BeginCycle, Ap!EndInit, Ap!EndCycle, Ap!Shutdown
  <1>4. CASE Ap!LeaveLoop \/ Ap!DestroyCore \/ Ap!Leave
    BY <1>4 DEF Ap!LeaveLoop, Ap!DestroyCore, Ap!Leave
  <1>5. ASSUME NEW t \in Types \cup {Ap!Renderer},
               Ap!NextSubsystem(t) \/ Ap!DestroySubsystem(t)
        PROVE  Ap!ApplicationInv'
    <2>1. CASE Ap!NextSubsystem(t)
      BY <2>1 DEF Ap!NextSubsystem
    <2>2. CASE Ap!DestroySubsystem(t)
      BY <2>2 DEF Ap!DestroySubsystem
    <2> QED BY <1>5, <2>1, <2>2
  <1>6. CASE Ap!Enable
    BY <1>6 DEF Ap!Enable
  <1>7. CASE Ap!TakeRenderer
    BY <1>7 DEF Ap!TakeRenderer
  <1>8. CASE Ap!PutTiledRenderer
    BY <1>8 DEF Ap!PutTiledRenderer
  <1>9. CASE Ap!RenderFrame
    BY <1>9 DEF Ap!RenderFrame
  <1>10. CASE UNCHANGED Ap!vars
    BY <1>10 DEF Ap!vars
  <1> QED BY <1>1, <1>2, <1>3, <1>4, <1>5, <1>6, <1>7, <1>8, <1>9, <1>10
          DEF Ap!Next, Ap!Main, Ap!Job

-----------------------------------------------------------------------------
(* The subsystems together *)

\* Whichever subsystem moves, each one takes a step of its own or rests.
LEMMA EachMovesOrRests ==
  ASSUME [Next]_vars
  PROVE  /\ [Ev!Next]_(Ev!vars) /\ [Rs!Next]_(Rs!vars) /\ [Pl!Next]_(Pl!vars)
         /\ [Rd!Next]_(Rd!vars) /\ [Tl!Next]_(Tl!vars) /\ [Ms!Next]_(Ms!vars)
         /\ [Ap!Next]_(Ap!vars)
  <1>1. /\ Ev!Next \/ UNCHANGED evVars
        /\ Rs!Next \/ UNCHANGED rsVars
        /\ Pl!Next \/ UNCHANGED plVars
        /\ Rd!Next \/ UNCHANGED rdVars
        /\ Tl!Next \/ UNCHANGED tlVars
        /\ Ms!Next \/ UNCHANGED msVars
        /\ Ap!Next \/ UNCHANGED apVars
    BY DEF Next, vars, EventsMoves, ResourcesMoves, PluginsMoves,
           RenderingMoves, TilesMoves, MessagesMoves, ApplicationMoves
  <1>2. UNCHANGED evVars => UNCHANGED Ev!vars
    BY DEF evVars, Ev!vars, Ev!brokerVars, Ev!propertyVars, Ev!history
  <1>3. UNCHANGED rsVars => UNCHANGED Rs!vars
    BY DEF rsVars, Rs!vars
  <1>4. UNCHANGED plVars => UNCHANGED Pl!vars
    BY DEF plVars, Pl!vars
  <1>5. UNCHANGED rdVars => UNCHANGED Rd!vars
    BY DEF rdVars, Rd!vars, Rd!rendererVars
  <1>6. UNCHANGED tlVars => UNCHANGED Tl!vars
    BY DEF tlVars, Tl!vars, Tl!tilingVars
  <1>7. UNCHANGED msVars => UNCHANGED Ms!vars
    BY DEF msVars, Ms!vars
  <1>8. UNCHANGED apVars => UNCHANGED Ap!vars
    BY DEF apVars, Ap!vars, Ap!others
  <1> QED BY <1>1, <1>2, <1>3, <1>4, <1>5, <1>6, <1>7, <1>8

LEMMA SubsystemsInvInit ==
  ASSUME Init
  PROVE  SubsystemsInv
  BY EventsInvInit, ResourcesInvInit, PluginsInvInit, RenderingInvInit,
     TilesInvInit, MessagesInvInit, ApplicationInvInit
     DEF Init, SubsystemsInv

LEMMA SubsystemsInvStep ==
  ASSUME SubsystemsInv, [Next]_vars
  PROVE  SubsystemsInv'
  <1>1. Ev!EventsInv'
    BY EachMovesOrRests, EventsTypesStep, ChangesStep
       DEF SubsystemsInv, Ev!EventsInv
  <1>2. Rs!ResourcesInv'
    BY EachMovesOrRests, ResourcesTypes, LoadsStep
       DEF SubsystemsInv, Rs!ResourcesInv
  <1>3. Pl!PluginsInv'
    BY EachMovesOrRests, PluginsInvStep DEF SubsystemsInv
  <1>4. Rd!RenderingInv'
    BY EachMovesOrRests, RenderingInvStep DEF SubsystemsInv
  <1>5. Tl!TilesInv'
    BY EachMovesOrRests, TilesInvStep DEF SubsystemsInv
  <1>6. Ms!MessagesInv'
    BY EachMovesOrRests, MessagesInvStep DEF SubsystemsInv
  <1>7. Ap!ApplicationInv'
    BY EachMovesOrRests, ApplicationInvStep DEF SubsystemsInv
  <1> QED BY <1>1, <1>2, <1>3, <1>4, <1>5, <1>6, <1>7 DEF SubsystemsInv

\* In every reachable state the invariants of all subsystems hold.
THEOREM SubsystemsInvariant == Spec => []SubsystemsInv
  <1>1. SubsystemsInv /\ [Next]_vars => SubsystemsInv'
    BY SubsystemsInvStep
  <1> QED BY SubsystemsInvInit, <1>1, PTL DEF Spec

\* Every variable of the subsystems always has a value of its type.
THEOREM SubsystemTypes == Spec => []TypesOK
  <1>1. SubsystemsInv => TypesOK
    BY DEF SubsystemsInv, Ev!EventsInv, Rs!ResourcesInv, Pl!PluginsInv,
           Rd!RenderingInv, Tl!TilesInv, Ms!MessagesInv, Ap!ApplicationInv,
           TypesOK
  <1> QED BY SubsystemsInvariant, <1>1, PTL

\* For any listeners and properties, whatever the order of event jobs: a
\* listener of a property learns its last change (Set, FireEvent).
THEOREM ListenersLearnChanges == Spec => []NoChangeIsMissed
  <1>1. SubsystemsInv => NoChangeIsMissed
    BY DEF SubsystemsInv, Ev!EventsInv, NoChangeIsMissed
  <1> QED BY SubsystemsInvariant, <1>1, PTL

\* For any pool of loading threads and any queue: a thread sleeps only while
\* others will take all that is queued (LoadResource, the loop of a thread).
THEOREM LoadsAreTaken == Spec => []NoLoadIsForgotten
  <1>1. SubsystemsInv => NoLoadIsForgotten
    BY DEF SubsystemsInv, Rs!ResourcesInv, NoLoadIsForgotten
  <1> QED BY SubsystemsInvariant, <1>1, PTL

\* Whatever is installed and uninstalled meanwhile, the plugins that are
\* managed are those that run (InstallPlugin, UninstallPlugin).
THEOREM ManagedPluginsRun == Spec => []ManagedIsRunning
  <1>1. SubsystemsInv => ManagedIsRunning
    BY DEF SubsystemsInv, Pl!PluginsInv, ManagedIsRunning
  <1> QED BY SubsystemsInvariant, <1>1, PTL

\* For any number of concurrent calls of a render service: what is answered
\* has the extent and camera of the request (RenderService::Render).
THEOREM AnswersFitRequests == Spec => []AnswerIsWhatWasAsked
  <1>1. SubsystemsInv => AnswerIsWhatWasAsked
    BY DEF SubsystemsInv, Rd!RenderingInv, AnswerIsWhatWasAsked
  <1> QED BY SubsystemsInvariant, <1>1, PTL

\* For any number of services that come and go: an image is copied into a
\* tile of its extent, of the tiling it was made for (Render, the listener).
THEOREM ImagesFitTiles == Spec => []ImageFitsItsTile
  <1>1. SubsystemsInv => ImageFitsItsTile
    BY DEF SubsystemsInv, Tl!TilesInv, ImageFitsItsTile
  <1> QED BY SubsystemsInvariant, <1>1, PTL

\* For any names and values of parameters and results: what is received is
\* what was sent (the converters of messages, requests and responses).
THEOREM CallsSurviveTransport == Spec => []CallSurvivesTransport
  <1>1. SubsystemsInv => CallSurvivesTransport
    BY DEF SubsystemsInv, Ms!MessagesInv, CallSurvivesTransport
  <1> QED BY SubsystemsInvariant, <1>1, PTL

\* For any subsystems: each frame finds a renderer although the plugin takes
\* it and puts another one in its place (TakeRenderer, AddOrReplace).
THEOREM RendererIsNeverMissing == Spec => []RenderingSurvivesSwap
  <1>1. SubsystemsInv => RenderingSurvivesSwap
    BY DEF SubsystemsInv, Ap!ApplicationInv, RenderingSurvivesSwap
  <1> QED BY SubsystemsInvariant, <1>1, PTL

=============================================================================
