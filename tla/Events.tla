------------------------------- MODULE Events -------------------------------
(***************************************************************************)
(* The event broker (JobBasedEventBroker) and the property provider that   *)
(* is built on it.  A topic is a path of the property tree: setting a      *)
(* property fires one event for every prefix of its path, and every event  *)
(* becomes one job per listener.  The broker only has weak pointers to its *)
(* listeners: they stay in its lists after their destruction until a timer *)
(* job cleans up.                                                          *)
(***************************************************************************)
EXTENDS Naturals, SequencesExt

CONSTANTS
    Listeners,
    Paths,        \* the paths in use; every prefix of one is one
    MaxChanges    \* bound: calls of PropertyProvider::Set

ConstantsOK ==
    /\ MaxChanges \in Nat
    /\ Paths \subseteq Seq(STRING)
    /\ \A p \in Paths : p # <<>> /\ \A n \in 1 .. Len(p) : SubSeq(p, 1, n) \in Paths

VARIABLES
    broker,       \* whether the broker exists
    subscribers,  \* m_event_listeners: path -> its listeners, in order
    live,         \* the listeners that have not been destroyed
    values,       \* m_property_tree: path -> the number of its last change
    setting,      \* PropertyProvider::Set: the key, and how far it has notified
    removing,     \* UnregisterListener: the listener, and the topics left
    jobs,         \* event jobs that have been kicked and have not run
    overrun,      \* an iterator has passed the end: the behaviour is undefined
    changes,      \* number of changes
    seen,         \* history: the change a listener found when it was last called
    since         \* history: changes when the listener registered for a path

brokerVars == <<broker, subscribers, overrun>>
propertyVars == <<values, setting, changes>>
history == <<seen, since>>
vars == <<brokerVars, propertyVars, live, removing, jobs, history>>

NotSetting == [key |-> <<>>, next |-> 1]
NoTopics == [of |-> {}, topics |-> {}]

\* getSubpaths: every prefix, the shortest first, and the path itself.
Subpaths(key) == [n \in 1 .. Len(key) |-> SubSeq(key, 1, n)]
\* Mutant: the path itself is not appended after the loop.
ProperSubpaths(key) == [n \in 1 .. Len(key) - 1 |-> SubSeq(key, 1, n)]
NotifiedPaths(key) == Subpaths(key)

Init ==
    /\ broker = TRUE
    /\ subscribers = [p \in Paths |-> <<>>]
    /\ live = Listeners
    /\ values = [p \in Paths |-> 0]
    /\ setting = NotSetting
    /\ removing = NoTopics
    /\ jobs = {}
    /\ overrun = FALSE
    /\ changes = 0
    /\ seen = [l \in Listeners |-> [p \in Paths |-> 0]]
    /\ since = [l \in Listeners |-> [p \in Paths |-> 0]]

\* The behaviour is defined, and the broker can be used.
Usable == broker /\ ~overrun

-----------------------------------------------------------------------------
(* The broker: each of these holds m_event_listeners_mutex *)

HasListener(l, topic) ==
    \E i \in DOMAIN subscribers[topic] :
        subscribers[topic][i] = l /\ l \in live

RegisterListener(l, topic) ==
    /\ Usable /\ l \in live /\ removing.of # {l}
    /\ ~HasListener(l, topic)
    /\ subscribers' = [subscribers EXCEPT ![topic] = Append(@, l)]
    /\ since' = [since EXCEPT ![l][topic] = changes]
    /\ UNCHANGED <<broker, overrun, propertyVars, live, removing, jobs, seen>>

\* A list without what is at some of its positions.
Without(list, positions) ==
    LET left[k \in 0 .. Len(list)] ==
            IF k = 0 THEN <<>>
            ELSE IF k \in positions THEN left[k - 1]
            ELSE Append(left[k - 1], list[k])
    IN  left[Len(list)]

Expired(list) == {k \in 1 .. Len(list) : list[k] \notin live}

\* The loop of RemoveListenerFromTopic.  erase moves the next entry to the
\* place of the erased one, and the increment of the loop then skips it; after
\* an expired entry at the end the iterator is past the end.
Scan(list, l) ==
    LET looksAt[k \in 0 .. Len(list)] ==
            k > 0 /\ ~(looksAt[k - 1] /\ k - 1 \in Expired(list))
        hits == {k \in 1 .. Len(list) : looksAt[k] /\ list[k] = l /\ l \in live}
        erased == {k \in hits \cup Expired(list) :
                      looksAt[k] /\ \A hit \in hits : k <= hit}
    IN  [left |-> Without(list, erased),
         past |-> hits = {} /\ Len(list) \in erased]

\* UnregisterListener reads the topics without the mutex...
UnregisterListener(l) ==
    /\ Usable /\ l \in live
    /\ removing.of = {}
    /\ removing' = [of |-> {l}, topics |-> Paths]
    /\ UNCHANGED <<brokerVars, propertyVars, live, jobs, history>>

\* ... and takes it for each of them.
RemoveListenerFromTopic(l, topic) ==
    /\ Usable /\ removing.of = {l}
    /\ topic \in removing.topics
    /\ LET result == Scan(subscribers[topic], l) IN
           /\ subscribers' = [subscribers EXCEPT ![topic] = result.left]
           /\ overrun' = result.past
    /\ removing' = [removing EXCEPT !.topics = @ \ {topic}]
    /\ UNCHANGED <<broker, propertyVars, live, jobs, history>>

UnregisterReturns ==
    /\ Usable /\ removing.of # {} /\ removing.topics = {}
    /\ removing' = NoTopics
    /\ UNCHANGED <<brokerVars, propertyVars, live, jobs, history>>

\* The owner of a listener destroys it; it is not being unregistered.
Expire(l) ==
    /\ l \in live /\ removing.of # {l}
    /\ live' = live \ {l}
    /\ UNCHANGED <<brokerVars, propertyVars, removing, jobs, history>>

\* The timer job.
CleanUpSubscribers ==
    /\ Usable
    /\ subscribers' = [p \in Paths |->
           Without(subscribers[p], Expired(subscribers[p]))]
    /\ UNCHANGED <<broker, overrun, propertyVars, live, removing, jobs, history>>

Event(l, topic, key) ==
    [to |-> l, topic |-> topic, key |-> key, change |-> values[key]]

\* One job for every entry of the topic that has not expired.
FireEvent(topic, key) ==
    jobs' = jobs \cup {Event(l, topic, key) :
                       l \in {l \in live : HasListener(l, topic)}}

\* An event job looks again whether its listener has expired.  The listener
\* is told the path, and reads the value.
RunEvent(j) ==
    /\ j \in jobs
    /\ jobs' = jobs \ {j}
    /\ seen' = IF j.to \in live
               THEN [seen EXCEPT ![j.to][j.key] = values[j.key]] ELSE seen
    /\ UNCHANGED <<brokerVars, propertyVars, live, removing, since>>

\* RemoveAllListeners, in the destructor; kicked jobs do not need the broker.
DestroyBroker ==
    /\ Usable /\ setting = NotSetting /\ removing = NoTopics
    /\ broker' = FALSE
    /\ subscribers' = [p \in Paths |-> <<>>]
    /\ UNCHANGED <<overrun, propertyVars, live, removing, jobs, history>>

-----------------------------------------------------------------------------
(* The property provider *)

Put(key) ==
    /\ Usable /\ setting = NotSetting
    /\ changes < MaxChanges
    /\ changes' = changes + 1
    /\ values' = [values EXCEPT ![key] = changes + 1]
    /\ setting' = [key |-> key, next |-> 1]
    /\ UNCHANGED <<brokerVars, live, removing, jobs, history>>

Notify ==
    /\ Usable /\ setting # NotSetting
    /\ LET paths == NotifiedPaths(setting.key) IN
           IF setting.next > Len(paths)
           THEN setting' = NotSetting /\ UNCHANGED jobs
           ELSE /\ FireEvent(paths[setting.next], setting.key)
                /\ setting' = [setting EXCEPT !.next = @ + 1]
    /\ UNCHANGED <<brokerVars, values, changes, live, removing, history>>

-----------------------------------------------------------------------------

ListenerStep ==
    \E l \in Listeners :
        \/ UnregisterListener(l) \/ Expire(l)
        \/ \E p \in Paths :
              RegisterListener(l, p) \/ RemoveListenerFromTopic(l, p)

Next ==
    \/ ListenerStep \/ UnregisterReturns \/ CleanUpSubscribers \/ DestroyBroker
    \/ \E j \in jobs : RunEvent(j)
    \/ \E key \in Paths : Put(key)
    \/ Notify

Spec == Init /\ [][Next]_vars

-----------------------------------------------------------------------------
(* Properties *)

\* Every variable has its type.
TypeOK ==
    /\ broker \in BOOLEAN /\ overrun \in BOOLEAN
    /\ subscribers \in [Paths -> Seq(Listeners)]
    /\ live \in SUBSET Listeners
    /\ values \in [Paths -> 0 .. MaxChanges] /\ changes \in 0 .. MaxChanges
    /\ setting.key \in Paths \cup {<<>>} /\ setting.next \in Nat
    /\ removing.of \in SUBSET Listeners /\ removing.topics \in SUBSET Paths
    /\ jobs \in SUBSET [to : Listeners, topic : Paths, key : Paths,
                        change : 1 .. MaxChanges]
    /\ seen \in [Listeners -> [Paths -> 0 .. MaxChanges]]
    /\ since \in [Listeners -> [Paths -> 0 .. MaxChanges]]

\* Set still has to fire the event of this topic.
WillNotify(topic, key) ==
    /\ setting.key = key
    /\ \E n \in setting.next .. Len(key) : SubSeq(key, 1, n) = topic

\* Whoever listens to a path or to a path above it does not miss the last
\* change of a property: it has found it, or a job will tell it, or the
\* change is older than its registration.  So a listener never keeps an old
\* value, in whatever order the event jobs run.
NoChangeIsMissed ==
    \A l \in live, topic \in Paths, key \in Paths :
        HasListener(l, topic) /\ IsPrefix(topic, key) =>
            \/ seen[l][key] = values[key]
            \/ \E j \in jobs : j.to = l /\ j.key = key
            \/ values[key] <= since[l][topic]
            \/ WillNotify(topic, key)

\* IEventBroker.h, UnregisterListener: the listener is removed from all event
\* types: none is left when the last topic has been processed.
UnregisteredIsGone ==
    \A l \in live :
        removing = [of |-> {l}, topics |-> {}] =>
            \A p \in Paths : ~HasListener(l, p)

-----------------------------------------------------------------------------
(* The inductive invariant *)

\* A value is the number of its last change, and the provider notifies of a
\* change that has been made.
ChangesOK ==
    /\ \A p \in Paths : values[p] <= changes
    /\ setting = [key |-> setting.key, next |-> setting.next]
    /\ setting # NotSetting => setting.key \in Paths /\ values[setting.key] > 0
    /\ setting.next > 0

EventsInv == TypeOK /\ ChangesOK /\ NoChangeIsMissed
=============================================================================
