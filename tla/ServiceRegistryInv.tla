------------------------ MODULE ServiceRegistryInv ------------------------
(***************************************************************************)
(* Properties of ServiceRegistry, with the inductive invariant behind them. *)
(***************************************************************************)
EXTENDS ServiceRegistry

Pairs == Nodes \X Executors

TypeOK ==
    /\ callers \in [Nodes -> Seq(Executors)]
    /\ lastIndex \in [Nodes -> Nat]
    /\ adding \in [Nodes -> SUBSET Executors]
    /\ checking \subseteq Pairs /\ locking \subseteq Pairs
    /\ conn \in [Nodes -> [Nodes -> {"none", "open", "stale"}]]
    /\ fresh \in [Nodes -> [Nodes -> {"none", "open", "broken"}]]
    /\ established \subseteq Nodes \X Nodes
    /\ portfolio \subseteq Pairs /\ broadcasts \subseteq Executors
    /\ msgs \subseteq Pairs
    /\ dropped \subseteq Pairs
    /\ calls \in 0 .. MaxCalls /\ streams \in 0 .. MaxStreams

\* Something on its way will tell m of e, unless the connection breaks.
Announced(m, e) ==
    \/ <<Owner[e], m>> \in established
    \/ <<m, e>> \in portfolio
    \/ e \in broadcasts
    \/ <<m, e>> \in msgs
    \/ <<m, e>> \in checking /\ conn[m][Owner[e]] = "open"
    \/ <<m, e>> \in locking
    \/ e \in adding[m]

Known(m, e) == e \in Elements(callers[m])
Registered(e) == Known(Owner[e], e)
Connected(e, m) == m # Owner[e] /\ conn[Owner[e]][m] = "open"

\* No node misses a service: whatever the order in which executors are
\* registered, connections established, broken and replaced, and jobs run, a
\* registered executor is known to every connected node or about to be
\* announced to it (unless that node has unregistered it itself).
KnownOrAnnounced ==
    \A m \in Nodes, e \in Executors :
        Registered(e) /\ Connected(e, m) /\ <<m, e>> \notin dropped
            => Known(m, e) \/ Announced(m, e)

\* The inductive form: it holds while the mutex is still held to add e, when
\* the broadcast may be over.
WillBeKnown(m, e) ==
    (/\ Registered(e) \/ e \in adding[Owner[e]]
     /\ Connected(e, m)
     /\ <<m, e>> \notin dropped) => Known(m, e) \/ Announced(m, e)

\* RoundRobinServiceCaller: a duplicate would be called twice a round.
NoDuplicates ==
    \A n \in Nodes : \A i, j \in DOMAIN callers[n] :
        callers[n][i] = callers[n][j] => i = j

\* The executors selected by the next k selections, when k of them are
\* callable, are these k: selection is fair among executors wherever removals
\* and reconnections have left the list and the index.
RoundIsFair ==
    \A n \in Nodes :
        LET s == callers[n]
            callable == {e \in Elements(s) : IsCallable(n, e)}
            last[i \in 0 .. Len(s)] ==
                IF i = 0 THEN lastIndex[n]
                         ELSE NextIndex(n, s, last[i - 1], FALSE)
        IN  callable = {s[last[i] + 1] : i \in 1 .. Cardinality(callable)}

\* When users and network come to rest, every node gets to know every
\* executor registered at a node connected to it.
Converges ==
    <>[][~(UserCall \/ Network)]_vars =>
        <>[](\A m \in Nodes, e \in Executors :
                 Registered(e) /\ Connected(e, m) /\ <<m, e>> \notin dropped
                     => Known(m, e))

\* m_registered_callers_mutex is held for one executor at a time.
MutexHeldForOne == \A n \in Nodes : \A e, f \in adding[n] : e = f

RegistryInv ==
    /\ TypeOK /\ NoDuplicates /\ MutexHeldForOne
    /\ \A m \in Nodes, e \in Executors : WillBeKnown(m, e)

-----------------------------------------------------------------------------
(* What the code does not guarantee *)

\* IServiceCaller.h: "Fairness among executors is important".  The node's own
\* calls take any executor, requests of peers only local ones, and both move
\* the same index: here they alternate for two rounds.
MixedRoundIsFair ==
    \A n \in Nodes :
        LET s == callers[n]
            callable == {e \in Elements(s) : IsCallable(n, e)}
            last[i \in 0 .. 4 * Len(s)] ==
                IF i = 0 THEN lastIndex[n]
                         ELSE NextIndex(n, s, last[i - 1], i % 2 = 0)
        IN  callable \subseteq {s[last[i] + 1] : i \in 1 .. 4 * Len(s)}

\* IServiceRegistry.h: Find returns an executor "if the service exists".  It
\* sets its promise twice for a service that is callable, but not locally.
FindAnswersOnce ==
    \A n \in Nodes :
        (\E e \in Elements(callers[n]) : IsCallable(n, e)) =>
            \E e \in Elements(callers[n]) : Local(n, e)

\* RoundRobinServiceCaller.cpp, AddExecutor: "executor should be callable".
AddedIsCallable == \A n \in Nodes : \A e \in adding[n] : IsCallable(n, e)

=============================================================================
