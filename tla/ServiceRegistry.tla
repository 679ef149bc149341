-------------------------- MODULE ServiceRegistry --------------------------
(***************************************************************************)
(* How nodes learn of each other's services: RemoteServiceRegistry with    *)
(* its registration messages, its consumer of these messages, and the      *)
(* RoundRobinServiceCaller that holds the executors of a service.          *)
(*                                                                         *)
(* There is one service: services of different names have callers of their *)
(* own.  An executor belongs to the node that offers it; in the caller of  *)
(* another node it stands for the RemoteServiceExecutor with its id.       *)
(***************************************************************************)
EXTENDS Integers, Sequences, FiniteSets

CONSTANTS
    Nodes,      \* instances of the program
    Executors,  \* local service executors, by their ids
    Owner,      \* the node that offers an executor
    Initial,    \* the executors registered before any nodes connect
    Users,      \* the nodes whose users call the service
    MaxCalls,   \* bound: calls of Register, Unregister and UnregisterAll
    MaxStreams  \* bound: how often two nodes shake hands

ASSUME OwnerAssumption == Owner \in [Executors -> Nodes]
ASSUME InitialAssumption ==
    /\ Initial \in [Nodes -> Seq(Executors)]
    /\ \A n \in Nodes : \A i, j \in DOMAIN Initial[n] :
           /\ Owner[Initial[n][i]] = n
           /\ Initial[n][i] = Initial[n][j] => i = j
ASSUME UsersAssumption == Users \subseteq Nodes
ASSUME BoundsAssumption == MaxCalls \in Nat /\ MaxStreams \in Nat

VARIABLES
    callers,     \* by node: the executors in its RoundRobinServiceCaller
    lastIndex,   \* by node: m_last_index
    adding,      \* by node: the executor for which Register holds the mutex
    checking,    \* calls of Register that have not asked IsCallable yet
    locking,     \* calls of Register that wait for m_registered_callers_mutex
    conn,        \* m_connections of a node: none, open, or stale (broken, and
                 \* not noticed yet)
    fresh,       \* streams that wait for AddConnection
    established, \* jobs that pass a ConnectionEstablishedEvent
    portfolio,   \* jobs that send a registration to one node
    broadcasts,  \* jobs that send a registration to all nodes
    msgs,        \* registrations sent and not received: receiver, executor
    dropped,     \* history: what a node has unregistered though remote
    calls,       \* history: for MaxCalls
    streams      \* history: for MaxStreams

userVars == <<callers, lastIndex, dropped, calls>>
registerVars == <<adding, checking, locking>>
connVars == <<conn, fresh, streams>>
jobVars == <<established, portfolio, broadcasts, msgs>>
vars == <<userVars, registerVars, connVars, jobVars>>

Elements(s) == {s[i] : i \in DOMAIN s}
Local(n, e) == Owner[e] = n

Init ==
    /\ callers = Initial
    /\ lastIndex = [n \in Nodes |-> 0]
    /\ adding = [n \in Nodes |-> {}]
    /\ checking = {} /\ locking = {}
    /\ conn = [n \in Nodes |-> [m \in Nodes |-> "none"]]
    /\ fresh = [n \in Nodes |-> [m \in Nodes |-> "none"]]
    /\ established = {} /\ portfolio = {} /\ broadcasts = {} /\ msgs = {}
    /\ dropped = {}
    /\ calls = 0 /\ streams = 0

-----------------------------------------------------------------------------
(* RoundRobinServiceCaller *)

\* A connection that is broken counts as usable until this is noticed.
IsCallable(n, e) == Local(n, e) \/ conn[n][Owner[e]] # "none"

\* Duplicates are recognised by their id.
Added(s, e) == IF e \in Elements(s) THEN s ELSE Append(s, e)

Removed(s, e) ==
    IF e \notin Elements(s) THEN s
    ELSE LET i == CHOOSE j \in DOMAIN s : s[j] = e
         IN  [j \in 1 .. Len(s) - 1 |-> IF j < i THEN s[j] ELSE s[j + 1]]

\* Where the loop of SelectNextCallableExecutor is after k tries; from 0.
IndexAfter(s, last, k) ==
    LET start == IF last < Len(s) THEN last ELSE Len(s) - 1
    IN  (start + k) % Len(s)

\* The numbers of tries after which the loop may stop.
Hits(n, s, last, onlyLocal) ==
    {k \in 1 .. Len(s) :
        LET e == s[IndexAfter(s, last, k) + 1]
        IN  IsCallable(n, e) /\ (onlyLocal => Local(n, e))}

\* Mutant: the search begins with the executor selected last.
NextIndexStays(n, s, last, onlyLocal) ==
    LET hits == Hits(n, s, last, onlyLocal)
        start == IF last < Len(s) THEN last ELSE Len(s) - 1
    IN  IF s = <<>> THEN last
        ELSE IF IsCallable(n, s[start + 1]) THEN start
        ELSE IF hits = {} THEN start
        ELSE IndexAfter(s, last, CHOOSE k \in hits : \A j \in hits : k <= j)

\* m_last_index after a selection: the selected executor, if there is one.
NextIndex(n, s, last, onlyLocal) ==
    LET hits == Hits(n, s, last, onlyLocal)
    IN  IF s = <<>> THEN last
        ELSE IF hits = {} THEN IndexAfter(s, last, Len(s))
        ELSE IndexAfter(s, last, CHOOSE k \in hits : \A j \in hits : k <= j)

SelectNextCallableExecutor(n, onlyLocal) ==
    /\ lastIndex' = [lastIndex EXCEPT ![n] =
                        NextIndex(n, callers[n], @, onlyLocal)]
    /\ UNCHANGED <<callers, dropped, calls, registerVars, connVars, jobVars>>

-----------------------------------------------------------------------------
(* RemoteServiceRegistry *)

\* A user registers a local executor, which is always callable.
Register(e) ==
    /\ calls < MaxCalls /\ calls' = calls + 1
    /\ <<Owner[e], e>> \notin locking
    /\ e \notin adding[Owner[e]]
    /\ locking' = locking \cup {<<Owner[e], e>>}
    /\ UNCHANGED <<callers, lastIndex, dropped, adding, checking, connVars,
                   jobVars>>

\* Register for a remote executor is called by the consumer of the message.
CheckCallable(n, e) ==
    /\ <<n, e>> \in checking
    /\ checking' = checking \ {<<n, e>>}
    /\ locking' = IF IsCallable(n, e) THEN locking \cup {<<n, e>>} ELSE locking
    /\ UNCHANGED <<userVars, adding, connVars, jobVars>>

\* The mutex is held until the executor is added; the job that broadcasts a
\* local one is kicked before.
LockCallers(n, e) ==
    /\ <<n, e>> \in locking
    /\ adding[n] = {}
    /\ locking' = locking \ {<<n, e>>}
    /\ adding' = [adding EXCEPT ![n] = {e}]
    /\ broadcasts' = IF Local(n, e) THEN broadcasts \cup {e} ELSE broadcasts
    /\ UNCHANGED <<userVars, checking, connVars, established, portfolio, msgs>>

\* Mutant: duplicates are not recognised.
AddExecutorTwice(n, e) ==
    /\ e \in adding[n]
    /\ Len(callers[n]) <= Cardinality(Executors)
    /\ adding' = [adding EXCEPT ![n] = {}]
    /\ callers' = [callers EXCEPT ![n] = Append(@, e)]
    /\ dropped' = dropped \ {<<n, e>>}
    /\ UNCHANGED <<lastIndex, calls, checking, locking, connVars, jobVars>>

AddExecutor(n, e) ==
    /\ e \in adding[n]
    /\ adding' = [adding EXCEPT ![n] = {}]
    /\ callers' = [callers EXCEPT ![n] = Added(@, e)]
    /\ dropped' = dropped \ {<<n, e>>}
    /\ UNCHANGED <<lastIndex, calls, checking, locking, connVars, jobVars>>

\* No other node is told.
Unregister(n, e) ==
    /\ calls < MaxCalls /\ calls' = calls + 1
    /\ adding[n] = {}
    /\ e \in Elements(callers[n])
    /\ callers' = [callers EXCEPT ![n] = Removed(@, e)]
    /\ dropped' = IF Local(n, e) THEN dropped ELSE dropped \cup {<<n, e>>}
    /\ UNCHANGED <<lastIndex, registerVars, connVars, jobVars>>

\* The caller is erased; the next one starts from index 0.
UnregisterAll(n) ==
    /\ calls < MaxCalls /\ calls' = calls + 1
    /\ adding[n] = {}
    /\ callers[n] # <<>>
    /\ callers' = [callers EXCEPT ![n] = <<>>]
    /\ lastIndex' = [lastIndex EXCEPT ![n] = 0]
    /\ dropped' = dropped \cup
                  {<<n, e>> : e \in {f \in Elements(callers[n]) : ~Local(n, f)}}
    /\ UNCHANGED <<registerVars, connVars, jobVars>>

\* Mutant: the portfolio is read without the mutex.
SendServicePortfolioUnlocked(n, m) ==
    /\ <<n, m>> \in established
    /\ established' = established \ {<<n, m>>}
    /\ portfolio' = portfolio \cup
           {<<m, e>> : e \in {f \in Elements(callers[n]) : Local(n, f)}}
    /\ UNCHANGED <<userVars, registerVars, connVars, broadcasts, msgs>>

\* The listener of ConnectionEstablishedEvent kicks a job for each local
\* executor.
SendServicePortfolioToEndpoint(n, m) ==
    /\ <<n, m>> \in established
    /\ adding[n] = {}
    /\ established' = established \ {<<n, m>>}
    /\ portfolio' = portfolio \cup
           {<<m, e>> : e \in {f \in Elements(callers[n]) : Local(n, f)}}
    /\ UNCHANGED <<userVars, registerVars, connVars, broadcasts, msgs>>

-----------------------------------------------------------------------------
(* Sending and receiving registrations *)

\* What is sent over a broken connection is lost; without one, Send throws.
SendRegistration(m, e) ==
    /\ <<m, e>> \in portfolio
    /\ portfolio' = portfolio \ {<<m, e>>}
    /\ msgs' = IF conn[Owner[e]][m] = "open" THEN msgs \cup {<<m, e>>}
                                             ELSE msgs
    /\ UNCHANGED <<userVars, registerVars, connVars, established, broadcasts>>

\* IssueBroadcastAsJob: all connections, under m_connections_mutex.
Broadcast(e) ==
    /\ e \in broadcasts
    /\ broadcasts' = broadcasts \ {e}
    /\ msgs' = msgs \cup
           {<<m, e>> : m \in {k \in Nodes : conn[Owner[e]][k] = "open"}}
    /\ UNCHANGED <<userVars, registerVars, connVars, established, portfolio>>

\* Mutant: a message is taken before AddConnection has entered the
\* connection, that is, m_running_mutex is not held.
ReceiveEarly(m, e) ==
    /\ <<m, e>> \in msgs
    /\ conn[m][Owner[e]] = "open" \/ fresh[m][Owner[e]] = "open"
    /\ msgs' = msgs \ {<<m, e>>}
    /\ checking' = checking \cup {<<m, e>>}
    /\ UNCHANGED <<userVars, adding, locking, connVars, established, portfolio,
                   broadcasts>>

\* A received message becomes a job.  Messages are received from the start of
\* AddConnection on, but processed only when it has released m_running_mutex.
Receive(m, e) ==
    /\ <<m, e>> \in msgs
    /\ conn[m][Owner[e]] = "open"
    /\ msgs' = msgs \ {<<m, e>>}
    /\ checking' = checking \cup {<<m, e>>}
    /\ UNCHANGED <<userVars, adding, locking, connVars, established, portfolio,
                   broadcasts>>

-----------------------------------------------------------------------------
(* Connections *)

\* What is under way between two nodes is received in time, or lost.
LoseMessages(n, m) ==
    LET underWay == {r \in msgs : \/ r[1] = n /\ Owner[r[2]] = m
                                  \/ r[1] = m /\ Owner[r[2]] = n}
    IN  /\ msgs' = msgs \ underWay
        /\ \E received \in SUBSET {r \in underWay :
                                      conn[r[1]][Owner[r[2]]] = "open"} :
               checking' = checking \cup received

Broken(state) == IF state = "open" THEN "stale" ELSE state
Entered(stream) == IF stream = "open" THEN "open" ELSE "stale"

\* Two nodes shake hands; both get a stream.  They may be connected already.
Establish(n, m) ==
    /\ streams < MaxStreams /\ streams' = streams + 1
    /\ n # m
    /\ fresh[n][m] = "none" /\ fresh[m][n] = "none"
    /\ fresh' = [fresh EXCEPT ![n][m] = "open", ![m][n] = "open"]
    /\ UNCHANGED <<userVars, registerVars, conn, jobVars>>

\* Mutant: a stream that is broken already is entered as it is.
AddConnectionAsIs(n, m) ==
    /\ fresh[n][m] # "none"
    /\ fresh' = [fresh EXCEPT ![n][m] = "none"]
    /\ conn' = [conn EXCEPT ![n][m] = fresh[n][m]]
    /\ established' = established \cup {<<n, m>>}
    /\ UNCHANGED <<userVars, registerVars, streams, portfolio, broadcasts,
                   msgs>>

\* Replaces an old connection to the same node; if that is not broken yet, it
\* is closed for both ends.
AddConnection(n, m) ==
    /\ fresh[n][m] # "none"
    /\ fresh' = [fresh EXCEPT ![n][m] = "none"]
    /\ IF conn[n][m] = "open"
       THEN /\ conn' = [conn EXCEPT ![n][m] = Entered(fresh[n][m]),
                                    ![m][n] = Broken(@)]
            /\ LoseMessages(n, m)
       ELSE /\ conn' = [conn EXCEPT ![n][m] = Entered(fresh[n][m])]
            /\ UNCHANGED <<msgs, checking>>
    /\ established' = established \cup {<<n, m>>}
    /\ UNCHANGED <<userVars, adding, locking, streams, portfolio, broadcasts>>

\* A stream that neither end has entered breaks.
BreakFresh(n, m) ==
    /\ fresh[n][m] = "open" /\ fresh[m][n] = "open"
    /\ fresh' = [fresh EXCEPT ![n][m] = "broken", ![m][n] = "broken"]
    /\ UNCHANGED <<userVars, registerVars, conn, streams, jobVars>>

\* A stream breaks that an end has entered.  The other one may not have done
\* so yet; if neither end waits, or both do, it is the one they use.
Break(n, m) ==
    /\ n # m
    /\ conn[n][m] = "open"
    /\ conn' = [conn EXCEPT ![n][m] = Broken(@), ![m][n] = Broken(@)]
    /\ fresh' = IF fresh[n][m] = "none" /\ fresh[m][n] = "open"
                THEN [fresh EXCEPT ![m][n] = "broken"] ELSE fresh
    /\ LoseMessages(n, m)
    /\ UNCHANGED <<userVars, adding, locking, streams, established, portfolio,
                   broadcasts>>

\* An end notices, and its entry is closed or cleaned up.
NoticeClosed(n, m) ==
    /\ conn[n][m] = "stale"
    /\ conn' = [conn EXCEPT ![n][m] = "none"]
    /\ UNCHANGED <<userVars, registerVars, fresh, streams, jobVars>>

-----------------------------------------------------------------------------

RegisterStep(n, e) ==
    CheckCallable(n, e) \/ LockCallers(n, e) \/ AddExecutor(n, e)
JobStep ==
    \/ \E n, m \in Nodes : SendServicePortfolioToEndpoint(n, m)
    \/ \E m \in Nodes, e \in Executors : SendRegistration(m, e) \/ Receive(m, e)
    \/ \E e \in Executors : Broadcast(e)
UserCall ==
    \/ \E e \in Executors : Register(e)
    \/ \E n \in Nodes : UnregisterAll(n) \/ \E e \in Executors : Unregister(n, e)
Network ==
    \E n, m \in Nodes : Establish(n, m) \/ BreakFresh(n, m) \/ Break(n, m)

Next ==
    \/ \E n \in Nodes, e \in Executors : RegisterStep(n, e)
    \/ JobStep
    \/ UserCall
    \/ Network
    \/ \E n, m \in Nodes : AddConnection(n, m) \/ NoticeClosed(n, m)
    \/ \E n \in Users, onlyLocal \in BOOLEAN :
           SelectNextCallableExecutor(n, onlyLocal)

Spec == Init /\ [][Next]_vars

\* Jobs run, a mutex that stays free is obtained, and a handshake ends.
Fairness ==
    /\ \A n \in Nodes, e \in Executors : WF_vars(RegisterStep(n, e))
    /\ WF_vars(JobStep)
    /\ \A n, m \in Nodes : WF_vars(AddConnection(n, m))

FairSpec == Spec /\ Fairness

=============================================================================
