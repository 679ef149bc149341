------------------------------ MODULE Network ------------------------------
(***************************************************************************)
(* The web socket endpoints of several nodes: connecting to a node         *)
(* (BoostWebSocketConnectionEstablisher), accepting connections            *)
(* (BoostWebSocketConnectionListener), and the table of connections with   *)
(* its replacement, closing, clean-up and destruction                      *)
(* (BoostWebSocketEndpoint).  What is sent over a connection is in         *)
(* RemoteCalls and ServiceRegistry.                                        *)
(*                                                                         *)
(* Every completion handler runs on the one thread that asio gets          *)
(* (net.threads is 1 by default).  An attempt is a call of                 *)
(* EstablishConnectionTo and the TCP connection it makes.                  *)
(***************************************************************************)
EXTENDS Naturals, FiniteSets

CONSTANTS
    Nodes,       \* endpoints, by their id
    Attempts,    \* calls of EstablishConnectionTo
    From, To,    \* attempt -> the node that connects, the node it connects to
    After,       \* attempt -> the attempts whose future was waited for before
    Servers,     \* nodes with net.server.auto-init
    Mortal,      \* nodes whose endpoint may be destroyed
    MaxFaults,   \* bound: TCP connections that are reset by the network
    None

\* The marks that share a variable with nodes or attempts are neither.
ASSUME NetworkAssumption ==
    /\ From \in [Attempts -> Nodes] /\ To \in [Attempts -> Nodes]
    /\ MaxFaults \in Nat
    /\ None \notin Attempts
    /\ Attempts \cap {"waiting", "over"} = {}
    /\ Nodes \cap {"free", "io", "user"} = {}

VARIABLES
    running,     \* m_running
    ioUp,        \* the thread is in io_context::run
    crashed,     \* nodes whose process was terminated by an exception
    accepting,   \* the accept chain: "waiting", an attempt, or "over"
    phase,       \* the establisher's side of an attempt
    server,      \* the listener's side of an attempt
    conns,       \* m_connections
    open,        \* <<n, a>>: the stream of a is open at n
    shut,        \* <<n, a>>: n has closed the stream of a
    adding,      \* the attempt for which the io thread is in AddConnection
    connLock,    \* owner of m_connections_mutex
    user,        \* what another thread does with the endpoint
    broken,      \* attempts whose TCP connection is gone
    faults       \* bound: resets so far

chains == <<accepting, phase, server>>
streams == <<open, shut>>
locks == <<adding, connLock>>
vars == <<running, ioUp, crashed, chains, conns, streams, locks, user, broken,
          faults>>

Other(n, a) == IF From[a] = n THEN To[a] ELSE From[a]
Ends(a) == {From[a], To[a]}
Pending(a) == phase[a] \in {"resolve", "connect", "upgrade", "greeting"}
Handler(n) == ioUp[n] /\ n \notin crashed /\ adding[n] = None
Listening(n) == n \in Servers /\ user[n] \in {"idle", "closing", "stopping"}
                /\ n \notin crashed
OpenAt(n) == {a \in Attempts : <<n, a>> \in open}
CloseStreams(ends) == open' = open \ ends /\ shut' = shut \cup ends

Init ==
    /\ running = [n \in Nodes |-> n \in Servers]
    /\ ioUp = [n \in Nodes |-> TRUE]
    /\ crashed = {}
    /\ accepting = [n \in Nodes |-> IF n \in Servers THEN "waiting" ELSE "over"]
    /\ phase = [a \in Attempts |-> "idle"]
    /\ server = [a \in Attempts |-> "none"]
    /\ conns = [n \in Nodes |-> [p \in Nodes |-> None]]
    /\ open = {}
    /\ shut = {}
    /\ adding = [n \in Nodes |-> None]
    /\ connLock = [n \in Nodes |-> "free"]
    /\ user = [n \in Nodes |-> "idle"]
    /\ broken = {}
    /\ faults = 0

\* The listener waits for the next connection while the acceptor is open.
StartAccepting(n) == accepting' = [accepting EXCEPT ![n] =
                         IF Listening(n) THEN "waiting" ELSE "over"]

\* An exception in a handler leaves io_context::run: std::terminate.
Crash(n) ==
    /\ crashed' = crashed \cup {n}
    /\ broken' = broken \cup {a \in Attempts : n \in Ends(a)}

\* Close sends the closing frame and blocks until the other end has closed
\* the connection, too, or is gone.
Answered(n, a) == <<Other(n, a), a>> \in shut \/ a \in broken

\* The thread of n does not come to accept a connection: it has returned, the
\* accept chain has ended, or it is blocked in closing another connection.
Unresponsive(n) ==
    \/ ~ioUp[n] \/ accepting[n] = "over"
    \/ /\ connLock[n] = "io"
       /\ LET old == conns[n][Other(n, adding[n])] IN old # None /\ ~Answered(n, old)

-----------------------------------------------------------------------------
(* Connecting to a node *)

EstablishConnectionTo(a) ==
    /\ phase[a] = "idle"
    /\ \A b \in After[a] : phase[b] \in {"ok", "failed"}
    /\ user[From[a]] = "idle" /\ From[a] \notin crashed
    /\ phase' = [phase EXCEPT ![a] = "resolve"]
    /\ UNCHANGED <<running, ioUp, crashed, accepting, server, conns, streams, locks,
                   user, broken, faults>>

Advance(a, next) == phase' = [phase EXCEPT ![a] = next]

ProcessResolvedHostname(a) ==
    /\ Handler(From[a]) /\ phase[a] = "resolve"
    /\ Advance(a, IF a \in broken THEN "failed" ELSE "connect")
    /\ UNCHANGED <<running, ioUp, crashed, accepting, server, conns, streams, locks,
                   user, broken, faults>>

\* The peer's kernel completes the TCP connection; its listener may come to
\* accept it later.
ProcessEstablishedTcp(a) ==
    /\ Handler(From[a]) /\ phase[a] = "connect"
    /\ IF a \notin broken /\ Listening(To[a])
       THEN /\ Advance(a, "upgrade")
            /\ server' = [server EXCEPT ![a] = "backlog"]
       ELSE Advance(a, "failed") /\ UNCHANGED server
    /\ UNCHANGED <<running, ioUp, crashed, accepting, conns, streams, locks, user,
                   broken, faults>>

\* The peer answered the upgrade: write this node's id and read the answer.
UpgradedByServer(a) ==
    /\ Handler(From[a]) /\ phase[a] = "upgrade" /\ a \notin broken
    /\ server[a] \in {"request", "done"}
    /\ Advance(a, "greeting")
    /\ UNCHANGED <<running, ioUp, crashed, accepting, server, conns, streams, locks,
                   user, broken, faults>>

\* The handshake failed or took too long.  The handler first asks the socket
\* for its remote address, which throws if the socket is not connected: it
\* was closed by the timeout, or reset by the peer.
UpgradeFailed(a) ==
    /\ Handler(From[a]) /\ phase[a] = "upgrade"
    /\ \/ /\ a \in broken \/ (server[a] = "backlog" /\ Unresponsive(To[a]))
          /\ Crash(From[a])
          /\ UNCHANGED phase
       \/ /\ a \in broken
          /\ Advance(a, "failed")
          /\ UNCHANGED <<crashed, broken>>
    /\ UNCHANGED <<running, ioUp, accepting, server, conns, streams, locks, user,
                   faults>>

\* Mutant: an error of the node handshake does not set the promise.
ErrorIgnored(a) ==
    /\ Handler(From[a]) /\ phase[a] = "greeting"
    /\ a \notin broken /\ server[a] = "done"
    /\ IF running[From[a]]
       THEN /\ adding' = [adding EXCEPT ![From[a]] = a]
            /\ UNCHANGED <<phase, broken>>
       ELSE /\ Advance(a, "ok")
            /\ broken' = broken \cup {a}
            /\ UNCHANGED adding
    /\ UNCHANGED <<running, ioUp, crashed, accepting, server, conns, streams,
                   connLock, user, faults>>

\* The answer has arrived: the connection is consumed, then the promise set.
ProcessNodeHandshakeResponse(a) ==
    /\ Handler(From[a]) /\ phase[a] = "greeting"
    /\ \/ /\ a \in broken
          /\ Advance(a, "failed")
          /\ UNCHANGED <<adding, broken>>
       \/ /\ a \notin broken /\ server[a] = "done"
          /\ IF running[From[a]]
             THEN /\ adding' = [adding EXCEPT ![From[a]] = a]
                  /\ UNCHANGED <<phase, broken>>
             ELSE /\ Advance(a, "ok")
                  /\ broken' = broken \cup {a}
                  /\ UNCHANGED adding
    /\ UNCHANGED <<running, ioUp, crashed, accepting, server, conns, streams,
                   connLock, user, faults>>

-----------------------------------------------------------------------------
(* Accepting a connection *)

\* A connection that was reset meanwhile gives an error, a socket that is not
\* open, or one whose remote address cannot be asked for.
ProcessTcpConnection(a) ==
    LET n == To[a] IN
    /\ Handler(n) /\ accepting[n] = "waiting" /\ server[a] = "backlog"
    /\ \/ /\ accepting' = [accepting EXCEPT ![n] = a]
          /\ server' = [server EXCEPT ![a] = "upgrade"]
          /\ UNCHANGED <<crashed, broken>>
       \/ /\ a \in broken
          /\ server' = [server EXCEPT ![a] = "gone"]
          /\ \/ StartAccepting(n) /\ UNCHANGED <<crashed, broken>>
             \/ /\ accepting' = [accepting EXCEPT ![n] = "over"]
                /\ UNCHANGED <<crashed, broken>>
             \/ Crash(n) /\ UNCHANGED accepting
    /\ UNCHANGED <<running, ioUp, phase, conns, streams, locks, user,
                   faults>>

\* As in UpgradeFailed, the remote address is read before the error code.
ProcessWebSocketHandshake(a) ==
    LET n == To[a] IN
    /\ Handler(n) /\ accepting[n] = a /\ server[a] = "upgrade"
    /\ \/ /\ a \notin broken
          /\ server' = [server EXCEPT ![a] = "request"]
          /\ UNCHANGED <<accepting, crashed, broken>>
       \/ /\ a \in broken
          /\ server' = [server EXCEPT ![a] = "gone"]
          /\ \/ StartAccepting(n) /\ UNCHANGED <<crashed, broken>>
             \/ Crash(n) /\ UNCHANGED accepting
    /\ UNCHANGED <<running, ioUp, phase, conns, streams, locks, user, faults>>

\* Reading the peer's id and writing this node's.  Neither error path waits
\* for another connection.
ProcessNodeHandshakeRequest(a) ==
    LET n == To[a] IN
    /\ Handler(n) /\ accepting[n] = a /\ server[a] = "request"
    /\ \/ /\ a \in broken
          /\ server' = [server EXCEPT ![a] = "gone"]
          /\ accepting' = [accepting EXCEPT ![n] = "over"]
          /\ UNCHANGED <<adding, broken>>
       \/ /\ a \notin broken /\ phase[a] = "greeting"
          /\ server' = [server EXCEPT ![a] = "done"]
          /\ IF running[n]
             THEN /\ adding' = [adding EXCEPT ![n] = a]
                  /\ UNCHANGED <<accepting, broken>>
             ELSE /\ StartAccepting(n)
                  /\ broken' = broken \cup {a}
                  /\ UNCHANGED adding
    /\ UNCHANGED <<running, ioUp, crashed, phase, conns, streams, connLock, user,
                   faults>>

-----------------------------------------------------------------------------
(* The table of connections *)

\* AddConnection holds m_running_mutex throughout.  It starts receiving over
\* the new connection and closes an old one to the same node.
AddConnection(n) ==
    LET a == adding[n]
        old == conns[n][Other(n, a)] IN
    /\ a # None /\ n \notin crashed
    /\ connLock[n] = "free"
    /\ connLock' = [connLock EXCEPT ![n] = "io"]
    /\ open' = (open \cup {<<n, a>>}) \ {<<n, old>>}
    /\ shut' = IF old = None THEN shut ELSE shut \cup {<<n, old>>}
    /\ UNCHANGED <<running, ioUp, crashed, chains, conns, adding, user, broken,
                   faults>>

\* Mutant: a connection that is registered already is kept.
ConnectionKept(n) ==
    LET a == adding[n]
        old == conns[n][Other(n, a)] IN
    /\ connLock[n] = "io" /\ n \notin crashed
    /\ old # None => Answered(n, old)
    /\ conns' = [conns EXCEPT ![n][Other(n, a)] = IF @ = None THEN a ELSE @]
    /\ connLock' = [connLock EXCEPT ![n] = "free"]
    /\ adding' = [adding EXCEPT ![n] = None]
    /\ IF To[a] = n
       THEN StartAccepting(n) /\ UNCHANGED phase
       ELSE Advance(a, "ok") /\ UNCHANGED accepting
    /\ UNCHANGED <<running, ioUp, crashed, server, streams, user, broken, faults>>

\* The new connection is registered; the caller goes on.
ConnectionAdded(n) ==
    LET a == adding[n]
        old == conns[n][Other(n, a)] IN
    /\ connLock[n] = "io" /\ n \notin crashed
    /\ old # None => Answered(n, old)
    /\ conns' = [conns EXCEPT ![n][Other(n, a)] = a]
    /\ connLock' = [connLock EXCEPT ![n] = "free"]
    /\ adding' = [adding EXCEPT ![n] = None]
    /\ IF To[a] = n
       THEN StartAccepting(n) /\ UNCHANGED phase
       ELSE Advance(a, "ok") /\ UNCHANGED accepting
    /\ UNCHANGED <<running, ioUp, crashed, server, streams, user, broken, faults>>

\* A read completes with an error: the other end has closed, or the
\* liveliness probe found the connection dead.
OnConnectionLost(n, a) ==
    /\ Handler(n) /\ a \in OpenAt(n)
    /\ Answered(n, a)
    /\ CloseStreams({<<n, a>>})
    /\ UNCHANGED <<running, ioUp, crashed, chains, conns, locks, user, broken,
                   faults>>

\* Mutant: the job keeps a connection if there is another one.
CleanUpOnlyOne(n) ==
    LET dead(p) == conns[n][p] # None /\ conns[n][p] \notin OpenAt(n) IN
    /\ connLock[n] = "free" /\ n \notin crashed
    /\ user[n] \in {"idle", "stopping"}
    /\ \E p \in Nodes : dead(p) /\ OpenAt(n) = {}
    /\ conns' = [conns EXCEPT ![n] = [p \in Nodes |-> IF dead(p) THEN None ELSE @[p]]]
    /\ UNCHANGED <<running, ioUp, crashed, chains, streams, locks, user, broken,
                   faults>>

\* The job of phase CLEAN_UP.
CleanUpConnections(n) ==
    LET dead(p) == conns[n][p] # None /\ conns[n][p] \notin OpenAt(n) IN
    /\ connLock[n] = "free" /\ n \notin crashed
    /\ user[n] \in {"idle", "stopping"}
    /\ \E p \in Nodes : dead(p)
    /\ conns' = [conns EXCEPT ![n] = [p \in Nodes |-> IF dead(p) THEN None ELSE @[p]]]
    /\ UNCHANGED <<running, ioUp, crashed, chains, streams, locks, user, broken,
                   faults>>

CloseConnectionTo(n, p) ==
    /\ user[n] = "idle" /\ connLock[n] = "free" /\ n \notin crashed
    /\ n \in Mortal /\ conns[n][p] # None
    /\ connLock' = [connLock EXCEPT ![n] = p]
    /\ user' = [user EXCEPT ![n] = "closing"]
    /\ CloseStreams({<<n, conns[n][p]>>})
    /\ UNCHANGED <<running, ioUp, crashed, chains, conns, adding, broken, faults>>

ConnectionClosed(n, p) ==
    /\ user[n] = "closing" /\ connLock[n] = p /\ n \notin crashed
    /\ Answered(n, conns[n][p])
    /\ conns' = [conns EXCEPT ![n][p] = None]
    /\ connLock' = [connLock EXCEPT ![n] = "free"]
    /\ user' = [user EXCEPT ![n] = "idle"]
    /\ UNCHANGED <<running, ioUp, crashed, chains, streams, adding, broken, faults>>

-----------------------------------------------------------------------------
(* The destructor of an endpoint *)

DestructorStops(n) ==
    /\ n \in Mortal \cap Servers /\ n \notin crashed
    /\ user[n] = "idle" /\ adding[n] = None
    /\ running' = [running EXCEPT ![n] = FALSE]
    /\ user' = [user EXCEPT ![n] = "stopping"]
    /\ UNCHANGED <<ioUp, crashed, chains, conns, streams, locks, broken, faults>>

\* Mutant: the acceptor stays open.
ClosesStreamsOnly(n) ==
    /\ user[n] = "stopping" /\ connLock[n] = "free" /\ n \notin crashed
    /\ connLock' = [connLock EXCEPT ![n] = "user"]
    /\ user' = [user EXCEPT ![n] = "draining"]
    /\ CloseStreams({n} \X ({conns[n][p] : p \in Nodes} \ {None}))
    /\ UNCHANGED <<running, ioUp, crashed, chains, conns, adding, broken, faults>>

\* The acceptor is closed, which resets what it has not accepted.
DestructorCloses(n) ==
    LET waiting == {a \in Attempts : To[a] = n /\ server[a] = "backlog"} IN
    /\ user[n] = "stopping" /\ connLock[n] = "free" /\ n \notin crashed
    /\ connLock' = [connLock EXCEPT ![n] = "user"]
    /\ user' = [user EXCEPT ![n] = "draining"]
    /\ accepting' = [accepting EXCEPT ![n] = IF @ = "waiting" THEN "over" ELSE @]
    /\ broken' = broken \cup waiting
    /\ CloseStreams({n} \X ({conns[n][p] : p \in Nodes} \ {None}))
    /\ UNCHANGED <<running, ioUp, crashed, phase, server, conns, adding, faults>>

DestructorJoins(n) ==
    /\ user[n] = "draining" /\ n \notin crashed
    /\ \A p \in Nodes : conns[n][p] # None => Answered(n, conns[n][p])
    /\ connLock' = [connLock EXCEPT ![n] = "free"]
    /\ user' = [user EXCEPT ![n] = "joining"]
    /\ UNCHANGED <<running, ioUp, crashed, chains, conns, streams, adding, broken,
                   faults>>

DestructorReturn(n) ==
    /\ user[n] = "joining" /\ ~ioUp[n] /\ n \notin crashed
    /\ conns' = [conns EXCEPT ![n] = [p \in Nodes |-> None]]
    /\ user' = [user EXCEPT ![n] = "destroyed"]
    /\ UNCHANGED <<running, ioUp, crashed, chains, streams, locks, broken, faults>>

\* io_context::run returns when no operation is outstanding, for good.
IoReturns(n) ==
    /\ Handler(n) /\ accepting[n] = "over"
    /\ OpenAt(n) = {}
    /\ \A a \in Attempts : From[a] = n => ~Pending(a)
    /\ ioUp' = [ioUp EXCEPT ![n] = FALSE]
    /\ UNCHANGED <<running, crashed, chains, conns, streams, locks, user, broken,
                   faults>>

\* The network loses a TCP connection.
Reset(a) ==
    /\ faults < MaxFaults /\ a \notin broken
    /\ server[a] # "none"
    /\ faults' = faults + 1
    /\ broken' = broken \cup {a}
    /\ UNCHANGED <<running, ioUp, crashed, chains, conns, streams, locks, user>>

Establisher(a) == ProcessResolvedHostname(a) \/ ProcessEstablishedTcp(a)
                  \/ UpgradedByServer(a) \/ UpgradeFailed(a)
                  \/ ProcessNodeHandshakeResponse(a)
Listener(a) == ProcessTcpConnection(a) \/ ProcessWebSocketHandshake(a)
               \/ ProcessNodeHandshakeRequest(a)
Table(n) == AddConnection(n) \/ ConnectionAdded(n)
User(n) == (\E p \in Nodes : ConnectionClosed(n, p)) \/ DestructorCloses(n)
           \/ DestructorJoins(n) \/ DestructorReturn(n)

Next ==
    \/ \E a \in Attempts : EstablishConnectionTo(a) \/ Establisher(a)
                           \/ Listener(a) \/ Reset(a)
    \/ \E n \in Nodes :
         \/ Table(n) \/ User(n) \/ CleanUpConnections(n) \/ IoReturns(n)
         \/ DestructorStops(n)
         \/ \E p \in Nodes : CloseConnectionTo(n, p)
         \/ \E a \in Attempts : OnConnectionLost(n, a)

\* The threads run, and asio completes what is outstanding.
Fairness ==
    /\ \A a \in Attempts :
         /\ WF_vars(Establisher(a)) /\ WF_vars(Listener(a))
         /\ \A n \in Ends(a) : WF_vars(OnConnectionLost(n, a))
    /\ \A n \in Nodes : /\ WF_vars(Table(n)) /\ WF_vars(User(n))
                        /\ WF_vars(CleanUpConnections(n)) /\ WF_vars(IoReturns(n))

Spec == Init /\ [][Next]_vars /\ Fairness

-----------------------------------------------------------------------------
(* Properties *)

\* Every variable has its type.
TypeOK ==
    /\ running \in [Nodes -> BOOLEAN] /\ ioUp \in [Nodes -> BOOLEAN]
    /\ crashed \subseteq Nodes
    /\ accepting \in [Nodes -> Attempts \cup {"waiting", "over"}]
    /\ phase \in [Attempts -> {"idle", "resolve", "connect", "upgrade",
                               "greeting", "ok", "failed"}]
    /\ server \in [Attempts -> {"none", "backlog", "upgrade", "request", "done",
                                "gone"}]
    /\ conns \in [Nodes -> [Nodes -> Attempts \cup {None}]]
    /\ open \subseteq Nodes \X Attempts /\ shut \subseteq Nodes \X Attempts
    /\ adding \in [Nodes -> Attempts \cup {None}]
    /\ connLock \in [Nodes -> Nodes \cup {"free", "io", "user"}]
    /\ user \in [Nodes -> {"idle", "closing", "stopping", "draining", "joining",
                           "destroyed"}]
    /\ broken \subseteq Attempts /\ faults \in 0 .. MaxFaults

\* IMessageEndpoint.h: EstablishConnectionTo returns a future that indicates
\* success or failure of the connecting process.
ConnectResolves == \A a \in Attempts : Pending(a) ~> ~Pending(a)

\* Unless two nodes connect to each other at the same time, the future of an
\* attempt is kept waiting only by the two ways in which a node stops handling
\* anything: an exception in a handler, and a listener that gave up when no
\* other operation was outstanding.
ConnectEnds ==
    \A a \in Attempts :
        Pending(a) ~> ~Pending(a) \/ From[a] \in crashed \/ ~ioUp[From[a]]

\* A connection that was lost, or closed by the other end, does not stay in
\* the table.
DeadConnectionIsRemoved ==
    \A a \in Attempts : \A n \in Ends(a) :
        conns[n][Other(n, a)] = a /\ Answered(n, a)
            ~> conns[n][Other(n, a)] # a \/ n \in crashed

\* When nothing is in progress, the tables of two nodes name the same
\* connection, and it is open at both ends: replacing and closing leave no
\* half-open connection behind.
Settled(n) == /\ adding[n] = None /\ connLock[n] = "free" /\ n \notin crashed
              /\ user[n] \in {"idle", "destroyed"}
              /\ \A a \in OpenAt(n) : ~Answered(n, a)
              /\ {conns[n][p] : p \in Nodes} \subseteq OpenAt(n) \cup {None}
TablesAgree ==
    \A n, p \in Nodes :
        Settled(n) /\ Settled(p)
        /\ (\A a \in Attempts : Ends(a) = {n, p} => ~Pending(a))
            => conns[n][p] = conns[p][n]

\* The destructor of an endpoint returns: closing the connections and the
\* acceptor ends everything its thread waits for.
DestructorReturns ==
    \A n \in Mortal : user[n] = "stopping" ~> user[n] = "destroyed" \/ n \in crashed

\* BoostWebSocketConnectionListener.h: StartAcceptingAnotherConnection must be
\* called in order for incoming connections to be processed; as long as the
\* endpoint runs, the listener comes back to waiting for one.
ListenerAcceptsAgain ==
    \A n \in Servers :
        accepting[n] \in Attempts
            ~> accepting[n] = "waiting" \/ ~running[n] \/ n \in crashed
-----------------------------------------------------------------------------
(* The inductive invariant behind TablesAgree.  A node that connects to    *)
(* itself has one entry for both ends of the connection, about which       *)
(* TablesAgree says nothing: the parts below leave such attempts out.      *)

Between(a) == From[a] # To[a]
Closed(n, a) == <<n, a>> \in shut \/ a \in broken

\* The two chains of an attempt keep step: the answer to the node handshake
\* is sent to one who waits for it, who then fails only without connection.
ChainsOK ==
    \A a \in Attempts :
        /\ server[a] = "done" => phase[a] \in {"greeting", "ok", "failed"}
        /\ phase[a] = "ok" => server[a] = "done"
        /\ server[a] = "done" /\ phase[a] = "failed" => a \in broken

\* AddConnection is about a connection of this node that is not yet in use.
AddingOK ==
    \A n \in Nodes : adding[n] # None =>
        /\ running[n] /\ n \in Ends(adding[n]) /\ server[adding[n]] = "done"
        /\ Between(adding[n]) /\ From[adding[n]] = n => phase[adding[n]] = "greeting"

\* Who holds the mutex has closed the entry that will be replaced or removed.
MutexOK ==
    \A n \in Nodes :
        /\ connLock[n] = "io" =>
             /\ adding[n] # None
             /\ LET old == conns[n][Other(n, adding[n])]
                IN  old # None => <<n, old>> \in shut
        /\ connLock[n] \in Nodes =>
             /\ user[n] = "closing"
             /\ conns[n][connLock[n]] # None => <<n, conns[n][connLock[n]]>> \in shut

\* The destructor: nothing is added any more, and from its second step on
\* every connection is closed.
EndingOK ==
    \A n \in Nodes :
        /\ user[n] \in {"stopping", "draining", "joining", "destroyed"} => ~running[n]
        /\ user[n] \in {"draining", "joining", "destroyed"} =>
             \A p \in Nodes : conns[n][p] # None => <<n, conns[n][p]>> \in shut

\* An entry is a connection between the two nodes, which this node has added.
EntriesOK ==
    \A n, p \in Nodes : conns[n][p] # None /\ n # p =>
        LET a == conns[n][p] IN
        /\ Ends(a) = {n, p} /\ server[a] = "done"
        /\ From[a] = n => phase[a] = "ok"

\* The stream of an entry is open or has been closed by this node.
StreamsOK ==
    \A n \in Nodes :
        /\ connLock[n] = "io" => <<n, adding[n]>> \in open \cup shut
        /\ \A p \in Nodes : conns[n][p] # None => <<n, conns[n][p]>> \in open \cup shut

\* What an end has added is its entry until it closes the stream.
KeptOK ==
    \A a \in Attempts : Between(a) =>
        /\ phase[a] = "ok" => conns[From[a]][To[a]] = a \/ Closed(From[a], a)
        /\ server[a] = "done" /\ adding[To[a]] # a =>
             conns[To[a]][From[a]] = a \/ Closed(To[a], a)

NetworkInv == /\ TypeOK /\ ChainsOK /\ AddingOK /\ MutexOK /\ EndingOK /\ EntriesOK
              /\ StreamsOK /\ KeptOK
=============================================================================
