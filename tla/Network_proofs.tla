-------------------------- MODULE Network_proofs ---------------------------
(***************************************************************************)
(* The tables of connections of any number of endpoints, with any attempts *)
(* between them, crossing ones included: types, and TablesAgree.  One      *)
(* lemma for each part of NetworkInv says that every step keeps it.  Most  *)
(* steps are far from most parts: they are Calm, or Still.                 *)
(***************************************************************************)
EXTENDS Network, TLAPS

\* Every step keeps the types.
LEMMA TypeStep ==
  ASSUME TypeOK, [Next]_vars
  PROVE  TypeOK'
  <1> USE NetworkAssumption DEF TypeOK, chains, streams, locks
  <1>0. ASSUME NEW n \in Nodes, StartAccepting(n)
        PROVE  accepting' \in [Nodes -> Attempts \cup {"waiting", "over"}]
    BY <1>0 DEF StartAccepting
  <1>1. ASSUME NEW a \in Attempts, EstablishConnectionTo(a)
        PROVE  TypeOK'
    BY <1>1 DEF EstablishConnectionTo
  <1>2. ASSUME NEW a \in Attempts, ProcessResolvedHostname(a) \/ ProcessEstablishedTcp(a)
        PROVE  TypeOK'
    BY <1>2 DEF ProcessResolvedHostname, ProcessEstablishedTcp, Advance
  <1>3. ASSUME NEW a \in Attempts, UpgradedByServer(a) \/ UpgradeFailed(a)
        PROVE  TypeOK'
    BY <1>3 DEF UpgradedByServer, UpgradeFailed, Advance, Crash
  <1>4. ASSUME NEW a \in Attempts, ProcessNodeHandshakeResponse(a)
        PROVE  TypeOK'
    <2>1. adding' \in [Nodes -> Attempts \cup {None}] /\ broken' \subseteq Attempts
      BY <1>4 DEF ProcessNodeHandshakeResponse
    <2>2. phase' \in [Attempts -> {"idle", "resolve", "connect", "upgrade",
                                   "greeting", "ok", "failed"}]
      BY <1>4 DEF ProcessNodeHandshakeResponse, Advance
    <2> QED BY <1>4, <2>1, <2>2 DEF ProcessNodeHandshakeResponse
  <1>5. ASSUME NEW a \in Attempts,
               ProcessTcpConnection(a) \/ ProcessWebSocketHandshake(a)
        PROVE  TypeOK'
    <2>1. server' \in [Attempts -> {"none", "backlog", "upgrade", "request", "done",
                                    "gone"}]
      BY <1>5 DEF ProcessTcpConnection, ProcessWebSocketHandshake
    <2>2. accepting' \in [Nodes -> Attempts \cup {"waiting", "over"}]
      <3>1. To[a] \in Nodes
        OBVIOUS
      <3>2. CASE ProcessTcpConnection(a)
        <4>1. \/ accepting' = [accepting EXCEPT ![To[a]] = a]
              \/ accepting' = [accepting EXCEPT ![To[a]] = "over"]
              \/ StartAccepting(To[a]) \/ UNCHANGED accepting
          BY <3>2 DEF ProcessTcpConnection
        <4> QED BY <1>0, <3>1, <4>1
      <3>3. CASE ProcessWebSocketHandshake(a)
        BY <1>0, <3>1, <3>3 DEF ProcessWebSocketHandshake
      <3> QED BY <1>5, <3>2, <3>3
    <2>3. crashed' \subseteq Nodes /\ broken' \subseteq Attempts
      BY <1>5 DEF ProcessTcpConnection, ProcessWebSocketHandshake, Crash
    <2> QED BY <1>5, <2>1, <2>2, <2>3
            DEF ProcessTcpConnection, ProcessWebSocketHandshake
  <1>6. ASSUME NEW a \in Attempts, ProcessNodeHandshakeRequest(a)
        PROVE  TypeOK'
    <2>1. server' \in [Attempts -> {"none", "backlog", "upgrade", "request", "done",
                                    "gone"}]
      BY <1>6 DEF ProcessNodeHandshakeRequest
    <2>2. accepting' \in [Nodes -> Attempts \cup {"waiting", "over"}]
      <3>1. To[a] \in Nodes
        OBVIOUS
      <3> QED BY <1>0, <1>6, <3>1 DEF ProcessNodeHandshakeRequest
    <2>3. adding' \in [Nodes -> Attempts \cup {None}] /\ broken' \subseteq Attempts
      <3>1. To[a] \in Nodes
        OBVIOUS
      <3> QED BY <1>6, <3>1, SMTT(40) DEF ProcessNodeHandshakeRequest
    <2> QED BY <1>6, <2>1, <2>2, <2>3 DEF ProcessNodeHandshakeRequest
  <1>7. ASSUME NEW a \in Attempts, Reset(a)
        PROVE  TypeOK'
    BY <1>7 DEF Reset
  <1>8. ASSUME NEW n \in Nodes, AddConnection(n)
        PROVE  TypeOK'
    <2>1. adding[n] \in Attempts
      BY <1>8 DEF AddConnection
    <2>2. conns[n][Other(n, adding[n])] \in Attempts \cup {None}
      BY <2>1 DEF Other
    <2>3. open' \subseteq Nodes \X Attempts
      BY <1>8, <2>1 DEF AddConnection
    <2>4. shut' \subseteq Nodes \X Attempts
      BY <1>8, <2>2 DEF AddConnection
    <2>5. connLock' \in [Nodes -> Nodes \cup {"free", "io", "user"}]
      BY <1>8 DEF AddConnection
    <2> QED BY <1>8, <2>3, <2>4, <2>5 DEF AddConnection
  <1>9. ASSUME NEW n \in Nodes, ConnectionAdded(n)
        PROVE  TypeOK'
    <2>1. /\ conns' \in [Nodes -> [Nodes -> Attempts \cup {None}]]
          /\ connLock' \in [Nodes -> Nodes \cup {"free", "io", "user"}]
          /\ adding' \in [Nodes -> Attempts \cup {None}]
      BY <1>9 DEF ConnectionAdded
    <2>2. /\ phase' \in [Attempts -> {"idle", "resolve", "connect", "upgrade",
                                      "greeting", "ok", "failed"}]
          /\ accepting' \in [Nodes -> Attempts \cup {"waiting", "over"}]
      BY <1>9 DEF ConnectionAdded, Advance, StartAccepting
    <2> QED BY <1>9, <2>1, <2>2 DEF ConnectionAdded
  <1>10. ASSUME NEW n \in Nodes, CleanUpConnections(n)
         PROVE  TypeOK'
    BY <1>10 DEF CleanUpConnections
  <1>11. ASSUME NEW n \in Nodes, NEW a \in Attempts, OnConnectionLost(n, a)
         PROVE  TypeOK'
    BY <1>11 DEF OnConnectionLost, CloseStreams
  <1>12. ASSUME NEW n \in Nodes, NEW p \in Nodes, CloseConnectionTo(n, p)
          PROVE  TypeOK'
    BY <1>12 DEF CloseConnectionTo, CloseStreams
  <1>13. ASSUME NEW n \in Nodes, NEW p \in Nodes, ConnectionClosed(n, p)
          PROVE  TypeOK'
    <2>1. conns' \in [Nodes -> [Nodes -> Attempts \cup {None}]]
      BY <1>13 DEF ConnectionClosed
    <2> QED BY <1>13, <2>1 DEF ConnectionClosed
  <1>14. ASSUME NEW n \in Nodes, DestructorStops(n) \/ IoReturns(n)
         PROVE  TypeOK'
    BY <1>14, ZenonT(40) DEF DestructorStops, IoReturns
  <1>15. ASSUME NEW n \in Nodes, DestructorCloses(n)
         PROVE  TypeOK'
    BY <1>15 DEF DestructorCloses, CloseStreams
  <1>16. ASSUME NEW n \in Nodes, DestructorJoins(n)
          PROVE  TypeOK'
    BY <1>16 DEF DestructorJoins
  <1>17. ASSUME NEW n \in Nodes, DestructorReturn(n)
          PROVE  TypeOK'
    <2>1. conns' \in [Nodes -> [Nodes -> Attempts \cup {None}]]
      BY <1>17 DEF DestructorReturn
    <2> QED BY <1>17, <2>1 DEF DestructorReturn
  <1>18. CASE UNCHANGED vars
    BY <1>18 DEF vars
  <1> QED BY <1>1, <1>2, <1>3, <1>4, <1>5, <1>6, <1>7, <1>8, <1>9, <1>10, <1>11,
             <1>12, <1>13, <1>14, <1>15, <1>16, <1>17, <1>18
          DEF Next, Establisher, Listener, Table, User

\* A stream that was closed and a connection that is gone stay so.
LEMMA ClosedStays ==
  ASSUME TypeOK, [Next]_vars
  PROVE  shut \subseteq shut' /\ broken \subseteq broken'
  <1> USE DEF CloseStreams, Crash, streams, chains, locks
  <1>1. ASSUME NEW a \in Attempts, EstablishConnectionTo(a) \/ Establisher(a)
        PROVE  shut \subseteq shut' /\ broken \subseteq broken'
    BY <1>1 DEF EstablishConnectionTo, Establisher, ProcessResolvedHostname,
                ProcessEstablishedTcp, UpgradedByServer, UpgradeFailed,
                ProcessNodeHandshakeResponse
  <1>2. ASSUME NEW a \in Attempts, Listener(a) \/ Reset(a)
        PROVE  shut \subseteq shut' /\ broken \subseteq broken'
    BY <1>2 DEF Listener, Reset, ProcessTcpConnection, ProcessWebSocketHandshake,
                ProcessNodeHandshakeRequest
  <1>3. ASSUME NEW n \in Nodes,
               Table(n) \/ CleanUpConnections(n) \/ IoReturns(n) \/ DestructorStops(n)
        PROVE  shut \subseteq shut' /\ broken \subseteq broken'
    BY <1>3 DEF Table, CleanUpConnections, IoReturns, DestructorStops, AddConnection,
                ConnectionAdded
  <1>4. ASSUME NEW n \in Nodes, User(n)
        PROVE  shut \subseteq shut' /\ broken \subseteq broken'
    BY <1>4 DEF User, ConnectionClosed, DestructorCloses, DestructorJoins,
                DestructorReturn
  <1>5. ASSUME NEW n \in Nodes, NEW p \in Nodes, CloseConnectionTo(n, p)
        PROVE  shut \subseteq shut' /\ broken \subseteq broken'
    BY <1>5 DEF CloseConnectionTo
  <1>6. ASSUME NEW n \in Nodes, NEW a \in Attempts, OnConnectionLost(n, a)
        PROVE  shut \subseteq shut' /\ broken \subseteq broken'
    BY <1>6 DEF OnConnectionLost
  <1> QED BY <1>1, <1>2, <1>3, <1>4, <1>5, <1>6 DEF Next, vars

-----------------------------------------------------------------------------
(* Steps that change little *)

\* Steps that add nothing to a table and take nothing out of it, and end neither
\* chain of an attempt.
Calm == /\ UNCHANGED <<conns, adding>>
        /\ \A b \in Attempts : /\ phase'[b] = "ok" => phase[b] = "ok"
                               /\ server'[b] = "done" => server[b] = "done"

\* Connecting, up to the node handshake, is calm.
LEMMA ConnectingIsCalm ==
  ASSUME TypeOK, NEW a \in Attempts,
         EstablishConnectionTo(a) \/ ProcessResolvedHostname(a)
           \/ ProcessEstablishedTcp(a) \/ UpgradedByServer(a) \/ UpgradeFailed(a)
  PROVE  Calm
  <1>1. UNCHANGED <<conns, adding>>
    BY DEF EstablishConnectionTo, ProcessResolvedHostname, ProcessEstablishedTcp,
           UpgradedByServer, UpgradeFailed, locks
  <1>2. \A b \in Attempts : phase'[b] = "ok" => phase[b] = "ok"
    BY DEF EstablishConnectionTo, ProcessResolvedHostname, ProcessEstablishedTcp,
           UpgradedByServer, UpgradeFailed, Advance, TypeOK
  <1>3. \A b \in Attempts : server'[b] = "done" => server[b] = "done"
    BY DEF EstablishConnectionTo, ProcessResolvedHostname, ProcessEstablishedTcp,
           UpgradedByServer, UpgradeFailed, TypeOK
  <1> QED BY <1>1, <1>2, <1>3 DEF Calm

\* So is accepting, up to the node handshake,
LEMMA AcceptingIsCalm ==
  ASSUME TypeOK, NEW a \in Attempts,
         ProcessTcpConnection(a) \/ ProcessWebSocketHandshake(a) \/ Reset(a)
  PROVE  Calm
  BY DEF Calm, ProcessTcpConnection, ProcessWebSocketHandshake, Reset, TypeOK, chains,
         locks

\* closing streams, starting to replace an entry and to destroy an endpoint,
LEMMA ClosingIsCalm ==
  ASSUME TypeOK, NEW n \in Nodes,
         \/ AddConnection(n) \/ DestructorCloses(n) \/ DestructorJoins(n)
         \/ IoReturns(n) \/ DestructorStops(n)
         \/ \E p \in Nodes : CloseConnectionTo(n, p)
         \/ \E a \in Attempts : OnConnectionLost(n, a)
  PROVE  Calm
  BY DEF Calm, AddConnection, DestructorCloses, DestructorJoins, IoReturns,
         DestructorStops, CloseConnectionTo, OnConnectionLost, chains, locks

\* and doing nothing.
LEMMA RestIsCalm ==
  ASSUME UNCHANGED vars
  PROVE  Calm
  BY DEF Calm, vars, chains, locks

\* Steps that leave connections being added, tables and mutexes alone.
Still == /\ UNCHANGED <<conns, adding, connLock, user, running>>
         /\ shut \subseteq shut' /\ open \subseteq open' \cup shut'

\* Connecting, up to the node handshake, is still.
LEMMA ConnectingIsStill ==
  ASSUME NetworkInv, [Next]_vars, NEW a \in Attempts,
         \/ EstablishConnectionTo(a) \/ ProcessResolvedHostname(a)
         \/ ProcessEstablishedTcp(a) \/ UpgradedByServer(a) \/ UpgradeFailed(a)
  PROVE  Still
  BY DEF Still, EstablishConnectionTo, ProcessResolvedHostname, ProcessEstablishedTcp,
         UpgradedByServer, UpgradeFailed, locks, streams

\* So is accepting, up to the node handshake,
LEMMA AcceptingIsStill ==
  ASSUME NetworkInv, NEW a \in Attempts,
         ProcessTcpConnection(a) \/ ProcessWebSocketHandshake(a) \/ Reset(a)
  PROVE  Still
  BY DEF Still, ProcessTcpConnection, ProcessWebSocketHandshake, Reset, locks, streams

\* losing a connection and leaving io_context::run,
LEMMA LosingIsStill ==
  ASSUME NetworkInv, NEW n \in Nodes,
         IoReturns(n) \/ \E a \in Attempts : OnConnectionLost(n, a)
  PROVE  Still
  BY DEF Still, IoReturns, OnConnectionLost, CloseStreams, locks, streams

\* and doing nothing.
LEMMA RestIsStill ==
  ASSUME UNCHANGED vars
  PROVE  Still
  BY DEF Still, vars, locks, streams

-----------------------------------------------------------------------------
(* The chains of an attempt *)

\* Every step keeps ChainsOK: the answer is sent to one who waits for it.
LEMMA ChainsStep ==
  ASSUME NetworkInv, [Next]_vars
  PROVE  ChainsOK'
  <1> USE DEF NetworkInv, TypeOK, ChainsOK
  <1>0. broken \subseteq broken'
    BY ClosedStays
  <1>1. ASSUME UNCHANGED <<phase, server>>
        PROVE  ChainsOK'
    BY <1>0, <1>1
  <1>2. ASSUME NEW a \in Attempts, EstablishConnectionTo(a)
        PROVE  ChainsOK'
    BY <1>2 DEF EstablishConnectionTo
  <1>3. ASSUME NEW a \in Attempts, ProcessResolvedHostname(a) \/ UpgradedByServer(a)
        PROVE  ChainsOK'
    BY <1>3 DEF ProcessResolvedHostname, UpgradedByServer, Advance
  <1>4. ASSUME NEW a \in Attempts, ProcessEstablishedTcp(a)
        PROVE  ChainsOK'
    <2>1. \A b \in Attempts : server'[b] = "done" => server[b] = "done" /\ b # a
      BY <1>4 DEF ProcessEstablishedTcp
    <2>2. \A b \in Attempts : b # a => phase'[b] = phase[b] /\ server'[b] = server[b]
      BY <1>4 DEF ProcessEstablishedTcp, Advance
    <2>3. phase'[a] # "ok"
      BY <1>4 DEF ProcessEstablishedTcp, Advance
    <2> QED BY <1>0, <2>1, <2>2, <2>3
  <1>5. ASSUME NEW a \in Attempts, UpgradeFailed(a)
        PROVE  ChainsOK'
    BY <1>0, <1>5 DEF UpgradeFailed, Advance
  <1>6. ASSUME NEW a \in Attempts, ProcessNodeHandshakeResponse(a)
        PROVE  ChainsOK'
    BY <1>0, <1>6 DEF ProcessNodeHandshakeResponse, Advance
  <1>7. ASSUME NEW a \in Attempts, ProcessTcpConnection(a) \/ ProcessWebSocketHandshake(a)
        PROVE  ChainsOK'
    <2>1. \A b \in Attempts : /\ server'[b] = "done" <=> server[b] = "done"
                              /\ phase'[b] = phase[b]
      BY <1>7 DEF ProcessTcpConnection, ProcessWebSocketHandshake
    <2> QED BY <1>0, <2>1
  <1>8. ASSUME NEW a \in Attempts, ProcessNodeHandshakeRequest(a)
        PROVE  ChainsOK'
    <2>1. \A b \in Attempts : /\ server[b] = "done" => server'[b] = "done"
                              /\ phase'[b] = phase[b]
      BY <1>8 DEF ProcessNodeHandshakeRequest
    <2>2. \A b \in Attempts :
             server'[b] = "done" => server[b] = "done" \/ phase[b] = "greeting"
      BY <1>8 DEF ProcessNodeHandshakeRequest
    <2> QED BY <1>0, <2>1, <2>2
  <1>9. ASSUME NEW n \in Nodes, ConnectionAdded(n)
        PROVE  ChainsOK'
    <2>1. adding[n] # None
      BY <1>9 DEF ConnectionAdded, MutexOK
    <2> QED BY <1>0, <1>9, <2>1 DEF ConnectionAdded, Advance, AddingOK
  <1>10. ASSUME NEW n \in Nodes, AddConnection(n) \/ CleanUpConnections(n)
         PROVE  UNCHANGED <<phase, server>>
    BY <1>10 DEF AddConnection, CleanUpConnections, chains
  <1>11. ASSUME NEW n \in Nodes, User(n) \/ IoReturns(n) \/ DestructorStops(n)
         PROVE  UNCHANGED <<phase, server>>
    BY <1>11 DEF User, IoReturns, DestructorStops, ConnectionClosed, DestructorCloses,
                 DestructorJoins, DestructorReturn, chains
  <1>12. ASSUME NEW n \in Nodes, \/ \E p \in Nodes : CloseConnectionTo(n, p)
                                 \/ \E a \in Attempts : OnConnectionLost(n, a)
         PROVE  UNCHANGED <<phase, server>>
    BY <1>12 DEF CloseConnectionTo, OnConnectionLost, chains
  <1>13. ASSUME UNCHANGED vars \/ \E a \in Attempts : Reset(a)
         PROVE  UNCHANGED <<phase, server>>
    BY <1>13 DEF vars, Reset, chains
  <1> QED BY <1>1, <1>2, <1>3, <1>4, <1>5, <1>6, <1>7, <1>8, <1>9, <1>10, <1>11,
             <1>12, <1>13 DEF Next, Establisher, Listener, Table

\* A node handshake that has been answered stays so.
LEMMA DoneStays ==
  ASSUME NetworkInv, [Next]_vars, NEW b \in Attempts, server[b] = "done"
  PROVE  server'[b] = "done"
  <1>1. ASSUME NEW a \in Attempts, EstablishConnectionTo(a) \/ Establisher(a) \/ Reset(a)
        PROVE  server'[b] = "done"
    <2>1. CASE ProcessEstablishedTcp(a)
      BY <2>1 DEF ProcessEstablishedTcp, NetworkInv, TypeOK, ChainsOK
    <2> QED BY <1>1, <2>1 DEF Establisher, EstablishConnectionTo, ProcessResolvedHostname,
                UpgradedByServer, UpgradeFailed, ProcessNodeHandshakeResponse, Reset, chains
  <1>2. ASSUME NEW a \in Attempts, Listener(a)
        PROVE  server'[b] = "done"
    BY <1>2 DEF Listener, ProcessTcpConnection, ProcessWebSocketHandshake,
                ProcessNodeHandshakeRequest, NetworkInv, TypeOK
  <1>3. ASSUME NEW n \in Nodes, Table(n) \/ CleanUpConnections(n)
        PROVE  UNCHANGED server
    BY <1>3 DEF Table, AddConnection, ConnectionAdded, CleanUpConnections, chains
  <1>4. ASSUME NEW n \in Nodes, User(n) \/ IoReturns(n) \/ DestructorStops(n)
        PROVE  UNCHANGED server
    BY <1>4 DEF User, IoReturns, DestructorStops, ConnectionClosed, DestructorCloses,
                DestructorJoins, DestructorReturn, chains
  <1>5. ASSUME NEW n \in Nodes, \/ \E p \in Nodes : CloseConnectionTo(n, p)
                                \/ \E a \in Attempts : OnConnectionLost(n, a)
        PROVE  UNCHANGED server
    BY <1>5 DEF CloseConnectionTo, OnConnectionLost, chains
  <1> QED BY <1>1, <1>2, <1>3, <1>4, <1>5 DEF Next, vars, chains

\* A future that has been set stays so.
LEMMA OkStays ==
  ASSUME NetworkInv, [Next]_vars, NEW b \in Attempts, phase[b] = "ok"
  PROVE  phase'[b] = "ok"
  <1> USE DEF NetworkInv, TypeOK
  <1>1. ASSUME NEW a \in Attempts, EstablishConnectionTo(a) \/ Establisher(a)
        PROVE  phase'[b] = "ok"
    BY <1>1 DEF EstablishConnectionTo, Establisher, ProcessResolvedHostname,
                ProcessEstablishedTcp, UpgradedByServer, UpgradeFailed,
                ProcessNodeHandshakeResponse, Advance
  <1>2. ASSUME NEW a \in Attempts, Listener(a) \/ Reset(a)
        PROVE  UNCHANGED phase
    BY <1>2 DEF Listener, ProcessTcpConnection, ProcessWebSocketHandshake,
                ProcessNodeHandshakeRequest, Reset, chains
  <1>3. ASSUME NEW n \in Nodes, Table(n) \/ CleanUpConnections(n)
        PROVE  phase'[b] = "ok"
    BY <1>3 DEF Table, AddConnection, ConnectionAdded, CleanUpConnections, Advance, chains
  <1>4. ASSUME NEW n \in Nodes, User(n) \/ IoReturns(n) \/ DestructorStops(n)
        PROVE  UNCHANGED phase
    BY <1>4 DEF User, IoReturns, DestructorStops, ConnectionClosed, DestructorCloses,
                DestructorJoins, DestructorReturn, chains
  <1>5. ASSUME NEW n \in Nodes, \/ \E p \in Nodes : CloseConnectionTo(n, p)
                                \/ \E a \in Attempts : OnConnectionLost(n, a)
        PROVE  UNCHANGED phase
    BY <1>5 DEF CloseConnectionTo, OnConnectionLost, chains
  <1> QED BY <1>1, <1>2, <1>3, <1>4, <1>5 DEF Next, vars, chains

\* Every step keeps AddingOK: while the io thread is in AddConnection, it runs no
\* handler, and the destructor does not begin.
LEMMA AddingStep ==
  ASSUME NetworkInv, [Next]_vars
  PROVE  AddingOK'
  <1> USE NetworkAssumption DEF NetworkInv, TypeOK, AddingOK, Between
  <1>1. \A a \in Attempts : server[a] = "done" => server'[a] = "done"
    BY DoneStays
  <1>3. ASSUME UNCHANGED <<adding, running>>,
               \A b \in Attempts : phase[b] = "greeting" => phase'[b] = "greeting"
        PROVE  AddingOK'
    BY <1>1, <1>3 DEF Ends
  <1>4. ASSUME NEW a \in Attempts, ProcessNodeHandshakeResponse(a)
        PROVE  AddingOK'
    <2>1. ASSUME NEW m \in Nodes, adding'[m] # None
          PROVE  /\ running'[m] /\ m \in Ends(adding'[m]) /\ server'[adding'[m]] = "done"
                 /\ Between(adding'[m]) /\ From[adding'[m]] = m =>
                      phase'[adding'[m]] = "greeting"
      <3>1. UNCHANGED <<running, server>>
        BY <1>4 DEF ProcessNodeHandshakeResponse
      <3>2. CASE adding[m] = None
        <4>1. /\ m = From[a] /\ adding'[m] = a /\ running[m] /\ server[a] = "done"
              /\ phase' = phase /\ phase[a] = "greeting"
          BY <1>4, <2>1, <3>2 DEF ProcessNodeHandshakeResponse
        <4> QED BY <4>1, <3>1 DEF Ends
      <3>3. CASE adding[m] # None
        <4>1. m # From[a] /\ adding'[m] = adding[m]
          BY <1>4, <3>3 DEF ProcessNodeHandshakeResponse, Handler
        <4>2. ASSUME Between(adding[m]), From[adding[m]] = m
              PROVE  phase'[adding[m]] = "greeting"
          <5>1. adding[m] # a
            BY <4>1, <4>2
          <5> QED BY <1>4, <3>3, <4>2, <5>1 DEF ProcessNodeHandshakeResponse, Advance
        <4> QED BY <3>1, <3>3, <4>1, <4>2
      <3> QED BY <3>2, <3>3
    <2> QED BY <2>1
  <1>5. ASSUME NEW a \in Attempts, ProcessNodeHandshakeRequest(a)
        PROVE  AddingOK'
    <2>1. \A m \in Nodes : adding'[m] # adding[m] =>
             m = To[a] /\ adding'[m] = a /\ running[m] /\ server'[a] = "done"
      BY <1>5 DEF ProcessNodeHandshakeRequest
    <2>2. UNCHANGED <<phase, running>>
      BY <1>5 DEF ProcessNodeHandshakeRequest
    <2> QED BY <1>1, <2>1, <2>2 DEF Ends
  <1>6. ASSUME NEW n \in Nodes, ConnectionAdded(n)
        PROVE  AddingOK'
    <2>1. adding[n] # None
      BY <1>6 DEF ConnectionAdded, MutexOK
    <2>2. \A m \in Nodes : adding'[m] # None => m # n /\ adding'[m] = adding[m]
      BY <1>6 DEF ConnectionAdded
    <2>3. \A b \in Attempts : b # adding[n] \/ From[b] # n => phase'[b] = phase[b]
      BY <1>6, <2>1 DEF ConnectionAdded, Advance, Ends
    <2>4. UNCHANGED <<running, server>>
      BY <1>6 DEF ConnectionAdded
    <2> QED BY <2>1, <2>2, <2>3, <2>4 DEF Ends
  <1>7. ASSUME NEW n \in Nodes, DestructorStops(n)
        PROVE  AddingOK'
    <2>1. adding[n] = None /\ UNCHANGED <<adding, phase, server>>
          /\ \A m \in Nodes : m # n => running'[m] = running[m]
      BY <1>7 DEF DestructorStops, locks, chains
    <2> QED BY <2>1 DEF Ends
  <1>8. ASSUME NEW a \in Attempts,
               \/ EstablishConnectionTo(a) \/ ProcessResolvedHostname(a)
               \/ ProcessEstablishedTcp(a) \/ UpgradedByServer(a) \/ UpgradeFailed(a)
        PROVE  AddingOK'
    <2>1. \A b \in Attempts : phase[b] = "greeting" => phase'[b] = "greeting"
      BY <1>8 DEF EstablishConnectionTo, ProcessResolvedHostname, ProcessEstablishedTcp,
                  UpgradedByServer, UpgradeFailed, Advance
    <2> QED BY <1>3, <1>8, <2>1, ConnectingIsStill DEF Still
  <1>9. ASSUME NEW a \in Attempts,
               ProcessTcpConnection(a) \/ ProcessWebSocketHandshake(a) \/ Reset(a)
        PROVE  AddingOK'
    <2>1. UNCHANGED phase
      BY <1>9 DEF ProcessTcpConnection, ProcessWebSocketHandshake, Reset, chains
    <2> QED BY <1>3, <1>9, <2>1, AcceptingIsStill DEF Still
  <1>10. ASSUME NEW n \in Nodes, AddConnection(n) \/ CleanUpConnections(n) \/ IoReturns(n)
         PROVE  UNCHANGED <<adding, running, phase>>
    BY <1>10 DEF AddConnection, CleanUpConnections, IoReturns, chains, locks
  <1>11. ASSUME NEW n \in Nodes, User(n)
         PROVE  UNCHANGED <<adding, running, phase>>
    BY <1>11 DEF User, ConnectionClosed, DestructorCloses, DestructorJoins,
                 DestructorReturn, chains, locks
  <1>12. ASSUME NEW n \in Nodes, \/ \E p \in Nodes : CloseConnectionTo(n, p)
                                 \/ \E a \in Attempts : OnConnectionLost(n, a)
         PROVE  UNCHANGED <<adding, running, phase>>
    BY <1>12 DEF CloseConnectionTo, OnConnectionLost, chains, locks
  <1>13. CASE UNCHANGED vars
    BY <1>3, <1>13 DEF vars, chains, locks
  <1> QED BY <1>3, <1>4, <1>5, <1>6, <1>7, <1>8, <1>9, <1>10, <1>11, <1>12, <1>13
          DEF Next, Establisher, Listener, Table

-----------------------------------------------------------------------------
(* The table and its mutex *)

\* Every step keeps MutexOK: whoever takes the mutex closes the entry first, and
\* nobody else changes the table meanwhile.
LEMMA MutexStep ==
  ASSUME NetworkInv, [Next]_vars
  PROVE  MutexOK'
  <1> USE NetworkAssumption DEF NetworkInv, TypeOK, MutexOK
  <1>1. ASSUME Still
        PROVE  MutexOK'
    BY <1>1 DEF Still, Other
  <1>2. ASSUME NEW a \in Attempts,
               ProcessNodeHandshakeResponse(a) \/ ProcessNodeHandshakeRequest(a)
        PROVE  MutexOK'
    <2>1. UNCHANGED <<conns, connLock, user, shut>>
      BY <1>2 DEF ProcessNodeHandshakeResponse, ProcessNodeHandshakeRequest, streams
    <2>2. \A m \in Nodes : adding[m] # None => adding'[m] = adding[m]
      BY <1>2 DEF ProcessNodeHandshakeResponse, ProcessNodeHandshakeRequest, Handler
    <2> QED BY <2>1, <2>2 DEF Other
  <1>3. ASSUME NEW n \in Nodes, AddConnection(n)
        PROVE  MutexOK'
    <2>1. /\ adding[n] # None /\ UNCHANGED <<conns, adding, user>> /\ shut \subseteq shut'
          /\ connLock' = [connLock EXCEPT ![n] = "io"]
          /\ LET old == conns[n][Other(n, adding[n])]
             IN  old # None => <<n, old>> \in shut'
      BY <1>3 DEF AddConnection
    <2> QED BY <2>1 DEF Other
  <1>4. ASSUME NEW n \in Nodes, connLock'[n] \notin Nodes \cup {"io"},
               \A m \in Nodes : m # n =>
                 /\ connLock'[m] = connLock[m] /\ conns'[m] = conns[m]
                 /\ adding'[m] = adding[m] /\ user'[m] = user[m],
               shut \subseteq shut'
        PROVE  MutexOK'
    BY <1>4 DEF Other
  <1>5. ASSUME NEW n \in Nodes, ConnectionAdded(n)
        PROVE  MutexOK'
    BY <1>4, <1>5 DEF ConnectionAdded, streams
  <1>6. ASSUME NEW n \in Nodes, NEW p \in Nodes, ConnectionClosed(n, p)
        PROVE  MutexOK'
    BY <1>4, <1>6 DEF ConnectionClosed, streams
  <1>7. ASSUME NEW n \in Nodes, DestructorCloses(n)
        PROVE  MutexOK'
    BY <1>4, <1>7 DEF DestructorCloses, CloseStreams
  <1>8. ASSUME NEW n \in Nodes, DestructorJoins(n)
        PROVE  MutexOK'
    BY <1>4, <1>8 DEF DestructorJoins, streams
  <1>9. ASSUME NEW n \in Nodes, CleanUpConnections(n)
        PROVE  MutexOK'
    BY <1>4, <1>9 DEF CleanUpConnections, streams, locks
  <1>10. ASSUME NEW n \in Nodes, NEW p \in Nodes, CloseConnectionTo(n, p)
         PROVE  MutexOK'
    <2>1. /\ UNCHANGED <<conns, adding>> /\ shut \subseteq shut'
          /\ connLock' = [connLock EXCEPT ![n] = p]
          /\ user' = [user EXCEPT ![n] = "closing"]
          /\ <<n, conns[n][p]>> \in shut'
      BY <1>10 DEF CloseConnectionTo, CloseStreams
    <2> QED BY <2>1 DEF Other
  <1>11. ASSUME NEW n \in Nodes, DestructorReturn(n)
         PROVE  MutexOK'
    <2>1. connLock[n] \notin Nodes \cup {"io"}
      BY <1>11 DEF DestructorReturn, AddingOK, EndingOK
    <2> QED BY <1>4, <1>11, <2>1 DEF DestructorReturn, streams, locks
  <1>12. ASSUME NEW n \in Nodes, DestructorStops(n)
         PROVE  MutexOK'
    <2>1. connLock[n] \notin Nodes \cup {"io"}
      BY <1>12 DEF DestructorStops
    <2> QED BY <1>4, <1>12, <2>1 DEF DestructorStops, streams, locks
  <1> QED BY <1>1, <1>2, <1>3, <1>5, <1>6, <1>7, <1>8, <1>9, <1>10, <1>11, <1>12,
             ConnectingIsStill, AcceptingIsStill, LosingIsStill, RestIsStill
          DEF Next, Establisher, Listener, Table, User

\* Every step keeps EndingOK: nothing is added after running was cleared.
LEMMA EndingStep ==
  ASSUME NetworkInv, [Next]_vars
  PROVE  EndingOK'
  <1> USE NetworkAssumption DEF NetworkInv, TypeOK, EndingOK
  <1>1. ASSUME UNCHANGED <<running, user>>, shut \subseteq shut',
               \A m \in Nodes : user[m] \in {"draining", "joining", "destroyed"} =>
                   \A p \in Nodes : conns'[m][p] = conns[m][p] \/ conns'[m][p] = None
        PROVE  EndingOK'
    BY <1>1
  <1>2. ASSUME Still
        PROVE  EndingOK'
    BY <1>1, <1>2 DEF Still
  <1>3. ASSUME NEW a \in Attempts,
               ProcessNodeHandshakeResponse(a) \/ ProcessNodeHandshakeRequest(a)
        PROVE  EndingOK'
    BY <1>1, <1>3 DEF ProcessNodeHandshakeResponse, ProcessNodeHandshakeRequest, streams
  <1>4. ASSUME NEW n \in Nodes, AddConnection(n) \/ CleanUpConnections(n)
        PROVE  EndingOK'
    BY <1>1, <1>4, ZenonT(40) DEF AddConnection, CleanUpConnections, streams
  <1>5. ASSUME NEW n \in Nodes, ConnectionAdded(n)
        PROVE  EndingOK'
    <2>1. running[n]
      BY <1>5 DEF ConnectionAdded, MutexOK, AddingOK
    <2> QED BY <1>1, <1>5, <2>1 DEF ConnectionAdded, streams
  <1>6. ASSUME NEW n \in Nodes, NEW p \in Nodes,
               ConnectionClosed(n, p) \/ CloseConnectionTo(n, p)
        PROVE  EndingOK'
    BY <1>6 DEF ConnectionClosed, CloseConnectionTo, CloseStreams, streams
  <1>7. ASSUME NEW n \in Nodes, DestructorStops(n)
        PROVE  EndingOK'
    BY <1>7 DEF DestructorStops, streams
  <1>8. ASSUME NEW n \in Nodes, DestructorCloses(n)
        PROVE  EndingOK'
    <2>1. \A p \in Nodes : conns'[n][p] # None => <<n, conns'[n][p]>> \in shut'
      BY <1>8 DEF DestructorCloses, CloseStreams
    <2>2. /\ UNCHANGED <<conns, running>> /\ shut \subseteq shut'
          /\ user' = [user EXCEPT ![n] = "draining"] /\ ~running[n]
      BY <1>8 DEF DestructorCloses, CloseStreams
    <2> QED BY <2>1, <2>2
  <1>9. ASSUME NEW n \in Nodes, DestructorJoins(n) \/ DestructorReturn(n)
        PROVE  EndingOK'
    <2>1. /\ user[n] \in {"draining", "joining"}
          /\ \/ user' = [user EXCEPT ![n] = "joining"]
             \/ user' = [user EXCEPT ![n] = "destroyed"]
          /\ UNCHANGED <<running, shut>>
          /\ \A m, p \in Nodes : conns'[m][p] = conns[m][p] \/ conns'[m][p] = None
      <3>1. CASE DestructorJoins(n)
        BY <3>1 DEF DestructorJoins, streams
      <3>2. CASE DestructorReturn(n)
        <4>1. \A m, p \in Nodes : conns'[m][p] = conns[m][p] \/ conns'[m][p] = None
          BY <3>2 DEF DestructorReturn
        <4> QED BY <3>2, <4>1 DEF DestructorReturn, streams
      <3> QED BY <1>9, <3>1, <3>2
    <2> QED BY <2>1
  <1> QED BY <1>2, <1>3, <1>4, <1>5, <1>6, <1>7, <1>8, <1>9, ConnectingIsStill,
             AcceptingIsStill, LosingIsStill, RestIsStill
          DEF Next, Establisher, Listener, Table, User

\* A stream leaves the open ones only by being closed.
LEMMA StreamsStay ==
  ASSUME NetworkInv, [Next]_vars
  PROVE  open \cup shut \subseteq open' \cup shut'
  <1>1. CASE Still
    BY <1>1 DEF Still
  <1>2. ASSUME NEW n \in Nodes, AddConnection(n)
        PROVE  open \cup shut \subseteq open' \cup shut'
    <2> DEFINE old == conns[n][Other(n, adding[n])]
    <2>1. /\ open \subseteq open' \cup {<<n, old>>} /\ shut \subseteq shut'
          /\ old # None => <<n, old>> \in shut'
      BY <1>2 DEF AddConnection
    <2>2. <<n, None>> \notin open
      BY NetworkAssumption DEF NetworkInv, TypeOK
    <2> QED BY <2>1, <2>2
  <1>3. ASSUME NEW n \in Nodes, User(n) \/ \E p \in Nodes : CloseConnectionTo(n, p)
        PROVE  open \cup shut \subseteq open' \cup shut'
    BY <1>3 DEF User, ConnectionClosed, DestructorCloses, DestructorJoins,
                DestructorReturn, CloseConnectionTo, CloseStreams, streams
  <1>4. ASSUME NEW n \in Nodes,
               ConnectionAdded(n) \/ CleanUpConnections(n) \/ DestructorStops(n)
        PROVE  UNCHANGED streams
    BY <1>4 DEF ConnectionAdded, CleanUpConnections, DestructorStops
  <1>5. ASSUME NEW a \in Attempts,
               ProcessNodeHandshakeResponse(a) \/ ProcessNodeHandshakeRequest(a)
        PROVE  UNCHANGED streams
    BY <1>5 DEF ProcessNodeHandshakeResponse, ProcessNodeHandshakeRequest
  <1> QED BY <1>1, <1>2, <1>3, <1>4, <1>5, ConnectingIsStill, AcceptingIsStill,
             LosingIsStill, RestIsStill
          DEF Next, Establisher, Listener, Table, streams

\* Only ConnectionAdded makes entries, only AddConnection takes the mutex for it.
LEMMA TablesLose ==
  ASSUME NetworkInv, [Next]_vars, \A n \in Nodes : ~Table(n)
  PROVE  /\ \A m, q \in Nodes : conns'[m][q] = conns[m][q] \/ conns'[m][q] = None
         /\ \A m \in Nodes : connLock'[m] = "io" =>
              connLock[m] = "io" /\ adding'[m] = adding[m]
  <1> DEFINE Goal == /\ \A m, q \in Nodes :
                          conns'[m][q] = conns[m][q] \/ conns'[m][q] = None
                     /\ \A m \in Nodes : connLock'[m] = "io" =>
                          connLock[m] = "io" /\ adding'[m] = adding[m]
  <1>1. ASSUME Still
        PROVE  Goal
    BY <1>1 DEF Still
  <1>2. ASSUME NEW a \in Attempts,
               ProcessNodeHandshakeResponse(a) \/ ProcessNodeHandshakeRequest(a)
        PROVE  Goal
    <2>1. UNCHANGED <<conns, connLock>>
      BY <1>2 DEF ProcessNodeHandshakeResponse, ProcessNodeHandshakeRequest
    <2>2. \A m \in Nodes : adding[m] # None => adding'[m] = adding[m]
      BY <1>2 DEF ProcessNodeHandshakeResponse, ProcessNodeHandshakeRequest, Handler,
                  NetworkInv, TypeOK
    <2> QED BY <2>1, <2>2 DEF NetworkInv, MutexOK
  <1>3. ASSUME NEW n \in Nodes,
               \/ CleanUpConnections(n) \/ DestructorStops(n)
               \/ DestructorJoins(n) \/ DestructorCloses(n)
        PROVE  Goal
    BY <1>3, SMTT(40)
       DEF CleanUpConnections, DestructorStops, DestructorJoins,
           DestructorCloses, locks, NetworkInv, TypeOK
  <1>4. ASSUME NEW n \in Nodes, DestructorReturn(n)
        PROVE  Goal
    BY <1>4 DEF DestructorReturn, locks, NetworkInv, TypeOK
  <1>5. ASSUME NEW n \in Nodes, NEW p \in Nodes,
               CloseConnectionTo(n, p) \/ ConnectionClosed(n, p)
        PROVE  Goal
    <2>1. \A m, q \in Nodes : conns'[m][q] = conns[m][q] \/ conns'[m][q] = None
      BY <1>5 DEF CloseConnectionTo, ConnectionClosed, NetworkInv, TypeOK
    <2>2. /\ UNCHANGED adding
          /\ \/ connLock' = [connLock EXCEPT ![n] = p]
             \/ connLock' = [connLock EXCEPT ![n] = "free"]
      BY <1>5 DEF CloseConnectionTo, ConnectionClosed
    <2> QED BY <2>1, <2>2, NetworkAssumption DEF NetworkInv, TypeOK
  <1> QED BY <1>1, <1>2, <1>3, <1>4, <1>5, ConnectingIsStill, AcceptingIsStill,
             LosingIsStill, RestIsStill
          DEF Next, Establisher, Listener, User

\* What EntriesOK says of one entry.
LEMMA EntryFacts ==
  ASSUME NetworkInv, NEW m \in Nodes, NEW q \in Nodes, conns[m][q] # None
  PROVE  /\ conns[m][q] \in Attempts
         /\ m # q => /\ Ends(conns[m][q]) = {m, q} /\ server[conns[m][q]] = "done"
                     /\ From[conns[m][q]] = m => phase[conns[m][q]] = "ok"
  <1>1. conns[m][q] \in Attempts
    BY DEF NetworkInv, TypeOK
  <1>2. EntriesOK
    BY DEF NetworkInv
  <1>3. m # q => /\ Ends(conns[m][q]) = {m, q} /\ server[conns[m][q]] = "done"
                 /\ From[conns[m][q]] = m => phase[conns[m][q]] = "ok"
    BY <1>2 DEF EntriesOK
  <1> QED BY <1>1, <1>3

\* Every step keeps EntriesOK: an entry is made at the end of its chain.
LEMMA EntriesStep ==
  ASSUME NetworkInv, [Next]_vars
  PROVE  EntriesOK'
  <1> USE NetworkAssumption DEF NetworkInv, TypeOK, EntriesOK
  <1>0. \A b \in Attempts : /\ server[b] = "done" => server'[b] = "done"
                            /\ phase[b] = "ok" => phase'[b] = "ok"
    BY DoneStays, OkStays
  <1>1. ASSUME \A m, q \in Nodes : conns'[m][q] = conns[m][q] \/ conns'[m][q] = None
        PROVE  EntriesOK'
    <2> SUFFICES ASSUME NEW m \in Nodes, NEW q \in Nodes, conns'[m][q] # None, m # q
                 PROVE  /\ Ends(conns'[m][q]) = {m, q} /\ server'[conns'[m][q]] = "done"
                        /\ From[conns'[m][q]] = m => phase'[conns'[m][q]] = "ok"
      BY DEF Ends
    <2>1. conns'[m][q] = conns[m][q]
      BY <1>1
    <2>2. /\ conns[m][q] \in Attempts
          /\ Ends(conns[m][q]) = {m, q} /\ server[conns[m][q]] = "done"
          /\ From[conns[m][q]] = m => phase[conns[m][q]] = "ok"
      BY <2>1, EntryFacts
    <2> QED BY <1>0, <2>1, <2>2
  <1>2. ASSUME NEW n \in Nodes, ConnectionAdded(n)
        PROVE  EntriesOK'
    <2> DEFINE a == adding[n]
               p == Other(n, a)
    <2>1. a \in Attempts /\ n \in Ends(a) /\ server[a] = "done" /\ p \in Nodes
      <3>1. a # None
        BY <1>2 DEF ConnectionAdded, MutexOK
      <3> QED BY <3>1 DEF AddingOK, Other
    <2>2. /\ conns' = [conns EXCEPT ![n][p] = a] /\ UNCHANGED server
          /\ From[a] = n /\ To[a] # n => phase'[a] = "ok"
      BY <1>2, <2>1 DEF ConnectionAdded, Advance
    <2>3. n # p => Ends(a) = {n, p} /\ (From[a] = n => To[a] # n)
      BY <2>1 DEF Ends, Other
    <2>4. ASSUME NEW m \in Nodes, NEW q \in Nodes, conns'[m][q] # None, m # q
          PROVE  LET b == conns'[m][q] IN
                 /\ Ends(b) = {m, q} /\ server'[b] = "done"
                 /\ From[b] = m => phase'[b] = "ok"
      <3>1. CASE m = n /\ q = p
        BY <2>1, <2>2, <2>3, <2>4, <3>1
      <3>2. CASE ~(m = n /\ q = p)
        <4>1. conns'[m][q] = conns[m][q]
          BY <2>1, <2>2, <3>2
        <4>2. /\ conns[m][q] \in Attempts
              /\ Ends(conns[m][q]) = {m, q} /\ server[conns[m][q]] = "done"
              /\ From[conns[m][q]] = m => phase[conns[m][q]] = "ok"
          BY <2>4, <4>1, EntryFacts
        <4> QED BY <1>0, <4>1, <4>2
      <3> QED BY <3>1, <3>2
    <2> HIDE DEF a, p
    <2> QED BY <2>4 DEF Ends
  <1>3. ASSUME NEW n \in Nodes, AddConnection(n)
        PROVE  EntriesOK'
    BY <1>1, <1>3 DEF AddConnection
  <1> QED BY <1>1, <1>2, <1>3, TablesLose DEF Table

\* Every step keeps StreamsOK.
LEMMA StreamsStep ==
  ASSUME NetworkInv, [Next]_vars
  PROVE  StreamsOK'
  <1> USE NetworkAssumption DEF NetworkInv, TypeOK, StreamsOK
  <1>0. open \cup shut \subseteq open' \cup shut'
    BY StreamsStay
  <1>1. ASSUME \A m, q \in Nodes : conns'[m][q] = conns[m][q] \/ conns'[m][q] = None,
               \A m \in Nodes : connLock'[m] = "io" =>
                   connLock[m] = "io" /\ adding'[m] = adding[m]
        PROVE  StreamsOK'
    BY <1>0, <1>1, ZenonT(40)
  <1>2. ASSUME NEW n \in Nodes, AddConnection(n)
        PROVE  StreamsOK'
    <2>1. /\ UNCHANGED <<conns, adding>>
          /\ connLock' = [connLock EXCEPT ![n] = "io"]
          /\ <<n, adding[n]>> \in open' \cup shut'
      BY <1>2 DEF AddConnection
    <2> QED BY <1>0, <2>1
  <1>3. ASSUME NEW n \in Nodes, ConnectionAdded(n)
        PROVE  StreamsOK'
    <2> DEFINE a == adding[n]
               p == Other(n, a)
    <2>1. a \in Attempts /\ p \in Nodes /\ <<n, a>> \in open \cup shut
      <3>1. a # None
        BY <1>3 DEF ConnectionAdded, MutexOK
      <3> QED BY <1>3, <3>1 DEF Other, ConnectionAdded
    <2>2. /\ conns' = [conns EXCEPT ![n][p] = a]
          /\ connLock' = [connLock EXCEPT ![n] = "free"]
          /\ adding' = [adding EXCEPT ![n] = None]
      BY <1>3 DEF ConnectionAdded
    <2> HIDE DEF a, p
    <2> QED BY <1>0, <2>1, <2>2
  <1> QED BY <1>1, <1>2, <1>3, TablesLose DEF Table

\* Every step keeps KeptOK: replacing, cleaning up, closing and destroying only
\* take entries out of a table whose streams this node has closed.
LEMMA KeptStep ==
  ASSUME NetworkInv, [Next]_vars
  PROVE  KeptOK'
  <1>0. shut \subseteq shut' /\ broken \subseteq broken'
    BY ClosedStays DEF NetworkInv
  <1>1. ASSUME Calm
        PROVE  KeptOK'
    BY <1>0, <1>1 DEF Calm, KeptOK, Between, Closed, NetworkInv
  <1>2. ASSUME NEW a \in Attempts, ProcessNodeHandshakeResponse(a)
        PROVE  KeptOK'
    <2>1. ASSUME NEW b \in Attempts, Between(b), phase'[b] = "ok"
          PROVE  conns'[From[b]][To[b]] = b \/ Closed(From[b], b)'
      BY <1>0, <1>2, <2>1 DEF ProcessNodeHandshakeResponse, KeptOK, Closed, NetworkInv,
                         TypeOK, Advance, streams
    <2>2. ASSUME NEW b \in Attempts, Between(b), server'[b] = "done", adding'[To[b]] # b
          PROVE  conns'[To[b]][From[b]] = b \/ Closed(To[b], b)'
      <3>1. adding[To[b]] # b
        BY <1>2, <2>2, NetworkAssumption
           DEF ProcessNodeHandshakeResponse, NetworkInv, TypeOK, Handler
      <3> QED BY <1>0, <1>2, <2>2, <3>1 DEF ProcessNodeHandshakeResponse, KeptOK, Closed,
                         NetworkInv
    <2> QED BY <2>1, <2>2 DEF KeptOK, Between
  <1>3. ASSUME NEW a \in Attempts, ProcessNodeHandshakeRequest(a)
        PROVE  KeptOK'
    <2>1. ASSUME NEW b \in Attempts, Between(b), phase'[b] = "ok"
          PROVE  conns'[From[b]][To[b]] = b \/ Closed(From[b], b)'
      BY <1>0, <1>3, <2>1 DEF ProcessNodeHandshakeRequest, KeptOK, Closed, NetworkInv
    <2>2. ASSUME NEW b \in Attempts, Between(b), server'[b] = "done", adding'[To[b]] # b
          PROVE  conns'[To[b]][From[b]] = b \/ Closed(To[b], b)'
      <3>1. CASE b = a
        BY <1>3, <2>2, <3>1, NetworkAssumption
           DEF ProcessNodeHandshakeRequest, Closed, NetworkInv, TypeOK
      <3>2. CASE b # a
        <4>1. server[b] = "done" /\ adding[To[b]] # b
          BY <1>3, <2>2, <3>2, NetworkAssumption
             DEF ProcessNodeHandshakeRequest, NetworkInv, TypeOK, Handler
        <4> QED BY <1>0, <1>3, <2>2, <4>1
                DEF ProcessNodeHandshakeRequest, KeptOK, Closed, NetworkInv
      <3> QED BY <3>1, <3>2
    <2> QED BY <2>1, <2>2 DEF KeptOK, Between
  <1>4. ASSUME NEW n \in Nodes, ConnectionAdded(n)
        PROVE  KeptOK'
    <2> DEFINE a == adding[n]
               p == Other(n, a)
    <2>1. a \in Attempts /\ n \in Ends(a) /\ p \in Nodes
          /\ server[a] = "done" /\ (Between(a) /\ From[a] = n => phase[a] = "greeting")
          /\ (conns[n][p] # None => <<n, conns[n][p]>> \in shut)
      <3>1. connLock[n] = "io" /\ a # None
        BY <1>4 DEF ConnectionAdded, NetworkInv, MutexOK
      <3>2. a \in Attempts
        BY <3>1 DEF NetworkInv, TypeOK
      <3>3. p \in Nodes
        BY <3>2, NetworkAssumption DEF Other
      <3>4. /\ n \in Ends(a) /\ server[a] = "done"
            /\ Between(a) /\ From[a] = n => phase[a] = "greeting"
        BY <3>1 DEF NetworkInv, AddingOK
      <3>5. conns[n][p] # None => <<n, conns[n][p]>> \in shut
        BY <3>1 DEF NetworkInv, MutexOK
      <3> QED BY <3>2, <3>3, <3>4, <3>5
    <2>2. /\ conns' = [conns EXCEPT ![n][p] = a]
          /\ adding' = [adding EXCEPT ![n] = None]
          /\ phase' = IF To[a] = n THEN phase ELSE [phase EXCEPT ![a] = "ok"]
          /\ UNCHANGED <<server, shut, broken>>
      BY <1>4 DEF ConnectionAdded, Advance, streams
    <2>3. ASSUME NEW m \in Nodes, NEW q \in Nodes, NEW b \in Attempts,
                  conns[m][q] = b
           PROVE  conns'[m][q] = b \/ <<m, b>> \in shut
      BY <2>1, <2>2, <2>3, NetworkAssumption DEF NetworkInv, TypeOK
    <2>4. ASSUME NEW b \in Attempts, Between(b), phase'[b] = "ok"
          PROVE  conns'[From[b]][To[b]] = b \/ Closed(From[b], b)'
      <3>1. CASE phase[b] = "ok"
        BY <2>2, <2>3, <2>4, <3>1, NetworkAssumption DEF NetworkInv, KeptOK, Closed
      <3>2. CASE phase[b] # "ok"
        <4>1. b = a /\ n = From[a] /\ p = To[a]
          BY <2>1, <2>2, <2>4, <3>2 DEF Other, Ends, NetworkInv, TypeOK
        <4> QED BY <4>1, <2>1, <2>2 DEF NetworkInv, TypeOK
      <3> QED BY <3>1, <3>2
    <2>5. ASSUME NEW b \in Attempts, Between(b), server'[b] = "done", adding'[To[b]] # b
          PROVE  conns'[To[b]][From[b]] = b \/ Closed(To[b], b)'
      <3>1. CASE adding[To[b]] # b
        BY <2>2, <2>3, <2>5, <3>1, NetworkAssumption DEF NetworkInv, KeptOK, Closed
      <3>2. CASE adding[To[b]] = b
        <4>1. b = a /\ n = To[a] /\ p = From[a]
          BY <2>1, <2>2, <2>5, <3>2, NetworkAssumption
             DEF Other, Ends, NetworkInv, TypeOK, Between
        <4> QED BY <4>1, <2>1, <2>2 DEF NetworkInv, TypeOK
      <3> QED BY <3>1, <3>2
    <2> QED BY <2>4, <2>5 DEF KeptOK, Between
  <1>5. ASSUME UNCHANGED <<phase, server, adding>>,
               \A m, q \in Nodes : conns[m][q] # None =>
                  conns'[m][q] = conns[m][q] \/ <<m, conns[m][q]>> \in shut
        PROVE  KeptOK'
    <2>1. ASSUME NEW m \in Nodes, NEW q \in Nodes, NEW b \in Attempts,
                 conns[m][q] = b \/ Closed(m, b)
          PROVE  conns'[m][q] = b \/ Closed(m, b)'
      BY <1>0, <1>5, <2>1, NetworkAssumption DEF Closed
    <2> QED BY <1>5, <2>1, NetworkAssumption DEF NetworkInv, KeptOK, Between
  <1>6. ASSUME NEW n \in Nodes, CleanUpConnections(n)
        PROVE  KeptOK'
    <2>1. \A q \in Nodes :
             conns'[n][q] = conns[n][q] \/ <<n, conns[n][q]>> \in shut
      BY <1>6 DEF CleanUpConnections, OpenAt, NetworkInv, TypeOK, StreamsOK
    <2> QED BY <1>5, <1>6, <2>1
            DEF CleanUpConnections, chains, locks, NetworkInv, TypeOK
  <1>7. ASSUME NEW n \in Nodes, NEW p \in Nodes, ConnectionClosed(n, p)
        PROVE  KeptOK'
    <2>1. conns[n][p] # None => <<n, conns[n][p]>> \in shut
      BY <1>7 DEF ConnectionClosed, NetworkInv, MutexOK
    <2> QED BY <1>5, <1>7, <2>1 DEF ConnectionClosed, chains, NetworkInv, TypeOK
  <1>8. ASSUME NEW n \in Nodes, DestructorReturn(n)
        PROVE  KeptOK'
    <2>1. \A q \in Nodes : conns[n][q] # None => <<n, conns[n][q]>> \in shut
      BY <1>8 DEF DestructorReturn, NetworkInv, EndingOK
    <2> QED BY <1>5, <1>8, <2>1 DEF DestructorReturn, chains, locks, NetworkInv, TypeOK
  <1> QED BY <1>1, <1>2, <1>3, <1>4, <1>6, <1>7, <1>8, ConnectingIsCalm,
             AcceptingIsCalm, ClosingIsCalm, RestIsCalm
          DEF NetworkInv, Next, Establisher, Listener, Table, User

-----------------------------------------------------------------------------
(* The theorems *)

\* When the endpoints are made, nothing has been tried and every table is empty.
LEMMA NetworkInitially == Init => NetworkInv
  <1> SUFFICES ASSUME Init
               PROVE  NetworkInv
    OBVIOUS
  <1> USE NetworkAssumption DEF Init
  <1>1. TypeOK
    BY DEF TypeOK
  <1>2. ChainsOK /\ AddingOK /\ KeptOK
    BY DEF ChainsOK, AddingOK, KeptOK
  <1>3. MutexOK /\ EndingOK /\ EntriesOK /\ StreamsOK
    BY DEF MutexOK, EndingOK, EntriesOK, StreamsOK
  <1> QED BY <1>1, <1>2, <1>3 DEF NetworkInv

\* The invariant is inductive.
LEMMA NetworkInvStep == NetworkInv /\ [Next]_vars => NetworkInv'
  <1> SUFFICES ASSUME NetworkInv, [Next]_vars
               PROVE  NetworkInv'
    OBVIOUS
  <1>1. TypeOK'
    BY TypeStep DEF NetworkInv
  <1> QED BY <1>1, ChainsStep, AddingStep, MutexStep, EndingStep, EntriesStep,
             StreamsStep, KeptStep DEF NetworkInv

\* NetworkInv is an invariant: what two nodes know of a connection keeps step.
THEOREM NetworkInvariant == Spec => []NetworkInv
  BY NetworkInitially, NetworkInvStep, PTL DEF Spec

\* Every variable of the endpoints has its type.
THEOREM NetworkTypes == Spec => []TypeOK
  BY NetworkInvariant, PTL DEF NetworkInv

\* When two nodes are at rest, their tables name the same connection: an entry
\* whose stream is open was added at the other end too, which has not closed it,
\* and so it is the entry there (AddConnection, CloseConnection, CleanUp and the
\* destructor of BoostWebSocketEndpoint.cpp leave no half-open connection).
THEOREM ConnectionsAgree == Spec => []TablesAgree
  <1>1. ASSUME NetworkInv, NEW n \in Nodes, NEW p \in Nodes, n # p,
               Settled(n), Settled(p),
               \A a \in Attempts : Ends(a) = {n, p} => ~Pending(a),
               conns[n][p] # None
        PROVE  conns[p][n] = conns[n][p]
    <2> DEFINE a == conns[n][p]
    <2>1. a \in Attempts /\ Ends(a) = {n, p} /\ server[a] = "done"
      BY <1>1, EntryFacts
    <2>2. <<p, a>> \notin shut /\ a \notin broken
      <3>1. a \in OpenAt(n)
        BY <1>1, <2>1 DEF Settled
      <3>2. ~Answered(n, a)
        BY <1>1, <3>1 DEF Settled
      <3>3. Other(n, a) = p
        BY <1>1, <2>1 DEF Other, Ends
      <3> QED BY <3>2, <3>3 DEF Answered
    <2>3. phase[a] = "ok"
      BY <1>1, <2>1, <2>2 DEF NetworkInv, ChainsOK, Pending
    <2>4. adding[p] = None
      BY <1>1 DEF Settled
    <2>5. Between(a) /\ \/ From[a] = p /\ To[a] = n
                        \/ From[a] = n /\ To[a] = p
      BY <1>1, <2>1 DEF Between, Ends
    <2> HIDE DEF a
    <2>6. conns[p][n] = a
      BY <1>1, <2>1, <2>2, <2>3, <2>4, <2>5, NetworkAssumption
         DEF NetworkInv, KeptOK, Closed
    <2> QED BY <2>6 DEF a
  <1>2. NetworkInv => TablesAgree
    <2> SUFFICES ASSUME NetworkInv, NEW n \in Nodes, NEW p \in Nodes, n # p,
                        Settled(n), Settled(p),
                        \A a \in Attempts : Ends(a) = {n, p} => ~Pending(a)
                 PROVE  conns[n][p] = conns[p][n]
      BY DEF TablesAgree
    <2>1. \A a \in Attempts : Ends(a) = {p, n} => ~Pending(a)
      OBVIOUS
    <2> QED BY <1>1, <2>1
  <1> QED BY <1>2, NetworkInvariant, PTL
=============================================================================
