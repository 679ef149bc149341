------------------------ MODULE RemoteCalls_proofs ------------------------
(***************************************************************************)
(* The safety properties of RemoteCalls for any number of calls, peers,    *)
(* retries and reconnections.  An action is about one call or about a      *)
(* connection: it leaves every other call alone, or loses messages and     *)
(* fires events, and Untouched says that both keep CallInv.                *)
(***************************************************************************)
EXTENDS RemoteCallsInv, TLAPS

\* Nothing that CallInv is about changes for c, but messages may be lost.
SameCall(c) ==
    /\ pc'[c] = pc[c] /\ xpc'[c] = xpc[c] /\ attempt'[c] = attempt[c]
    /\ processed'[c] = processed[c] /\ pending'[c] = pending[c]
    /\ promise'[c] = promise[c] /\ outer'[c] = outer[c]
    /\ executed'[c] = executed[c]
    /\ \A m \in msgs' : m.call = c => m \in msgs
    /\ \A h \in handlers' : h.call = c /\ h.at = "set" => h \in handlers
    /\ \A p \in Peers : serving'[p][c] = serving[p][c]

\* The initial states: no call has been issued.
LEMMA InitCalls == Init => CallsInv
  <1> SUFFICES ASSUME Init PROVE CallsInv
    OBVIOUS
  <1> USE ConstantsAssumption DEF Init
  <1>1. TypeOK
    BY DEF TypeOK, Values
  <1>2. ASSUME NEW c \in Calls PROVE CallInv(c)
    BY DEF CallInv, PendingInv, JobInv, MarkInv, TakenInv, TokenInv,
           ExecutedInv, RetryInv, HasRun, Outstanding, Statuses, BeforeInsert,
           Unsent
  <1> QED BY <1>1, <1>2 DEF CallsInv

\* A step that leaves a call alone, or loses its messages, keeps CallInv.
LEMMA Untouched ==
    ASSUME NEW c \in Calls, CallInv(c), SameCall(c) PROVE CallInv(c)'
  <1> USE DEF SameCall, CallInv
  <1>1. PendingInv(c)'
    BY DEF PendingInv
  <1>2. JobInv(c)'
    BY DEF JobInv
  <1>3. MarkInv(c)'
    BY DEF MarkInv
  <1>4. TakenInv(c)'
    BY DEF TakenInv
  <1>5. TokenInv(c)'
    BY DEF TokenInv, Outstanding
  <1>6. ExecutedInv(c)'
    BY DEF ExecutedInv, HasRun
  <1>7. RetryInv(c)'
    BY DEF RetryInv
  <1> QED BY <1>1, <1>2, <1>3, <1>4, <1>5, <1>6, <1>7

\* A job of a peer moves on; an event reaches listeners.
LEMMA ServeType ==
    ASSUME TypeOK, NEW p \in Peers, NEW c \in Calls, NEW from,
           NEW to \in {"none", "query", "check", "run"} \cup Statuses,
           Serve(p, c, from, to)
    PROVE  serving' \in [Peers -> [Calls -> {"none", "query", "check", "run"}
                                            \cup Statuses]]
  <1> DEFINE Stage == {"none", "query", "check", "run"} \cup Statuses
  <1>1. serving \in [Peers -> [Calls -> Stage]]
    BY DEF TypeOK
  <1>2. to \in Stage
    OBVIOUS
  <1>3. serving' = [serving EXCEPT ![p][c] = to]
    BY DEF Serve
  <1> HIDE DEF Stage
  <1>4. serving' \in [Peers -> [Calls -> Stage]]
    BY <1>1, <1>2, <1>3
  <1> QED BY <1>4 DEF Stage

LEMMA FireType ==
    ASSUME TypeOK, NEW closed, FireEvent(closed)
    PROVE  events' \subseteq CloseEvents
  BY DEF TypeOK, FireEvent, CloseEvents

\* Types.
LEMMA TypeStep == TypeOK /\ [Next]_vars => TypeOK'
  <1> SUFFICES ASSUME TypeOK, [Next]_vars PROVE TypeOK'
    OBVIOUS
  <1> USE ConstantsAssumption
      DEF TypeOK, Values, ExecutorLabels, connVars, eventVars, callVars,
          peerVars
  <1>1. ASSUME NEW c \in Calls, Issue(c) PROVE TypeOK'
    BY <1>1 DEF Issue
  <1>2. ASSUME NEW c \in Calls, SelectNextCallableExecutor(c) PROVE TypeOK'
    <2>1. outer' \in [Calls -> Values] /\ executor' \in [Calls -> Peers]
      <3>1. \/ outer' = [outer EXCEPT ![c] = "exception"] /\ UNCHANGED executor
            \/ /\ UNCHANGED outer
               /\ \E p \in Peers : executor' = [executor EXCEPT ![c] = p]
        BY <1>2 DEF SelectNextCallableExecutor
      <3>2. outer \in [Calls -> Values] /\ executor \in [Calls -> Peers]
        OBVIOUS
      <3>3. "exception" \in Values
        OBVIOUS
      <3> HIDE DEF TypeOK, Values
      <3> QED BY <3>1, <3>2, <3>3
    <2>2. pc' \in [Calls -> {"idle", "select", "issue", "wait", "done"}]
      <3>1. \E to \in {"issue", "done"} : pc' = [pc EXCEPT ![c] = to]
        BY <1>2 DEF SelectNextCallableExecutor
      <3>2. pc \in [Calls -> {"idle", "select", "issue", "wait", "done"}]
        OBVIOUS
      <3> HIDE DEF TypeOK
      <3> QED BY <3>1, <3>2
    <2>3. UNCHANGED <<connVars, eventVars, attempt, xpc, processed, pending,
                      promise, peerVars, msgs>>
      BY <1>2 DEF SelectNextCallableExecutor
    <2> HIDE DEF Values, ExecutorLabels
    <2> QED BY <2>1, <2>2, <2>3
  <1>3. ASSUME NEW c \in Calls, IssueAttempt(c) PROVE TypeOK'
    BY <1>3 DEF IssueAttempt
  <1>4. ASSUME NEW c \in Calls, Retry(c) PROVE TypeOK'
    BY <1>4 DEF Retry, AttemptResolved, RetriesOnBusy
  <1>5. ASSUME NEW c \in Calls, Resolve(c) PROVE TypeOK'
    BY <1>5 DEF Resolve, AttemptResolved, RetriesOnBusy
  <1>6. ASSUME NEW c \in Calls, CheckCallable(c) PROVE TypeOK'
    BY <1>6 DEF CheckCallable, SetPromise
  <1>7. ASSUME NEW c \in Calls, RegisterListener(c) PROVE TypeOK'
    BY <1>7 DEF RegisterListener
  <1>8. ASSUME NEW c \in Calls, InsertPending(c) PROVE TypeOK'
    BY <1>8 DEF InsertPending
  <1>9. ASSUME NEW c \in Calls, Send(c) PROVE TypeOK'
    <2>1. msgs' \subseteq Messages
      BY <1>9 DEF Send, Messages, Requests
    <2>2. toFire' \in [Peers -> Nat]
      BY <1>9 DEF Send
    <2>3. local' \in [Peers -> {"none", "open", "dead"}]
      BY <1>9 DEF Send
    <2>4. xpc' \in [Calls -> ExecutorLabels \cup {"none", "sent", "failed", "end"}]
      <3>1. xpc \in [Calls -> ExecutorLabels \cup {"none", "sent", "failed", "end"}]
        OBVIOUS
      <3>2. \E to \in {"failed", "sent", "unsent"} : xpc' = [xpc EXCEPT ![c] = to]
        BY <1>9 DEF Send
      <3> HIDE DEF TypeOK
      <3> QED BY <3>1, <3>2
    <2> QED BY <1>9, <2>1, <2>2, <2>3, <2>4 DEF Send
  <1>10. ASSUME NEW c \in Calls, RemoveUnsent(c) PROVE TypeOK'
    BY <1>10 DEF RemoveUnsent
  <1>11. ASSUME NEW c \in Calls, FailUnsent(c) PROVE TypeOK'
    BY <1>11 DEF FailUnsent, SetPromise
  <1>12. ASSUME NEW p \in Peers, PeerCloses(p) PROVE TypeOK'
    BY <1>12 DEF PeerCloses, RequestsTo
  <1>13. ASSUME NEW p \in Peers, ReceiveError(p) PROVE TypeOK'
    BY <1>13 DEF ReceiveError
  <1>14. ASSUME NEW p \in Peers, CloseConnectionTo(p) PROVE TypeOK'
    <2>1. events' \subseteq CloseEvents
      BY <1>14, FireType DEF CloseConnectionTo
    <2> QED BY <1>14, <2>1 DEF CloseConnectionTo
  <1>15. ASSUME NEW p \in Peers, OnConnectionClose(p) PROVE TypeOK'
    <2>1. events' \subseteq CloseEvents
      BY <1>15, FireType DEF OnConnectionClose
    <2> QED BY <1>15, <2>1 DEF OnConnectionClose
  <1>16. ASSUME NEW p \in Peers, AddConnection(p) PROVE TypeOK'
    <2>1. events' \subseteq CloseEvents
      BY <1>16, FireType DEF AddConnection
    <2>2. /\ local' \in [Peers -> {"none", "open", "dead"}]
          /\ toFire' \in [Peers -> Nat]
          /\ link' \in [Peers -> BOOLEAN]
      BY <1>16 DEF AddConnection
    <2>3. reconnects' \in 0 .. MaxReconnects
      BY <1>16 DEF AddConnection
    <2> QED BY <1>16, <2>1, <2>2, <2>3 DEF AddConnection
  <1>17. ASSUME NEW p \in Peers, NEW c \in Calls, QueryService(p, c) PROVE TypeOK'
    <2>1. serving' \in [Peers -> [Calls -> {"none", "query", "check", "run"}
                                            \cup Statuses]]
      BY <1>17, ServeType DEF QueryService, Statuses
    <2> QED BY <1>17, <2>1 DEF QueryService
  <1>18. ASSUME NEW p \in Peers, NEW c \in Calls, CheckCapacity(p, c) PROVE TypeOK'
    <2>1. serving' \in [Peers -> [Calls -> {"none", "query", "check", "run"}
                                            \cup Statuses]]
      BY <1>18, ServeType DEF CheckCapacity, Statuses
    <2>2. \/ UNCHANGED <<slots, executed>>
          \/ /\ slots' = [slots EXCEPT ![p] = @ \cup {c}]
             /\ executed' = [executed EXCEPT ![c] = @ + 1]
      BY <1>18 DEF CheckCapacity
    <2>3. slots' \in [Peers -> SUBSET Calls] /\ executed' \in [Calls -> Nat]
      <3>1. slots \in [Peers -> SUBSET Calls] /\ executed \in [Calls -> Nat]
        OBVIOUS
      <3> HIDE DEF TypeOK
      <3> QED BY <2>2, <3>1
    <2> QED BY <1>18, <2>1, <2>3 DEF CheckCapacity
  <1>19. ASSUME NEW p \in Peers, NEW c \in Calls, Execute(p, c) PROVE TypeOK'
    <2>1. serving' \in [Peers -> [Calls -> {"none", "query", "check", "run"}
                                            \cup Statuses]]
      BY <1>19, ServeType DEF Execute, Statuses
    <2> QED BY <1>19, <2>1 DEF Execute
  <1>20. ASSUME NEW p \in Peers, NEW c \in Calls, SendResponse(p, c) PROVE TypeOK'
    <2>1. PICK status \in Statuses :
               /\ Serve(p, c, status, "none")
               /\ msgs' = IF link[p] /\ HasConnectionTo(p)
                          THEN msgs \cup {[type |-> "response", call |-> c,
                                           peer |-> p, status |-> status]}
                          ELSE msgs
      BY <1>20 DEF SendResponse
    <2>2. serving' \in [Peers -> [Calls -> {"none", "query", "check", "run"}
                                            \cup Statuses]]
      BY <2>1, ServeType
    <2>3. msgs' \subseteq Messages
      BY <2>1 DEF Messages, Responses
    <2> QED BY <1>20, <2>2, <2>3 DEF SendResponse
  <1>21. ASSUME NEW p \in Peers, NEW c \in Calls, ReleaseSlot(p, c) PROVE TypeOK'
    BY <1>21 DEF ReleaseSlot
  <1>22. CASE CleanUpConnections
    <2>1. events' \subseteq CloseEvents
      BY <1>22, FireType DEF CleanUpConnections
    <2> QED BY <1>22, <2>1 DEF CleanUpConnections
  <1>23. ASSUME NEW m \in msgs, m.type = "request", ReceiveRequest(m) PROVE TypeOK'
    <2>1. m.peer \in Peers /\ m.call \in Calls
      BY DEF Messages, Requests, Responses
    <2>2. serving' \in [Peers -> [Calls -> {"none", "query", "check", "run"}
                                            \cup Statuses]]
      BY <1>23, <2>1, ServeType DEF ReceiveRequest
    <2> QED BY <1>23, <2>1, <2>2 DEF ReceiveRequest
  <1>24. ASSUME NEW m \in msgs, m.type = "response", ProcessResponse(m) PROVE TypeOK'
    <2>1. m.call \in Calls /\ m.status \in Statuses
      BY <1>24 DEF Messages, Requests, Responses
    <2>2. /\ promise' \in [Calls -> Values]
          /\ pending' \in [Calls -> Nat]
          /\ processed' \in [Calls -> BOOLEAN]
      <3> DEFINE d == m.call
      <3>1. CASE pending[d] = 0
        BY <1>24, <2>1, <3>1 DEF ProcessResponse
      <3>2. CASE pending[d] # 0
        <4>1. /\ processed' = [processed EXCEPT ![d] = FALSE]
              /\ SetPromise(d, m.status)
              /\ pending' = [pending EXCEPT ![d] = 0]
          BY <1>24, <3>2 DEF ProcessResponse
        <4> QED BY <2>1, <4>1 DEF SetPromise
      <3> QED BY <3>1, <3>2
    <2> QED BY <1>24, <2>2 DEF ProcessResponse
  <1>25. ASSUME NEW e \in events, HandleEvent(e) PROVE TypeOK'
    <2>1. [call |-> e.call, attempt |-> e.attempt, at |-> "remove"]
             \in Handlers
      BY DEF CloseEvents, Handlers
    <2> QED BY <1>25, <2>1 DEF HandleEvent
  <1>26. ASSUME NEW h \in handlers, RemoveResponsePromise(h) PROVE TypeOK'
    <2>1. [call |-> h.call, attempt |-> pending[h.call], at |-> "set"]
             \in Handlers
      BY DEF Handlers
    <2> QED BY <1>26, <2>1 DEF RemoveResponsePromise, Handlers
  <1>27. ASSUME NEW h \in handlers, CancelRequest(h) PROVE TypeOK'
    BY <1>27 DEF CancelRequest, SetPromise
  <1>28. CASE UNCHANGED vars
    BY <1>28 DEF vars
  <1> QED
    BY <1>1, <1>2, <1>3, <1>4, <1>5, <1>6, <1>7, <1>8, <1>9, <1>10, <1>11,
       <1>12, <1>13, <1>14, <1>15, <1>16, <1>17, <1>18, <1>19, <1>20, <1>21,
       <1>22, <1>23, <1>24, <1>25, <1>26, <1>27, <1>28 DEF Next, CallStep,
       ExecutorStep, Receive, EventStep, PeerStep, Terminated

\* The own call of a step: CallInv is kept for the call d whose job runs.
LEMMA OwnStep ==
    ASSUME CallsInv, NEW d \in Calls
    PROVE  CallStep(d) \/ ExecutorStep(d) \/ Issue(d) => CallInv(d)'
  <1> USE ConstantsAssumption
  <1>a. TypeOK /\ CallInv(d)
    BY DEF CallsInv
  <1>b. /\ attempt[d] \in Nat /\ pending[d] \in Nat /\ MaxRetries \in Nat
        /\ executed[d] \in Nat /\ handlers \subseteq Handlers
        /\ pc[d] \in {"idle", "select", "issue", "wait", "done"}
    BY <1>a DEF TypeOK
  <1>1. ASSUME Issue(d) PROVE CallInv(d)'
    <2>1. /\ pc[d] = "idle" /\ pc'[d] = "select" /\ attempt'[d] = 1
          /\ outer'[d] = "unset"
          /\ UNCHANGED <<xpc[d], processed[d], pending[d], promise[d], executed[d],
                         msgs, handlers, serving>>
      BY <1>1, <1>a DEF Issue, TypeOK, connVars,
         eventVars, peerVars
    <2>2. CallInv(d)
      BY <1>a
    <2> QED
      BY <1>b, <2>1, <2>2 DEF CallInv, PendingInv, JobInv, MarkInv, TakenInv,
         TokenInv, ExecutedInv, RetryInv, BeforeInsert, Unsent, Handlers,
         Outstanding, HasRun, Statuses
  <1>2. ASSUME SelectNextCallableExecutor(d) PROVE CallInv(d)'
    <2>1. /\ pc[d] = "select"
          /\ \/ pc'[d] = "issue" /\ outer'[d] = outer[d]
             \/ pc'[d] = "done" /\ outer'[d] = "exception"
          /\ UNCHANGED <<xpc[d], attempt[d], processed[d], pending[d], promise[d], executed[d],
                         msgs, handlers, serving>>
      BY <1>2, <1>a DEF SelectNextCallableExecutor, TypeOK, connVars,
         eventVars, peerVars
    <2>2. CallInv(d)
      BY <1>a
    <2> QED
      BY <1>b, <2>1, <2>2 DEF CallInv, PendingInv, JobInv, MarkInv, TakenInv,
         TokenInv, ExecutedInv, RetryInv, BeforeInsert, Unsent, Handlers,
         Outstanding, HasRun, Statuses
  <1>3. ASSUME IssueAttempt(d) PROVE CallInv(d)'
    <2>1. /\ pc[d] = "issue" /\ pc'[d] = "wait"
          /\ xpc'[d] = "check" /\ promise'[d] = "unset"
          /\ UNCHANGED <<attempt[d], processed[d], pending[d], outer[d], executed[d],
                         msgs, handlers, serving>>
      BY <1>3, <1>a DEF IssueAttempt, TypeOK, connVars,
         eventVars, peerVars
    <2>2. CallInv(d)
      BY <1>a
    <2> QED
      BY <1>b, <2>1, <2>2 DEF CallInv, PendingInv, JobInv, MarkInv, TakenInv,
         TokenInv, ExecutedInv, RetryInv, BeforeInsert, Unsent, Handlers,
         Outstanding, HasRun, Statuses
  <1>4. ASSUME Retry(d) PROVE CallInv(d)'
    <2>1. /\ pc[d] = "wait" /\ promise[d] = "BUSY" /\ MaxRetries >= attempt[d]
          /\ pc'[d] \in {"select", "issue"} /\ attempt'[d] = attempt[d] + 1
          /\ UNCHANGED <<xpc[d], processed[d], pending[d], promise[d], outer[d], executed[d],
                         msgs, handlers, serving>>
      BY <1>4, <1>a DEF Retry, AttemptResolved, RetriesOnBusy, TypeOK, connVars,
         eventVars, peerVars
    <2>2. CallInv(d)
      BY <1>a
    <2> QED
      BY <1>b, <2>1, <2>2 DEF CallInv, PendingInv, JobInv, MarkInv, TakenInv,
         TokenInv, ExecutedInv, RetryInv, BeforeInsert, Unsent, Handlers,
         Outstanding, HasRun, Statuses
  <1>5. ASSUME Resolve(d) PROVE CallInv(d)'
    <2>1. /\ pc[d] = "wait" /\ promise[d] # "unset"
          /\ (promise[d] = "BUSY" => ~(MaxRetries >= attempt[d]))
          /\ pc'[d] = "done" /\ outer'[d] = promise[d]
          /\ UNCHANGED <<xpc[d], attempt[d], processed[d], pending[d], promise[d], executed[d],
                         msgs, handlers, serving>>
      BY <1>5, <1>a DEF Resolve, AttemptResolved, RetriesOnBusy, TypeOK, connVars,
         eventVars, peerVars
    <2>2. CallInv(d)
      BY <1>a
    <2> QED
      BY <1>b, <2>1, <2>2 DEF CallInv, PendingInv, JobInv, MarkInv, TakenInv,
         TokenInv, ExecutedInv, RetryInv, BeforeInsert, Unsent, Handlers,
         Outstanding, HasRun, Statuses
  <1>6. ASSUME CheckCallable(d) PROVE CallInv(d)'
    <2>1. /\ xpc[d] = "check"
          /\ \/ /\ xpc'[d] = "register" /\ processed'[d] = processed[d]
                /\ promise'[d] = promise[d]
             \/ /\ xpc'[d] = "end" /\ processed'[d] = FALSE
                /\ promise'[d] = IF promise[d] = "unset" THEN "exception"
                                                     ELSE promise[d]
          /\ UNCHANGED <<pc[d], attempt[d], pending[d], outer[d], executed[d],
                         msgs, handlers, serving>>
      BY <1>6, <1>a DEF CheckCallable, SetPromise, TypeOK, connVars,
         eventVars, peerVars
    <2>2. CallInv(d)
      BY <1>a
    <2> QED
      BY <1>b, <2>1, <2>2 DEF CallInv, PendingInv, JobInv, MarkInv, TakenInv,
         TokenInv, ExecutedInv, RetryInv, BeforeInsert, Unsent, Handlers,
         Outstanding, HasRun, Statuses
  <1>7. ASSUME RegisterListener(d) PROVE CallInv(d)'
    <2>1. /\ xpc[d] = "register" /\ xpc'[d] = "insert" /\ processed'[d] = TRUE
          /\ UNCHANGED <<pc[d], attempt[d], pending[d], promise[d], outer[d], executed[d],
                         msgs, handlers, serving>>
      BY <1>7, <1>a DEF RegisterListener, TypeOK, connVars,
         eventVars, peerVars
    <2>2. CallInv(d)
      BY <1>a
    <2> QED
      BY <1>b, <2>1, <2>2 DEF CallInv, PendingInv, JobInv, MarkInv, TakenInv,
         TokenInv, ExecutedInv, RetryInv, BeforeInsert, Unsent, Handlers,
         Outstanding, HasRun, Statuses
  <1>8. ASSUME InsertPending(d) PROVE CallInv(d)'
    <2>1. /\ xpc[d] = "insert" /\ xpc'[d] = "send" /\ pending'[d] = attempt[d]
          /\ UNCHANGED <<pc[d], attempt[d], processed[d], promise[d], outer[d], executed[d],
                         msgs, handlers, serving>>
      BY <1>8, <1>a DEF InsertPending, TypeOK, connVars,
         eventVars, peerVars
    <2>2. CallInv(d)
      BY <1>a
    <2> QED
      BY <1>b, <2>1, <2>2 DEF CallInv, PendingInv, JobInv, MarkInv, TakenInv,
         TokenInv, ExecutedInv, RetryInv, BeforeInsert, Unsent, Handlers,
         Outstanding, HasRun, Statuses
  <1>9. ASSUME RemoveUnsent(d) PROVE CallInv(d)'
    <2>1. /\ xpc[d] = "unsent" /\ xpc'[d] = "removed" /\ pending'[d] = 0
          /\ UNCHANGED <<pc[d], attempt[d], processed[d], promise[d], outer[d], executed[d],
                         msgs, handlers, serving>>
      BY <1>9, <1>a DEF RemoveUnsent, TypeOK, connVars,
         eventVars, peerVars
    <2>2. CallInv(d)
      BY <1>a
    <2> QED
      BY <1>b, <2>1, <2>2 DEF CallInv, PendingInv, JobInv, MarkInv, TakenInv,
         TokenInv, ExecutedInv, RetryInv, BeforeInsert, Unsent, Handlers,
         Outstanding, HasRun, Statuses
  <1>10. ASSUME FailUnsent(d) PROVE CallInv(d)'
    <2>1. /\ xpc[d] = "removed" /\ xpc'[d] = "end" /\ processed'[d] = FALSE
          /\ promise'[d] = IF promise[d] = "unset" THEN "exception"
                                               ELSE promise[d]
          /\ UNCHANGED <<pc[d], attempt[d], pending[d], outer[d], executed[d],
                         msgs, handlers, serving>>
      BY <1>10, <1>a DEF FailUnsent, SetPromise, TypeOK, connVars,
         eventVars, peerVars
    <2>2. CallInv(d)
      BY <1>a
    <2> QED
      BY <1>b, <2>1, <2>2 DEF CallInv, PendingInv, JobInv, MarkInv, TakenInv,
         TokenInv, ExecutedInv, RetryInv, BeforeInsert, Unsent, Handlers,
         Outstanding, HasRun, Statuses
  <1>11. ASSUME Send(d) PROVE CallInv(d)'
    <2> DEFINE r == [type |-> "request", call |-> d, peer |-> executor[d]]
    <2>1. /\ xpc[d] = "send"
          /\ \/ xpc'[d] \in {"failed", "sent", "unsent"} /\ msgs' = msgs
             \/ xpc'[d] = "sent" /\ msgs' = msgs \cup {r}
          /\ UNCHANGED <<pc[d], attempt[d], processed[d], pending[d],
                         promise[d], outer[d], executed[d], handlers, serving>>
      BY <1>11, <1>a DEF Send, TypeOK, eventVars, peerVars
    <2>2. r.call = d /\ r.type = "request"
      OBVIOUS
    <2>3. CallInv(d)
      BY <1>a
    <2> HIDE DEF r
    <2>4. TokenInv(d)'
      BY <1>b, <2>1, <2>2, <2>3 DEF CallInv, JobInv, TokenInv, Unsent,
         BeforeInsert, Outstanding
    <2>5. ExecutedInv(d)'
      BY <1>b, <2>1, <2>2, <2>3 DEF CallInv, ExecutedInv, HasRun,
         BeforeInsert
    <2> QED
      BY <1>b, <2>1, <2>3, <2>4, <2>5 DEF CallInv, PendingInv, JobInv,
         MarkInv, TakenInv, RetryInv, BeforeInsert, Unsent, Handlers
  <1> QED
    BY <1>1, <1>2, <1>3, <1>4, <1>5, <1>6, <1>7, <1>8, <1>9, <1>10, <1>11
       DEF CallStep, ExecutorStep

\* The other calls are the same after the step of a call.
LEMMA OtherCalls ==
    ASSUME TypeOK, NEW d \in Calls, NEW c \in Calls, c # d,
           CallStep(d) \/ ExecutorStep(d) \/ Issue(d)
    PROVE  SameCall(c)
  <1> USE DEF SameCall, TypeOK, connVars, eventVars, callVars, peerVars
  <1>1. ASSUME Issue(d) PROVE SameCall(c)
    BY <1>1 DEF Issue
  <1>2. ASSUME SelectNextCallableExecutor(d) PROVE SameCall(c)
    BY <1>2 DEF SelectNextCallableExecutor
  <1>3. ASSUME IssueAttempt(d) PROVE SameCall(c)
    BY <1>3 DEF IssueAttempt
  <1>4. ASSUME Retry(d) PROVE SameCall(c)
    BY <1>4 DEF Retry
  <1>5. ASSUME Resolve(d) PROVE SameCall(c)
    BY <1>5 DEF Resolve
  <1>6. ASSUME CheckCallable(d) PROVE SameCall(c)
    BY <1>6 DEF CheckCallable, SetPromise
  <1>7. ASSUME RegisterListener(d) PROVE SameCall(c)
    BY <1>7 DEF RegisterListener
  <1>8. ASSUME InsertPending(d) PROVE SameCall(c)
    BY <1>8 DEF InsertPending
  <1>9. ASSUME RemoveUnsent(d) PROVE SameCall(c)
    BY <1>9 DEF RemoveUnsent
  <1>10. ASSUME FailUnsent(d) PROVE SameCall(c)
    BY <1>10 DEF FailUnsent, SetPromise
  <1>11. ASSUME Send(d) PROVE SameCall(c)
    <2>1. msgs' = msgs \/ msgs' = msgs \cup
              {[type |-> "request", call |-> d, peer |-> executor[d]]}
      BY <1>11 DEF Send
    <2>2. \A m \in msgs' : m.call = c => m \in msgs
      BY <2>1
    <2> QED BY <1>11, <2>2 DEF Send
  <1> QED
    BY <1>1, <1>2, <1>3, <1>4, <1>5, <1>6, <1>7, <1>8, <1>9, <1>10, <1>11
       DEF CallStep, ExecutorStep

\* Connections that close or open: messages are lost and events are fired.
LEMMA ConnectionSteps ==
    ASSUME NEW c \in Calls, CallInv(c)
    PROVE  /\ \A p \in Peers :
                  PeerCloses(p) \/ ReceiveError(p) \/ CloseConnectionTo(p)
                      \/ OnConnectionClose(p) \/ AddConnection(p)
                  => CallInv(c)'
           /\ CleanUpConnections => CallInv(c)'
           /\ UNCHANGED vars => CallInv(c)'
  <1> USE DEF SameCall, connVars, eventVars, callVars, peerVars
  <1>1. ASSUME NEW p \in Peers,
               PeerCloses(p) \/ ReceiveError(p) \/ CloseConnectionTo(p)
                   \/ OnConnectionClose(p) \/ AddConnection(p)
        PROVE  SameCall(c)
    BY <1>1 DEF PeerCloses, ReceiveError, CloseConnectionTo,
       OnConnectionClose, AddConnection
  <1>2. ASSUME CleanUpConnections PROVE SameCall(c)
    BY <1>2 DEF CleanUpConnections
  <1>3. ASSUME UNCHANGED vars PROVE SameCall(c)
    BY <1>3 DEF vars
  <1> QED BY <1>1, <1>2, <1>3, Untouched

\* The listeners: a handler takes a promise out, and sets it.
LEMMA EventSteps ==
    ASSUME CallsInv, NEW c \in Calls
    PROVE  EventStep => CallInv(c)'
  <1> USE DEF SameCall, TypeOK, connVars, eventVars, callVars, peerVars
  <1>a. TypeOK /\ CallInv(c)
    BY DEF CallsInv
  <1>b. /\ attempt[c] \in Nat /\ pending[c] \in Nat
        /\ handlers \subseteq Handlers
    BY <1>a
  <1>1. ASSUME NEW e \in events, HandleEvent(e) PROVE CallInv(c)'
    <2>1. SameCall(c)
      BY <1>1 DEF HandleEvent
    <2> QED BY <1>a, <2>1, Untouched
  <1>2. ASSUME NEW h \in handlers, RemoveResponsePromise(h) PROVE CallInv(c)'
    <2> DEFINE taken == [call |-> h.call, attempt |-> pending[h.call],
                         at |-> "set"]
    <2>1. CASE h.call # c \/ pending[c] = 0
      <3>1. SameCall(c)
        BY <1>2, <1>a, <2>1 DEF RemoveResponsePromise
      <3> QED BY <1>a, <3>1, Untouched
    <2>2. CASE h.call = c /\ pending[c] # 0
      <3>1. /\ pending'[c] = 0
            /\ handlers' = (handlers \ {h}) \cup {taken}
            /\ UNCHANGED <<pc[c], xpc[c], attempt[c], processed[c],
                           promise[c], outer[c], executed[c], msgs, serving>>
        BY <1>2, <1>a, <2>2 DEF RemoveResponsePromise
      <3>2. taken.call = c /\ taken.attempt = pending[c] /\ taken.at = "set"
        BY <2>2
      <3>3. CallInv(c)
        BY <1>a
      <3> HIDE DEF taken, TypeOK, SameCall
      <3> QED
        BY <1>b, <2>2, <3>1, <3>2, <3>3 DEF CallInv, PendingInv, JobInv,
           MarkInv, TakenInv, TokenInv, ExecutedInv, RetryInv, BeforeInsert,
           Unsent, Outstanding, HasRun, Statuses
    <2> QED BY <2>1, <2>2
  <1>3. ASSUME NEW h \in handlers, CancelRequest(h) PROVE CallInv(c)'
    <2>1. CASE h.call # c \/ h.attempt # attempt[c]
      <3>1. SameCall(c)
        BY <1>3, <1>a, <2>1 DEF CancelRequest, SetPromise
      <3> QED BY <1>a, <3>1, Untouched
    <2>2. CASE h.call = c /\ h.attempt = attempt[c]
      <3>1. /\ promise'[c] = IF promise[c] = "unset" THEN "exception"
                                                     ELSE promise[c]
            /\ h.at = "set" /\ handlers' = handlers \ {h}
            /\ UNCHANGED <<pc[c], xpc[c], attempt[c], processed[c],
                           pending[c], outer[c], executed[c], msgs, serving>>
        BY <1>3, <1>a, <2>2 DEF CancelRequest, SetPromise
      <3>2. CallInv(c)
        BY <1>a
      <3> HIDE DEF TypeOK, SameCall
      <3> QED
        BY <1>b, <2>2, <3>1, <3>2 DEF CallInv, PendingInv, JobInv,
           MarkInv, TakenInv, TokenInv, ExecutedInv, RetryInv, BeforeInsert,
           Unsent, Outstanding, HasRun, Statuses
    <2> QED BY <2>1, <2>2
  <1> QED BY <1>1, <1>2, <1>3 DEF EventStep

\* A request is served by one peer, in one place, and answered once.
LEMMA PeerSteps ==
    ASSUME CallsInv, NEW c \in Calls, NEW p \in Peers, NEW d \in Calls
    PROVE  PeerStep(p, d) \/ ReleaseSlot(p, d) => CallInv(c)'
  <1> USE DEF SameCall, TypeOK, connVars, eventVars, callVars, peerVars, Serve
  <1>a. TypeOK /\ CallInv(c)
    BY DEF CallsInv
  <1>b. /\ executed[c] \in Nat
        /\ serving[p] \in [Calls -> {"none", "query", "check", "run"}
                                    \cup Statuses]
    BY <1>a
  <1> DEFINE Same == UNCHANGED <<pc[c], xpc[c], attempt[c], processed[c],
                                 pending[c], promise[c], outer[c], handlers>>
  <1>1. ASSUME QueryService(p, d) PROVE CallInv(c)'
    <2>1. CASE d # c
      <3>1. SameCall(c)
        BY <1>1, <1>a, <2>1 DEF QueryService
      <3> QED BY <1>a, <3>1, Untouched
    <2>2. CASE d = c
      <3>1. /\ serving[p][c] = "query"
            /\ serving'[p][c] \in {"check", "GONE", "INTERNAL_ERROR", "none"}
            /\ \A q \in Peers : q # p => serving'[q][c] = serving[q][c]
            /\ Same /\ UNCHANGED <<msgs, executed>>
        BY <1>1, <1>a, <2>2 DEF QueryService
      <3>2. CallInv(c)
        BY <1>a
      <3> HIDE DEF TypeOK, SameCall
      <3> QED
        BY <1>b, <3>1, <3>2 DEF CallInv, PendingInv, JobInv, MarkInv,
           TakenInv, TokenInv, ExecutedInv, RetryInv, Outstanding, HasRun
    <2> QED BY <2>1, <2>2
  <1>2. ASSUME CheckCapacity(p, d) PROVE CallInv(c)'
    <2>1. CASE d # c
      <3>1. executed'[c] = executed[c]
        <4>1. \/ executed' = executed
              \/ executed' = [executed EXCEPT ![d] = @ + 1]
          BY <1>2 DEF CheckCapacity
        <4> QED BY <1>a, <2>1, <4>1
      <3>2. \A q \in Peers : serving'[q][c] = serving[q][c]
        BY <1>2, <1>a, <2>1 DEF CheckCapacity
      <3>3. SameCall(c)
        BY <1>2, <3>1, <3>2 DEF CheckCapacity
      <3> QED BY <1>a, <3>3, Untouched
    <2>2. CASE d = c
      <3>1. /\ serving[p][c] = "check"
            /\ \/ serving'[p][c] = "BUSY" /\ executed'[c] = executed[c]
               \/ serving'[p][c] = "run" /\ executed'[c] = executed[c] + 1
            /\ \A q \in Peers : q # p => serving'[q][c] = serving[q][c]
            /\ Same /\ UNCHANGED msgs
        BY <1>2, <1>a, <2>2 DEF CheckCapacity
      <3>2. CallInv(c)
        BY <1>a
      <3> HIDE DEF TypeOK, SameCall
      <3> QED
        BY <1>b, <3>1, <3>2 DEF CallInv, PendingInv, JobInv, MarkInv,
           TakenInv, TokenInv, ExecutedInv, RetryInv, Outstanding, HasRun,
           BeforeInsert, Statuses
    <2> QED BY <2>1, <2>2
  <1>3. ASSUME Execute(p, d) PROVE CallInv(c)'
    <2>1. CASE d # c
      <3>1. SameCall(c)
        BY <1>3, <1>a, <2>1 DEF Execute
      <3> QED BY <1>a, <3>1, Untouched
    <2>2. CASE d = c
      <3>1. /\ serving[p][c] = "run"
            /\ serving'[p][c] \in {"OK", "INTERNAL_ERROR"}
            /\ \A q \in Peers : q # p => serving'[q][c] = serving[q][c]
            /\ Same /\ UNCHANGED <<msgs, executed>>
        BY <1>3, <1>a, <2>2 DEF Execute
      <3>2. CallInv(c)
        BY <1>a
      <3> HIDE DEF TypeOK, SameCall
      <3> QED
        BY <1>b, <3>1, <3>2 DEF CallInv, PendingInv, JobInv, MarkInv,
           TakenInv, TokenInv, ExecutedInv, RetryInv, Outstanding, HasRun
    <2> QED BY <2>1, <2>2
  <1>4. ASSUME SendResponse(p, d) PROVE CallInv(c)'
    <2>1. PICK status \in Statuses :
               /\ Serve(p, d, status, "none")
               /\ \/ msgs' = msgs
                  \/ msgs' = msgs \cup {[type |-> "response", call |-> d,
                                         peer |-> p, status |-> status]}
      BY <1>4 DEF SendResponse
    <2> DEFINE r == [type |-> "response", call |-> d, peer |-> p,
                     status |-> status]
    <2>2. /\ r.type = "response" /\ r.call = d /\ r.status = status
          /\ status # "none"
      BY DEF Statuses
    <2>3. CASE d # c
      <3>1. SameCall(c)
        BY <1>4, <1>a, <2>1, <2>2, <2>3 DEF SendResponse
      <3> QED BY <1>a, <3>1, Untouched
    <2>4. CASE d = c
      <3>1. /\ serving[p][c] = status /\ serving'[p][c] = "none"
            /\ \A q \in Peers : q # p => serving'[q][c] = serving[q][c]
            /\ Same /\ UNCHANGED executed
            /\ msgs' = msgs \/ msgs' = msgs \cup {r}
        BY <1>4, <1>a, <2>1, <2>4 DEF SendResponse
      <3>2. CallInv(c)
        BY <1>a
      <3> HIDE DEF TypeOK, SameCall, r
      <3> QED
        BY <1>b, <2>2, <2>4, <3>1, <3>2 DEF CallInv, PendingInv, JobInv,
           MarkInv, TakenInv, TokenInv, ExecutedInv, RetryInv, Outstanding,
           HasRun
    <2> QED BY <2>3, <2>4
  <1>5. ASSUME ReleaseSlot(p, d) PROVE CallInv(c)'
    <2>1. SameCall(c)
      BY <1>5 DEF ReleaseSlot
    <2> QED BY <1>a, <2>1, Untouched
  <1> QED BY <1>1, <1>2, <1>3, <1>4, <1>5 DEF PeerStep

\* A message is the only one of its call, and is processed once.
LEMMA ReceiveSteps ==
    ASSUME CallsInv, NEW c \in Calls
    PROVE  Receive => CallInv(c)'
  <1> USE DEF SameCall, TypeOK, connVars, eventVars, callVars, peerVars, Serve
  <1>a. TypeOK /\ CallInv(c)
    BY DEF CallsInv
  <1>1. ASSUME NEW m \in msgs, m.type = "request", ReceiveRequest(m)
        PROVE  CallInv(c)'
    <2> DEFINE p == m.peer
    <2>1. p \in Peers /\ m.call \in Calls
      BY <1>a DEF Messages, Requests, Responses
    <2>2. CASE m.call # c
      <3>1. SameCall(c)
        BY <1>1, <1>a, <2>1, <2>2 DEF ReceiveRequest
      <3> QED BY <1>a, <3>1, Untouched
    <2>3. CASE m.call = c
      <3>1. /\ serving'[p][c] = "query" /\ msgs' = msgs \ {m}
            /\ \A q \in Peers : q # p => serving'[q][c] = serving[q][c]
            /\ UNCHANGED <<pc[c], xpc[c], attempt[c], processed[c],
                           pending[c], promise[c], outer[c], executed[c],
                           handlers>>
        BY <1>1, <1>a, <2>1, <2>3 DEF ReceiveRequest
      <3>2. CallInv(c)
        BY <1>a
      <3> HIDE DEF TypeOK, SameCall
      <3> QED
        BY <1>1, <2>1, <2>3, <3>1, <3>2 DEF CallInv, PendingInv, JobInv,
           MarkInv, TakenInv, TokenInv, ExecutedInv, RetryInv, Outstanding,
           HasRun
    <2> QED BY <2>2, <2>3
  <1>2. ASSUME NEW m \in msgs, m.type = "response", ProcessResponse(m)
        PROVE  CallInv(c)'
    <2>1. m.call \in Calls /\ m.status \in Statuses
      BY <1>2, <1>a DEF Messages, Requests, Responses
    <2>2. CASE pending[m.call] = 0 \/ m.call # c
      <3>1. SameCall(c)
        BY <1>2, <1>a, <2>1, <2>2 DEF ProcessResponse, SetPromise
      <3> QED BY <1>a, <3>1, Untouched
    <2>3. CASE pending[m.call] # 0 /\ m.call = c
      <3>1. /\ processed'[c] = FALSE /\ pending'[c] = 0
            /\ promise'[c] = IF promise[c] = "unset" THEN m.status
                                                     ELSE promise[c]
            /\ msgs' = msgs \ {m}
            /\ UNCHANGED <<pc[c], xpc[c], attempt[c], outer[c], executed[c],
                           handlers, serving>>
        BY <1>2, <1>a, <2>1, <2>3 DEF ProcessResponse, SetPromise
      <3>2. CallInv(c) /\ handlers \subseteq Handlers
        BY <1>a
      <3> HIDE DEF TypeOK, SameCall
      <3> QED
        BY <1>2, <2>1, <2>3, <3>1, <3>2 DEF CallInv, PendingInv, JobInv,
           MarkInv, TakenInv, TokenInv, ExecutedInv, RetryInv, Outstanding,
           HasRun, Statuses, BeforeInsert, Unsent, Handlers
    <2> QED BY <2>2, <2>3
  <1> QED BY <1>1, <1>2 DEF Receive

\* Every step keeps the invariant.
LEMMA CallsStep == CallsInv /\ [Next]_vars => CallsInv'
  <1> SUFFICES ASSUME CallsInv, [Next]_vars PROVE CallsInv'
    OBVIOUS
  <1>1. TypeOK'
    BY TypeStep DEF CallsInv
  <1>2. ASSUME NEW c \in Calls PROVE CallInv(c)'
    <2>a. TypeOK /\ CallInv(c)
      BY DEF CallsInv
    <2>1. ASSUME NEW d \in Calls, Issue(d) \/ CallStep(d) \/ ExecutorStep(d)
          PROVE  CallInv(c)'
      <3>1. CASE d = c
        BY <2>1, <3>1, OwnStep
      <3>2. CASE d # c
        BY <2>1, <2>a, <3>2, OtherCalls, Untouched
      <3> QED BY <3>1, <3>2
    <2>2. CASE Receive
      BY <2>2, ReceiveSteps
    <2>3. CASE EventStep
      BY <2>3, EventSteps
    <2>4. ASSUME NEW p \in Peers,
                 PeerCloses(p) \/ ReceiveError(p) \/ CloseConnectionTo(p)
                     \/ OnConnectionClose(p) \/ AddConnection(p)
          PROVE  CallInv(c)'
      BY <2>4, <2>a, ConnectionSteps
    <2>5. CASE CleanUpConnections
      BY <2>5, <2>a, ConnectionSteps
    <2>6. ASSUME NEW p \in Peers, NEW d \in Calls,
                 PeerStep(p, d) \/ ReleaseSlot(p, d)
          PROVE  CallInv(c)'
      BY <2>6, PeerSteps
    <2>7. CASE UNCHANGED vars
      BY <2>7, <2>a, ConnectionSteps
    <2> QED
      BY <2>1, <2>2, <2>3, <2>4, <2>5, <2>6, <2>7 DEF Next, Terminated
  <1> QED BY <1>1, <1>2 DEF CallsInv

\* The inductive invariant holds in every reachable state.
THEOREM CallsCorrect == Spec => []CallsInv
  BY InitCalls, CallsStep, PTL DEF Spec

\* The types of the call, connection and peer state.
THEOREM RemoteTypes == Spec => []TypeOK
  <1>1. CallsInv => TypeOK
    BY DEF CallsInv
  <1> QED BY <1>1, CallsCorrect, PTL

\* Pending requests are those of current attempts, which no response,
\* failed send or closed connection has resolved.
THEOREM PendingCurrent == Spec => []PendingIsCurrent
  <1>1. CallsInv => PendingIsCurrent
    BY DEF CallsInv, CallInv, PendingInv, PendingIsCurrent
  <1> QED BY <1>1, CallsCorrect, PTL

\* The assertions on requests that are processed twice never fail.
THEOREM NoDoubleProcessing == Spec => []NeverDoubleProcessed
  <1>1. CallsInv => NeverDoubleProcessed
    BY DEF CallsInv, CallInv, JobInv, MarkInv, NeverDoubleProcessed, TypeOK,
       ExecutorLabels, BeforeInsert, Unsent
  <1> QED BY <1>1, CallsCorrect, PTL

\* However often a call is retried, its service runs at most once, and it
\* has run if the response says so.
THEOREM AtMostOnce == Spec => []ExecutedAtMostOnce
  <1>1. CallsInv => ExecutedAtMostOnce
    BY DEF CallsInv, CallInv, ExecutedInv, HasRun, ExecutedAtMostOnce
  <1> QED BY <1>1, CallsCorrect, PTL

\* A call is retried max_retries times before it is answered with busy.
THEOREM RetriesCounted == Spec => []RetriesAreCounted
  <1>1. CallsInv => RetriesAreCounted
    BY DEF CallsInv, CallInv, RetryInv, RetriesAreCounted
  <1> QED BY <1>1, CallsCorrect, PTL

===========================================================================
