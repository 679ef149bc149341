---------------------------- MODULE RemoteCalls ----------------------------
(***************************************************************************)
(* Calls of remote services: RoundRobinServiceCaller with its retries, the *)
(* job of RemoteServiceExecutor that sends the request, the response       *)
(* consumer with its pending requests, the listeners that cancel a request *)
(* when the connection closes, the web-socket connections of the calling   *)
(* node, and the peers that process requests.                              *)
(*                                                                         *)
(* A call is one ServiceRequest; all its attempts have its transaction id. *)
(* A peer is a remote node with one executor of the service, so an         *)
(* executor is named by its peer.  The round-robin order is left out: any  *)
(* callable executor may be selected.                                      *)
(***************************************************************************)
EXTENDS Integers, FiniteSets

CONSTANTS
    Calls,          \* service requests, each issued once by its user
    SyncCalls,      \* the ones issued with async = false
    Peers,          \* remote nodes
    MaxRetries,     \* CallRetryPolicy::max_retries
    TryNext,        \* CallRetryPolicy::try_next_executor
    Capacity,       \* LocalServiceExecutor::m_capacity of each peer, 0: no limit
    ForgetsLocal,   \* peers that may unregister their executor, but know others
    MaxReconnects   \* bound: how often connections are established again

ASSUME ConstantsAssumption ==
    /\ SyncCalls \subseteq Calls
    /\ MaxRetries \in Nat
    /\ TryNext \in BOOLEAN
    /\ Capacity \in [Peers -> Nat]
    /\ MaxReconnects \in Nat

ASSUME ForgetsAssumption == ForgetsLocal \subseteq Peers

VARIABLES
    \* connections, by peer
    local,      \* m_connections of this node: none, open, or an unusable entry
    link,       \* the end of the peer is open
    toFire,     \* calls of Close that have not fired their event yet
    reconnects,
    msgs,       \* messages sent and not processed
    \* events
    events,     \* jobs that pass a ConnectionClosedEvent to a listener
    handlers,   \* listeners that handle one
    \* one call
    pc,         \* the job of RoundRobinServiceCaller
    xpc,        \* the job of RemoteServiceExecutor
    attempt,    \* attempt_number
    executor,   \* maybe_executor
    processed,  \* ServiceRequest::m_is_currently_processed
    pending,    \* m_pending_requests: the attempt whose promise is in it, or 0
    promise,    \* the promise of the current attempt
    outer,      \* the promise of the user
    \* peers
    serving,    \* the job of RemoteServiceRequestConsumer for a call
    slots,      \* the calls counted in m_current_concurrent_calls
    executed    \* history: how often the service has run for a call

connVars == <<local, link, toFire, reconnects>>
eventVars == <<events, handlers>>
callVars == <<pc, xpc, attempt, executor, processed, pending, promise, outer>>
peerVars == <<serving, slots, executed>>
vars == <<connVars, msgs, eventVars, callVars, peerVars>>

Statuses == {"OK", "BUSY", "INTERNAL_ERROR", "GONE"}
Requests == [type : {"request"}, call : Calls, peer : Peers]
Responses == [type : {"response"}, call : Calls, peer : Peers,
              status : Statuses]
Messages == Requests \cup Responses
CloseEvents == [call : Calls, attempt : Nat, peer : Peers]
Handlers == [call : Calls, attempt : Nat, at : {"remove", "set"}]

RequestsTo(p) == {m \in msgs : m.type = "request" /\ m.peer = p}
ResponsesFrom(p) == {m \in msgs : m.type = "response" /\ m.peer = p}

Init ==
    /\ local = [p \in Peers |-> "open"]
    /\ link = [p \in Peers |-> TRUE]
    /\ toFire = [p \in Peers |-> 0]
    /\ reconnects = 0
    /\ msgs = {}
    /\ events = {}
    /\ handlers = {}
    /\ pc = [c \in Calls |-> "idle"]
    /\ xpc = [c \in Calls |-> "none"]
    /\ attempt = [c \in Calls |-> 0]
    /\ executor \in [Calls -> Peers]
    /\ processed = [c \in Calls |-> FALSE]
    /\ pending = [c \in Calls |-> 0]
    /\ promise = [c \in Calls |-> "none"]
    /\ outer = [c \in Calls |-> "none"]
    /\ serving = [p \in Peers |-> [c \in Calls |-> "none"]]
    /\ slots = [p \in Peers |-> {}]
    /\ executed = [c \in Calls |-> 0]

\* Setting a promise that is set already throws and changes nothing.
SetPromise(c, value) ==
    promise' = IF promise[c] = "unset" THEN [promise EXCEPT ![c] = value]
               ELSE promise

-----------------------------------------------------------------------------
(* RoundRobinServiceCaller *)

HasConnectionTo(p) == local[p] = "open"
IsCallable(p) == HasConnectionTo(p)

Issue(c) ==
    /\ pc[c] = "idle"
    /\ pc' = [pc EXCEPT ![c] = "select"]
    /\ attempt' = [attempt EXCEPT ![c] = 1]
    /\ outer' = [outer EXCEPT ![c] = "unset"]
    /\ UNCHANGED <<connVars, msgs, eventVars, xpc, executor, processed,
                   pending, promise, peerVars>>

SelectNextCallableExecutor(c) ==
    /\ pc[c] = "select"
    /\ \/ \E p \in Peers :
              /\ IsCallable(p)
              /\ executor' = [executor EXCEPT ![c] = p]
              /\ pc' = [pc EXCEPT ![c] = "issue"]
              /\ UNCHANGED outer
       \/ /\ \A p \in Peers : ~IsCallable(p)
          /\ outer' = [outer EXCEPT ![c] = "exception"]
          /\ pc' = [pc EXCEPT ![c] = "done"]
          /\ UNCHANGED executor
    /\ UNCHANGED <<connVars, msgs, eventVars, xpc, attempt, processed,
                   pending, promise, peerVars>>

\* IssueCallAsJob of the executor: a new promise, and a job to be kicked.
IssueAttempt(c) ==
    /\ pc[c] = "issue"
    /\ pc' = [pc EXCEPT ![c] = "wait"]
    /\ xpc' = [xpc EXCEPT ![c] = "check"]
    /\ promise' = [promise EXCEPT ![c] = "unset"]
    /\ UNCHANGED <<connVars, msgs, eventVars, attempt, executor, processed,
                   pending, outer, peerVars>>

AttemptResolved(c) == pc[c] = "wait" /\ promise[c] # "unset"

\* Mutant: the first attempt does not count.
RetriesOnceMore(c) == promise[c] = "BUSY" /\ MaxRetries + 1 >= attempt[c]

\* Only a busy executor is called again; attempt_number starts with 1.
RetriesOnBusy(c) == promise[c] = "BUSY" /\ MaxRetries >= attempt[c]

\* A new job makes the next attempt, after the retry interval.
Retry(c) ==
    /\ AttemptResolved(c)
    /\ RetriesOnBusy(c)
    /\ attempt' = [attempt EXCEPT ![c] = @ + 1]
    /\ pc' = [pc EXCEPT ![c] = IF TryNext THEN "select" ELSE "issue"]
    /\ UNCHANGED <<connVars, msgs, eventVars, xpc, executor, processed,
                   pending, promise, outer, peerVars>>

Resolve(c) ==
    /\ AttemptResolved(c)
    /\ ~RetriesOnBusy(c)
    /\ outer' = [outer EXCEPT ![c] = promise[c]]
    /\ pc' = [pc EXCEPT ![c] = "done"]
    /\ UNCHANGED <<connVars, msgs, eventVars, xpc, attempt, executor,
                   processed, pending, promise, peerVars>>

-----------------------------------------------------------------------------
(* The job of RemoteServiceExecutor::IssueCallAsJob *)

CheckCallable(c) ==
    /\ xpc[c] = "check"
    /\ IF IsCallable(executor[c])
       THEN /\ xpc' = [xpc EXCEPT ![c] = "register"]
            /\ UNCHANGED <<processed, promise>>
       ELSE /\ xpc' = [xpc EXCEPT ![c] = "end"]
            /\ processed' = [processed EXCEPT ![c] = FALSE]
            /\ SetPromise(c, "exception")
    /\ UNCHANGED <<connVars, msgs, eventVars, pc, attempt, executor, pending,
                   outer, peerVars>>

\* The request is marked, and AddResponsePromise registers its listener.
RegisterListener(c) ==
    /\ xpc[c] = "register"
    /\ processed' = [processed EXCEPT ![c] = TRUE]
    /\ xpc' = [xpc EXCEPT ![c] = "insert"]
    /\ UNCHANGED <<connVars, msgs, eventVars, pc, attempt, executor, pending,
                   promise, outer, peerVars>>

\* Mutant: the wrong value is the key.
InsertPendingPeer(c) ==
    /\ xpc[c] = "insert"
    /\ pending' = [pending EXCEPT ![c] = executor[c]]
    /\ xpc' = [xpc EXCEPT ![c] = "send"]
    /\ UNCHANGED <<connVars, msgs, eventVars, pc, attempt, executor,
                   processed, promise, outer, peerVars>>

InsertPending(c) ==
    /\ xpc[c] = "insert"
    /\ pending' = [pending EXCEPT ![c] = attempt[c]]
    /\ xpc' = [xpc EXCEPT ![c] = "send"]
    /\ UNCHANGED <<connVars, msgs, eventVars, pc, attempt, executor,
                   processed, promise, outer, peerVars>>

\* Send throws if there is no usable connection, and nothing in the job
\* catches that: the job fails.  What is written to a connection whose other
\* end is gone is lost, or the write fails and so does the stream; if it has
\* timed out, Close is called.
Send(c) ==
    LET p == executor[c] IN
    /\ xpc[c] = "send"
    /\ \/ /\ ~HasConnectionTo(p)
          /\ xpc' = [xpc EXCEPT ![c] = "failed"]
          /\ UNCHANGED <<local, toFire, msgs>>
       \/ /\ HasConnectionTo(p)
          /\ xpc' = [xpc EXCEPT ![c] = "sent"]
          /\ msgs' = IF link[p]
                     THEN msgs \cup {[type |-> "request", call |-> c,
                                      peer |-> p]}
                     ELSE msgs
          /\ UNCHANGED <<local, toFire>>
       \/ /\ HasConnectionTo(p) /\ ~link[p]
          /\ xpc' = [xpc EXCEPT ![c] = "unsent"]
          /\ local' = [local EXCEPT ![p] = "dead"]
          /\ \E closes \in {0, 1} : toFire' = [toFire EXCEPT ![p] = @ + closes]
          /\ UNCHANGED msgs
    /\ UNCHANGED <<link, reconnects, eventVars, pc, attempt, executor,
                   processed, pending, promise, outer, peerVars>>

\* Mutant: the pending request stays behind.
RemoveUnsentNever(c) ==
    /\ xpc[c] = "unsent"
    /\ xpc' = [xpc EXCEPT ![c] = "removed"]
    /\ UNCHANGED <<connVars, msgs, eventVars, pc, attempt, executor,
                   processed, pending, promise, outer, peerVars>>

RemoveUnsent(c) ==
    /\ xpc[c] = "unsent"
    /\ pending' = [pending EXCEPT ![c] = 0]
    /\ xpc' = [xpc EXCEPT ![c] = "removed"]
    /\ UNCHANGED <<connVars, msgs, eventVars, pc, attempt, executor,
                   processed, promise, outer, peerVars>>

FailUnsent(c) ==
    /\ xpc[c] = "removed"
    /\ processed' = [processed EXCEPT ![c] = FALSE]
    /\ SetPromise(c, "exception")
    /\ xpc' = [xpc EXCEPT ![c] = "end"]
    /\ UNCHANGED <<connVars, msgs, eventVars, pc, attempt, executor, pending,
                   outer, peerVars>>

-----------------------------------------------------------------------------
(* RemoteServiceResponseConsumer *)

\* Mutant: the request stays marked.
ProcessResponseKeepsMark(m) ==
    /\ m \in msgs
    /\ msgs' = msgs \ {m}
    /\ IF pending[m.call] = 0
       THEN UNCHANGED <<promise, pending>>
       ELSE /\ SetPromise(m.call, m.status)
            /\ pending' = [pending EXCEPT ![m.call] = 0]
    /\ UNCHANGED <<connVars, eventVars, pc, xpc, attempt, executor, processed,
                   outer, peerVars>>

ProcessResponse(m) ==
    /\ m \in msgs
    /\ msgs' = msgs \ {m}
    /\ IF pending[m.call] = 0
       THEN UNCHANGED <<processed, promise, pending>>
       ELSE /\ processed' = [processed EXCEPT ![m.call] = FALSE]
            /\ SetPromise(m.call, m.status)
            /\ pending' = [pending EXCEPT ![m.call] = 0]
    /\ UNCHANGED <<connVars, eventVars, pc, xpc, attempt, executor, outer,
                   peerVars>>

\* Mutant: the pending entry does not keep the listener alive.
ListenerForgotten(c, n) == xpc[c] = "insert" /\ attempt[c] = n

\* Only the pending entry owns the listener once AddResponsePromise is left.
ListenerAlive(c, n) ==
    \/ pending[c] = n
    \/ xpc[c] = "insert" /\ attempt[c] = n

\* FireEvent kicks a job for every listener that is alive; those that listen
\* for another peer do nothing and are left out.
FireEvent(closed) ==
    events' = events \cup
        {[call |-> c, attempt |-> attempt[c], peer |-> executor[c]] :
            c \in {d \in Calls : /\ executor[d] \in closed
                                 /\ ListenerAlive(d, attempt[d])}}

HandleEvent(e) ==
    /\ e \in events
    /\ events' = events \ {e}
    /\ handlers' = IF ListenerAlive(e.call, e.attempt)
                   THEN handlers \cup {[call |-> e.call, attempt |-> e.attempt,
                                        at |-> "remove"]}
                   ELSE handlers
    /\ UNCHANGED <<connVars, msgs, callVars, peerVars>>

\* RemoveResponsePromise finds whatever the transaction id leads to now.
RemoveResponsePromise(h) ==
    /\ h \in handlers /\ h.at = "remove"
    /\ pending' = [pending EXCEPT ![h.call] = 0]
    /\ handlers' = (handlers \ {h}) \cup
           (IF pending[h.call] = 0 THEN {}
            ELSE {[call |-> h.call, attempt |-> pending[h.call],
                   at |-> "set"]})
    /\ UNCHANGED <<connVars, msgs, events, pc, xpc, attempt, executor,
                   processed, promise, outer, peerVars>>

CancelRequest(h) ==
    /\ h \in handlers /\ h.at = "set"
    /\ handlers' = handlers \ {h}
    /\ IF h.attempt = attempt[h.call]
       THEN SetPromise(h.call, "exception") ELSE UNCHANGED promise
    /\ UNCHANGED <<connVars, msgs, events, pc, xpc, attempt, executor,
                   processed, pending, outer, peerVars>>

-----------------------------------------------------------------------------
(* Connections.  Messages under way when an end closes may be lost. *)

\* The peer closes its end, or is gone; what was sent to it is lost.
PeerCloses(p) ==
    /\ link[p]
    /\ link' = [link EXCEPT ![p] = FALSE]
    /\ msgs' = msgs \ RequestsTo(p)
    /\ UNCHANGED <<local, toFire, reconnects, eventVars, callVars, peerVars>>

\* OnMessageReceived: after some errors the connection is closed and fires
\* its event; after others it is just unusable from now on.
ReceiveError(p) ==
    /\ local[p] = "open" /\ ~link[p]
    /\ local' = [local EXCEPT ![p] = "dead"]
    /\ \E closes \in {0, 1} : toFire' = [toFire EXCEPT ![p] = @ + closes]
    /\ \E lost \in SUBSET ResponsesFrom(p) : msgs' = msgs \ lost
    /\ UNCHANGED <<link, reconnects, eventVars, callVars, peerVars>>

\* CloseConnectionTo closes the connection, then erases it; its destructor
\* calls Close again.
CloseConnectionTo(p) ==
    /\ local[p] # "none"
    /\ local' = [local EXCEPT ![p] = "none"]
    /\ link' = [link EXCEPT ![p] = FALSE]
    /\ toFire' = [toFire EXCEPT ![p] = @ + 1]
    /\ FireEvent({p})
    /\ \E lost \in SUBSET ResponsesFrom(p) :
           msgs' = msgs \ (lost \cup RequestsTo(p))
    /\ UNCHANGED <<reconnects, handlers, callVars, peerVars>>

\* The end of a Close that was called by a callback or a destructor.
OnConnectionClose(p) ==
    /\ toFire[p] > 0
    /\ toFire' = [toFire EXCEPT ![p] = @ - 1]
    /\ FireEvent({p})
    /\ UNCHANGED <<local, link, reconnects, msgs, handlers, callVars,
                   peerVars>>

\* A synchronous job belongs to phase MAIN: while the code of one is being
\* executed, the cycle does not get to CLEAN_UP.
ExecutorLabels == {"check", "register", "insert", "send", "unsent", "removed"}
InMainPhase ==
    \/ handlers # {}
    \/ \E c \in SyncCalls : pc[c] \in {"issue", "wait"}
                            \/ xpc[c] \in ExecutorLabels

\* The timer job that erases the unusable connections, and fires for them.
CleanUpConnections ==
    LET dead == {p \in Peers : local[p] = "dead"} IN
    /\ ~InMainPhase
    /\ dead # {}
    /\ local' = [p \in Peers |-> IF p \in dead THEN "none" ELSE local[p]]
    /\ toFire' = [p \in Peers |-> IF p \in dead THEN toFire[p] + 1
                                  ELSE toFire[p]]
    /\ FireEvent(dead)
    /\ UNCHANGED <<link, reconnects, msgs, handlers, callVars, peerVars>>

\* AddConnection closes the connection it replaces, whose destructor follows.
AddConnection(p) ==
    /\ ~link[p]
    /\ reconnects < MaxReconnects
    /\ reconnects' = reconnects + 1
    /\ link' = [link EXCEPT ![p] = TRUE]
    /\ local' = [local EXCEPT ![p] = "open"]
    /\ IF local[p] = "none"
       THEN UNCHANGED <<toFire, events>>
       ELSE FireEvent({p}) /\ toFire' = [toFire EXCEPT ![p] = @ + 1]
    /\ UNCHANGED <<msgs, handlers, callVars, peerVars>>

-----------------------------------------------------------------------------
(* A peer: the job of RemoteServiceRequestConsumer and LocalServiceExecutor *)

Serve(p, c, from, to) ==
    /\ serving[p][c] = from
    /\ serving' = [serving EXCEPT ![p][c] = to]

ReceiveRequest(m) ==
    /\ m \in RequestsTo(m.peer)
    /\ msgs' = msgs \ {m}
    /\ Serve(m.peer, m.call, "none", "query")
    /\ UNCHANGED <<connVars, eventVars, callVars, slots, executed>>

\* The service may have been unregistered, before it is looked up (GONE) or
\* before the caller selects its executor (which throws).  A service that is
\* callable, but not locally, makes Find set its promise twice: that throws
\* out of the job, which ends without a response.
QueryService(p, c) ==
    /\ \E found \in {"check", "GONE", "INTERNAL_ERROR"}
                     \cup IF p \in ForgetsLocal THEN {"none"} ELSE {} :
           Serve(p, c, "query", found)
    /\ UNCHANGED <<connVars, msgs, eventVars, callVars, slots, executed>>

\* Mutant: the service is called before the limit is checked.
CheckCapacityLate(p, c) ==
    /\ \/ /\ Capacity[p] > 0
          /\ Serve(p, c, "check", "BUSY")
          /\ UNCHANGED slots
       \/ /\ Capacity[p] = 0 \/ Cardinality(slots[p]) < Capacity[p]
          /\ Serve(p, c, "check", "run")
          /\ slots' = [slots EXCEPT ![p] = @ \cup {c}]
    /\ executed' = [executed EXCEPT ![c] = @ + 1]
    /\ UNCHANGED <<connVars, msgs, eventVars, callVars>>

\* The calls of other nodes, which are not modelled, may hold any slots.
CheckCapacity(p, c) ==
    /\ \/ /\ Capacity[p] > 0
          /\ Serve(p, c, "check", "BUSY")
          /\ UNCHANGED <<slots, executed>>
       \/ /\ Capacity[p] = 0 \/ Cardinality(slots[p]) < Capacity[p]
          /\ Serve(p, c, "check", "run")
          /\ slots' = [slots EXCEPT ![p] = @ \cup {c}]
          /\ executed' = [executed EXCEPT ![c] = @ + 1]
    /\ UNCHANGED <<connVars, msgs, eventVars, callVars>>

\* The service returns, or throws; it does not answer BUSY or GONE itself.
Execute(p, c) ==
    /\ \E result \in {"OK", "INTERNAL_ERROR"} : Serve(p, c, "run", result)
    /\ UNCHANGED <<connVars, msgs, eventVars, callVars, slots, executed>>

\* The count is decreased after the promise of the execution is set.
ReleaseSlot(p, c) ==
    /\ c \in slots[p]
    /\ serving[p][c] # "run"
    /\ slots' = [slots EXCEPT ![p] = @ \ {c}]
    /\ UNCHANGED <<connVars, msgs, eventVars, callVars, serving, executed>>

\* The response is lost if either end of the connection is closed.
SendResponse(p, c) ==
    /\ \E status \in Statuses :
           /\ Serve(p, c, status, "none")
           /\ msgs' = IF link[p] /\ HasConnectionTo(p)
                      THEN msgs \cup {[type |-> "response", call |-> c,
                                       peer |-> p, status |-> status]}
                      ELSE msgs
    /\ UNCHANGED <<connVars, eventVars, callVars, slots, executed>>

-----------------------------------------------------------------------------

CallStep(c) ==
    \/ SelectNextCallableExecutor(c) \/ IssueAttempt(c) \/ Retry(c)
    \/ Resolve(c)
ExecutorStep(c) ==
    \/ CheckCallable(c) \/ RegisterListener(c) \/ InsertPending(c)
    \/ Send(c) \/ RemoveUnsent(c) \/ FailUnsent(c)
PeerStep(p, c) ==
    \/ QueryService(p, c) \/ CheckCapacity(p, c) \/ Execute(p, c)
    \/ SendResponse(p, c)
Receive ==
    \/ \E m \in {n \in msgs : n.type = "request"} : ReceiveRequest(m)
    \/ \E m \in {n \in msgs : n.type = "response"} : ProcessResponse(m)
EventStep ==
    \/ \E e \in events : HandleEvent(e)
    \/ \E h \in handlers : RemoveResponsePromise(h) \/ CancelRequest(h)

\* Every call is resolved, or waits for a promise that nobody will set.
Terminated ==
    /\ \A c \in Calls : /\ pc[c] \in {"wait", "done"}
                        /\ xpc[c] \in {"none", "sent", "failed", "end"}
    /\ msgs = {} /\ events = {} /\ handlers = {}
    /\ \A p \in Peers : toFire[p] = 0
    /\ UNCHANGED vars

Next ==
    \/ \E c \in Calls : Issue(c) \/ CallStep(c) \/ ExecutorStep(c)
    \/ Receive
    \/ EventStep
    \/ \E p \in Peers : \/ PeerCloses(p) \/ ReceiveError(p)
                        \/ CloseConnectionTo(p) \/ OnConnectionClose(p)
                        \/ AddConnection(p)
    \/ CleanUpConnections
    \/ \E p \in Peers, c \in Calls : PeerStep(p, c) \/ ReleaseSlot(p, c)
    \/ Terminated

Spec == Init /\ [][Next]_vars

\* Jobs are executed, the network delivers or breaks the connection, a dead
\* peer is noticed (idle timeout), and the clean-up job runs every second.
\* Nobody has to issue a call, or to close or establish a connection.
Fairness ==
    /\ \A c \in Calls : WF_vars(CallStep(c)) /\ WF_vars(ExecutorStep(c))
    /\ WF_vars(Receive)
    /\ WF_vars(EventStep)
    /\ \A p \in Peers : /\ WF_vars(ReceiveError(p))
                        /\ WF_vars(OnConnectionClose(p))
                        /\ \A c \in Calls : /\ WF_vars(PeerStep(p, c))
                                            /\ WF_vars(ReleaseSlot(p, c))
    /\ WF_vars(CleanUpConnections)

FairSpec == Spec /\ Fairness

-----------------------------------------------------------------------------
(* Properties *)

Values == {"none", "unset", "exception"} \cup Statuses

TypeOK ==
    /\ local \in [Peers -> {"none", "open", "dead"}]
    /\ link \in [Peers -> BOOLEAN]
    /\ toFire \in [Peers -> Nat]
    /\ reconnects \in 0 .. MaxReconnects
    /\ msgs \subseteq Messages
    /\ events \subseteq CloseEvents
    /\ handlers \subseteq Handlers
    /\ pc \in [Calls -> {"idle", "select", "issue", "wait", "done"}]
    /\ xpc \in [Calls -> ExecutorLabels \cup {"none", "sent", "failed", "end"}]
    /\ attempt \in [Calls -> Nat]
    /\ executor \in [Calls -> Peers]
    /\ processed \in [Calls -> BOOLEAN]
    /\ pending \in [Calls -> Nat]
    /\ promise \in [Calls -> Values]
    /\ outer \in [Calls -> Values]
    /\ serving \in [Peers -> [Calls -> {"none", "query", "check", "run"}
                                       \cup Statuses]]
    /\ slots \in [Peers -> SUBSET Calls]
    /\ executed \in [Calls -> Nat]

\* A pending entry is the one of the current attempt, its promise is not set
\* and its request is marked as processed (asserted in
\* ProcessReceivedMessage), however responses, failed sends and closed
\* connections interleave: none is left behind when its call is resolved, and
\* no response can resolve another attempt than the one it answers.
PendingIsCurrent ==
    \A c \in Calls : pending[c] # 0 =>
        /\ pc[c] = "wait"
        /\ pending[c] = attempt[c]
        /\ promise[c] = "unset"
        /\ processed[c]

\* The assertions in IssueCallAsJob, MarkAsCurrentlyProcessed and
\* AddResponsePromise: a request is not sent while an earlier attempt with it
\* is still being processed, although all attempts use the same request; and
\* when the next attempt begins, the job of the earlier one has ended.
NeverDoubleProcessed ==
    \A c \in Calls :
        /\ pc[c] = "issue" \/ xpc[c] \in {"check", "register"} => ~processed[c]
        /\ xpc[c] = "insert" => pending[c] = 0
        /\ pc[c] \in {"select", "issue"} => xpc[c] \in {"none", "sent"}

\* Retries execute nothing twice: the service runs at most once for a call,
\* and exactly once if the response says OK.
ExecutedAtMostOnce ==
    \A c \in Calls : /\ executed[c] <= 1
                     /\ outer[c] = "OK" => executed[c] = 1

\* CallRetryPolicy.h: max_retries is the number of retries before the busy
\* response is returned, neither more (test busy_retry_policy) nor fewer.
RetriesAreCounted ==
    \A c \in Calls : /\ attempt[c] <= MaxRetries + 1
                     /\ outer[c] = "BUSY" => attempt[c] = MaxRetries + 1

\* A request that has been sent does not wait for ever: it is answered, or
\* cancelled because its connection is closed.
SentCallResolves ==
    \A c \in Calls : xpc[c] = "sent" /\ pending[c] # 0 ~> pending[c] = 0

\* RemoteServiceResponseConsumer.cpp: when the connection is closed before
\* the response is received, the request is cancelled "to avoid blocking".
CallResolves == \A c \in Calls : outer[c] = "unset" ~> outer[c] # "unset"

\* RemoteServiceExecutor.cpp: a request can be used a second time when it
\* "has been resolved once".
ResolvedIsNotProcessed ==
    \A c \in Calls : outer[c] \notin {"none", "unset"} => ~processed[c]

=============================================================================
