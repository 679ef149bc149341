-------------------------- MODULE RemoteCallsInv --------------------------
(***************************************************************************)
(* The inductive invariant of RemoteCalls, one call at a time.  It is      *)
(* checked by TLC before it is used in the proofs.                         *)
(***************************************************************************)
EXTENDS RemoteCalls

\* Until the entry is inserted, nobody but the job knows the promise.
BeforeInsert == {"check", "register", "insert"}
\* The job of an attempt that has neither been sent nor forgotten.
Unsent == BeforeInsert \cup {"send", "unsent", "removed", "failed", "end"}

PendingInv(c) ==
    pending[c] # 0 => /\ pc[c] = "wait"
                      /\ pending[c] = attempt[c]
                      /\ promise[c] = "unset"
                      /\ processed[c]

JobInv(c) ==
    /\ xpc[c] \in BeforeInsert => promise[c] = "unset" /\ pending[c] = 0
                                  /\ pc[c] = "wait"
    /\ xpc[c] \in Unsent => pc[c] \in {"wait", "done"}
                            /\ promise[c] \notin Statuses
    /\ xpc[c] = "insert" => processed[c]
    /\ xpc[c] = "removed" => pending[c] = 0
    /\ pc[c] = "idle" <=> attempt[c] = 0

\* A request is marked from the registration of its listener on.
MarkInv(c) ==
    /\ pc[c] \in {"idle", "select", "issue"} => ~processed[c]
    /\ xpc[c] \in {"check", "register"} => ~processed[c]
    /\ promise[c] \in Statuses => ~processed[c]

\* The handler that took the promise of the current attempt out of the
\* pending requests shares it with the job of that attempt only.
TakenInv(c) ==
    \A h \in handlers : h.call = c /\ h.at = "set" =>
        /\ h.attempt \in 1 .. attempt[c]
        /\ h.attempt = attempt[c] => /\ pending[c] = 0
                                     /\ pc[c] \in {"wait", "done"}
                                     /\ xpc[c] \notin BeforeInsert
                                     /\ promise[c] \notin Statuses

\* A request that was sent is one request, job or response at a time, until
\* its response is processed.
Outstanding(c) ==
    xpc[c] = "sent" /\ pc[c] \in {"wait", "done"} /\ promise[c] \notin Statuses

TokenInv(c) ==
    /\ \A m \in msgs : m.call = c => Outstanding(c)
    /\ \A p \in Peers : serving[p][c] # "none" => Outstanding(c)
    /\ \A m, n \in msgs : m.call = c /\ n.call = c => m = n
    /\ \A m \in msgs, p \in Peers : m.call = c => serving[p][c] = "none"
    /\ \A p, q \in Peers : serving[p][c] # "none" /\ serving[q][c] # "none"
                               => p = q

\* What has become of the request tells whether the service has run.
HasRun(c, status) ==
    /\ status = "OK" => executed[c] = 1
    /\ status \in {"BUSY", "GONE"} => executed[c] = 0

ExecutedInv(c) ==
    /\ executed[c] \in {0, 1}
    /\ pc[c] \in {"idle", "select", "issue"} => executed[c] = 0
    /\ xpc[c] \in BeforeInsert \cup {"send"} => executed[c] = 0
    /\ HasRun(c, promise[c])
    /\ HasRun(c, outer[c])
    /\ \A m \in msgs : m.call = c =>
           /\ m.type = "request" => executed[c] = 0
           /\ m.type = "response" => HasRun(c, m.status)
    /\ \A p \in Peers : /\ HasRun(c, serving[p][c])
                        /\ serving[p][c] \in {"query", "check"}
                               => executed[c] = 0
                        /\ serving[p][c] = "run" => executed[c] = 1

RetryInv(c) ==
    /\ attempt[c] <= MaxRetries + 1
    /\ pc[c] # "done" => outer[c] \in {"none", "unset"}
    /\ outer[c] = "BUSY" => attempt[c] = MaxRetries + 1
    /\ outer[c] \in Statuses => outer[c] = promise[c]

CallInv(c) ==
    /\ PendingInv(c) /\ JobInv(c) /\ MarkInv(c) /\ TakenInv(c)
    /\ TokenInv(c) /\ ExecutedInv(c) /\ RetryInv(c)

CallsInv == TypeOK /\ \A c \in Calls : CallInv(c)

=============================================================================
