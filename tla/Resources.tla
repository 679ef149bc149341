------------------------------ MODULE Resources ------------------------------
(***************************************************************************)
(* ThreadPoolResourceManager: loading functions in a queue, worker threads *)
(* that wait for them on a condition variable, and the destructor that     *)
(* ends the workers.  What a loader does is its own affair: it returns a   *)
(* resource or throws.  m_loading_queue_mutex is held between steps only   *)
(* by a worker that has found nothing and is about to wait.                *)
(***************************************************************************)
EXTENDS Naturals, Sequences, FiniteSets

CONSTANTS
    Loaders,     \* ids of loaders
    FileLoader,  \* the id used for a URI without one
    Requests,    \* calls of LoadResource
    Uri,         \* request -> [scheme, dir]; "" where the URI has none
    Pool         \* loading threads

ConstantsOK == IsFiniteSet(Pool)

VARIABLES
    registered,  \* m_registered_loaders
    queue,       \* m_loading_queue
    terminate,   \* m_terminate
    rpc,         \* where a loading thread is
    loading,     \* the function a loading thread executes
    promise,     \* what has become of a request
    mpc          \* the destructor

vars == <<registered, queue, terminate, rpc, loading, promise, mpc>>

NoUri == ""
Nothing == <<>>

Init ==
    /\ registered = {}
    /\ queue = <<>>
    /\ terminate = FALSE
    /\ rpc = [w \in Pool |-> "check"]
    /\ loading = [w \in Pool |-> Nothing]
    /\ promise = [r \in Requests |-> "none"]
    /\ mpc = "alive"

QueueIsFree == \A w \in Pool : rpc[w] # "wait"
Asleep == {w \in Pool : rpc[w] = "sleep"}

-----------------------------------------------------------------------------

\* A taken id is refused with an exception.
RegisterLoader(id) ==
    /\ mpc = "alive" /\ id \notin registered
    /\ registered' = registered \cup {id}
    /\ UNCHANGED <<queue, terminate, rpc, loading, promise, mpc>>

UnregisterLoader(id) ==
    /\ mpc = "alive"
    /\ registered' = registered \ {id}
    /\ UNCHANGED <<queue, terminate, rpc, loading, promise, mpc>>

\* find_first_of finds the first colon or slash: what is before it is taken
\* for the id of the loader, even if it is the directory of a path.
LoaderOf(uri) ==
    IF uri.scheme # NoUri THEN uri.scheme
    ELSE IF uri.dir # NoUri THEN uri.dir
    ELSE FileLoader

\* ResourceLoaderNotFound is thrown.
RejectLoad(r) ==
    /\ mpc = "alive" /\ promise[r] = "none"
    /\ LoaderOf(Uri[r]) \notin registered
    /\ promise' = [promise EXCEPT ![r] = "rejected"]
    /\ UNCHANGED <<registered, queue, terminate, rpc, loading, mpc>>

\* notify_one wakes one of the waiting threads, if there is one.
NotifyOne ==
    IF Asleep = {} THEN UNCHANGED rpc
    ELSE \E w \in Asleep : rpc' = [rpc EXCEPT ![w] = "check"]

\* Mutant: the function is pushed without the mutex of the queue.
LoadUnguarded(r) ==
    /\ mpc = "alive" /\ promise[r] = "none"
    /\ LoaderOf(Uri[r]) \in registered
    /\ queue' = Append(queue, <<r, LoaderOf(Uri[r])>>)
    /\ promise' = [promise EXCEPT ![r] = "pending"]
    /\ NotifyOne
    /\ UNCHANGED <<registered, terminate, loading, mpc>>

\* The loader is captured: it may be unregistered while the function waits.
LoadResource(r) ==
    /\ mpc = "alive" /\ promise[r] = "none"
    /\ LoaderOf(Uri[r]) \in registered
    /\ QueueIsFree
    /\ queue' = Append(queue, <<r, LoaderOf(Uri[r])>>)
    /\ promise' = [promise EXCEPT ![r] = "pending"]
    /\ NotifyOne
    /\ UNCHANGED <<registered, terminate, loading, mpc>>

-----------------------------------------------------------------------------
(* LoadResourcesWorker *)

\* The predicate of wait is evaluated under the mutex...
Check(w) ==
    /\ rpc[w] = "check" /\ QueueIsFree
    /\ IF terminate
       THEN /\ rpc' = [rpc EXCEPT ![w] = "gone"]
            /\ UNCHANGED <<queue, loading>>
       ELSE IF queue # <<>>
       THEN /\ loading' = [loading EXCEPT ![w] = Head(queue)]
            /\ queue' = Tail(queue)
            /\ rpc' = [rpc EXCEPT ![w] = "load"]
       ELSE /\ rpc' = [rpc EXCEPT ![w] = "wait"]
            /\ UNCHANGED <<queue, loading>>
    /\ UNCHANGED <<registered, terminate, promise, mpc>>

\* ... which is released as the thread begins to wait.
Sleep(w) ==
    /\ rpc[w] = "wait"
    /\ rpc' = [rpc EXCEPT ![w] = "sleep"]
    /\ UNCHANGED <<registered, queue, terminate, loading, promise, mpc>>

WakeUpSpuriously(w) ==
    /\ rpc[w] = "sleep"
    /\ rpc' = [rpc EXCEPT ![w] = "check"]
    /\ UNCHANGED <<registered, queue, terminate, loading, promise, mpc>>

FinishLoading(w) ==
    /\ rpc[w] = "load"
    /\ \E result \in {"value", "exception"} :
           promise' = [promise EXCEPT ![loading[w][1]] = result]
    /\ loading' = [loading EXCEPT ![w] = Nothing]
    /\ rpc' = [rpc EXCEPT ![w] = "check"]
    /\ UNCHANGED <<registered, queue, terminate, mpc>>

-----------------------------------------------------------------------------
(* The destructor; it does not take the mutex of the queue *)

Terminate ==
    /\ mpc = "alive"
    /\ terminate' = TRUE
    /\ mpc' = "notify"
    /\ UNCHANGED <<registered, queue, rpc, loading, promise>>

NotifyAll ==
    /\ mpc = "notify"
    /\ rpc' = [w \in Pool |-> IF rpc[w] = "sleep" THEN "check" ELSE rpc[w]]
    /\ mpc' = "join"
    /\ UNCHANGED <<registered, queue, terminate, loading, promise>>

\* The promises of what is left in the queue are broken.
Joined ==
    /\ mpc = "join"
    /\ \A w \in Pool : rpc[w] = "gone"
    /\ queue' = <<>>
    /\ promise' = [r \in Requests |->
           IF promise[r] = "pending" THEN "broken" ELSE promise[r]]
    /\ mpc' = "gone"
    /\ UNCHANGED <<registered, terminate, rpc, loading>>

Worker(w) == Check(w) \/ Sleep(w) \/ FinishLoading(w)
Destructor == NotifyAll \/ Joined

Next ==
    \/ \E id \in Loaders : RegisterLoader(id) \/ UnregisterLoader(id)
    \/ \E r \in Requests : RejectLoad(r) \/ LoadResource(r)
    \/ \E w \in Pool : Worker(w) \/ WakeUpSpuriously(w)
    \/ Terminate \/ Destructor

Spec == Init /\ [][Next]_vars

\* Threads run; that a wait ends by itself is not to be relied on.
FairSpec ==
    /\ Spec
    /\ WF_vars(Destructor)
    /\ \A w \in Pool : WF_vars(Worker(w))

-----------------------------------------------------------------------------
(* Properties *)

\* Every variable has its type.
TypeOK ==
    /\ registered \in SUBSET Loaders
    /\ queue \in Seq(Requests \X Loaders)
    /\ terminate \in BOOLEAN
    /\ rpc \in [Pool -> {"check", "wait", "sleep", "load", "gone"}]
    /\ loading \in [Pool -> (Requests \X Loaders) \cup {Nothing}]
    /\ promise \in [Requests -> {"none", "rejected", "pending", "value",
                                 "exception", "broken"}]
    /\ mpc \in {"alive", "notify", "join", "gone"}

\* No notification is lost: a loading thread sleeps, or is about to, only
\* while enough others are awake and idle to take everything that is queued,
\* so that no request waits for another one to be loaded first.
NoLoadIsForgotten ==
    ~terminate /\ (\E w \in Pool : rpc[w] \in {"wait", "sleep"})
        => Len(queue) <= Cardinality({w \in Pool : rpc[w] = "check"})

\* The destructor ends the loading threads and returns.
DestructorReturns == mpc = "notify" ~> mpc = "gone"

-----------------------------------------------------------------------------
(* The inductive invariant *)

ResourcesInv == TypeOK /\ NoLoadIsForgotten
=============================================================================
