----------------------------- MODULE ThreadPool -----------------------------
(***************************************************************************)
(* The worker pool (include/threadpool.h, semaphore of include/locker.h).  *)
(*                                                                         *)
(* One thread, the owner (main), constructs the pool, appends requests     *)
(* and destroys the pool.  m_queuelocker protects m_workqueue and m_stop:  *)
(* a critical section is one action.  The semaphore m_queuestat is touched *)
(* outside the lock, so the unlock-then-post of append() and the           *)
(* wait-then-lock of run() are two actions each.  A wait may also return   *)
(* without having taken a post (sem_wait interrupted by a signal): run()   *)
(* ignores the result and goes on to lock and to look at the queue.        *)
(***************************************************************************)
EXTENDS Naturals, Sequences, FiniteSets

CONSTANTS ThreadNumber,     \* m_thread_number
          MaxRequests,      \* m_max_requests
          Requests,         \* the objects that may be appended
          NoRequest,        \* a worker's local `request' outside process()
          MaxInterrupts     \* bound on interrupted waits in a behaviour

ASSUME PoolAssumption ==
    /\ ThreadNumber \in Nat \ {0}
    /\ MaxRequests \in Nat \ {0}
    /\ MaxInterrupts \in Nat
    /\ NoRequest \notin Requests

Workers == 1 .. ThreadNumber

VARIABLES
    m_workqueue,    \* requests accepted and not yet taken, oldest first
    m_queuestat,    \* value of the semaphore
    m_stop,         \* workers must leave
    pc,             \* where each worker thread is in run()
    request,        \* each worker's local variable while in process()
    owner,          \* where the owning thread is
    created,        \* number of threads pthread_create() has started
    posted,         \* number of wake-up posts the shutdown loop has made
    interrupts      \* interrupted waits so far

vars == <<m_workqueue, m_queuestat, m_stop, pc, request, owner, created,
          posted, interrupts>>

At(locs) == {w \in Workers : pc[w] \in locs}

TypeOK ==
    /\ m_workqueue \in Seq(Requests)
    /\ m_queuestat \in Nat
    /\ m_stop \in BOOLEAN
    /\ pc \in [Workers -> {"unborn", "wait", "woken", "process", "exited"}]
    /\ request \in [Workers -> Requests \cup {NoRequest}]
    /\ owner \in {"constructing", "running", "post", "stopping", "gone"}
    /\ created \in 0 .. ThreadNumber
    /\ posted \in 0 .. ThreadNumber
    /\ interrupts \in 0 .. MaxInterrupts

Init ==
    /\ m_workqueue = <<>>
    /\ m_queuestat = 0
    /\ m_stop = FALSE
    /\ pc = [w \in Workers |-> "unborn"]
    /\ request = [w \in Workers |-> NoRequest]
    /\ owner = "constructing"
    /\ created = 0
    /\ posted = 0
    /\ interrupts = 0

-----------------------------------------------------------------------------
\* The owner.

\* The constructor starts one more thread; the last one completes the pool.
CreateWorker ==
    /\ owner = "constructing"
    /\ created' = created + 1
    /\ pc' = [pc EXCEPT ![created + 1] = "wait"]
    /\ owner' = IF created + 1 = ThreadNumber THEN "running" ELSE owner
    /\ UNCHANGED <<m_workqueue, m_queuestat, m_stop, request, posted, interrupts>>

\* pthread_create() fails: the threads started so far are stopped, woken and
\* joined by the loops the destructor has too, then the constructor throws.
CreateFails ==
    /\ owner = "constructing"
    /\ m_stop' = TRUE
    /\ owner' = "stopping"
    /\ UNCHANGED <<m_workqueue, m_queuestat, pc, request, created, posted, interrupts>>

\* append() accepts under the lock; its post comes after the unlock.
QueueFull == Len(m_workqueue) >= MaxRequests

PushedFront(r) == <<r>> \o m_workqueue                      \* wrong variant
Pushed(r) == Append(m_workqueue, r)

AppendRequest(r) ==
    /\ owner = "running"
    /\ ~m_stop /\ ~QueueFull
    /\ m_workqueue' = Pushed(r)
    /\ owner' = "post"
    /\ UNCHANGED <<m_queuestat, m_stop, pc, request, created, posted, interrupts>>

\* Wrong variant: the post is made only when the semaphore is at zero.
PostRequestOnce ==
    /\ owner = "post"
    /\ m_queuestat' = 1
    /\ owner' = "running"
    /\ UNCHANGED <<m_workqueue, m_stop, pc, request, created, posted, interrupts>>

PostRequest ==
    /\ owner = "post"
    /\ m_queuestat' = m_queuestat + 1
    /\ owner' = "running"
    /\ UNCHANGED <<m_workqueue, m_stop, pc, request, created, posted, interrupts>>

Destroy ==
    /\ owner = "running"
    /\ m_stop' = TRUE
    /\ owner' = "stopping"
    /\ UNCHANGED <<m_workqueue, m_queuestat, pc, request, created, posted, interrupts>>

PostsLeftOffByOne == posted <= created                       \* wrong variant
PostsLeft == posted < created

\* Wrong variant: a single post is taken to wake every worker.
StopPostOnce ==
    /\ owner = "stopping"
    /\ PostsLeft
    /\ m_queuestat' = m_queuestat + 1
    /\ posted' = created
    /\ UNCHANGED <<m_workqueue, m_stop, pc, request, owner, created, interrupts>>

StopPost ==
    /\ owner = "stopping"
    /\ PostsLeft
    /\ m_queuestat' = m_queuestat + 1
    /\ posted' = posted + 1
    /\ UNCHANGED <<m_workqueue, m_stop, pc, request, owner, created, interrupts>>

\* Every started thread has been joined; m_threads is deleted.
FirstJoined == created > 0 => pc[1] = "exited"               \* wrong variant
AllJoined == \A w \in 1 .. created : pc[w] = "exited"

JoinAll ==
    /\ owner = "stopping"
    /\ posted = created
    /\ AllJoined
    /\ owner' = "gone"
    /\ UNCHANGED <<m_workqueue, m_queuestat, m_stop, pc, request, created, posted, interrupts>>

-----------------------------------------------------------------------------
\* A worker.

Wait(w) ==
    /\ pc[w] = "wait"
    /\ m_queuestat > 0
    /\ m_queuestat' = m_queuestat - 1
    /\ pc' = [pc EXCEPT ![w] = "woken"]
    /\ UNCHANGED <<m_workqueue, m_stop, request, owner, created, posted, interrupts>>

WaitInterrupted(w) ==
    /\ pc[w] = "wait"
    /\ interrupts < MaxInterrupts
    /\ interrupts' = interrupts + 1
    /\ pc' = [pc EXCEPT ![w] = "woken"]
    /\ UNCHANGED <<m_workqueue, m_queuestat, m_stop, request, owner, created, posted>>

\* Wrong variant: a worker that sees m_stop passes the post on and waits again.
PassStopOn(w) ==
    /\ pc[w] = "woken"
    /\ m_stop
    /\ m_queuestat' = m_queuestat + 1
    /\ pc' = [pc EXCEPT ![w] = "wait"]
    /\ UNCHANGED <<m_workqueue, m_stop, request, owner, created, posted, interrupts>>

ExitOnStop(w) ==
    /\ pc[w] = "woken"
    /\ m_stop
    /\ pc' = [pc EXCEPT ![w] = "exited"]
    /\ UNCHANGED <<m_workqueue, m_queuestat, m_stop, request, owner, created, posted, interrupts>>

FindEmpty(w) ==
    /\ pc[w] = "woken"
    /\ ~m_stop
    /\ m_workqueue = <<>>
    /\ pc' = [pc EXCEPT ![w] = "wait"]
    /\ UNCHANGED <<m_workqueue, m_queuestat, m_stop, request, owner, created, posted, interrupts>>

MayTakeAfterStop == m_workqueue # <<>>                       \* wrong variant
MayTake == ~m_stop /\ m_workqueue # <<>>

Take(w) ==
    /\ pc[w] = "woken"
    /\ MayTake
    /\ request' = [request EXCEPT ![w] = Head(m_workqueue)]
    /\ m_workqueue' = Tail(m_workqueue)
    /\ pc' = [pc EXCEPT ![w] = "process"]
    /\ UNCHANGED <<m_queuestat, m_stop, owner, created, posted, interrupts>>

\* request->process() returns.
Process(w) ==
    /\ pc[w] = "process"
    /\ request' = [request EXCEPT ![w] = NoRequest]
    /\ pc' = [pc EXCEPT ![w] = "wait"]
    /\ UNCHANGED <<m_workqueue, m_queuestat, m_stop, owner, created, posted, interrupts>>

-----------------------------------------------------------------------------
OwnerNext ==
    \/ CreateWorker \/ CreateFails
    \/ \E r \in Requests : AppendRequest(r)
    \/ PostRequest
    \/ Destroy \/ StopPost \/ JoinAll

WorkerNext(w) ==
    \/ Wait(w) \/ WaitInterrupted(w)
    \/ ExitOnStop(w) \/ FindEmpty(w) \/ Take(w) \/ Process(w)

\* The pool is gone: nothing is left to run.
Terminated == owner = "gone" /\ UNCHANGED vars

Next == OwnerNext \/ (\E w \in Workers : WorkerNext(w)) \/ Terminated

Spec == Init /\ [][Next]_vars

\* The scheduler runs every thread that can run, and process() returns.
\* Whether main ever appends, fails or destroys is left to it.
WorkerStep(w) == Wait(w) \/ ExitOnStop(w) \/ FindEmpty(w) \/ Take(w) \/ Process(w)

FairSpec ==
    /\ Spec
    /\ WF_vars(PostRequest) /\ WF_vars(StopPost) /\ WF_vars(JoinAll)
    /\ \A w \in Workers : WF_vars(WorkerStep(w))

-----------------------------------------------------------------------------
\* No wake-up is lost: while the pool is open, every queued request is matched
\* by a post a worker can still take, by a worker that was woken and has not
\* looked at the queue yet, or by the post append() is about to make.
PendingPost == IF owner = "post" THEN 1 ELSE 0

NoLostWakeup ==
    ~m_stop => Len(m_workqueue) <= m_queuestat + Cardinality(At({"woken"})) + PendingPost

\* The queue never holds more than m_max_requests entries.
QueueBound == Len(m_workqueue) <= MaxRequests

\* Shutdown wakes everyone: a thread that can still block in wait() is matched
\* by a post already made or by one the shutdown loop has still to make.
ShutdownWakesAll ==
    m_stop => Cardinality(At({"wait", "process"})) <= m_queuestat + (created - posted)

\* The pool object is freed only when no thread of it runs any more (the
\* destructor and the failing constructor join every thread they started).
JoinedBeforeGone ==
    owner = "gone" => \A w \in Workers : pc[w] \in {"unborn", "exited"}

\* An accepted request is processed, unless the pool is shut down first.
EveryRequestServed ==
    \A r \in Requests :
        (\E i \in DOMAIN m_workqueue : m_workqueue[i] = r)
            ~> (m_stop \/ \E w \in Workers : request[w] = r)

\* The destructor (and the failing constructor) returns: its joins terminate.
ShutdownTerminates == owner = "stopping" ~> owner = "gone"

Promise == INSTANCE TaskPool WITH
    waiting <- m_workqueue, running <- request, closed <- m_stop

\* The pool implements its abstract promise: requests are handed out in the
\* order of append(), one to each idle worker, and none after the stop.
ImplementsTaskPool == Promise!PoolSpec
=============================================================================
