------------------------------ MODULE TaskPool ------------------------------
(***************************************************************************)
(* What the worker pool of include/threadpool.h promises to its caller,    *)
(* with no semaphore and no lock: requests that were accepted are handed   *)
(* to idle workers one by one, in the order in which they were accepted,   *)
(* and nothing is accepted or handed out once the pool is closed.          *)
(***************************************************************************)
EXTENDS Naturals, Sequences

CONSTANTS Workers,      \* the worker threads
          Requests,     \* the request objects (connection slots)
          NoRequest,    \* what an idle worker runs
          MaxRequests   \* bound on the accepted requests that still wait

VARIABLES waiting,      \* accepted requests nobody works on yet, oldest first
          running,      \* the request each worker is processing
          closed        \* the pool takes and starts nothing any more

poolVars == <<waiting, running, closed>>

PoolInit ==
    /\ waiting = <<>>
    /\ running = [w \in Workers |-> NoRequest]
    /\ closed = FALSE

Accept(r) ==
    /\ ~closed
    /\ Len(waiting) < MaxRequests
    /\ waiting' = Append(waiting, r)
    /\ UNCHANGED <<running, closed>>

Start(w) ==
    /\ ~closed
    /\ waiting # <<>>
    /\ running[w] = NoRequest
    /\ running' = [running EXCEPT ![w] = Head(waiting)]
    /\ waiting' = Tail(waiting)
    /\ UNCHANGED closed

Finish(w) ==
    /\ running[w] # NoRequest
    /\ running' = [running EXCEPT ![w] = NoRequest]
    /\ UNCHANGED <<waiting, closed>>

Close ==
    /\ ~closed
    /\ closed' = TRUE
    /\ UNCHANGED <<waiting, running>>

PoolNext ==
    \/ \E r \in Requests : Accept(r)
    \/ \E w \in Workers : Start(w) \/ Finish(w)
    \/ Close

PoolSpec == PoolInit /\ [][PoolNext]_poolVars
=============================================================================
