-------------------------- MODULE ThreadPoolProofs --------------------------
(***************************************************************************)
(* Proofs about ThreadPool for every number of workers, every queue bound, *)
(* every set of requests and every number of interrupted waits.            *)
(***************************************************************************)
EXTENDS ThreadPool, FiniteSetTheorems, SequenceTheorems, TLAPS

-----------------------------------------------------------------------------
(* Counting the workers at some places of run().                           *)

\* The workers at some places are finitely many.
LEMMA AtIsFinite ==
    ASSUME NEW L
    PROVE  /\ IsFiniteSet(At(L))
           /\ Cardinality(At(L)) \in Nat
  <1>1. IsFiniteSet(Workers)
    BY PoolAssumption, FS_Interval DEF Workers
  <1>2. At(L) \in SUBSET Workers
    BY DEF At
  <1> QED
    BY <1>1, <1>2, FS_Subset, FS_CardinalityType

Moved(w, from, to) == pc[w] = from /\ pc' = [pc EXCEPT ![w] = to]

\* When one worker moves, the count of the places L changes by that worker.
LEMMA CountAfterMove ==
    ASSUME TypeOK, NEW w \in Workers, NEW x, NEW L,
           pc' = [pc EXCEPT ![w] = x]
    PROVE  Cardinality(At(L)') = Cardinality(At(L))
               + (IF x \in L THEN 1 ELSE 0) - (IF pc[w] \in L THEN 1 ELSE 0)
  <1>1. /\ IsFiniteSet(At(L))
        /\ Cardinality(At(L)) \in Nat
    BY AtIsFinite
  <1>2. w \in At(L) <=> pc[w] \in L
    BY DEF At
  <1>3. CASE x \in L
    <2>1. At(L)' = At(L) \cup {w}
      BY <1>3 DEF At, TypeOK
    <2>2. Cardinality(At(L) \cup {w}) =
              IF w \in At(L) THEN Cardinality(At(L)) ELSE Cardinality(At(L)) + 1
      BY <1>1, FS_AddElement
    <2> QED
      BY <1>1, <1>2, <1>3, <2>1, <2>2
  <1>4. CASE x \notin L
    <2>1. At(L)' = At(L) \ {w}
      BY <1>4 DEF At, TypeOK
    <2>2. Cardinality(At(L) \ {w}) =
              IF w \in At(L) THEN Cardinality(At(L)) - 1 ELSE Cardinality(At(L))
      BY <1>1, FS_RemoveElement
    <2> QED
      BY <1>1, <1>2, <1>4, <2>1, <2>2
  <1> QED
    BY <1>3, <1>4

Woken == Cardinality(At({"woken"}))
MayBlock == Cardinality(At({"wait", "process"}))

\* A move changes the number of woken workers at its two ends only.
LEMMA WokenAfterMove ==
    ASSUME TypeOK, NEW w \in Workers, NEW from, NEW to, Moved(w, from, to)
    PROVE  Woken' = Woken + (IF to = "woken" THEN 1 ELSE 0)
                          - (IF from = "woken" THEN 1 ELSE 0)
  <1> DEFINE L == {"woken"}
  <1>1. pc[w] = from /\ pc' = [pc EXCEPT ![w] = to]
    BY DEF Moved
  <1>2. Cardinality(At(L)') = Cardinality(At(L))
               + (IF to \in L THEN 1 ELSE 0) - (IF pc[w] \in L THEN 1 ELSE 0)
    <2> HIDE DEF L
    <2> QED
      BY <1>1, CountAfterMove
  <1> QED
    BY <1>1, <1>2 DEF Woken

\* The same for the workers that can still block in wait().
LEMMA MayBlockAfterMove ==
    ASSUME TypeOK, NEW w \in Workers, NEW from, NEW to, Moved(w, from, to)
    PROVE  MayBlock' = MayBlock + (IF to \in {"wait", "process"} THEN 1 ELSE 0)
                                - (IF from \in {"wait", "process"} THEN 1 ELSE 0)
  <1> DEFINE L == {"wait", "process"}
  <1>1. pc[w] = from /\ pc' = [pc EXCEPT ![w] = to]
    BY DEF Moved
  <1>2. Cardinality(At(L)') = Cardinality(At(L))
               + (IF to \in L THEN 1 ELSE 0) - (IF pc[w] \in L THEN 1 ELSE 0)
    <2> HIDE DEF L
    <2> QED
      BY <1>1, CountAfterMove
  <1> QED
    BY <1>1, <1>2 DEF MayBlock

\* No worker moves, no count changes.
LEMMA CountUnchanged ==
    ASSUME NEW L, pc' = pc
    PROVE  Cardinality(At(L)') = Cardinality(At(L))
  BY DEF At

-----------------------------------------------------------------------------
(* Structure: how the threads and their owner are related.                 *)

ThreadsMatchOwner ==
    /\ \A w \in Workers : pc[w] = "unborn" <=> w > created
    /\ owner = "constructing" => created < ThreadNumber
    /\ m_stop <=> owner \in {"stopping", "gone"}
    /\ posted <= created
    /\ ~m_stop => posted = 0

LocalRequest ==
    \A w \in Workers : IF pc[w] = "process" THEN request[w] \in Requests
                                            ELSE request[w] = NoRequest

StructInv == TypeOK /\ ThreadsMatchOwner /\ LocalRequest /\ JoinedBeforeGone /\ QueueBound

\* The constructor starts with no thread, no request and an open pool.
LEMMA InitStruct == Init => StructInv
  <1> SUFFICES ASSUME Init PROVE StructInv
    OBVIOUS
  <1> USE PoolAssumption
  <1>1. TypeOK
    <2>1. m_workqueue \in Seq(Requests) /\ m_queuestat \in Nat
      BY DEF Init
    <2>7. m_stop \in BOOLEAN
      BY DEF Init
    <2>2. pc \in [Workers -> {"unborn", "wait", "woken", "process", "exited"}]
      BY DEF Init
    <2>3. request \in [Workers -> Requests \cup {NoRequest}]
      BY DEF Init
    <2>4. owner \in {"constructing", "running", "post", "stopping", "gone"}
      BY DEF Init
    <2>5. created \in 0 .. ThreadNumber /\ posted \in 0 .. ThreadNumber
      BY DEF Init
    <2>6. interrupts \in 0 .. MaxInterrupts
      BY DEF Init
    <2> QED
      BY <2>1, <2>2, <2>3, <2>4, <2>5, <2>6, <2>7 DEF TypeOK
  <1>2. ThreadsMatchOwner /\ LocalRequest /\ JoinedBeforeGone /\ QueueBound
    BY DEF Init, ThreadsMatchOwner, LocalRequest, JoinedBeforeGone, QueueBound, Workers
  <1> QED
    BY <1>1, <1>2 DEF StructInv

\* One step per action that changes a variable in a way of its own.
LEMMA TypeStep == StructInv /\ [Next]_vars => TypeOK'
  <1> SUFFICES ASSUME StructInv, [Next]_vars PROVE TypeOK'
    OBVIOUS
  <1> USE PoolAssumption DEF StructInv, TypeOK
  <1>1. CASE CreateWorker
    <2>1. created + 1 \in 1 .. ThreadNumber
      BY <1>1 DEF CreateWorker, ThreadsMatchOwner
    <2>2. pc' \in [Workers -> {"unborn", "wait", "woken", "process", "exited"}]
      BY <1>1 DEF CreateWorker
    <2>3. created' \in 0 .. ThreadNumber
      BY <1>1, <2>1 DEF CreateWorker
    <2> QED
      BY <1>1, <2>2, <2>3 DEF CreateWorker
  <1>2. CASE CreateFails \/ Destroy \/ JoinAll \/ PostRequest
    <2>1. m_stop' \in BOOLEAN
      BY <1>2 DEF CreateFails, Destroy, JoinAll, PostRequest
    <2> QED
      BY <1>2, <2>1 DEF CreateFails, Destroy, JoinAll, PostRequest
  <1>3. CASE StopPost
    BY <1>3 DEF StopPost, PostsLeft
  <1>4. ASSUME NEW r \in Requests, AppendRequest(r) PROVE TypeOK'
    <2>1. Pushed(r) \in Seq(Requests)
      BY DEF Pushed
    <2> QED
      BY <1>4, <2>1 DEF AppendRequest
  <1>5. ASSUME NEW w \in Workers, WorkerNext(w) PROVE TypeOK'
    <2>1. CASE Wait(w)
      BY <2>1 DEF Wait
    <2>2. CASE WaitInterrupted(w)
      BY <2>2 DEF WaitInterrupted
    <2>3. CASE ExitOnStop(w) \/ FindEmpty(w) \/ Process(w)
      BY <2>3 DEF ExitOnStop, FindEmpty, Process
    <2>4. CASE Take(w)
      <3>1. m_workqueue # <<>>
        BY <2>4 DEF Take, MayTake
      <3>2. Head(m_workqueue) \in Requests /\ Tail(m_workqueue) \in Seq(Requests)
        BY <3>1, HeadTailProperties
      <3> QED
        BY <2>4, <3>2 DEF Take
    <2> QED
      BY <1>5, <2>1, <2>2, <2>3, <2>4 DEF WorkerNext
  <1>6. CASE UNCHANGED vars
    BY <1>6 DEF vars
  <1> QED
    BY <1>1, <1>2, <1>3, <1>4, <1>5, <1>6 DEF Next, OwnerNext, Terminated

\* Threads are created one by one, and joined all before the pool is gone.
LEMMA ThreadsStep == StructInv /\ [Next]_vars => ThreadsMatchOwner'
  <1> SUFFICES ASSUME StructInv, [Next]_vars PROVE ThreadsMatchOwner'
    OBVIOUS
  <1> USE PoolAssumption DEF StructInv, TypeOK, ThreadsMatchOwner
  <1>1. CASE CreateWorker
    <2>1. created + 1 \in Workers
      BY <1>1 DEF CreateWorker, Workers
    <2>2. \A w \in Workers : pc'[w] = "unborn" <=> w > created'
      BY <1>1, <2>1 DEF CreateWorker, Workers
    <2>3. m_stop' <=> owner' \in {"stopping", "gone"}
      BY <1>1 DEF CreateWorker
    <2>4. posted' = 0
      BY <1>1 DEF CreateWorker
    <2>5. owner' = "constructing" => created' < ThreadNumber
      BY <1>1 DEF CreateWorker
    <2> QED
      BY <1>1, <2>2, <2>3, <2>4, <2>5 DEF CreateWorker
  <1>2. CASE CreateFails \/ Destroy \/ JoinAll \/ PostRequest
    <2>1. m_stop' <=> owner' \in {"stopping", "gone"}
      BY <1>2 DEF CreateFails, Destroy, JoinAll, PostRequest
    <2>2. ~m_stop' => ~m_stop
      BY <1>2 DEF CreateFails, Destroy, JoinAll, PostRequest
    <2> QED
      BY <1>2, <2>1, <2>2 DEF CreateFails, Destroy, JoinAll, PostRequest
  <1>3. CASE StopPost
    <2>1. m_stop' /\ (m_stop' <=> owner' \in {"stopping", "gone"})
      BY <1>3 DEF StopPost
    <2> QED
      BY <1>3, <2>1 DEF StopPost, PostsLeft
  <1>4. ASSUME NEW r \in Requests, AppendRequest(r) PROVE ThreadsMatchOwner'
    BY <1>4 DEF AppendRequest
  <1>5. ASSUME NEW w \in Workers, WorkerNext(w) PROVE ThreadsMatchOwner'
    <2>1. UNCHANGED <<owner, created, posted, m_stop>>
      BY <1>5 DEF WorkerNext, Wait, WaitInterrupted, ExitOnStop, FindEmpty, Take, Process
    <2>2. \A v \in Workers : pc'[v] = "unborn" <=> pc[v] = "unborn"
      BY <1>5 DEF WorkerNext, Wait, WaitInterrupted, ExitOnStop, FindEmpty, Take, Process
    <2> QED
      BY <2>1, <2>2
  <1>6. CASE UNCHANGED vars
    BY <1>6 DEF vars
  <1> QED
    BY <1>1, <1>2, <1>3, <1>4, <1>5, <1>6 DEF Next, OwnerNext, Terminated

\* A worker holds a request exactly while it is in process().
LEMMA LocalStep == StructInv /\ [Next]_vars => LocalRequest'
  <1> SUFFICES ASSUME StructInv, [Next]_vars PROVE LocalRequest'
    OBVIOUS
  <1> USE PoolAssumption DEF StructInv, TypeOK, LocalRequest
  <1>1. CASE CreateWorker
    <2>1. created + 1 \in Workers /\ pc[created + 1] = "unborn"
      BY <1>1 DEF CreateWorker, ThreadsMatchOwner, Workers
    <2> QED
      BY <1>1, <2>1 DEF CreateWorker
  <1>2. CASE UNCHANGED <<pc, request>>
    BY <1>2
  <1>3. ASSUME NEW w \in Workers, WorkerNext(w) PROVE LocalRequest'
    <2>1. CASE Wait(w) \/ WaitInterrupted(w) \/ ExitOnStop(w) \/ FindEmpty(w)
      BY <2>1 DEF Wait, WaitInterrupted, ExitOnStop, FindEmpty
    <2>2. CASE Process(w)
      BY <2>2 DEF Process
    <2>3. CASE Take(w)
      <3>1. m_workqueue # <<>>
        BY <2>3 DEF Take, MayTake
      <3>2. Head(m_workqueue) \in Requests
        BY <3>1, HeadTailProperties
      <3> QED
        BY <2>3, <3>2 DEF Take
    <2> QED
      BY <1>3, <2>1, <2>2, <2>3 DEF WorkerNext
  <1> QED
    BY <1>1, <1>2, <1>3 DEF Next, OwnerNext, Terminated, CreateFails, AppendRequest,
       PostRequest, Destroy, StopPost, JoinAll, vars

\* Only a finished join makes the pool go, and no thread comes after it.
LEMMA JoinedStep == StructInv /\ [Next]_vars => JoinedBeforeGone'
  <1> SUFFICES ASSUME StructInv, [Next]_vars, owner' = "gone"
               PROVE  \A w \in Workers : pc'[w] \in {"unborn", "exited"}
    BY DEF JoinedBeforeGone
  <1> USE PoolAssumption DEF StructInv, TypeOK
  <1>1. CASE JoinAll
    BY <1>1 DEF JoinAll, AllJoined, ThreadsMatchOwner, Workers
  <1>2. CASE owner = "gone"
    <2>1. ASSUME NEW w \in Workers PROVE ~WorkerNext(w)
      <3>1. pc[w] \in {"unborn", "exited"}
        BY <1>2 DEF JoinedBeforeGone
      <3> QED
        BY <3>1 DEF WorkerNext, Wait, WaitInterrupted, ExitOnStop, FindEmpty, Take, Process
    <2>2. ~OwnerNext
      BY <1>2 DEF OwnerNext, CreateWorker, CreateFails, AppendRequest, PostRequest,
         Destroy, StopPost, JoinAll
    <2>3. UNCHANGED vars
      BY <2>1, <2>2 DEF Next, Terminated
    <2> QED
      BY <1>2, <2>3 DEF vars, JoinedBeforeGone
  <1>3. owner = "gone" \/ JoinAll
    BY DEF Next, OwnerNext, WorkerNext, Terminated, vars, CreateWorker, CreateFails,
       AppendRequest, PostRequest, Destroy, StopPost, Wait, WaitInterrupted,
       ExitOnStop, FindEmpty, Take, Process
  <1> QED
    BY <1>1, <1>2, <1>3

\* append() alone makes the queue longer, and it looks at the bound.
LEMMA BoundStep == StructInv /\ [Next]_vars => QueueBound'
  <1> SUFFICES ASSUME StructInv, [Next]_vars PROVE QueueBound'
    OBVIOUS
  <1> USE PoolAssumption DEF StructInv, TypeOK, QueueBound
  <1>1. ASSUME NEW r \in Requests, AppendRequest(r) PROVE QueueBound'
    <2>1. Len(m_workqueue) \in Nat /\ Len(m_workqueue) < MaxRequests
      BY <1>1 DEF AppendRequest, QueueFull
    <2>2. Len(Append(m_workqueue, r)) = Len(m_workqueue) + 1
      OBVIOUS
    <2> QED
      BY <1>1, <2>1, <2>2 DEF AppendRequest, Pushed
  <1>2. ASSUME NEW w \in Workers, Take(w) PROVE QueueBound'
    <2>1. m_workqueue # <<>> /\ m_workqueue' = Tail(m_workqueue)
      BY <1>2 DEF Take, MayTake
    <2>2. Len(Tail(m_workqueue)) = Len(m_workqueue) - 1 /\ Len(m_workqueue) \in Nat
      BY <2>1, HeadTailProperties
    <2> QED
      BY <2>1, <2>2
  <1>3. CASE UNCHANGED m_workqueue
    BY <1>3
  <1> QED
    BY <1>1, <1>2, <1>3 DEF Next, OwnerNext, WorkerNext, Terminated, vars, CreateWorker,
       CreateFails, PostRequest, Destroy, StopPost, JoinAll, Wait, WaitInterrupted,
       ExitOnStop, FindEmpty, Process

\* The structural invariant is inductive.
LEMMA StructAlways == Spec => []StructInv
  <1>1. StructInv /\ [Next]_vars => StructInv'
    BY TypeStep, ThreadsStep, LocalStep, JoinedStep, BoundStep DEF StructInv
  <1> QED
    BY <1>1, InitStruct, PTL DEF Spec

\* Every variable keeps its type in every behaviour of the pool.
THEOREM TypeCorrect == Spec => []TypeOK
  BY StructAlways, PTL DEF StructInv

\* The queue never exceeds m_max_requests, which append() tests under the lock.
THEOREM QueueIsBounded == Spec => []QueueBound
  BY StructAlways, PTL DEF StructInv

\* The pool's memory is released only after every thread of it has ended.
THEOREM GoneOnlyAfterJoin == Spec => []JoinedBeforeGone
  BY StructAlways, PTL DEF StructInv

-----------------------------------------------------------------------------
(* No wake-up is lost: one step per action that moves a post, a request or *)
(* a worker.                                                               *)

\* Whatever takes a post or a woken worker away took a request or found none.
LEMMA WakeupStep == StructInv /\ NoLostWakeup /\ [Next]_vars => NoLostWakeup'
  <1> SUFFICES ASSUME StructInv, NoLostWakeup, [Next]_vars, ~m_stop'
               PROVE  (Len(m_workqueue) <=
                       m_queuestat + Woken + PendingPost)'
    BY DEF NoLostWakeup, Woken
  <1> DEFINE Goal == (Len(m_workqueue) <= m_queuestat + Woken + PendingPost)'
  <1> USE DEF StructInv
  <1>0. /\ Woken \in Nat
        /\ m_queuestat \in Nat
        /\ m_workqueue \in Seq(Requests) /\ Len(m_workqueue) \in Nat
    BY AtIsFinite DEF TypeOK, Woken
  <1>1. ~m_stop
    BY DEF ThreadsMatchOwner, Next, OwnerNext, WorkerNext, Terminated, vars, CreateWorker,
       CreateFails, AppendRequest, PostRequest, Destroy, StopPost, JoinAll, Wait,
       WaitInterrupted, ExitOnStop, FindEmpty, Take, Process
  <1>2. Len(m_workqueue) <= m_queuestat + Woken + PendingPost
    BY <1>1 DEF NoLostWakeup, Woken
  <1>3. CASE CreateWorker
    <2>1. created + 1 \in Workers /\ pc[created + 1] = "unborn"
      BY <1>3, PoolAssumption DEF CreateWorker, ThreadsMatchOwner, Workers, TypeOK
    <2>2. Woken' = Woken
      <3>1. Moved(created + 1, "unborn", "wait")
        BY <1>3, <2>1 DEF CreateWorker, Moved
      <3> QED
        BY <1>0, <2>1, <3>1, WokenAfterMove
    <2>3. PendingPost' = 0 /\ PendingPost = 0
      BY <1>3 DEF CreateWorker, PendingPost
    <2> QED
      BY <1>0, <1>2, <1>3, <2>2, <2>3 DEF CreateWorker
  <1>4. ASSUME NEW r \in Requests, AppendRequest(r) PROVE Goal
    <2>1. Len(m_workqueue') = Len(m_workqueue) + 1
      BY <1>0, <1>4 DEF AppendRequest, Pushed
    <2>2. PendingPost' = 1 /\ PendingPost = 0
      BY <1>4 DEF AppendRequest, PendingPost
    <2>3. Woken' = Woken /\ m_queuestat' = m_queuestat
      BY <1>4, CountUnchanged DEF Woken, AppendRequest
    <2> QED
      BY <1>0, <1>2, <2>1, <2>2, <2>3
  <1>5. CASE PostRequest
    <2>1. PendingPost' = 0 /\ PendingPost = 1
      BY <1>5 DEF PostRequest, PendingPost
    <2>2. Woken' = Woken
      BY <1>5, CountUnchanged DEF Woken, PostRequest
    <2> QED
      BY <1>0, <1>2, <1>5, <2>1, <2>2 DEF PostRequest
  <1>6. ASSUME NEW w \in Workers, Wait(w) PROVE Goal
    <2>1. Woken' = Woken + 1
      <3>1. Moved(w, "wait", "woken")
        BY <1>6 DEF Wait, Moved
      <3>2. Woken' = Woken + (IF "woken" = "woken" THEN 1 ELSE 0) - (IF "wait" = "woken" THEN 1 ELSE 0)
        BY <3>1, WokenAfterMove
      <3> QED
        BY <1>0, <3>2
    <2>2. PendingPost' = PendingPost /\ PendingPost \in Nat
      BY <1>6 DEF Wait, PendingPost
    <2> QED
      BY <1>0, <1>2, <1>6, <2>1, <2>2 DEF Wait
  <1>7. ASSUME NEW w \in Workers, WaitInterrupted(w) PROVE Goal
    <2>1. Woken' = Woken + 1
      <3>1. Moved(w, "wait", "woken")
        BY <1>7 DEF WaitInterrupted, Moved
      <3>2. Woken' = Woken + (IF "woken" = "woken" THEN 1 ELSE 0) - (IF "wait" = "woken" THEN 1 ELSE 0)
        BY <3>1, WokenAfterMove
      <3> QED
        BY <1>0, <3>2
    <2>2. PendingPost' = PendingPost /\ PendingPost \in Nat
      BY <1>7 DEF WaitInterrupted, PendingPost
    <2> QED
      BY <1>0, <1>2, <1>7, <2>1, <2>2 DEF WaitInterrupted
  <1>8. ASSUME NEW w \in Workers, FindEmpty(w) PROVE Goal
    <2>1. Woken' = Woken - 1
      <3>1. Moved(w, "woken", "wait")
        BY <1>8 DEF FindEmpty, Moved
      <3>2. Woken' = Woken + (IF "wait" = "woken" THEN 1 ELSE 0) - (IF "woken" = "woken" THEN 1 ELSE 0)
        BY <3>1, WokenAfterMove
      <3> QED
        BY <1>0, <3>2
    <2>2. Len(m_workqueue') = 0
      BY <1>8 DEF FindEmpty
    <2>3. PendingPost' \in Nat /\ Woken' \in Nat /\ m_queuestat' \in Nat
      <3>1. pc[w] = "woken" /\ w \in At({"woken"})
        BY <1>8 DEF FindEmpty, At
      <3>2. Woken # 0
        BY <3>1, AtIsFinite, FS_EmptySet DEF Woken
      <3> QED
        BY <1>0, <1>8, <2>1, <3>2 DEF FindEmpty, PendingPost
    <2>4. \A a, b, c \in Nat : 0 <= a + b + c
      OBVIOUS
    <2>5. 0 <= m_queuestat' + Woken' + PendingPost'
      BY <2>3, <2>4
    <2> QED
      BY <2>2, <2>5
  <1>9. ASSUME NEW w \in Workers, Take(w) PROVE Goal
    <2>1. Woken' = Woken - 1
      <3>1. Moved(w, "woken", "process")
        BY <1>9 DEF Take, Moved
      <3>2. Woken' = Woken + (IF "process" = "woken" THEN 1 ELSE 0) - (IF "woken" = "woken" THEN 1 ELSE 0)
        BY <3>1, WokenAfterMove
      <3> QED
        BY <1>0, <3>2
    <2>2. Len(m_workqueue') = Len(m_workqueue) - 1
      BY <1>0, <1>9, HeadTailProperties DEF Take, MayTake
    <2>3. PendingPost' = PendingPost /\ PendingPost \in Nat
      BY <1>9 DEF Take, PendingPost
    <2> QED
      BY <1>0, <1>2, <1>9, <2>1, <2>2, <2>3 DEF Take
  <1>10. ASSUME NEW w \in Workers, Process(w) PROVE Goal
    <2>1. Woken' = Woken
      <3>1. Moved(w, "process", "wait")
        BY <1>10 DEF Process, Moved
      <3>2. Woken' = Woken + (IF "wait" = "woken" THEN 1 ELSE 0) - (IF "process" = "woken" THEN 1 ELSE 0)
        BY <3>1, WokenAfterMove
      <3> QED
        BY <1>0, <3>2
    <2>2. PendingPost' = PendingPost /\ PendingPost \in Nat
      BY <1>10 DEF Process, PendingPost
    <2> QED
      BY <1>0, <1>2, <1>10, <2>1, <2>2 DEF Process
  <1>11. CASE UNCHANGED vars
    BY <1>0, <1>2, <1>11, CountUnchanged DEF Woken, vars, PendingPost
  <1> QED
    BY <1>1, <1>3, <1>4, <1>5, <1>6, <1>7, <1>8, <1>9, <1>10, <1>11
    DEF Next, OwnerNext, WorkerNext, Terminated, CreateFails, Destroy, StopPost, JoinAll,
        ExitOnStop, ThreadsMatchOwner

\* Every queued request is matched by a post, a woken worker or a pending post.
THEOREM NoWakeupIsLost == Spec => []NoLostWakeup
  <1>1. Init => NoLostWakeup
    <2> SUFFICES ASSUME Init PROVE NoLostWakeup
      OBVIOUS
    <2>1. Len(m_workqueue) = 0 /\ m_queuestat = 0
      BY DEF Init
    <2> QED
      BY <2>1, AtIsFinite DEF NoLostWakeup, PendingPost
  <1> QED
    BY <1>1, WakeupStep, StructAlways, PTL DEF Spec

-----------------------------------------------------------------------------
(* Shutdown wakes every thread that can still block.                       *)

\* No more threads can block than were created.
LEMMA WorkersBound == StructInv => MayBlock <= created /\ MayBlock \in Nat
  <1> SUFFICES ASSUME StructInv PROVE MayBlock <= created /\ MayBlock \in Nat
    OBVIOUS
  <1>1. At({"wait", "process"}) \in SUBSET (1 .. created)
    BY PoolAssumption DEF At, StructInv, TypeOK, ThreadsMatchOwner, Workers
  <1>2. created \in Nat /\ IsFiniteSet(1 .. created) /\ Cardinality(1 .. created) = created
    BY PoolAssumption, FS_Interval DEF StructInv, TypeOK
  <1> QED
    BY <1>1, <1>2, FS_Subset, AtIsFinite DEF MayBlock

\* A post that a thread consumes releases that thread for good.
LEMMA ShutdownStep == StructInv /\ ShutdownWakesAll /\ [Next]_vars => ShutdownWakesAll'
  <1> SUFFICES ASSUME StructInv, ShutdownWakesAll, [Next]_vars, m_stop'
               PROVE  (MayBlock <= m_queuestat + (created - posted))'
    BY DEF ShutdownWakesAll, MayBlock
  <1> DEFINE Goal == (MayBlock <= m_queuestat + (created - posted))'
  <1> USE DEF StructInv
  <1>0. /\ MayBlock \in Nat /\ MayBlock <= created
        /\ m_queuestat \in Nat /\ created \in Nat /\ posted \in Nat
    BY WorkersBound, PoolAssumption DEF TypeOK
  <1>1. m_stop => MayBlock <= m_queuestat + (created - posted)
    BY DEF ShutdownWakesAll, MayBlock
  <1>2. CASE Destroy \/ CreateFails
    <2>1. ~m_stop
      BY <1>2 DEF Destroy, CreateFails, ThreadsMatchOwner
    <2>2. posted = 0
      BY <2>1 DEF ThreadsMatchOwner
    <2>3. MayBlock' = MayBlock /\ UNCHANGED <<m_queuestat, created, posted>>
      BY <1>2, CountUnchanged DEF Destroy, CreateFails, MayBlock
    <2> QED
      BY <1>0, <2>2, <2>3
  <1>3. CASE StopPost
    <2>1. m_stop
      BY <1>3 DEF StopPost, ThreadsMatchOwner
    <2>2. MayBlock' = MayBlock
      BY <1>3, CountUnchanged DEF StopPost, MayBlock
    <2> QED
      BY <1>0, <1>1, <1>3, <2>1, <2>2 DEF StopPost
  <1>4. CASE JoinAll
    <2>1. m_stop
      BY <1>4 DEF JoinAll, ThreadsMatchOwner
    <2>2. MayBlock' = MayBlock
      BY <1>4, CountUnchanged DEF JoinAll, MayBlock
    <2> QED
      BY <1>0, <1>1, <1>4, <2>1, <2>2 DEF JoinAll
  <1>5. ASSUME NEW w \in Workers, WorkerNext(w) PROVE Goal
    <2>0. m_stop
      BY <1>5 DEF WorkerNext, Wait, WaitInterrupted, ExitOnStop, FindEmpty, Take, Process
    <2>1. CASE Wait(w)
      <3>1. Moved(w, "wait", "woken")
        BY <2>1 DEF Wait, Moved
      <3>2. MayBlock' = MayBlock + (IF "woken" \in {"wait", "process"} THEN 1 ELSE 0)
                                 - (IF "wait" \in {"wait", "process"} THEN 1 ELSE 0)
        BY <3>1, MayBlockAfterMove
      <3> QED
        BY <1>0, <1>1, <2>0, <2>1, <3>2 DEF Wait
    <2>2. CASE WaitInterrupted(w)
      <3>1. Moved(w, "wait", "woken")
        BY <2>2 DEF WaitInterrupted, Moved
      <3>2. MayBlock' = MayBlock + (IF "woken" \in {"wait", "process"} THEN 1 ELSE 0)
                                 - (IF "wait" \in {"wait", "process"} THEN 1 ELSE 0)
        BY <3>1, MayBlockAfterMove
      <3> QED
        BY <1>0, <1>1, <2>0, <2>2, <3>2 DEF WaitInterrupted
    <2>3. CASE ExitOnStop(w)
      <3>1. Moved(w, "woken", "exited")
        BY <2>3 DEF ExitOnStop, Moved
      <3>2. MayBlock' = MayBlock + (IF "exited" \in {"wait", "process"} THEN 1 ELSE 0)
                                 - (IF "woken" \in {"wait", "process"} THEN 1 ELSE 0)
        BY <3>1, MayBlockAfterMove
      <3> QED
        BY <1>0, <1>1, <2>0, <2>3, <3>2 DEF ExitOnStop
    <2>4. CASE Process(w)
      <3>1. Moved(w, "process", "wait")
        BY <2>4 DEF Process, Moved
      <3>2. MayBlock' = MayBlock + (IF "wait" \in {"wait", "process"} THEN 1 ELSE 0)
                                 - (IF "process" \in {"wait", "process"} THEN 1 ELSE 0)
        BY <3>1, MayBlockAfterMove
      <3> QED
        BY <1>0, <1>1, <2>0, <2>4, <3>2 DEF Process
    <2> QED
      BY <1>5, <2>0, <2>1, <2>2, <2>3, <2>4 DEF WorkerNext, FindEmpty, Take, MayTake
  <1>6. CASE UNCHANGED vars
    BY <1>0, <1>1, <1>6, CountUnchanged DEF vars, MayBlock
  <1> QED
    BY <1>2, <1>3, <1>4, <1>5, <1>6 DEF Next, OwnerNext, Terminated, CreateWorker,
       AppendRequest, PostRequest, ThreadsMatchOwner

\* After the stop, every thread that can block has a post that will release it.
THEOREM ShutdownReachesEveryWorker == Spec => []ShutdownWakesAll
  <1>1. Init => ShutdownWakesAll
    BY DEF Init, ShutdownWakesAll
  <1> QED
    BY <1>1, ShutdownStep, StructAlways, PTL DEF Spec

-----------------------------------------------------------------------------
(* Refinement of TaskPool.                                                 *)

\* A new pool is an empty, open TaskPool.
LEMMA InitRefines == Init => Promise!PoolInit
  BY DEF Init, Promise!PoolInit

\* append(), take, process() and the stop are its actions; the rest stutters.
LEMMA StepRefines == StructInv /\ [Next]_vars => [Promise!PoolNext]_(Promise!poolVars)
  <1> SUFFICES ASSUME StructInv, [Next]_vars
               PROVE  Promise!PoolNext \/ UNCHANGED Promise!poolVars
    OBVIOUS
  <1> USE PoolAssumption DEF StructInv, Promise!poolVars
  <1>1. ASSUME NEW r \in Requests, AppendRequest(r) PROVE Promise!Accept(r)
    <2>1. Len(m_workqueue) < MaxRequests
      BY <1>1 DEF AppendRequest, QueueFull, TypeOK
    <2> QED
      BY <1>1, <2>1 DEF AppendRequest, Pushed, Promise!Accept
  <1>2. ASSUME NEW w \in Workers, Take(w) PROVE Promise!Start(w)
    BY <1>2 DEF Take, MayTake, Promise!Start, LocalRequest
  <1>3. ASSUME NEW w \in Workers, Process(w) PROVE Promise!Finish(w)
    BY <1>3 DEF Process, Promise!Finish, LocalRequest
  <1>4. ASSUME CreateFails \/ Destroy PROVE Promise!Close
    BY <1>4 DEF CreateFails, Destroy, Promise!Close, ThreadsMatchOwner
  <1> QED
    BY <1>1, <1>2, <1>3, <1>4 DEF Next, OwnerNext, WorkerNext, Terminated, vars,
       CreateWorker, PostRequest, StopPost, JoinAll, Wait, WaitInterrupted, ExitOnStop,
       FindEmpty, Promise!PoolNext

\* The pool with its semaphore, its lock and its shutdown implements TaskPool.
THEOREM PoolRefinesTaskPool == Spec => ImplementsTaskPool
  BY InitRefines, StepRefines, StructAlways, PTL
  DEF Spec, ImplementsTaskPool, Promise!PoolSpec
=============================================================================
