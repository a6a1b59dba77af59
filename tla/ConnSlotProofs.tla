--------------------------- MODULE ConnSlotProofs ---------------------------
(***************************************************************************)
(* Proofs about ConnSlot for every number of workers, connections, places  *)
(* in the pool's queue and sends of a peer.                                *)
(***************************************************************************)
EXTENDS ConnSlot, FiniteSetTheorems, TLAPS

-----------------------------------------------------------------------------
(* Types.                                                                  *)

Places == {"idle", "init"} \cup Serving \cup Closing
MainPlaces == {"idle", "init"} \cup Closing
WorkerPlaces == {"idle"} \cup Serving \cup Closing

ThreadsOK ==
    /\ at \in [Threads -> Places]
    /\ at[main] \in MainPlaces
    /\ \A w \in Workers : at[w] \in WorkerPlaces

\* A worker that starts a stream serves a stream request and has not enqueued
\* more than its headers: what keeps job and part inside their types.
Starting == {"start", "enqueue", "notify"}
StreamJob ==
    \A w \in Workers :
        /\ at[w] \in Starting \cup {"add", "count"} => job[w] \in StreamKinds
        /\ at[w] \in Starting => part[w] <= Headers(job[w])

SlotTypes == TypeOK /\ StreamJob

\* A thread that goes to a place of its own keeps every thread at its places.
LEMMA GotoKeepsPlaces ==
    ASSUME TypeOK, NEW t \in Threads, NEW x, Goto(t, x),
           t = main => x \in MainPlaces,
           t \in Workers => x \in WorkerPlaces
    PROVE  ThreadsOK'
  <1> USE SlotAssumption
  <1>1. x \in Places
    BY DEF Threads, Places, MainPlaces, WorkerPlaces
  <1>2. at' \in [Threads -> Places]
    BY <1>1 DEF TypeOK, Goto, Places
  <1>3. at'[main] \in MainPlaces
    BY DEF TypeOK, Goto, MainPlaces, Threads
  <1>4. ASSUME NEW w \in Workers PROVE at'[w] \in WorkerPlaces
    BY DEF TypeOK, Goto, WorkerPlaces, Threads
  <1> QED
    BY <1>2, <1>3, <1>4 DEF ThreadsOK

LEMMA ThreadsOKInTypes == TypeOK => ThreadsOK
  BY DEF TypeOK, ThreadsOK, Threads, Places, MainPlaces, WorkerPlaces

\* Where the threads are: no step leaves their places.
LEMMA ThreadsStep == TypeOK /\ [Next]_vars => ThreadsOK'
  <1> SUFFICES ASSUME TypeOK, [Next]_vars PROVE ThreadsOK'
    OBVIOUS
  <1> USE SlotAssumption
  <1>1. CASE at' = at
    BY <1>1, ThreadsOKInTypes DEF ThreadsOK
  <1>2. ASSUME NEW t \in Threads, CloseConn(t) PROVE ThreadsOK'
    BY <1>2, GotoKeepsPlaces
       DEF CloseConn, TakeDescriptor, Unlist, Uncount, RemoveFd, Depart,
           MainPlaces, WorkerPlaces, Closing
  <1>3. CASE Accept \/ InitConn \/ HandleHup \/ ReadOrAppendFails \/ WriteEnds
    BY <1>3, GotoKeepsPlaces
       DEF Accept, InitConn, HandleHup, ReadOrAppendFails, WriteEnds,
           Threads, MainPlaces, WorkerPlaces, Closing
  <1>4. ASSUME NEW w \in Workers, WorkerNext(w) PROVE ThreadsOK'
    <2>1. CASE CloseConn(w)
      BY <1>2, <2>1 DEF Threads
    <2>2. CASE StartStream(w) \/ StartRefused(w) \/ EnqueueHeader(w) \/ NotifyHeader(w)
                 \/ AddClient(w) \/ CountClient(w)
      BY <2>2, GotoKeepsPlaces
         DEF StartStream, StartRefused, EnqueueHeader, NotifyHeader, AddClient, CountClient,
             Threads, WorkerPlaces, Serving, Closing
    <2>3. CASE Take(w) \/ Rearm(w) \/ Answer(w) \/ AnswerFails(w) \/ ArmForAnswer(w)
                 \/ \E r \in Requests \cup {"incomplete"} : Parse(w, r)
      BY <2>3, GotoKeepsPlaces
         DEF Take, Rearm, Answer, AnswerFails, ArmForAnswer, Parse,
             Threads, WorkerPlaces, Serving, Closing
    <2> QED
      BY <1>4, <2>1, <2>2, <2>3 DEF WorkerNext
  <1>5. CASE HandleNext
    BY <1>1, <1>3, <1>5 DEF HandleNext, ReadAndAppend, WriteStream, WriteNothing, WriteAll,
                            WritePart, thread
  <1>6. CASE SenderNext \/ PeerSends \/ PeerLeaves \/ UNCHANGED vars
               \/ \E k \in {"hup", "in", "out"} : EpollWait(k)
    BY <1>1, <1>6 DEF SenderNext, Broadcast, EnqueueFrame, DropFrame, NotifyFrame,
                      PeerSends, PeerLeaves, EpollWait, thread, vars
  <1> QED
    BY <1>2, <1>3, <1>4, <1>5, <1>6 DEF Next, MainNext, Threads

\* The other types, by what they are about.
ObjectOK ==
    m_sockfd \in {"open", "closed"} /\ m_conn_type \in StreamKinds \cup {"http"}
FlagsOK ==
    /\ to_send \in BOOLEAN /\ waiting \in BOOLEAN /\ bytes \in BOOLEAN /\ unread \in BOOLEAN
    /\ m_sockfd = "closed" => ~waiting
CountsOK == listed \subseteq StreamKinds /\ client_count \in Nat /\ user_count \in Int
KernelOK ==
    /\ kernel \in 0 .. MaxConns /\ client \in 0 .. MaxConns
    /\ kernel # 0 => kernel = client
EventOK ==
    /\ armed \in {"none", "in", "out", "inout"}
    /\ event \in [kind : {"none", "hup", "in", "out"}, of : 0 .. MaxConns]
JobOK == job \in [Workers -> StreamKinds \cup {"plain"}] /\ part \in [Workers -> 1 .. 4]
SourceOK == sender \in {"idle", "enqueue", "notify"} /\ feed \in StreamKinds
PeerOK == peer \in {"up", "gone"} /\ sends \in 0 .. MaxSends

OthersOK ==
    /\ ObjectOK /\ CountsOK /\ KernelOK /\ EventOK
    /\ tasks \in 0 .. MaxTasks
    /\ JobOK /\ SourceOK /\ PeerOK

LEMMA OthersOKInTypes == TypeOK => OthersOK /\ FlagsOK
  BY DEF TypeOK, OthersOK, ObjectOK, FlagsOK, CountsOK, KernelOK, EventOK, JobOK, SourceOK, PeerOK

LEMMA TypesFromParts == ThreadsOK /\ OthersOK /\ FlagsOK => TypeOK
  <1> SUFFICES ASSUME ThreadsOK, OthersOK, FlagsOK PROVE TypeOK
    OBVIOUS
  <1>1. /\ at \in [Threads -> {"idle", "init"} \cup Serving \cup Closing]
        /\ at[main] \in {"idle", "init"} \cup Closing
    BY DEF ThreadsOK, Places, MainPlaces
  <1>2. \A w \in Workers : at[w] # "init"
    BY DEF ThreadsOK, WorkerPlaces, Serving, Closing
  <1> QED
    BY <1>1, <1>2 DEF TypeOK, OthersOK, ObjectOK, FlagsOK, CountsOK, KernelOK, EventOK, JobOK, SourceOK, PeerOK

\* Arming keeps the interest one of the four.
LEMMA ArmKeepsEvents ==
    ASSUME EventOK, NEW x \in {"in", "out", "inout"}, Arm(x), event' = event \/ event' = NoEvent
    PROVE  EventOK'
  <1>1. NoEvent \in [kind : {"none", "hup", "in", "out"}, of : 0 .. MaxConns]
    BY SlotAssumption DEF NoEvent
  <1>2. armed' \in {"none", "in", "out", "inout"}
    BY DEF Arm, EventOK
  <1> QED
    BY <1>1, <1>2 DEF EventOK

LEMMA HandledKeepsEvents ==
    ASSUME EventOK, event' = NoEvent, armed' = armed
    PROVE  EventOK'
  BY SlotAssumption DEF EventOK, NoEvent

\* The flags of the object: a closed object has an empty send queue, because
\* close_conn() empties it as it closes and enqueuing needs an open object.
LEMMA FlagsStep ==
    ASSUME TypeOK, [Next]_vars
    PROVE  FlagsOK'
  <1> USE OthersOKInTypes DEF OthersOK
  <1>1. CASE Accept
    BY <1>1 DEF Accept, FlagsOK
  <1>2. CASE InitConn
    BY <1>2 DEF InitConn, Reset, FlagsOK, outside
  <1>3. ASSUME NEW k \in {"hup", "in", "out"}, EpollWait(k) PROVE FlagsOK'
    BY <1>3 DEF EpollWait, FlagsOK, object, outside
  <1>4. CASE HandleHup \/ ReadOrAppendFails \/ WriteEnds \/ WritePart
    BY <1>4 DEF HandleHup, ReadOrAppendFails, WriteEnds, WritePart, FlagsOK, object, outside
  <1>5. CASE ReadAndAppend
    BY <1>5 DEF ReadAndAppend, FlagsOK
  <1>6. CASE WriteStream
    BY <1>6 DEF WriteStream, FlagsOK, outside
  <1>7. CASE WriteNothing \/ WriteAll
    BY <1>7 DEF WriteNothing, WriteAll, Reset, FlagsOK, outside
  <1>8. CASE EnqueueFrame
    BY <1>8 DEF EnqueueFrame, Accepts, FlagsOK, outside
  <1>9. CASE PeerSends
    BY <1>9 DEF PeerSends, FlagsOK, object
  <1>10. CASE PeerLeaves
    BY <1>10 DEF PeerLeaves, FlagsOK, object
  <1>10a. CASE UNCHANGED <<object, outside>>
    BY <1>10a DEF FlagsOK, object, outside
  <1>10b. CASE UNCHANGED vars \/ DropFrame \/ NotifyFrame \/ \E k \in StreamKinds : Broadcast(k)
    BY <1>10a, <1>10b DEF DropFrame, NotifyFrame, Broadcast, vars
  <1>11. ASSUME NEW t \in Threads, TakeDescriptor(t) PROVE FlagsOK'
    BY <1>11 DEF TakeDescriptor, FlagsOK, outside
  <1>12. ASSUME NEW t \in Threads, Unlist(t) \/ Uncount(t) \/ RemoveFd(t) \/ Depart(t)
         PROVE  FlagsOK'
    BY <1>12 DEF Unlist, Uncount, RemoveFd, Depart, FlagsOK, object, outside
  <1>13. ASSUME NEW w \in Workers, WorkerNext(w) PROVE FlagsOK'
    <2>1. CASE CloseConn(w)
      BY <1>11, <1>12, <2>1 DEF CloseConn, Threads
    <2>2. CASE Take(w) \/ Rearm(w) \/ AnswerFails(w) \/ ArmForAnswer(w) \/ StartRefused(w)
                 \/ NotifyHeader(w) \/ AddClient(w) \/ CountClient(w)
      BY <2>2 DEF Take, Rearm, AnswerFails, ArmForAnswer, StartRefused, NotifyHeader,
                  AddClient, CountClient, FlagsOK, object, outside
    <2>3. ASSUME NEW r \in Requests \cup {"incomplete"}, Parse(w, r) PROVE FlagsOK'
      BY <2>3 DEF Parse, FlagsOK, outside
    <2>4. CASE Answer(w)
      BY <2>4 DEF Answer, FlagsOK, outside
    <2>6. CASE StartStream(w)
      BY <2>6 DEF StartStream, FlagsOK, outside
    <2>5. CASE EnqueueHeader(w)
      BY <2>5 DEF EnqueueHeader, Accepts, FlagsOK, outside
    <2> QED
      BY <1>13, <2>1, <2>2, <2>3, <2>4, <2>5, <2>6 DEF WorkerNext
  <1> QED
    BY <1>1, <1>2, <1>3, <1>4, <1>5, <1>6, <1>7, <1>8, <1>9, <1>10, <1>11, <1>12, <1>13, <1>10b
       DEF Next, MainNext, HandleNext, SenderNext, CloseConn, Threads

\* What the main thread, the broadcaster and the peer do to these types.
LEMMA MainOthersStep ==
    ASSUME OthersOK,
           Accept \/ InitConn \/ HandleNext \/ SenderNext \/ PeerSends \/ PeerLeaves
           \/ UNCHANGED vars \/ \E k \in {"hup", "in", "out"} : EpollWait(k)
    PROVE  OthersOK'
  <1> USE SlotAssumption DEF OthersOK
  <1>1. CASE Accept
    <2>1. KernelOK'
      BY <1>1 DEF Accept, KernelOK
    <2>2. ObjectOK' /\ EventOK' /\ PeerOK'
      BY <1>1 DEF Accept, ObjectOK, EventOK, PeerOK
    <2> QED
      BY <1>1, <2>1, <2>2 DEF Accept, CountsOK, JobOK, SourceOK, counts, source
  <1>2. CASE InitConn
    <2>1. ObjectOK' /\ CountsOK'
      BY <1>2 DEF InitConn, Reset, ObjectOK, CountsOK
    <2> QED
      BY <1>2, <2>1 DEF InitConn, KernelOK, EventOK, JobOK, SourceOK, PeerOK,
                        epoll, source, outside
  <1>3. ASSUME NEW k \in {"hup", "in", "out"}, EpollWait(k) PROVE OthersOK'
    <2>1. EventOK'
      BY <1>3 DEF EpollWait, EventOK, KernelOK
    <2> QED
      BY <1>3, <2>1 DEF EpollWait, ObjectOK, CountsOK, KernelOK, JobOK, SourceOK, PeerOK,
                        object, counts, thread, source, outside
  <1>4. CASE HandleHup \/ ReadOrAppendFails \/ WriteEnds
    <2>1. EventOK'
      BY <1>4, HandledKeepsEvents DEF HandleHup, ReadOrAppendFails, WriteEnds, Handling
    <2> QED
      BY <1>4, <2>1 DEF HandleHup, ReadOrAppendFails, WriteEnds,
                        ObjectOK, CountsOK, KernelOK, JobOK, SourceOK, PeerOK,
                        object, counts, source, outside
  <1>5. CASE ReadAndAppend
    <2>1. EventOK'
      BY <1>5, HandledKeepsEvents DEF ReadAndAppend, Handling
    <2>2. tasks' \in 0 .. MaxTasks
      BY <1>5 DEF ReadAndAppend
    <2>3. ObjectOK' /\ PeerOK'
      BY <1>5 DEF ReadAndAppend, ObjectOK, PeerOK
    <2> QED
      BY <1>5, <2>1, <2>2, <2>3 DEF ReadAndAppend, CountsOK, KernelOK, JobOK, SourceOK,
                                    counts, thread, source
  <1>6. CASE WriteStream \/ WriteNothing \/ WriteAll \/ WritePart
    <2>1. EventOK'
      BY <1>6, ArmKeepsEvents DEF WriteStream, WriteNothing, WriteAll, WritePart, Handling
    <2>2. ObjectOK'
      BY <1>6 DEF WriteStream, WriteNothing, WriteAll, WritePart, Reset, ObjectOK, object
    <2> QED
      BY <1>6, <2>1, <2>2 DEF WriteStream, WriteNothing, WriteAll, WritePart,
                              CountsOK, KernelOK, JobOK, SourceOK, PeerOK,
                              counts, thread, source, outside
  <1>7. CASE SenderNext
    <2>1. EventOK'
      BY <1>7, ArmKeepsEvents
         DEF SenderNext, Broadcast, EnqueueFrame, DropFrame, NotifyFrame, EventOK, epoll
    <2>2. ObjectOK' /\ SourceOK'
      BY <1>7 DEF SenderNext, Broadcast, EnqueueFrame, DropFrame, NotifyFrame, Accepts,
                  ObjectOK, SourceOK, object
    <2> QED
      BY <1>7, <2>1, <2>2 DEF SenderNext, Broadcast, EnqueueFrame, DropFrame, NotifyFrame,
                              CountsOK, KernelOK, JobOK, PeerOK, counts, epoll, thread, outside
  <1>8. CASE PeerSends \/ PeerLeaves \/ UNCHANGED vars
    <2>1. PeerOK'
      BY <1>8 DEF PeerSends, PeerLeaves, PeerOK, vars, outside
    <2> QED
      BY <1>8, <2>1 DEF PeerSends, PeerLeaves, vars, ObjectOK, CountsOK, KernelOK, EventOK,
                        JobOK, SourceOK, object, counts, epoll, thread, source, outside
  <1> QED
    BY <1>1, <1>2, <1>3, <1>4, <1>5, <1>6, <1>7, <1>8 DEF HandleNext

LEMMA CloseOthersStep ==
    ASSUME OthersOK, NEW t \in Threads, CloseConn(t)
    PROVE  OthersOK'
  <1> USE SlotAssumption DEF OthersOK
  <1>1. ObjectOK' /\ CountsOK'
    BY DEF CloseConn, TakeDescriptor, Unlist, Uncount, RemoveFd, Depart, ObjectOK, CountsOK,
           object, counts
  <1>2. KernelOK' /\ EventOK'
    BY DEF CloseConn, TakeDescriptor, Unlist, Uncount, RemoveFd, Depart, KernelOK, EventOK,
           epoll, outside
  <1> QED
    BY <1>1, <1>2 DEF CloseConn, TakeDescriptor, Unlist, Uncount, RemoveFd, Depart,
                      JobOK, SourceOK, PeerOK, source, outside

LEMMA WorkerOthersStep ==
    ASSUME OthersOK, StreamJob, NEW w \in Workers, WorkerNext(w)
    PROVE  OthersOK'
  <1> USE SlotAssumption DEF OthersOK
  <1>1. CASE CloseConn(w)
    BY <1>1, CloseOthersStep DEF Threads
  <1>2. CASE Take(w) \/ Answer(w) \/ AnswerFails(w) \/ StartRefused(w)
    <2>1. ObjectOK' /\ tasks' \in 0 .. MaxTasks
      BY <1>2 DEF Take, Answer, AnswerFails, StartRefused, ObjectOK, object
    <2> QED
      BY <1>2, <2>1 DEF Take, Answer, AnswerFails, StartRefused, CountsOK, KernelOK, EventOK,
                        JobOK, SourceOK, PeerOK, counts, epoll, source, outside
  <1>3. CASE Rearm(w) \/ ArmForAnswer(w)
    <2>1. EventOK'
      BY <1>3, ArmKeepsEvents DEF Rearm, ArmForAnswer
    <2> QED
      BY <1>3, <2>1 DEF Rearm, ArmForAnswer, ObjectOK, CountsOK, KernelOK, JobOK, SourceOK,
                        PeerOK, object, counts, source, outside
  <1>4. ASSUME NEW r \in Requests \cup {"incomplete"}, Parse(w, r) PROVE OthersOK'
    <2>1. ObjectOK' /\ JobOK'
      BY <1>4 DEF Parse, ObjectOK, JobOK
    <2> QED
      BY <1>4, <2>1 DEF Parse, CountsOK, KernelOK, EventOK, SourceOK, PeerOK,
                        counts, epoll, source, outside
  <1>5. CASE StartStream(w) \/ EnqueueHeader(w)
    <2>1. ObjectOK'
      BY <1>5 DEF StartStream, EnqueueHeader, Accepts, StreamJob, Starting, ObjectOK
    <2> QED
      BY <1>5, <2>1 DEF StartStream, EnqueueHeader, CountsOK, KernelOK, EventOK,
                        JobOK, SourceOK, PeerOK, counts, epoll, source, outside
  <1>6. CASE NotifyHeader(w)
    <2>1. part[w] \in 1 .. 3
      BY <1>6 DEF NotifyHeader, StreamJob, Starting, Headers, JobOK
    <2>2. EventOK' /\ JobOK'
      BY <1>6, <2>1, ArmKeepsEvents DEF NotifyHeader, JobOK
    <2> QED
      BY <1>6, <2>2 DEF NotifyHeader, ObjectOK, CountsOK, KernelOK, SourceOK, PeerOK,
                        object, counts, source, outside
  <1>7. CASE AddClient(w) \/ CountClient(w)
    <2>1. CountsOK'
      BY <1>7 DEF AddClient, CountClient, StreamJob, CountsOK
    <2> QED
      BY <1>7, <2>1 DEF AddClient, CountClient, ObjectOK, KernelOK, EventOK, JobOK, SourceOK,
                        PeerOK, object, epoll, source, outside
  <1> QED
    BY <1>1, <1>2, <1>3, <1>4, <1>5, <1>6, <1>7 DEF WorkerNext

\* A worker's own step keeps its job a stream's and its parts in count; what
\* anybody else does leaves its place, its job and its part alone.
LEMMA StreamJobStep == SlotTypes /\ [Next]_vars => StreamJob'
  <1> SUFFICES ASSUME SlotTypes, [Next]_vars PROVE StreamJob'
    OBVIOUS
  <1> USE SlotAssumption DEF SlotTypes
  <1>1. ASSUME NEW t \in Threads, CloseConn(t) PROVE StreamJob'
    BY <1>1 DEF CloseConn, TakeDescriptor, Unlist, Uncount, RemoveFd, Depart, Goto,
                StreamJob, TypeOK, Starting, Threads
  <1>2. CASE Accept \/ InitConn \/ HandleHup \/ ReadOrAppendFails \/ WriteEnds
    BY <1>2 DEF Accept, InitConn, HandleHup, ReadOrAppendFails, WriteEnds, Goto,
                StreamJob, TypeOK, Threads
  <1>3. CASE UNCHANGED thread
    BY <1>3 DEF thread, StreamJob
  <1>4. ASSUME NEW w \in Workers, WorkerNext(w) PROVE StreamJob'
    <2>1. CASE CloseConn(w)
      BY <1>1, <2>1 DEF Threads
    <2>2. CASE Take(w) \/ Rearm(w) \/ Answer(w) \/ AnswerFails(w) \/ ArmForAnswer(w)
                 \/ StartRefused(w) \/ CountClient(w)
      BY <2>2 DEF Take, Rearm, Answer, AnswerFails, ArmForAnswer, StartRefused, CountClient,
                  Goto, StreamJob, TypeOK, Starting, Threads
    <2>3. ASSUME NEW r \in Requests \cup {"incomplete"}, Parse(w, r) PROVE StreamJob'
      BY <2>3 DEF Parse, Goto, StreamJob, TypeOK, Starting, Headers, Threads, StreamKinds
    <2>4. CASE StartStream(w) \/ EnqueueHeader(w) \/ AddClient(w)
      BY <2>4 DEF StartStream, EnqueueHeader, AddClient, Goto, StreamJob, TypeOK, Starting, Threads
    <2>5. CASE NotifyHeader(w)
      BY <2>5 DEF NotifyHeader, Goto, StreamJob, TypeOK, Starting, Threads, Headers
    <2> QED
      BY <1>4, <2>1, <2>2, <2>3, <2>4, <2>5 DEF WorkerNext
  <1>5. CASE HandleNext
    BY <1>2, <1>3, <1>5 DEF HandleNext, ReadAndAppend, WriteStream, WriteNothing, WriteAll,
                            WritePart
  <1>6. CASE SenderNext \/ PeerSends \/ PeerLeaves \/ UNCHANGED vars
               \/ \E k \in {"hup", "in", "out"} : EpollWait(k)
    BY <1>3, <1>6 DEF SenderNext, Broadcast, EnqueueFrame, DropFrame, NotifyFrame,
                      PeerSends, PeerLeaves, EpollWait, vars
  <1> QED
    BY <1>1, <1>2, <1>4, <1>5, <1>6 DEF Next, MainNext, Threads

LEMMA SlotTypesInit == Init => SlotTypes
  <1> SUFFICES ASSUME Init PROVE SlotTypes
    OBVIOUS
  <1> USE SlotAssumption
  <1>1. ThreadsOK
    BY DEF Init, ThreadsOK, Threads, Places, MainPlaces, WorkerPlaces
  <1>2. ObjectOK /\ CountsOK /\ KernelOK
    BY DEF Init, ObjectOK, CountsOK, KernelOK
  <1>3. EventOK /\ JobOK /\ SourceOK /\ PeerOK /\ tasks \in 0 .. MaxTasks
    BY DEF Init, EventOK, JobOK, SourceOK, PeerOK, NoEvent, StreamKinds
  <1>5. FlagsOK
    BY DEF Init, FlagsOK
  <1>4. StreamJob
    BY DEF Init, StreamJob, Starting, Threads
  <1> QED
    BY <1>1, <1>2, <1>3, <1>4, <1>5, TypesFromParts DEF OthersOK, SlotTypes

LEMMA SlotTypesStep == SlotTypes /\ [Next]_vars => SlotTypes'
  <1> SUFFICES ASSUME SlotTypes, [Next]_vars PROVE SlotTypes'
    OBVIOUS
  <1>1. OthersOK'
    BY OthersOKInTypes, MainOthersStep, CloseOthersStep, WorkerOthersStep
       DEF SlotTypes, Next, MainNext, Threads
  <1>2. ThreadsOK' /\ FlagsOK' /\ StreamJob'
    BY ThreadsStep, FlagsStep, StreamJobStep DEF SlotTypes
  <1>3. TypeOK'
    BY <1>1, <1>2, TypesFromParts, PTL
  <1> QED
    BY <1>2, <1>3 DEF SlotTypes

LEMMA SlotTypesAlways == Spec => []SlotTypes
  BY SlotTypesInit, SlotTypesStep, PTL DEF Spec

\* Every variable of the slot keeps its type, for every number of threads
\* and connections: so no worker enqueues a stream header the connection's
\* kind does not have (start_flv_stream(), start_mjpeg_stream()), and a
\* closed object keeps nothing in its send queue.
THEOREM SlotTypeCorrect == Spec => []TypeOK
  BY SlotTypesAlways, PTL DEF SlotTypes

-----------------------------------------------------------------------------
(* Who closes the descriptor.                                              *)

\* Between taking the descriptor and closing it a thread owns it.
Owning == {"unlist", "uncount", "remove"}

\* The descriptor is open exactly while the object names it or a thread owns
\* it, and there is one owner at most.  What makes SlotOwnsFd inductive: the
\* bare property lets two closes of one connection meet, the second of which
\* would close the descriptor of the next.
OneOwner ==
    /\ \A s, t \in Threads : at[s] \in Owning /\ at[t] \in Owning => s = t
    /\ \A t \in Threads : at[t] \in Owning => m_sockfd = "closed" /\ kernel # 0
    /\ m_sockfd = "open" => kernel # 0
    /\ kernel # 0 => m_sockfd = "open" \/ \E t \in Threads : at[t] \in Owning

InPlace(places) == {t \in Threads : at[t] \in places}
ConnsCounted ==
    user_count + (IF at[main] = "init" THEN 1 ELSE 0)
        = (IF kernel # 0 THEN 1 ELSE 0) + Cardinality(InPlace({"depart"}))

OwnerInv == SlotTypes /\ OneOwner /\ ConnsCounted

\* All but the opening and the closing of the descriptor: the object, the
\* kernel and the count stay, and one thread moves away from those places.
Passing == {"idle", "close"} \cup Serving
PassingStep ==
    /\ UNCHANGED <<m_sockfd, kernel, user_count>>
    /\ \/ at' = at
       \/ \E t \in Threads, x \in Passing : at[t] \in Passing /\ Goto(t, x)

LEMMA OwnerSteps ==
    ASSUME [Next]_vars
    PROVE  \/ Accept \/ InitConn \/ PassingStep
           \/ \E t \in Threads : CloseConn(t)
  <1>1. CASE PeerSends \/ PeerLeaves \/ SenderNext \/ UNCHANGED vars
               \/ \E k \in {"hup", "in", "out"} : EpollWait(k)
    BY <1>1 DEF PeerSends, PeerLeaves, SenderNext, Broadcast, EnqueueFrame, DropFrame, NotifyFrame,
                EpollWait, PassingStep, vars, object, counts, epoll, thread
  <1>2. CASE HandleNext
    <2>1. main \in Threads /\ {"idle", "close"} \subseteq Passing
      BY DEF Threads, Passing
    <2>2. CASE HandleHup \/ ReadOrAppendFails \/ WriteEnds
      BY <2>1, <2>2 DEF HandleHup, ReadOrAppendFails, WriteEnds, Handling, PassingStep,
                        object, counts
    <2>3. CASE ReadAndAppend \/ WriteStream \/ WriteNothing \/ WriteAll \/ WritePart
      BY <2>3 DEF ReadAndAppend, WriteStream, WriteNothing, WriteAll, WritePart, PassingStep,
                  object, counts, thread
    <2> QED
      BY <1>2, <2>2, <2>3 DEF HandleNext
  <1>3. ASSUME NEW w \in Workers, WorkerNext(w), ~CloseConn(w) PROVE PassingStep
    <2>1. w \in Threads
      BY DEF Threads
    <2>2. CASE StartStream(w) \/ StartRefused(w) \/ EnqueueHeader(w) \/ NotifyHeader(w)
                 \/ AddClient(w) \/ CountClient(w)
      BY <2>1, <2>2
         DEF StartStream, StartRefused, EnqueueHeader, NotifyHeader, AddClient, CountClient,
             PassingStep, Passing, Serving, object, counts, epoll
    <2>3. CASE Take(w) \/ Rearm(w) \/ Answer(w) \/ AnswerFails(w) \/ ArmForAnswer(w)
                 \/ \E r \in Requests \cup {"incomplete"} : Parse(w, r)
      BY <2>1, <2>3
         DEF Take, Rearm, Answer, AnswerFails, ArmForAnswer, Parse,
             PassingStep, Passing, Serving, object, counts, epoll
    <2> QED
      BY <1>3, <2>2, <2>3 DEF WorkerNext
  <1> QED
    BY <1>1, <1>2, <1>3 DEF Next, MainNext, Threads

LEMMA OneOwnerStep == SlotTypes /\ OneOwner /\ [Next]_vars => OneOwner'
  <1> SUFFICES ASSUME SlotTypes, OneOwner, [Next]_vars PROVE OneOwner'
    OBVIOUS
  <1>0. at \in [Threads -> Places] /\ m_sockfd \in {"open", "closed"} /\ main \in Threads
    BY DEF SlotTypes, TypeOK, Places, Threads
  <1> USE <1>0 DEF OneOwner, Owning
  <1>1. CASE Accept
    BY <1>1, SlotAssumption DEF Accept, Goto, SlotTypes, TypeOK
  <1>2. CASE InitConn
    BY <1>2 DEF InitConn, Goto, epoll
  <1>3. CASE PassingStep
    BY <1>3 DEF PassingStep, Passing, Serving, Goto
  <1>4. ASSUME NEW t \in Threads, TakeDescriptor(t) PROVE OneOwner'
    BY <1>4 DEF TakeDescriptor, Goto, epoll
  <1>5. ASSUME NEW t \in Threads, Unlist(t) \/ Uncount(t) PROVE OneOwner'
    BY <1>5 DEF Unlist, Uncount, Goto, object, epoll
  <1>6. ASSUME NEW t \in Threads, RemoveFd(t) PROVE OneOwner'
    BY <1>6 DEF RemoveFd, Goto, object
  <1>7. ASSUME NEW t \in Threads, Depart(t) PROVE OneOwner'
    BY <1>7 DEF Depart, Goto, object, epoll
  <1> QED
    BY <1>1, <1>2, <1>3, <1>4, <1>5, <1>6, <1>7, OwnerSteps DEF CloseConn

LEMMA InPlaceFinite ==
    ASSUME NEW places
    PROVE  IsFiniteSet(InPlace(places)) /\ Cardinality(InPlace(places)) \in Nat
  <1>1. IsFiniteSet(Threads)
    BY SlotAssumption, FS_AddElement DEF Threads
  <1>2. InPlace(places) \in SUBSET Threads
    BY DEF InPlace
  <1> QED
    BY <1>1, <1>2, FS_Subset, FS_CardinalityType

\* A move changes how many threads are at some places by its two ends only.
LEMMA InPlaceAfterGoto ==
    ASSUME SlotTypes, NEW t \in Threads, NEW x, Goto(t, x), NEW places
    PROVE  Cardinality(InPlace(places)') = Cardinality(InPlace(places))
               + (IF x \in places THEN 1 ELSE 0) - (IF at[t] \in places THEN 1 ELSE 0)
  <1>1. IsFiniteSet(InPlace(places)) /\ Cardinality(InPlace(places)) \in Nat
    BY InPlaceFinite
  <1>2. t \in InPlace(places) <=> at[t] \in places
    BY DEF InPlace
  <1>3. CASE x \in places
    <2>1. InPlace(places)' = InPlace(places) \cup {t}
      BY <1>3 DEF InPlace, Goto, SlotTypes, TypeOK
    <2>2. Cardinality(InPlace(places) \cup {t}) =
              IF t \in InPlace(places) THEN Cardinality(InPlace(places))
                                      ELSE Cardinality(InPlace(places)) + 1
      BY <1>1, FS_AddElement
    <2> QED
      BY <1>1, <1>2, <1>3, <2>1, <2>2
  <1>4. CASE x \notin places
    <2>1. InPlace(places)' = InPlace(places) \ {t}
      BY <1>4 DEF InPlace, Goto, SlotTypes, TypeOK
    <2>2. Cardinality(InPlace(places) \ {t}) =
              IF t \in InPlace(places) THEN Cardinality(InPlace(places)) - 1
                                      ELSE Cardinality(InPlace(places))
      BY <1>1, FS_RemoveElement
    <2> QED
      BY <1>1, <1>2, <1>4, <2>1, <2>2
  <1> QED
    BY <1>3, <1>4

LEMMA ConnsCountedStep == OwnerInv /\ [Next]_vars => ConnsCounted'
  <1> SUFFICES ASSUME OwnerInv, [Next]_vars PROVE ConnsCounted'
    OBVIOUS
  <1> USE DEF OwnerInv
  <1> DEFINE Departing == Cardinality(InPlace({"depart"}))
  <1>0. /\ Departing \in Nat /\ user_count \in Int /\ main \in Threads
        /\ at \in [Threads -> Places] /\ main \notin Workers
        /\ \A w \in Workers : at[w] # "init"
    BY InPlaceFinite, SlotAssumption DEF SlotTypes, TypeOK, Threads, Places
  <1>1. ASSUME NEW t \in Threads, NEW x, Goto(t, x)
        PROVE  Departing' = Departing + (IF x = "depart" THEN 1 ELSE 0)
                                      - (IF at[t] = "depart" THEN 1 ELSE 0)
    <2> DEFINE places == {"depart"}
    <2>1. Cardinality(InPlace(places)') = Cardinality(InPlace(places))
              + (IF x \in places THEN 1 ELSE 0) - (IF at[t] \in places THEN 1 ELSE 0)
      <3> HIDE DEF places
      <3> QED
        BY <1>1, InPlaceAfterGoto
    <2> QED
      BY <2>1
  <1>2. ASSUME NEW t \in Threads, NEW x, Goto(t, x), x # "init", at[t] # "init"
        PROVE  at'[main] = "init" <=> at[main] = "init"
    BY <1>0, <1>2 DEF Goto
  <1>c. ConnsCounted <=> user_count + (IF at[main] = "init" THEN 1 ELSE 0)
                             = (IF kernel # 0 THEN 1 ELSE 0) + Departing
    BY DEF ConnsCounted
  <1>p. ConnsCounted' <=> user_count' + (IF at'[main] = "init" THEN 1 ELSE 0)
                              = (IF kernel' # 0 THEN 1 ELSE 0) + Departing'
    BY DEF ConnsCounted
  <1>u. at' = at => Departing' = Departing
    BY DEF InPlace
  <1> HIDE DEF Departing
  <1>3. CASE Accept
    <2>1. Goto(main, "init") /\ at[main] = "idle" /\ user_count' = user_count
          /\ kernel = 0 /\ kernel' # 0
      BY <1>3, SlotAssumption DEF Accept, counts, SlotTypes, TypeOK
    <2>2. at'[main] = "init"
      BY <1>0, <2>1 DEF Goto
    <2>3. Departing' = Departing
      BY <1>0, <1>1, <2>1
    <2> QED
      BY <1>0, <1>c, <1>p, <2>1, <2>2, <2>3
  <1>4. CASE InitConn
    <2>1. Goto(main, "idle") /\ at[main] = "init" /\ user_count' = user_count + 1
          /\ kernel' = kernel
      BY <1>4 DEF InitConn, epoll
    <2>2. at'[main] = "idle"
      BY <1>0, <2>1 DEF Goto
    <2>3. Departing' = Departing
      BY <1>0, <1>1, <2>1
    <2> QED
      BY <1>0, <1>c, <1>p, <2>1, <2>2, <2>3
  <1>5. CASE PassingStep
    <2>1. CASE at' = at
      BY <1>5, <1>u, <1>c, <1>p, <2>1 DEF PassingStep
    <2>2. ASSUME NEW t \in Threads, NEW x \in Passing, at[t] \in Passing, Goto(t, x)
          PROVE  ConnsCounted'
      <3>1. x \notin {"init", "depart"} /\ at[t] \notin {"init", "depart"}
        BY <2>2 DEF Passing, Serving
      <3>2. Departing' = Departing /\ (at'[main] = "init" <=> at[main] = "init")
        BY <1>0, <1>1, <1>2, <2>2, <3>1
      <3> QED
        BY <1>5, <1>c, <1>p, <3>2 DEF PassingStep
    <2> QED
      BY <1>5, <2>1, <2>2 DEF PassingStep
  <1>6. ASSUME NEW t \in Threads, TakeDescriptor(t) \/ Unlist(t) \/ Uncount(t)
        PROVE  ConnsCounted'
    <2>1. PICK x \in {"idle", "unlist", "uncount", "remove"} : Goto(t, x)
      BY <1>6 DEF TakeDescriptor, Unlist, Uncount
    <2>2. at[t] \in {"close", "unlist", "uncount"} /\ UNCHANGED <<kernel, user_count>>
      BY <1>6 DEF TakeDescriptor, Unlist, Uncount, counts, epoll
    <2>3. Departing' = Departing /\ (at'[main] = "init" <=> at[main] = "init")
      BY <1>0, <1>1, <1>2, <2>1, <2>2
    <2> QED
      BY <1>c, <1>p, <2>2, <2>3
  <1>7. ASSUME NEW t \in Threads, RemoveFd(t) PROVE ConnsCounted'
    <2>1. Goto(t, "depart") /\ at[t] = "remove" /\ user_count' = user_count
          /\ kernel' = 0 /\ kernel # 0
      BY <1>7 DEF RemoveFd, counts, OneOwner, Owning
    <2>2. Departing' = Departing + 1 /\ (at'[main] = "init" <=> at[main] = "init")
      BY <1>0, <1>1, <1>2, <2>1
    <2> QED
      BY <1>0, <1>c, <1>p, <2>1, <2>2
  <1>8. ASSUME NEW t \in Threads, Depart(t) PROVE ConnsCounted'
    <2>1. Goto(t, "idle") /\ at[t] = "depart" /\ user_count' = user_count - 1
          /\ kernel' = kernel
      BY <1>8 DEF Depart, epoll
    <2>2. Departing' = Departing - 1 /\ (at'[main] = "init" <=> at[main] = "init")
      BY <1>0, <1>1, <1>2, <2>1
    <2> QED
      BY <1>0, <1>c, <1>p, <2>1, <2>2
  <1> QED
    BY <1>3, <1>4, <1>5, <1>6, <1>7, <1>8, OwnerSteps DEF CloseConn

LEMMA OwnerInvInit == Init => OwnerInv
  <1> SUFFICES ASSUME Init PROVE OwnerInv
    OBVIOUS
  <1>1. OneOwner
    BY DEF Init, OneOwner, Owning
  <1>2. InPlace({"depart"}) = {}
    BY DEF Init, InPlace
  <1>3. ConnsCounted
    BY <1>2, FS_EmptySet DEF Init, ConnsCounted, Threads
  <1> QED
    BY <1>1, <1>3, SlotTypesInit DEF OwnerInv

LEMMA OwnerInvAlways == Spec => []OwnerInv
  <1>1. OwnerInv /\ [Next]_vars => OwnerInv'
    BY SlotTypesStep, OneOwnerStep, ConnsCountedStep DEF OwnerInv
  <1> QED
    BY <1>1, OwnerInvInit, PTL DEF Spec

\* The object never names the descriptor of another connection, and the
\* count of /api/status is the number of connections (close_conn(), init()):
\* for every number of workers, however closes and new connections interleave.
THEOREM SlotOwnsDescriptor == Spec => []SlotOwnsFd
  <1>1. OwnerInv => SlotOwnsFd
    BY DEF OwnerInv, OneOwner, ConnsCounted, InPlace, SlotTypes, TypeOK, SlotOwnsFd
  <1> QED
    BY <1>1, OwnerInvAlways, PTL

-----------------------------------------------------------------------------
(* No connection is forgotten.                                             *)

\* No connection is forgotten, the places named at which a thread still has it
\* to arm or to close.  A worker that adds a stream to the lists has armed the
\* descriptor already, and one that departs has lost it.
Carrying == {"parse", "rearm", "answer", "arm", "start", "enqueue", "notify", "close"} \cup Owning
Remembered ==
    \/ armed # "none" \/ event # NoEvent \/ tasks > 0 \/ sender = "notify"
    \/ \E t \in Threads : at[t] \in Carrying
ConnRemembered == kernel # 0 => Remembered

\* Arming arms an open object; when the object is closed the thread that took
\* the descriptor still has it.
LEMMA ArmedOrOwned ==
    ASSUME OwnerInv, NEW x \in {"in", "out", "inout"}, Arm(x), kernel # 0
    PROVE  armed' # "none" \/ \E t \in Threads : at[t] \in Owning
  BY DEF Arm, OwnerInv, OneOwner

LEMMA ConnRememberedStep == OwnerInv /\ ConnRemembered /\ [Next]_vars => ConnRemembered'
  <1> SUFFICES ASSUME OwnerInv, ConnRemembered, [Next]_vars, kernel' # 0
               PROVE  Remembered'
    BY DEF ConnRemembered
  <1>0. at \in [Threads -> Places] /\ tasks \in Nat /\ main \in Threads /\ Workers \subseteq Threads
    BY SlotAssumption DEF OwnerInv, SlotTypes, TypeOK, Places, Threads
  <1> USE <1>0 DEF ConnRemembered, Remembered
  <1>a. ASSUME NEW t \in Threads, NEW x \in Carrying, Goto(t, x) PROVE Remembered'
    BY <1>a DEF Goto, Carrying, Owning, Places, Serving, Closing
  <1>b. ASSUME NEW x \in {"in", "out", "inout"}, Arm(x), kernel' = kernel,
               at' = at \/ \E t \in Threads, y \in Passing : at[t] \in Passing /\ Goto(t, y)
        PROVE  Remembered'
    <2>1. armed' # "none" \/ \E t \in Threads : at[t] \in Owning
      BY <1>b, ArmedOrOwned
    <2>2. ASSUME NEW t \in Threads, at[t] \in Owning PROVE at'[t] = at[t]
      BY <1>b, <2>2 DEF Goto, Owning, Passing, Serving
    <2> QED
      BY <2>1, <2>2 DEF Carrying
  <1>1. CASE Accept
    BY <1>1 DEF Accept
  <1>2. CASE InitConn
    BY <1>2 DEF InitConn, Goto, Carrying, Owning, epoll, source
  <1>3. ASSUME NEW k \in {"hup", "in", "out"}, EpollWait(k) PROVE Remembered'
    <2>1. event'.kind # NoEvent.kind
      BY <1>3 DEF EpollWait, NoEvent
    <2> QED
      BY <2>1 DEF NoEvent
  <1>4. CASE HandleNext
    <2>1. CASE HandleHup \/ ReadOrAppendFails \/ WriteEnds
      BY <1>a, <2>1 DEF HandleHup, ReadOrAppendFails, WriteEnds, Carrying
    <2>2. CASE ReadAndAppend
      BY <2>2 DEF ReadAndAppend
    <2>3. CASE WriteStream \/ WriteNothing \/ WriteAll \/ WritePart
      BY <1>b, <2>3 DEF WriteStream, WriteNothing, WriteAll, WritePart, thread
    <2> QED
      BY <1>4, <2>1, <2>2, <2>3 DEF HandleNext
  <1>5. CASE SenderNext
    <2>1. CASE NotifyFrame
      BY <1>b, <2>1 DEF NotifyFrame, thread
    <2>2. CASE DropFrame \/ EnqueueFrame \/ \E k \in StreamKinds : Broadcast(k)
      BY <2>2 DEF DropFrame, EnqueueFrame, Broadcast, epoll, thread
    <2> QED
      BY <1>5, <2>1, <2>2 DEF SenderNext
  <1>6. CASE PeerSends \/ PeerLeaves \/ UNCHANGED vars
    BY <1>6 DEF PeerSends, PeerLeaves, vars, epoll, thread, source
  <1>7. ASSUME NEW t \in Threads, CloseConn(t) PROVE Remembered'
    <2>1. CASE TakeDescriptor(t)
      <3>1. CASE m_sockfd = "open"
        BY <1>a, <2>1, <3>1 DEF TakeDescriptor, Carrying, Owning
      <3>2. CASE m_sockfd # "open"
        <4>1. kernel # 0
          BY <2>1 DEF TakeDescriptor, epoll
        <4>2. PICK s \in Threads : at[s] \in Owning
          BY <3>2, <4>1 DEF OwnerInv, OneOwner
        <4>3. at'[s] = at[s]
          BY <2>1, <4>2 DEF TakeDescriptor, Goto, Owning
        <4> QED
          BY <4>2, <4>3 DEF Carrying
      <3> QED
        BY <3>1, <3>2
    <2>2. CASE Unlist(t) \/ Uncount(t)
      BY <1>a, <2>2 DEF Unlist, Uncount, Carrying, Owning
    <2>3. CASE RemoveFd(t)
      BY <2>3 DEF RemoveFd
    <2>4. CASE Depart(t)
      BY <2>4 DEF Depart, Goto, Carrying, Owning, epoll, source
    <2> QED
      BY <1>7, <2>1, <2>2, <2>3, <2>4 DEF CloseConn
  <1>8. ASSUME NEW w \in Workers, WorkerNext(w) PROVE Remembered'
    <2>1. CASE CloseConn(w)
      BY <1>7, <2>1
    <2>2. CASE Take(w) \/ Answer(w) \/ AnswerFails(w) \/ StartStream(w) \/ StartRefused(w)
                 \/ EnqueueHeader(w) \/ \E r \in Requests \cup {"incomplete"} : Parse(w, r)
      BY <1>a, <2>2 DEF Take, Answer, AnswerFails, StartStream, StartRefused, EnqueueHeader, Parse,
                        Carrying
    <2>3. CASE Rearm(w) \/ ArmForAnswer(w) \/ NotifyHeader(w)
      BY <1>b, <2>3 DEF Rearm, ArmForAnswer, NotifyHeader, Passing, Serving
    <2>4. CASE AddClient(w) \/ CountClient(w)
      BY <2>4 DEF AddClient, CountClient, Goto, Carrying, Owning, epoll, source
    <2> QED
      BY <1>8, <2>1, <2>2, <2>3, <2>4 DEF WorkerNext
  <1> QED
    BY <1>1, <1>2, <1>3, <1>4, <1>5, <1>6, <1>7, <1>8 DEF Next, MainNext

\* Every open connection is in the hands of epoll, of a queue or of a thread
\* that will arm or close it: no connection waits for ever for nobody.
THEOREM NoConnectionIsForgotten == Spec => []NoForgottenConnection
  <1>1. Init => ConnRemembered
    BY DEF Init, ConnRemembered
  <1>2. OwnerInv /\ ConnRemembered => NoForgottenConnection
    BY DEF OwnerInv, SlotTypes, TypeOK, ConnRemembered, Remembered, NoForgottenConnection,
           Carrying, Owning, Threads
  <1> QED
    BY <1>1, <1>2, OwnerInvAlways, ConnRememberedStep, PTL DEF Spec

-----------------------------------------------------------------------------
(* One thread for one connection.                                          *)

\* Without streams: nobody reaches the places of a stream, nothing is listed
\* and the broadcaster has nothing to send.
NoStreams ==
    /\ sender = "idle" /\ listed = {} /\ m_conn_type = "http"
    /\ \A w \in Workers : at[w] \notin Starting \cup {"add", "count"}

\* The ticket of a connection is gone when it is armed or closed.
OneTicket ==
    /\ Tickets <= 1
    /\ armed # "none" /\ at[main] # "init" => Tickets = 0
    /\ kernel = 0 => Tickets = 0 /\ armed = "none"

LEMMA NoStreamsStep ==
    ASSUME Requests \subseteq {"plain"}, TypeOK, NoStreams, [Next]_vars
    PROVE  NoStreams'
  <1> USE SlotAssumption DEF NoStreams, Starting
  <1>0. at \in [Threads -> Places] /\ main \in Threads /\ Workers \subseteq Threads
    BY DEF TypeOK, Places, Threads
  <1>1. CASE Accept \/ InitConn
    BY <1>0, <1>1 DEF Accept, InitConn, Goto, Reset, counts, source
  <1>2. CASE HandleNext
    <2>1. CASE HandleHup \/ ReadOrAppendFails \/ WriteEnds
      BY <1>0, <2>1 DEF HandleHup, ReadOrAppendFails, WriteEnds, Goto, object, counts, source
    <2>2. CASE ReadAndAppend \/ WriteStream \/ WriteNothing \/ WriteAll \/ WritePart
      BY <2>2 DEF ReadAndAppend, WriteStream, WriteNothing, WriteAll, WritePart, Reset,
                  object, counts, thread, source
    <2> QED
      BY <1>2, <2>1, <2>2 DEF HandleNext
  <1>3. CASE SenderNext
    BY <1>3 DEF SenderNext, Broadcast, EnqueueFrame, DropFrame, NotifyFrame
  <1>4. CASE PeerSends \/ PeerLeaves \/ UNCHANGED vars
               \/ \E k \in {"hup", "in", "out"} : EpollWait(k)
    BY <1>4 DEF PeerSends, PeerLeaves, EpollWait, vars, object, counts, thread, source
  <1>5. ASSUME NEW t \in Threads, CloseConn(t) PROVE NoStreams'
    BY <1>0, <1>5 DEF CloseConn, TakeDescriptor, Unlist, Uncount, RemoveFd, Depart, Goto,
                      object, counts, source
  <1>6. ASSUME NEW w \in Workers, WorkerNext(w), ~CloseConn(w) PROVE NoStreams'
    <2>1. CASE Take(w) \/ Rearm(w) \/ Answer(w) \/ AnswerFails(w) \/ ArmForAnswer(w)
      BY <1>0, <2>1 DEF Take, Rearm, Answer, AnswerFails, ArmForAnswer, Goto, object, counts, source
    <2>2. ASSUME NEW r \in Requests \cup {"incomplete"}, Parse(w, r) PROVE NoStreams'
      BY <1>0, <2>2 DEF Parse, Goto, counts, source
    <2>3. CASE StartStream(w) \/ StartRefused(w) \/ EnqueueHeader(w) \/ NotifyHeader(w)
                 \/ AddClient(w) \/ CountClient(w)
      BY <2>3 DEF StartStream, StartRefused, EnqueueHeader, NotifyHeader, AddClient, CountClient
    <2> QED
      BY <1>6, <2>1, <2>2, <2>3 DEF WorkerNext
  <1> QED
    BY <1>1, <1>2, <1>3, <1>4, <1>5, <1>6 DEF Next, MainNext, Threads

Holding == Places \ {"idle", "depart"}
Pending == IF event = NoEvent THEN 0 ELSE 1

\* The tickets of a connection: its threads, its places in the pool's queue
\* and what epoll_wait() returned.
LEMMA TicketsAre ==
    ASSUME TypeOK
    PROVE  /\ Cardinality(InPlace(Holding)) \in Nat
           /\ Tickets = Cardinality(InPlace(Holding)) + tasks + Pending
  <1>1. Holders = InPlace(Holding)
    BY DEF TypeOK, Holders, InPlace, Holding, Places
  <1> QED
    BY <1>1, InPlaceFinite DEF Tickets, Pending

LEMMA OneTicketStep ==
    ASSUME Requests \subseteq {"plain"}, SlotTypes, SlotTypes', NoStreams, OneTicket, [Next]_vars
    PROVE  OneTicket'
  <1> DEFINE H == Cardinality(InPlace(Holding))
  <1>0. /\ H \in Nat /\ tasks \in Nat /\ (Pending = 0 \/ Pending = 1)
        /\ Tickets = H + tasks + Pending
        /\ armed \in {"none", "in", "out", "inout"} /\ main \in Threads
        /\ Workers \subseteq Threads /\ main \notin Workers
    BY TicketsAre, SlotAssumption DEF SlotTypes, TypeOK, Threads, Pending
  <1>1. H' \in Nat /\ tasks' \in Nat /\ (Pending' = 0 \/ Pending' = 1) /\ Tickets' = H' + tasks' + Pending'
    <2>1. (TypeOK => H \in Nat /\ Tickets = H + tasks + Pending)'
      BY TicketsAre, PTL
    <2>2. TypeOK' => tasks' \in Nat
      BY SlotAssumption DEF TypeOK
    <2>3. Pending' = 0 \/ Pending' = 1
      BY DEF Pending
    <2> QED
      BY <2>1, <2>2, <2>3 DEF SlotTypes
  <1>2. ASSUME NEW t \in Threads, NEW x, Goto(t, x)
        PROVE  H' = H + (IF x \in Holding THEN 1 ELSE 0) - (IF at[t] \in Holding THEN 1 ELSE 0)
    <2> HIDE DEF Holding
    <2> QED
      BY <1>2, InPlaceAfterGoto
  <1>3. at' = at => H' = H
    BY DEF InPlace
  <1>4. event = NoEvent <=> Pending = 0
    BY DEF Pending
  <1>5. event' = NoEvent <=> Pending' = 0
    BY DEF Pending
  <1>6. /\ {"init", "close", "unlist", "uncount", "remove", "parse", "rearm", "answer", "arm"}
               \subseteq Holding
        /\ "idle" \notin Holding /\ "depart" \notin Holding
    BY DEF Holding, Places, Serving, Closing
  <1>7. ASSUME NEW t \in Threads, NEW x, Goto(t, x), x # "init", at[t] # "init"
        PROVE  at'[main] = "init" <=> at[main] = "init"
    BY <1>0, <1>7 DEF Goto, SlotTypes, TypeOK
  <1>8. at' \in [Threads -> Places] /\ at \in [Threads -> Places]
    BY DEF SlotTypes, TypeOK, Places
  <1> HIDE DEF H
  <1>10. CASE Accept
    <2>1. /\ Goto(main, "init") /\ at[main] = "idle" /\ kernel = 0 /\ kernel' # 0
          /\ event' = event /\ tasks' = tasks
      BY <1>10, SlotAssumption DEF Accept, SlotTypes, TypeOK
    <2>2. at'[main] = "init"
      BY <1>0, <1>8, <2>1 DEF Goto
    <2>3. H' = H + 1
      BY <1>0, <1>2, <1>6, <2>1
    <2> QED
      BY <1>0, <1>1, <1>4, <1>5, <2>1, <2>2, <2>3 DEF OneTicket
  <1>11. CASE InitConn
    <2>1. /\ Goto(main, "idle") /\ at[main] = "init" /\ kernel' = kernel /\ armed' = armed
          /\ event' = event /\ tasks' = tasks
      BY <1>11 DEF InitConn, epoll
    <2>2. H' = H - 1
      BY <1>0, <1>2, <1>6, <2>1
    <2> QED
      BY <1>0, <1>1, <1>4, <1>5, <2>1, <2>2 DEF OneTicket
  <1>12. ASSUME NEW k \in {"hup", "in", "out"}, EpollWait(k) PROVE OneTicket'
    <2>1. /\ armed # "none" /\ at[main] = "idle" /\ kernel # 0 /\ kernel' = kernel
          /\ armed' = "none" /\ at' = at /\ tasks' = tasks
      BY <1>12 DEF EpollWait, thread
    <2>2. H' = H /\ Tickets = 0
      BY <1>3, <2>1 DEF OneTicket
    <2>3. Tickets' <= 1
      BY <1>0, <1>1, <2>1, <2>2
    <2> QED
      BY <2>1, <2>3 DEF OneTicket
  <1>13. ASSUME Handling("hup") \/ Handling("in") \/ Handling("out")
         PROVE  /\ Pending = 1 /\ Pending' = 0 /\ H = 0 /\ tasks = 0 /\ Tickets = 1
                /\ at[main] = "idle" /\ armed = "none" /\ kernel # 0
    <2>1. event # NoEvent /\ event' = NoEvent /\ at[main] = "idle"
      BY <1>13 DEF Handling, NoEvent
    <2> QED
      BY <1>0, <1>4, <1>5, <2>1 DEF OneTicket
  <1>14. CASE HandleHup \/ ReadOrAppendFails \/ WriteEnds
    <2>1. /\ Handling("hup") \/ Handling("in") \/ Handling("out")
          /\ Goto(main, "close") /\ armed' = armed /\ kernel' = kernel /\ tasks' = tasks
      BY <1>14 DEF HandleHup, ReadOrAppendFails, WriteEnds
    <2>2. H' = H + 1
      BY <1>0, <1>2, <1>6, <1>13, <2>1
    <2> QED
      BY <1>0, <1>1, <1>13, <2>1, <2>2 DEF OneTicket
  <1>15. CASE ReadAndAppend
    <2>1. Handling("in") /\ at' = at /\ armed' = armed /\ kernel' = kernel /\ tasks' = tasks + 1
      BY <1>15 DEF ReadAndAppend, thread
    <2> QED
      BY <1>0, <1>1, <1>3, <1>13, <2>1 DEF OneTicket
  <1>16. CASE WriteStream \/ WriteNothing \/ WriteAll \/ WritePart
    <2>1. Handling("out") /\ at' = at /\ kernel' = kernel /\ tasks' = tasks
      BY <1>16 DEF WriteStream, WriteNothing, WriteAll, WritePart, thread
    <2> QED
      BY <1>0, <1>1, <1>3, <1>13, <2>1 DEF OneTicket
  <1>17. CASE SenderNext \/ PeerSends \/ PeerLeaves \/ UNCHANGED vars
    <2>1. at' = at /\ armed' = armed /\ kernel' = kernel /\ tasks' = tasks /\ event' = event
      BY <1>17 DEF SenderNext, Broadcast, EnqueueFrame, DropFrame, NotifyFrame, PeerSends, PeerLeaves,
                   NoStreams, vars, epoll, thread
    <2> QED
      BY <1>0, <1>1, <1>3, <1>4, <1>5, <2>1 DEF OneTicket
  <1>18. ASSUME NEW t \in Threads, TakeDescriptor(t) \/ Unlist(t) \/ Uncount(t)
         PROVE  OneTicket'
    <2>1. PICK x \in {"idle", "unlist", "uncount", "remove"} : Goto(t, x)
      BY <1>18 DEF TakeDescriptor, Unlist, Uncount
    <2>2. /\ at[t] \in {"close", "unlist", "uncount"}
          /\ armed' = armed /\ kernel' = kernel /\ tasks' = tasks /\ event' = event
      BY <1>18 DEF TakeDescriptor, Unlist, Uncount, epoll
    <2>3. H' = H + (IF x = "idle" THEN 0 ELSE 1) - 1
      BY <1>0, <1>2, <1>6, <2>1, <2>2
    <2>4. at'[main] = "init" <=> at[main] = "init"
      BY <1>7, <2>1, <2>2
    <2> QED
      BY <1>0, <1>1, <1>4, <1>5, <2>2, <2>3, <2>4 DEF OneTicket
  <1>19. ASSUME NEW t \in Threads, RemoveFd(t) PROVE OneTicket'
    <2>1. Goto(t, "depart") /\ at[t] = "remove" /\ armed' = "none" /\ tasks' = tasks /\ event' = event
      BY <1>19 DEF RemoveFd
    <2>2. H' = H - 1
      BY <1>0, <1>2, <1>6, <2>1
    <2> QED
      BY <1>0, <1>1, <1>4, <1>5, <2>1, <2>2 DEF OneTicket
  <1>20. ASSUME NEW t \in Threads, Depart(t) PROVE OneTicket'
    <2>1. /\ Goto(t, "idle") /\ at[t] = "depart"
          /\ armed' = armed /\ kernel' = kernel /\ tasks' = tasks /\ event' = event
      BY <1>20 DEF Depart, epoll
    <2>2. H' = H /\ (at'[main] = "init" <=> at[main] = "init")
      BY <1>0, <1>2, <1>6, <1>7, <2>1
    <2> QED
      BY <1>0, <1>1, <1>4, <1>5, <2>1, <2>2 DEF OneTicket
  <1>21. ASSUME NEW w \in Workers, WorkerNext(w), ~CloseConn(w) PROVE OneTicket'
    <2>1. CASE Take(w)
      <3>1. /\ Goto(w, "parse") /\ at[w] = "idle" /\ tasks' = tasks - 1
            /\ armed' = armed /\ kernel' = kernel /\ event' = event
        BY <2>1 DEF Take, epoll
      <3>2. H' = H + 1 /\ (at'[main] = "init" <=> at[main] = "init")
        BY <1>0, <1>2, <1>6, <1>7, <3>1
      <3> QED
        BY <1>0, <1>1, <1>4, <1>5, <3>1, <3>2 DEF OneTicket
    <2>2. CASE Answer(w) \/ AnswerFails(w) \/ \E r \in Requests \cup {"incomplete"} : Parse(w, r)
      <3>1. PICK x \in {"rearm", "answer", "arm", "close"} : Goto(w, x)
        BY <2>2 DEF Answer, AnswerFails, Parse
      <3>2. /\ at[w] \in {"parse", "answer"}
            /\ armed' = armed /\ kernel' = kernel /\ tasks' = tasks /\ event' = event
        BY <2>2 DEF Answer, AnswerFails, Parse, epoll
      <3>3. H' = H /\ (at'[main] = "init" <=> at[main] = "init")
        BY <1>0, <1>2, <1>6, <1>7, <3>1, <3>2
      <3> QED
        BY <1>0, <1>1, <1>4, <1>5, <3>2, <3>3 DEF OneTicket
    <2>3. CASE Rearm(w) \/ ArmForAnswer(w)
      <3>1. /\ Goto(w, "idle") /\ at[w] \in {"rearm", "arm"}
            /\ kernel' = kernel /\ tasks' = tasks /\ event' = event
        BY <2>3 DEF Rearm, ArmForAnswer
      <3>2. H' = H - 1
        <4>1. w \in Threads /\ at[w] \in Holding
          BY <1>0, <1>6, <3>1
        <4> QED
          BY <1>0, <1>2, <1>6, <3>1, <4>1
      <3>3. Tickets = 1 /\ Tickets' = 0 /\ kernel # 0
        BY <1>0, <1>1, <1>4, <1>5, <3>1, <3>2 DEF OneTicket
      <3> QED
        BY <3>1, <3>3 DEF OneTicket
    <2>4. ~(StartStream(w) \/ StartRefused(w) \/ EnqueueHeader(w) \/ NotifyHeader(w)
               \/ AddClient(w) \/ CountClient(w))
      BY DEF StartStream, StartRefused, EnqueueHeader, NotifyHeader, AddClient, CountClient,
             NoStreams, Starting
    <2> QED
      BY <1>21, <2>1, <2>2, <2>3, <2>4 DEF WorkerNext
  <1> QED
    BY <1>0, <1>10, <1>11, <1>12, <1>14, <1>15, <1>16, <1>17, <1>18, <1>19, <1>20, <1>21
       DEF Next, MainNext, HandleNext, CloseConn

\* "EPOLLONESHOT keeps one connection from being handled by different threads"
\* (addfd()): true for every number of workers and connections as long as no
\* request starts a stream.
THEOREM OneThreadWithoutStreams ==
    ASSUME Requests \subseteq {"plain"}
    PROVE  Spec => []OneThreadPerConnection
  <1>1. Init => NoStreams /\ OneTicket
    <2> SUFFICES ASSUME Init PROVE NoStreams /\ OneTicket
      OBVIOUS
    <2>1. Holders = {}
      BY DEF Init, Holders
    <2>2. Tickets = 0
      BY <2>1, FS_EmptySet DEF Init, Tickets
    <2> QED
      BY <2>2 DEF Init, NoStreams, OneTicket, Starting, Threads
  <1>2. SlotTypes /\ SlotTypes' /\ NoStreams /\ OneTicket /\ [Next]_vars => NoStreams' /\ OneTicket'
    BY NoStreamsStep, OneTicketStep DEF SlotTypes
  <1>3. OneTicket => OneThreadPerConnection
    BY DEF OneTicket, OneThreadPerConnection
  <1> QED
    BY <1>1, <1>2, <1>3, SlotTypesAlways, PTL DEF Spec

=============================================================================
