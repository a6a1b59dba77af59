------------------------------ MODULE ConnSlot ------------------------------
(***************************************************************************)
(* One element of the array users[] (src/main.cpp, src/http_conn.cpp): the *)
(* http_conn that serves every connection whose descriptor has one number. *)
(* The kernel gives the number to a new connection as soon as the old one  *)
(* is closed, and the object is used again with it.  The main thread, the  *)
(* pool's workers and a broadcaster all reach the object, and the one-shot *)
(* interest of epoll decides whose turn it is.                             *)
(* What waits in the send queue is a flag here (StreamConn has the queue)  *)
(* and what a request says is its kind.  A section under a lock, a system  *)
(* call with the assignments around it, or a parse is one action.          *)
(***************************************************************************)
EXTENDS Integers, FiniteSets, TLC

CONSTANTS Workers,      \* threads of the pool
          Requests,     \* complete requests a parse may find
          MaxConns,     \* bound on the connections that use the slot
          MaxTasks,     \* bound on the slot's places in the pool's queue
          MaxSends      \* bound on the times a peer sends

StreamKinds == {"mjpeg", "flv"}
main == "main"
Threads == Workers \cup {main}

ASSUME SlotAssumption ==
    /\ main \notin Workers /\ IsFiniteSet(Workers)
    /\ Requests \subseteq StreamKinds \cup {"plain"}
    /\ {MaxConns, MaxTasks, MaxSends} \subseteq Nat

VARIABLES
    m_sockfd,       \* "open", or "closed" for -1
    m_conn_type,    \* "http", "mjpeg" or "flv"
    to_send,        \* m_bytes_to_send > 0: a response waits
    waiting,        \* the send queue is not empty
    bytes,          \* the read buffer has bytes no parse has seen
    listed,         \* the client lists of the manager that have the slot
    client_count,   \* g_frame.client_count, this slot's share
    user_count,     \* m_user_count, this slot's share
    kernel,         \* the connection that has the descriptor, 0 for none
    armed,          \* one-shot interest: "none", "in", "out", "inout"
    event,          \* what epoll_wait() returned and main has not handled
    tasks,          \* times the slot waits in the pool's queue
    at,             \* where each thread is, "idle" when not at this slot
    job,            \* the kind of request each worker serves
    part,           \* the stream header each worker enqueues next
    sender,         \* broadcaster: "idle", "enqueue" or "notify"
    feed,           \* the kind of stream it broadcasts
    client,         \* number of connections so far
    peer, unread,   \* the peer is "up" or "gone"; its bytes wait
    sends           \* how often it sent

object == <<m_sockfd, m_conn_type, to_send, waiting, bytes>>
counts == <<listed, client_count, user_count>>
epoll == <<kernel, armed, event>>
thread == <<at, job, part>>
source == <<sender, feed>>
outside == <<client, peer, unread, sends>>
vars == <<object, counts, epoll, tasks, thread, source, outside>>

Closing == {"close", "unlist", "uncount", "remove", "depart"}
Serving == {"parse", "rearm", "answer", "arm", "start", "enqueue", "notify", "add", "count"}
NoEvent == [kind |-> "none", of |-> 0]

TypeOK ==
    /\ m_sockfd \in {"open", "closed"} /\ m_conn_type \in StreamKinds \cup {"http"}
    /\ to_send \in BOOLEAN /\ waiting \in BOOLEAN /\ bytes \in BOOLEAN
    /\ listed \subseteq StreamKinds
    /\ client_count \in Nat /\ user_count \in Int
    /\ kernel \in 0 .. MaxConns /\ armed \in {"none", "in", "out", "inout"}
    /\ event \in [kind : {"none", "hup", "in", "out"}, of : 0 .. MaxConns]
    /\ tasks \in 0 .. MaxTasks
    /\ at \in [Threads -> {"idle", "init"} \cup Serving \cup Closing]
    /\ at[main] \in {"idle", "init"} \cup Closing
    /\ \A w \in Workers : at[w] # "init"
    /\ job \in [Workers -> StreamKinds \cup {"plain"}] /\ part \in [Workers -> 1 .. 4]
    /\ sender \in {"idle", "enqueue", "notify"} /\ feed \in StreamKinds
    /\ client \in 0 .. MaxConns /\ peer \in {"up", "gone"}
    /\ unread \in BOOLEAN /\ sends \in 0 .. MaxSends
    /\ m_sockfd = "closed" => ~waiting
    /\ kernel # 0 => kernel = client

Init ==
    /\ m_sockfd = "closed" /\ m_conn_type = "http"
    /\ to_send = FALSE /\ waiting = FALSE /\ bytes = FALSE
    /\ listed = {} /\ client_count = 0 /\ user_count = 0
    /\ kernel = 0 /\ armed = "none" /\ event = NoEvent /\ tasks = 0
    /\ at = [t \in Threads |-> "idle"]
    /\ job = [w \in Workers |-> "plain"] /\ part = [w \in Workers |-> 1]
    /\ sender = "idle" /\ feed = "mjpeg"
    /\ client = 0 /\ peer = "up" /\ unread = FALSE /\ sends = 0

\* modfd() of the slot's descriptor; on -1 it fails and changes nothing.
Arm(interest) == armed' = IF m_sockfd = "open" THEN interest ELSE armed
Goto(t, place) == at' = [at EXCEPT ![t] = place]

\* init() without arguments: the object forgets the request and the stream.
Reset ==
    /\ m_conn_type' = "http" /\ to_send' = FALSE
    /\ waiting' = FALSE /\ bytes' = FALSE

-----------------------------------------------------------------------------
\* The main thread.

\* accept() gets the number.  In the batch of one epoll_wait() the listening
\* socket may come before an event of the connection that had the number.
Accept ==
    /\ at[main] = "idle" /\ kernel = 0 /\ client < MaxConns
    /\ event = NoEvent \/ event.of = client
    /\ client' = client + 1 /\ kernel' = client + 1
    /\ m_sockfd' = "open" /\ armed' = "in"
    /\ peer' = "up" /\ unread' = FALSE /\ sends' = 0
    /\ Goto(main, "init")
    /\ UNCHANGED <<m_conn_type, to_send, waiting, bytes, counts, event, tasks, job, part, source>>

InitConn ==
    /\ at[main] = "init"
    /\ user_count' = user_count + 1
    /\ Reset
    /\ Goto(main, "idle")
    /\ UNCHANGED <<m_sockfd, listed, client_count, epoll, tasks, job, part, source, outside>>

\* epoll_wait() returns what is ready of what is armed and disarms it.
Ready(kind) ==
    CASE kind = "hup" -> peer = "gone"
      [] kind = "in"  -> peer = "up" /\ unread /\ armed \in {"in", "inout"}
      [] kind = "out" -> /\ peer = "up" /\ armed \in {"out", "inout"}
                         /\ ~(unread /\ armed = "inout")

EpollWait(kind) ==
    /\ at[main] = "idle" /\ event = NoEvent
    /\ kernel # 0 /\ armed # "none" /\ Ready(kind)
    /\ event' = [kind |-> kind, of |-> kernel] /\ armed' = "none"
    /\ UNCHANGED <<object, counts, kernel, tasks, thread, source, outside>>

Handling(kind) == at[main] = "idle" /\ event.kind = kind /\ event' = NoEvent

HandleHup ==
    /\ Handling("hup")
    /\ Goto(main, "close")
    /\ UNCHANGED <<object, counts, kernel, armed, tasks, job, part, source, outside>>

\* read() takes everything there is; the pool's queue has a place for it.
ReadAndAppend ==
    /\ Handling("in")
    /\ m_sockfd = "open" /\ peer = "up" /\ tasks < MaxTasks
    /\ bytes' = (bytes \/ unread) /\ unread' = FALSE
    /\ tasks' = tasks + 1
    /\ UNCHANGED <<m_sockfd, m_conn_type, to_send, waiting, counts, kernel, armed,
                   thread, source, client, peer, sends>>

\* The peer is gone, the buffer is full, or the pool's queue is: close.
ReadOrAppendFails ==
    /\ Handling("in")
    /\ Goto(main, "close")
    /\ UNCHANGED <<object, counts, kernel, armed, tasks, job, part, source, outside>>

\* write() of a stream: the queue runs empty, the socket fills up, or it fails.
WriteStream ==
    /\ Handling("out") /\ m_conn_type # "http" /\ m_sockfd = "open"
    /\ \/ waiting' = FALSE /\ Arm("in")
       \/ waiting /\ waiting' = waiting /\ Arm("inout")
    /\ UNCHANGED <<m_sockfd, m_conn_type, to_send, bytes, counts, kernel, tasks, thread,
                   source, outside>>

\* Nothing to send: the response is over.
WriteNothing ==
    /\ Handling("out") /\ m_conn_type = "http" /\ ~to_send
    /\ Arm("in") /\ Reset
    /\ UNCHANGED <<m_sockfd, counts, kernel, tasks, thread, source, outside>>

\* The whole response is sent and the connection is kept alive.
WriteAll ==
    /\ Handling("out") /\ m_conn_type = "http" /\ to_send /\ m_sockfd = "open"
    /\ Reset /\ Arm("in")
    /\ UNCHANGED <<m_sockfd, counts, kernel, tasks, thread, source, outside>>

\* The socket is full before the response is sent.
WritePart ==
    /\ Handling("out") /\ m_conn_type = "http" /\ to_send /\ m_sockfd = "open"
    /\ Arm("out")
    /\ UNCHANGED <<object, counts, kernel, tasks, thread, source, outside>>

\* write() returns false: an error, a closed descriptor, or a complete
\* response without keep-alive.
WriteEnds ==
    /\ Handling("out")
    /\ m_conn_type # "http" => m_sockfd = "closed" \/ (waiting /\ peer = "gone")
    /\ m_conn_type = "http" => to_send
    /\ Goto(main, "close")
    /\ UNCHANGED <<object, counts, kernel, armed, tasks, job, part, source, outside>>

-----------------------------------------------------------------------------
\* close_conn(), by the main thread or by a worker.

\* Wrong variant: the descriptor is tested but not taken.
TakeNothing(t) ==
    /\ at[t] = "close"
    /\ Goto(t, IF m_sockfd = "open" THEN "unlist" ELSE "idle")
    /\ UNCHANGED <<object, counts, epoll, tasks, job, part, source, outside>>

\* Whoever finds the descriptor open closes it; for any other it is -1.
TakeDescriptor(t) ==
    /\ at[t] = "close"
    /\ m_sockfd' = "closed" /\ waiting' = FALSE
    /\ Goto(t, IF m_sockfd = "open" THEN "unlist" ELSE "idle")
    /\ UNCHANGED <<m_conn_type, to_send, bytes, counts, epoll, tasks, job, part, source, outside>>

Unlist(t) ==
    /\ at[t] = "unlist"
    /\ listed' = IF m_conn_type = "http" THEN listed ELSE {}
    /\ Goto(t, IF "mjpeg" \in listed \ listed' THEN "uncount" ELSE "remove")
    /\ UNCHANGED <<object, client_count, user_count, epoll, tasks, job, part, source, outside>>

Uncount(t) ==
    /\ at[t] = "uncount"
    /\ client_count' = IF client_count > 0 THEN client_count - 1 ELSE 0
    /\ Goto(t, "remove")
    /\ UNCHANGED <<object, listed, user_count, epoll, tasks, job, part, source, outside>>

RemoveFd(t) ==
    /\ at[t] = "remove"
    /\ kernel' = 0 /\ armed' = "none"
    /\ Goto(t, "depart")
    /\ UNCHANGED <<object, counts, event, tasks, job, part, source, outside>>

Depart(t) ==
    /\ at[t] = "depart"
    /\ user_count' = user_count - 1
    /\ Goto(t, "idle")
    /\ UNCHANGED <<object, listed, client_count, epoll, tasks, job, part, source, outside>>

CloseConn(t) == TakeDescriptor(t) \/ Unlist(t) \/ Uncount(t) \/ RemoveFd(t) \/ Depart(t)

-----------------------------------------------------------------------------
\* A worker: process().
Take(w) ==
    /\ at[w] = "idle" /\ tasks > 0
    /\ tasks' = tasks - 1
    /\ Goto(w, "parse")
    /\ UNCHANGED <<object, counts, epoll, job, part, source, outside>>

\* process_read(): a request needs bytes no parse has seen.
Parse(w, request) ==
    /\ at[w] = "parse"
    /\ bytes \/ request = "incomplete"
    /\ bytes' = FALSE
    /\ IF request = "incomplete"
       THEN Goto(w, "rearm") /\ UNCHANGED <<job, part>>
       ELSE /\ Goto(w, IF request = "plain" THEN "answer" ELSE "start")
            /\ job' = [job EXCEPT ![w] = request] /\ part' = [part EXCEPT ![w] = 1]
    /\ UNCHANGED <<m_sockfd, m_conn_type, to_send, waiting, counts, epoll, tasks, source, outside>>

\* Wrong variant: an incomplete request returns without arming the descriptor.
RearmNothing(w) ==
    /\ at[w] = "rearm"
    /\ Goto(w, "idle")
    /\ UNCHANGED <<object, counts, epoll, tasks, job, part, source, outside>>

\* Wrong variant: the descriptor is armed first and read for the request after.
RearmEarly(w) ==
    /\ at[w] = "rearm"
    /\ Arm("in")
    /\ UNCHANGED <<object, counts, kernel, event, tasks, thread, source, outside>>

\* NO_REQUEST: wait for more bytes.
Rearm(w) ==
    /\ at[w] = "rearm"
    /\ Arm("in")
    /\ Goto(w, "idle")
    /\ UNCHANGED <<object, counts, kernel, event, tasks, job, part, source, outside>>

\* The response is built, or does not fit and the connection is closed.
Answer(w) ==
    /\ at[w] = "answer"
    /\ to_send' = TRUE
    /\ Goto(w, "arm")
    /\ UNCHANGED <<m_sockfd, m_conn_type, waiting, bytes, counts, epoll, tasks, job, part, source, outside>>

AnswerFails(w) ==
    /\ at[w] = "answer"
    /\ Goto(w, "close")
    /\ UNCHANGED <<object, counts, epoll, tasks, job, part, source, outside>>

ArmForAnswer(w) ==
    /\ at[w] = "arm"
    /\ Arm("out")
    /\ Goto(w, "idle")
    /\ UNCHANGED <<object, counts, kernel, event, tasks, job, part, source, outside>>

\* start_mjpeg_stream(), start_flv_stream(): the type, the headers, the list.
StartStream(w) ==
    /\ at[w] = "start"
    /\ m_conn_type' = job[w]
    /\ Goto(w, "enqueue")
    /\ UNCHANGED <<m_sockfd, to_send, waiting, bytes, counts, epoll, tasks, job, part, source, outside>>

\* The FLV source is not ready.
StartRefused(w) ==
    /\ at[w] = "start" /\ job[w] = "flv"
    /\ Goto(w, "close")
    /\ UNCHANGED <<object, counts, epoll, tasks, job, part, source, outside>>

\* enqueue_packet() for the response header, enqueue_flv_packet() after it.
\* (AcceptsClosed: wrong variant without the test for -1.)
AcceptsClosed(kind, first) == kind = "flv" /\ ~first => m_conn_type = "flv"
Accepts(kind, first) == m_sockfd = "open" /\ (kind = "flv" /\ ~first => m_conn_type = "flv")

EnqueueHeader(w) ==
    /\ at[w] = "enqueue"
    /\ LET taken == Accepts(job[w], part[w] = 1) IN
       /\ waiting' = (waiting \/ taken)
       /\ Goto(w, IF taken THEN "notify" ELSE "close")
    /\ UNCHANGED <<m_sockfd, m_conn_type, to_send, bytes, counts, epoll, tasks, job, part, source, outside>>

Headers(kind) == IF kind = "flv" THEN 3 ELSE 1

NotifyHeader(w) ==
    /\ at[w] = "notify"
    /\ Arm("inout")
    /\ part' = [part EXCEPT ![w] = @ + 1]
    /\ Goto(w, IF part[w] = Headers(job[w]) THEN "add" ELSE "enqueue")
    /\ UNCHANGED <<object, counts, kernel, event, tasks, job, source, outside>>

AddClient(w) ==
    /\ at[w] = "add"
    /\ listed' = listed \cup {job[w]}
    /\ Goto(w, IF job[w] = "mjpeg" /\ "mjpeg" \notin listed THEN "count" ELSE "idle")
    /\ UNCHANGED <<object, client_count, user_count, epoll, tasks, job, part, source, outside>>

CountClient(w) ==
    /\ at[w] = "count"
    /\ client_count' = client_count + 1
    /\ Goto(w, "idle")
    /\ UNCHANGED <<object, listed, user_count, epoll, tasks, job, part, source, outside>>

-----------------------------------------------------------------------------
\* The broadcaster: the list is copied under the manager's lock, the packets
\* are enqueued without it.
Broadcast(kind) ==
    /\ sender = "idle" /\ kind \in listed
    /\ sender' = "enqueue" /\ feed' = kind
    /\ UNCHANGED <<object, counts, epoll, tasks, thread, outside>>

EnqueueFrame ==
    /\ sender = "enqueue" /\ Accepts(feed, FALSE)
    /\ waiting' = TRUE /\ sender' = "notify"
    /\ UNCHANGED <<m_sockfd, m_conn_type, to_send, bytes, counts, epoll, tasks, thread, feed, outside>>

\* PACKET_DROPPED: refused, or an FLV packet that waits for a key frame.
DropFrame ==
    /\ sender = "enqueue" /\ (feed = "flv" \/ ~Accepts(feed, FALSE))
    /\ sender' = "idle"
    /\ UNCHANGED <<object, counts, epoll, tasks, thread, feed, outside>>

NotifyFrame ==
    /\ sender = "notify"
    /\ Arm("inout")
    /\ sender' = "idle"
    /\ UNCHANGED <<object, counts, kernel, event, tasks, thread, feed, outside>>

-----------------------------------------------------------------------------
\* The peer.
PeerSends ==
    /\ kernel # 0 /\ peer = "up" /\ ~unread /\ sends < MaxSends
    /\ unread' = TRUE /\ sends' = sends + 1
    /\ UNCHANGED <<object, counts, epoll, tasks, thread, source, client, peer>>

PeerLeaves ==
    /\ kernel # 0 /\ peer = "up"
    /\ peer' = "gone"
    /\ UNCHANGED <<object, counts, epoll, tasks, thread, source, client, unread, sends>>

-----------------------------------------------------------------------------
HandleNext ==
    \/ HandleHup \/ ReadAndAppend \/ ReadOrAppendFails
    \/ WriteStream \/ WriteNothing \/ WriteAll \/ WritePart \/ WriteEnds

\* What the main thread does for a connection it has accepted.
MainNext == InitConn \/ (\E k \in {"hup", "in", "out"} : EpollWait(k)) \/ HandleNext \/ CloseConn(main)

WorkerNext(w) ==
    \/ Take(w) \/ \E r \in Requests \cup {"incomplete"} : Parse(w, r)
    \/ Rearm(w) \/ Answer(w) \/ AnswerFails(w) \/ ArmForAnswer(w)
    \/ StartStream(w) \/ StartRefused(w) \/ EnqueueHeader(w) \/ NotifyHeader(w)
    \/ AddClient(w) \/ CountClient(w)
    \/ CloseConn(w)

SenderNext == (\E k \in StreamKinds : Broadcast(k)) \/ EnqueueFrame \/ DropFrame \/ NotifyFrame

Next ==
    \/ Accept \/ MainNext \/ (\E w \in Workers : WorkerNext(w)) \/ SenderNext
    \/ PeerSends \/ PeerLeaves

Spec == Init /\ [][Next]_vars

\* The scheduler runs every thread that can run.  A response is finite and
\* EPOLLOUT means that some of it can be sent, so its last part is sent.
FairSpec ==
    /\ Spec
    /\ WF_vars(MainNext) /\ \A w \in Workers : WF_vars(WorkerNext(w))
    /\ SF_vars(WriteAll \/ WriteEnds)

-----------------------------------------------------------------------------
\* The object never names a descriptor of another connection: while m_sockfd
\* is set, the kernel has the descriptor for the connection that set it, so
\* close() hits no connection but the slot's (close_conn()).  And http_clients
\* of /api/status, m_user_count, is the number of connections that have a
\* descriptor, those about to be counted in or out aside, however the closes
\* interleave with each other and with the next connection.
SlotOwnsFd ==
    /\ m_sockfd = "open" => kernel = client /\ kernel # 0
    /\ user_count + (IF at[main] = "init" THEN 1 ELSE 0)
           = (IF kernel # 0 THEN 1 ELSE 0) + Cardinality({t \in Threads : at[t] = "depart"})

\* No connection is forgotten: epoll reports it, or some thread has it in
\* hand and will arm it again or close it.
NoForgottenConnection ==
    kernel # 0 =>
        \/ armed # "none" \/ event # NoEvent \/ tasks > 0
        \/ at[main] # "idle" \/ sender = "notify"
        \/ \E w \in Workers : at[w] # "idle"

\* "EPOLLONESHOT keeps one connection from being handled by different
\* threads" (comment of addfd()): while one thread handles the connection no
\* other does, none is about to, and epoll reports nothing; so a response is
\* complete before EPOLLOUT hands it to main.
Holders == {t \in Threads : at[t] \notin {"idle", "depart"}}
Tickets == Cardinality(Holders) + tasks + (IF event = NoEvent THEN 0 ELSE 1)

OneThreadPerConnection ==
    /\ Tickets <= 1
    /\ armed # "none" /\ at[main] # "init" => Tickets = 0

\* The same promise, of two workers in process() only.
OneWorkerPerConnection == Cardinality({w \in Workers : at[w] \in Serving}) <= 1

\* A peer that hangs up does not keep its descriptor for ever, and the bytes a
\* peer sends while an earlier request is served do not wait for ever: the
\* connection is read again or closed.
PeerIsServed ==
    \A c \in 1 .. MaxConns :
        /\ (kernel = c /\ peer = "gone") ~> (kernel # c)
        /\ (kernel = c /\ unread) ~> (kernel # c \/ ~unread)

\* "client_count: online clients" (shared_buffer.h): when no start and no
\* close is under way it is the number of open /mjpeg connections.
Settled == \A t \in Threads : at[t] \in {"idle", "parse", "rearm", "answer", "arm"}

ClientCountOnline ==
    Settled => client_count = (IF m_sockfd = "open" /\ m_conn_type = "mjpeg" THEN 1 ELSE 0)
=============================================================================
