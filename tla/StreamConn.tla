----------------------------- MODULE StreamConn -----------------------------
(***************************************************************************)
(* One long-lived stream (src/http_conn.cpp with the broadcasts of         *)
(* src/stream_manager.cpp), from the moment a worker has parsed a request  *)
(* for /mjpeg or /live.flv until the socket is closed.  Four parties touch *)
(* the connection:                                                         *)
(*   - a pool worker enqueues the headers and registers the client, or     *)
(*     parses bytes the client sends later;                                *)
(*   - the capture or source thread broadcasts packets to the clients;     *)
(*   - the main thread reacts to epoll events, writes and closes;          *)
(*   - the peer reads, may send more bytes and may go away.                *)
(* A section under m_send_lock is one action.  Arming the descriptor       *)
(* (notify_write) is a section of its own, after the enqueue.              *)
(***************************************************************************)
EXTENDS SendQueue, FiniteSets

CONSTANTS Kinds,         \* the kinds of stream considered: "mjpeg", "flv"
          FrameDepth,    \* m_max_queue_depth (2)
          FlvDepth,      \* max_queue_depth of enqueue_flv_packet (100)
          PacketSize,    \* units in every packet
          BufferSize,    \* units of the kernel's socket buffer
          MaxPackets,    \* bound on the broadcasts of a behaviour
          Extra,         \* for each kind what a later read may contain: "partial", "blank"
          MaxExtra       \* bound on such reads

ASSUME StreamAssumption ==
    /\ Kinds \subseteq {"mjpeg", "flv"}
    /\ {FrameDepth, FlvDepth, PacketSize, BufferSize} \subseteq Nat \ {0}
    /\ MaxPackets \in Nat /\ MaxExtra \in Nat
    /\ Extra \in [Kinds -> SUBSET {"partial", "blank"}]

VARIABLES
    m_sockfd,               \* "open" or "closed" (-1)
    m_conn_type,            \* the kind of stream
    m_send_queue, m_send_offset, m_wait_flv_key_frame,
    client_listed,          \* the connection is in the manager's client list
    armed,                  \* one-shot epoll interest: "none", "in", "inout"
    main,                   \* main thread: "idle", "write", "close", "unlist"
    worker,                 \* worker: "idle", "parse", "enqueue", "notify", "add"
    header,                 \* index of the next header the worker enqueues
    sender,                 \* broadcaster: "idle", "enqueue", "notify", "account"
    packet,                 \* the packet being broadcast
    outcome,                \* its PacketQueueResult for this client
    broadcasts,             \* number of packets broadcast so far
    dropped_packets,        \* StreamStats.dropped_packets
    room,                   \* free units in the socket buffer
    peer,                   \* "up" or "gone"
    unread, extra,          \* bytes of the peer wait; how often it sent any
    queued,                 \* times the connection waits in the pool's queue
    wire,                   \* ghost: what went into the socket, as segments
    offered,                \* ghost: ids offered to the open, listed client
    picture                 \* ghost: id of the newest key or inter packet

connVars == <<m_sockfd, m_conn_type, m_send_queue, m_send_offset, m_wait_flv_key_frame>>
sendVars == <<sender, packet, outcome, broadcasts, dropped_packets, offered, picture>>
peerVars == <<room, peer, unread, extra>>
workVars == <<worker, header, queued>>
vars == <<connVars, client_listed, armed, main, workVars, sendVars, peerVars, wire>>

\* `after' is the picture before this packet in the order of broadcasts.
Packet(n, c, a) == [id |-> n, class |-> c, size |-> PacketSize, after |-> a]

Headers == IF m_conn_type = "mjpeg" THEN <<Packet(1, "http", 0)>>
           ELSE <<Packet(1, "http", 0), Packet(2, "config", 0), Packet(3, "config", 0)>>

\* What the sources hand to the broadcasts: JPEG frames, or video tags and
\* now and then a new sequence header.
BroadcastClasses == IF m_conn_type = "mjpeg" THEN {"frame"} ELSE {"config", "key", "inter"}
Ids == 1 .. 3 + MaxPackets
Packets == [id : Ids, size : {PacketSize}, after : {0} \cup Ids,
            class : {"http", "config", "key", "inter", "frame"}]
\* Depth that start_mjpeg_stream(), start_flv_stream() pass for the header.
HeaderDepth == IF m_conn_type = "mjpeg" THEN 10 ELSE 3
Segments == [pkt : Packets, sent : 1 .. PacketSize]

\* A client that sends a further empty line may start its stream again; one
\* that sends other bytes takes the interest in EPOLLOUT away.
StartedOnce == "blank" \in Extra[m_conn_type] => extra = 0

\* The types, and the bound of the queue: a peer that does not read cannot make
\* the server hold more than the depth of its kind of stream.
TypeOK ==
    /\ m_sockfd \in {"open", "closed"} /\ m_conn_type \in Kinds
    /\ m_send_queue \in Seq(Packets)
    /\ StartedOnce => Len(m_send_queue) <= IF m_conn_type = "flv" THEN FlvDepth ELSE FrameDepth
    /\ m_send_offset \in 0 .. PacketSize - 1
    /\ m_send_queue = <<>> => m_send_offset = 0
    /\ m_wait_flv_key_frame \in BOOLEAN
    /\ client_listed \in BOOLEAN
    /\ armed \in {"none", "in", "inout"}
    /\ main \in {"idle", "write", "close", "unlist"}
    /\ worker \in {"idle", "parse", "enqueue", "notify", "add"}
    /\ header \in 1 .. Len(Headers) + 1
    /\ sender \in {"idle", "enqueue", "notify", "account"}
    /\ packet \in Packets
    /\ outcome \in {"none", "dropped", "enqueued", "enqueued_after_drop"}
    /\ broadcasts \in 0 .. MaxPackets /\ dropped_packets \in 0 .. MaxPackets
    /\ room \in 0 .. BufferSize /\ peer \in {"up", "gone"}
    /\ unread \in BOOLEAN /\ extra \in 0 .. MaxExtra /\ queued \in 0 .. MaxExtra
    /\ wire \in Seq(Segments)
    /\ offered \subseteq Ids /\ picture \in {0} \cup Ids

Init ==
    /\ m_sockfd = "open" /\ m_conn_type \in Kinds
    /\ m_send_queue = <<>> /\ m_send_offset = 0
    /\ m_wait_flv_key_frame = (m_conn_type = "flv")    \* start_flv_stream sets it first
    /\ client_listed = FALSE
    /\ armed = "none"                   \* the request's event used the one shot
    /\ main = "idle" /\ worker = "enqueue" /\ header = 1
    /\ sender = "idle" /\ packet = Headers[1] /\ outcome = "none"
    /\ broadcasts = 0 /\ dropped_packets = 0
    /\ room = BufferSize /\ peer = "up" /\ unread = FALSE /\ extra = 0
    /\ queued = 0
    /\ wire = <<>> /\ offered = {} /\ picture = 0

-----------------------------------------------------------------------------
\* Results of the two enqueue functions on the connection's state.
Queued(p, depth) == EnqueuePacket(m_send_queue, m_send_offset, p, depth)
QueuedFlv(p) == EnqueueFlv(m_send_queue, m_send_offset, m_wait_flv_key_frame, p, FlvDepth)

DoEnqueue(p, depth) ==
    IF m_conn_type = "flv" /\ p.class # "http"
    THEN LET e == QueuedFlv(p) IN
         /\ m_send_queue' = e.queue /\ m_send_offset' = e.off
         /\ m_wait_flv_key_frame' = e.wait
    ELSE /\ m_send_queue' = Queued(p, depth).queue
         /\ UNCHANGED <<m_send_offset, m_wait_flv_key_frame>>

ResultOf(p, depth) ==
    IF m_conn_type = "flv" /\ p.class # "http" THEN QueuedFlv(p).result ELSE Queued(p, depth).result

\* notify_write(), under m_send_lock.
ArmForReadOnly == armed' = IF m_sockfd = "open" THEN "in" ELSE armed   \* wrong variant
NotifyWrite == armed' = IF m_sockfd = "open" THEN "inout" ELSE armed

-----------------------------------------------------------------------------
\* The worker: start_mjpeg_stream(), start_flv_stream(), process().

\* A closed socket refuses the header: the start fails, close_conn() finds
\* nothing left to close.
StartEnqueue ==
    /\ worker = "enqueue"
    /\ IF m_sockfd = "open"
       THEN DoEnqueue(Headers[header], HeaderDepth) /\ worker' = "notify"
       ELSE worker' = "idle" /\ UNCHANGED <<m_send_queue, m_send_offset, m_wait_flv_key_frame>>
    /\ UNCHANGED <<m_sockfd, m_conn_type, client_listed, armed, main, header, queued, sendVars, peerVars, wire>>

StartNotify ==
    /\ worker = "notify"
    /\ NotifyWrite
    /\ header' = header + 1
    /\ worker' = IF header = Len(Headers) THEN "add" ELSE "enqueue"
    /\ UNCHANGED <<connVars, client_listed, main, queued, sendVars, peerVars, wire>>

AddClient ==
    /\ worker = "add"
    /\ client_listed' = TRUE
    /\ worker' = "idle"
    /\ UNCHANGED <<connVars, armed, main, header, queued, sendVars, peerVars, wire>>

\* More bytes of the client: without a complete line the request is still
\* incomplete and only reading is armed again; a further empty line ends the
\* "request" once more and the stream is started again.
TakeTask ==
    /\ worker = "idle" /\ queued > 0
    /\ worker' = "parse" /\ queued' = queued - 1
    /\ UNCHANGED <<connVars, client_listed, armed, main, header, sendVars, peerVars, wire>>

ParsePartial ==
    /\ worker = "parse" /\ "partial" \in Extra[m_conn_type]
    /\ armed' = IF m_sockfd = "open" THEN "in" ELSE armed
    /\ worker' = "idle"
    /\ UNCHANGED <<connVars, client_listed, main, header, queued, sendVars, peerVars, wire>>

ParseBlank ==
    /\ worker = "parse" /\ "blank" \in Extra[m_conn_type]
    /\ worker' = "enqueue" /\ header' = 1
    /\ m_wait_flv_key_frame' = (m_conn_type = "flv")
    /\ UNCHANGED <<m_sockfd, m_conn_type, m_send_queue, m_send_offset, client_listed, armed, main,
                   queued, sendVars, peerVars, wire>>

-----------------------------------------------------------------------------
\* The broadcaster: snapshot of the list, enqueue, notify, counters.
Broadcast(c) ==
    /\ sender = "idle" /\ broadcasts < MaxPackets
    /\ broadcasts' = broadcasts + 1
    /\ packet' = Packet(Len(Headers) + broadcasts + 1, c, picture)
    /\ picture' = IF c \in {"key", "inter"} THEN packet'.id ELSE picture
    /\ sender' = IF client_listed THEN "enqueue" ELSE "account"
    /\ outcome' = "none"
    /\ UNCHANGED <<connVars, client_listed, armed, main, workVars, dropped_packets,
                   offered, peerVars, wire>>

EnqueueToClient ==
    /\ sender = "enqueue"
    /\ IF m_sockfd = "open"
       THEN /\ DoEnqueue(packet, FrameDepth)
            /\ outcome' = ResultOf(packet, FrameDepth)
            /\ offered' = offered \cup {packet.id}
       ELSE /\ outcome' = "dropped"
            /\ UNCHANGED <<m_send_queue, m_send_offset, m_wait_flv_key_frame, offered>>
    /\ sender' = IF outcome' = "dropped" THEN "account" ELSE "notify"
    /\ UNCHANGED <<m_sockfd, m_conn_type, client_listed, armed, main, workVars, packet, broadcasts,
                   dropped_packets, picture, peerVars, wire>>

NotifyClient ==
    /\ sender = "notify"
    /\ NotifyWrite
    /\ sender' = "account"
    /\ UNCHANGED <<connVars, client_listed, main, workVars, packet, outcome, broadcasts,
                   dropped_packets, offered, picture, peerVars, wire>>

Account ==
    /\ sender = "account"
    /\ dropped_packets' = dropped_packets
           + (IF outcome \in {"dropped", "enqueued_after_drop"} THEN 1 ELSE 0)
    /\ sender' = "idle"
    /\ UNCHANGED <<connVars, client_listed, armed, main, workVars, packet, outcome,
                   broadcasts, offered, picture, peerVars, wire>>

-----------------------------------------------------------------------------
\* The main thread: one one-shot event at a time, in the order of its tests.
EventHup ==
    /\ main = "idle" /\ armed # "none" /\ peer = "gone"
    /\ armed' = "none" /\ main' = "close"
    /\ UNCHANGED <<connVars, client_listed, workVars, sendVars, peerVars, wire>>

\* read() takes the bytes and append() hands the connection to a worker; when
\* the buffer is full or the pool refuses, the connection is closed.
EventIn ==
    /\ main = "idle" /\ armed # "none" /\ peer = "up" /\ unread
    /\ armed' = "none" /\ unread' = FALSE
    /\ \/ queued' = queued + 1 /\ UNCHANGED main
       \/ main' = "close" /\ UNCHANGED queued
    /\ UNCHANGED <<connVars, client_listed, worker, header, sendVars, room, peer, extra, wire>>

EventOut ==
    /\ main = "idle" /\ armed = "inout" /\ peer = "up" /\ ~unread /\ room > 0
    /\ armed' = "none" /\ main' = "write"
    /\ UNCHANGED <<connVars, client_listed, workVars, sendVars, peerVars, wire>>

\* The turns of write_stream()'s loop.
WriteEmpty ==
    /\ main = "write" /\ m_sockfd = "open" /\ m_send_queue = <<>>
    /\ armed' = "in" /\ main' = "idle"
    /\ UNCHANGED <<connVars, client_listed, workVars, sendVars, peerVars, wire>>

WriteAgain ==
    /\ main = "write" /\ m_sockfd = "open" /\ m_send_queue # <<>> /\ room = 0
    /\ armed' = "inout" /\ main' = "idle"
    /\ UNCHANGED <<connVars, client_listed, workVars, sendVars, peerVars, wire>>

WriteFails ==
    /\ main = "write" /\ m_sockfd = "open" /\ m_send_queue # <<>> /\ peer = "gone"
    /\ main' = "close"
    /\ UNCHANGED <<connVars, client_listed, armed, workVars, sendVars, peerVars, wire>>

Sent(off) ==
    IF off = PacketSize THEN [queue |-> Tail(m_send_queue), off |-> 0]
                        ELSE [queue |-> m_send_queue, off |-> off]

\* send() takes k of the units that are left, possibly fewer than there are.
WriteSome(k) ==
    /\ main = "write" /\ m_sockfd = "open" /\ m_send_queue # <<>>
    /\ k <= room /\ k <= PacketSize - m_send_offset
    /\ room' = room - k
    /\ wire' = IF m_send_offset = 0
               THEN Append(wire, [pkt |-> Head(m_send_queue), sent |-> k])
               ELSE [wire EXCEPT ![Len(wire)].sent = @ + k]
    /\ m_send_queue' = Sent(m_send_offset + k).queue
    /\ m_send_offset' = Sent(m_send_offset + k).off
    /\ UNCHANGED <<m_sockfd, m_conn_type, m_wait_flv_key_frame, client_listed, armed, main, workVars,
                   sendVars, peer, unread, extra>>

\* close_conn(): the descriptor and the queue under the lock, then the list
\* and the kernel's descriptor.
CloseSocket ==
    /\ main = "close"
    /\ m_sockfd' = "closed" /\ m_send_queue' = <<>> /\ m_send_offset' = 0
    /\ main' = "unlist"
    /\ UNCHANGED <<m_conn_type, m_wait_flv_key_frame, client_listed, armed, workVars, sendVars,
                   peerVars, wire>>

RemoveClient ==
    /\ main = "unlist"
    /\ client_listed' = FALSE /\ armed' = "none"
    /\ main' = "idle"
    /\ UNCHANGED <<connVars, workVars, sendVars, peerVars, wire>>

-----------------------------------------------------------------------------
\* The peer.
PeerReads ==
    /\ peer = "up" /\ room < BufferSize
    /\ room' = BufferSize
    /\ UNCHANGED <<connVars, client_listed, armed, main, workVars, sendVars, peer,
                   unread, extra, wire>>

PeerSends ==
    /\ peer = "up" /\ ~unread /\ extra < MaxExtra
    /\ unread' = TRUE /\ extra' = extra + 1
    /\ UNCHANGED <<connVars, client_listed, armed, main, workVars, sendVars, room, peer, wire>>

PeerLeaves ==
    /\ peer = "up"
    /\ peer' = "gone"
    /\ UNCHANGED <<connVars, client_listed, armed, main, workVars, sendVars, room,
                   unread, extra, wire>>

-----------------------------------------------------------------------------
WorkerNext == StartEnqueue \/ StartNotify \/ AddClient \/ TakeTask \/ ParsePartial \/ ParseBlank
SenderStep == EnqueueToClient \/ NotifyClient \/ Account
MainNext ==
    \/ EventHup \/ EventIn \/ EventOut
    \/ WriteEmpty \/ WriteAgain \/ WriteFails \/ \E k \in 1 .. PacketSize : WriteSome(k)
    \/ CloseSocket \/ RemoveClient
PeerNext == PeerReads \/ PeerSends \/ PeerLeaves

Next ==
    \/ WorkerNext \/ MainNext \/ PeerNext
    \/ \E c \in BroadcastClasses : Broadcast(c)
    \/ SenderStep

Spec == Init /\ [][Next]_vars

\* Every thread that can run does, and a peer that stays keeps reading.
FairSpec ==
    Spec /\ WF_vars(WorkerNext) /\ WF_vars(SenderStep) /\ WF_vars(MainNext) /\ WF_vars(PeerReads)

-----------------------------------------------------------------------------
\* Framing: a packet is on the wire in full before the next one begins.  Only
\* the FLV reset may tear one, and then a packet a decoder can start at comes
\* next; the tail of the wire is the part of the head that has been sent.
Whole(seg) == seg.sent = seg.pkt.size

WireFraming ==
    /\ \A i \in 1 .. Len(wire) - 1 :
           Whole(wire[i]) \/ (m_conn_type = "flv" /\ Startable(wire[i + 1].pkt))
    /\ m_send_offset > 0 =>
           Last(wire) = [pkt |-> Head(m_send_queue), sent |-> m_send_offset]

\* The response header opens an /mjpeg stream and frames follow it; nothing is
\* sent twice or out of the order of the broadcasts, whatever was dropped in
\* between (a stream that is not started again).
OnWireOrQueued ==
    [i \in DOMAIN wire |-> wire[i].pkt]
    \o (IF m_send_offset > 0 THEN Tail(m_send_queue) ELSE m_send_queue)

InOrder ==
    StartedOnce =>
        /\ \A i, j \in DOMAIN OnWireOrQueued :
               i < j => OnWireOrQueued[i].id < OnWireOrQueued[j].id
        /\ m_conn_type = "mjpeg" =>
               \A i \in DOMAIN wire : wire[i].pkt.class = "http" <=> i = 1

\* Live view: behind the packet being sent at most one JPEG waits, the newest
\* that was offered, and the newest is never the one that is given up.
LatestFrameWins ==
    m_conn_type = "mjpeg" /\ StartedOnce /\ m_sockfd = "open" /\ offered # {} =>
        /\ \A i \in Stale(m_send_queue, m_send_offset) :
               i = Len(m_send_queue) /\ m_send_queue[i].id = Max(offered)
        /\ \E i \in DOMAIN OnWireOrQueued : OnWireOrQueued[i].id = Max(offered)

\* An inter frame is only sent when the picture right before it was sent too.
IsPicture(p) == p.class \in {"key", "inter"}

InterFollowsReference ==
    \A i \in DOMAIN OnWireOrQueued :
        LET p == OnWireOrQueued[i]
            earlier == {j \in 1 .. i - 1 : IsPicture(OnWireOrQueued[j])}
        IN  p.class = "inter" =>
                earlier # {} /\ OnWireOrQueued[Max(earlier)].id = p.after

\* What waits for a peer that keeps reading, and sends nothing itself, is sent.
QueueDrains ==
    m_send_queue # <<>> ~> (m_send_queue = <<>> \/ peer = "gone" \/ extra > 0)
=============================================================================
