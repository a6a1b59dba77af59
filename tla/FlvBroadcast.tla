---------------------------- MODULE FlvBroadcast ----------------------------
(***************************************************************************)
(* The FLV source thread of FlvFeed together with the clients of           *)
(* /live.flv: a pool worker per client that admits it (start_flv_stream()  *)
(* in src/http_conn.cpp), the broadcasts to a snapshot of the client list  *)
(* (src/stream_manager.cpp), and the main thread, which drains the send    *)
(* queues and closes connections.  Between two sections under the          *)
(* manager's lock anything may happen to the other threads, so a client    *)
(* can take a sequence header that is out of date when it enters the list. *)
(* Short writes and the epoll interest of one client are in StreamConn.    *)
(***************************************************************************)
EXTENDS FlvFeed

CONSTANTS Clients,
          FlvDepth,     \* max_queue_depth of enqueue_flv_packet (100)
          Limits        \* bounds on the feed for each number of clients

ASSUME BroadcastAssumption ==
    /\ FlvDepth \in Nat /\ FlvDepth >= 3
    /\ Limits \in [0 .. Cardinality(Clients) ->
                      [pictures : 0 .. MaxPictures, plain : BOOLEAN, openings : 1 .. MaxOpenings]]

VARIABLES
    audience,       \* the clients that ask for the stream in this behaviour
    worker,         \* what admits the client: "none", "take", "enqueue", "add", "done"
    m_sockfd,       \* "open", "closing" (-1, still listed), "closed"
    m_send_queue, m_wait_flv_key_frame,
    held,           \* the configuration in the sequence header the worker took
    m_flv_clients,  \* the list
    clients,        \* who is still to be served by the broadcast under way
    serving,        \* a broadcast is under way
    given,          \* ghost: configuration and timestamp last sent to the peer
    torn            \* ghost: a configuration passed the client by

connVars == <<m_sockfd, m_send_queue, m_wait_flv_key_frame, given, torn>>
listVars == <<m_flv_clients, clients, serving>>
clientVars == <<worker, held, connVars, listVars>>
vars == <<feedVars, audience, clientVars>>

Q == INSTANCE SendQueue

\* `ts' numbers the pictures; what has no picture has 0.
Packet(class, config, ts) == [class |-> class, config |-> config, ts |-> ts]
HttpHeader == Packet("http", <<0, 0>>, 0)
FlvHeader == Packet("config", <<0, 0>>, 0)
SequenceHeader(config) == Packet("config", config, 0)

\* make_video_tag(): a tag of an IDR picture is a key frame.
VideoPacket(tag) ==
    Packet(IF \E i \in DOMAIN tag.nals : tag.nals[i].key THEN "key" ELSE "inter",
           <<tag.nals[1].cfg, tag.nals[1].cfg>>, tag.ts + 1)

PacketOf(step) ==
    IF step.do = "config" THEN SequenceHeader(step.config) ELSE VideoPacket(step.tag)

IsPicture(p) == p.class \in {"key", "inter"}
IsSequenceHeader(p) == p.class = "config" /\ p.config # <<0, 0>>

\* The types, and the list without duplicates; a queue is never longer than
\* its limit, and a connection without descriptor has nothing queued.
BroadcastTypeOK ==
    /\ TypeOK
    /\ audience \subseteq Clients
    /\ worker \in [Clients -> {"none", "take", "enqueue", "add", "done"}]
    /\ m_sockfd \in [Clients -> {"open", "closing", "closed"}]
    /\ \A c \in Clients :
           /\ Len(m_send_queue[c]) <= FlvDepth
           /\ m_sockfd[c] # "open" => m_send_queue[c] = <<>>
    /\ m_wait_flv_key_frame \in [Clients -> BOOLEAN]
    /\ held \in [Clients -> Configs]
    /\ m_flv_clients \in Seq(Clients) /\ IsInjective(m_flv_clients)
    /\ clients \in Seq(Clients) /\ serving \in BOOLEAN
    /\ given \in [Clients -> [config : Configs, ts : 0 .. MaxPictures]]
    /\ torn \in [Clients -> BOOLEAN]

BroadcastInit ==
    /\ Init
    /\ audience \in SUBSET Clients
    /\ worker = [c \in Clients |-> "none"]
    /\ m_sockfd = [c \in Clients |-> "open"]
    /\ m_send_queue = [c \in Clients |-> <<>>]
    /\ m_wait_flv_key_frame = [c \in Clients |-> FALSE]
    /\ held = [c \in Clients |-> <<0, 0>>]
    /\ m_flv_clients = <<>> /\ clients = <<>> /\ serving = FALSE
    /\ given = [c \in Clients |-> [config |-> <<0, 0>>, ts |-> 0]]
    /\ torn = [c \in Clients |-> FALSE]

-----------------------------------------------------------------------------
\* A worker admits a client: do_request() and start_flv_stream().
Steps(c, from, to) == worker[c] = from /\ worker' = [worker EXCEPT ![c] = to]

\* is_flv_source_ready(); a client that comes too early gets a 503 and may
\* ask again.
AskReady(c) ==
    /\ Steps(c, "none", "take")
    /\ m_flv_ready
    /\ UNCHANGED <<feedVars, held, connVars, listVars>>

TakeSequenceHeader(c) ==
    /\ Steps(c, "take", IF Ready(m_flv_muxer[1], m_flv_muxer[2]) THEN "enqueue" ELSE "none")
    /\ held' = [held EXCEPT ![c] = m_flv_muxer]
    /\ UNCHANGED <<feedVars, connVars, listVars>>

\* The three headers; a closed socket refuses them and the start fails.
EnqueueHeaders(c) ==
    /\ Steps(c, "enqueue", IF m_sockfd[c] = "open" THEN "add" ELSE "done")
    /\ m_wait_flv_key_frame' = [m_wait_flv_key_frame EXCEPT ![c] = TRUE]
    /\ m_send_queue' = [m_send_queue EXCEPT
           ![c] = IF m_sockfd[c] = "open"
                  THEN <<HttpHeader, FlvHeader, SequenceHeader(held[c])>> ELSE <<>>]
    /\ UNCHANGED <<feedVars, held, m_sockfd, given, torn, listVars>>

\* Wrong variant: the client enters the list before its headers are queued.
AddClientEarly(c) ==
    /\ Steps(c, "take", "enqueue")
    /\ held' = [held EXCEPT ![c] = m_flv_muxer]
    /\ m_flv_clients' = Append(m_flv_clients, c)
    /\ m_wait_flv_key_frame' = [m_wait_flv_key_frame EXCEPT ![c] = TRUE]
    /\ UNCHANGED <<feedVars, m_sockfd, m_send_queue, given, torn, clients, serving>>

AddClient(c) ==
    /\ Steps(c, "add", "done")
    /\ m_flv_clients' = IF Contains(m_flv_clients, c) THEN m_flv_clients
                        ELSE Append(m_flv_clients, c)
    /\ UNCHANGED <<feedVars, held, connVars, clients, serving>>

-----------------------------------------------------------------------------
\* broadcast_flv_packet(): a snapshot under the lock, then client by client.
\* A client that holds another configuration than the one announced here, and
\* is not in the list yet, is passed by.
Misses(c) ==
    /\ Head(todo).do = "config" /\ worker[c] \in {"enqueue", "add"}
    /\ ~Contains(m_flv_clients, c)
    /\ held[c] # Head(todo).config

Snapshot ==
    /\ ~serving /\ todo # <<>> /\ Head(todo).do \in {"config", "video"}
    /\ serving' = TRUE /\ clients' = m_flv_clients
    /\ torn' = [c \in Clients |-> torn[c] \/ Misses(c)]
    /\ UNCHANGED <<feedVars, worker, held, m_sockfd, m_send_queue, m_wait_flv_key_frame,
                   given, m_flv_clients>>

\* What the peer of c will have when it has read its queue.
ConfigAhead(c) ==
    LET q == m_send_queue[c]
        announced == {i \in DOMAIN q : IsSequenceHeader(q[i])}
    IN  IF announced = {} THEN given[c].config ELSE q[Max(announced)].config
LastPicture(c, q) ==
    LET pictures == {i \in DOMAIN q : IsPicture(q[i])}
    IN  IF pictures = {} THEN given[c].ts ELSE q[Max(pictures)].ts

\* A full queue is cleared, and a configuration the peer has not got is in it.
LosesConfig(c, p) ==
    /\ Len(m_send_queue[c]) >= FlvDepth
    /\ Q!Startable(p) \/ ~m_wait_flv_key_frame[c]
    /\ ConfigAhead(c) # given[c].config

\* Wrong variant: after a reset the client is not made to wait for a key frame.
OfferNoWait(c, p) == Q!EnqueueFlvNoWait(m_send_queue[c], 0, m_wait_flv_key_frame[c], p, FlvDepth)
Offer(c, p) == Q!EnqueueFlv(m_send_queue[c], 0, m_wait_flv_key_frame[c], p, FlvDepth)

EnqueueTo(c) ==
    /\ serving /\ clients # <<>> /\ c = Head(clients)
    /\ clients' = Tail(clients)
    /\ LET p == PacketOf(Head(todo)) IN
       IF m_sockfd[c] # "open"
       THEN UNCHANGED <<m_send_queue, m_wait_flv_key_frame, torn>>
       ELSE /\ m_send_queue' = [m_send_queue EXCEPT ![c] = Offer(c, p).queue]
            /\ m_wait_flv_key_frame' = [m_wait_flv_key_frame EXCEPT ![c] = Offer(c, p).wait]
            /\ torn' = [torn EXCEPT ![c] = ~IsSequenceHeader(p) /\ (@ \/ LosesConfig(c, p))]
    /\ UNCHANGED <<feedVars, worker, held, m_sockfd, given, m_flv_clients, serving>>

EndBroadcast ==
    /\ serving /\ clients = <<>>
    /\ BroadcastDone
    /\ serving' = FALSE
    /\ UNCHANGED <<worker, held, connVars, m_flv_clients, clients>>

-----------------------------------------------------------------------------
\* The main thread: write_stream() sends a packet, close_conn() and
\* remove_client() let a client go.
Drain(c) ==
    /\ m_send_queue[c] # <<>>
    /\ m_send_queue' = [m_send_queue EXCEPT ![c] = Tail(@)]
    /\ LET p == Head(m_send_queue[c]) IN
       given' = [given EXCEPT ![c] = [config |-> IF IsSequenceHeader(p) THEN p.config ELSE @.config,
                                      ts |-> IF IsPicture(p) THEN p.ts ELSE @.ts]]
    /\ UNCHANGED <<feedVars, worker, held, m_sockfd, m_wait_flv_key_frame, torn, listVars>>

Close(c) ==
    /\ m_sockfd[c] = "open" /\ worker[c] # "none"
    /\ m_sockfd' = [m_sockfd EXCEPT ![c] = IF worker[c] \in {"add", "done"} THEN "closing" ELSE "closed"]
    /\ m_send_queue' = [m_send_queue EXCEPT ![c] = <<>>]
    /\ UNCHANGED <<feedVars, worker, held, m_wait_flv_key_frame, given, torn, listVars>>

RemoveClient(c) ==
    /\ m_sockfd[c] = "closing"
    /\ m_sockfd' = [m_sockfd EXCEPT ![c] = "closed"]
    /\ m_flv_clients' = RemoveFirst(m_flv_clients, c)
    /\ UNCHANGED <<feedVars, worker, held, m_send_queue, m_wait_flv_key_frame, given, torn,
                   clients, serving>>

-----------------------------------------------------------------------------
AdmitNext(c) == AskReady(c) \/ TakeSequenceHeader(c) \/ EnqueueHeaders(c) \/ AddClient(c)
MainNext(c) == Drain(c) \/ Close(c) \/ RemoveClient(c)
Feed ==
    /\ LoopNext
    /\ LET bound == Limits[Cardinality(audience)] IN
       /\ enc'.pic <= bound.pictures /\ openings' <= bound.openings
       /\ bound.plain => enc'.slices = 1 /\ enc'.stage # "sei"
    /\ UNCHANGED clientVars

Next ==
    /\ \/ Feed \/ Snapshot \/ EndBroadcast
       \/ \E c \in audience : AdmitNext(c) \/ EnqueueTo(c) \/ MainNext(c)
    /\ UNCHANGED audience

Spec == BroadcastInit /\ [][Next]_vars

-----------------------------------------------------------------------------
Receives(c) ==
    m_send_queue'[c] # <<>> /\ Last(m_send_queue'[c]).ts > LastPicture(c, m_send_queue[c])

\* A client can decode what it gets: each picture that enters its queue comes
\* behind the configuration it needs, whenever the client joined.  There are
\* two exceptions.  A client that a changed configuration passed by (it was
\* being admitted while the change was announced, or fell so far behind that
\* its queue was cleared with the announcement in it) waits for the next
\* announcement, and a picture that the end of the source cut off is sent
\* although a changed configuration may not have been announced yet.
ConfigReachesClient ==
    [][\A c \in Clients :
         Receives(c) /\ Head(todo).tag.whole /\ ~torn'[c]
         => ConfigAhead(c)' = Last(m_send_queue'[c]).config]_vars

\* A client never misses a picture in the middle: what it gets starts at a key
\* frame, and after a gap (its queue was full) at a key frame again.
RunsStartAtKeyFrames ==
    [][\A c \in Clients :
         LET p == Last(m_send_queue'[c])
             before == LastPicture(c, Front(m_send_queue'[c]))
         IN  Receives(c) => p.class = "key" \/ (before > 0 /\ p.ts = before + 1)]_vars
=============================================================================
