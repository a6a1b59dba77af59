----------------------------- MODULE SendQueue -----------------------------
(***************************************************************************)
(* The pure part of http_conn's send queue: what enqueue_packet() and      *)
(* enqueue_flv_packet() do to m_send_queue, m_send_offset and              *)
(* m_wait_flv_key_frame while they hold m_send_lock.                       *)
(*                                                                         *)
(* A packet is a record: id (its place in the order of broadcasts), class  *)
(* and size in units of the socket buffer.  The classes are "http" (the    *)
(* response header), "config" (FLV file header, sequence header), "key"    *)
(* and "inter" (FLV video tags) and "frame" (a multipart JPEG); only a     *)
(* "frame" is enqueued with droppable = true.                              *)
(***************************************************************************)
EXTENDS Integers, Sequences, SequencesExt, FiniteSetsExt

Droppable(p) == p.class = "frame"

\* Index of the last packet that must not be touched: the head of the queue
\* once a part of it is on the wire.
NothingInFlight(off) == 0                                    \* wrong variant
InFlight(off) == IF off > 0 THEN 1 ELSE 0

Stale(q, off) == {i \in InFlight(off) + 1 .. Len(q) : Droppable(q[i])}

\* What is left of q when only the places in K are kept, in their order.
Rank(K, i) == Cardinality({j \in K : j <= i})
Place(K, n) == CHOOSE i \in K : Rank(K, i) = n
Pick(q, K) == [n \in 1 .. Cardinality(K) |-> q[Place(K, n)]]

\* A droppable packet first replaces every droppable one that waits.
DropStale(q, off) == Pick(q, DOMAIN q \ Stale(q, off))

\* Then the oldest droppable packets go until the depth allows one more.
Oldest(K, n) == {i \in K : Rank(K, i) <= n}
MakeRoom(q, off, depth) ==
    Pick(q, DOMAIN q \ Oldest(Stale(q, off), Len(q) + 1 - depth))

\* A droppable packet that still does not fit is refused, any other is not.
Outcome(room, q, p, refused) ==
    [queue  |-> IF refused THEN room ELSE Append(room, p),
     result |-> IF refused THEN "dropped"
                ELSE IF Len(room) < Len(q) THEN "enqueued_after_drop" ELSE "enqueued"]

\* Wrong variant: waiting frames are kept and the queue is only made shorter.
EnqueueKeepStale(q, off, p, depth) ==
    LET room == MakeRoom(q, off, depth)
    IN  Outcome(room, q, p, Droppable(p) /\ Len(room) >= depth)

\* Wrong variant: the new packet goes ahead of the waiting ones.
EnqueueAhead(q, off, p, depth) ==
    [queue |-> SubSeq(q, 1, InFlight(off)) \o <<p>> \o SubSeq(q, InFlight(off) + 1, Len(q)),
     result |-> "enqueued"]

EnqueuePacket(q, off, p, depth) ==
    LET kept == IF Droppable(p) THEN DropStale(q, off) ELSE q
        room == MakeRoom(kept, off, depth)
    IN  Outcome(room, q, p, Droppable(p) /\ Len(room) >= depth)

-----------------------------------------------------------------------------
\* FLV: a decoder can start at a key frame; configuration is always welcome.
Startable(p) == p.class \in {"config", "key"}

FlvOutcome(q, off, wait, result) ==
    [queue |-> q, off |-> off, wait |-> wait, result |-> result]

\* Wrong variant: after a reset the client is not made to wait for a key frame.
EnqueueFlvNoWait(q, off, wait, p, depth) ==
    IF wait /\ ~Startable(p) THEN FlvOutcome(q, off, wait, "dropped")
    ELSE IF Len(q) >= depth
         THEN FlvOutcome(<<p>>, 0, wait /\ p.class # "key", "enqueued_after_drop")
         ELSE FlvOutcome(Append(q, p), off, wait /\ p.class # "key", "enqueued")

\* Wrong variant: the depth is not looked at.
EnqueueFlvUnbounded(q, off, wait, p, depth) ==
    IF wait /\ ~Startable(p) THEN FlvOutcome(q, off, wait, "dropped")
    ELSE FlvOutcome(Append(q, p), off, wait /\ p.class # "key", "enqueued")

EnqueueFlv(q, off, wait, p, depth) ==
    LET full  == Len(q) >= depth
        base  == IF full THEN <<>> ELSE q
        rest  == IF full THEN 0 ELSE off
        hold  == (wait \/ full) /\ p.class # "key"
    IN  IF wait /\ ~Startable(p) THEN FlvOutcome(q, off, wait, "dropped")
        ELSE IF full /\ ~Startable(p) THEN FlvOutcome(<<>>, 0, TRUE, "dropped")
        ELSE FlvOutcome(Append(base, p), rest, hold,
                        IF full THEN "enqueued_after_drop" ELSE "enqueued")
=============================================================================
