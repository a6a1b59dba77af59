-------------------------- MODULE StreamConnProofs --------------------------
(***************************************************************************)
(* Proofs about StreamConn, for every depth of the queues, every size of   *)
(* packets and of the socket's buffer and any number of broadcasts: the    *)
(* queue is bounded, packets are framed and in order on the wire, the      *)
(* newest JPEG is never the one that is dropped, and an FLV client never   *)
(* gets an inter frame whose reference it was not sent.                    *)
(***************************************************************************)
EXTENDS StreamConn, FiniteSetTheorems, SequenceTheorems, TLAPS

-----------------------------------------------------------------------------
(* The inductive invariants.                                               *)

Starting == worker \in {"enqueue", "notify"}

Scalars ==
    /\ m_sockfd \in {"open", "closed"} /\ m_conn_type \in Kinds
    /\ m_wait_flv_key_frame \in BOOLEAN /\ client_listed \in BOOLEAN
    /\ armed \in {"none", "in", "inout"}
    /\ main \in {"idle", "write", "close", "unlist"}
    /\ main = "unlist" => m_sockfd = "closed"
    /\ worker \in {"idle", "parse", "enqueue", "notify", "add"}
    /\ header \in 1 .. Len(Headers) + 1 /\ (Starting => header <= Len(Headers))
    /\ sender \in {"idle", "enqueue", "notify", "account"}
    /\ outcome \in {"none", "dropped", "enqueued", "enqueued_after_drop"}
    /\ broadcasts \in 0 .. MaxPackets
    /\ room \in 0 .. BufferSize /\ peer \in {"up", "gone"}

\* What is counted: a broadcast under way is not counted as dropped yet, and
\* what waits for a worker, or is with one, was sent by the peer.
Counters ==
    /\ dropped_packets \in Nat
    /\ dropped_packets + (IF sender = "idle" THEN 0 ELSE 1) <= broadcasts
    /\ unread \in BOOLEAN /\ extra \in 0 .. MaxExtra
    /\ queued \in Nat /\ queued + (IF unread THEN 1 ELSE 0) <= extra
    /\ worker = "parse" => extra > 0

\* The packet that is being broadcast is the newest, and the pictures that
\* have been broadcast end with it or with the one it follows.
PacketInv ==
    /\ packet \in Packets /\ picture \in {0} \cup Ids /\ offered \subseteq Ids
    /\ sender # "idle" =>
           /\ packet.id = Len(Headers) + broadcasts
           /\ packet.class \in BroadcastClasses
           /\ picture = IF IsPicture(packet) THEN packet.id ELSE packet.after

\* A stream that is started for the first time is not listed yet, so nothing
\* is broadcast to it; one that is being closed may still be offered a packet.
ListInv ==
    /\ StartedOnce /\ (Starting \/ worker = "add") =>
           ~client_listed /\ sender # "enqueue" /\ offered = {}
    /\ sender = "enqueue" => client_listed \/ m_sockfd = "closed"

BaseInv == Scalars /\ Counters /\ PacketInv /\ ListInv

Classes == IF m_conn_type = "mjpeg" THEN {"http", "frame"} ELSE {"http", "config", "key", "inter"}
Sendable == {p \in Packets : p.class \in Classes}
Segment == [pkt : Sendable, sent : 1 .. PacketSize]

\* The queue and the wire: while a part of the head is on the wire it is the
\* last thing there.
QueueInv ==
    /\ m_send_queue \in Seq(Sendable) /\ m_send_offset \in 0 .. PacketSize - 1
    /\ m_send_queue = <<>> => m_send_offset = 0
    /\ m_sockfd = "closed" => m_send_queue = <<>>
    /\ wire \in Seq(Segment)
    /\ m_send_offset > 0 =>
           wire # <<>> /\ Last(wire) = [pkt |-> Head(m_send_queue), sent |-> m_send_offset]
    /\ StartedOnce /\ worker = "enqueue" /\ header = 1 => m_send_queue = <<>> /\ wire = <<>>

Depth == IF m_conn_type = "flv" THEN FlvDepth ELSE FrameDepth
DepthInv == StartedOnce => Len(m_send_queue) <= Depth

\* After a packet was torn the next one on the wire is one a decoder can start
\* at: it is the head of the queue, or the client waits for it.
Framed == \A i \in 1 .. Len(wire) - 1 :
              Whole(wire[i]) \/ (m_conn_type = "flv" /\ Startable(wire[i + 1].pkt))
Torn == m_sockfd = "open" /\ wire # <<>> /\ m_send_offset = 0 /\ ~Whole(Last(wire))
FlvStartedOnce == m_conn_type = "flv" => StartedOnce
FramingInv ==
    FlvStartedOnce =>
        /\ Framed
        /\ Torn => /\ m_conn_type = "flv"
                   /\ m_send_queue # <<>> => Startable(Head(m_send_queue))
                   /\ m_send_queue = <<>> => m_wait_flv_key_frame

\* The newest packet that can be in the queue.
Given == IF Starting THEN IF worker = "enqueue" THEN header - 1 ELSE header
         ELSE Len(Headers) + broadcasts - (IF sender = "enqueue" THEN 1 ELSE 0)
Increasing(s) == \A i, j \in DOMAIN s : i < j => s[i].id < s[j].id
UpTo(s, n) == \A i \in DOMAIN s : s[i].id <= n
HeaderFirst(s) == \A i \in DOMAIN s : s[i].class = "http" <=> i = 1
OrderInv ==
    StartedOnce =>
        /\ Increasing(OnWireOrQueued) /\ UpTo(OnWireOrQueued, Given)
        /\ m_conn_type = "mjpeg" =>
               /\ HeaderFirst(OnWireOrQueued)
               /\ m_sockfd = "open" /\ OnWireOrQueued = <<>> => worker = "enqueue"

LatestInv ==
    /\ StartedOnce => \A n \in offered : n <= Given
    /\ LatestFrameWins

\* A client that does not wait for a key frame has the picture that was
\* broadcast last, or the one before the packet it is about to be given.
Pictures(s) == {i \in DOMAIN s : IsPicture(s[i])}
References(s) ==
    \A i \in DOMAIN s : s[i].class = "inter" =>
        LET earlier == {j \in 1 .. i - 1 : IsPicture(s[j])}
        IN  earlier # {} /\ s[Max(earlier)].id = s[i].after
EndsWith(s, n) == Pictures(s) # {} /\ s[Max(Pictures(s))].id = n
Decodable == IF sender = "enqueue" THEN packet.after ELSE picture
ChainInv ==
    m_conn_type = "flv" =>
        /\ References(OnWireOrQueued)
        /\ m_sockfd = "open" /\ ~client_listed => m_wait_flv_key_frame
        /\ m_sockfd = "open" /\ ~m_wait_flv_key_frame => EndsWith(OnWireOrQueued, Decodable)

-----------------------------------------------------------------------------
(* Least and greatest numbers of a set, and the places that Pick keeps.    *)

\* (Min and Max of the community module are a CHOOSE: these say what it finds.)
Smaller == {ss \in Nat \X Nat : ss[1] < ss[2]}

LEMMA LeastExists ==
    ASSUME NEW S \in SUBSET Nat, S # {}
    PROVE  \E m \in S : \A y \in S : m <= y
  <1>1. Smaller = OpToRel(<, Nat)
    BY DEF Smaller, OpToRel
  <1>2. IsWellFoundedOn(Smaller, Nat)
    BY <1>1, NatLessThanWellFounded
  <1>3. PICK m \in S : \A y \in S : ~(<<y, m>> \in Smaller)
    BY <1>2, WFMin
  <1>4. ASSUME NEW y \in S PROVE m <= y
    <2>1. m \in Nat /\ y \in Nat /\ ~(y < m)
      BY <1>3 DEF Smaller
    <2> QED
      BY <2>1
  <1> QED
    BY <1>4

LEMMA MaxIs ==
    ASSUME NEW S \in SUBSET Nat, NEW x \in S, \A y \in S : x >= y
    PROVE  Max(S) = x
  <1>1. Max(S) \in S /\ \A y \in S : Max(S) >= y
    BY DEF Max
  <1>2. Max(S) \in Nat /\ x \in Nat /\ Max(S) >= x /\ x >= Max(S)
    BY <1>1
  <1> QED
    BY <1>2

LEMMA MaxExists ==
    ASSUME NEW n \in Nat, NEW S \in SUBSET (0 .. n), S # {}
    PROVE  Max(S) \in S /\ \A y \in S : Max(S) >= y
  <1> DEFINE D == {n - i : i \in S}
  <1>0. \A i \in S : i \in Nat /\ n - i \in Nat
    OBVIOUS
  <1>1. D \in SUBSET Nat /\ D # {}
    BY <1>0
  <1>2. PICK m \in D : \A d \in D : m <= d
    <2> HIDE DEF D
    <2> QED
      BY <1>1, LeastExists
  <1>3. PICK x \in S : m = n - x
    OBVIOUS
  <1>4. ASSUME NEW y \in S PROVE x >= y
    <2>1. m <= n - y
      BY <1>2
    <2> QED
      BY <1>0, <1>3, <2>1
  <1> QED
    BY <1>3, <1>4 DEF Max

LEMMA PlacesAreFinite ==
    ASSUME NEW n \in Nat, NEW K \in SUBSET (1 .. n)
    PROVE  IsFiniteSet(K) /\ Cardinality(K) \in Nat /\ Cardinality(K) <= n
  <1>1. 1 \in Int /\ n \in Int
    OBVIOUS
  <1>2. IsFiniteSet(1 .. n) /\ Cardinality(1 .. n) = IF 1 > n THEN 0 ELSE n - 1 + 1
    BY <1>1, FS_Interval
  <1>3. IsFiniteSet(K) /\ Cardinality(K) <= Cardinality(1 .. n)
    BY <1>2, FS_Subset
  <1>4. Cardinality(K) \in Nat
    BY <1>3, FS_CardinalityType
  <1> QED
    BY <1>2, <1>3, <1>4

LEMMA CardinalityTo == ASSUME NEW n \in Nat PROVE Cardinality(1 .. n) = n
  <1>1. 1 \in Int /\ n \in Int
    OBVIOUS
  <1>2. Cardinality(1 .. n) = IF 1 > n THEN 0 ELSE n - 1 + 1
    BY <1>1, FS_Interval
  <1> QED
    BY <1>2

\* Ranks count the places of K from 1 and grow with the place.
LEMMA RankCounts ==
    ASSUME NEW n \in Nat, NEW K \in SUBSET (1 .. n), NEW i \in K
    PROVE  /\ IsFiniteSet(K) /\ Cardinality(K) \in Nat
           /\ Rank(K, i) \in 1 .. Cardinality(K)
           /\ \A j \in K : i < j => Rank(K, i) < Rank(K, j)
  <1> DEFINE UpTo_(k) == {j \in K : j <= k}
  <1>1. IsFiniteSet(K) /\ Cardinality(K) \in Nat /\ K \in SUBSET Nat
    BY PlacesAreFinite
  <1>2. \A k : IsFiniteSet(UpTo_(k)) /\ Cardinality(UpTo_(k)) \in Nat
              /\ Cardinality(UpTo_(k)) <= Cardinality(K)
    <2> TAKE k
    <2>1. UpTo_(k) \in SUBSET K
      OBVIOUS
    <2> HIDE DEF UpTo_
    <2> QED
      BY <1>1, <2>1, FS_Subset, FS_CardinalityType
  <1>3. Cardinality(UpTo_(i)) # 0
    <2>1. i \in UpTo_(i)
      OBVIOUS
    <2> HIDE DEF UpTo_
    <2> QED
      BY <1>2, <2>1, FS_EmptySet
  <1>4. ASSUME NEW j \in K, i < j PROVE Cardinality(UpTo_(i)) < Cardinality(UpTo_(j))
    <2>1. j \notin UpTo_(i) /\ UpTo_(i) \cup {j} \in SUBSET UpTo_(j)
      <3>1. i \in Nat /\ j \in Nat /\ ~(j <= i) /\ \A k \in K : k \in Nat /\ (k <= i => k <= j)
        BY <1>1, <1>4
      <3>2. j \notin UpTo_(i) /\ j \in UpTo_(j)
        BY <3>1
      <3>3. \A k \in UpTo_(i) : k \in UpTo_(j)
        BY <3>1
      <3> QED
        BY <3>2, <3>3
    <2> HIDE DEF UpTo_
    <2>2. Cardinality(UpTo_(i) \cup {j}) = Cardinality(UpTo_(i)) + 1
      BY <1>2, <2>1, FS_AddElement
    <2>3. Cardinality(UpTo_(i) \cup {j}) <= Cardinality(UpTo_(j))
      BY <1>2, <2>1, FS_Subset
    <2> QED
      BY <1>2, <2>2, <2>3
  <1>5. \A k : Rank(K, k) = Cardinality(UpTo_(k))
    BY DEF Rank
  <1> HIDE DEF UpTo_
  <1> QED
    BY <1>1, <1>2, <1>3, <1>4, <1>5

\* There is a place of every rank.
LEMMA RankIsTaken ==
    ASSUME NEW n \in Nat, NEW K \in SUBSET (1 .. n), NEW r \in 1 .. Cardinality(K)
    PROVE  \E i \in K : Rank(K, i) = r
  <1>0. /\ K \in SUBSET (0 .. n) /\ K \in SUBSET Nat /\ r \in Nat
        /\ IsFiniteSet(K) /\ Cardinality(K) \in Nat
    BY PlacesAreFinite
  <1>1. K # {}
    BY <1>0, FS_EmptySet
  <1> DEFINE S == {i \in K : Rank(K, i) >= r}
  <1>2. S # {}
    <2>1. Max(K) \in K /\ \A y \in K : Max(K) >= y
      BY <1>0, <1>1, MaxExists
    <2>2. {j \in K : j <= Max(K)} = K
      BY <2>1
    <2> QED
      BY <1>0, <2>1, <2>2 DEF Rank
  <1>3. PICK i \in S : \A y \in S : i <= y
    <2>1. S \in SUBSET Nat
      BY <1>0 DEF S
    <2> HIDE DEF S
    <2> QED
      BY <1>2, <2>1, LeastExists
  <1>4. Rank(K, i) \in Nat /\ Rank(K, i) >= r /\ i \in K
    <2>1. i \in K /\ Rank(K, i) >= r
      BY <1>3
    <2>2. Rank(K, i) \in 1 .. Cardinality(K)
      BY <2>1, RankCounts
    <2> QED
      BY <2>1, <2>2
  <1>5. CASE Rank(K, i) > r
    <2> DEFINE T == {j \in K : j <= i} \ {i}
    <2>1. Cardinality(T) = Rank(K, i) - 1
      <3>1. IsFiniteSet({j \in K : j <= i}) /\ i \in {j \in K : j <= i}
        BY <1>0, FS_Subset
      <3> QED
        BY <3>1, FS_RemoveElement DEF Rank
    <2>2. T # {}
      BY <1>4, <1>5, <2>1, FS_EmptySet
    <2>3. Max(T) \in T /\ \A y \in T : Max(T) >= y
      <3>1. T \in SUBSET (0 .. n)
        BY <1>0
      <3> HIDE DEF T
      <3> QED
        BY <2>2, <3>1, MaxExists
    <2>a. \A j \in K : j \in Nat
      BY <1>0
    <2>b. \A j : j \in T <=> j \in K /\ j < i
      <3>1. i \in Nat /\ \A j \in K : (j <= i /\ j # i) <=> j < i
        BY <1>4, <2>a
      <3> QED
        BY <3>1
    <2> DEFINE x == Max(T)
    <2>c. x \in K /\ x < i /\ \A y \in T : y <= x
      BY <2>3, <2>a, <2>b
    <2> HIDE DEF T, x
    <2>4. {j \in K : j <= x} = T
      <3>1. ASSUME NEW j \in K, j <= x PROVE j < i
        BY <1>4, <2>a, <2>c, <3>1
      <3> QED
        BY <2>b, <2>c, <3>1
    <2>5. Rank(K, x) >= r
      BY <1>0, <1>4, <1>5, <2>1, <2>4 DEF Rank
    <2>6. i <= x
      BY <1>3, <2>5, <2>c
    <2> QED
      BY <1>4, <2>a, <2>c, <2>6
  <1> QED
    BY <1>4, <1>5

LEMMA PlaceIs ==
    ASSUME NEW n \in Nat, NEW K \in SUBSET (1 .. n)
    PROVE  /\ \A r \in 1 .. Cardinality(K) : Place(K, r) \in K /\ Rank(K, Place(K, r)) = r
           /\ \A r, s \in 1 .. Cardinality(K) : r < s => Place(K, r) < Place(K, s)
           /\ \A i \in K : Rank(K, i) \in 1 .. Cardinality(K) /\ Place(K, Rank(K, i)) = i
  <1>1. \A r \in 1 .. Cardinality(K) : Place(K, r) \in K /\ Rank(K, Place(K, r)) = r
    BY RankIsTaken DEF Place
  <1>a. Cardinality(K) \in Nat
    BY PlacesAreFinite
  <1>2. ASSUME NEW i \in K PROVE Rank(K, i) \in Nat /\ \A j \in K : i < j => Rank(K, i) < Rank(K, j)
    <2>1. Rank(K, i) \in 1 .. Cardinality(K) /\ \A j \in K : i < j => Rank(K, i) < Rank(K, j)
      BY RankCounts
    <2> QED
      BY <1>a, <2>1
  <1>3. \A i \in K : i \in Nat
    OBVIOUS
  <1>4. ASSUME NEW r \in 1 .. Cardinality(K), NEW s \in 1 .. Cardinality(K), r < s
        PROVE  Place(K, r) < Place(K, s)
    <2>a. Place(K, r) \in K /\ Rank(K, Place(K, r)) = r /\ Place(K, s) \in K /\ Rank(K, Place(K, s)) = s
      BY <1>1
    <2>b. r \in Nat /\ s \in Nat
      BY <1>a
    <2>1. r \in Nat /\ s \in Nat /\ Place(K, r) \in Nat /\ Place(K, s) \in Nat
      BY <1>3, <2>a, <2>b
    <2>2. ~(Place(K, s) < Place(K, r)) /\ Place(K, s) # Place(K, r)
      BY <1>2, <1>4, <2>a, <2>1
    <2> QED
      BY <2>1, <2>2
  <1>5. ASSUME NEW i \in K
        PROVE  Rank(K, i) \in 1 .. Cardinality(K) /\ Place(K, Rank(K, i)) = i
    <2>1. Rank(K, i) \in 1 .. Cardinality(K)
      BY RankCounts
    <2>2. Place(K, Rank(K, i)) \in K /\ Rank(K, Place(K, Rank(K, i))) = Rank(K, i)
      BY <1>1, <2>1
    <2>3. ~(i < Place(K, Rank(K, i))) /\ ~(Place(K, Rank(K, i)) < i)
      <3> DEFINE j == Place(K, Rank(K, i))
      <3>1. j \in K /\ Rank(K, j) = Rank(K, i) /\ Rank(K, i) \in Nat
        BY <1>2, <2>2
      <3>2. (i < j => Rank(K, i) < Rank(K, j)) /\ (j < i => Rank(K, j) < Rank(K, i))
        BY <1>2, <3>1
      <3> QED
        BY <3>1, <3>2
    <2> DEFINE k == Place(K, Rank(K, i))
    <2>4. k \in K /\ k \in Nat /\ i \in Nat /\ ~(i < k) /\ ~(k < i)
      BY <1>3, <2>2, <2>3
    <2>5. k = i
      <3> HIDE DEF k
      <3> QED
        BY <2>4
    <2> QED
      BY <2>1, <2>5
  <1> QED
    BY <1>1, <1>4, <1>5

\* r is q without some of the packets at the places that may be given up.
Kept(r, q, off) ==
    Len(r) <= Len(q) /\ \E e \in [1 .. Len(r) -> 1 .. Len(q)] :
        /\ \A n \in 1 .. Len(r) : r[n] = q[e[n]]
        /\ \A n, m \in 1 .. Len(r) : n < m => e[n] < e[m]
        /\ \A i \in 1 .. Len(q) : i \notin Stale(q, off) => \E n \in 1 .. Len(r) : e[n] = i

LEMMA PickIs ==
    ASSUME NEW S, NEW q \in Seq(S), NEW K \in SUBSET DOMAIN q
    PROVE  /\ Pick(q, K) \in Seq(S) /\ Len(Pick(q, K)) = Cardinality(K)
           /\ Cardinality(K) \in Nat /\ Cardinality(K) <= Len(q)
           /\ \A n \in 1 .. Cardinality(K) : Place(K, n) \in K /\ Pick(q, K)[n] = q[Place(K, n)]
  <1>1. Len(q) \in Nat /\ DOMAIN q = 1 .. Len(q) /\ K \in SUBSET (1 .. Len(q))
    BY LenProperties
  <1>2. Cardinality(K) \in Nat /\ Cardinality(K) <= Len(q)
    BY <1>1, PlacesAreFinite
  <1>3. \A n \in 1 .. Cardinality(K) : Place(K, n) \in K
    BY <1>1, PlaceIs
  <1>4. \A n \in 1 .. Cardinality(K) : q[Place(K, n)] \in S
    BY <1>1, <1>3, ElementOfSeq
  <1>5. Pick(q, K) \in [1 .. Cardinality(K) -> S]
    BY <1>4 DEF Pick
  <1>6. Pick(q, K) \in Seq(S) /\ Len(Pick(q, K)) = Cardinality(K)
    BY <1>2, <1>5, SeqDef, LenProperties
  <1> QED
    BY <1>2, <1>3, <1>6 DEF Pick

LEMMA PickKeeps ==
    ASSUME NEW S, NEW q \in Seq(S), NEW off \in Nat,
           NEW G \in SUBSET Stale(q, off)
    PROVE  /\ Pick(q, DOMAIN q \ G) \in Seq(S)
           /\ Kept(Pick(q, DOMAIN q \ G), q, off)
           /\ G = Stale(q, off) => Stale(Pick(q, DOMAIN q \ G), off) = {}
           /\ G = {} => Pick(q, DOMAIN q \ G) = q
  <1> DEFINE K == DOMAIN q \ G
             r == Pick(q, K)
             e == [n \in 1 .. Len(r) |-> Place(K, n)]
  <1>1. Len(q) \in Nat /\ DOMAIN q = 1 .. Len(q) /\ K \in SUBSET (1 .. Len(q)) /\ K \in SUBSET DOMAIN q
    BY LenProperties
  <1> HIDE DEF K
  <1>2. /\ r \in Seq(S) /\ Len(r) = Cardinality(K) /\ Cardinality(K) \in Nat
        /\ \A n \in 1 .. Len(r) : Place(K, n) \in K /\ r[n] = q[Place(K, n)]
        /\ Len(r) <= Len(q)
    BY <1>1, PickIs
  <1>3. /\ \A n, m \in 1 .. Len(r) : n < m => Place(K, n) < Place(K, m)
        /\ \A i \in K : Rank(K, i) \in 1 .. Len(r) /\ Place(K, Rank(K, i)) = i
    BY <1>1, <1>2, PlaceIs
  <1> HIDE DEF r
  <1>4. Kept(r, q, off)
    <2>1. e \in [1 .. Len(r) -> 1 .. Len(q)]
      BY <1>1, <1>2
    <2>2. \A i \in 1 .. Len(q) : i \notin Stale(q, off) => i \in K
      BY <1>1 DEF K
    <2> QED
      BY <1>2, <1>3, <2>1, <2>2 DEF Kept
  <1>5. ASSUME G = Stale(q, off), NEW n \in Stale(r, off) PROVE FALSE
    <2>1. n \in 1 .. Len(r) /\ n > InFlight(off) /\ Droppable(r[n]) /\ n \in Nat
      BY <1>2 DEF Stale, InFlight
    <2>2. Place(K, n) \in 1 .. Len(q) /\ Place(K, n) \notin Stale(q, off) /\ Droppable(q[Place(K, n)])
      BY <1>1, <1>2, <1>5, <2>1 DEF K
    <2>3. Place(K, n) = 1 /\ InFlight(off) = 1
      BY <1>1, <2>2 DEF Stale, InFlight
    <2>4. 1 \in 1 .. Len(r) /\ 1 < n
      BY <1>2, <2>1, <2>3
    <2>5. Place(K, 1) < 1 /\ Place(K, 1) \in 1 .. Len(q)
      BY <1>1, <1>2, <1>3, <2>1, <2>3, <2>4
    <2> QED
      BY <1>1, <2>5
  <1>6. ASSUME G = {} PROVE r = q
    <2>1. K = 1 .. Len(q) /\ Len(r) = Len(q)
      BY <1>1, <1>2, <1>6, CardinalityTo DEF K
    <2>2. ASSUME NEW n \in 1 .. Len(q) PROVE Rank(K, n) = n
      <3>1. {j \in K : j <= n} = 1 .. n
        BY <1>1, <2>1
      <3>2. Cardinality(1 .. n) = n
        BY <1>1, CardinalityTo
      <3> QED
        BY <3>1, <3>2 DEF Rank
    <2>3. \A n \in 1 .. Len(q) : Place(K, n) = n
      BY <1>3, <2>1, <2>2
    <2>4. \A n \in 1 .. Len(q) : r[n] = q[n]
      BY <1>2, <2>1, <2>3
    <2> QED
      BY <1>2, <2>1, <2>4, SeqEqual
  <1> QED
    BY <1>2, <1>4, <1>5, <1>6 DEF r, K

-----------------------------------------------------------------------------
(* What enqueue_packet() keeps.                                            *)

\* The queue as it is when the packet is appended.
Room(q, off, p, depth) == MakeRoom(IF Droppable(p) THEN DropStale(q, off) ELSE q, off, depth)

LEMMA EnqueueIs ==
    ASSUME NEW q, NEW off, NEW p, NEW depth
    PROVE  EnqueuePacket(q, off, p, depth) =
               Outcome(Room(q, off, p, depth), q, p,
                       Droppable(p) /\ Len(Room(q, off, p, depth)) >= depth)
  BY DEF EnqueuePacket, Room

LEMMA KeptTwice ==
    ASSUME NEW S, NEW q \in Seq(S), NEW r \in Seq(S), NEW t \in Seq(S), NEW off \in Nat,
           Kept(r, q, off), Kept(t, r, off)
    PROVE  Kept(t, q, off)
  <1>1. Len(q) \in Nat /\ Len(r) \in Nat /\ Len(t) \in Nat
    BY LenProperties
  <1>2. PICK e \in [1 .. Len(r) -> 1 .. Len(q)] :
          /\ \A n \in 1 .. Len(r) : r[n] = q[e[n]]
          /\ \A n, m \in 1 .. Len(r) : n < m => e[n] < e[m]
          /\ \A i \in 1 .. Len(q) : i \notin Stale(q, off) => \E n \in 1 .. Len(r) : e[n] = i
    BY DEF Kept
  <1>3. PICK d \in [1 .. Len(t) -> 1 .. Len(r)] :
          /\ \A n \in 1 .. Len(t) : t[n] = r[d[n]]
          /\ \A n, m \in 1 .. Len(t) : n < m => d[n] < d[m]
          /\ \A i \in 1 .. Len(r) : i \notin Stale(r, off) => \E n \in 1 .. Len(t) : d[n] = i
    BY DEF Kept
  <1> DEFINE c == [n \in 1 .. Len(t) |-> e[d[n]]]
  <1>4. c \in [1 .. Len(t) -> 1 .. Len(q)]
    BY <1>2, <1>3
  <1>5. \A n \in 1 .. Len(t) : t[n] = q[c[n]]
    BY <1>2, <1>3
  <1>6. \A n, m \in 1 .. Len(t) : n < m => c[n] < c[m]
    BY <1>2, <1>3
  <1>7. ASSUME NEW i \in 1 .. Len(q), i \notin Stale(q, off)
        PROVE  \E n \in 1 .. Len(t) : c[n] = i
    <2>1. PICK m \in 1 .. Len(r) : e[m] = i
      BY <1>2, <1>7
    <2>2. m \notin Stale(r, off)
      <3>1. CASE ~Droppable(q[i])
        BY <1>2, <2>1, <3>1 DEF Stale
      <3>2. CASE i <= InFlight(off)
        <4>1. i = 1 /\ InFlight(off) = 1
          BY <1>1, <3>2 DEF InFlight
        <4>2. ~(1 < m)
          <5>1. 1 < m => 1 \in 1 .. Len(r) /\ e[1] < 1 /\ e[1] \in 1 .. Len(q)
            BY <1>1, <1>2, <2>1, <4>1
          <5> QED
            BY <1>1, <5>1
        <4> QED
          BY <1>1, <4>1, <4>2 DEF Stale
      <3> QED
        BY <1>1, <1>7, <3>1, <3>2 DEF Stale, InFlight
    <2>3. PICK n \in 1 .. Len(t) : d[n] = m
      BY <1>3, <2>2
    <2> QED
      BY <2>1, <2>3
  <1>8. Len(t) <= Len(q)
    BY <1>1 DEF Kept
  <1> QED
    BY <1>4, <1>5, <1>6, <1>7, <1>8 DEF Kept

LEMMA RoomKeeps ==
    ASSUME NEW S, NEW q \in Seq(S), NEW off \in Nat, NEW p, NEW depth
    PROVE  /\ Room(q, off, p, depth) \in Seq(S)
           /\ Kept(Room(q, off, p, depth), q, off)
           /\ Droppable(p) => Stale(Room(q, off, p, depth), off) = {}
           /\ Stale(q, off) = {} => Room(q, off, p, depth) = q
  <1>1. \A K, n : Oldest(K, n) \in SUBSET K
    BY DEF Oldest
  <1>2. ASSUME NEW r \in Seq(S)
        PROVE  /\ MakeRoom(r, off, depth) \in Seq(S) /\ Kept(MakeRoom(r, off, depth), r, off)
               /\ Stale(r, off) = {} => MakeRoom(r, off, depth) = r
    <2>1. Oldest(Stale(r, off), Len(r) + 1 - depth) \in SUBSET Stale(r, off)
      BY <1>1
    <2>2. Stale(r, off) = {} => Oldest(Stale(r, off), Len(r) + 1 - depth) = {}
      BY <1>1
    <2> QED
      BY <2>1, <2>2, PickKeeps DEF MakeRoom
  <1>3. /\ DropStale(q, off) \in Seq(S) /\ Kept(DropStale(q, off), q, off)
        /\ Stale(DropStale(q, off), off) = {}
        /\ Stale(q, off) = {} => DropStale(q, off) = q
    <2>1. Stale(q, off) \in SUBSET Stale(q, off)
      OBVIOUS
    <2> QED
      BY <2>1, PickKeeps DEF DropStale
  <1>4. CASE Droppable(p)
    <2>1. Room(q, off, p, depth) = MakeRoom(DropStale(q, off), off, depth)
      BY <1>4 DEF Room
    <2>2. MakeRoom(DropStale(q, off), off, depth) = DropStale(q, off)
      BY <1>2, <1>3
    <2> QED
      BY <1>3, <2>1, <2>2
  <1>5. CASE ~Droppable(p)
    BY <1>2, <1>5 DEF Room
  <1> QED
    BY <1>4, <1>5

\* The head that is on the wire in part stays the head.
LEMMA KeptHead ==
    ASSUME NEW S, NEW q \in Seq(S), NEW r \in Seq(S), NEW off \in Nat, off > 0, q # <<>>,
           Kept(r, q, off)
    PROVE  r # <<>> /\ Head(r) = Head(q)
  <1>1. /\ Len(q) \in Nat /\ Len(r) \in Nat /\ Len(q) > 0
        /\ Head(q) = q[1] /\ (r # <<>> => Head(r) = r[1])
        /\ Len(r) > 0 => r # <<>>
    BY HeadTailProperties, EmptySeq, LenProperties
  <1>2. PICK e \in [1 .. Len(r) -> 1 .. Len(q)] :
          /\ \A n \in 1 .. Len(r) : r[n] = q[e[n]]
          /\ \A n, m \in 1 .. Len(r) : n < m => e[n] < e[m]
          /\ \A i \in 1 .. Len(q) : i \notin Stale(q, off) => \E n \in 1 .. Len(r) : e[n] = i
    BY DEF Kept
  <1>3. 1 \in 1 .. Len(q) /\ 1 \notin Stale(q, off)
    BY <1>1 DEF Stale, InFlight
  <1>4. PICK n \in 1 .. Len(r) : e[n] = 1
    BY <1>2, <1>3
  <1>5. ~(1 < n)
    <2>1. 1 < n => 1 \in 1 .. Len(r) /\ e[1] < 1 /\ e[1] \in 1 .. Len(q)
      BY <1>1, <1>2, <1>4
    <2> QED
      BY <1>1, <2>1
  <1>6. n = 1
    BY <1>1, <1>5
  <1> QED
    BY <1>1, <1>2, <1>4, <1>6

\* The results are those the enumeration PacketQueueResult has.
Results == {"dropped", "enqueued", "enqueued_after_drop"}

LEMMA ResultIs ==
    ASSUME NEW p, NEW depth
    PROVE  ResultOf(p, depth) \in Results
  <1>1. Queued(p, depth).result \in Results
    BY DEF Queued, EnqueuePacket, Outcome, Results
  <1>2. QueuedFlv(p).result \in Results
    BY DEF QueuedFlv, EnqueueFlv, FlvOutcome, Results
  <1> QED
    BY <1>1, <1>2 DEF ResultOf

-----------------------------------------------------------------------------
(* The headers, and what every step leaves alone.                          *)

LEMMA HeadersAre ==
    ASSUME m_conn_type \in Kinds
    PROVE  /\ Len(Headers) \in Nat
           /\ m_conn_type = "mjpeg" => Len(Headers) = 1
           /\ m_conn_type # "mjpeg" => m_conn_type = "flv" /\ Len(Headers) = 3
           /\ \A i \in 1 .. Len(Headers) :
                  /\ Headers[i] \in Sendable /\ Headers[i].id = i
                  /\ Headers[i].class = IF i = 1 THEN "http" ELSE "config"
  <1>1. m_conn_type \in {"mjpeg", "flv"} /\ MaxPackets \in Nat /\ PacketSize \in Nat \ {0}
    BY StreamAssumption
  <1>2. \A n \in 1 .. 3 : n \in Ids
    BY <1>1 DEF Ids
  <1>3. CASE m_conn_type = "mjpeg"
    <2>1. Headers = <<Packet(1, "http", 0)>>
      BY <1>3 DEF Headers
    <2>2. Packet(1, "http", 0) \in Sendable
      BY <1>2, <1>3 DEF Packet, Packets, Sendable, Classes
    <2> QED
      BY <1>3, <2>1, <2>2 DEF Packet
  <1>4. CASE m_conn_type = "flv"
    <2>1. Headers = <<Packet(1, "http", 0), Packet(2, "config", 0), Packet(3, "config", 0)>>
      BY <1>4 DEF Headers
    <2>2. /\ Packet(1, "http", 0) \in Sendable /\ Packet(2, "config", 0) \in Sendable
          /\ Packet(3, "config", 0) \in Sendable
      BY <1>2, <1>4 DEF Packet, Packets, Sendable, Classes
    <2> QED
      BY <1>4, <2>1, <2>2 DEF Packet
  <1> QED
    BY <1>1, <1>3, <1>4

LEMMA KindStays ==
    ASSUME [Next]_vars
    PROVE  m_conn_type' = m_conn_type
  <1> USE DEF connVars, workVars, sendVars, peerVars
  <1>1. WorkerNext => m_conn_type' = m_conn_type
    BY DEF WorkerNext, StartEnqueue, StartNotify, AddClient, TakeTask, ParsePartial, ParseBlank
  <1>2. MainNext => m_conn_type' = m_conn_type
    BY DEF MainNext, EventHup, EventIn, EventOut, WriteEmpty, WriteAgain, WriteFails, WriteSome,
           CloseSocket, RemoveClient
  <1>3. PeerNext \/ SenderStep \/ (\E c \in BroadcastClasses : Broadcast(c)) => m_conn_type' = m_conn_type
    BY DEF PeerNext, PeerReads, PeerSends, PeerLeaves, SenderStep, EnqueueToClient, NotifyClient,
           Account, Broadcast
  <1>4. UNCHANGED vars => m_conn_type' = m_conn_type
    BY DEF vars
  <1> QED
    BY <1>1, <1>2, <1>3, <1>4 DEF Next

LEMMA ConstantsStay ==
    ASSUME m_conn_type' = m_conn_type
    PROVE  /\ Headers' = Headers /\ BroadcastClasses' = BroadcastClasses
           /\ Sendable' = Sendable /\ Segment' = Segment
  BY DEF Headers, BroadcastClasses, Sendable, Segment, Classes

-----------------------------------------------------------------------------
(* The program points, the counters and the packet being broadcast.        *)

LEMMA StartedEarlier ==
    ASSUME Counters, [Next]_vars
    PROVE  StartedOnce' => StartedOnce
  <1> USE DEF connVars, workVars, sendVars, peerVars
  <1>1. m_conn_type' = m_conn_type
    BY KindStays
  <1>2. extra \in Nat /\ extra' \in {extra, extra + 1}
    <2>1. extra \in Nat
      BY StreamAssumption DEF Counters
    <2>2. WorkerNext => extra' = extra
      BY DEF WorkerNext, StartEnqueue, StartNotify, AddClient, TakeTask, ParsePartial, ParseBlank
    <2>3. MainNext => extra' = extra
      BY DEF MainNext, EventHup, EventIn, EventOut, WriteEmpty, WriteAgain, WriteFails, WriteSome,
             CloseSocket, RemoveClient
    <2>4. PeerNext \/ SenderStep \/ (\E c \in BroadcastClasses : Broadcast(c)) => extra' \in {extra, extra + 1}
      BY DEF PeerNext, PeerReads, PeerSends, PeerLeaves, SenderStep, EnqueueToClient, NotifyClient,
             Account, Broadcast
    <2>5. UNCHANGED vars => extra' = extra
      BY DEF vars
    <2> QED
      BY <2>1, <2>2, <2>3, <2>4, <2>5 DEF Next
  <1> QED
    BY <1>1, <1>2 DEF StartedOnce

LEMMA BaseInvInit == Init => BaseInv
  <1> SUFFICES ASSUME Init PROVE BaseInv
    OBVIOUS
  <1>a. m_conn_type \in Kinds
    BY DEF Init
  <1>1. /\ Len(Headers) \in Nat /\ Len(Headers) >= 1
        /\ Headers[1] \in Sendable
    BY <1>a, HeadersAre
  <1>2. MaxPackets \in Nat /\ BufferSize \in Nat /\ MaxExtra \in Nat
    BY StreamAssumption
  <1>b. /\ m_wait_flv_key_frame \in BOOLEAN /\ client_listed \in BOOLEAN /\ unread \in BOOLEAN
        /\ ~client_listed /\ (IF unread THEN 1 ELSE 0) = 0
    BY DEF Init
  <1>c. /\ m_sockfd = "open" /\ armed = "none" /\ main = "idle"
        /\ worker = "enqueue" /\ header = 1 /\ sender = "idle" /\ packet = Headers[1]
        /\ outcome = "none" /\ broadcasts = 0 /\ dropped_packets = 0 /\ room = BufferSize
        /\ peer = "up" /\ extra = 0 /\ queued = 0 /\ offered = {} /\ picture = 0
    BY DEF Init
  <1>3. Scalars
    BY <1>a, <1>b, <1>c, <1>1, <1>2 DEF Scalars, Starting
  <1>4. Counters
    BY <1>b, <1>c, <1>2 DEF Counters
  <1>5. PacketInv
    BY <1>c, <1>1 DEF PacketInv, Sendable
  <1>6. ListInv
    BY <1>b, <1>c DEF ListInv
  <1> QED
    BY <1>3, <1>4, <1>5, <1>6 DEF BaseInv

LEMMA ScalarsStep ==
    ASSUME BaseInv, [Next]_vars
    PROVE  Scalars'
  <1> USE DEF connVars, workVars, sendVars, peerVars, Scalars, Starting, NotifyWrite
  <1>0. Scalars /\ Len(Headers) \in Nat /\ m_conn_type' = m_conn_type /\ Headers' = Headers
    BY HeadersAre, KindStays, ConstantsStay DEF BaseInv
  <1>a. PacketSize \in Nat \ {0} /\ BufferSize \in Nat
    BY StreamAssumption
  <1>b. QueuedFlv(packet).wait \in BOOLEAN /\ QueuedFlv(Headers[header]).wait \in BOOLEAN
    BY <1>0 DEF QueuedFlv, EnqueueFlv, FlvOutcome
  <1> HIDE DEF Headers
  <1>1. CASE StartEnqueue
    BY <1>0, <1>1, <1>b DEF StartEnqueue, DoEnqueue
  <1>2. CASE StartNotify
    BY <1>0, <1>2 DEF StartNotify
  <1>3. CASE AddClient \/ TakeTask \/ ParsePartial
    BY <1>0, <1>3 DEF AddClient, TakeTask, ParsePartial
  <1>4. CASE ParseBlank
    <2>1. Len(Headers) >= 1
      BY <1>0, HeadersAre
    <2> QED
      BY <1>0, <1>4, <2>1 DEF ParseBlank
  <1>5. CASE EventHup \/ EventIn \/ EventOut \/ WriteEmpty \/ WriteAgain \/ WriteFails
    BY <1>0, <1>5 DEF EventHup, EventIn, EventOut, WriteEmpty, WriteAgain, WriteFails
  <1>6. ASSUME NEW k \in 1 .. PacketSize, WriteSome(k) PROVE Scalars'
    BY <1>0, <1>6, <1>a DEF WriteSome
  <1>7. CASE CloseSocket \/ RemoveClient
    BY <1>0, <1>7 DEF CloseSocket, RemoveClient
  <1>8. CASE PeerNext
    BY <1>0, <1>8, <1>a DEF PeerNext, PeerReads, PeerSends, PeerLeaves
  <1>9. ASSUME NEW c \in BroadcastClasses, Broadcast(c) PROVE Scalars'
    BY <1>0, <1>9, StreamAssumption DEF Broadcast
  <1>10. CASE EnqueueToClient
    <2>1. outcome' \in Results
      BY <1>10, ResultIs DEF EnqueueToClient, Results
    <2> QED
      BY <1>0, <1>10, <1>b, <2>1 DEF EnqueueToClient, DoEnqueue, Results
  <1>11. CASE NotifyClient \/ Account
    BY <1>0, <1>11 DEF NotifyClient, Account
  <1>12. CASE UNCHANGED vars
    BY <1>0, <1>12 DEF vars
  <1> QED
    BY <1>1, <1>2, <1>3, <1>4, <1>5, <1>6, <1>7, <1>8, <1>9, <1>10, <1>11, <1>12
       DEF Next, WorkerNext, MainNext, SenderStep

LEMMA CountersStep ==
    ASSUME BaseInv, [Next]_vars
    PROVE  Counters'
  <1> USE DEF connVars, workVars, sendVars, peerVars, Counters
  <1>0. /\ Counters /\ broadcasts \in Nat /\ extra \in Nat
        /\ sender \in {"idle", "enqueue", "notify", "account"}
        /\ worker \in {"idle", "parse", "enqueue", "notify", "add"}
    BY StreamAssumption DEF BaseInv, Scalars
  <1>1. CASE StartEnqueue \/ StartNotify \/ AddClient \/ TakeTask \/ ParsePartial \/ ParseBlank
    BY <1>0, <1>1 DEF StartEnqueue, StartNotify, AddClient, TakeTask, ParsePartial, ParseBlank
  <1>2. CASE EventHup \/ EventOut \/ WriteEmpty \/ WriteAgain \/ WriteFails
    BY <1>0, <1>2 DEF EventHup, EventOut, WriteEmpty, WriteAgain, WriteFails
  <1>3. CASE EventIn
    <2>1. /\ (IF unread THEN 1 ELSE 0) = 1 /\ (IF unread' THEN 1 ELSE 0) = 0
          /\ unread' \in BOOLEAN
      BY <1>3, Zenon DEF EventIn
    <2>2. /\ queued' = queued + 1 \/ queued' = queued
          /\ UNCHANGED <<dropped_packets, broadcasts, sender, worker, extra>>
      BY <1>3 DEF EventIn
    <2> QED
      BY <1>0, <2>1, <2>2
  <1>4. ASSUME NEW k \in 1 .. PacketSize, WriteSome(k) PROVE Counters'
    BY <1>0, <1>4 DEF WriteSome
  <1>5. CASE CloseSocket \/ RemoveClient
    BY <1>0, <1>5 DEF CloseSocket, RemoveClient
  <1>6. CASE PeerNext
    <2>1. CASE PeerSends
      <3>1. /\ (IF unread THEN 1 ELSE 0) = 0 /\ (IF unread' THEN 1 ELSE 0) = 1
            /\ unread' = TRUE
        BY <2>1, Zenon DEF PeerSends
      <3>2. /\ extra' = extra + 1 /\ extra < MaxExtra
            /\ UNCHANGED <<dropped_packets, broadcasts, sender, worker, queued>>
        BY <2>1 DEF PeerSends
      <3> QED
        BY <1>0, <3>1, <3>2, StreamAssumption
    <2> QED
      BY <1>0, <1>6, <2>1 DEF PeerNext, PeerReads, PeerLeaves
  <1>7. ASSUME NEW c \in BroadcastClasses, Broadcast(c) PROVE Counters'
    BY <1>0, <1>7 DEF Broadcast
  <1>8. CASE EnqueueToClient
    <2>1. sender' # "idle" /\ sender = "enqueue"
      BY <1>8 DEF EnqueueToClient
    <2> QED
      BY <1>0, <1>8, <2>1 DEF EnqueueToClient
  <1>9. CASE NotifyClient \/ Account
    BY <1>0, <1>9 DEF NotifyClient, Account
  <1>10. CASE UNCHANGED vars
    BY <1>0, <1>10 DEF vars
  <1> QED
    BY <1>1, <1>2, <1>3, <1>4, <1>5, <1>6, <1>7, <1>8, <1>9, <1>10
       DEF Next, WorkerNext, MainNext, SenderStep

LEMMA PacketStep ==
    ASSUME BaseInv, [Next]_vars
    PROVE  PacketInv'
  <1> USE DEF connVars, workVars, sendVars, peerVars
  <1>0. /\ PacketInv /\ broadcasts \in 0 .. MaxPackets /\ MaxPackets \in Nat /\ PacketSize \in Nat
        /\ Len(Headers) \in Nat /\ Len(Headers) <= 3
        /\ Headers' = Headers /\ BroadcastClasses' = BroadcastClasses
    BY HeadersAre, KindStays, ConstantsStay, StreamAssumption DEF BaseInv, Scalars
  <1>1. ASSUME UNCHANGED <<packet, picture, offered, sender, broadcasts>> PROVE PacketInv'
    BY <1>0, <1>1 DEF PacketInv, IsPicture
  <1>2. CASE WorkerNext
    BY <1>1, <1>2 DEF WorkerNext, StartEnqueue, StartNotify, AddClient, TakeTask, ParsePartial, ParseBlank
  <1>3. CASE MainNext
    BY <1>1, <1>3 DEF MainNext, EventHup, EventIn, EventOut, WriteEmpty, WriteAgain, WriteFails,
                      WriteSome, CloseSocket, RemoveClient
  <1>4. CASE PeerNext
    BY <1>1, <1>4 DEF PeerNext, PeerReads, PeerSends, PeerLeaves
  <1>5. ASSUME NEW c \in BroadcastClasses, Broadcast(c) PROVE PacketInv'
    <2> DEFINE n == Len(Headers) + broadcasts + 1
    <2>1. n \in Ids /\ c \in {"http", "config", "key", "inter", "frame"} /\ picture \in {0} \cup Ids
      BY <1>0, <1>5 DEF Ids, BroadcastClasses, PacketInv, Broadcast
    <2>2. packet' = [id |-> n, class |-> c, size |-> PacketSize, after |-> picture]
      BY <1>5 DEF Broadcast, Packet
    <2>3. packet' \in Packets
      BY <2>1, <2>2 DEF Packets
    <2>4. picture' = IF c \in {"key", "inter"} THEN n ELSE picture
      BY <1>5, <2>2 DEF Broadcast
    <2>5. broadcasts' = broadcasts + 1 /\ offered' = offered
      BY <1>5 DEF Broadcast
    <2>6. packet'.id = Len(Headers) + broadcasts'
      BY <1>0, <2>2, <2>5
    <2> HIDE DEF n
    <2>7. picture' \in {0} \cup Ids
      BY <2>1, <2>4
    <2>8. picture' = IF IsPicture(packet)' THEN packet'.id ELSE packet'.after
      BY <2>2, <2>4 DEF IsPicture
    <2>9. packet'.class \in BroadcastClasses /\ offered' \subseteq Ids
      BY <1>0, <2>2, <2>5 DEF PacketInv
    <2> QED
      BY <1>0, <2>3, <2>6, <2>7, <2>8, <2>9 DEF PacketInv
  <1>6. CASE EnqueueToClient
    <2>1. packet.id \in Ids /\ sender # "idle"
      BY <1>0, <1>6 DEF PacketInv, Packets, EnqueueToClient
    <2>2. offered' \in {offered, offered \cup {packet.id}} /\ UNCHANGED <<packet, picture, broadcasts>>
      BY <1>6 DEF EnqueueToClient
    <2> QED
      BY <1>0, <2>1, <2>2 DEF PacketInv, IsPicture
  <1>7. CASE NotifyClient \/ Account
    BY <1>0, <1>7 DEF NotifyClient, Account, PacketInv, IsPicture
  <1>8. CASE UNCHANGED vars
    BY <1>1, <1>8 DEF vars
  <1> QED
    BY <1>2, <1>3, <1>4, <1>5, <1>6, <1>7, <1>8 DEF Next, SenderStep

LEMMA ListStep ==
    ASSUME BaseInv, [Next]_vars
    PROVE  ListInv'
  <1> USE DEF connVars, workVars, sendVars, peerVars, ListInv, Starting
  <1>0. /\ ListInv /\ Counters /\ (StartedOnce' => StartedOnce)
        /\ client_listed \in BOOLEAN /\ worker \in {"idle", "parse", "enqueue", "notify", "add"}
    BY StartedEarlier DEF BaseInv, Scalars
  <1>1. CASE StartEnqueue \/ StartNotify \/ AddClient \/ TakeTask \/ ParsePartial
    BY <1>0, <1>1 DEF StartEnqueue, StartNotify, AddClient, TakeTask, ParsePartial
  <1>2. CASE ParseBlank
    <2>1. ~StartedOnce
      BY <1>0, <1>2, StreamAssumption DEF ParseBlank, Counters, StartedOnce
    <2> QED
      BY <1>0, <1>2, <2>1 DEF ParseBlank
  <1>3. CASE EventHup \/ EventIn \/ EventOut \/ WriteEmpty \/ WriteAgain \/ WriteFails
    BY <1>0, <1>3 DEF EventHup, EventIn, EventOut, WriteEmpty, WriteAgain, WriteFails
  <1>4. ASSUME NEW k \in 1 .. PacketSize, WriteSome(k) PROVE ListInv'
    BY <1>0, <1>4 DEF WriteSome
  <1>5. CASE CloseSocket \/ RemoveClient
    <2>1. RemoveClient => m_sockfd' = "closed"
      BY DEF RemoveClient, BaseInv, Scalars
    <2> QED
      BY <1>0, <1>5, <2>1 DEF CloseSocket, RemoveClient
  <1>6. CASE PeerNext
    BY <1>0, <1>6 DEF PeerNext, PeerReads, PeerSends, PeerLeaves
  <1>7. ASSUME NEW c \in BroadcastClasses, Broadcast(c) PROVE ListInv'
    BY <1>0, <1>7 DEF Broadcast
  <1>8. CASE EnqueueToClient
    BY <1>0, <1>8 DEF EnqueueToClient
  <1>9. CASE NotifyClient \/ Account
    BY <1>0, <1>9 DEF NotifyClient, Account
  <1>10. CASE UNCHANGED vars
    BY <1>0, <1>10 DEF vars
  <1> QED
    BY <1>1, <1>2, <1>3, <1>4, <1>5, <1>6, <1>7, <1>8, <1>9, <1>10
       DEF Next, WorkerNext, MainNext, SenderStep

LEMMA BaseInvStep ==
    ASSUME BaseInv, [Next]_vars
    PROVE  BaseInv'
  BY ScalarsStep, CountersStep, PacketStep, ListStep DEF BaseInv

-----------------------------------------------------------------------------
(* The steps that reach the queue and the wire.                            *)

QueueUnchanged == UNCHANGED <<m_sockfd, m_send_queue, m_send_offset, wire>>
Quiet == QueueUnchanged /\ m_wait_flv_key_frame' = m_wait_flv_key_frame

LEMMA QueueMoves ==
    ASSUME [Next]_vars
    PROVE  \/ Quiet
           \/ ParseBlank /\ QueueUnchanged
           \/ StartEnqueue /\ m_sockfd = "open"
           \/ EnqueueToClient /\ m_sockfd = "open"
           \/ \E k \in 1 .. PacketSize : WriteSome(k)
           \/ CloseSocket
  <1> USE DEF connVars, workVars, sendVars, peerVars, Quiet, QueueUnchanged
  <1>1. CASE WorkerNext
    BY <1>1 DEF WorkerNext, StartEnqueue, StartNotify, AddClient, TakeTask, ParsePartial, ParseBlank
  <1>2. CASE EventHup \/ EventIn \/ EventOut \/ WriteEmpty \/ WriteAgain \/ WriteFails \/ RemoveClient
    BY <1>2 DEF EventHup, EventIn, EventOut, WriteEmpty, WriteAgain, WriteFails, RemoveClient
  <1>3. CASE PeerNext
    BY <1>3 DEF PeerNext, PeerReads, PeerSends, PeerLeaves
  <1>4. ASSUME NEW c \in BroadcastClasses, Broadcast(c) PROVE Quiet
    BY <1>4 DEF Broadcast
  <1>5. CASE SenderStep
    BY <1>5 DEF SenderStep, EnqueueToClient, NotifyClient, Account
  <1>6. CASE UNCHANGED vars
    BY <1>6 DEF vars
  <1> QED
    BY <1>1, <1>2, <1>3, <1>4, <1>5, <1>6 DEF Next, MainNext

\* The four ways of enqueue_flv_packet().
LEMMA FlvEnqueues ==
    ASSUME NEW p, NEW depth, m_conn_type = "flv", p.class # "http", DoEnqueue(p, depth),
           m_wait_flv_key_frame \in BOOLEAN
    PROVE  \/ /\ m_wait_flv_key_frame /\ ~Startable(p)
              /\ UNCHANGED <<m_send_queue, m_send_offset, m_wait_flv_key_frame>>
           \/ /\ ~m_wait_flv_key_frame /\ ~Startable(p) /\ Len(m_send_queue) >= FlvDepth
              /\ m_send_queue' = <<>> /\ m_send_offset' = 0 /\ m_wait_flv_key_frame' = TRUE
           \/ /\ Startable(p) /\ Len(m_send_queue) >= FlvDepth
              /\ m_send_queue' = <<p>> /\ m_send_offset' = 0
              /\ m_wait_flv_key_frame' = (p.class # "key")
           \/ /\ (m_wait_flv_key_frame => Startable(p)) /\ ~(Len(m_send_queue) >= FlvDepth)
              /\ m_send_queue' = Append(m_send_queue, p) /\ m_send_offset' = m_send_offset
              /\ m_wait_flv_key_frame' = (m_wait_flv_key_frame /\ p.class # "key")
  <1> DEFINE e == QueuedFlv(p)
  <1>1. m_send_queue' = e.queue /\ m_send_offset' = e.off /\ m_wait_flv_key_frame' = e.wait
    BY DEF DoEnqueue
  <1> DEFINE full == Len(m_send_queue) >= FlvDepth
  <1>2. Append(<<>>, p) = <<p>>
    OBVIOUS
  <1>3. CASE m_wait_flv_key_frame /\ ~Startable(p)
    <2>1. e = FlvOutcome(m_send_queue, m_send_offset, m_wait_flv_key_frame, "dropped")
      BY <1>3 DEF QueuedFlv, EnqueueFlv
    <2>2. e.queue = m_send_queue /\ e.off = m_send_offset /\ e.wait = m_wait_flv_key_frame
      BY <2>1 DEF FlvOutcome
    <2> HIDE DEF e
    <2> QED
      BY <1>1, <1>3, <2>2
  <1>4. CASE ~m_wait_flv_key_frame /\ ~Startable(p) /\ full
    <2>1. e = FlvOutcome(<<>>, 0, TRUE, "dropped")
      BY <1>4 DEF QueuedFlv, EnqueueFlv
    <2>2. e.queue = <<>> /\ e.off = 0 /\ e.wait = TRUE
      BY <2>1 DEF FlvOutcome
    <2> HIDE DEF e
    <2> QED
      BY <1>1, <1>4, <2>2
  <1>5. CASE Startable(p) /\ full
    <2>1. e = FlvOutcome(<<p>>, 0, (m_wait_flv_key_frame \/ full) /\ p.class # "key",
                         "enqueued_after_drop")
      BY <1>2, <1>5 DEF QueuedFlv, EnqueueFlv
    <2>2. e.queue = <<p>> /\ e.off = 0 /\ e.wait = ((m_wait_flv_key_frame \/ full) /\ p.class # "key")
      BY <2>1 DEF FlvOutcome
    <2>3. e.wait = (p.class # "key")
      BY <1>5, <2>2
    <2> QED
      BY <1>1, <1>5, <2>2, <2>3
  <1>6. CASE (m_wait_flv_key_frame => Startable(p)) /\ ~full
    <2>1. e = FlvOutcome(Append(m_send_queue, p), m_send_offset,
                         (m_wait_flv_key_frame \/ full) /\ p.class # "key", "enqueued")
      BY <1>6 DEF QueuedFlv, EnqueueFlv
    <2>2. /\ e.queue = Append(m_send_queue, p) /\ e.off = m_send_offset
          /\ e.wait = ((m_wait_flv_key_frame \/ full) /\ p.class # "key")
      BY <2>1 DEF FlvOutcome
    <2>3. e.wait = (m_wait_flv_key_frame /\ p.class # "key")
      BY <1>6, <2>2
    <2> QED
      BY <1>1, <1>6, <2>2, <2>3
  <1> QED
    BY <1>3, <1>4, <1>5, <1>6

\* And the two of enqueue_packet(): refused, or appended to what is kept.
LEMMA PacketEnqueues ==
    ASSUME NEW S, m_send_queue \in Seq(S), m_send_offset \in Nat, NEW p, NEW depth,
           m_conn_type # "flv" \/ p.class = "http", DoEnqueue(p, depth)
    PROVE  \E r \in Seq(S) :
               /\ Kept(r, m_send_queue, m_send_offset)
               /\ Droppable(p) => Stale(r, m_send_offset) = {}
               /\ Stale(m_send_queue, m_send_offset) = {} => r = m_send_queue
               /\ \/ Droppable(p) /\ Len(r) >= depth /\ m_send_queue' = r
                  \/ ~(Droppable(p) /\ Len(r) >= depth) /\ m_send_queue' = Append(r, p)
               /\ UNCHANGED <<m_send_offset, m_wait_flv_key_frame>>
  <1> DEFINE r == Room(m_send_queue, m_send_offset, p, depth)
  <1>1. /\ r \in Seq(S) /\ Kept(r, m_send_queue, m_send_offset)
        /\ Droppable(p) => Stale(r, m_send_offset) = {}
        /\ Stale(m_send_queue, m_send_offset) = {} => r = m_send_queue
    BY RoomKeeps
  <1>2. /\ m_send_queue' = Queued(p, depth).queue
        /\ UNCHANGED <<m_send_offset, m_wait_flv_key_frame>>
    BY DEF DoEnqueue
  <1>3. Queued(p, depth) = Outcome(r, m_send_queue, p, Droppable(p) /\ Len(r) >= depth)
    BY EnqueueIs DEF Queued
  <1> HIDE DEF r
  <1>4. m_send_queue' = IF Droppable(p) /\ Len(r) >= depth THEN r ELSE Append(r, p)
    BY <1>2, <1>3 DEF Outcome
  <1> QED
    BY <1>1, <1>2, <1>4

\* One send(): it begins the head of the queue, or goes on with it.
LEMMA WriteMoves ==
    ASSUME QueueInv, NEW k \in 1 .. PacketSize, WriteSome(k)
    PROVE  /\ m_sockfd = "open" /\ m_send_queue # <<>> /\ Head(m_send_queue) \in Sendable
           /\ wire' \in Seq(Segment) /\ wire' # <<>>
           /\ Len(wire') = Len(wire) + 1 - InFlight(m_send_offset)
           /\ \A i \in 1 .. Len(wire) : wire'[i].pkt = wire[i].pkt
           /\ \A i \in 1 .. Len(wire) : i < Len(wire') => wire'[i] = wire[i]
           /\ Last(wire') = [pkt |-> Head(m_send_queue), sent |-> m_send_offset + k]
           /\ m_send_offset + k \in 1 .. PacketSize
           /\ \/ /\ m_send_offset + k = PacketSize
                 /\ m_send_queue' = Tail(m_send_queue) /\ m_send_offset' = 0
              \/ /\ m_send_offset + k < PacketSize
                 /\ m_send_queue' = m_send_queue /\ m_send_offset' = m_send_offset + k
           /\ UNCHANGED <<m_sockfd, m_wait_flv_key_frame>>
  <1>1. /\ m_sockfd = "open" /\ m_send_queue # <<>> /\ k <= PacketSize - m_send_offset
        /\ m_send_queue' = Sent(m_send_offset + k).queue
        /\ m_send_offset' = Sent(m_send_offset + k).off
        /\ UNCHANGED <<m_sockfd, m_wait_flv_key_frame>>
    BY DEF WriteSome
  <1>2. /\ PacketSize \in Nat /\ m_send_offset \in Nat /\ k \in Nat /\ k >= 1
        /\ m_send_offset + k \in 1 .. PacketSize
    BY <1>1, StreamAssumption DEF QueueInv
  <1>3. Head(m_send_queue) \in Sendable
    BY <1>1, HeadTailProperties DEF QueueInv
  <1>4. wire \in Seq(Segment) /\ Len(wire) \in Nat
    BY LenProperties DEF QueueInv
  <1>5. \/ /\ m_send_offset + k = PacketSize
           /\ m_send_queue' = Tail(m_send_queue) /\ m_send_offset' = 0
        \/ /\ m_send_offset + k < PacketSize
           /\ m_send_queue' = m_send_queue /\ m_send_offset' = m_send_offset + k
    BY <1>1, <1>2 DEF Sent
  <1> DEFINE new == [pkt |-> Head(m_send_queue), sent |-> m_send_offset + k]
  <1>6. new \in Segment
    BY <1>2, <1>3 DEF Segment
  <1> HIDE DEF new
  <1>7. CASE m_send_offset = 0
    <2>1. wire' = Append(wire, new)
      BY <1>2, <1>7 DEF WriteSome, new
    <2>2. /\ wire' \in Seq(Segment) /\ Len(wire') = Len(wire) + 1 /\ wire'[Len(wire) + 1] = new
          /\ \A i \in 1 .. Len(wire) : wire'[i] = wire[i]
      BY <1>4, <1>6, <2>1, AppendProperties
    <2>3. wire' # <<>> /\ Last(wire') = new
      BY <1>4, <2>2, EmptySeq DEF Last
    <2> QED
      BY <1>1, <1>2, <1>3, <1>4, <1>5, <1>7, <2>2, <2>3 DEF InFlight, new
  <1>8. CASE m_send_offset > 0
    <2>1. wire # <<>> /\ Last(wire) = [pkt |-> Head(m_send_queue), sent |-> m_send_offset]
      BY <1>8 DEF QueueInv
    <2>2. Len(wire) \in 1 .. Len(wire) /\ wire[Len(wire)] = Last(wire)
      BY <1>4, <2>1, EmptySeq DEF Last
    <2>3. wire' = [wire EXCEPT ![Len(wire)].sent = wire[Len(wire)].sent + k]
      BY <1>8 DEF WriteSome
    <2>a. [wire[Len(wire)] EXCEPT !.sent = wire[Len(wire)].sent + k] = new
      BY <2>1, <2>2 DEF new
    <2>4. wire' = [wire EXCEPT ![Len(wire)] = new]
      BY <2>3, <2>a
    <2>5. /\ wire' \in Seq(Segment) /\ Len(wire') = Len(wire) /\ wire'[Len(wire)] = new
          /\ \A i \in 1 .. Len(wire) : i # Len(wire) => wire'[i] = wire[i]
      BY <1>4, <1>6, <2>2, <2>4, ExceptSeq
    <2>6. wire' # <<>> /\ Last(wire') = new
      BY <1>4, <2>2, <2>5, EmptySeq DEF Last
    <2>7. \A i \in 1 .. Len(wire) : wire'[i].pkt = wire[i].pkt
      BY <2>1, <2>2, <2>5 DEF new
    <2> QED
      BY <1>1, <1>2, <1>3, <1>4, <1>5, <1>8, <2>5, <2>6, <2>7 DEF InFlight, new
  <1> QED
    BY <1>2, <1>7, <1>8

LEMMA EnqueueTypes ==
    ASSUME QueueInv, m_conn_type \in Kinds, m_wait_flv_key_frame \in BOOLEAN,
           NEW p \in Sendable, NEW depth, DoEnqueue(p, depth)
    PROVE  /\ m_send_queue' \in Seq(Sendable) /\ m_send_offset' \in {0, m_send_offset}
           /\ m_wait_flv_key_frame' \in BOOLEAN
           /\ m_send_queue' = <<>> => m_send_offset' = 0
           /\ m_send_offset' > 0 =>
                  /\ m_send_offset' = m_send_offset
                  /\ m_send_queue # <<>> /\ Head(m_send_queue') = Head(m_send_queue)
  <1>0. /\ m_send_queue \in Seq(Sendable) /\ m_send_offset \in Nat /\ Len(m_send_queue) \in Nat
        /\ m_send_queue = <<>> => m_send_offset = 0
    BY StreamAssumption, LenProperties DEF QueueInv
  <1>1. \A q \in Seq(Sendable) : /\ Append(q, p) \in Seq(Sendable) /\ Append(q, p) # <<>>
                                 /\ q # <<>> => Head(Append(q, p)) = Head(q)
    <2> TAKE q \in Seq(Sendable)
    <2>1. q # <<>> => Len(q) >= 1 /\ Head(q) = q[1] /\ Len(q) \in Nat
      BY HeadTailProperties, EmptySeq, LenProperties
    <2>2. /\ Append(q, p) \in Seq(Sendable) /\ Append(q, p) # <<>>
          /\ (q # <<>> => Append(q, p)[1] = q[1])
      BY <2>1, AppendProperties
    <2>3. Head(Append(q, p)) = Append(q, p)[1]
      BY <2>2, HeadTailProperties
    <2> QED
      BY <2>1, <2>2, <2>3
  <1>2. CASE m_conn_type = "flv" /\ p.class # "http"
    <2>1. <<>> \in Seq(Sendable) /\ <<p>> \in Seq(Sendable) /\ <<p>> # <<>>
      OBVIOUS
    <2>2. \/ m_send_queue' = m_send_queue /\ m_send_offset' = m_send_offset
          \/ m_send_queue' = <<>> /\ m_send_offset' = 0
          \/ m_send_queue' = <<p>> /\ m_send_offset' = 0
          \/ m_send_queue' = Append(m_send_queue, p) /\ m_send_offset' = m_send_offset
      BY <1>2, FlvEnqueues
    <2>3. m_wait_flv_key_frame' \in BOOLEAN
      BY <1>2, FlvEnqueues
    <2>4. /\ Append(m_send_queue, p) \in Seq(Sendable) /\ Append(m_send_queue, p) # <<>>
          /\ m_send_queue # <<>> => Head(Append(m_send_queue, p)) = Head(m_send_queue)
      BY <1>0, <1>1
    <2>5. m_send_queue' \in Seq(Sendable) /\ m_send_offset' \in {0, m_send_offset}
      BY <1>0, <2>1, <2>2, <2>4
    <2>6. m_send_queue' = <<>> => m_send_offset' = 0
      BY <1>0, <2>2, <2>4
    <2>7. m_send_offset' > 0 =>
                  /\ m_send_offset' = m_send_offset
                  /\ m_send_queue # <<>> /\ Head(m_send_queue') = Head(m_send_queue)
      BY <1>0, <2>2, <2>4
    <2> QED
      BY <2>3, <2>5, <2>6, <2>7
  <1>3. CASE m_conn_type # "flv" \/ p.class = "http"
    <2>1. PICK r \in Seq(Sendable) :
            /\ Kept(r, m_send_queue, m_send_offset)
            /\ m_send_queue' \in {r, Append(r, p)}
            /\ UNCHANGED <<m_send_offset, m_wait_flv_key_frame>>
      BY <1>0, <1>3, PacketEnqueues
    <2>2. m_send_offset > 0 => m_send_queue # <<>> /\ r # <<>> /\ Head(r) = Head(m_send_queue)
      BY <1>0, <2>1, KeptHead
    <2> QED
      BY <1>0, <1>1, <2>1, <2>2
  <1> QED
    BY <1>2, <1>3

\* What a worker or the broadcaster enqueues.
LEMMA HeaderIsSendable ==
    ASSUME BaseInv, StartEnqueue, m_sockfd = "open"
    PROVE  /\ header \in 1 .. Len(Headers) /\ Headers[header] \in Sendable
           /\ DoEnqueue(Headers[header], HeaderDepth)
           /\ worker = "enqueue" /\ worker' = "notify"
           /\ UNCHANGED <<m_sockfd, m_conn_type, client_listed, header, sendVars, extra, wire>>
  <1>1. worker = "enqueue" /\ header \in 1 .. Len(Headers)
    BY HeadersAre DEF StartEnqueue, BaseInv, Scalars, Starting
  <1> QED
    BY <1>1, HeadersAre DEF StartEnqueue, BaseInv, Scalars, peerVars

LEMMA PacketIsSendable ==
    ASSUME BaseInv, EnqueueToClient, m_sockfd = "open"
    PROVE  /\ packet \in Sendable /\ packet.class # "http"
           /\ DoEnqueue(packet, FrameDepth)
           /\ offered' = offered \cup {packet.id}
           /\ sender = "enqueue" /\ sender' # "enqueue"
           /\ packet.id = Len(Headers) + broadcasts /\ packet.class \in BroadcastClasses
           /\ picture = IF IsPicture(packet) THEN packet.id ELSE packet.after
           /\ UNCHANGED <<m_sockfd, m_conn_type, client_listed, workVars, packet, broadcasts,
                          picture, extra, wire>>
  <1>1. sender = "enqueue" /\ sender' # "enqueue"
    BY DEF EnqueueToClient
  <1>2. /\ packet \in Packets /\ packet.class \in BroadcastClasses
        /\ packet.id = Len(Headers) + broadcasts
        /\ picture = IF IsPicture(packet) THEN packet.id ELSE packet.after
    BY <1>1 DEF BaseInv, PacketInv
  <1>3. packet \in Sendable /\ packet.class # "http"
    BY <1>2 DEF Sendable, BroadcastClasses, Classes
  <1> QED
    BY <1>1, <1>2, <1>3 DEF EnqueueToClient, peerVars

LEMMA QueueInvInit == Init => QueueInv
  <1> SUFFICES ASSUME Init PROVE QueueInv
    OBVIOUS
  <1>1. <<>> \in Seq(Sendable) /\ <<>> \in Seq(Segment)
    OBVIOUS
  <1>2. /\ m_send_queue = <<>> /\ m_send_offset = 0 /\ m_sockfd = "open" /\ wire = <<>>
    BY DEF Init
  <1> QED
    BY <1>1, <1>2, StreamAssumption DEF QueueInv

\* A start begins with the state, or by a further empty line.
LEMMA WorkerBegins ==
    ASSUME BaseInv, [Next]_vars, StartedOnce', worker' = "enqueue", header' = 1
    PROVE  worker = "enqueue" /\ header = 1
  <1> USE DEF connVars, workVars, sendVars, peerVars
  <1>0. header \in Nat /\ header >= 1 /\ StartedOnce
    BY StartedEarlier, HeadersAre DEF BaseInv, Scalars
  <1>1. ~ParseBlank
    BY <1>0, StreamAssumption DEF BaseInv, Counters, StartedOnce, ParseBlank
  <1>2. CASE WorkerNext
    BY <1>0, <1>1, <1>2 DEF WorkerNext, StartEnqueue, StartNotify, AddClient, TakeTask, ParsePartial
  <1>3. CASE MainNext
    BY <1>3 DEF MainNext, EventHup, EventIn, EventOut, WriteEmpty, WriteAgain, WriteFails,
                      WriteSome, CloseSocket, RemoveClient
  <1>4. CASE PeerNext
    BY <1>4 DEF PeerNext, PeerReads, PeerSends, PeerLeaves
  <1>5. ASSUME NEW c \in BroadcastClasses, Broadcast(c) PROVE worker' = worker /\ header' = header
    BY <1>5 DEF Broadcast
  <1>6. CASE SenderStep
    BY <1>6 DEF SenderStep, EnqueueToClient, NotifyClient, Account
  <1>7. CASE UNCHANGED vars
    BY <1>7 DEF vars
  <1> QED
    BY <1>2, <1>3, <1>4, <1>5, <1>6, <1>7 DEF Next

LEMMA QueueInvStep ==
    ASSUME BaseInv, QueueInv, [Next]_vars
    PROVE  QueueInv'
  <1>0. /\ m_conn_type \in Kinds /\ m_wait_flv_key_frame \in BOOLEAN
        /\ Sendable' = Sendable /\ Segment' = Segment
        /\ PacketSize \in Nat \ {0} /\ (StartedOnce' => StartedOnce)
        /\ worker' = "enqueue" /\ header' = 1 /\ StartedOnce' => worker = "enqueue" /\ header = 1
    BY KindStays, ConstantsStay, StartedEarlier, WorkerBegins, StreamAssumption DEF BaseInv, Scalars
  <1>1. CASE QueueUnchanged
    BY <1>0, <1>1 DEF QueueInv, QueueUnchanged
  <1>2. CASE StartEnqueue /\ m_sockfd = "open"
    <2>1. /\ Headers[header] \in Sendable /\ DoEnqueue(Headers[header], HeaderDepth)
          /\ worker' = "notify" /\ wire' = wire /\ m_sockfd' = "open"
      BY <1>2, HeaderIsSendable
    <2>2. /\ m_send_queue' \in Seq(Sendable) /\ m_send_offset' \in {0, m_send_offset}
          /\ m_send_queue' = <<>> => m_send_offset' = 0
          /\ m_send_offset' > 0 =>
                  /\ m_send_offset' = m_send_offset
                  /\ m_send_queue # <<>> /\ Head(m_send_queue') = Head(m_send_queue)
      BY <1>0, <2>1, EnqueueTypes
    <2> QED
      BY <1>0, <2>1, <2>2 DEF QueueInv
  <1>3. CASE EnqueueToClient /\ m_sockfd = "open"
    <2>1. /\ packet \in Sendable /\ DoEnqueue(packet, FrameDepth)
          /\ sender = "enqueue" /\ worker' = worker /\ wire' = wire /\ m_sockfd' = "open"
      BY <1>3, PacketIsSendable DEF workVars
    <2>2. /\ m_send_queue' \in Seq(Sendable) /\ m_send_offset' \in {0, m_send_offset}
          /\ m_send_queue' = <<>> => m_send_offset' = 0
          /\ m_send_offset' > 0 =>
                  /\ m_send_offset' = m_send_offset
                  /\ m_send_queue # <<>> /\ Head(m_send_queue') = Head(m_send_queue)
      BY <1>0, <2>1, EnqueueTypes
    <2>3. ~(StartedOnce' /\ worker' = "enqueue" /\ header' = 1)
      BY <1>0, <2>1 DEF BaseInv, ListInv, Starting
    <2> QED
      BY <1>0, <2>1, <2>2, <2>3 DEF QueueInv
  <1>4. ASSUME NEW k \in 1 .. PacketSize, WriteSome(k) PROVE QueueInv'
    <2>1. /\ m_sockfd' = "open" /\ m_send_queue # <<>>
          /\ wire' \in Seq(Segment) /\ wire' # <<>>
          /\ Last(wire') = [pkt |-> Head(m_send_queue), sent |-> m_send_offset + k]
          /\ m_send_offset + k \in 1 .. PacketSize
          /\ \/ /\ m_send_offset + k = PacketSize
                /\ m_send_queue' = Tail(m_send_queue) /\ m_send_offset' = 0
             \/ /\ m_send_offset + k < PacketSize
                /\ m_send_queue' = m_send_queue /\ m_send_offset' = m_send_offset + k
      BY <1>4, WriteMoves
    <2>2. m_send_queue \in Seq(Sendable) /\ Tail(m_send_queue) \in Seq(Sendable)
      BY <2>1, HeadTailProperties DEF QueueInv
    <2>3. ~(StartedOnce' /\ worker' = "enqueue" /\ header' = 1)
      BY <1>0, <2>1 DEF QueueInv
    <2>a. m_send_offset \in Nat /\ k \in Nat /\ m_send_queue \in Seq(Sendable)
      BY <1>0 DEF QueueInv
    <2>b. m_send_offset' \in 0 .. PacketSize - 1
      BY <1>0, <2>1, <2>a
    <2>4. m_send_queue' \in Seq(Sendable) /\ m_send_offset' \in 0 .. PacketSize - 1
      BY <2>1, <2>2, <2>b
    <2>5. m_send_queue' = <<>> => m_send_offset' = 0
      BY <2>1
    <2>6. m_send_offset' > 0 =>
              wire' # <<>> /\ Last(wire') = [pkt |-> Head(m_send_queue'), sent |-> m_send_offset']
      BY <2>1
    <2> QED
      BY <1>0, <2>1, <2>3, <2>4, <2>5, <2>6 DEF QueueInv
  <1>5. CASE CloseSocket
    <2>1. /\ m_sockfd' = "closed" /\ m_send_queue' = <<>> /\ m_send_offset' = 0 /\ wire' = wire
      BY <1>5 DEF CloseSocket
    <2>2. <<>> \in Seq(Sendable)
      OBVIOUS
    <2> QED
      BY <1>0, <2>1, <2>2 DEF QueueInv
  <1> QED
    BY <1>1, <1>2, <1>3, <1>4, <1>5, QueueMoves DEF Quiet

-----------------------------------------------------------------------------
(* The bound of the queue, and the types.                                  *)

LEMMA FlvBounded ==
    ASSUME NEW S, m_send_queue \in Seq(S), NEW p \in S, NEW depth, m_conn_type = "flv",
           p.class # "http", DoEnqueue(p, depth), m_wait_flv_key_frame \in BOOLEAN,
           Len(m_send_queue) <= FlvDepth
    PROVE  Len(m_send_queue') <= FlvDepth
  <1>1. /\ Len(m_send_queue) \in Nat /\ FlvDepth \in Nat \ {0}
        /\ Len(Append(m_send_queue, p)) = Len(m_send_queue) + 1
        /\ Len(<<p>>) = 1 /\ Len(<<>>) = 0
    BY LenProperties, AppendProperties, StreamAssumption
  <1>2. \/ m_send_queue' = m_send_queue
        \/ m_send_queue' = <<>>
        \/ m_send_queue' = <<p>>
        \/ m_send_queue' = Append(m_send_queue, p) /\ ~(Len(m_send_queue) >= FlvDepth)
    BY FlvEnqueues
  <1> QED
    BY <1>1, <1>2

LEMMA DepthInvInit == Init => DepthInv
  <1> SUFFICES ASSUME Init PROVE DepthInv
    OBVIOUS
  <1>1. Len(m_send_queue) = 0 /\ Depth \in Nat
    BY StreamAssumption DEF Init, Depth
  <1> QED
    BY <1>1 DEF DepthInv

LEMMA DepthInvStep ==
    ASSUME BaseInv, QueueInv, DepthInv, [Next]_vars
    PROVE  DepthInv'
  <1> SUFFICES ASSUME StartedOnce' PROVE Len(m_send_queue') <= Depth
    BY KindStays DEF DepthInv, Depth
  <1>0. /\ m_conn_type \in {"mjpeg", "flv"} /\ m_wait_flv_key_frame \in BOOLEAN /\ StartedOnce
        /\ m_send_queue \in Seq(Sendable) /\ m_send_offset \in Nat /\ Len(m_send_queue) \in Nat
        /\ Len(m_send_queue) <= Depth /\ Depth \in Nat \ {0}
    BY StartedEarlier, StreamAssumption, LenProperties DEF BaseInv, Scalars, QueueInv, DepthInv, Depth
  <1>1. CASE QueueUnchanged
    BY <1>0, <1>1 DEF QueueUnchanged
  <1>2. CASE StartEnqueue /\ m_sockfd = "open"
    <2> DEFINE p == Headers[header]
    <2>1. /\ header \in 1 .. Len(Headers) /\ p \in Sendable /\ worker = "enqueue"
          /\ p.class = IF header = 1 THEN "http" ELSE "config"
          /\ DoEnqueue(p, HeaderDepth)
      BY <1>2, HeaderIsSendable, HeadersAre DEF BaseInv, Scalars
    <2>2. m_conn_type # "flv" => header = 1
      BY <1>0, <2>1, HeadersAre DEF BaseInv, Scalars
    <2> HIDE DEF p
    <2>3. CASE header = 1
      <3>1. m_send_queue = <<>>
        BY <1>0, <2>1, <2>3 DEF QueueInv
      <3>2. ~Droppable(p) /\ Stale(m_send_queue, m_send_offset) = {}
        BY <2>1, <2>3, <3>1 DEF Droppable, Stale, InFlight
      <3>3. m_send_queue' = Append(m_send_queue, p)
        BY <1>0, <2>1, <2>3, <3>2, PacketEnqueues
      <3>4. Len(m_send_queue') = 1
        BY <3>1, <3>3
      <3> QED
        BY <1>0, <3>4
    <2>4. CASE header # 1
      BY <1>0, <2>1, <2>2, <2>4, FlvBounded DEF Depth
    <2> QED
      BY <2>3, <2>4
  <1>3. CASE EnqueueToClient /\ m_sockfd = "open"
    <2>1. /\ packet \in Sendable /\ packet.class # "http" /\ DoEnqueue(packet, FrameDepth)
          /\ packet.class \in BroadcastClasses
      BY <1>3, PacketIsSendable
    <2>2. CASE m_conn_type = "flv"
      BY <1>0, <2>1, <2>2, FlvBounded DEF Depth
    <2>3. CASE m_conn_type = "mjpeg"
      <3>1. Droppable(packet)
        BY <2>1, <2>3 DEF Droppable, BroadcastClasses
      <3>2. PICK r \in Seq(Sendable) :
              /\ Kept(r, m_send_queue, m_send_offset)
              /\ \/ m_send_queue' = r
                 \/ ~(Len(r) >= FrameDepth) /\ m_send_queue' = Append(r, packet)
        BY <1>0, <2>1, <2>3, <3>1, PacketEnqueues
      <3>3. /\ Len(r) \in Nat /\ Len(r) <= Len(m_send_queue)
            /\ Len(Append(r, packet)) = Len(r) + 1 /\ Depth = FrameDepth
        BY <2>1, <2>3, <3>2, LenProperties, AppendProperties DEF Kept, Depth
      <3> QED
        BY <1>0, <3>2, <3>3
    <2> QED
      BY <1>0, <2>2, <2>3
  <1>4. ASSUME NEW k \in 1 .. PacketSize, WriteSome(k) PROVE Len(m_send_queue') <= Depth
    <2>1. m_send_queue # <<>> /\ m_send_queue' \in {m_send_queue, Tail(m_send_queue)}
      BY <1>4, WriteMoves
    <2>2. Len(Tail(m_send_queue)) = Len(m_send_queue) - 1
      BY <1>0, <2>1, HeadTailProperties
    <2> QED
      BY <1>0, <2>1, <2>2
  <1>5. CASE CloseSocket
    BY <1>0, <1>5 DEF CloseSocket
  <1> QED
    BY <1>1, <1>2, <1>3, <1>4, <1>5, QueueMoves DEF Quiet

LEMMA InvMeansTypes == BaseInv /\ QueueInv /\ DepthInv => TypeOK
  <1> SUFFICES ASSUME BaseInv, QueueInv, DepthInv PROVE TypeOK
    OBVIOUS
  <1>1. /\ MaxPackets \in Nat /\ MaxExtra \in Nat /\ broadcasts \in 0 .. MaxPackets
        /\ extra \in 0 .. MaxExtra
    BY StreamAssumption DEF BaseInv, Scalars, Counters
  <1>2. dropped_packets \in 0 .. MaxPackets
    BY <1>1 DEF BaseInv, Counters
  <1>3. queued \in 0 .. MaxExtra
    <2>1. queued \in Nat /\ (IF unread THEN 1 ELSE 0) \in {0, 1}
          /\ queued + (IF unread THEN 1 ELSE 0) <= extra
      BY DEF BaseInv, Counters
    <2> QED
      BY <1>1, <2>1
  <1>4. m_send_queue \in Seq(Packets) /\ wire \in Seq(Segments)
    <2>1. Sendable \subseteq Packets /\ Segment \subseteq Segments
      BY DEF Sendable, Segment, Segments
    <2> QED
      BY <2>1, SeqMonotonic DEF QueueInv
  <1>5. StartedOnce => Len(m_send_queue) <= IF m_conn_type = "flv" THEN FlvDepth ELSE FrameDepth
    BY DEF DepthInv, Depth
  <1> QED
    BY <1>1, <1>2, <1>3, <1>4, <1>5 DEF TypeOK, BaseInv, Scalars, Counters, PacketInv, QueueInv

\* The queue of a client that does not read stays within the depth of its kind
\* of stream, whatever is broadcast meanwhile (enqueue_packet(),
\* enqueue_flv_packet()), as long as the stream was started once.
THEOREM StreamTypeCorrect == Spec => []TypeOK
  <1> DEFINE I == BaseInv /\ QueueInv /\ DepthInv
  <1>1. Init => I
    BY BaseInvInit, QueueInvInit, DepthInvInit
  <1>2. I /\ [Next]_vars => I'
    BY BaseInvStep, QueueInvStep, DepthInvStep
  <1>3. I => TypeOK
    BY InvMeansTypes
  <1> HIDE DEF I
  <1> QED
    BY <1>1, <1>2, <1>3, PTL DEF Spec

-----------------------------------------------------------------------------
(* Framing.                                                                *)

LEMMA FramingInvInit == Init => FramingInv
  <1> SUFFICES ASSUME Init PROVE FramingInv
    OBVIOUS
  <1>1. wire = <<>> /\ Len(wire) = 0
    BY DEF Init
  <1> QED
    BY <1>1 DEF FramingInv, Framed, Torn

LEMMA FramingInvStep ==
    ASSUME BaseInv, QueueInv, FramingInv, [Next]_vars
    PROVE  FramingInv'
  <1>0. /\ m_conn_type \in {"mjpeg", "flv"} /\ m_wait_flv_key_frame \in BOOLEAN
        /\ (StartedOnce' => StartedOnce) /\ m_conn_type' = m_conn_type
        /\ m_send_queue \in Seq(Sendable) /\ m_send_offset \in Nat
        /\ wire \in Seq(Segment) /\ Len(wire) \in Nat
        /\ m_send_queue = <<>> => m_send_offset = 0
    BY KindStays, StartedEarlier, StreamAssumption, LenProperties DEF BaseInv, Scalars, QueueInv
  <1> SUFFICES ASSUME FlvStartedOnce'
               PROVE  /\ Framed'
                      /\ Torn' => /\ m_conn_type = "flv"
                                  /\ m_send_queue' # <<>> => Startable(Head(m_send_queue'))
                                  /\ m_send_queue' = <<>> => m_wait_flv_key_frame'
    BY <1>0 DEF FramingInv
  <1>a. FlvStartedOnce
    BY <1>0 DEF FlvStartedOnce
  <1>b. /\ Framed
        /\ Torn => /\ m_conn_type = "flv"
                   /\ m_send_queue # <<>> => Startable(Head(m_send_queue))
                   /\ m_send_queue = <<>> => m_wait_flv_key_frame
    BY <1>a DEF FramingInv
  <1>1. CASE Quiet
    BY <1>0, <1>1, <1>b DEF Quiet, QueueUnchanged, Framed, Torn
  <1>2. CASE ParseBlank /\ QueueUnchanged
    <2>1. m_conn_type # "flv"
      BY <1>2, <1>a, StreamAssumption DEF ParseBlank, BaseInv, Counters, FlvStartedOnce, StartedOnce
    <2> QED
      BY <1>0, <1>2, <1>b, <2>1 DEF QueueUnchanged, Framed, Torn
  \* Nothing but the reset leaves a packet torn, and then a packet comes next
  \* that a decoder can start at.
  <1>3. ASSUME NEW p \in Sendable, NEW depth, DoEnqueue(p, depth), wire' = wire, m_sockfd = "open",
               m_conn_type = "flv" /\ p.class = "http" => wire = <<>>
        PROVE  /\ Framed'
               /\ Torn' => /\ m_conn_type = "flv"
                           /\ m_send_queue' # <<>> => Startable(Head(m_send_queue'))
                           /\ m_send_queue' = <<>> => m_wait_flv_key_frame'
    <2>1. Framed'
      BY <1>0, <1>3, <1>b DEF Framed
    <2> SUFFICES ASSUME Torn'
                 PROVE  /\ m_conn_type = "flv"
                        /\ m_send_queue' # <<>> => Startable(Head(m_send_queue'))
                        /\ m_send_queue' = <<>> => m_wait_flv_key_frame'
      BY <2>1
    <2>2. wire # <<>> /\ ~Whole(Last(wire)) /\ m_send_offset' = 0
      BY <1>3 DEF Torn, Whole
    <2>3. m_send_offset = 0 => Torn
      BY <1>3, <2>2 DEF Torn
    <2>4. CASE m_conn_type # "flv" \/ p.class = "http"
      <3>1. m_send_offset' = m_send_offset
        BY <1>0, <1>3, <2>4, PacketEnqueues
      <3> QED
        BY <1>3, <1>b, <2>2, <2>3, <2>4, <3>1
    <2>5. CASE m_conn_type = "flv" /\ p.class # "http"
      <3>1. CASE m_wait_flv_key_frame' /\ m_send_queue' = <<>>
        BY <2>5, <3>1
      <3>2. CASE Startable(p) /\ m_send_queue' = <<p>>
        BY <2>5, <3>2
      <3>3. CASE m_send_queue' = m_send_queue /\ m_send_offset' = m_send_offset
                 /\ m_wait_flv_key_frame' = m_wait_flv_key_frame
        BY <1>b, <2>2, <2>3, <3>3
      <3>4. CASE /\ (m_wait_flv_key_frame => Startable(p)) /\ m_send_offset' = m_send_offset
                 /\ m_send_queue' = Append(m_send_queue, p)
        <4>1. Torn
          BY <2>2, <2>3, <3>4
        <4>2. /\ m_send_queue' # <<>>
              /\ m_send_queue = <<>> => Head(m_send_queue') = p
              /\ m_send_queue # <<>> => Head(m_send_queue') = Head(m_send_queue)
          BY <1>0, <1>3, <3>4
        <4> QED
          BY <1>b, <2>5, <3>4, <4>1, <4>2
      <3>5. \/ m_wait_flv_key_frame' /\ m_send_queue' = <<>>
            \/ Startable(p) /\ m_send_queue' = <<p>>
            \/ m_send_queue' = m_send_queue /\ m_send_offset' = m_send_offset
                 /\ m_wait_flv_key_frame' = m_wait_flv_key_frame
            \/ /\ (m_wait_flv_key_frame => Startable(p)) /\ m_send_offset' = m_send_offset
               /\ m_send_queue' = Append(m_send_queue, p)
        BY <1>0, <1>3, <2>5, FlvEnqueues
      <3> QED
        BY <3>1, <3>2, <3>3, <3>4, <3>5
    <2> QED
      BY <2>4, <2>5
  <1>4. CASE StartEnqueue /\ m_sockfd = "open"
    <2>1. /\ Headers[header] \in Sendable /\ DoEnqueue(Headers[header], HeaderDepth) /\ wire' = wire
          /\ worker = "enqueue" /\ header \in 1 .. Len(Headers)
      BY <1>4, HeaderIsSendable
    <2>2. Headers[header].class = "http" => header = 1
      BY <2>1, HeadersAre DEF BaseInv, Scalars
    <2>3. m_conn_type = "flv" /\ Headers[header].class = "http" => wire = <<>>
      BY <1>a, <2>1, <2>2 DEF QueueInv, FlvStartedOnce
    <2> QED
      BY <1>3, <1>4, <2>1, <2>3
  <1>5. CASE EnqueueToClient /\ m_sockfd = "open"
    <2>1. /\ packet \in Sendable /\ packet.class # "http" /\ DoEnqueue(packet, FrameDepth)
          /\ wire' = wire
      BY <1>5, PacketIsSendable
    <2> QED
      BY <1>3, <1>5, <2>1
  <1>6. ASSUME NEW k \in 1 .. PacketSize, WriteSome(k)
        PROVE  Framed' /\ ~Torn'
    <2>1. /\ m_sockfd = "open" /\ m_send_queue # <<>> /\ Head(m_send_queue) \in Sendable
          /\ wire' \in Seq(Segment) /\ wire' # <<>>
          /\ Len(wire') = Len(wire) + 1 - InFlight(m_send_offset)
          /\ \A i \in 1 .. Len(wire) : wire'[i].pkt = wire[i].pkt
          /\ \A i \in 1 .. Len(wire) : i < Len(wire') => wire'[i] = wire[i]
          /\ Last(wire') = [pkt |-> Head(m_send_queue), sent |-> m_send_offset + k]
          /\ m_send_offset' = 0 => m_send_offset + k = PacketSize
      <3>1. m_send_offset + k > 0
        BY <1>0
      <3> QED
        BY <1>6, <3>1, WriteMoves
    <2>2. ~Torn'
      <3>1. Head(m_send_queue).size = PacketSize
        BY <2>1 DEF Sendable, Packets
      <3> QED
        BY <2>1, <3>1 DEF Torn, Whole
    <2>3. ASSUME NEW i \in 1 .. Len(wire') - 1
          PROVE  Whole(wire'[i]) \/ (m_conn_type = "flv" /\ Startable(wire'[i + 1].pkt))
      <3>1. i \in 1 .. Len(wire) /\ i < Len(wire') /\ wire'[i] = wire[i]
        BY <1>0, <2>1 DEF InFlight
      <3>2. CASE i < Len(wire)
        <4>1. i \in 1 .. Len(wire) - 1 /\ i + 1 \in 1 .. Len(wire)
          BY <1>0, <3>1, <3>2
        <4>2. wire'[i + 1].pkt = wire[i + 1].pkt
          BY <2>1, <4>1
        <4> QED
          BY <1>b, <3>1, <4>1, <4>2 DEF Framed
      <3>3. CASE i = Len(wire)
        <4>1. m_send_offset = 0 /\ Len(wire') = i + 1 /\ wire # <<>> /\ Last(wire) = wire[i]
          BY <1>0, <2>1, <3>1, <3>3, EmptySeq DEF InFlight, Last
        <4>2. wire'[i + 1].pkt = Head(m_send_queue)
          BY <2>1, <4>1 DEF Last
        <4>3. ~Whole(wire[i]) => Torn
          BY <2>1, <4>1 DEF Torn
        <4> QED
          BY <1>b, <2>1, <3>1, <4>2, <4>3
      <3> QED
        BY <1>0, <3>1, <3>2, <3>3
    <2> QED
      BY <1>0, <2>2, <2>3 DEF Framed, Whole
  <1>7. CASE CloseSocket
    <2>1. m_sockfd' = "closed" /\ wire' = wire
      BY <1>7 DEF CloseSocket
    <2> QED
      BY <1>0, <1>b, <2>1 DEF Framed, Torn
  <1> QED
    BY <1>1, <1>2, <1>4, <1>5, <1>6, <1>7, QueueMoves

LEMMA InvMeansFraming == QueueInv /\ FramingInv /\ FlvStartedOnce => WireFraming
  BY DEF QueueInv, FramingInv, WireFraming, Framed, Whole

\* A packet is sent in full before the next one begins, whatever short writes
\* and drops do (write_stream(), enqueue_packet()); only the reset of an FLV
\* client tears one, and the next is then one a decoder can start at.  An FLV
\* stream that is started again puts a response header there.
THEOREM PacketsAreFramed == Spec => [](FlvStartedOnce => WireFraming)
  <1> DEFINE I == BaseInv /\ QueueInv /\ FramingInv
  <1>1. Init => I
    BY BaseInvInit, QueueInvInit, FramingInvInit
  <1>2. I /\ [Next]_vars => I'
    BY BaseInvStep, QueueInvStep, FramingInvStep
  <1>3. I => (FlvStartedOnce => WireFraming)
    BY InvMeansFraming
  <1> HIDE DEF I
  <1> QED
    BY <1>1, <1>2, <1>3, PTL DEF Spec

-----------------------------------------------------------------------------
(* What is on the wire or waits for it, as one sequence.                   *)

Stream(w, q, off) == [i \in DOMAIN w |-> w[i].pkt] \o (IF off > 0 THEN Tail(q) ELSE q)

\* (As a definition of its own, for the provers find it easier to cite.)
Joins(s, w, q, off) ==
    /\ Len(w) \in Nat /\ Len(q) \in Nat
    /\ Len(s) = Len(w) + Len(q) - InFlight(off)
    /\ \A i \in 1 .. Len(w) + Len(q) - InFlight(off) :
           s[i] = IF i <= Len(w) THEN w[i].pkt ELSE q[i - Len(w) + InFlight(off)]

LEMMA StreamIs ==
    ASSUME NEW T, NEW G, \A x \in G : x.pkt \in T,
           NEW w \in Seq(G), NEW q \in Seq(T), NEW off \in Nat, off > 0 => q # <<>>
    PROVE  Stream(w, q, off) \in Seq(T) /\ Joins(Stream(w, q, off), w, q, off)
  <1> DEFINE a == [i \in DOMAIN w |-> w[i].pkt]
             b == IF off > 0 THEN Tail(q) ELSE q
  <1>1. /\ Len(w) \in Nat /\ DOMAIN w = 1 .. Len(w) /\ Len(q) \in Nat
        /\ \A i \in 1 .. Len(w) : w[i] \in G
    BY LenProperties, ElementOfSeq
  <1>2. a \in Seq(T) /\ Len(a) = Len(w) /\ \A i \in 1 .. Len(w) : a[i] = w[i].pkt
    <2>1. a \in [1 .. Len(w) -> T]
      BY <1>1
    <2> QED
      BY <1>1, <2>1, SeqDef, LenProperties
  <1>3. /\ b \in Seq(T) /\ Len(b) = Len(q) - InFlight(off)
        /\ \A i \in 1 .. Len(b) : b[i] = q[i + InFlight(off)]
    <2>1. CASE off > 0
      BY <2>1, <1>1, HeadTailProperties DEF InFlight
    <2>2. CASE ~(off > 0)
      BY <2>2, <1>1 DEF InFlight
    <2> QED
      BY <2>1, <2>2
  <1>4. Stream(w, q, off) = a \o b
    BY DEF Stream
  <1> HIDE DEF a, b
  <1>5. /\ a \o b \in Seq(T) /\ Len(a \o b) = Len(a) + Len(b)
        /\ \A i \in 1 .. Len(a) + Len(b) :
              (a \o b)[i] = IF i <= Len(a) THEN a[i] ELSE b[i - Len(a)]
    <2>1. a \in Seq(T) /\ b \in Seq(T)
      BY <1>2, <1>3
    <2> QED
      BY <2>1, ConcatProperties, Zenon
  <1>6. InFlight(off) \in {0, 1}
    BY DEF InFlight
  <1>7. Len(a) + Len(b) = Len(w) + Len(q) - InFlight(off) /\ Len(b) \in Nat
    BY <1>1, <1>2, <1>3, <1>6, LenProperties
  <1>8. ASSUME NEW i \in 1 .. Len(w) + Len(q) - InFlight(off)
        PROVE  (a \o b)[i] = IF i <= Len(w) THEN w[i].pkt ELSE q[i - Len(w) + InFlight(off)]
    <2>1. i \in 1 .. Len(a) + Len(b) /\ i \in Nat
      BY <1>1, <1>6, <1>7
    <2>2. (a \o b)[i] = IF i <= Len(w) THEN a[i] ELSE b[i - Len(w)]
      BY <1>2, <1>5, <2>1
    <2>3. CASE i <= Len(w)
      BY <1>1, <1>2, <2>1, <2>2, <2>3
    <2>4. CASE ~(i <= Len(w))
      <3>1. i - Len(w) \in 1 .. Len(b)
        BY <1>1, <1>2, <1>7, <2>1, <2>4
      <3> QED
        BY <1>3, <2>2, <2>4, <3>1
    <2> QED
      BY <2>3, <2>4
  <1> QED
    BY <1>1, <1>4, <1>5, <1>7, <1>8 DEF Joins

LEMMA OnWireIs ==
    ASSUME QueueInv
    PROVE  /\ OnWireOrQueued \in Seq(Sendable)
           /\ wire \in Seq(Segment) /\ m_send_queue \in Seq(Sendable) /\ m_send_offset \in Nat
           /\ Joins(OnWireOrQueued, wire, m_send_queue, m_send_offset)
           /\ InFlight(m_send_offset) \in {0, 1} /\ InFlight(m_send_offset) <= Len(m_send_queue)
           /\ OnWireOrQueued = Stream(wire, m_send_queue, m_send_offset)
  <1>1. /\ wire \in Seq(Segment)
        /\ m_send_queue \in Seq(Sendable) /\ m_send_offset \in Nat
        /\ m_send_offset > 0 => m_send_queue # <<>>
    BY StreamAssumption DEF QueueInv
  <1>4. \A x \in Segment : x.pkt \in Sendable
    BY DEF Segment
  <1>2. OnWireOrQueued = Stream(wire, m_send_queue, m_send_offset)
    BY DEF OnWireOrQueued, Stream
  <1>3. InFlight(m_send_offset) \in {0, 1} /\ InFlight(m_send_offset) <= Len(m_send_queue)
    BY <1>1, EmptySeq, LenProperties DEF InFlight
  <1> QED
    BY <1>1, <1>2, <1>3, <1>4, StreamIs

\* t is s cut short, or s with packets left out; only Droppable ones are left
\* out of a Thinned one.
Begins(t, s) == Len(t) <= Len(s) /\ \A i \in 1 .. Len(t) : t[i] = s[i]
Thinned(t, s) ==
    \E f \in [1 .. Len(t) -> 1 .. Len(s)] :
        /\ \A n \in 1 .. Len(t) : t[n] = s[f[n]]
        /\ \A n, m \in 1 .. Len(t) : n < m => f[n] < f[m]
        /\ \A i \in 1 .. Len(s) : ~Droppable(s[i]) => \E n \in 1 .. Len(t) : f[n] = i

LEMMA KeptStream ==
    ASSUME NEW T, NEW G, \A x \in G : x.pkt \in T,
           NEW w \in Seq(G), NEW q \in Seq(T), NEW off \in Nat, off > 0 => q # <<>>,
           NEW r \in Seq(T), Kept(r, q, off)
    PROVE  Thinned(Stream(w, r, off), Stream(w, q, off))
  <1> DEFINE L == Len(w)
             F == InFlight(off)
             s == Stream(w, q, off)
             t == Stream(w, r, off)

  <1>1. /\ L \in Nat /\ Len(q) \in Nat /\ Len(s) = L + Len(q) - F
        /\ \A i \in 1 .. L + Len(q) - F : s[i] = IF i <= L THEN w[i].pkt ELSE q[i - L + F]
    <2>1. Joins(s, w, q, off)
      BY StreamIs, Zenon
    <2> QED
      BY <2>1 DEF Joins
  <1>2. /\ Len(r) \in Nat /\ Len(t) = L + Len(r) - F
        /\ \A i \in 1 .. L + Len(r) - F : t[i] = IF i <= L THEN w[i].pkt ELSE r[i - L + F]
    <2>1. off > 0 => r # <<>>
      BY KeptHead
    <2>2. Joins(t, w, r, off)
      BY <2>1, StreamIs, Zenon
    <2> QED
      BY <2>2 DEF Joins
  <1>a. F <= Len(r) /\ F <= Len(q)
    <2>1. off > 0 => r # <<>>
      BY KeptHead
    <2> QED
      BY <1>1, <1>2, <2>1, EmptySeq DEF InFlight
  <1>b. F \in {0, 1} /\ L \in Nat
    BY <1>1 DEF InFlight
  <1>3. PICK e \in [1 .. Len(r) -> 1 .. Len(q)] :
          /\ \A n \in 1 .. Len(r) : r[n] = q[e[n]]
          /\ \A n, m \in 1 .. Len(r) : n < m => e[n] < e[m]
          /\ \A i \in 1 .. Len(q) : i \notin Stale(q, off) => \E n \in 1 .. Len(r) : e[n] = i
    BY DEF Kept
  <1>4. Len(r) <= Len(q)
    BY DEF Kept
  <1> DEFINE f == [n \in 1 .. Len(t) |-> IF n <= L THEN n ELSE e[n - L + F] + L - F]
  <1>c. \A i \in Stale(q, off) : i > F /\ i \in 1 .. Len(q) /\ Droppable(q[i])
    BY <1>1, <1>b DEF Stale
  <1> HIDE DEF L, F, s, t
  \* Behind the wire: the place in r, and what it is in q.
  <1>5. ASSUME NEW n \in 1 .. Len(t), n > L
        PROVE  /\ n - L + F \in 1 .. Len(r) /\ n - L + F > F
               /\ e[n - L + F] \in 1 .. Len(q) /\ e[n - L + F] > F
               /\ f[n] = e[n - L + F] + L - F
    <2>1. n - L + F \in 1 .. Len(r) /\ n - L + F > F
      BY <1>1, <1>2, <1>b, <1>5
    <2>2. e[n - L + F] \in 1 .. Len(q)
      BY <1>3, <2>1
    <2>3. F = 1 => e[1] \in 1 .. Len(q) /\ e[1] < e[n - L + F]
      <3>1. F = 1 => 1 \in 1 .. Len(r) /\ 1 < n - L + F
        BY <1>2, <1>a, <1>b, <2>1
      <3> QED
        BY <1>3, <2>1, <3>1
    <2>4. e[n - L + F] > F
      BY <1>1, <1>b, <2>2, <2>3
    <2> QED
      BY <1>b, <1>5, <2>1, <2>2, <2>4
  <1>6. f \in [1 .. Len(t) -> 1 .. Len(s)]
    <2> SUFFICES ASSUME NEW n \in 1 .. Len(t) PROVE f[n] \in 1 .. Len(s)
      OBVIOUS
    <2>1. CASE n <= L
      BY <1>1, <1>2, <1>a, <1>b, <1>4, <2>1
    <2>2. CASE n > L
      <3>1. /\ e[n - L + F] \in 1 .. Len(q) /\ e[n - L + F] > F
            /\ f[n] = e[n - L + F] + L - F
        BY <1>5, <2>2
      <3> HIDE DEF f
      <3> QED
        BY <1>1, <1>b, <3>1
    <2> QED
      BY <1>1, <1>2, <1>b, <2>1, <2>2
  <1>7. ASSUME NEW n \in 1 .. Len(t) PROVE t[n] = s[f[n]]
    <2>1. CASE n <= L
      <3>1. n \in 1 .. L + Len(r) - F /\ n \in 1 .. L + Len(q) - F /\ f[n] = n
        BY <1>1, <1>2, <1>4, <1>b, <1>a, <2>1
      <3> QED
        BY <1>1, <1>2, <2>1, <3>1
    <2>2. CASE n > L
      <3>1. /\ n - L + F \in 1 .. Len(r)
            /\ e[n - L + F] \in 1 .. Len(q) /\ e[n - L + F] > F
            /\ f[n] = e[n - L + F] + L - F
        BY <1>5, <2>2
      <3> HIDE DEF f
      <3>2. t[n] = r[n - L + F]
        BY <1>2, <1>b, <2>2
      <3> DEFINE x == e[n - L + F]
      <3>a. x \in 1 .. Len(q) /\ x > F /\ f[n] = x + L - F
        BY <3>1
      <3> HIDE DEF x
      <3>b. f[n] \in 1 .. L + Len(q) - F /\ ~(f[n] <= L) /\ f[n] - L + F = x
        BY <1>1, <1>b, <3>a
      <3>3. f[n] \in 1 .. L + Len(q) - F /\ ~(f[n] <= L) /\ f[n] - L + F = e[n - L + F]
        BY <3>b DEF x
      <3>4. s[f[n]] = q[f[n] - L + F]
        BY <1>1, <3>3
      <3> QED
        BY <1>3, <3>1, <3>2, <3>3, <3>4
    <2> QED
      BY <1>1, <1>2, <1>b, <2>1, <2>2
  <1>8. ASSUME NEW n \in 1 .. Len(t), NEW m \in 1 .. Len(t), n < m PROVE f[n] < f[m]
    <2>1. CASE m <= L
      BY <1>1, <1>2, <1>8, <1>b, <2>1
    <2>2. CASE m > L
      <3>1. /\ m - L + F \in 1 .. Len(r)
            /\ e[m - L + F] \in 1 .. Len(q) /\ e[m - L + F] > F
            /\ f[m] = e[m - L + F] + L - F
        BY <1>5, <2>2
      <3>2. CASE n <= L
        <4>1. f[n] = n
          BY <3>2
        <4> HIDE DEF f
        <4> QED
          BY <1>1, <1>2, <1>b, <3>1, <3>2, <4>1
      <3>3. CASE n > L
        <4>1. /\ n - L + F \in 1 .. Len(r)
              /\ e[n - L + F] \in 1 .. Len(q)
              /\ f[n] = e[n - L + F] + L - F
          BY <1>5, <3>3
        <4>2. n - L + F < m - L + F
          BY <1>1, <1>2, <1>8, <1>b
        <4>3. e[n - L + F] < e[m - L + F]
          BY <1>3, <3>1, <4>1, <4>2
        <4> HIDE DEF f
        <4> QED
          BY <1>1, <1>b, <3>1, <4>1, <4>3
      <3> QED
        BY <1>1, <1>2, <1>b, <3>2, <3>3
    <2> QED
      BY <1>1, <1>2, <1>b, <2>1, <2>2
  <1>9. ASSUME NEW i \in 1 .. Len(s), ~Droppable(s[i]) PROVE \E n \in 1 .. Len(t) : f[n] = i
    <2>1. CASE i <= L
      <3>1. i \in 1 .. Len(t) /\ f[i] = i
        BY <1>1, <1>2, <1>a, <1>b, <2>1
      <3> QED
        BY <3>1
    <2>2. CASE i > L
      <3>1. i - L + F \in 1 .. Len(q) /\ i - L + F > F
        BY <1>1, <1>b, <2>2
      <3>2. s[i] = q[i - L + F]
        BY <1>1, <1>b, <2>2
      <3>3. i - L + F \notin Stale(q, off)
        BY <1>9, <1>c, <3>2
      <3>4. PICK n \in 1 .. Len(r) : e[n] = i - L + F
        BY <1>3, <3>1, <3>3
      <3>5. n > F
        <4>1. F = 1 => ~(n = 1)
          <5>1. ASSUME F = 1, n = 1 PROVE FALSE
            <6>1. 1 \notin Stale(q, off) /\ 1 \in 1 .. Len(q)
              BY <1>1, <1>a, <1>b, <1>c, <5>1
            <6>2. PICK m \in 1 .. Len(r) : e[m] = 1
              BY <1>3, <6>1
            <6>3. 1 < m => e[1] < e[m]
              BY <1>3, <3>4, <5>1
            <6> QED
              BY <1>1, <1>2, <1>b, <3>1, <3>4, <5>1, <6>2, <6>3
          <5> QED
            BY <5>1
        <4>2. n \in Nat /\ n >= 1
          BY <1>2
        <4> QED
          BY <1>b, <4>1, <4>2
      <3> DEFINE m == n + L - F
      <3>6. m \in 1 .. Len(t) /\ m > L /\ m - L + F = n
        BY <1>1, <1>2, <1>b, <3>4, <3>5
      <3>7. f[m] = e[m - L + F] + L - F
        BY <1>5, <3>6
      <3> HIDE DEF m, f
      <3>8. f[m] = i
        BY <1>1, <1>b, <3>1, <3>4, <3>6, <3>7
      <3> QED
        BY <3>6, <3>8
    <2>3. i <= L \/ i > L
      BY <1>1, <1>b
    <2> HIDE DEF f
    <2> QED
      BY <2>1, <2>2, <2>3
  <1> HIDE DEF f
  <1>10. Thinned(t, s)
    BY <1>6, <1>7, <1>8, <1>9 DEF Thinned
  <1> QED
    BY <1>10 DEF t, s

\* A send() moves the boundary between the two, not what they are together.
LEMMA WriteKeepsStream ==
    ASSUME BaseInv, QueueInv, NEW k \in 1 .. PacketSize, WriteSome(k)
    PROVE  OnWireOrQueued' = OnWireOrQueued
  <1>1. /\ m_send_queue # <<>>
        /\ wire' \in Seq(Segment) /\ wire' # <<>>
        /\ Len(wire') = Len(wire) + 1 - InFlight(m_send_offset)
        /\ \A i \in 1 .. Len(wire) : wire'[i].pkt = wire[i].pkt
        /\ Last(wire') = [pkt |-> Head(m_send_queue), sent |-> m_send_offset + k]
        /\ m_send_offset + k > 0
        /\ \/ m_send_queue' = Tail(m_send_queue) /\ m_send_offset' = 0
           \/ m_send_queue' = m_send_queue /\ m_send_offset' = m_send_offset + k
    <2>1. m_send_offset + k > 0
      BY StreamAssumption DEF QueueInv
    <2> QED
      BY <2>1, WriteMoves
  <1>2. /\ OnWireOrQueued \in Seq(Sendable) /\ wire \in Seq(Segment)
        /\ m_send_queue \in Seq(Sendable) /\ m_send_offset \in Nat
        /\ InFlight(m_send_offset) \in {0, 1} /\ InFlight(m_send_offset) <= Len(m_send_queue)
        /\ Joins(OnWireOrQueued, wire, m_send_queue, m_send_offset)
    BY OnWireIs
  <1>3. QueueInv' /\ Sendable' = Sendable
    <2>1. [Next]_vars
      BY DEF Next, MainNext
    <2> QED
      BY <2>1, QueueInvStep, KindStays, ConstantsStay
  <1>4. /\ OnWireOrQueued' \in Seq(Sendable) /\ m_send_queue' \in Seq(Sendable)
        /\ Joins(OnWireOrQueued', wire', m_send_queue', m_send_offset')
    <2>1. OnWireOrQueued' = Stream(wire', m_send_queue', m_send_offset')
      BY DEF OnWireOrQueued, Stream
    <2>2. /\ wire' \in Seq(Segment) /\ m_send_queue' \in Seq(Sendable) /\ m_send_offset' \in Nat
          /\ m_send_offset' > 0 => m_send_queue' # <<>>
      BY <1>1, <1>3, StreamAssumption DEF QueueInv
    <2>3. \A x \in Segment : x.pkt \in Sendable
      BY DEF Segment
    <2>4. Stream(wire', m_send_queue', m_send_offset') \in Seq(Sendable)
      BY <2>2, <2>3, StreamIs, Zenon
    <2>5. Joins(Stream(wire', m_send_queue', m_send_offset'), wire', m_send_queue', m_send_offset')
      BY <2>2, <2>3, StreamIs, Zenon
    <2> QED
      BY <2>1, <2>2, <2>4, <2>5
  <1> DEFINE L == Len(wire)
             F == InFlight(m_send_offset)
             Q == Len(m_send_queue)
             s == OnWireOrQueued
  <1>5. /\ L \in Nat /\ Q \in Nat /\ Q > 0 /\ F \in {0, 1} /\ Len(s) = L + Q - F
        /\ \A i \in 1 .. L + Q - F :
              s[i] = IF i <= L THEN wire[i].pkt ELSE m_send_queue[i - L + F]
    BY <1>1, <1>2, EmptySeq, LenProperties DEF Joins
  <1>6. wire'[L + 1 - F].pkt = m_send_queue[1]
    BY <1>1, <1>2, HeadTailProperties DEF Last
  <1>7. /\ Len(s') = Len(s)
        /\ \A i \in 1 .. L + Q - F :
              s'[i] = IF i <= L + 1 - F THEN wire'[i].pkt ELSE m_send_queue[i - L + F]
    <2>1. CASE m_send_queue' = Tail(m_send_queue) /\ m_send_offset' = 0
      <3>1. /\ Len(m_send_queue') = Q - 1 /\ \A i \in 1 .. Q - 1 : m_send_queue'[i] = m_send_queue[i + 1]
        BY <1>1, <1>2, <2>1, HeadTailProperties
      <3>2. InFlight(m_send_offset') = 0
        BY <2>1 DEF InFlight
      <3>3. /\ Len(s') = L + 1 - F + (Q - 1)
            /\ \A i \in 1 .. L + 1 - F + (Q - 1) :
                  s'[i] = IF i <= L + 1 - F THEN wire'[i].pkt ELSE m_send_queue'[i - (L + 1 - F) + 0]
        <4> HIDE DEF F
        <4> QED
          BY <1>1, <1>4, <1>5, <3>1, <3>2 DEF Joins, F
      <3> HIDE DEF L, F, Q, s
      <3>4. ASSUME NEW i \in 1 .. L + Q - F, ~(i <= L + 1 - F)
            PROVE  m_send_queue'[i - (L + 1 - F) + 0] = m_send_queue[i - L + F]
        <4>1. i - (L + 1 - F) \in 1 .. Q - 1 /\ i - (L + 1 - F) + 1 = i - L + F
              /\ i - (L + 1 - F) + 0 = i - (L + 1 - F)
          BY <1>5, <3>4
        <4> QED
          BY <3>1, <4>1
      <3>5. L + 1 - F + (Q - 1) = L + Q - F
        BY <1>5
      <3> QED
        BY <1>5, <3>3, <3>4, <3>5
    <2>2. CASE m_send_queue' = m_send_queue /\ m_send_offset' = m_send_offset + k
      <3>1. InFlight(m_send_offset') = 1
        BY <1>1, <2>2 DEF InFlight
      <3>2. /\ Len(s') = L + 1 - F + Q - 1
            /\ \A i \in 1 .. L + 1 - F + Q - 1 :
                  s'[i] = IF i <= L + 1 - F THEN wire'[i].pkt ELSE m_send_queue[i - (L + 1 - F) + 1]
        BY <1>1, <1>4, <2>2, <3>1 DEF Joins
      <3> HIDE DEF L, F, Q, s
      <3>3. /\ L + 1 - F + Q - 1 = L + Q - F
            /\ \A i \in 1 .. L + Q - F : i - (L + 1 - F) + 1 = i - L + F
        BY <1>5
      <3> QED
        BY <1>5, <3>2, <3>3
    <2> QED
      BY <1>1, <2>1, <2>2
  <1>8. ASSUME NEW i \in 1 .. L + Q - F PROVE s'[i] = s[i]
    <2> HIDE DEF L, F, Q, s
    <2>1. CASE i <= L
      <3>1. i \in 1 .. L
        BY <1>5, <2>1
      <3>2. s[i] = wire[i].pkt /\ wire'[i].pkt = wire[i].pkt
        BY <1>1, <1>5, <2>1, <3>1 DEF L
      <3>3. CASE i <= L + 1 - F
        BY <1>7, <3>2, <3>3
      <3>4. CASE ~(i <= L + 1 - F)
        BY <1>5, <2>1, <3>4
      <3> QED
        BY <3>3, <3>4
    <2>2. CASE ~(i <= L)
      <3>1. s[i] = m_send_queue[i - L + F]
        BY <1>5, <2>2
      <3>2. CASE i <= L + 1 - F
        <4>1. i = L + 1 - F /\ i - L + F = 1
          BY <1>5, <2>2, <3>2
        <4>2. s'[i] = wire'[L + 1 - F].pkt
          BY <1>7, <4>1
        <4> QED
          BY <1>6, <3>1, <4>1, <4>2 DEF L, F
      <3>3. CASE ~(i <= L + 1 - F)
        BY <1>7, <3>1, <3>3
      <3> QED
        BY <3>2, <3>3
    <2> QED
      BY <2>1, <2>2
  <1> QED
    BY <1>2, <1>4, <1>5, <1>7, <1>8, SeqEqual

LEMMA AppendStream ==
    ASSUME NEW w \in Seq(Segment), NEW q \in Seq(Sendable),
           NEW off \in Nat, off > 0 => q # <<>>, NEW p \in Sendable
    PROVE  Stream(w, Append(q, p), off) = Append(Stream(w, q, off), p)
  <1> DEFINE L == Len(w)
             F == InFlight(off)
             s == Stream(w, q, off)
             t == Stream(w, Append(q, p), off)
             T == Sendable
  <1>0. \A x \in Segment : x.pkt \in Sendable
    BY DEF Segment
  <1>1. s \in Seq(T) /\ Joins(s, w, q, off)
    <2>1. s \in Seq(T)
      BY <1>0, StreamIs, Zenon
    <2>2. Joins(s, w, q, off)
      BY <1>0, StreamIs, Zenon
    <2> QED
      BY <2>1, <2>2
  <1>2. /\ Append(q, p) \in Seq(T) /\ Append(q, p) # <<>> /\ Len(Append(q, p)) = Len(q) + 1
        /\ \A i \in 1 .. Len(q) : Append(q, p)[i] = q[i]
        /\ Append(q, p)[Len(q) + 1] = p
    BY AppendProperties
  <1>3. t \in Seq(T) /\ Joins(t, w, Append(q, p), off)
    <2>1. t \in Seq(T)
      BY <1>0, <1>2, StreamIs, Zenon
    <2>2. Joins(t, w, Append(q, p), off)
      BY <1>0, <1>2, StreamIs, Zenon
    <2> QED
      BY <2>1, <2>2
  <1>4. F \in {0, 1} /\ F <= Len(q)
    BY EmptySeq, LenProperties DEF InFlight
  <1>5. /\ L \in Nat /\ Len(q) \in Nat /\ Len(s) = L + Len(q) - F
        /\ \A i \in 1 .. L + Len(q) - F : s[i] = IF i <= L THEN w[i].pkt ELSE q[i - L + F]
    BY <1>1 DEF Joins
  <1>6. /\ Len(t) = L + (Len(q) + 1) - F
        /\ \A i \in 1 .. L + (Len(q) + 1) - F :
              t[i] = IF i <= L THEN w[i].pkt ELSE Append(q, p)[i - L + F]
    BY <1>2, <1>3 DEF Joins
  <1> DEFINE u == Append(s, p)
  <1>7. /\ u \in Seq(T) /\ Len(u) = Len(s) + 1
        /\ \A i \in 1 .. Len(s) : u[i] = s[i]
        /\ u[Len(s) + 1] = p
    BY <1>1, AppendProperties
  <1> HIDE DEF L, F, s, t, u
  <1>8. Len(t) = Len(u) /\ Len(u) = Len(s) + 1 /\ Len(s) \in Nat
    BY <1>4, <1>5, <1>6, <1>7
  <1>9. ASSUME NEW i \in 1 .. Len(t) PROVE t[i] = u[i]
    <2>1. CASE i <= L
      <3>1. i \in 1 .. L + Len(q) - F /\ i \in 1 .. L + (Len(q) + 1) - F /\ i \in 1 .. Len(s)
        BY <1>4, <1>5, <1>6, <2>1
      <3> QED
        BY <1>5, <1>6, <1>7, <2>1, <3>1
    <2>2. CASE ~(i <= L) /\ i # Len(t)
      <3>1. i \in 1 .. L + Len(q) - F /\ i \in 1 .. L + (Len(q) + 1) - F /\ i \in 1 .. Len(s)
            /\ i - L + F \in 1 .. Len(q)
        BY <1>4, <1>5, <1>6, <2>2
      <3> QED
        BY <1>2, <1>5, <1>6, <1>7, <2>2, <3>1
    <2>3. CASE ~(i <= L) /\ i = Len(t)
      <3>1. i - L + F = Len(q) + 1 /\ i = Len(s) + 1 /\ i \in 1 .. L + (Len(q) + 1) - F
        BY <1>4, <1>5, <1>6, <2>3
      <3> QED
        BY <1>2, <1>6, <1>7, <2>3, <3>1
    <2> QED
      BY <2>1, <2>2, <2>3
  <1>10. t = u
    BY <1>3, <1>7, <1>8, <1>9, SeqEqual
  <1> QED
    BY <1>10 DEF t, u, s

LEMMA WireBegins ==
    ASSUME NEW T, NEW G, \A x \in G : x.pkt \in T,
           NEW w \in Seq(G), NEW q \in Seq(T), NEW off \in Nat, off > 0 => q # <<>>
    PROVE  Stream(w, <<>>, 0) \in Seq(T) /\ Begins(Stream(w, <<>>, 0), Stream(w, q, off))
  <1>1. Joins(Stream(w, q, off), w, q, off)
    BY StreamIs, Zenon
  <1>2. <<>> \in Seq(T) /\ Len(<<>>) = 0 /\ 0 \in Nat /\ ~(0 > 0)
    OBVIOUS
  <1>3. Stream(w, <<>>, 0) \in Seq(T)
    BY <1>2, StreamIs, Zenon
  <1>4. Joins(Stream(w, <<>>, 0), w, <<>>, 0)
    BY <1>2, StreamIs, Zenon
  <1>5. /\ Len(w) \in Nat /\ Len(Stream(w, <<>>, 0)) = Len(w)
        /\ \A i \in 1 .. Len(w) : Stream(w, <<>>, 0)[i] = w[i].pkt
    BY <1>2, <1>4 DEF Joins, InFlight
  <1>6. InFlight(off) \in {0, 1} /\ InFlight(off) <= Len(q)
    BY EmptySeq, LenProperties DEF InFlight
  <1>7. Len(w) <= Len(Stream(w, q, off)) /\ \A i \in 1 .. Len(w) : Stream(w, q, off)[i] = w[i].pkt
    BY <1>1, <1>6 DEF Joins
  <1> QED
    BY <1>3, <1>5, <1>7 DEF Begins

LEMMA CloseKeepsWire ==
    ASSUME QueueInv, CloseSocket
    PROVE  /\ OnWireOrQueued' \in Seq(Sendable) /\ Begins(OnWireOrQueued', OnWireOrQueued)
           /\ m_sockfd' = "closed"
  <1>1. /\ m_sockfd' = "closed" /\ m_send_queue' = <<>> /\ m_send_offset' = 0 /\ wire' = wire
        /\ OnWireOrQueued' = Stream(wire', m_send_queue', m_send_offset')
    BY DEF CloseSocket, OnWireOrQueued, Stream
  <1>2. /\ wire \in Seq(Segment) /\ m_send_queue \in Seq(Sendable) /\ m_send_offset \in Nat
        /\ m_send_offset > 0 => m_send_queue # <<>>
        /\ \A x \in Segment : x.pkt \in Sendable
        /\ OnWireOrQueued = Stream(wire, m_send_queue, m_send_offset)
    BY OnWireIs DEF QueueInv, Segment
  <1> QED
    BY <1>1, <1>2, WireBegins

\* Nothing that an FLV client is sent may be given up by enqueue_packet().
LEMMA NothingStaleInFlv ==
    ASSUME NEW q \in Seq(Sendable), NEW off, m_conn_type = "flv"
    PROVE  Stale(q, off) = {}
  <1>1. \A i \in 1 .. Len(q) : q[i].class # "frame"
    BY ElementOfSeq DEF Sendable, Classes
  <1>2. Len(q) \in Nat /\ InFlight(off) \in {0, 1}
    BY LenProperties DEF InFlight
  <1> QED
    BY <1>1, <1>2 DEF Stale, Droppable

\* An FLV packet is refused by a client that waits for a key frame or from
\* then on waits for one, takes the place of what has waited, or is put behind
\* what is there.
LEMMA FlvStream ==
    ASSUME BaseInv, QueueInv, m_conn_type = "flv", NEW p \in Sendable, NEW depth,
           DoEnqueue(p, depth), wire' = wire
    PROVE  \/ /\ OnWireOrQueued' \in Seq(Sendable) /\ Begins(OnWireOrQueued', OnWireOrQueued)
              /\ m_wait_flv_key_frame'
           \/ /\ Startable(p) /\ (p.class # "key" => m_wait_flv_key_frame')
              /\ \E s \in Seq(Sendable) : Begins(s, OnWireOrQueued) /\ OnWireOrQueued' = Append(s, p)
           \/ /\ OnWireOrQueued' = Append(OnWireOrQueued, p)
              /\ m_wait_flv_key_frame => p.class # "inter"
              /\ m_wait_flv_key_frame /\ p.class # "key" => m_wait_flv_key_frame'
  <1>0. OnWireOrQueued' = Stream(wire', m_send_queue', m_send_offset')
    BY DEF OnWireOrQueued, Stream
  <1>1. /\ wire \in Seq(Segment) /\ m_send_queue \in Seq(Sendable) /\ m_send_offset \in Nat
        /\ m_send_offset > 0 => m_send_queue # <<>>
        /\ \A x \in Segment : x.pkt \in Sendable
        /\ OnWireOrQueued = Stream(wire, m_send_queue, m_send_offset)
        /\ OnWireOrQueued \in Seq(Sendable)
        /\ m_wait_flv_key_frame \in BOOLEAN
    BY OnWireIs DEF QueueInv, Segment, BaseInv, Scalars
  <1>2. Stream(wire, <<>>, 0) \in Seq(Sendable) /\ Begins(Stream(wire, <<>>, 0), OnWireOrQueued)
    BY <1>1, WireBegins
  <1>3. Stream(wire, Append(m_send_queue, p), m_send_offset) = Append(OnWireOrQueued, p)
    BY <1>1, AppendStream
  <1>4. Stream(wire, <<p>>, 0) = Append(Stream(wire, <<>>, 0), p)
    <2>1. <<>> \in Seq(Sendable) /\ 0 \in Nat /\ ~(0 > 0)
      OBVIOUS
    <2>2. Stream(wire, Append(<<>>, p), 0) = Append(Stream(wire, <<>>, 0), p)
      BY <1>1, <2>1, AppendStream
    <2>3. Append(<<>>, p) = <<p>>
      OBVIOUS
    <2> QED
      BY <2>2, <2>3
  <1>5. Begins(OnWireOrQueued, OnWireOrQueued)
    BY <1>1, LenProperties DEF Begins
  <1>6. CASE p.class = "http"
    <2>1. Stale(m_send_queue, m_send_offset) = {} /\ ~Droppable(p)
      BY <1>1, <1>6, NothingStaleInFlv DEF Droppable
    <2>2. /\ m_send_queue' = Append(m_send_queue, p)
          /\ m_send_offset' = m_send_offset /\ m_wait_flv_key_frame' = m_wait_flv_key_frame
      BY <1>1, <1>6, <2>1, PacketEnqueues
    <2> QED
      BY <1>0, <1>3, <1>6, <2>2
  <1>7. CASE p.class # "http"
    <2>1. CASE m_wait_flv_key_frame /\ UNCHANGED <<m_send_queue, m_send_offset, m_wait_flv_key_frame>>
      BY <1>0, <1>1, <1>5, <2>1
    <2>2. CASE m_send_queue' = <<>> /\ m_send_offset' = 0 /\ m_wait_flv_key_frame' = TRUE
      BY <1>0, <1>2, <2>2
    <2>3. CASE /\ Startable(p) /\ m_send_queue' = <<p>> /\ m_send_offset' = 0
               /\ m_wait_flv_key_frame' = (p.class # "key")
      BY <1>0, <1>2, <1>4, <2>3
    <2>4. CASE /\ m_wait_flv_key_frame => Startable(p)
               /\ m_send_queue' = Append(m_send_queue, p) /\ m_send_offset' = m_send_offset
               /\ m_wait_flv_key_frame' = (m_wait_flv_key_frame /\ p.class # "key")
      BY <1>0, <1>3, <2>4 DEF Startable
    <2> QED
      BY <1>1, <1>7, <2>1, <2>2, <2>3, <2>4, FlvEnqueues
  <1> QED
    BY <1>6, <1>7

\* An MJPEG packet is put behind what is kept, or refused.
LEMMA PacketStream ==
    ASSUME QueueInv, m_conn_type # "flv", NEW p \in Sendable, NEW depth,
           DoEnqueue(p, depth), wire' = wire
    PROVE  \E r \in Seq(Sendable) :
               /\ Thinned(Stream(wire, r, m_send_offset), OnWireOrQueued)
               /\ Stream(wire, r, m_send_offset) \in Seq(Sendable)
               /\ Joins(Stream(wire, r, m_send_offset), wire, r, m_send_offset)
               /\ InFlight(m_send_offset) <= Len(r)
               /\ Droppable(p) => Stale(r, m_send_offset) = {}
               /\ m_send_offset' = m_send_offset
               /\ \/ /\ Droppable(p) /\ Len(r) >= depth
                     /\ OnWireOrQueued' = Stream(wire, r, m_send_offset)
                  \/ /\ m_send_queue' = Append(r, p)
                     /\ OnWireOrQueued' = Append(Stream(wire, r, m_send_offset), p)
  <1>0. OnWireOrQueued' = Stream(wire', m_send_queue', m_send_offset')
    BY DEF OnWireOrQueued, Stream
  <1>1. /\ wire \in Seq(Segment) /\ m_send_queue \in Seq(Sendable) /\ m_send_offset \in Nat
        /\ m_send_offset > 0 => m_send_queue # <<>>
        /\ \A x \in Segment : x.pkt \in Sendable
        /\ OnWireOrQueued = Stream(wire, m_send_queue, m_send_offset)
    BY OnWireIs DEF QueueInv, Segment
  <1>2. PICK r \in Seq(Sendable) :
            /\ Kept(r, m_send_queue, m_send_offset)
            /\ Droppable(p) => Stale(r, m_send_offset) = {}
            /\ \/ Droppable(p) /\ Len(r) >= depth /\ m_send_queue' = r
               \/ ~(Droppable(p) /\ Len(r) >= depth) /\ m_send_queue' = Append(r, p)
            /\ UNCHANGED <<m_send_offset, m_wait_flv_key_frame>>
    BY <1>1, PacketEnqueues
  <1>3. m_send_offset > 0 => r # <<>>
    BY <1>1, <1>2, KeptHead
  <1>4. InFlight(m_send_offset) <= Len(r)
    BY <1>3, EmptySeq, LenProperties DEF InFlight
  <1>5. Thinned(Stream(wire, r, m_send_offset), OnWireOrQueued)
    BY <1>1, <1>2, KeptStream
  <1>6. Stream(wire, r, m_send_offset) \in Seq(Sendable)
    BY <1>1, <1>3, StreamIs, Zenon
  <1>7. Joins(Stream(wire, r, m_send_offset), wire, r, m_send_offset)
    BY <1>1, <1>3, StreamIs, Zenon
  <1>8. Stream(wire, Append(r, p), m_send_offset) = Append(Stream(wire, r, m_send_offset), p)
    BY <1>1, <1>3, AppendStream
  <1> QED
    BY <1>0, <1>2, <1>4, <1>5, <1>6, <1>7, <1>8

-----------------------------------------------------------------------------
(* The order.                                                              *)

LEMMA BeginsOrder ==
    ASSUME NEW s \in Seq(Sendable), NEW t \in Seq(Sendable), Begins(t, s)
    PROVE  /\ \A n : Increasing(s) /\ UpTo(s, n) => Increasing(t) /\ UpTo(t, n)
           /\ HeaderFirst(s) => HeaderFirst(t)
  <1>1. /\ DOMAIN s = 1 .. Len(s) /\ DOMAIN t = 1 .. Len(t) /\ Len(s) \in Nat /\ Len(t) \in Nat
        /\ Len(t) <= Len(s) /\ \A i \in 1 .. Len(t) : t[i] = s[i]
    BY LenProperties DEF Begins
  <1>2. \A i \in DOMAIN t : i \in DOMAIN s /\ t[i] = s[i]
    BY <1>1
  <1> QED
    BY <1>2 DEF Increasing, UpTo, HeaderFirst

\* Leaving frames out keeps the order, and the header.
LEMMA ThinnedOrder ==
    ASSUME NEW s \in Seq(Sendable), NEW t \in Seq(Sendable), Thinned(t, s)
    PROVE  /\ \A n : Increasing(s) /\ UpTo(s, n) => Increasing(t) /\ UpTo(t, n)
           /\ HeaderFirst(s) => HeaderFirst(t) /\ (s # <<>> => t # <<>>)
           /\ s = <<>> => t = <<>>
  <1>1. /\ DOMAIN s = 1 .. Len(s) /\ DOMAIN t = 1 .. Len(t) /\ Len(s) \in Nat /\ Len(t) \in Nat
        /\ (s = <<>> <=> Len(s) = 0) /\ (t = <<>> <=> Len(t) = 0)
    BY LenProperties, EmptySeq
  <1>2. PICK f \in [1 .. Len(t) -> 1 .. Len(s)] :
        /\ \A n \in 1 .. Len(t) : t[n] = s[f[n]]
        /\ \A n, m \in 1 .. Len(t) : n < m => f[n] < f[m]
        /\ \A i \in 1 .. Len(s) : ~Droppable(s[i]) => \E n \in 1 .. Len(t) : f[n] = i
    BY DEF Thinned
  <1>3. \A n \in DOMAIN t : f[n] \in DOMAIN s /\ t[n] = s[f[n]]
    BY <1>1, <1>2
  <1>4. \A n, m \in DOMAIN t : n < m => f[n] < f[m]
    BY <1>1, <1>2
  <1>5. ASSUME NEW n, Increasing(s), UpTo(s, n) PROVE Increasing(t) /\ UpTo(t, n)
    <2>1. \A i, j \in DOMAIN t : i < j => t[i].id < t[j].id
      BY <1>3, <1>4, <1>5 DEF Increasing
    <2>2. \A i \in DOMAIN t : t[i].id <= n
      BY <1>3, <1>5 DEF UpTo
    <2> QED
      BY <2>1, <2>2 DEF Increasing, UpTo
  <1>6. ASSUME HeaderFirst(s) PROVE HeaderFirst(t) /\ (s # <<>> => t # <<>>)
    <2>1. ASSUME s # <<>> PROVE 1 \in DOMAIN t /\ f[1] = 1
      <3>1. 1 \in 1 .. Len(s) /\ ~Droppable(s[1])
        BY <1>1, <1>6, <2>1 DEF HeaderFirst, Droppable
      <3>2. PICK n \in 1 .. Len(t) : f[n] = 1
        BY <1>2, <3>1
      <3>3. 1 \in 1 .. Len(t) /\ f[1] \in 1 .. Len(s) /\ (1 < n => f[1] < f[n])
        BY <1>1, <1>2, <3>2
      <3> QED
        BY <1>1, <3>2, <3>3
    <2>2. ASSUME NEW i \in DOMAIN t PROVE t[i].class = "http" <=> i = 1
      <3>1. f[i] \in DOMAIN s /\ t[i] = s[f[i]] /\ s # <<>>
        BY <1>1, <1>3
      <3>2. f[i] = 1 <=> i = 1
        <4>1. 1 < i => f[1] < f[i]
          BY <1>4, <2>1, <3>1
        <4> QED
          BY <1>1, <2>1, <3>1, <4>1
      <3> QED
        BY <1>6, <3>1, <3>2 DEF HeaderFirst
    <2> QED
      BY <1>1, <2>1, <2>2 DEF HeaderFirst
  <1>7. s = <<>> => t = <<>>
    BY <1>1, <1>2
  <1> QED
    BY <1>5, <1>6, <1>7

LEMMA AppendOrder ==
    ASSUME NEW s \in Seq(Sendable), NEW p \in Sendable, NEW n \in Int, p.id = n + 1
    PROVE  /\ Increasing(s) /\ UpTo(s, n) => Increasing(Append(s, p)) /\ UpTo(Append(s, p), p.id)
           /\ HeaderFirst(s) /\ (p.class = "http" <=> s = <<>>) => HeaderFirst(Append(s, p))
  <1> DEFINE t == Append(s, p)
  <1>1. /\ DOMAIN s = 1 .. Len(s) /\ DOMAIN t = 1 .. Len(s) + 1 /\ Len(s) \in Nat
        /\ (s = <<>> <=> Len(s) = 0)
        /\ \A i \in 1 .. Len(s) : t[i] = s[i]
        /\ t[Len(s) + 1] = p
    BY LenProperties, EmptySeq, AppendProperties
  <1>2. \A i \in DOMAIN s : s[i].id \in Int
    BY ElementOfSeq, LenProperties DEF Sendable, Packets, Ids
  <1> HIDE DEF t
  <1>3. ASSUME NEW i \in DOMAIN t
        PROVE  (i \in DOMAIN s /\ t[i] = s[i]) \/ (i = Len(s) + 1 /\ t[i] = p)
    <2>1. i \in DOMAIN s \/ i = Len(s) + 1
      BY <1>1
    <2>2. i \in DOMAIN s => t[i] = s[i]
      BY <1>1
    <2>3. i = Len(s) + 1 => t[i] = p
      BY <1>1, Zenon
    <2> QED
      BY <2>1, <2>2, <2>3, Zenon
  <1>4. ASSUME Increasing(s), UpTo(s, n) PROVE Increasing(t) /\ UpTo(t, p.id)
    <2>1. \A i \in DOMAIN s : s[i].id < p.id
      BY <1>2, <1>4 DEF UpTo
    <2>2. \A i \in DOMAIN t : t[i].id <= p.id
      <3>1. p.id \in Int
        OBVIOUS
      <3> QED
        BY <1>2, <1>3, <2>1, <3>1
    <2>3. ASSUME NEW i \in DOMAIN t, NEW j \in DOMAIN t, i < j PROVE t[i].id < t[j].id
      <3>1. i \in DOMAIN s /\ t[i] = s[i]
        BY <1>1, <1>3, <2>3
      <3> QED
        BY <1>3, <1>4, <2>1, <2>3, <3>1 DEF Increasing
    <2> QED
      BY <2>2, <2>3 DEF Increasing, UpTo
  <1>5. ASSUME HeaderFirst(s), p.class = "http" <=> s = <<>> PROVE HeaderFirst(t)
    <2>1. Len(s) + 1 = 1 <=> s = <<>>
      BY <1>1
    <2> QED
      BY <1>3, <1>5, <2>1 DEF HeaderFirst
  <1> QED
    BY <1>4, <1>5 DEF t

\* The newest packet that was given to the client never gets older.
LEMMA GivenGrows ==
    ASSUME BaseInv, [Next]_vars, StartedOnce'
    PROVE  Given \in Int /\ Given' \in Int /\ Given <= Given'
  <1> USE DEF connVars, workVars, sendVars, peerVars, Given, Starting
  <1>0. /\ StartedOnce /\ Len(Headers) \in Nat /\ Headers' = Headers
        /\ broadcasts \in Nat /\ header \in 1 .. Len(Headers) + 1 /\ (Starting => header <= Len(Headers))
        /\ sender \in {"idle", "enqueue", "notify", "account"}
        /\ (Starting \/ worker = "add" => sender # "enqueue")
    BY HeadersAre, KindStays, ConstantsStay, StartedEarlier DEF BaseInv, Scalars, ListInv
  <1>a. ~ParseBlank
    BY <1>0, StreamAssumption DEF BaseInv, Counters, StartedOnce, ParseBlank
  <1> HIDE DEF Headers
  <1>1. CASE StartEnqueue
    BY <1>0, <1>1 DEF StartEnqueue
  <1>2. CASE StartNotify
    BY <1>0, <1>2 DEF StartNotify
  <1>3. CASE AddClient \/ TakeTask \/ ParsePartial
    BY <1>0, <1>3 DEF AddClient, TakeTask, ParsePartial
  <1>4. ASSUME UNCHANGED <<workVars, sendVars>> PROVE Given' = Given /\ Given \in Int
    BY <1>0, <1>4
  <1>5. CASE EventHup \/ EventOut \/ WriteEmpty \/ WriteAgain \/ WriteFails \/ CloseSocket \/ RemoveClient
    BY <1>0, <1>5, <1>4 DEF EventHup, EventOut, WriteEmpty, WriteAgain, WriteFails, CloseSocket, RemoveClient
  <1>6. CASE EventIn
    BY <1>0, <1>6 DEF EventIn
  <1>7. ASSUME NEW k \in 1 .. PacketSize, WriteSome(k) PROVE Given' = Given /\ Given \in Int
    BY <1>4, <1>7 DEF WriteSome
  <1>8. CASE PeerNext
    BY <1>0, <1>8, <1>4 DEF PeerNext, PeerReads, PeerSends, PeerLeaves
  <1>9. ASSUME NEW c \in BroadcastClasses, Broadcast(c)
        PROVE  Given \in Int /\ Given' \in Int /\ Given <= Given'
    BY <1>0, <1>9 DEF Broadcast
  <1>10. CASE SenderStep
    BY <1>0, <1>10 DEF SenderStep, EnqueueToClient, NotifyClient, Account
  <1>11. CASE UNCHANGED vars
    BY <1>0, <1>4, <1>11 DEF vars
  <1> QED
    BY <1>a, <1>1, <1>2, <1>3, <1>5, <1>6, <1>7, <1>8, <1>9, <1>10, <1>11
       DEF Next, WorkerNext, MainNext

LEMMA OrderInvInit == Init => OrderInv
  <1> SUFFICES ASSUME Init PROVE OrderInv
    OBVIOUS
  <1>1. wire = <<>> /\ m_send_queue = <<>> /\ m_send_offset = 0 /\ worker = "enqueue"
    BY DEF Init
  <1>2. Len(OnWireOrQueued) = 0 /\ DOMAIN OnWireOrQueued = {}
    <2>1. QueueInv /\ Len(wire) = 0 /\ Len(m_send_queue) = 0
      BY <1>1, QueueInvInit
    <2>2. OnWireOrQueued \in Seq(Sendable) /\ Joins(OnWireOrQueued, wire, m_send_queue, m_send_offset)
      BY <2>1, OnWireIs
    <2>3. Len(OnWireOrQueued) = 0
      BY <1>1, <2>1, <2>2 DEF Joins, InFlight
    <2> QED
      BY <2>2, <2>3, LenProperties
  <1> QED
    BY <1>1, <1>2 DEF OrderInv, Increasing, UpTo, HeaderFirst

\* A worker that is to enqueue a header does nothing else.
LEMMA WorkerWaits ==
    ASSUME [Next]_vars, ~StartEnqueue, worker = "enqueue"
    PROVE  worker' = "enqueue"
  <1> USE DEF connVars, workVars, sendVars, peerVars
  <1>1. CASE WorkerNext
    BY <1>1 DEF WorkerNext, StartNotify, AddClient, TakeTask, ParsePartial, ParseBlank
  <1>2. CASE MainNext
    BY <1>2 DEF MainNext, EventHup, EventIn, EventOut, WriteEmpty, WriteAgain, WriteFails,
                      WriteSome, CloseSocket, RemoveClient
  <1>3. CASE PeerNext
    BY <1>3 DEF PeerNext, PeerReads, PeerSends, PeerLeaves
  <1>4. ASSUME NEW c \in BroadcastClasses, Broadcast(c) PROVE worker' = worker
    BY <1>4 DEF Broadcast
  <1>5. CASE SenderStep
    BY <1>5 DEF SenderStep, EnqueueToClient, NotifyClient, Account
  <1>6. CASE UNCHANGED vars
    BY <1>6 DEF vars
  <1> QED
    BY <1>1, <1>2, <1>3, <1>4, <1>5, <1>6 DEF Next

LEMMA OrderInvStep ==
    ASSUME BaseInv, QueueInv, OrderInv, [Next]_vars
    PROVE  OrderInv'
  <1> DEFINE s == OnWireOrQueued
  <1> SUFFICES ASSUME StartedOnce'
               PROVE  /\ Increasing(s') /\ UpTo(s', Given')
                      /\ m_conn_type = "mjpeg" =>
                             /\ HeaderFirst(s')
                             /\ m_sockfd' = "open" /\ s' = <<>> => worker' = "enqueue"
    BY KindStays DEF OrderInv, Increasing, UpTo, HeaderFirst
  <1>0. /\ StartedOnce /\ m_conn_type \in {"mjpeg", "flv"}
        /\ Given \in Int /\ Given' \in Int /\ Given <= Given'
        /\ s \in Seq(Sendable) /\ DOMAIN s = 1 .. Len(s)
        /\ Increasing(s) /\ UpTo(s, Given)
        /\ m_conn_type = "mjpeg" =>
               /\ HeaderFirst(s)
               /\ m_sockfd = "open" /\ s = <<>> => worker = "enqueue"
    BY StartedEarlier, GivenGrows, OnWireIs, StreamAssumption, LenProperties
       DEF BaseInv, Scalars, OrderInv
  <1>a. ASSUME NEW t \in Seq(Sendable), NEW n \in Int, UpTo(t, n), n <= Given' PROVE UpTo(t, Given')
    <2>1. \A i \in DOMAIN t : t[i].id \in Int
      BY ElementOfSeq, LenProperties DEF Sendable, Packets, Ids
    <2> QED
      BY <1>0, <1>a, <2>1 DEF UpTo
  \* A step that gives the client nothing new.
  <1>b. ASSUME s' = s, m_sockfd' = m_sockfd,
               m_sockfd = "open" /\ worker = "enqueue" => worker' = "enqueue"
        PROVE  /\ Increasing(s') /\ UpTo(s', Given')
               /\ m_conn_type = "mjpeg" =>
                      /\ HeaderFirst(s')
                      /\ m_sockfd' = "open" /\ s' = <<>> => worker' = "enqueue"
    BY <1>0, <1>a, <1>b
  \* A packet that follows the ones before it.
  <1>c. ASSUME NEW p \in Sendable, NEW depth, DoEnqueue(p, depth), wire' = wire,
               p.id = Given + 1, Given' = Given + 1,
               m_conn_type = "mjpeg" => (p.class = "http" <=> s = <<>>)
        PROVE  /\ Increasing(s') /\ UpTo(s', Given')
               /\ m_conn_type = "mjpeg" => HeaderFirst(s') /\ s' # <<>>
    <2>1. ASSUME NEW t \in Seq(Sendable), Increasing(t), UpTo(t, Given)
          PROVE  /\ Increasing(t) /\ UpTo(t, Given')
                 /\ Increasing(Append(t, p)) /\ UpTo(Append(t, p), Given')
      BY <1>0, <1>a, <1>c, <2>1, AppendOrder
    <2>2. CASE m_conn_type = "flv"
      <3>1. PICK t \in Seq(Sendable) : Begins(t, s) /\ s' \in {t, Append(t, p)}
        <4>1. Begins(s, s)
          BY <1>0, LenProperties DEF Begins
        <4> HIDE DEF s
        <4>2. \/ s' \in Seq(Sendable) /\ Begins(s', s)
              \/ \E t \in Seq(Sendable) : Begins(t, s) /\ s' = Append(t, p)
              \/ s' = Append(s, p)
          BY <1>c, <2>2, FlvStream DEF s
        <4> QED
          BY <1>0, <4>1, <4>2
      <3>2. Increasing(t) /\ UpTo(t, Given)
        BY <1>0, <3>1, BeginsOrder
      <3> QED
        BY <2>1, <2>2, <3>1, <3>2
    <2>3. CASE m_conn_type = "mjpeg"
      <3>1. PICK t \in Seq(Sendable) :
                 Thinned(t, s) /\ ((Droppable(p) /\ s' = t) \/ s' = Append(t, p))
        <4>1. PICK r \in Seq(Sendable) :
               /\ Thinned(Stream(wire, r, m_send_offset), s)
               /\ Stream(wire, r, m_send_offset) \in Seq(Sendable)
               /\ \/ Droppable(p) /\ s' = Stream(wire, r, m_send_offset)
                  \/ s' = Append(Stream(wire, r, m_send_offset), p)
          BY <1>c, <2>3, PacketStream
        <4> QED
          BY <4>1
      <3>2. /\ Increasing(t) /\ UpTo(t, Given)
            /\ HeaderFirst(t) /\ (s # <<>> <=> t # <<>>)
        BY <1>0, <2>3, <3>1, ThinnedOrder
      <3>3. Increasing(s') /\ UpTo(s', Given')
        BY <2>1, <3>1, <3>2
      <3>4. CASE Droppable(p) /\ s' = t
        <4>1. p.class # "http"
          BY <3>4 DEF Droppable
        <4> QED
          BY <1>c, <2>3, <3>2, <3>3, <3>4, <4>1
      <3>5. CASE s' = Append(t, p)
        <4>1. HeaderFirst(Append(t, p))
          BY <1>0, <1>c, <2>3, <3>2, AppendOrder
        <4>2. Append(t, p) # <<>>
          BY AppendProperties
        <4> QED
          BY <3>3, <3>5, <4>1, <4>2
      <3> QED
        BY <3>1, <3>4, <3>5
    <2> QED
      BY <1>0, <2>2, <2>3
  <1>d. ~StartEnqueue /\ worker = "enqueue" => worker' = "enqueue"
    BY WorkerWaits
  <1>1. CASE Quiet /\ ~(StartEnqueue /\ m_sockfd = "open")
    <2>1. s' = s /\ m_sockfd' = m_sockfd
      BY <1>1 DEF Quiet, QueueUnchanged, OnWireOrQueued
    <2> QED
      BY <1>b, <1>d, <1>1, <2>1
  <1>2. CASE ParseBlank
    BY <1>0, <1>2, StreamAssumption DEF ParseBlank, BaseInv, Counters, StartedOnce
  <1>3. CASE StartEnqueue /\ m_sockfd = "open"
    <2> DEFINE p == Headers[header]
    <2>1. /\ header \in 1 .. Len(Headers) /\ p \in Sendable /\ DoEnqueue(p, HeaderDepth)
          /\ wire' = wire /\ worker = "enqueue" /\ worker' = "notify" /\ header' = header
          /\ p.id = header /\ p.class = IF header = 1 THEN "http" ELSE "config"
      BY <1>3, HeaderIsSendable, HeadersAre DEF BaseInv, Scalars
    <2>2. header \in Int /\ Given = header - 1 /\ Given' = header
      BY <2>1, HeadersAre DEF Given, Starting, BaseInv, Scalars
    <2>3. m_conn_type = "mjpeg" => p.class = "http" /\ s = <<>>
      <3>1. SUFFICES ASSUME m_conn_type = "mjpeg" PROVE p.class = "http" /\ s = <<>>
        OBVIOUS
      <3>2. header = 1
        <4>1. Len(Headers) = 1
          BY <3>1, HeadersAre DEF BaseInv, Scalars
        <4> HIDE DEF p
        <4> QED
          BY <2>1, <4>1
      <3>3. m_send_queue = <<>> /\ wire = <<>> /\ m_send_offset = 0
        BY <1>0, <2>1, <3>2 DEF QueueInv
      <3>4. Joins(s, wire, m_send_queue, m_send_offset)
        BY OnWireIs
      <3>5. Len(s) = 0
        BY <3>3, <3>4 DEF Joins, InFlight
      <3>6. s = <<>>
        BY <1>0, <3>5, EmptySeq
      <3> QED
        BY <2>1, <3>2, <3>6
    <2> HIDE DEF p, s
    <2>4. p.id = Given + 1 /\ Given' = Given + 1
      BY <2>1, <2>2
    <2> QED
      BY <1>c, <2>1, <2>3, <2>4
  <1>4. CASE EnqueueToClient /\ m_sockfd = "open"
    <2>1. /\ packet \in Sendable /\ packet.class # "http" /\ DoEnqueue(packet, FrameDepth)
          /\ wire' = wire /\ sender = "enqueue" /\ sender' # "enqueue"
          /\ packet.id = Len(Headers) + broadcasts /\ broadcasts' = broadcasts
          /\ worker' = worker /\ header' = header
      BY <1>4, PacketIsSendable DEF workVars
    <2>2. ~Starting
      BY <1>0, <2>1 DEF BaseInv, ListInv
    <2>3. Len(Headers) \in Int /\ broadcasts \in Int /\ Headers' = Headers
      BY HeadersAre, KindStays, ConstantsStay DEF BaseInv, Scalars
    <2>4. Given = packet.id - 1 /\ Given' = packet.id /\ packet.id \in Int
      BY <2>1, <2>2, <2>3 DEF Given, Starting
    <2>5. m_conn_type = "mjpeg" => s # <<>>
      BY <1>0, <1>4, <2>2 DEF Starting
    <2> HIDE DEF s
    <2>6. packet.id = Given + 1 /\ Given' = Given + 1
      BY <2>4
    <2> QED
      BY <1>c, <2>1, <2>5, <2>6
  <1>5. ASSUME NEW k \in 1 .. PacketSize, WriteSome(k)
        PROVE  s' = s /\ m_sockfd' = m_sockfd /\ worker' = worker
    BY <1>5, WriteKeepsStream DEF WriteSome, workVars
  <1>6. CASE CloseSocket
    <2>1. s' \in Seq(Sendable) /\ Begins(s', s) /\ m_sockfd' = "closed"
      BY <1>6, CloseKeepsWire
    <2> HIDE DEF s
    <2>2. Increasing(s') /\ UpTo(s', Given) /\ (m_conn_type = "mjpeg" => HeaderFirst(s'))
      BY <1>0, <2>1, BeginsOrder
    <2>3. UpTo(s', Given')
      BY <1>0, <1>a, <2>1, <2>2
    <2> QED
      BY <2>1, <2>2, <2>3
  <1> HIDE DEF s
  <1>7. ASSUME NEW k \in 1 .. PacketSize, WriteSome(k)
        PROVE  /\ Increasing(s') /\ UpTo(s', Given')
               /\ m_conn_type = "mjpeg" =>
                      /\ HeaderFirst(s')
                      /\ m_sockfd' = "open" /\ s' = <<>> => worker' = "enqueue"
    BY <1>b, <1>5, <1>7
  <1> QED
    BY <1>1, <1>2, <1>3, <1>4, <1>6, <1>7, QueueMoves

LEMMA InvMeansOrder == QueueInv /\ OrderInv => InOrder
  <1> SUFFICES ASSUME QueueInv, OrderInv, StartedOnce
               PROVE  /\ \A i, j \in DOMAIN OnWireOrQueued :
                             i < j => OnWireOrQueued[i].id < OnWireOrQueued[j].id
                      /\ m_conn_type = "mjpeg" =>
                             \A i \in DOMAIN wire : wire[i].pkt.class = "http" <=> i = 1
    BY DEF InOrder
  <1>1. Increasing(OnWireOrQueued) /\ (m_conn_type = "mjpeg" => HeaderFirst(OnWireOrQueued))
    BY DEF OrderInv
  <1>2. /\ OnWireOrQueued \in Seq(Sendable) /\ wire \in Seq(Segment)
        /\ Joins(OnWireOrQueued, wire, m_send_queue, m_send_offset)
        /\ InFlight(m_send_offset) \in {0, 1} /\ InFlight(m_send_offset) <= Len(m_send_queue)
    BY OnWireIs
  <1>3. DOMAIN wire = 1 .. Len(wire) /\ DOMAIN OnWireOrQueued = 1 .. Len(OnWireOrQueued)
    BY <1>2, LenProperties
  <1>4. \A i \in DOMAIN wire : i \in DOMAIN OnWireOrQueued /\ OnWireOrQueued[i] = wire[i].pkt
    BY <1>2, <1>3 DEF Joins
  <1> QED
    BY <1>1, <1>4 DEF Increasing, HeaderFirst

\* What a client gets, and what waits for it, is in the order of the
\* broadcasts, nothing twice, and the response header opens an MJPEG stream
\* (enqueue_packet(), enqueue_flv_packet(), write_stream()), whatever was
\* dropped in between, of a stream that was started once.
THEOREM StreamIsInOrder == Spec => []InOrder
  <1> DEFINE I == BaseInv /\ QueueInv /\ OrderInv
  <1>1. Init => I
    BY BaseInvInit, QueueInvInit, OrderInvInit
  <1>2. I /\ [Next]_vars => I'
    BY BaseInvStep, QueueInvStep, OrderInvStep
  <1>3. I => InOrder
    BY InvMeansOrder
  <1> HIDE DEF I
  <1> QED
    BY <1>1, <1>2, <1>3, PTL DEF Spec

-----------------------------------------------------------------------------
(* The newest JPEG.                                                        *)

LEMMA OfferedStays ==
    ASSUME [Next]_vars, ~(EnqueueToClient /\ m_sockfd = "open")
    PROVE  offered' = offered
  <1> USE DEF connVars, workVars, sendVars, peerVars
  <1>1. CASE WorkerNext
    BY <1>1 DEF WorkerNext, StartEnqueue, StartNotify, AddClient, TakeTask, ParsePartial, ParseBlank
  <1>2. CASE MainNext
    BY <1>2 DEF MainNext, EventHup, EventIn, EventOut, WriteEmpty, WriteAgain, WriteFails,
                      WriteSome, CloseSocket, RemoveClient
  <1>3. CASE PeerNext
    BY <1>3 DEF PeerNext, PeerReads, PeerSends, PeerLeaves
  <1>4. ASSUME NEW c \in BroadcastClasses, Broadcast(c) PROVE offered' = offered
    BY <1>4 DEF Broadcast
  <1>5. CASE SenderStep
    BY <1>5 DEF SenderStep, EnqueueToClient, NotifyClient, Account
  <1>6. CASE UNCHANGED vars
    BY <1>6 DEF vars
  <1> QED
    BY <1>1, <1>2, <1>3, <1>4, <1>5, <1>6 DEF Next

\* What a send() leaves to be replaced waited at the same place of the queue,
\* counted from its end.
LEMMA WriteKeepsStale ==
    ASSUME QueueInv, NEW k \in 1 .. PacketSize, WriteSome(k),
           NEW i \in Stale(m_send_queue', m_send_offset')
    PROVE  \E j \in Stale(m_send_queue, m_send_offset) :
               /\ m_send_queue[j] = m_send_queue'[i]
               /\ j - i = Len(m_send_queue) - Len(m_send_queue')
  <1>1. /\ m_send_queue # <<>> /\ m_send_queue \in Seq(Sendable)
        /\ m_send_offset \in Nat /\ k \in Nat /\ k > 0
        /\ \/ m_send_queue' = Tail(m_send_queue) /\ m_send_offset' = 0
           \/ m_send_queue' = m_send_queue /\ m_send_offset' = m_send_offset + k
    BY WriteMoves, OnWireIs
  <1>2. /\ i \in InFlight(m_send_offset') + 1 .. Len(m_send_queue')
        /\ Droppable(m_send_queue'[i]) /\ InFlight(m_send_offset) \in {0, 1}
        /\ Len(m_send_queue) \in Nat
    BY <1>1, LenProperties DEF Stale, InFlight
  <1>3. CASE m_send_queue' = Tail(m_send_queue) /\ m_send_offset' = 0
    <2>1. /\ Len(m_send_queue') = Len(m_send_queue) - 1 /\ InFlight(m_send_offset') = 0
          /\ \A n \in 1 .. Len(m_send_queue) - 1 : m_send_queue'[n] = m_send_queue[n + 1]
      BY <1>1, <1>3, HeadTailProperties DEF InFlight
    <2>2. i \in 1 .. Len(m_send_queue) - 1 /\ i \in Nat
      BY <1>2, <2>1
    <2>3. /\ i + 1 \in InFlight(m_send_offset) + 1 .. Len(m_send_queue)
          /\ m_send_queue[i + 1] = m_send_queue'[i]
      BY <1>2, <2>1, <2>2
    <2>4. i + 1 \in Stale(m_send_queue, m_send_offset)
      BY <1>2, <2>3 DEF Stale
    <2>5. (i + 1) - i = Len(m_send_queue) - Len(m_send_queue')
      BY <1>2, <2>1, <2>2
    <2> QED
      BY <2>3, <2>4, <2>5
  <1>4. CASE m_send_queue' = m_send_queue /\ m_send_offset' = m_send_offset + k
    <2>1. InFlight(m_send_offset') = 1
      BY <1>1, <1>4 DEF InFlight
    <2>2. i \in Nat /\ i \in InFlight(m_send_offset) + 1 .. Len(m_send_queue)
      BY <1>2, <1>4, <2>1
    <2>3. i \in Stale(m_send_queue, m_send_offset)
      BY <1>2, <1>4, <2>2 DEF Stale
    <2> QED
      BY <1>2, <1>4, <2>2, <2>3
  <1> QED
    BY <1>1, <1>3, <1>4

LEMMA LatestInvInit == Init => LatestInv
  BY DEF Init, LatestInv, LatestFrameWins

LEMMA LatestInvStep ==
    ASSUME FrameDepth # 1, BaseInv, QueueInv, OrderInv, LatestInv, [Next]_vars
    PROVE  LatestInv'
  <1> DEFINE s == OnWireOrQueued
             q == m_send_queue
             o == m_send_offset
  <1> SUFFICES ASSUME StartedOnce'
               PROVE  /\ \A n \in offered' : n <= Given'
                      /\ m_conn_type = "mjpeg" /\ m_sockfd' = "open" /\ offered' # {} =>
                            /\ \A i \in Stale(q', o') : i = Len(q') /\ q'[i].id = Max(offered')
                            /\ \E i \in DOMAIN s' : s'[i].id = Max(offered')
    BY KindStays DEF LatestInv, LatestFrameWins, Stale, InFlight, Max
  <1>0. /\ StartedOnce /\ m_conn_type \in Kinds
        /\ Given \in Int /\ Given' \in Int /\ Given <= Given'
        /\ s \in Seq(Sendable) /\ offered \subseteq Ids /\ \A n \in Ids : n \in Nat
        /\ \A n \in offered : n <= Given
        /\ m_conn_type = "mjpeg" /\ m_sockfd = "open" /\ offered # {} =>
              /\ \A i \in Stale(q, o) : i = Len(q) /\ q[i].id = Max(offered)
              /\ \E i \in DOMAIN s : s[i].id = Max(offered)
    BY StartedEarlier, GivenGrows, OnWireIs
       DEF BaseInv, Scalars, PacketInv, LatestInv, LatestFrameWins, Ids
  <1>1. ASSUME offered' = offered PROVE \A n \in offered' : n <= Given'
    <2>1. \A n \in offered : n \in Int
      BY <1>0
    <2> QED
      BY <1>0, <1>1, <2>1
  <1>2. CASE Quiet /\ ~(EnqueueToClient /\ m_sockfd = "open")
    <2>1. /\ offered' = offered /\ s' = s /\ m_sockfd' = m_sockfd
          /\ q' = q /\ o' = o
      BY <1>2, OfferedStays DEF Quiet, QueueUnchanged, OnWireOrQueued
    <2> HIDE DEF s, q, o
    <2> QED
      BY <1>0, <1>1, <2>1
  <1>3. CASE ParseBlank
    BY <1>0, <1>3, StreamAssumption DEF ParseBlank, BaseInv, Counters, StartedOnce
  <1>4. CASE StartEnqueue /\ m_sockfd = "open"
    <2>1. offered = {} /\ offered' = offered
      BY <1>0, <1>4, HeaderIsSendable DEF sendVars, BaseInv, ListInv, Starting
    <2> QED
      BY <1>1, <2>1
  <1>5. ASSUME NEW k \in 1 .. PacketSize, WriteSome(k)
        PROVE  /\ \A n \in offered' : n <= Given'
               /\ m_conn_type = "mjpeg" /\ m_sockfd' = "open" /\ offered' # {} =>
                     /\ \A i \in Stale(q', o') : i = Len(q') /\ q'[i].id = Max(offered')
                     /\ \E i \in DOMAIN s' : s'[i].id = Max(offered')
    <2>1. s' = s /\ offered' = offered /\ m_sockfd' = m_sockfd
      BY <1>5, WriteKeepsStream DEF WriteSome, sendVars
    <2>2. ASSUME \A i \in Stale(q, o) : i = Len(q) /\ q[i].id = Max(offered), NEW i \in Stale(q', o')
          PROVE  i = Len(q') /\ q'[i].id = Max(offered)
      <3>1. PICK j \in Stale(q, o) : q[j] = q'[i] /\ j - i = Len(q) - Len(q')
        BY <1>5, <2>2, WriteKeepsStale
      <3>2. j = Len(q) /\ q'[i].id = Max(offered)
        BY <2>2, <3>1
      <3>3. Len(q) \in Nat /\ Len(q') \in Nat /\ i \in Int
        <4>1. q \in Seq(Sendable) /\ q' \in Seq(Sendable)
          BY QueueInvStep, OnWireIs, KindStays, ConstantsStay DEF QueueInv
        <4>2. Len(q) \in Nat /\ Len(q') \in Nat
          BY <4>1, LenProperties
        <4>3. InFlight(o') \in {0, 1}
          BY DEF InFlight
        <4> QED
          BY <4>2, <4>3 DEF Stale
      <3> HIDE DEF q
      <3>4. i = Len(q')
        BY <3>1, <3>2, <3>3
      <3> QED
        BY <3>2, <3>4
    <2> HIDE DEF s, q, o
    <2> QED
      BY <1>0, <1>1, <2>1, <2>2
  <1>6. CASE CloseSocket
    <2>1. m_sockfd' = "closed" /\ offered' = offered
      BY <1>6 DEF CloseSocket, sendVars
    <2> QED
      BY <1>1, <2>1
  <1>7. CASE EnqueueToClient /\ m_sockfd = "open"
    <2>1. /\ packet \in Sendable /\ packet.class # "http" /\ DoEnqueue(packet, FrameDepth)
          /\ wire' = wire /\ sender = "enqueue" /\ sender' # "enqueue"
          /\ packet.id = Len(Headers) + broadcasts /\ broadcasts' = broadcasts
          /\ packet.class \in BroadcastClasses
          /\ worker' = worker /\ header' = header
          /\ offered' = offered \cup {packet.id}
      BY <1>7, PacketIsSendable DEF workVars
    <2>2. ~Starting
      BY <1>0, <2>1 DEF BaseInv, ListInv
    <2>3. Given = packet.id - 1 /\ Given' = packet.id /\ packet.id \in Nat
      <3>1. Len(Headers) \in Nat /\ broadcasts \in Nat /\ Headers' = Headers
        BY HeadersAre, KindStays, ConstantsStay DEF BaseInv, Scalars
      <3> QED
        BY <2>1, <2>2, <3>1 DEF Given, Starting
    <2>4. \A n \in offered' : n \in Nat /\ n <= packet.id
      BY <1>0, <2>1, <2>3
    <2>5. Max(offered') = packet.id
      <3>1. offered' \in SUBSET Nat /\ packet.id \in offered' /\ \A n \in offered' : packet.id >= n
        BY <2>1, <2>3, <2>4
      <3> QED
        BY <3>1, MaxIs
    <2> SUFFICES ASSUME m_conn_type = "mjpeg"
                 PROVE  /\ \A i \in Stale(q', o') : i = Len(q') /\ q'[i].id = packet.id
                        /\ \E i \in DOMAIN s' : s'[i].id = packet.id
      BY <2>3, <2>4, <2>5
    <2>6. Droppable(packet)
      BY <2>1 DEF Droppable, BroadcastClasses
    <2>7. PICK r \in Seq(Sendable) :
            /\ Thinned(Stream(wire, r, o), s)
            /\ Stream(wire, r, o) \in Seq(Sendable)
            /\ Joins(Stream(wire, r, o), wire, r, o)
            /\ InFlight(o) <= Len(r)
            /\ Stale(r, o) = {}
            /\ o' = o
            /\ \/ Len(r) >= FrameDepth
               \/ q' = Append(r, packet) /\ s' = Append(Stream(wire, r, o), packet)
      <3> HIDE DEF s
      <3> QED
        BY <2>1, <2>6, PacketStream DEF s
    <2> DEFINE t == Stream(wire, r, o)
    <2>a. InFlight(o) \in {0, 1} /\ Len(wire) \in Nat /\ Len(r) \in Nat /\ Len(t) \in Nat
      BY <2>7, OnWireIs, LenProperties DEF InFlight
    \* Nothing is left behind the head but frames are gone: no more than the
    \* header, or the packet that is being sent.
    <2>8. ~(Len(r) >= FrameDepth)
      <3>1. HeaderFirst(t)
        <4>1. HeaderFirst(s)
          BY <1>0 DEF OrderInv
        <4> QED
          BY <1>0, <2>7, <4>1, ThinnedOrder
      <3>2. ASSUME NEW n \in 1 .. Len(r), n > InFlight(o) PROVE n - InFlight(o) + Len(wire) = 1
        <4> DEFINE m == n - InFlight(o) + Len(wire)
        <4>1. /\ m \in 1 .. Len(wire) + Len(r) - InFlight(o) /\ ~(m <= Len(wire))
              /\ m - Len(wire) + InFlight(o) = n
          BY <2>a, <3>2
        <4> HIDE DEF m
        <4>2. t[m] = r[n] /\ m \in 1 .. Len(t)
          BY <2>7, <4>1 DEF Joins
        <4>3. ~Droppable(r[n])
          <5>1. n \in InFlight(o) + 1 .. Len(r)
            BY <2>a, <3>2
          <5> QED
            BY <2>7, <5>1 DEF Stale
        <4>4. r[n] \in Sendable
          BY <2>7, ElementOfSeq
        <4>5. r[n].class = "http"
          BY <4>3, <4>4 DEF Sendable, Classes, Droppable
        <4>6. m \in DOMAIN t
          BY <2>7, <4>2, LenProperties
        <4>7. m = 1
          BY <3>1, <4>2, <4>5, <4>6 DEF HeaderFirst
        <4> QED
          BY <4>7 DEF m
      <3>3. ~(Len(r) >= 2)
        <4> SUFFICES ASSUME Len(r) >= 2 PROVE FALSE
          OBVIOUS
        <4>1. Len(r) \in 1 .. Len(r) /\ Len(r) > InFlight(o)
          BY <2>a
        <4>2. Len(r) - InFlight(o) + Len(wire) = 1
          BY <3>2, <4>1
        <4>3. InFlight(o) = 1 /\ Len(wire) = 0
          BY <2>a, <4>2
        <4>4. o > 0 /\ wire # <<>> /\ wire \in Seq(Segment)
          BY <4>3 DEF InFlight, QueueInv
        <4> QED
          BY <4>3, <4>4, EmptySeq
      <3>4. FrameDepth \in Nat /\ FrameDepth >= 2
        BY StreamAssumption
      <3> QED
        BY <2>a, <3>3, <3>4
    <2>9. /\ q' = Append(r, packet) /\ Len(q') = Len(r) + 1 /\ q'[Len(r) + 1] = packet
          /\ \A i \in 1 .. Len(r) : q'[i] = r[i]
      <3>1. q' = Append(r, packet)
        BY <2>7, <2>8
      <3>2. /\ Len(Append(r, packet)) = Len(r) + 1 /\ Append(r, packet)[Len(r) + 1] = packet
            /\ \A i \in 1 .. Len(r) : Append(r, packet)[i] = r[i]
        BY <2>1, AppendProperties
      <3> HIDE DEF q
      <3> QED
        BY <3>1, <3>2
    <2>10. ASSUME NEW i \in Stale(q', o') PROVE i = Len(q') /\ q'[i].id = packet.id
      <3>1. i \in InFlight(o) + 1 .. Len(r) + 1 /\ Droppable(q'[i])
        BY <2>7, <2>9, <2>10 DEF Stale
      <3>2. i \in InFlight(o) + 1 .. Len(r) => q'[i] = r[i]
        <4>1. i \in InFlight(o) + 1 .. Len(r) => i \in 1 .. Len(r)
          BY <2>a
        <4> QED
          BY <2>9, <4>1
      <3>3. i \notin InFlight(o) + 1 .. Len(r)
        BY <2>7, <3>1, <3>2 DEF Stale
      <3>4. i = Len(r) + 1
        BY <2>a, <3>1, <3>3
      <3> QED
        BY <2>9, <3>4
    <2>11. \E i \in DOMAIN s' : s'[i].id = packet.id
      <3>1. s' = Append(t, packet)
        BY <2>7, <2>8
      <3>a. t \in Seq(Sendable)
        BY <2>7
      <3> HIDE DEF s, t
      <3>b. /\ DOMAIN Append(t, packet) = 1 .. Len(t) + 1
            /\ Append(t, packet)[Len(t) + 1] = packet
        BY <2>1, <3>a, AppendProperties
      <3>2. Len(t) + 1 \in DOMAIN s' /\ s'[Len(t) + 1] = packet
        BY <2>a, <3>1, <3>b
      <3> QED
        BY <3>2
    <2> QED
      BY <2>10, <2>11
  <1> QED
    BY <1>2, <1>3, <1>4, <1>5, <1>6, <1>7, QueueMoves

\* A viewer who falls behind gets the newest JPEG next: at most one waits
\* behind the packet that is being sent, it is the newest that was offered, and
\* the newest is never the one that enqueue_packet() gives up, of a stream that
\* was started once.  (With a depth of one the packet that is being sent would
\* fill the queue and the newest would be refused.)
THEOREM NewestFrameWins ==
    ASSUME FrameDepth # 1
    PROVE  Spec => []LatestFrameWins
  <1> DEFINE I == BaseInv /\ QueueInv /\ OrderInv /\ LatestInv
  <1>1. Init => I
    BY BaseInvInit, QueueInvInit, OrderInvInit, LatestInvInit
  <1>2. I /\ [Next]_vars => I'
    BY BaseInvStep, QueueInvStep, OrderInvStep, LatestInvStep
  <1>3. I => LatestFrameWins
    BY DEF LatestInv
  <1> HIDE DEF I
  <1> QED
    BY <1>1, <1>2, <1>3, PTL DEF Spec

-----------------------------------------------------------------------------
(* The references of the inter frames.                                     *)

Earlier(s, i) == {j \in 1 .. i - 1 : IsPicture(s[j])}

LEMMA ReferencesAre ==
    ASSUME NEW s
    PROVE  References(s) <=>
               \A i \in DOMAIN s : s[i].class = "inter" =>
                   Earlier(s, i) # {} /\ s[Max(Earlier(s, i))].id = s[i].after
  BY DEF References, Earlier

LEMMA BeginsReferences ==
    ASSUME NEW s \in Seq(Sendable), NEW t \in Seq(Sendable), Begins(t, s), References(s)
    PROVE  References(t)
  <1>1. /\ DOMAIN s = 1 .. Len(s) /\ DOMAIN t = 1 .. Len(t) /\ Len(s) \in Nat /\ Len(t) \in Nat
        /\ Len(t) <= Len(s) /\ \A i \in 1 .. Len(t) : t[i] = s[i]
    BY LenProperties DEF Begins
  <1>2. ASSUME NEW i \in DOMAIN t, t[i].class = "inter"
        PROVE  Earlier(t, i) # {} /\ t[Max(Earlier(t, i))].id = t[i].after
    <2>1. i \in DOMAIN s /\ t[i] = s[i] /\ \A j \in 1 .. i - 1 : j \in 1 .. Len(t) /\ t[j] = s[j]
      BY <1>1
    <2>2. Earlier(t, i) = Earlier(s, i)
      BY <2>1 DEF Earlier
    <2>3. Earlier(s, i) # {} /\ s[Max(Earlier(s, i))].id = s[i].after
      BY <1>2, <2>1, ReferencesAre
    <2>4. Max(Earlier(s, i)) \in 1 .. i - 1
      <3>1. i - 1 \in Nat /\ Earlier(s, i) \in SUBSET (0 .. i - 1)
        BY <1>1 DEF Earlier
      <3>2. Max(Earlier(s, i)) \in Earlier(s, i)
        BY <2>3, <3>1, MaxExists
      <3> QED
        BY <3>2 DEF Earlier
    <2> QED
      BY <2>1, <2>2, <2>3, <2>4
  <1> QED
    BY <1>2, ReferencesAre

LEMMA AppendReferences ==
    ASSUME NEW s \in Seq(Sendable), NEW p \in Sendable
    PROVE  /\ References(s) /\ (p.class = "inter" => EndsWith(s, p.after)) => References(Append(s, p))
           /\ IsPicture(p) => EndsWith(Append(s, p), p.id)
           /\ \A n : ~IsPicture(p) /\ EndsWith(s, n) => EndsWith(Append(s, p), n)
  <1> DEFINE t == Append(s, p)
             l == Len(s)
  <1>1. /\ DOMAIN s = 1 .. l /\ DOMAIN t = 1 .. l + 1 /\ l \in Nat
        /\ \A i \in 1 .. l : t[i] = s[i]
        /\ t[l + 1] = p
    BY LenProperties, AppendProperties
  <1> HIDE DEF t, l
  <1>2. Pictures(s) = {j \in 1 .. l : IsPicture(s[j])} /\ Pictures(s) \in SUBSET (0 .. l)
    BY <1>1 DEF Pictures
  <1>3. Pictures(s) # {} => Max(Pictures(s)) \in 1 .. l
    <2>1. Pictures(s) # {} => Max(Pictures(s)) \in Pictures(s)
      BY <1>1, <1>2, MaxExists
    <2> QED
      BY <1>2, <2>1
  <1>4. ASSUME References(s), p.class = "inter" => EndsWith(s, p.after) PROVE References(t)
    <2>1. ASSUME NEW i \in DOMAIN t, t[i].class = "inter"
          PROVE  Earlier(t, i) # {} /\ t[Max(Earlier(t, i))].id = t[i].after
      <3>1. CASE i \in 1 .. l
        <4>1. t[i] = s[i] /\ i \in DOMAIN s /\ \A j \in 1 .. i - 1 : t[j] = s[j]
          BY <1>1, <3>1
        <4>2. Earlier(t, i) = Earlier(s, i)
          BY <4>1 DEF Earlier
        <4>3. Earlier(s, i) # {} /\ s[Max(Earlier(s, i))].id = s[i].after
          BY <1>4, <2>1, <4>1, ReferencesAre
        <4>4. Max(Earlier(s, i)) \in 1 .. i - 1
          <5>1. i - 1 \in Nat /\ Earlier(s, i) \in SUBSET (0 .. i - 1)
            BY <1>1, <3>1 DEF Earlier
          <5>2. Max(Earlier(s, i)) \in Earlier(s, i)
            BY <4>3, <5>1, MaxExists
          <5> QED
            BY <5>2 DEF Earlier
        <4> QED
          BY <4>1, <4>2, <4>3, <4>4
      <3>2. CASE i = l + 1
        <4>1. t[i] = p /\ i - 1 = l
          BY <1>1, <3>2
        <4>2. Earlier(t, i) = Pictures(s)
          BY <1>1, <1>2, <4>1 DEF Earlier
        <4>3. Pictures(s) # {} /\ s[Max(Pictures(s))].id = p.after
          BY <1>4, <2>1, <4>1 DEF EndsWith
        <4> QED
          BY <1>1, <1>3, <4>1, <4>2, <4>3
      <3>3. i \in 1 .. l \/ i = l + 1
        BY <1>1
      <3> QED
        BY <3>1, <3>2, <3>3
    <2> QED
      BY <2>1, ReferencesAre
  <1>5. ASSUME IsPicture(p) PROVE EndsWith(t, p.id)
    <2>1. l + 1 \in Pictures(t) /\ Pictures(t) \in SUBSET Nat /\ \A j \in Pictures(t) : l + 1 >= j
      BY <1>1, <1>5 DEF Pictures
    <2>2. Max(Pictures(t)) = l + 1
      BY <2>1, MaxIs
    <2> QED
      BY <1>1, <2>1, <2>2 DEF EndsWith
  <1>6. ASSUME NEW n, ~IsPicture(p), EndsWith(s, n) PROVE EndsWith(t, n)
    <2>1. \A j \in DOMAIN t : (j \in DOMAIN s /\ t[j] = s[j]) \/ t[j] = p
      <3>1. \A j \in DOMAIN t : j \in 1 .. l \/ j = l + 1
        BY <1>1
      <3> QED
        BY <1>1, <3>1
    <2>2. \A j \in DOMAIN s : j \in DOMAIN t /\ t[j] = s[j]
      BY <1>1
    <2>3. Pictures(t) = Pictures(s)
      BY <1>6, <2>1, <2>2 DEF Pictures
    <2> QED
      BY <1>1, <1>3, <1>6, <2>3 DEF EndsWith
  <1> QED
    BY <1>4, <1>5, <1>6 DEF t

LEMMA ChainInvInit == Init => ChainInv
  <1> SUFFICES ASSUME Init PROVE ChainInv
    OBVIOUS
  <1>1. wire = <<>> /\ m_send_queue = <<>> /\ m_send_offset = 0
        /\ m_wait_flv_key_frame = (m_conn_type = "flv")
    BY DEF Init
  <1>2. DOMAIN OnWireOrQueued = {}
    <2>1. QueueInv /\ Len(wire) = 0 /\ Len(m_send_queue) = 0
      BY <1>1, QueueInvInit
    <2>2. OnWireOrQueued \in Seq(Sendable) /\ Joins(OnWireOrQueued, wire, m_send_queue, m_send_offset)
      BY <2>1, OnWireIs
    <2>3. Len(OnWireOrQueued) = 0
      BY <1>1, <2>1, <2>2 DEF Joins, InFlight
    <2> QED
      BY <2>2, <2>3, LenProperties
  <1> QED
    BY <1>1, <1>2 DEF ChainInv, References

\* Who is listed and what is being broadcast, when the queue is left alone.
LEMMA QuietChain ==
    ASSUME BaseInv, [Next]_vars, ~(EnqueueToClient /\ m_sockfd = "open"), m_conn_type = "flv",
           m_sockfd' = "open"
    PROVE  /\ m_sockfd = "open"
           /\ client_listed => client_listed'
           /\ Decodable' = Decodable \/ (~client_listed /\ ~client_listed')
  <1> USE DEF connVars, workVars, sendVars, peerVars
  <1>0. main = "unlist" => m_sockfd = "closed"
    BY DEF BaseInv, Scalars
  <1>1. ASSUME UNCHANGED <<sender, packet, picture>> PROVE Decodable' = Decodable
    BY <1>1 DEF Decodable
  <1>2. CASE WorkerNext
    BY <1>1, <1>2 DEF WorkerNext, StartEnqueue, StartNotify, AddClient, TakeTask, ParsePartial, ParseBlank
  <1>3. CASE MainNext
    <2>1. Decodable' = Decodable
      BY <1>1, <1>3 DEF MainNext, EventHup, EventIn, EventOut, WriteEmpty, WriteAgain, WriteFails,
                        WriteSome, CloseSocket, RemoveClient
    <2>2. CASE RemoveClient
      BY <1>0, <2>2 DEF RemoveClient
    <2>3. CASE CloseSocket
      BY <2>3 DEF CloseSocket
    <2>4. ~RemoveClient /\ ~CloseSocket => client_listed' = client_listed /\ m_sockfd' = m_sockfd
      BY <1>3 DEF MainNext, EventHup, EventIn, EventOut, WriteEmpty, WriteAgain, WriteFails, WriteSome
    <2> QED
      BY <2>1, <2>2, <2>3, <2>4
  <1>4. CASE PeerNext
    BY <1>1, <1>4 DEF PeerNext, PeerReads, PeerSends, PeerLeaves
  <1>5. ASSUME NEW c \in BroadcastClasses, Broadcast(c)
        PROVE  /\ m_sockfd = "open" /\ client_listed' = client_listed
               /\ Decodable' = Decodable \/ ~client_listed
    <2>1. m_sockfd = "open" /\ client_listed' = client_listed
      BY <1>5 DEF Broadcast
    <2>2. CASE client_listed
      BY <1>5, <2>2 DEF Broadcast, Decodable, Packet
    <2> QED
      BY <2>1, <2>2
  <1>6. CASE EnqueueToClient
    BY <1>6 DEF EnqueueToClient
  <1>7. CASE NotifyClient \/ Account
    BY <1>7 DEF NotifyClient, Account, Decodable
  <1>8. CASE UNCHANGED vars
    BY <1>1, <1>8 DEF vars
  <1> QED
    BY <1>2, <1>3, <1>4, <1>5, <1>6, <1>7, <1>8 DEF Next, SenderStep

LEMMA ChainInvStep ==
    ASSUME BaseInv, QueueInv, ChainInv, [Next]_vars
    PROVE  ChainInv'
  <1> DEFINE s == OnWireOrQueued
             w == m_wait_flv_key_frame
  <1> SUFFICES ASSUME m_conn_type = "flv"
               PROVE  /\ References(s')
                      /\ m_sockfd' = "open" /\ ~client_listed' => w'
                      /\ m_sockfd' = "open" /\ ~w' => EndsWith(s', Decodable')
    BY KindStays DEF ChainInv, References, EndsWith, Pictures, IsPicture, Max
  <1>0. /\ w \in BOOLEAN /\ client_listed \in BOOLEAN /\ s \in Seq(Sendable)
        /\ References(s)
        /\ m_sockfd = "open" /\ ~client_listed => w
        /\ m_sockfd = "open" /\ ~w => EndsWith(s, Decodable)
    BY OnWireIs DEF BaseInv, Scalars, ChainInv
  <1>a. /\ \A t \in Seq(Sendable) : Begins(t, s) => References(t)
        /\ Begins(s, s)
    <2>1. Begins(s, s)
      BY <1>0, LenProperties DEF Begins
    <2> HIDE DEF s
    <2> QED
      BY <1>0, <2>1, BeginsReferences
  <1>1. CASE Quiet /\ ~(EnqueueToClient /\ m_sockfd = "open")
    <2>1. s' = s /\ m_sockfd' = m_sockfd /\ w' = w
      BY <1>1 DEF Quiet, QueueUnchanged, OnWireOrQueued
    <2> HIDE DEF s, w
    <2> QED
      BY <1>0, <1>1, <2>1, QuietChain
  <1>2. CASE ParseBlank /\ QueueUnchanged
    <2>1. s' = s /\ w'
      BY <1>2 DEF QueueUnchanged, OnWireOrQueued, ParseBlank
    <2> HIDE DEF s, w
    <2> QED
      BY <1>0, <2>1
  <1>3. CASE StartEnqueue /\ m_sockfd = "open"
    <2> DEFINE p == Headers[header]
    <2>1. /\ p \in Sendable /\ DoEnqueue(p, HeaderDepth)
          /\ wire' = wire /\ m_sockfd' = m_sockfd /\ client_listed' = client_listed
          /\ header \in 1 .. Len(Headers)
      BY <1>3, HeaderIsSendable
    <2>2. p.class \in {"http", "config"}
      BY <2>1, HeadersAre DEF BaseInv, Scalars
    <2>3. Decodable' = Decodable
      BY <1>3, HeaderIsSendable DEF Decodable, sendVars
    <2> HIDE DEF p
    <2>4. ~IsPicture(p) /\ p.class # "key" /\ p.class # "inter"
      BY <2>2 DEF IsPicture
    <2>5. \/ s' \in Seq(Sendable) /\ Begins(s', s) /\ w'
          \/ w' /\ \E t \in Seq(Sendable) : Begins(t, s) /\ s' = Append(t, p)
          \/ s' = Append(s, p) /\ (w => w')
      <3> HIDE DEF s
      <3> QED
        BY <2>1, <2>4, FlvStream DEF s
    <2>6. \A t \in Seq(Sendable) : Begins(t, s) => References(Append(t, p))
      BY <1>a, <2>1, <2>4, AppendReferences
    <2> HIDE DEF s, w
    <2>7. References(s')
      BY <1>0, <1>a, <2>5, <2>6
    <2>8. EndsWith(s, Decodable) => EndsWith(Append(s, p), Decodable)
      BY <1>0, <2>1, <2>4, AppendReferences
    <2>9. ~w' => ~w /\ s' = Append(s, p)
      BY <2>5
    <2> QED
      BY <1>0, <1>3, <2>1, <2>3, <2>7, <2>8, <2>9
  <1>4. CASE EnqueueToClient /\ m_sockfd = "open"
    <2>1. /\ packet \in Sendable /\ DoEnqueue(packet, FrameDepth)
          /\ wire' = wire /\ sender = "enqueue" /\ sender' # "enqueue"
          /\ picture = IF IsPicture(packet) THEN packet.id ELSE packet.after
          /\ client_listed' = client_listed /\ picture' = picture
      BY <1>4, PacketIsSendable
    <2>2. Decodable = packet.after /\ Decodable' = picture /\ client_listed'
      BY <1>4, <2>1 DEF Decodable, BaseInv, ListInv
    <2>3. \/ s' \in Seq(Sendable) /\ Begins(s', s) /\ w'
          \/ /\ Startable(packet) /\ (packet.class # "key" => w')
             /\ \E t \in Seq(Sendable) : Begins(t, s) /\ s' = Append(t, packet)
          \/ /\ s' = Append(s, packet)
             /\ w => packet.class # "inter"
             /\ w /\ packet.class # "key" => w'
      <3> HIDE DEF s
      <3> QED
        BY <2>1, FlvStream DEF s
    <2>4. IsPicture(packet) <=> packet.class \in {"key", "inter"}
      BY DEF IsPicture
    <2> HIDE DEF s, w
    <2>5. CASE s' \in Seq(Sendable) /\ Begins(s', s) /\ w'
      BY <1>a, <2>2, <2>5
    <2>6. ASSUME Startable(packet), packet.class # "key" => w',
                 NEW t \in Seq(Sendable), Begins(t, s), s' = Append(t, packet)
          PROVE  References(s') /\ (~w' => EndsWith(s', Decodable'))
      <3>1. packet.class # "inter" /\ References(t)
        BY <1>a, <2>6 DEF Startable
      <3>2. References(s')
        BY <2>1, <2>6, <3>1, AppendReferences
      <3>3. packet.class = "key" => EndsWith(s', packet.id)
        BY <2>1, <2>4, <2>6, AppendReferences
      <3> QED
        BY <2>1, <2>2, <2>4, <2>6, <3>2, <3>3
    <2>7. CASE /\ s' = Append(s, packet)
               /\ w => packet.class # "inter"
               /\ w /\ packet.class # "key" => w'
      <3>1. ~w => EndsWith(s, packet.after)
        BY <1>0, <1>4, <2>2
      <3>2. References(s')
        BY <1>0, <2>1, <2>7, <3>1, AppendReferences
      <3>3. CASE IsPicture(packet)
        <4>1. EndsWith(s', packet.id)
          BY <1>0, <2>1, <2>7, <3>3, AppendReferences
        <4> QED
          BY <2>1, <2>2, <3>2, <3>3, <4>1
      <3>4. CASE ~IsPicture(packet)
        <4>1. ~w' => ~w
          BY <2>4, <2>7, <3>4
        <4>2. ~w' => EndsWith(s', packet.after)
          BY <1>0, <2>1, <2>7, <3>1, <3>4, <4>1, AppendReferences
        <4> QED
          BY <2>1, <2>2, <3>2, <3>4, <4>2
      <3> QED
        BY <3>3, <3>4
    <2> QED
      BY <2>2, <2>3, <2>5, <2>6, <2>7
  <1>5. ASSUME NEW k \in 1 .. PacketSize, WriteSome(k)
        PROVE  /\ References(s')
               /\ m_sockfd' = "open" /\ ~client_listed' => w'
               /\ m_sockfd' = "open" /\ ~w' => EndsWith(s', Decodable')
    <2>1. s' = s
      BY <1>5, WriteKeepsStream
    <2>2. /\ m_sockfd' = m_sockfd /\ w' = w /\ client_listed' = client_listed
          /\ Decodable' = Decodable
      BY <1>5 DEF WriteSome, sendVars, Decodable
    <2> HIDE DEF s, w
    <2> QED
      BY <1>0, <2>1, <2>2
  <1>6. CASE CloseSocket
    <2>1. s' \in Seq(Sendable) /\ Begins(s', s) /\ m_sockfd' = "closed"
      BY <1>6, CloseKeepsWire
    <2> HIDE DEF s
    <2> QED
      BY <1>a, <2>1
  <1> QED
    BY <1>1, <1>2, <1>3, <1>4, <1>5, <1>6, QueueMoves

LEMMA InvMeansChain == BaseInv /\ QueueInv /\ ChainInv => InterFollowsReference
  <1> SUFFICES ASSUME BaseInv, QueueInv, ChainInv PROVE References(OnWireOrQueued)
    BY DEF InterFollowsReference, References
  <1>1. CASE m_conn_type = "flv"
    BY <1>1 DEF ChainInv
  <1>2. CASE m_conn_type = "mjpeg"
    <2>1. OnWireOrQueued \in Seq(Sendable)
      BY OnWireIs
    <2>2. \A i \in DOMAIN OnWireOrQueued : OnWireOrQueued[i].class # "inter"
      BY <1>2, <2>1, ElementOfSeq, LenProperties DEF Sendable, Classes
    <2> QED
      BY <2>2 DEF References
  <1> QED
    BY <1>1, <1>2, StreamAssumption DEF BaseInv, Scalars

\* An FLV client is never sent an inter frame without the picture right before
\* it, whatever is dropped, reset or started again in between
\* (enqueue_flv_packet(), m_wait_flv_key_frame).
THEOREM ReferencesAreSent == Spec => []InterFollowsReference
  <1> DEFINE I == BaseInv /\ QueueInv /\ ChainInv
  <1>1. Init => I
    BY BaseInvInit, QueueInvInit, ChainInvInit
  <1>2. I /\ [Next]_vars => I'
    BY BaseInvStep, QueueInvStep, ChainInvStep
  <1>3. I => InterFollowsReference
    BY InvMeansChain
  <1> HIDE DEF I
  <1> QED
    BY <1>1, <1>2, <1>3, PTL DEF Spec

=============================================================================
