----------------------------- MODULE FlvDevice -----------------------------
(***************************************************************************)
(* FlvSource together with the H.264 source each source thread opens       *)
(* (src/h264_source.cpp): an Annex-B file, or a V4L2 encoder whose buffers *)
(* are mapped, queued and dequeued.  The driver may fail every call.       *)
(* `units' remembers what the encoder, or the writer of the file, put in;  *)
(* the bytes come from there and go through the scans of AnnexB.           *)
(***************************************************************************)
EXTENDS FlvSource, AnnexB, SequencesExt

CONSTANTS Buffers,      \* buffers the driver grants (config asks for 4)
          Files,        \* contents an input file may have: [units, bytes, at]
          Filled,       \* contents of a filled buffer of the encoder
          Unusual       \* contents any encoder may put into a buffer now and then

Byte == 0 .. 255
HasCode(b) == \E i \in 1 .. Len(b) : CodeLength(b, i) # 0

\* What an H.264 encoder writes.  Unit k lies at o.at[k].first .. o.at[k].last,
\* behind a start code; it ends with a byte other than zero and holds no start
\* code (emulation prevention).  Between the units there are only zeros and
\* start codes, those of empty units too.
Within(o, k, i) == o.at[k].first <= i /\ i <= o.at[k].last
UnitLies(o, k) ==
    /\ o.at[k] \in [first : Nat, last : Nat]
    /\ 3 < o.at[k].first /\ o.at[k].first <= o.at[k].last /\ o.at[k].last <= Len(o.bytes)
    /\ o.units[k] = SubSeq(o.bytes, o.at[k].first, o.at[k].last)
    /\ CodeLength(o.bytes, o.at[k].first - 3) = 3 /\ o.bytes[o.at[k].last] # 0
    /\ \A i \in o.at[k].first .. o.at[k].last : CodeLength(o.bytes, i) = 0
EndsCode(b, i) == i > 2 /\ b[i - 2] = 0 /\ b[i - 1] = 0 /\ b[i] = 1
WellFormed(o) ==
    LET U == 1 .. Len(o.units) IN
    /\ HasCode(o.bytes)
    /\ \A k \in U : UnitLies(o, k)
    /\ \A j, k \in U : j < k => o.at[j].last + 3 < o.at[k].first
    /\ \A i \in 1 .. Len(o.bytes) :
          o.bytes[i] = 0 \/ EndsCode(o.bytes, i) \/ \E k \in U : Within(o, k, i)

ASSUME DeviceAssumption ==
    /\ Buffers \in Nat \ {0}
    /\ \A o \in Files \cup Filled \cup Unusual : o.units \in Seq(Seq(Byte)) /\ o.bytes \in Seq(Byte)

\* Without a start code a file holds no unit, and a buffer is one.
ASSUME ContentAssumption ==
    /\ \A o \in Files : WellFormed(o) \/ (~HasCode(o.bytes) /\ o.units = <<>>)
    /\ \A o \in Filled \cup Unusual :
          WellFormed(o) \/ (~HasCode(o.bytes) /\ o.units = IF o.bytes = <<>> THEN <<>> ELSE <<o.bytes>>)

VARIABLES
    uri,        \* m_flv_input_path: "file" or "v4l2"
    input,      \* the content of the file, or what the encoder fills its buffers with
    source,     \* the IH264Source of each thread
    kernel      \* what the process holds for each source: [fds, maps], two counts

inputVars == <<uri, input>>
deviceVars == <<inputVars, source, kernel>>
allVars == <<vars, deviceVars>>

\* m_buffers is the number of buffers mapped, driver the set the driver has,
\* out the buffer that is dequeued (0 for none).
NoSource == [state |-> "none", m_fd |-> FALSE, m_buffers |-> 0, driver |-> {},
             m_streaming |-> FALSE, out |-> 0, m_pending |-> <<>>, pos |-> 1,
             hand |-> FALSE, units |-> <<>>, got |-> <<>>]

\* The types; a buffer is with the driver or dequeued only if it is mapped,
\* and the stream is on only between a complete set-up and the close.
DeviceTypeOK ==
    /\ TypeOK
    /\ uri \in {"file", "v4l2"}
    /\ kernel \in [Threads -> [fds : Nat, maps : Nat]]
    /\ \A t \in Threads :
           LET s == source[t] IN
           /\ s.state \in {"none", "opened", "mapping", "mapped", "good", "over", "bad"}
           /\ s.driver \cup ({s.out} \ {0}) \subseteq 1 .. s.m_buffers
           /\ s.m_buffers <= Buffers /\ s.pos \in 1 .. Len(s.m_pending) + 1
           /\ s.m_streaming <=> s.state \in {"good", "over"} /\ s.m_fd
           /\ s.m_streaming => s.m_buffers = Buffers
           /\ s.state # "none" => src[t] \in {"open", "read", "config"}

DeviceInit ==
    /\ Init
    /\ \/ uri = "file" /\ input \in Files
       \/ uri = "v4l2" /\ input \in Filled
    /\ source = [t \in Threads |-> NoSource]
    /\ kernel = [t \in Threads |-> [fds |-> 0, maps |-> 0]]

Becomes(t, s) == source' = [source EXCEPT ![t] = s]
Turns(t, from, s) == source[t].state = from /\ Becomes(t, s)

Holds(t, fds, maps) == kernel' = [kernel EXCEPT ![t] = [fds |-> fds, maps |-> maps]]

\* close_device(), also called by the destructor.
\* Wrong variant: only the buffers that are with the driver are unmapped.
CloseDeviceQueued(t) ==
    Holds(t, kernel[t].fds - (IF source[t].m_fd THEN 1 ELSE 0),
             kernel[t].maps - Cardinality(source[t].driver))
CloseDevice(t) ==
    Holds(t, kernel[t].fds - (IF source[t].m_fd THEN 1 ELSE 0),
             kernel[t].maps - source[t].m_buffers)

-----------------------------------------------------------------------------
\* create_h264_source(): while the thread is at "open".
Opening(t, kind) == src[t] = "open" /\ uri = kind /\ UNCHANGED <<vars, inputVars>>
InitFails(t) == Becomes(t, [NoSource EXCEPT !.state = "bad"]) /\ CloseDevice(t)

\* H264Parser reads the whole file; one that is missing or empty is an error.
OpenFile(t) ==
    /\ Opening(t, "file") /\ source[t].state = "none"
    /\ \/ Becomes(t, [NoSource EXCEPT !.state = "good", !.m_pending = input.bytes,
                                      !.units = input.units])
       \/ Becomes(t, [NoSource EXCEPT !.state = "bad"])
    /\ UNCHANGED kernel

OpenDevice(t) ==
    /\ Opening(t, "v4l2") /\ source[t].state = "none"
    /\ \/ /\ Becomes(t, [NoSource EXCEPT !.state = "opened", !.m_fd = TRUE])
          /\ Holds(t, kernel[t].fds + 1, kernel[t].maps)
       \/ Becomes(t, [NoSource EXCEPT !.state = "bad"]) /\ UNCHANGED kernel

\* VIDIOC_QUERYCAP, VIDIOC_S_FMT and VIDIOC_REQBUFS.
RequestBuffers(t) ==
    /\ Opening(t, "v4l2") /\ source[t].state = "opened"
    /\ \/ Becomes(t, [source[t] EXCEPT !.state = "mapping"]) /\ UNCHANGED kernel
       \/ InitFails(t)

\* VIDIOC_QUERYBUF with mmap(), then VIDIOC_QBUF, buffer by buffer.
MapBuffer(t) ==
    /\ Opening(t, "v4l2") /\ source[t].state = "mapping"
    /\ \/ /\ Becomes(t, [source[t] EXCEPT !.state = "mapped", !.m_buffers = @ + 1])
          /\ Holds(t, kernel[t].fds, kernel[t].maps + 1)
       \/ InitFails(t)

\* Wrong variant: the last buffer is left out.
QueueAllButLast(t) ==
    /\ Opening(t, "v4l2") /\ source[t].state = "mapped"
    /\ source[t].m_buffers \notin source[t].driver
    /\ \/ /\ Becomes(t, [source[t] EXCEPT !.driver = @ \cup {source[t].m_buffers},
                             !.state = IF source[t].m_buffers + 1 < Buffers THEN "mapping" ELSE @])
          /\ UNCHANGED kernel
       \/ InitFails(t)
QueueBuffer(t) ==
    /\ Opening(t, "v4l2") /\ source[t].state = "mapped"
    /\ source[t].m_buffers \notin source[t].driver
    /\ \/ /\ Becomes(t, [source[t] EXCEPT !.driver = @ \cup {source[t].m_buffers},
                             !.state = IF source[t].m_buffers < Buffers THEN "mapping" ELSE @])
          /\ UNCHANGED kernel
       \/ InitFails(t)

StreamOn(t) ==
    /\ Opening(t, "v4l2") /\ source[t].state = "mapped"
    /\ source[t].m_buffers \in source[t].driver
    /\ \/ Becomes(t, [source[t] EXCEPT !.state = "good", !.m_streaming = TRUE]) /\ UNCHANGED kernel
       \/ InitFails(t)

\* The loop looks at good().
SourceBad(t) ==
    /\ OpenFails(t) /\ Turns(t, "bad", NoSource)
    /\ UNCHANGED <<inputVars, kernel>>

SourceGood(t) ==
    /\ OpenSucceeds(t) /\ source[t].state = "good"
    /\ UNCHANGED deviceVars

-----------------------------------------------------------------------------
\* next_nal(), while the thread is at "read" and has no NAL in hand.
Scanning(t) == src[t] = "read" /\ source[t].state = "good" /\ ~source[t].hand /\ source[t].out = 0
Exhausted(t) == source[t].pos > Len(source[t].m_pending)

NextTurn(t) ==
    IF uri = "file" THEN FileTurn(source[t].m_pending, source[t].pos)
                    ELSE PendingTurn(source[t].m_pending, source[t].pos)

Scan(t) ==
    /\ Scanning(t) /\ ~Exhausted(t)
    /\ \E r \in {NextTurn(t)} :
           Becomes(t, [source[t] EXCEPT !.m_pending = r.buffer, !.pos = r.pos, !.hand = r.nal # <<>>,
                           !.got = IF r.nal = <<>> THEN @ ELSE Append(@, r.nal)])
    /\ UNCHANGED <<vars, inputVars, kernel>>

\* VIDIOC_DQBUF and the copy into m_pending.
Dequeue(t, i) ==
    /\ uri = "v4l2" /\ Scanning(t) /\ Exhausted(t)
    /\ i \in source[t].driver
    /\ \E o \in Unusual \cup {input} :
           Becomes(t, [source[t] EXCEPT !.driver = @ \ {i}, !.out = i, !.m_pending = o.bytes,
                           !.pos = 1, !.units = o.units, !.got = <<>>])
    /\ UNCHANGED <<vars, inputVars, kernel>>

\* VIDIOC_QBUF; an empty buffer ends the source.
\* Wrong variant: the driver does not get the buffer back.
RequeueNothing(t) ==
    /\ src[t] = "read" /\ source[t].out # 0
    /\ Becomes(t, [source[t] EXCEPT !.out = 0,
                      !.state = IF source[t].m_pending = <<>> THEN "over" ELSE @])
    /\ UNCHANGED <<vars, inputVars, kernel>>
Requeue(t) ==
    /\ src[t] = "read" /\ source[t].out # 0
    /\ Becomes(t, [source[t] EXCEPT !.out = 0, !.driver = @ \cup {source[t].out},
                      !.state = IF source[t].m_pending = <<>> THEN "over" ELSE @])
    /\ UNCHANGED <<vars, inputVars, kernel>>

Destroyed(t) == Becomes(t, NoSource) /\ CloseDevice(t) /\ UNCHANGED inputVars

\* next_nal() returns false: end of the file, VIDIOC_DQBUF or VIDIOC_QBUF
\* failed, or the buffer was empty.  The loop comes round and opens anew.
SourceOver(t) ==
    /\ SourceEnds(t) /\ ~source[t].hand
    /\ Exhausted(t) \/ source[t].out # 0      \* (an empty buffer is exhausted)
    /\ Destroyed(t)

\* next_nal() has delivered: the loop looks at the stop flag, then at the NAL.
StopWithNal(t) == StopSeen(t) /\ source[t].hand /\ Destroyed(t)

LetGo(t) == source[t].hand /\ Becomes(t, [source[t] EXCEPT !.hand = FALSE]) /\ UNCHANGED <<inputVars, kernel>>
ConfigInHand(t) == ConfigNal(t) /\ LetGo(t)
OtherNal(t) == src[t] = "read" /\ ~m_flv_stop_requested /\ LetGo(t) /\ UNCHANGED vars

-----------------------------------------------------------------------------
DeviceNext(t) ==
    \/ OpenFile(t) \/ OpenDevice(t) \/ RequestBuffers(t) \/ MapBuffer(t) \/ QueueBuffer(t)
    \/ StreamOn(t) \/ SourceBad(t) \/ SourceGood(t)
    \/ Scan(t) \/ (\E i \in 1 .. Buffers : Dequeue(t, i)) \/ Requeue(t) \/ SourceOver(t)
    \/ StopWithNal(t) \/ ConfigInHand(t) \/ OtherNal(t)
    \/ (LoopTop(t) \/ PublishConfig(t) \/ ThreadEnds(t)) /\ UNCHANGED deviceVars

AllNext ==
    \/ (\E c \in Controllers : StartNext(c) \/ StopNext(c)) /\ UNCHANGED deviceVars
    \/ \E t \in Threads : DeviceNext(t)

\* The driver and the files answer; which NAL comes is left open.
DeviceSpec ==
    /\ DeviceInit /\ [][AllNext]_allVars
    /\ \A c \in Controllers : WF_allVars(Finishes(c) /\ UNCHANGED deviceVars)
    /\ \A t \in Threads : WF_allVars(DeviceNext(t))

-----------------------------------------------------------------------------
\* Nothing is left behind: what the process holds are the descriptors and
\* mappings of the sources that exist, however far a set-up came before it
\* failed, and whoever starts and stops (init_device(), close_device()).
NothingLeftBehind ==
    \A t \in Threads : kernel[t] = [fds |-> IF source[t].m_fd THEN 1 ELSE 0,
                                    maps |-> source[t].m_buffers]

\* next_nal() waits in VIDIOC_DQBUF only while the driver has every buffer, so
\* the wait is for the encoder and never for a buffer that was not given back.
DriverHasBuffers ==
    \A t \in Threads :
        source[t].m_streaming /\ source[t].out = 0 => source[t].driver = 1 .. Buffers

\* The NALs delivered are the units that were put in, in order, each without
\* start code and padding, and all of them once the buffer is used up.
NalsAreUnits ==
    \A t \in Threads :
        LET s == source[t] IN
        /\ IsPrefix(s.got, s.units)
        /\ s.state = "good" /\ Exhausted(t) => s.got = s.units
=============================================================================
