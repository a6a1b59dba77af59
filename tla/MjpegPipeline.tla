--------------------------- MODULE MjpegPipeline ---------------------------
(***************************************************************************)
(* From the camera to the /mjpeg clients: the capture thread               *)
(* (src/v4l2_capture.cpp) cuts the driver's buffers into JPEG images and   *)
(* publishes each one in g_frame (src/shared_buffer.c), the broadcast      *)
(* thread (mjpeg_stream_thread() of src/stream_manager.cpp) waits for a    *)
(* new sequence number, copies the frame and cuts it into parts again.     *)
(* The driver cuts the camera's byte stream where it likes, between the    *)
(* two bytes of a marker too, and the frame that is published last wins.   *)
(* A section under g_frame.lock, with the scan before it, is one action.   *)
(***************************************************************************)
EXTENDS Naturals, SequencesExt

CONSTANTS Frames,       \* number of images the camera produces
          Small,        \* those of them that are one byte shorter
          BufferBytes,  \* sizes a driver buffer may have
          MinFrame,     \* MIN_MJPEG_FRAME_SIZE
          MaxFrame,     \* MAX_FRAME_SIZE
          MaxAssembling \* kMaxAssemblingSize

ASSUME PipelineAssumption ==
    /\ Frames \in Nat /\ Small \subseteq 1 .. Frames /\ BufferBytes \subseteq Nat \ {0}
    /\ {MinFrame, MaxFrame, MaxAssembling} \subseteq Nat \ {0}
    /\ MaxFrame <= MaxAssembling

\* A byte knows its image.  SOI is ff d8, EOI is ff d9; byte stuffing keeps
\* both out of the data between them.
Byte(b, f) == [b |-> b, of |-> f]
Bytes(f) == IF f \in Small THEN <<"ff", "d8", "ff", "d9">> ELSE <<"ff", "d8", "xx", "ff", "d9">>
Jpeg(f) == [i \in DOMAIN Bytes(f) |-> Byte(Bytes(f)[i], f)]
IsMarker(s, i, m) == i < Len(s) /\ s[i].b = "ff" /\ s[i + 1].b = m

\* What leaves the camera: the end of an image nobody saw the start of, then
\* whole ones.
Camera == Tail(Tail(Jpeg(0))) \o FlattenSeq([f \in 1 .. Frames |-> Jpeg(f)])

VARIABLES
    pixel_format,   \* of g_frame, what VIDIOC_S_FMT agreed on: "mjpeg" or "raw"
    delivered,      \* bytes of Camera the driver has delivered
    cap,            \* capture thread: "open", "format", "buffers", "dqbuf", "scan" or "ended"
    buf, last,      \* the dequeued buffer and its V4L2_BUF_FLAG_LAST
    cursor,         \* next byte of buf to scan
    mjpeg_frame,    \* image under assembly
    data, sequence, \* g_frame
    reader,         \* broadcast thread: "check", "waiting" or "scan"
    last_sequence, chunk, position, assembling,
    parts           \* what was broadcast so far

camera == <<pixel_format, delivered>>
capture == <<cap, buf, last, cursor, mjpeg_frame>>
frame == <<data, sequence>>
stream == <<reader, last_sequence, chunk, position, assembling, parts>>
vars == <<camera, capture, frame, stream>>

TypeOK ==
    /\ pixel_format \in {"none", "mjpeg", "raw"} /\ delivered \in 0 .. Len(Camera)
    /\ cap \in {"open", "format", "buffers", "dqbuf", "scan", "ended"} /\ last \in BOOLEAN
    /\ cap \in {"dqbuf", "scan"} => pixel_format # "none"
    /\ cursor \in 1 .. Len(buf) + 1
    /\ Len(mjpeg_frame) <= MaxFrame
    /\ Len(data) <= MaxFrame
    /\ sequence \in Nat /\ last_sequence \in 0 .. sequence
    /\ reader \in {"check", "waiting", "scan"}
    /\ position \in 1 .. Len(chunk) + 1
    /\ Len(assembling) <= MaxAssembling

Init ==
    /\ pixel_format = "none" /\ delivered = 0
    /\ cap = "open" /\ buf = <<>> /\ last = FALSE /\ cursor = 1 /\ mjpeg_frame = <<>>
    /\ data = <<>> /\ sequence = 0
    /\ reader = "check" /\ last_sequence = 0 /\ chunk = <<>> /\ position = 1
    /\ assembling = <<>> /\ parts = <<>>

-----------------------------------------------------------------------------
\* find_jpeg_marker(): positions of a marker from a byte on.
Markers(s, from, m) == {i \in from .. Len(s) : IsMarker(s, i, m)}

\* Where the image under assembly goes on in s: at the next SOI if none is
\* begun, else at once.  0 when there is no SOI.
StartOf(begun, s, from) ==
    IF begun # <<>> THEN from
    ELSE IF Markers(s, from, "d8") = {} THEN 0 ELSE Min(Markers(s, from, "d8"))

\* The byte after the EOI, or after the last byte.
EndOf(s, from) ==
    IF Markers(s, from, "d9") = {} THEN Len(s) + 1 ELSE Min(Markers(s, from, "d9")) + 2

\* publish_frame(): the lock, the copy, the number, the broadcast; an image
\* that is suspiciously small is not published.
Publishes(f) == Len(f) \in MinFrame .. MaxFrame

\* Wrong variant: the waiting thread is not woken.
PublishSilently(f) ==
    IF Publishes(f) THEN data' = f /\ sequence' = sequence + 1 /\ UNCHANGED reader
                    ELSE UNCHANGED <<frame, reader>>
Publish(f) ==
    IF Publishes(f)
    THEN /\ data' = f /\ sequence' = sequence + 1
         /\ reader' = IF reader = "waiting" THEN "check" ELSE reader
    ELSE UNCHANGED <<frame, reader>>

-----------------------------------------------------------------------------
\* The capture thread.  A device that does not open, or whose buffers cannot be
\* had or mapped, ends it, and the server goes on without images.
SetUp(from, to) ==
    /\ cap = from /\ cap' \in {to, "ended"}
    /\ UNCHANGED <<delivered, buf, last, cursor, mjpeg_frame, frame, stream>>

OpenCamera == SetUp("open", "format") /\ UNCHANGED pixel_format

\* MJPEG, else NV12, else YUYV; the last is taken for granted when all fail.
ChooseFormat ==
    /\ SetUp("format", "buffers") /\ cap' # "ended"
    /\ pixel_format' \in {"mjpeg", "raw"}

\* VIDIOC_REQBUFS, the mappings and VIDIOC_STREAMON.
StartCapture == SetUp("buffers", "dqbuf") /\ UNCHANGED pixel_format

Dequeue(n, flag) ==
    /\ cap = "dqbuf" /\ delivered + n <= Len(Camera)
    /\ buf' = SubSeq(Camera, delivered + 1, delivered + n) /\ delivered' = delivered + n
    /\ last' = flag /\ cursor' = 1 /\ cap' = "scan"
    /\ UNCHANGED <<pixel_format, mjpeg_frame, frame, stream>>

\* Back to VIDIOC_QBUF with what is assembled so far.
Requeue(assembled) ==
    /\ mjpeg_frame' = assembled
    /\ cap' = "dqbuf" /\ buf' = <<>> /\ last' = FALSE /\ cursor' = 1

SkipBuffer ==
    /\ cap = "scan" /\ pixel_format = "mjpeg"
    /\ cursor > Len(buf) \/ StartOf(mjpeg_frame, buf, cursor) = 0
    /\ Requeue(mjpeg_frame)
    /\ UNCHANGED <<camera, frame, stream>>

\* One turn of the loop over the buffer.
\* (FitsAlways: wrong variant without the test of the size.)
FitsAlways(f) == TRUE
Fits(f) == Len(f) <= MaxFrame
ScanStart == StartOf(mjpeg_frame, buf, cursor)
ScanEnd == EndOf(buf, ScanStart)
HasEnd == Markers(buf, ScanStart, "d9") # {}
Assembled == mjpeg_frame \o SubSeq(buf, ScanStart, ScanEnd - 1)
Scanning == cap = "scan" /\ pixel_format = "mjpeg" /\ cursor <= Len(buf) /\ ScanStart # 0

DropOversized ==
    /\ Scanning /\ ~Fits(Assembled)
    /\ Requeue(<<>>)
    /\ UNCHANGED <<camera, frame, stream>>

\* Without an EOI the image goes on in the next buffer, unless the driver
\* says that there is none.
ScanOpen ==
    /\ Scanning /\ Fits(Assembled) /\ ~HasEnd
    /\ Requeue(IF last THEN <<>> ELSE Assembled)
    /\ UNCHANGED <<camera, frame, stream>>

ScanComplete ==
    /\ Scanning /\ Fits(Assembled) /\ HasEnd
    /\ Publish(Assembled)
    /\ mjpeg_frame' = <<>> /\ cursor' = ScanEnd
    /\ UNCHANGED <<camera, cap, buf, last, last_sequence, chunk, position, assembling, parts>>

\* Any other pixel format is published buffer by buffer.
PublishRaw ==
    /\ cap = "scan" /\ pixel_format = "raw"
    /\ IF Len(buf) <= MaxFrame
       THEN /\ data' = buf /\ sequence' = sequence + 1
            /\ reader' = IF reader = "waiting" THEN "check" ELSE reader
       ELSE UNCHANGED <<frame, reader>>
    /\ Requeue(<<>>)
    /\ UNCHANGED <<camera, last_sequence, chunk, position, assembling, parts>>

-----------------------------------------------------------------------------
\* The broadcast thread.
Wait ==
    /\ reader = "check" /\ sequence = last_sequence
    /\ reader' = "waiting"
    /\ UNCHANGED <<camera, capture, frame, last_sequence, chunk, position, assembling, parts>>

\* pthread_cond_wait() may return for no reason.
WakeSpuriously ==
    /\ reader = "waiting"
    /\ reader' = "check"
    /\ UNCHANGED <<camera, capture, frame, last_sequence, chunk, position, assembling, parts>>

\* Wrong variant: the format of the frame is not looked at.
AnyFormat == TRUE
IsJpeg == pixel_format = "mjpeg"

CopyFrame ==
    /\ reader = "check" /\ sequence # last_sequence
    /\ last_sequence' = sequence
    /\ IF IsJpeg
       THEN chunk' = data /\ position' = 1 /\ reader' = "scan"
       ELSE UNCHANGED <<chunk, position, reader>>
    /\ UNCHANGED <<camera, capture, frame, assembling, parts>>

PartStart == StartOf(assembling, chunk, position)
PartEnd == EndOf(chunk, PartStart)
Part == assembling \o SubSeq(chunk, PartStart, PartEnd - 1)
Cutting == reader = "scan" /\ position <= Len(chunk) /\ PartStart # 0

\* The chunk is used up, or holds no further SOI.
ChunkDone ==
    /\ reader = "scan" /\ (position > Len(chunk) \/ PartStart = 0)
    /\ reader' = "check" /\ chunk' = <<>> /\ position' = 1
    /\ UNCHANGED <<camera, capture, frame, last_sequence, assembling, parts>>

\* A part is broadcast when its EOI is there; without it the assembly waits
\* for the next chunk, and one that is too large is forgotten.
CutPart ==
    /\ Cutting
    /\ position' = PartEnd
    /\ IF Len(Part) > MaxAssembling
       THEN assembling' = <<>> /\ UNCHANGED parts
       ELSE IF Markers(chunk, PartStart, "d9") = {}
       THEN assembling' = Part /\ UNCHANGED parts
       ELSE assembling' = <<>> /\ parts' = Append(parts, Part)
    /\ UNCHANGED <<camera, capture, frame, reader, last_sequence, chunk>>

-----------------------------------------------------------------------------
CaptureStep == SkipBuffer \/ DropOversized \/ ScanOpen \/ ScanComplete \/ PublishRaw
ReaderStep == Wait \/ CopyFrame \/ ChunkDone \/ CutPart

Next ==
    \/ OpenCamera \/ ChooseFormat \/ StartCapture
    \/ \E n \in BufferBytes, flag \in BOOLEAN : Dequeue(n, flag)
    \/ CaptureStep \/ ReaderStep \/ WakeSpuriously

Spec == Init /\ [][Next]_vars

\* Both threads run; whether the camera delivers is left open, and waiting
\* threads need not wake without a reason.
FairSpec == Spec /\ WF_vars(CaptureStep) /\ WF_vars(ReaderStep)

-----------------------------------------------------------------------------
\* Every part sent to the clients is one whole image of the camera, in the
\* order they were taken and each at most once: markers that the driver cut in
\* two, images that ran together in a buffer, raw pixels and frames that the
\* broadcast thread was too slow for never show.
PartsAreImagesInOrder ==
    /\ \A i \in DOMAIN parts : \E f \in 1 .. Frames : parts[i] = Jpeg(f)
    /\ \A i, j \in DOMAIN parts : i < j => parts[i][1].of < parts[j][1].of

\* A published frame is looked at, or a newer one in its place: the broadcast
\* thread does not sleep over a signal that came before its wait.
FrameIsSeen ==
    \A n \in 1 .. Frames : sequence = n ~> last_sequence >= n
=============================================================================
