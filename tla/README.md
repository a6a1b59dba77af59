# A verification development for webserver_camera

The repository is a C++11 server for a camera board: an epoll HTTP server with a
pool of worker threads that also pushes live video, MJPEG images as
`multipart/x-mixed-replace` on `/mjpeg` and H.264 as HTTP-FLV on `/live.flv`.
This directory holds TLA+ models of its concurrent and stateful parts, TLC runs
that check them on small instances, and proofs, checked by TLAPS, about the
worker pool, the connection slot, the HTTP exchange, the send queue of a
streaming client, the FLV source with its device, and the FLV feed with its
clients.

Paths below are relative to the repository, as in `PROJECT.json`
(`src/src/http_conn.cpp` is the server's `src/http_conn.cpp`). `PROJECT.json`
lists components, runs, findings, hazards and theorems, and maps every
definition that models code to the lines it models.

## 1. Inventory of the system

Threads of the running server: **main** (epoll loop), the pool's **workers**,
the **MJPEG capture** thread, the **MJPEG broadcast** thread, and the **FLV
source** thread.

| Component (files) | State | Operations | Interacts with |
|---|---|---|---|
| Worker pool (`include/threadpool.h`, `include/locker.h`) | request queue, its lock, a counting semaphore, `m_stop`, the threads | constructor (may fail half way), `append`, `run`, destructor | main appends and destroys; `run` calls `http_conn::process` |
| Event loop and connection slot (`src/main.cpp`, `src/http_conn.cpp`) | `users[fd]`: `m_sockfd`, stream type, response and read buffer; epoll's one-shot interest; `m_user_count` | accept, the epoll dispatch, `read`, `write`, `process`, `close_conn`, `init` | one object is reused by every connection that gets the same descriptor; main, workers and broadcasters all call into it |
| Send queue of a client (`http_conn::enqueue_packet`, `enqueue_flv_packet`, `write_stream`, `notify_write`) | `m_send_queue`, `m_send_offset`, `m_wait_flv_key_frame` under `m_send_lock` | enqueue with the drop policies, short writes, waking main by `EPOLLOUT` | filled by workers (headers) and broadcasters, drained by main |
| HTTP parser and responses (`http_conn.cpp`) | read buffer and its three indices, state of the state machine, `Content-Length`, keep-alive; write buffer, the two vectors of `writev`, the mapped file | `read`, `process_read`, `do_request`, `process_write`, `build_json_response`, `write`, `unmap`, `init` | main reads, a worker parses and fills the response, main writes |
| Stream manager (`src/stream_manager.cpp`) | client lists, counters, muxer, flags of the FLV source | add/remove client, broadcast, start/stop source, `status_json` | everything above |
| FLV source life cycle (`stream_manager.cpp:160-223, 457-587`) | `started`, `stop_requested`, `running`, `ready`, thread handle | `start_flv_source`, `stop_flv_source`, the thread | called by several workers and main |
| MJPEG capture and broadcast (`src/v4l2_capture.cpp`, `shared_buffer.*`, `mjpeg_stream_thread`) | image under assembly; `g_frame` with a sequence number, lock and condition variable | cut driver buffers into JPEGs, publish, wait, copy, cut again, broadcast | capture -> `g_frame` -> broadcast -> clients |
| FLV feed (`run_flv_source`, `src/h264_parser.cpp`, `src/flv_muxer.cpp`) | access unit assembler, SPS/PPS, `config_dirty`, timestamps | push NAL, flush, announce the configuration, make tags | source thread -> clients |
| Annex-B scan and H.264 sources (`src/h264_parser.cpp`, `src/h264_source.cpp`) | a file or a copied encoder buffer and a position in it; descriptor, mapped buffers, stream on or off | open with all its failures, map and queue buffers, `next_nal` with dequeue and requeue, `close_device` | opened, read and destroyed by the FLV source thread |
| Converter tool, RTSP/HLS, encoder stub, timers, pages, load generator | | | not modelled, see section 8 |

What is hard here:

* **Concurrency.** `EPOLLONESHOT` is the only thing that keeps two threads out
  of one `http_conn`, and it is armed from four places, one of which
  (`notify_write`) is reached by threads that do not own the connection. Closes
  come from main and workers. The stream manager takes its lock in pieces around
  `pthread_create`, `pthread_join` and calls into `http_conn`.
* **Failure.** Short writes in the middle of a packet, peers that vanish or stop
  reading, a `pthread_create` that fails half way, a source that ends, does not
  open or fails in the middle of its set-up.
* **Ordering.** Response header before frames, configuration before pictures, a
  key frame after a reset, pictures and images never mixed, whatever buffers cut
  them.
* **Limits.** The pool's queue, a client's queue, the read and write buffers,
  frame sizes, the few buffers of the driver.

What makes each part correct:

* pool: no accepted request sleeps, the queue is bounded, a shutdown reaches
  every thread and frees nothing early;
* slot: no foreign descriptor is closed, no connection is forgotten, one thread
  at a time, counters that match;
* send queue: whole packets, in order, newest image, decodable FLV, bounded, and
  what waits is sent;
* parser: verdicts that do not depend on how TCP cuts the bytes; indices that
  stay in the buffer; a kept connection that starts clean; one whole reply to each
  request, and the connection kept when that request asks for it;
* responses: whole and in order whatever `writev` takes, with the announced
  length; no mapping lost;
* FLV source: one thread, flags that tell the truth, stops that return (the first
  two hold only as long as the calls do not overlap, section 3);
* MJPEG: only whole JPEGs, in order, none slept over;
* H.264 source: the units as they were written, every buffer given back, nothing
  left open or mapped;
* FLV feed: one picture per tag, none lost, its configuration announced, and
  for every client, whenever it joins: pictures from a key frame on, behind the
  configuration they need.

`PROJECT.json` lists under "hazards" the places in the code where these can go
wrong in a way a test would hardly reach, with the properties that watch them.

## 2. Modules

| Module | Models | State <-> code | Actions <-> code |
|---|---|---|---|
| `TaskPool` | what the pool promises | requests waiting, running per worker, closed | `Accept`, `Start`, `Finish`, `Close` |
| `ThreadPool` | the pool in detail | same names; `owner` is where constructor, `append` or destructor is; `pc[w]` where `run` is | one action per section under the lock, per `sem` call, per `pthread_create`/`join` |
| `ThreadPoolProofs` | theorems about `ThreadPool` | | |
| `SendQueue` | pure operators: the two enqueue functions | a queue, the offset of its head, the wait flag | `EnqueuePacket`, `EnqueueFlv` |
| `StreamConn` | one streaming client: queue, epoll interest, worker, broadcaster, main, peer | same names; `armed` is the one-shot interest; `wire` is what the peer got | `Start*`, `Parse*`, `EnqueueToClient`, `NotifyClient`, `Account`, `Event*`, `Write*`, `CloseSocket` |
| `StreamConnProofs` | theorems about `SendQueue` and `StreamConn` | | |
| `ConnSlot` | one `users[]` element over several connections | object fields as flags; `kernel` is who has the descriptor; `at[t]` where each thread is | accept, the dispatch, `process` in steps, `close_conn` in its five sections, broadcasts |
| `ConnSlotProofs` | theorems about `ConnSlot` | | |
| `HttpText` | pure operators: what the bytes of a read buffer say when they are read as a whole; `atol` into an `int` | a sequence of symbols, a line's text being one | `Verdict`, `Replies`, `AsksToKeep`, `BodyHasNoEnd` |
| `RequestReply` | what a client may expect of a connection | the bytes since the last reply, what is replied, how much is owed | `Receive`, `Answer`, `Stream`, `Refuse`, `Send`, `Complete`, `Fail`, `Undefined` |
| `HttpParser` | `read`, `process_read`, `process`, write and `init` of a plain connection | same names, indices from 0 | `Read`, one action per case of the loop's body, `LeaveLoop`, `Write` |
| `HttpParserProofs` | theorems about `HttpParser` | | |
| `HttpExchange` | the parser together with responses, mapping and `writev` | `m_write_buf`, `m_iv`, `m_iv_count`, the two byte counters, `m_file_address`; `wire` is what the client got, `due` what the responses begun say | `Answering` (a verdict and its response), `WriteSome`, `WriteFails` |
| `HttpExchangeProofs` | theorems about `HttpExchange` | | |
| `FlvSource` | start/stop/run of the FLV source | same flags; `ctl[c]`, `src[t]` program points | one action per section under the manager's lock and per pthread call |
| `MjpegPipeline` | capture -> `g_frame` -> broadcast, byte by byte | same names; `parts` is what was broadcast | `OpenCamera`, `ChooseFormat`, `StartCapture`, `Dequeue`, scan steps, `Publish*`, `Wait`, `CopyFrame`, `CutPart` |
| `MjpegPipelineProofs` | theorems about `MjpegPipeline` | | |
| `FlvFeed` | NALs -> pictures -> tags | assembler, muxer and manager fields; `told`, `sent` are the last tags | `ParameterSet`, `PictureNal`, `Reopen`, and the sections under the lock they leave in `todo`: `StoreConfig`, `WithdrawStream`, the broadcasts |
| `FlvBroadcast` | the feed with several clients | client list, snapshot under way, each client's queue, wait flag and descriptor, the worker that admits it | `AskReady`, `TakeSequenceHeader`, `EnqueueHeaders`, `AddClient`; `Snapshot`, `EnqueueTo`, `EndBroadcast`; `Drain`, `Close`, `RemoveClient` |
| `FlvBroadcastProofs` | theorems about `FlvFeed` and `FlvBroadcast` | | |
| `AnnexB` | pure operators: the two start-code scans | a buffer and a position | `FileTurn`, `PendingTurn` |
| `FlvDevice` | `FlvSource` with the source each thread opens | fields of `V4L2H264Source` and `H264Parser`; `kernel` counts the descriptors and mappings the process holds for each source; `units` is what was put in, `at` where it lies | one action per step of the set-up that leaves something behind, per turn of a scan, for dequeue and requeue; `SourceOver`, `StopWithNal` |
| `FlvDeviceProofs` | theorems about `AnnexB`, `FlvSource` and `FlvDevice` | | |

How they compose: `StreamConn` and `FlvBroadcast` instantiate the operators of
`SendQueue`; `FlvBroadcast` extends `FlvFeed`, whose broadcasts it takes apart
client by client; `FlvDevice` extends `FlvSource` (each of its steps is one of
`FlvSource`'s or leaves its variables alone) and `AnnexB`; `HttpExchange` extends
`HttpParser`, both read a request by the operators of `HttpText`, and `HttpExchange`
instantiates `RequestReply`, whose variables are functions of its own (phases of the
parser are one stage of the client, the bytes owed are those due and not sent);
`RequestReply` has no parser, vectors or counters. `ThreadPool` instantiates
`TaskPool` under a refinement mapping. The other components meet at interfaces
that each module states: `ConnSlot` knows of the send queue only whether it is
empty, `StreamConn` knows of the feeds only the classes of the packets,
`FlvDevice` knows of the feed only that there is a configuration to announce,
`HttpParser` knows of the pool only that it takes or refuses a connection. Each
`MC...` module names what its configurations substitute for the constants.

A definition commented as a *wrong variant* is not used by any specification. It
is a plausible bug in the code under the definition that follows it, kept to
show that the property named in `PROJECT.json` ("mutants") would catch it.

### Notes on the translation

* **ThreadPool.** `sem_wait` may be interrupted, which `run()` ignores, so
  wake-ups without a post exist (`WaitInterrupted`, bounded by `MaxInterrupts`).
  A constructor that fails at the n-th thread runs the same stop, post and join
  steps as the destructor. Requests are appended by one thread, as in main.
* **SendQueue/StreamConn.** A packet has an id, a class (response header,
  configuration, key, inter, JPEG) and a size in units. The FLV reset clears the
  whole queue, the packet that is half sent included, as
  `enqueue_flv_packet` does; `InterFollowsReference` is about what follows.
  A client may send further bytes: an empty line makes `process` start the
  stream again (`ParseBlank`), bytes without a line end make it arm `EPOLLIN`
  only (`ParsePartial`). Each is given to one kind of stream in the run, and the
  properties they legitimately change say so (`StartedOnce`). While such a client
  has a worker in `process`, the worker is one (`TakeTask`): a second one, which
  `slot_oneshot` shows, would start the stream again, which `StartedOnce` leaves
  out anyway. Main may close at any event, because a `read()` fails or `append()`
  refuses, whether the peer has left or not.
* **ConnSlot.** A descriptor number returns to the kernel with `close()` and may
  be accepted again before the closing thread has finished `remove_client` and
  the counters. `modfd` on a closed descriptor fails silently (`Arm`).
* **HttpParser.** The NULs the parser writes over line ends are left out: they
  replace bytes behind `m_checked_idx`, which nothing reads again. The parse of
  URL, version and header text is reduced to the symbols a line can be;
  `do_request` may answer anything its URL allows. `Content-Length` is not
  reduced to a natural number: `ContentLength` gives the number that `atol`
  returns for a text, `m_content_length` is that number as an `int` (`ToInt`),
  negative and wrapped ones included, and the sum of line 409 may wrap or not when
  it leaves the range of an `int` (`Sums`; signed overflow is undefined). A
  negative length puts the NUL of line 411 in front of the body, where it may
  cut the URL short, so that any URL may be answered (`Named`). When the NUL would
  lie outside `m_read_buf` the phase is `"undefined"`, and the model says nothing
  of what follows: the code does not check the length, and the properties claim no
  more than holds with that.
* **HttpExchange.** A response is never read by the server, so a header line is
  one symbol, and so is a byte of a body: `WRITE_BUFFER_SIZE` counts both. A
  response is appended at `m_write_idx`, which `init()` or, for JSON,
  `build_json_response()` has set to 0 (`Written`). A
  `writev` may take any part; `EAGAIN` and the next `EPOLLOUT` are the time
  between two `WriteSome`. `add_content_length` takes an `int`, so a size above
  `MaxInt` is announced wrapped; `ResponsesAreWhole` leaves that one line out. The
  branch of `write()` for `m_bytes_to_send == 0` is left out: main calls `write()`
  only after a worker has armed `EPOLLOUT` for a response, which has at least a
  header.
* **FlvSource.** A joined thread is "unborn" again, so its id can be reused. Any
  number of controllers call start and stop; nothing in the code makes their calls
  wait for each other. `OneCaller` says that no two are under way at once, and
  `CallsInTurnAreSafe` claims one source thread and true flags only for behaviours in
  which that is always so. Without it two workers can both pass the check of
  `m_flv_thread_started` and create a thread each; and a start between the sections
  of a stop that found nothing to join leaves a source that the flags deny.
* **MjpegPipeline.** Images have four or five bytes, `ff d8 .. ff d9`; the
  driver may cut anywhere, also between the two bytes of a marker. It loses no
  bytes (see the hazards for what happens when it does). A set-up that fails
  ends the capture thread for good, as in the code.
* **FlvFeed.** A NAL carries its type, picture, number of slices and the
  configuration it needs; `first` and `next` are slices with `first_mb_in_slice`
  zero or not. The encoder produces legal streams, with or without delimiters,
  with parameter sets before a key picture or not (but before the first of an
  opening), and ends anywhere. The picture that a parameter set or the end of the source
  flushes is sent without a look at `config_dirty`, as in the code.
* **FlvBroadcast.** The manager's lock is free between two broadcasts and between
  the four steps of an admission, so a client can hold an old sequence header
  when it enters the list, and a close can leave it in the list with `m_sockfd`
  -1, where every enqueue refuses it. `torn` marks the client that an
  announcement passed by, or whose queue was cleared with an announcement in it
  (the reset of `enqueue_flv_packet` drops it and then takes a key frame);
  `ConfigReachesClient` excuses that client until the next announcement and no
  other. The three enqueues of a client's headers (`EnqueueHeaders`) are one step
  here: the client is not in the list yet, so no broadcast comes between them, and
  what main may send or close in between is in `StreamConn`, which has them one by
  one. `ConfigReachesClient` also leaves out the picture that the end of the source cuts off: the
  flush (572-580) sends what there is without a look at `config_dirty`, so when the
  source ended before a changed configuration was announced, a client gets a piece
  of a picture that it cannot decode. (That this exception is needed showed when
  the proof of the property without it failed; the counterexample takes three
  openings of the source.) Packets are sent whole here; short writes are in
  `StreamConn`.
* **FlvDevice.** Every ioctl, `mmap` and `open` may fail. The scans run over real
  bytes; the two functions that call themselves to step over an empty unit take
  one turn per step. The size of a file or buffer is the length of its content.

## 3. Runs

Runs that must pass:

| Run | Question | Instance | Why that is enough |
|---|---|---|---|
| `pool` | lost wake-ups, bound, shutdown, refinement of `TaskPool`, liveness | 3 workers, queue of 2, 2 requests, 1 interrupt, creation may fail | two workers can be between `wait` and the lock while a third processes; the bound is reached; the safety part is proved for all sizes |
| `stream` | framing, order, drop policies, lost interest, drain | JPEG depth 2, FLV depth 3, packets of 2 units, socket of 3, 3 broadcast packets, 1 disturbance | a packet is cut by short writes, the FLV queue (three headers) overflows at the first broadcasts, a drop meets a packet in flight |
| `slot_plain` | one thread at a time (so responses are complete when main writes them), pipelined bytes and hang-ups handled | 2 workers, 3 connections on one number, 3 sends | a stale worker, an old event and a new connection coexist |
| `slot_streams` | descriptor ownership, count, no forgotten connection | 2 workers, 2 connections, both stream kinds, 2 sends, 2 places in the pool's queue | double closes and reuse with broadcaster, main and both workers in the object |
| `http` | chunking, indices, kept connections, whole responses, mappings, termination, refinement of `RequestReply` | read buffer of 12 symbols; 1,494 inputs: all orders of four symbols up to length 5, all heads and bodies of the listed parts, pairs of requests, lengths that are no number, negative, wrapping or the largest `int`; write buffer of 9; files of 0, 2 and 25 bytes, JSON bodies of 1 to 3, the largest `int` is 24 | every place where a read or a `writev` can cut; inputs longer than the buffer; JSON bodies of 2 and 3 do not fit the write buffer; the length 25 wraps; an empty file has no mapping; a negative length puts the NUL on the request line, on a header and outside the buffer; a kept connection is followed by one that is not to be kept |
| `source_device` | one thread and true flags under calls in turn; set-up, failures, scans, buffers, close, stops that return | 2 controllers whose calls do not overlap (`TurnSpec`), 2 threads, creation may fail; 2 driver buffers; 313 contents: up to two units behind codes with two to four zeros, empty units, units that look like the end of a code, padding, no code at all, an empty buffer | either controller may start what the other stops, and a second thread is what `OneThread` would see; a set-up fails before, between and after the two buffers; a unit is first, middle or last of its buffer. Calls that overlap are in `source_stale`; all but `CallsInTurnAreSafe` and `StopTerminates` is proved with them |
| `mjpeg_cut` | whole images, in order, none slept over | 4 images, one of them below the minimum size, driver buffers of 2, 3 and 7 bytes | buffers below, at and above an image, cut at every offset; the assembly limit is exceeded |
| `flv_feed` | one picture per tag, configuration first, none skipped; for each client configuration and key frame first | without clients 5 pictures of 1-2 slices, 2 configurations, 2 openings; with one client 3 pictures of one slice and 2 openings; with two clients 2 pictures; FLV depth 3 | every order of AUD, parameter sets, SEI and slices around a picture boundary; a client joins, overflows and leaves at every point of a configuration change; two clients are in every order in list and snapshot |

Runs that must find a violation, each a disagreement with a sentence of the
repository (`PROJECT.json`, "findings", quotes them):

| Run | What the code does |
|---|---|
| `slot_oneshot` | `notify_write` arms `EPOLLIN` while a worker owns the one-shot event, so two workers can be in `process()` of one object |
| `slot_count` | `start_mjpeg_stream` queues its header, which arms the descriptor, before `add_mjpeg_client`; main writes, fails because the peer has left, and closes in between, and then the closed client is listed and `g_frame.client_count` is too high until the slot carries a stream again |
| `source_stale` | a stop that overlaps a start leaves `m_flv_thread_started` set for a thread that is ending; `/api/start_flv` then says the source runs |
| `parser_body` | a body that comes in two reads moves `m_checked_idx` and is never recognised as complete |

Deadlock is checked in `pool`, `source_device` and `source_stale`, where somebody
can always go on or the pool says that it has terminated. The others stop when
their bounded environment has nothing more to do (all packets broadcast, all
bytes sent, all connections gone), which is not a deadlock of the program; there
the liveness properties `QueueDrains`, `PeerIsServed`, `ServerComesToRest` and
`FrameIsSeen` say that nobody waits for ever.

## 4. Bounds

Every constant that bounds a behaviour is named in its module: `MaxInterrupts`,
`MaxPackets`, `MaxExtra`, `MaxConns`, `MaxTasks`, `MaxSends`, `MaxPictures`,
`MaxConfigs`, `MaxOpenings`, `MinGop`, `Frames`, and the sets `Inputs`,
`Requests`, `Threads`, `Controllers`, `Files`, `Filled`, `Unusual`, `FileSizes`,
`ApiSizes` and `Limits` (the feed of `FlvBroadcast` is the shorter the more clients
there are: what several clients add is their order). The limits of the code (`MaxRequests`,
`FrameDepth`, `FlvDepth`, `READ_BUFFER_SIZE`, `MinFrame`, `MaxFrame`,
`MaxAssembling`, `WRITE_BUFFER_SIZE`, `MaxInt`, `Buffers`) are parameters with small values, chosen so that each limit is
reached. `MaxInt` is 24 in `http`: twice the read buffer, so that no sum of two
indices overflows but one with a large `Content-Length` does. `MinGop = 2` is an assumption on the encoder, not a bound of
convenience: with a new parameter set after every single picture and no
delimiters, the flush path of `run_flv_source` (511-520) sends a picture before
its configuration is announced, as the hazard at `stream_manager.cpp:554` says.

## 5. Fairness

* `ThreadPool`: weak fairness of every worker, of `append`'s post and of the
  shutdown steps. They are code of runnable threads; `pthread_join`,
  `sem_wait` and the lock block only through the guards in the model. Nothing is
  assumed about whether main appends or shuts down.
* `StreamConn`: weak fairness of worker, broadcaster, main and of a peer that
  stays and reads. A peer that does not read may hold its packets for ever, and
  `QueueDrains` does not claim otherwise when it is gone.
* `ConnSlot`: weak fairness of main and the workers; strong fairness of the last
  part of a response, because a response is finite and every `EPOLLOUT` means
  that the socket takes some of it. `EPOLLOUT` is ready as long as the peer is there
  (`Ready`): a peer that stays and does not read is left out.
* `HttpParser`, `HttpExchange`: weak fairness of the server; the client may stop
  sending anywhere. `WF` of the writing steps says that the client goes on reading
  or goes away: one that does neither keeps its slot, since main waits for its
  `EPOLLOUT` without a timeout.
* `FlvSource`, `FlvDevice`: weak fairness of the controllers inside a call and of
  the source threads. This needs an encoder that keeps delivering: `VIDIOC_DQBUF`
  blocks, and the stop flag is read between two NALs, so `StopTerminates` assumes
  buffers with a NAL (contents of the run have one, or end the source). An
  encoder that fills every buffer with padding only would keep `next_nal` in its
  loop for ever. The file source cannot block. That the wait is never for a
  buffer the source itself kept is `DriverHasBuffers`, without any fairness.
* `MjpegPipeline`: weak fairness of both threads; the camera may stop.

## 6. Proofs

`ThreadPoolProofs` proves, for every number of workers, every queue bound, every
set of requests and any number of interrupted waits, from the one assumption
`PoolAssumption` on the constants:

| Theorem | Property |
|---|---|
| `TypeCorrect` | `TypeOK` |
| `QueueIsBounded` | `QueueBound` (the run checks it through `ImplementsTaskPool`, whose `Accept` has the bound) |
| `GoneOnlyAfterJoin` | `JoinedBeforeGone` |
| `NoWakeupIsLost` | `NoLostWakeup` |
| `ShutdownReachesEveryWorker` | `ShutdownWakesAll` |
| `PoolRefinesTaskPool` | `ImplementsTaskPool` |

The inductive invariant `StructInv` ties the program points of the threads to the
progress of the owner: which threads exist (`ThreadsMatchOwner`), which hold a
request (`LocalRequest`), with the type invariant, the bound and
`JoinedBeforeGone`. The last is not inductive alone: that a freed pool has no
running thread follows only when the joins are known to cover exactly the
threads that were created. `NoLostWakeup` and `ShutdownWakesAll` are then each
inductive relative to `StructInv`; both compare a count of threads with the
semaphore, so the module first proves how the count of threads at given places
changes when one thread moves (`CountAfterMove`), and every action becomes
arithmetic. The refinement maps the queue to `waiting`, the worker's local
request to `running` and `m_stop` to `closed`; every other step stutters.

`HttpParserProofs` proves, for every buffer size, every set of inputs, every set
of well-formed request lines and every integer that a `Content-Length` may be read
as (`TextAssumption`, `ParserAssumption`; the latter has that an `int` holds twice the
buffer size):

| Theorem | Property |
|---|---|
| `ParserTypeCorrect` | `TypeOK`: 0 <= line start <= checked <= read <= buffer, and less than the buffer while a worker parses |
| `TerminatorStaysInBuffer` | `TerminatorInBuffer`: with a length that is not negative and whose sum with an index is an `int`, the NUL behind a body is in the buffer |
| `VerdictIsThatOfTheWhole` | `JudgedAsWhole`: answered, awaited or refused as the whole buffer says, wherever the reads cut it, with the length that `m_content_length` holds |

`TerminatorStaysInBuffer` needs its two conditions: with a negative length, or one
near the largest `int`, the code writes outside `m_read_buf`, and the run `http` has
such inputs, which end in `"undefined"`. `VerdictIsThatOfTheWhole` has no such condition:
a length that wraps is judged as the `int` it became, until the NUL leaves the
buffer. A sum that overflows cannot make a body complete and leave the NUL inside
the buffer (`SumIs`), whichever way the compiler takes it.

`TypeOK` alone is not inductive. The code of an answer depends on the URL in
front of the buffer (`m_url` points there), so the invariant `ParserInv` adds that
the buffer starts with a URL once the request line has been parsed
(`UrlComesFirst`); and that follows from the length of the parsed text only if the
first line starts with the buffer (`FirstLineAtStart`). The scan is the other
half: `MinIsIn` shows that a set of naturals has a least element (strict inclusion
of intervals is well-founded), from which `ScanStaysInBuffer` bounds what
`parse_line()` returns by `m_checked_idx` and `m_read_idx`. The bound on the NUL
is then the strict bound of a buffer in the hands of a worker.
`VerdictIsThatOfTheWhole` compares that incremental loop with `Verdict`, a
definition over the whole buffer. The invariant `ScanInv` says what each state of
the loop stands for: there is no line end between the start of the line and the
checked index (`LineOpen`), so that a scan that goes on from `m_checked_idx`
misses none; `m_content_length` and `m_linger` are what the lines parsed so far
say, and no earlier blank line ended the head (`HeadSoFar`); in the body the head
ended where the first blank line is (`HeadEnds` in `AtBody`). A second group of
lemmas says that a buffer which grows keeps what it means: a line end, a good first
line and a head stay what they are when symbols are put behind them. The step of the
proof that needs most care is the last one of a turn: a worker that finds no
further line end leaves, and then nothing clean may lie behind the checked index
(`NothingBehind`). A worker that has more of a body to look at is in this turn
(`~EndsInBody`) unless `bodyWasCut`, which is just the exception that the property
makes.

`HttpExchangeProofs` proves, in addition for every size of the write buffer, of
files and bodies and of an `int` (`ExchangeAssumption`):

| Theorem | Property |
|---|---|
| `ExchangeImplementsRequestReply` | `ImplementsRequestReply`: each reply is one to the request that the bytes since the last reply hold as a whole, and the connection is kept exactly when that request asks for it, and only after the whole reply |
| `TerminatorStaysInBufferOfExchange` | `TerminatorInBuffer`, for the same lengths |
| `NoMappingIsLost` | `NoMappingLost` |
| `ExchangeTypeCorrect` | `ExchangeTypeOK`: counters, vectors and what is due agree after every partial write; the NUL behind the response fits |
| `ResponsesArriveWhole` | `ResponsesAreWhole`: what the client got is the responses in order, byte for byte |

A step of the exchange is one of the parser or leaves it alone
(`ExchangeStepIsParserStep`), so what is proved of the parser holds here too; this is
a lemma and no result, since the exchange is built from the parser's actions.
`RequestReply` is not: it knows requests and replies only through `Replies` and
`AsksToKeep`, which read the bytes as a whole. That a reply is one of `Replies`
(`RepliesToRequest`) is where the incremental loop is compared with them, and that a
connection is kept when the request asks for it (`KeepInv`) is where `m_linger` is:
a field that `init()` forgot would keep a later connection that did not ask. A turn
of the parser, and a `writev` that takes nothing of the last bytes, stutter or send.
Two facts carry the
invariant `ExchangeInv` behind the other two: while a response is sent, header and
file are described by `m_bytes_have_sent` alone (`Sending`: which vector is
current, where it points and how much is left), and while a request is read or
parsed nothing is due. Without the first, what `Advance` computes from a partial
`writev` cannot be tied to the counters. The counters do not say which bytes go
out: `SentInv` adds that the vectors point at the rest of one response, the header
in `m_write_buf` and the file behind it (`Pointing`, `Response`), and that this rest
is what is still due (`Matching`), up to a length no `int` can hold. That what is
prepared has the keep-alive line the request asked for needs `ScanInv`, which the
lemma above carries over from the parser.

`ConnSlotProofs` proves, for every number of workers, connections, places in the
pool's queue, sends of a peer and kinds of requests (`SlotAssumption`):

| Theorem | Property |
|---|---|
| `SlotTypeCorrect` | `TypeOK` |
| `SlotOwnsDescriptor` | `SlotOwnsFd` |
| `NoConnectionIsForgotten` | `NoForgottenConnection` |
| `OneThreadWithoutStreams` | `OneThreadPerConnection`, when every request is plain |

`SlotOwnsFd` is not inductive: it lets two closes of one connection meet, the
second of which would close the descriptor of the next connection. `OneOwner` adds
that the descriptor is open exactly while the object names it or one thread, and
no other, is between `m_sockfd = -1` and `close()`; `ConnsCounted` compares the
count with the threads that have closed and not yet counted, so that the proof
needs the cardinality of a set of threads as one of them moves.
`NoForgottenConnection` follows from `ConnRemembered`, which names the places at
which a thread still has the connection to arm or to close. `OneThreadPerConnection`
rests on `OneTicket`: an event, a task, or a thread in the object, of all of these
at most one, and none while epoll is armed. The hypothesis is needed: with streams
a broadcaster arms the descriptor too, which is what the run `slot_oneshot` shows.

`StreamConnProofs` proves, for every depth of the queues, every packet and socket
buffer size and any number of broadcasts and further bytes of the peer
(`StreamAssumption`):

| Theorem | Property |
|---|---|
| `StreamTypeCorrect` | `TypeOK`, the bound of the queue included |
| `PacketsAreFramed` | `WireFraming`, while an FLV client has started its stream once |
| `StreamIsInOrder` | `InOrder` |
| `NewestFrameWins` | `LatestFrameWins`, when `FrameDepth # 1` |
| `ReferencesAreSent` | `InterFollowsReference` |

All five rest on `BaseInv` (what each thread knows at its place, how the number of
broadcasts, of drops and the id of the packet in hand agree) and `QueueInv` (while a
part of the head is sent, it is the last thing on the wire), and each adds what is
not inductive alone:

* the bound, `DepthInv`: a queue made shorter for a packet has room for it;
* `WireFraming`, `FramingInv`: after a reset has torn a packet, the head of the
  queue is one a decoder can start at, or the queue is empty and the client waits
  for one. An FLV client that sends a second empty line has its stream started
  again: `start_flv_stream` queues another response header whatever waits, so the
  header can follow a packet that a reset has torn. The property is then false,
  which is what the hypothesis `FlvStartedOnce` leaves out;
* `InOrder`, `OrderInv`: what is on the wire and what waits is one increasing
  sequence that ends at the newest packet given to the client (`Given`);
* `LatestFrameWins`, `LatestInv`: nothing newer was offered than was given. With a
  depth of 1 a packet in flight fills the queue and the newest image is refused,
  so that the property needs the 2 that `kMaxQueueDepthDefault` has;
* `InterFollowsReference`, `ChainInv`: a client that does not wait for a key frame
  has the picture broadcast last (or, before it is handed the packet, the one
  before), a client that is not listed waits for one.

The lemmas about `SendQueue` come first: `Pick` keeps the places it is given and
their order (`PickIs`), so what `EnqueuePacket` leaves is a part of the old queue in
its old order, with the packet in flight at its head, and the new packet
(`EnqueueIs`, `RoomKeeps`); the sequence of the wire and the queue then only loses
waiting packets (`Thinned`), moves its border (`WriteKeepsStream`) or grows at its
end (`AppendStream`).

`FlvDeviceProofs` proves, for any number of threads and buffers and every content
(`FlvAssumption`, `DeviceAssumption`, `ContentAssumption`):

| Theorem | Property |
|---|---|
| `DeviceRefinesSource` | every behaviour of `FlvDevice` is one of `FlvSource` |
| `DeviceTypeCorrect` | `DeviceTypeOK` |
| `DriverKeepsBuffers` | `DriverHasBuffers` |
| `CallsInTurnKeepOneSource`, `CallsInTurnOneDevice` | `CallsInTurnAreSafe`: one source thread at most, joined once, and true flags between two calls, as long as the calls of start and stop do not overlap; of `FlvSource` and of `FlvDevice` |
| `NothingIsLeftBehind` | `NothingLeftBehind`, however calls overlap |
| `FileTurnDelivers`, `PendingTurnDelivers` | what a turn of each scan returns: a unit without zeros at its end, a position that moved past a start code and stays in the buffer |
| `UnitsAreDelivered` | `NalsAreUnits`: the units delivered so far are the first of those put in |

`SetUp` says how far the set-up of a source came (which buffers are mapped, which
the driver has) and `Kept` that the process holds just that; they are inductive
together, and `DriverHasBuffers` and `NothingLeftBehind` follow. For
calls that come one after the other, by any number of controllers, `TurnsInv` says
what the flags mean between two calls (`BetweenCalls`) and what the one caller knows at
each place of `start_flv_source()` and `stop_flv_source()` (`CallerKnows`). That they
come so is the hypothesis `[]OneCaller` of the property; a server with several workers
does not keep it, as the run `source_stale` shows.

`ContentAssumption` is what an H.264 encoder writes: a content has its units behind
start codes, none with a start code inside or a zero at its end (emulation
prevention and the trailing bits of the standard), and nothing but zeros and start
codes between them; a file without any start code has no unit, and a driver buffer
without one is one unit. The scan knows nothing of units, so `DeliveryInv` says where
it stands: a source is spent, in a content without a start code, or `Between` the
units it delivered and the others. Two start codes cannot overlap (`CodesApart`), and
what is not zero behind a code belongs to a unit (`OnlyUnitsBetween`); therefore a turn
steps over an empty unit or delivers exactly the next one (`UnitAfterUnit`), and a
scan that finds no more codes has delivered all of them (`NothingMissed`).

`MjpegPipelineProofs` proves, for every sequence of well-formed images, every size of
the driver's buffers and every limit of an image (`PipelineAssumption`):

| Theorem | Property |
|---|---|
| `PipelineTypeCorrect` | `TypeOK` |
| `PartsAreImages` | `PartsAreImagesInOrder` |

`PartsAreImagesInOrder` says nothing of the places the bytes come through, so
`PipelineInv` does: what the driver's buffer has left, the image under assembly, the
frame in `g_frame` and the chunk the reader copied are pieces of the camera's stream,
each behind the one before it (`CaptureInv`, `StreamInv`). A published frame begins with SOI and ends with EOI, so a
piece of the stream that does both and has no SOI inside is one image
(`ImageIsCut`), even where a buffer boundary cuts a marker in two. The proofs rest on
`CameraIsWhole`: the camera's stream is the images one behind the other, at the places
where their lengths say.

`FlvBroadcastProofs` proves, for every set of clients, queue limit, and number of pictures, configurations and openings
(`FeedAssumption`, `BroadcastAssumption`):

| Theorem | Property |
|---|---|
| `BroadcastTypeCorrect` | `BroadcastTypeOK` |
| `TagsAreOnePicture` | `AccessUnitIsOnePicture` |
| `NothingSkipped` | `NoPictureSkipped` |
| `ConfigurationFirst` | `ConfigBeforeVideo`, when `MinGop # 1` |
| `RunsAreUnbroken` | `RunsStartAtKeyFrames` |
| `ConfigurationReaches` | `ConfigReachesClient`, when `MinGop # 1` |

`FeedInv` has the assembler (one picture, with the slices the encoder gave out),
the parameter sets, and the shape of the plan `todo`, which is at most one tag
behind its announcement; the tag made last is the one that follows the tag sent
last. `ConfigInv` says when the last announcement is the present configuration.
`MinGop # 1` is a hypothesis about the encoder: a source without delimiters that
sends parameter sets with every picture makes the loop take the new sets before it
sends the picture they end, unannounced (the hazard at `stream_manager.cpp:554`);
with `MinGop = 1` the property is false. A step of a client leaves the loop alone
(`FeedMoves`), so these hold of the whole system. For the clients, `ClientInv` ties
queue, list, snapshot and admission together; `RunInv` says that a client which
does not wait for a key frame has, or will have, the picture last offered to it.
`ConfigReachesClient` needs three more: `MuxerInv` (as long as no announcement
comes before the next whole picture, a worker that takes the sequence header takes
what was announced last), `HeldInv` (the headers queued are those taken), and
`ReachInv` (a client that is not `torn` has the last announcement, and, during the
next one, has that already if the broadcast has passed it).

Every invariant and every safety property of a step that a passing run checks is
a theorem, some under the hypotheses the tables name or the properties state. Only model-checked: all
liveness properties (fairness and ENABLED are out of the prover's reach). The
library's induction theorems have an operator as a parameter, which the installed
provers cannot instantiate; where a proof needs
induction over data (`CameraIsWhole`), it argues from a least counterexample
(`MinIsIn`, `NoException`) instead.

## 7. Plan

1. (done) `ThreadPool` and `HttpParser` with their proofs; `SendQueue`, `StreamConn`, `ConnSlot`,
   `FlvSource`, `MjpegPipeline`, `FlvFeed` with their runs.
2. (done) The compositions: `FlvBroadcast` (feed with clients), `FlvDevice` (source
   life cycle with devices and scans), `HttpExchange` (parser with responses) and
   its proofs.
3. (done) Proofs of `ConnSlot`, `FlvSource`, `FlvDevice`, `FlvFeed` and `FlvBroadcast`.
   Then the operators of `SendQueue`, and `StreamConn` with all its safety properties.
   Then `JudgedAsWhole` and `ResponsesAreWhole`, what a verdict and a response mean.
   Then `MjpegPipeline` with both of its invariants, and `NalsAreUnits`.
4. (done) `RequestReply`, which `HttpExchange` implements. Further abstract specifications: a lossy FIFO channel that `StreamConn` implements;
   a one-thread-at-a-time slot that the plain `ConnSlot` implements.
5. Model the sharing of the device at start-up: `README.md:156` says that capture is
   skipped when the FLV source takes `/dev/video0`, `main.cpp:202-221` starts it
   always and prints a warning.

No module declares a RECURSIVE operator, so that each can be proved about.

## 8. Not modelled

* **Bit reader, FLV byte layout**: pure functions on bytes that the unit test of
  the repository covers; `FlvFeed` has what they say.
* **Ioctl contents** of the V4L2 devices (formats, sizes): only their outcomes.
* **Files that change** while a response is prepared or sent (`stat`, `open` and
  `mmap` one after the other), see the hazards.
* **RTSP/HLS** (`src/rtsp_server.cpp`): compiled only with GStreamer, whose
  threads it lives in.
* **Timers** (`noactive/`): not part of the build. **`h264_encoder.cpp`**: a
  stub. **Pages, scripts, packaging, webbench, converter tool**: no state of the
  server.
* Within the modelled parts: JSON and HTTP text, which file a URL names, the
  set-up of sockets, the debug dump of images, the exit of main, time (delays and timeouts are
  choices of when a step happens), and the order of memory accesses outside
  locks, where `m_sockfd` and `m_conn_type` are read without one: the models let
  those reads happen at any step of the thread that makes them.
