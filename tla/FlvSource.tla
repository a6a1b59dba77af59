----------------------------- MODULE FlvSource -----------------------------
(***************************************************************************)
(* Starting, stopping and running the FLV source (src/stream_manager.cpp). *)
(* Controllers are the threads that call start_flv_source() and            *)
(* stop_flv_source(): main at start-up and exit, and every pool worker     *)
(* that handles /api/start_flv, /api/stop_flv or the auto-start of         *)
(* /live.flv.  Both functions take the manager's lock in pieces, so their  *)
(* sections interleave with each other and with the source thread.         *)
(*                                                                         *)
(* A thread that has been joined is "unborn" again: its id can be reused.  *)
(***************************************************************************)
EXTENDS Naturals, FiniteSets

CONSTANTS Controllers,
          Threads,      \* bound on source threads alive at the same time
          NoThread,
          CreateMayFail \* TRUE when pthread_create() may run out of resources

ASSUME FlvAssumption ==
    /\ Controllers # {} /\ Threads # {} /\ NoThread \notin Threads
    /\ CreateMayFail \in BOOLEAN

VARIABLES
    m_flv_thread_started, m_flv_stop_requested, m_flv_running, m_flv_ready,
    m_flv_thread,       \* handle written by pthread_create()
    ctl,                \* controller: "idle", "create", "mark", "join", "joining", "clear"
    joins,              \* handle a controller waits for in pthread_join()
    src                 \* source thread: "unborn", "top", "open", "read",
                        \* "config", "end", "exited"

flags == <<m_flv_thread_started, m_flv_stop_requested, m_flv_running, m_flv_ready>>
vars == <<flags, m_flv_thread, ctl, joins, src>>

Live(t) == src[t] \notin {"unborn", "exited"}

TypeOK ==
    /\ m_flv_thread_started \in BOOLEAN /\ m_flv_stop_requested \in BOOLEAN
    /\ m_flv_running \in BOOLEAN /\ m_flv_ready \in BOOLEAN
    /\ m_flv_thread \in Threads \cup {NoThread}
    /\ ctl \in [Controllers -> {"idle", "create", "mark", "join", "joining", "clear"}]
    /\ joins \in [Controllers -> Threads \cup {NoThread}]
    /\ src \in [Threads -> {"unborn", "top", "open", "read", "config", "end", "exited"}]

Init ==
    /\ m_flv_thread_started = FALSE /\ m_flv_stop_requested = FALSE
    /\ m_flv_running = FALSE /\ m_flv_ready = FALSE
    /\ m_flv_thread = NoThread
    /\ ctl = [c \in Controllers |-> "idle"]
    /\ joins = [c \in Controllers |-> NoThread]
    /\ src = [t \in Threads |-> "unborn"]

-----------------------------------------------------------------------------
\* start_flv_source(): a source that is marked as started is left alone.
StartReset ==
    /\ m_flv_stop_requested' = FALSE
    /\ m_flv_running' = FALSE /\ m_flv_ready' = FALSE

StartCheck(c) ==
    /\ ctl[c] = "idle"
    /\ ~m_flv_thread_started
    /\ StartReset
    /\ ctl' = [ctl EXCEPT ![c] = "create"]
    /\ UNCHANGED <<m_flv_thread_started, m_flv_thread, joins, src>>

StartThread(c, t) ==
    /\ ctl[c] = "create"
    /\ src[t] = "unborn"
    /\ src' = [src EXCEPT ![t] = "top"]
    /\ m_flv_thread' = t
    /\ ctl' = [ctl EXCEPT ![c] = "mark"]
    /\ UNCHANGED <<flags, joins>>

StartFails(c) ==
    /\ CreateMayFail
    /\ ctl[c] = "create"
    /\ m_flv_thread_started' = FALSE /\ m_flv_running' = FALSE
    /\ ctl' = [ctl EXCEPT ![c] = "idle"]
    /\ UNCHANGED <<m_flv_stop_requested, m_flv_ready, m_flv_thread, joins, src>>

MarkStarted(c) ==
    /\ ctl[c] = "mark"
    /\ m_flv_thread_started' = TRUE
    /\ ctl' = [ctl EXCEPT ![c] = "idle"]
    /\ UNCHANGED <<m_flv_stop_requested, m_flv_running, m_flv_ready, m_flv_thread, joins, src>>

\* stop_flv_source(): request, join outside the lock, then clear the state.
\* Wrong variant: the thread is left to end by itself.
StopWithoutJoin(c) ==
    /\ ctl[c] = "idle"
    /\ m_flv_stop_requested' = TRUE
    /\ ctl' = [ctl EXCEPT ![c] = "clear"]
    /\ UNCHANGED <<m_flv_thread_started, m_flv_running, m_flv_ready, m_flv_thread, joins, src>>

StopRequest(c) ==
    /\ ctl[c] = "idle"
    /\ m_flv_stop_requested' = TRUE
    /\ ctl' = [ctl EXCEPT ![c] = IF m_flv_thread_started THEN "join" ELSE "clear"]
    /\ UNCHANGED <<m_flv_thread_started, m_flv_running, m_flv_ready, m_flv_thread, joins, src>>

JoinBegin(c) ==
    /\ ctl[c] = "join"
    /\ joins' = [joins EXCEPT ![c] = m_flv_thread]
    /\ ctl' = [ctl EXCEPT ![c] = "joining"]
    /\ UNCHANGED <<flags, m_flv_thread, src>>

\* Joining a thread that is gone already is undefined; here it returns at once.
JoinEnd(c) ==
    /\ ctl[c] = "joining"
    /\ ~Live(joins[c])
    /\ src' = [src EXCEPT ![joins[c]] = "unborn"]
    /\ joins' = [joins EXCEPT ![c] = NoThread]
    /\ ctl' = [ctl EXCEPT ![c] = "clear"]
    /\ UNCHANGED <<flags, m_flv_thread>>

ClearFlags ==
    /\ m_flv_thread_started' = FALSE /\ m_flv_running' = FALSE /\ m_flv_ready' = FALSE

StopClear(c) ==
    /\ ctl[c] = "clear"
    /\ ClearFlags
    /\ ctl' = [ctl EXCEPT ![c] = "idle"]
    /\ UNCHANGED <<m_flv_stop_requested, m_flv_thread, joins, src>>

-----------------------------------------------------------------------------
\* run_flv_source(), one action per section under the lock or blocking call.
Moves(t, from, to) == src[t] = from /\ src' = [src EXCEPT ![t] = to]
SourceFrame == UNCHANGED <<m_flv_thread_started, m_flv_stop_requested, m_flv_thread, ctl, joins>>

LoopTop(t) ==
    /\ Moves(t, "top", IF m_flv_stop_requested THEN "end" ELSE "open")
    /\ m_flv_running' = ~m_flv_stop_requested
    /\ SourceFrame /\ UNCHANGED m_flv_ready

\* The device or file cannot be opened: the thread tries again a second later.
OpenFails(t) ==
    /\ Moves(t, "open", "top")
    /\ m_flv_running' = FALSE /\ m_flv_ready' = FALSE
    /\ SourceFrame

OpenSucceeds(t) ==
    /\ Moves(t, "open", "read")
    /\ SourceFrame /\ UNCHANGED <<m_flv_running, m_flv_ready>>

\* next_nal() delivers; the stop flag is read before the NAL is used.  Only a
\* NAL that completes the configuration changes the flags.
StopSeen(t) ==
    /\ m_flv_stop_requested
    /\ Moves(t, "read", "top")
    /\ SourceFrame /\ UNCHANGED <<m_flv_running, m_flv_ready>>

ConfigNal(t) ==
    /\ ~m_flv_stop_requested
    /\ Moves(t, "read", "config")
    /\ SourceFrame /\ UNCHANGED <<m_flv_running, m_flv_ready>>

PublishConfig(t) ==
    /\ Moves(t, "config", "read")
    /\ m_flv_ready' = TRUE
    /\ SourceFrame /\ UNCHANGED m_flv_running

\* next_nal() fails or the file ends: the source is opened again.
SourceEnds(t) ==
    /\ Moves(t, "read", "top")
    /\ SourceFrame /\ UNCHANGED <<m_flv_running, m_flv_ready>>

\* Wrong variant: a stopped thread stays in its loop.
NeverEnds(t) ==
    /\ Moves(t, "end", "top")
    /\ m_flv_running' = FALSE
    /\ SourceFrame /\ UNCHANGED m_flv_ready

ThreadEnds(t) ==
    /\ Moves(t, "end", "exited")
    /\ m_flv_running' = FALSE
    /\ SourceFrame /\ UNCHANGED m_flv_ready

-----------------------------------------------------------------------------
StartNext(c) == StartCheck(c) \/ (\E t \in Threads : StartThread(c, t))
                \/ StartFails(c) \/ MarkStarted(c)
StopNext(c) == StopRequest(c) \/ JoinBegin(c) \/ JoinEnd(c) \/ StopClear(c)
SourceNext(t) ==
    \/ LoopTop(t) \/ OpenFails(t) \/ OpenSucceeds(t)
    \/ StopSeen(t) \/ ConfigNal(t) \/ PublishConfig(t) \/ SourceEnds(t)
    \/ ThreadEnds(t)

Next ==
    \/ \E c \in Controllers : StartNext(c) \/ StopNext(c)
    \/ \E t \in Threads : SourceNext(t)

Spec == Init /\ [][Next]_vars

\* Threads run and next_nal() returns (a file ends; VIDIOC_DQBUF blocks, so
\* this needs an encoder that goes on delivering buffers); whether anybody
\* asks for a start or a stop is left open.
Finishes(c) ==
    (\E t \in Threads : StartThread(c, t)) \/ MarkStarted(c)
    \/ JoinBegin(c) \/ JoinEnd(c) \/ StopClear(c)

FairSpec ==
    /\ Spec
    /\ \A c \in Controllers : WF_vars(Finishes(c))
    /\ \A t \in Threads : WF_vars(SourceNext(t))

-----------------------------------------------------------------------------
AllIdle == \A c \in Controllers : ctl[c] = "idle"

\* The calls do not overlap.  Nothing in the code sees to it: several workers
\* may handle /api/start_flv, /api/stop_flv and /live.flv at the same time.
OneCaller == \A c, d \in Controllers : ctl[c] # "idle" /\ ctl[d] # "idle" => c = d

OneThread ==
    /\ Cardinality({t \in Threads : Live(t)}) <= 1
    /\ \A c \in Controllers :
           ctl[c] = "joining" => joins[c] # NoThread /\ src[joins[c]] # "unborn"

\* "started" is never stale: between calls, the flag says that the thread in
\* the handle is there and still runs (the reply of /api/start_flv relies on it).
\* Calls that overlap break it.
StartedMeansThread ==
    AllIdle /\ m_flv_thread_started => m_flv_thread # NoThread /\ Live(m_flv_thread)

StoppedMeansSilent ==
    AllIdle /\ ~m_flv_thread_started =>
        ~m_flv_running /\ ~m_flv_ready /\ \A t \in Threads : src[t] = "unborn"

\* As long as the calls come one after the other, by whichever threads: at most
\* one thread reads the device and broadcasts, pthread_join() is called for a
\* thread that has not been joined yet, and between two calls the flags say what
\* there is, a thread that runs or nothing at all (start_flv_source(),
\* stop_flv_source()). Nothing is claimed of calls that overlap: two of them can
\* both find the source not started, and then create a thread each.
CallsInTurnAreSafe == []OneCaller => [](OneThread /\ StartedMeansThread /\ StoppedMeansSilent)

\* A stop returns although the source thread must notice it between two NALs.
StopTerminates == \A c \in Controllers : ctl[c] = "join" ~> ctl[c] = "idle"
=============================================================================
