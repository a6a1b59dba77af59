--------------------------- MODULE FlvDeviceProofs ---------------------------
(***************************************************************************)
(* Proofs about FlvSource and FlvDevice: what holds for every number of    *)
(* controllers, threads and buffers and every content, and what holds as   *)
(* long as their calls do not overlap.                                     *)
(***************************************************************************)
EXTENDS FlvDevice, FiniteSetTheorems, SequenceTheorems, WellFoundedInduction, TLAPS

-----------------------------------------------------------------------------
(* The source life cycle: types, for any number of controllers.            *)

CtlPlaces == {"idle", "create", "mark", "join", "joining", "clear"}
SrcPlaces == {"unborn", "top", "open", "read", "config", "end", "exited"}

LEMMA SourceTypesInit == Init => TypeOK
  BY DEF Init, TypeOK

LEMMA SourceTypesStep == TypeOK /\ [Next]_vars => TypeOK'
  <1> SUFFICES ASSUME TypeOK, [Next]_vars PROVE TypeOK'
    OBVIOUS
  <1>1. ASSUME NEW c \in Controllers, StartNext(c) \/ StopNext(c)
        PROVE  ctl' \in [Controllers -> CtlPlaces] /\ joins' \in [Controllers -> Threads \cup {NoThread}]
    BY <1>1 DEF TypeOK, StartNext, StopNext, StartCheck, StartThread, StartFails, MarkStarted,
                StopRequest, JoinBegin, JoinEnd, StopClear, CtlPlaces
  <1>2. ASSUME NEW c \in Controllers, StartNext(c) \/ StopNext(c)
        PROVE  src' \in [Threads -> SrcPlaces] /\ m_flv_thread' \in Threads \cup {NoThread}
    BY <1>2 DEF TypeOK, StartNext, StopNext, StartCheck, StartThread, StartFails, MarkStarted,
                StopRequest, JoinBegin, JoinEnd, StopClear, SrcPlaces
  <1>3. ASSUME NEW c \in Controllers, StartNext(c) \/ StopNext(c)
        PROVE  m_flv_thread_started' \in BOOLEAN /\ m_flv_stop_requested' \in BOOLEAN
               /\ m_flv_running' \in BOOLEAN /\ m_flv_ready' \in BOOLEAN
    BY <1>3 DEF TypeOK, StartNext, StopNext, StartCheck, StartReset, StartThread, StartFails,
                MarkStarted, StopRequest, JoinBegin, JoinEnd, StopClear, ClearFlags, flags
  <1>4. ASSUME NEW t \in Threads, SourceNext(t)
        PROVE  /\ src' \in [Threads -> SrcPlaces]
               /\ UNCHANGED <<m_flv_thread_started, m_flv_stop_requested, m_flv_thread, ctl, joins>>
    BY <1>4 DEF TypeOK, SourceNext, LoopTop, OpenFails, OpenSucceeds, StopSeen, ConfigNal,
                PublishConfig, SourceEnds, ThreadEnds, Moves, SourceFrame, SrcPlaces
  <1>5. ASSUME NEW t \in Threads, SourceNext(t)
        PROVE  m_flv_running' \in BOOLEAN /\ m_flv_ready' \in BOOLEAN
    BY <1>5 DEF TypeOK, SourceNext, LoopTop, OpenFails, OpenSucceeds, StopSeen, ConfigNal,
                PublishConfig, SourceEnds, ThreadEnds
  <1>6. CASE UNCHANGED vars
    BY <1>6 DEF TypeOK, vars, flags
  <1> QED
    BY <1>1, <1>2, <1>3, <1>4, <1>5, <1>6 DEF Next, TypeOK, CtlPlaces, SrcPlaces

LEMMA SourceTypes == Spec => []TypeOK
  BY SourceTypesInit, SourceTypesStep, PTL DEF Spec

-----------------------------------------------------------------------------
(* Calls that come one after the other.                                    *)

NobodyRuns == \A t \in Threads : src[t] = "unborn"
Quiet == ~m_flv_running /\ ~m_flv_ready

\* The thread in the handle is the only one.
OnlyHandle ==
    /\ m_flv_thread \in Threads /\ src[m_flv_thread] # "unborn"
    /\ \A t \in Threads : t # m_flv_thread => src[t] = "unborn"

\* It will go on until somebody asks it to stop.
KeepsRunning ==
    OnlyHandle /\ ~m_flv_stop_requested /\ src[m_flv_thread] \notin {"end", "exited"}

\* What the flag says between two calls, and what the one caller knows at each
\* place of start_flv_source() and stop_flv_source().
BetweenCalls == AllIdle => IF m_flv_thread_started THEN KeepsRunning ELSE NobodyRuns /\ Quiet
CallerKnows(c) ==
    /\ ctl[c] = "create" => NobodyRuns /\ Quiet /\ ~m_flv_thread_started /\ ~m_flv_stop_requested
    /\ ctl[c] = "mark" => KeepsRunning
    /\ ctl[c] \in {"join", "joining"} => OnlyHandle
    /\ ctl[c] = "joining" => joins[c] = m_flv_thread
    /\ ctl[c] = "clear" => NobodyRuns
TurnsInv == BetweenCalls /\ \A c \in Controllers : CallerKnows(c)

LEMMA TurnsInit == Init => TurnsInv
  BY DEF Init, TurnsInv, BetweenCalls, CallerKnows, NobodyRuns, Quiet

\* A step of one controller leaves the others where they are; with calls in turn
\* they are idle, or it is.
LEMMA TurnsStep == TypeOK /\ TurnsInv /\ OneCaller /\ OneCaller' /\ [Next]_vars => TurnsInv'
  <1> SUFFICES ASSUME TypeOK, TurnsInv, OneCaller, OneCaller', [Next]_vars PROVE TurnsInv'
    OBVIOUS
  <1>0. /\ src \in [Threads -> SrcPlaces] /\ ctl \in [Controllers -> CtlPlaces]
        /\ joins \in [Controllers -> Threads \cup {NoThread}] /\ NoThread \notin Threads
    BY FlvAssumption DEF TypeOK, SrcPlaces, CtlPlaces
  <1>c. ASSUME NEW c \in Controllers, StartNext(c) \/ StopNext(c) PROVE TurnsInv'
    <2>1. \A d \in Controllers : d # c => ctl'[d] = ctl[d]
      BY <1>0, <1>c DEF StartNext, StopNext, StartCheck, StartThread, StartFails, MarkStarted,
                        StopRequest, JoinBegin, JoinEnd, StopClear
    <2>2. \A d \in Controllers : d # c => ctl[d] = "idle" /\ ctl'[d] = "idle"
      <3> SUFFICES ASSUME NEW d \in Controllers, d # c PROVE ctl[d] = "idle"
        BY <2>1
      <3>1. CASE ctl[c] # "idle"
        BY <3>1 DEF OneCaller
      <3>2. CASE ctl'[c] # "idle"
        BY <2>1, <3>2 DEF OneCaller
      <3>3. ctl[c] # "idle" \/ ctl'[c] # "idle"
        BY <1>0, <1>c DEF StartNext, StopNext, StartCheck, StartThread, StartFails, MarkStarted,
                          StopRequest, JoinBegin, JoinEnd, StopClear
      <3> QED
        BY <3>1, <3>2, <3>3
    <2>3. ctl[c] = "idle" => AllIdle
      BY <2>2 DEF AllIdle
    <2>4. AllIdle' => ctl'[c] = "idle"
      BY DEF AllIdle
    <2>5. CallerKnows(c) /\ BetweenCalls
      BY DEF TurnsInv
    <2>6. ASSUME ctl'[c] = "idle" => IF m_flv_thread_started' THEN KeepsRunning' ELSE NobodyRuns' /\ Quiet',
                 CallerKnows(c)'
          PROVE  TurnsInv'
      BY <2>2, <2>4, <2>6 DEF TurnsInv, BetweenCalls, CallerKnows
    <2>7. CASE StartCheck(c)
      BY <1>0, <2>3, <2>5, <2>6, <2>7
         DEF StartCheck, StartReset, BetweenCalls, CallerKnows, NobodyRuns, Quiet
    <2>8. ASSUME NEW t \in Threads, StartThread(c, t) PROVE TurnsInv'
      BY <1>0, <2>5, <2>6, <2>8 DEF StartThread, CallerKnows, NobodyRuns, OnlyHandle, KeepsRunning, flags
    <2>9. CASE StartFails(c)
      BY <1>0, <2>5, <2>6, <2>9 DEF StartFails, CallerKnows, NobodyRuns, Quiet
    <2>10. CASE MarkStarted(c)
      BY <1>0, <2>5, <2>6, <2>10 DEF MarkStarted, CallerKnows, KeepsRunning, OnlyHandle
    <2>11. CASE StopRequest(c)
      BY <1>0, <2>3, <2>5, <2>6, <2>11
         DEF StopRequest, BetweenCalls, CallerKnows, KeepsRunning, OnlyHandle, NobodyRuns
    <2>12. CASE JoinBegin(c)
      BY <1>0, <2>5, <2>6, <2>12 DEF JoinBegin, CallerKnows, OnlyHandle, flags
    <2>13. CASE JoinEnd(c)
      BY <1>0, <2>5, <2>6, <2>13 DEF JoinEnd, CallerKnows, OnlyHandle, NobodyRuns, flags
    <2>14. CASE StopClear(c)
      BY <1>0, <2>5, <2>6, <2>14 DEF StopClear, ClearFlags, CallerKnows, NobodyRuns, Quiet
    <2> QED
      BY <1>c, <2>7, <2>8, <2>9, <2>10, <2>11, <2>12, <2>13, <2>14 DEF StartNext, StopNext
  <1>t. ASSUME NEW t \in Threads, SourceNext(t) PROVE TurnsInv'
    <2>1. /\ src[t] # "unborn" /\ src' \in [Threads -> SrcPlaces]
          /\ \A s \in Threads : s # t => src'[s] = src[s]
          /\ src'[t] # "unborn"
          /\ src'[t] \in {"end", "exited"} => src[t] = "end" \/ m_flv_stop_requested
          /\ SourceFrame
      BY <1>0, <1>t DEF SourceNext, LoopTop, OpenFails, OpenSucceeds, StopSeen, ConfigNal,
                        PublishConfig, SourceEnds, ThreadEnds, Moves, SrcPlaces
    <2>2. BetweenCalls'
      BY <1>0, <2>1 DEF SourceFrame, TurnsInv, BetweenCalls, AllIdle, NobodyRuns, OnlyHandle, KeepsRunning
    <2>3. ASSUME NEW c \in Controllers PROVE CallerKnows(c)'
      <3>1. CallerKnows(c)
        BY DEF TurnsInv
      <3> QED
        BY <1>0, <2>1, <3>1 DEF SourceFrame, CallerKnows, NobodyRuns, OnlyHandle, KeepsRunning
    <2> QED
      BY <2>2, <2>3 DEF TurnsInv
  <1>u. CASE UNCHANGED vars
    BY <1>u DEF vars, flags, TurnsInv, BetweenCalls, AllIdle, CallerKnows, NobodyRuns, Quiet, OnlyHandle,
                KeepsRunning
  <1> QED
    BY <1>c, <1>t, <1>u DEF Next

LEMMA TurnsAlways == Spec => ([]OneCaller => []TurnsInv)
  BY TurnsInit, TurnsStep, SourceTypes, PTL DEF Spec

\* What the invariant says of the threads and the join.
LEMMA TurnsMeanOneThread ==
    ASSUME TypeOK, TurnsInv, OneCaller
    PROVE  OneThread
  <1>0. ctl \in [Controllers -> CtlPlaces] /\ NoThread \notin Threads
    BY FlvAssumption DEF TypeOK, CtlPlaces
  <1>1. NobodyRuns \/ OnlyHandle
    <2>1. CASE AllIdle
      BY <2>1 DEF TurnsInv, BetweenCalls, KeepsRunning
    <2>2. ASSUME NEW c \in Controllers, ctl[c] # "idle" PROVE NobodyRuns \/ OnlyHandle
      <3>1. CallerKnows(c) /\ ctl[c] \in CtlPlaces
        BY <1>0 DEF TurnsInv
      <3> QED
        BY <2>2, <3>1 DEF CallerKnows, KeepsRunning, CtlPlaces
    <2> QED
      BY <2>1, <2>2 DEF AllIdle
  <1>2. Cardinality({t \in Threads : Live(t)}) <= 1
    <2>1. CASE {t \in Threads : Live(t)} = {}
      BY <2>1, FS_EmptySet
    <2>2. CASE {t \in Threads : Live(t)} # {}
      <3>1. {t \in Threads : Live(t)} = {m_flv_thread}
        BY <1>1, <2>2 DEF NobodyRuns, OnlyHandle, Live
      <3> QED
        BY <3>1, FS_Singleton
    <2> QED
      BY <2>1, <2>2
  <1>3. ASSUME NEW c \in Controllers, ctl[c] = "joining"
        PROVE  joins[c] # NoThread /\ src[joins[c]] # "unborn"
    BY <1>0, <1>3 DEF TurnsInv, CallerKnows, OnlyHandle
  <1> QED
    BY <1>2, <1>3 DEF OneThread

LEMMA TurnsMeanTrueFlags ==
    ASSUME TypeOK, TurnsInv
    PROVE  StartedMeansThread /\ StoppedMeansSilent
  <1>1. NoThread \notin Threads
    BY FlvAssumption
  <1>2. StartedMeansThread
    BY <1>1 DEF StartedMeansThread, TurnsInv, BetweenCalls, KeepsRunning, OnlyHandle, Live
  <1>3. StoppedMeansSilent
    BY DEF StoppedMeansSilent, TurnsInv, BetweenCalls, NobodyRuns, Quiet
  <1> QED
    BY <1>2, <1>3

\* Any number of threads may start and stop the source: while their calls do not
\* overlap there is one source thread at most, it is joined once, "started" is true
\* of a running thread and its absence means silence (start_flv_source(),
\* stop_flv_source()).  When they overlap it does not hold, which the run
\* source_stale shows.
THEOREM CallsInTurnKeepOneSource == Spec => CallsInTurnAreSafe
  <1>1. TypeOK /\ TurnsInv /\ OneCaller => OneThread /\ StartedMeansThread /\ StoppedMeansSilent
    BY TurnsMeanOneThread, TurnsMeanTrueFlags
  <1> QED
    BY <1>1, SourceTypes, TurnsAlways, PTL DEF CallsInTurnAreSafe

-----------------------------------------------------------------------------
(* The scans of AnnexB, for every sequence of bytes.                       *)

Below == {ss \in Nat \X Nat : ss[1] < ss[2]}

\* A set of natural numbers that is not empty has a least element.
LEMMA LeastElement ==
    ASSUME NEW S \in SUBSET Nat, S # {}
    PROVE  \E x \in S : \A y \in S : x <= y
  <1>1. Below = OpToRel(<, Nat)
    BY DEF Below, OpToRel
  <1>2. IsWellFoundedOn(Below, Nat)
    BY <1>1, NatLessThanWellFounded
  <1>3. PICK x \in S : \A y \in S : ~(<<y, x>> \in Below)
    BY <1>2, WFMin
  <1>4. ASSUME NEW y \in S PROVE x <= y
    <2>1. x \in Nat /\ y \in Nat /\ ~(y < x)
      BY <1>3 DEF Below
    <2> QED
      BY <2>1
  <1> QED
    BY <1>4

LEMMA LengthOfBytes ==
    ASSUME NEW b \in Seq(Byte)
    PROVE  /\ Len(b) \in Nat
           /\ \A i \in 1 .. Len(b) : b[i] \in Byte
  BY LenProperties, ElementOfSeq

\* A start code is three or four bytes that are all there.
LEMMA CodeIsInside ==
    ASSUME NEW b \in Seq(Byte), NEW i \in Nat \ {0}
    PROVE  /\ CodeLength(b, i) \in {0, 3, 4}
           /\ CodeLength(b, i) # 0 => i + CodeLength(b, i) - 1 <= Len(b)
  BY LengthOfBytes DEF CodeLength

\* The search finds the first code at or behind the position, or the end.
LEMMA NextCodeIsFirst ==
    ASSUME NEW b \in Seq(Byte), NEW from \in 1 .. Len(b) + 1
    PROVE  LET n == NextCode(b, from) IN
           /\ n \in from .. Len(b) + 1
           /\ n = Len(b) + 1 \/ CodeLength(b, n) # 0
           /\ \A j \in from .. n - 1 : CodeLength(b, j) = 0
  <1> DEFINE Stops == {i \in from .. Len(b) + 1 : i = Len(b) + 1 \/ CodeLength(b, i) # 0}
  <1>1. Len(b) \in Nat
    BY LengthOfBytes
  <1>2. Stops \in SUBSET Nat /\ Len(b) + 1 \in Stops
    BY <1>1
  <1>3. PICK n \in Stops : \A y \in Stops : n <= y
    BY <1>2, LeastElement
  <1>4. \A j \in from .. n - 1 : CodeLength(b, j) = 0
    <2> SUFFICES ASSUME NEW j \in from .. n - 1, CodeLength(b, j) # 0 PROVE FALSE
      OBVIOUS
    <2>1. j \in Stops
      BY <1>1
    <2> QED
      BY <1>1, <1>3, <2>1
  <1>5. /\ n \in from .. Len(b) + 1
        /\ n = Len(b) + 1 \/ CodeLength(b, n) # 0
        /\ \A j \in from .. n - 1 : CodeLength(b, j) = 0
    BY <1>3, <1>4
  <1> QED
    BY <1>5 DEF NextCode

\* The unit ends in front of the zeros that the next code follows.
LEMMA TrimmedEndIsLast ==
    ASSUME NEW b \in Seq(Byte), NEW from \in 1 .. Len(b) + 1
    PROVE  LET k == TrimmedEnd(b, from) IN
           /\ k \in from - 1 .. NextCode(b, from) - 1
           /\ k = from - 1 \/ b[k] # 0
           /\ \A j \in k + 1 .. NextCode(b, from) - 1 : b[j] = 0
  <1> DEFINE next == NextCode(b, from)
             Gaps == {g \in 0 .. next - from : next - 1 - g = from - 1 \/ b[next - 1 - g] # 0}
  <1>1. Len(b) \in Nat /\ next \in from .. Len(b) + 1
    BY LengthOfBytes, NextCodeIsFirst
  <1> HIDE DEF next
  <1>2. Gaps \in SUBSET Nat /\ next - from \in Gaps
    BY <1>1
  <1>3. PICK g \in Gaps : \A y \in Gaps : g <= y
    BY <1>2, LeastElement
  <1>4. ASSUME NEW j \in (next - 1 - g) + 1 .. next - 1 PROVE b[j] = 0
    <2> SUFFICES ASSUME b[j] # 0 PROVE FALSE
      OBVIOUS
    <2>1. next - 1 - j \in 0 .. next - from /\ next - 1 - (next - 1 - j) = j
      BY <1>1, <1>3
    <2>2. next - 1 - j \in Gaps
      BY <2>1
    <2>3. g <= next - 1 - j
      BY <1>3, <2>2
    <2>4. g \in Nat /\ next \in Nat /\ j \in Int /\ next - g <= j
      BY <1>1, <1>3
    <2> QED
      BY <2>3, <2>4
  <1>5. /\ next - 1 - g \in from - 1 .. next - 1
        /\ next - 1 - g = from - 1 \/ b[next - 1 - g] # 0
        /\ \A j \in (next - 1 - g) + 1 .. next - 1 : b[j] = 0
    BY <1>1, <1>3, <1>4
  <1>6. \E k \in from - 1 .. next - 1 :
            /\ k = from - 1 \/ b[k] # 0
            /\ \A j \in k + 1 .. next - 1 : b[j] = 0
    BY <1>5
  <1> QED
    BY <1>6 DEF TrimmedEnd, next

\* No start code and no trailing zero.
Clean(nal) ==
    /\ \A i \in 1 .. Len(nal) : CodeLength(nal, i) = 0
    /\ nal = <<>> \/ nal[Len(nal)] # 0

LEMMA UnitIsClean ==
    ASSUME NEW b \in Seq(Byte), NEW start \in 1 .. Len(b) + 1
    PROVE  LET nal == SubSeq(b, start, TrimmedEnd(b, start)) IN
           nal \in Seq(Byte) /\ Clean(nal)
  <1> DEFINE end == TrimmedEnd(b, start)
             nal == SubSeq(b, start, end)
  <1>1. Len(b) \in Nat /\ NextCode(b, start) \in start .. Len(b) + 1
    BY LengthOfBytes, NextCodeIsFirst
  <1>2. end \in start - 1 .. NextCode(b, start) - 1 /\ (end = start - 1 \/ b[end] # 0)
    BY TrimmedEndIsLast
  <1>3. \A j \in start .. NextCode(b, start) - 1 : CodeLength(b, j) = 0
    BY NextCodeIsFirst
  <1> HIDE DEF end
  <1>4. \A i \in start .. end : b[i] \in Byte
    BY <1>1, <1>2, LengthOfBytes
  <1>5. /\ nal \in Seq(Byte)
        /\ Len(nal) = IF start <= end THEN end - start + 1 ELSE 0
        /\ \A i \in 1 .. end - start + 1 : nal[i] = b[start + i - 1]
    BY <1>1, <1>2, <1>4, SubSeqProperties
  <1> HIDE DEF nal
  <1>6. ASSUME NEW i \in 1 .. Len(nal) PROVE CodeLength(nal, i) = 0
    <2>1. Len(nal) = end - start + 1 /\ start + i - 1 \in start .. end /\ end <= Len(b)
      BY <1>1, <1>2, <1>5
    <2>2. CodeLength(b, start + i - 1) = 0
      BY <1>1, <1>2, <1>3, <2>1
    <2> DEFINE p == start + i - 1
    <2>3. ASSUME NEW k \in 0 .. 3, i + k <= Len(nal)
          PROVE  p + k <= Len(b) /\ nal[i + k] = b[p + k]
      <3>1. i + k \in 1 .. end - start + 1 /\ start + (i + k) - 1 = p + k /\ p + k <= end
        BY <1>1, <1>2, <2>1, <2>3
      <3> QED
        BY <1>1, <1>2, <1>5, <2>1, <3>1
    <2>4. i \in Nat /\ p \in Nat /\ Len(nal) \in Nat /\ i <= Len(nal)
      BY <1>1, <1>2, <2>1
    <2>5. /\ nal[i] = b[p]
          /\ i + 1 <= Len(nal) => nal[i + 1] = b[p + 1] /\ p + 1 <= Len(b)
          /\ i + 2 <= Len(nal) => nal[i + 2] = b[p + 2] /\ p + 2 <= Len(b)
          /\ i + 3 <= Len(nal) => nal[i + 3] = b[p + 3] /\ p + 3 <= Len(b)
      BY <2>3, <2>4
    <2>6. CodeLength(b, p) = 0
      BY <2>2
    <2> HIDE DEF p
    <2> SUFFICES ASSUME CodeLength(nal, i) # 0 PROVE FALSE
      OBVIOUS
    <2>7. CASE i + 2 <= Len(nal) /\ nal[i] = 0 /\ nal[i + 1] = 0 /\ nal[i + 2] = 1
      <3>1. i + 1 <= Len(nal)
        BY <2>4, <2>7
      <3> QED
        BY <2>5, <2>6, <2>7, <3>1 DEF CodeLength
    <2>8. CASE i + 3 <= Len(nal) /\ nal[i] = 0 /\ nal[i + 1] = 0 /\ nal[i + 2] = 0 /\ nal[i + 3] = 1
      <3>1. i + 1 <= Len(nal) /\ i + 2 <= Len(nal)
        BY <2>4, <2>8
      <3> QED
        BY <2>5, <2>6, <2>8, <3>1 DEF CodeLength
    <2> QED
      BY <2>7, <2>8 DEF CodeLength
  <1>7. nal = <<>> \/ nal[Len(nal)] # 0
    <2>1. CASE end = start - 1
      BY <1>1, <1>5, <2>1, EmptySeq
    <2>2. CASE end # start - 1
      BY <1>1, <1>2, <1>5, <2>2
    <2> QED
      BY <2>1, <2>2
  <1> QED
    BY <1>5, <1>6, <1>7 DEF Clean, nal, end

\* Behind a code there is at most the end of the bytes.
LEMMA NalStartIsInside ==
    ASSUME NEW b \in Seq(Byte), NEW pos \in 1 .. Len(b) + 1, NextCode(b, pos) <= Len(b)
    PROVE  NalStart(b, pos) \in pos + 3 .. Len(b) + 1
  <1> DEFINE n == NextCode(b, pos)
  <1>1. Len(b) \in Nat /\ n \in pos .. Len(b) + 1 /\ CodeLength(b, n) # 0
    BY LengthOfBytes, NextCodeIsFirst
  <1>2. CodeLength(b, n) \in {3, 4} /\ n + CodeLength(b, n) - 1 <= Len(b)
    BY <1>1, CodeIsInside
  <1> QED
    BY <1>1, <1>2 DEF NalStart

\* H264Parser::next_nal(): every turn moves on, by three bytes or to the end,
\* so a call that steps over empty units ends; and the unit it delivers holds
\* no start code and ends with no zero, whatever the file holds.
THEOREM FileTurnDelivers ==
    ASSUME NEW b \in Seq(Byte), NEW pos \in 1 .. Len(b) + 1
    PROVE  LET r == FileTurn(b, pos) IN
           /\ r.buffer = b /\ r.nal \in Seq(Byte) /\ Clean(r.nal)
           /\ r.pos = Len(b) + 1 \/ r.pos \in pos + 3 .. Len(b) + 1
  <1>1. Len(b) \in Nat
    BY LengthOfBytes
  <1>2. CASE NextCode(b, pos) > Len(b)
    <2>1. <<>> \in Seq(Byte) /\ Clean(<<>>)
      BY EmptySeq DEF Clean
    <2>2. FileTurn(b, pos) = Turn(<<>>, b, Len(b) + 1)
      BY <1>2 DEF FileTurn
    <2> QED
      BY <2>1, <2>2 DEF Turn
  <1>3. CASE ~(NextCode(b, pos) > Len(b))
    <2> DEFINE start == NalStart(b, pos)
               end == TrimmedEnd(b, start)
    <2>1. start \in pos + 3 .. Len(b) + 1
      BY <1>1, <1>3, NextCodeIsFirst, NalStartIsInside
    <2>2. end + 1 \in start .. Len(b) + 1
      <3>1. start \in 1 .. Len(b) + 1
        BY <1>1, <2>1
      <3>2. NextCode(b, start) \in start .. Len(b) + 1
        BY <3>1, NextCodeIsFirst
      <3>3. end \in start - 1 .. NextCode(b, start) - 1
        BY <3>1, TrimmedEndIsLast
      <3> HIDE DEF start, end
      <3> QED
        BY <1>1, <3>1, <3>2, <3>3
    <2>3. SubSeq(b, start, end) \in Seq(Byte) /\ Clean(SubSeq(b, start, end))
      BY <1>1, <2>1, UnitIsClean
    <2>4. FileTurn(b, pos) = Turn(SubSeq(b, start, end), b, end + 1)
      BY <1>3 DEF FileTurn
    <2> HIDE DEF end
    <2>5. end + 1 \in pos + 3 .. Len(b) + 1
      BY <1>1, <2>1, <2>2
    <2> QED
      BY <2>3, <2>4, <2>5 DEF Turn
  <1> QED
    BY <1>2, <1>3

\* parse_pending_nal(): the same of a buffer of the encoder, except that a
\* buffer without any start code is delivered as it is.
THEOREM PendingTurnDelivers ==
    ASSUME NEW b \in Seq(Byte), NEW pos \in 1 .. Len(b) + 1
    PROVE  LET r == PendingTurn(b, pos) IN
           /\ r.nal \in Seq(Byte) /\ (r.nal = b \/ Clean(r.nal))
           /\ \/ r.buffer = <<>> /\ r.pos = 1
              \/ r.buffer = b /\ r.pos \in pos + 3 .. Len(b) + 1
  <1>1. Len(b) \in Nat
    BY LengthOfBytes
  <1>2. CASE NextCode(b, pos) > Len(b)
    <2>1. <<>> \in Seq(Byte) /\ Clean(<<>>)
      BY EmptySeq DEF Clean
    <2>2. PendingTurn(b, pos) = Turn(IF pos = 1 THEN b ELSE <<>>, <<>>, 1)
      BY <1>2 DEF PendingTurn
    <2> QED
      BY <2>1, <2>2 DEF Turn
  <1>3. CASE ~(NextCode(b, pos) > Len(b))
    <2> DEFINE start == NalStart(b, pos)
               end == TrimmedEnd(b, start)
               next == NextCode(b, start)
    <2>1. start \in pos + 3 .. Len(b) + 1
      BY <1>1, <1>3, NextCodeIsFirst, NalStartIsInside
    <2>2. next \in start .. Len(b) + 1
      BY <1>1, <2>1, NextCodeIsFirst
    <2>3. SubSeq(b, start, end) \in Seq(Byte) /\ Clean(SubSeq(b, start, end))
      BY <1>1, <2>1, UnitIsClean
    <2>4. PendingTurn(b, pos) =
              IF end >= start /\ next > Len(b) THEN Turn(SubSeq(b, start, end), <<>>, 1)
              ELSE Turn(SubSeq(b, start, end), b, next)
      BY <1>3 DEF PendingTurn
    <2> HIDE DEF end, next
    <2>5. next \in pos + 3 .. Len(b) + 1
      BY <1>1, <2>1, <2>2
    <2> QED
      BY <2>3, <2>4, <2>5 DEF Turn
  <1> QED
    BY <1>2, <1>3

-----------------------------------------------------------------------------
(* FlvDevice takes the steps of FlvSource.                                 *)

LEMMA DeviceStepIsSourceStep == [AllNext]_allVars => [Next]_vars
  <1> SUFFICES ASSUME [AllNext]_allVars PROVE [Next]_vars
    OBVIOUS
  <1>1. ASSUME NEW t \in Threads, DeviceNext(t) PROVE SourceNext(t) \/ UNCHANGED vars
    BY <1>1 DEF DeviceNext, OpenFile, OpenDevice, RequestBuffers, MapBuffer, QueueBuffer, StreamOn,
                SourceBad, SourceGood, Opening, Scan, Dequeue, Requeue, SourceOver, StopWithNal,
                ConfigInHand, OtherNal, SourceNext
  <1>2. CASE UNCHANGED allVars
    BY <1>2 DEF allVars
  <1> QED
    BY <1>1, <1>2 DEF AllNext, Next

\* The source thread with a real source inside implements the life cycle.
THEOREM DeviceRefinesSource == DeviceSpec => Spec
  <1>1. DeviceInit => Init
    BY DEF DeviceInit
  <1> QED
    BY <1>1, DeviceStepIsSourceStep, PTL DEF DeviceSpec, Spec

\* The same with devices, buffers and scans: one caller after the other never has
\* two sources (start_flv_source(), stop_flv_source()).
THEOREM CallsInTurnOneDevice == DeviceSpec => CallsInTurnAreSafe
  BY DeviceRefinesSource, CallsInTurnKeepOneSource, PTL

-----------------------------------------------------------------------------
(* The set-up of a source, buffer by buffer.                               *)

States == {"none", "opened", "mapping", "mapped", "good", "over", "bad"}
SourceRecord ==
    [state : States, m_fd : BOOLEAN, m_buffers : Nat, driver : SUBSET Nat,
     m_streaming : BOOLEAN, out : Nat, m_pending : Seq(Byte), pos : Nat \ {0},
     hand : BOOLEAN, units : Seq(Seq(Byte)), got : Seq(Seq(Byte))]

\* How far the set-up came and which buffers the driver has: nothing of a
\* device in a source that failed, one more buffer mapped than queued while a
\* buffer is set up, and every buffer with the driver but the dequeued one
\* from the start of the stream on.
SetUp(s) ==
    /\ s.state \in {"none", "bad"} => ~s.m_fd
    /\ s.state \in {"opened", "mapping", "mapped"} => s.m_fd
    /\ s.state = "opened" => s.m_buffers = 0
    /\ s.state = "mapping" => s.m_buffers < Buffers /\ s.driver = 1 .. s.m_buffers
    /\ s.state = "mapped" =>
           /\ s.m_buffers \in 1 .. Buffers
           /\ \/ s.driver = 1 .. s.m_buffers - 1
              \/ s.driver = 1 .. s.m_buffers /\ s.m_buffers = Buffers
    /\ ~s.m_fd \/ s.state = "opened" => s.m_buffers = 0 /\ s.driver = {} /\ s.out = 0
    /\ s.state \notin {"good", "over"} => s.out = 0
    /\ s.m_streaming <=> s.state \in {"good", "over"} /\ s.m_fd
    /\ s.m_streaming => /\ s.m_buffers = Buffers /\ s.out \in 0 .. Buffers
                        /\ s.driver = (1 .. Buffers) \ {s.out}

Position(s) == s.pos <= Len(s.m_pending) + 1
Kept(t) == kernel[t] = [fds |-> IF source[t].m_fd THEN 1 ELSE 0, maps |-> source[t].m_buffers]

DeviceInv ==
    /\ TypeOK
    /\ uri \in {"file", "v4l2"} /\ input.bytes \in Seq(Byte) /\ input.units \in Seq(Seq(Byte))
    /\ source \in [Threads -> SourceRecord]
    /\ kernel \in [Threads -> [fds : Nat, maps : Nat]]
    /\ \A t \in Threads :
           /\ SetUp(source[t]) /\ Position(source[t]) /\ Kept(t)
           /\ source[t].state # "none" => src[t] \in {"open", "read", "config"}

LEMMA NoSourceIsSetUp == NoSource \in SourceRecord /\ SetUp(NoSource) /\ Position(NoSource)
  <1>1. <<>> \in Seq(Byte) /\ <<>> \in Seq(Seq(Byte)) /\ Len(<<>>) = 0
    BY EmptySeq
  <1> QED
    BY <1>1 DEF NoSource, SourceRecord, States, SetUp, Position

LEMMA DeviceInvInit == DeviceInit => DeviceInv
  <1> SUFFICES ASSUME DeviceInit PROVE DeviceInv
    OBVIOUS
  <1>1. TypeOK
    BY SourceTypesInit DEF DeviceInit
  <1>2. uri \in {"file", "v4l2"} /\ input.bytes \in Seq(Byte) /\ input.units \in Seq(Seq(Byte))
    BY DeviceAssumption DEF DeviceInit
  <1>3. source \in [Threads -> SourceRecord] /\ kernel \in [Threads -> [fds : Nat, maps : Nat]]
    BY NoSourceIsSetUp DEF DeviceInit
  <1>4. ASSUME NEW t \in Threads
        PROVE  SetUp(source[t]) /\ Position(source[t]) /\ Kept(t) /\ source[t].state = "none"
    BY NoSourceIsSetUp DEF DeviceInit, Kept, NoSource
  <1> QED
    BY <1>1, <1>2, <1>3, <1>4 DEF DeviceInv

\* The source becomes s and the kernel holds for it what s names.
Settles(t, s) == Becomes(t, s) /\ Holds(t, IF s.m_fd THEN 1 ELSE 0, s.m_buffers)

LEMMA SameKernelSettles ==
    ASSUME DeviceInv, NEW t \in Threads, NEW s, Becomes(t, s), UNCHANGED kernel,
           s.m_fd = source[t].m_fd, s.m_buffers = source[t].m_buffers
    PROVE  Settles(t, s)
  BY DEF DeviceInv, Kept, Settles, Holds

\* A step of one source: it is enough to look at that source, at what the
\* kernel holds for it and at its thread.
LEMMA OneSourceStep ==
    ASSUME DeviceInv, TypeOK', NEW t \in Threads, NEW s \in SourceRecord,
           Settles(t, s), UNCHANGED inputVars, SetUp(s), Position(s),
           \A u \in Threads \ {t} : src'[u] = src[u],
           s.state # "none" => src'[t] \in {"open", "read", "config"}
    PROVE  DeviceInv'
  <1>0. s.m_buffers \in Nat /\ s.m_fd \in BOOLEAN
    BY DEF SourceRecord
  <1> DEFINE held == [fds |-> IF s.m_fd THEN 1 ELSE 0, maps |-> s.m_buffers]
  <1>1. source' \in [Threads -> SourceRecord]
    BY DEF DeviceInv, Settles, Becomes
  <1>2. kernel' \in [Threads -> [fds : Nat, maps : Nat]]
    <2>1. held \in [fds : Nat, maps : Nat]
      BY <1>0
    <2> QED
      BY <2>1 DEF DeviceInv, Settles, Holds
  <1>3. source'[t] = s /\ kernel'[t] = held
    BY DEF DeviceInv, Settles, Becomes, Holds
  <1>4. \A u \in Threads \ {t} : source'[u] = source[u] /\ kernel'[u] = kernel[u]
    BY DEF DeviceInv, Settles, Becomes, Holds
  <1>5. ASSUME NEW u \in Threads
        PROVE  /\ SetUp(source'[u]) /\ Position(source'[u]) /\ Kept(u)'
               /\ source'[u].state # "none" => src'[u] \in {"open", "read", "config"}
    <2>1. CASE u = t
      BY <1>3, <2>1 DEF Kept
    <2>2. CASE u # t
      BY <1>4, <2>2 DEF DeviceInv, Kept
    <2> QED
      BY <2>1, <2>2
  <1> QED
    BY <1>1, <1>2, <1>5 DEF DeviceInv, inputVars

\* close_device() gives back all that the kernel holds for the source.
LEMMA CloseSettles ==
    ASSUME DeviceInv, NEW t \in Threads, CloseDevice(t), NEW s, Becomes(t, s), ~s.m_fd, s.m_buffers = 0
    PROVE  Settles(t, s)
  <1>1. /\ kernel[t].fds = IF source[t].m_fd THEN 1 ELSE 0
        /\ kernel[t].maps = source[t].m_buffers /\ source[t].m_buffers \in Nat
    BY DEF DeviceInv, Kept, SourceRecord
  <1>2. Holds(t, 0, 0)
    BY <1>1 DEF CloseDevice
  <1> QED
    BY <1>2 DEF Settles

\* NoSource with another state, one in which nothing of a device is open.
LEMMA FailedIsSetUp ==
    LET s == [NoSource EXCEPT !.state = "bad"] IN
    s \in SourceRecord /\ SetUp(s) /\ Position(s) /\ s.state = "bad" /\ ~s.m_fd /\ s.m_buffers = 0
  BY NoSourceIsSetUp DEF NoSource, SourceRecord, States, SetUp, Position

\* A source that fails while it is set up is closed.
LEMMA InitFailsStep ==
    ASSUME DeviceInv, TypeOK', NEW t \in Threads, InitFails(t), UNCHANGED inputVars, src' = src,
           src[t] = "open"
    PROVE  DeviceInv'
  <1> DEFINE s == [NoSource EXCEPT !.state = "bad"]
  <1>1. s \in SourceRecord /\ SetUp(s) /\ Position(s) /\ s.state = "bad" /\ ~s.m_fd /\ s.m_buffers = 0
    BY FailedIsSetUp
  <1>2. Becomes(t, s) /\ CloseDevice(t)
    BY DEF InitFails
  <1> HIDE DEF s
  <1>3. Settles(t, s)
    BY <1>1, <1>2, CloseSettles
  <1> QED
    BY <1>1, <1>3, OneSourceStep

\* A source that ends is closed and gone.
LEMMA DestroyedStep ==
    ASSUME DeviceInv, TypeOK', NEW t \in Threads, Destroyed(t),
           \A u \in Threads \ {t} : src'[u] = src[u]
    PROVE  DeviceInv'
  <1>1. Becomes(t, NoSource) /\ CloseDevice(t) /\ UNCHANGED inputVars
    BY DEF Destroyed
  <1>2. NoSource.state = "none" /\ ~NoSource.m_fd /\ NoSource.m_buffers = 0
    BY DEF NoSource
  <1>3. Settles(t, NoSource)
    BY <1>1, <1>2, CloseSettles
  <1> QED
    BY <1>1, <1>2, <1>3, NoSourceIsSetUp, OneSourceStep

LEMMA OpenStep ==
    ASSUME DeviceInv, TypeOK', NEW t \in Threads,
           OpenFile(t) \/ OpenDevice(t) \/ RequestBuffers(t) \/ MapBuffer(t) \/ QueueBuffer(t) \/ StreamOn(t)
    PROVE  DeviceInv'
  <1> DEFINE o == source[t]
             n == [NoSource EXCEPT !.state = "bad"]
  <1>0. /\ o \in SourceRecord /\ SetUp(o) /\ Position(o) /\ Buffers \in Nat \ {0}
        /\ src[t] = "open" /\ UNCHANGED inputVars /\ src' = src
    BY DeviceAssumption
       DEF DeviceInv, OpenFile, OpenDevice, RequestBuffers, MapBuffer, QueueBuffer, StreamOn,
           Opening, vars
  <1>f. /\ o.m_buffers \in Nat /\ o.driver \in SUBSET Nat /\ o.out \in Nat
        /\ o.m_fd \in BOOLEAN /\ o.m_streaming \in BOOLEAN
    BY <1>0 DEF SourceRecord
  <1>k. kernel[t].fds = (IF o.m_fd THEN 1 ELSE 0) /\ kernel[t].maps = o.m_buffers
    BY DEF DeviceInv, Kept
  <1>a. ASSUME NEW s \in SourceRecord, Settles(t, s), SetUp(s), Position(s)
        PROVE  DeviceInv'
    BY <1>0, <1>a, OneSourceStep
  <1>1. CASE InitFails(t)
    BY <1>0, <1>1, InitFailsStep
  <1>n. CASE Becomes(t, n) /\ UNCHANGED kernel /\ o.state = "none"
    <2>1. n \in SourceRecord /\ SetUp(n) /\ Position(n) /\ ~n.m_fd /\ n.m_buffers = 0
      BY FailedIsSetUp
    <2>2. ~o.m_fd /\ o.m_buffers = 0
      BY <1>0, <1>n DEF SetUp
    <2>3. n.m_fd = o.m_fd
      BY <1>f, <2>1, <2>2 DEF NoSource
    <2> HIDE DEF n
    <2> QED
      BY <1>a, <1>n, <2>1, <2>2, <2>3, SameKernelSettles
  <1>2. CASE OpenFile(t) /\ ~Becomes(t, n)
    <2> DEFINE f == [NoSource EXCEPT !.state = "good", !.m_pending = input.bytes, !.units = input.units]
    <2>1. input.bytes \in Seq(Byte) /\ input.units \in Seq(Seq(Byte)) /\ Len(input.bytes) \in Nat
      BY LengthOfBytes DEF DeviceInv
    <2>2. /\ f.state = "good" /\ f.m_fd = FALSE /\ f.m_buffers = 0 /\ f.driver = {} /\ f.out = 0
          /\ f.m_streaming = FALSE /\ f.m_pending = input.bytes /\ f.pos = 1
      BY DEF NoSource
    <2>3. f \in SourceRecord
      BY <2>1, NoSourceIsSetUp DEF NoSource, SourceRecord, States
    <2>4. Becomes(t, f) /\ UNCHANGED kernel /\ ~o.m_fd /\ o.m_buffers = 0
      BY <1>0, <1>2 DEF OpenFile, SetUp
    <2> HIDE DEF f
    <2>5. SetUp(f) /\ Position(f)
      BY <2>1, <2>2 DEF SetUp, Position
    <2>6. Settles(t, f)
      BY <1>f, <2>2, <2>4, SameKernelSettles
    <2> QED
      BY <1>a, <2>3, <2>5, <2>6
  <1>3. CASE OpenDevice(t) /\ ~Becomes(t, n)
    <2> DEFINE f == [NoSource EXCEPT !.state = "opened", !.m_fd = TRUE]
    <2>1. f \in SourceRecord /\ SetUp(f) /\ Position(f) /\ f.m_fd /\ f.m_buffers = 0
      BY NoSourceIsSetUp DEF NoSource, SourceRecord, States, SetUp, Position
    <2>2. Becomes(t, f) /\ Holds(t, kernel[t].fds + 1, kernel[t].maps) /\ ~o.m_fd /\ o.m_buffers = 0
      BY <1>0, <1>3 DEF OpenDevice, SetUp
    <2>3. Holds(t, 1, 0)
      BY <1>k, <2>2
    <2> HIDE DEF f
    <2>4. Settles(t, f)
      BY <2>1, <2>2, <2>3 DEF Settles
    <2> QED
      BY <1>a, <2>1, <2>4
  <1>4. CASE RequestBuffers(t) /\ ~InitFails(t)
    <2> DEFINE f == [o EXCEPT !.state = "mapping"]
    <2>1. Becomes(t, f) /\ UNCHANGED kernel /\ o.state = "opened"
      BY <1>4 DEF RequestBuffers
    <2>2. o.m_fd /\ o.m_buffers = 0 /\ o.driver = {} /\ o.out = 0 /\ ~o.m_streaming
      BY <1>0, <2>1 DEF SetUp
    <2>3. /\ f.state = "mapping" /\ f.m_fd = o.m_fd /\ f.m_buffers = 0 /\ f.driver = {} /\ f.out = 0
          /\ f.m_streaming = o.m_streaming /\ f.m_pending = o.m_pending /\ f.pos = o.pos
      BY <1>0, <2>2 DEF SourceRecord
    <2>4. f \in SourceRecord
      BY <1>0 DEF SourceRecord, States
    <2>5. 1 .. 0 = {}
      OBVIOUS
    <2> HIDE DEF f
    <2>6. SetUp(f) /\ Position(f)
      BY <1>0, <2>2, <2>3, <2>5 DEF SetUp, Position
    <2>7. Settles(t, f)
      BY <2>1, <2>2, <2>3, SameKernelSettles
    <2> QED
      BY <1>a, <2>4, <2>6, <2>7
  <1>5. CASE MapBuffer(t) /\ ~InitFails(t)
    <2> DEFINE f == [o EXCEPT !.state = "mapped", !.m_buffers = @ + 1]
    <2>1. Becomes(t, f) /\ Holds(t, kernel[t].fds, kernel[t].maps + 1) /\ o.state = "mapping"
      BY <1>5 DEF MapBuffer
    <2>2. o.m_fd /\ o.m_buffers < Buffers /\ o.driver = 1 .. o.m_buffers /\ o.out = 0 /\ ~o.m_streaming
      BY <1>0, <2>1 DEF SetUp
    <2>3. /\ f.state = "mapped" /\ f.m_fd = o.m_fd /\ f.m_buffers = o.m_buffers + 1
          /\ f.driver = o.driver /\ f.out = 0
          /\ f.m_streaming = o.m_streaming /\ f.m_pending = o.m_pending /\ f.pos = o.pos
      BY <1>0, <2>2 DEF SourceRecord
    <2>4. f \in SourceRecord
      <3>1. o.m_buffers + 1 \in Nat /\ "mapped" \in States
        BY <1>f DEF States
      <3> QED
        BY <1>0, <3>1 DEF SourceRecord
    <2>5. (o.m_buffers + 1) - 1 = o.m_buffers /\ o.m_buffers + 1 \in 1 .. Buffers
      BY <1>0, <1>f, <2>2
    <2> HIDE DEF f
    <2>6. SetUp(f) /\ Position(f)
      BY <1>0, <2>2, <2>3, <2>5 DEF SetUp, Position
    <2>7. Holds(t, 1, o.m_buffers + 1)
      BY <1>k, <2>1, <2>2
    <2>8. Settles(t, f)
      BY <2>1, <2>2, <2>3, <2>7 DEF Settles
    <2> QED
      BY <1>a, <2>4, <2>6, <2>8
  <1>6. CASE QueueBuffer(t) /\ ~InitFails(t)
    <2> DEFINE state == IF o.m_buffers < Buffers THEN "mapping" ELSE "mapped"
               f == [o EXCEPT !.driver = o.driver \cup {o.m_buffers}, !.state = state]
    <2>1. /\ Becomes(t, [o EXCEPT !.driver = @ \cup {o.m_buffers},
                              !.state = IF o.m_buffers < Buffers THEN "mapping" ELSE @])
          /\ UNCHANGED kernel /\ o.state = "mapped" /\ o.m_buffers \notin o.driver
      BY <1>6 DEF QueueBuffer
    <2>2. o.m_buffers \in 1 .. Buffers /\ o.driver = 1 .. o.m_buffers - 1 /\ o.m_fd /\ o.out = 0 /\ ~o.m_streaming
      BY <1>0, <2>1 DEF SetUp
    <2>3. o.driver \cup {o.m_buffers} = 1 .. o.m_buffers
      BY <1>0, <2>2
    <2>4. Becomes(t, f)
      BY <1>0, <2>1 DEF SourceRecord
    <2>5. /\ f.state = state /\ f.m_fd = o.m_fd /\ f.m_buffers = o.m_buffers
          /\ f.driver = 1 .. o.m_buffers /\ f.out = 0
          /\ f.m_streaming = o.m_streaming /\ f.m_pending = o.m_pending /\ f.pos = o.pos
      BY <1>0, <2>2, <2>3 DEF SourceRecord
    <2>6. o.driver \cup {o.m_buffers} \in SUBSET Nat /\ state \in States
      BY <1>f DEF States
    <2> HIDE DEF state
    <2>7. f \in SourceRecord
      BY <1>0, <2>6 DEF SourceRecord
    <2> HIDE DEF f
    <2>8. SetUp(f) /\ Position(f)
      BY <1>0, <2>2, <2>5 DEF SetUp, Position, state
    <2>9. Settles(t, f)
      BY <2>1, <2>4, <2>5, SameKernelSettles
    <2> QED
      BY <1>a, <2>7, <2>8, <2>9
  <1>7. CASE StreamOn(t) /\ ~InitFails(t)
    <2> DEFINE f == [o EXCEPT !.state = "good", !.m_streaming = TRUE]
    <2>1. Becomes(t, f) /\ UNCHANGED kernel /\ o.state = "mapped" /\ o.m_buffers \in o.driver
      BY <1>7 DEF StreamOn
    <2>2. o.driver = 1 .. Buffers /\ o.m_buffers = Buffers /\ o.out = 0 /\ o.m_fd
      BY <1>0, <2>1 DEF SetUp
    <2>3. /\ f.m_fd = o.m_fd /\ f.m_buffers = Buffers
          /\ f.driver = (1 .. Buffers) \ {0} /\ f.out = 0 /\ f.m_streaming = TRUE /\ f.state = "good"
          /\ f.m_pending = o.m_pending /\ f.pos = o.pos
      <3>1. 1 .. Buffers = (1 .. Buffers) \ {0}
        BY <1>0
      <3> QED
        BY <1>0, <2>1, <2>2, <3>1 DEF SourceRecord
    <2>4. f \in SourceRecord
      BY <1>0 DEF SourceRecord, States
    <2> HIDE DEF f
    <2>5. SetUp(f) /\ Position(f)
      BY <1>0, <2>2, <2>3 DEF SetUp, Position
    <2>6. Settles(t, f)
      BY <2>1, <2>2, <2>3, SameKernelSettles
    <2> QED
      BY <1>a, <2>4, <2>5, <2>6
  <1>8. OpenFile(t) /\ Becomes(t, n) => UNCHANGED kernel /\ o.state = "none"
    BY DEF OpenFile
  <1>9. OpenDevice(t) /\ Becomes(t, n) => UNCHANGED kernel /\ o.state = "none"
    <2>1. n.m_fd = FALSE
      BY DEF NoSource
    <2>2. [NoSource EXCEPT !.state = "opened", !.m_fd = TRUE].m_fd = TRUE
      BY DEF NoSource
    <2> QED
      BY <2>1, <2>2 DEF OpenDevice, Becomes, DeviceInv
  <1> QED
    BY <1>1, <1>n, <1>2, <1>3, <1>4, <1>5, <1>6, <1>7, <1>8, <1>9

\* Taking NALs out of the bytes moves the position only.
LEMMA TurnStaysInside ==
    ASSUME DeviceInv, NEW t \in Threads
    PROVE  LET r == NextTurn(t) IN
           r.buffer \in Seq(Byte) /\ r.nal \in Seq(Byte) /\ r.pos \in 1 .. Len(r.buffer) + 1
  <1> DEFINE b == source[t].m_pending
             pos == source[t].pos
  <1>1. b \in Seq(Byte) /\ pos \in Nat \ {0} /\ pos <= Len(b) + 1
    BY DEF DeviceInv, SourceRecord, Position
  <1>2. Len(b) \in Nat /\ <<>> \in Seq(Byte) /\ Len(<<>>) = 0
    BY <1>1, LengthOfBytes, EmptySeq
  <1>3. pos \in 1 .. Len(b) + 1
    BY <1>1, <1>2
  <1> HIDE DEF b, pos
  <1>4. CASE uri = "file"
    <2> DEFINE r == FileTurn(b, pos)
    <2>1. r.buffer = b /\ r.nal \in Seq(Byte) /\ (r.pos = Len(b) + 1 \/ r.pos \in pos + 3 .. Len(b) + 1)
      BY <1>1, <1>3, FileTurnDelivers
    <2> HIDE DEF r
    <2>2. r.pos \in 1 .. Len(b) + 1
      BY <1>2, <1>3, <2>1
    <2> QED
      BY <1>1, <1>4, <2>1, <2>2 DEF NextTurn, r, b, pos
  <1>5. CASE uri # "file"
    <2> DEFINE r == PendingTurn(b, pos)
    <2>1. /\ r.nal \in Seq(Byte)
          /\ \/ r.buffer = <<>> /\ r.pos = 1
             \/ r.buffer = b /\ r.pos \in pos + 3 .. Len(b) + 1
      <3>1. r.nal \in Seq(Byte)
        BY <1>1, <1>3, PendingTurnDelivers
      <3>2. \/ r.buffer = <<>> /\ r.pos = 1
            \/ r.buffer = b /\ r.pos \in pos + 3 .. Len(b) + 1
        BY <1>1, <1>3, PendingTurnDelivers
      <3> QED
        BY <3>1, <3>2
    <2> HIDE DEF r
    <2>2. CASE r.buffer = <<>> /\ r.pos = 1
      <3>1. r.pos \in 1 .. Len(r.buffer) + 1 /\ r.buffer \in Seq(Byte)
        BY <1>2, <2>2
      <3> QED
        BY <1>5, <2>1, <3>1 DEF NextTurn, r, b, pos
    <2>3. CASE r.buffer = b /\ r.pos \in pos + 3 .. Len(b) + 1
      <3>1. r.pos \in 1 .. Len(b) + 1
        BY <1>2, <1>3, <2>3
      <3> QED
        BY <1>1, <1>5, <2>1, <2>3, <3>1 DEF NextTurn, r, b, pos
    <2> QED
      BY <2>1, <2>2, <2>3
  <1> QED
    BY <1>4, <1>5

\* What SetUp does not look at may change.
LEMMA SetUpDependsOn ==
    ASSUME NEW s, NEW o, SetUp(o), s.state = o.state, s.m_fd = o.m_fd, s.m_buffers = o.m_buffers,
           s.driver = o.driver, s.out = o.out, s.m_streaming = o.m_streaming
    PROVE  SetUp(s)
  BY DEF SetUp

LEMMA ReadStep ==
    ASSUME DeviceInv, TypeOK', NEW t \in Threads,
           \/ Scan(t) \/ (\E i \in 1 .. Buffers : Dequeue(t, i)) \/ Requeue(t)
           \/ ConfigInHand(t) \/ OtherNal(t)
    PROVE  DeviceInv'
  <1> DEFINE o == source[t]
  <1>0. /\ o \in SourceRecord /\ SetUp(o) /\ Position(o) /\ Buffers \in Nat \ {0}
        /\ src[t] = "read" /\ UNCHANGED inputVars /\ UNCHANGED kernel
        /\ src'[t] \in {"read", "config"} /\ \A u \in Threads \ {t} : src'[u] = src[u]
    BY DeviceAssumption
       DEF DeviceInv, TypeOK, Scan, Scanning, Dequeue, Requeue, ConfigInHand, ConfigNal, Moves, OtherNal,
           LetGo, vars
  <1>f. /\ o.m_buffers \in Nat /\ o.driver \in SUBSET Nat /\ o.out \in Nat
        /\ o.m_fd \in BOOLEAN /\ o.m_streaming \in BOOLEAN
    BY <1>0 DEF SourceRecord
  <1>a. ASSUME NEW s \in SourceRecord, Becomes(t, s), SetUp(s), Position(s),
               s.m_fd = o.m_fd, s.m_buffers = o.m_buffers
        PROVE  DeviceInv'
    BY <1>0, <1>a, SameKernelSettles, OneSourceStep
  <1>1. CASE Scan(t)
    <2> DEFINE r == NextTurn(t)
               nals == IF r.nal = <<>> THEN o.got ELSE Append(o.got, r.nal)
               more == r.nal # <<>>
               f == [o EXCEPT !.m_pending = r.buffer, !.pos = r.pos, !.hand = more, !.got = nals]
    <2>1. Becomes(t, f)
      BY <1>0, <1>1 DEF Scan, SourceRecord
    <2>2. r.buffer \in Seq(Byte) /\ r.nal \in Seq(Byte) /\ r.pos \in 1 .. Len(r.buffer) + 1
      BY TurnStaysInside
    <2> HIDE DEF r
    <2>3. nals \in Seq(Seq(Byte)) /\ Len(r.buffer) \in Nat /\ more \in BOOLEAN
      BY <1>0, <2>2, AppendProperties, LengthOfBytes DEF SourceRecord
    <2>4. r.pos \in Nat \ {0} /\ r.pos <= Len(r.buffer) + 1
      BY <2>2, <2>3
    <2> HIDE DEF nals, more
    <2>5. f \in SourceRecord
      BY <1>0, <2>2, <2>3, <2>4 DEF SourceRecord
    <2>6. /\ f.state = o.state /\ f.m_fd = o.m_fd /\ f.m_buffers = o.m_buffers /\ f.driver = o.driver
          /\ f.out = o.out /\ f.m_streaming = o.m_streaming /\ f.m_pending = r.buffer /\ f.pos = r.pos
      BY <1>0 DEF SourceRecord
    <2> HIDE DEF f
    <2>7. SetUp(f) /\ Position(f)
      BY <1>0, <2>4, <2>6, SetUpDependsOn DEF Position
    <2> QED
      BY <1>a, <2>1, <2>5, <2>6, <2>7
  <1>2. ASSUME NEW i \in 1 .. Buffers, Dequeue(t, i) PROVE DeviceInv'
    <2>1. PICK c \in Unusual \cup {input} :
             Becomes(t, [o EXCEPT !.driver = @ \ {i}, !.out = i, !.m_pending = c.bytes,
                                  !.pos = 1, !.units = c.units, !.got = <<>>])
      BY <1>2 DEF Dequeue
    <2> DEFINE f == [o EXCEPT !.driver = o.driver \ {i}, !.out = i, !.m_pending = c.bytes,
                              !.pos = 1, !.units = c.units, !.got = <<>>]
    <2>2. Becomes(t, f)
      BY <1>0, <2>1 DEF SourceRecord
    <2>3. c.bytes \in Seq(Byte) /\ c.units \in Seq(Seq(Byte)) /\ Len(c.bytes) \in Nat
          /\ <<>> \in Seq(Seq(Byte))
      <3>1. c.bytes \in Seq(Byte) /\ c.units \in Seq(Seq(Byte))
        BY DeviceAssumption DEF DeviceInv
      <3> QED
        BY <3>1, LengthOfBytes, EmptySeq
    <2>4. i \in o.driver /\ o.state = "good" /\ o.out = 0
      BY <1>2 DEF Dequeue, Scanning
    <2>5. o.m_fd /\ o.m_streaming /\ o.m_buffers = Buffers /\ o.driver = (1 .. Buffers) \ {0}
      BY <1>0, <1>f, <2>4 DEF SetUp
    <2>6. o.driver \ {i} = (1 .. Buffers) \ {i} /\ o.driver \ {i} \in SUBSET Nat /\ i \in Nat /\ i # 0
      BY <1>0, <2>5
    <2>7. f \in SourceRecord
      <3> DEFINE left == o.driver \ {i}
                 bytes == c.bytes
                 units == c.units
                 g == [o EXCEPT !.driver = left, !.out = i, !.m_pending = bytes,
                                !.pos = 1, !.units = units, !.got = <<>>]
      <3>1. left \in SUBSET Nat /\ i \in Nat /\ 1 \in Nat \ {0}
        BY <2>6
      <3>2. bytes \in Seq(Byte) /\ units \in Seq(Seq(Byte)) /\ <<>> \in Seq(Seq(Byte))
        BY <2>3
      <3> HIDE DEF left, bytes, units
      <3>3. g \in SourceRecord
        BY <1>0, <3>1, <3>2 DEF SourceRecord
      <3>4. f = g
        BY DEF left, bytes, units
      <3> QED
        BY <3>3, <3>4
    <2>8. /\ f.state = o.state /\ f.m_fd = o.m_fd /\ f.m_buffers = o.m_buffers
          /\ f.driver = (1 .. Buffers) \ {i}
          /\ f.out = i /\ f.m_streaming = o.m_streaming /\ f.m_pending = c.bytes /\ f.pos = 1
      BY <1>0, <2>6 DEF SourceRecord
    <2> HIDE DEF f
    <2>9. SetUp(f)
      BY <1>0, <2>4, <2>5, <2>6, <2>8 DEF SetUp
    <2>10. Position(f)
      BY <2>3, <2>8 DEF Position
    <2> QED
      BY <1>a, <2>2, <2>7, <2>8, <2>9, <2>10
  <1>3. CASE Requeue(t)
    <2> DEFINE state == IF o.m_pending = <<>> THEN "over" ELSE o.state
               f == [o EXCEPT !.out = 0, !.driver = o.driver \cup {o.out}, !.state = state]
    <2>1. Becomes(t, f) /\ o.out # 0
      BY <1>0, <1>3 DEF Requeue, SourceRecord
    <2>2. /\ o.m_fd /\ o.m_streaming /\ o.state \in {"good", "over"} /\ o.m_buffers = Buffers
          /\ o.out \in 0 .. Buffers /\ o.driver = (1 .. Buffers) \ {o.out}
      BY <1>0, <1>f, <2>1 DEF SetUp
    <2>3. o.driver \cup {o.out} = (1 .. Buffers) \ {0} /\ o.driver \cup {o.out} \in SUBSET Nat
      BY <1>0, <2>1, <2>2
    <2>4. state \in {"good", "over"}
      BY <2>2
    <2> HIDE DEF state
    <2>5. f \in SourceRecord
      BY <1>0, <2>3, <2>4 DEF SourceRecord, States
    <2>6. /\ f.state = state /\ f.m_fd = o.m_fd /\ f.m_buffers = o.m_buffers
          /\ f.driver = (1 .. Buffers) \ {0}
          /\ f.out = 0 /\ f.m_streaming = o.m_streaming /\ f.m_pending = o.m_pending /\ f.pos = o.pos
      BY <1>0, <2>3 DEF SourceRecord
    <2> HIDE DEF f
    <2>7. SetUp(f) /\ Position(f)
      BY <1>0, <2>2, <2>4, <2>6 DEF SetUp, Position
    <2> QED
      BY <1>a, <2>1, <2>5, <2>6, <2>7
  <1>4. CASE LetGo(t)
    <2> DEFINE f == [o EXCEPT !.hand = FALSE]
    <2>1. Becomes(t, f)
      BY <1>4 DEF LetGo
    <2>2. f \in SourceRecord
      BY <1>0 DEF SourceRecord
    <2>3. /\ f.state = o.state /\ f.m_fd = o.m_fd /\ f.m_buffers = o.m_buffers /\ f.driver = o.driver
          /\ f.out = o.out /\ f.m_streaming = o.m_streaming /\ f.m_pending = o.m_pending /\ f.pos = o.pos
      BY <1>0 DEF SourceRecord
    <2> HIDE DEF f
    <2>4. SetUp(f) /\ Position(f)
      BY <1>0, <2>3, SetUpDependsOn DEF Position
    <2> QED
      BY <1>a, <2>1, <2>2, <2>3, <2>4
  <1> QED
    BY <1>1, <1>2, <1>3, <1>4 DEF ConfigInHand, OtherNal

\* A step that leaves the sources alone leaves an existing one its thread.
LEMMA ThreadStep ==
    ASSUME DeviceInv, TypeOK', UNCHANGED deviceVars,
           \A t \in Threads : src[t] \in {"open", "read", "config"} => src'[t] \in {"open", "read", "config"}
    PROVE  DeviceInv'
  BY DEF DeviceInv, deviceVars, inputVars, Kept

LEMMA DeviceInvStep == DeviceInv /\ [AllNext]_allVars => DeviceInv'
  <1> SUFFICES ASSUME DeviceInv, [AllNext]_allVars PROVE DeviceInv'
    OBVIOUS
  <1>0. TypeOK' /\ src \in [Threads -> SrcPlaces]
    BY DeviceStepIsSourceStep, SourceTypesStep DEF DeviceInv, TypeOK, SrcPlaces
  <1>1. ASSUME NEW c \in Controllers, StartNext(c) \/ StopNext(c), UNCHANGED deviceVars PROVE DeviceInv'
    <2>1. \A t \in Threads : src[t] \in {"open", "read", "config"} => src'[t] = src[t]
      BY <1>0, <1>1 DEF StartNext, StopNext, StartCheck, StartThread, StartFails, MarkStarted,
                        StopRequest, JoinBegin, JoinEnd, StopClear, Live
    <2> QED
      BY <1>0, <1>1, <2>1, ThreadStep
  <1>2. ASSUME NEW t \in Threads, DeviceNext(t) PROVE DeviceInv'
    <2>1. CASE OpenFile(t) \/ OpenDevice(t) \/ RequestBuffers(t) \/ MapBuffer(t) \/ QueueBuffer(t) \/ StreamOn(t)
      BY <1>0, <2>1, OpenStep
    <2>2. CASE SourceBad(t)
      <3>1. /\ Becomes(t, NoSource) /\ source[t].state = "bad" /\ UNCHANGED <<inputVars, kernel>>
            /\ \A u \in Threads \ {t} : src'[u] = src[u]
        BY <1>0, <2>2 DEF SourceBad, OpenFails, Moves, Turns
      <3>2. ~source[t].m_fd /\ source[t].m_buffers = 0 /\ source[t].m_fd \in BOOLEAN
        BY <3>1 DEF DeviceInv, SetUp, SourceRecord
      <3>3. NoSource.state = "none" /\ NoSource.m_fd = FALSE /\ NoSource.m_buffers = 0
        BY DEF NoSource
      <3>4. Settles(t, NoSource)
        BY <3>1, <3>2, <3>3, SameKernelSettles
      <3> QED
        BY <1>0, <3>1, <3>3, <3>4, NoSourceIsSetUp, OneSourceStep
    <2>3. CASE SourceGood(t) \/ ((LoopTop(t) \/ PublishConfig(t) \/ ThreadEnds(t)) /\ UNCHANGED deviceVars)
      <3>1. UNCHANGED deviceVars
        BY <2>3 DEF SourceGood
      <3>2. \A u \in Threads : src[u] \in {"open", "read", "config"} => src'[u] \in {"open", "read", "config"}
        BY <1>0, <2>3 DEF SourceGood, OpenSucceeds, LoopTop, PublishConfig, ThreadEnds, Moves
      <3> QED
        BY <1>0, <3>1, <3>2, ThreadStep
    <2>4. CASE \/ Scan(t) \/ (\E i \in 1 .. Buffers : Dequeue(t, i)) \/ Requeue(t)
               \/ ConfigInHand(t) \/ OtherNal(t)
      BY <1>0, <2>4, ReadStep
    <2>5. CASE SourceOver(t) \/ StopWithNal(t)
      <3>1. Destroyed(t) /\ \A u \in Threads \ {t} : src'[u] = src[u]
        BY <1>0, <2>5 DEF SourceOver, StopWithNal, SourceEnds, StopSeen, Moves
      <3> QED
        BY <1>0, <3>1, DestroyedStep
    <2>6. \/ OpenFile(t) \/ OpenDevice(t) \/ RequestBuffers(t) \/ MapBuffer(t) \/ QueueBuffer(t) \/ StreamOn(t)
          \/ SourceBad(t)
          \/ SourceGood(t) \/ ((LoopTop(t) \/ PublishConfig(t) \/ ThreadEnds(t)) /\ UNCHANGED deviceVars)
          \/ Scan(t) \/ (\E i \in 1 .. Buffers : Dequeue(t, i)) \/ Requeue(t) \/ ConfigInHand(t) \/ OtherNal(t)
          \/ SourceOver(t) \/ StopWithNal(t)
      BY <1>2 DEF DeviceNext
    <2> QED
      BY <2>1, <2>2, <2>3, <2>4, <2>5, <2>6
  <1>3. CASE UNCHANGED allVars
    BY <1>3 DEF allVars, vars, deviceVars, inputVars, DeviceInv, Kept, TypeOK, flags
  <1> QED
    BY <1>1, <1>2, <1>3 DEF AllNext

LEMMA DeviceInvAlways == DeviceSpec => []DeviceInv
  BY DeviceInvInit, DeviceInvStep, PTL DEF DeviceSpec

-----------------------------------------------------------------------------
(* What follows for every number of threads and buffers.                   *)

\* The types, and with them how the set-up of a device and its buffers are
\* related (init_device(), dequeue_encoded_buffer()).
THEOREM DeviceTypeCorrect == DeviceSpec => []DeviceTypeOK
  <1>1. DeviceInv => DeviceTypeOK
    <2> SUFFICES ASSUME DeviceInv PROVE DeviceTypeOK
      OBVIOUS
    <2>1. ASSUME NEW t \in Threads
          PROVE  LET s == source[t] IN
                 /\ s.state \in States
                 /\ s.driver \cup ({s.out} \ {0}) \subseteq 1 .. s.m_buffers
                 /\ s.m_buffers <= Buffers /\ s.pos \in 1 .. Len(s.m_pending) + 1
                 /\ s.m_streaming <=> s.state \in {"good", "over"} /\ s.m_fd
                 /\ s.m_streaming => s.m_buffers = Buffers
                 /\ s.state # "none" => src[t] \in {"open", "read", "config"}
      <3> DEFINE s == source[t]
      <3>1. /\ s \in SourceRecord /\ SetUp(s) /\ Position(s) /\ Buffers \in Nat \ {0}
            /\ s.state # "none" => src[t] \in {"open", "read", "config"}
        BY DeviceAssumption DEF DeviceInv
      <3>2. /\ s.state \in States /\ s.m_buffers \in Nat /\ s.pos \in Nat \ {0} /\ s.m_pending \in Seq(Byte)
            /\ s.m_fd \in BOOLEAN /\ s.m_streaming \in BOOLEAN /\ s.driver \in SUBSET Nat /\ s.out \in Nat
        BY <3>1 DEF SourceRecord
      <3>3. s.pos \in 1 .. Len(s.m_pending) + 1
        BY <3>1, <3>2, LengthOfBytes DEF Position
      <3> HIDE DEF s
      <3>4. s.m_buffers <= Buffers
        BY <3>1, <3>2 DEF SetUp, States
      <3>5. s.driver \cup ({s.out} \ {0}) \subseteq 1 .. s.m_buffers
        BY <3>1, <3>2 DEF SetUp, States
      <3>6. /\ s.m_streaming <=> s.state \in {"good", "over"} /\ s.m_fd
            /\ s.m_streaming => s.m_buffers = Buffers
        BY <3>1 DEF SetUp
      <3> QED
        BY <3>1, <3>2, <3>3, <3>4, <3>5, <3>6 DEF s
    <2> QED
      BY <2>1 DEF DeviceInv, DeviceTypeOK, States
  <1> QED
    BY <1>1, DeviceInvAlways, PTL

\* next_nal() waits for the encoder and never for a buffer that was not given
\* back (dequeue_encoded_buffer()).
THEOREM DriverKeepsBuffers == DeviceSpec => []DriverHasBuffers
  <1>1. DeviceInv => DriverHasBuffers
    <2> SUFFICES ASSUME DeviceInv, NEW t \in Threads, source[t].m_streaming, source[t].out = 0
                 PROVE  source[t].driver = 1 .. Buffers
      BY DEF DriverHasBuffers
    <2>1. source[t].driver = (1 .. Buffers) \ {0}
      BY DEF DeviceInv, SetUp
    <2> QED
      BY <2>1, DeviceAssumption
  <1> QED
    BY <1>1, DeviceInvAlways, PTL

\* What the process holds is what its sources name, however far a set-up came
\* before it failed, and whoever starts and stops (init_device(), close_device()).
THEOREM NothingIsLeftBehind == DeviceSpec => []NothingLeftBehind
  <1>1. DeviceInv => NothingLeftBehind
    BY DEF DeviceInv, Kept, NothingLeftBehind
  <1> QED
    BY <1>1, DeviceInvAlways, PTL

-----------------------------------------------------------------------------
(* The units of a content, delivered one by one.                           *)

\* Two codes share no byte, except that 00 00 00 01 ends with 00 00 01.
LEMMA CodesApart ==
    ASSUME NEW b \in Seq(Byte), NEW n \in Nat \ {0}, NEW q \in Nat,
           CodeLength(b, n) # 0, CodeLength(b, q) = 3, n <= q
    PROVE  q + 3 = n + CodeLength(b, n) \/ n + CodeLength(b, n) <= q
  <1>1. Len(b) \in Nat
    BY LengthOfBytes
  <1>2. CodeLength(b, n) = 3 => b[n] = 0 /\ b[n + 1] = 0 /\ b[n + 2] = 1
    BY DEF CodeLength
  <1>3. CodeLength(b, n) = 4 => b[n] = 0 /\ b[n + 1] = 0 /\ b[n + 2] = 0 /\ b[n + 3] = 1
    BY DEF CodeLength
  <1>4. b[q] = 0 /\ b[q + 1] = 0 /\ b[q + 2] = 1
    BY DEF CodeLength
  <1>5. CodeLength(b, n) \in {3, 4}
    BY DEF CodeLength
  <1> DEFINE length == CodeLength(b, n)
  <1> HIDE DEF length
  <1>6. CASE length = 3
    <2>1. q = n \/ q = n + 1 \/ q = n + 2 \/ n + 3 <= q
      OBVIOUS
    <2> QED
      BY <1>2, <1>4, <1>6, <2>1 DEF length
  <1>7. CASE length = 4
    <2>1. q = n \/ q = n + 1 \/ q = n + 2 \/ q = n + 3 \/ n + 4 <= q
      OBVIOUS
    <2> QED
      BY <1>3, <1>4, <1>7, <2>1 DEF length
  <1> QED
    BY <1>5, <1>6, <1>7 DEF length

IsContent(o) == o.bytes \in Seq(Byte) /\ o.units \in Seq(Seq(Byte)) /\ WellFormed(o)

\* A byte other than zero between a code and the next one is in a unit.
LEMMA OnlyUnitsBetween ==
    ASSUME NEW o, IsContent(o),
           NEW pos \in 1 .. Len(o.bytes) + 1, NextCode(o.bytes, pos) <= Len(o.bytes),
           NEW i \in NalStart(o.bytes, pos) .. NextCode(o.bytes, NalStart(o.bytes, pos)) - 1,
           o.bytes[i] # 0
    PROVE  \E k \in 1 .. Len(o.units) : Within(o, k, i)
  <1> DEFINE b == o.bytes
             n == NextCode(b, pos)
             start == NalStart(b, pos)
             next == NextCode(b, start)
  <1>0. b \in Seq(Byte)
    BY DEF IsContent
  <1>1. Len(b) \in Nat /\ n \in pos .. Len(b) + 1 /\ n <= Len(b)
    BY <1>0, LengthOfBytes, NextCodeIsFirst
  <1>2. CodeLength(b, n) # 0
    <2>1. n = Len(b) + 1 \/ CodeLength(b, n) # 0
      BY <1>0, NextCodeIsFirst
    <2> HIDE DEF n
    <2> QED
      BY <1>1, <2>1
  <1>3. start \in pos + 3 .. Len(b) + 1
    BY <1>0, NalStartIsInside
  <1>4. start \in 1 .. Len(b) + 1
    BY <1>1, <1>3
  <1>5. /\ next \in start .. Len(b) + 1
        /\ \A j \in start .. next - 1 : CodeLength(b, j) = 0
    BY <1>0, <1>4, NextCodeIsFirst
  <1>6. b[start - 1] = 1
    <2>1. CodeLength(b, n) \in {3, 4} /\ start = n + CodeLength(b, n)
      BY <1>2 DEF CodeLength, NalStart
    <2>2. CodeLength(b, n) = 3 => b[n + 2] = 1
      BY DEF CodeLength
    <2>3. CodeLength(b, n) = 4 => b[n + 3] = 1
      BY DEF CodeLength
    <2> HIDE DEF start, n
    <2> QED
      BY <1>1, <2>1, <2>2, <2>3
  <1>7. i \in start .. next - 1
    OBVIOUS
  <1> HIDE DEF start, next, n
  <1>8. i \in 1 .. Len(b) /\ i \in Nat
    BY <1>1, <1>4, <1>5, <1>7
  <1>9. ~EndsCode(b, i)
    <2> SUFFICES ASSUME i > 2, b[i - 2] = 0, b[i - 1] = 0, b[i] = 1 PROVE FALSE
      BY DEF EndsCode
    <2>1. i - 1 # start - 1 /\ i - 2 # start - 1
      BY <1>6
    <2>2. i - 2 \in start .. next - 1 /\ i - 2 \in Nat /\ i - 2 + 2 <= Len(b)
      BY <1>1, <1>4, <1>5, <1>7, <1>8, <2>1
    <2>3. i - 2 + 1 = i - 1 /\ i - 2 + 2 = i
      BY <1>8
    <2>4. CodeLength(b, i - 2) = 3
      BY <2>2, <2>3 DEF CodeLength
    <2> QED
      BY <1>5, <2>2, <2>4
  <1> QED
    BY <1>0, <1>8, <1>9 DEF IsContent, WellFormed

\* The first units are behind a position, the others begin with their codes in
\* front of them still to come.
Between(o, m, pos) ==
    /\ \A k \in 1 .. m : o.at[k].last < pos
    /\ \A k \in m + 1 .. Len(o.units) : pos + 3 <= o.at[k].first

\* A turn that finds a code between unit m and the next steps over an empty
\* unit, or delivers that next unit; the position it leaves, whether in front of
\* the zeros or of the next code, is between units again.
LEMMA UnitAfterUnit ==
    ASSUME NEW o, IsContent(o),
           NEW pos \in 1 .. Len(o.bytes) + 1, NextCode(o.bytes, pos) <= Len(o.bytes),
           NEW m \in 0 .. Len(o.units), Between(o, m, pos)
    PROVE  LET start == NalStart(o.bytes, pos)
               end == TrimmedEnd(o.bytes, start)
               next == NextCode(o.bytes, start) IN
           \/ end = start - 1 /\ Between(o, m, start) /\ Between(o, m, next)
           \/ /\ m < Len(o.units) /\ start <= end
              /\ SubSeq(o.bytes, start, end) = o.units[m + 1]
              /\ Between(o, m + 1, end + 1) /\ Between(o, m + 1, next)
  <1> DEFINE b == o.bytes
             U == 1 .. Len(o.units)
             n == NextCode(b, pos)
             start == NalStart(b, pos)
             next == NextCode(b, start)
             end == TrimmedEnd(b, start)
             first(k) == o.at[k].first
             final(k) == o.at[k].last
  <1>0. b \in Seq(Byte) /\ o.units \in Seq(Seq(Byte)) /\ WellFormed(o)
    BY DEF IsContent
  <1>1. Len(b) \in Nat /\ Len(o.units) \in Nat /\ n \in pos .. Len(b) + 1 /\ n <= Len(b)
    <2>1. Len(b) \in Nat /\ Len(o.units) \in Nat
      BY <1>0, LengthOfBytes, LenProperties
    <2>2. n \in pos .. Len(b) + 1
      BY <1>0, NextCodeIsFirst
    <2> QED
      BY <2>1, <2>2
  <1>2. CodeLength(b, n) # 0 /\ \A j \in pos .. n - 1 : CodeLength(b, j) = 0
    <2>1. n = Len(b) + 1 \/ CodeLength(b, n) # 0
      BY <1>0, NextCodeIsFirst
    <2>2. \A j \in pos .. n - 1 : CodeLength(b, j) = 0
      BY <1>0, NextCodeIsFirst
    <2> HIDE DEF n
    <2> QED
      BY <1>1, <2>1, <2>2
  <1>3. start \in pos + 3 .. Len(b) + 1
    BY <1>0, NalStartIsInside
  <1>4. start \in 1 .. Len(b) + 1 /\ start = n + CodeLength(b, n) /\ n < start
    <2>1. CodeLength(b, n) \in {3, 4}
      BY <1>2 DEF CodeLength
    <2> QED
      BY <1>1, <1>3, <2>1 DEF NalStart
  <1>5. /\ next \in start .. Len(b) + 1 /\ (next = Len(b) + 1 \/ CodeLength(b, next) # 0)
        /\ \A j \in start .. next - 1 : CodeLength(b, j) = 0
    BY <1>0, <1>4, NextCodeIsFirst
  <1>6. end \in start - 1 .. next - 1 /\ (end = start - 1 \/ b[end] # 0)
        /\ \A j \in end + 1 .. next - 1 : b[j] = 0
    BY <1>0, <1>4, TrimmedEndIsLast
  <1>7. ASSUME NEW i \in start .. next - 1, b[i] # 0
        PROVE  \E k \in U : Within(o, k, i)
    BY <1>7, OnlyUnitsBetween
  <1>8. ASSUME NEW k \in U
        PROVE  /\ first(k) \in Nat /\ final(k) \in Nat /\ 3 < first(k) /\ first(k) <= final(k)
               /\ final(k) <= Len(b) /\ CodeLength(b, first(k) - 3) = 3 /\ b[final(k)] # 0
               /\ o.units[k] = SubSeq(b, first(k), final(k))
               /\ \A i \in first(k) .. final(k) : CodeLength(b, i) = 0
    <2>1. UnitLies(o, k)
      BY <1>0 DEF WellFormed
    <2> QED
      BY <2>1 DEF UnitLies
  <1>9. \A j, k \in U : j < k => final(j) + 3 < first(k)
    BY <1>0 DEF WellFormed
  <1>10. /\ \A k \in U : k <= m => final(k) < pos
         /\ \A k \in U : k > m => pos + 3 <= first(k)
    BY <1>1 DEF Between
  <1> HIDE DEF start, next, end, n
  <1>a. start \in Nat /\ next \in Nat /\ end \in Int
    BY <1>1, <1>4, <1>5, <1>6
  <1>b. start <= next /\ next <= Len(b) + 1 /\ start - 1 <= end /\ end <= next - 1
    BY <1>a, <1>5, <1>6
  \* The next code is in front of every unit still to come.
  <1>11. ASSUME NEW k \in U, k > m
         PROVE  start = first(k) \/ start <= first(k) - 3
    <2> DEFINE q == first(k) - 3
    <2>1. q \in Nat /\ q >= pos /\ CodeLength(b, q) = 3
      BY <1>8, <1>10, <1>11
    <2>2. n <= q
      BY <1>1, <1>2, <2>1
    <2>3. n \in Nat \ {0}
      BY <1>1
    <2>4. q + 3 = n + CodeLength(b, n) \/ n + CodeLength(b, n) <= q
      BY <1>2, <2>1, <2>2, <2>3, <1>0, CodesApart
    <2>5. q + 3 = start \/ start <= q
      BY <1>4, <2>4
    <2>6. first(k) \in Nat
      BY <1>8
    <2> QED
      BY <2>5, <2>6
  <1>12. ASSUME NEW k \in U, start <= first(k) - 3
         PROVE  next + 3 <= first(k)
    <2> DEFINE q == first(k) - 3
    <2>1. q \in Nat /\ CodeLength(b, q) # 0 /\ start <= q
      BY <1>8, <1>12
    <2>2. ~(q \in start .. next - 1)
      BY <1>5, <2>1
    <2>3. next \in Nat /\ start \in Nat /\ first(k) \in Nat
      BY <1>1, <1>4, <1>5, <1>8
    <2> HIDE DEF q
    <2>4. next <= q
      BY <2>1, <2>2, <2>3
    <2> QED
      BY <2>3, <2>4 DEF q
  <1>13. ASSUME NEW k \in U, k <= m
         PROVE  final(k) < start
    <2>1. final(k) < pos /\ final(k) \in Nat
      BY <1>8, <1>10, <1>13
    <2>2. pos < start /\ pos \in Nat /\ start \in Nat
      BY <1>1, <1>3
    <2>3. \A x, y, z \in Nat : x < y /\ y < z => x < z
      OBVIOUS
    <2> QED
      BY <2>1, <2>2, <2>3
  <1>14. CASE m < Len(o.units) /\ start = first(m + 1)
    <2> DEFINE u == m + 1
    <2>1. u \in U /\ u \in Nat /\ u > m
      BY <1>1, <1>14
    <2> HIDE DEF u
    <2>2. /\ first(u) \in Nat /\ final(u) \in Nat /\ first(u) <= final(u) /\ final(u) <= Len(b)
          /\ b[final(u)] # 0 /\ o.units[u] = SubSeq(b, first(u), final(u))
      BY <1>8, <2>1
    <2>3. \A i \in first(u) .. final(u) : CodeLength(b, i) = 0
      BY <1>8, <2>1
    <2>4. start = first(u)
      BY <1>14 DEF u
    <2>5. final(u) < next
      <3>1. next = Len(b) + 1 \/ CodeLength(b, next) # 0
        BY <1>5
      <3>2. ~(next \in first(u) .. final(u))
        <4>1. CASE next = Len(b) + 1
          BY <1>1, <2>2, <4>1
        <4>2. CASE CodeLength(b, next) # 0
          BY <2>3, <4>2
        <4> QED
          BY <3>1, <4>1, <4>2
      <3>3. next \in Nat /\ start <= next
        BY <1>1, <1>4, <1>5
      <3> QED
        BY <2>2, <2>4, <3>2, <3>3
    <2>6. ASSUME NEW k \in U, k > u
          PROVE  next + 3 <= first(k) /\ final(u) + 4 <= first(k)
      <3>1. final(u) + 3 < first(k) /\ first(k) \in Nat
        BY <1>8, <1>9, <2>1, <2>6
      <3>2. start <= first(k) - 3
        <4>1. first(u) <= final(u) /\ final(u) \in Nat /\ first(u) \in Nat
          BY <2>2
        <4>2. \A a, z, f \in Nat : a <= z /\ z + 3 < f => a <= f - 3
          OBVIOUS
        <4> QED
          BY <2>4, <3>1, <4>1, <4>2
      <3>3. next + 3 <= first(k)
        BY <1>12, <2>6, <3>2
      <3>4. final(u) \in Nat
        BY <2>2
      <3>5. \A z, f \in Nat : z + 3 < f => z + 4 <= f
        OBVIOUS
      <3> QED
        BY <3>1, <3>3, <3>4, <3>5
    <2>7. end >= final(u)
      <3>1. ~(final(u) \in end + 1 .. next - 1)
        BY <1>6, <2>2
      <3>2. \A f \in Nat : f < next /\ ~(f \in end + 1 .. next - 1) => end >= f
        BY <1>a
      <3> QED
        BY <2>2, <2>5, <3>1, <3>2
    <2>8. end = final(u)
      <3> SUFFICES ASSUME end > final(u) PROVE FALSE
        <4>1. \A f \in Nat : end >= f /\ ~(end > f) => end = f
          BY <1>a
        <4> QED
          BY <2>2, <2>7, <4>1
      <3>1. end \in start .. next - 1 /\ b[end] # 0
        <4>1. \A l \in Nat : start <= l /\ end > l => end # start - 1 /\ end \in start .. next - 1
          BY <1>a, <1>b
        <4>2. start <= final(u) /\ final(u) \in Nat
          BY <2>2, <2>4
        <4> QED
          BY <1>6, <4>1, <4>2
      <3>2. PICK k \in U : Within(o, k, end)
        BY <1>7, <3>1
      <3>3. first(k) <= end /\ end <= final(k) /\ k \in Nat /\ first(k) \in Nat /\ final(k) \in Nat
        <4>1. k \in Nat /\ first(k) \in Nat /\ final(k) \in Nat
          BY <1>1, <1>8
        <4> QED
          BY <3>2, <4>1 DEF Within
      <3>4. CASE k <= m
        BY <1>4, <1>5, <1>13, <3>1, <3>3, <3>4
      <3>5. CASE k = u
        BY <2>2, <3>1, <3>3, <3>5, <1>4, <1>5
      <3>6. CASE k > u
        BY <1>4, <1>5, <2>6, <3>1, <3>3, <3>6
      <3> QED
        BY <3>3, <3>4, <3>5, <3>6 DEF u
    <2>9. \A k \in 1 .. u : final(k) < end + 1 /\ final(k) < next
      <3> SUFFICES ASSUME NEW k \in 1 .. u PROVE final(k) < end + 1 /\ final(k) < next
        OBVIOUS
      <3>1. CASE k = u
        BY <2>2, <2>5, <2>8, <3>1
      <3>2. CASE k # u
        <4>1. k \in U /\ k <= m
          BY <1>1, <2>1, <3>2 DEF u
        <4> QED
          BY <1>4, <1>5, <1>6, <1>8, <1>13, <4>1
      <3> QED
        BY <3>1, <3>2
    <2>10. \A k \in u + 1 .. Len(o.units) : end + 1 + 3 <= first(k) /\ next + 3 <= first(k)
      <3> SUFFICES ASSUME NEW k \in u + 1 .. Len(o.units)
                   PROVE  end + 1 + 3 <= first(k) /\ next + 3 <= first(k)
        OBVIOUS
      <3>1. k \in U /\ k > u
        BY <1>1, <2>1
      <3> QED
        BY <1>8, <2>2, <2>6, <2>8, <3>1
    <2>11. Between(o, u, end + 1) /\ Between(o, u, next)
      BY <2>9, <2>10 DEF Between
    <2>12. start <= end /\ SubSeq(b, start, end) = o.units[u]
      BY <2>2, <2>4, <2>8
    <2> QED
      BY <1>14, <2>11, <2>12 DEF u, start, end, next
  <1>15. CASE ~(m < Len(o.units) /\ start = first(m + 1))
    <2>1. ASSUME NEW k \in U, k > m PROVE start <= first(k) - 3
      <3> SUFFICES ASSUME start = first(k) PROVE FALSE
        BY <1>11, <2>1
      <3> DEFINE u == m + 1
      <3>1. u \in U /\ u > m /\ u <= k /\ u \in Nat /\ m < Len(o.units)
        BY <1>1, <2>1
      <3>2. u # k /\ start # first(u)
        BY <1>15, <3>1
      <3> HIDE DEF u
      <3>3. final(u) + 3 < first(k) /\ first(u) \in Nat /\ final(u) \in Nat /\ first(u) <= final(u)
        BY <1>8, <1>9, <3>1, <3>2
      <3>4. start <= first(u) - 3
        BY <1>11, <3>1, <3>2
      <3> QED
        <4>1. start \in Nat
          BY <1>4
        <4> QED
          <5>1. \A a, f, z, x \in Nat : x = f /\ a <= z /\ z + 3 < f => ~(x <= a - 3)
            OBVIOUS
          <5> QED
            BY <3>3, <3>4, <4>1, <5>1, <1>8, <2>1
    <2>2. ASSUME NEW k \in U, k > m PROVE next + 3 <= first(k)
      BY <1>12, <2>1, <2>2
    <2>3. end = start - 1
      <3> SUFFICES ASSUME end # start - 1 PROVE FALSE
        OBVIOUS
      <3>1. end \in start .. next - 1 /\ b[end] # 0
        BY <1>a, <1>b, <1>6
      <3>2. PICK k \in U : Within(o, k, end)
        BY <1>7, <3>1
      <3>3. first(k) <= end /\ end <= final(k) /\ k \in Nat /\ first(k) \in Nat /\ final(k) \in Nat
        <4>1. k \in Nat /\ first(k) \in Nat /\ final(k) \in Nat
          BY <1>1, <1>8
        <4> QED
          BY <3>2, <4>1 DEF Within
      <3>4. CASE k <= m
        <4>1. final(k) < start
          BY <1>13, <3>4
        <4>2. \A f, z \in Nat : f <= end /\ end <= z => ~(z < start /\ start <= end)
          BY <1>a
        <4> QED
          BY <3>1, <3>3, <4>1, <4>2
      <3>5. CASE k > m
        <4>1. next + 3 <= first(k)
          BY <2>2, <3>5
        <4>2. \A f \in Nat : f <= end => ~(next + 3 <= f)
          BY <1>a, <1>b
        <4> QED
          BY <3>3, <4>1, <4>2
      <3> QED
        BY <3>3, <3>4, <3>5
    <2>4. \A k \in 1 .. m : final(k) < start /\ final(k) < next
      <3> SUFFICES ASSUME NEW k \in 1 .. m PROVE final(k) < start /\ final(k) < next
        OBVIOUS
      <3>1. k \in U /\ k <= m
        BY <1>1
      <3> QED
        BY <1>4, <1>5, <1>8, <1>13, <3>1
    <2>5. \A k \in m + 1 .. Len(o.units) : start + 3 <= first(k) /\ next + 3 <= first(k)
      <3> SUFFICES ASSUME NEW k \in m + 1 .. Len(o.units)
                   PROVE  start + 3 <= first(k) /\ next + 3 <= first(k)
        OBVIOUS
      <3>1. k \in U /\ k > m
        BY <1>1
      <3> QED
        <4>1. start <= first(k) - 3 /\ next + 3 <= first(k)
          BY <2>1, <2>2, <3>1
        <4>2. start \in Nat /\ first(k) \in Nat
          BY <1>4, <1>8, <3>1
        <4>3. \A x, f \in Nat : x <= f - 3 => x + 3 <= f
          OBVIOUS
        <4> QED
          BY <4>1, <4>2, <4>3
    <2> QED
      BY <2>3, <2>4, <2>5 DEF Between, start, end, next
  <1> QED
    BY <1>14, <1>15

\* Where a source is in its content: done with it (or without any), in one
\* without a start code, or behind the units it has delivered.
Spent(s) == s.m_pending = <<>> /\ s.got = s.units
NoCode(s) ==
    /\ ~HasCode(s.m_pending) /\ s.got = <<>>
    /\ uri = "file" => s.units = <<>>
    /\ uri # "file" => s.pos = 1 /\ s.m_pending # <<>> /\ s.units = <<s.m_pending>>
Delivered(o, got, pos) ==
    /\ Len(got) <= Len(o.units) /\ \A k \in 1 .. Len(got) : got[k] = o.units[k]
    /\ Between(o, Len(got), pos)
InContent(s, o) ==
    /\ IsContent(o) /\ s.m_pending = o.bytes /\ s.units = o.units
    /\ Delivered(o, s.got, s.pos)
AmongUnits(s) == Spent(s) \/ NoCode(s) \/ \E o \in Files \cup Filled \cup Unusual : InContent(s, o)

DeliveryInv ==
    /\ input \in IF uri = "file" THEN Files ELSE Filled
    /\ \A t \in Threads : AmongUnits(source[t])

\* Parts of sequences.
LEMMA PrefixIs ==
    ASSUME NEW S, NEW s \in Seq(S), NEW n \in 0 .. Len(s)
    PROVE  LET part == SubSeq(s, 1, n) IN
           part \in Seq(S) /\ Len(part) = n /\ \A i \in 1 .. n : part[i] = s[i]
  <1>1. Len(s) \in Nat /\ \A i \in 1 .. Len(s) : s[i] \in S
    BY LenProperties, ElementOfSeq
  <1>2. n \in Int /\ 1 \in Int /\ \A i \in 1 .. n : s[i] \in S
    BY <1>1
  <1> DEFINE part == SubSeq(s, 1, n)
  <1>3. /\ part \in Seq(S)
        /\ Len(part) = IF 1 <= n THEN n - 1 + 1 ELSE 0
        /\ \A i \in 1 .. n - 1 + 1 : part[i] = s[1 + i - 1]
    BY <1>2, SubSeqProperties
  <1> HIDE DEF part
  <1>4. Len(part) = n /\ \A i \in 1 .. n : part[i] = s[i]
    BY <1>1, <1>3
  <1> QED
    BY <1>3, <1>4 DEF part

LEMMA SomeOf ==
    ASSUME NEW s, NEW m \in Int, NEW n \in Int, m <= n, \A i \in m .. n : s[i] \in Byte
    PROVE  SubSeq(s, m, n) # <<>>
  <1> DEFINE part == SubSeq(s, m, n)
  <1>1. Len(part) = IF m <= n THEN n - m + 1 ELSE 0
    BY SubSeqProperties
  <1> HIDE DEF part
  <1>2. Len(part) # 0
    BY <1>1
  <1>3. part # <<>>
    BY <1>2, EmptySeq
  <1> QED
    BY <1>3 DEF part

\* Behind the last unit everything is delivered.
LEMMA AllDelivered ==
    ASSUME NEW o, IsContent(o), NEW got \in Seq(Seq(Byte)), NEW pos \in Nat,
           Delivered(o, got, pos), pos = Len(o.bytes) + 1
    PROVE  got = o.units
  <1>1. o.units \in Seq(Seq(Byte)) /\ Len(o.units) \in Nat /\ Len(got) \in Nat /\ Len(o.bytes) \in Nat
    BY LenProperties DEF IsContent
  <1>2. Len(got) <= Len(o.units) /\ \A k \in 1 .. Len(got) : got[k] = o.units[k]
    BY DEF Delivered
  <1>3. Len(got) = Len(o.units)
    <2> SUFFICES ASSUME Len(got) # Len(o.units) PROVE FALSE
      OBVIOUS
    <2> DEFINE u == Len(got) + 1
    <2>1. u \in 1 .. Len(o.units) /\ u \in Len(got) + 1 .. Len(o.units)
      BY <1>1, <1>2
    <2> HIDE DEF u
    <2>2. pos + 3 <= o.at[u].first
      BY <2>1 DEF Delivered, Between
    <2>3. UnitLies(o, u)
      BY <2>1 DEF IsContent, WellFormed
    <2>4. o.at[u].first \in Nat /\ o.at[u].last \in Nat /\ o.at[u].first <= o.at[u].last /\ o.at[u].last <= Len(o.bytes)
      BY <2>3 DEF UnitLies
    <2>5. \A f, l, b \in Nat : f <= l /\ l <= b => ~((b + 1) + 3 <= f)
      OBVIOUS
    <2> QED
      BY <1>1, <2>2, <2>4, <2>5
  <1> QED
    BY <1>1, <1>2, <1>3, SeqEqual

\* One unit more.
LEMMA OneDelivered ==
    ASSUME NEW o, IsContent(o), NEW got \in Seq(Seq(Byte)), NEW pos, NEW later,
           Delivered(o, got, pos), Len(got) < Len(o.units), Between(o, Len(got) + 1, later)
    PROVE  Delivered(o, Append(got, o.units[Len(got) + 1]), later)
  <1> DEFINE u == Len(got) + 1
             more == Append(got, o.units[u])
  <1>1. o.units \in Seq(Seq(Byte)) /\ Len(o.units) \in Nat /\ Len(got) \in Nat
    BY LenProperties DEF IsContent
  <1>2. u \in 1 .. Len(o.units)
    BY <1>1
  <1>3. o.units[u] \in Seq(Byte)
    BY <1>1, <1>2, ElementOfSeq
  <1>4. Len(more) = u /\ \A k \in 1 .. u : more[k] = IF k = u THEN o.units[u] ELSE got[k]
    <2>1. Len(more) = Len(got) + 1
      BY <1>3, AppendProperties
    <2>2. \A k \in 1 .. Len(got) : more[k] = got[k]
      BY <1>3, AppendProperties
    <2>3. more[Len(got) + 1] = o.units[u]
      BY <1>3, AppendProperties
    <2> HIDE DEF more
    <2>4. Len(more) = u /\ more[u] = o.units[u]
      BY <2>1, <2>3
    <2>5. \A k \in 1 .. u : k # u => k \in 1 .. Len(got)
      <3>1. \A n \in Nat : \A k \in 1 .. n + 1 : k # n + 1 => k \in 1 .. n
        OBVIOUS
      <3> QED
        BY <1>1, <3>1
    <2> HIDE DEF u
    <2> QED
      BY <2>2, <2>4, <2>5
  <1> HIDE DEF more
  <1>5. \A k \in 1 .. Len(more) : more[k] = o.units[k]
    <2> SUFFICES ASSUME NEW k \in 1 .. u, k # u PROVE got[k] = o.units[k]
      BY <1>4
    <2>0. \A n \in Nat : \A i \in 1 .. n + 1 : i # n + 1 => i \in 1 .. n
      OBVIOUS
    <2>1. k \in 1 .. Len(got)
      BY <1>1, <2>0
    <2> QED
      BY <2>1 DEF Delivered
  <1>6. Between(o, u, later)
    OBVIOUS
  <1> HIDE DEF u
  <1>7. Delivered(o, more, later)
    BY <1>1, <1>2, <1>4, <1>5, <1>6 DEF Delivered
  <1> QED
    BY <1>7 DEF more, u

\* A scan that finds no further code has delivered every unit.
LEMMA NothingMissed ==
    ASSUME NEW o, IsContent(o), NEW got \in Seq(Seq(Byte)), NEW pos \in 1 .. Len(o.bytes) + 1,
           Delivered(o, got, pos), NextCode(o.bytes, pos) > Len(o.bytes)
    PROVE  got = o.units /\ pos # 1 /\ Delivered(o, got, Len(o.bytes) + 1)
  <1> DEFINE b == o.bytes
             n == NextCode(b, pos)
  <1>1. /\ o.units \in Seq(Seq(Byte)) /\ Len(o.units) \in Nat /\ Len(got) \in Nat
        /\ b \in Seq(Byte) /\ Len(b) \in Nat /\ WellFormed(o)
    BY LenProperties DEF IsContent
  <1>2. \A j \in pos .. n - 1 : CodeLength(b, j) = 0
    BY <1>1, NextCodeIsFirst
  <1>3. n \in pos .. Len(b) + 1
    BY <1>1, NextCodeIsFirst
  <1>n. n > Len(b)
    OBVIOUS
  <1> HIDE DEF n
  <1>4. \A j \in pos .. Len(b) : CodeLength(b, j) = 0
    BY <1>1, <1>2, <1>3, <1>n
  <1>5. pos # 1
    <2>1. PICK i \in 1 .. Len(b) : CodeLength(b, i) # 0
      BY <1>1 DEF WellFormed, HasCode
    <2> QED
      BY <1>4, <2>1
  <1>6. ASSUME NEW k \in Len(got) + 1 .. Len(o.units) PROVE FALSE
    <2>1. k \in 1 .. Len(o.units)
      BY <1>1
    <2>2. UnitLies(o, k)
      BY <1>1, <2>1 DEF WellFormed
    <2>3. /\ o.at[k].first \in Nat /\ o.at[k].last \in Nat /\ o.at[k].first <= o.at[k].last
          /\ o.at[k].last <= Len(b)
      BY <2>2 DEF UnitLies
    <2>4. CodeLength(b, o.at[k].first - 3) # 0
      BY <2>2 DEF UnitLies
    <2>5. pos + 3 <= o.at[k].first
      BY DEF Delivered, Between
    <2>6. \A p, f, l, c \in Nat : p + 3 <= f /\ f <= l /\ l <= c => f - 3 \in p .. c
      OBVIOUS
    <2>7. o.at[k].first - 3 \in pos .. Len(b)
      <3>1. pos \in Nat /\ Len(b) \in Nat
        BY <1>1
      <3> QED
        BY <2>3, <2>5, <2>6, <3>1
    <2> QED
      BY <1>4, <2>4, <2>7
  <1>7. Between(o, Len(got), Len(b) + 1)
    <2>1. ASSUME NEW k \in 1 .. Len(got) PROVE o.at[k].last < Len(b) + 1
      <3>1. k \in 1 .. Len(o.units) /\ Len(got) <= Len(o.units)
        BY <1>1 DEF Delivered
      <3>2. UnitLies(o, k)
        BY <1>1, <3>1 DEF WellFormed
      <3>3. o.at[k].last \in Nat /\ o.at[k].last <= Len(b)
        BY <3>2 DEF UnitLies
      <3> QED
        BY <1>1, <3>3
    <2> QED
      BY <1>6, <2>1 DEF Between
  <1>8. Delivered(o, got, Len(b) + 1)
    BY <1>7 DEF Delivered
  <1>9. Len(b) + 1 \in Nat
    BY <1>1
  <1> QED
    BY <1>5, <1>8, <1>9, AllDelivered

\* A buffer without a code has none at or behind any position.
LEMMA NoCodeToFind ==
    ASSUME NEW b \in Seq(Byte), NEW pos \in 1 .. Len(b) + 1, ~HasCode(b)
    PROVE  NextCode(b, pos) > Len(b)
  <1> DEFINE n == NextCode(b, pos)
  <1>1. Len(b) \in Nat /\ n \in pos .. Len(b) + 1
    BY LengthOfBytes, NextCodeIsFirst
  <1>2. n = Len(b) + 1 \/ CodeLength(b, n) # 0
    BY NextCodeIsFirst
  <1> HIDE DEF n
  <1>3. n \notin 1 .. Len(b) \/ n = Len(b) + 1
    BY <1>2 DEF HasCode
  <1>4. n > Len(b)
    BY <1>1, <1>3
  <1> QED
    BY <1>4 DEF n


-----------------------------------------------------------------------------
(* A turn of the scan, and every other step.                               *)

\* A source whose content fields are those of one among its units is one too.
LEMMA AmongUnitsDependsOn ==
    ASSUME NEW s, NEW o, AmongUnits(o), s.m_pending = o.m_pending, s.pos = o.pos,
           s.units = o.units, s.got = o.got
    PROVE  AmongUnits(s)
  BY DEF AmongUnits, Spent, NoCode, InContent

LEMMA NoSourceIsSpent == AmongUnits(NoSource)
  BY DEF AmongUnits, Spent, NoSource

\* next_nal() of a content: the NAL it delivers is the next unit.
LEMMA TurnAmongUnits ==
    ASSUME DeviceInv, DeliveryInv, NEW t \in Threads, ~Exhausted(t),
           NEW s, LET r == NextTurn(t) IN
                  /\ s.m_pending = r.buffer /\ s.pos = r.pos /\ s.units = source[t].units
                  /\ s.got = IF r.nal = <<>> THEN source[t].got ELSE Append(source[t].got, r.nal)
    PROVE  AmongUnits(s)
  <1> DEFINE b == source[t].m_pending
             pos == source[t].pos
             got == source[t].got
             units == source[t].units
             r == NextTurn(t)
  <1>1. b \in Seq(Byte) /\ pos \in 1 .. Len(b) /\ Len(b) \in Nat /\ got \in Seq(Seq(Byte))
    <2>1. source[t] \in SourceRecord
      BY DEF DeviceInv
    <2>2. b \in Seq(Byte) /\ pos \in Nat \ {0} /\ got \in Seq(Seq(Byte))
      BY <2>1 DEF SourceRecord
    <2>3. Len(b) \in Nat /\ ~(pos > Len(b))
      BY <2>2, LengthOfBytes DEF Exhausted
    <2> HIDE DEF b, pos, got
    <2> QED
      BY <2>2, <2>3
  <1>2. pos \in 1 .. Len(b) + 1
    BY <1>1
  <1>3. /\ s.m_pending = r.buffer /\ s.pos = r.pos /\ s.units = units
        /\ s.got = IF r.nal = <<>> THEN got ELSE Append(got, r.nal)
    OBVIOUS
  <1>4. /\ uri = "file" => r = FileTurn(b, pos)
        /\ uri # "file" => r = PendingTurn(b, pos)
    BY DEF NextTurn
  <1>5. Spent(source[t]) \/ NoCode(source[t])
        \/ \E o \in Files \cup Filled \cup Unusual : InContent(source[t], o)
    BY DEF DeliveryInv, AmongUnits
  <1>6. ~Spent(source[t])
    <2> SUFFICES ASSUME b = <<>> PROVE FALSE
      BY DEF Spent
    <2> HIDE DEF b
    <2>1. Len(b) = 0
      BY EmptySeq
    <2> QED
      BY <1>1, <2>1
  <1>7. CASE NoCode(source[t])
    <2>1. /\ ~HasCode(b) /\ got = <<>> /\ (uri = "file" => units = <<>>)
          /\ (uri # "file" => pos = 1 /\ b # <<>> /\ units = <<b>>)
      BY <1>7 DEF NoCode
    <2>2. NextCode(b, pos) > Len(b)
      BY <1>1, <1>2, <2>1, NoCodeToFind
    <2>3. CASE uri = "file"
      <3>1. r = Turn(<<>>, b, Len(b) + 1)
        BY <1>4, <2>2, <2>3 DEF FileTurn
      <3>2. r.nal = <<>> /\ r.buffer = b
        BY <3>1 DEF Turn
      <3> HIDE DEF r, b, pos, got, units
      <3> QED
        BY <1>3, <2>1, <2>3, <3>2 DEF AmongUnits, NoCode
    <2>4. CASE uri # "file"
      <3>1. r = Turn(b, <<>>, 1)
        BY <1>4, <2>1, <2>2, <2>4 DEF PendingTurn
      <3>2. r.nal = b /\ r.buffer = <<>>
        BY <3>1 DEF Turn
      <3> HIDE DEF r, b, pos, got, units
      <3>3. Append(<<>>, b) = <<b>>
        OBVIOUS
      <3>4. s.m_pending = <<>> /\ s.got = s.units
        BY <1>3, <2>1, <2>4, <3>2, <3>3
      <3> QED
        BY <3>4 DEF AmongUnits, Spent
    <2> QED
      BY <2>3, <2>4
  <1>8. ASSUME NEW o \in Files \cup Filled \cup Unusual, InContent(source[t], o)
        PROVE  AmongUnits(s)
    <2>1. IsContent(o) /\ b = o.bytes /\ units = o.units /\ Delivered(o, got, pos)
      BY <1>8 DEF InContent
    <2>s. ASSUME NEW later, s.m_pending = o.bytes, s.pos = later, Delivered(o, s.got, later)
          PROVE  AmongUnits(s)
      <3>1. InContent(s, o)
        BY <1>3, <2>1, <2>s DEF InContent
      <3> QED
        BY <3>1 DEF AmongUnits
    <2>2. CASE NextCode(b, pos) > Len(b)
      <3>1. pos \in 1 .. Len(o.bytes) + 1 /\ NextCode(o.bytes, pos) > Len(o.bytes)
        BY <1>2, <2>1, <2>2
      <3>2. got = o.units /\ pos # 1 /\ Delivered(o, got, Len(o.bytes) + 1)
        BY <1>1, <2>1, <3>1, NothingMissed
      <3>3. CASE uri = "file"
        <4>1. r = Turn(<<>>, b, Len(b) + 1)
          BY <1>4, <2>2, <3>3 DEF FileTurn
        <4>2. r.nal = <<>> /\ r.buffer = b /\ r.pos = Len(b) + 1
          BY <4>1 DEF Turn
        <4> HIDE DEF r, b, pos, got, units
        <4> QED
          BY <1>3, <2>1, <2>s, <3>2, <4>2
      <3>4. CASE uri # "file"
        <4>1. r = Turn(<<>>, <<>>, 1)
          BY <1>4, <2>2, <3>2, <3>4 DEF PendingTurn
        <4>2. r.nal = <<>> /\ r.buffer = <<>>
          BY <4>1 DEF Turn
        <4> HIDE DEF r, b, pos, got, units
        <4>3. s.m_pending = <<>> /\ s.got = s.units
          BY <1>3, <2>1, <3>2, <4>2
        <4> QED
          BY <4>3 DEF AmongUnits, Spent
      <3> QED
        BY <3>3, <3>4
    <2>3. CASE ~(NextCode(b, pos) > Len(b))
      <3> DEFINE start == NalStart(b, pos)
                 end == TrimmedEnd(b, start)
                 next == NextCode(b, start)
                 m == Len(got)
                 nal == SubSeq(b, start, end)
      <3>1. /\ uri = "file" => r = Turn(nal, b, end + 1)
            /\ uri # "file" /\ end >= start /\ next > Len(b) => r = Turn(nal, <<>>, 1)
            /\ uri # "file" /\ ~(end >= start /\ next > Len(b)) => r = Turn(nal, b, next)
        BY <1>4, <2>3 DEF FileTurn, PendingTurn
      <3>2. start \in 1 .. Len(b) + 1
        <4>1. NextCode(b, pos) <= Len(b)
          BY <1>1, <1>2, <2>3, NextCodeIsFirst
        <4>2. start \in pos + 3 .. Len(b) + 1
          BY <1>1, <1>2, <4>1, NalStartIsInside
        <4> HIDE DEF start, b, pos
        <4> QED
          BY <1>1, <4>2
      <3>3. next \in start .. Len(b) + 1 /\ end \in start - 1 .. next - 1
        BY <1>1, <3>2, NextCodeIsFirst, TrimmedEndIsLast
      <3>4. m \in 0 .. Len(o.units) /\ m \in Nat /\ Between(o, m, pos)
        <4>1. m \in Nat /\ Len(o.units) \in Nat
          BY <1>1, <2>1, LenProperties DEF IsContent
        <4>2. m <= Len(o.units) /\ Between(o, m, pos)
          BY <2>1 DEF Delivered
        <4> HIDE DEF m
        <4> QED
          BY <4>1, <4>2
      <3>5. \/ end = start - 1 /\ Between(o, m, start) /\ Between(o, m, next)
            \/ /\ m < Len(o.units) /\ start <= end /\ nal = o.units[m + 1]
               /\ Between(o, m + 1, end + 1) /\ Between(o, m + 1, next)
        <4>1. /\ NextCode(o.bytes, pos) <= Len(o.bytes) /\ pos \in 1 .. Len(o.bytes) + 1
          <5>1. NextCode(b, pos) <= Len(b)
            BY <1>1, <1>2, <2>3, NextCodeIsFirst
          <5> QED
            BY <1>2, <2>1, <5>1
        <4> DEFINE Next5(c) ==
                       LET begins == NalStart(c, pos)
                           ends == TrimmedEnd(c, begins)
                           follows == NextCode(c, begins) IN
                       \/ ends = begins - 1 /\ Between(o, m, begins) /\ Between(o, m, follows)
                       \/ /\ m < Len(o.units) /\ begins <= ends
                          /\ SubSeq(c, begins, ends) = o.units[m + 1]
                          /\ Between(o, m + 1, ends + 1) /\ Between(o, m + 1, follows)
        <4>2. Next5(o.bytes)
          <5> HIDE DEF m, pos
          <5> QED
            BY <2>1, <3>4, <4>1, UnitAfterUnit
        <4>3. Next5(b)
          <5> HIDE DEF Next5
          <5> QED
            BY <2>1, <4>2
        <4> QED
          BY <4>3
      <3>i. start \in Int /\ end \in Int /\ next \in Int /\ m \in Int
        <4> HIDE DEF start, end, next, m
        <4> QED
          BY <1>1, <3>2, <3>3, <3>4
      <3>6. CASE end = start - 1 /\ Between(o, m, start) /\ Between(o, m, next)
        <4>1. nal = <<>>
          BY <3>6, <3>i, SubSeqEmpty
        <4>2. ASSUME NEW later, Between(o, m, later) PROVE Delivered(o, got, later)
          BY <2>1, <4>2 DEF Delivered
        <4>3. CASE uri = "file"
          <5>1. end + 1 = start
            <6> HIDE DEF start, end
            <6> QED
              BY <3>6, <3>i
          <5>2. r.nal = <<>> /\ r.buffer = b /\ r.pos = start
            BY <3>1, <4>1, <4>3, <5>1 DEF Turn
          <5> HIDE DEF r, b, pos, got, units, start, end, next, m, nal
          <5> QED
            BY <1>3, <2>1, <2>s, <3>6, <4>2, <5>2
        <4>4. CASE uri # "file"
          <5>1. ~(end >= start)
            <6> HIDE DEF start, end
            <6> QED
              BY <3>6, <3>i
          <5>2. r.nal = <<>> /\ r.buffer = b /\ r.pos = next
            BY <3>1, <4>1, <4>4, <5>1 DEF Turn
          <5> HIDE DEF r, b, pos, got, units, start, end, next, m, nal
          <5> QED
            BY <1>3, <2>1, <2>s, <3>6, <4>2, <5>2
        <4> QED
          BY <4>3, <4>4
      <3>7. CASE /\ m < Len(o.units) /\ start <= end /\ nal = o.units[m + 1]
                 /\ Between(o, m + 1, end + 1) /\ Between(o, m + 1, next)
        <4>1. nal # <<>>
          <5>1. \A i \in start .. end : b[i] \in Byte
            <6>1. start .. end \subseteq 1 .. Len(b)
              <7> HIDE DEF start, end, next, b
              <7> QED
                BY <1>1, <3>2, <3>3
            <6> HIDE DEF start, end, b
            <6> QED
              BY <1>1, <6>1, LengthOfBytes
          <5> HIDE DEF start, end
          <5> QED
            BY <3>7, <3>i, <5>1, SomeOf
        <4>2. ASSUME NEW later, Between(o, m + 1, later)
              PROVE  Delivered(o, Append(got, nal), later)
          <5> HIDE DEF nal
          <5> QED
            BY <1>1, <2>1, <3>7, <4>2, OneDelivered
        <4>3. CASE uri = "file"
          <5>1. r.nal = nal /\ r.buffer = b /\ r.pos = end + 1
            BY <3>1, <4>3 DEF Turn
          <5> HIDE DEF r, b, pos, got, units, start, end, next, m, nal
          <5> QED
            BY <1>3, <2>1, <2>s, <3>7, <4>1, <4>2, <5>1
        <4>4. CASE uri # "file" /\ ~(next > Len(b))
          <5>1. r.nal = nal /\ r.buffer = b /\ r.pos = next
            BY <3>1, <4>4 DEF Turn
          <5> HIDE DEF r, b, pos, got, units, start, end, next, m, nal
          <5> QED
            BY <1>3, <2>1, <2>s, <3>7, <4>1, <4>2, <5>1
        <4>5. CASE uri # "file" /\ next > Len(b)
          <5>1. end >= start /\ next = Len(b) + 1
            <6> HIDE DEF start, end, next, b
            <6> QED
              BY <1>1, <3>2, <3>3, <3>7, <3>i, <4>5
          <5>2. r.nal = nal /\ r.buffer = <<>>
            BY <3>1, <4>5, <5>1 DEF Turn
          <5>3. Append(got, nal) \in Seq(Seq(Byte))
            <6>1. nal \in Seq(Byte)
              BY <2>1, <3>4, <3>7, ElementOfSeq DEF IsContent
            <6> HIDE DEF nal, got
            <6> QED
              BY <1>1, <6>1, AppendProperties
          <5>4. Append(got, nal) = o.units
            <6> DEFINE more == Append(got, nal)
            <6>1. Delivered(o, more, next) /\ next = Len(o.bytes) + 1 /\ next \in Nat
              <7> HIDE DEF nal, next, start, got, b, m
              <7> QED
                BY <1>1, <2>1, <3>2, <3>3, <3>7, <4>2, <5>1
            <6> HIDE DEF more, next
            <6> QED
              BY <2>1, <5>3, <6>1, AllDelivered DEF more
          <5> HIDE DEF r, b, pos, got, units, start, end, next, m, nal
          <5>5. s.m_pending = <<>> /\ s.got = s.units
            BY <1>3, <2>1, <4>1, <5>2, <5>4
          <5> QED
            BY <5>5 DEF AmongUnits, Spent
        <4> QED
          BY <4>3, <4>4, <4>5
      <3> QED
        BY <3>5, <3>6, <3>7
    <2> QED
      BY <2>2, <2>3
  <1> QED
    BY <1>5, <1>6, <1>7, <1>8

\* Where a source begins in a content.
LEMMA BeginAmongUnits ==
    ASSUME DeviceInv, NEW o \in Files \cup Filled \cup Unusual,
           uri = "file" => o \in Files, uri # "file" => o \in Filled \cup Unusual,
           NEW s, s.m_pending = o.bytes, s.units = o.units, s.pos = 1, s.got = <<>>
    PROVE  AmongUnits(s)
  <1>1. o.bytes \in Seq(Byte) /\ o.units \in Seq(Seq(Byte)) /\ Len(o.units) \in Nat
    BY DeviceAssumption, LenProperties
  <1>2. CASE WellFormed(o)
    <2>1. IsContent(o)
      BY <1>1, <1>2 DEF IsContent
    <2>2. ASSUME NEW k \in 1 .. Len(o.units) PROVE 1 + 3 <= o.at[k].first
      <3>1. UnitLies(o, k)
        BY <1>2 DEF WellFormed
      <3>2. o.at[k].first \in Nat /\ 3 < o.at[k].first
        BY <3>1 DEF UnitLies
      <3> QED
        BY <3>2
    <2>3. Len(<<>>) = 0 /\ 1 .. 0 = {} /\ 0 + 1 = 1 /\ 0 <= Len(o.units)
      BY <1>1, EmptySeq
    <2>4. Between(o, 0, 1)
      BY <2>2, <2>3 DEF Between
    <2>5. Delivered(o, <<>>, 1)
      BY <2>3, <2>4 DEF Delivered
    <2>6. InContent(s, o)
      BY <2>1, <2>5 DEF InContent
    <2> QED
      BY <2>6 DEF AmongUnits
  <1>3. CASE ~WellFormed(o) /\ uri = "file"
    <2>1. ~HasCode(o.bytes) /\ o.units = <<>>
      BY <1>3, ContentAssumption
    <2> QED
      BY <1>3, <2>1 DEF AmongUnits, NoCode
  <1>4. CASE ~WellFormed(o) /\ uri # "file"
    <2>1. ~HasCode(o.bytes) /\ o.units = IF o.bytes = <<>> THEN <<>> ELSE <<o.bytes>>
      BY <1>4, ContentAssumption
    <2> QED
      BY <1>4, <2>1 DEF AmongUnits, NoCode, Spent
  <1> QED
    BY <1>2, <1>3, <1>4

LEMMA DeliveryInit == DeviceInit => DeliveryInv
  BY NoSourceIsSpent DEF DeviceInit, DeliveryInv

\* A step of one source.
LEMMA OneSourceDelivers ==
    ASSUME DeviceInv, DeliveryInv, NEW t \in Threads, NEW s, Becomes(t, s), UNCHANGED inputVars,
           AmongUnits(s)
    PROVE  DeliveryInv'
  <1>1. /\ source' = [source EXCEPT ![t] = s] /\ DOMAIN source = Threads
        /\ uri' = uri /\ input' = input
    BY DEF Becomes, DeviceInv, inputVars
  <1>2. ASSUME NEW u \in Threads PROVE AmongUnits(source[u])'
    <2>1. AmongUnits(source'[u])
      BY <1>1 DEF DeliveryInv
    <2> QED
      BY <1>1, <2>1 DEF AmongUnits, Spent, NoCode, InContent
  <1> QED
    BY <1>1, <1>2 DEF DeliveryInv

\* A step that takes no bytes in and none out.
LEMMA SameContentDelivers ==
    ASSUME DeviceInv, DeliveryInv, NEW t \in Threads, NEW s, Becomes(t, s), UNCHANGED inputVars,
           s.m_pending = source[t].m_pending, s.pos = source[t].pos, s.units = source[t].units,
           s.got = source[t].got
    PROVE  DeliveryInv'
  <1>1. AmongUnits(source[t])
    BY DEF DeliveryInv
  <1>2. AmongUnits(s)
    BY <1>1, AmongUnitsDependsOn
  <1> QED
    BY <1>2, OneSourceDelivers

\* A source that is none, or failed, has no content.
LEMMA NoContentDelivers ==
    ASSUME DeviceInv, DeliveryInv, NEW t \in Threads, NEW s, Becomes(t, s), UNCHANGED inputVars,
           s.m_pending = <<>>, s.units = <<>>, s.got = <<>>
    PROVE  DeliveryInv'
  <1>1. AmongUnits(s)
    BY DEF AmongUnits, Spent
  <1> QED
    BY <1>1, OneSourceDelivers

LEMMA DeliveryStep == DeviceInv /\ DeliveryInv /\ [AllNext]_allVars => DeliveryInv'
  <1> SUFFICES ASSUME DeviceInv, DeliveryInv, [AllNext]_allVars PROVE DeliveryInv'
    OBVIOUS
  <1>u. CASE UNCHANGED deviceVars
    BY <1>u DEF deviceVars, inputVars, DeliveryInv, AmongUnits, Spent, NoCode, InContent
  <1>t. ASSUME NEW t \in Threads, DeviceNext(t) PROVE DeliveryInv'
    <2> DEFINE o == source[t]
    <2>0. o \in SourceRecord
      BY DEF DeviceInv
    <2>n. NoSource.m_pending = <<>> /\ NoSource.units = <<>> /\ NoSource.got = <<>> /\ NoSource.pos = 1
      BY DEF NoSource
    <2>f. CASE InitFails(t) /\ UNCHANGED inputVars
      <3> DEFINE s == [NoSource EXCEPT !.state = "bad"]
      <3>1. Becomes(t, s)
        BY <2>f DEF InitFails
      <3>2. s.m_pending = <<>> /\ s.units = <<>> /\ s.got = <<>>
        BY DEF NoSource
      <3> HIDE DEF s
      <3> QED
        BY <2>f, <3>1, <3>2, NoContentDelivers
    <2>1. CASE OpenFile(t)
      <3>1. CASE Becomes(t, [NoSource EXCEPT !.state = "bad"])
        <4> DEFINE s == [NoSource EXCEPT !.state = "bad"]
        <4>1. s.m_pending = <<>> /\ s.units = <<>> /\ s.got = <<>>
          BY DEF NoSource
        <4>2. UNCHANGED inputVars
          BY <2>1 DEF OpenFile, Opening
        <4> HIDE DEF s
        <4> QED
          BY <3>1, <4>1, <4>2, NoContentDelivers DEF s
      <3> DEFINE s == [NoSource EXCEPT !.state = "good", !.m_pending = input.bytes, !.units = input.units]
      <3>2. CASE Becomes(t, s)
        <4>1. s.m_pending = input.bytes /\ s.units = input.units /\ s.pos = 1 /\ s.got = <<>>
          BY DEF NoSource
        <4>2. uri = "file" /\ UNCHANGED inputVars
          BY <2>1 DEF OpenFile, Opening
        <4>3. input \in Files
          BY <4>2 DEF DeliveryInv
        <4> HIDE DEF s
        <4>4. AmongUnits(s)
          BY <4>1, <4>2, <4>3, BeginAmongUnits
        <4> QED
          BY <3>2, <4>2, <4>4, OneSourceDelivers
      <3> QED
        BY <2>1, <3>1, <3>2 DEF OpenFile
    <2>2. CASE OpenDevice(t)
      <3>0. UNCHANGED inputVars
        BY <2>2 DEF OpenDevice, Opening
      <3>1. PICK s \in {[NoSource EXCEPT !.state = "opened", !.m_fd = TRUE], [NoSource EXCEPT !.state = "bad"]} :
               Becomes(t, s)
        BY <2>2 DEF OpenDevice
      <3>2. s.m_pending = <<>> /\ s.units = <<>> /\ s.got = <<>>
        BY <3>1 DEF NoSource
      <3> QED
        BY <3>0, <3>1, <3>2, NoContentDelivers
    <2>3. CASE RequestBuffers(t) \/ MapBuffer(t) \/ QueueBuffer(t) \/ StreamOn(t)
      <3>0. UNCHANGED inputVars
        BY <2>3 DEF RequestBuffers, MapBuffer, QueueBuffer, StreamOn, Opening
      <3>1. InitFails(t) \/
            \E state \in States, maps \in Nat, driver \in SUBSET Nat, on \in BOOLEAN :
               Becomes(t, [o EXCEPT !.state = state, !.m_buffers = maps, !.driver = driver, !.m_streaming = on])
        <4>0. /\ o.state \in States /\ o.m_buffers \in Nat /\ o.driver \in SUBSET Nat
              /\ o.m_streaming \in BOOLEAN
          BY <2>0 DEF SourceRecord
        <4>1. CASE RequestBuffers(t)
          <5>1. CASE Becomes(t, [o EXCEPT !.state = "mapping"])
            <6>1. [o EXCEPT !.state = "mapping"] =
                  [o EXCEPT !.state = "mapping", !.m_buffers = o.m_buffers, !.driver = o.driver,
                            !.m_streaming = o.m_streaming]
              BY <2>0 DEF SourceRecord
            <6> HIDE DEF o
            <6> QED
              BY <4>0, <5>1, <6>1 DEF States
          <5> QED
            BY <4>1, <5>1 DEF RequestBuffers
        <4>2. CASE MapBuffer(t)
          <5> DEFINE maps == o.m_buffers + 1
          <5>1. CASE Becomes(t, [o EXCEPT !.state = "mapped", !.m_buffers = @ + 1])
            <6>1. [o EXCEPT !.state = "mapped", !.m_buffers = @ + 1] =
                  [o EXCEPT !.state = "mapped", !.m_buffers = maps, !.driver = o.driver,
                            !.m_streaming = o.m_streaming]
              BY <2>0 DEF SourceRecord
            <6>2. maps \in Nat
              BY <4>0
            <6> HIDE DEF o, maps
            <6> QED
              BY <4>0, <5>1, <6>1, <6>2 DEF States
          <5> QED
            BY <4>2, <5>1 DEF MapBuffer
        <4>3. CASE QueueBuffer(t)
          <5> DEFINE driver == o.driver \cup {o.m_buffers}
                     state == IF o.m_buffers < Buffers THEN "mapping" ELSE o.state
          <5>1. CASE Becomes(t, [o EXCEPT !.driver = driver, !.state = state])
            <6>1. driver \in SUBSET Nat /\ state \in States
              BY <4>0 DEF States
            <6> HIDE DEF driver, state
            <6>2. [o EXCEPT !.driver = driver, !.state = state] =
                  [o EXCEPT !.state = state, !.m_buffers = o.m_buffers, !.driver = driver,
                            !.m_streaming = o.m_streaming]
              BY <2>0 DEF SourceRecord
            <6>3. Becomes(t, [o EXCEPT !.state = state, !.m_buffers = o.m_buffers, !.driver = driver,
                                      !.m_streaming = o.m_streaming])
              BY <5>1, <6>2
            <6> HIDE DEF o
            <6> QED
              BY <4>0, <6>1, <6>3
          <5>2. Becomes(t, [o EXCEPT !.driver = driver, !.state = state]) \/ InitFails(t)
            BY <2>0, <4>3 DEF QueueBuffer, SourceRecord
          <5> QED
            BY <5>1, <5>2
        <4>4. CASE StreamOn(t)
          <5>1. CASE Becomes(t, [o EXCEPT !.state = "good", !.m_streaming = TRUE])
            <6>1. [o EXCEPT !.state = "good", !.m_streaming = TRUE] =
                  [o EXCEPT !.state = "good", !.m_buffers = o.m_buffers, !.driver = o.driver,
                            !.m_streaming = TRUE]
              BY <2>0 DEF SourceRecord
            <6> HIDE DEF o
            <6> QED
              BY <4>0, <5>1, <6>1 DEF States
          <5> QED
            BY <4>4, <5>1 DEF StreamOn
        <4> QED
          BY <2>3, <4>1, <4>2, <4>3, <4>4
      <3>2. ASSUME NEW state \in States, NEW maps \in Nat, NEW driver \in SUBSET Nat, NEW on \in BOOLEAN,
                   Becomes(t, [o EXCEPT !.state = state, !.m_buffers = maps, !.driver = driver, !.m_streaming = on])
            PROVE  DeliveryInv'
        <4> DEFINE s == [o EXCEPT !.state = state, !.m_buffers = maps, !.driver = driver, !.m_streaming = on]
        <4>1. s.m_pending = o.m_pending /\ s.pos = o.pos /\ s.units = o.units /\ s.got = o.got
          BY <2>0 DEF SourceRecord
        <4>2. Becomes(t, s)
          BY <3>2
        <4> HIDE DEF s
        <4> QED
          BY <3>0, <4>1, <4>2, SameContentDelivers
      <3> QED
        BY <2>f, <3>0, <3>1, <3>2
    <2>4. CASE SourceBad(t) \/ SourceOver(t) \/ StopWithNal(t)
      <3>1. Becomes(t, NoSource) /\ UNCHANGED inputVars
        BY <2>4 DEF SourceBad, Turns, SourceOver, StopWithNal, Destroyed
      <3> QED
        BY <2>n, <3>1, NoContentDelivers
    <2>5. CASE Scan(t)
      <3> DEFINE r == NextTurn(t)
                 nals == IF r.nal = <<>> THEN o.got ELSE Append(o.got, r.nal)
                 more == r.nal # <<>>
                 s == [o EXCEPT !.m_pending = r.buffer, !.pos = r.pos, !.hand = more, !.got = nals]
      <3>1. Becomes(t, s) /\ UNCHANGED inputVars /\ ~Exhausted(t)
        BY <2>0, <2>5 DEF Scan, SourceRecord
      <3> HIDE DEF r, more, nals
      <3>2. s.m_pending = r.buffer /\ s.pos = r.pos /\ s.units = o.units /\ s.got = nals
        BY <2>0 DEF SourceRecord
      <3> HIDE DEF s
      <3>3. AmongUnits(s)
        BY <3>1, <3>2, TurnAmongUnits DEF r, nals
      <3> QED
        BY <3>1, <3>3, OneSourceDelivers
    <2>6. ASSUME NEW i \in 1 .. Buffers, Dequeue(t, i) PROVE DeliveryInv'
      <3>1. PICK c \in Unusual \cup {input} :
               Becomes(t, [o EXCEPT !.driver = @ \ {i}, !.out = i, !.m_pending = c.bytes,
                                    !.pos = 1, !.units = c.units, !.got = <<>>])
        BY <2>6 DEF Dequeue
      <3>2. uri # "file" /\ UNCHANGED inputVars
        BY <2>6 DEF Dequeue
      <3>3. c \in Filled \cup Unusual
        BY <3>2 DEF DeliveryInv
      <3> DEFINE left == o.driver \ {i}
                 bytes == c.bytes
                 units == c.units
                 s == [o EXCEPT !.driver = left, !.out = i, !.m_pending = bytes,
                                !.pos = 1, !.units = units, !.got = <<>>]
      <3>4. Becomes(t, s)
        BY <2>0, <3>1 DEF SourceRecord
      <3> HIDE DEF left, bytes, units
      <3>5. s.m_pending = bytes /\ s.units = units /\ s.pos = 1 /\ s.got = <<>>
        BY <2>0 DEF SourceRecord
      <3> HIDE DEF s
      <3>6. AmongUnits(s)
        BY <3>2, <3>3, <3>5, BeginAmongUnits DEF bytes, units
      <3> QED
        BY <3>2, <3>4, <3>6, OneSourceDelivers
    <2>7. CASE Requeue(t)
      <3> DEFINE state == IF o.m_pending = <<>> THEN "over" ELSE o.state
                 driver == o.driver \cup {o.out}
                 s == [o EXCEPT !.out = 0, !.driver = driver, !.state = state]
      <3>1. Becomes(t, s) /\ UNCHANGED inputVars
        BY <2>0, <2>7 DEF Requeue, SourceRecord
      <3> HIDE DEF state, driver
      <3>2. s.m_pending = o.m_pending /\ s.pos = o.pos /\ s.units = o.units /\ s.got = o.got
        BY <2>0 DEF SourceRecord
      <3> HIDE DEF s
      <3> QED
        BY <3>1, <3>2, SameContentDelivers
    <2>8. CASE LetGo(t)
      <3> DEFINE s == [o EXCEPT !.hand = FALSE]
      <3>1. Becomes(t, s) /\ UNCHANGED inputVars
        BY <2>8 DEF LetGo
      <3>2. s.m_pending = o.m_pending /\ s.pos = o.pos /\ s.units = o.units /\ s.got = o.got
        BY <2>0 DEF SourceRecord
      <3> HIDE DEF s
      <3> QED
        BY <3>1, <3>2, SameContentDelivers
    <2>9. CASE SourceGood(t) \/ ((LoopTop(t) \/ PublishConfig(t) \/ ThreadEnds(t)) /\ UNCHANGED deviceVars)
      BY <1>u, <2>9 DEF SourceGood
    <2> QED
      BY <1>t, <2>1, <2>2, <2>3, <2>4, <2>5, <2>6, <2>7, <2>8, <2>9
         DEF DeviceNext, ConfigInHand, OtherNal
  <1> QED
    BY <1>u, <1>t DEF AllNext, allVars

\* The NALs delivered are the units that were put in, in order, each without
\* start code and padding, and all of them once the buffer is used up: next_nal()
\* of a file and of an encoder buffer, for every well-formed content.
THEOREM UnitsAreDelivered == DeviceSpec => []NalsAreUnits
  <1>1. DeviceInv /\ DeliveryInv => NalsAreUnits
    <2> SUFFICES ASSUME DeviceInv, DeliveryInv, NEW t \in Threads
                 PROVE  /\ IsPrefix(source[t].got, source[t].units)
                        /\ source[t].state = "good" /\ Exhausted(t) => source[t].got = source[t].units
      BY DEF NalsAreUnits
    <2> DEFINE got == source[t].got
               units == source[t].units
               pending == source[t].m_pending
               pos == source[t].pos
    <2>1. /\ got \in Seq(Seq(Byte)) /\ units \in Seq(Seq(Byte)) /\ pending \in Seq(Byte)
          /\ pos \in Nat \ {0} /\ pos <= Len(pending) + 1
      <3>1. source[t] \in SourceRecord /\ Position(source[t])
        BY DEF DeviceInv
      <3> QED
        BY <3>1 DEF SourceRecord, Position
    <2>2. Len(got) \in Nat /\ Len(units) \in Nat /\ Len(pending) \in Nat
      <3> HIDE DEF got, units, pending
      <3> QED
        BY <2>1, LenProperties
    <2>3. Exhausted(t) => pos = Len(pending) + 1
      <3>1. Exhausted(t) => pos > Len(pending)
        BY DEF Exhausted
      <3> HIDE DEF pos, pending
      <3> QED
        BY <2>1, <2>2, <3>1
    <2>4. ASSUME Len(got) <= Len(units), \A k \in 1 .. Len(got) : got[k] = units[k]
          PROVE  IsPrefix(got, units)
      <3> HIDE DEF got, units
      <3> DEFINE n == Len(got)
                 part == SubSeq(units, 1, n)
      <3>1. n \in Nat /\ n <= Len(units)
        BY <2>2, <2>4
      <3>2. SubSeq(got, 1, n) = got
        BY <2>1, SubSeqFull
      <3> HIDE DEF n
      <3>3. n \in 0 .. Len(units)
        BY <2>2, <3>1
      <3>4. part \in Seq(Seq(Byte)) /\ Len(part) = n /\ \A i \in 1 .. n : part[i] = units[i]
        BY <2>1, <3>3, PrefixIs
      <3> HIDE DEF part
      <3>7. got = part
        BY <2>1, <2>4, <3>4, SeqEqual DEF n
      <3> QED
        BY <3>1, <3>2, <3>7 DEF IsPrefix, n, part
    <2>5. CASE Spent(source[t])
      <3>1. got = units
        BY <2>5 DEF Spent
      <3> HIDE DEF got, units
      <3>2. IsPrefix(got, units)
        BY <2>2, <2>4, <3>1
      <3> QED
        BY <3>1, <3>2 DEF got, units
    <2>6. CASE NoCode(source[t])
      <3>1. got = <<>> /\ (uri = "file" => units = <<>>) /\ (uri # "file" => pos = 1 /\ pending # <<>>)
        BY <2>6 DEF NoCode
      <3>2. IsPrefix(got, units)
        <4> HIDE DEF got, units, pos, pending
        <4>1. Len(got) = 0 /\ Len(got) <= Len(units) /\ 1 .. Len(got) = {}
          BY <2>2, <3>1, EmptySeq
        <4> QED
          BY <2>4, <4>1
      <3>3. uri # "file" => ~Exhausted(t)
        <4> SUFFICES ASSUME pos = 1, pending # <<>>, pos = Len(pending) + 1 PROVE FALSE
          BY <2>3, <3>1
        <4> HIDE DEF pos, pending
        <4>1. Len(pending) # 0
          BY <2>1, EmptySeq
        <4> QED
          BY <2>2, <4>1
      <3> QED
        BY <3>1, <3>2, <3>3
    <2>7. ASSUME NEW o \in Files \cup Filled \cup Unusual, InContent(source[t], o)
          PROVE  IsPrefix(got, units) /\ (Exhausted(t) => got = units)
      <3>1. IsContent(o) /\ pending = o.bytes /\ units = o.units /\ Delivered(o, got, pos)
        BY <2>7 DEF InContent
      <3>2. IsPrefix(got, units)
        <4>1. Len(got) <= Len(units) /\ \A k \in 1 .. Len(got) : got[k] = units[k]
          <5> HIDE DEF got, units
          <5> QED
            BY <3>1 DEF Delivered
        <4> QED
          BY <2>4, <4>1
      <3>3. Exhausted(t) => got = units
        <4> HIDE DEF got, units, pos, pending
        <4> QED
          BY <2>1, <2>3, <3>1, AllDelivered
      <3> QED
        BY <3>2, <3>3
    <2>8. AmongUnits(source[t])
      BY DEF DeliveryInv
    <2> QED
      BY <2>5, <2>6, <2>7, <2>8 DEF AmongUnits
  <1> QED
    BY <1>1, DeviceInvAlways, DeliveryInit, DeliveryStep, PTL DEF DeviceSpec

=============================================================================
