----------------------------- MODULE HttpParser -----------------------------
(***************************************************************************)
(* The request parser of one http_conn that carries no stream: main fills  *)
(* m_read_buf in read(), a worker runs the loop of process_read() over it, *)
(* main writes the response and, on a kept connection, init() starts over. *)
(* The client's bytes reach the socket one by one, so a read() may end     *)
(* anywhere.                                                               *)
(*                                                                         *)
(* An index of the model counts symbols from 0, as the code counts bytes.  *)
(* The NULs that the parser writes into m_read_buf are left out as long as *)
(* nothing reads them: they replace the ends of lines behind m_checked_idx *)
(* or follow a body. One behind the start of a body may shorten the URL    *)
(* (Named), and one outside the buffer ends what the model can say: the    *)
(* phase is then "undefined", and everything may follow.                   *)
(***************************************************************************)
EXTENDS HttpText

CONSTANT READ_BUFFER_SIZE   \* 2048 bytes in the code

ASSUME ParserAssumption ==
    READ_BUFFER_SIZE \in Nat \ {0} /\ 2 * READ_BUFFER_SIZE <= MaxInt

VARIABLES
    input,              \* all that the client will send
    sent,               \* how many of it the socket has received
    taken,              \* how many of it read() has taken from the socket
    m_read_buf,         \* its first m_read_idx symbols
    m_checked_idx, m_start_line, m_check_state, m_content_length, m_linger,
    line_status,        \* the local variable of process_read()
    phase,              \* who has the connection in hand
    code,               \* the HTTP_CODE of the last process_read()
    bodyWasCut          \* history: a read() of this request ended inside its body

parser == <<m_checked_idx, m_start_line, m_check_state, m_content_length, m_linger>>
vars == <<input, sent, taken, m_read_buf, parser, line_status, phase, code, bodyWasCut>>

m_read_idx == Len(m_read_buf)
Codes == {"NO_REQUEST", "BAD_REQUEST", "NO_RESOURCE", "FORBIDDEN_REQUEST",
          "FILE_REQUEST", "INTERNAL_ERROR", "MJPEG_REQUEST", "FLV_REQUEST",
          "SERVICE_UNAVAILABLE", "API_REQUEST"}

\* The indices stay in order and in the buffer; a worker never sees it full.
TypeOK ==
    /\ input \in Inputs
    /\ sent \in 0..Len(input) /\ taken \in 0..sent
    /\ m_read_buf \in Seq(Range(input)) /\ m_read_idx <= READ_BUFFER_SIZE
    /\ m_start_line \in 0..m_checked_idx /\ m_checked_idx \in 0..m_read_idx
    /\ m_check_state \in {"REQUESTLINE", "HEADER", "CONTENT"}
    /\ m_content_length \in IntValues /\ m_linger \in BOOLEAN
    /\ line_status \in {"LINE_OK", "LINE_OPEN", "LINE_BAD"}
    /\ phase \in {"idle", "work", "answer", "stream", "closed", "undefined"}
    /\ phase \in {"idle", "work"} => m_read_idx < READ_BUFFER_SIZE
    /\ code \in Codes
    /\ bodyWasCut \in BOOLEAN

Init ==
    /\ input \in Inputs /\ sent = 0 /\ taken = 0
    /\ m_read_buf = <<>> /\ bodyWasCut = FALSE
    /\ m_checked_idx = 0 /\ m_start_line = 0 /\ m_check_state = "REQUESTLINE"
    /\ m_content_length = 0 /\ m_linger = FALSE
    /\ line_status = "LINE_OK" /\ phase = "idle" /\ code = "NO_REQUEST"

-----------------------------------------------------------------------------
(* read(): everything the socket holds, as long as there is room. A recv()
   without room, like one from a peer that is gone, returns 0 and fails. What
   has been read goes to the pool, whose queue may refuse it. *)

PeerSends ==
    /\ sent < Len(input)
    /\ sent' = sent + 1
    /\ UNCHANGED <<input, taken, m_read_buf, parser, line_status, phase, code, bodyWasCut>>

Room == READ_BUFFER_SIZE - m_read_idx
Recv == SubSeq(input, taken + 1, taken + Min({sent - taken, Room}))
\* Wrong variant: a full buffer is handed to the worker; only the next read() would fail.
FullNextTime(buf) == Len(buf) > READ_BUFFER_SIZE

IsFull(buf) == Len(buf) >= READ_BUFFER_SIZE

Read ==
    /\ phase = "idle" /\ taken < sent
    /\ taken' = taken + Len(Recv)
    /\ m_read_buf' = m_read_buf \o Recv
    /\ bodyWasCut' = (bodyWasCut \/ EndsInBody(m_read_buf'))
    /\ phase' \in IF IsFull(m_read_buf') THEN {"closed"} ELSE {"work", "closed"}
    /\ line_status' = "LINE_OK"
    /\ UNCHANGED <<input, sent, parser, code>>

-----------------------------------------------------------------------------
(* parse_line(): the status of the line that starts at or before index
   m_checked_idx, and the index where the scan stops. *)

At(i) == m_read_buf[i + 1]
LineEnd == {i \in m_checked_idx..(m_read_idx - 1) : At(i) \in {"CR", "LF"}}
Line(status, idx) == [status |-> status, checked |-> idx]

\* Wrong variant: the scan stops behind a CR at the end of the buffer, and
\* does not look at it again.
ParseLinePastCR ==
    IF LineEnd = {} THEN Line("LINE_OPEN", m_read_idx)
    ELSE LET i == Min(LineEnd)
             cut == At(i) = "CR" /\ i + 1 = m_read_idx
             pair == At(i) = "CR" /\ i + 1 < m_read_idx /\ At(i + 1) = "LF"
         IN  CASE cut  -> Line("LINE_OPEN", i + 1)
               [] pair -> Line("LINE_OK", i + 2)
               [] OTHER -> Line("LINE_BAD", i)

ParseLine ==
    IF LineEnd = {} THEN Line("LINE_OPEN", m_read_idx)
    ELSE LET i == Min(LineEnd)
             cut == At(i) = "CR" /\ i + 1 = m_read_idx
             pair == At(i) = "CR" /\ i + 1 < m_read_idx /\ At(i + 1) = "LF"
             tail == At(i) = "LF" /\ i > 1 /\ At(i - 1) = "CR"
         IN  CASE cut  -> Line("LINE_OPEN", i)
               [] pair -> Line("LINE_OK", i + 2)
               [] tail -> Line("LINE_OK", i + 1)
               [] OTHER -> Line("LINE_BAD", i)

\* The condition of the loop: a body is looked at without parse_line(), once.
NextLine ==
    IF m_check_state = "CONTENT" /\ line_status = "LINE_OK"
    THEN Line("LINE_OK", m_checked_idx) ELSE ParseLine

\* get_line(): up to the CR LF that ends before the checked index.
Text == SubSeq(m_read_buf, m_start_line + 1, NextLine.checked - 2)

\* What one turn of the loop always does with a line it found.
Turn(state) ==
    /\ phase = "work" /\ NextLine.status = "LINE_OK" /\ m_check_state = state
    /\ m_checked_idx' = NextLine.checked
    /\ m_start_line' = NextLine.checked
    /\ UNCHANGED <<input, sent, taken, m_read_buf, bodyWasCut>>

-----------------------------------------------------------------------------
(* process(): the code decides who has the connection next. *)

\* A stream that cannot start, or a response too long for its buffer, closes.
Reply(c) ==
    /\ code' = c
    /\ phase' \in IF c \in Streams THEN {"stream", "closed"} ELSE {"answer", "closed"}

\* m_url points into the buffer: the request line is what comes first in it.
Requested == Url[Head(m_read_buf)]
GetRequest(kinds) == \E u \in kinds : \E c \in DoRequest(u) : Reply(c)

-----------------------------------------------------------------------------
(* process_read(): one action per case of the loop's body. *)

LeaveLoop ==
    /\ phase = "work" /\ NextLine.status # "LINE_OK"
    /\ line_status' = NextLine.status
    /\ m_checked_idx' = NextLine.checked
    /\ code' = "NO_REQUEST" /\ phase' = "idle"
    /\ UNCHANGED <<input, sent, taken, m_read_buf, m_start_line, m_check_state,
                   m_content_length, m_linger, bodyWasCut>>

WellFormed(text) == Len(text) = 1 /\ text[1] \in DOMAIN Url

RequestLine ==
    /\ Turn("REQUESTLINE")
    /\ line_status' = "LINE_OK"
    /\ UNCHANGED <<m_content_length, m_linger>>
    /\ \/ /\ WellFormed(Text)
          /\ m_check_state' = "HEADER"
          /\ UNCHANGED <<phase, code>>
       \/ /\ ~WellFormed(Text)
          /\ m_check_state' = "REQUESTLINE"
          /\ Reply("BAD_REQUEST")

\* A header of another name leaves both fields alone; a repeated one wins.
Header ==
    /\ Turn("HEADER") /\ Text # <<>>
    /\ line_status' = "LINE_OK"
    /\ m_linger' = (m_linger \/ Text = <<"keep">>)
    /\ m_content_length' = IF Text[1] \in DOMAIN ContentLength
                           THEN ToInt(ContentLength[Text[1]]) ELSE m_content_length
    /\ UNCHANGED <<m_check_state, phase, code>>

BlankLine ==
    /\ Turn("HEADER") /\ Text = <<>>
    /\ line_status' = "LINE_OK"
    /\ UNCHANGED <<m_content_length, m_linger>>
    /\ \/ /\ m_content_length # 0
          /\ m_check_state' = "CONTENT"
          /\ UNCHANGED <<phase, code>>
       \/ /\ m_content_length = 0
          /\ UNCHANGED m_check_state
          /\ GetRequest({Requested})

\* parse_content() compares with the index that the scan of this turn left. A
\* sum beyond the range of int is undefined: it wraps, or the compiler has
\* turned the comparison into one that does not overflow.
Sums == LET sum == m_content_length + NextLine.checked IN {sum, ToInt(sum)}

\* Where the NUL goes that ends the body; a negative length puts it in front
\* of the body, and in the request line it leaves another URL, or none.
Terminator == m_start_line + m_content_length
Named == IF m_content_length < 0 /\ Terminator = 0 THEN Kinds ELSE {Requested}

\* Wrong variant: a turn with a short body does not end the look at it.
AfterShortBodyForgotten == line_status

\* The status a turn leaves that did not find the whole body.
AfterShortBody == "LINE_OPEN"
Content ==
    /\ Turn("CONTENT")
    /\ UNCHANGED <<m_check_state, m_content_length, m_linger>>
    /\ \E sum \in Sums :
          \/ /\ m_read_idx >= sum /\ Terminator \in 0..(READ_BUFFER_SIZE - 1)
             /\ line_status' = "LINE_OK" /\ GetRequest(Named)
          \/ /\ m_read_idx >= sum /\ Terminator \notin 0..(READ_BUFFER_SIZE - 1)
             /\ phase' = "undefined" /\ UNCHANGED <<line_status, code>>
          \/ /\ m_read_idx < sum
             /\ line_status' = AfterShortBody /\ UNCHANGED <<phase, code>>

-----------------------------------------------------------------------------
(* The response is written; a kept connection starts over with init(), which
   also forgets what the buffer holds behind the request. Any other, and one
   on which writev() fails, is closed. HttpExchange has the steps of this. *)

\* Wrong variant: the keep-alive of the last request is not forgotten.
ResetKeepsLinger ==
    /\ m_read_buf' = <<>> /\ bodyWasCut' = FALSE
    /\ m_checked_idx' = 0 /\ m_start_line' = 0 /\ m_check_state' = "REQUESTLINE"
    /\ m_content_length' = 0 /\ m_linger' = m_linger

Reset ==
    /\ m_read_buf' = <<>> /\ bodyWasCut' = FALSE
    /\ m_checked_idx' = 0 /\ m_start_line' = 0 /\ m_check_state' = "REQUESTLINE"
    /\ m_content_length' = 0 /\ m_linger' = FALSE

Write ==
    /\ phase = "answer"
    /\ \/ m_linger /\ Reset /\ phase' = "idle"
       \/ phase' = "closed" /\ UNCHANGED <<m_read_buf, parser, bodyWasCut>>
    /\ UNCHANGED <<input, sent, taken, line_status, code>>

Server == Read \/ LeaveLoop \/ RequestLine \/ Header \/ BlankLine \/ Content \/ Write
Next == PeerSends \/ Server

Spec == Init /\ [][Next]_vars
\* Main and the workers run whenever they have something to do; the client
\* may stop in the middle of a request.
FairSpec == Spec /\ WF_vars(Server)

-----------------------------------------------------------------------------
(* Wherever the reads cut the request, the loop of process_read() comes to the
   verdict of the whole buffer: it answers a request exactly when the bytes
   hold one, waits exactly when they do not, and refuses exactly a malformed
   first line; a body that two reads bring is the exception (BodyIsJudged). The
   length of a body is the number that m_content_length holds, whatever number
   the header says; nothing is said once the NUL went outside the buffer. *)
JudgedAsWhole ==
    /\ phase = "idle" => Verdict(m_read_buf) = "none" \/ bodyWasCut
    /\ phase \in {"answer", "stream"} =>
         \/ Verdict(m_read_buf) = "get"
         \/ Verdict(m_read_buf) = "bad" /\ code = "BAD_REQUEST"

(* parse_content() writes its NUL at text[m_content_length] without a bound of
   its own. Because read() fails on a full buffer it is inside m_read_buf for
   every length that is not negative and whose sum with an index of the buffer
   is an int; parse_headers() does not look for that, so no other is claimed. *)
LengthIsSane == m_content_length >= 0 /\ m_content_length + m_read_idx <= MaxInt
TerminatorInBuffer == LengthIsSane => phase # "undefined"

(* The loop of process_read() always ends: with a client that stops sending,
   the server has read everything it was sent and is at rest. *)
ServerComesToRest == <>[](phase \in {"stream", "closed", "undefined"} \/ (phase = "idle" /\ taken = sent))

(* The comment on parse_content() says that the body is not parsed but only
   judged for whether it has been read in completely: a request that has been
   read with its whole body is not waited for any longer. *)
BodyIsJudged == phase = "idle" => Verdict(m_read_buf) # "get"
=============================================================================
