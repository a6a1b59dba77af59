-------------------------- MODULE HttpParserProofs --------------------------
(***************************************************************************)
(* Proofs about HttpParser for every buffer size, every set of inputs and  *)
(* of URLs, and every number in a Content-Length: the indices of the       *)
(* parser stay in order and in the buffer, and so does the NUL behind a    *)
(* body of a sane length; and the verdict of the loop, line by line and    *)
(* read by read, is that of the buffer.                                    *)
(***************************************************************************)
EXTENDS HttpParser, FiniteSetTheorems, SequenceTheorems, WellFoundedInduction, TLAPS

-----------------------------------------------------------------------------
(* A set of naturals has a least element.  The intervals 0..x are ordered  *)
(* like their bounds, and strict inclusion of finite sets is well-founded. *)

\* Min, which parse_line() is written with, is what its name says.
LEMMA MinIsIn ==
    ASSUME NEW S \in SUBSET Nat, S # {}
    PROVE  /\ Min(S) \in S
           /\ \A y \in S : Min(S) <= y
  <1> DEFINE Below == {0..x : x \in S}
             R == StrictSubsetOrdering(Nat)
  <1>1. \A T \in Below : T \in FiniteSubsetsOf(Nat)
    <2> SUFFICES ASSUME NEW x \in S PROVE 0..x \in FiniteSubsetsOf(Nat)
      OBVIOUS
    <2>1. IsFiniteSet(0..x)
      BY x \in Int, 0 \in Int, FS_Interval
    <2>2. 0..x \in SUBSET Nat
      OBVIOUS
    <2> QED
      BY <2>1, <2>2, Zenon DEF FiniteSubsetsOf
  <1>2. PICK T \in Below : \A U \in Below : ~(<<U, T>> \in R)
    <2>1. IsWellFoundedOn(R, FiniteSubsetsOf(Nat))
      BY FS_StrictSubsetOrderingWellFounded
    <2>2. Below \subseteq FiniteSubsetsOf(Nat) /\ Below # {}
      BY <1>1
    <2> HIDE DEF Below, R
    <2> QED
      BY <2>1, <2>2, WFMin
  <1>3. PICK x \in S : T = 0..x
    BY <1>2
  <1>4. \A y \in S : x <= y
    <2> SUFFICES ASSUME NEW y \in S, y < x PROVE FALSE
      OBVIOUS
    <2>1. 0..y \subseteq 0..x /\ 0..y # 0..x /\ 0..y \in SUBSET Nat /\ 0..x \in SUBSET Nat
      BY x \in 0..x, x \notin 0..y
    <2>2. <<0..y, 0..x>> \in R
      BY <2>1 DEF StrictSubsetOrdering
    <2> QED
      BY <1>2, <1>3, <2>2
  <1> QED
    BY <1>4 DEF Min

\* The smaller of two numbers is one of them.
LEMMA MinOfTwo ==
    ASSUME NEW a \in Nat, NEW b \in Nat
    PROVE  Min({a, b}) \in Nat /\ Min({a, b}) <= a /\ Min({a, b}) <= b
  BY MinIsIn, {a, b} \in SUBSET Nat, {a, b} # {}, Zenon

-----------------------------------------------------------------------------
(* parse_line() and what the turns of the loop make of it.                 *)

\* Remainders, and with them what a conversion to int keeps.
LEMMA Remainder ==
    \A k \in Nat \ {0} : /\ \A a \in Int : a % k \in 0..(k - 1)
                         /\ \A a \in 0..(k - 1) : a % k = a
  OBVIOUS
LEMMA IntIs ==
    ASSUME NEW n \in Int
    PROVE  ToInt(n) \in IntValues /\ (n \in IntValues => ToInt(n) = n)
  <1> DEFINE k == 2 * (MaxInt + 1)
             a == n + MaxInt + 1
  <1>1. k \in Nat \ {0} /\ a \in Int /\ (n \in IntValues => a \in 0..(k - 1))
    BY TextAssumption DEF IntValues
  <1> HIDE DEF k, a
  <1>2. a % k \in 0..(k - 1) /\ (n \in IntValues => a % k = a)
    BY <1>1, Remainder
  <1> QED
    BY <1>1, <1>2, TextAssumption DEF ToInt, IntValues, k, a

\* The length of the buffer and the indices are naturals.
LEMMA Indices ==
    ASSUME TypeOK
    PROVE  /\ m_read_idx \in Nat /\ m_checked_idx \in Nat /\ m_start_line \in Nat
           /\ m_start_line <= m_checked_idx /\ m_checked_idx <= m_read_idx
  <1>1. Len(m_read_buf) \in Nat
    BY LenProperties DEF TypeOK
  <1> QED
    BY <1>1 DEF TypeOK, m_read_idx

\* The scan only moves on, and never over the end of what has been read.
LEMMA ScanStaysInBuffer ==
    ASSUME TypeOK
    PROVE  /\ NextLine.checked \in m_checked_idx..m_read_idx
           /\ NextLine.status \in {"LINE_OK", "LINE_OPEN", "LINE_BAD"}
  <1> USE Indices
  <1>1. ParseLine.checked \in m_checked_idx..m_read_idx
        /\ ParseLine.status \in {"LINE_OK", "LINE_OPEN", "LINE_BAD"}
    <2>1. CASE LineEnd = {}
      BY <2>1 DEF ParseLine, Line
    <2>2. CASE LineEnd # {}
      <3> DEFINE i == Min(LineEnd)
      <3>1. LineEnd \in SUBSET Nat
        BY DEF LineEnd
      <3>2. i \in LineEnd
        BY <2>2, <3>1, MinIsIn
      <3>3. i \in m_checked_idx..(m_read_idx - 1)
        BY <3>2 DEF LineEnd
      <3> HIDE DEF i
      <3>4. ParseLine \in {Line("LINE_OPEN", i), Line("LINE_OK", i + 1), Line("LINE_BAD", i)}
            \/ (i + 1 < m_read_idx /\ ParseLine = Line("LINE_OK", i + 2))
        BY <2>2 DEF ParseLine, i
      <3> QED
        BY <3>3, <3>4 DEF Line
    <2> QED
      BY <2>1, <2>2
  <1>2. Line("LINE_OK", m_checked_idx).checked = m_checked_idx
        /\ Line("LINE_OK", m_checked_idx).status = "LINE_OK"
    BY DEF Line
  <1> QED
    BY <1>1, <1>2 DEF NextLine

-----------------------------------------------------------------------------
(* The inductive invariant: before the request line is parsed the line     *)
(* starts with the buffer, and after it the buffer starts with a URL.      *)

FirstLineAtStart == m_check_state = "REQUESTLINE" /\ phase \in {"idle", "work"} => m_start_line = 0
UrlComesFirst == m_check_state # "REQUESTLINE" => m_read_buf # <<>> /\ Head(m_read_buf) \in DOMAIN Url
ParserInv == TypeOK /\ FirstLineAtStart /\ UrlComesFirst

\* Nothing has been read: all indices are zero.
LEMMA InitParser == Init => ParserInv
  <1> SUFFICES ASSUME Init PROVE ParserInv
    OBVIOUS
  <1>1. Len(input) \in Nat
    BY TextAssumption, LenProperties DEF Init
  <1>2. m_read_buf \in Seq(Range(input)) /\ m_read_idx = 0
    BY EmptySeq DEF Init, m_read_idx
  <1>3. TypeOK
    <2>1. sent \in 0..Len(input) /\ taken \in 0..sent
      BY <1>1 DEF Init
    <2>2. m_read_idx < READ_BUFFER_SIZE /\ m_read_idx <= READ_BUFFER_SIZE /\ m_start_line \in 0..m_checked_idx
          /\ m_checked_idx \in 0..m_read_idx /\ m_content_length \in IntValues
      BY <1>2, ParserAssumption, TextAssumption DEF Init, IntValues
    <2>3. m_linger \in BOOLEAN /\ bodyWasCut \in BOOLEAN /\ code \in Codes
      BY Zenon DEF Init, Codes
    <2> QED
      BY <1>2, <2>1, <2>2, <2>3 DEF Init, TypeOK
  <1> QED
    BY <1>3 DEF Init, ParserInv, FirstLineAtStart, UrlComesFirst

\* do_request() answers the URL in front of the buffer with a known code.
LEMMA KnownCode ==
    ASSUME NEW u \in Kinds
    PROVE  DoRequest(u) \subseteq Codes
  BY DEF DoRequest, Codes, Kinds
LEMMA KnownUrl ==
    ASSUME UrlComesFirst, m_check_state # "REQUESTLINE"
    PROVE  {Requested} \subseteq Kinds /\ Named \subseteq Kinds
  BY TextAssumption DEF UrlComesFirst, Requested, Named

\* read() appends what it takes, and a worker gets a buffer that is not full.
LEMMA ReadStep == ParserInv /\ Read => ParserInv'
  <1> SUFFICES ASSUME ParserInv, Read PROVE ParserInv'
    OBVIOUS
  <1> USE DEF ParserInv
  <1> DEFINE n == Min({sent - taken, Room})
  <1>1. Len(m_read_buf) \in Nat /\ Len(input) \in Nat
    BY TextAssumption, LenProperties DEF TypeOK
  <1>2. Room \in Nat /\ sent - taken \in Nat /\ sent \in Nat /\ taken \in Nat
    BY <1>1, ParserAssumption DEF TypeOK, Room, m_read_idx
  <1>3. n \in Nat /\ n <= sent - taken /\ n <= Room
    BY <1>2, MinOfTwo
  <1> HIDE DEF n
  <1>4. Recv \in Seq(Range(input)) /\ Len(Recv) = n
    <2>1. \A i \in (taken + 1)..(taken + n) : input[i] \in Range(input)
      BY <1>1, <1>2, <1>3, TextAssumption, LenProperties DEF TypeOK, Range
    <2>2. Recv = SubSeq(input, taken + 1, taken + n)
      BY DEF Recv, n
    <2> QED
      BY <2>1, <2>2, <1>2, <1>3, SubSeqProperties
  <1>5. /\ m_read_buf' \in Seq(Range(input))
        /\ Len(m_read_buf') = Len(m_read_buf) + n
        /\ \A i \in 1..Len(m_read_buf) : m_read_buf'[i] = m_read_buf[i]
    <2> DEFINE S == Range(input)
               b == m_read_buf \o Recv
    <2>1. m_read_buf \in Seq(S) /\ Recv \in Seq(S) /\ m_read_buf' = b
      BY <1>4 DEF TypeOK, Read
    <2> HIDE DEF S
    <2>2. /\ b \in Seq(S)
          /\ Len(b) = Len(m_read_buf) + Len(Recv)
          /\ \A i \in 1..(Len(m_read_buf) + Len(Recv)) :
               b[i] = IF i <= Len(m_read_buf) THEN m_read_buf[i] ELSE Recv[i - Len(m_read_buf)]
      BY <2>1, ConcatProperties
    <2> HIDE DEF b
    <2> QED
      BY <1>1, <1>3, <1>4, <2>1, <2>2 DEF S
  <1>6. TypeOK'
    <2>1. taken' \in 0..sent'
      BY <1>2, <1>3, <1>4 DEF Read
    <2>2. m_read_idx' = m_read_idx + n
      BY <1>5 DEF m_read_idx
    <2>3. m_read_idx' <= READ_BUFFER_SIZE
      BY <2>2, <1>1, <1>2, <1>3, ParserAssumption DEF Room, m_read_idx
    <2>4. phase' = "work" => m_read_idx' < READ_BUFFER_SIZE
      BY <2>2, <2>3, ParserAssumption, <1>1, <1>3 DEF Read, IsFull, m_read_idx
    <2>5. m_checked_idx' \in 0..m_read_idx'
      BY <2>2, <1>1, <1>3, Indices DEF Read, parser
    <2>6. phase' \in {"work", "closed"}
      BY DEF Read
    <2>7. bodyWasCut' \in BOOLEAN
      BY DEF Read, TypeOK
    <2> QED
      BY <1>5, <2>1, <2>3, <2>4, <2>5, <2>6, <2>7 DEF TypeOK, Read, parser
  <1>7. UrlComesFirst'
    <2> SUFFICES ASSUME m_check_state # "REQUESTLINE"
                 PROVE  m_read_buf' # <<>> /\ Head(m_read_buf') \in DOMAIN Url
      BY DEF UrlComesFirst, Read, parser
    <2>1. m_read_buf # <<>> /\ m_read_buf[1] \in DOMAIN Url
      BY HeadTailProperties DEF UrlComesFirst, TypeOK
    <2>2. Len(m_read_buf) >= 1
      BY <2>1, <1>1, EmptySeq DEF TypeOK
    <2>3. m_read_buf'[1] = m_read_buf[1] /\ Len(m_read_buf') >= 1
      BY <2>2, <1>1, <1>3, <1>5
    <2> QED
      BY <2>1, <2>3, <1>5, HeadTailProperties, EmptySeq
  <1>8. FirstLineAtStart'
    BY DEF FirstLineAtStart, Read, parser
  <1> QED
    BY <1>6, <1>7, <1>8

\* Only the socket receives.
LEMMA PeerStep == ParserInv /\ PeerSends => ParserInv'
  <1> SUFFICES ASSUME ParserInv, PeerSends PROVE ParserInv'
    OBVIOUS
  <1> USE DEF ParserInv
  <1>1. Len(input) \in Nat
    BY TextAssumption, LenProperties DEF TypeOK
  <1>2. sent' \in 0..Len(input') /\ taken' \in 0..sent'
    BY <1>1 DEF TypeOK, PeerSends
  <1>3. TypeOK'
    BY <1>2 DEF TypeOK, PeerSends, parser, m_read_idx
  <1> QED
    BY <1>3 DEF PeerSends, parser, FirstLineAtStart, UrlComesFirst

-----------------------------------------------------------------------------
(* The turns of the loop of process_read().                                *)

\* A turn moves the start of the line to where the scan stopped.
LEMMA TurnMovesOn ==
    ASSUME TypeOK, NEW state, Turn(state)
    PROVE  /\ m_start_line' \in 0..m_checked_idx' /\ m_checked_idx' \in 0..m_read_idx'
           /\ m_read_idx' = m_read_idx /\ m_read_idx < READ_BUFFER_SIZE
           /\ input' \in Inputs /\ sent' \in 0..Len(input') /\ taken' \in 0..sent'
           /\ m_read_buf' \in Seq(Range(input')) /\ bodyWasCut' \in BOOLEAN
  <1>1. m_read_idx' = m_read_idx
    BY DEF Turn, m_read_idx
  <1>2. m_start_line' \in 0..m_checked_idx' /\ m_checked_idx' \in 0..m_read_idx
    BY ScanStaysInBuffer, Indices DEF Turn
  <1> QED
    BY <1>1, <1>2 DEF Turn, TypeOK

\* A turn that leaves the rest in its types leaves the whole parser in them.
LEMMA TurnType ==
    ASSUME TypeOK, NEW state, Turn(state),
           m_check_state' \in {"REQUESTLINE", "HEADER", "CONTENT"},
           m_content_length' \in IntValues, m_linger' \in BOOLEAN,
           line_status' \in {"LINE_OK", "LINE_OPEN", "LINE_BAD"},
           phase' \in {"work", "answer", "stream", "closed", "undefined"}, code' \in Codes
    PROVE  TypeOK'
  <1>1. m_read_idx' <= READ_BUFFER_SIZE /\ m_read_idx' < READ_BUFFER_SIZE
    BY TurnMovesOn, Indices, ParserAssumption
  <1> QED
    BY <1>1, TurnMovesOn DEF TypeOK

\* The code of an answer decides about the connection; it is never idle again.
LEMMA ReplyType ==
    ASSUME NEW c \in Codes, Reply(c)
    PROVE  phase' \in {"answer", "stream", "closed"} /\ code' \in Codes
  BY DEF Reply

\* So does what do_request() made of the URL.
LEMMA GetType ==
    ASSUME NEW kinds \in SUBSET Kinds, GetRequest(kinds)
    PROVE  phase' \in {"answer", "stream", "closed"} /\ code' \in Codes
  <1>1. PICK u \in kinds : \E c \in DoRequest(u) : Reply(c)
    BY DEF GetRequest
  <1>3. PICK c \in DoRequest(u) : Reply(c)
    BY <1>1
  <1>2. c \in Codes
    BY KnownCode
  <1> QED
    BY <1>2, <1>3, ReplyType

\* No complete line: the worker hands the connection back.
LEMMA LeaveLoopStep == ParserInv /\ LeaveLoop => ParserInv'
  <1> SUFFICES ASSUME ParserInv, LeaveLoop PROVE ParserInv'
    OBVIOUS
  <1> USE DEF ParserInv
  <1>1. m_read_idx' = m_read_idx /\ m_read_idx' <= READ_BUFFER_SIZE
    BY DEF LeaveLoop, TypeOK, m_read_idx
  <1>2. m_start_line' \in 0..m_checked_idx' /\ m_checked_idx' \in 0..m_read_idx'
    BY <1>1, ScanStaysInBuffer, Indices DEF LeaveLoop
  <1>3. line_status' \in {"LINE_OK", "LINE_OPEN", "LINE_BAD"}
    BY ScanStaysInBuffer DEF LeaveLoop
  <1>4. code' \in Codes /\ phase' = "idle"
    BY Zenon DEF LeaveLoop, Codes
  <1>5. TypeOK'
    BY <1>1, <1>2, <1>3, <1>4 DEF LeaveLoop, TypeOK
  <1> QED
    BY <1>5 DEF LeaveLoop, FirstLineAtStart, UrlComesFirst

\* A well-formed request line is one symbol, and the first of the buffer.
LEMMA WellFormedIsFirst ==
    ASSUME TypeOK, FirstLineAtStart, Turn("REQUESTLINE"), WellFormed(Text)
    PROVE  m_read_buf # <<>> /\ Head(m_read_buf) \in DOMAIN Url
  <1> DEFINE S == Range(input)
             n == NextLine.checked - 2
  <1>1. m_start_line = 0
    BY DEF FirstLineAtStart, Turn
  <1>2. n \in Int /\ n < m_read_idx /\ m_read_idx \in Nat
    BY ScanStaysInBuffer, Indices
  <1>3. m_read_buf \in Seq(S)
    BY DEF TypeOK
  <1>4. Text = SubSeq(m_read_buf, 1, n)
    BY <1>1 DEF Text
  <1> HIDE DEF n, S
  <1>5. \A i \in 1..n : m_read_buf[i] \in S
    BY <1>2, <1>3, ElementOfSeq DEF m_read_idx
  <1>6. /\ Len(Text) = IF 1 <= n THEN n ELSE 0
        /\ \A i \in 1..n : Text[i] = m_read_buf[i]
    BY <1>2, <1>4, <1>5, SubSeqProperties
  <1>t. Len(Text) = 1 /\ Text[1] \in DOMAIN Url
    BY DEF WellFormed
  <1>7. n = 1 /\ Text[1] = m_read_buf[1]
    <2> DEFINE k == Len(Text)
    <2>1. k = 1 /\ k = IF 1 <= n THEN n ELSE 0
      BY <1>6, <1>t
    <2> HIDE DEF k
    <2>2. n = 1
      BY <1>2, <2>1
    <2>3. 1 \in 1 .. n
      BY <2>2
    <2> QED
      BY <1>6, <2>2, <2>3
  <1>8. m_read_buf # <<>>
    BY <1>2, <1>7, EmptySeq DEF m_read_idx
  <1>9. Head(m_read_buf) = m_read_buf[1]
    BY <1>3, <1>8 DEF Head
  <1> QED
    BY <1>7, <1>8, <1>9, <1>t

\* The request line.
LEMMA RequestLineStep == ParserInv /\ RequestLine => ParserInv'
  <1> SUFFICES ASSUME ParserInv, RequestLine PROVE ParserInv'
    OBVIOUS
  <1> USE DEF ParserInv
  <1>1. Turn("REQUESTLINE") /\ m_read_buf' = m_read_buf /\ phase = "work"
    BY DEF RequestLine, Turn
  <1>2. m_content_length' \in IntValues /\ m_linger' \in BOOLEAN /\ line_status' = "LINE_OK"
    BY DEF RequestLine, TypeOK
  <1>3. CASE WellFormed(Text)
    <2>1. m_check_state' = "HEADER" /\ phase' = phase /\ code' = code
      BY <1>3 DEF RequestLine
    <2>2. TypeOK'
      BY <1>1, <1>2, <2>1, TurnType DEF TypeOK
    <2>3. UrlComesFirst'
      BY <1>1, <1>3, WellFormedIsFirst DEF UrlComesFirst
    <2> QED
      BY <2>1, <2>2, <2>3 DEF FirstLineAtStart
  <1>4. CASE ~WellFormed(Text)
    <2>1. m_check_state' = "REQUESTLINE" /\ Reply("BAD_REQUEST")
      BY <1>4 DEF RequestLine
    <2>2. phase' \in {"answer", "stream", "closed"} /\ code' \in Codes
      BY <2>1, ReplyType DEF Codes
    <2>3. TypeOK'
      BY <1>1, <1>2, <2>1, <2>2, TurnType
    <2> QED
      BY <2>1, <2>2, <2>3 DEF FirstLineAtStart, UrlComesFirst
  <1> QED
    BY <1>3, <1>4

\* A turn behind the request line keeps the URL where it is.
LEMMA LaterTurn ==
    ASSUME ParserInv, NEW state, Turn(state), state # "REQUESTLINE",
           m_check_state' # "REQUESTLINE"
    PROVE  FirstLineAtStart' /\ UrlComesFirst'
  BY DEF ParserInv, Turn, FirstLineAtStart, UrlComesFirst

\* A header line.
LEMMA HeaderStep == ParserInv /\ Header => ParserInv'
  <1> SUFFICES ASSUME ParserInv, Header PROVE ParserInv'
    OBVIOUS
  <1>1. Turn("HEADER") /\ m_check_state' = "HEADER" /\ phase' = "work" /\ code' = code
    BY DEF Header, Turn
  <1>2. m_content_length' \in IntValues
    BY TextAssumption, IntIs DEF Header, ParserInv, TypeOK
  <1>3. m_linger' \in BOOLEAN
    BY Zenon DEF Header, ParserInv, TypeOK
  <1>4. TypeOK'
    <2>1. line_status' = "LINE_OK" /\ code' \in Codes
      BY <1>1 DEF Header, ParserInv, TypeOK
    <2> QED
      BY <1>1, <1>2, <1>3, <2>1, TurnType DEF ParserInv
  <1> QED
    BY <1>1, <1>4, LaterTurn DEF ParserInv

\* The blank line behind the headers.
LEMMA BlankLineStep == ParserInv /\ BlankLine => ParserInv'
  <1> SUFFICES ASSUME ParserInv, BlankLine PROVE ParserInv'
    OBVIOUS
  <1>1. Turn("HEADER") /\ m_check_state = "HEADER" /\ phase = "work"
    BY DEF BlankLine, Turn
  <1>2. m_content_length' \in IntValues /\ m_linger' \in BOOLEAN /\ line_status' = "LINE_OK"
    BY DEF BlankLine, ParserInv, TypeOK
  <1>3. m_check_state' \in {"HEADER", "CONTENT"}
    BY <1>1 DEF BlankLine
  <1>4. phase' \in {"work", "answer", "stream", "closed"} /\ code' \in Codes
    <2>1. CASE m_content_length # 0
      BY <1>1, <2>1 DEF BlankLine, ParserInv, TypeOK
    <2>2. CASE m_content_length = 0
      <3>1. GetRequest({Requested})
        BY <2>2 DEF BlankLine
      <3> QED
        BY <1>1, <3>1, KnownUrl, GetType DEF ParserInv
    <2> QED
      BY <2>1, <2>2
  <1>5. TypeOK'
    BY <1>1, <1>2, <1>3, <1>4, TurnType DEF ParserInv
  <1> QED
    BY <1>1, <1>3, <1>5, LaterTurn DEF ParserInv

\* A look at the body.
LEMMA ContentStep == ParserInv /\ Content => ParserInv'
  <1> SUFFICES ASSUME ParserInv, Content PROVE ParserInv'
    OBVIOUS
  <1>1. Turn("CONTENT") /\ m_check_state = "CONTENT" /\ m_check_state' = "CONTENT" /\ phase = "work"
    BY DEF Content, Turn
  <1>2. m_content_length' \in IntValues /\ m_linger' \in BOOLEAN
    BY DEF Content, ParserInv, TypeOK
  <1>3. /\ line_status' \in {"LINE_OK", "LINE_OPEN", "LINE_BAD"}
        /\ phase' \in {"work", "answer", "stream", "closed", "undefined"} /\ code' \in Codes
    <2>1. CASE GetRequest(Named) /\ line_status' = "LINE_OK"
      BY <1>1, <2>1, KnownUrl, GetType DEF ParserInv
    <2>2. CASE phase' = "undefined" /\ UNCHANGED <<line_status, code>>
      BY <2>2 DEF ParserInv, TypeOK
    <2>3. CASE line_status' = AfterShortBody /\ UNCHANGED <<phase, code>>
      BY <1>1, <2>3 DEF AfterShortBody, ParserInv, TypeOK
    <2> QED
      BY <2>1, <2>2, <2>3 DEF Content
  <1>4. TypeOK'
    BY <1>1, <1>2, <1>3, TurnType DEF ParserInv
  <1> QED
    BY <1>1, <1>4, LaterTurn DEF ParserInv

\* The response is out: init() starts over, or the connection is closed.
LEMMA WriteStep == ParserInv /\ Write => ParserInv'
  <1> SUFFICES ASSUME ParserInv, Write PROVE ParserInv'
    OBVIOUS
  <1> USE DEF ParserInv
  <1>1. CASE Reset /\ phase' = "idle" /\ UNCHANGED <<input, sent, taken, line_status, code>>
    <2>1. m_read_buf' \in Seq(Range(input')) /\ m_read_idx' = 0
      BY <1>1, EmptySeq DEF Reset, m_read_idx
    <2>2. /\ m_read_idx' < READ_BUFFER_SIZE /\ m_read_idx' <= READ_BUFFER_SIZE
          /\ m_start_line' \in 0..m_checked_idx'
          /\ m_checked_idx' \in 0..m_read_idx' /\ m_content_length' \in IntValues
      BY <1>1, <2>1, ParserAssumption, TextAssumption DEF Reset, IntValues
    <2>3. m_linger' \in BOOLEAN /\ bodyWasCut' \in BOOLEAN
      BY <1>1, Zenon DEF Reset
    <2>4. TypeOK'
      BY <1>1, <2>1, <2>2, <2>3 DEF Reset, TypeOK
    <2> QED
      BY <1>1, <2>4 DEF Reset, FirstLineAtStart, UrlComesFirst
  <1>2. CASE phase' = "closed" /\ UNCHANGED <<m_read_buf, parser, bodyWasCut>>
             /\ UNCHANGED <<input, sent, taken, line_status, code>>
    <2>1. m_read_idx' = m_read_idx
      BY <1>2 DEF m_read_idx
    <2> QED
      BY <1>2, <2>1 DEF parser, TypeOK, FirstLineAtStart, UrlComesFirst
  <1> QED
    BY <1>1, <1>2 DEF Write

-----------------------------------------------------------------------------
(* The theorems.                                                           *)

\* Every step of the specification keeps the invariant.
LEMMA StepParser == ParserInv /\ [Next]_vars => ParserInv'
  <1> SUFFICES ASSUME ParserInv, [Next]_vars PROVE ParserInv'
    OBVIOUS
  <1>1. CASE PeerSends
    BY <1>1, PeerStep
  <1>2. CASE Read
    BY <1>2, ReadStep
  <1>3. CASE LeaveLoop
    BY <1>3, LeaveLoopStep
  <1>4. CASE RequestLine
    BY <1>4, RequestLineStep
  <1>5. CASE Header
    BY <1>5, HeaderStep
  <1>6. CASE BlankLine
    BY <1>6, BlankLineStep
  <1>7. CASE Content
    BY <1>7, ContentStep
  <1>8. CASE Write
    BY <1>8, WriteStep
  <1>9. CASE UNCHANGED vars
    <2>1. m_read_idx' = m_read_idx
      BY <1>9 DEF vars, m_read_idx
    <2> QED
      BY <1>9, <2>1 DEF vars, parser, ParserInv, TypeOK, FirstLineAtStart, UrlComesFirst
  <1> QED
    BY <1>1, <1>2, <1>3, <1>4, <1>5, <1>6, <1>7, <1>8, <1>9 DEF Next, Server

\* The indices of the parser stay in order and in the buffer, wherever the
\* reads cut the request and whatever it says, and a worker (process_read())
\* never gets a buffer that read() has filled to the end.
THEOREM ParserTypeCorrect == Spec => []TypeOK
  <1>1. ParserInv => TypeOK
    BY DEF ParserInv
  <1> QED
    BY InitParser, StepParser, <1>1, PTL DEF Spec

\* A sum beyond the range of int, and the length in it, exceeds the buffer.
LEMMA SumIs ==
    ASSUME TypeOK, NEW sum \in Sums
    PROVE  LET exact == m_content_length + NextLine.checked IN
           /\ exact \in Int /\ sum \in Int
           /\ sum = exact \/ exact > MaxInt
           /\ exact > MaxInt => m_read_idx < exact /\ Terminator >= READ_BUFFER_SIZE
  <1> DEFINE exact == m_content_length + NextLine.checked
  <1>1. /\ m_content_length \in -(MaxInt + 1)..MaxInt /\ MaxInt \in Nat
        /\ m_read_idx \in Nat /\ m_read_idx <= READ_BUFFER_SIZE
        /\ READ_BUFFER_SIZE \in Nat \ {0} /\ 2 * READ_BUFFER_SIZE <= MaxInt
    BY Indices, ParserAssumption, TextAssumption DEF TypeOK, IntValues
  <1>2. NextLine.checked \in 0..m_read_idx /\ m_start_line \in Nat
    BY ScanStaysInBuffer, Indices
  <1>3. exact \in Int /\ (exact > MaxInt \/ exact \in IntValues)
    BY <1>1, <1>2 DEF IntValues
  <1>4. sum \in {exact, ToInt(exact)}
    BY DEF Sums
  <1>5. exact > MaxInt => m_read_idx < exact /\ m_start_line + m_content_length >= READ_BUFFER_SIZE
    BY <1>1, <1>2
  <1>6. ToInt(exact) \in IntValues /\ (exact \in IntValues => ToInt(exact) = exact)
    BY <1>3, IntIs
  <1> HIDE DEF exact
  <1>7. sum \in Int /\ (sum = exact \/ exact > MaxInt)
    BY <1>1, <1>3, <1>4, <1>6 DEF IntValues
  <1> QED
    BY <1>3, <1>5, <1>7 DEF exact, Terminator

\* A look at the body writes outside of the buffer for no sane length.
LEMMA ContentStaysInBuffer == ParserInv /\ Content => TerminatorInBuffer'
  <1> SUFFICES ASSUME ParserInv, Content, phase' = "undefined", LengthIsSane' PROVE FALSE
    BY DEF TerminatorInBuffer
  <1>1. Turn("CONTENT") /\ TypeOK /\ phase = "work"
    BY DEF ParserInv, Content, Turn
  <1>2. PICK sum \in Sums : m_read_idx >= sum /\ Terminator \notin 0..(READ_BUFFER_SIZE - 1)
    BY <1>1 DEF Content, GetRequest, Reply
  <1>3. m_content_length >= 0 /\ m_content_length + m_read_idx <= MaxInt
    BY <1>1, TurnMovesOn DEF LengthIsSane, Content
  <1>4. /\ m_content_length \in Int /\ READ_BUFFER_SIZE \in Nat /\ m_read_idx < READ_BUFFER_SIZE
        /\ m_start_line \in Nat /\ m_read_idx \in Nat /\ MaxInt \in Nat
        /\ m_start_line <= NextLine.checked /\ NextLine.checked \in 0..m_read_idx
    BY <1>1, Indices, ScanStaysInBuffer, ParserAssumption, TextAssumption DEF TypeOK, IntValues
  <1>5. sum = m_content_length + NextLine.checked
    BY <1>1, <1>3, <1>4, SumIs
  <1> QED
    BY <1>2, <1>3, <1>4, <1>5 DEF Terminator

\* The NUL that parse_content() writes behind a complete body is in m_read_buf,
\* for every buffer size and every length that is not negative and does not
\* overflow the sum in its condition.
THEOREM TerminatorStaysInBuffer == Spec => []TerminatorInBuffer
  <1>1. Init => TerminatorInBuffer
    BY DEF Init, TerminatorInBuffer
  <1>2. ParserInv /\ TerminatorInBuffer /\ [Next]_vars => TerminatorInBuffer'
    <2> SUFFICES ASSUME ParserInv, TerminatorInBuffer, [Next]_vars, phase' = "undefined",
                        LengthIsSane'
                 PROVE  FALSE
      BY DEF TerminatorInBuffer
    <2>1. CASE Content
      BY <2>1, ContentStaysInBuffer DEF TerminatorInBuffer
    <2>2. CASE PeerSends \/ UNCHANGED vars
      BY <2>2 DEF PeerSends, vars, parser, TerminatorInBuffer, LengthIsSane, m_read_idx
    <2>3. CASE Read \/ LeaveLoop \/ RequestLine \/ Header \/ BlankLine \/ Write
      BY <2>3 DEF Read, LeaveLoop, RequestLine, Header, BlankLine, Write, Turn, GetRequest, Reply
    <2> QED
      BY <2>1, <2>2, <2>3 DEF Next, Server
  <1> QED
    BY InitParser, StepParser, <1>1, <1>2, PTL DEF Spec

-----------------------------------------------------------------------------
(* What the loop of process_read() knows of the buffer.                    *)

\* The parsed lines of a head that goes on, and where a head ends.
Unbroken(b, i, j) == \A k \in i..j : b[k] \notin {"CR", "LF"}
HeadSoFar(b, s, length, linger) ==
    /\ s \in Nat /\ Break(b, s - 1) /\ CleanUpTo(b, s)
    /\ \A g \in 1..s : ~(Break(b, g) /\ Break(b, g - 2))
    /\ length = LengthIn(b, s + 1) /\ (linger <=> Keeps(b, s + 1))
HeadEnds(b, h, length, linger) ==
    /\ h \in Heads(b) /\ \A g \in Heads(b) : h <= g
    /\ length = LengthIn(b, h) /\ (linger <=> Keeps(b, h))

\* Nothing is a line end behind symbol i, or nothing clean.
NothingBehind(b, i) == i >= Len(b) - 1 \/ Stray(b, i + 1)

\* The greatest of a set of numbers below a bound is what its name says.
LEMMA MaxIsIn ==
    ASSUME NEW n \in Nat, NEW S \in SUBSET (0..n), S # {}
    PROVE  Max(S) \in S /\ \A y \in S : Max(S) >= y
  <1> DEFINE T == {n - x : x \in S}
  <1>1. T \in SUBSET Nat /\ T # {}
    <2>1. \A x \in S : n - x \in Nat
      OBVIOUS
    <2> QED
      BY <2>1
  <1> HIDE DEF T
  <1>2. Min(T) \in T /\ \A y \in T : Min(T) <= y
    BY <1>1, MinIsIn
  <1>3. PICK x \in S : Min(T) = n - x
    BY <1>2 DEF T
  <1>4. \A y \in S : x >= y
    BY <1>2, <1>3 DEF T
  <1> QED
    BY <1>4 DEF Max

\* A member that no other exceeds is the greatest.
LEMMA MaxIs ==
    ASSUME NEW S \in SUBSET Int, NEW x \in S, \A y \in S : y <= x
    PROVE  Max(S) = x
  <1>1. Max(S) \in S /\ \A y \in S : Max(S) >= y
    BY DEF Max
  <1>2. Max(S) >= x /\ Max(S) <= x /\ Max(S) \in Int /\ x \in Int
    BY <1>1
  <1> QED
    BY <1>2

-----------------------------------------------------------------------------
(* A buffer that grows keeps what its symbols mean.                        *)

Extends(c, b) ==
    /\ Len(b) \in Nat /\ Len(c) \in Nat /\ Len(b) <= Len(c)
    /\ \A i \in 1..Len(b) : c[i] = b[i]

\* A line end is the same wherever the buffer ends behind it.
LEMMA SameBreak ==
    ASSUME NEW b, NEW c, Extends(c, b), NEW i \in Int, i < Len(b)
    PROVE  Break(c, i) <=> Break(b, i)
  BY DEF Extends, Break

\* So is a symbol that is half of none, unless it is a CR at the very end.
LEMMA SameStray ==
    ASSUME NEW b, NEW c, Extends(c, b), NEW i \in 1..Len(b), i < Len(b) \/ b[i] # "CR"
    PROVE  Stray(c, i) <=> Stray(b, i)
  <1>1. c[i] = b[i] /\ (i > 1 => c[i - 1] = b[i - 1]) /\ (i < Len(b) => c[i + 1] = b[i + 1])
    BY DEF Extends
  <1>2. Len(b) \in Nat /\ Len(c) \in Nat /\ Len(b) <= Len(c)
    BY DEF Extends
  <1> QED
    BY <1>1, <1>2 DEF Stray

\* A clean line end stays clean.
LEMMA SameClean ==
    ASSUME NEW b, NEW c, Extends(c, b), NEW n \in Int, n <= Len(b), n = Len(b) => b[n] # "CR"
    PROVE  CleanUpTo(c, n) <=> CleanUpTo(b, n)
  <1>1. \A i \in 1..n : i \in 1..Len(b) /\ (i < Len(b) \/ b[i] # "CR")
    BY DEF Extends
  <1>2. \A i \in 1..n : Stray(c, i) <=> Stray(b, i)
    BY <1>1, SameStray
  <1> QED
    BY <1>2 DEF CleanUpTo

\* The header lines in front of a symbol of the buffer.
LEMMA SameLines ==
    ASSUME NEW b, NEW c, Extends(c, b), NEW h \in Int, h <= Len(b) + 1
    PROVE  LineStarts(c, h) = LineStarts(b, h) /\ LengthIn(c, h) = LengthIn(b, h)
  <1>1. \A i \in 3..(h - 1) : (Break(c, i - 2) <=> Break(b, i - 2)) /\ c[i] = b[i]
    <2> SUFFICES ASSUME NEW i \in 3..(h - 1) PROVE (Break(c, i - 2) <=> Break(b, i - 2)) /\ c[i] = b[i]
      OBVIOUS
    <2>1. i - 2 \in Int /\ i - 2 < Len(b) /\ i \in 1..Len(b)
      BY DEF Extends
    <2> QED
      BY <2>1, SameBreak DEF Extends
  <1>2. LineStarts(c, h) = LineStarts(b, h)
    BY <1>1 DEF LineStarts
  <1>3. \A i \in LineStarts(b, h) : c[i] = b[i]
    BY <1>1 DEF LineStarts
  <1>4. LengthLines(c, h) = LengthLines(b, h)
    BY <1>2, <1>3 DEF LengthLines
  <1>5. LengthLines(b, h) # {} => c[Max(LengthLines(b, h))] = b[Max(LengthLines(b, h))]
    <2>1. LengthLines(b, h) \in SUBSET (3..(h - 1))
      BY DEF LengthLines, LineStarts
    <2>2. LengthLines(b, h) # {} => Max(LengthLines(b, h)) \in LengthLines(b, h)
      <3>1. CASE h < 1
        BY <2>1, <3>1
      <3>2. CASE h >= 1
        BY <2>1, <3>2, MaxIsIn, h - 1 \in Nat, 3..(h - 1) \subseteq 0..(h - 1)
      <3> QED
        BY <3>1, <3>2
    <2> QED
      BY <2>2, <1>3 DEF LengthLines
  <1> QED
    BY <1>2, <1>4, <1>5 DEF LengthIn

\* Whether they ask to keep the connection.
LEMMA SameKeeps ==
    ASSUME NEW b, NEW c, Extends(c, b), NEW h \in Int, h < Len(b)
    PROVE  Keeps(c, h) <=> Keeps(b, h)
  <1>1. LineStarts(c, h) = LineStarts(b, h) /\ LineStarts(b, h) \subseteq 3..(h - 1)
    BY SameLines, Len(b) \in Int DEF LineStarts, Extends
  <1>2. \A i \in LineStarts(b, h) : c[i] = b[i] /\ (Break(c, i + 1) <=> Break(b, i + 1))
    <2> SUFFICES ASSUME NEW i \in 3..(h - 1) PROVE c[i] = b[i] /\ (Break(c, i + 1) <=> Break(b, i + 1))
      BY <1>1
    <2>1. i \in 1..Len(b) /\ i + 1 \in Int /\ i + 1 < Len(b)
      BY DEF Extends
    <2> QED
      BY <2>1, SameBreak DEF Extends
  <1> QED
    BY <1>1, <1>2 DEF Keeps

\* Two buffers agree on a head, on a first line and on the lines of a head
\* that goes on, once one of them holds these.
LEMMA HeadStays ==
    ASSUME NEW b, NEW c, Extends(c, b), NEW h, NEW length, NEW linger, HeadEnds(b, h, length, linger)
    PROVE  HeadEnds(c, h, length, linger)
  <1>1. h \in 1..Len(b) - 1 /\ Len(b) \in Nat /\ Len(c) \in Nat /\ Len(b) <= Len(c)
    BY DEF HeadEnds, Heads, Break, Extends
  <1>2. h \in Heads(c)
    <2>1. Break(c, h) /\ Break(c, h - 2)
      BY <1>1, SameBreak DEF HeadEnds, Heads
    <2>2. CleanUpTo(c, h)
      BY <1>1, SameClean DEF HeadEnds, Heads
    <2> QED
      BY <1>1, <2>1, <2>2 DEF Heads
  <1>3. \A g \in Heads(c) : h <= g
    <2> SUFFICES ASSUME NEW g \in Heads(c), g < h PROVE FALSE
      BY <1>1 DEF Heads
    <2>1. g \in 1..Len(b) - 1 /\ g - 2 \in Int /\ g - 2 < Len(b)
      BY <1>1 DEF Heads
    <2>2. Break(b, g) /\ Break(b, g - 2)
      BY <2>1, SameBreak DEF Heads
    <2>3. CleanUpTo(b, g)
      BY <1>1, <2>1, SameClean DEF Heads
    <2>4. g \in Heads(b)
      BY <1>1, <2>1, <2>2, <2>3 DEF Heads
    <2> QED
      BY <1>1, <2>1, <2>4 DEF HeadEnds
  <1>4. LengthIn(c, h) = LengthIn(b, h) /\ (Keeps(c, h) <=> Keeps(b, h))
    BY <1>1, SameLines, SameKeeps
  <1> QED
    BY <1>2, <1>3, <1>4 DEF HeadEnds

LEMMA GoodFirstStays ==
    ASSUME NEW b, NEW c, Extends(c, b), GoodFirst(b)
    PROVE  GoodFirst(c)
  <1>1. 2 \in FirstLine(b) /\ b[1] \in DOMAIN Url
    BY DEF GoodFirst
  <1>2. Len(b) \in Nat /\ 2 < Len(b) /\ Len(c) \in Nat /\ Len(b) <= Len(c) /\ c[1] = b[1]
    BY <1>1 DEF FirstLine, Break, Extends
  <1>3. Break(c, 2) /\ ~Break(c, 1)
    BY <1>1, <1>2, SameBreak DEF FirstLine
  <1>4. CleanUpTo(c, 2)
    BY <1>1, <1>2, SameClean DEF FirstLine
  <1>5. 2 \in FirstLine(c)
    BY <1>2, <1>3, <1>4 DEF FirstLine
  <1> QED
    BY <1>1, <1>2, <1>5 DEF GoodFirst

\* The lines in front of symbol s + 1, when s is the end of one.
LEMMA KeepsUpTo ==
    ASSUME NEW b, NEW s \in Nat, Break(b, s - 1)
    PROVE  Keeps(b, s + 1) <=> \E i \in 3..(s - 2) : Break(b, i - 2) /\ b[i] = "keep" /\ Break(b, i + 1)
  <1>1. b[s - 1] = "CR" /\ b[s] = "LF"
    BY DEF Break
  <1>2. \A i \in 3..s : i \in 3..(s - 2) \/ i = s - 1 \/ i = s
    OBVIOUS
  <1> QED
    BY <1>1, <1>2 DEF Keeps, LineStarts

LEMMA HeadSoFarStays ==
    ASSUME NEW b, NEW c, Extends(c, b), NEW s, NEW length, NEW linger,
           HeadSoFar(b, s, length, linger)
    PROVE  HeadSoFar(c, s, length, linger)
  <1>1. /\ s \in Nat /\ s >= 2 /\ s <= Len(b) /\ b[s] = "LF"
        /\ Len(b) \in Nat /\ Len(c) \in Nat /\ Len(b) <= Len(c) /\ c[s] = "LF"
    BY DEF HeadSoFar, Break, Extends
  <1>2. Break(c, s - 1)
    BY <1>1, SameBreak DEF HeadSoFar
  <1>3. CleanUpTo(c, s)
    BY <1>1, SameClean DEF HeadSoFar
  <1>4. \A g \in 1..s : ~(Break(c, g) /\ Break(c, g - 2))
    <2> SUFFICES ASSUME NEW g \in 1..s, Break(c, g), Break(c, g - 2) PROVE FALSE
      OBVIOUS
    <2>1. g # s
      BY <1>1 DEF Break
    <2>2. g < Len(b) /\ g - 2 \in Int /\ g - 2 < Len(b)
      BY <1>1, <2>1
    <2>3. Break(b, g) /\ Break(b, g - 2)
      BY <2>2, SameBreak
    <2> QED
      BY <2>3 DEF HeadSoFar
  <1>5. LengthIn(c, s + 1) = LengthIn(b, s + 1)
    BY <1>1, SameLines
  <1>6. Keeps(c, s + 1) <=> Keeps(b, s + 1)
    <2>1. \A i \in 3..(s - 2) : /\ (Break(c, i - 2) <=> Break(b, i - 2))
                              /\ c[i] = b[i]
                              /\ (Break(c, i + 1) <=> Break(b, i + 1))
      <3> SUFFICES ASSUME NEW i \in 3..(s - 2)
                   PROVE  /\ (Break(c, i - 2) <=> Break(b, i - 2))
                          /\ c[i] = b[i]
                          /\ (Break(c, i + 1) <=> Break(b, i + 1))
        OBVIOUS
      <3>1. i - 2 \in Int /\ i - 2 < Len(b) /\ i + 1 \in Int /\ i + 1 < Len(b) /\ i \in 1..Len(b)
        BY <1>1
      <3> QED
        BY <3>1, SameBreak DEF Extends
    <2> DEFINE K(d, i) == Break(d, i - 2) /\ d[i] = "keep" /\ Break(d, i + 1)
    <2>2. Break(b, s - 1)
      BY DEF HeadSoFar
    <2>3. Keeps(b, s + 1) <=> \E i \in 3..(s - 2) : K(b, i)
      BY <1>1, <2>2, KeepsUpTo
    <2>4. Keeps(c, s + 1) <=> \E i \in 3..(s - 2) : K(c, i)
      BY <1>1, <1>2, KeepsUpTo
    <2>5. \A i \in 3..(s - 2) : K(c, i) <=> K(b, i)
      BY <2>1
    <2> HIDE DEF K
    <2> QED
      BY <2>3, <2>4, <2>5
  <1> QED
    BY <1>1, <1>2, <1>3, <1>4, <1>5, <1>6 DEF HeadSoFar

-----------------------------------------------------------------------------
(* What a line that ends adds.  Symbols i + 1 and i + 2 end a line whose   *)
(* text begins behind symbol s.                                            *)

\* The clean part of the buffer reaches behind the line.
LEMMA CleanLine ==
    ASSUME NEW b, NEW s \in Nat, NEW i \in Nat, s <= i, CleanUpTo(b, s),
           Unbroken(b, s + 1, i), Break(b, i + 1)
    PROVE  CleanUpTo(b, i + 1) /\ CleanUpTo(b, i + 2)
  <1>1. i + 1 \in 1..Len(b) - 1 /\ b[i + 1] = "CR" /\ b[i + 2] = "LF"
    BY DEF Break
  <1>2. \A k \in 1..s : ~Stray(b, k)
    BY DEF CleanUpTo
  <1>3. \A k \in (s + 1)..i : ~Stray(b, k)
    BY DEF Unbroken, Stray
  <1>4. ~Stray(b, i + 1) /\ ~Stray(b, i + 2)
    BY <1>1 DEF Stray
  <1>5. \A k \in 1..(i + 2) : k \in 1..s \/ k \in (s + 1)..i \/ k = i + 1 \/ k = i + 2
    OBVIOUS
  <1> QED
    BY <1>2, <1>3, <1>4, <1>5 DEF CleanUpTo

\* The first line of the buffer.
LEMMA FirstLineIs ==
    ASSUME NEW b, NEW i \in Nat, Unbroken(b, 1, i), Break(b, i + 1)
    PROVE  FirstLine(b) = {i + 1} /\ HeadSoFar(b, i + 2, 0, FALSE)
  <1>1. i + 1 \in 1..Len(b) - 1 /\ b[i + 1] = "CR" /\ b[i + 2] = "LF"
    BY DEF Break
  <1>2. CleanUpTo(b, i + 1) /\ CleanUpTo(b, i + 2)
    <2>1. CleanUpTo(b, 0)
      BY DEF CleanUpTo
    <2> QED
      BY <2>1, CleanLine
  <1>3. \A k \in 1..i : ~Break(b, k)
    BY DEF Unbroken, Break
  <1>4. FirstLine(b) = {i + 1}
    <2>1. i + 1 \in FirstLine(b)
      BY <1>1, <1>2, <1>3 DEF FirstLine, Break
    <2>2. ASSUME NEW k \in FirstLine(b) PROVE k = i + 1
      <3>1. k \in 1..Len(b) /\ Break(b, k) /\ \A j \in 1..(k - 1) : ~Break(b, j)
        BY DEF FirstLine
      <3>2. k \notin 1..i /\ ~(i + 1 \in 1..(k - 1))
        BY <1>3, <3>1
      <3> QED
        BY <3>1, <3>2
    <2> QED
      BY <2>1, <2>2
  <1>5. \A k \in Int : k <= i => ~Break(b, k)
    BY <1>3 DEF Break
  <1>6. \A g \in 1..(i + 2) : ~Break(b, g - 2)
    BY <1>5
  <1>7. LineStarts(b, i + 3) = {}
    <2>1. \A k \in 3..(i + 2) : ~Break(b, k - 2)
      BY <1>5
    <2> QED
      BY <2>1 DEF LineStarts
  <1>8. LengthIn(b, i + 3) = 0 /\ ~Keeps(b, i + 3)
    BY <1>7 DEF LengthIn, LengthLines, Keeps
  <1> QED
    BY <1>2, <1>4, <1>6, <1>8 DEF HeadSoFar

\* A header line.
LEMMA NextLineIs ==
    ASSUME NEW b, NEW s, NEW length, NEW linger, HeadSoFar(b, s, length, linger),
           NEW i \in Nat, s + 1 <= i, Unbroken(b, s + 1, i), Break(b, i + 1),
           NEW more, more <=> (i = s + 1 /\ b[i] = "keep")
    PROVE  HeadSoFar(b, i + 2,
                     IF b[s + 1] \in DOMAIN ContentLength THEN ToInt(ContentLength[b[s + 1]]) ELSE length,
                     linger \/ more)
  <1>1. s \in Nat /\ Break(b, s - 1) /\ s >= 2 /\ b[s - 1] = "CR" /\ b[s] = "LF"
    BY DEF HeadSoFar, Break
  <1>2. i + 1 \in 1..Len(b) - 1 /\ b[i + 1] = "CR" /\ b[i + 2] = "LF"
    BY DEF Break
  <1>3. CleanUpTo(b, i + 2)
    BY <1>1, CleanLine DEF HeadSoFar
  \* Between the two line ends there is none.
  <1>4. \A k \in s..i : ~Break(b, k)
    <2>1. \A k \in s..i : k = s \/ k \in (s + 1)..i
      BY <1>1
    <2> QED
      BY <1>1, <2>1 DEF Unbroken, Break
  <1>5. \A g \in 1..(i + 2) : ~(Break(b, g) /\ Break(b, g - 2))
    <2> SUFFICES ASSUME NEW g \in 1..(i + 2), Break(b, g), Break(b, g - 2) PROVE FALSE
      OBVIOUS
    <2>1. g \notin 1..s
      BY DEF HeadSoFar
    <2>2. g # i + 2
      BY <1>2 DEF Break
    <2>3. g \notin s..i
      BY <1>4
    <2>4. g = i + 1 /\ g - 2 = i - 1 /\ i - 1 \in s..i
      BY <1>1, <2>1, <2>2, <2>3
    <2> QED
      BY <1>4, <2>4
  <1>6. \A k \in 3..(i + 2) : Break(b, k - 2) => k = s + 1 \/ k \in 3..s
    <2> SUFFICES ASSUME NEW k \in 3..(i + 2), Break(b, k - 2), k \notin 3..s, k # s + 1 PROVE FALSE
      OBVIOUS
    <2>1. k - 2 \in s..i
      BY <1>1
    <2> QED
      BY <1>4, <2>1
  <1>7. LineStarts(b, i + 3) = LineStarts(b, s + 1) \cup {s + 1}
    <2>1. s + 1 \in 3..(i + 2) /\ s + 1 - 2 = s - 1 /\ 3..s \subseteq 3..(i + 2) /\ s + 1 - 1 = s
      BY <1>1
    <2> QED
      BY <1>1, <1>6, <2>1 DEF LineStarts
  <1> DEFINE old == LengthLines(b, s + 1)
             new == LengthLines(b, i + 3)
  <1>8. LengthIn(b, i + 3) = IF b[s + 1] \in DOMAIN ContentLength THEN ToInt(ContentLength[b[s + 1]]) ELSE length
    <2>1. CASE b[s + 1] \in DOMAIN ContentLength
      <3>1. new = old \cup {s + 1} /\ old \subseteq 3..s
        BY <1>1, <1>7, <2>1 DEF LengthLines, LineStarts
      <3>2. new \in SUBSET Int /\ s + 1 \in new /\ \A y \in new : y <= s + 1
        BY <1>1, <3>1
      <3> HIDE DEF new, old
      <3>3. Max(new) = s + 1 /\ new # {}
        BY <3>2, MaxIs
      <3> QED
        BY <2>1, <3>3 DEF LengthIn, new
    <2>2. CASE b[s + 1] \notin DOMAIN ContentLength
      <3>1. new = old
        BY <1>7, <2>2 DEF LengthLines
      <3> QED
        BY <2>2, <3>1 DEF LengthIn, HeadSoFar
    <2> QED
      BY <2>1, <2>2
  <1>9. Keeps(b, i + 3) <=> (linger \/ more)
    <2>1. \A k \in 3..s : (b[k] = "keep" /\ Break(b, k + 1)) <=> (b[k] = "keep" /\ Break(b, k + 1))
      OBVIOUS
    <2>2. Keeps(b, i + 3) <=> (Keeps(b, s + 1) \/ (b[s + 1] = "keep" /\ Break(b, s + 2)))
      BY <1>1, <1>7, s + 1 + 1 = s + 2 DEF Keeps
    <2>3. Break(b, s + 2) <=> i = s + 1
      <3>1. CASE i = s + 1
        BY <1>1, <3>1
      <3>2. CASE i # s + 1
        BY <1>1, <1>4, <3>2, s + 2 \in s..i
      <3> QED
        BY <3>1, <3>2
    <2> QED
      BY <2>2, <2>3 DEF HeadSoFar
  <1> QED
    BY <1>3, <1>5, <1>8, <1>9, <1>2, i + 2 - 1 = i + 1, i + 2 + 1 = i + 3 DEF HeadSoFar

\* The blank line.
LEMMA HeadEndIs ==
    ASSUME NEW b, NEW s, NEW length, NEW linger, HeadSoFar(b, s, length, linger), Break(b, s + 1)
    PROVE  HeadEnds(b, s + 1, length, linger)
  <1>1. s \in Nat /\ s >= 2 /\ b[s] = "LF" /\ s + 1 \in 1..Len(b)
    BY DEF HeadSoFar, Break
  <1>2. CleanUpTo(b, s + 1)
    <2>1. Unbroken(b, s + 1, s)
      BY <1>1 DEF Unbroken
    <2> QED
      BY <1>1, <2>1, CleanLine DEF HeadSoFar
  <1>3. s + 1 \in Heads(b)
    BY <1>1, <1>2, s + 1 - 2 = s - 1 DEF Heads, HeadSoFar
  <1>4. \A g \in Heads(b) : s + 1 <= g
    <2> SUFFICES ASSUME NEW g \in Heads(b), g < s + 1 PROVE FALSE
      BY <1>1 DEF Heads
    <2>1. g \in 1..s /\ Break(b, g) /\ Break(b, g - 2)
      BY <1>1 DEF Heads
    <2> QED
      BY <2>1 DEF HeadSoFar
  <1> QED
    BY <1>3, <1>4 DEF HeadSoFar, HeadEnds

\* No line end, or a broken one: no clean line end behind symbol s.
LEMMA NothingClean ==
    ASSUME NEW b, Len(b) \in Nat, NEW s \in Nat, NEW i \in Nat, s <= i,
           Unbroken(b, s + 1, i), NothingBehind(b, i)
    PROVE  \A g \in 1..Len(b) : g > s => ~(Break(b, g) /\ CleanUpTo(b, g))
  <1> SUFFICES ASSUME NEW g \in 1..Len(b), g > s, Break(b, g), CleanUpTo(b, g) PROVE FALSE
    OBVIOUS
  <1>1. g \notin (s + 1)..i
    BY DEF Unbroken, Break
  <1>2. g >= i + 1 /\ g < Len(b)
    BY <1>1 DEF Break
  <1>3. Stray(b, i + 1)
    BY <1>2 DEF NothingBehind
  <1> QED
    BY <1>2, <1>3 DEF CleanUpTo

-----------------------------------------------------------------------------
(* parse_line() finds what the buffer says.                                *)

\* Up to the checked index the line that is scanned has no end.
LineOpen == Unbroken(m_read_buf, m_start_line + 1, m_checked_idx)
LineBegins == m_start_line = 0 \/ (m_start_line >= 2 /\ m_read_buf[m_start_line] = "LF")

\* The scan stops at a line end, or tells that there is none to come to.
LEMMA ScanFinds ==
    ASSUME TypeOK, LineOpen, LineBegins, NEW b, b = m_read_buf
    PROVE  /\ ParseLine.status = "LINE_OK" =>
                \E i \in Nat : /\ m_checked_idx <= i /\ ParseLine.checked = i + 2
                            /\ Unbroken(b, m_start_line + 1, i) /\ Break(b, i + 1)
           /\ ParseLine.status # "LINE_OK" =>
                /\ Unbroken(b, m_start_line + 1, ParseLine.checked)
                /\ NothingBehind(b, ParseLine.checked)
  <1>1. /\ m_read_idx = Len(b) /\ m_read_idx \in Nat /\ m_checked_idx \in Nat /\ m_start_line \in Nat
        /\ m_start_line <= m_checked_idx /\ m_checked_idx <= m_read_idx
    BY Indices DEF m_read_idx
  <1>2. Unbroken(b, m_start_line + 1, m_checked_idx)
    BY DEF LineOpen
  <1>3. CASE LineEnd = {}
    <2>1. \A k \in m_checked_idx..(m_read_idx - 1) : b[k + 1] \notin {"CR", "LF"}
      BY <1>3 DEF LineEnd, At
    <2>2. \A k \in (m_start_line + 1)..m_read_idx :
              k \in (m_start_line + 1)..m_checked_idx \/ (k - 1 \in m_checked_idx..(m_read_idx - 1) /\ k - 1 + 1 = k)
      BY <1>1
    <2>3. Unbroken(b, m_start_line + 1, m_read_idx)
      BY <1>2, <2>1, <2>2 DEF Unbroken
    <2>4. ParseLine.status = "LINE_OPEN" /\ ParseLine.checked = m_read_idx
      BY <1>3 DEF ParseLine, Line
    <2> QED
      BY <1>1, <2>3, <2>4 DEF NothingBehind
  <1>4. CASE LineEnd # {}
    <2> DEFINE i == Min(LineEnd)
    <2>1. i \in LineEnd /\ \A y \in LineEnd : i <= y
      <3>1. LineEnd \in SUBSET Nat
        BY <1>1 DEF LineEnd
      <3> QED
        BY <1>4, <3>1, MinIsIn
    <2>2. i \in m_checked_idx..(m_read_idx - 1) /\ b[i + 1] \in {"CR", "LF"} /\ i \in Nat
      BY <1>1, <2>1 DEF LineEnd, At
    <2>3. Unbroken(b, m_start_line + 1, i)
      <3>1. \A k \in (m_checked_idx + 1)..i : b[k] \notin {"CR", "LF"}
        <4> SUFFICES ASSUME NEW k \in (m_checked_idx + 1)..i, b[k] \in {"CR", "LF"} PROVE FALSE
          OBVIOUS
        <4>1. k - 1 \in m_checked_idx..(m_read_idx - 1) /\ k - 1 + 1 = k
          BY <1>1, <2>2
        <4>2. k - 1 \in LineEnd
          BY <4>1 DEF LineEnd, At
        <4> QED
          BY <2>1, <2>2, <4>1, <4>2
      <3>2. \A k \in (m_start_line + 1)..i :
                k \in (m_start_line + 1)..m_checked_idx \/ k \in (m_checked_idx + 1)..i
        BY <1>1, <2>2
      <3> QED
        BY <1>2, <3>1, <3>2 DEF Unbroken
    <2> DEFINE cut == At(i) = "CR" /\ i + 1 = m_read_idx
               pair == At(i) = "CR" /\ i + 1 < m_read_idx /\ At(i + 1) = "LF"
               tail == At(i) = "LF" /\ i > 1 /\ At(i - 1) = "CR"
    <2>4. ParseLine = CASE cut  -> Line("LINE_OPEN", i)
                        [] pair -> Line("LINE_OK", i + 2)
                        [] tail -> Line("LINE_OK", i + 1)
                        [] OTHER -> Line("LINE_BAD", i)
      BY <1>4 DEF ParseLine
    <2>5. At(i) = b[i + 1] /\ At(i + 1) = b[i + 2] /\ At(i - 1) = b[i]
      BY <2>2, i + 1 + 1 = i + 2, i - 1 + 1 = i DEF At
    <2> HIDE DEF i
    \* A LF whose CR an earlier scan has passed over does not exist.
    <2>6. ~(b[i + 1] = "LF" /\ i >= 1 /\ b[i] = "CR")
      <3> SUFFICES ASSUME i >= 1, b[i] = "CR" PROVE FALSE
        OBVIOUS
      <3>1. i \notin (m_start_line + 1)..i
        BY <2>3 DEF Unbroken
      <3>2. i = m_start_line
        BY <1>1, <2>2, <3>1
      <3> QED
        BY <3>2 DEF LineBegins
    <2>7. CASE cut
      <3>1. ParseLine.status = "LINE_OPEN" /\ ParseLine.checked = i
        <4>1. ~pair /\ ~tail
          BY <1>1, <2>2, <2>7
        <4> HIDE DEF cut, pair, tail
        <4>2. ParseLine = Line("LINE_OPEN", i)
          BY <2>4, <2>7, <4>1
        <4> QED
          BY <4>2 DEF Line
      <3> QED
        BY <1>1, <2>2, <2>3, <2>7, <3>1 DEF NothingBehind
    <2>8. CASE ~cut /\ pair
      <3>1. ParseLine.status = "LINE_OK" /\ ParseLine.checked = i + 2
        BY <2>4, <2>7, <2>8 DEF Line
      <3>2. Break(b, i + 1)
        BY <1>1, <2>2, <2>5, <2>8, i + 1 + 1 = i + 2 DEF Break
      <3> QED
        BY <2>2, <2>3, <3>1, <3>2
    <2>9. CASE ~cut /\ ~pair
      <3>1. ~tail
        BY <2>5, <2>6, <2>2
      <3>2. ParseLine.status = "LINE_BAD" /\ ParseLine.checked = i
        BY <2>4, <2>9, <3>1 DEF Line
      <3>3. Stray(b, i + 1)
        <4>1. CASE b[i + 1] = "CR"
          <5>1. i + 1 < Len(b) /\ b[i + 1 + 1] # "LF"
            BY <1>1, <2>2, <2>5, <2>9, <4>1, i + 1 + 1 = i + 2
          <5> QED
            BY <4>1, <5>1 DEF Stray
        <4>2. CASE b[i + 1] = "LF"
          <5>1. i + 1 = 1 \/ b[i + 1 - 1] # "CR"
            BY <2>2, <2>6, <4>2, i + 1 - 1 = i
          <5> DEFINE k == i + 1
          <5>2. b[k] = "LF" /\ (k = 1 \/ b[k - 1] # "CR")
            BY <2>2, <4>2, <5>1
          <5> HIDE DEF k
          <5>3. Stray(b, k)
            BY <5>2 DEF Stray
          <5> QED
            BY <5>3 DEF k
        <4> QED
          BY <2>2, <4>1, <4>2
      <3> QED
        BY <2>3, <3>2, <3>3 DEF NothingBehind
    <2> QED
      BY <2>7, <2>8, <2>9
  <1> QED
    BY <1>3, <1>4

\* The text of a line that ends there.
LEMMA TextIs ==
    ASSUME TypeOK, NEW i \in Nat, m_start_line <= i, i < Len(m_read_buf), NextLine.checked = i + 2
    PROVE  /\ Text \in Seq(Range(input)) /\ Len(Text) = i - m_start_line
           /\ i > m_start_line => Text[1] = m_read_buf[m_start_line + 1]
  <1> DEFINE S == Range(input)
             a == m_start_line + 1
  <1>1. m_start_line \in Nat /\ Len(m_read_buf) \in Nat
    BY Indices DEF m_read_idx
  <1>2. m_read_buf \in Seq(S)
    BY DEF TypeOK
  <1>3. Text = SubSeq(m_read_buf, a, i)
    <2>1. NextLine.checked - 2 = i
      OBVIOUS
    <2> QED
      BY <2>1 DEF Text
  <1> HIDE DEF S
  <1>4. \A k \in a..i : m_read_buf[k] \in S
    BY <1>1, <1>2, ElementOfSeq
  <1>5. /\ Text \in Seq(S) /\ Len(Text) = IF a <= i THEN i - a + 1 ELSE 0
        /\ \A k \in 1..(i - a + 1) : Text[k] = m_read_buf[a + k - 1]
    BY <1>1, <1>3, <1>4, SubSeqProperties
  <1> QED
    BY <1>1, <1>5 DEF S

-----------------------------------------------------------------------------
(* The invariant: what the worker has made of the buffer is what the       *)
(* buffer says so far.                                                     *)

\* The head is in; as long as no read() has ended in the body, all of the body
\* is, and the loop has not looked at it yet.
AtBody(b, cut) ==
    \E h \in 1..(m_checked_idx - 1) :
        /\ HeadEnds(b, h, m_content_length, m_linger)
        /\ ~cut => phase = "work" /\ line_status = "LINE_OK" /\ m_checked_idx = h + 1
ScanInv ==
    /\ phase \in {"idle", "work"} =>
         /\ m_check_state = "REQUESTLINE" => ~m_linger /\ m_content_length = 0
         /\ m_check_state # "CONTENT" => LineOpen
         /\ m_check_state # "REQUESTLINE" => GoodFirst(m_read_buf)
         /\ m_check_state = "HEADER" =>
                HeadSoFar(m_read_buf, m_start_line, m_content_length, m_linger)
         /\ m_check_state = "CONTENT" => AtBody(m_read_buf, bodyWasCut)
    /\ phase = "work" /\ ~bodyWasCut => ~EndsInBody(m_read_buf)
JudgeInv == ParserInv /\ ScanInv /\ JudgedAsWhole

\* The least of the heads counts.
LEMMA HeadIs ==
    ASSUME NEW b, NEW h, NEW length, NEW linger, HeadEnds(b, h, length, linger)
    PROVE  h = Min(Heads(b)) /\ Heads(b) # {}
  <1>1. Heads(b) \in SUBSET Nat /\ h \in Heads(b) /\ \A g \in Heads(b) : h <= g
    BY DEF HeadEnds, Heads
  <1>2. Min(Heads(b)) \in Heads(b) /\ \A g \in Heads(b) : Min(Heads(b)) <= g
    BY <1>1, MinIsIn
  <1>3. Min(Heads(b)) <= h /\ h <= Min(Heads(b)) /\ h \in Nat /\ Min(Heads(b)) \in Nat
    BY <1>1, <1>2
  <1> QED
    BY <1>1, <1>3

\* What is answered, what is waited for, and what ends in its body.
LEMMA VerdictGet ==
    ASSUME NEW b, GoodFirst(b), NEW h, NEW length, NEW linger, HeadEnds(b, h, length, linger),
           Len(b) >= h + 1 + length
    PROVE  Verdict(b) = "get"
  BY HeadIs DEF Verdict, HeadEnds
LEMMA VerdictNone ==
    ASSUME NEW b, GoodFirst(b) \/ FirstLine(b) = {}, Heads(b) = {}
    PROVE  Verdict(b) = "none"
  BY DEF Verdict
LEMMA VerdictBad ==
    ASSUME NEW b, FirstLine(b) # {}, ~GoodFirst(b)
    PROVE  Verdict(b) = "bad"
  BY DEF Verdict
LEMMA InBody ==
    ASSUME NEW b, NEW h, NEW length, NEW linger, HeadEnds(b, h, length, linger),
           Len(b) < h + 1 + length
    PROVE  EndsInBody(b)
  BY HeadIs DEF EndsInBody, HeadEnds

\* While a line of the head is read, it begins behind a line end.
LEMMA LineStart ==
    ASSUME ParserInv, ScanInv, phase \in {"idle", "work"}, m_check_state # "CONTENT"
    PROVE  TypeOK /\ LineOpen /\ LineBegins /\ NextLine = ParseLine
  <1>1. m_check_state \in {"REQUESTLINE", "HEADER"}
    BY DEF ParserInv, TypeOK
  <1>2. LineBegins
    BY <1>1 DEF ParserInv, FirstLineAtStart, ScanInv, LineBegins, HeadSoFar, Break
  <1> QED
    BY <1>2 DEF ScanInv, ParserInv, NextLine

\* A turn of the loop that is not about the body has a whole line before it.
LEMMA TurnFinds ==
    ASSUME ParserInv, ScanInv, NEW state, Turn(state), state # "CONTENT"
    PROVE  \E i \in Nat : /\ m_start_line <= i /\ i < Len(m_read_buf)
                          /\ NextLine.checked = i + 2
                          /\ Unbroken(m_read_buf, m_start_line + 1, i) /\ Break(m_read_buf, i + 1)
                          /\ Text \in Seq(Range(input)) /\ Len(Text) = i - m_start_line
                          /\ i > m_start_line => Text[1] = m_read_buf[m_start_line + 1]
  <1>1. TypeOK /\ LineOpen /\ LineBegins /\ NextLine = ParseLine /\ ParseLine.status = "LINE_OK"
    BY LineStart DEF Turn
  <1>2. PICK i \in Nat : /\ m_checked_idx <= i /\ ParseLine.checked = i + 2
                        /\ Unbroken(m_read_buf, m_start_line + 1, i) /\ Break(m_read_buf, i + 1)
    BY <1>1, ScanFinds
  <1>3. m_start_line <= i /\ i < Len(m_read_buf)
    BY <1>1, <1>2, Indices DEF Break
  <1>4. /\ Text \in Seq(Range(input)) /\ Len(Text) = i - m_start_line
        /\ i > m_start_line => Text[1] = m_read_buf[m_start_line + 1]
    BY <1>1, <1>2, <1>3, TextIs
  <1> QED
    BY <1>1, <1>2, <1>3, <1>4

-----------------------------------------------------------------------------
(* Every step keeps it.                                                    *)

LEMMA InitScan == Init => ScanInv /\ JudgedAsWhole
  <1> SUFFICES ASSUME Init PROVE ScanInv /\ JudgedAsWhole
    OBVIOUS
  <1>1. Len(m_read_buf) = 0 /\ m_checked_idx = 0 /\ m_start_line = 0
    BY DEF Init
  <1>2. FirstLine(m_read_buf) = {} /\ Heads(m_read_buf) = {}
    BY <1>1 DEF FirstLine, Heads
  <1>3. LineOpen
    BY <1>1 DEF LineOpen, Unbroken
  <1> QED
    BY <1>2, <1>3, VerdictNone DEF Init, ScanInv, JudgedAsWhole

\* What a read() appends changes nothing of what has been parsed.
LEMMA ReadScan == JudgeInv /\ Read => ScanInv' /\ JudgedAsWhole'
  <1> SUFFICES ASSUME JudgeInv, Read PROVE ScanInv' /\ JudgedAsWhole'
    OBVIOUS
  <1> DEFINE b == m_read_buf
             c == m_read_buf'
  <1>1. phase = "idle" /\ phase' \in {"work", "closed"} /\ UNCHANGED parser
    BY DEF Read
  <1>2. ParserInv /\ ParserInv' /\ ScanInv /\ TypeOK
    BY ReadStep DEF JudgeInv, ParserInv
  <1>3. Extends(c, b)
    <2> DEFINE S == Range(input)
    <2>1. b \in Seq(S)
      BY <1>2 DEF TypeOK
    <2>2. c \in Seq(S) /\ input' = input
      BY <1>2 DEF ParserInv, TypeOK, Read
    <2>3. Len(b) \in Nat /\ Len(c) \in Nat
      BY <2>1, <2>2, LenProperties
    <2>4. Recv \in Seq(S)
      <3>1. Len(input) \in Nat /\ sent \in Nat /\ taken \in Nat /\ Room \in Nat /\ sent - taken \in Nat
            /\ taken <= sent /\ sent <= Len(input)
        <4>1. Len(input) \in Nat
          BY <1>2, TextAssumption, LenProperties DEF TypeOK
        <4> QED
          BY <4>1, <1>2, <2>3, ParserAssumption DEF TypeOK, Room, m_read_idx
      <3> DEFINE n == Min({sent - taken, Room})
      <3>2. n \in Nat /\ n <= sent - taken
        BY <3>1, MinOfTwo
      <3>3. Recv = SubSeq(input, taken + 1, taken + n)
        BY DEF Recv
      <3> HIDE DEF n
      <3>4. \A k \in (taken + 1)..(taken + n) : input[k] \in S
        BY <3>1, <3>2, <1>2, TextAssumption, LenProperties DEF TypeOK, Range
      <3> QED
        BY <3>1, <3>2, <3>3, <3>4, SubSeqProperties
    <2>5. c = b \o Recv
      BY DEF Read
    <2> HIDE DEF S
    <2>6. /\ Len(b \o Recv) = Len(b) + Len(Recv)
          /\ \A i \in 1..(Len(b) + Len(Recv)) :
                (b \o Recv)[i] = IF i <= Len(b) THEN b[i] ELSE Recv[i - Len(b)]
      BY <2>1, <2>4, ConcatProperties
    <2>7. Len(Recv) \in Nat
      BY <2>4, LenProperties
    <2> HIDE DEF b, c
    <2> QED
      BY <2>3, <2>5, <2>6, <2>7 DEF Extends
  <1>4. ~(phase' \in {"idle", "answer", "stream"})
    BY <1>1
  <1>5. JudgedAsWhole'
    BY <1>4 DEF JudgedAsWhole
  <1>6. ASSUME phase' = "work" PROVE ScanInv'
    <2>1. m_check_state # "CONTENT" => LineOpen'
      <3> SUFFICES ASSUME m_check_state # "CONTENT" PROVE LineOpen'
        OBVIOUS
      <3>1. Unbroken(b, m_start_line + 1, m_checked_idx)
        BY <1>1, <1>2 DEF ScanInv, LineOpen
      <3>2. /\ m_checked_idx \in Nat /\ m_start_line \in Nat /\ m_checked_idx <= Len(b)
            /\ m_checked_idx' = m_checked_idx /\ m_start_line' = m_start_line
        BY <1>1, <1>2, Indices DEF parser, m_read_idx
      <3>3. \A k \in (m_start_line + 1)..m_checked_idx : c[k] = b[k]
        BY <1>3, <3>2 DEF Extends
      <3> QED
        BY <3>1, <3>2, <3>3 DEF LineOpen, Unbroken
    <2>2. m_check_state # "REQUESTLINE" => GoodFirst(c)
      BY <1>1, <1>2, <1>3, GoodFirstStays DEF ScanInv
    <2>3. m_check_state = "HEADER" => HeadSoFar(c, m_start_line, m_content_length, m_linger)
      BY <1>1, <1>2, <1>3, HeadSoFarStays DEF ScanInv
    <2>4. m_check_state = "CONTENT" =>
             bodyWasCut /\ \E h \in 1..(m_checked_idx - 1) : HeadEnds(c, h, m_content_length, m_linger)
      <3> SUFFICES ASSUME m_check_state = "CONTENT"
                   PROVE  bodyWasCut /\ \E h \in 1..(m_checked_idx - 1) : HeadEnds(c, h, m_content_length, m_linger)
        OBVIOUS
      <3>1. AtBody(b, bodyWasCut)
        BY <1>1, <1>2 DEF ScanInv
      <3> QED
        BY <1>1, <1>3, <3>1, HeadStays DEF AtBody
    <2>5. bodyWasCut' <=> (bodyWasCut \/ EndsInBody(c))
      BY DEF Read
    <2>6. UNCHANGED <<m_check_state, m_start_line, m_checked_idx, m_content_length, m_linger>>
      BY <1>1 DEF parser
    <2>7. m_check_state = "CONTENT" => AtBody(b, bodyWasCut)'
      BY <2>4, <2>5, <2>6 DEF AtBody
    <2>8. m_check_state = "REQUESTLINE" => ~m_linger /\ m_content_length = 0
      BY <1>1, <1>2 DEF ScanInv
    <2> QED
      BY <2>1, <2>2, <2>3, <2>5, <2>6, <2>7, <2>8 DEF ScanInv
  <1>7. CASE phase' = "closed"
    <2>1. ~(phase' \in {"idle", "work"}) /\ ~(phase' = "work")
      BY <1>7
    <2> QED
      BY <1>5, <2>1, Zenon DEF ScanInv
  <1> QED
    BY <1>1, <1>5, <1>6, <1>7

\* The socket receives; nothing of the parser changes.
LEMMA StutterScan ==
    ASSUME JudgeInv, UNCHANGED <<m_read_buf, parser, line_status, phase, code, bodyWasCut>>
    PROVE  ScanInv' /\ JudgedAsWhole'
  BY DEF JudgeInv, ScanInv, JudgedAsWhole, AtBody, LineOpen, parser

\* A line that goes on, or is broken, holds no request yet.
LEMMA LeaveLoopScan == JudgeInv /\ LeaveLoop => ScanInv' /\ JudgedAsWhole'
  <1> SUFFICES ASSUME JudgeInv, LeaveLoop PROVE ScanInv' /\ JudgedAsWhole'
    OBVIOUS
  <1> DEFINE b == m_read_buf
  <1>1. /\ phase = "work" /\ phase' = "idle" /\ NextLine.status # "LINE_OK"
        /\ m_checked_idx' = NextLine.checked
        /\ UNCHANGED <<m_read_buf, m_start_line, m_check_state, m_content_length, m_linger, bodyWasCut>>
    BY DEF LeaveLoop
  <1>2. ParserInv /\ ScanInv /\ TypeOK
    BY DEF JudgeInv, ParserInv
  <1>3. m_checked_idx <= NextLine.checked /\ NextLine.checked \in Nat /\ m_checked_idx \in Nat
    BY <1>2, ScanStaysInBuffer, Indices
  <1>4. CASE m_check_state = "CONTENT"
    <2>1. AtBody(b, bodyWasCut)
      BY <1>1, <1>2, <1>4 DEF ScanInv
    <2>2. bodyWasCut
      <3> SUFFICES ASSUME ~bodyWasCut PROVE FALSE
        OBVIOUS
      <3>1. line_status = "LINE_OK"
        BY <2>1 DEF AtBody
      <3> QED
        BY <1>1, <1>4, <3>1 DEF NextLine, Line
    <2>3. AtBody(b, bodyWasCut)'
      BY <1>1, <1>3, <2>1, <2>2 DEF AtBody
    <2>4. GoodFirst(b)
      BY <1>1, <1>2, <1>4 DEF ScanInv
    <2>5. ScanInv'
      BY <1>1, <1>4, <2>3, <2>4 DEF ScanInv
    <2>6. JudgedAsWhole'
      BY <1>1, <2>2 DEF JudgedAsWhole
    <2> QED
      BY <2>5, <2>6
  <1>5. CASE m_check_state # "CONTENT"
    <2>1. /\ TypeOK /\ LineOpen /\ LineBegins
          /\ Unbroken(b, m_start_line + 1, NextLine.checked) /\ NothingBehind(b, NextLine.checked)
      <3>1. TypeOK /\ LineOpen /\ LineBegins /\ NextLine = ParseLine
        BY <1>1, <1>2, <1>5, LineStart
      <3> QED
        BY <1>1, <3>1, ScanFinds
    <2>2. Len(b) \in Nat /\ m_start_line \in Nat /\ m_start_line <= NextLine.checked
      BY <1>2, <1>3, Indices DEF m_read_idx
    <2>3. \A g \in 1..Len(b) : g > m_start_line => ~(Break(b, g) /\ CleanUpTo(b, g))
      BY <1>3, <2>1, <2>2, NothingClean
    <2>4. LineOpen'
      BY <1>1, <2>1 DEF LineOpen
    <2>5. ScanInv'
      BY <1>1, <1>2, <1>5, <2>4 DEF ScanInv
    <2>6. Heads(b) = {} /\ (GoodFirst(b) \/ FirstLine(b) = {})
      <3>1. CASE m_check_state = "REQUESTLINE"
        <4>1. m_start_line = 0
          BY <1>1, <1>2, <3>1 DEF ParserInv, FirstLineAtStart
        <4>2. \A g \in 1..Len(b) : ~(Break(b, g) /\ CleanUpTo(b, g))
          BY <2>3, <4>1
        <4> QED
          BY <4>2 DEF Heads, FirstLine
      <3>2. CASE m_check_state = "HEADER"
        <4>1. GoodFirst(b) /\ HeadSoFar(b, m_start_line, m_content_length, m_linger)
          BY <1>1, <1>2, <3>2 DEF ScanInv
        <4>2. \A g \in 1..m_start_line : ~(Break(b, g) /\ Break(b, g - 2))
          BY <4>1 DEF HeadSoFar
        <4>3. \A g \in 1..Len(b) : g \in 1..m_start_line \/ g > m_start_line
          BY <2>2
        <4> QED
          BY <2>3, <4>1, <4>2, <4>3 DEF Heads
      <3> QED
        BY <1>2, <1>5, <3>1, <3>2 DEF TypeOK
    <2>7. Verdict(b) = "none"
      BY <2>6, VerdictNone
    <2> QED
      BY <1>1, <2>5, <2>7 DEF JudgedAsWhole
  <1> QED
    BY <1>4, <1>5

\* What a turn leaves when it answers: the verdict on the whole buffer.
LEMMA AnswerIsJudged ==
    ASSUME JudgeInv, NEW state, Turn(state), phase' \notin {"idle", "work"},
           Verdict(m_read_buf) = "get" \/ (Verdict(m_read_buf) = "bad" /\ code' = "BAD_REQUEST")
    PROVE  ScanInv' /\ JudgedAsWhole'
  <1>1. m_read_buf' = m_read_buf
    BY DEF Turn
  <1>2. JudgedAsWhole'
    BY <1>1 DEF JudgedAsWhole
  <1>3. ~(phase' \in {"idle", "work"}) /\ ~(phase' = "work")
    OBVIOUS
  <1> QED
    BY <1>2, <1>3, Zenon DEF ScanInv

\* A turn that answers nothing.
LEMMA WorkGoesOn ==
    ASSUME JudgeInv, NEW state, Turn(state), phase' = "work"
    PROVE  /\ JudgedAsWhole' /\ m_read_buf' = m_read_buf /\ bodyWasCut' = bodyWasCut
           /\ ~bodyWasCut => ~EndsInBody(m_read_buf)
           /\ m_start_line' = m_checked_idx' /\ LineOpen'
  <1>1. m_read_buf' = m_read_buf /\ bodyWasCut' = bodyWasCut /\ phase = "work"
        /\ m_start_line' = m_checked_idx' /\ m_checked_idx' \in Nat
    BY ScanStaysInBuffer, Indices DEF Turn, JudgeInv, ParserInv
  <1>2. LineOpen'
    <2>1. \A n \in Nat : (n + 1)..n = {}
      OBVIOUS
    <2>2. (m_start_line' + 1)..m_checked_idx' = {}
      BY <1>1, <2>1, Zenon
    <2> QED
      BY <2>2, Zenon DEF LineOpen, Unbroken
  <1> QED
    BY <1>1, <1>2 DEF JudgedAsWhole, JudgeInv, ScanInv

\* The first line of the buffer is what the request line's turn finds.
LEMMA FirstLineFound ==
    ASSUME JudgeInv, RequestLine
    PROVE  /\ m_linger = FALSE /\ m_content_length = 0
           /\ HeadSoFar(m_read_buf, NextLine.checked, 0, FALSE)
           /\ FirstLine(m_read_buf) # {} /\ (GoodFirst(m_read_buf) <=> WellFormed(Text))
  <1> DEFINE b == m_read_buf
  <1>1. Turn("REQUESTLINE") /\ ParserInv /\ ScanInv /\ phase = "work" /\ m_check_state = "REQUESTLINE"
    BY DEF RequestLine, JudgeInv, Turn
  <1>2. m_start_line = 0 /\ m_linger = FALSE /\ m_content_length = 0
    BY <1>1 DEF ParserInv, TypeOK, FirstLineAtStart, ScanInv
  <1>3. PICK i \in Nat : /\ i < Len(b) /\ NextLine.checked = i + 2
                        /\ Unbroken(b, 1, i) /\ Break(b, i + 1)
                        /\ Len(Text) = i /\ (i > 0 => Text[1] = b[1])
    BY <1>1, <1>2, TurnFinds
  <1>4. FirstLine(b) = {i + 1} /\ HeadSoFar(b, i + 2, 0, FALSE)
    BY <1>3, FirstLineIs
  <1>5. GoodFirst(b) <=> WellFormed(Text)
    <2>1. GoodFirst(b) <=> i = 1 /\ b[1] \in DOMAIN Url
      BY <1>3, <1>4 DEF GoodFirst
    <2>2. WellFormed(Text) <=> i = 1 /\ b[1] \in DOMAIN Url
      BY <1>3 DEF WellFormed
    <2> QED
      BY <2>1, <2>2
  <1>6. FirstLine(b) # {} /\ HeadSoFar(b, NextLine.checked, 0, FALSE)
    BY <1>3, <1>4
  <1> QED
    BY <1>2, <1>5, <1>6

\* The request line.
LEMMA RequestLineScan == JudgeInv /\ RequestLine => ScanInv' /\ JudgedAsWhole'
  <1> SUFFICES ASSUME JudgeInv, RequestLine PROVE ScanInv' /\ JudgedAsWhole'
    OBVIOUS
  <1> DEFINE b == m_read_buf
  <1>1. Turn("REQUESTLINE") /\ ScanInv /\ phase = "work"
    BY DEF RequestLine, JudgeInv, Turn
  <1>2. /\ m_linger = FALSE /\ m_content_length = 0 /\ HeadSoFar(b, NextLine.checked, 0, FALSE)
        /\ FirstLine(b) # {} /\ (GoodFirst(b) <=> WellFormed(Text))
    BY FirstLineFound
  <1>5. CASE WellFormed(Text)
    <2>1. m_check_state' = "HEADER" /\ phase' = "work"
      BY <1>1, <1>5 DEF RequestLine
    <2>2. /\ m_linger' = m_linger /\ m_content_length' = 0 /\ m_start_line' = NextLine.checked
      BY <1>1, <1>2 DEF RequestLine, Turn
    <2>3. HeadSoFar(b, m_start_line', m_content_length', m_linger')
      BY <1>2, <2>2 DEF HeadSoFar
    <2> QED
      BY <1>1, <1>2, <1>5, <2>1, <2>3, WorkGoesOn DEF ScanInv
  <1>6. CASE ~WellFormed(Text)
    <2>1. phase' \in {"answer", "closed"} /\ code' = "BAD_REQUEST"
      BY <1>6 DEF RequestLine, Reply, Streams
    <2>2. Verdict(b) = "bad"
      BY <1>2, <1>6, VerdictBad
    <2>3. phase' \notin {"idle", "work"}
      BY <2>1
    <2> QED
      BY <1>1, <2>1, <2>2, <2>3, AnswerIsJudged
  <1> QED
    BY <1>5, <1>6

\* A text of one symbol.
LEMMA OneSymbol ==
    ASSUME NEW S, NEW t \in Seq(S), Len(t) = 1
    PROVE  t = <<t[1]>>
  OBVIOUS

\* A header line.
LEMMA HeaderScan == JudgeInv /\ Header => ScanInv' /\ JudgedAsWhole'
  <1> SUFFICES ASSUME JudgeInv, Header PROVE ScanInv' /\ JudgedAsWhole'
    OBVIOUS
  <1> DEFINE b == m_read_buf
             s == m_start_line
  <1>1. /\ Turn("HEADER") /\ ParserInv /\ ScanInv /\ phase = "work" /\ phase' = "work"
        /\ m_check_state = "HEADER" /\ m_check_state' = "HEADER" /\ Text # <<>>
    BY DEF Header, JudgeInv, Turn
  <1>2. GoodFirst(b) /\ HeadSoFar(b, s, m_content_length, m_linger)
    BY <1>1 DEF ScanInv
  <1>3. PICK i \in Nat : /\ s <= i /\ NextLine.checked = i + 2
                        /\ Unbroken(b, s + 1, i) /\ Break(b, i + 1)
                        /\ Text \in Seq(Range(input)) /\ Len(Text) = i - s
                        /\ (i > s => Text[1] = b[s + 1])
    BY <1>1, TurnFinds
  <1>4. s \in Nat /\ s + 1 <= i /\ Text[1] = b[s + 1]
    <2>1. Len(Text) # 0
      BY <1>1, <1>3, EmptySeq
    <2>2. s \in Nat
      BY <1>1, Indices DEF ParserInv
    <2> QED
      BY <1>3, <2>1, <2>2
  <1> DEFINE more == i = s + 1 /\ b[i] = "keep"
  <1>5. Text = <<"keep">> <=> more
    <2>1. CASE i = s + 1
      <3>1. Len(Text) = 1 /\ Text = <<Text[1]>>
        <4>1. Len(Text) = 1
          BY <1>3, <1>4, <2>1
        <4> QED
          BY <1>3, <4>1, OneSymbol
      <3> QED
        BY <1>4, <2>1, <3>1
    <2>2. CASE i # s + 1
      <3>1. Len(Text) # 1
        BY <1>3, <1>4, <2>2
      <3> QED
        BY <2>2, <3>1
    <2> QED
      BY <2>1, <2>2
  <1>6. HeadSoFar(b, i + 2,
                  IF b[s + 1] \in DOMAIN ContentLength THEN ToInt(ContentLength[b[s + 1]]) ELSE m_content_length,
                  m_linger \/ more)
    <2> HIDE DEF s
    <2> QED
      BY <1>2, <1>3, <1>4, NextLineIs
  <1> HIDE DEF more
  <1>7. /\ m_start_line' = i + 2
        /\ m_content_length' = IF b[s + 1] \in DOMAIN ContentLength
                               THEN ToInt(ContentLength[b[s + 1]]) ELSE m_content_length
    BY <1>1, <1>3, <1>4 DEF Header, Turn
  <1>8. m_linger' <=> (m_linger \/ more)
    BY <1>5 DEF Header
  <1>9. HeadSoFar(b, m_start_line', m_content_length', m_linger')
    BY <1>6, <1>7, <1>8 DEF HeadSoFar
  <1> QED
    BY <1>1, <1>2, <1>9, WorkGoesOn DEF ScanInv

\* The blank line ends the head.
LEMMA BlankLineEndsHead ==
    ASSUME ParserInv, ScanInv, BlankLine
    PROVE  /\ GoodFirst(m_read_buf) /\ Break(m_read_buf, m_start_line + 1)
           /\ NextLine.checked = m_start_line + 2 /\ m_start_line \in Nat
           /\ HeadEnds(m_read_buf, m_start_line + 1, m_content_length, m_linger)
  <1> DEFINE b == m_read_buf
             s == m_start_line
  <1>1. Turn("HEADER") /\ phase = "work" /\ m_check_state = "HEADER" /\ Text = <<>>
    BY DEF BlankLine, Turn
  <1>2. GoodFirst(b) /\ HeadSoFar(b, s, m_content_length, m_linger)
    BY <1>1 DEF ScanInv
  <1>3. NextLine.checked = s + 2 /\ Break(b, s + 1) /\ s \in Nat
    <2>1. PICK i \in Nat : NextLine.checked = i + 2 /\ Break(b, i + 1) /\ Len(Text) = i - s
      BY <1>1, TurnFinds
    <2>2. s \in Nat /\ Len(Text) = 0
      BY <1>1, Indices DEF ParserInv
    <2>3. i = s
      BY <2>1, <2>2
    <2> QED
      BY <2>1, <2>2, <2>3
  <1>4. HeadEnds(b, s + 1, m_content_length, m_linger)
    BY <1>2, <1>3, HeadEndIs
  <1> QED
    BY <1>2, <1>3, <1>4

\* Without a body the request is whole.
LEMMA HeadIsRequest ==
    ASSUME ParserInv, ScanInv, BlankLine, m_content_length = 0
    PROVE  Verdict(m_read_buf) = "get"
  <1> DEFINE b == m_read_buf
             s == m_start_line
  <1>1. /\ GoodFirst(b) /\ Break(b, s + 1) /\ s \in Nat
        /\ HeadEnds(b, s + 1, m_content_length, m_linger)
    BY BlankLineEndsHead
  <1>2. Len(b) \in Nat /\ s + 1 \in 1..(Len(b) - 1)
    BY <1>1, Indices DEF Break, ParserInv, m_read_idx
  <1>3. Len(b) >= s + 1 + 1 + m_content_length
    BY <1>1, <1>2
  <1> QED
    BY <1>1, <1>3, VerdictGet

\* So its turn answers, or goes on to the body.
LEMMA BlankLineScan == JudgeInv /\ BlankLine => ScanInv' /\ JudgedAsWhole'
  <1> SUFFICES ASSUME JudgeInv, BlankLine PROVE ScanInv' /\ JudgedAsWhole'
    OBVIOUS
  <1> DEFINE b == m_read_buf
             s == m_start_line
  <1>1. /\ Turn("HEADER") /\ ParserInv /\ ScanInv /\ phase = "work"
        /\ m_check_state = "HEADER"
        /\ m_content_length' = m_content_length /\ m_linger' = m_linger /\ line_status' = "LINE_OK"
    BY DEF BlankLine, JudgeInv, Turn
  <1>2. GoodFirst(b)
    BY <1>1, BlankLineEndsHead
  <1>3. NextLine.checked = s + 2 /\ Break(b, s + 1) /\ s \in Nat
    BY <1>1, BlankLineEndsHead
  <1>4. HeadEnds(b, s + 1, m_content_length, m_linger)
    BY <1>1, BlankLineEndsHead
  <1>5. CASE m_content_length # 0
    <2>1. m_check_state' = "CONTENT" /\ phase' = "work" /\ m_checked_idx' = s + 2 /\ b' = b
      BY <1>1, <1>3, <1>5 DEF BlankLine, Turn
    <2>2. s + 1 \in 1..(m_checked_idx' - 1) /\ m_checked_idx' = s + 1 + 1
      BY <1>3, <2>1
    <2>3. AtBody(b, bodyWasCut)'
      BY <1>1, <1>4, <2>1, <2>2 DEF AtBody
    <2> QED
      BY <1>1, <1>2, <2>1, <2>3, WorkGoesOn DEF ScanInv
  <1>6. CASE m_content_length = 0
    <2>1. phase' \notin {"idle", "work"}
      BY <1>6 DEF BlankLine, GetRequest, Reply
    <2>2. Verdict(b) = "get"
      BY <1>1, <1>6, HeadIsRequest
    <2> QED
      BY <1>1, <2>1, <2>2, AnswerIsJudged
  <1> QED
    BY <1>5, <1>6

\* What a look at the body finds: the head ended where the body starts, and what
\* counts as whole, with a sum that may have wrapped, is so.
LEMMA BodyFound ==
    ASSUME ParserInv, ScanInv, Content
    PROVE  /\ GoodFirst(m_read_buf)
           /\ \E h \in 1..(m_checked_idx - 1) :
                 /\ HeadEnds(m_read_buf, h, m_content_length, m_linger)
                 /\ ~bodyWasCut => NextLine.checked = h + 1
           /\ \A sum \in Sums :
                 /\ m_read_idx >= sum /\ Terminator \in 0..(READ_BUFFER_SIZE - 1)
                       => Verdict(m_read_buf) = "get"
                 /\ m_read_idx < sum /\ ~bodyWasCut => EndsInBody(m_read_buf)
  <1> DEFINE b == m_read_buf
  <1>1. Turn("CONTENT") /\ phase = "work" /\ m_check_state = "CONTENT" /\ TypeOK
    BY DEF Content, Turn, ParserInv
  <1>2. GoodFirst(b) /\ AtBody(b, bodyWasCut)
    BY <1>1 DEF ScanInv
  <1>3. PICK h \in 1..(m_checked_idx - 1) :
            /\ HeadEnds(b, h, m_content_length, m_linger)
            /\ ~bodyWasCut => line_status = "LINE_OK" /\ m_checked_idx = h + 1
    BY <1>2 DEF AtBody
  <1>4. /\ m_checked_idx \in Nat /\ NextLine.checked \in Nat /\ m_checked_idx <= NextLine.checked
        /\ m_read_idx = Len(b) /\ Len(b) \in Nat /\ m_content_length \in Int
        /\ READ_BUFFER_SIZE \in Nat
    BY <1>1, TextAssumption, ScanStaysInBuffer, Indices, ParserAssumption
    DEF TypeOK, IntValues, m_read_idx
  <1>5. ~bodyWasCut => NextLine.checked = h + 1
    BY <1>1, <1>3 DEF NextLine, Line
  <1>6. ASSUME NEW sum \in Sums
        PROVE  /\ m_read_idx >= sum /\ Terminator \in 0..(READ_BUFFER_SIZE - 1) => Verdict(b) = "get"
               /\ m_read_idx < sum /\ ~bodyWasCut => EndsInBody(b)
    <2>1. /\ sum = m_content_length + NextLine.checked \/ m_content_length + NextLine.checked > MaxInt
          /\ m_content_length + NextLine.checked > MaxInt =>
                Len(b) < m_content_length + NextLine.checked /\ Terminator >= READ_BUFFER_SIZE
      BY <1>1, <1>4, SumIs
    <2>2. ASSUME m_read_idx >= sum, Terminator \in 0..(READ_BUFFER_SIZE - 1) PROVE Verdict(b) = "get"
      <3>1. Len(b) >= h + 1 + m_content_length
        BY <1>3, <1>4, <2>1, <2>2
      <3> QED
        BY <1>2, <1>3, <3>1, VerdictGet
    <2>3. ASSUME m_read_idx < sum, ~bodyWasCut PROVE EndsInBody(b)
      <3>1. Len(b) < h + 1 + m_content_length
        BY <1>3, <1>4, <1>5, <2>1, <2>3
      <3> QED
        BY <1>3, <3>1, InBody
    <2> QED
      BY <2>2, <2>3
  <1> QED
    BY <1>2, <1>3, <1>5, <1>6

\* A look at the body.
LEMMA ContentScan == JudgeInv /\ Content => ScanInv' /\ JudgedAsWhole'
  <1> SUFFICES ASSUME JudgeInv, Content PROVE ScanInv' /\ JudgedAsWhole'
    OBVIOUS
  <1> DEFINE b == m_read_buf
  <1>1. /\ Turn("CONTENT") /\ ParserInv /\ ScanInv /\ phase = "work"
        /\ m_check_state = "CONTENT" /\ m_check_state' = "CONTENT"
        /\ m_content_length' = m_content_length /\ m_linger' = m_linger
    BY DEF Content, JudgeInv, Turn
  <1>2. PICK h \in 1..(m_checked_idx - 1) : HeadEnds(b, h, m_content_length, m_linger)
    BY <1>1, BodyFound
  <1>3. PICK sum \in Sums :
            \/ /\ m_read_idx >= sum /\ Terminator \in 0..(READ_BUFFER_SIZE - 1) /\ GetRequest(Named)
            \/ phase' = "undefined"
            \/ /\ m_read_idx < sum /\ UNCHANGED phase
    BY DEF Content
  <1>7. CASE m_read_idx >= sum /\ Terminator \in 0..(READ_BUFFER_SIZE - 1) /\ GetRequest(Named)
    <2>1. phase' \notin {"idle", "work"}
      BY <1>7 DEF GetRequest, Reply
    <2>2. Verdict(b) = "get"
      BY <1>1, <1>7, BodyFound
    <2> QED
      BY <1>1, <2>1, <2>2, AnswerIsJudged
  <1>8. CASE phase' = "undefined"
    <2>1. phase' \notin {"idle", "work", "answer", "stream"}
      BY <1>8
    <2> QED
      BY <2>1, Zenon DEF ScanInv, JudgedAsWhole
  <1>9. CASE m_read_idx < sum /\ UNCHANGED phase
    <2>1. phase' = "work" /\ m_checked_idx' = NextLine.checked /\ b' = b /\ bodyWasCut' = bodyWasCut
      BY <1>1, <1>9 DEF Turn
    <2>2. bodyWasCut
      BY <1>1, <1>9, BodyFound DEF ScanInv
    <2>3. AtBody(b, bodyWasCut)'
      <3>1. h \in 1..(m_checked_idx' - 1)
        BY <1>1, <1>2, <2>1, ScanStaysInBuffer, Indices DEF ParserInv
      <3> QED
        BY <1>1, <1>2, <2>1, <2>2, <3>1 DEF AtBody
    <2> QED
      BY <1>1, <2>1, <2>3, BodyFound, WorkGoesOn DEF ScanInv
  <1> QED
    BY <1>3, <1>7, <1>8, <1>9

\* init() starts over with an empty buffer.
LEMMA WriteScan == JudgeInv /\ Write => ScanInv' /\ JudgedAsWhole'
  <1> SUFFICES ASSUME JudgeInv, Write PROVE ScanInv' /\ JudgedAsWhole'
    OBVIOUS
  <1>1. CASE Reset /\ phase' = "idle"
    <2>1. /\ m_read_buf' = <<>> /\ m_checked_idx' = 0 /\ m_start_line' = 0
          /\ m_check_state' = "REQUESTLINE" /\ m_content_length' = 0 /\ m_linger' = FALSE
      BY <1>1 DEF Reset
    <2>2. FirstLine(<<>>) = {} /\ Heads(<<>>) = {}
      BY DEF FirstLine, Heads
    <2>3. Verdict(m_read_buf') = "none"
      BY <2>1, <2>2, VerdictNone
    <2>4. LineOpen'
      BY <2>1 DEF LineOpen, Unbroken
    <2> QED
      BY <1>1, <2>1, <2>3, <2>4 DEF ScanInv, JudgedAsWhole
  <1>2. CASE phase' = "closed"
    <2>1. ~(phase' \in {"idle", "work"}) /\ ~(phase' = "work")
      BY <1>2
    <2>2. JudgedAsWhole'
      BY <1>2 DEF JudgedAsWhole
    <2> QED
      BY <2>1, <2>2, Zenon DEF ScanInv
  <1> QED
    BY <1>1, <1>2 DEF Write

LEMMA StepScan == JudgeInv /\ [Next]_vars => JudgeInv'
  <1> SUFFICES ASSUME JudgeInv, [Next]_vars PROVE ScanInv' /\ JudgedAsWhole'
    BY StepParser DEF JudgeInv
  <1>1. CASE PeerSends
    BY <1>1, StutterScan DEF PeerSends
  <1>2. CASE Read
    BY <1>2, ReadScan
  <1>3. CASE LeaveLoop
    BY <1>3, LeaveLoopScan
  <1>4. CASE RequestLine
    BY <1>4, RequestLineScan
  <1>5. CASE Header
    BY <1>5, HeaderScan
  <1>6. CASE BlankLine
    BY <1>6, BlankLineScan
  <1>7. CASE Content
    BY <1>7, ContentScan
  <1>8. CASE Write
    BY <1>8, WriteScan
  <1>9. CASE UNCHANGED vars
    BY <1>9, StutterScan DEF vars
  <1> QED
    BY <1>1, <1>2, <1>3, <1>4, <1>5, <1>6, <1>7, <1>8, <1>9 DEF Next, Server

\* The invariant holds always.
LEMMA ParserJudges == Spec => []JudgeInv
  <1>1. Init => JudgeInv
    BY InitParser, InitScan DEF JudgeInv
  <1> QED
    BY <1>1, StepScan, PTL DEF Spec

\* Wherever the reads cut the request, process_read() answers it exactly when
\* the buffer holds all of it and refuses exactly a malformed first line, for
\* every input and buffer size; a body that comes in two reads is the exception.
THEOREM VerdictIsThatOfTheWhole == Spec => []JudgedAsWhole
  <1>1. JudgeInv => JudgedAsWhole
    BY DEF JudgeInv
  <1> QED
    BY <1>1, ParserJudges, PTL
=============================================================================
