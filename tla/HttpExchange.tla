---------------------------- MODULE HttpExchange ----------------------------
(***************************************************************************)
(* HttpParser together with the responses: what do_request() maps, how the *)
(* add_*() functions fill m_write_buf, and how write() gets header and     *)
(* body through writev() in pieces.  A response is never read by the       *)
(* server, so a header line is one symbol, and so is a byte of a body.     *)
(* RequestReply says what a client may expect of all this.                 *)
(***************************************************************************)
EXTENDS HttpParser

CONSTANTS
    WRITE_BUFFER_SIZE,  \* 1024 bytes in the code
    FileSizes,          \* st_size of the files behind the URLs
    ApiSizes,           \* lengths of the JSON bodies of the /api URLs
    FormSize            \* length of an error page

ASSUME ExchangeAssumption ==
    /\ WRITE_BUFFER_SIZE \in Nat /\ FormSize \in Nat
    /\ FileSizes \subseteq Nat /\ ApiSizes \subseteq Nat

VARIABLES
    m_write_buf,        \* its first m_write_idx symbols
    m_iv,               \* [1] lies in m_write_buf, [2] in the file: offset and length
    m_iv_count, m_bytes_to_send, m_bytes_have_sent,
    m_file_address,     \* not NULL
    st_size,            \* m_file_stat.st_size
    mappings,           \* how many mappings of files the process holds
    wire,               \* all that the client has received
    due                 \* all that the responses say that were begun

response == <<m_write_buf, m_iv, m_iv_count, m_bytes_to_send, m_bytes_have_sent>>
file == <<m_file_address, st_size, mappings>>
exchangeVars == <<response, file, wire, due>>
allVars == <<vars, exchangeVars>>

m_write_idx == Len(m_write_buf)

ExchangeInit ==
    /\ Init
    /\ m_write_buf = <<>> /\ m_iv = [i \in 1..2 |-> [at |-> 0, len |-> 0]]
    /\ m_iv_count = 0 /\ m_bytes_to_send = 0 /\ m_bytes_have_sent = 0
    /\ m_file_address = FALSE /\ st_size = 0 /\ mappings = 0
    /\ wire = <<>> /\ due = <<>>

-----------------------------------------------------------------------------
(* What a response says. *)

\* add_content_length() takes an int: a larger st_size wraps.  A JSON body has %zu.
Announced(c, n) == IF c = "API_REQUEST" THEN n ELSE ToInt(n)
HeaderLines(c, length, linger) ==
    <<<<"status", c>>, <<"length", length>>, <<"type", c>>, <<"connection", linger>>, <<"blank", c>>>>
Body(c, n) == [k \in 1..n |-> <<c, k>>]
BodySizes(c) ==
    CASE c = "FILE_REQUEST" -> FileSizes
      [] c = "API_REQUEST"  -> ApiSizes
      [] OTHER              -> {FormSize}

\* add_response() appends at m_write_idx, which only init() and
\* build_json_response() set to 0, and leaves room for the NUL of vsnprintf()
\* and one byte more. With texts appended one by one the last decides.
\* Wrong variant: what vsnprintf() had to cut counts as written.
FitsWhenCut(text) == Len(text) <= WRITE_BUFFER_SIZE
Fits(text) == Len(text) < WRITE_BUFFER_SIZE - 1
Printed(text) == [i \in 1..Len(text) |-> IF i < WRITE_BUFFER_SIZE - 1 THEN text[i] ELSE <<"NUL", 0>>]
Written(c) == IF c = "API_REQUEST" THEN <<>> ELSE m_write_buf

\* process_write() and build_json_response(); the worker closes if they fail,
\* and close_conn() unmaps what do_request() has mapped.
Prepare(c, n) ==
    LET inFile == c = "FILE_REQUEST"
        text == Written(c) \o HeaderLines(c, Announced(c, n), m_linger)
                           \o (IF inFile THEN <<>> ELSE Body(c, n))
    IN  \/ /\ Fits(text) /\ phase' = "answer"
           /\ m_write_buf' = Printed(text)
           /\ m_iv' = <<[at |-> 0, len |-> Len(text)],
                        IF inFile THEN [at |-> 0, len |-> n] ELSE m_iv[2]>>
           /\ m_iv_count' = IF inFile THEN 2 ELSE 1
           /\ m_bytes_have_sent' = 0
           /\ m_bytes_to_send' = Len(text) + (IF inFile THEN n ELSE 0)
           /\ m_file_address' = (inFile /\ n > 0)
           /\ mappings' = mappings + (IF inFile /\ n > 0 THEN 1 ELSE 0)
           /\ st_size' = IF inFile THEN n ELSE st_size
           /\ due' = due \o HeaderLines(c, n, AsksToKeep(m_read_buf)) \o Body(c, n)
           /\ UNCHANGED wire
        \/ ~Fits(text) /\ phase' = "closed" /\ UNCHANGED exchangeVars

\* What process() does with the verdict of this turn; a stream has its own queue.
Verdictless == phase' \in {"work", "undefined"}
Respond ==
    \/ (Verdictless \/ code' \in Streams) /\ UNCHANGED exchangeVars
    \/ ~Verdictless /\ code' \notin Streams /\ \E n \in BodySizes(code') : Prepare(code', n)

-----------------------------------------------------------------------------
(* write(): one action per writev(). It may take a part; between two of them
   the socket may be full (EAGAIN) and main waits for the next EPOLLOUT. *)

InBuffer(i) == IF i \in DOMAIN m_write_buf THEN m_write_buf[i] ELSE <<"NUL", 0>>
Gathered ==
    [i \in 1..m_iv[1].len |-> InBuffer(m_iv[1].at + i)] \o
    (IF m_iv_count = 2 THEN [i \in 1..m_iv[2].len |-> <<"FILE_REQUEST", m_iv[2].at + i>>] ELSE <<>>)

\* Where the vectors point after `have' bytes are sent and `left' remain.
\* Wrong variant: the file is sent from its beginning again.
AdvanceHeaderOnly(have, left) ==
    IF have >= m_write_idx
    THEN <<[m_iv[1] EXCEPT !.len = 0],
           IF m_iv_count = 2 THEN [at |-> 0, len |-> left] ELSE m_iv[2]>>
    ELSE <<[at |-> have, len |-> m_write_idx - have], m_iv[2]>>
Advance(have, left) ==
    IF have >= m_write_idx
    THEN <<[m_iv[1] EXCEPT !.len = 0],
           IF m_iv_count = 2
           THEN [at |-> IF left > 0 /\ m_file_address THEN have - m_write_idx ELSE 0, len |-> left]
           ELSE m_iv[2]>>
    ELSE <<[at |-> have, len |-> m_write_idx - have], m_iv[2]>>

\* unmap(). Wrong variant: the mapping is forgotten.
ForgetFile == m_file_address' = FALSE /\ UNCHANGED <<mappings, st_size>>
Unmap ==
    /\ m_file_address' = FALSE /\ UNCHANGED st_size
    /\ mappings' = IF m_file_address THEN mappings - 1 ELSE mappings

\* Whether the connection is kept. Wrong variant: it always is.
KeepAlways == TRUE
Keep == m_linger

\* The whole response is out: init(), or write() returns false and main closes.
Finish ==
    /\ Unmap
    /\ \/ /\ Keep /\ Reset /\ phase' = "idle"
          /\ m_write_buf' = <<>> /\ m_iv_count' = 0
          /\ m_bytes_to_send' = 0 /\ m_bytes_have_sent' = 0
       \/ /\ ~Keep /\ phase' = "closed"
          /\ UNCHANGED <<m_read_buf, parser, bodyWasCut, m_write_buf, m_iv_count>>
          /\ m_bytes_to_send' = 0 /\ m_bytes_have_sent' = m_bytes_have_sent + m_bytes_to_send
    /\ UNCHANGED <<input, sent, taken, line_status, code>>

WriteSome(n) ==
    /\ phase = "answer" /\ n \in 1..Len(Gathered)
    /\ wire' = wire \o SubSeq(Gathered, 1, n)
    /\ m_iv' = Advance(m_bytes_have_sent + n, m_bytes_to_send - n)
    /\ UNCHANGED due
    /\ \/ /\ n < m_bytes_to_send
          /\ m_bytes_have_sent' = m_bytes_have_sent + n
          /\ m_bytes_to_send' = m_bytes_to_send - n
          /\ UNCHANGED <<vars, file, m_write_buf, m_iv_count>>
       \/ n = m_bytes_to_send /\ Finish

\* writev() fails, or the peer has gone: write() or main closes the connection.
WriteFails ==
    /\ phase = "answer" /\ phase' = "closed"
    /\ Unmap
    /\ UNCHANGED <<input, sent, taken, m_read_buf, parser, line_status, code, bodyWasCut,
                   response, wire, due>>

-----------------------------------------------------------------------------
ParserOnly == (PeerSends \/ Read \/ LeaveLoop \/ Header) /\ UNCHANGED exchangeVars
Answering == (RequestLine \/ BlankLine \/ Content) /\ Respond
Writing == (\E n \in 1..Len(Gathered) : WriteSome(n)) \/ WriteFails
ExchangeNext == ParserOnly \/ Answering \/ Writing

ExchangeServer == ((Read \/ LeaveLoop \/ Header) /\ UNCHANGED exchangeVars) \/ Answering \/ Writing

\* A client that never reads is left: main waits for its EPOLLOUT, without a timeout.
ExchangeSpec == ExchangeInit /\ [][ExchangeNext]_allVars /\ WF_allVars(ExchangeServer)

-----------------------------------------------------------------------------
\* The counters, the vectors and what is still due agree with each other, and
\* m_write_idx stays so far from the end that the NUL behind it is in the buffer.
ExchangeTypeOK ==
    /\ TypeOK
    /\ m_write_idx = 0 \/ m_write_idx < WRITE_BUFFER_SIZE - 1
    /\ m_iv_count \in 0..2 /\ m_file_address \in BOOLEAN
    /\ phase = "answer" =>
         /\ m_bytes_to_send > 0 /\ m_bytes_to_send = Len(due) - Len(wire)
         /\ m_bytes_to_send = Len(Gathered)
         /\ m_bytes_have_sent + m_bytes_to_send = m_write_idx + (IF m_iv_count = 2 THEN st_size ELSE 0)

\* The client receives header and body of every response whole and in order,
\* however writev() cuts them, and on a kept connection all of it before the
\* next request is read; the announced length is that of the body, as long as
\* an int can hold it, and the connection is announced as this request asked,
\* not as the one before it.
TooLong(symbol) == symbol[1] = "length" /\ symbol[2] > MaxInt
ResponsesAreWhole ==
    /\ Len(wire) <= Len(due)
    /\ \A i \in DOMAIN wire : wire[i] = due[i] \/ TooLong(due[i])
    /\ phase \in {"idle", "work"} => Len(wire) = Len(due)

\* A file is mapped only while its response is being sent, whatever way that
\* ends; init() sets m_file_address to NULL and would lose a mapping.
NoMappingLost ==
    /\ mappings = IF m_file_address THEN 1 ELSE 0
    /\ m_file_address => phase = "answer"

\* The exchange is one of requests and replies: every reply is one to the
\* request that the bytes since the last one hold as a whole, and a connection is
\* kept exactly when that request says so, and only after its whole reply.
Promise == INSTANCE RequestReply WITH
    request <- m_read_buf,
    stage   <- IF phase \in {"idle", "work"} THEN "ready" ELSE phase,
    reply   <- IF phase \in {"answer", "stream"} THEN code ELSE "NO_REQUEST",
    owed    <- IF phase = "answer" THEN Len(due) - Len(wire) ELSE 0
ImplementsRequestReply == Promise!Spec
=============================================================================
