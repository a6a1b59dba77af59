------------------------- MODULE HttpExchangeProofs -------------------------
(***************************************************************************)
(* Proofs about HttpExchange for every size of the buffers, files and      *)
(* bodies: the counters and vectors of write() stay in step with what is   *)
(* due, what the vectors point at is what is due, so responses arrive      *)
(* whole; no mapping of a file is lost; and the exchange implements        *)
(* RequestReply.                                                           *)
(***************************************************************************)
EXTENDS HttpExchange, HttpParserProofs

-----------------------------------------------------------------------------
(* The parser in the exchange.                                             *)

\* A step of the exchange is a step of the parser, or leaves the parser alone:
\* only the writev() that takes the last byte, and a failure, end an answer.
LEMMA ExchangeStepIsParserStep == [ExchangeNext]_allVars => [Next]_vars
  <1> SUFFICES ASSUME [ExchangeNext]_allVars PROVE [Next]_vars
    OBVIOUS
  <1>1. CASE ParserOnly
    BY <1>1 DEF ParserOnly, Next, Server
  <1>2. CASE Answering
    BY <1>2 DEF Answering, Next, Server
  <1>3. ASSUME NEW n \in 1..Len(Gathered), WriteSome(n) PROVE [Next]_vars
    <2>1. CASE UNCHANGED vars
      BY <2>1
    <2>2. CASE Finish
      <3>1. Write
        BY <1>3, <2>2 DEF WriteSome, Finish, Keep, Write
      <3> QED
        BY <3>1 DEF Next, Server
    <2> QED
      BY <1>3, <2>1, <2>2 DEF WriteSome
  <1>4. CASE WriteFails
    <2>1. Write
      BY <1>4 DEF WriteFails, Write
    <2> QED
      BY <2>1 DEF Next, Server
  <1>5. CASE UNCHANGED allVars
    BY <1>5 DEF allVars
  <1> QED
    BY <1>1, <1>2, <1>3, <1>4, <1>5 DEF ExchangeNext, Writing

\* So what is proved of the parser holds with the responses in between.
LEMMA ExchangeParses == ExchangeSpec => Spec
  <1>1. ExchangeInit => Init
    BY DEF ExchangeInit
  <1> QED
    BY <1>1, ExchangeStepIsParserStep, PTL DEF ExchangeSpec, Spec

\* The type of the parser and what it knows of the buffer.
LEMMA ExchangeJudges == ExchangeSpec => [](JudgeInv /\ TypeOK)
  <1>1. JudgeInv => TypeOK
    BY DEF JudgeInv, ParserInv
  <1> QED
    BY <1>1, ExchangeParses, ParserJudges, PTL

\* The NUL that parse_content() writes behind a body of a sane length stays in
\* m_read_buf, also with responses in between.
THEOREM TerminatorStaysInBufferOfExchange == ExchangeSpec => []TerminatorInBuffer
  BY ExchangeParses, TerminatorStaysInBuffer, PTL

-----------------------------------------------------------------------------
(* Mappings.                                                               *)

\* With the type of m_file_address the invariant is inductive.
MappingInv == NoMappingLost /\ m_file_address \in BOOLEAN /\ mappings \in Nat

\* A response that is prepared is prepared by a worker, which has no file mapped.
LEMMA PrepareMaps ==
    ASSUME MappingInv, phase = "work", NEW c, NEW n \in Nat, Prepare(c, n)
    PROVE  MappingInv'
  <1>1. m_file_address = FALSE /\ mappings = 0
    BY DEF MappingInv, NoMappingLost
  <1>2. CASE UNCHANGED exchangeVars
    BY <1>1, <1>2 DEF MappingInv, NoMappingLost, exchangeVars, file
  <1>3. CASE ~UNCHANGED exchangeVars
    <2>1. /\ phase' = "answer"
          /\ m_file_address' = (c = "FILE_REQUEST" /\ n > 0)
          /\ mappings' = mappings + (IF c = "FILE_REQUEST" /\ n > 0 THEN 1 ELSE 0)
      BY <1>3, Zenon DEF Prepare
    <2>2. CASE c = "FILE_REQUEST" /\ n > 0
      <3>1. m_file_address' = TRUE
        BY <2>1, <2>2, Zenon
      <3>2. mappings' = 1
        BY <1>1, <2>1, <2>2
      <3> QED
        BY <2>1, <3>1, <3>2 DEF MappingInv, NoMappingLost
    <2>3. CASE ~(c = "FILE_REQUEST" /\ n > 0)
      <3>1. m_file_address' = FALSE
        BY <2>1, <2>3, Zenon
      <3>2. mappings' = 0
        BY <1>1, <2>1, <2>3
      <3> QED
        BY <3>1, <3>2 DEF MappingInv, NoMappingLost
    <2> QED
      BY <2>2, <2>3
  <1> QED
    BY <1>2, <1>3

\* The sizes a response may have.
LEMMA SizesAreNat == \A c : BodySizes(c) \subseteq Nat
  BY ExchangeAssumption DEF BodySizes

\* unmap() gives back what there was.
LEMMA UnmapReturns ==
    ASSUME MappingInv, Unmap
    PROVE  MappingInv'
  <1>1. mappings' = 0
    <2>1. CASE m_file_address = TRUE
      BY <2>1 DEF MappingInv, NoMappingLost, Unmap
    <2>2. CASE m_file_address = FALSE
      BY <2>2 DEF MappingInv, NoMappingLost, Unmap
    <2> QED
      BY <2>1, <2>2 DEF MappingInv
  <1>2. m_file_address' = FALSE
    BY DEF Unmap
  <1> QED
    BY <1>1, <1>2 DEF MappingInv, NoMappingLost

\* A file stays mapped no longer than its response is being sent, whether that
\* is sent, fails, or does not fit (unmap(), close_conn(), init()).
THEOREM NoMappingIsLost == ExchangeSpec => []NoMappingLost
  <1>1. ExchangeInit => MappingInv
    <2> SUFFICES ASSUME ExchangeInit PROVE MappingInv
      OBVIOUS
    <2>1. m_file_address = FALSE /\ mappings = 0
      BY DEF ExchangeInit
    <2> QED
      BY <2>1 DEF MappingInv, NoMappingLost
  <1>2. MappingInv /\ [ExchangeNext]_allVars => MappingInv'
    <2> SUFFICES ASSUME MappingInv, [ExchangeNext]_allVars PROVE MappingInv'
      OBVIOUS
    <2>1. CASE ParserOnly
      <3>1. UNCHANGED file /\ (phase = "answer" => phase' = "answer")
        BY <2>1 DEF ParserOnly, exchangeVars, PeerSends, Read, LeaveLoop, Header, Turn
      <3> QED
        BY <3>1 DEF MappingInv, NoMappingLost, file
    <2>2. CASE Answering
      <3>1. phase = "work"
        BY <2>2 DEF Answering, RequestLine, BlankLine, Content, Turn
      <3>2. CASE UNCHANGED exchangeVars
        BY <3>1, <3>2 DEF MappingInv, NoMappingLost, exchangeVars, file
      <3>3. CASE \E n \in BodySizes(code') : Prepare(code', n)
        BY <3>1, <3>3, PrepareMaps, SizesAreNat
      <3> QED
        BY <2>2, <3>2, <3>3 DEF Answering, Respond
    <2>3. ASSUME NEW n \in 1..Len(Gathered), WriteSome(n) PROVE MappingInv'
      <3>1. CASE UNCHANGED <<vars, file, m_write_buf, m_iv_count>>
        BY <3>1 DEF MappingInv, NoMappingLost, file, vars
      <3>2. CASE Finish
        BY <3>2, UnmapReturns DEF Finish
      <3> QED
        BY <2>3, <3>1, <3>2 DEF WriteSome
    <2>4. CASE WriteFails
      BY <2>4, UnmapReturns DEF WriteFails
    <2>5. CASE UNCHANGED allVars
      BY <2>5 DEF allVars, vars, exchangeVars, file, MappingInv, NoMappingLost
    <2> QED
      BY <2>1, <2>2, <2>3, <2>4, <2>5 DEF ExchangeNext, Writing
  <1>3. MappingInv => NoMappingLost
    BY DEF MappingInv
  <1> QED
    BY <1>1, <1>2, <1>3, PTL DEF ExchangeSpec

-----------------------------------------------------------------------------
(* The counters and the vectors.                                           *)

Names == Codes \cup {"status", "length", "type", "connection", "blank", "NUL"}
Values == Int \cup Codes \cup BOOLEAN
Symbols == Names \X Values
Vectors == [1..2 -> [at : Nat, len : Nat]]
InFile == IF m_iv_count = 2 THEN st_size ELSE 0

ExchangeTypes ==
    /\ m_write_buf \in Seq(Symbols) /\ (m_write_idx = 0 \/ m_write_idx < WRITE_BUFFER_SIZE - 1)
    /\ m_iv \in Vectors /\ m_iv_count \in 0..2 /\ m_file_address \in BOOLEAN
    /\ m_bytes_to_send \in Nat /\ m_bytes_have_sent \in Nat /\ st_size \in Nat
    /\ wire \in Seq(Symbols) /\ due \in Seq(Symbols)

\* While a response is out, the second vector stands for the whole file until
\* the header is gone; before a request is read nothing is due.
Sending ==
    /\ m_bytes_to_send > 0 /\ m_bytes_to_send = Len(due) - Len(wire)
    /\ m_iv_count # 0
    /\ m_bytes_have_sent + m_bytes_to_send = m_write_idx + InFile
    /\ m_iv[1].len + (IF m_iv_count = 2 THEN m_iv[2].len ELSE 0) = m_bytes_to_send
    /\ m_bytes_have_sent < m_write_idx /\ m_iv_count = 2 => m_iv[2].len = st_size
ExchangeInv ==
    /\ ExchangeTypes
    /\ phase = "answer" => Sending
    /\ phase \in {"idle", "work"} => Len(wire) = Len(due) /\ m_write_buf = <<>>

\* A function on 1..n is a sequence of length n.
LEMMA CountedSequence ==
    ASSUME NEW S, NEW n \in Nat, NEW f \in [1..n -> S]
    PROVE  f \in Seq(S) /\ Len(f) = n
  OBVIOUS

\* What may stand in a response.
LEMMA Pairs ==
    /\ \A c \in Names, v \in Values : <<c, v>> \in Symbols
    /\ Int \subseteq Values /\ Codes \subseteq Values /\ BOOLEAN \subseteq Values
    /\ Codes \subseteq Names /\ "FILE_REQUEST" \in Names /\ "NUL" \in Names
  <1>1. \A c \in Names, v \in Values : <<c, v>> \in Symbols
    BY DEF Symbols
  <1>2. Int \subseteq Values /\ Codes \subseteq Values /\ BOOLEAN \subseteq Values
    BY Zenon DEF Values
  <1>3. Codes \subseteq Names /\ "FILE_REQUEST" \in Names /\ "NUL" \in Names
    BY Zenon DEF Names, Codes
  <1> QED
    BY <1>1, <1>2, <1>3

\* The bytes of a body, and of the part of a file a vector stands for.
LEMMA PairedSequence ==
    ASSUME NEW c \in Names, NEW n \in Nat, NEW d \in Nat
    PROVE  [k \in 1..n |-> <<c, d + k>>] \in [1..n -> Symbols]
  <1>1. ASSUME NEW k \in 1..n PROVE <<c, d + k>> \in Symbols
    <2>1. d + k \in Int
      OBVIOUS
    <2> QED
      BY <2>1, Pairs, Zenon
  <1> QED
    BY <1>1, Zenon

\* The two vectors.
LEMMA VectorPair ==
    ASSUME NEW a \in [at : Nat, len : Nat], NEW b \in [at : Nat, len : Nat]
    PROVE  <<a, b>> \in Vectors
  BY DEF Vectors

\* The two parts of what writev() sees of the vectors.
LEMMA GatheredParts ==
    ASSUME ExchangeTypes
    PROVE  LET header == [i \in 1..m_iv[1].len |-> InBuffer(m_iv[1].at + i)]
               body == IF m_iv_count = 2
                       THEN [i \in 1..m_iv[2].len |-> <<"FILE_REQUEST", m_iv[2].at + i>>] ELSE <<>>
           IN  /\ header \in Seq(Symbols) /\ Len(header) = m_iv[1].len
               /\ body \in Seq(Symbols) /\ Len(body) = IF m_iv_count = 2 THEN m_iv[2].len ELSE 0
  <1> DEFINE header == [i \in 1..m_iv[1].len |-> InBuffer(m_iv[1].at + i)]
             body == IF m_iv_count = 2
                     THEN [i \in 1..m_iv[2].len |-> <<"FILE_REQUEST", m_iv[2].at + i>>] ELSE <<>>
  <1>1. m_iv[1] \in [at : Nat, len : Nat] /\ m_iv[2] \in [at : Nat, len : Nat]
    BY DEF ExchangeTypes, Vectors
  <1>2. header \in Seq(Symbols) /\ Len(header) = m_iv[1].len
    <2>1. \A j : InBuffer(j) \in Symbols
      <3>1. \A j \in DOMAIN m_write_buf : m_write_buf[j] \in Symbols
        BY LenProperties DEF ExchangeTypes
      <3>2. 0 \in Values
        BY 0 \in Int, Pairs, Zenon
      <3>3. <<"NUL", 0>> \in Symbols
        BY <3>2, Pairs, Zenon
      <3> QED
        BY <3>1, <3>3, Zenon DEF InBuffer
    <2>2. header \in [1..m_iv[1].len -> Symbols]
      BY <2>1
    <2> QED
      BY <1>1, <2>2, CountedSequence
  <1>3. body \in Seq(Symbols) /\ Len(body) = IF m_iv_count = 2 THEN m_iv[2].len ELSE 0
    <2>1. CASE m_iv_count = 2
      <3>1. body \in [1..m_iv[2].len -> Symbols]
        BY <1>1, <2>1, PairedSequence, Pairs
      <3>2. m_iv[2].len \in Nat
        BY <1>1
      <3> HIDE DEF body
      <3> QED
        BY <2>1, <3>1, <3>2, CountedSequence
    <2>2. CASE m_iv_count # 2
      BY <2>2
    <2> QED
      BY <2>1, <2>2
  <1> HIDE DEF header, body
  <1>4. /\ header \in Seq(Symbols) /\ Len(header) = m_iv[1].len
        /\ body \in Seq(Symbols) /\ Len(body) = IF m_iv_count = 2 THEN m_iv[2].len ELSE 0
    BY <1>2, <1>3
  <1> QED
    BY <1>4 DEF header, body

\* Together they are as long as the vectors say.
LEMMA GatheredLength ==
    ASSUME ExchangeTypes
    PROVE  /\ Gathered \in Seq(Symbols)
           /\ Len(Gathered) = m_iv[1].len + (IF m_iv_count = 2 THEN m_iv[2].len ELSE 0)
  <1> DEFINE header == [i \in 1..m_iv[1].len |-> InBuffer(m_iv[1].at + i)]
             body == IF m_iv_count = 2
                     THEN [i \in 1..m_iv[2].len |-> <<"FILE_REQUEST", m_iv[2].at + i>>] ELSE <<>>
  <1>1. /\ header \in Seq(Symbols) /\ Len(header) = m_iv[1].len
        /\ body \in Seq(Symbols) /\ Len(body) = IF m_iv_count = 2 THEN m_iv[2].len ELSE 0
    BY GatheredParts
  <1>2. Gathered = header \o body
    BY DEF Gathered
  <1> HIDE DEF header, body
  <1> QED
    BY <1>1, <1>2, ConcatProperties

\* The header of a response has five lines; a body has its bytes.
LEMMA PartsOfResponse ==
    ASSUME NEW c \in Codes, NEW l \in Int, NEW b \in BOOLEAN, NEW n \in Nat
    PROVE  /\ HeaderLines(c, l, b) \in Seq(Symbols) /\ Len(HeaderLines(c, l, b)) = 5
           /\ Body(c, n) \in Seq(Symbols) /\ Len(Body(c, n)) = n
  <1>1. HeaderLines(c, l, b) \in Seq(Symbols) /\ Len(HeaderLines(c, l, b)) = 5
    <2>1. /\ <<"status", c>> \in Symbols /\ <<"length", l>> \in Symbols /\ <<"type", c>> \in Symbols
          /\ <<"connection", b>> \in Symbols /\ <<"blank", c>> \in Symbols
      <3>1. {"status", "length", "type", "connection", "blank"} \subseteq Names
        BY Zenon DEF Names
      <3> QED
        BY <3>1, Pairs, Zenon
    <2> QED
      BY <2>1 DEF HeaderLines
  <1>2. Body(c, n) \in [1..n -> Symbols]
    <2>1. \A k \in 1..n : 0 + k = k
      OBVIOUS
    <2>2. Body(c, n) = [k \in 1..n |-> <<c, 0 + k>>]
      BY <2>1 DEF Body
    <2> QED
      BY <2>2, PairedSequence, Pairs
  <1> QED
    BY <1>1, <1>2, CountedSequence

\* Nothing is in m_write_buf when a response is begun.
LEMMA NothingWritten ==
    ASSUME ExchangeInv, phase = "work", NEW c, NEW t \in Seq(Symbols)
    PROVE  Written(c) \o t = t
  <1>1. Written(c) = <<>>
    BY DEF ExchangeInv, Written
  <1>2. <<>> \o t = t
    OBVIOUS
  <1> QED
    BY <1>1, <1>2

\* The keep-alive a request asks for is a truth value, and a length an int.
LEMMA AskedType ==
    ASSUME NEW c, NEW n \in Nat
    PROVE  Announced(c, n) \in Int /\ AsksToKeep(m_read_buf) \in BOOLEAN
  <1>1. ToInt(n) \in Int
    BY IntIs, TextAssumption DEF IntValues
  <1> QED
    BY <1>1 DEF Announced, AsksToKeep

\* A response that is prepared is due, and everything of it is to be sent.
LEMMA PrepareSends ==
    ASSUME ExchangeInv, phase = "work", m_linger \in BOOLEAN,
           NEW c \in Codes, NEW n \in Nat, Prepare(c, n)
    PROVE  ExchangeInv'
  <1> DEFINE inFile == c = "FILE_REQUEST"
             head == HeaderLines(c, Announced(c, n), m_linger)
             body == IF inFile THEN <<>> ELSE Body(c, n)
             text == head \o body
             fits == /\ Fits(text) /\ phase' = "answer"
                     /\ m_write_buf' = Printed(text)
                     /\ m_iv' = <<[at |-> 0, len |-> Len(text)],
                                  IF inFile THEN [at |-> 0, len |-> n] ELSE m_iv[2]>>
                     /\ m_iv_count' = IF inFile THEN 2 ELSE 1
                     /\ m_bytes_have_sent' = 0
                     /\ m_bytes_to_send' = Len(text) + (IF inFile THEN n ELSE 0)
                     /\ m_file_address' = (inFile /\ n > 0)
                     /\ st_size' = IF inFile THEN n ELSE st_size
                     /\ due' = due \o HeaderLines(c, n, AsksToKeep(m_read_buf)) \o Body(c, n)
                     /\ UNCHANGED wire
  <1>1. Announced(c, n) \in Int /\ AsksToKeep(m_read_buf) \in BOOLEAN
    BY AskedType
  <1>2. /\ head \in Seq(Symbols) /\ Len(head) = 5
        /\ Body(c, n) \in Seq(Symbols) /\ Len(Body(c, n)) = n
    BY <1>1, PartsOfResponse
  <1>3. body \in Seq(Symbols) /\ Len(body) = IF inFile THEN 0 ELSE n
    BY <1>2
  <1>4. text \in Seq(Symbols) /\ Len(text) = 5 + (IF inFile THEN 0 ELSE n)
    <2> HIDE DEF head, body
    <2>1. text \in Seq(Symbols) /\ Len(text) = Len(head) + Len(body)
      BY <1>2, <1>3, ConcatProperties
    <2> HIDE DEF text, inFile
    <2> QED
      BY <1>2, <1>3, <2>1
  <1>5. /\ HeaderLines(c, n, AsksToKeep(m_read_buf)) \in Seq(Symbols)
        /\ Len(HeaderLines(c, n, AsksToKeep(m_read_buf))) = 5
    BY <1>1, PartsOfResponse
  <1>6. CASE fits
    <2>1. due' \in Seq(Symbols) /\ Len(due') = Len(due) + 5 + n
      <3> DEFINE lines == HeaderLines(c, n, AsksToKeep(m_read_buf))
                 bytes == Body(c, n)
                 all == due \o lines
      <3>1. due \in Seq(Symbols) /\ Len(due) \in Nat
        BY LenProperties DEF ExchangeInv, ExchangeTypes
      <3>5. /\ lines \in Seq(Symbols) /\ Len(lines) = 5
            /\ bytes \in Seq(Symbols) /\ Len(bytes) = n
        BY <1>2, <1>5
      <3>3. due' = all \o bytes
        BY <1>6
      <3> HIDE DEF lines, bytes
      <3>2. all \in Seq(Symbols) /\ Len(all) = Len(due) + 5
        <4>1. all \in Seq(Symbols) /\ Len(all) = Len(due) + Len(lines)
          BY <3>5, <3>1, ConcatProperties, Zenon
        <4> QED
          BY <3>5, <4>1
      <3> HIDE DEF all
      <3>4. due' \in Seq(Symbols) /\ Len(due') = Len(all) + n
        BY <3>5, <3>2, <3>3, ConcatProperties
      <3> QED
        BY <3>1, <3>2, <3>4
    <2>2. m_write_buf' \in Seq(Symbols) /\ Len(m_write_buf') = Len(text)
      <3>1. \A i \in 1..Len(text) : text[i] \in Symbols
        BY <1>4, LenProperties
      <3>2. <<"NUL", 0>> \in Symbols
        BY 0 \in Int, Pairs, Zenon
      <3>3. Printed(text) \in [1..Len(text) -> Symbols]
        BY <3>1, <3>2 DEF Printed
      <3>4. m_write_buf' = Printed(text)
        BY <1>6
      <3> HIDE DEF text
      <3>5. Len(text) \in Nat
        BY <1>4, LenProperties
      <3> QED
        BY <3>3, <3>4, <3>5, CountedSequence
    <2>3. m_file_address' \in BOOLEAN
      BY <1>6, Zenon
    <2> HIDE DEF text, head, body
    <2>4. m_iv' \in Vectors
      BY <1>4, <1>6 DEF Vectors, ExchangeInv, ExchangeTypes
    <2>5. ExchangeTypes'
      BY <1>4, <1>6, <2>1, <2>2, <2>3, <2>4 DEF ExchangeInv, ExchangeTypes, m_write_idx, Fits
    <2>6. Len(due) = Len(wire) /\ Len(due) \in Nat
      BY LenProperties DEF ExchangeInv, ExchangeTypes
    <2>7. Sending'
      <3>1. /\ m_write_idx' = Len(text) /\ m_iv'[1].len = Len(text)
            /\ inFile => m_iv'[2].len = n
        BY <1>6, <2>2 DEF m_write_idx
      <3> HIDE DEF inFile
      <3>2. InFile' = IF inFile THEN n ELSE 0
        <4>1. CASE inFile
          <5>1. m_iv_count' = 2 /\ st_size' = n
            BY <1>6, <4>1
          <5> QED
            BY <4>1, <5>1 DEF InFile
        <4>2. CASE ~inFile
          <5>1. m_iv_count' = 1
            BY <1>6, <4>2
          <5> QED
            BY <4>2, <5>1 DEF InFile
        <4> QED
          BY <4>1, <4>2
      <3>3. Len(due') - Len(wire') = 5 + n
        BY <1>6, <2>1, <2>6
      <3> QED
        BY <1>4, <1>6, <3>1, <3>2, <3>3 DEF Sending
    <2> QED
      BY <1>6, <2>5, <2>7 DEF ExchangeInv
  <1>7. CASE phase' = "closed" /\ UNCHANGED exchangeVars
    BY <1>7 DEF ExchangeInv, ExchangeTypes, exchangeVars, response, file, m_write_idx
  <1>8. fits \/ (phase' = "closed" /\ UNCHANGED exchangeVars)
    <2>1. Written(c) \o head = head
      BY <1>2, NothingWritten
    <2> QED
      BY <2>1, Zenon DEF Prepare
  <1> QED
    BY <1>6, <1>7, <1>8

\* A writev() moves the counters and the vectors by what it took.
LEMMA WriteAdvances ==
    ASSUME ExchangeInv, m_linger \in BOOLEAN, NEW n \in 1..Len(Gathered), WriteSome(n)
    PROVE  ExchangeInv'
  <1>1. Sending /\ ExchangeTypes /\ Len(Gathered) = m_bytes_to_send
    BY GatheredLength DEF ExchangeInv, WriteSome, Sending
  <1>2. n \in 1..m_bytes_to_send
    BY <1>1
  <1>3. /\ Len(wire) \in Nat /\ Len(due) \in Nat /\ m_write_idx \in Nat
    BY <1>1, LenProperties DEF ExchangeTypes, m_write_idx
  <1>4. wire' \in Seq(Symbols) /\ Len(wire') = Len(wire) + n
    <2>1. \A i \in 1..n : Gathered[i] \in Symbols
      BY <1>1, GatheredLength, LenProperties
    <2>2. SubSeq(Gathered, 1, n) \in Seq(Symbols) /\ Len(SubSeq(Gathered, 1, n)) = n
      BY <2>1, SubSeqProperties
    <2> QED
      BY <1>1, <2>2, ConcatProperties DEF WriteSome, ExchangeTypes
  <1> DEFINE have == m_bytes_have_sent + n
             left == m_bytes_to_send - n
  <1>5. have \in Nat /\ left \in Nat
    BY <1>1, <1>2 DEF ExchangeTypes
  <1>6. m_iv' = Advance(have, left) /\ m_iv' \in Vectors
    <2>1. m_iv[1] \in [at : Nat, len : Nat] /\ m_iv[2] \in [at : Nat, len : Nat]
      BY <1>1 DEF ExchangeTypes, Vectors
    <2>2. m_iv' = Advance(have, left)
      BY DEF WriteSome
    <2> HIDE DEF have, left
    <2>3. CASE have >= m_write_idx
      <3>1. [m_iv[1] EXCEPT !.len = 0] \in [at : Nat, len : Nat]
        BY <2>1
      <3>2. [at |-> IF left > 0 /\ m_file_address THEN have - m_write_idx ELSE 0, len |-> left]
              \in [at : Nat, len : Nat]
        BY <1>3, <1>5, <2>3
      <3> QED
        BY <2>1, <2>2, <2>3, <3>1, <3>2, VectorPair, Zenon DEF Advance
    <2>4. CASE ~(have >= m_write_idx)
      <3>1. [at |-> have, len |-> m_write_idx - have] \in [at : Nat, len : Nat]
        BY <1>3, <1>5, <2>4
      <3> QED
        BY <2>1, <2>2, <2>4, <3>1, VectorPair, Zenon DEF Advance
    <2> QED
      BY <2>3, <2>4
  <1>7. CASE n < m_bytes_to_send /\ UNCHANGED <<vars, file, m_write_buf, m_iv_count>>
    <2>1. m_bytes_have_sent' = have /\ m_bytes_to_send' = left /\ UNCHANGED due
      BY <1>7 DEF WriteSome, Finish
    <2>2. ExchangeTypes'
      BY <1>1, <1>4, <1>5, <1>6, <1>7, <2>1 DEF ExchangeTypes, file, m_write_idx
    <2>3. m_iv'[1].len = (IF have >= m_write_idx THEN 0 ELSE m_write_idx - have)
          /\ (m_iv_count = 2 /\ have >= m_write_idx => m_iv'[2].len = left)
          /\ (have < m_write_idx => m_iv'[2] = m_iv[2])
      <3>1. m_iv' = Advance(have, left)
        BY <1>6
      <3>2. m_iv[1] \in [at : Nat, len : Nat]
        BY <1>1 DEF ExchangeTypes, Vectors
      <3> HIDE DEF have, left
      <3>3. CASE have >= m_write_idx
        <4>1. m_iv'[1] = [m_iv[1] EXCEPT !.len = 0]
              /\ (m_iv_count = 2 => m_iv'[2].len = left)
          BY <3>1, <3>3 DEF Advance
        <4>2. m_iv'[1].len = 0
          BY <3>2, <4>1
        <4> QED
          BY <1>3, <1>5, <3>3, <4>1, <4>2
      <3>4. CASE ~(have >= m_write_idx)
        <4>1. m_iv'[1].len = m_write_idx - have /\ m_iv'[2] = m_iv[2]
          BY <3>1, <3>4 DEF Advance
        <4> QED
          BY <1>3, <1>5, <3>4, <4>1
      <3> QED
        BY <3>3, <3>4
    <2>4. m_write_idx' = m_write_idx /\ InFile' = InFile
      BY <1>7 DEF m_write_idx, InFile, file
    <2>5. Sending'
      <3>1. left > 0 /\ left = Len(due') - Len(wire') /\ m_iv_count' # 0
        BY <1>1, <1>2, <1>3, <1>4, <1>7, <2>1 DEF Sending
      <3>2. have + left = m_write_idx' + InFile'
        BY <1>1, <1>2, <2>4 DEF Sending, ExchangeTypes
      <3>3. have < m_write_idx /\ m_iv_count = 2 => m_iv'[2].len = st_size
        BY <1>1, <1>2, <1>3, <2>3 DEF Sending, ExchangeTypes
      <3>4. m_iv'[1].len + (IF m_iv_count = 2 THEN m_iv'[2].len ELSE 0) = left
        <4>1. have + left = m_write_idx + InFile
          BY <2>4, <3>2
        <4>2. st_size \in Nat /\ m_iv_count \in {1, 2}
          BY <1>1 DEF ExchangeTypes, Sending
        <4>3. left > 0
          BY <3>1
        <4> HIDE DEF have, left
        <4>4. CASE have >= m_write_idx
          <5>1. m_iv_count = 2
            BY <1>3, <1>5, <4>1, <4>2, <4>3, <4>4 DEF InFile
          <5>2. m_iv'[1].len = 0 /\ m_iv'[2].len = left
            BY <2>3, <4>4, <5>1
          <5> QED
            BY <1>5, <5>1, <5>2
        <4>5. CASE ~(have >= m_write_idx)
          <5>1. m_iv'[1].len = m_write_idx - have /\ (m_iv_count = 2 => m_iv'[2].len = st_size)
            BY <1>3, <1>5, <2>3, <3>3, <4>5
          <5> QED
            BY <1>3, <1>5, <4>1, <4>2, <5>1 DEF InFile
        <4> QED
          BY <4>4, <4>5
      <3> QED
        BY <1>7, <2>1, <2>4, <3>1, <3>2, <3>3, <3>4 DEF Sending, file
    <2> QED
      BY <1>7, <2>2, <2>5 DEF ExchangeInv, vars, WriteSome
  <1>8. CASE n = m_bytes_to_send /\ Finish
    <2>1. Len(wire') = Len(due') /\ (phase' # "closed" => m_write_buf' = <<>>)
      BY <1>1, <1>3, <1>4, <1>8 DEF WriteSome, Sending, Finish
    <2>2. phase' \in {"idle", "closed"} /\ UNCHANGED <<due, st_size>> /\ m_file_address' = FALSE
      BY <1>8 DEF WriteSome, Finish, Unmap
    <2>3. /\ m_write_buf' \in Seq(Symbols)
          /\ m_write_idx' = 0 \/ m_write_idx' < WRITE_BUFFER_SIZE - 1
          /\ m_iv_count' \in 0..2
      <3>1. CASE m_write_buf' = <<>> /\ m_iv_count' = 0
        BY <3>1, EmptySeq DEF m_write_idx
      <3>2. CASE UNCHANGED <<m_write_buf, m_iv_count>>
        BY <1>1, <3>2 DEF ExchangeTypes, m_write_idx
      <3> QED
        BY <1>8, <3>1, <3>2 DEF Finish
    <2>4. m_bytes_to_send' \in Nat /\ m_bytes_have_sent' \in Nat
      BY <1>1, <1>8 DEF Finish, ExchangeTypes
    <2>5. ExchangeTypes'
      BY <1>1, <1>4, <1>6, <2>2, <2>3, <2>4 DEF ExchangeTypes
    <2> QED
      BY <2>1, <2>2, <2>5 DEF ExchangeInv
  <1> QED
    BY <1>7, <1>8 DEF WriteSome

\* A turn that ends the loop gives a code.
LEMMA TurnReplies ==
    ASSUME Answering, phase = "work", ~Verdictless
    PROVE  Reply(code')
  BY Zenon DEF Answering, RequestLine, BlankLine, Content, GetRequest, Reply, Verdictless

\* Every step keeps the invariant.
LEMMA ExchangeStep == TypeOK /\ TypeOK' /\ ExchangeInv /\ [ExchangeNext]_allVars => ExchangeInv'
  <1> SUFFICES ASSUME TypeOK, TypeOK', ExchangeInv, [ExchangeNext]_allVars PROVE ExchangeInv'
    OBVIOUS
  <1>1. m_linger \in BOOLEAN /\ code' \in Codes
    BY DEF TypeOK
  <1>2. ASSUME UNCHANGED exchangeVars,
               phase' = "answer" => phase = "answer",
               phase' \in {"idle", "work"} => phase \in {"idle", "work"}
        PROVE  ExchangeInv'
    BY <1>2 DEF ExchangeInv, ExchangeTypes, Sending, InFile, m_write_idx, exchangeVars, response, file
  <1>3. CASE ParserOnly
    <2>1. UNCHANGED exchangeVars
      BY <1>3 DEF ParserOnly
    <2>2. /\ phase' = "answer" => phase = "answer"
          /\ phase' \in {"idle", "work"} => phase \in {"idle", "work"}
      BY <1>3 DEF ParserOnly, PeerSends, Read, LeaveLoop, Header, Turn
    <2> QED
      BY <1>2, <2>1, <2>2
  <1>4. CASE Answering
    <2>1. phase = "work"
      BY <1>4 DEF Answering, RequestLine, BlankLine, Content, Turn
    <2>2. CASE Verdictless /\ UNCHANGED exchangeVars
      BY <1>2, <2>1, <2>2 DEF Verdictless
    <2>3. CASE ~Verdictless /\ code' \in Streams /\ UNCHANGED exchangeVars
      <3>1. phase' \notin {"answer", "idle"}
        BY <1>4, <2>1, <2>3, TurnReplies DEF Reply
      <3> QED
        BY <1>2, <2>1, <2>3, <3>1
    <2>4. CASE \E n \in BodySizes(code') : Prepare(code', n)
      BY <1>1, <2>1, <2>4, PrepareSends, SizesAreNat
    <2> QED
      BY <1>4, <2>2, <2>3, <2>4 DEF Answering, Respond
  <1>5. ASSUME NEW n \in 1..Len(Gathered), WriteSome(n) PROVE ExchangeInv'
    BY <1>1, <1>5, WriteAdvances
  <1>6. CASE WriteFails
    BY <1>6 DEF WriteFails, Unmap, ExchangeInv, ExchangeTypes, m_write_idx, response
  <1>7. CASE UNCHANGED allVars
    BY <1>2, <1>7 DEF allVars, vars
  <1> QED
    BY <1>3, <1>4, <1>5, <1>6, <1>7 DEF ExchangeNext, Writing

\* Before a response nothing is due.
LEMMA InitExchange == ExchangeInit => ExchangeInv
  <1> SUFFICES ASSUME ExchangeInit PROVE ExchangeInv
    OBVIOUS
  <1>1. /\ m_write_buf \in Seq(Symbols) /\ wire \in Seq(Symbols) /\ due \in Seq(Symbols)
        /\ m_write_idx = 0 /\ Len(wire) = Len(due)
    BY EmptySeq DEF ExchangeInit, m_write_idx
  <1>2. m_iv \in Vectors
    BY DEF ExchangeInit, Vectors
  <1>3. ExchangeTypes
    <2>1. m_file_address \in BOOLEAN
      BY Zenon DEF ExchangeInit
    <2>2. /\ m_iv_count \in 0..2 /\ st_size \in Nat
          /\ m_bytes_to_send \in Nat /\ m_bytes_have_sent \in Nat
      BY DEF ExchangeInit
    <2> QED
      BY <1>1, <1>2, <2>1, <2>2 DEF ExchangeTypes
  <1> QED
    BY <1>1, <1>3 DEF ExchangeInit, ExchangeInv, Init

\* What write() still has to send is what is due to the client, and what its
\* two vectors stand for, in whatever pieces writev() took the rest; and the
\* texts of add_response() end before the last byte of m_write_buf.
THEOREM ExchangeTypeCorrect == ExchangeSpec => []ExchangeTypeOK
  <1>1. TypeOK /\ ExchangeInv => ExchangeTypeOK
    <2> SUFFICES ASSUME TypeOK, ExchangeInv PROVE ExchangeTypeOK
      OBVIOUS
    <2>1. ExchangeTypes
      BY DEF ExchangeInv
    <2>2. ASSUME phase = "answer"
          PROVE  /\ m_bytes_to_send > 0 /\ m_bytes_to_send = Len(due) - Len(wire)
                 /\ m_bytes_to_send = Len(Gathered)
                 /\ m_bytes_have_sent + m_bytes_to_send = m_write_idx + InFile
      BY <2>1, <2>2, GatheredLength DEF ExchangeInv, Sending
    <2> QED
      BY <2>1, <2>2 DEF ExchangeTypeOK, ExchangeTypes, InFile
  <1>2. ExchangeSpec => []TypeOK
    BY ExchangeJudges, PTL
  <1> QED
    BY <1>1, <1>2, InitExchange, ExchangeStep, PTL DEF ExchangeSpec

-----------------------------------------------------------------------------
(* The contents of the responses.                                          *)

\* A response prepared is the header in m_write_buf and then the file; this is
\* where the vectors point, and what of it is still to come is what is due.
Response(k) ==
    IF k <= m_write_idx THEN m_write_buf[k] ELSE <<"FILE_REQUEST", k - m_write_idx>>
Says(x, y) == x = y \/ TooLong(y)
Pointing ==
    /\ m_bytes_have_sent <= Len(wire)
    /\ m_iv[1].len = IF m_bytes_have_sent < m_write_idx THEN m_write_idx - m_bytes_have_sent ELSE 0
    /\ m_iv[1].len > 0 => m_iv[1].at = m_bytes_have_sent
    /\ m_iv_count = 2 =>
         /\ m_iv[2].at = IF m_bytes_have_sent < m_write_idx THEN 0 ELSE m_bytes_have_sent - m_write_idx
         /\ m_file_address <=> st_size > 0
Matching ==
    \A k \in 1..(m_bytes_have_sent + m_bytes_to_send) :
        Says(Response(k), due[Len(wire) - m_bytes_have_sent + k])
SentInv ==
    /\ Len(wire) <= Len(due) /\ \A i \in 1..Len(wire) : Says(wire[i], due[i])
    /\ phase = "answer" => Pointing /\ Matching

\* What writev() is given is the rest of the response.
LEMMA GatheredIs ==
    ASSUME ExchangeTypes, Sending, Pointing, NEW i \in 1..m_bytes_to_send
    PROVE  Gathered[i] = Response(m_bytes_have_sent + i)
  <1> DEFINE header == [j \in 1..m_iv[1].len |-> InBuffer(m_iv[1].at + j)]
             body == IF m_iv_count = 2
                     THEN [j \in 1..m_iv[2].len |-> <<"FILE_REQUEST", m_iv[2].at + j>>] ELSE <<>>
             have == m_bytes_have_sent
  <1>1. /\ m_iv[1] \in [at : Nat, len : Nat] /\ m_iv[2] \in [at : Nat, len : Nat]
        /\ have \in Nat /\ m_bytes_to_send \in Nat
    BY DEF ExchangeTypes, Vectors
  <1>2. m_write_idx \in Nat /\ DOMAIN m_write_buf = 1..m_write_idx
    BY LenProperties DEF ExchangeTypes, m_write_idx
  <1>3. Gathered = header \o body
    BY DEF Gathered
  <1>4. Len(header) = m_iv[1].len /\ header \in Seq(Symbols) /\ body \in Seq(Symbols)
        /\ (m_iv_count = 2 => Len(body) = m_iv[2].len)
    BY GatheredParts
  <1>5. m_iv[1].len + (IF m_iv_count = 2 THEN m_iv[2].len ELSE 0) = m_bytes_to_send
    BY DEF Sending
  <1>6. CASE i <= m_iv[1].len
    <2>1. Gathered[i] = header[i]
      <3> HIDE DEF header, body
      <3> QED
        BY <1>1, <1>3, <1>4, <1>6, ConcatProperties
    <2>2. have < m_write_idx /\ m_iv[1].at = have /\ have + i \in 1..m_write_idx
      BY <1>1, <1>2, <1>6 DEF Pointing
    <2>3. header[i] = InBuffer(m_iv[1].at + i)
      BY <1>1, <1>6
    <2> HIDE DEF header, body
    <2> QED
      BY <1>2, <2>1, <2>2, <2>3 DEF InBuffer, Response
  <1>7. CASE i > m_iv[1].len
    <2> DEFINE j == i - m_iv[1].len
    <2>1. m_iv_count = 2 /\ j \in 1..m_iv[2].len
      BY <1>1, <1>5, <1>7
    <2>2. Gathered[i] = body[j]
      <3>1. i \in 1..(Len(header) + Len(body)) /\ ~(i <= Len(header))
        BY <1>1, <1>4, <1>5, <1>7, <2>1
      <3> HIDE DEF header, body
      <3> QED
        BY <1>3, <1>4, <3>1, ConcatProperties
    <2>3. body[j] = <<"FILE_REQUEST", m_iv[2].at + j>>
      BY <2>1
    <2> HIDE DEF header, body
    <2>4. m_iv[2].at + j = have + i - m_write_idx /\ have + i > m_write_idx
      BY <1>1, <1>2, <1>7, <2>1 DEF Pointing
    <2> QED
      BY <1>1, <1>2, <2>2, <2>3, <2>4 DEF Response
  <1> QED
    BY <1>1, <1>6, <1>7

\* What a response says is what is due, but for a length no int can hold.
LEMMA HeaderSays ==
    ASSUME NEW c \in Codes, NEW n \in Nat, NEW b \in BOOLEAN, NEW k \in 1..5
    PROVE  Says(HeaderLines(c, Announced(c, n), b)[k], HeaderLines(c, n, b)[k])
  <1>1. CASE k = 2
    <2>1. HeaderLines(c, Announced(c, n), b)[2] = <<"length", Announced(c, n)>>
          /\ HeaderLines(c, n, b)[2] = <<"length", n>>
      BY DEF HeaderLines
    <2>2. n <= MaxInt => Announced(c, n) = n
      BY IntIs, TextAssumption DEF Announced, IntValues
    <2>3. n > MaxInt => TooLong(<<"length", n>>)
      BY DEF TooLong
    <2>4. n <= MaxInt \/ n > MaxInt
      BY TextAssumption
    <2> QED
      BY <1>1, <2>1, <2>2, <2>3, <2>4 DEF Says
  <1>2. CASE k # 2
    <2>1. k \in {1, 3, 4, 5}
      BY <1>2
    <2>2. HeaderLines(c, Announced(c, n), b)[k] = HeaderLines(c, n, b)[k]
      BY <2>1 DEF HeaderLines
    <2> QED
      BY <2>2 DEF Says
  <1> QED
    BY <1>1, <1>2

\* The symbols of two sequences in a row, and of three.
LEMMA Joined ==
    ASSUME NEW S, NEW r \in Seq(S), NEW t \in Seq(S)
    PROVE  /\ r \o t \in Seq(S) /\ Len(r \o t) = Len(r) + Len(t)
           /\ \A i \in 1..(Len(r) + Len(t)) : (r \o t)[i] = IF i <= Len(r) THEN r[i] ELSE t[i - Len(r)]
  BY ConcatProperties

LEMMA InARow ==
    ASSUME NEW S, NEW r \in Seq(S), NEW t \in Seq(S), NEW u \in Seq(S), NEW w, w = (r \o t) \o u
    PROVE  /\ Len(w) = Len(r) + Len(t) + Len(u)
           /\ \A i \in 1..Len(r) : w[i] = r[i]
           /\ \A k \in 1..Len(t) : w[Len(r) + k] = t[k]
           /\ \A k \in 1..Len(u) : w[Len(r) + Len(t) + k] = u[k]
  <1> DEFINE a == r \o t
  <1>1. Len(r) \in Nat /\ Len(t) \in Nat /\ Len(u) \in Nat
    BY LenProperties
  <1>2. /\ a \in Seq(S) /\ Len(a) = Len(r) + Len(t)
        /\ \A i \in 1..(Len(r) + Len(t)) : a[i] = IF i <= Len(r) THEN r[i] ELSE t[i - Len(r)]
    BY Joined
  <1>a. a \in Seq(S)
    BY <1>2
  <1>b. w = a \o u
    OBVIOUS
  <1> HIDE DEF a
  <1>3. /\ Len(w) = Len(a) + Len(u)
        /\ \A i \in 1..(Len(a) + Len(u)) : w[i] = IF i <= Len(a) THEN a[i] ELSE u[i - Len(a)]
    BY <1>a, <1>b, Joined, Zenon
  <1>4. /\ Len(w) = Len(r) + Len(t) + Len(u)
        /\ \A i \in 1..Len(r) : w[i] = r[i]
    BY <1>1, <1>2, <1>3
  <1>5. ASSUME NEW k \in 1..Len(t) PROVE w[Len(r) + k] = t[k]
    <2>1. Len(r) + k \in 1..(Len(r) + Len(t)) /\ ~(Len(r) + k <= Len(r)) /\ Len(r) + k - Len(r) = k
          /\ Len(r) + k \in 1..(Len(a) + Len(u)) /\ Len(r) + k <= Len(a)
      BY <1>1, <1>2
    <2> QED
      BY <1>2, <1>3, <2>1
  <1>6. ASSUME NEW k \in 1..Len(u) PROVE w[Len(r) + Len(t) + k] = u[k]
    <2>1. Len(r) + Len(t) + k \in 1..(Len(a) + Len(u)) /\ ~(Len(r) + Len(t) + k <= Len(a))
          /\ Len(r) + Len(t) + k - Len(a) = k
      BY <1>1, <1>2
    <2> QED
      BY <1>3, <2>1
  <1> QED
    BY <1>3, <1>4, <1>5, <1>6

\* A response that is prepared is what is due next.
LEMMA PrepareSays ==
    ASSUME ExchangeInv, ExchangeInv', SentInv, phase = "work", m_linger \in BOOLEAN,
           phase' = "answer" => (AsksToKeep(m_read_buf) <=> m_linger), NEW c \in Codes, NEW n \in Nat, Prepare(c, n)
    PROVE  SentInv'
  <1> DEFINE inFile == c = "FILE_REQUEST"
             head == HeaderLines(c, Announced(c, n), m_linger)
             body == IF inFile THEN <<>> ELSE Body(c, n)
             text == head \o body
             lines == HeaderLines(c, n, m_linger)
             bytes == Body(c, n)
             fits == /\ Fits(text) /\ phase' = "answer"
                     /\ m_write_buf' = Printed(text)
                     /\ m_iv' = <<[at |-> 0, len |-> Len(text)],
                                  IF inFile THEN [at |-> 0, len |-> n] ELSE m_iv[2]>>
                     /\ m_iv_count' = IF inFile THEN 2 ELSE 1
                     /\ m_bytes_have_sent' = 0
                     /\ m_bytes_to_send' = Len(text) + (IF inFile THEN n ELSE 0)
                     /\ m_file_address' = (inFile /\ n > 0)
                     /\ st_size' = IF inFile THEN n ELSE st_size
                     /\ due' = due \o HeaderLines(c, n, AsksToKeep(m_read_buf)) \o Body(c, n)
                     /\ UNCHANGED wire
  <1>1. phase' = "answer" => AsksToKeep(m_read_buf) = m_linger
    BY AskedType
  <1>2. /\ head \in Seq(Symbols) /\ Len(head) = 5
        /\ lines \in Seq(Symbols) /\ Len(lines) = 5
        /\ bytes \in Seq(Symbols) /\ Len(bytes) = n
    <2>1. Announced(c, n) \in Int
      BY AskedType
    <2> QED
      BY <2>1, PartsOfResponse
  <1>3. body \in Seq(Symbols) /\ Len(body) = IF inFile THEN 0 ELSE n
    BY <1>2
  <1>4. /\ Len(text) = 5 + (IF inFile THEN 0 ELSE n)
        /\ \A k \in 1..Len(text) : text[k] = IF k <= 5 THEN head[k] ELSE body[k - 5]
    <2> HIDE DEF head, body
    <2>1. Len(text) = Len(head) + Len(body)
          /\ \A k \in 1..(Len(head) + Len(body)) :
                text[k] = IF k <= Len(head) THEN head[k] ELSE body[k - Len(head)]
      BY <1>2, <1>3, ConcatProperties
    <2> HIDE DEF text, inFile
    <2> QED
      BY <1>2, <1>3, <2>1
  <1>5. Len(wire) = Len(due) /\ Len(due) \in Nat /\ due \in Seq(Symbols) /\ wire \in Seq(Symbols)
    BY LenProperties DEF ExchangeInv, ExchangeTypes
  <1>6. CASE fits
    <2>1. /\ Len(due') = Len(due) + 5 + n
          /\ \A i \in 1..Len(due) : due'[i] = due[i]
          /\ \A k \in 1..5 : due'[Len(due) + k] = lines[k]
          /\ \A k \in 1..n : due'[Len(due) + 5 + k] = bytes[k]
      <3>1. due' = (due \o lines) \o bytes
        BY <1>1, <1>6
      <3> HIDE DEF lines, bytes
      <3>2. lines \in Seq(Symbols) /\ bytes \in Seq(Symbols) /\ Len(lines) = 5 /\ Len(bytes) = n
            /\ due \in Seq(Symbols) /\ Len(due) \in Nat
        BY <1>2, <1>5
      <3>3. /\ Len(due') = Len(due) + Len(lines) + Len(bytes)
            /\ \A i \in 1..Len(due) : due'[i] = due[i]
            /\ \A k \in 1..Len(lines) : due'[Len(due) + k] = lines[k]
            /\ \A k \in 1..Len(bytes) : due'[Len(due) + Len(lines) + k] = bytes[k]
        <4> DEFINE InRow(r, t, u, w) ==
                     /\ Len(w) = Len(r) + Len(t) + Len(u)
                     /\ \A i \in 1..Len(r) : w[i] = r[i]
                     /\ \A k \in 1..Len(t) : w[Len(r) + k] = t[k]
                     /\ \A k \in 1..Len(u) : w[Len(r) + Len(t) + k] = u[k]
        <4>1. \A r, t, u \in Seq(Symbols) : \A w : w = (r \o t) \o u => InRow(r, t, u, w)
          BY InARow
        <4>2. lines \in Seq(Symbols) /\ bytes \in Seq(Symbols) /\ due \in Seq(Symbols)
          BY <3>2
        <4>3. InRow(due, lines, bytes, due')
          <5> HIDE DEF InRow
          <5> QED
            BY <3>1, <4>1, <4>2, Zenon
        <4> QED
          BY <4>3
      <3> QED
        BY <3>2, <3>3, Zenon
    <2>2. m_write_idx' = Len(text) /\ \A k \in 1..Len(text) : m_write_buf'[k] = text[k]
      <3> HIDE DEF text
      <3>1. m_write_buf' = Printed(text) /\ Fits(text)
        BY <1>6
      <3>2. Len(text) \in Nat /\ WRITE_BUFFER_SIZE \in Nat /\ Len(text) < WRITE_BUFFER_SIZE - 1
        BY <1>2, <1>4, <3>1, ExchangeAssumption DEF Fits
      <3>3. \A k \in 1..Len(text) : m_write_buf'[k] = text[k]
        BY <3>1, <3>2 DEF Printed
      <3>4. Len(m_write_buf') = Len(text)
        BY <3>1, <3>2 DEF Printed
      <3> QED
        BY <3>3, <3>4 DEF m_write_idx
    <2>3. Pointing'
      <3> HIDE DEF text
      <3>1. /\ m_bytes_have_sent' = 0 /\ Len(wire') \in Nat /\ m_write_idx' = Len(text)
            /\ Len(text) \in Nat /\ Len(text) > 0
            /\ m_iv'[1].len = Len(text) /\ m_iv'[1].at = 0
        BY <1>4, <1>5, <1>6, <2>2
      <3>2. m_iv_count' = 2 => inFile
        BY <1>6
      <3>3. inFile => m_iv'[2].at = 0 /\ st_size' = n
        BY <1>6
      <3>4. inFile => (m_file_address' <=> n > 0)
        BY <1>6, Zenon
      <3> HIDE DEF inFile
      <3> QED
        BY <3>1, <3>2, <3>3, <3>4 DEF Pointing
    <2>4. Matching'
      <3> SUFFICES ASSUME NEW k \in 1..(m_bytes_have_sent + m_bytes_to_send)'
                   PROVE  Says(Response(k), due[Len(wire) - m_bytes_have_sent + k])'
        BY DEF Matching
      <3>0. m_bytes_have_sent' = 0 /\ wire' = wire /\ m_bytes_to_send' \in Nat
        <4>1. m_bytes_to_send' = Len(text) + (IF inFile THEN n ELSE 0)
          BY <1>6
        <4> HIDE DEF text, inFile
        <4>2. m_bytes_to_send' \in Nat
          BY <1>4, <4>1
        <4> QED
          BY <1>6, <4>2
      <3>1. m_bytes_have_sent' = 0 /\ wire' = wire /\ Len(wire') - m_bytes_have_sent' + k = Len(due) + k
        <4>1. k \in Nat
          BY <3>0
        <4> QED
          BY <1>5, <3>0, <4>1
      <3>2. k \in 1..(5 + n)
        <4>1. m_bytes_to_send' = Len(text) + (IF inFile THEN n ELSE 0)
          BY <1>6
        <4> HIDE DEF text, inFile
        <4> QED
          BY <1>4, <3>1, <4>1
      <3>3. CASE k <= 5
        <4>1. Response(k)' = head[k]
          <5>1. k \in 1..Len(text) /\ text[k] = head[k]
            <6> HIDE DEF text, head, body
            <6> QED
              BY <1>4, <3>2, <3>3
          <5> HIDE DEF text, head
          <5> QED
            BY <2>2, <5>1 DEF Response
        <4>2. due'[Len(due) + k] = lines[k]
          <5>1. k \in 1..5
            BY <3>2, <3>3
          <5> HIDE DEF lines
          <5> QED
            BY <2>1, <5>1
        <4>3. Says(head[k], lines[k])
          BY <3>2, <3>3, HeaderSays
        <4> HIDE DEF head, lines
        <4> QED
          BY <3>1, <4>1, <4>2, <4>3 DEF Says
      <3>4. CASE k > 5
        <4>1. k - 5 \in 1..n /\ Len(due) + 5 + (k - 5) = Len(due) + k
          BY <1>5, <3>2, <3>4
        <4>2. due'[Len(due) + k] = <<c, k - 5>>
          BY <2>1, <4>1 DEF Body
        <4>3. Response(k)' = <<c, k - 5>>
          <5>1. CASE inFile
            <6>1. Len(text) = 5
              <7> HIDE DEF text
              <7> QED
                BY <1>4, <5>1
            <6> HIDE DEF text
            <6>2. ~(k <= m_write_idx') /\ m_write_idx' = 5
              BY <2>2, <3>4, <6>1, <3>2
            <6> QED
              BY <5>1, <6>2 DEF Response
          <5>2. CASE ~inFile
            <6>1. k \in 1..Len(text) /\ text[k] = body[k - 5]
              <7> HIDE DEF text, head, body, inFile
              <7> QED
                BY <1>4, <3>2, <3>4, <5>2
            <6>2. body[k - 5] = <<c, k - 5>>
              BY <4>1, <5>2 DEF Body
            <6> HIDE DEF text, head, body
            <6> QED
              BY <2>2, <6>1, <6>2 DEF Response
          <5> QED
            BY <5>1, <5>2
        <4> QED
          BY <3>1, <4>2, <4>3 DEF Says
      <3> QED
        BY <3>2, <3>3, <3>4
    <2>5. Len(wire') <= Len(due') /\ \A i \in 1..Len(wire') : Says(wire[i], due[i])'
      <3>1. wire' = wire
        BY <1>6
      <3> QED
        BY <1>5, <2>1, <3>1 DEF SentInv, Says
    <2> QED
      BY <2>3, <2>4, <2>5 DEF SentInv
  <1>7. CASE phase' = "closed" /\ UNCHANGED exchangeVars
    BY <1>7 DEF SentInv, exchangeVars
  <1>8. fits \/ (phase' = "closed" /\ UNCHANGED exchangeVars)
    <2>1. Written(c) \o head = head
      BY <1>2, NothingWritten
    <2> QED
      BY <2>1, Zenon DEF Prepare
  <1> QED
    BY <1>6, <1>7, <1>8

\* A writev() sends the next symbols of the response, and points behind them.
LEMMA WriteSays ==
    ASSUME ExchangeInv, SentInv, NEW n \in 1..Len(Gathered), WriteSome(n)
    PROVE  SentInv'
  <1> DEFINE have == m_bytes_have_sent
  <1>1. ExchangeTypes /\ Sending /\ Pointing /\ Matching /\ Len(Gathered) = m_bytes_to_send
        /\ Gathered \in Seq(Symbols)
    BY GatheredLength DEF ExchangeInv, SentInv, WriteSome, Sending
  <1>2. /\ Len(wire) \in Nat /\ Len(due) \in Nat /\ m_write_idx \in Nat /\ n \in 1..m_bytes_to_send
        /\ have \in Nat /\ m_bytes_to_send \in Nat /\ Len(due) - Len(wire) = m_bytes_to_send
        /\ have <= Len(wire)
    BY <1>1, LenProperties DEF ExchangeTypes, Sending, Pointing, m_write_idx
  <1>3. /\ Len(wire') = Len(wire) + n
        /\ \A i \in 1..Len(wire) : wire'[i] = wire[i]
        /\ \A k \in 1..n : wire'[Len(wire) + k] = Gathered[k]
    <2> DEFINE part == SubSeq(Gathered, 1, n)
    <2>1. \A i \in 1..n : Gathered[i] \in Symbols
      BY <1>1, <1>2, LenProperties
    <2>2. part \in Seq(Symbols) /\ Len(part) = n /\ \A k \in 1..n : part[k] = Gathered[k]
      BY <1>1, <1>2, <2>1, SubSeqProperties
    <2>3. wire' = wire \o part /\ wire \in Seq(Symbols)
      BY <1>1 DEF WriteSome, ExchangeTypes
    <2> HIDE DEF part
    <2>4. /\ Len(wire \o part) = Len(wire) + Len(part)
          /\ \A i \in 1..(Len(wire) + Len(part)) :
                (wire \o part)[i] = IF i <= Len(wire) THEN wire[i] ELSE part[i - Len(wire)]
      BY <2>2, <2>3, ConcatProperties
    <2>5. \A i \in 1..Len(wire) : wire'[i] = wire[i]
      BY <1>2, <2>2, <2>3, <2>4
    <2>6. ASSUME NEW k \in 1..n PROVE wire'[Len(wire) + k] = Gathered[k]
      <3>1. Len(wire) + k \in 1..(Len(wire) + n) /\ ~(Len(wire) + k <= Len(wire)) /\ Len(wire) + k - Len(wire) = k
        BY <1>2
      <3> QED
        BY <2>2, <2>3, <2>4, <3>1
    <2> QED
      BY <2>2, <2>3, <2>4, <2>5, <2>6
  <1>4. due' = due
    BY DEF WriteSome
  <1>5. Len(wire') <= Len(due') /\ \A i \in 1..Len(wire') : Says(wire'[i], due'[i])
    <2>1. Len(wire') <= Len(due')
      BY <1>2, <1>3, <1>4
    <2>2. \A i \in 1..Len(wire) : Says(wire'[i], due'[i])
      BY <1>3, <1>4 DEF SentInv
    <2>3. ASSUME NEW k \in 1..n PROVE Says(wire'[Len(wire) + k], due'[Len(wire) + k])
      <3>1. Gathered[k] = Response(have + k)
        BY <1>1, <1>2, GatheredIs
      <3>2. have + k \in 1..(have + m_bytes_to_send) /\ Len(wire) - have + (have + k) = Len(wire) + k
        BY <1>2
      <3>3. Says(Response(have + k), due[Len(wire) + k])
        BY <1>1, <3>2 DEF Matching
      <3> QED
        BY <1>3, <1>4, <3>1, <3>3
    <2>4. ASSUME NEW i \in 1..Len(wire') PROVE Says(wire'[i], due'[i])
      <3>1. CASE i <= Len(wire)
        BY <1>2, <2>2, <3>1
      <3>2. CASE i > Len(wire)
        <4>1. i - Len(wire) \in 1..n /\ Len(wire) + (i - Len(wire)) = i
          BY <1>2, <1>3, <3>2
        <4> QED
          BY <2>3, <4>1
      <3> QED
        BY <1>2, <3>1, <3>2
    <2> QED
      BY <2>1, <2>4
  <1>6. CASE n < m_bytes_to_send /\ UNCHANGED <<vars, file, m_write_buf, m_iv_count>>
    <2> DEFINE more == have + n
               left == m_bytes_to_send - n
    <2>1. m_bytes_have_sent' = more /\ m_bytes_to_send' = left /\ m_iv' = Advance(more, left)
      BY <1>6 DEF WriteSome, Finish
    <2>2. /\ more \in Nat /\ left \in Nat /\ left > 0 /\ more + left = have + m_bytes_to_send
          /\ have + m_bytes_to_send = m_write_idx + InFile
      BY <1>1, <1>2, <1>6 DEF Sending
    <2>3. /\ m_write_idx' = m_write_idx /\ m_iv_count' = m_iv_count
          /\ st_size' = st_size /\ m_file_address' = m_file_address
      BY <1>6 DEF m_write_idx, file
    <2>4. m_iv[1] \in [at : Nat, len : Nat] /\ m_iv[2] \in [at : Nat, len : Nat] /\ st_size \in Nat
      BY <1>1 DEF ExchangeTypes, Vectors
    <2>5. Len(wire') - m_bytes_have_sent' = Len(wire) - have
      BY <1>2, <1>3, <2>1
    <2>6. m_bytes_have_sent' <= Len(wire')
      BY <1>2, <1>3, <2>1
    <2> HIDE DEF more, left, have
    <2>7. Pointing'
      <3>1. CASE more >= m_write_idx
        <4>1. m_iv'[1] = [m_iv[1] EXCEPT !.len = 0]
          BY <2>1, <3>1 DEF Advance
        <4>2. m_iv'[1].len = 0
          BY <2>4, <4>1
        <4>3. m_iv_count = 2 => m_iv'[2].at = more - m_write_idx
          <5> SUFFICES ASSUME m_iv_count = 2 PROVE m_iv'[2].at = more - m_write_idx
            OBVIOUS
          <5>1. st_size > 0
            BY <1>2, <2>2, <2>4, <3>1 DEF InFile
          <5>2. m_file_address
            BY <1>1, <5>1 DEF Pointing
          <5>3. m_iv'[2] = [at |-> more - m_write_idx, len |-> left]
            BY <2>1, <2>2, <3>1, <5>2 DEF Advance
          <5> QED
            BY <5>3
        <4>4. m_iv_count = 2 => (m_file_address <=> st_size > 0)
          BY <1>1 DEF Pointing
        <4>5. ~(more < m_write_idx)
          BY <1>2, <2>2, <3>1
        <4> QED
          BY <2>1, <2>3, <2>6, <4>2, <4>3, <4>4, <4>5 DEF Pointing
      <3>2. CASE ~(more >= m_write_idx)
        <4>1. m_iv'[1] = [at |-> more, len |-> m_write_idx - more] /\ m_iv'[2] = m_iv[2]
          BY <2>1, <3>2 DEF Advance
        <4>2. m_iv'[1].at = more /\ m_iv'[1].len = m_write_idx - more
          BY <4>1
        <4>3. more < m_write_idx /\ have < m_write_idx
          BY <1>2, <2>2, <3>2 DEF more
        <4>4. m_iv_count = 2 => m_iv'[2].at = 0 /\ (m_file_address <=> st_size > 0)
          BY <1>1, <4>1, <4>3 DEF Pointing, have
        <4> QED
          BY <2>1, <2>3, <2>6, <4>2, <4>3, <4>4 DEF Pointing
      <3> QED
        BY <3>1, <3>2
    <2>8. Matching'
      <3>1. (m_bytes_have_sent + m_bytes_to_send)' = m_bytes_have_sent + m_bytes_to_send
        BY <2>1, <2>2 DEF have
      <3>2. \A k : Response(k)' = Response(k)
        BY <1>6, <2>3 DEF Response
      <3>3. Matching
        BY <1>1
      <3>4. Len(wire)' - m_bytes_have_sent' = Len(wire) - m_bytes_have_sent
        BY <2>5 DEF have
      <3> QED
        BY <1>4, <3>1, <3>2, <3>3, <3>4 DEF Matching, Says
    <2> QED
      BY <1>5, <2>7, <2>8 DEF SentInv
  <1>7. CASE Finish
    <2>1. phase' # "answer"
      BY <1>7 DEF Finish
    <2> QED
      BY <1>5, <2>1 DEF SentInv
  <1> QED
    BY <1>6, <1>7 DEF WriteSome

\* A turn that answers, or refuses to, has the request as a whole before it:
\* its verdict, and what the parser holds of its head.
LEMMA TurnJudges ==
    ASSUME JudgeInv, Answering, ~Verdictless
    PROVE  \/ /\ Verdict(m_read_buf) = "bad" /\ code' = "BAD_REQUEST" /\ m_linger = FALSE
           \/ /\ Verdict(m_read_buf) = "get"
              /\ \E h : HeadEnds(m_read_buf, h, m_content_length, m_linger)
              /\ GetRequest(IF m_content_length < 0 THEN Kinds ELSE {Requested})
              /\ UrlComesFirst /\ m_check_state # "REQUESTLINE"
  <1> USE DEF Verdictless
  <1>1. ParserInv /\ ScanInv /\ phase = "work"
    BY DEF JudgeInv, Answering, RequestLine, BlankLine, Content, Turn
  <1>2. CASE RequestLine
    <2>1. ~WellFormed(Text) /\ code' = "BAD_REQUEST"
      BY <1>1, <1>2 DEF RequestLine, Reply
    <2> QED
      BY <1>2, <2>1, FirstLineFound, VerdictBad
  <1>3. CASE BlankLine
    <2>1. m_content_length = 0 /\ GetRequest({Requested})
      BY <1>1, <1>3 DEF BlankLine
    <2>2. HeadEnds(m_read_buf, m_start_line + 1, m_content_length, m_linger)
      BY <1>1, <1>3, BlankLineEndsHead
    <2>3. UrlComesFirst /\ m_check_state # "REQUESTLINE"
      BY <1>1, <1>3 DEF ParserInv, BlankLine, Turn
    <2> QED
      BY <1>1, <1>3, <2>1, <2>2, <2>3, HeadIsRequest
  <1>4. CASE Content
    <2>1. PICK sum \in Sums : /\ m_read_idx >= sum /\ Terminator \in 0..(READ_BUFFER_SIZE - 1)
                             /\ GetRequest(Named)
      BY <1>1, <1>4 DEF Content
    <2>2. GetRequest(IF m_content_length < 0 THEN Kinds ELSE {Requested})
      <3>1. UrlComesFirst /\ m_check_state = "CONTENT"
        BY <1>1, <1>4 DEF ParserInv, Content, Turn
      <3>2. {Requested} \subseteq Kinds
        BY <3>1, KnownUrl
      <3>3. Named \subseteq IF m_content_length < 0 THEN Kinds ELSE {Requested}
        BY <3>2 DEF Named
      <3> QED
        BY <2>1, <3>3, Zenon DEF GetRequest
    <2>3. Verdict(m_read_buf) = "get" /\ \E h : HeadEnds(m_read_buf, h, m_content_length, m_linger)
      BY <1>1, <1>4, <2>1, BodyFound
    <2> QED
      BY <1>1, <1>4, <2>2, <2>3 DEF ParserInv, Content, Turn
  <1> QED
    BY <1>2, <1>3, <1>4 DEF Answering

\* What the worker has found of "keep" is what the request says when it answers.
LEMMA AskedIsFound ==
    ASSUME JudgeInv, Answering, ~Verdictless
    PROVE  AsksToKeep(m_read_buf) <=> m_linger
  <1>1. CASE Verdict(m_read_buf) = "bad" /\ m_linger = FALSE
    BY <1>1 DEF AsksToKeep
  <1>2. ASSUME Verdict(m_read_buf) = "get", NEW h, HeadEnds(m_read_buf, h, m_content_length, m_linger)
        PROVE  AsksToKeep(m_read_buf) <=> m_linger
    BY <1>2, HeadIs DEF AsksToKeep, HeadEnds
  <1> QED
    BY <1>1, <1>2, TurnJudges

\* Every step keeps it.
LEMMA SentStep ==
    ASSUME JudgeInv, JudgeInv', ExchangeInv, ExchangeInv', SentInv, [ExchangeNext]_allVars
    PROVE  SentInv'
  <1>1. m_linger \in BOOLEAN /\ code' \in Codes
    BY DEF JudgeInv, ParserInv, TypeOK
  <1>2. ASSUME UNCHANGED exchangeVars, phase' = "answer" => phase = "answer"
        PROVE  SentInv'
    BY <1>2 DEF SentInv, Pointing, Matching, Response, Says, m_write_idx, exchangeVars, response, file
  <1>3. CASE ParserOnly
    <2>1. UNCHANGED exchangeVars /\ (phase' = "answer" => phase = "answer")
      BY <1>3 DEF ParserOnly, PeerSends, Read, LeaveLoop, Header, Turn
    <2> QED
      BY <1>2, <2>1
  <1>4. CASE Answering
    <2>1. phase = "work" /\ (RequestLine \/ BlankLine \/ Content)
      BY <1>4 DEF Answering, RequestLine, BlankLine, Content, Turn
    <2>2. CASE Verdictless /\ UNCHANGED exchangeVars
      BY <1>2, <2>2 DEF Verdictless
    <2>3. CASE ~Verdictless /\ code' \in Streams /\ UNCHANGED exchangeVars
      <3>2. phase' # "answer"
        BY <1>4, <2>1, <2>3, TurnReplies DEF Reply
      <3> QED
        BY <1>2, <2>3, <3>2
    <2>4. CASE ~Verdictless /\ \E n \in BodySizes(code') : Prepare(code', n)
      <3>1. AsksToKeep(m_read_buf) <=> m_linger
        BY <1>4, <2>4, AskedIsFound
      <3> QED
        BY <1>1, <2>1, <2>4, <3>1, PrepareSays, SizesAreNat
    <2> QED
      BY <1>4, <2>2, <2>3, <2>4 DEF Answering, Respond
  <1>5. ASSUME NEW n \in 1..Len(Gathered), WriteSome(n) PROVE SentInv'
    BY <1>5, WriteSays
  <1>6. CASE WriteFails
    BY <1>6 DEF WriteFails, SentInv, Says
  <1>7. CASE UNCHANGED allVars
    BY <1>2, <1>7 DEF allVars, vars
  <1> QED
    BY <1>3, <1>4, <1>5, <1>6, <1>7 DEF ExchangeNext, Writing

\* The client gets the header and the body of every response whole and in
\* order, however writev() cuts them and for every size of files, bodies and
\* buffers, with the keep-alive that this request asked for; all of it before
\* the next request of a kept connection is read.
THEOREM ResponsesArriveWhole == ExchangeSpec => []ResponsesAreWhole
  <1>1. ExchangeInit => SentInv
    BY DEF ExchangeInit, SentInv, Init
  <1>2. ExchangeSpec => []JudgeInv
    BY ExchangeJudges, PTL
  <1>3. ExchangeSpec => []ExchangeInv
    <2>1. ExchangeSpec => []TypeOK
      BY ExchangeJudges, PTL
    <2> QED
      BY <2>1, InitExchange, ExchangeStep, PTL DEF ExchangeSpec
  <1>4. JudgeInv /\ JudgeInv' /\ ExchangeInv /\ ExchangeInv' /\ SentInv /\ [ExchangeNext]_allVars => SentInv'
    BY SentStep
  <1>5. ExchangeInv /\ SentInv => ResponsesAreWhole
    <2> SUFFICES ASSUME ExchangeInv, SentInv PROVE ResponsesAreWhole
      OBVIOUS
    <2>1. DOMAIN wire = 1..Len(wire)
      BY LenProperties DEF ExchangeInv, ExchangeTypes
    <2> QED
      BY <2>1 DEF ExchangeInv, SentInv, ResponsesAreWhole, Says
  <1> QED
    BY <1>1, <1>2, <1>3, <1>4, <1>5, PTL DEF ExchangeSpec

-----------------------------------------------------------------------------
(* The refinement.  When a response is under way, what m_linger holds is   *)
(* what its request asked for, and something of it is still owed.          *)

KeepInv == phase = "answer" => (AsksToKeep(m_read_buf) <=> m_linger)

LEMMA KeepStep ==
    ASSUME JudgeInv, KeepInv, [ExchangeNext]_allVars
    PROVE  KeepInv'
  <1>1. CASE phase = "answer" /\ phase' = "answer"
    <2>1. UNCHANGED <<m_read_buf, m_linger>>
      BY <1>1 DEF ExchangeNext, ParserOnly, PeerSends, Read, LeaveLoop, Header, Turn, Answering,
         RequestLine, BlankLine, Content, Writing, WriteSome, Finish, WriteFails, vars, parser, allVars
    <2> QED
      BY <1>1, <2>1 DEF KeepInv
  <1>2. CASE phase # "answer" /\ phase' = "answer"
    <2>1. Answering /\ phase = "work"
      BY <1>2 DEF ExchangeNext, ParserOnly, PeerSends, Read, LeaveLoop, Header, Turn, Answering,
         RequestLine, BlankLine, Content, Writing, WriteSome, WriteFails, vars, allVars
    <2>2. AsksToKeep(m_read_buf) <=> m_linger
      BY <1>2, <2>1, AskedIsFound DEF Verdictless
    <2>3. m_read_buf' = m_read_buf /\ m_linger' = m_linger
      BY <2>1, <1>2 DEF Answering, RequestLine, BlankLine, Content, Turn
    <2> QED
      BY <2>2, <2>3 DEF KeepInv
  <1> QED
    BY <1>1, <1>2 DEF KeepInv

RefineInv == JudgeInv /\ TypeOK /\ ExchangeInv /\ KeepInv

\* What a turn replies is one of the replies to the request in the buffer.
LEMMA RepliesToRequest ==
    ASSUME RefineInv, Answering, ~Verdictless
    PROVE  code' \in Replies(m_read_buf)
  <1> DEFINE b == m_read_buf
  <1>1. CASE Verdict(b) = "bad" /\ code' = "BAD_REQUEST"
    BY <1>1 DEF Replies
  <1>2. ASSUME Verdict(b) = "get", NEW h, HeadEnds(b, h, m_content_length, m_linger),
               GetRequest(IF m_content_length < 0 THEN Kinds ELSE {Requested}),
               UrlComesFirst, m_check_state # "REQUESTLINE"
        PROVE  code' \in Replies(b)
    <2>1. LengthIn(b, Min(Heads(b))) = m_content_length
      BY <1>2, HeadIs DEF HeadEnds
    <2>2. Head(b) = b[1]
      BY <1>2, HeadTailProperties DEF RefineInv, TypeOK, UrlComesFirst
    <2>3. (IF m_content_length < 0 THEN Kinds ELSE {Requested}) = KindsNamed(b)
      BY <2>1, <2>2 DEF KindsNamed, Requested
    <2>4. \E u \in KindsNamed(b) : code' \in DoRequest(u)
      BY <1>2, <2>3 DEF GetRequest, Reply
    <2> QED
      BY <1>2, <2>4 DEF Replies
  <1> QED
    BY <1>1, <1>2, TurnJudges DEF RefineInv

\* A read() is a piece of the request.
LEMMA ReadReceives ==
    ASSUME RefineInv, Read
    PROVE  \E n \in 1..(Len(input) - taken) :
              taken' = taken + n /\ m_read_buf' = m_read_buf \o SubSeq(input, taken + 1, taken + n)
  <1> DEFINE n == Min({sent - taken, Room})
  <1>1. /\ Len(input) \in Nat /\ taken \in Nat /\ sent \in Nat /\ Room \in Nat /\ Room > 0
        /\ taken < sent /\ sent <= Len(input) /\ sent - taken \in Nat
    <2>1. Len(input) \in Nat
      BY TextAssumption, LenProperties DEF RefineInv, TypeOK
    <2> QED
      BY <2>1, Indices, ParserAssumption DEF RefineInv, TypeOK, Read, Room
  <1>2. n \in {sent - taken, Room} /\ n \in Nat /\ n <= sent - taken
    <2>1. {sent - taken, Room} \in SUBSET Nat /\ {sent - taken, Room} # {}
      BY <1>1
    <2> QED
      BY <1>1, <2>1, MinIsIn
  <1>3. Recv = SubSeq(input, taken + 1, taken + n)
    BY DEF Recv
  <1> HIDE DEF n
  <1>4. \A i \in (taken + 1)..(taken + n) : input[i] \in Range(input)
    BY <1>1, <1>2, TextAssumption, LenProperties DEF RefineInv, TypeOK, Range
  <1>5. Len(Recv) = n
    <2> DEFINE a == taken + 1
               b == taken + n
               E == Range(input)
    <2>1. a \in Int /\ b \in Int /\ IF a <= b THEN b - a + 1 = n ELSE n = 0
      BY <1>1, <1>2
    <2>2. Recv = SubSeq(input, a, b) /\ \A i \in a .. b : input[i] \in E
      BY <1>3, <1>4
    <2> HIDE DEF a, b, E
    <2>3. Len(Recv) = IF a <= b THEN b - a + 1 ELSE 0
      BY <2>1, <2>2, SubSeqProperties
    <2> QED
      BY <2>1, <2>3
  <1>6. taken' = taken + n /\ m_read_buf' = m_read_buf \o SubSeq(input, taken + 1, taken + n)
    BY <1>3, <1>5 DEF Read
  <1>7. n > 0
    BY <1>1, <1>2
  <1>8. n \in 1..(Len(input) - taken)
    BY <1>1, <1>2, <1>7
  <1> QED
    BY <1>6, <1>8

\* A turn that ends the loop answers, starts a stream, or refuses; one that writes
\* outside of the buffer has a body without an end; any other is not seen.
LEMMA AnsweringMaps ==
    ASSUME RefineInv, RefineInv', Answering
    PROVE  [Promise!Next]_(Promise!vars)
  <1> DEFINE b == m_read_buf
  <1>1. /\ phase = "work" /\ UNCHANGED <<input, taken, m_read_buf>>
    BY DEF Answering, RequestLine, BlankLine, Content, Turn
  <1>2. CASE phase' = "work"
    BY <1>1, <1>2 DEF Promise!vars
  <1>3. CASE phase' = "undefined"
    <2>1. Content
      BY <1>1, <1>3 DEF Answering, RequestLine, BlankLine, Content, GetRequest, Reply
    <2>2. ParserInv /\ ParserInv' /\ ScanInv
      BY DEF RefineInv, JudgeInv
    <2>3. ~LengthIsSane
      <3>1. ~LengthIsSane'
        BY <1>3, <2>1, <2>2, ContentStaysInBuffer DEF TerminatorInBuffer
      <3> QED
        BY <1>1, <2>1, <3>1 DEF LengthIsSane, Content, m_read_idx
    <2>4. \E h : HeadEnds(b, h, m_content_length, m_linger)
      BY <2>1, <2>2, BodyFound
    <2>5. Heads(b) # {} /\ LengthIn(b, Min(Heads(b))) = m_content_length
      BY <2>4, HeadIs DEF HeadEnds
    <2>6. m_content_length \in Int /\ Len(b) \in Nat /\ MaxInt \in Nat
      BY Indices, TextAssumption DEF RefineInv, TypeOK, IntValues, m_read_idx
    <2>7. BodyHasNoEnd(b)
      BY <2>3, <2>5, <2>6 DEF LengthIsSane, BodyHasNoEnd, m_read_idx
    <2> QED
      BY <1>1, <1>3, <2>7 DEF Promise!vars, Promise!Next, Promise!Undefined
  <1>4. CASE ~Verdictless
    <2>1. code' \in Replies(b) /\ Reply(code')
      BY <1>1, <1>4, RepliesToRequest, TurnReplies
    <2>2. CASE phase' = "stream"
      BY <1>1, <2>1, <2>2 DEF Reply, Promise!vars, Promise!Next, Promise!Stream
    <2>3. CASE phase' = "answer"
      <3>1. code' \notin Streams
        BY <2>1, <2>3 DEF Reply
      <3>2. Len(due') - Len(wire') \in Nat \ {0}
        BY <2>3 DEF RefineInv, ExchangeInv, ExchangeTypes, Sending
      <3> QED
        BY <1>1, <2>1, <2>3, <3>1, <3>2 DEF Promise!vars, Promise!Next, Promise!Answer
    <2>4. CASE phase' = "closed"
      BY <1>1, <2>1, <2>4 DEF Promise!vars, Promise!Next, Promise!Refuse
    <2> QED
      BY <2>1, <2>2, <2>3, <2>4 DEF Reply
  <1> QED
    BY <1>2, <1>3, <1>4 DEF Verdictless

\* A writev() sends a part of the reply, or completes it.
LEMMA WritingMaps ==
    ASSUME RefineInv, RefineInv', NEW n \in 1..Len(Gathered), WriteSome(n)
    PROVE  [Promise!Next]_(Promise!vars)
  <1>1. phase = "answer" /\ Sending /\ UNCHANGED <<input, taken, code>>
    BY DEF RefineInv, ExchangeInv, WriteSome, Finish, vars
  <1>2. CASE n < m_bytes_to_send /\ UNCHANGED <<vars, file, m_write_buf, m_iv_count>>
    <2>1. /\ phase' = "answer" /\ m_read_buf' = m_read_buf
          /\ m_bytes_to_send' = m_bytes_to_send - n
      BY <1>1, <1>2 DEF WriteSome, Finish, vars
    <2>2. Len(due') - Len(wire') = Len(due) - Len(wire) - n /\ Len(due') - Len(wire') > 0
      BY <1>1, <1>2, <2>1, LenProperties DEF RefineInv, ExchangeInv, ExchangeTypes, Sending
    <2>3. Len(due') - Len(wire') \in 1..(Len(due) - Len(wire) - 1)
      BY <1>1, <2>2, LenProperties DEF RefineInv, ExchangeInv, ExchangeTypes
    <2> QED
      BY <1>1, <2>1, <2>3 DEF Promise!vars, Promise!Next, Promise!Send
  <1>3. CASE Finish
    <2>1. AsksToKeep(m_read_buf) <=> m_linger
      BY <1>1 DEF RefineInv, KeepInv
    <2>2. CASE m_linger
      <3>1. phase' = "idle" /\ m_read_buf' = <<>>
        BY <1>3, <2>2 DEF Finish, Keep, Reset
      <3> QED
        BY <1>1, <2>1, <2>2, <3>1 DEF Promise!vars, Promise!Next, Promise!Complete
    <2>3. CASE ~m_linger
      <3>1. phase' = "closed" /\ m_read_buf' = m_read_buf
        BY <1>3, <2>3 DEF Finish, Keep
      <3> QED
        BY <1>1, <2>1, <2>3, <3>1 DEF Promise!vars, Promise!Next, Promise!Complete
    <2> QED
      BY <2>2, <2>3
  <1> QED
    BY <1>2, <1>3 DEF WriteSome

LEMMA ExchangeMaps ==
    ASSUME RefineInv, RefineInv', [ExchangeNext]_allVars
    PROVE  [Promise!Next]_(Promise!vars)
  <1>1. CASE PeerSends /\ UNCHANGED exchangeVars
    BY <1>1 DEF PeerSends, exchangeVars, Promise!vars
  <1>2. CASE Read /\ UNCHANGED exchangeVars
    <2>1. \E n \in 1..(Len(input) - taken) :
             taken' = taken + n /\ m_read_buf' = m_read_buf \o SubSeq(input, taken + 1, taken + n)
      BY <1>2, ReadReceives
    <2>2. phase = "idle" /\ phase' \in {"work", "closed"} /\ input' = input
      BY <1>2 DEF Read
    <2> QED
      BY <2>1, <2>2 DEF Promise!Next, Promise!Receive
  <1>3. CASE (LeaveLoop \/ Header) /\ UNCHANGED exchangeVars
    <2>1. /\ phase = "work" /\ phase' \in {"idle", "work"}
          /\ UNCHANGED <<input, taken, m_read_buf>>
      BY <1>3 DEF LeaveLoop, Header, Turn
    <2> QED
      BY <2>1 DEF Promise!vars
  <1>4. CASE Answering
    BY <1>4, AnsweringMaps
  <1>5. ASSUME NEW n \in 1..Len(Gathered), WriteSome(n) PROVE [Promise!Next]_(Promise!vars)
    BY <1>5, WritingMaps
  <1>6. CASE WriteFails
    BY <1>6 DEF WriteFails, Promise!Next, Promise!Fail
  <1>7. CASE UNCHANGED allVars
    BY <1>7 DEF allVars, vars, exchangeVars, Promise!vars
  <1> QED
    BY <1>1, <1>2, <1>3, <1>4, <1>5, <1>6, <1>7 DEF ExchangeNext, ParserOnly, Writing

\* Every reply is one to the request that the bytes since the last one hold as a
\* whole, however the reads cut it; and a connection is kept exactly when that
\* request asks for it, and only when its whole reply is out. For every size of
\* the buffers, files and bodies and every number in a Content-Length.
THEOREM ExchangeImplementsRequestReply == ExchangeSpec => ImplementsRequestReply
  <1>1. ExchangeInit => Promise!Init
    BY DEF ExchangeInit, Init, Promise!Init
  <1>2. ExchangeInit => KeepInv
    BY DEF ExchangeInit, Init, KeepInv
  <1>3. ExchangeSpec => [](JudgeInv /\ TypeOK)
    BY ExchangeJudges
  <1>4. ExchangeSpec => []KeepInv
    BY <1>2, <1>3, KeepStep, PTL DEF ExchangeSpec
  <1>5. ExchangeSpec => []ExchangeInv
    BY <1>3, InitExchange, ExchangeStep, PTL DEF ExchangeSpec
  <1>6. RefineInv <=> (JudgeInv /\ TypeOK) /\ ExchangeInv /\ KeepInv
    BY DEF RefineInv
  <1> QED
    BY <1>1, <1>3, <1>4, <1>5, <1>6, ExchangeMaps, PTL
    DEF ExchangeSpec, ImplementsRequestReply, Promise!Spec
=============================================================================
