------------------------------- MODULE AnnexB -------------------------------
(***************************************************************************)
(* The scans that cut an Annex-B byte stream into NAL units: next_nal() of *)
(* H264Parser (src/h264_parser.cpp, a whole file) and parse_pending_nal()  *)
(* of V4L2H264Source (src/h264_source.cpp, one buffer of the encoder).     *)
(* Positions count from 1.  Both functions call themselves to step over an *)
(* empty unit; here that is a turn without a NAL, and the caller goes on.  *)
(***************************************************************************)
EXTENDS Integers, Sequences

\* The start code at position i: 00 00 01, else 00 00 00 01, else none.
CodeLength(b, i) ==
    IF i + 2 <= Len(b) /\ b[i] = 0 /\ b[i + 1] = 0 /\ b[i + 2] = 1 THEN 3
    ELSE IF i + 3 <= Len(b) /\ b[i] = 0 /\ b[i + 1] = 0 /\ b[i + 2] = 0 /\ b[i + 3] = 1 THEN 4
    ELSE 0

\* find_start_code(): the first code at or behind a position, behind the end if none.
NextCode(b, from) ==
    CHOOSE i \in from .. Len(b) + 1 :
        /\ i = Len(b) + 1 \/ CodeLength(b, i) # 0
        /\ \A j \in from .. i - 1 : CodeLength(b, j) = 0

\* The unit behind that code: where it begins, and where it ends without the
\* zeros in front of the next code (trailing_zero_8bits).
NalStart(b, pos) == NextCode(b, pos) + CodeLength(b, NextCode(b, pos))

\* Wrong variant: the zeros stay with the unit.
EndWithZeros(b, from) == NextCode(b, from) - 1
TrimmedEnd(b, from) ==
    CHOOSE k \in from - 1 .. NextCode(b, from) - 1 :
        /\ k = from - 1 \/ b[k] # 0
        /\ \A j \in k + 1 .. NextCode(b, from) - 1 : b[j] = 0

\* What a turn leaves: the NAL (<<>> for none), the buffer and the position.
Turn(nal, buffer, pos) == [nal |-> nal, buffer |-> buffer, pos |-> pos]

\* H264Parser::next_nal(): the position stops at the zeros it has cut off.
FileTurn(b, pos) ==
    IF NextCode(b, pos) > Len(b) THEN Turn(<<>>, b, Len(b) + 1)
    ELSE LET start == NalStart(b, pos)
             end == TrimmedEnd(b, start)
         IN  Turn(SubSeq(b, start, end), b, end + 1)

\* parse_pending_nal(): a buffer without any code is one NAL; behind the last
\* unit the buffer is let go.
PendingTurn(b, pos) ==
    IF NextCode(b, pos) > Len(b) THEN Turn(IF pos = 1 THEN b ELSE <<>>, <<>>, 1)
    ELSE LET start == NalStart(b, pos)
             end == TrimmedEnd(b, start)
             next == NextCode(b, start)
         IN  IF end >= start /\ next > Len(b) THEN Turn(SubSeq(b, start, end), <<>>, 1)
             ELSE Turn(SubSeq(b, start, end), b, next)
=============================================================================
