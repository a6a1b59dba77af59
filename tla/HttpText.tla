------------------------------ MODULE HttpText ------------------------------
(***************************************************************************)
(* What the bytes of a read buffer say when they are read as a whole.      *)
(* HttpParser comes to it line by line and read by read; RequestReply says *)
(* what a client may expect in terms of it.                                *)
(*                                                                         *)
(* The text of a line is one symbol: only what parse_request_line() and    *)
(* parse_headers() make of it is told apart. "CR" and "LF" are symbols of  *)
(* their own, and so are the bytes of a body.                              *)
(***************************************************************************)
EXTENDS Integers, FiniteSets, FiniteSetsExt, SequencesExt

CONSTANTS
    Inputs,             \* what a client may send: sequences of symbols
    Url,                \* the symbols of well-formed request lines -> kind of URL
    ContentLength,      \* the symbols "Content-Length: text" -> what atol(text) returns
    MaxInt              \* the largest int

Kinds == {"page", "mjpeg", "flv", "api"}

ASSUME TextAssumption ==
    /\ \A i \in Inputs : i \in Seq(STRING)
    /\ \A u \in DOMAIN Url : Url[u] \in Kinds
    /\ \A l \in DOMAIN ContentLength : ContentLength[l] \in Int
    /\ MaxInt \in Nat

\* The conversion to an int: modulo 2 * (MaxInt + 1).
IntValues == -(MaxInt + 1) .. MaxInt
ToInt(n) == ((n + MaxInt + 1) % (2 * (MaxInt + 1))) - (MaxInt + 1)

-----------------------------------------------------------------------------
(* A request whose line ends are broken is never one, as LINE_BAD is never
   answered in the code. *)

Break(b, i) == i \in 1..(Len(b) - 1) /\ b[i] = "CR" /\ b[i + 1] = "LF"
\* A CR or LF that is half of no line end (a last CR may still become one).
Stray(b, i) ==
    \/ b[i] = "CR" /\ i < Len(b) /\ b[i + 1] # "LF"
    \/ b[i] = "LF" /\ (i = 1 \/ b[i - 1] # "CR")
CleanUpTo(b, n) == \A i \in 1..n : ~Stray(b, i)

\* Where a first line ends, and where heads end (the first of them counts).
FirstLine(b) == {i \in 1..Len(b) : Break(b, i) /\ CleanUpTo(b, i) /\ \A j \in 1..(i - 1) : ~Break(b, j)}
Heads(b) == {i \in 1..Len(b) : Break(b, i) /\ Break(b, i - 2) /\ CleanUpTo(b, i)}

\* The header lines in front of the end of the head.
LineStarts(b, head) == {i \in 3..(head - 1) : Break(b, i - 2)}
LengthLines(b, head) == {i \in LineStarts(b, head) : b[i] \in DOMAIN ContentLength}
LengthIn(b, head) ==
    IF LengthLines(b, head) = {} THEN 0 ELSE ToInt(ContentLength[b[Max(LengthLines(b, head))]])
Keeps(b, head) == \E i \in LineStarts(b, head) : b[i] = "keep" /\ Break(b, i + 1)

GoodFirst(b) == \E i \in FirstLine(b) : i = 2 /\ b[1] \in DOMAIN Url
Verdict(b) ==
    IF FirstLine(b) # {} /\ ~GoodFirst(b) THEN "bad"
    ELSE IF Heads(b) = {} THEN "none"
    ELSE LET h == Min(Heads(b)) IN
         IF Len(b) >= h + 1 + LengthIn(b, h) THEN "get" ELSE "none"

\* The head is in, the body is not: what a read() that ends here cuts.
EndsInBody(b) ==
    \E h \in Heads(b) : h = Min(Heads(b)) /\ Len(b) < h + 1 + LengthIn(b, h)

-----------------------------------------------------------------------------
(* do_request(): what the URL names, and what the system says of it. *)

Streams == {"MJPEG_REQUEST", "FLV_REQUEST"}
DoRequest(url) ==
    CASE url = "page"  -> {"FILE_REQUEST", "NO_RESOURCE", "FORBIDDEN_REQUEST",
                           "BAD_REQUEST", "INTERNAL_ERROR"}
      [] url = "mjpeg" -> {"MJPEG_REQUEST", "SERVICE_UNAVAILABLE"}
      [] url = "flv"   -> {"FLV_REQUEST", "SERVICE_UNAVAILABLE"}
      [] url = "api"   -> {"API_REQUEST"}

(* What a request asks for. A negative length puts the NUL that ends a body in
   front of the body, where it may shorten the URL. *)

KindsNamed(b) == IF LengthIn(b, Min(Heads(b))) < 0 THEN Kinds ELSE {Url[b[1]]}
Replies(b) ==
    CASE Verdict(b) = "bad" -> {"BAD_REQUEST"}
      [] Verdict(b) = "get" -> UNION {DoRequest(u) : u \in KindsNamed(b)}
      [] OTHER -> {}
AsksToKeep(b) == Verdict(b) = "get" /\ Keeps(b, Min(Heads(b)))

\* No int says where the body of this request ends.
BodyHasNoEnd(b) ==
    Heads(b) # {} /\ LengthIn(b, Min(Heads(b))) \notin 0..(MaxInt - Len(b))
=============================================================================
