---------------------------- MODULE MCHttpParser ----------------------------
EXTENDS HttpParser

UrlsOfLines == [get_page |-> "page", get_mjpeg |-> "mjpeg", get_flv |-> "flv", get_api |-> "api"]
\* Texts that are no number, that wrap to a small one, that put the NUL of the
\* body on the request line, on a header and outside of the buffer, and one with
\* which the sum overflows.
LengthsOfLines == [len1 |-> 1, len2 |-> 2, text |-> 0, wraps |-> 2 * (MaxInt + 1) + 2,
                   minus2 |-> -2, minus8 |-> -8, minus9 |-> -9, largest |-> MaxInt]

CRLF == <<"CR", "LF">>
Lines(hs) == FoldLeft(LAMBDA acc, h : acc \o <<h>> \o CRLF, <<>>, hs)
Request(line, hs, body) == <<line>> \o CRLF \o Lines(hs) \o CRLF \o body

SomeHeaders == {<<>>, <<"keep">>, <<"len1">>, <<"host", "len2">>,
                <<"keep", "len2">>, <<"len2", "len1">>}
SomeBodies == {<<>>, <<"x", "x">>, <<"CR", "LF">>, <<"LF", "x">>}
Bodied == {Request(l, hs, b) : l \in DOMAIN UrlsOfLines \cup {"junk"},
                               hs \in SomeHeaders, b \in SomeBodies}
OddLengths == {Request("get_page", <<l>>, <<"x", "x">>) :
                  l \in {"text", "wraps", "minus2", "minus8", "minus9", "largest"}}
\* A second request, pipelined or sent later, on a connection that is kept.
Kept == {Request("get_page", <<"keep">>, <<>>) \o Request(l, hs, <<"x">>) :
            l \in {"get_page", "junk"}, hs \in {<<>>, <<"len1">>}}
        \cup {Request("get_page", <<"keep", "len1">>, <<"x">>) \o Request("get_api", <<>>, <<>>)}
\* Every order of four symbols, line ends included.
Garbled == UNION {[1..n -> {"get_page", "keep", "CR", "LF"}] : n \in 1..5}

AllInputs == Bodied \cup OddLengths \cup Kept \cup Garbled
BodiedInputs == {Request("get_page", <<"len2">>, <<"x", "x">>)}
=============================================================================
