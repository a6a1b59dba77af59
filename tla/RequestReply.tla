---------------------------- MODULE RequestReply ----------------------------
(***************************************************************************)
(* What a client may expect of a connection: it sends a request in any     *)
(* number of pieces and gets one whole reply to it, on a kept connection   *)
(* before the next request is looked at. Nothing is said of how requests   *)
(* are parsed or replies are put together. HttpExchange implements it.     *)
(***************************************************************************)
EXTENDS Integers, Sequences

CONSTANTS
    Inputs,             \* what a client may send: sequences of symbols
    Streams,            \* the replies that never end
    Replies(_),         \* what may be replied to some bytes: nothing as long as they hold no request
    AsksToKeep(_),      \* whether they ask for the connection to be kept
    BodyHasNoEnd(_)     \* whether the length they announce is one that the server cannot hold

VARIABLES
    input,              \* all that the client will send
    taken,              \* how many symbols of it the server has taken
    request,            \* those that came since the last reply
    stage,              \* "ready", "answer", "stream", "closed" or "undefined"
    reply,              \* what is being replied
    owed                \* how much of it the client has not got

vars == <<input, taken, request, stage, reply, owed>>

Init ==
    /\ input \in Inputs /\ taken = 0 /\ request = <<>>
    /\ stage = "ready" /\ reply = "NO_REQUEST" /\ owed = 0

\* A piece comes in; a connection whose request does not fit is closed.
Receive ==
    /\ stage = "ready" /\ stage' \in {"ready", "closed"}
    /\ \E n \in 1..(Len(input) - taken) :
          taken' = taken + n /\ request' = request \o SubSeq(input, taken + 1, taken + n)
    /\ UNCHANGED <<input, reply, owed>>

\* A request is answered, or gets a stream, or is refused with nothing.
Answer ==
    /\ stage = "ready" /\ stage' = "answer"
    /\ reply' \in Replies(request) \ Streams
    /\ owed' \in Nat \ {0}
    /\ UNCHANGED <<input, taken, request>>

Stream ==
    /\ stage = "ready" /\ stage' = "stream"
    /\ reply' \in Replies(request) \cap Streams
    /\ UNCHANGED <<input, taken, request, owed>>

Refuse ==
    /\ stage = "ready" /\ stage' = "closed"
    /\ Replies(request) # {}
    /\ UNCHANGED <<input, taken, request, reply, owed>>

Undefined ==
    /\ stage = "ready" /\ stage' = "undefined"
    /\ BodyHasNoEnd(request)
    /\ UNCHANGED <<input, taken, request, reply, owed>>

Send ==
    /\ stage = "answer"
    /\ owed' \in 1..(owed - 1)
    /\ UNCHANGED <<input, taken, request, stage, reply>>

\* With the last byte the connection is ready for another request, or closed.
Complete ==
    /\ stage = "answer"
    /\ owed' = 0 /\ reply' = "NO_REQUEST"
    /\ \/ AsksToKeep(request) /\ stage' = "ready" /\ request' = <<>>
       \/ ~AsksToKeep(request) /\ stage' = "closed" /\ UNCHANGED request
    /\ UNCHANGED <<input, taken>>

Fail ==
    /\ stage = "answer" /\ stage' = "closed"
    /\ owed' = 0 /\ reply' = "NO_REQUEST"
    /\ UNCHANGED <<input, taken, request>>

Next == Receive \/ Answer \/ Stream \/ Refuse \/ Undefined \/ Send \/ Complete \/ Fail

Spec == Init /\ [][Next]_vars
=============================================================================
