--------------------------- MODULE MCFlvBroadcast ---------------------------
(***************************************************************************)
(* FlvBroadcast on a small instance.  The more clients there are, the      *)
(* shorter the feed: what several clients add are their interleavings.     *)
(***************************************************************************)
EXTENDS FlvBroadcast, TLC

Limit(p, o, plain) == [pictures |-> p, openings |-> o, plain |-> plain]
LimitsByClients ==
    0 :> Limit(5, 2, FALSE) @@ 1 :> Limit(3, 2, TRUE) @@ 2 :> Limit(2, 1, TRUE)
ClientSymmetry == Permutations(Clients)
=============================================================================
