---------------------------- MODULE MCFlvSource ----------------------------
(* Instances of FlvSource.                                                  *)
EXTENDS FlvSource
=============================================================================
