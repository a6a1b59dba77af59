---------------------------- MODULE MCThreadPool ----------------------------
(* Instances of ThreadPool.                                                 *)
EXTENDS ThreadPool
=============================================================================
