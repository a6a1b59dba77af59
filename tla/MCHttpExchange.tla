--------------------------- MODULE MCHttpExchange ---------------------------
(* The requests of MCHttpParser, answered.                                  *)
EXTENDS MCHttpParser, HttpExchange
=============================================================================
