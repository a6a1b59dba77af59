---------------------------- MODULE MCStreamConn ----------------------------
(***************************************************************************)
(* StreamConn on a small instance.  The /mjpeg client may send a further   *)
(* empty line and so start its stream again; the /live.flv client may send *)
(* bytes that are no complete line.                                        *)
(***************************************************************************)
EXTENDS StreamConn

ExtraByKind == [mjpeg |-> {"blank"}, flv |-> {"partial"}]
=============================================================================
