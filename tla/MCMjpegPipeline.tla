--------------------------- MODULE MCMjpegPipeline ---------------------------
(* Instances of MjpegPipeline: images of five bytes, buffers of odd sizes.  *)
EXTENDS MjpegPipeline
=============================================================================
