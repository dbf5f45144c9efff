--------------------------- MODULE MCVideoManager ----------------------------
(* VideoManager on a ring of three buffers. *)
EXTENDS VideoManager
=============================================================================
