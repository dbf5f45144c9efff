------------------------------ MODULE MCDV1394 -------------------------------
(* DV1394 on a short capture. *)
EXTENDS DV1394
=============================================================================
