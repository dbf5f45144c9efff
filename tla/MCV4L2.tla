------------------------------- MODULE MCV4L2 --------------------------------
(* V4L2 with finite constants; the values are in the .cfg file. *)
EXTENDS V4L2
=============================================================================
