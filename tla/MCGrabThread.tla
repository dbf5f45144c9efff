---------------------------- MODULE MCGrabThread -----------------------------
(* GrabThread on small rings. *)
EXTENDS GrabThread
=============================================================================
