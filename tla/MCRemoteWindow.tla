--------------------------- MODULE MCRemoteWindow ---------------------------
(* RemoteWindow on small bounds. *)
EXTENDS RemoteWindow
=============================================================================
