--------------------------- MODULE MCOfflineQueue ---------------------------
(* OfflineQueue for TLC.  There is no symmetry set: liveness is checked. *)
EXTENDS OfflineQueue
=============================================================================
