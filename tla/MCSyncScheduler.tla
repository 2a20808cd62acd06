--------------------------- MODULE MCSyncScheduler --------------------------
(* Symmetry of SyncScheduler for TLC.                                      *)
EXTENDS SyncScheduler, TLC

TaskSymmetry == Permutations(Task)
=============================================================================
