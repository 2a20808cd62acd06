---------------------------- MODULE MCNegentropy ----------------------------
(* Values of the constants of Negentropy for TLC.                          *)
EXTENDS Negentropy

\* The first message moved behind the others by one of the peers.
MovedKeys == [i \in Id |-> IF i = 1 THEN {1, End - 1} ELSE {i}]
=============================================================================
