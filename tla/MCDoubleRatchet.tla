-------------------------- MODULE MCDoubleRatchet --------------------------
(* DoubleRatchet for TLC: one session, calls one at a time                 *)
(* (MCDoubleRatchet.cfg) or two encryptions that overlap                   *)
(* (MCDoubleRatchetOverlap.cfg).                                           *)
EXTENDS DoubleRatchet

CONSTANTS c1, c2

\* Bob sends enough to fill and prune what Alice keeps of skipped keys.
Sends == [p \in {Alice, Bob} |-> IF p = Bob THEN 5 ELSE 3]
=============================================================================
