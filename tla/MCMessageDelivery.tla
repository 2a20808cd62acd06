------------------------- MODULE MCMessageDelivery -------------------------
(***************************************************************************)
(* Instances of MessageDelivery for TLC: one or two messages from a sender *)
(* s to recipients r1 and, where relays and group status matter, r2.       *)
(***************************************************************************)
EXTENDS MessageDelivery

\* Messages and recipients are interchangeable.
Symmetry == Permutations(Msg) \cup Permutations(Recipient)
=============================================================================
