--------------------------- MODULE MCMessageStore ---------------------------
(* MessageStore for TLC: two channels and one asynchronous call at a time  *)
(* (MCMessageStore.cfg), or one channel and two calls that overlap         *)
(* (MCMessageStoreReplay, Chain and Detach).                               *)
EXTENDS MessageStore, TLC

CONSTANTS id1, id2, ch1, ch2, k1, k2

MCStart == {GENESIS_HASH, << <<id1, 1>> >>}
MCChannelSymmetry == Permutations(Channel)
=============================================================================
