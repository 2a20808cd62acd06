----------------------------- MODULE MCSession -----------------------------
(***************************************************************************)
(* Instances of Session: two peers that reconnect, and the peers that a    *)
(* peer may be connected to at the same time.                              *)
(***************************************************************************)
EXTENDS Session

Pair == {<<1, 2>>}

\* 2 is Bob to 1 and Alice to 3.
Chain == {<<1, 2>>, <<2, 3>>}

\* 3 is Bob to both.
Fork == {<<1, 3>>, <<2, 3>>}
=============================================================================
