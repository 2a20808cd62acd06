-------------------------- MODULE MCPeerTransport --------------------------
(***************************************************************************)
(* Instances of PeerTransport: two peers, as many connections as cross in  *)
(* an attempt and the next one, the client's one retry.                    *)
(***************************************************************************)
EXTENDS PeerTransport
=============================================================================
