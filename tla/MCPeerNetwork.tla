---------------------------- MODULE MCPeerNetwork ----------------------------
(* PeerNetwork with two peers, one of which publishes two addresses. *)
EXTENDS PeerNetwork, TLC

CONSTANTS p1, a1, a2

MCOwner == (a1 :> p1) @@ (a2 :> p1)
=============================================================================
