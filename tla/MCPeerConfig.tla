---------------------------- MODULE MCPeerConfig ----------------------------
(* PeerConfig on a small instance. *)
EXTENDS PeerConfig, TLC

\* Every peer is configured with the same locator.
OneTarget == [p \in Peer |-> "host"]

\* The handlers are alike.
Alike == Permutations(Handler)
==============================================================================
