-------------------------- MODULE MCPeerDelivery --------------------------
(* Instances of PeerDelivery for TLC.                                      *)
EXTENDS PeerDelivery, TLC

FullSymmetry == Permutations(Accounts) \cup Permutations(Keys)
                \cup Permutations(Requests) \cup Permutations(Streams)
=============================================================================
