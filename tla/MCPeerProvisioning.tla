------------------------ MODULE MCPeerProvisioning ------------------------
(* Instances of PeerProvisioning for TLC.                                  *)
EXTENDS PeerProvisioning, TLC

CONSTANTS a1, a2

(* Plans: two devices for everybody (premium, scaled down from five), or   *)
(* one account with a free plan's one device and one with two.             *)
TwoDevices == [a \in Accounts |-> 2]
MixedPlans == (a1 :> 1) @@ (a2 :> 2)

RequestSymmetry == Permutations(Creates) \cup Permutations(Keys)
FullSymmetry == RequestSymmetry \cup Permutations(Accounts)
=============================================================================
