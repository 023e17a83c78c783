-------------------------- MODULE MCSubscriptions --------------------------
(* Instances of Subscriptions for TLC.                                     *)
EXTENDS Subscriptions, TLC

RequestSymmetry ==
  Permutations(Checkouts) \cup Permutations(Hooks) \cup Permutations(Invoices)
=============================================================================
