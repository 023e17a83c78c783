----------------------------- MODULE MCTierSync -----------------------------
(* Tier synchronisation for TLC: TierSync_events.cfg gives the bounds.     *)
EXTENDS TierSync
=============================================================================
