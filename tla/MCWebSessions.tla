---------------------------- MODULE MCWebSessions ----------------------------
(* Instances of WebSessions for TLC.                                       *)
EXTENDS WebSessions

FullSymmetry ==
  Permutations(Accounts) \cup Permutations(Pages) \cup Permutations(Calls)
=============================================================================
