-------------------------- MODULE MCExtensionProxy --------------------------
(* The extension for TLC: ExtensionProxy_overlap.cfg gives the bounds.     *)
EXTENDS ExtensionProxy
=============================================================================
