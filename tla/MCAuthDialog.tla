---------------------------- MODULE MCAuthDialog ----------------------------
(* The sign-in dialog for TLC: AuthDialog_page.cfg gives the bound.        *)
EXTENDS AuthDialog
=============================================================================
