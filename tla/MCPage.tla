------------------------------- MODULE MCPage -------------------------------
(***************************************************************************)
(* Page with two presses.                                                  *)
(***************************************************************************)
EXTENDS Page

MCNumbers == {"7", "9"}
=============================================================================
