---------------------------- MODULE MCCallbacks ----------------------------
(***************************************************************************)
(* An instance of the parts with callback lists for model checking.        *)
(***************************************************************************)
EXTENDS CallbackParts

CONSTANTS f, g

MCFunctions == {f, g}
=============================================================================
