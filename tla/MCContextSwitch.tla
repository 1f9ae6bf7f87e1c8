--------------------------- MODULE MCContextSwitch ---------------------------
(***************************************************************************)
(* Instances of ContextSwitch.                                             *)
(***************************************************************************)
EXTENDS ContextSwitch
==============================================================================
