-------------------------- MODULE MCControllerBase --------------------------
(* The instances checked: the constants have their values in the .cfg files. *)
EXTENDS ControllerBase
=============================================================================
