------------------------------- MODULE MCTeleop -------------------------------
(* The instance checked: the constants have their values in the .cfg. *)
EXTENDS Teleop
=============================================================================
