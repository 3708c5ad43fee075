----------------------------- MODULE MCZmqServer -----------------------------
(* The instance checked: the constants of ZmqServer have their values in the .cfg. *)
EXTENDS ZmqServer
=============================================================================
