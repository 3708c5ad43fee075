---------------------- MODULE MCJointStateInterpolator ----------------------
(* Values for the constants of JointStateInterpolator that a .cfg cannot write. *)
EXTENDS JointStateInterpolator, TLC

ClientSymmetry == Permutations(Clients)
=============================================================================
