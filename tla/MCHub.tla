-------------------------------- MODULE MCHub --------------------------------
(* Instances of Hub for TLC. *)
EXTENDS Hub, TLC

ConnSymmetry == Permutations(Conns)
==============================================================================
