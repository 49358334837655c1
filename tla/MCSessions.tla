------------------------------ MODULE MCSessions ------------------------------
(* Instances of Sessions for TLC.  Devices and peers are only compared.    *)
EXTENDS Sessions, TLC

Symmetry == Permutations(Devices) \cup Permutations(Peers)
===============================================================================
