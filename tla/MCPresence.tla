----------------------------- MODULE MCPresence -----------------------------
(* Model checking of Presence.                                             *)
EXTENDS Presence, TLC

(* Connections of the same player are interchangeable.                     *)
Symmetry == Permutations(BlackConns) \cup Permutations(WhiteConns)
=============================================================================
