--------------------------- MODULE MCMatchService ---------------------------
(* Symmetry sets for checking MatchService with TLC.  Users, matches and   *)
(* opaque ids are only ever compared for equality.                         *)
EXTENDS MatchService, TLC

Symmetry ==
    Permutations(Users) \cup Permutations(Matches) \cup Permutations(ActionIds)
      \cup Permutations(Payloads) \cup Permutations(Credentials)
=============================================================================
