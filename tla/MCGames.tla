------------------------------- MODULE MCGames ------------------------------
(* The games on small boards: Gomoku on nine cells and a tenth that makes a  *)
(* row of four; Chinese checkers on the star with camps of three cells, in a *)
(* band of it that a piece crosses in a few hops.  Battleship has a service  *)
(* of its own, which shares nothing with them: a behaviour plays either.     *)
EXTENDS Games, Battleship, TLC

Ship(id, cell, vertical) == [id |-> id, cell |-> cell, vertical |-> vertical]

\* Two fleets, a draft, and a ship that runs over the edge of its row.
MCFleets == {{Ship(1, 0, FALSE), Ship(2, 2, FALSE)}, {Ship(1, 1, TRUE), Ship(2, 0, FALSE)},
             {Ship(2, 2, FALSE)}, {Ship(1, 1, FALSE)}}

MCLength == <<2, 1>>
MCMaxRevision == [m \in Matches |-> IF m \in Chosen THEN 7 ELSE 0]

MCReach == [c \in {"black", "white"} |->
              IF c = "white" THEN (4 .. 8) \X (6 .. 8)
              ELSE ((5 .. 8) \X (0 .. 8)) \cup {<<2, 2>>}]

MCCells == ((0 .. 2) \X (0 .. 2)) \cup {<<3, 0>>}

\* Battleship treats its players alike.
FleetPlayers == Permutations(Players)

Registered == game # "battleship"

MCInit == /\ BattleInit
          /\ \/ Init
             \/ game = "battleship" /\ snapshot = None /\ told = None

MCNext == \/ Registered /\ Next /\ UNCHANGED battleVars
          \/ ~Registered /\ BattleNext /\ UNCHANGED vars

MCSpec == MCInit /\ [][MCNext]_<<vars, battleVars>>
=============================================================================
