SPECIFICATION MCSpec
CONSTANTS
    BlackPlayer = BlackPlayer
    WhitePlayer = WhitePlayer
    None = None
    GomokuCells <- MCCells
    GomokuLine = 3
    ReversiSize = 4
    CampDepth = 2
    PathLimit = 3
    CampReach <- MCReach
    PieceCount = 1
    CaptureLimit = 1
    RoundLimit = 3
    Players = {u1, u2}
    Nil = Nil
    Matches = {m1, m2}
    Chosen = {m1}
    Side = 2
    Ships = {1, 2}
    Length <- MCLength
    Fleets <- MCFleets
    MaxRevision <- MCMaxRevision
SYMMETRY FleetPlayers
INVARIANTS
    
    GamesOutcomesFit
    RevealedTogether
    FleetTurnsKept
PROPERTIES
    MovesAreFair
    FleetHistoryStands
\* A match ends.
CHECK_DEADLOCK FALSE
