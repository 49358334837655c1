CONSTANTS
    None = None
    Black = Black
    White = White
    BlackConns = {b1, b2}
    WhiteConns = {w1}
    Timeout = 0
    OfflineAfter = 1
    StoreFails = TRUE
    JustCreated = TRUE
SPECIFICATION PresenceSpec
INVARIANTS TypeOK OperationsExclusive TimerFollowsPlayers
SYMMETRY Symmetry
