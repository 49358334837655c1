CONSTANTS
    None = None
    Black = Black
    White = White
    BlackConns = {b1}
    WhiteConns = {w1}
    Timeout = 0
    OfflineAfter = 1
    StoreFails = FALSE
    JustCreated = FALSE
SPECIFICATION PresenceSpec
INVARIANTS OnlineIsDurable
