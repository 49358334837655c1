CONSTANTS
    None = None
    Black = Black
    White = White
    BlackConns = {b1}
    WhiteConns = {w1}
    Timeout = 0
    OfflineAfter = 1
    StoreFails = FALSE
    JustCreated = TRUE
SPECIFICATION PresenceFairSpec
PROPERTIES LeftMatchEnds
