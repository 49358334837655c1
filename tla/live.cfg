CONSTANTS
    None = None
    Nobody = Nobody
    Black = Black
    White = White
    BlackConns = {b1}
    WhiteConns = {w1}
    Timeout = 0
    OfflineAfter = 1
    StoreFails = FALSE
    JustCreated = FALSE
    Devices = {d1, d2}
    First = d1
    MaxDraws = 1
    MaxCodes = 2
    MaxTrouble = 1
    MaxFailures = 3
    MaxRevision = 2
    MaxActions = 3
    InboxCap = 3
SPECIFICATION MCSpec
INVARIANTS PeersSettle Driven 
PROPERTIES ConnectReturns LeftMatchesEnd NoFalseAlarm Settles TransfersSettle
\* A match is over, a client is closed.
CHECK_DEADLOCK FALSE
