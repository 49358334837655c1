SPECIFICATION FairSpec
CONSTANTS
    None = None
    Users = {a, b, c}
    Matches = {m1, m2}
    Games = {"rps"}
    ActionIds = {x}
    Payloads = {p}
    Credentials = {}
    MaxEvents = 4
    MaxFlightEvents = 2
    BoardCells = 2
    OfflineAfter = 1
    TicketLife = 1
    ResumeLife = 2
    MaxTime = 2
INVARIANTS TypeOK SlotsMatchLifecycle AlwaysReadable
PROPERTIES EndedMatchesFrozen AbandonJustified OfflineMatchEnds
CHECK_DEADLOCK FALSE
