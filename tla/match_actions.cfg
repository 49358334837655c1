SPECIFICATION Spec
CONSTANTS
    None = None
    Users = {a, b}
    Matches = {m1}
    Games = {"gomoku", "reversi", "chinese_checkers", "flight_chess", "rps"}
    ActionIds = {x, y, z}
    Payloads = {p, r}
    Credentials = {k1, k2, k3}
    MaxEvents = 4
    MaxFlightEvents = 2
    BoardCells = 2
    OfflineAfter = 3
    TicketLife = 1
    ResumeLife = 2
    MaxTime = 2
SYMMETRY Symmetry
INVARIANTS RoomForTheEnd RetryAnswered CredentialsScoped
PROPERTIES DeadCredentialsStayDead
CHECK_DEADLOCK FALSE
