SPECIFICATION Spec
CONSTANTS
  Users = {u1, u2}
  Conns = {c1, c2}
  None = None
  MaxRevision = 2
  QueueCap = 2
  PendingCap = 1
  Roaming = {u1}
  NoticeLimit = 0
  RevokeLimit = 0
  Outsiders = {"worker"}
  ClientSends = {"action", "repeat", "request"}
  Chatty = {u1}
  Stoppable = FALSE
  Crashable = TRUE
SYMMETRY ConnSymmetry
INVARIANTS TypeOK FeedUnbroken NothingHeldBack
PROPERTIES FeedSpec
CHECK_DEADLOCK FALSE
