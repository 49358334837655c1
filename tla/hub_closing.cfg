SPECIFICATION FairSpec
CONSTANTS
  Users = {u1, u2}
  Conns = {c1, c2}
  None = None
  MaxRevision = 0
  QueueCap = 2
  PendingCap = 1
  Roaming = {}
  NoticeLimit = 1
  RevokeLimit = 1
  Outsiders = {}
  ClientSends = {"invalid"}
  Chatty = {u1}
  Stoppable = TRUE
  Crashable = FALSE
 
PROPERTIES ClosingEnds
CHECK_DEADLOCK FALSE
