SPECIFICATION FairSpec
CONSTANTS
  Users = {u1, u2}
  Conns = {c1, c2}
  None = None
  MaxRevision = 2
  QueueCap = 2
  PendingCap = 1
  Roaming = {}
  NoticeLimit = 0
  RevokeLimit = 0
  Outsiders = {"cancel"}
  ClientSends = {"action"}
  Chatty = {u1}
  Stoppable = FALSE
  Crashable = FALSE
PROPERTIES EveryoneCatchesUp
CHECK_DEADLOCK FALSE
