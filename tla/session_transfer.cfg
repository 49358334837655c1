SPECIFICATION Spec
CONSTANTS
  Users = {u1}
  Devices = {d1, d2}
  Invites = {i1}
  Peers = {p1, p2}
  None = None
  Expecting = {other}
  Kinds = {"publish", "fleet", "launch", "create", "cancel"}
  AccessLife = 1
  CodeLife = 1
  ReceiptLife = 2
  Window = 1
  PeerLimit = 2
  GlobalLimit = 2
  MaxEpoch = 2
  MaxCodes = 2
  MaxTime = 4
SYMMETRY Symmetry
INVARIANTS TypeOK OneSession CodesKept GlobalCountsAdmitted
PROPERTIES RedeemedOnce OldSessionsDoNotWrite
CHECK_DEADLOCK FALSE
