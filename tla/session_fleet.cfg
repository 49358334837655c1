SPECIFICATION Spec
CONSTANTS
  Users = {u1}
  Devices = {d1, d2}
  Invites = {i1}
  Peers = {p1}
  None = None
  Expecting = {}
  Kinds = {"fleet", "create"}
  AccessLife = 1
  CodeLife = 1
  ReceiptLife = 3
  Window = 1
  PeerLimit = 1
  GlobalLimit = 1
  MaxEpoch = 1
  MaxCodes = 1
  MaxTime = 1
PROPERTIES OldFleetsDoNotWrite
CHECK_DEADLOCK FALSE
