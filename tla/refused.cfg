SPECIFICATION Spec
CONSTANTS
  p1 = p1
  p2 = p2
  c1 = c1
  c2 = c2
  Keepers <- OneKeeper
  Forwards = {p1}
  Clients = {}
  KeeperOf <- AtKeeper
  serverConfig <- OneForwardId
  UidModulus = 3
  Account <- Accounts
  Sessions = {0}
  MaxConn = 2
  FaultKinds = {"keeperforward"}
  MaxFaults = 1
  MaxNames = 2
  DbFails = FALSE
  ClientUid <- SameUid
  ClientPasswd <- GoodPasswd
  ClientKeeper <- TheKeeper
PROPERTIES
  RefusesOnlyDuplicates
CHECK_DEADLOCK FALSE
