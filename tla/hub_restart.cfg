SPECIFICATION FairSpec
CONSTANTS
  p1 = p1
  p2 = p2
  c1 = c1
  c2 = c2
  Keepers <- OneKeeper
  Forwards = {p1}
  Clients = {c1}
  KeeperOf <- AtKeeper
  serverConfig <- OneForwardId
  UidModulus = 3
  Account <- Accounts
  Sessions = {0}
  MaxConn = 3
  FaultKinds = {"hub"}
  MaxFaults = 2
  MaxNames = 2
  DbFails = FALSE
  ClientUid <- SameUid
  ClientPasswd <- GoodPasswd
  ClientKeeper <- TheKeeper
PROPERTIES
  Reregistered
CHECK_DEADLOCK FALSE
