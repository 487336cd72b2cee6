SPECIFICATION FairSpec
CONSTANTS
  p1 = p1
  p2 = p2
  c1 = c1
  c2 = c2
  Keepers <- OneKeeper
  Forwards = {p1, p2}
  Clients = {}
  KeeperOf <- AtKeeper
  serverConfig <- TwoForwardIds
  UidModulus = 3
  Account <- Accounts
  Sessions = {0}
  MaxConn = 3
  FaultKinds = {"forward", "keeperforward"}
  MaxFaults = 1
  MaxNames = 2
  DbFails = FALSE
  ClientUid <- SameUid
  ClientPasswd <- GoodPasswd
  ClientKeeper <- TheKeeper
PROPERTIES
  GoneIsUnlisted
CHECK_DEADLOCK FALSE
