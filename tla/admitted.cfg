SPECIFICATION FairSpec
CONSTANTS
  p1 = p1
  p2 = p2
  c1 = c1
  c2 = c2
  Keepers <- OneKeeper
  Forwards = {p1, p2}
  Clients = {c1, c2}
  KeeperOf <- AtKeeper
  serverConfig <- TwoForwardIds
  UidModulus = 3
  Account <- Accounts
  Sessions = {0}
  MaxConn = 1
  FaultKinds = {}
  MaxFaults = 0
  MaxNames = 2
  DbFails = FALSE
  ClientUid <- DistinctUids
  ClientPasswd <- GoodPasswd
  ClientKeeper <- TheKeeper
PROPERTIES
  LogonAdmitted
CHECK_DEADLOCK FALSE
