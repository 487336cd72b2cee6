SPECIFICATION Spec
CONSTANTS
  p1 = p1
  p2 = p2
  c1 = c1
  c2 = c2
  Keepers <- OneKeeper
  Forwards = {p1}
  Clients = {c1, c2}
  KeeperOf <- AtKeeper
  serverConfig <- OneForwardId
  UidModulus = 3
  Account <- Accounts
  Sessions = {0}
  MaxConn = 2
  FaultKinds = {"hubkeeper", "hublogon", "keeperforward", "clientlogon", "clientforward", "hub", "keeper", "forward"}
  MaxFaults = 1
  MaxNames = 2
  DbFails = FALSE
  ClientUid <- SameUid
  ClientPasswd <- OneBadPasswd
  ClientKeeper <- TheKeeper
INVARIANTS
  Authenticated
  OwnLogon
PROPERTIES
  ImplementsSessionTable
CHECK_DEADLOCK FALSE
