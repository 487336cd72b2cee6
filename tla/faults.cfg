SPECIFICATION Spec
CONSTANTS
  p1 = p1
  p2 = p2
  c1 = c1
  c2 = c2
  Keepers <- OneKeeper
  Forwards = {p1}
  Clients = {c1}
  KeeperOf <- AtKeeper
  serverConfig <- TwoForwardIds
  UidModulus = 3
  Account <- Accounts
  Sessions = {0}
  MaxConn = 2
  FaultKinds = {"hubkeeper", "hublogon", "keeperforward", "clientlogon", "clientforward", "hub", "keeper", "forward", "logon"}
  MaxFaults = 2
  MaxNames = 2
  DbFails = TRUE
  ClientUid <- SameUid
  ClientPasswd <- GoodPasswd
  ClientKeeper <- TheKeeper
INVARIANTS
  TypeOK
  WellFormed
  SessionAfterAnswer
  RoutingSound
  RegisteredAreOpen
CHECK_DEADLOCK FALSE
