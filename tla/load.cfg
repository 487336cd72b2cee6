SPECIFICATION Spec
CONSTANTS
  p1 = p1
  p2 = p2
  c1 = c1
  c2 = c2
  Keepers <- OneKeeper
  Forwards = {p1, p2}
  Clients = {c1, c2}
  KeeperOf <- AtKeeper
  serverConfig <- TwoForwardIds
  UidModulus = 3
  Account <- Accounts
  Sessions = {0}
  MaxConn = 1
  FaultKinds = {"clientforward", "logon"}
  MaxFaults = 1
  MaxNames = 2
  DbFails = FALSE
  ClientUid <- SameUid
  ClientPasswd <- GoodPasswd
  ClientKeeper <- TheKeeper
INVARIANTS
  NoIdTwice
  LoadExact
  SingleUse
CHECK_DEADLOCK FALSE
