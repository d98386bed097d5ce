CONSTANTS
  c1 = c1
  c2 = c2
  Clients <- MCClients
  NoConn = NoConn
  WaitListen = FALSE

SPECIFICATION FairSpec

PROPERTY ServeReturns

CHECK_DEADLOCK FALSE
