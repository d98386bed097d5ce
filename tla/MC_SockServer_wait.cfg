CONSTANTS
  c1 = c1
  c2 = c2
  Clients <- MCClients
  NoConn = NoConn
  WaitListen = TRUE

SPECIFICATION FairSpec

INVARIANT SocketGoneAfterShutdown

PROPERTY ServeReturns
