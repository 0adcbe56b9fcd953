SPECIFICATION FairSpec
CONSTANTS
  Clients = {c1}
  Conns = {k1, k2, k3}
  NoConn = NoConn
  ConnectTimeout = 4
  RequestTimeout = 3
  Deadline = 1
  LoadTime = 1
  AcceptQueue = 2
  FitsBuffer = TRUE
  Respawns = TRUE
  ClientsMayExit = FALSE
  Urgent = TRUE
  Faults = 2
  MaxId = 2
PROPERTIES FaultsCostOneCall ServiceRecovers
