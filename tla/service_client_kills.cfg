SPECIFICATION Spec
CONSTANTS
  Clients = {c1}
  Conns = {k1, k2, k3, k4}
  NoConn = NoConn
  ConnectTimeout = 2
  RequestTimeout = 2
  Deadline = 1
  LoadTime = 1
  AcceptQueue = 2
  FitsBuffer = TRUE
  Respawns = TRUE
  ClientsMayExit = TRUE
  Urgent = TRUE
  Faults = 0
  MaxId = 2
INVARIANT ServiceOutlivesClients
