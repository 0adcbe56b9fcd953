SPECIFICATION Spec
CONSTANTS
  Clients = {c1, c2}
  Conns = {k1, k2, k3}
  NoConn = NoConn
  ConnectTimeout = 1
  RequestTimeout = 2
  Deadline = 1
  LoadTime = 0
  AcceptQueue = 2
  FitsBuffer = FALSE
  Respawns = TRUE
  ClientsMayExit = TRUE
  Urgent = FALSE
  Faults = 0
  MaxId = 2
SYMMETRY ClientSymmetry
INVARIANT KeptConnectionIsClean
