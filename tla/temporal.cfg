SPECIFICATION FairTemporalSpec
CONSTANTS
  Conns = {k1, k2, k3}
  NoConn = NoConn
  AcceptQueue = 2
  MaxDeaths = 1
  WindowFrames = 2
  RequireFull = TRUE
  SamplePeriod = 0
  MaxGap = 1
  Stamps <- MCStamps
  MaxImages = 4
CHECK_DEADLOCK FALSE
INVARIANTS WindowIsOneStream IdleConnectionIsClean
PROPERTIES ResultsFollowWindows WindowsAndStopsEnd
