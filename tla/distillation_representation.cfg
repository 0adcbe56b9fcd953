SPECIFICATION OfflineSpec
CONSTANTS
  Tools = {"pipeline"}
  Models = {m1}
  Managed = {f8}
  Adopted = {legacy}
  Contexts = {c1, c2}
  NoFile = NoFile
  MaxWrites = 4
  MaxRevisions = 2
  s1 = s1
  s2 = s2
  s3 = s3
  s4 = s4
  SampleList <- InstanceSampleList
  GroupOf <- InstanceGroupOf
  Representations = {"images", "video"}
  Video = {"video"}
  TrainPercent = 40
  ValPercent = 30
  MaxChanges = 1
  MaxRuns = 1
  Times = {0, 4, 10, 11, 21}
  MaxFrames = 3
  Directions = {"approaching", "receding"}
  Opposite <- InstanceOpposite
  Refs = {0, 3}
  Periods = {10}
  Tick = 4
  NoTarget = NoTarget
  NoPeriod = NoPeriod
  Recordings <- InstanceRecordings
  Parameters <- InstanceParameters
  Datasets = {1, 2}
  MinInterval = 1
  Default = Default
  t1 = t1
  t2 = t2
  t3 = t3
  Tokens = {t1, t2, t3}
  Keyframes = {t1, t2, t3}
  NoToken = NoToken
  FirstToken = t1
  NextToken <- InstanceNextToken
  ClipLength = 2
  Annotated = {0, 3}
  Selections <- InstanceSelections
  MaxSelection = 2
  MaxImageChanges = 1
  Pids = {n1, n2}
  NoPid = NoPid
  Engines = {e1, e2}
  Paths = {a}
  NoPath = NoPath
  SlowToEnd = FALSE
  QuickReuse = FALSE
  MaxBirths = 4
CHECK_DEADLOCK FALSE
INVARIANT RepresentationIsKept
