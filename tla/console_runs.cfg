SPECIFICATION FairBoundedSpec
CONSTANTS
  First = r1
  Second = r2
  MaxActors = 3
  Runs <- InstanceRuns
  AllRuns <- InstanceRuns
  MaxRuns = 1
  Stoppers = {s1}
  Cleaner = Cleaner
  NoRun = NoRun
  SlowToDie = FALSE
CHECK_DEADLOCK FALSE
INVARIANTS OneChild ReportedOnce StatusTellsOutcome
PROPERTIES ImplementsRunLifecycle StopEndsChild RunsAndStopsEnd
