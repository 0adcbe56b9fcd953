SPECIFICATION FairBoundedSpec
CONSTANTS
  OverDataset = d
  OverSequence = q
  Other = o
  Experiments <- InstanceExperiments
  AllRuns <- InstanceRuns
  Remembering = {d}
  OfSequence = {q}
  NoRun = NoRun
  Frames <- InstanceFrames
  DatasetFrames = 3
  SequenceFrames = 1
  MaxRuns = 1
  MaxEntries = 2
  MaxChars = 4
  Lengths = {0, 1, 3}
  MaxFaults = 1
  MaxReviews = 1
CHECK_DEADLOCK FALSE
INVARIANTS OneExperiment StatusTellsExperiment PromptTellsTheLatest
PROPERTIES ImplementsRunLifecycle ExperimentsMakeWay
