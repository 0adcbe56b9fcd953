SPECIFICATION Spec
CONSTANTS
  MaxEntries = 2
  MaxChars = 0
  ResetPolicy = "every_n_requests"
  ResetInterval = 2
  Structured = FALSE
  ContextInTemplate = TRUE
  TextSizes = {1}
  PromptSizes = {1}
  UseTracked = TRUE
  DropOldFrames = TRUE
  SamplePeriod = 1
  MinVlmInterval = 0
  UseSimTime = FALSE
  Stamps = {0, 1}
  Sources = {0, 1, 2}
  InOrderSources = TRUE
  ClockSlack = 1
  MaxReceived = 4
  MaxClockJumps = 0
  NoFrame = NoFrame
INVARIANTS AcceptedIsLive SourcesInferredOnce ContextIsFresh
