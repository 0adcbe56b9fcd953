SPECIFICATION FairSpec
CONSTANTS
  MaxEntries = 2
  MaxChars = 5
  ResetPolicy = "on_error"
  ResetInterval = 0
  Structured = TRUE
  ContextInTemplate = TRUE
  TextSizes = {0, 1, 5}
  PromptSizes = {1}
  UseTracked = FALSE
  DropOldFrames = TRUE
  SamplePeriod = 1
  MinVlmInterval = 2
  UseSimTime = FALSE
  Stamps = {0, 1}
  Sources = {}
  InOrderSources = TRUE
  ClockSlack = 1
  MaxReceived = 4
  MaxClockJumps = 1
  NoFrame = NoFrame
INVARIANTS CountersBalance HistoryIsExact
PROPERTIES ImplementsLatestOnly NothingHangs
