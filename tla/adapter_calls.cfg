\* Every adapter and mode, one call, one file replaced at any moment.
CONSTANTS
  Callers = {"c1"}
  Configs <- EveryConfig
  DisplayedAs <- MCDisplayedAs
  Utf8 <- MCUtf8
  Certificates = {"root", "intermediate", "leaf", "new"}
  InitialFiles <- MCInitialFiles
  OtherContents = {"text"}
  Versions = {"1.84"}
  VersionResults <- SomeResults
  Outputs <- EveryOutput
  TicksPerSecond = 2
  SecondsPerMinute = 2
  MinutesPerCentury = 2
  ShortYearsFrom = 0
  BadTime = BadTime
  Unreadable = Unreadable
  None = None
  MaxCalls = 1
  MaxReplacements = 1
  MaxUpgrades = 0
SPECIFICATION Spec
INVARIANTS
  TypeOK
  QuietCallIsExact
  AdapterSelectedIsExact
  ConclusiveRunsAreComplete
  AppliedTimeWasGiven
CHECK_DEADLOCK FALSE
