\* Two callers share the version cache; a program is upgraded.
CONSTANTS
  Callers = {c1, c2}
  Configs <- CacheConfigs
  DisplayedAs <- MCDisplayedAs
  Utf8 <- MCUtf8
  Certificates = {"root", "intermediate", "leaf", "new"}
  InitialFiles <- MCInitialFiles
  OtherContents = {"text"}
  Versions = {"1.84", "1.85"}
  VersionResults <- WholeOrCut
  Outputs <- OneOutput
  TicksPerSecond = 2
  SecondsPerMinute = 2
  MinutesPerCentury = 2
  ShortYearsFrom = 0
  BadTime = BadTime
  Unreadable = Unreadable
  None = None
  MaxCalls = 3
  MaxReplacements = 0
  MaxUpgrades = 1
SYMMETRY CallerSymmetry
SPECIFICATION Spec
INVARIANTS
  CacheIsComplete
  BoundedVersionRuns
  VersionIsExact
CHECK_DEADLOCK FALSE
