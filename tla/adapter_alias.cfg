\* Two executables that are displayed alike, one of them valid UTF-8.
CONSTANTS
  Callers = {"c1"}
  Configs <- AliasConfigs
  DisplayedAs <- MCDisplayedAs
  Utf8 <- MCUtf8
  Certificates = {"root", "intermediate", "leaf", "new"}
  InitialFiles <- MCInitialFiles
  OtherContents = {"text"}
  Versions = {"1.84", "1.85"}
  VersionResults <- SomeResults
  Outputs <- OneOutput
  TicksPerSecond = 2
  SecondsPerMinute = 2
  MinutesPerCentury = 2
  ShortYearsFrom = 0
  BadTime = BadTime
  Unreadable = Unreadable
  None = None
  MaxCalls = 2
  MaxReplacements = 0
  MaxUpgrades = 0
SPECIFICATION Spec
INVARIANTS
  VersionIsExact
CHECK_DEADLOCK FALSE
