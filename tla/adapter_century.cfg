\* NSS and wolfSSL, told of a time in the next century.
CONSTANTS
  Callers = {"c1"}
  Configs <- LateConfigs
  DisplayedAs <- MCDisplayedAs
  Utf8 <- MCUtf8
  Certificates = {"root", "intermediate", "leaf", "new"}
  InitialFiles <- MCInitialFiles
  OtherContents = {"text"}
  Versions = {"1.84"}
  VersionResults <- SomeResults
  Outputs <- OneOutput
  TicksPerSecond = 2
  SecondsPerMinute = 2
  MinutesPerCentury = 2
  ShortYearsFrom = 0
  BadTime = BadTime
  Unreadable = Unreadable
  None = None
  MaxCalls = 1
  MaxReplacements = 0
  MaxUpgrades = 0
SPECIFICATION Spec
INVARIANT ReportNamesAppliedTime
CHECK_DEADLOCK FALSE
