\* Any two parts of a request revised.
CONSTANTS
  Sha256 = {"h1", "h2", "h3", "hA", "g1", "g2"}
  Malformed = {"bad"}
  Names = {"ee", "ca", "op", "zz", "e1", "e2", "e3", "e4"}
  Times = {"t1", "t2"}
  EmptyString = EmptyString
  BadTime = BadTime
  None = None
  InitialRequests <- MCInitialRequests
  Revisions <- MCRevisions
  MaxRevisions = 2
SPECIFICATION Spec
INVARIANTS
  TypeOK
  HybridSound
  ValidatedIsBound
  KnownFailureRejects
  FlagsAreBacked
  RejectionIsExplained
  DegradationNeverUpgrades
  NarrowingKeepsHybrid
  PoliciesAreOrdered
CHECK_DEADLOCK FALSE
