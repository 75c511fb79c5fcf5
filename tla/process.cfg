\* Every interleaving, with forks, escapes and failing system calls.
CONSTANTS
  Limits <- MCLimits
  ReadSize <- MCReadSize
  PipeCapacity <- MCPipeCapacity
  MaxWritten <- MCMaxWritten
  Forks = TRUE
  Leaves = TRUE
  Faults = TRUE
SPECIFICATION Spec
INVARIANTS
  TypeOK
  CaptureExact
  RecordComplete
  RecordTruthful
  KillWhileUnreaped
PROPERTIES
  ImplementsBoundedCall
  NeverBlocksTheChild
  ReturnsUnlessHeld
CHECK_DEADLOCK FALSE
