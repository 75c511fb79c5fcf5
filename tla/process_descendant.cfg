\* Does the time limit end every descendant?
CONSTANTS
  Limits <- MCLimits
  ReadSize <- MCReadSize
  PipeCapacity <- MCPipeCapacity
  MaxWritten <- MCMaxWritten
  Forks = TRUE
  Leaves = TRUE
  Faults = FALSE
SPECIFICATION Spec
INVARIANT
  NothingSurvivesTimeout
CHECK_DEADLOCK FALSE
