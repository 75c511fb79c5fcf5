\* Is there a time limit on run_program?
CONSTANTS
  Limits <- MCLimits
  ReadSize <- MCReadSize
  PipeCapacity <- MCPipeCapacity
  MaxWritten <- MCMaxWritten
  Forks = TRUE
  Leaves = FALSE
  Faults = FALSE
SPECIFICATION Spec
PROPERTY
  Returns
CHECK_DEADLOCK FALSE
