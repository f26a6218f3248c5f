SPECIFICATION Spec
CONSTANTS
  Jobs = 3
  Threads = 1
  Capacity <- MCUnlimited
  JobTimeouts = FALSE
  Burst = 0
INVARIANT RemovedWhenProcessed
CHECK_DEADLOCK FALSE
