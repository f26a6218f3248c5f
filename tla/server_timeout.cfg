SPECIFICATION FairSpec
CONSTANTS
  Jobs = 3
  Threads = 1
  Capacity <- MCUnlimited
  JobTimeouts = TRUE
  Burst = 0
PROPERTY DrainCompletes
CHECK_DEADLOCK FALSE
