SPECIFICATION WorkloadSpec
CONSTANTS
  Jobs = 7
  Threads = 2
  Capacity <- MCUnlimited
  JobTimeouts = TRUE
  Burst = 0
INVARIANT ThreadsInUse
INVARIANT WorkConserving
PROPERTY FirstComeFirstServed
PROPERTY EveryJobLeaves
PROPERTY ImplementsView
PROPERTY BurstDrainCompletes
CHECK_DEADLOCK FALSE
