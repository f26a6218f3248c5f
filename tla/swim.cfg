SPECIFICATION MCSwimSpec
CONSTANTS
  MaxServers <- MCMaxServers
  InitialServers <- MCInitialServers
  TrafficChoice <- MCTrafficChoice
  Factor = {0, 1}
  DefaultFactor = 0
  Id = {s1, s2, s3, s4}
  NoServer = NoServer
  ZeroBootDelay = FALSE
  JobTimeouts = TRUE
  Draw = {0, 1, 2, 3, 4}
SYMMETRY MCSymmetry
INVARIANT EveryDrawFindsServer
PROPERTY ShareIsRespected
PROPERTY OnlyIdleServersDisappear
PROPERTY DrainedServerGetsNoJob
CHECK_DEADLOCK FALSE
