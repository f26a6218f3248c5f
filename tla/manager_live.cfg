SPECIFICATION FairEitherDelaySpec
CONSTANTS
  MaxServers <- MCOneEach
  InitialServers <- MCInitialServers
  TrafficChoice <- MCOneTraffic
  Factor = {0}
  DefaultFactor = 0
  Id = {s1, s2, s3}
  NoServer = NoServer
  ZeroBootDelay = FALSE
  JobTimeouts = FALSE
PROPERTY RemovalCompletes
PROPERTY BootTakesEffect
PROPERTY ImplementsPool
