SPECIFICATION CarefulClientSpec
CONSTANTS
  MaxServers <- MCMaxServers
  InitialServers <- MCInitialServers
  TrafficChoice <- MCOneTraffic
  Factor = {0}
  DefaultFactor = 0
  Id = {s1, s2, s3, s4}
  NoServer = NoServer
  ZeroBootDelay = FALSE
  JobTimeouts = FALSE
SYMMETRY MCSymmetry
INVARIANT BootIsExpected
CHECK_DEADLOCK FALSE
