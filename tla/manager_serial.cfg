SPECIFICATION EitherDelaySpec
CONSTANTS
  MaxServers <- MCMaxServers
  InitialServers <- MCInitialServers
  TrafficChoice <- MCTrafficChoice
  Factor = {0, 1}
  DefaultFactor = 1
  Id = {s1, s2, s3, s4}
  NoServer = NoServer
  ZeroBootDelay = FALSE
  JobTimeouts = TRUE
SYMMETRY MCSymmetry
INVARIANT NoFault
INVARIANT NamesMatchCounts
INVARIANT ActiveCountsServingServers
INVARIANT BootRecordsAgree
INVARIANT SomeServerServes
INVARIANT BrownoutAgrees
