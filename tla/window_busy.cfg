SPECIFICATION WindowSpec
CONSTANTS
  ProbedServer = {s1}
  WindowLength = 2
  CheckAfter = 1
  MaxWindowTime = 5
  MaxSignals = 6
  MaxMeasured = 3
INVARIANT BusyTimeIsExact
CHECK_DEADLOCK FALSE
