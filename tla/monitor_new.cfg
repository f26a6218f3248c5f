SPECIFICATION MonitorSpecH
CONSTANTS
  Server = {s1, s2}
  InitialServers = {s1}
  MonitorPeriod = 3
  MaxMonitorTime = 7
INVARIANT MeasuresWorkFromCreation
CHECK_DEADLOCK FALSE
