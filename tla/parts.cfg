SPECIFICATION PartsSpec
CONSTANTS
  InterArrival = {0, 1, 3}
  TraceLength = 5
  RateLine <- MCRateLine
  RandomInterval = {1, 3}
  RatePeriod = 3
  MaxQuietPeriods = 1
  ArrivalPeriod = 4
  MaxArrivalTime = 12
  ClientCommand <- MCCommand
  Cut = {"name", "arg", "end"}
  Window = 2
  Levels = 2
  MaxOfType <- MCMaxOfType
  MaxCommands = 4
  ProbedServer = {s1}
  WindowLength = 2
  CheckAfter = 1
  MaxWindowTime = 5
  MaxSignals = 5
  MaxMeasured = 3
  MaxServers <- MCMaxServers
  Factor = {0, 1, 2}
  DefaultFactor = 0
  DimmerSteps = 2
  BootDelay = 5
  EvaluationPeriod = 2
  MaxModelTime = 7
  MaxChanges = 2
  ResourceQueue = {"q0", "q1", "q2"}
  Allocator = {"a1"}
  ResourceAmount <- MCResourceAmount
  ResourcePriority <- MCResourcePriority
  Capacity <- MCCapacity
  Fifo <- MCFifo
  PoolAmount = 2
  JobPriority = {0, 1}
  MaxPoolJobs = 6
  JobId = {1, 2, 3, 4, 5}
  ForkGates = 2
  CloneGates = 2
  NumQueues = 2
  NumServers = 2
  BootServers = {1}
  NumJobs = 5
  NetCapacity <- MCNetCapacity
  TailCapacity = 1
  MaxVisits = 4
  MaxLifeTime = 4
  MaxThreads = 2
  Shares = 2
  Grid = 8
  ServiceTime = {8, 16}
  QueueTimeout = 16
  SharingJobs = 4
  LastArrival = 24
  MinRate = 4
  BandWidth = 4
  InitialMaxRate = 12
  RateSeen = {0, 3, 4, 5, 6, 7, 8, 10, 11, 14, 15, 17, 20, 23}
  MaxUpdates = 2
  PerfectArrivals <- MCPerfectArrivals
  Process = {1, 2}
  RateCount = {20, 21}
  MaxPlans = 2
  MaxRestarts = 1
  Horizon = 2
  Tolerance = 1
  Server = {s1, s2}
  InitialServers = {s1}
  MonitorPeriod = 3
  MaxMonitorTime = 7
  Job = {j1, j2}
  ServingType = {"A", "B"}
  NoServingType = "NONE"
  Revenue <- MCRevenue
  Cost <- MCCost
  Penalty <- MCPenalty
  ConfiguredServers <- MCConfigured
  Threshold = 1
  Timeout = 2
  AccountPeriod = 2
  MaxAccountTime = 4
PROPERTY PredictionComesTrue
PROPERTY ReportsOnePeriod
PROPERTY ReportsItsPeriod
INVARIANT ExecutesOnceInOrder
INVARIANT AdaptsSafely
INVARIANT WindowIsExact
INVARIANT ClockForeseesBoot
INVARIANT PoolIsSound
INVARIANT FamilyIsSound
INVARIANT NetIsSound
INVARIANT TimesAddUp
INVARIANT ServesByShares
INVARIANT EnvStartsClosest
INVARIANT SamplesAreWhole
INVARIANT MeasuresWork
INVARIANT NoFault
INVARIANT RevenueIsEarned
CHECK_DEADLOCK FALSE
