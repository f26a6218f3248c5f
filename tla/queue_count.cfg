SPECIFICATION JobTimesSpec
CONSTANTS
  MaxVisits = 4
  MaxLifeTime = 4
INVARIANT QueueCountIsVisits
CHECK_DEADLOCK FALSE
