SPECIFICATION FairSpec
CONSTANTS
  Chunk = 1
  BufferSize = 2
  Reconnects = TRUE
  MaxClock = 4
  MaxSimTime = 3
  MaxOnWire = 2
INVARIANT NoRuntimeError
INVARIANT AheadByLessThanTwoChunks
PROPERTY ReplyGoesToSender
PROPERTY RequestsHandled
CHECK_DEADLOCK FALSE
