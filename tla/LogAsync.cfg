SPECIFICATION FairSpec
CONSTANTS
  Producers = {game, audio}
  Main = game
  Logger = Logger
  Nobody = Nobody
  RingBytes = 6
  Header = 1
  LineMax = 2
  Lengths = {2, 3}
  BatchRecords = 3
  BatchBytes = 4
  ReportEvery = 3
  MaxLines = 2
  LockTimesOut = TRUE
  TimedWake = TRUE
  StartMayFail = TRUE
INVARIANTS
  NothingLost
  NoLostWake
PROPERTIES
  LogQueueSpec
  
CHECK_DEADLOCK FALSE
