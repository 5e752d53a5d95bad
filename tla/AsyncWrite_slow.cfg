SPECIFICATION GuestFairSpec
CONSTANTS
  p1 = p1  p2 = p2
  Paths = {p1, p2}
  f1 = f1  f2 = f2
  Files = {f1, f2}
  LaneCount = 2
  QueueCapacity = 1
  TimeoutsMax = 2
  SequenceMod = 3
  WakeMax = 2
  MaxOpens = 2
  MayTimeOut = TRUE
  IoMayFail = TRUE
  StartMayFail = TRUE
  NoPath = NoPath  AllPaths = AllPaths  NoFile = NoFile
  Absent = Absent  Empty = Empty  Torn = Torn
INVARIANTS LaneOwnership OneRunner
PROPERTIES GuestReturns
