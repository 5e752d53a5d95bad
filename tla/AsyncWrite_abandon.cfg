SPECIFICATION Spec
CONSTANTS
  p1 = p1  p2 = p2
  Paths = {p1, p2}
  f1 = f1  f2 = f2
  Files = {f1, f2}
  LaneCount = 2
  QueueCapacity = 2
  TimeoutsMax = 5
  SequenceMod = 3
  WakeMax = 2
  MaxOpens = 2
  MayTimeOut = TRUE
  IoMayFail = FALSE
  StartMayFail = FALSE
  NoPath = NoPath  AllPaths = AllPaths  NoFile = NoFile
  Absent = Absent  Empty = Empty  Torn = Torn
INVARIANT AbandonKeepsPrevious
