\* A writer that answers and a card that works: three saves over two paths,
\* and a sequence number that wraps.
SPECIFICATION FairSpec
CONSTANTS
  p1 = p1  p2 = p2
  Paths = {p1, p2}
  f1 = f1  f2 = f2
  Files = {f1, f2}
  LaneCount = 2
  QueueCapacity = 2
  TimeoutsMax = 1
  SequenceMod = 3
  WakeMax = 1
  MaxOpens = 3
  MayTimeOut = FALSE
  IoMayFail = FALSE
  StartMayFail = FALSE
  NoPath = NoPath  AllPaths = AllPaths  NoFile = NoFile
  Absent = Absent  Empty = Empty  Torn = Torn
INVARIANTS
  ReadYourWrites
PROPERTIES
  ImageFrozen
  FinishInOrder
  SaveStoreSpec
  QueuedIsWritten
