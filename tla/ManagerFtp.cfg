SPECIFICATION FairSpec
CONSTANTS
  FDs = {f1, f2, f3, f4}
  Names = {n1}
  None = None
  Old = Old
  Chunks = 1
  MaxFaults = 1
INVARIANTS
  DescriptorsAreOwn
  NothingLeaks
  WholeUploads
PROPERTIES
  ServerStops
