SPECIFICATION Spec
CONSTANTS
  Slots = {1, 2}
  arc = arc
  loose = loose
  Paths = {arc, loose}
  Archives = {arc}
  None = None
  FirstSize <- FirstSizes
  MaxSize = 2
  BufSize = 1
  Requests = {2}
  SetTo = {0}
  CurBy <- Back
  EndBy <- Ends
  Names = {1, 2, 3, 4, 5}
  FopenMax = 3
  NamesReused = FALSE
  MaxSuspends = 1
  MaxFailures = 1
VIEW Later
CHECK_DEADLOCK FALSE
INVARIANTS
  HandlesAreOwned
PROPERTIES
  SurvivesSuspend
  
