SPECIFICATION FairSpec
CONSTANTS
  Tick = 6
  MaxDue = 5
  StaleDue = 2
  MaxSkips = 4
  MaxLate = 1
  Loads <- MCLoads
  Stalls = {2, 5, 40}
  CounterMod = 2
  FrameMod = 2
  Games = {game}
  None = None
  MaxEvents = 1
INVARIANTS
  NoBurst
  Bounded
PROPERTIES
  KeepsCadence
  FailsOpen
  
