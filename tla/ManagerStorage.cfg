\* Two failing calls and two power failures anywhere, two numbered names.
SPECIFICATION FairSpec
CONSTANTS
  Places = 2
  MaxFaults = 2
  MaxCrashes = 2
  MaxSessions = 2
  None = None
  Torn = Torn
INVARIANTS ResultsAreTrue 
PROPERTIES LaunchReturns
  NoSaveLost SlotIsAtomic
