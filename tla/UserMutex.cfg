\* Two threads of the guest; the proofs cover any number.
SPECIFICATION FairSpec
CONSTANTS
  Main = t1
  Threads = {t1, t2}
  DepthMax = 2
  DelayMayFail = TRUE
  Free = Free
  Claiming = Claiming
  None = None
  Disabled = Disabled
INVARIANTS
  WordsAgree
  InlineIsAlone
  FaultsAreEarned
PROPERTIES
  RecursiveLockSpec
  Progress
CHECK_DEADLOCK FALSE
