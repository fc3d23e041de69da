CONSTANTS
  Sizes = {2}
  SynTries = 4
  StopWhen = "always"
  MaxTransfers = 2
  MaxLosses = 0
  MaxEarlySyn = 1
  MaxEarlyRto = 0
  MaxProbes = 0
SPECIFICATION Spec
CHECK_DEADLOCK FALSE
INVARIANT StartsFromScratch
