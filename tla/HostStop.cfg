CONSTANTS
  Sizes = {1, 2}
  Modes = {"sperc", "init", "init_until"}
  Rates = {1, 3}
  Trickle = 1
  AllowStop = TRUE
  MaxTransfers = 1
  MaxLosses = 1
  MaxSpurious = 0
  UINT = 16
SPECIFICATION FairSpec
CHECK_DEADLOCK FALSE
INVARIANTS TypeOK TimerHasWork
PROPERTIES StopFinishes ImplementsTransferSafely
