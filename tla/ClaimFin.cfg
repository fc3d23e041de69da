CONSTANTS
  Sizes = {1, 3}
  Modes = {"init"}
  Rates = {1, 3}
  Trickle = 1
  AllowStop = FALSE
  MaxTransfers = 2
  MaxLosses = 2
  MaxSpurious = 0
  UINT = 16
SPECIFICATION Spec
CHECK_DEADLOCK FALSE
INVARIANTS FinMeansAcked
