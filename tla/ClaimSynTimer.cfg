CONSTANTS
  Sizes = {2}
  Modes = {"sperc", "init"}
  Rates = {1, 3}
  Trickle = 1
  AllowStop = FALSE
  MaxTransfers = 2
  MaxLosses = 0
  MaxSpurious = 0
  UINT = 16
SPECIFICATION Spec
CHECK_DEADLOCK FALSE
INVARIANTS SynTimerOnlyAtSpercRate
