CONSTANTS
  Sizes = {2}
  Modes = {"sperc"}
  Rates = {1, 3}
  Trickle = 1
  AllowStop = TRUE
  MaxTransfers = 1
  MaxLosses = 0
  MaxSpurious = 0
  UINT = 16
SPECIFICATION FairSpec
CHECK_DEADLOCK FALSE
PROPERTIES StopSendsNoNewData
