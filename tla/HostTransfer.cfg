CONSTANTS
  Sizes = {1, 3}
  Modes = {"sperc", "init", "init_until"}
  Rates = {1, 3}
  Trickle = 1
  AllowStop = FALSE
  MaxTransfers = 3
  MaxLosses = 2
  MaxSpurious = 1
  UINT = 16
SPECIFICATION CleanSpec
CHECK_DEADLOCK FALSE
INVARIANTS NoOverrun NeverStuck StartsFresh ControlInTurn
PROPERTIES DoneMeansDelivered TransfersFinish ImplementsTransfer
