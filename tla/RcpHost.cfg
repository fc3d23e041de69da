CONSTANTS
  Sizes = {1, 3}
  SynTries = 3
  StopWhen = "clean"
  MaxTransfers = 2
  MaxLosses = 3
  MaxEarlySyn = 1
  MaxEarlyRto = 1
  MaxProbes = 1
SPECIFICATION FairSpec
CHECK_DEADLOCK FALSE
INVARIANTS SynTimerOnTime NoOverrun NeverStuck StartsFromScratch GivesUpForLosses
PROPERTIES DoneMeansDelivered EndsOrGivesUp ImplementsTransfer
