CONSTANTS
  long = long
  left = left
  l1 = l1
  l2 = l2
  Flow = {long, left}
  Link = {l1, l2}
  Path <- TwoOnOne
  Capacity <- Wide
  Weight <- Equal
  Demand = {1, 3}
  LineRate = 6
  Tolerance = 2
  MAX_HOPS = 6
  UpdateInRev = TRUE
  CoveringTimeout = FALSE
SPECIFICATION Spec
INVARIANTS SumSatBelowCapacity HopSelectsLink NeverAborts PropagatedRatePositive ExitSeenForward
