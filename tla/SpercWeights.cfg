CONSTANTS
  long = long
  left = left
  l1 = l1
  l2 = l2
  Flow = {long, left}
  Link = {l1, l2}
  Path <- TwoOnOne
  Capacity <- Wide
  Weight <- Weighted
  Demand = {}
  LineRate = 6
  Tolerance = 1
  MAX_HOPS = 6
  UpdateInRev = FALSE
  CoveringTimeout = TRUE
SPECIFICATION Spec
INVARIANTS TypeOK AggregatesMatch MaxSatCovers
PROPERTY ImplementsBook
