CONSTANTS
  long = long
  left = left
  l1 = l1
  l2 = l2
  Flow = {long, left}
  Link = {l1, l2}
  Path <- TwoOnOne
  Capacity <- Narrow
  Weight <- Equal
  Demand = {}
  LineRate = 6
  Tolerance = 1
  MAX_HOPS = 6
  UpdateInRev = FALSE
  CoveringTimeout = FALSE
SPECIFICATION FairSpec
PROPERTIES Converges Leaves
