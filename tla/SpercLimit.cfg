CONSTANTS
  far = far
  near = near
  first = first
  second = second
  third = third
  Flows = {far, near}
  Path <- Joining
  RoundTrip <- Distances
  PacketTime = 3
  InitialTimeout = 16
SPECIFICATION FairSpec
INVARIANT FlowsCounted
PROPERTY TimeoutSettles
