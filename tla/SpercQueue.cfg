CONSTANTS
  l = l
  s = s
  Long = {l}
  Short = {s}
  CtrlSize = 1
  DataSizes = {1, 2}
  Limit = 7
  Common = 6
  Window = 2
SPECIFICATION Spec
INVARIANTS BuffersFit NoControlDropped NeverIdle
PROPERTY ControlServed
