\* Two descriptors, two children and up to three nested loops.
CONSTANTS
  f1 = f1
  f2 = f2
  c1 = c1
  c2 = c2
  NoFd = NoFd
  Fd <- MCFd
  ErrorCb <- MCErrorCb
  Child <- MCChild
  MaxBatch = 2
  MaxCalls = 3
  MaxDepth = 4
SPECIFICATION Spec
CHECK_DEADLOCK FALSE
SYMMETRY Symmetry
INVARIANTS TypeOK DeletedIsSilent NoReentry NoLostEdge SignalKept EndStops
