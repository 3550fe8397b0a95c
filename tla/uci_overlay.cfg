\* An overlay o and a commit.
CONSTANTS
  p1 = p1
  p2 = p2
  a = a
  b = b
  r = r
  o = o
  i = i
  Proc <- Processes
  Change = {a, o}
  Rejected = {}
  Overlay = {o}
  Selections <- AllOrA
  Importable = {}
  Faults = {}
  MaxCalls = 2
SPECIFICATION Spec
SYMMETRY Symmetry
CHECK_DEADLOCK FALSE
INVARIANTS OverlayNeverCommitted
