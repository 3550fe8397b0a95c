\* Two processes that save and commit.
CONSTANTS
  p1 = p1
  p2 = p2
  a = a
  b = b
  r = r
  o = o
  i = i
  Proc <- Processes
  Change = {a, b}
  Rejected = {}
  Overlay = {}
  Selections <- AllOrA
  Importable = {}
  Faults = {}
  MaxCalls = 2
SPECIFICATION Spec
SYMMETRY Symmetry
CHECK_DEADLOCK FALSE
INVARIANTS NoLostChange
