\* Two processes that load, save, commit, revert and crash; r is a change
\* that no longer applies.  Calls are bounded, so every behaviour ends.
CONSTANTS
  p1 = p1
  p2 = p2
  a = a
  b = b
  r = r
  o = o
  i = i
  Proc <- Processes
  Change = {a, b, r}
  Rejected = {r}
  Overlay = {}
  Selections <- AllOrA
  Importable = {}
  Faults = {"crash"}
  MaxCalls = 3
SPECIFICATION Spec
SYMMETRY Symmetry
CHECK_DEADLOCK FALSE
INVARIANTS TypeOK ConfigNeverTorn NoDoubleApply OnlyWindowsLose RevertedStaysOut
PROPERTIES LoadSeesSaved
