\* Two processes, a change r that no longer applies, an import i, crashes, I/O
\* errors and a full disk.
CONSTANTS
  p1 = p1
  p2 = p2
  a = a
  b = b
  r = r
  o = o
  i = i
  Proc <- Processes
  Change = {a, b, r, i}
  Rejected = {r}
  Overlay = {}
  Selections <- AllOrA
  Importable = {i}
  Faults = {"crash", "io", "full"}
  MaxCalls = 2
SPECIFICATION Spec
SYMMETRY Symmetry
CHECK_DEADLOCK FALSE
INVARIANTS ConfigNeverTorn OnlyWindowsLose
PROPERTIES CallsAreAtomic
