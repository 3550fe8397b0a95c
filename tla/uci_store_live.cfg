\* Two processes, an overlay o, an import i, crashes, I/O errors and a delta file that
\* can be read and not written.
CONSTANTS
  p1 = p1
  p2 = p2
  a = a
  b = b
  r = r
  o = o
  i = i
  Proc <- Processes
  Change = {a, b, o, i}
  Rejected = {}
  Overlay = {o}
  Selections <- AllOrA
  Importable = {i}
  Faults = {"crash", "io", "readonly"}
  MaxCalls = 2
SPECIFICATION FairSpec
CHECK_DEADLOCK FALSE
PROPERTIES EveryCallReturns
