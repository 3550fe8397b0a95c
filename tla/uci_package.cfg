\* Two processes that change a package, and its delta.
SPECIFICATION Spec
CONSTANTS
  p1 = p1
  p2 = p2
  iface = iface
  rule = rule
  lan = lan
  wan = wan
  bad = bad
  v1 = v1
  v2 = v2
  None = None
  Proc = {p1, p2}
  Type = {iface, rule}
  Name = {lan, wan, bad}
  Odd = {bad}
  Val = {v1, v2}
  Files <- MCFiles
  MaxPos = 2
  MaxCalls = 2
SYMMETRY Symmetry
INVARIANTS TypeOK ReplayAgrees LinesLand FileReadsBack
