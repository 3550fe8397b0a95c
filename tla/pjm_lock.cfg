\* Two scripts that look for the lock file at the same time.
CONSTANTS
  s1 = s1
  s2 = s2
  osd = osd
  osdLang = osdLang
  lamp = lamp
  note = note
  blank = blank
  osdCut = osdCut
  stub = stub
  Script = {s1, s2}
  Key <- Instances
  Comment = {note}
  Blank = blank
  Part = {osdCut, stub}
  Cut <- Cutting
  Ref <- Reference
  Given <- Begun
  Inside <- Found
  Tries = 2
  MaxRuns = 2
  MayDie = FALSE
  MayFail = FALSE
SPECIFICATION Spec
CHECK_DEADLOCK FALSE
INVARIANTS OneHolder
