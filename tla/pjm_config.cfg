\* Two scripts, any of which may be killed and leave its lock file; calls are bounded,
\* so every behaviour ends.
CONSTANTS
  s1 = s1
  s2 = s2
  osd = osd
  osdLang = osdLang
  lamp = lamp
  note = note
  blank = blank
  osdCut = osdCut
  stub = stub
  Script = {s1, s2}
  Key <- Instances
  Comment = {note}
  Blank = blank
  Part = {osdCut, stub}
  Cut <- Cutting
  Ref <- Reference
  Given <- Begun
  Inside <- Found
  Tries = 2
  MaxRuns = 2
  MayDie = TRUE
  MayFail = TRUE
SPECIFICATION FairSpec
CHECK_DEADLOCK FALSE
INVARIANTS TypeOK LockExcludes NoDoubleLine MergeCoversRef
PROPERTIES EveryScriptEnds
