\* Three tasks, one at a time, with and without timeouts.
SPECIFICATION FairSpec
CONSTANTS
  t1 = t1
  t2 = t2
  t3 = t3
  Task = {t1, t2, t3}
  End = End
  MaxRunning = 1
  RunTimeout = {t1, t2}
  CancelTimeout = {t1, t3}
  MaxCalls = 4
  MaxDepth = 3
INVARIANTS TypeOK ListsMatch TimersOnRunning IteratorsValid LimitKept NoStall EmptyIsEmpty
PROPERTIES TimeoutEnds PendingServed
CHECK_DEADLOCK FALSE
