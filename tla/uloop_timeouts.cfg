\* Three timeouts; a second of two milliseconds of two microseconds.
SPECIFICATION FairSpec
CONSTANTS
  a = a
  b = b
  c = c
  Timeout = {a, b, c}
  Ms = 2
  Sec = 2
  Delay = {0, 1, 2}
  MaxNow = 10
  MaxLate = 2
  MaxCalls = 3
INVARIANTS TypeOK SortedWithinMs DelayExact PollWakes
PROPERTIES NeverEarly TimeoutFires
CHECK_DEADLOCK FALSE
