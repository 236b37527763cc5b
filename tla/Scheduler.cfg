\* Four processes over two priorities.  The argument 9 overflows in three
\* ways: the wake time becomes positive, zero, or lies in the past.
SPECIFICATION SchedFairSpec
CONSTANTS
  Pid = {1, 2, 3, 4}
  Prio = {1, 2}
  idleId = 1
  INT64_LIMIT = 6
  MaxClock = 4
  Durations = {0, 1, 2, 9}
INVARIANTS
  LinkedOnce
  NoOverdueSleeper
  HighestPriorityRuns
PROPERTIES
  HighestNotStarved
  SleepersWake
