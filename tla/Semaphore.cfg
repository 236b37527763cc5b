\* idle, the shell and two of its children, which may all wait at once.
SPECIFICATION SemSpec
VIEW View
CONSTANTS
  Pid = {1, 2, 3, 4}
  Prio = {1, 2}
  idleId = 1
  MAX_NB_PROCESS = 4
  INT64_LIMIT = 1000
  MaxClock = 1
  Durations = {}
  Sem = {1, 2}
  NB_MAX_SEMS = 2
  MAX_COUNT = 2
  CountArgs = {0, 1, 3}
  ResetArgs = {0, 1}
INVARIANTS
  WaitersListed
  CountMatchesWaiters
PROPERTIES
  ImplementsCounting
  WaitersInOrder
