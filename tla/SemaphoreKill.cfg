\* Three waiters and a fourth process that kills one of them.
SPECIFICATION SemSpec
CONSTANTS
  Pid = {1, 2, 3, 4, 5}
  Prio = {1, 2}
  idleId = 1
  MAX_NB_PROCESS = 5
  INT64_LIMIT = 1000
  MaxClock = 1
  Durations = {}
  Sem = {1}
  NB_MAX_SEMS = 2
  MAX_COUNT = 3
  CountArgs = {0, 1, 2, 3}
  ResetArgs = {0, 1}
INVARIANTS
  KilledWaiterLeaves
