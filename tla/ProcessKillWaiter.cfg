\* kill of a process blocked in waitpid.
SPECIFICATION Spec
CONSTANTS
  Pid = {1, 2, 3, 4}
  Prio = {1, 2}
  idleId = 1
  MAX_NB_PROCESS = 4
  INT64_LIMIT = 1000
  MaxClock = 2
  Durations = {0}
PROPERTIES
  KillOfWaiterReturns
