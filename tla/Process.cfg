\* idle, the shell and two more processes, over three generations.
SPECIFICATION FairSpec
CONSTANTS
  Pid = {1, 2, 3, 4}
  Prio = {1, 2}
  idleId = 1
  MAX_NB_PROCESS = 4
  INT64_LIMIT = 1000
  MaxClock = 1
  Durations = {0}
INVARIANTS
  QueueMatchesState
  NoLostWakeup
  TreeConsistent
  PidsAccounted
PROPERTIES
  ExitStatusKept
  KernelReturns
