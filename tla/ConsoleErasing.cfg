\* Idle, the shell and a child of it: after a read that took part of a line,
\* erasing makes the assertion of copy fail.
SPECIFICATION ConsSpec
CONSTANTS
  Pid = {1, 2, 3}
  Prio = {1, 2}
  idleId = 1
  MAX_NB_PROCESS = 3
  INT64_LIMIT = 1000
  MaxClock = 1
  Durations = {}
  BUFFER_SIZE = 3
  TAB_SIZE = 2
  Letters = {"a"}
  Lengths = {1, 2, 4}
INVARIANTS
  AssertionNeverFails
