\* idle, the shell and two of its children on one queue.
SPECIFICATION QueueSpec
CONSTANTS
  Pid = {1, 2, 3, 4}
  Prio = {1, 2}
  idleId = 1
  MAX_NB_PROCESS = 4
  INT64_LIMIT = 1000
  MaxClock = 1
  Durations = {}
  Fid = {0}
  Sizes = {0, 1, 2}
  Msg = {m1, m2}
  NoMsg = NoMsg
SYMMETRY MsgSymmetry
VIEW View
INVARIANTS
  NobodyWaitsInVain
  BlockedSorted
PROPERTIES
  ImplementsChannel
