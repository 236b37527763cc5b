\* chprio of a released producer of a queue of size 0: its message is received
\* twice.
SPECIFICATION QueueSpec
CONSTANTS
  Pid = {1, 2, 3, 4}
  Prio = {1, 2}
  idleId = 1
  MAX_NB_PROCESS = 4
  INT64_LIMIT = 1000
  MaxClock = 1
  Durations = {}
  Fid = {0}
  Sizes = {0}
  Msg = {"a", "b"}
  NoMsg = "none"
PROPERTY
  ChannelThroughout
