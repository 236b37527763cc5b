SPECIFICATION SharedSpec
VIEW View
CONSTANTS
  Pid = {1, 2}
  NbFrames = 23
  FRAME_SIZE = 2
  PT_SIZE = 1
  STACK_FRAME_SIZE = 3
  HEAP_FRAME_SIZE = 2
  SHARED_FRAME_SIZE = 2
  CodeSizes = {2}
  GIGAPAGE_SIZE = 6
  StackSizes = {1, 5, 7}
  Key = {"k1", "k2"}
  MaxList = 2
  MaxUsage = 2
INVARIANT UsageIsMaps
CHECK_DEADLOCK FALSE
