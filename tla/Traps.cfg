SPECIFICATION FairSpec
CONSTANTS
  idle = idle
  shell = shell
  NoPid = NoPid
  Procs = {idle, shell, child}
  Frames = {f1, f2, f3}
  KeysPerTick = 1
  Wrap = 1
INVARIANTS NoNestedTrap OwnContext OnOwnTrapStack
PROPERTY ReadyRuns
