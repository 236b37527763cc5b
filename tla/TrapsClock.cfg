SPECIFICATION Spec
CONSTANTS
  idle = idle
  shell = shell
  NoPid = NoPid
  Procs = {idle, shell, child}
  Frames = {f1, f2, f3}
  KeysPerTick = 1
  Wrap = 100
INVARIANT ClockNotAhead
