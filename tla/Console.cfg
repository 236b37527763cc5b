\* idle, the shell and two of its children at a ring of three places; the space
\* stands for every printable character.
SPECIFICATION ConsSpec
VIEW View
CONSTANTS
  Pid = {1, 2, 3, 4}
  Prio = {1, 2}
  idleId = 1
  MAX_NB_PROCESS = 4
  INT64_LIMIT = 1000
  MaxClock = 1
  Durations = {}
  BUFFER_SIZE = 3
  TAB_SIZE = 2
  Letters = {}
  Lengths = {1, 4}
INVARIANTS
  AssertionsHold
  ReadersQueued
PROPERTIES
  ReaderWoken
  ImplementsLineBuffer
