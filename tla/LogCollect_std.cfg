SPECIFICATION LogSpec
CONSTANTS
  Threads = {t1, t2}
  MaxEntries = 1
  Lengths = {0, 1, 2}
  DataSize = 1
  RingSize = 2
  MaxCalls = 4
INVARIANT OnlyStdWritesReported
CHECK_DEADLOCK FALSE
