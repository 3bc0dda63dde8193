SPECIFICATION Spec
CONSTANTS
  Threads = {t1, t2}
  MaxEntries = 1
  Lengths = {0, 1, 2}
  DataSize = 1
  RingSize = 2
  MaxCalls = 3
  Tasks = {p1, p2}
  Containers = {"c1", "c2"}
  InUse = {"scope", "kubepods"}
  MaxStarts = 2
  Pods = {a}
  LocalPods = {a}
  Callers = {g1, g2}
  Pids = {1, 55296, 55297}
  CacheSize = 1
  MaxInvalid = 1
  Procs = {q1, q2, q3}
  Amounts = {1, 2}
  MaxEvents = 3
INVARIANTS
  StdWritesReported
  EntriesAreUsedUp
  InvalidatedStaysGone
  SharedOnlyOutsideUnicode
  AnswersAreRecent
  BytesBoundLeaks
PROPERTIES
  StdWritesAreHandedOn
  StartCompletes
  StayersAreFound
  TopIsTop
CHECK_DEADLOCK FALSE
