SPECIFICATION FairSpec
CONSTANTS
  Collectors = {c1}
  FlushLoop = flushLoop
  Closer = closer
  Events = {e1, e2}
  BadEvents = {}
  BatchSize = 2
  MaxRetries = 1
PROPERTIES EventuallySettled CloseReturns
