SPECIFICATION LiveSpec
CONSTANTS
  Collectors = {c1}
  FlushLoop = flushLoop
  Closer = closer
  Events = {e1, e2, e3}
  BatchSize = 2
INVARIANTS EachEventOnce CloseEmptiesBatch
PROPERTIES ImplementsSink EventuallySettled
