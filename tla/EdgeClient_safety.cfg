SPECIFICATION Spec
CONSTANTS
  Collectors = {c1, c2}
  FlushLoop = flushLoop
  Closer = closer
  Events = {e1, e2, bad}
  BadEvents = {bad}
  BatchSize = 2
  MaxRetries = 2
SYMMETRY Symmetry
INVARIANTS EachEventOnce DropNeedsFailures DuplicateNeedsLostAnswer
PROPERTY ImplementsSink
