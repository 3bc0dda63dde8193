SPECIFICATION FairSpec
CONSTANTS
  edge = edge
  clickhouse = clickhouse
  Collectors = {"tls_trace", "http2_trace"}
  Outputs <- MCOutputs
  Events = {e1, e2}
INVARIANTS LateIsInFlight StartedAreReleased
PROPERTIES GoroutineEnds ShutdownCompletes EventsAreHandedOn
