SPECIFICATION Spec
CONSTANTS
  Override = 1001
  Tables <- MCTables
  MaxRetries = 100
  MaxElems = 2
  MaxArgs = 3
  MaxFields = 2
  MaxBlocks = 2
INVARIANTS
  KernelAgrees
  RoundTrip
  FieldsComeBack
  TruncationOnlyLoses
  TableIsHistory
  ManualIsLastResort
  BackoffBounded
CHECK_DEADLOCK FALSE
