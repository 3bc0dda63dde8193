SPECIFICATION Spec
CONSTANTS
  Override = 1001
  Tables <- MCTables
  MaxRetries = 100
  MaxElems = 2
  MaxArgs = 3
  MaxFields = 2
  MaxBlocks = 2
INVARIANT ServerNameIsFound
CHECK_DEADLOCK FALSE
