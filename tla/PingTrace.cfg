SPECIFICATION LiveSpec
CONSTANTS
  Types = {"c", "s"}
  MaxTTL = 2
  Distance = 2
  ResultCap = 1
  MaxStarts = 1
  MaxTraces = 2
  MaxForeign = 2
INVARIANTS OnlyAnswersEndTraces OneLateAnswer
PROPERTIES ClientsEnd
CHECK_DEADLOCK FALSE
