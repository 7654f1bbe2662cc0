SPECIFICATION Spec
CONSTANTS
  Threads = {1, 2}
  DefaultCalls = 3
  Limit = 2
  Window = 2
  Life = 2
  Margin = 1
  MaxCalls = 4
  Capacity = 2
  PageLimit = 1
  LevelOf <- ErrorInfoError
  Ticks = {1, 2}
  MaxRecords = 3
  MaxResets = 1
INVARIANTS ClientTypeOK RefusalExplained BearerValid LogTypeOK ShownOnce NothingSlips
PROPERTY CallReturns
CHECK_DEADLOCK FALSE
