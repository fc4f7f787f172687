SPECIFICATION Spec
CONSTANTS
  Op = {w1}
  Slot = {s1}
  ReadLimit = 1
  WriteLimit = 1
  SearchLimit = 1
  Total = 2
  MaxRate = 1
  MaxSchema = 1
  MaxRepair = 0
  MaxRuns = 1
  MaxSearch = 2
CHECK_DEADLOCK FALSE
INVARIANT HostedWithinContract
