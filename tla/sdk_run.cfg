SPECIFICATION Spec
CONSTANTS
  Op = {w1, w2}
  Slot = {s1, s2}
  ReadLimit = 1
  WriteLimit = 2
  SearchLimit = 0
  Total = 2
  MaxRate = 1
  MaxSchema = 1
  MaxRepair = 1
  MaxRuns = 2
  MaxSearch = 1
SYMMETRY Symmetry
CHECK_DEADLOCK FALSE
INVARIANTS TypeOK WriteIsNotRepeated ReadShowsVerified WithinContract
PROPERTIES RepairIsToolFree ImplementsLedger
