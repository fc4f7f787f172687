SPECIFICATION Spec
CONSTANTS
  Proc = {p1, p2, p3, p4}
  NoProc = NoProc
  Budget = 2
  Ceiling = 2
  NoLimit = NoLimit
  NoLease = NoLease
  Cap = 3
SYMMETRY Symmetry
INVARIANTS AccountInv WithinBudget WithinLimit LeasesAreKept LedgerCoversChildren
CHECK_DEADLOCK FALSE
