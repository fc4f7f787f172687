SPECIFICATION Spec
CONSTANTS
  Proc = {p, q}
  Last = 2
  Trigger = {t, u}
  Source = {a}
  Newest = 2
  Reported = {1, 4}
SYMMETRY Symmetry
INVARIANTS TypeOK OneOwner DoneIsOver ReadOnce
PROPERTIES OwnersKeepWork ImplementsOwners
