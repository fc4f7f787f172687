SPECIFICATION Spec
CONSTANTS
  Proc = {p, q}
  Last = 2
  Trigger = {t, u}
  Source = {a}
  Newest = 2
  Reported = {1, 3, 4}
SYMMETRY Symmetry
INVARIANT CanonicalIsAuthoritative
