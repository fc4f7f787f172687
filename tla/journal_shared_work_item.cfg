SPECIFICATION Spec
CONSTANTS
  Exec = {e1, e2, e3}
  Key = {k1}
  Item = {i1}
  NoItem = NoItem
  Object = {x1, x2}
  NoObject = NoObject
  Worker = {w1, w2}
  NoOp = NoOp
SYMMETRY Symmetry
INVARIANTS TypeOK AtMostOneWrite NoEffectIsTrue IdentifiedIsPresent OneUnnamedEffect ReplayIsReal
PROPERTIES IdentityIsFinal ImplementsLedger
CHECK_DEADLOCK FALSE
