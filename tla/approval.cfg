SPECIFICATION Spec
CONSTANTS
  Proc = {p1, p2}
  NoProc = NoProc
  Updates = {"pending", "revise", "approved", "archived"}
  MaxOps = 3
SYMMETRY Symmetry
CHECK_DEADLOCK FALSE
INVARIANTS TypeOK OneDraft DraftIsApprovedText AnswerIsTrue GateMovesAreRecorded
PROPERTY SerialStatusFollowsTable
