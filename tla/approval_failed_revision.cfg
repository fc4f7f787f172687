SPECIFICATION Spec
CONSTANTS
  Proc = {p1}
  NoProc = NoProc
  Updates = {}
  MaxOps = 1
CHECK_DEADLOCK FALSE
INVARIANT FeedbackIsSavedForRetry
