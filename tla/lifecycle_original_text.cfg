SPECIFICATION Spec
CONSTANTS
  Exec = {e1}
  Direct = {}
  Cli = {e1}
  Proc = {p1, p2}
  NoExec = NoExec
  NoProc = NoProc
INVARIANT OriginalIsNotReworded
