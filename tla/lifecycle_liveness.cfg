SPECIFICATION FairSpec
CONSTANTS
  Exec = {e1, e2}
  Direct = {e2}
  Cli = {e1}
  Proc = {p1, p2}
  NoExec = NoExec
  NoProc = NoProc
PROPERTIES LocksAreReleased
