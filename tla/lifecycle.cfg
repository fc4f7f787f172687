SPECIFICATION Spec
CONSTANTS
  Exec = {e1, e2}
  Direct = {}
  Cli = {e1}
  Proc = {p1, p2}
  NoExec = NoExec
  NoProc = NoProc
SYMMETRY Symmetry
INVARIANTS TypeOK OneDriver DecisionStands CompletedIsQuiet RowMatchesGraph RunningIsNotAbandoned
PROPERTIES FinalResultStays ImplementsDrivenWork
