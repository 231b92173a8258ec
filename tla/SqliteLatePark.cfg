CONSTANTS
  r1 = r1
  e1 = e1  e2 = e2
  c1 = c1  c2 = c2
  NoRun = NoRun
  NoEffect = NoEffect
  Runs = {r1}
  Effects = {e1, e2}
  Callers = {c1, c2}
  RunOf <- SqlRunOf
  Parent <- SqlParent
  Kind <- SqlKind
  Breakpoints = {}
  Detached = {e2}
  Deletable = {r1}
  Debugged = {}
SPECIFICATION SqlSpec
SYMMETRY SqlSymmetry
INVARIANTS
  NothingPendsOnEndedRun
CHECK_DEADLOCK FALSE
