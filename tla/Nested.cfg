CONSTANTS
  r1 = r1  r2 = r2
  e1 = e1  e2 = e2  e3 = e3
  NoRun = NoRun
  NoEffect = NoEffect
  Runs = {r1, r2}
  Effects = {e3}
  RunOf <- NestedRunOf
  Parent <- NestedParent
  Kind <- NestedKind
  Breakpoints = {}
  Detached = {}
  Deletable = {r1}
  Debugged = {}
SPECIFICATION FairSpec
PROPERTIES
  CancelUnwinds
  EndReleasesParked
  AnswerReachesClosure
CHECK_DEADLOCK FALSE
