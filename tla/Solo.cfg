CONSTANTS
  r1 = r1  r2 = r2
  e1 = e1  e2 = e2  e3 = e3
  NoRun = NoRun
  NoEffect = NoEffect
  Runs = {r1}
  Effects = {e1, e2}
  RunOf <- SoloRunOf
  Parent <- SoloParent
  Kind <- SoloKind
  Breakpoints = {}
  Detached = {e2}
  Deletable = {}
  Debugged = {r1}
SPECIFICATION Spec
INVARIANTS
  TypeOK
  NothingPendsOnEndedRun
  SuspendedMeansParked
  WaitingIsVisible
  NoLostWakeup
  ActsOnStoredDecision
  LiveRowHasClosure
PROPERTIES
  OutcomesAreFinal
  DebuggerLeavesApprovals
  ImplementsLedger
CHECK_DEADLOCK FALSE
