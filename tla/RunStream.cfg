CONSTANTS
  MaxSeq = 4
  MaxFaults = 3
SPECIFICATION Spec
INVARIANTS
  ShownIsPrefixOfLog
  OnlyLostRunsAreFailed
PROPERTIES
  LostEventIsLast
  TerminalIsShown
  LostRunIsSettled
CHECK_DEADLOCK FALSE
