CONSTANTS
  MaxSeq = 3
  MaxFaults = 0
SPECIFICATION Spec
INVARIANTS
  StreamEndsWithTerminal
CHECK_DEADLOCK FALSE
