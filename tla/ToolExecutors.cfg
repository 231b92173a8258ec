CONSTANTS
  old = old  new = new
  c1 = c1  c2 = c2  c3 = c3
  Providers = {old, new}
  Commands = {c1, c2, c3}
  ProviderOf <- CommandProviders
  NoExecutor = NoExecutor
  MaxExecutors = 2
  MaxFaults = 1
SPECIFICATION Spec
INVARIANTS
  CountIsHolders
  HoldersShareLiveExecutor
  NoStraySupervisor
PROPERTIES
  CommandsSettle
CHECK_DEADLOCK FALSE
