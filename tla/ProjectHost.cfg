CONSTANTS
  c1 = c1  c2 = c2
  rA = rA  rB = rB
  None = None
  Requests = {c1, c2}
  Roots = {rA, rB}
  Asks <- HostAsks
  MaxLoads = 2
  MaxEdits = 2
  MaxErrors = 1
  MaxGen = 1
SPECIFICATION Spec
INVARIANTS
  RegistryInUseIsLive
  ReplacedRegistriesGo
  WatchFollowsProject
  EditIsLoaded
CHECK_DEADLOCK FALSE
