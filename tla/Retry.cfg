CONSTANTS
  R = R  K = K  L = L
  a = a  b = b  c = c  d = d  k = k  l = l
  Runs = {R, K, L}
  Root = R
  Steps = {a, b, c, d, k, l}
  Nowhere = Nowhere
  Encl <- RetryEncl
  Awaits <- RetryAwaits
  Impure = {l}
  Throws = {k, d}
  Cancels = {R}
  MaxClock = 1
SPECIFICATION Spec
INVARIANTS
  TypeOK
  TargetIsReached
  LaterWorkRunsAgain
  ImpureRunsAgain
PROPERTIES
  CopiesKeepOutcome
CHECK_DEADLOCK FALSE
