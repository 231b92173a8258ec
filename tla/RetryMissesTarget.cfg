CONSTANTS
  R = R  K = K  L = L
  a = a  b = b  c = c  d = d  k = k  l = l
  Runs = {R, K, L}
  Root = R
  Steps = {a, l}
  Nowhere = Nowhere
  Encl <- DirectEncl
  Awaits <- DirectAwaits
  Impure = {}
  Throws = {}
  Cancels = {}
  MaxClock = 1
SPECIFICATION Spec
INVARIANTS
  EveryTargetIsReached
CHECK_DEADLOCK FALSE
