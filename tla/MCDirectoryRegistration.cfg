CONSTANTS
  k1 = k1
  k2 = k2
  e1 = e1
  e2 = e2
  Key <- MCKey
  Endpoint <- MCEndpoint
  Capacity = 1
  Step = 15
  MaxDelay = 15
  Pace = 30
  Horizon = 120
  MaxMoves = 1
  MaxRestarts = 1
SYMMETRY MCSymmetry
SPECIFICATION Spec
INVARIANTS
  StaysRegistered
  HealsInTime
CHECK_DEADLOCK FALSE
