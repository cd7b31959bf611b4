CONSTANTS
  g1 = g1
  g2 = g2
  whole = whole
  extend = extend
  one = one
  Unset = Unset
  Grant <- MCGrant
  GrantClaims <- MCGrantClaims
  Command <- MCCommand
  CommandBody <- MCCommandBody
  CommandWindow = 4
  Retention = 2
  PclEnabled = TRUE
  Horizon = 5
SPECIFICATION Spec
INVARIANT DuplicateResendsCachedAck
CHECK_DEADLOCK FALSE
