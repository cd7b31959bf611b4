CONSTANTS
  Window = 3
  Counter <- MCCounter
  Base <- MCBase
SPECIFICATION Spec
INVARIANTS
  AtMostOnceAccepted
  WindowIsHistory
  GenuineIsAccepted
  OrdersAgree
PROPERTY PromiseSpec
CHECK_DEADLOCK FALSE
