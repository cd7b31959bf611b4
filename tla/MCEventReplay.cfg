CONSTANTS
  Authorized <- MCAuthorized
  Retention = 3
  MaxEvents = 6
  MaxDisconnects = 3
SPECIFICATION Spec
INVARIANTS
  ReceivedInOrder
PROPERTIES
  NoSilentGap
  EveryEventArrives
CHECK_DEADLOCK FALSE
