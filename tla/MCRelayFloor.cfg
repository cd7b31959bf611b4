CONSTANTS
  Sender <- MCSender
  Policies <- FloorPolicies
  Admission <- FloorAdmission
  Control <- MCControl
  IdentityMode = "required"
  MaxTalkers = 2
  Step = 5
  Horizon = 15
  MaxGrants = 2
SPECIFICATION Spec
INVARIANTS
  FloorSafe
  EveryGrantReleasedOnce
  NoPreemptionCycle
PROPERTY PreemptionIsMinimal
CHECK_DEADLOCK FALSE
