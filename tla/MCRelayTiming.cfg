CONSTANTS
  Sender <- MCSender
  Policies <- MCPolicies
  Admission <- TimingAdmission
  Control <- MCControl
  IdentityMode = "required"
  MaxTalkers = 1
  Step = 5
  Horizon = 25
  MaxGrants = 1
SPECIFICATION FairSpec
INVARIANTS
  AdmissionEndsTalk
PROPERTIES
  TalkLeaseFixed
  LapseIsFinal
  SnapshotHolds
  OverdueIsReleased
CHECK_DEADLOCK FALSE
