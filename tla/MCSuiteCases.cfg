CONSTANTS
  Items = 2
  MaxDefects = 2
  Document <- Tree
  Pointer <- Texts
  MaxDepth = 2
  Vector = {v1}
  Schema = {s1, s2}
  MaxTargets = 2
  MaxItems = 2
  Service = {m1}
  NoService = none
  Permission = {p1}
  Other = other
  MaxRows <- ThreePermissions
  Width = 8
  Polynomial <- FieldPolynomial
  MaxBlockSize = 6
  SequenceBits = 16
  Starts <- TwoStarts
  Samples <- TwoFrames
  Password <- ThreePasswords
  Normalized <- NormalForms
  Secret = {"secret"}
  Channel = {"channel 1", "channel 2"}
  Talker = {t1, t2}
  NonceSpace = 12
  CounterSpace = 3
  MaxSessions = 3
  Client = {c1, c2}
  Relay = relay
  Epoch = {e1, e2, e3}
  MaxSealed = 2
SPECIFICATION Spec
INVARIANTS
  TypeOK
  SuccessMeansAllMatched
  DefectsAreNamed
  EveryPlaceIsFound
  TargetsAreJudgedAlone
  RowOrderIrrelevant
  BlocksRecovered
  KeysAsDerived
  NonceOnce
CHECK_DEADLOCK FALSE
