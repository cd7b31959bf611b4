CONSTANTS
  Items = 1
  MaxDefects = 1
  Document <- SmallTree
  Pointer <- NoText
  MaxDepth = 0
  Vector = {v1}
  Schema = {s1}
  MaxTargets = 1
  MaxItems = 0
  Service = {m1}
  NoService = none
  Permission = {p1}
  Other = other
  MaxRows <- ThreePermissions
  Width = 2
  Polynomial <- SmallPolynomial
  MaxBlockSize = 1
  SequenceBits = 0
  Starts = {0}
  Samples <- OneFrame
  Password <- OnePassword
  Normalized <- OneNormalForm
  Secret = {}
  Channel = {"channel"}
  Talker = {t1}
  NonceSpace = 1
  CounterSpace = 1
  MaxSessions = 1
  Client = {c1}
  Relay = relay
  Epoch = {e1}
  MaxSealed = 1
SPECIFICATION Spec
INVARIANTS
  ServicesAreEnabled
CHECK_DEADLOCK FALSE
