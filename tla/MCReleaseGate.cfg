CONSTANTS
  Release <- MCRelease
  OtherTag <- MCOtherTag
  MaxCommits = 2
SPECIFICATION Spec
INVARIANTS
  OneTreePerRelease
  GreenTagIsRelease
  AtomicPushAgrees
CHECK_DEADLOCK FALSE
