CONSTANTS
  Count <- TwoByTwo
  Window = 4
  MaxRepeats = 1
  Pages <- ManyPages
  MaxLapses = 4
  Chunk <- TwoChunks
  MaxChanges = 1
  MaxRequests = 3
  MaxFaults = 2
  Interval = 2
  Maximum = 1
SPECIFICATION Spec
PROPERTY NewestStays
CHECK_DEADLOCK FALSE
