SPECIFICATION Spec
CONSTANTS
  None = None
  Interval = 1
  Starts = {2}
  MaxTime = 5
  MAX_GOP_LEN = 3
  MaxGaps = 2
  MaxSlips = 1
  MaxPlays = 2
  Places = {0, 14}
  AbsTimes = {100}
INVARIANT MetadataIntact
CHECK_DEADLOCK FALSE
