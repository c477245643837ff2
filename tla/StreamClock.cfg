SPECIFICATION Spec
CONSTANTS
  None = None
  Interval = 1
  Starts = {2}
  MaxTime = 6
  MAX_GOP_LEN = 3
  MaxGaps = 2
  MaxSlips = 1
  MaxPlays = 2
  Places = {14}
  AbsTimes = {100, 200}
INVARIANTS TypeOK InSync ToldRight
CHECK_DEADLOCK FALSE
