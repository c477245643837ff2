SPECIFICATION FairSpec
CONSTANTS
  Client = {c1, c2}
  max_client_num = 1
  Leftover = {"NULL", "stale"}
INVARIANTS TypeOK CountExact DataFits TimerNeverDangles ClosedMeansClosed
PROPERTIES ClosedIsFinal SilentSessionsEnd
CHECK_DEADLOCK FALSE
