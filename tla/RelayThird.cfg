SPECIFICATION Spec
CONSTANTS
  None = None
  FirstTransId = 6
  MaxTransId = 7
  MaxStreamId = 10
  Modulus = 16
  MaxSpan = 3
  MaxCalls = 6
  MaxDeletes = 3
INVARIANT InTurnAgree
CHECK_DEADLOCK FALSE
