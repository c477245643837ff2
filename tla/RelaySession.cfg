SPECIFICATION FairSpec
CONSTANTS
  None = None
  FirstTransId = 6
  MaxTransId = 7
  MaxStreamId = 10
  Modulus = 16
  MaxSpan = 3
  MaxCalls = 6
  MaxDeletes = 3
INVARIANTS TypeOK AnswersMatch RelayAgrees IdsNew
PROPERTY CallsAnswered
CHECK_DEADLOCK FALSE
