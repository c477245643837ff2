SPECIFICATION Spec
CONSTANTS
  Client = {c1, c2}
  Name = {n1, n2}
  Source = {s1, s2}
  Consumer = {k1, k2}
  None = None
  AnswerInHandler = FALSE
  MaxAsked = 2
PROPERTY OnePublishPerClient
