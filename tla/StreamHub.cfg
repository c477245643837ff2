SPECIFICATION FairSpec
CONSTANTS
  Client = {c1, c2}
  Name = {n1, n2}
  Source = {s1, s2}
  Consumer = {k1, k2}
  None = None
  AnswerInHandler = TRUE
  MaxAsked = 1
INVARIANTS TypeOK SourcesAccounted PlayersReachable PoolSuffices
PROPERTIES NobodyLeftWaiting ImplementsPubSub ClosedClientsGo
