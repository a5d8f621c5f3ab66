SPECIFICATION FairSpec
CONSTANTS
  RequestId = {q1, q2}
  Writer = {w1}
  NoWriter = NoWriter
  MaxSeq = 3
  MaxInstance = 2
  Lag = 0
  CacheSize = 1
  PrepareTicks = 1
  AuthorityTicks = 2
  FreshTicks = 1
  GraphTicks = 1
CONSTRAINT UpToTheRestart
PROPERTIES ServiceSpec LeaseSpec DeadmanZero
