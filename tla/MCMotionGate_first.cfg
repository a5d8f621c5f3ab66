SPECIFICATION Spec
CONSTANTS
  RequestId = {q1, q2}
  Writer = {w1}
  NoWriter = NoWriter
  MaxSeq = 3
  MaxInstance = 1
  Lag = 1
  CacheSize = 1
  PrepareTicks = 1
  AuthorityTicks = 2
  FreshTicks = 1
  GraphTicks = 1
PROPERTIES FirstSampleBounded
