SPECIFICATION Spec
CONSTANTS
  RequestId = {q1, q2}
  Writer = {w1, w2}
  NoWriter = NoWriter
  MaxSeq = 4
  MaxInstance = 1
  Lag = 1
  CacheSize = 1
  PrepareTicks = 1
  AuthorityTicks = 2
  FreshTicks = 1
  GraphTicks = 1
SYMMETRY Symmetry
INVARIANTS
  TypeOK
  OutputAuthorised
  ProvenZeroHolds
  RetiredWriterGone
  ReaderFollowsLease
PROPERTIES
  SequenceNamesTuple
