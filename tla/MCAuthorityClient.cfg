SPECIFICATION RunSpec
CONSTANTS
  RequestId = {q1, q2}
  MaxSeq = 3
  MaxInstance = 2
  CacheSize = 3
  MaxTries = 2
  MaxFlight = 1
SYMMETRY Symmetry
CHECK_DEADLOCK FALSE
INVARIANTS
  WatermarkTrue
  ProvenLeaseOver
PROPERTIES
  EffectOnce
  WatermarkAdvances
  BoundStaysHome
