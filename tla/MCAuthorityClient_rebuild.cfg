SPECIFICATION ClientSpec
CONSTANTS
  RequestId = {q1, q2}
  MaxSeq = 3
  MaxInstance = 1
  CacheSize = 3
  MaxTries = 2
  MaxFlight = 1
SYMMETRY Symmetry
CHECK_DEADLOCK FALSE
PROPERTIES
  RebuiltWhenStale
