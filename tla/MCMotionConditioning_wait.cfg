SPECIFICATION Spec
CONSTANTS
  MaxPrepares = 1
  MaxStops = 1
  MaxGates = 1
  MaxFaults = 1
  Leftovers <- AnyLeftovers
PROPERTIES
  BarrierIsForCalls
