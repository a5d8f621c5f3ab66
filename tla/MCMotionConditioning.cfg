SPECIFICATION FairSpec
CONSTANTS
  MaxPrepares = 3
  MaxStops = 2
  MaxGates = 2
  MaxFaults = 2
  Leftovers <- AnyLeftovers
INVARIANTS
  StoppedIsStill
  ZeroIsTrue
  OneCleaner
  FreshGeneration
PROPERTIES
  TeardownEnds
