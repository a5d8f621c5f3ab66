SPECIFICATION Spec
CONSTANTS
  Artifacts = {posegraph, places}
  MaxSaves = 1
  MaxFaults = 2
INVARIANT
  HalfWrittenNeverShows
