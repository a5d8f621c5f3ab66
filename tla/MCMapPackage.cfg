SPECIFICATION Spec
CONSTANTS
  Artifacts = {posegraph, places}
  MaxSaves = 3
  MaxFaults = 4
SYMMETRY ArtifactSymmetry
INVARIANTS
  SucceededIsDurable
  RemovedIsGone
  PublishedIsWhole
  ReadIsWhole
