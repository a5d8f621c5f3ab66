SPECIFICATION Spec
CONSTANTS
  MaxGate = 2
  MaxSeq = 1
  Shown = {"idle", "gone"}
  MaxEpoch = 3
  MaxMission = 1
  MaxSteps = 2
  StopId = {}
  StopSlots = 1
  QueueSlots = 1
  RegistrySlots = 1
PROPERTIES StepsAreEarned EpochFollowsLoss RearmCostsAnEpoch
