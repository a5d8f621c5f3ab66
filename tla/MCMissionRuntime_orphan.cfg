SPECIFICATION Spec
CONSTANTS
  MaxGate = 2
  MaxSeq = 0
  Shown = {"idle", "gone"}
  MaxEpoch = 3
  MaxMission = 1
  MaxSteps = 1
  StopId = {s1}
  StopSlots = 1
  QueueSlots = 1
  RegistrySlots = 1
INVARIANT AvailableHasNoChild
