SPECIFICATION Spec
CONSTANTS
  MaxGate = 1
  MaxSeq = 0
  Shown = {"idle", "gone"}
  MaxEpoch = 3
  MaxMission = 2
  MaxSteps = 1
  StopId = {s1}
  StopSlots = 1
  QueueSlots = 1
  RegistrySlots = 2
INVARIANT RoomForTheNext
