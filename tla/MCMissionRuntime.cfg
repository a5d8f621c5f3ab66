SPECIFICATION FairSpec
CONSTANTS
  MaxGate = 1
  MaxSeq = 0
  Shown = {"idle", "unproven"}
  MaxEpoch = 2
  MaxMission = 2
  MaxSteps = 1
  StopId = {s1}
  StopSlots = 1
  QueueSlots = 1
  RegistrySlots = 2
INVARIANTS FenceInStep BlockedIsTerminal MissionIsBacked OneRunning
PROPERTIES StopMeansStopped MissionEnds
