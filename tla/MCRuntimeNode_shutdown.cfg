SPECIFICATION FairSpec
CONSTANTS
  Goal = {g1}
  Address = {a1}
  Nobody = Nobody
  MaxStops = 1
  NormalSlots = 1
  ControlSlots = 1
  TicketSlots = 2
  LaneSlots = 1
CHECK_DEADLOCK FALSE
INVARIANT NotStranded
PROPERTIES NoStartAfterRefusedStop DrainedIsStill ShutdownEnds
