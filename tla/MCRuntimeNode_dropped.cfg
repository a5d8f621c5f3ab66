SPECIFICATION Spec
CONSTANTS
  Goal = {g1}
  Address = {a1}
  Nobody = Nobody
  MaxStops = 0
  NormalSlots = 1
  ControlSlots = 1
  TicketSlots = 2
  LaneSlots = 1
CHECK_DEADLOCK FALSE
INVARIANT QueuedIsAnswered
