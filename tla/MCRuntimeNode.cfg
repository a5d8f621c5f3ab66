SPECIFICATION Spec
CONSTANTS
  Goal = {g1, g2}
  Address = {a1, a2}
  Nobody = Nobody
  MaxStops = 0
  NormalSlots = 2
  ControlSlots = 1
  TicketSlots = 2
  LaneSlots = 1
SYMMETRY Symmetry
CHECK_DEADLOCK FALSE
INVARIANTS TypeOK AcceptedIsSomewhere NobodyForgotten OneTerminal
