SPECIFICATION FairSpec
CONSTANTS
  Modes = {TRUE, FALSE}
  Limits = {0, 1}
  MaxUp = 2
  MaxDown = 1
  MaxFaults = 1
INVARIANTS
  InOrder
  EndAfterAll
  LimitStops
PROPERTIES
  ClosedRelayEnds
CHECK_DEADLOCK FALSE
