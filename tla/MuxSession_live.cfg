SPECIFICATION FairMuxSpec
CONSTANTS
  Ids = {i1, i2}
  MaxWrites = 0
  Faults = {}
PROPERTIES
  CloseArrives
  ImplementsService
CHECK_DEADLOCK FALSE
