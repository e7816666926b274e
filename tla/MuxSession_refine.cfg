SPECIFICATION MuxSpec
CONSTANTS
  Ids = {i1}
  MaxWrites = 2
  Faults = {"break", "idle", "replace", "flow"}
INVARIANTS
  InOrder
  NoStreamLeak
PROPERTIES
  ImplementsService
CHECK_DEADLOCK FALSE
