SPECIFICATION Spec
CONSTANTS
  Conns = {c1, c2}
  Links = {r1, r2}
  NoConn = NoConn
  Stop = Stop
  MaxBreaks = 0
  MaxToggles = 1
  MaxQueue = 3
  MayExit = TRUE
  AllowLimit = TRUE
  NoPeer = {r1}
  Crypt = {}
  Compress = {r2}
  Hosted = {}
  Limits = {0, 1}
  MaxEdits = 1
  MaxAnswers = 2
SYMMETRY ConnSymmetry
INVARIANTS
  TypeOK
  SlotLimit
  SlotAccounting
  NoPendingLeak
  AtMostOneStream
CHECK_DEADLOCK FALSE
