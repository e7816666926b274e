SPECIFICATION FairSpec
CONSTANTS
  Conns = {c1, c2}
  Links = {r1, r2}
  NoConn = NoConn
  Stop = Stop
  MaxBreaks = 0
  MaxToggles = 2
  MaxQueue = 3
  MayExit = FALSE
  AllowLimit = TRUE
  NoPeer = {}
  Crypt = {}
  Compress = {}
  Hosted = {r1, r2}
  Limits = {1}
  MaxEdits = 0
  MaxAnswers = 1
INVARIANTS
  ServedWithinLimit
CHECK_DEADLOCK FALSE
