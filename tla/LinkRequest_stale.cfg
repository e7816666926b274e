SPECIFICATION FairSpec
CONSTANTS
  Conns = {c1, c2, c3}
  Links = {}
  NoConn = NoConn
  Stop = Stop
  MaxBreaks = 1
  MaxToggles = 0
  MaxQueue = 3
  MayExit = FALSE
  AllowLimit = TRUE
  NoPeer = {}
  Crypt = {}
  Compress = {}
  Hosted = {}
  Limits = {1}
  MaxEdits = 0
  MaxAnswers = 1
PROPERTIES
  OnlyOwnHandlerRemoves
CHECK_DEADLOCK FALSE
