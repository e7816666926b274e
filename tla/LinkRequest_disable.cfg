SPECIFICATION FairSpec
CONSTANTS
  Conns = {c1, c2, c3}
  Links = {}
  NoConn = NoConn
  Stop = Stop
  MaxBreaks = 0
  MaxToggles = 1
  MaxQueue = 3
  MayExit = FALSE
  AllowLimit = TRUE
  NoPeer = {}
  Crypt = {}
  Compress = {}
  Hosted = {}
  Limits = {1}
  MaxEdits = 0
  MaxAnswers = 1
PROPERTIES
  DisabledGoesOffline
CHECK_DEADLOCK FALSE
