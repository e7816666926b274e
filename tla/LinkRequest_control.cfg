SPECIFICATION FairSpec
CONSTANTS
  Conns = {c1, c2, c3}
  Links = {r1}
  NoConn = NoConn
  Stop = Stop
  MaxBreaks = 1
  MaxToggles = 1
  MaxQueue = 2
  MayExit = FALSE
  AllowLimit = TRUE
  NoPeer = {}
  Crypt = {r1}
  Compress = {}
  Hosted = {}
  Limits = {0}
  MaxEdits = 0
  MaxAnswers = 1
INVARIANTS
  NoDanglingHandle
PROPERTIES
  EventuallyOnline
  StaleHandlersEnd
  RequestReturns
CHECK_DEADLOCK FALSE
