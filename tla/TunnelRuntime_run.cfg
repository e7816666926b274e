SPECIFICATION ListenerSpec
CONSTANTS
  Clients = {ca}
  Ports = {1, 2, 3}
  UdpPorts = {2}
  Refused = {3}
  Threads = {t1, t2}
  Conns = {c1}
  Workers = {w1}
  Uploads = {{}, {1}, {2}}
  NoThread = NoThread
  MaxId = 2
  MaxOps = 2
INVARIANTS
  KeysMatchThreads
  
PROPERTIES
  StoppedCloses
CHECK_DEADLOCK FALSE
