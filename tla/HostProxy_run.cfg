SPECIFICATION Spec
CONSTANTS
  Clients = {c1, c2}
  Forms <- MCForms
  Uploads <- MCUploads
  Asked <- MCAsked
  EndsWith <- MCEndsWith
  Cacheable <- MCCacheable
  CacheLimits = {1}
  Ports = {TRUE}
  JustProxies = {TRUE, FALSE}
  Lines <- MCLines
  Threads = {q1, q2}
  None = None
  MaxEdits = 2
SYMMETRY Symmetry
INVARIANTS
  CacheConsistent
  AnswersFit
  WebHostsDistinct
  Rotation
PROPERTIES
  RouteIsLongest
