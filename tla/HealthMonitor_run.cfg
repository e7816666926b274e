SPECIFICATION FairSpec
CONSTANTS
  Checks <- MCChecks
  Keys = {k1, k2}
  Reports = {r1, r2}
  NoReport = NoReport
  MaxFaults = 1
  MaxEdits = 2
PROPERTIES
  MaskIsRemembered
  FailingIsMasked
  PassingIsRestored
