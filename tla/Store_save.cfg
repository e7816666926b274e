SPECIFICATION Spec
CONSTANTS
  VKeys = {va, vb}
  PublicKey = va
  Workers = {w1, w2}
  MaxId = 3
  MaxEdits = 2
  MaxCrashes = 2
  MaxFails = 1
INVARIANTS
  AlwaysLoadable
  RestartRestores
  IdsBelowSeq
SYMMETRY WorkerSymmetry
CHECK_DEADLOCK FALSE
