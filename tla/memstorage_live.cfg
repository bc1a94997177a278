CONSTANTS
  a = a
  b = b
  Reqs = {r1, r2}
  IDs = {a, b}
  Inputs <- FewInputs
  EnvFaults <- NoFaults
  MaxStarts = 1
SPECIFICATION FairSpec
CHECK_DEADLOCK FALSE
PROPERTIES
  ShutdownEnds
  BackupCatchesUp
  StoreSpec
