CONSTANTS
  Reqs = {r1, r2, r3}
  Configs <- Unconfigured
  AuditCap = 2
  EnvFaults <- NoFaults
  MaxStarts = 1
SPECIFICATION FairSpec
CHECK_DEADLOCK FALSE
PROPERTY BatchesAnswered
