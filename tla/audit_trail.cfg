CONSTANTS
  Reqs = {r1, r2, r3}
  Configs <- AllConfigs
  AuditCap = 1
  EnvFaults <- Faults
  MaxStarts = 2
SPECIFICATION FairSpec
CHECK_DEADLOCK FALSE
INVARIANTS
  TypeOK
  AuditOrder
  AuditedFirst
  AuditLag
  PostedFollowsFile
PROPERTY
  BatchesAnsweredWithFile
