CONSTANTS
  Reqs = {r1, r2}
  Configs <- UrlOnly
  AuditCap = 1
  EnvFaults <- NoFaults
  MaxStarts = 1
SPECIFICATION Spec
CHECK_DEADLOCK FALSE
INVARIANT UrlGetsEntries
