CONSTANTS
  a = a
  b = b
  Reqs = {r1, r2}
  IDs = {a}
  Inputs <- CounterUpdate
  EnvFaults <- NoFaults
  MaxStarts = 1
SPECIFICATION Spec
CHECK_DEADLOCK FALSE
INVARIANT AcceptedKept
